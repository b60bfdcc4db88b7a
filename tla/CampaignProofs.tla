--------------------------- MODULE CampaignProofs ---------------------------
(* Proofs about Campaign, for any number of campaigns, recipients, requests *)
(* and runs: the scheduler begins a campaign once, no run repeats a send,   *)
(* and a final status accounts for every recipient.                         *)
EXTENDS Campaign, TLAPS, FiniteSetTheorems

-----------------------------------------------------------------------------
(* Types, and where the local variables of Run have a value.               *)

Final == {"completed", "failed"}
Working == {"loop", "sent", "failed", "counters", "finish"}

TypeOK ==
    /\ status \in [Campaigns -> Status]
    /\ sentCount \in [Campaigns -> Nat]
    /\ failedCount \in [Campaigns -> Nat]
    /\ row \in [Campaigns -> [Recipients -> RowStatus]]
    /\ due \subseteq Campaigns
    /\ pc \in [Runners -> Step]
    /\ campaign \in [Runners -> Campaigns \cup {None}]
    /\ todo \in [Runners -> SUBSET Recipients]
    /\ current \in [Runners -> Recipients \cup {None}]
    /\ sent \in [Runners -> Nat]
    /\ failed \in [Runners -> Nat]
    /\ listed \subseteq Campaigns
    /\ sends \in [Campaigns -> [Recipients -> Nat]]
    /\ tried \in [Campaigns -> SUBSET Recipients]
    /\ runs \in [Campaigns -> Nat]
    /\ scheduledRuns \in [Campaigns -> Nat]
    /\ faulted \subseteq Campaigns

Local(r) ==
    /\ pc[r] = "idle" <=> campaign[r] = None
    /\ current[r] # None <=> pc[r] \in {"sent", "failed"}
    /\ todo[r] # {} => pc[r] \in {"loop", "sent", "failed"}
    /\ pc[r] \in {"idle", "starting"} => sent[r] = 0 /\ failed[r] = 0
    /\ campaign[r] # None => status[campaign[r]] # "none"

Control ==
    /\ \A r \in Runners : Local(r)
    /\ \A c \in listed : status[c] # "none"

(* A step of Run, by whoever made it, of the callers or of the tables. *)
LEMMA NextCases ==
    ASSUME [Next]_vars
    PROVE  \/ UNCHANGED vars
           \/ Tick
           \/ Restart
           \/ \E c \in Campaigns : CreateScheduled(c) \/ TimeComes(c) \/ RunListed(c)
           \/ \E r \in Callers, c \in Campaigns : CreateImmediate(r, c) \/ RunByHand(r, c)
           \/ \E r \in Runners :
                 \/ Begin(r) \/ Record(r) \/ EndLoop(r) \/ UpdateCounters(r) \/ Finish(r)
                 \/ Abort(r)
                 \/ \E p \in Recipients : SendSucceeds(r, p) \/ SendFails(r, p)
<1>1. Scheduler \in Runners /\ Callers \subseteq Runners
  BY DEF Runners
<1>2. ASSUME NEW r \in Runners, RunStep(r)
      PROVE  \/ Begin(r) \/ Record(r) \/ EndLoop(r) \/ UpdateCounters(r) \/ Finish(r)
             \/ \E p \in Recipients : SendSucceeds(r, p) \/ SendFails(r, p)
  BY <1>2 DEF RunStep
<1>3. CASE SchedulerStep
  BY <1>1, <1>2, <1>3 DEF SchedulerStep
<1>4. ASSUME NEW r \in Callers, RunStep(r)
      PROVE  \E q \in Runners :
                \/ Begin(q) \/ Record(q) \/ EndLoop(q) \/ UpdateCounters(q) \/ Finish(q)
                \/ \E p \in Recipients : SendSucceeds(q, p) \/ SendFails(q, p)
  BY <1>1, <1>2, <1>4
<1> QED
  BY <1>3, <1>4 DEF Next

(* What the variables of a runner are at each place of Run. *)
LEMMA RunnerIs ==
    ASSUME TypeOK, Control, NEW r \in Runners
    PROVE  /\ pc[r] # "idle" => campaign[r] \in Campaigns
           /\ pc[r] \in {"sent", "failed"} => current[r] \in Recipients
           /\ pc[r] \notin {"sent", "failed"} => current[r] = None
           /\ pc[r] \notin {"loop", "sent", "failed"} => todo[r] = {}
BY DEF TypeOK, Control, Local

(* Nobody runs at first, and no campaign exists. *)
LEMMA InitTypes == Init => TypeOK /\ Control
BY DEF Init, NobodyRuns, TypeOK, Control, Local, Status, RowStatus, Step

(* A call of Run moves one idle runner. *)
LEMMA CallsTyped ==
    ASSUME TypeOK, NEW r \in Runners, NEW c \in Campaigns, Calls(r, c)
    PROVE  /\ pc' \in [Runners -> Step]
           /\ campaign' \in [Runners -> Campaigns \cup {None}]
           /\ UNCHANGED <<todo, current, sent, failed>>
BY DEF TypeOK, Calls, GoTo, At, Step, loopVars

(* A runner that leaves Run has its variables cleared. *)
LEMMA LeavesTyped ==
    ASSUME TypeOK, NEW r \in Runners, Leaves(r)
    PROVE  /\ pc' \in [Runners -> Step]
           /\ campaign' \in [Runners -> Campaigns \cup {None}]
           /\ todo' \in [Runners -> SUBSET Recipients]
           /\ current' \in [Runners -> Recipients \cup {None}]
           /\ sent' \in [Runners -> Nat]
           /\ failed' \in [Runners -> Nat]
BY DEF TypeOK, Leaves, GoTo, Step

(* Each step stores a value of the right type. *)
LEMMA TypeStep == TypeOK /\ Control /\ [Next]_vars => TypeOK'
<1> SUFFICES ASSUME TypeOK, Control, [Next]_vars PROVE TypeOK'
  OBVIOUS
<1> USE DEF tableVars, loopVars, runVars, historyVars
<1>1. CASE UNCHANGED vars
  BY <1>1 DEF TypeOK, vars
<1>2. CASE Tick
  BY <1>2 DEF TypeOK, Tick, Due
<1>3. CASE Restart
  <2>1. {campaign[r] : r \in {q \in Runners : pc[q] # "idle"}} \subseteq Campaigns
    BY RunnerIs
  <2>2. faulted' \subseteq Campaigns
    BY <1>3, <2>1 DEF TypeOK, Restart
  <2> QED
    BY <1>3, <2>2 DEF TypeOK, Restart, Step
<1>4. ASSUME NEW c \in Campaigns, CreateScheduled(c) \/ TimeComes(c) PROVE TypeOK'
  BY <1>4 DEF TypeOK, CreateScheduled, TimeComes, Status
<1>5. ASSUME NEW c \in Campaigns, RunListed(c) PROVE TypeOK'
  BY <1>5, CallsTyped DEF TypeOK, RunListed, Runners
<1>6. ASSUME NEW r \in Callers, NEW c \in Campaigns, CreateImmediate(r, c) PROVE TypeOK'
  BY <1>6, CallsTyped DEF TypeOK, CreateImmediate, Runners, Status
<1>7. ASSUME NEW r \in Callers, NEW c \in Campaigns, RunByHand(r, c) PROVE TypeOK'
  BY <1>7, CallsTyped DEF TypeOK, RunByHand, Runners
<1>8. ASSUME NEW r \in Runners, Begin(r) PROVE TypeOK'
  <2>1. campaign[r] \in Campaigns
    BY <1>8, RunnerIs DEF Begin, At
  <2> QED
    BY <1>8, <2>1 DEF TypeOK, Begin, At, GoTo, Step, Status
<1>9. ASSUME NEW r \in Runners, Record(r) PROVE TypeOK'
  <2>1. PICK c \in Campaigns, p \in Recipients : c = campaign[r] /\ p = current[r]
    BY <1>9, RunnerIs DEF Record, At
  <2>2. row' \in [Campaigns -> [Recipients -> RowStatus]]
    <3>1. PICK v \in RowStatus : row' = [row EXCEPT ![c][p] = v] \/ row' = row
      BY <1>9, <2>1 DEF Record, At, RowStatus
    <3>2. row \in [Campaigns -> [Recipients -> RowStatus]]
      BY DEF TypeOK
    <3> QED
      BY <2>1, <3>1, <3>2
  <2>3. tried' \in [Campaigns -> SUBSET Recipients] /\ faulted' \subseteq Campaigns
    BY <1>9, <2>1 DEF TypeOK, Record
  <2> QED
    BY <1>9, <2>2, <2>3 DEF TypeOK, Record, GoTo, Step
<1>10. ASSUME NEW r \in Runners, EndLoop(r) PROVE TypeOK'
  BY <1>10 DEF TypeOK, EndLoop, GoTo, Step
<1>11. ASSUME NEW r \in Runners, UpdateCounters(r) PROVE TypeOK'
  BY <1>11 DEF TypeOK, UpdateCounters, GoTo, Step
<1>12. ASSUME NEW r \in Runners, Finish(r) PROVE TypeOK'
  BY <1>12, LeavesTyped DEF TypeOK, Finish, Status
<1>13. ASSUME NEW r \in Runners, Abort(r) PROVE TypeOK'
  <2>1. campaign[r] \in Campaigns
    BY <1>13, RunnerIs DEF Abort
  <2> QED
    BY <1>13, <2>1, LeavesTyped DEF TypeOK, Abort
<1>14. ASSUME NEW r \in Runners, NEW p \in Recipients, SendSucceeds(r, p) PROVE TypeOK'
  <2>1. campaign[r] \in Campaigns
    BY <1>14, RunnerIs DEF SendSucceeds, At
  <2>2. sends' \in [Campaigns -> [Recipients -> Nat]]
    BY <1>14, <2>1 DEF TypeOK, SendSucceeds
  <2> QED
    BY <1>14, <2>2 DEF TypeOK, SendSucceeds, GoTo, Step
<1>15. ASSUME NEW r \in Runners, NEW p \in Recipients, SendFails(r, p) PROVE TypeOK'
  BY <1>15 DEF TypeOK, SendFails, GoTo, Step
<1> QED
  BY <1>1, <1>2, <1>3, <1>4, <1>5, <1>6, <1>7, <1>8, <1>9, <1>10, <1>11, <1>12,
     <1>13, <1>14, <1>15, NextCases

(* Each step leaves the locals of its runner as its place asks, and those of *)
(* the others alone; no step takes a campaign away.                          *)
LEMMA ControlStep == TypeOK /\ Control /\ [Next]_vars => Control'
<1> SUFFICES ASSUME TypeOK, Control, [Next]_vars PROVE Control'
  OBVIOUS
<1> USE CampaignAssumption DEF tableVars, loopVars, runVars, historyVars
<1> DEFINE Kept == \A c \in Campaigns : status[c] # "none" => status'[c] # "none"
<1>0. Kept
  <2>1. CASE status' = status
    BY <2>1
  <2>2. ASSUME NEW r \in Runners, Begin(r) \/ Finish(r) PROVE Kept
    BY <2>2 DEF Begin, Finish, TypeOK
  <2>3. ASSUME NEW c \in Campaigns, CreateScheduled(c) PROVE Kept
    BY <2>3 DEF CreateScheduled, TypeOK
  <2>4. ASSUME NEW r \in Callers, NEW c \in Campaigns, CreateImmediate(r, c) PROVE Kept
    BY <2>4 DEF CreateImmediate, TypeOK
  <2>5. ASSUME NEW r \in Runners,
               \/ Record(r) \/ EndLoop(r) \/ UpdateCounters(r) \/ Abort(r)
               \/ \E p \in Recipients : SendSucceeds(r, p) \/ SendFails(r, p)
        PROVE  status' = status
    BY <2>5 DEF Record, EndLoop, UpdateCounters, Abort, SendSucceeds, SendFails
  <2> HIDE DEF Kept
  <2> QED
    BY <2>1, <2>2, <2>3, <2>4, <2>5, NextCases DEF vars, Tick, Restart, TimeComes, RunListed,
       RunByHand
<1>1. \A c \in listed' : status'[c] # "none"
  BY <1>0, NextCases DEF vars, Tick, Restart, CreateScheduled, TimeComes, RunListed,
     CreateImmediate, RunByHand, Begin, Record, EndLoop, UpdateCounters, Finish, Abort,
     SendSucceeds, SendFails, Due, TypeOK, Control
<1>2. ASSUME NEW r \in Runners, UNCHANGED <<pc, campaign, loopVars>> PROVE Local(r)'
  BY <1>0, <1>2 DEF Local, Control, TypeOK
<1>3. ASSUME NEW r \in Runners, NEW q \in Runners, NEW c \in Campaigns, Calls(q, c),
             status'[c] # "none"
      PROVE  Local(r)'
  BY <1>0, <1>3 DEF TypeOK, Control, Local, Calls, GoTo, At
<1>4. ASSUME NEW r \in Runners, NEW q \in Runners, Leaves(q) PROVE Local(r)'
  BY <1>0, <1>4 DEF TypeOK, Control, Local, Leaves, GoTo
<1>5. ASSUME NEW r \in Runners, NEW q \in Runners, Begin(q) PROVE Local(r)'
  BY <1>0, <1>5 DEF TypeOK, Control, Local, Begin, GoTo, At
<1>6. ASSUME NEW r \in Runners, NEW q \in Runners, Record(q) PROVE Local(r)'
  BY <1>0, <1>6 DEF TypeOK, Control, Local, Record, GoTo, At
<1>7. ASSUME NEW r \in Runners, NEW q \in Runners, EndLoop(q) \/ UpdateCounters(q)
      PROVE  Local(r)'
  BY <1>0, <1>7 DEF TypeOK, Control, Local, EndLoop, UpdateCounters, GoTo, At
<1>8. ASSUME NEW r \in Runners, NEW q \in Runners, NEW p \in Recipients,
             SendSucceeds(q, p) \/ SendFails(q, p)
      PROVE  Local(r)'
  BY <1>0, <1>8 DEF TypeOK, Control, Local, SendSucceeds, SendFails, GoTo, At
<1>9. ASSUME NEW r \in Runners PROVE Local(r)'
  <2>1. CASE UNCHANGED vars \/ Tick
    BY <1>2, <2>1 DEF vars, Tick
  <2>2. CASE Restart
    BY <2>2 DEF Restart, Local
  <2>3. ASSUME NEW c \in Campaigns, CreateScheduled(c) \/ TimeComes(c) PROVE Local(r)'
    BY <1>2, <2>3 DEF CreateScheduled, TimeComes
  <2>4. ASSUME NEW c \in Campaigns, RunListed(c) PROVE Local(r)'
    BY <1>0, <1>3, <2>4 DEF RunListed, Control, Runners
  <2>5. ASSUME NEW q \in Callers, NEW c \in Campaigns,
               CreateImmediate(q, c) \/ RunByHand(q, c)
        PROVE  Local(r)'
    BY <1>0, <1>3, <2>5 DEF CreateImmediate, RunByHand, Runners, TypeOK
  <2>6. ASSUME NEW q \in Runners, Finish(q) \/ Abort(q) PROVE Local(r)'
    BY <1>4, <2>6 DEF Finish, Abort
  <2> QED
    BY <1>5, <1>6, <1>7, <1>8, <2>1, <2>2, <2>3, <2>4, <2>5, <2>6, NextCases
<1> QED
  BY <1>1, <1>9 DEF Control

-----------------------------------------------------------------------------
(* The scheduler begins a campaign once.                                   *)

SchedulerCalled(c) == pc[Scheduler] = "starting" /\ campaign[Scheduler] = c

(* What the scheduler has begun is not scheduled any more, is not on its    *)
(* list, and is not what it is about to begin; nor is the latter listed.    *)
Begun(c) ==
    /\ scheduledRuns[c] <= 1
    /\ scheduledRuns[c] = 1 => status[c] \notin {"none", "scheduled"} /\ c \notin listed
    /\ SchedulerCalled(c) => scheduledRuns[c] = 0 /\ c \notin listed

(* What the scheduler may begin shrinks: a tick lists only scheduled       *)
(* campaigns, and a campaign that was begun never becomes scheduled again. *)
LEMMA BegunStep ==
    ASSUME TypeOK, Control, NEW c \in Campaigns, Begun(c), [Next]_vars
    PROVE  Begun(c)'
<1> USE CampaignAssumption DEF tableVars, loopVars, runVars, historyVars
<1>0. Scheduler \in Runners /\ Callers \subseteq Runners /\ Scheduler \notin Callers
  BY DEF Runners
<1>1. CASE UNCHANGED vars
  BY <1>1 DEF Begun, SchedulerCalled, vars
<1>2. CASE Tick
  BY <1>2 DEF Begun, SchedulerCalled, Tick, Due, At, TypeOK
<1>3. CASE Restart
  BY <1>0, <1>3 DEF Begun, SchedulerCalled, Restart
<1>4. ASSUME NEW d \in Campaigns, CreateScheduled(d) \/ TimeComes(d) PROVE Begun(c)'
  BY <1>4 DEF Begun, SchedulerCalled, CreateScheduled, TimeComes, TypeOK
<1>5. ASSUME NEW d \in Campaigns, RunListed(d) PROVE Begun(c)'
  <2>1. /\ d \in listed /\ listed' = listed \ {d}
        /\ campaign' = [campaign EXCEPT ![Scheduler] = d]
        /\ UNCHANGED <<status, scheduledRuns>>
    BY <1>5 DEF RunListed, Calls
  <2>2. campaign'[Scheduler] = d
    BY <1>0, <2>1 DEF TypeOK
  <2>3. CASE c = d
    <3>1. scheduledRuns[c] = 0
      <4>1. scheduledRuns[c] \in Nat /\ scheduledRuns[c] <= 1 /\ scheduledRuns[c] # 1
        BY <2>1, <2>3 DEF Begun, TypeOK
      <4> QED
        BY <4>1
    <3> QED
      BY <2>1, <2>3, <3>1 DEF Begun, SchedulerCalled
  <2>4. CASE c # d
    BY <2>1, <2>2, <2>4 DEF Begun, SchedulerCalled
  <2> QED
    BY <2>3, <2>4
<1>6. ASSUME NEW r \in Callers, NEW d \in Campaigns, CreateImmediate(r, d) \/ RunByHand(r, d)
      PROVE  Begun(c)'
  BY <1>0, <1>6 DEF Begun, SchedulerCalled, CreateImmediate, RunByHand, Calls, GoTo, At, TypeOK
<1>7. ASSUME NEW r \in Runners, Begin(r) PROVE Begun(c)'
  <2>1. PICK d \in Campaigns : d = campaign[r]
    BY <1>7, RunnerIs DEF Begin, At
  <2>2. CASE r = Scheduler
    BY <1>7, <2>1, <2>2 DEF Begun, SchedulerCalled, Begin, GoTo, At, TypeOK
  <2>3. CASE r # Scheduler
    BY <1>0, <1>7, <2>1, <2>3 DEF Begun, SchedulerCalled, Begin, GoTo, At, TypeOK
  <2> QED
    BY <2>2, <2>3
<1>8. ASSUME NEW r \in Runners, Finish(r) \/ Abort(r) PROVE Begun(c)'
  BY <1>0, <1>8 DEF Begun, SchedulerCalled, Finish, Abort, Leaves, GoTo, TypeOK
<1>9. ASSUME NEW r \in Runners, Record(r) \/ EndLoop(r) \/ UpdateCounters(r) PROVE Begun(c)'
  BY <1>0, <1>9 DEF Begun, SchedulerCalled, Record, EndLoop, UpdateCounters, GoTo, TypeOK
<1>10. ASSUME NEW r \in Runners, NEW p \in Recipients, SendSucceeds(r, p) \/ SendFails(r, p)
       PROVE  Begun(c)'
  BY <1>0, <1>10 DEF Begun, SchedulerCalled, SendSucceeds, SendFails, GoTo, TypeOK
<1> QED
  BY <1>1, <1>2, <1>3, <1>4, <1>5, <1>6, <1>7, <1>8, <1>9, <1>10, NextCases

(* The runners, the tables and the list keep their types, and each place of *)
(* Run its local variables.                                                *)
THEOREM CampaignTypes == Spec => [](TypeOK /\ Control)
<1>1. TypeOK /\ Control /\ [Next]_vars => (TypeOK /\ Control)'
  BY TypeStep, ControlStep
<1> QED
  BY InitTypes, <1>1, PTL DEF Spec

(* The scheduler runs a campaign at most once, although it works on a list   *)
(* read earlier and other runs change the status meanwhile (RunDue, Run).    *)
THEOREM RunByScheduleOnce == Spec => []ScheduledOnce
<1> DEFINE IInv == TypeOK /\ Control /\ \A c \in Campaigns : Begun(c)
<1>1. Init => IInv
  <2>1. Init => \A c \in Campaigns : Begun(c)
    BY DEF Init, NobodyRuns, Begun, SchedulerCalled, Runners
  <2> QED
    BY <2>1, InitTypes
<1>2. IInv /\ [Next]_vars => IInv'
  BY TypeStep, ControlStep, BegunStep
<1>3. IInv => ScheduledOnce
  BY DEF ScheduledOnce, Begun
<1> QED
  BY <1>1, <1>2, <1>3, PTL DEF Spec

-----------------------------------------------------------------------------
(* No run repeats a send.                                                  *)

(* The runs of c that have yet to come to recipient p. *)
Reaching(c, p) == {r \in Runners : campaign[r] = c /\ p \in todo[r]}

(* Each run begun pays for one send: it is done, or to come, or was lost. *)
Paid(c, p) ==
    /\ IsFiniteSet(Reaching(c, p))
    /\ sends[c][p] + Cardinality(Reaching(c, p)) <= runs[c]

(* A step that lets no runner reach p and sends nothing to it. *)
LEMMA PaidKept ==
    ASSUME TypeOK, NEW c \in Campaigns, NEW p \in Recipients, Paid(c, p),
           Reaching(c, p)' \subseteq Reaching(c, p),
           sends'[c][p] = sends[c][p], runs'[c] = runs[c]
    PROVE  Paid(c, p)'
<1> DEFINE R == Reaching(c, p)
<1>1. IsFiniteSet(R) /\ sends[c][p] + Cardinality(R) <= runs[c]
      /\ sends[c][p] \in Nat /\ runs[c] \in Nat
  BY DEF Paid, TypeOK
<1> HIDE DEF R
<1>2. PICK T : T = R'
  OBVIOUS
<1>3. T \subseteq R
  BY <1>2 DEF R
<1>4. IsFiniteSet(T) /\ Cardinality(T) <= Cardinality(R)
      /\ Cardinality(T) \in Nat /\ Cardinality(R) \in Nat
  BY <1>1, <1>3, FS_Subset, FS_CardinalityType
<1>5. sends'[c][p] + Cardinality(T) <= runs'[c]
  BY <1>1, <1>4
<1> QED
  BY <1>2, <1>4, <1>5 DEF Paid, R

(* A run that begins is one more that comes to each recipient. *)
LEMMA BeginPaid ==
    ASSUME TypeOK, Control, NEW c \in Campaigns, NEW p \in Recipients, Paid(c, p),
           NEW r \in Runners, Begin(r)
    PROVE  Paid(c, p)'
<1>1. campaign[r] \in Campaigns /\ todo[r] = {}
  BY RunnerIs DEF Begin, At
<1>2. /\ campaign' = campaign /\ todo' = [todo EXCEPT ![r] = Recipients] /\ sends' = sends
      /\ runs' = [runs EXCEPT ![campaign[r]] = @ + 1]
  BY DEF Begin
<1>3. CASE campaign[r] # c
  <2>1. Reaching(c, p)' \subseteq Reaching(c, p)
    BY <1>2, <1>3 DEF Reaching, TypeOK
  <2>2. runs'[c] = runs[c]
    BY <1>2, <1>3 DEF TypeOK
  <2> QED
    BY <1>2, <2>1, <2>2, PaidKept
<1>4. CASE campaign[r] = c
  <2> DEFINE R == Reaching(c, p)
  <2>1. IsFiniteSet(R) /\ sends[c][p] + Cardinality(R) <= runs[c]
        /\ sends[c][p] \in Nat /\ runs[c] \in Nat
    BY DEF Paid, TypeOK
  <2>2. r \notin R
    BY <1>1 DEF Reaching
  <2>3. Reaching(c, p)' = R \cup {r}
    BY <1>2, <1>4 DEF Reaching, TypeOK
  <2>4. runs'[c] = runs[c] + 1 /\ sends' = sends
    BY <1>2, <1>4 DEF TypeOK
  <2> HIDE DEF R
  <2>5. IsFiniteSet(R \cup {r}) /\ Cardinality(R \cup {r}) = Cardinality(R) + 1
        /\ Cardinality(R) \in Nat
    BY <2>1, <2>2, FS_AddElement, FS_CardinalityType
  <2>6. sends[c][p] + (Cardinality(R) + 1) <= runs[c] + 1
    BY <2>1, <2>5
  <2> QED
    BY <2>3, <2>4, <2>5, <2>6 DEF Paid
<1> QED
  BY <1>3, <1>4

(* A send was to come before, and is not to come again. *)
LEMMA SendPaid ==
    ASSUME TypeOK, Control, NEW c \in Campaigns, NEW p \in Recipients, Paid(c, p),
           NEW r \in Runners, NEW q \in Recipients, SendSucceeds(r, q)
    PROVE  Paid(c, p)'
<1>1. campaign[r] \in Campaigns /\ q \in todo[r]
  BY RunnerIs DEF SendSucceeds, At
<1>2. /\ campaign' = campaign /\ todo' = [todo EXCEPT ![r] = @ \ {q}] /\ runs' = runs
      /\ sends' = [sends EXCEPT ![campaign[r]][q] = @ + 1]
  BY DEF SendSucceeds, historyVars
<1>3. CASE campaign[r] # c \/ p # q
  <2>1. Reaching(c, p)' \subseteq Reaching(c, p)
    BY <1>2 DEF Reaching, TypeOK
  <2>2. sends'[c][p] = sends[c][p]
    BY <1>1, <1>2, <1>3 DEF TypeOK
  <2> QED
    BY <1>2, <2>1, <2>2, PaidKept
<1>4. CASE campaign[r] = c /\ p = q
  <2> DEFINE R == Reaching(c, p)
  <2>1. IsFiniteSet(R) /\ sends[c][p] + Cardinality(R) <= runs[c]
        /\ sends[c][p] \in Nat /\ runs[c] \in Nat
    BY DEF Paid, TypeOK
  <2>2. r \in R
    BY <1>1, <1>4 DEF Reaching
  <2>3. Reaching(c, p)' = R \ {r}
    BY <1>2, <1>4 DEF Reaching, TypeOK
  <2>4. sends'[c][p] = sends[c][p] + 1 /\ runs' = runs
    BY <1>1, <1>2, <1>4 DEF TypeOK
  <2> HIDE DEF R
  <2>5. IsFiniteSet(R \ {r}) /\ Cardinality(R \ {r}) = Cardinality(R) - 1
        /\ Cardinality(R) \in Nat
    BY <2>1, <2>2, FS_RemoveElement, FS_CardinalityType
  <2>6. sends[c][p] + 1 + (Cardinality(R) - 1) <= runs[c]
    BY <2>1, <2>5
  <2> QED
    BY <2>3, <2>4, <2>5, <2>6 DEF Paid
<1> QED
  BY <1>3, <1>4

(* Only Begin adds a runner that reaches p, and it pays for it. *)
LEMMA PaidStep ==
    ASSUME TypeOK, Control, NEW c \in Campaigns, NEW p \in Recipients, Paid(c, p),
           [Next]_vars
    PROVE  Paid(c, p)'
<1> USE CampaignAssumption DEF tableVars, loopVars, runVars, historyVars
<1>1. ASSUME UNCHANGED <<campaign, todo, sends, runs>> PROVE Paid(c, p)'
  BY <1>1 DEF Paid, Reaching
<1>2. CASE UNCHANGED vars \/ Tick
  BY <1>1, <1>2 DEF vars, Tick
<1>3. CASE Restart
  <2>1. Reaching(c, p)' \subseteq Reaching(c, p)
    BY <1>3 DEF Restart, Reaching
  <2> QED
    BY <1>3, <2>1, PaidKept DEF Restart
<1>4. ASSUME NEW d \in Campaigns, CreateScheduled(d) \/ TimeComes(d) PROVE Paid(c, p)'
  BY <1>1, <1>4 DEF CreateScheduled, TimeComes
<1>5. ASSUME NEW r \in Runners, NEW d \in Campaigns, Calls(r, d), UNCHANGED <<sends, runs>>
      PROVE  Paid(c, p)'
  <2>1. todo[r] = {} /\ todo' = todo /\ campaign' = [campaign EXCEPT ![r] = d]
    BY <1>5, RunnerIs DEF Calls, At
  <2>2. Reaching(c, p)' \subseteq Reaching(c, p)
    BY <2>1 DEF Reaching, TypeOK
  <2> QED
    BY <1>5, <2>2, PaidKept
<1>6. ASSUME NEW d \in Campaigns, RunListed(d) PROVE Paid(c, p)'
  BY <1>5, <1>6 DEF RunListed, Runners
<1>7. ASSUME NEW r \in Callers, NEW d \in Campaigns, CreateImmediate(r, d) \/ RunByHand(r, d)
      PROVE  Paid(c, p)'
  BY <1>5, <1>7 DEF CreateImmediate, RunByHand, Runners
<1>8. ASSUME NEW r \in Runners, Record(r) \/ EndLoop(r) \/ UpdateCounters(r)
      PROVE  Paid(c, p)'
  BY <1>1, <1>8 DEF Record, EndLoop, UpdateCounters
<1>9. ASSUME NEW r \in Runners, Finish(r) \/ Abort(r) PROVE Paid(c, p)'
  <2>1. Leaves(r) /\ UNCHANGED <<sends, runs>>
    BY <1>9 DEF Finish, Abort
  <2>2. Reaching(c, p)' \subseteq Reaching(c, p)
    BY <2>1 DEF Leaves, Reaching, TypeOK
  <2> QED
    BY <2>1, <2>2, PaidKept
<1>10. ASSUME NEW r \in Runners, NEW q \in Recipients, SendFails(r, q) PROVE Paid(c, p)'
  <2>1. Reaching(c, p)' \subseteq Reaching(c, p)
    BY <1>10 DEF SendFails, Reaching, TypeOK
  <2> QED
    BY <1>10, <2>1, PaidKept DEF SendFails
<1> QED
  BY <1>2, <1>3, <1>4, <1>6, <1>7, <1>8, <1>9, <1>10, BeginPaid, SendPaid, NextCases

(* A recipient gets no more messages than times its campaign was run: the    *)
(* loop of Run takes each recipient once, whatever of a result is stored.    *)
THEOREM SendsPaidByRuns == Spec => []OneSendPerRun
<1> DEFINE IInv == /\ TypeOK
                   /\ Control
                   /\ \A c \in Campaigns, p \in Recipients : Paid(c, p)
<1>1. Init => IInv
  <2>1. ASSUME Init, NEW c \in Campaigns, NEW p \in Recipients PROVE Paid(c, p)
    <3>1. Reaching(c, p) = {} /\ sends[c][p] = 0 /\ runs[c] = 0
      BY <2>1 DEF Init, NobodyRuns, Reaching
    <3> QED
      BY <3>1, FS_EmptySet DEF Paid
  <2> QED
    BY <2>1, InitTypes
<1>2. IInv /\ [Next]_vars => IInv'
  BY TypeStep, ControlStep, PaidStep
<1>3. IInv => OneSendPerRun
  <2> SUFFICES ASSUME IInv, NEW c \in Campaigns, NEW p \in Recipients
               PROVE  sends[c][p] <= runs[c]
    BY DEF OneSendPerRun
  <2>1. Paid(c, p) /\ sends[c][p] \in Nat /\ runs[c] \in Nat
    BY DEF TypeOK
  <2>2. Cardinality(Reaching(c, p)) \in Nat
    BY <2>1, FS_CardinalityType DEF Paid
  <2> QED
    BY <2>1, <2>2 DEF Paid
<1> QED
  BY <1>1, <1>2, <1>3, PTL DEF Spec

-----------------------------------------------------------------------------
(* A final status accounts for every recipient.                            *)

(* A runner has counted the recipients it took, and has seen tried all but  *)
(* those it has left and the one it is at.                                  *)
Counts(r) ==
    pc[r] \in Working =>
       /\ sent[r] + failed[r] + Cardinality(todo[r]) = Cardinality(Recipients)
       /\ Recipients \subseteq tried[campaign[r]] \cup todo[r] \cup {current[r]}

Finishing(c) == \E r \in Runners : pc[r] = "finish" /\ campaign[r] = c

(* The counters are right from the moment a run is about to finish. *)
Accounted(c) ==
    status[c] \in Final \/ Finishing(c) =>
       /\ tried[c] = Recipients
       /\ sentCount[c] + failedCount[c] = Cardinality(Recipients)

(* The recipients that are left are finitely many. *)
LEMMA TodoFinite ==
    ASSUME TypeOK, NEW r \in Runners
    PROVE  /\ IsFiniteSet(todo[r]) /\ Cardinality(todo[r]) \in Nat
           /\ Cardinality(Recipients) \in Nat
<1>1. todo[r] \in SUBSET Recipients /\ IsFiniteSet(Recipients)
  BY CampaignAssumption DEF TypeOK
<1> QED
  BY <1>1, FS_Subset, FS_CardinalityType

(* What a campaign has tried it keeps. *)
LEMMA TriedGrows ==
    ASSUME TypeOK, NEW c \in Campaigns, [Next]_vars
    PROVE  tried[c] \subseteq tried'[c]
<1>1. ASSUME NEW q \in Runners, Record(q) PROVE tried[c] \subseteq tried'[c]
  <2>1. PICK d, e : tried' = [tried EXCEPT ![d] = @ \cup {e}]
    BY <1>1 DEF Record
  <2> QED
    BY <2>1 DEF TypeOK
<1>2. CASE tried' = tried
  BY <1>2
<1>3. ASSUME NEW q \in Runners,
             \/ Begin(q) \/ EndLoop(q) \/ UpdateCounters(q) \/ Finish(q) \/ Abort(q)
             \/ \E p \in Recipients : SendSucceeds(q, p) \/ SendFails(q, p)
      PROVE  tried' = tried
  BY <1>3 DEF historyVars, Begin, EndLoop, UpdateCounters, Finish, Abort, SendSucceeds, SendFails
<1> QED
  BY <1>1, <1>2, <1>3, NextCases DEF vars, historyVars, Tick, Restart, CreateScheduled,
     TimeComes, RunListed, CreateImmediate, RunByHand

(* A runner that did nothing sees at most more recipients tried. *)
LEMMA CountsKept ==
    ASSUME TypeOK, Control, [Next]_vars, NEW r \in Runners, Counts(r),
           pc'[r] = pc[r], sent'[r] = sent[r], failed'[r] = failed[r], todo'[r] = todo[r],
           current'[r] = current[r], campaign'[r] = campaign[r]
    PROVE  Counts(r)'
<1>1. pc[r] \in Working => campaign[r] \in Campaigns
  BY RunnerIs DEF Working
<1>2. pc[r] \in Working => tried[campaign[r]] \subseteq tried'[campaign[r]]
  BY <1>1, TriedGrows
<1> QED
  BY <1>2 DEF Counts

(* The loop takes a recipient and counts its result. *)
LEMMA TakingCounts ==
    ASSUME TypeOK, Control, NEW r \in Runners, Counts(r),
           NEW p \in Recipients, SendSucceeds(r, p) \/ SendFails(r, p)
    PROVE  Counts(r)'
<1>1. /\ pc[r] = "loop" /\ p \in todo[r] /\ current[r] = None
      /\ todo'[r] = todo[r] \ {p} /\ current'[r] = p
      /\ tried' = tried /\ campaign' = campaign
  BY RunnerIs DEF SendSucceeds, SendFails, At, TypeOK, historyVars
<1>2. sent'[r] + failed'[r] = sent[r] + failed[r] + 1 /\ sent[r] \in Nat /\ failed[r] \in Nat
  BY DEF SendSucceeds, SendFails, TypeOK
<1>3. /\ sent[r] + failed[r] + Cardinality(todo[r]) = Cardinality(Recipients)
      /\ Recipients \subseteq tried[campaign[r]] \cup todo[r] \cup {None}
  BY <1>1 DEF Counts, Working
<1>4. Cardinality(todo[r] \ {p}) = Cardinality(todo[r]) - 1
      /\ Cardinality(todo[r]) \in Nat /\ Cardinality(Recipients) \in Nat
  BY <1>1, TodoFinite, FS_RemoveElement
<1>5. sent'[r] + failed'[r] + Cardinality(todo'[r]) = Cardinality(Recipients)
  <2> DEFINE n == Cardinality(todo[r])
             m == Cardinality(todo[r] \ {p})
             x == sent'[r] + failed'[r]
  <2>1. m = n - 1 /\ n \in Nat /\ x = sent[r] + failed[r] + 1
    BY <1>2, <1>4
  <2> HIDE DEF n, m, x
  <2>2. x + m = sent[r] + failed[r] + n
    BY <1>2, <2>1
  <2> QED
    BY <1>1, <1>3, <2>2 DEF n, m, x
<1>6. Recipients \subseteq tried'[campaign'[r]] \cup todo'[r] \cup {current'[r]}
  BY <1>1, <1>3, CampaignAssumption
<1> QED
  BY <1>5, <1>6 DEF Counts

(* The recipient of the loop is tried now. *)
LEMMA RecordCounts ==
    ASSUME TypeOK, Control, NEW r \in Runners, Counts(r), Record(r)
    PROVE  Counts(r)'
<1>1. /\ pc[r] \in {"sent", "failed"} /\ campaign[r] \in Campaigns
      /\ campaign' = campaign /\ todo' = todo /\ sent' = sent /\ failed' = failed
      /\ tried'[campaign[r]] = tried[campaign[r]] \cup {current[r]}
  BY RunnerIs DEF Record, At, TypeOK
<1> QED
  BY <1>1 DEF Counts, Working

(* A runner's counts are its own: others only add to what was tried. *)
LEMMA CountsStep ==
    ASSUME TypeOK, Control, NEW r \in Runners, Counts(r), [Next]_vars
    PROVE  Counts(r)'
<1> USE CampaignAssumption DEF tableVars, loopVars, runVars, historyVars
<1>1. CASE UNCHANGED vars \/ Tick
  BY <1>1, CountsKept DEF vars, Tick
<1>2. CASE Restart
  BY <1>2 DEF Restart, Counts, Working
<1>3. ASSUME NEW d \in Campaigns, CreateScheduled(d) \/ TimeComes(d) PROVE Counts(r)'
  BY <1>3, CountsKept DEF CreateScheduled, TimeComes
<1>4. ASSUME NEW q \in Runners, NEW d \in Campaigns, Calls(q, d) PROVE Counts(r)'
  <2>1. CASE q = r
    BY <1>4, <2>1 DEF Calls, GoTo, Counts, Working, TypeOK
  <2>2. CASE q # r
    BY <1>4, <2>2, CountsKept DEF Calls, GoTo, TypeOK
  <2> QED
    BY <2>1, <2>2
<1>5. ASSUME NEW d \in Campaigns, RunListed(d) PROVE Counts(r)'
  BY <1>4, <1>5 DEF RunListed, Runners
<1>6. ASSUME NEW q \in Callers, NEW d \in Campaigns, CreateImmediate(q, d) \/ RunByHand(q, d)
      PROVE  Counts(r)'
  BY <1>4, <1>6 DEF CreateImmediate, RunByHand, Runners
<1>7. ASSUME NEW q \in Runners, Begin(q) PROVE Counts(r)'
  <2>1. CASE q = r
    <3>1. /\ pc[r] = "starting" /\ sent[r] = 0 /\ failed[r] = 0
          /\ todo'[r] = Recipients /\ sent' = sent /\ failed' = failed
      BY <1>7, <2>1 DEF Begin, At, TypeOK, Control, Local
    <3>2. Cardinality(Recipients) \in Nat
      BY TodoFinite
    <3> QED
      BY <3>1, <3>2 DEF Counts
  <2>2. CASE q # r
    BY <1>7, <2>2, CountsKept DEF Begin, GoTo, TypeOK
  <2> QED
    BY <2>1, <2>2
<1>8. ASSUME NEW q \in Runners, Record(q) PROVE Counts(r)'
  <2>1. CASE q = r
    BY <1>8, <2>1, RecordCounts
  <2>2. CASE q # r
    BY <1>8, <2>2, CountsKept DEF Record, GoTo, TypeOK
  <2> QED
    BY <2>1, <2>2
<1>9. ASSUME NEW q \in Runners, EndLoop(q) \/ UpdateCounters(q) PROVE Counts(r)'
  <2>1. CASE q = r
    <3>1. pc[r] \in Working /\ UNCHANGED <<sent, failed, todo, current, campaign, tried>>
      BY <1>9, <2>1 DEF EndLoop, UpdateCounters, At, Working
    <3> QED
      BY <3>1 DEF Counts
  <2>2. CASE q # r
    BY <1>9, <2>2, CountsKept DEF EndLoop, UpdateCounters, GoTo, TypeOK
  <2> QED
    BY <2>1, <2>2
<1>10. ASSUME NEW q \in Runners, Finish(q) \/ Abort(q) PROVE Counts(r)'
  <2>1. CASE q = r
    BY <1>10, <2>1 DEF Finish, Abort, Leaves, GoTo, Counts, Working, TypeOK
  <2>2. CASE q # r
    BY <1>10, <2>2, CountsKept DEF Finish, Abort, Leaves, GoTo, TypeOK
  <2> QED
    BY <2>1, <2>2
<1>11. ASSUME NEW q \in Runners, NEW p \in Recipients, SendSucceeds(q, p) \/ SendFails(q, p)
       PROVE  Counts(r)'
  <2>1. CASE q = r
    BY <1>11, <2>1, TakingCounts
  <2>2. CASE q # r
    BY <1>11, <2>2, CountsKept DEF SendSucceeds, SendFails, GoTo, TypeOK
  <2> QED
    BY <2>1, <2>2
<1> QED
  BY <1>1, <1>2, <1>3, <1>5, <1>6, <1>7, <1>8, <1>9, <1>10, <1>11, NextCases

(* A run that stores its counters has tried everybody. *)
LEMMA CountersRight ==
    ASSUME TypeOK, Control, NEW r \in Runners, Counts(r), UpdateCounters(r)
    PROVE  /\ campaign[r] \in Campaigns
           /\ tried[campaign[r]] = Recipients
           /\ sent[r] + failed[r] = Cardinality(Recipients)
<1>1. /\ pc[r] = "counters" /\ campaign[r] \in Campaigns
      /\ todo[r] = {} /\ current[r] = None
  BY RunnerIs DEF UpdateCounters, At
<1>2. /\ sent[r] + failed[r] + Cardinality(todo[r]) = Cardinality(Recipients)
      /\ Recipients \subseteq tried[campaign[r]] \cup todo[r] \cup {current[r]}
  BY <1>1 DEF Counts, Working
<1>3. Cardinality(todo[r]) = 0
  BY <1>1, FS_EmptySet
<1>4. sent[r] \in Nat /\ failed[r] \in Nat /\ tried[campaign[r]] \subseteq Recipients
  BY <1>1 DEF TypeOK
<1>5. tried[campaign[r]] = Recipients
  <2>1. Recipients \subseteq tried[campaign[r]] \cup {None}
    BY <1>1, <1>2
  <2>2. Recipients \subseteq tried[campaign[r]]
    BY <2>1, CampaignAssumption
  <2> QED
    BY <1>4, <2>2
<1>6. sent[r] + failed[r] = Cardinality(Recipients)
  <2>1. sent[r] + failed[r] + 0 = Cardinality(Recipients)
    BY <1>2, <1>3
  <2> QED
    BY <1>4, <2>1
<1> QED
  BY <1>1, <1>5, <1>6

(* Nobody has newly come to the end of a run of c. *)
LEMMA AccountedKept ==
    ASSUME TypeOK, NEW c \in Campaigns, [Next]_vars, TypeOK', Accounted(c),
           status'[c] \in Final \/ Finishing(c)' => status[c] \in Final \/ Finishing(c),
           sentCount'[c] = sentCount[c], failedCount'[c] = failedCount[c]
    PROVE  Accounted(c)'
<1>1. tried[c] \subseteq tried'[c] /\ tried'[c] \subseteq Recipients
  BY TriedGrows DEF TypeOK
<1> QED
  BY <1>1 DEF Accounted

(* The accounts of a campaign are written by runs that have tried everybody, *)
(* and are final from then on, whoever writes them again.                   *)
LEMMA AccountedStep ==
    ASSUME TypeOK, Control, TypeOK', \A r \in Runners : Counts(r),
           NEW c \in Campaigns, Accounted(c), [Next]_vars
    PROVE  Accounted(c)'
<1> USE DEF tableVars, loopVars, runVars, historyVars, Final
<1>1. CASE UNCHANGED vars \/ Tick
  BY <1>1, AccountedKept DEF vars, Tick, Finishing
<1>2. CASE Restart
  <2>1. ~Finishing(c)'
    BY <1>2 DEF Restart, Finishing
  <2> QED
    BY <1>2, <2>1, AccountedKept DEF Restart
<1>3. ASSUME NEW d \in Campaigns, CreateScheduled(d) \/ TimeComes(d) PROVE Accounted(c)'
  <2>1. (status'[c] \in Final => status[c] \in Final) /\ (Finishing(c)' => Finishing(c))
    BY <1>3 DEF CreateScheduled, TimeComes, Finishing, TypeOK
  <2> QED
    BY <1>3, <2>1, AccountedKept DEF CreateScheduled, TimeComes
<1>4. ASSUME NEW q \in Runners, NEW d \in Campaigns, Calls(q, d)
      PROVE  Finishing(c)' => Finishing(c)
  BY <1>4 DEF Calls, GoTo, Finishing, TypeOK
<1>5. ASSUME NEW d \in Campaigns, RunListed(d) PROVE Accounted(c)'
  BY <1>4, <1>5, AccountedKept DEF RunListed, Runners
<1>6. ASSUME NEW q \in Callers, NEW d \in Campaigns, CreateImmediate(q, d) \/ RunByHand(q, d)
      PROVE  Accounted(c)'
  <2>1. status'[c] \in Final => status[c] \in Final
    BY <1>6 DEF CreateImmediate, RunByHand, TypeOK
  <2> QED
    BY <1>4, <1>6, <2>1, AccountedKept DEF CreateImmediate, RunByHand, Runners
<1>7. ASSUME NEW q \in Runners, Begin(q) PROVE Accounted(c)'
  <2>1. (status'[c] \in Final => status[c] \in Final) /\ (Finishing(c)' => Finishing(c))
    BY <1>7 DEF Begin, GoTo, Finishing, TypeOK
  <2> QED
    BY <1>7, <2>1, AccountedKept DEF Begin
<1>8. ASSUME NEW q \in Runners, Record(q) \/ EndLoop(q) PROVE Accounted(c)'
  <2>1. Finishing(c)' => Finishing(c)
    BY <1>8 DEF Record, EndLoop, GoTo, Finishing, TypeOK
  <2> QED
    BY <1>8, <2>1, AccountedKept DEF Record, EndLoop
<1>9. ASSUME NEW q \in Runners, UpdateCounters(q) PROVE Accounted(c)'
  <2>1. CASE campaign[q] = c
    <3>1. sentCount'[c] = sent[q] /\ failedCount'[c] = failed[q] /\ tried' = tried
      BY <1>9, <2>1 DEF UpdateCounters, TypeOK
    <3> QED
      BY <1>9, <2>1, <3>1, CountersRight DEF Accounted
  <2>2. CASE campaign[q] # c
    <3>1. Finishing(c)' => Finishing(c)
      BY <1>9, <2>2 DEF UpdateCounters, GoTo, Finishing, TypeOK
    <3>2. sentCount'[c] = sentCount[c] /\ failedCount'[c] = failedCount[c]
      BY <1>9, <2>2 DEF UpdateCounters, TypeOK
    <3> QED
      BY <1>9, <3>1, <3>2, AccountedKept DEF UpdateCounters
  <2> QED
    BY <2>1, <2>2
<1>10. ASSUME NEW q \in Runners, Leaves(q) PROVE Finishing(c)' => Finishing(c)
  BY <1>10 DEF Leaves, GoTo, Finishing, TypeOK
<1>11. ASSUME NEW q \in Runners, Finish(q) PROVE Accounted(c)'
  <2>1. status'[c] \in Final => status[c] \in Final \/ Finishing(c)
    BY <1>11 DEF Finish, At, Finishing, TypeOK
  <2> QED
    BY <1>10, <1>11, <2>1, AccountedKept DEF Finish
<1>12. ASSUME NEW q \in Runners, Abort(q) PROVE Accounted(c)'
  BY <1>10, <1>12, AccountedKept DEF Abort
<1>13. ASSUME NEW q \in Runners, NEW p \in Recipients, SendSucceeds(q, p) \/ SendFails(q, p)
       PROVE  Accounted(c)'
  <2>1. Finishing(c)' => Finishing(c)
    BY <1>13 DEF SendSucceeds, SendFails, GoTo, Finishing, TypeOK
  <2> QED
    BY <1>13, <2>1, AccountedKept DEF SendSucceeds, SendFails
<1> QED
  BY <1>1, <1>2, <1>3, <1>5, <1>6, <1>7, <1>8, <1>9, <1>11, <1>12, <1>13, NextCases

(* Types, counts and accounts hold together in every reachable state. *)
LEMMA AccountsKept ==
    Spec => [](TypeOK /\ Control /\ (\A r \in Runners : Counts(r))
               /\ (\A c \in Campaigns : Accounted(c)))
<1> DEFINE IInv == /\ TypeOK /\ Control
                   /\ \A r \in Runners : Counts(r)
                   /\ \A c \in Campaigns : Accounted(c)
<1>1. Init => IInv
  <2>1. Init => \A r \in Runners : Counts(r)
    BY DEF Init, NobodyRuns, Counts, Working
  <2>2. Init => \A c \in Campaigns : Accounted(c)
    BY DEF Init, NobodyRuns, Accounted, Finishing, Final
  <2> QED
    BY <2>1, <2>2, InitTypes
<1>2. IInv /\ [Next]_vars => IInv'
  BY TypeStep, ControlStep, CountsStep, AccountedStep
<1> QED
  BY <1>1, <1>2, PTL DEF Spec

(* A campaign that shows a final status has tried all its recipients, and its *)
(* counters add up to them, however many runs of it overlapped, failed or     *)
(* were cut short (Run, UpdateCounters, UpdateStatus).                        *)
THEOREM FinalIsTried == Spec => []FinalMeansTried
<1>1. (\A c \in Campaigns : Accounted(c)) => FinalMeansTried
  BY DEF FinalMeansTried, Accounted, Final
<1> QED
  BY <1>1, AccountsKept, PTL

-----------------------------------------------------------------------------
(* The stored rows lag only behind runs that go on.                        *)

(* What was tried shows a result unless a store failed, and what shows as  *)
(* sent was sent.                                                          *)
Shown(c, p) ==
    /\ c \notin faulted /\ p \in tried[c] => row[c][p] # "pending"
    /\ row[c][p] = "sent" => sends[c][p] > 0

(* A runner that is about to store "sent" has sent. *)
HasSent(r) == pc[r] = "sent" => sends[campaign[r]][current[r]] > 0

(* No send is undone. *)
LEMMA SendsGrow ==
    ASSUME TypeOK, Control, NEW c \in Campaigns, NEW p \in Recipients, [Next]_vars
    PROVE  sends[c][p] > 0 => sends'[c][p] > 0
<1>1. CASE sends' = sends
  BY <1>1
<1>2. ASSUME NEW r \in Runners, NEW q \in Recipients, SendSucceeds(r, q)
      PROVE  sends[c][p] > 0 => sends'[c][p] > 0
  <2>1. sends' = [sends EXCEPT ![campaign[r]][q] = @ + 1] /\ campaign[r] \in Campaigns
    BY <1>2, RunnerIs DEF SendSucceeds, At
  <2>2. sends[c][p] \in Nat
    BY DEF TypeOK
  <2>3. sends'[c][p] = sends[c][p] \/ sends'[c][p] = sends[c][p] + 1
    BY <2>1 DEF TypeOK
  <2> QED
    BY <2>2, <2>3
<1>3. ASSUME NEW r \in Runners,
             \/ Begin(r) \/ Record(r) \/ EndLoop(r) \/ UpdateCounters(r) \/ Finish(r)
             \/ Abort(r) \/ \E q \in Recipients : SendFails(r, q)
      PROVE  sends' = sends
  BY <1>3 DEF historyVars, Begin, Record, EndLoop, UpdateCounters, Finish, Abort, SendFails
<1> QED
  BY <1>1, <1>2, <1>3, NextCases DEF vars, historyVars, Tick, Restart, CreateScheduled,
     TimeComes, RunListed, CreateImmediate, RunByHand

(* The send is counted before its result is stored. *)
LEMMA HasSentStep ==
    ASSUME TypeOK, Control, NEW r \in Runners, HasSent(r), [Next]_vars
    PROVE  HasSent(r)'
<1> USE CampaignAssumption DEF tableVars, loopVars, runVars, historyVars
<1>1. ASSUME pc'[r] = pc[r], campaign'[r] = campaign[r], current'[r] = current[r]
      PROVE  HasSent(r)'
  <2>1. CASE pc[r] = "sent"
    <3>1. PICK c \in Campaigns, p \in Recipients : c = campaign[r] /\ p = current[r]
      BY <2>1, RunnerIs
    <3>2. sends[c][p] > 0 => sends'[c][p] > 0
      BY SendsGrow
    <3> QED
      BY <1>1, <2>1, <3>1, <3>2 DEF HasSent
  <2> QED
    BY <1>1, <2>1 DEF HasSent
<1>2. CASE UNCHANGED vars \/ Tick
  BY <1>1, <1>2 DEF vars, Tick
<1>3. CASE Restart
  BY <1>3 DEF Restart, HasSent
<1>4. ASSUME NEW d \in Campaigns, CreateScheduled(d) \/ TimeComes(d) PROVE HasSent(r)'
  BY <1>1, <1>4 DEF CreateScheduled, TimeComes
<1>5. ASSUME NEW q \in Runners, NEW d \in Campaigns, Calls(q, d) PROVE HasSent(r)'
  <2>1. CASE q = r
    BY <1>5, <2>1 DEF Calls, GoTo, HasSent, TypeOK
  <2>2. CASE q # r
    BY <1>1, <1>5, <2>2 DEF Calls, GoTo, TypeOK
  <2> QED
    BY <2>1, <2>2
<1>6. ASSUME NEW d \in Campaigns, RunListed(d) PROVE HasSent(r)'
  BY <1>5, <1>6 DEF RunListed, Runners
<1>7. ASSUME NEW q \in Callers, NEW d \in Campaigns, CreateImmediate(q, d) \/ RunByHand(q, d)
      PROVE  HasSent(r)'
  BY <1>5, <1>7 DEF CreateImmediate, RunByHand, Runners
<1>8. ASSUME NEW q \in Runners,
             \/ Begin(q) \/ Record(q) \/ EndLoop(q) \/ UpdateCounters(q) \/ Finish(q)
             \/ Abort(q) \/ \E p \in Recipients : SendFails(q, p)
      PROVE  HasSent(r)'
  <2>1. CASE q = r
    <3>1. pc'[r] # "sent"
      BY <1>8, <2>1 DEF Begin, Record, EndLoop, UpdateCounters, Finish, Abort, Leaves,
         SendFails, GoTo, TypeOK
    <3> QED
      BY <3>1 DEF HasSent
  <2>2. CASE q # r
    BY <1>1, <1>8, <2>2 DEF Begin, Record, EndLoop, UpdateCounters, Finish, Abort, Leaves,
       SendFails, GoTo, TypeOK
  <2> QED
    BY <2>1, <2>2
<1>9. ASSUME NEW q \in Runners, NEW p \in Recipients, SendSucceeds(q, p) PROVE HasSent(r)'
  <2>1. CASE q = r
    <3>1. PICK d \in Campaigns : d = campaign[r]
      BY <1>9, <2>1, RunnerIs DEF SendSucceeds, At
    <3>2. /\ campaign' = campaign /\ current'[r] = p
          /\ sends' = [sends EXCEPT ![d][p] = @ + 1]
      BY <1>9, <2>1, <3>1 DEF SendSucceeds, TypeOK
    <3>3. sends[d][p] \in Nat /\ sends'[d][p] = sends[d][p] + 1
      BY <3>2 DEF TypeOK
    <3>4. sends'[d][p] > 0
      BY <3>3
    <3> QED
      BY <3>1, <3>2, <3>4 DEF HasSent
  <2>2. CASE q # r
    BY <1>1, <1>9, <2>2 DEF SendSucceeds, GoTo, TypeOK
  <2> QED
    BY <2>1, <2>2
<1> QED
  BY <1>2, <1>3, <1>4, <1>6, <1>7, <1>8, <1>9, NextCases

(* The only step that writes a row, and that counts a recipient as tried. *)
LEMMA RecordShown ==
    ASSUME TypeOK, Control, NEW c \in Campaigns, NEW p \in Recipients, Shown(c, p),
           NEW r \in Runners, HasSent(r), Record(r)
    PROVE  Shown(c, p)'
<1>1. PICK d \in Campaigns, q \in Recipients : d = campaign[r] /\ q = current[r]
  BY RunnerIs DEF Record, At
<1>2. /\ pc[r] \in {"sent", "failed"} /\ sends' = sends
      /\ tried' = [tried EXCEPT ![d] = @ \cup {q}]
      /\ \/ row' = [row EXCEPT ![d][q] = pc[r]] /\ faulted' = faulted
         \/ row' = row /\ faulted' = faulted \cup {d}
  BY <1>1 DEF Record, At
<1>3. row \in [Campaigns -> [Recipients -> RowStatus]]
  BY DEF TypeOK
<1>4. CASE d = c /\ q = p
  <2>1. row'[c][p] = pc[r] \/ (row' = row /\ c \in faulted')
    <3>1. CASE row' = [row EXCEPT ![d][q] = pc[r]]
      <4>1. PICK v : v = pc[r]
        OBVIOUS
      <4>2. row' = [row EXCEPT ![c][p] = v]
        BY <1>4, <3>1, <4>1
      <4>3. row'[c][p] = v
        BY <1>3, <4>2
      <4> QED
        BY <4>1, <4>3
    <3>2. CASE row' = row /\ faulted' = faulted \cup {d}
      BY <1>4, <3>2
    <3> QED
      BY <1>2, <3>1, <3>2
  <2>2. pc[r] = "sent" => sends[c][p] > 0
    BY <1>1, <1>4 DEF HasSent
  <2> QED
    BY <1>2, <2>1, <2>2 DEF Shown
<1>5. CASE d # c \/ q # p
  <2>1. row'[c][p] = row[c][p]
    BY <1>2, <1>5, <1>3
  <2>2. faulted \subseteq faulted'
    BY <1>2
  <2>3. p \in tried'[c] => p \in tried[c]
    BY <1>2, <1>5 DEF TypeOK
  <2> QED
    BY <1>2, <2>1, <2>2, <2>3 DEF Shown
<1> QED
  BY <1>4, <1>5

(* No other step writes a row, and faults are not forgotten. *)
LEMMA ShownStep ==
    ASSUME TypeOK, Control, \A r \in Runners : HasSent(r), [Next]_vars,
           NEW c \in Campaigns, NEW p \in Recipients, Shown(c, p)
    PROVE  Shown(c, p)'
<1> USE DEF tableVars, historyVars
<1>1. ASSUME UNCHANGED <<row, tried>>, faulted \subseteq faulted' PROVE Shown(c, p)'
  BY <1>1, SendsGrow DEF Shown
<1>2. ASSUME NEW r \in Runners, Record(r) PROVE Shown(c, p)'
  BY <1>2, RecordShown
<1>3. ASSUME NEW r \in Runners,
             \/ Begin(r) \/ EndLoop(r) \/ UpdateCounters(r) \/ Finish(r) \/ Abort(r)
             \/ \E q \in Recipients : SendSucceeds(r, q) \/ SendFails(r, q)
      PROVE  UNCHANGED <<row, tried>> /\ faulted \subseteq faulted'
  BY <1>3 DEF Begin, EndLoop, UpdateCounters, Finish, Abort, SendSucceeds, SendFails
<1> QED
  BY <1>1, <1>2, <1>3, NextCases DEF vars, Tick, Restart, CreateScheduled,
     TimeComes, RunListed, CreateImmediate, RunByHand

(* Once a campaign in which nothing failed has a final status, every recipient *)
(* of it shows a result; and who shows as sent was sent a message, whatever    *)
(* failed (Run, UpdateRecipientResult, UpdateStatus).                          *)
THEOREM RowsAreSettled == Spec => []RowsSettled
<1> DEFINE IInv == /\ TypeOK /\ Control
                   /\ \A r \in Runners : HasSent(r)
                   /\ \A c \in Campaigns, p \in Recipients : Shown(c, p)
<1>1. Init => IInv
  <2>1. Init => \A r \in Runners : HasSent(r)
    BY DEF Init, NobodyRuns, HasSent
  <2>2. Init => \A c \in Campaigns, p \in Recipients : Shown(c, p)
    BY DEF Init, Shown
  <2> QED
    BY <2>1, <2>2, InitTypes
<1>2. IInv /\ [Next]_vars => IInv'
  BY TypeStep, ControlStep, HasSentStep, ShownStep
<1>3. IInv /\ (\A c \in Campaigns : Accounted(c)) => RowsSettled
  BY DEF RowsSettled, Shown, Accounted, Final
<1> QED
  BY <1>1, <1>2, <1>3, AccountsKept, PTL DEF Spec

-----------------------------------------------------------------------------
(* The safety half of RunningEnds.                                         *)

RunsOf(c) == {r \in Runners : campaign[r] = c /\ pc[r] \in Working}

(* A campaign that shows as running has a run under way, unless one of its  *)
(* runs was cut short: no other run's end takes the status back to running. *)
RunningIsRun(c) == status[c] = "running" /\ c \notin faulted => RunsOf(c) # {}

(* Only Begin makes a status running, and a run that ends sets it anew. *)
LEMMA RunningIsRunStep ==
    ASSUME TypeOK, Control, NEW c \in Campaigns, RunningIsRun(c), [Next]_vars
    PROVE  RunningIsRun(c)'
<1> USE DEF tableVars, loopVars, runVars, historyVars
<1>1. ASSUME status'[c] = "running" => status[c] = "running", faulted \subseteq faulted',
             RunsOf(c) \subseteq RunsOf(c)'
      PROVE  RunningIsRun(c)'
  BY <1>1 DEF RunningIsRun
<1>2. CASE UNCHANGED vars \/ Tick
  BY <1>1, <1>2 DEF vars, Tick, RunsOf
<1>3. CASE Restart
  <2>1. \A r \in RunsOf(c) : c \in faulted'
    BY <1>3 DEF Restart, RunsOf, Working
  <2> QED
    BY <1>3, <2>1 DEF Restart, RunningIsRun
<1>4. ASSUME NEW d \in Campaigns, CreateScheduled(d) \/ TimeComes(d) PROVE RunningIsRun(c)'
  BY <1>1, <1>4 DEF CreateScheduled, TimeComes, RunsOf, TypeOK
<1>5. ASSUME NEW r \in Runners, NEW d \in Campaigns, Calls(r, d)
      PROVE  RunsOf(c) \subseteq RunsOf(c)'
  BY <1>5 DEF Calls, At, GoTo, RunsOf, Working, TypeOK
<1>6. ASSUME NEW d \in Campaigns, RunListed(d) PROVE RunningIsRun(c)'
  BY <1>1, <1>5, <1>6 DEF RunListed, Runners
<1>7. ASSUME NEW r \in Callers, NEW d \in Campaigns, CreateImmediate(r, d) \/ RunByHand(r, d)
      PROVE  RunningIsRun(c)'
  <2>1. status'[c] = "running" => status[c] = "running"
    BY <1>7 DEF CreateImmediate, RunByHand, TypeOK
  <2> QED
    BY <1>1, <1>5, <1>7, <2>1 DEF CreateImmediate, RunByHand, Runners
<1>8. ASSUME NEW r \in Runners, Begin(r) PROVE RunningIsRun(c)'
  <2>1. CASE campaign[r] = c
    BY <1>8, <2>1 DEF Begin, GoTo, RunsOf, Working, RunningIsRun, TypeOK
  <2>2. CASE campaign[r] # c
    <3>1. RunsOf(c) \subseteq RunsOf(c)' /\ status'[c] = status[c] /\ faulted' = faulted
      BY <1>8, <2>2 DEF Begin, GoTo, RunsOf, TypeOK
    <3> QED
      BY <1>1, <3>1
  <2> QED
    BY <2>1, <2>2
<1>9. ASSUME NEW r \in Runners,
             \/ Record(r) \/ EndLoop(r) \/ UpdateCounters(r)
             \/ \E p \in Recipients : SendSucceeds(r, p) \/ SendFails(r, p)
      PROVE  RunningIsRun(c)'
  <2>1. /\ campaign' = campaign /\ status' = status /\ faulted \subseteq faulted'
        /\ \E step \in Working : pc' = [pc EXCEPT ![r] = step]
    BY <1>9 DEF Record, EndLoop, UpdateCounters, SendSucceeds, SendFails, GoTo, Working
  <2>2. RunsOf(c) \subseteq RunsOf(c)'
    BY <2>1 DEF RunsOf, TypeOK
  <2> QED
    BY <1>1, <2>1, <2>2
<1>10. ASSUME NEW r \in Runners, Finish(r) \/ Abort(r) PROVE RunningIsRun(c)'
  <2>1. CASE campaign[r] = c
    BY <1>10, <2>1 DEF Finish, Abort, RunningIsRun, TypeOK
  <2>2. CASE campaign[r] # c
    <3>1. RunsOf(c) \subseteq RunsOf(c)'
      BY <1>10, <2>2 DEF Finish, Abort, Leaves, GoTo, RunsOf, TypeOK
    <3>2. status'[c] = status[c] /\ faulted \subseteq faulted'
      BY <1>10, <2>2 DEF Finish, Abort, TypeOK
    <3> QED
      BY <1>1, <3>1, <3>2
  <2> QED
    BY <2>1, <2>2
<1> QED
  BY <1>2, <1>3, <1>4, <1>6, <1>7, <1>8, <1>9, <1>10, NextCases

(* Whatever runs overlap, no campaign is left running with nobody to end it, *)
(* but for a failure in a run of it or a restart (Run of campaign.go).       *)
THEOREM RunningCampaignsRun == Spec => [](\A c \in Campaigns : RunningIsRun(c))
<1> DEFINE IInv == TypeOK /\ Control /\ \A c \in Campaigns : RunningIsRun(c)
<1>1. Init => IInv
  <2>1. Init => \A c \in Campaigns : RunningIsRun(c)
    BY DEF Init, RunningIsRun
  <2> QED
    BY <2>1, InitTypes
<1>2. IInv /\ [Next]_vars => IInv'
  BY TypeStep, ControlStep, RunningIsRunStep
<1> QED
  BY <1>1, <1>2, PTL DEF Spec
=============================================================================
