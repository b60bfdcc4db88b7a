----------------------------- MODULE PoolProofs -----------------------------
(* Theorems about Pool and about WebhookDelivery, which extends it with the *)
(* rows and the POSTs of the deliveries, for every value of the constants.  *)
EXTENDS WebhookDelivery, TLAPS, SequenceTheorems

-----------------------------------------------------------------------------
(* The operators on the dead-letter list.                                  *)

(* A function on 1 .. n is a sequence of length n. *)
LEMMA FunctionIsSeq ==
    ASSUME NEW S, NEW n \in Nat, NEW f \in [1 .. n -> S]
    PROVE  f \in Seq(S) /\ Len(f) = n
<1>1. f \in Seq(S)
  BY SeqDef, Zenon
<1>2. 1 .. Len(f) = 1 .. n /\ Len(f) \in Nat
  BY <1>1, LenProperties
<1> QED
  BY <1>1, <1>2

(* The code's prepend-and-cut: length, entries, and the type of the result. *)
LEMMA PrependedType ==
    ASSUME NEW s \in Seq(JobIds), NEW j \in JobIds
    PROVE  /\ Prepended(s, j) \in Seq(JobIds)
           /\ Len(Prepended(s, j)) <= DeadRecentCap
           /\ Len(Prepended(s, j)) >= 1
           /\ Len(Prepended(s, j)) <= Len(s) + 1
           /\ DOMAIN Prepended(s, j) = 1 .. Len(Prepended(s, j))
           /\ \A k \in 1 .. Len(Prepended(s, j)) :
                 Prepended(s, j)[k] = IF k = 1 THEN j ELSE s[k - 1]
<1> DEFINE n == IF Len(s) < DeadRecentCap THEN Len(s) + 1 ELSE DeadRecentCap
           f == [k \in 1 .. n |-> IF k = 1 THEN j ELSE s[k - 1]]
<1>1. n \in Nat /\ n >= 1 /\ n <= Len(s) + 1 /\ n <= DeadRecentCap
  BY PoolAssumption, LenProperties
<1>2. \A k \in 1 .. n : (IF k = 1 THEN j ELSE s[k - 1]) \in JobIds
  BY <1>1, LenProperties, ElementOfSeq
<1>3. f \in [1 .. n -> JobIds]
  BY <1>2
<1>4. f \in Seq(JobIds) /\ Len(f) = n
  BY <1>1, <1>3, FunctionIsSeq, Zenon
<1>5. f = Prepended(s, j)
  BY DEF Prepended
<1> QED
  BY <1>1, <1>3, <1>4, <1>5

Distinct(s) == \A i, k \in DOMAIN s : s[i] = s[k] => i = k

(* Removing keeps the order and, of a list without duplicates, every entry *)
(* but that of j.                                                          *)
LEMMA FirstRemovedType ==
    ASSUME NEW s \in Seq(JobIds), NEW j \in JobIds
    PROVE  /\ FirstRemoved(s, j) \in Seq(JobIds)
           /\ Len(FirstRemoved(s, j)) <= Len(s)
           /\ Distinct(s) =>
                 /\ Distinct(FirstRemoved(s, j))
                 /\ \A k \in DOMAIN FirstRemoved(s, j) :
                       /\ FirstRemoved(s, j)[k] # j
                       /\ \E i \in DOMAIN s : FirstRemoved(s, j)[k] = s[i]
<1>1. CASE \A i \in DOMAIN s : s[i] # j
  <2>1. FirstRemoved(s, j) = s
    BY <1>1 DEF FirstRemoved
  <2> QED
    BY <1>1, <2>1, LenProperties DEF Distinct
<1>2. CASE \E i \in DOMAIN s : s[i] = j
  <2> DEFINE p == FirstOf(s, j)
             n == Len(s) - 1
             f == [k \in 1 .. n |-> IF k < p THEN s[k] ELSE s[k + 1]]
  <2>1. Len(s) \in Nat /\ DOMAIN s = 1 .. Len(s) /\ \A i \in 1 .. Len(s) : s[i] \in JobIds
    BY LenProperties, ElementOfSeq
  <2>2. FirstRemoved(s, j) = f
    BY <1>2 DEF FirstRemoved, WithoutPosition
  <2>3. n \in Nat /\ n <= Len(s)
    BY <1>2, <2>1
  <2>4. f \in [1 .. n -> JobIds]
    BY <2>1
  <2> HIDE DEF f
  <2>5. f \in Seq(JobIds) /\ Len(f) = n
    BY <2>3, <2>4, FunctionIsSeq, Zenon
  <2>6. Len(f) <= Len(s)
    BY <2>3, <2>5
  <2> USE DEF f, Distinct
  <2>7. ASSUME Distinct(s)
        PROVE  /\ Distinct(f)
               /\ \A k \in DOMAIN f : f[k] # j /\ \E i \in DOMAIN s : f[k] = s[i]
    <3>1. \E i \in DOMAIN s : s[i] = j /\ \A k \in DOMAIN s : s[k] = j => i <= k
      BY <1>2, <2>1, <2>7
    <3>2. p \in 1 .. Len(s) /\ s[p] = j
      BY <2>1, <3>1 DEF FirstOf
    <3> HIDE DEF p
    <3>3. Distinct(f)
      BY <2>1, <2>7, <3>2
    <3>4. ASSUME NEW k \in DOMAIN f
          PROVE  f[k] # j /\ \E i \in DOMAIN s : f[k] = s[i]
      <4>1. CASE k < p
        BY <2>1, <2>7, <3>2, <4>1
      <4>2. CASE ~(k < p)
        <5>1. f[k] = s[k + 1] /\ k + 1 \in DOMAIN s /\ k + 1 # p
          BY <2>1, <3>2, <4>2
        <5> QED
          BY <2>1, <2>7, <3>2, <5>1
      <4> QED
        BY <4>1, <4>2
    <3> QED
      BY <3>3, <3>4
  <2> HIDE DEF f, Distinct
  <2> QED
    BY <2>2, <2>5, <2>6, <2>7, Zenon
<1> QED
  BY <1>1, <1>2, Zenon

-----------------------------------------------------------------------------
(* Type correctness, with the control state it rests on.                   *)

(* The pool starts with the right types and with nobody holding a job. *)
LEMMA InitControl == Init => TypeOK /\ Control
BY PoolAssumption, EmptySeq DEF Init, TypeOK, Control, Job, WorkerPhase, RequesterPhase,
   Phase, Status, DeadLetterCap

(* Every operation of the pool and of the shutdown keeps types and control state. *)
LEMMA ControlStep == TypeOK /\ Control /\ [Next]_vars => TypeOK' /\ Control'
<1> SUFFICES ASSUME TypeOK, Control, [Next]_vars
             PROVE  TypeOK' /\ Control'
  OBVIOUS
<1> USE PoolAssumption
    DEF TypeOK, Control, Alive, RequestsRun, JobsClosed, WorkerPhase, RequesterPhase, Phase,
        Status, New, workerVars, deadVars, requestVars, historyVars
<1>1. ASSUME NEW j \in JobIds, SubmitAccepted(j) PROVE TypeOK' /\ Control'
  BY <1>1 DEF SubmitAccepted, Accepts, Track, FreshJob, Job
<1>2. ASSUME NEW j \in JobIds, SubmitDropped(j) PROVE TypeOK' /\ Control'
  BY <1>2 DEF SubmitDropped, Refuses, Track, FreshJob, Job
<1>3. ASSUME NEW j \in JobIds, SubmitPanics(j) PROVE TypeOK' /\ Control'
  BY <1>3 DEF SubmitPanics, SendPanics
<1>4. ASSUME NEW w \in Workers, Take(w) PROVE TypeOK' /\ Control'
  <2>1. jobs' \in Seq(Job) /\ Len(jobs') < Len(jobs) /\ Head(jobs) \in Job
    BY <1>4, HeadTailProperties DEF Take
  <2>2. wjob' \in [Workers -> Job \cup {NoJob}] /\ wjob'[w] # NoJob
    BY <1>4, <2>1 DEF Take, Job
  <2>a. latest' \in [JobIds -> Status]
    BY <1>4, <2>1 DEF Take, Track, Job
  <2>b. wphase' \in [Workers -> WorkerPhase]
    BY <1>4 DEF Take
  <2>3. TypeOK'
    BY <1>4, <2>1, <2>2, <2>a, <2>b, LenProperties DEF Take
  <2>4. Control'
    BY <1>4, <2>2 DEF Take, Track
  <2> QED
    BY <2>3, <2>4
<1>5. ASSUME NEW w \in Workers, HandlerSucceeds(w) PROVE TypeOK' /\ Control'
  BY <1>5 DEF HandlerSucceeds, TurnOver, Track, Job
<1>6. ASSUME NEW w \in Workers, HandlerBuries(w) PROVE TypeOK' /\ Control'
  <2>1. wjob[w] \in Job /\ wjob[w].id \in JobIds
    BY <1>6 DEF HandlerBuries, TurnOver, Job
  <2>2. deadRecent' \in Seq(JobIds)
    BY <1>6, <2>1, PrependedType DEF HandlerBuries
  <2>3. deadStore' \subseteq Job
    BY <1>6, <2>1 DEF HandlerBuries, Stored
  <2>4. TypeOK'
    BY <1>6, <2>1, <2>2, <2>3 DEF HandlerBuries, TurnOver, Track
  <2>5. Control'
    BY <1>6 DEF HandlerBuries, TurnOver, Track
  <2> QED
    BY <2>4, <2>5
<1>7. ASSUME NEW w \in Workers, HandlerRetries(w) PROVE TypeOK' /\ Control'
  BY <1>7 DEF HandlerRetries, TurnOver, Track, Job
<1>8. ASSUME NEW w \in Workers, LogDead(w) PROVE TypeOK' /\ Control'
  BY <1>8 DEF LogDead, DeadLetterCap
<1>9. ASSUME NEW w \in Workers, WorkerExits(w) PROVE TypeOK' /\ Control'
  BY <1>9 DEF WorkerExits
<1>10. ASSUME Drain PROVE TypeOK' /\ Control'
  BY <1>10 DEF Drain, DeadLetterCap
<1>11. ASSUME NEW t \in timers, TimerFireAccepted(t) PROVE TypeOK' /\ Control'
  BY <1>11 DEF TimerFireAccepted, Accepts, Track, Job
<1>12. ASSUME NEW t \in timers, TimerFireDropped(t) PROVE TypeOK' /\ Control'
  BY <1>12 DEF TimerFireDropped, Refuses, Track, Job
<1>13. ASSUME NEW t \in timers, TimerFirePanics(t) PROVE TypeOK' /\ Control'
  BY <1>13 DEF TimerFirePanics, SendPanics
<1>14. ASSUME NEW r \in Requesters, NEW j \in JobIds, RequeueTake(r, j) PROVE TypeOK' /\ Control'
  <2>1. deadRecent' \in Seq(JobIds)
    BY <1>14, FirstRemovedType DEF RequeueTake
  <2>2. TypeOK'
    BY <1>14, <2>1 DEF RequeueTake, FreshJob, Job
  <2>3. Control'
    BY <1>14 DEF RequeueTake, FreshJob, Job
  <2> QED
    BY <2>2, <2>3
<1>15. ASSUME NEW r \in Requesters, RequeueAccepted(r) PROVE TypeOK' /\ Control'
  BY <1>15 DEF RequeueAccepted, Accepts, Track, Job
<1>16. ASSUME NEW r \in Requesters, RequeueRefused(r) PROVE TypeOK' /\ Control'
  BY <1>16 DEF RequeueRefused, Refuses, Track, Job
<1>17. ASSUME NEW r \in Requesters, RequeueConfirm(r) PROVE TypeOK' /\ Control'
  BY <1>17 DEF RequeueConfirm, Track, Job
<1>18. ASSUME NEW r \in Requesters, RequeuePutBack(r) PROVE TypeOK' /\ Control'
  <2>1. rjob[r] \in Job /\ rjob[r].id \in JobIds
    BY <1>18 DEF RequeuePutBack, Job
  <2>2. deadRecent' \in Seq(JobIds)
    BY <1>18, <2>1, PrependedType DEF RequeuePutBack
  <2>3. deadStore' \subseteq Job
    BY <1>18, <2>1 DEF RequeuePutBack, Stored
  <2>4. TypeOK'
    BY <1>18, <2>1, <2>2, <2>3 DEF RequeuePutBack
  <2>5. Control'
    BY <1>18 DEF RequeuePutBack
  <2> QED
    BY <2>4, <2>5
<1>19. ASSUME Shutdown PROVE TypeOK' /\ Control'
  BY <1>19
     DEF Shutdown, Cancel, HttpShutdown, RunFails, CloseJobs,
         WorkersJoined, ProcessExit, MoveTo
<1>20. CASE UNCHANGED vars
  BY <1>20 DEF vars
<1> QED
  BY <1>1, <1>2, <1>3, <1>4, <1>5, <1>6, <1>7, <1>8, <1>9, <1>10, <1>11, <1>12,
     <1>13, <1>14, <1>15, <1>16, <1>17, <1>18, <1>19, <1>20
     DEF Next, Submit, WorkerStep, TimerFires, RequeueStep

-----------------------------------------------------------------------------
(* Theorem: types.  In every reachable state the variables have the types  *)
(* TypeOK gives them; with it, the control state hangs together.           *)

(* In every reachable state the variables have their types and the control
   state hangs together: who holds a job, and what each stage of the shutdown
   has established. *)
THEOREM TypeCorrect == Spec => [](TypeOK /\ Control)
BY InitControl, ControlStep, PTL DEF Spec

(* Stop returns with the channel drained and every worker gone, whatever   *)
(* was buffered when it closed the channel: no worker is left to send on   *)
(* the closed deadLetter channel.                                          *)
THEOREM StopSafe == Spec => []StopJoinsWorkers
<1>1. Control => StopJoinsWorkers
  BY PoolAssumption DEF Control, StopJoinsWorkers
<1> QED
  BY <1>1, TypeCorrect, PTL

-----------------------------------------------------------------------------
(* How a step on one place changes the set of jobs there.                  *)

(* A send on p.jobs adds one id to the channel. *)
LEMMA QueueGrows ==
    ASSUME TypeOK, NEW job \in Job, jobs' = Append(jobs, job)
    PROVE  /\ Queued' = Queued \cup {job.id}
           /\ QueuedOnce /\ job.id \notin Queued => QueuedOnce'
<1>1. /\ DOMAIN jobs = 1 .. Len(jobs) /\ Len(jobs) \in Nat
      /\ DOMAIN jobs' = 1 .. Len(jobs) + 1
      /\ jobs'[Len(jobs) + 1] = job
      /\ \A i \in 1 .. Len(jobs) : jobs'[i] = jobs[i]
  BY LenProperties DEF TypeOK
<1>2. Queued' = Queued \cup {job.id}
  <2>1. ASSUME NEW j \in Queued' PROVE j \in Queued \cup {job.id}
    BY <1>1, <2>1 DEF Queued
  <2>2. ASSUME NEW j \in Queued PROVE j \in Queued'
    BY <1>1, <2>2 DEF Queued
  <2>3. job.id \in Queued'
    BY <1>1 DEF Queued
  <2> QED
    BY <2>1, <2>2, <2>3
<1>3. QueuedOnce /\ job.id \notin Queued => QueuedOnce'
  BY <1>1 DEF Queued, QueuedOnce
<1> QED
  BY <1>2, <1>3

(* A receive from p.jobs takes the first id out, and it was there once. *)
LEMMA QueueShrinks ==
    ASSUME TypeOK, jobs # <<>>, jobs' = Tail(jobs), QueuedOnce
    PROVE  /\ Head(jobs) \in Job
           /\ Head(jobs).id \in Queued
           /\ Queued' = Queued \ {Head(jobs).id}
           /\ QueuedOnce'
<1>1. /\ DOMAIN jobs = 1 .. Len(jobs) /\ Len(jobs) \in Nat /\ Len(jobs) >= 1
      /\ DOMAIN jobs' = 1 .. Len(jobs) - 1
      /\ Head(jobs) = jobs[1] /\ Head(jobs) \in Job
      /\ \A i \in 1 .. Len(jobs) - 1 : jobs'[i] = jobs[i + 1]
  BY HeadTailProperties, LenProperties, EmptySeq DEF TypeOK
<1>2. ASSUME NEW j \in Queued' PROVE j \in Queued /\ j # Head(jobs).id
  <2>1. PICK i \in 1 .. Len(jobs) - 1 : jobs[i + 1].id = j
    BY <1>1, <1>2 DEF Queued
  <2>2. i + 1 \in DOMAIN jobs /\ 1 \in DOMAIN jobs /\ i + 1 # 1
    BY <1>1
  <2> QED
    BY <1>1, <2>1, <2>2 DEF Queued, QueuedOnce
<1>3. ASSUME NEW j \in Queued, j # Head(jobs).id PROVE j \in Queued'
  <2>1. PICK i \in 1 .. Len(jobs) : jobs[i].id = j
    BY <1>1, <1>3 DEF Queued
  <2>2. i - 1 \in DOMAIN jobs' /\ jobs'[i - 1] = jobs[i]
    BY <1>1, <1>3, <2>1
  <2> QED
    BY <2>1, <2>2 DEF Queued
<1>4. Head(jobs).id \in Queued
  BY <1>1 DEF Queued
<1>5. QueuedOnce'
  BY <1>1 DEF QueuedOnce
<1> QED
  BY <1>1, <1>2, <1>3, <1>4, <1>5

(* A worker that takes a job handles it. *)
LEMMA WorkerGets ==
    ASSUME TypeOK, NEW w \in Workers, NEW job \in Job, wphase[w] # "handling",
           wphase' = [wphase EXCEPT ![w] = "handling"],
           wjob' = [wjob EXCEPT ![w] = job]
    PROVE  /\ Handled' = Handled \cup {job.id}
           /\ HandledOnce /\ job.id \notin Handled => HandledOnce'
BY DEF TypeOK, Handled, HandledOnce

(* A worker that finishes its turn handles nothing. *)
LEMMA WorkerYields ==
    ASSUME TypeOK, NEW w \in Workers, NEW next \in WorkerPhase, TurnOver(w, next),
           next # "handling", HandledOnce
    PROVE  /\ wjob[w].id \in Handled
           /\ Handled' = Handled \ {wjob[w].id}
           /\ HandledOnce'
BY DEF TypeOK, Handled, HandledOnce, TurnOver

(* A worker that logs or leaves changes nobody's job. *)
LEMMA WorkerKeeps ==
    ASSUME TypeOK, NEW w \in Workers, NEW next \in WorkerPhase, wphase[w] # "handling",
           wphase' = [wphase EXCEPT ![w] = next], next # "handling", UNCHANGED wjob
    PROVE  Handled' = Handled /\ (HandledOnce => HandledOnce')
BY DEF TypeOK, Handled, HandledOnce

(* AfterFunc adds one id to the waiting retries. *)
LEMMA TimerSet ==
    ASSUME TypeOK, NEW job \in Job, timers' = timers \cup {job}
    PROVE  /\ Waiting' = Waiting \cup {job.id}
           /\ WaitingOnce /\ job.id \notin Waiting => WaitingOnce'
BY DEF TypeOK, Waiting, WaitingOnce, Ids

(* A timer that fires takes its id off the waiting retries. *)
LEMMA TimerGone ==
    ASSUME TypeOK, NEW job \in timers, timers' = timers \ {job}, WaitingOnce
    PROVE  job.id \in Waiting /\ Waiting' = Waiting \ {job.id} /\ WaitingOnce'
BY DEF TypeOK, Waiting, WaitingOnce, Ids

(* Storing a job adds its id to the dead store, once. *)
LEMMA StoreGets ==
    ASSUME TypeOK, NEW job \in Job, deadStore' = Stored(job)
    PROVE  Dead' = Dead \cup {job.id} /\ (DeadOnce => DeadOnce')
BY DEF TypeOK, Dead, DeadOnce, Ids, Stored

(* Deleting a job takes its id out of the dead store. *)
LEMMA StoreLoses ==
    ASSUME TypeOK, NEW j \in JobIds, deadStore' = {d \in deadStore : d.id # j}
    PROVE  Dead' = Dead \ {j} /\ (DeadOnce => DeadOnce')
BY DEF TypeOK, Dead, DeadOnce, Ids

(* A request that took a dead letter holds its id. *)
LEMMA RequestHolds ==
    ASSUME TypeOK, NEW r \in Requesters, NEW j \in JobIds, rphase[r] = "idle",
           rphase' = [rphase EXCEPT ![r] = "taken"],
           rjob' = [rjob EXCEPT ![r] = FreshJob(j)]
    PROVE  Held' = Held \cup {j} /\ (HeldOnce /\ j \notin Held => HeldOnce')
BY DEF TypeOK, Held, HeldOnce, FreshJob

(* A request that sent or put back its job holds none. *)
LEMMA RequestYields ==
    ASSUME TypeOK, NEW r \in Requesters, rphase[r] \in {"taken", "refused"},
           HeldOnce, NEW next \in {"sent", "idle"},
           rphase' = [rphase EXCEPT ![r] = next],
           \/ UNCHANGED rjob
           \/ rjob' = [rjob EXCEPT ![r] = NoJob]
    PROVE  /\ rjob[r].id \in Held
           /\ Held' = Held \ {rjob[r].id}
           /\ HeldOnce'
BY DEF TypeOK, Held, HeldOnce

(* track changes the newest entry of one job, which is then known. *)
LEMMA Tracked ==
    ASSUME TypeOK, NEW j \in JobIds, NEW status \in Status \ {"none"}, Track(j, status)
    PROVE  \A i \in JobIds : New(i)' <=> New(i) /\ i # j
BY DEF TypeOK, New, Track

-----------------------------------------------------------------------------
(* Theorem: places.  Every job is in exactly one place from its submission on:   *)
(* no interleaving of submissions, retries, requeues and shutdown makes a  *)
(* second copy of a job or loses one without a trace.                      *)

(* Steps that leave p.jobs alone. *)
LEMMA QueueSame == UNCHANGED jobs => Queued' = Queued /\ (QueuedOnce => QueuedOnce')
BY DEF Queued, QueuedOnce

(* Steps that leave the workers alone. *)
LEMMA HandledSame ==
    UNCHANGED workerVars => Handled' = Handled /\ (HandledOnce => HandledOnce')
BY DEF workerVars, Handled, HandledOnce

(* Steps that leave the timers alone. *)
LEMMA WaitingSame == UNCHANGED timers => Waiting' = Waiting /\ (WaitingOnce => WaitingOnce')
BY DEF Waiting, WaitingOnce

(* Steps that leave the dead store alone. *)
LEMMA DeadSame == UNCHANGED deadVars => Dead' = Dead /\ (DeadOnce => DeadOnce')
BY DEF deadVars, Dead, DeadOnce

(* Steps that leave the requests alone. *)
LEMMA HeldSame == UNCHANGED requestVars => Held' = Held /\ (HeldOnce => HeldOnce')
BY DEF requestVars, Held, HeldOnce

(* Steps that end no job. *)
LEMMA GoneSame == UNCHANGED historyVars => UNCHANGED <<completed, dropped>>
BY DEF historyVars

(* A job that moves from one place to another: what all the steps share.   *)
Placed == AtMostOnce /\ NothingVanishes

(* No job is anywhere at first. *)
LEMMA InitPlaced == Init => Placed
<1> SUFFICES ASSUME Init PROVE Placed
  OBVIOUS
<1>1. Queued = {} /\ Handled = {} /\ Waiting = {} /\ Dead = {} /\ Held = {} /\ Gone = {}
  BY EmptySeq DEF Init, Queued, Handled, Waiting, Dead, Held, Gone, Ids
<1>2. QueuedOnce /\ HandledOnce /\ WaitingOnce /\ DeadOnce /\ HeldOnce
  BY EmptySeq DEF Init, QueuedOnce, HandledOnce, WaitingOnce, DeadOnce, HeldOnce
<1>3. PlacesDisjoint /\ NothingVanishes
  BY <1>1 DEF Init, PlacesDisjoint, NothingVanishes, Anywhere, New, Gone
<1> QED
  BY <1>2, <1>3 DEF Placed, AtMostOnce

(* A submission that is accepted brings a new job to the channel.      *)
LEMMA SubmitAcceptedMoves ==
    ASSUME TypeOK, Control, Placed, NEW j \in JobIds, SubmitAccepted(j)
    PROVE  /\ FreshJob(j) \in Job
           /\ FreshJob(j).id = j
           /\ New(j)
           /\ j \notin Anywhere
           /\ Queued' = Queued \cup {j}
           /\ QueuedOnce'
           /\ Handled' = Handled
           /\ HandledOnce'
           /\ Waiting' = Waiting
           /\ WaitingOnce'
           /\ Dead' = Dead
           /\ DeadOnce'
           /\ Held' = Held
           /\ HeldOnce'
           /\ completed' = completed
           /\ dropped' = dropped
           /\ \A i \in JobIds : New(i)' <=> New(i) /\ i # j
<1>0. /\ QueuedOnce /\ HandledOnce /\ WaitingOnce /\ DeadOnce /\ HeldOnce
      /\ PlacesDisjoint /\ NothingVanishes
  BY DEF Placed, AtMostOnce
<1> USE <1>0
<1>1. FreshJob(j) \in Job /\ FreshJob(j).id = j
  BY DEF FreshJob, Job
<1>2. New(j) /\ j \notin Anywhere
  BY DEF SubmitAccepted, NothingVanishes
<1>3. Queued' = Queued \cup {j} /\ QueuedOnce'
  BY <1>1, <1>2, QueueGrows DEF SubmitAccepted, Accepts, Anywhere
<1>4. /\ Handled' = Handled /\ HandledOnce'
      /\ Waiting' = Waiting /\ WaitingOnce'
      /\ Dead' = Dead /\ DeadOnce'
      /\ Held' = Held /\ HeldOnce'
      /\ completed' = completed /\ dropped' = dropped
  BY HandledSame, WaitingSame, DeadSame, HeldSame, GoneSame DEF SubmitAccepted
<1>5. \A i \in JobIds : New(i)' <=> New(i) /\ i # j
  BY <1>1, Tracked DEF SubmitAccepted, Accepts, Status
<1> QED
  BY <1>1, <1>2, <1>3, <1>4, <1>5

(* A submission that is refused ends a new job.                        *)
LEMMA SubmitDroppedMoves ==
    ASSUME TypeOK, Control, Placed, NEW j \in JobIds, SubmitDropped(j)
    PROVE  /\ New(j)
           /\ j \notin Anywhere
           /\ Queued' = Queued
           /\ QueuedOnce'
           /\ Handled' = Handled
           /\ HandledOnce'
           /\ Waiting' = Waiting
           /\ WaitingOnce'
           /\ Dead' = Dead
           /\ DeadOnce'
           /\ Held' = Held
           /\ HeldOnce'
           /\ dropped' = dropped \cup {j}
           /\ completed' = completed
           /\ \A i \in JobIds : New(i)' <=> New(i) /\ i # j
<1>0. /\ QueuedOnce /\ HandledOnce /\ WaitingOnce /\ DeadOnce /\ HeldOnce
      /\ PlacesDisjoint /\ NothingVanishes
  BY DEF Placed, AtMostOnce
<1> USE <1>0
<1>1. New(j) /\ j \notin Anywhere
  BY DEF SubmitDropped, NothingVanishes
<1>2. /\ Queued' = Queued /\ QueuedOnce'
      /\ Handled' = Handled /\ HandledOnce'
      /\ Waiting' = Waiting /\ WaitingOnce'
      /\ Dead' = Dead /\ DeadOnce'
      /\ Held' = Held /\ HeldOnce'
  BY QueueSame, HandledSame, WaitingSame, DeadSame, HeldSame DEF SubmitDropped, Refuses
<1>3. dropped' = dropped \cup {j} /\ completed' = completed
  BY DEF SubmitDropped
<1>4. \A i \in JobIds : New(i)' <=> New(i) /\ i # j
  BY Tracked DEF SubmitDropped, Refuses, Status, FreshJob
<1> QED
  BY <1>1, <1>2, <1>3, <1>4

(* A submission that panics moves nothing.                             *)
LEMMA SubmitPanicsMoves ==
    ASSUME TypeOK, Control, Placed, NEW j \in JobIds, SubmitPanics(j)
    PROVE  /\ Queued' = Queued
           /\ QueuedOnce'
           /\ Handled' = Handled
           /\ HandledOnce'
           /\ Waiting' = Waiting
           /\ WaitingOnce'
           /\ Dead' = Dead
           /\ DeadOnce'
           /\ Held' = Held
           /\ HeldOnce'
           /\ completed' = completed
           /\ dropped' = dropped
           /\ \A i \in JobIds : New(i)' <=> New(i)
<1>0. /\ QueuedOnce /\ HandledOnce /\ WaitingOnce /\ DeadOnce /\ HeldOnce
      /\ PlacesDisjoint /\ NothingVanishes
  BY DEF Placed, AtMostOnce
<1> USE <1>0
<1>1. /\ Queued' = Queued /\ QueuedOnce'
      /\ Handled' = Handled /\ HandledOnce'
      /\ Waiting' = Waiting /\ WaitingOnce'
      /\ Dead' = Dead /\ DeadOnce'
      /\ Held' = Held /\ HeldOnce'
      /\ completed' = completed /\ dropped' = dropped
  BY QueueSame, HandledSame, WaitingSame, DeadSame, HeldSame, GoneSame
     DEF SubmitPanics, SendPanics
<1>2. \A i \in JobIds : New(i)' <=> New(i)
  BY DEF New, SubmitPanics, SendPanics
<1> QED
  BY <1>1, <1>2

(* A worker takes the first job of the channel.                        *)
LEMMA TakeMoves ==
    ASSUME TypeOK, Control, Placed, NEW w \in Workers, Take(w)
    PROVE  /\ Head(jobs) \in Job
           /\ Head(jobs).id \in JobIds
           /\ Head(jobs).id \in Queued
           /\ Queued' = Queued \ {Head(jobs).id}
           /\ QueuedOnce'
           /\ Head(jobs).id \notin Handled
           /\ [id |-> Head(jobs).id, attempt |-> Head(jobs).attempt + 1] \in Job
           /\ Handled' = Handled \cup {Head(jobs).id}
           /\ HandledOnce'
           /\ Waiting' = Waiting
           /\ WaitingOnce'
           /\ Dead' = Dead
           /\ DeadOnce'
           /\ Held' = Held
           /\ HeldOnce'
           /\ completed' = completed
           /\ dropped' = dropped
           /\ \A i \in JobIds : New(i)' <=> New(i) /\ i # Head(jobs).id
<1>0. /\ QueuedOnce /\ HandledOnce /\ WaitingOnce /\ DeadOnce /\ HeldOnce
      /\ PlacesDisjoint /\ NothingVanishes
  BY DEF Placed, AtMostOnce
<1> USE <1>0
<1>1. /\ Head(jobs) \in Job /\ Head(jobs).id \in JobIds
      /\ Head(jobs).id \in Queued
      /\ Queued' = Queued \ {Head(jobs).id} /\ QueuedOnce'
  BY QueueShrinks DEF Take, Job
<1>2. Head(jobs).id \notin Handled
  BY <1>1 DEF PlacesDisjoint
<1>3. [id |-> Head(jobs).id, attempt |-> Head(jobs).attempt + 1] \in Job
  BY <1>1 DEF Job
<1>4. Handled' = Handled \cup {Head(jobs).id} /\ HandledOnce'
  BY <1>2, <1>3, WorkerGets DEF Take
<1>5. /\ Waiting' = Waiting /\ WaitingOnce'
      /\ Dead' = Dead /\ DeadOnce'
      /\ Held' = Held /\ HeldOnce'
      /\ completed' = completed /\ dropped' = dropped
  BY WaitingSame, DeadSame, HeldSame, GoneSame DEF Take
<1>6. \A i \in JobIds : New(i)' <=> New(i) /\ i # Head(jobs).id
  BY <1>1, Tracked DEF Take, Status
<1> QED
  BY <1>1, <1>2, <1>3, <1>4, <1>5, <1>6

(* A job that succeeds leaves its worker for good.                     *)
LEMMA HandlerSucceedsMoves ==
    ASSUME TypeOK, Control, Placed, NEW w \in Workers, HandlerSucceeds(w)
    PROVE  /\ wjob[w] \in Job
           /\ wjob[w].id \in JobIds
           /\ UNCHANGED <<jobs, requestVars>>
           /\ wjob[w].id \in Handled
           /\ Handled' = Handled \ {wjob[w].id}
           /\ HandledOnce'
           /\ Queued' = Queued
           /\ QueuedOnce'
           /\ Held' = Held
           /\ HeldOnce'
           /\ completed' = completed \cup {wjob[w].id}
           /\ dropped' = dropped
           /\ Waiting' = Waiting
           /\ WaitingOnce'
           /\ Dead' = Dead
           /\ DeadOnce'
           /\ \A i \in JobIds : New(i)' <=> New(i) /\ i # wjob[w].id
<1>0. /\ QueuedOnce /\ HandledOnce /\ WaitingOnce /\ DeadOnce /\ HeldOnce
      /\ PlacesDisjoint /\ NothingVanishes
  BY DEF Placed, AtMostOnce
<1> USE <1>0
<1>1. /\ wjob[w] \in Job /\ wjob[w].id \in JobIds
      /\ UNCHANGED <<jobs, requestVars>>
  BY DEF HandlerSucceeds, TurnOver, TypeOK, Control, Job
<1>2. /\ wjob[w].id \in Handled
      /\ Handled' = Handled \ {wjob[w].id} /\ HandledOnce'
  BY WorkerYields DEF HandlerSucceeds, WorkerPhase
<1>3. /\ Queued' = Queued /\ QueuedOnce'
      /\ Held' = Held /\ HeldOnce'
  BY <1>1, QueueSame, HeldSame
<1>4. completed' = completed \cup {wjob[w].id} /\ dropped' = dropped
  BY DEF HandlerSucceeds
<1>5. /\ Waiting' = Waiting /\ WaitingOnce'
      /\ Dead' = Dead /\ DeadOnce'
  BY WaitingSame, DeadSame DEF HandlerSucceeds
<1>6. \A i \in JobIds : New(i)' <=> New(i) /\ i # wjob[w].id
  BY <1>1, Tracked DEF HandlerSucceeds, Status
<1> QED
  BY <1>1, <1>2, <1>3, <1>4, <1>5, <1>6

(* A job that failed for the last time goes to the dead store.         *)
LEMMA HandlerBuriesMoves ==
    ASSUME TypeOK, Control, Placed, NEW w \in Workers, HandlerBuries(w)
    PROVE  /\ wjob[w] \in Job
           /\ wjob[w].id \in JobIds
           /\ UNCHANGED <<jobs, requestVars>>
           /\ wjob[w].id \in Handled
           /\ Handled' = Handled \ {wjob[w].id}
           /\ HandledOnce'
           /\ Queued' = Queued
           /\ QueuedOnce'
           /\ Held' = Held
           /\ HeldOnce'
           /\ Dead' = Dead \cup {wjob[w].id}
           /\ DeadOnce'
           /\ Waiting' = Waiting
           /\ WaitingOnce'
           /\ completed' = completed
           /\ dropped' = dropped
           /\ \A i \in JobIds : New(i)' <=> New(i) /\ i # wjob[w].id
<1>0. /\ QueuedOnce /\ HandledOnce /\ WaitingOnce /\ DeadOnce /\ HeldOnce
      /\ PlacesDisjoint /\ NothingVanishes
  BY DEF Placed, AtMostOnce
<1> USE <1>0
<1>1. /\ wjob[w] \in Job /\ wjob[w].id \in JobIds
      /\ UNCHANGED <<jobs, requestVars>>
  BY DEF HandlerBuries, TurnOver, TypeOK, Control, Job
<1>2. /\ wjob[w].id \in Handled
      /\ Handled' = Handled \ {wjob[w].id} /\ HandledOnce'
  BY WorkerYields DEF HandlerBuries, WorkerPhase
<1>3. /\ Queued' = Queued /\ QueuedOnce'
      /\ Held' = Held /\ HeldOnce'
  BY <1>1, QueueSame, HeldSame
<1>4. Dead' = Dead \cup {wjob[w].id} /\ DeadOnce'
  BY <1>1, StoreGets DEF HandlerBuries
<1>5. /\ Waiting' = Waiting /\ WaitingOnce'
      /\ completed' = completed /\ dropped' = dropped
  BY WaitingSame, GoneSame DEF HandlerBuries
<1>6. \A i \in JobIds : New(i)' <=> New(i) /\ i # wjob[w].id
  BY <1>1, Tracked DEF HandlerBuries, Status
<1> QED
  BY <1>1, <1>2, <1>3, <1>4, <1>5, <1>6

(* A job that failed before waits for its retry.                       *)
LEMMA HandlerRetriesMoves ==
    ASSUME TypeOK, Control, Placed, NEW w \in Workers, HandlerRetries(w)
    PROVE  /\ wjob[w] \in Job
           /\ wjob[w].id \in JobIds
           /\ UNCHANGED <<jobs, requestVars>>
           /\ wjob[w].id \in Handled
           /\ Handled' = Handled \ {wjob[w].id}
           /\ HandledOnce'
           /\ Queued' = Queued
           /\ QueuedOnce'
           /\ Held' = Held
           /\ HeldOnce'
           /\ Waiting' = Waiting \cup {wjob[w].id}
           /\ WaitingOnce'
           /\ Dead' = Dead
           /\ DeadOnce'
           /\ completed' = completed
           /\ dropped' = dropped
           /\ \A i \in JobIds : New(i)' <=> New(i) /\ i # wjob[w].id
<1>0. /\ QueuedOnce /\ HandledOnce /\ WaitingOnce /\ DeadOnce /\ HeldOnce
      /\ PlacesDisjoint /\ NothingVanishes
  BY DEF Placed, AtMostOnce
<1> USE <1>0
<1>1. /\ wjob[w] \in Job /\ wjob[w].id \in JobIds
      /\ UNCHANGED <<jobs, requestVars>>
  BY DEF HandlerRetries, TurnOver, TypeOK, Control, Job
<1>2. /\ wjob[w].id \in Handled
      /\ Handled' = Handled \ {wjob[w].id} /\ HandledOnce'
  BY WorkerYields DEF HandlerRetries, WorkerPhase
<1>3. /\ Queued' = Queued /\ QueuedOnce'
      /\ Held' = Held /\ HeldOnce'
  BY <1>1, QueueSame, HeldSame
<1>4. Waiting' = Waiting \cup {wjob[w].id} /\ WaitingOnce'
  BY <1>1, <1>2, TimerSet DEF HandlerRetries, PlacesDisjoint
<1>5. /\ Dead' = Dead /\ DeadOnce'
      /\ completed' = completed /\ dropped' = dropped
  BY DeadSame, GoneSame DEF HandlerRetries
<1>6. \A i \in JobIds : New(i)' <=> New(i) /\ i # wjob[w].id
  BY <1>1, Tracked DEF HandlerRetries, Status
<1> QED
  BY <1>1, <1>2, <1>3, <1>4, <1>5, <1>6

(* A worker that logs a dead letter moves nothing.                     *)
LEMMA LogDeadMoves ==
    ASSUME TypeOK, Control, Placed, NEW w \in Workers, LogDead(w)
    PROVE  /\ Handled' = Handled
           /\ HandledOnce'
           /\ Queued' = Queued
           /\ QueuedOnce'
           /\ Waiting' = Waiting
           /\ WaitingOnce'
           /\ Dead' = Dead
           /\ DeadOnce'
           /\ Held' = Held
           /\ HeldOnce'
           /\ completed' = completed
           /\ dropped' = dropped
           /\ \A i \in JobIds : New(i)' <=> New(i)
<1>0. /\ QueuedOnce /\ HandledOnce /\ WaitingOnce /\ DeadOnce /\ HeldOnce
      /\ PlacesDisjoint /\ NothingVanishes
  BY DEF Placed, AtMostOnce
<1> USE <1>0
<1>1. Handled' = Handled /\ HandledOnce'
  BY WorkerKeeps DEF LogDead, WorkerPhase
<1>2. /\ Queued' = Queued /\ QueuedOnce'
      /\ Waiting' = Waiting /\ WaitingOnce'
      /\ Dead' = Dead /\ DeadOnce'
      /\ Held' = Held /\ HeldOnce'
      /\ completed' = completed /\ dropped' = dropped
  BY QueueSame, WaitingSame, DeadSame, HeldSame, GoneSame DEF LogDead
<1>3. \A i \in JobIds : New(i)' <=> New(i)
  BY DEF New, LogDead
<1> QED
  BY <1>1, <1>2, <1>3

(* A worker that leaves moves nothing.                                 *)
LEMMA WorkerExitsMoves ==
    ASSUME TypeOK, Control, Placed, NEW w \in Workers, WorkerExits(w)
    PROVE  /\ Handled' = Handled
           /\ HandledOnce'
           /\ Queued' = Queued
           /\ QueuedOnce'
           /\ Waiting' = Waiting
           /\ WaitingOnce'
           /\ Dead' = Dead
           /\ DeadOnce'
           /\ Held' = Held
           /\ HeldOnce'
           /\ completed' = completed
           /\ dropped' = dropped
           /\ \A i \in JobIds : New(i)' <=> New(i)
<1>0. /\ QueuedOnce /\ HandledOnce /\ WaitingOnce /\ DeadOnce /\ HeldOnce
      /\ PlacesDisjoint /\ NothingVanishes
  BY DEF Placed, AtMostOnce
<1> USE <1>0
<1>1. Handled' = Handled /\ HandledOnce'
  BY WorkerKeeps DEF WorkerExits, WorkerPhase
<1>2. /\ Queued' = Queued /\ QueuedOnce'
      /\ Waiting' = Waiting /\ WaitingOnce'
      /\ Dead' = Dead /\ DeadOnce'
      /\ Held' = Held /\ HeldOnce'
      /\ completed' = completed /\ dropped' = dropped
  BY QueueSame, WaitingSame, DeadSame, HeldSame, GoneSame DEF WorkerExits
<1>3. \A i \in JobIds : New(i)' <=> New(i)
  BY DEF New, WorkerExits
<1> QED
  BY <1>1, <1>2, <1>3

(* Logging dead letters moves nothing.                                 *)
LEMMA DrainMoves ==
    ASSUME TypeOK, Control, Placed, Drain
    PROVE  /\ Queued' = Queued
           /\ QueuedOnce'
           /\ Handled' = Handled
           /\ HandledOnce'
           /\ Waiting' = Waiting
           /\ WaitingOnce'
           /\ Dead' = Dead
           /\ DeadOnce'
           /\ Held' = Held
           /\ HeldOnce'
           /\ completed' = completed
           /\ dropped' = dropped
           /\ \A i \in JobIds : New(i)' <=> New(i)
<1>0. /\ QueuedOnce /\ HandledOnce /\ WaitingOnce /\ DeadOnce /\ HeldOnce
      /\ PlacesDisjoint /\ NothingVanishes
  BY DEF Placed, AtMostOnce
<1> USE <1>0
<1>1. /\ Queued' = Queued /\ QueuedOnce'
      /\ Handled' = Handled /\ HandledOnce'
      /\ Waiting' = Waiting /\ WaitingOnce'
      /\ Dead' = Dead /\ DeadOnce'
      /\ Held' = Held /\ HeldOnce'
      /\ completed' = completed /\ dropped' = dropped
  BY QueueSame, HandledSame, WaitingSame, DeadSame, HeldSame, GoneSame DEF Drain
<1>2. \A i \in JobIds : New(i)' <=> New(i)
  BY DEF New, Drain
<1> QED
  BY <1>1, <1>2

(* A retry goes back to the channel.                                   *)
LEMMA TimerFireAcceptedMoves ==
    ASSUME TypeOK, Control, Placed, NEW t \in timers, TimerFireAccepted(t)
    PROVE  /\ t \in Job
           /\ t.id \in JobIds
           /\ t.id \in Waiting
           /\ Waiting' = Waiting \ {t.id}
           /\ WaitingOnce'
           /\ Queued' = Queued \cup {t.id}
           /\ QueuedOnce'
           /\ Handled' = Handled
           /\ HandledOnce'
           /\ Dead' = Dead
           /\ DeadOnce'
           /\ Held' = Held
           /\ HeldOnce'
           /\ completed' = completed
           /\ dropped' = dropped
           /\ \A i \in JobIds : New(i)' <=> New(i) /\ i # t.id
<1>0. /\ QueuedOnce /\ HandledOnce /\ WaitingOnce /\ DeadOnce /\ HeldOnce
      /\ PlacesDisjoint /\ NothingVanishes
  BY DEF Placed, AtMostOnce
<1> USE <1>0
<1>1. t \in Job /\ t.id \in JobIds
  BY DEF TypeOK, Job
<1>2. /\ t.id \in Waiting
      /\ Waiting' = Waiting \ {t.id} /\ WaitingOnce'
  BY TimerGone DEF TimerFireAccepted
<1>3. Queued' = Queued \cup {t.id} /\ QueuedOnce'
  BY <1>1, <1>2, QueueGrows DEF TimerFireAccepted, Accepts, PlacesDisjoint
<1>4. /\ Handled' = Handled /\ HandledOnce'
      /\ Dead' = Dead /\ DeadOnce'
      /\ Held' = Held /\ HeldOnce'
      /\ completed' = completed /\ dropped' = dropped
  BY HandledSame, DeadSame, HeldSame, GoneSame DEF TimerFireAccepted
<1>5. \A i \in JobIds : New(i)' <=> New(i) /\ i # t.id
  BY <1>1, Tracked DEF TimerFireAccepted, Accepts, Status
<1> QED
  BY <1>1, <1>2, <1>3, <1>4, <1>5

(* A retry that is refused ends its job.                               *)
LEMMA TimerFireDroppedMoves ==
    ASSUME TypeOK, Control, Placed, NEW t \in timers, TimerFireDropped(t)
    PROVE  /\ t \in Job
           /\ t.id \in JobIds
           /\ t.id \in Waiting
           /\ Waiting' = Waiting \ {t.id}
           /\ WaitingOnce'
           /\ dropped' = dropped \cup {t.id}
           /\ completed' = completed
           /\ Queued' = Queued
           /\ QueuedOnce'
           /\ Handled' = Handled
           /\ HandledOnce'
           /\ Dead' = Dead
           /\ DeadOnce'
           /\ Held' = Held
           /\ HeldOnce'
           /\ \A i \in JobIds : New(i)' <=> New(i) /\ i # t.id
<1>0. /\ QueuedOnce /\ HandledOnce /\ WaitingOnce /\ DeadOnce /\ HeldOnce
      /\ PlacesDisjoint /\ NothingVanishes
  BY DEF Placed, AtMostOnce
<1> USE <1>0
<1>1. t \in Job /\ t.id \in JobIds
  BY DEF TypeOK, Job
<1>2. /\ t.id \in Waiting
      /\ Waiting' = Waiting \ {t.id} /\ WaitingOnce'
  BY TimerGone DEF TimerFireDropped
<1>3. dropped' = dropped \cup {t.id} /\ completed' = completed
  BY DEF TimerFireDropped
<1>4. /\ Queued' = Queued /\ QueuedOnce'
      /\ Handled' = Handled /\ HandledOnce'
      /\ Dead' = Dead /\ DeadOnce'
      /\ Held' = Held /\ HeldOnce'
  BY QueueSame, HandledSame, DeadSame, HeldSame DEF TimerFireDropped, Refuses
<1>5. \A i \in JobIds : New(i)' <=> New(i) /\ i # t.id
  BY <1>1, Tracked DEF TimerFireDropped, Refuses, Status
<1> QED
  BY <1>1, <1>2, <1>3, <1>4, <1>5

(* A retry that panics moves nothing.                                  *)
LEMMA TimerFirePanicsMoves ==
    ASSUME TypeOK, Control, Placed, NEW t \in timers, TimerFirePanics(t)
    PROVE  /\ Queued' = Queued
           /\ QueuedOnce'
           /\ Handled' = Handled
           /\ HandledOnce'
           /\ Waiting' = Waiting
           /\ WaitingOnce'
           /\ Dead' = Dead
           /\ DeadOnce'
           /\ Held' = Held
           /\ HeldOnce'
           /\ completed' = completed
           /\ dropped' = dropped
           /\ \A i \in JobIds : New(i)' <=> New(i)
<1>0. /\ QueuedOnce /\ HandledOnce /\ WaitingOnce /\ DeadOnce /\ HeldOnce
      /\ PlacesDisjoint /\ NothingVanishes
  BY DEF Placed, AtMostOnce
<1> USE <1>0
<1>1. /\ Queued' = Queued /\ QueuedOnce'
      /\ Handled' = Handled /\ HandledOnce'
      /\ Waiting' = Waiting /\ WaitingOnce'
      /\ Dead' = Dead /\ DeadOnce'
      /\ Held' = Held /\ HeldOnce'
      /\ completed' = completed /\ dropped' = dropped
  BY QueueSame, HandledSame, WaitingSame, DeadSame, HeldSame, GoneSame
     DEF TimerFirePanics, SendPanics
<1>2. \A i \in JobIds : New(i)' <=> New(i)
  BY DEF New, TimerFirePanics, SendPanics
<1> QED
  BY <1>1, <1>2

(* A request takes a job out of the dead store.                        *)
LEMMA RequeueTakeMoves ==
    ASSUME TypeOK, Control, Placed, NEW r \in Requesters, NEW j \in JobIds, RequeueTake(r, j)
    PROVE  /\ j \in Dead
           /\ Dead' = Dead \ {j}
           /\ DeadOnce'
           /\ Held' = Held \cup {j}
           /\ HeldOnce'
           /\ Queued' = Queued
           /\ QueuedOnce'
           /\ Handled' = Handled
           /\ HandledOnce'
           /\ Waiting' = Waiting
           /\ WaitingOnce'
           /\ completed' = completed
           /\ dropped' = dropped
           /\ \A i \in JobIds : New(i)' <=> New(i)
<1>0. /\ QueuedOnce /\ HandledOnce /\ WaitingOnce /\ DeadOnce /\ HeldOnce
      /\ PlacesDisjoint /\ NothingVanishes
  BY DEF Placed, AtMostOnce
<1> USE <1>0
<1>1. j \in Dead
  BY DEF RequeueTake, Dead
<1>2. Dead' = Dead \ {j} /\ DeadOnce'
  BY StoreLoses DEF RequeueTake
<1>3. Held' = Held \cup {j} /\ HeldOnce'
  BY <1>1, RequestHolds DEF RequeueTake, PlacesDisjoint
<1>4. /\ Queued' = Queued /\ QueuedOnce'
      /\ Handled' = Handled /\ HandledOnce'
      /\ Waiting' = Waiting /\ WaitingOnce'
      /\ completed' = completed /\ dropped' = dropped
  BY QueueSame, HandledSame, WaitingSame, GoneSame DEF RequeueTake
<1>5. \A i \in JobIds : New(i)' <=> New(i)
  BY DEF New, RequeueTake
<1> QED
  BY <1>1, <1>2, <1>3, <1>4, <1>5

(* A request sends its job to the channel.                             *)
LEMMA RequeueAcceptedMoves ==
    ASSUME TypeOK, Control, Placed, NEW r \in Requesters, RequeueAccepted(r)
    PROVE  /\ rjob[r] \in Job
           /\ rjob[r].id \in JobIds
           /\ rjob[r].id \in Held
           /\ Held' = Held \ {rjob[r].id}
           /\ HeldOnce'
           /\ Queued' = Queued \cup {rjob[r].id}
           /\ QueuedOnce'
           /\ Handled' = Handled
           /\ HandledOnce'
           /\ Waiting' = Waiting
           /\ WaitingOnce'
           /\ Dead' = Dead
           /\ DeadOnce'
           /\ completed' = completed
           /\ dropped' = dropped
           /\ \A i \in JobIds : New(i)' <=> New(i) /\ i # rjob[r].id
<1>0. /\ QueuedOnce /\ HandledOnce /\ WaitingOnce /\ DeadOnce /\ HeldOnce
      /\ PlacesDisjoint /\ NothingVanishes
  BY DEF Placed, AtMostOnce
<1> USE <1>0
<1>1. rjob[r] \in Job /\ rjob[r].id \in JobIds
  BY DEF RequeueAccepted, TypeOK, Control, Job
<1>2. /\ rjob[r].id \in Held
      /\ Held' = Held \ {rjob[r].id} /\ HeldOnce'
  BY RequestYields DEF RequeueAccepted
<1>3. Queued' = Queued \cup {rjob[r].id} /\ QueuedOnce'
  BY <1>1, <1>2, QueueGrows DEF RequeueAccepted, Accepts, PlacesDisjoint
<1>4. /\ Handled' = Handled /\ HandledOnce'
      /\ Waiting' = Waiting /\ WaitingOnce'
      /\ Dead' = Dead /\ DeadOnce'
      /\ completed' = completed /\ dropped' = dropped
  BY HandledSame, WaitingSame, DeadSame, GoneSame DEF RequeueAccepted
<1>5. \A i \in JobIds : New(i)' <=> New(i) /\ i # rjob[r].id
  BY <1>1, Tracked DEF RequeueAccepted, Accepts, Status
<1> QED
  BY <1>1, <1>2, <1>3, <1>4, <1>5

(* A request that is refused keeps its job.                            *)
LEMMA RequeueRefusedMoves ==
    ASSUME TypeOK, Control, Placed, NEW r \in Requesters, RequeueRefused(r)
    PROVE  /\ rjob[r] \in Job
           /\ rjob[r].id \in JobIds
           /\ rjob[r].id \in Held
           /\ Held' = Held
           /\ HeldOnce'
           /\ Queued' = Queued
           /\ QueuedOnce'
           /\ Handled' = Handled
           /\ HandledOnce'
           /\ Waiting' = Waiting
           /\ WaitingOnce'
           /\ Dead' = Dead
           /\ DeadOnce'
           /\ completed' = completed
           /\ dropped' = dropped
           /\ \A i \in JobIds : New(i)' <=> New(i) /\ i # rjob[r].id
<1>0. /\ QueuedOnce /\ HandledOnce /\ WaitingOnce /\ DeadOnce /\ HeldOnce
      /\ PlacesDisjoint /\ NothingVanishes
  BY DEF Placed, AtMostOnce
<1> USE <1>0
<1>1. rjob[r] \in Job /\ rjob[r].id \in JobIds /\ rjob[r].id \in Held
  BY DEF RequeueRefused, TypeOK, Control, Job, Held
<1>2. Held' = Held /\ HeldOnce'
  BY DEF RequeueRefused, TypeOK, Held, HeldOnce
<1>3. /\ Queued' = Queued /\ QueuedOnce'
      /\ Handled' = Handled /\ HandledOnce'
      /\ Waiting' = Waiting /\ WaitingOnce'
      /\ Dead' = Dead /\ DeadOnce'
      /\ completed' = completed /\ dropped' = dropped
  BY QueueSame, HandledSame, WaitingSame, DeadSame, GoneSame
     DEF RequeueRefused, Refuses
<1>4. \A i \in JobIds : New(i)' <=> New(i) /\ i # rjob[r].id
  BY <1>1, Tracked DEF RequeueRefused, Refuses, Status
<1> QED
  BY <1>1, <1>2, <1>3, <1>4

(* A request that confirms has no job any more.                        *)
LEMMA RequeueConfirmMoves ==
    ASSUME TypeOK, Control, Placed, NEW r \in Requesters, RequeueConfirm(r)
    PROVE  /\ rjob[r] \in Job
           /\ rjob[r].id \in JobIds
           /\ Held' = Held
           /\ HeldOnce'
           /\ Queued' = Queued
           /\ QueuedOnce'
           /\ Handled' = Handled
           /\ HandledOnce'
           /\ Waiting' = Waiting
           /\ WaitingOnce'
           /\ Dead' = Dead
           /\ DeadOnce'
           /\ completed' = completed
           /\ dropped' = dropped
           /\ ~New(rjob[r].id)
           /\ \A i \in JobIds : New(i)' <=> New(i)
<1>0. /\ QueuedOnce /\ HandledOnce /\ WaitingOnce /\ DeadOnce /\ HeldOnce
      /\ PlacesDisjoint /\ NothingVanishes
  BY DEF Placed, AtMostOnce
<1> USE <1>0
<1>1. rjob[r] \in Job /\ rjob[r].id \in JobIds
  BY DEF RequeueConfirm, TypeOK, Control, Job
<1>2. Held' = Held /\ HeldOnce'
  BY DEF RequeueConfirm, TypeOK, Held, HeldOnce
<1>3. /\ Queued' = Queued /\ QueuedOnce'
      /\ Handled' = Handled /\ HandledOnce'
      /\ Waiting' = Waiting /\ WaitingOnce'
      /\ Dead' = Dead /\ DeadOnce'
      /\ completed' = completed /\ dropped' = dropped
  BY QueueSame, HandledSame, WaitingSame, DeadSame, GoneSame DEF RequeueConfirm
<1>4. ~New(rjob[r].id)
  BY DEF RequeueConfirm, Control
<1>5. \A i \in JobIds : New(i)' <=> New(i)
  BY <1>1, <1>4, Tracked DEF RequeueConfirm, Status
<1> QED
  BY <1>1, <1>2, <1>3, <1>4, <1>5

(* A request puts its job back in the dead store.                      *)
LEMMA RequeuePutBackMoves ==
    ASSUME TypeOK, Control, Placed, NEW r \in Requesters, RequeuePutBack(r)
    PROVE  /\ rjob[r] \in Job
           /\ rjob[r].id \in JobIds
           /\ rjob[r].id \in Held
           /\ Held' = Held \ {rjob[r].id}
           /\ HeldOnce'
           /\ Dead' = Dead \cup {rjob[r].id}
           /\ DeadOnce'
           /\ Queued' = Queued
           /\ QueuedOnce'
           /\ Handled' = Handled
           /\ HandledOnce'
           /\ Waiting' = Waiting
           /\ WaitingOnce'
           /\ completed' = completed
           /\ dropped' = dropped
           /\ \A i \in JobIds : New(i)' <=> New(i)
<1>0. /\ QueuedOnce /\ HandledOnce /\ WaitingOnce /\ DeadOnce /\ HeldOnce
      /\ PlacesDisjoint /\ NothingVanishes
  BY DEF Placed, AtMostOnce
<1> USE <1>0
<1>1. rjob[r] \in Job /\ rjob[r].id \in JobIds
  BY DEF RequeuePutBack, TypeOK, Control, Job
<1>2. /\ rjob[r].id \in Held
      /\ Held' = Held \ {rjob[r].id} /\ HeldOnce'
  BY RequestYields DEF RequeuePutBack
<1>3. Dead' = Dead \cup {rjob[r].id} /\ DeadOnce'
  BY <1>1, StoreGets DEF RequeuePutBack
<1>4. /\ Queued' = Queued /\ QueuedOnce'
      /\ Handled' = Handled /\ HandledOnce'
      /\ Waiting' = Waiting /\ WaitingOnce'
      /\ completed' = completed /\ dropped' = dropped
  BY QueueSame, HandledSame, WaitingSame, GoneSame DEF RequeuePutBack
<1>5. \A i \in JobIds : New(i)' <=> New(i)
  BY DEF New, RequeuePutBack
<1> QED
  BY <1>1, <1>2, <1>3, <1>4, <1>5

(* The shutdown moves nothing.                                         *)
LEMMA ShutdownMoves ==
    ASSUME TypeOK, Control, Placed, Shutdown
    PROVE  /\ UNCHANGED <<jobs, workerVars, timers, deadVars, requestVars, latest, historyVars>>
           /\ Queued' = Queued
           /\ QueuedOnce'
           /\ Handled' = Handled
           /\ HandledOnce'
           /\ Waiting' = Waiting
           /\ WaitingOnce'
           /\ Dead' = Dead
           /\ DeadOnce'
           /\ Held' = Held
           /\ HeldOnce'
           /\ completed' = completed
           /\ dropped' = dropped
           /\ \A i \in JobIds : New(i)' <=> New(i)
<1>0. /\ QueuedOnce /\ HandledOnce /\ WaitingOnce /\ DeadOnce /\ HeldOnce
      /\ PlacesDisjoint /\ NothingVanishes
  BY DEF Placed, AtMostOnce
<1> USE <1>0
<1>1. UNCHANGED <<jobs, workerVars, timers, deadVars, requestVars, latest,
                  historyVars>>
  BY
     DEF Shutdown, Cancel, HttpShutdown, RunFails, CloseJobs, WorkersJoined,
         ProcessExit, MoveTo
<1>2. /\ Queued' = Queued /\ QueuedOnce'
      /\ Handled' = Handled /\ HandledOnce'
      /\ Waiting' = Waiting /\ WaitingOnce'
      /\ Dead' = Dead /\ DeadOnce'
      /\ Held' = Held /\ HeldOnce'
      /\ completed' = completed /\ dropped' = dropped
  BY <1>1, QueueSame, HandledSame, WaitingSame, DeadSame, HeldSame, GoneSame
<1>3. \A i \in JobIds : New(i)' <=> New(i)
  BY <1>1 DEF New
<1> QED
  BY <1>1, <1>2, <1>3

(* Every operation moves at most one job, from one place to one other. *)
LEMMA PlacedStep == TypeOK /\ Control /\ Placed /\ [Next]_vars => Placed'
<1> SUFFICES ASSUME TypeOK, Control, Placed, [Next]_vars PROVE Placed'
  OBVIOUS
<1>1. ASSUME NEW j \in JobIds, SubmitAccepted(j) PROVE Placed'
  BY <1>1, SubmitAcceptedMoves
     DEF Placed, AtMostOnce, PlacesDisjoint, NothingVanishes, Anywhere, Gone
<1>2. ASSUME NEW j \in JobIds, SubmitDropped(j) PROVE Placed'
  BY <1>2, SubmitDroppedMoves
     DEF Placed, AtMostOnce, PlacesDisjoint, NothingVanishes, Anywhere, Gone
<1>3. ASSUME NEW j \in JobIds, SubmitPanics(j) PROVE Placed'
  BY <1>3, SubmitPanicsMoves
     DEF Placed, AtMostOnce, PlacesDisjoint, NothingVanishes, Anywhere, Gone
<1>4. ASSUME NEW w \in Workers, Take(w) PROVE Placed'
  BY <1>4, TakeMoves
     DEF Placed, AtMostOnce, PlacesDisjoint, NothingVanishes, Anywhere, Gone
<1>5. ASSUME NEW w \in Workers, HandlerSucceeds(w) PROVE Placed'
  BY <1>5, HandlerSucceedsMoves
     DEF Placed, AtMostOnce, PlacesDisjoint, NothingVanishes, Anywhere, Gone
<1>6. ASSUME NEW w \in Workers, HandlerBuries(w) PROVE Placed'
  BY <1>6, HandlerBuriesMoves
     DEF Placed, AtMostOnce, PlacesDisjoint, NothingVanishes, Anywhere, Gone
<1>7. ASSUME NEW w \in Workers, HandlerRetries(w) PROVE Placed'
  BY <1>7, HandlerRetriesMoves
     DEF Placed, AtMostOnce, PlacesDisjoint, NothingVanishes, Anywhere, Gone
<1>8. ASSUME NEW w \in Workers, LogDead(w) PROVE Placed'
  BY <1>8, LogDeadMoves
     DEF Placed, AtMostOnce, PlacesDisjoint, NothingVanishes, Anywhere, Gone
<1>9. ASSUME NEW w \in Workers, WorkerExits(w) PROVE Placed'
  BY <1>9, WorkerExitsMoves
     DEF Placed, AtMostOnce, PlacesDisjoint, NothingVanishes, Anywhere, Gone
<1>10. ASSUME Drain PROVE Placed'
  BY <1>10, DrainMoves
     DEF Placed, AtMostOnce, PlacesDisjoint, NothingVanishes, Anywhere, Gone
<1>11. ASSUME NEW t \in timers, TimerFireAccepted(t) PROVE Placed'
  BY <1>11, TimerFireAcceptedMoves
     DEF Placed, AtMostOnce, PlacesDisjoint, NothingVanishes, Anywhere, Gone
<1>12. ASSUME NEW t \in timers, TimerFireDropped(t) PROVE Placed'
  BY <1>12, TimerFireDroppedMoves
     DEF Placed, AtMostOnce, PlacesDisjoint, NothingVanishes, Anywhere, Gone
<1>13. ASSUME NEW t \in timers, TimerFirePanics(t) PROVE Placed'
  BY <1>13, TimerFirePanicsMoves
     DEF Placed, AtMostOnce, PlacesDisjoint, NothingVanishes, Anywhere, Gone
<1>14. ASSUME NEW r \in Requesters, NEW j \in JobIds, RequeueTake(r, j) PROVE Placed'
  BY <1>14, RequeueTakeMoves
     DEF Placed, AtMostOnce, PlacesDisjoint, NothingVanishes, Anywhere, Gone
<1>15. ASSUME NEW r \in Requesters, RequeueAccepted(r) PROVE Placed'
  BY <1>15, RequeueAcceptedMoves
     DEF Placed, AtMostOnce, PlacesDisjoint, NothingVanishes, Anywhere, Gone
<1>16. ASSUME NEW r \in Requesters, RequeueRefused(r) PROVE Placed'
  BY <1>16, RequeueRefusedMoves
     DEF Placed, AtMostOnce, PlacesDisjoint, NothingVanishes, Anywhere, Gone
<1>17. ASSUME NEW r \in Requesters, RequeueConfirm(r) PROVE Placed'
  BY <1>17, RequeueConfirmMoves
     DEF Placed, AtMostOnce, PlacesDisjoint, NothingVanishes, Anywhere, Gone
<1>18. ASSUME NEW r \in Requesters, RequeuePutBack(r) PROVE Placed'
  BY <1>18, RequeuePutBackMoves
     DEF Placed, AtMostOnce, PlacesDisjoint, NothingVanishes, Anywhere, Gone
<1>19. ASSUME Shutdown PROVE Placed'
  BY <1>19, ShutdownMoves
     DEF Placed, AtMostOnce, PlacesDisjoint, NothingVanishes, Anywhere, Gone
<1>20. ASSUME UNCHANGED vars PROVE Placed'
  <2>0. /\ QueuedOnce /\ HandledOnce /\ WaitingOnce /\ DeadOnce /\ HeldOnce
        /\ PlacesDisjoint /\ NothingVanishes
    BY DEF Placed, AtMostOnce
  <2>1. /\ Queued' = Queued /\ QueuedOnce'
        /\ Handled' = Handled /\ HandledOnce'
        /\ Waiting' = Waiting /\ WaitingOnce'
        /\ Dead' = Dead /\ DeadOnce'
        /\ Held' = Held /\ HeldOnce'
        /\ completed' = completed /\ dropped' = dropped
    BY <1>20, <2>0, QueueSame, HandledSame, WaitingSame, DeadSame, HeldSame
       DEF vars, workerVars, deadVars, requestVars
  <2>2. \A i \in JobIds : New(i)' <=> New(i)
    BY <1>20 DEF New, vars
  <2> QED
    BY <2>0, <2>1, <2>2
       DEF Placed, AtMostOnce, PlacesDisjoint, NothingVanishes, Anywhere, Gone
<1> QED
  BY <1>1, <1>2, <1>3, <1>4, <1>5, <1>6, <1>7, <1>8, <1>9, <1>10, <1>11, <1>12,
     <1>13, <1>14, <1>15, <1>16, <1>17, <1>18, <1>19, <1>20
     DEF Next, Submit, WorkerStep, TimerFires, RequeueStep

(* For any number of jobs, workers and requests: no job is copied and none
   vanishes, whatever Enqueue, process, RequeueDeadLetter and Stop do. *)
THEOREM JobsAccounted == Spec => [](AtMostOnce /\ NothingVanishes)
<1>1. Init => Placed
  BY InitPlaced
<1>2. TypeOK /\ Control /\ Placed /\ [Next]_vars => Placed'
  BY PlacedStep
<1>3. Placed => AtMostOnce /\ NothingVanishes
  BY DEF Placed
<1> QED
  BY <1>1, <1>2, <1>3, TypeCorrect, PTL DEF Spec

(* For any number of jobs, workers and requests: a job that was accepted is
   somewhere, or its end is on record (process, RequeueDeadLetter). *)
THEOREM NoJobVanishes == Spec => []NothingVanishes
BY JobsAccounted, PTL

-----------------------------------------------------------------------------
(* Theorem: attempts.  However retries and requeues follow each other, the      *)
(* handler is never called with an attempt above the limit.                *)

(* No attempt has been made at first. *)
LEMMA InitAttempts == Init => AttemptsBounded
BY PoolAssumption, EmptySeq DEF Init, AttemptsBounded

(* Every operation respects the limit on attempts. *)
LEMMA AttemptsStep == TypeOK /\ Control /\ AttemptsBounded /\ [Next]_vars => AttemptsBounded'
<1> SUFFICES ASSUME TypeOK, Control, AttemptsBounded, [Next]_vars PROVE AttemptsBounded'
  OBVIOUS
<1>0. MaxRetries \in Nat /\ TryLimit \in Nat /\ TryLimit >= 1 /\ TryLimit >= MaxRetries
      /\ \A n \in 1 .. TryLimit : n >= MaxRetries => n = TryLimit
      /\ DOMAIN jobs = 1 .. Len(jobs) /\ Len(jobs) \in Nat
  BY PoolAssumption, LenProperties DEF TryLimit, TypeOK
<1> USE <1>0 DEF AttemptsBounded, workerVars, deadVars, requestVars, historyVars
<1>1. ASSUME NEW j \in JobIds, SubmitAccepted(j) PROVE AttemptsBounded'
  <2>1. FreshJob(j) \in Job /\ FreshJob(j).attempt < TryLimit
    BY <1>1 DEF SubmitAccepted, TypeOK, Control, Job, FreshJob
  <2>2. \A i \in DOMAIN jobs' : jobs'[i].attempt < TryLimit
    BY <1>1, <2>1, LenProperties DEF SubmitAccepted, Accepts, TypeOK
  <2> QED
    BY <1>1, <2>2 DEF SubmitAccepted, TypeOK
<1>2. ASSUME NEW j \in JobIds, SubmitDropped(j) PROVE AttemptsBounded'
  BY <1>2 DEF SubmitDropped, TypeOK, Control, Refuses
<1>3. ASSUME NEW j \in JobIds, SubmitPanics(j) PROVE AttemptsBounded'
  BY <1>3 DEF SubmitPanics, TypeOK, Control, SendPanics
<1>4. ASSUME NEW w \in Workers, Take(w) PROVE AttemptsBounded'
  <2>1. /\ Head(jobs) = jobs[1] /\ 1 \in DOMAIN jobs /\ jobs[1] \in Job
        /\ jobs' \in Seq(Job) /\ Len(jobs') = Len(jobs) - 1
        /\ \A i \in 1 .. Len(jobs') : jobs'[i] = jobs[i + 1]
    BY <1>4, HeadTailProperties, ElementOfSeq, EmptySeq DEF Take, TypeOK
  <2>2. \A i \in DOMAIN jobs' : jobs'[i].attempt < TryLimit
    BY <2>1, LenProperties
  <2>3. Head(jobs).attempt + 1 \in 1 .. TryLimit
    <3>1. jobs[1].attempt \in Nat
      BY <2>1 DEF Job
    <3>2. jobs[1].attempt < TryLimit
      BY <2>1
    <3> QED
      BY <2>1, <3>1, <3>2
  <2>4. \A v \in Workers : wphase'[v] = "handling" => wjob'[v].attempt \in 1 .. TryLimit
    BY <1>4, <2>3 DEF Take, TypeOK
  <2> QED
    BY <1>4, <2>2, <2>4 DEF Take
<1>5. ASSUME NEW w \in Workers, HandlerSucceeds(w) PROVE AttemptsBounded'
  BY <1>5 DEF HandlerSucceeds, TypeOK, Control, TurnOver
<1>6. ASSUME NEW w \in Workers, HandlerBuries(w) PROVE AttemptsBounded'
  BY <1>6 DEF HandlerBuries, TypeOK, Control, TurnOver, Stored
<1>7. ASSUME NEW w \in Workers, HandlerRetries(w) PROVE AttemptsBounded'
  BY <1>7 DEF HandlerRetries, TypeOK, Control, TurnOver
<1>8. ASSUME NEW w \in Workers, LogDead(w) PROVE AttemptsBounded'
  BY <1>8 DEF LogDead, TypeOK, Control
<1>9. ASSUME NEW w \in Workers, WorkerExits(w) PROVE AttemptsBounded'
  BY <1>9 DEF WorkerExits, TypeOK, Control
<1>10. ASSUME Drain PROVE AttemptsBounded'
  BY <1>10 DEF Drain, TypeOK, Control
<1>11. ASSUME NEW t \in timers, TimerFireAccepted(t) PROVE AttemptsBounded'
  <2>1. t \in Job /\ t.attempt < TryLimit
    BY <1>11 DEF TimerFireAccepted, TypeOK, Control, Job, FreshJob
  <2>2. \A i \in DOMAIN jobs' : jobs'[i].attempt < TryLimit
    BY <1>11, <2>1, LenProperties DEF TimerFireAccepted, Accepts, TypeOK
  <2> QED
    BY <1>11, <2>2 DEF TimerFireAccepted, TypeOK
<1>12. ASSUME NEW t \in timers, TimerFireDropped(t) PROVE AttemptsBounded'
  BY <1>12 DEF TimerFireDropped, TypeOK, Control, Refuses
<1>13. ASSUME NEW t \in timers, TimerFirePanics(t) PROVE AttemptsBounded'
  BY <1>13 DEF TimerFirePanics, TypeOK, Control, SendPanics
<1>14. ASSUME NEW r \in Requesters, NEW j \in JobIds, RequeueTake(r, j) PROVE AttemptsBounded'
  BY <1>14 DEF RequeueTake, TypeOK, Control, FreshJob
<1>15. ASSUME NEW r \in Requesters, RequeueAccepted(r) PROVE AttemptsBounded'
  <2>1. rjob[r] \in Job /\ rjob[r].attempt < TryLimit
    BY <1>15 DEF RequeueAccepted, TypeOK, Control, Job, FreshJob
  <2>2. \A i \in DOMAIN jobs' : jobs'[i].attempt < TryLimit
    BY <1>15, <2>1, LenProperties DEF RequeueAccepted, Accepts, TypeOK
  <2> QED
    BY <1>15, <2>2 DEF RequeueAccepted, TypeOK
<1>16. ASSUME NEW r \in Requesters, RequeueRefused(r) PROVE AttemptsBounded'
  BY <1>16 DEF RequeueRefused, TypeOK, Control, Refuses
<1>17. ASSUME NEW r \in Requesters, RequeueConfirm(r) PROVE AttemptsBounded'
  BY <1>17 DEF RequeueConfirm, TypeOK, Control
<1>18. ASSUME NEW r \in Requesters, RequeuePutBack(r) PROVE AttemptsBounded'
  BY <1>18 DEF RequeuePutBack, TypeOK, Control, Stored
<1>19. ASSUME Shutdown PROVE AttemptsBounded'
  BY <1>19
     DEF TypeOK, Control, Shutdown, Cancel, HttpShutdown, RunFails, CloseJobs,
         WorkersJoined, ProcessExit, MoveTo
<1>20. CASE UNCHANGED vars
  BY <1>20 DEF vars
<1> QED
  BY <1>1, <1>2, <1>3, <1>4, <1>5, <1>6, <1>7, <1>8, <1>9, <1>10, <1>11, <1>12,
     <1>13, <1>14, <1>15, <1>16, <1>17, <1>18, <1>19, <1>20
     DEF Next, Submit, WorkerStep, TimerFires, RequeueStep

(* The handler is never called with an attempt above maxRetries (or 1), in
   any mixture of retries and requeues. *)
THEOREM AttemptsLimited == Spec => []AttemptsBounded
BY InitAttempts, AttemptsStep, TypeCorrect, PTL DEF Spec

-----------------------------------------------------------------------------
(* Theorem: the dead-letter list.  What operators are shown is always  *)
(* in the store, once: three functions keep the two in step, and a job is  *)
(* buried or put back only when the store does not hold it.                *)

(* Prepending an id that the store did not hold keeps the list sound. *)
LEMMA ListGrows ==
    ASSUME TypeOK, DeadListSound, NEW j \in JobIds, j \notin Dead,
           deadRecent' = Prepended(deadRecent, j), Dead' = Dead \cup {j}
    PROVE  DeadListSound'
<1> DEFINE n == Len(deadRecent')
<1>1. /\ DOMAIN deadRecent = 1 .. Len(deadRecent) /\ Len(deadRecent) \in Nat
      /\ n \in Nat /\ n <= DeadRecentCap /\ n <= Len(deadRecent) + 1
      /\ DOMAIN deadRecent' = 1 .. n
      /\ \A k \in 1 .. n : deadRecent'[k] = IF k = 1 THEN j ELSE deadRecent[k - 1]
  <2>1. deadRecent \in Seq(JobIds)
    BY DEF TypeOK
  <2> DEFINE p == Prepended(deadRecent, j)
  <2>2. /\ p \in Seq(JobIds) /\ Len(p) <= DeadRecentCap /\ Len(p) <= Len(deadRecent) + 1
        /\ \A k \in 1 .. Len(p) : p[k] = IF k = 1 THEN j ELSE deadRecent[k - 1]
    BY <2>1, PrependedType, Zenon
  <2>3. deadRecent' = p
    OBVIOUS
  <2> HIDE DEF p
  <2> QED
    BY <2>1, <2>2, <2>3, LenProperties
<1>2. \A k \in 1 .. n : k # 1 => k - 1 \in DOMAIN deadRecent
  BY <1>1
<1>3. \A k \in DOMAIN deadRecent : deadRecent[k] \in Dead /\ deadRecent[k] # j
  BY DEF DeadListSound
<1>4. \A k \in DOMAIN deadRecent' : deadRecent'[k] \in Dead'
  BY <1>1, <1>2, <1>3
<1>5. \A i, k \in DOMAIN deadRecent' : deadRecent'[i] = deadRecent'[k] => i = k
  <2>1. ASSUME NEW i \in 1 .. n, NEW k \in 1 .. n, deadRecent'[i] = deadRecent'[k],
               i # 1, k # 1
        PROVE  i = k
    <3>1. /\ i - 1 \in DOMAIN deadRecent /\ k - 1 \in DOMAIN deadRecent
          /\ deadRecent[i - 1] = deadRecent[k - 1]
      BY <1>1, <1>2, <2>1
    <3>2. i - 1 = k - 1
      BY <3>1 DEF DeadListSound
    <3> QED
      BY <1>1, <3>2
  <2>2. ASSUME NEW k \in 1 .. n, k # 1 PROVE deadRecent'[k] # deadRecent'[1]
    BY <1>1, <1>2, <1>3, <2>2
  <2> QED
    BY <1>1, <2>1, <2>2
<1> QED
  BY <1>1, <1>4, <1>5 DEF DeadListSound

(* track, RequeueDeadLetter and its put-back keep the list sound. *)
LEMMA DeadListStep ==
    TypeOK /\ Control /\ Placed /\ DeadListSound /\ [Next]_vars => DeadListSound'
<1> SUFFICES ASSUME TypeOK, Control, Placed, DeadListSound, [Next]_vars PROVE DeadListSound'
  OBVIOUS
<1>0. HandledOnce /\ HeldOnce /\ DeadOnce /\ PlacesDisjoint
  BY DEF Placed, AtMostOnce
<1>1. ASSUME NEW w \in Workers, HandlerBuries(w) PROVE DeadListSound'
  <2>1. wjob[w] \in Job /\ wjob[w].id \in JobIds
    BY <1>1 DEF HandlerBuries, TurnOver, TypeOK, Control, Job
  <2>2. wjob[w].id \in Handled
    BY <1>1 DEF HandlerBuries, TurnOver, Handled
  <2>3. wjob[w].id \notin Dead
    BY <1>0, <2>2 DEF PlacesDisjoint
  <2>4. Dead' = Dead \cup {wjob[w].id}
    BY <1>1, <2>1, StoreGets DEF HandlerBuries
  <2> QED
    BY <1>1, <2>1, <2>3, <2>4, ListGrows DEF HandlerBuries
<1>2. ASSUME NEW r \in Requesters, RequeuePutBack(r) PROVE DeadListSound'
  <2>1. rjob[r] \in Job /\ rjob[r].id \in JobIds
    BY <1>2 DEF RequeuePutBack, TypeOK, Control, Job
  <2>2. rjob[r].id \in Held
    BY <1>2 DEF RequeuePutBack, Held
  <2>3. rjob[r].id \notin Dead
    BY <1>0, <2>2 DEF PlacesDisjoint
  <2>4. Dead' = Dead \cup {rjob[r].id}
    BY <1>2, <2>1, StoreGets DEF RequeuePutBack
  <2> QED
    BY <1>2, <2>1, <2>3, <2>4, ListGrows DEF RequeuePutBack
<1>3. ASSUME NEW r \in Requesters, NEW j \in JobIds, RequeueTake(r, j) PROVE DeadListSound'
  <2>1. Dead' = Dead \ {j}
    BY <1>3, StoreLoses DEF RequeueTake
  <2>2. Distinct(deadRecent) /\ Len(deadRecent) <= DeadRecentCap
        /\ \A i \in DOMAIN deadRecent : deadRecent[i] \in Dead
    BY DEF DeadListSound, Distinct
  <2>3. /\ deadRecent' \in Seq(JobIds)
        /\ Len(deadRecent') <= Len(deadRecent)
        /\ Distinct(deadRecent')
        /\ \A k \in DOMAIN deadRecent' :
              /\ deadRecent'[k] # j
              /\ \E i \in DOMAIN deadRecent : deadRecent'[k] = deadRecent[i]
    BY <1>3, <2>2, FirstRemovedType DEF RequeueTake, TypeOK
  <2>4. Len(deadRecent') <= DeadRecentCap
    BY <2>2, <2>3, LenProperties, PoolAssumption DEF TypeOK
  <2> QED
    BY <2>1, <2>2, <2>3, <2>4 DEF DeadListSound, Distinct
<1>4. ASSUME UNCHANGED deadVars PROVE DeadListSound'
  BY <1>4, DeadSame DEF DeadListSound, deadVars
<1>5. \/ UNCHANGED deadVars
      \/ \E w \in Workers : HandlerBuries(w)
      \/ \E r \in Requesters : RequeuePutBack(r) \/ \E j \in JobIds : RequeueTake(r, j)
  BY DEF Next, vars, deadVars, Submit, SubmitAccepted, SubmitDropped, SubmitPanics,
         SendPanics, WorkerStep, Take, HandlerSucceeds, HandlerRetries, LogDead,
         WorkerExits, Drain, TimerFires, TimerFireAccepted, TimerFireDropped,
         TimerFirePanics, RequeueStep, RequeueAccepted, RequeueRefused, RequeueConfirm,
         Shutdown, Cancel, HttpShutdown, RunFails, CloseJobs, WorkersJoined,
         ProcessExit, MoveTo
<1> QED
  BY <1>1, <1>2, <1>3, <1>4, <1>5

(* What DeadLetters and Snapshot show is always in the dead store, and once. *)
THEOREM DeadListFaithful == Spec => []DeadListSound
<1>1. Init => DeadListSound
  BY PoolAssumption, EmptySeq DEF Init, DeadListSound
<1>2. Init => Placed
  BY InitPlaced
<1>3. TypeOK /\ Control /\ Placed /\ [Next]_vars => Placed'
  BY PlacedStep
<1>4. TypeOK /\ Control /\ Placed /\ DeadListSound /\ [Next]_vars => DeadListSound'
  BY DeadListStep
<1> QED
  BY <1>1, <1>2, <1>3, <1>4, TypeCorrect, PTL DEF Spec

-----------------------------------------------------------------------------
(* Theorem: the history.  What the newest entry of a job says is true of   *)
(* the job's place.                                                        *)

(* What HistoryTruthful says of one job. *)
Truthful(j) ==
    /\ latest[j] = "queued" => j \in Queued
    /\ latest[j] = "processing" => j \in Handled
    /\ latest[j] = "retrying" => j \in Waiting
    /\ latest[j] = "dead-letter" => j \in Dead \cup Held
    /\ latest[j] = "done" => j \in completed
    /\ latest[j] = "dropped" => j \in dropped \cup Held \cup Dead

(* A job that stays where it is, without a new entry. *)
Stays(j) ==
    /\ latest'[j] = latest[j]
    /\ j \in Queued' <=> j \in Queued
    /\ j \in Handled' <=> j \in Handled
    /\ j \in Waiting' <=> j \in Waiting
    /\ j \in Dead' <=> j \in Dead
    /\ j \in Held' <=> j \in Held
    /\ j \in completed' <=> j \in completed
    /\ j \in dropped' <=> j \in dropped

(* A step that concerns one job has to be looked at for that job only. *)
LEMMA OneJob ==
    ASSUME HistoryTruthful, NEW j \in JobIds, Truthful(j)',
           \A i \in JobIds \ {j} : Stays(i)
    PROVE  HistoryTruthful'
BY DEF HistoryTruthful, Truthful, Stays

(* Every entry is true when it is made and stays so until the next one. *)
LEMMA HistoryStep ==
    TypeOK /\ Control /\ Placed /\ HistoryTruthful /\ [Next]_vars => HistoryTruthful'
<1> SUFFICES ASSUME TypeOK, Control, Placed, HistoryTruthful, [Next]_vars
             PROVE  HistoryTruthful'
  OBVIOUS
<1>0. PlacesDisjoint
  BY DEF Placed, AtMostOnce
<1>1. ASSUME NEW j \in JobIds, SubmitAccepted(j) PROVE HistoryTruthful'
  <2>1. Truthful(j)'
    <3>1. latest'[j] = "queued"
      BY <1>1 DEF SubmitAccepted, Accepts, FreshJob, Track, TypeOK
    <3>2. j \in Queued'
      BY <1>1, SubmitAcceptedMoves
    <3> QED
      BY <3>1, <3>2 DEF Truthful
  <2>2. \A i \in JobIds \ {j} : Stays(i)
    BY <1>1, SubmitAcceptedMoves DEF SubmitAccepted, Accepts, FreshJob, Track, TypeOK, Stays
  <2> QED
    BY <2>1, <2>2, OneJob
<1>2. ASSUME NEW j \in JobIds, SubmitDropped(j) PROVE HistoryTruthful'
  <2>1. j \in JobIds /\ Truthful(j)'
    BY <1>2, <1>0, SubmitDroppedMoves
       DEF SubmitDropped, Refuses, FreshJob, Track, TypeOK, Truthful, PlacesDisjoint,
           HistoryTruthful
  <2>2. \A i \in JobIds \ {j} : Stays(i)
    BY <1>2, SubmitDroppedMoves DEF SubmitDropped, Refuses, FreshJob, Track, TypeOK, Stays
  <2> QED
    BY <2>1, <2>2, OneJob
<1>3. ASSUME NEW j \in JobIds, SubmitPanics(j) PROVE HistoryTruthful'
  BY <1>3, SubmitPanicsMoves DEF SubmitPanics, SendPanics, HistoryTruthful
<1>4. ASSUME NEW w \in Workers, Take(w) PROVE HistoryTruthful'
  <2>0. PICK j \in JobIds : j = Head(jobs).id
    BY <1>4, TakeMoves
  <2>1. Truthful(j)'
    BY <1>4, <1>0, <2>0, TakeMoves
       DEF Take, Track, TypeOK, Truthful, PlacesDisjoint, HistoryTruthful
  <2>2. \A i \in JobIds \ {j} : Stays(i)
    BY <1>4, <2>0, TakeMoves DEF Take, Track, TypeOK, Stays
  <2> QED
    BY <2>1, <2>2, OneJob
<1>5. ASSUME NEW w \in Workers, HandlerSucceeds(w) PROVE HistoryTruthful'
  <2>0. PICK j \in JobIds : j = wjob[w].id
    BY <1>5, HandlerSucceedsMoves
  <2>1. Truthful(j)'
    BY <1>5, <1>0, <2>0, HandlerSucceedsMoves
       DEF HandlerSucceeds, Track, TypeOK, Truthful, PlacesDisjoint, HistoryTruthful
  <2>2. \A i \in JobIds \ {j} : Stays(i)
    BY <1>5, <2>0, HandlerSucceedsMoves DEF HandlerSucceeds, Track, TypeOK, Stays
  <2> QED
    BY <2>1, <2>2, OneJob
<1>6. ASSUME NEW w \in Workers, HandlerBuries(w) PROVE HistoryTruthful'
  <2>0. PICK j \in JobIds : j = wjob[w].id
    BY <1>6, HandlerBuriesMoves
  <2>1. Truthful(j)'
    BY <1>6, <1>0, <2>0, HandlerBuriesMoves
       DEF HandlerBuries, Track, TypeOK, Truthful, PlacesDisjoint, HistoryTruthful
  <2>2. \A i \in JobIds \ {j} : Stays(i)
    BY <1>6, <2>0, HandlerBuriesMoves DEF HandlerBuries, Track, TypeOK, Stays
  <2> QED
    BY <2>1, <2>2, OneJob
<1>7. ASSUME NEW w \in Workers, HandlerRetries(w) PROVE HistoryTruthful'
  <2>0. PICK j \in JobIds : j = wjob[w].id
    BY <1>7, HandlerRetriesMoves
  <2>1. Truthful(j)'
    BY <1>7, <1>0, <2>0, HandlerRetriesMoves
       DEF HandlerRetries, Track, TypeOK, Truthful, PlacesDisjoint, HistoryTruthful
  <2>2. \A i \in JobIds \ {j} : Stays(i)
    BY <1>7, <2>0, HandlerRetriesMoves DEF HandlerRetries, Track, TypeOK, Stays
  <2> QED
    BY <2>1, <2>2, OneJob
<1>8. ASSUME NEW w \in Workers, LogDead(w) PROVE HistoryTruthful'
  BY <1>8, LogDeadMoves DEF LogDead, HistoryTruthful
<1>9. ASSUME NEW w \in Workers, WorkerExits(w) PROVE HistoryTruthful'
  BY <1>9, WorkerExitsMoves DEF WorkerExits, HistoryTruthful
<1>10. ASSUME Drain PROVE HistoryTruthful'
  BY <1>10, DrainMoves DEF Drain, HistoryTruthful
<1>11. ASSUME NEW t \in timers, TimerFireAccepted(t) PROVE HistoryTruthful'
  <2>0. PICK j \in JobIds : j = t.id
    BY <1>11, TimerFireAcceptedMoves
  <2>1. Truthful(j)'
    BY <1>11, <1>0, <2>0, TimerFireAcceptedMoves
       DEF TimerFireAccepted, Accepts, Track, TypeOK, Truthful, PlacesDisjoint, HistoryTruthful
  <2>2. \A i \in JobIds \ {j} : Stays(i)
    BY <1>11, <2>0, TimerFireAcceptedMoves DEF TimerFireAccepted, Accepts, Track, TypeOK, Stays
  <2> QED
    BY <2>1, <2>2, OneJob
<1>12. ASSUME NEW t \in timers, TimerFireDropped(t) PROVE HistoryTruthful'
  <2>0. PICK j \in JobIds : j = t.id
    BY <1>12, TimerFireDroppedMoves
  <2>1. Truthful(j)'
    BY <1>12, <1>0, <2>0, TimerFireDroppedMoves
       DEF TimerFireDropped, Refuses, Track, TypeOK, Truthful, PlacesDisjoint, HistoryTruthful
  <2>2. \A i \in JobIds \ {j} : Stays(i)
    BY <1>12, <2>0, TimerFireDroppedMoves DEF TimerFireDropped, Refuses, Track, TypeOK, Stays
  <2> QED
    BY <2>1, <2>2, OneJob
<1>13. ASSUME NEW t \in timers, TimerFirePanics(t) PROVE HistoryTruthful'
  BY <1>13, TimerFirePanicsMoves DEF TimerFirePanics, SendPanics, HistoryTruthful
<1>14. ASSUME NEW r \in Requesters, NEW j \in JobIds, RequeueTake(r, j) PROVE HistoryTruthful'
  <2>0. Truthful(j)
    BY DEF HistoryTruthful, Truthful
  <2>1. Truthful(j)'
    <3>1. latest' = latest
      BY <1>14 DEF RequeueTake
    <3> QED
      BY <1>14, <2>0, <3>1, RequeueTakeMoves DEF Truthful
  <2>2. \A i \in JobIds \ {j} : Stays(i)
    BY <1>14, RequeueTakeMoves DEF RequeueTake, Track, TypeOK, Stays
  <2> QED
    BY <2>1, <2>2, OneJob
<1>15. ASSUME NEW r \in Requesters, RequeueAccepted(r) PROVE HistoryTruthful'
  <2>0. PICK j \in JobIds : j = rjob[r].id
    BY <1>15, RequeueAcceptedMoves
  <2>1. Truthful(j)'
    <3>1. latest'[j] = "queued"
      BY <1>15, <2>0 DEF RequeueAccepted, Accepts, Track, TypeOK
    <3>2. j \in Queued'
      BY <1>15, <2>0, RequeueAcceptedMoves
    <3> QED
      BY <3>1, <3>2 DEF Truthful
  <2>2. \A i \in JobIds \ {j} : Stays(i)
    BY <1>15, <2>0, RequeueAcceptedMoves DEF RequeueAccepted, Accepts, Track, TypeOK, Stays
  <2> QED
    BY <2>1, <2>2, OneJob
<1>16. ASSUME NEW r \in Requesters, RequeueRefused(r) PROVE HistoryTruthful'
  <2>0. PICK j \in JobIds : j = rjob[r].id
    BY <1>16, RequeueRefusedMoves
  <2>1. Truthful(j)'
    BY <1>16, <1>0, <2>0, RequeueRefusedMoves
       DEF RequeueRefused, Refuses, Track, TypeOK, Truthful, PlacesDisjoint, HistoryTruthful
  <2>2. \A i \in JobIds \ {j} : Stays(i)
    BY <1>16, <2>0, RequeueRefusedMoves DEF RequeueRefused, Refuses, Track, TypeOK, Stays
  <2> QED
    BY <2>1, <2>2, OneJob
<1>17. ASSUME NEW r \in Requesters, RequeueConfirm(r) PROVE HistoryTruthful'
  <2>0. PICK j \in JobIds : j = rjob[r].id
    BY <1>17, RequeueConfirmMoves
  <2>1. Truthful(j)'
    BY <1>17, <1>0, <2>0, RequeueConfirmMoves
       DEF RequeueConfirm, Track, TypeOK, Truthful, PlacesDisjoint, HistoryTruthful
  <2>2. \A i \in JobIds \ {j} : Stays(i)
    BY <1>17, <2>0, RequeueConfirmMoves DEF RequeueConfirm, Track, TypeOK, Stays
  <2> QED
    BY <2>1, <2>2, OneJob
<1>18. ASSUME NEW r \in Requesters, RequeuePutBack(r) PROVE HistoryTruthful'
  <2>0. PICK j \in JobIds : j = rjob[r].id
    BY <1>18, RequeuePutBackMoves
  <2>1. Truthful(j)'
    <3>1. Truthful(j) /\ latest'[j] = latest[j]
      BY <1>18 DEF RequeuePutBack, HistoryTruthful, Truthful
    <3>2. j \in Dead' /\ Queued' = Queued /\ Handled' = Handled /\ Waiting' = Waiting
          /\ completed' = completed
      BY <1>18, <2>0, RequeuePutBackMoves
    <3> QED
      BY <3>1, <3>2 DEF Truthful
  <2>2. \A i \in JobIds \ {j} : Stays(i)
    BY <1>18, <2>0, RequeuePutBackMoves DEF RequeuePutBack, Track, TypeOK, Stays
  <2> QED
    BY <2>1, <2>2, OneJob
<1>19. ASSUME Shutdown PROVE HistoryTruthful'
  BY <1>19, ShutdownMoves DEF HistoryTruthful
<1>20. ASSUME UNCHANGED vars PROVE HistoryTruthful'
  BY <1>20, QueueSame, HandledSame, WaitingSame, DeadSame, HeldSame
     DEF vars, workerVars, deadVars, requestVars, HistoryTruthful
<1> QED
  BY <1>1, <1>2, <1>3, <1>4, <1>5, <1>6, <1>7, <1>8, <1>9, <1>10, <1>11, <1>12,
     <1>13, <1>14, <1>15, <1>16, <1>17, <1>18, <1>19, <1>20
     DEF Next, Submit, WorkerStep, TimerFires, RequeueStep

(* What Snapshot shows of a job is where the job is, but between a requeue   *)
(* and its late entry (track, Enqueue, RequeueDeadLetter).                 *)
THEOREM HistoryTrue == Spec => []HistoryTruthful
<1>1. Init => HistoryTruthful
  BY DEF Init, HistoryTruthful
<1>2. Init => Placed
  BY InitPlaced
<1>3. TypeOK /\ Control /\ Placed /\ [Next]_vars => Placed'
  BY PlacedStep
<1>4. TypeOK /\ Control /\ Placed /\ HistoryTruthful /\ [Next]_vars => HistoryTruthful'
  BY HistoryStep
<1> QED
  BY <1>1, <1>2, <1>3, <1>4, TypeCorrect, PTL DEF Spec

-----------------------------------------------------------------------------
(* Theorem: refinement.  Each step of the pool moves one job along the        *)
(* automaton of JobLifecycle, or none.                                     *)

(* What JobTries shows of a job, for any set of jobs in play. *)
Attempt(S, j) ==
    IF \E job \in S : job.id = j THEN (CHOOSE job \in S : job.id = j).attempt ELSE 0

Unique(S) == \A s, t \in S : s.id = t.id => s = t

(* The attempt shown is that of the only job with the id. *)
LEMMA AttemptOf ==
    ASSUME NEW S, Unique(S), NEW job \in S
    PROVE  Attempt(S, job.id) = job.attempt
<1> DEFINE c == CHOOSE x \in S : x.id = job.id
<1>1. c \in S /\ c.id = job.id
  OBVIOUS
<1>2. c = job
  BY <1>1 DEF Unique
<1> QED
  BY <1>2 DEF Attempt

(* It depends on the job with that id alone. *)
LEMMA AttemptKept ==
    ASSUME NEW S, NEW T, Unique(S), Unique(T), NEW j,
           \A job \in S \cup T : job.id = j => (job \in S <=> job \in T)
    PROVE  Attempt(S, j) = Attempt(T, j)
<1>1. CASE \E job \in S : job.id = j
  <2>1. PICK job \in S : job.id = j
    BY <1>1
  <2>2. job \in T
    BY <2>1
  <2> QED
    BY <2>1, <2>2, AttemptOf
<1>2. CASE \A job \in S : job.id # j
  BY <1>2 DEF Attempt
<1> QED
  BY <1>1, <1>2

(* The jobs in play, by the place where they are. *)
Buffered == {jobs[i] : i \in DOMAIN jobs}
Working == {wjob[w] : w \in {v \in Workers : wphase[v] = "handling"}}

LEMMA PlayedWhere ==
    /\ InPlay = Buffered \cup Working \cup timers
    /\ InPlay' = Buffered' \cup Working' \cup timers'
BY DEF InPlay, Buffered, Working

LEMMA PlayedIds ==
    \A j : (\E job \in InPlay : job.id = j) <=> j \in Queued \cup Handled \cup Waiting
BY DEF InPlay, Queued, Handled, Waiting, Ids

(* No job is in play twice. *)
LEMMA PlayedOnce == Placed => Unique(InPlay)
<1> SUFFICES ASSUME Placed, NEW s \in InPlay, NEW t \in InPlay, s.id = t.id
             PROVE  s = t
  BY DEF Unique
<1>1. /\ QueuedOnce /\ HandledOnce /\ WaitingOnce
      /\ Queued \cap (Handled \cup Waiting) = {}
      /\ Handled \cap Waiting = {}
  BY DEF Placed, AtMostOnce, PlacesDisjoint
<1>2. \A x \in Buffered : x.id \in Queued
  BY DEF Buffered, Queued
<1>3. \A x \in Working : x.id \in Handled
  BY DEF Working, Handled
<1>4. \A x \in timers : x.id \in Waiting
  BY DEF Waiting, Ids
<1>5. s \in Buffered /\ t \in Buffered => s = t
  BY <1>1 DEF Buffered, QueuedOnce
<1>6. s \in Working /\ t \in Working => s = t
  BY <1>1 DEF Working, HandledOnce
<1>7. s \in timers /\ t \in timers => s = t
  BY <1>1 DEF WaitingOnce
<1> QED
  BY <1>1, <1>2, <1>3, <1>4, <1>5, <1>6, <1>7, PlayedWhere

LEMMA PlayedOnceNext == Placed' => Unique(InPlay)'
BY PlayedOnce, PTL

(* A send puts the job in the buffer. *)
LEMMA BufferGrows ==
    ASSUME TypeOK, NEW job \in Job, jobs' = Append(jobs, job)
    PROVE  Buffered' = Buffered \cup {job}
<1>1. /\ DOMAIN jobs = 1 .. Len(jobs) /\ Len(jobs) \in Nat
      /\ DOMAIN jobs' = 1 .. Len(jobs) + 1
      /\ jobs'[Len(jobs) + 1] = job
      /\ \A i \in 1 .. Len(jobs) : jobs'[i] = jobs[i]
  BY LenProperties DEF TypeOK
<1>2. ASSUME NEW x \in Buffered' PROVE x \in Buffered \cup {job}
  BY <1>1, <1>2 DEF Buffered
<1>3. ASSUME NEW x \in Buffered PROVE x \in Buffered'
  BY <1>1, <1>3 DEF Buffered
<1>4. job \in Buffered'
  BY <1>1 DEF Buffered
<1> QED
  BY <1>2, <1>3, <1>4

(* A receive takes the first job out of it. *)
LEMMA BufferShrinks ==
    ASSUME TypeOK, jobs # <<>>, jobs' = Tail(jobs), QueuedOnce
    PROVE  Head(jobs) \in Buffered /\ Buffered' = Buffered \ {Head(jobs)}
<1>1. /\ DOMAIN jobs = 1 .. Len(jobs) /\ Len(jobs) \in Nat /\ Len(jobs) >= 1
      /\ DOMAIN jobs' = 1 .. Len(jobs) - 1
      /\ Head(jobs) = jobs[1]
      /\ \A i \in 1 .. Len(jobs) - 1 : jobs'[i] = jobs[i + 1]
  BY HeadTailProperties, LenProperties, EmptySeq DEF TypeOK
<1>2. ASSUME NEW x \in Buffered' PROVE x \in Buffered /\ x # Head(jobs)
  <2>1. PICK i \in 1 .. Len(jobs) - 1 : jobs[i + 1] = x
    BY <1>1, <1>2 DEF Buffered
  <2>2. i + 1 \in DOMAIN jobs /\ 1 \in DOMAIN jobs /\ i + 1 # 1
    BY <1>1
  <2> QED
    BY <1>1, <2>1, <2>2 DEF Buffered, QueuedOnce
<1>3. ASSUME NEW x \in Buffered, x # Head(jobs) PROVE x \in Buffered'
  <2>1. PICK i \in 1 .. Len(jobs) : jobs[i] = x
    BY <1>1, <1>3 DEF Buffered
  <2>2. i - 1 \in DOMAIN jobs' /\ jobs'[i - 1] = jobs[i]
    BY <1>1, <1>3, <2>1
  <2> QED
    BY <2>1, <2>2 DEF Buffered
<1>4. Head(jobs) \in Buffered
  BY <1>1 DEF Buffered
<1> QED
  BY <1>2, <1>3, <1>4

(* A worker that ends its turn takes its job out of play. *)
LEMMA WorkingShrinks ==
    ASSUME TypeOK, NEW w \in Workers, NEW next \in WorkerPhase, TurnOver(w, next),
           next # "handling", HandledOnce
    PROVE  wjob[w] \in Working /\ Working' = Working \ {wjob[w]}
BY DEF TypeOK, Working, HandledOnce, TurnOver

(* The places in play that a step leaves alone. *)
LEMMA PlayedSame ==
    /\ UNCHANGED jobs => Buffered' = Buffered
    /\ UNCHANGED workerVars => Working' = Working
BY DEF Buffered, Working, workerVars

(* A job for which a step changes nothing that JobState tells apart. *)
Rests(j) ==
    /\ New(j)' <=> New(j)
    /\ j \in Handled' <=> j \in Handled
    /\ j \in Dead' <=> j \in Dead
    /\ j \in completed' <=> j \in completed
    /\ j \in dropped' <=> j \in dropped

LEMMA StateMoves ==
    ASSUME NEW j \in JobIds, \A i \in JobIds \ {j} : Rests(i)
    PROVE  JobState' = [JobState EXCEPT ![j] = JobState'[j]]
BY DEF JobState, Rests

LEMMA StateRests ==
    ASSUME \A i \in JobIds : Rests(i)
    PROVE  JobState' = JobState
BY DEF JobState, Rests

LEMMA TriesShown ==
    /\ JobTries = [j \in JobIds |-> Attempt(InPlay, j)]
    /\ JobTries' = [j \in JobIds |-> Attempt(InPlay', j)]
BY DEF JobTries, Attempt

LEMMA TriesMove ==
    ASSUME Unique(InPlay), Unique(InPlay)', NEW j \in JobIds,
           \A x \in InPlay \cup InPlay' : x.id # j => (x \in InPlay <=> x \in InPlay')
    PROVE  JobTries' = [JobTries EXCEPT ![j] = JobTries'[j]]
<1>1. Unique(InPlay')
  BY DEF Unique
<1>2. \A i \in JobIds \ {j} : Attempt(InPlay, i) = Attempt(InPlay', i)
  <2> SUFFICES ASSUME NEW i \in JobIds \ {j}
               PROVE  Attempt(InPlay, i) = Attempt(InPlay', i)
    OBVIOUS
  <2> QED
    BY <1>1, AttemptKept
<1> QED
  BY <1>2, TriesShown

(* A worker that takes a job brings it into play, one that does not handle *)
(* any changes nothing.                                                    *)
LEMMA WorkingGrows ==
    ASSUME TypeOK, NEW w \in Workers, NEW job \in Job, wphase[w] # "handling",
           wphase' = [wphase EXCEPT ![w] = "handling"],
           wjob' = [wjob EXCEPT ![w] = job]
    PROVE  Working' = Working \cup {job}
BY DEF TypeOK, Working

LEMMA WorkingKeeps ==
    ASSUME TypeOK, NEW w \in Workers, NEW next \in WorkerPhase, wphase[w] # "handling",
           wphase' = [wphase EXCEPT ![w] = next], next # "handling", UNCHANGED wjob
    PROVE  Working' = Working
BY DEF TypeOK, Working

(* The tries of one job, before a step and after it. *)
LEMMA TriesFor ==
    ASSUME Unique(InPlay), NEW job \in InPlay, job.id \in JobIds
    PROVE  JobTries[job.id] = job.attempt
BY AttemptOf, TriesShown

LEMMA NoTries ==
    ASSUME NEW j \in JobIds, j \notin Queued \cup Handled \cup Waiting
    PROVE  JobTries[j] = 0
BY PlayedIds, TriesShown DEF Attempt

LEMMA TriesSet ==
    ASSUME Unique(InPlay), Unique(InPlay)', NEW j \in JobIds,
           \A x \in InPlay \cup InPlay' : x.id # j => (x \in InPlay <=> x \in InPlay'),
           NEW job \in InPlay', job.id = j
    PROVE  JobTries' = [JobTries EXCEPT ![j] = job.attempt]
<1>1. Unique(InPlay')
  BY DEF Unique
<1>2. Attempt(InPlay', j) = job.attempt
  BY <1>1, AttemptOf
<1>3. JobTries'[j] = job.attempt
  BY <1>2, TriesShown
<1> QED
  BY <1>3, TriesMove

LEMMA TriesForgotten ==
    ASSUME Unique(InPlay), Unique(InPlay)', NEW j \in JobIds,
           \A x \in InPlay \cup InPlay' : x.id # j => (x \in InPlay <=> x \in InPlay'),
           j \notin Queued' \cup Handled' \cup Waiting'
    PROVE  JobTries' = [JobTries EXCEPT ![j] = 0]
<1>1. \A x \in InPlay' : x.id # j
  BY DEF InPlay, Queued, Handled, Waiting, Ids
<1>2. Attempt(InPlay', j) = 0
  BY <1>1 DEF Attempt
<1>3. JobTries'[j] = 0
  BY <1>2, TriesShown
<1> QED
  BY <1>3, TriesMove

(* A job that comes into play untried shows no tries, as before. *)
LEMMA TriesUnchanged ==
    ASSUME Unique(InPlay), Unique(InPlay)', NEW job \in Job, job.attempt = 0,
           job.id \in JobIds, job.id \notin Queued \cup Handled \cup Waiting,
           InPlay' = InPlay \cup {job}
    PROVE  JobTries' = JobTries
<1>1. JobTries' = [JobTries EXCEPT ![job.id] = 0]
  BY TriesSet
<1>2. JobTries[job.id] = 0
  BY NoTries
<1> QED
  BY <1>1, <1>2, TriesShown

(* What a step of the pool shows outside. *)
Shown == [Lifecycle!Next]_(Lifecycle!vars)

LEMMA NothingShown ==
    ASSUME \A i \in JobIds : Rests(i), InPlay' = InPlay, phase' = phase
    PROVE  Shown
<1>1. JobState' = JobState
  BY StateRests
<1>2. JobTries' = JobTries
  BY TriesShown
<1>3. Alive' = Alive
  BY DEF Alive
<1> QED
  BY <1>1, <1>2, <1>3 DEF Shown, Lifecycle!vars

LEMMA HaltShown ==
    ASSUME \A i \in JobIds : Rests(i), InPlay' = InPlay, Alive,
           phase' \in {"exited", "panicked"}
    PROVE  Shown
<1>1. JobState' = JobState
  BY StateRests
<1>2. JobTries' = JobTries
  BY TriesShown
<1>3. Alive' = FALSE
  BY DEF Alive
<1> QED
  BY <1>1, <1>2, <1>3 DEF Shown, Lifecycle!Next, Lifecycle!Halt

(* Each step of the pool is one of JobLifecycle or changes nothing of it. *)
LEMMA LifecycleStep ==
    /\ TypeOK /\ TypeOK' /\ Control /\ Placed /\ Placed' /\ AttemptsBounded
    /\ [Next]_vars
    => Shown
<1> SUFFICES ASSUME TypeOK, TypeOK', Control, Placed, Placed', AttemptsBounded, [Next]_vars
             PROVE  Shown
  OBVIOUS
<1>0. /\ QueuedOnce /\ HandledOnce /\ WaitingOnce /\ PlacesDisjoint /\ NothingVanishes
      /\ Unique(InPlay) /\ Unique(InPlay)'
  BY PlayedOnce, PlayedOnceNext DEF Placed, AtMostOnce
<1>1. ASSUME NEW j \in JobIds, SubmitAccepted(j) PROVE Shown
  <2>1. JobState[j] = "new" /\ JobState' = [JobState EXCEPT ![j] = "pending"]
    <3>1. \A i \in JobIds \ {j} : Rests(i)
      BY <1>1, SubmitAcceptedMoves DEF Rests
    <3>2. JobState[j] = "new" /\ JobState'[j] = "pending"
      BY <1>0, <1>1, SubmitAcceptedMoves
         DEF JobState, NothingVanishes, Anywhere, Gone, PlacesDisjoint
    <3> QED
      BY <3>1, <3>2, StateMoves
  <2>2. JobTries' = JobTries
    <3>1. InPlay' = InPlay \cup {FreshJob(j)}
      BY <1>1, SubmitAcceptedMoves, BufferGrows, PlayedWhere, PlayedSame
         DEF SubmitAccepted, Accepts
    <3>2. j \notin Queued \cup Handled \cup Waiting
      BY <1>0, <1>1 DEF SubmitAccepted, NothingVanishes, Anywhere
    <3>3. FreshJob(j) \in Job /\ FreshJob(j).id = j /\ FreshJob(j).attempt = 0
      BY DEF FreshJob, Job
    <3> QED
      BY <1>0, <3>1, <3>2, <3>3, TriesUnchanged
  <2> QED
    BY <1>1, <2>1, <2>2
       DEF Shown, Lifecycle!Next, Lifecycle!Accept, Lifecycle!Move, SubmitAccepted, Alive
<1>2. ASSUME NEW j \in JobIds, SubmitDropped(j) PROVE Shown
  <2>1. JobState[j] = "new" /\ JobState' = [JobState EXCEPT ![j] = "lost"]
    <3>1. \A i \in JobIds \ {j} : Rests(i)
      BY <1>2, SubmitDroppedMoves DEF Rests
    <3>2. JobState[j] = "new" /\ JobState'[j] = "lost"
      BY <1>0, <1>2, SubmitDroppedMoves
         DEF JobState, NothingVanishes, Anywhere, Gone, PlacesDisjoint
    <3> QED
      BY <3>1, <3>2, StateMoves
  <2>2. JobTries' = JobTries
    <3>1. InPlay' = InPlay
      BY <1>0, <1>2, SubmitDroppedMoves, PlayedWhere, PlayedSame DEF SubmitDropped, Refuses
    <3> QED
      BY <3>1, TriesShown
  <2> QED
    BY <1>2, <2>1, <2>2
       DEF Shown, Lifecycle!Next, Lifecycle!Reject, Lifecycle!Move, SubmitDropped, Alive
<1>3. ASSUME NEW j \in JobIds, SubmitPanics(j) PROVE Shown
  <2>1. \A i \in JobIds : Rests(i)
    BY <1>0, <1>3, SubmitPanicsMoves DEF Rests, NothingVanishes, Anywhere, Gone
  <2>2. InPlay' = InPlay
    BY <1>0, <1>3, SubmitPanicsMoves, PlayedWhere, PlayedSame
       DEF SubmitPanics, SendPanics
  <2> QED
    BY <1>3, <2>1, <2>2, HaltShown DEF SubmitPanics, SendPanics, Alive
<1>4. ASSUME NEW w \in Workers, Take(w) PROVE Shown
  <2>0. PICK j \in JobIds : j = Head(jobs).id
    BY <1>4, TakeMoves
  <2>1. JobState[j] = "pending" /\ JobState' = [JobState EXCEPT ![j] = "running"]
    <3>1. \A i \in JobIds \ {j} : Rests(i)
      BY <1>4, <2>0, TakeMoves DEF Rests
    <3>2. JobState[j] = "pending" /\ JobState'[j] = "running"
      BY <1>0, <1>4, <2>0, TakeMoves
         DEF JobState, NothingVanishes, Anywhere, Gone, PlacesDisjoint
    <3> QED
      BY <3>1, <3>2, StateMoves
  <2>2. JobTries' = [JobTries EXCEPT ![j] = @ + 1]
    <3> DEFINE job == [id |-> j, attempt |-> Head(jobs).attempt + 1]
    <3>1. /\ Head(jobs) \in Buffered /\ Buffered' = Buffered \ {Head(jobs)}
          /\ Working' = Working \cup {job} /\ timers' = timers
      BY <1>0, <1>4, <2>0, TakeMoves, BufferShrinks, WorkingGrows DEF Take
    <3>2. job.id = j /\ job.attempt = Head(jobs).attempt + 1
      OBVIOUS
    <3> HIDE DEF job
    <3>3. JobTries' = [JobTries EXCEPT ![j] = job.attempt]
      BY <1>0, <2>0, <3>1, <3>2, PlayedWhere, TriesSet
    <3>4. JobTries[j] = Head(jobs).attempt
      BY <1>0, <2>0, <3>1, PlayedWhere, TriesFor
    <3> QED
      BY <3>2, <3>3, <3>4
  <2> QED
    BY <1>4, <2>1, <2>2
       DEF Shown, Lifecycle!Next, Lifecycle!Start, Lifecycle!Move, Take, Alive
<1>5. ASSUME NEW w \in Workers, HandlerSucceeds(w) PROVE Shown
  <2>0. PICK j \in JobIds : j = wjob[w].id
    BY <1>5, HandlerSucceedsMoves
  <2>1. JobState[j] = "running" /\ JobState' = [JobState EXCEPT ![j] = "done"]
    <3>1. \A i \in JobIds \ {j} : Rests(i)
      BY <1>5, <2>0, HandlerSucceedsMoves DEF Rests
    <3>2. JobState[j] = "running" /\ JobState'[j] = "done"
      BY <1>0, <1>5, <2>0, HandlerSucceedsMoves
         DEF JobState, NothingVanishes, Anywhere, Gone, PlacesDisjoint
    <3> QED
      BY <3>1, <3>2, StateMoves
  <2>2. JobTries[j] = wjob[w].attempt /\ JobTries' = [JobTries EXCEPT ![j] = 0]
    <3>1. /\ wjob[w] \in Working /\ Working' = Working \ {wjob[w]}
          /\ Buffered' = Buffered /\ timers' = timers
      BY <1>0, <1>5, WorkingShrinks, PlayedSame DEF HandlerSucceeds, TurnOver, WorkerPhase
    <3>2. j \notin Queued' \cup Handled' \cup Waiting'
      BY <1>0, <1>5, <2>0, HandlerSucceedsMoves DEF PlacesDisjoint
    <3>3. JobTries' = [JobTries EXCEPT ![j] = 0]
      BY <1>0, <2>0, <3>1, <3>2, PlayedWhere, TriesForgotten
    <3>4. JobTries[j] = wjob[w].attempt
      BY <1>0, <2>0, <3>1, PlayedWhere, TriesFor
    <3> QED
      BY <3>3, <3>4
  <2> QED
    BY <1>5, <2>1, <2>2
       DEF Shown, Lifecycle!Next, Lifecycle!Succeed, Lifecycle!Move, Lifecycle!Forget,
           TurnOver, HandlerSucceeds, Alive
<1>6. ASSUME NEW w \in Workers, HandlerBuries(w) PROVE Shown
  <2>0. PICK j \in JobIds : j = wjob[w].id
    BY <1>6, HandlerBuriesMoves
  <2>1. JobState[j] = "running" /\ JobState' = [JobState EXCEPT ![j] = "dead"]
    <3>1. \A i \in JobIds \ {j} : Rests(i)
      BY <1>6, <2>0, HandlerBuriesMoves DEF Rests
    <3>2. JobState[j] = "running" /\ JobState'[j] = "dead"
      BY <1>0, <1>6, <2>0, HandlerBuriesMoves
         DEF JobState, NothingVanishes, Anywhere, Gone, PlacesDisjoint
    <3> QED
      BY <3>1, <3>2, StateMoves
  <2>2. JobTries[j] = wjob[w].attempt /\ JobTries' = [JobTries EXCEPT ![j] = 0]
    <3>1. /\ wjob[w] \in Working /\ Working' = Working \ {wjob[w]}
          /\ Buffered' = Buffered /\ timers' = timers
      BY <1>0, <1>6, WorkingShrinks, PlayedSame DEF HandlerBuries, TurnOver, WorkerPhase
    <3>2. j \notin Queued' \cup Handled' \cup Waiting'
      BY <1>0, <1>6, <2>0, HandlerBuriesMoves DEF PlacesDisjoint
    <3>3. JobTries' = [JobTries EXCEPT ![j] = 0]
      BY <1>0, <2>0, <3>1, <3>2, PlayedWhere, TriesForgotten
    <3>4. JobTries[j] = wjob[w].attempt
      BY <1>0, <2>0, <3>1, PlayedWhere, TriesFor
    <3> QED
      BY <3>3, <3>4
  <2> QED
    BY <1>6, <2>1, <2>2
       DEF Shown, Lifecycle!Next, Lifecycle!Bury, Lifecycle!Move, Lifecycle!Forget,
           TurnOver, HandlerBuries, Alive
<1>7. ASSUME NEW w \in Workers, HandlerRetries(w) PROVE Shown
  <2>0. PICK j \in JobIds : j = wjob[w].id
    BY <1>7, HandlerRetriesMoves
  <2>1. JobState[j] = "running" /\ JobState' = [JobState EXCEPT ![j] = "pending"]
    <3>1. \A i \in JobIds \ {j} : Rests(i)
      BY <1>7, <2>0, HandlerRetriesMoves DEF Rests
    <3>2. JobState[j] = "running" /\ JobState'[j] = "pending"
      BY <1>0, <1>7, <2>0, HandlerRetriesMoves
         DEF JobState, NothingVanishes, Anywhere, Gone, PlacesDisjoint
    <3> QED
      BY <3>1, <3>2, StateMoves
  <2>2. JobTries[j] = wjob[w].attempt /\ JobTries' = JobTries
    <3>1. /\ wjob[w] \in Working /\ Working' = Working \ {wjob[w]}
          /\ Buffered' = Buffered /\ timers' = timers \cup {wjob[w]}
      BY <1>0, <1>7, WorkingShrinks, PlayedSame DEF HandlerRetries, TurnOver, WorkerPhase
    <3>2. InPlay' = InPlay
      BY <3>1, PlayedWhere
    <3>3. JobTries[j] = wjob[w].attempt
      BY <1>0, <2>0, <3>1, PlayedWhere, TriesFor
    <3> QED
      BY <3>2, <3>3, TriesShown
  <2> QED
    BY <1>7, <2>1, <2>2
       DEF Shown, Lifecycle!Next, Lifecycle!Retry, Lifecycle!Move, TurnOver,
           HandlerRetries, Alive
<1>8. ASSUME NEW w \in Workers, LogDead(w) PROVE Shown
  <2>1. \A i \in JobIds : Rests(i)
    BY <1>0, <1>8, LogDeadMoves DEF Rests, NothingVanishes, Anywhere, Gone
  <2>2. InPlay' = InPlay
    BY <1>0, <1>8, LogDeadMoves, PlayedWhere, PlayedSame, WorkingKeeps
       DEF LogDead, WorkerPhase
  <2> QED
    BY <1>8, <2>1, <2>2, NothingShown DEF LogDead, WorkerPhase, Alive
<1>9. ASSUME NEW w \in Workers, WorkerExits(w) PROVE Shown
  <2>1. \A i \in JobIds : Rests(i)
    BY <1>0, <1>9, WorkerExitsMoves DEF Rests, NothingVanishes, Anywhere, Gone
  <2>2. InPlay' = InPlay
    BY <1>0, <1>9, WorkerExitsMoves, PlayedWhere, PlayedSame, WorkingKeeps
       DEF WorkerExits, WorkerPhase
  <2> QED
    BY <1>9, <2>1, <2>2, NothingShown DEF WorkerExits, WorkerPhase, Alive
<1>10. ASSUME Drain PROVE Shown
  <2>1. \A i \in JobIds : Rests(i)
    BY <1>0, <1>10, DrainMoves DEF Rests, NothingVanishes, Anywhere, Gone
  <2>2. InPlay' = InPlay
    BY <1>0, <1>10, DrainMoves, PlayedWhere, PlayedSame
       DEF Drain
  <2> QED
    BY <1>10, <2>1, <2>2, NothingShown DEF Drain, Alive
<1>11. ASSUME NEW t \in timers, TimerFireAccepted(t) PROVE Shown
  <2>1. \A i \in JobIds : Rests(i)
    BY <1>0, <1>11, TimerFireAcceptedMoves DEF Rests, NothingVanishes, Anywhere, Gone
  <2>2. InPlay' = InPlay
    BY <1>0, <1>11, TimerFireAcceptedMoves, PlayedWhere, PlayedSame, BufferGrows
       DEF TimerFireAccepted, Accepts
  <2> QED
    BY <1>11, <2>1, <2>2, NothingShown DEF TimerFireAccepted, Accepts, Alive
<1>12. ASSUME NEW t \in timers, TimerFireDropped(t) PROVE Shown
  <2>0. PICK j \in JobIds : j = t.id
    BY <1>12, TimerFireDroppedMoves
  <2>1. JobState[j] = "pending" /\ JobState' = [JobState EXCEPT ![j] = "lost"]
    <3>1. \A i \in JobIds \ {j} : Rests(i)
      BY <1>12, <2>0, TimerFireDroppedMoves DEF Rests
    <3>2. JobState[j] = "pending" /\ JobState'[j] = "lost"
      BY <1>0, <1>12, <2>0, TimerFireDroppedMoves
         DEF JobState, NothingVanishes, Anywhere, Gone, PlacesDisjoint
    <3> QED
      BY <3>1, <3>2, StateMoves
  <2>2. JobTries[j] > 0 /\ JobTries' = [JobTries EXCEPT ![j] = 0]
    <3>1. Working' = Working /\ Buffered' = Buffered /\ timers' = timers \ {t}
      BY <1>12, PlayedSame DEF TimerFireDropped, Refuses
    <3>2. j \notin Queued' \cup Handled' \cup Waiting'
      BY <1>0, <1>12, <2>0, TimerFireDroppedMoves DEF PlacesDisjoint
    <3>3. JobTries' = [JobTries EXCEPT ![j] = 0]
      BY <1>0, <2>0, <3>1, <3>2, PlayedWhere, TriesForgotten
    <3>4. JobTries[j] = t.attempt
      BY <1>0, <2>0, PlayedWhere, TriesFor
    <3>5. t.attempt > 0
      BY PoolAssumption DEF AttemptsBounded, TryLimit
    <3> QED
      BY <3>3, <3>4, <3>5
  <2> QED
    BY <1>12, <2>1, <2>2
       DEF Shown, Lifecycle!Next, Lifecycle!GiveUp, Lifecycle!Move, Lifecycle!Forget,
           TimerFireDropped, Alive
<1>13. ASSUME NEW t \in timers, TimerFirePanics(t) PROVE Shown
  <2>1. \A i \in JobIds : Rests(i)
    BY <1>0, <1>13, TimerFirePanicsMoves DEF Rests, NothingVanishes, Anywhere, Gone
  <2>2. InPlay' = InPlay
    BY <1>0, <1>13, TimerFirePanicsMoves, PlayedWhere, PlayedSame
       DEF TimerFirePanics, SendPanics
  <2> QED
    BY <1>13, <2>1, <2>2, HaltShown DEF TimerFirePanics, SendPanics, Alive
<1>14. ASSUME NEW r \in Requesters, NEW j \in JobIds, RequeueTake(r, j) PROVE Shown
  <2>1. JobState[j] = "dead" /\ JobState' = [JobState EXCEPT ![j] = "pending"]
    <3>1. \A i \in JobIds \ {j} : Rests(i)
      BY <1>14, RequeueTakeMoves DEF Rests
    <3>2. JobState[j] = "dead" /\ JobState'[j] = "pending"
      BY <1>0, <1>14, RequeueTakeMoves
         DEF JobState, NothingVanishes, Anywhere, Gone, PlacesDisjoint
    <3> QED
      BY <3>1, <3>2, StateMoves
  <2>2. JobTries' = JobTries
    <3>1. InPlay' = InPlay
      BY <1>0, <1>14, RequeueTakeMoves, PlayedWhere, PlayedSame DEF RequeueTake
    <3> QED
      BY <3>1, TriesShown
  <2> QED
    BY <1>14, <2>1, <2>2
       DEF Shown, Lifecycle!Next, Lifecycle!Revive, Lifecycle!Move, RequestsRun,
           RequeueTake, Alive
<1>15. ASSUME NEW r \in Requesters, RequeueAccepted(r) PROVE Shown
  <2>1. \A i \in JobIds : Rests(i)
    BY <1>0, <1>15, RequeueAcceptedMoves DEF Rests, NothingVanishes, Anywhere
  <2>2. JobTries' = JobTries
    <3>1. InPlay' = InPlay \cup {rjob[r]}
      BY <1>15, RequeueAcceptedMoves, BufferGrows, PlayedWhere, PlayedSame
         DEF RequeueAccepted, Accepts
    <3>2. rjob[r].id \notin Queued \cup Handled \cup Waiting
      BY <1>0, <1>15, RequeueAcceptedMoves DEF PlacesDisjoint
    <3>3. rjob[r].attempt = 0
      BY <1>15 DEF RequeueAccepted, AttemptsBounded
    <3> QED
      BY <1>0, <1>15, <3>1, <3>2, <3>3, RequeueAcceptedMoves, TriesUnchanged
  <2>3. JobState' = JobState
    BY <2>1, StateRests
  <2> QED
    BY <1>15, <2>2, <2>3 DEF Shown, Lifecycle!vars, RequeueAccepted, Alive
<1>16. ASSUME NEW r \in Requesters, RequeueRefused(r) PROVE Shown
  <2>1. \A i \in JobIds : Rests(i)
    BY <1>0, <1>16, RequeueRefusedMoves DEF Rests, NothingVanishes, Anywhere, Gone
  <2>2. InPlay' = InPlay
    BY <1>0, <1>16, RequeueRefusedMoves, PlayedWhere, PlayedSame
       DEF RequeueRefused, Refuses
  <2> QED
    BY <1>16, <2>1, <2>2, NothingShown DEF RequeueRefused, Refuses, Alive
<1>17. ASSUME NEW r \in Requesters, RequeueConfirm(r) PROVE Shown
  <2>1. \A i \in JobIds : Rests(i)
    BY <1>0, <1>17, RequeueConfirmMoves DEF Rests, NothingVanishes, Anywhere, Gone
  <2>2. InPlay' = InPlay
    BY <1>0, <1>17, RequeueConfirmMoves, PlayedWhere, PlayedSame
       DEF RequeueConfirm
  <2> QED
    BY <1>17, <2>1, <2>2, NothingShown DEF RequeueConfirm, Alive
<1>18. ASSUME NEW r \in Requesters, RequeuePutBack(r) PROVE Shown
  <2>0. PICK j \in JobIds : j = rjob[r].id
    BY <1>18, RequeuePutBackMoves
  <2>1. JobState[j] = "pending" /\ JobState' = [JobState EXCEPT ![j] = "dead"]
    <3>1. \A i \in JobIds \ {j} : Rests(i)
      BY <1>18, <2>0, RequeuePutBackMoves DEF Rests
    <3>2. JobState[j] = "pending" /\ JobState'[j] = "dead"
      BY <1>0, <1>18, <2>0, RequeuePutBackMoves
         DEF JobState, NothingVanishes, Anywhere, Gone, PlacesDisjoint
    <3> QED
      BY <3>1, <3>2, StateMoves
  <2>2. JobTries[j] = 0 /\ JobTries' = JobTries
    <3>1. InPlay' = InPlay
      BY <1>18, PlayedWhere, PlayedSame DEF RequeuePutBack
    <3>2. j \notin Queued \cup Handled \cup Waiting
      BY <1>0, <1>18, <2>0, RequeuePutBackMoves DEF PlacesDisjoint
    <3> QED
      BY <3>1, <3>2, NoTries, TriesShown
  <2> QED
    BY <1>18, <2>1, <2>2
       DEF Shown, Lifecycle!Next, Lifecycle!PutBack, Lifecycle!Move, RequeuePutBack, Alive
<1>19. ASSUME Shutdown PROVE Shown
  <2>1. \A i \in JobIds : Rests(i)
    BY <1>19, ShutdownMoves DEF Rests
  <2>2. InPlay' = InPlay
    BY <1>19, ShutdownMoves, PlayedWhere, PlayedSame
  <2>3. CASE RunFails \/ ProcessExit
    BY <2>1, <2>2, <2>3, HaltShown DEF RunFails, ProcessExit, MoveTo, Alive
  <2>4. CASE Cancel \/ HttpShutdown \/ CloseJobs \/ WorkersJoined
    <3>1. Alive' = Alive
      BY <2>4 DEF Cancel, HttpShutdown, CloseJobs, WorkersJoined, MoveTo, Alive
    <3> QED
      BY <2>1, <2>2, <3>1, StateRests, TriesShown DEF Shown, Lifecycle!vars
  <2> QED
    BY <1>19, <2>3, <2>4 DEF Shutdown
<1>20. ASSUME UNCHANGED vars PROVE Shown
  <2>1. \A i \in JobIds : Rests(i)
    BY <1>20, HandledSame, DeadSame DEF vars, workerVars, deadVars, Rests, New
  <2>2. InPlay' = InPlay
    BY <1>20, PlayedWhere, PlayedSame DEF vars, workerVars
  <2> QED
    BY <1>20, <2>1, <2>2, NothingShown DEF vars
<1> QED
  BY <1>1, <1>2, <1>3, <1>4, <1>5, <1>6, <1>7, <1>8, <1>9, <1>10, <1>11, <1>12,
     <1>13, <1>14, <1>15, <1>16, <1>17, <1>18, <1>19, <1>20
     DEF Next, Submit, WorkerStep, TimerFires, RequeueStep

(* Every job of the pool lives the life of JobLifecycle, whatever the number   *)
(* of workers and requests, the capacity and the limit (pool.go).          *)
THEOREM LifecycleKept == Spec => ImplementsLifecycle
<1>1. Init => Lifecycle!Init
  <2> SUFFICES ASSUME Init PROVE Lifecycle!Init
    OBVIOUS
  <2>1. \A j \in JobIds : New(j)
    BY DEF Init, New
  <2>2. InPlay = {}
    BY EmptySeq DEF Init, InPlay
  <2>3. JobState = [j \in JobIds |-> "new"]
    BY <2>1 DEF JobState
  <2>4. JobTries = [j \in JobIds |-> 0]
    BY <2>2 DEF JobTries
  <2>5. Alive = TRUE
    BY DEF Init, Alive
  <2> QED
    BY <2>3, <2>4, <2>5 DEF Lifecycle!Init
<1>2. Init => Placed
  BY InitPlaced
<1>3. TypeOK /\ Control /\ Placed /\ [Next]_vars => Placed'
  BY PlacedStep
<1>4. /\ TypeOK /\ TypeOK' /\ Control /\ Placed /\ Placed' /\ AttemptsBounded
      /\ [Next]_vars
      => [Lifecycle!Next]_(Lifecycle!vars)
  BY LifecycleStep DEF Shown
<1> QED
  BY <1>1, <1>2, <1>3, <1>4, TypeCorrect, AttemptsLimited, PTL
     DEF Spec, ImplementsLifecycle, Lifecycle!Spec

-----------------------------------------------------------------------------
(* Webhook deliveries (WebhookDelivery), which are jobs of the pool.       *)

(* Every step of the dispatcher, of a replay, of Deliver or of the shutdown *)
(* is a step of the pool, or leaves the pool as it is.                      *)
LEMMA DeliveryStepIsPoolStep == [DeliveryNext]_allVars => [Next]_vars
<1> SUFFICES ASSUME [DeliveryNext]_allVars PROVE [Next]_vars
  OBVIOUS
<1>1. ASSUME NEW j \in JobIds, Dispatch(j) \/ Replay(j) PROVE UNCHANGED vars
  BY <1>1 DEF Dispatch, Replay, CreateRow
<1>2. ASSUME NEW j \in JobIds, EnqueueDelivery(j) PROVE Next
  BY <1>2 DEF EnqueueDelivery, Next
<1>3. ASSUME NEW j \in JobIds, DeliveryTimer(j) PROVE Next
  BY <1>3 DEF DeliveryTimer, Next
<1>4. ASSUME NEW w \in Workers, PostAnswered(w) PROVE UNCHANGED vars
  BY <1>4 DEF PostAnswered
<1>5. ASSUME NEW w \in Workers, DeliverSucceeds(w) \/ DeliverFails(w) PROVE Next
  BY <1>5 DEF DeliverSucceeds, DeliverFails, Next, WorkerStep
<1>6. ASSUME NEW w \in Workers, Take(w) \/ LogDead(w) \/ WorkerExits(w) PROVE Next
  BY <1>6 DEF Next, WorkerStep
<1>7. ASSUME Drain PROVE Next
  BY <1>7 DEF Next
<1>8. ASSUME NEW r \in Requesters, DeliveryRequeue(r) PROVE Next
  BY <1>8 DEF DeliveryRequeue, Next
<1>9. ASSUME NEW r \in Requesters, NEW j \in JobIds, RequeueTake(r, j) PROVE Next
  BY <1>9 DEF Next
<1>10. ASSUME DeliveryShutdown PROVE Next
  BY <1>10 DEF DeliveryShutdown, Shutdown, Next
<1>11. CASE UNCHANGED allVars
  BY <1>11 DEF allVars
<1> QED
  BY <1>1, <1>2, <1>3, <1>4, <1>5, <1>6, <1>7, <1>8, <1>9, <1>10, <1>11
     DEF DeliveryNext, DeliveryWorker

(* Theorem: deliveries use the pool as it is.  Whatever the dispatcher, the *)
(* replays and the endpoints do, the pool under them behaves as Pool says:  *)
(* every theorem about Spec above holds of webhook deliveries too.          *)
THEOREM DeliveriesUsePool == DeliverySpec => Spec
<1>1. DeliveryInit => Init
  BY DEF DeliveryInit
<1> QED
  BY <1>1, DeliveryStepIsPoolStep, PTL DEF DeliverySpec, Spec

DeliveryTypes ==
    /\ row \in [JobIds -> RowStatus]
    /\ entering \subseteq JobIds
    /\ answer \in [Workers -> Answer]
    /\ acks \in [JobIds -> Nat]
    /\ missed \subseteq JobIds

(* The job a worker handles is one of the jobs. *)
LEMMA HandledJob ==
    ASSUME TypeOK, Control, NEW w \in Workers, wphase[w] = "handling"
    PROVE  wjob[w] \in Job /\ wjob[w].id \in JobIds
BY DEF TypeOK, Control, Job

(* Every step of a delivery keeps its types. *)
LEMMA DeliveryTypesStep ==
    TypeOK /\ Control /\ DeliveryTypes /\ [DeliveryNext]_allVars => DeliveryTypes'
<1> SUFFICES ASSUME TypeOK, Control, DeliveryTypes, [DeliveryNext]_allVars
             PROVE  DeliveryTypes'
  OBVIOUS
<1> USE DEF DeliveryTypes, RowStatus, Answer
<1>1. ASSUME NEW j \in JobIds, Dispatch(j) \/ Replay(j) PROVE DeliveryTypes'
  BY <1>1 DEF Dispatch, Replay, CreateRow
<1>2. ASSUME NEW j \in JobIds, EnqueueDelivery(j) PROVE DeliveryTypes'
  BY <1>2 DEF EnqueueDelivery
<1>3. ASSUME NEW w \in Workers, PostAnswered(w) PROVE DeliveryTypes'
  BY <1>3, HandledJob DEF PostAnswered
<1>4. ASSUME NEW w \in Workers, DeliverSucceeds(w) PROVE DeliveryTypes'
  BY <1>4, HandledJob DEF DeliverSucceeds, UpdateRow, HandlerSucceeds, TurnOver
<1>5. ASSUME NEW w \in Workers, DeliverFails(w) PROVE DeliveryTypes'
  <2>1. wphase[w] = "handling"
    BY <1>5 DEF DeliverFails, HandlerBuries, HandlerRetries, TurnOver
  <2> QED
    BY <1>5, <2>1, HandledJob DEF DeliverFails, UpdateRow, AfterFailure
<1>6. CASE UNCHANGED deliveryVars
  BY <1>6 DEF deliveryVars
<1> QED
  BY <1>1, <1>2, <1>3, <1>4, <1>5, <1>6
     DEF DeliveryNext, DeliveryWorker, DeliveryTimer, DeliveryRequeue, DeliveryShutdown,
         allVars

-----------------------------------------------------------------------------
(* Theorem: acknowledgements.  The endpoint answered 2xx exactly for the   *)
(* deliveries that are completed and for those whose worker has the answer *)
(* in its hands: as no job is in two places, nobody POSTs them again.      *)

Confirmed == {wjob[w].id : w \in {v \in Workers : answer[v] = "ok"}}

Answered ==
    /\ \A w \in Workers : answer[w] # "none" => wphase[w] = "handling"
    /\ \A j \in JobIds : acks[j] = IF j \in completed \cup Confirmed THEN 1 ELSE 0

(* Every step of a delivery counts the acknowledgements of its job. *)
LEMMA AnsweredStep ==
    /\ TypeOK /\ Control /\ Placed /\ DeliveryTypes /\ Answered
    /\ [DeliveryNext]_allVars
    => Answered'
<1> SUFFICES ASSUME TypeOK, Control, Placed, DeliveryTypes, Answered, [DeliveryNext]_allVars
             PROVE  Answered'
  OBVIOUS
<1>0. HandledOnce /\ PlacesDisjoint
  BY DEF Placed, AtMostOnce
<1> DEFINE Same == UNCHANGED <<answer, acks, completed>>
<1>1. ASSUME Same, UNCHANGED workerVars PROVE Answered'
  BY <1>1 DEF Answered, Confirmed, workerVars
<1>2. ASSUME NEW w \in Workers, Take(w), UNCHANGED deliveryVars PROVE Answered'
  <2>1. answer[w] = "none"
    BY <1>2 DEF Take, Answered, DeliveryTypes, Answer
  <2>2. \A v \in Workers : answer[v] = "ok" => wjob'[v] = wjob[v]
    BY <1>2, <2>1 DEF Take, TypeOK
  <2>3. Confirmed' = Confirmed
    BY <1>2, <2>2 DEF Confirmed, deliveryVars
  <2> QED
    BY <1>2, <2>1, <2>3 DEF Take, Answered, TypeOK, deliveryVars, historyVars
<1>3. ASSUME NEW w \in Workers, LogDead(w) \/ WorkerExits(w), UNCHANGED deliveryVars
      PROVE  Answered'
  <2>1. wphase[w] # "handling" /\ \A v \in Workers \ {w} : wphase'[v] = wphase[v]
    BY <1>3 DEF LogDead, WorkerExits, TypeOK
  <2>2. Confirmed' = Confirmed /\ UNCHANGED <<answer, acks, completed>>
    BY <1>3 DEF LogDead, WorkerExits, Confirmed, deliveryVars, historyVars
  <2> QED
    BY <2>1, <2>2 DEF Answered
<1>4. ASSUME NEW w \in Workers, PostAnswered(w) PROVE Answered'
  <2> DEFINE j == wjob[w].id
  <2>1. j \in JobIds /\ j \in Handled /\ j \notin completed
    BY <1>0, <1>4, HandledJob DEF PostAnswered, Handled, PlacesDisjoint, Gone
  <2>2. j \notin Confirmed
    BY <1>0, <1>4 DEF PostAnswered, Confirmed, HandledOnce, Answered
  <2>3. wphase[w] = "handling" /\ wphase' = wphase /\ wjob' = wjob /\ completed' = completed
    BY <1>4 DEF PostAnswered, vars, historyVars
  <2>4. acks[j] = 0
    BY <2>1, <2>2 DEF Answered
  <2>5. CASE answer' = [answer EXCEPT ![w] = "ok"] /\ acks' = [acks EXCEPT ![j] = @ + 1]
    <3>1. Confirmed' = Confirmed \cup {j}
      BY <2>3, <2>5 DEF Confirmed, DeliveryTypes
    <3> QED
      BY <2>1, <2>3, <2>4, <2>5, <3>1 DEF Answered, DeliveryTypes
  <2>6. CASE answer' = [answer EXCEPT ![w] = "error"] /\ acks' = acks
    <3>1. Confirmed' = Confirmed
      BY <1>4, <2>3, <2>6 DEF PostAnswered, Confirmed, DeliveryTypes
    <3> QED
      BY <2>3, <2>6, <3>1 DEF Answered, DeliveryTypes
  <2> QED
    BY <1>4, <2>5, <2>6 DEF PostAnswered
<1>5. ASSUME NEW w \in Workers, TurnOver(w, "idle") \/ TurnOver(w, "logging"),
             answer' = [answer EXCEPT ![w] = "none"], acks' = acks,
             \/ answer[w] = "ok" /\ completed' = completed \cup {wjob[w].id}
             \/ answer[w] = "error" /\ completed' = completed
      PROVE  Answered'
  <2>1. wphase[w] = "handling" /\ \A v \in Workers \ {w} : wphase'[v] = wphase[v]
    BY <1>5 DEF TurnOver, TypeOK
  <2>2. \A v \in Workers \ {w} : wjob'[v] = wjob[v]
    BY <1>5 DEF TurnOver, TypeOK
  <2>3. answer' \in [Workers -> Answer] /\ answer'[w] = "none"
        /\ \A v \in Workers \ {w} : answer'[v] = answer[v]
    BY <1>5 DEF DeliveryTypes, Answer
  <2>4. \A v \in Workers \ {w} : answer[v] = "ok" => wjob[v].id # wjob[w].id
    BY <1>0, <2>1 DEF Answered, HandledOnce
  <2>5. Confirmed' = {wjob[v].id : v \in {u \in Workers \ {w} : answer[u] = "ok"}}
    BY <2>2, <2>3 DEF Confirmed
  <2>6. Confirmed' = Confirmed \ {wjob[w].id}
    BY <2>4, <2>5, <1>5 DEF Confirmed
  <2>7. \A v \in Workers : answer'[v] # "none" => wphase'[v] = "handling"
    BY <2>1, <2>3 DEF Answered
  <2>8. completed' \cup Confirmed' = completed \cup Confirmed
    <3>1. CASE answer[w] = "ok"
      BY <1>5, <2>6, <3>1 DEF Confirmed
    <3>2. CASE answer[w] = "error"
      <4>1. wjob[w].id \notin Confirmed
        BY <2>4, <3>2 DEF Confirmed
      <4> QED
        BY <1>5, <2>6, <3>2, <4>1
    <3> QED
      BY <1>5, <3>1, <3>2
  <2> QED
    BY <1>5, <2>7, <2>8 DEF Answered
<1>6. ASSUME NEW w \in Workers, DeliverSucceeds(w) PROVE Answered'
  BY <1>5, <1>6 DEF DeliverSucceeds, HandlerSucceeds
<1>7. ASSUME NEW w \in Workers, DeliverFails(w) PROVE Answered'
  BY <1>5, <1>7 DEF DeliverFails, HandlerBuries, HandlerRetries, historyVars
<1>8. ASSUME NEW j \in JobIds, Dispatch(j) \/ Replay(j) PROVE Answered'
  BY <1>1, <1>8 DEF Dispatch, Replay, CreateRow, vars, workerVars
<1>9. ASSUME NEW j \in JobIds, EnqueueDelivery(j) PROVE Answered'
  BY <1>1, <1>9
     DEF EnqueueDelivery, Submit, SubmitAccepted, SubmitDropped, SubmitPanics, SendPanics,
         historyVars
<1>10. ASSUME NEW t \in timers, TimerFires(t), UNCHANGED deliveryVars PROVE Answered'
  BY <1>1, <1>10
     DEF TimerFires, TimerFireAccepted, TimerFireDropped, TimerFirePanics, SendPanics,
         historyVars, deliveryVars
<1>11. ASSUME NEW r \in Requesters, RequeueStep(r), UNCHANGED deliveryVars PROVE Answered'
  BY <1>1, <1>11
     DEF RequeueStep, RequeueAccepted, RequeueRefused, RequeueConfirm, RequeuePutBack,
         historyVars, deliveryVars
<1>12. ASSUME NEW r \in Requesters, NEW j \in JobIds, RequeueTake(r, j),
              UNCHANGED deliveryVars
       PROVE  Answered'
  BY <1>1, <1>12 DEF RequeueTake, historyVars, deliveryVars
<1>13. ASSUME Drain, UNCHANGED deliveryVars PROVE Answered'
  BY <1>1, <1>13 DEF Drain, historyVars, deliveryVars
<1>14. ASSUME DeliveryShutdown PROVE Answered'
  BY <1>1, <1>14
     DEF DeliveryShutdown, HttpShutdown, Cancel, RunFails, CloseJobs, WorkersJoined,
         ProcessExit, MoveTo, historyVars, deliveryVars
<1>15. CASE UNCHANGED allVars
  BY <1>1, <1>15 DEF allVars, vars, deliveryVars, workerVars
<1> QED
  BY <1>2, <1>3, <1>4, <1>6, <1>7, <1>8, <1>9, <1>10, <1>11, <1>12, <1>13, <1>14, <1>15
     DEF DeliveryNext, DeliveryWorker, DeliveryTimer, DeliveryRequeue

(* Nobody has answered anything at first. *)
LEMMA InitDelivery == DeliveryInit => DeliveryTypes /\ Answered
BY DEF DeliveryInit, Init, DeliveryTypes, Answered, Confirmed, RowStatus, Answer

(* A delivery that is completed or confirmed was acknowledged once, any     *)
(* other never: a 2xx is followed by no second POST of the same delivery    *)
(* (Deliver, process).                                                      *)
THEOREM AckedOnce == DeliverySpec => []AckedAtMostOnce
<1> DEFINE Inv == DeliveryTypes /\ Answered
<1>1. DeliveryInit => Inv
  BY InitDelivery
<1>2. DeliverySpec => [](TypeOK /\ Control)
  BY DeliveriesUsePool, TypeCorrect, PTL
<1>3. DeliverySpec => []Placed
  BY DeliveriesUsePool, JobsAccounted, PTL DEF Placed
<1>4. TypeOK /\ Control /\ Placed /\ Inv /\ [DeliveryNext]_allVars => Inv'
  BY DeliveryTypesStep, AnsweredStep
<1>5. Inv => AckedAtMostOnce
  <2> SUFFICES ASSUME Answered, NEW j \in JobIds PROVE acks[j] <= 1
    BY DEF AckedAtMostOnce
  <2>1. acks[j] = 1 \/ acks[j] = 0
    BY DEF Answered
  <2> QED
    BY <2>1
<1> QED
  BY <1>1, <1>2, <1>3, <1>4, <1>5, PTL DEF DeliverySpec

-----------------------------------------------------------------------------
(* Theorem: rows.  What the row of a delivery says agrees with the place   *)
(* of its job, unless the latest UPDATE failed.                            *)

Announced(j) ==
    /\ row[j] = "absent" => New(j) /\ j \notin entering
    /\ row[j] = "delivered" => j \in completed
    /\ j \notin missed =>
          /\ j \in completed => row[j] = "delivered"
          /\ j \in Dead \cup Held => row[j] = "failed"
          /\ row[j] = "failed" => j \in Dead \cup Held \cup Queued \cup Handled
          /\ row[j] = "retrying" => j \in Waiting \cup Queued \cup Handled \cup dropped

RowsAgree == \A j \in JobIds : Announced(j)

(* A job whose row and place a step leaves alone. *)
Undisturbed(j) ==
    /\ row'[j] = row[j]
    /\ j \in missed' <=> j \in missed
    /\ row[j] = "absent" => New(j)' /\ j \notin entering'
    /\ j \in Queued' <=> j \in Queued
    /\ j \in Handled' <=> j \in Handled
    /\ j \in Waiting' <=> j \in Waiting
    /\ j \in Dead' <=> j \in Dead
    /\ j \in Held' <=> j \in Held
    /\ j \in completed' <=> j \in completed
    /\ j \in dropped' <=> j \in dropped

(* A step that disturbs no job keeps every row in agreement. *)
LEMMA NothingDisturbed ==
    ASSUME RowsAgree, \A i \in JobIds : Undisturbed(i)
    PROVE  RowsAgree'
BY DEF RowsAgree, Announced, Undisturbed

(* A step that disturbs one job has to show that row in agreement. *)
LEMMA OneDisturbed ==
    ASSUME RowsAgree, NEW j \in JobIds, Announced(j)', \A i \in JobIds \ {j} : Undisturbed(i)
    PROVE  RowsAgree'
BY DEF RowsAgree, Announced, Undisturbed

(* A job that moved within the places a row does not tell apart, its row   *)
(* unchanged.                                                              *)
LEMMA RowKeeps ==
    ASSUME RowsAgree, TypeOK, Placed, NEW j \in JobIds, UNCHANGED deliveryVars, row[j] # "absent",
           \A i \in JobIds \ {j} : Undisturbed(i),
           j \in completed' <=> j \in completed,
           j \in Dead' \cup Held' => j \in Dead \cup Held,
           j \in Dead \cup Held \cup Queued \cup Handled =>
              j \in Dead' \cup Held' \cup Queued' \cup Handled',
           j \in Waiting \cup Queued \cup Handled \cup dropped =>
              j \in Waiting' \cup Queued' \cup Handled' \cup dropped'
    PROVE  RowsAgree'
BY OneDisturbed DEF RowsAgree, Announced, deliveryVars

(* A job that is anywhere has a row. *)
LEMMA PlacedHasRow ==
    ASSUME RowsAgree, Placed, NEW j \in JobIds, j \in Anywhere
    PROVE  row[j] # "absent"
BY DEF RowsAgree, Announced, Placed, NothingVanishes

(* Every step of a delivery, and every step of the pool under it, keeps the *)
(* rows in agreement with the places.                                      *)
LEMMA RowsStep ==
    /\ TypeOK /\ Control /\ Placed /\ DeliveryTypes /\ RowsAgree
    /\ [DeliveryNext]_allVars
    => RowsAgree'
<1> SUFFICES ASSUME TypeOK, Control, Placed, DeliveryTypes, RowsAgree, [DeliveryNext]_allVars
             PROVE  RowsAgree'
  OBVIOUS
<1>0. PlacesDisjoint /\ NothingVanishes
  BY DEF Placed, AtMostOnce
<1> USE DEF Anywhere, Gone
<1>a. \A i \in JobIds : row[i] = "absent" => New(i) /\ i \notin entering /\ i \notin Anywhere
  BY <1>0 DEF RowsAgree, Announced, NothingVanishes
<1>1. ASSUME NEW j \in JobIds, Dispatch(j) \/ Replay(j) PROVE RowsAgree'
  <2>1. UNCHANGED vars /\ row[j] = "absent" /\ missed' = missed /\ entering' = entering \cup {j}
    BY <1>1 DEF Dispatch, Replay, CreateRow
  <2>2. row'[j] \in {"queued", "replayed"} /\ \A i \in JobIds \ {j} : row'[i] = row[i]
    BY <1>1 DEF Dispatch, Replay, CreateRow, DeliveryTypes
  <2>3. /\ Queued' = Queued /\ Handled' = Handled /\ Waiting' = Waiting /\ Dead' = Dead
        /\ Held' = Held /\ completed' = completed /\ dropped' = dropped
        /\ \A i \in JobIds : New(i)' <=> New(i)
    BY <2>1, QueueSame, HandledSame, WaitingSame, DeadSame, HeldSame, GoneSame
       DEF vars, workerVars, deadVars, requestVars, historyVars, New
  <2>4. \A i \in JobIds \ {j} : Undisturbed(i)
    BY <1>a, <2>1, <2>2, <2>3 DEF Undisturbed
  <2>5. Announced(j)'
    BY <1>a, <2>1, <2>2, <2>3 DEF Announced
  <2> QED
    BY <2>4, <2>5, OneDisturbed
<1>2. ASSUME NEW j \in JobIds, EnqueueDelivery(j) PROVE RowsAgree'
  <2>1. /\ UNCHANGED <<row, missed>> /\ entering' \subseteq entering /\ row[j] # "absent"
        /\ Submit(j)
    BY <1>2, <1>a DEF EnqueueDelivery
  <2>2. CASE SubmitAccepted(j)
    <3>1. \A i \in JobIds \ {j} : Undisturbed(i)
      BY <1>a, <2>1, <2>2, SubmitAcceptedMoves DEF Undisturbed
    <3>2. Announced(j)'
      BY <2>1, <2>2, SubmitAcceptedMoves DEF RowsAgree, Announced
    <3> QED
      BY <3>1, <3>2, OneDisturbed
  <2>3. CASE SubmitDropped(j)
    <3>1. \A i \in JobIds \ {j} : Undisturbed(i)
      BY <1>a, <2>1, <2>3, SubmitDroppedMoves DEF Undisturbed
    <3>2. Announced(j)'
      BY <2>1, <2>3, SubmitDroppedMoves DEF RowsAgree, Announced
    <3> QED
      BY <3>1, <3>2, OneDisturbed
  <2>4. CASE SubmitPanics(j)
    BY <1>a, <2>1, <2>4, SubmitPanicsMoves, NothingDisturbed DEF Undisturbed
  <2> QED
    BY <2>1, <2>2, <2>3, <2>4 DEF Submit
<1>3. ASSUME NEW w \in Workers, PostAnswered(w) PROVE RowsAgree'
  <2>1. UNCHANGED vars /\ UNCHANGED <<row, entering, missed>>
    BY <1>3 DEF PostAnswered
  <2>2. /\ Queued' = Queued /\ Handled' = Handled /\ Waiting' = Waiting /\ Dead' = Dead
        /\ Held' = Held /\ completed' = completed /\ dropped' = dropped
        /\ \A i \in JobIds : New(i)' <=> New(i)
    BY <2>1, QueueSame, HandledSame, WaitingSame, DeadSame, HeldSame, GoneSame
       DEF vars, workerVars, deadVars, requestVars, historyVars, New
  <2> QED
    BY <1>a, <2>1, <2>2, NothingDisturbed DEF Undisturbed
<1>4. ASSUME NEW w \in Workers, DeliverSucceeds(w) PROVE RowsAgree'
  <2>1. PICK j \in JobIds : j = wjob[w].id
    BY <1>4, HandlerSucceedsMoves DEF DeliverSucceeds
  <2>2. HandlerSucceeds(w) /\ UpdateRow(j, "delivered") /\ entering' = entering
    BY <1>4, <2>1 DEF DeliverSucceeds
  <2>3. row[j] # "absent" /\ row[j] # "delivered"
    BY <1>0, <1>a, <2>1, <2>2, HandlerSucceedsMoves DEF RowsAgree, Announced, PlacesDisjoint
  <2>4. \A i \in JobIds \ {j} : Undisturbed(i)
    BY <1>a, <2>1, <2>2, HandlerSucceedsMoves DEF Undisturbed, UpdateRow, DeliveryTypes
  <2>5. j \in completed' /\ j \notin Dead' \cup Held'
    BY <1>0, <2>1, <2>2, HandlerSucceedsMoves DEF PlacesDisjoint
  <2>6. Announced(j)'
    BY <2>2, <2>3, <2>5 DEF Announced, UpdateRow, DeliveryTypes
  <2> QED
    BY <2>4, <2>6, OneDisturbed
<1>5. ASSUME NEW w \in Workers, DeliverFails(w) PROVE RowsAgree'
  <2>1. PICK j \in JobIds : j = wjob[w].id
    BY <1>5, HandlerBuriesMoves, HandlerRetriesMoves DEF DeliverFails
  <2>2. UpdateRow(j, AfterFailure(wjob[w].attempt)) /\ entering' = entering
    BY <1>5, <2>1 DEF DeliverFails
  <2>3. CASE HandlerBuries(w)
    <3>1. UpdateRow(j, "failed")
      BY <2>2, <2>3, HandlerBuriesMoves, PoolAssumption DEF AfterFailure, HandlerBuries, Job
    <3>2. row[j] # "absent" /\ row[j] # "delivered"
      BY <1>0, <1>a, <2>1, <2>3, HandlerBuriesMoves DEF RowsAgree, Announced, PlacesDisjoint
    <3>3. \A i \in JobIds \ {j} : Undisturbed(i)
      BY <1>a, <2>1, <2>2, <2>3, <3>1, HandlerBuriesMoves
         DEF Undisturbed, UpdateRow, DeliveryTypes
    <3>4. j \in Dead' /\ j \notin completed'
      BY <1>0, <2>1, <2>3, HandlerBuriesMoves DEF PlacesDisjoint
    <3>5. Announced(j)'
      BY <3>1, <3>2, <3>4 DEF Announced, UpdateRow, DeliveryTypes
    <3> QED
      BY <3>3, <3>5, OneDisturbed
  <2>4. CASE HandlerRetries(w)
    <3>1. UpdateRow(j, "retrying")
      BY <2>2, <2>4 DEF AfterFailure, HandlerRetries
    <3>2. row[j] # "absent" /\ row[j] # "delivered"
      BY <1>0, <1>a, <2>1, <2>4, HandlerRetriesMoves DEF RowsAgree, Announced, PlacesDisjoint
    <3>3. \A i \in JobIds \ {j} : Undisturbed(i)
      BY <1>a, <2>1, <2>2, <2>4, <3>1, HandlerRetriesMoves
         DEF Undisturbed, UpdateRow, DeliveryTypes
    <3>4. j \in Waiting' /\ j \notin completed' \cup Dead' \cup Held'
      BY <1>0, <2>1, <2>4, HandlerRetriesMoves DEF PlacesDisjoint
    <3>5. Announced(j)'
      BY <3>1, <3>2, <3>4 DEF Announced, UpdateRow, DeliveryTypes
    <3> QED
      BY <3>3, <3>5, OneDisturbed
  <2> QED
    BY <1>5, <2>3, <2>4 DEF DeliverFails
<1>6. ASSUME NEW w \in Workers, Take(w), UNCHANGED deliveryVars PROVE RowsAgree'
  <2>1. PICK j \in JobIds : j = Head(jobs).id
    BY <1>6, TakeMoves
  <2>2. row[j] # "absent"
    BY <1>6, <2>1, TakeMoves, PlacedHasRow
  <2>3. \A i \in JobIds \ {j} : Undisturbed(i)
    BY <1>a, <1>6, <2>1, TakeMoves DEF Undisturbed, deliveryVars
  <2> QED
    BY <1>6, <2>1, <2>2, <2>3, TakeMoves, RowKeeps
<1>7. ASSUME NEW w \in Workers, LogDead(w), UNCHANGED deliveryVars PROVE RowsAgree'
  BY <1>a, <1>7, LogDeadMoves, NothingDisturbed DEF Undisturbed, deliveryVars
<1>8. ASSUME NEW w \in Workers, WorkerExits(w), UNCHANGED deliveryVars PROVE RowsAgree'
  BY <1>a, <1>8, WorkerExitsMoves, NothingDisturbed DEF Undisturbed, deliveryVars
<1>9. ASSUME NEW t \in timers, TimerFireAccepted(t), UNCHANGED deliveryVars PROVE RowsAgree'
  <2>1. PICK j \in JobIds : j = t.id
    BY <1>9, TimerFireAcceptedMoves
  <2>2. row[j] # "absent"
    BY <1>9, <2>1, TimerFireAcceptedMoves, PlacedHasRow
  <2>3. \A i \in JobIds \ {j} : Undisturbed(i)
    BY <1>a, <1>9, <2>1, TimerFireAcceptedMoves DEF Undisturbed, deliveryVars
  <2> QED
    BY <1>9, <2>1, <2>2, <2>3, TimerFireAcceptedMoves, RowKeeps
<1>10. ASSUME NEW t \in timers, TimerFireDropped(t), UNCHANGED deliveryVars PROVE RowsAgree'
  <2>1. PICK j \in JobIds : j = t.id
    BY <1>10, TimerFireDroppedMoves
  <2>2. row[j] # "absent"
    BY <1>10, <2>1, TimerFireDroppedMoves, PlacedHasRow
  <2>3. \A i \in JobIds \ {j} : Undisturbed(i)
    BY <1>a, <1>10, <2>1, TimerFireDroppedMoves DEF Undisturbed, deliveryVars
  <2>4. j \notin Dead \cup Held \cup Queued \cup Handled
    BY <1>0, <1>10, <2>1, TimerFireDroppedMoves DEF PlacesDisjoint
  <2> QED
    BY <1>10, <2>1, <2>2, <2>3, <2>4, TimerFireDroppedMoves, RowKeeps
<1>11. ASSUME NEW t \in timers, TimerFirePanics(t), UNCHANGED deliveryVars PROVE RowsAgree'
  BY <1>a, <1>11, TimerFirePanicsMoves, NothingDisturbed DEF Undisturbed, deliveryVars
<1>12. ASSUME NEW r \in Requesters, NEW j \in JobIds, RequeueTake(r, j), UNCHANGED deliveryVars
       PROVE  RowsAgree'
  <2>1. row[j] # "absent"
    BY <1>12, RequeueTakeMoves, PlacedHasRow
  <2>2. \A i \in JobIds \ {j} : Undisturbed(i)
    BY <1>a, <1>12, RequeueTakeMoves DEF Undisturbed, deliveryVars
  <2> QED
    BY <1>12, <2>1, <2>2, RequeueTakeMoves, RowKeeps
<1>13. ASSUME NEW r \in Requesters, RequeueAccepted(r), UNCHANGED deliveryVars PROVE RowsAgree'
  <2>1. PICK j \in JobIds : j = rjob[r].id
    BY <1>13, RequeueAcceptedMoves
  <2>2. row[j] # "absent"
    BY <1>13, <2>1, RequeueAcceptedMoves, PlacedHasRow
  <2>3. \A i \in JobIds \ {j} : Undisturbed(i)
    BY <1>a, <1>13, <2>1, RequeueAcceptedMoves DEF Undisturbed, deliveryVars
  <2> QED
    BY <1>13, <2>1, <2>2, <2>3, RequeueAcceptedMoves, RowKeeps
<1>14. ASSUME NEW r \in Requesters, RequeueRefused(r), UNCHANGED deliveryVars PROVE RowsAgree'
  <2>1. PICK j \in JobIds : j = rjob[r].id
    BY <1>14, RequeueRefusedMoves
  <2>2. row[j] # "absent"
    BY <1>14, <2>1, RequeueRefusedMoves, PlacedHasRow
  <2>3. \A i \in JobIds : row[i] = "absent" => i # j
    BY <2>2
  <2> QED
    BY <1>a, <1>14, <2>1, <2>3, RequeueRefusedMoves, NothingDisturbed
       DEF Undisturbed, deliveryVars
<1>15. ASSUME NEW r \in Requesters, RequeueConfirm(r), UNCHANGED deliveryVars PROVE RowsAgree'
  <2>1. PICK j \in JobIds : j = rjob[r].id
    BY <1>15, RequeueConfirmMoves
  <2>2. row[j] # "absent"
    BY <1>a, <1>15, <2>1 DEF RequeueConfirm, Control
  <2> QED
    BY <1>a, <1>15, <2>1, <2>2, RequeueConfirmMoves, NothingDisturbed
       DEF Undisturbed, deliveryVars
<1>16. ASSUME NEW r \in Requesters, RequeuePutBack(r), UNCHANGED deliveryVars PROVE RowsAgree'
  <2>1. PICK j \in JobIds : j = rjob[r].id
    BY <1>16, RequeuePutBackMoves
  <2>2. row[j] # "absent"
    BY <1>16, <2>1, RequeuePutBackMoves, PlacedHasRow
  <2>3. \A i \in JobIds \ {j} : Undisturbed(i)
    BY <1>a, <1>16, <2>1, RequeuePutBackMoves DEF Undisturbed, deliveryVars
  <2> QED
    BY <1>16, <2>1, <2>2, <2>3, RequeuePutBackMoves, RowKeeps
<1>17. ASSUME Drain, UNCHANGED deliveryVars PROVE RowsAgree'
  BY <1>a, <1>17, DrainMoves, NothingDisturbed DEF Undisturbed, deliveryVars
<1>18. ASSUME DeliveryShutdown PROVE RowsAgree'
  <2>1. Shutdown /\ UNCHANGED deliveryVars
    BY <1>18 DEF DeliveryShutdown, Shutdown
  <2> QED
    BY <1>a, <2>1, ShutdownMoves, NothingDisturbed DEF Undisturbed, deliveryVars
<1>19. CASE UNCHANGED allVars
  <2>1. UNCHANGED vars /\ UNCHANGED deliveryVars
    BY <1>19 DEF allVars
  <2>2. /\ Queued' = Queued /\ Handled' = Handled /\ Waiting' = Waiting /\ Dead' = Dead
        /\ Held' = Held /\ completed' = completed /\ dropped' = dropped
        /\ \A i \in JobIds : New(i)' <=> New(i)
    BY <2>1, QueueSame, HandledSame, WaitingSame, DeadSame, HeldSame, GoneSame
       DEF vars, workerVars, deadVars, requestVars, historyVars, New
  <2> QED
    BY <1>a, <2>1, <2>2, NothingDisturbed DEF Undisturbed, deliveryVars
<1> QED
  BY <1>1, <1>2, <1>3, <1>4, <1>5, <1>6, <1>7, <1>8, <1>9, <1>10, <1>11, <1>12, <1>13, <1>14,
     <1>15, <1>16, <1>17, <1>18, <1>19
     DEF DeliveryNext, DeliveryWorker, DeliveryTimer, DeliveryRequeue, TimerFires, RequeueStep

(* No row and no job at first. *)
LEMMA InitRows == DeliveryInit => RowsAgree
<1> SUFFICES ASSUME DeliveryInit PROVE RowsAgree
  OBVIOUS
<1>1. Queued = {} /\ Handled = {} /\ Waiting = {} /\ Dead = {} /\ Held = {}
  BY EmptySeq DEF DeliveryInit, Init, Queued, Handled, Waiting, Dead, Held, Ids
<1> QED
  BY <1>1 DEF DeliveryInit, Init, RowsAgree, Announced, New

(* The three parts of the invariant of deliveries, on top of the pool's. *)
LEMMA DeliveryInvariant ==
    DeliverySpec => [](TypeOK /\ Control /\ Placed /\ DeliveryTypes /\ Answered /\ RowsAgree)
<1>1. DeliveryInit => DeliveryTypes /\ Answered /\ RowsAgree
  BY InitDelivery, InitRows
<1>2. DeliverySpec => [](TypeOK /\ Control)
  BY DeliveriesUsePool, TypeCorrect, PTL
<1>3. DeliverySpec => []Placed
  BY DeliveriesUsePool, JobsAccounted, PTL DEF Placed
<1>4. TypeOK /\ Control /\ Placed /\ DeliveryTypes /\ Answered /\ RowsAgree
      /\ [DeliveryNext]_allVars
      => DeliveryTypes' /\ Answered' /\ RowsAgree'
  BY DeliveryTypesStep, AnsweredStep, RowsStep
<1> QED
  BY <1>1, <1>2, <1>3, <1>4, PTL DEF DeliverySpec

(* While the service runs, what an operator reads in the row of a delivery *)
(* is where its job is, unless the UPDATE failed.                          *)
THEOREM RowsAgreeWithPool == DeliverySpec => []RowAgreesWithPool
<1>1. Placed /\ RowsAgree => RowAgreesWithPool
  <2> SUFFICES ASSUME Placed, RowsAgree, NEW j \in JobIds \ missed
               PROVE  /\ row[j] = "delivered" <=> j \in completed
                      /\ j \in Dead \cup Held => row[j] = "failed"
                      /\ row[j] = "failed" => j \in Dead \cup Held \cup Queued \cup Handled
                      /\ row[j] = "retrying" =>
                            j \in Waiting \cup Queued \cup Handled \cup dropped
                      /\ row[j] = "absent" => j \notin Anywhere
    BY DEF RowAgreesWithPool
  <2>1. Announced(j)
    BY DEF RowsAgree
  <2>2. row[j] = "absent" => j \notin Anywhere
    BY PlacedHasRow
  <2> QED
    BY <2>1, <2>2 DEF Announced
<1> QED
  BY <1>1, DeliveryInvariant, PTL

(* A step that writes the row of a job is one of the worker that handles it, *)
(* and a delivered job is at no worker.                                      *)
LEMMA DeliveredRowStays ==
    ASSUME Placed, Control, TypeOK, DeliveryTypes, Answered, RowsAgree,
           [DeliveryNext]_allVars, NEW j \in JobIds, row[j] = "delivered"
    PROVE  acks[j] = 1 /\ row'[j] = "delivered"
<1>1. j \in completed
  BY DEF RowsAgree, Announced
<1>2. acks[j] = 1
  BY <1>1 DEF Answered
<1>3. j \notin Handled
  BY <1>1 DEF Placed, AtMostOnce, PlacesDisjoint, Gone
<1>4. ASSUME NEW i \in JobIds, Dispatch(i) \/ Replay(i) PROVE row'[j] = "delivered"
  BY <1>4 DEF Dispatch, Replay, CreateRow, DeliveryTypes
<1>5. ASSUME NEW w \in Workers, DeliverSucceeds(w) \/ DeliverFails(w)
      PROVE  row'[j] = "delivered"
  <2>1. wphase[w] = "handling"
    BY <1>5 DEF DeliverSucceeds, DeliverFails, HandlerSucceeds, HandlerBuries,
                HandlerRetries, TurnOver
  <2>2. wjob[w].id # j
    BY <1>3, <2>1 DEF Handled
  <2> QED
    BY <1>5, <2>2 DEF DeliverSucceeds, DeliverFails, UpdateRow, DeliveryTypes
<1>6. ASSUME UNCHANGED row PROVE row'[j] = "delivered"
  BY <1>6
<1>7. CASE UNCHANGED allVars
  <2>1. UNCHANGED deliveryVars
    BY <1>7 DEF allVars
  <2> QED
    BY <1>2, <1>6, <2>1 DEF deliveryVars
<1> QED
  BY <1>2, <1>4, <1>5, <1>6, <1>7
     DEF DeliveryNext, EnqueueDelivery, DeliveryWorker, PostAnswered, DeliveryTimer,
         DeliveryRequeue, DeliveryShutdown, deliveryVars

(* Nothing overwrites the verdict of a delivery that was acknowledged. *)
THEOREM DeliveredRowFinal == DeliverySpec => DeliveredIsFinal
<1>1. /\ TypeOK /\ Control /\ Placed /\ DeliveryTypes /\ Answered /\ RowsAgree
      /\ [DeliveryNext]_allVars
      => [\A j \in JobIds :
            row[j] = "delivered" => acks[j] = 1 /\ row'[j] = "delivered"]_allVars
  BY DeliveredRowStays
<1> QED
  BY <1>1, DeliveryInvariant, PTL DEF DeliverySpec, DeliveredIsFinal
=============================================================================
