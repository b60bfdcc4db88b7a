------------------------------ MODULE Campaign ------------------------------
(***************************************************************************)
(* Campaigns: Create, Run and RunDue of internal/usecase/campaign.go over  *)
(* the tables of internal/repository/campaign.go, the scheduler of         *)
(* internal/app/app.go and the requests that run a campaign by hand.       *)
(*                                                                         *)
(* Run does not look at the status it finds, so any number of runs of one  *)
(* campaign may overlap.  Resolving a contact, the plan's limit and the    *)
(* WhatsApp send are one step whose result is free.  Recipients never      *)
(* change after Create; every campaign has the same ones here.             *)
(***************************************************************************)
EXTENDS Naturals, FiniteSets, Sequences

CONSTANTS Campaigns,
          Recipients,   \* the rows of each campaign
          Callers,      \* HTTP requests, one after the other on each
          Scheduler,    \* the goroutine of runCampaignScheduler
          None,         \* no campaign, no recipient
          MaxRuns       \* bound: no run by hand is asked for after that many runs

Runners == Callers \cup {Scheduler}

ASSUME CampaignAssumption ==
    /\ IsFiniteSet(Recipients) /\ Recipients # {}
    /\ Scheduler \notin Callers
    /\ None \notin Campaigns \cup Recipients
    /\ MaxRuns \in Nat \ {0}

VARIABLES
    status,      \* [Campaigns -> Status]: campaigns.status
    sentCount,   \* [Campaigns -> Nat]: campaigns.sent_count
    failedCount, \* [Campaigns -> Nat]: campaigns.failed_count
    row,         \* [Campaigns -> [Recipients -> RowStatus]]: campaign_recipients
    due,         \* SUBSET Campaigns: scheduled_at has passed
    pc,          \* [Runners -> Step]: where each runner is in Run
    campaign,    \* [Runners -> Campaigns or None]: the argument of Run
    todo,        \* [Runners -> SUBSET Recipients]: what the loop has left
    current,     \* [Runners -> Recipients or None]: the loop's recipient
    sent,        \* [Runners -> Nat]: sentCount, local
    failed,      \* [Runners -> Nat]: failedCount, local
    listed,      \* SUBSET Campaigns: what ListDue returned, not run yet
    sends,       \* history, [Campaigns -> [Recipients -> Nat]]: messages sent
    tried,       \* history, [Campaigns -> SUBSET Recipients]: loop bodies done
    runs,        \* history, [Campaigns -> Nat]: runs begun
    scheduledRuns,\* history, [Campaigns -> Nat]: those of the scheduler
    faulted      \* history, SUBSET Campaigns: something failed in a run of it

tableVars == <<status, sentCount, failedCount, row>>
loopVars == <<todo, current, sent, failed>>
runVars == <<pc, campaign, loopVars>>
historyVars == <<sends, tried, runs, scheduledRuns, faulted>>
vars == <<tableVars, due, runVars, listed, historyVars>>

Status == {"none", "draft", "scheduled", "running", "completed", "failed"}
RowStatus == {"pending", "sent", "failed"}
Step == {"idle", "starting", "loop", "sent", "failed", "counters", "finish"}

NobodyRuns ==
    /\ pc = [r \in Runners |-> "idle"]
    /\ campaign = [r \in Runners |-> None]
    /\ todo = [r \in Runners |-> {}]
    /\ current = [r \in Runners |-> None]
    /\ sent = [r \in Runners |-> 0]
    /\ failed = [r \in Runners |-> 0]
    /\ listed = {}

Init ==
    /\ status = [c \in Campaigns |-> "none"]
    /\ sentCount = [c \in Campaigns |-> 0]
    /\ failedCount = [c \in Campaigns |-> 0]
    /\ row = [c \in Campaigns |-> [p \in Recipients |-> "pending"]]
    /\ due = {}
    /\ NobodyRuns
    /\ sends = [c \in Campaigns |-> [p \in Recipients |-> 0]]
    /\ tried = [c \in Campaigns |-> {}]
    /\ runs = [c \in Campaigns |-> 0]
    /\ scheduledRuns = [c \in Campaigns |-> 0]
    /\ faulted = {}

At(r, step) == pc[r] = step
GoTo(r, step) == pc' = [pc EXCEPT ![r] = step]

(* The runner leaves Run: its local variables are gone. *)
Leaves(r) ==
    /\ GoTo(r, "idle")
    /\ campaign' = [campaign EXCEPT ![r] = None]
    /\ todo' = [todo EXCEPT ![r] = {}]
    /\ current' = [current EXCEPT ![r] = None]
    /\ sent' = [sent EXCEPT ![r] = 0]
    /\ failed' = [failed EXCEPT ![r] = 0]
-----------------------------------------------------------------------------
(* Who calls Run.                                                          *)

Calls(r, c) ==
    /\ At(r, "idle")
    /\ GoTo(r, "starting")
    /\ campaign' = [campaign EXCEPT ![r] = c]
    /\ UNCHANGED loopVars

(* Create inserts a campaign and its recipients in one transaction. *)
CreateScheduled(c) ==
    /\ status[c] = "none"
    /\ status' = [status EXCEPT ![c] = "scheduled"]
    /\ UNCHANGED <<sentCount, failedCount, row, due, runVars, listed, historyVars>>

(* Without scheduled_at the same request runs it at once. *)
CreateImmediate(r, c) ==
    /\ status[c] = "none"
    /\ status' = [status EXCEPT ![c] = "draft"]
    /\ Calls(r, c)
    /\ UNCHANGED <<sentCount, failedCount, row, due, listed, historyVars>>

(* POST /campaigns/{id}/run, whatever the status of the campaign. *)
RunByHand(r, c) ==
    /\ status[c] # "none"
    /\ runs[c] < MaxRuns
    /\ Calls(r, c)
    /\ UNCHANGED <<tableVars, due, listed, historyVars>>

TimeComes(c) ==
    /\ status[c] = "scheduled"
    /\ c \notin due
    /\ due' = due \cup {c}
    /\ UNCHANGED <<tableVars, runVars, listed, historyVars>>

(* Variant: ListDue does not look at the status. *)
DueAnyStatus == {c \in Campaigns : status[c] # "none" /\ c \in due}

(* Variant: ListDue asks for drafts. *)
DueDraft == {c \in Campaigns : status[c] = "draft" /\ c \in due}

(* The WHERE clause of ListDue. *)
Due == {c \in Campaigns : status[c] = "scheduled" /\ c \in due}

(* A tick of the scheduler: RunDue reads the list once. *)
Tick ==
    /\ At(Scheduler, "idle")
    /\ listed = {}
    /\ Due # {}
    /\ listed' = Due
    /\ UNCHANGED <<tableVars, due, runVars, historyVars>>

(* The next campaign of the list, not read again. *)
RunListed(c) ==
    /\ c \in listed
    /\ listed' = listed \ {c}
    /\ Calls(Scheduler, c)
    /\ UNCHANGED <<tableVars, due, historyVars>>
-----------------------------------------------------------------------------
(* Run.                                                                    *)

(* GetByID, ListRecipients and UpdateStatus(running): what the first two    *)
(* read is not used to decide, and never changes.                           *)
Begin(r) ==
    LET c == campaign[r] IN
    /\ At(r, "starting")
    /\ GoTo(r, "loop")
    /\ status' = [status EXCEPT ![c] = "running"]
    /\ todo' = [todo EXCEPT ![r] = Recipients]
    /\ runs' = [runs EXCEPT ![c] = @ + 1]
    /\ scheduledRuns' = IF r = Scheduler THEN [scheduledRuns EXCEPT ![c] = @ + 1]
                        ELSE scheduledRuns
    /\ UNCHANGED <<sentCount, failedCount, row, due, campaign, current, sent, failed,
                   listed, sends, tried, faulted>>

(* The message goes out. *)
SendSucceeds(r, p) ==
    /\ At(r, "loop")
    /\ p \in todo[r]
    /\ GoTo(r, "sent")
    /\ current' = [current EXCEPT ![r] = p]
    /\ todo' = [todo EXCEPT ![r] = @ \ {p}]
    /\ sent' = [sent EXCEPT ![r] = @ + 1]
    /\ sends' = [sends EXCEPT ![campaign[r]][p] = @ + 1]
    /\ UNCHANGED <<tableVars, due, campaign, failed, listed, tried, runs,
                   scheduledRuns, faulted>>

(* No such contact, no connection, limit reached... *)
SendFails(r, p) ==
    /\ At(r, "loop")
    /\ p \in todo[r]
    /\ GoTo(r, "failed")
    /\ current' = [current EXCEPT ![r] = p]
    /\ todo' = [todo EXCEPT ![r] = @ \ {p}]
    /\ failed' = [failed EXCEPT ![r] = @ + 1]
    /\ UNCHANGED <<tableVars, due, campaign, sent, listed, historyVars>>

(* Variant: a failed send ends the loop: break for continue. *)
RecordBreaks(r) ==
    LET c == campaign[r]  p == current[r] IN
    /\ At(r, "sent") \/ At(r, "failed")
    /\ row' = [row EXCEPT ![c][p] = pc[r]]
    /\ todo' = [todo EXCEPT ![r] = IF At(r, "failed") THEN {} ELSE @]
    /\ GoTo(r, "loop")
    /\ current' = [current EXCEPT ![r] = None]
    /\ tried' = [tried EXCEPT ![c] = @ \cup {p}]
    /\ UNCHANGED <<status, sentCount, failedCount, due, campaign, sent, failed,
                   listed, sends, runs, scheduledRuns, faulted>>

(* Variant: the recipient is taken up again when its result is not stored. *)
RecordAgain(r) ==
    LET c == campaign[r]  p == current[r] IN
    /\ At(r, "sent") \/ At(r, "failed")
    /\ \/ /\ row' = [row EXCEPT ![c][p] = pc[r]]
          /\ UNCHANGED <<todo, faulted>>
       \/ /\ row' = row
          /\ todo' = [todo EXCEPT ![r] = @ \cup {p}]
          /\ faulted' = faulted \cup {c}
    /\ GoTo(r, "loop")
    /\ current' = [current EXCEPT ![r] = None]
    /\ tried' = [tried EXCEPT ![c] = @ \cup {p}]
    /\ UNCHANGED <<status, sentCount, failedCount, due, campaign, sent, failed,
                   listed, sends, runs, scheduledRuns>>

(* UpdateRecipientResult, whose error is ignored. *)
Record(r) ==
    LET c == campaign[r]  p == current[r] IN
    /\ At(r, "sent") \/ At(r, "failed")
    /\ \/ row' = [row EXCEPT ![c][p] = pc[r]] /\ faulted' = faulted
       \/ row' = row /\ faulted' = faulted \cup {c}
    /\ GoTo(r, "loop")
    /\ current' = [current EXCEPT ![r] = None]
    /\ tried' = [tried EXCEPT ![c] = @ \cup {p}]
    /\ UNCHANGED <<status, sentCount, failedCount, due, campaign, todo, sent, failed,
                   listed, sends, runs, scheduledRuns>>

EndLoop(r) ==
    /\ At(r, "loop")
    /\ todo[r] = {}
    /\ GoTo(r, "counters")
    /\ UNCHANGED <<tableVars, due, campaign, loopVars, listed, historyVars>>

UpdateCounters(r) ==
    LET c == campaign[r] IN
    /\ At(r, "counters")
    /\ GoTo(r, "finish")
    /\ sentCount' = [sentCount EXCEPT ![c] = sent[r]]
    /\ failedCount' = [failedCount EXCEPT ![c] = failed[r]]
    /\ UNCHANGED <<status, row, due, campaign, loopVars, listed, historyVars>>

(* Variant: the status of a run in which every send failed is left as it is. *)
FinishOnce(r) ==
    LET c == campaign[r] IN
    /\ At(r, "finish")
    /\ Leaves(r)
    /\ status' = IF sent[r] > 0 THEN [status EXCEPT ![c] = "completed"] ELSE status
    /\ UNCHANGED <<sentCount, failedCount, row, due, listed, historyVars>>

(* UpdateStatus(completed or failed): Create refuses an empty campaign. *)
Finish(r) ==
    LET c == campaign[r] IN
    /\ At(r, "finish")
    /\ Leaves(r)
    /\ status' = [status EXCEPT ![c] = IF sent[r] = 0 /\ failed[r] > 0
                                       THEN "failed" ELSE "completed"]
    /\ UNCHANGED <<sentCount, failedCount, row, due, listed, historyVars>>

(* A database call fails, or the request is cancelled because its client    *)
(* left: Run returns the error, or goes through the rest with every call    *)
(* failing and returns then.  Nothing more is stored.                       *)
Abort(r) ==
    /\ pc[r] # "idle"
    /\ Leaves(r)
    /\ faulted' = faulted \cup {campaign[r]}
    /\ UNCHANGED <<tableVars, due, listed, sends, tried, runs, scheduledRuns>>

(* The process ends, in whatever way, and starts again. *)
Restart ==
    /\ \E r \in Runners : pc[r] # "idle"
    /\ pc' = [r \in Runners |-> "idle"]
    /\ campaign' = [r \in Runners |-> None]
    /\ todo' = [r \in Runners |-> {}]
    /\ current' = [r \in Runners |-> None]
    /\ sent' = [r \in Runners |-> 0]
    /\ failed' = [r \in Runners |-> 0]
    /\ listed' = {}
    /\ faulted' = faulted \cup {campaign[r] : r \in {q \in Runners : pc[q] # "idle"}}
    /\ UNCHANGED <<tableVars, due, sends, tried, runs, scheduledRuns>>
-----------------------------------------------------------------------------
RunStep(r) ==
    \/ Begin(r)
    \/ \E p \in Recipients : SendSucceeds(r, p) \/ SendFails(r, p)
    \/ Record(r) \/ EndLoop(r) \/ UpdateCounters(r) \/ Finish(r)

SchedulerStep == Tick \/ (\E c \in Campaigns : RunListed(c)) \/ RunStep(Scheduler)

Next ==
    \/ \E c \in Campaigns : CreateScheduled(c) \/ TimeComes(c)
    \/ \E r \in Callers, c \in Campaigns : CreateImmediate(r, c) \/ RunByHand(r, c)
    \/ \E r \in Callers : RunStep(r)
    \/ SchedulerStep
    \/ \E r \in Runners : Abort(r)
    \/ Restart

Spec == Init /\ [][Next]_vars

(* The scheduler's ticker goes on and every call it makes returns; so do   *)
(* those of the requests.  Nobody has to create or run a campaign.         *)
FairSpec ==
    /\ Spec
    /\ WF_vars(SchedulerStep)
    /\ \A r \in Callers : WF_vars(RunStep(r))
-----------------------------------------------------------------------------
(* The scheduler begins a campaign at most once, although it works on a    *)
(* list read earlier, other runs change the status meanwhile, and the      *)
(* process may restart anywhere.                                           *)
ScheduledOnce == \A c \in Campaigns : scheduledRuns[c] <= 1

(* A recipient gets no more messages than times its campaign was run: a    *)
(* failure to store a result never repeats a send within a run.            *)
OneSendPerRun == \A c \in Campaigns, p \in Recipients : sends[c][p] <= runs[c]

(* A campaign that shows a final status has tried all its recipients, and  *)
(* its two counters account for each of them exactly once, however many    *)
(* runs overlapped, failed or were cut short.                              *)
FinalMeansTried ==
    \A c \in Campaigns :
       status[c] \in {"completed", "failed"} =>
          /\ tried[c] = Recipients
          /\ sentCount[c] + failedCount[c] = Cardinality(Recipients)

(* The stored results lag only behind runs that go on: once a campaign in   *)
(* which nothing failed has a final status, every recipient shows a result, *)
(* and no recipient that was never reached shows as sent.                   *)
RowsSettled ==
    \A c \in Campaigns, p \in Recipients :
       /\ status[c] \in {"completed", "failed"} /\ c \notin faulted => row[c][p] # "pending"
       /\ row[c][p] = "sent" => sends[c][p] > 0

(* While nothing fails in it, a scheduled campaign whose time has come is   *)
(* run, and a campaign that is running comes to a final status.             *)
DueIsRun == \A c \in Campaigns : c \in due ~> status[c] # "scheduled" \/ c \in faulted
RunningEnds ==
    \A c \in Campaigns :
       status[c] = "running" ~> status[c] \in {"completed", "failed"} \/ c \in faulted
=============================================================================
