-------------------------------- MODULE Pool --------------------------------
(***************************************************************************)
(* The worker pool of internal/queue/pool.go, with the shutdown sequence   *)
(* of internal/app/app.go that stops it.                                   *)
(*                                                                         *)
(* Goroutines of the program and their steps here:                         *)
(*   a submitter (webhook dispatcher)      Submit*                         *)
(*   each pool worker                      Take, Handler*, LogDead, Exit   *)
(*   the timer of each time.AfterFunc      TimerFire*                      *)
(*   each HTTP request that requeues       Requeue*                        *)
(*   the dead-letter logger                Drain                           *)
(*   main                                  HttpShutdown .. ProcessExit     *)
(*                                                                         *)
(* A job is its id and its Attempt field: payload, kind and handler never  *)
(* change.  The 50-entry list `recent` is kept as `latest`, the status of  *)
(* the newest entry of each job.                                           *)
(***************************************************************************)
EXTENDS Naturals, Sequences

CONSTANTS JobIds,          \* the jobs that may be submitted
          Workers,         \* the worker goroutines, workerN of them
          Requesters,      \* concurrent requests to requeue a dead letter
          BufferSize,      \* capacity of the jobs channel
          MaxRetries,      \* maxRetries (WEBHOOK_RETRIES)
          DeadRecentCap,   \* entries kept in deadRecent: 25 in the code
          NoJob            \* a worker or requester that holds no job

Job == [id : JobIds, attempt : Nat]

ASSUME PoolAssumption ==
    /\ Workers # {}
    /\ BufferSize \in Nat \ {0}
    /\ MaxRetries \in Nat
    /\ DeadRecentCap \in Nat \ {0}
    /\ NoJob \notin Job

VARIABLES
    jobs,           \* Seq(Job): the buffered channel p.jobs
    wphase,         \* [Workers -> WorkerPhase]
    wjob,           \* [Workers -> Job or NoJob]: `working` in process
    timers,         \* SUBSET Job: retries waiting in a time.AfterFunc
    deadStore,      \* SUBSET Job: the values of the map p.deadStore, keyed by id
    deadRecent,     \* Seq(JobIds): ids in p.deadRecent, newest first
    deadLetterLen,  \* entries in the channel p.deadLetter
    rphase,         \* [Requesters -> RequesterPhase]
    rjob,           \* [Requesters -> Job or NoJob]
    latest,         \* [JobIds -> Status]: newest history entry of the job
    phase,          \* how far the process is in its shutdown
    completed,      \* history: jobs whose handler returned nil
    dropped         \* history: jobs whose last Enqueue returned false, unnoticed

workerVars == <<wphase, wjob>>
deadVars == <<deadStore, deadRecent>>
requestVars == <<rphase, rjob>>
historyVars == <<completed, dropped>>
vars == <<jobs, wphase, wjob, timers, deadStore, deadRecent, deadLetterLen,
          rphase, rjob, latest, phase, completed, dropped>>

Status == {"none", "queued", "dropped", "processing", "done", "dead-letter",
           "retrying", "requeued"}
WorkerPhase == {"idle", "handling", "logging", "exited"}
RequesterPhase == {"idle", "taken", "sent", "refused"}
Phase == {"serving", "cancelled", "draining", "closed", "stopped", "exited",
          "panicked"}

TryLimit == IF MaxRetries = 0 THEN 1 ELSE MaxRetries
DeadLetterCap == BufferSize \div 4 + 1

Alive == phase \notin {"exited", "panicked"}

(* Requests already accepted run until server.Shutdown has returned. *)
RequestsRun == phase \in {"serving", "cancelled"}

(* Variant: close(p.jobs) after p.wg.Wait(). *)
JobsClosedLate == phase = "stopped"

JobsClosed == phase \in {"closed", "stopped"}

TypeOK ==
    /\ jobs \in Seq(Job)
    /\ Len(jobs) <= BufferSize
    /\ wphase \in [Workers -> WorkerPhase]
    /\ wjob \in [Workers -> Job \cup {NoJob}]
    /\ timers \subseteq Job
    /\ deadStore \subseteq Job
    /\ deadRecent \in Seq(JobIds)
    /\ deadLetterLen \in 0 .. DeadLetterCap
    /\ rphase \in [Requesters -> RequesterPhase]
    /\ rjob \in [Requesters -> Job \cup {NoJob}]
    /\ latest \in [JobIds -> Status]
    /\ phase \in Phase
    /\ completed \subseteq JobIds
    /\ dropped \subseteq JobIds

Init ==
    /\ jobs = <<>>
    /\ wphase = [w \in Workers |-> "idle"]
    /\ wjob = [w \in Workers |-> NoJob]
    /\ timers = {}
    /\ deadStore = {}
    /\ deadRecent = <<>>
    /\ deadLetterLen = 0
    /\ rphase = [r \in Requesters |-> "idle"]
    /\ rjob = [r \in Requesters |-> NoJob]
    /\ latest = [j \in JobIds |-> "none"]
    /\ phase = "serving"
    /\ completed = {}
    /\ dropped = {}
-----------------------------------------------------------------------------
(* Helpers of the pool.                                                    *)

Ids(S) == {job.id : job \in S}

(* p.deadStore[job.ID] = job *)
Stored(job) == {d \in deadStore : d.id # job.id} \cup {job}

(* Prepend, then cut to the cap: the newest entries are kept. *)
Prepended(s, j) ==
    [k \in 1 .. (IF Len(s) < DeadRecentCap THEN Len(s) + 1 ELSE DeadRecentCap) |->
        IF k = 1 THEN j ELSE s[k - 1]]

(* Remove position i: append(s[:i], s[i+1:]...) *)
WithoutPosition(s, i) ==
    [k \in 1 .. Len(s) - 1 |-> IF k < i THEN s[k] ELSE s[k + 1]]

(* The first position of j in s, and s without the entry found there. *)
FirstOf(s, j) ==
    CHOOSE i \in DOMAIN s : s[i] = j /\ \A k \in DOMAIN s : s[k] = j => i <= k

(* Variant: the id is deleted from the store only. *)
FirstRemovedNot(s, j) == s

FirstRemoved(s, j) ==
    IF \E i \in DOMAIN s : s[i] = j THEN WithoutPosition(s, FirstOf(s, j)) ELSE s

Track(j, status) == latest' = [latest EXCEPT ![j] = status]

(* The two outcomes of Enqueue while p.jobs is open.  The entry `queued`   *)
(* and the send are one step: nobody else touches the job in between.      *)
Accepts(job) ==
    /\ ~JobsClosed
    /\ Len(jobs) < BufferSize
    /\ jobs' = Append(jobs, job)
    /\ Track(job.id, "queued")

Refuses(job) ==
    /\ ~JobsClosed
    /\ Len(jobs) >= BufferSize
    /\ jobs' = jobs
    /\ Track(job.id, "dropped")

(* The third: a send on the closed channel panics, and no goroutine that   *)
(* still runs recovers.  The process is gone with all it held in memory.   *)
SendPanics ==
    /\ JobsClosed
    /\ phase' = "panicked"
    /\ UNCHANGED <<jobs, workerVars, timers, deadVars, deadLetterLen,
                   requestVars, latest, historyVars>>
-----------------------------------------------------------------------------
(* Submitters.  The dispatcher goroutine is never joined: it may call      *)
(* Enqueue at any time until the process ends.                             *)

New(j) == latest[j] = "none"
FreshJob(j) == [id |-> j, attempt |-> 0]

SubmitAccepted(j) ==
    /\ Alive
    /\ New(j)
    /\ Accepts(FreshJob(j))
    /\ UNCHANGED <<workerVars, timers, deadVars, deadLetterLen, requestVars,
                   phase, historyVars>>

SubmitDropped(j) ==
    /\ Alive
    /\ New(j)
    /\ Refuses(FreshJob(j))
    /\ dropped' = dropped \cup {j}
    /\ UNCHANGED <<workerVars, timers, deadVars, deadLetterLen, requestVars,
                   phase, completed>>

SubmitPanics(j) ==
    /\ Alive
    /\ New(j)
    /\ SendPanics
-----------------------------------------------------------------------------
(* Workers.                                                                *)

(* `for job := range p.jobs`, then the first lines of process: the range   *)
(* still hands out what a closed channel buffers.                          *)
Take(w) ==
    /\ Alive
    /\ wphase[w] = "idle"
    /\ jobs # <<>>
    /\ LET job == Head(jobs) IN
          /\ wjob' = [wjob EXCEPT ![w] = [id |-> job.id, attempt |-> job.attempt + 1]]
          /\ Track(job.id, "processing")
    /\ jobs' = Tail(jobs)
    /\ wphase' = [wphase EXCEPT ![w] = "handling"]
    /\ UNCHANGED <<timers, deadVars, deadLetterLen, requestVars, phase, historyVars>>

(* The worker ends its turn on the job it handles and goes to `next`. *)
TurnOver(w, next) ==
    /\ Alive
    /\ wphase[w] = "handling"
    /\ wphase' = [wphase EXCEPT ![w] = next]
    /\ wjob' = [wjob EXCEPT ![w] = NoJob]
    /\ UNCHANGED <<jobs, deadLetterLen, requestVars, phase>>

HandlerSucceeds(w) ==
    /\ TurnOver(w, "idle")
    /\ Track(wjob[w].id, "done")
    /\ completed' = completed \cup {wjob[w].id}
    /\ UNCHANGED <<timers, deadVars, dropped>>

(* Variant: maxRetries counts the retries still allowed, not the attempts. *)
HandlerBuriesEarly(w) ==
    /\ TurnOver(w, "logging")
    /\ wjob[w].attempt + 1 >= MaxRetries
    /\ Track(wjob[w].id, "dead-letter")
    /\ deadStore' = Stored(wjob[w])
    /\ deadRecent' = Prepended(deadRecent, wjob[w].id)
    /\ UNCHANGED <<timers, historyVars>>

(* The last attempt failed: track(working, "dead-letter") stores the job. *)
HandlerBuries(w) ==
    /\ TurnOver(w, "logging")
    /\ wjob[w].attempt >= MaxRetries
    /\ Track(wjob[w].id, "dead-letter")
    /\ deadStore' = Stored(wjob[w])
    /\ deadRecent' = Prepended(deadRecent, wjob[w].id)
    /\ UNCHANGED <<timers, historyVars>>

(* Variant: the retry leaves no entry in the history. *)
HandlerRetriesUntracked(w) ==
    /\ TurnOver(w, "idle")
    /\ wjob[w].attempt < MaxRetries
    /\ timers' = timers \cup {wjob[w]}
    /\ UNCHANGED <<deadVars, latest, historyVars>>

(* An earlier attempt failed: time.AfterFunc will enqueue it again. *)
HandlerRetries(w) ==
    /\ TurnOver(w, "idle")
    /\ wjob[w].attempt < MaxRetries
    /\ Track(wjob[w].id, "retrying")
    /\ timers' = timers \cup {wjob[w]}
    /\ UNCHANGED <<deadVars, historyVars>>

(* The non-blocking send of a copy on p.deadLetter, skipped when it is full. *)
LogDead(w) ==
    /\ Alive
    /\ wphase[w] = "logging"
    /\ wphase' = [wphase EXCEPT ![w] = "idle"]
    /\ deadLetterLen' = IF deadLetterLen < DeadLetterCap
                        THEN deadLetterLen + 1 ELSE deadLetterLen
    /\ UNCHANGED <<jobs, wjob, timers, deadVars, requestVars, latest, phase,
                   historyVars>>

(* Variant: the worker leaves when it finds the channel empty. *)
WorkerExitsEarly(w) ==
    /\ Alive
    /\ wphase[w] = "idle"
    /\ jobs = <<>>
    /\ wphase' = [wphase EXCEPT ![w] = "exited"]
    /\ UNCHANGED <<jobs, wjob, timers, deadVars, deadLetterLen, requestVars,
                   latest, phase, historyVars>>

WorkerExits(w) ==
    /\ Alive
    /\ wphase[w] = "idle"
    /\ JobsClosed
    /\ jobs = <<>>
    /\ wphase' = [wphase EXCEPT ![w] = "exited"]
    /\ UNCHANGED <<jobs, wjob, timers, deadVars, deadLetterLen, requestVars,
                   latest, phase, historyVars>>

(* logDeadLetters only logs what it receives. *)
Drain ==
    /\ Alive
    /\ deadLetterLen > 0
    /\ deadLetterLen' = deadLetterLen - 1
    /\ UNCHANGED <<jobs, workerVars, timers, deadVars, requestVars, latest,
                   phase, historyVars>>
-----------------------------------------------------------------------------
(* Retry timers: the callback of AfterFunc ignores what Enqueue returns.   *)

TimerFireAccepted(job) ==
    /\ Alive
    /\ job \in timers
    /\ Accepts(job)
    /\ timers' = timers \ {job}
    /\ UNCHANGED <<workerVars, deadVars, deadLetterLen, requestVars, phase,
                   historyVars>>

TimerFireDropped(job) ==
    /\ Alive
    /\ job \in timers
    /\ Refuses(job)
    /\ timers' = timers \ {job}
    /\ dropped' = dropped \cup {job.id}
    /\ UNCHANGED <<workerVars, deadVars, deadLetterLen, requestVars, phase,
                   completed>>

TimerFirePanics(job) ==
    /\ Alive
    /\ job \in timers
    /\ SendPanics
-----------------------------------------------------------------------------
(* RequeueDeadLetter, called by HTTP handlers only, which server.Shutdown  *)
(* waits for.  Asking for an id that is not stored changes nothing         *)
(* (ErrQueueJobNotFound).                                                  *)

(* Variant: the job is read from the store and not deleted there. *)
RequeueTakeKeeps(r, j) ==
    /\ RequestsRun
    /\ rphase[r] = "idle"
    /\ j \in Ids(deadStore)
    /\ deadRecent' = FirstRemoved(deadRecent, j)
    /\ rphase' = [rphase EXCEPT ![r] = "taken"]
    /\ rjob' = [rjob EXCEPT ![r] = FreshJob(j)]
    /\ UNCHANGED <<jobs, workerVars, timers, deadStore, deadLetterLen, latest, phase,
                   historyVars>>

(* Variant: job.Attempt is not reset. *)
RequeueTakeCounting(r, j) ==
    /\ RequestsRun
    /\ rphase[r] = "idle"
    /\ \E d \in deadStore :
          /\ d.id = j
          /\ deadStore' = deadStore \ {d}
          /\ rjob' = [rjob EXCEPT ![r] = d]
    /\ deadRecent' = FirstRemoved(deadRecent, j)
    /\ rphase' = [rphase EXCEPT ![r] = "taken"]
    /\ UNCHANGED <<jobs, workerVars, timers, deadLetterLen, latest, phase,
                   historyVars>>

(* The first critical section: the job leaves the store and the list. *)
RequeueTake(r, j) ==
    /\ RequestsRun
    /\ rphase[r] = "idle"
    /\ j \in Ids(deadStore)
    /\ deadStore' = {d \in deadStore : d.id # j}
    /\ deadRecent' = FirstRemoved(deadRecent, j)
    /\ rphase' = [rphase EXCEPT ![r] = "taken"]
    /\ rjob' = [rjob EXCEPT ![r] = FreshJob(j)]
    /\ UNCHANGED <<jobs, workerVars, timers, deadLetterLen, latest, phase,
                   historyVars>>

RequeueAccepted(r) ==
    /\ Alive
    /\ rphase[r] = "taken"
    /\ Accepts(rjob[r])
    /\ rphase' = [rphase EXCEPT ![r] = "sent"]
    /\ UNCHANGED <<workerVars, timers, deadVars, deadLetterLen, rjob, phase,
                   historyVars>>

RequeueRefused(r) ==
    /\ Alive
    /\ rphase[r] = "taken"
    /\ Refuses(rjob[r])
    /\ rphase' = [rphase EXCEPT ![r] = "refused"]
    /\ UNCHANGED <<workerVars, timers, deadVars, deadLetterLen, rjob, phase,
                   historyVars>>

(* track(job, "requeued"), when a worker may already have taken the job. *)
RequeueConfirm(r) ==
    /\ Alive
    /\ rphase[r] = "sent"
    /\ Track(rjob[r].id, "requeued")
    /\ rphase' = [rphase EXCEPT ![r] = "idle"]
    /\ rjob' = [rjob EXCEPT ![r] = NoJob]
    /\ UNCHANGED <<jobs, workerVars, timers, deadVars, deadLetterLen, phase,
                   historyVars>>

(* Variant: a refused requeue only reports ErrConflict. *)
RequeuePutBackForgets(r) ==
    /\ Alive
    /\ rphase[r] = "refused"
    /\ rphase' = [rphase EXCEPT ![r] = "idle"]
    /\ rjob' = [rjob EXCEPT ![r] = NoJob]
    /\ UNCHANGED <<jobs, workerVars, timers, deadVars, deadLetterLen, latest, phase,
                   historyVars>>

(* The second critical section, after which the caller gets ErrConflict. *)
RequeuePutBack(r) ==
    /\ Alive
    /\ rphase[r] = "refused"
    /\ deadStore' = Stored(rjob[r])
    /\ deadRecent' = Prepended(deadRecent, rjob[r].id)
    /\ rphase' = [rphase EXCEPT ![r] = "idle"]
    /\ rjob' = [rjob EXCEPT ![r] = NoJob]
    /\ UNCHANGED <<jobs, workerVars, timers, deadLetterLen, latest, phase,
                   historyVars>>
-----------------------------------------------------------------------------
(* Shutdown: App.Run and Pool.Stop.                                        *)

MoveTo(from, to) ==
    /\ phase = from
    /\ phase' = to
    /\ UNCHANGED <<jobs, workerVars, timers, deadVars, deadLetterLen,
                   requestVars, latest, historyVars>>

(* SIGINT or SIGTERM cancels ctx. *)
Cancel == MoveTo("serving", "cancelled")

(* server.Shutdown returned nil: no request is in flight. *)
HttpShutdown ==
    /\ \A r \in Requesters : rphase[r] = "idle"
    /\ MoveTo("cancelled", "draining")

(* ListenAndServe failed, or server.Shutdown timed out: Run returns without *)
(* stopping the pool, and main exits.                                       *)
RunFails == MoveTo("serving", "exited") \/ MoveTo("cancelled", "exited")

(* Stop: close(p.jobs), then p.wg.Wait() and close(p.deadLetter). *)
CloseJobs == MoveTo("draining", "closed")

(* Variant: Stop does not wait. *)
WorkersJoinedEarly == MoveTo("closed", "stopped")

WorkersJoined ==
    /\ \A w \in Workers : wphase[w] = "exited"
    /\ MoveTo("closed", "stopped")

ProcessExit == MoveTo("stopped", "exited")
-----------------------------------------------------------------------------
Submit(j) == SubmitAccepted(j) \/ SubmitDropped(j) \/ SubmitPanics(j)

WorkerStep(w) ==
    \/ Take(w)
    \/ HandlerSucceeds(w) \/ HandlerBuries(w) \/ HandlerRetries(w)
    \/ LogDead(w)
    \/ WorkerExits(w)

TimerFires(job) ==
    TimerFireAccepted(job) \/ TimerFireDropped(job) \/ TimerFirePanics(job)

RequeueStep(r) ==
    RequeueAccepted(r) \/ RequeueRefused(r) \/ RequeueConfirm(r) \/ RequeuePutBack(r)

Shutdown ==
    \/ Cancel \/ HttpShutdown \/ RunFails
    \/ CloseJobs \/ WorkersJoined \/ ProcessExit

Next ==
    \/ \E j \in JobIds : Submit(j)
    \/ \E w \in Workers : WorkerStep(w)
    \/ Drain
    \/ \E job \in timers : TimerFires(job)
    \/ \E r \in Requesters : RequeueStep(r) \/ \E j \in JobIds : RequeueTake(r, j)
    \/ Shutdown

Spec == Init /\ [][Next]_vars

(* A worker runs whenever it can (a handler returns: its HTTP client has a *)
(* timeout), a timer fires, a request runs to its end, Stop runs to its    *)
(* end.  Nothing makes a client submit, requeue or shut down.              *)
FairSpec ==
    /\ Spec
    /\ \A w \in Workers : WF_vars(WorkerStep(w))
    /\ \A j \in JobIds : WF_vars(\E job \in timers : job.id = j /\ TimerFires(job))
    /\ \A r \in Requesters : WF_vars(RequeueStep(r))
    /\ WF_vars(WorkersJoined)
-----------------------------------------------------------------------------
(* Where a job can be.                                                     *)

Queued == {jobs[i].id : i \in DOMAIN jobs}
Handled == {wjob[w].id : w \in {v \in Workers : wphase[v] = "handling"}}
Waiting == Ids(timers)
Dead == Ids(deadStore)
Held == {rjob[r].id : r \in {q \in Requesters : rphase[q] \in {"taken", "refused"}}}
Gone == completed \cup dropped

Anywhere == Queued \cup Handled \cup Waiting \cup Dead \cup Held \cup Gone

(* The control state hangs together: who holds a job, and what each stage *)
(* of the shutdown has established.  (The part of the inductive invariant *)
(* that every other one rests on.)                                        *)
Control ==
    /\ \A w \in Workers : wphase[w] = "handling" <=> wjob[w] # NoJob
    /\ \A r \in Requesters : rphase[r] = "idle" <=> rjob[r] = NoJob
    /\ \A r \in Requesters : rphase[r] = "sent" => ~New(rjob[r].id)
    /\ phase \in {"draining", "closed", "stopped"} =>
          \A r \in Requesters : rphase[r] = "idle"
    /\ \A w \in Workers : wphase[w] = "exited" =>
          jobs = <<>> /\ ~RequestsRun /\ phase # "draining"
    /\ phase = "stopped" => \A w \in Workers : wphase[w] = "exited"

(* Each place holds a job at most once... *)
QueuedOnce == \A i, k \in DOMAIN jobs : jobs[i].id = jobs[k].id => i = k
HandledOnce ==
    \A v, w \in Workers :
       /\ wphase[v] = "handling"
       /\ wphase[w] = "handling"
       /\ wjob[v].id = wjob[w].id
       => v = w
WaitingOnce == \A s, t \in timers : s.id = t.id => s = t
DeadOnce == \A s, t \in deadStore : s.id = t.id => s = t
HeldOnce ==
    \A q, r \in Requesters :
       /\ rphase[q] \in {"taken", "refused"}
       /\ rphase[r] \in {"taken", "refused"}
       /\ rjob[q].id = rjob[r].id
       => q = r

(* ... and no two places hold the same job. *)
PlacesDisjoint ==
    /\ Queued \cap (Handled \cup Waiting \cup Dead \cup Held \cup Gone) = {}
    /\ Handled \cap (Waiting \cup Dead \cup Held \cup Gone) = {}
    /\ Waiting \cap (Dead \cup Held \cup Gone) = {}
    /\ Dead \cap (Held \cup Gone) = {}
    /\ Held \cap Gone = {}
    /\ completed \cap dropped = {}

(* No copy of a job is made: the channel, the workers, the timers, the     *)
(* dead store and the requests in flight never hold one job twice, so no   *)
(* handler runs twice at once and no delivery is attempted again once it   *)
(* has succeeded.  (Enqueue, process, RequeueDeadLetter pass Job by value.) *)
AtMostOnce ==
    /\ QueuedOnce /\ HandledOnce /\ WaitingOnce /\ DeadOnce /\ HeldOnce
    /\ PlacesDisjoint

(* No job vanishes: from its submission on a job is in the channel, at a   *)
(* worker, waiting for its retry, in the dead store or in the hands of a   *)
(* requeue, unless its end was recorded in the history, done or dropped.   *)
NothingVanishes == \A j \in JobIds : New(j) <=> j \notin Anywhere

(* The handler is never called with an attempt above the limit, whichever  *)
(* mixture of retries and requeues the job went through; a job waiting for *)
(* a retry has used fewer attempts than the limit.  (process's test, the   *)
(* Attempt = 0 of RequeueDeadLetter and of its put-back.)                  *)
AttemptsBounded ==
    /\ \A i \in DOMAIN jobs : jobs[i].attempt < TryLimit
    /\ \A w \in Workers :
          wphase[w] = "handling" => wjob[w].attempt \in 1 .. TryLimit
    /\ \A t \in timers : t.attempt \in 1 .. TryLimit - 1
    /\ \A d \in deadStore : d.attempt \in {0, TryLimit}
    /\ \A r \in Requesters : rphase[r] # "idle" => rjob[r].attempt = 0

(* The list an operator sees (DeadLetters, Snapshot) never shows a job the *)
(* store does not hold, which a requeue would refuse as not found, nor a   *)
(* job twice, although the two are updated by three different functions.   *)
DeadListSound ==
    /\ Len(deadRecent) <= DeadRecentCap
    /\ \A i \in DOMAIN deadRecent : deadRecent[i] \in Dead
    /\ \A i, k \in DOMAIN deadRecent : deadRecent[i] = deadRecent[k] => i = k

(* The newest history entry of a job tells where it is, except between a   *)
(* requeue and the late entry `requeued`, which can come after `done`.     *)
(* A job refused at its requeue shows `dropped` while it is in the store.  *)
HistoryTruthful ==
    \A j \in JobIds :
       /\ latest[j] = "queued" => j \in Queued
       /\ latest[j] = "processing" => j \in Handled
       /\ latest[j] = "retrying" => j \in Waiting
       /\ latest[j] = "dead-letter" => j \in Dead \cup Held
       /\ latest[j] = "done" => j \in completed
       /\ latest[j] = "dropped" => j \in dropped \cup Held \cup Dead

(* Stop returns only when the workers have left and the channel is empty,  *)
(* so no worker sends on the closed channel deadLetter.  (Stop, worker.)   *)
StopJoinsWorkers ==
    phase = "stopped" =>
       /\ jobs = <<>>
       /\ \A w \in Workers : wphase[w] = "exited"

(* While the process lives, a job in the pool's hands reaches an end: done, *)
(* dropped or dead-lettered, the shutdown included.  A dead letter that is *)
(* requeued starts over.  (worker, process, the AfterFunc callbacks.)      *)
JobsSettle ==
    \A j \in JobIds :
       j \in Anywhere ~> (j \in Dead \cup Gone \/ ~Alive)

(* Stop ends once started, whatever is buffered when it closes the channel. *)
StopReturns == phase = "closed" ~> phase \in {"stopped", "exited", "panicked"}

(* The life of each job, seen from outside: JobLifecycle.tla.              *)
JobState ==
    [j \in JobIds |->
       IF New(j) THEN "new"
       ELSE IF j \in Handled THEN "running"
       ELSE IF j \in Dead THEN "dead"
       ELSE IF j \in completed THEN "done"
       ELSE IF j \in dropped THEN "lost"
       ELSE "pending"]

InPlay ==
    {jobs[i] : i \in DOMAIN jobs}
    \cup {wjob[w] : w \in {v \in Workers : wphase[v] = "handling"}}
    \cup timers

JobTries ==
    [j \in JobIds |->
       IF \E job \in InPlay : job.id = j
       THEN (CHOOSE job \in InPlay : job.id = j).attempt
       ELSE 0]

Lifecycle == INSTANCE JobLifecycle
             WITH state <- JobState, tries <- JobTries, up <- Alive

(* The pool gives every job the life JobLifecycle describes: in particular *)
(* it is lost only at its first submission or at a retry, it is buried     *)
(* only after its last attempt, and a requeue starts its count again.      *)
ImplementsLifecycle == Lifecycle!Spec
=============================================================================
