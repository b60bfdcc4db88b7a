--------------------------- MODULE WebhookDelivery ---------------------------
(***************************************************************************)
(* Webhook deliveries: the dispatcher of internal/webhook, the replay of   *)
(* internal/usecase/webhook.go, the rows of webhook_deliveries and the     *)
(* worker pool that carries them (Pool.tla, whose actions are extended).   *)
(*                                                                         *)
(* A job id is the id of a delivery row, created before the job is         *)
(* enqueued.  The job's handler is Deliver: one POST, then one UPDATE of   *)
(* the row.  The body, the signature and the attempts column are left out, *)
(* and buildRequest, which cannot fail for a registered webhook.           *)
(***************************************************************************)
EXTENDS Pool

CONSTANT Replays   \* the ids that ReplayDelivery creates; others are dispatched

ASSUME DeliveryAssumption == Replays \subseteq JobIds

VARIABLES
    row,        \* [JobIds -> RowStatus]: status of the delivery row
    entering,   \* ids whose row exists and whose Enqueue is about to run
    answer,     \* [Workers -> Answer]: what the POST of a worker returned
    acks,       \* history, [JobIds -> Nat]: 2xx answers of the endpoint
    missed      \* history: rows whose latest UPDATE failed

RowStatus == {"absent", "queued", "replayed", "retrying", "delivered", "failed"}
Answer == {"none", "ok", "error"}
Events == JobIds \ Replays

deliveryVars == <<row, entering, answer, acks, missed>>
allVars == <<vars, deliveryVars>>

DeliveryInit ==
    /\ Init
    /\ row = [j \in JobIds |-> "absent"]
    /\ entering = {}
    /\ answer = [w \in Workers |-> "none"]
    /\ acks = [j \in JobIds |-> 0]
    /\ missed = {}
-----------------------------------------------------------------------------
(* CreateDelivery, when it succeeds: on an error nothing else happens.     *)

CreateRow(j, status) ==
    /\ row[j] = "absent"
    /\ row' = [row EXCEPT ![j] = status]
    /\ entering' = entering \cup {j}
    /\ UNCHANGED <<vars, answer, acks, missed>>

(* dispatch: the dispatcher is one goroutine, so one event at a time.  Its *)
(* context is cancelled when the shutdown begins, and the INSERT then fails. *)
Dispatch(j) ==
    /\ phase = "serving"
    /\ j \in Events
    /\ entering \cap Events = {}
    /\ CreateRow(j, "queued")

(* ReplayDelivery, for any delivery that exists, whatever its status. *)
Replay(j) ==
    /\ RequestsRun
    /\ j \in Replays
    /\ \E source \in JobIds : row[source] # "absent"
    /\ CreateRow(j, "replayed")

(* p.Enqueue(...), whose result both callers ignore. *)
EnqueueDelivery(j) ==
    /\ j \in entering
    /\ Submit(j)
    /\ entering' = entering \ {j}
    /\ UNCHANGED <<row, answer, acks, missed>>
-----------------------------------------------------------------------------
(* Deliver.                                                                *)

(* The POST is answered.  Its context is cancelled when shutdown begins, so *)
(* from then on it can only fail.                                           *)
PostAnswered(w) ==
    /\ Alive
    /\ wphase[w] = "handling"
    /\ answer[w] = "none"
    /\ \/ /\ phase = "serving"
          /\ answer' = [answer EXCEPT ![w] = "ok"]
          /\ acks' = [acks EXCEPT ![wjob[w].id] = @ + 1]
       \/ /\ answer' = [answer EXCEPT ![w] = "error"]
          /\ acks' = acks
    /\ UNCHANGED <<vars, row, entering, missed>>

(* Variant: the UPDATE applies to rows that are still queued. *)
UpdateRowOnce(j, status) ==
    /\ row' = IF row[j] \in {"queued", "replayed"}
              THEN [row EXCEPT ![j] = status] ELSE row
    /\ missed' = missed \ {j}

(* UpdateDeliveryAttempt: its error is ignored.  It may fail at any time,  *)
(* and does once the context is cancelled.                                 *)
UpdateRow(j, status) ==
    \/ /\ phase = "serving"
       /\ row' = [row EXCEPT ![j] = status]
       /\ missed' = missed \ {j}
    \/ /\ row' = row
       /\ missed' = missed \cup {j}

(* Variant: the last attempt is not told apart.                              *)
AfterFailureRetrying(attempt) == "retrying"

AfterFailure(attempt) == IF attempt < MaxRetries THEN "retrying" ELSE "failed"

(* Variant: the error of the UPDATE is returned to the pool. *)
DeliverReportsDbError(w) ==
    /\ answer[w] = "ok"
    /\ \/ /\ row' = [row EXCEPT ![wjob[w].id] = "delivered"]
          /\ HandlerSucceeds(w)
       \/ /\ row' = row
          /\ HandlerBuries(w) \/ HandlerRetries(w)
    /\ missed' = missed
    /\ answer' = [answer EXCEPT ![w] = "none"]
    /\ UNCHANGED <<entering, acks>>

DeliverSucceeds(w) ==
    /\ answer[w] = "ok"
    /\ UpdateRow(wjob[w].id, "delivered")
    /\ HandlerSucceeds(w)
    /\ answer' = [answer EXCEPT ![w] = "none"]
    /\ UNCHANGED <<entering, acks>>

(* Variant: delivered is written before the status code is looked at. *)
DeliverFailsOptimistic(w) ==
    /\ answer[w] = "error"
    /\ UpdateRow(wjob[w].id, "delivered")
    /\ HandlerBuries(w) \/ HandlerRetries(w)
    /\ answer' = [answer EXCEPT ![w] = "none"]
    /\ UNCHANGED <<entering, acks>>

DeliverFails(w) ==
    /\ answer[w] = "error"
    /\ UpdateRow(wjob[w].id, AfterFailure(wjob[w].attempt))
    /\ HandlerBuries(w) \/ HandlerRetries(w)
    /\ answer' = [answer EXCEPT ![w] = "none"]
    /\ UNCHANGED <<entering, acks>>
-----------------------------------------------------------------------------
(* The steps of the pool that do not concern deliveries.                   *)

DeliveryWorker(w) ==
    \/ PostAnswered(w)
    \/ DeliverSucceeds(w)
    \/ DeliverFails(w)
    \/ /\ Take(w) \/ LogDead(w) \/ WorkerExits(w)
       /\ UNCHANGED deliveryVars

DeliveryTimer(j) ==
    \E job \in timers : job.id = j /\ TimerFires(job) /\ UNCHANGED deliveryVars
DeliveryRequeue(r) == RequeueStep(r) /\ UNCHANGED deliveryVars

(* server.Shutdown also waits for the requests that replay. *)
DeliveryShutdown ==
    \/ HttpShutdown /\ entering \cap Replays = {} /\ UNCHANGED deliveryVars
    \/ /\ Cancel \/ RunFails \/ CloseJobs \/ WorkersJoined \/ ProcessExit
       /\ UNCHANGED deliveryVars

DeliveryNext ==
    \/ \E j \in JobIds :
          Dispatch(j) \/ Replay(j) \/ EnqueueDelivery(j) \/ DeliveryTimer(j)
    \/ \E w \in Workers : DeliveryWorker(w)
    \/ Drain /\ UNCHANGED deliveryVars
    \/ \E r \in Requesters :
          \/ DeliveryRequeue(r)
          \/ \E j \in JobIds : RequeueTake(r, j) /\ UNCHANGED deliveryVars
    \/ DeliveryShutdown

DeliverySpec == DeliveryInit /\ [][DeliveryNext]_allVars

(* As Pool!FairSpec: the goroutines that have something to do run; the     *)
(* POST is answered because the client has a timeout.                      *)
DeliveryFairSpec ==
    /\ DeliverySpec
    /\ \A j \in JobIds : WF_allVars(EnqueueDelivery(j)) /\ WF_allVars(DeliveryTimer(j))
    /\ \A w \in Workers : WF_allVars(DeliveryWorker(w))
    /\ \A r \in Requesters : WF_allVars(DeliveryRequeue(r))
-----------------------------------------------------------------------------
(* A delivery is acknowledged by its endpoint at most once: after a 2xx no *)
(* retry, requeue or shutdown makes the pool POST that delivery again,     *)
(* even when recording the success failed.                                 *)
AckedAtMostOnce == \A j \in JobIds : acks[j] <= 1

(* A row that says delivered was acknowledged and says so for ever: no     *)
(* late write of an earlier attempt, of a requeue or of the creator of the *)
(* row replaces it.                                                        *)
DeliveredIsFinal ==
    [][\A j \in JobIds :
          row[j] = "delivered" => acks[j] = 1 /\ row'[j] = "delivered"]_allVars

(* While the service runs the row of a delivery, unless its latest UPDATE  *)
(* failed, agrees with the pool: it says delivered just when the job is    *)
(* done, failed for every dead letter and until a requeued one is tried,   *)
(* and retrying only while a retry is due, unless that retry was dropped.  *)
RowAgreesWithPool ==
    phase = "serving" =>
       \A j \in JobIds \ missed :
          /\ row[j] = "delivered" <=> j \in completed
          /\ j \in Dead \cup Held => row[j] = "failed"
          /\ row[j] = "failed" => j \in Dead \cup Held \cup Queued \cup Handled
          /\ row[j] = "retrying" => j \in Waiting \cup Queued \cup Handled \cup dropped
          /\ row[j] = "absent" => j \notin Anywhere

(* While the service runs, a row that was created gets its verdict, unless *)
(* the queue dropped its job or its UPDATE failed.                         *)
DeliverySettles ==
    \A j \in JobIds :
       row[j] # "absent" ~>
          (row[j] \in {"delivered", "failed"} \/ j \in dropped \cup missed \/ phase # "serving")
=============================================================================
