---------------------------- MODULE JobLifecycle ----------------------------
(***************************************************************************)
(* What the worker pool of internal/queue promises about one job, whatever *)
(* the number of workers, the size of the channel and the timing: the life *)
(* of each job is a walk in a small automaton, and the jobs do not         *)
(* interfere.  Pool.tla is shown to implement this module.                 *)
(*                                                                         *)
(*        +--> lost <------+        (Enqueue found the channel full)       *)
(*   new -+--> pending <---+--- failed, tries left                         *)
(*               | ^  ^    |                                               *)
(*               v |  +----+--- dead (requeued, counter back to zero)      *)
(*             running ----+--> done                                       *)
(***************************************************************************)
EXTENDS Naturals

CONSTANTS JobIds,      \* the jobs that clients may submit
          MaxRetries   \* the maxRetries argument of NewPool

VARIABLES state,   \* [JobIds -> State], where each job stands
          tries,   \* [JobIds -> Nat], handler calls in its current round
          up       \* is the process still running?

vars == <<state, tries, up>>

State == {"new", "pending", "running", "done", "lost", "dead"}

(* A job is tried at least once, even with maxRetries = 0. *)
TryLimit == IF MaxRetries = 0 THEN 1 ELSE MaxRetries

TypeOK ==
    /\ state \in [JobIds -> State]
    /\ tries \in [JobIds -> 0 .. TryLimit]
    /\ up \in BOOLEAN

Init ==
    /\ state = [j \in JobIds |-> "new"]
    /\ tries = [j \in JobIds |-> 0]
    /\ up = TRUE

Move(j, from, to) ==
    /\ up
    /\ state[j] = from
    /\ state' = [state EXCEPT ![j] = to]
    /\ up' = up

Accept(j) == Move(j, "new", "pending") /\ tries' = tries
Reject(j) == Move(j, "new", "lost") /\ tries' = tries

(* The only step that calls the handler. *)
Start(j) ==
    /\ Move(j, "pending", "running")
    /\ tries' = [tries EXCEPT ![j] = @ + 1]

Forget(j) == tries' = [tries EXCEPT ![j] = 0]

Succeed(j) == Move(j, "running", "done") /\ Forget(j)
Retry(j) == tries[j] < MaxRetries /\ Move(j, "running", "pending") /\ tries' = tries
Bury(j) == tries[j] >= MaxRetries /\ Move(j, "running", "dead") /\ Forget(j)

(* Only a retry is ever lost once accepted, when it finds the channel full. *)
GiveUp(j) == tries[j] > 0 /\ Move(j, "pending", "lost") /\ Forget(j)

Revive(j) == Move(j, "dead", "pending") /\ tries' = tries

(* A requeue that found the channel full puts the job back where it was. *)
PutBack(j) == tries[j] = 0 /\ Move(j, "pending", "dead") /\ tries' = tries

Halt ==
    /\ up
    /\ up' = FALSE
    /\ UNCHANGED <<state, tries>>

Next ==
    \/ \E j \in JobIds :
          \/ Accept(j) \/ Reject(j) \/ Start(j) \/ Succeed(j) \/ Retry(j)
          \/ Bury(j) \/ GiveUp(j) \/ Revive(j) \/ PutBack(j)
    \/ Halt

Spec == Init /\ [][Next]_vars
=============================================================================
