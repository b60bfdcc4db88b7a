----------------------------- MODULE MCEventBus -----------------------------
(* Model-checking instance of EventBus.                                    *)
EXTENDS EventBus, TLC

Symmetric == Permutations(TenantSubs) \cup Permutations(AllSubs) \cup Permutations(Events)

(* The view: states that differ only in what nothing reads any more are one. *)
(* Of a list that Publish goes through, the rest counts; it is read through  *)
(* its header only while it lies in the array of the tenant's list, for no   *)
(* other array is ever written again.                                        *)
ReadsShared(e) == chans[e].array = subs.array /\ next[e] < chans[e].len
Rest(e) ==
    IF ReadsShared(e)
    THEN <<next[e], chans[e].len, allChans[e]>>
    ELSE [k \in 1 .. Sends(e) - next[e] |->
             LET n == next[e] + k IN
                IF n <= chans[e].len THEN Element(chans[e], n)
                ELSE allChans[e][n - chans[e].len]]

(* Of a closed channel neither the buffer nor the history counts. *)
Buffered(s) == IF status[s] = "closed" THEN 0 ELSE channel[s]
History(s, e) ==
    IF status[s] = "closed" THEN <<>>
    ELSE <<got[s][e], <<s, e>> \in skipped, s \in audience[e]>>

Observed ==
    <<IF subs.array = 0 THEN <<>> ELSE arrays[subs.array], subs.len, allSubs, status,
      publication, [e \in Events |-> Rest(e)], [s \in Subs |-> Buffered(s)],
      [s \in AllSubs, e \in Events |-> History(s, e)]>>
=============================================================================
