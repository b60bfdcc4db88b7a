------------------------------ MODULE EventBus ------------------------------
(***************************************************************************)
(* The in-process publish/subscribe bus of internal/events/bus.go, for the *)
(* subscribers of one tenant and those of all tenants.                     *)
(*                                                                         *)
(* Publish copies the list of the latter under the lock, but of the        *)
(* tenant's list only the slice header: it then reads the elements from    *)
(* the backing array, unlocked, while Subscribe and unsubscribe write      *)
(* there.  The module therefore keeps the backing arrays: a slice is an    *)
(* array and a length, append writes in place while there is capacity.     *)
(***************************************************************************)
EXTENDS Naturals, Sequences

CONSTANTS TenantSubs,   \* channels that Subscribe makes, each once
          AllSubs,      \* channels that SubscribeAll makes, each once
          Events,       \* calls of Publish for the tenant, one event each
          TenantCap,    \* capacity of a tenant channel: 32 in the code
          AllCap,       \* capacity of an all-tenants channel: 64 in the code
          NoSub         \* content of an array element never written

Subs == TenantSubs \cup AllSubs

ASSUME BusAssumption ==
    /\ TenantSubs \cap AllSubs = {}
    /\ NoSub \notin Subs
    /\ TenantCap \in Nat \ {0}
    /\ AllCap \in Nat \ {0}

VARIABLES
    arrays,     \* Seq(Seq(Sub)): every backing array allocated so far
    subs,       \* Slice: b.subs[tenant]
    allSubs,    \* Seq(AllSubs): b.allSubs
    channel,    \* [Subs -> Nat]: how many events each channel buffers
    status,     \* [Subs -> {"new", "open", "closed"}]
    publication,\* [Events -> "new", "sending", "done" or "panicked"]
    chans,      \* [Events -> Slice]: local variable of Publish
    allChans,   \* [Events -> Seq(AllSubs)]: local variable of Publish
    next,       \* [Events -> Nat]: sends this Publish has done
    got,        \* history, [AllSubs -> [Events -> Nat]]: sends accepted
    skipped,    \* history, SUBSET (AllSubs \X Events): sends that found it full
    audience    \* history, [Events -> SUBSET AllSubs]: registered at the start

sliceVars == <<arrays, subs, allSubs>>
publishVars == <<publication, chans, allChans, next, audience>>
deliveryVars == <<got, skipped>>
vars == <<sliceVars, channel, status, publishVars, deliveryVars>>

Slice == [array : Nat, len : Nat]
Nil == [array |-> 0, len |-> 0]

Cap(slice) == IF slice.array = 0 THEN 0 ELSE Len(arrays[slice.array])
Element(slice, k) == arrays[slice.array][k]
Elements(slice) == {Element(slice, k) : k \in 1 .. slice.len}

Open == {s \in Subs : status[s] = "open"}

(* A header that stays within its array, and was never more than written. *)
Fits(slice) ==
    /\ slice \in Slice
    /\ slice.array <= Len(arrays)
    /\ slice.len <= Cap(slice)
    /\ \A k \in 1 .. slice.len : Element(slice, k) \in TenantSubs

TypeOK ==
    /\ arrays \in Seq(Seq(TenantSubs \cup {NoSub}))
    /\ Fits(subs)
    /\ allSubs \in Seq(AllSubs)
    /\ channel \in [Subs -> Nat]
    /\ status \in [Subs -> {"new", "open", "closed"}]
    /\ publication \in [Events -> {"new", "sending", "done", "panicked"}]
    /\ \A e \in Events : Fits(chans[e])
    /\ chans \in [Events -> Slice]
    /\ allChans \in [Events -> Seq(AllSubs)]
    /\ next \in [Events -> Nat]
    /\ got \in [AllSubs -> [Events -> Nat]]
    /\ skipped \subseteq AllSubs \X Events
    /\ audience \in [Events -> SUBSET AllSubs]

Init ==
    /\ arrays = <<>>
    /\ subs = Nil
    /\ allSubs = <<>>
    /\ channel = [s \in Subs |-> 0]
    /\ status = [s \in Subs |-> "new"]
    /\ publication = [e \in Events |-> "new"]
    /\ chans = [e \in Events |-> Nil]
    /\ allChans = [e \in Events |-> <<>>]
    /\ next = [e \in Events |-> 0]
    /\ got = [s \in AllSubs |-> [e \in Events |-> 0]]
    /\ skipped = {}
    /\ audience = [e \in Events |-> {}]
-----------------------------------------------------------------------------
(* Subscribing and unsubscribing: each body is one critical section.       *)

Becomes(s, st) == status' = [status EXCEPT ![s] = st]

(* append grows an array by doubling: 1, 2, 4, ... *)
GrownCap(cap) == IF cap = 0 THEN 1 ELSE 2 * cap

SubscribeInPlace(s) ==
    /\ status[s] = "new"
    /\ subs.len < Cap(subs)
    /\ arrays' = [arrays EXCEPT ![subs.array][subs.len + 1] = s]
    /\ subs' = [subs EXCEPT !.len = @ + 1]
    /\ Becomes(s, "open")
    /\ UNCHANGED <<allSubs, channel, publishVars, deliveryVars>>

SubscribeGrowing(s) ==
    /\ status[s] = "new"
    /\ subs.len = Cap(subs)
    /\ arrays' = Append(arrays, [k \in 1 .. GrownCap(subs.len) |->
                                    IF k <= subs.len THEN Element(subs, k)
                                    ELSE IF k = subs.len + 1 THEN s ELSE NoSub])
    /\ subs' = [array |-> Len(arrays) + 1, len |-> subs.len + 1]
    /\ Becomes(s, "open")
    /\ UNCHANGED <<allSubs, channel, publishVars, deliveryVars>>

(* Variant: the loop does not look for the channel, the newest one goes. *)
UnsubscribeNewest(s) ==
    /\ s \in TenantSubs
    /\ status[s] = "open"
    /\ subs' = IF subs.len = 1 THEN Nil ELSE [subs EXCEPT !.len = @ - 1]
    /\ Becomes(s, "closed")
    /\ UNCHANGED <<arrays, allSubs, channel, publishVars, deliveryVars>>

(* append(chans[:i], chans[i+1:]...) shifts the rest in the same array, and *)
(* leaves a copy of the last element behind the new end.  The entry of the  *)
(* tenant is deleted with its last channel.                                 *)
Unsubscribe(s) ==
    /\ s \in TenantSubs
    /\ status[s] = "open"
    /\ \E i \in 1 .. subs.len :
          /\ Element(subs, i) = s
          /\ arrays' = [arrays EXCEPT ![subs.array] =
                           [k \in DOMAIN @ |->
                               IF k \in i .. subs.len - 1 THEN @[k + 1] ELSE @[k]]]
    /\ subs' = IF subs.len = 1 THEN Nil ELSE [subs EXCEPT !.len = @ - 1]
    /\ Becomes(s, "closed")
    /\ UNCHANGED <<allSubs, channel, publishVars, deliveryVars>>

SubscribeAll(s) ==
    /\ status[s] = "new"
    /\ allSubs' = Append(allSubs, s)
    /\ Becomes(s, "open")
    /\ UNCHANGED <<arrays, subs, channel, publishVars, deliveryVars>>

(* append(allSubs[:i], allSubs[i+1:]...): nobody else reads this array. *)
UnsubscribeAll(s) ==
    /\ s \in AllSubs
    /\ status[s] = "open"
    /\ \E i \in DOMAIN allSubs :
          /\ allSubs[i] = s
          /\ allSubs' = SubSeq(allSubs, 1, i - 1) \o SubSeq(allSubs, i + 1, Len(allSubs))
    /\ Becomes(s, "closed")
    /\ UNCHANGED <<arrays, subs, channel, publishVars, deliveryVars>>

(* The subscriber takes an event; it may be slow, or never do it again.    *)
Receive(s) ==
    /\ channel[s] > 0
    /\ channel' = [channel EXCEPT ![s] = @ - 1]
    /\ UNCHANGED <<sliceVars, status, publishVars, deliveryVars>>
-----------------------------------------------------------------------------
(* Publish.                                                                *)

(* The part under the read lock.  (A publisher is not asked to wait for    *)
(* another one: Publish is called from any goroutine.)                     *)
PublishStart(e) ==
    /\ publication[e] = "new"
    /\ publication' = [publication EXCEPT ![e] = "sending"]
    /\ chans' = [chans EXCEPT ![e] = subs]
    /\ allChans' = [allChans EXCEPT ![e] = allSubs]
    /\ audience' = [audience EXCEPT ![e] = Open \cap AllSubs]
    /\ UNCHANGED <<sliceVars, channel, status, next, deliveryVars>>

Sends(e) == chans[e].len + Len(allChans[e])

(* Variant: Publish does not copy the list for all tenants either, and     *)
(* reads an array that unsubscribing shifts while it sends.                *)
TargetUncopied(e) ==
    LET k == next[e] + 1
        j == k - chans[e].len IN
       IF k <= chans[e].len THEN Element(chans[e], k)
       ELSE IF j <= Len(allSubs) THEN allSubs[j] ELSE allChans[e][j]

(* The channel of the send to come, read from the array at this moment. *)
Target(e) ==
    LET k == next[e] + 1 IN
       IF k <= chans[e].len THEN Element(chans[e], k)
       ELSE allChans[e][k - chans[e].len]

Full(s) == channel[s] >= (IF s \in TenantSubs THEN TenantCap ELSE AllCap)

Sending(e) == publication[e] = "sending" /\ next[e] < Sends(e)
Advance(e) == next' = [next EXCEPT ![e] = @ + 1]

(* Publish is over: its local variables go out of scope. *)
Leaves(e, outcome) ==
    /\ publication' = [publication EXCEPT ![e] = outcome]
    /\ chans' = [chans EXCEPT ![e] = Nil]
    /\ allChans' = [allChans EXCEPT ![e] = <<>>]
    /\ next' = [next EXCEPT ![e] = 0]
    /\ UNCHANGED <<sliceVars, channel, status, audience, deliveryVars>>

SendAccepted(e) ==
    /\ Sending(e)
    /\ LET s == Target(e) IN
          /\ status[s] = "open"
          /\ ~Full(s)
          /\ channel' = [channel EXCEPT ![s] = @ + 1]
          /\ got' = IF s \in AllSubs THEN [got EXCEPT ![s][e] = @ + 1] ELSE got
    /\ Advance(e)
    /\ UNCHANGED <<sliceVars, status, publication, chans, allChans, audience, skipped>>

SendSkipped(e) ==
    /\ Sending(e)
    /\ LET s == Target(e) IN
          /\ status[s] = "open"
          /\ Full(s)
          /\ skipped' = skipped \cup ({<<s, e>>} \cap (AllSubs \X Events))
    /\ Advance(e)
    /\ UNCHANGED <<sliceVars, channel, status, publication, chans, allChans, audience,
                   got>>

(* A send on a closed channel panics.  In an HTTP request middleware.Recover *)
(* catches it; elsewhere the process dies.                                   *)
SendPanics(e) ==
    /\ Sending(e)
    /\ status[Target(e)] = "closed"
    /\ Leaves(e, "panicked")

PublishReturns(e) ==
    /\ publication[e] = "sending"
    /\ next[e] = Sends(e)
    /\ Leaves(e, "done")
-----------------------------------------------------------------------------
PublishStep(e) == SendAccepted(e) \/ SendSkipped(e) \/ SendPanics(e) \/ PublishReturns(e)

Next ==
    \/ \E s \in TenantSubs : SubscribeInPlace(s) \/ SubscribeGrowing(s) \/ Unsubscribe(s)
    \/ \E s \in AllSubs : SubscribeAll(s) \/ UnsubscribeAll(s)
    \/ \E s \in Subs : Receive(s)
    \/ \E e \in Events : PublishStart(e) \/ PublishStep(e)

Spec == Init /\ [][Next]_vars
-----------------------------------------------------------------------------
(* The list of a tenant always holds its open channels, each once, and no  *)
(* closed one, and so does the list for all tenants: in spite of the array *)
(* that append shares, a later Publish sends to those who are subscribed.  *)
Registry ==
    /\ Elements(subs) = Open \cap TenantSubs
    /\ \A i, k \in 1 .. subs.len : Element(subs, i) = Element(subs, k) => i = k
    /\ {allSubs[k] : k \in DOMAIN allSubs} = Open \cap AllSubs
    /\ \A i, k \in DOMAIN allSubs : allSubs[i] = allSubs[k] => i = k

(* A subscriber to all tenants gets no event twice, and one that was there  *)
(* before Publish began and has stayed has got the event when Publish       *)
(* returns, unless its channel was full.  (The copy made in Publish.)       *)
AllSubsServed ==
    \A s \in AllSubs, e \in Events :
       /\ got[s][e] <= 1
       /\ publication[e] = "done" /\ s \in audience[e] \cap Open =>
             (got[s][e] = 1 <=> <<s, e>> \notin skipped)
=============================================================================
