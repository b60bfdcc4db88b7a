------------------------------- MODULE Sends -------------------------------
(***************************************************************************)
(* Outbound messages of one tenant: the send methods of                    *)
(* internal/usecase/message.go, CheckLimit and TrackSent of                *)
(* internal/billing/service.go, the usage, messages and conversations      *)
(* tables of internal/repository.                                          *)
(*                                                                         *)
(* Requests run concurrently.  The usage counter is raised by a goroutine  *)
(* of its own after each send, so CheckLimit compares the limit with a     *)
(* counter that lags behind.  The plan keeps its limit here, and a check   *)
(* may find any subscription; WhatsApp is external.                        *)
(***************************************************************************)
EXTENDS Naturals, Sequences, FiniteSets

CONSTANTS Requests,   \* goroutines that serve sends, one after the other on each
          Limit,      \* Plan.MonthlyLimit
          BulkSize,   \* distinct phones of a bulk request
          MaxSends    \* bound: messages that WhatsApp takes in all

ASSUME SendsAssumption ==
    /\ IsFiniteSet(Requests) /\ Requests # {}
    /\ Limit \in Nat \ {0}
    /\ BulkSize \in Nat \ {0}
    /\ MaxSends \in Nat

(* The send methods differ in the order of their steps:                    *)
(*   direct: SendMessage, SendInteractiveMessage, SendLocationMessage,     *)
(*           SendContactCard, SendSticker, SendQuotedMessage,              *)
(*           ForwardMessage, and SendGroupMessage without a phone to look  *)
(*           up;  bulk: the loop of SendBulkMessage                        *)
(*   media:  SendMediaMessage checks the limit before it resolves the      *)
(*           phone and downloads the file                                  *)
(*   status: PostStatus has no limit and is not counted.                   *)
(* All direct messages go to one phone.  Publishing the event never waits   *)
(* (module EventBus) and is left out.                                      *)
(* CheckLimit is two steps: it reads the subscription (limit), then the    *)
(* usage.  Create is two: the row (save), then the conversation (convo).   *)
Kinds == {"direct", "bulk", "media", "status"}
FirstStep(k) == IF k = "media" THEN "limit" ELSE "resolve"
OnceResolved(k) == IF k \in {"media", "status"} THEN "send" ELSE "limit"
OnceAllowed(k) == IF k = "media" THEN "resolve" ELSE "send"
Metered(k) == k # "status"

(* The conversation a message belongs to, by its phone column. *)
Chat(k) == IF k = "status" THEN "status@broadcast" ELSE "phone"
Chats == {Chat(k) : k \in Kinds}

Step == {"idle", "resolve", "limit", "usage", "send", "save", "convo", "report", "done"}

VARIABLES
    pc,      \* [Requests -> Step]
    kind,    \* [Requests -> Kinds]: the method that runs, direct without one
    left,    \* [Requests -> Nat]: phones the request has still to serve
    msg,     \* [Requests -> Nat]: the message in hand, 0 without one
    sent,    \* [Requests -> Nat]: phones the answer will say were sent
    failed,  \* [Requests -> Nat]: phones the answer will say failed
    used,    \* Nat: usage.sent of the current month
    tracking,\* Nat: goroutines that have still to call TrackSent
    row,     \* [1 .. taken -> Chats or none], as a sequence: messages
    last,    \* [Chats -> Nat]: conversations.last_message_id, 0 without a row
    accepted,\* history, [Requests -> Nat]: messages taken, of the current request
    unsaved, \* history, SUBSET Nat: messages that will never have a row
    unlisted,\* history, SUBSET Nat: rows that did not reach their conversation
    free,    \* history, SUBSET Requests: those a trial has let through to a send
    thisMonth,\* history, Nat: metered messages taken in the current month
    unlimited,\* history, Nat: those of them that a trial let through
    lost,    \* history, Nat: messages that this month lost to the counter
    carried, \* history, Nat: messages taken before the month and not counted then
    backlog  \* history, Nat: the most messages between their check and the counter
             \*   when a check of this month looked at it, or when the month began

requestVars == <<pc, kind, left, msg, sent, failed, accepted>>
usageVars == <<used, tracking>>
tableVars == <<row, last, unsaved, unlisted>>
monthVars == <<free, thisMonth, unlimited, lost, carried, backlog>>
vars == <<requestVars, usageVars, tableVars, monthVars>>

None == "none"
Taken == Len(row)
At(r, s) == pc[r] = s
GoTo(r, s) == pc' = [pc EXCEPT ![r] = s]

(* The message was taken by WhatsApp and is not yet given to TrackSent. *)
InHand == {r \in Requests : pc[r] \in {"save", "convo", "report"} /\ Metered(kind[r])}

(* The request has passed CheckLimit for a message not yet given to TrackSent. *)
Passed(r) ==
    /\ Metered(kind[r])
    /\ \/ pc[r] \in {"send", "save", "convo", "report"}
       \/ At(r, "resolve") /\ kind[r] = "media"

(* Those of them that spend the limit, and what the counter does not show. *)
Spending == {r \in Requests : Passed(r)} \ free
Unseen == tracking + Cardinality(Spending)

Init ==
    /\ pc = [r \in Requests |-> "idle"]
    /\ kind = [r \in Requests |-> "direct"]
    /\ left = [r \in Requests |-> 0]
    /\ msg = [r \in Requests |-> 0]
    /\ sent = [r \in Requests |-> 0]
    /\ failed = [r \in Requests |-> 0]
    /\ used = 0
    /\ tracking = 0
    /\ row = <<>>
    /\ last = [c \in Chats |-> 0]
    /\ accepted = [r \in Requests |-> 0]
    /\ unsaved = {}
    /\ unlisted = {}
    /\ free = {}
    /\ thisMonth = 0
    /\ unlimited = 0
    /\ lost = 0
    /\ carried = 0
    /\ backlog = 0
-----------------------------------------------------------------------------
(* One item of the request is over: a bulk request goes on with the next   *)
(* phone, any other answers.                                               *)
ItemEnds(r) ==
    /\ left' = [left EXCEPT ![r] = @ - 1]
    /\ msg' = [msg EXCEPT ![r] = 0]
    /\ free' = free \ {r}
    /\ GoTo(r, IF left[r] > 1 THEN "limit" ELSE "done")

(* A request arrives.  The checks of its body come first and change nothing. *)
Begin(r, k) ==
    /\ At(r, "idle")
    /\ GoTo(r, FirstStep(k))
    /\ kind' = [kind EXCEPT ![r] = k]
    /\ left' = [left EXCEPT ![r] = IF k = "bulk" THEN BulkSize ELSE 1]
    /\ UNCHANGED <<msg, sent, failed, accepted, usageVars, tableVars, monthVars>>

(* resolveInstanceID, the lookup of the phones on WhatsApp and, for media,  *)
(* the download.  Phones of a bulk request that are not on WhatsApp fail    *)
(* here; a lookup that fails ends the request.                             *)
Resolve(r, absent) ==
    /\ At(r, "resolve")
    /\ \/ kind[r] = "bulk" /\ absent < left[r] /\ GoTo(r, OnceResolved("bulk"))
       \/ kind[r] = "bulk" /\ absent = left[r] /\ GoTo(r, "done")
       \/ kind[r] # "bulk" /\ absent = 0 /\ GoTo(r, OnceResolved(kind[r]))
    /\ left' = [left EXCEPT ![r] = @ - absent]
    /\ failed' = [failed EXCEPT ![r] = @ + absent]
    /\ UNCHANGED <<kind, msg, sent, accepted, usageVars, tableVars, monthVars>>

(* CheckLimit, first half: the subscription, which may have become anything *)
(* by now (module Subscription): a trial that runs, or active, as a tenant   *)
(* without a row is taken to be; in any other case the send fails.           *)
ReadSubscription(r) ==
    /\ At(r, "limit")
    /\ \/ GoTo(r, OnceAllowed(kind[r])) /\ free' = free \cup {r}
       \/ GoTo(r, "usage") /\ UNCHANGED free
    /\ UNCHANGED <<kind, left, msg, sent, failed, accepted, usageVars, tableVars,
                   thisMonth, unlimited, lost, carried, backlog>>

(* Variant: the limit itself still passes. *)
ReadUsageLate(r) ==
    /\ At(r, "usage")
    /\ used <= Limit
    /\ GoTo(r, OnceAllowed(kind[r]))
    /\ backlog' = IF Unseen > backlog THEN Unseen ELSE backlog
    /\ UNCHANGED <<kind, left, msg, sent, failed, accepted, usageVars, tableVars,
                   free, thisMonth, unlimited, lost, carried>>

(* CheckLimit, second half: the usage of the current month. *)
ReadUsage(r) ==
    /\ At(r, "usage")
    /\ used < Limit
    /\ GoTo(r, OnceAllowed(kind[r]))
    /\ backlog' = IF Unseen > backlog THEN Unseen ELSE backlog
    /\ UNCHANGED <<kind, left, msg, sent, failed, accepted, usageVars, tableVars,
                   free, thisMonth, unlimited, lost, carried>>

(* Variant: a bulk request returns at the first phone that fails. *)
FailsAtOnce(r) ==
    /\ pc[r] \in {"resolve", "limit", "usage", "send"}
    /\ GoTo(r, "done")
    /\ failed' = [failed EXCEPT ![r] = @ + 1]
    /\ left' = [left EXCEPT ![r] = 0]
    /\ UNCHANGED <<kind, msg, sent, accepted, usageVars, tableVars, monthVars>>

(* ErrBillingCheckoutOnly, ErrLimitExceeded, an error of any call before    *)
(* the message is out, a client that is not connected, or the send refused. *)
Fails(r) ==
    /\ pc[r] \in {"resolve", "limit", "usage", "send"}
    /\ IF At(r, "resolve") /\ kind[r] = "bulk"
       THEN /\ GoTo(r, "done")
            /\ failed' = [failed EXCEPT ![r] = @ + left[r]]
            /\ left' = [left EXCEPT ![r] = 0]
            /\ UNCHANGED <<msg, free>>
       ELSE ItemEnds(r) /\ failed' = [failed EXCEPT ![r] = @ + 1]
    /\ UNCHANGED <<kind, sent, accepted, usageVars, tableVars, thisMonth,
                   unlimited, lost, carried, backlog>>

(* WhatsApp takes the message and gives it an id. *)
TakenFor(r) ==
    /\ Taken < MaxSends
    /\ row' = Append(row, None)
    /\ accepted' = [accepted EXCEPT ![r] = @ + 1]
    /\ thisMonth' = IF Metered(kind[r]) THEN thisMonth + 1 ELSE thisMonth
    /\ unlimited' = IF r \in free THEN unlimited + 1 ELSE unlimited

Send(r) ==
    /\ At(r, "send")
    /\ TakenFor(r)
    /\ msg' = [msg EXCEPT ![r] = Taken + 1]
    /\ free' = free \ {r}
    /\ GoTo(r, "save")
    /\ UNCHANGED <<kind, left, sent, failed, usageVars, last, unsaved, unlisted,
                   lost, carried, backlog>>

(* WhatsApp takes the message, but the call ends with an error: the answer  *)
(* is lost with the connection, or the client of the request has gone.     *)
SendUnanswered(r) ==
    /\ At(r, "send")
    /\ TakenFor(r)
    /\ ItemEnds(r) /\ failed' = [failed EXCEPT ![r] = @ + 1]
    /\ lost' = IF Metered(kind[r]) THEN lost + 1 ELSE lost
    /\ unsaved' = unsaved \cup {Taken + 1}
    /\ UNCHANGED <<kind, sent, usageVars, last, unlisted, carried, backlog>>

(* Create, first statement: the row.  An error is only logged. *)
Save(r) ==
    /\ At(r, "save")
    /\ row' = [row EXCEPT ![msg[r]] = Chat(kind[r])]
    /\ GoTo(r, "convo")
    /\ UNCHANGED <<kind, left, msg, sent, failed, accepted, usageVars, last,
                   unsaved, unlisted, monthVars>>

(* Variant: Create goes on to the conversation after a failed insert. *)
SaveFailsOnward(r) ==
    /\ At(r, "save")
    /\ GoTo(r, "convo")
    /\ unsaved' = unsaved \cup {msg[r]}
    /\ UNCHANGED <<kind, left, msg, sent, failed, accepted, usageVars, row, last,
                   unlisted, monthVars>>

SaveFails(r) ==
    /\ At(r, "save")
    /\ GoTo(r, "report")
    /\ unsaved' = unsaved \cup {msg[r]}
    /\ UNCHANGED <<kind, left, msg, sent, failed, accepted, usageVars, row, last,
                   unlisted, monthVars>>

(* Create, second statement: the conversation, whose last message becomes   *)
(* this one even when a later one is there already.                        *)
UpsertConversation(r) ==
    /\ At(r, "convo")
    /\ GoTo(r, "report")
    /\ \/ last' = [last EXCEPT ![Chat(kind[r])] = msg[r]] /\ UNCHANGED unlisted
       \/ unlisted' = unlisted \cup {msg[r]} /\ UNCHANGED last
    /\ UNCHANGED <<kind, left, msg, sent, failed, accepted, usageVars, row,
                   unsaved, monthVars>>

(* Variant: a bulk request is counted once, with its last phone. *)
ReportOnce(r) ==
    /\ At(r, "report")
    /\ tracking' = IF Metered(kind[r]) /\ left[r] = 1 THEN tracking + 1 ELSE tracking
    /\ ItemEnds(r)
    /\ sent' = [sent EXCEPT ![r] = @ + 1]
    /\ UNCHANGED <<kind, failed, accepted, used, tableVars, thisMonth,
                   unlimited, lost, carried, backlog>>

(* The goroutine that counts is started, and the item has its answer. *)
Report(r) ==
    /\ At(r, "report")
    /\ tracking' = IF Metered(kind[r]) THEN tracking + 1 ELSE tracking
    /\ ItemEnds(r)
    /\ sent' = [sent EXCEPT ![r] = @ + 1]
    /\ UNCHANGED <<kind, failed, accepted, used, tableVars, thisMonth,
                   unlimited, lost, carried, backlog>>

(* The answer has gone to the client. *)
Return(r) ==
    /\ At(r, "done")
    /\ GoTo(r, "idle")
    /\ kind' = [kind EXCEPT ![r] = "direct"]
    /\ sent' = [sent EXCEPT ![r] = 0]
    /\ failed' = [failed EXCEPT ![r] = 0]
    /\ accepted' = [accepted EXCEPT ![r] = 0]
    /\ UNCHANGED <<left, msg, usageVars, tableVars, monthVars>>
-----------------------------------------------------------------------------
(* A goroutine calls TrackSent, in whatever month it is by then. *)
TrackSent ==
    /\ tracking > 0
    /\ tracking' = tracking - 1
    /\ used' = used + 1
    /\ UNCHANGED <<requestVars, tableVars, monthVars>>

(* The database refuses, and the error is logged or dropped. *)
TrackSentFails ==
    /\ tracking > 0
    /\ tracking' = tracking - 1
    /\ lost' = lost + 1
    /\ UNCHANGED <<requestVars, used, tableVars, free, thisMonth, unlimited,
                   carried, backlog>>

MonthEnds ==
    /\ used' = 0
    /\ thisMonth' = 0 /\ unlimited' = 0 /\ lost' = 0
    /\ carried' = tracking + Cardinality(InHand)
    /\ backlog' = Unseen
    /\ UNCHANGED <<requestVars, tracking, tableVars, free>>

(* The process ends and starts again: requests and goroutines are gone. *)
Restart ==
    /\ pc' = [r \in Requests |-> "idle"]
    /\ kind' = [r \in Requests |-> "direct"]
    /\ sent' = [r \in Requests |-> 0]
    /\ failed' = [r \in Requests |-> 0]
    /\ accepted' = [r \in Requests |-> 0]
    /\ msg' = [r \in Requests |-> 0]
    /\ left' = [r \in Requests |-> 0]
    /\ tracking' = 0
    /\ lost' = lost + tracking + Cardinality(InHand)
    /\ free' = {}
    /\ unsaved' = unsaved \cup {msg[r] : r \in {q \in Requests : At(q, "save")}}
    /\ unlisted' = unlisted \cup {msg[r] : r \in {q \in Requests : At(q, "convo")}}
    /\ UNCHANGED <<used, row, last, thisMonth, unlimited, carried, backlog>>
-----------------------------------------------------------------------------
RequestStep(r) ==
    \/ \E absent \in 0 .. BulkSize : Resolve(r, absent)
    \/ ReadSubscription(r) \/ ReadUsage(r) \/ Fails(r)
    \/ Send(r) \/ SendUnanswered(r)
    \/ Save(r) \/ SaveFails(r) \/ UpsertConversation(r)
    \/ Report(r) \/ Return(r)

Tracker == TrackSent \/ TrackSentFails

Next ==
    \/ \E r \in Requests, k \in Kinds : Begin(r, k)
    \/ \E r \in Requests : RequestStep(r)
    \/ Tracker
    \/ MonthEnds \/ Restart

Spec == Init /\ [][Next]_vars
-----------------------------------------------------------------------------
TypeOK ==
    /\ pc \in [Requests -> Step]
    /\ kind \in [Requests -> Kinds]
    /\ left \in [Requests -> Nat]
    /\ msg \in [Requests -> 0 .. Taken]
    /\ sent \in [Requests -> Nat]
    /\ failed \in [Requests -> Nat]
    /\ used \in Nat /\ tracking \in Nat
    /\ row \in Seq(Chats \cup {None})
    /\ last \in [Chats -> 0 .. Taken]
    /\ accepted \in [Requests -> Nat]
    /\ unsaved \subseteq 1 .. Taken
    /\ unlisted \subseteq 1 .. Taken
    /\ free \subseteq Requests
    /\ thisMonth \in Nat /\ unlimited \in Nat /\ lost \in Nat
    /\ carried \in Nat /\ backlog \in Nat

(* Nothing that counts against the plan escapes the counter: a message,     *)
(* taken in this month or carried over into it, is counted exactly once, or *)
(* still on its way there, or was lost with the database, the connection or *)
(* the process (TrackSent is called in a goroutine after each send).        *)
UsageBalances ==
    thisMonth + carried = used + tracking + Cardinality(InHand) + lost

(* WhatsApp takes no more metered messages in a month than the plan allows  *)
(* and those a trial lets through, but for two kinds: one for each that the *)
(* counter lost in this month, and one for each message that was between    *)
(* its check and the counter when a check looked, or when the month began   *)
(* (CheckLimit compares the limit with a counter that TrackSent raises      *)
(* after the send).  Without overlaps and losses this is the limit itself;  *)
(* a race of sends can exceed it by no more than its width.                 *)
LimitOverrunBounded == thisMonth <= Limit + unlimited + lost + backlog

(* What the caller is told: sent is only said of messages WhatsApp took,   *)
(* failed of no more than the rest or messages without an answer, and a    *)
(* bulk request gives each phone one outcome (SendBulkMessage).            *)
AnswersTruthful ==
    \A r \in Requests :
        /\ sent[r] <= accepted[r]
        /\ At(r, "done") =>
            sent[r] + failed[r] = (IF kind[r] = "bulk" THEN BulkSize ELSE 1)

(* Each message WhatsApp took has its row, is about to get it from the     *)
(* request that sent it, or is one whose insert failed; each row is in its *)
(* conversation or on the way there, unless that statement failed; and the *)
(* last message of a conversation is one of its rows (Create).             *)
MessagesKept ==
    /\ \A i \in 1 .. Taken :
        row[i] = None <=> (i \in unsaved \/ \E r \in Requests : At(r, "save") /\ msg[r] = i)
    /\ \A i \in 1 .. Taken : row[i] # None =>
        \/ last[row[i]] # 0
        \/ i \in unlisted
        \/ \E r \in Requests : At(r, "convo") /\ msg[r] = i
    /\ \A c \in Chats : last[c] # 0 => row[last[c]] = c
=============================================================================
