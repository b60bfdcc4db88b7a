-------------------------------- MODULE Inbound --------------------------------
(***************************************************************************)
(* Messages that come in, receipts and conversations: the cases Message and *)
(* Receipt of handleEvent (internal/whatsapp/manager.go), Create,           *)
(* GetByWhatsAppID, UpdateStatus and the conversations of                  *)
(* internal/repository/message.go, and UpdateConversation of               *)
(* internal/usecase/message.go.                                            *)
(*                                                                         *)
(* Every event is handled in a goroutine of its own, and each call of the   *)
(* database is a step: nothing but the indexes of the tables keeps two of   *)
(* them apart.  A message of a group has the same id in every instance that *)
(* receives it, and that id is the primary key of its row.  Each instance  *)
(* has one correspondent here, so one conversation.                        *)
(***************************************************************************)
EXTENDS Naturals, FiniteSets

CONSTANTS Actors,     \* goroutines: event handlers and requests
          Instances,
          InIds,      \* ids of messages that are received
          OutIds,     \* ids of messages that were sent from here
          MaxEvents,  \* bound on the events and requests that arrive
          None

ASSUME InboundAssumption ==
    /\ None \notin Instances \cup InIds \cup OutIds
    /\ InIds \cap OutIds = {}
    /\ IsFiniteSet(InIds)
    /\ MaxEvents \in Nat

Pairs == Instances \X InIds
RowStatus == {"none", "sent", "delivered", "read"}
ReceiptType == {"delivered", "read", "played", "other"}
ConvoState == {"open", "resolved"}   \* pending is stored like resolved

Step == {"idle", "insert", "convo", "count", "publish",   \* a received message
         "save", "bump",                                  \* a sent one
         "receipt", "update",                             \* a receipt
         "write"}                                         \* UpdateConversation

VARIABLES
    owner,     \* [InIds -> Instances or None]: the instance of the row
    status,    \* [OutIds -> RowStatus]: the status of the row, "none" before it
    desk,      \* [Instances -> ConvoState or None]: the conversation's state
    unread,    \* [Instances -> Nat]: conversations.unread_count
    received,  \* [Pairs -> Nat]: what each message added to usage.received
    announced, \* [Pairs -> Nat]: its events message.received
    pc,        \* [Actors -> Step]
    box,       \* [Actors -> Instances or None]: the instance of its event
    id,        \* [Actors -> InIds, OutIds or None]: the message in hand
    todo,      \* [Actors -> SUBSET OutIds]: messages of its receipt still to do
    says,      \* [Actors -> RowStatus]: the status its receipt stands for
    writes,    \* [Actors -> ConvoState or None]: the state UpdateConversation stores
    asks,      \* [Actors -> BOOLEAN]: whether its request names that state
    events,    \* Nat: events and requests that arrived
    overlapped,\* history, SUBSET Pairs: looked up while another was to insert it
    cut,       \* history, SUBSET Pairs: its handler failed or was ended by a
               \*   restart after the row was stored
    missed,    \* history, SUBSET Pairs: its conversation was not brought up to date
    rank,      \* history, [OutIds -> 0..3]: the furthest receipt that came
    disordered,\* history, SUBSET OutIds: its receipts came late or overlapped
    crossed    \* history, SUBSET Instances: two UpdateConversation overlapped

tableVars == <<owner, status, desk, unread>>
outVars == <<received, announced>>
actorVars == <<pc, box, id, todo, says, writes, asks>>
historyVars == <<overlapped, cut, missed, rank, disordered, crossed>>
vars == <<tableVars, outVars, actorVars, events, historyVars>>

At(a, s) == pc[a] = s
GoTo(a, s) == pc' = [pc EXCEPT ![a] = s]
Hand(a) == <<box[a], id[a]>>

Init ==
    /\ owner = [m \in InIds |-> None]
    /\ status = [m \in OutIds |-> "none"]
    /\ desk = [i \in Instances |-> None]
    /\ unread = [i \in Instances |-> 0]
    /\ received = [p \in Pairs |-> 0]
    /\ announced = [p \in Pairs |-> 0]
    /\ pc = [a \in Actors |-> "idle"]
    /\ box = [a \in Actors |-> None]
    /\ id = [a \in Actors |-> None]
    /\ todo = [a \in Actors |-> {}]
    /\ says = [a \in Actors |-> "none"]
    /\ writes = [a \in Actors |-> None]
    /\ asks = [a \in Actors |-> FALSE]
    /\ events = 0
    /\ overlapped = {} /\ cut = {} /\ missed = {}
    /\ rank = [m \in OutIds |-> 0]
    /\ disordered = {} /\ crossed = {}
-----------------------------------------------------------------------------
(* The actor is done: its variables go out of scope. *)
Ends(a) ==
    /\ GoTo(a, "idle")
    /\ box' = [box EXCEPT ![a] = None]
    /\ id' = [id EXCEPT ![a] = None]
    /\ todo' = [todo EXCEPT ![a] = {}]
    /\ says' = [says EXCEPT ![a] = "none"]
    /\ writes' = [writes EXCEPT ![a] = None]
    /\ asks' = [asks EXCEPT ![a] = FALSE]

Goes(a, s) == GoTo(a, s) /\ UNCHANGED <<box, id, todo, says, writes, asks>>

Arrives(a) == At(a, "idle") /\ events < MaxEvents /\ events' = events + 1

(* A message m comes for the instance i, for the first time or again: when   *)
(* its row is found, or the look-up fails, there is nothing more to do.      *)

(* Variant: the message is not looked up. *)
ReceiveBlindly(a, i, m) ==
    /\ Arrives(a)
    /\ GoTo(a, "insert")
    /\ box' = [box EXCEPT ![a] = i]
    /\ id' = [id EXCEPT ![a] = m]
    /\ UNCHANGED <<tableVars, outVars, todo, says, writes, asks, historyVars>>

Receive(a, i, m) ==
    /\ Arrives(a)
    /\ \/ /\ owner[m] # i
          /\ GoTo(a, "insert")
          /\ box' = [box EXCEPT ![a] = i]
          /\ id' = [id EXCEPT ![a] = m]
          /\ overlapped' = IF \E b \in Actors : At(b, "insert") /\ Hand(b) = <<i, m>>
                           THEN overlapped \cup {<<i, m>>} ELSE overlapped
       \/ UNCHANGED <<pc, box, id, overlapped>>
    /\ UNCHANGED <<tableVars, outVars, todo, says, writes, asks, cut, missed,
                   rank, disordered, crossed>>

(* INSERT ... ON CONFLICT DO NOTHING: a row with this id, of this instance or *)
(* of another one, is left as it is, and Create returns no error.           *)
Insert(a) ==
    /\ At(a, "insert")
    /\ IF owner[id[a]] = None
       THEN /\ owner' = [owner EXCEPT ![id[a]] = box[a]]
            /\ Goes(a, "convo")
       ELSE owner' = owner /\ Goes(a, "count")
    /\ UNCHANGED <<status, desk, unread, outVars, events, historyVars>>

InsertFails(a) ==
    /\ At(a, "insert")
    /\ Ends(a)
    /\ UNCHANGED <<tableVars, outVars, events, historyVars>>

(* Variant: the state of a conversation that exists is set again. *)
Reopened(d) == "open"

Opened(d) == IF d = None THEN "open" ELSE d

(* upsertConversation: a conversation that exists keeps its state. *)
Conversation(a) ==
    /\ At(a, "convo")
    /\ desk' = [desk EXCEPT ![box[a]] = Opened(@)]
    /\ unread' = [unread EXCEPT ![box[a]] = @ + 1]
    /\ Goes(a, "count")
    /\ UNCHANGED <<owner, status, outVars, events, historyVars>>

(* It fails, and the handler returns; or two of them insert the same new    *)
(* conversation, and the second goes on as if the message had been known.   *)
ConversationFails(a) ==
    /\ At(a, "convo")
    /\ missed' = missed \cup {Hand(a)}
    /\ \/ Ends(a) /\ cut' = cut \cup {Hand(a)}
       \/ desk[box[a]] # None /\ Goes(a, "count") /\ cut' = cut
    /\ UNCHANGED <<tableVars, outVars, events, overlapped, rank, disordered, crossed>>

(* Variant: an error of TrackReceived ends the handler. *)
CountOrReturn(a) ==
    /\ At(a, "count")
    /\ \/ received' = [received EXCEPT ![Hand(a)] = @ + 1] /\ Goes(a, "publish")
       \/ received' = received /\ Ends(a)
    /\ UNCHANGED <<tableVars, announced, events, historyVars>>

(* TrackReceived, whose error is dropped. *)
Count(a) ==
    /\ At(a, "count")
    /\ received' \in {[received EXCEPT ![Hand(a)] = @ + 1], received}
    /\ Goes(a, "publish")
    /\ UNCHANGED <<tableVars, announced, events, historyVars>>

Publish(a) ==
    /\ At(a, "publish")
    /\ announced' = [announced EXCEPT ![Hand(a)] = @ + 1]
    /\ Ends(a)
    /\ UNCHANGED <<tableVars, received, events, historyVars>>
-----------------------------------------------------------------------------
(* A message was sent, and the use case stores it. *)
Sent(a, i, m) ==
    /\ Arrives(a)
    /\ status[m] = "none"
    /\ \A b \in Actors : id[b] # m
    /\ GoTo(a, "save")
    /\ box' = [box EXCEPT ![a] = i]
    /\ id' = [id EXCEPT ![a] = m]
    /\ UNCHANGED <<tableVars, outVars, todo, says, writes, asks, historyVars>>

Save(a) ==
    /\ At(a, "save")
    /\ \/ status' = [status EXCEPT ![id[a]] = "sent"] /\ Goes(a, "bump")
       \/ status' = status /\ Ends(a)
    /\ UNCHANGED <<owner, desk, unread, outVars, events, historyVars>>

(* Variant: what is sent counts as unread too. *)
BumpCounts(a) ==
    /\ At(a, "bump")
    /\ desk' = [desk EXCEPT ![box[a]] = Opened(@)]
    /\ unread' = [unread EXCEPT ![box[a]] = @ + 1]
    /\ Ends(a)
    /\ UNCHANGED <<owner, status, outVars, events, historyVars>>

(* upsertConversation for it: unread_count stays. *)
Bump(a) ==
    /\ At(a, "bump")
    /\ desk' \in {[desk EXCEPT ![box[a]] = Opened(@)], desk}
    /\ Ends(a)
    /\ UNCHANGED <<owner, status, unread, outVars, events, historyVars>>
-----------------------------------------------------------------------------
(* Variant: a message that was played is taken for a delivered one. *)
MapPlayedLow(t) == IF t = "read" THEN "read" ELSE "delivered"

mapReceiptStatus(t) == IF t = "delivered" THEN "delivered" ELSE "read"

Rank(t) == IF t = "delivered" THEN 1 ELSE IF t = "read" THEN 2 ELSE 3

(* A receipt of type t comes for some messages. *)
Receipt(a, t, ms) ==
    /\ Arrives(a)
    /\ IF t = "other"
       THEN UNCHANGED <<pc, todo, says, rank, disordered>>
       ELSE /\ GoTo(a, "receipt")
            /\ todo' = [todo EXCEPT ![a] = ms]
            /\ says' = [says EXCEPT ![a] = mapReceiptStatus(t)]
            /\ rank' = [m \in OutIds |->
                          IF m \in ms /\ Rank(t) > rank[m] THEN Rank(t) ELSE rank[m]]
            /\ disordered' = disordered \cup
                  {m \in ms : \/ Rank(t) < rank[m]
                              \/ \E b \in Actors : m \in todo[b] \/ (At(b, "update") /\ id[b] = m)}
    /\ UNCHANGED <<tableVars, outVars, box, id, writes, asks, overlapped, cut,
                   missed, crossed>>

(* The next one is looked up: without a row, or when that fails, the        *)
(* receipt is forgotten for it.                                            *)
LookUp(a, m) ==
    /\ At(a, "receipt")
    /\ m \in todo[a]
    /\ todo' = [todo EXCEPT ![a] = @ \ {m}]
    /\ \/ status[m] # "none" /\ GoTo(a, "update") /\ id' = [id EXCEPT ![a] = m]
       \/ UNCHANGED <<pc, id>>
    /\ UNCHANGED <<tableVars, outVars, box, says, writes, asks, events, historyVars>>

(* UpdateStatus, which does not look at the status that is there, and, when *)
(* it succeeds, the event message.status.                                  *)
UpdateStatus(a) ==
    /\ At(a, "update")
    /\ status' \in {[status EXCEPT ![id[a]] = says[a]], status}
    /\ GoTo(a, "receipt")
    /\ id' = [id EXCEPT ![a] = None]
    /\ UNCHANGED <<owner, desk, unread, outVars, box, todo, says, writes, asks,
                   events, historyVars>>

ReceiptDone(a) ==
    /\ At(a, "receipt")
    /\ todo[a] = {}
    /\ Ends(a)
    /\ UNCHANGED <<tableVars, outVars, events, historyVars>>
-----------------------------------------------------------------------------
(* UpdateConversation: the row is read, the request is applied to it,       *)
ReadConversation(a, i, s) ==
    /\ Arrives(a)
    /\ desk[i] # None
    /\ GoTo(a, "write")
    /\ box' = [box EXCEPT ![a] = i]
    /\ writes' = [writes EXCEPT ![a] = IF s = None THEN desk[i] ELSE s]
    /\ asks' = [asks EXCEPT ![a] = s # None]
    /\ crossed' = IF \E b \in Actors : At(b, "write") /\ box[b] = i
                  THEN crossed \cup {i} ELSE crossed
    /\ UNCHANGED <<tableVars, outVars, id, todo, says, overlapped, cut, missed,
                   rank, disordered>>

(* and all its fields but the last message and the unread count are stored. *)
WriteConversation(a) ==
    /\ At(a, "write")
    /\ desk' \in {[desk EXCEPT ![box[a]] = writes[a]], desk}
    /\ Ends(a)
    /\ UNCHANGED <<owner, status, unread, outVars, events, historyVars>>
-----------------------------------------------------------------------------
(* The process ends and starts again. *)
Restart ==
    /\ pc' = [a \in Actors |-> "idle"]
    /\ box' = [a \in Actors |-> None]
    /\ id' = [a \in Actors |-> None]
    /\ todo' = [a \in Actors |-> {}]
    /\ says' = [a \in Actors |-> "none"]
    /\ writes' = [a \in Actors |-> None]
    /\ asks' = [a \in Actors |-> FALSE]
    /\ cut' = cut \cup {Hand(a) : a \in {b \in Actors : pc[b] \in {"convo", "count", "publish"}}}
    /\ missed' = missed \cup {Hand(a) : a \in {b \in Actors : At(b, "convo")}}
    /\ UNCHANGED <<tableVars, outVars, events, overlapped, rank, disordered, crossed>>

Receives(a) == \E i \in Instances, m \in InIds : Receive(a, i, m)
Stores(a) == Insert(a) \/ InsertFails(a) \/ Conversation(a) \/ ConversationFails(a)
Tells(a) == Count(a) \/ Publish(a)
Sends(a) == (\E i \in Instances, m \in OutIds : Sent(a, i, m)) \/ Save(a) \/ Bump(a)
Receipts(a) ==
    \/ \E t \in ReceiptType, ms \in SUBSET OutIds : Receipt(a, t, ms)
    \/ \E m \in OutIds : LookUp(a, m)
    \/ UpdateStatus(a) \/ ReceiptDone(a)
Edits(a) ==
    \/ \E i \in Instances, s \in ConvoState \cup {None} : ReadConversation(a, i, s)
    \/ WriteConversation(a)

Next ==
    \/ \E a \in Actors :
          Receives(a) \/ Stores(a) \/ Tells(a) \/ Sends(a) \/ Receipts(a) \/ Edits(a)
    \/ Restart

Spec == Init /\ [][Next]_vars
-----------------------------------------------------------------------------
TypeOK ==
    /\ owner \in [InIds -> Instances \cup {None}]
    /\ status \in [OutIds -> RowStatus]
    /\ desk \in [Instances -> ConvoState \cup {None}]
    /\ unread \in [Instances -> Nat]
    /\ received \in [Pairs -> Nat]
    /\ announced \in [Pairs -> Nat]
    /\ pc \in [Actors -> Step]
    /\ box \in [Actors -> Instances \cup {None}]
    /\ id \in [Actors -> InIds \cup OutIds \cup {None}]
    /\ todo \in [Actors -> SUBSET OutIds]
    /\ says \in [Actors -> RowStatus]
    /\ writes \in [Actors -> ConvoState \cup {None}]
    /\ asks \in [Actors -> BOOLEAN]
    /\ events \in Nat
    /\ overlapped \subseteq Pairs
    /\ cut \subseteq Pairs
    /\ missed \subseteq Pairs
    /\ rank \in [OutIds -> 0..3]
    /\ disordered \subseteq OutIds
    /\ crossed \subseteq Instances

(* A message that WhatsApp delivers again is counted and announced once: not *)
(* so only when two handlers looked it up before either had stored it, or   *)
(* when the row with its id belongs to another instance (handleEvent).      *)
ReceivedOnce ==
    \A p \in Pairs \ overlapped :
        owner[p[2]] \in {None, p[1]} => received[p] <= 1 /\ announced[p] <= 1

(* A message that is stored has been announced, or is about to be: the row   *)
(* makes every later delivery of it return at once, so nobody else would.   *)
(* A conversation that fails and a restart are the exceptions (handleEvent,  *)
(* messageRepo.Create).                                                    *)
StoredAnnounced ==
    \A m \in InIds : owner[m] # None =>
        LET p == <<owner[m], m>> IN
        \/ announced[p] > 0
        \/ p \in cut
        \/ \E a \in Actors : Hand(a) = p /\ pc[a] \in {"convo", "count", "publish"}

(* The unread count of a conversation is the number of messages stored for  *)
(* it, whatever is handled, sent or changed at the same time; a row whose    *)
(* handler is about to count it, or failed to, is left out                  *)
(* (upsertConversation, UpdateConversation).                               *)
Counted(i) ==
    {m \in InIds :
        /\ owner[m] = i
        /\ <<i, m>> \notin missed
        /\ \A a \in Actors : At(a, "convo") => Hand(a) # <<i, m>>}
UnreadExact == \A i \in Instances : unread[i] = Cardinality(Counted(i))

(* A message that was read is not taken for delivered again, unless its     *)
(* receipts came in another order or were handled together                 *)
(* (mapReceiptStatus, UpdateStatus).                                       *)
ReadStays ==
    [][\A m \in OutIds :
          status[m] = "read" /\ status'[m] # "read" => m \in disordered]_vars

(* Only a request that names a state changes the one of a conversation, and  *)
(* messages never do; two requests that overlap may bring an old one back    *)
(* (UpdateConversation, upsertConversation).                               *)
StateStays ==
    [][\A i \in Instances :
          desk[i] \notin {None, desk'[i]} =>
              \E a \in Actors : /\ At(a, "write") /\ box[a] = i
                                /\ asks[a] \/ i \in crossed]_vars
=============================================================================
