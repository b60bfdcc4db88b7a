---------------------------- MODULE InboundProofs ----------------------------
(* Theorems about Inbound, for any number of goroutines, instances and      *)
(* messages and any bound on what arrives.                                 *)
EXTENDS Inbound, FiniteSetTheorems, TLAPS

InHand == {"insert", "convo", "count", "publish"}

(* What the position of an actor says about its variables. *)
Control ==
    \A a \in Actors :
        /\ pc[a] \in InHand => box[a] \in Instances /\ id[a] \in InIds
        /\ pc[a] \in {"save", "bump"} => box[a] \in Instances /\ id[a] \in OutIds
        /\ pc[a] = "update" => id[a] \in OutIds
        /\ pc[a] = "write" => box[a] \in Instances /\ writes[a] \in ConvoState

THEOREM InboundTypes == Spec => [](TypeOK /\ Control)
<1> USE DEF Control, InHand, At, GoTo, Goes
<1>1. Init => TypeOK /\ Control
  BY InboundAssumption DEF Init, TypeOK, RowStatus, ConvoState, Step
<1>2. TypeOK /\ Control /\ [Next]_vars => (TypeOK /\ Control)'
  <2> SUFFICES ASSUME TypeOK, Control, [Next]_vars PROVE (TypeOK /\ Control)'
    OBVIOUS
  <2> USE DEF TypeOK
  <2>1. CASE UNCHANGED vars
    BY <2>1 DEF vars, tableVars, outVars, actorVars, historyVars
  <2>2. ASSUME NEW a \in Actors, Receives(a) PROVE (TypeOK /\ Control)'
    <3>1. PICK i \in Instances, m \in InIds : Receive(a, i, m)
      BY <2>2 DEF Receives
    <3>2. <<i, m>> \in Pairs
      BY DEF Pairs
    <3> QED
      BY <3>1, <3>2 DEF Receive, Arrives, Step, tableVars, outVars
  <2>3. ASSUME NEW a \in Actors, Stores(a) PROVE (TypeOK /\ Control)'
    <3>1. CASE Insert(a)
      BY <3>1 DEF Insert, Step, outVars, historyVars
    <3>2. CASE InsertFails(a)
      BY <3>2 DEF InsertFails, Ends, Step, RowStatus, tableVars, outVars, historyVars
    <3>3. CASE Conversation(a)
      BY <3>3 DEF Conversation, Opened, Step, ConvoState, outVars, historyVars
    <3>4. CASE ConversationFails(a)
      <4>1. Hand(a) \in Pairs
        BY <3>4 DEF ConversationFails, Hand, Pairs
      <4>2. CASE Ends(a)
        BY <3>4, <4>1, <4>2 DEF ConversationFails, Ends, Step, RowStatus, tableVars, outVars
      <4>3. CASE Goes(a, "count") /\ cut' = cut
        BY <3>4, <4>1, <4>3 DEF ConversationFails, Step, tableVars, outVars
      <4> QED
        BY <3>4, <4>2, <4>3 DEF ConversationFails
    <3> QED
      BY <2>3, <3>1, <3>2, <3>3, <3>4 DEF Stores
  <2>4. ASSUME NEW a \in Actors, Tells(a) PROVE (TypeOK /\ Control)'
    <3>1. Hand(a) \in Pairs
      BY <2>4 DEF Tells, Count, Publish, Hand, Pairs
    <3>2. CASE Count(a)
      BY <3>1, <3>2 DEF Count, Step, tableVars, historyVars
    <3>3. CASE Publish(a)
      BY <3>1, <3>3 DEF Publish, Ends, Step, RowStatus, tableVars, historyVars
    <3> QED
      BY <2>4, <3>2, <3>3 DEF Tells
  <2>5. ASSUME NEW a \in Actors, Sends(a) PROVE (TypeOK /\ Control)'
    <3>1. ASSUME NEW i \in Instances, NEW m \in OutIds, Sent(a, i, m) PROVE (TypeOK /\ Control)'
      BY <3>1 DEF Sent, Arrives, Step, tableVars, outVars, historyVars
    <3>2. CASE Save(a)
      <4>1. CASE Ends(a) /\ status' = status
        BY <3>2, <4>1 DEF Save, Ends, Step, RowStatus, outVars, historyVars
      <4>2. CASE Goes(a, "bump") /\ status' = [status EXCEPT ![id[a]] = "sent"]
        BY <3>2, <4>2 DEF Save, Step, RowStatus, outVars, historyVars
      <4> QED
        BY <3>2, <4>1, <4>2 DEF Save
    <3>3. CASE Bump(a)
      BY <3>3 DEF Bump, Ends, Opened, Step, RowStatus, ConvoState, outVars, historyVars
    <3> QED
      BY <2>5, <3>1, <3>2, <3>3 DEF Sends
  <2>6. ASSUME NEW a \in Actors, Receipts(a) PROVE (TypeOK /\ Control)'
    <3>1. ASSUME NEW t \in ReceiptType, NEW ms \in SUBSET OutIds, Receipt(a, t, ms)
          PROVE (TypeOK /\ Control)'
      <4>1. mapReceiptStatus(t) \in RowStatus /\ Rank(t) \in 0..3
        BY DEF mapReceiptStatus, RowStatus, Rank
      <4>2. rank' \in [OutIds -> 0..3] /\ disordered' \subseteq OutIds
        BY <3>1, <4>1 DEF Receipt
      <4> QED
        BY <3>1, <4>1, <4>2 DEF Receipt, Arrives, Step, tableVars, outVars
    <3>2. ASSUME NEW m \in OutIds, LookUp(a, m) PROVE (TypeOK /\ Control)'
      BY <3>2 DEF LookUp, Step, tableVars, outVars, historyVars
    <3>3. CASE UpdateStatus(a)
      BY <3>3 DEF UpdateStatus, Step, outVars, historyVars
    <3>4. CASE ReceiptDone(a)
      BY <3>4 DEF ReceiptDone, Ends, Step, RowStatus, tableVars, outVars, historyVars
    <3> QED
      BY <2>6, <3>1, <3>2, <3>3, <3>4 DEF Receipts
  <2>7. ASSUME NEW a \in Actors, Edits(a) PROVE (TypeOK /\ Control)'
    <3>1. ASSUME NEW i \in Instances, NEW s \in ConvoState \cup {None}, ReadConversation(a, i, s)
          PROVE (TypeOK /\ Control)'
      BY <3>1 DEF ReadConversation, Arrives, Step, tableVars, outVars
    <3>2. CASE WriteConversation(a)
      BY <3>2 DEF WriteConversation, Ends, Step, RowStatus, outVars, historyVars
    <3> QED
      BY <2>7, <3>1, <3>2 DEF Edits
  <2>8. CASE Restart
    <3>1. \A a \in Actors : pc[a] \in {"convo", "count", "publish"} => Hand(a) \in Pairs
      BY DEF Hand, Pairs
    <3>2. cut' \subseteq Pairs /\ missed' \subseteq Pairs
      BY <2>8, <3>1 DEF Restart
    <3> QED
      BY <2>8, <3>2 DEF Restart, Step, RowStatus, tableVars, outVars
  <2> QED
    BY <2>1, <2>2, <2>3, <2>4, <2>5, <2>6, <2>7, <2>8 DEF Next
<1> QED
  BY <1>1, <1>2, PTL DEF Spec
-----------------------------------------------------------------------------
(* An actor is on the way to announce the message of the pair p. *)
Telling(a, p) == Hand(a) = p /\ pc[a] \in {"convo", "count", "publish"}

(* A step of a that leaves the others where they are. *)
LEMMA OthersStay ==
    ASSUME TypeOK, NEW a \in Actors, NEW s \in Step, pc' = [pc EXCEPT ![a] = s],
           \A b \in Actors \ {a} : box'[b] = box[b] /\ id'[b] = id[b]
    PROVE /\ pc'[a] = s
          /\ \A b \in Actors \ {a} : pc'[b] = pc[b] /\ Hand(b)' = Hand(b)
          /\ \A b \in Actors \ {a}, p \in Pairs : Telling(b, p)' <=> Telling(b, p)
BY DEF TypeOK, Hand, Telling

(* What a step has to keep for StoredAnnounced. *)
LEMMA StoredCarries ==
    ASSUME TypeOK, TypeOK', StoredAnnounced,
           cut \subseteq cut',
           \A p \in Pairs : announced[p] > 0 => announced'[p] > 0,
           \A m \in InIds : owner'[m] # None =>
               \/ owner'[m] = owner[m]
               \/ \E a \in Actors : Telling(a, <<owner[m], m>>)',
           \A b \in Actors, p \in Pairs :
               Telling(b, p) => Telling(b, p)' \/ p \in cut' \/ announced'[p] > 0
    PROVE StoredAnnounced'
<1> SUFFICES ASSUME NEW m \in InIds, owner'[m] # None, owner'[m] = owner[m]
             PROVE \/ announced'[<<owner'[m], m>>] > 0
                   \/ <<owner'[m], m>> \in cut'
                   \/ \E a \in Actors : Telling(a, <<owner[m], m>>)'
  BY DEF StoredAnnounced, Telling
<1>1. <<owner[m], m>> \in Pairs
  BY DEF TypeOK, Pairs
<1>2. \/ announced[<<owner[m], m>>] > 0
      \/ <<owner[m], m>> \in cut
      \/ \E a \in Actors : Telling(a, <<owner[m], m>>)
  BY DEF StoredAnnounced, Telling
<1> QED
  BY <1>1, <1>2

(* A step of a that moves it, and neither stores a row nor announces. *)
LEMMA QuietForStored ==
    ASSUME TypeOK, TypeOK', StoredAnnounced, NEW a \in Actors, NEW s \in Step,
           pc' = [pc EXCEPT ![a] = s],
           \A b \in Actors \ {a} : box'[b] = box[b] /\ id'[b] = id[b],
           owner' = owner, announced' = announced, cut \subseteq cut',
           pc[a] \notin {"convo", "count", "publish"}
    PROVE StoredAnnounced'
<1>1. \A b \in Actors, p \in Pairs : Telling(b, p) => Telling(b, p)'
  BY OthersStay DEF Telling
<1> QED
  BY <1>1, StoredCarries

(* A message that is stored is announced: the row is there before the         *)
(* announcement, and nothing but a failure or a restart comes between.      *)
THEOREM EveryStoredAnnounced == Spec => []StoredAnnounced
<1>1. Init => StoredAnnounced
  BY DEF Init, StoredAnnounced
<1>2. TypeOK /\ TypeOK' /\ Control /\ StoredAnnounced /\ [Next]_vars => StoredAnnounced'
  <2> SUFFICES ASSUME TypeOK, TypeOK', Control, StoredAnnounced, [Next]_vars
               PROVE StoredAnnounced'
    OBVIOUS
  <2> USE DEF At, GoTo, Goes
  <2>1. CASE UNCHANGED vars
    BY <2>1 DEF vars, tableVars, outVars, actorVars, historyVars, StoredAnnounced, Hand
  <2>2. ASSUME NEW a \in Actors, Receives(a) PROVE StoredAnnounced'
    <3>1. PICK i \in Instances, m \in InIds : Receive(a, i, m)
      BY <2>2 DEF Receives
    <3>2. PICK s \in {"idle", "insert"} : pc' = [pc EXCEPT ![a] = s]
      BY <3>1 DEF Receive, Arrives, TypeOK
    <3> QED
      BY <3>1, <3>2, QuietForStored DEF Receive, Arrives, tableVars, outVars, Step, TypeOK
  <2>3. ASSUME NEW a \in Actors, Stores(a) PROVE StoredAnnounced'
    <3>1. CASE Insert(a)
      <4>1. PICK s \in {"convo", "count"} : pc' = [pc EXCEPT ![a] = s]
        BY <3>1 DEF Insert
      <4>2. /\ pc'[a] \in {"convo", "count"}
            /\ \A b \in Actors \ {a}, p \in Pairs : Telling(b, p)' <=> Telling(b, p)
        BY <3>1, <4>1, OthersStay DEF Insert, Step
      <4>3. Hand(a)' = Hand(a) /\ box[a] \in Instances /\ id[a] \in InIds
        BY <3>1 DEF Insert, Hand, Control, InHand
      <4>4. \A m \in InIds : owner'[m] = owner[m] \/ Telling(a, <<owner[m], m>>)'
        BY <3>1, <4>2, <4>3 DEF Insert, Telling, Hand, TypeOK
      <4>5. ~ \E p \in Pairs : Telling(a, p)
        BY <3>1 DEF Insert, Telling
      <4> QED
        BY <3>1, <4>2, <4>4, <4>5, StoredCarries DEF Insert, outVars, historyVars
    <3>2. CASE InsertFails(a)
      BY <3>2, QuietForStored DEF InsertFails, Ends, Step, tableVars, outVars, historyVars, TypeOK
    <3>3. CASE Conversation(a)
      <4>1. \A b \in Actors, p \in Pairs : Telling(b, p) => Telling(b, p)'
        BY <3>3 DEF Conversation, Telling, Hand, TypeOK
      <4> QED
        BY <3>3, <4>1, StoredCarries DEF Conversation, outVars, historyVars
    <3>4. CASE ConversationFails(a)
      <4>1. \A b \in Actors, p \in Pairs : Telling(b, p) => Telling(b, p)' \/ p \in cut'
        BY <3>4 DEF ConversationFails, Ends, Telling, Hand, TypeOK
      <4> QED
        BY <3>4, <4>1, StoredCarries DEF ConversationFails, tableVars, outVars
    <3> QED
      BY <2>3, <3>1, <3>2, <3>3, <3>4 DEF Stores
  <2>4. ASSUME NEW a \in Actors, Tells(a) PROVE StoredAnnounced'
    <3>1. CASE Count(a)
      <4>1. \A b \in Actors, p \in Pairs : Telling(b, p) => Telling(b, p)'
        BY <3>1 DEF Count, Telling, Hand, TypeOK
      <4> QED
        BY <3>1, <4>1, StoredCarries DEF Count, tableVars, historyVars
    <3>2. CASE Publish(a)
      <4>1. Hand(a) \in Pairs
        BY <3>2 DEF Publish, Control, InHand, Hand, Pairs
      <4>2. \A p \in Pairs : announced[p] > 0 => announced'[p] > 0
        BY <3>2, <4>1 DEF Publish, TypeOK
      <4>3. announced'[Hand(a)] > 0
        BY <3>2, <4>1 DEF Publish, TypeOK
      <4>4. \A b \in Actors, p \in Pairs : Telling(b, p) => Telling(b, p)' \/ announced'[p] > 0
        BY <3>2, <4>3 DEF Publish, Ends, Telling, Hand, TypeOK
      <4> QED
        BY <3>2, <4>2, <4>4, StoredCarries DEF Publish, tableVars, historyVars
    <3> QED
      BY <2>4, <3>1, <3>2 DEF Tells
  <2>5. ASSUME NEW a \in Actors, Sends(a) PROVE StoredAnnounced'
    <3>1. PICK s \in {"save", "bump", "idle"} : pc' = [pc EXCEPT ![a] = s]
      BY <2>5 DEF Sends, Sent, Save, Bump, Ends
    <3>2. /\ owner' = owner /\ announced' = announced /\ cut' = cut
          /\ pc[a] \in {"idle", "save", "bump"}
          /\ \A b \in Actors \ {a} : box'[b] = box[b] /\ id'[b] = id[b]
      BY <2>5 DEF Sends, Sent, Save, Bump, Ends, Arrives, tableVars, outVars, historyVars, TypeOK
    <3> QED
      BY <3>1, <3>2, QuietForStored DEF Step
  <2>6. ASSUME NEW a \in Actors, Receipts(a) PROVE StoredAnnounced'
    <3>1. PICK s \in {"idle", "receipt", "update"} : pc' = [pc EXCEPT ![a] = s]
      BY <2>6 DEF Receipts, Receipt, LookUp, UpdateStatus, ReceiptDone, Ends, Arrives, TypeOK
    <3>2. /\ owner' = owner /\ announced' = announced /\ cut' = cut
          /\ pc[a] \in {"idle", "receipt", "update"}
          /\ \A b \in Actors \ {a} : box'[b] = box[b] /\ id'[b] = id[b]
      BY <2>6 DEF Receipts, Receipt, LookUp, UpdateStatus, ReceiptDone, Ends, Arrives, tableVars,
         outVars, historyVars, TypeOK
    <3> QED
      BY <3>1, <3>2, QuietForStored DEF Step
  <2>7. ASSUME NEW a \in Actors, Edits(a) PROVE StoredAnnounced'
    <3>1. PICK s \in {"idle", "write"} : pc' = [pc EXCEPT ![a] = s]
      BY <2>7 DEF Edits, ReadConversation, WriteConversation, Ends
    <3>2. /\ owner' = owner /\ announced' = announced /\ cut' = cut
          /\ pc[a] \in {"idle", "write"}
          /\ \A b \in Actors \ {a} : box'[b] = box[b] /\ id'[b] = id[b]
      BY <2>7 DEF Edits, ReadConversation, WriteConversation, Ends, Arrives, tableVars, outVars,
         historyVars, TypeOK
    <3> QED
      BY <3>1, <3>2, QuietForStored DEF Step
  <2>8. CASE Restart
    <3>1. \A b \in Actors, p \in Pairs : Telling(b, p) => p \in cut'
      BY <2>8 DEF Restart, Telling
    <3> QED
      BY <2>8, <3>1, StoredCarries DEF Restart, tableVars, outVars
  <2> QED
    BY <2>1, <2>2, <2>3, <2>4, <2>5, <2>6, <2>7, <2>8 DEF Next
<1> QED
  BY <1>1, <1>2, InboundTypes, PTL DEF Spec
-----------------------------------------------------------------------------
(* Until two handlers overlap, a message is in one pair of hands at a time,   *)
(* before its row is there or after; what was counted and announced says    *)
(* how far that handler has come.                                          *)
Once(p) ==
    /\ \A a, b \in Actors :
          pc[a] \in InHand /\ pc[b] \in InHand /\ Hand(a) = p /\ Hand(b) = p => a = b
    /\ owner[p[2]] = None =>
          received[p] = 0 /\ announced[p] = 0 /\ \A a \in Actors : ~Telling(a, p)
    /\ owner[p[2]] = p[1] => \A a \in Actors : pc[a] = "insert" => Hand(a) # p
    /\ \A a \in Actors : Telling(a, p) =>
          announced[p] = 0 /\ (pc[a] # "publish" => received[p] = 0)
    /\ received[p] <= 1 /\ announced[p] <= 1
OnceInv == \A p \in Pairs \ overlapped : owner[p[2]] \in {None, p[1]} => Once(p)

(* A step of a that moves it between places without a message in hand. *)
LEMMA QuietForOnce ==
    ASSUME TypeOK, TypeOK', OnceInv, NEW a \in Actors, NEW s \in Step,
           pc' = [pc EXCEPT ![a] = s],
           \A b \in Actors \ {a} : box'[b] = box[b] /\ id'[b] = id[b],
           owner' = owner, received' = received, announced' = announced,
           overlapped \subseteq overlapped', s \notin InHand
    PROVE OnceInv'
<1>0. /\ pc'[a] = s
      /\ \A b \in Actors \ {a} : pc'[b] = pc[b] /\ Hand(b)' = Hand(b)
  BY DEF TypeOK, Hand
<1>1. \A b \in Actors : pc'[b] \in InHand => b # a /\ pc'[b] = pc[b] /\ Hand(b)' = Hand(b)
  BY <1>0
<1>2. \A b \in Actors, p \in Pairs : Telling(b, p)' => b # a /\ Telling(b, p)
  BY <1>1, OthersStay DEF Telling, InHand
<1> SUFFICES ASSUME NEW p \in Pairs \ overlapped, owner[p[2]] \in {None, p[1]}, Once(p)
             PROVE Once(p)'
  BY DEF OnceInv
<1> QED
  BY <1>1, <1>2 DEF Once, InHand

(* A message delivered again is counted and announced once: the look-up and   *)
(* the primary key see to it, unless two handlers overlapped.              *)
THEOREM ReceivedAtMostOnce == Spec => []ReceivedOnce
<1>1. Init => OnceInv
  <2> SUFFICES ASSUME Init, NEW p \in Pairs PROVE Once(p)
    BY DEF OnceInv
  <2> QED
    BY DEF Init, Once, InHand, Telling
<1>2. TypeOK /\ TypeOK' /\ Control /\ OnceInv /\ [Next]_vars => OnceInv'
  <2> SUFFICES ASSUME TypeOK, TypeOK', Control, OnceInv, [Next]_vars
               PROVE OnceInv'
    OBVIOUS
  <2> USE DEF At, GoTo, Goes
  <2>1. CASE UNCHANGED vars
    BY <2>1 DEF vars, tableVars, outVars, actorVars, historyVars, OnceInv, Once, Telling, Hand
  <2>2. ASSUME NEW a \in Actors, Receives(a) PROVE OnceInv'
    <3>1. PICK i \in Instances, m \in InIds : Receive(a, i, m)
      BY <2>2 DEF Receives
    <3>2. CASE UNCHANGED <<pc, box, id, overlapped>>
      BY <3>1, <3>2 DEF Receive, tableVars, outVars, OnceInv, Once, Telling, Hand
    <3>3. CASE owner[m] # i /\ pc' = [pc EXCEPT ![a] = "insert"]
               /\ box' = [box EXCEPT ![a] = i] /\ id' = [id EXCEPT ![a] = m]
               /\ overlapped' = IF \E b \in Actors : pc[b] = "insert" /\ Hand(b) = <<i, m>>
                                THEN overlapped \cup {<<i, m>>} ELSE overlapped
      <4>1. /\ pc'[a] = "insert" /\ Hand(a)' = <<i, m>>
            /\ \A b \in Actors \ {a} : pc'[b] = pc[b] /\ Hand(b)' = Hand(b)
        BY <3>3 DEF Hand, TypeOK
      <4>2. \A b \in Actors, p \in Pairs : Telling(b, p)' <=> b # a /\ Telling(b, p)
        BY <3>1, <4>1 DEF Telling, Receive, Arrives
      <4> SUFFICES ASSUME NEW p \in Pairs \ overlapped', owner[p[2]] \in {None, p[1]}, Once(p)
                   PROVE Once(p)'
        BY <3>1, <3>3 DEF OnceInv, Receive, tableVars
      <4>3. p = <<i, m>> => \A b \in Actors \ {a} : pc[b] \in InHand => Hand(b) # p
        BY <3>3 DEF Once, Telling, InHand
      <4>4. UNCHANGED <<owner, received, announced>>
        BY <3>1 DEF Receive, tableVars, outVars
      <4>5. owner[p[2]] = p[1] => p # <<i, m>>
        BY <3>3
      <4> QED
        BY <4>1, <4>2, <4>3, <4>4, <4>5 DEF Once, InHand
    <3> QED
      BY <3>1, <3>2, <3>3 DEF Receive
  <2>3. ASSUME NEW a \in Actors, Stores(a) PROVE OnceInv'
    <3>1. CASE Insert(a)
      <4>1. PICK s \in {"convo", "count"} :
                /\ pc' = [pc EXCEPT ![a] = s]
                /\ owner[id[a]] = None => s = "convo" /\ owner' = [owner EXCEPT ![id[a]] = box[a]]
                /\ owner[id[a]] # None => owner' = owner
        BY <3>1 DEF Insert
      <4>2. /\ pc[a] = "insert" /\ pc'[a] = s /\ Hand(a) \in Pairs
            /\ \A b \in Actors : Hand(b)' = Hand(b)
            /\ \A b \in Actors \ {a} : pc'[b] = pc[b]
        BY <3>1, <4>1 DEF Insert, Hand, Pairs, Control, InHand, TypeOK
      <4>3. Hand(a)[1] = box[a] /\ Hand(a)[2] = id[a] /\ box[a] # None
        BY <4>2, InboundAssumption DEF Hand, Pairs
      <4> SUFFICES ASSUME NEW p \in Pairs \ overlapped, owner'[p[2]] \in {None, p[1]} PROVE Once(p)'
        BY <3>1 DEF Insert, historyVars, OnceInv
      <4>4. UNCHANGED <<received, announced>>
        BY <3>1 DEF Insert, outVars
      <4>5. owner[p[2]] \in {None, p[1]}
        BY <4>1 DEF TypeOK, Pairs
      <4>6. Once(p)
        BY <4>5 DEF OnceInv
      <4>7. CASE p = Hand(a)
        <5>1. owner[p[2]] = None
          BY <4>2, <4>5, <4>6, <4>7 DEF Once
        <5>2. owner'[p[2]] = p[1] /\ p[1] # None /\ s = "convo"
          BY <4>1, <4>3, <4>7, <5>1 DEF TypeOK, Pairs
        <5>3. \A b \in Actors : pc[b] \in InHand /\ Hand(b) = p => b = a
          BY <4>2, <4>6, <4>7 DEF Once, InHand
        <5>4. received[p] = 0 /\ announced[p] = 0
          BY <4>6, <5>1 DEF Once
        <5> QED
          BY <4>2, <4>4, <5>2, <5>3, <5>4 DEF Once, Telling, InHand
      <4>8. CASE p # Hand(a)
        <5>0. p = <<p[1], p[2]>> /\ Hand(a) = <<box[a], id[a]>>
          BY DEF Pairs, Hand
        <5>1. owner'[p[2]] = owner[p[2]]
          BY <4>1, <4>3, <4>5, <4>8, <5>0 DEF TypeOK, Pairs
        <5>2. \A b \in Actors : Hand(b) = p => pc'[b] = pc[b]
          BY <4>2, <4>8
        <5> QED
          BY <4>2, <4>4, <4>6, <5>1, <5>2 DEF Once, Telling
      <4> QED
        BY <4>7, <4>8
    <3>2. CASE InsertFails(a)
      BY <3>2, QuietForOnce DEF InsertFails, Ends, Step, InHand, tableVars, outVars, historyVars, TypeOK
    <3>3. CASE Conversation(a) \/ (ConversationFails(a) /\ Goes(a, "count"))
      <4>1. /\ pc[a] = "convo" /\ pc' = [pc EXCEPT ![a] = "count"]
            /\ UNCHANGED <<box, id, owner, received, announced, overlapped>>
        BY <3>3 DEF Conversation, ConversationFails, tableVars, outVars, historyVars
      <4>2. /\ pc'[a] = "count"
            /\ \A b \in Actors \ {a} : pc'[b] = pc[b]
            /\ \A b \in Actors : Hand(b)' = Hand(b)
        BY <4>1 DEF Hand, TypeOK
      <4>3. \A b \in Actors :
               /\ pc'[b] \in InHand <=> pc[b] \in InHand
               /\ pc'[b] = "insert" <=> pc[b] = "insert"
               /\ pc'[b] = "publish" <=> pc[b] = "publish"
        BY <4>1, <4>2 DEF InHand
      <4>4. \A b \in Actors, p \in Pairs : Telling(b, p)' <=> Telling(b, p)
        BY <4>1, <4>2 DEF Telling
      <4> SUFFICES ASSUME NEW p \in Pairs \ overlapped, owner[p[2]] \in {None, p[1]}, Once(p)
                   PROVE Once(p)'
        BY <4>1 DEF OnceInv
      <4> QED
        BY <4>1, <4>2, <4>3, <4>4 DEF Once
    <3>4. CASE ConversationFails(a) /\ Ends(a)
      BY <3>4, QuietForOnce DEF ConversationFails, Ends, Step, InHand, tableVars, outVars, TypeOK
    <3> QED
      BY <2>3, <3>1, <3>2, <3>3, <3>4 DEF Stores, ConversationFails
  <2>4. ASSUME NEW a \in Actors, Tells(a) PROVE OnceInv'
    <3>0. Hand(a) \in Pairs
      BY <2>4 DEF Tells, Count, Publish, Control, InHand, Hand, Pairs
    <3>1. CASE Count(a)
      <4>1. /\ pc[a] = "count" /\ pc'[a] = "publish"
            /\ \A b \in Actors : Hand(b)' = Hand(b)
            /\ \A b \in Actors \ {a} : pc'[b] = pc[b]
            /\ UNCHANGED <<owner, announced, overlapped>>
        BY <3>1 DEF Count, Hand, TypeOK, tableVars, historyVars
      <4>2. \A p \in Pairs : /\ p # Hand(a) => received'[p] = received[p]
                             /\ p = Hand(a) => received'[p] \in {received[p], received[p] + 1}
        BY <3>0, <3>1 DEF Count, TypeOK
      <4> SUFFICES ASSUME NEW p \in Pairs \ overlapped, owner[p[2]] \in {None, p[1]}, Once(p)
                   PROVE Once(p)'
        BY <4>1 DEF OnceInv
      <4>3. CASE p = Hand(a)
        <5>1. Telling(a, p) /\ received[p] = 0 /\ announced[p] = 0 /\ owner[p[2]] = p[1]
          BY <4>1, <4>3 DEF Once, Telling
        <5>2. \A b \in Actors : pc[b] \in InHand /\ Hand(b) = p => b = a
          BY <4>1, <4>3 DEF Once, InHand
        <5>3. p[1] # None
          BY InboundAssumption DEF Pairs
        <5> QED
          BY <4>1, <4>2, <4>3, <5>1, <5>2, <5>3 DEF Once, Telling, InHand
      <4>4. CASE p # Hand(a)
        BY <4>1, <4>2, <4>4 DEF Once, Telling, InHand
      <4> QED
        BY <4>3, <4>4
    <3>2. CASE Publish(a)
      <4>1. /\ pc[a] = "publish" /\ pc'[a] = "idle"
            /\ \A b \in Actors \ {a} : pc'[b] = pc[b] /\ Hand(b)' = Hand(b)
            /\ UNCHANGED <<owner, received, overlapped>>
        BY <3>2 DEF Publish, Ends, Hand, TypeOK, tableVars, historyVars
      <4>2. \A p \in Pairs : /\ p # Hand(a) => announced'[p] = announced[p]
                             /\ p = Hand(a) => announced'[p] = announced[p] + 1
        BY <3>0, <3>2 DEF Publish, TypeOK
      <4> SUFFICES ASSUME NEW p \in Pairs \ overlapped, owner[p[2]] \in {None, p[1]}, Once(p)
                   PROVE Once(p)'
        BY <4>1 DEF OnceInv
      <4>3. CASE p = Hand(a)
        <5>1. Telling(a, p) /\ announced[p] = 0 /\ owner[p[2]] = p[1]
          BY <4>1, <4>3 DEF Once, Telling
        <5>2. \A b \in Actors : pc[b] \in InHand /\ Hand(b) = p => b = a
          BY <4>1, <4>3 DEF Once, InHand
        <5>3. p[1] # None
          BY InboundAssumption DEF Pairs
        <5> QED
          BY <4>1, <4>2, <4>3, <5>1, <5>2, <5>3 DEF Once, Telling, InHand
      <4>4. CASE p # Hand(a)
        BY <4>1, <4>2, <4>4 DEF Once, Telling, InHand
      <4> QED
        BY <4>3, <4>4
    <3> QED
      BY <2>4, <3>1, <3>2 DEF Tells
  <2>5. ASSUME NEW a \in Actors, Sends(a) \/ Receipts(a) \/ Edits(a) PROVE OnceInv'
    <3>1. PICK s \in {"save", "bump", "idle", "receipt", "update", "write"} :
              pc' = [pc EXCEPT ![a] = s]
      BY <2>5 DEF Sends, Sent, Save, Bump, Receipts, Receipt, LookUp, UpdateStatus, ReceiptDone,
         Edits, ReadConversation, WriteConversation, Ends, Arrives, TypeOK
    <3>2. /\ UNCHANGED <<owner, received, announced, overlapped>>
          /\ \A b \in Actors \ {a} : box'[b] = box[b] /\ id'[b] = id[b]
      BY <2>5 DEF Sends, Sent, Save, Bump, Receipts, Receipt, LookUp, UpdateStatus, ReceiptDone,
         Edits, ReadConversation, WriteConversation, Ends, Arrives, TypeOK, tableVars, outVars,
         historyVars
    <3>3. s \in Step /\ s \notin InHand
      BY DEF Step, InHand
    <3> QED
      BY <3>1, <3>2, <3>3, QuietForOnce
  <2>6. CASE Restart
    <3>1. \A a \in Actors : pc'[a] = "idle"
      BY <2>6 DEF Restart
    <3>2. UNCHANGED <<owner, received, announced, overlapped>>
      BY <2>6 DEF Restart, tableVars, outVars
    <3> QED
      BY <3>1, <3>2 DEF OnceInv, Once, Telling, InHand
  <2> QED
    BY <2>1, <2>2, <2>3, <2>4, <2>5, <2>6 DEF Next
<1>3. OnceInv => ReceivedOnce
  BY DEF OnceInv, Once, ReceivedOnce
<1> QED
  BY <1>1, <1>2, <1>3, InboundTypes, PTL DEF Spec
-----------------------------------------------------------------------------
(* Where a message is between its row and its conversation. *)
Bumping ==
    /\ \A a \in Actors : pc[a] = "convo" => owner[id[a]] = box[a] /\ Hand(a) \notin missed
    /\ \A a, b \in Actors : pc[a] = "convo" /\ pc[b] = "convo" /\ Hand(a) = Hand(b) => a = b
    /\ \A p \in missed : owner[p[2]] = p[1]
UnreadInv == Bumping /\ UnreadExact

(* A step of a that has nothing to do with a conversation. *)
LEMMA QuietForUnread ==
    ASSUME TypeOK, TypeOK', UnreadInv, NEW a \in Actors, NEW s \in Step,
           pc' = [pc EXCEPT ![a] = s],
           \A b \in Actors \ {a} : box'[b] = box[b] /\ id'[b] = id[b],
           UNCHANGED <<owner, missed, unread>>,
           pc[a] # "convo", s # "convo"
    PROVE UnreadInv'
<1>1. \A b \in Actors : pc[b] = "convo" <=> pc'[b] = "convo"
  BY OthersStay
<1>2. \A b \in Actors : pc[b] = "convo" => /\ Hand(b)' = Hand(b)
                                         /\ id'[b] = id[b] /\ box'[b] = box[b]
  BY OthersStay
<1>3. Bumping'
  BY <1>1, <1>2 DEF UnreadInv, Bumping
<1>4. \A i \in Instances : Counted(i)' = Counted(i)
  BY <1>1, <1>2 DEF Counted, At
<1> QED
  BY <1>3, <1>4 DEF UnreadInv, UnreadExact

(* The unread count of a conversation is the number of its messages.        *)
THEOREM UnreadCounted == Spec => []UnreadExact
<1>1. Init => UnreadInv
  <2>1. Init => Bumping
    BY DEF Init, Bumping
  <2>2. Init => \A i \in Instances : Counted(i) = {}
    BY InboundAssumption DEF Init, Counted
  <2>3. Cardinality({}) = 0
    BY FS_EmptySet
  <2>4. Init => UnreadExact
    <3> SUFFICES ASSUME Init, NEW i \in Instances PROVE unread[i] = Cardinality(Counted(i))
      BY DEF UnreadExact
    <3>1. Counted(i) = {}
      BY <2>2
    <3>2. unread[i] = 0
      BY DEF Init
    <3> QED
      BY <2>3, <3>1, <3>2
  <2> QED
    BY <2>1, <2>4 DEF UnreadInv
<1>2. TypeOK /\ TypeOK' /\ Control /\ UnreadInv /\ [Next]_vars => UnreadInv'
  <2> SUFFICES ASSUME TypeOK, TypeOK', Control, UnreadInv, [Next]_vars
               PROVE UnreadInv'
    OBVIOUS
  <2> USE DEF At, GoTo, Goes
  <2>1. CASE UNCHANGED vars
    BY <2>1 DEF vars, tableVars, outVars, actorVars, historyVars, UnreadInv, Bumping, UnreadExact,
       Counted, Hand
  <2>2. ASSUME NEW a \in Actors, Receives(a) PROVE UnreadInv'
    <3>1. PICK i \in Instances, m \in InIds : Receive(a, i, m)
      BY <2>2 DEF Receives
    <3>2. PICK s \in {"idle", "insert"} : pc' = [pc EXCEPT ![a] = s]
      BY <3>1 DEF Receive, Arrives, TypeOK
    <3> QED
      BY <3>1, <3>2, QuietForUnread DEF Receive, Arrives, tableVars, Step, TypeOK
  <2>3. ASSUME NEW a \in Actors, Stores(a) PROVE UnreadInv'
    <3>0. box[a] \in Instances /\ id[a] \in InIds /\ Hand(a) = <<box[a], id[a]>> /\ Hand(a) \in Pairs
      BY <2>3 DEF Stores, Insert, InsertFails, Conversation, ConversationFails, Control, InHand, Hand, Pairs
    <3>1. CASE Insert(a) /\ owner[id[a]] # None
      BY <3>1, QuietForUnread DEF Insert, Step, historyVars, TypeOK
    <3>2. CASE Insert(a) /\ owner[id[a]] = None
      <4>1. /\ pc'[a] = "convo" /\ pc[a] = "insert" /\ owner' = [owner EXCEPT ![id[a]] = box[a]]
            /\ UNCHANGED <<box, id, missed, unread>>
            /\ \A b \in Actors \ {a} : pc'[b] = pc[b]
            /\ \A b \in Actors : Hand(b)' = Hand(b)
        BY <3>2 DEF Insert, historyVars, TypeOK, Hand
      <4>2. \A b \in Actors : pc[b] = "convo" => /\ b # a /\ id[b] # id[a] /\ Hand(b) # Hand(a)
        <5> SUFFICES ASSUME NEW b \in Actors, pc[b] = "convo"
                     PROVE  b # a /\ id[b] # id[a] /\ Hand(b) # Hand(a)
          OBVIOUS
        <5>1. owner[id[b]] # None
          BY InboundAssumption DEF UnreadInv, Bumping, Control, InHand, Hand
        <5> QED
          BY <3>2, <4>1, <5>1 DEF Hand
      <4>3. Hand(a) \notin missed /\ \A p \in missed : p[2] # id[a]
        BY <3>0, <3>2, InboundAssumption DEF UnreadInv, Bumping, TypeOK, Pairs
      <4>4. Bumping'
        <5>1. ASSUME NEW b \in Actors, pc'[b] = "convo"
              PROVE owner'[id'[b]] = box'[b] /\ Hand(b)' \notin missed'
          <6>1. CASE b = a
            BY <3>0, <4>1, <4>3, <6>1 DEF TypeOK
          <6>2. CASE b # a
            BY <4>1, <4>2, <5>1, <6>2 DEF UnreadInv, Bumping, TypeOK, Control, InHand
          <6> QED
            BY <6>1, <6>2
        <5>2. ASSUME NEW b \in Actors, NEW c \in Actors, pc'[b] = "convo", pc'[c] = "convo",
                     Hand(b)' = Hand(c)'
              PROVE b = c
          BY <4>1, <4>2, <5>2 DEF UnreadInv, Bumping
        <5>3. \A p \in missed' : owner'[p[2]] = p[1]
          <6> SUFFICES ASSUME NEW p \in missed PROVE owner'[p[2]] = p[1]
            BY <4>1
          <6>1. p[2] \in InIds /\ p[2] # id[a] /\ owner[p[2]] = p[1]
            BY <4>3 DEF TypeOK, Pairs, UnreadInv, Bumping
          <6> QED
            BY <4>1, <6>1 DEF TypeOK
        <5> QED
          BY <5>1, <5>2, <5>3 DEF Bumping
      <4>5. ASSUME NEW i \in Instances PROVE Counted(i)' = Counted(i)
        <5>1. ASSUME NEW m \in InIds PROVE m \in Counted(i)' <=> m \in Counted(i)
          <6>1. CASE m = id[a]
            BY <3>0, <3>2, <4>1, <6>1, InboundAssumption DEF Counted, TypeOK
          <6>2. CASE m # id[a]
            <7>1. owner'[m] = owner[m] /\ Hand(a) # <<i, m>>
              BY <3>0, <4>1, <6>2 DEF TypeOK
            <7> QED
              BY <4>1, <7>1 DEF Counted
          <6> QED
            BY <6>1, <6>2
        <5> QED
          BY <5>1 DEF Counted
      <4> QED
        BY <4>1, <4>4, <4>5 DEF UnreadInv, UnreadExact
    <3>3. CASE InsertFails(a)
      BY <3>3, QuietForUnread DEF InsertFails, Ends, Step, tableVars, historyVars, TypeOK
    <3>4. CASE Conversation(a) \/ ConversationFails(a)
      <4>1. /\ pc[a] = "convo" /\ pc'[a] # "convo" /\ owner' = owner
            /\ \A b \in Actors \ {a} : pc'[b] = pc[b] /\ Hand(b)' = Hand(b)
                                       /\ id'[b] = id[b] /\ box'[b] = box[b]
        BY <3>4 DEF Conversation, ConversationFails, Ends, TypeOK, Hand, tableVars
      <4>2. /\ owner[id[a]] = box[a] /\ Hand(a) \notin missed
            /\ \A b \in Actors \ {a} : pc[b] = "convo" => Hand(b) # Hand(a)
        BY <4>1 DEF UnreadInv, Bumping
      <4>3. missed' \in {missed, missed \cup {Hand(a)}}
        BY <3>4 DEF Conversation, ConversationFails, historyVars
      <4>4. Bumping'
        BY <3>0, <4>1, <4>2, <4>3 DEF UnreadInv, Bumping
      <4>5. CASE Conversation(a)
        <5>1. missed' = missed /\ unread' = [unread EXCEPT ![box[a]] = @ + 1]
          BY <4>5 DEF Conversation, historyVars
        <5>2. \A i \in Instances \ {box[a]} : Counted(i)' = Counted(i) /\ unread'[i] = unread[i]
          <6> SUFFICES ASSUME NEW i \in Instances \ {box[a]}
                       PROVE Counted(i)' = Counted(i) /\ unread'[i] = unread[i]
            OBVIOUS
          <6>1. \A m \in InIds : Hand(a) # <<i, m>>
            BY <3>0
          <6>2. Counted(i)' = Counted(i)
            BY <4>1, <5>1, <6>1 DEF Counted
          <6> QED
            BY <5>1, <6>2 DEF TypeOK
        <5>3. Counted(box[a])' = Counted(box[a]) \cup {id[a]} /\ id[a] \notin Counted(box[a])
          <6>1. ASSUME NEW m \in InIds, NEW i \in Instances, i = box[a]
                PROVE m \in Counted(i)' <=> m \in Counted(i) \/ m = id[a]
            BY <3>0, <4>1, <4>2, <5>1, <6>1 DEF Counted
          <6>2. id[a] \notin Counted(box[a])
            BY <3>0, <4>1 DEF Counted
          <6>3. box'[a] = box[a]
            BY <4>5 DEF Conversation
          <6> QED
            BY <3>0, <6>1, <6>2, <6>3 DEF Counted
        <5>4. IsFiniteSet(Counted(box[a]))
          BY InboundAssumption, FS_Subset DEF Counted
        <5>5. Cardinality(Counted(box[a]) \cup {id[a]}) = Cardinality(Counted(box[a])) + 1
          BY <5>3, <5>4, FS_AddElement
        <5>6. unread'[box[a]] = Cardinality(Counted(box[a]) \cup {id[a]})
          BY <3>0, <5>1, <5>5 DEF UnreadInv, UnreadExact, TypeOK
        <5>7. ASSUME NEW i \in Instances PROVE unread'[i] = Cardinality(Counted(i)')
          <6>1. CASE i = box[a]
            <7>1. Counted(i)' = Counted(box[a]) \cup {id[a]}
              BY <5>3, <6>1, <4>5 DEF Conversation
            <7> QED
              BY <7>1, <5>6, <6>1
          <6>2. CASE i # box[a]
            BY <5>2, <6>2 DEF UnreadInv, UnreadExact
          <6> QED
            BY <6>1, <6>2
        <5> QED
          BY <4>4, <5>7 DEF UnreadInv, UnreadExact
      <4>6. CASE ConversationFails(a)
        <5>1. missed' = missed \cup {Hand(a)} /\ unread' = unread
          BY <4>6 DEF ConversationFails, tableVars
        <5>2. \A i \in Instances : Counted(i)' = Counted(i)
          BY <4>1, <5>1 DEF Counted
        <5> QED
          BY <4>4, <5>1, <5>2 DEF UnreadInv, UnreadExact
      <4> QED
        BY <3>4, <4>5, <4>6
    <3> QED
      BY <2>3, <3>1, <3>2, <3>3, <3>4 DEF Stores
  <2>4. ASSUME NEW a \in Actors, Tells(a) PROVE UnreadInv'
    <3>1. PICK s \in {"publish", "idle"} : pc' = [pc EXCEPT ![a] = s]
      BY <2>4 DEF Tells, Count, Publish, Ends
    <3>2. /\ UNCHANGED <<owner, missed, unread>> /\ pc[a] # "convo"
          /\ \A b \in Actors \ {a} : box'[b] = box[b] /\ id'[b] = id[b]
      BY <2>4 DEF Tells, Count, Publish, Ends, tableVars, historyVars, TypeOK
    <3> QED
      BY <3>1, <3>2, QuietForUnread DEF Step
  <2>5. ASSUME NEW a \in Actors, Sends(a) \/ Receipts(a) \/ Edits(a) PROVE UnreadInv'
    <3>1. PICK s \in {"save", "bump", "idle", "receipt", "update", "write"} :
              pc' = [pc EXCEPT ![a] = s]
      BY <2>5 DEF Sends, Sent, Save, Bump, Receipts, Receipt, LookUp, UpdateStatus, ReceiptDone,
         Edits, ReadConversation, WriteConversation, Ends, Arrives, TypeOK
    <3>2. /\ UNCHANGED <<owner, missed, unread>> /\ pc[a] # "convo"
          /\ \A b \in Actors \ {a} : box'[b] = box[b] /\ id'[b] = id[b]
      BY <2>5 DEF Sends, Sent, Save, Bump, Receipts, Receipt, LookUp, UpdateStatus, ReceiptDone,
         Edits, ReadConversation, WriteConversation, Ends, Arrives, TypeOK, tableVars,
         historyVars
    <3> QED
      BY <3>1, <3>2, QuietForUnread DEF Step
  <2>6. CASE Restart
    <3>1. \A a \in Actors : pc'[a] = "idle"
      BY <2>6 DEF Restart
    <3>2. UNCHANGED <<owner, unread>>
      BY <2>6 DEF Restart, tableVars
    <3>3. missed' = missed \cup {Hand(a) : a \in {b \in Actors : pc[b] = "convo"}}
      BY <2>6 DEF Restart
    <3>4. \A a \in Actors : pc[a] = "convo" => owner[Hand(a)[2]] = Hand(a)[1]
      BY DEF UnreadInv, Bumping, Hand
    <3>5. Bumping'
      BY <3>1, <3>2, <3>3, <3>4 DEF UnreadInv, Bumping
    <3>6. \A i \in Instances : Counted(i)' = Counted(i)
      BY <3>1, <3>2, <3>3 DEF Counted
    <3> QED
      BY <3>2, <3>5, <3>6 DEF UnreadInv, UnreadExact
  <2> QED
    BY <2>1, <2>2, <2>3, <2>4, <2>5, <2>6 DEF Next
<1>3. UnreadInv => UnreadExact
  BY DEF UnreadInv
<1> QED
  BY <1>1, <1>2, <1>3, InboundTypes, PTL DEF Spec
-----------------------------------------------------------------------------
(* An UpdateConversation whose request names no state stores the one that is  *)
(* there, unless another one overlapped it.                                *)
Keeping ==
    \A a \in Actors : pc[a] = "write" =>
        /\ desk[box[a]] # None /\ writes[a] # None
        /\ box[a] \notin crossed =>
              /\ asks[a] \/ writes[a] = desk[box[a]]
              /\ \A b \in Actors : pc[b] = "write" /\ box[b] = box[a] => b = a

(* What StateStays says of a step. *)
StateStep ==
    \A i \in Instances :
        desk[i] \notin {None, desk'[i]} =>
            \E a \in Actors : /\ At(a, "write") /\ box[a] = i
                              /\ asks[a] \/ i \in crossed

(* A step of a that neither begins nor ends an UpdateConversation. *)
LEMMA QuietForState ==
    ASSUME TypeOK, Control, Keeping, NEW a \in Actors, NEW s \in Step,
           pc' = [pc EXCEPT ![a] = s], s # "write",
           \A b \in Actors \ {a} :
               box'[b] = box[b] /\ writes'[b] = writes[b] /\ asks'[b] = asks[b],
           \A i \in Instances : desk[i] # None => desk'[i] = desk[i],
           crossed' = crossed
    PROVE Keeping' /\ StateStep
<1>1. \A b \in Actors : pc'[b] = "write" => pc[b] = "write" /\ b # a /\ box[b] \in Instances
  BY DEF TypeOK, Control
<1> QED
  BY <1>1 DEF Keeping, StateStep

LEMMA StepKeeps == TypeOK /\ Control /\ Keeping /\ [Next]_vars => Keeping' /\ [StateStep]_vars
<1> SUFFICES ASSUME TypeOK, Control, Keeping, [Next]_vars
             PROVE  Keeping' /\ [StateStep]_vars
  OBVIOUS
<1> USE DEF At, GoTo, Goes
<1>1. CASE UNCHANGED vars
  BY <1>1 DEF vars, tableVars, outVars, actorVars, historyVars, Keeping
<1>2. ASSUME NEW a \in Actors, Receives(a) \/ Tells(a) \/ Receipts(a)
      PROVE  Keeping' /\ StateStep
  <2>1. PICK s \in {"idle", "insert", "publish", "receipt", "update"} :
            pc' = [pc EXCEPT ![a] = s]
    BY <1>2 DEF Receives, Receive, Tells, Count, Publish, Receipts, Receipt, LookUp,
       UpdateStatus, ReceiptDone, Ends, Arrives, TypeOK
  <2>2. /\ \A b \in Actors \ {a} :
               box'[b] = box[b] /\ writes'[b] = writes[b] /\ asks'[b] = asks[b]
        /\ desk' = desk /\ crossed' = crossed
    BY <1>2 DEF Receives, Receive, Tells, Count, Publish, Receipts, Receipt, LookUp,
       UpdateStatus, ReceiptDone, Ends, Arrives, TypeOK, tableVars, historyVars
  <2> QED
    BY <2>1, <2>2, QuietForState DEF Step
<1>3. ASSUME NEW a \in Actors, Stores(a) \/ Sends(a) PROVE Keeping' /\ StateStep
  <2>1. PICK s \in {"idle", "convo", "count", "save", "bump"} :
            pc' = [pc EXCEPT ![a] = s]
    BY <1>3 DEF Stores, Insert, InsertFails, Conversation, ConversationFails, Sends, Sent,
       Save, Bump, Ends, Arrives, TypeOK
  <2>2. /\ \A b \in Actors \ {a} :
               box'[b] = box[b] /\ writes'[b] = writes[b] /\ asks'[b] = asks[b]
        /\ crossed' = crossed
    BY <1>3 DEF Stores, Insert, InsertFails, Conversation, ConversationFails, Sends, Sent,
       Save, Bump, Ends, Arrives, TypeOK, tableVars, historyVars
  <2>3. desk' \in {desk, [desk EXCEPT ![box[a]] = Opened(@)]}
    BY <1>3 DEF Stores, Insert, InsertFails, Conversation, ConversationFails, Sends, Sent,
       Save, Bump, tableVars
  <2>4. \A i \in Instances : desk[i] # None => desk'[i] = desk[i]
    BY <2>3 DEF Opened, TypeOK
  <2> QED
    BY <2>1, <2>2, <2>4, QuietForState DEF Step
<1>4. ASSUME NEW a \in Actors, Edits(a) PROVE Keeping' /\ StateStep
  <2>1. ASSUME NEW i \in Instances, NEW s \in ConvoState \cup {None},
               ReadConversation(a, i, s)
        PROVE  Keeping' /\ StateStep
    <3>1. /\ pc' = [pc EXCEPT ![a] = "write"] /\ box' = [box EXCEPT ![a] = i]
          /\ writes'[a] = (IF s = None THEN desk[i] ELSE s) /\ asks'[a] = (s # None)
          /\ \A b \in Actors \ {a} : writes'[b] = writes[b] /\ asks'[b] = asks[b]
          /\ desk' = desk /\ desk[i] # None
      BY <2>1 DEF ReadConversation, TypeOK, tableVars
    <3>2. /\ crossed \subseteq crossed'
          /\ i \notin crossed' => \A b \in Actors : ~(pc[b] = "write" /\ box[b] = i)
      BY <2>1 DEF ReadConversation
    <3>3. pc[a] = "idle"
      BY <2>1 DEF ReadConversation, Arrives
    <3>4. Keeping'
      <4> SUFFICES ASSUME NEW b \in Actors, pc'[b] = "write"
                   PROVE  /\ desk'[box'[b]] # None /\ writes'[b] # None
                          /\ box'[b] \notin crossed' =>
                                /\ asks'[b] \/ writes'[b] = desk'[box'[b]]
                                /\ \A c \in Actors :
                                      pc'[c] = "write" /\ box'[c] = box'[b] => c = b
        BY DEF Keeping
      <4>1. CASE b = a
        BY <3>1, <3>2, <4>1 DEF TypeOK
      <4>2. CASE b # a
        <5>1. pc[b] = "write" /\ box'[b] = box[b] /\ pc'[a] = "write" /\ box'[a] = i
          BY <3>1, <4>2 DEF TypeOK
        <5>2. \A c \in Actors \ {a} : pc'[c] = pc[c] /\ box'[c] = box[c]
          BY <3>1 DEF TypeOK
        <5> QED
          BY <3>1, <3>2, <4>2, <5>1, <5>2 DEF Keeping
      <4> QED
        BY <4>1, <4>2
    <3> QED
      BY <3>1, <3>4 DEF StateStep
  <2>2. CASE WriteConversation(a)
    <3>1. /\ pc[a] = "write" /\ pc' = [pc EXCEPT ![a] = "idle"]
          /\ \A b \in Actors \ {a} :
                box'[b] = box[b] /\ writes'[b] = writes[b] /\ asks'[b] = asks[b]
          /\ desk' \in {[desk EXCEPT ![box[a]] = writes[a]], desk} /\ crossed' = crossed
      BY <2>2 DEF WriteConversation, Ends, TypeOK, historyVars
    <3>2. box[a] \in Instances /\ writes[a] \in ConvoState
      BY <3>1 DEF Control
    <3>3. \A i \in Instances : i # box[a] => desk'[i] = desk[i]
      BY <3>1 DEF TypeOK
    <3>4. desk'[box[a]] \in {writes[a], desk[box[a]]}
      BY <3>1, <3>2 DEF TypeOK
    <3>5. desk[box[a]] # None /\ writes[a] # None
      BY <3>1 DEF Keeping
    <3>6. Keeping'
      <4>1. \A b \in Actors : pc'[b] = "write" =>
                /\ b # a /\ pc[b] = "write" /\ box[b] \in Instances
                /\ box'[b] = box[b] /\ writes'[b] = writes[b] /\ asks'[b] = asks[b]
        BY <3>1 DEF TypeOK, Control
      <4>2. \A b \in Actors : pc'[b] = "write" /\ box[b] = box[a] => box[b] \in crossed
        BY <3>1, <4>1 DEF Keeping
      <4>3. desk'[box[a]] # None
        BY <3>4, <3>5
      <4> QED
        BY <3>1, <3>3, <4>1, <4>2, <4>3 DEF Keeping
    <3>7. StateStep
      BY <3>1, <3>2, <3>3, <3>4 DEF StateStep, Keeping
    <3> QED
      BY <3>6, <3>7
  <2> QED
    BY <1>4, <2>1, <2>2 DEF Edits
<1>5. CASE Restart
  BY <1>5 DEF Restart, Keeping, StateStep, tableVars
<1> QED
  BY <1>1, <1>2, <1>3, <1>4, <1>5 DEF Next

(* The state of a conversation changes when a request says so, whatever       *)
(* messages come and go meanwhile.                                         *)
THEOREM StateKept == Spec => StateStays
<1>1. Init => Keeping
  BY DEF Init, Keeping
<1>2. TypeOK /\ Control /\ Keeping /\ [Next]_vars => [StateStep]_vars
  BY StepKeeps
<1>3. TypeOK /\ Control /\ Keeping /\ [Next]_vars => Keeping'
  BY StepKeeps
<1> QED
  BY <1>1, <1>2, <1>3, InboundTypes, PTL DEF Spec, StateStays, StateStep
-----------------------------------------------------------------------------
(* The actor a has a receipt of the message m still to store. *)
Owing(a, m) == m \in todo[a] \/ (pc[a] = "update" /\ id[a] = m)

(* Until the receipts of a message are disordered one actor at most has one   *)
(* of it, the furthest that came; and who stores a message finds no status.  *)
Ordered ==
    /\ \A a \in Actors : pc[a] = "save" =>
          /\ status[id[a]] = "none"
          /\ \A b \in Actors : pc[b] = "save" /\ id[b] = id[a] => b = a
    /\ \A a \in Actors : pc[a] = "update" => status[id[a]] # "none"
    /\ \A a \in Actors : pc[a] \in {"receipt", "update"} => says[a] \in {"delivered", "read"}
    /\ \A m \in OutIds \ disordered :
          /\ status[m] = "read" => rank[m] >= 2
          /\ \A a \in Actors : Owing(a, m) =>
                /\ says[a] = IF rank[m] >= 2 THEN "read" ELSE "delivered"
                /\ \A b \in Actors : Owing(b, m) => b = a

(* What ReadStays says of a step. *)
ReadStep ==
    \A m \in OutIds : status[m] = "read" /\ status'[m] # "read" => m \in disordered

(* A step of a that neither stores a message nor has to do with a receipt. *)
LEMMA QuietForRead ==
    ASSUME TypeOK, Ordered, NEW a \in Actors, NEW s \in Step,
           pc' = [pc EXCEPT ![a] = s], s \notin {"save", "receipt", "update"},
           \A b \in Actors \ {a} : id'[b] = id[b],
           todo' \in {todo, [todo EXCEPT ![a] = {}]},
           \A b \in Actors \ {a} : says'[b] = says[b],
           todo'[a] = {} \/ says'[a] = says[a],
           UNCHANGED <<status, rank, disordered>>
    PROVE Ordered' /\ ReadStep
<1>1. \A b \in Actors : pc'[b] \in {"save", "receipt", "update"} =>
          b # a /\ pc'[b] = pc[b] /\ id'[b] = id[b] /\ says'[b] = says[b]
  BY DEF TypeOK
<1>2. \A b \in Actors, m \in OutIds : Owing(b, m)' => Owing(b, m) /\ says'[b] = says[b]
  BY <1>1 DEF Owing, TypeOK
<1>3. \A b \in Actors : pc'[b] = "save" =>
          /\ status'[id'[b]] = "none"
          /\ \A c \in Actors : pc'[c] = "save" /\ id'[c] = id'[b] => c = b
  BY <1>1 DEF Ordered
<1>4. ASSUME NEW m \in OutIds \ disordered'
      PROVE  /\ status'[m] = "read" => rank'[m] >= 2
             /\ \A b \in Actors : Owing(b, m)' =>
                   /\ says'[b] = IF rank'[m] >= 2 THEN "read" ELSE "delivered"
                   /\ \A c \in Actors : Owing(c, m)' => c = b
  BY <1>2 DEF Ordered
<1>5. /\ \A b \in Actors : pc'[b] = "update" => status'[id'[b]] # "none"
      /\ \A b \in Actors : pc'[b] \in {"receipt", "update"} => says'[b] \in {"delivered", "read"}
  BY <1>1 DEF Ordered
<1> QED
  BY <1>3, <1>4, <1>5 DEF Ordered, ReadStep

LEMMA StepOrders == TypeOK /\ Control /\ Ordered /\ [Next]_vars => Ordered' /\ [ReadStep]_vars
<1> SUFFICES ASSUME TypeOK, Control, Ordered, [Next]_vars
             PROVE  Ordered' /\ [ReadStep]_vars
  OBVIOUS
<1> USE DEF At, GoTo, Goes
<1>1. CASE UNCHANGED vars
  BY <1>1 DEF vars, tableVars, outVars, actorVars, historyVars, Ordered, Owing
<1>2. ASSUME NEW a \in Actors,
             Receives(a) \/ Stores(a) \/ Tells(a) \/ Edits(a) \/ Bump(a) \/ ReceiptDone(a)
      PROVE  Ordered' /\ ReadStep
  <2>1. PICK s \in {"idle", "insert", "convo", "count", "publish", "write"} :
            pc' = [pc EXCEPT ![a] = s]
    BY <1>2 DEF Receives, Receive, Stores, Insert, InsertFails, Conversation,
       ConversationFails, Tells, Count, Publish, Edits, ReadConversation,
       WriteConversation, Bump, ReceiptDone, Ends, Arrives, TypeOK
  <2>2. /\ \A b \in Actors \ {a} : id'[b] = id[b] /\ says'[b] = says[b]
        /\ (todo' = todo /\ says' = says) \/ todo' = [todo EXCEPT ![a] = {}]
        /\ UNCHANGED <<status, rank, disordered>>
    BY <1>2 DEF Receives, Receive, Stores, Insert, InsertFails, Conversation,
       ConversationFails, Tells, Count, Publish, Edits, ReadConversation,
       WriteConversation, Bump, ReceiptDone, Ends, Arrives, TypeOK, tableVars, historyVars
  <2>3. todo'[a] = {} \/ says'[a] = says[a]
    BY <2>2 DEF TypeOK
  <2> QED
    BY <2>1, <2>2, <2>3, QuietForRead DEF Step
<1>3. ASSUME NEW a \in Actors, Save(a) PROVE Ordered' /\ ReadStep
  <2>1. CASE status' = status /\ Ends(a)
    BY <1>3, <2>1, QuietForRead DEF Save, Ends, Step, TypeOK, historyVars
  <2>2. CASE status' = [status EXCEPT ![id[a]] = "sent"] /\ Goes(a, "bump")
    <3>1. /\ pc[a] = "save" /\ id[a] \in OutIds /\ status[id[a]] = "none"
          /\ UNCHANGED <<id, todo, says, rank, disordered>>
          /\ pc' = [pc EXCEPT ![a] = "bump"]
      BY <1>3, <2>2 DEF Save, Control, Ordered, historyVars
    <3>2. \A b \in Actors : pc'[b] = "save" => b # a /\ pc[b] = "save" /\ id[b] # id[a]
                                               /\ id[b] \in OutIds
      BY <3>1 DEF Ordered, TypeOK, Control
    <3>3. \A b \in Actors : pc'[b] \in {"receipt", "update"} => pc'[b] = pc[b]
      BY <3>1 DEF TypeOK
    <3>4. \A m \in OutIds : status'[m] \in {status[m], "sent"}
                            /\ (m # id[a] => status'[m] = status[m])
      BY <2>2 DEF TypeOK
    <3>5. \A b \in Actors : pc'[b] = "save" =>
              /\ status'[id'[b]] = "none"
              /\ \A c \in Actors : pc'[c] = "save" /\ id'[c] = id'[b] => c = b
      BY <3>1, <3>2, <3>4 DEF Ordered
    <3>6. \A b \in Actors : pc'[b] = "update" => status'[id'[b]] # "none"
      BY <3>1, <3>3, <3>4 DEF Ordered, Control
    <3>7. \A b \in Actors, m \in OutIds : Owing(b, m)' => Owing(b, m)
      BY <3>1, <3>3 DEF Owing
    <3>8. \A m \in OutIds \ disordered' : status'[m] = "read" => rank'[m] >= 2
      BY <3>1, <3>4 DEF Ordered
    <3>9. \A b \in Actors : pc'[b] \in {"receipt", "update"} => says'[b] \in {"delivered", "read"}
      BY <3>1, <3>3 DEF Ordered
    <3>10. \A m \in OutIds \ disordered', b \in Actors : Owing(b, m)' =>
               /\ says'[b] = IF rank'[m] >= 2 THEN "read" ELSE "delivered"
               /\ \A c \in Actors : Owing(c, m)' => c = b
      BY <3>1, <3>7 DEF Ordered
    <3> QED
      BY <3>1, <3>4, <3>5, <3>6, <3>8, <3>9, <3>10 DEF Ordered, ReadStep
  <2> QED
    BY <1>3, <2>1, <2>2 DEF Save
<1>4. ASSUME NEW a \in Actors, NEW i \in Instances, NEW m \in OutIds, Sent(a, i, m)
      PROVE  Ordered' /\ ReadStep
  <2>1. /\ pc' = [pc EXCEPT ![a] = "save"] /\ id' = [id EXCEPT ![a] = m]
        /\ UNCHANGED <<status, todo, says, rank, disordered>>
        /\ status[m] = "none" /\ \A b \in Actors : id[b] # m
    BY <1>4 DEF Sent, tableVars, historyVars
  <2>2. \A b \in Actors : b # a => pc'[b] = pc[b] /\ id'[b] = id[b]
    BY <2>1 DEF TypeOK
  <2>3. pc'[a] = "save" /\ id'[a] = m
    BY <2>1 DEF TypeOK
  <2>4. \A b \in Actors, o \in OutIds : Owing(b, o)' => Owing(b, o)
    BY <2>1, <2>2, <2>3 DEF Owing
  <2>5. \A b \in Actors : pc'[b] = "save" =>
            /\ status'[id'[b]] = "none"
            /\ \A c \in Actors : pc'[c] = "save" /\ id'[c] = id'[b] => c = b
    BY <2>1, <2>2, <2>3 DEF Ordered
  <2>6. \A b \in Actors : pc'[b] = "update" => status'[id'[b]] # "none"
    BY <2>1, <2>2, <2>3 DEF Ordered
  <2>7. \A b \in Actors : pc'[b] \in {"receipt", "update"} => says'[b] \in {"delivered", "read"}
    BY <2>1, <2>2, <2>3 DEF Ordered
  <2>8. ASSUME NEW o \in OutIds \ disordered'
        PROVE  /\ status'[o] = "read" => rank'[o] >= 2
               /\ \A b \in Actors : Owing(b, o)' =>
                     /\ says'[b] = IF rank'[o] >= 2 THEN "read" ELSE "delivered"
                     /\ \A c \in Actors : Owing(c, o)' => c = b
    BY <2>1, <2>4 DEF Ordered
  <2> QED
    BY <2>1, <2>5, <2>6, <2>7, <2>8 DEF Ordered, ReadStep
<1>5. ASSUME NEW a \in Actors, NEW t \in ReceiptType, NEW ms \in SUBSET OutIds, Receipt(a, t, ms)
      PROVE  Ordered' /\ ReadStep
  <2>1. CASE t = "other"
    <3>1. pc[a] = "idle" /\ pc' = pc
      BY <1>5, <2>1 DEF Receipt, Arrives
    <3> QED
      BY <1>5, <2>1, <3>1 DEF Receipt, Ordered, Owing, ReadStep, tableVars
  <2>2. CASE t # "other"
    <3>1. /\ pc' = [pc EXCEPT ![a] = "receipt"] /\ todo' = [todo EXCEPT ![a] = ms]
          /\ says' = [says EXCEPT ![a] = mapReceiptStatus(t)]
          /\ UNCHANGED <<status, id>>
      BY <1>5, <2>2 DEF Receipt, tableVars
    <3>2. \A m \in OutIds :
              rank'[m] = IF m \in ms /\ Rank(t) > rank[m] THEN Rank(t) ELSE rank[m]
      BY <1>5, <2>2 DEF Receipt
    <3>3. disordered' = disordered \cup
              {m \in ms : \/ Rank(t) < rank[m]
                          \/ \E b \in Actors : m \in todo[b] \/ (pc[b] = "update" /\ id[b] = m)}
      BY <1>5, <2>2 DEF Receipt
    <3>4. \A b \in Actors : b # a => pc'[b] = pc[b] /\ todo'[b] = todo[b] /\ says'[b] = says[b]
      BY <3>1 DEF TypeOK
    <3>5. pc'[a] = "receipt" /\ todo'[a] = ms /\ says'[a] = mapReceiptStatus(t)
      BY <3>1 DEF TypeOK
    <3>6. /\ mapReceiptStatus(t) = IF Rank(t) >= 2 THEN "read" ELSE "delivered"
          /\ Rank(t) \in 1 .. 3
      BY <2>2 DEF mapReceiptStatus, Rank, ReceiptType
    <3>7. \A b \in Actors, m \in OutIds : b # a => (Owing(b, m)' <=> Owing(b, m))
      BY <3>1, <3>4 DEF Owing
    <3>8. \A m \in OutIds : Owing(a, m)' <=> m \in ms
      BY <3>5 DEF Owing
    <3>9. ASSUME NEW m \in OutIds \ disordered'
          PROVE  /\ status'[m] = "read" => rank'[m] >= 2
                 /\ \A b \in Actors : Owing(b, m)' =>
                       /\ says'[b] = IF rank'[m] >= 2 THEN "read" ELSE "delivered"
                       /\ \A c \in Actors : Owing(c, m)' => c = b
      <4>0. m \in OutIds \ disordered /\ rank[m] \in 0 .. 3
        BY <3>3 DEF TypeOK
      <4>1. CASE m \in ms
        <5>1. Rank(t) >= rank[m] /\ \A b \in Actors : ~Owing(b, m)
          BY <3>3, <3>6, <4>0, <4>1 DEF Owing
        <5>2. rank'[m] = Rank(t)
          BY <3>2, <3>6, <4>0, <4>1, <5>1
        <5>3. status'[m] = "read" => rank'[m] >= 2
          BY <3>1, <3>6, <4>0, <5>1, <5>2 DEF Ordered
        <5>4. \A b \in Actors : Owing(b, m)' => b = a
          BY <3>7, <5>1
        <5> QED
          BY <3>5, <3>6, <5>2, <5>3, <5>4
      <4>2. CASE m \notin ms
        <5>1. rank'[m] = rank[m] /\ ~Owing(a, m)'
          BY <3>2, <3>8, <4>2
        <5>2. \A b \in Actors : Owing(b, m)' => Owing(b, m) /\ says'[b] = says[b]
          BY <3>4, <3>7, <5>1
        <5> QED
          BY <3>1, <4>0, <5>1, <5>2 DEF Ordered
      <4> QED
        BY <4>1, <4>2
    <3>10. /\ \A b \in Actors : pc'[b] = "save" =>
                 /\ status'[id'[b]] = "none"
                 /\ \A c \in Actors : pc'[c] = "save" /\ id'[c] = id'[b] => c = b
           /\ \A b \in Actors : pc'[b] = "update" => status'[id'[b]] # "none"
      BY <3>1, <3>4, <3>5 DEF Ordered
    <3>11. \A b \in Actors : pc'[b] \in {"receipt", "update"} => says'[b] \in {"delivered", "read"}
      BY <3>4, <3>5, <3>6 DEF Ordered
    <3> QED
      BY <3>1, <3>9, <3>10, <3>11 DEF Ordered, ReadStep
  <2> QED
    BY <2>1, <2>2
<1>6. ASSUME NEW a \in Actors, NEW m \in OutIds, LookUp(a, m) PROVE Ordered' /\ ReadStep
  <2>1. /\ pc[a] = "receipt" /\ m \in todo[a] /\ todo' = [todo EXCEPT ![a] = @ \ {m}]
        /\ UNCHANGED <<status, says, rank, disordered>>
        /\ \/ status[m] # "none" /\ pc' = [pc EXCEPT ![a] = "update"]
                                 /\ id' = [id EXCEPT ![a] = m]
           \/ UNCHANGED <<pc, id>>
    BY <1>6 DEF LookUp, tableVars, historyVars
  <2>2. \A b \in Actors : b # a => pc'[b] = pc[b] /\ id'[b] = id[b] /\ todo'[b] = todo[b]
    BY <2>1 DEF TypeOK
  <2>3. /\ pc'[a] \in {"receipt", "update"}
        /\ pc'[a] = "update" => status[m] # "none" /\ id'[a] = m
        /\ todo'[a] \subseteq todo[a]
    BY <2>1 DEF TypeOK
  <2>4. \A b \in Actors, o \in OutIds : Owing(b, o)' => Owing(b, o)
    BY <2>1, <2>2, <2>3 DEF Owing
  <2>5. ASSUME NEW o \in OutIds \ disordered'
        PROVE  /\ status'[o] = "read" => rank'[o] >= 2
               /\ \A b \in Actors : Owing(b, o)' =>
                     /\ says'[b] = IF rank'[o] >= 2 THEN "read" ELSE "delivered"
                     /\ \A c \in Actors : Owing(c, o)' => c = b
    BY <2>1, <2>4 DEF Ordered
  <2>6. /\ \A b \in Actors : pc'[b] = "save" =>
              /\ status'[id'[b]] = "none"
              /\ \A c \in Actors : pc'[c] = "save" /\ id'[c] = id'[b] => c = b
        /\ \A b \in Actors : pc'[b] = "update" => status'[id'[b]] # "none"
        /\ \A b \in Actors : pc'[b] \in {"receipt", "update"} => says'[b] \in {"delivered", "read"}
    BY <2>1, <2>2, <2>3 DEF Ordered
  <2> QED
    BY <2>1, <2>5, <2>6 DEF Ordered, ReadStep
<1>7. ASSUME NEW a \in Actors, UpdateStatus(a) PROVE Ordered' /\ ReadStep
  <2>1. /\ pc[a] = "update" /\ pc' = [pc EXCEPT ![a] = "receipt"]
        /\ id' = [id EXCEPT ![a] = None]
        /\ status' \in {[status EXCEPT ![id[a]] = says[a]], status}
        /\ UNCHANGED <<todo, says, rank, disordered>>
    BY <1>7 DEF UpdateStatus, historyVars
  <2>2. /\ id[a] \in OutIds /\ status[id[a]] # "none" /\ says[a] \in {"delivered", "read"}
        /\ Owing(a, id[a])
    BY <2>1 DEF Control, Ordered, Owing
  <2>3. \A b \in Actors : b # a => pc'[b] = pc[b] /\ id'[b] = id[b]
    BY <2>1 DEF TypeOK
  <2>4. pc'[a] = "receipt"
    BY <2>1 DEF TypeOK
  <2>5. /\ \A m \in OutIds : m # id[a] => status'[m] = status[m]
        /\ status'[id[a]] \in {status[id[a]], says[a]}
    BY <2>1, <2>2 DEF TypeOK
  <2>6. \A b \in Actors, o \in OutIds : Owing(b, o)' => Owing(b, o)
    BY <2>1, <2>3, <2>4 DEF Owing
  <2>7. ASSUME NEW o \in OutIds \ disordered'
        PROVE  /\ status'[o] = "read" => rank'[o] >= 2
               /\ \A b \in Actors : Owing(b, o)' =>
                     /\ says'[b] = IF rank'[o] >= 2 THEN "read" ELSE "delivered"
                     /\ \A c \in Actors : Owing(c, o)' => c = b
    <3>1. status'[o] = "read" => rank[o] >= 2
      BY <2>1, <2>2, <2>5 DEF Ordered
    <3> QED
      BY <2>1, <2>6, <3>1 DEF Ordered
  <2>8. \A b \in Actors : pc'[b] = "save" =>
            /\ status'[id'[b]] = "none"
            /\ \A c \in Actors : pc'[c] = "save" /\ id'[c] = id'[b] => c = b
    BY <2>2, <2>3, <2>4, <2>5 DEF Ordered, Control
  <2>9. \A b \in Actors : pc'[b] = "update" => status'[id'[b]] # "none"
    BY <2>2, <2>3, <2>4, <2>5 DEF Ordered, Control
  <2>10. \A b \in Actors : pc'[b] \in {"receipt", "update"} => says'[b] \in {"delivered", "read"}
    BY <2>1, <2>2, <2>3 DEF Ordered
  <2>11. ReadStep
    BY <2>2, <2>5 DEF ReadStep, Ordered
  <2> QED
    BY <2>7, <2>8, <2>9, <2>10, <2>11 DEF Ordered
<1>8. CASE Restart
  BY <1>8 DEF Restart, Ordered, Owing, ReadStep, tableVars
<1> QED
  BY <1>1, <1>2, <1>3, <1>4, <1>5, <1>6, <1>7, <1>8 DEF Next, Sends, Receipts

(* A message that was read stays so, as long as its receipts come in order    *)
(* and one at a time.                                                      *)
THEOREM ReadKept == Spec => ReadStays
<1>1. Init => Ordered
  BY DEF Init, Ordered, Owing
<1>2. TypeOK /\ Control /\ Ordered /\ [Next]_vars => [ReadStep]_vars
  BY StepOrders
<1>3. TypeOK /\ Control /\ Ordered /\ [Next]_vars => Ordered'
  BY StepOrders
<1> QED
  BY <1>1, <1>2, <1>3, InboundTypes, PTL DEF Spec, ReadStays, ReadStep
=============================================================================
