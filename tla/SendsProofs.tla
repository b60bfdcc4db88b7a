---------------------------- MODULE SendsProofs ----------------------------
(* Theorems about Sends, for any number of requests, any limit and any     *)
(* number of messages.                                                     *)
EXTENDS Sends, TLAPS, FiniteSetTheorems, SequenceTheorems

Working == {"resolve", "limit", "usage", "send", "save", "convo", "report"}
Holding == {"save", "convo", "report"}
Size(k) == IF k = "bulk" THEN BulkSize ELSE 1

(* What the position of a request says about its local variables. *)
ControlOf(r) ==
    /\ pc[r] \in Working => left[r] > 0
    /\ pc[r] = "done" => left[r] = 0
    /\ msg[r] # 0 <=> pc[r] \in Holding
    /\ pc[r] # "idle" => sent[r] + failed[r] + left[r] = Size(kind[r])
    /\ pc[r] = "idle" => sent[r] = 0 /\ failed[r] = 0
    /\ sent[r] <= accepted[r]
    /\ msg[r] # 0 => sent[r] < accepted[r]

Control == \A r \in Requests : ControlOf(r)

(* The step is one of request r: the variables of the others stay. *)
OnlyOf(r) ==
    \A q \in Requests \ {r} :
        /\ pc'[q] = pc[q] /\ kind'[q] = kind[q] /\ left'[q] = left[q] /\ msg'[q] = msg[q]
        /\ sent'[q] = sent[q] /\ failed'[q] = failed[q] /\ accepted'[q] = accepted[q]

-----------------------------------------------------------------------------
(* Type correctness, with the control state it rests on.                   *)

(* No request runs and nothing was sent. *)
LEMMA InitControl == Init => TypeOK /\ Control
BY SendsAssumption DEF Init, TypeOK, Control, ControlOf, Step, Kinds,
   Working, Holding, At, Taken

(* How the messages table grows, and what a new row leaves as it was. *)
LEMMA RowTypes ==
    ASSUME TypeOK
    PROVE  /\ Taken \in Nat
           /\ row' = row => Taken' = Taken
           /\ row' = Append(row, None) =>
                 /\ row' \in Seq(Chats \cup {None})
                 /\ Taken' = Taken + 1
                 /\ row'[Taken + 1] = None
                 /\ \A i \in 1 .. Taken : row'[i] = row[i]
           /\ \A i \in 1 .. Taken, c \in Chats : row' = [row EXCEPT ![i] = c] =>
                 /\ row' \in Seq(Chats \cup {None})
                 /\ Taken' = Taken
                 /\ \A j \in 1 .. Taken : row'[j] = IF j = i THEN c ELSE row[j]
<1> DEFINE S == Chats \cup {None}
<1>1. row \in Seq(S) /\ None \in S
  BY DEF TypeOK
<1> HIDE DEF S
<1>2. Len(row) \in Nat
  BY <1>1, LenProperties
<1>3. ASSUME row' = Append(row, None)
      PROVE  /\ row' \in Seq(S)
             /\ Taken' = Taken + 1
             /\ row'[Taken + 1] = None
             /\ \A i \in 1 .. Taken : row'[i] = row[i]
  BY <1>1, <1>3, AppendProperties DEF Taken
<1>4. ASSUME NEW i \in 1 .. Taken, NEW c \in Chats, row' = [row EXCEPT ![i] = c]
      PROVE  /\ row' \in Seq(S)
             /\ Taken' = Taken
             /\ \A j \in 1 .. Taken : row'[j] = IF j = i THEN c ELSE row[j]
  <2>1. c \in S
    BY DEF S
  <2> QED
    BY <1>1, <1>4, <2>1, ExceptSeq DEF Taken
<1> QED
  BY <1>2, <1>3, <1>4 DEF S, Taken

(* There are finitely many requests. *)
LEMMA InHandFinite == IsFiniteSet(InHand) /\ Cardinality(InHand) \in Nat
BY SendsAssumption, FS_Subset, FS_CardinalityType DEF InHand

(* And so for those that spend the limit. *)
LEMMA SpendingFinite ==
    /\ IsFiniteSet(Spending) /\ Cardinality(Spending) \in Nat
    /\ tracking \in Nat => Unseen \in Nat
<1>1. IsFiniteSet(Spending) /\ Cardinality(Spending) \in Nat
  BY SendsAssumption, FS_Subset, FS_CardinalityType DEF Spending
<1> QED
  BY <1>1 DEF Unseen

(* TypeOK in three parts. *)
RequestTypes ==
    /\ pc \in [Requests -> Step]
    /\ kind \in [Requests -> Kinds]
    /\ left \in [Requests -> Nat]
    /\ sent \in [Requests -> Nat]
    /\ failed \in [Requests -> Nat]
    /\ accepted \in [Requests -> Nat]

UsageTypes ==
    /\ used \in Nat /\ tracking \in Nat
    /\ free \subseteq Requests
    /\ thisMonth \in Nat /\ unlimited \in Nat /\ lost \in Nat
    /\ carried \in Nat /\ backlog \in Nat

TableTypes ==
    /\ row \in Seq(Chats \cup {None})
    /\ last \in [Chats -> 0 .. Taken]
    /\ msg \in [Requests -> 0 .. Taken]
    /\ unsaved \subseteq 1 .. Taken
    /\ unlisted \subseteq 1 .. Taken

(* Every operation keeps the types of the requests' variables. *)
LEMMA RequestTypesStep == TypeOK /\ Control /\ [Next]_vars => RequestTypes'
<1> SUFFICES ASSUME TypeOK, Control, [Next]_vars PROVE RequestTypes'
  OBVIOUS
<1>0. RequestTypes /\ BulkSize \in Nat /\ \A r \in Requests : pc[r] \in Working => left[r] > 0
  BY SendsAssumption DEF TypeOK, RequestTypes, Control, ControlOf
<1> USE DEF RequestTypes, Step, Kinds, Working, At, GoTo, requestVars
<1>1. ASSUME NEW r \in Requests, NEW k \in Kinds, Begin(r, k) PROVE RequestTypes'
  BY <1>0, <1>1 DEF Begin, FirstStep
<1>2. ASSUME NEW r \in Requests, NEW absent \in 0 .. BulkSize, Resolve(r, absent)
      PROVE  RequestTypes'
  BY <1>0, <1>2 DEF Resolve, OnceResolved
<1>3. ASSUME NEW r \in Requests, ReadSubscription(r) PROVE RequestTypes'
  BY <1>0, <1>3 DEF ReadSubscription, OnceAllowed
<1>4. ASSUME NEW r \in Requests, ReadUsage(r) PROVE RequestTypes'
  BY <1>0, <1>4 DEF ReadUsage, OnceAllowed
<1>5. ASSUME NEW r \in Requests, Fails(r) PROVE RequestTypes'
  BY <1>0, <1>5 DEF Fails, ItemEnds
<1>6. ASSUME NEW r \in Requests, Send(r) PROVE RequestTypes'
  BY <1>0, <1>6 DEF Send, TakenFor
<1>7. ASSUME NEW r \in Requests, SendUnanswered(r) PROVE RequestTypes'
  <2>1. pc' \in [Requests -> Step] /\ kind' = kind
    BY <1>0, <1>7 DEF SendUnanswered, ItemEnds
  <2>2. left' \in [Requests -> Nat]
    BY <1>0, <1>7 DEF SendUnanswered, ItemEnds
  <2>3. /\ sent' = sent /\ failed' \in [Requests -> Nat]
        /\ accepted' \in [Requests -> Nat]
    BY <1>0, <1>7 DEF SendUnanswered, TakenFor
  <2> QED
    BY <1>0, <2>1, <2>2, <2>3
<1>8. ASSUME NEW r \in Requests, Save(r) PROVE RequestTypes'
  BY <1>0, <1>8 DEF Save
<1>9. ASSUME NEW r \in Requests, SaveFails(r) PROVE RequestTypes'
  BY <1>0, <1>9 DEF SaveFails
<1>10. ASSUME NEW r \in Requests, UpsertConversation(r) PROVE RequestTypes'
  BY <1>0, <1>10 DEF UpsertConversation
<1>11. ASSUME NEW r \in Requests, Report(r) PROVE RequestTypes'
  BY <1>0, <1>11 DEF Report, ItemEnds
<1>12. ASSUME NEW r \in Requests, Return(r) PROVE RequestTypes'
  BY <1>0, <1>12 DEF Return
<1>13. ASSUME Tracker PROVE RequestTypes'
  BY <1>0, <1>13 DEF Tracker, TrackSent, TrackSentFails
<1>14. ASSUME MonthEnds PROVE RequestTypes'
  BY <1>0, <1>14 DEF MonthEnds
<1>16. ASSUME Restart PROVE RequestTypes'
  BY <1>0, <1>16 DEF Restart
<1>17. CASE UNCHANGED vars
  BY <1>0, <1>17 DEF vars
<1> QED
  BY <1>1, <1>2, <1>3, <1>4, <1>5, <1>6, <1>7, <1>8, <1>9, <1>10, <1>11, <1>12,
     <1>13, <1>14, <1>16, <1>17
     DEF Next, RequestStep

(* Every operation keeps the types of the counters. *)
LEMMA UsageTypesStep == TypeOK /\ Control /\ [Next]_vars => UsageTypes'
<1> SUFFICES ASSUME TypeOK, Control, [Next]_vars PROVE UsageTypes'
  OBVIOUS
<1>0. UsageTypes
  BY DEF TypeOK, UsageTypes
<1> USE DEF UsageTypes, usageVars, monthVars
<1>1. ASSUME NEW r \in Requests, NEW k \in Kinds, Begin(r, k) PROVE UsageTypes'
  BY <1>0, <1>1 DEF Begin, FirstStep
<1>2. ASSUME NEW r \in Requests, NEW absent \in 0 .. BulkSize, Resolve(r, absent)
      PROVE  UsageTypes'
  BY <1>0, <1>2 DEF Resolve, OnceResolved
<1>3. ASSUME NEW r \in Requests, ReadSubscription(r) PROVE UsageTypes'
  BY <1>0, <1>3 DEF ReadSubscription, OnceAllowed
<1>4. ASSUME NEW r \in Requests, ReadUsage(r) PROVE UsageTypes'
  BY <1>0, <1>4, SpendingFinite DEF ReadUsage, OnceAllowed
<1>5. ASSUME NEW r \in Requests, Fails(r) PROVE UsageTypes'
  BY <1>0, <1>5 DEF Fails, ItemEnds
<1>6. ASSUME NEW r \in Requests, Send(r) PROVE UsageTypes'
  BY <1>0, <1>6 DEF Send, TakenFor
<1>7. ASSUME NEW r \in Requests, SendUnanswered(r) PROVE UsageTypes'
  BY <1>0, <1>7 DEF SendUnanswered, TakenFor, ItemEnds
<1>8. ASSUME NEW r \in Requests, Save(r) PROVE UsageTypes'
  BY <1>0, <1>8 DEF Save
<1>9. ASSUME NEW r \in Requests, SaveFails(r) PROVE UsageTypes'
  BY <1>0, <1>9 DEF SaveFails
<1>10. ASSUME NEW r \in Requests, UpsertConversation(r) PROVE UsageTypes'
  BY <1>0, <1>10 DEF UpsertConversation
<1>11. ASSUME NEW r \in Requests, Report(r) PROVE UsageTypes'
  BY <1>0, <1>11 DEF Report, ItemEnds
<1>12. ASSUME NEW r \in Requests, Return(r) PROVE UsageTypes'
  BY <1>0, <1>12 DEF Return
<1>13. ASSUME Tracker PROVE UsageTypes'
  <2>1. CASE TrackSent
    BY <1>0, <2>1 DEF TrackSent
  <2>2. CASE TrackSentFails
    BY <1>0, <2>2 DEF TrackSentFails
  <2> QED
    BY <1>13, <2>1, <2>2 DEF Tracker
<1>14. ASSUME MonthEnds PROVE UsageTypes'
  BY <1>0, <1>14, InHandFinite, SpendingFinite DEF MonthEnds
<1>16. ASSUME Restart PROVE UsageTypes'
  BY <1>0, <1>16, InHandFinite DEF Restart
<1>17. CASE UNCHANGED vars
  BY <1>0, <1>17 DEF vars
<1> QED
  BY <1>1, <1>2, <1>3, <1>4, <1>5, <1>6, <1>7, <1>8, <1>9, <1>10, <1>11, <1>12,
     <1>13, <1>14, <1>16, <1>17
     DEF Next, RequestStep

(* Every operation keeps the types of the tables. *)
LEMMA TableTypesStep == TypeOK /\ Control /\ [Next]_vars => TableTypes'
<1> SUFFICES ASSUME TypeOK, Control, [Next]_vars PROVE TableTypes'
  OBVIOUS
<1>0. /\ TableTypes /\ Taken \in Nat /\ (row' = row => Taken' = Taken)
      /\ \A r \in Requests : msg[r] # 0 <=> pc[r] \in Holding
  BY RowTypes DEF TypeOK, TableTypes, Control, ControlOf
<1> USE DEF TableTypes, Holding, At, requestVars, tableVars
<1>1. ASSUME NEW r \in Requests, NEW k \in Kinds, Begin(r, k) PROVE TableTypes'
  BY <1>0, <1>1 DEF Begin, FirstStep
<1>2. ASSUME NEW r \in Requests, NEW absent \in 0 .. BulkSize, Resolve(r, absent)
      PROVE  TableTypes'
  BY <1>0, <1>2 DEF Resolve, OnceResolved
<1>3. ASSUME NEW r \in Requests, ReadSubscription(r) PROVE TableTypes'
  BY <1>0, <1>3 DEF ReadSubscription, OnceAllowed
<1>4. ASSUME NEW r \in Requests, ReadUsage(r) PROVE TableTypes'
  BY <1>0, <1>4 DEF ReadUsage, OnceAllowed
<1>5. ASSUME NEW r \in Requests, Fails(r) PROVE TableTypes'
  BY <1>0, <1>5 DEF Fails, ItemEnds
<1>6. ASSUME NEW r \in Requests, Send(r) PROVE TableTypes'
  <2>1. row' \in Seq(Chats \cup {None}) /\ Taken' = Taken + 1
    BY <1>6, RowTypes DEF Send, TakenFor
  <2> QED
    BY <1>0, <1>6, <2>1 DEF Send
<1>7. ASSUME NEW r \in Requests, SendUnanswered(r) PROVE TableTypes'
  <2>1. row' \in Seq(Chats \cup {None}) /\ Taken' = Taken + 1
    BY <1>7, RowTypes DEF SendUnanswered, TakenFor
  <2> QED
    BY <1>0, <1>7, <2>1 DEF SendUnanswered, ItemEnds
<1>8. ASSUME NEW r \in Requests, Save(r) PROVE TableTypes'
  <2>1. msg[r] \in 1 .. Taken
    BY <1>0, <1>8 DEF Save
  <2>2. Chat(kind[r]) \in Chats
    BY DEF Chats, TypeOK
  <2>3. row' \in Seq(Chats \cup {None}) /\ Taken' = Taken
    BY <1>8, <2>1, <2>2, RowTypes DEF Save
  <2> QED
    BY <1>0, <1>8, <2>3 DEF Save
<1>9. ASSUME NEW r \in Requests, SaveFails(r) PROVE TableTypes'
  <2>1. msg[r] \in 1 .. Taken
    BY <1>0, <1>9 DEF SaveFails
  <2> QED
    BY <1>0, <1>9, <2>1 DEF SaveFails
<1>10. ASSUME NEW r \in Requests, UpsertConversation(r) PROVE TableTypes'
  <2>1. msg[r] \in 1 .. Taken
    BY <1>0, <1>10 DEF UpsertConversation
  <2>2. row' = row /\ Taken' = Taken /\ msg' = msg /\ unsaved' = unsaved
    BY <1>0, <1>10 DEF UpsertConversation
  <2>3. last' \in [Chats -> 0 .. Taken]
    BY <1>0, <1>10, <2>1 DEF UpsertConversation
  <2>4. unlisted' \subseteq 1 .. Taken
    BY <1>0, <1>10, <2>1 DEF UpsertConversation
  <2> QED
    BY <1>0, <2>2, <2>3, <2>4
<1>11. ASSUME NEW r \in Requests, Report(r) PROVE TableTypes'
  BY <1>0, <1>11 DEF Report, ItemEnds
<1>12. ASSUME NEW r \in Requests, Return(r) PROVE TableTypes'
  BY <1>0, <1>12 DEF Return
<1>13. ASSUME Tracker PROVE TableTypes'
  BY <1>0, <1>13 DEF Tracker, TrackSent, TrackSentFails
<1>14. ASSUME MonthEnds PROVE TableTypes'
  BY <1>0, <1>14 DEF MonthEnds
<1>16. ASSUME Restart PROVE TableTypes'
  <2>1. \A r \in Requests : At(r, "save") \/ At(r, "convo") => msg[r] \in 1 .. Taken
    BY <1>0
  <2>2. Taken' = Taken /\ row' = row /\ last' = last
    BY <1>0, <1>16 DEF Restart
  <2>3. unsaved' \subseteq 1 .. Taken /\ unlisted' \subseteq 1 .. Taken
    BY <1>0, <1>16, <2>1 DEF Restart
  <2>4. msg' \in [Requests -> 0 .. Taken]
    BY <1>0, <1>16 DEF Restart
  <2> QED
    BY <1>0, <2>2, <2>3, <2>4
<1>17. CASE UNCHANGED vars
  BY <1>0, <1>17 DEF vars
<1> QED
  BY <1>1, <1>2, <1>3, <1>4, <1>5, <1>6, <1>7, <1>8, <1>9, <1>10, <1>11, <1>12,
     <1>13, <1>14, <1>16, <1>17
     DEF Next, RequestStep

(* Every operation keeps the types. *)
LEMMA TypeStep == TypeOK /\ Control /\ [Next]_vars => TypeOK'
BY RequestTypesStep, UsageTypesStep, TableTypesStep
   DEF TypeOK, RequestTypes, UsageTypes, TableTypes

(* A step of one request keeps the control state of the others. *)
LEMMA ControlElsewhere ==
    ASSUME Control, NEW r \in Requests, OnlyOf(r), ControlOf(r)'
    PROVE  Control'
BY DEF Control, ControlOf, OnlyOf

(* Every operation keeps the control state. *)
LEMMA ControlStep == TypeOK /\ Control /\ [Next]_vars => Control'
<1> SUFFICES ASSUME TypeOK, Control, [Next]_vars PROVE Control'
  OBVIOUS
<1>0. /\ RequestTypes /\ msg \in [Requests -> 0 .. Taken] /\ Taken \in Nat
      /\ BulkSize \in Nat \ {0}
  BY RowTypes, SendsAssumption DEF TypeOK, RequestTypes
<1> USE DEF RequestTypes, At, GoTo, requestVars, Working, Holding
<1>1. ASSUME NEW r \in Requests, NEW k \in Kinds, Begin(r, k) PROVE Control'
  <2>1. OnlyOf(r)
    BY <1>0, <1>1 DEF Begin, FirstStep, OnlyOf
  <2>2. ControlOf(r)'
    BY <1>0, <1>1 DEF Begin, FirstStep, Control, ControlOf, Size, Kinds
  <2> QED
    BY <2>1, <2>2, ControlElsewhere
<1>2. ASSUME NEW r \in Requests, NEW absent \in 0 .. BulkSize, Resolve(r, absent)
      PROVE  Control'
  <2>1. OnlyOf(r)
    BY <1>0, <1>2 DEF Resolve, OnceResolved, OnlyOf
  <2>2. ControlOf(r)'
    BY <1>0, <1>2 DEF Resolve, OnceResolved, Control, ControlOf, Size, Kinds
  <2> QED
    BY <2>1, <2>2, ControlElsewhere
<1>3. ASSUME NEW r \in Requests, ReadSubscription(r) PROVE Control'
  <2>1. OnlyOf(r)
    BY <1>0, <1>3 DEF ReadSubscription, OnceAllowed, OnlyOf
  <2>2. ControlOf(r)'
    BY <1>0, <1>3 DEF ReadSubscription, OnceAllowed, Control, ControlOf, Size, Kinds
  <2> QED
    BY <2>1, <2>2, ControlElsewhere
<1>4. ASSUME NEW r \in Requests, ReadUsage(r) PROVE Control'
  <2>1. OnlyOf(r)
    BY <1>0, <1>4 DEF ReadUsage, OnceAllowed, OnlyOf
  <2>2. ControlOf(r)'
    BY <1>0, <1>4 DEF ReadUsage, OnceAllowed, Control, ControlOf, Size, Kinds
  <2> QED
    BY <2>1, <2>2, ControlElsewhere
<1>5. ASSUME NEW r \in Requests, Fails(r) PROVE Control'
  <2>1. OnlyOf(r)
    BY <1>0, <1>5 DEF Fails, ItemEnds, OnlyOf
  <2>2. ControlOf(r)'
    <3>0. ControlOf(r)
      BY DEF Control
    <3>1. CASE pc[r] = "resolve" /\ kind[r] = "bulk"
      BY <1>0, <1>5, <3>0, <3>1 DEF Fails, ControlOf, Size
    <3>2. CASE ~(pc[r] = "resolve" /\ kind[r] = "bulk")
      <4>1. /\ left' = [left EXCEPT ![r] = @ - 1] /\ failed' = [failed EXCEPT ![r] = @ + 1]
            /\ msg' = [msg EXCEPT ![r] = 0] /\ sent' = sent /\ kind' = kind
            /\ accepted' = accepted /\ left[r] > 0
            /\ pc' = [pc EXCEPT ![r] = IF left[r] > 1 THEN "limit" ELSE "done"]
        BY <1>5, <3>0, <3>2 DEF Fails, ItemEnds, ControlOf
      <4>2. /\ pc[r] # "idle" /\ msg'[r] = 0 /\ left'[r] = left[r] - 1
            /\ failed'[r] = failed[r] + 1
        BY <1>0, <1>5, <4>1 DEF Fails
      <4> QED
        BY <1>0, <3>0, <4>1, <4>2 DEF ControlOf, Size
    <3> QED
      BY <3>1, <3>2
  <2> QED
    BY <2>1, <2>2, ControlElsewhere
<1>6. ASSUME NEW r \in Requests, Send(r) PROVE Control'
  <2>1. OnlyOf(r)
    BY <1>0, <1>6 DEF Send, TakenFor, OnlyOf
  <2>2. ControlOf(r)'
    BY <1>0, <1>6 DEF Send, TakenFor, Control, ControlOf, Size, Kinds
  <2> QED
    BY <2>1, <2>2, ControlElsewhere
<1>7. ASSUME NEW r \in Requests, SendUnanswered(r) PROVE Control'
  <2>1. OnlyOf(r)
    BY <1>0, <1>7 DEF SendUnanswered, TakenFor, ItemEnds, OnlyOf
  <2>2. ControlOf(r)'
    <3>0. ControlOf(r)
      BY DEF Control
    <3>1. /\ left' = [left EXCEPT ![r] = @ - 1] /\ failed' = [failed EXCEPT ![r] = @ + 1]
          /\ msg' = [msg EXCEPT ![r] = 0] /\ sent' = sent /\ kind' = kind
          /\ accepted' = [accepted EXCEPT ![r] = @ + 1] /\ left[r] > 0
          /\ pc' = [pc EXCEPT ![r] = IF left[r] > 1 THEN "limit" ELSE "done"]
      BY <1>7, <3>0 DEF SendUnanswered, TakenFor, ItemEnds, ControlOf
    <3>2. /\ pc[r] # "idle" /\ msg'[r] = 0 /\ left'[r] = left[r] - 1
          /\ failed'[r] = failed[r] + 1
      BY <1>0, <1>7, <3>1 DEF SendUnanswered
    <3> QED
      BY <1>0, <3>0, <3>1, <3>2 DEF ControlOf, Size
  <2> QED
    BY <2>1, <2>2, ControlElsewhere
<1>8. ASSUME NEW r \in Requests, Save(r) PROVE Control'
  <2>1. OnlyOf(r)
    BY <1>0, <1>8 DEF Save, OnlyOf
  <2>2. ControlOf(r)'
    BY <1>0, <1>8 DEF Save, Control, ControlOf, Size, Kinds
  <2> QED
    BY <2>1, <2>2, ControlElsewhere
<1>9. ASSUME NEW r \in Requests, SaveFails(r) PROVE Control'
  <2>1. OnlyOf(r)
    BY <1>0, <1>9 DEF SaveFails, OnlyOf
  <2>2. ControlOf(r)'
    BY <1>0, <1>9 DEF SaveFails, Control, ControlOf, Size, Kinds
  <2> QED
    BY <2>1, <2>2, ControlElsewhere
<1>10. ASSUME NEW r \in Requests, UpsertConversation(r) PROVE Control'
  <2>1. OnlyOf(r)
    BY <1>0, <1>10 DEF UpsertConversation, OnlyOf
  <2>2. ControlOf(r)'
    BY <1>0, <1>10 DEF UpsertConversation, Control, ControlOf, Size, Kinds
  <2> QED
    BY <2>1, <2>2, ControlElsewhere
<1>11. ASSUME NEW r \in Requests, Report(r) PROVE Control'
  <2>1. OnlyOf(r)
    BY <1>0, <1>11 DEF Report, ItemEnds, OnlyOf
  <2>2. ControlOf(r)'
    BY <1>0, <1>11 DEF Report, ItemEnds, Control, ControlOf, Size, Kinds
  <2> QED
    BY <2>1, <2>2, ControlElsewhere
<1>12. ASSUME NEW r \in Requests, Return(r) PROVE Control'
  <2>1. OnlyOf(r)
    BY <1>0, <1>12 DEF Return, OnlyOf
  <2>2. ControlOf(r)'
    BY <1>0, <1>12 DEF Return, Control, ControlOf, Size, Kinds
  <2> QED
    BY <2>1, <2>2, ControlElsewhere
<1>13. ASSUME Tracker PROVE Control'
  BY <1>13 DEF Tracker, TrackSent, TrackSentFails, Control, ControlOf
<1>14. ASSUME MonthEnds PROVE Control'
  BY <1>14 DEF MonthEnds, Control, ControlOf
<1>16. ASSUME Restart PROVE Control'
  BY <1>16 DEF Restart, Control, ControlOf
<1>17. CASE UNCHANGED vars
  BY <1>17 DEF vars, Control, ControlOf
<1> QED
  BY <1>1, <1>2, <1>3, <1>4, <1>5, <1>6, <1>7, <1>8, <1>9, <1>10, <1>11, <1>12,
     <1>13, <1>14, <1>16, <1>17
     DEF Next, RequestStep

(* The variables have their types in every reachable state. *)
THEOREM SendsTypes == Spec => [](TypeOK /\ Control)
BY InitControl, TypeStep, ControlStep, PTL DEF Spec

(* No answer claims a message that WhatsApp did not take, and a bulk       *)
(* request gives each phone one outcome (SendBulkMessage).                 *)
THEOREM AnswersAreTruthful == Spec => []AnswersTruthful
<1>1. TypeOK /\ Control => AnswersTruthful
  <2> SUFFICES ASSUME TypeOK, Control, NEW r \in Requests
               PROVE  /\ sent[r] <= accepted[r]
                      /\ At(r, "done") => sent[r] + failed[r] = Size(kind[r])
    BY DEF AnswersTruthful, Size
  <2>1. ControlOf(r) /\ sent[r] \in Nat /\ failed[r] \in Nat /\ left[r] \in Nat
    BY DEF TypeOK, Control
  <2> QED
    BY <2>1 DEF ControlOf, At
<1> QED
  BY <1>1, SendsTypes, PTL

-----------------------------------------------------------------------------
(* The counter.                                                            *)

(* One more request has a message in hand. *)
LEMMA InHandGrows ==
    ASSUME NEW r \in Requests, r \notin InHand, InHand' = InHand \cup {r}
    PROVE  Cardinality(InHand') = Cardinality(InHand) + 1
BY InHandFinite, FS_AddElement

(* The same, the other way round. *)
LEMMA InHandShrinks ==
    ASSUME NEW r \in Requests, r \in InHand, InHand' = InHand \ {r}
    PROVE  Cardinality(InHand') = Cardinality(InHand) - 1
BY InHandFinite, FS_RemoveElement

(* A step that neither sends nor counts. *)
LEMMA BalanceKept ==
    ASSUME UsageBalances, InHand' = InHand,
           UNCHANGED <<used, tracking, thisMonth, carried, lost>>
    PROVE  UsageBalances'
BY DEF UsageBalances

(* Nothing was sent, and nothing counted. *)
LEMMA InitBalance == Init => UsageBalances
<1> SUFFICES ASSUME Init PROVE UsageBalances
  OBVIOUS
<1>1. InHand = {}
  BY DEF Init, InHand
<1> QED
  BY <1>1, FS_EmptySet DEF Init, UsageBalances

(* Each step moves a message from one place of the sum to the next. *)
LEMMA BalanceStep == TypeOK /\ TypeOK' /\ UsageBalances /\ [Next]_vars => UsageBalances'
<1> SUFFICES ASSUME TypeOK, TypeOK', UsageBalances, [Next]_vars PROVE UsageBalances'
  OBVIOUS
<1>0. /\ UsageTypes /\ UsageTypes' /\ Cardinality(InHand) \in Nat
      /\ pc \in [Requests -> Step] /\ kind \in [Requests -> Kinds]
  BY InHandFinite DEF TypeOK, UsageTypes
<1> USE DEF Metered, At, GoTo, requestVars, usageVars, monthVars
<1>1. ASSUME NEW r \in Requests, NEW k \in Kinds, Begin(r, k) PROVE UsageBalances'
  <2>1. InHand' = InHand
    BY <1>0, <1>1 DEF Begin, FirstStep, InHand
  <2> QED
    BY <1>0, <1>1, <2>1, BalanceKept DEF Begin
<1>2. ASSUME NEW r \in Requests, NEW absent \in 0 .. BulkSize, Resolve(r, absent)
      PROVE  UsageBalances'
  <2>1. InHand' = InHand
    BY <1>0, <1>2 DEF Resolve, OnceResolved, InHand
  <2> QED
    BY <1>0, <1>2, <2>1, BalanceKept DEF Resolve
<1>3. ASSUME NEW r \in Requests, ReadSubscription(r) PROVE UsageBalances'
  <2>1. InHand' = InHand
    BY <1>0, <1>3 DEF ReadSubscription, OnceAllowed, InHand
  <2> QED
    BY <1>0, <1>3, <2>1, BalanceKept DEF ReadSubscription
<1>4. ASSUME NEW r \in Requests, ReadUsage(r) PROVE UsageBalances'
  <2>1. InHand' = InHand
    BY <1>0, <1>4 DEF ReadUsage, OnceAllowed, InHand
  <2> QED
    BY <1>0, <1>4, <2>1, BalanceKept DEF ReadUsage
<1>5. ASSUME NEW r \in Requests, Fails(r) PROVE UsageBalances'
  <2>1. InHand' = InHand
    BY <1>0, <1>5 DEF Fails, ItemEnds, InHand
  <2> QED
    BY <1>0, <1>5, <2>1, BalanceKept DEF Fails
<1>6. ASSUME NEW r \in Requests, Send(r) PROVE UsageBalances'
  <2>1. CASE kind[r] = "status"
    <3>1. InHand' = InHand
      BY <1>0, <1>6, <2>1 DEF Send, TakenFor, InHand
    <3> QED
      BY <1>0, <1>6, <2>1, <3>1, BalanceKept DEF Send, TakenFor
  <2>2. CASE kind[r] # "status"
    <3>1. r \notin InHand /\ InHand' = InHand \cup {r}
      BY <1>0, <1>6, <2>2 DEF Send, TakenFor, InHand
    <3>2. /\ thisMonth' = thisMonth + 1 /\ tracking' = tracking
          /\ used' = used /\ carried' = carried /\ lost' = lost
      BY <1>6, <2>2 DEF Send, TakenFor
    <3>3. Cardinality(InHand') = Cardinality(InHand) + 1
      BY <3>1, InHandGrows
    <3> QED
      BY <1>0, <3>2, <3>3 DEF UsageBalances, UsageTypes
  <2> QED
    BY <2>1, <2>2
<1>7. ASSUME NEW r \in Requests, SendUnanswered(r) PROVE UsageBalances'
  <2>1. InHand' = InHand
    BY <1>0, <1>7 DEF SendUnanswered, TakenFor, ItemEnds, InHand
  <2> QED
    BY <1>0, <1>7, <2>1 DEF SendUnanswered, TakenFor, UsageBalances, UsageTypes
<1>8. ASSUME NEW r \in Requests, Save(r) PROVE UsageBalances'
  <2>1. InHand' = InHand
    BY <1>0, <1>8 DEF Save, InHand
  <2> QED
    BY <1>0, <1>8, <2>1, BalanceKept DEF Save
<1>9. ASSUME NEW r \in Requests, SaveFails(r) PROVE UsageBalances'
  <2>1. InHand' = InHand
    BY <1>0, <1>9 DEF SaveFails, InHand
  <2> QED
    BY <1>0, <1>9, <2>1, BalanceKept DEF SaveFails
<1>10. ASSUME NEW r \in Requests, UpsertConversation(r) PROVE UsageBalances'
  <2>1. InHand' = InHand
    BY <1>0, <1>10 DEF UpsertConversation, InHand
  <2> QED
    BY <1>0, <1>10, <2>1, BalanceKept DEF UpsertConversation
<1>11. ASSUME NEW r \in Requests, Report(r) PROVE UsageBalances'
  <2>1. CASE kind[r] = "status"
    <3>1. InHand' = InHand
      BY <1>0, <1>11, <2>1 DEF Report, ItemEnds, InHand
    <3> QED
      BY <1>0, <1>11, <2>1, <3>1, BalanceKept DEF Report, ItemEnds
  <2>2. CASE kind[r] # "status"
    <3>1. r \in InHand /\ InHand' = InHand \ {r}
      BY <1>0, <1>11, <2>2 DEF Report, ItemEnds, InHand
    <3>2. /\ thisMonth' = thisMonth /\ tracking' = tracking + 1
          /\ used' = used /\ carried' = carried /\ lost' = lost
      BY <1>11, <2>2 DEF Report, ItemEnds
    <3>3. Cardinality(InHand') = Cardinality(InHand) - 1
      BY <3>1, InHandShrinks
    <3> QED
      BY <1>0, <3>1, <3>2, <3>3 DEF UsageBalances, UsageTypes
  <2> QED
    BY <2>1, <2>2
<1>12. ASSUME NEW r \in Requests, Return(r) PROVE UsageBalances'
  <2>1. InHand' = InHand
    BY <1>0, <1>12 DEF Return, InHand
  <2> QED
    BY <1>0, <1>12, <2>1, BalanceKept DEF Return
<1>13. ASSUME Tracker PROVE UsageBalances'
  <2>1. InHand' = InHand
    BY <1>13 DEF Tracker, TrackSent, TrackSentFails, InHand
  <2>2. CASE TrackSent
    BY <1>0, <2>1, <2>2 DEF TrackSent, UsageBalances, UsageTypes
  <2>3. CASE TrackSentFails
    BY <1>0, <2>1, <2>3 DEF TrackSentFails, UsageBalances, UsageTypes
  <2> QED
    BY <1>13, <2>2, <2>3 DEF Tracker
<1>14. ASSUME MonthEnds PROVE UsageBalances'
  <2>1. InHand' = InHand
    BY <1>14 DEF MonthEnds, InHand
  <2> QED
    BY <1>0, <1>14, <2>1 DEF MonthEnds, UsageBalances, UsageTypes
<1>16. ASSUME Restart PROVE UsageBalances'
  <2>1. InHand' = {}
    BY <1>16 DEF Restart, InHand
  <2> QED
    BY <1>0, <1>16, <2>1, FS_EmptySet DEF Restart, UsageBalances, UsageTypes
<1>17. CASE UNCHANGED vars
  <2>1. InHand' = InHand
    BY <1>17 DEF vars, InHand
  <2> QED
    BY <1>0, <1>17, <2>1, BalanceKept DEF vars
<1> QED
  BY <1>1, <1>2, <1>3, <1>4, <1>5, <1>6, <1>7, <1>8, <1>9, <1>10, <1>11, <1>12,
     <1>13, <1>14, <1>16, <1>17
     DEF Next, RequestStep

(* A message that counts against the plan is counted once, is on its way   *)
(* to the counter, or was lost with the database, the connection or the    *)
(* process (TrackSent).                                                    *)
THEOREM UsageIsCounted == Spec => []UsageBalances
BY SendsTypes, InitBalance, BalanceStep, PTL DEF Spec

-----------------------------------------------------------------------------
(* The limit.                                                              *)

(* A request that a trial let through has not sent its message yet, so that *)
(* whoever has one in hand spends the limit.                                *)
FreeToSend ==
    \A r \in free : At(r, "send") \/ (At(r, "resolve") /\ kind[r] = "media")

(* What is counted, will be counted or may still be sent. *)
Budget == used + tracking + Cardinality(Spending) <= Limit + unlimited + backlog

(* No request has passed a check. *)
LEMMA InitBudget == Init => FreeToSend /\ Budget
<1> SUFFICES ASSUME Init PROVE FreeToSend /\ Budget
  OBVIOUS
<1>1. Spending = {}
  BY DEF Init, Spending, Passed, At
<1> QED
  BY <1>1, FS_EmptySet, SendsAssumption DEF Init, FreeToSend, Budget

(* A step that counts nothing and lets nobody through. *)
LEMMA BudgetKept ==
    ASSUME TypeOK, Budget, Spending' \subseteq Spending, UNCHANGED <<used, tracking, backlog>>,
           unlimited' \in Nat, unlimited' >= unlimited
    PROVE  Budget'
<1>1. Cardinality(Spending') \in Nat /\ Cardinality(Spending') <= Cardinality(Spending)
  BY SpendingFinite, FS_Subset, FS_CardinalityType
<1>2. /\ used \in Nat /\ tracking \in Nat /\ unlimited \in Nat /\ backlog \in Nat
      /\ Limit \in Nat /\ Cardinality(Spending) \in Nat
  BY SpendingFinite, SendsAssumption DEF TypeOK
<1> QED
  BY <1>1, <1>2 DEF Budget

(* A step of one request changes the standing of that one only. *)
LEMMA SpendingElsewhere ==
    ASSUME NEW r \in Requests, OnlyOf(r), \A q \in Requests \ {r} : q \in free' <=> q \in free
    PROVE  /\ r \notin Spending' => Spending' = Spending \ {r}
           /\ r \in Spending' => Spending' = Spending \cup {r}
BY DEF Spending, Passed, At, OnlyOf

(* Nobody who holds a message got it from a trial. *)
LEMMA FreeStep == TypeOK /\ FreeToSend /\ [Next]_vars => FreeToSend'
<1> SUFFICES ASSUME TypeOK, FreeToSend, [Next]_vars PROVE FreeToSend'
  OBVIOUS
<1>0. pc \in [Requests -> Step] /\ kind \in [Requests -> Kinds] /\ free \subseteq Requests
  BY DEF TypeOK
<1> USE DEF FreeToSend, At, GoTo, requestVars, monthVars
<1>1. ASSUME NEW r \in Requests, NEW k \in Kinds, Begin(r, k) PROVE FreeToSend'
  BY <1>0, <1>1 DEF Begin, FirstStep
<1>2. ASSUME NEW r \in Requests, NEW absent \in 0 .. BulkSize, Resolve(r, absent)
      PROVE  FreeToSend'
  BY <1>0, <1>2 DEF Resolve, OnceResolved
<1>3. ASSUME NEW r \in Requests, ReadSubscription(r) PROVE FreeToSend'
  BY <1>0, <1>3 DEF ReadSubscription, OnceAllowed
<1>4. ASSUME NEW r \in Requests, ReadUsage(r) PROVE FreeToSend'
  BY <1>0, <1>4 DEF ReadUsage, OnceAllowed
<1>5. ASSUME NEW r \in Requests, Fails(r) PROVE FreeToSend'
  BY <1>0, <1>5 DEF Fails, ItemEnds
<1>6. ASSUME NEW r \in Requests, Send(r) PROVE FreeToSend'
  BY <1>0, <1>6 DEF Send
<1>7. ASSUME NEW r \in Requests, SendUnanswered(r) PROVE FreeToSend'
  BY <1>0, <1>7 DEF SendUnanswered, ItemEnds
<1>8. ASSUME NEW r \in Requests, Save(r) \/ SaveFails(r) \/ UpsertConversation(r)
      PROVE  FreeToSend'
  BY <1>0, <1>8 DEF Save, SaveFails, UpsertConversation
<1>9. ASSUME NEW r \in Requests, Report(r) \/ Return(r) PROVE FreeToSend'
  BY <1>0, <1>9 DEF Report, Return, ItemEnds
<1>10. ASSUME Tracker \/ MonthEnds \/ Restart PROVE FreeToSend'
  BY <1>0, <1>10 DEF Tracker, TrackSent, TrackSentFails, MonthEnds, Restart
<1>11. CASE UNCHANGED vars
  BY <1>11 DEF vars
<1> QED
  BY <1>1, <1>2, <1>3, <1>4, <1>5, <1>6, <1>7, <1>8, <1>9, <1>10, <1>11 DEF Next, RequestStep

(* A check lets one more through than it sees, and remembers what it did not *)
(* see; a trial pays for itself; every other step moves or ends a message.   *)
LEMMA BudgetStep == TypeOK /\ FreeToSend /\ Budget /\ [Next]_vars => Budget'
<1> SUFFICES ASSUME TypeOK, FreeToSend, Budget, [Next]_vars PROVE Budget'
  OBVIOUS
<1>0. pc \in [Requests -> Step] /\ kind \in [Requests -> Kinds] /\ free \subseteq Requests
  BY DEF TypeOK
<1>n. /\ used \in Nat /\ tracking \in Nat /\ unlimited \in Nat /\ backlog \in Nat
      /\ Limit \in Nat /\ Cardinality(Spending) \in Nat
  BY SpendingFinite, SendsAssumption DEF TypeOK
<1>s. unlimited \in Nat /\ unlimited >= unlimited
  BY <1>n
<1> USE DEF At, GoTo, requestVars, usageVars, monthVars
<1>1. ASSUME NEW r \in Requests, NEW k \in Kinds, Begin(r, k) PROVE Budget'
  <2>1. Spending' \subseteq Spending
    BY <1>0, <1>1 DEF Begin, FirstStep, Spending, Passed, Metered
  <2> QED
    BY <1>s, <1>1, <2>1, BudgetKept DEF Begin
<1>2. ASSUME NEW r \in Requests, NEW absent \in 0 .. BulkSize, Resolve(r, absent)
      PROVE  Budget'
  <2>1. Spending' \subseteq Spending
    BY <1>0, <1>2 DEF Resolve, OnceResolved, Spending, Passed, Metered
  <2> QED
    BY <1>s, <1>2, <2>1, BudgetKept DEF Resolve
<1>3. ASSUME NEW r \in Requests, ReadSubscription(r) PROVE Budget'
  <2>1. Spending' \subseteq Spending
    BY <1>0, <1>3 DEF ReadSubscription, OnceAllowed, Spending, Passed, Metered
  <2> QED
    BY <1>s, <1>3, <2>1, BudgetKept DEF ReadSubscription
<1>4. ASSUME NEW r \in Requests, ReadUsage(r) PROVE Budget'
  <2>1. Spending' \subseteq Spending \cup {r} /\ IsFiniteSet(Spending \cup {r})
    BY <1>0, <1>4, SpendingFinite, FS_AddElement
       DEF ReadUsage, OnceAllowed, Spending, Passed, Metered
  <2>2. /\ Cardinality(Spending') \in Nat
        /\ Cardinality(Spending') <= Cardinality(Spending) + 1
    BY <1>n, <2>1, SpendingFinite, FS_AddElement, FS_Subset, FS_CardinalityType
  <2>3. /\ used' = used /\ tracking' = tracking /\ unlimited' = unlimited /\ used < Limit
        /\ backlog' \in Nat /\ backlog' >= tracking + Cardinality(Spending)
    BY <1>n, <1>4 DEF ReadUsage, Unseen
  <2> QED
    BY <1>n, <2>2, <2>3 DEF Budget
<1>5. ASSUME NEW r \in Requests, Fails(r) PROVE Budget'
  <2>1. Spending' \subseteq Spending
    <3>1. OnlyOf(r) /\ \A q \in Requests \ {r} : q \in free' <=> q \in free
      BY <1>0, <1>5 DEF Fails, ItemEnds, OnlyOf, TypeOK
    <3>2. r \notin Spending'
      BY <1>0, <1>5 DEF Fails, ItemEnds, Spending, Passed, Metered
    <3> QED
      BY <3>1, <3>2, SpendingElsewhere
  <2> QED
    BY <1>s, <1>5, <2>1, BudgetKept DEF Fails
<1>6. ASSUME NEW r \in Requests, Send(r) PROVE Budget'
  <2>1. CASE r \notin free
    <3>1. Spending' \subseteq Spending
      BY <1>0, <1>6, <2>1 DEF Send, Spending, Passed, Metered
    <3> QED
      BY <1>s, <1>6, <2>1, <3>1, BudgetKept DEF Send, TakenFor
  <2>2. CASE r \in free
    <3>1. Spending' \subseteq Spending \cup {r} /\ IsFiniteSet(Spending \cup {r})
      BY <1>0, <1>6, SpendingFinite, FS_AddElement DEF Send, Spending, Passed, Metered
    <3>2. /\ Cardinality(Spending') \in Nat
          /\ Cardinality(Spending') <= Cardinality(Spending) + 1
      BY <1>n, <3>1, SpendingFinite, FS_AddElement, FS_Subset, FS_CardinalityType
    <3>3. /\ used' = used /\ tracking' = tracking /\ backlog' = backlog
          /\ unlimited' = unlimited + 1
      BY <1>6, <2>2 DEF Send, TakenFor
    <3> QED
      BY <1>n, <3>2, <3>3 DEF Budget
  <2> QED
    BY <2>1, <2>2
<1>7. ASSUME NEW r \in Requests, SendUnanswered(r) PROVE Budget'
  <2>1. Spending' \subseteq Spending
    <3>1. OnlyOf(r) /\ \A q \in Requests \ {r} : q \in free' <=> q \in free
      BY <1>0, <1>7 DEF SendUnanswered, TakenFor, ItemEnds, OnlyOf, TypeOK
    <3>2. r \notin Spending'
      BY <1>0, <1>7 DEF SendUnanswered, ItemEnds, Spending, Passed, Metered
    <3> QED
      BY <3>1, <3>2, SpendingElsewhere
  <2>2. unlimited' \in Nat /\ unlimited' >= unlimited
    BY <1>n, <1>7 DEF SendUnanswered, TakenFor
  <2> QED
    BY <1>7, <2>1, <2>2, BudgetKept DEF SendUnanswered
<1>8. ASSUME NEW r \in Requests, Save(r) \/ SaveFails(r) \/ UpsertConversation(r)
      PROVE  Budget'
  <2>1. Spending' \subseteq Spending
    BY <1>0, <1>8 DEF Save, SaveFails, UpsertConversation, Spending, Passed, Metered
  <2> QED
    BY <1>s, <1>8, <2>1, BudgetKept DEF Save, SaveFails, UpsertConversation
<1>9. ASSUME NEW r \in Requests, Report(r) PROVE Budget'
  <2>0. OnlyOf(r) /\ \A q \in Requests \ {r} : q \in free' <=> q \in free
    BY <1>0, <1>9 DEF Report, ItemEnds, OnlyOf, TypeOK
  <2>1. r \notin Spending'
    BY <1>0, <1>9 DEF Report, ItemEnds, Spending, Passed, Metered
  <2>2. Spending' = Spending \ {r}
    BY <2>0, <2>1, SpendingElsewhere
  <2>3. CASE kind[r] = "status"
    BY <1>s, <1>9, <2>2, <2>3, BudgetKept DEF Report, Metered
  <2>4. CASE kind[r] # "status"
    <3>1. r \in Spending
      BY <1>0, <1>9, <2>4 DEF Report, Spending, Passed, Metered, FreeToSend
    <3>2. Cardinality(Spending') = Cardinality(Spending) - 1
      BY <2>2, <3>1, SpendingFinite, FS_RemoveElement
    <3>3. /\ used' = used /\ tracking' = tracking + 1 /\ backlog' = backlog
          /\ unlimited' = unlimited
      BY <1>9, <2>4 DEF Report, Metered
    <3> QED
      BY <1>n, <3>2, <3>3 DEF Budget
  <2> QED
    BY <2>3, <2>4
<1>10. ASSUME NEW r \in Requests, Return(r) PROVE Budget'
  <2>1. Spending' \subseteq Spending
    BY <1>0, <1>10 DEF Return, Spending, Passed, Metered
  <2> QED
    BY <1>s, <1>10, <2>1, BudgetKept DEF Return
<1>11. ASSUME Tracker PROVE Budget'
  <2>1. Spending' = Spending /\ unlimited' = unlimited /\ backlog' = backlog
    BY <1>11 DEF Tracker, TrackSent, TrackSentFails, Spending, Passed
  <2>2. /\ tracking > 0 /\ tracking' = tracking - 1
        /\ used' = used + 1 \/ used' = used
    BY <1>11 DEF Tracker, TrackSent, TrackSentFails
  <2> QED
    BY <1>n, <2>1, <2>2 DEF Budget
<1>12. ASSUME MonthEnds PROVE Budget'
  <2>1. Spending' = Spending
    BY <1>12 DEF MonthEnds, Spending, Passed
  <2>2. /\ used' = 0 /\ tracking' = tracking /\ unlimited' = 0
        /\ backlog' = tracking + Cardinality(Spending)
    BY <1>12 DEF MonthEnds, Unseen
  <2> QED
    BY <1>n, <2>1, <2>2 DEF Budget
<1>13. ASSUME Restart PROVE Budget'
  <2>1. Spending' = {}
    BY <1>13 DEF Restart, Spending, Passed
  <2>2. Cardinality(Spending') = 0
    BY <2>1, FS_EmptySet
  <2>3. used' = used /\ tracking' = 0 /\ unlimited' = unlimited /\ backlog' = backlog
    BY <1>13 DEF Restart
  <2> QED
    BY <1>n, <2>2, <2>3 DEF Budget
<1>14. CASE UNCHANGED vars
  <2>1. Spending' = Spending
    BY <1>14 DEF vars, Spending, Passed
  <2> QED
    BY <1>s, <1>14, <2>1, BudgetKept DEF vars
<1> QED
  BY <1>1, <1>2, <1>3, <1>4, <1>5, <1>6, <1>7, <1>8, <1>9, <1>10, <1>11, <1>12,
     <1>13, <1>14 DEF Next, RequestStep

(* WhatsApp takes no more messages in a month than the plan allows, but for  *)
(* those of a trial, those the counter lost, and one for each message that a *)
(* check could not see yet: for any number of requests, restarts and months, *)
(* whatever fails (CheckLimit, TrackSent).                                   *)
THEOREM LimitOverrun == Spec => []LimitOverrunBounded
<1>1. TypeOK /\ FreeToSend /\ Budget /\ UsageBalances => LimitOverrunBounded
  <2> SUFFICES ASSUME TypeOK, FreeToSend, Budget, UsageBalances PROVE LimitOverrunBounded
    OBVIOUS
  <2>1. InHand \subseteq Spending
    BY DEF InHand, Spending, Passed, FreeToSend, At
  <2>2. /\ Cardinality(InHand) \in Nat /\ Cardinality(Spending) \in Nat
        /\ Cardinality(InHand) <= Cardinality(Spending)
    BY <2>1, InHandFinite, SpendingFinite, FS_Subset
  <2>3. /\ used \in Nat /\ tracking \in Nat /\ unlimited \in Nat /\ backlog \in Nat
        /\ thisMonth \in Nat /\ carried \in Nat /\ lost \in Nat /\ Limit \in Nat
    BY SendsAssumption DEF TypeOK
  <2>4. thisMonth <= used + tracking + Cardinality(Spending) + lost
    BY <2>2, <2>3 DEF UsageBalances
  <2> QED
    BY <2>2, <2>3, <2>4 DEF Budget, LimitOverrunBounded
<1> QED
  BY <1>1, SendsTypes, UsageIsCounted, InitBudget, FreeStep, BudgetStep, PTL DEF Spec

-----------------------------------------------------------------------------
(* Rows.  A request that has a message on its way to the tables is the only   *)
(* one that has it, and knows where the message stands.                    *)

Saving(i) == \E r \in Requests : At(r, "save") /\ msg[r] = i
Listing(i) == \E r \in Requests : At(r, "convo") /\ msg[r] = i

Handed ==
    /\ \A r \in Requests : At(r, "save") => msg[r] \notin unsaved
    /\ \A q, r \in Requests : At(q, "save") /\ At(r, "save") /\ msg[q] = msg[r] => q = r
    /\ \A r \in Requests : At(r, "convo") => row[msg[r]] = Chat(kind[r])

(* The three parts of MessagesKept. *)
RowsSaved == \A i \in 1 .. Taken : row[i] = None <=> i \in unsaved \/ Saving(i)
RowsListed ==
    \A i \in 1 .. Taken : row[i] # None => last[row[i]] # 0 \/ i \in unlisted \/ Listing(i)
LastHasRow == \A c \in Chats : last[c] # 0 => row[last[c]] = c

Kept == RowsSaved /\ RowsListed /\ LastHasRow /\ Handed

LEMMA KeptIsMore == Kept => MessagesKept
BY DEF Kept, RowsSaved, RowsListed, LastHasRow, Saving, Listing, MessagesKept

Writing == {"save", "convo"}

(* A step of r that is about no row: the others write what they wrote. *)
LEMMA QuietForRows ==
    ASSUME Kept, NEW r \in Requests, OnlyOf(r), UNCHANGED tableVars,
           pc[r] \notin Writing, pc'[r] \notin Writing
    PROVE  Kept'
<1>1. \A q \in Requests :
          pc[q] \in Writing \/ pc'[q] \in Writing =>
              pc'[q] = pc[q] /\ msg'[q] = msg[q] /\ kind'[q] = kind[q]
  BY DEF OnlyOf
<1>2. UNCHANGED <<row, last, unsaved, unlisted>> /\ Taken' = Taken
  BY DEF tableVars, Taken
<1>3. \A i : (Saving(i)' <=> Saving(i)) /\ (Listing(i)' <=> Listing(i))
  BY <1>1 DEF Saving, Listing, At, Writing
<1>4. Handed'
  BY <1>1, <1>2 DEF Kept, Handed, At, Writing
<1> QED
  BY <1>2, <1>3, <1>4 DEF Kept, RowsSaved, RowsListed, LastHasRow

(* The same for what is no step of a request. *)
LEMMA StillForRows ==
    ASSUME Kept, UNCHANGED <<pc, kind, msg, tableVars>>
    PROVE  Kept'
BY DEF Kept, RowsSaved, RowsListed, LastHasRow, Handed, Saving, Listing, At, Taken, tableVars

(* Each statement of Create and each way to miss it is on record. *)
LEMMA KeptStep == TypeOK /\ Control /\ Kept /\ [Next]_vars => Kept'
<1> SUFFICES ASSUME TypeOK, Control, Kept, [Next]_vars PROVE Kept'
  OBVIOUS
<1>0. /\ pc \in [Requests -> Step] /\ kind \in [Requests -> Kinds]
      /\ msg \in [Requests -> 0 .. Taken] /\ last \in [Chats -> 0 .. Taken]
      /\ left \in [Requests -> Nat] /\ sent \in [Requests -> Nat]
      /\ failed \in [Requests -> Nat] /\ accepted \in [Requests -> Nat]
      /\ unsaved \subseteq 1 .. Taken /\ unlisted \subseteq 1 .. Taken /\ Taken \in Nat
  BY RowTypes DEF TypeOK
<1>a. \A r \in Requests : pc[r] \in Writing => msg[r] \in 1 .. Taken
  BY <1>0 DEF Control, ControlOf, Writing, Holding
<1>b. \A k \in Kinds : Chat(k) \in Chats /\ Chat(k) # None
  BY DEF Chats, Chat, None
<1> USE DEF At, GoTo, requestVars, Writing
<1>1. ASSUME NEW r \in Requests, NEW k \in Kinds, Begin(r, k) PROVE Kept'
  BY <1>0, <1>1, QuietForRows DEF Begin, FirstStep, OnlyOf
<1>2. ASSUME NEW r \in Requests, NEW absent \in 0 .. BulkSize, Resolve(r, absent)
      PROVE  Kept'
  BY <1>0, <1>2, QuietForRows DEF Resolve, OnceResolved, OnlyOf
<1>3. ASSUME NEW r \in Requests, ReadSubscription(r) \/ ReadUsage(r) PROVE Kept'
  BY <1>0, <1>3, QuietForRows DEF ReadSubscription, ReadUsage, OnceAllowed, OnlyOf
<1>4. ASSUME NEW r \in Requests, Fails(r) PROVE Kept'
  BY <1>0, <1>4, QuietForRows DEF Fails, ItemEnds, OnlyOf
<1>5. ASSUME NEW r \in Requests, Report(r) \/ Return(r) PROVE Kept'
  BY <1>0, <1>5, QuietForRows DEF Report, Return, ItemEnds, OnlyOf
<1>6. ASSUME NEW r \in Requests, Send(r) PROVE Kept'
  <2>0. PICK n \in Nat : n = Taken + 1 /\ n \notin 1 .. Taken
    BY <1>0
  <2>1. /\ OnlyOf(r) /\ pc[r] = "send" /\ pc'[r] = "save" /\ msg'[r] = n
        /\ row' = Append(row, None) /\ UNCHANGED <<last, unsaved, unlisted>>
    BY <1>0, <1>6, <2>0 DEF Send, TakenFor, OnlyOf
  <2>2. /\ 1 .. Taken' = (1 .. Taken) \cup {n} /\ row'[n] = None
        /\ \A i \in 1 .. Taken : row'[i] = row[i]
    <3>1. /\ Taken' = Taken + 1 /\ row'[Taken + 1] = None
          /\ \A i \in 1 .. Taken : row'[i] = row[i]
      BY <2>1, RowTypes
    <3>2. 1 .. Taken + 1 = (1 .. Taken) \cup {Taken + 1}
      BY <1>0
    <3> QED
      BY <2>0, <3>1, <3>2
  <2>3. /\ \A i \in 1 .. Taken : Saving(i)' <=> Saving(i)
        /\ \A i \in 1 .. Taken : Listing(i)' <=> Listing(i)
        /\ Saving(n)'
    BY <2>0, <2>1 DEF Saving, Listing, OnlyOf
  <2>4. RowsSaved'
    BY <1>0, <2>0, <2>1, <2>2, <2>3 DEF Kept, RowsSaved
  <2>5. RowsListed'
    BY <2>1, <2>2, <2>3 DEF Kept, RowsListed
  <2>6. \A c \in Chats : last[c] # 0 => last[c] \in 1 .. Taken
    BY <1>0
  <2>7. LastHasRow'
    BY <2>1, <2>2, <2>6 DEF Kept, LastHasRow
  <2>8. Handed'
    <3>1. \A q \in Requests \ {r} : pc'[q] \in Writing =>
              /\ pc[q] = pc'[q] /\ msg'[q] = msg[q] /\ kind'[q] = kind[q]
              /\ msg[q] \in 1 .. Taken /\ msg[q] # n
      BY <1>a, <2>0, <2>1 DEF OnlyOf
    <3>2. n \notin unsaved
      BY <1>0, <2>0
    <3>3. \A q \in Requests : pc'[q] = "save" => msg'[q] \notin unsaved'
      BY <2>1, <3>1, <3>2 DEF Kept, Handed
    <3>4. \A p, q \in Requests : pc'[p] = "save" /\ pc'[q] = "save" /\ msg'[p] = msg'[q] => p = q
      BY <2>1, <3>1, <3>2 DEF Kept, Handed
    <3>5. \A q \in Requests : pc'[q] = "convo" => row'[msg'[q]] = Chat(kind'[q])
      <4> SUFFICES ASSUME NEW q \in Requests, pc'[q] = "convo"
                   PROVE  row'[msg'[q]] = Chat(kind'[q])
        OBVIOUS
      <4>1. pc[q] = "convo" /\ msg'[q] = msg[q] /\ kind'[q] = kind[q] /\ msg[q] \in 1 .. Taken
        BY <2>1, <3>1
      <4>2. row[msg[q]] = Chat(kind[q])
        BY <4>1 DEF Kept, Handed
      <4> QED
        BY <2>2, <4>1, <4>2
    <3> QED
      BY <3>3, <3>4, <3>5 DEF Handed
  <2> QED
    BY <2>4, <2>5, <2>7, <2>8 DEF Kept
<1>7. ASSUME NEW r \in Requests, SendUnanswered(r) PROVE Kept'
  <2>0. PICK n \in Nat : n = Taken + 1 /\ n \notin 1 .. Taken
    BY <1>0
  <2>1. /\ OnlyOf(r) /\ pc[r] = "send" /\ pc'[r] \notin Writing
        /\ row' = Append(row, None) /\ UNCHANGED <<last, unlisted>>
        /\ unsaved' = unsaved \cup {n}
    BY <1>0, <1>7, <2>0 DEF SendUnanswered, TakenFor, ItemEnds, OnlyOf
  <2>2. /\ 1 .. Taken' = (1 .. Taken) \cup {n} /\ row'[n] = None
        /\ \A i \in 1 .. Taken : row'[i] = row[i]
    <3>1. /\ Taken' = Taken + 1 /\ row'[Taken + 1] = None
          /\ \A i \in 1 .. Taken : row'[i] = row[i]
      BY <2>1, RowTypes
    <3>2. 1 .. Taken + 1 = (1 .. Taken) \cup {Taken + 1}
      BY <1>0
    <3> QED
      BY <2>0, <3>1, <3>2
  <2>3. \A i : (Saving(i)' <=> Saving(i)) /\ (Listing(i)' <=> Listing(i))
    BY <2>1 DEF Saving, Listing, OnlyOf
  <2>4. RowsSaved'
    BY <2>0, <2>1, <2>2, <2>3 DEF Kept, RowsSaved
  <2>5. RowsListed'
    BY <2>1, <2>2, <2>3 DEF Kept, RowsListed
  <2>6. \A c \in Chats : last[c] # 0 => last[c] \in 1 .. Taken
    BY <1>0
  <2>7. LastHasRow'
    BY <2>1, <2>2, <2>6 DEF Kept, LastHasRow
  <2>8. Handed'
    <3>1. \A q \in Requests : pc'[q] \in Writing =>
              /\ q # r /\ pc[q] = pc'[q] /\ msg'[q] = msg[q] /\ kind'[q] = kind[q]
              /\ msg[q] \in 1 .. Taken /\ msg[q] # n
      BY <1>a, <2>0, <2>1 DEF OnlyOf
    <3>3. \A q \in Requests : pc'[q] = "save" => msg'[q] \notin unsaved'
      BY <2>1, <3>1 DEF Kept, Handed
    <3>4. \A p, q \in Requests : pc'[p] = "save" /\ pc'[q] = "save" /\ msg'[p] = msg'[q] => p = q
      BY <2>1, <3>1 DEF Kept, Handed
    <3>5. \A q \in Requests : pc'[q] = "convo" => row'[msg'[q]] = Chat(kind'[q])
      <4> SUFFICES ASSUME NEW q \in Requests, pc'[q] = "convo"
                   PROVE  row'[msg'[q]] = Chat(kind'[q])
        OBVIOUS
      <4>1. pc[q] = "convo" /\ msg'[q] = msg[q] /\ kind'[q] = kind[q] /\ msg[q] \in 1 .. Taken
        BY <2>1, <3>1
      <4>2. row[msg[q]] = Chat(kind[q])
        BY <4>1 DEF Kept, Handed
      <4> QED
        BY <2>2, <4>1, <4>2
    <3> QED
      BY <3>3, <3>4, <3>5 DEF Handed
  <2> QED
    BY <2>4, <2>5, <2>7, <2>8 DEF Kept
<1>8. ASSUME NEW r \in Requests, Save(r) PROVE Kept'
  <2>1. /\ OnlyOf(r) /\ pc[r] = "save" /\ pc'[r] = "convo" /\ msg' = msg /\ kind' = kind
        /\ row' = [row EXCEPT ![msg[r]] = Chat(kind[r])]
        /\ UNCHANGED <<last, unsaved, unlisted>>
        /\ msg[r] \in 1 .. Taken /\ kind[r] \in Kinds
    BY <1>0, <1>a, <1>8 DEF Save, OnlyOf
  <2>2. /\ Taken' = Taken
        /\ \A i \in 1 .. Taken : row'[i] = IF i = msg[r] THEN Chat(kind[r]) ELSE row[i]
    BY <1>b, <2>1, RowTypes
  <2>3. \A i : Saving(i)' <=> Saving(i) /\ i # msg[r]
    BY <2>1 DEF Saving, OnlyOf, Kept, Handed
  <2>4. \A i : Listing(i) \/ i = msg[r] => Listing(i)'
    BY <2>1 DEF Listing, OnlyOf
  <2>5. row[msg[r]] = None
    BY <2>1 DEF Kept, RowsSaved, Saving
  <2>6. RowsSaved'
    BY <1>b, <2>1, <2>2, <2>3 DEF Kept, RowsSaved, Handed
  <2>7. RowsListed'
    BY <2>1, <2>2, <2>4 DEF Kept, RowsListed
  <2>8. LastHasRow'
    BY <1>0, <2>1, <2>2, <2>5 DEF Kept, LastHasRow, Chats, Chat, None
  <2>9. Handed'
    BY <1>0, <1>a, <2>1, <2>2, <2>5, <1>b DEF Kept, Handed, OnlyOf
  <2> QED
    BY <2>6, <2>7, <2>8, <2>9 DEF Kept
<1>9. ASSUME NEW r \in Requests, SaveFails(r) PROVE Kept'
  <2>1. /\ OnlyOf(r) /\ pc[r] = "save" /\ pc'[r] = "report" /\ msg' = msg /\ kind' = kind
        /\ UNCHANGED <<row, last, unlisted>> /\ unsaved' = unsaved \cup {msg[r]}
        /\ Taken' = Taken
    BY <1>0, <1>9 DEF SaveFails, OnlyOf, Taken
  <2>2. \A i : Saving(i)' <=> Saving(i) /\ i # msg[r]
    BY <2>1 DEF Saving, OnlyOf, Kept, Handed
  <2>3. Saving(msg[r]) /\ \A i : Listing(i)' <=> Listing(i)
    BY <2>1 DEF Saving, Listing, OnlyOf
  <2>4. RowsSaved' /\ RowsListed' /\ LastHasRow'
    BY <2>1, <2>2, <2>3 DEF Kept, RowsSaved, RowsListed, LastHasRow
  <2>5. Handed'
    BY <2>1 DEF Kept, Handed, OnlyOf
  <2> QED
    BY <2>4, <2>5 DEF Kept
<1>10. ASSUME NEW r \in Requests, UpsertConversation(r) PROVE Kept'
  <2>1. /\ OnlyOf(r) /\ pc[r] = "convo" /\ pc'[r] = "report" /\ msg' = msg /\ kind' = kind
        /\ UNCHANGED <<row, unsaved>> /\ Taken' = Taken
        /\ msg[r] \in 1 .. Taken /\ Chat(kind[r]) \in Chats
    BY <1>0, <1>a, <1>b, <1>10 DEF UpsertConversation, OnlyOf, Taken
  <2>2. /\ \A i : Saving(i)' <=> Saving(i)
        /\ \A i : Listing(i) => Listing(i)' \/ i = msg[r]
    BY <2>1 DEF Saving, Listing, OnlyOf
  <2>3. row[msg[r]] = Chat(kind[r])
    BY <2>1 DEF Kept, Handed
  <2>4. RowsSaved' /\ Handed'
    BY <2>1, <2>2 DEF Kept, RowsSaved, Handed, OnlyOf
  <2>5. CASE last' = [last EXCEPT ![Chat(kind[r])] = msg[r]] /\ UNCHANGED unlisted
    <3>1. RowsListed'
      <4>1. \A c \in Chats : last[c] # 0 => last'[c] # 0
        BY <1>0, <2>1, <2>5
      <4>2. last'[Chat(kind[r])] # 0
        BY <1>0, <2>1, <2>5
      <4>3. \A i \in 1 .. Taken : row[i] # None => row[i] \in Chats
        BY ElementOfSeq DEF TypeOK, Taken
      <4> QED
        BY <2>1, <2>2, <2>3, <2>5, <4>1, <4>2, <4>3 DEF Kept, RowsListed
    <3>2. LastHasRow'
      BY <1>0, <2>1, <2>3, <2>5 DEF Kept, LastHasRow
    <3> QED
      BY <2>4, <3>1, <3>2 DEF Kept
  <2>6. CASE unlisted' = unlisted \cup {msg[r]} /\ UNCHANGED last
    BY <2>1, <2>2, <2>4, <2>6 DEF Kept, RowsListed, LastHasRow
  <2> QED
    BY <1>10, <2>5, <2>6 DEF UpsertConversation
<1>11. ASSUME Tracker \/ MonthEnds PROVE Kept'
  BY <1>11, StillForRows DEF Tracker, TrackSent, TrackSentFails, MonthEnds
<1>12. ASSUME Restart PROVE Kept'
  <2>1. \A r \in Requests : pc'[r] = "idle"
    BY <1>12 DEF Restart
  <2>2. /\ UNCHANGED <<row, last>> /\ Taken' = Taken
        /\ \A i : i \in unsaved' <=> i \in unsaved \/ Saving(i)
        /\ \A i : i \in unlisted' <=> i \in unlisted \/ Listing(i)
    BY <1>12 DEF Restart, Saving, Listing, Taken
  <2>3. \A i : ~Saving(i)' /\ ~Listing(i)'
    BY <2>1 DEF Saving, Listing
  <2>4. RowsSaved' /\ RowsListed' /\ LastHasRow'
    BY <2>2, <2>3 DEF Kept, RowsSaved, RowsListed, LastHasRow
  <2>5. Handed'
    BY <2>1 DEF Handed
  <2> QED
    BY <2>4, <2>5 DEF Kept
<1>13. CASE UNCHANGED vars
  BY <1>13, StillForRows DEF vars
<1> QED
  BY <1>1, <1>2, <1>3, <1>4, <1>5, <1>6, <1>7, <1>8, <1>9, <1>10, <1>11, <1>12, <1>13
     DEF Next, RequestStep

(* A message that WhatsApp took has its row and its conversation, or is on    *)
(* the way there, unless a statement failed or the answer was lost, for any  *)
(* number of requests at once (Create).                                    *)
THEOREM RowsAreKept == Spec => []MessagesKept
<1>1. Init => Kept
  <2> SUFFICES ASSUME Init PROVE Kept
    OBVIOUS
  <2>1. Taken = 0
    BY EmptySeq DEF Init, Taken
  <2> QED
    BY <2>1 DEF Init, Kept, RowsSaved, RowsListed, LastHasRow, Handed, At
<1> QED
  BY <1>1, KeptStep, KeptIsMore, SendsTypes, PTL DEF Spec
=============================================================================
