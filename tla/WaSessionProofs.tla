--------------------------- MODULE WaSessionProofs ---------------------------
(* Theorems about WaSession, for any number of goroutines and sessions.    *)
EXTENDS WaSession, TLAPS

Holding == {"ready", "qr", "forward", "mutate", "snapshot", "diagnose", "store",
            "instance", "delete", "unmap", "clear"}

(* The position of an actor says whether it holds a session, which is the   *)
(* current one or gone; overtaken is only said of one that has read.       *)
Control ==
    /\ current \notin gone
    /\ \A a \in Actors : pc[a] \in Holding <=> held[a] # None
    /\ \A a \in Actors : held[a] \in gone \cup {current, None}
    /\ \A a \in overtaken : pc[a] \in {"keep", "store"}
    /\ online \subseteq gone \cup {current}

THEOREM SessionTypes == Spec => [](TypeOK /\ Control)
<1>1. Init => TypeOK /\ Control
  <2>1. Init => TypeOK
    <3>1. Init => pc \in [Actors -> Step] /\ op \in [Actors -> Events \cup Requests]
      BY DEF Init, Step, Requests
    <3>2. Fresh \in Status /\ "disconnected" \in Status
      BY DEF Fresh, Status
    <3> QED
      BY <3>1, <3>2 DEF Init, TypeOK
  <2>2. Init => Control
    BY SessionAssumption DEF Init, Control, Holding
  <2> QED
    BY <2>1, <2>2
<1>2. TypeOK /\ Control /\ [Next]_vars => (TypeOK /\ Control)'
  <2> SUFFICES ASSUME TypeOK, Control, [Next]_vars PROVE (TypeOK /\ Control)'
    OBVIOUS
  <2> USE DEF TypeOK, Control, Holding, Status, Fresh, Requests, Events, Step, At, GoTo
  <2>1. CASE UNCHANGED vars
    BY <2>1 DEF vars, mapVars, tableVars, actorVars, historyVars
  <2>2. ASSUME NEW a \in Actors, Arrives(a) PROVE (TypeOK /\ Control)'
    BY <2>2, SessionAssumption DEF Arrives, RequestConnect, Request, RequestOperation, Begin, mapVars, tableVars, historyVars
  <2>3. ASSUME NEW a \in Actors, Ensures(a) PROVE (TypeOK /\ Control)'
    <3>1. CASE Find(a)
      BY <3>1, SessionAssumption DEF Find, mapVars, tableVars, historyVars
    <3>2. CASE EnsureFails(a)
      BY <3>2, SessionAssumption DEF EnsureFails, Ends, mapVars, tableVars, historyVars
    <3>3. CASE Build(a)
      BY <3>3, SessionAssumption DEF Build, RecordOf, mapVars, tableVars, historyVars
    <3>4. CASE Keep(a) /\ current = None
      <4>1. PICK c \in Clients : Insert(a, c)
        BY <3>4 DEF Keep
      <4>2. TypeOK'
        BY <3>4, <4>1 DEF Keep, Insert, tableVars
      <4>3. (current \notin gone)' /\ (online \subseteq gone \cup {current})'
        BY <3>4, <4>1, SessionAssumption DEF Keep, Insert
      <4>4. \A b \in Actors : pc'[b] \in Holding <=> held'[b] # None
        BY <3>4, <4>1, SessionAssumption DEF Keep, Insert
      <4>5. \A b \in Actors : held'[b] \in gone' \cup {current', None}
        BY <3>4, <4>1 DEF Keep, Insert
      <4>6. \A b \in overtaken' : pc'[b] \in {"keep", "store"}
        BY <3>4, <4>1 DEF Keep, Insert
      <4> QED
        BY <4>2, <4>3, <4>4, <4>5, <4>6
    <3>5. CASE Keep(a) /\ current # None
      BY <3>5, SessionAssumption DEF Keep, mapVars, tableVars, historyVars
    <3> QED
      BY <2>3, <3>1, <3>2, <3>3, <3>4, <3>5 DEF Ensures, Keep
  <2>4. ASSUME NEW a \in Actors, Connects(a) PROVE (TypeOK /\ Control)'
    BY <2>4, SessionAssumption DEF Connects, AnswerConnected, PassOn, Answered, ConnectedAlready, Connect, ConnectFails, QRCode, QREnds, QRCancelled, Ends, Runs, mapVars, tableVars, historyVars
  <2>5. ASSUME NEW a \in Actors, Forgets(a) PROVE (TypeOK /\ Control)'
    BY <2>5, SessionAssumption DEF Forgets, Logout, DeleteRow, DeleteFails, Unmap, ClearInstance, Outdated, Ends, Runs, mapVars, tableVars, historyVars
  <2>6. ASSUME NEW a \in Actors, Works(a) PROVE (TypeOK /\ Control)'
    BY <2>6, SessionAssumption DEF Works, Disconnect, RestartInstance, PairPhone, Operate, Forwarded, EventFound, Ends, Runs, mapVars, tableVars, historyVars
  <2>7. ASSUME NEW a \in Actors, Persists(a) PROVE (TypeOK /\ Control)'
    <3>1. CASE SetState(a)
      BY <3>1, SessionAssumption DEF SetState, Target, mapVars, tableVars, historyVars
    <3>2. CASE Snapshot(a)
      BY <3>2, SessionAssumption DEF Snapshot, Reads, mapVars, tableVars, historyVars
    <3>3. CASE Diagnose(a)
      BY <3>3, SessionAssumption DEF Diagnose, Reads, mapVars, tableVars, historyVars
    <3>4. CASE Store(a)
      <4>1. row' \in Status \cup {None} /\ excused' \in BOOLEAN
        BY <3>4 DEF Store, Upsert
      <4>2. overtaken' \subseteq Actors /\ \A b \in overtaken' : b # a /\ pc[b] \in {"keep", "store"}
        BY <3>4 DEF Store, Upsert, Outdated
      <4> QED
        BY <3>4, <4>1, <4>2, SessionAssumption DEF Store, Reads, mapVars
    <3>5. CASE StoreInstance(a)
      BY <3>5, SessionAssumption DEF StoreInstance, Ends, mapVars
    <3> QED
      BY <2>7, <3>1, <3>2, <3>3, <3>4, <3>5 DEF Persists
  <2>8. ASSUME NEW a \in Actors, Library(a) PROVE (TypeOK /\ Control)'
    BY <2>8, SessionAssumption DEF Library, LogsIn, Drops, ClosedByWhatsApp, MissesKeepAlive, Raises, Begin, mapVars, tableVars, historyVars
  <2>9. CASE Restart
    BY <2>9, SessionAssumption DEF Restart, tableVars
  <2> QED
    BY <2>1, <2>2, <2>3, <2>4, <2>5, <2>6, <2>7, <2>8, <2>9 DEF Next
<1> QED
  BY <1>1, <1>2, PTL DEF Spec

(* ensureSession: an instance has one client, whatever runs together.      *)
THEOREM OneClientKept == Spec => []OneClient
<1>1. TypeOK /\ Control => OneClient
  BY DEF TypeOK, Control, OneClient, IsConnected
<1> QED
  BY <1>1, SessionTypes, PTL
-----------------------------------------------------------------------------
(* A store under way that will bring the row up to date, or a logout that   *)
(* will drop the session.                                                  *)
Mending(a) ==
    \/ pc[a] = "unmap"
    \/ held[a] = current /\ pc[a] = "snapshot"
    \/ held[a] = current /\ pc[a] = "store" /\ record[a] = session[current] /\ a \notin overtaken
Mended == \E a \in Actors : Mending(a)

(* What a goroutine has read is still true unless it was overtaken, or       *)
(* another one is about to set the row right.                              *)
RowInv ==
    /\ current # None => RecordOf(row) = session[current] \/ Mended
    /\ \A a \in Actors \ overtaken :
          /\ current # None /\ pc[a] = "store" /\ held[a] = current =>
                record[a] = session[current] \/ Mended
          /\ pc[a] = "keep" => record[a] = RecordOf(row)

(* A step of an actor that neither mends nor reads the row leaves the rest. *)
LEMMA Quiet ==
    ASSUME TypeOK, RowInv, NEW a \in Actors, NEW s \in Step,
           UNCHANGED <<current, session, row>>,
           pc[a] \notin {"unmap", "snapshot", "store"},
           pc' = [pc EXCEPT ![a] = s], s \notin {"store", "keep"},
           \A b \in Actors \ {a} : held'[b] = held[b] /\ record'[b] = record[b],
           \A b \in Actors \ {a} : b \in overtaken' <=> b \in overtaken
    PROVE RowInv'
<1>1. \A b \in Actors : Mending(b) => b # a
  BY DEF Mending
<1>2. \A b \in Actors : b # a => pc'[b] = pc[b]
  BY DEF TypeOK
<1>3. pc'[a] = s
  BY DEF TypeOK
<1>4. \A b \in Actors : Mending(b) => Mending(b)'
  BY <1>1, <1>2 DEF Mending
<1>5. Mended => Mended'
  BY <1>4 DEF Mended
<1> QED
  BY <1>2, <1>3, <1>5 DEF RowInv, RecordOf

(* A new row r is what the actors that it does not make outdated have read. *)
LEMMA RowStored ==
    ASSUME TypeOK, Control, RowInv, NEW a \in Actors,
           Upsert(a), pc[a] = "store", a \notin overtaken, current \in {None, held[a]},
           pc' = [pc EXCEPT ![a] = "instance"],
           record' = [record EXCEPT ![a] = session[held[a]]],
           UNCHANGED <<current, session, held>>
    PROVE RowInv'
<1>1. row' = record[a] /\ RecordOf(record[a]) = record[a] /\ RecordOf(row') = record[a]
  BY SessionAssumption DEF Upsert, RecordOf, TypeOK, Status
<1>2. \A b \in Actors : b # a => pc'[b] = pc[b] /\ record'[b] = record[b]
  BY DEF TypeOK
<1>3. pc'[a] = "instance"
  BY DEF TypeOK
<1>4. \A b \in Actors : b # a /\ b \notin overtaken' =>
        /\ b \notin overtaken
        /\ pc[b] = "store" => record[b] = session[held[b]]
        /\ pc[b] = "keep" => record[b] = record[a]
  BY <1>1 DEF Upsert, Outdated, At
<1>5. \A b \in Actors : b # a /\ Mending(b) => Mending(b)'
  BY <1>2 DEF Mending, Upsert, Outdated, At
<1>6. current # None => RecordOf(row') = session[current] \/ Mended'
  <2> SUFFICES ASSUME current # None PROVE record[a] = session[current] \/ Mended'
    BY <1>1
  <2>1. CASE record[a] = session[current]
    BY <2>1
  <2>2. CASE record[a] # session[current]
    <3>1. PICK b \in Actors : Mending(b)
      BY <2>2 DEF RowInv, Mended
    <3>2. b # a
      BY <3>1, <2>2 DEF Mending
    <3> QED
      BY <3>1, <3>2, <1>5 DEF Mended
  <2> QED
    BY <2>1, <2>2
<1> QED
  BY <1>1, <1>2, <1>3, <1>4, <1>6 DEF RowInv

(* The stored session follows the one in memory.                           *)
THEOREM RowKept == Spec => []RowFollows
<1>1. Init => excused \/ RowInv
  BY DEF Init, RowInv
<1>2. TypeOK /\ Control /\ (excused \/ RowInv) /\ [Next]_vars => (excused \/ RowInv)'
  <2> SUFFICES ASSUME TypeOK, Control, excused \/ RowInv, [Next]_vars, ~excused'
               PROVE RowInv'
    OBVIOUS
  <2>0. ~excused /\ RowInv
    <3> SUFFICES excused => excused'
      OBVIOUS
    <3>1. ASSUME NEW a \in Actors, Arrives(a) PROVE excused' = excused
      BY <3>1 DEF Arrives, RequestConnect, Request, RequestOperation, Begin, historyVars
    <3>2. ASSUME NEW a \in Actors, Ensures(a) PROVE excused => excused'
      BY <3>2 DEF Ensures, Find, EnsureFails, Build, Keep, Insert, historyVars
    <3>3. ASSUME NEW a \in Actors, Connects(a) PROVE excused' = excused
      BY <3>3 DEF Connects, AnswerConnected, PassOn, Answered, ConnectedAlready, Connect,
         ConnectFails, QRCode, QREnds, QRCancelled, historyVars
    <3>4. ASSUME NEW a \in Actors, Forgets(a) PROVE excused' = excused
      BY <3>4 DEF Forgets, Logout, DeleteRow, DeleteFails, Unmap, ClearInstance, historyVars
    <3>5. ASSUME NEW a \in Actors, Works(a) PROVE excused' = excused
      BY <3>5 DEF Works, Disconnect, RestartInstance, PairPhone, Operate, Forwarded, EventFound,
         historyVars
    <3>6. ASSUME NEW a \in Actors, Persists(a) PROVE excused => excused'
      BY <3>6 DEF Persists, SetState, Snapshot, Diagnose, Store, Upsert, StoreInstance, historyVars
    <3>7. ASSUME NEW a \in Actors, Library(a) PROVE excused' = excused
      BY <3>7 DEF Library, LogsIn, Drops, ClosedByWhatsApp, MissesKeepAlive, Raises, Begin, historyVars
    <3>8. Restart \/ UNCHANGED vars => excused' = excused
      BY DEF Restart, vars, historyVars
    <3> QED
      BY <3>1, <3>2, <3>3, <3>4, <3>5, <3>6, <3>7, <3>8 DEF Next
  <2> USE <2>0
  <2>1. CASE UNCHANGED vars
    BY <2>1 DEF vars, mapVars, tableVars, actorVars, historyVars, RowInv, Mended, Mending
  <2>2. ASSUME NEW a \in Actors, Arrives(a) PROVE RowInv'
    <3>1. PICK s \in {"precheck", "find"} : pc' = [pc EXCEPT ![a] = s]
      BY <2>2 DEF Arrives, RequestConnect, Request, RequestOperation, Begin, GoTo
    <3>2. UNCHANGED <<current, session, row, held, record, overtaken>> /\ pc[a] = "idle"
      BY <2>2 DEF Arrives, RequestConnect, Request, RequestOperation, Begin, At, mapVars, tableVars, historyVars
    <3> QED
      BY <3>1, <3>2, Quiet DEF Step
  <2>3. ASSUME NEW a \in Actors, Ensures(a) PROVE RowInv'
    <3>1. CASE Find(a)
      BY <3>1, Quiet DEF Find, At, GoTo, mapVars, tableVars, historyVars, Step, TypeOK
    <3>2. CASE EnsureFails(a)
      BY <3>2, Quiet DEF EnsureFails, Ends, At, GoTo, mapVars, tableVars, historyVars, Step, TypeOK
    <3>3. CASE Build(a)
      <4>1. \A b \in Actors : Mending(b) => Mending(b)'
        BY <3>3 DEF Build, Mending, At, GoTo, mapVars, historyVars, TypeOK
      <4>2. Mended => Mended'
        BY <4>1 DEF Mended
      <4> QED
        BY <3>3, <4>2 DEF Build, At, GoTo, mapVars, tableVars, historyVars, TypeOK, RowInv, RecordOf
    <3>4. CASE Keep(a) /\ current = None
      <4>1. PICK c \in Clients : Insert(a, c)
        BY <3>4 DEF Keep
      <4>2. a \notin overtaken /\ pc[a] = "keep"
        BY <3>4, <4>1 DEF Insert, Keep, At
      <4>3. current' = c /\ session'[c] = RecordOf(row) /\ row' = row
        BY <3>4, <4>1, <4>2 DEF Insert, Keep, RowInv, TypeOK, tableVars
      <4>4. \A b \in Actors : pc'[b] = "store" => held'[b] # c
        BY <3>4, <4>1, SessionAssumption DEF Keep, Insert, Control, TypeOK, GoTo
      <4>5. \A b \in Actors : b # a => pc'[b] = pc[b] /\ record'[b] = record[b]
        BY <3>4 DEF Keep, GoTo, TypeOK
      <4>6. pc'[a] = "ready" /\ overtaken' = overtaken \ {a}
        BY <3>4 DEF Keep, GoTo, TypeOK
      <4> QED
        BY <4>3, <4>4, <4>5, <4>6 DEF RowInv, RecordOf
    <3>5. CASE Keep(a) /\ current # None
      BY <3>5, Quiet DEF Keep, At, GoTo, tableVars, Step, TypeOK
    <3> QED
      BY <2>3, <3>1, <3>2, <3>3, <3>4, <3>5 DEF Ensures, Keep
  <2>4. ASSUME NEW a \in Actors, Connects(a) PROVE RowInv'
    <3>1. PICK s \in {"answered", "find", "idle", "mutate", "qr", "diagnose"} :
              pc' = [pc EXCEPT ![a] = s]
      BY <2>4 DEF Connects, AnswerConnected, PassOn, Answered, ConnectedAlready, Connect,
         ConnectFails, QRCode, QREnds, QRCancelled, Ends, GoTo
    <3>2. UNCHANGED <<current, session, row>> /\ pc[a] \in {"precheck", "answered", "ready", "qr"}
      BY <2>4 DEF Connects, AnswerConnected, PassOn, Answered, ConnectedAlready, Connect,
         ConnectFails, QRCode, QREnds, QRCancelled, Runs, At, mapVars, tableVars
    <3>3. \A b \in Actors \ {a} : /\ held'[b] = held[b] /\ record'[b] = record[b]
                                  /\ b \in overtaken' <=> b \in overtaken
      BY <2>4 DEF Connects, AnswerConnected, PassOn, Answered, ConnectedAlready, Connect,
         ConnectFails, QRCode, QREnds, QRCancelled, Ends, historyVars, TypeOK
    <3>4. s \in Step /\ s \notin {"store", "keep"}
      BY DEF Step
    <3>5. pc[a] \notin {"unmap", "snapshot", "store"}
      BY <3>2
    <3>6. \A b \in Actors \ {a} : held'[b] = held[b] /\ record'[b] = record[b]
      BY <3>3
    <3>7. \A b \in Actors \ {a} : b \in overtaken' <=> b \in overtaken
      BY <3>3
    <3> QED
      BY <3>1, <3>2, <3>4, <3>5, <3>6, <3>7, Quiet
  <2>5. ASSUME NEW a \in Actors, Forgets(a) PROVE RowInv'
    <3>1. CASE Logout(a)
      BY <3>1, Quiet DEF Logout, Runs, At, GoTo, mapVars, tableVars, historyVars, Step, TypeOK
    <3>2. CASE DeleteRow(a)
      <4>1. Mending(a)'
        BY <3>2 DEF DeleteRow, GoTo, Mending, TypeOK
      <4> QED
        BY <3>2, <4>1 DEF DeleteRow, RowInv, Mended, Outdated, At, GoTo, TypeOK
    <3>3. CASE DeleteFails(a)
      BY <3>3, Quiet DEF DeleteFails, Ends, At, GoTo, mapVars, tableVars, Step, TypeOK
    <3>4. CASE Unmap(a)
      BY <3>4 DEF Unmap, RowInv, RecordOf, At, GoTo, tableVars, historyVars, TypeOK
    <3>5. CASE ClearInstance(a)
      BY <3>5, Quiet DEF ClearInstance, Ends, At, GoTo, mapVars, Step, TypeOK
    <3> QED
      BY <2>5, <3>1, <3>2, <3>3, <3>4, <3>5 DEF Forgets
  <2>6. ASSUME NEW a \in Actors, Works(a) PROVE RowInv'
    <3>1. PICK s \in {"idle", "mutate", "forward", "diagnose"} : pc' = [pc EXCEPT ![a] = s]
      BY <2>6 DEF Works, Disconnect, RestartInstance, PairPhone, Operate, Forwarded, EventFound,
         Ends, GoTo
    <3>2. UNCHANGED <<current, session, row>> /\ pc[a] \in {"ready", "forward"}
      BY <2>6 DEF Works, Disconnect, RestartInstance, PairPhone, Operate, Forwarded, EventFound,
         Runs, At, mapVars, tableVars
    <3>3. \A b \in Actors \ {a} : /\ held'[b] = held[b] /\ record'[b] = record[b]
                                  /\ b \in overtaken' <=> b \in overtaken
      BY <2>6 DEF Works, Disconnect, RestartInstance, PairPhone, Operate, Forwarded, EventFound,
         Ends, historyVars, TypeOK
    <3>4. s \in Step /\ s \notin {"store", "keep"}
      BY DEF Step
    <3>5. pc[a] \notin {"unmap", "snapshot", "store"}
      BY <3>2
    <3>6. \A b \in Actors \ {a} : held'[b] = held[b] /\ record'[b] = record[b]
      BY <3>3
    <3>7. \A b \in Actors \ {a} : b \in overtaken' <=> b \in overtaken
      BY <3>3
    <3> QED
      BY <3>1, <3>2, <3>4, <3>5, <3>6, <3>7, Quiet
  <2>7. ASSUME NEW a \in Actors, Persists(a) PROVE RowInv'
    <3>1. CASE SetState(a)
      <4>1. CASE held[a] = current
        <5>1. Mending(a)'
          BY <3>1, <4>1 DEF SetState, GoTo, Mending, mapVars, TypeOK
        <5> QED
          BY <3>1, <5>1 DEF SetState, RowInv, RecordOf, Mended, At, GoTo, tableVars, historyVars, TypeOK
      <4>2. CASE held[a] # current
        <5>1. current # None => session'[current] = session[current]
          BY <3>1, <4>2 DEF SetState, TypeOK
        <5>2. \A b \in Actors : current # None /\ Mending(b) => Mending(b)'
          BY <3>1, <4>2, <5>1 DEF SetState, Mending, At, GoTo, mapVars, historyVars, TypeOK
        <5>3. current # None /\ Mended => Mended'
          BY <5>2 DEF Mended
        <5> QED
          BY <3>1, <5>1, <5>3 DEF SetState, RowInv, RecordOf, At, GoTo, mapVars, tableVars, historyVars, TypeOK
      <4> QED
        BY <4>1, <4>2
    <3>2. CASE Snapshot(a) \/ Diagnose(a)
      <4>1. /\ UNCHANGED <<current, session, row, held, overtaken>>
            /\ pc' = [pc EXCEPT ![a] = "store"]
            /\ record' = [record EXCEPT ![a] = session[held[a]]]
            /\ pc[a] \in {"snapshot", "diagnose"}
        BY <3>2 DEF Snapshot, Diagnose, Reads, At, GoTo, mapVars, tableVars, historyVars
      <4>2. a \notin overtaken
        BY <4>1 DEF Control
      <4>3. \A b \in Actors : Mending(b) => Mending(b)'
        BY <4>1, <4>2 DEF Mending, TypeOK
      <4>4. Mended => Mended'
        BY <4>3 DEF Mended
      <4> QED
        BY <4>1, <4>4 DEF RowInv, RecordOf, TypeOK
    <3>3. CASE Store(a)
      <4>1. Upsert(a)
        BY <3>3 DEF Store
      <4>2. a \notin overtaken /\ current \in {None, held[a]}
        BY <4>1 DEF Upsert
      <4> QED
        BY <3>3, <4>1, <4>2, RowStored DEF Store, Reads, At, GoTo, mapVars
    <3>4. CASE StoreInstance(a)
      <4>1. PICK s \in {"idle", "diagnose"} : pc' = [pc EXCEPT ![a] = s]
        BY <3>4 DEF StoreInstance, Ends, GoTo
      <4>2. UNCHANGED <<current, session, row>> /\ pc[a] = "instance"
        BY <3>4 DEF StoreInstance, At, mapVars
      <4>3. \A b \in Actors \ {a} : /\ held'[b] = held[b] /\ record'[b] = record[b]
                                    /\ b \in overtaken' <=> b \in overtaken
        BY <3>4 DEF StoreInstance, Ends, TypeOK
      <4>4. s \in Step /\ s \notin {"store", "keep"}
        BY DEF Step
      <4>5. pc[a] \notin {"unmap", "snapshot", "store"}
        BY <4>2
      <4>6. \A b \in Actors \ {a} : held'[b] = held[b] /\ record'[b] = record[b]
        BY <4>3
      <4>7. \A b \in Actors \ {a} : b \in overtaken' <=> b \in overtaken
        BY <4>3
      <4> QED
        BY <4>1, <4>2, <4>4, <4>5, <4>6, <4>7, Quiet
    <3> QED
      BY <2>7, <3>1, <3>2, <3>3, <3>4 DEF Persists
  <2>8. ASSUME NEW a \in Actors, Library(a) PROVE RowInv'
    <3>1. /\ pc' = [pc EXCEPT ![a] = "find"] /\ pc[a] = "idle"
          /\ UNCHANGED <<current, session, row, held, record, overtaken>>
      BY <2>8 DEF Library, LogsIn, Drops, ClosedByWhatsApp, MissesKeepAlive, Raises, Begin, At,
         GoTo, mapVars, tableVars, historyVars
    <3> QED
      BY <3>1, Quiet DEF Step
  <2>9. CASE Restart
    BY <2>9 DEF Restart, RowInv, RecordOf
  <2> QED
    BY <2>1, <2>2, <2>3, <2>4, <2>5, <2>6, <2>7, <2>8, <2>9 DEF Next
<1>3. TypeOK /\ Control /\ (excused \/ RowInv) => RowFollows
  BY DEF RowInv, RowFollows, Mended, Mending, Updating, At
<1> QED
  BY <1>1, <1>2, <1>3, SessionTypes, PTL DEF Spec
=============================================================================
