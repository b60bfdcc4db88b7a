------------------------------ MODULE WaSession ------------------------------
(***************************************************************************)
(* The WhatsApp session of one instance: internal/whatsapp/manager.go      *)
(* (Connect, Disconnect, Logout, PairPhone, RestartInstance, ensureSession, *)
(* the connection events, setSessionState, setSessionDiagnostic and every  *)
(* operation that only needs a connected client), Connect of               *)
(* internal/usecase/whatsapp.go, internal/repository/session.go and        *)
(* UpdateStatus of internal/repository/instance.go.                        *)
(*                                                                         *)
(* Requests and event handlers are goroutines that meet in the map of      *)
(* sessions, whose lock covers the look-up, the insertion and the change of *)
(* the fields, but not the database calls between them.  The whatsmeow     *)
(* library (sockets, pairing, its events) is external.                     *)
(***************************************************************************)
EXTENDS FiniteSets

CONSTANTS Actors,   \* goroutines: requests and event handlers
          Clients,  \* session objects, each with its whatsmeow client
          None

Status == {"disconnected", "connecting", "connected"}

ASSUME SessionAssumption == None \notin Clients \cup Status

(* Of a session its status is kept; the phone, the device, the QR code and   *)
(* the last event and error are stored and read together with it.          *)
Fresh == "disconnected"

(* What handleEvent tells apart: Connected; Disconnected; ended is          *)
(* LoggedOut, ConnectFailure and StreamReplaced, which note a diagnostic    *)
(* after the state; keepalive is KeepAliveTimeout, which notes one only.    *)
Events == {"connected", "disconnected", "ended", "keepalive"}
Requests == {"connect", "disconnect", "logout", "restart", "pair", "operate"}

Step == {"idle", "precheck", "find", "build", "keep", "ready", "qr", "forward",
         "mutate", "snapshot", "diagnose", "store", "instance",
         "delete", "unmap", "clear", "answered"}

VARIABLES
    current,  \* Clients or None: m.sessions[instanceID]
    gone,     \* SUBSET Clients: sessions that a logout took off the map
    session,  \* [Clients -> Status]: the status of the session objects
    online,   \* SUBSET Clients: those with a connection (client.IsConnected),
              \*   logged in or not
    row,      \* Status or None: the session's row
    instance, \* Status: instances.status
    pc,       \* [Actors -> Step]
    op,       \* [Actors -> Events or Requests]: what it has still to do
    held,     \* [Actors -> Clients or None]: its variable sess
    record,   \* [Actors -> Status]: what it has read and not yet stored
    overtaken,\* history, SUBSET Actors: what it has read was out of date when
              \*   another actor changed the row
    excused   \* history, BOOLEAN: what an overtaken actor had read was used, what
              \*   belongs to a session that is gone was stored, or a store failed

mapVars == <<current, gone>>
tableVars == <<row, instance>>
actorVars == <<pc, op, held, record>>
historyVars == <<overtaken, excused>>
vars == <<mapVars, session, online, tableVars, actorVars, historyVars>>

At(a, s) == pc[a] = s
GoTo(a, s) == pc' = [pc EXCEPT ![a] = s]
Runs(a, o) == At(a, "ready") /\ op[a] = o
IsConnected(c) == c \in online

Init ==
    /\ current = None
    /\ gone = {}
    /\ session = [c \in Clients |-> Fresh]
    /\ online = {}
    /\ row = None
    /\ instance = "disconnected"
    /\ pc = [a \in Actors |-> "idle"]
    /\ op = [a \in Actors |-> "operate"]
    /\ held = [a \in Actors |-> None]
    /\ record = [a \in Actors |-> Fresh]
    /\ overtaken = {}
    /\ excused = FALSE
-----------------------------------------------------------------------------
(* The actor is done: its variables go out of scope. *)
Ends(a) ==
    /\ GoTo(a, "idle")
    /\ op' = [op EXCEPT ![a] = "operate"]
    /\ held' = [held EXCEPT ![a] = None]
    /\ record' = [record EXCEPT ![a] = Fresh]
    /\ overtaken' = overtaken \ {a}

Begin(a, o, s) ==
    /\ At(a, "idle")
    /\ GoTo(a, s)
    /\ op' = [op EXCEPT ![a] = o]
    /\ UNCHANGED <<mapVars, session, tableVars, held, record, historyVars>>

(* POST /whatsapp/connect; the others are forwarded to the manager at once. *)
RequestConnect(a) == Begin(a, "connect", "precheck") /\ UNCHANGED online
Request(a) ==
    \E o \in {"disconnect", "logout", "restart", "pair"} :
        Begin(a, o, "find") /\ UNCHANGED online

(* Any of the operations that find a client, ask IsConnected and then call   *)
(* the library: SendMessage and the other sends, groups, contacts, profile,  *)
(* privacy and chats.                                                      *)
RequestOperation(a) == Begin(a, "operate", "find") /\ UNCHANGED online

(* What the row says: an instance without one is disconnected. *)
RecordOf(r) == IF r = None THEN Fresh ELSE r

(* GetSession: the session in the map, or else the row. *)
KnownStatus ==
    IF current # None THEN session[current] ELSE RecordOf(row)

(* The use case answers an instance that is said to be connected itself. *)
AnswerConnected(a) ==
    /\ At(a, "precheck")
    /\ KnownStatus = "connected"
    /\ GoTo(a, "answered")
    /\ UNCHANGED <<mapVars, session, online, tableVars, op, held, record,
                   historyVars>>

PassOn(a) ==
    /\ At(a, "precheck")
    /\ KnownStatus # "connected"
    /\ GoTo(a, "find")
    /\ UNCHANGED <<mapVars, session, online, tableVars, op, held, record,
                   historyVars>>

Answered(a) ==
    /\ At(a, "answered")
    /\ Ends(a)
    /\ UNCHANGED <<mapVars, session, online, tableVars, excused>>
-----------------------------------------------------------------------------
(* ensureSession.                                                          *)

(* The look-up under the read lock. *)
Find(a) ==
    /\ At(a, "find")
    /\ IF current # None
       THEN GoTo(a, "ready") /\ held' = [held EXCEPT ![a] = current]
       ELSE GoTo(a, "build") /\ held' = held
    /\ UNCHANGED <<mapVars, session, online, tableVars, op, record,
                   historyVars>>

(* A call of the database or of the device store fails. *)
EnsureFails(a) ==
    /\ At(a, "build")
    /\ Ends(a)
    /\ UNCHANGED <<mapVars, session, online, tableVars, excused>>

Build(a) ==
    /\ At(a, "build")
    /\ GoTo(a, "keep")
    /\ record' = [record EXCEPT ![a] = RecordOf(row)]
    /\ UNCHANGED <<mapVars, session, online, tableVars, op, held, historyVars>>

(* The session is inserted, with what the row said. *)
Insert(a, c) ==
    /\ c \notin gone \cup {current}
    /\ current' = c
    /\ held' = [held EXCEPT ![a] = c]
    /\ session' = [session EXCEPT ![c] = record[a]]
    /\ excused' = (excused \/ a \in overtaken)

(* Variant: the map is not looked at again under the write lock. *)
KeepBlindly(a) ==
    /\ At(a, "keep")
    /\ \E c \in Clients : Insert(a, c)
    /\ GoTo(a, "ready")
    /\ record' = [record EXCEPT ![a] = Fresh]
    /\ overtaken' = overtaken \ {a}
    /\ UNCHANGED <<gone, online, tableVars, op>>

(* Under the write lock: a session that came first is kept, and the new one *)
(* is dropped before its client was used.                                  *)
Keep(a) ==
    /\ At(a, "keep")
    /\ \/ /\ current = None
          /\ \E c \in Clients : Insert(a, c)
       \/ /\ current # None
          /\ held' = [held EXCEPT ![a] = current]
          /\ UNCHANGED <<current, session, excused>>
    /\ GoTo(a, "ready")
    /\ record' = [record EXCEPT ![a] = Fresh]
    /\ overtaken' = overtaken \ {a}
    /\ UNCHANGED <<gone, online, tableVars, op>>
-----------------------------------------------------------------------------
(* setSessionState and setSessionDiagnostic.                               *)

Target(o) ==
    IF o = "connect" THEN "connecting"
    ELSE IF o = "connected" THEN "connected" ELSE "disconnected"

(* The critical section of setSessionState. *)
SetState(a) ==
    /\ At(a, "mutate")
    /\ GoTo(a, "snapshot")
    /\ session' = [session EXCEPT ![held[a]] = Target(op[a])]
    /\ op' = [op EXCEPT ![a] = IF @ = "ended" THEN "ended" ELSE "keepalive"]
    /\ UNCHANGED <<mapVars, online, tableVars, held, record, historyVars>>

Reads(a) == record' = [record EXCEPT ![a] = session[held[a]]]

(* The record is built after the lock is released. *)
Snapshot(a) ==
    /\ At(a, "snapshot")
    /\ GoTo(a, "store")
    /\ Reads(a)
    /\ UNCHANGED <<mapVars, session, online, tableVars, op, held, historyVars>>

(* setSessionDiagnostic changes the status of nothing, and builds its record *)
(* under the lock.                                                         *)
Diagnose(a) ==
    /\ At(a, "diagnose")
    /\ GoTo(a, "store")
    /\ op' = [op EXCEPT ![a] = "keepalive"]
    /\ Reads(a)
    /\ UNCHANGED <<mapVars, session, online, tableVars, held, historyVars>>

(* The actors whose reading is out of date once the row is r. *)
Outdated(r) ==
    {b \in Actors :
        \/ At(b, "store") /\ record[b] # session[held[b]]
        \/ At(b, "keep") /\ record[b] # RecordOf(r)}

(* sessionRepo.Upsert: the whole row is replaced. *)
Upsert(a) ==
    /\ row' = record[a]
    /\ overtaken' = (overtaken \cup Outdated(record[a])) \ {a}
    /\ excused' = (excused \/ a \in overtaken \/ current \notin {None, held[a]})

(* An error of Upsert is only logged.  The arguments of the statement that  *)
(* follows are read from the session now.                                  *)
Store(a) ==
    /\ At(a, "store")
    /\ \/ Upsert(a)
       \/ /\ excused' = TRUE
          /\ overtaken' = overtaken \ {a}
          /\ UNCHANGED row
    /\ GoTo(a, "instance")
    /\ Reads(a)
    /\ UNCHANGED <<mapVars, session, online, instance, op, held>>

(* instanceRepo.UpdateStatus, whose error is dropped.  Three events have a  *)
(* diagnostic to note after their state.                                   *)
StoreInstance(a) ==
    /\ At(a, "instance")
    /\ instance' \in {instance, record[a]}
    /\ IF op[a] = "ended"
       THEN GoTo(a, "diagnose") /\ record' = [record EXCEPT ![a] = Fresh]
                                /\ UNCHANGED <<op, held, overtaken>>
       ELSE Ends(a)
    /\ UNCHANGED <<mapVars, session, online, row, excused>>
-----------------------------------------------------------------------------
(* Connect, once the session is found.                                     *)

(* A connection is there already: the answer has no QR code. *)
ConnectedAlready(a) ==
    /\ Runs(a, "connect")
    /\ IsConnected(held[a])
    /\ Ends(a)
    /\ UNCHANGED <<mapVars, session, online, tableVars, excused>>

(* A client that is paired connects; any other waits for its QR code. *)
Connect(a) ==
    /\ Runs(a, "connect")
    /\ ~IsConnected(held[a])
    /\ online' = online \cup {held[a]}
    /\ GoTo(a, "mutate") \/ GoTo(a, "qr")
    /\ UNCHANGED <<mapVars, session, tableVars, op, held, record, historyVars>>

(* reconnect_error, qr_channel_error, connect_error; another call may have  *)
(* connected the client since IsConnected was asked.                       *)
ConnectFails(a) ==
    /\ Runs(a, "connect")
    /\ GoTo(a, "diagnose")
    /\ UNCHANGED <<mapVars, session, online, tableVars, op, held, record,
                   historyVars>>

(* The code has come. *)
QRCode(a) ==
    /\ At(a, "qr")
    /\ GoTo(a, "mutate")
    /\ UNCHANGED <<mapVars, session, online, tableVars, op, held, record,
                   historyVars>>

(* qr_timeout, qr_error: the library has closed the connection. *)
QREnds(a) ==
    /\ At(a, "qr")
    /\ online' = online \ {held[a]}
    /\ GoTo(a, "diagnose")
    /\ UNCHANGED <<mapVars, session, tableVars, op, held, record,
                   historyVars>>

(* The request is cancelled, or another call has cancelled the wait. *)
QRCancelled(a) ==
    /\ At(a, "qr")
    /\ Ends(a)
    /\ UNCHANGED <<mapVars, session, online, tableVars, excused>>
-----------------------------------------------------------------------------
Disconnect(a) ==
    /\ Runs(a, "disconnect")
    /\ online' = online \ {held[a]}
    /\ GoTo(a, "mutate")
    /\ UNCHANGED <<mapVars, session, tableVars, op, held, record, historyVars>>

(* WhatsApp removes the device, or, when that fails, the device store does. *)
Logout(a) ==
    /\ Runs(a, "logout")
    /\ online' = online \ {held[a]}
    /\ GoTo(a, "delete")
    /\ UNCHANGED <<mapVars, session, tableVars, op, held, record, historyVars>>

(* forgetSession: the row, *)
DeleteRow(a) ==
    /\ At(a, "delete")
    /\ row' = None
    /\ overtaken' = overtaken \cup Outdated(None)
    /\ GoTo(a, "unmap")
    /\ UNCHANGED <<mapVars, session, online, instance, op, held, record, excused>>

DeleteFails(a) ==
    /\ At(a, "delete")
    /\ Ends(a)
    /\ UNCHANGED <<mapVars, session, online, tableVars, excused>>

(* Variant: the map entry of the session stays. *)
UnmapNot(a) ==
    /\ At(a, "unmap")
    /\ GoTo(a, "clear")
    /\ UNCHANGED <<mapVars, session, online, tableVars, op, held, record,
                   historyVars>>

(* the map entry, whichever session it holds by now,                       *)
Unmap(a) ==
    /\ At(a, "unmap")
    /\ current' = None
    /\ gone' = gone \cup ({current} \ {None})
    /\ GoTo(a, "clear")
    /\ UNCHANGED <<session, online, tableVars, op, held, record, historyVars>>

(* and the status of the instance. *)
ClearInstance(a) ==
    /\ At(a, "clear")
    /\ instance' \in {instance, "disconnected"}
    /\ Ends(a)
    /\ UNCHANGED <<mapVars, session, online, row, excused>>

(* RestartInstance and PairPhone store nothing: the events do. *)
RestartInstance(a) ==
    /\ Runs(a, "restart")
    /\ online' \in {online \cup {held[a]}, online \ {held[a]}}
    /\ Ends(a)
    /\ UNCHANGED <<mapVars, session, tableVars, excused>>

PairPhone(a) ==
    /\ Runs(a, "pair")
    /\ online' \in {online \cup {held[a]}, online}
    /\ Ends(a)
    /\ UNCHANGED <<mapVars, session, tableVars, excused>>

(* Without a connection an operation is refused, but for GetProfile, which   *)
(* answers with what the session knows; else it goes to the library.        *)
Operate(a) ==
    /\ Runs(a, "operate")
    /\ IF IsConnected(held[a])
       THEN GoTo(a, "forward") /\ UNCHANGED <<op, held, record, overtaken>>
       ELSE Ends(a)
    /\ UNCHANGED <<mapVars, session, online, tableVars, excused>>

(* The library answers, with a result or with an error.  UpdateGroupInfo,    *)
(* UpdatePrivacySettings and others then make another call, if there was no  *)
(* error: a step that changes nothing here.                                *)
Forwarded(a) ==
    /\ At(a, "forward")
    /\ Ends(a)
    /\ UNCHANGED <<mapVars, session, online, tableVars, excused>>

(* handleEvent goes on from the session it found. *)
EventFound(a) ==
    /\ At(a, "ready")
    /\ op[a] \in Events
    /\ GoTo(a, IF op[a] = "keepalive" THEN "diagnose" ELSE "mutate")
    /\ UNCHANGED <<mapVars, session, online, tableVars, op, held, record,
                   historyVars>>
-----------------------------------------------------------------------------
(* The library.  It calls handleEvent in goroutines of its own, so that     *)
(* the events of a client may be handled together and in any order.        *)

Raises(a, e) ==
    /\ Begin(a, e, "find")
    /\ UNCHANGED <<mapVars, session, tableVars, held, record, historyVars>>

(* A client logs in, with its device or by being paired. *)
LogsIn(a) == Raises(a, "connected") /\ online # {} /\ UNCHANGED online

(* The connection is lost, and the client tries to make another one. *)
Drops(a) ==
    Raises(a, "disconnected") /\ \E c \in online : online' \in {online, online \ {c}}

(* WhatsApp ends the connection, or has removed the device. *)
ClosedByWhatsApp(a) ==
    Raises(a, "ended") /\ \E c \in online : online' = online \ {c}

MissesKeepAlive(a) == Raises(a, "keepalive") /\ online # {} /\ UNCHANGED online

(* The process ends and starts again: what is in memory is gone. *)
Restart ==
    /\ current' = None
    /\ gone' = {}
    /\ session' = [c \in Clients |-> Fresh]
    /\ online' = {}
    /\ pc' = [a \in Actors |-> "idle"]
    /\ op' = [a \in Actors |-> "operate"]
    /\ held' = [a \in Actors |-> None]
    /\ record' = [a \in Actors |-> Fresh]
    /\ overtaken' = {}
    /\ UNCHANGED <<tableVars, excused>>
-----------------------------------------------------------------------------
Arrives(a) ==
    RequestConnect(a) \/ Request(a) \/ RequestOperation(a)

Ensures(a) == Find(a) \/ EnsureFails(a) \/ Build(a) \/ Keep(a)

Connects(a) ==
    \/ AnswerConnected(a) \/ PassOn(a) \/ Answered(a)
    \/ ConnectedAlready(a) \/ Connect(a) \/ ConnectFails(a)
    \/ QRCode(a) \/ QREnds(a) \/ QRCancelled(a)

Forgets(a) ==
    Logout(a) \/ DeleteRow(a) \/ DeleteFails(a) \/ Unmap(a) \/ ClearInstance(a)

Works(a) ==
    \/ Disconnect(a) \/ RestartInstance(a) \/ PairPhone(a)
    \/ Operate(a) \/ Forwarded(a) \/ EventFound(a)

Persists(a) ==
    SetState(a) \/ Snapshot(a) \/ Diagnose(a) \/ Store(a) \/ StoreInstance(a)

Library(a) == LogsIn(a) \/ Drops(a) \/ ClosedByWhatsApp(a) \/ MissesKeepAlive(a)

Next ==
    \/ \E a \in Actors : \/ Arrives(a) \/ Ensures(a) \/ Connects(a)
                         \/ Forgets(a) \/ Works(a) \/ Persists(a) \/ Library(a)
    \/ Restart

Spec == Init /\ [][Next]_vars
-----------------------------------------------------------------------------
TypeOK ==
    /\ current \in Clients \cup {None}
    /\ gone \subseteq Clients
    /\ session \in [Clients -> Status]
    /\ online \subseteq Clients
    /\ row \in Status \cup {None}
    /\ instance \in Status
    /\ pc \in [Actors -> Step]
    /\ op \in [Actors -> Events \cup Requests]
    /\ held \in [Actors -> Clients \cup {None}]
    /\ record \in [Actors -> Status]
    /\ overtaken \subseteq Actors
    /\ excused \in BOOLEAN

(* An instance has one client: a session that a goroutine works on, or whose *)
(* client has a connection, is the one in the map, unless a logout took it   *)
(* off.  Two goroutines that build a session at the same time end up with    *)
(* the same one, and the other is never connected (ensureSession).           *)
OneClient ==
    /\ \A a \in Actors : held[a] \in gone \cup {current, None}
    /\ \A c \in Clients : IsConnected(c) => c \in gone \cup {current}

(* Some actor is about to bring the row up to date, or to drop the session. *)
Updating ==
    \E a \in Actors :
        \/ At(a, "unmap")
        \/ held[a] = current /\ At(a, "snapshot")
        \/ held[a] = current /\ At(a, "store") /\ record[a] = session[current]

(* The stored session follows the one in memory: when no store is under way *)
(* the row has its status, whatever calls, events, logouts and restarts     *)
(* came before, unless two stores were done in the opposite    *)
(* order of their readings, one was for a session logged out meanwhile, or  *)
(* one failed (setSessionState, setSessionDiagnostic, forgetSession).       *)
RowFollows ==
    current # None /\ ~excused /\ ~Updating => RecordOf(row) = session[current]
=============================================================================
