-------------------------------- MODULE WsHub --------------------------------
(***************************************************************************)
(* The WebSocket hub of internal/transport/ws/hub.go for the clients of    *)
(* one tenant.  Each client has three goroutines, the request that called  *)
(* ServeWS (register, read until the connection breaks, clean up), the     *)
(* event forwarder and the write pump, and two channels: the one the event *)
(* bus fills (EventBus.tla) and `send` from the forwarder to the writer.   *)
(* Publish sends to the former outside the lock of the bus.                *)
(* What the channels carry makes no difference: only their lengths count.  *)
(***************************************************************************)
EXTENDS Naturals

CONSTANTS Clients,   \* connections, each served once
          EventCap,  \* capacity of the channel of the bus: 32 in the code
          SendCap    \* capacity of client.send: 64 in the code

ASSUME HubAssumption ==
    /\ EventCap \in Nat \ {0}
    /\ SendCap \in Nat \ {0}

VARIABLES
    conn,        \* [Clients -> BOOLEAN]: the connection works
    server,      \* [Clients -> ServerPhase]: the goroutine in ServeWS
    forwarder,   \* [Clients -> ForwarderPhase]
    writer,      \* [Clients -> WriterPhase]
    clients,     \* SUBSET Clients: h.clients[tenant]
    events,      \* [Clients -> Nat]: events buffered in evtCh
    subscribed,  \* [Clients -> BOOLEAN]: evtCh is registered and open
    publishing,  \* [Clients -> BOOLEAN]: a running Publish has yet to send to evtCh
    send,        \* [Clients -> Nat]: messages buffered in client.send
    sendOpen,    \* [Clients -> BOOLEAN]
    crashed      \* a goroutine panicked and nothing recovered: the process is dead

eventVars == <<events, subscribed, publishing>>
sendVars == <<send, sendOpen>>
hubVars == <<conn, server, forwarder, writer, clients, eventVars, sendVars, crashed>>

ServerPhase == {"new", "registered", "reading", "leaving", "unsubscribed", "gone"}
ForwarderPhase == {"none", "receiving", "pushing", "ended"}
WriterPhase == {"none", "waiting", "ended"}

HubTypeOK ==
    /\ conn \in [Clients -> BOOLEAN]
    /\ server \in [Clients -> ServerPhase]
    /\ forwarder \in [Clients -> ForwarderPhase]
    /\ writer \in [Clients -> WriterPhase]
    /\ clients \subseteq Clients
    /\ events \in [Clients -> 0 .. EventCap]
    /\ subscribed \in [Clients -> BOOLEAN]
    /\ publishing \in [Clients -> BOOLEAN]
    /\ send \in [Clients -> 0 .. SendCap]
    /\ sendOpen \in [Clients -> BOOLEAN]
    /\ crashed \in BOOLEAN

HubInit ==
    /\ conn = [c \in Clients |-> TRUE]
    /\ server = [c \in Clients |-> "new"]
    /\ forwarder = [c \in Clients |-> "none"]
    /\ writer = [c \in Clients |-> "none"]
    /\ clients = {}
    /\ events = [c \in Clients |-> 0]
    /\ subscribed = [c \in Clients |-> FALSE]
    /\ publishing = [c \in Clients |-> FALSE]
    /\ send = [c \in Clients |-> 0]
    /\ sendOpen = [c \in Clients |-> TRUE]
    /\ crashed = FALSE

Goes(pc, c, from, to) ==
    /\ ~crashed
    /\ pc[c] = from
    /\ pc' = [pc EXCEPT ![c] = to]
-----------------------------------------------------------------------------
(* ServeWS.                                                                *)

Register(c) ==
    /\ Goes(server, c, "new", "registered")
    /\ clients' = clients \cup {c}
    /\ UNCHANGED <<conn, forwarder, writer, eventVars, sendVars, crashed>>

(* Subscribe, then the two `go` statements. *)
StartPumps(c) ==
    /\ Goes(server, c, "registered", "reading")
    /\ subscribed' = [subscribed EXCEPT ![c] = TRUE]
    /\ forwarder' = [forwarder EXCEPT ![c] = "receiving"]
    /\ writer' = [writer EXCEPT ![c] = "waiting"]
    /\ UNCHANGED <<conn, clients, events, publishing, sendVars, crashed>>

(* ReadMessage fails: the peer left, sent no pong in time, or the write    *)
(* pump has closed the connection.  readPump closes it too.                *)
ReadFails(c) ==
    /\ ~conn[c]
    /\ Goes(server, c, "reading", "leaving")
    /\ UNCHANGED <<conn, forwarder, writer, clients, eventVars, sendVars, crashed>>

(* Variant: unsub takes the channel off the list and does not close it. *)
UnsubKeepsOpen(c) ==
    /\ Goes(server, c, "leaving", "unsubscribed")
    /\ UNCHANGED <<conn, forwarder, writer, clients, eventVars, sendVars, crashed>>

(* unsub closes evtCh: the forwarder still receives what it buffers. *)
Unsub(c) ==
    /\ Goes(server, c, "leaving", "unsubscribed")
    /\ subscribed' = [subscribed EXCEPT ![c] = FALSE]
    /\ UNCHANGED <<conn, forwarder, writer, clients, events, publishing, sendVars, crashed>>

(* Variant: unregister closes the channel of a client that stays in the table. *)
UnregisterKeeps(c) ==
    /\ Goes(server, c, "unsubscribed", "gone")
    /\ sendOpen' = [sendOpen EXCEPT ![c] = FALSE]
    /\ UNCHANGED <<conn, forwarder, writer, clients, eventVars, send, crashed>>

(* The client leaves the table and its channel is closed, under the lock. *)
Unregister(c) ==
    /\ Goes(server, c, "unsubscribed", "gone")
    /\ clients' = clients \ {c}
    /\ sendOpen' = [sendOpen EXCEPT ![c] = FALSE]
    /\ UNCHANGED <<conn, forwarder, writer, eventVars, send, crashed>>

ConnBreaks(c) ==
    /\ ~crashed
    /\ conn[c]
    /\ conn' = [conn EXCEPT ![c] = FALSE]
    /\ UNCHANGED <<server, forwarder, writer, clients, eventVars, sendVars, crashed>>
-----------------------------------------------------------------------------
(* Bus.Publish, from any goroutine, as far as it concerns one channel: the *)
(* publications of EventBus.tla that have yet to come to it.               *)

(* The channel is in the list that a Publish goes through. *)
PublishReads(c) ==
    /\ ~crashed
    /\ subscribed[c] /\ ~publishing[c]
    /\ publishing' = [publishing EXCEPT ![c] = TRUE]
    /\ UNCHANGED <<conn, server, forwarder, writer, clients, events, subscribed, sendVars,
                   crashed>>

(* There may be another Publish that comes to the channel later. *)
PublishPasses(c) ==
    /\ ~crashed
    /\ publishing[c]
    /\ \E more \in BOOLEAN : publishing' = [publishing EXCEPT ![c] = more]
    /\ UNCHANGED <<conn, server, forwarder, writer, clients, subscribed, sendVars>>

(* A full channel is skipped. *)
PublishSends(c) ==
    /\ PublishPasses(c)
    /\ subscribed[c]
    /\ events' = [events EXCEPT ![c] = IF @ < EventCap THEN @ + 1 ELSE @]
    /\ UNCHANGED crashed

(* An unsubscribe has shifted another channel to its place. *)
PublishMisses(c) ==
    /\ PublishPasses(c)
    /\ UNCHANGED <<events, crashed>>

(* unsub has closed the channel: the send panics.  middleware.Recover       *)
(* catches it in an HTTP request; elsewhere the process dies.               *)
PublishPanics(c) ==
    /\ publishing[c] /\ ~subscribed[c]
    /\ \/ PublishPasses(c) /\ UNCHANGED <<events, crashed>>
       \/ /\ ~crashed
          /\ crashed' = TRUE
          /\ UNCHANGED <<conn, server, forwarder, writer, clients, eventVars, sendVars>>
-----------------------------------------------------------------------------
(* The forwarder.                                                          *)

(* An event that does not marshal is dropped: `continue`. *)
ForwarderReceives(c) ==
    /\ events[c] > 0
    /\ \E to \in {"pushing", "receiving"} : Goes(forwarder, c, "receiving", to)
    /\ events' = [events EXCEPT ![c] = @ - 1]
    /\ UNCHANGED <<conn, server, writer, clients, subscribed, publishing, sendVars, crashed>>

(* `slow client - drop` when the channel is full. *)
ForwarderPushes(c) ==
    /\ sendOpen[c]
    /\ Goes(forwarder, c, "pushing", "receiving")
    /\ send' = [send EXCEPT ![c] = IF @ < SendCap THEN @ + 1 ELSE @]
    /\ UNCHANGED <<conn, server, writer, clients, eventVars, sendOpen, crashed>>

ForwarderPanics(c) ==
    /\ ~crashed
    /\ forwarder[c] = "pushing"
    /\ ~sendOpen[c]
    /\ crashed' = TRUE
    /\ UNCHANGED <<conn, server, forwarder, writer, clients, eventVars, sendVars>>

ForwarderEnds(c) ==
    /\ events[c] = 0
    /\ ~subscribed[c]
    /\ Goes(forwarder, c, "receiving", "ended")
    /\ UNCHANGED <<conn, server, writer, clients, eventVars, sendVars, crashed>>
-----------------------------------------------------------------------------
(* The write pump.  A write returns within its deadline.                   *)

(* The result of writing a message is ignored. *)
WriterWrites(c) ==
    /\ send[c] > 0
    /\ Goes(writer, c, "waiting", "waiting")
    /\ send' = [send EXCEPT ![c] = @ - 1]
    /\ UNCHANGED <<conn, server, forwarder, clients, eventVars, sendOpen, crashed>>

(* The deferred function closes the connection, which makes readPump end. *)
WriterLeaves(c) ==
    /\ Goes(writer, c, "waiting", "ended")
    /\ conn' = [conn EXCEPT ![c] = FALSE]
    /\ UNCHANGED <<server, forwarder, clients, eventVars, sendVars, crashed>>

WriterSeesClose(c) == send[c] = 0 /\ ~sendOpen[c] /\ WriterLeaves(c)

(* The ticker: a ping that the connection no longer takes. *)
PingFails(c) == ~conn[c] /\ WriterLeaves(c)
-----------------------------------------------------------------------------
(* Broadcast holds the read lock for the whole loop, so that it sees the   *)
(* table between two critical sections of register and unregister.         *)
Broadcast ==
    /\ ~crashed
    /\ IF \A c \in clients : sendOpen[c]
       THEN /\ send' = [c \in Clients |-> IF c \in clients /\ send[c] < SendCap
                                          THEN send[c] + 1 ELSE send[c]]
            /\ crashed' = crashed
       ELSE /\ crashed' = TRUE
            /\ send' = send
    /\ UNCHANGED <<conn, server, forwarder, writer, clients, eventVars, sendOpen>>
-----------------------------------------------------------------------------
ServerStep(c) ==
    Register(c) \/ StartPumps(c) \/ ReadFails(c) \/ Unsub(c) \/ Unregister(c)
FeedStep(c) ==
    PublishReads(c) \/ PublishSends(c) \/ PublishMisses(c) \/ PublishPanics(c)
ForwarderStep(c) ==
    ForwarderReceives(c) \/ ForwarderPushes(c) \/ ForwarderPanics(c) \/ ForwarderEnds(c)
WriterStep(c) == WriterWrites(c) \/ WriterSeesClose(c) \/ PingFails(c)

HubNext ==
    \/ \E c \in Clients :
          \/ ServerStep(c) \/ ForwarderStep(c) \/ WriterStep(c)
          \/ ConnBreaks(c) \/ FeedStep(c)
    \/ Broadcast

HubSpec == HubInit /\ [][HubNext]_hubVars

(* The goroutines run when they can; nothing makes a peer leave.           *)
HubFairSpec ==
    /\ HubSpec
    /\ \A c \in Clients :
          WF_hubVars(ServerStep(c)) /\ WF_hubVars(ForwarderStep(c)) /\ WF_hubVars(WriterStep(c))
-----------------------------------------------------------------------------
(* The cleanup of a client has closed a channel that another goroutine is    *)
(* about to send on: its forwarder on send, or a running Publish on evtCh.   *)
CaughtByCleanup(c) ==
    \/ server[c] = "gone" /\ forwarder[c] = "pushing"
    \/ server[c] \in {"unsubscribed", "gone"} /\ publishing[c]

(* What the position of the goroutine in ServeWS says of the table and the  *)
(* two channels.  (The inductive part of the safety properties below.)      *)
Bookkeeping ==
    /\ \A c \in Clients :
          /\ c \in clients <=> server[c] \in {"registered", "reading", "leaving",
                                             "unsubscribed"}
          /\ subscribed[c] <=> server[c] \in {"reading", "leaving"}
          /\ sendOpen[c] <=> server[c] # "gone"
          /\ publishing[c] => server[c] \in {"reading", "leaving", "unsubscribed", "gone"}
    /\ crashed => \E c \in Clients : CaughtByCleanup(c)

(* Whoever finds a client in the hub's table may send to it (Broadcast),    *)
(* and a client that the bus still feeds is in the table: the two           *)
(* registrations and the close are undone in the opposite order.            *)
TableSendable ==
    \A c \in Clients :
       /\ c \in clients => sendOpen[c]
       /\ subscribed[c] => c \in clients

(* The process is only ever brought down by the cleanup of a client that    *)
(* overtakes something still on its way to that client, an event its         *)
(* forwarder holds or a Publish that has its channel in the list: ServeWS    *)
(* waits for neither.  No client that stays, no write pump and no Broadcast  *)
(* can do it, whatever order the goroutines run in.                          *)
CrashOnlyByCleanup == crashed => \E c \in Clients : CaughtByCleanup(c)

(* A connection that broke, for whatever reason, leaves nothing behind: its *)
(* three goroutines end and the table forgets it, unless the process dies.  *)
(* In particular none of them waits for ever on a channel of the others.    *)
NothingLeaks ==
    \A c \in Clients :
       ~conn[c] /\ server[c] # "new" ~>
          \/ crashed
          \/ /\ c \notin clients
             /\ server[c] = "gone" /\ forwarder[c] = "ended" /\ writer[c] = "ended"
=============================================================================
