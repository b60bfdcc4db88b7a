# SlakeZAPI: TLA+ specifications

SlakeZAPI (`src/`) is a multi-tenant HTTP service, written in Go, through which
tenants send and receive WhatsApp messages. This directory holds its formal
specifications, the TLC configurations that check them on small instances, and
the proofs of the main safety properties.

* `PROJECT.json` lists the components, the runs, the source lines behind every
  definition, the hazards, the findings and the theorems.
* To check a module: `tlc -config PoolJobs.cfg Pool.tla`. To check a proof:
  `tlapm PoolProofs.tla`.

## 1. The system

One process (`cmd/api/main.go`, `internal/app/app.go`) serves HTTP and
WebSocket requests over a PostgreSQL database and one WhatsApp client per
instance. Its own concurrent logic is in the following parts.

| Component | State | Operations | Talks to |
|---|---|---|---|
| Worker pool (`queue/pool.go`) | bounded channel of jobs, workers, retry timers, dead-letter map and list, history | Enqueue, process, RequeueDeadLetter, Stop | its job handlers |
| Application lifecycle (`app/app.go`) | running, shutting down, ended | Run, the campaign ticker | starts and stops the others |
| Webhook delivery (`webhook/dispatcher.go`) | rows of `webhook_deliveries` | dispatch, Deliver, ReplayDelivery | event bus, pool, customers' endpoints |
| Webhook registration (`usecase/webhook.go`) | rows of `webhooks` | Register, Delete, ReplayDelivery | dispatcher |
| Event bus (`events/bus.go`) | subscriber lists and channels | Publish, Subscribe, SubscribeAll, unsubscribe | everyone publishes; dispatcher and hub subscribe |
| WebSocket hub (`transport/ws/hub.go`) | table of clients, two channels per client | ServeWS, its pumps, Broadcast | event bus, browsers |
| Campaigns (`usecase/campaign.go`) | rows of campaigns and recipients | Create, Run, RunDue | message sending, scheduler |
| WhatsApp sessions (`whatsapp/manager.go`) | map of sessions, rows of sessions | Connect, Disconnect, Logout, RestartInstance, connection events | WhatsApp, event bus |
| Inbound messages and receipts (`whatsapp/manager.go`) | rows of messages, usage | message and receipt events | billing, event bus |
| Message sending (`usecase/message.go`) | rows of messages and conversations | one operation per kind of message | limits, sessions, event bus |
| Limits and usage (`billing/service.go`) | monthly counters | CheckLimit, TrackSent, TrackReceived | subscriptions |
| Subscriptions (`usecase/billing.go`) | rows of subscriptions | checkout, ChangePlan, Cancel, HandleWebhook | payment provider |
| User sessions (`usecase/user_auth.go`) | rows of user sessions | Login, Validate, Refresh, Logout | browsers |
| Accounts (`usecase/user_auth.go`, `auth.go`, `instance.go`) | rows of users, tenants, members, instances | SignUp, BootstrapTenant, member roles, instances | user sessions, subscriptions |
| API keys (`usecase/auth.go`) | rows of keys | create, revoke, validate | every request |
| Rate limiter (`middleware/http.go`) | token buckets | allow, eviction | every request |

What is hard in this code is concurrency without a common owner: goroutines
that are never joined (dispatcher, retry timers, event forwarders), channels
that are closed by somebody other than their sender, decisions taken on rows
read earlier, sequences of writes without a transaction, and errors that are
ignored on purpose. Crash recovery is hard in another way: the queue, the
timers and the subscriptions are in memory only. The complete list, each with
its line, is `hazards` in `PROJECT.json`.

What makes each part correct, in a sentence:

* pool: every accepted job is in exactly one place until it is done, dropped or
  dead-lettered, after a bounded number of attempts;
* deliveries: one acknowledgement per delivery, and a row that tells its fate;
* bus: the lists hold the open channels, and whoever is subscribed to all tenants
  gets each event once or had no room;
* hub: nobody sends on a closed channel, but for what the cleanup of a client
  overtakes; a broken connection leaves nothing behind;
* campaigns: a scheduled campaign is run once by the scheduler, each run sends
  to each recipient at most once, and a final status means all were tried;
* WhatsApp sessions: one client per instance, and the stored state follows it;
* inbound: a message is counted and announced once, the unread count is exact,
  and neither a read status nor a decided conversation is taken back;
* sending: each message sent is counted once and stored once, a month exceeds the
  plan's limit by no more than what was not counted yet or lost, and the answer
  says what happened;
* subscriptions: the stored row ends as the provider's subscription is;
* user sessions: a session goes for a reason, and never comes back;
* accounts: a tenant keeps an owner and has one default instance.

## 2. Modules and how they correspond to the code

A component's module holds its state, its actions and its properties. The `MC`
modules extend one with the symmetry set of its run, and `MCEventBus` with a view
that leaves out what no action and no property reads any more (the rest of an old
array, the buffer and the history of a closed channel); the other modules are
checked directly, with the constants of their `.cfg` files. Each `Proofs` module
extends one or two components' modules with the lemmas and theorems about them:
`PoolProofs` the pool and the deliveries that use it, `EventProofs` the bus and
the hub, `AccountsProofs` accounts and user sessions. `TypeOK` is defined next
to the variables, or, for `WebhookDelivery` and `Campaign`, in the proofs
(`DeliveryTypes`, `TypeOK` of `CampaignProofs`). In `WsHub` and `UserSessions`, which
share a proof module with another one, the names of the specification carry a
prefix: `HubInit`, `HubNext`, `HubSpec`, `SessionInit`, `SessionNext`, `SessionSpec`.

Modules compose in one place: `WebhookDelivery` extends `Pool`. The others meet at
narrow contracts, each stated in the module that relies on it: the hub sees the
bus as somebody who sends to registered clients, the sends see the session as
a call that is answered or not, `Inbound` sees a send as the storing of its row,
`Accounts` leaves the subscription's and the session's row to their modules.

### Pool, JobLifecycle

`Pool.tla` is `queue/pool.go` together with the shutdown of `app.Run`, because
the interesting interleavings are those of the two.

| Code | Specification |
|---|---|
| `p.jobs`, `p.deadLetter` | `jobs`, a sequence; `deadLetterLen`, a length (only logged) |
| `working` in `process` | `wjob[w]`, with the worker's position `wphase[w]` |
| a pending `time.AfterFunc` | an element of `timers` |
| `p.deadStore`, `p.deadRecent` | `deadStore`, a set of jobs; `deadRecent`, a sequence of ids |
| the locals of `RequeueDeadLetter` | `rphase[r]`, `rjob[r]` |
| `p.recent` | `latest`, the newest status of each job |
| how far `App.Run` is | `phase` |

A critical section or a channel operation is one action. `Enqueue` writes
`queued` and then sends; nobody else touches the job between the two, so they
are one step, with three outcomes: accepted, refused (`dropped`), or a panic
because the channel is closed. `RequeueDeadLetter` takes up to four steps,
since workers run between its critical sections. A handler is any function
that returns nil or an error after some time. Handlers that panic, and a
`QUEUE_BUFFER_SIZE` of 0, are outside the model (`PoolAssumption`).

`JobLifecycle.tla` is the abstract specification: the life of one job as a
walk in an automaton, the jobs independent of each other. `Pool` implements it
under the mapping `JobState`, `JobTries`.

### WebhookDelivery

Extends `Pool`: its actions are conjoined with what happens to the delivery
row. `Dispatch` and `Replay` insert the row; `EnqueueDelivery` is the ignored
call of `Enqueue` that follows; `PostAnswered` is the POST and `DeliverSucceeds`
or `DeliverFails` the UPDATE of the row and the return to the pool. The context
of all of these but the replay is cancelled by SIGTERM, so from then on POSTs
and database calls fail, while the workers still drain the queue. `entering`
holds the rows whose job is about to be enqueued.

### EventBus

Publish reads the slice header of a tenant's list under the lock and the
elements later without it, so the backing arrays are part of the state:
`arrays`, and slices as an array and a length. `append` writes in place while
capacity lasts and allocates the double otherwise; unsubscribe shifts elements
in place. The channel a send goes to is read at the moment of the send
(`Target`). One tenant is modelled; tenants share nothing but the lock. `Fits` says
that a header stays within its array and shows only what was written there.

### WsHub

Each client has three goroutines: `server` (in `ServeWS`), `forwarder` and
`writer`, and two channels of which only the lengths matter. The bus is reduced
to what it does to one subscriber: a Publish that has the client's channel in its
list (`PublishReads`, `publishing`) sends to it after the lock is released
(`PublishSends`), finds that an unsubscribe has shifted it away (`PublishMisses`),
or panics because `unsub` has closed it (`PublishPanics`), which kills the process
unless it runs in an HTTP request, whose `middleware.Recover` catches it.
`Broadcast` is in the model although nothing calls it yet: it is exported.

### Campaign

`Run` is modelled statement by statement (`Begin`, `SendSucceeds` or
`SendFails`, `Record`, `EndLoop`, `UpdateCounters`, `Finish`), for every request
in `Callers` and for the scheduler. Resolving the contact, the plan's limit and
the send are one step with a free result. Recipients are taken in any order.
`Abort` is a failing database call or a request whose client left; `Restart` is
the end of the process.

### Sends

The send methods of `usecase/message.go` do the same few steps in three orders;
`Kinds` names the orders and `FirstStep`, `OnceResolved` and `OnceAllowed` give
them. A request is `pc[r]` with its locals:

| Code | Specification |
|---|---|
| `resolveInstanceID`, the lookup of phones, `enrichMediaRequest` | `Resolve` |
| `CheckLimit`: the subscription, then the usage | `ReadSubscription`, `ReadUsage` |
| the call of WhatsApp | `Send`, or `SendUnanswered` when it was taken but the call failed |
| `Create`: the INSERT, then the conversation | `Save` or `SaveFails`, `UpsertConversation` |
| `go TrackSent`, the answer or the next phone of a bulk | `Report` |
| an error before the message is out | `Fails` |
| `usage.sent` of this month | `used` |
| goroutines that have not counted yet | `tracking` |
| `messages`, `conversations.last_message_id` | `row`, `last` |

A message is a number, in the order in which WhatsApp took it. CheckLimit and
Create are two steps each because they are two statements without a
transaction. Months end at any moment (`MonthEnds`), a check may find any
subscription, and a restart forgets requests and goroutines. Histories, which no
action looks at: `accepted`, `unsaved` and `unlisted` of requests and rows;
`thisMonth`, the metered messages that WhatsApp took in this month, and of them
`unlimited`, those a trial let through; `lost`, the messages this month lost to the
counter (a TrackSent that failed, a send whose answer was lost, a restart);
`carried`, those taken before the month and not counted then; and `backlog`, the
most messages that were between their check and the counter (`Unseen`) when a check
of this month looked, or when the month began. `LimitOverrunBounded` is about what
WhatsApp took, not about the counter: it exceeds the limit by no more than
`unlimited + lost + backlog`. The event at the end of a send never waits
(`EventBus`) and is left out.

### WaSession

The session of one instance. An actor is a goroutine: a request or the handler
of one event, with its variable `sess` in `held` and the record it has read and
not stored yet in `record`.

| Code | Specification |
|---|---|
| `m.sessions[instanceID]` | `current` |
| the session objects, each with its whatsmeow client | `Clients`, `session`, `online` |
| the row of the session, `instances.status` | `row`, `instance` |
| `ensureSession` | `Find` under the read lock, `Build`, `Keep` under the write lock |
| `setSessionState` | `SetState` under the lock, `Snapshot`, `Store`, `StoreInstance` |
| `setSessionDiagnostic` | `Diagnose` under the lock, `Store`, `StoreInstance` |
| `Connect` of the use case, then of the manager | `RequestConnect` ... `QRCancelled` |
| `forgetSession` | `DeleteRow`, `Unmap`, `ClearInstance` |
| every operation that asks for a connected client and calls the library | `RequestOperation`, then `Find` ... `Operate`, `Forwarded` |
| what whatsmeow does and tells | `Library`: `LogsIn`, `Drops`, `ClosedByWhatsApp`, `MissesKeepAlive` |

The operations (sends, groups, contacts, profile, privacy, chats) change nothing of
the session, so one request stands for all. GetProfile answers with what it knows
when there is no connection, and some make several calls one after the other: both
leave the state as it is.

The library calls a handler in a goroutine of its own for each event, so two
events of one client may be handled together. `RowFollows` compares row and
session when no store is under way, and `excused` notes what may part them for
good: a reading that another store had made out of date (`overtaken`), a store
for a session that a logout took off (`gone`), a store that failed.

### Inbound

The cases Message and Receipt of `handleEvent`, next to the two others who write
the same conversation: the sends and `UpdateConversation`. Each database call is
a step of an actor. A row of a received message is only its `owner`, because
`INSERT ... ON CONFLICT DO NOTHING` is decided by the WhatsApp id alone, which
two instances in one group share; the row of a sent one is its `status`.

| Code | Specification |
|---|---|
| `GetByWhatsAppID`, then `Create`'s INSERT | `Receive`, `Insert` |
| `upsertConversation` | `Conversation` for a received message, `Bump` for a sent one |
| `TrackReceived`, the event | `Count`, `Publish` |
| a receipt and its loop over messages | `Receipt`, `LookUp`, `UpdateStatus`, `ReceiptDone` |
| `UpdateConversation`: the read, the write of the whole row | `ReadConversation`, `WriteConversation` |

Histories say to which messages and conversations the properties do not apply:
`overlapped` (two handlers looked a message up before either stored it), `cut`
(its handler failed after the row was stored, or a restart ended it), `missed`
(its conversation was not brought up to date), `disordered` (receipts came in
another order than they were raised, or were handled together), `crossed` (two
UpdateConversation overlapped).

### Subscription

One tenant's row against the provider. A subscription of the provider moves by
our calls (`UpdateSubscriptionPlan`, `CancelAtProvider`), by the customer in the
portal, the operator, or by itself (`Drifts`); each move is numbered and told in an
event, which is delivered any number of times, in any order, until it is answered
with success (`acked`).

| Code | Specification |
|---|---|
| what the provider keeps: price, status, metadata, cancelling | `stripe`, of `Subscribed` |
| `webhookEventFromStripeSubscription`: the plan of the price, or else of the metadata | `SubscriptionEvent`, `PlanOf` |
| the case `checkout.session.completed`: the session's plan and payment | `CheckoutEvent` |
| `HandleWebhook`: the tenant of the metadata, or that of the row with the subscription | `Deliver` |
| the read of the current row, and its plan when the event tells none | `ReadCurrent`, `ReadsCurrent`, `Applied` |
| the Upsert, and the answer | `Apply`, `ApplyFails` |
| ChangePlan, CancelSubscription | `ChangePlan`, `CancelSubscription` ... `Store` |

A checkout that is completed (`Completes`) is told in two events, in either order,
that need not agree: the session may be unpaid while the subscription is active.
The price may be one that is no plan's (`Other`), and the metadata may be cleared,
so that neither names a plan or a tenant. A request or an event reads the row, and
stores the whole row later. `RowMirrors` speaks of the state in which every event
has been acknowledged, and compares the row with the provider's subscription
itself, not with an event. `top` is the latest event that was stored; `stale` says
that the row was last stored by an event older than `top`, or by a request that an
event had overtaken (`overtaken`): it ends with the next store in order. One
disagreement is part of the property, because the code has it with everything in
order: an unpaid checkout event that comes last leaves the row pending.

### UserSessions

The rows of dashboard sessions. Access and refresh token are made and replaced
together, so a generation `gen[s]` stands for both, and `made[s]` for those that
have ever been answered: a client may present any of them. A request finds the
row first (`Validate`, `ValidateExpired`, `Refresh`, `RefreshExpired`) and acts on
it by its id later (`Logout`, `Purge`, `Rotate`); the goroutines that extend the
access token are `touches`. Time is `AccessExpires` and `RefreshExpires`. `ended`
notes the sessions that were logged out, and `overtaken` the requests about to purge
a session that a refresh or a Touch has renewed since they found it expired
(`Renews`): `GoesForReason` lets a session go only by its logout, while a token of
it is expired, or by such a request.

### Accounts

Sign-up, bootstrap, instances and members, one statement a step, without a
transaction as in the code: `req[a]` is where a request is, with its locals, and
`Fails` is an error, a refused row or the end of the process at any point, which
leaves what is stored. A user and a tenant are named by the e-mail of the
sign-up. `AddTenantMember` and `UpdateTenantMemberRole` carry the rights the
sender had when they were read. `stale` notes the requests for whose tenant a
role was stored after they began to read, and `raced` the tenants such a request
stored a role of: `OwnerKept` leaves those out, because two owners who demote
each other at the same time leave none.

## 3. Runs

| Run | Bounds | What it shows |
|---|---|---|
| PoolJobs | 2 jobs, 2 workers, queue of 1, 2 tries, 2 requests, list of 1 | no job is duplicated or vanishes; attempts bounded; the operator's lists and the history are right; Stop joins and returns; every job settles; Pool implements JobLifecycle |
| WebhookDeliveries | 1 event, 1 replay, 1 worker, queue of 1, 3 tries | row and pool agree; one acknowledgement at most; delivered is final; each row gets its verdict |
| BusSubscribers | 3 subscribers of a tenant, 2 for all, 2 events, capacities 1 | the lists hold the open channels exactly; a subscriber to all tenants gets each event once |
| HubClients | 2 clients, capacities 2 | the table is safe to send to; only a cleanup can bring the process down; a broken connection leaves nothing behind |
| CampaignRuns | 1 campaign, 2 recipients, 1 request and the scheduler, 2 runs | scheduled once; one send per run; final means tried; results stored; due campaigns run and runs end |
| SendsQuota | 2 requests, limit 1, bulk of 2, 2 messages | each message is counted once; a month exceeds the limit by what was not counted yet or lost, no more; answers are true; rows and conversations agree |
| WaSessions | 2 goroutines, 2 session objects | one client per instance; the row follows the session |
| InboundMessages | 2 goroutines, 2 instances, 2 received ids, 1 sent one, 5 arrivals | counted and announced once; what is stored is announced; unread counts exact; read stays read; a conversation's state changes on request only |
| SubscriptionRow | 2 actors, 2 paid plans, 2 subscriptions, 4 events | the row ends as the provider's subscription is |
| AccountRows | 2 requests, 2 e-mails, 1 tenant that changes once founded, 1 further instance | a tenant keeps an owner and has one default instance |
| UserSessions | 2 requests, 2 sessions, 3 generations | a session goes for a reason, or by the one race of purge and renewal, and never comes back |
| UserSessionsRenewed | the same | violated: see below |

Why these bounds are enough. Two jobs make them compete for a queue of one
slot, so that submissions, retries and requeues are refused, and the second
fills the dead-letter list beyond its (reduced) capacity. Two tries tell the first
attempt from the last; three have one in between. Two workers and two requests
give every pair of concurrent critical sections. Three tenant subscribers make
`append` grow its array twice and leave spare capacity, in which a later
subscription is written, while two publications read; of two subscribers to all
tenants one may leave, and shift the other, while a publication goes through its
copy of their list. Two clients are
needed by Broadcast only, as clients share nothing but the table. A request and
the scheduler are the two runs of a campaign that may overlap, in any phase.
Two requests, one of which may be a bulk whose second phone is checked before
its first is counted, give every overlap of check, send and count that involves
two sends; a limit of one and two messages reach and pass the limit.

In the modules of sessions, messages, subscriptions and accounts the goroutines
meet in rows and maps only, and what can go wrong is that one acts between two
steps of another: two actors give every such pair, and the theorems hold for any
number of them. An actor starts again after it ends, so that the number
of operations is not bounded by the number of actors; `MaxEvents`, `MaxMoves`,
`MaxGen`, `MaxInstances` and `MaxRuns` bound it where a counter would grow.
`Managed` names the tenants whose members and instances change after the
sign-up: one is enough, because two tenants share nothing but the users, and the
other is founded beside it and gives it a second member. Five
arrivals hold a message delivered twice for one instance and once for another
with two requests on its conversation. Four events are a
checkout, told in two, and two moves after it, one of which may overtake the other. Three generations are a
login and two refreshes.

Failures need no run of their own: a database call, a call of WhatsApp or of the
provider may fail in any step, and a history variable (`missed` in
`WebhookDelivery`, `faulted` in `Campaign`, `lost`, `unsaved` and `unlisted`
in `Sends`, those listed above for the other modules) says to which rows,
campaigns or messages it happened; the properties that presume a database that
answers except these, and no others. `Subscription`, `UserSessions` and the
default instance of `Accounts` need no exception for failures.

`CHECK_DEADLOCK FALSE` stands in every configuration because each of these
systems may stop: the process ends, or a finite number of jobs, clients,
events, moves or arrivals is used up. That nothing stops too early is what the
liveness properties are for.

UserSessionsRenewed is expected to fail. It checks one sentence of the
repository's README (`README.md:739`: the app renews the session by itself with
the refresh cookie), which `web/src/lib/api.ts:96` relies on: a session
whose refresh token is good goes only by its Logout. TLC finds a login, an
access token that expires, a request that still carries it, and the deletion of
the row, refresh token included (`user_auth.go:459`-`460`). The refresh that follows
finds nothing. `findings` in `PROJECT.json` quotes the sentence.

Known limits of the code, which the models show and on which no run is spent.

Pool and deliveries:

* a timer or the dispatcher may send on the queue that Stop closed, and the
  process panics (`pool.go:247`, `app.go:156`); Stop does not wait for retry
  timers (`pool.go:60` says "drain");
* a retry that finds the queue full loses its job (`pool.go:247` ignores the
  result of Enqueue; `TimerFireDropped` is that loss), and the row of a delivery
  whose job was dropped goes on announcing an attempt;
* a queued delivery is posted to the webhook as it was at dispatch
  (`dispatcher.go:115`), deleted or changed since or not;
* dead letters beyond the newest 25 are stored but not listed; the back-off
  starts at two seconds, not at one as `pool.go:235` says.

Bus and hub:

* an unsubscribe closes a channel that Publish is about to send on, and Publish
  panics (`bus.go:37`, `SendPanics`); it also shifts the array that Publish
  iterates over, so that a subscriber may be passed over or served twice;
* a client is cleaned up while its forwarder holds an event, and the forwarder
  sends on a closed channel (`hub.go:123`). This and the panic of Publish on the
  channel of a client that leaves (`hub.go:105`) are the only ways in which the hub
  and its feed end the process (`CrashOnlyByCleanup`).

Campaigns and sends:

* a campaign that was running when the process ended stays so;
* a run by hand that overlaps another run of the campaign sends its messages again;
* two sends may pass CheckLimit before the first is counted, and both go out
  (`service.go:61`, `message.go:289`); what TrackSent fails to count, or a restart
  forgets, goes out on top of the limit as well (`LimitOverrunBounded` bounds both);
* a conversation's last message may be an earlier one.

WhatsApp sessions:

* Connect may store "connecting" after the Connected event stored "connected",
  with nothing to store it again;
* a Connected event of a client that was logged out meanwhile builds a new
  session and is handled with that one;
* `sess.qrCancel` is read and written by two calls of Connect without the lock;
* after a restart the row still says "connected" while there is no client, and
  Connect answers from the row (`usecase/whatsapp.go:36`); `ListSessions`, which
  could restore the sessions at the start, is called by nothing.

Inbound messages:

* the WhatsApp id is the row's primary key: of a group message that two
  instances receive the second has no row, though it is counted and announced
  (`repository/message.go:22`; `README.md:648` promises the history);
* two handlers of one redelivered message that overlap count and announce it
  twice; `unread_count` is never reset;
* `UpdateStatus` stores an earlier status over a later one when receipts are
  handled out of order; `UpdateConversation` stores the fields it did not change
  as it read them, and the note whether or not the request names it.

Subscriptions:

* a checkout while a subscription is active opens a second one, and the end of
  the first then overwrites the row of the second;
* an unpaid checkout whose event comes after that of its subscription leaves the row
  pending while the provider's subscription is active (`stripe_gateway.go:202`), until
  the next event;
* an event older than the one stored last is stored all the same, and stays
  until the provider tells of another move;
* an event without the tenant in its metadata is resolved by the row's
  subscription id only; SignUp and BootstrapTenant give any plan that is named as
  a trial.

Accounts and user sessions:

* a sign-up that fails after its first INSERT leaves the e-mail taken: a retry
  is a conflict, and a login is refused for want of a tenant;
* two overlapping changes of roles may leave a tenant without an owner;
  `EnsureDefault` and `DeleteByUser` are called by nothing, so that a change of
  the password ends no session;
* Touch may extend the access token past the expiry of the refresh token;
* of two overlapping refreshes of one token both are answered, and the tokens
  of the first are dead; a refresh that overlaps a logout answers dead tokens;
  a request that found its token expired may delete a session that was renewed
  meanwhile (the last alternative of `GoesForReason`), and the handler of a refresh
  clears the cookie on any error (`handler/user_auth.go:177`; cookies are not
  modelled).

`Variant` operators in the modules are plausible mistakes in the definition
that follows them. They are not used by any specification: `mutants` in
`PROJECT.json` says which property each of them breaks.

### Fairness

Weak fairness is assumed only of goroutines that the Go scheduler runs and
that do not wait for anybody outside: workers (a webhook handler returns
because the HTTP client has a timeout), expired timers, requests in progress,
the main goroutine in Stop, the hub's pumps (a write has a
deadline), the campaign ticker and loop. Nothing is assumed of clients,
operators, endpoints, subscribers or signals. There is no strong fairness.
The runs of the bus, the sends, the sessions, the messages, the subscriptions
and the accounts check safety only: what should happen there in the end depends
on WhatsApp, the provider or the customer, or is an operation that ends with
its request.

## 4. Proofs

The theorems hold for all values of the constants that satisfy the named
assumptions `PoolAssumption`, `DeliveryAssumption`, `BusAssumption`, `HubAssumption`,
`CampaignAssumption`, `SendsAssumption`, `SessionAssumption`, `InboundAssumption`, `SubscriptionAssumption`,
`SessionsAssumption` and `AccountsAssumption`, which TLC evaluates in the runs.
They say that special values are not ordinary ones and that bounds are natural
numbers; `CampaignAssumption`, `SendsAssumption` and `InboundAssumption` ask for a
finite set (of recipients, of requests, of ids) as well, because a counter is
compared with a cardinality. Every proof has one step for each action and cites the lemmas of its module for what several actions do alike.

`PoolProofs.tla`:

* `TypeCorrect`: `TypeOK /\ Control` is inductive. `Control` ties phases to
  held jobs (a worker holds one just while handling, a request from taking to
  the end), says that no request is in flight once the queue may be closed, and
  that workers leave only an empty, closed queue. `TypeOK` alone is not
  inductive: `wjob[w].id` is only a job id while the worker handles one.
* `StopSafe`: follows from `Control`.
* `JobsAccounted`, `NoJobVanishes`: `AtMostOnce` and `NothingVanishes` together.
  `AtMostOnce` is not inductive alone: a submission needs that a new job is
  nowhere, which is one half of `NothingVanishes`. The conjunction (`Placed`)
  is, given `Control`. Each action moves one job from one container to another,
  so the proof has one lemma for each way a container changes (`QueueGrows`,
  `WorkerYields`, `StoreLoses`, ...) and each action cites two or three of them.
* `AttemptsLimited`: `AttemptsBounded` is inductive given `Control`.
* `DeadListFaithful`: the list holds distinct ids of stored jobs; needs `Placed`,
  as a job that is buried or put back must not be on the list yet.
* `HistoryTrue`: `HistoryTruthful` is inductive given `Placed`. Each step concerns
  one job (`OneJob`), whose new entry is true of the place it has come to.
* `LifecycleKept`: the refinement. Every step of Pool is, under the mapping
  `JobState`, `JobTries`, `Alive`, the step of JobLifecycle with the same meaning
  (`Take` is `Start`, `TimerFireDropped` is `GiveUp`, a send on the closed channel is
  `Halt`), or a stutter: what moves a pending job between the channel, a timer and a
  request is not seen outside. `JobTries` reads the attempt from the one copy of a
  job in play, so it needs `Placed`; `GiveUp` needs `AttemptsBounded`.
  What `Placed`, `HistoryTruthful` and the refinement need of an action is said
  once, in a lemma for each (`TakeMoves`, `HandlerBuriesMoves`, ...).

The deliveries, in the same module. `DeliveriesUsePool` shows that every step of
`WebhookDelivery` is a step of `Pool` or leaves the pool alone, so that all of the
above holds of deliveries too. On top of it:

* `AckedOnce`: `AckedAtMostOnce` is not inductive: that a job is posted again after
  the endpoint has acknowledged it is excluded only by where the job is. `Answered`
  says that exactly the completed deliveries, and those whose worker has the answer
  in its hands, were acknowledged, once; with `Placed` it is inductive.
* `RowsAgreeWithPool`, from `RowsAgree`: what each row says bounds where its job may
  be; "delivered" is true even of rows that missed an UPDATE. Each step disturbs one
  job (`OneDisturbed`), the others keep row and place.
* `DeliveredRowFinal`, an action property: who writes a row has its job in hand, and a
  delivered job is in nobody's.

`EventProofs.tla`, the bus:

* `BusTypes`, `RegistryKept`: types and `Registry` are inductive together. The types
  hold `Fits` of the tenant's slice and of every header a running Publish has copied,
  which asks that an append in place, an append that grows and the shift of an
  unsubscribe leave channels where older headers see channels (`AppendsInPlace`,
  `AppendsGrowing`, `ShiftsInPlace`); the list has each open channel once, so that
  unsubscribe finds the one it closes (`CutOnce` for the list of all tenants).
* `AllSubsAreServed`: `Served`, which follows each Publish through its copy: the
  channels it has passed were told or were full, the others not yet (`Progress`). The
  copy has no duplicate because `Registry` held when it was made.

The hub, in the same module: `HubTypes`, `HubBookkeeping` (the position of the
goroutine in ServeWS determines the table and both channels), from which
`TableIsSendable` and `CrashCause` follow; for the latter it also says that after a
crash a client is caught by its cleanup (`CaughtByCleanup`).

`CampaignProofs.tla`:

* `CampaignTypes`: `TypeOK` with `Control`, which says what the locals of Run hold at
  each place, and that what runs or is listed exists.
* `RunByScheduleOnce`, from `Begun`: what the scheduler has begun is neither scheduled
  any more nor on its list, and what it is about to begin is not on the list either.
  The list may be stale; what matters is that a begun campaign never gets back.
* `SendsPaidByRuns`, from `Paid`: the sends to a recipient and the runs that have yet to
  come to it (`Reaching`) are together no more than the runs begun.
* `FinalIsTried`, from `Counts` (a runner has counted whom it took, and all but those
  it has left are tried) and `Accounted` (from the moment a run is about to finish
  everybody is tried and the counters add up, whichever run stores them again).
* `RowsAreSettled`, from `Shown`, `HasSent` and `Accounted`.
* `RunningCampaignsRun`: a campaign that shows as running has a run under way, unless
  one of its runs was cut short. This is the safety half of `RunningEnds`: what is left
  to liveness is that a run under way goes on.

`SendsProofs.tla`: `SendsTypes` (`TypeOK /\ Control`; `Control` says what a request
knows at each of its steps), from which `AnswersAreTruthful`; `UsageIsCounted`, a
sum in which every step moves a message from one term to the next;
`LimitOverrun`, from `Budget`: what is counted, about to be counted or past its check
never exceeds the limit by more than what a trial let through and the backlog a
check of this month has found, which with `UsageBalances` bounds what was taken
(`FreeToSend`: whom a trial let through has not sent yet); and
`RowsAreKept`, from `Handed`: one request at most is about to write a message, and
the row is there when the conversation is next.

`WaSessionProofs.tla`: `SessionTypes` with a `Control` that says at which steps an
actor holds a session, and which one, from which `OneClientKept` follows; `RowKept`,
from `RowInv`: what an actor that was not overtaken has read is still true, and so
is the row, or else somebody is about to set it right.

`InboundProofs.tla`: `InboundTypes` with its `Control` (which locals are set at
which step); `EveryStoredAnnounced`; `ReceivedAtMostOnce`, from `OnceInv`: until
two handlers overlap a message is in one pair of hands, and what was counted and
announced says how far that handler has come; `UnreadCounted`, where each step
adds one message to `Counted` or none, so that the cardinality moves with the
counter, given who is between the row and the conversation (`Bumping`); and two
action properties: `StateKept`, given that a request about to store a conversation
without a new state holds the state that is there (`Keeping`), and `ReadKept`, given
that one actor at most has a receipt of a message and it is the furthest that came
(`Ordered`).

`SubscriptionProofs.tla`: `SubscriptionTypes`, from `Typed` (the types, and the
locals of each step: what an event is about to store is what it tells);
`RowIsMirrored`, from `Mirroring`: the latest event agrees with the provider
(`Told`, which has the two events of a checkout in either order), none that was
acknowledged is later than `top` (`Numbered`), a request that no event overtook will
store what is newer than `top` (`Newer`), and when `top` is the latest event and the
row is not stale the row has what that event tells (`Latest`).

`AccountsProofs.tla`: `AccountTypes`; `OneDefaultKept`, given that a request about
to insert an instance that is not the default has found a default one
(`Defaulted`); `AnOwnerKept`, from `Owned`: a request that is not stale still has
the rights it read, and the role it is about to store does not replace the last
owner's (`Knows`).

The user sessions, in the same module: `SessionRowTypes`; `SessionGoesForReason`,
an action property: a request about to purge has found its session expired, and that
is still so unless the request was overtaken (`Reasoned`);
`SessionGoneStays`, an action property: `Login` alone makes a row, of an id that
was never used.

What stays with TLC:

* the liveness properties `JobsSettle`, `StopReturns`, `DeliverySettles`, `NothingLeaks`,
  `DueIsRun` and `RunningEnds`: a proof needs ENABLED and fairness, which the prover
  does not handle. Their safety halves are proved: a job that was accepted is in one
  place (`NoJobVanishes`), the bookkeeping of a hub client (`HubBookkeeping`), and
  `RunningCampaignsRun`;
* `RefreshRenews`, which is violated.

## 5. Plan

Every module of the plan is written, and every invariant and action property that a
run checks is a theorem. What could still be proved: that campaigns and deliveries
implement an abstract specification of their own, as the pool implements
`JobLifecycle`.

## 6. Not modelled, and why

* Webhook registration and API keys: each operation is one statement on a row of
  its own, and no step of one depends on another.
* The rate limiter: a token bucket per client, changed under one lock and read
  by nothing else. Its arithmetic is on fractions of seconds, which TLC has not.
* `UpdateUserProfile`: it reads the row of a user and stores it whole; of two
  that overlap the later one wins in all fields. One request alone does nothing
  a test would not show.
* The web front end, audio transcription, static documentation, routing,
  configuration, logging, metrics and the audit log keep no state that decides
  anything in the program.
* The wiring of `app.New`, the filter of a webhook by event name, signatures,
  the extraction of text and media from a WhatsApp message, cookies, and the
  choice among several tenants of one user are data that no property tells
  apart.
* A handler of the pool that panics, and a queue of capacity 0.

The database is taken as linearizable and durable, each statement as atomic, and
the whatsmeow library and the payment provider as external.
