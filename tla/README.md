# Verification of the grape chat backend

TLA+ models of the server in `src/` (Go, PostgreSQL, websockets, APNs and an
SMS provider), TLC runs that check them on small instances, and TLAPS proofs
of their invariants for every value of the constants. Line numbers refer to
the files under `src/`. `PROJECT.json` lists components, runs, the source
lines every definition stands for, hazards, findings and theorems.

## 1. The system

| component | state | operations | correct when |
|---|---|---|---|
| websocket hubs (`handler/websocket.go`) | `chatHubs`, `chatListHubs`: maps of maps under a mutex; one channel `send` of 16 per client; the socket | register, unregister, broadcast (evicts who is too slow), `readLoop`, `writeLoop` | nobody sends on a closed channel; a stream has no hole; no map entry is leaked; goroutines end |
| presence (`handler/handler.go`) | `online`: connections per user, `lastSeen` | `markOnline`, `markOffline`, `getOnlineStatus`, `/api/users/online` | the count is the number of connections, panics included |
| message path (`websocket.go`, `repo.go`) | table `messages`, its id sequence | store, broadcast, `notifyChatUpdate`, start of the push goroutine | what is broadcast is stored, nobody is left with an old chat list, push follows |
| direct chats (`repo.FindOrCreateChat`) | tables `chats`, `chat_members` | look-up, transaction of two insertions | a chat has its two members; the answer is true; duplicates are bounded |
| phone verification (`service.go`) | table `phone_verifications`, unique `users.phone` | `send_code`, `verify` | guesses and uses of a code are bounded; a new code survives old requests |
| push (`websocket.go`, `service/push.go`, `apns.go`) | table `push_tokens`, the APNs sender | register a token, one goroutine per message | who stays offline is notified, nobody else; no sender does no harm |
| chat list, history (`handler.go`, `repo.go`) | - (reads `messages`) | `ListChats`, `ListMessages` with `before_id` and `limit`, `UserInChat` | a device that subscribes and then reads misses nothing; paging ends |
| accounts, sessions, profile (`handler.go`, `service.go`, `repo.go`) | tables `users`, `sessions` | register, two logins, token check, update and read-back | a phone has one owner; no update undoes another; the answer shows the update; what a client is told is what the table has, but for errors and crashes that account for it |
| phone format (`handler/phone.go`) | none | `normalizeRUPhone` | one canonical form per number |
| configuration, start-up, deployment (`main.go`, `k8s/`, `migrations/`) | environment, manifests, the schema | `Ping` and listen; the steps of the guide; the migration job | the schema is the one the queries use |

How they interact. `net/http` runs every request in a goroutine. A websocket
handler stays in `readLoop` for the life of its connection and has a
`writeLoop` goroutine at its side, joined by the channel `send`. The `readLoop`
of a *sender* runs the whole message path: it inserts the row, takes the hub's
mutex to put the message into the channels of all clients of the chat, calls
`notifyChatUpdate` (queries, then a broadcast per member in the other kind of
hub) and starts a push goroutine, which reads the presence map, the tokens
and calls APNs. So one slow client is evicted by somebody else's goroutine,
and whatever one goroutine has read may be stale when it acts. The database
is shared by all; only `FindOrCreateChat` uses a transaction.

What is hard: the double close of an evicted client's channel, and the panic
it causes; order between the id sequence, the commit and the broadcast;
check-then-act on the database (chats, attempts of a code, free phones);
statements whose error is ignored; commits whose answer is lost; death of the
process at any point; peers that neither read nor leave. `PROJECT.json` lists
such hazards, each at its line, with the properties that watch it.

## 2. The modules

    OrderedFeed        abstract: what a hub promises to its subscribers
      ^ implemented by
    WsHub              hubs, channels, reader and writer goroutines, presence
    Mailbox            abstract: what becomes of a message
      ^ implemented by
    ChatMessaging      store -> broadcast -> chat_update -> push, interleaved
      ^ extended by
    Delivery           one recipient's device: connections, history, chat list,
                       and the look at presence before a push
    LiveChat           WsHub and ChatMessaging as one system
    PushNotify         the push goroutine, presence and tokens under it
    ChatBook           abstract: what POST /api/chats promises to its callers
      ^ implemented by
    ChatDirectory      POST /api/chats
    PhoneVerification  send_code and verify
    Accounts           registration, logins, sessions, profile updates
    Deployment         an installation that follows k8s/README.md
    MC*                instances for TLC
    *Proofs            theorems about the module they are named after

`ChatMessaging` is the spine: its `Broadcast` step is the whole of one
broadcast, whose effect on channels and sockets is `WsHub`, and its `HandOver`
step starts the goroutine that `PushNotify` follows. `Delivery` composes it with
what the recipient does: every step of the path is a step of `Delivery` with its
effect on the device, and `PathImplemented` proves that nothing is added to the path.
`LiveChat` composes it with the hub, one chat's connections being both; `LivePath`
and `HubSoundCorrect` prove that either keeps what was proved of it alone.
`PushNotify` takes presence as the set of users with a connection, which
`WsHub!PresenceExact` justifies. `Accounts` and `PhoneVerification` write the same
column `users.phone`: the latter is one phone in detail, the former many users
with everything else. Operators marked "Mutant" are wrong variants of the definition
below them; no specification uses them, they show that a property can fail.

### WsHub

One action per critical section of `hubMu`, `chatListMu` or `onlineMu`, and
per channel or socket operation. `/ws` and `/ws/chats` use two maps with the
same code; a key of the model is a key of either. `RegisterClient`,
`MarkOnline`, `ReadError`, `UnregisterClient`, `MarkOffline` are the life of a
handler; `TakeMsg`, `WriteOk`, `WriteFail`, `RangeEnd` that of a `writeLoop`;
`Broadcast(k)` one pass of `broadcast` over a map, which is atomic because
the mutex is held. `panicked` collects handlers that close a closed channel:
the deferred unlock and `markOffline` still run and `net/http` recovers the
panic, so the model goes on. Messages are their position among the
broadcasts of the key, which is all the properties need.

Not obvious: an evicted client's handler does not know that it was evicted.
It reads on, still counted as online, until the writer has drained the channel
and closes the socket. The deletion of a map's last client by an eviction
leaves an empty map, which that handler's later unregistration removes.

### ChatMessaging

`Receive` draws the id (the INSERT runs), `StoreOk`/`StoreError` are its
outcomes, one of which leaves a row although the caller got an error;
`Broadcast`; then `notifyChatUpdate`: `ListMembers`/`MembersError`, and for
each member `ReadSummary`/`SummaryError` and `Tell`; then `HandOver`. Openers
are `POST /api/chats` handlers, one request each, which run `notifyChatUpdate`
without a message. `Crash` resets the goroutines and keeps the tables. One chat
is modelled: chats only share the id sequence.

### Mailbox

The life of a message with no goroutines, databases or crashes: durable, then
shown to the chat once and after the older messages of its author, then alerted
once; at any point before that it may be dropped, and stays so. `ChatMessaging`
implements it with `dropped` mapped to what an error or a crash took away.

### Delivery

A device of one member (`Me`) next to the message path of the others. It may have a
connection to the chat and one to its chat list; each goes from the hub
(`registered`) to being counted as online (`open`), as `HandleWebsocket` does it,
and breaks or is evicted at any time. `deaf` stands for every connection that
counts as online and hears nothing: to another chat, or broken and unnoticed.
`FullPage`/`LastPage` are `GET .../messages`, with `Page` the translation of
`id < before ORDER BY id DESC LIMIT`; `LoadList` is `GET /api/chats`; `Look` is
`getOnlineStatus` in `sendPushForMessage`, at any later time. What a client does is
assumed as a sensible client does it: subscribe, then read, page back with the
oldest id it has got. The code offers no other way to be complete.

### Accounts

A handler runs one statement per step: `Register`; `LookUp` and `CreateSession`;
`Authenticate`, which reads the session once; `Connect`, after which nobody looks at
it again; `UpdateUser`, `ReadBack` and their errors; `Answer`, the response to a
registration or an update, is a step after them. A write may commit and only its answer
be lost (in `Register`, `CreateSessionError`, `UpdateError`), and `Crash` ends every
request and connection at any point, so that a change may be durable of which nobody
is ever told. An input of a phone
is a line (its last ten digits) and what precedes it, so that `Normalize` is the
function `normalizeRUPhone` up to the digits of the line. One field, `name`, stands for
all those that are not unique. The value of a name is the number of the
statement that set it, so that `log` tells whose value a row shows. `answered` and
`denied` record what clients were told of each statement.

### LiveChat

The `readLoop` that stores and broadcasts a message is that of a connection which
the hub serves. `Connection` is a step of the hub alone: a registration, a departure, a
writer. `Publish` is `Broadcast` of both modules at once, done while the mutex is held.
`Aside` is a step of the path that puts nothing into this hub. A handler sees its socket
fail only in `ReadJSON`, hence between two frames: an evicted connection goes on to
store and broadcast what it had begun and does not get it back. `Restart` is a crash of
the path, or the end of an idle process, that leaves a hub with nobody in it; the tables
and what was broadcast remain, and `base` says where in the feed the process began.

### Deployment

The steps of `k8s/README.md` in its order, what they set off (database, migration
job, `Ping` at the start, restarts), the tables and columns each migration adds, and
those that the statements behind each documented call name.

### ChatDirectory

Each action is one round trip to the database. `FindError` is any error of the
look-up, which the code treats like "no row". `Commit` and `CommitError` make
the rows durable or not, so that a lost answer is covered. Duplicated chats
are a real consequence of the schema and of the code; the property bounds
their number.

### ChatBook

A book that only grows, from chats to pairs of users. A caller finds a chat of his
pair or misses it, rightly or because the look failed, and then enters one, heard or
not. `ChatDirectory` implements it: `Listed` maps committed rows to the book, `Phase`
forgets the transaction (from "begin" to "commit" a handler has "missed"), `Reply` is the
id once `FindOrCreateChat` has returned it. So a chat is never seen with one member, an
answer is never an id that was rolled back, and nobody outside the pair is told.

### PhoneVerification

One phone number. A code is the number of its request: two requests never
share one in the model (collisions of six random digits are not a subject).
`attempts` and `stored` are the row; `seen` and `tries` what a verifier read
and may be stale. The errors that the code drops (`_ = s.repo...`) are
`RecordError`, `Purge` without effect and `CleanError`. A statement may also commit and
its answer be lost: `StoreError` leaves the new row or the old one, and after
`RegisterUnanswered` the account exists, while the handler, which takes the error for a
failure (`service.go:147`), returns without trying to delete the code. `lost` counts
wrong guesses that were never recorded, `kept` registrations that have left their code
in place: by `CleanError`, by `RegisterUnanswered` or by a crash before the deletion.
`ChangePhone` is every other way for the phone to become taken or free.

### PushNotify

The world (`Connect`, `Disconnect`, `RegisterToken`) changes between any two
steps of the goroutines. `Post` starts one; `ListMembers`, `LookAt` (one member,
one look at the presence map), `ListTokens`, `Send` per device, `Finish`. The
outcome of APNs is not part of the state, as the code ignores it. `configured`, chosen
in `Init` and never changed, says whether `NewAPNSSender` returns a sender. Without one
`SendToNil` ends the process: `Die` clears the connections
and kills the goroutines, and docker restarts it. `away`, `wasAway`, `keeps`,
`had` are auxiliary: who was offline, and which rows existed, always or at
some time since the message.

### OrderedFeed

Publications on a key have positions; a subscriber sees consecutive positions
from the one at which it joined, until its subscription ends. No channels,
no eviction. `WsHub` implements it with `phase` mapped from the handler's
stage and the socket.

## 3. The runs

| run | instance | what it shows |
|---|---|---|
| `hub` | 3 connections, 2 hubs, 2 users (one with two connections), capacity 1, 2 broadcasts per hub | types, `OpenIffRegistered`, `EntriesOwned`, `StreamExact`, `PresenceExact`, `PanicIffMissed`; no goroutine is stuck (deadlock is checked; only the end of all goroutines is allowed) |
| `hub_live` | 2 connections of one user, 1 hub, capacity 2, 4 broadcasts | `ImplementsFeed`; `SocketTeardown` and `EvictedLeaves` under `FairSpec` |
| `messages` | 2 connections, 1 opener, 2 members, 2 messages, 2 errors or crashes | `FeedExact`, `SenderOrder`, `UpdateCovers`, `PushFollows`, `ImplementsMailbox`; `EventuallyServed` under `FairSpec` |
| `live_chat` | 2 connections of one member, 1 opener, capacity 1, 2 messages, 1 error or crash, any restarts | `PeersServed`: the feed without a hole from where a connection joined, its own messages back, and every row in the history or in the stream |
| `delivery` | 2 senders, 2 members, 2 messages, pages of 1, 1 error or crash | `HistoryComplete`, `PagesBounded`, `ListNotBehind`, `NoSilentSkip` |
| `accounts` | 2 handlers, 2 users, 1 telephone line in all its forms, 3 statements, 2 times, 1 error, 1 crash | `OneOwner`, `NoUpdateLost`, `AnswerCovers`, `ChangesAccounted` |
| `chats` | 2 handlers, 3 users, 4 chat ids, 1 failed look-up, any crashes and failed commits | `TwoMembers`, `DuplicatesBounded`, `ImplementsBook` |
| `phone` | 1 sender, 2 verifiers, 2 codes, limit 2, 1 unrecorded guess and 1 code left in place, by an error, a lost answer or a crash | `GuessBudget`, `ReuseBounded`, `FreshCodeKept` |
| `push` | 3 members, 2 devices, 1 message, with a sender and without | `OfflineReached`, `PushJustified` |
| `phone_sms` | as `phone` | refutes `CodeRequestSucceeds` |
| `push_disabled` | 2 members, 1 device, 2 messages | refutes `DisabledIsHarmless` |
| `deployment` | the guide, 2 failed starts | refutes `GuideServes` |

Why the bounds are enough. The code tells connections, users and messages
apart only by identity, and every step involves one goroutine and the shared
state, or one evictor and one evicted: two or three of each make every pair of
steps overlap. The smallest channel makes eviction happen with two messages;
capacity 2 in `hub_live` lets messages queue behind each other, and four
broadcasts fill and overflow a channel whose writer holds one message. In `live_chat`
two messages fill a channel of one next to a writer that holds one, so that one
connection evicts the other, or itself. Pages of
one row with two messages make a full page, a last one and an insertion between
them, above or below the cursor. Two handlers and one line make users lose, take
and hand over a phone and interleave two updates of one profile; two points in
time let a session expire while its request or connection goes on. One error and one
crash meet in either order with every stage of two overlapping updates. Two codes suffice for a request to act on the row of another code,
and two attempts for the limit to be reached and overrun. The constants of
the code (16, 5) are constants of the modules, and the theorems hold for all
of them. Symmetry is used for safety properties only. `messages` allows the system to
stop: once its ids are drawn and the opener has had its request, nothing is left to do.

`MaxSent`, `MaxChats`, `MaxLost`, `MaxCodes`, `MaxMsgs`, `MaxFaults`, `MaxTime`,
`MaxWrites`, `MaxCrashes`, `MaxRestarts` are bounds of the models that the code does
not have: they limit guards and the ids there are, and the theorems hold for every value
of them. What a property allows for is the errors and crashes that happened in the
behaviour (`lost`, `kept`, `missed`, `dead`, `faults`, `crashes`), not those that may.

A property that counts the requests served at the time (`GuessBudget`, `ReuseBounded`,
`DuplicatesBounded`, `ChangesAccounted`) counts a request until its last statement is
settled in the database. A client that gives up makes its handler return at once, while
the statement may commit a little later: in the models that is the step of the
statement, and the handler is free only then.

### Fairness

Safety is checked without fairness. `hub_live` assumes weak fairness of what
the Go scheduler runs anyway: a handler or a writer that is ready moves on,
since the mutexes are held for a bounded time and sends do not block. It
assumes nothing of peers. `readLoop` ends and a blocked write fails only when
the server has closed the socket: there is no write deadline and no ping, so
`EvictedLeaves` needs the hypothesis that no write blocks for ever. Without
it an evicted connection stays, deaf and counted as online; that is what the
code does. `messages` assumes that a goroutine that is at work goes on: a
statement returns, with or without an error, and the mutexes are free again after a
bounded time. It does not assume that frames or requests come, nor that the
process lives.

### Findings

* `CodeRequestSucceeds`: `baseURL` of the SMS sender (`service/sms.go:30`) is
  `https://` followed by a sentence with spaces. `http.NewRequestWithContext`
  refuses it, so with a provider configured `send_code` stores the code and
  always answers 500, while `info.txt:19` documents the endpoint as the
  registration by phone.
* `DisabledIsHarmless`: without a usable APNs configuration `main.go:38` passes a
  nil `*APNSSender` as a `PushSender`. The interface is not nil, `PushEnabled` is
  true, and the first message to an offline member with a device dereferences
  the nil pointer in a goroutine that nobody recovers: the process ends,
  although `main.go:36` logs that push is merely disabled.
* `GuideServes`: `k8s/README.md:17` puts `001_init.sql` alone into the ConfigMap, and
  `k8s/migrate-job.yaml:35` applies it alone. The statements of `repo.go` name columns and
  tables of the later migrations, `users.phone` first of all, so that after the
  guide has been followed to its end most calls that `info.txt` documents fail.

Worth knowing although no document says otherwise:

* two users may get as many chats as requests overlapped;
* wrong guesses may exceed the limit by the number of overlapping requests;
* a message stored before a crash, or whose INSERT lost its answer, is in the history
  and was never broadcast;
* messages of different senders may be broadcast in an order other than that of
  their ids, and a page of history may lack a row that is committed later with an id
  below the cursor: only the broadcast brings it to the device (`HistoryComplete`);
* a member whose only connection is to another chat gets neither broadcast nor push,
  and who is registered and not yet counted gets both (`NoSilentSkip`);
* a code can register a second account, if its phone is given up in the meantime, and
  even after a registration that was answered with an error, whose INSERT was committed
  (`ReuseBounded`);
* an update that is answered "update failed", or by nothing, may be durable
  (`ChangesAccounted`), and
  the answer to one that succeeded may show a later one (`AnswerCovers`);
* a connection outlives its session for as long as it stands (`Connect` of `Accounts`);
* a `limit` above 200 is replaced by 50, not cut to 200: a client that asks for more
  takes the first page for the last;
* `TOKEN_TTL_HOURS` above 2562047 overflows, and sessions have expired when they are
  stored;
* `last_seen` is the time of the last connect, not of the last disconnect, and may
  go back when two connects of one user overlap;
* during a rolling update two processes serve, and neither knows the hubs and the
  presence of the other.

## 4. The proofs

Every theorem is for any sets of connections, users, handlers, messages or
codes, under the named assumptions of its module (finiteness where sets are
counted, a positive channel capacity, attempt limit or page size, disjoint kinds of
goroutines). Each proof of a safety property has the shape: an invariant that implies
it, true initially, preserved by every action (one step per action), and a temporal
step. Every property of the passing runs is stated by a theorem, but for the three
liveness properties.

* `WsHubProofs`. `OpenIffRegistered` and `EntriesOwned` become inductive together
  once a channel is known to be open only while its handler is active.
  `StreamExact` needs them to know that a registered client's channel gets every
  broadcast. `PanicIffMissed` needs, besides, that a client that was closed
  early has missed something and one that is still registered has not.
  `PresenceExact` counts a set that gains or loses one element in a step.
  `EntriesOwned` says that the handler of every entry, evicted ones included, is one
  that will still remove it. `FeedCorrect` maps every step to a step of
  `OrderedFeed` or to a stutter.
* `ChatMessagingProofs`. The inductive invariant says where a message is: the
  goroutine that drew an id is the only one that holds it (`HeldBy`), its stage
  says which sets it has entered, and conversely a row or a broadcast message
  that is not at its end is held (`Placed`). `SenderOrder` needs that what is
  in hand is younger than what its connection has broadcast (`Younger`).
  `UpdateCovers` needs that a summary read for a message is at least as new
  (`Fresh`), since the row was committed before the read. `MailboxCorrect` maps every
  step to a step of `Mailbox` or to a stutter; `Younger` is what the order of an
  author needs, `HeldBy` what keeps a message from being shown or alerted twice.
* `LiveChatProofs`. Every step is one of the path, or leaves it alone (`LivePath`), and
  one of the hub, a restart of it, or leaves it alone; so the theorems of the path hold,
  and those of the hub are used through an instance of `WsHubProofs`, whose invariants
  a restart makes true afresh (`HubSoundCorrect`). What ties the two together is that the
  feed is `base` longer than what the hub has broadcast (`InStep`) and that a goroutine at
  work on a message belongs to a connection whose handler is in `readLoop`, evicted or
  not, and which joined before that message was broadcast (`SentHere`). From these
  `PeersServed` follows.
* `DeliveryProofs`. `PathImplemented` comes first, and with it `MessagingInv` is an
  invariant of `DeliverySpec`; `PathPromises` lists what follows. On top of it, every row
  at or above the cursor is known,
  in hand or lost (`Accounted`). The step that matters is a page: it holds the `Limit`
  largest rows below the cursor, so that a row between its first id and the old
  cursor cannot be left out, and a page that is not full leaves nothing below it.
  Both rest on a least and a greatest element of a set of numbers, from the
  well-foundedness of `<`. A row that is inserted above the cursor later was drawn by a
  goroutine that will broadcast it to the device, which has subscribed. `PagesBounded`
  counts rows from the cursor on, of which a page adds `Asked`. `ListNotBehind` needs
  that a note on its way is a row (`NotesReal`) and that a list that is loaded shows
  the last one. `SkipCorrect` combines them at the step of `Look`.
* `AccountsProofs`. Each step writes at most one statement (`WriteCases`), whose
  effect on rows and log one lemma each describes (`WritesRow`, `WritesLog`).
  `OneOwner` needs that the column holds nothing but what `normalizeRUPhone` returns, and
  the unique constraint. `Kept` ties every field to the last statement that set it;
  `AnswerCovers` follows from it at the step that reads the row, since that last
  statement cannot be older than the one to be answered. `ChangesAccounted` needs that
  no two requests are about to answer for one statement (`OwnWrites`), and counts the
  denied against the errors and those that nobody will hear of against the crashes: only
  a crash adds to the latter, and no more than the requests it takes with it.
* `ChatDirectoryProofs`. Rows carry ids below the sequence, and the ids held by
  open transactions are distinct and unused. `DuplicatesBounded` counts, for a
  pair, the chats that exist and the handlers that have already missed them:
  a look-up that finds nothing can only happen while there is nothing to find.
  `BookCorrect` maps every step to a step of `ChatBook` or to a stutter. It needs that
  the id of an answer is a chat of the pair (`AnsweredChat`), that a chat with both users
  has no third (so that the look-up by members finds the pair), and that a commit makes
  rows of an id that nobody else has drawn.
* `PhoneVerificationProofs`. `GuessBudget`: the failed comparisons of a code are
  those recorded in its row, those not yet recorded and those lost; a verifier
  that may still compare has read fewer attempts than the limit. `ReuseBounded`
  counts in the same way the registrations whose deletion is due and those that have
  left their code in place, because the deletion failed or, when the INSERT was not
  answered, was never tried. Both rest on
  codes being fresh: a sender's code is in no row and was seen by nobody before
  it is stored. `FreshKeptCorrect` needs that a deletion is due only for a code
  that is expired or used.
* `PushNotifyProofs`. For each message: the loop variables say what has been done
  (`JobOf`), the auxiliary variables bound what the world looks like (`WorldOf`),
  recipients who stay offline are still to be looked at, targeted, pending or
  tried (`ReachOf`), and nobody is targeted without a reason (`ReasonOf`).

### What liveness rests on

Liveness under fairness needs ENABLED, which the prover does not reach, so
`SocketTeardown`, `EvictedLeaves` and `EventuallyServed` stay with TLC. What is proved,
for every size, is part of what an argument by fairness combines: that going on leads to
an end, that the end is the right one, and for the teardown that somebody can go on.

* Messages: each step of a goroutine at work, errors included, lowers a natural number
  that no other goroutine touches (`WorkEndsCorrect`), and when nobody is at work no row
  is half way (`NoneHalfwayCorrect`). That a goroutine at work can take a step is shown by
  the run of `EventuallyServed` only.
* Teardown: when the server has closed a channel or a socket, both goroutines have ended,
  or one can go on, or a peer that does not read holds up the writer of an
  evicted connection (`TeardownReadyCorrect`), which is the hypothesis of
  `EvictedLeaves`; their steps lower a natural number, and the channel stays closed
  (`TeardownEndsCorrect`). `LiveTeardown` says the former for the composition, where an
  evicted connection's `readLoop` may be at work on a message when it happens, which ends
  by `WorkEndsCorrect`.
* Push: each step of a push goroutine lowers a natural number, and the world around it
  leaves it alone or kills it (`JobEndsCorrect`).
* History: a page has an answer, a full page lowers the cursor, and nothing else
  moves it while the connection stands (`PagesDescendCorrect`), whatever is inserted.

Such a number is a bound that the code's loops have: the members, the tokens, the channel's
capacity. For the teardown ENABLED is avoided by stating the guards of the actions.

Induction over data is out of the prover's reach too, so nothing is proved about
recursively defined operators, and the modules have none. `Deployment` and the
refutations are runs only: a counterexample needs no proof.

## 5. Not modelled, and what is left

Not modelled, each for its reason:

* `SearchUsers`, `RandomUsers`, `HandleUserByID`: single queries that change nothing and
  whose answers depend on nothing but the rows at the time.
* `lastSeen` and `/api/users/online`: a time that is written by `markOnline` and read
  for an answer, used for nothing else.
* Texts of messages and JSON shapes, CORS, logging, password hashing, random tokens
  and codes: data that no property tells apart, or libraries.
* APNs' and the SMS provider's own behaviour: the code ignores the former's answer and
  never reaches the latter.
* `docker-compose.yml` as a deployment: it applies no migration and documents none, so
  that there is no claim to hold it to.
* A rolling update with two processes: the manifests say `replicas: 1`, and nothing in
  the code lets two processes know of each other; every property of hubs and
  presence is about one.
* The remaining `config.Load`: reading of environment variables.

What could still be added, in this order:

1. `Delivery` on top of `LiveChat` in place of its atomic broadcast, so that for the pages,
   too, what an evicted device has read is told apart from what it was sent. For
   the stream alone `LiveChat` does it.
2. Several chats over one id sequence in `Delivery`, for a chat list with more than
   one row.
3. `PhoneVerification` as a detailed step of `Accounts`: registration with a code shown
   to implement `Accounts!Register`.
4. An abstract specification of push, so that `Mailbox`'s alert and the goroutine of
   `PushNotify` meet in one module.
