# Databag in TLA+

Databag is a self-hosted messenger. A *node* (Go, `src/net/server/internal`) keeps
accounts in a SQL database behind a REST API and websockets; clients use it through
an *SDK* (TypeScript, `src/app/sdk/src`). Contacts live on different nodes, and
clients talk to their own node and, with an access token, to their contacts' nodes.
Content is pulled: every account has revision counters, a websocket or another node
says "the counter is now n", and whoever hears it asks for what changed.

This directory holds specifications of the parts of that design that are hard to
test, the TLC runs that check them on small instances, and proofs for every
instance. `PROJECT.json` maps each definition to the lines it is translated from.

## Inventory

| Component | State | Operations | Hard behaviour |
|---|---|---|---|
| Contact handshake (`api_setCardStatus`, `api_{get,set}{Open,Close}Message`, `api_addCard`, `api_removeCard`, `contact.ts`) | a row per card: status, in-token, out-token | add, connect, confirm, deny, ignore, disconnect, remove; open and close messages from the contact | rows read before and saved whole inside a transaction; both users act at once; requests outlive the 15 s timeout; tokens withdrawn and issued again |
| Status hub (`api_status.go`) | three tables of Go channels, one mutex | open, greet, serve and close a websocket; SetStatus, SetRing, ClearStatus | unbuffered sends under the mutex; channels closed by deferred calls |
| Channel revisions and the stream (`api_*Channel*.go`, `stream.ts`, `session.ts`) | `Account.ChannelRevision`, channel slots; the client's revision, entries and loop | 21 requests that raise the counter; GetChannels in two queries; the sync loop | overlapping handlers, reads that mix two states, reordered announcements, restarts |
| Topics and focus (`api_*ChannelTopic*.go`, `focus.ts`) | topic slots; the device's rows, marker, revision and view | add, edit, remove; pages of older topics and deltas of changes | two cursors moved independently, details asked for later than the list, a device that stops half-way |
| Notifications between nodes (`notify.go`) | rows and a bounded channel | save, put, take, send, delete, start | crash between any two; puts inside a transaction; start-up larger than the channel |
| Contact synchronisation (`contact.ts`, `api_getCards.go`) | revisions per card, offsync and resync marks | sync per card, resync, removal | a contact's node that fails at any request, lost and reordered notifications, a focus that holds the loop |
| Calls (`bridge.go`, `api_signal.go`, `link.ts`, `ring.ts`) | bridges, their sockets, expiry | add, keep, join, relay, ring, decline, end | a new websocket racing the release of the old one; expiry racing keep-alive; hang-ups from both sides |
| Assets (`transcodeUtil.go`, `garbageUtil.go`) | asset rows, files, four queues | upload, transcode, collect | endless retry of a transcoding that cannot be stored |
| Login, sessions, tokens (`authUtil.go`, ...) | failure counters, tokens, sessions | login, lock, MFA, logout | counters read before a slow comparison |
| Clean-up, read receipts, groups and views, profile and settings, administration, push | rows | see PROJECT.json | revisions not raised, counts read outside transactions |

Components interact in four ways: a handler commits a revision and calls SetStatus,
which hands it to the hub's goroutines (RevisionSync -> StatusHub -> stream); a
handler queues a notification for another node (Notify), which raises the contact's
card and calls SetStatus there (CardSync); the SDK calls its own node and the
contact's node in turn (Contact, CardSync); the stream hands a channel's topic
revision to the focus (TopicSync); a call rings through the contact's status
websocket and then has websockets of its own (Call); and all handlers of a node share the database and the mutex `wsSync`.

Correctness, component by component: a link needs both users' consent and both
tokens, and a token that was withdrawn lets nobody in again (Contact); nobody sends on a closed
channel, every registered websocket hears of every change, every handler returns (hub); who
has reached revision n holds everything up to n and nothing that was removed by
then, and catches up when changes stop (revisions, topics, contacts); a saved
notification is sent at least once (queue); both ends of a call know how they stand
and hear of its end (bridge); an
asset is kept exactly as long as its row (assets); the lock cannot be outrun (login).

## Modules

* `Contact` - the handshake. A *flow* is one call of the SDK's ContactModule, a chain
  of requests; a *request* is served in two steps, `Read` (the query before the
  transaction, kept as `snap`) and `Commit` (the transaction, which saves the row it
  read). `By`/`To` say who calls about whom, `Ops` which calls a run may make,
  `Overlap` whether two handlers of a node may run at once (net/http serves every
  request in a goroutine of its own, so on a real node they may; the runs without it say
  what holds when they do not meet), `Lossy` whether requests
  and answers may be lost or arrive after the caller has given up. `offered` and
  `revoked` are history variables.
* `Relationship` - what the handshake promises, without tokens or requests: only the
  account's own user moves it towards a link, the contact can announce itself, take
  up an offer or step back. `Contact` implements it (`ImplementsRelationship`).
* `StatusHub` - one goroutine per websocket with the order of its deferred calls, and
  the handlers that send while they hold `wsSync`. `open` is the set of channels that
  are made and not closed; `todo[w]` is whom the holder of the mutex has still to send to.
* `RevisionSync` - the counter, the slots, a websocket and `StreamModule.sync()`.
  `Load`, `Commit` and `SetStatus` are the three steps of every handler; the 21
  request operators say what each writes. `SetRevision` is `onRevision` of `session.ts`
  up to the stream; a pass whose focus has not come back is at `focus`; `heard` is a
  history variable, the revision that was handed over last. `ReadSlots` and `ReadRows` are the two
  queries of GetChannels. A slot's content is the number of the commit that wrote it.
* `TopicSync` - one channel's topic slots and a FocusModule. `sync()` is cut at its
  awaits: `head`, `page` and `applyPage` widen the copy by a page of older topics,
  `mid`, `delta` and `applyDelta` bring it up to date. `storeView` is the pair of
  numbers the device trusts (revision, marker); `mem` and `cacheView` are what the
  listeners are shown. `floor` is a history variable: how far down the copy was asked
  for. A topic's detail is the revision of the edit that made it; a swept slot is one
  the node's clean-up deleted without a revision.
* `CardSync` - from a contact's commit to the screen: the contact's channel slots, the
  saved notifications (sent as Notify promises: maybe twice, in any order, and lost
  when they do not arrive), the rows of the own node, the announcement, and the loop of
  the ContactModule with one action per await. `marker` is the offsync marker, `cur`
  the card being synchronised.
* `Notify` - the rows, the channel, the goroutine of SendNotifications and the handlers
  that notify. A handler either saves and puts one row at a time or, changing a
  profile, does both inside one transaction; the database has one writer. `boot` is
  what the start found and has not queued yet.
* `Outbox` - what Notify promises and CardSync takes for granted: a saved notification
  is kept until it was sent. `Notify` implements it (`KeepsPromise`).
* `Call` - the bridge, the handler goroutine of every websocket, both LinkModules and
  the callee's ring entry. `sockets[e][n]` is the n-th websocket end `e` opens; `bound`
  is which of them the bridge holds. The steps of users and networks are apart from
  those of the program (`Progress`).
* `MCContact`, `MCStatusHub`, `MCRevisionSync`, `MCTopicSync`, `MCCardSync`, `MCNotify`,
  `MCCall` - instances for TLC.
* `ContactProofs`, `StatusHubProofs`, `RevisionSyncProofs`, `NotifyProofs`, `CardSyncProofs`,
  `CallProofs`, `ContactSerialProofs`, `TopicSyncProofs` - theorems.

What one module assumes of another is what the other is checked for: CardSync and
TopicSync serve one request of an account at a time, which is where RevisionSync's
`Synchronized` holds; CardSync's notifications behave as Outbox; the stream's
announcements to the focus are those of RevisionSync.

## Runs

| Run | Instance | Shows |
|---|---|---|
| `contact_reliable` | two accounts, five calls (three of a, two of b) of addConnect and disconnect, one at a time per account, no loss | withdrawn tokens stay withdrawn, connected cards hold each other's tokens, two users who ask end up connected |
| `contact_lossy` | all eight calls, three flows, two at a time, loss and lateness, handlers of a node one at a time | consent, provenance of tokens, what can bring a withdrawn token back, refinement of Relationship |
| `status_hub` | websockets in both modes of one account, a change, a ring, a logout, failing writes | no panic, no leak, every registered websocket told, every handler returns unless the hub is blocked |
| `status_stuck` | no failing write, no logout | violation |
| `revision_sync` | two channels, three changes, one handler at a time, reordered announcements, one fault | no change skipped, no removed channel kept |
| `revision_live` | one channel, three changes, one fault; announcements in any order, or never handed on; a focus that may hold the loop | catches up once the focus returns, unless never told, not handed the newest, or stranded |
| `topic_sync` | two topics at the start and a third, the first two made in one second, pages of one, five revisions | the device never trusts a revision it does not hold, shows what it stores, its window only widens |
| `topic_live` | one topic and a second, crashes that leave a page or a row half stored, the clean-up | a focus that stays open reaches the channel's topic revision and from then on stays there |
| `card_sync` | two contacts, one of them with its channel in focus, three channel and three card revisions, one stop of the device | nothing announced is forgotten, copies are as their revision says, every change is shown or marked; the invariant of the proof |
| `notify` | one handler and one profile change with three contacts each, a channel of two, two stops | nothing saved is dropped unsent, all of it is sent, no handler hangs, unless the start jams |
| `notify_jam` | the same | violation |
| `call` | each end opens up to two websockets, the caller sends two messages; hang-ups, a decline, expiry | the status each end is told is true, messages in order, the ends connect, both hear of the end |

**Bounds.** `MaxCards` 2: a second card for a contact is what goes wrong if two are
made; the creation guard stops at it. Five flows let a connect, withdraw and connect
again against a contact that does the same. `MaxCommits` 3: one change to create a
channel, one that is being fetched, one that comes in between. Two channels: one in
the response and one that changes meanwhile; the lists of a response are taken in
every order. `MaxFaults` 1: a second fault meets a client that is as after the first,
only with a later revision. `RevisionSync` is symmetric in its channels.
`TopicSync`: three slots give an older page, a newest page and one made meanwhile; two
of the same second exercise the comparison of positions; pages of one topic make every
page boundary a boundary between topics. `CardSync`: two contacts, so that one can fail
while the other goes on and the focus can hold the loop before either; three revisions
of a channel are one held, one announced and one made since. `Notify`: three contacts
and a buffer of two, so that the channel fills from one handler, and from a start;
two stops allow a stop during the start that follows a stop. `Call`: a second websocket
of each end is where the release of the first can do harm; two messages are what an
order takes.

**CHECK_DEADLOCK FALSE** everywhere: the calls, handlers, websockets and changes are
finite in number, so the system stops when they are used up.

**Fairness.** `Contact`: the node's scheduler and the event loop run what is started
(`Progress`); users need not act. `StatusHub`: every goroutine and started handler
that can go on does, `sync.Mutex` being fair between waiters; no write has to fail
and no client has to leave. A write to a websocket is taken to end, with an error if not
otherwise: it has no deadline (`api_status.go:117`), so a peer that keeps its connection
and never reads would hold the goroutine, and whoever sends to it, for as long.
`RevisionSync`: a loaded request returns, a client whose
websocket closed opens another after a second (`connection.ts`), and the loop runs
until it calls the focus; no request has to be sent and nothing has to fail. That a
revision is handed to the stream is not assumed: `onRevision` awaits five other
modules first, and the contact module may wait for a focus (`session.ts:85`,
`contact.ts:688`). Nor is it that the focus returns (`stream.ts:203`); `CatchesUp`
has it as a premise.
`TopicSync`: the loop goes on, and strongly so for the requests that may fail, since a
pass that fails is started again; opening, closing and connecting are the user's and the
network's. `CardSync`: the queue is worked off, announcements arrive, the loop goes on
and its own node answers now and then; a contact's node may fail for ever and a focus
need not return. `Notify`: the push server answers (a local notification is pushed
without a time limit, `api_setPushEvent.go:84,140`; a contact's node has ten seconds),
the goroutine and every handler go on, and one that waits to put is served in its turn, as Go's channels do; the process need not stop. `Call`:
goroutines, timers and callbacks go on (one condition, because between two steps of
users and networks there are finitely many of them).

**What the conditions leave open.** Nothing on a node keeps two handlers apart and
nothing makes a request end with the call that sent it, so what is said of runs without
overlap, loss or a second device is said of the executions in which these do not happen.
Of `Contact`: `TypeOK`, `MutualConsent`, `ConsentInv` and `WithdrawnStaysOut` need no
condition (and are proved without one); the other properties of the handshake need
handlers that do not overlap, and `RevokedForGood`, `TokensAgree` and `Established` need
calls that are not lost and one call of an account at a time as well, for a late
`setCardConnected` re-opens what a later call closed. `WithdrawnStaysOut` says how far
that goes: a withdrawn token is accepted again only when the user's own
`setCardConnected` is served, or when a handler saves a card it had read while the token
was good; no message of the contact and no new request to connect does it. That a
contact has one card is claimed by no run: two handlers that both find none make two,
because the unique index of a card includes its in-token (`store/schema.go:211`,
`ContactTwice`). `DeletionSeen` fails with `CrashEarly` TRUE: an app that
stops while it stores its first list keeps a channel removed before the next one.
`Synchronized` needs handlers that do not overlap and requests other than the two
that set a group, as the further configurations show. `CatchesUp` has the premise that
the focus does not hold the loop for ever, and names three ways to stay behind:
`Untold` (a revision committed between the greeting of a websocket and its
registration, or by a request that stores an asset and announces nothing), `Unheard`
(the revision handed to the stream last is not the newest: an older one overtook it, as
`onRevision` awaits other modules before the stream and `setRevision` keeps whatever
comes last, or the newest is still held back there) and `Stranded` (a revision
that arrives while the marker of the first sync is written).

**The conditions in the newer modules.** `StoreCurrent` leaves out the topics the
clean-up removed, of which no device is told. It and `ViewMatches` are checked, and
proved, without crashes that leave a page or a row half stored (`Torn` FALSE); with them
TLC refutes both: such a row is not shown at first, and it stays if its topic is removed
before the device asks again. `ViewMatches` promises, of topics made in one second,
only the one with the least id: the delta compares ids the other way round than the
store does (`focus.ts:195`), so that it may leave another of that second out of a view
whose cut is that second.
`EventuallyShown` excepts a focus that never returns, `Forwarded` and `HandlersGoOn`
a start that jams (`Jammed`, a finding). `StatusTrue` needs `Late` FALSE: the
token of a websocket is read before that of the end's next one. `EndsHear` speaks of ends
that are on the bridge when the call ends. `NothingForgotten` and `CopyCurrent` are said
of a node that serves one request of an account at a time: `SetChannelRevision` loads the
card revision before its transaction (`api_setChannelRevision.go:35`), and CardSync makes
it one step.

## Findings

1. `status_stuck`: SetStatus holds `wsSync` and sends to a goroutine that waits for
   `wsSync` between its two registrations; nothing on the node passes it again.
2. `notify_jam`: at the start the one goroutine that empties the channel first fills it
   with every saved row; with more rows than places it waits for itself for ever, and so
   does every handler that notifies.

## Further configurations

These are not among the runs of `PROJECT.json`: each is the run it is named after
with one condition lifted, and shows why the condition is there. `tlc -config X.cfg M`
ends with a counterexample in each.

| Configuration (module) | Violated | What the counterexample is |
|---|---|---|
| `ContactRemove` (MCContact) | `TokensAgree` | `removeCard` sends no close message, so a late `setCardConnected` with an old token leaves two connected cards whose tokens differ |
| `ContactOverlap` (MCContact) | `Established` | two handlers read one card row and both save all of it; two users who press connect at once stay unconnected for good |
| `ContactTwice` (MCContact) | `OneCardPerContact` | two `addCard` handlers at once both find no card and both make one |
| `RevisionOverlap` (MCRevisionSync) | `Synchronized` | two handlers at once give two channels the same revision; a client that fetched in between never asks for the second |
| `RevisionGroup` (MCRevisionSync) | `Synchronized` | setting or clearing a channel's group leaves its detail revision alone, and the client keeps the old groups |
| `TopicSkipped` (MCTopicSync) | `NothingSkipped` | a page whose topics were all removed (`focus.ts:166`), or a first page that failed, leaves a revision without a marker, which reads as "nothing older" |
| `CardResync` (MCCardSync) | `ResyncAttempted` | a resync asked for while a pass runs is cleared with the pass's own (`contact.ts:440`): the call of `resyncCard` is followed by no attempt |
| `CallLate` (MCCall) | `StatusTrue` | the token of a websocket that was already replaced is read last: the bridge binds the dead one and the live one hears nothing |

## Proofs

All with tlapm, for every value of the constants that meets the modules' assumptions.

* `ContactProofs!TypeCorrect`, and `ConsentCorrect`: `Spec => []MutualConsent`, with
  overlapping handlers and a lossy network. MutualConsent alone is not inductive: a
  handler saves a row it read earlier, and a request that is out carries its sender's
  word. `ConsentInv` says that rows, snapshots and requests all testify to who asked;
  since offers on record only grow, testimony stays true. TLC checks it in `contact_lossy`, and
  `TestimonyCorrect` states it.
* `ContactProofs!WithdrawnLimited`: `Spec => WithdrawnStaysOut`, with no condition either.
  A new token is greater than any in a row, in a handler's copy or among the withdrawn
  ones (`Counted`), and a handler saves the row it read, changed only by its own request
  (`Derived`), so a withdrawn token can come from no other place.
* `ContactSerialProofs`, from `~Overlap`, for any accounts, calls, losses and late
  answers: `TokensWereOffered`
  (`TokensOffered`) and `KeepsRelationship`: every step of Contact is a step of
  Relationship or a stutter. They say nothing of handlers that do overlap
  (`ContactOverlap`). `SerialInv` says that between its read and its commit a
  handler is alone on its node and its copy is the row (`UpToDate`), so looking for a
  card and making one cannot be separated. `TokenInv` adds where tokens come from: once
  a card was asked to connect its in-token is an offered one and stays so while the row
  is there (`Vouched`), which is what lets a `setCardConnected` that comes late, after
  the card was withdrawn, do no more than use an offer that was made. The refinement
  needs `ConsentInv` as well: only with both users' consent is a link a step of
  Relationship.
* `StatusHubProofs!NeverPanics`: `Spec => []NoPanic`, with `TypeCorrect`. `HubInv`
  (`HubCorrect`) says which channels are open and registered at each point of a
  goroutine, and that only the holder of the mutex has anything left to send, to channels
  that stay registered meanwhile. TLC checks it in `status_hub`. `NothingLeaks` adds
  that a channel is open only between its making and its deferred close (`OpenInv`).
* `RevisionSyncProofs!StaysSynchronized`: `Spec => []Synchronized` for any channels,
  changes, faults and order of announcements, from two assumptions that the further
  configurations show to be needed: one request of an account is served at a time (`OneAtATime`), and
  no request sets a group (`NoGroupOps`). The argument is `SyncInv`: no revision is ahead
  of the counter and a handler works with the latest (`Bounded`), so a commit stamps
  what it writes with a revision nobody has reached or is about to reach; a copy or an
  entry agrees with the slot wherever it has its revisions (`Faithful`); and while a
  response is read and applied, a channel up to `goal` is as the node has it or still to
  come (`Covered`). TLC checks `SyncInv` in `revision_sync`; `SyncCorrect` states it.
  `RemovalsSeen`: `Spec => []DeletionSeen`, under `~CrashEarly` as well: a first list is
  stored whole or not at all, and later ones name what was removed (`RemovedInv`).
* `NotifyProofs!NeverLost`: `Spec => []NothingLost`, and `PromiseKept`: every step of
  Notify is a step or a stutter of Outbox (safety of the refinement). `NothingLost` alone
  is not inductive: a profile's rows are put in the channel, and may be sent, before
  they are committed, so the invariant has to say of the rows of an open transaction
  (`OpenRows`) what `NothingLost` says of the committed ones, and of the sender what it
  holds at each point (`SenderInv`).
* `CardSyncProofs`: `TypeCorrect`, `CopiesAreCurrent`, `NeverForgets` and `LoopCorrect`,
  for any contacts, changes, notifications and stops. `LoopInv` says that once a device
  has asked for a card, the card is handled, in the answer or at hand (`Announced`), and
  from the contact's answer on, what the device owes is in the answer or in its copy
  (`Owed`). `NothingForgotten` speaks of content, because "the revision that was notified
  is the one that is reached" is false when notifications come out of order. TLC checks
  `LoopInv` in `card_sync`.
* `CallProofs!EndsKnow`: `Spec => []StatusTrue` for any number of websockets and
  messages, from `~Late`, which `CallLate` shows to be needed. The invariant: an end has
  one websocket at a time (`OneSocket`), and one that works and was announced holds its
  place in the bridge and was last told how the two ends stand (`Knows`, the only part
  that needs `~Late`). `CallInOrder`: `Spec => InOrder`, from `~Late` too. What is on
  the way from an end is, websocket by websocket, in the order of sending (`Queued`), so
  is what was relayed and is not handled (`Heard`), and what may still be relayed comes
  after it (`Speech`): a handler that still reads a replaced websocket relays nothing.
  `CallTypes` needs no condition.
* `RevisionSyncProofs!RevisionTypes`: `Spec => []TypeOK`, without the conditions of
  `StaysSynchronized`: overlapping handlers and group requests included (`Within`).
* `TopicSyncProofs`, for any channel, page size and times of creation. `TopicTypes` and
  `TopicWindow` (`WindowWidens`) hold whatever is torn, swept or fails. The invariant
  `Base` says how far an answer under way reaches: a page lies below the marker it was
  asked for and down to the floor that replaces the old one (`Window`). From `~Torn`:
  `TopicStoreCurrent` (`StoreCurrent`) and `TopicViewMatches` (`ViewMatches`). `Trust`
  adds that an entity of an answer was true when the answer was made (`AnswerOf`), that
  between marker and floor no topic is left (`Gap`), and that of what the device is about
  to trust every slot is stored as it is or still in the answer (`Pending`). `Shown` adds
  that the view holds the stored rows newer than its cut, that the cut is the position of
  a topic which the view holds if it is stored (`CutIs`), and that nothing is shown
  before the first batch of rows (`Begun`).
What is assumed: the modules' assumptions on their constants, and the conditions named
above, each of which a configuration or a paragraph of this file shows to be needed.
Only
model-checked: `RevokedForGood` and `TokensAgree`, which hold of undisturbed calls only,
and the liveness properties (`Established`, `TellsAll`, `ReturnsOrBlocked`,
`CatchesUp`, `Settles`, `EventuallyShown`, `Forwarded`, `HandlersGoOn`, `Connects`,
`EndsHear`), since fairness and ENABLED are out of the prover's reach. No module that is
proved about uses a RECURSIVE operator.

## Observations

Noticed while modelling, and part of the models where they say so.

* A delta's topics that are older than the view go to the store only; of two topics of
  one second the comparison takes the ids the other way round than the store's order
  (`focus.ts:195`). `ViewMatches` says what is shown all the same.
* `justAdded` is cleared before the request it is for, so a request that fails loses it
  (TopicSync). A device that stops between the two writes of a page keeps rows that were
  removed meanwhile until their channel goes (`focus.ts:167`).
* Closing a link drops what it has queued in Call, while the loop of `notify` does not look at
  `closed` again and hands on what is queued (`link.ts:158`): the user has hung up by then.
* Two FocusModules may be on one channel for a moment (`contact.ts:783`), which TopicSync
  leaves out. A focus on a contact's channel makes the contact loop wait for its answer
  (`contact.ts:688`); CardSync has it.
* resync stores the profile revision the entry had before the request
  (`contact.ts:402`): the profile is fetched once more with the next change.
* SetCardProfile saves the card row it read earlier, and with it an older
  `notified_channel` (`api_setCardProfile.go:82`), the same hazard as ContactOverlap's.
* A notification of a contact whose Save fails because a profile's transaction holds the
  database is only logged (`notify.go:270`): the contact is not told. Notify has it.
* A decline, or an end, that reaches the bridge while the other end is between two
  websockets is told to nobody; KeepCall answers 200 for calls that are gone, where
  `doc/api.oa3:3979` lists other answers. Call has both, which is why `EndsHear` speaks
  of ends that are on the bridge.
* SetTopicReadNotification saves a row and puts nothing in the channel: it goes out with the
  next start. markChannelUnread (`stream.ts:573`) reads a marker it has just found missing.
* A websocket whose session was looked up before a logout registers after ClearStatus
  (`api_removeAgentToken.go:49`); the hub's properties do not promise otherwise.

## Not modelled

* **Assets** (four queues of transcoding, the upload, the collector): files and external
  programs. Uploads and the collector exclude each other by `garbageSync` over a file and its
  row; the endless retry of a transcoding is listed as a hazard.
* **Login lockout, multi-factor codes, address blocking, the rate limiter**: counters read
  before a slow comparison (`authUtil.go:33`) or without a lock (`main.go:70`). Each is one
  read and one write; the hazards are listed, a model would show only that race.
* **Read receipts**: the handler compares the topic's row number with the public id it is
  given and answers 404 before it writes (`api_setTopicRead.go`). The revisions it would
  raise are in RevisionSync.
* **Profiles, settings, articles, groups, views, administration**: loops with a single
  record (a special case of RevisionSync and CardSync), stubs, or single rows.
* A callee who answers one call on two devices; WebRTC; push messages (a web push that fails
  ends the node, `api_setPushEvent.go:117`, which is a stop for Notify).
* Cryptography (signed messages are taken as unforgeable), SQL and files.

The map covers a small part of the repository's lines. Nine tenths of them are user
interfaces, their texts, three generations of clients on the same protocol, request
types and database access; the code with a protocol of its own is some five thousand
lines of Go handlers and SDK modules, and the models name the part of it that decides.

What would come next: `Assets` (the queues, and a result that cannot be stored) and `Login` (the lock
decided on counters read before) as small modules; `StoreCurrent` with `Torn` TRUE as
a theorem, of the topics that were not removed.
