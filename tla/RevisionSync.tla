----------------------------- MODULE RevisionSync -----------------------------
(***************************************************************************)
(* One revision counter orders every change of an account's channels.  A   *)
(* request handler of the node stamps what it changes with the next value  *)
(* and tells the account's websockets; the stream module of the SDK then   *)
(* asks for the channels whose revision is greater than the one it has     *)
(* reached, and moves to the revision it was told of.                      *)
(*                                                                         *)
(* A slot's content is the number of the commit that last wrote it: detail *)
(* for subject, members and groups, topics for the summary of the topics.  *)
(* Left out: sealing, the unread markers, the focused channel, the types   *)
(* filter of the request, a failing local store, and the end of a session. *)
(***************************************************************************)
EXTENDS Naturals, FiniteSets, SequencesExt

CONSTANTS
    Channels,     \* the ids of the channels the account will ever have
    Handlers,     \* the handlers that may change channels at one time
    Ops,          \* the requests they serve
    MaxCommits,   \* bound on the changes
    MaxFaults,    \* bound on lost requests, lost websockets and restarts
    Reorder,      \* do the revisions of a websocket overtake each other?
    CrashEarly    \* may the app stop while it stores its first list?

DetailOps == {"SetChannelSubject", "SetChannelCard", "ClearChannelCard", "LeaveChannel"}
TopicOps  == {"AddChannelTopic", "SetChannelTopicSubject", "SetChannelTopicConfirmed",
              "RemoveChannelTopic", "RemoveChannelTopicAsset", "AddChannelTopicTag",
              "SetChannelTopicTagSubject", "RemoveChannelTopicTag", "SetTopicRead",
              "UpdateAsset"}
QuietOps  == {"AddChannelTopicAsset", "AddChannelTopicBlock"}
GroupOps  == {"SetChannelGroup", "ClearChannelGroup"}
AllOps    == {"AddChannel", "RemoveChannel", "RemoveCard"}
                \cup DetailOps \cup TopicOps \cup QuietOps \cup GroupOps

ASSUME RevisionAssumption ==
    /\ Ops \subseteq AllOps
    /\ IsFiniteSet(Channels)
    /\ MaxCommits \in Nat /\ MaxFaults \in Nat
    /\ Reorder \in BOOLEAN /\ CrashEarly \in BOOLEAN

VARIABLES
    chanRev,    \* Account.ChannelRevision
    slots,      \* the account's rows of ChannelSlot, joined with Channel
    commits,    \* the number of transactions committed
    work,       \* what each handler has loaded
    ws,         \* the websocket of the client
    told,       \* the revision last written to this websocket (history)
    inbox,      \* revisions sent to the client and not yet given to the stream
    heard,      \* the revision last given to the stream (history)
    revision, next, hasSynced,   \* the fields of StreamModule, null as 0
    copy,       \* channelEntries, and the same in the local store
    pc,         \* where sync() is
    goal, full,                  \* its nextRev, and whether it asks for a full list
    listed, delta,               \* the slots the node has read, and its response
    faults

server == <<chanRev, slots, commits, work>>
link   == <<ws, told, inbox, heard>>
client == <<revision, next, hasSynced, copy, pc, goal, full, listed, delta>>
vars   == <<server, link, client, faults>>

Revisions == 0 .. MaxCommits + 1
Stamps    == 0 .. MaxCommits

\* A channel's slot; rev 0 until the channel is added, live while it has data.
Slots  == [rev : Revisions, live : BOOLEAN, drev : Revisions, trev : Revisions,
           detail : Stamps, topics : Stamps]
NoSlot == [rev |-> 0, live |-> FALSE, drev |-> 0, trev |-> 0, detail |-> 0, topics |-> 0]

\* What the client holds of a channel; drev and trev are 0 before the first fetch.
Copies == [has : BOOLEAN, drev : Revisions, trev : Revisions,
           detail : Stamps, topics : Stamps]
NoCopy == [has |-> FALSE, drev |-> 0, trev |-> 0, detail |-> 0, topics |-> 0]

Entries == [id : Channels, live : BOOLEAN, drev : Revisions, trev : Revisions,
            detail : Stamps, topics : Stamps]

Idle  == [at |-> "idle", rev |-> 0, ids |-> {}]
Works == [at : {"idle", "loaded", "committed"}, rev : Revisions, ids : SUBSET Channels]

Init ==
    /\ chanRev   = 1
    /\ slots     = [c \in Channels |-> NoSlot]
    /\ commits   = 0
    /\ work      = [h \in Handlers |-> Idle]
    /\ ws        = "down"
    /\ told      = 0
    /\ inbox     = <<>>
    /\ heard     = 0
    /\ revision  = 0
    /\ next      = 0
    /\ hasSynced = FALSE
    /\ copy      = [c \in Channels |-> NoCopy]
    /\ pc        = "loop"
    /\ goal      = 0
    /\ full      = FALSE
    /\ listed    = {}
    /\ delta     = <<>>
    /\ faults    = 0

-------------------------------------------------------------------------------
(* What each request makes of a slot s: n is the revision it assigns, k the  *)
(* content it writes.                                                        *)

NewDetail(s, n, k) == [s EXCEPT !.rev = n, !.drev = n, !.detail = k]
\* The revision of the slot is left alone.
NewTopicsOnly(s, n, k) == [s EXCEPT !.trev = n, !.topics = k]
NewTopics(s, n, k) == [s EXCEPT !.rev = n, !.trev = n, !.topics = k]

AddChannel(s, n, k) ==
    [rev |-> n, live |-> TRUE, drev |-> n, trev |-> n, detail |-> k, topics |-> k]
RemoveChannel(s, n, k) == [NoSlot EXCEPT !.rev = n]
LeaveChannel(s, n, k)      == NewDetail(s, n, k)
RemoveCard(s, n, k)        == NewDetail(s, n, k)
SetChannelSubject(s, n, k) == NewDetail(s, n, k)
SetChannelCard(s, n, k)    == NewDetail(s, n, k)
ClearChannelCard(s, n, k)  == NewDetail(s, n, k)

\* The groups belong to the detail, whose revision these two leave alone.
SetChannelGroup(s, n, k)   == [s EXCEPT !.rev = n, !.detail = k]
ClearChannelGroup(s, n, k) == [s EXCEPT !.rev = n, !.detail = k]

AddChannelTopic(s, n, k)           == NewTopics(s, n, k)
SetChannelTopicSubject(s, n, k)    == NewTopics(s, n, k)
SetChannelTopicConfirmed(s, n, k)  == NewTopics(s, n, k)
RemoveChannelTopic(s, n, k)        == NewTopics(s, n, k)
AddChannelTopicAsset(s, n, k)      == NewTopics(s, n, k)
AddChannelTopicBlock(s, n, k)      == NewTopics(s, n, k)
RemoveChannelTopicAsset(s, n, k)   == NewTopics(s, n, k)
AddChannelTopicTag(s, n, k)        == NewTopics(s, n, k)
SetChannelTopicTagSubject(s, n, k) == NewTopics(s, n, k)
RemoveChannelTopicTag(s, n, k)     == NewTopics(s, n, k)
SetTopicRead(s, n, k)              == NewTopics(s, n, k)
UpdateAsset(s, n, k)               == NewTopics(s, n, k)

After(op, s, n, k) ==
    CASE op = "AddChannel"                -> AddChannel(s, n, k)
      [] op = "RemoveChannel"             -> RemoveChannel(s, n, k)
      [] op = "LeaveChannel"              -> LeaveChannel(s, n, k)
      [] op = "RemoveCard"                -> RemoveCard(s, n, k)
      [] op = "SetChannelSubject"         -> SetChannelSubject(s, n, k)
      [] op = "SetChannelCard"            -> SetChannelCard(s, n, k)
      [] op = "ClearChannelCard"          -> ClearChannelCard(s, n, k)
      [] op = "SetChannelGroup"           -> SetChannelGroup(s, n, k)
      [] op = "ClearChannelGroup"         -> ClearChannelGroup(s, n, k)
      [] op = "AddChannelTopic"           -> AddChannelTopic(s, n, k)
      [] op = "SetChannelTopicSubject"    -> SetChannelTopicSubject(s, n, k)
      [] op = "SetChannelTopicConfirmed"  -> SetChannelTopicConfirmed(s, n, k)
      [] op = "RemoveChannelTopic"        -> RemoveChannelTopic(s, n, k)
      [] op = "AddChannelTopicAsset"      -> AddChannelTopicAsset(s, n, k)
      [] op = "AddChannelTopicBlock"      -> AddChannelTopicBlock(s, n, k)
      [] op = "RemoveChannelTopicAsset"   -> RemoveChannelTopicAsset(s, n, k)
      [] op = "AddChannelTopicTag"        -> AddChannelTopicTag(s, n, k)
      [] op = "SetChannelTopicTagSubject" -> SetChannelTopicTagSubject(s, n, k)
      [] op = "RemoveChannelTopicTag"     -> RemoveChannelTopicTag(s, n, k)
      [] op = "SetTopicRead"              -> SetTopicRead(s, n, k)
      [] op = "UpdateAsset"               -> UpdateAsset(s, n, k)

\* The slots a request changes: all the channels of a card for RemoveCard, a
\* new one for AddChannel, and one live channel for every other request.
Serves(op, ids) ==
    CASE op = "RemoveCard" -> \A c \in ids : slots[c].live
      [] op = "AddChannel" -> \E c \in Channels : ids = {c} /\ slots[c].rev = 0
      [] OTHER             -> \E c \in Channels : ids = {c} /\ slots[c].live

-------------------------------------------------------------------------------
(* The handlers of the node.                                                 *)

\* The account's row and the slots are read before the transaction begins.
\* Handlers that run at the same time serve different channels.
Load(h) ==
    /\ work[h].at = "idle"
    /\ commits + Cardinality({k \in Handlers : work[k].at = "loaded"}) < MaxCommits
    /\ \E ids \in SUBSET Channels :
        /\ \E op \in Ops : Serves(op, ids)
        /\ \A k \in Handlers : work[k].ids \cap ids = {}
        /\ work' = [work EXCEPT ![h] = [at |-> "loaded", rev |-> chanRev, ids |-> ids]]
    /\ UNCHANGED <<chanRev, slots, commits, link, client, faults>>

\* A request adds one to a revision that its update has already raised.
StampTwice(h, op) == IF op = "UpdateAsset" THEN chanRev + 1 ELSE work[h].rev + 2

\* The revision a request assigns; updateAsset reads the account inside its
\* transaction, every other request adds one to what it has loaded.
Stamp(h, op) == IF op = "UpdateAsset" THEN chanRev + 1 ELSE work[h].rev + 1

\* The transaction.  The requests that store an asset do not announce it.
Commit(h, op) ==
    LET n == Stamp(h, op) IN
    /\ work[h].at = "loaded"
    /\ Serves(op, work[h].ids)
    /\ commits' = commits + 1
    /\ chanRev' = n
    /\ slots' = [c \in Channels |->
                    IF c \in work[h].ids THEN After(op, slots[c], n, commits') ELSE slots[c]]
    /\ work' = [work EXCEPT ![h] =
                    IF op \in QuietOps THEN Idle ELSE [@ EXCEPT !.at = "committed", !.rev = n]]
    /\ UNCHANGED <<link, client, faults>>

\* SetStatus writes the revision to the websocket, if it is registered.
SetStatus(h) ==
    /\ work[h].at = "committed"
    /\ work' = [work EXCEPT ![h] = Idle]
    /\ IF ws = "up"
       THEN inbox' = Append(inbox, work[h].rev) /\ told' = work[h].rev
       ELSE UNCHANGED <<inbox, told>>
    /\ UNCHANGED <<chanRev, slots, commits, ws, heard, client, faults>>

-------------------------------------------------------------------------------
(* The websocket.                                                            *)

\* A new websocket is greeted with the revision in the database, and only
\* then registered for the revisions to come.
Greet ==
    /\ ws = "down"
    /\ ws' = "greeted"
    /\ inbox' = Append(inbox, chanRev)
    /\ told' = chanRev
    /\ UNCHANGED <<server, heard, client, faults>>

Register ==
    /\ ws = "greeted"
    /\ ws' = "up"
    /\ UNCHANGED <<server, told, inbox, heard, client, faults>>

\* What the websocket had not yet delivered is lost with it.
Drop ==
    /\ ws # "down" /\ faults < MaxFaults
    /\ ws' = "down"
    /\ told' = 0
    /\ \E k \in 0 .. Len(inbox) : inbox' = SubSeq(inbox, 1, k)
    /\ faults' = faults + 1
    /\ UNCHANGED <<server, heard, client>>

\* onRevision hands a revision to the stream after five other modules have
\* had theirs, so that one can overtake another.  Each of the five is waited for,
\* and the contacts may wait for a focus: nothing says that a revision's turn comes.
SetRevision(i) ==
    /\ i \in 1 .. Len(inbox) /\ (Reorder \/ i = 1)
    /\ next' = inbox[i] /\ heard' = inbox[i]
    /\ inbox' = RemoveAt(inbox, i)
    /\ pc' = IF pc = "idle" THEN "loop" ELSE pc
    /\ UNCHANGED <<server, ws, told, revision, hasSynced, copy, goal, full, listed, delta, faults>>

-------------------------------------------------------------------------------
(* StreamModule.sync().                                                      *)

\* The node lists the channels that have data only.
ListedLive(r) == {c \in Channels : slots[c].rev > r /\ slots[c].live}

\* The slots a request with revision r is about; without one (r = 0) the
\* response is full: it leaves out slots without data and holds the content.
Listed(r) == {c \in Channels : slots[c].rev > r}

EntryOf(c) ==
    [id |-> c, live |-> slots[c].live, drev |-> slots[c].drev, trev |-> slots[c].trev,
     detail |-> slots[c].detail, topics |-> slots[c].topics]

\* GetChannels reads the slots ...
ReadSlots ==
    /\ pc = "loop" /\ next # 0 /\ next # revision
    /\ pc' = "reading"
    /\ goal' = next
    /\ full' = (revision = 0)
    /\ listed' = Listed(revision)
    /\ UNCHANGED <<server, link, revision, next, hasSynced, copy, delta, faults>>

\* The orders in which a response may list the channels of S.
Orders(S) == {s \in [1 .. Cardinality(S) -> S] : \A c \in S : \E i \in DOMAIN s : s[i] = c}

\* ... and then the rows of the channels they refer to.
ReadRows ==
    /\ pc = "reading"
    /\ pc' = "apply"
    /\ listed' = {}
    /\ \E ids \in Orders({c \in listed : full => slots[c].live}) :
        delta' = [i \in DOMAIN ids |-> EntryOf(ids[i])]
    /\ UNCHANGED <<server, link, revision, next, hasSynced, copy, goal, full, faults>>

\* An entry without data: the channel is gone.
Forget ==
    /\ pc = "apply" /\ delta # <<>> /\ ~Head(delta).live
    /\ copy' = [copy EXCEPT ![Head(delta).id] = NoCopy]
    /\ delta' = Tail(delta)
    /\ UNCHANGED <<server, link, revision, next, hasSynced, pc, goal, full, listed, faults>>

\* The detail in the response, or as the node has it by now; the answer for
\* a channel removed meanwhile is null, and applying it throws.
NeedsDetail(e) == e.live /\ copy[e.id].drev # e.drev
ApplyDetail ==
    /\ pc = "apply" /\ delta # <<>> /\ NeedsDetail(Head(delta))
    /\ LET e == Head(delta) IN
        /\ full \/ slots[e.id].live
        /\ copy' = [copy EXCEPT ![e.id].has = TRUE, ![e.id].drev = e.drev,
                        ![e.id].detail = IF full THEN e.detail ELSE slots[e.id].detail]
    /\ UNCHANGED <<server, link, revision, next, hasSynced, pc, goal, full, listed, delta, faults>>

NeedsSummary(e) == e.live /\ copy[e.id].drev = e.drev /\ copy[e.id].trev # e.trev
ApplySummary ==
    /\ pc = "apply" /\ delta # <<>> /\ NeedsSummary(Head(delta))
    /\ LET e == Head(delta) IN
        /\ full \/ slots[e.id].live
        /\ copy' = [copy EXCEPT ![e.id].trev = e.trev,
                        ![e.id].topics = IF full THEN e.topics ELSE slots[e.id].topics]
    /\ UNCHANGED <<server, link, revision, next, hasSynced, pc, goal, full, listed, delta, faults>>

\* A focus on the channel is told last, and the loop waits until it has fetched
\* the topics.
EntryDone ==
    /\ pc = "apply" /\ delta # <<>>
    /\ LET e == Head(delta) IN e.live /\ ~NeedsDetail(e) /\ ~NeedsSummary(e)
    /\ delta' = Tail(delta)
    /\ pc' \in {"apply", "focus"}
    /\ UNCHANGED <<server, link, revision, next, hasSynced, copy, goal, full, listed, faults>>

\* The focus tries until it can: while its requests fail it does not return.
FocusReturns ==
    /\ pc = "focus"
    /\ pc' = "apply"
    /\ UNCHANGED <<server, link, revision, next, hasSynced, copy, goal, full, listed, delta, faults>>

\* The loop moves to the revision it was last told of.
ReachedLatest ==
    /\ pc = "apply" /\ delta = <<>>
    /\ pc' = "loop" /\ goal' = 0 /\ full' = FALSE
    /\ revision' = IF next = 0 THEN goal ELSE next
    /\ next' = 0
    /\ UNCHANGED <<server, link, hasSynced, copy, listed, delta, faults>>

\* The loop forgets a revision that came while it applied a response.
ReachedClears ==
    /\ pc = "apply" /\ delta = <<>>
    /\ pc' = "loop" /\ goal' = 0 /\ full' = FALSE
    /\ revision' = goal
    /\ next' = 0
    /\ UNCHANGED <<server, link, hasSynced, copy, listed, delta, faults>>

\* The whole response is applied: the client has reached the revision it was
\* told of before it sent the request.
Reached ==
    /\ pc = "apply" /\ delta = <<>>
    /\ pc' = "loop" /\ goal' = 0 /\ full' = FALSE
    /\ revision' = goal
    /\ next' = IF next = goal THEN 0 ELSE next
    /\ UNCHANGED <<server, link, hasSynced, copy, listed, delta, faults>>

\* The catch of the loop: the rest of the response is dropped and, after two
\* seconds, asked for again.
GiveUp == pc' = "loop" /\ goal' = 0 /\ full' = FALSE /\ listed' = {} /\ delta' = <<>>

RequestFails ==
    /\ \/ pc = "reading"
       \/ pc = "apply" /\ ~full /\ delta # <<>>
            /\ (NeedsDetail(Head(delta)) \/ NeedsSummary(Head(delta)))
    /\ faults < MaxFaults /\ faults' = faults + 1
    /\ GiveUp
    /\ UNCHANGED <<server, link, revision, next, hasSynced, copy>>

AnsweredNull ==
    /\ pc = "apply" /\ ~full /\ delta # <<>>
    /\ LET e == Head(delta) IN
        (NeedsDetail(e) \/ NeedsSummary(e)) /\ ~slots[e.id].live
    /\ GiveUp
    /\ UNCHANGED <<server, link, revision, next, hasSynced, copy, faults>>

\* The loop ends when nothing is asked for; after the first sync it stores a
\* marker, and is "syncing" until that is done.
EndLoop ==
    /\ pc = "loop" /\ (next = 0 \/ next = revision)
    /\ next' = 0
    /\ hasSynced' = (hasSynced \/ revision # 0)
    /\ pc' = IF hasSynced' # hasSynced THEN "marker" ELSE "idle"
    /\ UNCHANGED <<server, link, revision, copy, goal, full, listed, delta, faults>>

EndMarker ==
    /\ pc = "marker"
    /\ pc' = "idle"
    /\ UNCHANGED <<server, link, revision, next, hasSynced, copy, goal, full, listed, delta, faults>>

\* The app is stopped and started again on its local store: init() reads it
\* and calls sync().
Restart ==
    /\ faults < MaxFaults /\ faults' = faults + 1
    /\ CrashEarly \/ ~(pc \in {"apply", "focus"} /\ full)
    /\ ws' = "down" /\ told' = 0 /\ inbox' = <<>> /\ heard' = 0
    /\ next' = 0 /\ GiveUp
    /\ hasSynced' \in IF pc = "marker" THEN BOOLEAN ELSE {hasSynced}
    /\ UNCHANGED <<server, revision, copy>>

-------------------------------------------------------------------------------
Request == \E h \in Handlers : Load(h)
Finish(h) == (\E op \in Ops : Commit(h, op)) \/ SetStatus(h)
Deliver == \E i \in 1 .. Len(inbox) : SetRevision(i)
Sync    == ReadSlots \/ ReadRows \/ Forget \/ ApplyDetail \/ ApplySummary
             \/ EntryDone \/ Reached \/ AnsweredNull \/ EndLoop \/ EndMarker
Faulty  == Drop \/ RequestFails \/ Restart

Next == Request \/ (\E h \in Handlers : Finish(h)) \/ Greet \/ Register
          \/ Deliver \/ Sync \/ FocusReturns \/ Faulty

Spec == Init /\ [][Next]_vars

\* A loaded request returns, a client that has lost its websocket opens
\* another after a second, and the loop goes on when it does not wait for a focus.
\* Nobody has to send a request and nothing has to fail; a focus need not return,
\* and the modules that are told first need not let a revision through.
FairSpec ==
    /\ Spec
    /\ \A h \in Handlers : WF_vars(Finish(h))
    /\ WF_vars(Greet) /\ WF_vars(Register) /\ WF_vars(Sync)

-------------------------------------------------------------------------------
(* Properties.                                                               *)

\* Every variable stays within its range.
TypeOK ==
    /\ chanRev \in Revisions /\ slots \in [Channels -> Slots] /\ commits \in Stamps
    /\ work \in [Handlers -> Works]
    /\ ws \in {"down", "greeted", "up"} /\ told \in Revisions
    /\ inbox \in Seq(Revisions) /\ heard \in Revisions
    /\ revision \in Revisions /\ next \in Revisions /\ goal \in Revisions
    /\ hasSynced \in BOOLEAN /\ full \in BOOLEAN
    /\ copy \in [Channels -> Copies] /\ listed \subseteq Channels /\ delta \in Seq(Entries)
    /\ pc \in {"idle", "loop", "reading", "apply", "focus", "marker"}
    /\ faults \in 0 .. MaxFaults

\* The client holds the channel as the node has it.
Current(c) ==
    /\ copy[c].has
    /\ copy[c].drev = slots[c].drev /\ copy[c].detail = slots[c].detail
    /\ copy[c].trev = slots[c].trev /\ copy[c].topics = slots[c].topics

\* A client that has reached a revision has every live channel up to it as the
\* node has it: no change is skipped, whatever was committed while a response
\* was read and applied (stream.ts:124-226).
Synchronized ==
    \A c \in Channels : slots[c].live /\ slots[c].rev <= revision => Current(c)

\* A client that has reached the revision of a removal no longer holds the
\* channel (stream.ts:206-212).
DeletionSeen ==
    \A c \in Channels : slots[c].rev \in 1 .. revision /\ ~slots[c].live => ~copy[c].has

(* Why Synchronized holds while one handler runs at a time.                  *)

\* No revision anywhere is ahead of the counter, and a handler works with the
\* latest.
SlotsBounded ==
    \A c \in Channels :
        /\ slots[c].rev <= chanRev
        /\ slots[c].drev <= slots[c].rev /\ slots[c].trev <= slots[c].rev
        /\ slots[c].live => slots[c].drev # 0 /\ slots[c].trev # 0
HeldBounded ==
    /\ \A c \in Channels : copy[c].drev <= chanRev /\ copy[c].trev <= chanRev
    /\ \A i \in DOMAIN delta : delta[i].drev <= chanRev /\ delta[i].trev <= chanRev
ToldBounded ==
    /\ revision <= chanRev /\ next <= chanRev /\ goal <= chanRev
    /\ \A i \in DOMAIN inbox : inbox[i] <= chanRev
WorkBounded == \A h \in Handlers : work[h].at # "idle" => work[h].rev = chanRev

Bounded == SlotsBounded /\ HeldBounded /\ ToldBounded /\ WorkBounded

\* r, a copy or an entry, agrees with the live slot s wherever it has its
\* revisions.
Agrees(r, s) ==
    s.live => /\ r.drev = s.drev => r.detail = s.detail
              /\ r.trev = s.trev => r.topics = s.topics

Faithful ==
    /\ \A c \in Channels : copy[c].drev # 0 => copy[c].has
    /\ \A c \in Channels : Agrees(copy[c], slots[c])
    /\ \A i \in DOMAIN delta : delta[i].live => Agrees(delta[i], slots[delta[i].id])

\* While a response is read and applied, a channel up to goal is either as the
\* node has it or still to come, and what is to come is not yet reached.
Covered ==
    /\ pc = "reading" =>
        /\ \A c \in Channels : slots[c].live /\ slots[c].rev <= goal => Current(c) \/ c \in listed
        /\ \A c \in listed : slots[c].rev > revision
    /\ pc \in {"apply", "focus"} =>
        /\ \A c \in Channels : slots[c].live /\ slots[c].rev <= goal =>
            Current(c) \/ \E i \in DOMAIN delta : delta[i].id = c
        /\ \A i \in DOMAIN delta :
            /\ slots[delta[i].id].rev > revision
            /\ slots[delta[i].id].rev <= goal => delta[i] = EntryOf(delta[i].id)

SyncInv == Bounded /\ Faithful /\ Covered /\ Synchronized

\* A revision came while the marker of the first sync was being stored: the
\* call of sync() returned at once and nobody looks at the revision any more.
Stranded == pc = "idle" /\ next # 0

\* The stream was last given another revision than the websocket was: the modules
\* that are told first keep the last one back, or an older one came after it.
Unheard == heard # told

\* A revision was committed between the greeting and the registration of the
\* websocket, or by a request that does not announce it.
Untold == told < chanRev

Converged ==
    \A c \in Channels : IF slots[c].live THEN Current(c) ELSE ~copy[c].has

\* When the changes stop, the client ends up with the node's channels and keeps
\* them, however often it was told, interrupted and restarted.  There are four ways
\* to stay behind, and no other (stream.ts:124-259): it was never told of the last
\* revision; the last one it was told of is not the last its stream was given
\* (session.ts:82-89); it is stranded; or a focus keeps the loop waiting for good.
CatchesUp ==
    []<>(pc # "focus") => <>[](Converged \/ Untold \/ Unheard \/ Stranded)

===============================================================================
