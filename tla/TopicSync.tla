------------------------------ MODULE TopicSync ------------------------------
(***************************************************************************)
(* The topics (messages) of one channel: the slots the node keeps, the     *)
(* windows GetChannelTopics answers with, and the FocusModule of the SDK,  *)
(* which keeps a copy of the newest topics in the device's store and a     *)
(* view of them in memory.  A pass of sync() first widens the copy by a    *)
(* page of older topics (loadMore) and then brings it up to date with the  *)
(* changes since the revision it holds.  The two halves move the two       *)
(* numbers of storeView, revision and marker, on their own, and the device *)
(* may lose the connection or stop between any two steps.                  *)
(*                                                                         *)
(* Payloads, sealing and assets are left out.  The detail of a topic is    *)
(* the revision of the edit that made it.  One FocusModule at a time is on *)
(* the channel, and writes to the store do not fail.                       *)
(***************************************************************************)
EXTENDS Integers, Sequences, FiniteSets

CONSTANTS
    StartSlots,    \* slots the channel has at the start, all live
    MaxSlots,      \* bound on the slots of the channel
    MaxRevision,   \* bound on the channel's revision
    Batch,         \* BATCH_COUNT: topics in a page
    Created,       \* Created[s]: the second in which the topic of slot s was made
    Name,          \* Name[s]: the place of its topic id in the order of ids
    Torn,          \* may the device stop with a page or a row half stored?
    Sweeps         \* does the clean-up run?

ASSUME BoundsAssumption ==
    /\ StartSlots \in Nat /\ MaxSlots \in Nat \ {0} /\ MaxRevision \in Nat
    /\ StartSlots <= MaxSlots /\ StartSlots < MaxRevision
    /\ Batch \in Nat \ {0}
    /\ Torn \in BOOLEAN /\ Sweeps \in BOOLEAN

\* Slot ids grow with the time of creation; two topics may share a second.
ASSUME OrderAssumption ==
    /\ Created \in [1..MaxSlots -> Nat \ {0}]
    /\ Name \in [1..MaxSlots -> Nat]
    /\ \A s, t \in 1..MaxSlots : s < t => Created[s] <= Created[t] /\ Name[s] # Name[t]

VARIABLES
    slots,          \* topic slots of the channel, by slot id
    revision,       \* ChannelSlot.Revision
    topicRevision,  \* Channel.TopicRevision
    told,           \* the topic revision the stream last gave to the focus
    store,          \* rows of the device's channel_topic table, by slot
    storeView,      \* revision and marker, 0 for null; in the store and in memory
    floor,          \* history: from this slot on the copy was asked for
    mem,            \* topicEntries
    cacheView,      \* the oldest row taken from the store, <<>> for null
    localComplete, loadMore, nextRevision, justAdded, closing, connected,
    pc,             \* where sync() is: "closed", "idle", "head", "page", ...
    reply           \* the answer being applied

server == <<slots, revision, topicRevision>>
device == <<store, storeView, floor>>
flags  == <<localComplete, loadMore, justAdded, closing, connected>>
view   == <<mem, cacheView>>
vars   == <<server, told, device, flags, nextRevision, view, pc, reply>>

Slots == 1..Len(slots)
NoReply == [header |-> 0, asked |-> 0, inline |-> FALSE, from |-> 0,
            marker |-> 0, topics |-> {}]
Blank == [revision |-> 0, detail |-> 0]   \* defaultTopicItem

Least(S) == CHOOSE s \in S : \A t \in S : s <= t
Newest(S, n) == {s \in S : Cardinality({t \in S : t > s}) < n}
Put(f, s, row) == [t \in DOMAIN f \cup {s} |-> IF t = s THEN row ELSE f[t]]
Drop(f, s) == [t \in DOMAIN f \ {s} |-> f[t]]

\* The columns the store orders topics by; a row without detail has position 0.
Key(s, row) == <<IF row = Blank THEN 0 ELSE Created[s], Name[s]>>
Older(a, b) == a[1] < b[1] \/ (a[1] = b[1] /\ a[2] < b[2])

\* Is a topic of the delta taken to belong to the part shown in memory?
InView(s) ==
    IF cacheView = <<>> THEN TRUE
    ELSE \/ cacheView[1] < Created[s]
         \/ cacheView[1] = Created[s] /\ cacheView[2] >= Name[s]

\* The channel itself was made at revision 1, each of its topics at the next.
Init ==
    /\ slots = [s \in 1..StartSlots |-> [revision |-> s + 1, detail |-> s + 1,
                                         live |-> TRUE, swept |-> FALSE]]
    /\ revision = StartSlots + 1 /\ topicRevision = revision
    /\ told = topicRevision
    /\ store = [s \in {} |-> Blank]
    /\ storeView = [revision |-> 0, marker |-> 0]
    /\ floor = 1
    /\ mem = [s \in {} |-> Blank] /\ cacheView = <<>>
    /\ localComplete = FALSE /\ loadMore = FALSE /\ nextRevision = 0
    /\ justAdded = FALSE /\ closing = FALSE /\ connected = FALSE
    /\ pc = "closed" /\ reply = NoReply

-----------------------------------------------------------------------------
(* The node: every handler raises the channel's revision by one.           *)

Client == <<told, device, flags, nextRevision, view, pc, reply>>

Raise(topics) ==
    /\ revision < MaxRevision
    /\ revision' = revision + 1
    /\ topicRevision' = IF topics THEN revision + 1 ELSE topicRevision
    /\ UNCHANGED Client

AddTopic ==
    /\ Len(slots) < MaxSlots
    /\ slots' = Append(slots, [revision |-> revision + 1, detail |-> revision + 1,
                               live |-> TRUE, swept |-> FALSE])
    /\ Raise(TRUE)

SetTopicSubject(s) ==
    /\ slots[s].live
    /\ slots' = [slots EXCEPT ![s].revision = revision + 1, ![s].detail = revision + 1]
    /\ Raise(TRUE)

AddTopicTag(s) ==
    /\ slots[s].live
    /\ slots' = [slots EXCEPT ![s].revision = revision + 1]
    /\ Raise(TRUE)

RemoveTopic(s) ==
    /\ slots[s].live
    /\ slots' = [slots EXCEPT ![s].revision = revision + 1, ![s].live = FALSE]
    /\ Raise(TRUE)

SetTopicRead ==
    /\ \E s \in Slots : slots[s].live
    /\ UNCHANGED slots /\ Raise(TRUE)

SetChannelSubject == UNCHANGED slots /\ Raise(FALSE)

\* The clean-up removes old topics and raises no revision; the slots stay, for
\* it looks for their topic ids in the column of the slots' own ids.
CleanUp ==
    /\ Sweeps
    /\ \E s \in Slots :
        /\ \E t \in 1..s : slots[t].live
        /\ slots' = [t \in Slots |-> IF t <= s /\ slots[t].live
                                     THEN [slots[t] EXCEPT !.live = FALSE, !.swept = TRUE]
                                     ELSE slots[t]]
    /\ UNCHANGED <<revision, topicRevision, Client>>

-----------------------------------------------------------------------------
(* Calls of the app and of the stream.                                     *)

Kick == IF pc = "idle" THEN "head" ELSE pc

Open ==
    /\ pc = "closed"
    /\ pc' = "head"
    /\ nextRevision' = told
    /\ localComplete' = (storeView.revision = 0)
    /\ loadMore' = TRUE /\ justAdded' = FALSE /\ closing' = FALSE /\ connected' = TRUE
    /\ mem' = [s \in {} |-> Blank] /\ cacheView' = <<>>
    /\ UNCHANGED <<server, told, device, reply>>

SetRevision ==
    /\ told # topicRevision
    /\ told' = topicRevision
    /\ IF pc = "closed" THEN UNCHANGED <<nextRevision, pc>>
       ELSE nextRevision' = topicRevision /\ pc' = Kick
    /\ UNCHANGED <<server, device, flags, view, reply>>

\* The answer to one of the app's own additions, at any time after it.
Added ==
    /\ Len(slots) > StartSlots /\ pc # "closed" /\ ~justAdded
    /\ justAdded' = TRUE /\ pc' = Kick
    /\ UNCHANGED <<server, told, device, localComplete, loadMore, closing,
                   connected, nextRevision, view, reply>>

ViewMoreTopics ==
    /\ pc # "closed" /\ ~loadMore
    /\ loadMore' = TRUE /\ pc' = Kick
    /\ UNCHANGED <<server, told, device, localComplete, justAdded, closing,
                   connected, nextRevision, view, reply>>

Disconnect ==
    /\ pc # "closed" /\ connected
    /\ connected' = FALSE
    /\ UNCHANGED <<server, told, device, localComplete, loadMore, justAdded,
                   closing, nextRevision, view, pc, reply>>

Close ==
    /\ pc \notin {"closed", "idle"} /\ ~closing
    /\ closing' = TRUE
    /\ UNCHANGED <<server, told, device, localComplete, loadMore, justAdded,
                   connected, nextRevision, view, pc, reply>>

\* What is left of the module when it is gone: nothing in memory.
Gone ==
    /\ pc' = "closed" /\ reply' = NoReply
    /\ mem' = [s \in {} |-> Blank] /\ cacheView' = <<>> /\ nextRevision' = 0
    /\ localComplete' = FALSE /\ loadMore' = FALSE /\ justAdded' = FALSE
    /\ closing' = FALSE /\ connected' = FALSE

\* An idle module is closed at once, a busy one when it leaves the loop.
Closed ==
    /\ pc = "idle"
    /\ Gone /\ UNCHANGED <<server, told, device>>

-----------------------------------------------------------------------------
(* sync(): the first half of a pass.                                       *)

Work == (loadMore \/ nextRevision # 0 \/ justAdded) /\ ~closing /\ connected

LoadLocal ==
    LET rest == {s \in DOMAIN store :
                    cacheView = <<>> \/ Older(Key(s, store[s]), cacheView)}
        rows == {s \in rest : Cardinality({t \in rest :
                    Older(Key(s, store[s]), Key(t, store[t]))}) < Batch}
    IN  /\ pc = "head" /\ Work /\ loadMore /\ ~localComplete
        /\ mem' = [s \in DOMAIN mem \cup rows |-> IF s \in rows THEN store[s] ELSE mem[s]]
        /\ cacheView' = IF rows = {} THEN cacheView
                        ELSE CHOOSE k \in {Key(s, store[s]) : s \in rows} :
                                \A s \in rows : ~Older(Key(s, store[s]), k)
        /\ localComplete' = (rows = {})
        /\ loadMore' = (Cardinality(rows) <= Batch \div 2)
        /\ pc' = "mid"
        /\ UNCHANGED <<server, told, device, justAdded, closing, connected,
                       nextRevision, reply>>

\* Is there a page left to ask for?
MoreRemote == storeView.revision = 0 \/ storeView.marker # 0

LoadNothing ==
    /\ pc = "head" /\ Work
    /\ loadMore => localComplete /\ ~MoreRemote
    /\ loadMore' = FALSE /\ pc' = "mid"
    /\ UNCHANGED <<server, told, device, localComplete, justAdded, closing,
                   connected, nextRevision, view, reply>>

\* The node loads the channel's row, with its revision, before it looks for slots.
AskPage ==
    /\ pc = "head" /\ Work /\ loadMore /\ localComplete /\ MoreRemote
    /\ pc' = "page"
    /\ reply' = [NoReply EXCEPT !.header = revision]
    /\ UNCHANGED <<server, told, device, flags, nextRevision, view>>

Entity(s) == [id |-> s, live |-> slots[s].live, detail |-> slots[s].detail]

\* A page holds the newest slots below end; those without topic count, and are left out.
PageOf(end) ==
    LET ids  == Newest({s \in Slots : end = 0 \/ s < end}, Batch)
        live == {s \in ids : slots[s].live}
    IN  [reply EXCEPT !.inline = TRUE,
                      !.from = IF Cardinality(ids) < Batch THEN 1 ELSE Least(ids),
                      !.marker = IF live = {} THEN 0 ELSE Least(live),
                      !.topics = {Entity(s) : s \in live}]

ServePage ==
    /\ pc = "page"
    /\ reply' = PageOf(storeView.marker)
    /\ pc' = "applyPage"
    /\ UNCHANGED <<server, told, device, flags, nextRevision, view>>

\* The entity of the answer that is applied next; they come in the order of slots.
Next1 == CHOOSE e \in reply.topics : \A o \in reply.topics : e.id <= o.id

\* getTopicEntry and what follows: a row is only replaced by a newer detail.
Merge(s, row) ==
    LET has == IF s \in DOMAIN mem THEN mem[s] ELSE Blank
        old == IF s \in DOMAIN mem THEN store ELSE Put(store, s, Blank)
    IN  IF row.revision > has.revision
        THEN mem' = Put(mem, s, row) /\ store' = [old EXCEPT ![s] = row]
        ELSE mem' = Put(mem, s, has) /\ store' = old

ApplyPage ==
    /\ pc = "applyPage" /\ reply.topics # {}
    /\ Merge(Next1.id, [revision |-> Next1.detail, detail |-> Next1.detail])
    /\ reply' = [reply EXCEPT !.topics = @ \ {Next1}]
    /\ UNCHANGED <<server, told, storeView, floor, flags, nextRevision, cacheView, pc>>

\* Mutant: every page brings its own revision along.
FinishPageRaises ==
    /\ pc = "applyPage" /\ reply.topics = {}
    /\ storeView' = [revision |-> reply.header, marker |-> reply.marker]
    /\ floor' = reply.from
    /\ loadMore' = FALSE /\ reply' = NoReply /\ pc' = "mid"
    /\ UNCHANGED <<server, told, store, localComplete, justAdded, closing,
                   connected, nextRevision, view>>

\* A page moves the marker; the revision only when there was none.
FinishPage ==
    /\ pc = "applyPage" /\ reply.topics = {}
    /\ storeView' = [revision |-> IF storeView.revision # 0 THEN storeView.revision
                                  ELSE reply.header,
                     marker |-> reply.marker]
    /\ floor' = reply.from
    /\ loadMore' = FALSE /\ reply' = NoReply /\ pc' = "mid"
    /\ UNCHANGED <<server, told, store, localComplete, justAdded, closing,
                   connected, nextRevision, view>>

PageFails ==
    /\ pc = "page"
    /\ pc' = "mid" /\ reply' = NoReply
    /\ UNCHANGED <<server, told, device, flags, nextRevision, view>>

-----------------------------------------------------------------------------
(* sync(): the second half of a pass.                                      *)

Behind == justAdded \/ (nextRevision # 0 /\ storeView.revision # nextRevision)

EndPass(next, rev) == nextRevision' = (IF rev = next THEN 0 ELSE next) /\ pc' = "head"

AskDelta ==
    /\ pc = "mid" /\ Behind
    /\ justAdded' = FALSE
    /\ IF connected
       THEN /\ reply' = [NoReply EXCEPT !.header = revision, !.asked = nextRevision]
            /\ pc' = "delta" /\ UNCHANGED nextRevision
       ELSE EndPass(nextRevision, storeView.revision) /\ UNCHANGED reply
    /\ UNCHANGED <<server, told, device, localComplete, loadMore, closing,
                   connected, view>>

SkipDelta ==
    /\ pc = "mid" /\ ~Behind
    /\ EndPass(nextRevision, storeView.revision)
    /\ UNCHANGED <<server, told, device, flags, view, reply>>

\* Without a revision the same request is one for the newest page.
ServeDelta ==
    /\ pc = "delta"
    /\ reply' =
        IF storeView.revision = 0 THEN PageOf(0)
        ELSE [reply EXCEPT !.from = floor, !.marker = storeView.marker,
                !.topics = {Entity(s) : s \in {t \in Slots :
                    slots[t].revision > storeView.revision /\ t >= storeView.marker}}]
    /\ pc' = "applyDelta"
    /\ UNCHANGED <<server, told, device, flags, nextRevision, view>>

\* Mutant: a removed topic is taken out of the store and stays on the screen.
ApplyDeltaStays ==
    /\ pc = "applyDelta" /\ reply.topics # {}
    /\ IF Next1.live
       THEN /\ reply.inline \/ (slots[Next1.id].live /\ connected)
            /\ Merge(Next1.id, [revision |-> Next1.detail, detail |-> Next1.detail])
       ELSE store' = Drop(store, Next1.id) /\ UNCHANGED mem
    /\ reply' = [reply EXCEPT !.topics = @ \ {Next1}]
    /\ UNCHANGED <<server, told, storeView, floor, flags, nextRevision, cacheView, pc>>

\* Mutant: a topic of the delta is stored and not taken into the view.
ApplyDeltaUnseen ==
    /\ pc = "applyDelta" /\ reply.topics # {}
    /\ IF Next1.live
       THEN /\ reply.inline \/ (slots[Next1.id].live /\ connected)
            /\ store' = Put(store, Next1.id, [revision |-> Next1.detail, detail |-> Next1.detail])
            /\ UNCHANGED mem
       ELSE store' = Drop(store, Next1.id) /\ mem' = Drop(mem, Next1.id)
    /\ reply' = [reply EXCEPT !.topics = @ \ {Next1}]
    /\ UNCHANGED <<server, told, storeView, floor, flags, nextRevision, cacheView, pc>>

\* A topic of the delta comes without detail; it is asked for now, as it is now.
ApplyDelta ==
    /\ pc = "applyDelta" /\ reply.topics # {}
    /\ LET s == Next1.id
           row == [revision |-> Next1.detail,
                   detail |-> IF reply.inline THEN Next1.detail ELSE slots[s].detail]
       IN  IF ~Next1.live THEN mem' = Drop(mem, s) /\ store' = Drop(store, s)
           ELSE /\ reply.inline \/ (slots[s].live /\ connected)
                /\ IF InView(s) THEN Merge(s, row)
                   ELSE store' = Put(store, s, row) /\ UNCHANGED mem
    /\ reply' = [reply EXCEPT !.topics = @ \ {Next1}]
    /\ UNCHANGED <<server, told, storeView, floor, flags, nextRevision, cacheView, pc>>

\* Mutant: the announced revision is stored in place of the answer's.
FinishDeltaAsked ==
    /\ pc = "applyDelta" /\ reply.topics = {}
    /\ storeView' = [storeView EXCEPT !.revision = reply.asked]
    /\ floor' = reply.from
    /\ EndPass(IF nextRevision = reply.asked THEN 0 ELSE nextRevision, reply.asked)
    /\ reply' = NoReply
    /\ UNCHANGED <<server, told, store, flags, view>>

\* Mutant: a revision that came in during the request is forgotten with it.
FinishDeltaForgets ==
    /\ pc = "applyDelta" /\ reply.topics = {}
    /\ storeView' = [storeView EXCEPT !.revision = reply.header]
    /\ floor' = reply.from
    /\ EndPass(0, reply.header)
    /\ reply' = NoReply
    /\ UNCHANGED <<server, told, store, flags, view>>

\* A delta moves the revision; a revision announced meanwhile is kept.
FinishDelta ==
    /\ pc = "applyDelta" /\ reply.topics = {}
    /\ storeView' = [storeView EXCEPT !.revision = reply.header]
    /\ floor' = reply.from
    /\ EndPass(IF nextRevision = reply.asked THEN 0 ELSE nextRevision, reply.header)
    /\ reply' = NoReply
    /\ UNCHANGED <<server, told, store, flags, view>>

DeltaFails ==
    /\ \/ pc = "delta"
       \/ pc = "applyDelta" /\ reply.topics # {} /\ ~reply.inline /\ Next1.live
    /\ EndPass(nextRevision, storeView.revision)
    /\ reply' = NoReply
    /\ UNCHANGED <<server, told, device, flags, view>>

Leave ==
    /\ pc = "head" /\ ~Work
    /\ pc' = "idle"
    /\ UNCHANGED <<server, told, device, flags, nextRevision, view, reply>>

-----------------------------------------------------------------------------
(* The device stops; getTopicEntry may have stored a row without detail.   *)

Crash ==
    /\ pc # "closed"
    /\ reply.inline => Torn
    /\ \/ UNCHANGED store
       \/ /\ Torn
          /\ pc \in {"applyPage", "applyDelta"} /\ reply.topics # {}
          /\ Next1.live /\ Next1.id \notin DOMAIN mem
          /\ pc = "applyDelta" => InView(Next1.id)
          /\ store' = Put(store, Next1.id, Blank)
    /\ Gone /\ UNCHANGED <<server, told, storeView, floor>>

-----------------------------------------------------------------------------
Node ==
    \/ AddTopic
    \/ \E s \in Slots : SetTopicSubject(s) \/ AddTopicTag(s) \/ RemoveTopic(s)
    \/ SetTopicRead \/ SetChannelSubject \/ CleanUp

App == Open \/ ViewMoreTopics \/ Disconnect \/ Close \/ Crash

Pass ==
    \/ LoadLocal \/ LoadNothing \/ AskPage \/ ServePage \/ ApplyPage \/ FinishPage
    \/ AskDelta \/ SkipDelta \/ ServeDelta \/ ApplyDelta \/ FinishDelta
    \/ Leave

Next == Node \/ App \/ SetRevision \/ Added \/ Closed \/ Pass \/ PageFails \/ DeltaFails

Spec == Init /\ [][Next]_vars

\* A pass goes on by itself and the stream passes every revision on.  A request
\* is answered or fails, and not for ever the latter; nor does the request for
\* the detail of a topic, each topic on its own.
DetailOf(s) == ApplyDelta /\ Next1.id = s
Fair ==
    /\ WF_vars(Pass \/ PageFails \/ DeltaFails) /\ WF_vars(SetRevision)
    /\ SF_vars(ServePage) /\ SF_vars(ServeDelta)
    /\ \A s \in 1..MaxSlots : SF_vars(DetailOf(s))
FairSpec == Spec /\ Fair

-----------------------------------------------------------------------------
Rows == [revision : 0..MaxRevision, detail : 0..MaxRevision]
Revs == 0..MaxRevision

TypeOK ==
    /\ Len(slots) <= MaxSlots
    /\ \A s \in Slots : slots[s] \in [revision : Revs, detail : Revs,
                                      live : BOOLEAN, swept : BOOLEAN]
    /\ revision \in Revs /\ topicRevision \in Revs /\ told \in Revs
    /\ DOMAIN store \subseteq Slots /\ \A s \in DOMAIN store : store[s] \in Rows
    /\ DOMAIN mem \subseteq DOMAIN store /\ \A s \in DOMAIN mem : mem[s] \in Rows
    /\ storeView \in [revision : Revs, marker : 0..MaxSlots]
    /\ floor \in 1..MaxSlots
    /\ nextRevision \in Revs
    /\ \A f \in {localComplete, loadMore, justAdded, closing, connected} :
            f \in BOOLEAN
    /\ pc \in {"closed", "idle", "head", "page", "applyPage", "mid", "delta", "applyDelta"}

(* The device may trust its revision: of the part of the channel it asked   *)
(* for, every slot whose revision it holds is stored as it is, and a removed *)
(* topic is not stored, whatever was changed while the answers were under   *)
(* way and wherever the device stopped.  A topic the clean-up removed is     *)
(* not announced and stays (getChannelTopics windows, focus.ts storeView).   *)
StoreCurrent ==
    \A s \in Slots :
        (/\ storeView.revision # 0 /\ s >= floor
         /\ slots[s].revision <= storeView.revision /\ ~slots[s].swept)
        => IF slots[s].live
           THEN s \in DOMAIN store /\ store[s].detail = slots[s].detail
           ELSE s \notin DOMAIN store

\* Of the topics of one second, the one with the least id.
First(s) == \A t \in 1..MaxSlots : Created[t] = Created[s] => Name[s] <= Name[t]

(* Between two answers the listeners are shown what the store holds: a row   *)
(* newer than the cut of the view is shown, and a row shown is the stored    *)
(* one unless the delta took it to be older than the cut.  Of several topics *)
(* of one second this is true of the first only: the delta compares their    *)
(* ids the other way round than the store does (focus.ts sync), and takes    *)
(* the others to be older than a cut they are not older than.                *)
ViewMatches ==
    pc \in {"idle", "head", "mid"} =>
        \A s \in DOMAIN store : First(s) =>
            /\ s \in DOMAIN mem /\ InView(s) => mem[s] = store[s]
            /\ (IF cacheView = <<>> THEN localComplete ELSE cacheView[1] < Created[s])
               => s \in DOMAIN mem

(* The window of a channel only widens: the marker never moves to newer      *)
(* topics, and the revision never goes back, over any number of sessions.    *)
WindowWidens ==
    [][/\ storeView.revision <= storeView'.revision
       /\ storeView.revision # 0 => storeView'.marker <= storeView.marker
       /\ storeView.revision # 0 => floor' <= floor]_storeView

(* What the interface promises of viewMoreTopics: a channel with a revision  *)
(* and no marker has nothing older left to ask for.                          *)
NothingSkipped ==
    (storeView.revision # 0 /\ storeView.marker = 0) =>
        \A s \in Slots : (slots[s].live /\ slots[s].revision <= storeView.revision)
                         => s \in DOMAIN store

(* A focus that stays open on a channel it can reach draws level with what   *)
(* the stream announced and is level for good once the announcements end,    *)
(* although requests fail, topics disappear between a delta and the request  *)
(* for their detail, and older pages are asked for in between (sync).        *)
Settles ==
    <>[](connected /\ ~closing) => <>[](storeView.revision >= topicRevision)
=============================================================================
