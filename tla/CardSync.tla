------------------------------ MODULE CardSync ------------------------------
(***************************************************************************)
(* How a change in a contact's channel reaches a device.  The contact's    *)
(* node raises the channel and queues a notification; the notification     *)
(* leaves a number on the card row of the device's own node, whose card    *)
(* revision rises; the stream announces that; and the sync loop of the     *)
(* SDK's ContactModule asks its node for the cards that changed and the    *)
(* contact's node for the channels.  When the contact's node does not      *)
(* answer, the number is kept as an offsync marker, and nothing is tried   *)
(* for that card until the user asks for it (resyncCard).                  *)
(*                                                                         *)
(* Every contact has one channel, with the topic summary for its content,  *)
(* and starts in step.  A node serves one request of an account at a time  *)
(* and a query is one step (see RevisionSync for what follows otherwise).  *)
(* The notification queue is what Notify promises: a saved notification is *)
(* sent, maybe twice, in some order, and given up when it does not arrive. *)
(* Profiles follow the same path with one record; articles are a stub.     *)
(***************************************************************************)
EXTENDS Integers, FiniteSetsExt

CONSTANTS
    Cards,         \* the device's contacts, by card id
    Focused,       \* the cards whose channel is the one in focus: one or none
    MaxChannel,    \* bound on the revisions of the contacts' channels
    MaxCard,       \* bound on the card revision of the own account
    MaxStops       \* how often the device may stop

ASSUME BoundsAssumption ==
    /\ Focused \subseteq Cards
    /\ MaxChannel \in Nat \ {0} /\ MaxCard \in Nat \ {0} /\ MaxStops \in Nat

VARIABLES
    slot,          \* the contact's channel slot: revision, topic revision, shared?
    pending,       \* saved notifications: card and channel revision
    row,           \* card slots of the own node: revision, notified_channel, live?
    cardRevision,  \* Account.CardRevision of the own account
    heard,         \* the revision last announced to this session of the device
    revision,      \* ContactModule.revision
    known,         \* cards the device has an entry for
    channelRevision, \* the entries' channelRevision
    marker,        \* offsync_channel_card, 0 for none
    copy,          \* the channel entry: topic revision and the content that came for it
    resync,        \* calls of resyncCard: "no", "asked", or "tried" since
    nextRevision,
    pc,            \* where sync() is
    todo,          \* cards of the snapshot still to be looked at for a resync
    delta,         \* cards of the response still to be applied, with notifiedChannel
    nextRev,       \* the revision the response was asked for
    cur,           \* the card being synchronised: card, goal and the entity found
    stops

contacts == <<slot, pending>>
own      == <<row, cardRevision>>
entries  == <<known, channelRevision, marker, copy>>
loop     == <<todo, delta, nextRev, cur>>
vars == <<contacts, own, heard, revision, entries, resync, nextRevision, pc, loop, stops>>

NoCopy == [revision |-> 0, content |-> 0]
NoEntity == [revision |-> 0, shared |-> FALSE]

Init ==
    /\ slot = [c \in Cards |-> [revision |-> 1, topic |-> 1, shared |-> TRUE]]
    /\ pending = {}
    /\ row = [c \in Cards |-> [revision |-> 1, notified |-> 1, live |-> TRUE]]
    /\ cardRevision = 1 /\ heard = 1 /\ revision = 1
    /\ known = Cards
    /\ channelRevision = [c \in Cards |-> 1]
    /\ marker = [c \in Cards |-> 0]
    /\ copy = [c \in Cards |-> [revision |-> 1, content |-> 1]]
    /\ resync = [c \in Cards |-> "no"]
    /\ nextRevision = 0 /\ pc = "idle"
    /\ todo = {} /\ delta = {} /\ nextRev = 0
    /\ cur = {} /\ stops = 0

-----------------------------------------------------------------------------
(* The contact's node.                                                     *)

Device == <<heard, revision, entries, resync, nextRevision, pc, loop, stops>>

\* One count serves all contacts: what else their accounts do is in its steps.
Raised == 1 + Max({slot[c].revision : c \in Cards})

\* The contact is notified after the commit; a node that stops in between loses
\* the notification like one that is not received.
Notify(c) == pending' = pending \cup {[card |-> c, revision |-> Raised]}

AddTopic(c) ==
    /\ slot[c].shared /\ Raised <= MaxChannel
    /\ slot' = [slot EXCEPT ![c].revision = Raised, ![c].topic = Raised]
    /\ Notify(c) /\ UNCHANGED <<own, Device>>

SetChannelCard(c) ==
    /\ ~slot[c].shared /\ Raised <= MaxChannel
    /\ slot' = [slot EXCEPT ![c].revision = Raised, ![c].shared = TRUE]
    /\ Notify(c) /\ UNCHANGED <<own, Device>>

ClearChannelCard(c) ==
    /\ slot[c].shared /\ Raised <= MaxChannel
    /\ slot' = [slot EXCEPT ![c].revision = Raised, ![c].shared = FALSE]
    /\ Notify(c) /\ UNCHANGED <<own, Device>>

-----------------------------------------------------------------------------
(* The own node.                                                           *)

\* The row of a notification may outlive a delivery (a stop before the delete).
\* One step: the card's account is loaded before the transaction, so that two
\* overlapping notifications could stamp one card revision.
NotifyChannelRevision(n) ==
    /\ cardRevision < MaxCard
    /\ pending' \in {pending, pending \ {n}}
    /\ IF row[n.card].live
       THEN /\ row' = [row EXCEPT ![n.card].notified = n.revision,
                                  ![n.card].revision = cardRevision + 1]
            /\ cardRevision' = cardRevision + 1
       ELSE UNCHANGED own
    /\ UNCHANGED <<slot, Device>>

\* Sent and not received: the row is deleted all the same.
NotReceived(n) ==
    /\ pending' = pending \ {n}
    /\ UNCHANGED <<slot, own, Device>>

\* Another device of the account removes the contact.
RemoveCard(c) ==
    /\ row[c].live /\ cardRevision < MaxCard
    /\ row' = [row EXCEPT ![c].revision = cardRevision + 1, ![c].live = FALSE]
    /\ cardRevision' = cardRevision + 1
    /\ UNCHANGED <<contacts, Device>>

-----------------------------------------------------------------------------
(* Calls of the session and the app.                                       *)

Kick == IF pc = "idle" THEN "head" ELSE pc

SetRevision ==
    /\ heard # cardRevision
    /\ heard' = cardRevision /\ nextRevision' = cardRevision
    /\ pc' = Kick
    /\ UNCHANGED <<contacts, own, revision, entries, resync, loop, stops>>

\* A card that is in the set already stays there: the call changes nothing.
ResyncCard(c) ==
    /\ marker[c] # 0 /\ resync[c] = "no"
    /\ resync' = [resync EXCEPT ![c] = "asked"]
    /\ pc' = Kick
    /\ UNCHANGED <<contacts, own, heard, revision, entries, nextRevision, loop, stops>>

\* The device stops; what is in the store is what was in memory.
Stop ==
    /\ stops < MaxStops /\ pc # "idle"
    /\ stops' = stops + 1
    /\ heard' = 0 /\ nextRevision' = 0 /\ resync' = [c \in Cards |-> "no"]
    /\ pc' = "idle" /\ todo' = {} /\ delta' = {} /\ nextRev' = 0 /\ cur' = {}
    /\ UNCHANGED <<contacts, own, revision, entries>>

-----------------------------------------------------------------------------
(* sync(): the cards somebody asked for.                                   *)

Node == <<contacts, own, heard, stops>>

\* Mutant: the snapshot holds every contact there ever was.
StartResyncAll ==
    /\ pc = "head" /\ \E c \in Cards : resync[c] # "no"
    /\ pc' = "resync" /\ todo' = Cards
    /\ UNCHANGED <<Node, revision, entries, resync, nextRevision, delta, nextRev, cur>>

StartResync ==
    /\ pc = "head" /\ \E c \in Cards : resync[c] # "no"
    /\ pc' = "resync" /\ todo' = known
    /\ UNCHANGED <<Node, revision, entries, resync, nextRevision, delta, nextRev, cur>>

NoResync ==
    /\ pc = "head" /\ \A c \in Cards : resync[c] = "no"
    /\ pc' = IF nextRevision # 0 THEN "cards" ELSE "idle"
    /\ UNCHANGED <<Node, revision, entries, resync, nextRevision, loop>>

Sync(c, goal, again) ==
    cur' = {[card |-> c, goal |-> goal, again |-> again, found |-> FALSE, entity |-> NoEntity]}

ResyncNext(c) ==
    /\ pc = "resync" /\ c \in todo
    /\ todo' = todo \ {c}
    /\ IF resync[c] # "no"
       THEN /\ resync' = [resync EXCEPT ![c] = "tried"]
            /\ IF marker[c] # 0 THEN Sync(c, marker[c], TRUE) /\ pc' = "fetch"
               ELSE UNCHANGED <<cur, pc>>
       ELSE UNCHANGED <<resync, cur, pc>>
    /\ UNCHANGED <<Node, revision, entries, nextRevision, delta, nextRev>>

ClearResync ==
    /\ pc = "resync" /\ todo = {}
    /\ resync' = [c \in Cards |-> "no"]
    /\ pc' = "cards"
    /\ UNCHANGED <<Node, revision, entries, nextRevision, loop>>

-----------------------------------------------------------------------------
(* sync(): the cards that changed.                                         *)

EndPass(next, rev) == nextRevision' = (IF rev = next THEN 0 ELSE next) /\ pc' = "head"

GetCards ==
    /\ pc = "cards" /\ nextRevision # 0 /\ revision # nextRevision
    /\ delta' = {[card |-> c, live |-> row[c].live, notified |-> row[c].notified] :
                    c \in {d \in Cards : row[d].revision > revision}}
    /\ nextRev' = nextRevision
    /\ pc' = "apply"
    /\ UNCHANGED <<Node, revision, entries, resync, nextRevision, todo, cur>>

NoCards ==
    /\ pc = "cards"
    /\ nextRevision = 0 \/ revision = nextRevision
    /\ EndPass(nextRevision, revision)
    /\ UNCHANGED <<Node, revision, entries, resync, loop>>

GetCardsFails ==
    /\ pc = "cards" /\ nextRevision # 0 /\ revision # nextRevision
    /\ EndPass(nextRevision, revision)
    /\ UNCHANGED <<Node, revision, entries, resync, loop>>

ApplyRemoved(e) ==
    /\ pc = "apply" /\ e \in delta /\ ~e.live
    /\ delta' = delta \ {e}
    /\ known' = known \ {e.card}
    /\ channelRevision' = [channelRevision EXCEPT ![e.card] = 0]
    /\ copy' = [copy EXCEPT ![e.card] = NoCopy]
    /\ marker' = [marker EXCEPT ![e.card] = 0]
    /\ UNCHANGED <<Node, revision, resync, nextRevision, pc, todo, nextRev, cur>>

\* With a marker nothing is tried, only the marker is brought up to date.
ApplyCard(e) ==
    /\ pc = "apply" /\ e \in delta /\ e.live
    /\ delta' = delta \ {e}
    /\ IF e.notified = channelRevision[e.card] THEN UNCHANGED <<marker, cur, pc>>
       ELSE IF marker[e.card] # 0
       THEN marker' = [marker EXCEPT ![e.card] = e.notified] /\ UNCHANGED <<cur, pc>>
       ELSE Sync(e.card, e.notified, FALSE) /\ pc' = "fetch" /\ UNCHANGED marker
    /\ UNCHANGED <<Node, revision, known, channelRevision, copy, resync, nextRevision, todo, nextRev>>

\* Mutant: the latest announced revision is stored in place of the fetched one.
FinishCardsAhead ==
    /\ pc = "apply" /\ delta = {}
    /\ revision' = nextRevision
    /\ nextRevision' = 0 /\ pc' = "head"
    /\ nextRev' = 0
    /\ UNCHANGED <<Node, entries, resync, todo, delta, cur>>

\* Mutant: a revision that came in during the pass is forgotten with it.
FinishCardsForgets ==
    /\ pc = "apply" /\ delta = {}
    /\ revision' = nextRev
    /\ EndPass(0, nextRev)
    /\ nextRev' = 0
    /\ UNCHANGED <<Node, entries, resync, todo, delta, cur>>

FinishCards ==
    /\ pc = "apply" /\ delta = {}
    /\ revision' = nextRev
    /\ EndPass(IF nextRevision = nextRev THEN 0 ELSE nextRevision, nextRev)
    /\ nextRev' = 0
    /\ UNCHANGED <<Node, entries, resync, todo, delta, cur>>

-----------------------------------------------------------------------------
(* syncChannels() and what its two callers do with its result.             *)

Back(k) == IF k.again THEN "resync" ELSE "apply"

\* The contact's node answers with the slots past the entry's revision.
GetContactChannels(k) ==
    /\ pc = "fetch" /\ k \in cur
    /\ LET s == slot[k.card] IN
        cur' = {[k EXCEPT !.found = s.revision > channelRevision[k.card],
                          !.entity = IF s.revision > channelRevision[k.card]
                                     THEN [revision |-> s.topic, shared |-> s.shared]
                                     ELSE NoEntity]}
    /\ pc' = "channel"
    /\ UNCHANGED <<Node, revision, entries, resync, nextRevision, todo, delta, nextRev>>

\* The summary is asked for now and is the one of now.
ApplyChannel(k) ==
    /\ pc = "channel" /\ k \in cur /\ k.found
    /\ k.entity.shared => slot[k.card].shared
    /\ LET new == k.entity.shared /\ k.entity.revision # copy[k.card].revision IN
        /\ copy' = [copy EXCEPT ![k.card] =
                IF ~k.entity.shared THEN NoCopy
                ELSE IF new THEN [revision |-> k.entity.revision, content |-> slot[k.card].topic]
                ELSE @]
        /\ pc' = IF new /\ k.card \in Focused THEN "focus" ELSE "channel"
    /\ cur' = {[k EXCEPT !.found = FALSE, !.entity = NoEntity]}
    /\ UNCHANGED <<Node, revision, known, channelRevision, marker, resync, nextRevision,
                   todo, delta, nextRev>>

\* The focus brings its topics up to date before it lets go; it tries until it can.
FocusReturns ==
    /\ pc = "focus" /\ pc' = "channel"
    /\ UNCHANGED <<Node, revision, entries, resync, nextRevision, loop>>

StoreRevision(k) ==
    /\ pc = "channel" /\ k \in cur /\ ~k.found
    /\ channelRevision' = [channelRevision EXCEPT ![k.card] = k.goal]
    /\ IF k.again THEN pc' = "clear" /\ UNCHANGED cur ELSE pc' = "apply" /\ cur' = {}
    /\ UNCHANGED <<Node, revision, known, marker, copy, resync, nextRevision, todo, delta, nextRev>>

ClearMarker(k) ==
    /\ pc = "clear" /\ k \in cur
    /\ marker' = [marker EXCEPT ![k.card] = 0]
    /\ pc' = "resync" /\ cur' = {}
    /\ UNCHANGED <<Node, revision, known, channelRevision, copy, resync, nextRevision,
                   todo, delta, nextRev>>

\* Mutant: a card whose contact did not answer is given the notified revision.
ContactFailsStores(k) ==
    /\ k \in cur
    /\ pc = "fetch" \/ (pc = "channel" /\ k.found /\ k.entity.shared)
    /\ marker' = IF k.again THEN marker ELSE [marker EXCEPT ![k.card] = k.goal]
    /\ channelRevision' = [channelRevision EXCEPT ![k.card] = k.goal]
    /\ pc' = Back(k) /\ cur' = {}
    /\ UNCHANGED <<Node, revision, known, copy, resync, nextRevision, todo, delta, nextRev>>

\* Mutant: the failure leaves no marker.
ContactFailsSilently(k) ==
    /\ k \in cur
    /\ pc = "fetch" \/ (pc = "channel" /\ k.found /\ k.entity.shared)
    /\ pc' = Back(k) /\ cur' = {}
    /\ UNCHANGED <<Node, revision, known, channelRevision, marker, copy, resync, nextRevision,
                   todo, delta, nextRev>>

\* A request to the contact's node fails or is refused.
ContactFails(k) ==
    /\ k \in cur
    /\ pc = "fetch" \/ (pc = "channel" /\ k.found /\ k.entity.shared)
    /\ marker' = IF k.again THEN marker ELSE [marker EXCEPT ![k.card] = k.goal]
    /\ pc' = Back(k) /\ cur' = {}
    /\ UNCHANGED <<Node, revision, known, channelRevision, copy, resync, nextRevision,
                   todo, delta, nextRev>>

-----------------------------------------------------------------------------
Contact == \E c \in Cards : AddTopic(c) \/ SetChannelCard(c) \/ ClearChannelCard(c)
Queue   == \E n \in pending : NotifyChannelRevision(n) \/ NotReceived(n)
App     == Stop \/ \E c \in Cards : ResyncCard(c) \/ RemoveCard(c)

Sends ==
    \/ StartResync \/ NoResync \/ ClearResync
    \/ NoCards \/ GetCardsFails \/ FinishCards
    \/ \E c \in Cards : ResyncNext(c)
    \/ \E e \in delta : ApplyRemoved(e) \/ ApplyCard(e)
    \/ \E k \in cur : GetContactChannels(k) \/ ApplyChannel(k) \/ StoreRevision(k)
                      \/ ClearMarker(k) \/ ContactFails(k)

Next == Contact \/ Queue \/ App \/ SetRevision \/ GetCards \/ FocusReturns \/ Sends

Spec == Init /\ [][Next]_vars

\* The queue is worked off, announcements arrive, and the loop goes on: a request
\* to the own node is answered now and then, one to a contact's node may fail for
\* ever.  The focus need not return and the user need not ask for anything.
FairSpec ==
    /\ Spec
    /\ WF_vars(Queue) /\ WF_vars(SetRevision) /\ WF_vars(Sends \/ GetCards) /\ SF_vars(GetCards)

-----------------------------------------------------------------------------
Revs == 0..MaxChannel

Entities == [revision : Revs, shared : BOOLEAN]

TypeOK ==
    /\ slot \in [Cards -> [revision : Revs, topic : Revs, shared : BOOLEAN]]
    /\ pending \subseteq [card : Cards, revision : Revs]
    /\ row \in [Cards -> [revision : 0..MaxCard, notified : Revs, live : BOOLEAN]]
    /\ {cardRevision, heard, revision, nextRevision, nextRev} \subseteq 0..MaxCard
    /\ known \subseteq Cards /\ todo \subseteq known
    /\ channelRevision \in [Cards -> Revs] /\ marker \in [Cards -> Revs]
    /\ copy \in [Cards -> [revision : Revs, content : Revs]]
    /\ resync \in [Cards -> {"no", "asked", "tried"}]
    /\ pc \in {"idle", "head", "resync", "cards", "apply", "fetch", "channel", "focus", "clear"}
    /\ delta \subseteq [card : Cards, live : BOOLEAN, notified : Revs]
    /\ cur \subseteq [card : known, goal : Revs, again : BOOLEAN, found : BOOLEAN,
                     entity : Entities]
    /\ (cur # {}) = (pc \in {"fetch", "channel", "focus", "clear"})
    /\ stops \in 0..MaxStops

\* The copy is what the contact has: the summary as it is now, or nothing.
Matches(c) ==
    IF slot[c].shared THEN copy[c].content = slot[c].topic ELSE copy[c] = NoCopy

(* The device may trust the channel revision of an entry: whatever the        *)
(* contact's channel went through up to that revision is in its copy, and a   *)
(* channel that is no longer shared is not, although the summary is asked for *)
(* later than the list and any request may fail (syncChannels).               *)
CopyCurrent == \A c \in known : slot[c].revision <= channelRevision[c] => Matches(c)

(* What the user sees of a card: an offsync marker, or the channel as it is,  *)
(* as far as the own node was told of it.                                     *)
Shown(c) ==
    \/ ~row[c].live \/ row[c].notified # slot[c].revision
    \/ marker[c] # 0
    \/ Matches(c)

Handled(c) == IF row[c].live THEN c \in known /\ Shown(c) ELSE c \notin known

(* Nothing the own node announced is forgotten: of every card whose row the   *)
(* device has been given, a removed one is gone, and the contact's latest     *)
(* change, once notified, is shown or has left an offsync marker, through     *)
(* failures, removals, resyncs, notifications out of order and stops between  *)
(* any two writes (contact.ts sync).                                          *)
NothingForgotten == \A c \in Cards : row[c].revision <= revision => Handled(c)

-----------------------------------------------------------------------------
(* What the loop relies on between its requests, by parts.                    *)

\* Nobody is ahead of what it was told of, and a summary is not older than the
\* list it was asked for with.
Bounded ==
    /\ \A c \in Cards :
        /\ 1 <= row[c].notified /\ row[c].notified <= slot[c].revision
        /\ marker[c] <= slot[c].revision /\ channelRevision[c] <= slot[c].revision
        /\ 1 <= row[c].revision /\ row[c].revision <= cardRevision
        /\ 1 <= slot[c].topic /\ slot[c].topic <= slot[c].revision
        /\ copy[c].revision <= copy[c].content /\ copy[c].content <= slot[c].topic
    /\ \A n \in pending : 1 <= n.revision /\ n.revision <= slot[n.card].revision
    /\ revision <= cardRevision /\ nextRevision <= cardRevision /\ nextRev <= cardRevision

\* The answer and the snapshot are there only while they are worked on, one card
\* at a time.
Phases ==
    /\ \A k, l \in cur : k = l
    /\ pc \in {"idle", "head", "resync", "cards"} => delta = {} /\ nextRev = 0
    /\ pc \in {"idle", "head", "cards", "apply"} => todo = {}
    /\ \A k \in cur : IF k.again THEN delta = {} /\ nextRev = 0 ELSE todo = {}
    /\ \A k \in cur : (pc = "clear" => k.again) /\ (pc # "channel" => ~k.found)

\* A row of the answer is about a card the device has not been given yet, and a
\* removed card does not come back.
Deltas ==
    /\ \A c \in Cards : row[c].live => c \in known
    /\ \A e, f \in delta : e.card = f.card => e = f
    /\ \A e \in delta :
        /\ revision < row[e.card].revision
        /\ IF e.live THEN e.card \in known ELSE ~row[e.card].live
        /\ 1 <= e.notified /\ e.notified <= slot[e.card].revision

\* The device owes its user the channel as it is if the latest change is no
\* later than what it synchronises for, or than what its node announced.
Owed(k) ==
    \/ slot[k.card].revision <= k.goal
    \/ /\ row[k.card].notified = slot[k.card].revision
       /\ row[k.card].revision <= revision \/ row[k.card].revision <= nextRev

\* The card being synchronised: from the answer of the contact's node on, the
\* device holds what it owes, or has it in the answer.
Cursor ==
    \A k \in cur :
        /\ 1 <= k.goal /\ k.goal <= slot[k.card].revision
        /\ IF k.again THEN marker[k.card] # 0 ELSE revision < row[k.card].revision
        /\ k.found => channelRevision[k.card] < slot[k.card].revision
        /\ k.entity.revision <= slot[k.card].topic
        /\ (pc # "fetch" /\ Owed(k)) =>
            IF k.found
            THEN /\ k.entity.revision = slot[k.card].topic
                 /\ k.entity.shared = slot[k.card].shared
            ELSE Matches(k.card)

\* Every card up to the revision that was asked for was handled, or is in the
\* rest of the answer, or is being synchronised.
Announced ==
    \A c \in Cards : row[c].revision <= nextRev =>
        \/ Handled(c)
        \/ \E e \in delta : /\ e.card = c /\ e.live = row[c].live
                            /\ e.notified = row[c].notified
        \/ \E k \in cur : /\ k.card = c /\ ~k.again /\ row[c].live
                          /\ k.goal = row[c].notified

(* The invariant of the loop: wherever it waits for an answer, and whatever   *)
(* happens to the rows and channels meanwhile, every card it has asked for is *)
(* handled, in the answer, or at hand, and no two of its notes disagree.      *)
LoopInv == Bounded /\ Phases /\ Deltas /\ Cursor /\ Announced

(* From the contact's commit to the screen: when a change was announced to    *)
(* the own node, the device ends up with it or with an offsync marker to show *)
(* for it, unless the focus keeps the loop waiting.                           *)
EventuallyShown == []<>(pc # "focus") => <>[](\A c \in Cards : Shown(c))

(* What the interface promises of resyncCard: a call is followed by an        *)
(* attempt, or the device stops.                                              *)
ResyncAttempted == [][\A c \in Cards :
    (resync[c] = "asked" /\ c \in known' /\ stops' = stops) => resync'[c] # "no"]_vars
=============================================================================
