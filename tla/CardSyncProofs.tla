--------------------------- MODULE CardSyncProofs ---------------------------
(***************************************************************************)
(* Proofs about CardSync, for any contacts, any of them in focus, and any  *)
(* number of changes, notifications, removals and stops.                   *)
(***************************************************************************)
EXTENDS CardSync, WellFoundedInduction, TLAPS

IInv == TypeOK /\ CopyCurrent /\ NothingForgotten /\ LoopInv

-----------------------------------------------------------------------------
(* The counter of the contacts.                                            *)

LEMMA MaxExists ==
    ASSUME NEW b \in Nat, NEW S \in SUBSET (0..b), S # {}
    PROVE  Max(S) \in S /\ \A x \in S : x <= Max(S)
  <1> DEFINE T == {n \in Nat : b - n \in S}
  <1>1. T # {}
    <2>1. PICK x \in S : TRUE
      OBVIOUS
    <2>2. b - x \in Nat /\ b - (b - x) = x
      BY <2>1
    <2> QED
      BY <2>1, <2>2
  <1>2. PICK n \in T : \A m \in T : ~(<<m, n>> \in OpToRel(<, Nat))
    BY <1>1, NatLessThanWellFounded, WFMin
  <1>3. \A m \in T : ~(m < n)
    BY <1>2 DEF OpToRel
  <1>4. b - n \in S
    BY <1>2
  <1>5. \A x \in S : x <= b - n
    <2> SUFFICES ASSUME NEW x \in S PROVE x <= b - n
      OBVIOUS
    <2>1. b - x \in Nat /\ b - (b - x) = x
      OBVIOUS
    <2>2. b - x \in T
      BY <2>1
    <2>3. ~(b - x < n)
      BY <1>3, <2>2
    <2>4. n \in Nat /\ x \in Nat /\ x <= b
      OBVIOUS
    <2> QED
      BY <2>1, <2>3, <2>4
  <1> HIDE DEF T
  <1>6. \A x \in S : b - n >= x
    BY <1>4, <1>5
  <1>7. Max(S) \in S /\ \A x \in S : Max(S) >= x
    BY <1>4, <1>6 DEF Max
  <1> QED
    BY <1>7

LEMMA RaisedAbove ==
    ASSUME TypeOK, NEW c \in Cards
    PROVE  /\ Raised \in Nat
           /\ \A d \in Cards : slot[d].revision < Raised
  <1> DEFINE S == {slot[d].revision : d \in Cards}
  <1>1. S \in SUBSET (0..MaxChannel) /\ S # {} /\ MaxChannel \in Nat
    BY BoundsAssumption DEF TypeOK, Revs
  <1>2. Max(S) \in S /\ \A x \in S : x <= Max(S)
    BY <1>1, MaxExists
  <1>3. Raised = 1 + Max(S)
    BY DEF Raised
  <1>4. /\ \A d \in Cards : slot[d].revision \in S
        /\ \A x \in S : x \in Nat
    BY BoundsAssumption DEF TypeOK, Revs
  <1> HIDE DEF S
  <1>5. Max(S) \in Nat
    BY <1>2, <1>4
  <1>6. \A d \in Cards : slot[d].revision <= Max(S) /\ slot[d].revision \in Nat
    BY <1>2, <1>4
  <1> QED
    BY <1>3, <1>5, <1>6

-----------------------------------------------------------------------------
(* Types.                                                                  *)

Records == [card : Cards, live : BOOLEAN, notified : Revs]
Cursors == [card : Cards, goal : Revs, again : BOOLEAN, found : BOOLEAN, entity : Entities]

SlotRec == [revision : Revs, topic : Revs, shared : BOOLEAN]
RowRec == [revision : 0..MaxCard, notified : Revs, live : BOOLEAN]

LEMMA CurType ==
    ASSUME TypeOK
    PROVE  \A k \in cur : k \in Cursors /\ k.card \in known
  BY DEF TypeOK, Cursors

LEMMA TypeStep == IInv /\ [Next]_vars => TypeOK'
  <1> SUFFICES ASSUME IInv, [Next]_vars PROVE TypeOK'
    OBVIOUS
  <1> USE BoundsAssumption
  <1> USE DEF IInv
  <1>e. NoEntity \in Entities /\ 0 \in Revs
    BY DEF NoEntity, Entities, Revs
  <1>1. ASSUME NEW c \in Cards, AddTopic(c) \/ SetChannelCard(c) \/ ClearChannelCard(c)
        PROVE  TypeOK'
    <2>1. Raised \in Revs
      BY <1>1, RaisedAbove DEF Revs, AddTopic, SetChannelCard, ClearChannelCard
    <2>2. slot \in [Cards -> SlotRec]
      BY DEF TypeOK, SlotRec
    <2>3. \A r \in SlotRec, b \in BOOLEAN :
            /\ [r EXCEPT !.revision = Raised, !.topic = Raised] \in SlotRec
            /\ [r EXCEPT !.revision = Raised, !.shared = b] \in SlotRec
      BY <2>1 DEF SlotRec
    <2>4. slot' \in [Cards -> SlotRec]
      <3>1. PICK r \in SlotRec : slot' = [slot EXCEPT ![c] = r]
        <4>1. CASE AddTopic(c)
          BY <2>2, <2>3, <4>1 DEF AddTopic
        <4>2. CASE SetChannelCard(c)
          BY <2>2, <2>3, <4>2 DEF SetChannelCard
        <4>3. CASE ClearChannelCard(c)
          BY <2>2, <2>3, <4>3 DEF ClearChannelCard
        <4> QED
          BY <1>1, <4>1, <4>2, <4>3
      <3> QED
        BY <2>2, <3>1
    <2>5. pending' \subseteq [card : Cards, revision : Revs]
      BY <1>1, <2>1 DEF TypeOK, AddTopic, SetChannelCard, ClearChannelCard, Notify
    <2>6. UNCHANGED <<own, Device>>
      BY <1>1 DEF AddTopic, SetChannelCard, ClearChannelCard
    <2> QED
      BY <2>4, <2>5, <2>6 DEF TypeOK, SlotRec, own, Device, entries, loop
  <1>2. ASSUME NEW n \in pending, NotifyChannelRevision(n)
        PROVE  TypeOK'
    <2>1. n.card \in Cards /\ n.revision \in Revs /\ cardRevision + 1 \in 0..MaxCard
      BY <1>2 DEF TypeOK, NotifyChannelRevision
    <2>2. row \in [Cards -> RowRec]
      BY DEF TypeOK, RowRec
    <2>3. \A r \in RowRec :
            [r EXCEPT !.notified = n.revision, !.revision = cardRevision + 1] \in RowRec
      BY <2>1 DEF RowRec
    <2>4. row' \in [Cards -> RowRec] /\ cardRevision' \in 0..MaxCard
      <3>1. CASE row[n.card].live
        <4>1. row' = [row EXCEPT ![n.card] = [row[n.card] EXCEPT !.notified = n.revision,
                                                  !.revision = cardRevision + 1]]
              /\ cardRevision' = cardRevision + 1
          BY <1>2, <2>1, <2>2, <3>1 DEF NotifyChannelRevision
        <4> QED
          BY <2>1, <2>2, <2>3, <4>1
      <3>2. CASE ~row[n.card].live
        BY <1>2, <2>2, <3>2 DEF TypeOK, NotifyChannelRevision, own
      <3> QED
        BY <3>1, <3>2
    <2>5. pending' \subseteq pending /\ UNCHANGED <<slot, Device>>
      BY <1>2 DEF NotifyChannelRevision
    <2> QED
      BY <2>4, <2>5 DEF TypeOK, RowRec, Device, entries, loop
  <1>3. ASSUME NEW n \in pending, NotReceived(n)
        PROVE  TypeOK'
    BY <1>3 DEF TypeOK, NotReceived, own, Device, entries, loop
  <1>4. CASE Stop
    BY <1>4 DEF TypeOK, Stop, contacts, own, entries
  <1>5. ASSUME NEW c \in Cards, ResyncCard(c)
        PROVE  TypeOK'
    BY <1>5 DEF TypeOK, ResyncCard, Kick, contacts, own, entries, loop
  <1>6. ASSUME NEW c \in Cards, RemoveCard(c)
        PROVE  TypeOK'
    BY <1>6 DEF TypeOK, RemoveCard, contacts, Device, entries, loop
  <1>7. CASE SetRevision
    BY <1>7 DEF TypeOK, SetRevision, Kick, contacts, own, entries, loop
  <1>8. CASE StartResync \/ NoResync \/ ClearResync
    BY <1>8 DEF TypeOK, StartResync, NoResync, ClearResync, Node, contacts, own, entries, loop
  <1>9. CASE GetCards
    BY <1>9 DEF TypeOK, GetCards, Node, contacts, own, entries
  <1>10. CASE NoCards \/ GetCardsFails \/ FinishCards
    BY <1>10 DEF TypeOK, NoCards, GetCardsFails, FinishCards, EndPass, Node, contacts, own,
       entries, loop
  <1>11. ASSUME NEW c \in Cards, ResyncNext(c)
         PROVE  TypeOK'
    <2>1. UNCHANGED <<Node, revision, entries, nextRevision, delta, nextRev>> /\ pc = "resync"
          /\ cur = {} /\ todo' \subseteq known /\ c \in known
      BY <1>11 DEF ResyncNext, TypeOK
    <2>2. resync' \in [Cards -> {"no", "asked", "tried"}]
      BY <1>11 DEF ResyncNext, TypeOK
    <2>3. \/ cur' = {} /\ pc' = "resync"
          \/ cur' = {[card |-> c, goal |-> marker[c], again |-> TRUE, found |-> FALSE,
                      entity |-> NoEntity]} /\ pc' = "fetch"
      BY <1>11, <2>1 DEF ResyncNext, Sync
    <2>4. marker[c] \in Revs /\ NoEntity \in Entities
      BY <1>11, <1>e DEF TypeOK
    <2>5. cur' \subseteq [card : known, goal : Revs, again : BOOLEAN, found : BOOLEAN,
                         entity : Entities]
      <3>1. [card |-> c, goal |-> marker[c], again |-> TRUE, found |-> FALSE,
             entity |-> NoEntity] \in
              [card : known, goal : Revs, again : BOOLEAN, found : BOOLEAN, entity : Entities]
        BY <2>1, <2>4
      <3> QED
        BY <2>3, <3>1
    <2> QED
      BY <2>1, <2>2, <2>3, <2>5 DEF TypeOK, Node, contacts, own, entries
  <1>12. ASSUME NEW e \in delta, ApplyRemoved(e)
         PROVE  TypeOK'
    <2>1. cur = {} /\ todo = {} /\ e.card \in Cards
      BY <1>12 DEF TypeOK, ApplyRemoved, LoopInv, Phases
    <2>2. /\ channelRevision' \in [Cards -> Revs]
          /\ copy' \in [Cards -> [revision : Revs, content : Revs]]
          /\ marker' \in [Cards -> Revs]
      <3>1. NoCopy \in [revision : Revs, content : Revs]
        BY <1>e DEF NoCopy
      <3> QED
        BY <1>12, <1>e, <2>1, <3>1 DEF TypeOK, ApplyRemoved
    <2>3. /\ UNCHANGED <<Node, revision, resync, nextRevision, pc, todo, nextRev, cur>>
          /\ delta' \subseteq delta /\ known' \subseteq known
      BY <1>12 DEF ApplyRemoved
    <2> QED
      BY <2>1, <2>2, <2>3 DEF TypeOK, Node, contacts, own
  <1>13. ASSUME NEW e \in delta, ApplyCard(e)
         PROVE  TypeOK'
    <2>1. e.card \in known /\ e.card \in Cards /\ e.notified \in Revs /\ cur = {}
          /\ NoEntity \in Entities
      BY <1>13, <1>e DEF ApplyCard, TypeOK, LoopInv, Deltas
    <2>2. /\ UNCHANGED <<Node, revision, known, channelRevision, copy, resync, nextRevision,
                         todo, nextRev>>
          /\ delta' \subseteq delta
          /\ pc' \in {"apply", "fetch"}
      BY <1>13 DEF ApplyCard
    <2>3. marker' \in [Cards -> Revs]
      BY <1>13, <2>1 DEF ApplyCard, TypeOK
    <2>4. \/ cur' = {} /\ pc' = "apply"
          \/ cur' = {[card |-> e.card, goal |-> e.notified, again |-> FALSE, found |-> FALSE,
                      entity |-> NoEntity]} /\ pc' = "fetch"
      BY <1>13, <2>1 DEF ApplyCard, Sync
    <2>5. cur' \subseteq [card : known, goal : Revs, again : BOOLEAN, found : BOOLEAN,
                         entity : Entities]
      <3>1. [card |-> e.card, goal |-> e.notified, again |-> FALSE, found |-> FALSE,
             entity |-> NoEntity] \in
              [card : known, goal : Revs, again : BOOLEAN, found : BOOLEAN, entity : Entities]
        BY <2>1
      <3> QED
        BY <2>4, <3>1
    <2>6. (cur' # {}) = (pc' \in {"fetch", "channel", "focus", "clear"})
          /\ pc' \in {"apply", "fetch"}
      <3>1. CASE cur' = {} /\ pc' = "apply"
        BY <3>1
      <3>2. CASE cur' # {} /\ pc' = "fetch"
        BY <3>2
      <3> QED
        BY <2>4, <3>1, <3>2
    <2>7. delta' \subseteq [card : Cards, live : BOOLEAN, notified : Revs]
      BY <2>2 DEF TypeOK
    <2> QED
      BY <2>2, <2>3, <2>5, <2>6, <2>7 DEF TypeOK, Node, contacts, own
  <1>14. ASSUME NEW k \in cur, GetContactChannels(k)
         PROVE  TypeOK'
    <2>1. k \in Cursors /\ k.card \in known /\ k.card \in Cards
      BY CurType DEF TypeOK
    <2>2. UNCHANGED <<Node, revision, entries, resync, nextRevision, todo, delta, nextRev>>
          /\ pc' = "channel"
      BY <1>14 DEF GetContactChannels
    <2>3. PICK f \in BOOLEAN, e \in Entities :
            cur' = {[k EXCEPT !.found = f, !.entity = e]}
      <3>1. slot[k.card].topic \in Revs /\ slot[k.card].shared \in BOOLEAN
            /\ slot[k.card].revision \in Revs /\ channelRevision[k.card] \in Revs
        BY <2>1 DEF TypeOK
      <3>2. [revision |-> slot[k.card].topic, shared |-> slot[k.card].shared] \in Entities
        BY <3>1 DEF Entities
      <3>3. (slot[k.card].revision > channelRevision[k.card]) \in BOOLEAN
        OBVIOUS
      <3> QED
        BY <1>14, <1>e, <3>2, <3>3 DEF GetContactChannels
    <2>4. [k EXCEPT !.found = f, !.entity = e] \in
            [card : known, goal : Revs, again : BOOLEAN, found : BOOLEAN, entity : Entities]
      BY <2>1 DEF Cursors
    <2> QED
      BY <2>2, <2>3, <2>4 DEF TypeOK, Node, contacts, own, entries
  <1>15. ASSUME NEW k \in cur, ApplyChannel(k)
         PROVE  TypeOK'
    <2>1. k \in Cursors /\ k.card \in known /\ k.card \in Cards
      BY CurType DEF TypeOK
    <2>2. UNCHANGED <<Node, revision, known, channelRevision, marker, resync, nextRevision,
                      todo, delta, nextRev>>
          /\ pc' \in {"focus", "channel"}
      BY <1>15 DEF ApplyChannel
    <2>3. PICK v \in [revision : Revs, content : Revs] :
            copy' = [copy EXCEPT ![k.card] = v]
      <3>1. /\ NoCopy \in [revision : Revs, content : Revs]
            /\ copy[k.card] \in [revision : Revs, content : Revs]
            /\ [revision |-> k.entity.revision, content |-> slot[k.card].topic]
                 \in [revision : Revs, content : Revs]
        BY <1>e, <2>1 DEF TypeOK, Cursors, NoCopy, Entities
      <3> QED
        BY <1>15, <3>1 DEF ApplyChannel
    <2>4. cur' = {[k EXCEPT !.found = FALSE, !.entity = NoEntity]}
      BY <1>15 DEF ApplyChannel
    <2>5. [k EXCEPT !.found = FALSE, !.entity = NoEntity] \in
            [card : known, goal : Revs, again : BOOLEAN, found : BOOLEAN, entity : Entities]
      BY <1>e, <2>1 DEF Cursors
    <2> QED
      BY <2>2, <2>3, <2>4, <2>5 DEF TypeOK, Node, contacts, own
  <1>16. CASE FocusReturns
    BY <1>16 DEF TypeOK, FocusReturns, Node, contacts, own, entries, loop
  <1>17. ASSUME NEW k \in cur, StoreRevision(k) \/ ClearMarker(k) \/ ContactFails(k)
         PROVE  TypeOK'
    <2>1. k \in Cursors /\ k.card \in known /\ k.card \in Cards /\ k.goal \in Revs
      BY CurType DEF TypeOK, Cursors
    <2>2. UNCHANGED <<Node, revision, known, copy, resync, nextRevision, todo, delta, nextRev>>
      BY <1>17 DEF StoreRevision, ClearMarker, ContactFails
    <2>3. marker' \in [Cards -> Revs] /\ channelRevision' \in [Cards -> Revs]
      <3>1. marker \in [Cards -> Revs] /\ channelRevision \in [Cards -> Revs]
        BY DEF TypeOK
      <3>2. CASE StoreRevision(k)
        BY <2>1, <3>1, <3>2 DEF StoreRevision
      <3>3. CASE ClearMarker(k)
        BY <1>e, <2>1, <3>1, <3>3 DEF ClearMarker
      <3>4. CASE ContactFails(k)
        BY <2>1, <3>1, <3>4 DEF ContactFails
      <3> QED
        BY <1>17, <3>2, <3>3, <3>4
    <2>4. \/ cur' = cur /\ pc' = "clear"
          \/ cur' = {} /\ pc' \in {"resync", "apply"}
      BY <1>17 DEF StoreRevision, ClearMarker, ContactFails, Back
    <2> QED
      BY <2>2, <2>3, <2>4 DEF TypeOK, Node, contacts, own
  <1>18. CASE UNCHANGED vars
    BY <1>18 DEF TypeOK, vars, contacts, own, entries, loop
  <1> QED
    BY <1>1, <1>2, <1>3, <1>4, <1>5, <1>6, <1>7, <1>8, <1>9, <1>10, <1>11, <1>12, <1>13,
       <1>14, <1>15, <1>16, <1>17, <1>18 DEF Next, Contact, Queue, App, Sends

-----------------------------------------------------------------------------
(* The invariant, action by action.                                        *)

Rest == CopyCurrent /\ NothingForgotten /\ LoopInv

LEMMA Numbers ==
    ASSUME TypeOK
    PROVE  /\ \A c \in Cards :
               /\ slot[c].revision \in Nat /\ slot[c].topic \in Nat
               /\ slot[c].shared \in BOOLEAN
               /\ row[c].revision \in Nat /\ row[c].notified \in Nat
               /\ row[c].live \in BOOLEAN
               /\ marker[c] \in Nat /\ channelRevision[c] \in Nat
               /\ copy[c].revision \in Nat /\ copy[c].content \in Nat
           /\ \A n \in pending : n.card \in Cards /\ n.revision \in Nat
           /\ \A e \in delta : e.card \in Cards /\ e.notified \in Nat /\ e.live \in BOOLEAN
           /\ \A k \in cur : /\ k.card \in known /\ k.card \in Cards /\ k.goal \in Nat
                             /\ k.again \in BOOLEAN /\ k.found \in BOOLEAN
                             /\ k.entity.revision \in Nat /\ k.entity.shared \in BOOLEAN
           /\ cardRevision \in Nat /\ revision \in Nat /\ nextRevision \in Nat
           /\ nextRev \in Nat /\ known \subseteq Cards
  <1>1. \A k \in cur : /\ k.card \in known /\ k.card \in Cards /\ k.goal \in Nat
                       /\ k.again \in BOOLEAN /\ k.found \in BOOLEAN
                       /\ k.entity.revision \in Nat /\ k.entity.shared \in BOOLEAN
    BY CurType, BoundsAssumption DEF TypeOK, Cursors, Entities, Revs
  <1>2. \A c \in Cards :
           /\ slot[c].revision \in Nat /\ slot[c].topic \in Nat
           /\ slot[c].shared \in BOOLEAN
           /\ row[c].revision \in Nat /\ row[c].notified \in Nat
           /\ row[c].live \in BOOLEAN
           /\ marker[c] \in Nat /\ channelRevision[c] \in Nat
           /\ copy[c].revision \in Nat /\ copy[c].content \in Nat
    BY BoundsAssumption DEF TypeOK, Revs
  <1>3. /\ \A n \in pending : n.card \in Cards /\ n.revision \in Nat
        /\ \A e \in delta : e.card \in Cards /\ e.notified \in Nat /\ e.live \in BOOLEAN
        /\ cardRevision \in Nat /\ revision \in Nat /\ nextRevision \in Nat
        /\ nextRev \in Nat /\ known \subseteq Cards
    BY BoundsAssumption DEF TypeOK, Revs
  <1> QED
    BY <1>1, <1>2, <1>3

\* The contact's node: what it raises is later than all that was announced.
LEMMA ContactKeeps ==
    ASSUME IInv, NEW c \in Cards, AddTopic(c) \/ SetChannelCard(c) \/ ClearChannelCard(c)
    PROVE  Rest'
  <1> USE DEF IInv
  <1>1. /\ Raised \in Nat /\ \A d \in Cards : slot[d].revision < Raised
    BY RaisedAbove
  <1>2. /\ \A d \in Cards : d # c => slot'[d] = slot[d]
        /\ slot'[c].revision = Raised
        /\ slot'[c].topic = Raised \/ slot'[c].topic = slot[c].topic
    BY DEF TypeOK, AddTopic, SetChannelCard, ClearChannelCard
  <1>3. pending' = pending \cup {[card |-> c, revision |-> Raised]}
    BY DEF AddTopic, SetChannelCard, ClearChannelCard, Notify
  <1>4. /\ UNCHANGED <<row, cardRevision, revision, known, channelRevision, marker, copy>>
        /\ UNCHANGED <<nextRevision, pc, todo, delta, nextRev, cur>>
    BY DEF AddTopic, SetChannelCard, ClearChannelCard, own, Device, entries, loop
  <1>5. \A d \in Cards : Matches(d) /\ d # c => Matches(d)'
    BY <1>2, <1>4 DEF Matches
  <1>6. \A d \in Cards : Handled(d) => Handled(d)'
    BY <1>1, <1>2, <1>4, <1>5, Numbers DEF Handled, Shown, LoopInv, Bounded
  <1>7. CopyCurrent'
    BY <1>1, <1>2, <1>4, <1>5, Numbers DEF CopyCurrent, LoopInv, Bounded
  <1>8. NothingForgotten'
    BY <1>4, <1>6 DEF NothingForgotten
  <1>9. Bounded'
    BY <1>1, <1>2, <1>3, <1>4, Numbers DEF LoopInv, Bounded
  <1>10. Phases' /\ Deltas'
    BY <1>1, <1>2, <1>4, Numbers DEF LoopInv, Phases, Deltas
  <1>11. Cursor'
    BY <1>1, <1>2, <1>4, <1>5, Numbers DEF LoopInv, Bounded, Cursor, Owed
  <1>12. Announced'
    BY <1>4, <1>6 DEF LoopInv, Announced
  <1> QED
    BY <1>7, <1>8, <1>9, <1>10, <1>11, <1>12 DEF Rest, LoopInv

\* The own node: what it announces is later than all it announced before.
LEMMA NotifyKeeps ==
    ASSUME IInv, NEW n \in pending, NotifyChannelRevision(n)
    PROVE  Rest'
  <1> USE DEF IInv
  <1> DEFINE c == n.card
  <1>1. c \in Cards
    BY Numbers
  <1>2. \A d \in Cards : row'[d] = row[d] \/ (/\ d = c
                                              /\ row'[d].revision = cardRevision + 1
                                              /\ row'[d].notified = n.revision
                                              /\ row'[d].live = row[d].live)
    BY <1>1 DEF TypeOK, NotifyChannelRevision, own
  <1>3. /\ cardRevision' \in {cardRevision, cardRevision + 1}
        /\ \A d \in Cards : row'[d] # row[d] => cardRevision' = cardRevision + 1
        /\ pending' \subseteq pending
    BY <1>1 DEF NotifyChannelRevision, own
  <1>4. /\ UNCHANGED <<slot, revision, known, channelRevision, marker, copy>>
        /\ UNCHANGED <<nextRevision, pc, todo, delta, nextRev, cur>>
    BY DEF NotifyChannelRevision, Device, entries, loop
  <1> HIDE DEF c
  <1>5. \A d \in Cards : row'[d].revision <= revision \/ row'[d].revision <= nextRev
                          => row'[d] = row[d]
    BY <1>2, Numbers DEF LoopInv, Bounded
  <1>6. \A d \in Cards : Matches(d)' = Matches(d)
    BY <1>4 DEF Matches
  <1>7. \A d \in Cards : row'[d] = row[d] => (Handled(d)' = Handled(d))
    BY <1>4, <1>6 DEF Handled, Shown
  <1>8. CopyCurrent'
    BY <1>4, <1>6, Numbers DEF CopyCurrent
  <1>9. NothingForgotten'
    BY <1>4, <1>5, <1>7 DEF NothingForgotten
  <1>10. Bounded'
    <2>1. n.revision \in Nat /\ 1 <= n.revision /\ n.revision <= slot[c].revision
      BY Numbers DEF LoopInv, Bounded, c
    <2> QED
      BY <1>2, <1>3, <1>4, <2>1, Numbers DEF LoopInv, Bounded
  <1>11. Phases' /\ Deltas'
    BY <1>2, <1>4, Numbers DEF LoopInv, Phases, Deltas, Bounded
  <1>12. Cursor'
    BY <1>2, <1>4, <1>5, <1>6, Numbers DEF LoopInv, Bounded, Cursor, Owed
  <1>13. Announced'
    BY <1>4, <1>5, <1>7 DEF LoopInv, Announced
  <1> QED
    BY <1>8, <1>9, <1>10, <1>11, <1>12, <1>13 DEF Rest, LoopInv

LEMMA RemoveKeeps ==
    ASSUME IInv, NEW c \in Cards, RemoveCard(c)
    PROVE  Rest'
  <1> USE DEF IInv
  <1>2. /\ \A d \in Cards : d # c => row'[d] = row[d]
        /\ row'[c].revision = cardRevision + 1 /\ row'[c].notified = row[c].notified
        /\ ~row'[c].live
    BY DEF TypeOK, RemoveCard
  <1>3. cardRevision' = cardRevision + 1
    BY DEF RemoveCard
  <1>4. /\ UNCHANGED <<slot, pending, revision, known, channelRevision, marker, copy>>
        /\ UNCHANGED <<nextRevision, pc, todo, delta, nextRev, cur>>
    BY DEF RemoveCard, contacts, Device, entries, loop
  <1>5. \A d \in Cards : row'[d].revision <= revision \/ row'[d].revision <= nextRev
                          => row'[d] = row[d]
    BY <1>2, Numbers DEF LoopInv, Bounded
  <1>6. \A d \in Cards : Matches(d)' = Matches(d)
    BY <1>4 DEF Matches
  <1>7. \A d \in Cards : row'[d] = row[d] => (Handled(d)' = Handled(d))
    BY <1>4, <1>6 DEF Handled, Shown
  <1>8. CopyCurrent'
    BY <1>4, <1>6, Numbers DEF CopyCurrent
  <1>9. NothingForgotten'
    BY <1>4, <1>5, <1>7 DEF NothingForgotten
  <1>10. Bounded'
    BY <1>2, <1>3, <1>4, Numbers DEF LoopInv, Bounded
  <1>11. Phases' /\ Deltas'
    BY <1>2, <1>4, Numbers DEF LoopInv, Phases, Deltas, Bounded
  <1>12. Cursor'
    BY <1>2, <1>4, <1>5, <1>6, Numbers DEF LoopInv, Bounded, Cursor, Owed
  <1>13. Announced'
    BY <1>4, <1>5, <1>7 DEF LoopInv, Announced
  <1> QED
    BY <1>8, <1>9, <1>10, <1>11, <1>12, <1>13 DEF Rest, LoopInv

\* Steps that leave the cards alone: what the loop has asked for, and where it is.
LEMMA CardsAlone ==
    ASSUME IInv, UNCHANGED <<slot, row, known, channelRevision, marker, copy>>
    PROVE  /\ \A c \in Cards : Matches(c)' = Matches(c) /\ Handled(c)' = Handled(c)
           /\ CopyCurrent'
           /\ revision' = revision => NothingForgotten'
  <1>1. \A c \in Cards : Matches(c)' = Matches(c)
    BY DEF Matches
  <1>2. \A c \in Cards : Handled(c)' = Handled(c)
    BY <1>1 DEF Handled, Shown
  <1>3. CopyCurrent'
    BY <1>1, Numbers DEF IInv, CopyCurrent
  <1>4. revision' = revision => NothingForgotten'
    BY <1>2 DEF IInv, NothingForgotten
  <1> QED
    BY <1>1, <1>2, <1>3, <1>4

\* The device stops, is told of a revision or a wish, or goes from one part of
\* the pass to the next.
LEMMA TurnKeeps ==
    ASSUME IInv,
           UNCHANGED <<slot, row, cardRevision, known, channelRevision, marker, copy, revision>>,
           pending' \subseteq pending,
           nextRevision' \in {0, nextRevision, cardRevision},
           \/ /\ UNCHANGED <<delta, nextRev, cur, todo>>
              /\ \/ pc' = pc
                 \/ /\ {pc, pc'} \subseteq {"idle", "head", "resync", "cards"}
                    /\ pc' = "resync" \/ todo = {}
                 \/ pc = "focus" /\ pc' = "channel"
           \/ /\ delta' = {} /\ nextRev' = 0 /\ cur' = {}
              /\ \/ pc' = "idle" /\ todo' = {}
                 \/ pc' = "resync"
    PROVE  Rest'
  <1> USE DEF IInv
  <1>1. /\ \A c \in Cards : Matches(c)' = Matches(c) /\ Handled(c)' = Handled(c)
        /\ CopyCurrent' /\ NothingForgotten'
    BY CardsAlone
  <1>2. Bounded'
    BY Numbers DEF LoopInv, Bounded
  <1>3. Phases'
    BY DEF LoopInv, Phases, TypeOK
  <1>4. Deltas'
    BY DEF LoopInv, Deltas
  <1>5. Cursor'
    BY <1>1, Numbers DEF LoopInv, Cursor, Owed
  <1>6. Announced'
    BY <1>1, Numbers DEF LoopInv, Bounded, Announced
  <1> QED
    BY <1>1, <1>2, <1>3, <1>4, <1>5, <1>6 DEF Rest, LoopInv

-----------------------------------------------------------------------------
(* The answer of the own node.                                             *)

LEMMA GetCardsKeeps ==
    ASSUME IInv, GetCards
    PROVE  Rest'
  <1> USE DEF IInv
  <1>1. /\ UNCHANGED <<slot, pending, row, cardRevision, known, channelRevision, marker, copy>>
        /\ UNCHANGED <<revision, nextRevision, todo, cur>>
        /\ nextRev' = nextRevision /\ pc = "cards" /\ pc' = "apply"
    BY DEF GetCards, Node, contacts, own, entries
  <1>2. /\ \A e \in delta' : /\ e.card \in Cards /\ revision < row[e.card].revision
                             /\ e.live = row[e.card].live
                             /\ e.notified = row[e.card].notified
        /\ \A e, f \in delta' : e.card = f.card => e = f
        /\ \A c \in Cards : revision < row[c].revision =>
              \E e \in delta' : /\ e.card = c /\ e.live = row[c].live
                                /\ e.notified = row[c].notified
    <2> DEFINE Entry(c) == [card |-> c, live |-> row[c].live, notified |-> row[c].notified]
    <2>1. delta' = {Entry(c) : c \in {d \in Cards : row[d].revision > revision}}
      BY DEF GetCards
    <2>2. \A e \in delta' : \E c \in Cards : e = Entry(c) /\ revision < row[c].revision
      BY <2>1, Numbers
    <2>3. \A c \in Cards : revision < row[c].revision => Entry(c) \in delta'
      BY <2>1, Numbers
    <2>4. \A c \in Cards : Entry(c).card = c /\ Entry(c).live = row[c].live
                          /\ Entry(c).notified = row[c].notified
      OBVIOUS
    <2> HIDE DEF Entry
    <2>5. \A e \in delta' : /\ e.card \in Cards /\ revision < row[e.card].revision
                            /\ e.live = row[e.card].live
                            /\ e.notified = row[e.card].notified
      BY <2>2, <2>4
    <2>6. \A e, f \in delta' : e.card = f.card => e = f
      BY <2>2, <2>4
    <2> QED
      BY <2>3, <2>4, <2>5, <2>6
  <1>3. /\ \A c \in Cards : Matches(c)' = Matches(c) /\ Handled(c)' = Handled(c)
        /\ CopyCurrent' /\ NothingForgotten'
    BY <1>1, CardsAlone
  <1>4. cur = {}
    BY <1>1 DEF TypeOK
  <1>5. Bounded'
    BY <1>1, Numbers DEF LoopInv, Bounded
  <1>6. Phases'
    BY <1>1, <1>4 DEF LoopInv, Phases
  <1>7. Deltas'
    BY <1>1, <1>2, Numbers DEF LoopInv, Bounded, Deltas
  <1>8. Cursor'
    BY <1>1, <1>4 DEF Cursor
  <1>9. Announced'
    <2> SUFFICES ASSUME NEW c \in Cards
                 PROVE  \/ Handled(c)
                        \/ \E e \in delta' : /\ e.card = c /\ e.live = row[c].live
                                             /\ e.notified = row[c].notified
      BY <1>1, <1>3 DEF Announced
    <2>1. CASE row[c].revision <= revision
      BY <2>1 DEF NothingForgotten
    <2>2. CASE revision < row[c].revision
      BY <1>2, <2>2
    <2> QED
      BY <2>1, <2>2, Numbers
  <1> QED
    BY <1>3, <1>5, <1>6, <1>7, <1>8, <1>9 DEF Rest, LoopInv

\* The end of the answer: every card in it was handled.
LEMMA FinishKeeps ==
    ASSUME IInv, FinishCards
    PROVE  Rest'
  <1> USE DEF IInv
  <1>1. /\ UNCHANGED <<slot, pending, row, cardRevision, known, channelRevision, marker, copy>>
        /\ UNCHANGED <<todo, delta, cur>>
        /\ revision' = nextRev /\ nextRev' = 0 /\ nextRevision' \in {0, nextRevision}
        /\ pc = "apply" /\ pc' = "head" /\ delta = {}
    BY DEF FinishCards, EndPass, Node, contacts, own, entries
  <1>2. cur = {} /\ todo = {}
    BY <1>1 DEF TypeOK, LoopInv, Phases
  <1>3. /\ \A c \in Cards : Matches(c)' = Matches(c) /\ Handled(c)' = Handled(c)
        /\ CopyCurrent'
    BY <1>1, CardsAlone
  <1>4. NothingForgotten'
    BY <1>1, <1>2, <1>3 DEF LoopInv, Announced, NothingForgotten
  <1>5. Bounded'
    BY <1>1, Numbers DEF LoopInv, Bounded
  <1>6. Phases' /\ Deltas' /\ Cursor'
    BY <1>1, <1>2 DEF LoopInv, Phases, Deltas, Cursor
  <1>7. Announced'
    BY <1>1, Numbers DEF LoopInv, Bounded, Announced
  <1> QED
    BY <1>3, <1>4, <1>5, <1>6, <1>7 DEF Rest, LoopInv

LEMMA ApplyRemovedKeeps ==
    ASSUME IInv, NEW e \in delta, ApplyRemoved(e)
    PROVE  Rest'
  <1> USE DEF IInv
  <1>1. /\ UNCHANGED <<slot, pending, row, cardRevision, revision, nextRevision, pc>>
        /\ UNCHANGED <<todo, nextRev, cur>>
        /\ pc = "apply" /\ ~e.live /\ delta' = delta \ {e} /\ known' = known \ {e.card}
    BY DEF ApplyRemoved, Node, contacts, own
  <1>2. /\ e.card \in Cards /\ cur = {}
        /\ \A c \in Cards : c # e.card => /\ copy'[c] = copy[c]
                                          /\ channelRevision'[c] = channelRevision[c]
                                          /\ marker'[c] = marker[c]
        /\ copy'[e.card] = NoCopy /\ channelRevision'[e.card] = 0 /\ marker'[e.card] = 0
    BY <1>1, Numbers DEF TypeOK, ApplyRemoved
  <1>3. \A c \in Cards : c # e.card => Matches(c)' = Matches(c)
    BY <1>1, <1>2 DEF Matches
  <1>4. \A c \in Cards : c # e.card => Handled(c)' = Handled(c)
    BY <1>1, <1>2, <1>3 DEF Handled, Shown
  <1>5. ~row[e.card].live /\ Handled(e.card)' /\ revision < row[e.card].revision
    BY <1>1 DEF LoopInv, Deltas, Handled
  <1>6. CopyCurrent'
    BY <1>1, <1>2, <1>3 DEF CopyCurrent, TypeOK
  <1>7. NothingForgotten'
    BY <1>1, <1>4, <1>5 DEF NothingForgotten
  <1>8. Bounded'
    BY <1>1, <1>2, Numbers DEF LoopInv, Bounded, NoCopy
  <1>9. Phases' /\ Cursor'
    BY <1>1, <1>2 DEF LoopInv, Phases, Cursor
  <1>10. Deltas'
    BY <1>1, <1>5 DEF LoopInv, Deltas
  <1>11. Announced'
    BY <1>1, <1>4, <1>5 DEF LoopInv, Announced
  <1> QED
    BY <1>6, <1>7, <1>8, <1>9, <1>10, <1>11 DEF Rest, LoopInv

\* A card that is not synchronised has an offsync marker, or was in step.
LEMMA ApplyCardKeeps ==
    ASSUME IInv, NEW e \in delta, ApplyCard(e)
    PROVE  Rest'
  <1> USE DEF IInv
  <1>1. /\ UNCHANGED <<slot, pending, row, cardRevision, known, channelRevision, copy>>
        /\ UNCHANGED <<revision, nextRevision, todo, nextRev>>
        /\ pc = "apply" /\ e.live /\ delta' = delta \ {e}
    BY DEF ApplyCard, Node, contacts, own
  <1>2. /\ e.card \in Cards /\ cur = {} /\ todo = {} /\ e.card \in known
        /\ revision < row[e.card].revision
        /\ e.notified \in Nat /\ 1 <= e.notified /\ e.notified <= slot[e.card].revision
    BY <1>1, Numbers DEF TypeOK, LoopInv, Phases, Deltas
  <1>3. \/ /\ e.notified = channelRevision[e.card] /\ marker' = marker
           /\ cur' = {} /\ pc' = "apply"
        \/ /\ marker[e.card] # 0 /\ marker' = [marker EXCEPT ![e.card] = e.notified]
           /\ cur' = {} /\ pc' = "apply"
        \/ /\ cur' = {[card |-> e.card, goal |-> e.notified, again |-> FALSE, found |-> FALSE,
                       entity |-> NoEntity]}
           /\ marker' = marker /\ pc' = "fetch"
    BY <1>1, <1>2 DEF ApplyCard, Sync
  <1>4. /\ \A c \in Cards : c # e.card => marker'[c] = marker[c]
        /\ marker'[e.card] = marker[e.card]
           \/ (marker[e.card] # 0 /\ marker'[e.card] = e.notified)
    BY <1>2, <1>3 DEF TypeOK
  <1>5. \A c \in Cards : Matches(c)' = Matches(c)
    BY <1>1 DEF Matches
  <1>6. \A c \in Cards : Handled(c) => Handled(c)'
    BY <1>1, <1>2, <1>4, <1>5, Numbers DEF Handled, Shown
  <1>7. \/ cur' = {} /\ (row[e.card].live /\ row[e.card].notified = e.notified => Handled(e.card)')
        \/ \E k \in cur' : k.card = e.card /\ ~k.again /\ k.goal = e.notified
    <2>1. CASE e.notified = channelRevision[e.card] /\ cur' = {}
      BY <1>1, <1>2, <1>5, <2>1, Numbers DEF Handled, Shown, CopyCurrent
    <2>2. CASE marker'[e.card] # 0 /\ cur' = {}
      BY <1>1, <1>2, <2>2 DEF Handled, Shown
    <2>3. CASE cur' = {[card |-> e.card, goal |-> e.notified, again |-> FALSE,
                        found |-> FALSE, entity |-> NoEntity]}
      BY <2>3
    <2> QED
      BY <1>2, <1>3, <1>4, <2>1, <2>2, <2>3, Numbers DEF TypeOK
  <1>8. CopyCurrent'
    BY <1>1, <1>5, Numbers DEF CopyCurrent
  <1>9. NothingForgotten'
    BY <1>1, <1>6 DEF NothingForgotten
  <1>10. Bounded'
    BY <1>1, <1>2, <1>4, Numbers DEF LoopInv, Bounded
  <1>11. Phases'
    <2>1. pc' # "clear" /\ (\A k, l \in cur' : k = l) /\ (\A k \in cur' : ~k.again /\ ~k.found)
      <3> DEFINE r == [card |-> e.card, goal |-> e.notified, again |-> FALSE, found |-> FALSE,
                       entity |-> NoEntity]
      <3>1. ~r.again /\ ~r.found
        OBVIOUS
      <3>2. (cur' = {} \/ cur' = {r}) /\ pc' # "clear"
        BY <1>3
      <3> HIDE DEF r
      <3> QED
        BY <3>1, <3>2
    <2>2. pc' \in {"apply", "fetch"}
      BY <1>3
    <2> QED
      BY <1>1, <1>2, <2>1, <2>2 DEF Phases
  <1>12. Deltas'
    BY <1>1 DEF LoopInv, Deltas
  <1>13. Cursor'
    BY <1>1, <1>2, <1>3, Numbers DEF LoopInv, Bounded, Cursor, NoEntity
  <1>14. Announced'
    <2> SUFFICES ASSUME NEW c \in Cards, row[c].revision <= nextRev
                 PROVE  \/ Handled(c)'
                        \/ \E f \in delta' : /\ f.card = c /\ f.live = row[c].live
                                             /\ f.notified = row[c].notified
                        \/ \E k \in cur' : /\ k.card = c /\ ~k.again /\ row[c].live
                                           /\ k.goal = row[c].notified
      BY <1>1 DEF Announced
    <2>1. \/ Handled(c)
          \/ \E f \in delta : /\ f.card = c /\ f.live = row[c].live
                              /\ f.notified = row[c].notified
      BY <1>2 DEF LoopInv, Announced
    <2>2. CASE Handled(c)
      BY <1>6, <2>2
    <2>3. CASE \E f \in delta : /\ f # e /\ f.card = c /\ f.live = row[c].live
                                /\ f.notified = row[c].notified
      BY <1>1, <2>3
    <2>4. CASE c = e.card /\ row[c].live /\ e.notified = row[c].notified
      BY <1>7, <2>4
    <2> QED
      BY <1>1, <2>1, <2>2, <2>3, <2>4
  <1> QED
    BY <1>8, <1>9, <1>10, <1>11, <1>12, <1>13, <1>14 DEF Rest, LoopInv

-----------------------------------------------------------------------------
(* The card being synchronised.                                            *)

LEMMA OneCursor ==
    ASSUME IInv, NEW k \in cur
    PROVE  pc \in {"fetch", "channel", "focus", "clear"}
  BY DEF IInv, TypeOK

LEMMA ResyncKeeps ==
    ASSUME IInv, NEW c \in Cards, ResyncNext(c)
    PROVE  Rest'
  <1> USE DEF IInv
  <1>1. /\ UNCHANGED <<slot, pending, row, cardRevision, known, channelRevision, copy, marker>>
        /\ UNCHANGED <<revision, nextRevision, delta, nextRev>>
        /\ pc = "resync" /\ c \in todo /\ todo' \subseteq todo
    BY DEF ResyncNext, Node, contacts, own, entries
  <1>2. cur = {} /\ delta = {} /\ nextRev = 0 /\ c \in known
    BY <1>1 DEF TypeOK, LoopInv, Phases
  <1>3. \/ cur' = {} /\ pc' = "resync"
        \/ /\ cur' = {[card |-> c, goal |-> marker[c], again |-> TRUE, found |-> FALSE,
                       entity |-> NoEntity]}
           /\ marker[c] # 0 /\ pc' = "fetch"
    BY <1>1, <1>2 DEF ResyncNext, Sync
  <1>4. /\ \A d \in Cards : Matches(d)' = Matches(d) /\ Handled(d)' = Handled(d)
        /\ CopyCurrent' /\ NothingForgotten'
    BY <1>1, CardsAlone
  <1>5. Bounded'
    BY <1>1, Numbers DEF LoopInv, Bounded
  <1>6. Phases'
    <2>1. pc' # "clear" /\ (\A k, l \in cur' : k = l) /\ (\A k \in cur' : k.again /\ ~k.found)
      <3> DEFINE r == [card |-> c, goal |-> marker[c], again |-> TRUE, found |-> FALSE,
                       entity |-> NoEntity]
      <3>1. r.again /\ ~r.found
        OBVIOUS
      <3>2. (cur' = {} \/ cur' = {r}) /\ pc' # "clear"
        BY <1>3
      <3> HIDE DEF r
      <3> QED
        BY <3>1, <3>2
    <2>2. pc' \in {"resync", "fetch"}
      BY <1>3
    <2> QED
      BY <1>1, <1>2, <2>1, <2>2 DEF Phases
  <1>7. Deltas'
    BY <1>1 DEF LoopInv, Deltas
  <1>8. Cursor'
    BY <1>1, <1>2, <1>3, Numbers DEF LoopInv, Bounded, Cursor, NoEntity
  <1>9. Announced'
    BY <1>1, <1>2, Numbers DEF LoopInv, Bounded, Announced
  <1> QED
    BY <1>4, <1>5, <1>6, <1>7, <1>8, <1>9 DEF Rest, LoopInv

\* What the contact's node answers is what the device owes, at that moment.
LEMMA FetchKeeps ==
    ASSUME IInv, NEW k \in cur, GetContactChannels(k)
    PROVE  Rest'
  <1> USE DEF IInv
  <1>1. /\ UNCHANGED <<slot, pending, row, cardRevision, known, channelRevision, copy, marker>>
        /\ UNCHANGED <<revision, nextRevision, todo, delta, nextRev>>
        /\ pc = "fetch" /\ pc' = "channel"
    BY DEF GetContactChannels, Node, contacts, own, entries
  <1>2. k \in Cursors /\ k.card \in known /\ k.card \in Cards
    BY CurType, Numbers
  <1>3. PICK j \in cur' : /\ cur' = {j}
                          /\ j.card = k.card /\ j.goal = k.goal /\ j.again = k.again
                          /\ j.found = (slot[k.card].revision > channelRevision[k.card])
                          /\ IF slot[k.card].revision > channelRevision[k.card]
                             THEN /\ j.entity.revision = slot[k.card].topic
                                  /\ j.entity.shared = slot[k.card].shared
                             ELSE j.entity.revision = 0
    BY <1>2 DEF GetContactChannels, Cursors, NoEntity
  <1>4. /\ \A d \in Cards : Matches(d)' = Matches(d) /\ Handled(d)' = Handled(d)
        /\ CopyCurrent' /\ NothingForgotten'
    BY <1>1, CardsAlone
  <1>5. Bounded'
    BY <1>1, Numbers DEF LoopInv, Bounded
  <1>6. Phases' /\ Deltas'
    BY <1>1, <1>3 DEF LoopInv, Phases, Deltas
  <1>7. Cursor'
    <2>1. /\ 1 <= k.goal /\ k.goal <= slot[k.card].revision
          /\ IF k.again THEN marker[k.card] # 0 ELSE revision < row[k.card].revision
      BY DEF LoopInv, Cursor
    <2>2. CASE slot[k.card].revision > channelRevision[k.card]
      <3>1. j.found /\ j.entity.revision = slot[k.card].topic
            /\ j.entity.shared = slot[k.card].shared
        BY <1>3, <2>2
      <3> QED
        BY <1>1, <1>2, <1>3, <2>1, <2>2, <3>1, Numbers DEF Cursor
    <2>3. CASE ~(slot[k.card].revision > channelRevision[k.card])
      <3>1. ~j.found /\ j.entity.revision = 0
        BY <1>3, <2>3
      <3>2. Matches(k.card)
        BY <1>2, <2>3, Numbers DEF CopyCurrent
      <3>3. Matches(k.card)'
        BY <1>2, <1>4, <3>2
      <3> QED
        BY <1>1, <1>2, <1>3, <2>1, <3>1, <3>3, Numbers DEF Cursor
    <2> QED
      BY <2>2, <2>3
  <1>8. Announced'
    BY <1>1, <1>3, <1>4 DEF LoopInv, Phases, Announced
  <1> QED
    BY <1>4, <1>5, <1>6, <1>7, <1>8 DEF Rest, LoopInv

\* The summary is the one of now, whatever the list said.
LEMMA ApplyChannelKeeps ==
    ASSUME IInv, NEW k \in cur, ApplyChannel(k)
    PROVE  Rest'
  <1> USE DEF IInv
  <1> DEFINE c == k.card
  <1>1. /\ UNCHANGED <<slot, pending, row, cardRevision, known, channelRevision, marker>>
        /\ UNCHANGED <<revision, nextRevision, todo, delta, nextRev>>
        /\ pc = "channel" /\ pc' \in {"focus", "channel"} /\ k.found
    BY DEF ApplyChannel, Node, contacts, own
  <1>2. k \in Cursors /\ c \in known /\ c \in Cards
    BY CurType, Numbers
  <1>3. PICK j \in cur' : /\ cur' = {j}
                          /\ j.card = c /\ j.goal = k.goal /\ j.again = k.again
                          /\ ~j.found /\ j.entity.revision = 0
    BY <1>2 DEF ApplyChannel, Cursors, NoEntity
  <1>4. /\ \A d \in Cards : d # c => copy'[d] = copy[d]
        /\ \/ ~k.entity.shared /\ copy'[c] = NoCopy
           \/ /\ k.entity.shared /\ k.entity.revision # copy[c].revision
              /\ copy'[c] = [revision |-> k.entity.revision, content |-> slot[c].topic]
           \/ /\ k.entity.shared /\ k.entity.revision = copy[c].revision
              /\ copy'[c] = copy[c]
    BY <1>2 DEF ApplyChannel, TypeOK
  <1>5. /\ 1 <= k.goal /\ k.goal <= slot[c].revision
        /\ IF k.again THEN marker[c] # 0 ELSE revision < row[c].revision
        /\ channelRevision[c] < slot[c].revision
        /\ k.entity.revision <= slot[c].topic
        /\ Owed(k) => /\ k.entity.revision = slot[c].topic
                      /\ k.entity.shared = slot[c].shared
    BY <1>1 DEF LoopInv, Cursor
  <1> HIDE DEF c
  <1>6. \A d \in Cards : d # c => Matches(d)' = Matches(d)
    BY <1>1, <1>4 DEF Matches
  <1>7. \A d \in Cards : d # c => Handled(d)' = Handled(d)
    BY <1>1, <1>6 DEF Handled, Shown
  <1>8. Owed(k) => Matches(c)'
    <2> SUFFICES ASSUME Owed(k) PROVE Matches(c)'
      OBVIOUS
    <2>0. /\ k.entity.revision = slot[c].topic /\ k.entity.shared = slot[c].shared
          /\ slot[c].shared \in BOOLEAN /\ slot'[c] = slot[c]
      BY <1>1, <1>2, <1>5, Numbers
    <2>1. CASE ~k.entity.shared /\ copy'[c] = NoCopy
      BY <2>0, <2>1 DEF Matches
    <2>2. CASE /\ k.entity.shared
               /\ copy'[c] = [revision |-> k.entity.revision, content |-> slot[c].topic]
      BY <2>0, <2>2 DEF Matches
    <2>3. CASE k.entity.shared /\ k.entity.revision = copy[c].revision /\ copy'[c] = copy[c]
      <3>1. copy[c].content = slot[c].topic
        <4>1. /\ copy[c].revision <= copy[c].content /\ copy[c].content <= slot[c].topic
              /\ copy[c].content \in Nat /\ slot[c].topic \in Nat
          BY <1>2, Numbers DEF LoopInv, Bounded
        <4> QED
          BY <2>0, <2>3, <4>1
      <3> QED
        BY <2>0, <2>3, <3>1 DEF Matches
    <2> QED
      BY <1>4, <2>1, <2>2, <2>3
  <1>9. CopyCurrent'
    BY <1>1, <1>2, <1>5, <1>6, Numbers DEF CopyCurrent
  <1>10. k.again /\ Handled(c) => Handled(c)'
    BY <1>1, <1>5 DEF Handled, Shown
  <1>11. NothingForgotten'
    BY <1>1, <1>2, <1>5, <1>7, <1>10, Numbers DEF NothingForgotten
  <1>12. Bounded'
    <2>1. copy'[c].revision <= copy'[c].content /\ copy'[c].content <= slot[c].topic
      BY <1>2, <1>4, <1>5, Numbers DEF LoopInv, Bounded, NoCopy
    <2> QED
      BY <1>1, <1>2, <1>4, <2>1, Numbers DEF LoopInv, Bounded
  <1>13. Phases' /\ Deltas'
    BY <1>1, <1>3 DEF LoopInv, Phases, Deltas
  <1>14. Cursor'
    <2>1. Owed(j)' => Owed(k)
      BY <1>1, <1>3 DEF Owed, c
    <2> QED
      BY <1>1, <1>2, <1>3, <1>5, <1>8, <2>1, Numbers DEF Cursor
  <1>15. Announced'
    <2> SUFFICES ASSUME NEW d \in Cards, row[d].revision <= nextRev
                 PROVE  \/ Handled(d)'
                        \/ \E e \in delta : /\ e.card = d /\ e.live = row[d].live
                                            /\ e.notified = row[d].notified
                        \/ \E l \in cur' : /\ l.card = d /\ ~l.again /\ row[d].live
                                           /\ l.goal = row[d].notified
      BY <1>1 DEF Announced
    <2>1. \/ Handled(d)
          \/ \E e \in delta : /\ e.card = d /\ e.live = row[d].live
                              /\ e.notified = row[d].notified
          \/ k.card = d /\ ~k.again /\ row[d].live /\ k.goal = row[d].notified
      BY DEF LoopInv, Phases, Announced
    <2>2. CASE Handled(d) /\ d # c
      BY <1>7, <2>2
    <2>3. CASE Handled(d) /\ d = c /\ k.again
      BY <1>10, <2>3
    <2>4. CASE Handled(d) /\ d = c /\ ~k.again
      BY <1>1, <1>2, <1>8, <2>4, Numbers DEF Handled, Shown, Owed, c
    <2>5. CASE k.card = d /\ ~k.again /\ row[d].live /\ k.goal = row[d].notified
      BY <1>3, <2>5 DEF c
    <2> QED
      BY <2>1, <2>2, <2>3, <2>4, <2>5
  <1> QED
    BY <1>9, <1>11, <1>12, <1>13, <1>14, <1>15 DEF Rest, LoopInv

\* What the device owes is there when it takes the revision for reached.
LEMMA StoreRevisionKeeps ==
    ASSUME IInv, NEW k \in cur, StoreRevision(k)
    PROVE  Rest'
  <1> USE DEF IInv
  <1> DEFINE c == k.card
  <1>1. /\ UNCHANGED <<slot, pending, row, cardRevision, known, copy, marker>>
        /\ UNCHANGED <<revision, nextRevision, todo, delta, nextRev>>
        /\ pc = "channel" /\ ~k.found
        /\ IF k.again THEN pc' = "clear" /\ cur' = cur ELSE pc' = "apply" /\ cur' = {}
    BY DEF StoreRevision, Node, contacts, own
  <1>2. c \in known /\ c \in Cards /\ cur = {k}
    BY Numbers DEF LoopInv, Phases
  <1>3. /\ channelRevision'[c] = k.goal
        /\ \A d \in Cards : d # c => channelRevision'[d] = channelRevision[d]
    BY <1>2 DEF StoreRevision, TypeOK
  <1>4. /\ 1 <= k.goal /\ k.goal <= slot[c].revision
        /\ Owed(k) => Matches(c)
    BY <1>1 DEF LoopInv, Cursor
  <1>5. \A d \in Cards : Matches(d)' = Matches(d)
    BY <1>1 DEF Matches
  <1>6. \A d \in Cards : Handled(d)' = Handled(d)
    BY <1>1, <1>5 DEF Handled, Shown
  <1>7. CopyCurrent'
    <2>1. slot[c].revision <= k.goal => Matches(c)
      BY <1>4 DEF Owed
    <2> HIDE DEF c
    <2> QED
      BY <1>1, <1>2, <1>3, <1>5, <2>1, Numbers DEF CopyCurrent
  <1>8. NothingForgotten'
    BY <1>1, <1>6 DEF NothingForgotten
  <1>9. Bounded'
    BY <1>1, <1>2, <1>3, <1>4, Numbers DEF LoopInv, Bounded
  <1>10. Phases' /\ Deltas'
    BY <1>1, <1>2 DEF LoopInv, Phases, Deltas
  <1>11. Cursor'
    <2>1. CASE k.again
      <3>1. Owed(k)' => Owed(k)
        BY <1>1 DEF Owed
      <3> QED
        BY <1>1, <1>2, <1>4, <1>5, <2>1, <3>1, Numbers DEF LoopInv, Cursor
    <2>2. CASE ~k.again
      BY <1>1, <2>2 DEF Cursor
    <2> QED
      BY <2>1, <2>2
  <1>12. Announced'
    <2> SUFFICES ASSUME NEW d \in Cards, row[d].revision <= nextRev
                 PROVE  \/ Handled(d)
                        \/ \E e \in delta : /\ e.card = d /\ e.live = row[d].live
                                            /\ e.notified = row[d].notified
      BY <1>1, <1>6 DEF Announced
    <2>1. \/ Handled(d)
          \/ \E e \in delta : /\ e.card = d /\ e.live = row[d].live
                              /\ e.notified = row[d].notified
          \/ c = d
      BY <1>2 DEF LoopInv, Announced
    <2>2. CASE c = d
      BY <1>2, <1>4, <2>2 DEF Owed, Handled, Shown, LoopInv, Deltas, Announced
    <2> QED
      BY <2>1, <2>2
  <1> QED
    BY <1>7, <1>8, <1>9, <1>10, <1>11, <1>12 DEF Rest, LoopInv

LEMMA ClearMarkerKeeps ==
    ASSUME IInv, NEW k \in cur, ClearMarker(k)
    PROVE  Rest'
  <1> USE DEF IInv
  <1> DEFINE c == k.card
  <1>1. /\ UNCHANGED <<slot, pending, row, cardRevision, known, channelRevision, copy>>
        /\ UNCHANGED <<revision, nextRevision, todo, delta, nextRev>>
        /\ pc = "clear" /\ pc' = "resync" /\ cur' = {}
    BY DEF ClearMarker, Node, contacts, own
  <1>2. c \in known /\ c \in Cards /\ k.again /\ delta = {} /\ nextRev = 0 /\ ~k.found
    BY <1>1, Numbers DEF LoopInv, Phases
  <1>3. /\ marker'[c] = 0
        /\ \A d \in Cards : d # c => marker'[d] = marker[d]
    BY <1>2 DEF ClearMarker, TypeOK
  <1>4. Owed(k) => Matches(c)
    BY <1>1, <1>2 DEF LoopInv, Cursor
  <1>5. \A d \in Cards : Matches(d)' = Matches(d)
    BY <1>1 DEF Matches
  <1>6. \A d \in Cards : d # c => Handled(d)' = Handled(d)
    BY <1>1, <1>3, <1>5 DEF Handled, Shown
  <1>7. row[c].revision <= revision /\ Handled(c) => Handled(c)'
    BY <1>1, <1>2, <1>4, <1>5 DEF Handled, Shown, Owed
  <1>8. CopyCurrent'
    BY <1>1, <1>5, Numbers DEF CopyCurrent
  <1>9. NothingForgotten'
    BY <1>1, <1>6, <1>7 DEF NothingForgotten
  <1>10. Bounded'
    BY <1>1, <1>2, <1>3, Numbers DEF LoopInv, Bounded
  <1>11. Phases' /\ Deltas' /\ Cursor'
    BY <1>1, <1>2 DEF LoopInv, Phases, Deltas, Cursor
  <1>12. Announced'
    BY <1>1, <1>2, Numbers DEF LoopInv, Bounded, Announced
  <1> QED
    BY <1>8, <1>9, <1>10, <1>11, <1>12 DEF Rest, LoopInv

\* The marker stands for what could not be asked for.
LEMMA FailKeeps ==
    ASSUME IInv, NEW k \in cur, ContactFails(k)
    PROVE  Rest'
  <1> USE DEF IInv
  <1> DEFINE c == k.card
  <1>1. /\ UNCHANGED <<slot, pending, row, cardRevision, known, channelRevision, copy>>
        /\ UNCHANGED <<revision, nextRevision, todo, delta, nextRev>>
        /\ cur' = {}
        /\ pc' = IF k.again THEN "resync" ELSE "apply"
    BY DEF ContactFails, Back, Node, contacts, own
  <1>2. /\ c \in known /\ c \in Cards /\ cur = {k}
        /\ 1 <= k.goal /\ k.goal <= slot[c].revision /\ (k.again => marker[c] # 0)
    BY Numbers DEF LoopInv, Phases, Cursor
  <1>3. /\ IF k.again THEN marker'[c] = marker[c] ELSE marker'[c] = k.goal
        /\ \A d \in Cards : d # c => marker'[d] = marker[d]
    BY <1>2 DEF ContactFails, TypeOK
  <1>4. marker'[c] # 0
    BY <1>2, <1>3, Numbers
  <1>5. \A d \in Cards : Matches(d)' = Matches(d)
    BY <1>1 DEF Matches
  <1>6. \A d \in Cards : Handled(d) => Handled(d)'
    BY <1>1, <1>3, <1>4, <1>5 DEF Handled, Shown
  <1>7. CopyCurrent'
    BY <1>1, <1>5, Numbers DEF CopyCurrent
  <1>8. NothingForgotten'
    BY <1>1, <1>6 DEF NothingForgotten
  <1>9. Bounded'
    BY <1>1, <1>2, <1>3, Numbers DEF LoopInv, Bounded
  <1>10. Phases' /\ Deltas' /\ Cursor'
    BY <1>1, <1>2 DEF LoopInv, Phases, Deltas, Cursor
  <1>11. row[c].live => Handled(c)'
    BY <1>1, <1>2, <1>4 DEF Handled, Shown
  <1>12. Announced'
    BY <1>1, <1>2, <1>6, <1>11 DEF LoopInv, Announced
  <1> QED
    BY <1>7, <1>8, <1>9, <1>10, <1>12 DEF Rest, LoopInv

-----------------------------------------------------------------------------
LEMMA RestStep == IInv /\ [Next]_vars => Rest'
  <1> SUFFICES ASSUME IInv, [Next]_vars PROVE Rest'
    OBVIOUS
  <1>1. ASSUME NEW n \in pending, NotReceived(n)
        PROVE  Rest'
    BY <1>1, TurnKeeps DEF NotReceived, own, Device, entries, loop
  <1>2. CASE Stop
    BY <1>2, TurnKeeps DEF Stop, contacts, own, entries
  <1>3. CASE SetRevision
    BY <1>3, TurnKeeps DEF SetRevision, Kick, IInv, LoopInv, Phases, contacts, own, entries, loop
  <1>4. ASSUME NEW c \in Cards, ResyncCard(c)
        PROVE  Rest'
    BY <1>4, TurnKeeps DEF ResyncCard, Kick, IInv, LoopInv, Phases, contacts, own, entries, loop
  <1>5. pc = "head" \/ pc = "resync" \/ pc = "cards" => cur = {} /\ delta = {} /\ nextRev = 0
    BY DEF IInv, TypeOK, LoopInv, Phases
  <1>6. CASE StartResync
    BY <1>5, <1>6, TurnKeeps DEF StartResync, Node, contacts, own, entries
  <1>7. CASE NoResync
    BY <1>5, <1>7, TurnKeeps DEF NoResync, IInv, LoopInv, Phases, Node, contacts, own, entries, loop
  <1>8. CASE ClearResync
    BY <1>5, <1>8, TurnKeeps DEF ClearResync, Node, contacts, own, entries, loop
  <1>9. CASE NoCards \/ GetCardsFails
    BY <1>5, <1>9, TurnKeeps DEF NoCards, GetCardsFails, EndPass, IInv, LoopInv, Phases,
       Node, contacts, own, entries, loop
  <1>10. CASE FocusReturns
    BY <1>10, TurnKeeps DEF FocusReturns, Node, contacts, own, entries, loop
  <1>11. CASE UNCHANGED vars
    BY <1>11, TurnKeeps DEF vars, contacts, own, entries, loop
  <1> QED
    BY <1>1, <1>2, <1>3, <1>4, <1>6, <1>7, <1>8, <1>9, <1>10, <1>11, ContactKeeps, NotifyKeeps,
       RemoveKeeps, GetCardsKeeps, FinishKeeps, ApplyRemovedKeeps, ApplyCardKeeps, ResyncKeeps,
       FetchKeeps, ApplyChannelKeeps, StoreRevisionKeeps, ClearMarkerKeeps, FailKeeps
    DEF Next, Contact, Queue, App, Sends

\* In the beginning the device is in step with every contact.
LEMMA InitHolds == Init => IInv
  <1> SUFFICES ASSUME Init PROVE IInv
    OBVIOUS
  <1> USE BoundsAssumption DEF Init
  <1>1. TypeOK
    BY DEF TypeOK, Revs, Entities
  <1>2. CopyCurrent /\ NothingForgotten
    BY DEF CopyCurrent, NothingForgotten, Handled, Shown, Matches
  <1>3. LoopInv
    BY DEF LoopInv, Bounded, Phases, Deltas, Cursor, Announced
  <1> QED
    BY <1>1, <1>2, <1>3 DEF IInv

LEMMA Inductive == Spec => []IInv
  <1>1. IInv /\ [Next]_vars => IInv'
    BY TypeStep, RestStep DEF IInv, Rest
  <1> QED
    BY <1>1, InitHolds, PTL DEF Spec

\* The state is what the program's tables and variables hold.
THEOREM TypeCorrect == Spec => []TypeOK
  <1>1. IInv => TypeOK
    BY DEF IInv
  <1> QED
    BY <1>1, Inductive, PTL

\* The revision of an entry can be trusted: the copy is what the contact has of
\* the channel, whatever failed and whenever the device stopped (syncChannels).
THEOREM CopiesAreCurrent == Spec => []CopyCurrent
  <1>1. IInv => CopyCurrent
    BY DEF IInv
  <1> QED
    BY <1>1, Inductive, PTL

\* A change the own node announced is shown or marked, and a removed card gone,
\* once the device has taken the announcement for handled (ContactModule.sync).
THEOREM NeverForgets == Spec => []NothingForgotten
  <1>1. IInv => NothingForgotten
    BY DEF IInv
  <1> QED
    BY <1>1, Inductive, PTL

\* The notes of the loop agree, wherever it waits for an answer.
THEOREM LoopCorrect == Spec => []LoopInv
  <1>1. IInv => LoopInv
    BY DEF IInv
  <1> QED
    BY <1>1, Inductive, PTL
=============================================================================
