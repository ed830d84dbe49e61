--------------------------- MODULE TopicSyncProofs ---------------------------
(***************************************************************************)
(* Proofs about TopicSync, for channels of any size, pages of any size and *)
(* any times of creation.                                                  *)
(***************************************************************************)
EXTENDS TopicSync, SequenceTheorems, FiniteSetTheorems, TLAPS

Slot == [revision : Revs, detail : Revs, live : BOOLEAN, swept : BOOLEAN]
Topic == [id : 1..MaxSlots, live : BOOLEAN, detail : Revs]
Reply == [header : Revs, asked : Revs, inline : BOOLEAN, from : 0..MaxSlots,
          marker : 0..MaxSlots, topics : SUBSET Topic]
States == {"closed", "idle", "head", "page", "applyPage", "mid", "delta", "applyDelta"}

Applying == pc \in {"applyPage", "applyDelta"}
Asking == pc \in {"page", "applyPage", "delta", "applyDelta"}

ServerShape ==
    /\ slots \in Seq(Slot) /\ Len(slots) <= MaxSlots
    /\ revision \in Revs /\ topicRevision \in Revs

DeviceShape ==
    /\ DOMAIN store \subseteq Slots /\ \A s \in DOMAIN store : store[s] \in Rows
    /\ DOMAIN mem \subseteq DOMAIN store /\ \A s \in DOMAIN mem : mem[s] \in Rows
    /\ storeView \in [revision : Revs, marker : 0..MaxSlots]
    /\ floor \in 1..MaxSlots

PassShape ==
    /\ told \in Revs /\ nextRevision \in Revs
    /\ localComplete \in BOOLEAN /\ loadMore \in BOOLEAN /\ justAdded \in BOOLEAN
    /\ closing \in BOOLEAN /\ connected \in BOOLEAN
    /\ pc \in States
    /\ reply \in Reply /\ (Applying => reply.from >= 1)

Shape == ServerShape /\ DeviceShape /\ PassShape

\* The revisions the device has are revisions of the channel.
SlotBounds ==
    /\ revision >= 1
    /\ \A s \in Slots : /\ 1 <= slots[s].detail /\ slots[s].detail <= slots[s].revision
                        /\ slots[s].revision <= revision
ViewBounds ==
    /\ storeView.revision <= revision
    /\ Asking => /\ 1 <= reply.header /\ storeView.revision <= reply.header
                 /\ reply.header <= revision

\* The copy starts at the floor; from there to the marker is less than a page.
Near(from, marker) == marker # 0 => from <= marker /\ marker - from < Batch

Window ==
    /\ storeView.revision = 0 => storeView.marker = 0
    /\ Near(floor, storeView.marker)
    /\ pc \in {"page", "applyPage"} => MoreRemote
    /\ pc = "applyPage" =>
        /\ Near(reply.from, reply.marker)
        /\ storeView.revision # 0 => reply.marker < storeView.marker /\ reply.from <= floor
    /\ (pc = "applyDelta" /\ storeView.revision # 0) => reply.from = floor

\* What an answer speaks of are slots of the channel.
Ids == Applying => \A e \in reply.topics : e.id \in Slots

Base == Shape /\ SlotBounds /\ ViewBounds /\ Window /\ Ids

-----------------------------------------------------------------------------
(* The operators the model is built from.                                  *)

LEMMA LeastIs ==
    ASSUME NEW S \in SUBSET Nat, S # {}
    PROVE  Least(S) \in S /\ \A t \in S : Least(S) <= t
  <1>1. PICK m \in S : \A n \in S : ~(<<n, m>> \in OpToRel(<, Nat))
    BY NatLessThanWellFounded, WFMin
  <1>2. \A n \in S : m <= n
    <2>1. \A n \in S : ~(n < m)
      BY <1>1 DEF OpToRel
    <2> QED
      BY <2>1
  <1>3. \E s \in S : \A t \in S : s <= t
    BY <1>2
  <1> QED
    BY <1>3 DEF Least

\* The newest slots below one are an interval.
LEMMA NewestBelow ==
    ASSUME NEW k \in Nat, NEW n \in Nat
    PROVE  Newest(1..k, n) = {s \in 1..k : k - s < n}
  <1>1. ASSUME NEW s \in 1..k
        PROVE  Cardinality({t \in 1..k : t > s}) = k - s
    <2>1. {t \in 1..k : t > s} = (s + 1)..k
      OBVIOUS
    <2>2. Cardinality((s + 1)..k) = IF s + 1 > k THEN 0 ELSE k - (s + 1) + 1
      BY FS_Interval
    <2>3. Cardinality((s + 1)..k) = k - s
      BY <2>2
    <2> QED
      BY <2>1, <2>3, Zenon
  <1> QED
    BY <1>1 DEF Newest

LEMMA SlotFacts ==
    ASSUME ServerShape
    PROVE  /\ Len(slots) \in 0..MaxSlots /\ Slots \subseteq 1..MaxSlots /\ Slots = DOMAIN slots
           /\ \A s \in Slots : slots[s] \in Slot
           /\ MaxSlots \in Nat \ {0} /\ MaxRevision \in Nat /\ Batch \in Nat \ {0}
  BY BoundsAssumption, LenProperties, ElementOfSeq DEF ServerShape, Slots

LEMMA Next1Is ==
    ASSUME reply \in Reply, reply.topics # {}
    PROVE  Next1 \in reply.topics /\ Next1 \in Topic
  <1> DEFINE ids == {e.id : e \in reply.topics}
  <1>1. reply.topics \subseteq Topic
    BY DEF Reply
  <1>2. ids \in SUBSET Nat /\ ids # {}
    BY <1>1 DEF Topic
  <1> HIDE DEF ids
  <1>3. Least(ids) \in ids /\ \A t \in ids : Least(ids) <= t
    BY <1>2, LeastIs
  <1>4. PICK e \in reply.topics : e.id = Least(ids)
    BY <1>3 DEF ids
  <1>5. \A o \in reply.topics : e.id <= o.id
    BY <1>3, <1>4 DEF ids
  <1> QED
    BY <1>1, <1>4, <1>5 DEF Next1

\* What a page holds: the newest slots below the end, and its marker is the
\* oldest of them that has a topic.
LEMMA PageIs ==
    ASSUME ServerShape, reply \in Reply, NEW end \in 0..MaxSlots, NEW r, r = PageOf(end)
    PROVE  \E k \in 0..Len(slots) :
           /\ end = 0 => k = Len(slots)
           /\ end # 0 => k < end /\ \A s \in Slots : s < end => s <= k
           /\ r \in Reply /\ r.header = reply.header /\ r.inline = TRUE
           /\ r.from \in 1..MaxSlots /\ (r.from = 1 \/ r.from = k - Batch + 1)
           /\ \A s \in 1..k : r.from <= s /\ slots[s].live => Entity(s) \in r.topics
           /\ \A e \in r.topics : /\ e.id \in 1..k /\ slots[e.id].live /\ e = Entity(e.id)
                                  /\ r.marker # 0 /\ r.marker <= e.id /\ r.from <= e.id
           /\ r.marker <= k
           /\ r.marker # 0 => /\ r.from <= r.marker /\ r.marker - r.from < Batch
                              /\ \A s \in Slots : r.from <= s /\ s < r.marker => ~slots[s].live
  <1> DEFINE below == {s \in Slots : end = 0 \/ s < end}
             k == IF end = 0 \/ Len(slots) < end THEN Len(slots) ELSE end - 1
             ids == Newest(below, Batch)
             live == {s \in ids : slots[s].live}
             from == IF Cardinality(ids) < Batch THEN 1 ELSE Least(ids)
             marker == IF live = {} THEN 0 ELSE Least(live)
             topics == {Entity(s) : s \in live}
  <1>0. /\ Len(slots) \in Nat /\ Len(slots) <= MaxSlots /\ end \in Nat
        /\ Batch \in Nat \ {0} /\ MaxSlots \in Nat \ {0}
        /\ \A s \in Slots : slots[s] \in Slot
    BY SlotFacts
  <1>1. k \in 0..Len(slots) /\ below = 1..k
    BY <1>0 DEF Slots
  <1>2. /\ end = 0 => k = Len(slots)
        /\ end # 0 => k < end /\ \A s \in Slots : s < end => s <= k
    BY <1>0 DEF Slots
  <1> HIDE DEF below, k
  <1>3. ids = {s \in 1..k : k - s < Batch}
    <2>1. k \in Nat /\ Batch \in Nat
      BY <1>0, <1>1
    <2>2. Newest(1..k, Batch) = {s \in 1..k : k - s < Batch}
      BY <2>1, NewestBelow
    <2> QED
      BY <1>1, <2>2
  <1> HIDE DEF ids
  <1>4. from \in 1..MaxSlots /\ from = IF k < Batch THEN 1 ELSE k - Batch + 1
    <2>1. CASE k < Batch
      <3>1. ids = 1..k
        BY <1>0, <1>1, <1>3, <2>1
      <3>2. Cardinality(1..k) = k
        <4>1. 1 \in Int /\ k \in Int /\ k \in Nat
          BY <1>0, <1>1
        <4>2. Cardinality(1..k) = IF 1 > k THEN 0 ELSE k - 1 + 1
          BY <4>1, FS_Interval
        <4> QED
          BY <4>1, <4>2
      <3> QED
        BY <1>0, <2>1, <3>1, <3>2
    <2>2. CASE ~(k < Batch)
      <3>1. ids = (k - Batch + 1)..k
        BY <1>0, <1>1, <1>3, <2>2
      <3>2. k - Batch + 1 \in Int /\ k \in Int /\ ~(k - Batch + 1 > k)
        BY <1>0, <1>1
      <3>3. Cardinality(ids) = k - (k - Batch + 1) + 1
        <4>1. Cardinality((k - Batch + 1)..k) = k - (k - Batch + 1) + 1
          BY <3>2, FS_Interval
        <4> QED
          BY <3>1, <4>1
      <3>4. Cardinality(ids) = Batch
        BY <1>0, <1>1, <3>3
      <3>5. k - Batch + 1 \in ids /\ ids \in SUBSET Nat
        <4>1. k - Batch + 1 \in Nat /\ k \in Nat /\ k - Batch + 1 <= k
          BY <1>0, <1>1, <2>2
        <4> QED
          BY <3>1, <4>1
      <3>6. Least(ids) = k - Batch + 1
        <4>1. Least(ids) \in ids /\ \A t \in ids : Least(ids) <= t
          BY <3>5, LeastIs
        <4>2. \A t \in ids : k - Batch + 1 <= t
          BY <1>0, <1>1, <2>2, <3>1
        <4>3. k - Batch + 1 <= Least(ids) /\ Least(ids) <= k - Batch + 1
          BY <3>5, <4>1, <4>2
        <4>4. Least(ids) \in Nat
          BY <3>5, <4>1, Zenon
        <4> QED
          BY <3>2, <4>3, <4>4
      <3> QED
        BY <1>0, <1>1, <2>2, <3>4, <3>6
    <2> QED
      BY <2>1, <2>2
  <1>5. live \in SUBSET Nat /\ live \subseteq ids /\ ids \subseteq 1..k
    BY <1>3
  <1>6. /\ marker \in 0..k
        /\ marker # 0 => marker \in live
        /\ \A s \in live : marker # 0 /\ marker <= s
    <2>1. CASE live = {}
      BY <1>1, <2>1
    <2>2. CASE live # {}
      <3>1. Least(live) \in live /\ \A t \in live : Least(live) <= t
        BY <1>5, <2>2, LeastIs
      <3>2. marker = Least(live)
        BY <2>2
      <3>3. Least(live) \in 1..k
        BY <1>5, <3>1, Zenon
      <3> HIDE DEF live, marker
      <3>4. marker \in 1..k /\ marker \in live /\ \A t \in live : marker <= t
        BY <3>1, <3>2, <3>3
      <3> QED
        BY <1>1, <3>4
    <2> QED
      BY <2>1, <2>2
  <1>7. \A s \in 1..k : from <= s <=> s \in ids
    BY <1>0, <1>1, <1>3, <1>4
  <1>8. /\ \A s \in live : Entity(s) \in Topic /\ Entity(s).id = s
        /\ topics \subseteq Topic
    BY <1>0, <1>1, <1>5 DEF Entity, Topic, Slots, Slot
  <1>9. /\ r = [reply EXCEPT !.inline = TRUE, !.from = from, !.marker = marker, !.topics = topics]
    BY DEF PageOf, ids, below
  <1> HIDE DEF from, marker
  <1> HIDE DEF topics
  <1>10. /\ r \in Reply /\ r.header = reply.header /\ r.inline = TRUE
         /\ r.from = from /\ r.marker = marker /\ r.topics = topics
    <2>1. from \in 0..MaxSlots /\ marker \in 0..MaxSlots /\ topics \in SUBSET Topic
      BY <1>0, <1>1, <1>4, <1>6, <1>8
    <2> QED
      BY <1>9, <2>1 DEF Reply
  <1>11. \A s \in 1..k : r.from <= s /\ slots[s].live => Entity(s) \in r.topics
    BY <1>5, <1>7, <1>10 DEF topics
  <1>12. \A e \in r.topics : /\ e.id \in 1..k /\ slots[e.id].live /\ e = Entity(e.id)
                             /\ r.marker # 0 /\ r.marker <= e.id /\ r.from <= e.id
    <2> SUFFICES ASSUME NEW e \in r.topics
                 PROVE  /\ e.id \in 1..k /\ slots[e.id].live /\ e = Entity(e.id)
                        /\ r.marker # 0 /\ r.marker <= e.id /\ r.from <= e.id
      OBVIOUS
    <2>1. PICK s \in live : e = Entity(s)
      BY <1>10 DEF topics
    <2>2. e.id = s
      BY <1>8, <2>1
    <2> QED
      BY <1>5, <1>6, <1>7, <1>10, <2>1, <2>2
  <1>13. ASSUME marker # 0
         PROVE  /\ from <= marker /\ marker - from < Batch
                /\ \A s \in Slots : from <= s /\ s < marker => ~slots[s].live
    <2>1. marker \in ids /\ marker \in 1..k
      BY <1>5, <1>6, <1>13
    <2>2. from <= marker /\ marker - from < Batch
      BY <1>0, <1>1, <1>3, <1>4, <1>7, <2>1
    <2>3. ASSUME NEW s \in Slots, from <= s, s < marker PROVE ~slots[s].live
      <3>1. s \in 1..k
        BY <1>0, <1>1, <2>1, <2>3 DEF Slots
      <3>2. s \in ids
        BY <1>7, <2>3, <3>1
      <3>3. s \in live => marker <= s
        BY <1>6
      <3>4. s \in Nat /\ marker \in Nat
        BY <2>1, <3>1
      <3> QED
        BY <2>3, <3>2, <3>3, <3>4
    <2> QED
      BY <2>2, <2>3
  <1>14. r.from = 1 \/ r.from = k - Batch + 1
    BY <1>4, <1>10
  <1> QED
    BY <1>1, <1>2, <1>4, <1>6, <1>10, <1>11, <1>12, <1>13, <1>14

-----------------------------------------------------------------------------
(* The node.                                                               *)

\* What the node's handlers and the clean-up do to the slots: one that changes
\* is one with a topic, and gets a revision nobody has seen, or is swept.
Grown ==
    /\ ServerShape' /\ Len(slots) <= Len(slots') /\ revision <= revision'
    /\ \A s \in Slots :
        \/ slots'[s] = slots[s]
        \/ /\ slots[s].live /\ revision < slots'[s].revision /\ slots'[s].revision <= revision'
           /\ slots[s].detail <= slots'[s].detail /\ slots'[s].detail <= slots'[s].revision
        \/ /\ slots[s].live /\ ~slots'[s].live /\ slots'[s].swept
           /\ slots'[s].revision = slots[s].revision /\ slots'[s].detail = slots[s].detail
    /\ \A s \in Slots' \ Slots :
        /\ revision < slots'[s].revision /\ slots'[s].revision <= revision'
        /\ 1 <= slots'[s].detail /\ slots'[s].detail <= slots'[s].revision

\* A handler that changes one slot, and the revision with it.
LEMMA SlotChanges ==
    ASSUME ServerShape, SlotBounds, NEW s \in Slots, slots[s].live, NEW r \in Slot,
           slots' = [slots EXCEPT ![s] = r], r.revision = revision + 1,
           r.detail \in {slots[s].detail, revision + 1}, Raise(TRUE)
    PROVE  Grown
  <1>1. /\ revision \in Nat /\ revision < MaxRevision /\ revision' = revision + 1
        /\ topicRevision' = revision + 1 /\ MaxRevision \in Nat
    BY BoundsAssumption DEF ServerShape, Raise, Revs
  <1>2. revision' \in Revs /\ topicRevision' \in Revs
    BY <1>1 DEF Revs
  <1>3. s \in 1..Len(slots) /\ slots \in Seq(Slot)
    BY DEF Slots, ServerShape
  <1>4. /\ slots' \in Seq(Slot) /\ Len(slots') = Len(slots)
        /\ \A t \in 1..Len(slots) : slots'[t] = IF t = s THEN r ELSE slots[t]
    BY <1>3, ExceptSeq
  <1>5. ServerShape' /\ Slots' = Slots
    BY <1>2, <1>4 DEF ServerShape, Slots
  <1>6. /\ slots'[s] = r /\ revision < r.revision /\ r.revision <= revision'
        /\ slots[s].detail <= r.detail /\ r.detail <= r.revision
    <2>1. slots[s].detail \in Nat /\ slots[s].detail <= revision
      BY <1>1, SlotFacts DEF SlotBounds, Slot, Revs
    <2> QED
      BY <1>1, <1>3, <1>4, <2>1
  <1>7. \A t \in Slots : t # s => slots'[t] = slots[t]
    BY <1>4 DEF Slots
  <1>8. Len(slots) <= Len(slots') /\ revision <= revision'
    BY <1>1, <1>3, <1>4, LenProperties
  <1> QED
    BY <1>5, <1>6, <1>7, <1>8 DEF Grown

LEMMA NodeGrows ==
    ASSUME ServerShape, SlotBounds, Node
    PROVE  Grown /\ UNCHANGED Client
  <1>0. /\ revision \in Nat /\ MaxRevision \in Nat /\ slots \in Seq(Slot)
        /\ Len(slots) \in Nat /\ Slots = 1..Len(slots)
    BY SlotFacts DEF ServerShape, Revs, Slots
  <1>1. CASE AddTopic
    <2>1. /\ revision < MaxRevision /\ revision' = revision + 1 /\ topicRevision' = revision + 1
          /\ Len(slots) < MaxSlots /\ UNCHANGED Client
      BY <1>1 DEF AddTopic, Raise
    <2>2. PICK r \in Slot : /\ r.revision = revision + 1 /\ r.detail = revision + 1
                            /\ slots' = Append(slots, r)
      <3>1. revision + 1 \in Revs
        BY <1>0, <2>1 DEF Revs
      <3>2. [revision |-> revision + 1, detail |-> revision + 1,
             live |-> TRUE, swept |-> FALSE] \in Slot
        BY <3>1 DEF Slot
      <3> QED
        BY <1>1, <3>2 DEF AddTopic
    <2>3. /\ slots' \in Seq(Slot) /\ Len(slots') = Len(slots) + 1
          /\ \A s \in 1..Len(slots) : slots'[s] = slots[s]
          /\ slots'[Len(slots) + 1] = r
      BY <1>0, <2>2
    <2>4. ServerShape'
      BY <1>0, <2>1, <2>3, BoundsAssumption DEF ServerShape, Revs
    <2>5. \A s \in Slots' \ Slots : s = Len(slots) + 1
      BY <1>0, <2>3 DEF Slots
    <2> QED
      BY <1>0, <2>1, <2>2, <2>3, <2>4, <2>5 DEF Grown
  <1>2. ASSUME NEW s \in Slots, SetTopicSubject(s) PROVE Grown /\ UNCHANGED Client
    <2>1. slots[s] \in Slot /\ revision + 1 \in Revs /\ Raise(TRUE) /\ slots[s].live
      BY <1>0, <1>2, SlotFacts DEF SetTopicSubject, Raise, Revs
    <2>2. PICK r \in Slot :
             r = [slots[s] EXCEPT !.revision = revision + 1, !.detail = revision + 1]
      BY <2>1 DEF Slot
    <2>3. r.revision = revision + 1 /\ r.detail = revision + 1
      BY <2>1, <2>2 DEF Slot
    <2>4. slots' = [slots EXCEPT ![s] = r]
      BY <1>2, <2>2 DEF SetTopicSubject
    <2> QED
      BY <2>1, <2>3, <2>4, SlotChanges DEF Raise
  <1>3. ASSUME NEW s \in Slots, AddTopicTag(s) PROVE Grown /\ UNCHANGED Client
    <2>1. slots[s] \in Slot /\ revision + 1 \in Revs /\ Raise(TRUE) /\ slots[s].live
      BY <1>0, <1>3, SlotFacts DEF AddTopicTag, Raise, Revs
    <2>2. PICK r \in Slot : r = [slots[s] EXCEPT !.revision = revision + 1]
      BY <2>1 DEF Slot
    <2>3. r.revision = revision + 1 /\ r.detail = slots[s].detail
      BY <2>1, <2>2 DEF Slot
    <2>4. slots' = [slots EXCEPT ![s] = r]
      BY <1>3, <2>2 DEF AddTopicTag
    <2> QED
      BY <2>1, <2>3, <2>4, SlotChanges DEF Raise
  <1>4. ASSUME NEW s \in Slots, RemoveTopic(s) PROVE Grown /\ UNCHANGED Client
    <2>1. slots[s] \in Slot /\ revision + 1 \in Revs /\ Raise(TRUE) /\ slots[s].live
      BY <1>0, <1>4, SlotFacts DEF RemoveTopic, Raise, Revs
    <2>2. PICK r \in Slot : r = [slots[s] EXCEPT !.revision = revision + 1, !.live = FALSE]
      BY <2>1 DEF Slot
    <2>3. r.revision = revision + 1 /\ r.detail = slots[s].detail
      BY <2>1, <2>2 DEF Slot
    <2>4. slots' = [slots EXCEPT ![s] = r]
      BY <1>4, <2>2 DEF RemoveTopic
    <2> QED
      BY <2>1, <2>3, <2>4, SlotChanges DEF Raise
  <1>5. CASE SetTopicRead \/ SetChannelSubject
    <2>1. /\ slots' = slots /\ revision < MaxRevision /\ revision' = revision + 1
          /\ topicRevision' \in {topicRevision, revision + 1} /\ UNCHANGED Client
      BY <1>5 DEF SetTopicRead, SetChannelSubject, Raise
    <2>2. ServerShape'
      BY <1>0, <2>1 DEF ServerShape, Revs
    <2> QED
      BY <1>0, <2>1, <2>2 DEF Grown, Slots
  <1>6. CASE CleanUp
    <2>1. UNCHANGED <<revision, topicRevision, Client>>
      BY <1>6 DEF CleanUp
    <2>2. PICK s \in Slots : slots' = [t \in Slots |->
             IF t <= s /\ slots[t].live THEN [slots[t] EXCEPT !.live = FALSE, !.swept = TRUE]
             ELSE slots[t]]
      BY <1>6 DEF CleanUp
    <2>3. ASSUME NEW t \in Slots
          PROVE  /\ slots'[t] \in Slot
                 /\ \/ slots'[t] = slots[t]
                    \/ /\ slots[t].live /\ ~slots'[t].live /\ slots'[t].swept
                       /\ slots'[t].revision = slots[t].revision
                       /\ slots'[t].detail = slots[t].detail
      <3>1. slots[t] \in Slot
        BY SlotFacts
      <3>2. CASE t <= s /\ slots[t].live
        <4>1. PICK r \in Slot : r = [slots[t] EXCEPT !.live = FALSE, !.swept = TRUE]
          BY <3>1 DEF Slot
        <4>2. slots'[t] = r
          BY <2>2, <3>2, <4>1
        <4>3. ~r.live /\ r.swept /\ r.revision = slots[t].revision /\ r.detail = slots[t].detail
          BY <3>1, <4>1 DEF Slot
        <4> QED
          BY <3>2, <4>2, <4>3
      <3>3. CASE ~(t <= s /\ slots[t].live)
        BY <2>2, <3>1, <3>3
      <3> QED
        BY <3>2, <3>3
    <2>4. slots' \in [1..Len(slots) -> Slot]
      BY <1>0, <2>2, <2>3
    <2>5. slots' \in Seq(Slot)
      BY <1>0, <2>4, SeqDef
    <2>6. Len(slots') = Len(slots)
      BY <1>0, <2>4, <2>5, LenProperties
    <2>7. ServerShape' /\ Slots' = Slots
      BY <2>1, <2>5, <2>6 DEF ServerShape, Slots
    <2> QED
      BY <1>0, <2>1, <2>3, <2>6, <2>7 DEF Grown
  <1> QED
    BY <1>1, <1>2, <1>3, <1>4, <1>5, <1>6 DEF Node

-----------------------------------------------------------------------------
(* Types, revisions and the window, action by action.                      *)

LEMMA NodeBase ==
    ASSUME Base, Node
    PROVE  Base'
  <1> USE DEF Base
  <1>1. Grown /\ UNCHANGED Client
    BY NodeGrows DEF Shape
  <1>2. UNCHANGED <<told, storeView, floor, store, mem, cacheView, localComplete, loadMore,
                    justAdded, closing, connected, nextRevision, pc, reply>>
    BY <1>1 DEF Client, device, flags, view
  <1>3. /\ Slots \subseteq Slots' /\ Slots \subseteq 1..MaxSlots
        /\ Len(slots) \in Nat /\ Len(slots') \in Nat
    BY <1>1, SlotFacts DEF Shape, Slots, Grown, ServerShape
  <1>4. Shape'
    <2>1. DeviceShape'
      BY <1>2, <1>3 DEF Shape, DeviceShape
    <2>2. PassShape'
      BY <1>2 DEF Shape, PassShape, Applying
    <2> QED
      BY <1>1, <2>1, <2>2 DEF Shape, Grown
  <1>5. revision \in Nat /\ revision' \in Nat /\ revision <= revision'
    BY <1>1, BoundsAssumption DEF Shape, Grown, ServerShape, Revs
  <1>6. SlotBounds'
    <2>1. ASSUME NEW s \in Slots
          PROVE  /\ 1 <= slots'[s].detail /\ slots'[s].detail <= slots'[s].revision
                 /\ slots'[s].revision <= revision'
      <3>1. slots[s].revision \in Nat /\ slots[s].detail \in Nat
        BY SlotFacts DEF Shape, Slot, Revs
      <3>2. slots'[s].revision \in Nat /\ slots'[s].detail \in Nat
        <4>1. s \in 1..Len(slots') /\ slots' \in Seq(Slot)
          BY <1>1, <1>3 DEF Grown, ServerShape, Slots
        <4>2. slots'[s] \in Slot
          BY <4>1, ElementOfSeq
        <4> QED
          BY <4>2, BoundsAssumption DEF Slot, Revs
      <3> QED
        BY <1>1, <1>5, <3>1, <3>2 DEF SlotBounds, Grown
    <2>2. \A s \in Slots' \ Slots :
             /\ 1 <= slots'[s].detail /\ slots'[s].detail <= slots'[s].revision
             /\ slots'[s].revision <= revision'
      BY <1>1 DEF Grown
    <2> QED
      BY <1>5, <2>1, <2>2 DEF SlotBounds
  <1>7. ViewBounds'
    <2>1. storeView.revision \in Nat /\ reply.header \in Nat
      BY BoundsAssumption DEF Shape, DeviceShape, PassShape, Reply, Revs
    <2> QED
      BY <1>2, <1>5, <2>1 DEF ViewBounds, Asking
  <1>8. Window'
    BY <1>2 DEF Window, Near, MoreRemote
  <1>9. Ids'
    BY <1>2, <1>3 DEF Ids, Applying
  <1> QED
    BY <1>4, <1>6, <1>7, <1>8, <1>9

\* A step of the device that leaves the two cursors and the answer's numbers.
LEMMA RowsBase ==
    ASSUME Base, UNCHANGED <<slots, revision, topicRevision, storeView, floor>>,
           DeviceShape', PassShape',
           Asking' => /\ pc' = pc /\ reply'.header = reply.header
                      /\ reply'.from = reply.from /\ reply'.marker = reply.marker
                      /\ reply'.topics \subseteq reply.topics
    PROVE  Base'
  <1> USE DEF Base
  <1>1. Shape'
    BY DEF Shape, ServerShape
  <1>2. SlotBounds' /\ ViewBounds'
    BY DEF SlotBounds, ViewBounds, Asking, Slots
  <1>3. Window'
    BY DEF Window, Near, MoreRemote, Asking
  <1>4. Ids'
    BY DEF Ids, Applying, Asking, Slots
  <1> QED
    BY <1>1, <1>2, <1>3, <1>4

\* One that leaves the rows alone, too.
LEMMA QuietBase ==
    ASSUME Base, UNCHANGED <<slots, revision, topicRevision, store, storeView, floor>>,
           mem' = mem \/ DOMAIN mem' = {}, PassShape', Asking' => pc' = pc /\ reply' = reply
    PROVE  Base'
  <1>1. DeviceShape'
    BY DEF Base, Shape, DeviceShape, Slots
  <1> QED
    BY <1>1, RowsBase

\* The steps of the app and the stream, and those of a pass that ask nothing.
LEMMA NoReplyIs == NoReply \in Reply /\ NoReply.inline = FALSE /\ NoReply.topics = {}
  BY BoundsAssumption DEF NoReply, Reply, Revs

LEMMA GonePass ==
    ASSUME Shape, Gone, UNCHANGED told
    PROVE  PassShape' /\ ~Asking' /\ DOMAIN mem' = {}
  <1>1. pc' = "closed" /\ reply' = NoReply /\ nextRevision' = 0 /\ told' = told
    BY DEF Gone
  <1>2. 0 \in Revs /\ told \in Revs
    BY BoundsAssumption DEF Revs, Shape, PassShape
  <1>3. mem' = [s \in {} |-> Blank]
    BY DEF Gone
  <1>4. DOMAIN mem' = {}
    BY <1>3
  <1>5. PassShape'
    BY <1>1, <1>2, NoReplyIs DEF Gone, PassShape, Applying, States
  <1> QED
    BY <1>1, <1>4, <1>5 DEF Asking

LEMMA AppBase ==
    ASSUME Base,
           Open \/ SetRevision \/ Added \/ ViewMoreTopics \/ Disconnect \/ Close \/ Closed
    PROVE  Base'
  <1> USE DEF Base, Shape
  <1>0. \A f : DOMAIN [s \in {} |-> f] = {}
    OBVIOUS
  <1>1. CASE Open
    <2>1. /\ UNCHANGED <<slots, revision, topicRevision, store, storeView, floor, told, reply>>
          /\ DOMAIN mem' = {}
      BY <1>1 DEF Open, server, device
    <2>2. PassShape' /\ ~Asking'
      BY <1>1, <2>1 DEF Open, PassShape, Applying, Asking, States
    <2> QED
      BY <2>1, <2>2, QuietBase
  <1>2. CASE SetRevision
    <2>1. UNCHANGED <<slots, revision, topicRevision, store, storeView, floor, mem, reply,
                      localComplete, loadMore, justAdded, closing, connected>>
      BY <1>2 DEF SetRevision, server, device, view, flags
    <2>2. pc' = pc \/ (pc = "idle" /\ pc' = "head")
      BY <1>2 DEF SetRevision, Kick
    <2>3. told' \in Revs /\ nextRevision' \in Revs
      BY <1>2 DEF SetRevision, PassShape, ServerShape
    <2>4. PassShape' /\ (Asking' => pc' = pc)
      BY <2>1, <2>2, <2>3 DEF PassShape, Applying, Asking, States
    <2> QED
      BY <2>1, <2>4, QuietBase
  <1>3. CASE Added \/ ViewMoreTopics \/ Disconnect \/ Close
    <2>1. UNCHANGED <<slots, revision, topicRevision, store, storeView, floor, mem, reply,
                      told, nextRevision>>
      BY <1>3 DEF Added, ViewMoreTopics, Disconnect, Close, server, device, view
    <2>2. pc' = pc \/ (pc = "idle" /\ pc' = "head")
      BY <1>3 DEF Added, ViewMoreTopics, Disconnect, Close, Kick
    <2>3. PassShape'
      BY <1>3, <2>1, <2>2
         DEF Added, ViewMoreTopics, Disconnect, Close, PassShape, Applying, States
    <2>4. Asking' => pc' = pc
      BY <2>2 DEF Asking
    <2> QED
      BY <2>1, <2>3, <2>4, QuietBase
  <1>4. CASE Closed
    <2>1. UNCHANGED <<slots, revision, topicRevision, store, storeView, floor, told>>
      BY <1>4 DEF Closed, server, device
    <2>2. PassShape' /\ ~Asking' /\ DOMAIN mem' = {}
      BY <1>4, <2>1, GonePass DEF Closed
    <2> QED
      BY <2>1, <2>2, QuietBase
  <1> QED
    BY <1>1, <1>2, <1>3, <1>4

LEMMA QuietPassBase ==
    ASSUME Base, LoadNothing \/ PageFails \/ SkipDelta \/ DeltaFails \/ Leave
    PROVE  Base'
  <1> USE DEF Base, Shape
  <1>1. UNCHANGED <<slots, revision, topicRevision, store, storeView, floor, mem, told,
                    justAdded, closing, connected>>
    BY DEF LoadNothing, PageFails, SkipDelta, DeltaFails, Leave, server, device, view, flags
  <1>2. pc' \in {"idle", "head", "mid"} /\ (reply' = reply \/ reply' = NoReply)
    BY DEF LoadNothing, PageFails, SkipDelta, DeltaFails, Leave, EndPass
  <1>3. localComplete' \in BOOLEAN /\ loadMore' \in BOOLEAN
    BY DEF LoadNothing, PageFails, SkipDelta, DeltaFails, Leave, flags, PassShape
  <1>4. nextRevision' \in Revs
    BY BoundsAssumption
       DEF LoadNothing, PageFails, SkipDelta, DeltaFails, Leave, EndPass, PassShape, Revs
  <1>5. PassShape' /\ ~Asking'
    BY <1>1, <1>2, <1>3, <1>4, NoReplyIs DEF PassShape, Applying, Asking, States
  <1> QED
    BY <1>1, <1>5, QuietBase

LEMMA LoadLocalBase ==
    ASSUME Base, LoadLocal
    PROVE  Base'
  <1> USE DEF Base, Shape
  <1>1. UNCHANGED <<slots, revision, topicRevision, store, storeView, floor, told,
                    justAdded, closing, connected, nextRevision, reply>>
    BY DEF LoadLocal, server, device
  <1>2. PICK rows \in SUBSET DOMAIN store :
          /\ mem' = [s \in DOMAIN mem \cup rows |-> IF s \in rows THEN store[s] ELSE mem[s]]
          /\ localComplete' = (rows = {}) /\ pc' = "mid"
          /\ loadMore' = (Cardinality(rows) <= Batch \div 2)
    BY DEF LoadLocal
  <1>3. DeviceShape'
    BY <1>1, <1>2 DEF DeviceShape, Slots
  <1>4. PassShape' /\ ~Asking'
    <2>1. localComplete' \in BOOLEAN /\ loadMore' \in BOOLEAN
      BY <1>2
    <2> QED
      BY <1>1, <1>2, <2>1 DEF PassShape, Applying, Asking, States
  <1> QED
    BY <1>1, <1>3, <1>4, RowsBase

\* What Merge leaves: the row in both places, or both as they were.
LEMMA MergeIs ==
    ASSUME DeviceShape, NEW s \in Slots, NEW row \in Rows, Merge(s, row)
    PROVE  /\ DOMAIN store' = DOMAIN store \cup {s} /\ DOMAIN mem' = DOMAIN mem \cup {s}
           /\ \A t \in DOMAIN store : t # s => store'[t] = store[t]
           /\ \A t \in DOMAIN mem : t # s => mem'[t] = mem[t]
           /\ \/ store'[s] = row /\ mem'[s] = row
              \/ /\ s \in DOMAIN mem /\ row.revision <= mem[s].revision
                 /\ store'[s] = store[s] /\ mem'[s] = mem[s]
              \/ s \notin DOMAIN mem /\ row.revision = 0 /\ store'[s] = Blank /\ mem'[s] = Blank
  <1> DEFINE has == IF s \in DOMAIN mem THEN mem[s] ELSE Blank
             old == IF s \in DOMAIN mem THEN store ELSE Put(store, s, Blank)
  <1>0. /\ DOMAIN mem \subseteq DOMAIN store /\ row.revision \in Nat
        /\ s \in DOMAIN mem => mem[s].revision \in Nat
        /\ Blank.revision = 0
    BY BoundsAssumption DEF DeviceShape, Rows, Blank
  <1>1. /\ DOMAIN old = DOMAIN store \cup {s}
        /\ \A t \in DOMAIN store : t # s => old[t] = store[t]
        /\ s \in DOMAIN mem => old[s] = store[s]
        /\ s \notin DOMAIN mem => old[s] = Blank
    BY <1>0 DEF Put
  <1>2. \A r : /\ DOMAIN Put(mem, s, r) = DOMAIN mem \cup {s} /\ Put(mem, s, r)[s] = r
               /\ \A t \in DOMAIN mem : t # s => Put(mem, s, r)[t] = mem[t]
    BY DEF Put
  <1>3. CASE row.revision > has.revision
    <2>1. mem' = Put(mem, s, row) /\ store' = [old EXCEPT ![s] = row]
      BY <1>3 DEF Merge
    <2>2. /\ DOMAIN store' = DOMAIN old /\ store'[s] = row
          /\ \A t \in DOMAIN old : t # s => store'[t] = old[t]
      BY <1>1, <2>1
    <2> HIDE DEF old
    <2> QED
      BY <1>1, <1>2, <2>1, <2>2
  <1>4. CASE ~(row.revision > has.revision)
    <2>1. mem' = Put(mem, s, has) /\ store' = old
      BY <1>4 DEF Merge
    <2>2. has.revision \in Nat /\ row.revision <= has.revision
      BY <1>0, <1>4
    <2> HIDE DEF old
    <2>3. CASE s \in DOMAIN mem
      BY <1>1, <1>2, <2>1, <2>2, <2>3
    <2>4. CASE s \notin DOMAIN mem
      BY <1>0, <1>1, <1>2, <2>1, <2>2, <2>4
    <2> QED
      BY <2>3, <2>4
  <1> QED
    BY <1>3, <1>4

LEMMA AskPageBase ==
    ASSUME Base, AskPage
    PROVE  Base'
  <1> USE DEF Base, Shape
  <1>1. /\ UNCHANGED <<slots, revision, topicRevision, store, storeView, floor, told, mem,
                       localComplete, loadMore, justAdded, closing, connected, nextRevision>>
        /\ pc' = "page" /\ MoreRemote
    BY DEF AskPage, server, device, flags, view
  <1>2. reply' \in Reply /\ reply'.header = revision
    <2>1. reply' = [NoReply EXCEPT !.header = revision]
      BY DEF AskPage
    <2> QED
      BY <2>1, NoReplyIs DEF Reply, ServerShape
  <1>3. PassShape' /\ ~Applying'
    BY <1>1, <1>2 DEF PassShape, Applying, States
  <1>4. ServerShape' /\ DeviceShape' /\ SlotBounds'
    BY <1>1 DEF ServerShape, DeviceShape, SlotBounds, Slots
  <1>5. ViewBounds'
    <2>1. revision \in Nat
      BY BoundsAssumption DEF ServerShape, Revs
    <2> QED
      BY <1>1, <1>2, <2>1 DEF ViewBounds, SlotBounds
  <1>6. Window'
    BY <1>1 DEF Window, Near, MoreRemote
  <1> QED
    BY <1>3, <1>4, <1>5, <1>6 DEF Ids

LEMMA AskDeltaBase ==
    ASSUME Base, AskDelta
    PROVE  Base'
  <1> USE DEF Base, Shape
  <1>1. /\ UNCHANGED <<slots, revision, topicRevision, store, storeView, floor, told, mem,
                       localComplete, loadMore, closing, connected>>
        /\ justAdded' = FALSE
    BY DEF AskDelta, server, device, view
  <1>2. CASE connected
    <2>1. /\ reply' = [NoReply EXCEPT !.header = revision, !.asked = nextRevision]
          /\ pc' = "delta" /\ nextRevision' = nextRevision
      BY <1>2 DEF AskDelta
    <2>2. reply' \in Reply /\ reply'.header = revision
      <3>1. nextRevision \in Revs /\ revision \in Revs
        BY DEF ServerShape, PassShape
      <3> QED
        BY <2>1, <3>1, NoReplyIs DEF Reply
    <2>3. PassShape' /\ ~Applying'
      BY <1>1, <2>1, <2>2 DEF PassShape, Applying, States
    <2>4. ServerShape' /\ DeviceShape' /\ SlotBounds'
      BY <1>1 DEF ServerShape, DeviceShape, SlotBounds, Slots
    <2>5. ViewBounds'
      <3>1. revision \in Nat
        BY BoundsAssumption DEF ServerShape, Revs
      <3> QED
        BY <1>1, <2>2, <3>1 DEF ViewBounds, SlotBounds
    <2>6. Window'
      BY <1>1, <2>1 DEF Window, Near, MoreRemote
    <2> QED
      BY <2>3, <2>4, <2>5, <2>6 DEF Ids
  <1>3. CASE ~connected
    <2>1. /\ reply' = reply /\ pc' = "head"
          /\ nextRevision' = IF storeView.revision = nextRevision THEN 0 ELSE nextRevision
      BY <1>3 DEF AskDelta, EndPass
    <2>2. nextRevision' \in Revs
      BY <2>1, BoundsAssumption DEF PassShape, Revs
    <2>3. PassShape' /\ ~Asking'
      BY <1>1, <2>1, <2>2 DEF PassShape, Applying, Asking, States
    <2> QED
      BY <1>1, <2>1, <2>3, QuietBase
  <1> QED
    BY <1>2, <1>3

\* The page that is asked for reaches down to the floor or below it.
LEMMA ServePageBase ==
    ASSUME Base, ServePage
    PROVE  Base'
  <1> USE DEF Base, Shape
  <1>1. /\ UNCHANGED <<slots, revision, topicRevision, store, storeView, floor, told, mem,
                       localComplete, loadMore, justAdded, closing, connected, nextRevision>>
        /\ pc = "page" /\ pc' = "applyPage"
    BY DEF ServePage, server, device, flags, view
  <1>2. PICK end \in 0..MaxSlots : end = storeView.marker
    BY DEF DeviceShape
  <1>3. PICK r : r = PageOf(end) /\ reply' = r
    BY <1>2 DEF ServePage
  <1>4. reply \in Reply
    BY DEF PassShape
  <1>5. PICK k \in 0..Len(slots) :
           /\ end # 0 => k < end
           /\ r \in Reply /\ r.header = reply.header
           /\ r.from \in 1..MaxSlots /\ (r.from = 1 \/ r.from = k - Batch + 1)
           /\ r.marker <= k
           /\ r.marker # 0 => r.from <= r.marker /\ r.marker - r.from < Batch
           /\ \A e \in r.topics : e.id \in 1..k
    BY <1>3, <1>4, PageIs
  <1>6. PassShape'
    BY <1>1, <1>3, <1>5 DEF PassShape, Applying, States
  <1>7. ServerShape' /\ DeviceShape' /\ SlotBounds'
    BY <1>1 DEF ServerShape, DeviceShape, SlotBounds, Slots
  <1>8. ViewBounds'
    BY <1>1, <1>3, <1>5 DEF ViewBounds, Asking
  <1>9. storeView.revision # 0 => r.marker < end /\ r.from <= floor
    <2> SUFFICES ASSUME storeView.revision # 0 PROVE r.marker < end /\ r.from <= floor
      OBVIOUS
    <2>1. end # 0
      BY <1>1, <1>2 DEF Window, MoreRemote
    <2>2. floor <= end /\ end - floor < Batch /\ floor >= 1 /\ floor \in Nat
      BY <1>2, <2>1 DEF Window, Near, DeviceShape
    <2>3. /\ k < end /\ k \in Nat /\ r.marker \in Nat /\ end \in Nat
          /\ Batch \in Nat /\ r.from \in Nat
      BY <1>5, <2>1, SlotFacts DEF Reply
    <2> QED
      BY <1>5, <2>2, <2>3
  <1>10. Window'
    BY <1>1, <1>2, <1>3, <1>5, <1>9 DEF Window, Near, MoreRemote
  <1>11. Ids'
    BY <1>1, <1>3, <1>5, SlotFacts DEF Ids, Slots
  <1> QED
    BY <1>6, <1>7, <1>8, <1>10, <1>11

LEMMA EntityIs ==
    ASSUME ServerShape, NEW s \in Slots
    PROVE  /\ Entity(s) \in Topic /\ Entity(s).id = s
           /\ Entity(s).live = slots[s].live /\ Entity(s).detail = slots[s].detail
  BY SlotFacts DEF Entity, Topic, Slot

\* The delta, when the device has a revision.
DeltaOf == [reply EXCEPT !.from = floor, !.marker = storeView.marker,
                !.topics = {Entity(s) : s \in {t \in Slots :
                    slots[t].revision > storeView.revision /\ t >= storeView.marker}}]

LEMMA DeltaIs ==
    ASSUME ServerShape, DeviceShape, reply \in Reply
    PROVE  /\ DeltaOf \in Reply /\ DeltaOf.header = reply.header
           /\ DeltaOf.inline = reply.inline /\ DeltaOf.from = floor
           /\ \A s \in Slots : slots[s].revision > storeView.revision /\ s >= storeView.marker
                                  => Entity(s) \in DeltaOf.topics
           /\ \A e \in DeltaOf.topics :
                /\ e.id \in Slots /\ e = Entity(e.id) /\ e.id >= storeView.marker
                /\ slots[e.id].revision > storeView.revision
  <1> DEFINE topics == {Entity(s) : s \in {t \in Slots :
                    slots[t].revision > storeView.revision /\ t >= storeView.marker}}
  <1>1. topics \in SUBSET Topic
    BY EntityIs
  <1>2. \A s \in Slots : slots[s].revision > storeView.revision /\ s >= storeView.marker
                                  => Entity(s) \in topics
    OBVIOUS
  <1>3. \A e \in topics : /\ e.id \in Slots /\ e = Entity(e.id) /\ e.id >= storeView.marker
                          /\ slots[e.id].revision > storeView.revision
    <2> SUFFICES ASSUME NEW e \in topics
                 PROVE  /\ e.id \in Slots /\ e = Entity(e.id) /\ e.id >= storeView.marker
                        /\ slots[e.id].revision > storeView.revision
      OBVIOUS
    <2>1. PICK s \in Slots : /\ slots[s].revision > storeView.revision /\ s >= storeView.marker
                             /\ e = Entity(s)
      OBVIOUS
    <2>2. e.id = s
      BY <2>1, EntityIs
    <2> QED
      BY <2>1, <2>2
  <1> HIDE DEF topics
  <1>4. DeltaOf = [reply EXCEPT !.from = floor, !.marker = storeView.marker, !.topics = topics]
    BY DEF DeltaOf, topics
  <1>5. floor \in 0..MaxSlots /\ storeView.marker \in 0..MaxSlots
    BY DEF DeviceShape
  <1>6. /\ DeltaOf \in Reply /\ DeltaOf.header = reply.header /\ DeltaOf.inline = reply.inline
        /\ DeltaOf.from = floor /\ DeltaOf.topics = topics
    BY <1>1, <1>4, <1>5 DEF Reply
  <1> QED
    BY <1>2, <1>3, <1>6

LEMMA ServeDeltaBase ==
    ASSUME Base, ServeDelta
    PROVE  Base'
  <1> USE DEF Base, Shape
  <1>1. /\ UNCHANGED <<slots, revision, topicRevision, store, storeView, floor, told, mem,
                       localComplete, loadMore, justAdded, closing, connected, nextRevision>>
        /\ pc = "delta" /\ pc' = "applyDelta"
    BY DEF ServeDelta, server, device, flags, view
  <1>2. reply \in Reply /\ floor \in 1..MaxSlots
    BY DEF PassShape, DeviceShape
  <1>3. /\ reply' \in Reply /\ reply'.header = reply.header /\ reply'.from \in 1..MaxSlots
        /\ storeView.revision # 0 => reply'.from = floor
        /\ \A e \in reply'.topics : e.id \in Slots
    <2>1. CASE storeView.revision = 0
      <3>1. PICK end \in 0..MaxSlots : end = 0
        BY BoundsAssumption
      <3>2. PICK r : r = PageOf(end)
        OBVIOUS
      <3>3. /\ r \in Reply /\ r.header = reply.header /\ r.from \in 1..MaxSlots
            /\ \A e \in r.topics : e.id \in Slots
        <4>1. PICK k \in 0..Len(slots) :
                /\ r \in Reply /\ r.header = reply.header /\ r.from \in 1..MaxSlots
                /\ \A e \in r.topics : e.id \in 1..k
          BY <1>2, <3>2, PageIs
        <4> QED
          BY <4>1, SlotFacts DEF Slots
      <3> QED
        BY <2>1, <3>1, <3>2, <3>3 DEF ServeDelta
    <2>2. CASE storeView.revision # 0
      <3>1. reply' = DeltaOf
        BY <2>2 DEF ServeDelta, DeltaOf
      <3> QED
        BY <1>2, <2>2, <3>1, DeltaIs
    <2> QED
      BY <2>1, <2>2
  <1>4. PassShape'
    BY <1>1, <1>3 DEF PassShape, Applying, States
  <1>5. ServerShape' /\ DeviceShape' /\ SlotBounds'
    BY <1>1 DEF ServerShape, DeviceShape, SlotBounds, Slots
  <1>6. ViewBounds'
    BY <1>1, <1>3 DEF ViewBounds, Asking
  <1>7. Window'
    BY <1>1, <1>3 DEF Window, Near, MoreRemote
  <1>8. Ids'
    BY <1>1, <1>3 DEF Ids, Slots
  <1> QED
    BY <1>4, <1>5, <1>6, <1>7, <1>8

\* One topic of an answer is applied: it is taken from the answer.
LEMMA TakeIs ==
    ASSUME Base, Applying, reply.topics # {},
           reply' = [reply EXCEPT !.topics = @ \ {Next1}]
    PROVE  /\ Next1 \in reply.topics /\ Next1 \in Topic /\ Next1.id \in Slots
           /\ reply' \in Reply /\ reply'.topics = reply.topics \ {Next1}
           /\ reply'.header = reply.header /\ reply'.from = reply.from
           /\ reply'.marker = reply.marker /\ reply'.inline = reply.inline
  <1>1. reply \in Reply
    BY DEF Base, Shape, PassShape
  <1>2. Next1 \in reply.topics /\ Next1 \in Topic
    BY <1>1, Next1Is
  <1>3. Next1.id \in Slots
    BY <1>2 DEF Base, Ids
  <1> HIDE DEF Next1
  <1>4. reply.topics \ {Next1} \in SUBSET Topic
    BY <1>1 DEF Reply
  <1>5. PICK r \in Reply : r = [reply EXCEPT !.topics = reply.topics \ {Next1}]
    BY <1>1, <1>4 DEF Reply
  <1>6. /\ r.topics = reply.topics \ {Next1} /\ r.header = reply.header
        /\ r.from = reply.from /\ r.marker = reply.marker /\ r.inline = reply.inline
    BY <1>1, <1>5 DEF Reply
  <1>7. reply' = r
    BY <1>5
  <1> QED
    BY <1>2, <1>3, <1>6, <1>7

LEMMA TakeBase ==
    ASSUME Base, Applying, reply.topics # {}, DeviceShape',
           reply' = [reply EXCEPT !.topics = @ \ {Next1}],
           UNCHANGED <<server, told, storeView, floor, flags, nextRevision, cacheView, pc>>
    PROVE  Base'
  <1>1. /\ UNCHANGED <<slots, revision, topicRevision, told, storeView, floor, localComplete,
                       loadMore, justAdded, closing, connected, nextRevision, pc>>
    BY DEF server, flags
  <1>2. /\ reply' \in Reply /\ reply'.topics \subseteq reply.topics
        /\ reply'.header = reply.header /\ reply'.from = reply.from
        /\ reply'.marker = reply.marker
    BY TakeIs
  <1>3. PassShape'
    BY <1>1, <1>2 DEF Base, Shape, PassShape, Applying
  <1> QED
    BY <1>1, <1>2, <1>3, RowsBase

LEMMA RowIs ==
    ASSUME NEW e \in Topic, NEW d \in Revs
    PROVE  \E row \in Rows : /\ row = [revision |-> e.detail, detail |-> d]
                             /\ row.revision = e.detail /\ row.detail = d
  <1>1. e.detail \in Revs
    BY DEF Topic
  <1>2. [revision |-> e.detail, detail |-> d] \in Rows
    BY <1>1 DEF Rows, Revs
  <1> QED
    BY <1>2

LEMMA DeviceMerge ==
    ASSUME Shape, NEW s \in Slots, NEW row \in Rows, Merge(s, row),
           UNCHANGED <<slots, storeView, floor>>
    PROVE  DeviceShape'
  <1>1. /\ DOMAIN store' = DOMAIN store \cup {s} /\ DOMAIN mem' = DOMAIN mem \cup {s}
        /\ \A t \in DOMAIN store : t # s => store'[t] = store[t]
        /\ \A t \in DOMAIN mem : t # s => mem'[t] = mem[t]
        /\ \/ store'[s] = row /\ mem'[s] = row
           \/ s \in DOMAIN mem /\ store'[s] = store[s] /\ mem'[s] = mem[s]
           \/ store'[s] = Blank /\ mem'[s] = Blank
    BY MergeIs DEF Shape
  <1>2. Blank \in Rows
    BY BoundsAssumption DEF Blank, Rows, Revs
  <1> QED
    BY <1>1, <1>2 DEF Shape, DeviceShape, Slots

LEMMA ApplyPageBase ==
    ASSUME Base, ApplyPage
    PROVE  Base'
  <1>1. /\ Applying /\ reply.topics # {}
        /\ Merge(Next1.id, [revision |-> Next1.detail, detail |-> Next1.detail])
        /\ reply' = [reply EXCEPT !.topics = @ \ {Next1}]
        /\ UNCHANGED <<server, told, storeView, floor, flags, nextRevision, cacheView, pc>>
    BY DEF ApplyPage, Applying
  <1>2. Next1 \in Topic /\ Next1.id \in Slots
    BY <1>1, TakeIs
  <1>3. PICK e \in Topic : e = Next1
    BY <1>2
  <1>4. PICK row \in Rows : row = [revision |-> e.detail, detail |-> e.detail]
    <2>1. e.detail \in Revs
      BY DEF Topic
    <2> QED
      BY <2>1, RowIs
  <1>5. Merge(e.id, row) /\ e.id \in Slots
    BY <1>1, <1>2, <1>3, <1>4
  <1>6. DeviceShape'
    BY <1>1, <1>5, DeviceMerge DEF Base, server
  <1> QED
    BY <1>1, <1>6, TakeBase

\* What a topic of the delta does to the rows.
LEMMA ApplyDeltaIs ==
    ASSUME Base, ApplyDelta
    PROVE  \E e \in Topic :
           /\ e = Next1 /\ e \in reply.topics /\ e.id \in Slots
           /\ \/ ~e.live /\ mem' = Drop(mem, e.id) /\ store' = Drop(store, e.id)
              \/ \E row \in Rows :
                  /\ e.live /\ (reply.inline \/ slots[e.id].live)
                  /\ row.revision = e.detail
                  /\ row.detail = IF reply.inline THEN e.detail ELSE slots[e.id].detail
                  /\ \/ InView(e.id) /\ Merge(e.id, row)
                     \/ ~InView(e.id) /\ store' = Put(store, e.id, row) /\ mem' = mem
  <1>1. /\ Applying /\ reply.topics # {}
        /\ reply' = [reply EXCEPT !.topics = @ \ {Next1}]
    BY DEF ApplyDelta, Applying
  <1>2. Next1 \in Topic /\ Next1.id \in Slots /\ Next1 \in reply.topics
    BY <1>1, TakeIs
  <1>3. PICK e \in Topic : e = Next1
    BY <1>2
  <1>4. CASE ~e.live
    BY <1>2, <1>3, <1>4 DEF ApplyDelta
  <1>5. CASE e.live
    <2>1. PICK d \in Revs : d = IF reply.inline THEN e.detail ELSE slots[e.id].detail
      BY <1>2, <1>3, SlotFacts DEF Base, Shape, Topic, Slot
    <2>2. PICK row \in Rows : /\ row = [revision |-> e.detail, detail |-> d]
                              /\ row.revision = e.detail /\ row.detail = d
      BY RowIs
    <2>3. /\ reply.inline \/ slots[e.id].live
          /\ \/ InView(e.id) /\ Merge(e.id, row)
             \/ ~InView(e.id) /\ store' = Put(store, e.id, row) /\ mem' = mem
      BY <1>3, <1>5, <2>1, <2>2 DEF ApplyDelta
    <2> QED
      BY <1>2, <1>3, <1>5, <2>1, <2>2, <2>3
  <1> QED
    BY <1>4, <1>5

LEMMA ApplyDeltaBase ==
    ASSUME Base, ApplyDelta
    PROVE  Base'
  <1>1. /\ Applying /\ reply.topics # {}
        /\ reply' = [reply EXCEPT !.topics = @ \ {Next1}]
        /\ UNCHANGED <<server, told, storeView, floor, flags, nextRevision, cacheView, pc>>
    BY DEF ApplyDelta, Applying
  <1>2. UNCHANGED <<slots, storeView, floor>> /\ Shape
    BY <1>1 DEF server, Base
  <1>3. PICK e \in Topic :
           /\ e.id \in Slots
           /\ \/ mem' = Drop(mem, e.id) /\ store' = Drop(store, e.id)
              \/ \E row \in Rows : \/ Merge(e.id, row)
                                   \/ store' = Put(store, e.id, row) /\ mem' = mem
    BY ApplyDeltaIs
  <1>4. CASE mem' = Drop(mem, e.id) /\ store' = Drop(store, e.id)
    <2>1. DeviceShape'
      BY <1>2, <1>4 DEF Shape, DeviceShape, Slots, Drop
    <2> QED
      BY <1>1, <2>1, TakeBase
  <1>5. ASSUME NEW row \in Rows, Merge(e.id, row) PROVE Base'
    <2>1. DeviceShape'
      BY <1>2, <1>3, <1>5, DeviceMerge
    <2> QED
      BY <1>1, <2>1, TakeBase
  <1>6. ASSUME NEW row \in Rows, store' = Put(store, e.id, row), mem' = mem PROVE Base'
    <2>1. DeviceShape'
      BY <1>2, <1>3, <1>6 DEF Shape, DeviceShape, Slots, Put
    <2> QED
      BY <1>1, <2>1, TakeBase
  <1> QED
    BY <1>3, <1>4, <1>5, <1>6

LEMMA CrashBase ==
    ASSUME Base, Crash
    PROVE  Base'
  <1> USE DEF Base
  <1>1. UNCHANGED <<slots, revision, topicRevision, told, storeView, floor>> /\ Gone
    BY DEF Crash, server
  <1>2. PassShape' /\ ~Asking' /\ DOMAIN mem' = {}
    BY <1>1, GonePass
  <1>3. DOMAIN store' \subseteq Slots /\ \A s \in DOMAIN store' : store'[s] \in Rows
    <2>1. CASE store' = store
      BY <2>1 DEF Shape, DeviceShape
    <2>2. CASE /\ pc \in {"applyPage", "applyDelta"} /\ reply.topics # {}
               /\ store' = Put(store, Next1.id, Blank)
      <3>1. Next1 \in reply.topics
        BY <2>2, Next1Is DEF Shape, PassShape
      <3>2. PICK s \in Slots : s = Next1.id
        BY <2>2, <3>1 DEF Ids, Applying
      <3>3. Blank \in Rows /\ store' = Put(store, s, Blank)
        BY <2>2, <3>2, BoundsAssumption DEF Blank, Rows, Revs
      <3> QED
        BY <3>3 DEF Put, Shape, DeviceShape
    <2> QED
      BY <2>1, <2>2 DEF Crash
  <1>4. DeviceShape'
    BY <1>1, <1>2, <1>3 DEF Shape, DeviceShape, Slots
  <1> QED
    BY <1>1, <1>2, <1>4, RowsBase

LEMMA FinishPageBase ==
    ASSUME Base, FinishPage
    PROVE  /\ Base' /\ storeView.revision <= storeView'.revision
           /\ storeView.revision # 0 => /\ storeView'.marker <= storeView.marker
                                        /\ floor' <= floor
  <1> USE DEF Base, Shape
  <1>1. /\ UNCHANGED <<slots, revision, topicRevision, store, told, mem, localComplete,
                       justAdded, closing, connected, nextRevision>>
        /\ pc = "applyPage" /\ pc' = "mid" /\ reply' = NoReply /\ floor' = reply.from
        /\ loadMore' = FALSE
    BY DEF FinishPage, server, view
  <1>2. PICK rev \in Revs : /\ rev = IF storeView.revision # 0 THEN storeView.revision
                                     ELSE reply.header
                            /\ storeView' = [revision |-> rev, marker |-> reply.marker]
    BY DEF FinishPage, DeviceShape, PassShape, Reply
  <1>3. /\ reply.marker \in 0..MaxSlots /\ reply.from \in 1..MaxSlots
        /\ storeView.revision \in Nat /\ storeView.marker \in Nat /\ reply.header \in Nat
        /\ MaxSlots \in Nat
    BY <1>1, BoundsAssumption DEF PassShape, Reply, Applying, DeviceShape, Revs
  <1>4. /\ storeView'.revision = rev /\ storeView'.marker = reply.marker
        /\ storeView' \in [revision : Revs, marker : 0..MaxSlots]
    BY <1>2, <1>3
  <1>5. rev >= 1 /\ rev >= storeView.revision /\ rev <= revision
    BY <1>1, <1>2, <1>3 DEF ViewBounds, Asking
  <1>6. /\ Near(reply.from, reply.marker)
        /\ storeView.revision # 0 => reply.marker < storeView.marker /\ reply.from <= floor
    BY <1>1 DEF Window
  <1>7. ServerShape' /\ SlotBounds' /\ DeviceShape'
    BY <1>1, <1>3, <1>4 DEF ServerShape, SlotBounds, DeviceShape, Slots
  <1>8. PassShape' /\ ~Asking' /\ Ids'
    BY <1>1, NoReplyIs DEF PassShape, Applying, Asking, States, Ids
  <1>9. ViewBounds'
    BY <1>1, <1>4, <1>5, <1>8 DEF ViewBounds
  <1>10. Window'
    BY <1>1, <1>4, <1>5, <1>6 DEF Window, Near
  <1> QED
    BY <1>1, <1>3, <1>4, <1>5, <1>6, <1>7, <1>8, <1>9, <1>10

LEMMA FinishDeltaBase ==
    ASSUME Base, FinishDelta
    PROVE  /\ Base' /\ storeView.revision <= storeView'.revision
           /\ storeView.revision # 0 => /\ storeView'.marker <= storeView.marker
                                        /\ floor' <= floor
  <1> USE DEF Base, Shape
  <1>1. /\ UNCHANGED <<slots, revision, topicRevision, store, told, mem, localComplete,
                       loadMore, justAdded, closing, connected>>
        /\ pc = "applyDelta" /\ pc' = "head" /\ reply' = NoReply /\ floor' = reply.from
        /\ storeView' = [storeView EXCEPT !.revision = reply.header]
    BY DEF FinishDelta, EndPass, server, view, flags
  <1>2. nextRevision' \in Revs
    BY BoundsAssumption DEF FinishDelta, EndPass, PassShape, Revs
  <1>3. /\ reply.header \in Revs /\ reply.from \in 1..MaxSlots
        /\ storeView.revision \in Nat /\ storeView.marker \in Nat /\ reply.header \in Nat
        /\ floor \in Nat
    BY <1>1, BoundsAssumption DEF PassShape, Reply, Applying, DeviceShape, Revs
  <1>4. /\ storeView'.revision = reply.header /\ storeView'.marker = storeView.marker
        /\ storeView' \in [revision : Revs, marker : 0..MaxSlots]
    BY <1>1, <1>3 DEF DeviceShape
  <1>5. /\ reply.header >= 1 /\ reply.header >= storeView.revision
        /\ reply.header <= revision
    BY <1>1 DEF ViewBounds, Asking
  <1>6. storeView.revision # 0 => reply.from = floor
    BY <1>1 DEF Window
  <1>7. ServerShape' /\ SlotBounds' /\ DeviceShape'
    BY <1>1, <1>3, <1>4 DEF ServerShape, SlotBounds, DeviceShape, Slots
  <1>8. PassShape' /\ ~Asking' /\ Ids'
    BY <1>1, <1>2, NoReplyIs DEF PassShape, Applying, Asking, States, Ids
  <1>9. ViewBounds'
    BY <1>1, <1>4, <1>5, <1>8 DEF ViewBounds
  <1>10. Window'
    BY <1>1, <1>3, <1>4, <1>5, <1>6 DEF Window, Near
  <1> QED
    BY <1>1, <1>3, <1>4, <1>5, <1>6, <1>7, <1>8, <1>9, <1>10

LEMMA InitBase == Init => Base
  <1> SUFFICES ASSUME Init PROVE Base
    OBVIOUS
  <1>0. /\ StartSlots \in Nat /\ StartSlots <= MaxSlots /\ StartSlots < MaxRevision
        /\ MaxSlots \in Nat \ {0} /\ MaxRevision \in Nat
    BY BoundsAssumption
  <1>1. ASSUME NEW s \in 1..StartSlots
        PROVE  slots[s] \in Slot /\ slots[s].revision = s + 1 /\ slots[s].detail = s + 1
    <2>1. slots[s] = [revision |-> s + 1, detail |-> s + 1, live |-> TRUE, swept |-> FALSE]
      BY DEF Init
    <2>2. s + 1 \in Revs
      BY <1>0 DEF Revs
    <2> QED
      BY <2>1, <2>2 DEF Slot
  <1>2. slots \in [1..StartSlots -> Slot]
    <2>1. slots = [s \in 1..StartSlots |-> slots[s]]
      BY DEF Init
    <2> QED
      BY <1>1, <2>1
  <1>3. slots \in Seq(Slot)
    BY <1>0, <1>2, SeqDef
  <1>4. Len(slots) = StartSlots
    BY <1>0, <1>2, <1>3, LenProperties
  <1>5. ServerShape
    BY <1>0, <1>3, <1>4 DEF ServerShape, Init, Revs
  <1>6. DOMAIN store = {} /\ DOMAIN mem = {}
    BY DEF Init
  <1>7. DeviceShape
    BY <1>0, <1>6 DEF DeviceShape, Init, Revs
  <1>8. PassShape
    <2>1. StartSlots + 1 \in Revs /\ 0 \in Revs /\ told = StartSlots + 1
      BY <1>0 DEF Revs, Init
    <2> QED
      BY <2>1, NoReplyIs DEF PassShape, Applying, States, Init
  <1>9. SlotBounds
    BY <1>0, <1>1, <1>4 DEF SlotBounds, Slots, Init
  <1>10. ViewBounds /\ Window /\ Ids
    BY <1>0 DEF ViewBounds, Window, Ids, Near, Asking, Applying, Init
  <1> QED
    BY <1>5, <1>7, <1>8, <1>9, <1>10 DEF Base, Shape

LEMMA StepBase ==
    ASSUME Base, [Next]_vars
    PROVE  /\ Base' /\ storeView.revision <= storeView'.revision
           /\ storeView.revision # 0 => /\ storeView'.marker <= storeView.marker
                                        /\ floor' <= floor
  <1>0. storeView.revision \in Nat /\ storeView.marker \in Nat /\ floor \in Nat
    BY BoundsAssumption DEF Base, Shape, DeviceShape, Revs
  <1>1. CASE FinishPage
    BY <1>1, FinishPageBase
  <1>2. CASE FinishDelta
    BY <1>2, FinishDeltaBase
  <1>3. CASE UNCHANGED vars
    <2>1. UNCHANGED <<slots, revision, topicRevision, store, storeView, floor, mem>>
      BY <1>3 DEF vars, server, device, view
    <2>2. PassShape' /\ pc' = pc /\ reply' = reply
      BY <1>3 DEF vars, flags, Base, Shape, PassShape, Applying
    <2> QED
      BY <1>0, <2>1, <2>2, QuietBase
  <1>4. CASE Node
    <2>1. storeView' = storeView /\ floor' = floor
      BY <1>4, NodeGrows DEF Base, Shape, Client, device
    <2> QED
      BY <1>0, <1>4, <2>1, NodeBase
  <1>5. CASE App \/ SetRevision \/ Added \/ Closed
    <2>1. storeView' = storeView /\ floor' = floor
      BY <1>5 DEF App, Open, ViewMoreTopics, Disconnect, Close, Crash, SetRevision, Added,
                  Closed, device
    <2> QED
      BY <1>0, <1>5, <2>1, AppBase, CrashBase DEF App
  <1>6. CASE LoadNothing \/ PageFails \/ SkipDelta \/ DeltaFails \/ Leave
    <2>1. storeView' = storeView /\ floor' = floor
      BY <1>6 DEF LoadNothing, PageFails, SkipDelta, DeltaFails, Leave, device
    <2> QED
      BY <1>0, <1>6, <2>1, QuietPassBase
  <1>7. CASE LoadLocal \/ AskPage \/ ServePage \/ AskDelta \/ ServeDelta
    <2>1. storeView' = storeView /\ floor' = floor
      BY <1>7 DEF LoadLocal, AskPage, ServePage, AskDelta, ServeDelta, device
    <2> QED
      BY <1>0, <1>7, <2>1, LoadLocalBase, AskPageBase, ServePageBase, AskDeltaBase,
         ServeDeltaBase
  <1>8. CASE ApplyPage \/ ApplyDelta
    <2>1. storeView' = storeView /\ floor' = floor
      BY <1>8 DEF ApplyPage, ApplyDelta
    <2> QED
      BY <1>0, <1>8, <2>1, ApplyPageBase, ApplyDeltaBase
  <1> QED
    BY <1>1, <1>2, <1>3, <1>4, <1>5, <1>6, <1>7, <1>8 DEF Next, Pass

LEMMA BaseTypes == Base => TypeOK
  <1> SUFFICES ASSUME Base PROVE TypeOK
    OBVIOUS
  <1>1. \A s \in Slots : slots[s] \in [revision : Revs, detail : Revs,
                                       live : BOOLEAN, swept : BOOLEAN]
    BY SlotFacts DEF Base, Shape, Slot
  <1>2. pc \in {"closed", "idle", "head", "page", "applyPage", "mid", "delta", "applyDelta"}
    BY DEF Base, Shape, PassShape, States
  <1> QED
    BY <1>1, <1>2 DEF TypeOK, Base, Shape, ServerShape, DeviceShape, PassShape

\* Whatever fails, is torn or swept: every revision the node or the device keeps
\* is one of the channel, and the device has rows of the channel's slots only,
\* those in memory among them (focus.ts sync, getChannelTopics).
THEOREM TopicTypes == Spec => []TypeOK
  <1>1. Base /\ [Next]_vars => Base'
    BY StepBase
  <1> QED
    BY <1>1, InitBase, BaseTypes, PTL DEF Spec

\* The revision a device stores for a channel never goes back, and once it has
\* one the window only reaches further into the past: a page that fails, a
\* device that stops half-way and answers that come late included, since a page
\* always reaches to the floor of the one before (sync's two cursors).
THEOREM TopicWindow == Spec => WindowWidens
  <1>1. Base /\ [Next]_vars =>
           [/\ storeView.revision <= storeView'.revision
            /\ storeView.revision # 0 => storeView'.marker <= storeView.marker
            /\ storeView.revision # 0 => floor' <= floor]_storeView
    BY StepBase
  <1>2. Base /\ [Next]_vars => Base'
    BY StepBase
  <1> QED
    BY <1>1, <1>2, InitBase, PTL DEF Spec, WindowWidens

-----------------------------------------------------------------------------
(* What the device may trust, when it does not stop with a page half stored. *)

\* From the floor to the marker no slot has a topic.
Dead(from, marker) ==
    marker # 0 => /\ marker \in Slots
                  /\ \A s \in Slots : from <= s /\ s < marker => ~slots[s].live

Gap ==
    /\ Dead(floor, storeView.marker)
    /\ pc = "applyPage" => Dead(reply.from, reply.marker)

\* An entity of the answer that is applied: it was true when the answer was made.
AnswerOf(e) ==
    /\ 1 <= e.detail /\ e.detail <= slots[e.id].detail
    /\ e.id \in DOMAIN store => store[e.id].revision <= e.detail
    /\ IF reply.inline THEN e.live ELSE storeView.revision < slots[e.id].revision
    /\ pc = "applyPage" => /\ reply.marker # 0 /\ reply.marker <= e.id
                           /\ storeView.revision # 0 => e.id < floor
    /\ pc = "applyDelta" => storeView.marker <= e.id
    /\ \A o \in reply.topics : o.id = e.id => o = e

Answer ==
    /\ reply.inline <=> pc = "applyPage" \/ (pc = "applyDelta" /\ storeView.revision = 0)
    /\ Applying => \A e \in reply.topics : AnswerOf(e)

Low == IF pc = "applyPage" THEN reply.marker ELSE storeView.marker

\* Rows are never ahead of the slots, nor the view of the rows; and before the
\* first answer there are none.
RowOk(s) ==
    /\ 1 <= store[s].revision /\ store[s].revision <= store[s].detail
    /\ store[s].detail <= slots[s].detail

Stored ==
    /\ \A s \in DOMAIN store : RowOk(s) /\ Low <= s
    /\ \A s \in DOMAIN mem : mem[s].revision <= store[s].revision
    /\ storeView.revision = 0 /\ ~Applying => DOMAIN store = {}

Held(s) ==
    IF slots[s].live THEN s \in DOMAIN store /\ store[s].detail = slots[s].detail
    ELSE s \notin DOMAIN store

\* The revision the device will have when the answer has been applied.
Target == IF pc = "applyPage" /\ storeView.revision # 0 THEN storeView.revision
          ELSE reply.header

\* An answer half applied: what is not stored yet is still in it.
Comes(s) == \E e \in reply.topics :
                e.id = s /\ e.live = slots[s].live /\ e.detail = slots[s].detail

Pending ==
    Applying =>
        \A s \in Slots :
            (reply.from <= s /\ slots[s].revision <= Target /\ ~slots[s].swept) =>
                Comes(s) \/ ((\A e \in reply.topics : e.id # s) /\ Held(s))

Trust == Gap /\ Answer /\ Stored /\ Pending /\ StoreCurrent

LEMMA CurrentIs ==
    StoreCurrent <=> \A s \in Slots :
        (/\ storeView.revision # 0 /\ s >= floor
         /\ slots[s].revision <= storeView.revision /\ ~slots[s].swept) => Held(s)
  BY DEF StoreCurrent, Held

LEMMA CurrentPrime ==
    StoreCurrent' <=> \A s \in Slots' :
        (/\ storeView'.revision # 0 /\ s >= floor'
         /\ slots'[s].revision <= storeView'.revision /\ ~slots'[s].swept) => Held(s)'
  BY DEF StoreCurrent, Held

\* The numbers that are compared are numbers.
LEMMA Numbers ==
    ASSUME Base
    PROVE  /\ Slots \subseteq Nat /\ floor \in Nat /\ revision \in Nat
           /\ storeView.revision \in Nat /\ storeView.marker \in Nat
           /\ reply.header \in Nat /\ reply.marker \in Nat /\ reply.from \in Nat
           /\ \A s \in Slots : slots[s].revision \in Nat /\ slots[s].detail \in Nat
           /\ \A s \in DOMAIN store : store[s].revision \in Nat /\ store[s].detail \in Nat
           /\ \A s \in DOMAIN mem : mem[s].revision \in Nat
           /\ \A e \in reply.topics : e.detail \in Nat /\ e.id \in Nat
  <1>1. /\ Slots \subseteq Nat /\ \A s \in Slots : slots[s] \in Slot
        /\ MaxSlots \in Nat /\ Revs \subseteq Nat
    BY SlotFacts DEF Base, Shape, Slots, Revs
  <1>2. \A s \in Slots : slots[s].revision \in Nat /\ slots[s].detail \in Nat
    BY <1>1 DEF Slot
  <1>3. /\ floor \in Nat /\ storeView.revision \in Nat /\ storeView.marker \in Nat
        /\ \A s \in DOMAIN store : store[s].revision \in Nat /\ store[s].detail \in Nat
        /\ \A s \in DOMAIN mem : mem[s].revision \in Nat
    <2>1. \A row \in Rows : row.revision \in Nat /\ row.detail \in Nat
      BY <1>1 DEF Rows, Revs
    <2>2. floor \in Nat /\ storeView.revision \in Nat /\ storeView.marker \in Nat
      BY BoundsAssumption DEF Base, Shape, DeviceShape, Revs
    <2> QED
      BY <2>1, <2>2 DEF Base, Shape, DeviceShape
  <1>4. /\ reply.header \in Nat /\ reply.marker \in Nat /\ reply.from \in Nat
        /\ \A e \in reply.topics : e.detail \in Nat /\ e.id \in Nat
    <2>1. \A e \in Topic : e.detail \in Nat /\ e.id \in Nat
      BY BoundsAssumption DEF Topic, Revs
    <2>2. reply \in Reply
      BY DEF Base, Shape, PassShape
    <2> QED
      BY BoundsAssumption, <2>1, <2>2 DEF Reply, Revs
  <1>5. revision \in Nat
    BY <1>1 DEF Base, Shape, ServerShape
  <1> QED
    BY <1>1, <1>2, <1>3, <1>4, <1>5

LEMMA NewNumbers ==
    ASSUME ServerShape'
    PROVE  /\ Slots' \subseteq Nat
           /\ \A s \in Slots' : slots'[s].revision \in Nat /\ slots'[s].detail \in Nat
  <1>1. slots' \in Seq(Slot) /\ Slots' = 1..Len(slots') /\ Revs \subseteq Nat
    BY BoundsAssumption DEF ServerShape, Slots, Revs
  <1>2. Len(slots') \in Nat /\ \A s \in Slots' : slots'[s] \in Slot
    BY <1>1, LenProperties, ElementOfSeq
  <1>3. \A s \in Slots' : slots'[s].revision \in Nat /\ slots'[s].detail \in Nat
    BY <1>1, <1>2 DEF Slot
  <1> QED
    BY <1>1, <1>2, <1>3

LEMMA NodeTrust ==
    ASSUME Base, Trust, Node
    PROVE  Trust'
  <1>1. Grown /\ UNCHANGED Client
    BY NodeGrows DEF Base, Shape
  <1>2. UNCHANGED <<storeView, floor, store, mem, pc, reply>>
    BY <1>1 DEF Client, device, view
  <1>3. /\ Slots \subseteq Slots'
        /\ \A s \in Slots' \ Slots : \A t \in Slots : t < s
    BY <1>1, SlotFacts DEF Base, Shape, Slots, Grown, ServerShape
  <1>4. Base'
    BY NodeBase
  <1>5. ASSUME NEW s \in Slots
        PROVE  /\ slots'[s].live => slots[s].live
               /\ slots[s].detail <= slots'[s].detail /\ slots[s].revision <= slots'[s].revision
               /\ slots'[s].revision <= revision /\ ~slots'[s].swept => slots'[s] = slots[s]
    <2>1. /\ slots[s].revision \in Nat /\ slots[s].detail \in Nat /\ revision \in Nat
          /\ slots[s].revision <= revision
      BY Numbers DEF Base, SlotBounds
    <2>2. slots'[s].revision \in Nat /\ slots'[s].detail \in Nat
      <3>1. (\A t \in Slots : slots[t].revision \in Nat /\ slots[t].detail \in Nat)'
        BY <1>4, NewNumbers DEF Base, Shape
      <3> QED
        BY <1>3, <3>1
    <2> QED
      BY <1>1, <2>1, <2>2 DEF Grown
  <1>6. \A s \in Slots' \ Slots : revision < slots'[s].revision /\ slots'[s].revision \in Nat
    <2>1. (\A t \in Slots : slots[t].revision \in Nat)'
      BY <1>4, NewNumbers DEF Base, Shape
    <2> QED
      BY <1>1, <2>1 DEF Grown
  <1>7. Gap'
    <2>1. \A from, marker : Dead(from, marker) =>
             (marker # 0 => /\ marker \in Slots'
                            /\ \A s \in Slots' : from <= s /\ s < marker => ~slots'[s].live)
      <3> SUFFICES ASSUME NEW from, NEW marker, Dead(from, marker), marker # 0
                   PROVE  /\ marker \in Slots'
                          /\ \A s \in Slots' : from <= s /\ s < marker => ~slots'[s].live
        OBVIOUS
      <3>1. marker \in Slots
        BY DEF Dead
      <3>2. ASSUME NEW s \in Slots', from <= s, s < marker PROVE ~slots'[s].live
        <4>1. s \in Slots
          <5>1. s \notin Slots => marker < s
            BY <1>3, <3>1
          <5>2. marker \in Nat /\ s \in Nat
            <6>1. (Slots \subseteq Nat)'
              BY <1>4, NewNumbers DEF Base, Shape
            <6> QED
              BY <1>3, <3>1, <6>1
          <5> QED
            BY <3>2, <5>1, <5>2
        <4> QED
          BY <1>5, <3>2, <4>1 DEF Dead
      <3> QED
        BY <1>3, <3>1, <3>2
    <2>2. Dead(floor, storeView.marker)'
      BY <1>2, <2>1 DEF Trust, Gap, Dead
    <2>3. (pc = "applyPage" => Dead(reply.from, reply.marker))'
      BY <1>2, <2>1 DEF Trust, Gap, Dead
    <2> QED
      BY <2>2, <2>3 DEF Gap
  <1>8. Answer'
    <2>1. ASSUME Applying, NEW e \in reply.topics PROVE AnswerOf(e)'
      <3>1. AnswerOf(e) /\ e.id \in Slots
        BY <2>1 DEF Trust, Answer, Base, Ids
      <3>2. /\ slots[e.id].detail <= slots'[e.id].detail
            /\ slots[e.id].revision <= slots'[e.id].revision
        BY <1>5, <3>1
      <3>3. /\ slots[e.id].detail \in Nat /\ slots'[e.id].detail \in Nat
            /\ slots[e.id].revision \in Nat /\ slots'[e.id].revision \in Nat
            /\ storeView.revision \in Nat /\ e.detail \in Nat
        <4>1. (\A t \in Slots : slots[t].revision \in Nat /\ slots[t].detail \in Nat)'
          BY <1>4, NewNumbers DEF Base, Shape
        <4> QED
          BY <1>3, <3>1, <4>1, Numbers
      <3> QED
        BY <1>2, <3>1, <3>2, <3>3 DEF AnswerOf
    <2> QED
      BY <1>2, <2>1 DEF Trust, Answer, Applying
  <1>9. Stored'
    <2>1. ASSUME NEW s \in DOMAIN store PROVE RowOk(s)' /\ Low' <= s
      <3>1. RowOk(s) /\ Low <= s /\ s \in Slots
        BY DEF Trust, Stored, Base, Shape, DeviceShape
      <3>2. /\ slots[s].detail <= slots'[s].detail
            /\ slots[s].detail \in Nat /\ slots'[s].detail \in Nat /\ store[s].detail \in Nat
        <4>1. (\A t \in Slots : slots[t].detail \in Nat)'
          BY <1>4, NewNumbers DEF Base, Shape
        <4> QED
          BY <1>3, <1>5, <3>1, <4>1, Numbers
      <3> QED
        BY <1>2, <3>1, <3>2 DEF RowOk, Low
    <2> QED
      BY <1>2, <2>1 DEF Trust, Stored, Applying
  <1>10. ASSUME NEW s \in Slots', NEW rev \in Nat, rev <= revision,
                slots'[s].revision <= rev, ~slots'[s].swept
         PROVE  s \in Slots /\ slots'[s] = slots[s] /\ (Held(s) => Held(s)')
    <2>1. revision \in Nat /\ slots'[s].revision \in Nat
      <3>1. (\A t \in Slots : slots[t].revision \in Nat)'
        BY <1>4, NewNumbers DEF Base, Shape
      <3> QED
        BY <3>1, Numbers
    <2>2. slots'[s].revision <= revision
      BY <1>10, <2>1
    <2>3. s \in Slots
      BY <1>6, <2>1, <2>2
    <2>4. slots'[s] = slots[s]
      BY <1>5, <1>10, <2>2, <2>3
    <2> QED
      BY <1>2, <2>3, <2>4 DEF Held
  <1>11. Pending'
    <2> SUFFICES ASSUME Applying', NEW s \in Slots', reply'.from <= s,
                        slots'[s].revision <= Target', ~slots'[s].swept
                 PROVE  Comes(s)' \/ ((\A e \in reply'.topics : e.id # s) /\ Held(s)')
      BY DEF Pending
    <2>1. Applying /\ Target' = Target
      BY <1>2 DEF Applying, Target
    <2>2. Target \in Nat /\ Target <= revision
      BY <2>1, Numbers DEF Target, Base, ViewBounds, Asking, Applying
    <2>3. s \in Slots /\ slots'[s] = slots[s] /\ (Held(s) => Held(s)')
      BY <1>10, <2>1, <2>2
    <2>4. Comes(s) \/ ((\A e \in reply.topics : e.id # s) /\ Held(s))
      BY <1>2, <2>1, <2>3 DEF Trust, Pending
    <2> QED
      BY <1>2, <2>3, <2>4 DEF Comes
  <1>12. StoreCurrent'
    <2> SUFFICES ASSUME NEW s \in Slots', storeView'.revision # 0, s >= floor',
                        slots'[s].revision <= storeView'.revision, ~slots'[s].swept
                 PROVE  Held(s)'
      BY CurrentPrime
    <2>1. storeView.revision \in Nat /\ storeView.revision <= revision
      BY Numbers DEF Base, ViewBounds
    <2>2. s \in Slots /\ slots'[s] = slots[s] /\ (Held(s) => Held(s)')
      BY <1>2, <1>10, <2>1
    <2> QED
      BY <1>2, <2>2, CurrentIs DEF Trust
  <1> QED
    BY <1>7, <1>8, <1>9, <1>11, <1>12 DEF Trust

\* Neither the copy nor an answer changes.
LEMMA SameTrust ==
    ASSUME Trust, UNCHANGED <<slots, store, mem, storeView, floor, pc, reply>>
    PROVE  Trust'
  <1>1. Gap' /\ Answer' /\ Stored'
    BY DEF Trust, Gap, Dead, Slots, Answer, AnswerOf, Applying, Stored, RowOk, Low
  <1>2. Pending'
    BY DEF Trust, Pending, Applying, Slots, Target, Comes, Held
  <1>3. StoreCurrent'
    BY DEF Trust, StoreCurrent, Slots
  <1> QED
    BY <1>1, <1>2, <1>3 DEF Trust

\* No answer is applied after the step, and none was half applied that the
\* device could not do without.
LEMMA QuietTrust ==
    ASSUME Trust, UNCHANGED <<slots, store, storeView, floor>>,
           ~Applying', ~reply'.inline, ~reply.inline,
           \A s \in DOMAIN mem' : mem'[s].revision <= store[s].revision
    PROVE  Trust'
  <1>1. pc # "applyPage" /\ (Applying => storeView.revision # 0) /\ pc' # "applyPage"
    BY DEF Trust, Answer, Applying
  <1>2. Gap'
    BY <1>1 DEF Trust, Gap, Dead, Slots
  <1>3. Answer'
    BY DEF Answer, Applying
  <1>4. Stored'
    BY <1>1 DEF Trust, Stored, RowOk, Low
  <1>5. Pending'
    BY DEF Pending
  <1>6. StoreCurrent'
    BY DEF Trust, StoreCurrent, Slots
  <1> QED
    BY <1>2, <1>3, <1>4, <1>5, <1>6 DEF Trust

LEMMA ServePageTrust ==
    ASSUME Base, Trust, ServePage
    PROVE  Trust'
  <1>1. /\ UNCHANGED <<slots, revision, store, mem, storeView, floor>>
        /\ pc = "page" /\ pc' = "applyPage" /\ MoreRemote
    BY DEF ServePage, server, device, view, Base, Window
  <1>2. PICK end \in 0..MaxSlots : end = storeView.marker
    BY DEF Base, Shape, DeviceShape
  <1>3. PICK r : r = PageOf(end) /\ reply' = r
    BY <1>2 DEF ServePage
  <1>4. reply \in Reply /\ ServerShape
    BY DEF Base, Shape, PassShape
  <1>5. PICK k \in 0..Len(slots) :
           /\ end = 0 => k = Len(slots)
           /\ end # 0 => k < end /\ \A s \in Slots : s < end => s <= k
           /\ r \in Reply /\ r.header = reply.header /\ r.inline = TRUE
           /\ r.from \in 1..MaxSlots /\ (r.from = 1 \/ r.from = k - Batch + 1)
           /\ \A s \in 1..k : r.from <= s /\ slots[s].live => Entity(s) \in r.topics
           /\ \A e \in r.topics : /\ e.id \in 1..k /\ slots[e.id].live /\ e = Entity(e.id)
                                  /\ r.marker # 0 /\ r.marker <= e.id /\ r.from <= e.id
           /\ r.marker <= k
           /\ r.marker # 0 => /\ r.from <= r.marker /\ r.marker - r.from < Batch
                              /\ \A s \in Slots : r.from <= s /\ s < r.marker => ~slots[s].live
    BY <1>3, <1>4, PageIs, ZenonT(60)
  <1>6. /\ Slots = 1..Len(slots) /\ Len(slots) \in Nat /\ k \in Nat /\ end \in Nat
        /\ r.marker \in Nat /\ floor \in Nat
    BY <1>4, <1>5, SlotFacts, Numbers DEF Slots, Reply
  <1>7. storeView.revision = 0 => end = 0 /\ DOMAIN store = {}
    BY <1>1, <1>2 DEF Base, Window, Trust, Stored, Applying
  <1>8. storeView.revision # 0 => /\ end # 0 /\ end \in Slots /\ floor <= end
                                  /\ \A s \in Slots : floor <= s /\ s < end => ~slots[s].live
    BY <1>1, <1>2 DEF MoreRemote, Base, Window, Near, Trust, Gap, Dead
  <1>9. \A s \in DOMAIN store : s \in Slots /\ end <= s /\ RowOk(s)
    BY <1>1, <1>2 DEF Trust, Stored, Low, Base, Shape, DeviceShape
  <1>10. Gap'
    <2>1. Dead(floor, storeView.marker)'
      BY <1>1 DEF Trust, Gap, Dead, Slots
    <2>2. r.marker # 0 => r.marker \in Slots
      BY <1>5, <1>6
    <2>3. Dead(reply.from, reply.marker)'
      BY <1>1, <1>3, <1>5, <2>2 DEF Dead, Slots
    <2> QED
      BY <2>1, <2>3 DEF Gap
  <1>11. Answer'
    <2>1. ASSUME NEW e \in r.topics PROVE AnswerOf(e)'
      <3>1. PICK s \in Slots : s = e.id /\ s <= k /\ slots[s].live
        BY <1>5, <1>6
      <3>2. e = Entity(s) /\ e.detail = slots[s].detail /\ e.live = slots[s].live
        BY <1>4, <1>5, <3>1, EntityIs
      <3>3. 1 <= slots[s].detail /\ slots[s].detail \in Nat
        BY Numbers DEF Base, SlotBounds
      <3>4. s \in DOMAIN store => store[s].revision <= slots[s].detail
        BY <1>9, <3>3, Numbers DEF RowOk
      <3>5. storeView.revision # 0 => s < floor
        BY <1>5, <1>6, <1>8, <3>1
      <3>6. \A o \in r.topics : o.id = e.id => o = e
        BY <1>5
      <3>7. 1 <= e.detail /\ e.detail <= slots[e.id].detail
        <4>1. e.detail = slots[s].detail /\ slots[e.id].detail = slots[s].detail
          BY <3>1, <3>2, Zenon
        <4> QED
          BY <3>3, <4>1
      <3>11. e.live
        BY <3>1, <3>2, Zenon
      <3>8. e.id \in DOMAIN store => store[e.id].revision <= e.detail
        BY <3>1, <3>2, <3>4
      <3>9. r.inline /\ r.marker # 0 /\ r.marker <= e.id
        BY <1>5
      <3>10. storeView.revision # 0 => e.id < floor
        BY <3>1, <3>5
      <3> QED
        BY <1>1, <1>3, <3>6, <3>7, <3>8, <3>9, <3>10, <3>11 DEF AnswerOf
    <2> QED
      BY <1>1, <1>3, <1>5, <2>1 DEF Answer
  <1>12. Stored'
    <2>1. ASSUME NEW s \in DOMAIN store PROVE r.marker <= s
      <3>1. storeView.revision # 0 /\ end <= s /\ s \in Nat
        BY <1>6, <1>7, <1>9
      <3> QED
        BY <1>5, <1>6, <1>8, <3>1
    <2> QED
      BY <1>1, <1>3, <1>9, <2>1 DEF Trust, Stored, RowOk, Low, Applying
  <1>13. Pending'
    <2> SUFFICES ASSUME NEW s \in Slots, r.from <= s, slots[s].revision <= Target',
                        ~slots[s].swept
                 PROVE  Comes(s)' \/ ((\A e \in r.topics : e.id # s) /\ Held(s)')
      BY <1>1, <1>3 DEF Pending, Slots
    <2>0. Held(s)' = Held(s)
      BY <1>1 DEF Held
    <2>1. CASE s <= k /\ slots[s].live
      <3>1. Entity(s) \in r.topics
        BY <1>5, <1>6, <2>1
      <3> QED
        BY <1>1, <1>3, <1>4, <3>1, EntityIs DEF Comes
    <2>2. CASE s <= k /\ ~slots[s].live
      <3>1. \A e \in r.topics : e.id # s
        BY <1>5, <2>2
      <3>2. s \notin DOMAIN store
        <4>1. CASE storeView.revision = 0
          BY <1>7, <4>1
        <4>2. CASE storeView.revision # 0
          <5>1. s < end
            BY <1>5, <1>6, <1>8, <2>2, <4>2
          <5> QED
            BY <1>6, <1>9, <5>1
        <4> QED
          BY <4>1, <4>2
      <3> QED
        BY <2>0, <2>2, <3>1, <3>2 DEF Held
    <2>3. CASE ~(s <= k)
      <3>1. end # 0 /\ end <= s
        BY <1>5, <1>6, <2>3
      <3>2. storeView.revision # 0
        BY <1>7, <3>1
      <3>3. floor <= s /\ Target' = storeView.revision
        BY <1>1, <1>6, <1>8, <3>1, <3>2 DEF Target
      <3>4. Held(s)
        BY <1>6, <3>2, <3>3, CurrentIs DEF Trust
      <3>5. \A e \in r.topics : e.id # s
        BY <1>5, <1>6, <2>3
      <3> QED
        BY <2>0, <3>4, <3>5
    <2> QED
      BY <2>1, <2>2, <2>3
  <1>14. StoreCurrent'
    BY <1>1 DEF Trust, StoreCurrent, Slots
  <1> QED
    BY <1>10, <1>11, <1>12, <1>13, <1>14 DEF Trust

LEMMA ServeDeltaTrust ==
    ASSUME Base, Trust, ServeDelta
    PROVE  Trust'
  <1>1. /\ UNCHANGED <<slots, revision, store, mem, storeView, floor>>
        /\ pc = "delta" /\ pc' = "applyDelta"
    BY DEF ServeDelta, server, device, view
  <1>2. reply \in Reply /\ ServerShape /\ DeviceShape /\ ~reply.inline
    BY <1>1 DEF Base, Shape, PassShape, Trust, Answer
  <1>3. Gap'
    BY <1>1 DEF Trust, Gap, Dead, Slots
  <1>4. \A s \in DOMAIN store : s \in Slots /\ storeView.marker <= s /\ RowOk(s)
    BY <1>1, <1>2 DEF Trust, Stored, Low, DeviceShape
  <1>5. Stored'
    BY <1>1 DEF Trust, Stored, RowOk, Low, Applying
  <1>6. StoreCurrent'
    BY <1>1 DEF Trust, StoreCurrent, Slots
  <1>7. \A s \in Slots : Held(s)' = Held(s)
    BY <1>1 DEF Held
  <1>8. ASSUME NEW s \in Slots
        PROVE  /\ Entity(s).id = s /\ Entity(s).detail = slots[s].detail
               /\ Entity(s).live = slots[s].live /\ 1 <= slots[s].detail
               /\ slots[s].detail \in Nat /\ slots[s].revision \in Nat /\ s \in Nat
               /\ s \in DOMAIN store => store[s].revision <= slots[s].detail
    <2>1. slots[s].detail \in Nat /\ slots[s].revision \in Nat /\ s \in Nat
      BY Numbers
    <2>2. 1 <= slots[s].detail
      BY DEF Base, SlotBounds
    <2>3. s \in DOMAIN store => store[s].revision <= slots[s].detail
      BY <1>4, <2>1, Numbers DEF RowOk
    <2> QED
      BY <1>2, <2>1, <2>2, <2>3, EntityIs
  <1>9. CASE storeView.revision = 0
    <2>1. PICK end \in 0..MaxSlots : end = 0
      BY BoundsAssumption
    <2>2. PICK r : r = PageOf(end) /\ reply' = r
      BY <1>9, <2>1 DEF ServeDelta
    <2>3. PICK k \in 0..Len(slots) :
           /\ end = 0 => k = Len(slots)
           /\ r \in Reply /\ r.header = reply.header /\ r.inline = TRUE
           /\ \A s \in 1..k : r.from <= s /\ slots[s].live => Entity(s) \in r.topics
           /\ \A e \in r.topics : e.id \in 1..k /\ slots[e.id].live /\ e = Entity(e.id)
      BY <1>2, <2>2, PageIs
    <2>4. Slots = 1..k /\ r.inline = TRUE /\ reply' = r
      BY <2>1, <2>2, <2>3 DEF Slots
    <2>5. storeView.marker = 0 /\ DOMAIN store = {}
      BY <1>1, <1>9 DEF Base, Window, Trust, Stored, Applying
    <2>6. Answer'
      <3>1. ASSUME NEW e \in r.topics PROVE AnswerOf(e)'
        <4>1. PICK s \in Slots : s = e.id /\ slots[s].live /\ e = Entity(s)
          BY <2>3, <2>4
        <4>2. \A o \in r.topics : o.id = e.id => o = e
          BY <2>3
        <4>3. storeView.marker <= s
          BY <1>8, <2>5
        <4> QED
          BY <1>1, <1>8, <2>4, <4>1, <4>2, <4>3 DEF AnswerOf
      <3> QED
        BY <1>1, <1>9, <2>4, <3>1 DEF Answer
    <2>7. Pending'
      <3> SUFFICES ASSUME NEW s \in Slots, r.from <= s
                   PROVE  Comes(s)' \/ ((\A e \in r.topics : e.id # s) /\ Held(s)')
        BY <1>1, <2>4 DEF Pending, Slots
      <3>1. CASE slots[s].live
        <4>1. Entity(s) \in r.topics
          BY <2>3, <2>4, <3>1
        <4> QED
          BY <1>1, <1>8, <2>4, <4>1 DEF Comes
      <3>2. CASE ~slots[s].live
        <4>1. \A e \in r.topics : e.id # s
          BY <2>3, <3>2
        <4> QED
          BY <1>7, <2>5, <3>2, <4>1 DEF Held
      <3> QED
        BY <3>1, <3>2
    <2> QED
      BY <1>3, <1>5, <1>6, <2>6, <2>7 DEF Trust
  <1>10. CASE storeView.revision # 0
    <2>1. reply' = DeltaOf
      BY <1>10 DEF ServeDelta, DeltaOf
    <2>2. PICK r : r = DeltaOf
      OBVIOUS
    <2>3. /\ r.header = reply.header /\ r.inline = reply.inline /\ r.from = floor
          /\ \A s \in Slots : slots[s].revision > storeView.revision /\ s >= storeView.marker
                                  => Entity(s) \in r.topics
          /\ \A e \in r.topics :
                /\ e.id \in Slots /\ e = Entity(e.id) /\ e.id >= storeView.marker
                /\ slots[e.id].revision > storeView.revision
      BY <1>2, <2>2, DeltaIs
    <2>4. reply' = r /\ ~r.inline
      BY <1>2, <2>1, <2>2, <2>3
    <2>5. /\ storeView.revision \in Nat /\ storeView.marker \in Nat /\ floor \in Nat
      BY Numbers
    <2>6. Answer'
      <3>1. ASSUME NEW e \in r.topics PROVE AnswerOf(e)'
        <4>1. PICK s \in Slots : /\ s = e.id /\ e = Entity(s) /\ s >= storeView.marker
                                 /\ slots[s].revision > storeView.revision
          BY <2>3
        <4>2. \A o \in r.topics : o.id = e.id => o = e
          BY <2>3
        <4>3. storeView.marker <= s /\ storeView.revision < slots[s].revision
          BY <1>8, <2>5, <4>1
        <4> QED
          BY <1>1, <1>8, <2>4, <4>1, <4>2, <4>3 DEF AnswerOf
      <3> QED
        BY <1>1, <1>10, <2>4, <3>1 DEF Answer
    <2>7. Pending'
      <3> SUFFICES ASSUME NEW s \in Slots, floor <= s, ~slots[s].swept
                   PROVE  Comes(s)' \/ ((\A e \in r.topics : e.id # s) /\ Held(s)')
        BY <1>1, <2>3, <2>4 DEF Pending, Slots
      <3>1. CASE slots[s].revision > storeView.revision /\ s >= storeView.marker
        <4>1. Entity(s) \in r.topics
          BY <2>3, <3>1
        <4> QED
          BY <1>1, <1>8, <2>4, <4>1 DEF Comes
      <3>2. CASE ~(slots[s].revision > storeView.revision)
        <4>1. \A e \in r.topics : e.id # s
          BY <2>3, <3>2
        <4>2. Held(s)
          BY <1>8, <1>10, <2>5, <3>2, CurrentIs DEF Trust
        <4> QED
          BY <1>7, <4>1, <4>2
      <3>3. CASE ~(s >= storeView.marker)
        <4>1. storeView.marker # 0 /\ s < storeView.marker
          BY <1>8, <2>5, <3>3
        <4>2. ~slots[s].live
          BY <4>1 DEF Trust, Gap, Dead
        <4>3. s \notin DOMAIN store
          BY <1>4, <1>8, <2>5, <4>1
        <4>4. \A e \in r.topics : e.id # s
          BY <2>3, <3>3
        <4> QED
          BY <1>7, <4>2, <4>3, <4>4 DEF Held
      <3> QED
        BY <3>1, <3>2, <3>3
    <2> QED
      BY <1>3, <1>5, <1>6, <2>6, <2>7 DEF Trust
  <1> QED
    BY <1>9, <1>10

\* What applying one entity of the answer does to the copy.
Applied(e) ==
    /\ Applying /\ e \in reply.topics
    /\ UNCHANGED <<slots, storeView, floor, pc>>
    /\ reply'.inline = reply.inline /\ reply'.from = reply.from
    /\ reply'.marker = reply.marker /\ reply'.header = reply.header
    /\ reply'.topics = reply.topics \ {e}
    /\ \A t \in DOMAIN store' : t # e.id => t \in DOMAIN store
    /\ \A t \in DOMAIN store : t # e.id => t \in DOMAIN store' /\ store'[t] = store[t]
    /\ \A t \in DOMAIN mem' : t # e.id => t \in DOMAIN mem /\ mem'[t] = mem[t]
    /\ ~e.live => e.id \notin DOMAIN store' /\ e.id \notin DOMAIN mem'
    /\ e.live => /\ e.id \in DOMAIN store' /\ RowOk(e.id)'
                 /\ slots[e.id].detail = e.detail => store'[e.id].detail = e.detail
                 /\ e.id \in DOMAIN mem' => mem'[e.id].revision <= store'[e.id].revision

LEMMA AppliedTrust ==
    ASSUME Base, Trust, NEW e \in Topic, Applied(e)
    PROVE  Trust'
  <1>1. /\ Applying /\ e \in reply.topics /\ e.id \in Slots /\ AnswerOf(e)
        /\ \A o \in reply.topics : AnswerOf(o) /\ o.id \in Slots
        /\ UNCHANGED <<slots, storeView, floor, pc>>
        /\ reply'.inline = reply.inline /\ reply'.from = reply.from
        /\ reply'.marker = reply.marker /\ reply'.header = reply.header
        /\ reply'.topics = reply.topics \ {e}
    BY DEF Applied, Trust, Answer, Base, Ids
  <1>2. /\ \A t \in DOMAIN store' : t # e.id => t \in DOMAIN store
        /\ \A t \in DOMAIN store : t # e.id => t \in DOMAIN store' /\ store'[t] = store[t]
        /\ \A t \in DOMAIN mem' : t # e.id => t \in DOMAIN mem /\ mem'[t] = mem[t]
    BY DEF Applied
  <1>3. \A o \in reply'.topics : o.id # e.id /\ o \in reply.topics
    BY <1>1 DEF AnswerOf
  <1>4. Gap'
    BY <1>1 DEF Trust, Gap, Dead, Slots
  <1>5. Answer'
    <2>1. ASSUME NEW o \in reply'.topics PROVE AnswerOf(o)'
      <3>1. AnswerOf(o) /\ o.id # e.id /\ o \in reply.topics
        BY <1>1, <1>3
      <3>2. o.id \in DOMAIN store' => o.id \in DOMAIN store /\ store'[o.id] = store[o.id]
        BY <1>2, <3>1
      <3> QED
        BY <1>1, <3>1, <3>2 DEF AnswerOf
    <2> QED
      BY <1>1, <2>1 DEF Trust, Answer, Applying
  <1>6. Stored'
    <2>1. ASSUME NEW s \in DOMAIN store' PROVE RowOk(s)' /\ Low' <= s
      <3>1. CASE s # e.id
        <4>1. s \in DOMAIN store /\ store'[s] = store[s]
          BY <1>2, <3>1
        <4> QED
          BY <1>1, <4>1 DEF Trust, Stored, RowOk, Low
      <3>2. CASE s = e.id
        <4>1. RowOk(s)'
          BY <3>2 DEF Applied
        <4>2. Low' <= s
          BY <1>1, <3>2 DEF AnswerOf, Low, Applying
        <4> QED
          BY <4>1, <4>2
      <3> QED
        BY <3>1, <3>2
    <2>2. ASSUME NEW s \in DOMAIN mem' PROVE mem'[s].revision <= store'[s].revision
      <3>1. CASE s # e.id
        <4>1. s \in DOMAIN mem /\ mem'[s] = mem[s] /\ s \in DOMAIN store
          BY <1>2, <3>1 DEF Base, Shape, DeviceShape
        <4>2. store'[s] = store[s]
          BY <1>2, <3>1, <4>1
        <4> QED
          BY <4>1, <4>2 DEF Trust, Stored
      <3>2. CASE s = e.id
        BY <3>2 DEF Applied
      <3> QED
        BY <3>1, <3>2
    <2>3. Applying'
      BY <1>1 DEF Applying
    <2> QED
      BY <2>1, <2>2, <2>3 DEF Stored
  <1>7. ASSUME NEW s \in Slots, s # e.id, Held(s) PROVE Held(s)'
    <2>1. s \in DOMAIN store' <=> s \in DOMAIN store
      BY <1>2, <1>7
    <2>2. s \in DOMAIN store => store'[s] = store[s]
      BY <1>2, <1>7
    <2> QED
      BY <1>1, <1>7, <2>1, <2>2 DEF Held
  <1>8. Pending'
    <2> SUFFICES ASSUME NEW s \in Slots, reply.from <= s, slots[s].revision <= Target,
                        ~slots[s].swept
                 PROVE  Comes(s)' \/ ((\A o \in reply'.topics : o.id # s) /\ Held(s)')
      BY <1>1 DEF Pending, Slots, Target
    <2>1. Comes(s) \/ ((\A o \in reply.topics : o.id # s) /\ Held(s))
      BY <1>1 DEF Trust, Pending
    <2>2. CASE s # e.id
      <3>1. CASE Comes(s)
        <4>1. PICK o \in reply.topics :
                  o.id = s /\ o.live = slots[s].live /\ o.detail = slots[s].detail
          BY <3>1 DEF Comes
        <4>2. o \in reply'.topics
          BY <1>1, <2>2, <4>1
        <4> QED
          BY <1>1, <4>1, <4>2 DEF Comes
      <3>2. CASE (\A o \in reply.topics : o.id # s) /\ Held(s)
        BY <1>3, <1>7, <2>2, <3>2
      <3> QED
        BY <2>1, <3>1, <3>2
    <2>3. CASE s = e.id
      <3>1. Comes(s)
        BY <1>1, <2>1, <2>3
      <3>2. PICK o \in reply.topics :
                o.id = s /\ o.live = slots[s].live /\ o.detail = slots[s].detail
        BY <3>1 DEF Comes
      <3>3. o = e
        BY <1>1, <2>3, <3>2 DEF AnswerOf
      <3>4. e.live = slots[s].live /\ e.detail = slots[s].detail
        BY <3>2, <3>3
      <3>5. CASE e.live
        <4>1. s \in DOMAIN store' /\ store'[s].detail = slots[s].detail
          BY <2>3, <3>4, <3>5 DEF Applied
        <4>2. slots'[s].live /\ slots'[s].detail = slots[s].detail
          BY <1>1, <3>4, <3>5
        <4>3. Held(s)'
          BY <4>1, <4>2 DEF Held
        <4> QED
          BY <1>3, <2>3, <4>3
      <3>6. CASE ~e.live
        <4>1. s \notin DOMAIN store' /\ ~slots'[s].live
          BY <1>1, <2>3, <3>4, <3>6 DEF Applied
        <4>2. Held(s)'
          BY <4>1 DEF Held
        <4> QED
          BY <1>3, <2>3, <4>2
      <3> QED
        BY <3>5, <3>6
    <2> QED
      BY <2>2, <2>3
  <1>9. StoreCurrent'
    <2> SUFFICES ASSUME NEW s \in Slots, storeView.revision # 0, s >= floor,
                        slots[s].revision <= storeView.revision, ~slots[s].swept
                 PROVE  Held(s)'
      BY <1>1, CurrentPrime DEF Slots
    <2>1. Held(s)
      BY CurrentIs DEF Trust
    <2>2. s # e.id
      <3>1. /\ s \in Nat /\ floor \in Nat /\ storeView.revision \in Nat
            /\ slots[s].revision \in Nat
        BY Numbers
      <3>2. pc = "applyPage" => e.id < floor
        BY <1>1 DEF AnswerOf
      <3>3. pc # "applyPage" => storeView.revision < slots[e.id].revision
        BY <1>1 DEF AnswerOf, Trust, Answer
      <3> QED
        BY <3>1, <3>2, <3>3
    <2> QED
      BY <1>7, <2>1, <2>2
  <1> QED
    BY <1>4, <1>5, <1>6, <1>8, <1>9 DEF Trust

\* A row merged into the copy: as new as the slot if the entity is.
LEMMA MergedTrust ==
    ASSUME Base, Trust, Applying, NEW e \in Topic, e \in reply.topics, e.live,
           NEW row \in Rows, row.revision = e.detail, row.revision <= row.detail,
           row.detail <= slots[e.id].detail, Merge(e.id, row), slots' = slots,
           UNCHANGED <<storeView, floor, pc>>,
           reply' = [reply EXCEPT !.topics = @ \ {Next1}], e = Next1
    PROVE  Trust'
  <1>1. e.id \in Slots /\ AnswerOf(e)
    BY DEF Base, Ids, Trust, Answer
  <1>2. /\ reply'.inline = reply.inline /\ reply'.from = reply.from
        /\ reply'.marker = reply.marker /\ reply'.header = reply.header
        /\ reply'.topics = reply.topics \ {e}
    BY TakeIs
  <1>3. /\ DOMAIN store' = DOMAIN store \cup {e.id} /\ DOMAIN mem' = DOMAIN mem \cup {e.id}
        /\ \A t \in DOMAIN store : t # e.id => store'[t] = store[t]
        /\ \A t \in DOMAIN mem : t # e.id => mem'[t] = mem[t]
        /\ \/ store'[e.id] = row /\ mem'[e.id] = row
           \/ /\ e.id \in DOMAIN mem /\ row.revision <= mem[e.id].revision
              /\ store'[e.id] = store[e.id] /\ mem'[e.id] = mem[e.id]
           \/ /\ e.id \notin DOMAIN mem /\ row.revision = 0
              /\ store'[e.id] = Blank /\ mem'[e.id] = Blank
    BY <1>1, MergeIs DEF Base, Shape
  <1>4. /\ 1 <= row.revision /\ row.revision \in Nat /\ row.detail \in Nat
        /\ slots[e.id].detail \in Nat
    BY <1>1, Numbers DEF AnswerOf, Rows
  <1>5. /\ RowOk(e.id)'
        /\ slots[e.id].detail = e.detail => store'[e.id].detail = e.detail
        /\ mem'[e.id].revision <= store'[e.id].revision
    <2>1. CASE store'[e.id] = row /\ mem'[e.id] = row
      BY <1>4, <2>1 DEF RowOk
    <2>2. CASE /\ e.id \in DOMAIN mem /\ row.revision <= mem[e.id].revision
               /\ store'[e.id] = store[e.id] /\ mem'[e.id] = mem[e.id]
      <3>1. e.id \in DOMAIN store /\ RowOk(e.id) /\ mem[e.id].revision <= store[e.id].revision
        BY <2>2 DEF Trust, Stored, Base, Shape, DeviceShape
      <3>2. /\ store[e.id].revision \in Nat /\ store[e.id].detail \in Nat
            /\ mem[e.id].revision \in Nat
        BY <2>2, <3>1, Numbers
      <3>3. RowOk(e.id)' /\ mem'[e.id].revision <= store'[e.id].revision
        BY <2>2, <3>1 DEF RowOk
      <3>4. row.revision <= store[e.id].detail /\ store[e.id].detail <= slots[e.id].detail
        BY <1>4, <2>2, <3>1, <3>2 DEF RowOk
      <3> QED
        BY <1>4, <2>2, <3>2, <3>3, <3>4
    <2> QED
      BY <1>3, <1>4, <2>1, <2>2
  <1>6. Applied(e)
    BY <1>2, <1>3, <1>5 DEF Applied
  <1> QED
    BY <1>6, AppliedTrust

LEMMA ApplyPageTrust ==
    ASSUME Base, Trust, ApplyPage
    PROVE  Trust'
  <1>1. /\ pc = "applyPage" /\ Applying /\ reply.topics # {}
        /\ Merge(Next1.id, [revision |-> Next1.detail, detail |-> Next1.detail])
        /\ reply' = [reply EXCEPT !.topics = @ \ {Next1}]
        /\ UNCHANGED <<slots, storeView, floor, pc>>
    BY DEF ApplyPage, Applying, server
  <1>2. Next1 \in Topic /\ Next1 \in reply.topics
    BY <1>1, TakeIs
  <1>3. PICK e \in Topic : e = Next1
    BY <1>2
  <1>4. PICK row \in Rows : /\ row = [revision |-> e.detail, detail |-> e.detail]
                            /\ row.revision = e.detail /\ row.detail = e.detail
    <2>1. e.detail \in Revs
      BY DEF Topic
    <2> QED
      BY <2>1, RowIs
  <1>5. AnswerOf(e) /\ e.live /\ e.detail \in Nat /\ Merge(e.id, row)
    BY <1>1, <1>2, <1>3, <1>4, Numbers DEF Trust, Answer, AnswerOf
  <1>6. row.revision <= row.detail /\ row.detail <= slots[e.id].detail
    BY <1>4, <1>5 DEF AnswerOf
  <1> QED
    BY <1>1, <1>2, <1>3, <1>4, <1>5, <1>6, MergedTrust

LEMMA ApplyDeltaTrust ==
    ASSUME Base, Trust, ApplyDelta
    PROVE  Trust'
  <1>1. /\ pc = "applyDelta" /\ Applying /\ reply.topics # {}
        /\ reply' = [reply EXCEPT !.topics = @ \ {Next1}]
        /\ UNCHANGED <<slots, storeView, floor, pc>>
    BY DEF ApplyDelta, Applying, server
  <1>2. PICK e \in Topic :
           /\ e = Next1 /\ e \in reply.topics /\ e.id \in Slots
           /\ \/ ~e.live /\ mem' = Drop(mem, e.id) /\ store' = Drop(store, e.id)
              \/ \E row \in Rows :
                  /\ e.live /\ (reply.inline \/ slots[e.id].live)
                  /\ row.revision = e.detail
                  /\ row.detail = IF reply.inline THEN e.detail ELSE slots[e.id].detail
                  /\ \/ InView(e.id) /\ Merge(e.id, row)
                     \/ ~InView(e.id) /\ store' = Put(store, e.id, row) /\ mem' = mem
    BY ApplyDeltaIs
  <1>3. AnswerOf(e) /\ e.detail \in Nat /\ slots[e.id].detail \in Nat
    BY <1>1, <1>2, Numbers DEF Trust, Answer
  <1>4. /\ reply'.inline = reply.inline /\ reply'.from = reply.from
        /\ reply'.marker = reply.marker /\ reply'.header = reply.header
        /\ reply'.topics = reply.topics \ {e}
    BY <1>1, <1>2, TakeIs
  <1>5. CASE ~e.live
    <2>1. store' = Drop(store, e.id) /\ mem' = Drop(mem, e.id)
      BY <1>2, <1>5
    <2>2. Applied(e)
      BY <1>1, <1>2, <1>4, <1>5, <2>1 DEF Applied, Drop
    <2> QED
      BY <2>2, AppliedTrust
  <1>6. CASE e.live
    <2>1. PICK row \in Rows :
            /\ row.revision = e.detail
            /\ row.detail = IF reply.inline THEN e.detail ELSE slots[e.id].detail
            /\ \/ InView(e.id) /\ Merge(e.id, row)
               \/ ~InView(e.id) /\ store' = Put(store, e.id, row) /\ mem' = mem
      BY <1>2, <1>6
    <2>2. /\ row.revision <= row.detail /\ row.detail <= slots[e.id].detail
          /\ 1 <= row.revision /\ row.revision \in Nat
          /\ slots[e.id].detail = e.detail => row.detail = e.detail
      BY <1>3, <2>1 DEF AnswerOf
    <2>3. CASE Merge(e.id, row)
      BY <1>1, <1>2, <1>6, <2>1, <2>2, <2>3, MergedTrust
    <2>4. CASE store' = Put(store, e.id, row) /\ mem' = mem
      <3>1. /\ DOMAIN store' = DOMAIN store \cup {e.id} /\ store'[e.id] = row
            /\ \A t \in DOMAIN store : t # e.id => store'[t] = store[t]
        BY <2>4 DEF Put
      <3>2. RowOk(e.id)'
        BY <1>1, <2>2, <3>1 DEF RowOk
      <3>3. e.id \in DOMAIN mem' => mem'[e.id].revision <= store'[e.id].revision
        <4> SUFFICES ASSUME e.id \in DOMAIN mem PROVE mem[e.id].revision <= row.revision
          BY <2>4, <3>1
        <4>1. e.id \in DOMAIN store /\ mem[e.id].revision <= store[e.id].revision
          BY DEF Trust, Stored, Base, Shape, DeviceShape
        <4>2. store[e.id].revision <= e.detail
          BY <1>3, <4>1 DEF AnswerOf
        <4>3. mem[e.id].revision \in Nat /\ store[e.id].revision \in Nat
          BY <4>1, Numbers
        <4> QED
          BY <1>3, <2>1, <4>1, <4>2, <4>3
      <3>4. Applied(e)
        BY <1>1, <1>2, <1>4, <1>6, <2>2, <2>4, <3>1, <3>2, <3>3 DEF Applied
      <3> QED
        BY <3>4, AppliedTrust
    <2> QED
      BY <2>1, <2>3, <2>4
  <1> QED
    BY <1>5, <1>6

LEMMA FinishPageTrust ==
    ASSUME Base, Trust, FinishPage
    PROVE  Trust'
  <1>1. /\ UNCHANGED <<slots, store, mem>>
        /\ pc = "applyPage" /\ pc' = "mid" /\ reply' = NoReply /\ floor' = reply.from
        /\ reply.topics = {}
    BY DEF FinishPage, server, view
  <1>2. /\ storeView'.marker = reply.marker
        /\ storeView'.revision = Target /\ Target # 0
    BY <1>1, Numbers DEF FinishPage, Target, Base, ViewBounds, Asking
  <1>3. Gap'
    BY <1>1, <1>2 DEF Trust, Gap, Dead, Slots
  <1>4. ~Applying' /\ Applying /\ pc' # "applyDelta"
    BY <1>1 DEF Applying
  <1>5. Answer'
    BY <1>1, <1>4, NoReplyIs DEF Answer
  <1>6. Stored'
    BY <1>1, <1>2 DEF Trust, Stored, RowOk, Low
  <1>7. Pending'
    BY <1>4 DEF Pending
  <1>8. StoreCurrent'
    <2> SUFFICES ASSUME NEW s \in Slots, s >= reply.from,
                        slots[s].revision <= Target, ~slots[s].swept
                 PROVE  Held(s)'
      BY <1>1, <1>2, CurrentPrime DEF Slots
    <2>1. reply.from <= s
      BY Numbers
    <2>2. Held(s)
      BY <1>1, <1>4, <2>1 DEF Trust, Pending, Comes
    <2> QED
      BY <1>1, <2>2 DEF Held
  <1> QED
    BY <1>3, <1>5, <1>6, <1>7, <1>8 DEF Trust

LEMMA FinishDeltaTrust ==
    ASSUME Base, Trust, FinishDelta
    PROVE  Trust'
  <1>1. /\ UNCHANGED <<slots, store, mem>>
        /\ pc = "applyDelta" /\ pc' = "head" /\ reply' = NoReply /\ floor' = reply.from
        /\ reply.topics = {}
    BY DEF FinishDelta, EndPass, server, view
  <1>2. /\ storeView'.marker = storeView.marker
        /\ storeView'.revision = Target /\ Target # 0
    <2>1. storeView' = [storeView EXCEPT !.revision = reply.header]
      BY DEF FinishDelta
    <2>2. storeView \in [revision : Revs, marker : 0..MaxSlots]
      BY DEF Base, Shape, DeviceShape
    <2>3. storeView'.marker = storeView.marker /\ storeView'.revision = reply.header
      BY <2>1, <2>2
    <2> QED
      BY <1>1, <2>3, Numbers DEF Target, Base, ViewBounds, Asking
  <1>3. Gap'
    <2>1. Dead(reply.from, storeView.marker)
      BY <1>1 DEF Trust, Gap, Base, Window, Dead
    <2> QED
      BY <1>1, <1>2, <2>1 DEF Gap, Dead, Slots
  <1>4. ~Applying' /\ Applying
    BY <1>1 DEF Applying
  <1>5. Answer'
    BY <1>1, <1>4, NoReplyIs DEF Answer
  <1>6. Stored'
    BY <1>1, <1>2 DEF Trust, Stored, RowOk, Low
  <1>7. Pending'
    BY <1>4 DEF Pending
  <1>8. StoreCurrent'
    <2> SUFFICES ASSUME NEW s \in Slots, s >= reply.from,
                        slots[s].revision <= Target, ~slots[s].swept
                 PROVE  Held(s)'
      BY <1>1, <1>2, CurrentPrime DEF Slots
    <2>1. reply.from <= s
      BY Numbers
    <2>2. Held(s)
      BY <1>1, <1>4, <2>1 DEF Trust, Pending, Comes
    <2> QED
      BY <1>1, <2>2 DEF Held
  <1> QED
    BY <1>3, <1>5, <1>6, <1>7, <1>8 DEF Trust

\* The steps that leave the copy alone.  A device that may not stop with a page
\* half stored drops no answer it was applying as a whole.
LEMMA AppTrust ==
    ASSUME Base, Trust, ~Torn, App \/ SetRevision \/ Added \/ Closed
    PROVE  Trust'
  <1>1. UNCHANGED <<slots, store, storeView, floor>>
    BY DEF App, Open, SetRevision, Added, ViewMoreTopics, Disconnect, Close, Closed, Crash,
           server, device
  <1>2. CASE Open
    <2>1. pc = "closed" /\ pc' = "head" /\ reply' = reply /\ mem' = [s \in {} |-> Blank]
      BY <1>2 DEF Open
    <2>2. ~reply.inline /\ ~Applying'
      BY <2>1 DEF Trust, Answer, Applying
    <2>3. DOMAIN mem' = {}
      BY <2>1
    <2> QED
      BY <1>1, <2>1, <2>2, <2>3, QuietTrust
  <1>3. CASE SetRevision \/ Added \/ ViewMoreTopics \/ Disconnect \/ Close
    <2>1. UNCHANGED <<mem, reply>> /\ (pc' = pc \/ (pc = "idle" /\ pc' = "head"))
      BY <1>3 DEF SetRevision, Added, ViewMoreTopics, Disconnect, Close, Kick, view
    <2>2. CASE pc' = pc
      BY <1>1, <2>1, <2>2, SameTrust
    <2>3. CASE pc = "idle" /\ pc' = "head"
      <3>1. ~reply.inline /\ ~Applying'
        BY <2>3 DEF Trust, Answer, Applying
      <3>2. \A s \in DOMAIN mem' : mem'[s].revision <= store[s].revision
        BY <2>1 DEF Trust, Stored
      <3> QED
        BY <1>1, <2>1, <3>1, <3>2, QuietTrust
    <2> QED
      BY <2>1, <2>2, <2>3
  <1>4. CASE Closed \/ Crash
    <2>1. Gone /\ ~reply.inline
      BY <1>4 DEF Closed, Crash, Trust, Answer
    <2>2. pc' = "closed" /\ reply' = NoReply /\ mem' = [s \in {} |-> Blank]
      BY <2>1 DEF Gone
    <2>3. ~Applying' /\ DOMAIN mem' = {} /\ ~reply'.inline
      BY <2>2, NoReplyIs DEF Applying
    <2> QED
      BY <1>1, <2>1, <2>3, QuietTrust
  <1> QED
    BY <1>2, <1>3, <1>4 DEF App

LEMMA QuietPassTrust ==
    ASSUME Base, Trust,
           \/ LoadLocal \/ LoadNothing \/ AskPage \/ PageFails
           \/ AskDelta \/ SkipDelta \/ DeltaFails \/ Leave
    PROVE  Trust'
  <1>1. UNCHANGED <<slots, store, storeView, floor>>
    BY DEF LoadLocal, LoadNothing, AskPage, PageFails, AskDelta, SkipDelta, DeltaFails, Leave,
           server, device
  <1>2. pc' \in {"idle", "head", "mid", "page", "delta"}
    BY DEF LoadLocal, LoadNothing, AskPage, PageFails, AskDelta, SkipDelta, DeltaFails, Leave,
           EndPass
  <1>3. ~Applying'
    BY <1>2 DEF Applying
  <1>4. ~reply.inline
    BY DEF LoadLocal, LoadNothing, AskPage, PageFails, AskDelta, SkipDelta, DeltaFails, Leave,
           Trust, Answer
  <1>5. ~reply'.inline
    <2>1. CASE reply' = reply \/ reply' = NoReply
      BY <1>4, <2>1, NoReplyIs
    <2>2. CASE AskPage
      BY <2>2 DEF AskPage, NoReply
    <2>3. CASE AskDelta
      BY <1>4, <2>3 DEF AskDelta, NoReply
    <2> QED
      BY <2>1, <2>2, <2>3
         DEF LoadLocal, LoadNothing, PageFails, SkipDelta, DeltaFails, Leave
  <1>6. \A s \in DOMAIN mem' : mem'[s].revision <= store[s].revision
    <2>1. CASE mem' = mem
      BY <2>1 DEF Trust, Stored
    <2>2. CASE LoadLocal
      <3>1. PICK rows \in SUBSET DOMAIN store :
              mem' = [s \in DOMAIN mem \cup rows |-> IF s \in rows THEN store[s] ELSE mem[s]]
        BY <2>2 DEF LoadLocal
      <3>2. \A s \in DOMAIN store : store[s].revision \in Nat
        BY Numbers
      <3> QED
        BY <3>1, <3>2 DEF Trust, Stored
    <2> QED
      BY <2>1, <2>2
         DEF LoadNothing, AskPage, PageFails, AskDelta, SkipDelta, DeltaFails, Leave, view
  <1> QED
    BY <1>1, <1>3, <1>4, <1>5, <1>6, QuietTrust

LEMMA InitTrust == Init => Trust
  <1> SUFFICES ASSUME Init PROVE Trust
    OBVIOUS
  <1>1. /\ DOMAIN store = {} /\ DOMAIN mem = {} /\ pc = "closed" /\ reply = NoReply
        /\ storeView.revision = 0 /\ storeView.marker = 0
    BY DEF Init
  <1>2. ~Applying
    BY <1>1 DEF Applying
  <1>3. Gap /\ Answer
    BY <1>1, <1>2, NoReplyIs DEF Gap, Dead, Answer
  <1>4. Stored /\ Pending /\ StoreCurrent
    BY <1>1, <1>2 DEF Stored, Pending, StoreCurrent
  <1> QED
    BY <1>3, <1>4 DEF Trust

LEMMA StepTrust ==
    ASSUME Base, Trust, ~Torn, [Next]_vars
    PROVE  Trust'
  <1>1. CASE UNCHANGED vars
    BY <1>1, SameTrust DEF vars, server, device, view
  <1>2. CASE Node
    BY <1>2, NodeTrust
  <1>3. CASE App \/ SetRevision \/ Added \/ Closed
    BY <1>3, AppTrust
  <1>4. CASE \/ LoadLocal \/ LoadNothing \/ AskPage \/ PageFails
             \/ AskDelta \/ SkipDelta \/ DeltaFails \/ Leave
    BY <1>4, QuietPassTrust
  <1>5. CASE ServePage \/ ServeDelta
    BY <1>5, ServePageTrust, ServeDeltaTrust
  <1>6. CASE ApplyPage \/ ApplyDelta
    BY <1>6, ApplyPageTrust, ApplyDeltaTrust
  <1>7. CASE FinishPage \/ FinishDelta
    BY <1>7, FinishPageTrust, FinishDeltaTrust
  <1> QED
    BY <1>1, <1>2, <1>3, <1>4, <1>5, <1>6, <1>7 DEF Next, Pass

\* The device may trust its revision.  Of the part of the channel it asked for,
\* every topic whose revision it holds is stored as it is and a removed one is
\* not, for any number of topics, pages and edits, whatever is changed while an
\* answer is under way and wherever the device stops between two answers; only
\* not if it stops with a page or a row half stored (focus.ts sync; the
\* windows of api_getChannelTopics.go).
THEOREM TopicStoreCurrent ==
    ASSUME ~Torn
    PROVE  Spec => []StoreCurrent
  <1>1. Base /\ [Next]_vars => Base'
    BY StepBase
  <1>2. Base /\ Trust /\ [Next]_vars => Trust'
    BY StepTrust
  <1>3. Trust => StoreCurrent
    BY DEF Trust
  <1> QED
    BY <1>1, <1>2, <1>3, InitBase, InitTrust, PTL DEF Spec

-----------------------------------------------------------------------------
(* What the listeners are shown.                                           *)

KeyOf(s) == <<Created[s], Name[s]>>
Before(s, t) == Created[s] < Created[t] \/ (Created[s] = Created[t] /\ Name[s] < Name[t])

LEMMA KeyFacts ==
    /\ 1..MaxSlots \subseteq Nat
    /\ \A s \in 1..MaxSlots : Created[s] \in Nat \ {0} /\ Name[s] \in Nat
    /\ \A s, t \in 1..MaxSlots : (Older(KeyOf(s), KeyOf(t)) <=> Before(s, t))
    /\ \A s \in 1..MaxSlots : KeyOf(s) # <<>> /\ KeyOf(s)[1] = Created[s] /\ KeyOf(s)[2] = Name[s]
    /\ \A s, t \in 1..MaxSlots : KeyOf(s) = KeyOf(t) => s = t
  <1>0. MaxSlots \in Nat
    BY BoundsAssumption
  <1>1. \A s \in 1..MaxSlots : Created[s] \in Nat \ {0} /\ Name[s] \in Nat
    BY OrderAssumption
  <1>2. \A s : KeyOf(s) # <<>> /\ KeyOf(s)[1] = Created[s] /\ KeyOf(s)[2] = Name[s]
    BY DEF KeyOf
  <1>3. \A s, t \in 1..MaxSlots : (Older(KeyOf(s), KeyOf(t)) <=> Before(s, t))
    BY <1>2 DEF Older, Before
  <1>4. ASSUME NEW s \in 1..MaxSlots, NEW t \in 1..MaxSlots, KeyOf(s) = KeyOf(t)
        PROVE  s = t
    <2>1. Name[s] = Name[t]
      BY <1>2, <1>4
    <2>2. ~(s < t) /\ ~(t < s)
      BY <2>1, OrderAssumption
    <2> QED
      BY <1>0, <2>2
  <1> QED
    BY <1>0, <1>1, <1>2, <1>3, <1>4

\* Some topic of a set is the oldest.
LEMMA OldestIs ==
    ASSUME NEW S \in SUBSET (1..MaxSlots), S # {}
    PROVE  \E t \in S : \A s \in S : ~Before(s, t)
  <1> DEFINE times == {Created[s] : s \in S}
  <1>0. \A s \in S : Created[s] \in Nat /\ Name[s] \in Nat
    BY KeyFacts
  <1>1. times \in SUBSET Nat /\ times # {}
    BY <1>0
  <1>2. PICK m \in times : \A n \in times : m <= n
    BY <1>1, LeastIs
  <1> DEFINE first == {s \in S : Created[s] = m}
             names == {Name[s] : s \in first}
  <1>3. names \in SUBSET Nat /\ names # {}
    BY <1>0, <1>2
  <1>4. PICK n \in names : \A k \in names : n <= k
    <2> HIDE DEF names
    <2> QED
      BY <1>3, LeastIs
  <1>5. PICK t \in first : Name[t] = n
    BY <1>4
  <1>6. ASSUME NEW s \in S PROVE ~Before(s, t)
    <2>1. Created[t] = m /\ m <= Created[s] /\ Created[s] \in Nat /\ m \in Nat
      BY <1>1, <1>2, <1>5
    <2>2. Created[s] = m => n <= Name[s]
      BY <1>4
    <2>3. Name[s] \in Nat /\ n \in Nat
      BY <1>0, <1>3, <1>4
    <2> QED
      BY <1>5, <2>1, <2>2, <2>3 DEF Before
  <1> QED
    BY <1>5, <1>6

\* And some topic of a set has none after it.
LEMMA NewestIs ==
    ASSUME NEW S \in SUBSET (1..MaxSlots), S # {}
    PROVE  \E t \in S : {s \in S : Before(t, s)} = {}
  <1> DEFINE after(t) == {s \in S : Before(t, s)}
             sizes == {Cardinality(after(t)) : t \in S}
  <1>0. IsFiniteSet(1..MaxSlots)
    <2>1. 1 \in Int /\ MaxSlots \in Int
      BY BoundsAssumption
    <2> QED
      BY <2>1, FS_Interval
  <1>1. \A t \in S : IsFiniteSet(after(t)) /\ Cardinality(after(t)) \in Nat
    <2> SUFFICES ASSUME NEW t \in S
                 PROVE  IsFiniteSet(after(t)) /\ Cardinality(after(t)) \in Nat
      OBVIOUS
    <2>1. after(t) \in SUBSET (1..MaxSlots)
      OBVIOUS
    <2> HIDE DEF after
    <2>2. IsFiniteSet(after(t))
      BY <1>0, <2>1, FS_Subset
    <2> QED
      BY <2>2, FS_CardinalityType
  <1> HIDE DEF after
  <1>2. sizes \in SUBSET Nat /\ sizes # {}
    BY <1>1
  <1>3. PICK m \in sizes : \A n \in sizes : m <= n
    <2> HIDE DEF sizes
    <2> QED
      BY <1>2, LeastIs
  <1>4. PICK t \in S : Cardinality(after(t)) = m
    BY <1>3
  <1>5. ASSUME after(t) # {} PROVE FALSE
    <2>1. PICK u \in S : Before(t, u)
      BY <1>5 DEF after
    <2>2. after(u) \in SUBSET after(t) /\ u \in after(t) /\ u \notin after(u)
      <3>1. \A s \in S : Created[s] \in Nat /\ Name[s] \in Nat
        BY KeyFacts
      <3>2. ~Before(u, u)
        BY <3>1 DEF Before
      <3>3. \A s \in S : Before(u, s) => Before(t, s)
        BY <2>1, <3>1 DEF Before
      <3> QED
        BY <2>1, <3>2, <3>3 DEF after
    <2>3. Cardinality(after(u)) <= Cardinality(after(t)) /\ Cardinality(after(t)) # Cardinality(after(u))
      BY <1>1, <1>4, <2>2, FS_Subset
    <2>4. m <= Cardinality(after(u))
      BY <1>3
    <2>5. Cardinality(after(u)) \in Nat /\ m \in Nat
      BY <1>1, <1>4
    <2> QED
      BY <1>4, <2>3, <2>4, <2>5
  <1> QED
    BY <1>5 DEF after

\* Rows the view does not hold yet: those older than its oldest.
Unread(s) == cacheView = <<>> \/ Older(KeyOf(s), cacheView)

\* What a batch from the store brings: the newest of the unread rows, none of
\* them only if there is none, and the oldest of them is the new cut.
LEMMA LoadLocalIs ==
    ASSUME Base, Trust, LoadLocal
    PROVE  \E rows \in SUBSET DOMAIN store :
           /\ mem' = [s \in DOMAIN mem \cup rows |-> IF s \in rows THEN store[s] ELSE mem[s]]
           /\ UNCHANGED store /\ ~localComplete /\ localComplete' = (rows = {}) /\ pc' = "mid"
           /\ \A s \in rows : Unread(s)
           /\ \A t \in rows : \A s \in DOMAIN store : Unread(s) /\ Before(t, s) => s \in rows
           /\ rows = {} => cacheView' = cacheView /\ \A s \in DOMAIN store : ~Unread(s)
           /\ rows # {} => \E t \in rows : /\ cacheView' = KeyOf(t)
                                           /\ \A s \in rows : ~Before(s, t)
  <1> DEFINE rest == {s \in DOMAIN store : Unread(s)}
             after(s) == {t \in rest : Before(s, t)}
             rows == {s \in rest : Cardinality(after(s)) < Batch}
             keys == {KeyOf(s) : s \in rows}
             oldest(q) == CHOOSE k \in {Key(s, store[s]) : s \in q} :
                              \A s \in q : ~Older(Key(s, store[s]), k)
             cut == CHOOSE k \in keys : \A s \in rows : ~Older(KeyOf(s), k)
  <1>0. DOMAIN store \subseteq 1..MaxSlots /\ Batch \in Nat \ {0}
    BY SlotFacts DEF Base, Shape, DeviceShape
  <1>1. \A s \in DOMAIN store : Key(s, store[s]) = KeyOf(s)
    <2> SUFFICES ASSUME NEW s \in DOMAIN store PROVE Key(s, store[s]) = KeyOf(s)
      OBVIOUS
    <2>1. 1 <= store[s].revision /\ store[s].revision \in Nat
      BY Numbers DEF Trust, Stored, RowOk
    <2>2. store[s] # Blank
      BY <2>1 DEF Blank
    <2> QED
      BY <2>2 DEF Key, KeyOf
  <1>2. {s \in DOMAIN store : cacheView = <<>> \/ Older(Key(s, store[s]), cacheView)} = rest
    BY <1>1 DEF Unread
  <1>3. \A s \in rest : {t \in rest : Older(Key(s, store[s]), Key(t, store[t]))} = after(s)
    <2> SUFFICES ASSUME NEW s \in rest, NEW t \in rest
                 PROVE  Older(Key(s, store[s]), Key(t, store[t])) <=> Before(s, t)
      OBVIOUS
    <2>1. Key(s, store[s]) = KeyOf(s) /\ Key(t, store[t]) = KeyOf(t)
      BY <1>1
    <2>2. s \in 1..MaxSlots /\ t \in 1..MaxSlots
      BY <1>0
    <2> QED
      BY <2>1, <2>2, KeyFacts
  <1>4. {s \in rest : Cardinality({t \in rest :
                          Older(Key(s, store[s]), Key(t, store[t]))}) < Batch} = rows
    BY <1>3
  <1>5. {Key(s, store[s]) : s \in rows} = keys
    BY <1>1
  <1>6. \A k : (\A s \in rows : ~Older(Key(s, store[s]), k)) <=> \A s \in rows : ~Older(KeyOf(s), k)
    BY <1>1
  <1>7. rows \in SUBSET DOMAIN store /\ rest \in SUBSET (1..MaxSlots)
    BY <1>0
  <1>8. /\ mem' = [s \in DOMAIN mem \cup rows |-> IF s \in rows THEN store[s] ELSE mem[s]]
        /\ cacheView' = IF rows = {} THEN cacheView ELSE oldest(rows)
        /\ UNCHANGED store /\ ~localComplete /\ localComplete' = (rows = {}) /\ pc' = "mid"
    <2>1. PICK rs, qs :
            /\ rs = {s \in DOMAIN store : cacheView = <<>> \/ Older(Key(s, store[s]), cacheView)}
            /\ qs = {s \in rs : Cardinality({t \in rs :
                            Older(Key(s, store[s]), Key(t, store[t]))}) < Batch}
            /\ mem' = [s \in DOMAIN mem \cup qs |-> IF s \in qs THEN store[s] ELSE mem[s]]
            /\ cacheView' = IF qs = {} THEN cacheView
                            ELSE CHOOSE k \in {Key(s, store[s]) : s \in qs} :
                                    \A s \in qs : ~Older(Key(s, store[s]), k)
            /\ localComplete' = (qs = {})
      BY DEF LoadLocal
    <2>2. UNCHANGED store /\ ~localComplete /\ pc' = "mid"
      BY DEF LoadLocal, device
    <2>3. rs = rest
      BY <1>2, <2>1
    <2>4. qs = rows
      <3> HIDE DEF rest, rows
      <3> QED
        BY <1>4, <2>1, <2>3
    <2> HIDE DEF rest, rows
    <2>5. cacheView' = IF rows = {} THEN cacheView ELSE oldest(rows)
      <3>1. cacheView' = IF qs = {} THEN cacheView ELSE oldest(qs)
        BY <2>1
      <3> HIDE DEF oldest
      <3> QED
        BY <2>4, <3>1
    <2>6. /\ mem' = [s \in DOMAIN mem \cup rows |-> IF s \in rows THEN store[s] ELSE mem[s]]
          /\ localComplete' = (rows = {})
      BY <2>1, <2>4, Zenon
    <2> QED
      BY <2>2, <2>5, <2>6, Zenon
  <1>9. rows # {} => cacheView' = cut
    <2> HIDE DEF rest, rows, keys
    <2> QED
      BY <1>5, <1>6, <1>8
  <1>10. \A s \in rest : IsFiniteSet(after(s)) /\ Cardinality(after(s)) \in Nat
    <2> SUFFICES ASSUME NEW s \in rest
                 PROVE  IsFiniteSet(after(s)) /\ Cardinality(after(s)) \in Nat
      OBVIOUS
    <2>1. after(s) \in SUBSET (1..MaxSlots)
      BY <1>7
    <2>2. IsFiniteSet(1..MaxSlots)
      <3>1. 1 \in Int /\ MaxSlots \in Int
        BY BoundsAssumption
      <3> QED
        BY <3>1, FS_Interval
    <2> HIDE DEF after
    <2>3. IsFiniteSet(after(s))
      BY <2>1, <2>2, FS_Subset
    <2> QED
      BY <2>3, FS_CardinalityType
  <1>11. ASSUME NEW t \in rows, NEW s \in DOMAIN store, Unread(s), Before(t, s)
         PROVE  s \in rows
    <2>1. s \in rest /\ t \in rest
      BY <1>11
    <2>2. after(s) \in SUBSET after(t)
      <3>1. \A u \in rest : Created[u] \in Nat /\ Name[u] \in Nat
        BY <1>7, KeyFacts
      <3>2. \A u \in rest : Before(s, u) => Before(t, u)
        BY <1>11, <2>1, <3>1 DEF Before
      <3> QED
        BY <3>2
    <2>3. Cardinality(after(t)) < Batch
      OBVIOUS
    <2>4. Cardinality(after(s)) <= Cardinality(after(t))
      <3> HIDE DEF after, rest
      <3> QED
        BY <1>10, <2>1, <2>2, FS_Subset
    <2>5. Cardinality(after(s)) < Batch
      <3> HIDE DEF after, rest
      <3> QED
        BY <1>0, <1>10, <2>1, <2>3, <2>4
    <2> QED
      BY <2>1, <2>5
  <1>12. ASSUME rows = {} PROVE rest = {}
    <2> SUFFICES ASSUME rest # {} PROVE FALSE
      OBVIOUS
    <2>1. PICK t \in rest : after(t) = {}
      <3> HIDE DEF rest
      <3> QED
        BY <1>7, NewestIs
    <2>2. Cardinality(after(t)) < Batch
      BY <1>0, <2>1, FS_EmptySet
    <2> QED
      BY <1>12, <2>2
  <1>13. ASSUME rows # {}
         PROVE  \E t \in rows : cut = KeyOf(t) /\ \A s \in rows : ~Before(s, t)
    <2>1. rows \in SUBSET (1..MaxSlots)
      BY <1>0
    <2> HIDE DEF rows
    <2>2. PICK t \in rows : \A s \in rows : ~Before(s, t)
      BY <1>13, <2>1, OldestIs
    <2>3. \A u, s \in rows : (Older(KeyOf(s), KeyOf(u)) <=> Before(s, u))
      BY <2>1, KeyFacts
    <2>4. KeyOf(t) \in keys /\ \A s \in rows : ~Older(KeyOf(s), KeyOf(t))
      BY <2>2, <2>3
    <2>5. cut \in keys /\ \A s \in rows : ~Older(KeyOf(s), cut)
      BY <2>4
    <2>6. PICK u \in rows : cut = KeyOf(u)
      BY <2>5
    <2> QED
      BY <2>3, <2>5, <2>6
  <1> HIDE DEF cut, keys
  <1>14. rows = {} => cacheView' = cacheView /\ \A s \in DOMAIN store : ~Unread(s)
    BY <1>8, <1>12
  <1>15. \A s \in rows : Unread(s)
    OBVIOUS
  <1> HIDE DEF rows
  <1> QED
    BY <1>7, <1>8, <1>9, <1>11, <1>13, <1>14, <1>15

\* Rows the view has reached.
Reached(s) == IF cacheView = <<>> THEN localComplete ELSE cacheView[1] < Created[s]

ShownRows ==
    /\ \A s \in DOMAIN mem : First(s) /\ InView(s) => mem[s] = store[s]
    /\ ~localComplete => \A s \in DOMAIN mem : First(s) => InView(s)
    /\ \A s \in DOMAIN store : First(s) /\ Reached(s) => s \in DOMAIN mem

\* The cut is the key of a topic, and the view holds that topic if there is a row of it.
CutIs ==
    cacheView # <<>> => \E t \in 1..MaxSlots :
        cacheView = KeyOf(t) /\ (t \in DOMAIN store => t \in DOMAIN mem)

\* Nothing is shown before the first batch, and no page is asked for before the last.
Begun ==
    /\ cacheView = <<>> /\ ~localComplete =>
            /\ DOMAIN mem = {} /\ pc \in {"closed", "idle", "head"}
            /\ loadMore \/ pc = "closed"
    /\ pc = "closed" => ~localComplete /\ cacheView = <<>> /\ DOMAIN mem = {}
    /\ pc \in {"page", "applyPage"} => localComplete

Shown == ShownRows /\ CutIs /\ Begun

LEMMA SameShown ==
    ASSUME Shown, UNCHANGED <<store, mem, cacheView, localComplete>>, Begun'
    PROVE  Shown'
  <1>1. ShownRows'
    BY DEF Shown, ShownRows, InView, Reached
  <1>2. CutIs'
    BY DEF Shown, CutIs
  <1> QED
    BY <1>1, <1>2 DEF Shown

\* One row is stored and shown, or stored and not shown, or taken out of both.
LEMMA MergeShown ==
    ASSUME Base, Shown, NEW s \in Slots, NEW row \in Rows, Merge(s, row),
           InView(s) \/ localComplete, UNCHANGED <<cacheView, localComplete>>, Begun'
    PROVE  Shown'
  <1>1. /\ DOMAIN store' = DOMAIN store \cup {s} /\ DOMAIN mem' = DOMAIN mem \cup {s}
        /\ \A t \in DOMAIN store : t # s => store'[t] = store[t]
        /\ \A t \in DOMAIN mem : t # s => mem'[t] = mem[t]
        /\ \/ store'[s] = row /\ mem'[s] = row
           \/ /\ s \in DOMAIN mem /\ row.revision <= mem[s].revision
              /\ store'[s] = store[s] /\ mem'[s] = mem[s]
           \/ s \notin DOMAIN mem /\ row.revision = 0 /\ store'[s] = Blank /\ mem'[s] = Blank
    BY MergeIs DEF Base, Shape
  <1>2. DOMAIN mem \subseteq DOMAIN store
    BY DEF Base, Shape, DeviceShape
  <1>3. \A t : InView(t)' = InView(t) /\ Reached(t)' = Reached(t)
    BY DEF InView, Reached
  <1>4. ASSUME NEW t \in DOMAIN mem', First(t), InView(t) PROVE mem'[t] = store'[t]
    <2>1. CASE t # s
      <3>1. t \in DOMAIN mem /\ t \in DOMAIN store
        BY <1>1, <1>2, <2>1
      <3> QED
        BY <1>1, <1>4, <2>1, <3>1 DEF Shown, ShownRows
    <2>2. CASE t = s
      BY <1>1, <1>4, <2>2 DEF Shown, ShownRows
    <2> QED
      BY <2>1, <2>2
  <1>5. ~localComplete => \A t \in DOMAIN mem' : First(t) => InView(t)
    BY <1>1 DEF Shown, ShownRows
  <1>6. \A t \in DOMAIN store' : First(t) /\ Reached(t) => t \in DOMAIN mem'
    BY <1>1 DEF Shown, ShownRows
  <1>7. ShownRows'
    BY <1>3, <1>4, <1>5, <1>6 DEF ShownRows
  <1>8. CutIs'
    BY <1>1 DEF Shown, CutIs
  <1> QED
    BY <1>7, <1>8 DEF Shown

LEMMA PutShown ==
    ASSUME Base, Shown, NEW s \in Slots, NEW row \in Rows, ~InView(s),
           store' = Put(store, s, row), mem' = mem,
           UNCHANGED <<cacheView, localComplete>>, Begun'
    PROVE  Shown'
  <1>1. /\ DOMAIN store' = DOMAIN store \cup {s}
        /\ \A t \in DOMAIN store : t # s => store'[t] = store[t]
    BY DEF Put
  <1>2. DOMAIN mem \subseteq DOMAIN store
    BY DEF Base, Shape, DeviceShape
  <1>3. \A t : InView(t)' = InView(t) /\ Reached(t)' = Reached(t)
    BY DEF InView, Reached
  <1>4. ~Reached(s)
    BY DEF InView, Reached
  <1>5. ShownRows'
    BY <1>1, <1>2, <1>3, <1>4 DEF Shown, ShownRows
  <1>6. CutIs'
    <2> SUFFICES ASSUME cacheView # <<>>
                 PROVE  \E t \in 1..MaxSlots :
                            cacheView = KeyOf(t) /\ (t \in DOMAIN store' => t \in DOMAIN mem')
      BY DEF CutIs
    <2>1. PICK t \in 1..MaxSlots : cacheView = KeyOf(t) /\ (t \in DOMAIN store => t \in DOMAIN mem)
      BY DEF Shown, CutIs
    <2>2. t # s
      <3>1. cacheView[1] = Created[t] /\ cacheView[2] = Name[t] /\ Name[t] \in Nat
        BY <2>1, KeyFacts
      <3> QED
        BY <3>1 DEF InView
    <2> QED
      BY <1>1, <2>1, <2>2
  <1> QED
    BY <1>5, <1>6 DEF Shown

LEMMA DropShown ==
    ASSUME Base, Shown, NEW s \in Slots, store' = Drop(store, s), mem' = Drop(mem, s),
           UNCHANGED <<cacheView, localComplete>>, Begun'
    PROVE  Shown'
  <1>1. /\ DOMAIN store' = DOMAIN store \ {s} /\ DOMAIN mem' = DOMAIN mem \ {s}
        /\ \A t \in DOMAIN store' : store'[t] = store[t]
        /\ \A t \in DOMAIN mem' : mem'[t] = mem[t]
    BY DEF Drop
  <1>2. DOMAIN mem \subseteq DOMAIN store
    BY DEF Base, Shape, DeviceShape
  <1>3. \A t : InView(t)' = InView(t) /\ Reached(t)' = Reached(t)
    BY DEF InView, Reached
  <1>4. ShownRows'
    BY <1>1, <1>2, <1>3 DEF Shown, ShownRows
  <1>5. CutIs'
    BY <1>1 DEF Shown, CutIs
  <1> QED
    BY <1>4, <1>5 DEF Shown

LEMMA LoadLocalShown ==
    ASSUME Base, Trust, Shown, LoadLocal
    PROVE  Shown'
  <1>1. PICK rows \in SUBSET DOMAIN store :
           /\ mem' = [s \in DOMAIN mem \cup rows |-> IF s \in rows THEN store[s] ELSE mem[s]]
           /\ UNCHANGED store /\ ~localComplete /\ localComplete' = (rows = {}) /\ pc' = "mid"
           /\ \A s \in rows : Unread(s)
           /\ \A t \in rows : \A s \in DOMAIN store : Unread(s) /\ Before(t, s) => s \in rows
           /\ rows = {} => cacheView' = cacheView /\ \A s \in DOMAIN store : ~Unread(s)
           /\ rows # {} => \E t \in rows : /\ cacheView' = KeyOf(t)
                                           /\ \A s \in rows : ~Before(s, t)
    BY LoadLocalIs
  <1>2. /\ DOMAIN mem' = DOMAIN mem \cup rows
        /\ \A s \in rows : mem'[s] = store'[s]
        /\ \A s \in DOMAIN mem \ rows : mem'[s] = mem[s]
        /\ DOMAIN mem \subseteq DOMAIN store /\ DOMAIN store \subseteq 1..MaxSlots
    BY <1>1, SlotFacts DEF Base, Shape, DeviceShape
  <1>3. \A s \in DOMAIN mem : First(s) => InView(s) /\ mem[s] = store[s]
    BY <1>1 DEF Shown, ShownRows
  <1>4. CASE rows = {}
    <2>1. DOMAIN mem' = DOMAIN mem /\ (\A s \in DOMAIN mem : mem'[s] = mem[s])
          /\ cacheView' = cacheView /\ localComplete'
      BY <1>1, <1>2, <1>4
    <2>2. \A s \in DOMAIN mem' : First(s) => mem'[s] = store'[s]
      BY <1>1, <1>3, <2>1
    <2>3. ASSUME NEW s \in DOMAIN store, First(s), Reached(s)' PROVE s \in DOMAIN mem
      <3>1. ~Unread(s)
        BY <1>1, <1>4
      <3>2. cacheView # <<>>
        BY <3>1 DEF Unread
      <3>3. Reached(s)
        BY <2>1, <2>3, <3>2 DEF Reached
      <3> QED
        BY <2>3, <3>3 DEF Shown, ShownRows
    <2>4. ShownRows'
      BY <1>1, <2>1, <2>2, <2>3 DEF ShownRows
    <2>5. CutIs'
      BY <1>1, <2>1 DEF Shown, CutIs
    <2>6. Begun'
      BY <1>1, <2>1 DEF Begun
    <2> QED
      BY <2>4, <2>5, <2>6 DEF Shown
  <1>5. CASE rows # {}
    <2>1. PICK t \in rows : cacheView' = KeyOf(t) /\ \A s \in rows : ~Before(s, t)
      BY <1>1, <1>5
    <2>2. /\ t \in 1..MaxSlots /\ t \in DOMAIN store /\ Created[t] \in Nat /\ Name[t] \in Nat
          /\ cacheView' # <<>> /\ cacheView'[1] = Created[t] /\ cacheView'[2] = Name[t]
      BY <1>2, <2>1, KeyFacts
    <2>3. ~localComplete'
      BY <1>1, <1>5
    <2>4. \A s \in 1..MaxSlots : Created[s] \in Nat /\ Name[s] \in Nat
      BY KeyFacts
    <2>5. \A s : First(s) /\ Created[s] = Created[t] => Name[s] <= Name[t]
      BY <2>2 DEF First
    <2>6. \A s : /\ InView(s)' <=> (Created[t] < Created[s] \/ (Created[t] = Created[s] /\ Name[t] >= Name[s]))
                 /\ Reached(s)' <=> Created[t] < Created[s]
      BY <2>2 DEF InView, Reached
    <2>7. cacheView = <<>> \/
            \E u \in 1..MaxSlots : /\ cacheView = KeyOf(u) /\ Before(t, u)
                                   /\ (u \in DOMAIN store => u \in DOMAIN mem)
      <3> SUFFICES ASSUME cacheView # <<>>
                   PROVE  \E u \in 1..MaxSlots : /\ cacheView = KeyOf(u) /\ Before(t, u)
                                                 /\ (u \in DOMAIN store => u \in DOMAIN mem)
        OBVIOUS
      <3>1. PICK u \in 1..MaxSlots : cacheView = KeyOf(u) /\ (u \in DOMAIN store => u \in DOMAIN mem)
        BY DEF Shown, CutIs
      <3>2. Older(KeyOf(t), KeyOf(u))
        BY <1>1, <2>1, <3>1 DEF Unread
      <3>3. Before(t, u)
        BY <2>2, <3>2, KeyFacts
      <3> QED
        BY <3>1, <3>3
    <2>8. ASSUME NEW s \in DOMAIN mem', First(s) PROVE InView(s)' /\ mem'[s] = store'[s]
      <3>1. s \in 1..MaxSlots
        BY <1>2
      <3>2. CASE s \in rows
        <4>1. ~Before(s, t)
          BY <2>1, <3>2
        <4> QED
          BY <1>2, <2>2, <2>4, <2>5, <2>6, <2>8, <3>1, <3>2, <4>1 DEF Before
      <3>3. CASE s \notin rows
        <4>1. s \in DOMAIN mem /\ InView(s) /\ mem[s] = store[s]
          BY <1>2, <1>3, <2>8, <3>3
        <4>2. cacheView # <<>>
          BY <1>1, <4>1 DEF Shown, Begun
        <4>3. PICK u \in 1..MaxSlots : cacheView = KeyOf(u) /\ Before(t, u)
          BY <2>7, <4>2
        <4>4. Created[u] <= Created[s]
          <5>1. cacheView[1] = Created[u] /\ Created[u] \in Nat
            BY <2>4, <4>3, KeyFacts
          <5> QED
            BY <2>4, <3>1, <4>1, <4>2, <5>1 DEF InView
        <4>5. Created[t] <= Created[s]
          BY <2>2, <2>4, <3>1, <4>3, <4>4 DEF Before
        <4>6. InView(s)'
          BY <2>2, <2>4, <2>5, <2>6, <2>8, <3>1, <4>5
        <4> QED
          BY <1>1, <1>2, <3>3, <4>1, <4>6
      <3> QED
        BY <3>2, <3>3
    <2>9. ASSUME NEW s \in DOMAIN store, First(s), Created[t] < Created[s]
          PROVE  s \in DOMAIN mem'
      <3>1. s \in 1..MaxSlots /\ Before(t, s)
        BY <1>2, <2>9 DEF Before
      <3>2. CASE Unread(s)
        BY <1>1, <1>2, <3>1, <3>2
      <3>3. CASE ~Unread(s)
        <4>1. cacheView # <<>>
          BY <3>3 DEF Unread
        <4>2. PICK u \in 1..MaxSlots : /\ cacheView = KeyOf(u) /\ Before(t, u)
                                       /\ (u \in DOMAIN store => u \in DOMAIN mem)
          BY <2>7, <4>1
        <4>3. ~Before(s, u)
          <5>1. ~Older(KeyOf(s), KeyOf(u))
            BY <3>3, <4>2 DEF Unread
          <5> QED
            BY <3>1, <5>1, KeyFacts
        <4>4. CASE Created[u] < Created[s]
          <5>1. Reached(s)
            BY <4>1, <4>2, <4>4, KeyFacts DEF Reached
          <5> QED
            BY <1>2, <2>9, <5>1 DEF Shown, ShownRows
        <4>5. CASE ~(Created[u] < Created[s])
          <5>1. Created[u] = Created[s] /\ Name[u] <= Name[s]
            BY <2>4, <3>1, <4>3, <4>5 DEF Before
          <5>2. Name[s] <= Name[u]
            BY <2>9, <5>1 DEF First
          <5>3. Name[s] = Name[u]
            BY <2>4, <3>1, <5>1, <5>2
          <5>4. KeyOf(s) = KeyOf(u)
            BY <5>1, <5>3 DEF KeyOf
          <5>5. s = u
            BY <3>1, <5>4, KeyFacts
          <5> QED
            BY <1>2, <4>2, <5>5
        <4> QED
          BY <4>4, <4>5
      <3> QED
        BY <3>2, <3>3
    <2>10. ShownRows'
      BY <1>1, <2>6, <2>8, <2>9 DEF ShownRows
    <2>11. CutIs'
      BY <1>2, <2>1, <2>2 DEF CutIs
    <2>12. Begun'
      BY <1>1, <2>2 DEF Begun
    <2> QED
      BY <2>10, <2>11, <2>12 DEF Shown
  <1> QED
    BY <1>4, <1>5

\* The steps that change neither rows nor view, and those that empty the view.
LEMMA AppShown ==
    ASSUME Base, Trust, Shown, App \/ SetRevision \/ Added \/ Closed \/ Node, ~Torn
    PROVE  Shown'
  <1>1. UNCHANGED store
    <2>1. Node => UNCHANGED store
      BY NodeGrows DEF Base, Shape, Client, device
    <2> QED
      BY <2>1 DEF App, Open, SetRevision, Added, ViewMoreTopics, Disconnect, Close, Closed,
                  Crash, device
  <1>2. CASE Open
    <2>1. /\ pc = "closed" /\ pc' = "head" /\ localComplete' = (storeView.revision = 0)
          /\ loadMore' /\ mem' = [s \in {} |-> Blank] /\ cacheView' = <<>>
      BY <1>2 DEF Open
    <2>2. DOMAIN mem' = {}
      BY <2>1
    <2>3. localComplete' => DOMAIN store = {}
      BY <2>1 DEF Trust, Stored, Applying
    <2>4. ShownRows'
      BY <1>1, <2>1, <2>2, <2>3 DEF ShownRows, Reached
    <2>5. CutIs' /\ Begun'
      BY <2>1, <2>2 DEF CutIs, Begun
    <2> QED
      BY <2>4, <2>5 DEF Shown
  <1>3. CASE SetRevision \/ Added \/ ViewMoreTopics \/ Disconnect \/ Close
    <2>1. /\ UNCHANGED <<mem, cacheView, localComplete>>
          /\ pc' = pc \/ (pc = "idle" /\ pc' = "head")
          /\ loadMore' = loadMore \/ loadMore'
      BY <1>3 DEF SetRevision, Added, ViewMoreTopics, Disconnect, Close, Kick, view, flags
    <2>2. Begun'
      BY <2>1 DEF Shown, Begun
    <2> QED
      BY <1>1, <2>1, <2>2, SameShown
  <1>4. CASE Closed \/ Crash
    <2>1. Gone
      BY <1>4 DEF Closed, Crash
    <2>2. /\ pc' = "closed" /\ mem' = [s \in {} |-> Blank] /\ cacheView' = <<>>
          /\ localComplete' = FALSE
      BY <2>1 DEF Gone
    <2>3. DOMAIN mem' = {}
      BY <2>2
    <2>4. ShownRows' /\ CutIs' /\ Begun'
      BY <2>2, <2>3 DEF ShownRows, Reached, CutIs, Begun
    <2> QED
      BY <2>4 DEF Shown
  <1>5. CASE Node
    <2>1. UNCHANGED <<mem, cacheView, localComplete, loadMore, pc>>
      BY <1>5, NodeGrows DEF Base, Shape, Client, flags, view
    <2>2. Begun'
      BY <2>1 DEF Shown, Begun
    <2> QED
      BY <1>1, <2>1, <2>2, SameShown
  <1> QED
    BY <1>2, <1>3, <1>4, <1>5 DEF App

LEMMA PassShown ==
    ASSUME Base, Shown,
           \/ LoadNothing \/ AskPage \/ ServePage \/ PageFails \/ FinishPage
           \/ AskDelta \/ SkipDelta \/ ServeDelta \/ DeltaFails \/ FinishDelta \/ Leave
    PROVE  Shown'
  <1>1. UNCHANGED <<store, mem, cacheView, localComplete>>
    BY DEF LoadNothing, AskPage, ServePage, PageFails, FinishPage, AskDelta, SkipDelta,
           ServeDelta, DeltaFails, FinishDelta, Leave, device, view, flags
  <1>2. Begun'
    <2>1. CASE LoadNothing
      <3>1. (loadMore => localComplete) /\ pc = "head" /\ pc' = "mid"
        BY <2>1 DEF LoadNothing
      <3>2. cacheView # <<>> \/ localComplete
        BY <3>1 DEF Shown, Begun
      <3> QED
        BY <1>1, <3>1, <3>2 DEF Begun
    <2>2. CASE AskPage \/ ServePage
      BY <1>1, <2>2 DEF AskPage, ServePage, Shown, Begun
    <2>3. CASE Leave
      BY <1>1, <2>3 DEF Leave, flags, Shown, Begun
    <2>4. CASE PageFails \/ FinishPage \/ AskDelta \/ SkipDelta \/ ServeDelta \/ DeltaFails \/ FinishDelta
      <3>1. pc \in {"page", "applyPage", "mid", "delta", "applyDelta"}
        BY <2>4 DEF PageFails, FinishPage, AskDelta, SkipDelta, ServeDelta, DeltaFails, FinishDelta
      <3>2. pc' \in {"head", "mid", "delta", "applyDelta"}
        BY <2>4 DEF PageFails, FinishPage, AskDelta, SkipDelta, ServeDelta, DeltaFails, FinishDelta, EndPass
      <3> QED
        BY <1>1, <3>1, <3>2 DEF Shown, Begun
    <2> QED
      BY <2>1, <2>2, <2>3, <2>4
  <1> QED
    BY <1>1, <1>2, SameShown

LEMMA ApplyShown ==
    ASSUME Base, Shown, ApplyPage \/ ApplyDelta
    PROVE  Shown'
  <1>1. UNCHANGED <<cacheView, localComplete, pc, loadMore>>
    BY DEF ApplyPage, ApplyDelta, flags
  <1>2. Applying
    BY DEF ApplyPage, ApplyDelta, Applying
  <1>3. Begun'
    BY <1>1, <1>2 DEF Shown, Begun, Applying
  <1>4. CASE ApplyPage
    <2>1. /\ pc = "applyPage" /\ reply.topics # {}
          /\ Merge(Next1.id, [revision |-> Next1.detail, detail |-> Next1.detail])
          /\ reply' = [reply EXCEPT !.topics = @ \ {Next1}]
      BY <1>4 DEF ApplyPage
    <2>2. Next1 \in Topic /\ Next1.id \in Slots
      BY <1>2, <2>1, TakeIs
    <2>3. PICK e \in Topic : e = Next1
      BY <2>2
    <2>4. PICK row \in Rows : row = [revision |-> e.detail, detail |-> e.detail]
      <3>1. e.detail \in Revs
        BY DEF Topic
      <3> QED
        BY <3>1, RowIs
    <2>5. Merge(e.id, row) /\ e.id \in Slots
      BY <2>1, <2>2, <2>3, <2>4
    <2>6. localComplete
      BY <2>1 DEF Shown, Begun
    <2> QED
      BY <1>1, <1>3, <2>5, <2>6, MergeShown
  <1>5. CASE ApplyDelta
    <2>1. PICK e \in Topic :
           /\ e = Next1 /\ e \in reply.topics /\ e.id \in Slots
           /\ \/ ~e.live /\ mem' = Drop(mem, e.id) /\ store' = Drop(store, e.id)
              \/ \E row \in Rows :
                  /\ e.live /\ (reply.inline \/ slots[e.id].live)
                  /\ row.revision = e.detail
                  /\ row.detail = IF reply.inline THEN e.detail ELSE slots[e.id].detail
                  /\ \/ InView(e.id) /\ Merge(e.id, row)
                     \/ ~InView(e.id) /\ store' = Put(store, e.id, row) /\ mem' = mem
      BY <1>5, ApplyDeltaIs
    <2>2. CASE mem' = Drop(mem, e.id) /\ store' = Drop(store, e.id)
      BY <1>1, <1>3, <2>1, <2>2, DropShown
    <2>3. CASE \E row \in Rows :
                  \/ InView(e.id) /\ Merge(e.id, row)
                  \/ ~InView(e.id) /\ store' = Put(store, e.id, row) /\ mem' = mem
      <3>1. PICK row \in Rows :
                  \/ InView(e.id) /\ Merge(e.id, row)
                  \/ ~InView(e.id) /\ store' = Put(store, e.id, row) /\ mem' = mem
        BY <2>3
      <3>2. CASE InView(e.id) /\ Merge(e.id, row)
        BY <1>1, <1>3, <2>1, <3>2, MergeShown
      <3>3. CASE ~InView(e.id) /\ store' = Put(store, e.id, row) /\ mem' = mem
        BY <1>1, <1>3, <2>1, <3>3, PutShown
      <3> QED
        BY <3>1, <3>2, <3>3
    <2> QED
      BY <2>1, <2>2, <2>3
  <1> QED
    BY <1>4, <1>5

LEMMA InitShown == Init => Shown
  <1> SUFFICES ASSUME Init PROVE Shown
    OBVIOUS
  <1>1. /\ DOMAIN store = {} /\ DOMAIN mem = {} /\ pc = "closed"
        /\ cacheView = <<>> /\ localComplete = FALSE
    BY DEF Init
  <1> QED
    BY <1>1 DEF Shown, ShownRows, CutIs, Begun

LEMMA StepShown ==
    ASSUME Base, Trust, Shown, ~Torn, [Next]_vars
    PROVE  Shown'
  <1>1. CASE UNCHANGED vars
    <2>1. UNCHANGED <<store, mem, cacheView, localComplete, loadMore, pc>>
      BY <1>1 DEF vars, device, view, flags
    <2>2. Begun'
      BY <2>1 DEF Shown, Begun
    <2> QED
      BY <2>1, <2>2, SameShown
  <1>2. CASE Node \/ App \/ SetRevision \/ Added \/ Closed
    BY <1>2, AppShown
  <1>3. CASE LoadLocal
    BY <1>3, LoadLocalShown
  <1>4. CASE \/ LoadNothing \/ AskPage \/ ServePage \/ PageFails \/ FinishPage
             \/ AskDelta \/ SkipDelta \/ ServeDelta \/ DeltaFails \/ FinishDelta \/ Leave
    BY <1>4, PassShown
  <1>5. CASE ApplyPage \/ ApplyDelta
    BY <1>5, ApplyShown
  <1> QED
    BY <1>1, <1>2, <1>3, <1>4, <1>5 DEF Next, Pass

\* What the listeners are shown is what the store holds: every row newer than the
\* cut of the view is shown, as it is stored, for any number of topics and any
\* times of creation; of several topics of one second this is true of the first
\* (focus.ts sync, getTopicEntry), unless the device stops with a row half
\* stored.
THEOREM TopicViewMatches ==
    ASSUME ~Torn
    PROVE  Spec => []ViewMatches
  <1>1. Base /\ [Next]_vars => Base'
    BY StepBase
  <1>2. Base /\ Trust /\ [Next]_vars => Trust'
    BY StepTrust
  <1>3. Base /\ Trust /\ Shown /\ [Next]_vars => Shown'
    BY StepShown
  <1>4. Shown => ViewMatches
    BY DEF Shown, ShownRows, ViewMatches, Reached
  <1> QED
    BY <1>1, <1>2, <1>3, <1>4, InitBase, InitTrust, InitShown, PTL DEF Spec
=============================================================================
