-------------------------- MODULE RevisionSyncProofs --------------------------
(***************************************************************************)
(* Proofs about RevisionSync, for any number of channels, changes and      *)
(* faults, with revisions that overtake each other: the ranges of the      *)
(* variables for all requests, and the synchronisation while the node      *)
(* serves one request at a time and none sets a channel's group.           *)
(***************************************************************************)
EXTENDS RevisionSync, SequenceTheorems, FiniteSetTheorems, TLAPS

OneAtATime == \A h, k \in Handlers : h = k
NoGroupOps == Ops \cap GroupOps = {}

\* The types of the variables the invariant speaks of, without their bounds.
Slot  == [rev : Nat, live : BOOLEAN, drev : Nat, trev : Nat, detail : Nat, topics : Nat]
Copy  == [has : BOOLEAN, drev : Nat, trev : Nat, detail : Nat, topics : Nat]
Entry == [id : Channels, live : BOOLEAN, drev : Nat, trev : Nat, detail : Nat, topics : Nat]
Work  == [at : {"idle", "loaded", "committed"}, rev : Nat, ids : SUBSET Channels]

ServerShape ==
    /\ chanRev \in Nat /\ slots \in [Channels -> Slot] /\ commits \in Nat
    /\ work \in [Handlers -> Work]
LinkShape   == inbox \in Seq(Nat)
ClientShape ==
    /\ revision \in Nat /\ next \in Nat /\ goal \in Nat /\ full \in BOOLEAN
    /\ copy \in [Channels -> Copy]
    /\ listed \subseteq Channels /\ delta \in Seq(Entry)
Shape == ServerShape /\ LinkShape /\ ClientShape

-------------------------------------------------------------------------------
(* Sequences.                                                                *)

\* What is left of a response when its first entry is done.
LEMMA TailFacts ==
    ASSUME NEW S, NEW s \in Seq(S), s # <<>>
    PROVE  /\ 1 \in DOMAIN s /\ Head(s) = s[1] /\ Head(s) \in S
           /\ Tail(s) \in Seq(S)
           /\ \A i \in DOMAIN Tail(s) : i + 1 \in DOMAIN s /\ Tail(s)[i] = s[i + 1]
           /\ \A i \in DOMAIN s : i # 1 => i - 1 \in DOMAIN Tail(s) /\ Tail(s)[i - 1] = s[i]
  <1>1. Len(s) \in Nat \ {0} /\ DOMAIN s = 1 .. Len(s)
    BY EmptySeq, LenProperties
  <1>2. Tail(s) \in Seq(S) /\ Len(Tail(s)) = Len(s) - 1
        /\ \A i \in 1 .. Len(Tail(s)) : Tail(s)[i] = s[i + 1]
    BY HeadTailProperties
  <1>3. DOMAIN Tail(s) = 1 .. Len(s) - 1
    BY <1>2, LenProperties
  <1>4. Head(s) = s[1] /\ Head(s) \in S
    BY HeadTailProperties
  <1> QED
    BY <1>1, <1>2, <1>3, <1>4

\* Taking a revision out of the inbox leaves others that were in it.
LEMMA RemoveAtFacts ==
    ASSUME NEW S, NEW s \in Seq(S), NEW i \in 1 .. Len(s)
    PROVE  RemoveAt(s, i) \in Seq(S)
  <1>1. Len(s) \in Nat /\ \A j \in 1 .. Len(s) : s[j] \in S
    BY LenProperties, ElementOfSeq
  <1>2. SubSeq(s, 1, i - 1) \in Seq(S)
    BY <1>1, SubSeqProperties
  <1>3. SubSeq(s, i + 1, Len(s)) \in Seq(S)
    BY <1>1, SubSeqProperties
  <1> QED
    BY <1>2, <1>3, ConcatProperties DEF RemoveAt

\* A sequence of numbers is bounded if it is a sequence of bounded numbers.
LEMMA BoundedElements ==
    ASSUME NEW s \in Seq(Nat), NEW n \in Nat
    PROVE  (\A i \in DOMAIN s : s[i] <= n) <=> s \in Seq(0 .. n)
  <1>1. DOMAIN s = 1 .. Len(s) /\ Len(s) \in Nat /\ \A i \in DOMAIN s : s[i] \in Nat
    BY LenProperties, ElementOfSeq
  <1>2. ASSUME \A i \in DOMAIN s : s[i] <= n
        PROVE  s \in Seq(0 .. n)
    <2>1. s \in [1 .. Len(s) -> 0 .. n]
      BY <1>1, <1>2, LenProperties
    <2> QED
      BY <1>1, <2>1, SeqDef
  <1>3. ASSUME s \in Seq(0 .. n)
        PROVE  \A i \in DOMAIN s : s[i] <= n
    BY <1>1, <1>3, ElementOfSeq
  <1> QED
    BY <1>2, <1>3

-------------------------------------------------------------------------------
(* Requests.                                                                 *)

\* Apart from the two that set a group, a request writes one of four things.
LEMMA AfterKinds ==
    ASSUME NoGroupOps, NEW op \in Ops, NEW s, NEW n, NEW k
    PROVE  \/ op = "AddChannel" /\ After(op, s, n, k) = AddChannel(s, n, k)
           \/ op # "AddChannel" /\ After(op, s, n, k) = RemoveChannel(s, n, k)
           \/ op # "AddChannel" /\ After(op, s, n, k) = NewDetail(s, n, k)
           \/ op # "AddChannel" /\ After(op, s, n, k) = NewTopics(s, n, k)
  <1> USE DEF After, LeaveChannel, RemoveCard, SetChannelSubject, SetChannelCard,
              ClearChannelCard, AddChannelTopic, SetChannelTopicSubject,
              SetChannelTopicConfirmed, RemoveChannelTopic, AddChannelTopicAsset,
              AddChannelTopicBlock, RemoveChannelTopicAsset, AddChannelTopicTag,
              SetChannelTopicTagSubject, RemoveChannelTopicTag, SetTopicRead, UpdateAsset
  <1>1. op \in AllOps \ GroupOps
    BY RevisionAssumption DEF NoGroupOps
  <1>2. CASE op = "AddChannel"
    BY <1>2
  <1>3. CASE op \in {"RemoveChannel"}
    BY <1>3
  <1>4. CASE op \in {"RemoveCard"} \cup DetailOps
    BY <1>4 DEF DetailOps
  <1>5. CASE op \in TopicOps \cup QuietOps
    BY <1>5 DEF TopicOps, QuietOps
  <1> QED
    BY <1>1, <1>2, <1>3, <1>4, <1>5 DEF AllOps

\* What a request may leave, t, of a slot s that it stamps with n.
Stamped(s, t, n) ==
    /\ t \in Slot /\ t.rev = n /\ t.drev <= n /\ t.trev <= n
    /\ t.live => t.drev # 0 /\ t.trev # 0
    /\ t.live => t.drev = n \/ (s.live /\ t.drev = s.drev /\ t.detail = s.detail)
    /\ t.live => t.trev = n \/ (s.live /\ t.trev = s.trev /\ t.topics = s.topics)

LEMMA AfterFacts ==
    ASSUME NoGroupOps, NEW op \in Ops, NEW s \in Slot, NEW n \in Nat \ {0}, NEW k \in Nat,
           op # "AddChannel" => s.live,
           s.drev < n, s.trev < n, s.live => s.drev # 0 /\ s.trev # 0
    PROVE  Stamped(s, After(op, s, n, k), n)
  <1>1. Stamped(s, AddChannel(s, n, k), n)
    BY DEF AddChannel, Slot, Stamped
  <1>2. Stamped(s, RemoveChannel(s, n, k), n)
    <2> DEFINE t == RemoveChannel(s, n, k)
    <2>1. t \in Slot
      BY DEF RemoveChannel, NoSlot, Slot
    <2>2. t.rev = n /\ t.drev = 0 /\ t.trev = 0
      BY DEF RemoveChannel, NoSlot, Slot
    <2>3. ~t.live
      BY DEF RemoveChannel, NoSlot, Slot
    <2> HIDE DEF t
    <2>4. Stamped(s, t, n)
      BY <2>1, <2>2, <2>3 DEF Slot, Stamped
    <2> QED
      BY <2>4 DEF t
  <1>3. ASSUME s.live PROVE Stamped(s, NewDetail(s, n, k), n)
    <2> DEFINE t == NewDetail(s, n, k)
    <2>1. t \in Slot
      BY DEF NewDetail, Slot
    <2>2. t.rev = n /\ t.drev = n /\ t.trev = s.trev /\ t.topics = s.topics
      BY DEF NewDetail, Slot
    <2>3. t.live
      BY <1>3 DEF NewDetail, Slot
    <2> HIDE DEF t
    <2>4. Stamped(s, t, n)
      BY <1>3, <2>1, <2>2, <2>3 DEF Slot, Stamped
    <2> QED
      BY <2>4 DEF t
  <1>4. ASSUME s.live PROVE Stamped(s, NewTopics(s, n, k), n)
    <2> DEFINE t == NewTopics(s, n, k)
    <2>1. t \in Slot
      BY DEF NewTopics, Slot
    <2>2. t.rev = n /\ t.drev = s.drev /\ t.trev = n /\ t.detail = s.detail
      BY DEF NewTopics, Slot
    <2>3. t.live
      BY <1>4 DEF NewTopics, Slot
    <2> HIDE DEF t
    <2>4. Stamped(s, t, n)
      BY <1>4, <2>1, <2>2, <2>3 DEF Slot, Stamped
    <2> QED
      BY <2>4 DEF t
  <1> QED
    BY <1>1, <1>2, <1>3, <1>4, AfterKinds

\* What agreed with the slot agrees with what the request leaves of it.
LEMMA AgreesStamped ==
    ASSUME NEW s, NEW n \in Nat, NEW t, Stamped(s, t, n), NEW r,
           r.drev \in Nat, r.trev \in Nat, r.drev < n, r.trev < n, Agrees(r, s)
    PROVE  Agrees(r, t)
  BY DEF Agrees, Stamped

-------------------------------------------------------------------------------
(* Shape.                                                                    *)

LEMMA EmptyResponse == DOMAIN <<>> = {} /\ \A S : <<>> \in Seq(S)
  BY EmptySeq, LenProperties

\* A commit takes the counter one further and stamps what it changes with it.
LEMMA CommitFacts ==
    ASSUME OneAtATime, NoGroupOps, Shape, Bounded,
           NEW h \in Handlers, NEW op \in Ops, Commit(h, op)
    PROVE  /\ chanRev' = chanRev + 1
           /\ commits' \in Nat
           /\ slots' \in [Channels -> Slot]
           /\ \A c \in Channels :
                slots'[c] = slots[c] \/ Stamped(slots[c], slots'[c], chanRev + 1)
           /\ work' \in [Handlers -> Work]
           /\ \A k \in Handlers : work'[k].at # "idle" => work'[k].rev = chanRev + 1
  <1> DEFINE n == chanRev + 1
  <1>1. chanRev \in Nat /\ slots \in [Channels -> Slot] /\ commits \in Nat
        /\ work \in [Handlers -> Work]
    BY DEF Shape, ServerShape
  <1>2. work[h].at = "loaded" /\ work[h].rev = chanRev
    BY DEF Commit, Bounded, WorkBounded
  <1>3. chanRev' = n
    BY <1>2 DEF Commit, Stamp
  <1>4. commits' = commits + 1 /\ commits' \in Nat
    BY <1>1 DEF Commit
  <1>5. ASSUME NEW c \in Channels, c \in work[h].ids
        PROVE  Stamped(slots[c], After(op, slots[c], n, commits'), n)
    <2>1. op # "AddChannel" => slots[c].live
      BY <1>5 DEF Commit, Serves
    <2>2. slots[c] \in Slot /\ n \in Nat \ {0}
      BY <1>1
    <2>3. slots[c].drev < n /\ slots[c].trev < n
      BY <1>1, <2>2 DEF Bounded, SlotsBounded, Slot
    <2>4. slots[c].live => slots[c].drev # 0 /\ slots[c].trev # 0
      BY DEF Bounded, SlotsBounded
    <2> QED
      BY <1>4, <2>1, <2>2, <2>3, <2>4, AfterFacts
  <1>6. \A c \in Channels :
            slots'[c] = IF c \in work[h].ids THEN After(op, slots[c], n, commits') ELSE slots[c]
    BY <1>3 DEF Commit
  <1>7. \A c \in Channels : slots'[c] = slots[c] \/ Stamped(slots[c], slots'[c], n)
    BY <1>5, <1>6
  <1>8. slots' \in [Channels -> Slot]
    <2>1. \A c \in Channels : slots'[c] \in Slot
      BY <1>1, <1>7 DEF Stamped
    <2>2. slots' = [c \in Channels |-> slots'[c]]
      BY DEF Commit
    <2> QED
      BY <2>1, <2>2
  <1>9. work' \in [Handlers -> Work] /\ \A k \in Handlers : work'[k].at # "idle" => work'[k].rev = n
    <2>1. \A k \in Handlers : k = h
      BY DEF OneAtATime
    <2>2. CASE op \in QuietOps
      BY <1>1, <2>1, <2>2 DEF Commit, Idle, Work
    <2>3. CASE op \notin QuietOps
      <3>1. work' = [work EXCEPT ![h] = [work[h] EXCEPT !.at = "committed", !.rev = n]]
        BY <1>2, <1>3, <2>3 DEF Commit
      <3>2. ASSUME NEW w \in Work, NEW i \in Nat
            PROVE  [w EXCEPT !.at = "committed", !.rev = i] \in Work
        BY DEF Work
      <3>3. [work[h] EXCEPT !.at = "committed", !.rev = n].rev = n
        BY <1>1 DEF Work
      <3>4. [work[h] EXCEPT !.at = "committed", !.rev = n] \in Work
        <4>1. n \in Nat /\ work[h] \in Work
          BY <1>1
        <4> QED
          BY <3>2, <4>1, Zenon
      <3> QED
        BY <1>1, <2>1, <3>1, <3>3, <3>4
    <2> QED
      BY <2>2, <2>3
  <1> QED
    BY <1>3, <1>4, <1>7, <1>8, <1>9

\* A response lists, in some order, the channels that the two queries met.
LEMMA ReadRowsFacts ==
    ASSUME Shape, ReadRows
    PROVE  /\ delta' \in Seq(Entry)
           /\ \A i \in DOMAIN delta' :
                delta'[i].id \in listed /\ delta'[i] = EntryOf(delta'[i].id)
           /\ \A c \in listed :
                (full => slots[c].live) => \E i \in DOMAIN delta' : delta'[i].id = c
  <1> DEFINE S == {c \in listed : full => slots[c].live}
  <1>1. listed \subseteq Channels /\ slots \in [Channels -> Slot]
    BY DEF Shape, ServerShape, ClientShape
  <1>2. Cardinality(S) \in Nat
    <2>1. S \subseteq Channels
      BY <1>1
    <2> QED
      BY <2>1, FS_Subset, FS_CardinalityType, RevisionAssumption
  <1>3. \A c \in Channels : EntryOf(c) \in Entry /\ EntryOf(c).id = c
    BY <1>1 DEF EntryOf, Entry, Slot
  <1>4. PICK ids \in Orders(S) : delta' = [i \in DOMAIN ids |-> EntryOf(ids[i])]
    BY DEF ReadRows
  <1>5. DOMAIN ids = 1 .. Cardinality(S) /\ (\A i \in DOMAIN ids : ids[i] \in S)
        /\ \A c \in S : \E i \in DOMAIN ids : ids[i] = c
    BY <1>4 DEF Orders
  <1>6. delta' \in [1 .. Cardinality(S) -> Entry]
    BY <1>1, <1>3, <1>4, <1>5
  <1>7. delta' \in Seq(Entry)
    <2> HIDE DEF S
    <2>1. delta' \in UNION {[1 .. n -> Entry] : n \in Nat}
      BY <1>2, <1>6
    <2> QED
      BY <2>1, SeqDef
  <1>8. \A i \in DOMAIN delta' : delta'[i].id = ids[i] /\ delta'[i] = EntryOf(ids[i])
    BY <1>1, <1>3, <1>4, <1>5
  <1>9. \A i \in DOMAIN delta' : delta'[i].id \in listed /\ delta'[i] = EntryOf(delta'[i].id)
    BY <1>4, <1>5, <1>8
  <1>10. \A c \in listed : (full => slots[c].live) => \E i \in DOMAIN delta' : delta'[i].id = c
    BY <1>4, <1>5, <1>8
  <1> QED
    BY <1>7, <1>9, <1>10

\* The first entry of a response that is not empty.
LEMMA HeadFacts ==
    ASSUME Shape, delta # <<>>
    PROVE  /\ 1 \in DOMAIN delta /\ Head(delta) = delta[1]
           /\ Head(delta) \in Entry /\ Head(delta).id \in Channels
           /\ Tail(delta) \in Seq(Entry)
  <1>1. delta \in Seq(Entry)
    BY DEF Shape, ClientShape
  <1>2. 1 \in DOMAIN delta /\ Head(delta) = delta[1] /\ Head(delta) \in Entry
        /\ Tail(delta) \in Seq(Entry)
    BY <1>1, TailFacts
  <1> QED
    BY <1>2 DEF Entry

\* What the loop writes to the client's copy of the channel of the first entry.
LEMMA ApplyDetailFacts ==
    ASSUME Shape, ApplyDetail, NEW e, e = Head(delta)
    PROVE  /\ copy' \in [Channels -> Copy]
           /\ \A c \in Channels : c # e.id => copy'[c] = copy[c]
           /\ copy'[e.id].has /\ copy'[e.id].drev = e.drev
           /\ copy'[e.id].detail = IF full THEN e.detail ELSE slots[e.id].detail
           /\ copy'[e.id].trev = copy[e.id].trev /\ copy'[e.id].topics = copy[e.id].topics
  <1>1. copy \in [Channels -> Copy] /\ e \in Entry /\ e.id \in Channels
        /\ slots[e.id] \in Slot
    BY HeadFacts DEF ApplyDetail, Shape, ServerShape, ClientShape
  <1> DEFINE d == IF full THEN e.detail ELSE slots[e.id].detail
  <1>2. d \in Nat
    BY <1>1 DEF Entry, Slot
  <1>3. copy' = [copy EXCEPT ![e.id].has = TRUE, ![e.id].drev = e.drev, ![e.id].detail = d]
    BY DEF ApplyDetail
  <1> HIDE DEF d
  <1>4. e.drev \in Nat
    BY <1>1 DEF Entry
  <1>5. copy' \in [Channels -> Copy]
    <2>1. ASSUME NEW x \in Copy
          PROVE  [x EXCEPT !.has = TRUE, !.drev = e.drev, !.detail = d] \in Copy
      BY <1>2, <1>4 DEF Copy
    <2>2. copy'[e.id] = [copy[e.id] EXCEPT !.has = TRUE, !.drev = e.drev, !.detail = d]
      BY <1>1, <1>3
    <2>3. copy[e.id] \in Copy
      BY <1>1
    <2>4. copy'[e.id] \in Copy
      BY <2>1, <2>2, <2>3, Zenon
    <2> QED
      BY <1>1, <1>3, <2>4
  <1>6. \A c \in Channels : c # e.id => copy'[c] = copy[c]
    BY <1>1, <1>3
  <1>7. copy'[e.id].has /\ copy'[e.id].drev = e.drev /\ copy'[e.id].detail = d
        /\ copy'[e.id].trev = copy[e.id].trev /\ copy'[e.id].topics = copy[e.id].topics
    BY <1>1, <1>3 DEF Copy
  <1> QED
    BY <1>5, <1>6, <1>7 DEF d

LEMMA ApplySummaryFacts ==
    ASSUME Shape, ApplySummary, NEW e, e = Head(delta)
    PROVE  /\ copy' \in [Channels -> Copy]
           /\ \A c \in Channels : c # e.id => copy'[c] = copy[c]
           /\ copy'[e.id].trev = e.trev
           /\ copy'[e.id].topics = IF full THEN e.topics ELSE slots[e.id].topics
           /\ copy'[e.id].has = copy[e.id].has
           /\ copy'[e.id].drev = copy[e.id].drev /\ copy'[e.id].detail = copy[e.id].detail
  <1>1. copy \in [Channels -> Copy] /\ e \in Entry /\ e.id \in Channels
        /\ slots[e.id] \in Slot
    BY HeadFacts DEF ApplySummary, Shape, ServerShape, ClientShape
  <1> DEFINE t == IF full THEN e.topics ELSE slots[e.id].topics
  <1>2. t \in Nat /\ e.trev \in Nat
    BY <1>1 DEF Entry, Slot
  <1>3. copy' = [copy EXCEPT ![e.id].trev = e.trev, ![e.id].topics = t]
    BY DEF ApplySummary
  <1> HIDE DEF t
  <1>4. copy' \in [Channels -> Copy]
    BY <1>1, <1>2, <1>3 DEF Copy
  <1>5. \A c \in Channels : c # e.id => copy'[c] = copy[c]
    BY <1>1, <1>3
  <1>6. copy'[e.id].trev = e.trev /\ copy'[e.id].topics = t
        /\ copy'[e.id].has = copy[e.id].has
        /\ copy'[e.id].drev = copy[e.id].drev /\ copy'[e.id].detail = copy[e.id].detail
    BY <1>1, <1>3 DEF Copy
  <1> QED
    BY <1>4, <1>5, <1>6 DEF t

LEMMA ShapeInit == Init => Shape /\ SyncInv
  <1> SUFFICES ASSUME Init PROVE Shape /\ SyncInv
    OBVIOUS
  <1>1. Shape
    BY EmptyResponse
       DEF Init, Shape, ServerShape, LinkShape, ClientShape, NoSlot, Slot, NoCopy, Copy, Idle, Work
  <1>2. Bounded
    BY EmptyResponse DEF Init, Bounded, SlotsBounded, HeldBounded, ToldBounded, WorkBounded, NoSlot, NoCopy, Idle
  <1>3. Faithful
    BY EmptyResponse DEF Init, Faithful, Agrees, NoSlot, NoCopy
  <1>4. Covered /\ Synchronized
    BY DEF Init, Covered, Synchronized, NoSlot
  <1> QED
    BY <1>1, <1>2, <1>3, <1>4 DEF SyncInv

\* The node's side of a step.
LEMMA ServerShapeStep ==
    ASSUME OneAtATime, NoGroupOps, Shape, SyncInv, [Next]_vars
    PROVE  ServerShape'
  <1> USE DEF Shape, ServerShape
  <1>1. ASSUME NEW h \in Handlers, Load(h)
        PROVE  ServerShape'
    <2>1. PICK ids \in SUBSET Channels :
            work' = [work EXCEPT ![h] = [at |-> "loaded", rev |-> chanRev, ids |-> ids]]
      BY <1>1 DEF Load
    <2>2. [at |-> "loaded", rev |-> chanRev, ids |-> ids] \in Work
      BY DEF Work
    <2> QED
      BY <1>1, <2>1, <2>2 DEF Load
  <1>2. ASSUME NEW h \in Handlers, NEW op \in Ops, Commit(h, op)
        PROVE  ServerShape'
    BY <1>2, CommitFacts DEF SyncInv
  <1>3. ASSUME NEW h \in Handlers, SetStatus(h)
        PROVE  ServerShape'
    BY <1>3 DEF SetStatus, Idle, Work
  <1>4. CASE Greet \/ Register \/ Deliver \/ Sync \/ FocusReturns \/ Faulty
    <2>1. UNCHANGED server
      BY <1>4 DEF Greet, Register, Deliver, SetRevision, Sync, ReadSlots, ReadRows, Forget,
                  ApplyDetail, ApplySummary, EntryDone, FocusReturns, Reached, AnsweredNull, EndLoop,
                  EndMarker, Faulty, Drop, RequestFails, Restart, server
    <2> QED
      BY <2>1 DEF server
  <1>5. CASE UNCHANGED vars
    BY <1>5 DEF vars, server
  <1> QED
    BY <1>1, <1>2, <1>3, <1>4, <1>5 DEF Next, Request, Finish

\* The websocket.
LEMMA LinkShapeStep ==
    ASSUME OneAtATime, NoGroupOps, Shape, SyncInv, [Next]_vars
    PROVE  inbox' \in Seq(Nat) /\ \A i \in DOMAIN inbox' : inbox'[i] <= chanRev'
  <1>1. chanRev \in Nat /\ inbox \in Seq(Nat) /\ work \in [Handlers -> Work]
    BY DEF Shape, ServerShape, LinkShape
  <1>2. inbox \in Seq(0 .. chanRev)
    BY <1>1, BoundedElements DEF SyncInv, Bounded, ToldBounded
  <1>3. chanRev' \in Nat /\ chanRev <= chanRev'
    <2>1. CASE \E h \in Handlers, op \in Ops : Commit(h, op)
      BY <1>1, <2>1, CommitFacts DEF SyncInv
    <2>2. CASE Request \/ (\E h \in Handlers : SetStatus(h)) \/ Greet \/ Register \/ Deliver
               \/ Sync \/ FocusReturns \/ Faulty \/ UNCHANGED vars
      <3>1. chanRev' = chanRev
        BY <2>2 DEF Request, Load, SetStatus, Greet, Register, Deliver, SetRevision, Sync,
                    ReadSlots, ReadRows, Forget, ApplyDetail, ApplySummary, EntryDone,
                    FocusReturns, Reached, AnsweredNull, EndLoop, EndMarker, Faulty, Drop, RequestFails, Restart,
                    server, vars
      <3> QED
        BY <1>1, <3>1
    <2> QED
      BY <2>1, <2>2 DEF Next, Finish
  <1>4. inbox' \in Seq(0 .. chanRev)
    <2>1. ASSUME NEW h \in Handlers, SetStatus(h)
          PROVE  inbox' \in Seq(0 .. chanRev)
      <3>1. work[h].rev \in 0 .. chanRev
        BY <1>1, <2>1 DEF SetStatus, SyncInv, Bounded, WorkBounded
      <3> QED
        BY <1>2, <2>1, <3>1, AppendProperties DEF SetStatus
    <2>2. CASE Greet
      BY <1>1, <1>2, <2>2, AppendProperties DEF Greet
    <2>3. CASE Drop
      <3>1. PICK k \in 0 .. Len(inbox) : inbox' = SubSeq(inbox, 1, k)
        BY <2>3 DEF Drop
      <3>2. Len(inbox) \in Nat /\ \A i \in 1 .. Len(inbox) : inbox[i] \in 0 .. chanRev
        BY <1>2, LenProperties, ElementOfSeq
      <3> QED
        BY <3>1, <3>2, SubSeqProperties
    <2>4. ASSUME NEW i \in 1 .. Len(inbox), SetRevision(i)
          PROVE  inbox' \in Seq(0 .. chanRev)
      BY <1>2, <2>4, RemoveAtFacts DEF SetRevision
    <2>5. CASE Restart
      BY <2>5, EmptyResponse DEF Restart
    <2>6. CASE Request \/ (\E h \in Handlers, op \in Ops : Commit(h, op)) \/ Register \/ Sync
               \/ FocusReturns \/ RequestFails \/ UNCHANGED vars
      <3>1. inbox' = inbox
        BY <2>6 DEF Request, Load, Commit, Register, Sync, ReadSlots, ReadRows, Forget,
                    ApplyDetail, ApplySummary, EntryDone, FocusReturns, Reached, AnsweredNull,
                    EndLoop, EndMarker, RequestFails, vars, link
      <3> QED
        BY <1>2, <3>1
    <2> QED
      BY <2>1, <2>2, <2>3, <2>4, <2>5, <2>6 DEF Next, Finish, Deliver, Faulty
  <1>5. inbox' \in Seq(Nat)
    <2>1. 0 .. chanRev \subseteq Nat
      BY <1>1
    <2> QED
      BY <1>4, <2>1, SeqMonotonic
  <1>6. inbox' \in Seq(0 .. chanRev')
    <2>1. 0 .. chanRev \subseteq 0 .. chanRev'
      BY <1>1, <1>3
    <2> QED
      BY <1>4, <2>1, SeqMonotonic
  <1> QED
    BY <1>3, <1>5, <1>6, BoundedElements

\* The client's side.
LEMMA ClientShapeStep ==
    ASSUME Shape, [Next]_vars
    PROVE  ClientShape'
  <1> USE DEF Shape, ServerShape, LinkShape, ClientShape
  <1>1. CASE Request \/ (\E h \in Handlers : Finish(h)) \/ Greet \/ Register \/ Drop
             \/ UNCHANGED vars
    <2>1. UNCHANGED client
      BY <1>1 DEF Request, Load, Finish, Commit, SetStatus, Greet, Register, Drop, vars
    <2> QED
      BY <2>1 DEF client
  <1>2. ASSUME NEW i \in 1 .. Len(inbox), SetRevision(i)
        PROVE  ClientShape'
    BY <1>2, ElementOfSeq DEF SetRevision
  <1>3. CASE ReadSlots
    BY <1>3 DEF ReadSlots, Listed
  <1>4. CASE ReadRows
    BY <1>4, ReadRowsFacts DEF ReadRows
  <1>5. CASE Forget
    <2>1. NoCopy \in Copy
      BY DEF NoCopy, Copy
    <2> QED
      BY <1>5, <2>1, HeadFacts DEF Forget
  <1>6. CASE ApplyDetail
    BY <1>6, ApplyDetailFacts DEF ApplyDetail
  <1>7. CASE ApplySummary
    BY <1>7, ApplySummaryFacts DEF ApplySummary
  <1>8. CASE EntryDone
    BY <1>8, HeadFacts DEF EntryDone
  <1>9. CASE FocusReturns \/ Reached \/ EndLoop \/ EndMarker
    <2>1. CASE Reached
      BY <2>1 DEF Reached
    <2>2. CASE EndLoop
      BY <2>2 DEF EndLoop
    <2>3. CASE EndMarker
      BY <2>3 DEF EndMarker
    <2>4. CASE FocusReturns
      BY <2>4 DEF FocusReturns
    <2> QED
      BY <1>9, <2>1, <2>2, <2>3, <2>4
  <1>10. CASE RequestFails \/ AnsweredNull \/ Restart
    <2>1. delta' \in Seq(Entry) /\ listed' = {} /\ goal' = 0 /\ full' = FALSE
      BY <1>10, EmptyResponse DEF RequestFails, AnsweredNull, Restart, GiveUp
    <2>2. revision' = revision /\ copy' = copy /\ next' \in {next, 0}
      BY <1>10 DEF RequestFails, AnsweredNull, Restart
    <2>3. next' \in Nat
      BY <2>2
    <2>4. goal' \in Nat /\ listed' \subseteq Channels
      BY <2>1
    <2>5. full' \in BOOLEAN
      BY <2>1
    <2> QED
      BY <2>1, <2>2, <2>3, <2>4, <2>5
  <1> QED
    BY <1>1, <1>2, <1>3, <1>4, <1>5, <1>6, <1>7, <1>8, <1>9, <1>10
       DEF Next, Deliver, Sync, Faulty

LEMMA ShapeStep ==
    ASSUME OneAtATime, NoGroupOps, Shape, SyncInv, [Next]_vars
    PROVE  Shape'
  BY ServerShapeStep, LinkShapeStep, ClientShapeStep DEF Shape, LinkShape

-------------------------------------------------------------------------------
(* The invariant.  Held is what it says of the client's copies, the response *)
(* and the revision reached; a step of the websocket does not touch them.    *)

Held == HeldBounded /\ Faithful /\ Covered /\ Synchronized

\* A change stamps what it writes with a revision nobody has reached or is
\* about to reach.
LEMMA CommitStep ==
    ASSUME OneAtATime, NoGroupOps, Shape, SyncInv,
           NEW h \in Handlers, NEW op \in Ops, Commit(h, op)
    PROVE  SlotsBounded' /\ Held'
  <1> DEFINE n == chanRev + 1
  <1>1. chanRev' = n /\ n \in Nat /\ slots' \in [Channels -> Slot]
    BY CommitFacts DEF Shape, ServerShape, SyncInv
  <1>2. \A c \in Channels : slots'[c] = slots[c] \/ Stamped(slots[c], slots'[c], n)
    BY CommitFacts DEF SyncInv
  <1>3. UNCHANGED client
    BY DEF Commit
  <1>4. SlotsBounded'
    <2> SUFFICES ASSUME NEW c \in Channels
                 PROVE  /\ slots'[c].rev <= n
                        /\ slots'[c].drev <= slots'[c].rev /\ slots'[c].trev <= slots'[c].rev
                        /\ slots'[c].live => slots'[c].drev # 0 /\ slots'[c].trev # 0
      BY <1>1 DEF SlotsBounded
    <2>1. CASE slots'[c] = slots[c]
      BY <1>1, <2>1 DEF SyncInv, Bounded, SlotsBounded, Shape, ServerShape, Slot
    <2>2. CASE Stamped(slots[c], slots'[c], n)
      BY <1>1, <2>2 DEF Stamped
    <2> QED
      BY <1>2, <2>1, <2>2
  <1>5. HeldBounded'
    <2>1. \A c \in Channels : copy[c].drev \in Nat /\ copy[c].trev \in Nat
      BY DEF Shape, ClientShape, Copy
    <2>2. \A i \in DOMAIN delta : delta[i].drev \in Nat /\ delta[i].trev \in Nat
      <3>1. \A i \in DOMAIN delta : delta[i] \in Entry
        BY ElementOfSeq, LenProperties DEF Shape, ClientShape
      <3> QED
        BY <3>1 DEF Entry
    <2> QED
      BY <1>1, <1>3, <2>1, <2>2
         DEF SyncInv, Bounded, HeldBounded, client, Shape, ServerShape
  <1>6. Faithful'
    <2>1. ASSUME NEW r, r.drev \in Nat, r.trev \in Nat, r.drev < n, r.trev < n,
                 NEW c \in Channels, Agrees(r, slots[c])
          PROVE  Agrees(r, slots'[c])
      BY <1>1, <1>2, <2>1, AgreesStamped
    <2>2. \A c \in Channels : Agrees(copy[c], slots'[c])
      <3>1. ASSUME NEW c \in Channels
            PROVE  /\ copy[c].drev \in Nat /\ copy[c].trev \in Nat
                   /\ copy[c].drev < n /\ copy[c].trev < n
        BY DEF Shape, ServerShape, ClientShape, Copy, SyncInv, Bounded, HeldBounded
      <3> QED
        BY <2>1, <3>1 DEF SyncInv, Faithful
    <2>3. ASSUME NEW i \in DOMAIN delta, delta[i].live
          PROVE  Agrees(delta[i], slots'[delta[i].id])
      <3>1. delta[i] \in Entry
        BY ElementOfSeq, LenProperties DEF Shape, ClientShape
      <3>2. /\ delta[i].drev \in Nat /\ delta[i].trev \in Nat /\ delta[i].id \in Channels
            /\ delta[i].drev < n /\ delta[i].trev < n
        BY <3>1 DEF Entry, Shape, ServerShape, SyncInv, Bounded, HeldBounded
      <3> QED
        BY <2>1, <2>3, <3>2 DEF SyncInv, Faithful
    <2> QED
      BY <1>3, <2>2, <2>3 DEF client, SyncInv, Faithful
  <1>7. \A c \in Channels : slots'[c].rev <= chanRev => slots'[c] = slots[c]
    BY <1>1, <1>2 DEF Stamped, Shape, ServerShape
  <1>8. \A c \in Channels : slots'[c] = slots[c] \/ slots'[c].rev = n
    BY <1>2 DEF Stamped
  <1>9. \A c \in Channels : slots'[c] = slots[c] => (Current(c) => Current(c)')
                                                    /\ EntryOf(c)' = EntryOf(c)
    BY <1>3 DEF Current, EntryOf, client
  <1>10. revision < n /\ goal < n /\ revision \in Nat /\ goal \in Nat
    BY DEF Shape, ServerShape, ClientShape, SyncInv, Bounded, ToldBounded
  <1>11. Synchronized'
    <2> SUFFICES ASSUME NEW c \in Channels, slots'[c].live, slots'[c].rev <= revision
                 PROVE  Current(c)'
      BY <1>3 DEF Synchronized, client
    <2>1. slots'[c] = slots[c]
      BY <1>1, <1>8, <1>10
    <2> QED
      BY <1>9, <2>1 DEF SyncInv, Synchronized
  <1>12. Covered'
    <2>1. ASSUME pc = "reading", NEW c \in Channels, slots'[c].live, slots'[c].rev <= goal
          PROVE  Current(c)' \/ c \in listed
      <3>1. slots'[c] = slots[c]
        BY <1>1, <1>8, <1>10, <2>1
      <3> QED
        BY <1>9, <2>1, <3>1 DEF SyncInv, Covered
    <2>2. ASSUME pc = "reading", NEW c \in listed
          PROVE  slots'[c].rev > revision
      <3>1. c \in Channels
        BY <2>2 DEF Shape, ClientShape
      <3> QED
        BY <1>1, <1>8, <1>10, <2>2, <3>1 DEF SyncInv, Covered
    <2>3. ASSUME pc \in {"apply", "focus"}, NEW c \in Channels, slots'[c].live, slots'[c].rev <= goal
          PROVE  Current(c)' \/ \E i \in DOMAIN delta : delta[i].id = c
      <3>1. slots'[c] = slots[c]
        BY <1>1, <1>8, <1>10, <2>3
      <3> QED
        BY <1>9, <2>3, <3>1 DEF SyncInv, Covered
    <2>4. ASSUME pc \in {"apply", "focus"}, NEW i \in DOMAIN delta
          PROVE  /\ slots'[delta[i].id].rev > revision
                 /\ slots'[delta[i].id].rev <= goal => delta[i] = EntryOf(delta[i].id)'
      <3>1. delta[i] \in Entry
        BY ElementOfSeq, LenProperties DEF Shape, ClientShape
      <3>2. PICK c \in Channels : c = delta[i].id
        BY <3>1 DEF Entry
      <3>3. slots[c].rev > revision /\ (slots[c].rev <= goal => delta[i] = EntryOf(c))
        BY <2>4, <3>2 DEF SyncInv, Covered
      <3>4. slots'[c].rev > revision /\ (slots'[c].rev <= goal => delta[i] = EntryOf(c)')
        BY <1>1, <1>8, <1>9, <1>10, <3>3
      <3> QED
        BY <3>2, <3>4, <1>3 DEF client, EntryOf
    <2> QED
      BY <1>3, <2>1, <2>2, <2>3, <2>4 DEF Covered, client
  <1> QED
    BY <1>4, <1>5, <1>6, <1>11, <1>12 DEF Held

\* A step that leaves the rows and the copies alone keeps what is said of them.
LEMMA QuietHeld ==
    ASSUME SyncInv, UNCHANGED <<chanRev, slots, revision, copy, goal, listed, delta>>,
           \/ pc' = pc \/ pc' \notin {"reading", "apply", "focus"}
           \/ {pc, pc'} \subseteq {"apply", "focus"}
    PROVE  SlotsBounded' /\ Held'
  <1> USE DEF SyncInv, Bounded
  <1>1. SlotsBounded' /\ HeldBounded'
    BY DEF SlotsBounded, HeldBounded
  <1>2. Faithful' /\ Synchronized'
    BY DEF Faithful, Synchronized, Agrees, Current
  <1>3. Covered'
    BY DEF Covered, Current, EntryOf
  <1> QED
    BY <1>1, <1>2, <1>3 DEF Held

LEMMA GiveUpHeld ==
    ASSUME SyncInv, UNCHANGED <<chanRev, slots, revision, copy>>, GiveUp
    PROVE  SlotsBounded' /\ Held'
  <1> USE EmptyResponse DEF SyncInv, Bounded, GiveUp
  <1>1. SlotsBounded' /\ HeldBounded'
    BY DEF SlotsBounded, HeldBounded
  <1>2. Faithful' /\ Synchronized'
    BY DEF Faithful, Synchronized, Agrees, Current
  <1>3. Covered'
    BY DEF Covered
  <1> QED
    BY <1>1, <1>2, <1>3 DEF Held

\* The list covers what Synchronized does not.
LEMMA ReadSlotsHeld ==
    ASSUME Shape, SyncInv, ReadSlots
    PROVE  SlotsBounded' /\ Held'
  <1> USE DEF SyncInv, Bounded, ReadSlots, server, link
  <1>1. SlotsBounded' /\ HeldBounded'
    BY DEF SlotsBounded, HeldBounded
  <1>2. Faithful' /\ Synchronized'
    BY DEF Faithful, Synchronized, Agrees, Current
  <1>3. \A c \in Channels : slots[c].rev \in Nat /\ revision \in Nat
    BY DEF Shape, ServerShape, ClientShape, Slot
  <1>4. \A c \in Channels : slots[c].live => Current(c) \/ c \in Listed(revision)
    BY <1>3 DEF Synchronized, Listed
  <1>5. Covered'
    BY <1>4 DEF Covered, Current, Listed
  <1> QED
    BY <1>1, <1>2, <1>5 DEF Held

\* The entries are as the node has the channels when the second query ends.
LEMMA ReadRowsHeld ==
    ASSUME Shape, SyncInv, ReadRows
    PROVE  SlotsBounded' /\ Held'
  <1> USE DEF SyncInv, Bounded, server, link
  <1>1. /\ UNCHANGED <<chanRev, slots, revision, copy, goal>>
        /\ pc = "reading" /\ pc' = "apply"
    BY DEF ReadRows
  <1>2. \A i \in DOMAIN delta' :
            delta'[i].id \in listed /\ delta'[i] = EntryOf(delta'[i].id)
    BY ReadRowsFacts
  <1>3. listed \subseteq Channels /\ slots \in [Channels -> Slot] /\ chanRev \in Nat
    BY DEF Shape, ServerShape, ClientShape
  <1>4. \A i \in DOMAIN delta' : LET c == delta'[i].id IN
            /\ c \in Channels
            /\ delta'[i].live = slots[c].live
            /\ delta'[i].drev = slots[c].drev /\ delta'[i].detail = slots[c].detail
            /\ delta'[i].trev = slots[c].trev /\ delta'[i].topics = slots[c].topics
    BY <1>2, <1>3 DEF EntryOf
  <1>5. SlotsBounded'
    BY <1>1 DEF SlotsBounded
  <1>6. \A c \in Channels : slots[c].drev <= chanRev /\ slots[c].trev <= chanRev
    BY <1>3 DEF SlotsBounded, Slot
  <1>7. HeldBounded'
    BY <1>1, <1>4, <1>6 DEF HeldBounded
  <1>8. Faithful'
    BY <1>1, <1>4 DEF Faithful, Agrees
  <1>9. Synchronized'
    BY <1>1 DEF Synchronized, Current
  <1>10. \A c \in Channels : slots[c].live /\ slots[c].rev <= goal =>
            Current(c) \/ \E i \in DOMAIN delta' : delta'[i].id = c
    BY <1>1, ReadRowsFacts DEF Covered
  <1>11. \A c \in listed : slots[c].rev > revision
    BY <1>1 DEF Covered
  <1>12. Covered'
    <2>1. \A c : Current(c)' = Current(c) /\ EntryOf(c)' = EntryOf(c)
      BY <1>1 DEF Current, EntryOf
    <2> QED
      BY <1>1, <1>2, <1>10, <1>11, <2>1 DEF Covered
  <1> QED
    BY <1>5, <1>7, <1>8, <1>9, <1>12 DEF Held

\* The channel of the first entry, and what is known of both.
LEMMA EntryFacts ==
    ASSUME Shape, SyncInv, pc = "apply", delta # <<>>, NEW e, e = Head(delta)
    PROVE  /\ e.id \in Channels
           /\ slots[e.id] \in Slot /\ copy[e.id] \in Copy /\ e \in Entry
           /\ slots[e.id].rev > revision
           /\ slots[e.id].rev <= goal => e = EntryOf(e.id)
           /\ e.live => Agrees(e, slots[e.id])
           /\ e.drev <= chanRev /\ e.trev <= chanRev
           /\ revision \in Nat /\ goal \in Nat
  <1>1. 1 \in DOMAIN delta /\ e = delta[1] /\ e \in Entry /\ e.id \in Channels
    BY HeadFacts
  <1> QED
    BY <1>1 DEF SyncInv, Covered, Faithful, Bounded, HeldBounded, Shape, ServerShape, ClientShape

\* When an entry is dropped, every other channel it covered is still covered.
LEMMA TailCovers ==
    ASSUME Shape, SyncInv, pc = "apply", delta # <<>>
    PROVE  /\ \A i \in DOMAIN Tail(delta) :
                /\ Tail(delta)[i].drev <= chanRev /\ Tail(delta)[i].trev <= chanRev
                /\ LET c == Tail(delta)[i].id IN
                    /\ slots[c].rev > revision
                    /\ slots[c].rev <= goal => Tail(delta)[i] = EntryOf(c)
                    /\ Tail(delta)[i].live => Agrees(Tail(delta)[i], slots[c])
           /\ \A c \in Channels : slots[c].live /\ slots[c].rev <= goal /\ c # Head(delta).id =>
                Current(c) \/ \E i \in DOMAIN Tail(delta) : Tail(delta)[i].id = c
  <1>1. /\ Head(delta) = delta[1]
        /\ \A i \in DOMAIN Tail(delta) : i + 1 \in DOMAIN delta /\ Tail(delta)[i] = delta[i + 1]
        /\ \A i \in DOMAIN delta : i # 1 => i - 1 \in DOMAIN Tail(delta)
                                            /\ Tail(delta)[i - 1] = delta[i]
    BY TailFacts DEF Shape, ClientShape
  <1>2. ASSUME NEW i \in DOMAIN Tail(delta)
        PROVE  \E j \in DOMAIN delta : Tail(delta)[i] = delta[j]
    BY <1>1
  <1>3. ASSUME NEW c \in Channels, slots[c].live, slots[c].rev <= goal, c # Head(delta).id,
               ~Current(c)
        PROVE  \E i \in DOMAIN Tail(delta) : Tail(delta)[i].id = c
    <2>1. PICK i \in DOMAIN delta : delta[i].id = c
      BY <1>3 DEF SyncInv, Covered
    <2>2. i # 1
      BY <1>1, <1>3, <2>1
    <2> QED
      BY <1>1, <2>1, <2>2
  <1> QED
    BY <1>2, <1>3 DEF SyncInv, Covered, Faithful, Bounded, HeldBounded

\* An entry without data is about a channel that is not live up to goal.
LEMMA ForgetHeld ==
    ASSUME Shape, SyncInv, Forget
    PROVE  SlotsBounded' /\ Held'
  <1> DEFINE d == Head(delta).id
  <1> USE DEF SyncInv, Bounded, server, link
  <1>1. /\ UNCHANGED <<chanRev, slots, revision, goal, pc>>
        /\ pc = "apply" /\ delta # <<>> /\ ~Head(delta).live /\ delta' = Tail(delta)
    BY DEF Forget
  <1>2. /\ d \in Channels /\ slots[d] \in Slot /\ slots[d].rev > revision
        /\ slots[d].rev <= goal => Head(delta) = EntryOf(d)
        /\ revision \in Nat /\ chanRev \in Nat
    BY <1>1, EntryFacts DEF Shape, ServerShape
  <1>3. copy' = [copy EXCEPT ![d] = NoCopy] /\ copy \in [Channels -> Copy]
    BY DEF Forget, Shape, ClientShape
  <1>4. ~(slots[d].live /\ slots[d].rev <= goal)
    BY <1>1, <1>2 DEF EntryOf
  <1>5. /\ \A c \in Channels : c # d => copy'[c] = copy[c]
        /\ copy'[d] = NoCopy
    BY <1>2, <1>3
  <1> HIDE DEF d
  <1>6. \A c \in Channels : c # d => (Current(c) <=> Current(c)')
    BY <1>1, <1>5 DEF Current
  <1>7. \A c : EntryOf(c)' = EntryOf(c)
    BY <1>1 DEF EntryOf
  <1>8. SlotsBounded'
    BY <1>1 DEF SlotsBounded
  <1>9. HeldBounded'
    <2>1. \A c \in Channels : copy'[c].drev <= chanRev /\ copy'[c].trev <= chanRev
      BY <1>2, <1>5 DEF HeldBounded, NoCopy
    <2>2. \A i \in DOMAIN delta' : delta'[i].drev <= chanRev /\ delta'[i].trev <= chanRev
      BY <1>1, TailCovers
    <2> QED
      BY <1>1, <2>1, <2>2 DEF HeldBounded
  <1>10. Faithful'
    <2>1. \A c \in Channels : (copy'[c].drev # 0 => copy'[c].has) /\ Agrees(copy'[c], slots[c])
      <3>1. (copy'[d].drev # 0 => copy'[d].has) /\ Agrees(copy'[d], slots[d])
        BY <1>2, <1>5 DEF NoCopy, Agrees, SlotsBounded
      <3> QED
        BY <1>5, <3>1 DEF Faithful
    <2> QED
      BY <1>1, <2>1, TailCovers DEF Faithful
  <1>11. Synchronized'
    <2>1. ~(slots[d].rev <= revision)
      BY <1>2 DEF Slot
    <2> QED
      BY <1>1, <1>6, <2>1 DEF Synchronized
  <1>12. Covered'
    BY <1>1, <1>4, <1>6, <1>7, TailCovers DEF Covered, d
  <1> QED
    BY <1>8, <1>9, <1>10, <1>11, <1>12 DEF Held

\* What the client writes under the revisions of an entry is the content the
\* node has under them, or is replaced before the channel counts as reached.
LEMMA WriteHeld ==
    ASSUME Shape, SyncInv, pc = "apply", delta # <<>>, NEW d, d = Head(delta).id,
           UNCHANGED <<chanRev, slots, revision, goal, pc, delta>>,
           \A c \in Channels : c # d => copy'[c] = copy[c],
           copy'[d].drev <= chanRev, copy'[d].trev <= chanRev,
           copy'[d].drev # 0 => copy'[d].has,
           Agrees(copy'[d], slots[d])
    PROVE  SlotsBounded' /\ Held'
  <1> USE DEF SyncInv, Bounded
  <1>1. \A c \in Channels : c # d => (Current(c) <=> Current(c)')
    BY DEF Current
  <1>2. \A c : EntryOf(c)' = EntryOf(c)
    BY DEF EntryOf
  <1>3. SlotsBounded' /\ HeldBounded'
    BY DEF SlotsBounded, HeldBounded
  <1>4. Faithful'
    <2>1. \A c \in Channels : (copy'[c].drev # 0 => copy'[c].has) /\ Agrees(copy'[c], slots[c])
      BY DEF Faithful
    <2> QED
      BY <2>1 DEF Faithful
  <1>5. d \in Channels /\ ~(slots[d].rev <= revision)
    BY EntryFacts DEF Slot
  <1>6. Synchronized'
    BY <1>1, <1>5 DEF Synchronized
  <1>7. \E i \in DOMAIN delta : delta[i].id = d
    BY HeadFacts
  <1>8. Covered'
    BY <1>1, <1>2, <1>7 DEF Covered
  <1> QED
    BY <1>3, <1>4, <1>6, <1>8 DEF Held

LEMMA ApplyDetailHeld ==
    ASSUME Shape, SyncInv, ApplyDetail
    PROVE  SlotsBounded' /\ Held'
  <1>1. PICK e : e = Head(delta)
    OBVIOUS
  <1>2. /\ pc = "apply" /\ delta # <<>> /\ e.live
        /\ UNCHANGED <<chanRev, slots, revision, goal, pc, delta>>
    BY <1>1 DEF ApplyDetail, NeedsDetail, server
  <1>3. /\ copy'[e.id].has /\ copy'[e.id].drev = e.drev /\ copy'[e.id].trev = copy[e.id].trev
        /\ copy'[e.id].topics = copy[e.id].topics
        /\ copy'[e.id].detail = IF full THEN e.detail ELSE slots[e.id].detail
        /\ \A c \in Channels : c # e.id => copy'[c] = copy[c]
    BY <1>1, ApplyDetailFacts
  <1>4. e.id \in Channels /\ Agrees(e, slots[e.id]) /\ e.drev <= chanRev
    BY <1>1, <1>2, EntryFacts
  <1>5. Agrees(copy'[e.id], slots[e.id]) /\ copy[e.id].trev <= chanRev
    BY <1>3, <1>4 DEF Agrees, SyncInv, Faithful, Bounded, HeldBounded
  <1> QED
    BY <1>1, <1>2, <1>3, <1>4, <1>5, WriteHeld

LEMMA ApplySummaryHeld ==
    ASSUME Shape, SyncInv, ApplySummary
    PROVE  SlotsBounded' /\ Held'
  <1>1. PICK e : e = Head(delta)
    OBVIOUS
  <1>2. /\ pc = "apply" /\ delta # <<>> /\ e.live
        /\ UNCHANGED <<chanRev, slots, revision, goal, pc, delta>>
    BY <1>1 DEF ApplySummary, NeedsSummary, server
  <1>3. /\ copy'[e.id].trev = e.trev /\ copy'[e.id].has = copy[e.id].has
        /\ copy'[e.id].drev = copy[e.id].drev /\ copy'[e.id].detail = copy[e.id].detail
        /\ copy'[e.id].topics = IF full THEN e.topics ELSE slots[e.id].topics
        /\ \A c \in Channels : c # e.id => copy'[c] = copy[c]
    BY <1>1, ApplySummaryFacts
  <1>4. e.id \in Channels /\ Agrees(e, slots[e.id]) /\ e.trev <= chanRev
    BY <1>1, <1>2, EntryFacts
  <1>5. /\ Agrees(copy'[e.id], slots[e.id]) /\ copy[e.id].drev <= chanRev
        /\ copy[e.id].drev # 0 => copy[e.id].has
    BY <1>3, <1>4 DEF Agrees, SyncInv, Faithful, Bounded, HeldBounded
  <1> QED
    BY <1>1, <1>2, <1>3, <1>4, <1>5, WriteHeld

\* A channel whose entry is done is as the node has it, up to goal.
LEMMA EntryDoneHeld ==
    ASSUME Shape, SyncInv, EntryDone
    PROVE  SlotsBounded' /\ Held'
  <1> DEFINE d == Head(delta).id
  <1> USE DEF SyncInv, Bounded, server, link
  <1>1. /\ UNCHANGED <<chanRev, slots, revision, goal, copy>>
        /\ pc = "apply" /\ delta # <<>> /\ delta' = Tail(delta)
        /\ pc' \in {"apply", "focus"}
        /\ copy[d].drev = Head(delta).drev /\ copy[d].trev = Head(delta).trev
    BY DEF EntryDone, NeedsDetail, NeedsSummary
  <1>2. d \in Channels /\ (slots[d].rev <= goal => Head(delta) = EntryOf(d))
    BY <1>1, EntryFacts
  <1>3. slots[d].live /\ slots[d].rev <= goal => Current(d)
    <2> SUFFICES ASSUME slots[d].live, slots[d].rev <= goal
                 PROVE  Current(d)
      OBVIOUS
    <2>1. copy[d].drev = slots[d].drev /\ copy[d].trev = slots[d].trev
      BY <1>1, <1>2 DEF EntryOf
    <2>2. copy[d].detail = slots[d].detail /\ copy[d].topics = slots[d].topics
      BY <1>2, <2>1 DEF Faithful, Agrees
    <2>3. copy[d].has
      BY <1>2, <2>1 DEF Faithful, SlotsBounded
    <2> QED
      BY <2>1, <2>2, <2>3 DEF Current
  <1>4. \A c : (Current(c) <=> Current(c)') /\ EntryOf(c)' = EntryOf(c)
    BY <1>1 DEF Current, EntryOf
  <1>5. SlotsBounded' /\ Synchronized'
    BY <1>1, <1>4 DEF SlotsBounded, Synchronized
  <1>6. HeldBounded'
    <2>1. \A i \in DOMAIN delta' : delta'[i].drev <= chanRev /\ delta'[i].trev <= chanRev
      BY <1>1, TailCovers
    <2> QED
      BY <1>1, <2>1 DEF HeldBounded
  <1>7. Faithful'
    BY <1>1, TailCovers DEF Faithful
  <1>8. Covered'
    BY <1>1, <1>3, <1>4, TailCovers DEF Covered
  <1> QED
    BY <1>5, <1>6, <1>7, <1>8 DEF Held

\* With nothing left to come, everything up to goal is as the node has it.
LEMMA ReachedHeld ==
    ASSUME Shape, SyncInv, Reached
    PROVE  SlotsBounded' /\ Held'
  <1> USE DEF SyncInv, Bounded, server, link
  <1>1. /\ UNCHANGED <<chanRev, slots, copy, delta>>
        /\ pc = "apply" /\ pc' = "loop" /\ delta = <<>> /\ revision' = goal
    BY DEF Reached
  <1>2. \A c \in Channels : slots[c].live /\ slots[c].rev <= goal => Current(c)
    BY <1>1, EmptyResponse DEF Covered
  <1>3. \A c : Current(c) <=> Current(c)'
    BY <1>1 DEF Current
  <1>4. Synchronized' /\ Covered'
    BY <1>1, <1>2, <1>3 DEF Synchronized, Covered
  <1>5. SlotsBounded' /\ HeldBounded' /\ Faithful'
    BY <1>1 DEF SlotsBounded, HeldBounded, Faithful
  <1> QED
    BY <1>4, <1>5 DEF Held

-------------------------------------------------------------------------------
LEMMA HeldStep ==
    ASSUME OneAtATime, NoGroupOps, Shape, SyncInv, [Next]_vars
    PROVE  SlotsBounded' /\ Held'
  <1>1. CASE \E h \in Handlers, op \in Ops : Commit(h, op)
    BY <1>1, CommitStep
  <1>2. CASE ReadSlots \/ ReadRows \/ Forget \/ ApplyDetail \/ ApplySummary \/ EntryDone \/ Reached
    BY <1>2, ReadSlotsHeld, ReadRowsHeld, ForgetHeld, ApplyDetailHeld, ApplySummaryHeld,
       EntryDoneHeld, ReachedHeld
  <1>3. CASE RequestFails \/ AnsweredNull \/ Restart
    BY <1>3, GiveUpHeld DEF RequestFails, AnsweredNull, Restart, server
  <1>4. CASE Request \/ (\E h \in Handlers : SetStatus(h)) \/ Greet \/ Register \/ Drop \/ UNCHANGED vars
    BY <1>4, QuietHeld DEF Request, Load, SetStatus, Greet, Register, Drop, vars, server, client
  <1>5. CASE Deliver
    BY <1>5, QuietHeld DEF Deliver, SetRevision, server
  <1>6. CASE EndLoop \/ EndMarker \/ FocusReturns
    BY <1>6, QuietHeld DEF EndLoop, EndMarker, FocusReturns, server
  <1> QED
    BY <1>1, <1>2, <1>3, <1>4, <1>5, <1>6 DEF Next, Finish, Sync, Faulty

\* Nothing is told, asked for or loaded that is ahead of the counter.
LEMMA ToldStep ==
    ASSUME OneAtATime, NoGroupOps, Shape, SyncInv, [Next]_vars
    PROVE  ToldBounded' /\ WorkBounded'
  <1> USE DEF SyncInv, Bounded, ToldBounded, WorkBounded
  <1>1. \A i \in DOMAIN inbox' : inbox'[i] <= chanRev'
    BY LinkShapeStep
  <1>2. chanRev \in Nat /\ revision \in Nat /\ next \in Nat /\ goal \in Nat
        /\ work \in [Handlers -> Work]
    BY DEF Shape, ServerShape, ClientShape
  <1>3. CASE \E h \in Handlers, op \in Ops : Commit(h, op)
    <2>1. chanRev' = chanRev + 1 /\ \A k \in Handlers : work'[k].at # "idle" => work'[k].rev = chanRev'
      BY <1>3, CommitFacts
    <2>2. UNCHANGED <<revision, next, goal>>
      BY <1>3 DEF Commit, client
    <2> QED
      BY <1>1, <1>2, <2>1, <2>2
  <1>4. ASSUME NEW h \in Handlers, Load(h) \/ SetStatus(h)
        PROVE  ToldBounded' /\ WorkBounded'
    <2>1. chanRev' = chanRev /\ UNCHANGED <<revision, next, goal>>
      BY <1>4 DEF Load, SetStatus, client
    <2>2. WorkBounded'
      BY <1>2, <1>4 DEF Load, SetStatus, Idle
    <2> QED
      BY <1>1, <2>1, <2>2
  <1>5. ASSUME NEW i \in 1 .. Len(inbox), SetRevision(i)
        PROVE  ToldBounded' /\ WorkBounded'
    <2>1. inbox[i] <= chanRev
      BY LenProperties DEF Shape, LinkShape
    <2> QED
      BY <1>1, <1>5, <2>1 DEF SetRevision, server
  <1>6. CASE Greet \/ Register \/ Sync \/ FocusReturns \/ Faulty \/ UNCHANGED vars
    <2>1. UNCHANGED <<chanRev, work>>
      BY <1>6 DEF Greet, Register, Sync, ReadSlots, ReadRows, Forget, ApplyDetail, ApplySummary,
                  EntryDone, FocusReturns, Reached, AnsweredNull, EndLoop, EndMarker, Faulty,
                  Drop, RequestFails, Restart, server, vars
    <2>2. revision' \in {revision, goal} /\ next' \in {next, 0} /\ goal' \in {goal, next, 0}
      BY <1>6 DEF Greet, Register, Sync, ReadSlots, ReadRows, Forget, ApplyDetail, ApplySummary,
                  EntryDone, FocusReturns, Reached, AnsweredNull, EndLoop, EndMarker, Faulty,
                  Drop, GiveUp, RequestFails, Restart, client, vars
    <2> QED
      BY <1>1, <1>2, <2>1, <2>2
  <1> QED
    BY <1>3, <1>4, <1>5, <1>6 DEF Next, Request, Finish, Deliver

(***************************************************************************)
(* While a node serves one request of an account at a time, and no request *)
(* sets a channel's group, a client that has reached a revision holds      *)
(* every live channel up to it as the node does, whatever it is told late, *)
(* twice or never, and wherever requests fail or the app restarts.         *)
(***************************************************************************)
THEOREM StaysSynchronized ==
    ASSUME OneAtATime, NoGroupOps
    PROVE  Spec => []Synchronized
  <1>1. Shape /\ SyncInv /\ [Next]_vars => Shape' /\ SyncInv'
    BY ShapeStep, HeldStep, ToldStep DEF SyncInv, Bounded, Held
  <1>2. SyncInv => Synchronized
    BY DEF SyncInv
  <1> QED
    BY ShapeInit, <1>1, <1>2, PTL DEF Spec

(***************************************************************************)
(* What the synchronisation rests on, at every step of its loop: nobody is *)
(* ahead of the counter, copies and entries agree with the slots wherever  *)
(* they have their revisions, and a channel up to the revision that was    *)
(* asked for is as the node has it or still to come in the response.       *)
(***************************************************************************)
THEOREM SyncCorrect ==
    ASSUME OneAtATime, NoGroupOps
    PROVE  Spec => []SyncInv
  <1>1. Shape /\ SyncInv /\ [Next]_vars => Shape' /\ SyncInv'
    BY ShapeStep, HeldStep, ToldStep DEF SyncInv, Bounded, Held
  <1> QED
    BY ShapeInit, <1>1, PTL DEF Spec

-------------------------------------------------------------------------------
(* Removed channels.  A first list is taken in whole or not at all, so what  *)
(* is held was fetched under a revision, and a removal after it is listed.   *)

\* A channel that was there and is not any more, up to revision r.
Removed(c, r) == slots[c].rev # 0 /\ slots[c].rev <= r /\ ~slots[c].live

FirstList ==
    /\ pc \in {"reading", "apply", "focus"} =>
        /\ goal # 0
        /\ full => revision = 0
        /\ revision = 0 => full
    /\ revision = 0 /\ pc \notin {"apply", "focus"} => \A c \in Channels : ~copy[c].has

Removals ==
    /\ \A c \in Channels : Removed(c, revision) => ~copy[c].has
    /\ pc = "reading" => \A c \in Channels : Removed(c, goal) =>
            ~copy[c].has \/ (c \in listed /\ ~full)
    /\ pc \in {"apply", "focus"} => \A c \in Channels : Removed(c, goal) =>
            ~copy[c].has \/ \E i \in DOMAIN delta : delta[i].id = c

RemovedInv == FirstList /\ Removals

\* Whatever leaves the loop's own variables alone.
LEMMA QuietRemoved ==
    ASSUME RemovedInv, UNCHANGED <<slots, revision, copy, goal, full, listed, delta>>,
           \/ pc' = pc \/ {pc, pc'} \subseteq {"idle", "loop", "marker"}
           \/ {pc, pc'} \subseteq {"apply", "focus"}
    PROVE  RemovedInv'
  BY DEF RemovedInv, FirstList, Removals, Removed

LEMMA CommitRemoved ==
    ASSUME OneAtATime, NoGroupOps, Shape, SyncInv, RemovedInv,
           NEW h \in Handlers, NEW op \in Ops, Commit(h, op)
    PROVE  RemovedInv'
  <1>1. UNCHANGED <<pc, revision, copy, goal, full, listed, delta>>
    BY DEF Commit, client
  <1>2. \A c \in Channels : slots'[c] = slots[c] \/ Stamped(slots[c], slots'[c], chanRev + 1)
    BY CommitFacts DEF SyncInv
  <1>3. revision <= chanRev /\ goal <= chanRev /\ {revision, goal, chanRev} \subseteq Nat
    BY DEF SyncInv, Bounded, ToldBounded, Shape, ServerShape, ClientShape
  <1>4. \A c \in Channels : /\ Removed(c, revision)' => Removed(c, revision)
                            /\ Removed(c, goal)' => Removed(c, goal)
    BY <1>1, <1>2, <1>3 DEF Removed, Stamped
  <1>5. FirstList'
    BY <1>1 DEF RemovedInv, FirstList
  <1>6. Removals'
    BY <1>1, <1>4 DEF RemovedInv, Removals
  <1> QED
    BY <1>5, <1>6 DEF RemovedInv

LEMMA ReadSlotsRemoved ==
    ASSUME Shape, RemovedInv, ReadSlots
    PROVE  RemovedInv'
  <1>1. /\ pc = "loop" /\ pc' = "reading" /\ next # 0 /\ goal' = next
        /\ UNCHANGED <<slots, revision, copy>>
        /\ listed' = Listed(revision)
    BY DEF ReadSlots, server
  <1>2. (full' => revision = 0) /\ (revision = 0 => full')
    BY DEF ReadSlots
  <1>3. revision \in Nat /\ \A c \in Channels : slots[c].rev \in Nat
    BY DEF Shape, ServerShape, ClientShape, Slot
  <1>4. FirstList'
    BY <1>1, <1>2 DEF RemovedInv, FirstList
  <1>5. \A c \in Channels : Removed(c, goal)' => ~copy[c].has \/ (c \in listed' /\ ~full')
    <2> TAKE c \in Channels
    <2> HAVE Removed(c, goal)'
    <2>1. CASE revision = 0
      BY <1>1, <2>1 DEF RemovedInv, FirstList
    <2>2. CASE revision # 0 /\ slots[c].rev <= revision
      BY <1>1, <2>2 DEF RemovedInv, Removals, Removed
    <2>3. CASE revision # 0 /\ slots[c].rev > revision
      BY <1>1, <1>2, <2>3 DEF Listed
    <2> QED
      BY <1>3, <2>1, <2>2, <2>3
  <1>6. Removals'
    BY <1>1, <1>5 DEF RemovedInv, Removals, Removed
  <1> QED
    BY <1>4, <1>6 DEF RemovedInv

LEMMA ReadRowsRemoved ==
    ASSUME Shape, RemovedInv, ReadRows
    PROVE  RemovedInv'
  <1>1. /\ pc = "reading" /\ pc' = "apply"
        /\ UNCHANGED <<slots, revision, copy, goal, full>>
    BY DEF ReadRows, server
  <1>2. \A c \in listed : ~full => \E i \in DOMAIN delta' : delta'[i].id = c
    BY ReadRowsFacts
  <1>3. FirstList'
    BY <1>1 DEF RemovedInv, FirstList
  <1>4. Removals'
    BY <1>1, <1>2 DEF RemovedInv, Removals, Removed
  <1> QED
    BY <1>3, <1>4 DEF RemovedInv

\* An entry that is done or forgotten leaves no removed channel behind.
LEMMA TailRemoved ==
    ASSUME Shape, SyncInv, RemovedInv, pc = "apply", delta # <<>>,
           UNCHANGED <<slots, revision, goal, full>>, delta' = Tail(delta),
           pc' \in {"apply", "focus"},
           \A c \in Channels : c # Head(delta).id => copy'[c] = copy[c],
           Removed(Head(delta).id, goal) => ~copy'[Head(delta).id].has
    PROVE  RemovedInv'
  <1> DEFINE d == Head(delta).id
  <1>1. /\ Head(delta) = delta[1]
        /\ \A i \in DOMAIN delta : i # 1 => i - 1 \in DOMAIN Tail(delta)
                                            /\ Tail(delta)[i - 1] = delta[i]
    BY TailFacts DEF Shape, ClientShape
  <1>2. d \in Channels /\ slots[d].rev > revision /\ revision \in Nat /\ slots[d].rev \in Nat
    BY EntryFacts DEF Slot
  <1>3. FirstList'
    BY DEF RemovedInv, FirstList
  <1>4. \A c \in Channels : Removed(c, revision)' => ~copy'[c].has
    BY <1>2 DEF RemovedInv, Removals, Removed
  <1>5. ASSUME NEW c \in Channels, Removed(c, goal)', copy'[c].has
        PROVE  \E i \in DOMAIN delta' : delta'[i].id = c
    <2>1. c # d /\ copy[c].has /\ Removed(c, goal)
      BY <1>5 DEF Removed
    <2>2. PICK i \in DOMAIN delta : delta[i].id = c
      BY <2>1 DEF RemovedInv, Removals
    <2>3. i # 1
      BY <1>1, <2>1, <2>2
    <2> QED
      BY <1>1, <2>2, <2>3
  <1>6. Removals'
    BY <1>4, <1>5 DEF Removals
  <1> QED
    BY <1>3, <1>6 DEF RemovedInv

LEMMA ForgetRemoved ==
    ASSUME Shape, SyncInv, RemovedInv, Forget
    PROVE  RemovedInv'
  <1>1. Head(delta).id \in Channels /\ copy \in [Channels -> Copy]
    BY HeadFacts DEF Forget, Shape, ClientShape
  <1>2. /\ pc = "apply" /\ delta # <<>> /\ delta' = Tail(delta)
        /\ UNCHANGED <<slots, revision, goal, full, pc>>
        /\ copy' = [copy EXCEPT ![Head(delta).id] = NoCopy]
    BY DEF Forget, server
  <1>3. /\ \A c \in Channels : c # Head(delta).id => copy'[c] = copy[c]
        /\ ~copy'[Head(delta).id].has
    BY <1>1, <1>2 DEF NoCopy
  <1> QED
    BY <1>2, <1>3, TailRemoved

LEMMA EntryDoneRemoved ==
    ASSUME Shape, SyncInv, RemovedInv, EntryDone
    PROVE  RemovedInv'
  <1>1. /\ pc = "apply" /\ delta # <<>> /\ delta' = Tail(delta) /\ Head(delta).live
        /\ UNCHANGED <<slots, revision, goal, full, copy>> /\ pc' \in {"apply", "focus"}
    BY DEF EntryDone, server
  <1>2. ~Removed(Head(delta).id, goal)
    BY <1>1, EntryFacts DEF Removed, EntryOf
  <1> QED
    BY <1>1, <1>2, TailRemoved

\* What is written is of a channel that was not removed up to goal.
LEMMA WriteRemoved ==
    ASSUME Shape, SyncInv, RemovedInv, ApplyDetail \/ ApplySummary
    PROVE  RemovedInv'
  <1>1. PICK e : e = Head(delta)
    OBVIOUS
  <1>2. /\ pc = "apply" /\ delta # <<>> /\ e.live
        /\ UNCHANGED <<slots, revision, goal, full, pc, delta>>
    BY <1>1 DEF ApplyDetail, ApplySummary, NeedsDetail, NeedsSummary, server
  <1>3. \A c \in Channels : c # e.id => copy'[c] = copy[c]
    BY <1>1, ApplyDetailFacts, ApplySummaryFacts
  <1>4. /\ e.id \in Channels /\ slots[e.id].rev > revision
        /\ revision \in Nat /\ slots[e.id].rev \in Nat
        /\ ~Removed(e.id, goal)
    BY <1>1, <1>2, EntryFacts DEF Slot, Removed, EntryOf
  <1>5. FirstList'
    BY <1>2 DEF RemovedInv, FirstList
  <1>6. \A c \in Channels : Removed(c, revision)' => c # e.id /\ ~copy[c].has
    BY <1>2, <1>4 DEF RemovedInv, Removals, Removed
  <1>7. \A c \in Channels : Removed(c, goal)' =>
            c # e.id /\ (~copy[c].has \/ \E i \in DOMAIN delta : delta[i].id = c)
    BY <1>2, <1>4 DEF RemovedInv, Removals, Removed
  <1>8. Removals'
    BY <1>2, <1>3, <1>6, <1>7 DEF Removals
  <1> QED
    BY <1>5, <1>8 DEF RemovedInv

LEMMA ReachedRemoved ==
    ASSUME Shape, RemovedInv, Reached
    PROVE  RemovedInv'
  <1>1. /\ pc = "apply" /\ pc' = "loop" /\ delta = <<>> /\ revision' = goal
        /\ UNCHANGED <<slots, copy>>
    BY DEF Reached, server
  <1>0. goal # 0
    BY <1>1 DEF RemovedInv, FirstList
  <1>2. \A c \in Channels : Removed(c, goal) => ~copy[c].has
    BY <1>1, EmptyResponse DEF RemovedInv, Removals
  <1>3. FirstList' /\ Removals'
    BY <1>0, <1>1, <1>2 DEF FirstList, Removals, Removed
  <1> QED
    BY <1>3 DEF RemovedInv

\* A pass that is given up is not the storing of the first list.
LEMMA GiveUpRemoved ==
    ASSUME RemovedInv, UNCHANGED <<slots, revision, copy>>, GiveUp,
           ~(pc \in {"apply", "focus"} /\ full)
    PROVE  RemovedInv'
  <1>1. pc' = "loop" /\ UNCHANGED <<slots, revision, copy>>
    BY DEF GiveUp
  <1>2. revision = 0 => \A c \in Channels : ~copy[c].has
    <2>1. revision = 0 => pc \notin {"apply", "focus"}
      BY DEF RemovedInv, FirstList
    <2> QED
      BY <2>1 DEF RemovedInv, FirstList
  <1>3. FirstList'
    BY <1>1, <1>2 DEF FirstList
  <1>4. Removals'
    BY <1>1 DEF RemovedInv, Removals, Removed
  <1> QED
    BY <1>3, <1>4 DEF RemovedInv

LEMMA RemovedStep ==
    ASSUME OneAtATime, NoGroupOps, ~CrashEarly, Shape, SyncInv, RemovedInv, [Next]_vars
    PROVE  RemovedInv'
  <1>1. CASE \E h \in Handlers, op \in Ops : Commit(h, op)
    BY <1>1, CommitRemoved
  <1>2. CASE ReadSlots \/ ReadRows \/ Forget \/ ApplyDetail \/ ApplySummary \/ EntryDone \/ Reached
    BY <1>2, ReadSlotsRemoved, ReadRowsRemoved, ForgetRemoved, WriteRemoved, EntryDoneRemoved,
       ReachedRemoved
  <1>3. CASE RequestFails \/ AnsweredNull \/ Restart
    <2>1. UNCHANGED <<slots, revision, copy>> /\ GiveUp
      BY <1>3 DEF RequestFails, AnsweredNull, Restart, server
    <2>2. ~(pc \in {"apply", "focus"} /\ full)
      BY <1>3 DEF RequestFails, AnsweredNull, Restart
    <2> QED
      BY <2>1, <2>2, GiveUpRemoved
  <1>4. CASE Request \/ (\E h \in Handlers : SetStatus(h)) \/ Greet \/ Register \/ Drop \/ UNCHANGED vars
    BY <1>4, QuietRemoved DEF Request, Load, SetStatus, Greet, Register, Drop, vars, server, client
  <1>5. CASE Deliver
    BY <1>5, QuietRemoved DEF Deliver, SetRevision, server
  <1>6. CASE EndLoop \/ EndMarker
    <2>1. /\ UNCHANGED <<slots, revision, copy, goal, full, listed, delta>>
          /\ {pc, pc'} \subseteq {"idle", "loop", "marker"}
      BY <1>6 DEF EndLoop, EndMarker, server
    <2> QED
      BY <2>1, QuietRemoved
  <1>7. CASE FocusReturns
    BY <1>7, QuietRemoved DEF FocusReturns, server
  <1> QED
    BY <1>1, <1>2, <1>3, <1>4, <1>5, <1>6, <1>7 DEF Next, Finish, Sync, Faulty

(***************************************************************************)
(* A client that has reached the revision of a removal no longer holds the *)
(* channel, however requests fail and the app restarts, unless it stops    *)
(* while it stores its first list (stream.ts:206-212).                     *)
(***************************************************************************)
THEOREM RemovalsSeen ==
    ASSUME OneAtATime, NoGroupOps, ~CrashEarly
    PROVE  Spec => []DeletionSeen
  <1>1. Shape /\ SyncInv /\ [Next]_vars => Shape' /\ SyncInv'
    BY ShapeStep, HeldStep, ToldStep DEF SyncInv, Bounded, Held
  <1>2. Shape /\ SyncInv /\ RemovedInv /\ [Next]_vars => RemovedInv'
    BY RemovedStep
  <1>3. Init => RemovedInv
    BY DEF Init, RemovedInv, FirstList, Removals, Removed, NoSlot, NoCopy
  <1>4. Shape /\ RemovedInv => DeletionSeen
    BY DEF Shape, ServerShape, ClientShape, Slot, RemovedInv, Removals, Removed, DeletionSeen
  <1> QED
    BY ShapeInit, <1>1, <1>2, <1>3, <1>4, PTL DEF Spec

-------------------------------------------------------------------------------
(* The ranges of the variables, whatever the requests and however many run.  *)

Loading == {h \in Handlers : work[h].at = "loaded"}

\* Every commit adds at most one to the highest revision there is, and those
\* that are loaded have their place among the changes there may be.
Within ==
    /\ chanRev <= commits + 1
    /\ \A h \in Handlers : work[h].rev <= commits + 1
    /\ IsFiniteSet(Loading) /\ commits + Cardinality(Loading) <= MaxCommits

LEMMA AfterType ==
    ASSUME NEW op \in Ops, NEW s \in Slots, NEW n \in Revisions, NEW k \in Stamps
    PROVE  After(op, s, n, k) \in Slots
  <1>0. 0 \in Revisions /\ 0 \in Stamps
    BY RevisionAssumption DEF Revisions, Stamps
  <1> DEFINE a == AddChannel(s, n, k)
             b == RemoveChannel(s, n, k)
             c == NewDetail(s, n, k)
             d == NewTopics(s, n, k)
             g == [s EXCEPT !.rev = n, !.detail = k]
  <1>1. a \in Slots /\ b \in Slots /\ c \in Slots /\ d \in Slots /\ g \in Slots
    BY <1>0 DEF Slots, AddChannel, RemoveChannel, NoSlot, NewDetail, NewTopics
  <1>2. After(op, s, n, k) \in {a, b, c, d, g}
    <2> USE DEF After, LeaveChannel, RemoveCard, SetChannelSubject, SetChannelCard,
                ClearChannelCard, AddChannelTopic, SetChannelTopicSubject,
                SetChannelTopicConfirmed, RemoveChannelTopic, AddChannelTopicAsset,
                AddChannelTopicBlock, RemoveChannelTopicAsset, AddChannelTopicTag,
                SetChannelTopicTagSubject, RemoveChannelTopicTag, SetTopicRead, UpdateAsset,
                SetChannelGroup, ClearChannelGroup
    <2>1. op \in AllOps
      BY RevisionAssumption
    <2>2. CASE op \in {"AddChannel", "RemoveChannel"}
      BY <2>2
    <2>3. CASE op \in {"RemoveCard"} \cup DetailOps
      BY <2>3 DEF DetailOps
    <2>4. CASE op \in TopicOps \cup QuietOps
      BY <2>4 DEF TopicOps, QuietOps
    <2>5. CASE op \in GroupOps
      BY <2>5 DEF GroupOps
    <2> QED
      BY <2>1, <2>2, <2>3, <2>4, <2>5 DEF AllOps
  <1> QED
    BY <1>1, <1>2

\* The handlers.
LEMMA ServerType ==
    ASSUME TypeOK, Within, NEW h \in Handlers, Load(h) \/ Finish(h)
    PROVE  /\ chanRev' \in Revisions /\ slots' \in [Channels -> Slots] /\ commits' \in Stamps
           /\ work' \in [Handlers -> Works] /\ Within'
           /\ told' \in Revisions /\ inbox' \in Seq(Revisions)
           /\ UNCHANGED <<ws, heard, client, faults>>
  <1>1. /\ chanRev \in Revisions /\ commits \in Stamps /\ chanRev \in Nat /\ commits \in Nat
        /\ work \in [Handlers -> Works] /\ slots \in [Channels -> Slots]
        /\ MaxCommits \in Nat /\ Cardinality(Loading) \in Nat /\ IsFiniteSet(Loading)
    BY RevisionAssumption, FS_CardinalityType DEF TypeOK, Within, Revisions, Stamps
  <1>2. work[h] \in Works /\ work[h].rev \in Revisions /\ work[h].rev \in Nat
        /\ work[h].ids \subseteq Channels
    BY <1>1 DEF Works, Revisions
  <1>3. \A k \in Handlers : work[k].rev \in Nat
    BY <1>1 DEF Works, Revisions
  <1>4. Idle \in Works
    BY <1>1 DEF Idle, Works, Revisions
  <1>5. CASE Load(h)
    <2>1. PICK ids \in SUBSET Channels :
            work' = [work EXCEPT ![h] = [at |-> "loaded", rev |-> chanRev, ids |-> ids]]
      BY <1>5 DEF Load
    <2>2. PICK w \in Works : w = [at |-> "loaded", rev |-> chanRev, ids |-> ids]
      BY <1>1 DEF Works
    <2>3. w.at = "loaded" /\ w.rev = chanRev /\ work' = [work EXCEPT ![h] = w]
      BY <2>1, <2>2
    <2>4. /\ UNCHANGED <<chanRev, slots, commits, ws, told, inbox, heard, client, faults>>
          /\ h \notin Loading /\ commits + Cardinality(Loading) < MaxCommits
      BY <1>5 DEF Load, link, Loading
    <2>5. Loading' = Loading \cup {h}
      BY <1>1, <2>3 DEF Loading
    <2>6. IsFiniteSet(Loading)' /\ Cardinality(Loading)' = Cardinality(Loading) + 1
      BY <1>1, <2>4, <2>5, FS_AddElement
    <2>7. Within'
      BY <1>1, <2>3, <2>4, <2>6 DEF Within
    <2>8. work' \in [Handlers -> Works]
      BY <1>1, <2>3
    <2> QED
      BY <1>1, <2>4, <2>7, <2>8 DEF TypeOK
  <1>6. ASSUME NEW op \in Ops, Commit(h, op)
        PROVE  /\ chanRev' \in Revisions /\ slots' \in [Channels -> Slots] /\ commits' \in Stamps
               /\ work' \in [Handlers -> Works] /\ Within'
               /\ UNCHANGED <<link, client, faults>>
    <2>1. h \in Loading /\ commits' = commits + 1
      BY <1>6 DEF Commit, Loading
    <2>2. /\ IsFiniteSet(Loading \ {h})
          /\ Cardinality(Loading \ {h}) = Cardinality(Loading) - 1
      BY <1>1, <2>1, FS_RemoveElement
    <2>3. Cardinality(Loading \ {h}) \in Nat
      BY <2>2, FS_CardinalityType
    <2>4. commits' <= MaxCommits /\ commits' \in Stamps /\ commits' \in Nat
      BY <1>1, <2>1, <2>2, <2>3 DEF Within, Stamps
    <2>5. PICK n \in Nat : n = Stamp(h, op) /\ n <= commits' + 1
      BY <1>1, <1>2, <2>1 DEF Stamp, Within
    <2>6. chanRev' = n /\ n \in Revisions
      BY <1>1, <1>6, <2>4, <2>5 DEF Commit, Revisions
    <2>7. slots' \in [Channels -> Slots]
      <3>1. slots' = [c \in Channels |->
                        IF c \in work[h].ids THEN After(op, slots[c], n, commits') ELSE slots[c]]
        BY <1>6, <2>5 DEF Commit
      <3>2. \A c \in Channels : After(op, slots[c], n, commits') \in Slots
        BY <1>1, <2>4, <2>6, AfterType
      <3> QED
        BY <1>1, <3>1, <3>2
    <2>8. PICK w \in Works : /\ w.at # "loaded" /\ w.rev <= n
                             /\ work' = [work EXCEPT ![h] = w]
      <3>1. CASE op \in QuietOps
        <4>1. work' = [work EXCEPT ![h] = Idle] /\ Idle.at # "loaded" /\ Idle.rev <= n
          BY <1>6, <2>5, <3>1 DEF Commit, Idle
        <4> QED
          BY <1>4, <4>1
      <3>2. CASE op \notin QuietOps
        <4>1. PICK w \in Works : w = [work[h] EXCEPT !.at = "committed", !.rev = n]
          BY <1>2, <2>6 DEF Works
        <4>2. w.at = "committed" /\ w.rev = n
          BY <1>2, <4>1 DEF Works
        <4>3. work' = [work EXCEPT ![h] = w]
          BY <1>6, <2>5, <3>2, <4>1 DEF Commit
        <4>4. w.at # "loaded" /\ w.rev <= n
          BY <2>5, <4>2
        <4> QED
          BY <4>3, <4>4
      <3> QED
        BY <3>1, <3>2
    <2>9. Loading' = Loading \ {h}
      BY <1>1, <2>8 DEF Loading
    <2>10. Within'
      <3>1. \A k \in Handlers : work'[k].rev <= commits' + 1
        <4> TAKE k \in Handlers
        <4>1. CASE k = h
          <5>1. work'[k] = w /\ w.rev \in Nat
            BY <1>1, <2>8, <4>1 DEF Works, Revisions
          <5> QED
            BY <2>4, <2>5, <2>8, <5>1
        <4>2. CASE k # h
          <5>1. work'[k] = work[k] /\ work[k].rev <= commits + 1
            BY <1>1, <2>8, <4>2 DEF Within
          <5> QED
            BY <1>1, <1>3, <2>1, <5>1
        <4> QED
          BY <4>1, <4>2
      <3>2. commits' + Cardinality(Loading \ {h}) <= MaxCommits
        BY <1>1, <2>1, <2>2 DEF Within
      <3> QED
        BY <2>2, <2>5, <2>6, <2>9, <3>1, <3>2 DEF Within
    <2> QED
      BY <1>1, <1>6, <2>4, <2>6, <2>7, <2>8, <2>10 DEF Commit
  <1>7. CASE SetStatus(h)
    <2>1. /\ work' = [work EXCEPT ![h] = Idle]
          /\ UNCHANGED <<chanRev, slots, commits, ws, heard, client, faults>>
          /\ \/ inbox' = Append(inbox, work[h].rev) /\ told' = work[h].rev
             \/ UNCHANGED <<inbox, told>>
          /\ work[h].at = "committed"
      BY <1>7 DEF SetStatus
    <2>2. inbox' \in Seq(Revisions) /\ told' \in Revisions
      <3>1. inbox \in Seq(Revisions) /\ told \in Revisions
        BY DEF TypeOK
      <3>2. Append(inbox, work[h].rev) \in Seq(Revisions)
        BY <1>2, <3>1, AppendProperties
      <3> QED
        BY <1>2, <2>1, <3>1, <3>2
    <2>3. work' \in [Handlers -> Works]
      BY <1>1, <1>4, <2>1
    <2>4. Loading' = Loading
      BY <1>1, <2>1 DEF Loading, Idle
    <2>5. \A k \in Handlers : work'[k].rev <= commits + 1
      BY <1>1, <2>1 DEF Within, Idle
    <2>6. Within'
      BY <2>1, <2>4, <2>5 DEF Within
    <2> QED
      BY <1>1, <2>1, <2>2, <2>3, <2>6
  <1> QED
    BY <1>5, <1>6, <1>7 DEF Finish, TypeOK, link

\* The websocket.
LEMMA LinkType ==
    ASSUME TypeOK, Greet \/ Register \/ Drop \/ Deliver
    PROVE  TypeOK'
  <1>1. inbox \in Seq(Revisions) /\ chanRev \in Revisions /\ 0 \in Revisions
        /\ MaxFaults \in Nat /\ faults \in 0 .. MaxFaults
    BY RevisionAssumption DEF TypeOK, Revisions
  <1>2. CASE Greet
    <2>1. inbox' \in Seq(Revisions)
      BY <1>1, <1>2, AppendProperties DEF Greet
    <2> QED
      BY <1>1, <1>2, <2>1 DEF Greet, TypeOK, server, client
  <1>3. CASE Register
    BY <1>3 DEF Register, TypeOK, server, client
  <1>4. CASE Drop
    <2>1. PICK k \in 0 .. Len(inbox) : inbox' = SubSeq(inbox, 1, k)
      BY <1>4 DEF Drop
    <2>2. Len(inbox) \in Nat /\ \A i \in 1 .. Len(inbox) : inbox[i] \in Revisions
      BY <1>1, LenProperties, ElementOfSeq
    <2>3. inbox' \in Seq(Revisions)
      BY <2>1, <2>2, SubSeqProperties
    <2>4. faults' \in 0 .. MaxFaults
      BY <1>1, <1>4 DEF Drop
    <2> QED
      BY <1>1, <1>4, <2>3, <2>4 DEF Drop, TypeOK, server, client
  <1>5. ASSUME NEW i \in 1 .. Len(inbox), SetRevision(i)
        PROVE  TypeOK'
    <2>1. inbox' \in Seq(Revisions) /\ next' \in Revisions /\ heard' \in Revisions
      BY <1>1, <1>5, RemoveAtFacts, ElementOfSeq DEF SetRevision
    <2> QED
      BY <1>5, <2>1 DEF SetRevision, TypeOK, server
  <1> QED
    BY <1>2, <1>3, <1>4, <1>5 DEF Deliver

\* The loop.
LEMMA ClientType ==
    ASSUME TypeOK, Sync \/ FocusReturns \/ RequestFails \/ Restart
    PROVE  TypeOK'
  <1>1. /\ slots \in [Channels -> Slots] /\ copy \in [Channels -> Copies]
        /\ delta \in Seq(Entries) /\ listed \subseteq Channels
        /\ next \in Revisions /\ revision \in Revisions /\ goal \in Revisions
        /\ full \in BOOLEAN /\ hasSynced \in BOOLEAN
        /\ faults \in 0 .. MaxFaults /\ MaxFaults \in Nat
        /\ 0 \in Revisions /\ 0 \in Stamps
    BY RevisionAssumption DEF TypeOK, Revisions, Stamps
  <1>2. ASSUME delta # <<>>
        PROVE  /\ Head(delta) \in Entries /\ Head(delta).id \in Channels
               /\ Tail(delta) \in Seq(Entries)
    <2>1. Head(delta) \in Entries /\ Tail(delta) \in Seq(Entries)
      BY <1>1, <1>2, TailFacts
    <2> QED
      BY <2>1 DEF Entries
  <1>3. CASE ReadSlots
    BY <1>1, <1>3 DEF ReadSlots, Listed, TypeOK, server, link
  <1>4. CASE ReadRows
    <2> DEFINE S == {c \in listed : full => slots[c].live}
    <2>1. Cardinality(S) \in Nat
      <3>1. S \subseteq Channels
        BY <1>1
      <3> QED
        BY <3>1, FS_Subset, FS_CardinalityType, RevisionAssumption
    <2>2. \A c \in Channels : EntryOf(c) \in Entries
      BY <1>1 DEF EntryOf, Entries, Slots
    <2>3. PICK ids \in Orders(S) : delta' = [i \in DOMAIN ids |-> EntryOf(ids[i])]
      BY <1>4 DEF ReadRows
    <2>4. DOMAIN ids = 1 .. Cardinality(S) /\ \A i \in DOMAIN ids : ids[i] \in Channels
      BY <1>1, <2>3 DEF Orders
    <2>5. delta' \in [1 .. Cardinality(S) -> Entries]
      BY <2>2, <2>3, <2>4
    <2>6. delta' \in Seq(Entries)
      <3> HIDE DEF S
      <3>1. delta' \in UNION {[1 .. n -> Entries] : n \in Nat}
        BY <2>1, <2>5
      <3> QED
        BY <3>1, SeqDef
    <2> QED
      BY <1>4, <2>6 DEF ReadRows, TypeOK, server, link
  <1>5. CASE Forget
    <2>1. NoCopy \in Copies
      BY <1>1 DEF NoCopy, Copies
    <2>2. copy' \in [Channels -> Copies]
      BY <1>1, <1>2, <1>5, <2>1 DEF Forget
    <2> QED
      BY <1>2, <1>5, <2>2 DEF Forget, TypeOK, server, link
  <1>6. CASE ApplyDetail
    <2>1. PICK e \in Entries : e = Head(delta) /\ e.id \in Channels
      BY <1>2, <1>6 DEF ApplyDetail
    <2>2. PICK d \in Stamps : d = IF full THEN e.detail ELSE slots[e.id].detail
      BY <1>1, <2>1 DEF Entries, Slots
    <2>3. e.drev \in Revisions /\ copy[e.id] \in Copies
      BY <1>1, <2>1 DEF Entries
    <2>4. PICK x \in Copies : x = [copy[e.id] EXCEPT !.has = TRUE, !.drev = e.drev, !.detail = d]
      BY <2>2, <2>3 DEF Copies
    <2>5. copy' = [copy EXCEPT ![e.id] = x]
      BY <1>1, <1>6, <2>1, <2>2, <2>4 DEF ApplyDetail
    <2>6. copy' \in [Channels -> Copies]
      BY <1>1, <2>1, <2>5
    <2> QED
      BY <1>6, <2>6 DEF ApplyDetail, TypeOK, server, link
  <1>7. CASE ApplySummary
    <2>1. PICK e \in Entries : e = Head(delta) /\ e.id \in Channels
      BY <1>2, <1>7 DEF ApplySummary
    <2>2. PICK t \in Stamps : t = IF full THEN e.topics ELSE slots[e.id].topics
      BY <1>1, <2>1 DEF Entries, Slots
    <2>3. e.trev \in Revisions /\ copy[e.id] \in Copies
      BY <1>1, <2>1 DEF Entries
    <2>4. PICK x \in Copies : x = [copy[e.id] EXCEPT !.trev = e.trev, !.topics = t]
      BY <2>2, <2>3 DEF Copies
    <2>5. copy' = [copy EXCEPT ![e.id] = x]
      BY <1>1, <1>7, <2>1, <2>2, <2>4 DEF ApplySummary
    <2>6. copy' \in [Channels -> Copies]
      BY <1>1, <2>1, <2>5
    <2> QED
      BY <1>7, <2>6 DEF ApplySummary, TypeOK, server, link
  <1>8. CASE EntryDone
    BY <1>2, <1>8 DEF EntryDone, TypeOK, server, link
  <1>9. CASE Reached
    BY <1>1, <1>9 DEF Reached, TypeOK, server, link
  <1>10. CASE AnsweredNull
    BY <1>1, <1>10, EmptyResponse DEF AnsweredNull, GiveUp, TypeOK, server, link
  <1>11. CASE EndLoop
    <2>1. hasSynced' \in BOOLEAN /\ pc' \in {"marker", "idle"}
      BY <1>11 DEF EndLoop
    <2> QED
      BY <1>1, <1>11, <2>1 DEF EndLoop, TypeOK, server, link
  <1>12. CASE EndMarker
    BY <1>12 DEF EndMarker, TypeOK, server, link
  <1>13. CASE RequestFails
    <2>1. faults' \in 0 .. MaxFaults
      BY <1>1, <1>13 DEF RequestFails
    <2> QED
      BY <1>1, <1>13, <2>1, EmptyResponse DEF RequestFails, GiveUp, TypeOK, server, link
  <1>14. CASE Restart
    <2>1. faults' \in 0 .. MaxFaults /\ hasSynced' \in BOOLEAN
      BY <1>1, <1>14 DEF Restart
    <2> QED
      BY <1>1, <1>14, <2>1, EmptyResponse DEF Restart, GiveUp, TypeOK, server
  <1>15. CASE FocusReturns
    BY <1>15 DEF FocusReturns, TypeOK, server, link
  <1> QED
    BY <1>3, <1>4, <1>5, <1>6, <1>7, <1>8, <1>9, <1>10, <1>11, <1>12, <1>13, <1>14, <1>15
       DEF Sync

(***************************************************************************)
(* Whatever requests run and however they overlap, no revision is assigned *)
(* that exceeds the number of commits by more than one (Stamp, the account *)
(* revision the handlers of the node read and write), and what the loop of *)
(* the client holds, asks for and applies stays of its type.               *)
(***************************************************************************)
THEOREM RevisionTypes == Spec => []TypeOK
  <1>1. Init => TypeOK /\ Within
    <2> SUFFICES ASSUME Init PROVE TypeOK /\ Within
      OBVIOUS
    <2>1. 0 \in Revisions /\ 1 \in Revisions /\ 0 \in Stamps /\ MaxCommits \in Nat /\ MaxFaults \in Nat
      BY RevisionAssumption DEF Revisions, Stamps
    <2>2. Idle \in Works /\ NoSlot \in Slots /\ NoCopy \in Copies
      BY <2>1 DEF Idle, Works, NoSlot, Slots, NoCopy, Copies
    <2>3. TypeOK
      <3>1. /\ slots \in [Channels -> Slots] /\ copy \in [Channels -> Copies]
            /\ work \in [Handlers -> Works]
        BY <2>2 DEF Init
      <3>2. inbox \in Seq(Revisions) /\ delta \in Seq(Entries)
        BY EmptyResponse DEF Init
      <3>3. chanRev \in Revisions /\ commits \in Stamps /\ faults \in 0 .. MaxFaults
        BY <2>1 DEF Init
      <3> QED
        BY <2>1, <3>1, <3>2, <3>3 DEF Init, TypeOK
    <2>4. Loading = {}
      BY DEF Init, Loading, Idle
    <2>5. Within
      BY <2>1, <2>4, FS_EmptySet DEF Init, Within, Idle
    <2> QED
      BY <2>3, <2>5
  <1>2. TypeOK /\ Within /\ [Next]_vars => (TypeOK /\ Within)'
    <2> SUFFICES ASSUME TypeOK, Within, [Next]_vars PROVE TypeOK' /\ Within'
      OBVIOUS
    <2>1. ASSUME UNCHANGED server PROVE Within'
      BY <2>1 DEF server, Within, Loading
    <2>2. ASSUME NEW h \in Handlers, Load(h) \/ Finish(h) PROVE TypeOK' /\ Within'
      BY <2>2, ServerType DEF TypeOK, client
    <2>3. CASE Greet \/ Register \/ Drop \/ Deliver
      <3>1. UNCHANGED server
        BY <2>3 DEF Greet, Register, Drop, Deliver, SetRevision
      <3> QED
        BY <2>1, <2>3, <3>1, LinkType
    <2>4. CASE Sync \/ FocusReturns \/ RequestFails \/ Restart
      <3>1. UNCHANGED server
        BY <2>4 DEF Sync, ReadSlots, ReadRows, Forget, ApplyDetail, ApplySummary, EntryDone,
                    FocusReturns, Reached, AnsweredNull, EndLoop, EndMarker, RequestFails, Restart
      <3> QED
        BY <2>1, <2>4, <3>1, ClientType
    <2>5. CASE UNCHANGED vars
      BY <2>1, <2>5 DEF vars, server, link, client, TypeOK
    <2> QED
      BY <2>2, <2>3, <2>4, <2>5 DEF Next, Request, Faulty
  <1> QED
    BY <1>1, <1>2, PTL DEF Spec
===============================================================================
