---------------------------- MODULE NotifyProofs ----------------------------
(***************************************************************************)
(* Proofs about Notify, for any handlers, any number of contacts and       *)
(* stops, and a channel of any size.                                       *)
(***************************************************************************)
EXTENDS Notify, TLAPS

Reached == tried \cup OnTheWay

\* What the sender holds was found nowhere else, and is given up only once it
\* was sent; the rows of an open transaction are as safe as the committed ones.
SenderInv ==
    /\ sender \in {"off", "find", "queue", "select"} => cur = {}
    /\ sender = "delete" => cur \subseteq tried
    /\ sender # "queue" => boot = {}

OpenRows == \A h \in Handlers : Uncommitted(h) \subseteq Reached

IInv == TypeOK /\ SenderInv /\ OpenRows /\ NothingLost

-----------------------------------------------------------------------------
(* Sequences.                                                              *)

LEMMA RangeAppend ==
    ASSUME NEW S, NEW s \in Seq(S), NEW x \in S
    PROVE  Range(Append(s, x)) = Range(s) \cup {x}
  <1>1. Len(Append(s, x)) = Len(s) + 1 /\ Len(s) \in Nat
    OBVIOUS
  <1>2. Append(s, x)[Len(s) + 1] = x
    OBVIOUS
  <1>3. \A i \in 1 .. Len(s) : Append(s, x)[i] = s[i]
    OBVIOUS
  <1>4. DOMAIN Append(s, x) = 1 .. Len(s) + 1 /\ DOMAIN s = 1 .. Len(s)
    BY <1>1
  <1>5. 1 .. Len(s) + 1 = (1 .. Len(s)) \cup {Len(s) + 1}
    BY <1>1
  <1> QED
    BY <1>2, <1>3, <1>4, <1>5 DEF Range

LEMMA RangeTail ==
    ASSUME NEW S, NEW s \in Seq(S), s # <<>>
    PROVE  Range(s) \subseteq {Head(s)} \cup Range(Tail(s))
  <1> SUFFICES ASSUME NEW i \in 1 .. Len(s)
               PROVE  s[i] \in {Head(s)} \cup Range(Tail(s))
    BY DEF Range
  <1>1. CASE i = 1
    BY <1>1
  <1>2. CASE i # 1
    <2>1. i - 1 \in 1 .. Len(Tail(s)) /\ Tail(s)[i - 1] = s[i]
      BY <1>2
    <2>2. i - 1 \in DOMAIN Tail(s)
      BY <2>1
    <2> QED
      BY <2>1, <2>2 DEF Range
  <1> QED
    BY <1>1, <1>2

-----------------------------------------------------------------------------
LEMMA TypeStep == TypeOK /\ [Next]_vars => TypeOK'
  <1> SUFFICES ASSUME TypeOK, [Next]_vars PROVE TypeOK'
    OBVIOUS
  <1> USE NotifyAssumption DEF TypeOK
  <1>1. \A h \in Handlers : Current(h) \in Notification /\ Uncommitted(h) \subseteq Notification
    BY DEF Current, Uncommitted, Notification
  <1>2. ASSUME NEW h \in Handlers, NEW pc \in {"save", "put", "commit", "done"}, Goto(h, pc)
        PROVE  at' \in [Handlers -> [pc : {"save", "put", "commit", "done"}, i : 1 .. Contacts]]
    BY <1>2 DEF Goto
  <1>3. ASSUME NEW h \in Handlers, NextContact(h)
        PROVE  at' \in [Handlers -> [pc : {"save", "put", "commit", "done"}, i : 1 .. Contacts]]
    <2>1. CASE at[h].i < Contacts
      BY <1>3, <2>1 DEF NextContact
    <2>2. CASE ~(at[h].i < Contacts)
      BY <1>3, <2>2, <1>2 DEF NextContact
    <2> QED
      BY <2>1, <2>2
  <1>4. ASSUME NEW h \in Handlers, HandlerStep(h)
        PROVE  TypeOK'
    <2>1. CASE Save(h)
      BY <2>1, <1>1, <1>2 DEF Save, Sending
    <2>2. CASE SaveFails(h)
      BY <2>2, <1>2, <1>3 DEF SaveFails, Sending
    <2>3. CASE Put(h)
      BY <2>3, <1>1, <1>3 DEF Put, Full, Sending
    <2>4. CASE Commit(h)
      BY <2>4, <1>1, <1>2 DEF Commit, Sending
    <2> QED
      BY <1>4, <2>1, <2>2, <2>3, <2>4 DEF HandlerStep
  <1>5. CASE SenderStep
    <2>1. CASE Queue
      BY <2>1 DEF Queue, Full
    <2>2. CASE Receive
      BY <2>2 DEF Receive
    <2>3. CASE Start \/ Find \/ Queued \/ Send \/ Delete \/ DeleteFails
      BY <2>3 DEF Start, Find, Queued, Send, Delete, DeleteFails
    <2> QED
      BY <1>5, <2>1, <2>2, <2>3 DEF SenderStep
  <1>6. CASE Stop
    <2>1. \A h \in Handlers : [at[h] EXCEPT !.pc = "done"]
                                 \in [pc : {"save", "put", "commit", "done"}, i : 1 .. Contacts]
      OBVIOUS
    <2> QED
      BY <1>6, <2>1 DEF Stop
  <1>7. CASE UNCHANGED vars
    BY <1>7 DEF vars
  <1> QED
    BY <1>4, <1>5, <1>6, <1>7 DEF Next

-----------------------------------------------------------------------------
(* Nothing that was sent or is on its way drops out, except by a stop.     *)

\* A handler that puts hands its notification to the channel.
LEMMA HandlerKeeps ==
    ASSUME IInv, NEW h \in Handlers, HandlerStep(h)
    PROVE  /\ Reached \subseteq Reached'
           /\ Save(h) => Current(h) \in Reached'
           /\ SenderInv' /\ UNCHANGED <<boot, sender, cur, tried, stops>>
  <1> USE DEF IInv, TypeOK
  <1>1. UNCHANGED <<boot, sender, cur, tried, stops>> /\ SenderInv'
    BY DEF HandlerStep, Save, SaveFails, Put, Commit, Sending, SenderInv
  <1>2. ASSUME NEW g \in Handlers, g # h
        PROVE  at'[g] = at[g]
    BY <1>2 DEF HandlerStep, Save, SaveFails, Put, Commit, Goto, NextContact
  <1>3. ASSUME at[h].pc # "put", UNCHANGED channel
        PROVE  Reached \subseteq Reached'
    BY <1>1, <1>2, <1>3 DEF Reached, OnTheWay, Current
  <1>4. CASE Save(h)
    <2>1. at'[h].pc = "put" /\ at'[h].i = at[h].i
      BY <1>4 DEF Save, Goto
    <2>2. Current(h) \in Reached'
      BY <2>1 DEF Reached, OnTheWay, Current
    <2>3. Reached \subseteq Reached'
      BY <1>3, <1>4 DEF Save
    <2> QED
      BY <1>1, <2>2, <2>3
  <1>5. CASE SaveFails(h)
    BY <1>1, <1>3, <1>5 DEF SaveFails, Save, Goto
  <1>6. CASE Put(h)
    <2>1. Current(h) \in Notification
      BY DEF Current, Notification
    <2>2. Range(channel') = Range(channel) \cup {Current(h)}
      BY <1>6, <2>1, RangeAppend DEF Put
    <2>3. Reached \subseteq Reached'
      BY <1>1, <1>2, <2>2 DEF Reached, OnTheWay, Current
    <2> QED
      BY <1>1, <2>3, <1>6 DEF Put, Save
  <1>7. CASE Commit(h)
    BY <1>1, <1>3, <1>7 DEF Commit, Save
  <1> QED
    BY <1>4, <1>5, <1>6, <1>7 DEF HandlerStep

LEMMA SenderKeeps ==
    ASSUME IInv, SenderStep
    PROVE  Reached \subseteq Reached' /\ SenderInv' /\ UNCHANGED at
  <1> USE DEF IInv, TypeOK, SenderInv
  <1>1. SenderInv' /\ UNCHANGED at
    BY DEF SenderStep, Start, Find, Queue, Queued, Receive, Send, Delete, DeleteFails
  <1> SUFFICES Reached \subseteq Reached'
    BY <1>1
  <1>2. CASE Queue
    <2>1. PICK n \in boot : channel' = Append(channel, n) /\ boot' = boot \ {n}
      BY <1>2 DEF Queue
    <2>2. Range(channel') = Range(channel) \cup {n}
      BY <2>1, RangeAppend
    <2> QED
      BY <1>2, <2>1, <2>2 DEF Queue, Reached, OnTheWay, Current
  <1>3. CASE Receive
    <2>1. Range(channel) \subseteq cur' \cup Range(channel')
      BY <1>3, RangeTail DEF Receive
    <2> QED
      BY <1>3, <2>1 DEF Receive, Reached, OnTheWay, Current
  <1>4. CASE Start \/ Find \/ Queued \/ Send \/ Delete \/ DeleteFails
    BY <1>4 DEF Start, Find, Queued, Send, Delete, DeleteFails, Reached, OnTheWay, Current
  <1> QED
    BY <1>2, <1>3, <1>4 DEF SenderStep

-----------------------------------------------------------------------------
LEMMA OpenRowsStep == IInv /\ [Next]_vars => OpenRows'
  <1> SUFFICES ASSUME IInv, [Next]_vars, NEW g \in Handlers
               PROVE  Uncommitted(g)' \subseteq Reached'
    BY DEF OpenRows
  <1> USE DEF IInv, TypeOK
  <1>0. Uncommitted(g) \subseteq Reached
    BY DEF OpenRows
  <1>1. ASSUME NEW h \in Handlers, HandlerStep(h)
        PROVE  Uncommitted(g)' \subseteq Reached'
    <2>1. Reached \subseteq Reached' /\ (Save(h) => Current(h) \in Reached')
      BY <1>1, HandlerKeeps
    <2>2. CASE g # h
      <3>1. at'[g] = at[g]
        BY <1>1, <2>2 DEF HandlerStep, Save, SaveFails, Put, Commit, Goto, NextContact
      <3> QED
        BY <1>0, <2>1, <3>1 DEF Uncommitted
    <2>3. CASE g = h /\ Save(h)
      <3>1. at'[h].pc = "put" /\ at'[h].i = at[h].i /\ at[h].pc = "save"
        BY <2>3 DEF Save, Goto
      <3>2. Uncommitted(h)' \subseteq Uncommitted(h) \cup {Current(h)}
        BY <3>1 DEF Uncommitted, Current
      <3> QED
        BY <1>0, <2>1, <2>3, <3>2
    <2>4. CASE g = h /\ (SaveFails(h) \/ Commit(h))
      <3>1. Uncommitted(h)' = {}
        <4>1. CASE h \notin Profiles
          BY <4>1 DEF Uncommitted
        <4>2. CASE h \in Profiles
          <5>1. at'[h].pc = "done"
            BY <2>4, <4>2 DEF SaveFails, Commit, Goto
          <5> QED
            BY <5>1 DEF Uncommitted
        <4> QED
          BY <4>1, <4>2
      <3> QED
        BY <2>4, <3>1
    <2>5. CASE g = h /\ Put(h)
      <3>1. Uncommitted(h)' \subseteq Uncommitted(h)
        <4>1. CASE at[h].i < Contacts
          BY <2>5, <4>1 DEF Put, NextContact, Uncommitted
        <4>2. CASE ~(at[h].i < Contacts)
          <5>1. at'[h].pc = (IF h \in Profiles THEN "commit" ELSE "done") /\ at'[h].i = at[h].i
            BY <2>5, <4>2 DEF Put, NextContact, Goto
          <5> QED
            BY <2>5, <5>1 DEF Put, Uncommitted
        <4> QED
          BY <4>1, <4>2
      <3> QED
        BY <1>0, <2>1, <2>5, <3>1
    <2> QED
      BY <1>1, <2>2, <2>3, <2>4, <2>5 DEF HandlerStep
  <1>2. CASE SenderStep
    BY <1>0, <1>2, SenderKeeps DEF Uncommitted
  <1>3. CASE Stop
    <2>1. Uncommitted(g)' = {}
      <3>1. at'[g].pc = "done" \/ (at'[g].pc = "save" /\ at'[g].i = 1)
        <4>1. CASE at[g] = [pc |-> "save", i |-> 1]
          BY <1>3, <4>1 DEF Stop
        <4>2. CASE at[g] # [pc |-> "save", i |-> 1]
          <5>1. at'[g] = [at[g] EXCEPT !.pc = "done"]
            BY <1>3, <4>2 DEF Stop
          <5>2. at[g] \in [pc : {"save", "put", "commit", "done"}, i : 1 .. Contacts]
            OBVIOUS
          <5>3. ASSUME NEW r \in [pc : {"save", "put", "commit", "done"}, i : 1 .. Contacts]
                PROVE  [r EXCEPT !.pc = "done"].pc = "done"
            OBVIOUS
          <5> QED
            BY <5>1, <5>2, <5>3
        <4> QED
          BY <4>1, <4>2
      <3> QED
        BY <3>1 DEF Uncommitted
    <2> QED
      BY <2>1
  <1>4. CASE UNCHANGED vars
    BY <1>0, <1>4 DEF vars, Uncommitted, Reached, OnTheWay, Current
  <1> QED
    BY <1>1, <1>2, <1>3, <1>4 DEF Next

LEMMA NothingLostStep == IInv /\ [Next]_vars => NothingLost' /\ SenderInv'
  <1> SUFFICES ASSUME IInv, [Next]_vars PROVE NothingLost' /\ SenderInv'
    OBVIOUS
  <1> USE DEF IInv
  <1>1. ASSUME NEW h \in Handlers, HandlerStep(h)
        PROVE  NothingLost' /\ SenderInv'
    <2>1. /\ Reached \subseteq Reached' /\ (Save(h) => Current(h) \in Reached')
          /\ SenderInv' /\ sender' = sender
      BY <1>1, HandlerKeeps
    <2>2. CASE Save(h)
      <3>1. rows' \subseteq rows \cup {Current(h)}
        BY <2>2 DEF Save
      <3> QED
        BY <2>1, <2>2, <3>1 DEF NothingLost, Reached
    <2>3. CASE Commit(h)
      <3>1. rows' = rows \cup Uncommitted(h) /\ Uncommitted(h) \subseteq Reached
        BY <2>3 DEF Commit, OpenRows
      <3> QED
        BY <2>1, <3>1 DEF NothingLost, Reached
    <2>4. CASE SaveFails(h) \/ Put(h)
      <3>1. rows' = rows
        BY <2>4 DEF SaveFails, Put
      <3> QED
        BY <2>1, <3>1 DEF NothingLost, Reached
    <2> QED
      BY <1>1, <2>2, <2>3, <2>4 DEF HandlerStep
  <1>2. CASE SenderStep
    <2>1. Reached \subseteq Reached' /\ SenderInv'
      BY <1>2, SenderKeeps
    <2>2. CASE Find
      BY <2>1, <2>2 DEF Find, NothingLost, OnTheWay
    <2>3. CASE ~Find
      <3>1. rows' \subseteq rows
        BY <1>2, <2>3 DEF SenderStep, Start, Find, Queue, Queued, Receive, Send, Delete, DeleteFails
      <3>2. sender' \notin {"off", "find"} => sender \notin {"off", "find"}
        BY <1>2, <2>3 DEF SenderStep, Start, Find, Queue, Queued, Receive, Send, Delete, DeleteFails
      <3> QED
        BY <2>1, <3>1, <3>2 DEF NothingLost, Reached
    <2> QED
      BY <2>1, <2>2, <2>3
  <1>3. CASE Stop
    BY <1>3 DEF Stop, NothingLost, SenderInv
  <1>4. CASE UNCHANGED vars
    BY <1>4 DEF vars, NothingLost, SenderInv, OnTheWay, Current
  <1> QED
    BY <1>1, <1>2, <1>3, <1>4 DEF Next

LEMMA IInvInit == Init => IInv
  <1> SUFFICES ASSUME Init PROVE IInv
    OBVIOUS
  <1> USE NotifyAssumption DEF Init
  <1>1. TypeOK
    BY DEF TypeOK
  <1>2. SenderInv /\ NothingLost
    BY DEF SenderInv, NothingLost
  <1>3. OpenRows
    BY DEF OpenRows, Uncommitted
  <1> QED
    BY <1>1, <1>2, <1>3 DEF IInv

LEMMA IInvAlways == Spec => []IInv
  <1>1. IInv /\ [Next]_vars => IInv'
    BY TypeStep, OpenRowsStep, NothingLostStep DEF IInv
  <1> QED
    BY <1>1, IInvInit, PTL DEF Spec

\* The channel never holds more than its buffer, whoever fills it.
THEOREM TypeCorrect == Spec => []TypeOK
  <1>1. IInv => TypeOK
    BY DEF IInv
  <1> QED
    BY <1>1, IInvAlways, PTL

\* Whatever stops, fails or is doubled, a saved row was sent or is on its way
\* (SendNotifications and the handlers that fill its channel).
THEOREM NeverLost == Spec => []NothingLost
  <1>1. IInv => NothingLost
    BY DEF IInv
  <1> QED
    BY <1>1, IInvAlways, PTL

\* The queue and the table together implement an outbox that keeps every
\* notification until it was sent.
THEOREM PromiseKept == Spec => KeepsPromise
  <1>1. Init => KeptUntilSent!Init
    BY DEF Init, KeptUntilSent!Init
  <1>2. ASSUME IInv, [Next]_vars
        PROVE  [KeptUntilSent!Next]_(KeptUntilSent!vars)
    <2> USE DEF KeptUntilSent!Next, KeptUntilSent!vars
    <2>1. ASSUME NEW saved \in SUBSET Notification, rows' = rows \cup saved, UNCHANGED tried
          PROVE  KeptUntilSent!Save
      BY <2>1 DEF KeptUntilSent!Save
    <2>2. ASSUME NEW h \in Handlers, HandlerStep(h)
          PROVE  [KeptUntilSent!Next]_(KeptUntilSent!vars)
      <3>1. Current(h) \in Notification /\ Uncommitted(h) \in SUBSET Notification
        BY <1>2 DEF IInv, TypeOK, Current, Uncommitted, Notification
      <3>2. CASE Save(h)
        BY <2>1, <3>1, <3>2 DEF Save, Sending
      <3>3. CASE Commit(h)
        BY <2>1, <3>1, <3>3 DEF Commit, Sending
      <3>4. CASE SaveFails(h) \/ Put(h)
        BY <3>4 DEF SaveFails, Put, Sending
      <3> QED
        BY <2>2, <3>2, <3>3, <3>4 DEF HandlerStep
    <2>3. CASE SenderStep
      <3>1. CASE Send
        BY <1>2, <3>1 DEF Send, IInv, TypeOK, KeptUntilSent!Send
      <3>2. CASE Delete
        BY <1>2, <3>2 DEF Delete, IInv, SenderInv, KeptUntilSent!Delete
      <3>3. CASE Start \/ Find \/ Queue \/ Queued \/ Receive \/ DeleteFails
        BY <3>3 DEF Start, Find, Queue, Queued, Receive, DeleteFails
      <3> QED
        BY <2>3, <3>1, <3>2, <3>3 DEF SenderStep
    <2>4. CASE Stop \/ UNCHANGED vars
      BY <2>4 DEF Stop, vars
    <2> QED
      BY <1>2, <2>2, <2>3, <2>4 DEF Next
  <1> QED
    BY <1>1, <1>2, IInvAlways, PTL DEF Spec, KeepsPromise, KeptUntilSent!Spec
=============================================================================
