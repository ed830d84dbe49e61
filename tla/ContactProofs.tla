---------------------------- MODULE ContactProofs ----------------------------
(***************************************************************************)
(* Proofs about Contact, for every set of accounts and calls, with         *)
(* overlapping handlers and a lossy network.                               *)
(***************************************************************************)
EXTENDS Contact, TLAPS

\* A request names two different accounts, and what it is sent to is a node.
LEMMA PartiesType ==
    ASSUME NEW r \in Request
    PROVE  /\ Node(r) \in Accounts
           /\ About(r) \in Accounts
  BY FlowAssumption DEF Request, Node, About, ToContact

\* Every request a flow can send is a request.
LEMMA SentType ==
    ASSUME NEW f \in Flows, NEW i \in Keys, NEW t \in Nat
    PROVE  /\ SetConnecting(f, i) \in Request
           /\ SetConfirmed(f, i) \in Request
           /\ SetConnected(f, i, t) \in Request
           /\ RemoveCard(f, i) \in Request
           /\ Sent(f, "add", 0, "none", 0) \in Request
           /\ Sent(f, "open", 0, "none", t) \in Request
           /\ Sent(f, "close", 0, "none", 0) \in Request
  BY BoundAssumption
     DEF Keys, SetConnecting, SetConfirmed, SetConnected, RemoveCard, Sent, Request, Status, Card, NoCard

LEMMA IssuedType ==
    ASSUME NEW f \in Flows, NEW i \in Keys, NEW pc
    PROVE  Issued(f, pc, i) \subseteq Request
  BY SentType DEF Issued

LEMMA FirstPcType ==
    ASSUME NEW op \in AllOps, NEW seen
    PROVE  FirstPc(op, seen) \in Pc
  BY DEF FirstPc, AllOps, Pc, Waiting

\* Moving a flow on keeps it a flow.
LEMMA GotoType ==
    ASSUME TypeOK, NEW f \in Flows, NEW pc \in Pc, Goto(f, pc)
    PROVE  flow' \in [Flows -> Flow]
  BY DEF TypeOK, Goto, Flow

LEMMA ProceedType ==
    ASSUME TypeOK, NEW r \in reqs, NEW pc \in Pc, NEW i \in Keys,
           NEW next \in SUBSET Request, Proceed(r, pc, i, next)
    PROVE  flow' \in [Flows -> Flow] /\ reqs' \subseteq Request
  <1>1. r.flow \in Flows /\ flow[r.flow] \in Flow
    BY DEF TypeOK, Request
  <1>2. [flow[r.flow] EXCEPT !.pc = pc, !.card = i] \in Flow
    BY <1>1 DEF Flow
  <1> QED
    BY <1>1, <1>2 DEF TypeOK, Proceed

LEMMA AfterFailureType ==
    ASSUME NEW f \in Flows
    PROVE  AfterFailure(f) \in Pc
  BY DEF AfterFailure, Pc, Waiting

LEMMA FailType ==
    ASSUME TypeOK, NEW r \in reqs, Fail(r)
    PROVE  flow' \in [Flows -> Flow] /\ reqs' \subseteq Request
  <1>1. r.flow \in Flows
    BY DEF TypeOK, Request
  <1> QED
    BY <1>1, GotoType, AfterFailureType DEF Fail, TypeOK

\* Whatever the answer, flows stay flows and requests stay requests.
LEMMA AnswerType ==
    ASSUME TypeOK, NEW r \in reqs, NEW i \in Keys, NEW s, NEW t \in Nat,
           \/ AnswerAdd(r, i) \/ AnswerStatus(r) \/ AnswerOpen(r, s, t)
           \/ AnswerClose(r) \/ AnswerRemove(r)
    PROVE  flow' \in [Flows -> Flow] /\ reqs' \subseteq Request
  <1> DEFINE f == r.flow
  <1>1. f \in Flows /\ flow[f].card \in Keys
    BY DEF TypeOK, Request, Flow
  <1>2. CASE Ignore(r)
    BY <1>2 DEF Ignore, TypeOK
  <1>3. CASE \E pc \in Pc, j \in Keys, next \in SUBSET Request : Proceed(r, pc, j, next)
    BY <1>3, ProceedType
  <1>4. SetConnecting(f, i) \in Request /\ SetConnected(f, flow[f].card, t) \in Request
    BY <1>1, SentType
  <1>5. CASE AnswerAdd(r, i)
    BY <1>1, <1>2, <1>3, <1>4, <1>5 DEF AnswerAdd, Pc, Waiting
  <1>6. CASE AnswerStatus(r)
    BY <1>1, <1>2, <1>3, <1>6 DEF AnswerStatus, Pc, Waiting
  <1>7. CASE AnswerOpen(r, s, t)
    BY <1>1, <1>2, <1>3, <1>4, <1>7 DEF AnswerOpen, Pc, Waiting
  <1>8. CASE AnswerClose(r)
    BY <1>1, <1>2, <1>3, <1>8, AfterFailureType DEF AnswerClose
  <1>9. CASE AnswerRemove(r)
    BY <1>1, <1>2, <1>3, <1>9 DEF AnswerRemove, Pc
  <1> QED
    BY <1>5, <1>6, <1>7, <1>8, <1>9

\* Saving a row keeps the table a table.
LEMMA SaveType ==
    ASSUME TypeOK, NEW a \in Accounts, NEW b \in Accounts, NEW i, NEW c \in Card, Save(a, b, i, c)
    PROVE  cards' \in [Accounts -> [Accounts -> [Keys -> Card]]]
  BY DEF TypeOK, Save

LEMMA MintType ==
    ASSUME TypeOK, NEW a \in Accounts, NEW b \in Accounts
    PROVE  /\ Fresh(a, b) \in Nat
           /\ Mint(a, b) => minted' \in [Accounts -> [Accounts -> Nat]]
  <1>1. Fresh(a, b) \in Nat
    BY DEF TypeOK, Fresh
  <1>2. ASSUME Mint(a, b)
        PROVE  minted' \in [Accounts -> [Accounts -> Nat]]
    <2> DEFINE t == Fresh(a, b)
    <2>1. t \in Nat /\ minted' = [minted EXCEPT ![a][b] = t]
      BY <1>1, <1>2 DEF Mint
    <2> HIDE DEF t
    <2> QED
      BY <2>1 DEF TypeOK
  <1> QED
    BY <1>1, <1>2

LEMMA CreateType ==
    ASSUME TypeOK, NEW a \in Accounts, NEW b \in Accounts, NEW s \in Status, NEW t \in Nat,
           Create(a, b, s, t)
    PROVE  /\ cards' \in [Accounts -> [Accounts -> [Keys -> Card]]]
           /\ made' \in [Accounts -> [Accounts -> Keys]]
           /\ minted' \in [Accounts -> [Accounts -> Nat]]
           /\ made[a][b] + 1 \in Keys
  <1>1. [status |-> s, in |-> Fresh(a, b), out |-> t] \in Card
    BY MintType DEF Card
  <1>2. cards' \in [Accounts -> [Accounts -> [Keys -> Card]]]
    BY <1>1, SaveType DEF Create
  <1>3. made[a][b] \in Keys /\ made[a][b] + 1 \in Keys
    BY BoundAssumption DEF Create, TypeOK, Keys
  <1>4. made' \in [Accounts -> [Accounts -> Keys]]
    BY <1>3 DEF Create, TypeOK
  <1>5. minted' \in [Accounts -> [Accounts -> Nat]]
    BY MintType DEF Create
  <1> QED
    BY <1>2, <1>3, <1>4, <1>5

-----------------------------------------------------------------------------
LEMMA TypeInit == Init => TypeOK
  <1> SUFFICES ASSUME Init PROVE TypeOK
    OBVIOUS
  <1>1. NoCard \in Card
    BY DEF NoCard, Card
  <1> QED
    BY <1>1, BoundAssumption DEF Init, TypeOK, Flow, Pc, Keys

LEMMA TypeStep == TypeOK /\ [Next]_vars => TypeOK'
  <1> SUFFICES ASSUME TypeOK, [Next]_vars PROVE TypeOK'
    OBVIOUS
  <1> USE FlowAssumption, BoundAssumption
  <1>1. ASSUME NEW f \in Flows, NEW op \in Ops, NEW i \in Keys, Start(f, op, i)
        PROVE  TypeOK'
    <2> DEFINE seen == cards[By[f]][To[f]][i].status
    <2>1. seen \in Status \cup {"none"}
      <3>1. cards[By[f]][To[f]][i] \in Card
        BY DEF TypeOK
      <3> QED
        BY <3>1 DEF Card
    <2>2. FirstPc(op, seen) \in Pc /\ op \in AllOps
      BY FirstPcType
    <2>3. flow' \in [Flows -> Flow]
      BY <1>1, <2>1, <2>2 DEF Start, TypeOK, Flow
    <2>4. reqs' \subseteq Request
      BY <1>1, IssuedType DEF Start, TypeOK
    <2> QED
      BY <1>1, <2>3, <2>4 DEF Start, TypeOK
  <1>2. ASSUME NEW f \in Flows, GetOpenMessage(f)
        PROVE  TypeOK'
    <2> DEFINE c == cards[By[f]][To[f]][flow[f].card]
    <2>1. CASE c.status \in Linked
      <3>1. Goto(f, "opening")
        BY <1>2, <2>1 DEF GetOpenMessage
      <3>2. flow' \in [Flows -> Flow]
        BY <3>1, GotoType DEF Pc, Waiting
      <3>3. flow[f].card \in Keys
        BY DEF TypeOK, Flow
      <3>4. c \in Card
        BY <3>3 DEF TypeOK
      <3>5. c.in \in Nat
        BY <3>4 DEF Card
      <3>6. reqs' \subseteq Request
        BY <1>2, <2>1, <3>5, SentType DEF GetOpenMessage, TypeOK
      <3> QED
        BY <1>2, <3>2, <3>6 DEF GetOpenMessage, TypeOK
    <2>2. CASE c.status \notin Linked
      <3>1. Goto(f, "done") /\ UNCHANGED reqs
        BY <1>2, <2>2 DEF GetOpenMessage
      <3>2. flow' \in [Flows -> Flow]
        BY <3>1, GotoType DEF Pc
      <3> QED
        BY <1>2, <3>1, <3>2 DEF GetOpenMessage, TypeOK
    <2> QED
      BY <2>1, <2>2
  <1>3. ASSUME NEW f \in Flows, GetCloseMessage(f)
        PROVE  TypeOK'
    <2>1. flow' \in [Flows -> Flow]
      BY <1>3, GotoType, AfterFailureType DEF GetCloseMessage, Pc, Waiting
    <2>2. reqs' \subseteq Request
      BY <1>3, SentType DEF GetCloseMessage, TypeOK
    <2> QED
      BY <1>3, <2>1, <2>2 DEF GetCloseMessage, TypeOK
  <1>4. ASSUME NEW f \in Flows, Settle(f)
        PROVE  TypeOK'
    <2>1. PICK pc \in {"removing", "confirming"} :
             Goto(f, pc) /\ reqs' = reqs \cup Issued(f, pc, flow[f].card)
      BY <1>4 DEF Settle
    <2>2. flow[f].card \in Keys
      BY DEF TypeOK, Flow
    <2>3. flow' \in [Flows -> Flow]
      BY <2>1, GotoType DEF Pc, Waiting
    <2>4. reqs' \subseteq Request
      BY <2>1, <2>2, IssuedType DEF TypeOK
    <2> QED
      BY <1>4, <2>3, <2>4 DEF Settle, TypeOK
  <1>5. ASSUME NEW f \in Flows, GiveUp(f)
        PROVE  TypeOK'
    <2>1. flow' \in [Flows -> Flow]
      BY <1>5, GotoType, AfterFailureType DEF GiveUp
    <2> QED
      BY <1>5, <2>1 DEF GiveUp, TypeOK
  <1>6. ASSUME NEW r \in reqs, Lose(r)
        PROVE  TypeOK'
    BY <1>6, FailType DEF Lose, TypeOK
  <1>7. ASSUME NEW r \in reqs, Read(r)
        PROVE  TypeOK'
    <2>1. CASE Fail(r)
      BY <1>7, <2>1, FailType DEF Read, TypeOK
    <2>2. ASSUME NEW i \in Found(r),
                 reqs' = (reqs \ {r}) \cup {ReadAs(r, i, cards[Node(r)][About(r)][i])},
                 UNCHANGED flow
          PROVE  TypeOK'
      <3>1. r \in Request /\ Node(r) \in Accounts /\ About(r) \in Accounts
        BY PartiesType DEF TypeOK
      <3>2. i \in Keys
        BY <3>1 DEF Found, Lookup, Live, Ids, Keys, Request
      <3> DEFINE c == cards[Node(r)][About(r)][i]
      <3>3. c \in Card
        BY <3>1, <3>2 DEF TypeOK
      <3>4. ReadAs(r, i, c) \in Request
        BY <3>1, <3>2, <3>3 DEF ReadAs, Request
      <3>5. reqs' \subseteq Request
        BY <2>2, <3>4 DEF TypeOK
      <3> QED
        BY <1>7, <2>2, <3>5 DEF Read, TypeOK
    <2> QED
      BY <1>7, <2>1, <2>2 DEF Read
  <1>8. ASSUME NEW r \in reqs, Commit(r)
        PROVE  TypeOK'
    <2> DEFINE a == Node(r)
               b == About(r)
    <2>1. /\ r \in Request /\ a \in Accounts /\ b \in Accounts
          /\ r.snap \in Card /\ r.token \in Nat /\ r.card \in Keys
      BY PartiesType DEF TypeOK, Request
    <2>2. Fresh(a, b) \in Nat
      BY <2>1, MintType
    <2>3. CASE AddCard(r)
      <3>1. CASE r.card = 0
        <4>1. Create(a, b, "confirmed", 0) /\ AnswerAdd(r, made[a][b] + 1)
          BY <2>3, <3>1 DEF AddCard
        <4>2. /\ cards' \in [Accounts -> [Accounts -> [Keys -> Card]]]
              /\ made' \in [Accounts -> [Accounts -> Keys]]
              /\ minted' \in [Accounts -> [Accounts -> Nat]]
              /\ made[a][b] + 1 \in Keys
          BY <2>1, <4>1, CreateType DEF Status
        <4>3. flow' \in [Flows -> Flow] /\ reqs' \subseteq Request
          BY <4>1, <4>2, AnswerType
        <4> QED
          BY <2>3, <4>2, <4>3 DEF AddCard, TypeOK
      <3>2. CASE r.card # 0
        <4> DEFINE c == [r.snap EXCEPT !.status = IF @ = "pending" THEN "confirmed" ELSE @]
        <4>1. c \in Card
          BY <2>1 DEF Card, Status
        <4>2. Save(a, b, r.card, c) /\ AnswerAdd(r, r.card) /\ UNCHANGED <<made, minted>>
          BY <2>3, <3>2 DEF AddCard
        <4>3. cards' \in [Accounts -> [Accounts -> [Keys -> Card]]]
          BY <2>1, <4>1, <4>2, SaveType
        <4>4. flow' \in [Flows -> Flow] /\ reqs' \subseteq Request
          BY <2>1, <4>2, AnswerType
        <4> QED
          BY <2>3, <4>2, <4>3, <4>4 DEF AddCard, TypeOK
      <3> QED
        BY <3>1, <3>2
    <2>4. CASE SetCardStatus(r)
      <3> DEFINE in == IF NeedsToken(r) THEN Fresh(a, b) ELSE r.snap.in
                 c  == [status |-> r.status, in |-> in,
                        out |-> IF r.token # 0 THEN r.token ELSE r.snap.out]
      <3>1. in \in Nat /\ r.snap.in \in Nat
        BY <2>1, <2>2 DEF Card
      <3>2. c \in Card
        BY <2>1, <3>1 DEF Card, Request
      <3>3. cards' \in [Accounts -> [Accounts -> [Keys -> Card]]]
        <4>1. Save(a, b, r.card, c)
          BY <2>4 DEF SetCardStatus
        <4> HIDE DEF c
        <4> QED
          BY <2>1, <3>2, <4>1, SaveType
      <3>4. minted' \in [Accounts -> [Accounts -> Nat]]
        BY <2>1, <2>4, MintType DEF SetCardStatus, TypeOK
      <3>5. offered' \in [Accounts -> [Accounts -> SUBSET Nat]]
        <4>1. offered' = IF r.status = "connecting"
                           THEN [offered EXCEPT ![a][b] = @ \cup {in}] ELSE offered
          BY <2>4 DEF SetCardStatus
        <4> HIDE DEF in
        <4> QED
          BY <2>1, <3>1, <4>1 DEF TypeOK
      <3>6. revoked' \in [Accounts -> [Accounts -> SUBSET Nat]]
        <4>1. revoked' = IF r.status = "confirmed"
                           THEN [revoked EXCEPT ![a][b] = @ \cup {r.snap.in}] ELSE revoked
          BY <2>4 DEF SetCardStatus
        <4> QED
          BY <2>1, <3>1, <4>1 DEF TypeOK
      <3>7. flow' \in [Flows -> Flow] /\ reqs' \subseteq Request
        BY <2>1, <2>4, AnswerType DEF SetCardStatus
      <3> QED
        BY <2>4, <3>3, <3>4, <3>5, <3>6, <3>7 DEF SetCardStatus, TypeOK
    <2>5. CASE SetOpenMessage(r)
      <3>1. CASE r.card = 0
        <4>1. Create(a, b, "pending", r.token) /\ AnswerOpen(r, "pending", Fresh(a, b))
          BY <2>5, <3>1 DEF SetOpenMessage
        <4>2. /\ cards' \in [Accounts -> [Accounts -> [Keys -> Card]]]
              /\ made' \in [Accounts -> [Accounts -> Keys]]
              /\ minted' \in [Accounts -> [Accounts -> Nat]]
          BY <2>1, <4>1, CreateType DEF Status
        <4>3. flow' \in [Flows -> Flow] /\ reqs' \subseteq Request
          BY <2>1, <2>2, <4>1, AnswerType
        <4> QED
          BY <2>5, <4>2, <4>3 DEF SetOpenMessage, TypeOK
      <3>2. CASE r.card # 0
        <4> DEFINE s == Opened(r.snap.status)
                   c == OpenedCard(r)
        <4>1. s \in Status \cup {"none"}
          BY <2>1 DEF Opened, Card, Status
        <4>2. c \in Card
          BY <2>1, <4>1 DEF Card, OpenedCard
        <4>3. Save(a, b, r.card, c) /\ AnswerOpen(r, s, r.snap.in) /\ UNCHANGED <<made, minted>>
          BY <2>5, <3>2 DEF SetOpenMessage
        <4>4. r.snap.in \in Nat
          BY <2>1 DEF Card
        <4> HIDE DEF c, s
        <4>5. cards' \in [Accounts -> [Accounts -> [Keys -> Card]]]
          BY <2>1, <4>2, <4>3, SaveType
        <4>6. flow' \in [Flows -> Flow] /\ reqs' \subseteq Request
          BY <2>1, <4>3, <4>4, AnswerType
        <4> QED
          BY <2>5, <4>3, <4>5, <4>6 DEF SetOpenMessage, TypeOK
      <3> QED
        BY <3>1, <3>2
    <2>6. CASE SetCloseMessage(r)
      <3> DEFINE row == cards[a][b][r.card]
      <3>1. row \in Card
        BY <2>1 DEF TypeOK
      <3>2. NoCard \in Card
        BY DEF NoCard, Card
      <3>3. [row EXCEPT !.status = "confirmed"] \in Card
        BY <3>1 DEF Card, Status
      <3>4. cards' \in [Accounts -> [Accounts -> [Keys -> Card]]]
        <4>1. CASE UNCHANGED cards
          BY <4>1 DEF TypeOK
        <4>2. CASE Save(a, b, r.card, NoCard)
          BY <2>1, <3>2, <4>2, SaveType
        <4>3. CASE Save(a, b, r.card, [row EXCEPT !.status = "confirmed"])
          BY <2>1, <3>3, <4>3, SaveType
        <4> QED
          BY <2>6, <4>1, <4>2, <4>3 DEF SetCloseMessage
      <3>5. flow' \in [Flows -> Flow] /\ reqs' \subseteq Request
        BY <2>1, <2>6, AnswerType DEF SetCloseMessage
      <3> QED
        BY <2>6, <3>4, <3>5 DEF SetCloseMessage, TypeOK
    <2>7. CASE DeleteCard(r)
      <3>1. NoCard \in Card /\ r.snap.in \in Nat
        BY <2>1 DEF NoCard, Card
      <3>2. cards' \in [Accounts -> [Accounts -> [Keys -> Card]]]
        BY <2>1, <2>7, <3>1, SaveType DEF DeleteCard
      <3>3. revoked' \in [Accounts -> [Accounts -> SUBSET Nat]]
        BY <2>1, <2>7, <3>1 DEF DeleteCard, TypeOK
      <3>4. flow' \in [Flows -> Flow] /\ reqs' \subseteq Request
        BY <2>1, <2>7, AnswerType DEF DeleteCard
      <3> QED
        BY <2>7, <3>2, <3>3, <3>4 DEF DeleteCard, TypeOK
    <2> QED
      BY <1>8, <2>3, <2>4, <2>5, <2>6, <2>7 DEF Commit
  <1>9. CASE UNCHANGED vars
    BY <1>9 DEF vars, TypeOK
  <1> QED
    BY <1>1, <1>2, <1>3, <1>4, <1>5, <1>6, <1>7, <1>8, <1>9 DEF Next, FlowStep

(***************************************************************************)
(* The state of the handshake always has its type: no interleaving of      *)
(* flows and handlers writes anything that is not a card or a request.     *)
(***************************************************************************)
THEOREM TypeCorrect == Spec => []TypeOK
  BY TypeInit, TypeStep, PTL DEF Spec

-----------------------------------------------------------------------------
(***************************************************************************)
(* Consent.  The offers on record only grow, so what a row or a request    *)
(* has testified to stays true; each action has to account for the row it  *)
(* writes and for the requests it sends.                                   *)
(***************************************************************************)
OffersGrow == \A a, b \in Accounts : offered[a][b] \subseteq offered'[a][b]

Rows == \A a, b \in Accounts : \A i \in Keys : Consent(a, b, cards[a][b][i].status)

Testimonies == \A r \in reqs : Testifies(r)

\* What was testified to stays true.
LEMMA ConsentStays ==
    ASSUME OffersGrow, NEW a \in Accounts, NEW b \in Accounts, NEW s, Consent(a, b, s)
    PROVE  Consent(a, b, s)'
  BY DEF OffersGrow, Consent

LEMMA TestimonyStays ==
    ASSUME OffersGrow, NEW r \in Request, Testifies(r)
    PROVE  Testifies(r)'
  <1>1. Node(r) \in Accounts /\ About(r) \in Accounts
    BY PartiesType
  <1> QED
    BY <1>1, ConsentStays DEF Testifies, OffersGrow, Node, About, ToContact

LEMMA RowsStay ==
    ASSUME OffersGrow, Rows, UNCHANGED cards
    PROVE  Rows'
  BY ConsentStays DEF Rows

\* A row that is saved with a consented status.
LEMMA RowsSaved ==
    ASSUME TypeOK, OffersGrow, Rows, NEW a \in Accounts, NEW b \in Accounts, NEW k \in Keys,
           NEW c \in Card, Save(a, b, k, c), Consent(a, b, c.status)'
    PROVE  Rows'
  <1> SUFFICES ASSUME NEW x \in Accounts, NEW y \in Accounts, NEW i \in Keys
               PROVE  Consent(x, y, cards[x][y][i].status)'
    BY DEF Rows
  <1>1. CASE x = a /\ y = b /\ i = k
    <2>1. cards'[x][y][i] = c
      BY <1>1 DEF Save, TypeOK
    <2> QED
      BY <1>1, <2>1
  <1>2. CASE ~(x = a /\ y = b /\ i = k)
    <2>1. cards'[x][y][i] = cards[x][y][i]
      BY <1>2 DEF Save, TypeOK
    <2>2. PICK s : s = cards[x][y][i].status
      OBVIOUS
    <2>3. Consent(x, y, s)'
      BY <2>2, ConsentStays DEF Rows
    <2> QED
      BY <2>1, <2>2, <2>3
  <1> QED
    BY <1>1, <1>2

\* A request is sent before anything was read for it, and asks for nothing
\* that needs the contact's consent unless it opens or links.
LEMMA SentTestifies ==
    ASSUME NEW f \in Flows, NEW i \in Keys, NEW t \in Nat
    PROVE  /\ Testifies(SetConnecting(f, i))'
           /\ Testifies(SetConfirmed(f, i))'
           /\ Testifies(RemoveCard(f, i))'
           /\ Testifies(Sent(f, "add", 0, "none", 0))'
           /\ Testifies(Sent(f, "close", 0, "none", 0))'
           /\ offered'[By[f]][To[f]] # {} => Testifies(Sent(f, "open", 0, "none", t))'
           /\ Consent(By[f], To[f], "connected")' => Testifies(SetConnected(f, i, t))'
  BY DEF SetConnecting, SetConfirmed, RemoveCard, SetConnected, Sent, Testifies, Consent, Node,
         About, ToContact, NoCard, Linked

LEMMA IssuedTestifies ==
    ASSUME NEW f \in Flows, NEW i \in Keys, NEW pc, NEW r \in Issued(f, pc, i)
    PROVE  Testifies(r)'
  BY SentTestifies DEF Issued

\* The requests left, and those sent along with an answer, all testify.
LEMMA RequestsStay ==
    ASSUME TypeOK, OffersGrow, Testimonies, \A r \in reqs' : r \in reqs \/ Testifies(r)'
    PROVE  Testimonies'
  BY TestimonyStays DEF TypeOK, Testimonies

LEMMA AnswersTestify ==
    ASSUME TypeOK, OffersGrow, Testimonies, NEW q \in reqs,
           NEW i \in Keys, NEW s, NEW t \in Nat,
           \/ AnswerAdd(q, i) \/ AnswerStatus(q) \/ AnswerClose(q) \/ AnswerRemove(q)
           \/ AnswerOpen(q, s, t) /\ (s = "connected" => Consent(By[q.flow], To[q.flow], s)')
    PROVE  Testimonies'
  <1> DEFINE f == q.flow
  <1>1. f \in Flows /\ flow[f].card \in Keys
    BY DEF TypeOK, Request, Flow
  <1>2. CASE reqs' \subseteq reqs
    BY <1>2, RequestsStay
  <1>3. Ignore(q) => reqs' \subseteq reqs
    BY DEF Ignore
  <1>4. ASSUME NEW pc, NEW j, NEW next, Proceed(q, pc, j, next)
        PROVE  reqs' \subseteq reqs \cup next
    BY <1>4 DEF Proceed
  <1>5. CASE AnswerAdd(q, i)
    <2>1. reqs' \subseteq reqs \cup {SetConnecting(f, i)}
      BY <1>3, <1>4, <1>5 DEF AnswerAdd
    <2>2. Testifies(SetConnecting(f, i))'
      BY <1>1, SentTestifies
    <2> QED
      BY <2>1, <2>2, RequestsStay
  <1>6. CASE AnswerStatus(q)
    BY <1>2, <1>3, <1>4, <1>6 DEF AnswerStatus
  <1>7. CASE AnswerOpen(q, s, t) /\ (s = "connected" => Consent(By[f], To[f], s)')
    <2>1. CASE s # "connected"
      BY <1>2, <1>3, <1>4, <1>7, <2>1 DEF AnswerOpen
    <2>2. CASE s = "connected"
      <3>1. PICK j \in Keys : j = flow[f].card
        BY <1>1
      <3>2. reqs' \subseteq reqs \cup {SetConnected(f, j, t)}
        BY <1>3, <1>4, <1>7, <2>2, <3>1 DEF AnswerOpen
      <3>3. Testifies(SetConnected(f, j, t))'
        BY <1>1, <1>7, <2>2, <3>1, SentTestifies
      <3> QED
        BY <3>2, <3>3, RequestsStay
    <2> QED
      BY <2>1, <2>2
  <1>8. CASE AnswerClose(q)
    BY <1>2, <1>3, <1>4, <1>8 DEF AnswerClose
  <1>9. CASE AnswerRemove(q)
    BY <1>2, <1>3, <1>4, <1>9 DEF AnswerRemove
  <1> QED
    BY <1>5, <1>6, <1>7, <1>8, <1>9

\* A new row, as long as it is not linked.
LEMMA CreateConsent ==
    ASSUME TypeOK, OffersGrow, Rows, NEW a \in Accounts, NEW b \in Accounts,
           NEW s \in Status \ Linked, NEW t \in Nat, Create(a, b, s, t)
    PROVE  Rows'
  <1>1. PICK in \in Nat : in = Fresh(a, b)
    BY MintType
  <1>2. PICK k \in Keys : k = made[a][b] + 1
    BY CreateType
  <1> DEFINE c == [status |-> s, in |-> in, out |-> t]
  <1>3. c \in Card /\ c.status = s
    BY DEF Card
  <1>4. Consent(a, b, s)'
    BY DEF Consent, Linked
  <1>5. Save(a, b, k, c)
    BY <1>1, <1>2 DEF Create
  <1> HIDE DEF c
  <1> QED
    BY <1>3, <1>4, <1>5, RowsSaved

-----------------------------------------------------------------------------
LEMMA ConsentInit == Init => ConsentInv
  BY DEF Init, ConsentInv, Consent, NoCard, Linked

LEMMA ConsentStep == TypeOK /\ ConsentInv /\ [Next]_vars => ConsentInv'
  <1> SUFFICES ASSUME TypeOK, Rows, Testimonies, [Next]_vars
               PROVE  Rows' /\ Testimonies'
    BY DEF ConsentInv, Rows, Testimonies
  <1>1. UNCHANGED offered => OffersGrow
    BY DEF OffersGrow
  <1>2. ASSUME UNCHANGED <<cards, offered>>, \A r \in reqs' : r \in reqs \/ Testifies(r)'
        PROVE  Rows' /\ Testimonies'
    BY <1>1, <1>2, RowsStay, RequestsStay
  <1>3. ASSUME NEW f \in Flows, NEW op \in Ops, NEW i \in Keys, Start(f, op, i)
        PROVE  Rows' /\ Testimonies'
    <2>1. PICK pc : reqs' = reqs \cup Issued(f, pc, i)
      BY <1>3 DEF Start
    <2>2. \A r \in reqs' : r \in reqs \/ Testifies(r)'
      BY <2>1, IssuedTestifies
    <2> QED
      BY <1>2, <1>3, <2>2 DEF Start
  <1>4. ASSUME NEW f \in Flows, GetOpenMessage(f)
        PROVE  Rows' /\ Testimonies'
    <2> DEFINE a == By[f]
               b == To[f]
    <2>1. a \in Accounts /\ b \in Accounts /\ flow[f].card \in Keys
      BY FlowAssumption DEF TypeOK, Flow
    <2>2. PICK c \in Card : c = cards[a][b][flow[f].card]
      BY <2>1 DEF TypeOK
    <2>3. Consent(a, b, c.status) /\ c.in \in Nat /\ UNCHANGED offered
      BY <1>4, <2>1, <2>2 DEF Rows, Card, GetOpenMessage
    <2>4. CASE c.status \in Linked
      <3>1. offered'[a][b] # {}
        BY <2>3, <2>4 DEF Consent
      <3>2. Testifies(Sent(f, "open", 0, "none", c.in))'
        BY <2>3, <3>1, SentTestifies, BoundAssumption DEF Keys
      <3>3. reqs' = reqs \cup {Sent(f, "open", 0, "none", c.in)}
        BY <1>4, <2>2, <2>4 DEF GetOpenMessage
      <3> QED
        BY <1>2, <1>4, <3>2, <3>3 DEF GetOpenMessage
    <2>5. CASE c.status \notin Linked
      BY <1>2, <1>4, <2>2, <2>5 DEF GetOpenMessage
    <2> QED
      BY <2>4, <2>5
  <1>5. ASSUME NEW f \in Flows, GetCloseMessage(f)
        PROVE  Rows' /\ Testimonies'
    <2>1. Testifies(Sent(f, "close", 0, "none", 0))'
      BY SentTestifies, BoundAssumption DEF Keys
    <2> QED
      BY <1>2, <1>5, <2>1 DEF GetCloseMessage
  <1>6. ASSUME NEW f \in Flows, Settle(f)
        PROVE  Rows' /\ Testimonies'
    <2>1. PICK i \in Keys : \E pc : reqs' = reqs \cup Issued(f, pc, i)
      BY <1>6 DEF Settle, TypeOK, Flow
    <2>2. \A r \in reqs' : r \in reqs \/ Testifies(r)'
      BY <2>1, IssuedTestifies
    <2> QED
      BY <1>2, <1>6, <2>2 DEF Settle
  <1>7. ASSUME NEW f \in Flows, GiveUp(f)
        PROVE  Rows' /\ Testimonies'
    BY <1>2, <1>7 DEF GiveUp
  <1>8. ASSUME NEW r \in reqs, Lose(r)
        PROVE  Rows' /\ Testimonies'
    BY <1>2, <1>8 DEF Lose, Fail
  <1>9. ASSUME NEW r \in reqs, Read(r)
        PROVE  Rows' /\ Testimonies'
    <2>1. UNCHANGED <<cards, offered>>
      BY <1>9 DEF Read
    <2>2. CASE Fail(r)
      BY <1>2, <2>1, <2>2 DEF Fail
    <2>3. ASSUME NEW i \in Found(r),
                 reqs' = (reqs \ {r}) \cup {ReadAs(r, i, cards[Node(r)][About(r)][i])}
          PROVE  Rows' /\ Testimonies'
      <3>1. r \in Request /\ Node(r) \in Accounts /\ About(r) \in Accounts
        BY PartiesType DEF TypeOK
      <3>2. i \in Keys
        BY <3>1, BoundAssumption DEF Found, Lookup, Live, Ids, Keys, Request
      <3>3. PICK c : c = cards[Node(r)][About(r)][i]
        OBVIOUS
      <3>4. Consent(Node(r), About(r), c.status) /\ Testifies(r)
        BY <3>1, <3>2, <3>3 DEF Rows, Testimonies
      <3>5. Testifies(ReadAs(r, i, c))
        BY <3>1, <3>4 DEF Testifies, ReadAs, Request, Node, About, ToContact
      <3>6. c \in Card
        BY <3>1, <3>2, <3>3 DEF TypeOK
      <3>7. ReadAs(r, i, c) \in Request
        BY <3>1, <3>2, <3>6 DEF ReadAs, Request
      <3>8. Testifies(ReadAs(r, i, c))'
        BY <1>1, <2>1, <3>5, <3>7, TestimonyStays
      <3> QED
        BY <1>2, <2>1, <2>3, <3>3, <3>8
    <2> QED
      BY <1>9, <2>2, <2>3 DEF Read
  <1>10. ASSUME NEW r \in reqs, Commit(r)
         PROVE  Rows' /\ Testimonies'
    <2> DEFINE a == Node(r)
               b == About(r)
    <2>1. /\ r \in Request /\ a \in Accounts /\ b \in Accounts /\ r.flow \in Flows
          /\ r.snap \in Card /\ r.token \in Nat /\ r.card \in Keys
      BY PartiesType DEF TypeOK, Request
    <2>2. Testifies(r)
      BY DEF Testimonies
    <2>3. \A t : t \notin Linked => Consent(a, b, t)'
      BY DEF Consent, Linked
    <2>4. CASE AddCard(r)
      <3>1. OffersGrow
        BY <1>1, <2>4 DEF AddCard
      <3>2. CASE r.card = 0
        <4>1. Create(a, b, "confirmed", 0) /\ AnswerAdd(r, made[a][b] + 1)
          BY <2>4, <3>2 DEF AddCard
        <4>2. made[a][b] + 1 \in Keys
          BY <2>1, <4>1, CreateType DEF Status
        <4>3. Rows'
          BY <2>1, <2>3, <3>1, <4>1, CreateConsent DEF Status, Linked
        <4>4. Testimonies'
          BY <3>1, <4>1, <4>2, AnswersTestify
        <4> QED
          BY <4>3, <4>4
      <3>3. CASE r.card # 0
        <4> DEFINE c == [r.snap EXCEPT !.status = IF @ = "pending" THEN "confirmed" ELSE @]
        <4>1. c \in Card /\ (c.status = "confirmed" \/ c.status = r.snap.status)
          BY <2>1 DEF Card, Status
        <4>2. Consent(a, b, c.status)'
          BY <2>1, <2>2, <2>3, <3>1, <4>1, ConsentStays DEF Testifies, Linked
        <4>3. Save(a, b, r.card, c) /\ AnswerAdd(r, r.card)
          BY <2>4, <3>3 DEF AddCard
        <4> HIDE DEF c
        <4>4. Rows'
          BY <2>1, <3>1, <4>1, <4>2, <4>3, RowsSaved
        <4>5. Testimonies'
          BY <2>1, <3>1, <4>3, AnswersTestify
        <4> QED
          BY <4>4, <4>5
      <3> QED
        BY <3>2, <3>3
    <2>5. CASE SetCardStatus(r)
      <3>1. PICK in : /\ Save(a, b, r.card, [status |-> r.status, in |-> in,
                                             out |-> IF r.token # 0 THEN r.token ELSE r.snap.out])
                      /\ offered' = IF r.status = "connecting"
                                      THEN [offered EXCEPT ![a][b] = @ \cup {in}] ELSE offered
                      /\ in = IF NeedsToken(r) THEN Fresh(a, b) ELSE r.snap.in
        BY <2>5 DEF SetCardStatus
      <3> DEFINE c == [status |-> r.status, in |-> in,
                       out |-> IF r.token # 0 THEN r.token ELSE r.snap.out]
      <3>2. OffersGrow
        BY <2>1, <3>1 DEF OffersGrow, TypeOK
      <3>3. Fresh(a, b) \in Nat
        BY <2>1, MintType
      <3>4. in \in Nat /\ c \in Card
        BY <2>1, <3>1, <3>3 DEF Card, Request
      <3>5. r.status = "connecting" => offered'[a][b] # {}
        BY <2>1, <3>1 DEF TypeOK
      <3>6. Consent(a, b, r.status)'
        <4>1. CASE r.status = "connecting"
          BY <3>5, <4>1 DEF Consent
        <4>2. CASE r.status # "connecting"
          <5>1. Consent(a, b, r.status)
            BY <2>2, <2>5, <4>2 DEF Testifies, SetCardStatus, Serving
          <5> QED
            BY <2>1, <3>2, <5>1, ConsentStays
        <4> QED
          BY <4>1, <4>2
      <3>7. c.status = r.status /\ Save(a, b, r.card, c)
        BY <3>1
      <3> HIDE DEF c
      <3>8. Rows'
        BY <2>1, <3>2, <3>4, <3>6, <3>7, RowsSaved
      <3>9. Testimonies'
        BY <2>1, <2>5, <3>2, AnswersTestify DEF SetCardStatus
      <3> QED
        BY <3>8, <3>9
    <2>6. CASE SetOpenMessage(r)
      <3>1. OffersGrow
        BY <1>1, <2>6 DEF SetOpenMessage
      <3>2. CASE r.card = 0
        <4>1. Create(a, b, "pending", r.token) /\ AnswerOpen(r, "pending", Fresh(a, b))
          BY <2>6, <3>2 DEF SetOpenMessage
        <4>2. Rows'
          BY <2>1, <2>3, <3>1, <4>1, CreateConsent DEF Status, Linked
        <4>3. Fresh(a, b) \in Nat
          BY <2>1, MintType
        <4>4. PICK t \in Nat : t = Fresh(a, b)
          BY <4>3
        <4>5. AnswerOpen(r, "pending", t)
          BY <4>1, <4>4
        <4>6. Testimonies'
          BY <2>1, <3>1, <4>5, AnswersTestify
        <4> QED
          BY <4>2, <4>6
      <3>3. CASE r.card # 0
        <4> DEFINE s == Opened(r.snap.status)
                   c == OpenedCard(r)
        <4>1. c \in Card /\ c.status = s /\ r.snap.in \in Nat
          BY <2>1 DEF Card, Opened, OpenedCard, Status
        <4>2. Save(a, b, r.card, c) /\ AnswerOpen(r, s, r.snap.in)
          BY <2>6, <3>3 DEF SetOpenMessage
        <4>3. Consent(a, b, s)
          BY <2>2, <2>6 DEF Testifies, SetOpenMessage, Serving, Opened, Consent, Linked
        <4>4. Consent(a, b, s)'
          BY <2>1, <3>1, <4>3, ConsentStays
        <4>5. s = "connected" => Consent(b, a, s)'
          BY <4>4 DEF Consent, Linked
        <4>6. a = To[r.flow] /\ b = By[r.flow]
          BY <2>6 DEF SetOpenMessage, Serving, Node, About, ToContact
        <4> HIDE DEF c, s
        <4>7. Rows'
          BY <2>1, <3>1, <4>1, <4>2, <4>4, RowsSaved
        <4>8. Testimonies'
          BY <2>1, <3>1, <4>1, <4>2, <4>5, <4>6, AnswersTestify
        <4> QED
          BY <4>7, <4>8
      <3> QED
        BY <3>2, <3>3
    <2>7. CASE SetCloseMessage(r)
      <3>1. OffersGrow
        BY <1>1, <2>7 DEF SetCloseMessage
      <3>2. PICK row \in Card : row = cards[a][b][r.card]
        BY <2>1 DEF TypeOK
      <3> DEFINE c == [row EXCEPT !.status = "confirmed"]
      <3>3. NoCard \in Card /\ NoCard.status \notin Linked
        BY DEF NoCard, Card, Linked
      <3>4. c \in Card /\ c.status \notin Linked
        BY <3>2 DEF Card, Status, Linked
      <3>5. UNCHANGED cards \/ Save(a, b, r.card, NoCard) \/ Save(a, b, r.card, c)
        BY <2>7, <3>2 DEF SetCloseMessage
      <3> HIDE DEF c
      <3>6. Rows'
        BY <2>1, <2>3, <3>1, <3>3, <3>4, <3>5, RowsStay, RowsSaved
      <3>7. Testimonies'
        BY <2>1, <2>7, <3>1, AnswersTestify DEF SetCloseMessage
      <3> QED
        BY <3>6, <3>7
    <2>8. CASE DeleteCard(r)
      <3>1. OffersGrow
        BY <1>1, <2>8 DEF DeleteCard
      <3>2. NoCard \in Card /\ NoCard.status \notin Linked
        BY DEF NoCard, Card, Linked
      <3>3. Rows'
        BY <2>1, <2>3, <2>8, <3>1, <3>2, RowsSaved DEF DeleteCard
      <3>4. Testimonies'
        BY <2>1, <2>8, <3>1, AnswersTestify DEF DeleteCard
      <3> QED
        BY <3>3, <3>4
    <2> QED
      BY <1>10, <2>4, <2>5, <2>6, <2>7, <2>8 DEF Commit
  <1>11. CASE UNCHANGED vars
    BY <1>2, <1>11 DEF vars
  <1> QED
    BY <1>3, <1>4, <1>5, <1>6, <1>7, <1>8, <1>9, <1>10, <1>11 DEF Next, FlowStep

(***************************************************************************)
(* A card is connected only if both users have asked to connect, however   *)
(* the handlers of a node overlap and whatever the network does: the       *)
(* agreement does not depend on the reads and writes of a handler being    *)
(* one step.                                                               *)
(***************************************************************************)
THEOREM ConsentCorrect == Spec => []MutualConsent
  <1>1. ConsentInv => MutualConsent
    BY DEF ConsentInv, Consent, MutualConsent, Linked, Ids, Keys
  <1> QED
    BY <1>1, TypeInit, TypeStep, ConsentInit, ConsentStep, PTL DEF Spec

(***************************************************************************)
(* Why: every row, every copy a handler works on and every request that is *)
(* out testify to who has asked.                                           *)
(***************************************************************************)
THEOREM TestimonyCorrect == Spec => []ConsentInv
  BY TypeInit, TypeStep, ConsentInit, ConsentStep, PTL DEF Spec

-----------------------------------------------------------------------------
(***************************************************************************)
(* Withdrawn tokens.  A token that is minted is greater than every token   *)
(* in a row, in a handler's copy or among the withdrawn ones, so that only *)
(* a copy that holds it can bring a withdrawn token back.                  *)
(***************************************************************************)
Counted ==
    /\ \A a, b \in Accounts : \A i \in Keys : cards[a][b][i].in <= minted[a][b]
    /\ \A a, b \in Accounts : \A t \in revoked[a][b] : t <= minted[a][b]
    /\ \A r \in reqs : r.snap.in <= minted[Node(r)][About(r)]

\* The row that request r may save as the i-th of a for b.
Derived(r, a, b, i, c) ==
    \/ /\ c.in = r.snap.in /\ UNCHANGED minted
       /\ c.status \in Linked =>
            r.snap.status \in Linked \/ (r.kind = "status" /\ r.status = "connected")
    \/ c.in = Fresh(a, b) /\ Mint(a, b)
    \/ c.in \in {0, cards[a][b][i].in} /\ c.status \notin Linked /\ UNCHANGED minted

RowDerived(r, a, b) ==
    \/ UNCHANGED <<cards, minted>>
    \/ \E i \in Keys, c \in Card : Save(a, b, i, c) /\ Derived(r, a, b, i, c)

\* What is sent was not read.
Unread(r) == \A q \in reqs' : (q \in reqs /\ q # r) \/ (~q.read /\ q.snap = NoCard)

\* Saving one row leaves the others as they are.
LEMMA SavedRow ==
    ASSUME TypeOK, NEW a \in Accounts, NEW b \in Accounts, NEW i \in Keys, NEW c, Save(a, b, i, c)
    PROVE  /\ cards'[a][b][i] = c
           /\ \A x, y \in Accounts : \A j \in Keys :
                 ~(x = a /\ y = b /\ j = i) => cards'[x][y][j] = cards[x][y][j]
           /\ \A x, y \in Accounts : ~(x = a /\ y = b) => cards'[x][y] = cards[x][y]
  BY DEF TypeOK, Save

LEMMA IssuedUnread ==
    ASSUME NEW f, NEW i, NEW pc
    PROVE  \A r \in Issued(f, pc, i) : ~r.read /\ r.snap = NoCard
  BY DEF Issued, SetConnecting, SetConfirmed, RemoveCard, Sent

LEMMA DerivedSaved ==
    ASSUME NEW r, NEW a, NEW b, NEW i \in Keys, NEW c \in Card,
           Save(a, b, i, c), Derived(r, a, b, i, c)
    PROVE  RowDerived(r, a, b)
  BY DEF RowDerived

LEMMA AnswerUnread ==
    ASSUME NEW r \in reqs, NEW i, NEW s, NEW t,
           \/ AnswerAdd(r, i) \/ AnswerStatus(r) \/ AnswerOpen(r, s, t)
           \/ AnswerClose(r) \/ AnswerRemove(r)
    PROVE  Unread(r)
  <1> DEFINE f == r.flow
  <1>1. ASSUME NEW pc, NEW j, NEW next, Proceed(r, pc, j, next),
               \A q \in next : ~q.read /\ q.snap = NoCard
        PROVE  Unread(r)
    BY <1>1 DEF Proceed, Unread
  <1>2. Ignore(r) => Unread(r)
    BY DEF Ignore, Unread
  <1>3. CASE AnswerAdd(r, i)
    <2>1. \A q \in {SetConnecting(f, i)} : ~q.read /\ q.snap = NoCard
      BY DEF SetConnecting, Sent
    <2> QED
      BY <1>1, <1>2, <1>3, <2>1 DEF AnswerAdd
  <1>4. CASE AnswerOpen(r, s, t)
    <2>1. \A q \in {SetConnected(f, flow[f].card, t)} : ~q.read /\ q.snap = NoCard
      BY DEF SetConnected, Sent
    <2> QED
      BY <1>1, <1>2, <1>4, <2>1 DEF AnswerOpen
  <1>5. CASE AnswerStatus(r) \/ AnswerClose(r) \/ AnswerRemove(r)
    BY <1>1, <1>2, <1>5 DEF AnswerStatus, AnswerClose, AnswerRemove
  <1> QED
    BY <1>3, <1>4, <1>5

\* A commit saves one row, made of the copy its handler read or with a new token.
LEMMA CommitDerives ==
    ASSUME TypeOK, NEW r \in reqs, Commit(r),
           NEW a \in Accounts, NEW b \in Accounts, a = Node(r), b = About(r)
    PROVE  /\ r.read /\ Unread(r)
           /\ RowDerived(r, a, b)
           /\ revoked' \in {revoked, [revoked EXCEPT ![a][b] = @ \cup {r.snap.in}]}
  <1>1. r.read
    BY DEF Commit, AddCard, SetCardStatus, SetOpenMessage, SetCloseMessage, DeleteCard, Serving
  <1>2. /\ r.card \in Keys /\ r.snap \in Card /\ r.token \in Nat
        /\ r.status \in Status \cup {"none"}
    BY DEF TypeOK, Request
  <1>3. Unread(r)
    <2> SUFFICES \E i, s, t : \/ AnswerAdd(r, i) \/ AnswerStatus(r) \/ AnswerOpen(r, s, t)
                              \/ AnswerClose(r) \/ AnswerRemove(r)
      BY AnswerUnread
    <2> QED
      BY DEF Commit, AddCard, SetCardStatus, SetOpenMessage, SetCloseMessage, DeleteCard
  <1>4. revoked' \in {revoked, [revoked EXCEPT ![a][b] = @ \cup {r.snap.in}]}
    BY DEF Commit, AddCard, SetCardStatus, SetOpenMessage, SetCloseMessage, DeleteCard
  <1>5. ASSUME NEW s \in Status \ Linked, NEW t \in Nat, Create(a, b, s, t)
        PROVE  RowDerived(r, a, b)
    <2>1. PICK in \in Nat : in = Fresh(a, b)
      BY MintType
    <2>2. PICK c \in Card : c = [status |-> s, in |-> in, out |-> t]
      BY DEF Card
    <2>3. PICK k \in Keys : k = made[a][b] + 1
      BY <1>5, CreateType
    <2>4. Save(a, b, k, c) /\ c.in = Fresh(a, b) /\ Mint(a, b)
      BY <1>5, <2>1, <2>2, <2>3 DEF Create
    <2>5. Derived(r, a, b, k, c)
      BY <2>4 DEF Derived
    <2> QED
      BY <2>4, <2>5, DerivedSaved
  <1>6. ASSUME AddCard(r) PROVE RowDerived(r, a, b)
    <2>1. CASE r.card = 0
      <3>1. Create(a, b, "confirmed", 0) /\ "confirmed" \in Status \ Linked /\ 0 \in Nat
        BY <1>6, <2>1 DEF AddCard, Status, Linked
      <3> QED
        BY <1>5, <3>1
    <2>2. CASE r.card # 0
      <3>1. PICK c \in Card :
                c = [r.snap EXCEPT !.status = IF @ = "pending" THEN "confirmed" ELSE @]
        BY <1>2 DEF Card, Status
      <3>2. Save(a, b, r.card, c) /\ UNCHANGED minted
        BY <1>6, <2>2, <3>1 DEF AddCard
      <3>3. c.in = r.snap.in /\ (c.status \in Linked => r.snap.status \in Linked)
        BY <1>2, <3>1 DEF Card, Linked
      <3>4. Derived(r, a, b, r.card, c)
        BY <3>2, <3>3 DEF Derived
      <3> QED
        BY <1>2, <3>2, <3>4, DerivedSaved
    <2> QED
      BY <2>1, <2>2
  <1>7. ASSUME SetCardStatus(r) PROVE RowDerived(r, a, b)
    <2>1. PICK in \in Nat : in = IF NeedsToken(r) THEN Fresh(a, b) ELSE r.snap.in
      BY <1>2, MintType DEF Card
    <2>2. PICK c \in Card : c = [status |-> r.status, in |-> in,
                                 out |-> IF r.token # 0 THEN r.token ELSE r.snap.out]
      BY <1>2, <2>1 DEF Card
    <2>3. Save(a, b, r.card, c) /\ r.kind = "status"
      BY <1>7, <2>1, <2>2 DEF SetCardStatus, Serving
    <2>4. Derived(r, a, b, r.card, c)
      <3>1. CASE NeedsToken(r)
        BY <1>7, <2>1, <2>2, <3>1 DEF SetCardStatus, Derived
      <3>2. CASE ~NeedsToken(r)
        <4>1. c.in = r.snap.in /\ c.status = r.status /\ UNCHANGED minted
          BY <1>7, <2>1, <2>2, <3>2 DEF SetCardStatus
        <4>2. r.status = "connecting" => r.snap.status \in Linked
          BY <3>2 DEF NeedsToken
        <4> QED
          BY <2>3, <4>1, <4>2 DEF Derived, Linked
      <3> QED
        BY <3>1, <3>2
    <2> QED
      BY <1>2, <2>3, <2>4, DerivedSaved
  <1>8. ASSUME SetOpenMessage(r) PROVE RowDerived(r, a, b)
    <2>1. CASE r.card = 0
      <3>1. Create(a, b, "pending", r.token) /\ "pending" \in Status \ Linked
        BY <1>8, <2>1 DEF SetOpenMessage, Status, Linked
      <3> QED
        BY <1>2, <1>5, <3>1
    <2>2. CASE r.card # 0
      <3>1. PICK c \in Card : c = OpenedCard(r)
        BY <1>2 DEF OpenedCard, Opened, Card, Status
      <3>2. Save(a, b, r.card, c) /\ UNCHANGED minted
        BY <1>8, <2>2, <3>1 DEF SetOpenMessage
      <3>3. c.in = r.snap.in /\ (c.status \in Linked => r.snap.status \in Linked)
        BY <1>2, <3>1 DEF OpenedCard, Opened, Card, Linked
      <3>4. Derived(r, a, b, r.card, c)
        BY <3>2, <3>3 DEF Derived
      <3> QED
        BY <1>2, <3>2, <3>4, DerivedSaved
    <2> QED
      BY <2>1, <2>2
  <1>9. NoCard \in Card /\ NoCard.in = 0 /\ NoCard.status \notin Linked
    BY DEF NoCard, Card, Linked
  <1>10. ASSUME SetCloseMessage(r) PROVE RowDerived(r, a, b)
    <2>1. PICK row \in Card : row = cards[a][b][r.card]
      BY <1>2 DEF TypeOK
    <2>2. PICK c \in Card : c = [row EXCEPT !.status = "confirmed"]
      BY DEF Card, Status
    <2>3. c.in = row.in /\ c.status \notin Linked
      BY <2>2 DEF Card, Linked
    <2>4. UNCHANGED minted /\ (UNCHANGED cards \/ Save(a, b, r.card, NoCard) \/ Save(a, b, r.card, c))
      BY <1>10, <2>1, <2>2 DEF SetCloseMessage
    <2>5. Derived(r, a, b, r.card, NoCard) /\ Derived(r, a, b, r.card, c)
      BY <1>9, <2>1, <2>3, <2>4 DEF Derived
    <2>6. UNCHANGED cards => RowDerived(r, a, b)
      BY <2>4 DEF RowDerived
    <2> QED
      BY <1>2, <1>9, <2>4, <2>5, <2>6, DerivedSaved
  <1>11. ASSUME DeleteCard(r) PROVE RowDerived(r, a, b)
    <2>1. Save(a, b, r.card, NoCard) /\ UNCHANGED minted
      BY <1>11 DEF DeleteCard
    <2>2. Derived(r, a, b, r.card, NoCard)
      BY <1>9, <2>1 DEF Derived
    <2> QED
      BY <1>2, <1>9, <2>1, <2>2, DerivedSaved
  <1>12. RowDerived(r, a, b)
    BY <1>6, <1>7, <1>8, <1>10, <1>11 DEF Commit
  <1> QED
    BY <1>1, <1>3, <1>4, <1>12

\* A step that is no commit leaves rows and withdrawn tokens alone.
LEMMA OtherSteps ==
    ASSUME TypeOK, [Next]_vars, \A r \in reqs : ~Commit(r)
    PROVE  /\ UNCHANGED <<cards, minted, revoked>>
           /\ \A q \in reqs' :
                \/ q \in reqs
                \/ q.snap = NoCard
                \/ \E i \in Keys : q.snap = cards[Node(q)][About(q)][i]
  <1> DEFINE Known(q) == \/ q \in reqs
                         \/ q.snap = NoCard
                         \/ \E i \in Keys : q.snap = cards[Node(q)][About(q)][i]
  <1>1. ASSUME NEW f \in Flows, NEW op \in Ops, NEW i \in Keys, Start(f, op, i)
        PROVE  UNCHANGED <<cards, minted, revoked>> /\ \A q \in reqs' : Known(q)
    BY <1>1, IssuedUnread DEF Start
  <1>2. ASSUME NEW f \in Flows, FlowStep(f)
        PROVE  UNCHANGED <<cards, minted, revoked>> /\ \A q \in reqs' : Known(q)
    <2>1. CASE GetOpenMessage(f)
      BY <2>1 DEF GetOpenMessage, Sent
    <2>2. CASE GetCloseMessage(f)
      BY <2>2 DEF GetCloseMessage, Sent
    <2>3. CASE Settle(f)
      BY <2>3, IssuedUnread DEF Settle
    <2> QED
      BY <1>2, <2>1, <2>2, <2>3 DEF FlowStep
  <1>3. ASSUME NEW f \in Flows, GiveUp(f)
        PROVE  UNCHANGED <<cards, minted, revoked>> /\ \A q \in reqs' : Known(q)
    BY <1>3 DEF GiveUp
  <1>4. ASSUME NEW r \in reqs, Lose(r)
        PROVE  UNCHANGED <<cards, minted, revoked>> /\ \A q \in reqs' : Known(q)
    BY <1>4 DEF Lose, Fail
  <1>5. ASSUME NEW r \in reqs, Read(r)
        PROVE  UNCHANGED <<cards, minted, revoked>> /\ \A q \in reqs' : Known(q)
    <2>1. UNCHANGED <<cards, minted, revoked>>
      BY <1>5 DEF Read
    <2>2. PICK i \in Found(r) :
              \/ Fail(r)
              \/ reqs' = (reqs \ {r}) \cup {ReadAs(r, i, cards[Node(r)][About(r)][i])}
      BY <1>5 DEF Read
    <2>3. r \in Request
      BY DEF TypeOK
    <2>4. i \in Keys
      BY <2>3, BoundAssumption DEF Found, Lookup, Live, Ids, Keys, Request
    <2>5. PICK q : q = ReadAs(r, i, cards[Node(r)][About(r)][i])
      OBVIOUS
    <2>6. q.snap = cards[Node(r)][About(r)][i] /\ Node(q) = Node(r) /\ About(q) = About(r)
      BY <2>3, <2>5 DEF ReadAs, Request, Node, About, ToContact
    <2> QED
      BY <2>1, <2>2, <2>4, <2>5, <2>6 DEF Fail
  <1>6. CASE UNCHANGED vars
    BY <1>6 DEF vars
  <1> QED
    BY <1>1, <1>2, <1>3, <1>4, <1>5, <1>6 DEF Next

LEMMA CountedInit == Init => Counted
  BY BoundAssumption DEF Init, Counted, NoCard, Keys

LEMMA CountedStep == TypeOK /\ Counted /\ [Next]_vars => Counted'
  <1> SUFFICES ASSUME TypeOK, Counted, [Next]_vars PROVE Counted'
    OBVIOUS
  <1>0. TypeOK'
    BY TypeStep
  <1>1. CASE \A r \in reqs : ~Commit(r)
    <2>1. /\ UNCHANGED <<cards, minted, revoked>>
          /\ \A q \in reqs' :
                \/ q \in reqs
                \/ q.snap = NoCard
                \/ \E i \in Keys : q.snap = cards[Node(q)][About(q)][i]
      BY <1>1, OtherSteps
    <2>2. \A q \in reqs' : Node(q) \in Accounts /\ About(q) \in Accounts
      BY <1>0, PartiesType DEF TypeOK
    <2>3. \A q \in reqs' : q.snap.in <= minted[Node(q)][About(q)]
      <3> TAKE q \in reqs'
      <3>1. PICK x \in Accounts, y \in Accounts : x = Node(q) /\ y = About(q)
        BY <2>2
      <3>2. minted[x][y] \in Nat
        BY DEF TypeOK
      <3>3. CASE q.snap = NoCard
        BY <3>1, <3>2, <3>3 DEF NoCard
      <3>4. CASE q.snap # NoCard
        BY <2>1, <3>1, <3>4 DEF Counted
      <3> QED
        BY <3>3, <3>4
    <2> QED
      BY <2>1, <2>3 DEF Counted, Node, About, ToContact
  <1>2. ASSUME NEW r \in reqs, Commit(r)
        PROVE  Counted'
    <2>1. PICK a \in Accounts, b \in Accounts : a = Node(r) /\ b = About(r)
      BY PartiesType DEF TypeOK
    <2>2. /\ Unread(r) /\ RowDerived(r, a, b)
          /\ revoked' \in {revoked, [revoked EXCEPT ![a][b] = @ \cup {r.snap.in}]}
      BY <1>2, <2>1, CommitDerives
    <2>3. \A x, y \in Accounts : minted[x][y] \in Nat /\ minted'[x][y] \in Nat
      BY <1>0 DEF TypeOK
    <2>4. ASSUME Mint(a, b)
          PROVE  \A x, y \in Accounts :
                     minted'[x][y] = IF x = a /\ y = b THEN minted[a][b] + 1 ELSE minted[x][y]
      <3>1. PICK t : t = minted[a][b] + 1
        OBVIOUS
      <3>2. minted' = [minted EXCEPT ![a][b] = t]
        BY <2>4, <3>1 DEF Mint, Fresh
      <3> QED
        BY <3>1, <3>2 DEF TypeOK
    <2>5. UNCHANGED minted \/ Mint(a, b)
      BY <2>2 DEF RowDerived, Derived
    <2>6. \A x, y \in Accounts : minted[x][y] <= minted'[x][y]
      BY <2>3, <2>4, <2>5
    <2>7. r.snap.in <= minted[a][b] /\ r.snap.in \in Nat
      BY <2>1 DEF Counted, TypeOK, Request, Card
    <2>8. \A x, y \in Accounts : \A t \in revoked'[x][y] : t <= minted'[x][y]
      <3>1. \A x, y \in Accounts : \A t \in revoked'[x][y] :
                t \in revoked[x][y] \/ (x = a /\ y = b /\ t = r.snap.in)
        BY <2>2 DEF TypeOK
      <3>2. \A x, y \in Accounts : \A t \in revoked[x][y] : t \in Nat /\ t <= minted[x][y]
        BY DEF TypeOK, Counted
      <3> QED
        BY <2>3, <2>6, <2>7, <3>1, <3>2
    <2>9. \A q \in reqs' : q.snap.in <= minted'[Node(q)][About(q)]
      <3> TAKE q \in reqs'
      <3>1. PICK x \in Accounts, y \in Accounts : x = Node(q) /\ y = About(q)
        BY <1>0, PartiesType DEF TypeOK
      <3>2. q.snap.in \in Nat
        BY <1>0 DEF TypeOK, Request, Card
      <3>3. q.snap.in <= minted[x][y]
        <4>1. CASE q \in reqs
          BY <3>1, <4>1 DEF Counted
        <4>2. CASE q.snap = NoCard
          BY <2>3, <4>2 DEF NoCard
        <4> QED
          BY <2>2, <4>1, <4>2 DEF Unread
      <3> QED
        BY <2>3, <2>6, <3>1, <3>2, <3>3
    <2>10. \A x, y \in Accounts : \A j \in Keys : cards'[x][y][j].in <= minted'[x][y]
      <3>1. \A x, y \in Accounts : \A j \in Keys :
                cards[x][y][j].in \in Nat /\ cards[x][y][j].in <= minted[x][y]
        <4>1. \A x, y \in Accounts : \A j \in Keys : cards[x][y][j] \in Card
          BY DEF TypeOK
        <4> QED
          BY <4>1 DEF Counted, Card
      <3>2. CASE UNCHANGED cards
        BY <2>3, <2>6, <3>1, <3>2
      <3>3. ASSUME NEW i \in Keys, NEW c \in Card, Save(a, b, i, c), Derived(r, a, b, i, c)
            PROVE  \A x, y \in Accounts : \A j \in Keys : cards'[x][y][j].in <= minted'[x][y]
        <4>1. /\ cards'[a][b][i] = c
              /\ \A x, y \in Accounts : \A j \in Keys :
                    ~(x = a /\ y = b /\ j = i) => cards'[x][y][j] = cards[x][y][j]
          BY <3>3, SavedRow
        <4>2. c.in <= minted'[a][b]
          <5>1. CASE c.in = Fresh(a, b) /\ Mint(a, b)
            BY <2>3, <2>4, <5>1 DEF Fresh
          <5>2. CASE c.in = r.snap.in
            BY <2>3, <2>6, <2>7, <5>2
          <5>3. CASE c.in \in {0, cards[a][b][i].in}
            BY <2>3, <2>6, <3>1, <5>3
          <5> QED
            BY <3>3, <5>1, <5>2, <5>3 DEF Derived
        <4> QED
          BY <2>3, <2>6, <3>1, <4>1, <4>2
      <3> QED
        BY <2>2, <3>2, <3>3 DEF RowDerived
    <2>11. \A q : Node(q)' = Node(q) /\ About(q)' = About(q)
      BY DEF Node, About, ToContact
    <2> QED
      BY <2>8, <2>9, <2>10, <2>11 DEF Counted
  <1> QED
    BY <1>1, <1>2

LEMMA ReadmitsStep == TypeOK /\ Counted /\ [Next]_vars => Readmits
  <1> SUFFICES ASSUME TypeOK, Counted, [Next]_vars,
                      NEW a \in Accounts, NEW b \in Accounts, NEW t \in revoked[a][b],
                      t \in Accepted(a, b)', t \notin Accepted(a, b)
               PROVE  \E r \in reqs \ reqs' : Reinstates(r, a, b, t)
    BY DEF Readmits
  <1>1. PICK j \in Ids : cards'[a][b][j].status \in Linked /\ cards'[a][b][j].in = t
    BY DEF Accepted
  <1>2. j \in Keys /\ ~(cards[a][b][j].status \in Linked /\ cards[a][b][j].in = t)
    BY BoundAssumption DEF Accepted, Ids, Keys
  <1>3. PICK r \in reqs : Commit(r)
    BY <1>1, <1>2, OtherSteps
  <1>4. PICK x \in Accounts, y \in Accounts : x = Node(r) /\ y = About(r)
    BY PartiesType DEF TypeOK
  <1>5. r.read /\ Unread(r) /\ RowDerived(r, x, y)
    BY <1>3, <1>4, CommitDerives
  <1>6. PICK i \in Keys, c \in Card : Save(x, y, i, c) /\ Derived(r, x, y, i, c)
    BY <1>1, <1>2, <1>5 DEF RowDerived
  <1>7. a = x /\ b = y /\ j = i /\ cards'[a][b][j] = c
    BY <1>1, <1>2, <1>6, SavedRow
  <1>8. c.status \in Linked /\ c.in = t
    BY <1>1, <1>7
  <1>9. c.in # Fresh(x, y)
    BY <1>7, <1>8 DEF Counted, TypeOK, Fresh
  <1>10. /\ r.snap.in = t
         /\ r.snap.status \in Linked \/ (r.kind = "status" /\ r.status = "connected")
    BY <1>6, <1>8, <1>9 DEF Derived
  <1>11. r \notin reqs'
    BY <1>5 DEF Unread
  <1> QED
    BY <1>4, <1>5, <1>7, <1>10, <1>11 DEF Reinstates

(***************************************************************************)
(* However requests are lost or late and handlers and calls overlap, a     *)
(* token that its user withdrew is accepted again only by a request of     *)
(* that user that says connected, or by a handler that saves a card it     *)
(* read while the token was accepted (api_setCardStatus.go:73-138).        *)
(***************************************************************************)
THEOREM WithdrawnLimited == Spec => WithdrawnStaysOut
  <1>1. TypeOK /\ Counted /\ [Next]_vars => [Readmits]_vars
    BY ReadmitsStep
  <1> QED
    BY <1>1, TypeInit, TypeStep, CountedInit, CountedStep, PTL DEF Spec, WithdrawnStaysOut
=============================================================================
