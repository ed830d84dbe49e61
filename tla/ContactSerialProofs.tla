------------------------- MODULE ContactSerialProofs -------------------------
(***************************************************************************)
(* What Contact promises while a node serves one request at a time, that   *)
(* is ~Overlap, for every set of accounts and calls, whatever the network  *)
(* loses or delays: tokens come only from who offered them, and every step *)
(* is a step of Relationship.  That an account has one card for a contact  *)
(* is what both rest on, under that condition.                             *)
(***************************************************************************)
EXTENDS ContactProofs

(***************************************************************************)
(* A handler is alone on its node between its read and its commit, so it   *)
(* works with the row as it is.                                            *)
(***************************************************************************)
Alone == \A q, r \in reqs : q.read /\ r.read /\ Node(q) = Node(r) => q = r

UpToDate(r) ==
    /\ r.snap = cards[Node(r)][About(r)][r.card]
    /\ r.card = 0 => Live(Node(r), About(r)) = {} /\ r.kind \notin {"status", "remove"}
    /\ r.card # 0 => r.card \in Live(Node(r), About(r))

Current == \A r \in reqs : r.read => UpToDate(r)

Asks(r) == r.kind = "status" => r.status \in {"connecting", "confirmed", "connected"}

NoRowZero == \A a, b \in Accounts : cards[a][b][0] = NoCard

Single == \A a, b \in Accounts : \A i, j \in Live(a, b) : i = j

SerialInv ==
    /\ Alone
    /\ Current
    /\ \A r \in reqs : Asks(r)
    /\ NoRowZero
    /\ Single

(***************************************************************************)
(* Provenance of tokens: once a card was asked to connect, its in-token is *)
(* one that was offered, and stays so while the row is there.              *)
(***************************************************************************)
Vouched(a, b, i) ==
    /\ i <= made[a][b]
    /\ cards[a][b][i].status # "none" => cards[a][b][i].in \in offered[a][b]

Provenance(a, b, i) ==
    /\ cards[a][b][i].status # "none" => i <= made[a][b]
    /\ cards[a][b][i].status \in Linked => cards[a][b][i].in \in offered[a][b]
    /\ cards[a][b][i].out # 0 => cards[a][b][i].out \in offered[b][a]

FlowVouched(f) ==
    flow[f].pc \in {"getOpen", "opening"} => Vouched(By[f], To[f], flow[f].card)

\* What is still out for a flow that waits to be connecting.
Pending(f, r) ==
    /\ flow[f].pc # "idle"
    /\ r.kind = "status" => flow[f].pc # "adding"
    /\ r.kind = "status" /\ flow[f].pc = "connecting" => r.status = "connecting" /\ r.card = flow[f].card

RequestVouched(r) ==
    /\ r.kind \in {"status", "open"} /\ r.token # 0 => r.token \in offered[About(r)][Node(r)]
    /\ r.kind = "status" /\ r.status = "connected" => Vouched(Node(r), About(r), r.card)
    /\ Pending(r.flow, r)

TokenInv ==
    /\ \A a, b \in Accounts : \A i \in Keys : Provenance(a, b, i)
    /\ \A f \in Flows : FlowVouched(f)
    /\ \A r \in reqs : RequestVouched(r)

-----------------------------------------------------------------------------
(***************************************************************************)
(* One card per contact.  What a step may do to the rows: a commit saves   *)
(* one row of the request's contact, that is there or is the first.        *)
(***************************************************************************)
RowSaved(a, b) ==
    \/ UNCHANGED cards
    \/ \E i \in Ids, c \in Card :
           /\ Save(a, b, i, c)
           /\ i \in Live(a, b) \/ Live(a, b) = {}

\* The requests after a commit: those there were, and newly sent ones.
Sends(r) == \A q \in reqs' : (q \in reqs /\ q # r) \/ (~q.read /\ Asks(q))

LEMMA LookupFacts ==
    ASSUME NEW a \in Accounts, NEW b \in Accounts, NEW i \in Lookup(a, b)
    PROVE  /\ i \in Keys
           /\ i = 0 => Live(a, b) = {}
           /\ i # 0 => i \in Live(a, b)
  BY BoundAssumption DEF Lookup, Live, Ids, Keys

LEMMA SingleStays ==
    ASSUME TypeOK, NoRowZero, Single, NEW a \in Accounts, NEW b \in Accounts, RowSaved(a, b)
    PROVE  NoRowZero' /\ Single'
  <1>1. CASE UNCHANGED cards
    BY <1>1 DEF NoRowZero, Single, Live
  <1>2. ASSUME NEW i \in Ids, NEW c \in Card, Save(a, b, i, c), i \in Live(a, b) \/ Live(a, b) = {}
        PROVE  NoRowZero' /\ Single'
    <2>1. i \in Keys /\ i # 0
      BY BoundAssumption DEF Ids, Keys
    <2>2. 0 \in Keys
      BY BoundAssumption DEF Keys
    <2>3. NoRowZero'
      BY <1>2, <2>1, <2>2, SavedRow DEF NoRowZero
    <2>4. \A x, y \in Accounts : ~(x = a /\ y = b) => Live(x, y)' = Live(x, y)
      BY <1>2, <2>1, SavedRow DEF Live
    <2>5. Live(a, b)' \subseteq Live(a, b) \cup {i}
      BY <1>2, <2>1, SavedRow, BoundAssumption DEF Live, Ids, Keys
    <2>6. \A j, k \in Live(a, b)' : j = k
      BY <1>2, <2>5 DEF Single
    <2>7. Single'
      BY <2>4, <2>6 DEF Single
    <2> QED
      BY <2>3, <2>7
  <1> QED
    BY <1>1, <1>2 DEF RowSaved

\* A handler that is alone still is, and has its row, when another node's
\* commits or requests are sent.
LEMMA AloneStays ==
    ASSUME TypeOK, Alone, Current, \A r \in reqs : Asks(r),
           NEW r \in reqs, r.read, RowSaved(Node(r), About(r)), Sends(r)
    PROVE  Alone' /\ Current' /\ \A q \in reqs' : Asks(q)
  <1>1. Alone' /\ \A q \in reqs' : Asks(q)
    BY DEF Alone, Sends, Node, About, ToContact
  <1>2. ASSUME NEW q \in reqs', q.read
        PROVE  UpToDate(q)'
    <2>1. q \in reqs /\ q # r
      BY <1>2 DEF Sends
    <2>2. PICK a \in Accounts, b \in Accounts, x \in Accounts, y \in Accounts :
              a = Node(r) /\ b = About(r) /\ x = Node(q) /\ y = About(q)
      BY <2>1, PartiesType DEF TypeOK
    <2>3. x # a
      BY <1>2, <2>1, <2>2 DEF Alone
    <2>4. cards'[x][y] = cards[x][y]
      <3>1. CASE UNCHANGED cards
        BY <3>1
      <3>2. ASSUME NEW i \in Ids, NEW c \in Card, Save(a, b, i, c)
            PROVE  cards'[x][y] = cards[x][y]
        <4>1. i \in Keys
          BY BoundAssumption DEF Ids, Keys
        <4> QED
          BY <2>3, <3>2, <4>1, SavedRow
      <3> QED
        BY <2>2, <3>1, <3>2 DEF RowSaved
    <2>5. Live(x, y)' = Live(x, y)
      BY <2>4 DEF Live
    <2>6. UpToDate(q)
      BY <1>2, <2>1 DEF Current
    <2> QED
      BY <2>2, <2>4, <2>5, <2>6 DEF UpToDate, Node, About, ToContact
  <1> QED
    BY <1>1, <1>2 DEF Current

-----------------------------------------------------------------------------
\* A request that is sent was not read, and asks for a status there is.
LEMMA SentAsks ==
    ASSUME NEW f, NEW i, NEW t
    PROVE  /\ \A r \in {SetConnecting(f, i), SetConfirmed(f, i), SetConnected(f, i, t),
                        RemoveCard(f, i), Sent(f, "add", 0, "none", 0),
                        Sent(f, "open", 0, "none", t), Sent(f, "close", 0, "none", 0)} :
                 ~r.read /\ Asks(r)
           /\ \A pc : \A r \in Issued(f, pc, i) : ~r.read /\ Asks(r)
  <1>1. \A r \in {SetConnecting(f, i), SetConfirmed(f, i), SetConnected(f, i, t),
                  RemoveCard(f, i), Sent(f, "add", 0, "none", 0),
                  Sent(f, "open", 0, "none", t), Sent(f, "close", 0, "none", 0)} :
              ~r.read /\ Asks(r)
    BY DEF SetConnecting, SetConfirmed, SetConnected, RemoveCard, Sent, Asks
  <1> QED
    BY <1>1 DEF Issued

LEMMA AnswerSends ==
    ASSUME NEW r \in reqs, NEW i, NEW s, NEW t, \A q \in reqs : Asks(q),
           \/ AnswerAdd(r, i) \/ AnswerStatus(r) \/ AnswerOpen(r, s, t)
           \/ AnswerClose(r) \/ AnswerRemove(r)
    PROVE  Sends(r)
  <1> DEFINE f == r.flow
  <1>1. ASSUME NEW pc, NEW j, NEW next, Proceed(r, pc, j, next),
               \A q \in next : ~q.read /\ Asks(q)
        PROVE  Sends(r)
    BY <1>1 DEF Proceed, Sends
  <1>2. Ignore(r) => Sends(r)
    BY DEF Ignore, Sends
  <1>3. CASE AnswerAdd(r, i)
    <2>1. \A q \in {SetConnecting(f, i)} : ~q.read /\ Asks(q)
      BY SentAsks
    <2> QED
      BY <1>1, <1>2, <1>3, <2>1 DEF AnswerAdd
  <1>4. CASE AnswerStatus(r)
    BY <1>1, <1>2, <1>4 DEF AnswerStatus
  <1>5. CASE AnswerOpen(r, s, t)
    <2>1. \A q \in {SetConnected(f, flow[f].card, t)} : ~q.read /\ Asks(q)
      BY SentAsks
    <2> QED
      BY <1>1, <1>2, <1>5, <2>1 DEF AnswerOpen
  <1>6. CASE AnswerClose(r)
    BY <1>1, <1>2, <1>6 DEF AnswerClose
  <1>7. CASE AnswerRemove(r)
    BY <1>1, <1>2, <1>7 DEF AnswerRemove
  <1> QED
    BY <1>3, <1>4, <1>5, <1>6, <1>7

\* What a commit does to the rows, given that its copy is the row.
LEMMA CommitSaves ==
    ASSUME TypeOK, SerialInv, NEW r \in reqs, Commit(r)
    PROVE  r.read /\ RowSaved(Node(r), About(r)) /\ Sends(r)
  <1>1. PICK a \in Accounts, b \in Accounts : a = Node(r) /\ b = About(r)
    BY PartiesType DEF TypeOK
  <1>2. r.read
    BY DEF Commit, AddCard, SetCardStatus, SetOpenMessage, SetCloseMessage, DeleteCard, Serving
  <1>3. UpToDate(r) /\ Asks(r)
    BY <1>2 DEF SerialInv, Current
  <1>4. /\ r.card \in Keys /\ r.snap \in Card /\ r.token \in Nat
        /\ r.kind \in {"add", "status", "open", "close", "remove"}
        /\ r.status \in Status \cup {"none"}
    BY DEF TypeOK, Request
  <1>5. Sends(r)
    <2> SUFFICES \E i, s, t : \/ AnswerAdd(r, i) \/ AnswerStatus(r) \/ AnswerOpen(r, s, t)
                              \/ AnswerClose(r) \/ AnswerRemove(r)
      BY AnswerSends DEF SerialInv
    <2> QED
      BY DEF Commit, AddCard, SetCardStatus, SetOpenMessage, SetCloseMessage, DeleteCard
  <1>6. ASSUME NEW s \in Status, NEW t \in Nat, Create(a, b, s, t), r.card = 0
        PROVE  RowSaved(a, b)
    <2>1. PICK k : k = made[a][b] + 1
      OBVIOUS
    <2>2. k \in Ids
      BY <1>6, <2>1, BoundAssumption DEF Create, TypeOK, Keys, Ids
    <2>3. PICK in \in Nat : in = Fresh(a, b)
      BY MintType
    <2>4. [status |-> s, in |-> in, out |-> t] \in Card
      BY DEF Card
    <2>5. Save(a, b, k, [status |-> s, in |-> in, out |-> t])
      BY <1>6, <2>1, <2>3 DEF Create
    <2>6. Live(a, b) = {}
      BY <1>1, <1>3, <1>6 DEF UpToDate
    <2> QED
      BY <2>2, <2>4, <2>5, <2>6 DEF RowSaved
  <1>7. ASSUME r.card # 0, NEW c \in Card, Save(a, b, r.card, c)
        PROVE  RowSaved(a, b)
    <2>1. r.card \in Ids /\ r.card \in Live(a, b)
      BY <1>1, <1>3, <1>7 DEF UpToDate, Live
    <2> QED
      BY <1>7, <2>1 DEF RowSaved
  <1>8. RowSaved(a, b)
    <2>1. CASE AddCard(r)
      <3>1. CASE r.card = 0
        BY <1>1, <1>6, <2>1, <3>1 DEF AddCard, Status
      <3>2. CASE r.card # 0
        <4> DEFINE c == [r.snap EXCEPT !.status = IF @ = "pending" THEN "confirmed" ELSE @]
        <4>1. c \in Card
          BY <1>4 DEF Card, Status
        <4>2. Save(a, b, r.card, c)
          BY <1>1, <2>1, <3>2 DEF AddCard
        <4> QED
          BY <1>7, <3>2, <4>1, <4>2
      <3> QED
        BY <3>1, <3>2
    <2>2. CASE SetCardStatus(r)
      <3>1. PICK in : in = IF NeedsToken(r) THEN Fresh(a, b) ELSE r.snap.in
        OBVIOUS
      <3> DEFINE c == [status |-> r.status, in |-> in,
                       out |-> IF r.token # 0 THEN r.token ELSE r.snap.out]
      <3>2. in \in Nat
        BY <1>4, <3>1, MintType DEF Card
      <3>3. c \in Card
        BY <1>4, <3>2 DEF Card
      <3>4. Save(a, b, r.card, c)
        BY <1>1, <2>2, <3>1 DEF SetCardStatus
      <3>5. r.card # 0
        BY <1>3, <2>2 DEF SetCardStatus, Serving, UpToDate
      <3> QED
        BY <1>7, <3>3, <3>4, <3>5
    <2>3. CASE SetOpenMessage(r)
      <3>1. CASE r.card = 0
        BY <1>1, <1>4, <1>6, <2>3, <3>1 DEF SetOpenMessage, Status
      <3>2. CASE r.card # 0
        <4>1. OpenedCard(r) \in Card
          BY <1>4 DEF OpenedCard, Opened, Card, Status
        <4>2. Save(a, b, r.card, OpenedCard(r))
          BY <1>1, <2>3, <3>2 DEF SetOpenMessage
        <4> QED
          BY <1>7, <3>2, <4>1, <4>2
      <3> QED
        BY <3>1, <3>2
    <2>4. CASE SetCloseMessage(r)
      <3>1. PICK row \in Card : row = cards[a][b][r.card]
        BY <1>4 DEF TypeOK
      <3> DEFINE c == [row EXCEPT !.status = "confirmed"]
      <3>2. NoCard \in Card /\ c \in Card
        BY <3>1 DEF NoCard, Card, Status
      <3>3. UNCHANGED cards \/ (r.card # 0 /\ (Save(a, b, r.card, NoCard) \/ Save(a, b, r.card, c)))
        BY <1>1, <2>4, <3>1 DEF SetCloseMessage
      <3> HIDE DEF c
      <3> QED
        BY <1>7, <3>2, <3>3 DEF RowSaved
    <2>5. CASE DeleteCard(r)
      <3>1. NoCard \in Card
        BY DEF NoCard, Card
      <3>2. r.card # 0 /\ Save(a, b, r.card, NoCard)
        BY <1>1, <1>3, <2>5 DEF DeleteCard, Serving, UpToDate
      <3> QED
        BY <1>7, <3>1, <3>2
    <2> QED
      BY <2>1, <2>2, <2>3, <2>4, <2>5 DEF Commit
  <1> QED
    BY <1>1, <1>2, <1>5, <1>8

LEMMA SerialInit == Init => SerialInv
  BY BoundAssumption
     DEF Init, SerialInv, Alone, Current, NoRowZero, Single, Live, NoCard, Keys, Ids

\* A step that saves no row and reads none.
LEMMA SerialStays ==
    ASSUME TypeOK, SerialInv, UNCHANGED cards, \A q \in reqs' : q \in reqs \/ (~q.read /\ Asks(q))
    PROVE  SerialInv'
  <1>1. Alone'
    BY DEF SerialInv, Alone, Node, About, ToContact
  <1>2. \A q \in reqs' : UpToDate(q) => UpToDate(q)'
    BY DEF UpToDate, Live, Node, About, ToContact
  <1>3. Current'
    BY <1>2 DEF SerialInv, Current
  <1>4. NoRowZero' /\ Single' /\ \A q \in reqs' : Asks(q)
    BY DEF SerialInv, NoRowZero, Single, Live
  <1> QED
    BY <1>1, <1>3, <1>4 DEF SerialInv, Asks

\* A handler that reads finds the row as it is, and no other handler there.
LEMMA ReadSerial ==
    ASSUME TypeOK, SerialInv, ~Overlap, NEW r \in reqs, Read(r)
    PROVE  SerialInv'
  <1>1. CASE Fail(r)
    BY <1>1, SerialStays DEF Fail, Read
  <1>2. ASSUME NEW i \in Found(r), NEW c, c = cards[Node(r)][About(r)][i],
               ~(r.kind \in {"status", "remove"} /\ c.status = "none"),
               reqs' = (reqs \ {r}) \cup {ReadAs(r, i, c)}
        PROVE  SerialInv'
    <2>1. PICK a \in Accounts, b \in Accounts : a = Node(r) /\ b = About(r)
      BY PartiesType DEF TypeOK
    <2>2. PICK q : q = ReadAs(r, i, c)
      OBVIOUS
    <2>3. /\ q.read /\ q.card = i /\ q.snap = c
          /\ q.kind = r.kind /\ q.status = r.status /\ q.flow = r.flow
      BY <2>2 DEF ReadAs, TypeOK, Request
    <2>4. Node(q) = a /\ About(q) = b
      BY <2>1, <2>3 DEF Node, About, ToContact
    <2>5. cards' = cards /\ \A p \in reqs : p.read => Node(p) # a
      BY <1>2, <2>1 DEF Read
    <2>6. /\ i = 0 => Live(a, b) = {} /\ q.kind \notin {"status", "remove"}
          /\ i # 0 => i \in Live(a, b)
      <3>1. CASE r.kind \in {"status", "remove"}
        <4>1. i = r.card /\ i \in Keys /\ c.status # "none"
          BY <1>2, <3>1 DEF Found, TypeOK, Request
        <4>2. i # 0
          BY <1>2, <2>1, <4>1 DEF SerialInv, NoRowZero, NoCard
        <4>3. i \in Live(a, b)
          BY <1>2, <2>1, <4>1, <4>2, BoundAssumption DEF Live, Ids, Keys
        <4> QED
          BY <4>2, <4>3
      <3>2. CASE r.kind \notin {"status", "remove"}
        <4>1. i \in Lookup(a, b)
          BY <1>2, <2>1, <3>2 DEF Found
        <4> QED
          BY <2>3, <3>2, <4>1, LookupFacts
      <3> QED
        BY <3>1, <3>2
    <2>7. UpToDate(q)
      BY <1>2, <2>1, <2>3, <2>4, <2>6 DEF UpToDate
    <2>8. Alone'
      <3>1. \A p \in reqs' : p = q \/ (p \in reqs /\ p # r)
        BY <1>2, <2>2
      <3>2. \A p, o \in reqs : p.read /\ o.read /\ Node(p) = Node(o) => p = o
        BY DEF SerialInv, Alone
      <3>3. \A p, o \in reqs' : p.read /\ o.read /\ Node(p) = Node(o) => p = o
        BY <2>4, <2>5, <3>1, <3>2
      <3> QED
        BY <3>3 DEF Alone, Node, About, ToContact
    <2>9. \A p \in reqs' : UpToDate(p) => UpToDate(p)'
      BY <2>5 DEF UpToDate, Live, Node, About, ToContact
    <2>10. Current'
      BY <1>2, <2>2, <2>7, <2>9 DEF SerialInv, Current
    <2>11. \A p \in reqs' : Asks(p)
      BY <1>2, <2>2, <2>3 DEF SerialInv, Asks
    <2>12. NoRowZero' /\ Single'
      BY <2>5 DEF SerialInv, NoRowZero, Single, Live
    <2> QED
      BY <2>8, <2>10, <2>11, <2>12 DEF SerialInv, Asks
  <1> QED
    BY <1>1, <1>2 DEF Read

\* What a step does that neither reads nor commits: it may send requests.
LEMMA FlowSends ==
    ASSUME TypeOK,
           \/ \E f \in Flows, op \in Ops, i \in Keys : Start(f, op, i)
           \/ \E f \in Flows : FlowStep(f) \/ GiveUp(f)
           \/ \E r \in reqs : Lose(r)
           \/ UNCHANGED vars
    PROVE  /\ UNCHANGED <<cards, made, minted, offered, revoked>>
           /\ \A q \in reqs' : q \in reqs \/ (~q.read /\ Asks(q))
  <1>1. ASSUME NEW f \in Flows, NEW op \in Ops, NEW i \in Keys, Start(f, op, i)
        PROVE  /\ UNCHANGED <<cards, made, minted, offered, revoked>>
               /\ \A q \in reqs' : q \in reqs \/ (~q.read /\ Asks(q))
    BY <1>1, SentAsks DEF Start
  <1>2. ASSUME NEW f \in Flows, GetOpenMessage(f)
        PROVE  /\ UNCHANGED <<cards, made, minted, offered, revoked>>
               /\ \A q \in reqs' : q \in reqs \/ (~q.read /\ Asks(q))
    <2>1. PICK t : t = cards[By[f]][To[f]][flow[f].card].in
      OBVIOUS
    <2>2. reqs' \subseteq reqs \cup {Sent(f, "open", 0, "none", t)}
      BY <1>2, <2>1 DEF GetOpenMessage
    <2> QED
      BY <1>2, <2>2, SentAsks DEF GetOpenMessage
  <1>3. ASSUME NEW f \in Flows, GetCloseMessage(f)
        PROVE  /\ UNCHANGED <<cards, made, minted, offered, revoked>>
               /\ \A q \in reqs' : q \in reqs \/ (~q.read /\ Asks(q))
    <2>1. reqs' \subseteq reqs \cup {Sent(f, "close", 0, "none", 0)}
      BY <1>3 DEF GetCloseMessage
    <2> QED
      BY <1>3, <2>1, SentAsks DEF GetCloseMessage
  <1>4. ASSUME NEW f \in Flows, Settle(f)
        PROVE  /\ UNCHANGED <<cards, made, minted, offered, revoked>>
               /\ \A q \in reqs' : q \in reqs \/ (~q.read /\ Asks(q))
    <2>1. PICK i, pc : reqs' = reqs \cup Issued(f, pc, i)
      BY <1>4 DEF Settle
    <2> QED
      BY <1>4, <2>1, SentAsks DEF Settle
  <1>5. ASSUME NEW f \in Flows, GiveUp(f)
        PROVE  /\ UNCHANGED <<cards, made, minted, offered, revoked>>
               /\ \A q \in reqs' : q \in reqs \/ (~q.read /\ Asks(q))
    BY <1>5 DEF GiveUp
  <1>6. ASSUME NEW r \in reqs, Lose(r)
        PROVE  /\ UNCHANGED <<cards, made, minted, offered, revoked>>
               /\ \A q \in reqs' : q \in reqs \/ (~q.read /\ Asks(q))
    BY <1>6 DEF Lose, Fail
  <1>7. CASE UNCHANGED vars
    BY <1>7 DEF vars
  <1> QED
    BY <1>1, <1>2, <1>3, <1>4, <1>5, <1>6, <1>7 DEF FlowStep

LEMMA SerialStep ==
    ASSUME ~Overlap, TypeOK, SerialInv, [Next]_vars
    PROVE  SerialInv'
  <1>1. ASSUME NEW r \in reqs, Commit(r)
        PROVE  SerialInv'
    <2>1. r.read /\ RowSaved(Node(r), About(r)) /\ Sends(r)
      BY <1>1, CommitSaves
    <2>2. Alone' /\ Current' /\ \A q \in reqs' : Asks(q)
      BY <2>1, AloneStays DEF SerialInv
    <2>3. NoRowZero' /\ Single'
      BY <2>1, SingleStays, PartiesType DEF SerialInv, TypeOK
    <2> QED
      BY <2>2, <2>3 DEF SerialInv, Asks
  <1>2. CASE \E r \in reqs : Read(r)
    BY <1>2, ReadSerial
  <1>3. CASE \/ \E f \in Flows, op \in Ops, i \in Keys : Start(f, op, i)
             \/ \E f \in Flows : FlowStep(f) \/ GiveUp(f)
             \/ \E r \in reqs : Lose(r)
             \/ UNCHANGED vars
    BY <1>3, FlowSends, SerialStays
  <1> QED
    BY <1>1, <1>2, <1>3 DEF Next

LEMMA SerialAlways == ASSUME ~Overlap PROVE Spec => [](TypeOK /\ SerialInv)
  BY TypeInit, TypeStep, SerialInit, SerialStep, PTL DEF Spec

-----------------------------------------------------------------------------
(***************************************************************************)
(* Contact implements Relationship.  Every commit saves the one row in     *)
(* which an account stands with another, and that is a step of the         *)
(* abstract relationship or leaves it as it is; no other step is seen.     *)
(***************************************************************************)
Stand == [a \in Accounts |-> [b \in Accounts |-> StandsOf(a, b)]]
Asked == [a \in Accounts |-> [b \in Accounts |-> offered[a][b] # {}]]

\* With one card the query finds it.
LEMMA StandsFacts ==
    ASSUME Single, NEW a \in Accounts, NEW b \in Accounts, NEW i \in Live(a, b)
    PROVE  StandsOf(a, b) = cards[a][b][i].status
  <1>1. Live(a, b) = {i}
    BY DEF Single
  <1>2. i \in Nat
    BY BoundAssumption DEF Live, Ids
  <1>3. Lookup(a, b) = {i}
    BY <1>1, <1>2 DEF Lookup
  <1>4. (CHOOSE j \in Lookup(a, b) : TRUE) = i
    BY <1>3
  <1> QED
    BY <1>4 DEF StandsOf

LEMMA StandsNowhere ==
    ASSUME NoRowZero, NEW a \in Accounts, NEW b \in Accounts, Live(a, b) = {}
    PROVE  StandsOf(a, b) = "none"
  <1>1. (CHOOSE j \in Lookup(a, b) : TRUE) = 0
    BY DEF Lookup
  <1>2. cards[a][b][0].status = "none"
    BY DEF NoRowZero, NoCard
  <1> QED
    BY <1>1, <1>2 DEF StandsOf

\* The same after the step.
LEMMA StandsAfter ==
    ASSUME NoRowZero', Single', NEW a \in Accounts, NEW b \in Accounts
    PROVE  /\ \A i \in Live(a, b)' : StandsOf(a, b)' = cards'[a][b][i].status
           /\ Live(a, b)' = {} => StandsOf(a, b)' = "none"
  <1>1. ASSUME NEW i \in Live(a, b)'
        PROVE  StandsOf(a, b)' = cards'[a][b][i].status
    <2>1. Live(a, b)' = {i}
      BY <1>1 DEF Single
    <2>2. i \in Nat
      BY <1>1, BoundAssumption DEF Live, Ids
    <2>3. Lookup(a, b)' = {i}
      BY <2>1, <2>2 DEF Lookup
    <2>4. (CHOOSE j \in Lookup(a, b)' : TRUE) = i
      BY <2>3
    <2> QED
      BY <2>4 DEF StandsOf
  <1>2. ASSUME Live(a, b)' = {}
        PROVE  StandsOf(a, b)' = "none"
    <2>1. (CHOOSE j \in Lookup(a, b)' : TRUE) = 0
      BY <1>2 DEF Lookup
    <2>2. cards'[a][b][0].status = "none"
      BY DEF NoRowZero, NoCard
    <2> QED
      BY <2>1, <2>2 DEF StandsOf
  <1> QED
    BY <1>1, <1>2

\* Saving a row moves where the account stands from the row's old status to
\* its new one.
LEMMA StandMoves ==
    ASSUME TypeOK, SerialInv, SerialInv', NEW a \in Accounts, NEW b \in Accounts,
           NEW i \in Ids, NEW c \in Card, Save(a, b, i, c), i \in Live(a, b) \/ Live(a, b) = {}
    PROVE  /\ Stand[a][b] = cards[a][b][i].status
           /\ Stand' = [Stand EXCEPT ![a][b] = c.status]
  <1>1. i \in Keys
    BY BoundAssumption DEF Ids, Keys
  <1>2. StandsOf(a, b) = cards[a][b][i].status
    <2>1. CASE i \in Live(a, b)
      BY <2>1, StandsFacts DEF SerialInv
    <2>2. CASE Live(a, b) = {}
      BY <2>2, StandsNowhere DEF SerialInv, Live
    <2> QED
      BY <2>1, <2>2
  <1>3. cards'[a][b][i] = c
    BY <1>1, SavedRow
  <1>4. StandsOf(a, b)' = c.status
    <2>1. CASE c.status # "none"
      <3>1. i \in Live(a, b)'
        BY <1>3, <2>1 DEF Live
      <3> QED
        BY <1>3, <3>1, StandsAfter DEF SerialInv
    <2>2. CASE c.status = "none"
      <3>1. \A j \in Ids : j # i => cards'[a][b][j] = cards[a][b][j]
        BY <1>1, SavedRow, BoundAssumption DEF Ids, Keys
      <3>2. \A j \in Ids : j # i => j \notin Live(a, b)
        BY DEF SerialInv, Single
      <3>3. Live(a, b)' = {}
        BY <1>3, <2>2, <3>1, <3>2 DEF Live
      <3> QED
        BY <2>2, <3>3, StandsAfter DEF SerialInv
    <2> QED
      BY <2>1, <2>2
  <1>5. ASSUME NEW x \in Accounts, NEW y \in Accounts, ~(x = a /\ y = b)
        PROVE  StandsOf(x, y)' = StandsOf(x, y)
    <2>1. cards'[x][y] = cards[x][y]
      BY <1>1, <1>5, SavedRow
    <2>2. Lookup(x, y)' = Lookup(x, y)
      BY <2>1 DEF Lookup, Live
    <2> QED
      BY <2>1, <2>2 DEF StandsOf
  <1>6. PICK s : s = c.status
    OBVIOUS
  <1>7. \A x, y \in Accounts : StandsOf(x, y)' = IF x = a /\ y = b THEN s ELSE StandsOf(x, y)
    BY <1>4, <1>5, <1>6
  <1>8. Stand' = [Stand EXCEPT ![a][b] = s]
    BY <1>7 DEF Stand
  <1> QED
    BY <1>2, <1>6, <1>8 DEF Stand

\* The steps of the relationship, said of Stand and Asked.
LEMMA StutterSeen ==
    ASSUME UNCHANGED <<Stand, Asked>>
    PROVE  UNCHANGED Abstract!vars
  BY DEF Stand, Asked, Abstract!vars

LEMMA AddSeen ==
    ASSUME NEW a \in Accounts, NEW b \in Accounts, Stand[a][b] \in {"none", "pending"},
           UNCHANGED Asked, Stand' = [Stand EXCEPT ![a][b] = "confirmed"]
    PROVE  Abstract!Next
  BY DEF Stand, Asked, Abstract!Next, Abstract!Add, Abstract!Stands

LEMMA AskSeen ==
    ASSUME NEW a \in Accounts, NEW b \in Accounts, Stand[a][b] # "none",
           Asked' = [Asked EXCEPT ![a][b] = TRUE],
           Stand' = [Stand EXCEPT ![a][b] = "connecting"]
    PROVE  Abstract!Next
  BY DEF Stand, Asked, Abstract!Next, Abstract!Ask, Abstract!Stands

LEMMA LinkSeen ==
    ASSUME NEW a \in Accounts, NEW b \in Accounts, Stand[a][b] # "none", Asked[a][b], Asked[b][a],
           UNCHANGED Asked, Stand' = [Stand EXCEPT ![a][b] = "connected"]
    PROVE  Abstract!Next
  BY DEF Stand, Asked, Abstract!Next, Abstract!Link, Abstract!Stands

LEMMA WithdrawSeen ==
    ASSUME NEW a \in Accounts, NEW b \in Accounts, Stand[a][b] # "none",
           UNCHANGED Asked, Stand' = [Stand EXCEPT ![a][b] = "confirmed"]
    PROVE  Abstract!Next
  BY DEF Stand, Asked, Abstract!Next, Abstract!Withdraw, Abstract!Stands

LEMMA ForgetSeen ==
    ASSUME NEW a \in Accounts, NEW b \in Accounts,
           UNCHANGED Asked, Stand' = [Stand EXCEPT ![a][b] = "none"]
    PROVE  Abstract!Next
  BY DEF Stand, Asked, Abstract!Next, Abstract!Forget, Abstract!Stands

LEMMA OpensSeen ==
    ASSUME NEW a \in Accounts, NEW b \in Accounts, Asked[b][a], UNCHANGED Asked,
           NEW s, <<Stand[a][b], s>> \in Abstract!TakesUp, Stand' = [Stand EXCEPT ![a][b] = s]
    PROVE  Abstract!Next
  <1>1. s \in Abstract!Standing
    BY DEF Abstract!TakesUp, Abstract!Standing
  <1>2. Abstract!Opens(b, a)
    BY <1>1 DEF Stand, Asked, Abstract!Opens, Abstract!Stands
  <1> QED
    BY <1>2 DEF Abstract!Next

LEMMA OffersSeen ==
    ASSUME UNCHANGED offered
    PROVE  UNCHANGED Asked
  BY DEF Asked

LEMMA NothingSeen ==
    ASSUME UNCHANGED <<cards, offered>>
    PROVE  UNCHANGED Abstract!vars
  <1>1. Stand' = Stand
    BY DEF Stand, StandsOf, Lookup, Live
  <1> QED
    BY <1>1, OffersSeen, StutterSeen

LEMMA CommitImplements ==
    ASSUME TypeOK, SerialInv, SerialInv', ConsentInv, NEW r \in reqs, Commit(r)
    PROVE  Abstract!Next \/ UNCHANGED Abstract!vars
  <1>1. PICK a \in Accounts, b \in Accounts : a = Node(r) /\ b = About(r)
    BY PartiesType DEF TypeOK
  <1>2. r.read
    BY DEF Commit, AddCard, SetCardStatus, SetOpenMessage, SetCloseMessage, DeleteCard, Serving
  <1>3. UpToDate(r) /\ Asks(r) /\ Testifies(r)
    BY <1>2 DEF SerialInv, Current, ConsentInv
  <1>4. r.card \in Keys /\ r.snap \in Card /\ r.token \in Nat
    BY DEF TypeOK, Request
  <1>5. ASSUME r.card # 0, NEW c \in Card, Save(a, b, r.card, c)
        PROVE  /\ Stand[a][b] = r.snap.status
               /\ Stand[a][b] # "none"
               /\ Stand' = [Stand EXCEPT ![a][b] = c.status]
               /\ c.status = r.snap.status => Stand' = Stand
    <2>1. r.card \in Ids /\ r.card \in Live(a, b) /\ r.snap = cards[a][b][r.card]
      BY <1>1, <1>3, <1>5 DEF UpToDate, Live
    <2>2. Stand[a][b] = r.snap.status /\ Stand' = [Stand EXCEPT ![a][b] = c.status]
      BY <1>5, <2>1, StandMoves
    <2>3. r.snap.status # "none"
      BY <2>1 DEF Live
    <2>4. /\ Stand = [x \in Accounts |-> Stand[x]]
          /\ Stand[a] = [y \in Accounts |-> Stand[a][y]]
      BY DEF Stand
    <2>5. c.status = r.snap.status => Stand' = Stand
      BY <2>2, <2>4
    <2> QED
      BY <2>2, <2>3, <2>5
  <1>6. ASSUME NEW s \in Status, NEW t \in Nat, Create(a, b, s, t), r.card = 0
        PROVE  Stand[a][b] = "none" /\ Stand' = [Stand EXCEPT ![a][b] = s]
    <2>1. PICK k : k = made[a][b] + 1
      OBVIOUS
    <2>2. k \in Ids
      BY <1>6, <2>1, BoundAssumption DEF Create, TypeOK, Keys, Ids
    <2>3. PICK in \in Nat : in = Fresh(a, b)
      BY MintType
    <2> DEFINE c == [status |-> s, in |-> in, out |-> t]
    <2>4. c \in Card /\ c.status = s
      BY DEF Card
    <2>5. Save(a, b, k, c)
      BY <1>6, <2>1, <2>3 DEF Create
    <2>6. Live(a, b) = {}
      BY <1>1, <1>3, <1>6 DEF UpToDate
    <2>7. cards[a][b][k].status = "none"
      BY <2>2, <2>6 DEF Live
    <2> HIDE DEF c
    <2> QED
      BY <2>2, <2>4, <2>5, <2>6, <2>7, StandMoves
  <1>7. CASE AddCard(r)
    <2>1. UNCHANGED Asked
      BY <1>7, OffersSeen DEF AddCard
    <2>2. CASE r.card = 0
      <3>1. Create(a, b, "confirmed", 0)
        BY <1>1, <1>7, <2>2 DEF AddCard
      <3>2. Stand[a][b] = "none" /\ Stand' = [Stand EXCEPT ![a][b] = "confirmed"]
        BY <1>6, <2>2, <3>1 DEF Status
      <3> QED
        BY <2>1, <3>2, AddSeen
    <2>3. CASE r.card # 0
      <3> DEFINE c == [r.snap EXCEPT !.status = IF @ = "pending" THEN "confirmed" ELSE @]
      <3>1. c \in Card /\ c.status = IF r.snap.status = "pending" THEN "confirmed" ELSE r.snap.status
        BY <1>4 DEF Card, Status
      <3>2. Save(a, b, r.card, c)
        BY <1>1, <1>7, <2>3 DEF AddCard
      <3> HIDE DEF c
      <3>3. CASE r.snap.status = "pending"
        <4>1. Stand[a][b] = "pending" /\ Stand' = [Stand EXCEPT ![a][b] = "confirmed"]
          BY <1>5, <2>3, <3>1, <3>2, <3>3
        <4> QED
          BY <2>1, <4>1, AddSeen
      <3>4. CASE r.snap.status # "pending"
        <4>1. Stand' = Stand
          BY <1>5, <2>3, <3>1, <3>2, <3>4
        <4> QED
          BY <2>1, <4>1, StutterSeen
      <3> QED
        BY <3>3, <3>4
    <2> QED
      BY <2>2, <2>3
  <1>8. CASE SetCardStatus(r)
    <2>1. PICK in : in = IF NeedsToken(r) THEN Fresh(a, b) ELSE r.snap.in
      OBVIOUS
    <2> DEFINE c == [status |-> r.status, in |-> in,
                     out |-> IF r.token # 0 THEN r.token ELSE r.snap.out]
    <2>2. in \in Nat
      BY <1>4, <2>1, MintType DEF Card
    <2>3. /\ r.card # 0
          /\ r.kind = "status" /\ r.status \in {"connecting", "confirmed", "connected"}
      BY <1>3, <1>8 DEF SetCardStatus, Serving, UpToDate, Asks
    <2>4. c \in Card /\ c.status = r.status
      BY <1>4, <2>2, <2>3 DEF Card, Status
    <2>5. Save(a, b, r.card, c)
      BY <1>1, <1>8, <2>1 DEF SetCardStatus
    <2> HIDE DEF c
    <2>6. Stand[a][b] # "none" /\ Stand' = [Stand EXCEPT ![a][b] = r.status]
      BY <1>5, <2>3, <2>4, <2>5
    <2>7. CASE r.status = "connecting"
      <3>1. offered' = [offered EXCEPT ![a][b] = @ \cup {in}]
        BY <1>1, <1>8, <2>1, <2>7 DEF SetCardStatus
      <3>2. \A x, y \in Accounts :
                offered'[x][y] = IF x = a /\ y = b THEN offered[x][y] \cup {in} ELSE offered[x][y]
        BY <3>1 DEF TypeOK
      <3>3. \A x, y \in Accounts : (offered'[x][y] # {}) <=> ((x = a /\ y = b) \/ offered[x][y] # {})
        BY <3>2
      <3>4. \A x, y \in Accounts : Asked'[x][y] = IF x = a /\ y = b THEN TRUE ELSE Asked[x][y]
        BY <3>3 DEF Asked
      <3>5. /\ Asked = [x \in Accounts |-> [y \in Accounts |-> Asked[x][y]]]
            /\ Asked' = [x \in Accounts |-> [y \in Accounts |-> Asked'[x][y]]]
        BY DEF Asked
      <3>6. PICK row : row = [Asked[a] EXCEPT ![b] = TRUE]
        OBVIOUS
      <3>7. row = [y \in Accounts |-> Asked'[a][y]]
        BY <3>4, <3>5, <3>6
      <3>8. \A x \in Accounts : Asked'[x] = IF x = a THEN row ELSE Asked[x]
        <4> SUFFICES ASSUME NEW x \in Accounts
                     PROVE  Asked'[x] = IF x = a THEN row ELSE Asked[x]
          OBVIOUS
        <4>1. /\ Asked'[x] = [y \in Accounts |-> Asked'[x][y]]
              /\ Asked[x] = [y \in Accounts |-> Asked[x][y]]
          BY DEF Asked
        <4>2. CASE x = a
          BY <3>7, <4>1, <4>2
        <4>3. CASE x # a
          BY <3>4, <4>1, <4>3
        <4> QED
          BY <4>2, <4>3
      <3>9. Asked' = [Asked EXCEPT ![a] = row]
        BY <3>5, <3>8
      <3>10. Asked' = [Asked EXCEPT ![a][b] = TRUE]
        BY <3>6, <3>9
      <3> QED
        BY <2>6, <2>7, <3>10, AskSeen
    <2>8. CASE r.status = "confirmed"
      <3>1. UNCHANGED Asked
        BY <1>8, <2>8, OffersSeen DEF SetCardStatus
      <3> QED
        BY <2>6, <2>8, <3>1, WithdrawSeen
    <2>9. CASE r.status = "connected"
      <3>1. UNCHANGED Asked
        BY <1>8, <2>9, OffersSeen DEF SetCardStatus
      <3>2. Consent(a, b, "connected")
        BY <1>1, <1>3, <2>3, <2>9 DEF Testifies
      <3>3. Asked[a][b] /\ Asked[b][a]
        BY <3>2 DEF Consent, Asked, Linked
      <3> QED
        BY <2>6, <2>9, <3>1, <3>3, LinkSeen
    <2> QED
      BY <2>3, <2>7, <2>8, <2>9
  <1>9. CASE SetOpenMessage(r)
    <2>1. UNCHANGED Asked
      BY <1>9, OffersSeen DEF SetOpenMessage
    <2>2. Asked[b][a]
      BY <1>1, <1>3, <1>9 DEF SetOpenMessage, Serving, Testifies, Asked
    <2>3. CASE r.card = 0
      <3>1. Create(a, b, "pending", r.token)
        BY <1>1, <1>9, <2>3 DEF SetOpenMessage
      <3>2. Stand[a][b] = "none" /\ Stand' = [Stand EXCEPT ![a][b] = "pending"]
        BY <1>4, <1>6, <2>3, <3>1 DEF Status
      <3>3. <<Stand[a][b], "pending">> \in Abstract!TakesUp
        BY <3>2 DEF Abstract!TakesUp
      <3> QED
        BY <2>1, <2>2, <3>2, <3>3, OpensSeen
    <2>4. CASE r.card # 0
      <3> DEFINE c == OpenedCard(r)
                 s == Opened(r.snap.status)
      <3>1. c \in Card /\ c.status = s
        BY <1>4 DEF Card, Opened, OpenedCard, Status
      <3>2. Save(a, b, r.card, c)
        BY <1>1, <1>9, <2>4 DEF SetOpenMessage
      <3>3. s = r.snap.status \/ <<r.snap.status, s>> \in Abstract!TakesUp
        BY DEF Opened, Abstract!TakesUp
      <3> HIDE DEF c, s
      <3>4. /\ Stand[a][b] = r.snap.status
            /\ Stand' = [Stand EXCEPT ![a][b] = s]
            /\ s = r.snap.status => Stand' = Stand
        BY <1>5, <2>4, <3>1, <3>2
      <3>5. CASE s = r.snap.status
        BY <2>1, <3>4, <3>5, StutterSeen
      <3>6. CASE <<r.snap.status, s>> \in Abstract!TakesUp
        BY <2>1, <2>2, <3>4, <3>6, OpensSeen
      <3> QED
        BY <3>3, <3>5, <3>6
    <2> QED
      BY <2>3, <2>4
  <1>10. CASE SetCloseMessage(r)
    <2>1. UNCHANGED offered /\ UNCHANGED Asked
      BY <1>10, OffersSeen DEF SetCloseMessage
    <2>2. CASE UNCHANGED cards
      BY <2>1, <2>2, NothingSeen
    <2>3. CASE r.card # 0 /\ Save(a, b, r.card, NoCard)
      <3>1. NoCard \in Card /\ NoCard.status = "none"
        BY DEF NoCard, Card
      <3>2. Stand' = [Stand EXCEPT ![a][b] = "none"]
        BY <1>5, <2>3, <3>1
      <3> QED
        BY <2>1, <3>2, ForgetSeen
    <2>4. CASE r.card # 0 /\ Save(a, b, r.card, [cards[a][b][r.card] EXCEPT !.status = "confirmed"])
      <3> DEFINE c == [cards[a][b][r.card] EXCEPT !.status = "confirmed"]
      <3>1. cards[a][b][r.card] \in Card
        BY <1>4 DEF TypeOK
      <3>2. c \in Card /\ c.status = "confirmed"
        BY <3>1 DEF Card, Status
      <3> HIDE DEF c
      <3>3. Save(a, b, r.card, c)
        BY <2>4 DEF c
      <3>4. Stand[a][b] # "none" /\ Stand' = [Stand EXCEPT ![a][b] = "confirmed"]
        BY <1>5, <2>4, <3>2, <3>3
      <3> QED
        BY <2>1, <3>4, WithdrawSeen
    <2> QED
      BY <1>1, <1>10, <2>2, <2>3, <2>4 DEF SetCloseMessage
  <1>11. CASE DeleteCard(r)
    <2>1. UNCHANGED Asked
      BY <1>11, OffersSeen DEF DeleteCard
    <2>2. NoCard \in Card /\ NoCard.status = "none"
      BY DEF NoCard, Card
    <2>3. r.card # 0 /\ Save(a, b, r.card, NoCard)
      BY <1>1, <1>3, <1>11 DEF DeleteCard, Serving, UpToDate
    <2>4. Stand' = [Stand EXCEPT ![a][b] = "none"]
      BY <1>5, <2>2, <2>3
    <2> QED
      BY <2>1, <2>4, ForgetSeen
  <1> QED
    BY <1>7, <1>8, <1>9, <1>10, <1>11 DEF Commit

(***************************************************************************)
(* While a node serves one request at a time, the handshake with all its   *)
(* tokens, requests, losses and late answers is a relationship in which    *)
(* only the own user moves an account towards a link, and the contact can  *)
(* announce itself, take up an offer or step back, and nothing else.       *)
(***************************************************************************)
THEOREM KeepsRelationship == ASSUME ~Overlap PROVE Spec => ImplementsRelationship
  <1>1. Init => Abstract!Init
    <2> SUFFICES ASSUME Init PROVE Abstract!Init
      OBVIOUS
    <2>1. \A a, b \in Accounts : Live(a, b) = {} /\ offered[a][b] = {}
      BY BoundAssumption DEF Init, Live, NoCard, Ids, Keys
    <2>2. NoRowZero
      BY SerialInit DEF SerialInv
    <2>3. \A a, b \in Accounts : StandsOf(a, b) = "none" /\ ~(offered[a][b] # {})
      BY <2>1, <2>2, StandsNowhere
    <2> QED
      BY <2>3 DEF Abstract!Init
  <1>2. ASSUME TypeOK, SerialInv, SerialInv', ConsentInv, [Next]_vars
        PROVE  [Abstract!Next]_(Abstract!vars)
    <2>1. ASSUME NEW r \in reqs, Commit(r)
          PROVE  [Abstract!Next]_(Abstract!vars)
      BY <1>2, <2>1, CommitImplements
    <2>2. ASSUME UNCHANGED <<cards, offered>>
          PROVE  [Abstract!Next]_(Abstract!vars)
      BY <2>2, NothingSeen
    <2>3. CASE \E r \in reqs : Read(r)
      BY <2>2, <2>3 DEF Read
    <2>4. CASE \/ \E f \in Flows, op \in Ops, i \in Keys : Start(f, op, i)
               \/ \E f \in Flows : FlowStep(f) \/ GiveUp(f)
               \/ \E r \in reqs : Lose(r)
               \/ UNCHANGED vars
      BY <1>2, <2>2, <2>4, FlowSends
    <2> QED
      BY <1>2, <2>1, <2>3, <2>4 DEF Next
  <1> QED
    BY <1>1, <1>2, SerialAlways, TestimonyCorrect, PTL DEF Spec, ImplementsRelationship, Abstract!Spec

-----------------------------------------------------------------------------
(***************************************************************************)
(* Provenance of tokens.  What a step does to rows and to the counter of   *)
(* rows: a row keeps its in-token, gets one that is offered, or is new.    *)
(***************************************************************************)
Keeps(a, b, i, c) ==
    /\ UNCHANGED made
    /\ cards[a][b][i].status # "none"
    /\ c.status = "none" \/ c.in = cards[a][b][i].in \/ c.in \in offered'[a][b]

IsNew(a, b, i) == i = made[a][b] + 1 /\ made' = [made EXCEPT ![a][b] = i]

RowVouched(a, b) ==
    \/ UNCHANGED <<cards, made>>
    \/ \E i \in Ids, c \in Card :
           /\ Save(a, b, i, c)
           /\ Keeps(a, b, i, c) \/ IsNew(a, b, i)
           /\ c.status \in Linked => c.in \in offered'[a][b]
           /\ c.out # 0 => c.out \in offered'[b][a]

VouchesStay == \A a, b \in Accounts : \A i \in Keys : Vouched(a, b, i) => Vouched(a, b, i)'

Provenances == \A a, b \in Accounts : \A i \in Keys : Provenance(a, b, i)

LEMMA RowsVouched ==
    ASSUME TypeOK, Provenances, OffersGrow, NEW a \in Accounts, NEW b \in Accounts,
           RowVouched(a, b)
    PROVE  Provenances' /\ VouchesStay
  <1>1. CASE UNCHANGED <<cards, made>>
    BY <1>1 DEF Provenances, Provenance, VouchesStay, Vouched, OffersGrow
  <1>2. ASSUME NEW k \in Ids, NEW c \in Card, Save(a, b, k, c),
               Keeps(a, b, k, c) \/ IsNew(a, b, k),
               c.status \in Linked => c.in \in offered'[a][b],
               c.out # 0 => c.out \in offered'[b][a]
        PROVE  Provenances' /\ VouchesStay
    <2>1. k \in Keys
      BY BoundAssumption DEF Ids, Keys
    <2>2. cards'[a][b][k] = c
      BY <1>2, <2>1, SavedRow
    <2>3. \A x, y \in Accounts : \A i \in Keys :
              ~(x = a /\ y = b /\ i = k) => cards'[x][y][i] = cards[x][y][i]
      BY <1>2, <2>1, SavedRow
    <2>4. \A x, y \in Accounts :
              made[x][y] \in Nat /\ made'[x][y] \in Nat /\ made[x][y] <= made'[x][y]
      <3>1. \A x, y \in Accounts : made[x][y] \in Nat
        BY BoundAssumption DEF TypeOK, Keys
      <3>2. CASE UNCHANGED made
        BY <3>1, <3>2
      <3>3. CASE IsNew(a, b, k)
        <4>1. \A x, y \in Accounts : made'[x][y] = IF x = a /\ y = b THEN k ELSE made[x][y]
          BY <3>3 DEF IsNew, TypeOK
        <4>2. k = made[a][b] + 1
          BY <3>3 DEF IsNew
        <4> QED
          BY <3>1, <4>1, <4>2
      <3> QED
        BY <1>2, <3>2, <3>3 DEF Keeps
    <2>5. ASSUME NEW x \in Accounts, NEW y \in Accounts, NEW i \in Keys, ~(x = a /\ y = b /\ i = k)
          PROVE  Provenance(x, y, i)' /\ (Vouched(x, y, i) => Vouched(x, y, i)')
      <3>1. cards'[x][y][i] = cards[x][y][i] /\ i \in Nat
        BY <2>3, <2>5, BoundAssumption DEF Keys
      <3> QED
        BY <2>4, <3>1 DEF Provenances, Provenance, Vouched, OffersGrow
    <2>6. Provenance(a, b, k)'
      <3>1. c.status # "none" => k <= made'[a][b]
        <4>1. CASE Keeps(a, b, k, c)
          BY <2>1, <4>1 DEF Keeps, Provenances, Provenance
        <4>2. CASE IsNew(a, b, k)
          BY <2>4, <4>2, BoundAssumption DEF IsNew, TypeOK, Ids
        <4> QED
          BY <1>2, <4>1, <4>2
      <3> QED
        BY <1>2, <2>2, <3>1 DEF Provenance
    <2>7. Vouched(a, b, k) => Vouched(a, b, k)'
      <3>1. CASE Keeps(a, b, k, c)
        BY <2>2, <3>1 DEF Keeps, Vouched, OffersGrow
      <3>2. CASE IsNew(a, b, k)
        BY <2>4, <3>2, BoundAssumption DEF IsNew, Vouched, Ids
      <3> QED
        BY <1>2, <3>1, <3>2
    <2> QED
      BY <2>5, <2>6, <2>7 DEF Provenances, VouchesStay
  <1> QED
    BY <1>1, <1>2 DEF RowVouched

(***************************************************************************)
(* What a step does to one flow and to the requests, given what it does to *)
(* the rows.                                                               *)
(***************************************************************************)
FlowMoves(f) ==
    /\ \A g \in Flows : g # f => flow'[g] = flow[g]
    /\ FlowVouched(f)'
    /\ \A q \in reqs' : \/ q \in reqs /\ (q.flow = f => Pending(f, q)')
                        \/ RequestVouched(q)'

LEMMA TokensKept ==
    ASSUME TypeOK, TokenInv, OffersGrow, VouchesStay, Provenances', NEW f \in Flows, FlowMoves(f)
    PROVE  TokenInv'
  <1>1. ASSUME NEW g \in Flows
        PROVE  FlowVouched(g)'
    <2>1. CASE g = f
      BY <2>1 DEF FlowMoves
    <2>2. CASE g # f
      <3>1. flow'[g] = flow[g] /\ By[g] \in Accounts /\ To[g] \in Accounts /\ flow[g].card \in Keys
        BY <2>2, FlowAssumption DEF FlowMoves, TypeOK, Flow
      <3>2. FlowVouched(g)
        BY DEF TokenInv
      <3> QED
        BY <3>1, <3>2 DEF FlowVouched, VouchesStay
    <2> QED
      BY <2>1, <2>2
  <1>2. ASSUME NEW q \in reqs', q \in reqs
        PROVE  RequestVouched(q)'
    <2>1. q \in Request /\ q.flow \in Flows /\ q.card \in Keys /\ RequestVouched(q)
      BY <1>2 DEF TypeOK, TokenInv, Request
    <2>2. PICK a \in Accounts, b \in Accounts : a = Node(q) /\ b = About(q)
      BY <2>1, PartiesType
    <2>3. q.kind \in {"status", "open"} /\ q.token # 0 => q.token \in offered'[b][a]
      BY <2>1, <2>2 DEF RequestVouched, OffersGrow
    <2>4. q.kind = "status" /\ q.status = "connected" => Vouched(a, b, q.card)'
      BY <2>1, <2>2 DEF RequestVouched, VouchesStay
    <2>5. Pending(q.flow, q)'
      <3>1. CASE q.flow = f
        BY <1>2, <3>1 DEF FlowMoves, RequestVouched
      <3>2. CASE q.flow # f
        BY <2>1, <3>2 DEF FlowMoves, RequestVouched, Pending
      <3> QED
        BY <3>1, <3>2
    <2>6. Node(q)' = a /\ About(q)' = b
      BY <2>2 DEF Node, About, ToContact
    <2> QED
      BY <2>3, <2>4, <2>5, <2>6 DEF RequestVouched, Vouched
  <1>3. \A q \in reqs' : RequestVouched(q)'
    BY <1>2 DEF FlowMoves
  <1> QED
    BY <1>1, <1>3 DEF TokenInv, Provenances

\* A request that was sent is out for nobody who waits to be connecting.
PastPc(pc) == pc \notin {"idle", "adding", "connecting"}

LEMMA PastPending ==
    ASSUME NEW f, NEW q, PastPc(flow'[f].pc)
    PROVE  Pending(f, q)'
  BY DEF PastPc, Pending

\* What is sent along with each change of a flow.
LEMMA SentVouched ==
    ASSUME NEW f \in Flows, NEW i \in Keys, NEW t \in Nat
    PROVE  /\ flow'[f].pc = "connecting" /\ flow'[f].card = i => RequestVouched(SetConnecting(f, i))'
           /\ PastPc(flow'[f].pc) => RequestVouched(SetConfirmed(f, i))'
           /\ PastPc(flow'[f].pc) => RequestVouched(RemoveCard(f, i))'
           /\ flow'[f].pc # "idle" => RequestVouched(Sent(f, "add", 0, "none", 0))'
           /\ PastPc(flow'[f].pc) => RequestVouched(Sent(f, "close", 0, "none", 0))'
           /\ PastPc(flow'[f].pc) /\ t \in offered'[By[f]][To[f]]
                  => RequestVouched(Sent(f, "open", 0, "none", t))'
           /\ PastPc(flow'[f].pc) /\ t \in offered'[To[f]][By[f]] /\ Vouched(By[f], To[f], i)'
                  => RequestVouched(SetConnected(f, i, t))'
  BY DEF SetConnecting, SetConfirmed, RemoveCard, SetConnected, Sent, RequestVouched, Pending,
         PastPc, Node, About, ToContact

\* A flow that moves on, with nothing sent.
LEMMA GotoMoves ==
    ASSUME TypeOK, TokenInv, NEW f \in Flows, NEW pc, PastPc(pc), pc \notin {"getOpen", "opening"},
           Goto(f, pc), reqs' \subseteq reqs
    PROVE  FlowMoves(f)
  <1>1. flow'[f].pc = pc /\ \A g \in Flows : g # f => flow'[g] = flow[g]
    BY DEF Goto, TypeOK, Flow
  <1>2. FlowVouched(f)'
    BY <1>1 DEF FlowVouched
  <1>3. \A q \in reqs' : q \in reqs /\ Pending(f, q)'
    BY <1>1, PastPending
  <1> QED
    BY <1>1, <1>2, <1>3 DEF FlowMoves

\* A flow that does not move, while requests are served or lost.
LEMMA RestMoves ==
    ASSUME TypeOK, TokenInv, VouchesStay, NEW f \in Flows, UNCHANGED flow, reqs' \subseteq reqs
    PROVE  FlowMoves(f)
  <1>1. By[f] \in Accounts /\ To[f] \in Accounts /\ flow[f].card \in Keys
    BY FlowAssumption DEF TypeOK, Flow
  <1>2. FlowVouched(f)'
    BY <1>1 DEF TokenInv, FlowVouched, VouchesStay
  <1>3. \A q \in reqs : q.flow = f => Pending(f, q)'
    BY DEF TokenInv, RequestVouched, Pending
  <1> QED
    BY <1>2, <1>3 DEF FlowMoves

LEMMA FailMoves ==
    ASSUME TypeOK, TokenInv, VouchesStay, NEW r \in reqs, Fail(r)
    PROVE  FlowMoves(r.flow)
  <1>1. r.flow \in Flows
    BY DEF TypeOK, Request
  <1>2. PastPc(AfterFailure(r.flow)) /\ AfterFailure(r.flow) \notin {"getOpen", "opening"}
    BY DEF AfterFailure, PastPc
  <1> QED
    BY <1>1, <1>2, GotoMoves, RestMoves DEF Fail

\* A flow that moves on with the answer to r, and what it sends.
LEMMA ProceedMoves ==
    ASSUME TypeOK, NEW r \in reqs, NEW pc, NEW i, NEW next, Proceed(r, pc, i, next), PastPc(pc),
           pc \in {"getOpen", "opening"} => Vouched(By[r.flow], To[r.flow], i)',
           \A q \in next : RequestVouched(q)'
    PROVE  FlowMoves(r.flow)
  <1>1. PICK f \in Flows : f = r.flow
    BY DEF TypeOK, Request
  <1>2. flow'[f].pc = pc /\ flow'[f].card = i /\ \A g \in Flows : g # f => flow'[g] = flow[g]
    BY <1>1 DEF Proceed, TypeOK, Flow
  <1>3. FlowVouched(f)'
    BY <1>1, <1>2 DEF FlowVouched, Vouched
  <1>4. \A q \in reqs' : (q \in reqs /\ Pending(f, q)') \/ RequestVouched(q)'
    BY <1>2, PastPending DEF Proceed
  <1> QED
    BY <1>1, <1>2, <1>3, <1>4 DEF FlowMoves

-----------------------------------------------------------------------------
LEMMA TokenInit == Init => TokenInv
  BY FlowAssumption, BoundAssumption
     DEF Init, TokenInv, Provenance, FlowVouched, NoCard, Linked, Keys

\* The steps of a flow between its answers.
LEMMA StartMoves ==
    ASSUME TypeOK, TokenInv, NEW f \in Flows, NEW op \in Ops, NEW i \in Keys, Start(f, op, i)
    PROVE  FlowMoves(f)
  <1>1. PICK pc, seen : /\ pc = FirstPc(op, seen)
                        /\ flow' = [flow EXCEPT ![f] = [pc |-> pc, op |-> op, card |-> i, seen |-> seen]]
                        /\ reqs' = reqs \cup Issued(f, pc, i)
                        /\ flow[f].pc = "idle"
    BY DEF Start
  <1>2. pc \in {"adding", "connecting", "confirming", "getClose", "removing"}
    BY <1>1, FlowAssumption DEF FirstPc, AllOps
  <1>3. flow'[f].pc = pc /\ flow'[f].card = i /\ \A g \in Flows : g # f => flow'[g] = flow[g]
    BY <1>1 DEF TypeOK
  <1>4. FlowVouched(f)'
    BY <1>2, <1>3 DEF FlowVouched
  <1>5. \A q \in reqs : q.flow # f
    BY <1>1 DEF TokenInv, RequestVouched, Pending
  <1>6. \A q \in Issued(f, pc, i) : RequestVouched(q)'
    <2>1. 0 \in Nat
      OBVIOUS
    <2> QED
      BY <1>2, <1>3, <2>1, SentVouched DEF Issued, PastPc
  <1> QED
    BY <1>1, <1>3, <1>4, <1>5, <1>6 DEF FlowMoves

LEMMA FlowStepMoves ==
    ASSUME TypeOK, TokenInv, VouchesStay, OffersGrow, NEW f \in Flows, FlowStep(f) \/ GiveUp(f)
    PROVE  FlowMoves(f)
  <1>1. By[f] \in Accounts /\ To[f] \in Accounts /\ flow[f].card \in Keys
    BY FlowAssumption DEF TypeOK, Flow
  <1>2. CASE GetOpenMessage(f)
    <2>1. PICK c \in Card : c = cards[By[f]][To[f]][flow[f].card]
      BY <1>1 DEF TypeOK
    <2>2. CASE c.status \notin Linked
      <3>1. Goto(f, "done") /\ reqs' \subseteq reqs
        BY <1>2, <2>1, <2>2 DEF GetOpenMessage
      <3> QED
        BY <3>1, GotoMoves DEF PastPc
    <2>3. CASE c.status \in Linked
      <3>1. Goto(f, "opening") /\ reqs' = reqs \cup {Sent(f, "open", 0, "none", c.in)}
        BY <1>2, <2>1, <2>3 DEF GetOpenMessage
      <3>2. /\ flow'[f].pc = "opening" /\ flow'[f].card = flow[f].card
            /\ \A g \in Flows : g # f => flow'[g] = flow[g]
        BY <3>1 DEF Goto, TypeOK, Flow
      <3>3. Vouched(By[f], To[f], flow[f].card)'
        <4>1. Vouched(By[f], To[f], flow[f].card)
          BY <1>2 DEF GetOpenMessage, TokenInv, FlowVouched
        <4>2. UNCHANGED <<cards, made, offered, flow[f].card>>
          BY <1>2, <3>2 DEF GetOpenMessage
        <4> QED
          BY <4>1, <4>2 DEF Vouched
      <3>4. FlowVouched(f)'
        BY <3>2, <3>3 DEF FlowVouched
      <3>5. c.in \in Nat /\ c.in \in offered'[By[f]][To[f]]
        BY <1>1, <2>1, <2>3 DEF TokenInv, Provenance, OffersGrow, Card
      <3>6. 0 \in Keys /\ PastPc(flow'[f].pc)
        BY <3>2, BoundAssumption DEF Keys, PastPc
      <3>7. RequestVouched(Sent(f, "open", 0, "none", c.in))'
        BY <3>5, <3>6, SentVouched
      <3>8. \A q \in reqs : Pending(f, q)'
        BY <3>6, PastPending
      <3> QED
        BY <3>1, <3>2, <3>4, <3>7, <3>8 DEF FlowMoves
    <2> QED
      BY <2>2, <2>3
  <1>3. ASSUME NEW pc, NEW next, Goto(f, pc), PastPc(pc), pc \notin {"getOpen", "opening"},
               reqs' = reqs \cup next, PastPc(flow'[f].pc) => \A q \in next : RequestVouched(q)'
        PROVE  FlowMoves(f)
    <2>1. flow'[f].pc = pc /\ \A g \in Flows : g # f => flow'[g] = flow[g]
      BY <1>3 DEF Goto, TypeOK, Flow
    <2>2. FlowVouched(f)'
      BY <1>3, <2>1 DEF FlowVouched
    <2>3. \A q \in reqs : Pending(f, q)'
      BY <1>3, <2>1, PastPending
    <2> QED
      BY <1>3, <2>1, <2>2, <2>3 DEF FlowMoves
  <1>4. CASE GetCloseMessage(f)
    <2>1. CASE Goto(f, AfterFailure(f)) /\ UNCHANGED reqs
      <3>1. PastPc(AfterFailure(f)) /\ AfterFailure(f) \notin {"getOpen", "opening"}
        BY DEF AfterFailure, PastPc
      <3> QED
        BY <2>1, <3>1, GotoMoves
    <2>2. CASE Goto(f, "closing") /\ reqs' = reqs \cup {Sent(f, "close", 0, "none", 0)}
      <3>1. 0 \in Keys /\ 0 \in Nat
        BY BoundAssumption DEF Keys
      <3>2. PastPc(flow'[f].pc) => RequestVouched(Sent(f, "close", 0, "none", 0))'
        BY <3>1, SentVouched
      <3> QED
        BY <1>3, <2>2, <3>2 DEF PastPc
    <2> QED
      BY <1>4, <2>1, <2>2 DEF GetCloseMessage
  <1>5. CASE Settle(f)
    <2>1. PICK pc \in {"removing", "confirming"} :
              Goto(f, pc) /\ reqs' = reqs \cup Issued(f, pc, flow[f].card)
      BY <1>5 DEF Settle
    <2>2. PastPc(flow'[f].pc) => \A q \in Issued(f, pc, flow[f].card) : RequestVouched(q)'
      <3>1. 0 \in Nat
        OBVIOUS
      <3> QED
        BY <1>1, <2>1, <3>1, SentVouched DEF Issued
    <2> QED
      BY <1>3, <2>1, <2>2 DEF PastPc
  <1>6. CASE GiveUp(f)
    <2>1. PastPc(AfterFailure(f)) /\ AfterFailure(f) \notin {"getOpen", "opening"}
      BY DEF AfterFailure, PastPc
    <2> QED
      BY <1>6, <2>1, GotoMoves DEF GiveUp
  <1> QED
    BY <1>2, <1>4, <1>5, <1>6 DEF FlowStep

(***************************************************************************)
(* The answers.                                                            *)
(***************************************************************************)
LEMMA AnswerAddMoves ==
    ASSUME TypeOK, TokenInv, VouchesStay, NEW r \in reqs, NEW i \in Keys, AnswerAdd(r, i),
           r.kind = "add"
    PROVE  FlowMoves(r.flow)
  <1>1. PICK f \in Flows : f = r.flow
    BY DEF TypeOK, Request
  <1>2. CASE Ignore(r)
    BY <1>1, <1>2, RestMoves DEF Ignore
  <1>3. CASE Proceed(r, "done", i, {})
    BY <1>3, ProceedMoves DEF PastPc
  <1>4. CASE flow[f].pc = "adding" /\ Proceed(r, "connecting", i, {SetConnecting(f, i)})
    <2>1. /\ flow'[f].pc = "connecting" /\ flow'[f].card = i
          /\ \A g \in Flows : g # f => flow'[g] = flow[g]
      BY <1>1, <1>4 DEF Proceed, TypeOK, Flow
    <2>2. FlowVouched(f)'
      BY <2>1 DEF FlowVouched
    <2>3. \A q \in reqs : q.flow = f => q.kind # "status"
      BY <1>4 DEF TokenInv, RequestVouched, Pending
    <2>4. \A q \in reqs : q.flow = f => Pending(f, q)'
      BY <2>1, <2>3 DEF Pending
    <2>5. RequestVouched(SetConnecting(f, i))'
      <3>1. 0 \in Nat
        OBVIOUS
      <3> QED
        BY <2>1, <3>1, SentVouched
    <2> QED
      BY <1>1, <1>4, <2>1, <2>2, <2>4, <2>5 DEF Proceed, FlowMoves
  <1>5. Awaited(r) /\ r.kind = "add" => flow[f].pc = "adding"
    BY <1>1 DEF Awaited, AwaitedPc
  <1> QED
    BY <1>1, <1>2, <1>3, <1>4, <1>5 DEF AnswerAdd

\* What the caller of connect takes up next is the card that was just saved.
LEMMA AnswerStatusMoves ==
    ASSUME TypeOK, TokenInv, VouchesStay, NEW r \in reqs, AnswerStatus(r),
           \A i : /\ i = flow[r.flow].card
                  /\ flow[r.flow].pc = "connecting"
                  => Vouched(By[r.flow], To[r.flow], i)'
    PROVE  FlowMoves(r.flow)
  <1>1. PICK f \in Flows : f = r.flow
    BY DEF TypeOK, Request
  <1>2. CASE Ignore(r)
    BY <1>1, <1>2, RestMoves DEF Ignore
  <1>3. PICK i : i = flow[f].card
    OBVIOUS
  <1>4. CASE flow[f].pc = "connecting" /\ Proceed(r, "getOpen", i, {})
    <2>1. Vouched(By[f], To[f], i)'
      BY <1>1, <1>3, <1>4
    <2> QED
      BY <1>1, <1>4, <2>1, ProceedMoves DEF PastPc
  <1>5. CASE \E pc \in {"getClose", "done"} : Proceed(r, pc, i, {})
    BY <1>5, ProceedMoves DEF PastPc
  <1> QED
    BY <1>1, <1>2, <1>3, <1>4, <1>5 DEF AnswerStatus

LEMMA AnswerOpenMoves ==
    ASSUME TypeOK, TokenInv, VouchesStay, NEW r \in reqs, NEW s, NEW t \in Nat, AnswerOpen(r, s, t),
           r.kind = "open", s = "connected" => t \in offered'[To[r.flow]][By[r.flow]]
    PROVE  FlowMoves(r.flow)
  <1>1. PICK f \in Flows : f = r.flow
    BY DEF TypeOK, Request
  <1>2. CASE Ignore(r)
    BY <1>1, <1>2, RestMoves DEF Ignore
  <1>3. PICK i \in Keys : i = flow[f].card
    BY DEF TypeOK, Flow
  <1>4. CASE Proceed(r, "done", i, {})
    BY <1>4, ProceedMoves DEF PastPc
  <1>5. CASE s = "connected" /\ flow[f].pc = "opening"
             /\ Proceed(r, "linking", i, {SetConnected(f, i, t)})
    <2>1. By[f] \in Accounts /\ To[f] \in Accounts
      BY FlowAssumption
    <2>2. Vouched(By[f], To[f], i)'
      BY <1>3, <1>5, <2>1 DEF TokenInv, FlowVouched, VouchesStay
    <2>3. flow'[f].pc = "linking"
      BY <1>1, <1>5 DEF Proceed, TypeOK, Flow
    <2>4. RequestVouched(SetConnected(f, i, t))'
      BY <1>1, <1>5, <2>2, <2>3, SentVouched DEF PastPc
    <2> QED
      BY <1>5, <2>4, ProceedMoves DEF PastPc
  <1>6. Awaited(r) => flow[f].pc = "opening"
    BY <1>1 DEF Awaited, AwaitedPc
  <1> QED
    BY <1>1, <1>2, <1>3, <1>4, <1>5, <1>6 DEF AnswerOpen

LEMMA AnswerEndMoves ==
    ASSUME TypeOK, TokenInv, VouchesStay, NEW r \in reqs, AnswerClose(r) \/ AnswerRemove(r)
    PROVE  FlowMoves(r.flow)
  <1>1. PICK f \in Flows : f = r.flow
    BY DEF TypeOK, Request
  <1>2. CASE Ignore(r)
    BY <1>1, <1>2, RestMoves DEF Ignore
  <1>3. AfterFailure(f) \in {"settling", "done"}
    BY DEF AfterFailure
  <1>4. CASE \E pc \in {"settling", "done"} : Proceed(r, pc, flow[f].card, {})
    BY <1>4, ProceedMoves DEF PastPc
  <1> QED
    BY <1>1, <1>2, <1>3, <1>4 DEF AnswerClose, AnswerRemove

LEMMA ReadTokens ==
    ASSUME TypeOK, SerialInv, TokenInv, NEW r \in reqs, Read(r)
    PROVE  TokenInv'
  <1>1. OffersGrow /\ VouchesStay /\ Provenances'
    BY DEF Read, OffersGrow, VouchesStay, Vouched, Provenances, Provenance, TokenInv
  <1>2. r.flow \in Flows
    BY DEF TypeOK, Request
  <1>3. CASE Fail(r)
    BY <1>1, <1>2, <1>3, FailMoves, TokensKept
  <1>4. ASSUME NEW i \in Found(r), NEW c, UNCHANGED flow,
               reqs' = (reqs \ {r}) \cup {ReadAs(r, i, c)}
        PROVE  TokenInv'
    <2>1. PICK q : q = ReadAs(r, i, c)
      OBVIOUS
    <2>2. /\ q.kind = r.kind /\ q.status = r.status /\ q.token = r.token /\ q.flow = r.flow
          /\ q.kind = "status" => q.card = r.card
      BY <2>1 DEF ReadAs, TypeOK, Request, Found
    <2>3. RequestVouched(r)
      BY DEF TokenInv
    <2>4. Node(q) = Node(r) /\ About(q) = About(r)
      BY <2>2 DEF Node, About, ToContact
    <2>5. RequestVouched(q)
      BY <2>2, <2>3, <2>4 DEF RequestVouched, Pending
    <2>6. UNCHANGED <<cards, made, offered>>
      BY DEF Read
    <2>7. RequestVouched(q)'
      BY <1>4, <2>5, <2>6 DEF RequestVouched, Vouched, Pending, Node, About, ToContact
    <2>8. FlowVouched(r.flow)'
      BY <1>2, <1>4, <2>6 DEF TokenInv, FlowVouched, Vouched
    <2>9. \A p \in reqs : Pending(p.flow, p)'
      BY <1>4 DEF TokenInv, RequestVouched, Pending
    <2>10. FlowMoves(r.flow)
      BY <1>4, <2>1, <2>7, <2>8, <2>9 DEF FlowMoves
    <2> QED
      BY <1>1, <1>2, <2>10, TokensKept
  <1> QED
    BY <1>3, <1>4 DEF Read

LEMMA CommitTokens ==
    ASSUME TypeOK, SerialInv, TokenInv, NEW r \in reqs, Commit(r)
    PROVE  TokenInv'
  <1>1. PICK a \in Accounts, b \in Accounts : a = Node(r) /\ b = About(r)
    BY PartiesType DEF TypeOK
  <1>2. PICK f \in Flows : f = r.flow
    BY DEF TypeOK, Request
  <1>3. r.read
    BY DEF Commit, AddCard, SetCardStatus, SetOpenMessage, SetCloseMessage, DeleteCard, Serving
  <1>4. UpToDate(r) /\ Asks(r) /\ RequestVouched(r)
    BY <1>3 DEF SerialInv, Current, TokenInv
  <1>5. r.card \in Keys /\ r.snap \in Card /\ r.token \in Nat
    BY DEF TypeOK, Request
  <1>6. Provenances
    BY DEF TokenInv, Provenances
  <1>7. /\ r.snap.status \in Linked => r.snap.in \in offered[a][b]
        /\ r.snap.out # 0 => r.snap.out \in offered[b][a]
    BY <1>1, <1>4, <1>5, <1>6 DEF UpToDate, Provenances, Provenance
  <1>8. ASSUME OffersGrow, RowVouched(a, b), VouchesStay => FlowMoves(f)
        PROVE  TokenInv'
    BY <1>6, <1>8, RowsVouched, TokensKept
  <1>9. NoCard \in Card /\ NoCard.status = "none" /\ NoCard.out = 0
    BY DEF NoCard, Card
  <1>10. ASSUME NEW s \in Status \ Linked, NEW t \in Nat, Create(a, b, s, t),
                t # 0 => t \in offered'[b][a]
         PROVE  RowVouched(a, b)
    <2>1. PICK k : k = made[a][b] + 1
      OBVIOUS
    <2>2. k \in Ids /\ IsNew(a, b, k)
      BY <1>10, <2>1, BoundAssumption DEF Create, TypeOK, Keys, Ids, IsNew
    <2>3. PICK in \in Nat : in = Fresh(a, b)
      BY MintType
    <2> DEFINE c == [status |-> s, in |-> in, out |-> t]
    <2>4. c \in Card /\ c.status = s /\ c.out = t
      BY DEF Card
    <2>5. Save(a, b, k, c)
      BY <1>10, <2>1, <2>3 DEF Create
    <2> HIDE DEF c
    <2> QED
      BY <1>10, <2>2, <2>4, <2>5 DEF RowVouched
  <1>11. ASSUME r.card # 0, UNCHANGED made, NEW c \in Card, Save(a, b, r.card, c),
                c.status = "none" \/ c.in = r.snap.in \/ c.in \in offered'[a][b],
                c.status \in Linked => c.in \in offered'[a][b],
                c.out # 0 => c.out \in offered'[b][a]
         PROVE  RowVouched(a, b)
    <2>1. r.card \in Ids /\ cards[a][b][r.card] = r.snap /\ r.snap.status # "none"
      BY <1>1, <1>4, <1>11 DEF UpToDate, Live
    <2>2. Keeps(a, b, r.card, c)
      BY <1>11, <2>1 DEF Keeps
    <2> QED
      BY <1>11, <2>1, <2>2 DEF RowVouched
  <1>12. UNCHANGED offered => OffersGrow
    BY DEF OffersGrow
  <1>13. CASE AddCard(r)
    <2>1. UNCHANGED offered /\ OffersGrow
      BY <1>12, <1>13 DEF AddCard
    <2>2. RowVouched(a, b)
      <3>1. CASE r.card = 0
        <4>1. Create(a, b, "confirmed", 0)
          BY <1>1, <1>13, <3>1 DEF AddCard
        <4> QED
          BY <1>10, <4>1 DEF Status, Linked
      <3>2. CASE r.card # 0
        <4> DEFINE c == [r.snap EXCEPT !.status = IF @ = "pending" THEN "confirmed" ELSE @]
        <4>1. /\ c \in Card /\ c.in = r.snap.in /\ c.out = r.snap.out
              /\ c.status \in Linked => r.snap.status \in Linked
          BY <1>5 DEF Card, Status, Linked
        <4>2. Save(a, b, r.card, c) /\ UNCHANGED made
          BY <1>1, <1>13, <3>2 DEF AddCard
        <4> HIDE DEF c
        <4> QED
          BY <1>7, <1>11, <2>1, <3>2, <4>1, <4>2
      <3> QED
        BY <3>1, <3>2
    <2>3. ASSUME VouchesStay
          PROVE  FlowMoves(f)
      <3>1. r.kind = "add"
        BY <1>13 DEF AddCard, Serving
      <3>2. CASE r.card = 0
        <4>1. PICK k : k = made[a][b] + 1
          OBVIOUS
        <4>2. k \in Keys
          BY <1>1, <1>13, <3>2, <4>1, BoundAssumption DEF AddCard, Create, TypeOK, Keys
        <4>3. AnswerAdd(r, k)
          BY <1>1, <1>13, <3>2, <4>1 DEF AddCard
        <4> QED
          BY <1>2, <2>3, <3>1, <4>2, <4>3, AnswerAddMoves
      <3>3. CASE r.card # 0
        <4>1. AnswerAdd(r, r.card)
          BY <1>13, <3>3 DEF AddCard
        <4> QED
          BY <1>2, <1>5, <2>3, <3>1, <4>1, AnswerAddMoves
      <3> QED
        BY <3>2, <3>3
    <2> QED
      BY <1>8, <2>1, <2>2, <2>3
  <1>14. CASE SetCardStatus(r)
    <2>1. PICK in : in = IF NeedsToken(r) THEN Fresh(a, b) ELSE r.snap.in
      OBVIOUS
    <2> DEFINE c == [status |-> r.status, in |-> in,
                     out |-> IF r.token # 0 THEN r.token ELSE r.snap.out]
    <2>2. in \in Nat
      BY <1>5, <2>1, MintType DEF Card
    <2>3. /\ r.card # 0 /\ r.kind = "status" /\ UNCHANGED made
          /\ r.status \in {"connecting", "confirmed", "connected"}
      BY <1>4, <1>14 DEF SetCardStatus, Serving, UpToDate, Asks
    <2>4. a = By[f] /\ b = To[f]
      BY <1>1, <1>2, <2>3 DEF Node, About, ToContact
    <2>5. /\ c \in Card /\ c.status = r.status /\ c.in = in
          /\ c.out = IF r.token # 0 THEN r.token ELSE r.snap.out
      BY <1>5, <2>2, <2>3 DEF Card, Status
    <2>6. Save(a, b, r.card, c)
      BY <1>1, <1>14, <2>1 DEF SetCardStatus
    <2> HIDE DEF c
    <2>7. /\ OffersGrow
          /\ r.status = "connecting" => in \in offered'[a][b]
      <3>1. offered' = IF r.status = "connecting"
                         THEN [offered EXCEPT ![a][b] = @ \cup {in}] ELSE offered
        BY <1>1, <1>14, <2>1 DEF SetCardStatus
      <3> QED
        BY <3>1 DEF OffersGrow, TypeOK
    <2>8. /\ r.card \in Live(a, b) /\ r.snap = cards[a][b][r.card]
          /\ r.snap.status # "none" /\ r.card <= made[a][b]
      BY <1>1, <1>4, <1>5, <1>6, <2>3 DEF UpToDate, Live, Provenances, Provenance
    <2>9. in = r.snap.in \/ in \in offered'[a][b]
      BY <2>1, <2>7 DEF NeedsToken
    <2>10. r.status \in Linked => in \in offered'[a][b]
      <3>1. CASE r.status = "connected"
        <4>1. in = r.snap.in
          BY <2>1, <3>1 DEF NeedsToken
        <4>2. r.snap.in \in offered[a][b]
          BY <1>1, <1>4, <2>3, <2>8, <3>1 DEF RequestVouched, Vouched
        <4> QED
          BY <2>7, <4>1, <4>2 DEF OffersGrow
      <3> QED
        BY <2>7, <3>1 DEF Linked
    <2>11. c.out # 0 => c.out \in offered'[b][a]
      BY <1>1, <1>4, <1>7, <2>3, <2>5, <2>7 DEF RequestVouched, OffersGrow
    <2>12. RowVouched(a, b)
      BY <1>11, <2>3, <2>5, <2>6, <2>9, <2>10, <2>11
    <2>13. ASSUME VouchesStay
           PROVE  FlowMoves(f)
      <3>1. AnswerStatus(r)
        BY <1>14 DEF SetCardStatus
      <3>2. ASSUME NEW i, i = flow[f].card, flow[f].pc = "connecting"
            PROVE  Vouched(a, b, i)'
        <4>1. r.status = "connecting" /\ i = r.card
          BY <1>2, <1>4, <2>3, <3>2 DEF RequestVouched, Pending
        <4>2. cards'[a][b][r.card] = c
          BY <1>5, <2>6, SavedRow
        <4> QED
          BY <2>3, <2>5, <2>7, <2>8, <4>1, <4>2 DEF Vouched
      <3> QED
        BY <1>2, <2>4, <2>13, <3>1, <3>2, AnswerStatusMoves
    <2> QED
      BY <1>8, <2>7, <2>12, <2>13
  <1>15. CASE SetOpenMessage(r)
    <2>1. UNCHANGED offered /\ OffersGrow
      BY <1>12, <1>15 DEF SetOpenMessage
    <2>2. r.kind = "open" /\ a = To[f] /\ b = By[f]
      BY <1>1, <1>2, <1>15 DEF SetOpenMessage, Serving, Node, About, ToContact
    <2>3. r.token # 0 => r.token \in offered'[b][a]
      BY <1>1, <1>4, <2>1, <2>2 DEF RequestVouched
    <2>4. CASE r.card = 0
      <3>1. Create(a, b, "pending", r.token) /\ AnswerOpen(r, "pending", Fresh(a, b))
        BY <1>1, <1>15, <2>4 DEF SetOpenMessage
      <3>2. RowVouched(a, b)
        BY <1>5, <1>10, <2>3, <3>1 DEF Status, Linked
      <3>3. PICK t \in Nat : t = Fresh(a, b)
        BY MintType
      <3>4. VouchesStay => FlowMoves(f)
        BY <1>2, <2>2, <3>1, <3>3, AnswerOpenMoves
      <3> QED
        BY <1>8, <2>1, <3>2, <3>4
    <2>5. CASE r.card # 0
      <3> DEFINE c == OpenedCard(r)
                 s == Opened(r.snap.status)
      <3>1. /\ c \in Card /\ c.status = s /\ c.in = r.snap.in /\ c.out = r.token
            /\ r.snap.in \in Nat
            /\ s \in Linked => r.snap.status \in Linked
        BY <1>5 DEF Card, Opened, OpenedCard, Status, Linked
      <3>2. Save(a, b, r.card, c) /\ UNCHANGED made /\ AnswerOpen(r, s, r.snap.in)
        BY <1>1, <1>15, <2>5 DEF SetOpenMessage
      <3> HIDE DEF c, s
      <3>3. RowVouched(a, b)
        BY <1>7, <1>11, <2>1, <2>3, <2>5, <3>1, <3>2
      <3>4. s = "connected" => r.snap.in \in offered'[a][b]
        BY <1>7, <2>1, <3>1 DEF Linked
      <3>5. VouchesStay => FlowMoves(f)
        BY <1>2, <2>2, <3>1, <3>2, <3>4, AnswerOpenMoves
      <3> QED
        BY <1>8, <2>1, <3>3, <3>5
    <2> QED
      BY <2>4, <2>5
  <1>16. CASE SetCloseMessage(r)
    <2>1. UNCHANGED <<made, offered>> /\ OffersGrow
      BY <1>12, <1>16 DEF SetCloseMessage
    <2>2. PICK row \in Card : row = cards[a][b][r.card]
      BY <1>5 DEF TypeOK
    <2> DEFINE c == [row EXCEPT !.status = "confirmed"]
    <2>3. /\ c \in Card /\ c.in = row.in /\ c.out = row.out
          /\ c.status = "confirmed"
      BY <2>2 DEF Card, Status
    <2>4. UNCHANGED cards \/ (r.card # 0 /\ (Save(a, b, r.card, NoCard) \/ Save(a, b, r.card, c)))
      BY <1>1, <1>16, <2>2 DEF SetCloseMessage
    <2> HIDE DEF c
    <2>5. row = r.snap
      BY <1>1, <1>4, <2>2 DEF UpToDate
    <2>6. RowVouched(a, b)
      <3>1. CASE UNCHANGED cards
        BY <2>1, <3>1 DEF RowVouched
      <3>2. CASE r.card # 0 /\ Save(a, b, r.card, NoCard)
        BY <1>9, <1>11, <2>1, <3>2 DEF Linked
      <3>3. CASE r.card # 0 /\ Save(a, b, r.card, c)
        BY <1>7, <1>11, <2>1, <2>3, <2>5, <3>3 DEF Linked
      <3> QED
        BY <2>4, <3>1, <3>2, <3>3
    <2>7. VouchesStay => FlowMoves(f)
      BY <1>2, <1>16, AnswerEndMoves DEF SetCloseMessage
    <2> QED
      BY <1>8, <2>1, <2>6, <2>7
  <1>17. CASE DeleteCard(r)
    <2>1. UNCHANGED <<made, offered>> /\ OffersGrow
      BY <1>12, <1>17 DEF DeleteCard
    <2>2. r.card # 0 /\ Save(a, b, r.card, NoCard)
      BY <1>1, <1>4, <1>17 DEF DeleteCard, Serving, UpToDate
    <2>3. RowVouched(a, b)
      BY <1>9, <1>11, <2>1, <2>2 DEF Linked
    <2>4. VouchesStay => FlowMoves(f)
      BY <1>2, <1>17, AnswerEndMoves DEF DeleteCard
    <2> QED
      BY <1>8, <2>1, <2>3, <2>4
  <1> QED
    BY <1>13, <1>14, <1>15, <1>16, <1>17 DEF Commit

LEMMA TokenStep ==
    ASSUME TypeOK, SerialInv, TokenInv, [Next]_vars
    PROVE  TokenInv'
  <1>1. ASSUME UNCHANGED <<cards, made, offered>>
        PROVE  OffersGrow /\ VouchesStay /\ Provenances'
    BY <1>1 DEF OffersGrow, VouchesStay, Vouched, Provenances, Provenance, TokenInv
  <1>2. ASSUME NEW f \in Flows, NEW op \in Ops, NEW i \in Keys, Start(f, op, i)
        PROVE  TokenInv'
    BY <1>1, <1>2, StartMoves, TokensKept DEF Start
  <1>3. ASSUME NEW f \in Flows, FlowStep(f) \/ GiveUp(f)
        PROVE  TokenInv'
    <2>1. UNCHANGED <<cards, made, offered>>
      BY <1>3 DEF FlowStep, GiveUp, GetOpenMessage, GetCloseMessage, Settle
    <2> QED
      BY <1>1, <1>3, <2>1, FlowStepMoves, TokensKept
  <1>4. ASSUME NEW r \in reqs, Lose(r)
        PROVE  TokenInv'
    <2>1. r.flow \in Flows
      BY DEF TypeOK, Request
    <2>2. Fail(r) /\ UNCHANGED <<cards, made, offered>>
      BY <1>4 DEF Lose
    <2> QED
      BY <1>1, <2>1, <2>2, FailMoves, TokensKept
  <1>5. CASE UNCHANGED vars
    BY <1>5 DEF vars, TokenInv, Provenance, FlowVouched, Vouched, RequestVouched, Pending,
                Node, About, ToContact
  <1> QED
    BY <1>2, <1>3, <1>4, <1>5, ReadTokens, CommitTokens DEF Next

(***************************************************************************)
(* A card lets its contact in only with a token the account's own user has *)
(* offered, and uses only tokens the contact has offered: no late status   *)
(* request and no repeated message gives life to a token that no user ever *)
(* asked to hand out (api_setCardStatus.go, api_setOpenMessage.go).        *)
(***************************************************************************)
THEOREM TokensWereOffered == ASSUME ~Overlap PROVE Spec => []TokensOffered
  <1>1. TokenInv => TokensOffered
    BY BoundAssumption DEF TokenInv, Provenance, TokensOffered, Ids, Keys
  <1> QED
    BY <1>1, SerialAlways, TokenInit, TokenStep, PTL DEF Spec

=============================================================================
