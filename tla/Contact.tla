------------------------------- MODULE Contact -------------------------------
(***************************************************************************)
(* The contact handshake: how two accounts, each on its own node, come to  *)
(* hold a card of each other, exchange access tokens through signed open   *)
(* messages and withdraw them with close messages.                         *)
(*                                                                         *)
(* A flow is one call of the SDK's ContactModule (app/sdk/src/contact.ts): *)
(* a sequence of HTTP requests, to the caller's own node and to the        *)
(* contact's node, where each waits for the answer of the one before.  A   *)
(* request is served by a Go handler that first reads the card and later,  *)
(* in a transaction, writes back what it computed from what it had read.   *)
(* fetchWithTimeout abandons an answer after 15 s and never cancels the    *)
(* request, so a request outlives the flow that sent it.                   *)
(*                                                                         *)
(* Left out: the profile fields of a card, the notified revisions and the  *)
(* revision counter every handler bumps (its own concern, the same in all  *)
(* handlers), push events, groups and channel membership.                  *)
(***************************************************************************)
EXTENDS Naturals, FiniteSets

CONSTANTS
    Accounts,   \* the accounts, each with the node that hosts it
    Flows,      \* SDK calls; each happens at most once
    By, To,     \* the account that makes a flow, and the contact it is about
    Ops,        \* which SDK calls a run may make
    MaxCards,   \* bound: cards an account creates for one contact
    MaxActive,  \* calls one account runs at a time (its devices)
    Overlap,    \* may two handlers of a node overlap?
    Lossy       \* may requests and answers be lost or late?

AllOps == {"add", "addConnect", "connect", "disconnect", "confirm", "deny", "ignore", "remove"}

ASSUME FlowAssumption ==
    /\ By \in [Flows -> Accounts]
    /\ To \in [Flows -> Accounts]
    /\ \A f \in Flows : By[f] # To[f]
    /\ Ops \subseteq AllOps

ASSUME BoundAssumption ==
    /\ MaxCards \in Nat \ {0}
    /\ MaxActive \in Nat \ {0}
    /\ Overlap \in BOOLEAN
    /\ Lossy \in BOOLEAN

VARIABLES
    cards,      \* cards[a][b][i]: the i-th card a created for b
    made,       \* made[a][b]: how many cards a has created for b
    minted,     \* made-up access tokens: minted[a][b] of a for b so far
    flow,       \* what the SDK knows in the middle of a flow
    reqs,       \* requests in flight or being served
    offered,    \* history: tokens a offered b by asking to connect
    revoked     \* history: tokens of a for b that a's own user withdrew

vars == <<cards, made, minted, flow, reqs, offered, revoked>>

\* Primary keys; key 0 stands for a query that finds nothing, and holds no row.
Ids  == 1 .. MaxCards
Keys == 0 .. MaxCards

Status == {"pending", "confirmed", "requested", "connecting", "connected"}

\* ParamContactToken accepts the in-token of a card in one of these states.
Linked == {"connecting", "connected"}

\* Token 0 stands for the empty string, status "none" for no row.
Card   == [status : Status \cup {"none"}, in : Nat, out : Nat]
NoCard == [status |-> "none", in |-> 0, out |-> 0]

Waiting == {"adding", "connecting", "opening", "linking", "confirming", "closing", "removing"}
Pc      == Waiting \cup {"idle", "getOpen", "getClose", "settling", "done"}
Flow    == [pc : Pc, op : AllOps \cup {"none"}, card : Keys, seen : Status \cup {"none"}]

Request == [flow   : Flows,
            kind   : {"add", "status", "open", "close", "remove"},
            card   : Keys,                  \* the card addressed, or found
            status : Status \cup {"none"},  \* argument of a status request
            token  : Nat,                   \* argument of status and open
            read   : BOOLEAN,               \* has the handler read the card?
            snap   : Card]                  \* what it read

\* Messages go to the contact's node, all other requests to the caller's own.
ToContact(r) == r.kind \in {"open", "close"}
Node(r)      == IF ToContact(r) THEN To[r.flow] ELSE By[r.flow]
About(r)     == IF ToContact(r) THEN By[r.flow] ELSE To[r.flow]

\* What a query by guid finds: the card with the lowest key, 0 if none.
Live(a, b)   == {i \in Ids : cards[a][b][i].status # "none"}

Lookup(a, b) == IF Live(a, b) = {} THEN {0}
                ELSE {i \in Live(a, b) : \A j \in Live(a, b) : i <= j}

Active(a) == {f \in Flows : By[f] = a /\ flow[f].pc \notin {"idle", "done"}}
Quiet     == reqs = {} /\ \A f \in Flows : flow[f].pc \in {"idle", "done"}

Init ==
    /\ cards   = [a \in Accounts |-> [b \in Accounts |-> [i \in Keys |-> NoCard]]]
    /\ made    = [a \in Accounts |-> [b \in Accounts |-> 0]]
    /\ minted  = [a \in Accounts |-> [b \in Accounts |-> 0]]
    /\ flow    = [f \in Flows |-> [pc |-> "idle", op |-> "none", card |-> 0, seen |-> "none"]]
    /\ reqs    = {}
    /\ offered = [a \in Accounts |-> [b \in Accounts |-> {}]]
    /\ revoked = [a \in Accounts |-> [b \in Accounts |-> {}]]

-----------------------------------------------------------------------------
(***************************************************************************)
(* The SDK side of a flow.                                                 *)
(***************************************************************************)

Sent(f, kind, i, status, token) ==
    [flow |-> f, kind |-> kind, card |-> i, status |-> status, token |-> token,
     read |-> FALSE, snap |-> NoCard]

SetConnecting(f, i)   == Sent(f, "status", i, "connecting", 0)
SetConfirmed(f, i)    == Sent(f, "status", i, "confirmed", 0)
SetConnected(f, i, t) == Sent(f, "status", i, "connected", t)
RemoveCard(f, i)      == Sent(f, "remove", i, "none", 0)

\* The request a flow begins with: deny begins by asking for a close message.
FirstPc(op, seen) ==
    CASE op \in {"add", "addConnect"}        -> "adding"
      [] op = "connect"                      -> "connecting"
      [] op \in {"disconnect", "confirm"}    -> "confirming"
      [] op = "deny"                         -> "getClose"
      [] op = "remove"                       -> "removing"
      [] op = "ignore"                       -> IF seen = "pending" THEN "removing" ELSE "confirming"

Issued(f, pc, i) ==
    CASE pc = "adding"     -> {Sent(f, "add", 0, "none", 0)}
      [] pc = "connecting" -> {SetConnecting(f, i)}
      [] pc = "confirming" -> {SetConfirmed(f, i)}
      [] pc = "removing"   -> {RemoveCard(f, i)}
      [] OTHER             -> {}

\* The user adds the contact, or acts on a card in the client's list.
Start(f, op, i) ==
    LET a    == By[f]
        b    == To[f]
        seen == cards[a][b][i].status
        pc   == FirstPc(op, seen)
    IN  /\ flow[f].pc = "idle"
        /\ Cardinality(Active(a)) < MaxActive
        /\ IF op \in {"add", "addConnect"} THEN i = 0 ELSE i \in Live(a, b)
        /\ flow' = [flow EXCEPT ![f] = [pc |-> pc, op |-> op, card |-> i, seen |-> seen]]
        /\ reqs' = reqs \cup Issued(f, pc, i)
        /\ UNCHANGED <<cards, made, minted, offered, revoked>>

Goto(f, pc) == flow' = [flow EXCEPT ![f].pc = pc]

\* What a failed request, or a failed message, leads to: denyCard goes on with
\* its second half, every other call ends.
AfterFailure(f) ==
    IF flow[f].op = "deny" /\ flow[f].pc \in {"getClose", "closing"} THEN "settling" ELSE "done"

\* GetOpenMessage at the own node; the message is then sent to the contact.
GetOpenMessage(f) ==
    LET a == By[f]
        c == cards[a][To[f]][flow[f].card]
    IN  /\ flow[f].pc = "getOpen"
        /\ IF c.status \in Linked
             THEN /\ Goto(f, "opening")
                  /\ reqs' = reqs \cup {Sent(f, "open", 0, "none", c.in)}
             ELSE Goto(f, "done") /\ UNCHANGED reqs
        /\ UNCHANGED <<cards, made, minted, offered, revoked>>

\* GetCloseMessage at the own node, refused while the card is linked.
GetCloseMessage(f) ==
    LET c == cards[By[f]][To[f]][flow[f].card]
    IN  /\ flow[f].pc = "getClose"
        /\ IF c.status \in Linked \cup {"none"}
             THEN Goto(f, AfterFailure(f)) /\ UNCHANGED reqs
             ELSE /\ Goto(f, "closing")
                  /\ reqs' = reqs \cup {Sent(f, "close", 0, "none", 0)}
        /\ UNCHANGED <<cards, made, minted, offered, revoked>>

\* The second half of denyCard acts on the status the client shows: the one
\* seen at the start, or a newer one if a sync came between.
Settle(f) ==
    LET i == flow[f].card
    IN  /\ flow[f].pc = "settling"
        /\ \E shown \in {flow[f].seen, cards[By[f]][To[f]][i].status} :
             LET pc == IF shown = "pending" THEN "removing" ELSE "confirming"
             IN  /\ shown # "none"
                 /\ Goto(f, pc)
                 /\ reqs' = reqs \cup Issued(f, pc, i)
        /\ UNCHANGED <<cards, made, minted, offered, revoked>>

\* The call runs into its 15 s timeout, or its connection breaks; a request
\* that is out stays out.
GiveUp(f) ==
    /\ Lossy
    /\ flow[f].pc \in Waiting \cup {"getOpen", "getClose"}
    /\ Goto(f, AfterFailure(f))
    /\ UNCHANGED <<cards, made, minted, reqs, offered, revoked>>

-----------------------------------------------------------------------------
(***************************************************************************)
(* Answers.  A flow that waits for the request moves on, one that gave up  *)
(* does not notice.                                                        *)
(***************************************************************************)

AwaitedPc(r) ==
    CASE r.kind = "add"    -> {"adding"}
      [] r.kind = "open"   -> {"opening"}
      [] r.kind = "close"  -> {"closing"}
      [] r.kind = "remove" -> {"removing"}
      [] r.kind = "status" -> {"connecting", "confirming", "linking"}

Awaited(r) == flow[r.flow].pc \in AwaitedPc(r)

Fail(r) ==
    /\ reqs' = reqs \ {r}
    /\ IF Awaited(r) THEN Goto(r.flow, AfterFailure(r.flow)) ELSE UNCHANGED flow

Ignore(r) == reqs' = reqs \ {r} /\ UNCHANGED flow

\* The flow takes up pc about card i, and sends what that takes.
Proceed(r, pc, i, next) ==
    /\ flow' = [flow EXCEPT ![r.flow] = [@ EXCEPT !.pc = pc, !.card = i]]
    /\ reqs' = (reqs \ {r}) \cup next

AnswerAdd(r, i) ==
    LET f == r.flow
    IN  IF ~Awaited(r) THEN Ignore(r)
        ELSE IF flow[f].op = "addConnect"
               THEN Proceed(r, "connecting", i, {SetConnecting(f, i)})
               ELSE Proceed(r, "done", i, {})

AnswerStatus(r) ==
    LET f  == r.flow
        pc == CASE flow[f].pc = "connecting" -> "getOpen"
                [] flow[f].pc = "confirming" /\ flow[f].op = "disconnect" -> "getClose"
                [] OTHER -> "done"
    IN  IF Awaited(r) THEN Proceed(r, pc, flow[f].card, {}) ELSE Ignore(r)

\* Mutant: connectCard takes any answer for a connection.
AnswerOpenAlways(r, status, token) ==
    LET f == r.flow
        i == flow[f].card
    IN  IF Awaited(r) THEN Proceed(r, "linking", i, {SetConnected(f, i, token)}) ELSE Ignore(r)

AnswerOpen(r, status, token) ==
    LET f == r.flow
        i == flow[f].card
    IN  IF ~Awaited(r) THEN Ignore(r)
        ELSE IF status = "connected"
               THEN Proceed(r, "linking", i, {SetConnected(f, i, token)})
               ELSE Proceed(r, "done", i, {})

AnswerClose(r) ==
    IF Awaited(r) THEN Proceed(r, AfterFailure(r.flow), flow[r.flow].card, {}) ELSE Ignore(r)

AnswerRemove(r) ==
    IF Awaited(r) THEN Proceed(r, "done", flow[r.flow].card, {}) ELSE Ignore(r)

-----------------------------------------------------------------------------
(***************************************************************************)
(* The handlers.  Read loads the card outside of any transaction; the      *)
(* second step computes the new row from that copy and saves all of it.    *)
(***************************************************************************)

\* A request does not arrive, or the message in it is older than
\* APPConnectExpire and refused.
Lose(r) ==
    /\ Lossy
    /\ r \in reqs /\ ~r.read
    /\ Fail(r)
    /\ UNCHANGED <<cards, made, minted, offered, revoked>>

Found(r) == IF r.kind \in {"status", "remove"} THEN {r.card} ELSE Lookup(Node(r), About(r))

ReadAs(r, i, c) == [r EXCEPT !.read = TRUE, !.card = i, !.snap = c]

Read(r) ==
    /\ r \in reqs /\ ~r.read
    /\ ~Overlap => \A q \in reqs : q.read => Node(q) # Node(r)
    /\ \E i \in Found(r) :
         LET c == cards[Node(r)][About(r)][i]
         IN  IF r.kind \in {"status", "remove"} /\ c.status = "none"
               THEN Fail(r)    \* 404, card has been deleted
               ELSE /\ reqs' = (reqs \ {r}) \cup {ReadAs(r, i, c)}
                    /\ UNCHANGED flow
    /\ UNCHANGED <<cards, made, minted, offered, revoked>>

Serving(r, kind) == r \in reqs /\ r.read /\ r.kind = kind

Save(a, b, i, c) == cards' = [cards EXCEPT ![a][b][i] = c]

Fresh(a, b) == minted[a][b] + 1
Mint(a, b)  == minted' = [minted EXCEPT ![a][b] = Fresh(a, b)]

\* A new row, with a new key and a new in-token.
Create(a, b, status, out) ==
    /\ made[a][b] < MaxCards
    /\ made' = [made EXCEPT ![a][b] = @ + 1]
    /\ Mint(a, b)
    /\ Save(a, b, made[a][b] + 1, [status |-> status, in |-> Fresh(a, b), out |-> out])

AddCard(r) ==
    LET a == Node(r)
        b == About(r)
    IN  /\ Serving(r, "add")
        /\ IF r.card = 0
             THEN /\ Create(a, b, "confirmed", 0)
                  /\ AnswerAdd(r, made[a][b] + 1)
             ELSE /\ Save(a, b, r.card,
                          [r.snap EXCEPT !.status = IF @ = "pending" THEN "confirmed" ELSE @])
                  /\ AnswerAdd(r, r.card)
                  /\ UNCHANGED <<made, minted>>
        /\ UNCHANGED <<offered, revoked>>

\* Mutant: a card that has a token keeps it.
NeedsFirstToken(r) == r.status = "connecting" /\ r.snap.in = 0

\* Only a card that leaves an unlinked state for connecting gets a new token.
NeedsToken(r) == r.status = "connecting" /\ r.snap.status \notin Linked

SetCardStatus(r) ==
    LET a  == Node(r)
        b  == About(r)
        in == IF NeedsToken(r) THEN Fresh(a, b) ELSE r.snap.in
    IN  /\ Serving(r, "status")
        /\ Save(a, b, r.card, [status |-> r.status, in |-> in,
                               out |-> IF r.token # 0 THEN r.token ELSE r.snap.out])
        /\ IF NeedsToken(r) THEN Mint(a, b) ELSE UNCHANGED minted
        /\ offered' = IF r.status = "connecting"
                        THEN [offered EXCEPT ![a][b] = @ \cup {in}] ELSE offered
        /\ revoked' = IF r.status = "confirmed"
                        THEN [revoked EXCEPT ![a][b] = @ \cup {r.snap.in}] ELSE revoked
        /\ AnswerStatus(r)
        /\ UNCHANGED made

\* Mutant: the open message connects a card whose user has not asked.
OpenedUnasked(status) ==
    CASE status \in {"confirmed", "connecting"} -> "connected"
      [] OTHER -> status

\* Mutant: a status no other code knows.
OpenedUnknown(status) ==
    CASE status = "confirmed"  -> "opened"
      [] status = "connecting" -> "connected"
      [] OTHER                 -> status

\* Mutant: the open message leaves a card that waits for it waiting.
OpenedHalf(status) == IF status = "confirmed" THEN "requested" ELSE status

\* The status a contact's open message leaves the card in.
Opened(status) ==
    CASE status = "confirmed"  -> "requested"
      [] status = "connecting" -> "connected"
      [] OTHER                 -> status

\* Mutant: the first token of a contact is kept.
OpenedCardKeeps(r) ==
    [r.snap EXCEPT !.status = Opened(@), !.out = IF @ = 0 THEN r.token ELSE @]

OpenedCard(r) == [r.snap EXCEPT !.status = Opened(@), !.out = r.token]

SetOpenMessage(r) ==
    LET a == Node(r)
        b == About(r)
        s == Opened(r.snap.status)
    IN  /\ Serving(r, "open")
        /\ IF r.card = 0
             THEN /\ Create(a, b, "pending", r.token)
                  /\ AnswerOpen(r, "pending", Fresh(a, b))
             ELSE /\ Save(a, b, r.card, OpenedCard(r))
                  /\ AnswerOpen(r, s, r.snap.in)
                  /\ UNCHANGED <<made, minted>>
        /\ UNCHANGED <<offered, revoked>>

\* The close message deletes a pending card; of any other it updates the
\* status column alone, if the row is still there.
SetCloseMessage(r) ==
    LET a   == Node(r)
        b   == About(r)
        row == cards[a][b][r.card]
    IN  /\ Serving(r, "close")
        /\ IF r.card = 0 THEN UNCHANGED cards
           ELSE IF r.snap.status = "pending" THEN Save(a, b, r.card, NoCard)
           ELSE IF row.status = "none" THEN UNCHANGED cards
           ELSE Save(a, b, r.card, [row EXCEPT !.status = "confirmed"])
        /\ AnswerClose(r)
        /\ UNCHANGED <<made, minted, offered, revoked>>

DeleteCard(r) ==
    LET a == Node(r)
        b == About(r)
    IN  /\ Serving(r, "remove")
        /\ Save(a, b, r.card, NoCard)
        /\ revoked' = [revoked EXCEPT ![a][b] = @ \cup {r.snap.in}]
        /\ AnswerRemove(r)
        /\ UNCHANGED <<made, minted, offered>>

-----------------------------------------------------------------------------
FlowStep(f) == GetOpenMessage(f) \/ GetCloseMessage(f) \/ Settle(f)

Commit(r) ==
    \/ AddCard(r)
    \/ SetCardStatus(r)
    \/ SetOpenMessage(r)
    \/ SetCloseMessage(r)
    \/ DeleteCard(r)

Next ==
    \/ \E f \in Flows, op \in Ops, i \in Keys : Start(f, op, i)
    \/ \E f \in Flows : FlowStep(f)
    \/ \E f \in Flows : GiveUp(f)
    \/ \E r \in reqs : Lose(r)
    \/ \E r \in reqs : Read(r)
    \/ \E r \in reqs : Commit(r)

Spec == Init /\ [][Next]_vars

\* The node's scheduler runs every handler, the SDK's event loop every flow;
\* the user need not do anything, and the network need not lose anything.
Progress == \/ \E f \in Flows : FlowStep(f)
            \/ \E r \in reqs : Read(r) \/ Commit(r)

FairSpec == Spec /\ WF_vars(Progress)

-----------------------------------------------------------------------------
TypeOK ==
    /\ cards   \in [Accounts -> [Accounts -> [Keys -> Card]]]
    /\ made    \in [Accounts -> [Accounts -> Keys]]
    /\ minted  \in [Accounts -> [Accounts -> Nat]]
    /\ flow    \in [Flows -> Flow]
    /\ reqs    \subseteq Request
    /\ offered \in [Accounts -> [Accounts -> SUBSET Nat]]
    /\ revoked \in [Accounts -> [Accounts -> SUBSET Nat]]

\* The tokens with which b is let in by a right now.
Accepted(a, b) == {cards[a][b][i].in : i \in {j \in Ids : cards[a][b][j].status \in Linked}}

\* What a card of a for b in status s says about who has asked.
Consent(a, b, s) ==
    /\ s \in Linked => offered[a][b] # {}
    /\ s = "connected" => offered[b][a] # {}

(***************************************************************************)
(* Why MutualConsent holds: the rows, the copies handlers work on, and the *)
(* requests that are out all testify to who has asked.                     *)
(***************************************************************************)
Testifies(r) ==
    /\ Consent(Node(r), About(r), r.snap.status)
    /\ r.kind = "open" => offered[About(r)][Node(r)] # {}
    /\ r.kind = "status" => Consent(Node(r), About(r), r.status) \/ r.status = "connecting"

ConsentInv ==
    /\ \A a, b \in Accounts : \A i \in Keys : Consent(a, b, cards[a][b][i].status)
    /\ \A r \in reqs : Testifies(r)

(***************************************************************************)
(* Consent: a card is connected only if both users have asked to connect,  *)
(* however requests overlap, are lost or come late.                        *)
(***************************************************************************)
MutualConsent ==
    \A a, b \in Accounts : \A i \in Ids :
        cards[a][b][i].status = "connected" => offered[a][b] # {} /\ offered[b][a] # {}

(***************************************************************************)
(* A card lets its contact in only with a token that the account's own     *)
(* user offered, and uses only tokens that the contact offered.            *)
(***************************************************************************)
TokensOffered ==
    \A a, b \in Accounts : \A i \in Ids :
        LET c == cards[a][b][i]
        IN  /\ c.status \in Linked => c.in \in offered[a][b]
            /\ c.out # 0 => c.out \in offered[b][a]

(***************************************************************************)
(* While an account runs one call at a time and nothing is lost or late, a *)
(* user who withdraws a contact's access has withdrawn that token for      *)
(* good: connecting again issues another.                                  *)
(***************************************************************************)
RevokedForGood ==
    \A a, b \in Accounts : Accepted(a, b) \cap revoked[a][b] = {}

(***************************************************************************)
(* What is left of that when requests are late and calls and handlers      *)
(* overlap: a token that was withdrawn is accepted again only by a request *)
(* of the account's own user, one that says connected, or by a handler     *)
(* that saves the card as it read it when it still accepted the token.  No *)
(* message of the contact and no new request to connect brings it back.    *)
(***************************************************************************)
Reinstates(r, a, b, t) ==
    /\ r.read /\ Node(r) = a /\ About(r) = b
    /\ \/ r.kind = "status" /\ r.status = "connected"
       \/ r.snap.status \in Linked /\ r.snap.in = t

Readmits ==
    \A a, b \in Accounts : \A t \in revoked[a][b] :
        t \in Accepted(a, b)' /\ t \notin Accepted(a, b)
            => \E r \in reqs \ reqs' : Reinstates(r, a, b, t)

WithdrawnStaysOut == [][Readmits]_vars

(***************************************************************************)
(* Between calls two connected cards hold each other's token, while the    *)
(* users do nothing but connect and disconnect, one call at a time, and    *)
(* nothing is lost or late.                                                *)
(***************************************************************************)
TokensAgree ==
    Quiet => \A a, b \in Accounts : \A i, j \in Ids :
        cards[a][b][i].status = "connected" /\ cards[b][a][j].status = "connected"
            => cards[a][b][i].out = cards[b][a][j].in

(***************************************************************************)
(* An account has at most one card for a contact.  Nothing in the node     *)
(* sees to that: it holds while the handlers of a node do not overlap, and *)
(* two that both find no card create one each (ContactTwice.cfg).          *)
(***************************************************************************)
OneCardPerContact ==
    \A a, b \in Accounts : Cardinality(Live(a, b)) <= 1

(***************************************************************************)
(* When both users ask to connect and neither does anything else, and      *)
(* nothing is lost, both end up connected with each other's token.         *)
(***************************************************************************)
Connected(a, b) ==
    \E i, j \in Ids : /\ cards[a][b][i].status = "connected"
                      /\ cards[b][a][j].status = "connected"
                      /\ cards[a][b][i].out = cards[b][a][j].in
                      /\ cards[b][a][j].out = cards[a][b][i].in

AllAsked    == \A f \in Flows : flow[f].op = "addConnect"
Established == AllAsked ~> [](\A f \in Flows : Connected(By[f], To[f]))

(***************************************************************************)
(* While handlers of a node do not overlap, the handshake implements       *)
(* Relationship, whatever the network loses or delays.                     *)
(***************************************************************************)
StandsOf(a, b) ==
    LET i == CHOOSE i \in Lookup(a, b) : TRUE IN cards[a][b][i].status

Abstract == INSTANCE Relationship WITH
    stand <- [a \in Accounts |-> [b \in Accounts |-> StandsOf(a, b)]],
    asked <- [a \in Accounts |-> [b \in Accounts |-> offered[a][b] # {}]]

ImplementsRelationship == Abstract!Spec
=============================================================================
