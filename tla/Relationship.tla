---------------------------- MODULE Relationship ----------------------------
(***************************************************************************)
(* What the contact handshake promises, with neither requests nor tokens:  *)
(* where each account stands with each other account, and who may change   *)
(* that.  An account's own user may do anything except link the two alone. *)
(* The contact may only announce itself, take up an offer that was made,   *)
(* or step back; it never gains access by itself.                          *)
(***************************************************************************)
CONSTANTS Accounts

VARIABLES
    stand,  \* stand[a][b]: the status of a's card for b, "none" without one
    asked   \* asked[a][b]: a's user has asked to connect with b

vars == <<stand, asked>>

Standing == {"none", "pending", "confirmed", "requested", "connecting", "connected"}

Init ==
    /\ stand = [a \in Accounts |-> [b \in Accounts |-> "none"]]
    /\ asked = [a \in Accounts |-> [b \in Accounts |-> FALSE]]

Stands(a, b, s) == stand' = [stand EXCEPT ![a][b] = s]

\* What a's user may do about b.
Add(a, b) ==
    /\ stand[a][b] \in {"none", "pending"}
    /\ Stands(a, b, "confirmed")
    /\ UNCHANGED asked

Ask(a, b) ==
    /\ stand[a][b] # "none"
    /\ Stands(a, b, "connecting")
    /\ asked' = [asked EXCEPT ![a][b] = TRUE]

Link(a, b) ==
    /\ stand[a][b] # "none"
    /\ asked[a][b] /\ asked[b][a]
    /\ Stands(a, b, "connected")
    /\ UNCHANGED asked

Withdraw(a, b) ==
    /\ stand[a][b] # "none"
    /\ Stands(a, b, "confirmed")
    /\ UNCHANGED asked

Forget(a, b) == Stands(a, b, "none") /\ UNCHANGED asked

\* What b may do to where a stands.
TakesUp ==
    {<<"none", "pending">>, <<"confirmed", "requested">>, <<"connecting", "connected">>}

Opens(b, a) ==
    /\ asked[b][a]
    /\ \E s \in Standing : <<stand[a][b], s>> \in TakesUp /\ Stands(a, b, s)
    /\ UNCHANGED asked

Closes(b, a) ==
    /\ stand[a][b] # "none"
    /\ Stands(a, b, IF stand[a][b] = "pending" THEN "none" ELSE "confirmed")
    /\ UNCHANGED asked

Next == \E a, b \in Accounts :
    \/ Add(a, b) \/ Ask(a, b) \/ Link(a, b) \/ Withdraw(a, b) \/ Forget(a, b)
    \/ Opens(a, b) \/ Closes(a, b)

Spec == Init /\ [][Next]_vars
=============================================================================
