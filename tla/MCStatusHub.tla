---------------------------- MODULE MCStatusHub ----------------------------
(* Account a with websockets c1 (mode=ring) and c2, account b with c3; two  *)
(* handlers that change a, one contact that rings a, one logout of a, and a *)
(* handler that changes b.                                                  *)
EXTENDS StatusHub, TLC
CONSTANTS a, b, c1, c2, c3, w1, w2, w3, w4, w5
MCOwner ==
    [x \in Conns \cup Workers |-> IF x \in {c3, w5} THEN b ELSE a]
MCTask  ==
    [w \in Workers |-> CASE w = w3 -> "ring" [] w = w4 -> "clear" [] OTHER -> "status"]
MCRing  == {c1}
=============================================================================
