----------------------------- MODULE MCContact -----------------------------
(* Calls of alice: f1, f3 and f5; of bob: f2 and f4. *)
EXTENDS Contact, TLC
CONSTANTS alice, bob, f1, f2, f3, f4, f5
Caller  == (f1 :> alice) @@ (f2 :> bob) @@ (f3 :> alice) @@ (f4 :> bob) @@ (f5 :> alice)
MCBy    == [f \in Flows |-> Caller[f]]
MCTo    == [f \in Flows |-> IF Caller[f] = alice THEN bob ELSE alice]
=============================================================================
