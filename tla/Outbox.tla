------------------------------- MODULE Outbox -------------------------------
(***************************************************************************)
(* What a node promises about its notifications: a saved one is kept until *)
(* it was sent, and may be sent again and again.  Sending says nothing     *)
(* about arriving, and a notification may go out before it is saved.       *)
(***************************************************************************)
CONSTANT Notification

VARIABLES
    rows,   \* the saved notifications
    tried   \* those sent at least once

vars == <<rows, tried>>

Init == rows = {} /\ tried = {}

Save == \E saved \in SUBSET Notification : rows' = rows \cup saved /\ UNCHANGED tried
Send == \E sent \in SUBSET Notification : tried' = tried \cup sent /\ UNCHANGED rows
Delete == \E gone \in SUBSET tried : rows' = rows \ gone /\ UNCHANGED tried

Next == Save \/ Send \/ Delete

Spec == Init /\ [][Next]_vars
=============================================================================
