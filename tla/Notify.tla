------------------------------- MODULE Notify -------------------------------
(***************************************************************************)
(* The notifications one node sends to its accounts' contacts.  A request  *)
(* handler saves a row for a contact and puts it in a bounded channel; one *)
(* goroutine takes from the channel, sends, and deletes the row.  When the *)
(* process starts, that goroutine first puts every saved row in the        *)
(* channel itself.  A change of a profile saves the rows of all contacts   *)
(* in one transaction and puts each of them while the transaction is open. *)
(*                                                                         *)
(* The database has one writer at a time: a write that finds it taken      *)
(* waits for some seconds and then fails.  What a notification does when   *)
(* it arrives is CardSync's subject; here sending is one step that tells   *)
(* the sender nothing.                                                     *)
(***************************************************************************)
EXTENDS Integers, Sequences, Functions

CONSTANTS
    Handlers,      \* request handlers that notify contacts, once each
    Profiles,      \* those that run SetProfileNotification
    Contacts,      \* how many connected cards each of them notifies
    Buffer,        \* APPNotifyBuffer
    MaxStops       \* how often the process may stop

ASSUME NotifyAssumption ==
    /\ Profiles \subseteq Handlers
    /\ Contacts \in Nat \ {0} /\ Buffer \in Nat \ {0} /\ MaxStops \in Nat

VARIABLES
    rows,          \* the notifications committed to the database
    channel,       \* notify
    boot,          \* rows found at the start that are still to be queued
    sender,        \* where SendNotifications is; "off" when the process is
    cur,           \* the notification it holds: none or one
    at,            \* where each handler is: pc and the contact it is at
    tried,         \* notifications sent at least once
    stops

vars == <<rows, channel, boot, sender, cur, at, tried, stops>>

Notification == Handlers \X (1 .. Contacts)

Init ==
    /\ rows = {} /\ channel = <<>> /\ boot = {} /\ cur = {} /\ tried = {}
    /\ sender = "off" /\ stops = 0
    /\ at = [h \in Handlers |-> [pc |-> "save", i |-> 1]]

Up == sender # "off"
Full == Len(channel) >= Buffer
Current(h) == <<h, at[h].i>>

\* The rows that h saved in a transaction it has not committed.
Uncommitted(h) ==
    {n \in {h} \X (1 .. Contacts) :
        /\ h \in Profiles
        /\ \/ at[h].pc \in {"put", "commit"} /\ n[2] <= at[h].i
           \/ at[h].pc = "save" /\ n[2] < at[h].i}

Locked(h) == Uncommitted(h) # {}

-----------------------------------------------------------------------------
(* The handlers.                                                           *)

Sending == <<boot, sender, cur, tried, stops>>

Goto(h, pc) == at' = [at EXCEPT ![h].pc = pc]

NextContact(h) ==
    IF at[h].i < Contacts
    THEN at' = [at EXCEPT ![h] = [pc |-> "save", i |-> @.i + 1]]
    ELSE Goto(h, IF h \in Profiles /\ at[h].pc = "put" THEN "commit" ELSE "done")

Save(h) ==
    /\ Up /\ at[h].pc = "save"
    /\ \A g \in Handlers \ {h} : ~Locked(g)
    /\ rows' = IF h \in Profiles THEN rows ELSE rows \cup {Current(h)}
    /\ Goto(h, "put")
    /\ UNCHANGED <<channel, Sending>>

\* Another transaction was open for too long.  The error is only logged.
SaveFails(h) ==
    /\ Up /\ at[h].pc = "save"
    /\ \E g \in Handlers \ {h} : Locked(g)
    /\ IF h \in Profiles THEN Goto(h, "done") ELSE NextContact(h)
    /\ UNCHANGED <<rows, channel, Sending>>

\* Mutant: a put that does not wait for room.
PutAnyway(h) ==
    /\ Up /\ at[h].pc = "put"
    /\ channel' = Append(channel, Current(h))
    /\ NextContact(h)
    /\ UNCHANGED <<rows, Sending>>

Put(h) ==
    /\ Up /\ at[h].pc = "put" /\ ~Full
    /\ channel' = Append(channel, Current(h))
    /\ NextContact(h)
    /\ UNCHANGED <<rows, Sending>>

Commit(h) ==
    /\ Up /\ at[h].pc = "commit"
    /\ rows' = rows \cup Uncommitted(h)
    /\ Goto(h, "done")
    /\ UNCHANGED <<channel, Sending>>

-----------------------------------------------------------------------------
(* The goroutine that sends.                                               *)

Start ==
    /\ sender = "off" /\ sender' = "find"
    /\ UNCHANGED <<rows, channel, boot, cur, at, tried, stops>>

\* Handlers may already be running: what they saved is found as well.
Find ==
    /\ sender = "find" /\ sender' = "queue"
    /\ boot' = rows
    /\ UNCHANGED <<rows, channel, cur, at, tried, stops>>

\* Nothing is taken from the channel before every found row is in it.
\* Mutant: the rows that find no room are left behind.
QueueSome ==
    /\ sender = "queue"
    /\ IF Full THEN boot' = {} /\ UNCHANGED channel
       ELSE \E n \in boot : channel' = Append(channel, n) /\ boot' = boot \ {n}
    /\ UNCHANGED <<rows, sender, cur, at, tried, stops>>

Queue ==
    /\ sender = "queue" /\ ~Full
    /\ \E n \in boot : channel' = Append(channel, n) /\ boot' = boot \ {n}
    /\ UNCHANGED <<rows, sender, cur, at, tried, stops>>

Queued ==
    /\ sender = "queue" /\ boot = {} /\ sender' = "select"
    /\ UNCHANGED <<rows, channel, boot, cur, at, tried, stops>>

\* Mutant: the row is deleted when its notification is taken from the channel.
ReceiveDeletes ==
    /\ sender = "select" /\ channel # <<>> /\ sender' = "send"
    /\ cur' = {Head(channel)} /\ channel' = Tail(channel)
    /\ rows' = rows \ cur'
    /\ UNCHANGED <<boot, at, tried, stops>>

Receive ==
    /\ sender = "select" /\ channel # <<>> /\ sender' = "send"
    /\ cur' = {Head(channel)} /\ channel' = Tail(channel)
    /\ UNCHANGED <<rows, boot, at, tried, stops>>

\* Received or not, refused or too late: an error is only logged.  A contact's
\* node has ten seconds to answer; a push server has no time limit.
Send ==
    /\ sender = "send" /\ sender' = "delete"
    /\ tried' = tried \cup cur
    /\ UNCHANGED <<rows, channel, boot, cur, at, stops>>

Delete ==
    /\ sender = "delete" /\ sender' = "select"
    /\ \A h \in Handlers : ~Locked(h)
    /\ rows' = rows \ cur /\ cur' = {}
    /\ UNCHANGED <<channel, boot, at, tried, stops>>

\* Mutant: a delete that is tried until it succeeds.
DeleteInsists ==
    /\ sender = "delete" /\ \E h \in Handlers : Locked(h)
    /\ UNCHANGED vars

\* Mutant: the goroutine returns on the first error.
DeleteFailsForGood ==
    /\ sender = "delete" /\ sender' = "exit"
    /\ \E h \in Handlers : Locked(h)
    /\ cur' = {}
    /\ UNCHANGED <<rows, channel, boot, at, tried, stops>>

\* A transaction was open for too long: the row stays until the next start.
DeleteFails ==
    /\ sender = "delete" /\ sender' = "select"
    /\ \E h \in Handlers : Locked(h)
    /\ cur' = {}
    /\ UNCHANGED <<rows, channel, boot, at, tried, stops>>

\* The process stops; what is in memory is gone, and so is an open transaction.
Stop ==
    /\ Up /\ stops < MaxStops /\ stops' = stops + 1
    /\ sender' = "off" /\ channel' = <<>> /\ boot' = {} /\ cur' = {}
    /\ at' = [h \in Handlers |-> IF at[h] = [pc |-> "save", i |-> 1] THEN at[h]
                                 ELSE [at[h] EXCEPT !.pc = "done"]]
    /\ UNCHANGED <<rows, tried>>

HandlerStep(h) == Save(h) \/ SaveFails(h) \/ Put(h) \/ Commit(h)
SenderStep ==
    Start \/ Find \/ Queue \/ Queued \/ Receive \/ Send \/ Delete \/ DeleteFails

Next == SenderStep \/ Stop \/ \E h \in Handlers : HandlerStep(h)

Spec == Init /\ [][Next]_vars

\* A stopped process is started again, and every goroutine goes on when it can:
\* those that wait for room in a channel are served first come, first served.
\* That Send ends assumes that a push server answers or refuses: the requests of
\* SendPushEvent have no time limit (api_setPushEvent.go:84, 140).
FairSpec == Spec /\ WF_vars(SenderStep) /\ \A h \in Handlers : WF_vars(HandlerStep(h))

-----------------------------------------------------------------------------
(* Properties.                                                             *)

TypeOK ==
    /\ rows \subseteq Notification /\ tried \subseteq Notification
    /\ boot \subseteq Notification /\ cur \subseteq Notification
    /\ channel \in Seq(Notification) /\ Len(channel) <= Buffer
    /\ sender \in {"off", "find", "queue", "select", "send", "delete"}
    /\ at \in [Handlers -> [pc : {"save", "put", "commit", "done"}, i : 1 .. Contacts]]
    /\ stops \in 0 .. MaxStops

OnTheWay == Range(channel) \cup boot \cup cur
                \cup {Current(h) : h \in {g \in Handlers : at[g].pc = "put"}}

\* Once the saved rows were looked up, every row was sent, or is still on its
\* way to be: in the channel, in the hands of the sender, or about to be put by
\* the handler that saved it.  A row of none of these would wait for a restart.
NothingLost ==
    sender \notin {"off", "find"} => rows \subseteq tried \cup OnTheWay

\* The node keeps a notification until it was sent, through stops and failed
\* writes: what CardSync takes for granted.
KeptUntilSent == INSTANCE Outbox
KeepsPromise == KeptUntilSent!Spec

\* The start never ends: more was saved than the channel holds, and the only
\* goroutine that takes from it is the one that fills it.
Jammed == sender = "queue" /\ boot # {} /\ Full

\* Every saved notification is sent in the end, unless the start jams.
Forwarded == \A n \in Notification : n \in rows ~> n \in tried \/ Jammed

\* No request hangs on a full channel, not even one that holds the database
\* while the sender waits for the database, unless the start jams.
HandlersGoOn ==
    \A h \in Handlers : at[h].pc = "put" ~> at[h].pc # "put" \/ Jammed

\* "queue all saved notifications" (notify.go:25): the start gets through them.
AllQueued == sender = "queue" ~> sender # "queue"
=============================================================================
