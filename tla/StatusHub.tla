------------------------------- MODULE StatusHub -------------------------------
(***************************************************************************)
(* The status hub of a node (net/server/internal/api_status.go): one       *)
(* goroutine per websocket, which registers its channels in tables guarded *)
(* by the node-wide mutex wsSync, and the request handlers that send into  *)
(* those channels, through SetStatus, SetRing and ClearStatus, while they  *)
(* hold that mutex.  The channels are unbuffered: a send waits until the   *)
(* goroutine of the websocket receives.                                    *)
(*                                                                         *)
(* Left out: the wsExit channel (nothing in the program calls ExitStatus), *)
(* what a revision and a ring contain, and the order of a table's entries, *)
(* so that a handler goes through them in any order.                       *)
(***************************************************************************)
EXTENDS Naturals, FiniteSets

CONSTANTS
    Accounts,   \* accounts of the node
    Conns,      \* websockets; each is opened at most once
    Workers,    \* request handlers that use the hub; each runs once
    Owner,      \* the account of a websocket or handler
    RingMode,   \* the websockets opened with mode=ring
    Task,       \* what a handler uses the hub for
    Fails       \* may a write to a websocket fail?

None == "none"   \* nobody holds the mutex

Tasks == {"status", "ring", "clear"}

ASSUME HubAssumption ==
    /\ Conns \cap Workers = {}
    /\ None \notin Workers
    /\ Owner \in [Conns \cup Workers -> Accounts]
    /\ RingMode \subseteq Conns
    /\ Task \in [Workers -> Tasks]
    /\ Fails \in BOOLEAN

VARIABLES
    rev,        \* rev[a]: the revisions of a's row, as one number
    sessions,   \* websockets whose app token is still valid
    pc, wpc,    \* where a websocket's goroutine and a handler are
    snap,       \* the revision a goroutine or a handler holds in memory
    told,       \* the revisions written to a websocket
    listening,  \* channels c in statusListener or revisionListener
    parting,    \* channels d in disconnectListener
    open,       \* channels that are made and not closed
    lock,       \* the handler that holds wsSync while it sends
    todo        \* whom a handler that holds wsSync has still to send to

vars == <<rev, sessions, pc, wpc, snap, told, listening, parting, open, lock, todo>>

ConnPc   == {"new", "greeting", "joining", "watching", "serving", "writing",
             "leaving", "closingD", "quitting", "closingC", "closed", "refused"}
WorkerPc == {"new", "loaded", "ready", "sending", "done"}

\* The two channels a websocket's goroutine makes.
Channels == {"c", "d"} \X Conns

Init ==
    /\ rev       = [a \in Accounts |-> 1]
    /\ sessions  = Conns
    /\ pc        = [c \in Conns |-> "new"]
    /\ wpc       = [w \in Workers |-> "new"]
    /\ snap      = [x \in Conns \cup Workers |-> 0]
    /\ told      = [c \in Conns |-> {}]
    /\ listening = {}
    /\ parting   = {}
    /\ open      = {}
    /\ lock      = None
    /\ todo      = [w \in Workers |-> {}]

GotoC(c, s) == pc' = [pc EXCEPT ![c] = s]
GotoW(w, s) == wpc' = [wpc EXCEPT ![w] = s]
Hold(x, n)  == snap' = [snap EXCEPT ![x] = n]
Write(c)    == told' = [told EXCEPT ![c] = @ \cup {snap[c]}]

-----------------------------------------------------------------------------
(***************************************************************************)
(* The goroutine of a websocket.                                           *)
(***************************************************************************)

\* Mutant: the session is loaded without its account, which is then all zeros.
AnnounceBare(c) ==
    /\ pc[c] = "new"
    /\ IF c \in sessions
         THEN GotoC(c, "greeting") /\ Hold(c, 0)
         ELSE GotoC(c, "refused") /\ UNCHANGED snap
    /\ UNCHANGED <<rev, sessions, wpc, told, listening, parting, open, lock, todo>>

\* The announced token is looked up, together with the account's revisions.
Announce(c) ==
    /\ pc[c] = "new"
    /\ IF c \in sessions
         THEN GotoC(c, "greeting") /\ Hold(c, rev[Owner[c]])
         ELSE GotoC(c, "refused") /\ UNCHANGED snap
    /\ UNCHANGED <<rev, sessions, wpc, told, listening, parting, open, lock, todo>>

\* The current revisions are sent before anything is registered.
Greet(c) ==
    /\ pc[c] = "greeting"
    /\ Write(c)
    /\ GotoC(c, "joining")
    /\ open' = open \cup {<<"c", c>>}
    /\ UNCHANGED <<rev, sessions, wpc, snap, listening, parting, lock, todo>>

GreetFails(c) ==
    /\ Fails
    /\ pc[c] = "greeting"
    /\ GotoC(c, "refused")
    /\ UNCHANGED <<rev, sessions, wpc, snap, told, listening, parting, open, lock, todo>>

AddListener(c) ==
    /\ pc[c] = "joining"
    /\ lock = None
    /\ listening' = listening \cup {c}
    /\ open' = open \cup {<<"d", c>>}
    /\ GotoC(c, "watching")
    /\ UNCHANGED <<rev, sessions, wpc, snap, told, parting, lock, todo>>

AddDisconnectListener(c) ==
    /\ pc[c] = "watching"
    /\ lock = None
    /\ parting' = parting \cup {c}
    /\ GotoC(c, "serving")
    /\ UNCHANGED <<rev, sessions, wpc, snap, told, listening, open, lock, todo>>

\* The select loop writes what it received, a revision or a ring.
WriteMessage(c) ==
    /\ pc[c] = "writing"
    /\ Write(c)
    /\ GotoC(c, "serving")
    /\ UNCHANGED <<rev, sessions, wpc, snap, listening, parting, open, lock, todo>>

\* Mutant: the deferred calls leave the channel d registered.
EndLoopRegistered(c) == GotoC(c, "closingD")

\* Return from the loop; the deferred calls run in the reverse order.
EndLoop(c) == GotoC(c, "leaving")

\* A message, or the ping that is sent every minute, can't be written.
WriteFails(c) ==
    /\ Fails
    /\ pc[c] \in {"serving", "writing"}
    /\ EndLoop(c)
    /\ UNCHANGED <<rev, sessions, wpc, snap, told, listening, parting, open, lock, todo>>

RemoveDisconnectListener(c) ==
    /\ pc[c] = "leaving"
    /\ lock = None
    /\ parting' = parting \ {c}
    /\ GotoC(c, "closingD")
    /\ UNCHANGED <<rev, sessions, wpc, snap, told, listening, open, lock, todo>>

CloseD(c) ==
    /\ pc[c] = "closingD"
    /\ open' = open \ {<<"d", c>>}
    /\ GotoC(c, "quitting")
    /\ UNCHANGED <<rev, sessions, wpc, snap, told, listening, parting, lock, todo>>

\* Mutant: the entry is looked for in the table of the other mode.
RemoveListenerSwapped(c) ==
    /\ pc[c] = "quitting"
    /\ lock = None
    /\ listening' = IF c \in RingMode THEN listening ELSE listening \ {c}
    /\ GotoC(c, "closingC")
    /\ UNCHANGED <<rev, sessions, wpc, snap, told, parting, open, lock, todo>>

RemoveListener(c) ==
    /\ pc[c] = "quitting"
    /\ lock = None
    /\ listening' = listening \ {c}
    /\ GotoC(c, "closingC")
    /\ UNCHANGED <<rev, sessions, wpc, snap, told, parting, open, lock, todo>>

CloseC(c) ==
    /\ pc[c] = "closingC"
    /\ open' = open \ {<<"c", c>>}
    /\ GotoC(c, "closed")
    /\ UNCHANGED <<rev, sessions, wpc, snap, told, listening, parting, lock, todo>>

-----------------------------------------------------------------------------
(***************************************************************************)
(* The request handlers.                                                   *)
(***************************************************************************)

\* A handler that changes something loads the account, and later writes the
\* revision after the one it loaded.
Load(w) ==
    /\ wpc[w] = "new" /\ Task[w] = "status"
    /\ Hold(w, rev[Owner[w]])
    /\ GotoW(w, "loaded")
    /\ UNCHANGED <<rev, sessions, pc, told, listening, parting, open, lock, todo>>

Commit(w) ==
    /\ wpc[w] = "loaded"
    /\ rev' = [rev EXCEPT ![Owner[w]] = snap[w] + 1]
    /\ Hold(w, snap[w] + 1)
    /\ GotoW(w, "ready")
    /\ UNCHANGED <<sessions, pc, told, listening, parting, open, lock, todo>>

\* A contact's ring.
AddRing(w) ==
    /\ wpc[w] = "new" /\ Task[w] = "ring"
    /\ GotoW(w, "ready")
    /\ UNCHANGED <<rev, sessions, pc, snap, told, listening, parting, open, lock, todo>>

\* Logout of all devices.
RemoveAgentToken(w) ==
    /\ wpc[w] = "new" /\ Task[w] = "clear"
    /\ sessions' = {c \in sessions : Owner[c] # Owner[w]}
    /\ GotoW(w, "ready")
    /\ UNCHANGED <<rev, pc, snap, told, listening, parting, open, lock, todo>>

\* Mutant: SetStatus forgets the websockets that did not ask for rings.
AudienceRing(w) ==
    CASE Task[w] \in {"status", "ring"} -> {c \in listening \cap RingMode : Owner[c] = Owner[w]}
      [] Task[w] = "clear"  -> {c \in parting : Owner[c] = Owner[w]}

\* SetStatus sends to both tables of listeners, SetRing to that of mode=ring,
\* ClearStatus to the disconnect listeners.
Audience(w) ==
    CASE Task[w] = "status" -> {c \in listening : Owner[c] = Owner[w]}
      [] Task[w] = "ring"   -> {c \in listening \cap RingMode : Owner[c] = Owner[w]}
      [] Task[w] = "clear"  -> {c \in parting : Owner[c] = Owner[w]}

Lock(w) ==
    /\ wpc[w] = "ready"
    /\ lock = None
    /\ lock' = w
    /\ todo' = [todo EXCEPT ![w] = Audience(w)]
    /\ GotoW(w, "sending")
    /\ UNCHANGED <<rev, sessions, pc, snap, told, listening, parting, open>>

\* A send, received by the select loop of the websocket.
Meet(w, c) ==
    /\ wpc[w] = "sending"
    /\ c \in todo[w]
    /\ pc[c] = "serving"
    /\ todo' = [todo EXCEPT ![w] = @ \ {c}]

SendStatus(w, c) ==
    /\ Task[w] = "status"
    /\ Meet(w, c)
    /\ GotoC(c, "writing")
    /\ Hold(c, snap[w])
    /\ UNCHANGED <<rev, sessions, wpc, told, listening, parting, open, lock>>

SendRing(w, c) ==
    /\ Task[w] = "ring"
    /\ Meet(w, c)
    /\ GotoC(c, "writing")
    /\ UNCHANGED <<rev, sessions, wpc, snap, told, listening, parting, open, lock>>

SendDisconnect(w, c) ==
    /\ Task[w] = "clear"
    /\ Meet(w, c)
    /\ EndLoop(c)
    /\ UNCHANGED <<rev, sessions, wpc, snap, told, listening, parting, open, lock>>

\* Mutant: SetRing returns without unlocking.
UnlockNotRing(w) ==
    /\ wpc[w] = "sending"
    /\ todo[w] = {}
    /\ lock' = IF Task[w] = "ring" THEN w ELSE None
    /\ GotoW(w, "done")
    /\ UNCHANGED <<rev, sessions, pc, snap, told, listening, parting, open, todo>>

Unlock(w) ==
    /\ wpc[w] = "sending"
    /\ todo[w] = {}
    /\ lock' = None
    /\ GotoW(w, "done")
    /\ UNCHANGED <<rev, sessions, pc, snap, told, listening, parting, open, todo>>

-----------------------------------------------------------------------------
ConnStep(c) ==
    \/ Announce(c) \/ Greet(c) \/ AddListener(c) \/ AddDisconnectListener(c)
    \/ WriteMessage(c)
    \/ RemoveDisconnectListener(c) \/ CloseD(c) \/ RemoveListener(c) \/ CloseC(c)

ConnFails(c) == GreetFails(c) \/ WriteFails(c)

Send(w, c) == SendStatus(w, c) \/ SendRing(w, c) \/ SendDisconnect(w, c)

WorkerStep(w) ==
    \/ Load(w) \/ Commit(w) \/ AddRing(w) \/ RemoveAgentToken(w)
    \/ Lock(w) \/ Unlock(w)
    \/ \E c \in Conns : Send(w, c)

Next ==
    \/ \E c \in Conns : ConnStep(c) \/ ConnFails(c)
    \/ \E w \in Workers : WorkerStep(w)

Spec == Init /\ [][Next]_vars

\* The scheduler of Go runs every goroutine; nothing has to fail.
FairSpec ==
    /\ Spec
    /\ \A c \in Conns : WF_vars(ConnStep(c))
    /\ \A w \in Workers : WF_vars(WorkerStep(w))

-----------------------------------------------------------------------------
\* Every variable keeps its type, and a websocket is told only of revisions an
\* account can have: there is none below 1.
TypeOK ==
    /\ rev       \in [Accounts -> Nat \ {0}]
    /\ sessions  \subseteq Conns
    /\ pc        \in [Conns -> ConnPc]
    /\ wpc       \in [Workers -> WorkerPc]
    /\ snap      \in [Conns \cup Workers -> Nat]
    /\ told      \in [Conns -> SUBSET (Nat \ {0})]
    /\ listening \subseteq Conns
    /\ parting   \subseteq Conns
    /\ open      \subseteq Channels
    /\ lock      \in Workers \cup {None}
    /\ todo      \in [Workers -> SUBSET Conns]

\* The channel that a handler sends on to a websocket.
Channel(w) == IF Task[w] = "clear" THEN "d" ELSE "c"

(***************************************************************************)
(* A handler never sends on a closed channel, which would bring the whole  *)
(* node down: the deferred calls close a channel only once no handler can  *)
(* have it left to send on.                                                *)
(***************************************************************************)
NoPanic ==
    \A w \in Workers : \A c \in todo[w] : <<Channel(w), c>> \in open

(***************************************************************************)
(* A websocket that is gone has left no channel in any table.              *)
(***************************************************************************)
NoLeak ==
    \A c \in Conns : pc[c] \in {"closed", "refused"} =>
        c \notin listening \cup parting /\ {<<"c", c>>, <<"d", c>>} \cap open = {}

(***************************************************************************)
(* Why NoPanic holds: a registered channel is open, whatever its goroutine *)
(* is doing, and only who holds the mutex has anything left to send, to    *)
(* channels that stay registered meanwhile.                                *)
(***************************************************************************)
HasC == {"joining", "watching", "serving", "writing", "leaving", "closingD", "quitting", "closingC"}
HasD == {"watching", "serving", "writing", "leaving", "closingD"}

HubInv ==
    /\ \A c \in Conns : pc[c] \in HasC => <<"c", c>> \in open
    /\ \A c \in Conns : pc[c] \in HasD => <<"d", c>> \in open
    /\ \A c \in listening : pc[c] \in HasC \ {"joining", "closingC"}
    /\ \A c \in parting : pc[c] \in HasD \ {"watching", "closingD"}
    /\ \A w \in Workers : wpc[w] = "sending" <=> lock = w
    /\ \A w \in Workers : todo[w] # {} => lock = w
    /\ \A w \in Workers : lock = w => todo[w] \subseteq Audience(w)

\* A handler waits to send to a websocket's goroutine that waits for the mutex
\* which the handler holds: nothing on the node gets past wsSync any more.
Blocked ==
    \E w \in Workers : \E c \in todo[w] :
        pc[c] \in {"watching", "leaving", "closingD", "quitting"}

Gone == {"leaving", "closingD", "quitting", "closingC", "closed"}

(***************************************************************************)
(* Unless the node is blocked, every websocket that is registered when a   *)
(* change is committed gets to see that revision before it goes.           *)
(***************************************************************************)
TellsAll ==
    \A w \in Workers, c \in Conns :
        (wpc[w] = "ready" /\ Task[w] = "status" /\ c \in listening /\ Owner[c] = Owner[w])
            ~> (snap[w] \in told[c] \/ pc[c] \in Gone \/ Blocked)

(***************************************************************************)
(* Every handler that uses the hub gets to send to all it has to send to,  *)
(* and returns, unless the node is blocked.  The fairness has every write  *)
(* to a websocket end: conn.WriteMessage has no deadline (api_status.go:   *)
(* 117), and a client that stays connected and never reads can hold its    *)
(* goroutine there, and with it a handler.  There is no third way to hang. *)
(***************************************************************************)
ReturnsOrBlocked ==
    \A w \in Workers : (wpc[w] = "ready") ~> (wpc[w] = "done" \/ Blocked)

(***************************************************************************)
(* SetStatus "sends revision object on all account websockets", and then   *)
(* returns.                                                                *)
(***************************************************************************)
StatusSent ==
    \A w \in Workers : (wpc[w] = "ready" /\ Task[w] = "status") ~> (wpc[w] = "done")
=============================================================================
