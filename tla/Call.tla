-------------------------------- MODULE Call --------------------------------
(***************************************************************************)
(* One call between two contacts: the bridge on the caller's node, the     *)
(* websockets of the two ends to it (api_signal.go), the LinkModule of     *)
(* each end, which opens a new websocket whenever one closes, and the ring *)
(* entry at the callee.  The bridge tells both ends how they stand and     *)
(* relays their messages; all of its operations hold one mutex.            *)
(*                                                                         *)
(* What is written to a live websocket is in the queue of the link at      *)
(* once, what is written to a broken one is lost, and either side notices  *)
(* a break in its own time.  The callee answers on one device, and WebRTC  *)
(* itself is left out: a message is a number.                              *)
(***************************************************************************)
EXTENDS Integers, Sequences, FiniteSetsExt

CONSTANTS
    MaxSockets,    \* MaxSockets[e]: bound on the websockets end e opens
    MaxSent,       \* MaxSent[e]: bound on the messages end e sends
    Late           \* may a token be read after that of the end's next socket?

Ends == {"caller", "callee"}
Other(e) == IF e = "caller" THEN "callee" ELSE "caller"

ASSUME CallAssumption ==
    /\ MaxSockets \in [Ends -> Nat \ {0}] /\ MaxSent \in [Ends -> Nat]
    /\ Late \in BOOLEAN

VARIABLES
    bridge,        \* "none", "open" or "gone" from the list of bridges
    bound,         \* caller, callee of the bridge: the end's n-th socket, 0 for nil
    sockets,       \* of each end: live?, where the handler is, unread messages
    link,          \* LinkModule of each end: state, status, messages
    calling,       \* where the caller's call() is
    ringInterval,  \* does the caller keep ringing?
    entry,         \* the callee's ring entry; "lapsed" when it was not rung for long
    ending,        \* requests to remove the call that are on their way
    sent, got      \* messages sent by, and last message handled by, each end

signal == <<bridge, bound>>
ring   == <<calling, ringInterval, entry>>
vars   == <<signal, sockets, link, ring, ending, sent, got>>

Status(s) == <<"status", s>>
Message(n) == <<"message", n>>
Announce == 0

Init ==
    /\ bridge = "none"
    /\ bound = [e \in Ends |-> 0]
    /\ sockets = [e \in Ends |-> <<>>]
    /\ link = [e \in Ends |-> [state |-> "none", status |-> "idle", messages |-> <<>>]]
    /\ calling = "idle" /\ ringInterval = FALSE
    /\ entry = "none"
    /\ ending = [e \in Ends |-> FALSE]
    /\ sent = [e \in Ends |-> 0] /\ got = [e \in Ends |-> 0]

-----------------------------------------------------------------------------
(* The bridge.                                                             *)

\* Who of conns is written to and hears it.
Hears(conns, e) == conns[e] # 0 /\ sockets[e][conns[e]].live

Push(l, m) == [l EXCEPT !.messages = Append(@, m)]

setStatus(conns, s) ==
    link' = [e \in Ends |-> IF Hears(conns, e) THEN Push(link[e], Status(s)) ELSE link[e]]

\* Mutant: a bridge dropped without a word.
CloseSilently ==
    /\ bridge' = "gone"
    /\ UNCHANGED <<link, bound>>

Close ==
    /\ bridge' = "gone"
    /\ setStatus(bound, "closed")
    /\ UNCHANGED bound

\* Mutant: the first socket of an end keeps its place.
SetConnectionOnce(e, n) ==
    IF bound[e] # 0 THEN UNCHANGED <<signal, link>>
    ELSE LET conns == [bound EXCEPT ![e] = n] IN
         /\ bound' = conns
         /\ setStatus(conns, IF conns[Other(e)] # 0 THEN "connected" ELSE "connecting")
         /\ UNCHANGED bridge

SetConnection(e, n) ==
    LET conns == [bound EXCEPT ![e] = n] IN
    /\ bound' = conns
    /\ setStatus(conns, IF conns[Other(e)] # 0 THEN "connected" ELSE "connecting")
    /\ UNCHANGED bridge

\* Mutant: the end is cleared, whatever its connection.
ClearEnd(e, n) ==
    /\ bound' = [bound EXCEPT ![e] = 0]
    /\ setStatus([bound EXCEPT ![e] = 0], "connecting")
    /\ UNCHANGED bridge

\* Only the connection itself is cleared, not one that has taken its place.
ClearConnection(e, n) ==
    IF bound[e] = n
    THEN LET conns == [bound EXCEPT ![e] = 0] IN
         /\ bound' = conns
         /\ setStatus(conns, "connecting")
         /\ UNCHANGED bridge
    ELSE UNCHANGED <<signal, link>>

\* Mutant: relayed for the end, whatever its connection.
RelayForEnd(e, n, m) ==
    IF Hears(bound, Other(e))
    THEN link' = [link EXCEPT ![Other(e)] = Push(@, Message(m))]
    ELSE UNCHANGED link

RelayMessage(e, n, m) ==
    IF bound[e] = n /\ Hears(bound, Other(e))
    THEN link' = [link EXCEPT ![Other(e)] = Push(@, Message(m))]
    ELSE UNCHANGED link

RemoveBridge == IF bridge = "open" THEN Close ELSE UNCHANGED <<signal, link>>

\* Whoever keeps a call, this or another, also drops those that no request has
\* kept for three intervals.
Expire ==
    /\ bridge = "open"
    /\ Close
    /\ UNCHANGED <<sockets, ring, ending, sent, got>>

-----------------------------------------------------------------------------
(* The websocket handler (Signal) for the n-th socket of end e.            *)

Latest(e) == Len(sockets[e])

\* A socket is a second younger than the one it replaces: its token is read
\* first only when the network holds back that of the old one (Late).
Bind(e, n) ==
    /\ sockets[e][n].at = "announce" /\ sockets[e][n].up # <<>>
    /\ Late \/ \A k \in n + 1 .. Latest(e) : sockets[e][k].at = "announce"
    /\ sockets' = [sockets EXCEPT ![e][n].at = "relay", ![e][n].up = Tail(@)]
    /\ SetConnection(e, n)
    /\ UNCHANGED <<ring, ending, sent, got>>

Relay(e, n) ==
    /\ sockets[e][n].at = "relay" /\ sockets[e][n].up # <<>>
    /\ sockets' = [sockets EXCEPT ![e][n].up = Tail(@)]
    /\ RelayMessage(e, n, Head(sockets[e][n].up))
    /\ UNCHANGED <<signal, ring, ending, sent, got>>

\* A broken socket: what arrived before may be read first, or is lost.
Release(e, n) ==
    /\ sockets[e][n].at # "done" /\ ~sockets[e][n].live
    /\ sockets' = [sockets EXCEPT ![e][n].at = "done", ![e][n].up = <<>>]
    /\ IF sockets[e][n].at = "relay" THEN ClearConnection(e, n)
       ELSE UNCHANGED <<signal, link>>
    /\ UNCHANGED <<ring, ending, sent, got>>

-----------------------------------------------------------------------------
(* The link of either end.                                                 *)

Live(e) == Latest(e) # 0 /\ sockets[e][Latest(e)].live
Open(e) == link[e].state = "open"

NewSocket == [live |-> TRUE, at |-> "announce", up |-> <<Announce>>]

\* ws.onopen sends the token; a socket that never opens is one that breaks.
setWebSocket(e) == sockets' = [sockets EXCEPT ![e] = Append(@, NewSocket)]

Broken(e) ==
    sockets' = IF Live(e) THEN [sockets EXCEPT ![e][Latest(e)].live = FALSE] ELSE sockets

Break(e) ==
    /\ Open(e) /\ Live(e) /\ Latest(e) < MaxSockets[e]
    /\ Broken(e)
    /\ UNCHANGED <<signal, link, ring, ending, sent, got>>

\* Mutant: a new socket without waiting for the old one to close.
ReopenAnyTime(e) ==
    /\ Open(e)
    /\ setWebSocket(e)
    /\ UNCHANGED <<signal, link, ring, ending, sent, got>>

\* ws.onclose, and a second later the next socket.
Reopen(e) ==
    /\ Open(e) /\ ~Live(e)
    /\ link' = [link EXCEPT ![e] = Push(@, Status("connecting"))]
    /\ setWebSocket(e)
    /\ UNCHANGED <<signal, ring, ending, sent, got>>

\* close(): the websocket, the intervals, and a request that ends the call.  What
\* the loop of notify() still hands on afterwards goes to an application that has
\* closed the call (link.ts:158); here it is dropped with the link.
CloseLink(e) ==
    /\ link' = [link EXCEPT ![e].state = "closed", ![e].messages = <<>>]
    /\ Broken(e)
    /\ ending' = [ending EXCEPT ![e] = TRUE]
    /\ ringInterval' = (ringInterval /\ e # "caller")

\* The application closes the link when it is told that the call is closed.
Notify(e) ==
    /\ Open(e) /\ link[e].messages # <<>>
    /\ LET m == Head(link[e].messages)
           rest == [link[e] EXCEPT !.messages = Tail(@)]
       IN IF m[1] = "message"
          THEN /\ link' = [link EXCEPT ![e] = rest]
               /\ got' = [got EXCEPT ![e] = m[2]]
               /\ UNCHANGED <<sockets, ringInterval, ending>>
          ELSE /\ UNCHANGED got
               /\ IF m[2] = "closed" THEN CloseLink(e)
                  ELSE /\ link' = [link EXCEPT ![e] = [rest EXCEPT !.status = m[2]]]
                       /\ ringInterval' = (ringInterval /\ ~(e = "caller" /\ m[2] = "connected"))
                       /\ UNCHANGED <<sockets, ending>>
    /\ UNCHANGED <<signal, calling, entry, sent>>

sendMessage(e) ==
    /\ Open(e) /\ link[e].status = "connected" /\ sent[e] < MaxSent[e]
    /\ sent' = [sent EXCEPT ![e] = @ + 1]
    /\ sockets' = IF Live(e)
                  THEN [sockets EXCEPT ![e][Latest(e)].up = Append(@, sent[e] + 1)]
                  ELSE sockets
    /\ UNCHANGED <<signal, link, ring, ending, got>>

End(e) ==
    /\ Open(e) /\ CloseLink(e)
    /\ UNCHANGED <<signal, calling, entry, sent, got>>

RemoveCall(e) ==
    /\ ending[e] /\ ending' = [ending EXCEPT ![e] = FALSE]
    /\ RemoveBridge
    /\ UNCHANGED <<sockets, ring, sent, got>>

\* The error is logged and the call is left to expire.  So it is when the whole
\* application stops.
RemoveFails(e) ==
    /\ ending[e] /\ ending' = [ending EXCEPT ![e] = FALSE]
    /\ UNCHANGED <<signal, sockets, link, ring, sent, got>>

-----------------------------------------------------------------------------
(* Setting up: call() of the caller's link, the ring entry of the callee.  *)

AddCall ==
    /\ calling = "idle" /\ calling' = "added"
    /\ bridge' = "open"
    /\ UNCHANGED <<bound, sockets, link, ringInterval, entry, ending, sent, got>>

Rings == entry' = IF entry \in {"none", "lapsed"} THEN "ringing" ELSE entry

FirstRing ==
    /\ calling = "added" /\ calling' = "rung"
    /\ Rings
    /\ UNCHANGED <<signal, sockets, link, ringInterval, ending, sent, got>>

\* call() throws, and the bridge stays.
FirstRingFails ==
    /\ calling \in {"added", "rung"} /\ calling' = "failed"
    /\ UNCHANGED <<signal, sockets, link, ringInterval, entry, ending, sent, got>>

Linked ==
    /\ calling = "rung" /\ calling' = "linked"
    /\ ringInterval' = TRUE
    /\ link' = [link EXCEPT !["caller"].state = "open"]
    /\ setWebSocket("caller")
    /\ UNCHANGED <<signal, entry, ending, sent, got>>

RingAgain ==
    /\ ringInterval /\ Rings
    /\ UNCHANGED <<signal, sockets, link, calling, ringInterval, ending, sent, got>>

RingExpires ==
    /\ entry = "ringing" /\ entry' = "lapsed"
    /\ UNCHANGED <<signal, sockets, link, calling, ringInterval, ending, sent, got>>

Answer(status) ==
    /\ entry = "ringing" /\ entry' = status
    /\ UNCHANGED <<signal, calling, ringInterval, sent, got>>

Accept ==
    /\ Answer("accepted")
    /\ link' = [link EXCEPT !["callee"].state = "open"]
    /\ setWebSocket("callee")
    /\ UNCHANGED ending

Decline ==
    /\ Answer("declined")
    /\ ending' = [ending EXCEPT !["callee"] = TRUE]
    /\ UNCHANGED <<sockets, link>>

Ignore == Answer("ignored") /\ UNCHANGED <<sockets, link, ending>>

SetUp == AddCall \/ FirstRing \/ FirstRingFails \/ Linked
Ringing == RingAgain \/ RingExpires \/ Accept \/ Decline \/ Ignore

\* Once the call is not listed no handler finds a bridge for its connection or
\* its token; what they then read and drop is left out.
SocketStep(e) ==
    /\ bridge = "open"
    /\ \E n \in 1 .. Latest(e) : Bind(e, n) \/ Relay(e, n) \/ Release(e, n)

UserStep(e) == sendMessage(e) \/ End(e)
Removal(e) == RemoveCall(e) \/ RemoveFails(e)

Progress == \E e \in Ends : SocketStep(e) \/ Reopen(e) \/ Notify(e) \/ Removal(e)

Next ==
    \/ SetUp \/ Ringing \/ Expire \/ Progress
    \/ \E e \in Ends : UserStep(e) \/ Break(e)

Spec == Init /\ [][Next]_vars

\* Goroutines, timers and callbacks run; users and networks do as they like.
\* One condition is enough: between two steps of users and networks there are
\* only finitely many of these.
FairSpec == Spec /\ WF_vars(Progress)

-----------------------------------------------------------------------------
(* Properties.                                                             *)

Statuses == {"idle", "connecting", "connected", "closed"}

TypeOK ==
    /\ bridge \in {"none", "open", "gone"}
    /\ \A e \in Ends : bound[e] \in 0 .. Latest(e) /\ Latest(e) <= MaxSockets[e]
    /\ \A e \in Ends : \A n \in 1 .. Latest(e) :
        /\ sockets[e][n].live \in BOOLEAN /\ sockets[e][n].at \in {"announce", "relay", "done"}
        /\ sockets[e][n].live => n = Latest(e)
    /\ \A e \in Ends : /\ link[e].state \in {"none", "open", "closed"}
                       /\ link[e].status \in Statuses
                       /\ ending[e] \in BOOLEAN
                       /\ got[e] \in 0 .. sent[Other(e)] /\ sent[e] \in 0 .. MaxSent[e]
    /\ calling \in {"idle", "added", "rung", "linked", "failed"}
    /\ ringInterval \in BOOLEAN
    /\ entry \in {"none", "ringing", "lapsed", "accepted", "ignored", "declined"}

\* The status an end will have when it has handled all it was told.
Pending(e) == {i \in 1 .. Len(link[e].messages) : link[e].messages[i][1] = "status"}
LastStatus(e) ==
    IF Pending(e) = {} THEN link[e].status ELSE link[e].messages[Max(Pending(e))][2]

\* An end whose websocket works and was announced is in its place in the
\* bridge, and what it was last told is how the two ends stand: no late release
\* of a socket that was replaced may undo that.
StatusTrue ==
    \A e \in Ends :
        (bridge = "open" /\ Live(e) /\ sockets[e][Latest(e)].at = "relay") =>
            /\ bound[e] = Latest(e)
            /\ LastStatus(e) = IF bound[Other(e)] # 0 THEN "connected" ELSE "connecting"

\* Messages arrive in the order they were sent in, and each at most once, over
\* any number of reconnections; a broken websocket may lose some.
InOrder == [][\A e \in Ends : got'[e] # got[e] => got'[e] > got[e]]_got

\* While neither end gives up and the call is listed, the two get connected and
\* stay so once the websockets hold.
Connects ==
    <>[](bridge = "open" /\ Open("caller") /\ Open("callee"))
        => <>[](\A e \in Ends : link[e].status = "connected")

\* When a call ends, each end that was connected to the bridge closes its link,
\* unless it opened another websocket in the meantime.
EndsHear ==
    \A e \in Ends :
        bridge = "gone" ~> \/ ~Open(e)
                           \/ bound[e] = 0 \/ bound[e] # Latest(e)
=============================================================================
