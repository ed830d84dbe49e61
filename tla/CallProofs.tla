----------------------------- MODULE CallProofs -----------------------------
(***************************************************************************)
(* Proofs about Call, for any number of websockets and messages.           *)
(***************************************************************************)
EXTENDS Call, SequenceTheorems, WellFoundedInduction, TLAPS

Socket == [live : BOOLEAN, at : {"announce", "relay", "done"}, up : Seq(Nat)]
Word == {Status(s) : s \in Statuses} \cup {Message(n) : n \in Nat}
Link == [state : {"none", "open", "closed"}, status : Statuses, messages : Seq(Word)]

Shape ==
    /\ bridge \in {"none", "open", "gone"}
    /\ bound \in [Ends -> Nat] /\ \A e \in Ends : bound[e] <= Latest(e)
    /\ sockets \in [Ends -> Seq(Socket)]
    /\ link \in [Ends -> Link]
    /\ calling \in {"idle", "added", "rung", "linked", "failed"}
    /\ ringInterval \in BOOLEAN
    /\ entry \in {"none", "ringing", "lapsed", "accepted", "ignored", "declined"}
    /\ ending \in [Ends -> BOOLEAN]
    /\ sent \in [Ends -> Nat] /\ got \in [Ends -> Nat]

\* An end has one websocket at a time, and opens them one after the other.
OneSocket ==
    \A e \in Ends :
        /\ \A n \in 1 .. Latest(e) : sockets[e][n].live => n = Latest(e)
        /\ Latest(e) <= MaxSockets[e]
        /\ Open(e) /\ ~Live(e) => Latest(e) < MaxSockets[e]
        /\ link[e].state = "none" => sockets[e] = <<>>

\* Nothing happens to an end before it is called or calls.
SetUpInv ==
    /\ calling \in {"idle", "added", "rung"} => link["caller"].state = "none"
    /\ entry \in {"none", "ringing", "lapsed"} => link["callee"].state = "none"
    /\ calling = "idle" => entry = "none" /\ ~ringInterval
    /\ (calling = "idle") <=> (bridge = "none")

\* The last status an end was told, read or not.
Told(e, s) ==
    LET ms == link[e].messages IN
    \/ link[e].status = s /\ \A i \in 1 .. Len(ms) : ms[i][1] # "status"
    \/ \E i \in 1 .. Len(ms) : /\ ms[i] = Status(s)
                               /\ \A j \in i + 1 .. Len(ms) : ms[j][1] # "status"

Stand(e) == IF bound[Other(e)] # 0 THEN "connected" ELSE "connecting"

Bound(e) == Live(e) /\ sockets[e][Latest(e)].at = "relay"

\* As long as tokens are read in order.
Knows ==
    ~Late /\ bridge = "open" =>
        \A e \in Ends : Bound(e) => bound[e] = Latest(e) /\ Told(e, Stand(e))

IInv == Shape /\ OneSocket /\ SetUpInv /\ Knows

-----------------------------------------------------------------------------
(* Ends and messages.                                                      *)

LEMMA TwoEnds ==
    /\ "caller" \in Ends /\ "callee" \in Ends
    /\ \A e \in Ends : /\ Other(e) \in Ends /\ Other(e) # e /\ Other(Other(e)) = e
                       /\ \A d \in Ends : d = e \/ d = Other(e)
  BY DEF Ends, Other

LEMMA Words ==
    /\ \A s : Status(s)[1] = "status" /\ Status(s)[2] = s
    /\ \A n : Message(n)[1] = "message" /\ Message(n)[2] = n
    /\ \A s, t : Status(s) = Status(t) => s = t
    /\ \A s \in Statuses : Status(s) \in Word
    /\ \A n \in Nat : Message(n) \in Word
    /\ \A m \in Word : \/ m[1] = "status" /\ m[2] \in Statuses /\ m = Status(m[2])
                       \/ m[1] = "message" /\ m[2] \in Nat /\ m = Message(m[2])
  BY DEF Status, Message, Word

\* A status that is told is the last one told; a message changes nothing.
LEMMA PushTells ==
    ASSUME Shape, NEW e \in Ends, NEW m \in Word, link'[e] = Push(link[e], m)
    PROVE  /\ link'[e] \in Link /\ link'[e].state = link[e].state
           /\ m[1] = "status" => Told(e, m[2])'
           /\ m[1] = "message" => \A s : Told(e, s) => Told(e, s)'
  <1> DEFINE ms == link[e].messages
             mt == link'[e].messages
  <1>1. link[e] \in Link /\ ms \in Seq(Word)
    BY DEF Shape, Link
  <1>2. /\ mt = Append(ms, m) /\ link'[e].status = link[e].status
        /\ link'[e].state = link[e].state
    BY <1>1 DEF Push, Link
  <1>3. /\ mt \in Seq(Word) /\ Len(mt) = Len(ms) + 1 /\ Len(ms) \in Nat
        /\ \A i \in 1 .. Len(ms) : mt[i] = ms[i]
        /\ mt[Len(ms) + 1] = m
    BY <1>1, <1>2
  <1>4. link'[e] \in Link
    BY <1>1, <1>2, <1>3 DEF Push, Link
  <1>5. ASSUME m[1] = "status" PROVE Told(e, m[2])'
    <2>1. m = Status(m[2])
      BY <1>5, Words
    <2> DEFINE k == Len(ms) + 1
    <2>2. k \in 1 .. Len(mt) /\ mt[k] = Status(m[2])
      BY <1>3, <2>1
    <2>3. \A j \in k + 1 .. Len(mt) : mt[j][1] # "status"
      BY <1>3
    <2> HIDE DEF k
    <2>4. \E i \in 1 .. Len(mt) : /\ mt[i] = Status(m[2])
                                  /\ \A j \in i + 1 .. Len(mt) : mt[j][1] # "status"
      BY <2>2, <2>3
    <2> QED
      BY <2>4 DEF Told
  <1>6. ASSUME m[1] = "message", NEW s, Told(e, s) PROVE Told(e, s)'
    <2>1. m[1] # "status"
      BY <1>6
    <2>2. CASE link[e].status = s /\ \A i \in 1 .. Len(ms) : ms[i][1] # "status"
      <3>1. \A i \in 1 .. Len(mt) : mt[i][1] # "status"
        <4> TAKE i \in 1 .. Len(mt)
        <4>1. i \in 1 .. Len(ms) \/ i = Len(ms) + 1
          BY <1>3
        <4> QED
          BY <1>3, <2>1, <2>2, <4>1
      <3> QED
        BY <1>2, <2>2, <3>1 DEF Told
    <2>3. CASE \E i \in 1 .. Len(ms) : /\ ms[i] = Status(s)
                                       /\ \A j \in i + 1 .. Len(ms) : ms[j][1] # "status"
      <3>1. PICK i \in 1 .. Len(ms) : /\ ms[i] = Status(s)
                                      /\ \A j \in i + 1 .. Len(ms) : ms[j][1] # "status"
        BY <2>3
      <3>2. i \in 1 .. Len(mt) /\ mt[i] = Status(s)
        BY <1>3, <3>1
      <3>3. \A j \in i + 1 .. Len(mt) : mt[j][1] # "status"
        <4> TAKE j \in i + 1 .. Len(mt)
        <4>1. j \in i + 1 .. Len(ms) \/ j = Len(ms) + 1
          BY <1>3
        <4>2. j \in i + 1 .. Len(ms) => mt[j] = ms[j]
          BY <1>3
        <4> QED
          BY <1>3, <2>1, <3>1, <4>1, <4>2
      <3> QED
        BY <3>2, <3>3 DEF Told
    <2> QED
      BY <1>6, <2>2, <2>3 DEF Told
  <1> QED
    BY <1>2, <1>4, <1>5, <1>6

\* Handling a word does not change what the last status is.
LEMMA HandleTells ==
    ASSUME Shape, NEW e \in Ends, link[e].messages # <<>>,
           link'[e].messages = Tail(link[e].messages),
           LET m == Head(link[e].messages)
           IN  link'[e].status = IF m[1] = "status" THEN m[2] ELSE link[e].status
    PROVE  \A s : Told(e, s) => Told(e, s)'
  <1> DEFINE ms == link[e].messages
             mt == link'[e].messages
  <1>1. ms \in Seq(Word)
    BY DEF Shape, Link
  <1>2. /\ mt \in Seq(Word) /\ Len(mt) = Len(ms) - 1 /\ Len(ms) \in Nat /\ Len(ms) > 0
        /\ \A i \in 1 .. Len(mt) : mt[i] = ms[i + 1]
        /\ Head(ms) = ms[1]
    BY <1>1
  <1>3. link'[e].status = IF ms[1][1] = "status" THEN ms[1][2] ELSE link[e].status
    BY <1>2
  <1> HIDE DEF ms, mt
  <1> SUFFICES ASSUME NEW s, Told(e, s) PROVE Told(e, s)'
    OBVIOUS
  <1>4. CASE link[e].status = s /\ \A i \in 1 .. Len(ms) : ms[i][1] # "status"
    <2>1. link'[e].status = s
      BY <1>2, <1>3, <1>4
    <2>2. \A i \in 1 .. Len(mt) : mt[i][1] # "status"
      <3> TAKE i \in 1 .. Len(mt)
      <3>1. i + 1 \in 1 .. Len(ms)
        BY <1>2
      <3> QED
        BY <1>2, <1>4, <3>1
    <2> QED
      BY <2>1, <2>2 DEF Told, mt
  <1>5. ASSUME NEW i \in 1 .. Len(ms), ms[i] = Status(s),
               \A j \in i + 1 .. Len(ms) : ms[j][1] # "status"
        PROVE  Told(e, s)'
    <2>1. CASE i = 1
      <3>1. link'[e].status = s
        BY <1>3, <1>5, <2>1, Words
      <3>2. \A j \in 1 .. Len(mt) : mt[j][1] # "status"
        <4> TAKE j \in 1 .. Len(mt)
        <4>1. j + 1 \in i + 1 .. Len(ms)
          BY <1>2, <2>1
        <4> QED
          BY <1>2, <1>5, <4>1
      <3> QED
        BY <3>1, <3>2 DEF Told, mt
    <2>2. CASE i # 1
      <3> DEFINE k == i - 1
      <3>1. k \in 1 .. Len(mt) /\ k + 1 = i
        BY <1>2, <2>2
      <3>2. mt[k] = Status(s)
        BY <1>2, <1>5, <3>1
      <3>3. \A j \in k + 1 .. Len(mt) : mt[j][1] # "status"
        <4> TAKE j \in k + 1 .. Len(mt)
        <4>1. j + 1 \in i + 1 .. Len(ms) /\ j \in 1 .. Len(mt)
          BY <1>2, <3>1
        <4> QED
          BY <1>2, <1>5, <4>1
      <3> HIDE DEF k
      <3>4. \E l \in 1 .. Len(mt) : /\ mt[l] = Status(s)
                                    /\ \A j \in l + 1 .. Len(mt) : mt[j][1] # "status"
        BY <3>1, <3>2, <3>3
      <3> QED
        BY <3>4 DEF Told, mt
    <2> QED
      BY <2>1, <2>2
  <1> QED
    BY <1>4, <1>5 DEF Told, ms

\* The specification's LastStatus is the status Told speaks of.
LEMMA ToldIsLast ==
    ASSUME Shape, NEW e \in Ends, NEW s, Told(e, s)
    PROVE  LastStatus(e) = s
  <1> DEFINE ms == link[e].messages
  <1>1. ms \in Seq(Word) /\ Len(ms) \in Nat
    BY DEF Shape, Link
  <1>2. CASE link[e].status = s /\ \A i \in 1 .. Len(ms) : ms[i][1] # "status"
    <2>1. Pending(e) = {}
      BY <1>2 DEF Pending
    <2> QED
      BY <1>2, <2>1 DEF LastStatus
  <1>3. ASSUME NEW i \in 1 .. Len(ms), ms[i] = Status(s),
               \A j \in i + 1 .. Len(ms) : ms[j][1] # "status"
        PROVE  LastStatus(e) = s
    <2>1. i \in Pending(e)
      BY <1>3, Words DEF Pending
    <2>2. \A j \in Pending(e) : j \in Nat /\ i >= j
      BY <1>1, <1>3 DEF Pending
    <2>3. \A j \in Pending(e) : (\A l \in Pending(e) : j >= l) => j = i
      BY <2>1, <2>2
    <2>4. Max(Pending(e)) = i
      BY <2>1, <2>2, <2>3 DEF Max
    <2> QED
      BY <1>3, <2>1, <2>4, Words DEF LastStatus
  <1> QED
    BY <1>2, <1>3 DEF Told

-----------------------------------------------------------------------------
(* Websockets.                                                             *)

LEMMA SocketFacts ==
    ASSUME Shape, NEW e \in Ends
    PROVE  /\ Latest(e) \in Nat /\ sockets[e] \in Seq(Socket)
           /\ \A n \in 1 .. Latest(e) : sockets[e][n] \in Socket
           /\ Live(e) => Latest(e) \in 1 .. Latest(e) /\ sockets[e][Latest(e)].live
           /\ Latest(e) \in 1 .. Latest(e) /\ sockets[e][Latest(e)].live => Live(e)
  <1>1. sockets[e] \in Seq(Socket)
    BY DEF Shape
  <1>2. Len(sockets[e]) \in Nat /\ \A n \in 1 .. Len(sockets[e]) : sockets[e][n] \in Socket
    BY <1>1
  <1> QED
    BY <1>1, <1>2 DEF Latest, Live

LEMMA ChangeSocket ==
    ASSUME Shape, NEW e \in Ends, NEW n \in 1 .. Latest(e), NEW r \in Socket,
           sockets' = [sockets EXCEPT ![e] = [sockets[e] EXCEPT ![n] = r]]
    PROVE  /\ sockets' \in [Ends -> Seq(Socket)]
           /\ \A d \in Ends : Latest(d)' = Latest(d)
           /\ \A d \in Ends : d # e => sockets'[d] = sockets[d]
           /\ \A k \in 1 .. Latest(e) : k # n => sockets'[e][k] = sockets[e][k]
           /\ sockets'[e][n] = r
  <1> DEFINE t == [sockets[e] EXCEPT ![n] = r]
  <1>1. n \in 1 .. Len(sockets[e]) /\ sockets[e] \in Seq(Socket)
    BY SocketFacts DEF Latest
  <1>2. /\ t \in Seq(Socket) /\ Len(t) = Len(sockets[e])
        /\ \A k \in 1 .. Len(sockets[e]) : t[k] = IF k = n THEN r ELSE sockets[e][k]
    BY <1>1, ExceptSeq
  <1> HIDE DEF t
  <1>3. sockets' = [sockets EXCEPT ![e] = t] /\ sockets \in [Ends -> Seq(Socket)]
    BY DEF t, Shape
  <1> QED
    BY <1>1, <1>2, <1>3 DEF Latest

LEMMA AddSocket ==
    ASSUME Shape, NEW e \in Ends, setWebSocket(e)
    PROVE  /\ sockets' \in [Ends -> Seq(Socket)]
           /\ \A d \in Ends : d # e => sockets'[d] = sockets[d] /\ Latest(d)' = Latest(d)
           /\ Latest(e)' = Latest(e) + 1
           /\ \A k \in 1 .. Latest(e) : sockets'[e][k] = sockets[e][k]
           /\ sockets'[e][Latest(e) + 1] = NewSocket
  <1>1. NewSocket \in Socket
    BY DEF NewSocket, Socket, Announce
  <1>2. sockets[e] \in Seq(Socket) /\ sockets \in [Ends -> Seq(Socket)]
    BY DEF Shape
  <1>3. /\ sockets'[e] = Append(sockets[e], NewSocket)
        /\ \A d \in Ends : d # e => sockets'[d] = sockets[d]
        /\ sockets' = [sockets EXCEPT ![e] = Append(sockets[e], NewSocket)]
    BY <1>2 DEF setWebSocket
  <1>4. /\ Append(sockets[e], NewSocket) \in Seq(Socket)
        /\ Len(Append(sockets[e], NewSocket)) = Len(sockets[e]) + 1
        /\ \A k \in 1 .. Len(sockets[e]) : Append(sockets[e], NewSocket)[k] = sockets[e][k]
        /\ Append(sockets[e], NewSocket)[Len(sockets[e]) + 1] = NewSocket
    BY <1>1, <1>2
  <1> QED
    BY <1>2, <1>3, <1>4 DEF Latest

\* A break touches the end's latest socket only, and leaves it dead.
LEMMA BrokenSocket ==
    ASSUME Shape, OneSocket, NEW e \in Ends, Broken(e)
    PROVE  /\ sockets' \in [Ends -> Seq(Socket)]
           /\ \A d \in Ends : Latest(d)' = Latest(d)
           /\ \A d \in Ends : d # e => sockets'[d] = sockets[d]
           /\ \A k \in 1 .. Latest(e) : /\ ~sockets'[e][k].live
                                        /\ sockets'[e][k].at = sockets[e][k].at
                                        /\ sockets'[e][k].up = sockets[e][k].up
           /\ ~Live(e)'
  <1>1. CASE Live(e)
    <2>0. PICK n \in 1 .. Latest(e) : n = Latest(e) /\ sockets[e][n] \in Socket
      BY <1>1, SocketFacts
    <2>1. [sockets[e][n] EXCEPT !.live = FALSE] \in Socket
      BY <2>0 DEF Socket
    <2>2. PICK r \in Socket : /\ r = [sockets[e][n] EXCEPT !.live = FALSE]
                              /\ ~r.live /\ r.at = sockets[e][n].at
                              /\ r.up = sockets[e][n].up
      BY <2>0, <2>1 DEF Socket
    <2>3. sockets' = [sockets EXCEPT ![e] = [sockets[e] EXCEPT ![n] = r]]
      BY <1>1, <2>0, <2>2 DEF Broken
    <2>4. /\ sockets' \in [Ends -> Seq(Socket)]
          /\ \A d \in Ends : Latest(d)' = Latest(d)
          /\ \A d \in Ends : d # e => sockets'[d] = sockets[d]
          /\ \A k \in 1 .. Latest(e) : k # n => sockets'[e][k] = sockets[e][k]
          /\ sockets'[e][n] = r
      BY <2>3, ChangeSocket
    <2>5. \A k \in 1 .. Latest(e) : k # n => ~sockets[e][k].live
      BY <2>0 DEF OneSocket
    <2>6. ~Live(e)'
      BY <2>0, <2>1, <2>2, <2>4 DEF Live
    <2> QED
      BY <2>0, <2>2, <2>4, <2>5, <2>6
  <1>2. CASE ~Live(e)
    <2>1. sockets' = sockets
      BY <1>2 DEF Broken
    <2>2. \A k \in 1 .. Latest(e) : ~sockets[e][k].live
      BY <1>2, SocketFacts DEF OneSocket
    <2> QED
      BY <1>2, <2>1, <2>2 DEF Latest, Live, Shape
  <1> QED
    BY <1>1, <1>2

LEMMA StatusHeard ==
    ASSUME Shape, NEW conns, NEW s \in Statuses, setStatus(conns, s)
    PROVE  /\ link' \in [Ends -> Link]
           /\ \A d \in Ends : link'[d].state = link[d].state
           /\ \A d \in Ends : Hears(conns, d) => Told(d, s)'
  <1>1. link' = [d \in Ends |-> IF Hears(conns, d) THEN Push(link[d], Status(s)) ELSE link[d]]
    BY DEF setStatus
  <1>2. Status(s) \in Word /\ Status(s)[1] = "status" /\ Status(s)[2] = s
    BY Words
  <1>3. ASSUME NEW d \in Ends, Hears(conns, d)
        PROVE  link'[d] \in Link /\ link'[d].state = link[d].state /\ Told(d, s)'
    <2>1. link'[d] = Push(link[d], Status(s))
      BY <1>1, <1>3
    <2> QED
      BY <1>2, <2>1, PushTells
  <1>4. ASSUME NEW d \in Ends, ~Hears(conns, d)
        PROVE  link'[d] \in Link /\ link'[d].state = link[d].state
    BY <1>1, <1>4 DEF Shape
  <1>5. \A d \in Ends : link'[d] \in Link
    BY <1>3, <1>4
  <1> QED
    BY <1>1, <1>3, <1>4, <1>5

LEMMA ToldSame ==
    ASSUME NEW e \in Ends, link'[e] = link[e]
    PROVE  \A s : Told(e, s) => Told(e, s)'
  BY DEF Told

-----------------------------------------------------------------------------
(* The invariant, action by action.                                        *)

\* Once the call is not listed nobody is told how the ends stand.
LEMMA GoneKnows ==
    ASSUME bridge' # "open"
    PROVE  Knows'
  BY DEF Knows

\* An end whose websockets are left alone, and that was told nothing new.
LEMMA SameEnd ==
    ASSUME IInv, NEW e \in Ends, sockets'[e] = sockets[e], Latest(e)' = Latest(e),
           link'[e].state = link[e].state
    PROVE  /\ Live(e)' = Live(e) /\ Bound(e)' = Bound(e)
           /\ \A n \in 1 .. Latest(e)' : sockets'[e][n].live => n = Latest(e)'
           /\ Latest(e)' <= MaxSockets[e]
           /\ Open(e)' /\ ~Live(e)' => Latest(e)' < MaxSockets[e]
           /\ link'[e].state = "none" => sockets'[e] = <<>>
  <1>1. Live(e)' = Live(e) /\ Open(e)' = Open(e)
    BY DEF Live, Latest, Open
  <1>2. Bound(e)' = Bound(e)
    BY <1>1 DEF Bound
  <1> QED
    BY <1>1, <1>2 DEF IInv, OneSocket

LEMMA BindKeeps ==
    ASSUME IInv, NEW e \in Ends, NEW n \in 1 .. Latest(e), bridge = "open", Bind(e, n)
    PROVE  IInv'
  <1> USE DEF IInv
  <1> DEFINE o == Other(e)
             conns == [bound EXCEPT ![e] = n]
  <1>1. o \in Ends /\ o # e /\ \A d \in Ends : d = e \/ d = o
    BY TwoEnds
  <1>2. PICK r \in Socket : /\ r.live = sockets[e][n].live /\ r.at = "relay"
                            /\ sockets' = [sockets EXCEPT ![e] = [sockets[e] EXCEPT ![n] = r]]
    <2>1. sockets[e][n] \in Socket /\ sockets[e][n].up # <<>>
      BY SocketFacts DEF Bind
    <2>2. sockets[e][n].up \in Seq(Nat) /\ Tail(sockets[e][n].up) \in Seq(Nat)
      BY <2>1 DEF Socket
    <2>3. PICK r \in Socket :
            r = [sockets[e][n] EXCEPT !.at = "relay", !.up = Tail(sockets[e][n].up)]
      BY <2>1, <2>2 DEF Socket
    <2>4. r.live = sockets[e][n].live /\ r.at = "relay"
      BY <2>1, <2>3 DEF Socket
    <2>5. sockets' = [sockets EXCEPT ![e] = [sockets[e] EXCEPT ![n] = r]]
      BY <2>1, <2>3 DEF Bind
    <2> QED
      BY <2>4, <2>5
  <1>3. /\ sockets' \in [Ends -> Seq(Socket)]
        /\ \A d \in Ends : Latest(d)' = Latest(d)
        /\ \A d \in Ends : d # e => sockets'[d] = sockets[d]
        /\ \A k \in 1 .. Latest(e) : k # n => sockets'[e][k] = sockets[e][k]
        /\ sockets'[e][n] = r
    <2>1. sockets' = [sockets EXCEPT ![e] = [sockets[e] EXCEPT ![n] = r]]
      BY <1>2
    <2> QED
      BY <2>1, ChangeSocket
  <1>4. PICK st \in Statuses : /\ st = IF conns[o] # 0 THEN "connected" ELSE "connecting"
                               /\ setStatus(conns, st)
    BY DEF Bind, SetConnection, Statuses
  <1>5. bound' = conns /\ bridge' = bridge
    BY DEF Bind, SetConnection
  <1>6. /\ bound'[e] = n /\ bound'[o] = bound[o]
        /\ bound' \in [Ends -> Nat] /\ conns[e] = n /\ conns[o] = bound[o]
    BY <1>1, <1>5, SocketFacts DEF Shape
  <1>7. UNCHANGED <<calling, ringInterval, entry, ending, sent, got>>
    BY DEF Bind, ring
  <1>8. /\ link' \in [Ends -> Link]
        /\ \A d \in Ends : link'[d].state = link[d].state
        /\ \A d \in Ends : Hears(conns, d) => Told(d, st)'
    BY <1>4, StatusHeard
  <1> HIDE DEF conns
  <1>9. Latest(e) \in Nat /\ Latest(o) \in Nat
    BY <1>1, SocketFacts
  <1>10. Shape'
    <2>1. bound'[e] <= Latest(e)' /\ bound'[o] <= Latest(o)'
      BY <1>1, <1>3, <1>6, <1>9 DEF Shape
    <2>2. \A d \in Ends : bound'[d] <= Latest(d)'
      BY <1>1, <2>1
    <2> QED
      BY <1>3, <1>5, <1>6, <1>7, <1>8, <2>2 DEF Shape
  <1>11. /\ Live(e)' = Live(e) /\ Open(e)' = Open(e)
         /\ \A k \in 1 .. Latest(e) : sockets'[e][k].live = sockets[e][k].live
    <2>1. \A k \in 1 .. Latest(e) : sockets'[e][k].live = sockets[e][k].live
      BY <1>2, <1>3
    <2>2. Latest(e) # 0 => Latest(e) \in 1 .. Latest(e)
      BY <1>9
    <2> QED
      BY <1>3, <1>8, <2>1, <2>2 DEF Live, Open
  <1>12. OneSocket'
    <2>1. ASSUME NEW d \in Ends, d # e
          PROVE  /\ \A k \in 1 .. Latest(d)' : sockets'[d][k].live => k = Latest(d)'
                 /\ Latest(d)' <= MaxSockets[d]
                 /\ Open(d)' /\ ~Live(d)' => Latest(d)' < MaxSockets[d]
                 /\ link'[d].state = "none" => sockets'[d] = <<>>
      BY <1>3, <1>8, <2>1, SameEnd
    <2>2. link[e].state # "none"
      BY <1>9 DEF OneSocket, Latest
    <2>3. /\ \A k \in 1 .. Latest(e)' : sockets'[e][k].live => k = Latest(e)'
          /\ Latest(e)' <= MaxSockets[e]
          /\ Open(e)' /\ ~Live(e)' => Latest(e)' < MaxSockets[e]
          /\ link'[e].state = "none" => sockets'[e] = <<>>
      BY <1>3, <1>8, <1>11, <2>2 DEF OneSocket
    <2> QED
      BY <2>1, <2>3 DEF OneSocket
  <1>13. SetUpInv'
    BY <1>5, <1>7, <1>8, TwoEnds DEF SetUpInv
  <1>14. ~Late /\ Bound(e)' => bound'[e] = Latest(e)' /\ Told(e, Stand(e))'
    <2> SUFFICES ASSUME ~Late, Bound(e)' PROVE bound'[e] = Latest(e)' /\ Told(e, Stand(e))'
      OBVIOUS
    <2>1. Latest(e) \in 1 .. Latest(e) /\ sockets'[e][Latest(e)].at = "relay" /\ Live(e)
      BY <1>3, <1>9, <1>11 DEF Bound, Live
    <2>2. n = Latest(e)
      <3>1. \A k \in n + 1 .. Latest(e) : sockets[e][k].at = "announce"
        BY DEF Bind
      <3>2. n # Latest(e) => Latest(e) \in n + 1 .. Latest(e)
        BY <1>9
      <3> QED
        BY <1>3, <2>1, <3>1, <3>2
    <2>3. Hears(conns, e)
      BY <1>6, <1>9, <2>1, <2>2, SocketFacts DEF Hears
    <2>4. Stand(e)' = st
      BY <1>4, <1>6 DEF Stand
    <2> QED
      BY <1>3, <1>6, <1>8, <2>2, <2>3, <2>4
  <1>15. ~Late /\ Bound(o)' => bound'[o] = Latest(o)' /\ Told(o, Stand(o))'
    <2> SUFFICES ASSUME ~Late, Bound(o)' PROVE bound'[o] = Latest(o)' /\ Told(o, Stand(o))'
      OBVIOUS
    <2>1. Bound(o)
      BY <1>1, <1>3, <1>8, SameEnd
    <2>2. bound[o] = Latest(o) /\ Live(o) /\ Latest(o) # 0
      BY <1>1, <2>1 DEF Knows, Bound, Live
    <2>3. Hears(conns, o)
      BY <1>1, <1>6, <2>2, SocketFacts DEF Hears
    <2>4. Stand(o)' = "connected" /\ st = "connected"
      BY <1>4, <1>6, <1>9, <2>2, TwoEnds DEF Stand
    <2> QED
      BY <1>1, <1>3, <1>6, <1>8, <2>2, <2>3, <2>4
  <1>16. Knows'
    BY <1>1, <1>14, <1>15 DEF Knows
  <1> QED
    BY <1>10, <1>12, <1>13, <1>16

\* What an action leaves alone: the place of an end whose websockets it does not
\* move, and how far the call is set up.
LEMMA StillKnows ==
    ASSUME IInv, NEW e \in Ends, bridge' = bridge, bound' = bound,
           Bound(e)' => Bound(e) /\ Latest(e)' = Latest(e),
           \A s : Told(e, s) => Told(e, s)'
    PROVE  ~Late /\ bridge' = "open" /\ Bound(e)' => bound'[e] = Latest(e)' /\ Told(e, Stand(e))'
  <1> SUFFICES ASSUME ~Late, bridge' = "open", Bound(e)'
               PROVE  bound'[e] = Latest(e)' /\ Told(e, Stand(e))'
    OBVIOUS
  <1>1. bound[e] = Latest(e) /\ Told(e, Stand(e))
    BY DEF IInv, Knows
  <1>2. Stand(e)' = Stand(e)
    BY DEF Stand
  <1> QED
    BY <1>1, <1>2

LEMMA StillSetUp ==
    ASSUME SetUpInv, UNCHANGED <<calling, entry>>, ringInterval' => ringInterval,
           ringInterval' \in BOOLEAN,
           \A d \in Ends : link[d].state = "none" => link'[d].state = "none",
           bridge' = bridge \/ (bridge = "open" /\ bridge' = "gone")
    PROVE  SetUpInv'
  BY TwoEnds DEF SetUpInv

\* The bridge's sockets stay sockets of their ends.
LEMMA SameBound ==
    ASSUME Shape, bound' = bound, \A d \in Ends : Latest(d)' = Latest(d)
    PROVE  bound' \in [Ends -> Nat] /\ \A d \in Ends : bound'[d] <= Latest(d)'
  BY DEF Shape

LEMMA RelayKeeps ==
    ASSUME IInv, NEW e \in Ends, NEW n \in 1 .. Latest(e), bridge = "open", Relay(e, n)
    PROVE  IInv'
  <1> USE DEF IInv
  <1> DEFINE o == Other(e)
  <1>1. o \in Ends /\ o # e /\ \A d \in Ends : d = e \/ d = o
    BY TwoEnds
  <1>0. PICK m \in Nat : m = Head(sockets[e][n].up)
    <2>1. sockets[e][n].up \in Seq(Nat) /\ sockets[e][n].up # <<>>
      BY SocketFacts DEF Relay, Socket
    <2> QED
      BY <2>1
  <1>2. PICK r \in Socket :
           /\ r.live = sockets[e][n].live /\ r.at = sockets[e][n].at
           /\ sockets' = [sockets EXCEPT ![e] = [sockets[e] EXCEPT ![n] = r]]
    <2>1. sockets[e][n] \in Socket /\ sockets[e][n].up # <<>>
      BY SocketFacts DEF Relay
    <2>2. sockets[e][n].up \in Seq(Nat) /\ Tail(sockets[e][n].up) \in Seq(Nat)
      BY <2>1 DEF Socket
    <2>3. PICK r \in Socket : r = [sockets[e][n] EXCEPT !.up = Tail(sockets[e][n].up)]
      BY <2>1, <2>2 DEF Socket
    <2>4. r.live = sockets[e][n].live /\ r.at = sockets[e][n].at
      BY <2>1, <2>3 DEF Socket
    <2>5. sockets' = [sockets EXCEPT ![e] = [sockets[e] EXCEPT ![n] = r]]
      BY <2>1, <2>3 DEF Relay
    <2> QED
      BY <2>4, <2>5
  <1>3. /\ sockets' \in [Ends -> Seq(Socket)]
        /\ \A d \in Ends : Latest(d)' = Latest(d)
        /\ \A d \in Ends : d # e => sockets'[d] = sockets[d]
        /\ \A k \in 1 .. Latest(e) : k # n => sockets'[e][k] = sockets[e][k]
        /\ sockets'[e][n] = r
    <2>1. Shape /\ sockets' = [sockets EXCEPT ![e] = [sockets[e] EXCEPT ![n] = r]]
      BY <1>2
    <2> QED
      BY ONLY <2>1, ChangeSocket
  <1>4. UNCHANGED <<bridge, bound, calling, ringInterval, entry, ending, sent, got>>
    BY DEF Relay, ring, signal
  <1>5. /\ link' \in [Ends -> Link]
        /\ \A d \in Ends : /\ link'[d].state = link[d].state
                           /\ \A s : Told(d, s) => Told(d, s)'
    <2>1. CASE UNCHANGED link
      BY <2>1, ToldSame DEF Shape
    <2>2. CASE link' = [link EXCEPT ![o] = Push(link[o], Message(m))]
      <3>1. link'[o] = Push(link[o], Message(m)) /\ link'[e] = link[e]
        BY <1>1, <2>2 DEF Shape
      <3>2. /\ link'[o].state = link[o].state /\ link'[o] \in Link
            /\ \A s : Told(o, s) => Told(o, s)'
        BY <1>1, <3>1, Words, PushTells
      <3>3. \A s : Told(e, s) => Told(e, s)'
        BY <3>1, ToldSame
      <3>4. link' \in [Ends -> Link]
        BY <1>1, <2>2, <3>1, <3>2 DEF Shape
      <3> QED
        BY <1>1, <3>1, <3>2, <3>3, <3>4
    <2>3. UNCHANGED link \/ link' = [link EXCEPT ![o] = Push(link[o], Message(m))]
      BY <1>0 DEF Relay, RelayMessage
    <2> QED
      BY <2>1, <2>2, <2>3
  <1>7. Shape'
    BY <1>3, <1>4, <1>5, SameBound DEF Shape
  <1>8. /\ \A k \in 1 .. Latest(e) : /\ sockets'[e][k].live = sockets[e][k].live
                                     /\ sockets'[e][k].at = sockets[e][k].at
        /\ Latest(e) # 0 => Latest(e) \in 1 .. Latest(e)
    BY <1>2, <1>3, SocketFacts
  <1>9. Live(e)' = Live(e) /\ Bound(e)' = Bound(e) /\ Open(e)' = Open(e)
    BY <1>3, <1>5, <1>8 DEF Live, Open, Bound
  <1>10. Bound(o)' = Bound(o)
    BY <1>1, <1>3, <1>5, SameEnd
  <1>11. OneSocket'
    <2>1. ASSUME NEW d \in Ends, d # e
          PROVE  /\ \A k \in 1 .. Latest(d)' : sockets'[d][k].live => k = Latest(d)'
                 /\ Latest(d)' <= MaxSockets[d]
                 /\ Open(d)' /\ ~Live(d)' => Latest(d)' < MaxSockets[d]
                 /\ link'[d].state = "none" => sockets'[d] = <<>>
      BY <1>3, <1>5, <2>1, SameEnd
    <2>2. link[e].state # "none"
      BY SocketFacts DEF OneSocket, Latest
    <2>3. /\ \A k \in 1 .. Latest(e)' : sockets'[e][k].live => k = Latest(e)'
          /\ Latest(e)' <= MaxSockets[e]
          /\ Open(e)' /\ ~Live(e)' => Latest(e)' < MaxSockets[e]
          /\ link'[e].state = "none" => sockets'[e] = <<>>
      BY <1>3, <1>5, <1>8, <1>9, <2>2 DEF OneSocket
    <2> QED
      BY <2>1, <2>3 DEF OneSocket
  <1>12. SetUpInv'
    BY <1>4, <1>5, StillSetUp DEF Shape
  <1>13. Knows'
    BY <1>1, <1>3, <1>4, <1>5, <1>9, <1>10, StillKnows DEF Knows
  <1> QED
    BY <1>7, <1>11, <1>12, <1>13

LEMMA ReleaseKeeps ==
    ASSUME IInv, NEW e \in Ends, NEW n \in 1 .. Latest(e), bridge = "open", Release(e, n)
    PROVE  IInv'
  <1> USE DEF IInv
  <1> DEFINE o == Other(e)
             conns == [bound EXCEPT ![e] = 0]
  <1>1. o \in Ends /\ o # e /\ \A d \in Ends : d = e \/ d = o
    BY TwoEnds
  <1>2. PICK r \in Socket :
           /\ ~r.live /\ r.at = "done"
           /\ sockets' = [sockets EXCEPT ![e] = [sockets[e] EXCEPT ![n] = r]]
    <2>1. sockets[e][n] \in Socket /\ ~sockets[e][n].live /\ <<>> \in Seq(Nat)
      BY SocketFacts DEF Release
    <2>3. PICK r \in Socket : r = [sockets[e][n] EXCEPT !.at = "done", !.up = <<>>]
      BY <2>1 DEF Socket
    <2>4. ~r.live /\ r.at = "done"
      BY <2>1, <2>3 DEF Socket
    <2>5. sockets' = [sockets EXCEPT ![e] = [sockets[e] EXCEPT ![n] = r]]
      BY <2>1, <2>3 DEF Release
    <2> QED
      BY <2>4, <2>5
  <1>3. /\ sockets' \in [Ends -> Seq(Socket)]
        /\ \A d \in Ends : Latest(d)' = Latest(d)
        /\ \A d \in Ends : d # e => sockets'[d] = sockets[d]
        /\ \A k \in 1 .. Latest(e) : k # n => sockets'[e][k] = sockets[e][k]
        /\ sockets'[e][n] = r
    <2>1. Shape /\ sockets' = [sockets EXCEPT ![e] = [sockets[e] EXCEPT ![n] = r]]
      BY <1>2
    <2> QED
      BY ONLY <2>1, ChangeSocket
  <1>4. UNCHANGED <<calling, ringInterval, entry, ending, sent, got>> /\ bridge' = bridge
    BY DEF Release, ring, signal, ClearConnection
  <1>5. /\ ~sockets[e][n].live
        /\ \/ bound' = bound /\ link' = link
           \/ bound[e] = n /\ bound' = conns /\ setStatus(conns, "connecting")
    BY DEF Release, ClearConnection, signal
  <1>6. /\ link' \in [Ends -> Link]
        /\ \A d \in Ends : link'[d].state = link[d].state
    BY <1>5, StatusHeard DEF Shape, Statuses
  <1>7. conns \in [Ends -> Nat] /\ conns[e] = 0 /\ conns[o] = bound[o]
    BY <1>1 DEF Shape
  <1> HIDE DEF conns
  <1>8. bound' \in [Ends -> Nat] /\ \A d \in Ends : bound'[d] <= Latest(d)'
    <2>1. CASE bound' = bound
      BY <1>3, <2>1, SameBound
    <2>2. CASE bound' = conns
      <3>1. bound'[e] <= Latest(e)' /\ bound'[o] <= Latest(o)'
        BY <1>1, <1>3, <1>7, <2>2, SocketFacts DEF Shape
      <3> QED
        BY <1>1, <1>7, <2>2, <3>1
    <2> QED
      BY <1>5, <2>1, <2>2
  <1>9. Shape'
    BY <1>3, <1>4, <1>6, <1>8 DEF Shape
  <1>10. \A k \in 1 .. Latest(e) : sockets'[e][k].live = sockets[e][k].live
    <2>1. sockets'[e][n].live = FALSE /\ sockets[e][n].live = FALSE
      BY <1>2, <1>3, <1>5, SocketFacts DEF Socket
    <2> QED
      BY <1>3, <2>1
  <1>11. Live(e)' = Live(e) /\ Open(e)' = Open(e)
    BY <1>3, <1>6, <1>10, SocketFacts DEF Live, Open
  <1>12. OneSocket'
    <2>1. ASSUME NEW d \in Ends, d # e
          PROVE  /\ \A k \in 1 .. Latest(d)' : sockets'[d][k].live => k = Latest(d)'
                 /\ Latest(d)' <= MaxSockets[d]
                 /\ Open(d)' /\ ~Live(d)' => Latest(d)' < MaxSockets[d]
                 /\ link'[d].state = "none" => sockets'[d] = <<>>
      BY <1>3, <1>6, <2>1, SameEnd
    <2>2. link[e].state # "none"
      BY SocketFacts DEF OneSocket, Latest
    <2>3. /\ \A k \in 1 .. Latest(e)' : sockets'[e][k].live => k = Latest(e)'
          /\ Latest(e)' <= MaxSockets[e]
          /\ Open(e)' /\ ~Live(e)' => Latest(e)' < MaxSockets[e]
          /\ link'[e].state = "none" => sockets'[e] = <<>>
      BY <1>3, <1>6, <1>10, <1>11, <2>2 DEF OneSocket
    <2> QED
      BY <2>1, <2>3 DEF OneSocket
  <1>13. SetUpInv'
    BY <1>4, <1>6, StillSetUp DEF Shape
  <1>14. Bound(e)' => Bound(e) /\ Latest(e) # n
    <2> SUFFICES ASSUME Bound(e)' PROVE Bound(e) /\ Latest(e) # n
      OBVIOUS
    <2>1. Live(e) /\ sockets'[e][Latest(e)].at = "relay" /\ Latest(e) \in 1 .. Latest(e)
      BY <1>3, <1>11, SocketFacts DEF Bound
    <2>2. Latest(e) # n
      BY <1>5, <2>1, SocketFacts
    <2> QED
      BY <1>3, <2>1, <2>2 DEF Bound
  <1>15. Bound(o)' = Bound(o)
    BY <1>1, <1>3, <1>6, SameEnd
  <1>16. CASE bound' = bound /\ link' = link
    <2>1. \A d \in Ends : \A s : Told(d, s) => Told(d, s)'
      BY <1>16, ToldSame
    <2> QED
      BY <1>1, <1>3, <1>4, <1>9, <1>12, <1>13, <1>14, <1>15, <1>16, <2>1, StillKnows DEF Knows
  <1>17. CASE bound[e] = n /\ bound' = conns /\ setStatus(conns, "connecting")
    <2>1. ~Late /\ bridge' = "open" => ~Bound(e)'
      BY <1>4, <1>14, <1>17 DEF Knows
    <2>2. ASSUME ~Late, Bound(o)' PROVE bound'[o] = Latest(o)' /\ Told(o, Stand(o))'
      <3>1. bound[o] = Latest(o) /\ Live(o) /\ Latest(o) # 0
        BY <1>1, <1>15, <2>2 DEF Knows, Bound, Live
      <3>2. sockets[o][conns[o]].live /\ conns[o] # 0
        BY <1>1, <1>7, <3>1, SocketFacts
      <3>3. Hears(conns, o)
        BY <3>2 DEF Hears
      <3>4. Told(o, "connecting")'
        BY <1>1, <1>17, <3>3, StatusHeard DEF Statuses
      <3>5. Stand(o)' = "connecting"
        BY <1>1, <1>7, <1>17, TwoEnds DEF Stand
      <3> QED
        BY <1>1, <1>3, <1>7, <1>17, <3>1, <3>4, <3>5
    <2>3. Knows'
      BY <1>1, <2>1, <2>2 DEF Knows
    <2> QED
      BY <1>9, <1>12, <1>13, <2>3
  <1> QED
    BY <1>5, <1>16, <1>17

\* The call is dropped from the list and both ends are told.
LEMMA CloseKeeps ==
    ASSUME IInv, bridge = "open", Close,
           UNCHANGED <<sockets, calling, ringInterval, entry, sent, got>>,
           ending' \in [Ends -> BOOLEAN]
    PROVE  IInv'
  <1> USE DEF IInv
  <1>1. bridge' = "gone" /\ bound' = bound /\ setStatus(bound, "closed")
    BY DEF Close
  <1>2. /\ link' \in [Ends -> Link]
        /\ \A d \in Ends : link'[d].state = link[d].state
    BY <1>1, StatusHeard DEF Statuses
  <1>3. \A d \in Ends : Latest(d)' = Latest(d)
    BY DEF Latest
  <1>4. Shape'
    BY <1>1, <1>2, <1>3, SameBound DEF Shape
  <1>5. OneSocket'
    BY <1>2, <1>3, SameEnd DEF OneSocket
  <1>6. SetUpInv'
    BY <1>1, <1>2, StillSetUp DEF Shape
  <1>7. Knows'
    BY <1>1, GoneKnows
  <1> QED
    BY <1>4, <1>5, <1>6, <1>7

LEMMA BreakKeeps ==
    ASSUME IInv, NEW e \in Ends, Break(e)
    PROVE  IInv'
  <1> USE DEF IInv
  <1>1. UNCHANGED <<bridge, bound, link, calling, ringInterval, entry, ending, sent, got>>
    BY DEF Break, signal, ring
  <1>2. /\ sockets' \in [Ends -> Seq(Socket)]
        /\ \A d \in Ends : Latest(d)' = Latest(d)
        /\ \A d \in Ends : d # e => sockets'[d] = sockets[d]
        /\ \A k \in 1 .. Latest(e) : ~sockets'[e][k].live
        /\ ~Live(e)'
    BY BrokenSocket DEF Break
  <1>3. Shape'
    BY <1>1, <1>2, SameBound DEF Shape
  <1>4. OneSocket'
    <2>1. ASSUME NEW d \in Ends, d # e
          PROVE  /\ \A k \in 1 .. Latest(d)' : sockets'[d][k].live => k = Latest(d)'
                 /\ Latest(d)' <= MaxSockets[d]
                 /\ Open(d)' /\ ~Live(d)' => Latest(d)' < MaxSockets[d]
                 /\ link'[d].state = "none" => sockets'[d] = <<>>
      BY <1>1, <1>2, <2>1, SameEnd
    <2>2. /\ \A k \in 1 .. Latest(e)' : sockets'[e][k].live => k = Latest(e)'
          /\ Latest(e)' <= MaxSockets[e]
          /\ Open(e)' /\ ~Live(e)' => Latest(e)' < MaxSockets[e]
          /\ link'[e].state = "none" => sockets'[e] = <<>>
      BY <1>1, <1>2 DEF OneSocket, Break, Open
    <2> QED
      BY <2>1, <2>2 DEF OneSocket
  <1>5. SetUpInv'
    BY <1>1 DEF SetUpInv
  <1>6. \A d \in Ends : Bound(d)' => Bound(d)
    BY <1>1, <1>2, SameEnd DEF Bound
  <1>7. Knows'
    BY <1>1, <1>2, <1>6, ToldSame, StillKnows DEF Knows
  <1> QED
    BY <1>3, <1>4, <1>5, <1>7

\* A new websocket is not announced yet, and the old one was not live.
LEMMA OpenKeeps ==
    ASSUME IInv, NEW e \in Ends, setWebSocket(e), ~Live(e),
           Latest(e) < MaxSockets[e], link'[e].state = "open",
           link' \in [Ends -> Link],
           \A d \in Ends : d # e => link'[d] = link[d],
           UNCHANGED <<bridge, bound, sent, got>>,
           calling' \in {"idle", "added", "rung", "linked", "failed"},
           entry' \in {"none", "ringing", "lapsed", "accepted", "ignored", "declined"},
           ringInterval' \in BOOLEAN, ending' \in [Ends -> BOOLEAN]
    PROVE  Shape' /\ OneSocket' /\ Knows'
  <1> USE DEF IInv
  <1>1. /\ sockets' \in [Ends -> Seq(Socket)]
        /\ \A d \in Ends : d # e => sockets'[d] = sockets[d] /\ Latest(d)' = Latest(d)
        /\ Latest(e)' = Latest(e) + 1
        /\ \A k \in 1 .. Latest(e) : sockets'[e][k] = sockets[e][k]
        /\ sockets'[e][Latest(e) + 1] = NewSocket
    BY AddSocket
  <1>2. Latest(e) \in Nat
    BY SocketFacts
  <1>3. \A d \in Ends : bound'[d] <= Latest(d)'
    <2> TAKE d \in Ends
    <2>1. CASE d = e
      BY <1>1, <1>2, <2>1 DEF Shape
    <2>2. CASE d # e
      BY <1>1, <2>2 DEF Shape
    <2> QED
      BY <2>1, <2>2
  <1>4. Shape'
    BY <1>1, <1>3 DEF Shape
  <1>5. NewSocket.live /\ NewSocket.at = "announce"
    BY DEF NewSocket
  <1>6. Live(e)' /\ ~Bound(e)'
    BY <1>1, <1>2, <1>5 DEF Live, Bound
  <1>7. OneSocket'
    <2>1. ASSUME NEW d \in Ends, d # e
          PROVE  /\ \A k \in 1 .. Latest(d)' : sockets'[d][k].live => k = Latest(d)'
                 /\ Latest(d)' <= MaxSockets[d]
                 /\ Open(d)' /\ ~Live(d)' => Latest(d)' < MaxSockets[d]
                 /\ link'[d].state = "none" => sockets'[d] = <<>>
      BY <1>1, <2>1, SameEnd
    <2>2. \A k \in 1 .. Latest(e) : ~sockets[e][k].live
      BY SocketFacts DEF OneSocket
    <2>3. \A k \in 1 .. Latest(e)' : sockets'[e][k].live => k = Latest(e)'
      <3> TAKE k \in 1 .. Latest(e)'
      <3>1. k \in 1 .. Latest(e) \/ k = Latest(e)'
        BY <1>1, <1>2
      <3> QED
        BY <1>1, <2>2, <3>1
    <2>4. Latest(e)' <= MaxSockets[e]
      BY <1>1, <1>2, CallAssumption
    <2> QED
      BY <1>6, <2>1, <2>3, <2>4 DEF OneSocket
  <1>8. ASSUME ~Late, NEW d \in Ends, d # e, bridge' = "open", Bound(d)'
        PROVE  bound'[d] = Latest(d)' /\ Told(d, Stand(d))'
    <2>1. Bound(d)' => Bound(d) /\ Latest(d)' = Latest(d)
      BY <1>1, <1>8, SameEnd
    <2>2. \A s : Told(d, s) => Told(d, s)'
      BY <1>8, ToldSame
    <2> QED
      BY <1>8, <2>1, <2>2, StillKnows
  <1>9. Knows'
    BY <1>6, <1>8 DEF Knows
  <1> QED
    BY <1>4, <1>7, <1>9

LEMMA ReopenKeeps ==
    ASSUME IInv, NEW e \in Ends, Reopen(e)
    PROVE  IInv'
  <1> USE DEF IInv
  <1>1. /\ UNCHANGED <<bridge, bound, calling, ringInterval, entry, ending, sent, got>>
        /\ setWebSocket(e) /\ ~Live(e) /\ Open(e)
        /\ link' = [link EXCEPT ![e] = Push(link[e], Status("connecting"))]
    BY DEF Reopen, signal, ring
  <1>2. /\ link'[e] = Push(link[e], Status("connecting"))
        /\ \A d \in Ends : d # e => link'[d] = link[d]
    BY <1>1 DEF Shape
  <1>3. link'[e] \in Link /\ link'[e].state = link[e].state
    BY <1>2, PushTells, Words DEF Statuses
  <1>4. link' \in [Ends -> Link]
    BY <1>1, <1>2, <1>3 DEF Shape
  <1>5. Latest(e) < MaxSockets[e] /\ link'[e].state = "open"
    BY <1>1, <1>3 DEF OneSocket, Open
  <1>6. Shape' /\ OneSocket' /\ Knows'
    BY <1>1, <1>2, <1>4, <1>5, OpenKeeps DEF Shape
  <1>7. SetUpInv'
    <2>1. \A d \in Ends : link'[d].state = link[d].state
      BY <1>2, <1>3
    <2> QED
      BY <1>1, <2>1, StillSetUp DEF Shape
  <1> QED
    BY <1>6, <1>7

\* An end that closes its link leaves its place to the handler to clear.
LEMMA CloseLinkKeeps ==
    ASSUME IInv, NEW e \in Ends, Open(e), CloseLink(e),
           UNCHANGED <<bridge, bound, calling, entry, sent, got>>
    PROVE  IInv'
  <1> USE DEF IInv
  <1>1. /\ sockets' \in [Ends -> Seq(Socket)]
        /\ \A d \in Ends : Latest(d)' = Latest(d)
        /\ \A d \in Ends : d # e => sockets'[d] = sockets[d]
        /\ \A k \in 1 .. Latest(e) : ~sockets'[e][k].live
        /\ ~Live(e)'
    BY BrokenSocket DEF CloseLink
  <1>2. PICK l \in Link : l.state = "closed" /\ link' = [link EXCEPT ![e] = l]
    <2>1. link[e] \in Link /\ <<>> \in Seq(Word)
      BY DEF Shape
    <2>2. PICK l \in Link : l = [link[e] EXCEPT !.state = "closed", !.messages = <<>>]
      BY <2>1 DEF Link
    <2>3. l.state = "closed"
      BY <2>1, <2>2 DEF Link
    <2>4. link' = [link EXCEPT ![e] = l]
      BY <2>1, <2>2 DEF CloseLink
    <2> QED
      BY <2>3, <2>4
  <1>3. /\ link' \in [Ends -> Link] /\ link'[e].state = "closed"
        /\ \A d \in Ends : d # e => link'[d] = link[d]
    BY <1>2 DEF Shape
  <1>4. ending' \in [Ends -> BOOLEAN] /\ ringInterval' \in BOOLEAN
        /\ (ringInterval' => ringInterval)
    BY DEF CloseLink, Shape
  <1>5. Shape'
    BY <1>1, <1>3, <1>4, SameBound DEF Shape
  <1>6. OneSocket'
    <2>1. ASSUME NEW d \in Ends, d # e
          PROVE  /\ \A k \in 1 .. Latest(d)' : sockets'[d][k].live => k = Latest(d)'
                 /\ Latest(d)' <= MaxSockets[d]
                 /\ Open(d)' /\ ~Live(d)' => Latest(d)' < MaxSockets[d]
                 /\ link'[d].state = "none" => sockets'[d] = <<>>
      BY <1>1, <1>3, <2>1, SameEnd
    <2>2. /\ \A k \in 1 .. Latest(e)' : sockets'[e][k].live => k = Latest(e)'
          /\ Latest(e)' <= MaxSockets[e] /\ ~Open(e)' /\ link'[e].state # "none"
      BY <1>1, <1>3 DEF OneSocket, Open
    <2> QED
      BY <2>1, <2>2 DEF OneSocket
  <1>7. SetUpInv'
    <2>1. \A d \in Ends : link[d].state = "none" => link'[d].state = "none"
      BY <1>3 DEF Open
    <2> QED
      BY <1>4, <2>1, StillSetUp
  <1>8. ~Bound(e)'
    BY <1>1 DEF Bound
  <1>9. ASSUME ~Late, NEW d \in Ends, d # e, bridge' = "open", Bound(d)'
        PROVE  bound'[d] = Latest(d)' /\ Told(d, Stand(d))'
    <2>1. Bound(d)' => Bound(d) /\ Latest(d)' = Latest(d)
      BY <1>1, <1>3, <1>9, SameEnd
    <2>2. \A s : Told(d, s) => Told(d, s)'
      BY <1>3, <1>9, ToldSame
    <2> QED
      BY <1>9, <2>1, <2>2, StillKnows
  <1>10. Knows'
    BY <1>8, <1>9 DEF Knows
  <1> QED
    BY <1>5, <1>6, <1>7, <1>10

LEMMA EndKeeps ==
    ASSUME IInv, NEW e \in Ends, End(e)
    PROVE  IInv'
  BY CloseLinkKeeps DEF End, signal

LEMMA NotifyKeeps ==
    ASSUME IInv, NEW e \in Ends, Notify(e)
    PROVE  IInv'
  <1> USE DEF IInv
  <1> DEFINE m == Head(link[e].messages)
  <1>1. /\ link[e] \in Link /\ link[e].messages \in Seq(Word) /\ link[e].messages # <<>>
        /\ Open(e) /\ UNCHANGED <<bridge, bound, calling, entry, sent>>
    BY DEF Notify, Shape, Link, signal
  <1>2. m \in Word /\ Tail(link[e].messages) \in Seq(Word)
    BY <1>1
  <1>3. \/ m[1] = "status" /\ m[2] \in Statuses
        \/ m[1] = "message" /\ m[2] \in Nat
    BY <1>2, Words
  <1> HIDE DEF m
  <1>4. CASE m[1] = "status" /\ m[2] = "closed"
    <2>1. CloseLink(e) /\ got' = got
      BY <1>4 DEF Notify, m
    <2> QED
      BY <1>1, <2>1, CloseLinkKeeps
  <1>5. CASE ~(m[1] = "status" /\ m[2] = "closed")
    <2>1. PICK l \in Link :
            /\ l.state = link[e].state /\ l.messages = Tail(link[e].messages)
            /\ l.status = IF m[1] = "status" THEN m[2] ELSE link[e].status
            /\ link' = [link EXCEPT ![e] = l]
      <3>1. CASE m[1] = "message"
        <4>1. PICK l \in Link : l = [link[e] EXCEPT !.messages = Tail(link[e].messages)]
          BY <1>1, <1>2 DEF Link
        <4>2. link' = [link EXCEPT ![e] = l]
          BY <3>1, <4>1 DEF Notify, m
        <4>3. /\ l.state = link[e].state /\ l.messages = Tail(link[e].messages)
              /\ l.status = link[e].status
          BY <1>1, <4>1 DEF Link
        <4> QED
          BY <3>1, <4>2, <4>3
      <3>2. CASE m[1] = "status"
        <4>1. PICK l \in Link :
                l = [[link[e] EXCEPT !.messages = Tail(link[e].messages)] EXCEPT !.status = m[2]]
          BY <1>1, <1>2, <1>3, <3>2 DEF Link
        <4>2. link' = [link EXCEPT ![e] = l]
          BY <1>5, <3>2, <4>1 DEF Notify, m
        <4>3. /\ l.state = link[e].state /\ l.messages = Tail(link[e].messages)
              /\ l.status = m[2]
          BY <1>1, <4>1 DEF Link
        <4> QED
          BY <3>2, <4>2, <4>3
      <3> QED
        BY <1>3, <3>1, <3>2
    <2>2. /\ link' \in [Ends -> Link] /\ link'[e] = l
          /\ \A d \in Ends : d # e => link'[d] = link[d]
          /\ \A d \in Ends : link'[d].state = link[d].state
      BY <2>1 DEF Shape
    <2>3. sockets' = sockets /\ ending' = ending
      BY <1>5, <1>3 DEF Notify, m
    <2>4. ringInterval' \in BOOLEAN /\ (ringInterval' => ringInterval)
      BY <1>5, <1>3 DEF Notify, m, Shape
    <2>5. got' \in [Ends -> Nat]
      BY <1>5, <1>3 DEF Notify, m, Shape
    <2>6. \A d \in Ends : Latest(d)' = Latest(d)
      BY <2>3 DEF Latest
    <2>7. Shape'
      BY <1>1, <2>2, <2>3, <2>4, <2>5, <2>6, SameBound DEF Shape
    <2>8. OneSocket'
      BY <2>2, <2>3, <2>6, SameEnd DEF OneSocket
    <2>9. SetUpInv'
      BY <1>1, <2>2, <2>4, StillSetUp
    <2>10. \A s : Told(e, s) => Told(e, s)'
      BY <1>1, <2>1, <2>2, HandleTells DEF m
    <2>11. \A d \in Ends : \A s : Told(d, s) => Told(d, s)'
      BY <2>2, <2>10, ToldSame
    <2>12. \A d \in Ends : Bound(d)' = Bound(d)
      BY <2>2, <2>3, <2>6, SameEnd
    <2>13. Knows'
      BY <1>1, <2>6, <2>11, <2>12, StillKnows DEF Knows
    <2> QED
      BY <2>7, <2>8, <2>9, <2>13
  <1> QED
    BY <1>4, <1>5

LEMMA SendKeeps ==
    ASSUME IInv, NEW e \in Ends, sendMessage(e)
    PROVE  IInv'
  <1> USE DEF IInv
  <1>1. UNCHANGED <<bridge, bound, link, calling, ringInterval, entry, ending, got>>
    BY DEF sendMessage, signal, ring
  <1>2. sent' \in [Ends -> Nat]
    BY DEF sendMessage, Shape
  <1>3. /\ sockets' \in [Ends -> Seq(Socket)]
        /\ \A d \in Ends : Latest(d)' = Latest(d)
        /\ \A d \in Ends : d # e => sockets'[d] = sockets[d]
        /\ \A k \in 1 .. Latest(e) : /\ sockets'[e][k].live = sockets[e][k].live
                                     /\ sockets'[e][k].at = sockets[e][k].at
    <2>1. CASE Live(e)
      <3>1. PICK n \in 1 .. Latest(e) : n = Latest(e) /\ sockets[e][n] \in Socket
        BY <2>1, SocketFacts
      <3>0. sockets[e][n].up \in Seq(Nat) /\ sent[e] + 1 \in Nat
        BY <3>1 DEF Socket, Shape
      <3>2. Append(sockets[e][n].up, sent[e] + 1) \in Seq(Nat)
        BY <3>0
      <3>3. PICK r \in Socket :
              r = [sockets[e][n] EXCEPT !.up = Append(sockets[e][n].up, sent[e] + 1)]
        BY <3>1, <3>2 DEF Socket
      <3>4. r.live = sockets[e][n].live /\ r.at = sockets[e][n].at
        BY <3>1, <3>3 DEF Socket
      <3>5. sockets' = [sockets EXCEPT ![e] = [sockets[e] EXCEPT ![n] = r]]
        BY <2>1, <3>1, <3>3 DEF sendMessage
      <3>6. /\ sockets' \in [Ends -> Seq(Socket)]
            /\ \A d \in Ends : Latest(d)' = Latest(d)
            /\ \A d \in Ends : d # e => sockets'[d] = sockets[d]
            /\ \A k \in 1 .. Latest(e) : k # n => sockets'[e][k] = sockets[e][k]
            /\ sockets'[e][n] = r
        BY <3>5, ChangeSocket
      <3> QED
        BY <3>4, <3>6
    <2>2. CASE ~Live(e)
      BY <2>2 DEF sendMessage, Shape, Latest
    <2> QED
      BY <2>1, <2>2
  <1>4. Shape'
    BY <1>1, <1>2, <1>3, SameBound DEF Shape
  <1>5. Live(e)' = Live(e) /\ Bound(e)' = Bound(e)
    BY <1>3, SocketFacts DEF Live, Bound
  <1>6. OneSocket'
    <2>1. ASSUME NEW d \in Ends, d # e
          PROVE  /\ \A k \in 1 .. Latest(d)' : sockets'[d][k].live => k = Latest(d)'
                 /\ Latest(d)' <= MaxSockets[d]
                 /\ Open(d)' /\ ~Live(d)' => Latest(d)' < MaxSockets[d]
                 /\ link'[d].state = "none" => sockets'[d] = <<>>
      BY <1>1, <1>3, <2>1, SameEnd
    <2>2. /\ \A k \in 1 .. Latest(e)' : sockets'[e][k].live => k = Latest(e)'
          /\ Latest(e)' <= MaxSockets[e]
          /\ Open(e)' /\ ~Live(e)' => Latest(e)' < MaxSockets[e]
          /\ link'[e].state # "none"
      BY <1>1, <1>3, <1>5 DEF OneSocket, sendMessage, Open
    <2> QED
      BY <2>1, <2>2 DEF OneSocket
  <1>7. SetUpInv'
    BY <1>1 DEF SetUpInv
  <1>8. \A d \in Ends : Bound(d)' = Bound(d)
    BY <1>1, <1>3, <1>5, SameEnd
  <1>9. Knows'
    BY <1>1, <1>3, <1>8, ToldSame, StillKnows DEF Knows
  <1> QED
    BY <1>4, <1>6, <1>7, <1>9

\* Nothing moves at the ends or at the bridge.
LEMMA QuietKeeps ==
    ASSUME IInv, UNCHANGED <<bridge, bound, sockets, link, sent, got>>,
           calling' \in {"idle", "added", "rung", "linked", "failed"},
           entry' \in {"none", "ringing", "lapsed", "accepted", "ignored", "declined"},
           ringInterval' \in BOOLEAN, ending' \in [Ends -> BOOLEAN]
    PROVE  Shape' /\ OneSocket' /\ Knows'
  <1> USE DEF IInv
  <1>1. \A d \in Ends : Latest(d)' = Latest(d)
    BY DEF Latest
  <1>2. Shape'
    BY <1>1, SameBound DEF Shape
  <1>3. OneSocket'
    BY <1>1, SameEnd DEF OneSocket
  <1>4. \A d \in Ends : Bound(d)' = Bound(d)
    BY <1>1, SameEnd
  <1>5. Knows'
    BY <1>1, <1>4, ToldSame, StillKnows DEF Knows
  <1> QED
    BY <1>2, <1>3, <1>5

LEMMA SetUpKeeps ==
    ASSUME IInv, SetUp
    PROVE  IInv'
  <1> USE DEF IInv
  <1>1. CASE AddCall
    <2>1. /\ calling = "idle" /\ calling' = "added" /\ bridge = "none" /\ bridge' = "open"
          /\ UNCHANGED <<bound, sockets, link, ringInterval, entry, ending, sent, got>>
      BY <1>1 DEF AddCall, SetUpInv
    <2>2. \A d \in Ends : link[d].state = "none"
      BY <2>1, TwoEnds DEF SetUpInv
    <2>3. \A d \in Ends : Latest(d)' = Latest(d)
      BY <2>1 DEF Latest
    <2>4. Shape'
      BY <2>1, <2>3, SameBound DEF Shape
    <2>5. OneSocket'
      BY <2>1, <2>3, SameEnd DEF OneSocket
    <2>6. SetUpInv'
      BY <2>1 DEF SetUpInv
    <2>7. \A d \in Ends : ~Bound(d)'
      <3> TAKE d \in Ends
      <3>1. sockets'[d] = <<>>
        BY <2>1, <2>2 DEF OneSocket
      <3> QED
        BY <3>1 DEF Bound, Live, Latest
    <2> QED
      BY <2>4, <2>5, <2>6, <2>7 DEF Knows
  <1>2. CASE FirstRing
    <2>1. Shape' /\ OneSocket' /\ Knows'
      BY <1>2, QuietKeeps DEF FirstRing, Rings, Shape, signal
    <2>2. SetUpInv'
      BY <1>2 DEF FirstRing, Rings, SetUpInv, signal
    <2> QED
      BY <2>1, <2>2
  <1>3. CASE FirstRingFails
    <2>1. Shape' /\ OneSocket' /\ Knows'
      BY <1>3, QuietKeeps DEF FirstRingFails, Shape, signal
    <2>2. SetUpInv'
      BY <1>3 DEF FirstRingFails, SetUpInv, signal
    <2> QED
      BY <2>1, <2>2
  <1>4. CASE Linked
    <2>1. PICK e \in Ends : e = "caller"
      BY TwoEnds
    <2>2. /\ calling = "rung" /\ calling' = "linked" /\ ringInterval' = TRUE
          /\ UNCHANGED <<bridge, bound, entry, ending, sent, got>>
          /\ link' = [link EXCEPT ![e].state = "open"] /\ setWebSocket(e)
      BY <1>4, <2>1 DEF Linked, signal
    <2>3. link[e].state = "none" /\ sockets[e] = <<>>
      BY <2>1, <2>2 DEF SetUpInv, OneSocket
    <2>4. /\ link' \in [Ends -> Link] /\ link'[e].state = "open"
          /\ \A d \in Ends : d # e => link'[d] = link[d]
      BY <2>2 DEF Shape, Link
    <2>5. ~Live(e) /\ Latest(e) < MaxSockets[e]
      BY <2>3, CallAssumption DEF Live, Latest
    <2>6. Shape' /\ OneSocket' /\ Knows'
      BY <2>2, <2>4, <2>5, OpenKeeps DEF Shape
    <2>7. SetUpInv'
      BY <2>1, <2>2, <2>4, TwoEnds DEF SetUpInv
    <2> QED
      BY <2>6, <2>7
  <1> QED
    BY <1>1, <1>2, <1>3, <1>4 DEF SetUp

LEMMA RingingKeeps ==
    ASSUME IInv, Ringing
    PROVE  IInv'
  <1> USE DEF IInv
  <1>1. CASE RingAgain
    <2>1. Shape' /\ OneSocket' /\ Knows'
      BY <1>1, QuietKeeps DEF RingAgain, Rings, Shape, signal
    <2>2. SetUpInv'
      BY <1>1 DEF RingAgain, Rings, SetUpInv, signal
    <2> QED
      BY <2>1, <2>2
  <1>2. CASE RingExpires
    <2>1. Shape' /\ OneSocket' /\ Knows'
      BY <1>2, QuietKeeps DEF RingExpires, Shape, signal
    <2>2. SetUpInv'
      BY <1>2 DEF RingExpires, SetUpInv, signal
    <2> QED
      BY <2>1, <2>2
  <1>3. CASE Accept
    <2>1. PICK e \in Ends : e = "callee"
      BY TwoEnds
    <2>2. /\ entry = "ringing" /\ entry' = "accepted"
          /\ UNCHANGED <<bridge, bound, calling, ringInterval, ending, sent, got>>
          /\ link' = [link EXCEPT ![e].state = "open"] /\ setWebSocket(e)
      BY <1>3, <2>1 DEF Accept, Answer, signal
    <2>3. link[e].state = "none" /\ sockets[e] = <<>>
      BY <2>1, <2>2 DEF SetUpInv, OneSocket
    <2>4. /\ link' \in [Ends -> Link] /\ link'[e].state = "open"
          /\ \A d \in Ends : d # e => link'[d] = link[d]
      BY <2>2 DEF Shape, Link
    <2>5. ~Live(e) /\ Latest(e) < MaxSockets[e]
      BY <2>3, CallAssumption DEF Live, Latest
    <2>6. Shape' /\ OneSocket' /\ Knows'
      BY <2>2, <2>4, <2>5, OpenKeeps DEF Shape
    <2>7. SetUpInv'
      BY <2>1, <2>2, <2>4, TwoEnds DEF SetUpInv
    <2> QED
      BY <2>6, <2>7
  <1>4. CASE Decline
    <2>1. Shape' /\ OneSocket' /\ Knows'
      BY <1>4, QuietKeeps DEF Decline, Answer, Shape, signal
    <2>2. SetUpInv'
      BY <1>4 DEF Decline, Answer, SetUpInv, signal
    <2> QED
      BY <2>1, <2>2
  <1>5. CASE Ignore
    <2>1. Shape' /\ OneSocket' /\ Knows'
      BY <1>5, QuietKeeps DEF Ignore, Answer, Shape, signal
    <2>2. SetUpInv'
      BY <1>5 DEF Ignore, Answer, SetUpInv, signal
    <2> QED
      BY <2>1, <2>2
  <1> QED
    BY <1>1, <1>2, <1>3, <1>4, <1>5 DEF Ringing

LEMMA RemovalKeeps ==
    ASSUME IInv, NEW e \in Ends, Removal(e)
    PROVE  IInv'
  <1> USE DEF IInv
  <1>1. /\ UNCHANGED <<sockets, calling, ringInterval, entry, sent, got>>
        /\ ending' \in [Ends -> BOOLEAN]
    BY DEF Removal, RemoveCall, RemoveFails, ring, Shape
  <1>2. CASE bridge = "open" /\ Close
    BY <1>1, <1>2, CloseKeeps
  <1>3. CASE UNCHANGED <<bridge, bound, link>>
    <2>1. Shape' /\ OneSocket' /\ Knows'
      BY <1>1, <1>3, QuietKeeps DEF Shape
    <2>2. SetUpInv'
      BY <1>1, <1>3 DEF SetUpInv
    <2> QED
      BY <2>1, <2>2
  <1> QED
    BY <1>2, <1>3 DEF Removal, RemoveCall, RemoveFails, RemoveBridge, signal

LEMMA InitHolds == Init => IInv
  <1> SUFFICES ASSUME Init PROVE IInv
    OBVIOUS
  <1>1. [state |-> "none", status |-> "idle", messages |-> <<>>] \in Link
    BY DEF Link, Statuses
  <1>2. \A e \in Ends : Latest(e) = 0 /\ sockets[e] = <<>> /\ link[e].state = "none"
    BY DEF Init, Latest
  <1>3. sockets \in [Ends -> Seq(Socket)] /\ link \in [Ends -> Link]
    BY <1>1 DEF Init
  <1>4. Shape
    <2>1. bound \in [Ends -> Nat] /\ \A e \in Ends : bound[e] <= Latest(e)
      BY <1>2 DEF Init
    <2>2. ending \in [Ends -> BOOLEAN] /\ sent \in [Ends -> Nat] /\ got \in [Ends -> Nat]
      BY DEF Init
    <2> QED
      BY <1>3, <2>1, <2>2 DEF Init, Shape
  <1>5. OneSocket
    BY <1>2, CallAssumption DEF OneSocket, Open
  <1>6. SetUpInv
    BY <1>2, TwoEnds DEF Init, SetUpInv
  <1>7. Knows
    BY DEF Init, Knows
  <1> QED
    BY <1>4, <1>5, <1>6, <1>7 DEF IInv

LEMMA Inductive ==
    ASSUME IInv, [Next]_vars
    PROVE  IInv'
  <1>1. CASE UNCHANGED vars
    <2>1. Shape' /\ OneSocket' /\ Knows'
      BY <1>1, QuietKeeps DEF IInv, Shape, vars, signal, ring
    <2>2. SetUpInv'
      BY <1>1 DEF IInv, SetUpInv, vars, signal, ring
    <2> QED
      BY <2>1, <2>2 DEF IInv
  <1>2. CASE SetUp
    BY <1>2, SetUpKeeps
  <1>3. CASE Ringing
    BY <1>3, RingingKeeps
  <1>4. CASE Expire
    BY <1>4, CloseKeeps DEF Expire, ring, IInv, Shape
  <1>5. ASSUME NEW e \in Ends, SocketStep(e) PROVE IInv'
    BY <1>5, BindKeeps, RelayKeeps, ReleaseKeeps DEF SocketStep
  <1>6. ASSUME NEW e \in Ends, Reopen(e) \/ Notify(e) \/ Removal(e) PROVE IInv'
    BY <1>6, ReopenKeeps, NotifyKeeps, RemovalKeeps
  <1>7. ASSUME NEW e \in Ends, UserStep(e) \/ Break(e) PROVE IInv'
    BY <1>7, SendKeeps, EndKeeps, BreakKeeps DEF UserStep
  <1> QED
    BY <1>1, <1>2, <1>3, <1>4, <1>5, <1>6, <1>7 DEF Next, Progress

\* As long as tokens are read in the order of an end's sockets, an end whose
\* websocket works and was announced holds its place in the bridge, and the last
\* thing it was told is how the two ends stand (Signal in api_signal.go,
\* SetConnection and ClearConnection in bridge.go): over any number of reconnections of both.
THEOREM EndsKnow ==
    ASSUME ~Late
    PROVE  Spec => []StatusTrue
  <1>1. IInv => StatusTrue
    <2> SUFFICES ASSUME IInv, bridge = "open", NEW e \in Ends, Bound(e)
                 PROVE  bound[e] = Latest(e) /\ LastStatus(e) = Stand(e)
      BY DEF StatusTrue, Bound, Stand
    <2>1. bound[e] = Latest(e) /\ Told(e, Stand(e))
      BY DEF IInv, Knows
    <2>2. LastStatus(e) = Stand(e)
      BY <2>1, ToldIsLast DEF IInv
    <2> QED
      BY <2>1, <2>2
  <1>2. IInv /\ [Next]_vars => IInv'
    BY Inductive
  <1> QED
    BY <1>1, <1>2, InitHolds, PTL DEF Spec

-----------------------------------------------------------------------------
(* The order of the messages.                                              *)

Up(e, n) == sockets[e][n].up

\* The messages written to a socket and not read: all but the token.
Waiting(e, n) == {i \in 1 .. Len(Up(e, n)) : sockets[e][n].at = "announce" => i # 1}

\* A socket whose messages may still be relayed.
Speaks(e, n) ==
    \/ sockets[e][n].at = "relay" /\ bound[e] = n
    \/ \A k \in n .. Latest(e) : sockets[e][k].at = "announce"

\* What an end was given: the last message it handled and those in its queue.
Unread(d) == {i \in 1 .. Len(link[d].messages) : link[d].messages[i][1] = "message"}
Num(d, i) == link[d].messages[i][2]
After(d, v) == got[d] < v /\ \A i \in Unread(d) : Num(d, i) < v

Bounded(e) ==
    /\ got[Other(e)] <= sent[e] /\ sent[e] <= MaxSent[e]
    /\ \A n \in 1 .. Latest(e) : \A i \in Waiting(e, n) : Up(e, n)[i] <= sent[e]
    /\ \A i \in Unread(Other(e)) : Num(Other(e), i) <= sent[e]

\* What is on the way from an end, socket by socket, is in the order of sending,
Queued(e) ==
    \A n, k \in 1 .. Latest(e) : \A i \in Waiting(e, n), j \in Waiting(e, k) :
        (n < k \/ (n = k /\ i < j)) => Up(e, n)[i] < Up(e, k)[j]

\* so is what was relayed to an end and is not handled,
Heard(d) ==
    /\ \A i \in Unread(d) : got[d] < Num(d, i)
    /\ \A i, j \in Unread(d) : i < j => Num(d, i) < Num(d, j)

\* and what may still be relayed comes after it.
Speech(e) ==
    \A n \in 1 .. Latest(e) : Speaks(e, n) =>
        \A i \in Waiting(e, n) : After(Other(e), Up(e, n)[i])

Order ==
    /\ \A e \in Ends : Bounded(e) /\ Queued(e)
    /\ ~Late => \A e \in Ends : Heard(e) /\ Speech(e)

LEMMA UpFacts ==
    ASSUME Shape, NEW e \in Ends, NEW n \in 1 .. Latest(e)
    PROVE  /\ Up(e, n) \in Seq(Nat) /\ Len(Up(e, n)) \in Nat
           /\ \A i \in 1 .. Len(Up(e, n)) : Up(e, n)[i] \in Nat
           /\ \A i \in Waiting(e, n) : i \in Nat /\ Up(e, n)[i] \in Nat
           /\ n \in Nat
  <1>1. Up(e, n) \in Seq(Nat)
    BY SocketFacts DEF Up, Socket
  <1>2. Len(Up(e, n)) \in Nat /\ \A i \in 1 .. Len(Up(e, n)) : Up(e, n)[i] \in Nat
    BY <1>1
  <1> QED
    BY <1>1, <1>2, SocketFacts DEF Waiting

LEMMA NumFacts ==
    ASSUME Shape, NEW d \in Ends
    PROVE  /\ link[d].messages \in Seq(Word) /\ Len(link[d].messages) \in Nat
           /\ \A i \in Unread(d) : i \in Nat /\ Num(d, i) \in Nat
           /\ got[d] \in Nat /\ sent[d] \in Nat
  <1>1. link[d].messages \in Seq(Word) /\ got[d] \in Nat /\ sent[d] \in Nat
    BY DEF Shape, Link
  <1>2. /\ Len(link[d].messages) \in Nat
        /\ \A i \in 1 .. Len(link[d].messages) : link[d].messages[i] \in Word
    BY <1>1
  <1>3. \A i \in Unread(d) : i \in Nat /\ Num(d, i) \in Nat
    BY <1>2, Words DEF Unread, Num
  <1> QED
    BY <1>1, <1>2, <1>3

\* Nothing but a status is added to what an end was given, or taken from it.
Kept(d) ==
    /\ got'[d] = got[d]
    /\ \E c \in {0, 1} : \A i \in Unread(d)' :
        i + c \in Unread(d) /\ link'[d].messages[i] = link[d].messages[i + c]

LEMMA KeptHeard ==
    ASSUME Shape', NEW d \in Ends, Kept(d)
    PROVE  /\ Heard(d) => Heard(d)'
           /\ \A v : After(d, v) => After(d, v)'
           /\ \A v : (\A i \in Unread(d) : Num(d, i) <= v) => (\A i \in Unread(d) : Num(d, i) <= v)'
  <1>1. PICK c \in {0, 1} : \A i \in Unread(d)' :
            i + c \in Unread(d) /\ link'[d].messages[i] = link[d].messages[i + c]
    BY DEF Kept
  <1>2. \A i \in Unread(d)' : i \in Nat
    <2>1. link'[d].messages \in Seq(Word)
      BY DEF Shape, Link
    <2>2. Len(link'[d].messages) \in Nat
      BY <2>1
    <2> QED
      BY <2>2 DEF Unread
  <1>3. got'[d] = got[d] /\ \A i \in Unread(d)' : Num(d, i)' = Num(d, i + c)
    BY <1>1 DEF Kept, Num
  <1>4. ASSUME Heard(d) PROVE Heard(d)'
    <2>1. ASSUME NEW i \in Unread(d)', NEW j \in Unread(d)', i < j
          PROVE  Num(d, i)' < Num(d, j)'
      <3>1. i + c < j + c /\ i + c \in Unread(d) /\ j + c \in Unread(d)
        BY <1>1, <1>2, <2>1
      <3>2. Num(d, i + c) < Num(d, j + c)
        BY <1>4, <3>1 DEF Heard
      <3> QED
        BY <1>3, <3>2
    <2>2. \A i \in Unread(d)' : got'[d] < Num(d, i)'
      BY <1>1, <1>3, <1>4 DEF Heard
    <2> QED
      BY <2>1, <2>2 DEF Heard
  <1>5. \A v : After(d, v) => After(d, v)'
    BY <1>1, <1>3 DEF After
  <1> QED
    BY <1>1, <1>3, <1>4, <1>5

LEMMA StatusKept ==
    ASSUME Shape, NEW d \in Ends, NEW s, got'[d] = got[d],
           link'[d] = link[d] \/ link'[d] = Push(link[d], Status(s))
    PROVE  Kept(d)
  <1>1. CASE link'[d] = link[d]
    <2>1. \A i \in Unread(d)' : i + 0 = i /\ i \in Unread(d)
      BY <1>1, NumFacts DEF Unread
    <2> QED
      BY <1>1, <2>1 DEF Kept
  <1>2. CASE link'[d] = Push(link[d], Status(s))
    <2> DEFINE ms == link[d].messages
    <2>1. ms \in Seq(Word) /\ Len(ms) \in Nat /\ link[d] \in Link
      BY NumFacts DEF Shape
    <2>2. link'[d].messages = Append(ms, Status(s))
      BY <1>2, <2>1 DEF Push, Link
    <2> HIDE DEF ms
    <2>3. /\ Len(link'[d].messages) = Len(ms) + 1
          /\ \A i \in 1 .. Len(ms) : link'[d].messages[i] = ms[i]
          /\ link'[d].messages[Len(ms) + 1] = Status(s)
      BY <2>1, <2>2
    <2>4. \A i \in 1 .. Len(ms) + 1 : i \in 1 .. Len(ms) \/ i = Len(ms) + 1
      BY <2>1
    <2>5. Status(s)[1] # "message"
      BY Words
    <2>6. \A i \in Unread(d)' : i \in 1 .. Len(ms)
      BY <2>3, <2>4, <2>5 DEF Unread
    <2>7. \A i \in Unread(d)' : i + 0 \in Unread(d) /\ link'[d].messages[i] = ms[i + 0]
      <3> TAKE i \in Unread(d)'
      <3>1. i \in 1 .. Len(ms) /\ i + 0 = i
        BY <2>6
      <3> QED
        BY <2>3, <3>1 DEF Unread, ms
    <2> QED
      BY <2>7 DEF Kept, ms
  <1> QED
    BY <1>1, <1>2

\* The statuses set by the bridge.
LEMMA SetStatusKept ==
    ASSUME Shape, NEW conns, NEW s, setStatus(conns, s), got' = got
    PROVE  \A d \in Ends : Kept(d)
  <1> SUFFICES ASSUME NEW d \in Ends PROVE Kept(d)
    OBVIOUS
  <1>1. link'[d] = link[d] \/ link'[d] = Push(link[d], Status(s))
    BY DEF setStatus
  <1> QED
    BY <1>1, StatusKept

\* What waits in a socket waited there before, perhaps one place further back.
Inherits(e, n) ==
    \/ Waiting(e, n)' = {}
    \/ /\ n \in 1 .. Latest(e)
       /\ \E c \in {0, 1} : \A i \in Waiting(e, n)' :
            i + c \in Waiting(e, n) /\ Up(e, n)'[i] = Up(e, n)[i + c]

LEMMA InheritedQueue ==
    ASSUME Shape, NEW e \in Ends, \A n \in 1 .. Latest(e)' : Inherits(e, n), sent'[e] = sent[e],
           Latest(e)' \in Nat, \A n \in 1 .. Latest(e)' : Waiting(e, n)' \subseteq Nat
    PROVE  /\ Queued(e) => Queued(e)'
           /\ (\A n \in 1 .. Latest(e) : \A i \in Waiting(e, n) : Up(e, n)[i] <= sent[e])
              => (\A n \in 1 .. Latest(e) : \A i \in Waiting(e, n) : Up(e, n)[i] <= sent[e])'
  <1>1. ASSUME NEW n \in 1 .. Latest(e)', NEW i \in Waiting(e, n)'
        PROVE  /\ n \in 1 .. Latest(e)
               /\ \E c \in {0, 1} : /\ i + c \in Waiting(e, n) /\ Up(e, n)'[i] = Up(e, n)[i + c]
                                    /\ \A j \in Waiting(e, n)' : j + c \in Waiting(e, n)
                                                                 /\ Up(e, n)'[j] = Up(e, n)[j + c]
    BY <1>1 DEF Inherits
  <1>2. ASSUME Queued(e), NEW n \in 1 .. Latest(e)', NEW k \in 1 .. Latest(e)',
               NEW i \in Waiting(e, n)', NEW j \in Waiting(e, k)', n < k \/ (n = k /\ i < j)
        PROVE  Up(e, n)'[i] < Up(e, k)'[j]
    <2>0. i \in Nat /\ j \in Nat
      OBVIOUS
    <2>1. CASE n < k
      <3>1. n \in 1 .. Latest(e) /\ k \in 1 .. Latest(e)
        BY <1>1
      <3>2. PICK a \in Waiting(e, n) : Up(e, n)'[i] = Up(e, n)[a]
        BY <1>1
      <3>3. PICK b \in Waiting(e, k) : Up(e, k)'[j] = Up(e, k)[b]
        BY <1>1
      <3> QED
        BY <1>2, <2>1, <3>1, <3>2, <3>3 DEF Queued
    <2>2. CASE n = k /\ i < j
      <3>1. PICK c \in {0, 1} : \A l \in Waiting(e, n)' : l + c \in Waiting(e, n)
                                                          /\ Up(e, n)'[l] = Up(e, n)[l + c]
        BY <1>1
      <3>2. n \in 1 .. Latest(e) /\ i + c < j + c
        BY <1>1, <2>0, <2>2
      <3>3. /\ i + c \in Waiting(e, n) /\ Up(e, n)'[i] = Up(e, n)[i + c]
            /\ j + c \in Waiting(e, n) /\ Up(e, n)'[j] = Up(e, n)[j + c]
        BY <2>2, <3>1
      <3>4. Up(e, n)[i + c] < Up(e, n)[j + c]
        BY <1>2, <3>2, <3>3 DEF Queued
      <3> QED
        BY <2>2, <3>3, <3>4
    <2> QED
      BY <1>2, <2>1, <2>2
  <1>3. Queued(e) => Queued(e)'
    BY <1>2 DEF Queued
  <1> QED
    BY <1>1, <1>3

\* An end that was given nothing new by the other, which sent nothing new.
LEMMA QuietBounds ==
    ASSUME Shape, Shape', NEW e \in Ends, Bounded(e), Queued(e), sent'[e] = sent[e],
           Kept(Other(e)), \A n \in 1 .. Latest(e)' : Inherits(e, n)
    PROVE  Bounded(e)' /\ Queued(e)'
  <1>1. /\ Latest(e)' \in Nat /\ \A n \in 1 .. Latest(e)' : Waiting(e, n)' \subseteq Nat
    <2>1. sockets'[e] \in Seq(Socket)
      BY DEF Shape
    <2>2. Latest(e)' \in Nat
      BY <2>1 DEF Latest
    <2> QED
      BY <2>2 DEF Waiting
  <1>2. /\ Queued(e)'
        /\ (\A n \in 1 .. Latest(e) : \A i \in Waiting(e, n) : Up(e, n)[i] <= sent[e])'
    BY <1>1, InheritedQueue DEF Bounded
  <1>3. (\A i \in Unread(Other(e)) : Num(Other(e), i) <= sent[e])'
    <2>1. PICK d \in Ends : d = Other(e)
      BY TwoEnds
    <2>2. PICK v : v = sent[e]
      OBVIOUS
    <2>3. (\A i \in Unread(d) : Num(d, i) <= v) => (\A i \in Unread(d) : Num(d, i) <= v)'
      BY <2>1, KeptHeard
    <2> QED
      BY <2>1, <2>2, <2>3 DEF Bounded
  <1> QED
    BY <1>2, <1>3 DEF Bounded, Kept

LEMMA QuietSpeech ==
    ASSUME Shape, Shape', NEW e \in Ends, Speech(e), Kept(Other(e)),
           \A n \in 1 .. Latest(e)' :
              Inherits(e, n) /\ (Speaks(e, n)' /\ Waiting(e, n)' # {} => Speaks(e, n))
    PROVE  Speech(e)'
  <1>1. ASSUME NEW n \in 1 .. Latest(e)', Speaks(e, n)', NEW i \in Waiting(e, n)'
        PROVE  After(Other(e), Up(e, n)[i])'
    <2>1. Speaks(e, n) /\ Inherits(e, n)
      BY <1>1
    <2>2. n \in 1 .. Latest(e)
      BY <1>1, <2>1 DEF Inherits
    <2>3. PICK a \in Waiting(e, n) : Up(e, n)'[i] = Up(e, n)[a]
      BY <1>1, <2>1 DEF Inherits
    <2>4. PICK v : v = Up(e, n)[a]
      OBVIOUS
    <2>5. After(Other(e), v)
      BY <2>1, <2>2, <2>4 DEF Speech
    <2>6. After(Other(e), v)'
      BY <2>5, KeptHeard, TwoEnds
    <2> QED
      BY <2>3, <2>4, <2>6 DEF After
  <1> QED
    BY <1>1 DEF Speech

\* The steps that relay no message, send none and handle none.
LEMMA QuietOrder ==
    ASSUME Shape, Shape', Order, sent' = sent,
           \A e \in Ends : /\ Kept(e)
                           /\ \A n \in 1 .. Latest(e)' :
                                /\ Inherits(e, n)
                                /\ ~Late /\ Speaks(e, n)' /\ Waiting(e, n)' # {} => Speaks(e, n)
    PROVE  Order'
  <1>1. ASSUME NEW e \in Ends PROVE Bounded(e)' /\ Queued(e)'
    <2>1. Kept(Other(e))
      BY TwoEnds
    <2> QED
      BY <2>1, QuietBounds DEF Order
  <1>2. ASSUME ~Late, NEW e \in Ends PROVE Heard(e)' /\ Speech(e)'
    <2>1. Heard(e)'
      BY <1>2, KeptHeard DEF Order
    <2>2. Kept(Other(e))
      BY TwoEnds
    <2>3. Speech(e)'
      BY <1>2, <2>2, QuietSpeech DEF Order
    <2> QED
      BY <2>1, <2>3
  <1> QED
    BY <1>1, <1>2 DEF Order

\* Websockets that only break, if that.
LEMMA StillSockets ==
    ASSUME Shape, NEW e \in Ends, Latest(e)' = Latest(e), bound'[e] = bound[e],
           \A k \in 1 .. Latest(e) : /\ sockets'[e][k].at = sockets[e][k].at
                                     /\ sockets'[e][k].up = sockets[e][k].up
    PROVE  \A n \in 1 .. Latest(e)' : Inherits(e, n) /\ (Speaks(e, n)' => Speaks(e, n))
  <1> SUFFICES ASSUME NEW n \in 1 .. Latest(e)
               PROVE  Inherits(e, n) /\ (Speaks(e, n)' => Speaks(e, n))
    OBVIOUS
  <1>1. Up(e, n)' = Up(e, n) /\ Waiting(e, n)' = Waiting(e, n)
    BY DEF Up, Waiting
  <1>2. \A i \in Waiting(e, n) : i + 0 = i
    BY UpFacts
  <1>3. Inherits(e, n)
    BY <1>1, <1>2 DEF Inherits
  <1>4. \A k \in n .. Latest(e) : k \in 1 .. Latest(e)
    BY SocketFacts
  <1> QED
    BY <1>3, <1>4 DEF Speaks

\* A new websocket holds nothing but the token.
LEMMA OpenedSockets ==
    ASSUME Shape, NEW e \in Ends, setWebSocket(e), bound'[e] = bound[e]
    PROVE  \A n \in 1 .. Latest(e)' :
              Inherits(e, n) /\ (Speaks(e, n)' /\ Waiting(e, n)' # {} => Speaks(e, n))
  <1>1. /\ Latest(e)' = Latest(e) + 1 /\ Latest(e) \in Nat
        /\ \A k \in 1 .. Latest(e) : sockets'[e][k] = sockets[e][k]
        /\ sockets'[e][Latest(e) + 1] = NewSocket
    BY AddSocket, SocketFacts
  <1>2. ASSUME NEW n \in 1 .. Latest(e)
        PROVE  Inherits(e, n) /\ (Speaks(e, n)' => Speaks(e, n))
    <2>1. Up(e, n)' = Up(e, n) /\ Waiting(e, n)' = Waiting(e, n)
      BY <1>1 DEF Up, Waiting
    <2>2. \A i \in Waiting(e, n) : i + 0 = i
      BY UpFacts
    <2>3. Inherits(e, n)
      BY <2>1, <2>2 DEF Inherits
    <2>4. \A k \in n .. Latest(e) : k \in 1 .. Latest(e) /\ k \in n .. Latest(e)'
      BY <1>1
    <2>5. Speaks(e, n)' => Speaks(e, n)
      BY <1>1, <2>4 DEF Speaks
    <2> QED
      BY <2>3, <2>5
  <1>3. ASSUME NEW n, n = Latest(e) + 1 PROVE Waiting(e, n)' = {}
    <2>1. Up(e, n)' = <<Announce>> /\ sockets'[e][n].at = "announce"
      BY <1>1, <1>3 DEF Up, NewSocket
    <2>2. Len(<<Announce>>) = 1
      OBVIOUS
    <2> QED
      BY <2>1, <2>2 DEF Waiting
  <1>4. \A n \in 1 .. Latest(e)' : n \in 1 .. Latest(e) \/ n = Latest(e) + 1
    BY <1>1
  <1>5. \A n : Waiting(e, n)' = {} => Inherits(e, n)
    BY DEF Inherits
  <1> QED
    BY <1>2, <1>3, <1>4, <1>5

\* The handler has read the first word of a websocket.
LEMMA ReadSocket ==
    ASSUME Shape, NEW e \in Ends, NEW n \in 1 .. Latest(e), Up(e, n) # <<>>,
           Latest(e)' = Latest(e), sockets'[e][n].at = "relay",
           sockets[e][n].at \in {"announce", "relay"},
           sockets'[e][n].up = Tail(sockets[e][n].up),
           \A k \in 1 .. Latest(e) : k # n => sockets'[e][k] = sockets[e][k]
    PROVE  /\ \A k \in 1 .. Latest(e)' : Inherits(e, k)
           /\ \A i \in Waiting(e, n)' : /\ i \in Nat /\ i > 0 /\ i + 1 \in Waiting(e, n)
                                        /\ Up(e, n)'[i] = Up(e, n)[i + 1]
           /\ \A k \in 1 .. Latest(e) : k # n => /\ Waiting(e, k)' = Waiting(e, k)
                                                 /\ Up(e, k)' = Up(e, k)
           /\ sockets[e][n].at = "relay" => 1 \in Waiting(e, n)
  <1>1. /\ Up(e, n)' \in Seq(Nat) /\ Len(Up(e, n)') = Len(Up(e, n)) - 1
        /\ \A i \in 1 .. Len(Up(e, n)') : Up(e, n)'[i] = Up(e, n)[i + 1]
        /\ Len(Up(e, n)) \in Nat /\ Len(Up(e, n)) > 0
    <2>1. Up(e, n)' = Tail(Up(e, n)) /\ Up(e, n) \in Seq(Nat)
      BY UpFacts DEF Up
    <2> QED
      BY <2>1
  <1>2. Waiting(e, n)' = 1 .. Len(Up(e, n)')
    BY DEF Waiting
  <1>3. \A i \in 1 .. Len(Up(e, n)) - 1 : i + 1 \in 1 .. Len(Up(e, n)) /\ i + 1 # 1 /\ i > 0 /\ i \in Nat
    BY <1>1
  <1>4. \A i \in Waiting(e, n)' : /\ i \in Nat /\ i > 0 /\ i + 1 \in Waiting(e, n)
                                  /\ Up(e, n)'[i] = Up(e, n)[i + 1]
    BY <1>1, <1>2, <1>3 DEF Waiting
  <1>5. Inherits(e, n)
    BY <1>4 DEF Inherits
  <1>6. ASSUME NEW k \in 1 .. Latest(e), k # n
        PROVE  Waiting(e, k)' = Waiting(e, k) /\ Up(e, k)' = Up(e, k) /\ Inherits(e, k)
    <2>1. Up(e, k)' = Up(e, k) /\ Waiting(e, k)' = Waiting(e, k)
      BY <1>6 DEF Up, Waiting
    <2>2. \A i \in Waiting(e, k) : i + 0 = i
      BY UpFacts
    <2> QED
      BY <2>1, <2>2 DEF Inherits
  <1>7. sockets[e][n].at = "relay" => 1 \in Waiting(e, n)
    BY <1>1 DEF Waiting
  <1> QED
    BY <1>4, <1>5, <1>6, <1>7

-----------------------------------------------------------------------------
(* The order, action by action.                                            *)

LEMMA BindOrder ==
    ASSUME IInv, IInv', Order, NEW e \in Ends, NEW n \in 1 .. Latest(e), Bind(e, n)
    PROVE  Order'
  <1> USE DEF IInv
  <1>1. sockets[e][n] \in Socket /\ sockets[e][n].up # <<>> /\ sockets[e][n].at = "announce"
    BY SocketFacts DEF Bind
  <1>2. PICK r \in Socket :
          r = [sockets[e][n] EXCEPT !.at = "relay", !.up = Tail(sockets[e][n].up)]
    <2>1. sockets[e][n].up \in Seq(Nat)
      BY <1>1 DEF Socket
    <2>2. Tail(sockets[e][n].up) \in Seq(Nat)
      BY <1>1, <2>1
    <2> QED
      BY <1>1, <2>2 DEF Socket
  <1>3. r.at = "relay" /\ r.up = Tail(sockets[e][n].up)
    BY <1>1, <1>2 DEF Socket
  <1>4. sockets' = [sockets EXCEPT ![e] = [sockets[e] EXCEPT ![n] = r]]
    BY <1>1, <1>2 DEF Bind
  <1>5. /\ sockets' \in [Ends -> Seq(Socket)]
        /\ \A d \in Ends : Latest(d)' = Latest(d)
        /\ \A d \in Ends : d # e => sockets'[d] = sockets[d]
        /\ \A k \in 1 .. Latest(e) : k # n => sockets'[e][k] = sockets[e][k]
        /\ sockets'[e][n] = r
    <2>1. Shape /\ sockets' = [sockets EXCEPT ![e] = [sockets[e] EXCEPT ![n] = r]]
      BY <1>4
    <2> QED
      BY ONLY <2>1, ChangeSocket
  <1>6. bound' = [bound EXCEPT ![e] = n] /\ sent' = sent /\ got' = got
    BY DEF Bind, SetConnection
  <1>7. bound'[e] = n /\ \A d \in Ends : d # e => bound'[d] = bound[d]
    BY <1>6 DEF Shape
  <1>8. \A d \in Ends : Kept(d)
    BY <1>6, SetStatusKept DEF Bind, SetConnection
  <1>9. \A k \in 1 .. Latest(e)' : Inherits(e, k)
    BY <1>1, <1>3, <1>5, ReadSocket DEF Up
  <1>10. ASSUME ~Late, NEW k \in 1 .. Latest(e), Speaks(e, k)' PROVE Speaks(e, k)
    <2>1. \A j \in n + 1 .. Latest(e) : sockets[e][j].at = "announce"
      BY <1>10 DEF Bind
    <2>2. Latest(e) \in Nat /\ n \in Nat /\ n <= Latest(e)
      BY SocketFacts
    <2>3. CASE k = n
      <3>1. \A j \in n .. Latest(e) : j = n \/ j \in n + 1 .. Latest(e)
        BY <2>2
      <3> QED
        BY <1>1, <2>1, <2>3, <3>1 DEF Speaks
    <2>4. CASE k # n
      <3>1. \A j \in k .. Latest(e) : sockets'[e][j].at = "announce"
        BY <1>5, <1>7, <1>10, <2>4 DEF Speaks
      <3>2. n \notin k .. Latest(e)
        BY <1>3, <1>5, <3>1
      <3>3. \A j \in k .. Latest(e) : j \in 1 .. Latest(e) /\ j # n
        BY <2>2, <3>2
      <3> QED
        BY <1>5, <3>1, <3>3 DEF Speaks
    <2> QED
      BY <2>3, <2>4
  <1>11. \A d \in Ends : d # e =>
            \A k \in 1 .. Latest(d)' : Inherits(d, k) /\ (Speaks(d, k)' => Speaks(d, k))
    BY <1>5, <1>7, StillSockets
  <1> QED
    BY <1>5, <1>6, <1>8, <1>9, <1>10, <1>11, QuietOrder

LEMMA ReleaseOrder ==
    ASSUME IInv, IInv', Order, NEW e \in Ends, NEW n \in 1 .. Latest(e), Release(e, n)
    PROVE  Order'
  <1> USE DEF IInv
  <1>1. sockets[e][n] \in Socket /\ <<>> \in Seq(Nat)
    BY SocketFacts
  <1>2. PICK r \in Socket : r = [sockets[e][n] EXCEPT !.at = "done", !.up = <<>>]
    BY <1>1 DEF Socket
  <1>3. r.at = "done" /\ r.up = <<>>
    BY <1>1, <1>2 DEF Socket
  <1>4. sockets' = [sockets EXCEPT ![e] = [sockets[e] EXCEPT ![n] = r]]
    BY <1>1, <1>2 DEF Release
  <1>5. /\ sockets' \in [Ends -> Seq(Socket)]
        /\ \A d \in Ends : Latest(d)' = Latest(d)
        /\ \A d \in Ends : d # e => sockets'[d] = sockets[d]
        /\ \A k \in 1 .. Latest(e) : k # n => sockets'[e][k] = sockets[e][k]
        /\ sockets'[e][n] = r
    <2>1. Shape /\ sockets' = [sockets EXCEPT ![e] = [sockets[e] EXCEPT ![n] = r]]
      BY <1>4
    <2> QED
      BY ONLY <2>1, ChangeSocket
  <1>6. /\ sent' = sent /\ got' = got
        /\ \/ bound' = bound /\ link' = link
           \/ bound' = [bound EXCEPT ![e] = 0]
              /\ setStatus([bound EXCEPT ![e] = 0], "connecting")
    BY DEF Release, ClearConnection, signal
  <1>7. /\ bound'[e] = bound[e] \/ bound'[e] = 0
        /\ \A d \in Ends : d # e => bound'[d] = bound[d]
    BY <1>6 DEF Shape
  <1>8. \A d \in Ends : Kept(d)
    BY <1>6, SetStatusKept, StatusKept
  <1>9. Latest(e) \in Nat
    BY SocketFacts
  <1>10. ASSUME NEW k \in 1 .. Latest(e)
         PROVE  Inherits(e, k) /\ (Speaks(e, k)' => Speaks(e, k))
    <2>1. CASE k = n
      <3>1. Waiting(e, n)' = {}
        BY <1>3, <1>5 DEF Waiting, Up
      <3>2. ~Speaks(e, n)'
        <4>1. n \in n .. Latest(e)'
          BY <1>5, <1>9
        <4> QED
          BY <1>3, <1>5, <4>1 DEF Speaks
      <3> QED
        BY <2>1, <3>1, <3>2 DEF Inherits
    <2>2. CASE k # n
      <3>1. Up(e, k)' = Up(e, k) /\ Waiting(e, k)' = Waiting(e, k)
        BY <1>5, <2>2 DEF Up, Waiting
      <3>2. \A i \in Waiting(e, k) : i + 0 = i
        BY UpFacts
      <3>3. Inherits(e, k)
        BY <3>1, <3>2 DEF Inherits
      <3>4. ASSUME \A j \in k .. Latest(e) : sockets'[e][j].at = "announce"
            PROVE  \A j \in k .. Latest(e) : sockets[e][j].at = "announce"
        <4>1. n \notin k .. Latest(e)
          BY <1>3, <1>5, <3>4
        <4>2. \A j \in k .. Latest(e) : j \in 1 .. Latest(e) /\ j # n
          BY <1>9, <4>1
        <4> QED
          BY <1>5, <3>4, <4>2
      <3>5. Speaks(e, k)' => Speaks(e, k)
        BY <1>5, <1>7, <2>2, <3>4 DEF Speaks
      <3> QED
        BY <3>3, <3>5
    <2> QED
      BY <2>1, <2>2
  <1>11. \A d \in Ends : d # e =>
            \A k \in 1 .. Latest(d)' : Inherits(d, k) /\ (Speaks(d, k)' => Speaks(d, k))
    BY <1>5, <1>7, StillSockets
  <1> QED
    BY <1>5, <1>6, <1>8, <1>10, <1>11, QuietOrder

\* What the bridge does without the websockets.
LEMMA CloseOrder ==
    ASSUME IInv, IInv', Order, Close, UNCHANGED <<sockets, sent, got>>
    PROVE  Order'
  <1> USE DEF IInv
  <1>1. bound' = bound /\ \A d \in Ends : Kept(d)
    BY SetStatusKept DEF Close
  <1>2. \A d \in Ends : \A k \in 1 .. Latest(d)' : Inherits(d, k) /\ (Speaks(d, k)' => Speaks(d, k))
    BY <1>1, StillSockets DEF Latest
  <1> QED
    BY <1>1, <1>2, QuietOrder

\* A websocket is opened, and its end is told no more than a status.
LEMMA OpenOrder ==
    ASSUME IInv, IInv', Order, NEW e \in Ends, setWebSocket(e), UNCHANGED <<bound, sent, got>>,
           \A d \in Ends : Kept(d)
    PROVE  Order'
  <1> USE DEF IInv
  <1>1. \A n \in 1 .. Latest(e)' :
            Inherits(e, n) /\ (Speaks(e, n)' /\ Waiting(e, n)' # {} => Speaks(e, n))
    BY OpenedSockets
  <1>2. \A d \in Ends : d # e => sockets'[d] = sockets[d] /\ Latest(d)' = Latest(d)
    BY AddSocket
  <1>3. \A d \in Ends : d # e =>
            \A k \in 1 .. Latest(d)' : Inherits(d, k) /\ (Speaks(d, k)' => Speaks(d, k))
    BY <1>2, StillSockets
  <1> QED
    BY <1>1, <1>3, QuietOrder

LEMMA BreakOrder ==
    ASSUME IInv, IInv', Order, NEW e \in Ends, Broken(e), UNCHANGED <<bound, sent, got>>,
           \A d \in Ends : Kept(d)
    PROVE  Order'
  <1> USE DEF IInv
  <1>1. /\ \A d \in Ends : Latest(d)' = Latest(d)
        /\ \A d \in Ends : d # e => sockets'[d] = sockets[d]
        /\ \A k \in 1 .. Latest(e) : /\ sockets'[e][k].at = sockets[e][k].at
                                     /\ sockets'[e][k].up = sockets[e][k].up
    BY BrokenSocket
  <1>2. \A d \in Ends :
            \A k \in 1 .. Latest(d)' : Inherits(d, k) /\ (Speaks(d, k)' => Speaks(d, k))
    BY <1>1, StillSockets
  <1> QED
    BY <1>2, QuietOrder

LEMMA CloseLinkOrder ==
    ASSUME IInv, IInv', Order, NEW e \in Ends, CloseLink(e), UNCHANGED <<bound, sent, got>>
    PROVE  Order'
  <1>1. \A d \in Ends : d # e => link'[d] = link[d]
    BY DEF IInv, Shape, CloseLink
  <1>2. link'[e].messages = <<>>
    BY DEF IInv, Shape, Link, CloseLink
  <1>3. Kept(e)
    BY <1>2 DEF Kept, Unread
  <1>4. \A d \in Ends : d # e => Kept(d)
    BY <1>1, StatusKept DEF IInv
  <1> QED
    BY <1>3, <1>4, BreakOrder DEF CloseLink

\* What is handled first was given first.
LEMMA NotifyOrder ==
    ASSUME IInv, IInv', Order, NEW e \in Ends, Notify(e)
    PROVE  /\ Order'
           /\ ~Late => \A d \in Ends : got'[d] # got[d] => got'[d] > got[d]
  <1> USE DEF IInv
  <1> DEFINE m == Head(link[e].messages)
             o == Other(e)
  <1>1. /\ link[e] \in Link /\ link[e].messages \in Seq(Word) /\ link[e].messages # <<>>
        /\ UNCHANGED <<bound, sent>>
    BY DEF Notify, Shape, Link, signal
  <1>2. /\ m = link[e].messages[1] /\ 1 \in 1 .. Len(link[e].messages) /\ m \in Word
        /\ Len(link[e].messages) \in Nat
    BY <1>1
  <1>3. \/ m[1] = "status"
        \/ m[1] = "message" /\ m[2] \in Nat
    BY <1>2, Words
  <1>4. o \in Ends /\ o # e /\ Other(o) = e /\ \A d \in Ends : d = e \/ d = o
    BY TwoEnds
  <1> HIDE DEF m
  <1>5. CASE m[1] = "status" /\ m[2] = "closed"
    <2>1. CloseLink(e) /\ got' = got
      BY <1>5 DEF Notify, m
    <2> QED
      BY <1>1, <2>1, CloseLinkOrder
  <1>6. CASE ~(m[1] = "status" /\ m[2] = "closed")
    <2>1. /\ link'[e].messages = Tail(link[e].messages)
          /\ \A d \in Ends : d # e => link'[d] = link[d]
      <3>1. CASE m[1] = "message"
        BY <1>1, <3>1 DEF Notify, m, Shape, Link
      <3>2. CASE m[1] = "status"
        <4>1. link' = [link EXCEPT ![e] =
                 [[link[e] EXCEPT !.messages = Tail(link[e].messages)] EXCEPT !.status = m[2]]]
          BY <1>6, <3>2 DEF Notify, m
        <4>2. link'[e] = [[link[e] EXCEPT !.messages = Tail(link[e].messages)] EXCEPT !.status = m[2]]
          BY <4>1 DEF Shape
        <4> QED
          BY <1>1, <4>1, <4>2 DEF Shape, Link
      <3> QED
        BY <1>3, <3>1, <3>2
    <2>2. sockets' = sockets
      BY <1>3, <1>6 DEF Notify, m
    <2>3. \A i \in Unread(e)' : /\ i \in Nat /\ i > 0 /\ i + 1 \in Unread(e)
                                /\ link'[e].messages[i] = link[e].messages[i + 1]
      <3>1. /\ Len(link'[e].messages) = Len(link[e].messages) - 1
            /\ \A i \in 1 .. Len(link[e].messages) - 1 :
                  link'[e].messages[i] = link[e].messages[i + 1]
        BY <1>1, <2>1
      <3>2. \A i \in 1 .. Len(link[e].messages) - 1 :
                i \in Nat /\ i > 0 /\ i + 1 \in 1 .. Len(link[e].messages)
        BY <1>2
      <3> QED
        BY <3>1, <3>2 DEF Unread
    <2>4. \A d \in Ends : Latest(d)' = Latest(d)
      BY <2>2 DEF Latest
    <2>5. \A d \in Ends :
            \A k \in 1 .. Latest(d)' : Inherits(d, k) /\ (Speaks(d, k)' => Speaks(d, k))
      BY <1>1, <2>2, <2>4, StillSockets
    <2>6. CASE m[1] = "status"
      <3>1. got' = got
        BY <1>6, <2>6 DEF Notify, m
      <3>2. Kept(e)
        BY <2>3, <3>1 DEF Kept
      <3>3. Kept(o)
        BY <1>4, <2>1, <3>1, StatusKept
      <3>4. \A d \in Ends : Kept(d)
        BY <1>4, <3>2, <3>3
      <3>5. Order'
        BY <1>1, <2>5, <3>4, QuietOrder
      <3> QED
        BY <3>1, <3>5
    <2>7. CASE m[1] = "message"
      <3>1. got' = [got EXCEPT ![e] = m[2]]
        BY <2>7 DEF Notify, m
      <3>2. got'[e] = m[2] /\ got'[o] = got[o]
        BY <1>4, <3>1 DEF Shape
      <3>3. 1 \in Unread(e) /\ Num(e, 1) = m[2]
        BY <1>2, <2>7 DEF Unread, Num
      <3>4. \A i \in Unread(e)' : i + 1 \in Unread(e) /\ 1 < i + 1 /\ Num(e, i)' = Num(e, i + 1)
        BY <2>3 DEF Num
      <3>5. Kept(o)
        BY <1>4, <2>1, <3>2, StatusKept
      <3>6. Bounded(e)' /\ Queued(e)'
        BY <1>1, <1>4, <2>5, <3>5, QuietBounds DEF Order
      <3>7. Queued(o)' /\ Bounded(o)'
        <4>1. /\ Queued(o) => Queued(o)'
              /\ (\A n \in 1 .. Latest(o) : \A i \in Waiting(o, n) : Up(o, n)[i] <= sent[o])
                 => (\A n \in 1 .. Latest(o) : \A i \in Waiting(o, n) : Up(o, n)[i] <= sent[o])'
          BY <1>1, <2>2 DEF Queued, Waiting, Up, Latest
        <4>2. (\A i \in Unread(e) : Num(e, i) <= sent[o])'
          BY <1>1, <1>4, <3>4 DEF Order, Bounded
        <4>3. got'[e] <= sent'[o]
          BY <1>1, <1>4, <3>2, <3>3 DEF Order, Bounded
        <4> QED
          BY <1>1, <1>4, <4>1, <4>2, <4>3 DEF Order, Bounded
      <3>8. ASSUME ~Late
            PROVE  Heard(e)' /\ Heard(o)' /\ Speech(e)' /\ Speech(o)' /\ got'[e] > got[e]
        <4>1. Heard(o)' /\ Speech(e)'
          BY <1>4, <2>5, <3>5, <3>8, KeptHeard, QuietSpeech DEF Order
        <4>2. got[e] < m[2] /\ m[2] \in Nat /\ got[e] \in Nat
          BY <1>3, <2>7, <3>3, <3>8, NumFacts DEF Order, Heard
        <4>3. \A i \in Unread(e)' : got'[e] < Num(e, i)'
          BY <3>2, <3>3, <3>4, <3>8 DEF Order, Heard
        <4>4. \A i, j \in Unread(e)' : i < j => Num(e, i)' < Num(e, j)'
          <5> TAKE i \in Unread(e)', j \in Unread(e)'
          <5>1. i \in Nat /\ j \in Nat
            BY <2>3
          <5> HAVE i < j
          <5>2. i + 1 < j + 1 /\ i + 1 \in Unread(e) /\ j + 1 \in Unread(e)
            BY <3>4, <5>1
          <5>3. Num(e, i + 1) < Num(e, j + 1)
            BY <3>8, <5>2 DEF Order, Heard
          <5> QED
            BY <3>4, <5>3
        <4>5. Heard(e)'
          BY <4>3, <4>4 DEF Heard
        <4>6. \A v : After(e, v) => After(e, v)'
          BY <3>2, <3>3, <3>4 DEF After
        <4>7. Speech(o)'
          <5>1. ASSUME NEW n \in 1 .. Latest(o), Speaks(o, n), NEW i \in Waiting(o, n)
                PROVE  After(e, Up(o, n)[i])
            BY <1>4, <3>8, <5>1 DEF Order, Speech
          <5>2. \A n \in 1 .. Latest(o) : /\ Waiting(o, n)' = Waiting(o, n)
                                          /\ Up(o, n)' = Up(o, n)
            BY <2>2 DEF Waiting, Up
          <5>3. ASSUME NEW n \in 1 .. Latest(o)', Speaks(o, n)', NEW i \in Waiting(o, n)'
                PROVE  After(e, Up(o, n)[i])'
            <6>1. n \in 1 .. Latest(o) /\ Speaks(o, n) /\ i \in Waiting(o, n)
              BY <1>4, <2>4, <2>5, <5>2, <5>3
            <6>2. PICK v : v = Up(o, n)[i]
              OBVIOUS
            <6>3. After(e, v)'
              BY <4>6, <5>1, <6>1, <6>2
            <6> QED
              BY <5>2, <6>1, <6>2, <6>3 DEF After
          <5> QED
            BY <1>4, <5>3 DEF Speech
        <4> QED
          BY <3>2, <4>1, <4>2, <4>5, <4>7
      <3>9. Order'
        BY <1>4, <3>6, <3>7, <3>8 DEF Order
      <3> QED
        BY <1>4, <3>2, <3>8, <3>9
    <2> QED
      BY <1>3, <2>6, <2>7
  <1> QED
    BY <1>5, <1>6

\* What is relayed comes after all the other end was given, and before all that
\* may still be relayed.
LEMMA RelayOrder ==
    ASSUME IInv, IInv', Order, NEW e \in Ends, NEW n \in 1 .. Latest(e), Relay(e, n)
    PROVE  Order'
  <1> USE DEF IInv
  <1> DEFINE o == Other(e)
  <1>1. o \in Ends /\ o # e /\ Other(o) = e /\ \A d \in Ends : d = e \/ d = o
    BY TwoEnds
  <1>2. /\ sockets[e][n] \in Socket /\ Up(e, n) \in Seq(Nat) /\ Up(e, n) # <<>>
        /\ sockets[e][n].at = "relay"
    BY SocketFacts, UpFacts DEF Relay, Up
  <1>3. PICK r \in Socket : r = [sockets[e][n] EXCEPT !.up = Tail(Up(e, n))]
    <2>1. Tail(Up(e, n)) \in Seq(Nat)
      BY <1>2
    <2> QED
      BY <1>2, <2>1 DEF Socket
  <1>4. r.at = "relay" /\ r.up = Tail(Up(e, n))
    BY <1>2, <1>3 DEF Socket
  <1>5. /\ sockets' \in [Ends -> Seq(Socket)]
        /\ \A d \in Ends : Latest(d)' = Latest(d)
        /\ \A d \in Ends : d # e => sockets'[d] = sockets[d]
        /\ \A k \in 1 .. Latest(e) : k # n => sockets'[e][k] = sockets[e][k]
        /\ sockets'[e][n] = r
    <2>1. Shape /\ sockets' = [sockets EXCEPT ![e] = [sockets[e] EXCEPT ![n] = r]]
      BY <1>2, <1>3 DEF Relay, Up
    <2> QED
      BY ONLY <2>1, ChangeSocket
  <1>6. bound' = bound /\ sent' = sent /\ got' = got
    BY DEF Relay, signal
  <1>7. /\ \A k \in 1 .. Latest(e)' : Inherits(e, k)
        /\ \A i \in Waiting(e, n)' : /\ i \in Nat /\ i > 0 /\ i + 1 \in Waiting(e, n)
                                     /\ Up(e, n)'[i] = Up(e, n)[i + 1]
        /\ \A k \in 1 .. Latest(e) : k # n => /\ Waiting(e, k)' = Waiting(e, k)
                                              /\ Up(e, k)' = Up(e, k)
        /\ 1 \in Waiting(e, n)
    BY <1>2, <1>4, <1>5, ReadSocket DEF Up
  <1>8. \A k \in 1 .. Latest(e) : Speaks(e, k)' => Speaks(e, k)
    <2>1. \A k \in 1 .. Latest(e) : sockets'[e][k].at = sockets[e][k].at
      BY <1>2, <1>4, <1>5
    <2>2. \A k \in 1 .. Latest(e) : \A j \in k .. Latest(e) : j \in 1 .. Latest(e)
      BY SocketFacts
    <2> QED
      BY <1>5, <1>6, <2>1, <2>2 DEF Speaks
  <1>9. \A k \in 1 .. Latest(o)' : Inherits(o, k) /\ (Speaks(o, k)' => Speaks(o, k))
    BY <1>1, <1>5, <1>6, StillSockets
  <1>10. PICK m \in Nat : m = Head(Up(e, n)) /\ m = Up(e, n)[1]
    BY <1>2
  <1>11. \/ link' = link
         \/ bound[e] = n /\ link' = [link EXCEPT ![o] = Push(link[o], Message(m))]
    BY <1>10 DEF Relay, RelayMessage, Up
  <1>12. CASE link' = link
    <2>1. \A d \in Ends : Kept(d)
      BY <1>6, <1>12, StatusKept
    <2> QED
      BY <1>1, <1>5, <1>6, <1>7, <1>8, <1>9, <2>1, QuietOrder
  <1>13. CASE bound[e] = n /\ link' = [link EXCEPT ![o] = Push(link[o], Message(m))]
    <2> DEFINE ms == link[o].messages
               mt == link'[o].messages
               z == Len(ms) + 1
    <2>1. ms \in Seq(Word) /\ Len(ms) \in Nat /\ link[o] \in Link
      BY <1>1, NumFacts DEF Shape
    <2>2. link'[o] = Push(link[o], Message(m)) /\ link'[e] = link[e]
      BY <1>1, <1>13 DEF Shape
    <2>3. mt = Append(ms, Message(m))
      BY <2>1, <2>2 DEF Push, Link
    <2>4. /\ Len(mt) = z /\ mt[z] = Message(m) /\ \A i \in 1 .. Len(ms) : mt[i] = ms[i]
      BY <2>1, <2>3
    <2>5. \A i \in Unread(o)' : \/ i \in Unread(o) /\ Num(o, i)' = Num(o, i) /\ i < z
                                \/ i = z /\ Num(o, i)' = m
      <3> TAKE i \in Unread(o)'
      <3>1. i \in 1 .. Len(ms) \/ i = z
        BY <2>1, <2>4 DEF Unread
      <3>2. CASE i = z
        BY <2>4, <3>2, Words DEF Num
      <3>3. CASE i \in 1 .. Len(ms)
        <4>1. mt[i] = ms[i] /\ i < z
          BY <2>1, <2>4, <3>3
        <4>2. mt[i][1] = "message"
          BY DEF Unread
        <4>3. i \in Unread(o)
          BY <3>3, <4>1, <4>2 DEF Unread
        <4> QED
          BY <4>1, <4>3 DEF Num
      <3> QED
        BY <3>1, <3>2, <3>3
    <2> HIDE DEF ms, mt, z
    <2>6. m <= sent[e]
      BY <1>7, <1>10 DEF Order, Bounded
    <2>7. /\ Queued(e)'
          /\ (\A k \in 1 .. Latest(e) : \A i \in Waiting(e, k) : Up(e, k)[i] <= sent[e])'
      <3>1. Latest(e)' \in Nat /\ \A k \in 1 .. Latest(e)' : Waiting(e, k)' \subseteq Nat
        BY <1>5, SocketFacts DEF Waiting
      <3> QED
        BY <1>6, <1>7, <3>1, InheritedQueue DEF Order, Bounded
    <2>8. Bounded(e)'
      BY <1>1, <1>6, <2>5, <2>6, <2>7 DEF Order, Bounded
    <2>9. Kept(e)
      BY <1>6, <2>2, StatusKept
    <2>10. Bounded(o)' /\ Queued(o)'
      BY <1>1, <1>6, <1>9, <2>9, QuietBounds DEF Order
    <2>11. ASSUME ~Late PROVE Heard(e)' /\ Heard(o)' /\ Speech(e)' /\ Speech(o)'
      <3>1. Heard(e)' /\ Speech(o)'
        BY <1>1, <1>9, <2>9, <2>11, KeptHeard, QuietSpeech DEF Order
      <3>2. After(o, m)
        <4>1. Speaks(e, n)
          BY <1>2, <1>13 DEF Speaks
        <4> QED
          BY <1>7, <1>10, <2>11, <4>1 DEF Order, Speech
      <3>3. \A i \in Unread(o) : i \in Nat
        BY <1>1, NumFacts
      <3>4. Heard(o)'
        <4>1. \A i \in Unread(o)' : got'[o] < Num(o, i)'
          BY <1>1, <1>6, <2>5, <2>11, <3>2 DEF Order, Heard, After
        <4>2. ASSUME NEW i \in Unread(o)', NEW j \in Unread(o)', i < j
              PROVE  Num(o, i)' < Num(o, j)'
          <5>1. z \in Nat
            BY <2>1 DEF z
          <5>2. CASE j \in Unread(o) /\ Num(o, j)' = Num(o, j) /\ j < z
            <6>1. i \in Unread(o) /\ Num(o, i)' = Num(o, i)
              BY <2>5, <3>3, <4>2, <5>1, <5>2
            <6> QED
              BY <1>1, <2>11, <4>2, <5>2, <6>1 DEF Order, Heard
          <5>3. CASE j = z /\ Num(o, j)' = m
            <6>1. i \in Unread(o) /\ Num(o, i)' = Num(o, i)
              BY <2>5, <4>2, <5>1, <5>3
            <6> QED
              BY <3>2, <5>3, <6>1 DEF After
          <5> QED
            BY <2>5, <5>2, <5>3
        <4> QED
          BY <4>1, <4>2 DEF Heard
      <3>5. \A v : After(o, v) /\ m < v => After(o, v)'
        BY <1>6, <2>5 DEF After
      <3>6. ASSUME NEW k \in 1 .. Latest(e)', Speaks(e, k)', NEW i \in Waiting(e, k)'
            PROVE  After(o, Up(e, k)[i])'
        <4>1. k \in 1 .. Latest(e) /\ Speaks(e, k)
          BY <1>5, <1>8, <3>6
        <4>2. \E a \in Waiting(e, k) : Up(e, k)'[i] = Up(e, k)[a] /\ m < Up(e, k)[a]
          <5>1. CASE k = n
            <6>1. i + 1 \in Waiting(e, n) /\ 1 < i + 1 /\ Up(e, n)'[i] = Up(e, n)[i + 1]
              BY <1>7, <3>6, <5>1
            <6>2. Up(e, n)[1] < Up(e, n)[i + 1]
              BY <1>7, <6>1 DEF Order, Queued
            <6> QED
              BY <1>10, <5>1, <6>1, <6>2
          <5>2. CASE k # n
            <6>1. \A j \in k .. Latest(e) : sockets[e][j].at = "announce"
              BY <1>13, <4>1, <5>2 DEF Speaks
            <6>2. n < k
              <7>1. n \notin k .. Latest(e)
                BY <1>2, <6>1
              <7>2. Latest(e) \in Nat /\ n \in Nat /\ n <= Latest(e) /\ k \in Nat
                BY <4>1, SocketFacts
              <7> QED
                BY <7>1, <7>2
            <6>3. i \in Waiting(e, k) /\ Up(e, k)'[i] = Up(e, k)[i]
              BY <1>7, <3>6, <4>1, <5>2
            <6>4. Up(e, n)[1] < Up(e, k)[i]
              BY <1>7, <4>1, <6>2, <6>3 DEF Order, Queued
            <6> QED
              BY <1>10, <6>3, <6>4
          <5> QED
            BY <5>1, <5>2
        <4>3. PICK a \in Waiting(e, k) : Up(e, k)'[i] = Up(e, k)[a] /\ m < Up(e, k)[a]
          BY <4>2
        <4>4. PICK v : v = Up(e, k)[a]
          OBVIOUS
        <4>5. After(o, v) /\ m < v
          BY <2>11, <4>1, <4>3, <4>4 DEF Order, Speech
        <4>6. After(o, v)'
          BY <3>5, <4>5
        <4> QED
          BY <4>3, <4>4, <4>6 DEF After
      <3>7. Speech(e)'
        BY <3>6 DEF Speech
      <3> QED
        BY <3>1, <3>4, <3>7
    <2> QED
      BY <1>1, <2>7, <2>8, <2>10, <2>11 DEF Order
  <1> QED
    BY <1>11, <1>12, <1>13

\* What is sent comes after all that was sent.
LEMMA SendOrder ==
    ASSUME IInv, IInv', Order, NEW e \in Ends, sendMessage(e)
    PROVE  Order'
  <1> USE DEF IInv
  <1> DEFINE o == Other(e)
  <1>1. o \in Ends /\ o # e /\ Other(o) = e /\ \A d \in Ends : d = e \/ d = o
    BY TwoEnds
  <1>2. bound' = bound /\ link' = link /\ got' = got
    BY DEF sendMessage, signal
  <1>3. PICK v \in Nat : v = sent[e] + 1 /\ sent[e] \in Nat
    BY NumFacts
  <1>4. sent'[e] = v /\ sent'[o] = sent[o] /\ v <= MaxSent[e]
    <2>1. sent' = [sent EXCEPT ![e] = sent[e] + 1] /\ sent[e] < MaxSent[e]
      BY DEF sendMessage
    <2>2. MaxSent[e] \in Nat
      BY CallAssumption
    <2> QED
      BY <1>1, <1>3, <2>1, <2>2 DEF Shape
  <1>5. /\ \A d \in Ends : Latest(d)' = Latest(d)
        /\ \A d \in Ends : d # e => sockets'[d] = sockets[d]
        /\ \A k \in 1 .. Latest(e) : sockets'[e][k].at = sockets[e][k].at
        /\ \A k \in 1 .. Latest(e) : \A i \in Waiting(e, k)' :
              \/ i \in Waiting(e, k) /\ Up(e, k)'[i] = Up(e, k)[i]
              \/ k = Latest(e) /\ Up(e, k)'[i] = v /\ i = Len(Up(e, k)) + 1
    <2>1. CASE Live(e)
      <3>1. PICK n \in 1 .. Latest(e) : n = Latest(e) /\ sockets[e][n] \in Socket
        BY <2>1, SocketFacts
      <3>2. Up(e, n) \in Seq(Nat) /\ Len(Up(e, n)) \in Nat
        BY UpFacts
      <3>3. Append(Up(e, n), v) \in Seq(Nat)
        BY <3>2
      <3>4. PICK r \in Socket : r = [sockets[e][n] EXCEPT !.up = Append(Up(e, n), v)]
        BY <3>1, <3>3 DEF Socket
      <3>5. r.at = sockets[e][n].at /\ r.up = Append(Up(e, n), v)
        BY <3>1, <3>4 DEF Socket
      <3>6. /\ sockets' \in [Ends -> Seq(Socket)]
            /\ \A d \in Ends : Latest(d)' = Latest(d)
            /\ \A d \in Ends : d # e => sockets'[d] = sockets[d]
            /\ \A k \in 1 .. Latest(e) : k # n => sockets'[e][k] = sockets[e][k]
            /\ sockets'[e][n] = r
        <4>1. Shape /\ sockets' = [sockets EXCEPT ![e] = [sockets[e] EXCEPT ![n] = r]]
          BY <1>3, <2>1, <3>1, <3>4 DEF sendMessage, Up
        <4> QED
          BY ONLY <4>1, ChangeSocket
      <3>7. /\ Len(Up(e, n)') = Len(Up(e, n)) + 1 /\ Up(e, n)'[Len(Up(e, n)) + 1] = v
            /\ \A i \in 1 .. Len(Up(e, n)) : Up(e, n)'[i] = Up(e, n)[i]
        <4>1. Up(e, n)' = Append(Up(e, n), v)
          BY <3>5, <3>6 DEF Up
        <4> QED
          BY <3>2, <4>1
      <3>8. \A i \in Waiting(e, n)' : \/ i \in Waiting(e, n) /\ Up(e, n)'[i] = Up(e, n)[i]
                                      \/ Up(e, n)'[i] = v /\ i = Len(Up(e, n)) + 1
        <4> TAKE i \in Waiting(e, n)'
        <4>1. i \in 1 .. Len(Up(e, n)) \/ i = Len(Up(e, n)) + 1
          BY <3>2, <3>7 DEF Waiting
        <4>2. CASE i \in 1 .. Len(Up(e, n))
          BY <3>5, <3>6, <3>7, <4>2 DEF Waiting
        <4>3. CASE i = Len(Up(e, n)) + 1
          BY <3>7, <4>3
        <4> QED
          BY <4>1, <4>2, <4>3
      <3>9. \A k \in 1 .. Latest(e) : k # n => Waiting(e, k)' = Waiting(e, k) /\ Up(e, k)' = Up(e, k)
        BY <3>6 DEF Waiting, Up
      <3>10. \A k \in 1 .. Latest(e) : sockets'[e][k].at = sockets[e][k].at
        BY <3>5, <3>6
      <3> QED
        BY <3>1, <3>6, <3>8, <3>9, <3>10
    <2>2. CASE ~Live(e)
      <3>1. sockets' = sockets
        BY <2>2 DEF sendMessage
      <3> QED
        BY <3>1 DEF Waiting, Up, Latest
    <2> QED
      BY <2>1, <2>2
  <1>6. \A k \in 1 .. Latest(e) : \A i \in Waiting(e, k) :
            i \in Nat /\ i < Len(Up(e, k)) + 1 /\ Up(e, k)[i] \in Nat /\ Up(e, k)[i] <= sent[e]
    <2> TAKE k \in 1 .. Latest(e)
    <2>1. Len(Up(e, k)) \in Nat /\ \A i \in Waiting(e, k) : i \in Nat /\ Up(e, k)[i] \in Nat
      BY UpFacts
    <2>2. \A i \in Waiting(e, k) : i <= Len(Up(e, k))
      BY <2>1 DEF Waiting
    <2> QED
      BY <2>1, <2>2 DEF Order, Bounded
  <1>7. Unread(o)' = Unread(o) /\ \A i \in Unread(o) : Num(o, i)' = Num(o, i)
    BY <1>2 DEF Unread, Num
  <1>8. \A i \in Unread(o) : Num(o, i) \in Nat /\ Num(o, i) <= sent[e]
    BY <1>1, NumFacts DEF Order, Bounded
  <1>9. got[o] \in Nat /\ got[o] <= sent[e]
    BY <1>1, NumFacts DEF Order, Bounded
  <1>10. Bounded(e)'
    <2>1. \A k \in 1 .. Latest(e)' : \A i \in Waiting(e, k)' : Up(e, k)'[i] <= sent'[e]
      BY <1>3, <1>4, <1>5, <1>6
    <2>2. \A i \in Unread(o)' : Num(o, i)' <= sent'[e]
      BY <1>3, <1>4, <1>7, <1>8
    <2>3. got'[o] <= sent'[e] /\ sent'[e] <= MaxSent[e]
      BY <1>2, <1>3, <1>4, <1>9
    <2> QED
      BY <2>1, <2>2, <2>3 DEF Bounded
  <1>11. Queued(e)'
    <2>1. ASSUME NEW n \in 1 .. Latest(e), NEW k \in 1 .. Latest(e), NEW i \in Waiting(e, n)',
                 NEW j \in Waiting(e, k)', n < k \/ (n = k /\ i < j)
          PROVE  Up(e, n)'[i] < Up(e, k)'[j]
      <3>1. n \in Nat /\ k \in Nat /\ Latest(e) \in Nat /\ n <= Latest(e) /\ k <= Latest(e)
        BY SocketFacts
      <3>2. Len(Up(e, n)) \in Nat
        BY UpFacts
      <3>3. i \in Waiting(e, n) /\ Up(e, n)'[i] = Up(e, n)[i]
        <4>1. ASSUME n = Latest(e), i = Len(Up(e, n)) + 1 PROVE FALSE
          <5>1. n = k /\ i < j
            BY <2>1, <3>1, <4>1
          <5>2. j \in Waiting(e, k) \/ j = Len(Up(e, k)) + 1
            BY <1>5
          <5>3. j \in Nat /\ j <= Len(Up(e, n)) + 1
            BY <1>6, <3>2, <5>1, <5>2
          <5> QED
            BY <3>2, <4>1, <5>1, <5>3
        <4> QED
          BY <1>5, <4>1
      <3>4. CASE j \in Waiting(e, k) /\ Up(e, k)'[j] = Up(e, k)[j]
        BY <2>1, <3>3, <3>4 DEF Order, Queued
      <3>5. CASE Up(e, k)'[j] = v
        BY <1>3, <1>6, <3>3, <3>5
      <3> QED
        BY <1>5, <3>4, <3>5
    <2> QED
      BY <1>5, <2>1 DEF Queued
  <1>12. \A d \in Ends : Kept(d)
    BY <1>2, StatusKept
  <1>13. \A k \in 1 .. Latest(o)' : Inherits(o, k) /\ (Speaks(o, k)' => Speaks(o, k))
    BY <1>1, <1>2, <1>5, StillSockets
  <1>14. Bounded(o)' /\ Queued(o)'
    BY <1>1, <1>4, <1>12, <1>13, QuietBounds DEF Order
  <1>15. ASSUME ~Late PROVE Heard(e)' /\ Heard(o)' /\ Speech(e)' /\ Speech(o)'
    <2>1. Heard(e)' /\ Heard(o)'
      BY <1>1, <1>12, <1>15, KeptHeard DEF Order
    <2>2. Speech(o)'
      BY <1>1, <1>12, <1>13, <1>15, QuietSpeech DEF Order
    <2>3. \A k \in 1 .. Latest(e) : Speaks(e, k)' => Speaks(e, k)
      <3>1. \A k \in 1 .. Latest(e) : \A j \in k .. Latest(e) : j \in 1 .. Latest(e)
        BY SocketFacts
      <3> QED
        BY <1>2, <1>5, <3>1 DEF Speaks
    <2>4. ASSUME NEW k \in 1 .. Latest(e)', Speaks(e, k)', NEW i \in Waiting(e, k)'
          PROVE  After(o, Up(e, k)[i])'
      <3>1. k \in 1 .. Latest(e) /\ Speaks(e, k)
        BY <1>5, <2>3, <2>4
      <3>2. PICK w : w = Up(e, k)'[i]
        OBVIOUS
      <3>3. After(o, w)
        <4>1. CASE i \in Waiting(e, k) /\ Up(e, k)'[i] = Up(e, k)[i]
          BY <1>15, <3>1, <3>2, <4>1 DEF Order, Speech
        <4>2. CASE Up(e, k)'[i] = v
          BY <1>3, <1>8, <1>9, <3>2, <4>2 DEF After
        <4> QED
          BY <1>5, <2>4, <3>1, <4>1, <4>2
      <3>4. After(o, w)'
        BY <1>1, <1>12, <3>3, KeptHeard
      <3> QED
        BY <3>2, <3>4 DEF After
    <2>5. Speech(e)'
      BY <2>4 DEF Speech
    <2> QED
      BY <2>1, <2>2, <2>5
  <1> QED
    BY <1>1, <1>10, <1>11, <1>14, <1>15 DEF Order

\* The ring and the way a call is set up carry no messages.
LEMMA UnmovedOrder ==
    ASSUME IInv, IInv', Order, UNCHANGED <<bound, sockets, link, sent, got>>
    PROVE  Order'
  <1> USE DEF IInv
  <1>1. \A d \in Ends : Kept(d)
    BY StatusKept
  <1>2. \A d \in Ends : \A k \in 1 .. Latest(d)' : Inherits(d, k) /\ (Speaks(d, k)' => Speaks(d, k))
    BY StillSockets DEF Latest
  <1> QED
    BY <1>1, <1>2, QuietOrder

LEMMA InitOrder == Init => Order
  <1> SUFFICES ASSUME Init PROVE Order
    OBVIOUS
  <1>1. \A e \in Ends : Latest(e) = 0 /\ Unread(e) = {} /\ got[e] = 0 /\ sent[e] = 0
    BY DEF Init, Latest, Unread
  <1>2. \A e \in Ends : 0 <= MaxSent[e]
    BY CallAssumption
  <1>3. \A e \in Ends : 1 .. Latest(e) = {}
    BY <1>1
  <1>4. \A e \in Ends : Bounded(e) /\ Queued(e)
    BY <1>1, <1>2, <1>3, TwoEnds DEF Bounded, Queued
  <1>5. \A e \in Ends : Heard(e) /\ Speech(e)
    BY <1>1, <1>3 DEF Heard, Speech
  <1> QED
    BY <1>4, <1>5 DEF Order

LEMMA StepOrder ==
    ASSUME IInv, IInv', Order, [Next]_vars
    PROVE  /\ Order'
           /\ ~Late => \A d \in Ends : got'[d] # got[d] => got'[d] > got[d]
  <1> USE DEF IInv
  <1>1. CASE UNCHANGED <<bound, sockets, link, sent, got>>
    BY <1>1, UnmovedOrder
  <1>2. ASSUME NEW e \in Ends, setWebSocket(e), UNCHANGED <<bound, sent, got>>,
               link' = [link EXCEPT ![e].state = "open"]
        PROVE  Order' /\ got' = got
    <2>1. link'[e].messages = link[e].messages /\ \A d \in Ends : d # e => link'[d] = link[d]
      BY <1>2 DEF Shape, Link
    <2>2. \A d \in Ends : link'[d].messages = link[d].messages
      BY <2>1
    <2>3. \A d \in Ends : \A i \in Unread(d)' : i \in Unread(d) /\ i + 0 = i
      BY <2>2, NumFacts DEF Unread
    <2>4. \A d \in Ends : Kept(d)
      BY <1>2, <2>2, <2>3 DEF Kept
    <2> QED
      BY <1>2, <2>4, OpenOrder
  <1>3. CASE SetUp
    <2>1. CASE Linked
      <3>1. PICK e \in Ends : e = "caller"
        BY TwoEnds
      <3>2. /\ setWebSocket(e) /\ UNCHANGED <<bound, sent, got>>
            /\ link' = [link EXCEPT ![e].state = "open"]
        BY <2>1, <3>1 DEF Linked, signal
      <3> QED
        BY <1>2, <3>2
    <2>2. CASE ~Linked
      BY <1>1, <1>3, <2>2 DEF SetUp, AddCall, FirstRing, FirstRingFails, signal
    <2> QED
      BY <2>1, <2>2
  <1>4. CASE Ringing
    <2>1. CASE Accept
      <3>1. PICK e \in Ends : e = "callee"
        BY TwoEnds
      <3>2. /\ setWebSocket(e) /\ UNCHANGED <<bound, sent, got>>
            /\ link' = [link EXCEPT ![e].state = "open"]
        BY <2>1, <3>1 DEF Accept, Answer, signal
      <3> QED
        BY <1>2, <3>2
    <2>2. CASE ~Accept
      BY <1>1, <1>4, <2>2
         DEF Ringing, RingAgain, RingExpires, Decline, Ignore, Answer, signal
    <2> QED
      BY <2>1, <2>2
  <1>5. ASSUME Close, UNCHANGED <<sockets, sent, got>> PROVE Order' /\ got' = got
    BY <1>5, CloseOrder
  <1>6. ASSUME NEW e \in Ends, SocketStep(e) PROVE Order' /\ got' = got
    <2>1. PICK n \in 1 .. Latest(e) : Bind(e, n) \/ Relay(e, n) \/ Release(e, n)
      BY <1>6 DEF SocketStep
    <2>2. got' = got
      BY <2>1 DEF Bind, Relay, Release
    <2> QED
      BY <2>1, <2>2, BindOrder, RelayOrder, ReleaseOrder
  <1>7. ASSUME NEW e \in Ends, Reopen(e) PROVE Order' /\ got' = got
    <2>1. /\ setWebSocket(e) /\ UNCHANGED <<bound, sent, got>>
          /\ link' = [link EXCEPT ![e] = Push(link[e], Status("connecting"))]
      BY <1>7 DEF Reopen, signal
    <2>2. \A d \in Ends : link'[d] = link[d] \/ link'[d] = Push(link[d], Status("connecting"))
      BY <2>1 DEF Shape
    <2>3. \A d \in Ends : Kept(d)
      BY <2>1, <2>2, StatusKept
    <2> QED
      BY <2>1, <2>3, OpenOrder
  <1>8. ASSUME NEW e \in Ends, End(e) PROVE Order' /\ got' = got
    BY <1>8, CloseLinkOrder DEF End, signal
  <1>9. ASSUME NEW e \in Ends, Break(e) PROVE Order' /\ got' = got
    <2>1. \A d \in Ends : Kept(d)
      BY <1>9, StatusKept DEF Break
    <2> QED
      BY <1>9, <2>1, BreakOrder DEF Break, signal
  <1>10. ASSUME NEW e \in Ends, Removal(e) PROVE Order' /\ got' = got
    <2>1. \/ UNCHANGED <<bound, sockets, link, sent, got>>
          \/ Close /\ UNCHANGED <<sockets, sent, got>>
      BY <1>10 DEF Removal, RemoveCall, RemoveFails, RemoveBridge, signal
    <2> QED
      BY <1>1, <1>5, <2>1
  <1>11. ASSUME NEW e \in Ends, sendMessage(e) PROVE Order' /\ got' = got
    BY <1>11, SendOrder DEF sendMessage
  <1>12. CASE Expire
    BY <1>5, <1>12 DEF Expire
  <1>13. CASE UNCHANGED vars
    BY <1>1, <1>13 DEF vars, signal
  <1>14. ASSUME NEW e \in Ends, Notify(e)
         PROVE  Order' /\ (~Late => \A d \in Ends : got'[d] # got[d] => got'[d] > got[d])
    BY <1>14, NotifyOrder
  <1>15. ASSUME NEW e \in Ends, UserStep(e) PROVE Order' /\ got' = got
    BY <1>8, <1>11, <1>15 DEF UserStep
  <1> QED
    BY <1>3, <1>4, <1>6, <1>7, <1>9, <1>10, <1>12, <1>13, <1>14, <1>15 DEF Next, Progress

-----------------------------------------------------------------------------
\* The bridge's places are sockets that the ends opened, of which only the last
\* may work, and no end handles a message that was not sent (bridge.go and
\* link.ts), over any number of reconnections and in any order of the tokens.
THEOREM CallTypes == Spec => []TypeOK
  <1>1. IInv /\ Order => TypeOK
    <2> SUFFICES ASSUME IInv, Order PROVE TypeOK
      OBVIOUS
    <2> USE DEF IInv
    <2>1. \A e \in Ends : bound[e] \in 0 .. Latest(e) /\ Latest(e) <= MaxSockets[e]
      BY SocketFacts DEF Shape, OneSocket
    <2>2. ASSUME NEW e \in Ends, NEW n \in 1 .. Latest(e)
          PROVE  /\ sockets[e][n].live \in BOOLEAN
                 /\ sockets[e][n].at \in {"announce", "relay", "done"}
                 /\ sockets[e][n].live => n = Latest(e)
      <3>1. sockets[e][n] \in Socket
        BY SocketFacts
      <3>2. sockets[e][n].live \in BOOLEAN
        BY <3>1 DEF Socket
      <3>3. sockets[e][n].at \in {"announce", "relay", "done"}
        BY <3>1 DEF Socket
      <3> QED
        BY <3>2, <3>3 DEF OneSocket
    <2>3. ASSUME NEW e \in Ends
          PROVE  /\ link[e].state \in {"none", "open", "closed"}
                 /\ link[e].status \in Statuses
                 /\ ending[e] \in BOOLEAN
                 /\ got[e] \in 0 .. sent[Other(e)] /\ sent[e] \in 0 .. MaxSent[e]
      <3>1. link[e] \in Link /\ ending[e] \in BOOLEAN
        BY DEF Shape
      <3>2. MaxSent[e] \in Nat /\ got[e] \in Nat /\ sent[e] \in Nat /\ sent[Other(e)] \in Nat
        BY CallAssumption, NumFacts, TwoEnds
      <3>3. got[e] <= sent[Other(e)] /\ sent[e] <= MaxSent[e]
        BY TwoEnds DEF Order, Bounded
      <3>4. link[e].state \in {"none", "open", "closed"} /\ link[e].status \in Statuses
        BY <3>1 DEF Link
      <3> QED
        BY <3>1, <3>2, <3>3, <3>4
    <2> QED
      BY <2>1, <2>2, <2>3 DEF TypeOK, Shape
  <1>2. Init => IInv /\ Order
    BY InitHolds, InitOrder
  <1>3. IInv /\ Order /\ [Next]_vars => (IInv /\ Order)'
    BY Inductive, StepOrder
  <1> QED
    BY <1>1, <1>2, <1>3, PTL DEF Spec

\* As long as tokens are read in the order of an end's sockets, the messages of
\* an end are handled in the order it sent them in and none twice, although each
\* reconnection leaves a handler that still reads its old socket (RelayMessage in
\* bridge.go compares connections): any number of sockets and messages.
THEOREM CallInOrder ==
    ASSUME ~Late
    PROVE  Spec => InOrder
  <1>1. Init => IInv /\ Order
    BY InitHolds, InitOrder
  <1>2. IInv /\ Order /\ [Next]_vars => (IInv /\ Order)'
    BY Inductive, StepOrder
  <1>3. IInv /\ Order /\ [Next]_vars =>
            [\A e \in Ends : got'[e] # got[e] => got'[e] > got[e]]_got
    BY Inductive, StepOrder
  <1> QED
    BY <1>1, <1>2, <1>3, PTL DEF Spec, InOrder
=============================================================================
