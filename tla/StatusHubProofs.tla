--------------------------- MODULE StatusHubProofs ---------------------------
(***************************************************************************)
(* Proofs about StatusHub, for any number of accounts, websockets and      *)
(* handlers, with writes that fail.                                        *)
(***************************************************************************)
EXTENDS StatusHub, TLAPS

\* A send lets one entry go, and changes the goroutine that receives.
LEMMA MeetFacts ==
    ASSUME TypeOK, HubInv, NEW w \in Workers, NEW c \in Conns, Meet(w, c)
    PROVE  /\ todo' \in [Workers -> SUBSET Conns]
           /\ \A v \in Workers : todo'[v] \subseteq todo[v]
           /\ lock = w
  BY DEF TypeOK, HubInv, Meet

\* Who does not hold the mutex has nothing left to send.
LEMMA FreeMutex ==
    ASSUME HubInv, lock = None
    PROVE  \A w \in Workers : todo[w] = {}
  BY HubAssumption DEF HubInv

-----------------------------------------------------------------------------
\* Who has got past the reading of the account holds a revision of it.
Known ==
    /\ \A c \in Conns : pc[c] \notin {"new", "refused"} => snap[c] # 0
    /\ \A w \in Workers : Task[w] = "status" /\ wpc[w] # "new" => snap[w] # 0

LEMMA TypeInit == Init => TypeOK /\ Known
  BY DEF Init, TypeOK, Known, ConnPc, WorkerPc

LEMMA KnownStep == TypeOK /\ Known /\ [Next]_vars => Known'
  <1> SUFFICES ASSUME TypeOK, Known, [Next]_vars PROVE Known'
    OBVIOUS
  <1> USE HubAssumption DEF TypeOK, Known, GotoC, GotoW, Hold
  <1>1. ASSUME NEW c \in Conns, ConnStep(c)
        PROVE  Known'
    <2>1. CASE Announce(c)
      BY <2>1 DEF Announce
    <2>2. CASE Greet(c) \/ AddListener(c) \/ AddDisconnectListener(c) \/ WriteMessage(c)
      BY <2>2 DEF Greet, AddListener, AddDisconnectListener, WriteMessage
    <2>3. CASE RemoveDisconnectListener(c) \/ CloseD(c) \/ RemoveListener(c) \/ CloseC(c)
      BY <2>3 DEF RemoveDisconnectListener, CloseD, RemoveListener, CloseC
    <2> QED
      BY <1>1, <2>1, <2>2, <2>3 DEF ConnStep
  <1>2. ASSUME NEW c \in Conns, ConnFails(c)
        PROVE  Known'
    BY <1>2 DEF ConnFails, GreetFails, WriteFails, EndLoop
  <1>3. ASSUME NEW w \in Workers, WorkerStep(w)
        PROVE  Known'
    <2>1. CASE Load(w) \/ Commit(w) \/ AddRing(w) \/ RemoveAgentToken(w) \/ Lock(w) \/ Unlock(w)
      BY <2>1 DEF Load, Commit, AddRing, RemoveAgentToken, Lock, Unlock
    <2>2. ASSUME NEW c \in Conns, Send(w, c)
          PROVE  Known'
      BY <2>2 DEF Send, SendStatus, SendRing, SendDisconnect, Meet, EndLoop
    <2> QED
      BY <1>3, <2>1, <2>2 DEF WorkerStep
  <1>4. CASE UNCHANGED vars
    BY <1>4 DEF vars
  <1> QED
    BY <1>1, <1>2, <1>3, <1>4 DEF Next

LEMMA TypeStep == TypeOK /\ Known /\ [Next]_vars => TypeOK'
  <1> SUFFICES ASSUME TypeOK, Known, [Next]_vars PROVE TypeOK'
    OBVIOUS
  <1> USE HubAssumption DEF TypeOK, GotoC, GotoW, Hold, ConnPc, WorkerPc
  <1>1. ASSUME NEW c \in Conns, ConnStep(c)
        PROVE  TypeOK'
    <2>1. CASE Announce(c)
      BY <2>1 DEF Announce
    <2>2. CASE Greet(c)
      <3>1. told' \in [Conns -> SUBSET (Nat \ {0})]
        BY <2>2 DEF Greet, Write, Known
      <3>2. open' \subseteq Channels
        BY <2>2 DEF Greet, Channels
      <3> QED
        BY <2>2, <3>1, <3>2 DEF Greet
    <2>3. CASE AddListener(c)
      BY <2>3 DEF AddListener, Channels
    <2>4. CASE AddDisconnectListener(c)
      BY <2>4 DEF AddDisconnectListener
    <2>5. CASE WriteMessage(c)
      <3>1. told' \in [Conns -> SUBSET (Nat \ {0})]
        BY <2>5 DEF WriteMessage, Write, Known
      <3> QED
        BY <2>5, <3>1 DEF WriteMessage
    <2>6. CASE RemoveDisconnectListener(c)
      BY <2>6 DEF RemoveDisconnectListener
    <2>7. CASE CloseD(c)
      BY <2>7 DEF CloseD
    <2>8. CASE RemoveListener(c)
      BY <2>8 DEF RemoveListener
    <2>9. CASE CloseC(c)
      BY <2>9 DEF CloseC
    <2> QED
      BY <1>1, <2>1, <2>2, <2>3, <2>4, <2>5, <2>6, <2>7, <2>8, <2>9 DEF ConnStep
  <1>2. ASSUME NEW c \in Conns, ConnFails(c)
        PROVE  TypeOK'
    BY <1>2 DEF ConnFails, GreetFails, WriteFails, EndLoop
  <1>3. ASSUME NEW w \in Workers, WorkerStep(w)
        PROVE  TypeOK'
    <2>1. CASE Load(w)
      BY <2>1 DEF Load
    <2>2. CASE Commit(w)
      BY <2>2 DEF Commit
    <2>3. CASE AddRing(w)
      BY <2>3 DEF AddRing
    <2>4. CASE RemoveAgentToken(w)
      BY <2>4 DEF RemoveAgentToken
    <2>5. CASE Lock(w)
      <3>1. Audience(w) \subseteq Conns
        BY DEF Audience, Tasks
      <3> QED
        BY <2>5, <3>1 DEF Lock
    <2>6. CASE Unlock(w)
      BY <2>6 DEF Unlock
    <2>7. ASSUME NEW c \in Conns, Send(w, c)
          PROVE  TypeOK'
      <3>1. todo' \in [Workers -> SUBSET Conns]
        BY <2>7 DEF Send, SendStatus, SendRing, SendDisconnect, Meet
      <3> QED
        BY <2>7, <3>1 DEF Send, SendStatus, SendRing, SendDisconnect, EndLoop
    <2> QED
      BY <1>3, <2>1, <2>2, <2>3, <2>4, <2>5, <2>6, <2>7 DEF WorkerStep
  <1>4. CASE UNCHANGED vars
    BY <1>4 DEF vars
  <1> QED
    BY <1>1, <1>2, <1>3, <1>4 DEF Next

-----------------------------------------------------------------------------
LEMMA HubInit == Init => HubInv
  BY HubAssumption DEF Init, HubInv, HasC, HasD

LEMMA HubStep == TypeOK /\ HubInv /\ [Next]_vars => HubInv'
  <1> SUFFICES ASSUME TypeOK, HubInv, [Next]_vars PROVE HubInv'
    OBVIOUS
  <1> USE DEF GotoC, GotoW, Hold, HasC, HasD
  <1>1. ASSUME NEW c \in Conns, ConnStep(c)
        PROVE  HubInv'
    <2>1. CASE Announce(c)
      BY <2>1 DEF Announce, TypeOK, HubInv, Audience
    <2>2. CASE Greet(c)
      BY <2>2 DEF Greet, TypeOK, HubInv, Audience
    <2>3. CASE AddListener(c)
      BY <2>3, FreeMutex, HubAssumption DEF AddListener, TypeOK, HubInv
    <2>4. CASE AddDisconnectListener(c)
      BY <2>4, FreeMutex, HubAssumption DEF AddDisconnectListener, TypeOK, HubInv
    <2>5. CASE WriteMessage(c)
      BY <2>5 DEF WriteMessage, TypeOK, HubInv, Audience
    <2>6. CASE RemoveDisconnectListener(c)
      BY <2>6, FreeMutex, HubAssumption DEF RemoveDisconnectListener, TypeOK, HubInv
    <2>7. CASE CloseD(c)
      BY <2>7 DEF CloseD, TypeOK, HubInv, Audience
    <2>8. CASE RemoveListener(c)
      BY <2>8, FreeMutex, HubAssumption DEF RemoveListener, TypeOK, HubInv
    <2>9. CASE CloseC(c)
      BY <2>9 DEF CloseC, TypeOK, HubInv, Audience
    <2> QED
      BY <1>1, <2>1, <2>2, <2>3, <2>4, <2>5, <2>6, <2>7, <2>8, <2>9 DEF ConnStep
  <1>2. ASSUME NEW c \in Conns, ConnFails(c)
        PROVE  HubInv'
    BY <1>2 DEF ConnFails, GreetFails, WriteFails, EndLoop, TypeOK, HubInv, Audience
  <1>3. ASSUME NEW w \in Workers, WorkerStep(w)
        PROVE  HubInv'
    <2>1. CASE Load(w) \/ Commit(w) \/ AddRing(w) \/ RemoveAgentToken(w)
      <3>1. UNCHANGED <<pc, listening, parting, open, lock, todo>>
        BY <2>1 DEF Load, Commit, AddRing, RemoveAgentToken
      <3>2. \A v \in Workers : wpc'[v] = "sending" <=> wpc[v] = "sending"
        BY <2>1 DEF Load, Commit, AddRing, RemoveAgentToken, TypeOK
      <3>3. \A v \in Workers : Audience(v)' = Audience(v)
        BY <3>1 DEF Audience
      <3> QED
        BY <3>1, <3>2, <3>3 DEF HubInv
    <2>2. CASE Lock(w)
      <3>1. UNCHANGED <<pc, listening, parting, open>>
        BY <2>2 DEF Lock
      <3>2. \A v \in Workers : todo'[v] = IF v = w THEN Audience(w) ELSE {}
        BY <2>2, FreeMutex DEF Lock, TypeOK
      <3>3. \A v \in Workers : Audience(v)' = Audience(v)
        BY <3>1 DEF Audience
      <3>4. lock' = w
        BY <2>2 DEF Lock
      <3>5. \A v \in Workers : wpc'[v] = "sending" <=> v = w
        BY <2>2, HubAssumption DEF Lock, TypeOK, HubInv
      <3> QED
        BY <3>1, <3>2, <3>3, <3>4, <3>5 DEF HubInv
    <2>3. CASE Unlock(w)
      <3>1. lock = w /\ todo[w] = {} /\ UNCHANGED <<pc, listening, parting, open, todo>>
        BY <2>3 DEF Unlock, HubInv
      <3>2. \A v \in Workers : todo[v] = {}
        BY <3>1 DEF HubInv
      <3>3. lock' = None /\ \A v \in Workers : wpc'[v] # "sending"
        BY <2>3, <3>1 DEF Unlock, TypeOK, HubInv
      <3> QED
        BY <3>1, <3>2, <3>3, HubAssumption DEF HubInv
    <2>4. ASSUME NEW c \in Conns, Send(w, c)
          PROVE  HubInv'
      <3>1. /\ Meet(w, c) /\ pc[c] = "serving"
            /\ pc' = [pc EXCEPT ![c] = "writing"] \/ pc' = [pc EXCEPT ![c] = "leaving"]
            /\ UNCHANGED <<wpc, listening, parting, open, lock>>
        BY <2>4 DEF Send, SendStatus, SendRing, SendDisconnect, Meet, EndLoop
      <3>2. \A v \in Workers : todo'[v] \subseteq todo[v]
        BY <3>1, MeetFacts
      <3>3. \A v \in Workers : Audience(v)' = Audience(v)
        BY <3>1 DEF Audience
      <3> QED
        BY <3>1, <3>2, <3>3 DEF HubInv, TypeOK
    <2> QED
      BY <1>3, <2>1, <2>2, <2>3, <2>4 DEF WorkerStep
  <1>4. CASE UNCHANGED vars
    BY <1>4 DEF vars, HubInv, Audience
  <1> QED
    BY <1>1, <1>2, <1>3, <1>4 DEF Next

\* A channel is open only while its goroutine is between making and closing it.
OpenInv ==
    \A c \in Conns : /\ <<"c", c>> \in open => pc[c] \in HasC
                     /\ <<"d", c>> \in open => pc[c] \in HasD

LEMMA OpenStep == TypeOK /\ OpenInv /\ [Next]_vars => OpenInv'
  <1> SUFFICES ASSUME TypeOK, OpenInv, [Next]_vars PROVE OpenInv'
    OBVIOUS
  <1> USE DEF GotoC, GotoW, HasC, HasD
  <1>1. ASSUME NEW c \in Conns, ConnStep(c)
        PROVE  OpenInv'
    <2>1. CASE Announce(c) \/ WriteMessage(c) \/ AddDisconnectListener(c)
               \/ RemoveDisconnectListener(c) \/ RemoveListener(c)
      BY <2>1 DEF Announce, WriteMessage, AddDisconnectListener, RemoveDisconnectListener,
                  RemoveListener, TypeOK, OpenInv
    <2>2. CASE Greet(c)
      BY <2>2 DEF Greet, TypeOK, OpenInv
    <2>4. CASE AddListener(c)
      BY <2>4 DEF AddListener, TypeOK, OpenInv
    <2>3. CASE CloseD(c) \/ CloseC(c)
      BY <2>3 DEF CloseD, CloseC, TypeOK, OpenInv
    <2> QED
      BY <1>1, <2>1, <2>2, <2>3, <2>4 DEF ConnStep
  <1>2. ASSUME NEW c \in Conns, ConnFails(c)
        PROVE  OpenInv'
    BY <1>2 DEF ConnFails, GreetFails, WriteFails, EndLoop, TypeOK, OpenInv
  <1>3. ASSUME NEW w \in Workers, WorkerStep(w)
        PROVE  OpenInv'
    <2>1. CASE \E c \in Conns : Send(w, c)
      <3>1. PICK c \in Conns : Send(w, c)
        BY <2>1
      <3>2. /\ pc[c] = "serving" /\ open' = open
            /\ pc' = [pc EXCEPT ![c] = "writing"] \/ pc' = [pc EXCEPT ![c] = "leaving"]
        BY <3>1 DEF Send, SendStatus, SendRing, SendDisconnect, Meet, EndLoop
      <3> QED
        BY <3>2 DEF OpenInv, TypeOK
    <2>2. CASE UNCHANGED <<pc, open>>
      BY <2>2 DEF OpenInv
    <2> QED
      BY <1>3, <2>1, <2>2 DEF WorkerStep, Load, Commit, AddRing, RemoveAgentToken, Lock, Unlock
  <1>4. CASE UNCHANGED vars
    BY <1>4 DEF vars, OpenInv
  <1> QED
    BY <1>1, <1>2, <1>3, <1>4 DEF Next

(***************************************************************************)
(* Every part of the hub's state keeps its type; in particular a websocket *)
(* is never told of a revision that no account can have (getRevision is    *)
(* given the account of the session, api_status.go:65-72).                 *)
(***************************************************************************)
THEOREM TypeCorrect == Spec => []TypeOK
  BY TypeInit, TypeStep, KnownStep, PTL DEF Spec

(***************************************************************************)
(* Whoever is registered has its channels open, and only who holds wsSync  *)
(* has anything left to send, to websockets that stay registered.          *)
(***************************************************************************)
THEOREM HubCorrect == Spec => []HubInv
  BY TypeInit, TypeStep, KnownStep, HubInit, HubStep, PTL DEF Spec

(***************************************************************************)
(* A websocket that was refused or closed has left nothing behind: it is   *)
(* in no table of listeners and none of its channels is open, however it   *)
(* ended (the deferred calls of Status in api_status.go).                  *)
(***************************************************************************)
THEOREM NothingLeaks == Spec => []NoLeak
  <1>1. Init => OpenInv
    BY DEF Init, OpenInv
  <1>2. HubInv /\ OpenInv => NoLeak
    BY DEF HubInv, OpenInv, NoLeak, HasC, HasD
  <1> QED
    BY <1>1, <1>2, TypeInit, TypeStep, KnownStep, HubInit, HubStep, OpenStep, PTL DEF Spec

(***************************************************************************)
(* No handler ever sends on a closed channel, however many websockets come *)
(* and go, or fail, while handlers send: removing the entry under the      *)
(* mutex before closing the channel is enough.                             *)
(***************************************************************************)
THEOREM NeverPanics == Spec => []NoPanic
  <1>1. TypeOK /\ HubInv => NoPanic
    <2> SUFFICES ASSUME TypeOK, HubInv, NEW w \in Workers, NEW c \in todo[w]
                 PROVE  <<Channel(w), c>> \in open
      BY DEF NoPanic
    <2>1. c \in Audience(w) /\ c \in Conns
      BY DEF HubInv, TypeOK
    <2> QED
      BY <2>1, HubAssumption DEF Audience, Channel, HubInv, HasC, HasD, TypeOK, Tasks
  <1> QED
    BY <1>1, TypeInit, TypeStep, KnownStep, HubInit, HubStep, PTL DEF Spec
=============================================================================
