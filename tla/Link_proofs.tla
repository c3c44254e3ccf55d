----------------------------- MODULE Link_proofs -----------------------------
(***************************************************************************)
(* Proofs about Link.tla, for every value of its constants: the life of a  *)
(* session and of its tasks, no client session without a server session    *)
(* of its own, the alternation of signals, and that the module implements  *)
(* LinkService.tla.                                                        *)
(***************************************************************************)
EXTENDS Link, SequenceLemmas

-----------------------------------------------------------------------------
(* The inductive invariant.                                                *)

\* A port whose coroutine is not in a session has no transport; without one it
\* runs no task and is disconnected.
TransportOK(e) ==
  /\ run_link[e] # "open" => transport[e] = "none"
  /\ transport[e] = "none" => tasks[e] = {} /\ link_state[e] = "disconnected"

\* Connected is more than a word: a watched session, whose agent was told so.
\* Disconnected means no task but the ping, and an agent that was told so.
SessionOK(e) ==
  /\ link_state[e] = "connected" =>
       "timeout" \in tasks[e] /\ handler[e] = "normal" /\ signal[e] = "CONNECTED"
  /\ link_state[e] = "disconnected" =>
       tasks[e] \subseteq {"ping"} /\ signal[e] # "CONNECTED"

IInv ==
  /\ \A e \in End : TransportOK(e) /\ SessionOK(e)
  /\ SessionsMatched

-----------------------------------------------------------------------------
(* What sending and taking a datagram do to the network.                   *)

NetType(n) == n \in [End -> Seq(Datagram)]

\* The answers under way in n: Cardinality(Answers) is AnswersIn(net).
AnswersIn(n) == Cardinality(Places(n["client"], "YESIAM"))

LEMMA AnswersAreCounted == Cardinality(Answers) = AnswersIn(net)
BY DEF Answers, AnswersIn, Places

LEMMA AnswersFinite ==
  ASSUME NEW n, NetType(n)
  PROVE  AnswersIn(n) \in Nat
<1>1. n["client"] \in Seq(Datagram)
  BY DEF NetType, End
<1> QED
  BY <1>1, PlacesFinite DEF AnswersIn

LEMMA PeerFacts ==
  /\ Peer("client") = "server" /\ Peer("server") = "client"
  /\ \A e \in End : Peer(e) \in End /\ Peer(e) # e
BY DEF End, Peer

\* Only what the server sends reaches the client, and only an answer counts.
LEMMA SendProperties ==
  ASSUME NEW n, NetType(n), NEW e \in End, NEW m \in Datagram
  PROVE  /\ NetType(Send(n, e, m))
         /\ e = "client" \/ m # "YESIAM" => AnswersIn(Send(n, e, m)) = AnswersIn(n)
         /\ AnswersIn(Send(n, e, m)) \in {AnswersIn(n), AnswersIn(n) + 1}
<1> DEFINE s == n["client"]
           t == Send(n, e, m)["client"]
<1>1. NetType(Send(n, e, m))
  BY PeerFacts DEF NetType, Send
<1>2. t = s \/ (e = "server" /\ t = Append(s, m))
  BY PeerFacts DEF NetType, Send, End
<1>3. s \in Seq(Datagram)
  BY DEF NetType, End
<1>4. Cardinality(Places(s, "YESIAM")) \in Nat
  BY <1>3, PlacesFinite
<1>5. Cardinality(Places(Append(s, m), "YESIAM")) =
        Cardinality(Places(s, "YESIAM")) + IF m = "YESIAM" THEN 1 ELSE 0
  BY <1>3, PlacesAppend
<1>6. AnswersIn(n) = Cardinality(Places(s, "YESIAM"))
  BY DEF AnswersIn
<1>7. AnswersIn(Send(n, e, m)) = Cardinality(Places(t, "YESIAM"))
  BY DEF AnswersIn
<1>8. CASE t = s
  BY <1>1, <1>4, <1>6, <1>7, <1>8
<1>9. CASE e = "server" /\ t = Append(s, m)
  <2>1. AnswersIn(Send(n, e, m)) = AnswersIn(n) + IF m = "YESIAM" THEN 1 ELSE 0
    BY <1>5, <1>6, <1>7, <1>9
  <2>2. e # "client"
    BY <1>9
  <2> QED
    BY <1>1, <1>4, <1>6, <2>1, <2>2
<1> QED
  BY <1>2, <1>8, <1>9

\* Taking a datagram takes one answer away, if it is one of the client's.
LEMMA ConsumedProperties ==
  ASSUME NetType(net), NEW e \in End, NEW i \in DOMAIN net[e]
  PROVE  /\ NetType(Consumed(e, i))
         /\ net[e][i] \in Datagram
         /\ AnswersIn(Consumed(e, i)) =
              AnswersIn(net) - IF e = "client" /\ net[e][i] = "YESIAM" THEN 1 ELSE 0
<1>1. net[e] \in Seq(Datagram) /\ DOMAIN net[e] = 1..Len(net[e])
  BY DEF NetType
<1>2. RemoveAt(net[e], i) \in Seq(Datagram)
  BY <1>1, RemoveAtProperties
<1>3. NetType(Consumed(e, i))
  BY <1>2 DEF NetType, Consumed
<1>4. net[e][i] \in Datagram
  BY <1>1
<1>5. CASE e = "client"
  <2>1. Consumed(e, i)["client"] = RemoveAt(net["client"], i)
    BY <1>5 DEF NetType, Consumed
  <2> QED
    BY <1>1, <1>3, <1>4, <1>5, <2>1, PlacesRemoveAt DEF AnswersIn
<1>6. CASE e # "client"
  <2>1. Consumed(e, i)["client"] = net["client"]
    BY <1>6 DEF NetType, Consumed, End
  <2> QED
    BY <1>3, <1>4, <1>6, <2>1, AnswersFinite DEF AnswersIn
<1> QED
  BY <1>5, <1>6

\* Without the datagrams of one end there are no more answers than before.
LEMMA EmptiedProperties ==
  ASSUME NetType(net), NEW e \in End
  PROVE  /\ NetType([net EXCEPT ![e] = <<>>])
         /\ AnswersIn([net EXCEPT ![e] = <<>>]) \in 0..AnswersIn(net)
<1> DEFINE n == [net EXCEPT ![e] = <<>>]
<1>1. NetType(n)
  BY DEF NetType
<1>2. n["client"] = <<>> \/ n["client"] = net["client"]
  BY DEF NetType, End
<1>3. AnswersIn(n) = 0 \/ AnswersIn(n) = AnswersIn(net)
  BY <1>2, PlacesEmpty DEF AnswersIn
<1> QED
  BY <1>1, <1>3, AnswersFinite

-----------------------------------------------------------------------------
(* The types.                                                              *)

LEMMA TypeOKUnchanged ==
  TypeOK /\ UNCHANGED vars => TypeOK'
BY DEF TypeOK, vars

\* Handling a datagram keeps the types.
LEMMA DatagramReceivedType ==
  ASSUME TypeOK, NEW e \in End, DatagramReceived(e)
  PROVE  TypeOK'
<1>1. NetType(net)
  BY DEF TypeOK, NetType
<1>2. PICK i \in DOMAIN net[e] :
        \/ HandleHandshake(e, i) \/ HandleServerHandshake(e, i)
        \/ IgnoreInHandshake(e, i) \/ HandleNormalPacket(e, i)
  BY DEF DatagramReceived, Arrivals
<1>3. NetType(Consumed(e, i))
  BY <1>1, ConsumedProperties
<1>4. NetType(net')
  <2>1. "YESIAM" \in Datagram
    BY DEF Datagram
  <2>2. NetType(Send(Consumed(e, i), e, "YESIAM"))
    BY <1>3, <2>1, SendProperties
  <2> QED
    BY <1>2, <1>3, <2>2 DEF HandleHandshake, HandleServerHandshake,
       IgnoreInHandshake, HandleNormalPacket
<1>5. heard' \in [End -> BOOLEAN] /\ UNCHANGED <<run_link, transport, opens>>
  BY DEF DatagramReceived, TypeOK
<1>6. CASE EnterConnected(e)
  <2>1. /\ link_state' \in [End -> {"connected", "disconnected"}]
        /\ handler' \in [End -> {"handshake", "normal"}]
        /\ signal' \in [End -> {"none", "CONNECTED", "DISCONNECTED"}]
        /\ connects' \in [End -> Nat]
    BY <1>6 DEF EnterConnected, TypeOK
  <2>2. /\ DOMAIN tasks' = End
        /\ \A f \in End :
             tasks'[f] \subseteq IF handler'[f] = "handshake" THEN {"ping"}
                                                              ELSE Task \ {"ping"}
    BY <1>6 DEF EnterConnected, TypeOK, SessionTasks, Task
  <2> QED
    BY <1>4, <1>5, <2>1, <2>2 DEF TypeOK, NetType
<1>7. CASE UNCHANGED <<link_state, handler, signal, tasks, connects>>
  BY <1>4, <1>5, <1>7 DEF TypeOK, NetType
<1> QED
  BY <1>2, <1>6, <1>7 DEF HandleHandshake, HandleServerHandshake,
     IgnoreInHandshake, HandleNormalPacket

\* Sending keeps the types.
LEMMA SendOneType ==
  ASSUME TypeOK, NEW e \in End, NEW m \in Datagram, SendOne(e, m)
  PROVE  TypeOK'
<1>1. NetType(net')
  BY SendProperties DEF TypeOK, NetType, SendOne
<1> QED
  BY <1>1 DEF TypeOK, NetType, SendOne

\* Every variable keeps its type, and a protocol object in its handshake runs no
\* task but the client's ping (LinkProtocol.py:66-106, :148-159).
THEOREM TypeCorrect == Spec => []TypeOK
<1>1. Init => TypeOK
  <2> SUFFICES ASSUME Init PROVE TypeOK
    OBVIOUS
  <2>1. <<>> \in Seq(Datagram)
    OBVIOUS
  <2> QED
    BY <2>1 DEF Init, TypeOK
<1>2. TypeOK /\ [Next]_vars => TypeOK'
  <2> SUFFICES ASSUME TypeOK, [Next]_vars PROVE TypeOK'
    OBVIOUS
  <2>1. CASE UNCHANGED vars
    BY <2>1, TypeOKUnchanged
  <2> SUFFICES ASSUME NEW e \in End,
                      \/ OpenEndpoint(e) \/ DiscoveryFails(e) \/ SessionOver(e)
                      \/ Ping(e) \/ ProcessSend(e) \/ SendHeartbeat(e)
                      \/ PingTimeout(e) \/ ConnectionTimeout(e)
                      \/ DatagramReceived(e) \/ ConnectionLost(e) \/ Lose(e)
               PROVE  TypeOK'
    BY <2>1 DEF Next
  <2>2. CASE OpenEndpoint(e)
    BY <2>2 DEF OpenEndpoint, TypeOK, FirstTasks
  <2>3. CASE DiscoveryFails(e)
    BY <2>3 DEF DiscoveryFails, TypeOK
  <2>4. CASE SessionOver(e)
    BY <2>4 DEF SessionOver, TypeOK
  <2>5. CASE Ping(e) \/ ProcessSend(e) \/ SendHeartbeat(e)
    BY <2>5, SendOneType DEF Ping, ProcessSend, SendHeartbeat, Datagram
  <2>6. CASE PingTimeout(e)
    BY <2>6 DEF PingTimeout, Close, TypeOK
  <2>7. CASE ConnectionTimeout(e)
    BY <2>7 DEF ConnectionTimeout, Close, TypeOK
  <2>8. CASE DatagramReceived(e)
    BY <2>8, DatagramReceivedType
  <2>9. CASE ConnectionLost(e)
    <3>1. NetType(net')
      BY <2>9, EmptiedProperties DEF TypeOK, NetType, ConnectionLost
    <3>2. /\ transport' \in [End -> {"none", "open", "closing"}]
          /\ link_state' \in [End -> {"connected", "disconnected"}]
          /\ signal' \in [End -> {"none", "CONNECTED", "DISCONNECTED"}]
          /\ DOMAIN tasks' = End
          /\ \A f \in End : tasks'[f] \subseteq tasks[f]
      BY <2>9 DEF ConnectionLost, TypeOK, OnDisconnected
    <3> QED
      BY <2>9, <3>1, <3>2 DEF ConnectionLost, TypeOK, NetType
  <2>10. CASE Lose(e)
    <3>1. PICK i \in DOMAIN net[e] : net' = Consumed(e, i)
      BY <2>10 DEF Lose
    <3>2. NetType(net')
      BY <3>1, ConsumedProperties DEF TypeOK, NetType
    <3> QED
      BY <2>10, <3>2 DEF Lose, TypeOK, NetType
  <2> QED
    BY <2>2, <2>3, <2>4, <2>5, <2>6, <2>7, <2>8, <2>9, <2>10
<1> QED
  BY <1>1, <1>2, PTL DEF Spec

-----------------------------------------------------------------------------
(* The life of a session.                                                  *)

EndsOK == \A e \in End : TransportOK(e) /\ SessionOK(e)

\* What a datagram does, for the ends and for the count of sessions: it starts a
\* session in a handshake, or takes at most one answer away.
LEMMA DatagramEffect ==
  ASSUME TypeOK, NEW e \in End, DatagramReceived(e)
  PROVE  \/ /\ EnterConnected(e) /\ handler[e] = "handshake"
            /\ IF e = "client" THEN AnswersIn(net') = AnswersIn(net) - 1
                               ELSE AnswersIn(net') \in {AnswersIn(net), AnswersIn(net) + 1}
         \/ /\ UNCHANGED <<link_state, handler, signal, tasks, connects>>
            /\ AnswersIn(net') \in 0..AnswersIn(net)
<1>1. NetType(net)
  BY DEF TypeOK, NetType
<1>2. PICK i \in DOMAIN net[e] :
        \/ HandleHandshake(e, i) \/ HandleServerHandshake(e, i)
        \/ IgnoreInHandshake(e, i) \/ HandleNormalPacket(e, i)
  BY DEF DatagramReceived, Arrivals
<1>3. NetType(Consumed(e, i)) /\ AnswersIn(Consumed(e, i)) \in Nat /\ AnswersIn(net) \in Nat
  BY <1>1, ConsumedProperties, AnswersFinite
<1>4. AnswersIn(Consumed(e, i)) =
        AnswersIn(net) - IF e = "client" /\ net[e][i] = "YESIAM" THEN 1 ELSE 0
  BY <1>1, ConsumedProperties
<1>5. CASE HandleHandshake(e, i)
  BY <1>3, <1>4, <1>5 DEF HandleHandshake
<1>6. CASE HandleServerHandshake(e, i)
  <2>1. e = "server" /\ e # "client"
    BY <1>6 DEF HandleServerHandshake
  <2>2. "YESIAM" \in Datagram
    BY DEF Datagram
  <2>3. AnswersIn(Send(Consumed(e, i), e, "YESIAM"))
          \in {AnswersIn(Consumed(e, i)), AnswersIn(Consumed(e, i)) + 1}
    BY <1>3, <2>2, SendProperties
  <2> QED
    BY <1>3, <1>4, <1>6, <2>1, <2>3 DEF HandleServerHandshake
<1>7. CASE IgnoreInHandshake(e, i) \/ HandleNormalPacket(e, i)
  <2>1. AnswersIn(net') \in 0..AnswersIn(net)
    BY <1>3, <1>4, <1>7 DEF IgnoreInHandshake, HandleNormalPacket
  <2> QED
    BY <1>7, <2>1 DEF IgnoreInHandshake, HandleNormalPacket
<1> QED
  BY <1>2, <1>5, <1>6, <1>7

\* The loss of a datagram takes at most one answer away.
LEMMA LoseEffect ==
  ASSUME TypeOK, NEW e \in End, Lose(e)
  PROVE  AnswersIn(net') \in 0..AnswersIn(net)
<1>1. PICK i \in DOMAIN net[e] : net' = Consumed(e, i)
  BY DEF Lose
<1>2. NetType(net) /\ NetType(Consumed(e, i))
  BY ConsumedProperties DEF TypeOK, NetType
<1>3. AnswersIn(net) \in Nat /\ AnswersIn(Consumed(e, i)) \in Nat
  BY <1>2, AnswersFinite
<1> QED
  BY <1>1, <1>2, <1>3, ConsumedProperties

\* What the tasks send is no answer.
LEMMA SendOneEffect ==
  ASSUME TypeOK, NEW e \in End, Ping(e) \/ ProcessSend(e) \/ SendHeartbeat(e)
  PROVE  AnswersIn(net') = AnswersIn(net)
<1>1. PICK m \in Datagram \ {"YESIAM"} : SendOne(e, m)
  BY DEF Ping, ProcessSend, SendHeartbeat, Datagram
<1> QED
  BY <1>1, SendProperties DEF TypeOK, NetType, SendOne

LEMMA EndsOKStep ==
  ASSUME TypeOK, EndsOK, [Next]_vars
  PROVE  EndsOK'
<1> USE DEF EndsOK, TransportOK, SessionOK
<1>1. CASE UNCHANGED vars
  BY <1>1 DEF vars
<1> SUFFICES ASSUME NEW e \in End,
                    \/ OpenEndpoint(e) \/ DiscoveryFails(e) \/ SessionOver(e)
                    \/ Ping(e) \/ ProcessSend(e) \/ SendHeartbeat(e)
                    \/ PingTimeout(e) \/ ConnectionTimeout(e)
                    \/ DatagramReceived(e) \/ ConnectionLost(e) \/ Lose(e)
             PROVE  EndsOK'
  BY <1>1 DEF Next
<1>2. CASE OpenEndpoint(e)
  BY <1>2 DEF OpenEndpoint, TypeOK, FirstTasks
<1>3. CASE DiscoveryFails(e)
  BY <1>3 DEF DiscoveryFails, TypeOK
<1>4. CASE SessionOver(e)
  BY <1>4 DEF SessionOver, TypeOK
<1>5. CASE Ping(e) \/ ProcessSend(e) \/ SendHeartbeat(e)
  BY <1>5 DEF Ping, ProcessSend, SendHeartbeat, SendOne
<1>6. CASE PingTimeout(e)
  BY <1>6 DEF PingTimeout, Close, TypeOK
<1>7. CASE ConnectionTimeout(e)
  BY <1>7 DEF ConnectionTimeout, Close, TypeOK
<1>8. CASE DatagramReceived(e)
  <2>1. transport[e] = "open" /\ UNCHANGED <<run_link, transport>>
    BY <1>8 DEF DatagramReceived, Listening
  <2>2. CASE EnterConnected(e)
    BY <2>1, <2>2 DEF EnterConnected, TypeOK, SessionTasks
  <2>3. CASE UNCHANGED <<link_state, handler, signal, tasks, connects>>
    BY <2>1, <2>3
  <2> QED
    BY <1>8, <2>2, <2>3, DatagramEffect
<1>9. CASE ConnectionLost(e)
  <2>1. tasks'[e] = {}
    BY <1>9 DEF ConnectionLost, TypeOK, OnDisconnected, Task
  <2>2. \A f \in End \ {e} : tasks'[f] = tasks[f]
    BY <1>9 DEF ConnectionLost, TypeOK
  <2> QED
    BY <1>9, <2>1, <2>2 DEF ConnectionLost, TypeOK
<1>10. CASE Lose(e)
  BY <1>10 DEF Lose
<1> QED
  BY <1>2, <1>3, <1>4, <1>5, <1>6, <1>7, <1>8, <1>9, <1>10

LEMMA SessionsMatchedStep ==
  ASSUME TypeOK, SessionsMatched, [Next]_vars
  PROVE  SessionsMatched'
<1>1. /\ AnswersIn(net) \in Nat
      /\ connects \in [End -> Nat]
      /\ connects["client"] + AnswersIn(net) <= connects["server"]
  BY AnswersAreCounted, AnswersFinite DEF TypeOK, NetType, SessionsMatched
<1>2. Cardinality(Answers)' = AnswersIn(net')
  BY DEF Answers, AnswersIn, Places
<1> SUFFICES connects'["client"] + AnswersIn(net') <= connects'["server"]
  BY <1>2 DEF SessionsMatched
<1>3. CASE UNCHANGED connects /\ AnswersIn(net') \in 0..AnswersIn(net)
  BY <1>1, <1>3 DEF End
<1>4. CASE UNCHANGED vars
  BY <1>1, <1>3, <1>4 DEF vars
<1> SUFFICES ASSUME NEW e \in End,
                    \/ OpenEndpoint(e) \/ DiscoveryFails(e) \/ SessionOver(e)
                    \/ Ping(e) \/ ProcessSend(e) \/ SendHeartbeat(e)
                    \/ PingTimeout(e) \/ ConnectionTimeout(e)
                    \/ DatagramReceived(e) \/ ConnectionLost(e) \/ Lose(e)
             PROVE  connects'["client"] + AnswersIn(net') <= connects'["server"]
  BY <1>4 DEF Next
<1>5. CASE \/ OpenEndpoint(e) \/ DiscoveryFails(e) \/ SessionOver(e)
           \/ PingTimeout(e) \/ ConnectionTimeout(e)
  <2>1. UNCHANGED <<net, connects>>
    BY <1>5 DEF OpenEndpoint, DiscoveryFails, SessionOver, PingTimeout,
       ConnectionTimeout
  <2> QED
    BY <1>1, <1>3, <2>1
<1>6. CASE Ping(e) \/ ProcessSend(e) \/ SendHeartbeat(e)
  <2>1. UNCHANGED connects
    BY <1>6 DEF Ping, ProcessSend, SendHeartbeat, SendOne
  <2> QED
    BY <1>1, <1>3, <1>6, <2>1, SendOneEffect
<1>7. CASE DatagramReceived(e)
  <2>1. CASE UNCHANGED connects /\ AnswersIn(net') \in 0..AnswersIn(net)
    BY <1>3, <2>1
  <2>2. CASE e = "client" /\ EnterConnected(e) /\ AnswersIn(net') = AnswersIn(net) - 1
    <3>1. connects'["client"] = connects["client"] + 1 /\ connects'["server"] = connects["server"]
      BY <1>1, <2>2 DEF EnterConnected, End
    <3> QED
      BY <1>1, <2>2, <3>1 DEF End
  <2>3. CASE /\ e = "server" /\ EnterConnected(e)
             /\ AnswersIn(net') \in {AnswersIn(net), AnswersIn(net) + 1}
    <3>1. connects'["server"] = connects["server"] + 1 /\ connects'["client"] = connects["client"]
      BY <1>1, <2>3 DEF EnterConnected, End
    <3> QED
      BY <1>1, <2>3, <3>1 DEF End
  <2> QED
    BY <1>7, <2>1, <2>2, <2>3, DatagramEffect DEF End
<1>8. CASE ConnectionLost(e)
  BY <1>3, <1>8, EmptiedProperties DEF ConnectionLost, TypeOK, NetType
<1>9. CASE Lose(e)
  BY <1>3, <1>9, LoseEffect DEF Lose
<1> QED
  BY <1>5, <1>6, <1>7, <1>8, <1>9

\* The types and the inductive invariant hold in every reachable state.
THEOREM InductiveInvariant == Spec => [](TypeOK /\ IInv)
<1>1. Init => IInv
  <2> SUFFICES ASSUME Init PROVE IInv
    OBVIOUS
  <2>1. \A e \in End : TransportOK(e) /\ SessionOK(e)
    BY DEF Init, TransportOK, SessionOK
  <2>2. AnswersIn(net) = 0
    BY PlacesEmpty DEF AnswersIn, Init, End
  <2>3. SessionsMatched
    BY <2>2, AnswersAreCounted DEF SessionsMatched, Init, End
  <2> QED
    BY <2>1, <2>3 DEF IInv
<1>2. TypeOK /\ IInv /\ [Next]_vars => IInv'
  <2> SUFFICES ASSUME TypeOK, IInv, [Next]_vars PROVE IInv'
    OBVIOUS
  <2>1. EndsOK /\ SessionsMatched
    BY DEF IInv, EndsOK
  <2>2. EndsOK' /\ SessionsMatched'
    BY <2>1, EndsOKStep, SessionsMatchedStep
  <2> QED
    BY <2>2 DEF IInv, EndsOK
<1> QED
  BY <1>1, <1>2, TypeCorrect, PTL DEF Spec

\* No client session starts without a server session that answered it and no
\* other client session: not for any loss, delay or reordering of the handshake
\* datagrams (LinkProtocol.py:80-108).
THEOREM NoImaginaryServer == Spec => []SessionsMatched
<1>1. IInv => SessionsMatched
  BY DEF IInv
<1> QED
  BY <1>1, InductiveInvariant, PTL

\* A connected link has its timeout task, its transport and an agent that knows,
\* whatever its timers do (LinkProtocol.py:84-93, :128-139, :148-159).
THEOREM ConnectedLinksAreWatched == Spec => []ConnectedIsWatched
<1>1. IInv => ConnectedIsWatched
  BY DEF IInv, TransportOK, SessionOK, ConnectedIsWatched
<1> QED
  BY <1>1, InductiveInvariant, PTL

\* No task survives its session (LinkProtocol.py:148-159,
\* EthernetProtocolExtended.py:41-45).
THEOREM TasksDieWithSession == Spec => []NoTaskLeftBehind
<1>1. TypeOK /\ IInv => NoTaskLeftBehind
  BY DEF TypeOK, IInv, TransportOK, SessionOK, NoTaskLeftBehind
<1> QED
  BY <1>1, InductiveInvariant, PTL

\* Between two sessions of an end its agent is told that the first one is over
\* (LinkProtocol.py:89, :104, :159; Port.py:228).
THEOREM SignalsAlternateAlways == Spec => SignalsAlternate
<1> DEFINE Told == \A e \in End : connects'[e] # connects[e] => signal[e] # "CONNECTED"
<1>1. TypeOK /\ IInv /\ [Next]_vars => [Told]_vars
  <2> SUFFICES ASSUME TypeOK, IInv, Next PROVE Told
    OBVIOUS
  <2>1. PICK e \in End :
          \/ OpenEndpoint(e) \/ DiscoveryFails(e) \/ SessionOver(e)
          \/ Ping(e) \/ ProcessSend(e) \/ SendHeartbeat(e)
          \/ PingTimeout(e) \/ ConnectionTimeout(e)
          \/ DatagramReceived(e) \/ ConnectionLost(e) \/ Lose(e)
    BY DEF Next
  <2>2. CASE EnterConnected(e) /\ handler[e] = "handshake"
    <3>1. signal[e] # "CONNECTED"
      BY <2>2 DEF TypeOK, IInv, SessionOK
    <3>2. \A f \in End \ {e} : connects'[f] = connects[f]
      BY <2>2 DEF EnterConnected, TypeOK
    <3> QED
      BY <3>1, <3>2
  <2>3. CASE UNCHANGED connects
    BY <2>3
  <2>4. CASE DatagramReceived(e)
    BY <2>2, <2>3, <2>4, DatagramEffect
  <2>5. CASE ~DatagramReceived(e)
    <3>1. UNCHANGED connects
      BY <2>1, <2>5 DEF OpenEndpoint, DiscoveryFails, SessionOver, Ping, ProcessSend,
         SendHeartbeat, SendOne, PingTimeout, ConnectionTimeout, ConnectionLost, Lose
    <3> QED
      BY <2>3, <3>1
  <2> QED
    BY <2>4, <2>5
<1> QED
  BY <1>1, InductiveInvariant, PTL DEF Spec, SignalsAlternate

-----------------------------------------------------------------------------
(* The link implements the link service.                                   *)

\* What the service sees of the link.
Up == [e \in End |-> link_state[e] = "connected"]

\* Without a change of link_state the service makes no step or forgets answers.
LEMMA AbstractForget ==
  ASSUME UNCHANGED <<link_state, connects>>, AnswersIn(net') \in 0..AnswersIn(net)
  PROVE  Service!Forget
<1>1. Cardinality(Answers)' = AnswersIn(net')
  BY DEF Answers, AnswersIn, Places
<1>2. Up' = Up
  BY DEF Up
<1> QED
  BY <1>1, <1>2, AnswersAreCounted DEF Service!Forget, Up

\* A handler that connects an end starts a session of the service.
LEMMA AbstractUp ==
  ASSUME TypeOK, IInv, TypeOK', NEW e \in End, EnterConnected(e),
         handler[e] = "handshake",
         IF e = "client" THEN AnswersIn(net') = AnswersIn(net) - 1
                         ELSE AnswersIn(net') \in {AnswersIn(net), AnswersIn(net) + 1}
  PROVE  Service!ServerUp \/ Service!ClientUp
<1>1. Cardinality(Answers)' = AnswersIn(net') /\ Cardinality(Answers) = AnswersIn(net)
  BY AnswersAreCounted DEF Answers, AnswersIn, Places
<1>2. AnswersIn(net) \in Nat /\ AnswersIn(net') \in Nat
  BY AnswersFinite DEF TypeOK, NetType
<1>3. link_state[e] # "connected"
  BY DEF IInv, SessionOK
<1>4. Up' = [Up EXCEPT ![e] = TRUE] /\ ~Up[e]
  BY ZenonT(40), <1>3 DEF Up, EnterConnected, TypeOK
<1>5. connects' = [connects EXCEPT ![e] = @ + 1]
  BY DEF EnterConnected
<1>6. Service!Starts(e)
  BY <1>4, <1>5 DEF Service!Starts, Up
<1>7. CASE e = "client"
  BY <1>1, <1>2, <1>6, <1>7 DEF Service!ClientUp
<1>8. CASE e = "server"
  BY <1>1, <1>2, <1>6, <1>8 DEF Service!ServerUp
<1> QED
  BY <1>7, <1>8 DEF End

\* The loss of a transport takes a connected end down.
LEMMA AbstractDown ==
  ASSUME TypeOK, NEW e \in End, ConnectionLost(e), link_state[e] = "connected"
  PROVE  Service!Down(e)
<1>1. Cardinality(Answers)' = AnswersIn(net') /\ Cardinality(Answers) = AnswersIn(net)
  BY AnswersAreCounted DEF Answers, AnswersIn, Places
<1>2. AnswersIn(net') \in 0..AnswersIn(net)
  BY EmptiedProperties DEF ConnectionLost, TypeOK, NetType
<1>3. Up' = [Up EXCEPT ![e] = FALSE] /\ Up[e]
  BY DEF Up, ConnectionLost, TypeOK
<1> QED
  BY <1>1, <1>2, <1>3 DEF Service!Down, ConnectionLost, Up

\* Every step of the link is one of the service, or none.
LEMMA AbstractNext ==
  ASSUME TypeOK, IInv, TypeOK', [Next]_vars
  PROVE  [Service!Next]_(Service!vars)
<1>1. CASE UNCHANGED vars
  <2>1. Cardinality(Answers)' = Cardinality(Answers) /\ Up' = Up /\ connects' = connects
    BY <1>1 DEF vars, Answers, Up
  <2> QED
    BY <2>1 DEF Service!vars, Up
<1>2. ASSUME UNCHANGED <<link_state, connects>>, AnswersIn(net') \in 0..AnswersIn(net)
      PROVE  Service!Next
  BY <1>2, AbstractForget DEF Service!Next
<1>3. AnswersIn(net) \in Nat
  BY AnswersFinite DEF TypeOK, NetType
<1> SUFFICES ASSUME NEW e \in End,
                    \/ OpenEndpoint(e) \/ DiscoveryFails(e) \/ SessionOver(e)
                    \/ Ping(e) \/ ProcessSend(e) \/ SendHeartbeat(e)
                    \/ PingTimeout(e) \/ ConnectionTimeout(e)
                    \/ DatagramReceived(e) \/ ConnectionLost(e) \/ Lose(e)
             PROVE  Service!Next
  BY <1>1 DEF Next
<1>4. CASE \/ OpenEndpoint(e) \/ DiscoveryFails(e) \/ SessionOver(e)
           \/ PingTimeout(e) \/ ConnectionTimeout(e)
  <2>1. UNCHANGED <<link_state, net, connects>>
    BY <1>4 DEF OpenEndpoint, DiscoveryFails, SessionOver, PingTimeout,
       ConnectionTimeout
  <2> QED
    BY <1>2, <1>3, <2>1
<1>5. CASE Ping(e) \/ ProcessSend(e) \/ SendHeartbeat(e)
  <2>1. UNCHANGED <<link_state, connects>>
    BY <1>5 DEF Ping, ProcessSend, SendHeartbeat, SendOne
  <2> QED
    BY <1>2, <1>3, <1>5, <2>1, SendOneEffect
<1>6. CASE DatagramReceived(e)
  <2>1. CASE UNCHANGED <<link_state, connects>> /\ AnswersIn(net') \in 0..AnswersIn(net)
    BY <1>2, <2>1
  <2>2. CASE /\ EnterConnected(e) /\ handler[e] = "handshake"
             /\ IF e = "client" THEN AnswersIn(net') = AnswersIn(net) - 1
                                ELSE AnswersIn(net') \in {AnswersIn(net), AnswersIn(net) + 1}
    BY <2>2, AbstractUp DEF Service!Next
  <2> QED
    BY <1>6, <2>1, <2>2, DatagramEffect
<1>7. CASE ConnectionLost(e)
  <2>1. CASE link_state[e] = "connected"
    <3>1. Service!Down(e)
      BY <1>7, <2>1, AbstractDown
    <3>2. e \in Service!End
      BY DEF Service!End, End
    <3> QED
      BY <3>1, <3>2 DEF Service!Next
  <2>2. CASE link_state[e] # "connected"
    <3>1. AnswersIn(net') \in 0..AnswersIn(net)
      BY <1>7, EmptiedProperties DEF ConnectionLost, TypeOK, NetType
    <3>2. UNCHANGED <<link_state, connects>>
      BY <1>7, <2>2 DEF ConnectionLost, TypeOK
    <3> QED
      BY <1>2, <3>1, <3>2
  <2> QED
    BY <2>1, <2>2
<1>8. CASE Lose(e)
  BY <1>2, <1>8, LoseEffect DEF Lose
<1> QED
  BY <1>4, <1>5, <1>6, <1>7, <1>8

\* The handshake, the timeouts and the teardown of both ends, over any network,
\* are the link service: each end goes up and down by turns, and a client goes up
\* only on a claim that a server session left (LinkProtocol.py:66-159).
THEOREM ImplementsLinkService == Spec => ServiceSpec
<1>1. Init => Service!Init
  <2> SUFFICES ASSUME Init PROVE Service!Init
    OBVIOUS
  <2>1. Cardinality(Answers) = 0
    BY PlacesEmpty, AnswersAreCounted DEF AnswersIn, Init, End
  <2> QED
    BY <2>1 DEF Init, Service!Init, Service!End, End
<1>2. TypeOK /\ IInv /\ TypeOK' /\ [Next]_vars => [Service!Next]_(Service!vars)
  BY AbstractNext
<1> QED
  BY <1>1, <1>2, InductiveInvariant, PTL DEF Spec, ServiceSpec, Service!Spec
=============================================================================
