------------------------ MODULE SliceProtocol_proofs ------------------------
(***************************************************************************)
(* Proofs about SliceProtocol.tla, for every value of its constants: the   *)
(* type invariant, the single token, in-order delivery, the bound on what  *)
(* sessions lose, that nothing is discarded on a link without disturbance, *)
(* and that the module implements AlternatingTransfer.tla; and, at the     *)
(* end, about ChunkProtocol.tla, which adds its own send task to it.       *)
(***************************************************************************)
EXTENDS ChunkProtocol, SequenceLemmas

-----------------------------------------------------------------------------
(* What the operations of the network do to it.                            *)

NetType(n) == n \in [End -> Seq(Datagram)]

LEMMA PeerFacts ==
  \A e \in End : Peer(e) \in End /\ Peer(e) # e /\ Peer(Peer(e)) = e
BY DEF End, Peer

LEMMA DatagramTypes ==
  /\ Ack \in Datagram /\ Ack.kind # "DATA"
  /\ Liveness \in Datagram /\ Liveness.kind # "DATA"
  /\ \A d \in Nat \ {0} : Data(d) \in Datagram /\ Data(d).kind = "DATA" /\ Data(d).item = d
BY DEF Ack, Liveness, Data, Datagram

\* Sending adds at most one place with DATA, at the end of one queue.
LEMMA SendProperties ==
  ASSUME NEW n, NetType(n), NEW to \in End, NEW m \in Datagram
  PROVE  /\ NetType(Send(n, to, m))
         /\ \A f \in End : ~(f = to /\ Connected(to)) => Send(n, to, m)[f] = n[f]
         /\ \A f \in End : f = to /\ Connected(to) =>
              /\ Len(Send(n, to, m)[f]) = Len(n[f]) + 1
              /\ \A i \in 1..Len(n[f]) : Send(n, to, m)[f][i] = n[f][i]
              /\ Send(n, to, m)[f][Len(n[f]) + 1] = m
BY DEF NetType, Send

\* Sending anything but DATA leaves the DATA datagrams where they are.
LEMMA SendOther ==
  ASSUME NEW n, NetType(n), NEW to \in End, NEW m \in Datagram, m.kind # "DATA"
  PROVE  \A f \in End :
           /\ DataIn(Send(n, to, m), f) = DataIn(n, f)
           /\ \A i \in DataIn(n, f) : Send(n, to, m)[f][i] = n[f][i]
<1> TAKE f \in End
<1> DEFINE s == n[f]
           t == Send(n, to, m)[f]
<1>1. s \in Seq(Datagram) /\ t \in Seq(Datagram)
  BY SendProperties DEF NetType
<1>2. \/ t = s
      \/ /\ Len(t) = Len(s) + 1
         /\ \A i \in 1..Len(s) : t[i] = s[i]
         /\ t[Len(s) + 1] = m
  BY SendProperties
<1>3. DataIn(Send(n, to, m), f) = {i \in DOMAIN t : t[i].kind = "DATA"}
  BY DEF DataIn
<1>4. DataIn(n, f) = {i \in DOMAIN s : s[i].kind = "DATA"}
  BY DEF DataIn
<1> HIDE DEF s, t
<1>5. DOMAIN s = 1..Len(s) /\ DOMAIN t = 1..Len(t) /\ Len(s) \in Nat
  BY <1>1
<1>6. {i \in DOMAIN t : t[i].kind = "DATA"} = {i \in DOMAIN s : s[i].kind = "DATA"}
  <2>1. CASE t = s
    BY <2>1
  <2>2. CASE /\ Len(t) = Len(s) + 1
             /\ \A i \in 1..Len(s) : t[i] = s[i]
             /\ t[Len(s) + 1] = m
    <3>1. \A i : i \in 1..Len(t) <=> (i \in 1..Len(s) \/ i = Len(s) + 1)
      BY <1>5, <2>2
    <3>2. \A i : /\ i \in 1..Len(s) => t[i].kind = s[i].kind
                 /\ i = Len(s) + 1 => t[i].kind # "DATA" /\ i \notin 1..Len(s)
      BY <1>5, <2>2
    <3> QED
      BY <1>5, <3>1, <3>2
  <2> QED
    BY <1>2, <2>1, <2>2
<1>7. \A i \in DOMAIN s : t[i] = s[i]
  BY <1>2, <1>5
<1>8. \A i \in DataIn(n, f) : t[i] = s[i]
  BY <1>4, <1>7
<1> QED
  BY <1>3, <1>4, <1>6, <1>8 DEF s, t

\* Consuming a datagram shifts the later ones of the same queue.
LEMMA ConsumedProperties ==
  ASSUME NetType(net), NEW e \in End, NEW i \in DOMAIN net[e]
  PROVE  /\ NetType(Consumed(e, i))
         /\ \A f \in End : f # e => Consumed(e, i)[f] = net[f]
         /\ Len(Consumed(e, i)[e]) = Len(net[e]) - 1
         /\ \A j \in 1..(Len(net[e]) - 1) :
              Consumed(e, i)[e][j] = IF j < i THEN net[e][j] ELSE net[e][j + 1]
<1>1. net[e] \in Seq(Datagram) /\ i \in 1..Len(net[e])
  BY DEF NetType
<1>2. /\ RemoveAt(net[e], i) \in Seq(Datagram)
      /\ Len(RemoveAt(net[e], i)) = Len(net[e]) - 1
      /\ \A j \in 1..(Len(net[e]) - 1) :
           RemoveAt(net[e], i)[j] = IF j < i THEN net[e][j] ELSE net[e][j + 1]
  BY <1>1, RemoveAtProperties
<1> QED
  BY <1>2 DEF NetType, Consumed

\* What is DATA after a datagram was consumed was DATA before, one place up
\* if it stood behind the consumed one; and the other way round.
LEMMA ConsumedData ==
  ASSUME NetType(net), NEW e \in End, NEW i \in DOMAIN net[e]
  PROVE  /\ \A f \in End : f # e => /\ DataIn(Consumed(e, i), f) = DataIn(net, f)
                                    /\ Consumed(e, i)[f] = net[f]
         /\ \A j \in DataIn(Consumed(e, i), e) :
              \/ /\ j < i /\ j \in DataIn(net, e)
                 /\ Consumed(e, i)[e][j] = net[e][j]
              \/ /\ j >= i /\ j + 1 \in DataIn(net, e)
                 /\ Consumed(e, i)[e][j] = net[e][j + 1]
         /\ \A j \in DataIn(net, e) :
              \/ j = i
              \/ /\ j < i /\ j \in DataIn(Consumed(e, i), e)
                 /\ Consumed(e, i)[e][j] = net[e][j]
              \/ /\ j > i /\ j - 1 \in DataIn(Consumed(e, i), e)
                 /\ Consumed(e, i)[e][j - 1] = net[e][j]
<1> DEFINE s == net[e]
           t == Consumed(e, i)[e]
<1>1. s \in Seq(Datagram) /\ t \in Seq(Datagram) /\ i \in 1..Len(s)
  BY ConsumedProperties DEF NetType
<1>2. /\ Len(t) = Len(s) - 1
      /\ \A j \in 1..(Len(s) - 1) : t[j] = IF j < i THEN s[j] ELSE s[j + 1]
  BY ConsumedProperties
<1>3. DataIn(Consumed(e, i), e) = {j \in DOMAIN t : t[j].kind = "DATA"}
  BY DEF DataIn
<1>4. DataIn(net, e) = {j \in DOMAIN s : s[j].kind = "DATA"}
  BY DEF DataIn
<1>5. \A f \in End : f # e => /\ DataIn(Consumed(e, i), f) = DataIn(net, f)
                              /\ Consumed(e, i)[f] = net[f]
  BY ConsumedProperties DEF DataIn
<1> HIDE DEF s, t
<1>6. DOMAIN s = 1..Len(s) /\ DOMAIN t = 1..Len(t) /\ Len(s) \in Nat
  BY <1>1
<1>7. \A j \in {k \in DOMAIN t : t[k].kind = "DATA"} :
         \/ j < i /\ j \in {k \in DOMAIN s : s[k].kind = "DATA"} /\ t[j] = s[j]
         \/ j >= i /\ j + 1 \in {k \in DOMAIN s : s[k].kind = "DATA"} /\ t[j] = s[j + 1]
  BY <1>1, <1>2, <1>6
<1>8. \A j \in {k \in DOMAIN s : s[k].kind = "DATA"} :
         \/ j = i
         \/ j < i /\ j \in {k \in DOMAIN t : t[k].kind = "DATA"} /\ t[j] = s[j]
         \/ j > i /\ j - 1 \in {k \in DOMAIN t : t[k].kind = "DATA"} /\ t[j - 1] = s[j]
  BY <1>1, <1>2, <1>6
<1> QED
  BY <1>3, <1>4, <1>5, <1>7, <1>8 DEF s, t

-----------------------------------------------------------------------------
(* Type correctness.                                                       *)

LEMMA TakeAndSendType ==
  ASSUME TypeOK, NEW e \in End, NEW n, NetType(n), TakeAndSend(e, n)
  PROVE  /\ NetType(net')
         /\ write_q' \in [End -> Seq(Nat \ {0})]
         /\ current_data' \in [End -> Nat]
         /\ state' \in [End -> {"RD", "RA", "WT"}]
         /\ Head(write_q[e]) \in Nat \ {0}
<1>1. write_q[e] \in Seq(Nat \ {0}) /\ write_q[e] # <<>>
  BY DEF TypeOK, TakeAndSend
<1>2. Head(write_q[e]) \in Nat \ {0} /\ Tail(write_q[e]) \in Seq(Nat \ {0})
  BY <1>1, HeadTailProperties
<1>3. NetType(net')
  BY <1>2, PeerFacts, DatagramTypes, SendProperties DEF TakeAndSend
<1> QED
  BY <1>2, <1>3 DEF TypeOK, TakeAndSend

LEMMA SendLivenessType ==
  ASSUME TypeOK, NEW e \in End, NEW n, NetType(n), SendLiveness(e, n)
  PROVE  /\ NetType(net')
         /\ UNCHANGED <<state, current_data, write_q>>
BY PeerFacts, DatagramTypes, SendProperties DEF SendLiveness

\* Every step keeps every variable in its type; in particular the payloads
\* handed to the application are items (SliceProtocol.py:97-98).
THEOREM TypeCorrect == Spec => []TypeOK
<1>1. Init => TypeOK
  <2> SUFFICES ASSUME Init PROVE TypeOK
    OBVIOUS
  <2>1. offer \in BOOLEAN
    BY DEF Init
  <2>2. <<>> \in Seq(Nat \ {0}) /\ <<>> \in Seq(Datagram)
    OBVIOUS
  <2>3. state \in [End -> {"RD", "RA", "WT"}]
    BY DEF Init
  <2> QED
    BY <2>1, <2>2, <2>3 DEF Init, TypeOK, None
<1>2. TypeOK /\ [Next]_vars => TypeOK'
  <2> SUFFICES ASSUME TypeOK, [Next]_vars PROVE TypeOK'
    OBVIOUS
  <2>0. NetType(net)
    BY DEF TypeOK, NetType
  <2> DEFINE FreshType == /\ link_state' \in [End -> {"connected", "disconnected"}]
                          /\ state' \in [End -> {"RD", "RA", "WT"}]
                          /\ current_data' \in [End -> Nat]
                          /\ sessions' \in [End -> Nat]
  <2>f. ASSUME NEW e \in End, Fresh(e) PROVE FreshType
    BY <2>f DEF TypeOK, Fresh, None
  <2>1. CASE ServerConnects
    <3>1. FreshType
      BY <2>1, <2>f DEF ServerConnects, End
    <3>2. offer' \in BOOLEAN
      BY <2>1 DEF ServerConnects
    <3> QED
      BY <2>1, <3>1, <3>2 DEF TypeOK, ServerConnects
  <2>2. CASE ClientConnects
    <3>1. FreshType
      BY <2>2, <2>f DEF ClientConnects, End
    <3>2. offer' \in BOOLEAN
      BY <2>2 DEF ClientConnects
    <3> QED
      BY <2>2, <3>1, <3>2 DEF TypeOK, ClientConnects
  <2>3. CASE LoseOffer
    BY <2>3 DEF TypeOK, LoseOffer
  <2>4. ASSUME NEW e \in End, Disconnects(e) PROVE TypeOK'
    BY <2>4 DEF TypeOK, Disconnects
  <2>5. ASSUME NEW e \in End, Write(e) PROVE TypeOK'
    BY <2>5 DEF TypeOK, Write, protocol
  <2>6. ASSUME NEW e \in End, ProcessSend(e) PROVE TypeOK'
    <3>1. CASE TakeAndSend(e, net)
      BY <2>0, <2>6, <3>1, TakeAndSendType DEF TypeOK, ProcessSend, NetType
    <3>2. CASE SendLiveness(e, net)
      BY <2>0, <2>6, <3>2, SendLivenessType DEF TypeOK, ProcessSend, NetType
    <3> QED
      BY <2>6, <3>1, <3>2 DEF ProcessSend
  <2>7. ASSUME NEW e \in End, Receive(e) PROVE TypeOK'
    <3>1. PICK i \in Arrivals(e) :
            HandleData(e, i) \/ HandleAck(e, i) \/ HandleLiveness(e, i)
      BY <2>7 DEF Receive
    <3>2. i \in DOMAIN net[e] /\ net[e][i] \in Datagram
      <4>1. i \in DOMAIN net[e] /\ net[e] \in Seq(Datagram)
        BY <3>1 DEF Arrivals, TypeOK
      <4> QED
        BY <4>1
    <3>3. NetType(Consumed(e, i))
      BY <2>0, <3>2, ConsumedProperties
    <3>4. NetType(Send(Consumed(e, i), Peer(e), Ack))
      BY <3>3, PeerFacts, DatagramTypes, SendProperties
    <3>5. CASE HandleData(e, i)
      <4>1. net[e][i].item \in Nat \ {0}
        BY <3>2, <3>5 DEF HandleData, Datagram
      <4>2. read_q' \in [End -> Seq(Nat \ {0})]
        <5>1. read_q \in [End -> Seq(Nat \ {0})]
          BY DEF TypeOK
        <5>2. Append(read_q[e], net[e][i].item) \in Seq(Nat \ {0})
          BY <4>1, <5>1
        <5>3. read_q' = read_q \/ read_q' = [read_q EXCEPT ![e] = Append(@, net[e][i].item)]
          BY <3>5 DEF HandleData
        <5> QED
          BY <5>1, <5>2, <5>3
      <4>3. net' \in [End -> Seq(Datagram)] /\ state' \in [End -> {"RD", "RA", "WT"}]
        <5>1. CASE state[e] = "WT"
          BY <3>4, <3>5, <5>1 DEF TypeOK, HandleData, NetType
        <5>2. CASE state[e] # "WT"
          BY <3>3, <3>5, <5>2 DEF TypeOK, HandleData, NetType
        <5> QED
          BY <5>1, <5>2
      <4> QED
        BY <2>7, <3>5, <4>2, <4>3 DEF TypeOK, Receive, HandleData
    <3>6. CASE HandleAck(e, i)
      <4>1. net' \in [End -> Seq(Datagram)]
        <5>1. CASE state[e] = "RA"
          BY <3>4, <3>6, <5>1 DEF HandleAck, NetType
        <5>2. CASE state[e] # "RA"
          BY <3>3, <3>6, <5>2 DEF HandleAck, NetType
        <5> QED
          BY <5>1, <5>2
      <4>2. /\ state' \in [End -> {"RD", "RA", "WT"}]
            /\ current_data' \in [End -> Nat]
        <5>1. \/ UNCHANGED <<state, current_data>>
              \/ /\ state' = [state EXCEPT ![e] = "WT"]
                 /\ current_data' = [current_data EXCEPT ![e] = None]
          <6>1. CASE state[e] = "RA"
            BY ONLY <3>6, <6>1 DEF HandleAck
          <6>2. CASE state[e] # "RA"
            BY ONLY <3>6, <6>2 DEF HandleAck
          <6> QED
            BY <6>1, <6>2
        <5>2. state \in [End -> {"RD", "RA", "WT"}] /\ current_data \in [End -> Nat]
          BY DEF TypeOK
        <5>3. None \in Nat
          BY DEF None
        <5> QED
          BY <5>1, <5>2, <5>3
      <4> QED
        BY <2>7, <3>6, <4>1, <4>2 DEF TypeOK, Receive, HandleAck
    <3>7. CASE HandleLiveness(e, i)
      <4>1. CASE state[e] = "RD" /\ TakeAndSend(e, Consumed(e, i))
        BY <2>7, <3>3, <3>7, <4>1, TakeAndSendType
           DEF TypeOK, Receive, HandleLiveness, NetType
      <4>2. CASE state[e] = "RD" /\ SendLiveness(e, Consumed(e, i))
        BY <2>7, <3>3, <3>7, <4>2, SendLivenessType
           DEF TypeOK, Receive, HandleLiveness, NetType
      <4>3. CASE state[e] # "RD"
        BY <2>7, <3>3, <3>7, <4>3 DEF TypeOK, Receive, HandleLiveness, NetType
      <4> QED
        BY <3>7, <4>1, <4>2, <4>3 DEF HandleLiveness
    <3> QED
      BY <3>1, <3>5, <3>6, <3>7
  <2>8. ASSUME NEW e \in End, Lose(e) PROVE TypeOK'
    BY <2>0, <2>8, ConsumedProperties DEF TypeOK, Lose, protocol, NetType
  <2>9. CASE UNCHANGED vars
    BY <2>9 DEF TypeOK, vars
  <2> QED
    BY <2>1, <2>2, <2>3, <2>4, <2>5, <2>6, <2>7, <2>8, <2>9 DEF Next
<1> QED
  BY <1>1, <1>2, PTL DEF Spec
-----------------------------------------------------------------------------
(* The inductive invariant.                                                *)

\* The queues to ends without a session are empty.
Quiet(n) == \A e \in End : ~Connected(e) => n[e] = <<>>

\* At most one DATA datagram is under way, and none while an end has its turn.
Single(n) ==
  \A e, f \in End : \A i \in DataIn(n, e), j \in DataIn(n, f) : e = f /\ i = j
Exclusive(n) == \A e, f \in End : HasTurn(e) => DataIn(n, f) = {}

\* What is under way is the last item its sender took, and its receiver has
\* seen only earlier ones.
Newest(n) ==
  \A e \in End : \A i \in DataIn(n, e) :
    /\ n[e][i].item = Taken(Peer(e))
    /\ \A k \in DOMAIN read_q[e] : read_q[e][k] < Taken(Peer(e))

\* A YESIAM under way finds a server that has not had the turn yet.
Awaited(n) ==
  offer => ~Connected("client") /\ ~HasTurn("server") /\ DataIn(n, "server") = {}

NetOK(n) == NetType(n) /\ Quiet(n) /\ Single(n) /\ Exclusive(n) /\ Newest(n) /\ Awaited(n)

OneTurn == \A e, f \in End : HasTurn(e) /\ HasTurn(f) => e = f

\* write_q holds the items after the last one taken.
Numbered ==
  \A e \in End : /\ Taken(e) \in Nat
                 /\ \A i \in DOMAIN write_q[e] : write_q[e][i] = Taken(e) + i

\* Each session of the client brings one token, which is with an end, or
\* stands for the item under way or lost.
Turns == IF \E e \in End : HasTurn(e) THEN 1 ELSE 0
Budget == Missing("client") + Missing("server") + Turns <= sessions["client"]

IInv == NetOK(net) /\ OneTurn /\ Numbered /\ InOrder /\ Budget

\* Consuming a datagram keeps the network part of the invariant; consuming
\* the DATA datagram leaves none.
LEMMA ConsumedOK ==
  ASSUME NetOK(net), NEW e \in End, NEW i \in DOMAIN net[e]
  PROVE  /\ NetOK(Consumed(e, i))
         /\ i \in DataIn(net, e) => \A f \in End : DataIn(Consumed(e, i), f) = {}
<1> DEFINE c == Consumed(e, i)
<1>1. NetType(net) /\ NetType(c)
  BY ConsumedProperties DEF NetOK
<1>2. \A f \in End : \A j \in DataIn(c, f) :
         \E k \in DataIn(net, f) :
           /\ c[f][j] = net[f][k]
           /\ f = e => (j < i /\ k = j) \/ (j >= i /\ k = j + 1)
           /\ f # e => k = j
  BY <1>1, ConsumedData
<1>3. \A f \in End : DataIn(c, f) \subseteq Nat
  BY <1>1 DEF DataIn, NetType
<1>4. i \in Nat
  BY <1>1 DEF NetType
<1>5. Quiet(c)
  BY <1>1, ConsumedProperties DEF NetOK, Quiet
<1> HIDE DEF c
<1>6. Single(c)
  BY <1>2, <1>3, <1>4 DEF NetOK, Single
<1>7. Exclusive(c)
  BY <1>2 DEF NetOK, Exclusive
<1>8. Newest(c)
  BY <1>2 DEF NetOK, Newest
<1>9. Awaited(c)
  BY <1>2 DEF NetOK, Awaited, End
<1>10. ASSUME i \in DataIn(net, e), NEW f \in End, NEW j \in DataIn(c, f)
       PROVE  FALSE
  <2>1. PICK k \in DataIn(net, f) :
          /\ f = e => (j < i /\ k = j) \/ (j >= i /\ k = j + 1)
          /\ f # e => k = j
    BY <1>2
  <2>2. f = e /\ k = i
    BY <1>10, <2>1 DEF NetOK, Single
  <2>3. j \in Nat
    BY <1>3
  <2> QED
    BY <1>4, <2>1, <2>2, <2>3
<1> QED
  BY <1>1, <1>5, <1>6, <1>7, <1>8, <1>9, <1>10 DEF NetOK, c

\* So does sending an ACK or a LIVENESS.
LEMMA SendOtherOK ==
  ASSUME NEW n, NetOK(n), NEW to \in End, NEW m \in Datagram, m.kind # "DATA"
  PROVE  /\ NetOK(Send(n, to, m))
         /\ \A f \in End : DataIn(Send(n, to, m), f) = DataIn(n, f)
<1> DEFINE c == Send(n, to, m)
<1>1. NetType(n) /\ NetType(c)
  BY SendProperties DEF NetOK
<1>2. \A f \in End : /\ DataIn(c, f) = DataIn(n, f)
                     /\ \A j \in DataIn(n, f) : c[f][j] = n[f][j]
  BY <1>1, SendOther
<1>3. Quiet(c)
  BY <1>1, SendProperties DEF NetOK, Quiet
<1> HIDE DEF c
<1>4. Single(c) /\ Exclusive(c) /\ Awaited(c)
  BY <1>2 DEF NetOK, Single, Exclusive, Awaited, End
<1>5. Newest(c)
  BY <1>2 DEF NetOK, Newest
<1> QED
  BY <1>1, <1>2, <1>3, <1>4, <1>5 DEF NetOK, c

\* A step that changes at most the network, and keeps the invariant there and
\* the turns, keeps the whole invariant.
LEMMA NetStep ==
  ASSUME IInv, NEW n, NetOK(n), net' = n,
         UNCHANGED <<link_state, write_q, read_q, written, sessions, offer>>,
         \A f \in End : HasTurn(f)' = HasTurn(f)
  PROVE  IInv'
<1>1. \A f \in End : Taken(f)' = Taken(f) /\ Missing(f)' = Missing(f)
  BY DEF Taken, Missing
<1>2. \A f \in End : Connected(f)' = Connected(f)
  BY DEF Connected
<1>3. NetType(net)'
  BY DEF NetOK, NetType
<1>4. \A f \in End : DataIn(net, f)' = DataIn(n, f)
  BY DEF DataIn
<1>5. Quiet(net)' /\ Single(net)' /\ Exclusive(net)'
  BY <1>2, <1>4 DEF NetOK, Quiet, Single, Exclusive
<1>6. Newest(net)'
  BY <1>1, <1>4, PeerFacts DEF NetOK, Newest
<1>7. Awaited(net)'
  BY <1>2, <1>4 DEF NetOK, Awaited, End
<1>8. OneTurn' /\ Turns' = Turns
  BY DEF IInv, OneTurn, Turns
<1>9. Numbered'
  BY <1>1 DEF IInv, Numbered
<1>10. InOrder'
  BY <1>1 DEF IInv, InOrder
<1>11. Budget'
  BY <1>1, <1>8 DEF IInv, Budget, End
<1> QED
  BY <1>3, <1>5, <1>6, <1>7, <1>8, <1>9, <1>10, <1>11 DEF IInv, NetOK

LEMMA MissingType ==
  ASSUME TypeOK, IInv
  PROVE  Missing("client") \in Int /\ Missing("server") \in Int
<1>1. \A e \in End : Taken(e) \in Nat /\ Len(read_q[e]) \in Nat
  BY DEF TypeOK, IInv, Numbered
<1>2. "client" \in End /\ "server" \in End
  BY DEF End
<1> QED
  BY <1>1, <1>2, PeerFacts DEF Missing

\* Taking an item turns the token into the only DATA datagram, or into an
\* item lost at once if there is no peer.
LEMMA TakeStep ==
  ASSUME TypeOK, IInv, NEW e \in End, HasTurn(e), NEW n, NetOK(n),
         \A f \in End : DataIn(n, f) = {}, TakeAndSend(e, n),
         UNCHANGED <<link_state, read_q, written, sessions, offer>>
  PROVE  IInv'
<1> DEFINE d == Head(write_q[e])
           p == Peer(e)
<1>1. /\ write_q[e] \in Seq(Nat \ {0}) /\ write_q[e] # <<>>
      /\ d \in Nat \ {0} /\ d = write_q[e][1] /\ 1 \in DOMAIN write_q[e]
      /\ Tail(write_q[e]) \in Seq(Nat \ {0})
      /\ Len(Tail(write_q[e])) = Len(write_q[e]) - 1
      /\ \A k \in 1..(Len(write_q[e]) - 1) : Tail(write_q[e])[k] = write_q[e][k + 1]
  <2>1. write_q[e] \in Seq(Nat \ {0}) /\ write_q[e] # <<>>
    BY DEF TypeOK, TakeAndSend
  <2> QED
    BY <2>1, HeadTailProperties
<1>2. p \in End /\ p # e /\ Peer(p) = e /\ (\A f \in End : f = e \/ f = p)
  BY PeerFacts DEF End
<1>3. /\ write_q' = [write_q EXCEPT ![e] = Tail(@)]
      /\ net' = Send(n, p, Data(d))
      /\ state' = [state EXCEPT ![e] = "RA"]
  BY DEF TakeAndSend
<1>4. /\ write_q \in [End -> Seq(Nat \ {0})] /\ written \in [End -> Nat]
      /\ read_q \in [End -> Seq(Nat \ {0})] /\ sessions \in [End -> Nat]
      /\ state \in [End -> {"RD", "RA", "WT"}]
  BY DEF TypeOK
<1>5. Data(d) \in Datagram /\ Data(d).item = d
  BY <1>1, DatagramTypes
<1> HIDE DEF d, p
<1>6. d = Taken(e) + 1
  BY <1>1 DEF IInv, Numbered
<1>7. /\ Taken(e) \in Nat /\ Taken(p) \in Nat
      /\ Taken(e)' = Taken(e) + 1 /\ Taken(p)' = Taken(p)
      /\ Missing(e)' = Missing(e) + 1 /\ Missing(p)' = Missing(p)
  <2>1. Taken(e) \in Nat /\ Taken(p) \in Nat
    BY <1>2 DEF IInv, Numbered
  <2>2. write_q'[e] = Tail(write_q[e]) /\ write_q'[p] = write_q[p]
    BY <1>2, <1>3, <1>4
  <2>3. Len(write_q'[e]) = Len(write_q[e]) - 1 /\ Len(write_q[e]) \in Nat
    BY <1>1, <2>2
  <2>4. Taken(e)' = Taken(e) + 1 /\ Taken(p)' = Taken(p)
    <3>1. written' = written /\ written[e] \in Nat
      BY <1>4
    <3>2. Taken(e)' = written[e] - Len(write_q'[e])
      BY <3>1 DEF Taken
    <3>3. Taken(p)' = Taken(p)
      BY <2>2, <3>1 DEF Taken
    <3> QED
      BY <2>3, <3>1, <3>2, <3>3 DEF Taken
  <2>5. Len(read_q[e]) \in Nat /\ Len(read_q[p]) \in Nat
    BY <1>2, <1>4
  <2> QED
    BY <1>2, <2>1, <2>4, <2>5 DEF Missing
<1>8. \A f \in End : ~HasTurn(f)' /\ Connected(f)' = Connected(f)
  <2>1. \A f \in End : HasTurn(f) => f = e
    BY DEF IInv, OneTurn
  <2>2. \A f \in End : f # e => state'[f] = state[f]
    BY <1>3, <1>4
  <2>3. state'[e] # "RD"
    BY <1>3, <1>4
  <2> QED
    BY <2>1, <2>2, <2>3 DEF HasTurn, Connected
<1>9. NetType(net') /\ NetType(n) /\ net'[e] = n[e]
  BY <1>2, <1>3, <1>5, SendProperties DEF NetOK
<1>10. Quiet(net)'
  BY <1>2, <1>3, <1>5, <1>8, <1>9, SendProperties DEF NetOK, Quiet
<1>11. \A f \in End : \A i \in DataIn(net', f) :
          f = p /\ i = Len(n[p]) + 1 /\ net'[f][i].item = d
  <2> TAKE f \in End
  <2> TAKE i \in DataIn(net', f)
  <2>1. i \in DOMAIN net'[f] /\ net'[f][i].kind = "DATA" /\ n[f] \in Seq(Datagram)
        /\ net'[f] \in Seq(Datagram)
    BY <1>9 DEF DataIn, NetType
  <2>2. i \in DOMAIN n[f] => n[f][i].kind # "DATA"
    BY DEF DataIn
  <2>3. CASE net'[f] = n[f]
    BY <2>1, <2>2, <2>3
  <2>4. CASE f = p /\ Connected(p)
    <3>1. /\ Len(net'[f]) = Len(n[f]) + 1
          /\ \A j \in 1..Len(n[f]) : net'[f][j] = n[f][j]
          /\ net'[f][Len(n[f]) + 1] = Data(d)
      BY <1>3, <1>5, <1>9, <2>4, SendProperties
    <3>2. i \in 1..(Len(n[f]) + 1)
      BY <2>1, <3>1
    <3>3. i = Len(n[f]) + 1
      BY <2>1, <2>2, <3>1, <3>2
    <3> QED
      BY <1>5, <2>4, <3>1, <3>3
  <2> QED
    BY <1>2, <1>3, <1>5, <1>9, <2>3, <2>4, SendProperties
<1>12. Single(net)' /\ Exclusive(net)'
  <2>1. Single(net')
    BY <1>11 DEF Single
  <2> QED
    BY <1>8, <2>1 DEF Single, Exclusive, DataIn
<1>13. \A k \in DOMAIN read_q[p] : read_q[p][k] <= Taken(e) /\ read_q[p][k] \in Nat
  <2>1. \A k \in DOMAIN read_q[p] : read_q[p][k] \in 1..Taken(e)
    BY <1>2 DEF IInv, InOrder, p
  <2> QED
    BY <1>7, <2>1
<1>14. Newest(net)'
  <2>1. \A f \in End : \A i \in DataIn(net', f) :
           /\ net'[f][i].item = Taken(Peer(f))'
           /\ \A k \in DOMAIN read_q'[f] : read_q'[f][k] < Taken(Peer(f))'
    <3> TAKE f \in End
    <3> TAKE i \in DataIn(net', f)
    <3>1. f = p /\ net'[f][i].item = d
      BY <1>11
    <3>2. Taken(Peer(f))' = Taken(e) + 1
      BY <1>2, <1>7, <3>1
    <3> QED
      BY <1>6, <1>7, <1>13, <3>1, <3>2
  <2> QED
    BY <2>1 DEF Newest, DataIn
<1>15. Awaited(net)'
  <2>1. offer => ~Connected("client") /\ ~HasTurn("server")
    BY DEF NetOK, Awaited
  <2>2. ~offer
    BY <2>1 DEF HasTurn, End
  <2> QED
    BY <2>2 DEF Awaited
<1>16. OneTurn' /\ Turns' = 0 /\ Turns = 1
  BY <1>8 DEF OneTurn, Turns
<1>17. Numbered'
  <2>1. \A i \in DOMAIN write_q'[e] : write_q'[e][i] = Taken(e)' + i
    <3>1. \A i \in 1..(Len(write_q[e]) - 1) :
             i + 1 \in DOMAIN write_q[e] /\ write_q'[e][i] = write_q[e][i + 1]
      BY <1>1, <1>3, <1>4
    <3>2. \A i \in DOMAIN write_q[e] : write_q[e][i] = Taken(e) + i
      BY DEF IInv, Numbered
    <3>3. DOMAIN write_q'[e] = 1..(Len(write_q[e]) - 1)
      BY <1>1, <1>3, <1>4
    <3> QED
      <4> TAKE i \in DOMAIN write_q'[e]
      <4>1. i \in 1..(Len(write_q[e]) - 1) /\ i + 1 \in DOMAIN write_q[e] /\ i \in Nat
        BY <1>1, <3>1, <3>3
      <4>2. write_q'[e][i] = write_q[e][i + 1]
        BY <3>1, <4>1
      <4>3. write_q[e][i + 1] = Taken(e) + (i + 1)
        BY <3>2, <4>1
      <4> QED
        BY <1>7, <4>1, <4>2, <4>3
  <2>2. \A i \in DOMAIN write_q'[p] : write_q'[p][i] = Taken(p)' + i
    BY <1>2, <1>3, <1>4, <1>7 DEF IInv, Numbered
  <2> QED
    BY <1>2, <1>7, <2>1, <2>2 DEF Numbered
<1>18. InOrder'
  <2>1. \A f \in End : Taken(f) \in Nat /\ Taken(f)' \in Nat /\ Taken(f) <= Taken(f)'
    BY <1>2, <1>7
  <2>2. \A f \in End : \A k \in DOMAIN read_q[Peer(f)] : read_q[Peer(f)][k] \in 1..Taken(f)'
    BY <2>1 DEF IInv, InOrder
  <2> QED
    BY <2>2 DEF IInv, InOrder
<1>19. Budget'
  <2>1. Missing("client")' + Missing("server")' = Missing("client") + Missing("server") + 1
    <3>1. Missing("client") \in Int /\ Missing("server") \in Int
      BY MissingType
    <3> QED
      BY <1>2, <1>7, <3>1 DEF End, p, Peer
  <2>2. Missing("client") \in Int /\ Missing("server") \in Int
    BY MissingType
  <2> QED
    BY <1>4, <1>16, <2>1, <2>2 DEF IInv, Budget, End
<1> QED
  BY <1>9, <1>10, <1>12, <1>14, <1>15, <1>16, <1>17, <1>18, <1>19
     DEF IInv, NetOK, NetType

\* Without DATA under way, the network part is about sessions and types only.
LEMMA NoData ==
  ASSUME NetType(net'), Quiet(net)', \A f \in End : DataIn(net', f) = {},
         offer' => ~Connected("client")' /\ ~HasTurn("server")'
  PROVE  NetOK(net)'
<1>1. \A f \in End : DataIn(net, f)' = {}
  BY DEF DataIn
<1>2. Single(net)' /\ Exclusive(net)' /\ Newest(net)' /\ Awaited(net)'
  BY <1>1 DEF Single, Exclusive, Newest, Awaited, End
<1> QED
  BY <1>2 DEF NetOK, NetType

\* Accepting the DATA datagram turns it into the receiver's token.
LEMMA DeliverStep ==
  ASSUME TypeOK, IInv, NEW e \in End, Connected(e), NEW i \in DataIn(net, e),
         read_q' = [read_q EXCEPT ![e] = Append(@, net[e][i].item)],
         net' = Send(Consumed(e, i), Peer(e), Ack),
         state' = [state EXCEPT ![e] = "RD"],
         UNCHANGED <<link_state, write_q, written, sessions, offer>>
  PROVE  IInv'
<1> DEFINE d == net[e][i].item
           p == Peer(e)
           c == Consumed(e, i)
<1>1. p \in End /\ p # e /\ Peer(p) = e /\ (\A f \in End : f = e \/ f = p)
  BY PeerFacts DEF End
<1>2. NetType(net) /\ i \in DOMAIN net[e] /\ net[e] \in Seq(Datagram)
  BY DEF IInv, NetOK, NetType, DataIn
<1>3. NetOK(c) /\ (\A f \in End : DataIn(c, f) = {})
  BY <1>2, ConsumedOK DEF IInv
<1>4. NetOK(net') /\ (\A f \in End : DataIn(net', f) = {})
  BY <1>1, <1>3, SendOtherOK, DatagramTypes
<1>5. /\ write_q \in [End -> Seq(Nat \ {0})] /\ written \in [End -> Nat]
      /\ read_q \in [End -> Seq(Nat \ {0})] /\ sessions \in [End -> Nat]
      /\ state \in [End -> {"RD", "RA", "WT"}]
  BY DEF TypeOK
<1>6. d \in Nat \ {0}
  <2>1. net[e][i] \in Datagram /\ net[e][i].kind = "DATA"
    BY <1>2 DEF DataIn
  <2> QED
    BY <2>1 DEF Datagram
<1>7. d = Taken(p) /\ (\A k \in DOMAIN read_q[e] : read_q[e][k] < d)
  BY DEF IInv, NetOK, Newest
<1> HIDE DEF d, p, c
<1>8. read_q'[e] = Append(read_q[e], d) /\ read_q'[p] = read_q[p]
  BY <1>1, <1>5 DEF d
<1>9. \A f \in End : Taken(f)' = Taken(f) /\ Taken(f) \in Nat
  BY DEF Taken, IInv, Numbered
<1>10. Missing(p)' = Missing(p) - 1 /\ Missing(e)' = Missing(e)
  <2>1. Len(read_q'[e]) = Len(read_q[e]) + 1 /\ Len(read_q[e]) \in Nat
    BY <1>5, <1>6, <1>8
  <2>2. Missing(p)' = Taken(p) - Len(read_q'[e]) /\ Missing(p) = Taken(p) - Len(read_q[e])
    BY <1>1, <1>9 DEF Missing
  <2>3. Missing(e)' = Taken(e) - Len(read_q'[p]) /\ Missing(e) = Taken(e) - Len(read_q[p])
    BY <1>1, <1>9 DEF Missing, p
  <2> QED
    BY <1>1, <1>8, <1>9, <2>1, <2>2, <2>3
<1>11. \A f \in End : ~HasTurn(f)
  BY DEF IInv, NetOK, Exclusive
<1>12. \A f \in End : Connected(f)' = Connected(f)
  BY DEF Connected
<1>13. HasTurn(e)' /\ ~HasTurn(p)'
  BY <1>1, <1>5, <1>11, <1>12 DEF HasTurn
<1>14. OneTurn' /\ Turns' = 1 /\ Turns = 0
  BY <1>1, <1>11, <1>13 DEF OneTurn, Turns
<1>15. NetOK(net)'
  <2>1. NetType(net')
    BY <1>4 DEF NetOK
  <2>2. Quiet(net)'
    BY <1>4, <1>12 DEF NetOK, Quiet
  <2>3. offer' => ~Connected("client")' /\ ~HasTurn("server")'
    <3>1. offer => ~Connected("client") /\ DataIn(net, "server") = {}
      BY DEF IInv, NetOK, Awaited
    <3>2. ~offer
      BY <3>1 DEF End
    <3> QED
      BY <3>2
  <2> QED
    BY <1>4, <2>1, <2>2, <2>3, NoData
<1>16. Numbered'
  BY <1>9 DEF IInv, Numbered
<1>17. InOrder'
  <2>1. /\ \A k \in DOMAIN read_q[e] : read_q[e][k] \in 1..Taken(p)
        /\ \A k, l \in DOMAIN read_q[e] : k < l => read_q[e][k] < read_q[e][l]
    BY <1>1 DEF IInv, InOrder, p
  <2>2. /\ DOMAIN read_q'[e] = 1..(Len(read_q[e]) + 1) /\ Len(read_q[e]) \in Nat
        /\ DOMAIN read_q[e] = 1..Len(read_q[e])
        /\ read_q'[e][Len(read_q[e]) + 1] = d
        /\ \A k \in DOMAIN read_q[e] : read_q'[e][k] = read_q[e][k]
    BY <1>5, <1>6, <1>8
  <2>3. \A k \in DOMAIN read_q'[e] :
           \/ k \in DOMAIN read_q[e] /\ read_q'[e][k] = read_q[e][k]
           \/ k = Len(read_q[e]) + 1 /\ read_q'[e][k] = d
    BY <2>2
  <2>4. d \in 1..Taken(p)
    BY <1>1, <1>6, <1>7, <1>9
  <2>5. \A k \in DOMAIN read_q'[e] : read_q'[e][k] \in 1..Taken(p)'
    BY <1>1, <1>9, <2>1, <2>3, <2>4
  <2>6. \A k, l \in DOMAIN read_q'[e] : k < l => read_q'[e][k] < read_q'[e][l]
    <3> TAKE k, l \in DOMAIN read_q'[e]
    <3> HAVE k < l
    <3>1. k \in DOMAIN read_q[e] /\ read_q'[e][k] = read_q[e][k]
      BY <2>2, <2>3
    <3>2. CASE l \in DOMAIN read_q[e] /\ read_q'[e][l] = read_q[e][l]
      BY <2>1, <3>1, <3>2
    <3>3. CASE read_q'[e][l] = d
      BY <1>7, <3>1, <3>3
    <3> QED
      BY <2>3, <3>2, <3>3
  <2>7. /\ \A k \in DOMAIN read_q'[p] : read_q'[p][k] \in 1..Taken(e)'
        /\ \A k, l \in DOMAIN read_q'[p] : k < l => read_q'[p][k] < read_q'[p][l]
    BY <1>8, <1>9 DEF IInv, InOrder, p
  <2>8. Peer(e) = p
    BY DEF p
  <2> QED
    BY <1>1, <2>5, <2>6, <2>7, <2>8 DEF InOrder
<1>18. Budget'
  <2>1. Missing("client")' + Missing("server")' = Missing("client") + Missing("server") - 1
    <3>1. CASE e = "client" /\ p = "server"
      BY <1>10, <3>1, MissingType
    <3>2. CASE e = "server" /\ p = "client"
      BY <1>10, <3>2, MissingType
    <3> QED
      BY <1>1, <3>1, <3>2 DEF End
  <2>2. sessions["client"] \in Nat /\ sessions' = sessions
    BY <1>5 DEF End
  <2> QED
    BY <1>14, <2>1, <2>2, MissingType DEF IInv, Budget
<1> QED
  BY <1>14, <1>15, <1>16, <1>17, <1>18 DEF IInv

\* Steps that take and deliver nothing.
LEMMA SameItems ==
  ASSUME IInv, \A f \in End : Taken(f)' = Taken(f), UNCHANGED read_q
  PROVE  InOrder' /\ (\A f \in End : Missing(f)' = Missing(f))
BY DEF IInv, InOrder, Missing

LEMMA ServerConnectsStep == TypeOK /\ IInv /\ ServerConnects => IInv'
<1> SUFFICES ASSUME TypeOK, IInv, ServerConnects PROVE IInv'
  OBVIOUS
<1>1. /\ ~Connected("server") /\ net["server"] = <<>> /\ "server" \in End /\ "client" \in End
      /\ \A f \in End : f = "client" \/ f = "server"
  BY DEF ServerConnects, IInv, NetOK, Quiet, End
<1>2. /\ link_state' = [link_state EXCEPT !["server"] = "connected"]
      /\ state' = [state EXCEPT !["server"] = "WT"]
      /\ sessions' = [sessions EXCEPT !["server"] = @ + 1]
      /\ UNCHANGED <<write_q, read_q, net, written>>
      /\ offer' = ~Connected("client")
  BY DEF ServerConnects, Fresh
<1>3. /\ link_state \in [End -> {"connected", "disconnected"}]
      /\ state \in [End -> {"RD", "RA", "WT"}] /\ sessions \in [End -> Nat]
  BY DEF TypeOK
<1>4. /\ Connected("client")' = Connected("client") /\ Connected("server")'
      /\ HasTurn("client")' = HasTurn("client")
      /\ ~HasTurn("server")' /\ ~HasTurn("server")
      /\ sessions'["client"] = sessions["client"]
  BY <1>1, <1>2, <1>3 DEF Connected, HasTurn
<1>5. \A f \in End : Taken(f)' = Taken(f) /\ DataIn(net, f)' = DataIn(net, f)
  BY <1>2 DEF Taken, DataIn
<1>6. DataIn(net, "server") = {}
  BY <1>1 DEF DataIn
<1>7. NetOK(net)'
  <2>1. Quiet(net)'
    BY <1>1, <1>2, <1>4 DEF IInv, NetOK, Quiet
  <2>2. Single(net)' /\ Exclusive(net)'
    BY <1>1, <1>2, <1>4, <1>5 DEF IInv, NetOK, Single, Exclusive
  <2>3. Newest(net)'
    BY <1>2, <1>5, PeerFacts DEF IInv, NetOK, Newest
  <2>4. Awaited(net)'
    BY <1>2, <1>4, <1>5, <1>6 DEF Awaited
  <2> QED
    BY <1>2, <2>1, <2>2, <2>3, <2>4 DEF IInv, NetOK, NetType
<1>8. OneTurn' /\ Turns' = Turns
  BY <1>1, <1>4 DEF IInv, OneTurn, Turns
<1>9. Numbered' /\ InOrder' /\ Budget'
  BY <1>1, <1>2, <1>4, <1>5, <1>8, SameItems DEF IInv, Numbered, Budget
<1> QED
  BY <1>7, <1>8, <1>9 DEF IInv

LEMMA ClientConnectsStep == TypeOK /\ IInv /\ ClientConnects => IInv'
<1> SUFFICES ASSUME TypeOK, IInv, ClientConnects PROVE IInv'
  OBVIOUS
<1>1. /\ "server" \in End /\ "client" \in End
      /\ \A f \in End : f = "client" \/ f = "server"
  BY DEF End
<1>2. /\ link_state' = [link_state EXCEPT !["client"] = "connected"]
      /\ state' = [state EXCEPT !["client"] = "RD"]
      /\ sessions' = [sessions EXCEPT !["client"] = @ + 1]
      /\ UNCHANGED <<write_q, read_q, net, written>>
      /\ ~Connected("client") /\ offer /\ ~offer'
  BY DEF ClientConnects, Fresh
<1>3. /\ link_state \in [End -> {"connected", "disconnected"}]
      /\ state \in [End -> {"RD", "RA", "WT"}] /\ sessions \in [End -> Nat]
  BY DEF TypeOK
<1>4. /\ Connected("server")' = Connected("server") /\ Connected("client")'
      /\ HasTurn("client")' /\ ~HasTurn("client")
      /\ HasTurn("server")' = HasTurn("server")
      /\ sessions'["client"] = sessions["client"] + 1 /\ sessions["client"] \in Nat
  BY <1>1, <1>2, <1>3 DEF Connected, HasTurn
<1>5. \A f \in End : Taken(f)' = Taken(f) /\ DataIn(net, f)' = DataIn(net, f)
  BY <1>2 DEF Taken, DataIn
<1>6. ~HasTurn("server") /\ DataIn(net, "server") = {}
  BY <1>2 DEF IInv, NetOK, Awaited
<1>7. net["client"] = <<>>
  BY <1>1, <1>2 DEF IInv, NetOK, Quiet
<1>8. DataIn(net, "client") = {}
  BY <1>7 DEF DataIn
<1>9. NetOK(net)'
  <2>1. Quiet(net)'
    BY <1>1, <1>2, <1>4 DEF IInv, NetOK, Quiet
  <2>2. Single(net)' /\ Exclusive(net)' /\ Newest(net)' /\ Awaited(net)'
    BY <1>1, <1>2, <1>5, <1>6, <1>8 DEF Single, Exclusive, Newest, Awaited
  <2> QED
    BY <1>2, <2>1, <2>2 DEF IInv, NetOK, NetType
<1>10. OneTurn' /\ Turns' = 1 /\ Turns = 0
  BY <1>1, <1>4, <1>6 DEF OneTurn, Turns
<1>11. Numbered' /\ InOrder'
  BY <1>2, <1>5, SameItems DEF IInv, Numbered
<1>12. Budget'
  <2>1. Missing("client")' = Missing("client") /\ Missing("server")' = Missing("server")
    BY <1>1, <1>2, <1>5, SameItems
  <2> QED
    BY <1>4, <1>10, <2>1, MissingType DEF IInv, Budget
<1> QED
  BY <1>9, <1>10, <1>11, <1>12 DEF IInv

LEMMA DisconnectsStep ==
  ASSUME TypeOK, IInv, NEW e \in End, Disconnects(e) PROVE IInv'
<1>1. /\ link_state' = [link_state EXCEPT ![e] = "disconnected"]
      /\ net' = [net EXCEPT ![e] = <<>>]
      /\ UNCHANGED <<state, write_q, read_q, written, sessions, offer>>
  BY DEF Disconnects
<1>2. link_state \in [End -> {"connected", "disconnected"}] /\ net \in [End -> Seq(Datagram)]
      /\ sessions \in [End -> Nat] /\ "client" \in End /\ "server" \in End
  BY DEF TypeOK, End
<1>3. \A f \in End : /\ HasTurn(f)' => HasTurn(f)
                     /\ Connected(f)' => Connected(f)
                     /\ f = e => ~Connected(f)' /\ net'[f] = <<>>
                     /\ f # e => Connected(f)' = Connected(f) /\ net'[f] = net[f]
  BY <1>1, <1>2 DEF HasTurn, Connected
<1>4. \A f \in End : /\ Taken(f)' = Taken(f)
                     /\ DataIn(net, f)' \subseteq DataIn(net, f)
                     /\ \A i \in DataIn(net, f)' : net'[f] = net[f]
  BY <1>1, <1>3 DEF Taken, DataIn
<1>5. NetOK(net)'
  <2>1. NetType(net)' /\ Quiet(net)'
    BY <1>1, <1>2, <1>3 DEF IInv, NetOK, NetType, Quiet
  <2>2. Single(net)'
    BY <1>4 DEF IInv, NetOK, Single
  <2>3. Exclusive(net)'
    BY <1>3, <1>4 DEF IInv, NetOK, Exclusive
  <2>4. Newest(net)'
    BY ZenonT(40), <1>1, <1>4, PeerFacts DEF IInv, NetOK, Newest
  <2>5. Awaited(net)'
    BY <1>1, <1>2, <1>3, <1>4 DEF IInv, NetOK, Awaited
  <2> QED
    BY <2>1, <2>2, <2>3, <2>4, <2>5 DEF NetOK
<1>6. OneTurn' /\ Turns' <= Turns /\ Turns \in 0..1 /\ Turns' \in 0..1
  BY <1>3 DEF IInv, OneTurn, Turns
<1>7. Numbered' /\ InOrder'
  BY <1>1, <1>4, SameItems DEF IInv, Numbered
<1>8. Budget'
  <2>1. Missing("client")' = Missing("client") /\ Missing("server")' = Missing("server")
    BY <1>1, <1>2, <1>4, SameItems
  <2>2. sessions'["client"] = sessions["client"] /\ sessions["client"] \in Nat
    BY <1>1, <1>2
  <2> QED
    BY <1>6, <2>1, <2>2, MissingType DEF IInv, Budget
<1> QED
  BY <1>5, <1>6, <1>7, <1>8 DEF IInv

LEMMA WriteStep ==
  ASSUME TypeOK, IInv, NEW e \in End, Write(e) PROVE IInv'
<1>1. /\ written' = [written EXCEPT ![e] = @ + 1]
      /\ write_q' = [write_q EXCEPT ![e] = Append(@, written[e] + 1)]
      /\ UNCHANGED <<link_state, state, offer, read_q, net, sessions>>
  BY DEF Write, protocol
<1>2. /\ written \in [End -> Nat] /\ write_q \in [End -> Seq(Nat \ {0})]
  BY DEF TypeOK
<1>3. \A f \in End : /\ HasTurn(f)' = HasTurn(f) /\ Connected(f)' = Connected(f)
                     /\ DataIn(net, f)' = DataIn(net, f)
  BY <1>1 DEF HasTurn, Connected, DataIn
<1>4. /\ write_q'[e] = Append(write_q[e], written[e] + 1) /\ written'[e] = written[e] + 1
      /\ \A f \in End : f # e => write_q'[f] = write_q[f] /\ written'[f] = written[f]
      /\ written[e] \in Nat /\ write_q[e] \in Seq(Nat \ {0}) /\ Len(write_q[e]) \in Nat
  BY <1>1, <1>2
<1>5. /\ Len(write_q'[e]) = Len(write_q[e]) + 1
      /\ DOMAIN write_q'[e] = 1..(Len(write_q[e]) + 1) /\ DOMAIN write_q[e] = 1..Len(write_q[e])
      /\ \A k \in 1..Len(write_q[e]) : write_q'[e][k] = write_q[e][k]
      /\ write_q'[e][Len(write_q[e]) + 1] = written[e] + 1
  BY <1>4
<1>6. \A f \in End : Taken(f)' = Taken(f)
  <2>1. Taken(e)' = Taken(e)
    <3>1. Taken(e)' = written'[e] - Len(write_q'[e]) /\ Taken(e) = written[e] - Len(write_q[e])
      BY DEF Taken
    <3>2. /\ written'[e] = written[e] + 1 /\ Len(write_q'[e]) = Len(write_q[e]) + 1
          /\ written[e] \in Nat /\ Len(write_q[e]) \in Nat
      BY <1>4, <1>5
    <3> QED
      BY ONLY <3>1, <3>2
  <2> QED
    BY <1>4, <2>1 DEF Taken
<1>7. NetOK(net)'
  <2>1. Quiet(net)' /\ Single(net)' /\ Exclusive(net)'
    BY <1>1, <1>3 DEF IInv, NetOK, Quiet, Single, Exclusive
  <2>3. Awaited(net)'
    BY <1>1, <1>3 DEF IInv, NetOK, Awaited, End
  <2>2. Newest(net)'
    BY <1>1, <1>3, <1>6, PeerFacts DEF IInv, NetOK, Newest
  <2> QED
    BY <1>1, <2>1, <2>2, <2>3 DEF IInv, NetOK, NetType
<1>8. OneTurn' /\ Turns' = Turns
  BY <1>3 DEF IInv, OneTurn, Turns
<1>9. Numbered'
  <2>1. \A k \in DOMAIN write_q'[e] : write_q'[e][k] = Taken(e)' + k
    <3> TAKE k \in DOMAIN write_q'[e]
    <3>1. CASE k \in 1..Len(write_q[e])
      BY <1>5, <1>6, <3>1 DEF IInv, Numbered
    <3>2. CASE k = Len(write_q[e]) + 1
      <4>1. Taken(e) + k = written[e] + 1
        BY <1>4, <3>2 DEF Taken
      <4> QED
        BY <1>5, <1>6, <3>2, <4>1
    <3> QED
      BY <1>4, <1>5, <3>1, <3>2
  <2>2. \A f \in End : f # e => \A k \in DOMAIN write_q'[f] : write_q'[f][k] = Taken(f)' + k
    BY <1>4, <1>6 DEF IInv, Numbered
  <2>3. \A f \in End : Taken(f)' \in Nat
    BY <1>6 DEF IInv, Numbered
  <2> QED
    BY <2>1, <2>2, <2>3 DEF Numbered
<1>10. InOrder' /\ Budget'
  BY <1>1, <1>6, <1>8, SameItems DEF IInv, Budget, End
<1> QED
  BY <1>7, <1>8, <1>9, <1>10 DEF IInv

LEMMA InitIInv == Init => IInv
<1> SUFFICES ASSUME Init PROVE IInv
  OBVIOUS
<1>1. /\ \A e \in End : /\ net[e] = <<>> /\ read_q[e] = <<>> /\ write_q[e] = <<>>
                         /\ link_state[e] = "disconnected" /\ written[e] = 0 /\ sessions[e] = 0
      /\ ~offer /\ net = [e \in End |-> <<>>]
  BY DEF Init
<1>2. \A e \in End : /\ ~HasTurn(e) /\ DataIn(net, e) = {}
                     /\ DOMAIN read_q[e] = {} /\ DOMAIN write_q[e] = {}
                     /\ Taken(e) = 0 /\ Len(read_q[e]) = 0
  BY <1>1 DEF HasTurn, Connected, DataIn, Taken
<1>3. NetOK(net)
  <2>1. NetType(net)
    BY <1>1 DEF NetType
  <2>2. Quiet(net)
    BY <1>1 DEF Quiet
  <2> QED
    BY <1>1, <1>2, <2>1, <2>2 DEF NetOK, Single, Exclusive, Newest, Awaited
<1>4. OneTurn /\ Turns = 0
  BY <1>2 DEF OneTurn, Turns
<1>5. Numbered
  BY <1>2 DEF Numbered
<1>6. InOrder
  BY <1>2, PeerFacts DEF InOrder
<1>7. Budget
  <2>1. \A e \in End : Missing(e) = 0
    BY <1>2, PeerFacts DEF Missing
  <2> QED
    BY <1>1, <1>4, <2>1 DEF Budget, End
<1> QED
  BY <1>3, <1>4, <1>5, <1>6, <1>7 DEF IInv

LEMMA ProcessSendStep ==
  ASSUME TypeOK, IInv, NEW e \in End, ProcessSend(e) PROVE IInv'
<1>1. /\ UNCHANGED <<link_state, read_q, offer, written, sessions, failures>>
      /\ HasTurn(e) /\ NetOK(net)
  BY DEF ProcessSend, HasTurn, IInv
<1>2. CASE TakeAndSend(e, net)
  <2>1. \A f \in End : DataIn(net, f) = {}
    BY <1>1 DEF NetOK, Exclusive
  <2> QED
    BY <1>1, <1>2, <2>1, TakeStep
<1>3. CASE SendLiveness(e, net)
  <2>1. net' = Send(net, Peer(e), Liveness) /\ UNCHANGED <<state, current_data, write_q>>
    BY <1>3 DEF SendLiveness
  <2>2. NetOK(Send(net, Peer(e), Liveness))
    BY <1>1, PeerFacts, DatagramTypes, SendOtherOK
  <2>3. \A f \in End : HasTurn(f)' = HasTurn(f)
    BY <1>1, <2>1 DEF HasTurn, Connected
  <2> QED
    BY <1>1, <2>1, <2>2, <2>3, NetStep
<1> QED
  BY <1>2, <1>3 DEF ProcessSend

LEMMA ReceiveStep ==
  ASSUME TypeOK, IInv, NEW e \in End, Receive(e) PROVE IInv'
<1>1. PICK i \in Arrivals(e) :
        HandleData(e, i) \/ HandleAck(e, i) \/ HandleLiveness(e, i)
  BY DEF Receive
<1>2. /\ UNCHANGED <<link_state, offer, written, sessions, failures>>
      /\ i \in DOMAIN net[e] /\ Connected(e) /\ NetOK(net)
      /\ state \in [End -> {"RD", "RA", "WT"}]
  BY <1>1 DEF Receive, Arrivals, IInv, TypeOK
<1>3. /\ NetOK(Consumed(e, i))
      /\ i \in DataIn(net, e) => \A f \in End : DataIn(Consumed(e, i), f) = {}
  BY <1>2, ConsumedOK
<1>4. NetOK(Send(Consumed(e, i), Peer(e), Ack)) /\ NetOK(Send(Consumed(e, i), Peer(e), Liveness))
  BY <1>3, PeerFacts, DatagramTypes, SendOtherOK
\* What is left when a datagram is ignored.
<1>5. ASSUME net' = Consumed(e, i), UNCHANGED <<state, write_q, read_q>> PROVE IInv'
  <2>1. \A f \in End : HasTurn(f)' = HasTurn(f)
    BY <1>2, <1>5 DEF HasTurn, Connected
  <2> QED
    BY <1>2, <1>3, <1>5, <2>1, NetStep
<1>6. CASE HandleData(e, i)
  <2>1. CASE state[e] = "WT"
    <3>1. i \in DataIn(net, e)
      BY <1>2, <1>6 DEF HandleData, DataIn
    <3>2. /\ read_q' = [read_q EXCEPT ![e] = Append(@, net[e][i].item)]
          /\ net' = Send(Consumed(e, i), Peer(e), Ack)
          /\ state' = [state EXCEPT ![e] = "RD"]
          /\ UNCHANGED write_q
      BY <1>6, <2>1 DEF HandleData
    <3> QED
      BY <1>2, <3>1, <3>2, DeliverStep
  <2>2. CASE state[e] # "WT"
    BY <1>5, <1>6, <2>2 DEF HandleData
  <2> QED
    BY <2>1, <2>2
<1>7. CASE HandleAck(e, i)
  <2>1. CASE state[e] = "RA"
    <3>1. /\ state' = [state EXCEPT ![e] = "WT"]
          /\ net' = Send(Consumed(e, i), Peer(e), Ack)
          /\ UNCHANGED <<write_q, read_q>>
      BY <1>7, <2>1 DEF HandleAck
    <3>2. \A f \in End : HasTurn(f)' = HasTurn(f)
      BY <1>2, <2>1, <3>1 DEF HasTurn, Connected
    <3> QED
      BY <1>2, <1>4, <3>1, <3>2, NetStep
  <2>2. CASE state[e] # "RA"
    BY <1>5, <1>7, <2>2 DEF HandleAck
  <2> QED
    BY <2>1, <2>2
<1>8. CASE HandleLiveness(e, i)
  <2>1. CASE state[e] = "RD"
    <3>1. HasTurn(e) /\ UNCHANGED read_q
      BY <1>2, <1>8, <2>1 DEF HasTurn, HandleLiveness
    <3>2. CASE TakeAndSend(e, Consumed(e, i))
      <4>1. \A f \in End : DataIn(Consumed(e, i), f) = {}
        BY <1>3, <3>1 DEF NetOK, Exclusive
      <4> QED
        BY <1>2, <1>3, <3>1, <3>2, <4>1, TakeStep
    <3>3. CASE SendLiveness(e, Consumed(e, i))
      <4>1. /\ net' = Send(Consumed(e, i), Peer(e), Liveness)
            /\ UNCHANGED <<state, write_q>>
        BY <3>3 DEF SendLiveness
      <4>2. \A f \in End : HasTurn(f)' = HasTurn(f)
        BY <1>2, <4>1 DEF HasTurn, Connected
      <4> QED
        BY <1>2, <1>4, <3>1, <4>1, <4>2, NetStep
    <3> QED
      BY <1>8, <2>1, <3>2, <3>3 DEF HandleLiveness
  <2>2. CASE state[e] # "RD"
    BY <1>5, <1>8, <2>2 DEF HandleLiveness
  <2> QED
    BY <2>1, <2>2
<1> QED
  BY <1>1, <1>6, <1>7, <1>8

LEMMA LossSteps ==
  ASSUME TypeOK, IInv, (\E e \in End : Lose(e)) \/ LoseOffer \/ UNCHANGED vars
  PROVE  IInv'
<1>1. CASE \E e \in End : Lose(e)
  <2>1. PICK e \in End : Lose(e)
    BY <1>1
  <2>2. PICK i \in DOMAIN net[e] : net' = Consumed(e, i)
    BY <2>1 DEF Lose
  <2>3. NetOK(Consumed(e, i))
    BY <2>2, ConsumedOK DEF IInv
  <2>4. UNCHANGED <<link_state, state, write_q, read_q, written, sessions, offer>>
    BY <2>1 DEF Lose, protocol
  <2>5. \A f \in End : HasTurn(f)' = HasTurn(f)
    BY <2>4 DEF HasTurn, Connected
  <2> QED
    BY <2>2, <2>3, <2>4, <2>5, NetStep
<1>2. CASE LoseOffer
  <2>1. ~offer' /\ UNCHANGED <<link_state, state, net, write_q, read_q, written, sessions>>
    BY <1>2 DEF LoseOffer
  <2>2. \A f \in End : /\ HasTurn(f)' = HasTurn(f) /\ Connected(f)' = Connected(f)
                       /\ Taken(f)' = Taken(f) /\ DataIn(net, f)' = DataIn(net, f)
    BY <2>1 DEF HasTurn, Connected, Taken, DataIn
  <2>3. Quiet(net)' /\ Single(net)' /\ Exclusive(net)' /\ NetType(net)'
    BY <2>1, <2>2 DEF IInv, NetOK, Quiet, Single, Exclusive, NetType
  <2>4. Newest(net)'
    BY <2>1, <2>2, PeerFacts DEF IInv, NetOK, Newest
  <2>5. Awaited(net)'
    BY <2>1 DEF Awaited
  <2>6. OneTurn' /\ Turns' = Turns /\ Numbered'
    BY <2>1, <2>2 DEF IInv, OneTurn, Turns, Numbered
  <2>7. InOrder' /\ Budget'
    BY <2>1, <2>2, <2>6, SameItems DEF IInv, Budget, End
  <2> QED
    BY <2>3, <2>4, <2>5, <2>6, <2>7 DEF IInv, NetOK
<1>3. CASE UNCHANGED vars
  <2>1. UNCHANGED <<link_state, state, net, write_q, read_q, written, sessions, offer>>
    BY <1>3 DEF vars
  <2>2. \A f \in End : HasTurn(f)' = HasTurn(f)
    BY <2>1 DEF HasTurn, Connected
  <2> QED
    BY <2>1, <2>2, NetStep DEF IInv
<1> QED
  BY <1>1, <1>2, <1>3

THEOREM InductiveInvariant == Spec => [](TypeOK /\ IInv)
<1>1. IInv /\ TypeOK /\ [Next]_vars => IInv'
  <2> SUFFICES ASSUME IInv, TypeOK, [Next]_vars PROVE IInv'
    OBVIOUS
  <2>1. CASE ServerConnects
    BY <2>1, ServerConnectsStep
  <2>2. CASE ClientConnects
    BY <2>2, ClientConnectsStep
  <2>3. CASE \E e \in End : Disconnects(e)
    BY <2>3, DisconnectsStep
  <2>4. CASE \E e \in End : Write(e)
    BY <2>4, WriteStep
  <2>5. CASE \E e \in End : ProcessSend(e)
    BY <2>5, ProcessSendStep
  <2>6. CASE \E e \in End : Receive(e)
    BY <2>6, ReceiveStep
  <2>7. CASE (\E e \in End : Lose(e)) \/ LoseOffer \/ UNCHANGED vars
    BY <2>7, LossSteps
  <2> QED
    BY <2>1, <2>2, <2>3, <2>4, <2>5, <2>6, <2>7 DEF Next
<1> QED
  BY <1>1, InitIInv, TypeCorrect, PTL DEF Spec

-----------------------------------------------------------------------------
(* The properties the runs check.                                          *)

\* At most one end has the turn, or one item is under way: the alternation
\* that the two state machines of SliceProtocol.py:27-42 are meant to keep.
THEOREM TokenIsUnique == Spec => []OneToken
<1>1. IInv => OneToken
  <2> SUFFICES ASSUME IInv, NEW s \in Tokens, NEW t \in Tokens PROVE s = t
    BY DEF OneToken
  <2>1. \A u \in Tokens : \/ (\E e \in End : HasTurn(e) /\ u = <<e, 0>>)
                           \/ (\E e \in End : \E i \in DataIn(net, e) : u = <<e, i>>)
    BY DEF Tokens
  <2>2. /\ OneTurn /\ Single(net) /\ Exclusive(net)
    BY DEF IInv, NetOK
  <2>3. CASE \E e \in End : HasTurn(e)
    BY <2>1, <2>2, <2>3 DEF OneTurn, Exclusive
  <2>4. CASE ~\E e \in End : HasTurn(e)
    BY <2>1, <2>2, <2>4 DEF Single
  <2> QED
    BY <2>3, <2>4
<1> QED
  BY <1>1, InductiveInvariant, PTL

\* Items arrive in the order they were written, each at most once.
THEOREM DeliveredInOrder == Spec => []InOrder
<1>1. IInv => InOrder
  BY DEF IInv
<1> QED
  BY <1>1, InductiveInvariant, PTL

\* The two ends together miss at most one item per session of the client.
THEOREM LossIsBounded == Spec => []OneLossPerSession
<1>1. TypeOK /\ IInv => OneLossPerSession
  <2> SUFFICES ASSUME TypeOK, IInv PROVE OneLossPerSession
    OBVIOUS
  <2>1. Turns \in 0..1 /\ sessions["client"] \in Nat
    BY DEF Turns, TypeOK, End
  <2> QED
    BY <2>1, MissingType DEF IInv, Budget, OneLossPerSession
<1> QED
  BY <1>1, InductiveInvariant, PTL

-----------------------------------------------------------------------------
(* Refinement of the alternating transfer.                                 *)

TurnSet == {e \in End : HasTurn(e)}

LEMMA FlightElements ==
  ASSUME NEW n
  PROVE  \A x : x \in Flight(n) <=>
           \E f \in End : \E k \in DataIn(n, f) : x = [to |-> f, item |-> n[f][k].item]
BY DEF Flight

LEMMA FlightEmpty ==
  ASSUME NEW n, \A f \in End : DataIn(n, f) = {}
  PROVE  Flight(n) = {}
BY FlightElements

LEMMA FlightSame ==
  ASSUME NEW n, NEW m,
         \A f \in End : DataIn(m, f) = DataIn(n, f)
                        /\ \A k \in DataIn(n, f) : m[f][k] = n[f][k]
  PROVE  Flight(m) = Flight(n)
<1>1. ASSUME NEW x PROVE x \in Flight(m) <=> x \in Flight(n)
  <2>1. x \in Flight(m) <=> \E f \in End : \E k \in DataIn(m, f) : x = [to |-> f, item |-> m[f][k].item]
    BY FlightElements
  <2>2. x \in Flight(n) <=> \E f \in End : \E k \in DataIn(n, f) : x = [to |-> f, item |-> n[f][k].item]
    BY FlightElements
  <2> QED
    BY <2>1, <2>2
<1> QED
  BY <1>1

\* Consuming anything but DATA leaves the items under way.
LEMMA FlightConsumed ==
  ASSUME NetType(net), NEW e \in End, NEW i \in DOMAIN net[e], i \notin DataIn(net, e)
  PROVE  Flight(Consumed(e, i)) = Flight(net)
<1> DEFINE c == Consumed(e, i)
<1>1. \A f \in End : \A k \in DataIn(c, f) : \E l \in DataIn(net, f) : c[f][k] = net[f][l]
  BY ConsumedData
<1>2. \A f \in End : \A l \in DataIn(net, f) : \E k \in DataIn(c, f) : c[f][k] = net[f][l]
  BY ConsumedData
<1> HIDE DEF c
<1>3. Flight(c) = Flight(net)
  <2>1. ASSUME NEW x PROVE x \in Flight(c) <=> x \in Flight(net)
    <3>1. x \in Flight(c) <=> \E f \in End : \E k \in DataIn(c, f) : x = [to |-> f, item |-> c[f][k].item]
      BY FlightElements
    <3>2. x \in Flight(net) <=>
             \E f \in End : \E k \in DataIn(net, f) : x = [to |-> f, item |-> net[f][k].item]
      BY FlightElements
    <3>3. ASSUME x \in Flight(c) PROVE x \in Flight(net)
      BY <1>1, <3>1, <3>2, <3>3
    <3>4. ASSUME x \in Flight(net) PROVE x \in Flight(c)
      BY <1>2, <3>1, <3>2, <3>4
    <3> QED
      BY <3>3, <3>4
  <2> QED
    BY <2>1
<1> QED
  BY <1>3 DEF c

\* With at most one DATA datagram, the items under way are its item or none.
LEMMA FlightOne ==
  ASSUME IInv, NEW e \in End, NEW i \in DataIn(net, e)
  PROVE  Flight(net) = {[to |-> e, item |-> net[e][i].item]} /\ TurnSet = {}
<1>1. \A f \in End : \A k \in DataIn(net, f) : f = e /\ k = i
  BY DEF IInv, NetOK, Single
<1>2. TurnSet = {}
  BY DEF TurnSet, IInv, NetOK, Exclusive
<1> QED
  BY <1>1, <1>2, FlightElements

LEMMA TurnSetOne ==
  ASSUME IInv, NEW e \in End, HasTurn(e)
  PROVE  TurnSet = {e} /\ Flight(net) = {} /\ \A f \in End : DataIn(net, f) = {}
<1>1. \A f \in End : DataIn(net, f) = {}
  BY DEF IInv, NetOK, Exclusive
<1>2. TurnSet = {e}
  BY DEF IInv, OneTurn, TurnSet
<1> QED
  BY <1>1, <1>2, FlightEmpty

\* A step that leaves the queues of items alone, and leaves turn and items
\* under way alone or empties both, is a stuttering step or a loss.
LEMMA AbstractLoss ==
  ASSUME UNCHANGED <<write_q, read_q>>, sessions'["client"] = sessions["client"],
         \/ TurnSet' = TurnSet /\ Flight(net)' = Flight(net)
         \/ TurnSet' = {} /\ Flight(net)' = {}
  PROVE  [Transfer!Next]_(Transfer!vars)
BY DEF Transfer!Next, Transfer!vars, Transfer!Lose, TurnSet

LEMMA AbstractTake ==
  ASSUME TypeOK, IInv, NEW e \in End, HasTurn(e), NEW n, NetOK(n),
         \A f \in End : DataIn(n, f) = {}, TakeAndSend(e, n),
         UNCHANGED <<link_state, read_q, sessions>>
  PROVE  [Transfer!Next]_(Transfer!vars)
<1> DEFINE d == Head(write_q[e])
           p == Peer(e)
<1>1. d \in Nat \ {0} /\ NetType(n) /\ NetType(net')
  BY TakeAndSendType DEF NetOK
<1>2. /\ write_q[e] # <<>> /\ write_q' = [write_q EXCEPT ![e] = Tail(@)]
      /\ net' = Send(n, p, Data(d)) /\ state' = [state EXCEPT ![e] = "RA"]
  BY DEF TakeAndSend
<1>3. p \in End /\ p = Transfer!Peer(e) /\ e \in Transfer!End
  BY PeerFacts DEF Peer, Transfer!Peer, Transfer!End, End
<1>4. Data(d) \in Datagram /\ Data(d).item = d /\ Data(d).kind = "DATA"
  BY <1>1, DatagramTypes
<1> HIDE DEF d, p
<1>5. TurnSet = {e} /\ TurnSet' = {}
  <2>1. state \in [End -> {"RD", "RA", "WT"}]
    BY DEF TypeOK
  <2>2. \A f \in End : HasTurn(f) => f = e
    BY DEF IInv, OneTurn
  <2>3. \A f \in End : ~HasTurn(f)'
    BY <1>2, <2>1, <2>2 DEF HasTurn, Connected
  <2> QED
    BY <2>2, <2>3 DEF TurnSet
<1>6. Flight(net') \in {{}, {[to |-> p, item |-> d]}}
  <2>1. CASE Connected(p)
    <3>1. /\ Len(net'[p]) = Len(n[p]) + 1
          /\ \A i \in 1..Len(n[p]) : net'[p][i] = n[p][i]
          /\ net'[p][Len(n[p]) + 1] = Data(d)
          /\ \A f \in End : f # p => net'[f] = n[f]
      BY <1>1, <1>2, <1>3, <1>4, <2>1, SendProperties
    <3>2. /\ n[p] \in Seq(Datagram) /\ net'[p] \in Seq(Datagram)
      BY <1>1, <1>3 DEF NetType
    <3>3. \A f \in End : f # p => DataIn(net', f) = {}
      BY <3>1 DEF DataIn
    <3>4. \A k \in DOMAIN net'[p] : k = Len(n[p]) + 1 \/ (k \in DOMAIN n[p] /\ net'[p][k] = n[p][k])
      BY <3>1, <3>2
    <3>5. \A k \in DOMAIN n[p] : n[p][k].kind # "DATA"
      BY <1>3 DEF DataIn
    <3>6. DataIn(net', p) = {Len(n[p]) + 1}
      <4>1. Len(n[p]) + 1 \in DOMAIN net'[p]
        BY <3>1, <3>2
      <4> QED
        BY <1>4, <3>1, <3>4, <3>5, <4>1 DEF DataIn
    <3> QED
      BY <1>3, <1>4, <3>1, <3>3, <3>6, FlightElements
  <2>2. CASE ~Connected(p)
    <3>1. net' = n
      BY <1>2, <2>2 DEF Send
    <3> QED
      BY <3>1, FlightEmpty
  <2> QED
    BY <2>1, <2>2
<1>7. Flight(net)' = Flight(net')
  BY DEF Flight, DataIn
<1>8. Transfer!Take(e)
  BY <1>2, <1>3, <1>5, <1>6, <1>7 DEF Transfer!Take, TurnSet, d
<1> QED
  BY <1>3, <1>8 DEF Transfer!Next

LEMMA AbstractNext ==
  ASSUME TypeOK, IInv, IInv', [Next]_vars
  PROVE  [Transfer!Next]_(Transfer!vars)
<1>0. /\ NetOK(net) /\ NetType(net)
      /\ state \in [End -> {"RD", "RA", "WT"}]
      /\ link_state \in [End -> {"connected", "disconnected"}]
      /\ sessions \in [End -> Nat] /\ written \in [End -> Nat]
      /\ "client" \in End /\ "server" \in End
      /\ \A e \in End : e = "client" \/ e = "server"
  BY DEF TypeOK, IInv, NetOK, End
\* Steps that change neither turns nor items under way.
<1>f. ASSUME UNCHANGED net PROVE Flight(net)' = Flight(net)
  BY <1>f DEF Flight, DataIn
<1>t. ASSUME UNCHANGED <<link_state, state>> PROVE TurnSet' = TurnSet
  BY <1>t DEF TurnSet, HasTurn, Connected
<1>c. ASSUME NEW n PROVE net' = n => Flight(net)' = Flight(n)
  BY DEF Flight, DataIn
<1>1. CASE ServerConnects
  <2>1. /\ UNCHANGED <<net, write_q, read_q>> /\ sessions'["client"] = sessions["client"]
        /\ ~Connected("server")
        /\ link_state' = [link_state EXCEPT !["server"] = "connected"]
        /\ state' = [state EXCEPT !["server"] = "WT"]
    BY <1>0, <1>1 DEF ServerConnects, Fresh
  <2>2. \A f \in End : HasTurn(f)' = HasTurn(f)
    BY <1>0, <2>1 DEF HasTurn, Connected
  <2> QED
    BY <1>f, <2>1, <2>2, AbstractLoss DEF TurnSet
<1>2. CASE ClientConnects
  <2>1. /\ UNCHANGED <<net, write_q, read_q>>
        /\ sessions'["client"] = sessions["client"] + 1
        /\ link_state' = [link_state EXCEPT !["client"] = "connected"]
        /\ state' = [state EXCEPT !["client"] = "RD"]
        /\ ~Connected("client") /\ offer
    BY <1>0, <1>2 DEF ClientConnects, Fresh
  <2>2. /\ ~HasTurn("server") /\ ~HasTurn("client")
        /\ DataIn(net, "server") = {} /\ net["client"] = <<>>
    BY <1>0, <2>1 DEF NetOK, Awaited, Quiet, HasTurn
  <2>3. DataIn(net, "client") = {}
    BY <2>2 DEF DataIn
  <2>4. Flight(net) = {} /\ Flight(net)' = {}
    BY <1>0, <1>f, <2>1, <2>2, <2>3, FlightEmpty
  <2>5. TurnSet = {}
    BY <1>0, <2>2 DEF TurnSet
  <2>6. HasTurn("client")' /\ ~HasTurn("server")'
    BY <1>0, <2>1, <2>2 DEF HasTurn, Connected
  <2>7. TurnSet' = {"client"}
    BY <1>0, <2>6 DEF TurnSet
  <2>8. Transfer!Grant
    BY <2>1, <2>4, <2>5, <2>7 DEF Transfer!Grant, TurnSet
  <2> QED
    BY <2>8 DEF Transfer!Next
<1>3. ASSUME NEW e \in End, Disconnects(e) PROVE [Transfer!Next]_(Transfer!vars)
  <2>1. /\ UNCHANGED <<state, write_q, read_q, sessions>>
        /\ link_state' = [link_state EXCEPT ![e] = "disconnected"]
        /\ net' = [net EXCEPT ![e] = <<>>]
    BY <1>3 DEF Disconnects
  <2>2. \A f \in End : /\ f # e => HasTurn(f)' = HasTurn(f) /\ net'[f] = net[f]
                       /\ f = e => ~HasTurn(f)' /\ net'[f] = <<>>
    BY <1>0, <2>1 DEF HasTurn, Connected, NetType
  <2>3. \A f \in End : /\ f # e => DataIn(net', f) = DataIn(net, f)
                       /\ f = e => DataIn(net', f) = {}
    BY <2>2 DEF DataIn
  <2>4. Flight(net)' = Flight(net')
    BY <1>c
  <2>5. CASE HasTurn(e)
    <3>1. TurnSet = {e} /\ \A f \in End : DataIn(net, f) = {}
      BY <2>5, TurnSetOne
    <3>2. TurnSet' = {} /\ Flight(net') = {}
      BY <2>2, <2>3, <3>1, FlightEmpty DEF TurnSet
    <3> QED
      BY <2>1, <2>4, <3>2, AbstractLoss
  <2>6. CASE ~HasTurn(e) /\ DataIn(net, e) = {}
    <3>1. Flight(net') = Flight(net)
      BY <2>2, <2>3, <2>6, FlightSame
    <3>2. TurnSet' = TurnSet
      BY <2>2, <2>6 DEF TurnSet
    <3> QED
      BY <2>1, <2>4, <3>1, <3>2, AbstractLoss
  <2>7. CASE DataIn(net, e) # {}
    <3>1. TurnSet = {} /\ \A f \in End : f # e => DataIn(net, f) = {}
      BY <1>0, <2>7 DEF NetOK, Single, Exclusive, TurnSet
    <3>2. TurnSet' = {} /\ Flight(net') = {}
      BY <2>2, <2>3, <3>1, FlightEmpty DEF TurnSet
    <3> QED
      BY <2>1, <2>4, <3>2, AbstractLoss
  <2> QED
    BY <2>5, <2>6, <2>7
<1>4. ASSUME NEW e \in End, Write(e) PROVE [Transfer!Next]_(Transfer!vars)
  <2>1. /\ UNCHANGED <<link_state, state, net, read_q, sessions>>
        /\ write_q' = [write_q EXCEPT ![e] = Append(@, written[e] + 1)]
        /\ written[e] < MaxItems
    BY <1>4 DEF Write, protocol
  <2>2. written[e] + 1 \in 1..MaxItems /\ e \in Transfer!End
    BY <1>0, <2>1, SliceAssumption DEF End, Transfer!End
  <2>3. Transfer!HandIn(e)
    BY <1>f, <1>t, <2>1, <2>2 DEF Transfer!HandIn, TurnSet
  <2> QED
    BY <2>2, <2>3 DEF Transfer!Next
\* Steps that send or consume without moving the token.
<1>n. ASSUME NEW n, net' = n, Flight(n) = Flight(net), UNCHANGED <<write_q, read_q, sessions>>,
             \A f \in End : HasTurn(f)' = HasTurn(f)
      PROVE  [Transfer!Next]_(Transfer!vars)
  <2>1. TurnSet' = TurnSet
    BY <1>n DEF TurnSet
  <2> QED
    BY <1>c, <1>n, <2>1, AbstractLoss
<1>s. ASSUME NEW n, NetOK(n), NEW e \in End, NEW m \in {Ack, Liveness}
      PROVE  Flight(Send(n, Peer(e), m)) = Flight(n)
  <2>1. m \in Datagram /\ m.kind # "DATA"
    BY DatagramTypes
  <2>2. \A f \in End : /\ DataIn(Send(n, Peer(e), m), f) = DataIn(n, f)
                       /\ \A k \in DataIn(n, f) : Send(n, Peer(e), m)[f][k] = n[f][k]
    <3>1. NetType(n) /\ Peer(e) \in End
      BY <1>s, PeerFacts DEF NetOK
    <3> QED
      BY <2>1, <3>1, SendOther
  <2> QED
    BY <2>2, FlightSame
<1>5. ASSUME NEW e \in End, ProcessSend(e) PROVE [Transfer!Next]_(Transfer!vars)
  <2>1. HasTurn(e) /\ UNCHANGED <<link_state, read_q, sessions>>
    BY <1>5 DEF ProcessSend, HasTurn
  <2>2. CASE TakeAndSend(e, net)
    <3>1. \A f \in End : DataIn(net, f) = {}
      BY <2>1, TurnSetOne
    <3> QED
      BY <1>0, <2>1, <2>2, <3>1, AbstractTake
  <2>3. CASE SendLiveness(e, net)
    <3>1. net' = Send(net, Peer(e), Liveness) /\ UNCHANGED <<state, write_q>>
      BY <2>3 DEF SendLiveness
    <3>2. \A f \in End : HasTurn(f)' = HasTurn(f)
      BY <2>1, <3>1 DEF HasTurn, Connected
    <3>3. Flight(Send(net, Peer(e), Liveness)) = Flight(net)
      BY <1>0, <1>s
    <3> QED
      BY <1>n, <2>1, <3>1, <3>2, <3>3
  <2> QED
    BY <1>5, <2>2, <2>3 DEF ProcessSend
<1>6. ASSUME NEW e \in End, Receive(e) PROVE [Transfer!Next]_(Transfer!vars)
  <2>1. PICK i \in Arrivals(e) :
          HandleData(e, i) \/ HandleAck(e, i) \/ HandleLiveness(e, i)
    BY <1>6 DEF Receive
  <2>2. /\ UNCHANGED <<link_state, sessions>> /\ i \in DOMAIN net[e] /\ Connected(e)
    BY <1>6, <2>1 DEF Receive, Arrivals
  <2>3. NetOK(Consumed(e, i))
    BY <1>0, <2>2, ConsumedOK
  <2>4. ASSUME i \notin DataIn(net, e) PROVE Flight(Consumed(e, i)) = Flight(net)
    BY <1>0, <2>2, <2>4, FlightConsumed
  <2>5. CASE HandleData(e, i)
    <3>1. i \in DataIn(net, e)
      BY <2>2, <2>5 DEF HandleData, DataIn
    <3>2. Flight(net) = {[to |-> e, item |-> net[e][i].item]} /\ TurnSet = {}
      BY <3>1, FlightOne
    <3>3. \A f \in End : DataIn(Consumed(e, i), f) = {}
      BY <1>0, <2>2, <3>1, ConsumedOK
    <3>4. Flight(Consumed(e, i)) = {}
      BY <3>3, FlightEmpty
    <3>5. CASE state[e] = "WT"
      <4>1. /\ read_q' = [read_q EXCEPT ![e] = Append(@, net[e][i].item)]
            /\ net' = Send(Consumed(e, i), Peer(e), Ack)
            /\ state' = [state EXCEPT ![e] = "RD"] /\ UNCHANGED write_q
        BY <2>5, <3>5 DEF HandleData
      <4>2. Flight(net)' = {}
        BY <1>c, <1>s, <2>3, <3>4, <4>1
      <4>3. \A f \in End : ~HasTurn(f)
        BY <3>2 DEF TurnSet
      <4>4. \A f \in End : HasTurn(f)' <=> f = e
        BY <1>0, <2>2, <4>1, <4>3 DEF HasTurn, Connected
      <4>5. TurnSet' = {e}
        BY <4>4 DEF TurnSet
      <4>6. Transfer!Deliver(e)
        BY <2>2, <3>2, <4>1, <4>2, <4>5 DEF Transfer!Deliver, TurnSet
      <4>7. e \in Transfer!End
        BY DEF End, Transfer!End
      <4> QED
        BY <4>6, <4>7 DEF Transfer!Next
    <3>6. CASE state[e] # "WT"
      <4>1. net' = Consumed(e, i) /\ UNCHANGED <<state, write_q, read_q>>
        BY <2>5, <3>6 DEF HandleData
      <4>2. Flight(net)' = {} /\ TurnSet' = {}
        BY <1>c, <1>t, <2>2, <3>2, <3>4, <4>1
      <4> QED
        BY <2>2, <4>1, <4>2, AbstractLoss
    <3> QED
      BY <3>5, <3>6
  <2>6. CASE HandleAck(e, i)
    <3>1. i \notin DataIn(net, e)
      BY <2>6, DatagramTypes DEF HandleAck, DataIn
    <3>2. /\ \/ net' = Send(Consumed(e, i), Peer(e), Ack)
             \/ net' = Consumed(e, i)
          /\ UNCHANGED <<write_q, read_q>>
      BY <2>6 DEF HandleAck
    <3>3. \A f \in End : HasTurn(f)' = HasTurn(f)
      <4>1. UNCHANGED state \/ (state[e] = "RA" /\ state' = [state EXCEPT ![e] = "WT"])
        BY <2>6 DEF HandleAck
      <4> QED
        BY <1>0, <2>2, <4>1 DEF HasTurn, Connected
    <3>4. Flight(Send(Consumed(e, i), Peer(e), Ack)) = Flight(net)
      BY <1>s, <2>3, <2>4, <3>1
    <3> QED
      BY <1>n, <2>2, <2>4, <3>1, <3>2, <3>3, <3>4
  <2>7. CASE HandleLiveness(e, i)
    <3>1. i \notin DataIn(net, e) /\ UNCHANGED read_q
      BY <2>7, DatagramTypes DEF HandleLiveness, DataIn
    <3>2. CASE state[e] = "RD" /\ TakeAndSend(e, Consumed(e, i))
      <4>1. HasTurn(e)
        BY <2>2, <3>2 DEF HasTurn
      <4>2. \A f \in End : DataIn(Consumed(e, i), f) = {}
        BY <2>3, <4>1 DEF NetOK, Exclusive
      <4> QED
        BY <2>2, <2>3, <3>1, <3>2, <4>1, <4>2, AbstractTake
    <3>3. CASE \/ state[e] = "RD" /\ SendLiveness(e, Consumed(e, i))
               \/ state[e] # "RD"
      <4>1. /\ \/ net' = Send(Consumed(e, i), Peer(e), Liveness)
               \/ net' = Consumed(e, i)
            /\ UNCHANGED <<state, write_q>>
        BY <2>7, <3>3 DEF HandleLiveness, SendLiveness
      <4>2. \A f \in End : HasTurn(f)' = HasTurn(f)
        BY <2>2, <4>1 DEF HasTurn, Connected
      <4>3. Flight(Send(Consumed(e, i), Peer(e), Liveness)) = Flight(net)
        BY <1>s, <2>3, <2>4, <3>1
      <4> QED
        BY <1>n, <2>2, <2>4, <3>1, <4>1, <4>2, <4>3
    <3> QED
      BY <2>7, <3>2, <3>3 DEF HandleLiveness
  <2> QED
    BY <2>1, <2>5, <2>6, <2>7
<1>7. ASSUME NEW e \in End, Lose(e) PROVE [Transfer!Next]_(Transfer!vars)
  <2>1. PICK i \in DOMAIN net[e] : net' = Consumed(e, i)
    BY <1>7 DEF Lose
  <2>2. UNCHANGED <<link_state, state, write_q, read_q, sessions>>
    BY <1>7 DEF Lose, protocol
  <2>3. CASE i \in DataIn(net, e)
    <3>1. TurnSet = {}
      BY <2>3, FlightOne
    <3>2. Flight(Consumed(e, i)) = {}
      BY <1>0, <2>3, ConsumedOK, FlightEmpty
    <3>3. Flight(net)' = {} /\ TurnSet' = {}
      BY <1>c, <1>t, <2>1, <2>2, <3>1, <3>2
    <3> QED
      BY <2>2, <3>3, AbstractLoss
  <2>4. CASE i \notin DataIn(net, e)
    <3>1. Flight(net)' = Flight(net) /\ TurnSet' = TurnSet
      BY <1>0, <1>c, <1>t, <2>1, <2>2, <2>4, FlightConsumed
    <3> QED
      BY <2>2, <3>1, AbstractLoss
  <2> QED
    BY <2>3, <2>4
<1>8. CASE LoseOffer \/ UNCHANGED vars
  <2>1. UNCHANGED <<link_state, state, net, write_q, read_q, sessions>>
    BY <1>8 DEF LoseOffer, vars
  <2> QED
    BY <1>f, <1>t, <2>1, AbstractLoss
<1> QED
  BY <1>1, <1>2, <1>3, <1>4, <1>5, <1>6, <1>7, <1>8 DEF Next

\* The slice protocol implements the alternating transfer: every step of the
\* two ends and the network is a step of it or invisible to it.
THEOREM ImplementsTransfer == Spec => TransferSpec
<1>1. Init => Transfer!Init
  <2> SUFFICES ASSUME Init PROVE Transfer!Init
    OBVIOUS
  <2>1. \A e \in End : net[e] = <<>> /\ ~HasTurn(e)
    BY DEF Init, HasTurn, Connected
  <2>2. \A e \in End : DataIn(net, e) = {}
    BY <2>1 DEF DataIn
  <2>3. Flight(net) = {} /\ {e \in End : HasTurn(e)} = {}
    BY <2>1, <2>2, FlightEmpty
  <2>4. sessions["client"] = 0
    BY DEF Init, End
  <2>5. /\ write_q = [e \in Transfer!End |-> <<>>]
        /\ read_q = [e \in Transfer!End |-> <<>>]
    BY DEF Init, End, Transfer!End
  <2> QED
    BY <2>3, <2>4, <2>5 DEF Transfer!Init
<1>2. TypeOK /\ IInv /\ IInv' /\ [Next]_vars => [Transfer!Next]_(Transfer!vars)
  BY AbstractNext
<1> QED
  BY <1>1, <1>2, InductiveInvariant, PTL DEF Spec, TransferSpec, Transfer!Spec

-----------------------------------------------------------------------------
(* A link that neither loses nor reorders.                                 *)

Reliable == ~Lossy /\ ~Reordering

\* An end that a DATA at place i would reach is in WT by then: it is, or an ACK
\* that comes before lets it go there.
Relieved(n, e, i) ==
  \/ state[e] = "WT"
  \/ state[e] = "RA" /\ \E j \in 1..(i - 1) : n[e][j] = Ack

\* That goes for a DATA under way, and for one that may be sent to a peer that
\* has a session.
Ready(n) ==
  /\ \A e \in End : \A i \in DataIn(n, e) : Relieved(n, e, i)
  /\ \A e \in End : HasTurn(e) /\ Connected(Peer(e)) =>
                       Relieved(n, Peer(e), Len(n[Peer(e)]) + 1)

\* A server that a client is about to join waits for it.
ServerWaits == offer /\ Connected("server") => state["server"] = "WT"

LEMMA ReadySame ==
  ASSUME NEW n, Ready(n), net' = n, UNCHANGED <<state, link_state>>
  PROVE  Ready(net)'
BY DEF Ready, Relieved, DataIn, HasTurn, Connected

\* A datagram is taken that the end has no use for.
LEMMA ReadyConsumed ==
  ASSUME NetType(net), Ready(net), NEW e \in End, 1 \in DOMAIN net[e],
         net[e][1] # Ack \/ state[e] # "RA"
  PROVE  Ready(Consumed(e, 1))
<1> DEFINE n == Consumed(e, 1)
<1>1. /\ NetType(n) /\ \A f \in End : f # e => n[f] = net[f]
      /\ Len(n[e]) = Len(net[e]) - 1
      /\ \A j \in 1..(Len(net[e]) - 1) : n[e][j] = net[e][j + 1]
  <2>1. \A j \in 1..(Len(net[e]) - 1) : ~(j < 1)
    OBVIOUS
  <2> QED
    BY <2>1, ConsumedProperties
<1>2. Len(net[e]) \in Nat
  BY DEF NetType
<1>3. /\ \A f \in End : f # e => DataIn(n, f) = DataIn(net, f)
      /\ \A j \in DataIn(n, e) : j \in 1..(Len(net[e]) - 1) /\ j + 1 \in DataIn(net, e)
  <2>1. \A j \in DataIn(n, e) : j \in 1..(Len(net[e]) - 1)
    BY <1>1 DEF DataIn, NetType
  <2>2. \A j \in 1..(Len(net[e]) - 1) : ~(j < 1)
    OBVIOUS
  <2> QED
    BY <2>1, <2>2, ConsumedData
<1> HIDE DEF n
<1>4. ASSUME NEW i \in 1..Len(net[e]), Relieved(net, e, i + 1)
      PROVE  Relieved(n, e, i)
  <2>1. CASE state[e] = "WT"
    BY <2>1 DEF Relieved
  <2>2. CASE state[e] # "WT"
    <3>1. state[e] = "RA"
      BY <1>4, <2>2 DEF Relieved
    <3>2. PICK j \in 1..(i + 1 - 1) : net[e][j] = Ack
      BY <1>4, <2>2 DEF Relieved
    <3>3. j - 1 \in 1..(i - 1) /\ j - 1 \in 1..(Len(net[e]) - 1) /\ (j - 1) + 1 = j
      BY <1>2, <3>1, <3>2
    <3>4. n[e][j - 1] = Ack
      BY <1>1, <3>2, <3>3
    <3> QED
      BY <3>1, <3>3, <3>4 DEF Relieved
  <2> QED
    BY <2>1, <2>2
<1>5. ASSUME NEW f \in End, f # e, NEW i, Relieved(net, f, i)
      PROVE  Relieved(n, f, i)
  BY <1>1, <1>5 DEF Relieved
<1>6. \A f \in End : \A i \in DataIn(n, f) : Relieved(n, f, i)
  <2> TAKE f \in End
  <2> TAKE i \in DataIn(n, f)
  <2>1. CASE f # e
    BY <1>3, <1>5, <2>1 DEF Ready
  <2>2. CASE f = e
    <3>1. i \in 1..Len(net[e]) /\ Relieved(net, e, i + 1)
      BY <1>2, <1>3, <2>2 DEF Ready
    <3> QED
      BY <1>4, <2>2, <3>1
  <2> QED
    BY <2>1, <2>2
<1>7. \A f \in End : HasTurn(f) /\ Connected(Peer(f)) =>
                        Relieved(n, Peer(f), Len(n[Peer(f)]) + 1)
  <2> SUFFICES ASSUME NEW f \in End, HasTurn(f), Connected(Peer(f))
               PROVE  Relieved(n, Peer(f), Len(n[Peer(f)]) + 1)
    OBVIOUS
  <2>1. Peer(f) \in End /\ Relieved(net, Peer(f), Len(net[Peer(f)]) + 1)
    BY PeerFacts DEF Ready
  <2>2. CASE Peer(f) # e
    BY <1>1, <1>5, <2>1, <2>2
  <2>3. CASE Peer(f) = e
    <3>1. Len(net[e]) # 0 /\ Len(n[e]) + 1 = Len(net[e]) /\ Len(net[e]) \in 1..Len(net[e])
      BY <1>1, <1>2 DEF NetType
    <3> QED
      BY <1>4, <2>1, <2>3, <3>1
  <2> QED
    BY <2>2, <2>3
<1> QED
  BY <1>6, <1>7 DEF Ready, n

\* What is sent comes after what is under way.
LEMMA ReadySend ==
  ASSUME NEW n, NetType(n), Ready(n), NEW to \in End, NEW m \in Datagram, m.kind # "DATA"
  PROVE  Ready(Send(n, to, m))
<1> DEFINE t == Send(n, to, m)
<1>1. \A f \in End : /\ DataIn(t, f) = DataIn(n, f) /\ Len(n[f]) \in Nat
                     /\ \A i \in 1..Len(n[f]) : t[f][i] = n[f][i]
                     /\ Len(t[f]) = Len(n[f]) \/ Len(t[f]) = Len(n[f]) + 1
  <2>1. \A f \in End : DataIn(t, f) = DataIn(n, f) /\ n[f] \in Seq(Datagram)
    BY SendOther DEF NetType
  <2>2. \A f \in End : \/ t[f] = n[f]
                       \/ /\ Len(t[f]) = Len(n[f]) + 1
                          /\ \A i \in 1..Len(n[f]) : t[f][i] = n[f][i]
    <3> TAKE f \in End
    <3>1. CASE f = to /\ Connected(to)
      BY <3>1, SendProperties
    <3>2. CASE ~(f = to /\ Connected(to))
      BY <3>2, SendProperties
    <3> QED
      BY <3>1, <3>2
  <2> HIDE DEF t
  <2> QED
    BY <2>1, <2>2
<1> HIDE DEF t
<1>2. ASSUME NEW f \in End, NEW i \in 1..(Len(n[f]) + 1), Relieved(n, f, i), NEW k \in Nat, k >= i
      PROVE  Relieved(t, f, k)
  <2>1. \A j \in 1..(i - 1) : j \in 1..(k - 1) /\ t[f][j] = n[f][j]
    BY <1>1, <1>2
  <2> QED
    BY <1>2, <2>1 DEF Relieved
<1>3. \A f \in End : \A i \in DataIn(t, f) : i \in Nat /\ i \in 1..(Len(n[f]) + 1) /\ Relieved(n, f, i)
  BY <1>1 DEF Ready, DataIn, NetType
<1>4. \A f \in End : HasTurn(f) /\ Connected(Peer(f)) =>
         Peer(f) \in End /\ Relieved(n, Peer(f), Len(n[Peer(f)]) + 1)
  BY PeerFacts DEF Ready
<1>5. \A f \in End : /\ Len(n[f]) + 1 \in 1..(Len(n[f]) + 1)
                     /\ Len(t[f]) + 1 \in Nat /\ Len(t[f]) + 1 >= Len(n[f]) + 1
  BY <1>1
<1>6. \A i \in Nat : i >= i
  OBVIOUS
<1> QED
  BY <1>2, <1>3, <1>4, <1>5, <1>6 DEF Ready, t

\* The end that has the turn sends its item.
LEMMA ReadyTake ==
  ASSUME TypeOK, OneTurn, NEW n, NetType(n), Ready(n), NEW e \in End, HasTurn(e),
         \A f \in End : DataIn(n, f) = {}, TakeAndSend(e, n), UNCHANGED link_state
  PROVE  Ready(net)'
<1> DEFINE d == Data(Head(write_q[e]))
<1>1. Peer(e) \in End /\ Peer(e) # e /\ d \in Datagram
  BY PeerFacts, DatagramTypes, TakeAndSendType
<1>2. state' = [state EXCEPT ![e] = "RA"] /\ net' = Send(n, Peer(e), d)
  BY DEF TakeAndSend
<1>3. \A f \in End : ~HasTurn(f)'
  BY <1>2 DEF HasTurn, Connected, OneTurn, TypeOK
<1>4. Connected(Peer(e)) => Relieved(n, Peer(e), Len(n[Peer(e)]) + 1)
  BY DEF Ready
<1> HIDE DEF d
<1>5. \A f \in End : f # Peer(e) => DataIn(net, f)' = {}
  <2>1. \A f \in End : f # Peer(e) => net'[f] = n[f]
    BY <1>1, <1>2, SendProperties
  <2> QED
    BY <2>1 DEF DataIn
<1>6. ~Connected(Peer(e)) => DataIn(net, Peer(e))' = {}
  <2>1. ~Connected(Peer(e)) => net'[Peer(e)] = n[Peer(e)]
    BY <1>1, <1>2, SendProperties
  <2> QED
    BY <1>1, <2>1 DEF DataIn
<1>7. \A i \in DataIn(net, Peer(e))' : i = Len(n[Peer(e)]) + 1
  <2> DEFINE s == n[Peer(e)]
             t == net'[Peer(e)]
  <2>1. \/ t = s
        \/ Len(t) = Len(s) + 1 /\ \A i \in 1..Len(s) : t[i] = s[i]
    BY <1>1, <1>2, SendProperties
  <2>2. s \in Seq(Datagram) /\ t \in Seq(Datagram)
    BY <1>1, <1>2, SendProperties DEF NetType
  <2>3. {i \in DOMAIN s : s[i].kind = "DATA"} = {}
    BY <1>1 DEF DataIn
  <2>4. DataIn(net, Peer(e))' = {i \in DOMAIN t : t[i].kind = "DATA"}
    BY DEF DataIn
  <2> HIDE DEF s, t
  <2>5. \A i \in {i \in DOMAIN t : t[i].kind = "DATA"} : i = Len(s) + 1
    BY <2>1, <2>2, <2>3
  <2> QED
    BY <2>4, <2>5 DEF s
<1>8. \A i \in 1..Len(n[Peer(e)]) : net'[Peer(e)][i] = n[Peer(e)][i]
  BY <1>1, <1>2, SendProperties
<1>9. ASSUME Connected(Peer(e))
      PROVE  Relieved(net, Peer(e), Len(n[Peer(e)]) + 1)'
  <2>1. state'[Peer(e)] = state[Peer(e)]
    BY <1>1, <1>2 DEF TypeOK
  <2>2. (Len(n[Peer(e)]) + 1) - 1 = Len(n[Peer(e)])
    BY <1>1 DEF NetType
  <2>3. \/ state'[Peer(e)] = "WT"
        \/ state'[Peer(e)] = "RA" /\ \E j \in 1..((Len(n[Peer(e)]) + 1) - 1) : net'[Peer(e)][j] = Ack
    BY <1>4, <1>8, <1>9, <2>1, <2>2 DEF Relieved
  <2>4. UNCHANGED Ack
    BY DEF Ack
  <2> QED
    BY <2>3, <2>4 DEF Relieved
<1> QED
  BY <1>3, <1>5, <1>6, <1>7, <1>9 DEF Ready

LEMMA ReadyReceive ==
  ASSUME Reliable, TypeOK, IInv, Ready(net), NEW e \in End, Receive(e)
  PROVE  Ready(net)'
<1>1. /\ NetType(net) /\ UNCHANGED link_state /\ Connected(e) /\ 1 \in DOMAIN net[e]
      /\ Peer(e) \in End /\ Peer(e) # e
      /\ HandleData(e, 1) \/ HandleAck(e, 1) \/ HandleLiveness(e, 1)
  BY PeerFacts DEF Reliable, Receive, Arrivals, IInv, NetOK
<1>2. /\ NetType(Consumed(e, 1))
      /\ net[e][1] # Ack \/ state[e] # "RA" => Ready(Consumed(e, 1))
  BY <1>1, ReadyConsumed, ConsumedProperties
<1>3. CASE HandleData(e, 1)
  <2>1. 1 \in DataIn(net, e) /\ state[e] = "WT"
    <3>1. 1 \in DataIn(net, e)
      BY <1>1, <1>3 DEF HandleData, DataIn
    <3>2. 1..(1 - 1) = {}
      OBVIOUS
    <3> QED
      BY <3>1, <3>2 DEF Ready, Relieved
  <2>2. /\ net' = Send(Consumed(e, 1), Peer(e), Ack)
        /\ state' = [state EXCEPT ![e] = "RD"]
    BY <1>3, <2>1 DEF HandleData
  <2>3. \A f \in End : DataIn(net, f)' = {}
    <3>1. \A f \in End : DataIn(Consumed(e, 1), f) = {}
      <4>1. \A f \in End : f # e => DataIn(Consumed(e, 1), f) = {}
        BY <1>1, <2>1, ConsumedData DEF IInv, NetOK, Single
      <4>2. \A j \in DataIn(Consumed(e, 1), e) : j \in Nat \ {0} /\ j + 1 \in DataIn(net, e)
        <5>1. \A j \in DataIn(Consumed(e, 1), e) : j \in Nat \ {0}
          BY <1>2 DEF DataIn, NetType
        <5> QED
          BY <1>1, <5>1, ConsumedData
      <4>3. DataIn(Consumed(e, 1), e) = {}
        <5>1. \A j \in Nat \ {0} : j + 1 # 1
          OBVIOUS
        <5> QED
          BY <2>1, <4>2, <5>1 DEF IInv, NetOK, Single
      <4> QED
        BY <4>1, <4>3
    <3>2. \A f \in End : DataIn(net', f) = DataIn(Consumed(e, 1), f)
      BY <1>1, <1>2, <2>2, SendOther, DatagramTypes
    <3> QED
      BY <3>1, <3>2 DEF DataIn
  <2>4. ~HasTurn(Peer(e))
    BY <1>1, <2>1 DEF IInv, NetOK, Exclusive
  <2>5. /\ state'[Peer(e)] = state[Peer(e)]
        /\ Connected(Peer(e)) => state[Peer(e)] \in {"RA", "WT"}
    BY <1>1, <2>2, <2>4 DEF TypeOK, HasTurn
  <2>6. ASSUME Connected(Peer(e))
        PROVE  /\ Len(net'[Peer(e)]) \in 1..((Len(net'[Peer(e)]) + 1) - 1)
               /\ net'[Peer(e)][Len(net'[Peer(e)])] = Ack
    <3>1. /\ Len(net'[Peer(e)]) = Len(Consumed(e, 1)[Peer(e)]) + 1
          /\ net'[Peer(e)][Len(Consumed(e, 1)[Peer(e)]) + 1] = Ack
      <4>1. Ack \in Datagram
        BY DatagramTypes
      <4> HIDE DEF Ack
      <4>2. /\ Len(Send(Consumed(e, 1), Peer(e), Ack)[Peer(e)]) = Len(Consumed(e, 1)[Peer(e)]) + 1
            /\ Send(Consumed(e, 1), Peer(e), Ack)[Peer(e)][Len(Consumed(e, 1)[Peer(e)]) + 1] = Ack
        BY <1>1, <1>2, <2>6, <4>1, SendProperties
      <4> QED
        BY <2>2, <4>2
    <3>2. Len(Consumed(e, 1)[Peer(e)]) \in Nat
      BY <1>1, <1>2 DEF NetType
    <3> QED
      BY <3>1, <3>2
  <2>7. \A f \in End : HasTurn(f)' => f = e
    BY <1>1, <2>4, <2>5, PeerFacts DEF HasTurn, Connected, End, Peer
  <2>8. /\ Connected(Peer(e)) =>
             \/ state'[Peer(e)] = "WT"
             \/ /\ state'[Peer(e)] = "RA"
                /\ \E j \in 1..((Len(net'[Peer(e)]) + 1) - 1) : net'[Peer(e)][j] = Ack
        /\ UNCHANGED Ack
    BY <2>5, <2>6 DEF Ack
  <2>9. Connected(Peer(e))' = Connected(Peer(e))
    BY <1>1 DEF Connected
  <2> QED
    BY <2>3, <2>7, <2>8, <2>9 DEF Ready, Relieved
<1>4. CASE HandleAck(e, 1) /\ state[e] = "RA"
  <2>1. /\ net' = Send(Consumed(e, 1), Peer(e), Ack)
        /\ state' = [state EXCEPT ![e] = "WT"]
    BY <1>4 DEF HandleAck
  <2> DEFINE f == Peer(e)
             n == Consumed(e, 1)
  <2>2. n[f] = net[f] /\ NetType(n) /\ n[f] \in Seq(Datagram) /\ DataIn(n, f) = DataIn(net, f)
    BY <1>1, <1>2, ConsumedProperties, ConsumedData DEF NetType
  <2>3. DataIn(net', f) = DataIn(net, f)
    BY <1>1, <2>1, <2>2, SendOther, DatagramTypes
  <2>4. /\ \A i \in 1..Len(net[f]) : net'[f][i] = net[f][i]
        /\ Len(net'[f]) = Len(net[f]) \/ Len(net'[f]) = Len(net[f]) + 1
    <3>1. \/ net'[f] = n[f]
          \/ /\ Len(net'[f]) = Len(n[f]) + 1
             /\ \A i \in 1..Len(n[f]) : net'[f][i] = n[f][i]
      <4>1. Ack \in Datagram
        BY DatagramTypes
      <4>2. LET t == Send(n, f, Ack) IN
            \/ t[f] = n[f]
            \/ Len(t[f]) = Len(n[f]) + 1 /\ \A i \in 1..Len(n[f]) : t[f][i] = n[f][i]
        BY <1>1, <1>2, <4>1, SendProperties
      <4> QED
        BY <2>1, <4>2
    <3> HIDE DEF n, f
    <3> QED
      BY <2>2, <3>1
  <2>5. state'[e] = "WT" /\ state'[f] = state[f] /\ \A g \in End : g = e \/ g = f
    BY <1>1, <2>1, PeerFacts DEF TypeOK, End, Peer
  <2>6. /\ ~HasTurn(e)' /\ Peer(f) = e /\ f \in End
        /\ \A k : Relieved(net, e, k)'
    BY <1>1, <2>5, PeerFacts DEF HasTurn, Relieved
  <2>7. \A i \in DataIn(net, f)' : Relieved(net, f, i)'
    <3> SUFFICES ASSUME NEW i \in DataIn(net', f)
                 PROVE  \/ state'[f] = "WT"
                        \/ state'[f] = "RA" /\ \E j \in 1..(i - 1) : net'[f][j] = Ack'
      BY DEF Relieved, DataIn
    <3>1. i \in 1..Len(net[f]) /\ Relieved(net, f, i)
      BY <2>2, <2>3, <2>6 DEF Ready, DataIn
    <3>2. \A j \in 1..(i - 1) : j \in 1..Len(net[f])
      BY <2>2, <3>1
    <3> QED
      BY <2>4, <2>5, <3>1, <3>2 DEF Relieved, Ack
  <2> QED
    BY <2>5, <2>6, <2>7 DEF Ready
<1>5. CASE HandleAck(e, 1) /\ state[e] # "RA"
  BY <1>1, <1>2, <1>5, ReadySame DEF HandleAck
<1>6. CASE HandleLiveness(e, 1)
  <2>1. Ready(Consumed(e, 1))
    BY <1>2, <1>6 DEF HandleLiveness, Ack, Liveness
  <2>2. CASE state[e] = "RD" /\ TakeAndSend(e, Consumed(e, 1))
    <3>1. HasTurn(e) /\ \A f \in End : DataIn(net, f) = {}
      BY <1>1, <2>2 DEF HasTurn, IInv, NetOK, Exclusive
    <3>2. \A f \in End : DataIn(Consumed(e, 1), f) = {}
      <4>1. DataIn(Consumed(e, 1), e) = {}
        BY <1>1, <3>1, ConsumedData
      <4>2. \A f \in End : f # e => DataIn(Consumed(e, 1), f) = {}
        BY <1>1, <3>1, ConsumedData
      <4> QED
        BY <4>1, <4>2
    <3> QED
      BY <1>1, <1>2, <2>1, <2>2, <3>1, <3>2, ReadyTake DEF IInv
  <2>3. CASE state[e] = "RD" /\ SendLiveness(e, Consumed(e, 1))
    <3>1. net' = Send(Consumed(e, 1), Peer(e), Liveness) /\ UNCHANGED state
      BY <2>3 DEF SendLiveness
    <3>2. Ready(Send(Consumed(e, 1), Peer(e), Liveness))
      BY <1>1, <1>2, <2>1, ReadySend, DatagramTypes
    <3> QED
      BY <1>1, <3>1, <3>2, ReadySame
  <2>4. CASE state[e] # "RD"
    BY <1>1, <1>6, <2>1, <2>4, ReadySame DEF HandleLiveness
  <2> QED
    BY <1>6, <2>2, <2>3, <2>4 DEF HandleLiveness
<1> QED
  BY <1>1, <1>3, <1>4, <1>5, <1>6

LEMMA ReliableStep ==
  ASSUME Reliable, TypeOK, IInv, Ready(net), ServerWaits, [Next]_vars
  PROVE  Ready(net)' /\ ServerWaits'
<1>1. NetType(net) /\ Quiet(net) /\ Awaited(net)
  BY DEF IInv, NetOK
<1>2. /\ "client" \in End /\ "server" \in End /\ \A e \in End : e = "client" \/ e = "server"
      /\ Peer("client") = "server" /\ Peer("server") = "client"
  BY DEF End, Peer
<1>3. \A e \in End : ~Connected(e) => net[e] = <<>> /\ DataIn(net, e) = {}
  BY <1>1 DEF Quiet, DataIn
<1>4. CASE ServerConnects
  <2>1. /\ UNCHANGED net /\ ~Connected("server")
        /\ link_state' = [link_state EXCEPT !["server"] = "connected"]
        /\ state' = [state EXCEPT !["server"] = "WT"]
    BY <1>2, <1>4 DEF ServerConnects, Fresh
  <2>2. /\ state'["server"] = "WT" /\ state'["client"] = state["client"]
        /\ ~HasTurn("server")'
    BY <1>2, <2>1 DEF HasTurn, TypeOK
  <2>3. /\ \A k : Relieved(net, "server", k)'
        /\ \A i \in DataIn(net, "client")' : i \in DataIn(net, "client")
        /\ \A i : Relieved(net, "client", i) => Relieved(net, "client", i)'
    BY <2>1, <2>2 DEF Relieved, DataIn, Ack
  <2>4. \A e \in End : \A i \in DataIn(net, e)' : Relieved(net, e, i)'
    BY <1>2, <2>3 DEF Ready
  <2>5. \A e \in End : HasTurn(e)' => Relieved(net, Peer(e), Len(net[Peer(e)]) + 1)'
    BY <1>2, <2>2, <2>3
  <2> QED
    BY <2>2, <2>4, <2>5 DEF Ready, ServerWaits
<1>5. CASE ClientConnects
  <2>1. /\ ~Connected("client") /\ offer /\ UNCHANGED net /\ ~offer'
        /\ link_state' = [link_state EXCEPT !["client"] = "connected"]
        /\ state' = [state EXCEPT !["client"] = "RD"]
    BY <1>2, <1>5 DEF ClientConnects, Fresh
  <2>2. state'["server"] = state["server"] /\ link_state'["server"] = link_state["server"]
    BY <1>2, <2>1 DEF TypeOK
  <2>3. /\ ~HasTurn("server")' /\ \A e \in End : DataIn(net, e)' = {}
    <3>1. ~HasTurn("server") /\ DataIn(net, "server") = {} /\ DataIn(net, "client") = {}
      BY <1>1, <1>2, <1>3, <2>1 DEF Awaited
    <3> QED
      BY <1>2, <2>1, <2>2, <3>1 DEF HasTurn, Connected, DataIn
  <2>4. Connected("server")' => \A k : Relieved(net, "server", k)'
    BY <2>1, <2>2 DEF Relieved, ServerWaits, Connected
  <2>5. \A e \in End : HasTurn(e)' /\ Connected(Peer(e))' =>
          Relieved(net, Peer(e), Len(net[Peer(e)]) + 1)'
    BY <1>2, <2>3, <2>4
  <2> QED
    BY <2>1, <2>3, <2>5 DEF Ready, ServerWaits
<1>6. ASSUME NEW e \in End, Disconnects(e)
      PROVE  Ready(net)' /\ ServerWaits'
  <2>1. /\ link_state' = [link_state EXCEPT ![e] = "disconnected"]
        /\ net' = [net EXCEPT ![e] = <<>>] /\ UNCHANGED <<state, offer>>
    BY <1>6 DEF Disconnects
  <2>2. /\ ~Connected(e)' /\ net'[e] = <<>>
        /\ \A f \in End : f # e => net'[f] = net[f] /\ link_state'[f] = link_state[f]
    BY <2>1, <1>1 DEF Connected, TypeOK, NetType
  <2>3. ~HasTurn(e)' /\ DataIn(net, e)' = {}
    BY <2>2 DEF HasTurn, DataIn
  <2>4. \A f \in End : f # e => Peer(f) = e /\ ~Connected(Peer(f))'
    BY <1>2, <2>2
  <2>5. \A f \in End : \A i \in DataIn(net, f)' : Relieved(net, f, i)'
    <3> SUFFICES ASSUME NEW f \in End, f # e, NEW i \in DataIn(net, f)'
                 PROVE  Relieved(net, f, i)'
      BY <2>3
    <3>1. Relieved(net, f, i)
      BY <2>2 DEF Ready, DataIn
    <3> QED
      BY <2>1, <2>2, <3>1 DEF Relieved, Ack
  <2>6. \A f \in End : ~(HasTurn(f)' /\ Connected(Peer(f))')
    BY <2>3, <2>4
  <2>7. ServerWaits'
    BY <1>2, <2>1, <2>2 DEF ServerWaits, Connected
  <2> QED
    BY <2>5, <2>6, <2>7 DEF Ready
<1>7. ASSUME NEW e \in End, Lose(e) \/ LoseOffer PROVE FALSE
  BY <1>7 DEF Reliable, Lose, LoseOffer
<1>8. CASE UNCHANGED <<link_state, state, net, offer>>
  BY <1>8, ReadySame DEF ServerWaits, Connected
<1>9. ASSUME NEW e \in End, Write(e)
      PROVE  Ready(net)' /\ ServerWaits'
  BY <1>8, <1>9 DEF Write, protocol
<1>10. ASSUME NEW e \in End, ProcessSend(e) \/ Receive(e)
       PROVE  ServerWaits'
  <2>1. UNCHANGED <<link_state, offer>> /\ Connected(e)
    BY <1>10 DEF ProcessSend, Receive
  <2> SUFFICES ASSUME offer, Connected("server") PROVE state'["server"] = "WT"
    BY <2>1 DEF ServerWaits, Connected
  <2>2. /\ e = "server" /\ state["server"] = "WT" /\ DataIn(net, "server") = {}
    BY <1>1, <1>2, <2>1 DEF Awaited, ServerWaits
  <2>3. \A i \in Arrivals(e) : net[e][i].kind # "DATA"
    BY <2>2 DEF Arrivals, DataIn
  <2>4. Receive(e)
    BY <1>10, <2>2 DEF ProcessSend
  <2>5. PICK i \in Arrivals(e) : HandleData(e, i) \/ HandleAck(e, i) \/ HandleLiveness(e, i)
    BY <2>4 DEF Receive
  <2>6. UNCHANGED state
    BY <2>2, <2>3, <2>5 DEF HandleData, HandleAck, HandleLiveness
  <2> QED
    BY <2>2, <2>6
<1>11. ASSUME NEW e \in End, ProcessSend(e)
       PROVE  Ready(net)'
  <2>1. UNCHANGED link_state /\ HasTurn(e)
    BY <1>11 DEF ProcessSend, HasTurn
  <2>2. CASE TakeAndSend(e, net)
    BY <1>1, <2>1, <2>2, ReadyTake DEF IInv, NetOK, Exclusive
  <2>3. CASE SendLiveness(e, net)
    <3>1. net' = Send(net, Peer(e), Liveness) /\ UNCHANGED state
      BY <2>3 DEF SendLiveness
    <3>2. Ready(Send(net, Peer(e), Liveness))
      BY <1>1, ReadySend, DatagramTypes, PeerFacts
    <3> QED
      BY <2>1, <3>1, <3>2, ReadySame
  <2> QED
    BY <1>11, <2>2, <2>3 DEF ProcessSend
<1>12. ASSUME NEW e \in End, Receive(e)
       PROVE  Ready(net)'
  BY <1>12, ReadyReceive
<1>13. CASE UNCHANGED vars
  BY <1>8, <1>13 DEF vars
<1>14. ASSUME NEW e \in End, Disconnects(e) \/ Write(e) \/ ProcessSend(e) \/ Receive(e) \/ Lose(e)
       PROVE  Ready(net)' /\ ServerWaits'
  BY <1>6, <1>7, <1>9, <1>10, <1>11, <1>12, <1>14
<1>15. ~LoseOffer
  BY <1>2, <1>7
<1> QED
  BY <1>4, <1>5, <1>13, <1>14, <1>15 DEF Next

\* On a link that neither loses nor reorders, an end is in WT whenever a DATA
\* datagram reaches it, although an ACK of an earlier item may let it leave RA too
\* early, and whenever its session or its peer's ends and another one begins
\* (SliceProtocol.py:93-101, :103-110).
THEOREM NothingIsDiscarded ==
  ASSUME Reliable
  PROVE  Spec => []NoDataDiscarded
<1>1. Init => Ready(net) /\ ServerWaits
  BY DEF Init, Ready, ServerWaits, DataIn, HasTurn, Connected, End
<1>2. TypeOK /\ IInv /\ Ready(net) /\ ServerWaits /\ [Next]_vars => (Ready(net) /\ ServerWaits)'
  BY ReliableStep
<1>3. Ready(net) => NoDataDiscarded
  <2> SUFFICES ASSUME Ready(net), NEW e \in End, NEW i \in Arrivals(e), net[e][i].kind = "DATA"
               PROVE  state[e] = "WT"
    BY DEF NoDataDiscarded
  <2>1. i = 1 /\ i \in DataIn(net, e)
    BY DEF Arrivals, Reliable, DataIn
  <2>2. 1..(1 - 1) = {}
    OBVIOUS
  <2> QED
    BY <2>1, <2>2 DEF Ready, Relieved
<1> QED
  BY <1>1, <1>2, <1>3, InductiveInvariant, PTL DEF Spec

-----------------------------------------------------------------------------
(* The chunk protocol (ChunkProtocol.tla): it takes no step that the slice *)
(* protocol does not take, so that what holds there holds here; and its    *)
(* server receives nothing.                                                *)

\* A step of the chunk protocol is one of the slice protocol, or the capture of
\* an event loop, which that protocol does not see.
LEMMA ChunkStep == [ChunkNext]_chunkVars => [Next]_vars
<1> SUFFICES ASSUME [ChunkNext]_chunkVars PROVE Next \/ UNCHANGED vars
  OBVIOUS
<1>1. ASSUME NEW e \in End, ChunkConnects(e) PROVE Next
  BY <1>1 DEF ChunkConnects, Next
<1>2. ASSUME NEW e \in End, ChunkDisconnects(e) PROVE Next
  BY <1>2 DEF ChunkDisconnects, Next
<1>3. ASSUME NEW e \in End, ChunkProcessSend(e) PROVE Next \/ UNCHANGED vars
  BY <1>3 DEF ChunkProcessSend, Next
<1>4. ASSUME NEW e \in End, ChunkReceive(e) PROVE Next
  BY <1>4 DEF ChunkReceive, Next
<1>5. ASSUME NEW e \in End, Write(e) \/ Lose(e) PROVE Next
  BY <1>5 DEF Next
<1>6. CASE LoseOffer
  BY <1>6 DEF Next
<1>7. CASE UNCHANGED chunkVars
  BY <1>7 DEF chunkVars
<1> QED
  BY <1>1, <1>2, <1>3, <1>4, <1>5, <1>6, <1>7 DEF ChunkNext

\* The chunk protocol implements the slice protocol.
THEOREM ChunkIsSlice == ChunkSpec => Spec
<1>1. ChunkInit => Init
  BY DEF ChunkInit
<1> QED
  BY <1>1, ChunkStep, PTL DEF ChunkSpec, Spec

\* Under the chunk protocol, too, only one side may send.
THEOREM ChunkTokenIsUnique == ChunkSpec => []OneToken
  BY ChunkIsSlice, TokenIsUnique, PTL

-----------------------------------------------------------------------------
(* The server.                                                             *)

\* The inductive invariant: until its event loop is captured, the server has
\* not had a round, and it is where it started.
Unpolled ==
  /\ captured \in [End -> BOOLEAN] /\ polled \in [End -> BOOLEAN]
  /\ ServerStuck
  /\ ServerNeverReads
  /\ ~captured["server"] => state["server"] = "WT"

LEMMA EndIs == End = {"client", "server"} /\ "client" # "server"
  BY DEF End

\* What others do leaves the server's variables alone.
LEMMA UnpolledSame ==
  ASSUME Unpolled, UNCHANGED <<captured, polled>>,
         read_q'["server"] = read_q["server"], state'["server"] = state["server"]
  PROVE  Unpolled'
  BY DEF Unpolled, ServerStuck, ServerNeverReads

\* Connecting makes the state machine anew, and starts a send task.
LEMMA ChunkConnectsStep ==
  ASSUME TypeOK, Unpolled, NEW e \in End, ChunkConnects(e)
  PROVE  Unpolled'
<1>1. /\ UNCHANGED <<captured, read_q>>
      /\ polled' = [polled EXCEPT ![e] = FALSE]
      /\ state' = [state EXCEPT ![e] = IF e = "client" THEN "RD" ELSE "WT"]
  BY EndIs DEF ChunkConnects, ServerConnects, ClientConnects, Fresh
<1>2. state' ["server"] = IF e = "server" THEN "WT" ELSE state["server"]
  BY <1>1, EndIs DEF TypeOK
<1>3. polled' \in [End -> BOOLEAN] /\ (polled'["server"] => polled["server"])
  BY <1>1, EndIs DEF Unpolled
<1> QED
  BY <1>1, <1>2, <1>3 DEF Unpolled, ServerStuck, ServerNeverReads

\* A round of the server is its last; one of the client is not its business.
LEMMA ChunkProcessSendStep ==
  ASSUME TypeOK, Unpolled, NEW e \in End, ChunkProcessSend(e)
  PROVE  Unpolled'
<1>1. read_q' = read_q /\ polled' = [polled EXCEPT ![e] = TRUE]
  BY DEF ChunkProcessSend, ProcessSend, vars
<1>2. CASE e = "server"
  <2>1. state["server"] = "WT"
    BY <1>2 DEF ChunkProcessSend, Free, Unpolled
  <2>2. /\ captured' = [captured EXCEPT !["server"] = TRUE]
        /\ UNCHANGED state
    BY <1>2, <2>1 DEF ChunkProcessSend, ProcessSend, vars
  <2> QED
    BY <1>1, <1>2, <2>2, EndIs DEF Unpolled, ServerStuck, ServerNeverReads
<1>3. CASE e = "client"
  <2>1. /\ captured' \in [End -> BOOLEAN]
        /\ captured'["server"] = captured["server"]
    BY <1>3, EndIs DEF ChunkProcessSend, Unpolled
  <2>2. state'["server"] = state["server"]
    BY <1>3, EndIs DEF ChunkProcessSend, ProcessSend, TakeAndSend, SendLiveness,
                       vars, TypeOK
  <2>3. polled' \in [End -> BOOLEAN] /\ polled'["server"] = polled["server"]
    BY <1>1, <1>3, EndIs DEF Unpolled
  <2> QED
    BY <1>1, <2>1, <2>2, <2>3 DEF Unpolled, ServerStuck, ServerNeverReads
<1> QED
  BY <1>2, <1>3, EndIs

\* Only the client can receive: the server would have had to have a round.
LEMMA ChunkReceiveStep ==
  ASSUME TypeOK, Unpolled, NEW e \in End, ChunkReceive(e)
  PROVE  Unpolled'
<1>1. e = "client"
  BY EndIs DEF ChunkReceive, Free, Unpolled, ServerStuck
<1>2. /\ read_q'["server"] = read_q["server"]
      /\ state'["server"] = state["server"]
  BY ZenonT(40), <1>1, EndIs DEF ChunkReceive, Receive, HandleData, HandleAck, HandleLiveness,
                     TakeAndSend, SendLiveness, TypeOK
<1> QED
  BY <1>2, UnpolledSame DEF ChunkReceive, loops

\* The server of a chunk link never receives anything, and after its first round
\* it is stuck for good.
THEOREM ServerIsCaptured == ChunkSpec => [](ServerNeverReads /\ ServerStuck)
<1>1. ChunkInit => Unpolled
  BY EndIs DEF ChunkInit, Init, Unpolled, ServerStuck, ServerNeverReads
<1>2. TypeOK /\ Unpolled /\ [ChunkNext]_chunkVars => Unpolled'
  <2> SUFFICES ASSUME TypeOK, Unpolled, [ChunkNext]_chunkVars PROVE Unpolled'
    OBVIOUS
  <2>1. ASSUME NEW e \in End, ChunkDisconnects(e) \/
                 ((Write(e) \/ Lose(e)) /\ UNCHANGED loops)
        PROVE  Unpolled'
    BY <2>1, UnpolledSame
    DEF ChunkDisconnects, Disconnects, Write, Lose, loops, protocol
  <2>2. CASE LoseOffer /\ UNCHANGED loops
    BY <2>2, UnpolledSame DEF LoseOffer, loops
  <2>3. CASE UNCHANGED chunkVars
    BY <2>3, UnpolledSame DEF chunkVars, vars
  <2> QED
    BY <2>1, <2>2, <2>3, ChunkConnectsStep, ChunkProcessSendStep, ChunkReceiveStep
    DEF ChunkNext
<1>3. Unpolled => ServerNeverReads /\ ServerStuck
  BY DEF Unpolled
<1> QED
  BY <1>1, <1>2, <1>3, ChunkIsSlice, TypeCorrect, PTL DEF ChunkSpec
=============================================================================
