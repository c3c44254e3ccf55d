----------------------------- MODULE Agent_proofs -----------------------------
(***************************************************************************)
(* Proofs about Agent.tla, for every network: the types, the paths that    *)
(* the root gathers and the instance that they are about, whatever is lost, *)
(* fails or dies; and, as long as no link fails, that the rootward ports   *)
(* lead to the root, that leafward ports are of children, and that no      *)
(* agent dies.                                                             *)
(***************************************************************************)
EXTENDS Agent, SequenceLemmas

-----------------------------------------------------------------------------
(* The messages that a port may have sent, and where they are.             *)

\* Every message that q has sent is in S[q], wherever on its way it is.
Carry(S, wq, nt, rq) ==
  \A p \in Port :
    /\ wq[p] \in Seq(S[p])
    /\ nt[p] \in Seq(S[PeerOf[p]] \cup {YesIAm})
    /\ rq[p] \in Seq(S[PeerOf[p]])

-----------------------------------------------------------------------------
(* The inductive invariants.                                               *)

\* An ack that q sends starts with q, or with a port of the same node that it came
\* in by, and goes on along links to the far end of the last one.
PathFits(path, q) ==
  /\ path # <<>>
  /\ NodeOf[path[1]] = NodeOf[q]
  /\ \A i \in 1..(Len(path) - 1) : NodeOf[path[i + 1]] = NodeOf[PeerOf[path[i]]]
  /\ path[Len(path)] = IF Len(path) = 1 THEN q ELSE PeerOf[path[Len(path) - 1]]

Fitting == [q \in Port |->
  {m \in Message : m.type = "TREE_BUILD_ACK" => PathFits(m.path, q)}]

RootwardIsOwn == \A n \in Node : Known(n) => trees[n].rootward \in PortsOf(n)

PathInv == Carry(Fitting, write_q, net, read_q) /\ RootwardIsOwn /\ PathsAreWalkable

\* While no link fails, there is one instance: the root sends it, and a node that
\* holds it passes it on from where it stands, or acknowledges it rootward.
Holds(q) == Known(NodeOf[q])
FromRoot(m, q) == q = Root /\ m.hops = 0
FromHolder(m, q) == Holds(q) /\ m.hops = trees[NodeOf[q]].hops
Faithful == [q \in Port |->
  {m \in Message :
     /\ instance = 1
     /\ m.type # "TREE_BUILD_INVALIDATION" /\ m.inst = 1
     /\ m.type = "TREE_BUILD" => FromRoot(m, q) \/ FromHolder(m, q)
     /\ m.type = "TREE_BUILD_ACK" => Holds(q) /\ trees[NodeOf[q]].rootward = q}]

\* No port is told of an end, and the root is told of its link once.
SignalsOnce ==
  /\ \A p \in Port : signal_q[p] \in Seq({"CONNECTED"})
  /\ instance \in {0, 1}
  /\ ~up[Root] => signal_q[Root] = <<>> /\ instance = 0
  /\ signal_q[Root] # <<>> => Len(signal_q[Root]) = 1 /\ instance = 0
  /\ instance = 1 => port_paths # None

\* Who holds the tree holds that instance; the first to hold it is next to the root.
TreesFaithful ==
  \A n \in Node : Known(n) =>
    /\ instance = 1 /\ trees[n].inst = 1 /\ trees[n].hops # 0
    /\ trees[n].rootward \in PortsOf(n)
    /\ Holds(PeerOf[Root])

NoFailure == MaxDowns = 0

TreeInv ==
  /\ Carry(Faithful, write_q, net, read_q) /\ SignalsOnce /\ TreesFaithful
  /\ RootwardLeadsToRoot /\ LeafwardPortsAreChildren /\ AgentsSurvive

-----------------------------------------------------------------------------
(* Ports, nodes and sequences.                                             *)

LEMMA PortFacts ==
  ASSUME NEW p \in Port
  PROVE  PeerOf[p] \in Port /\ PeerOf[PeerOf[p]] = p /\ NodeOf[p] \in Node
BY AgentAssumption DEF Node

LEMMA SeqWiden ==
  ASSUME NEW A, NEW B, A \subseteq B, NEW s \in Seq(A)
  PROVE  s \in Seq(B)
<1>1. Len(s) \in Nat /\ s \in [1..Len(s) -> A]
  OBVIOUS
<1>2. s \in [1..Len(s) -> B]
  BY <1>1
<1> QED
  BY <1>1, <1>2

LEMMA HeadTail ==
  ASSUME NEW S, NEW s \in Seq(S), s # <<>>
  PROVE  Head(s) \in S /\ Tail(s) \in Seq(S)
OBVIOUS

LEMMA Messages ==
  /\ \A i, h \in Nat : /\ TreeBuild(i, h) \in Message /\ TreeBuild(i, h).type = "TREE_BUILD"
                       /\ TreeBuild(i, h).inst = i /\ TreeBuild(i, h).hops = h
  /\ \A i \in Nat, path \in Seq(Port) :
       /\ TreeBuildAck(i, path) \in Message /\ TreeBuildAck(i, path).type = "TREE_BUILD_ACK"
       /\ TreeBuildAck(i, path).inst = i /\ TreeBuildAck(i, path).path = path
  /\ Invalidation \in Message /\ Invalidation.type = "TREE_BUILD_INVALIDATION"
  /\ \A m \in Message :
       /\ m.type = "TREE_BUILD" => m.inst \in Nat /\ m.hops \in Nat
       /\ m.type = "TREE_BUILD_ACK" => m.inst \in Nat /\ m.path \in Seq(Port)
<1>1. /\ \A i, h \in Nat : TreeBuild(i, h) \in [type : {"TREE_BUILD"}, inst : Nat, hops : Nat]
      /\ \A i, h \in Nat : /\ TreeBuild(i, h).type = "TREE_BUILD"
                           /\ TreeBuild(i, h).inst = i /\ TreeBuild(i, h).hops = h
  BY DEF TreeBuild
<1>2. /\ \A i \in Nat, path \in Seq(Port) :
           TreeBuildAck(i, path) \in [type : {"TREE_BUILD_ACK"}, inst : Nat, path : Seq(Port)]
      /\ \A i \in Nat, path \in Seq(Port) :
           /\ TreeBuildAck(i, path).type = "TREE_BUILD_ACK"
           /\ TreeBuildAck(i, path).inst = i /\ TreeBuildAck(i, path).path = path
  BY DEF TreeBuildAck
<1>3. Invalidation.type = "TREE_BUILD_INVALIDATION"
  BY DEF Invalidation
<1>4. ASSUME NEW m \in Message
      PROVE  /\ m.type = "TREE_BUILD" => m.inst \in Nat /\ m.hops \in Nat
             /\ m.type = "TREE_BUILD_ACK" => m.inst \in Nat /\ m.path \in Seq(Port)
  <2>1. \/ m \in [type : {"TREE_BUILD"}, inst : Nat, hops : Nat]
        \/ m \in [type : {"TREE_BUILD_ACK"}, inst : Nat, path : Seq(Port)]
        \/ m = Invalidation
    BY DEF Message
  <2> QED
    BY <1>3, <2>1
<1> QED
  BY <1>1, <1>2, <1>3, <1>4 DEF Message

\* A message put in some queues, once or several times.
LEMMA PutFacts ==
  ASSUME NEW S, NEW q, \A p \in Port : q[p] \in Seq(S[p]), NEW ports, NEW m,
         \A p \in ports \cap Port : m \in S[p]
  PROVE  \A p \in Port : Put(q, ports, m)[p] \in Seq(S[p])
<1>1. \A A : \A s \in Seq(A), x \in A : Append(s, x) \in Seq(A)
  OBVIOUS
<1> QED
  BY <1>1 DEF Put

LEMMA PutLeafwardFacts ==
  ASSUME NEW S, NEW q, \A p \in Port : q[p] \in Seq(S[p]), NEW leafward \in Seq(Port), NEW m,
         \A p \in Port : m \in S[p]
  PROVE  \A p \in Port : PutLeafward(q, leafward, m)[p] \in Seq(S[p])
<1> SUFFICES ASSUME NEW p \in Port PROVE PutLeafward(q, leafward, m)[p] \in Seq(S[p])
  OBVIOUS
<1> DEFINE n == Cardinality({j \in DOMAIN leafward : leafward[j] = p})
           copies == [i \in 1..n |-> m]
<1>1. n \in Nat
  BY PlacesFinite DEF Places
<1>2. m \in S[p]
  OBVIOUS
<1> HIDE DEF n
<1>3. copies \in [1..n -> S[p]]
  BY <1>2
<1>4. copies \in Seq(S[p])
  BY <1>1, <1>3
<1>5. PutLeafward(q, leafward, m)[p] = q[p] \o copies
  BY DEF PutLeafward, n
<1> HIDE DEF copies
<1> QED
  BY <1>4, <1>5, ConcatProperties

-----------------------------------------------------------------------------
(* What the links do to messages.                                          *)

LEMMA LinkCarry ==
  ASSUME TypeOK, NEW S, Carry(S, write_q, net, read_q), NEW p \in Port, Link(p)
  PROVE  Carry(S, write_q', net', read_q')
<1> DEFINE N(x) == S[PeerOf[x]] \cup {YesIAm}
<1>1. /\ DOMAIN write_q = Port /\ DOMAIN net = Port /\ DOMAIN read_q = Port
      /\ PeerOf[p] \in Port /\ PeerOf[PeerOf[p]] = p
  BY PortFacts DEF TypeOK, Queue
<1>2. \A x \in Port : write_q[x] \in Seq(S[x]) /\ net[x] \in Seq(N(x)) /\ read_q[x] \in Seq(S[PeerOf[x]])
  BY DEF Carry
<1>3. \A A : \A s \in Seq(A) : \A x \in A : Append(s, x) \in Seq(A)
  OBVIOUS
<1>4. ASSUME NEW x \in Port, NEW s \in Seq(N(x)), net' = [net EXCEPT ![x] = s],
             UNCHANGED <<write_q, read_q>>
      PROVE  Carry(S, write_q', net', read_q')
  BY <1>1, <1>2, <1>4 DEF Carry
<1>5. CASE ServerUp(p)
  <2>1. Append(net[PeerOf[p]], YesIAm) \in Seq(N(PeerOf[p]))
    BY <1>1, <1>2, <1>3
  <2>2. net' = [net EXCEPT ![PeerOf[p]] = Append(net[PeerOf[p]], YesIAm)] /\ UNCHANGED <<write_q, read_q>>
    BY <1>5 DEF ServerUp
  <2> QED
    BY <1>1, <1>4, <2>1, <2>2
<1>6. CASE ClientUp(p) \/ Ignore(p)
  <2>1. net[p] # <<>> /\ net' = [net EXCEPT ![p] = Tail(net[p])] /\ UNCHANGED <<write_q, read_q>>
    BY <1>6 DEF ClientUp, Ignore
  <2>2. Tail(net[p]) \in Seq(N(p))
    BY <1>2, <2>1, HeadTail
  <2> QED
    BY <1>4, <2>1, <2>2
<1>7. CASE ConnectionLost(p)
  <2>1. <<>> \in Seq(N(p))
    OBVIOUS
  <2>2. net' = [net EXCEPT ![p] = <<>>] /\ UNCHANGED <<write_q, read_q>>
    BY <1>7 DEF ConnectionLost
  <2> QED
    BY <1>4, <2>1, <2>2
<1>8. CASE ProcessSend(p)
  <2>1. /\ write_q[p] # <<>> /\ UNCHANGED read_q
        /\ net' = [net EXCEPT ![PeerOf[p]] = Append(net[PeerOf[p]], Head(write_q[p]))]
        /\ write_q' = [write_q EXCEPT ![p] = Tail(write_q[p])]
    BY <1>8 DEF ProcessSend
  <2>2. Head(write_q[p]) \in S[p] /\ Tail(write_q[p]) \in Seq(S[p])
    BY <1>2, <2>1, HeadTail
  <2>3. Append(net[PeerOf[p]], Head(write_q[p])) \in Seq(N(PeerOf[p]))
    BY <1>1, <1>2, <1>3, <2>2
  <2> QED
    BY <1>1, <1>2, <2>1, <2>2, <2>3 DEF Carry
<1>9. CASE HandleNormalPacket(p)
  <2>1. /\ net[p] # <<>> /\ UNCHANGED write_q
        /\ net' = [net EXCEPT ![p] = Tail(net[p])]
        /\ read_q' = IF Head(net[p]) = YesIAm THEN read_q
                     ELSE [read_q EXCEPT ![p] = Append(read_q[p], Head(net[p]))]
    BY <1>9 DEF HandleNormalPacket
  <2>2. Head(net[p]) \in N(p) /\ Tail(net[p]) \in Seq(N(p))
    BY <1>2, <2>1, HeadTail
  <2>3. CASE Head(net[p]) = YesIAm
    BY <1>4, <2>1, <2>2, <2>3
  <2>4. CASE Head(net[p]) # YesIAm
    <3>1. Append(read_q[p], Head(net[p])) \in Seq(S[PeerOf[p]])
      BY <1>2, <1>3, <2>2, <2>4
    <3> QED
      BY <1>1, <1>2, <2>1, <2>2, <2>4, <3>1 DEF Carry
  <2> QED
    BY <2>3, <2>4
<1>10. CASE Lose(p)
  <2>1. PICK i \in DOMAIN net[p] : net' = [net EXCEPT ![p] = RemoveAt(net[p], i)]
    BY <1>10 DEF Lose
  <2>2. RemoveAt(net[p], i) \in Seq(N(p))
    <3>1. \A A : \A s \in Seq(A) : DOMAIN s = 1..Len(s)
      OBVIOUS
    <3>2. i \in 1..Len(net[p])
      BY <1>2, <3>1
    <3> QED
      BY <1>2, <3>2, RemoveAtProperties
  <2> QED
    BY <1>4, <1>10, <2>1, <2>2 DEF Lose
<1> QED
  BY <1>5, <1>6, <1>7, <1>8, <1>9, <1>10 DEF Link

-----------------------------------------------------------------------------
(* What the agents do to messages.                                         *)

LEMMA EntryTypes ==
  ASSUME TypeOK, NEW n \in Node, Known(n)
  PROVE  /\ trees[n] \in TreeEntry
         /\ trees[n].rootward \in Port /\ trees[n].hops \in Nat /\ trees[n].inst \in Nat
         /\ trees[n].leafward \in Seq(Port)
<1>1. trees[n] \in TreeEntry
  BY DEF TypeOK, Known
<1> QED
  BY <1>1 DEF TreeEntry

LEMMA VisitPuts ==
  ASSUME TypeOK, NEW p \in Port, Visit(p),
         NEW S, \A q \in Port : write_q[q] \in Seq(S[q]),
         /\ signal_q[p] # <<>> /\ Head(signal_q[p]) = "CONNECTED" =>
              /\ p = Root => TreeBuild(instance + 1, 0) \in S[p]
              /\ Known(NodeOf[p]) =>
                   TreeBuild(trees[NodeOf[p]].inst, trees[NodeOf[p]].hops) \in S[p]
         /\ signal_q[p] # <<>> /\ Head(signal_q[p]) = "DISCONNECTED" =>
              \A q \in Port : Invalidation \in S[q]
  PROVE  \A q \in Port : write_q'[q] \in Seq(S[q])
<1> DEFINE n == NodeOf[p]
<1>1. n \in Node /\ DOMAIN write_q = Port
  BY PortFacts DEF TypeOK, Queue
<1>2. CASE UNCHANGED write_q
  BY <1>2
<1>3. CASE signal_q[p] # <<>> /\ Head(signal_q[p]) = "CONNECTED" /\ Connected(p)
  <2> DEFINE own == IF p = Root THEN <<TreeBuild(instance + 1, 0)>> ELSE <<>>
             known == IF Known(n) THEN <<TreeBuild(trees[n].inst, trees[n].hops)>> ELSE <<>>
  <2> DEFINE first == TreeBuild(instance + 1, 0)
             again == TreeBuild(trees[n].inst, trees[n].hops)
  <2>5. \A A : <<>> \in Seq(A) /\ \A x \in A : <<x>> \in Seq(A)
    OBVIOUS
  <2>6. (p = Root => first \in S[p]) /\ (Known(n) => again \in S[p])
    BY <1>3
  <2> HIDE DEF first, again
  <2>1. own \in Seq(S[p])
    BY <2>5, <2>6 DEF first
  <2>2. known \in Seq(S[p])
    BY <2>5, <2>6 DEF again
  <2>3. write_q' = [write_q EXCEPT ![p] = write_q[p] \o own \o known]
    BY <1>3 DEF Connected
  <2> HIDE DEF own, known
  <2>4. write_q[p] \o own \o known \in Seq(S[p])
    BY <2>1, <2>2, ConcatProperties
  <2> QED
    BY <1>1, <2>3, <2>4
<1>4. CASE signal_q[p] # <<>> /\ Head(signal_q[p]) = "DISCONNECTED" /\ Disconnected(p)
  <2>1. \/ UNCHANGED write_q
        \/ Known(n) /\ write_q' = PutLeafward(write_q, trees[n].leafward, Invalidation)
    BY <1>4 DEF Disconnected
  <2>2. Known(n) => trees[n].leafward \in Seq(Port)
    BY <1>1, EntryTypes
  <2> QED
    BY <1>2, <1>4, <2>1, <2>2, PutLeafwardFacts
<1> QED
  BY <1>2, <1>3, <1>4 DEF Visit

\* A message that is taken is one of those that the other end may have sent.
LEMMA TakeFacts ==
  ASSUME TypeOK, NEW p \in Port, TakeMessage(p), read_q[p] # <<>>,
         NEW S, Carry(S, write_q, net, read_q)
  PROVE  Head(read_q[p]) \in S[PeerOf[p]] /\ Head(read_q[p]) \in Message
<1>1. read_q[p] \in Seq(S[PeerOf[p]]) /\ read_q[p] \in Seq(Message)
  BY DEF Carry, TypeOK, Queue
<1> QED
  BY <1>1, HeadTail

LEMMA TakePuts ==
  ASSUME TypeOK, NEW p \in Port, TakeMessage(p),
         NEW S, \A q \in Port : write_q[q] \in Seq(S[q]),
         NEW m, m = Head(read_q[p]),
         read_q[p] # <<>> =>
           LET n == NodeOf[p] IN
           /\ m.type = "TREE_BUILD" /\ ~Known(n) =>
                /\ TreeBuildAck(m.inst, <<p>>) \in S[p]
                /\ \A q \in PortsOf(n) : TreeBuild(m.inst, m.hops + 1) \in S[q]
           /\ m.type = "TREE_BUILD_ACK" /\ Known(n) /\ p # Root =>
                TreeBuildAck(m.inst, PathFrom(p, m.path)) \in S[trees[n].rootward]
           /\ m.type = "TREE_BUILD_INVALIDATION" => \A q \in Port : Invalidation \in S[q]
  PROVE  \A q \in Port : write_q'[q] \in Seq(S[q])
<1> DEFINE n == NodeOf[p]
<1>1. n \in Node
  BY PortFacts
<1>2. CASE UNCHANGED write_q
  BY <1>2
<1>3. CASE read_q[p] # <<>> /\ HandleTreeBuild(p, m) /\ ~Known(n)
  <2> DEFINE first == Put(write_q, {p}, TreeBuildAck(m.inst, <<p>>))
  <2>1. m.type = "TREE_BUILD" /\ write_q' = Put(first, Others(p), TreeBuild(m.inst, m.hops + 1))
    BY <1>3 DEF HandleTreeBuild
  <2>2. \A q \in Port : first[q] \in Seq(S[q])
    <3>1. \A q \in {p} \cap Port : TreeBuildAck(m.inst, <<p>>) \in S[q]
      BY <1>3, <2>1
    <3> QED
      BY <3>1, PutFacts
  <2>3. \A q \in Others(p) \cap Port : TreeBuild(m.inst, m.hops + 1) \in S[q]
    BY <1>3, <2>1 DEF Others
  <2> HIDE DEF first
  <2> QED
    BY <2>1, <2>2, <2>3, PutFacts
<1>4. CASE read_q[p] # <<>> /\ HandleTreeBuild(p, m) /\ Known(n)
  BY <1>2, <1>4 DEF HandleTreeBuild
<1>5. CASE read_q[p] # <<>> /\ HandleTreeBuildAck(p, m)
  <2>1. \/ UNCHANGED write_q
        \/ /\ m.type = "TREE_BUILD_ACK" /\ Known(n) /\ p # Root
           /\ write_q' = Put(write_q, {trees[n].rootward},
                             TreeBuildAck(m.inst, PathFrom(p, m.path)))
    BY <1>5 DEF HandleTreeBuildAck, Own, Crash
  <2>2. ASSUME m.type = "TREE_BUILD_ACK", Known(n), p # Root
        PROVE  \A q \in {trees[n].rootward} \cap Port : TreeBuildAck(m.inst, PathFrom(p, m.path)) \in S[q]
    BY <1>5, <2>2
  <2> QED
    BY <1>2, <2>1, <2>2, PutFacts
<1>6. CASE read_q[p] # <<>> /\ HandleInvalidation(p, m)
  <2>1. m.type = "TREE_BUILD_INVALIDATION"
    BY <1>6 DEF HandleInvalidation
  <2>2. \/ UNCHANGED write_q
        \/ Known(n) /\ write_q' = PutLeafward(write_q, trees[n].leafward, Invalidation)
    BY <1>6 DEF HandleInvalidation
  <2>3. Known(n) => trees[n].leafward \in Seq(Port)
    BY <1>1, EntryTypes
  <2> QED
    BY <1>2, <1>6, <2>1, <2>2, <2>3, PutLeafwardFacts
<1> QED
  BY <1>2, <1>3, <1>4, <1>5, <1>6 DEF TakeMessage

-----------------------------------------------------------------------------
(* The types.                                                              *)

Sendable == [q \in Port |-> Message]

\* Messages are typed as long as each queue of each port is.
LEMMA TypedCarry ==
  ASSUME TypeOK
  PROVE  Carry(Sendable, write_q, net, read_q)
BY PortFacts DEF TypeOK, Queue, Carry, Sendable

LEMMA CarryTyped ==
  ASSUME NEW wq, NEW nt, NEW rq, Carry(Sendable, wq, nt, rq),
         wq = [p \in Port |-> wq[p]], nt = [p \in Port |-> nt[p]], rq = [p \in Port |-> rq[p]]
  PROVE  Queue(wq, Message) /\ Queue(rq, Message) /\ Queue(nt, Message \cup {YesIAm})
<1>1. \A p \in Port : /\ wq[p] \in Seq(Message) /\ nt[p] \in Seq(Message \cup {YesIAm})
                      /\ rq[p] \in Seq(Message)
  BY PortFacts DEF Carry, Sendable
<1> QED
  BY <1>1 DEF Queue

\* The queues have the ports for their domain, before a step and after.
LEMMA QueueDomains ==
  ASSUME TypeOK, NEW p \in Port, Link(p) \/ Visit(p) \/ TakeMessage(p)
  PROVE  /\ write_q' = [q \in Port |-> write_q'[q]]
         /\ net' = [q \in Port |-> net'[q]]
         /\ read_q' = [q \in Port |-> read_q'[q]]
<1>1. /\ write_q = [q \in Port |-> write_q[q]]
      /\ net = [q \in Port |-> net[q]]
      /\ read_q = [q \in Port |-> read_q[q]]
  BY DEF TypeOK, Queue
<1>2. \A f, x, v : f = [q \in Port |-> f[q]] =>
        [f EXCEPT ![x] = v] = [q \in Port |-> [f EXCEPT ![x] = v][q]]
  OBVIOUS
<1>3. /\ \A q, ports, m : Put(q, ports, m) = [x \in Port |-> Put(q, ports, m)[x]]
      /\ \A q, ports, m : PutLeafward(q, ports, m) = [x \in Port |-> PutLeafward(q, ports, m)[x]]
  BY DEF Put, PutLeafward
<1>4. net' = net \/ \E x, v : net' = [net EXCEPT ![x] = v]
  BY DEF Link, ServerUp, ClientUp, Ignore, ConnectionLost, ProcessSend, HandleNormalPacket,
     Lose, Visit, TakeMessage, links
<1>5. read_q' = read_q \/ \E x, v : read_q' = [read_q EXCEPT ![x] = v]
  BY DEF Link, ServerUp, ClientUp, Ignore, ConnectionLost, ProcessSend, HandleNormalPacket,
     Lose, Visit, TakeMessage, links
<1>6. \/ write_q' = write_q
      \/ \E x, v : write_q' = [write_q EXCEPT ![x] = v]
      \/ \E q, ports, m : write_q' = Put(q, ports, m)
      \/ \E q, ports, m : write_q' = PutLeafward(q, ports, m)
  <2>1. CASE Link(p)
    BY <2>1 DEF Link, ServerUp, ClientUp, Ignore, ConnectionLost, ProcessSend,
       HandleNormalPacket, Lose
  <2>2. CASE Visit(p)
    <3>1. UNCHANGED write_q \/ Connected(p) \/ Disconnected(p)
      BY <2>2 DEF Visit
    <3>2. Connected(p) => \E x, v : write_q' = [write_q EXCEPT ![x] = v]
      BY DEF Connected
    <3>3. Disconnected(p) => \/ write_q' = write_q
                            \/ \E q, ports, m : write_q' = PutLeafward(q, ports, m)
      BY DEF Disconnected
    <3> QED
      BY <3>1, <3>2, <3>3
  <2>3. CASE TakeMessage(p)
    BY <2>3 DEF TakeMessage, HandleTreeBuild, HandleTreeBuildAck, HandleInvalidation, Crash
  <2> QED
    BY <2>1, <2>2, <2>3
<1> QED
  BY <1>1, <1>2, <1>3, <1>4, <1>5, <1>6

LEMMA TypeLink ==
  ASSUME TypeOK, NEW p \in Port, Link(p)
  PROVE  TypeOK'
<1>1. /\ Queue(write_q, Message)' /\ Queue(read_q, Message)'
      /\ Queue(net, Message \cup {YesIAm})'
  <2>1. Carry(Sendable, write_q', net', read_q')
    BY TypedCarry, LinkCarry
  <2> QED
    BY <2>1, QueueDomains, CarryTyped DEF Queue
<1>2. /\ up' \in [Port -> BOOLEAN]
      /\ Queue(signal_q, {"CONNECTED", "DISCONNECTED"})'
      /\ downs' \in Nat
  <2>1. \A s \in Seq({"CONNECTED", "DISCONNECTED"}) :
          /\ Append(s, "CONNECTED") \in Seq({"CONNECTED", "DISCONNECTED"})
          /\ Append(s, "DISCONNECTED") \in Seq({"CONNECTED", "DISCONNECTED"})
    OBVIOUS
  <2>2. CASE UNCHANGED <<up, signal_q, downs>>
    BY <2>2 DEF TypeOK, Queue
  <2>3. CASE Connect(p) /\ UNCHANGED downs
    BY <2>1, <2>3 DEF Connect, TypeOK, Queue
  <2>4. CASE ConnectionLost(p)
    BY <2>1, <2>4 DEF ConnectionLost, TypeOK, Queue
  <2> QED
    BY <2>2, <2>3, <2>4 DEF Link, ServerUp, ClientUp, Ignore, ProcessSend,
       HandleNormalPacket, Lose
<1>3. UNCHANGED agents
  BY DEF Link, ServerUp, ClientUp, Ignore, ConnectionLost, ProcessSend,
     HandleNormalPacket, Lose
<1> QED
  BY <1>1, <1>2, <1>3 DEF TypeOK, agents

LEMMA TypeVisit ==
  ASSUME TypeOK, NEW p \in Port, Visit(p)
  PROVE  TypeOK'
<1> DEFINE n == NodeOf[p]
<1>1. n \in Node
  BY PortFacts
<1>2. UNCHANGED <<up, net, read_q, crashed, downs>>
  BY DEF Visit, links
<1>3. \A q \in Port : write_q'[q] \in Seq(Message)
  <2>1. \A q \in Port : write_q[q] \in Seq(Sendable[q])
    BY DEF TypeOK, Queue, Sendable
  <2>2. /\ TreeBuild(instance + 1, 0) \in Message
        /\ Known(n) => TreeBuild(trees[n].inst, trees[n].hops) \in Message
        /\ Invalidation \in Message
    <3>1. instance + 1 \in Nat /\ 0 \in Nat
      BY DEF TypeOK
    <3> QED
      BY <1>1, <3>1, EntryTypes, Messages
  <2>3. \A q \in Port : Sendable[q] = Message
    BY DEF Sendable
  <2>4. \A q \in Port : write_q'[q] \in Seq(Sendable[q])
    BY <2>1, <2>2, <2>3, VisitPuts
  <2> QED
    BY <2>3, <2>4
<1>4. Queue(write_q, Message)'
  BY <1>3, QueueDomains DEF Queue
<1>5. /\ visiting' \in [Node -> Port \cup {None}]
      /\ Queue(signal_q, {"CONNECTED", "DISCONNECTED"})'
  <2> DEFINE Signal == {"CONNECTED", "DISCONNECTED"}
  <2>1. signal_q \in [Port -> Seq(Signal)]
    BY DEF TypeOK, Queue
  <2>2. signal_q[p] # <<>> => Tail(signal_q[p]) \in Seq(Signal)
    BY <2>1, HeadTail
  <2>3. \/ UNCHANGED signal_q
        \/ signal_q[p] # <<>> /\ signal_q' = [signal_q EXCEPT ![p] = Tail(signal_q[p])]
    BY DEF Visit
  <2>4. signal_q' \in [Port -> Seq(Signal)]
    BY <2>1, <2>2, <2>3
  <2>5. visiting' \in [Node -> Port \cup {None}]
    BY <1>1 DEF Visit, TypeOK
  <2> QED
    BY <2>4, <2>5 DEF Queue
<1>6. /\ trees' \in [Node -> TreeEntry \cup {None}] /\ instance' \in Nat
      /\ port_paths' = None \/ port_paths' \subseteq Seq(Port)
  <2>1. CASE UNCHANGED <<trees, instance, port_paths>>
    BY <2>1 DEF TypeOK
  <2>2. CASE Connected(p)
    <3>1. /\ UNCHANGED trees /\ instance' = IF p = Root THEN instance + 1 ELSE instance
          /\ port_paths' = IF p = Root THEN {} ELSE port_paths
      BY <2>2 DEF Connected
    <3> QED
      BY <3>1 DEF TypeOK
  <2>3. CASE Disconnected(p)
    <3>1. /\ UNCHANGED instance /\ (UNCHANGED trees \/ trees' = [trees EXCEPT ![n] = None])
          /\ (UNCHANGED port_paths \/ port_paths' = None)
      BY <2>3 DEF Disconnected
    <3> QED
      BY <3>1 DEF TypeOK
  <2> QED
    BY <2>1, <2>2, <2>3 DEF Visit
<1> QED
  BY <1>2, <1>4, <1>5, <1>6 DEF TypeOK, Queue

LEMMA TypeTake ==
  ASSUME TypeOK, NEW p \in Port, TakeMessage(p)
  PROVE  TypeOK'
<1> DEFINE n == NodeOf[p]
           m == Head(read_q[p])
<1>1. n \in Node
  BY PortFacts
<1>2. UNCHANGED <<up, net, signal_q, instance, downs>>
  BY DEF TakeMessage, links
<1>3. read_q[p] # <<>> => m \in Message /\ Tail(read_q[p]) \in Seq(Message)
  BY HeadTail DEF TypeOK, Queue
<1>4. Queue(read_q, Message)'
  BY <1>3 DEF TakeMessage, TypeOK, Queue
<1>5. ASSUME read_q[p] # <<>>
      PROVE  /\ m.type = "TREE_BUILD" =>
                  /\ m.inst \in Nat /\ m.hops \in Nat
                  /\ TreeBuildAck(m.inst, <<p>>) \in Message
                  /\ TreeBuild(m.inst, m.hops + 1) \in Message
             /\ m.type = "TREE_BUILD_ACK" =>
                  /\ m.inst \in Nat /\ m.path \in Seq(Port)
                  /\ TreeBuildAck(m.inst, PathFrom(p, m.path)) \in Message
  <2>1. \A path \in Seq(Port) : PathFrom(p, path) \in Seq(Port) /\ <<p>> \in Seq(Port)
    BY DEF PathFrom
  <2>2. <<p>> \in Seq(Port)
    OBVIOUS
  <2>3. \A h \in Nat : h + 1 \in Nat
    OBVIOUS
  <2> HIDE DEF m
  <2> QED
    BY ZenonT(40), <1>3, <1>5, <2>1, <2>2, <2>3, Messages
<1>6. Queue(write_q, Message)'
  <2>1. \A q \in Port : write_q[q] \in Seq(Sendable[q])
    BY DEF TypeOK, Queue, Sendable
  <2>2. \A q \in Port : Sendable[q] = Message
    BY DEF Sendable
  <2>3. Known(n) => trees[n].rootward \in Port
    BY <1>1, EntryTypes
  <2>4. \A q \in PortsOf(n) : q \in Port
    BY DEF PortsOf
  <2>5. \A q \in Port : write_q'[q] \in Seq(Sendable[q])
    <3>1. read_q[p] # <<>> =>
            /\ m.type = "TREE_BUILD" /\ ~Known(n) =>
                 /\ TreeBuildAck(m.inst, <<p>>) \in Sendable[p]
                 /\ \A q \in PortsOf(n) : TreeBuild(m.inst, m.hops + 1) \in Sendable[q]
            /\ m.type = "TREE_BUILD_ACK" /\ Known(n) /\ p # Root =>
                 TreeBuildAck(m.inst, PathFrom(p, m.path)) \in Sendable[trees[n].rootward]
            /\ m.type = "TREE_BUILD_INVALIDATION" => \A q \in Port : Invalidation \in Sendable[q]
      <4>1. Invalidation \in Message
        BY Messages
      <4> HIDE DEF m, n
      <4> QED
        BY <1>5, <2>2, <2>3, <2>4, <4>1
    <3> QED
      BY <2>1, <3>1, TakePuts
  <2> QED
    BY <2>2, <2>5, QueueDomains DEF Queue
<1>7. visiting' \in [Node -> Port \cup {None}]
  BY <1>1 DEF TakeMessage, TypeOK
<1>8. ASSUME read_q[p] # <<>>, HandleTreeBuild(p, m)
      PROVE  /\ trees' \in [Node -> TreeEntry \cup {None}] /\ crashed' \in [Node -> BOOLEAN]
             /\ port_paths' = None \/ port_paths' \subseteq Seq(Port)
  <2>1. m.inst \in Nat /\ m.hops \in Nat /\ UNCHANGED <<port_paths, crashed>>
    BY <1>5, <1>8 DEF HandleTreeBuild
  <2>2. Entry(p, m) \in TreeEntry
    BY <2>1 DEF Entry, TreeEntry
  <2>3. UNCHANGED trees \/ trees' = [trees EXCEPT ![n] = Entry(p, m)]
    BY <1>8 DEF HandleTreeBuild
  <2> QED
    BY <1>1, <2>1, <2>2, <2>3 DEF TypeOK
<1>9. ASSUME read_q[p] # <<>>, HandleTreeBuildAck(p, m)
      PROVE  /\ trees' \in [Node -> TreeEntry \cup {None}] /\ crashed' \in [Node -> BOOLEAN]
             /\ port_paths' = None \/ port_paths' \subseteq Seq(Port)
  <2>1. m.path \in Seq(Port)
    BY <1>5, <1>9 DEF HandleTreeBuildAck
  <2>2. Known(n) => WithLeafward(trees[n], p) \in TreeEntry
    <3>1. \A s \in Seq(Port) : Append(s, p) \in Seq(Port)
      OBVIOUS
    <3>2. \A e \in TreeEntry : WithLeafward(e, p) \in TreeEntry
      BY <3>1 DEF WithLeafward, TreeEntry
    <3> QED
      BY <1>1, <3>2, EntryTypes
  <2>3. \/ UNCHANGED trees
        \/ Known(n) /\ trees' = [trees EXCEPT ![n] = WithLeafward(trees[n], p)]
    BY <1>9 DEF HandleTreeBuildAck, Crash
  <2>4. \/ UNCHANGED port_paths
        \/ port_paths # None /\ port_paths' = port_paths \cup {m.path}
    BY <1>9 DEF HandleTreeBuildAck, Crash, Accumulate
  <2>5. UNCHANGED crashed \/ crashed' = [crashed EXCEPT ![n] = TRUE]
    BY <1>9 DEF HandleTreeBuildAck, Crash
  <2> HIDE DEF m
  <2> QED
    BY <1>1, <2>1, <2>2, <2>3, <2>4, <2>5 DEF TypeOK
<1>10. ASSUME HandleInvalidation(p, m)
       PROVE  /\ trees' \in [Node -> TreeEntry \cup {None}] /\ crashed' \in [Node -> BOOLEAN]
              /\ port_paths' = None \/ port_paths' \subseteq Seq(Port)
  BY <1>10 DEF HandleInvalidation, TypeOK
<1>11. /\ trees' \in [Node -> TreeEntry \cup {None}] /\ crashed' \in [Node -> BOOLEAN]
       /\ port_paths' = None \/ port_paths' \subseteq Seq(Port)
  <2>1. CASE UNCHANGED <<trees, port_paths, crashed>>
    BY <2>1 DEF TypeOK
  <2> QED
    BY <1>8, <1>9, <1>10, <2>1 DEF TakeMessage
<1> QED
  BY <1>2, <1>4, <1>6, <1>7, <1>11 DEF TypeOK, Queue

\* Every variable of the agents and of the links between them keeps its type,
\* whatever is lost, fails or dies (Agent.py:52-171).
THEOREM TypeCorrect == Spec => []TypeOK
<1>1. Init => TypeOK
  <2>1. \A S : <<>> \in Seq(S)
    OBVIOUS
  <2> QED
    BY <2>1 DEF Init, TypeOK, Queue
<1>2. TypeOK /\ [Next]_vars => TypeOK'
  <2> SUFFICES ASSUME TypeOK, [Next]_vars PROVE TypeOK'
    OBVIOUS
  <2>1. CASE UNCHANGED vars
    BY <2>1 DEF vars, TypeOK, Queue
  <2> QED
    BY <2>1, TypeLink, TypeVisit, TypeTake DEF Next
<1> QED
  BY <1>1, <1>2, PTL DEF Spec

-----------------------------------------------------------------------------
(* The paths.                                                              *)

LEMMA PathGrows ==
  ASSUME NEW p \in Port, NEW r \in Port, NodeOf[r] = NodeOf[p],
         NEW path \in Seq(Port), PathFits(path, PeerOf[p])
  PROVE  PathFrom(p, path) \in Seq(Port) /\ PathFits(PathFrom(p, path), r)
<1> DEFINE long == PathFrom(p, path)
<1>1. long = <<p>> \o path
  BY DEF PathFrom
<1>2. /\ <<p>> \in Seq(Port) /\ Len(<<p>>) = 1 /\ <<p>>[1] = p
      /\ Len(path) \in Nat /\ Len(path) # 0
  BY DEF PathFits
<1>3. /\ long \in Seq(Port) /\ Len(long) = Len(path) + 1
      /\ \A i \in 1..Len(long) : long[i] = IF i <= 1 THEN <<p>>[i] ELSE path[i - 1]
  BY <1>1, <1>2, ConcatProperties
<1> HIDE DEF long
<1>4. long[1] = p /\ \A i \in 1..Len(path) : long[i + 1] = path[i]
  <2>1. 1 \in 1..Len(long)
    BY <1>2, <1>3
  <2>2. \A i \in 1..Len(path) : i + 1 \in 1..Len(long) /\ ~(i + 1 <= 1) /\ (i + 1) - 1 = i
    BY <1>2, <1>3
  <2> QED
    BY <1>2, <1>3, <2>1, <2>2
<1>5. \A i \in 1..(Len(long) - 1) : NodeOf[long[i + 1]] = NodeOf[PeerOf[long[i]]]
  <2> TAKE i \in 1..(Len(long) - 1)
  <2>1. i \in 1..Len(path) /\ long[i + 1] = path[i]
    BY <1>2, <1>3, <1>4
  <2>2. CASE i = 1
    BY <1>4, <2>1, <2>2 DEF PathFits
  <2>3. CASE i # 1
    <3>1. i - 1 \in 1..(Len(path) - 1) /\ i - 1 \in 1..Len(path) /\ (i - 1) + 1 = i
      BY <1>2, <2>1, <2>3
    <3>2. long[i] = path[i - 1]
      BY <1>4, <3>1
    <3> QED
      BY <2>1, <3>1, <3>2 DEF PathFits
  <2> QED
    BY <2>2, <2>3
<1>6. Len(long) # 1 /\ long # <<>>
  BY <1>2, <1>3
<1>7. long[Len(long)] = PeerOf[long[Len(long) - 1]]
  <2>1. long[Len(long)] = path[Len(path)] /\ Len(long) - 1 = Len(path)
    BY <1>2, <1>3, <1>4
  <2>2. CASE Len(path) = 1
    BY <1>4, <2>1, <2>2 DEF PathFits
  <2>3. CASE Len(path) # 1
    <3>1. Len(path) - 1 \in 1..Len(path) /\ (Len(path) - 1) + 1 = Len(path)
      <4>1. \A k \in Nat : k # 0 /\ k # 1 => k - 1 \in 1..k /\ (k - 1) + 1 = k
        OBVIOUS
      <4> QED
        BY <1>2, <2>3, <4>1
    <3>2. long[Len(path)] = path[Len(path) - 1]
      BY <1>4, <3>1
    <3> QED
      BY <2>1, <2>3, <3>2 DEF PathFits
  <2> QED
    BY <2>2, <2>3
<1> QED
  BY <1>3, <1>4, <1>5, <1>6, <1>7 DEF PathFits, long

LEMMA FittingFacts ==
  ASSUME NEW p \in Port
  PROVE  /\ \A i, h \in Nat : TreeBuild(i, h) \in Fitting[p]
         /\ Invalidation \in Fitting[p]
         /\ \A i \in Nat : TreeBuildAck(i, <<p>>) \in Fitting[p]
         /\ \A m \in Fitting[PeerOf[p]], r \in PortsOf(NodeOf[p]) : m.type = "TREE_BUILD_ACK" =>
              TreeBuildAck(m.inst, PathFrom(p, m.path)) \in Fitting[r]
<1>1. /\ \A i, h \in Nat : TreeBuild(i, h) \in Fitting[p]
      /\ Invalidation \in Fitting[p]
  BY Messages DEF Fitting
<1>2. /\ <<p>> \in Seq(Port) /\ Len(<<p>>) = 1 /\ <<p>>[1] = p /\ <<p>> # <<>>
  OBVIOUS
<1>3. PathFits(<<p>>, p)
  <2> DEFINE path == <<p>>
  <2> HIDE DEF path
  <2>1. path \in Seq(Port) /\ Len(path) = 1 /\ path[1] = p /\ path # <<>>
    BY <1>2 DEF path
  <2>2. 1..(Len(path) - 1) = {}
    BY <2>1
  <2>3. PathFits(path, p)
    BY <2>1, <2>2 DEF PathFits
  <2> QED
    BY <2>3 DEF path
<1>4. \A i \in Nat : TreeBuildAck(i, <<p>>) \in Fitting[p]
  <2>1. \A i \in Nat, path \in Seq(Port) :
          PathFits(path, p) => TreeBuildAck(i, path) \in Fitting[p]
    BY Messages DEF Fitting
  <2> QED
    BY <1>2, <1>3, <2>1
<1>5. ASSUME NEW m \in Fitting[PeerOf[p]], NEW r \in PortsOf(NodeOf[p]), m.type = "TREE_BUILD_ACK"
      PROVE  TreeBuildAck(m.inst, PathFrom(p, m.path)) \in Fitting[r]
  <2>1. m \in Message /\ PathFits(m.path, PeerOf[p])
    BY <1>5, PortFacts DEF Fitting
  <2>2. m.inst \in Nat /\ m.path \in Seq(Port)
    BY <1>5, <2>1, Messages
  <2>3. r \in Port /\ NodeOf[r] = NodeOf[p]
    BY DEF PortsOf
  <2>4. PathFrom(p, m.path) \in Seq(Port) /\ PathFits(PathFrom(p, m.path), r)
    BY <2>1, <2>2, <2>3, PathGrows
  <2> QED
    BY <2>2, <2>3, <2>4, Messages DEF Fitting
<1> QED
  BY <1>1, <1>4, <1>5

LEMMA WalkableFits ==
  /\ PathsAreWalkable <=> (port_paths # None =>
                             \A path \in port_paths : PathFits(path, PeerOf[Root]))
  /\ PathsAreWalkable' <=> (port_paths' # None =>
                              \A path \in port_paths' : PathFits(path, PeerOf[Root]))
<1>1. Root \in Port /\ PeerOf[Root] \in Port
  BY AgentAssumption
<1> QED
  BY <1>1 DEF PathsAreWalkable, PathFits

\* A port that is entered as rootward is one of the node.
LEMMA RootwardStep ==
  ASSUME TypeOK, RootwardIsOwn, NEW p \in Port, Link(p) \/ Visit(p) \/ TakeMessage(p)
  PROVE  RootwardIsOwn'
<1> DEFINE n == NodeOf[p]
<1>1. n \in Node /\ p \in PortsOf(n) /\ DOMAIN trees = Node
  BY PortFacts DEF PortsOf, TypeOK
<1>2. CASE UNCHANGED trees
  BY <1>2 DEF RootwardIsOwn, Known
<1>3. CASE trees' = [trees EXCEPT ![n] = None]
  BY <1>1, <1>3 DEF RootwardIsOwn, Known
<1>4. ASSUME NEW m, trees' = [trees EXCEPT ![n] = Entry(p, m)]
      PROVE  RootwardIsOwn'
  <2>1. Entry(p, m).rootward = p
    BY DEF Entry
  <2> QED
    BY <1>1, <1>4, <2>1 DEF RootwardIsOwn, Known
<1>5. CASE Known(n) /\ trees' = [trees EXCEPT ![n] = WithLeafward(trees[n], p)]
  <2>1. WithLeafward(trees[n], p).rootward = trees[n].rootward
    BY <1>1, <1>5, EntryTypes DEF WithLeafward, TreeEntry
  <2> QED
    BY <1>1, <1>5, <2>1 DEF RootwardIsOwn, Known
<1>6. CASE Link(p)
  BY <1>2, <1>6 DEF Link, ServerUp, ClientUp, Ignore, ConnectionLost, ProcessSend,
     HandleNormalPacket, Lose, agents
<1>7. CASE Visit(p)
  BY <1>2, <1>3, <1>7 DEF Visit, Connected, Disconnected
<1>8. CASE TakeMessage(p)
  <2>1. \/ UNCHANGED trees
        \/ trees' = [trees EXCEPT ![n] = None]
        \/ \E m : trees' = [trees EXCEPT ![n] = Entry(p, m)]
        \/ Known(n) /\ trees' = [trees EXCEPT ![n] = WithLeafward(trees[n], p)]
    BY <1>8 DEF TakeMessage, HandleTreeBuild, HandleTreeBuildAck, HandleInvalidation, Crash
  <2> QED
    BY <1>2, <1>3, <1>4, <1>5, <2>1
<1> QED
  BY <1>6, <1>7, <1>8

LEMMA PathStep ==
  ASSUME TypeOK, PathInv, NEW p \in Port, Link(p) \/ Visit(p) \/ TakeMessage(p)
  PROVE  PathInv'
<1> DEFINE n == NodeOf[p]
           m == Head(read_q[p])
<1>1. n \in Node
  BY PortFacts
<1>2. RootwardIsOwn'
  BY RootwardStep DEF PathInv
<1>3. Carry(Fitting, write_q, net, read_q) /\ PathsAreWalkable
  BY DEF PathInv
<1>4. Fitting' = Fitting
  BY DEF Fitting, PathFits
<1>5. ASSUME Carry(Fitting, write_q', net', read_q'), PathsAreWalkable'
      PROVE  PathInv'
  BY <1>2, <1>4, <1>5 DEF PathInv, Carry
<1>6. CASE Link(p)
  <2>1. Carry(Fitting, write_q', net', read_q')
    BY <1>3, <1>6, LinkCarry
  <2>2. UNCHANGED port_paths
    BY <1>6 DEF Link, ServerUp, ClientUp, Ignore, ConnectionLost, ProcessSend,
       HandleNormalPacket, Lose, agents
  <2> QED
    BY <1>3, <1>5, <2>1, <2>2, WalkableFits
<1>7. CASE Visit(p)
  <2>1. \A q \in Port : write_q'[q] \in Seq(Fitting[q])
    <3>1. /\ TreeBuild(instance + 1, 0) \in Fitting[p]
          /\ Known(n) => TreeBuild(trees[n].inst, trees[n].hops) \in Fitting[p]
      <4>1. instance + 1 \in Nat /\ 0 \in Nat
        BY DEF TypeOK
      <4> QED
        BY <1>1, <4>1, EntryTypes, FittingFacts
    <3>2. \A q \in Port : Invalidation \in Fitting[q]
      BY FittingFacts
    <3>3. \A q \in Port : write_q[q] \in Seq(Fitting[q])
      BY <1>3 DEF Carry
    <3> QED
      BY <1>7, <3>1, <3>2, <3>3, VisitPuts
  <2>2. UNCHANGED <<net, read_q>>
    BY <1>7 DEF Visit, links
  <2>3. UNCHANGED port_paths \/ port_paths' = {} \/ port_paths' = None
    BY <1>7 DEF Visit, Connected, Disconnected
  <2>4. PathsAreWalkable'
    BY <1>3, <2>3, WalkableFits
  <2> QED
    BY <1>3, <1>5, <2>1, <2>2, <2>4 DEF Carry
<1>8. CASE TakeMessage(p)
  <2>1. read_q[p] # <<>> => m \in Fitting[PeerOf[p]] /\ m \in Message
    BY <1>3, <1>8, TakeFacts
  <2>2. \A q \in Port : write_q'[q] \in Seq(Fitting[q])
    <3>1. read_q[p] # <<>> =>
            /\ m.type = "TREE_BUILD" /\ ~Known(n) =>
                 /\ TreeBuildAck(m.inst, <<p>>) \in Fitting[p]
                 /\ \A q \in PortsOf(n) : TreeBuild(m.inst, m.hops + 1) \in Fitting[q]
            /\ m.type = "TREE_BUILD_ACK" /\ Known(n) /\ p # Root =>
                 TreeBuildAck(m.inst, PathFrom(p, m.path)) \in Fitting[trees[n].rootward]
            /\ m.type = "TREE_BUILD_INVALIDATION" => \A q \in Port : Invalidation \in Fitting[q]
      <4>1. \A h \in Nat : h + 1 \in Nat
        OBVIOUS
      <4>2. \A q \in PortsOf(n) : q \in Port
        BY DEF PortsOf
      <4>3. Known(n) => trees[n].rootward \in PortsOf(n)
        BY <1>1 DEF PathInv, RootwardIsOwn
      <4> HIDE DEF m
      <4>4. ASSUME read_q[p] # <<>>, m.type = "TREE_BUILD"
            PROVE  /\ TreeBuildAck(m.inst, <<p>>) \in Fitting[p]
                   /\ \A q \in PortsOf(n) : TreeBuild(m.inst, m.hops + 1) \in Fitting[q]
        <5>1. m.inst \in Nat /\ m.hops + 1 \in Nat
          BY <2>1, <4>1, <4>4, Messages
        <5> QED
          BY <4>2, <5>1, FittingFacts
      <4>5. ASSUME read_q[p] # <<>>, m.type = "TREE_BUILD_ACK", Known(n)
            PROVE  TreeBuildAck(m.inst, PathFrom(p, m.path)) \in Fitting[trees[n].rootward]
        <5>1. m \in Fitting[PeerOf[p]] /\ trees[n].rootward \in PortsOf(NodeOf[p])
          BY <2>1, <4>3, <4>5
        <5> QED
          BY <4>5, <5>1, FittingFacts
      <4>6. \A q \in Port : Invalidation \in Fitting[q]
        BY FittingFacts
      <4> QED
        BY <4>4, <4>5, <4>6
    <3>2. \A q \in Port : write_q[q] \in Seq(Fitting[q])
      BY <1>3 DEF Carry
    <3> QED
      BY <1>8, <3>1, <3>2, TakePuts
  <2>3. /\ UNCHANGED net
        /\ \A q \in Port : read_q'[q] \in Seq(Fitting[PeerOf[q]])
    <3>1. \A q \in Port : read_q[q] \in Seq(Fitting[PeerOf[q]])
      BY <1>3 DEF Carry
    <3>2. read_q[p] # <<>> => Tail(read_q[p]) \in Seq(Fitting[PeerOf[p]])
      BY <3>1, HeadTail
    <3>3. DOMAIN read_q = Port
      BY DEF TypeOK, Queue
    <3>4. \/ UNCHANGED read_q
          \/ read_q[p] # <<>> /\ read_q' = [read_q EXCEPT ![p] = Tail(read_q[p])]
      BY <1>8 DEF TakeMessage
    <3>5. UNCHANGED net
      BY <1>8 DEF TakeMessage, links
    <3> QED
      BY <3>1, <3>2, <3>3, <3>4, <3>5
  <2>4. \/ UNCHANGED port_paths \/ port_paths' = None
        \/ /\ port_paths # None /\ p = Root /\ port_paths' = port_paths \cup {m.path}
           /\ read_q[p] # <<>> /\ m.type = "TREE_BUILD_ACK"
    BY <1>8 DEF TakeMessage, HandleTreeBuild, HandleTreeBuildAck, HandleInvalidation, Crash,
       Own, Accumulate
  <2>5. PathsAreWalkable'
    <3>1. p = Root /\ read_q[p] # <<>> /\ m.type = "TREE_BUILD_ACK" =>
            PathFits(m.path, PeerOf[Root])
      BY <2>1, PortFacts DEF Fitting
    <3> HIDE DEF m
    <3> QED
      BY <1>3, <2>4, <3>1, WalkableFits
  <2> QED
    BY <1>3, <1>5, <2>2, <2>3, <2>5 DEF Carry
<1> QED
  BY <1>6, <1>7, <1>8

LEMMA CarryNothing ==
  ASSUME Init, NEW S
  PROVE  Carry(S, write_q, net, read_q)
<1>1. \A A : <<>> \in Seq(A)
  OBVIOUS
<1> QED
  BY <1>1 DEF Init, Carry

\* However links fail and messages are lost, every path that an ack has gathered
\* leads along links, port by port, to the port that the ack came from
\* (Agent.py:123, :153).
THEOREM PathInvariant == Spec => []PathInv
<1>1. Init => PathInv
  <2>1. Init => RootwardIsOwn /\ PathsAreWalkable
    BY WalkableFits DEF Init, RootwardIsOwn, Known
  <2> QED
    BY <2>1, CarryNothing DEF PathInv
<1>2. TypeOK /\ PathInv /\ [Next]_vars => PathInv'
  <2> SUFFICES ASSUME TypeOK, PathInv, [Next]_vars PROVE PathInv'
    OBVIOUS
  <2>1. CASE UNCHANGED vars
    <3>1. Fitting' = Fitting
      BY DEF Fitting, PathFits
    <3>2. /\ Carry(Fitting, write_q, net, read_q)' /\ RootwardIsOwn'
          /\ UNCHANGED port_paths
      BY <2>1, <3>1 DEF vars, PathInv, Carry, RootwardIsOwn, Known
    <3> QED
      BY <3>2, WalkableFits DEF PathInv
  <2> QED
    BY <2>1, PathStep DEF Next
<1> QED
  BY <1>1, <1>2, TypeCorrect, PTL DEF Spec

\* However links fail and messages are lost, every path in the root's tree leads along
\* links, port by port, to the port that its ack came from
\* (Agent.py:123, :142-154; trees.py:16-21).
THEOREM PathsAreAlwaysWalkable == Spec => []PathsAreWalkable
<1>1. PathInv => PathsAreWalkable
  BY DEF PathInv
<1> QED
  BY <1>1, PathInvariant, PTL

-----------------------------------------------------------------------------
(* The tree, as long as no link fails.                                     *)

NoPathsIsNone == None \notin SUBSET Seq(Port)

\* Who holds the tree keeps it, and where it stands in it.
Stays ==
  /\ \A k \in Node : Known(k) =>
       /\ Known(k)' /\ trees'[k].rootward = trees[k].rootward
       /\ trees'[k].hops = trees[k].hops /\ trees'[k].inst = trees[k].inst
  /\ instance = 1 => instance' = 1

LEMMA FaithfulStays ==
  ASSUME Stays
  PROVE  \A q \in Port : Faithful[q] \subseteq Faithful'[q]
BY PortFacts DEF Stays, Faithful, Holds, FromRoot, FromHolder

LEMMA CarryWiden ==
  ASSUME NEW S, NEW T, \A q \in Port : S[q] \subseteq T[q],
         NEW wq, NEW nt, NEW rq, Carry(S, wq, nt, rq)
  PROVE  Carry(T, wq, nt, rq)
<1> SUFFICES ASSUME NEW p \in Port
             PROVE  /\ wq[p] \in Seq(T[p]) /\ nt[p] \in Seq(T[PeerOf[p]] \cup {YesIAm})
                    /\ rq[p] \in Seq(T[PeerOf[p]])
  BY DEF Carry
<1>1. /\ wq[p] \in Seq(S[p]) /\ nt[p] \in Seq(S[PeerOf[p]] \cup {YesIAm})
      /\ rq[p] \in Seq(S[PeerOf[p]])
  BY DEF Carry
<1>2. /\ S[p] \subseteq T[p] /\ S[PeerOf[p]] \subseteq T[PeerOf[p]]
      /\ S[PeerOf[p]] \cup {YesIAm} \subseteq T[PeerOf[p]] \cup {YesIAm}
  BY PortFacts
<1> QED
  BY <1>1, <1>2, SeqWiden

\* What was said of the holders of the tree goes on being true of them, and only
\* that of new ones is left to show.
LEMMA RootwardStays ==
  ASSUME TypeOK, TreesFaithful, RootwardLeadsToRoot, Stays,
         \A k \in Node, q \in Port :
           ~Known(k) /\ trees'[k] # None /\ q = PeerOf[trees'[k].rootward] =>
             \/ q = Root /\ trees'[k].hops = 1 /\ trees'[k].inst = instance'
             \/ /\ q # Root /\ trees'[NodeOf[q]] # None
                /\ trees'[NodeOf[q]].hops + 1 = trees'[k].hops
                /\ trees'[NodeOf[q]].inst = trees'[k].inst,
         \A k \in Node : trees'[k] # None => trees'[k].rootward \in Port
  PROVE  RootwardLeadsToRoot'
<1>1. ASSUME NEW k \in Node, NEW q \in Port, trees'[k] # None, q = PeerOf[trees'[k].rootward]
      PROVE  \/ q = Root /\ trees'[k].hops = 1 /\ trees'[k].inst = instance'
             \/ /\ q # Root /\ trees'[NodeOf[q]] # None
                /\ trees'[NodeOf[q]].hops + 1 = trees'[k].hops
                /\ trees'[NodeOf[q]].inst = trees'[k].inst
  <2>1. CASE ~Known(k)
    BY <1>1, <2>1
  <2>2. CASE Known(k)
    <3>1. /\ trees'[k].rootward = trees[k].rootward
          /\ trees'[k].hops = trees[k].hops /\ trees'[k].inst = trees[k].inst
          /\ instance' = 1 /\ instance = 1
      BY <2>2 DEF Stays, TreesFaithful
    <3>2. NodeOf[q] \in Node /\ q = PeerOf[trees[k].rootward]
      BY <1>1, <3>1, PortFacts
    <3>3. \/ q = Root /\ trees[k].hops = 1 /\ trees[k].inst = instance
          \/ /\ q # Root /\ Known(NodeOf[q])
             /\ trees[NodeOf[q]].hops + 1 = trees[k].hops
             /\ trees[NodeOf[q]].inst = trees[k].inst
      BY <2>2, <3>2 DEF RootwardLeadsToRoot
    <3>4. Known(NodeOf[q]) => /\ trees'[NodeOf[q]] # None
                              /\ trees'[NodeOf[q]].hops = trees[NodeOf[q]].hops
                              /\ trees'[NodeOf[q]].inst = trees[NodeOf[q]].inst
      BY <3>2 DEF Stays, Known
    <3> QED
      BY <3>1, <3>3, <3>4
  <2> QED
    BY <2>1, <2>2
<1>2. \A k \in Node : trees'[k] # None => PeerOf[trees'[k].rootward] \in Port
  BY PortFacts
<1> QED
  BY <1>1, <1>2 DEF RootwardLeadsToRoot, Known

LEMMA LeafwardStays ==
  ASSUME TypeOK, LeafwardPortsAreChildren, Stays,
         \A k \in Node : trees'[k] # None => \A i \in DOMAIN trees'[k].leafward :
           \/ /\ Known(k) /\ i \in DOMAIN trees[k].leafward
              /\ trees'[k].leafward[i] = trees[k].leafward[i]
           \/ \A q \in Port : q = PeerOf[trees'[k].leafward[i]] =>
                trees'[NodeOf[q]] # None /\ trees'[NodeOf[q]].rootward = q,
         \A k \in Node : trees'[k] # None => trees'[k].leafward \in Seq(Port)
  PROVE  LeafwardPortsAreChildren'
<1>1. ASSUME NEW k \in Node, trees'[k] # None, NEW i \in DOMAIN trees'[k].leafward,
             NEW q \in Port, q = PeerOf[trees'[k].leafward[i]]
      PROVE  trees'[NodeOf[q]] # None /\ trees'[NodeOf[q]].rootward = q
  <2>1. CASE /\ Known(k) /\ i \in DOMAIN trees[k].leafward
             /\ trees'[k].leafward[i] = trees[k].leafward[i]
    <3> DEFINE p == trees[k].leafward[i]
    <3>0. p = trees'[k].leafward[i] /\ q = PeerOf[p]
      BY <1>1, <2>1
    <3>1. Known(NodeOf[q]) /\ trees[NodeOf[q]].rootward = q
      <4>1. \A j \in DOMAIN trees[k].leafward :
              LET r == PeerOf[trees[k].leafward[j]] IN
              Known(NodeOf[r]) /\ trees[NodeOf[r]].rootward = r
        BY <2>1 DEF LeafwardPortsAreChildren
      <4> QED
        BY <2>1, <3>0, <4>1
    <3>2. NodeOf[q] \in Node
      BY PortFacts
    <3> QED
      BY <3>1, <3>2 DEF Stays, Known
  <2> QED
    BY <1>1, <2>1
<1>2. \A k \in Node : trees'[k] # None =>
        \A i \in DOMAIN trees'[k].leafward : PeerOf[trees'[k].leafward[i]] \in Port
  BY PortFacts
<1> QED
  BY <1>1, <1>2 DEF LeafwardPortsAreChildren, Known

-----------------------------------------------------------------------------
(* The links of a network in which no link fails.                          *)

LEMMA TreeLink ==
  ASSUME NoFailure, TypeOK, TreeInv, NEW p \in Port, Link(p)
  PROVE  TreeInv'
<1>1. UNCHANGED agents
  BY DEF Link, ServerUp, ClientUp, Ignore, ConnectionLost, ProcessSend,
     HandleNormalPacket, Lose
<1>2. Faithful' = Faithful /\ TreesFaithful' /\ RootwardLeadsToRoot' /\ LeafwardPortsAreChildren'
      /\ AgentsSurvive'
  BY ZenonT(40), <1>1 DEF agents, TreeInv, Faithful, Holds, FromRoot, FromHolder, Known, TreesFaithful,
     RootwardLeadsToRoot, LeafwardPortsAreChildren, AgentsSurvive
<1>3. Carry(Faithful, write_q', net', read_q')
  BY LinkCarry DEF TreeInv
<1>4. SignalsOnce'
  <2>1. SignalsOnce /\ UNCHANGED <<instance, port_paths>>
    BY <1>1 DEF agents, TreeInv
  <2>2. CASE UNCHANGED <<up, signal_q>>
    BY <2>1, <2>2 DEF SignalsOnce
  <2>3. CASE Connect(p)
    <3>1. /\ ~up[p] /\ signal_q[p] = <<>> /\ up' = [up EXCEPT ![p] = TRUE]
          /\ signal_q' = [signal_q EXCEPT ![p] = <<"CONNECTED">>]
      <4>1. ~crashed[NodeOf[p]]
        BY PortFacts DEF TreeInv, AgentsSurvive
      <4>2. /\ ~up[p] /\ signal_q[p] = <<>> /\ up' = [up EXCEPT ![p] = TRUE]
            /\ signal_q' = [signal_q EXCEPT ![p] = Append(signal_q[p], "CONNECTED")]
        BY <2>3, <4>1 DEF Connect
      <4>3. Append(<<>>, "CONNECTED") = <<"CONNECTED">>
        OBVIOUS
      <4> QED
        BY <4>2, <4>3
    <3>2. <<"CONNECTED">> \in Seq({"CONNECTED"}) /\ Len(<<"CONNECTED">>) = 1
      OBVIOUS
    <3>3. DOMAIN signal_q = Port /\ DOMAIN up = Port /\ Root \in Port
      BY AgentAssumption DEF TypeOK, Queue
    <3> QED
      BY <2>1, <3>1, <3>2, <3>3 DEF SignalsOnce
  <2>4. ~ConnectionLost(p)
    BY DEF ConnectionLost, NoFailure, TypeOK
  <2> QED
    BY <2>2, <2>3, <2>4 DEF Link, ServerUp, ClientUp, Ignore, ProcessSend,
       HandleNormalPacket, Lose
<1> QED
  BY <1>2, <1>3, <1>4 DEF TreeInv, Carry

-----------------------------------------------------------------------------
(* The agents of a network in which no link fails.                         *)

LEMMA TreeVisit ==
  ASSUME NoPathsIsNone, TypeOK, TreeInv, NEW p \in Port, Visit(p)
  PROVE  TreeInv'
<1> DEFINE n == NodeOf[p]
<1>1. n \in Node
  BY PortFacts
<1>2. signal_q[p] \in Seq({"CONNECTED"}) /\ instance \in {0, 1}
  BY DEF TreeInv, SignalsOnce
<1>3. signal_q[p] # <<>> => Head(signal_q[p]) = "CONNECTED" /\ Tail(signal_q[p]) \in Seq({"CONNECTED"})
  BY <1>2, HeadTail
<1>4. \/ signal_q[p] = <<>> /\ UNCHANGED <<signal_q, write_q, trees, instance, port_paths>>
      \/ /\ signal_q[p] # <<>> /\ signal_q' = [signal_q EXCEPT ![p] = Tail(signal_q[p])]
         /\ Connected(p)
  BY <1>3 DEF Visit
<1>5. UNCHANGED <<trees, crashed, up, net, read_q>>
  BY <1>4 DEF Visit, Connected, links
<1>6. \/ UNCHANGED <<instance, port_paths>>
      \/ /\ p = Root /\ signal_q[p] # <<>> /\ instance' = instance + 1 /\ port_paths' = {}
         /\ signal_q' = [signal_q EXCEPT ![p] = Tail(signal_q[p])]
  BY <1>4 DEF Connected
<1>7. p = Root /\ signal_q[p] # <<>> =>
        instance = 0 /\ Len(signal_q[p]) = 1 /\ \A k \in Node : ~Known(k)
  BY DEF TreeInv, SignalsOnce, TreesFaithful
<1>8. Stays
  BY <1>5, <1>6, <1>7 DEF Stays, Known
<1>9. SignalsOnce'
  <2>1. SignalsOnce /\ DOMAIN signal_q = Port
    BY DEF TreeInv, TypeOK, Queue
  <2>2. p = Root /\ signal_q[p] # <<>> => Tail(signal_q[p]) = <<>>
    <3>1. \A s \in Seq({"CONNECTED"}) : s # <<>> /\ Len(s) = 1 => Len(Tail(s)) = 0
      OBVIOUS
    <3> QED
      BY <1>2, <1>3, <1>7, <3>1, EmptySeq
  <2>3. {} # None
    BY DEF NoPathsIsNone
  <2>4. CASE UNCHANGED <<signal_q, instance, port_paths>>
    BY <1>5, <2>1, <2>4 DEF SignalsOnce
  <2>5. CASE /\ signal_q[p] # <<>> /\ signal_q' = [signal_q EXCEPT ![p] = Tail(signal_q[p])]
             /\ p # Root /\ UNCHANGED <<instance, port_paths>>
    BY <1>3, <1>5, <2>1, <2>5 DEF SignalsOnce
  <2>6. CASE /\ signal_q[p] # <<>> /\ signal_q' = [signal_q EXCEPT ![p] = Tail(signal_q[p])]
             /\ p = Root /\ instance' = instance + 1 /\ port_paths' = {}
    BY <1>3, <1>5, <1>7, <2>1, <2>2, <2>3, <2>6 DEF SignalsOnce
  <2> QED
    BY <1>4, <2>4, <2>5, <2>6 DEF Connected
<1>10. Carry(Faithful', write_q', net', read_q')
  <2>1. Carry(Faithful', write_q, net, read_q)
    BY <1>8, FaithfulStays, CarryWiden DEF TreeInv
  <2>2. p = Root /\ signal_q[p] # <<>> /\ Head(signal_q[p]) = "CONNECTED" =>
          TreeBuild(instance + 1, 0) \in Faithful'[p]
    <3> SUFFICES ASSUME p = Root, signal_q[p] # <<>>
                 PROVE  TreeBuild(instance + 1, 0) \in Faithful'[p]
      OBVIOUS
    <3>1. instance + 1 = 1 /\ instance' = 1
      <4>1. instance = 0
        BY <1>7
      <4>2. instance' = instance + 1
        BY <1>4 DEF Connected
      <4> QED
        BY <4>1, <4>2
    <3>2. TreeBuild(1, 0) \in Message /\ TreeBuild(1, 0).type = "TREE_BUILD"
          /\ TreeBuild(1, 0).inst = 1 /\ TreeBuild(1, 0).hops = 0
      BY Messages
    <3> QED
      BY <3>1, <3>2 DEF Faithful, FromRoot
  <2>3. Known(n) => TreeBuild(trees[n].inst, trees[n].hops) \in Faithful'[p]
    <3> SUFFICES ASSUME Known(n)
                 PROVE  TreeBuild(trees[n].inst, trees[n].hops) \in Faithful'[p]
      OBVIOUS
    <3>1. trees[n].inst = 1 /\ instance = 1 /\ trees[n].hops \in Nat
      BY <1>1, EntryTypes DEF TreeInv, TreesFaithful
    <3>2. instance' = 1 /\ Known(n)' /\ trees'[n].hops = trees[n].hops
      BY <1>1, <1>8, <3>1 DEF Stays
    <3>3. \A h \in Nat : /\ TreeBuild(1, h) \in Message /\ TreeBuild(1, h).type = "TREE_BUILD"
                         /\ TreeBuild(1, h).inst = 1 /\ TreeBuild(1, h).hops = h
      BY Messages
    <3> QED
      BY <3>1, <3>2, <3>3 DEF Faithful, FromHolder, Holds
  <2>4. \A q \in Port : write_q[q] \in Seq(Faithful'[q])
    BY <2>1 DEF Carry
  <2>5. \A q \in Port : write_q'[q] \in Seq(Faithful'[q])
    <3>1. signal_q[p] # <<>> => Head(signal_q[p]) # "DISCONNECTED"
      BY <1>3
    <3> QED
      BY <2>2, <2>3, <2>4, <3>1, VisitPuts
  <2> QED
    BY <1>5, <2>1, <2>5 DEF Carry
<1>11. TreesFaithful'
  BY <1>5, <1>6, <1>7, PortFacts, AgentAssumption DEF TreeInv, TreesFaithful, Known, Holds
<1>12. RootwardLeadsToRoot'
  BY <1>1, <1>5, <1>8, EntryTypes, RootwardStays DEF TreeInv, Known
<1>13. LeafwardPortsAreChildren' /\ AgentsSurvive'
  BY <1>5 DEF TreeInv, LeafwardPortsAreChildren, AgentsSurvive, Known
<1> QED
  BY <1>9, <1>10, <1>11, <1>12, <1>13 DEF TreeInv, Carry

\* A message that is taken finds the agent ready for it: a tree build is adopted,
\* an ack gathered or sent on, or nothing changes.
LEMMA TakeOutcomes ==
  ASSUME TypeOK, TreeInv, NEW p \in Port, TakeMessage(p),
         NEW n, n = NodeOf[p], NEW m, m = Head(read_q[p])
  PROVE  /\ UNCHANGED crashed
         /\ \/ UNCHANGED <<trees, port_paths>>
            \/ /\ read_q[p] # <<>> /\ m.type = "TREE_BUILD" /\ ~Known(n)
               /\ trees' = [trees EXCEPT ![n] = Entry(p, m)]
               /\ UNCHANGED port_paths
            \/ /\ read_q[p] # <<>> /\ m.type = "TREE_BUILD_ACK"
               /\ port_paths # None /\ port_paths' = port_paths \cup {m.path}
               /\ UNCHANGED trees
            \/ /\ read_q[p] # <<>> /\ m.type = "TREE_BUILD_ACK" /\ Known(n) /\ p # Root
               /\ trees' = [trees EXCEPT ![n] = WithLeafward(trees[n], p)]
               /\ UNCHANGED port_paths
<1>1. n \in Node /\ PeerOf[p] \in Port /\ NodeOf[PeerOf[p]] \in Node /\ PeerOf[PeerOf[p]] = p
  BY PortFacts
<1>2. read_q[p] # <<>> => m \in Faithful[PeerOf[p]]
  BY TakeFacts DEF TreeInv
<1>3. CASE read_q[p] = <<>>
  BY <1>3 DEF TakeMessage
<1>4. CASE read_q[p] # <<>> /\ HandleTreeBuild(p, m)
  <2>1. m.type = "TREE_BUILD" /\ m.inst = 1
    BY <1>1, <1>2, <1>4 DEF HandleTreeBuild, Faithful
  <2>2. Known(n) => trees[n].inst = m.inst
    BY <1>1, <2>1 DEF TreeInv, TreesFaithful
  <2> QED
    BY <1>4, <2>1, <2>2 DEF HandleTreeBuild
<1>5. CASE read_q[p] # <<>> /\ HandleTreeBuildAck(p, m)
  <2>1. /\ m.type = "TREE_BUILD_ACK" /\ instance = 1
        /\ Known(NodeOf[PeerOf[p]]) /\ trees[NodeOf[PeerOf[p]]].rootward = PeerOf[p]
    <3>1. m.type = "TREE_BUILD_ACK"
      BY <1>5 DEF HandleTreeBuildAck
    <3> QED
      BY <1>1, <1>2, <1>5, <3>1 DEF Faithful, Holds
  <2>2. port_paths # None
    BY <2>1 DEF TreeInv, SignalsOnce
  <2>3. p # Root => Known(n)
    BY <1>1, <2>1 DEF TreeInv, RootwardLeadsToRoot
  <2> QED
    BY <1>5, <2>1, <2>2, <2>3 DEF HandleTreeBuildAck, Own, Accumulate
<1>6. CASE read_q[p] # <<>> /\ HandleInvalidation(p, m)
  BY <1>1, <1>2, <1>6 DEF HandleInvalidation, Faithful
<1> QED
  BY <1>3, <1>4, <1>5, <1>6 DEF TakeMessage

\* The first message of a tree that a node sees is from the root, or from a
\* neighbour that is in the tree and not behind the root.
LEMMA FirstBuild ==
  ASSUME TypeOK, TreeInv, NEW p \in Port, ~Known(NodeOf[p]),
         NEW m \in Faithful[PeerOf[p]], m.type = "TREE_BUILD"
  PROVE  /\ instance = 1 /\ m.inst = 1 /\ m.hops \in Nat
         /\ \/ PeerOf[p] = Root /\ p = PeerOf[Root] /\ m.hops = 0
            \/ /\ PeerOf[p] # Root /\ Known(NodeOf[PeerOf[p]]) /\ Holds(PeerOf[Root])
               /\ NodeOf[PeerOf[p]] # NodeOf[p]
               /\ m.hops = trees[NodeOf[PeerOf[p]]].hops /\ trees[NodeOf[PeerOf[p]]].inst = 1
<1>1. PeerOf[p] \in Port /\ NodeOf[PeerOf[p]] \in Node /\ PeerOf[PeerOf[p]] = p
  BY PortFacts
<1>2. /\ m \in Message /\ instance = 1 /\ m.inst = 1
      /\ FromRoot(m, PeerOf[p]) \/ FromHolder(m, PeerOf[p])
  BY <1>1 DEF Faithful
<1>3. m.hops \in Nat
  BY <1>2, Messages
<1>4. CASE FromRoot(m, PeerOf[p])
  BY <1>1, <1>2, <1>3, <1>4 DEF FromRoot
<1>5. CASE FromHolder(m, PeerOf[p])
  <2>1. Known(NodeOf[PeerOf[p]]) /\ m.hops = trees[NodeOf[PeerOf[p]]].hops
    BY <1>5 DEF FromHolder, Holds
  <2>2. Holds(PeerOf[Root]) /\ trees[NodeOf[PeerOf[p]]].inst = 1
    BY <1>1, <2>1 DEF TreeInv, TreesFaithful
  <2>3. PeerOf[p] # Root
    BY <1>1, <2>2 DEF Holds
  <2> QED
    BY <1>2, <1>3, <2>1, <2>2, <2>3
<1> QED
  BY <1>2, <1>4, <1>5

\* What a message that is taken does to the entry of its node.
LEMMA TakeStays ==
  ASSUME TypeOK, TreeInv, NEW p \in Port, TakeMessage(p)
  PROVE  Stays
<1> DEFINE n == NodeOf[p]
<1>1. n \in Node /\ DOMAIN trees = Node /\ UNCHANGED instance
  BY PortFacts DEF TypeOK, TakeMessage
<1>2. CASE UNCHANGED trees
  BY <1>1, <1>2 DEF Stays, Known
<1>3. ASSUME ~Known(n), NEW e, trees' = [trees EXCEPT ![n] = e]
      PROVE  Stays
  BY <1>1, <1>3 DEF Stays, Known
<1>4. CASE Known(n) /\ trees' = [trees EXCEPT ![n] = WithLeafward(trees[n], p)]
  <2>1. /\ WithLeafward(trees[n], p) \in TreeEntry
        /\ WithLeafward(trees[n], p).rootward = trees[n].rootward
        /\ WithLeafward(trees[n], p).hops = trees[n].hops
        /\ WithLeafward(trees[n], p).inst = trees[n].inst
    <3>1. \A s \in Seq(Port) : Append(s, p) \in Seq(Port)
      OBVIOUS
    <3> QED
      BY <1>1, <1>4, <3>1, EntryTypes DEF WithLeafward, TreeEntry
  <2>2. WithLeafward(trees[n], p) # None
    BY <2>1, AgentAssumption
  <2> QED
    BY <1>1, <1>4, <2>1, <2>2 DEF Stays, Known
<1> QED
  BY <1>2, <1>3, <1>4, TakeOutcomes

\* The two messages that adopting a tree puts, and the one that an ack puts.
LEMMA TakeCarry ==
  ASSUME TypeOK, TreeInv, NEW p \in Port, TakeMessage(p)
  PROVE  Carry(Faithful', write_q', net', read_q')
<1> DEFINE n == NodeOf[p]
           m == Head(read_q[p])
<1>1. n \in Node /\ DOMAIN trees = Node /\ PeerOf[p] \in Port
  BY PortFacts DEF TypeOK
<1>2. Stays
  BY TakeStays
<1>3. Carry(Faithful', write_q, net, read_q)
  BY <1>2, FaithfulStays, CarryWiden DEF TreeInv
<1>4. read_q[p] # <<>> => m \in Faithful[PeerOf[p]] /\ m \in Message
  BY TakeFacts DEF TreeInv
<1>5. \A q \in PortsOf(n) : q \in Port /\ NodeOf[q] = n
  BY DEF PortsOf
<1> HIDE DEF m
<1>6. ASSUME read_q[p] # <<>>, m.type = "TREE_BUILD", ~Known(n)
      PROVE  /\ TreeBuildAck(m.inst, <<p>>) \in Faithful'[p]
             /\ \A q \in PortsOf(n) : TreeBuild(m.inst, m.hops + 1) \in Faithful'[q]
  <2>1. m.inst = 1 /\ m.hops \in Nat /\ instance' = 1
    BY <1>2, <1>4, <1>6, FirstBuild DEF Stays
  <2>2. trees' = [trees EXCEPT ![n] = Entry(p, m)]
    BY <1>6 DEF TakeMessage, HandleTreeBuild, HandleTreeBuildAck, HandleInvalidation, m
  <2>3. /\ trees'[n] # None /\ trees'[n].rootward = p /\ trees'[n].hops = m.hops + 1
    <3>1. Entry(p, m) \in TreeEntry
      BY <2>1 DEF Entry, TreeEntry
    <3>2. Entry(p, m) # None
      BY <3>1, AgentAssumption
    <3> QED
      BY <1>1, <2>2, <3>2 DEF Entry
  <2>4. /\ \A h \in Nat : /\ TreeBuild(1, h) \in Message /\ TreeBuild(1, h).type = "TREE_BUILD"
                          /\ TreeBuild(1, h).inst = 1 /\ TreeBuild(1, h).hops = h
        /\ <<p>> \in Seq(Port) /\ m.hops + 1 \in Nat
    BY <2>1, Messages
  <2>5. /\ TreeBuildAck(1, <<p>>) \in Message /\ TreeBuildAck(1, <<p>>).type = "TREE_BUILD_ACK"
        /\ TreeBuildAck(1, <<p>>).inst = 1
    <3>1. \A path \in Seq(Port) :
            /\ TreeBuildAck(1, path) \in Message /\ TreeBuildAck(1, path).type = "TREE_BUILD_ACK"
            /\ TreeBuildAck(1, path).inst = 1
      BY Messages
    <3> QED
      BY <2>4, <3>1
  <2>6. TreeBuildAck(1, <<p>>) \in Faithful'[p]
    BY <2>1, <2>3, <2>5 DEF Faithful, Holds, Known
  <2>7. \A q \in PortsOf(n) : TreeBuild(1, m.hops + 1) \in Faithful'[q]
    BY <1>5, <2>1, <2>3, <2>4 DEF Faithful, FromHolder, Holds, Known
  <2> QED
    BY <2>1, <2>6, <2>7
<1>7. ASSUME read_q[p] # <<>>, m.type = "TREE_BUILD_ACK", Known(n)
      PROVE  TreeBuildAck(m.inst, PathFrom(p, m.path)) \in Faithful'[trees[n].rootward]
  <2>1. m.inst = 1 /\ m.path \in Seq(Port) /\ instance' = 1
    BY <1>1, <1>2, <1>4, <1>7, Messages DEF Faithful, Stays
  <2>2. PathFrom(p, m.path) \in Seq(Port)
    BY <2>1 DEF PathFrom
  <2> DEFINE ack == TreeBuildAck(1, PathFrom(p, m.path))
  <2>3. ack \in Message /\ ack.type = "TREE_BUILD_ACK" /\ ack.inst = 1
    BY <2>2, Messages
  <2>4. trees[n].rootward \in Port /\ NodeOf[trees[n].rootward] = n
    BY <1>1, <1>5, <1>7 DEF TreeInv, TreesFaithful
  <2>5. trees'[n] # None /\ trees'[n].rootward = trees[n].rootward
    BY <1>1, <1>2, <1>7 DEF Stays, Known
  <2> HIDE DEF ack
  <2>6. ack \in Faithful'[trees[n].rootward]
    BY <2>1, <2>3, <2>4, <2>5 DEF Faithful, Holds, Known
  <2> QED
    BY <2>1, <2>6 DEF ack
<1>8. read_q[p] # <<>> => m.type # "TREE_BUILD_INVALIDATION"
  BY <1>1, <1>4 DEF Faithful
<1>9. \A q \in Port : write_q'[q] \in Seq(Faithful'[q])
  <2>1. \A q \in Port : write_q[q] \in Seq(Faithful'[q])
    BY <1>3 DEF Carry
  <2> QED
    BY <1>6, <1>7, <1>8, <2>1, TakePuts DEF m
<1>10. UNCHANGED net /\ \A q \in Port : read_q'[q] \in Seq(Faithful'[PeerOf[q]])
  <2>1. \A q \in Port : read_q[q] \in Seq(Faithful'[PeerOf[q]])
    BY <1>3 DEF Carry
  <2>2. read_q[p] # <<>> => Tail(read_q[p]) \in Seq(Faithful'[PeerOf[p]])
    BY <2>1, HeadTail
  <2>3. DOMAIN read_q = Port /\ UNCHANGED net
    BY DEF TypeOK, Queue, TakeMessage, links
  <2>4. \/ UNCHANGED read_q
        \/ read_q[p] # <<>> /\ read_q' = [read_q EXCEPT ![p] = Tail(read_q[p])]
    BY DEF TakeMessage
  <2> QED
    BY <2>1, <2>2, <2>3, <2>4
<1> QED
  BY <1>3, <1>9, <1>10 DEF Carry

LEMMA TreeTake ==
  ASSUME NoPathsIsNone, TypeOK, TypeOK', TreeInv, NEW p \in Port, TakeMessage(p)
  PROVE  TreeInv'
<1> DEFINE n == NodeOf[p]
           m == Head(read_q[p])
<1>1. /\ n \in Node /\ p \in PortsOf(n) /\ DOMAIN trees = Node
      /\ PeerOf[p] \in Port /\ PeerOf[PeerOf[p]] = p /\ NodeOf[PeerOf[p]] \in Node
      /\ PeerOf[Root] \in Port /\ NodeOf[PeerOf[Root]] \in Node
  BY PortFacts, AgentAssumption DEF TypeOK, PortsOf
<1>2. Stays /\ UNCHANGED <<instance, signal_q, up>>
  BY TakeStays DEF TakeMessage, links
<1>3. read_q[p] # <<>> => m \in Faithful[PeerOf[p]] /\ m \in Message
  BY TakeFacts DEF TreeInv
<1>4. /\ UNCHANGED crashed
      /\ \/ UNCHANGED <<trees, port_paths>>
         \/ /\ read_q[p] # <<>> /\ m.type = "TREE_BUILD" /\ ~Known(n)
            /\ trees' = [trees EXCEPT ![n] = Entry(p, m)]
            /\ UNCHANGED port_paths
         \/ /\ read_q[p] # <<>> /\ m.type = "TREE_BUILD_ACK"
            /\ port_paths # None /\ port_paths' = port_paths \cup {m.path}
            /\ UNCHANGED trees
         \/ /\ read_q[p] # <<>> /\ m.type = "TREE_BUILD_ACK" /\ Known(n) /\ p # Root
            /\ trees' = [trees EXCEPT ![n] = WithLeafward(trees[n], p)]
            /\ UNCHANGED port_paths
  BY TakeOutcomes
<1> HIDE DEF m
<1>5. Carry(Faithful, write_q, net, read_q)'
  BY TakeCarry DEF Carry
<1>6. SignalsOnce'
  <2>1. port_paths # None => port_paths' # None
    BY <1>3, <1>4, Messages DEF TypeOK, NoPathsIsNone
  <2> QED
    BY <1>2, <2>1 DEF TreeInv, SignalsOnce
\* The entry of a node that had none.
<1>7. ASSUME ~Known(n), trees'[n] # None
      PROVE  /\ trees'[n].rootward = p /\ trees'[n].inst = 1 /\ instance' = 1 /\ trees'[n].hops # 0
             /\ trees'[NodeOf[PeerOf[Root]]] # None
             /\ trees'[n].leafward = <<>>
             /\ \/ PeerOf[p] = Root /\ trees'[n].hops = 1
                \/ /\ PeerOf[p] # Root /\ trees'[NodeOf[PeerOf[p]]] # None
                   /\ trees'[NodeOf[PeerOf[p]]].hops + 1 = trees'[n].hops
                   /\ trees'[NodeOf[PeerOf[p]]].inst = 1
  <2>1. /\ read_q[p] # <<>> /\ m.type = "TREE_BUILD"
        /\ trees' = [trees EXCEPT ![n] = Entry(p, m)]
    BY <1>1, <1>4, <1>7 DEF Known
  <2>2. /\ instance = 1 /\ m.inst = 1 /\ m.hops \in Nat
        /\ \/ PeerOf[p] = Root /\ p = PeerOf[Root] /\ m.hops = 0
           \/ /\ PeerOf[p] # Root /\ Known(NodeOf[PeerOf[p]]) /\ Holds(PeerOf[Root])
              /\ NodeOf[PeerOf[p]] # n
              /\ m.hops = trees[NodeOf[PeerOf[p]]].hops /\ trees[NodeOf[PeerOf[p]]].inst = 1
    BY <1>3, <1>7, <2>1, FirstBuild
  <2>3. /\ trees'[n] = Entry(p, m) /\ trees'[n].rootward = p /\ trees'[n].inst = 1
        /\ trees'[n].hops = m.hops + 1 /\ trees'[n].leafward = <<>>
    BY <1>1, <2>1, <2>2 DEF Entry
  <2>4. CASE PeerOf[p] = Root /\ p = PeerOf[Root] /\ m.hops = 0
    BY <1>2, <1>7, <2>2, <2>3, <2>4
  <2>5. CASE /\ PeerOf[p] # Root /\ Known(NodeOf[PeerOf[p]]) /\ Holds(PeerOf[Root])
             /\ m.hops = trees[NodeOf[PeerOf[p]]].hops /\ trees[NodeOf[PeerOf[p]]].inst = 1
    BY <1>1, <1>2, <2>2, <2>3, <2>5 DEF Stays, Known, Holds
  <2> QED
    BY <2>2, <2>4, <2>5
<1>8. \A k \in Node : ~Known(k) /\ trees'[k] # None => k = n
  BY <1>1, <1>4 DEF Known
<1>9. TreesFaithful'
  <2>1. \A k \in Node : trees'[k] # None =>
          /\ instance' = 1 /\ trees'[k].inst = 1 /\ trees'[k].hops # 0
          /\ trees'[k].rootward \in PortsOf(k)
          /\ trees'[NodeOf[PeerOf[Root]]] # None
    <3> TAKE k \in Node
    <3>1. CASE Known(k)
      BY <1>1, <1>2, <3>1 DEF TreeInv, TreesFaithful, Stays, Known, Holds
    <3>2. CASE ~Known(k)
      BY <1>1, <1>7, <1>8, <3>2
    <3> QED
      BY <3>1, <3>2
  <2> QED
    BY <2>1 DEF TreesFaithful, Known, Holds
<1>10. RootwardLeadsToRoot'
  <2>1. \A k \in Node, q \in Port :
          ~Known(k) /\ trees'[k] # None /\ q = PeerOf[trees'[k].rootward] =>
            \/ q = Root /\ trees'[k].hops = 1 /\ trees'[k].inst = instance'
            \/ /\ q # Root /\ trees'[NodeOf[q]] # None
               /\ trees'[NodeOf[q]].hops + 1 = trees'[k].hops
               /\ trees'[NodeOf[q]].inst = trees'[k].inst
    BY <1>7, <1>8
  <2>2. \A k \in Node : trees'[k] # None => trees'[k].rootward \in Port
    BY DEF TypeOK, TreeEntry
  <2> QED
    BY <1>2, <2>1, <2>2, RootwardStays DEF TreeInv
<1>11. LeafwardPortsAreChildren'
  <2>1. \A k \in Node : trees'[k] # None => trees'[k].leafward \in Seq(Port)
    BY DEF TypeOK, TreeEntry
  <2>2. \A k \in Node : trees'[k] # None => \A i \in DOMAIN trees'[k].leafward :
          \/ /\ Known(k) /\ i \in DOMAIN trees[k].leafward
             /\ trees'[k].leafward[i] = trees[k].leafward[i]
          \/ \A q \in Port : q = PeerOf[trees'[k].leafward[i]] =>
               trees'[NodeOf[q]] # None /\ trees'[NodeOf[q]].rootward = q
    <3> SUFFICES ASSUME NEW k \in Node, trees'[k] # None, NEW i \in DOMAIN trees'[k].leafward
                 PROVE  \/ /\ Known(k) /\ i \in DOMAIN trees[k].leafward
                           /\ trees'[k].leafward[i] = trees[k].leafward[i]
                        \/ \A q \in Port : q = PeerOf[trees'[k].leafward[i]] =>
                             trees'[NodeOf[q]] # None /\ trees'[NodeOf[q]].rootward = q
      OBVIOUS
    <3>1. CASE ~Known(k)
      <4>1. trees'[k].leafward = <<>>
        BY <1>7, <1>8, <3>1
      <4> QED
        BY <4>1
    <3>2. CASE Known(k) /\ trees'[k] = trees[k]
      BY <3>2
    <3>3. CASE /\ read_q[p] # <<>> /\ m.type = "TREE_BUILD_ACK" /\ Known(n) /\ k = n
               /\ trees' = [trees EXCEPT ![n] = WithLeafward(trees[n], p)]
      <4> DEFINE l == trees[n].leafward
      <4>1. l \in Seq(Port) /\ trees[n] \in TreeEntry
        BY <1>1, <3>3, EntryTypes
      <4>2. trees'[k].leafward = Append(l, p)
        BY <1>1, <3>3, <4>1 DEF WithLeafward, TreeEntry
      <4>3. /\ Known(NodeOf[PeerOf[p]]) /\ trees[NodeOf[PeerOf[p]]].rootward = PeerOf[p]
        BY <1>1, <1>3, <3>3 DEF Faithful, Holds
      <4>4. trees'[NodeOf[PeerOf[p]]] # None /\ trees'[NodeOf[PeerOf[p]]].rootward = PeerOf[p]
        BY <1>1, <1>2, <4>3 DEF Stays, Known
      <4> HIDE DEF l
      <4>5. \A j \in DOMAIN Append(l, p) :
              (j \in DOMAIN l /\ Append(l, p)[j] = l[j]) \/ Append(l, p)[j] = p
        BY <4>1
      <4> QED
        BY <3>3, <4>2, <4>4, <4>5 DEF l
    <3> QED
      BY <1>1, <1>4, <3>1, <3>2, <3>3
  <2> QED
    BY <1>2, <2>1, <2>2, LeafwardStays DEF TreeInv
<1>12. AgentsSurvive'
  BY <1>4 DEF TreeInv, AgentsSurvive
<1> QED
  BY <1>5, <1>6, <1>9, <1>10, <1>11, <1>12 DEF TreeInv

\* As long as no link fails, whatever is lost and however signals come between the
\* halves of a visit, the agents keep the tree as they build it (Agent.py:52-171).
THEOREM TreeInvariant ==
  ASSUME NoFailure, NoPathsIsNone
  PROVE  Spec => [](TypeOK /\ TreeInv)
<1>1. Init => TreeInv
  <2>1. Init => SignalsOnce
    <3>1. <<>> \in Seq({"CONNECTED"})
      OBVIOUS
    <3> QED
      BY <3>1, AgentAssumption DEF Init, SignalsOnce
  <2>2. Init => /\ TreesFaithful /\ RootwardLeadsToRoot /\ LeafwardPortsAreChildren
                /\ AgentsSurvive
    BY DEF Init, TreesFaithful, RootwardLeadsToRoot, LeafwardPortsAreChildren, AgentsSurvive,
       Known
  <2> QED
    BY <2>1, <2>2, CarryNothing DEF TreeInv
<1>2. TypeOK /\ TypeOK' /\ TreeInv /\ [Next]_vars => TreeInv'
  <2> SUFFICES ASSUME TypeOK, TypeOK', TreeInv, [Next]_vars PROVE TreeInv'
    OBVIOUS
  <2>1. CASE UNCHANGED vars
    <3>1. Faithful' = Faithful
      BY <2>1 DEF vars, Faithful, FromRoot, FromHolder, Holds, Known
    <3>2. Carry(Faithful, write_q, net, read_q)'
      BY <2>1, <3>1 DEF vars, TreeInv, Carry
    <3>3. /\ SignalsOnce' /\ TreesFaithful' /\ RootwardLeadsToRoot'
          /\ LeafwardPortsAreChildren' /\ AgentsSurvive'
      BY <2>1 DEF vars, TreeInv, SignalsOnce, TreesFaithful, RootwardLeadsToRoot,
         LeafwardPortsAreChildren, AgentsSurvive, Known, Holds
    <3> QED
      BY <3>2, <3>3 DEF TreeInv
  <2> QED
    BY <2>1, TreeLink, TreeVisit, TreeTake DEF Next
<1> QED
  BY <1>1, <1>2, TypeCorrect, PTL DEF Spec

\* As long as no link fails, the rootward ports lead to the root, by the hops that
\* the entries count, in a ring too (Agent.py:110-140).
THEOREM RootwardAlwaysLeadsToRoot ==
  ASSUME NoFailure, NoPathsIsNone
  PROVE  Spec => []RootwardLeadsToRoot
<1>1. TypeOK /\ TreeInv => RootwardLeadsToRoot
  BY DEF TreeInv
<1> QED
  BY <1>1, TreeInvariant, PTL

\* As long as no link fails, a leafward port is one that a child hangs its tree on
\* (Agent.py:102-103, :151, :160-161).
THEOREM LeafwardAreAlwaysChildren ==
  ASSUME NoFailure, NoPathsIsNone
  PROVE  Spec => []LeafwardPortsAreChildren
<1>1. TypeOK /\ TreeInv => LeafwardPortsAreChildren
  BY DEF TreeInv
<1> QED
  BY <1>1, TreeInvariant, PTL

\* As long as no link fails, no agent dies of an entry it does not find: an ack only
\* ever comes to a node that knows the tree (Agent.py:142-154).
THEOREM NoAgentDies ==
  ASSUME NoFailure, NoPathsIsNone
  PROVE  Spec => []AgentsSurvive
<1>1. TypeOK /\ TreeInv => AgentsSurvive
  BY DEF TreeInv
<1> QED
  BY <1>1, TreeInvariant, PTL

-----------------------------------------------------------------------------
(* Sequences in which nothing of one kind comes after something of another. *)

Meets(s, A) == \E i \in DOMAIN s : s[i] \in A

\* In s, nothing of B comes after something of A.
NoneAfter(s, A, B) == \A i, j \in DOMAIN s : i < j /\ s[i] \in A => s[j] \notin B

LEMMA EmptyMeets ==
  ASSUME NEW A, NEW B
  PROVE  ~Meets(<<>>, A) /\ NoneAfter(<<>>, A, B)
BY DEF Meets, NoneAfter

LEMMA TailMeets ==
  ASSUME NEW S, NEW s \in Seq(S), s # <<>>, NEW A, NEW B
  PROVE  /\ Meets(s, A) <=> Head(s) \in A \/ Meets(Tail(s), A)
         /\ NoneAfter(s, A, B) => /\ NoneAfter(Tail(s), A, B)
                                  /\ Head(s) \in A => ~Meets(Tail(s), B)
<1> DEFINE t == Tail(s)
<1>1. /\ Len(s) \in Nat /\ Len(s) # 0 /\ DOMAIN s = 1..Len(s) /\ DOMAIN t = 1..(Len(s) - 1)
      /\ Head(s) = s[1] /\ \A i \in 1..(Len(s) - 1) : t[i] = s[i + 1]
  OBVIOUS
<1> HIDE DEF t
<1>2. \A k \in Nat : k # 0 => /\ 1 \in 1..k
                              /\ \A i \in 1..(k - 1) : i + 1 \in 1..k /\ 1 < i + 1
                              /\ \A i, j \in 1..(k - 1) : i < j => i + 1 < j + 1
                              /\ \A i \in 1..k : i # 1 => i - 1 \in 1..(k - 1) /\ (i - 1) + 1 = i
  OBVIOUS
<1>3. Meets(s, A) <=> Head(s) \in A \/ Meets(t, A)
  <2>1. Meets(s, A) => Head(s) \in A \/ Meets(t, A)
    <3> SUFFICES ASSUME NEW i \in DOMAIN s, s[i] \in A, i # 1 PROVE Meets(t, A)
      BY <1>1 DEF Meets
    <3>1. i - 1 \in DOMAIN t /\ t[i - 1] = s[i]
      BY <1>1, <1>2
    <3> QED
      BY <3>1 DEF Meets
  <2>2. Head(s) \in A \/ Meets(t, A) => Meets(s, A)
    BY <1>1, <1>2 DEF Meets
  <2> QED
    BY <2>1, <2>2
<1>4. ASSUME NoneAfter(s, A, B)
      PROVE  NoneAfter(t, A, B) /\ (Head(s) \in A => ~Meets(t, B))
  <2>1. NoneAfter(t, A, B)
    <3> SUFFICES ASSUME NEW i \in DOMAIN t, NEW j \in DOMAIN t, i < j, t[i] \in A
                 PROVE  t[j] \notin B
      BY DEF NoneAfter
    <3>1. i + 1 \in DOMAIN s /\ j + 1 \in DOMAIN s /\ i + 1 < j + 1
          /\ t[i] = s[i + 1] /\ t[j] = s[j + 1]
      BY <1>1, <1>2
    <3> QED
      BY <1>4, <3>1 DEF NoneAfter
  <2>2. Head(s) \in A => ~Meets(t, B)
    <3> SUFFICES ASSUME s[1] \in A, NEW j \in DOMAIN t PROVE t[j] \notin B
      BY <1>1 DEF Meets
    <3>1. 1 \in DOMAIN s /\ j + 1 \in DOMAIN s /\ 1 < j + 1 /\ t[j] = s[j + 1]
      BY <1>1, <1>2
    <3> QED
      BY <1>4, <3>1 DEF NoneAfter
  <2> QED
    BY <2>1, <2>2
<1> QED
  BY <1>3, <1>4 DEF t

\* What is added at the end and is not of B changes nothing of that.
LEMMA ConcatMeets ==
  ASSUME NEW S, NEW s \in Seq(S), NEW e \in Seq(S), NEW A, NEW B, ~Meets(e, B)
  PROVE  /\ s \o e \in Seq(S)
         /\ Meets(s \o e, B) <=> Meets(s, B)
         /\ Meets(s \o e, A) <=> Meets(s, A) \/ Meets(e, A)
         /\ NoneAfter(s, A, B) => NoneAfter(s \o e, A, B)
<1> DEFINE t == s \o e
<1>1. /\ Len(s) \in Nat /\ Len(e) \in Nat /\ DOMAIN s = 1..Len(s) /\ DOMAIN e = 1..Len(e)
      /\ t \in Seq(S) /\ DOMAIN t = 1..(Len(s) + Len(e))
      /\ \A i \in 1..(Len(s) + Len(e)) : t[i] = IF i <= Len(s) THEN s[i] ELSE e[i - Len(s)]
  BY ConcatProperties
<1> HIDE DEF t
<1>2. \A k, l \in Nat : /\ \A i \in 1..k : i \in 1..(k + l) /\ i <= k
                        /\ \A i \in 1..l : i + k \in 1..(k + l) /\ ~(i + k <= k) /\ (i + k) - k = i
                        /\ \A i \in 1..(k + l) : i <= k => i \in 1..k
                        /\ \A i \in 1..(k + l) : ~(i <= k) => i - k \in 1..l
  OBVIOUS
<1>3. /\ \A i \in DOMAIN s : i \in DOMAIN t /\ t[i] = s[i]
      /\ \A i \in DOMAIN e : i + Len(s) \in DOMAIN t /\ t[i + Len(s)] = e[i]
      /\ \A i \in DOMAIN t : \/ i <= Len(s) /\ i \in DOMAIN s /\ t[i] = s[i]
                             \/ ~(i <= Len(s)) /\ i - Len(s) \in DOMAIN e /\ t[i] = e[i - Len(s)]
  BY <1>1, <1>2
<1>4. \A C : Meets(t, C) <=> Meets(s, C) \/ Meets(e, C)
  BY <1>3 DEF Meets
<1>5. ASSUME NoneAfter(s, A, B) PROVE NoneAfter(t, A, B)
  <2> SUFFICES ASSUME NEW i \in DOMAIN t, NEW j \in DOMAIN t, i < j, t[i] \in A
               PROVE  t[j] \notin B
    BY DEF NoneAfter
  <2>1. CASE j <= Len(s)
    <3>1. i <= Len(s)
      BY <1>1, <2>1
    <3> QED
      BY <1>3, <1>5, <2>1, <3>1 DEF NoneAfter
  <2>2. CASE ~(j <= Len(s))
    BY <1>3, <2>2 DEF Meets
  <2> QED
    BY <2>1, <2>2
<1> QED
  BY <1>1, <1>4, <1>5 DEF t

\* The same of one message at the end, that may be of B if none of A is before it.
LEMMA AppendMeets ==
  ASSUME NEW S, NEW s \in Seq(S), NEW x \in S, NEW A, NEW B
  PROVE  /\ Meets(Append(s, x), A) <=> Meets(s, A) \/ x \in A
         /\ NoneAfter(s, A, B) /\ (x \in B => ~Meets(s, A)) => NoneAfter(Append(s, x), A, B)
<1> DEFINE t == Append(s, x)
           k == Len(s) + 1
<1>1. /\ Len(s) \in Nat /\ DOMAIN s = 1..Len(s) /\ DOMAIN t = 1..k /\ k \in 1..k
      /\ t[k] = x /\ \A i \in 1..Len(s) : t[i] = s[i] /\ i \in 1..k
      /\ \A i \in 1..k : i \in 1..Len(s) \/ i = k
  OBVIOUS
<1>2. \A i, j \in DOMAIN t : i < j => i \in DOMAIN s
  BY <1>1
<1> HIDE DEF t, k
<1>3. Meets(t, A) <=> Meets(s, A) \/ x \in A
  BY <1>1 DEF Meets
<1>4. ASSUME NoneAfter(s, A, B), x \in B => ~Meets(s, A)
      PROVE  NoneAfter(t, A, B)
  <2> SUFFICES ASSUME NEW i \in DOMAIN t, NEW j \in DOMAIN t, i < j, t[i] \in A
               PROVE  t[j] \notin B
    BY DEF NoneAfter
  <2>1. i \in DOMAIN s /\ s[i] \in A
    BY <1>1, <1>2
  <2>2. CASE j = k
    BY <1>1, <1>4, <2>1, <2>2 DEF Meets
  <2>3. CASE j \in DOMAIN s
    BY <1>1, <1>4, <2>1, <2>3 DEF NoneAfter
  <2> QED
    BY <1>1, <2>2, <2>3
<1> QED
  BY <1>3, <1>4 DEF t

LEMMA RemoveMeets ==
  ASSUME NEW S, NEW s \in Seq(S), NEW i \in 1..Len(s), NEW A, NEW B
  PROVE  /\ Meets(RemoveAt(s, i), A) => Meets(s, A)
         /\ NoneAfter(s, A, B) => NoneAfter(RemoveAt(s, i), A, B)
<1> DEFINE t == RemoveAt(s, i)
           Old(j) == IF j < i THEN j ELSE j + 1
<1>1. /\ t \in Seq(S) /\ Len(t) = Len(s) - 1 /\ Len(s) \in Nat
      /\ \A j \in 1..(Len(s) - 1) : t[j] = IF j < i THEN s[j] ELSE s[j + 1]
  BY RemoveAtProperties
<1> HIDE DEF t
<1>2. DOMAIN s = 1..Len(s) /\ DOMAIN t = 1..(Len(s) - 1)
  BY <1>1
<1>3. /\ \A j \in DOMAIN t : Old(j) \in DOMAIN s /\ t[j] = s[Old(j)]
      /\ \A j, k \in DOMAIN t : j < k => Old(j) < Old(k)
  BY <1>1, <1>2
<1> HIDE DEF Old
<1>4. Meets(t, A) => Meets(s, A)
  BY <1>3 DEF Meets
<1>5. NoneAfter(s, A, B) => NoneAfter(t, A, B)
  BY <1>3 DEF NoneAfter
<1> QED
  BY <1>4, <1>5 DEF t

-----------------------------------------------------------------------------
(* The acks that the root counts.  What is under way from the root to its  *)
(* neighbour is in three queues, one ahead of the other.                   *)

\* Nothing of B comes after something of A in the channel, r being ahead of n, n of w.
ChannelNoneAfter(r, n, w, A, B) ==
  /\ NoneAfter(r, A, B) /\ NoneAfter(n, A, B) /\ NoneAfter(w, A, B)
  /\ Meets(r, A) => ~Meets(n, B) /\ ~Meets(w, B)
  /\ Meets(n, A) => ~Meets(w, B)

ChannelFree(r, n, w, B) == ~Meets(r, B) /\ ~Meets(n, B) /\ ~Meets(w, B)

\* What the links do to the messages that are under way from the root to q: they move
\* on in their order, or are lost.
LEMMA LinkChannel ==
  ASSUME TypeOK, NEW p \in Port, Link(p), NEW A, NEW B, YesIAm \notin A \cup B,
         NEW q, q = PeerOf[Root]
  PROVE  /\ ChannelNoneAfter(read_q[q], net[q], write_q[Root], A, B) =>
              ChannelNoneAfter(read_q'[q], net'[q], write_q'[Root], A, B)
         /\ ChannelFree(read_q[q], net[q], write_q[Root], B) =>
              ChannelFree(read_q'[q], net'[q], write_q'[Root], B)
<1> DEFINE r == read_q[q]
           n == net[q]
           w == write_q[Root]
           Datagram == Message \cup {YesIAm}
<1>1. /\ Root \in Port /\ q \in Port /\ PeerOf[q] = Root /\ PeerOf[p] \in Port
      /\ PeerOf[PeerOf[p]] = p
      /\ DOMAIN write_q = Port /\ DOMAIN net = Port /\ DOMAIN read_q = Port
  BY AgentAssumption, PortFacts DEF TypeOK, Queue
<1>2. r \in Seq(Datagram) /\ n \in Seq(Datagram) /\ w \in Seq(Datagram)
  <2>1. r \in Seq(Message) /\ n \in Seq(Datagram) /\ w \in Seq(Message)
    BY <1>1 DEF TypeOK, Queue
  <2> QED
    BY <2>1, SeqWiden
<1>3. YesIAm \in Datagram
  OBVIOUS
<1>4. \/ read_q'[q] = r /\ net'[q] = n /\ write_q'[Root] = w
      \/ read_q'[q] = r /\ net'[q] = <<>> /\ write_q'[Root] = w
      \/ read_q'[q] = r /\ net'[q] = Append(n, YesIAm) /\ write_q'[Root] = w
      \/ n # <<>> /\ read_q'[q] = r /\ net'[q] = Tail(n) /\ write_q'[Root] = w
      \/ n # <<>> /\ read_q'[q] = Append(r, Head(n)) /\ net'[q] = Tail(n) /\ write_q'[Root] = w
      \/ w # <<>> /\ read_q'[q] = r /\ net'[q] = Append(n, Head(w)) /\ write_q'[Root] = Tail(w)
      \/ \E i \in DOMAIN n : read_q'[q] = r /\ net'[q] = RemoveAt(n, i) /\ write_q'[Root] = w
  <2>1. CASE ServerUp(p)
    BY <1>1, <2>1 DEF ServerUp
  <2>2. CASE ClientUp(p) \/ Ignore(p)
    BY <1>1, <2>2 DEF ClientUp, Ignore
  <2>3. CASE ConnectionLost(p)
    BY <1>1, <2>3 DEF ConnectionLost
  <2>4. CASE ProcessSend(p)
    <3>1. PeerOf[p] = q <=> p = Root
      BY <1>1
    <3> QED
      BY <1>1, <2>4, <3>1 DEF ProcessSend
  <2>5. CASE HandleNormalPacket(p)
    BY <1>1, <2>5 DEF HandleNormalPacket
  <2>6. CASE Lose(p)
    BY <1>1, <2>6 DEF Lose
  <2> QED
    BY <2>1, <2>2, <2>3, <2>4, <2>5, <2>6 DEF Link
<1> HIDE DEF r, n, w, Datagram
<1>5. CASE read_q'[q] = r /\ net'[q] = n /\ write_q'[Root] = w
  BY <1>5 DEF r, n, w
<1>6. CASE read_q'[q] = r /\ net'[q] = <<>> /\ write_q'[Root] = w
  BY <1>6, EmptyMeets DEF ChannelNoneAfter, ChannelFree, r, n, w
<1>7. CASE read_q'[q] = r /\ net'[q] = Append(n, YesIAm) /\ write_q'[Root] = w
  <2>1. /\ Meets(Append(n, YesIAm), A) <=> Meets(n, A)
        /\ Meets(Append(n, YesIAm), B) <=> Meets(n, B)
        /\ NoneAfter(n, A, B) => NoneAfter(Append(n, YesIAm), A, B)
    BY <1>2, <1>3, AppendMeets
  <2> QED
    BY <1>7, <2>1 DEF ChannelNoneAfter, ChannelFree, r, n, w
<1>8. CASE n # <<>> /\ read_q'[q] = r /\ net'[q] = Tail(n) /\ write_q'[Root] = w
  <2>1. /\ Meets(Tail(n), A) => Meets(n, A)
        /\ Meets(Tail(n), B) => Meets(n, B)
        /\ NoneAfter(n, A, B) => NoneAfter(Tail(n), A, B)
    BY <1>2, <1>8, TailMeets
  <2> QED
    BY <1>8, <2>1 DEF ChannelNoneAfter, ChannelFree, r, n, w
<1>9. CASE n # <<>> /\ read_q'[q] = Append(r, Head(n)) /\ net'[q] = Tail(n) /\ write_q'[Root] = w
  <2>1. /\ Meets(n, A) <=> Head(n) \in A \/ Meets(Tail(n), A)
        /\ Meets(n, B) <=> Head(n) \in B \/ Meets(Tail(n), B)
        /\ NoneAfter(n, A, B) => NoneAfter(Tail(n), A, B)
        /\ NoneAfter(n, A, B) /\ Head(n) \in A => ~Meets(Tail(n), B)
    BY <1>2, <1>9, TailMeets
  <2>2. Head(n) \in Datagram
    BY <1>2, <1>9, HeadTail
  <2>3. /\ Meets(Append(r, Head(n)), A) <=> Meets(r, A) \/ Head(n) \in A
        /\ Meets(Append(r, Head(n)), B) <=> Meets(r, B) \/ Head(n) \in B
        /\ NoneAfter(r, A, B) /\ (Head(n) \in B => ~Meets(r, A)) =>
             NoneAfter(Append(r, Head(n)), A, B)
    BY <1>2, <2>2, AppendMeets
  <2> QED
    BY <1>9, <2>1, <2>3 DEF ChannelNoneAfter, ChannelFree, r, n, w
<1>10. CASE w # <<>> /\ read_q'[q] = r /\ net'[q] = Append(n, Head(w)) /\ write_q'[Root] = Tail(w)
  <2>1. /\ Meets(w, A) <=> Head(w) \in A \/ Meets(Tail(w), A)
        /\ Meets(w, B) <=> Head(w) \in B \/ Meets(Tail(w), B)
        /\ NoneAfter(w, A, B) => NoneAfter(Tail(w), A, B)
        /\ NoneAfter(w, A, B) /\ Head(w) \in A => ~Meets(Tail(w), B)
    BY <1>2, <1>10, TailMeets
  <2>2. Head(w) \in Datagram
    BY <1>2, <1>10, HeadTail
  <2>3. /\ Meets(Append(n, Head(w)), A) <=> Meets(n, A) \/ Head(w) \in A
        /\ Meets(Append(n, Head(w)), B) <=> Meets(n, B) \/ Head(w) \in B
        /\ NoneAfter(n, A, B) /\ (Head(w) \in B => ~Meets(n, A)) =>
             NoneAfter(Append(n, Head(w)), A, B)
    BY <1>2, <2>2, AppendMeets
  <2> QED
    BY <1>10, <2>1, <2>3 DEF ChannelNoneAfter, ChannelFree, r, n, w
<1>11. ASSUME NEW i \in DOMAIN n, read_q'[q] = r, net'[q] = RemoveAt(n, i), write_q'[Root] = w
       PROVE  /\ ChannelNoneAfter(r, n, w, A, B) =>
                   ChannelNoneAfter(read_q'[q], net'[q], write_q'[Root], A, B)
              /\ ChannelFree(r, n, w, B) => ChannelFree(read_q'[q], net'[q], write_q'[Root], B)
  <2>1. i \in 1..Len(n)
    BY <1>2
  <2>2. /\ Meets(RemoveAt(n, i), A) => Meets(n, A)
        /\ Meets(RemoveAt(n, i), B) => Meets(n, B)
        /\ NoneAfter(n, A, B) => NoneAfter(RemoveAt(n, i), A, B)
    BY <1>2, <2>1, RemoveMeets
  <2> QED
    BY <1>11, <2>2 DEF ChannelNoneAfter, ChannelFree
<1> QED
  BY <1>4, <1>5, <1>6, <1>7, <1>8, <1>9, <1>10, <1>11 DEF r, n, w

\* What is put in a queue and is not of B.
LEMMA PutMeets ==
  ASSUME NEW S, NEW q, NEW x \in Port, q[x] \in Seq(S), NEW ports, NEW m \in S,
         NEW A, NEW B, m \notin B
  PROVE  /\ Put(q, ports, m)[x] \in Seq(S)
         /\ Meets(Put(q, ports, m)[x], B) <=> Meets(q[x], B)
         /\ NoneAfter(q[x], A, B) => NoneAfter(Put(q, ports, m)[x], A, B)
<1>1. \/ Put(q, ports, m)[x] = q[x]
      \/ Put(q, ports, m)[x] = Append(q[x], m)
  BY DEF Put
<1>2. Append(q[x], m) \in Seq(S)
  OBVIOUS
<1>3. /\ Meets(Append(q[x], m), B) <=> Meets(q[x], B)
      /\ NoneAfter(q[x], A, B) => NoneAfter(Append(q[x], m), A, B)
  BY AppendMeets
<1> QED
  BY <1>1, <1>2, <1>3

LEMMA PutLeafwardMeets ==
  ASSUME NEW S, NEW q, NEW x \in Port, q[x] \in Seq(S), NEW leafward \in Seq(Port), NEW m \in S,
         NEW A, NEW B, m \notin B
  PROVE  /\ Meets(PutLeafward(q, leafward, m)[x], B) <=> Meets(q[x], B)
         /\ NoneAfter(q[x], A, B) => NoneAfter(PutLeafward(q, leafward, m)[x], A, B)
<1> DEFINE k == Cardinality({j \in DOMAIN leafward : leafward[j] = x})
           copies == [i \in 1..k |-> m]
<1>1. k \in Nat
  BY PlacesFinite DEF Places
<1> HIDE DEF k
<1>2. copies \in [1..k -> S]
  OBVIOUS
<1>3. copies \in Seq(S)
  BY <1>1, <1>2
<1>4. ~Meets(copies, B)
  BY DEF Meets
<1>5. PutLeafward(q, leafward, m)[x] = q[x] \o copies
  BY DEF PutLeafward, k
<1> HIDE DEF copies
<1>6. /\ Meets(q[x] \o copies, B) <=> Meets(q[x], B)
      /\ NoneAfter(q[x], A, B) => NoneAfter(q[x] \o copies, A, B)
  BY <1>3, <1>4, ConcatMeets
<1> QED
  BY <1>5, <1>6

\* Builds of the instance that the root builds, and the root's builds of others.
CurrentBuilds == {m \in Message : m.type = "TREE_BUILD" /\ m.inst = instance}
StaleBuilds == {m \in Message : m.type = "TREE_BUILD" /\ m.hops = 0 /\ m.inst # instance}

\* The root builds an instance before anybody else does, and no earlier one after it.
BuildsInOrder ==
  ChannelNoneAfter(read_q[PeerOf[Root]], net[PeerOf[Root]], write_q[Root],
                   CurrentBuilds, StaleBuilds)

\* The neighbour has no earlier instance from the root, and will not get one.
NeighbourIsCurrent ==
  LET q == PeerOf[Root]
      n == NodeOf[q]
  IN  /\ ChannelFree(read_q[q], net[q], write_q[Root], StaleBuilds)
      /\ Known(n) /\ trees[n].rootward = q /\ trees[n].hops = 1 => trees[n].inst = instance

\* No message is ahead of the root, and the neighbour's own ack of this instance comes
\* from a neighbour that is current.
CurrentMessage(m) ==
  /\ m.type # "TREE_BUILD_INVALIDATION" => m.inst <= instance
  /\ m.type = "TREE_BUILD_ACK" /\ m.inst = instance /\ m.path = <<PeerOf[Root]>> =>
       NeighbourIsCurrent
Current == [q \in Port |-> {m \in Message : CurrentMessage(m)}]

CurrentInv ==
  /\ Carry(Current, write_q, net, read_q)
  /\ BuildsInOrder
  /\ \A n \in Node : Known(n) => trees[n].inst <= instance /\ trees[n].hops # 0
  /\ port_paths # None /\ <<PeerOf[Root]>> \in port_paths => NeighbourIsCurrent

LEMMA CurrentGrows ==
  ASSUME TypeOK, TypeOK',
         \/ instance' = instance /\ (NeighbourIsCurrent => NeighbourIsCurrent')
         \/ instance' = instance + 1
  PROVE  \A q \in Port : Current[q] \subseteq Current'[q]
<1>1. instance \in Nat
  BY DEF TypeOK
<1> SUFFICES ASSUME NEW m \in Message, CurrentMessage(m)
             PROVE  CurrentMessage(m)'
  BY DEF Current
<1>2. m.type # "TREE_BUILD_INVALIDATION" => m.inst \in Nat
  <2>1. \/ m \in [type : {"TREE_BUILD"}, inst : Nat, hops : Nat]
        \/ m \in [type : {"TREE_BUILD_ACK"}, inst : Nat, path : Seq(Port)]
        \/ m = Invalidation
    BY DEF Message
  <2> QED
    BY <2>1 DEF Invalidation
<1>3. CASE instance' = instance /\ (NeighbourIsCurrent => NeighbourIsCurrent')
  BY <1>3 DEF CurrentMessage
<1>4. CASE instance' = instance + 1
  <2>1. \A a, b \in Nat : a <= b => a <= b + 1 /\ a # b + 1
    OBVIOUS
  <2>2. m.type = "TREE_BUILD_ACK" => m.type # "TREE_BUILD_INVALIDATION"
    OBVIOUS
  <2> QED
    BY <1>1, <1>2, <1>4, <2>1, <2>2 DEF CurrentMessage
<1> QED
  BY <1>3, <1>4

LEMMA CurrentLink ==
  ASSUME TypeOK, TypeOK', CurrentInv, NEW p \in Port, Link(p)
  PROVE  CurrentInv'
<1>1. UNCHANGED <<trees, instance, port_paths>>
  BY DEF Link, ServerUp, ClientUp, Ignore, ConnectionLost, ProcessSend,
     HandleNormalPacket, Lose, agents
<1>2. CurrentBuilds' = CurrentBuilds /\ StaleBuilds' = StaleBuilds
  BY <1>1 DEF CurrentBuilds, StaleBuilds
<1>3. YesIAm \notin CurrentBuilds \cup StaleBuilds
  BY DEF YesIAm, CurrentBuilds, StaleBuilds
<1>4. BuildsInOrder' /\ (NeighbourIsCurrent => NeighbourIsCurrent')
  <2> DEFINE q == PeerOf[Root]
  <2>1. /\ ChannelNoneAfter(read_q[q], net[q], write_q[Root], CurrentBuilds, StaleBuilds) =>
             ChannelNoneAfter(read_q'[q], net'[q], write_q'[Root], CurrentBuilds, StaleBuilds)
        /\ ChannelFree(read_q[q], net[q], write_q[Root], StaleBuilds) =>
             ChannelFree(read_q'[q], net'[q], write_q'[Root], StaleBuilds)
    BY <1>3, LinkChannel
  <2> QED
    BY <1>1, <1>2, <2>1 DEF CurrentInv, BuildsInOrder, NeighbourIsCurrent, Known
<1>5. Carry(Current, write_q, net, read_q)'
  <2>1. Carry(Current, write_q', net', read_q')
    BY LinkCarry DEF CurrentInv
  <2>2. \A q \in Port : Current[q] \subseteq Current'[q]
    BY <1>1, <1>4, CurrentGrows
  <2>3. Carry(Current', write_q', net', read_q')
    BY <2>1, <2>2, CarryWiden
  <2> QED
    BY <2>3 DEF Carry
<1> QED
  BY <1>1, <1>4, <1>5 DEF CurrentInv, Known

\* What a visit or a message puts in the root's queue is no earlier instance, unless the
\* root is told of a new session.
LEMMA TakeChannel ==
  ASSUME TypeOK, NEW p \in Port, TakeMessage(p)
  PROVE  /\ NoneAfter(write_q[Root], CurrentBuilds, StaleBuilds) =>
              NoneAfter(write_q'[Root], CurrentBuilds, StaleBuilds)
         /\ Meets(write_q'[Root], StaleBuilds) => Meets(write_q[Root], StaleBuilds)
<1> DEFINE n == NodeOf[p]
           m == Head(read_q[p])
           A == CurrentBuilds
           B == StaleBuilds
<1>1. Root \in Port /\ n \in Node /\ write_q[Root] \in Seq(Message)
  BY AgentAssumption, PortFacts DEF TypeOK, Queue
<1>2. read_q[p] # <<>> => m \in Message
  BY HeadTail DEF TypeOK, Queue
<1>3. \A h \in Nat : h + 1 \in Nat /\ h + 1 # 0
  OBVIOUS
<1>4. CASE UNCHANGED write_q
  BY <1>4
<1>5. CASE read_q[p] # <<>> /\ HandleTreeBuild(p, m) /\ ~Known(n)
  <2> DEFINE ack == TreeBuildAck(m.inst, <<p>>)
             build == TreeBuild(m.inst, m.hops + 1)
             first == Put(write_q, {p}, ack)
  <2>1. m.type = "TREE_BUILD" /\ write_q' = Put(first, Others(p), build)
    BY <1>5 DEF HandleTreeBuild
  <2>2. m.inst \in Nat /\ m.hops \in Nat
    <3> HIDE DEF m
    <3> QED
      BY <1>2, <1>5, <2>1, Messages
  <2>3. ack \in Message /\ ack \notin B
    <3>1. <<p>> \in Seq(Port)
      OBVIOUS
    <3>2. ack \in Message /\ ack.type = "TREE_BUILD_ACK"
      <4>1. \A i \in Nat, path \in Seq(Port) :
              TreeBuildAck(i, path) \in Message /\ TreeBuildAck(i, path).type = "TREE_BUILD_ACK"
        BY Messages
      <4> QED
        BY <2>2, <3>1, <4>1
    <3> QED
      BY <3>2 DEF StaleBuilds
  <2>4. build \in Message /\ build \notin B
    <3>1. build \in Message /\ build.hops # 0
      BY <1>3, <2>2, Messages
    <3> QED
      BY <3>1 DEF StaleBuilds
  <2> HIDE DEF ack, build
  <2>5. /\ first[Root] \in Seq(Message)
        /\ Meets(first[Root], B) <=> Meets(write_q[Root], B)
        /\ NoneAfter(write_q[Root], A, B) => NoneAfter(first[Root], A, B)
    BY <1>1, <2>3, PutMeets
  <2> HIDE DEF first
  <2>6. /\ Meets(Put(first, Others(p), build)[Root], B) <=> Meets(first[Root], B)
        /\ NoneAfter(first[Root], A, B) => NoneAfter(Put(first, Others(p), build)[Root], A, B)
    BY <1>1, <2>4, <2>5, PutMeets
  <2> QED
    BY <2>1, <2>5, <2>6
<1>6. CASE read_q[p] # <<>> /\ HandleTreeBuild(p, m) /\ Known(n)
  BY <1>4, <1>6 DEF HandleTreeBuild
<1>7. CASE read_q[p] # <<>> /\ HandleTreeBuildAck(p, m)
  <2> DEFINE ack == TreeBuildAck(m.inst, PathFrom(p, m.path))
  <2>1. m.type = "TREE_BUILD_ACK"
    BY <1>7 DEF HandleTreeBuildAck
  <2>2. \/ UNCHANGED write_q
        \/ write_q' = Put(write_q, {trees[n].rootward}, ack)
    BY <1>7 DEF HandleTreeBuildAck, Crash
  <2>3. ack \in Message /\ ack \notin B
    <3>1. m.inst \in Nat /\ m.path \in Seq(Port)
      <4> HIDE DEF m
      <4> QED
        BY <1>2, <1>7, <2>1, Messages
    <3>2. PathFrom(p, m.path) \in Seq(Port)
      <4>1. \A path \in Seq(Port) : PathFrom(p, path) \in Seq(Port)
        BY DEF PathFrom
      <4> QED
        BY <3>1, <4>1
    <3>3. ack \in Message /\ ack.type = "TREE_BUILD_ACK"
      BY <3>1, <3>2, Messages
    <3> QED
      BY <3>3 DEF StaleBuilds
  <2> HIDE DEF ack
  <2>4. \A ports : /\ Meets(Put(write_q, ports, ack)[Root], B) <=> Meets(write_q[Root], B)
                   /\ NoneAfter(write_q[Root], A, B) =>
                        NoneAfter(Put(write_q, ports, ack)[Root], A, B)
    BY <1>1, <2>3, PutMeets
  <2> QED
    BY <1>4, <2>2, <2>4
<1>8. CASE read_q[p] # <<>> /\ HandleInvalidation(p, m)
  <2>1. \/ UNCHANGED write_q
        \/ Known(n) /\ write_q' = PutLeafward(write_q, trees[n].leafward, Invalidation)
    BY <1>8 DEF HandleInvalidation
  <2>2. Known(n) => trees[n].leafward \in Seq(Port)
    BY <1>1, EntryTypes
  <2>3. Invalidation \in Message /\ Invalidation \notin B
    BY Messages DEF StaleBuilds
  <2>4. ASSUME NEW l \in Seq(Port)
        PROVE  /\ Meets(PutLeafward(write_q, l, Invalidation)[Root], B) <=>
                    Meets(write_q[Root], B)
               /\ NoneAfter(write_q[Root], A, B) =>
                    NoneAfter(PutLeafward(write_q, l, Invalidation)[Root], A, B)
    BY <1>1, <2>3, PutLeafwardMeets
  <2> QED
    BY <1>4, <2>1, <2>2, <2>4
<1> QED
  BY <1>4, <1>5, <1>6, <1>7, <1>8 DEF TakeMessage

LEMMA CurrentMessages ==
  ASSUME NEW x \in Port
  PROVE  /\ \A i, h \in Nat : i <= instance' => TreeBuild(i, h) \in Current'[x]
         /\ \A i \in Nat, path \in Seq(Port) :
              i <= instance' /\ (i = instance' /\ path = <<PeerOf[Root]>> => NeighbourIsCurrent') =>
                TreeBuildAck(i, path) \in Current'[x]
         /\ Invalidation \in Current'[x]
<1>1. Current'[x] =
        {m \in Message :
           /\ m.type # "TREE_BUILD_INVALIDATION" => m.inst <= instance'
           /\ m.type = "TREE_BUILD_ACK" /\ m.inst = instance' /\ m.path = <<PeerOf[Root]>> =>
                NeighbourIsCurrent'}
  BY DEF Current, CurrentMessage
<1>2. ASSUME NEW i \in Nat, NEW h \in Nat, i <= instance'
      PROVE  TreeBuild(i, h) \in Current'[x]
  <2>1. /\ TreeBuild(i, h) \in Message /\ TreeBuild(i, h).type = "TREE_BUILD"
        /\ TreeBuild(i, h).inst = i
    BY Messages
  <2> QED
    BY <1>1, <1>2, <2>1
<1>3. ASSUME NEW i \in Nat, NEW path \in Seq(Port), i <= instance',
             i = instance' /\ path = <<PeerOf[Root]>> => NeighbourIsCurrent'
      PROVE  TreeBuildAck(i, path) \in Current'[x]
  <2>1. /\ TreeBuildAck(i, path) \in Message /\ TreeBuildAck(i, path).type = "TREE_BUILD_ACK"
        /\ TreeBuildAck(i, path).inst = i /\ TreeBuildAck(i, path).path = path
    BY Messages
  <2> QED
    BY <1>1, <1>3, <2>1
<1>4. Invalidation \in Current'[x]
  BY <1>1, Messages
<1> QED
  BY <1>2, <1>3, <1>4

LEMMA CurrentTake ==
  ASSUME TypeOK, TypeOK', PathInv, CurrentInv, NEW p \in Port, TakeMessage(p)
  PROVE  CurrentInv'
<1> DEFINE n == NodeOf[p]
           m == Head(read_q[p])
           q == PeerOf[Root]
<1>1. /\ n \in Node /\ Root \in Port /\ q \in Port /\ NodeOf[q] \in Node /\ q # Root
      /\ instance \in Nat /\ DOMAIN trees = Node /\ DOMAIN read_q = Port
  BY AgentAssumption, PortFacts DEF TypeOK, Queue
<1>2. UNCHANGED <<instance, net>>
  BY DEF TakeMessage, links
<1>3. CurrentBuilds' = CurrentBuilds /\ StaleBuilds' = StaleBuilds
  BY <1>2 DEF CurrentBuilds, StaleBuilds
<1>4. read_q[p] # <<>> => m \in Message /\ CurrentMessage(m)
  <2>1. read_q[p] # <<>> => m \in Current[PeerOf[p]]
    BY TakeFacts DEF CurrentInv
  <2> QED
    BY <2>1, PortFacts DEF Current
<1>5. /\ read_q[p] # <<>> /\ m.type = "TREE_BUILD" => m.inst \in Nat /\ m.hops \in Nat
      /\ read_q[p] # <<>> /\ m.type = "TREE_BUILD_ACK" => m.inst \in Nat /\ m.path \in Seq(Port)
  <2> HIDE DEF m
  <2> QED
    BY <1>4, Messages
\* What is under way from the root to its neighbour.
<1>6. \/ read_q'[q] = read_q[q]
      \/ p = q /\ read_q[q] # <<>> /\ read_q'[q] = Tail(read_q[q])
  BY <1>1 DEF TakeMessage
<1>7. read_q[q] # <<>> =>
        /\ \A C : Meets(read_q[q], C) <=> Head(read_q[q]) \in C \/ Meets(Tail(read_q[q]), C)
        /\ \A C, D : NoneAfter(read_q[q], C, D) =>
             /\ NoneAfter(Tail(read_q[q]), C, D)
             /\ Head(read_q[q]) \in C => ~Meets(Tail(read_q[q]), D)
  <2>1. read_q[q] \in Seq(Message)
    BY <1>1 DEF TypeOK, Queue
  <2> QED
    BY <2>1, TailMeets
<1>8. BuildsInOrder'
  BY <1>2, <1>3, <1>6, <1>7, TakeChannel DEF CurrentInv, BuildsInOrder, ChannelNoneAfter
<1>9. ChannelFree(read_q[q], net[q], write_q[Root], StaleBuilds) =>
        ChannelFree(read_q'[q], net'[q], write_q'[Root], StaleBuilds)
  BY <1>2, <1>6, <1>7, TakeChannel DEF ChannelFree
\* The entries.
<1>10. \/ UNCHANGED trees
       \/ trees' = [trees EXCEPT ![n] = None]
       \/ /\ read_q[p] # <<>> /\ m.type = "TREE_BUILD"
          /\ trees' = [trees EXCEPT ![n] = Entry(p, m)]
       \/ Known(n) /\ trees' = [trees EXCEPT ![n] = WithLeafward(trees[n], p)]
  BY DEF TakeMessage, HandleTreeBuild, HandleTreeBuildAck, HandleInvalidation, Crash
<1>11. /\ Entry(p, m).rootward = p /\ Entry(p, m).hops = m.hops + 1 /\ Entry(p, m).inst = m.inst
       /\ Known(n) => /\ WithLeafward(trees[n], p).rootward = trees[n].rootward
                      /\ WithLeafward(trees[n], p).hops = trees[n].hops
                      /\ WithLeafward(trees[n], p).inst = trees[n].inst
  <2>1. Known(n) => trees[n] \in TreeEntry
    BY <1>1, EntryTypes
  <2> QED
    BY <2>1 DEF Entry, WithLeafward, TreeEntry
<1>12. \A k \in Node : Known(k)' =>
         \/ /\ Known(k) /\ trees'[k].rootward = trees[k].rootward
            /\ trees'[k].hops = trees[k].hops /\ trees'[k].inst = trees[k].inst
         \/ /\ k = n /\ read_q[p] # <<>> /\ m.type = "TREE_BUILD"
            /\ trees'[k].rootward = p /\ trees'[k].hops = m.hops + 1 /\ trees'[k].inst = m.inst
  <2> HIDE DEF m
  <2> QED
    BY <1>1, <1>10, <1>11 DEF Known
<1>13. \A k \in Node : Known(k)' => trees'[k].inst <= instance' /\ trees'[k].hops # 0
  <2>1. read_q[p] # <<>> /\ m.type = "TREE_BUILD" => m.inst <= instance /\ m.hops + 1 # 0
    <3>1. \A h \in Nat : h + 1 # 0
      OBVIOUS
    <3> HIDE DEF m
    <3> QED
      BY <1>4, <1>5, <3>1 DEF CurrentMessage
  <2> HIDE DEF m
  <2> QED
    BY <1>2, <1>12, <2>1 DEF CurrentInv
\* The neighbour stays current, and becomes it with an instance that it acknowledges.
<1>14. NeighbourIsCurrent => NeighbourIsCurrent'
  <2> SUFFICES ASSUME NeighbourIsCurrent, Known(NodeOf[q])', trees'[NodeOf[q]].rootward = q,
                      trees'[NodeOf[q]].hops = 1
               PROVE  trees'[NodeOf[q]].inst = instance
    BY <1>2, <1>3, <1>9 DEF NeighbourIsCurrent
  <2>1. CASE /\ Known(NodeOf[q]) /\ trees'[NodeOf[q]].rootward = trees[NodeOf[q]].rootward
             /\ trees'[NodeOf[q]].hops = trees[NodeOf[q]].hops
             /\ trees'[NodeOf[q]].inst = trees[NodeOf[q]].inst
    BY <2>1 DEF NeighbourIsCurrent
  <2>2. CASE /\ read_q[p] # <<>> /\ m.type = "TREE_BUILD" /\ trees'[NodeOf[q]].rootward = p
             /\ trees'[NodeOf[q]].hops = m.hops + 1 /\ trees'[NodeOf[q]].inst = m.inst
    <3>1. p = q /\ m = Head(read_q[q]) /\ read_q[q] # <<>> /\ m.hops + 1 = 1
      BY <2>2
    <3>2. m.hops = 0
      <4>1. \A h \in Nat : h + 1 = 1 => h = 0
        OBVIOUS
      <4> HIDE DEF m
      <4> QED
        BY <1>5, <2>2, <3>1, <4>1
    <3>3. m \notin StaleBuilds
      <4>1. ~Meets(read_q[q], StaleBuilds)
        BY DEF NeighbourIsCurrent, ChannelFree
      <4> QED
        BY <1>7, <3>1, <4>1
    <3> HIDE DEF m
    <3> QED
      BY <1>4, <2>2, <3>2, <3>3 DEF StaleBuilds
  <2> QED
    BY <1>1, <1>12, <2>1, <2>2
<1>15. ASSUME p = q, read_q[p] # <<>>, m.type = "TREE_BUILD", m.inst = instance, ~Known(n)
       PROVE  NeighbourIsCurrent'
  <2>1. m \in CurrentBuilds
    BY <1>4, <1>15 DEF CurrentBuilds
  <2>2. ChannelFree(read_q'[q], net'[q], write_q'[Root], StaleBuilds)
    <3>1. read_q'[q] = Tail(read_q[q])
      BY <1>1, <1>15 DEF TakeMessage
    <3>2. ChannelNoneAfter(read_q[q], net[q], write_q[Root], CurrentBuilds, StaleBuilds)
      BY DEF CurrentInv, BuildsInOrder
    <3>3. Meets(read_q[q], CurrentBuilds) /\ ~Meets(Tail(read_q[q]), StaleBuilds)
      BY <1>7, <1>15, <2>1, <3>2 DEF ChannelNoneAfter
    <3> QED
      BY <1>2, <3>1, <3>2, <3>3, TakeChannel DEF ChannelNoneAfter, ChannelFree
  <2>3. Known(NodeOf[q])' => trees'[NodeOf[q]].inst = instance
    <3> HIDE DEF m
    <3> QED
      BY <1>1, <1>12, <1>15
  <2> QED
    BY <1>2, <1>3, <2>2, <2>3 DEF NeighbourIsCurrent
\* The messages.
<1>16. \A x \in Port : Current[x] \subseteq Current'[x]
  BY <1>2, <1>14, CurrentGrows
<1>17. \A x \in Port : write_q'[x] \in Seq(Current'[x])
  <2>1. \A x \in Port : write_q[x] \in Seq(Current'[x])
    <3>1. Carry(Current', write_q, net, read_q)
      BY <1>16, CarryWiden DEF CurrentInv
    <3> QED
      BY <3>1 DEF Carry
  <2>2. ASSUME NEW x \in Port
        PROVE  /\ \A i, h \in Nat : i <= instance' => TreeBuild(i, h) \in Current'[x]
               /\ \A i \in Nat, path \in Seq(Port) :
                    i <= instance' /\ (i = instance' /\ path = <<q>> => NeighbourIsCurrent') =>
                      TreeBuildAck(i, path) \in Current'[x]
               /\ Invalidation \in Current'[x]
    BY CurrentMessages
  <2>3. ASSUME read_q[p] # <<>>, m.type = "TREE_BUILD", ~Known(n)
        PROVE  /\ TreeBuildAck(m.inst, <<p>>) \in Current'[p]
               /\ \A x \in PortsOf(n) : TreeBuild(m.inst, m.hops + 1) \in Current'[x]
    <3>1. /\ m.inst \in Nat /\ m.hops + 1 \in Nat /\ m.inst <= instance'
          /\ m.inst = instance' /\ p = q => NeighbourIsCurrent'
      <4>1. \A h \in Nat : h + 1 \in Nat
        OBVIOUS
      <4>2. m.inst <= instance
        BY <1>4, <2>3 DEF CurrentMessage
      <4>3. m.inst = instance' /\ p = q => NeighbourIsCurrent'
        BY <1>2, <1>15, <2>3
      <4> HIDE DEF m, n
      <4> QED
        BY <1>2, <1>5, <2>3, <4>1, <4>2, <4>3
    <3> HIDE DEF m, n
    <3>2. <<p>> \in Seq(Port) /\ (<<p>> = <<q>> => p = q)
      OBVIOUS
    <3>3. \A x \in PortsOf(n) : x \in Port
      BY DEF PortsOf
    <3> QED
      BY <2>2, <3>1, <3>2, <3>3
  <2>4. ASSUME read_q[p] # <<>>, m.type = "TREE_BUILD_ACK", Known(n)
        PROVE  TreeBuildAck(m.inst, PathFrom(p, m.path)) \in Current'[trees[n].rootward]
    <3>1. m.inst \in Nat /\ m.path \in Seq(Port) /\ m.inst <= instance'
      BY <1>2, <1>4, <1>5, <2>4 DEF CurrentMessage
    <3>2. m.path # <<>>
      <4>1. m \in Fitting[PeerOf[p]]
        BY <2>4, TakeFacts DEF PathInv
      <4> QED
        BY <2>4, <4>1, PortFacts DEF Fitting, PathFits
    <3>3. trees[n].rootward \in Port
      BY <1>1, <2>4, EntryTypes
    <3> HIDE DEF m, n
    <3>4. PathFrom(p, m.path) \in Seq(Port) /\ PathFrom(p, m.path) # <<q>>
      <4>1. \A path \in Seq(Port) : path # <<>> =>
              PathFrom(p, path) \in Seq(Port) /\ Len(PathFrom(p, path)) # 1
        BY DEF PathFrom
      <4>2. Len(<<q>>) = 1
        OBVIOUS
      <4> QED
        BY <3>1, <3>2, <4>1, <4>2
    <3> QED
      BY <2>2, <3>1, <3>3, <3>4
  <2>5. \A x \in Port : Invalidation \in Current'[x]
    BY <2>2
  <2> HIDE DEF n
  <2>6. read_q[p] # <<>> =>
          /\ m.type = "TREE_BUILD" /\ ~Known(n) =>
               /\ TreeBuildAck(m.inst, <<p>>) \in Current'[p]
               /\ \A x \in PortsOf(n) : TreeBuild(m.inst, m.hops + 1) \in Current'[x]
          /\ m.type = "TREE_BUILD_ACK" /\ Known(n) /\ p # Root =>
               TreeBuildAck(m.inst, PathFrom(p, m.path)) \in Current'[trees[n].rootward]
          /\ m.type = "TREE_BUILD_INVALIDATION" => \A x \in Port : Invalidation \in Current'[x]
    BY <2>3, <2>4, <2>5
  <2> QED
    BY <2>1, <2>6, TakePuts DEF n
<1>18. Carry(Current, write_q, net, read_q)'
  <2>1. Carry(Current', write_q, net, read_q)
    BY <1>16, CarryWiden DEF CurrentInv
  <2>2. \A x \in Port : read_q'[x] \in Seq(Current'[PeerOf[x]])
    <3>1. \A x \in Port : read_q[x] \in Seq(Current'[PeerOf[x]])
      BY <2>1 DEF Carry
    <3>2. read_q[p] # <<>> => Tail(read_q[p]) \in Seq(Current'[PeerOf[p]])
      BY <3>1, HeadTail
    <3>3. \/ UNCHANGED read_q
          \/ read_q[p] # <<>> /\ read_q' = [read_q EXCEPT ![p] = Tail(read_q[p])]
      BY DEF TakeMessage
    <3> QED
      BY <1>1, <3>1, <3>2, <3>3
  <2> QED
    BY <1>2, <1>17, <2>1, <2>2 DEF Carry
\* The paths that the root has gathered.
<1>19. port_paths' # None /\ <<q>> \in port_paths' => NeighbourIsCurrent'
  <2>1. \/ UNCHANGED port_paths
        \/ /\ port_paths # None /\ port_paths' = port_paths \cup {m.path}
           /\ read_q[p] # <<>> /\ m.type = "TREE_BUILD_ACK" /\ m.inst = instance
    BY DEF TakeMessage, HandleTreeBuild, HandleTreeBuildAck, HandleInvalidation, Crash,
       Own, Accumulate
  <2>2. read_q[p] # <<>> /\ m.type = "TREE_BUILD_ACK" /\ m.inst = instance /\ m.path = <<q>> =>
          NeighbourIsCurrent
    BY <1>4 DEF CurrentMessage
  <2> HIDE DEF m
  <2> QED
    BY <1>14, <2>1, <2>2 DEF CurrentInv
<1> QED
  BY <1>8, <1>13, <1>18, <1>19 DEF CurrentInv

LEMMA CurrentVisit ==
  ASSUME TypeOK, TypeOK', CurrentInv, NEW p \in Port, Visit(p)
  PROVE  CurrentInv'
<1> DEFINE n == NodeOf[p]
           q == PeerOf[Root]
           w == write_q[Root]
<1>1. /\ n \in Node /\ Root \in Port /\ q \in Port /\ NodeOf[q] \in Node
      /\ instance \in Nat /\ instance' \in Nat /\ DOMAIN trees = Node /\ DOMAIN write_q = Port
      /\ w \in Seq(Message) /\ read_q[q] \in Seq(Message)
      /\ net[q] \in Seq(Message \cup {YesIAm})
  BY AgentAssumption, PortFacts DEF TypeOK, Queue
<1>2. UNCHANGED <<net, read_q>>
  BY DEF Visit, links
<1>3. ASSUME \A x \in Port : Current[x] \subseteq Current'[x],
             \A x \in Port : write_q'[x] \in Seq(Current'[x])
      PROVE  Carry(Current, write_q, net, read_q)'
  <2>1. Carry(Current', write_q, net, read_q)
    BY <1>3, CarryWiden DEF CurrentInv
  <2> QED
    BY <1>2, <1>3, <2>1 DEF Carry
<1>4. ASSUME \A x \in Port : Current[x] \subseteq Current'[x]
      PROVE  \A x \in Port : write_q[x] \in Seq(Current'[x])
  <2>1. Carry(Current', write_q, net, read_q)
    BY <1>4, CarryWiden DEF CurrentInv
  <2> QED
    BY <2>1 DEF Carry
<1>5. \A k \in Node : Known(k) => /\ trees[k].inst \in Nat /\ trees[k].hops \in Nat
                                  /\ trees[k].inst <= instance /\ trees[k].hops # 0
  BY EntryTypes DEF CurrentInv
<1>6. \A i \in Nat : i + 1 \in Nat /\ i <= i + 1 /\ \A j \in Nat : j <= i => j <= i + 1 /\ j # i + 1
  OBVIOUS
\* A visit that finds no signal.
<1>7. CASE UNCHANGED <<write_q, trees, instance, port_paths>>
  <2>1. /\ CurrentBuilds' = CurrentBuilds /\ StaleBuilds' = StaleBuilds
    BY <1>7 DEF CurrentBuilds, StaleBuilds
  <2>2. BuildsInOrder' /\ (NeighbourIsCurrent => NeighbourIsCurrent')
    BY <1>2, <1>7, <2>1 DEF CurrentInv, BuildsInOrder, NeighbourIsCurrent, Known
  <2>3. \A x \in Port : Current[x] \subseteq Current'[x]
    BY <1>7, <2>2, CurrentGrows
  <2>4. Carry(Current, write_q, net, read_q)'
    BY <1>3, <1>4, <1>7, <2>3
  <2> QED
    BY <1>7, <2>2, <2>4 DEF CurrentInv, Known
\* What one that finds a signal puts, if no instance begins.
<1>8. ASSUME NEW e \in Seq(Message), ~Meets(e, StaleBuilds), UNCHANGED instance,
             write_q' = [write_q EXCEPT ![p] = write_q[p] \o e]
      PROVE  /\ NoneAfter(w, CurrentBuilds, StaleBuilds) =>
                  NoneAfter(write_q'[Root], CurrentBuilds, StaleBuilds)
             /\ Meets(write_q'[Root], StaleBuilds) => Meets(w, StaleBuilds)
  <2>1. write_q'[Root] = w \/ write_q'[Root] = w \o e
    BY <1>1, <1>8
  <2>2. /\ Meets(w \o e, StaleBuilds) <=> Meets(w, StaleBuilds)
        /\ NoneAfter(w, CurrentBuilds, StaleBuilds) =>
             NoneAfter(w \o e, CurrentBuilds, StaleBuilds)
    BY <1>1, <1>8, ConcatMeets
  <2> QED
    BY <2>1, <2>2
<1>9. ASSUME UNCHANGED instance,
             NoneAfter(w, CurrentBuilds, StaleBuilds) =>
               NoneAfter(write_q'[Root], CurrentBuilds, StaleBuilds),
             Meets(write_q'[Root], StaleBuilds) => Meets(w, StaleBuilds),
             UNCHANGED trees \/ trees' = [trees EXCEPT ![n] = None],
             UNCHANGED port_paths \/ port_paths' = None,
             (\A x \in Port : Current[x] \subseteq Current'[x]) =>
               \A x \in Port : write_q'[x] \in Seq(Current'[x])
      PROVE  CurrentInv'
  <2>1. CurrentBuilds' = CurrentBuilds /\ StaleBuilds' = StaleBuilds
    BY <1>9 DEF CurrentBuilds, StaleBuilds
  <2>2. BuildsInOrder'
    BY <1>2, <1>9, <2>1 DEF CurrentInv, BuildsInOrder, ChannelNoneAfter
  <2>3. \A k \in Node : Known(k)' => Known(k) /\ trees'[k] = trees[k]
    BY <1>1, <1>9 DEF Known
  <2>4. NeighbourIsCurrent => NeighbourIsCurrent'
    <3>1. ChannelFree(read_q[q], net[q], w, StaleBuilds) =>
            ChannelFree(read_q'[q], net'[q], write_q'[Root], StaleBuilds')
      BY <1>2, <1>9, <2>1 DEF ChannelFree
    <3> QED
      BY <1>1, <1>9, <2>3, <3>1 DEF NeighbourIsCurrent
  <2>5. \A x \in Port : Current[x] \subseteq Current'[x]
    BY <1>9, <2>4, CurrentGrows
  <2>6. Carry(Current, write_q, net, read_q)'
    BY <1>3, <1>9, <2>5
  <2>7. \A k \in Node : Known(k)' => trees'[k].inst <= instance' /\ trees'[k].hops # 0
    BY <1>9, <2>3 DEF CurrentInv
  <2>8. port_paths' # None /\ <<q>> \in port_paths' => NeighbourIsCurrent'
    BY <1>9, <2>4 DEF CurrentInv
  <2> QED
    BY <2>2, <2>6, <2>7, <2>8 DEF CurrentInv
\* A port is told of a new session: the tree that the node knows is sent again.
<1>10. CASE signal_q[p] # <<>> /\ Head(signal_q[p]) = "CONNECTED" /\ Connected(p)
  <2> DEFINE own == IF p = Root THEN <<TreeBuild(instance + 1, 0)>> ELSE <<>>
             again == TreeBuild(trees[n].inst, trees[n].hops)
             known == IF Known(n) THEN <<again>> ELSE <<>>
  <2>1. /\ write_q' = [write_q EXCEPT ![p] = write_q[p] \o own \o known]
        /\ instance' = IF p = Root THEN instance + 1 ELSE instance
        /\ port_paths' = IF p = Root THEN {} ELSE port_paths
        /\ UNCHANGED trees
    BY <1>10 DEF Connected
  <2>2. Known(n) => /\ again \in Message /\ again.hops # 0 /\ again.inst <= instance
                    /\ again.inst <= instance'
    <3>1. Known(n) => /\ again \in Message /\ again.hops = trees[n].hops
                      /\ again.inst = trees[n].inst
      BY <1>1, <1>5, Messages
    <3>2. Known(n) => trees[n].inst <= instance'
      BY <1>1, <1>5, <1>6, <2>1
    <3> HIDE DEF again
    <3> QED
      BY <1>1, <1>5, <3>1, <3>2
  <2>3. \A x \in Port : write_q[x] \in Seq(Message)
    BY DEF TypeOK, Queue
  <2>4. (\A x \in Port : Current[x] \subseteq Current'[x]) =>
          \A x \in Port : write_q'[x] \in Seq(Current'[x])
    <3> SUFFICES ASSUME \A x \in Port : Current[x] \subseteq Current'[x]
                 PROVE  \A x \in Port : write_q'[x] \in Seq(Current'[x])
      OBVIOUS
    <3>1. \A x \in Port : write_q[x] \in Seq(Current'[x])
      BY <1>4
    <3>2. p = Root => TreeBuild(instance + 1, 0) \in Current'[p]
      <4>1. p = Root => instance + 1 \in Nat /\ 0 \in Nat /\ instance + 1 <= instance'
        BY <1>1, <1>6, <2>1
      <4> QED
        BY <4>1, CurrentMessages
    <3>3. Known(n) => again \in Current'[p]
      <4>1. Known(n) => /\ trees[n].inst \in Nat /\ trees[n].hops \in Nat
                        /\ trees[n].inst <= instance'
        BY <1>1, <1>5, <1>6, <2>1
      <4> QED
        BY <4>1, CurrentMessages
    <3> QED
      BY <1>10, <3>1, <3>2, <3>3, VisitPuts
  <2>5. /\ known \in Seq(Message)
        /\ \A C : Meets(known, C) => Known(n) /\ again \in C
    <3> HIDE DEF again
    <3>1. \A x : x \in Message => <<x>> \in Seq(Message)
      OBVIOUS
    <3>2. <<>> \in Seq(Message) /\ DOMAIN <<again>> = {1} /\ <<again>>[1] = again
      OBVIOUS
    <3>3. \A C : ~Meets(<<>>, C) /\ (Meets(<<again>>, C) => again \in C)
      BY <3>2 DEF Meets
    <3> QED
      BY <2>2, <3>1, <3>2, <3>3
  <2> HIDE DEF known
  <2>6. CASE p # Root
    <3>1. write_q[p] \o own = write_q[p]
      BY <2>3, <2>6
    <3>2. write_q' = [write_q EXCEPT ![p] = write_q[p] \o known]
      BY <2>1, <3>1
    <3>3. ~Meets(known, StaleBuilds)
      <4>1. Known(n) => again \notin StaleBuilds
        <5> HIDE DEF again
        <5> QED
          BY <2>2 DEF StaleBuilds
      <4> QED
        BY <2>5, <4>1
    <3> QED
      BY <1>8, <1>9, <2>1, <2>4, <2>5, <2>6, <3>2, <3>3
  <2>7. CASE p = Root
    <3> DEFINE first == TreeBuild(instance + 1, 0)
               A == CurrentBuilds'
               B == StaleBuilds'
    <3>1. instance' = instance + 1 /\ port_paths' = {} /\ UNCHANGED trees
      BY <2>1, <2>7
    <3>2. \A x \in Port : Current[x] \subseteq Current'[x]
      BY <3>1, CurrentGrows
    <3>3. Carry(Current, write_q, net, read_q)'
      BY <1>3, <2>4, <3>2
    <3>4. first \in Message /\ first \notin B
      <4>1. /\ first \in Message /\ first.inst = instance'
        BY <1>1, <1>6, <3>1, Messages
      <4> HIDE DEF first
      <4> QED
        BY <4>1 DEF StaleBuilds
    \* Nothing that is under way is of the instance that begins.
    <3>5. \A x \in Port : \A m \in Current[x] \cup {YesIAm} : m \notin A
      <4> SUFFICES ASSUME NEW x \in Port, NEW m \in Current[x] \cup {YesIAm}, m \in A
                   PROVE  FALSE
        OBVIOUS
      <4>1. m \in Message /\ m.type = "TREE_BUILD" /\ m.inst = instance + 1
        BY <3>1 DEF CurrentBuilds
      <4>2. m # YesIAm
        BY <4>1 DEF YesIAm
      <4>3. CurrentMessage(m)
        BY <4>2 DEF Current
      <4>4. m.inst <= instance
        BY <4>1, <4>3 DEF CurrentMessage
      <4> QED
        BY <1>1, <1>6, <4>1, <4>4
    <3> HIDE DEF A, B
    <3>6. ~Meets(read_q[q], A) /\ ~Meets(net[q], A) /\ ~Meets(w, A)
      <4>1. /\ read_q[q] \in Seq(Current[PeerOf[q]]) /\ w \in Seq(Current[Root])
            /\ net[q] \in Seq(Current[PeerOf[q]] \cup {YesIAm})
        BY <1>1 DEF CurrentInv, Carry
      <4>2. \A S : \A x \in Port : \A s \in Seq(S) :
              S \subseteq Current[x] \cup {YesIAm} => ~Meets(s, A)
        BY <3>5, ElementOfSeq DEF Meets
      <4>3. PeerOf[q] \in Port
        BY <1>1, PortFacts
      <4> QED
        BY <1>1, <4>1, <4>2, <4>3
    <3>7. NoneAfter(write_q'[Root], A, B)
      <4>1. NoneAfter(w, A, B)
        BY <3>6 DEF NoneAfter, Meets
      <4> HIDE DEF first
      <4>2. /\ w \o <<first>> \in Seq(Message) /\ w \o <<first>> = Append(w, first)
        BY <1>1, <3>4
      <4>3. NoneAfter(w \o <<first>>, A, B)
        <5>1. NoneAfter(Append(w, first), A, B)
          BY <1>1, <3>4, <4>1, AppendMeets
        <5> QED
          BY <4>2, <5>1
      <4>4. ~Meets(known, B)
        <5>1. Known(n) => again \notin B
          <6> HIDE DEF again
          <6> QED
            BY <2>2 DEF B, StaleBuilds
        <5> QED
          BY <2>5, <5>1
      <4>5. \A s \in Seq(Message) : NoneAfter(s, A, B) => NoneAfter(s \o known, A, B)
        BY <2>5, <4>4, ConcatMeets
      <4>6. write_q'[Root] = w \o <<first>> \o known
        BY <1>1, <2>1, <2>7 DEF first
      <4> QED
        BY <4>2, <4>3, <4>5, <4>6
    <3>8. BuildsInOrder'
      <4>1. NoneAfter(read_q[q], A, B) /\ NoneAfter(net[q], A, B)
        BY <3>6 DEF NoneAfter, Meets
      <4>2. ChannelNoneAfter(read_q'[q], net'[q], write_q'[Root], A, B)
        BY <1>2, <3>6, <3>7, <4>1 DEF ChannelNoneAfter
      <4> QED
        BY <4>2 DEF BuildsInOrder, A, B
    <3>9. \A k \in Node : Known(k)' => trees'[k].inst <= instance' /\ trees'[k].hops # 0
      BY <1>1, <1>5, <1>6, <3>1 DEF Known
    <3> QED
      BY <3>1, <3>3, <3>8, <3>9 DEF CurrentInv
  <2> QED
    BY <2>6, <2>7
\* A port is told of the end of one: a tree goes, and is invalidated.
<1>11. CASE signal_q[p] # <<>> /\ Head(signal_q[p]) = "DISCONNECTED" /\ Disconnected(p)
  <2>1. /\ UNCHANGED instance
        /\ UNCHANGED trees \/ trees' = [trees EXCEPT ![n] = None]
        /\ UNCHANGED port_paths \/ port_paths' = None
        /\ \/ UNCHANGED write_q
           \/ Known(n) /\ write_q' = PutLeafward(write_q, trees[n].leafward, Invalidation)
    BY <1>11 DEF Disconnected
  <2>2. /\ NoneAfter(w, CurrentBuilds, StaleBuilds) =>
             NoneAfter(write_q'[Root], CurrentBuilds, StaleBuilds)
        /\ Meets(write_q'[Root], StaleBuilds) => Meets(w, StaleBuilds)
    <3>1. Known(n) => trees[n].leafward \in Seq(Port)
      BY <1>1, EntryTypes
    <3>2. Invalidation \in Message /\ Invalidation \notin StaleBuilds
      BY Messages DEF StaleBuilds
    <3>3. ASSUME NEW l \in Seq(Port)
          PROVE  /\ Meets(PutLeafward(write_q, l, Invalidation)[Root], StaleBuilds) <=>
                      Meets(w, StaleBuilds)
                 /\ NoneAfter(w, CurrentBuilds, StaleBuilds) =>
                      NoneAfter(PutLeafward(write_q, l, Invalidation)[Root],
                                CurrentBuilds, StaleBuilds)
      BY <1>1, <3>2, PutLeafwardMeets
    <3> QED
      BY <2>1, <3>1, <3>3
  <2>3. (\A x \in Port : Current[x] \subseteq Current'[x]) =>
          \A x \in Port : write_q'[x] \in Seq(Current'[x])
    <3>1. \A x \in Port : Invalidation \in Current'[x]
      BY CurrentMessages
    <3>2. Head(signal_q[p]) # "CONNECTED"
      BY <1>11
    <3> QED
      BY <1>4, <1>11, <3>1, <3>2, VisitPuts
  <2> QED
    BY <1>9, <2>1, <2>2, <2>3
<1> QED
  BY <1>7, <1>10, <1>11 DEF Visit

\* However links fail and datagrams are lost, an ack that the root counts is not of an
\* earlier session: when it has gathered the path to its neighbour, and the neighbour has
\* the tree from the root itself, then it has the instance that the root builds
\* (Agent.py:63, :112, :132, :143-149).
THEOREM GatheredPathsAreAlwaysCurrent == Spec => []GatheredPathsAreCurrent
<1>1. Init => CurrentInv
  <2>1. Init => BuildsInOrder
    BY AgentAssumption, PortFacts, EmptyMeets DEF Init, BuildsInOrder, ChannelNoneAfter
  <2> QED
    BY <2>1, CarryNothing DEF Init, CurrentInv, Known
<1>2. TypeOK /\ TypeOK' /\ PathInv /\ CurrentInv /\ [Next]_vars => CurrentInv'
  <2> SUFFICES ASSUME TypeOK, TypeOK', PathInv, CurrentInv, [Next]_vars PROVE CurrentInv'
    OBVIOUS
  <2>1. CASE UNCHANGED vars
    <3>1. CurrentBuilds' = CurrentBuilds /\ StaleBuilds' = StaleBuilds
      BY <2>1 DEF vars, CurrentBuilds, StaleBuilds
    <3>2. BuildsInOrder' = BuildsInOrder /\ NeighbourIsCurrent' = NeighbourIsCurrent
      BY <2>1, <3>1 DEF vars, BuildsInOrder, NeighbourIsCurrent, Known
    <3>3. Current' = Current
      BY <2>1, <3>2 DEF vars, Current, CurrentMessage
    <3> QED
      BY <2>1, <3>2, <3>3 DEF vars, CurrentInv, Carry, Known
  <2> QED
    BY <2>1, CurrentLink, CurrentVisit, CurrentTake DEF Next
<1>3. CurrentInv => GatheredPathsAreCurrent
  BY DEF CurrentInv, GatheredPathsAreCurrent, NeighbourIsCurrent
<1> QED
  BY <1>1, <1>2, <1>3, TypeCorrect, PathInvariant, PTL DEF Spec
=============================================================================
