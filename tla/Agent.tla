-------------------------------- MODULE Agent --------------------------------
(***************************************************************************)
(* The agents of a network of nodes: hermes/port/Agent.py over the ports   *)
(* and links below it (Port.py, LinkProtocol.py and the send and receive   *)
(* paths of EthernetProtocolExtended.py).                                  *)
(*                                                                         *)
(* Each port is the root of a tree of its own, and trees never meet but in *)
(* the death of an agent, so one tree is followed: that of port Root.      *)
(* An agent is one thread that visits its ports in turn; a visit takes at  *)
(* most one signal, then at most one message.  The event loops of the      *)
(* ports run beside it, also between these two halves of a visit.          *)
(***************************************************************************)
EXTENDS Naturals, Sequences, FiniteSets, SequencesExt

CONSTANTS
  Port,
  NodeOf,     \* [Port -> node]
  PeerOf,     \* [Port -> Port], the other end of the link
  Client,     \* the client ends
  None,       \* no entry
  Root,       \* the port whose tree is followed
  Lossy,      \* may the network lose a datagram?
  Preemption, \* may a signal and a message come between the halves of a visit?
  MaxDowns,   \* bound: sockets closed by time-outs, over all ports
  MaxPath     \* bound: ports on a path; rootward ports can lead in a circle

TreeEntry == [rootward : Port, hops : Nat, inst : Nat, leafward : Seq(Port)]

ASSUME AgentAssumption ==
  /\ PeerOf \in [Port -> Port]
  /\ \A p \in Port : PeerOf[p] # p /\ PeerOf[PeerOf[p]] = p
  /\ \A p \in Port : p \in Client <=> PeerOf[p] \notin Client
  /\ NodeOf \in [Port -> {NodeOf[p] : p \in Port}]
  /\ Root \in Port
  /\ None \notin Port /\ None \notin TreeEntry
  /\ {Lossy, Preemption} \subseteq BOOLEAN
  /\ MaxDowns \in Nat /\ MaxPath \in Nat

Node == {NodeOf[p] : p \in Port}
PortsOf(n) == {p \in Port : NodeOf[p] = n}

VARIABLES
  up,          \* [Port -> BOOLEAN], link_state is CONNECTED
  signal_q,    \* [Port -> Seq of signals]
  read_q,      \* [Port -> Seq of messages], port to agent
  write_q,     \* [Port -> Seq of messages], agent to port
  net,         \* [Port -> Seq of datagrams], under way to a port
  visiting,    \* [Node -> port whose signal has been looked at, or None]
  trees,       \* [Node -> entry for the tree of Root, or None]
  instance,    \* port.tree_instance_id of Root; 0 stands for none
  port_paths,  \* what Root's node knows of Root's tree, or None
  crashed,     \* [Node -> BOOLEAN], the agent's thread died of a KeyError
  downs        \* sockets closed so far

links == <<up, net, downs>>
agents == <<visiting, trees, instance, port_paths, crashed>>
vars == <<up, signal_q, read_q, write_q, net, visiting, trees, instance,
          port_paths, crashed, downs>>

TreeBuild(inst, hops) == [type |-> "TREE_BUILD", inst |-> inst, hops |-> hops]
TreeBuildAck(inst, path) == [type |-> "TREE_BUILD_ACK", inst |-> inst, path |-> path]
\* No receiver reads the instance an invalidation names.
Invalidation == [type |-> "TREE_BUILD_INVALIDATION"]
YesIAm == [type |-> "YESIAM"]

Known(n) == trees[n] # None

Init ==
  /\ up = [p \in Port |-> FALSE]
  /\ signal_q = [p \in Port |-> <<>>]
  /\ read_q = [p \in Port |-> <<>>]
  /\ write_q = [p \in Port |-> <<>>]
  /\ net = [p \in Port |-> <<>>]
  /\ visiting = [n \in Node |-> None]
  /\ trees = [n \in Node |-> None]
  /\ instance = 0
  /\ port_paths = None
  /\ crashed = [n \in Node |-> FALSE]
  /\ downs = 0

-----------------------------------------------------------------------------
(* The links, as Link.tla models them, with the pings left out: a server   *)
(* comes up while its client is in its handshake, and answers it.  A port  *)
(* opens a socket again after a second, and its agent looks every hundredth *)
(* of a second: unless it is dead, it has seen the end of a session before *)
(* the next one.                                                           *)

Connect(p) ==
  /\ ~up[p]
  /\ signal_q[p] = <<>> \/ crashed[NodeOf[p]]
  /\ up' = [up EXCEPT ![p] = TRUE]
  /\ signal_q' = [signal_q EXCEPT ![p] = Append(@, "CONNECTED")]

ServerUp(p) ==
  /\ p \notin Client /\ ~up[PeerOf[p]]
  /\ Connect(p)
  /\ net' = [net EXCEPT ![PeerOf[p]] = Append(@, YesIAm)]
  /\ UNCHANGED <<read_q, write_q, downs, agents>>

ClientUp(p) ==
  /\ p \in Client /\ net[p] # <<>> /\ Head(net[p]) = YesIAm
  /\ Connect(p)
  /\ net' = [net EXCEPT ![p] = Tail(@)]
  /\ UNCHANGED <<read_q, write_q, downs, agents>>

\* A client in its handshake ignores every datagram but the answer, and a
\* server drops what comes before its client's ping.
Ignore(p) ==
  /\ ~up[p] /\ net[p] # <<>> /\ Head(net[p]) # YesIAm
  /\ net' = [net EXCEPT ![p] = Tail(@)]
  /\ UNCHANGED <<up, signal_q, read_q, write_q, downs, agents>>

\* The connection, or the client's ping, timed out: the socket goes with what
\* is under way to it, write_q stays, and the agent is told, even of the end of
\* a session that never started.
ConnectionLost(p) ==
  /\ downs < MaxDowns /\ downs' = downs + 1
  /\ up[p] \/ p \in Client
  /\ up' = [up EXCEPT ![p] = FALSE]
  /\ signal_q' = [signal_q EXCEPT ![p] = Append(@, "DISCONNECTED")]
  /\ net' = [net EXCEPT ![p] = <<>>]
  /\ UNCHANGED <<read_q, write_q, agents>>

ProcessSend(p) ==
  /\ up[p] /\ write_q[p] # <<>>
  /\ net' = [net EXCEPT ![PeerOf[p]] = Append(@, Head(write_q[p]))]
  /\ write_q' = [write_q EXCEPT ![p] = Tail(@)]
  /\ UNCHANGED <<up, signal_q, read_q, downs, agents>>

\* Only what an agent acts on is kept.
HandleNormalPacket(p) ==
  /\ up[p] /\ net[p] # <<>>
  /\ net' = [net EXCEPT ![p] = Tail(@)]
  /\ read_q' = IF Head(net[p]) = YesIAm THEN read_q
               ELSE [read_q EXCEPT ![p] = Append(@, Head(net[p]))]
  /\ UNCHANGED <<up, signal_q, write_q, downs, agents>>

\* The network (external).
Lose(p) ==
  /\ Lossy
  /\ \E i \in DOMAIN net[p] : net' = [net EXCEPT ![p] = RemoveAt(@, i)]
  /\ UNCHANGED <<up, signal_q, read_q, write_q, downs, agents>>

-----------------------------------------------------------------------------
(* The first half of a visit: signals.                                     *)

Put(q, ports, m) == [p \in Port |-> IF p \in ports THEN Append(q[p], m) ELSE q[p]]

\* One copy for each time a port is listed: every ack that came through it.
PutLeafward(q, leafward, m) ==
  [p \in Port |->
     q[p] \o [i \in 1..Cardinality({j \in DOMAIN leafward : leafward[j] = p}) |-> m]]

\* CONNECTED: a new instance of the port's own tree, then every known tree.
Connected(p) ==
  LET own == IF p = Root THEN <<TreeBuild(instance + 1, 0)>> ELSE <<>>
      known == IF Known(NodeOf[p])
                 THEN <<TreeBuild(trees[NodeOf[p]].inst, trees[NodeOf[p]].hops)>>
                 ELSE <<>>
  IN /\ write_q' = [write_q EXCEPT ![p] = @ \o own \o known]
     /\ instance' = IF p = Root THEN instance + 1 ELSE instance
     /\ port_paths' = IF p = Root THEN {} ELSE port_paths
     /\ UNCHANGED trees

\* DISCONNECTED: the tree goes if it came through this port, and with it the
\* paths of the node's own tree, if a ring brought that one back.
Disconnected(p) ==
  LET n == NodeOf[p] IN
  /\ UNCHANGED instance
  /\ IF Known(n) /\ trees[n].rootward = p
       THEN /\ write_q' = IF trees[n].hops = 1
                            THEN PutLeafward(write_q, trees[n].leafward, Invalidation)
                            ELSE write_q
            /\ trees' = [trees EXCEPT ![n] = None]
            /\ port_paths' = IF n = NodeOf[Root] THEN None ELSE port_paths
       ELSE UNCHANGED <<write_q, trees, port_paths>>

\* A visit that finds no signal matters only if it finds a message, or if the
\* port may come up under it and have both when the message is looked for.
Visit(p) ==
  /\ ~crashed[NodeOf[p]] /\ visiting[NodeOf[p]] = None
  /\ signal_q[p] # <<>> \/ read_q[p] # <<>> \/ (Preemption /\ ~up[p])
  /\ visiting' = [visiting EXCEPT ![NodeOf[p]] = p]
  /\ \/ /\ signal_q[p] = <<>>
        /\ UNCHANGED <<signal_q, write_q, trees, instance, port_paths>>
     \/ /\ signal_q[p] # <<>>
        /\ signal_q' = [signal_q EXCEPT ![p] = Tail(@)]
        /\ \/ Head(signal_q[p]) = "CONNECTED" /\ Connected(p)
           \/ Head(signal_q[p]) = "DISCONNECTED" /\ Disconnected(p)
  /\ UNCHANGED <<read_q, crashed, links>>

-----------------------------------------------------------------------------
(* The second half of a visit: messages.                                   *)

\* Mutants: the hop is not counted; it is counted down.
EntryNotCounted(p, m) ==
  [rootward |-> p, hops |-> m.hops, inst |-> m.inst, leafward |-> <<>>]

EntryCountedDown(p, m) ==
  [rootward |-> p, hops |-> m.hops - 1, inst |-> m.inst, leafward |-> <<>>]

Entry(p, m) ==
  [rootward |-> p, hops |-> m.hops + 1, inst |-> m.inst, leafward |-> <<>>]

\* Mutant: the tree is passed on to nobody.
OthersForgotten(p) == {}

\* The other ports of p's node whose link is connected as this happens.
Others(p) == {q \in PortsOf(NodeOf[p]) \ {p} : up[q]}

\* A tree not known yet is taken, acknowledged and passed on; one known under
\* another instance is replaced, and nobody is told.
HandleTreeBuild(p, m) ==
  LET n == NodeOf[p] IN
  /\ m.type = "TREE_BUILD"
  /\ \/ /\ ~Known(n)
        /\ trees' = [trees EXCEPT ![n] = Entry(p, m)]
        /\ write_q' = Put(Put(write_q, {p}, TreeBuildAck(m.inst, <<p>>)),
                          Others(p), TreeBuild(m.inst, m.hops + 1))
     \/ /\ Known(n) /\ trees[n].inst # m.inst
        /\ trees' = [trees EXCEPT ![n] = Entry(p, m)]
        /\ UNCHANGED write_q
     \/ /\ Known(n) /\ trees[n].inst = m.inst
        /\ UNCHANGED <<trees, write_q>>
  /\ UNCHANGED <<port_paths, crashed>>

\* Mutant: the port the ack is sent on to is listed.
WithRootward(entry, p) == [entry EXCEPT !.leafward = Append(@, entry.rootward)]
\* An entry with one more leafward port.
WithLeafward(entry, p) == [entry EXCEPT !.leafward = Append(@, p)]

\* Mutant: a port is added at the wrong end.
PathAppended(p, path) == Append(path, p)
PathFrom(p, path) == <<p>> \o path

\* Mutant: the node's own tree is not recognised.
NeverOwn(p) == FALSE
Own(p) == p = Root

Crash(n) ==
  /\ crashed' = [crashed EXCEPT ![n] = TRUE]
  /\ UNCHANGED <<trees, write_q, port_paths>>

\* A path tree is the set of the paths put in it.
Accumulate(paths, path) == paths \cup {path}

\* Mutant: an ack of any instance counts.
AckOfAnyInstance(p, m) ==
  /\ m.type = "TREE_BUILD_ACK" /\ Own(p) /\ port_paths # None
  /\ port_paths' = Accumulate(port_paths, m.path)
  /\ UNCHANGED <<trees, write_q, crashed>>

\* Of one's own tree: a path more, or an old instance.  Of another: the port is
\* leafward, and the ack goes rootward.  A missing entry is a KeyError.
HandleTreeBuildAck(p, m) ==
  LET n == NodeOf[p] IN
  /\ m.type = "TREE_BUILD_ACK"
  /\ \/ /\ Own(p) /\ m.inst = instance /\ port_paths # None
        /\ port_paths' = Accumulate(port_paths, m.path)
        /\ UNCHANGED <<trees, write_q, crashed>>
     \/ /\ Own(p) /\ m.inst = instance /\ port_paths = None
        /\ Crash(n)
     \/ /\ Own(p) /\ m.inst # instance
        /\ UNCHANGED <<trees, write_q, port_paths, crashed>>
     \/ /\ ~Own(p) /\ Known(n) /\ Len(m.path) < MaxPath
        /\ trees' = [trees EXCEPT ![n] = WithLeafward(@, p)]
        /\ write_q' = Put(write_q, {trees[n].rootward},
                          TreeBuildAck(m.inst, PathFrom(p, m.path)))
        /\ UNCHANGED <<port_paths, crashed>>
     \/ /\ ~Own(p) /\ ~Known(n)
        /\ Crash(n)

HandleInvalidation(p, m) ==
  LET n == NodeOf[p] IN
  /\ m.type = "TREE_BUILD_INVALIDATION"
  /\ \/ /\ Known(n)
        /\ write_q' = PutLeafward(write_q, trees[n].leafward, Invalidation)
        /\ trees' = [trees EXCEPT ![n] = None]
     \/ ~Known(n) /\ UNCHANGED <<write_q, trees>>
  /\ UNCHANGED <<port_paths, crashed>>

TakeMessage(p) ==
  /\ ~crashed[NodeOf[p]] /\ visiting[NodeOf[p]] = p
  /\ visiting' = [visiting EXCEPT ![NodeOf[p]] = None]
  /\ \/ /\ read_q[p] = <<>>
        /\ UNCHANGED <<read_q, write_q, trees, port_paths, crashed>>
     \/ /\ read_q[p] # <<>>
        /\ read_q' = [read_q EXCEPT ![p] = Tail(@)]
        /\ \/ HandleTreeBuild(p, Head(read_q[p]))
           \/ HandleTreeBuildAck(p, Head(read_q[p]))
           \/ HandleInvalidation(p, Head(read_q[p]))
  /\ UNCHANGED <<signal_q, instance, links>>

-----------------------------------------------------------------------------
Link(p) ==
  \/ ServerUp(p) \/ ClientUp(p) \/ Ignore(p) \/ ConnectionLost(p)
  \/ ProcessSend(p) \/ HandleNormalPacket(p) \/ Lose(p)

Next == \E p \in Port : Link(p) \/ Visit(p) \/ TakeMessage(p)

Spec == Init /\ [][Next]_vars

\* Event loops run what is ready; an agent visits all its ports in turn, so no
\* port waits for ever for its visit though visits to others come between.
FairSpec ==
  /\ Spec
  /\ \A p \in Port \ Client : WF_vars(ServerUp(p))
  /\ \A p \in Client : WF_vars(ClientUp(p))
  /\ \A p \in Port : WF_vars(ProcessSend(p)) /\ WF_vars(HandleNormalPacket(p))
  /\ \A p \in Port : SF_vars(Visit(p))
  /\ \A n \in Node : WF_vars(\E p \in PortsOf(n) : TakeMessage(p))

-----------------------------------------------------------------------------
(* Properties.                                                             *)

Message == [type : {"TREE_BUILD"}, inst : Nat, hops : Nat]
           \cup [type : {"TREE_BUILD_ACK"}, inst : Nat, path : Seq(Port)]
           \cup {Invalidation}

Queue(q, S) == q \in [Port -> Seq(S)]

\* Every variable has its type.
TypeOK ==
  /\ up \in [Port -> BOOLEAN]
  /\ Queue(signal_q, {"CONNECTED", "DISCONNECTED"})
  /\ Queue(read_q, Message) /\ Queue(write_q, Message)
  /\ Queue(net, Message \cup {YesIAm})
  /\ visiting \in [Node -> Port \cup {None}]
  /\ trees \in [Node -> TreeEntry \cup {None}]
  /\ instance \in Nat
  /\ port_paths = None \/ port_paths \subseteq Seq(Port)
  /\ crashed \in [Node -> BOOLEAN]
  /\ downs \in Nat

\* No agent dies.  "Managing the trees in the face of port connections and
\* disconnections" (Agent.py:47).
AgentsSurvive == \A n \in Node : ~crashed[n]

\* As long as no link fails, whoever holds the tree got it from a neighbour
\* that holds the same instance of it and is one hop nearer to the root: the
\* rootward ports lead to the root, in a ring too (Agent.py:110-140).
RootwardLeadsToRoot ==
  \A n \in Node : Known(n) =>
    LET q == PeerOf[trees[n].rootward] IN
    \/ q = Root /\ trees[n].hops = 1 /\ trees[n].inst = instance
    \/ /\ q # Root /\ Known(NodeOf[q])
       /\ trees[NodeOf[q]].hops + 1 = trees[n].hops
       /\ trees[NodeOf[q]].inst = trees[n].inst

\* As long as no link fails, a port is listed as leafward only if the node
\* behind it hangs its tree on it: an invalidation goes to children only
\* (Agent.py:102-103, :151, :160-161).
LeafwardPortsAreChildren ==
  \A n \in Node : Known(n) => \A i \in DOMAIN trees[n].leafward :
    LET q == PeerOf[trees[n].leafward[i]] IN
    Known(NodeOf[q]) /\ trees[NodeOf[q]].rootward = q

\* Every path the root has gathered can be walked along links: each port on it
\* is one of the node that the link of the port before leads to
\* (Agent.py:123, :153; trees.py:16-21).
PathsAreWalkable ==
  port_paths # None => \A path \in port_paths :
    /\ path # <<>>
    /\ NodeOf[path[1]] = NodeOf[PeerOf[Root]]
    /\ \A i \in 1..(Len(path) - 1) :
         NodeOf[path[i + 1]] = NodeOf[PeerOf[path[i]]]
    /\ LET before == IF Len(path) = 1 THEN Root ELSE path[Len(path) - 1] IN
       path[Len(path)] = PeerOf[before]

\* When the root has gathered the path to its neighbour, and the neighbour has the
\* tree from the root itself, then it is the instance that the root builds: no ack
\* that is late or left over from an earlier session counts for a later one
\* (Agent.py:63, :112, :132, :143-149).
GatheredPathsAreCurrent ==
  LET q == PeerOf[Root]
      n == NodeOf[q]
  IN  port_paths # None /\ Known(n) =>
        (<<q>> \in port_paths /\ trees[n].rootward = q /\ trees[n].hops = 1 =>
           trees[n].inst = instance)

\* The instance of a tree only ever moves on at a node: "the instance id of the
\* tree, used to invalidate old trees" (messages.py:14).
InstancesMoveOn ==
  [][\A n \in Node : Known(n) /\ trees'[n] # None => trees'[n].inst >= trees[n].inst]_vars

\* If no link fails, every node comes to hold the tree, and the root learns a
\* path to each of them (Agent.py:61-64, :84-90, :110-154).
TreeIsBuilt ==
  <>[](/\ \A n \in Node \ {NodeOf[Root]} : Known(n)
       /\ port_paths # None
       /\ \A n \in Node : Known(n) =>
            \E path \in port_paths : path[Len(path)] = trees[n].rootward)
=============================================================================
