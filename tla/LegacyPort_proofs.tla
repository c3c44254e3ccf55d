-------------------------- MODULE LegacyPort_proofs --------------------------
(***************************************************************************)
(* Proofs about LegacyPort.tla, for any addresses: the types, what a       *)
(* search takes for the neighbour, and that the older protocol connects no *)
(* client.                                                                 *)
(***************************************************************************)
EXTENDS LegacyPort, FiniteSetTheorems, TLAPS

-----------------------------------------------------------------------------
(* The inductive invariant.                                                *)

\* What an end lists are its own addresses, now or before, and what it reaches
\* are its neighbour's.
InterfaceOK ==
  /\ addresses \in [End -> SUBSET Address]
  /\ \A e \in End : listed[e] \subseteq AddressOf[e] /\ reachable[e] \subseteq AddressOf[Peer(e)]

\* A search finds an address of its own end.
FoundOK ==
  /\ DOMAIN found = End
  /\ \A e \in End : found[e] # Nothing => found[e].local \in AddressOf[e]

\* Only a server is connected; the answer that would connect a client is never sent.
HandshakeOK ==
  \A e \in End :
    /\ "YESIAM" \notin net[e]
    /\ link_state[e] = "connected" => run_link[e] = "open" /\ ~found[e].is_client

IInv == InterfaceOK /\ FoundOK /\ HandshakeOK

\* Without overlap an interface has one address, and a neighbour found is another.
OneAddress == \A e \in End : \E x \in Address : addresses[e] = {x}

-----------------------------------------------------------------------------
(* The ends and their addresses.                                           *)

LEMMA Ends ==
  ASSUME NEW e \in End
  PROVE  /\ Peer(e) \in End /\ Peer(Peer(e)) = e /\ Peer(e) # e
         /\ AddressOf[e] \subseteq Address /\ AddressOf[e] \subseteq Nat
         /\ AddressOf[e] \cap AddressOf[Peer(e)] = {}
<1>1. Peer(e) \in End /\ Peer(Peer(e)) = e /\ Peer(e) # e
  BY DEF End, Peer
<1>2. AddressOf[e] \subseteq Address /\ AddressOf[e] \subseteq Nat
  BY LegacyAssumption DEF Address
<1>3. AddressOf[e] \cap AddressOf[Peer(e)] = {}
  BY LegacyAssumption DEF End, Peer
<1> QED
  BY <1>1, <1>2, <1>3

\* A record of what was found is never taken for nothing.
LEMMA SomethingFound ==
  ASSUME NEW x, NEW y, NEW c
  PROVE  [local |-> x, remote |-> y, is_client |-> c] # Nothing
<1>1. DOMAIN [local |-> x, remote |-> y, is_client |-> c] = {"local", "remote", "is_client"}
  OBVIOUS
<1>2. DOMAIN Nothing = {"is_client"}
  BY DEF Nothing
<1> QED
  BY <1>1, <1>2

\* A datagram that is sent adds to what is under way, if anything.
LEMMA SendFacts ==
  ASSUME NEW n \in [End -> SUBSET Datagram], NEW e \in End, NEW x, NEW m \in Datagram,
         m # "YESIAM", \A i \in End : "YESIAM" \notin n[i],
         NEW s \in Send(n, e, x, m)
  PROVE  s \in [End -> SUBSET Datagram] /\ \A i \in End : "YESIAM" \notin s[i]
BY Ends DEF Send

-----------------------------------------------------------------------------
(* The steps.                                                              *)

LEMMA InterfaceStep ==
  ASSUME TypeOK, IInv, NEW e \in End,
         Move(e) \/ AddOthers(e) \/ \E x \in Address : Forget(e, x)
  PROVE  TypeOK' /\ IInv'
<1>1. UNCHANGED <<run_link, discovery, protocol>>
  BY DEF Move, AddOthers, Forget
<1>2. FoundOK' /\ HandshakeOK'
  BY <1>1 DEF discovery, protocol, IInv, FoundOK, HandshakeOK
<1>3. CASE Move(e)
  <2>1. \A x \in AddressOf[e] : x \in Address
    BY Ends
  <2>2. PICK x \in AddressOf[e] :
          \/ addresses' = [addresses EXCEPT ![e] = {x}]
          \/ addresses' = [addresses EXCEPT ![e] = @ \cup {x}]
    BY <1>3 DEF Move
  <2>3. /\ addresses' \in [End -> SUBSET Address]
        /\ \A d \in End : addresses'[d] \subseteq AddressOf[d] /\ addresses'[d] # {}
    <3>1. PICK S \in SUBSET Address :
            addresses' = [addresses EXCEPT ![e] = S] /\ S \subseteq AddressOf[e] /\ S # {}
      <4>1. CASE addresses' = [addresses EXCEPT ![e] = {x}]
        BY <2>1, <4>1
      <4>2. CASE addresses' = [addresses EXCEPT ![e] = addresses[e] \cup {x}]
        <5>1. /\ addresses[e] \subseteq AddressOf[e] /\ addresses[e] \subseteq Address
              /\ x \in Address
          BY <2>1, Ends DEF TypeOK
        <5>2. /\ addresses[e] \cup {x} \in SUBSET Address
              /\ addresses[e] \cup {x} \subseteq AddressOf[e] /\ addresses[e] \cup {x} # {}
          BY <5>1
        <5> QED
          BY <4>2, <5>2
      <4> QED
        BY <2>2, <4>1, <4>2
    <3> QED
      BY <3>1 DEF TypeOK, IInv, InterfaceOK
  <2>4. moves' \in [End -> 0..MaxMoves]
    BY <1>3, LegacyAssumption DEF Move, TypeOK
  <2>5. UNCHANGED <<others, reachable, run_link, discovery, protocol>>
    BY <1>3 DEF Move
  <2>6. InterfaceOK'
    BY <2>3, <2>5 DEF discovery, IInv, InterfaceOK
  <2>7. TypeOK'
    BY <2>3, <2>4, <2>5 DEF discovery, protocol, TypeOK
  <2> QED
    BY <1>2, <2>6, <2>7 DEF IInv
<1>4. CASE AddOthers(e)
  <2>1. UNCHANGED <<addresses, reachable, moves, run_link, discovery, protocol>>
    BY <1>4 DEF AddOthers
  <2>2. others' \in [End -> {0, 2}]
    BY <1>4 DEF AddOthers, TypeOK
  <2>3. InterfaceOK' /\ TypeOK'
    BY <2>1, <2>2 DEF discovery, protocol, TypeOK, IInv, InterfaceOK
  <2> QED
    BY <1>2, <2>3 DEF IInv
<1>5. CASE \E x \in Address : Forget(e, x)
  <2>1. PICK x \in Address : reachable' = [reachable EXCEPT ![e] = @ \ {x}]
    BY <1>5 DEF Forget
  <2>2. UNCHANGED <<addresses, others, moves, run_link, discovery, protocol>>
    BY <1>5 DEF Forget
  <2>3. /\ reachable' \in [End -> SUBSET Address]
        /\ \A d \in End : reachable'[d] \subseteq AddressOf[Peer(d)]
    BY <2>1 DEF TypeOK, IInv, InterfaceOK
  <2>4. InterfaceOK' /\ TypeOK'
    BY <2>2, <2>3 DEF discovery, protocol, TypeOK, IInv, InterfaceOK
  <2> QED
    BY <1>2, <2>4 DEF IInv
<1> QED
  BY <1>3, <1>4, <1>5

LEMMA ListingStep ==
  ASSUME TypeOK, IInv, NEW e \in End,
         Ifconfig(e) \/ PingAnswered(e) \/ PingUnanswered(e) \/ CommandFails(e)
  PROVE  TypeOK' /\ IInv'
<1>1. UNCHANGED <<addresses, others, moves, found, protocol>>
  BY DEF Ifconfig, PingAnswered, PingUnanswered, PingBroadcast, CommandFails, interface
<1>2. /\ step' \in [End -> {"ifconfig", "ping", "neighbor", "open"}]
      /\ \A d \in End : step'[d] = "open" => step[d] = "open"
  BY DEF Ifconfig, PingAnswered, PingUnanswered, PingBroadcast, CommandFails, TypeOK
<1>3. /\ run_link' \in [End -> {"waiting", "open", "ended"}]
      /\ \A d \in End : run_link'[d] = "open" <=> run_link[d] = "open"
  BY DEF Ifconfig, PingAnswered, PingUnanswered, PingBroadcast, CommandFails, Searches, TypeOK
<1>4. /\ listed' \in [End -> SUBSET Address]
      /\ \A d \in End : listed'[d] \subseteq AddressOf[d]
  <2>1. CASE Ifconfig(e)
    BY <2>1 DEF Ifconfig, TypeOK, IInv, InterfaceOK
  <2>2. CASE ~Ifconfig(e)
    BY <2>2 DEF PingAnswered, PingUnanswered, PingBroadcast, CommandFails, TypeOK, IInv, InterfaceOK
  <2> QED
    BY <2>1, <2>2
<1>5. /\ reachable' \in [End -> SUBSET Address]
      /\ \A d \in End : reachable'[d] \subseteq AddressOf[Peer(d)]
  <2>1. CASE PingAnswered(e)
    <3>1. reachable' = [reachable EXCEPT ![e] = @ \cup addresses[Peer(e)]]
      BY <2>1 DEF PingAnswered
    <3>2. addresses[Peer(e)] \subseteq AddressOf[Peer(e)] /\ addresses[Peer(e)] \subseteq Address
      BY Ends DEF TypeOK, IInv, InterfaceOK
    <3> QED
      BY <3>1, <3>2 DEF TypeOK, IInv, InterfaceOK
  <2>2. CASE ~PingAnswered(e)
    BY <2>2 DEF Ifconfig, PingUnanswered, CommandFails, interface, TypeOK, IInv, InterfaceOK
  <2> QED
    BY <2>1, <2>2
<1>6. TypeOK'
  BY <1>1, <1>2, <1>3, <1>4, <1>5 DEF protocol, TypeOK
<1>7. InterfaceOK' /\ FoundOK' /\ HandshakeOK'
  BY <1>1, <1>3, <1>4, <1>5 DEF protocol, IInv, InterfaceOK, FoundOK, HandshakeOK
<1> QED
  BY <1>6, <1>7 DEF IInv

LEMMA ShowStep ==
  ASSUME TypeOK, IInv, NEW e \in End, Show(e)
  PROVE  TypeOK' /\ IInv'
<1>1. /\ UNCHANGED <<interface, run_link, listed, protocol>>
      /\ run_link[e] = "waiting"
  BY DEF Show, Searches
<1>2. CASE Pair(e) = {} /\ step' = [step EXCEPT ![e] = "ifconfig"] /\ UNCHANGED found
  <2>1. TypeOK'
    BY <1>1, <1>2 DEF interface, protocol, TypeOK
  <2>2. InterfaceOK' /\ FoundOK' /\ HandshakeOK'
    BY <1>1, <1>2 DEF interface, protocol, IInv, InterfaceOK, FoundOK, HandshakeOK
  <2> QED
    BY <2>1, <2>2 DEF IInv
<1>3. ASSUME NEW p \in Pair(e),
             found' = [found EXCEPT ![e] = [local |-> p[1], remote |-> p[2],
                                            is_client |-> IsClient(p[1], p[2])]],
             step' = [step EXCEPT ![e] = "open"]
      PROVE  TypeOK' /\ IInv'
  <2> DEFINE f == [local |-> p[1], remote |-> p[2], is_client |-> IsClient(p[1], p[2])]
  <2>1. p[1] \in Entries(e) /\ p[2] \in Entries(e) /\ p[1] \in listed[e]
    BY DEF Pair
  <2>2. p[1] \in Address /\ p[2] \in Address /\ p[1] \in AddressOf[e]
    BY <2>1 DEF Entries, TypeOK, IInv, InterfaceOK
  <2>3. f \in [local : Address, remote : Address, is_client : BOOLEAN]
    BY <2>2 DEF IsClient
  <2>4. f # Nothing
    BY SomethingFound
  <2>5. f.local \in AddressOf[e] /\ f.is_client = (f.local < f.remote)
    BY <2>2 DEF IsClient
  <2>6. found' = [found EXCEPT ![e] = f]
    BY <1>3
  <2> HIDE DEF f
  <2>7. /\ DOMAIN found' = End /\ found'[e] = f
        /\ \A d \in End \ {e} : found'[d] = found[d] /\ step'[d] = step[d]
    BY <1>3, <2>6 DEF TypeOK, IInv, FoundOK
  <2>8. step' \in [End -> {"ifconfig", "ping", "neighbor", "open"}]
    BY <1>3 DEF TypeOK
  <2>9. TypeOK'
    BY <1>1, <2>3, <2>4, <2>7, <2>8 DEF interface, protocol, TypeOK
  <2>10. FoundOK'
    BY <2>5, <2>7 DEF IInv, FoundOK
  <2>11. InterfaceOK' /\ HandshakeOK'
    BY <1>1, <2>7 DEF interface, protocol, IInv, InterfaceOK, HandshakeOK
  <2> QED
    BY <2>9, <2>10, <2>11 DEF IInv
<1> QED
  BY <1>2, <1>3 DEF Show

LEMMA OpenStep ==
  ASSUME TypeOK, IInv, NEW e \in End, Open(e)
  PROVE  TypeOK' /\ IInv'
<1>1. /\ UNCHANGED <<interface, listed, link_state, net>>
      /\ run_link[e] = "waiting" /\ step[e] = "open"
      /\ step' = [step EXCEPT ![e] = "ifconfig"]
  BY DEF Open, Searches
<1>2. found[e] # Nothing /\ found[e].is_client \in BOOLEAN
  BY <1>1 DEF TypeOK
<1>3. CASE /\ run_link' = [run_link EXCEPT ![e] = "open"]
           /\ ConnectionMade(e) /\ UNCHANGED found
  <2>1. pings' \in [End -> BOOLEAN]
    BY <1>2, <1>3 DEF ConnectionMade, TypeOK
  <2>2. TypeOK'
    BY <1>1, <1>2, <1>3, <2>1 DEF interface, TypeOK
  <2>3. InterfaceOK' /\ FoundOK' /\ HandshakeOK'
    BY <1>1, <1>3 DEF interface, TypeOK, IInv, InterfaceOK, FoundOK, HandshakeOK
  <2> QED
    BY <2>2, <2>3 DEF IInv
<1>4. CASE found' = [found EXCEPT ![e] = Nothing] /\ UNCHANGED <<run_link, pings>>
  <2>1. /\ DOMAIN found' = End /\ found'[e] = Nothing
        /\ \A d \in End \ {e} : found'[d] = found[d]
    BY <1>4 DEF IInv, FoundOK
  <2>2. TypeOK'
    BY <1>1, <1>4, <2>1 DEF interface, TypeOK
  <2>3. InterfaceOK' /\ FoundOK' /\ HandshakeOK'
    BY <1>1, <1>4, <2>1 DEF interface, IInv, InterfaceOK, FoundOK, HandshakeOK
  <2> QED
    BY <2>2, <2>3 DEF IInv
<1> QED
  BY <1>3, <1>4 DEF Open

LEMMA ProtocolStep ==
  ASSUME TypeOK, IInv, NEW e \in End,
         \/ PingAlive(e) \/ HandleServerHandshake(e)
         \/ \E m \in Datagram : HandleHandshake(e, m)
  PROVE  TypeOK' /\ IInv'
<1>1. UNCHANGED <<interface, run_link, discovery>>
  BY DEF PingAlive, HandleServerHandshake, HandleHandshake
<1>2. net \in [End -> SUBSET Datagram] /\ \A i \in End : "YESIAM" \notin net[i]
  BY DEF TypeOK, IInv, HandshakeOK
<1>3. \A m \in Datagram :
        /\ Consumed(e, m) \in [End -> SUBSET Datagram]
        /\ \A i \in End : "YESIAM" \notin Consumed(e, m)[i]
  BY <1>2 DEF Consumed
<1>4. /\ net' \in [End -> SUBSET Datagram] /\ \A i \in End : "YESIAM" \notin net'[i]
      /\ pings' \in [End -> BOOLEAN]
  <2>1. CASE PingAlive(e)
    <3>1. net' \in Send(net, e, found[e].remote, "AREYOUTHERE") /\ "AREYOUTHERE" \in Datagram
      BY <2>1 DEF PingAlive, Datagram
    <3>2. pings' \in [End -> BOOLEAN]
      BY <2>1 DEF PingAlive, TypeOK
    <3>3. "AREYOUTHERE" # "YESIAM"
      OBVIOUS
    <3> QED
      BY <1>2, <3>1, <3>2, <3>3, SendFacts
  <2>2. CASE HandleServerHandshake(e)
    <3>1. /\ net' \in Send(Consumed(e, "AREYOUTHERE"), e, found[Peer(e)].local, Answer)
          /\ "AREYOUTHERE" \in Datagram /\ Answer \in Datagram /\ Answer # "YESIAM"
          /\ UNCHANGED pings
      BY <2>2 DEF HandleServerHandshake, Datagram, Answer
    <3>2. net' \in [End -> SUBSET Datagram] /\ \A i \in End : "YESIAM" \notin net'[i]
      BY <1>3, <3>1, SendFacts
    <3> QED
      BY <3>1, <3>2 DEF TypeOK
  <2>3. CASE \E m \in Datagram : HandleHandshake(e, m)
    BY <1>3, <2>3 DEF HandleHandshake, TypeOK
  <2> QED
    BY <2>1, <2>2, <2>3
<1>5. /\ link_state' \in [End -> {"disconnected", "connected"}]
      /\ \A d \in End : link_state'[d] = "connected" => run_link[d] = "open" /\ ~found[d].is_client
  <2>1. CASE PingAlive(e)
    BY <2>1 DEF PingAlive, TypeOK, IInv, HandshakeOK
  <2>2. CASE HandleServerHandshake(e)
    BY <2>2 DEF HandleServerHandshake, TypeOK, IInv, HandshakeOK
  <2>3. ASSUME NEW m \in Datagram, HandleHandshake(e, m)
        PROVE  UNCHANGED link_state
    <3>1. m # "YESIAM"
      BY <1>2, <2>3 DEF HandleHandshake
    <3> QED
      BY <2>3, <3>1 DEF HandleHandshake, TypeOK
  <2>4. CASE UNCHANGED link_state
    BY <2>4 DEF TypeOK, IInv, HandshakeOK
  <2> QED
    BY <2>1, <2>2, <2>3, <2>4
<1>6. TypeOK'
  BY <1>1, <1>4, <1>5 DEF interface, discovery, TypeOK
<1>7. InterfaceOK' /\ FoundOK' /\ HandshakeOK'
  BY <1>1, <1>4, <1>5 DEF interface, discovery, IInv, InterfaceOK, FoundOK, HandshakeOK
<1> QED
  BY <1>6, <1>7 DEF IInv

-----------------------------------------------------------------------------
(* The theorems.                                                           *)

\* Lists, entries and what a search found are of the end they belong to, roles go
\* by the two addresses, and only servers are connected (util.py:50-121,
\* Port.py:170-271, Protocol.py:120-160).
THEOREM InductiveInvariant == Spec => [](TypeOK /\ IInv)
<1>1. Init => TypeOK /\ IInv
  <2> SUFFICES ASSUME Init PROVE TypeOK /\ IInv
    OBVIOUS
  <2>1. /\ addresses \in [End -> SUBSET Address]
        /\ \A e \in End : addresses[e] \subseteq AddressOf[e] /\ addresses[e] # {}
    BY SMTT(20) DEF Init
  <2>2. InterfaceOK /\ FoundOK /\ HandshakeOK
    BY <2>1 DEF Init, InterfaceOK, FoundOK, HandshakeOK, Nothing
  <2>3. 0 \in 0..MaxMoves
    BY LegacyAssumption
  <2>4. TypeOK
    BY <2>1, <2>3 DEF Init, TypeOK
  <2> QED
    BY <2>2, <2>4 DEF IInv
<1>2. TypeOK /\ IInv /\ [Next]_vars => (TypeOK /\ IInv)'
  <2> SUFFICES ASSUME TypeOK, IInv, [Next]_vars PROVE TypeOK' /\ IInv'
    OBVIOUS
  <2>1. CASE UNCHANGED vars
    BY <2>1 DEF vars, interface, discovery, protocol, TypeOK, IInv, InterfaceOK, FoundOK,
       HandshakeOK
  <2>2. CASE Next
    <3>1. PICK e \in End :
            \/ Move(e) \/ AddOthers(e) \/ \E x \in Address : Forget(e, x)
            \/ Search(e)
            \/ PingAlive(e) \/ HandleServerHandshake(e)
            \/ \E m \in Datagram : HandleHandshake(e, m)
      BY <2>2 DEF Next
    <3> QED
      BY <3>1, InterfaceStep, ListingStep, ShowStep, OpenStep, ProtocolStep DEF Search
  <2> QED
    BY <2>1, <2>2
<1> QED
  BY <1>1, <1>2, PTL DEF Spec

\* Every variable keeps its type; a port that opens has found a neighbour
\* (Port.py:170-198, :250-271).
THEOREM TypeCorrect == Spec => []TypeOK
BY InductiveInvariant, PTL

\* The server's answer is not the one that its client waits for, so that no
\* client ever gets connected (Protocol.py:137, :156).
THEOREM NoClientConnects == Spec => []ClientNeverConnects
<1>1. TypeOK /\ IInv => ClientNeverConnects
  BY DEF TypeOK, IInv, HandshakeOK, ClientNeverConnects
<1> QED
  BY <1>1, InductiveInvariant, PTL

\* An interface that has one address at a time never takes its own former or later
\* address for the neighbour's (util.py:50-66, :81-103).
THEOREM NeighbourIsNeverOneself ==
  ASSUME ~Overlap
  PROVE  Spec => []NeighbourIsAnother
<1>1. Init => OneAddress /\ NeighbourIsAnother
  BY DEF Init, OneAddress, NeighbourIsAnother
<1>2. TypeOK /\ IInv /\ OneAddress /\ NeighbourIsAnother /\ [Next]_vars
      => OneAddress' /\ NeighbourIsAnother'
  <2> SUFFICES ASSUME TypeOK, IInv, OneAddress, NeighbourIsAnother, [Next]_vars
               PROVE  OneAddress' /\ NeighbourIsAnother'
    OBVIOUS
  <2>1. OneAddress'
    <3>1. ASSUME NEW e \in End, Move(e)
          PROVE  OneAddress'
      <4>1. PICK x \in AddressOf[e] : addresses' = [addresses EXCEPT ![e] = {x}]
        BY <3>1 DEF Move
      <4>2. x \in Address
        BY <4>1, Ends
      <4> QED
        BY <4>1, <4>2 DEF OneAddress, IInv, InterfaceOK
    <3>2. CASE UNCHANGED addresses
      BY <3>2 DEF OneAddress
    <3>3. CASE ~(\E e \in End : Move(e))
      <4>1. UNCHANGED addresses
        BY <3>3 DEF Next, AddOthers, Forget, Search, Ifconfig, PingAnswered, PingUnanswered,
           PingBroadcast, Show, CommandFails, Open, PingAlive, HandleServerHandshake,
           HandleHandshake, interface, vars
      <4> QED
        BY <3>2, <4>1
    <3> QED
      BY <3>1, <3>3
  <2>2. NeighbourIsAnother'
    <3>1. ASSUME NEW e \in End, Show(e), found' # found
          PROVE  NeighbourIsAnother'
      <4>1. PICK p \in Pair(e) :
              found' = [found EXCEPT ![e] = [local |-> p[1], remote |-> p[2],
                                             is_client |-> IsClient(p[1], p[2])]]
        BY <3>1 DEF Show
      <4>2. PICK x \in Address : addresses[e] = {x}
        BY DEF OneAddress
      <4>3. /\ p[1] \in listed[e] /\ p[2] \notin listed[e]
            /\ p[1] \in {x} \cup reachable[e] /\ p[2] \in {x} \cup reachable[e]
        BY <4>2 DEF Pair, Entries
      <4>4. /\ listed[e] \subseteq AddressOf[e] /\ reachable[e] \subseteq AddressOf[Peer(e)]
            /\ AddressOf[e] \cap AddressOf[Peer(e)] = {}
        BY Ends DEF IInv, InterfaceOK
      <4>5. p[2] \in AddressOf[Peer(e)]
        BY <4>3, <4>4
      <4> DEFINE f == [local |-> p[1], remote |-> p[2], is_client |-> IsClient(p[1], p[2])]
      <4>6. f.remote = p[2] /\ found' = [found EXCEPT ![e] = f]
        BY <4>1
      <4> HIDE DEF f
      <4> QED
        BY <4>5, <4>6 DEF NeighbourIsAnother, IInv, FoundOK
    <3>2. ASSUME NEW e \in End, found' = [found EXCEPT ![e] = Nothing]
          PROVE  NeighbourIsAnother'
      BY <3>2 DEF NeighbourIsAnother, IInv, FoundOK
    <3>3. CASE UNCHANGED found
      BY <3>3 DEF NeighbourIsAnother
    <3>4. \/ \E e \in End : Show(e) /\ found' # found
          \/ \E e \in End : found' = [found EXCEPT ![e] = Nothing]
          \/ UNCHANGED found
      BY DEF Next, Move, AddOthers, Forget, Search, Ifconfig, PingAnswered, PingUnanswered,
         PingBroadcast, CommandFails, Open, PingAlive, HandleServerHandshake,
         HandleHandshake, discovery, vars
    <3> QED
      BY <3>1, <3>2, <3>3, <3>4
  <2> QED
    BY <2>1, <2>2
<1> QED
  BY <1>1, <1>2, InductiveInvariant, PTL DEF Spec
=============================================================================
