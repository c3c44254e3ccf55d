----------------------------- MODULE LegacyPort ------------------------------
(***************************************************************************)
(* The ports that main.py starts (sim/Sim.py), two of them on a cable:     *)
(* each looks for its neighbour on its interface (util.py), opens an       *)
(* endpoint when it has found one (port/Port.py), and speaks the older     *)
(* EthernetProtocol there (port/protocol/Protocol.py).                     *)
(*                                                                         *)
(* Discovery runs three commands one after the other; addresses and the    *)
(* table of neighbours change in between.  Addresses are numbers, compared *)
(* as the program compares its strings.                                    *)
(***************************************************************************)
EXTENDS Naturals, FiniteSets

CONSTANTS
  AddressOf,   \* [End -> the link-local addresses that its interface may get]
  Overlap,     \* may an interface have two of them at a time?
  MaxMoves     \* bound: changes of an address, at each end

End == {"a", "b"}
Peer(e) == IF e = "a" THEN "b" ELSE "a"
Address == UNION {AddressOf[e] : e \in End}

ASSUME LegacyAssumption ==
  /\ AddressOf \in [End -> SUBSET Nat]
  /\ \A e \in End : AddressOf[e] # {}
  /\ AddressOf["a"] \cap AddressOf["b"] = {}
  /\ Overlap \in BOOLEAN /\ MaxMoves \in Nat

VARIABLES
  addresses,    \* [End -> SUBSET Address], the link-local ones of an interface
  others,       \* [End -> {0, 2}], how many other addresses it has
  reachable,    \* [End -> SUBSET Address], its REACHABLE neighbours
  moves,        \* [End -> Nat], changes of its address
  run_link,     \* [End -> {"waiting", "open", "ended"}]
  step,         \* [End -> {"ifconfig", "ping", "neighbor", "open"}]
  listed,       \* [End -> SUBSET Address], what ifconfig listed
  found,        \* [End -> [local, remote, is_client] or Nothing]
  pings,        \* [End -> BOOLEAN], the ping task lives
  link_state,   \* [End -> {"disconnected", "connected"}]
  net           \* [End -> SUBSET Datagram], under way to an end

interface == <<addresses, others, reachable, moves>>
discovery == <<step, listed, found>>
protocol == <<pings, link_state, net>>
vars == <<interface, run_link, discovery, protocol>>

Datagram == {"AREYOUTHERE", "YESTHISIS", "YESIAM"}
Nothing == [is_client |-> FALSE]

Init ==
  /\ addresses \in {f \in [End -> {{x} : x \in Address}] :
                      \A e \in End : f[e] \subseteq AddressOf[e]}
  /\ others = [e \in End |-> 0]
  /\ reachable = [e \in End |-> {}]
  /\ moves = [e \in End |-> 0]
  /\ run_link = [e \in End |-> "waiting"]
  /\ step = [e \in End |-> "ifconfig"]
  /\ listed = [e \in End |-> {}]
  /\ found = [e \in End |-> Nothing]
  /\ pings = [e \in End |-> FALSE]
  /\ link_state = [e \in End |-> "disconnected"]
  /\ net = [e \in End |-> {}]

-----------------------------------------------------------------------------
(* The interfaces.                                                         *)

\* A new address, and the old one gone, at once or later.
Move(e) ==
  /\ moves[e] < MaxMoves
  /\ moves' = [moves EXCEPT ![e] = @ + 1]
  /\ \E x \in AddressOf[e] \ addresses[e] :
       \/ addresses' = [addresses EXCEPT ![e] = {x}]
       \/ Overlap /\ addresses' = [addresses EXCEPT ![e] = @ \cup {x}]
  /\ UNCHANGED <<others, reachable, run_link, discovery, protocol>>

\* Addresses that are not link-local.
AddOthers(e) ==
  /\ others[e] = 0
  /\ others' = [others EXCEPT ![e] = 2]
  /\ UNCHANGED <<addresses, reachable, moves, run_link, discovery, protocol>>

\* A neighbour that was not heard of for a while; longer than the time from a
\* ping to the listing.
Forget(e, x) ==
  /\ x \in reachable[e] /\ step[e] # "neighbor"
  /\ reachable' = [reachable EXCEPT ![e] = @ \ {x}]
  /\ UNCHANGED <<addresses, others, moves, run_link, discovery, protocol>>

-----------------------------------------------------------------------------
(* get_ipv6_neighbors, and wait_for_connection around it.                  *)

Searches(e, s) == run_link[e] = "waiting" /\ step[e] = s

\* More than two addresses raise; wait_for_connection then returns nothing, and
\* run_link, which unpacks it, ends.
Ifconfig(e) ==
  /\ Searches(e, "ifconfig")
  /\ \/ /\ Cardinality(addresses[e]) + others[e] > 2
        /\ run_link' = [run_link EXCEPT ![e] = "ended"]
        /\ UNCHANGED <<step, listed>>
     \/ /\ Cardinality(addresses[e]) + others[e] <= 2
        /\ listed' = [listed EXCEPT ![e] = addresses[e]]
        /\ step' = [step EXCEPT ![e] = "ping"]
        /\ UNCHANGED run_link
  /\ UNCHANGED <<interface, found, protocol>>

\* ping_broadcast, whose result is True whatever becomes of the ping.
PingBroadcast(e) ==
  /\ Searches(e, "ping")
  /\ step' = [step EXCEPT ![e] = "neighbor"]
  /\ UNCHANGED <<run_link, listed, found, protocol>>

PingAnswered(e) ==
  /\ PingBroadcast(e)
  /\ reachable' = [reachable EXCEPT ![e] = @ \cup addresses[Peer(e)]]
  /\ UNCHANGED <<addresses, others, moves>>

PingUnanswered(e) == PingBroadcast(e) /\ UNCHANGED interface

\* Mutant: only REACHABLE entries count.
EntriesReachable(e) == reachable[e]

\* ip neighbor show: an interface's own addresses are PERMANENT entries.
Entries(e) == addresses[e] \cup reachable[e]

\* Mutant: of two entries the one that was listed is the interface's own, and
\* the other the neighbour, if any was listed.
PairCareless(e) ==
  IF Cardinality(Entries(e)) = 2
    THEN {p \in Entries(e) \X Entries(e) : p[1] # p[2]}
    ELSE {}

\* Two entries, one of them among the addresses that ifconfig has listed.
Pair(e) ==
  IF Cardinality(Entries(e)) = 2
    THEN {p \in Entries(e) \X Entries(e) : p[1] \in listed[e] /\ p[2] \notin listed[e]}
    ELSE {}

\* The lower address is the client.
IsClient(local, remote) == local < remote

\* The listing, and the roles; without a result the search starts again.
Show(e) ==
  /\ Searches(e, "neighbor")
  /\ \/ \E p \in Pair(e) :
          /\ found' = [found EXCEPT ![e] = [local |-> p[1], remote |-> p[2],
                                            is_client |-> IsClient(p[1], p[2])]]
          /\ step' = [step EXCEPT ![e] = "open"]
     \/ /\ Pair(e) = {}
        /\ step' = [step EXCEPT ![e] = "ifconfig"]
        /\ UNCHANGED found
  /\ UNCHANGED <<interface, run_link, listed, protocol>>

\* run_subprocess: a command that fails or takes too long has an empty output, as
\* has the listing of a table without entries; no error gets through.
CommandFails(e) ==
  /\ Searches(e, "neighbor")
  /\ step' = [step EXCEPT ![e] = "ifconfig"]
  /\ UNCHANGED <<interface, run_link, listed, found, protocol>>

\* Mutant: what was found is dropped as soon as the endpoint is open.
OpenForgetting(e) ==
  /\ Searches(e, "open")
  /\ step' = [step EXCEPT ![e] = "ifconfig"]
  /\ run_link' = [run_link EXCEPT ![e] =
                    IF found[e].local \in addresses[e] THEN "open" ELSE @]
  /\ found' = [found EXCEPT ![e] = Nothing]
  /\ UNCHANGED <<interface, listed, protocol>>

\* connection_made starts the client's ping task.
ConnectionMade(e) == pings' = [pings EXCEPT ![e] = found[e].is_client]

\* create_datagram_endpoint, which fails without the local address.
Open(e) ==
  /\ Searches(e, "open")
  /\ step' = [step EXCEPT ![e] = "ifconfig"]
  /\ \/ /\ found[e].local \in addresses[e]
        /\ run_link' = [run_link EXCEPT ![e] = "open"]
        /\ ConnectionMade(e)
        /\ UNCHANGED found
     \/ /\ found[e].local \notin addresses[e]
        /\ found' = [found EXCEPT ![e] = Nothing]
        /\ UNCHANGED <<run_link, pings>>
  /\ UNCHANGED <<interface, listed, link_state, net>>

-----------------------------------------------------------------------------
(* EthernetProtocol.                                                       *)

\* What e sends to x reaches the other end, if that listens there, and to e.
Reaches(e, x) ==
  /\ run_link[Peer(e)] = "open"
  /\ found[Peer(e)].local = x /\ x \in addresses[Peer(e)]
  /\ found[e].local \in addresses[e]
  /\ found[Peer(e)].is_client => found[Peer(e)].remote = found[e].local

\* A datagram may get lost.
Send(n, e, x, m) ==
  IF Reaches(e, x) THEN {n, [n EXCEPT ![Peer(e)] = @ \cup {m}]} ELSE {n}

\* The first ping is the last: the counter it goes into does not exist, which
\* ends the task.  No timeout is left, either.
PingAlive(e) ==
  /\ pings[e]
  /\ net' \in Send(net, e, found[e].remote, "AREYOUTHERE")
  /\ pings' = [pings EXCEPT ![e] = FALSE]
  /\ UNCHANGED <<interface, run_link, discovery, link_state>>

\* Not what a client waits for.
Answer == "YESTHISIS"

Consumed(e, m) == [net EXCEPT ![e] = @ \ {m}]

\* After the answer the same missing counter raises: the handler stays, no task
\* is started and no signal given, but link_state says connected.
HandleServerHandshake(e) ==
  /\ run_link[e] = "open" /\ ~found[e].is_client
  /\ "AREYOUTHERE" \in net[e]
  /\ link_state' = [link_state EXCEPT ![e] = "connected"]
  /\ net' \in Send(Consumed(e, "AREYOUTHERE"), e, found[Peer(e)].local, Answer)
  /\ UNCHANGED <<interface, run_link, discovery, pings>>

HandleHandshake(e, m) ==
  /\ run_link[e] = "open" /\ found[e].is_client
  /\ m \in net[e]
  /\ net' = Consumed(e, m)
  /\ link_state' = [link_state EXCEPT ![e] = IF m = "YESIAM" THEN "connected" ELSE @]
  /\ UNCHANGED <<interface, run_link, discovery, pings>>

-----------------------------------------------------------------------------
Search(e) ==
  \/ Ifconfig(e) \/ PingAnswered(e) \/ PingUnanswered(e)
  \/ Show(e) \/ CommandFails(e) \/ Open(e)

Next == \E e \in End :
  \/ Move(e) \/ AddOthers(e) \/ \E x \in Address : Forget(e, x)
  \/ Search(e)
  \/ PingAlive(e) \/ HandleServerHandshake(e)
  \/ \E m \in Datagram : HandleHandshake(e, m)

Spec == Init /\ [][Next]_vars

\* The search goes on, a neighbour answers a ping now and then, a listing does
\* not fail every time, and an address that is gone is forgotten by its neighbour.
FairSpec ==
  /\ Spec
  /\ \A e \in End :
       /\ WF_vars(Search(e))
       /\ SF_vars(PingAnswered(e))
       /\ SF_vars(Show(e) /\ Pair(e) # {})
       /\ SF_vars(\E x \in Address \ addresses[Peer(e)] : Forget(e, x))

-----------------------------------------------------------------------------
(* Properties.                                                             *)

\* Every variable has its type.
TypeOK ==
  /\ \A e \in End : addresses[e] \subseteq AddressOf[e] /\ addresses[e] # {}
  /\ others \in [End -> {0, 2}]
  /\ reachable \in [End -> SUBSET Address] /\ listed \in [End -> SUBSET Address]
  /\ moves \in [End -> 0..MaxMoves]
  /\ run_link \in [End -> {"waiting", "open", "ended"}]
  /\ step \in [End -> {"ifconfig", "ping", "neighbor", "open"}]
  /\ \A e \in End :
       found[e] # Nothing =>
         found[e] \in [local : Address, remote : Address, is_client : BOOLEAN]
  /\ \A e \in End : run_link[e] = "open" \/ step[e] = "open" => found[e] # Nothing
  /\ pings \in [End -> BOOLEAN]
  /\ link_state \in [End -> {"disconnected", "connected"}]
  /\ net \in [End -> SUBSET Datagram]

\* No port takes an address of its own for its neighbour's, although the list it
\* tells them apart by is older than the entries (util.py:50-66, :81-103).
NeighbourIsAnother ==
  \A e \in End : found[e] # Nothing => found[e].remote \in AddressOf[Peer(e)]

\* A search comes to an end: entries of former addresses and unanswered pings
\* only delay it (Port.py:170-198).
SearchEnds == \A e \in End : run_link[e] = "waiting" ~> run_link[e] # "waiting"

\* No client of this protocol is ever connected, and nothing is left that would
\* try again: its server answers YESTHISIS, it waits for YESIAM (Protocol.py:137,
\* :156).  objects.md:1-36 shows a client that is.
ClientNeverConnects ==
  \A e \in End : found[e].is_client => link_state[e] = "disconnected"
=============================================================================
