------------------------------- MODULE MCAgent -------------------------------
(***************************************************************************)
(* Small networks for Agent.tla; a port is named after its node.  In every *)
(* link the end that comes first in the alphabet is the server.            *)
(***************************************************************************)
EXTENDS Agent

Owner == [a1 |-> "a", a2 |-> "a", b1 |-> "b", b2 |-> "b", c1 |-> "c", c2 |-> "c"]

\* a1 - b1, b2 - c1, c2 - a2: three nodes in a ring.
Ring == [a1 |-> "b1", b1 |-> "a1", b2 |-> "c1", c1 |-> "b2", a2 |-> "c2", c2 |-> "a2"]
RingClient == {"b1", "c1", "c2"}

\* a1 - b1, b2 - c1: three nodes in a row.
Row == [a1 |-> "b1", b1 |-> "a1", b2 |-> "c1", c1 |-> "b2"]
RowClient == {"b1", "c1"}

\* a1 - b1, b2 - a2: two nodes joined by two links.
Pair == [a1 |-> "b1", b1 |-> "a1", b2 |-> "a2", a2 |-> "b2"]
PairClient == {"b1", "b2"}

\* a1 - b1: two nodes.
Wire == [a1 |-> "b1", b1 |-> "a1"]
WireClient == {"b1"}

RingPorts == DOMAIN Ring
RingOwner == [p \in RingPorts |-> Owner[p]]
RowPorts == DOMAIN Row
RowOwner == [p \in RowPorts |-> Owner[p]]
PairPorts == DOMAIN Pair
PairOwner == [p \in PairPorts |-> Owner[p]]
WirePorts == DOMAIN Wire
WireOwner == [p \in WirePorts |-> Owner[p]]
=============================================================================
