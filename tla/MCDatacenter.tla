---------------------------- MODULE MCDatacenter -----------------------------
(***************************************************************************)
(* Two cells, and the files and commands that tell the cases apart.        *)
(***************************************************************************)
EXTENDS Datacenter

CONSTANTS a, b, e0, e1    \* ids of cells and names of ports

End(i, n) == [id |-> i, name |-> n]
Udp(x, y) == [end1 |-> x, end2 |-> y, transport |-> "udp", addrs |-> None]
Given(x, y, addrs) == [Udp(x, y) EXCEPT !.addrs = addrs]
Interface(x, y) ==
  [end1 |-> x, end2 |-> y, transport |-> "interface", addrs |-> <<<<>>, <<>>>>]

\* Two cells with two links between them.
Pair ==
  [cells |-> <<[id |-> a, rpc |-> 1], [id |-> b, rpc |-> 2]>>,
   links |-> <<Udp(End(a, e0), End(b, e0)), Udp(End(a, e1), End(b, e1))>>]

\* A cell linked to one that is not in the file, by an interface.
Half ==
  [cells |-> <<[id |-> a, rpc |-> 1]>>,
   links |-> <<Interface(End(a, e0), End(b, e0))>>]

\* A cell linked to itself, by addresses of which one is malformed.
Odd ==
  [cells |-> <<[id |-> b, rpc |-> 1]>>,
   links |-> <<Given(End(b, e0), End(b, e1), <<<<9002, 9003>>, <<9003>>>>)>>]

MCTopology == {Pair, Half, Odd}

MCEnds == {<<End(a, e0) @@ [addr |-> <<9000, 9001>>],
             End(b, e0) @@ [addr |-> <<9001, 9000>>]>>}
=============================================================================
