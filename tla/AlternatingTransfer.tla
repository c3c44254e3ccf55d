------------------------- MODULE AlternatingTransfer -------------------------
(***************************************************************************)
(* What the slice protocol promises to the two applications at its ends:   *)
(* one transfer right ("the turn") alternates between the ends, so items   *)
(* cross the link one at a time, in order, never twice.  A grant creates   *)
(* the turn, at the client, when no turn is left; losing the item under    *)
(* way loses the turn with it.  SliceProtocol.tla implements this module.  *)
(***************************************************************************)
EXTENDS Naturals, Sequences

CONSTANT Item    \* what the applications send

End == {"client", "server"}
Peer(e) == IF e = "client" THEN "server" ELSE "client"

VARIABLES
  write_q,   \* [End -> Seq(Item)]  items handed in at an end, not yet taken
  read_q,    \* [End -> Seq(Item)]  items delivered at an end
  turn,      \* the ends that may take an item: at most one
  flight,    \* the items under way, as records [to, item]: at most one
  grants     \* how many turns were granted so far

vars == <<write_q, read_q, turn, flight, grants>>

Init ==
  /\ write_q = [e \in End |-> <<>>]
  /\ read_q = [e \in End |-> <<>>]
  /\ turn = {}
  /\ flight = {}
  /\ grants = 0

HandIn(e) ==
  /\ \E item \in Item : write_q' = [write_q EXCEPT ![e] = Append(@, item)]
  /\ UNCHANGED <<read_q, turn, flight, grants>>

\* The item may be lost at once, when nobody listens at the other end.
Take(e) ==
  /\ turn = {e}
  /\ write_q[e] # <<>>
  /\ write_q' = [write_q EXCEPT ![e] = Tail(@)]
  /\ turn' = {}
  /\ flight' \in {{}, {[to |-> Peer(e), item |-> Head(write_q[e])]}}
  /\ UNCHANGED <<read_q, grants>>

Deliver(e) ==
  \E p \in flight :
    /\ p.to = e
    /\ read_q' = [read_q EXCEPT ![e] = Append(@, p.item)]
    /\ flight' = {}
    /\ turn' = {e}
    /\ UNCHANGED <<write_q, grants>>

Lose ==
  /\ turn' = {}
  /\ flight' = {}
  /\ UNCHANGED <<write_q, read_q, grants>>

\* A session starts: its client has the turn, and no turn is left from before.
Grant ==
  /\ turn = {}
  /\ flight = {}
  /\ turn' = {"client"}
  /\ grants' = grants + 1
  /\ UNCHANGED <<write_q, read_q, flight>>

Next ==
  \/ \E e \in End : HandIn(e) \/ Take(e) \/ Deliver(e)
  \/ Lose
  \/ Grant

Spec == Init /\ [][Next]_vars

=============================================================================
