----------------------------- MODULE LinkService -----------------------------
(***************************************************************************)
(* What a link offers to the layers above: each end is up or down, and no  *)
(* client session starts without a server session of its own to answer it. *)
(* A claim stands for a server session that no client session has taken.   *)
(* Link.tla implements this module.                                        *)
(***************************************************************************)
EXTENDS Naturals

End == {"client", "server"}

VARIABLES
  up,        \* [End -> BOOLEAN]
  claims,    \* server sessions a client may still take
  sessions   \* [End -> Nat]  sessions started so far

vars == <<up, claims, sessions>>

Init ==
  /\ up = [e \in End |-> FALSE]
  /\ claims = 0
  /\ sessions = [e \in End |-> 0]

Starts(e) ==
  /\ ~up[e]
  /\ up' = [up EXCEPT ![e] = TRUE]
  /\ sessions' = [sessions EXCEPT ![e] = @ + 1]

\* The answer to the client may be lost at once.
ServerUp == Starts("server") /\ claims' \in 0..(claims + 1)

ClientUp == Starts("client") /\ claims > 0 /\ claims' = claims - 1

Down(e) ==
  /\ up[e]
  /\ up' = [up EXCEPT ![e] = FALSE]
  /\ claims' \in 0..claims
  /\ UNCHANGED sessions

Forget == claims' \in 0..claims /\ UNCHANGED <<up, sessions>>

Next == ServerUp \/ ClientUp \/ Forget \/ \E e \in End : Down(e)

Spec == Init /\ [][Next]_vars
=============================================================================
