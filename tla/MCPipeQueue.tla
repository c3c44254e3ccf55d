----------------------------- MODULE MCPipeQueue -----------------------------
(***************************************************************************)
(* A message that is written at once, and one that is larger than a pipe.  *)
(***************************************************************************)
EXTENDS PipeQueue

CONSTANTS s, l

MCSize == [m \in Message |-> IF m = s THEN 2 ELSE 5]
=============================================================================
