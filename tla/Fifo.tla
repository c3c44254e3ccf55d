-------------------------------- MODULE Fifo ---------------------------------
(***************************************************************************)
(* What a PipeQueue promises to the threads at its ends: what is put comes *)
(* out whole, once and in order, until it is broken: closed, or given a    *)
(* message too large to be written at once.  PipeQueue.tla implements it.  *)
(***************************************************************************)
EXTENDS Sequences

CONSTANT Message

VARIABLES
  queue,      \* messages that were put and not yet taken
  received,   \* messages that were taken
  broken      \* no more promises

vars == <<queue, received, broken>>

Init == queue = <<>> /\ received = <<>> /\ broken = FALSE

Put ==
  /\ \E m \in Message : queue' = Append(queue, m)
  /\ UNCHANGED <<received, broken>>

Get ==
  /\ queue # <<>>
  /\ received' = Append(received, Head(queue))
  /\ queue' = Tail(queue)
  /\ UNCHANGED broken

Break == broken' = TRUE

Next == (~broken /\ (Put \/ Get)) \/ Break

Spec == Init /\ [][Next]_vars
=============================================================================
