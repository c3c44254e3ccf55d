---------------------------- MODULE ChunkProtocol ----------------------------
(***************************************************************************)
(* hermes/port/protocol/ChunkProtocol.py at the two ends of a link: the    *)
(* state machine and the packet handlers of SliceProtocol.tla, and a send  *)
(* task that sleeps a tenth of a second, but only after a round in RD.     *)
(* In any other state the task goes round without an await: it keeps the   *)
(* event loop of its port, and no callback or other task runs there again. *)
(***************************************************************************)
EXTENDS SliceProtocol

VARIABLES
  polled,     \* [End -> BOOLEAN], the send task has had its first round
  captured    \* [End -> BOOLEAN], the send task keeps the event loop

chunkVars == <<vars, polled, captured>>
loops == <<polled, captured>>

ChunkInit ==
  /\ Init
  /\ polled = [e \in End |-> FALSE]
  /\ captured = [e \in End |-> FALSE]

Free(e) == ~captured[e]

\* on_connected creates the send task; its first round is due at once.
ChunkConnects(e) ==
  /\ Free(e)
  /\ \/ e = "server" /\ ServerConnects
     \/ e = "client" /\ ClientConnects
  /\ polled' = [polled EXCEPT ![e] = FALSE]
  /\ UNCHANGED captured

\* connection_lost is a callback, as are the timers that lead to it.
ChunkDisconnects(e) ==
  /\ Free(e)
  /\ Disconnects(e)
  /\ UNCHANGED loops

\* One round of _process_send, or all the rest of them.
ChunkProcessSend(e) ==
  /\ Free(e) /\ Connected(e)
  /\ polled' = [polled EXCEPT ![e] = TRUE]
  /\ \/ ProcessSend(e) /\ UNCHANGED captured
     \/ /\ state[e] # "RD"
        /\ captured' = [captured EXCEPT ![e] = TRUE]
        /\ UNCHANGED vars

\* Datagrams wait until the callbacks that were ready before them have run.
ChunkReceive(e) ==
  /\ Free(e) /\ polled[e]
  /\ Receive(e)
  /\ UNCHANGED loops

ChunkNext ==
  \/ \E e \in End : \/ ChunkConnects(e) \/ ChunkDisconnects(e)
                    \/ ChunkProcessSend(e) \/ ChunkReceive(e)
  \/ (\E e \in End : Write(e) \/ Lose(e)) /\ UNCHANGED loops
  \/ LoseOffer /\ UNCHANGED loops

ChunkSpec == ChunkInit /\ [][ChunkNext]_chunkVars

-----------------------------------------------------------------------------
(* Properties, proved in SliceProtocol_proofs.tla.                         *)

\* The server starts in WT, and its first round keeps the event loop: contrary to
\* "Server (WT) receives data, writes to read_q, sends ACK" (ChunkProtocol.py:51),
\* nothing ever gets into its read_q.
ServerNeverReads == read_q["server"] = <<>>

\* Nor does anybody there notice that the session is over (LinkProtocol.py:128-159):
\* once its send task has run, the server handles no time-out and stays connected.
ServerStuck == polled["server"] => captured["server"]
=============================================================================
