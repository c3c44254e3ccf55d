------------------------------ MODULE PipeQueue ------------------------------
(***************************************************************************)
(* Two queues of a port, read_q and write_q, which are pipes of the system *)
(* (sim/PipeQueue.py), between the agent's thread and the event loop of    *)
(* the port: each writes the one that the other reads, and a put that      *)
(* finds no room holds up the thread that makes it.  A pipe holds units: a *)
(* message's length is one, its body some more.  The port puts and takes   *)
(* while it has a session; the agent puts at any time.                     *)
(***************************************************************************)
EXTENDS Naturals, Sequences, SequencesExt, FiniteSetsExt

CONSTANTS
  Message,    \* what is put
  Size,       \* [Message -> the units of its body]
  Capacity,   \* what a pipe holds
  Atomic,     \* what is written at once or not at all, PIPE_BUF
  Page,       \* the least that is written of anything larger
  MaxPuts,    \* bound: messages put in each pipe
  MaxSessions \* bound: sessions of the port

ASSUME PipeAssumption ==
  /\ Size \in [Message -> Nat \ {0}]
  /\ {Capacity, Atomic, Page, MaxPuts, MaxSessions} \subseteq Nat
  /\ 2 <= Page /\ Page <= Atomic /\ Atomic <= Capacity

Thread == {"agent", "port"}
Queue == {"read_q", "write_q"}
In(t) == IF t = "agent" THEN "read_q" ELSE "write_q"
Out(t) == IF t = "agent" THEN "write_q" ELSE "read_q"

VARIABLES
  pipe,      \* [Queue -> Seq of units], what is in the pipe
  at,        \* [Thread -> where it is: "idle", "putting", "getting"]
  writing,   \* [Thread -> what is left to write of its put]
  length,    \* [Thread -> the length unit its get has read]
  reads,     \* the threads that take messages: the agent's, and that of the port
             \* while it has a send task
  session,   \* the port has a session
  sessions,  \* Nat, sessions so far
  puts,      \* [Queue -> Nat], messages put so far
  received,  \* [Queue -> Seq(Message)], messages taken
  large,     \* the queues in which a put was too large to be atomic
  closed     \* the pipes are closed

link == <<session, sessions>>
vars == <<pipe, at, writing, length, reads, link, puts, received, large, closed>>

\* The length of a message, followed by its body.
Frame(m) == [i \in 1..(Size[m] + 1) |-> [part |-> IF i = 1 THEN "length" ELSE "body",
                                         of |-> m]]
Unit == {[part |-> p, of |-> m] : p \in {"length", "body"}, m \in Message}
Nothing == [part |-> "none"]

Init ==
  /\ pipe = [q \in Queue |-> <<>>]
  /\ at = [t \in Thread |-> "idle"]
  /\ writing = [t \in Thread |-> <<>>]
  /\ length = [t \in Thread |-> Nothing]
  /\ reads = {"agent"}
  /\ session = FALSE /\ sessions = 0
  /\ puts = [q \in Queue |-> 0]
  /\ received = [q \in Queue |-> <<>>]
  /\ large = {}
  /\ closed = FALSE

-----------------------------------------------------------------------------
(* put.                                                                    *)

\* The agent without its thread does nothing; a session of the port goes on when its
\* send task has ended.
Works(t) == IF t = "port" THEN session ELSE t \in reads

StartPut(t) ==
  /\ Works(t) /\ at[t] = "idle"
  /\ puts[Out(t)] < MaxPuts
  /\ \E m \in Message :
       /\ writing' = [writing EXCEPT ![t] = Frame(m)]
       /\ large' = IF Len(Frame(m)) > Atomic THEN large \cup {Out(t)} ELSE large
  /\ at' = [at EXCEPT ![t] = "putting"]
  /\ puts' = [puts EXCEPT ![Out(t)] = @ + 1]
  /\ UNCHANGED <<pipe, length, reads, link, received, closed>>

Room(q) == Capacity - Len(pipe[q])

\* Mutant: length and data are written as they come.
AtOnceNever(frame) == FALSE

\* One write of up to PIPE_BUF bytes is not divided.
AtOnce(frame) == Head(frame).part = "length" /\ Len(frame) <= Atomic

\* The room a write waits for.
Needed(frame) == IF AtOnce(frame) THEN Len(frame) ELSE Min({Page, Len(frame)})

\* Mutant: a put never waits.
WriteUnbounded(t) ==
  /\ at[t] = "putting" /\ ~closed
  /\ pipe' = [pipe EXCEPT ![Out(t)] = @ \o writing[t]]
  /\ writing' = [writing EXCEPT ![t] = <<>>]
  /\ at' = [at EXCEPT ![t] = "idle"]
  /\ UNCHANGED <<length, reads, link, puts, received, large, closed>>

\* What there is room for is written, and the rest of it later.
Write(t) ==
  LET frame == writing[t]
      n == Min({Room(Out(t)), Len(frame)})
  IN
  /\ at[t] = "putting" /\ ~closed
  /\ Room(Out(t)) >= Needed(frame)
  /\ pipe' = [pipe EXCEPT ![Out(t)] = @ \o SubSeq(frame, 1, n)]
  /\ writing' = [writing EXCEPT ![t] = SubSeq(@, n + 1, Len(@))]
  /\ at' = [at EXCEPT ![t] = IF n = Len(frame) THEN "idle" ELSE @]
  /\ UNCHANGED <<length, reads, link, puts, received, large, closed>>

-----------------------------------------------------------------------------
(* empty and get.                                                          *)

\* Mutant: the agent looks into its queue when the port has emptied the other.
GetLengthPolitely(t) ==
  /\ t \in reads /\ at[t] = "idle" /\ ~closed
  /\ pipe[In(t)] # <<>> /\ pipe[Out(t)] = <<>>
  /\ length' = [length EXCEPT ![t] = Head(pipe[In(t)])]
  /\ pipe' = [pipe EXCEPT ![In(t)] = Tail(@)]
  /\ at' = [at EXCEPT ![t] = "getting"]
  /\ UNCHANGED <<writing, reads, link, puts, received, large, closed>>

\* The queue is not empty: the first unit is taken for a length, ...
GetLength(t) ==
  /\ t \in reads /\ at[t] = "idle" /\ ~closed
  /\ pipe[In(t)] # <<>>
  /\ length' = [length EXCEPT ![t] = Head(pipe[In(t)])]
  /\ pipe' = [pipe EXCEPT ![In(t)] = Tail(@)]
  /\ at' = [at EXCEPT ![t] = "getting"]
  /\ UNCHANGED <<writing, reads, link, puts, received, large, closed>>

\* ... and what is there of the body, up to that length, for the message.  What
\* is left of a body is taken for a length of any size.
Taken(t) ==
  IF length[t].part = "length"
    THEN Min({Size[length[t].of], Len(pipe[In(t)])})
    ELSE Len(pipe[In(t)])

\* The message has come out whole.
Intact(t) ==
  /\ length[t].part = "length"
  /\ SubSeq(pipe[In(t)], 1, Taken(t)) = Tail(Frame(length[t].of))

\* Anything else is no pickle: the error ends the agent's thread, or the send
\* task of the port.
GetBody(t) ==
  /\ at[t] = "getting" /\ ~closed
  /\ pipe' = [pipe EXCEPT ![In(t)] = SubSeq(@, Taken(t) + 1, Len(@))]
  /\ IF Intact(t)
       THEN /\ received' = [received EXCEPT ![In(t)] = Append(@, length[t].of)]
            /\ UNCHANGED reads
       ELSE /\ reads' = reads \ {t}
            /\ UNCHANGED received
  /\ at' = [at EXCEPT ![t] = "idle"]
  /\ length' = [length EXCEPT ![t] = Nothing]
  /\ UNCHANGED <<writing, link, puts, large, closed>>

-----------------------------------------------------------------------------
(* The sessions of the port.                                               *)

\* on_connected: a send task for write_q, which holds what was put meanwhile.
Connects ==
  /\ ~session /\ ~closed /\ sessions < MaxSessions
  /\ session' = TRUE /\ sessions' = sessions + 1
  /\ reads' = reads \cup {"port"}
  /\ UNCHANGED <<pipe, at, writing, length, puts, received, large, closed>>

\* on_disconnected cancels the send task; the event loop is not in a put then.
Disconnects ==
  /\ session /\ at["port"] = "idle"
  /\ session' = FALSE
  /\ reads' = reads \ {"port"}
  /\ UNCHANGED <<pipe, at, writing, length, sessions, puts, received, large, closed>>

-----------------------------------------------------------------------------
(* The end of the agent, and of the simulation.                            *)

\* An error of its own ends the agent's thread between two uses of a queue.
AgentDies ==
  /\ "agent" \in reads /\ at["agent"] = "idle"
  /\ reads' = reads \ {"agent"}
  /\ UNCHANGED <<pipe, at, writing, length, link, puts, received, large, closed>>

\* stop_all closes the pipes, and does not tell the agent.
StopAll ==
  /\ ~closed
  /\ closed' = TRUE
  /\ UNCHANGED <<pipe, at, writing, length, reads, link, puts, received, large>>

\* Mutant: a closed queue looks empty, and takes what is put.
UseClosedQuietly(t) == FALSE

\* Every use of a closed queue raises, empty() too.
UseClosed(t) ==
  /\ closed /\ Works(t)
  /\ t \in reads \/ at[t] # "idle"
  /\ reads' = reads \ {t}
  /\ at' = [at EXCEPT ![t] = "idle"]
  /\ UNCHANGED <<pipe, writing, length, link, puts, received, large, closed>>

-----------------------------------------------------------------------------
Next ==
  \/ \E t \in Thread : \/ StartPut(t) \/ Write(t)
                       \/ GetLength(t) \/ GetBody(t) \/ UseClosed(t)
  \/ Connects \/ Disconnects
  \/ AgentDies
  \/ StopAll

Spec == Init /\ [][Next]_vars

\* Threads go on, the send task while there is one; no session need start, or last.
FairSpec ==
  /\ Spec
  /\ \A t \in Thread : /\ WF_vars(Write(t)) /\ WF_vars(GetLength(t))
                       /\ WF_vars(GetBody(t)) /\ WF_vars(UseClosed(t))

-----------------------------------------------------------------------------
(* Properties.                                                             *)

\* Every variable has its type, and no pipe holds more than it can.
TypeOK ==
  /\ pipe \in [Queue -> Seq(Unit)]
  /\ \A q \in Queue : Len(pipe[q]) <= Capacity
  /\ at \in [Thread -> {"idle", "putting", "getting"}]
  /\ writing \in [Thread -> Seq(Unit)]
  /\ length \in [Thread -> Unit \cup {Nothing}]
  /\ reads \subseteq Thread
  /\ session \in BOOLEAN /\ sessions \in 0..MaxSessions
  /\ puts \in [Queue -> 0..MaxPuts]
  /\ received \in [Queue -> Seq(Message)]
  /\ large \subseteq Queue
  /\ closed \in BOOLEAN

\* The messages in a pipe, by their lengths, ...
Lengths(p) == {i \in DOMAIN p : p[i].part = "length"}
Nth(S, k) == CHOOSE i \in S : Cardinality({j \in S : j <= i}) = k
Messages(p) == [k \in 1..Cardinality(Lengths(p)) |-> p[Nth(Lengths(p), k)].of]

\* ... and before them the one that is being taken out.
InHand(q) == {t \in Thread : In(t) = q /\ at[t] = "getting"}
Waiting(q) ==
  IF InHand(q) = {}
    THEN Messages(pipe[q])
    ELSE <<length[CHOOSE t \in InHand(q) : TRUE].of>> \o Messages(pipe[q])

ReadQueue == INSTANCE Fifo WITH
  queue <- Waiting("read_q"), received <- received["read_q"],
  broken <- closed \/ "read_q" \in large
WriteQueue == INSTANCE Fifo WITH
  queue <- Waiting("write_q"), received <- received["write_q"],
  broken <- closed \/ "write_q" \in large

\* "Write atomically (length + data) to avoid interleaving" (PipeQueue.py:22): a
\* get, which reads length and body apart, never finds one without the other, so
\* that a queue is a FIFO, until it is given more than PIPE_BUF or closed.
QueuesAreFifos == ReadQueue!Spec /\ WriteQueue!Spec

\* Each thread is in a put that waits for the other.
WaitForEachOther ==
  \A t \in Thread : at[t] = "putting" /\ Room(Out(t)) < Needed(writing[t])

Reader(q) == CHOOSE t \in Thread : In(t) = q

\* A put ends (PipeQueue.py:17-23), unless from some time on nobody reads the queue,
\* the agent being dead or the port without a session, or the two threads wait for
\* each other for ever: full pipes by themselves hold up a thread only for a while.
PutEnds ==
  \A t \in Thread :
    at[t] = "putting" ~>
      \/ at[t] # "putting"
      \/ [](Reader(Out(t)) \notin reads)
      \/ []WaitForEachOther

\* The agent, which nobody tells to stop, ends by using a queue that is closed,
\* wherever that finds it; or the process would never exit (ThreadManager.py:75-87).
AgentEnds == closed ~> "agent" \notin reads
=============================================================================
