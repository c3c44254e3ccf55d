----------------------------- MODULE Cell_proofs -----------------------------
(***************************************************************************)
(* Proofs about Cell.tla, for every value of its constants: the types, the *)
(* tables of the thread manager, and the threads that can be reached.      *)
(* What needs a caller that binds no name twice, or threads that keep up   *)
(* with their timers, says so.                                             *)
(***************************************************************************)
EXTENDS Cell, SequenceTheorems, TLAPS

-----------------------------------------------------------------------------
(* The inductive invariants.                                               *)

\* The agent visits names that are in its copy of the table.
RoundOK ==
  /\ \A n \in todo : table[n] # None
  /\ visiting # None => visiting \in Name /\ table[visiting] # None

\* A call that is under way is about a bound name.
CallOK ==
  call.step \in {"pipes", "start", "join", "delete"} =>
    call.name \in Name /\ ports[call.name] # None

\* Every entry is a port object of that name with its thread and, but for a
\* binding that is not there yet, its pipes.
EntriesOK ==
  /\ \A n \in Name : ports[n] # None =>
       ports[n] \in threads /\ ports[n] <= Len(port_id) /\ port_id[ports[n]] = n
  /\ \A n \in Name : call # At("pipes", n) => pipes[n] = ports[n]
  /\ \A o \in threads : o <= Len(port_id)

\* Every registered thread has its entry.
ThreadsOK == \A o \in threads : ports[port_id[o]] = o

\* A thread that lives is bound or has been asked to stop, and the one that is being
\* unbound has been asked to.
AliveOK ==
  /\ \A o \in Object : o > Len(port_id) => thread[o] = "none"
  /\ \A o \in Object : Alive(o) => ports[port_id[o]] = o \/ stop_event[o]
  /\ call.step \in {"join", "delete"} =>
       (Alive(ports[call.name]) => stop_event[ports[call.name]])
  /\ call.step \in {"join", "delete"} => thread[ports[call.name]] # "starting"

-----------------------------------------------------------------------------
(* The types.                                                              *)

\* Signals that are put in or taken out leave the queue of its type.
Signals == Seq({"CONNECTED", "DISCONNECTED"})
LEMMA QueueTypes ==
  ASSUME TypeOK, NEW o \in Object
  PROVE  /\ signal_q \in [Object -> Signals]
         /\ \A s \in {"CONNECTED", "DISCONNECTED"} :
              [signal_q EXCEPT ![o] = Append(@, s)] \in [Object -> Signals]
         /\ signal_q[o] # <<>> => [signal_q EXCEPT ![o] = Tail(@)] \in [Object -> Signals]
<1>1. signal_q[o] \in Signals /\ signal_q \in [Object -> Signals]
  BY DEF TypeOK, Signals
<1>2. \A s \in {"CONNECTED", "DISCONNECTED"} : Append(signal_q[o], s) \in Signals
  BY <1>1 DEF Signals
<1>3. signal_q[o] # <<>> => Tail(signal_q[o]) \in Signals
  BY <1>1 DEF Signals
<1> QED
  BY <1>1, <1>2, <1>3

LEMMA CallType ==
  ASSUME TypeOK, RoundOK, Call
  PROVE  TypeOK' /\ RoundOK'
<1>1. UNCHANGED <<sessions, agents>>
  BY DEF Call, CallGoesOn, BindRegister, BindPipes, BindStart, Unbind, Join, Delete, Shutdown, Halted
<1>2. RoundOK'
  BY <1>1 DEF RoundOK, agents
<1> DEFINE CallTypes ==
             /\ port_id' \in Seq(Name) /\ Len(port_id') <= MaxBinds
             /\ ports' \in [Name -> Slot] /\ pipes' \in [Name -> Slot]
             /\ threads' \subseteq Object
             /\ thread' \in [Object -> Phase]
             /\ stop_event' \in [Object -> BOOLEAN]
             /\ call' \in [step : {"idle", "pipes", "start", "join", "delete", "halt", "down"},
                           name : Name \cup {None}]
<1>3. CallTypes
  <2>1. ASSUME NEW n \in Name, BindRegister(n)
        PROVE  CallTypes
    <3>1. Len(port_id) + 1 \in Object
      BY <2>1, CellAssumption DEF BindRegister, TypeOK, Object
    <3>2. port_id' \in Seq(Name) /\ Len(port_id') <= MaxBinds
      BY <2>1, CellAssumption DEF BindRegister, TypeOK
    <3>3. ports' \in [Name -> Slot] /\ threads' \subseteq Object
      BY <2>1, <3>1 DEF BindRegister, RegisterPort, TypeOK, Slot
    <3> QED
      BY <2>1, <3>2, <3>3 DEF BindRegister, TypeOK, At
  <2>2. ASSUME NEW n \in Name, BindPipes(n)
        PROVE  CallTypes
    BY <2>2 DEF BindPipes, TypeOK, At
  <2>3. ASSUME NEW n \in Name, BindStart(n)
        PROVE  CallTypes
    BY <2>3 DEF BindStart, TypeOK, Idle, tables, Phase
  <2>4. ASSUME NEW n \in Name, Unbind(n)
        PROVE  CallTypes
    <3>1. ports[n] \in Object
      BY <2>4 DEF Unbind, Joinable, TypeOK, Slot
    <3>2. (stop_event[ports[n]] \/ LoopRuns(ports[n])) \in BOOLEAN
      BY <3>1 DEF TypeOK, LoopRuns
    <3>3. stop_event' \in [Object -> BOOLEAN]
      BY <2>4, <3>1, <3>2 DEF Unbind, TypeOK
    <3> QED
      BY <2>4, <3>3 DEF Unbind, TypeOK, At, tables
  <2>5. ASSUME NEW n \in Name, Join(n)
        PROVE  CallTypes
    BY <2>5 DEF Join, TypeOK, At, tables
  <2>6. ASSUME NEW n \in Name, Delete(n)
        PROVE  CallTypes
    BY <2>6 DEF Delete, TypeOK, Idle, Slot
  <2>7. CASE Shutdown \/ Halted
    BY <2>7 DEF Shutdown, Halted, TypeOK, At, tables
  <2> QED
    BY <2>1, <2>2, <2>3, <2>4, <2>5, <2>6, <2>7 DEF Call, CallGoesOn
<1> QED
  BY <1>1, <1>2, <1>3 DEF TypeOK, sessions, agents, broadcast

LEMMA PortThreadType ==
  ASSUME TypeOK, RoundOK, NEW o \in Object, PortThread(o)
  PROVE  TypeOK' /\ RoundOK'
<1>1. UNCHANGED <<tables, stop_event, call, agents>>
  BY DEF PortThread, LoopGoesOn, LoopStarts, StopSeen, StopSwallowed, SearchFails,
     ThreadEnds, LinkUp, LinkDown, Sends, Receive
<1>2. RoundOK'
  BY <1>1 DEF RoundOK, agents
<1>3. CASE LoopStarts(o) \/ StopSwallowed(o) \/ SearchFails(o) \/ ThreadEnds(o)
  <2>1. UNCHANGED sessions /\ thread' \in [Object -> Phase]
    BY <1>3 DEF LoopStarts, StopSwallowed, SearchFails, ThreadEnds, TypeOK, Phase
  <2> QED
    BY <1>1, <1>2, <2>1 DEF TypeOK, tables, agents, sessions, broadcast
<1>4. CASE StopSeen(o) \/ LinkUp(o) \/ LinkDown(o)
  <2>1. thread' \in [Object -> Phase] /\ ups' \in Nat
    <3>1. thread \in [Object -> Phase] /\ ups \in Nat /\ "stopping" \in Phase
      BY DEF TypeOK, Phase
    <3> QED
      BY <1>4, <3>1 DEF StopSeen, LinkUp, LinkDown
  <2>2. linked' \in [Object -> BOOLEAN] /\ UNCHANGED <<read_q, write_q, heard>>
    <3>1. linked \in [Object -> BOOLEAN]
      BY DEF TypeOK
    <3> QED
      BY <1>4, <3>1 DEF StopSeen, LinkUp, LinkDown
  <2>3. signal_q' \in [Object -> Signals]
    BY <1>4, QueueTypes DEF StopSeen, LinkUp, LinkDown
  <2> QED
    BY <1>1, <1>2, <2>1, <2>2, <2>3 DEF TypeOK, tables, agents, broadcast, Signals
<1>5. CASE Sends(o)
  <2>1. write_q[o] - 1 \in 0..Capacity
    BY <1>5, CellAssumption DEF Sends, TypeOK
  <2>2. write_q' \in [Object -> 0..Capacity]
    BY <1>5, <2>1 DEF Sends, TypeOK
  <2>3. UNCHANGED <<thread, linked, signal_q, read_q, ups, heard>>
    BY <1>5 DEF Sends
  <2> QED
    BY <1>1, <1>2, <2>2, <2>3 DEF TypeOK, tables, agents, broadcast
<1>6. CASE Receive(o)
  <2>1. \A c \in Nat : \A k \in 0..c + 1 : ~(k > c) => k + 1 \in 0..c + 1
    OBVIOUS
  <2>2. read_q[o] \in 0..Capacity + 1 /\ ~(read_q[o] > Capacity) /\ Capacity \in Nat
    BY <1>6, CellAssumption DEF Receive, HeldUp, TypeOK
  <2>3. read_q[o] + 1 \in 0..Capacity + 1
    BY <2>1, <2>2
  <2>4. read_q' \in [Object -> 0..Capacity + 1] /\ heard' \in Nat
    BY <1>6, <2>3 DEF Receive, TypeOK
  <2>5. UNCHANGED <<thread, linked, signal_q, write_q, ups>>
    BY <1>6 DEF Receive
  <2> QED
    BY <1>1, <1>2, <2>4, <2>5 DEF TypeOK, tables, agents, broadcast
<1> QED
  BY <1>3, <1>4, <1>5, <1>6 DEF PortThread, LoopGoesOn

\* The puts that the agent takes on are to ports of its table, or to none that is
\* there.
LEMMA PutsAlongType ==
  ASSUME TypeOK, PutsAlong
  PROVE  outbox' \in Seq(Slot)
<1>1. PICK k \in 0..MaxPuts : \E names \in [1..k -> Name] :
        outbox' = [i \in 1..k |-> table[names[i]]]
  BY DEF PutsAlong
<1>2. PICK names \in [1..k -> Name] : outbox' = [i \in 1..k |-> table[names[i]]]
  BY <1>1
<1>3. \A i \in 1..k : table[names[i]] \in Slot
  BY DEF TypeOK
<1>4. outbox' \in [1..k -> Slot] /\ k \in Nat
  BY <1>2, <1>3, CellAssumption
<1> QED
  BY <1>4

LEMMA AgentThreadType ==
  ASSUME TypeOK, RoundOK, AgentThread
  PROVE  TypeOK' /\ RoundOK'
<1>1. UNCHANGED <<tables, thread, stop_event, call, linked, ups, heard>>
  BY DEF AgentThread, CopyPorts, AgentStops, Visit, TakeMessage, Put, LookUpFails,
     Broadcast, LookAt, sessions
<1>2. CASE CopyPorts
  <2>1. UNCHANGED <<sessions, visiting, outbox, broadcast, agent>>
    BY <1>2 DEF CopyPorts
  <2>2. table' \in [Name -> Slot] /\ todo' \subseteq Name /\ RoundOK'
    BY <1>2 DEF CopyPorts, TypeOK, RoundOK
  <2> QED
    BY <1>1, <2>1, <2>2 DEF TypeOK, tables, sessions, broadcast
<1>3. CASE AgentStops \/ LookUpFails
  <2>1. /\ UNCHANGED <<sessions, table, todo, visiting, outbox, broadcast>>
        /\ agent' \in {"stopped", "dead"}
    BY <1>3 DEF AgentStops, LookUpFails
  <2> QED
    BY <1>1, <2>1 DEF TypeOK, RoundOK, tables, sessions, broadcast
<1>4. ASSUME NEW n \in Name, Visit(n)
      PROVE  TypeOK' /\ RoundOK'
  <2>1. table[n] \in Object /\ UNCHANGED <<read_q, write_q, table, broadcast, agent>>
    BY <1>4 DEF Visit, TypeOK, RoundOK, Slot
  <2>2. todo' \subseteq Name /\ visiting' \in Name \cup {None} /\ RoundOK'
    BY <1>4, CellAssumption DEF Visit, TypeOK, RoundOK
  <2>3. signal_q' \in [Object -> Signals]
    BY <1>4, <2>1, QueueTypes DEF Visit
  <2>4. ASSUME NEW s, HandleSignal(n, s)
        PROVE  outbox' \in Seq(Slot)
    <3>1. <<table[n]>> \in Seq(Slot) /\ <<table[n], table[n]>> \in Seq(Slot)
      BY <2>1 DEF Slot
    <3> QED
      BY <2>4, <3>1, PutsAlongType DEF HandleSignal
  <2>5. outbox' \in Seq(Slot)
    BY <1>4, <2>4 DEF Visit, TypeOK
  <2> QED
    BY <1>1, <2>1, <2>2, <2>3, <2>5 DEF TypeOK, tables, broadcast, Signals
<1>5. ASSUME NEW n \in Name, TakeMessage(n)
      PROVE  TypeOK' /\ RoundOK'
  <2>1. table[n] \in Object /\ UNCHANGED <<signal_q, write_q, table, todo, rest>>
    BY <1>5, CellAssumption DEF TakeMessage, TypeOK, RoundOK, Slot
  <2>2. visiting' \in Name \cup {None} /\ RoundOK'
    BY <1>5, CellAssumption DEF TakeMessage, TypeOK, RoundOK
  <2>3. CASE UNCHANGED <<read_q, outbox, excluded, agent>>
    BY <1>1, <2>1, <2>2, <2>3 DEF TypeOK, tables
  <2>4. CASE /\ read_q[table[n]] # 0
             /\ read_q' = [read_q EXCEPT ![table[n]] = @ - 1]
             /\ HandleMessage(n)
    <3>1. read_q[table[n]] \in 0..Capacity + 1
      BY <2>1 DEF TypeOK
    <3>2. read_q[table[n]] - 1 \in 0..Capacity + 1
      BY <2>4, <3>1, CellAssumption
    <3>3. read_q' \in [Object -> 0..Capacity + 1]
      BY <2>4, <3>2 DEF TypeOK
    <3>4. <<table[n]>> \in Seq(Slot)
      BY <2>1 DEF Slot
    <3>5. /\ outbox' \in Seq(Slot) /\ excluded' \in Name \cup {None}
          /\ agent' \in {"alive", "stopped", "dead"}
      BY <2>4, <3>4, PutsAlongType DEF HandleMessage, TypeOK
    <3> QED
      BY <1>1, <2>1, <2>2, <3>3, <3>5 DEF TypeOK, tables
  <2> QED
    BY <1>5, <2>3, <2>4 DEF TakeMessage
<1>6. CASE Put
  <2>1. Due \in Object
    BY <1>6 DEF Put, Due, TypeOK, Slot
  <2>2. write_q[Due] + 1 \in 0..Capacity
    BY <1>6, <2>1, CellAssumption DEF Put, Room, TypeOK
  <2>3. write_q' \in [Object -> 0..Capacity] /\ outbox' \in Seq(Slot)
    BY <1>6, <2>1, <2>2 DEF Put, TypeOK
  <2>4. UNCHANGED <<signal_q, read_q, table, todo, visiting, broadcast, agent>>
    BY <1>6 DEF Put
  <2> QED
    BY <1>1, <2>3, <2>4 DEF TypeOK, RoundOK, tables, broadcast
<1>7. ASSUME Broadcast \/ (\E o \in Object : LookAt(o))
      PROVE  TypeOK' /\ RoundOK'
  <2>1. UNCHANGED <<sessions, table, todo, visiting, agent>>
    BY <1>7 DEF Broadcast, LookAt
  <2>2. /\ rest' \subseteq Object /\ excluded' \in Name \cup {None}
        /\ outbox' \in Seq(Slot)
    <3>1. CASE Broadcast
      BY <3>1 DEF Broadcast, TypeOK, Slot
    <3>2. ASSUME NEW o \in Object, LookAt(o)
          PROVE  /\ rest' \subseteq Object /\ excluded' \in Name \cup {None}
                 /\ outbox' \in Seq(Slot)
      <4>1. <<o>> \in Seq(Slot) /\ <<>> \in Seq(Slot)
        BY DEF Slot
      <4> QED
        BY <3>2, <4>1 DEF LookAt, TypeOK
    <3> QED
      BY <1>7, <3>1, <3>2
  <2> QED
    BY <1>1, <2>1, <2>2 DEF TypeOK, RoundOK, tables, sessions
<1> QED
  BY <1>2, <1>3, <1>4, <1>5, <1>6, <1>7 DEF AgentThread

LEMMA TypesAndRound == Spec => [](TypeOK /\ RoundOK)
<1>1. Init => TypeOK /\ RoundOK
  <2> SUFFICES ASSUME Init PROVE TypeOK /\ RoundOK
    OBVIOUS
  <2>1. <<>> \in Seq(Name) /\ Len(<<>>) = 0 /\ <<>> \in Seq(Slot)
    OBVIOUS
  <2> QED
    BY <2>1, CellAssumption DEF Init, TypeOK, RoundOK, Slot, Idle, Phase
<1>2. TypeOK /\ RoundOK /\ [Next]_vars => (TypeOK /\ RoundOK)'
  <2> SUFFICES ASSUME TypeOK, RoundOK, [Next]_vars PROVE TypeOK' /\ RoundOK'
    OBVIOUS
  <2>1. CASE UNCHANGED vars
    BY <2>1 DEF vars, tables, sessions, agents, broadcast, TypeOK, RoundOK
  <2> QED
    BY <2>1, CallType, PortThreadType, AgentThreadType DEF Next
<1> QED
  BY <1>1, <1>2, PTL DEF Spec

\* Every variable of the cell keeps its type, and no pipe is given more than it
\* holds, whatever callers, threads and the agent do
\* (cell.py:72-142, PipeQueue.py:17-23, Agent.py:61-177).
THEOREM TypeCorrect == Spec => []TypeOK
BY TypesAndRound, PTL

-----------------------------------------------------------------------------
(* The tables of the thread manager.                                       *)

\* The threads and the agent leave the tables and the call alone.
LEMMA OthersKeepTables ==
  ASSUME AgentThread \/ (\E o \in Object : PortThread(o))
  PROVE  UNCHANGED <<tables, call, stop_event>>
BY DEF AgentThread, CopyPorts, AgentStops, Visit, TakeMessage, Put, LookUpFails,
   Broadcast, LookAt, PortThread, LoopGoesOn, LoopStarts, StopSeen, StopSwallowed,
   SearchFails, ThreadEnds, LinkUp, LinkDown, Sends, Receive

\* What a registration does: the new object has the next number.
LEMMA RegisterFacts ==
  ASSUME TypeOK, NEW n \in Name, BindRegister(n)
  PROVE  /\ Len(port_id) + 1 \in Object /\ Len(port_id) \in Nat
         /\ Len(port_id') = Len(port_id) + 1 /\ port_id'[Len(port_id) + 1] = n
         /\ \A o \in 1..Len(port_id) : port_id'[o] = port_id[o]
         /\ ports'[n] = Len(port_id) + 1
         /\ \A m \in Name \ {n} : ports'[m] = ports[m]
         /\ threads' = threads \cup {Len(port_id) + 1}
         /\ call = Idle /\ call' = At("pipes", n)
         /\ UNCHANGED <<pipes, thread, stop_event>>
<1>1. Len(port_id) + 1 \in Object /\ Len(port_id) \in Nat
  BY CellAssumption DEF BindRegister, TypeOK, Object
<1>2. /\ Len(port_id') = Len(port_id) + 1 /\ port_id'[Len(port_id) + 1] = n
      /\ \A o \in 1..Len(port_id) : port_id'[o] = port_id[o]
  BY DEF BindRegister, TypeOK
<1> QED
  BY <1>1, <1>2 DEF BindRegister, RegisterPort, TypeOK

\* A registered thread is a port object that there is.
LEMMA ThreadsInRange ==
  ASSUME TypeOK, EntriesOK
  PROVE  \A o \in threads : o \in 1..Len(port_id)
<1>1. Len(port_id) \in Nat /\ \A o \in threads : o \in Nat \ {0}
  BY CellAssumption DEF TypeOK, Object
<1>2. \A o \in threads : o <= Len(port_id)
  BY DEF EntriesOK
<1> QED
  BY <1>1, <1>2

LEMMA EntriesStep ==
  ASSUME TypeOK, CallOK, EntriesOK, [Next]_vars
  PROVE  CallOK' /\ EntriesOK'
<1>1. CASE UNCHANGED <<tables, call>>
  BY <1>1 DEF tables, CallOK, EntriesOK
<1>2. CASE AgentThread \/ (\E o \in Object : PortThread(o)) \/ UNCHANGED vars
  BY <1>1, <1>2, OthersKeepTables DEF vars
<1>3. ASSUME NEW n \in Name, BindRegister(n)
      PROVE  CallOK' /\ EntriesOK'
  <2>1. CallOK'
    BY <1>3, RegisterFacts, CellAssumption DEF CallOK, At, Object
  <2>2. \A m \in Name : ports'[m] # None =>
          ports'[m] \in threads' /\ ports'[m] <= Len(port_id') /\ port_id'[ports'[m]] = m
    <3> TAKE m \in Name
    <3>1. CASE m = n
      BY <1>3, <3>1, RegisterFacts
    <3>2. CASE m # n /\ ports[m] # None
      <4>1. ports[m] \in 1..Len(port_id) /\ ports'[m] = ports[m] /\ port_id[ports[m]] = m
        BY SMTT(20), <1>3, <3>2, RegisterFacts DEF EntriesOK, TypeOK, Slot, Object
      <4> QED
        BY <1>3, <3>2, <4>1, RegisterFacts DEF EntriesOK
    <3> QED
      BY <1>3, <3>1, <3>2, RegisterFacts
  <2>3. \A m \in Name : call' # At("pipes", m) => pipes'[m] = ports'[m]
    <3> SUFFICES ASSUME NEW m \in Name, m # n
                 PROVE  pipes'[m] = ports'[m]
      BY <1>3, RegisterFacts
    <3>1. call # At("pipes", m)
      BY <1>3, RegisterFacts DEF Idle, At
    <3> QED
      BY <1>3, <3>1, RegisterFacts DEF EntriesOK
  <2>4. \A o \in threads' : o <= Len(port_id')
    <3>1. \A o \in threads : o \in 1..Len(port_id)
      BY ThreadsInRange
    <3> QED
      BY <1>3, <3>1, RegisterFacts
  <2> QED
    BY <2>1, <2>2, <2>3, <2>4 DEF EntriesOK
<1>4. ASSUME NEW n \in Name, BindPipes(n)
      PROVE  CallOK' /\ EntriesOK'
  <2>1. call = At("pipes", n) /\ call' = At("start", n) /\ UNCHANGED <<port_id, ports, threads>>
    BY <1>4 DEF BindPipes
  <2>2. \A m \in Name : pipes'[m] = ports'[m]
    <3> TAKE m \in Name
    <3>1. m # n => call # At("pipes", m)
      BY <2>1 DEF At
    <3> QED
      BY <1>4, <2>1, <3>1 DEF BindPipes, EntriesOK, TypeOK
  <2> QED
    BY <2>1, <2>2 DEF CallOK, EntriesOK, At
<1>5. ASSUME NEW n \in Name, BindStart(n) \/ Join(n)
      PROVE  CallOK' /\ EntriesOK'
  <2>1. UNCHANGED tables /\ call.step # "pipes" /\ call'.step \in {"idle", "delete"}
        /\ (call'.step = "delete" => call.step = "join" /\ call'.name = call.name)
    BY <1>5 DEF BindStart, Join, Idle, At
  <2> QED
    BY <2>1 DEF tables, CallOK, EntriesOK, At
<1>6. ASSUME NEW n \in Name, Unbind(n)
      PROVE  CallOK' /\ EntriesOK'
  <2>1. UNCHANGED tables /\ call = Idle /\ call' = At("join", n) /\ ports[n] # None
    BY <1>6 DEF Unbind, Joinable
  <2> QED
    BY <2>1 DEF tables, CallOK, EntriesOK, Idle, At
<1>7. ASSUME NEW n \in Name, Delete(n)
      PROVE  CallOK' /\ EntriesOK'
  <2>1. call = At("delete", n) /\ call' = Idle /\ UNCHANGED port_id
    BY <1>7 DEF Delete
  <2>2. ports[n] # None
    BY <2>1 DEF CallOK, At
  <2>3. /\ ports'[n] = None /\ pipes'[n] = None /\ threads' = threads \ {ports[n]}
        /\ \A m \in Name \ {n} : ports'[m] = ports[m] /\ pipes'[m] = pipes[m]
    BY <1>7 DEF Delete, TypeOK
  <2>4. \A m \in Name : call # At("pipes", m)
    BY <2>1 DEF At
  <2>5. \A m \in Name \ {n} : ports[m] # None => ports[m] # ports[n]
    BY <2>2 DEF EntriesOK
  <2>6. CallOK'
    BY <2>1 DEF CallOK, Idle
  <2> QED
    BY <2>1, <2>3, <2>4, <2>5, <2>6 DEF EntriesOK
<1>8. CASE Shutdown \/ Halted
  <2>1. UNCHANGED tables /\ call'.step \in {"halt", "down"} /\ call.step # "pipes"
    BY <1>8 DEF Shutdown, Halted, Idle, At
  <2> QED
    BY <2>1 DEF tables, CallOK, EntriesOK, At
<1> QED
  BY <1>2, <1>3, <1>4, <1>5, <1>6, <1>7, <1>8 DEF Next, Call, CallGoesOn

LEMMA Entries == Spec => [](TypeOK /\ CallOK /\ EntriesOK)
<1>1. Init => CallOK /\ EntriesOK
  BY CellAssumption DEF Init, CallOK, EntriesOK, Idle
<1>2. TypeOK /\ CallOK /\ EntriesOK /\ [Next]_vars => (CallOK /\ EntriesOK)'
  BY EntriesStep
<1> QED
  BY <1>1, <1>2, TypeCorrect, PTL DEF Spec

\* Whoever binds what: between calls every port has its pipes, an object of its
\* own name, and a registered thread (ThreadManager.py:34-53, :89-110).
PortsComplete ==
  call.step \in {"idle", "halt", "down"} =>
    /\ pipes = ports
    /\ {ports[n] : n \in Name} \ {None} \subseteq threads
    /\ \A n \in Name : ports[n] # None => port_id[ports[n]] = n

\* Every port between calls is complete, even if names are bound twice.
THEOREM PortsAreComplete == Spec => []PortsComplete
<1>1. TypeOK /\ EntriesOK => PortsComplete
  <2> SUFFICES ASSUME TypeOK, EntriesOK, call.step \in {"idle", "halt", "down"}
               PROVE  /\ pipes = ports
                      /\ {ports[n] : n \in Name} \ {None} \subseteq threads
                      /\ \A n \in Name : ports[n] # None => port_id[ports[n]] = n
    BY DEF PortsComplete
  <2>1. \A n \in Name : call # At("pipes", n)
    BY DEF At
  <2>2. \A n \in Name : pipes[n] = ports[n]
    BY <2>1 DEF EntriesOK
  <2>3. pipes = ports
    BY <2>2 DEF TypeOK
  <2> QED
    BY <2>3 DEF EntriesOK
<1> QED
  BY <1>1, Entries, PTL

-----------------------------------------------------------------------------
(* A caller that binds no name twice.                                      *)

LEMMA ThreadsStep ==
  ASSUME ~Rebinding, TypeOK, CallOK, EntriesOK, ThreadsOK, [Next]_vars
  PROVE  ThreadsOK'
<1>1. CASE UNCHANGED tables
  BY <1>1 DEF tables, ThreadsOK
<1>2. CASE AgentThread \/ (\E o \in Object : PortThread(o)) \/ UNCHANGED vars
  BY <1>1, <1>2, OthersKeepTables DEF vars
<1>3. ASSUME NEW n \in Name, BindRegister(n)
      PROVE  ThreadsOK'
  <2> SUFFICES ASSUME NEW o \in threads'
               PROVE  ports'[port_id'[o]] = o
    BY DEF ThreadsOK
  <2>1. CASE o = Len(port_id) + 1
    BY <1>3, <2>1, RegisterFacts
  <2>2. CASE o \in threads
    <3>1. o \in 1..Len(port_id) /\ port_id'[o] = port_id[o] /\ port_id[o] \in Name
      <4>1. o \in 1..Len(port_id)
        BY <2>2, ThreadsInRange
      <4>2. port_id[o] \in Name
        BY <4>1 DEF TypeOK
      <4> QED
        BY <1>3, <4>1, <4>2, RegisterFacts
    <3>2. ports[port_id[o]] = o /\ o # None
      BY <2>2, <3>1, CellAssumption DEF ThreadsOK
    <3>3. port_id[o] # n
      BY <1>3, <3>2 DEF BindRegister
    <3> QED
      BY <1>3, <3>1, <3>2, <3>3, RegisterFacts
  <2> QED
    BY <1>3, <2>1, <2>2, RegisterFacts
<1>4. ASSUME NEW n \in Name, BindPipes(n)
      PROVE  ThreadsOK'
  BY <1>4 DEF BindPipes, ThreadsOK
<1>5. ASSUME NEW n \in Name, BindStart(n) \/ Join(n) \/ Unbind(n)
      PROVE  ThreadsOK'
  BY <1>1, <1>5 DEF BindStart, Join, Unbind
<1>6. ASSUME NEW n \in Name, Delete(n)
      PROVE  ThreadsOK'
  <2> SUFFICES ASSUME NEW o \in threads'
               PROVE  ports'[port_id'[o]] = o
    BY DEF ThreadsOK
  <2>1. o \in threads /\ o # ports[n] /\ port_id' = port_id
    BY <1>6 DEF Delete
  <2>2. ports[port_id[o]] = o
    BY <2>1 DEF ThreadsOK
  <2>3. port_id[o] # n
    BY <2>1, <2>2
  <2>4. o \in 1..Len(port_id)
    BY <2>1, ThreadsInRange
  <2>5. port_id[o] \in Name
    BY <2>4 DEF TypeOK
  <2> QED
    BY <1>6, <2>1, <2>2, <2>3, <2>5 DEF Delete, TypeOK
<1>7. CASE Shutdown \/ Halted
  BY <1>1, <1>7 DEF Shutdown, Halted
<1> QED
  BY <1>2, <1>3, <1>4, <1>5, <1>6, <1>7 DEF Next, Call, CallGoesOn

\* The tables of the thread manager speak of the same ports, if no name is bound
\* twice: whatever the timers, the links and the agent do
\* (ThreadManager.py:89-110, cell.py:105-108).
THEOREM TablesAlwaysAgree ==
  ASSUME ~Rebinding
  PROVE  Spec => []TablesAgree
<1>1. Init => ThreadsOK
  BY DEF Init, ThreadsOK
<1>2. (TypeOK /\ CallOK /\ EntriesOK) /\ ThreadsOK /\ [Next]_vars => ThreadsOK'
  BY ThreadsStep
<1>3. TypeOK /\ EntriesOK /\ PortsComplete /\ ThreadsOK => TablesAgree
  <2> SUFFICES ASSUME TypeOK, EntriesOK, PortsComplete, ThreadsOK
               PROVE  threads \subseteq {ports[n] : n \in Name} \ {None}
    BY DEF TablesAgree, PortsComplete
  <2> SUFFICES ASSUME NEW o \in threads
               PROVE  o \in {ports[n] : n \in Name} \ {None}
    OBVIOUS
  <2>1. o \in 1..Len(port_id)
    BY ThreadsInRange
  <2>2. port_id[o] \in Name /\ o # None
    BY <2>1, CellAssumption DEF TypeOK
  <2> QED
    BY <2>2 DEF ThreadsOK
<1> QED
  BY <1>1, <1>2, <1>3, Entries, PortsAreComplete, PTL DEF Spec

-----------------------------------------------------------------------------
(* Threads that keep up with their timers, besides.                        *)

\* A live thread is under a name in the table: it is among the threads.
LEMMA AliveInRange ==
  ASSUME TypeOK, AliveOK, NEW o \in Object, Alive(o)
  PROVE  o \in 1..Len(port_id) /\ port_id[o] \in Name
<1>1. ~(o > Len(port_id))
  BY DEF AliveOK, Alive
<1>2. o \in Nat \ {0} /\ Len(port_id) \in Nat
  BY CellAssumption DEF TypeOK, Object
<1>3. o \in 1..Len(port_id)
  BY <1>1, <1>2
<1> QED
  BY <1>3 DEF TypeOK

\* What the calls do to the live threads.
LEMMA AliveCallStep ==
  ASSUME ~Rebinding, Prompt, TypeOK, CallOK, EntriesOK, AliveOK, Call
  PROVE  AliveOK'
<1>1. ASSUME NEW n \in Name, BindRegister(n)
      PROVE  AliveOK'
  <2>1. \A o \in Object : o > Len(port_id') => thread'[o] = "none"
    BY <1>1, CellAssumption, RegisterFacts DEF AliveOK, Object
  <2>2. \A o \in Object : Alive(o)' => ports'[port_id'[o]] = o \/ stop_event'[o]
    <3> SUFFICES ASSUME NEW o \in Object, Alive(o), ~stop_event[o]
                 PROVE  ports'[port_id'[o]] = o
      BY <1>1, RegisterFacts DEF Alive
    <3>1. o \in 1..Len(port_id) /\ port_id[o] \in Name
      BY AliveInRange
    <3>2. ports[port_id[o]] = o /\ o # None
      BY <3>1, CellAssumption DEF AliveOK
    <3>3. port_id[o] # n
      BY <1>1, <3>2 DEF BindRegister
    <3> QED
      BY <1>1, <3>1, <3>2, <3>3, RegisterFacts
  <2>3. call'.step = "pipes"
    BY <1>1, RegisterFacts DEF At
  <2> QED
    BY <2>1, <2>2, <2>3 DEF AliveOK
<1>2. ASSUME NEW n \in Name, BindPipes(n)
      PROVE  AliveOK'
  <2>1. call'.step = "start" /\ UNCHANGED <<port_id, ports, thread, stop_event>>
    BY <1>2 DEF BindPipes, At
  <2> QED
    BY <2>1 DEF AliveOK, Alive
<1>3. ASSUME NEW n \in Name, BindStart(n)
      PROVE  AliveOK'
  <2>1. call = At("start", n) /\ call' = Idle /\ UNCHANGED <<port_id, ports, stop_event>>
    BY <1>3 DEF BindStart, tables
  <2>2. /\ ports[n] \in Object /\ ports[n] <= Len(port_id)
        /\ port_id[ports[n]] = n
    BY <2>1 DEF CallOK, At, EntriesOK, TypeOK, Slot
  <2>3. \A o \in Object \ {ports[n]} : thread'[o] = thread[o]
    BY <1>3 DEF BindStart, TypeOK
  <2>4. \A o \in Object : o > Len(port_id) => o # ports[n]
    BY <2>2, CellAssumption DEF Object, TypeOK
  <2> QED
    BY <2>1, <2>2, <2>3, <2>4 DEF AliveOK, Alive, Idle
<1>4. ASSUME NEW n \in Name, Unbind(n)
      PROVE  AliveOK'
  <2>1. /\ ports[n] \in Object /\ call' = At("join", n)
        /\ UNCHANGED <<port_id, ports, thread>>
    BY <1>4 DEF Unbind, Joinable, tables, TypeOK, Slot
  <2>2. thread[ports[n]] # "starting"
    BY <1>4 DEF Unbind, Joinable
  <2>3. Alive(ports[n]) => stop_event'[ports[n]]
    BY <1>4, <2>1, <2>2 DEF Unbind, Alive, LoopRuns, TypeOK
  <2>4. \A o \in Object : stop_event[o] => stop_event'[o]
    BY <1>4, <2>1 DEF Unbind, TypeOK
  <2> QED
    BY <2>1, <2>2, <2>3, <2>4 DEF AliveOK, Alive, At
<1>5. ASSUME NEW n \in Name, Join(n)
      PROVE  AliveOK'
  <2>1. /\ call = At("join", n) /\ call' = At("delete", n)
        /\ UNCHANGED <<port_id, ports, thread, stop_event>>
    BY <1>5 DEF Join, tables
  <2> QED
    BY <2>1 DEF AliveOK, Alive, At
<1>6. ASSUME NEW n \in Name, Delete(n)
      PROVE  AliveOK'
  <2>1. /\ call = At("delete", n) /\ call' = Idle
        /\ UNCHANGED <<port_id, thread, stop_event>>
        /\ ports' = [ports EXCEPT ![n] = None]
    BY <1>6 DEF Delete
  <2>2. Alive(ports[n]) => stop_event[ports[n]]
    BY <2>1 DEF AliveOK, At
  <2>3. \A o \in Object : Alive(o) => ports'[port_id[o]] = o \/ stop_event[o]
    <3> SUFFICES ASSUME NEW o \in Object, Alive(o), ~stop_event[o]
                 PROVE  ports'[port_id[o]] = o
      OBVIOUS
    <3>1. port_id[o] \in Name /\ ports[port_id[o]] = o
      BY AliveInRange DEF AliveOK
    <3> QED
      BY <2>1, <2>2, <3>1 DEF TypeOK
  <2> QED
    BY <2>1, <2>3 DEF AliveOK, Alive, Idle
<1>7. CASE Shutdown \/ Halted
  <2>1. UNCHANGED <<port_id, ports, thread, stop_event>> /\ call'.step \in {"halt", "down"}
    BY <1>7 DEF Shutdown, Halted, tables, At
  <2> QED
    BY <2>1 DEF AliveOK, Alive
<1> QED
  BY <1>1, <1>2, <1>3, <1>4, <1>5, <1>6, <1>7 DEF Call, CallGoesOn

\* A thread comes to life only when it is started, and only goes on from there.
LEMMA ThreadLife ==
  ASSUME TypeOK, NEW o \in Object, PortThread(o)
  PROVE  /\ \A q \in Object \ {o} : thread'[q] = thread[q]
         /\ thread'[o] = thread[o] \/ (Alive(o) /\ thread'[o] # "starting")
BY DEF PortThread, LoopGoesOn, LoopStarts, StopSeen, StopSwallowed, SearchFails,
   ThreadEnds, LinkUp, LinkDown, Sends, Receive, TypeOK, Alive

LEMMA AliveStep ==
  ASSUME ~Rebinding, Prompt, TypeOK, CallOK, EntriesOK, AliveOK, [Next]_vars
  PROVE  AliveOK'
<1>1. CASE UNCHANGED <<port_id, ports, call, thread, stop_event>>
  BY <1>1 DEF AliveOK, Alive
<1>2. ASSUME NEW o \in Object, PortThread(o)
      PROVE  AliveOK'
  <2>1. UNCHANGED <<port_id, ports, call, stop_event>>
    BY <1>2, OthersKeepTables DEF tables
  <2>2. \A q \in Object :
          thread'[q] = thread[q] \/ (Alive(q) /\ thread'[q] # "starting")
    BY <1>2, ThreadLife
  <2>3. \A q \in Object : Alive(q)' => Alive(q)
    BY <2>2 DEF Alive
  <2>4. \A q \in Object : thread'[q] = "starting" => thread[q] = "starting"
    BY <2>2
  <2>5. \A q \in Object : q > Len(port_id) => thread'[q] = "none"
    BY <2>2 DEF AliveOK, Alive
  <2>6. call.step \in {"join", "delete"} => ports[call.name] \in Object
    BY DEF CallOK, TypeOK, Slot
  <2>7. ASSUME call.step \in {"join", "delete"}
        PROVE  /\ Alive(ports[call.name])' => stop_event[ports[call.name]]
               /\ thread'[ports[call.name]] # "starting"
    <3> DEFINE q == ports[call.name]
    <3>1. q \in Object /\ (Alive(q) => stop_event[q]) /\ thread[q] # "starting"
      BY <2>6, <2>7 DEF AliveOK
    <3>2. ports'[call'.name] = q
      BY <2>1
    <3> QED
      BY <2>1, <2>3, <2>4, <3>1, <3>2
  <2> QED
    BY <2>1, <2>3, <2>5, <2>7 DEF AliveOK, Alive
<1>3. CASE AgentThread
  <2>1. UNCHANGED thread
    BY <1>3 DEF AgentThread, CopyPorts, AgentStops, Visit, TakeMessage, Put,
       LookUpFails, Broadcast, LookAt
  <2> QED
    BY <1>1, <1>3, <2>1, OthersKeepTables DEF tables
<1>4. CASE UNCHANGED vars
  BY <1>1, <1>4 DEF vars, tables
<1> QED
  BY <1>2, <1>3, <1>4, AliveCallStep DEF Next

\* A thread that an unbinding leaves behind has been asked to stop, if its loop runs
\* before the next call comes and no name is bound twice; whether a link, a search,
\* the agent or a full pipe holds it up meanwhile (cell.py:133; Port.py:139-142).
THEOREM NoThreadIsLost ==
  ASSUME ~Rebinding, Prompt
  PROVE  Spec => []LiveThreadsAreBound
<1>1. Init => AliveOK
  BY DEF Init, AliveOK, Alive, Idle
<1>2. (TypeOK /\ CallOK /\ EntriesOK) /\ AliveOK /\ [Next]_vars => AliveOK'
  BY AliveStep
<1>3. AliveOK => LiveThreadsAreBound
  BY DEF AliveOK, LiveThreadsAreBound
<1> QED
  BY <1>1, <1>2, <1>3, Entries, PTL DEF Spec
=============================================================================
