-------------------------------- MODULE Cell ---------------------------------
(***************************************************************************)
(* One cell: src/cell.py (bind_port, unbind_port, shutdown), the tables of *)
(* sim/ThreadManager.py, the threads of port/Port.py and the rounds of     *)
(* port/Agent.py over the table of ports.                                  *)
(*                                                                         *)
(* The XML-RPC server takes one call at a time; a call, the threads of the *)
(* ports and the agent run side by side.  A port object is a number, in    *)
(* the order of the bindings.  The queues of a port are pipes              *)
(* (PipeQueue.tla): a put that finds no room holds up the thread that      *)
(* makes it.  What the neighbours say and the trees that the agent has are *)
(* Agent.tla's: here a message can be any, and the puts that the agent     *)
(* answers with are any that it makes for some trees.                      *)
(***************************************************************************)
EXTENDS Naturals, Sequences

CONSTANTS
  Name,        \* the names of ports
  Virtual,     \* those bound to a pair of UDP ports; the others are interfaces
  None,        \* no port
  Prompt,      \* do threads that nothing holds up keep up with timers?  A loop
               \* runs before the next call, and a second is enough to end a
               \* session and be seen
  Rebinding,   \* may a call bind a name that is bound?
  Capacity,    \* messages a pipe holds
  MaxPuts,     \* bound: puts of a message in a row
  MaxBinds,    \* bound: bindings
  MaxUps,      \* bound: sessions that start, over all ports
  MaxHeard     \* bound: messages received, over all ports

ASSUME CellAssumption ==
  /\ Prompt \in BOOLEAN /\ Rebinding \in BOOLEAN
  /\ {Capacity, MaxPuts, MaxBinds, MaxUps, MaxHeard} \subseteq Nat /\ Capacity # 0
  /\ Virtual \subseteq Name
  /\ None \notin Name /\ None \notin Nat

Object == 1..MaxBinds

VARIABLES
  port_id,     \* Seq(Name): the name of each port object
  ports,       \* [Name -> Object or None], ThreadManager.ports
  threads,     \* SUBSET Object, ThreadManager._threads
  pipes,       \* [Name -> Object or None], whose pipes _pipes holds
  thread,      \* [Object -> the phase of its thread]
  stop_event,  \* [Object -> BOOLEAN]
  call,        \* [step, name]: where the RPC server is
  linked,      \* [Object -> BOOLEAN], link_state is CONNECTED
  signal_q,    \* [Object -> Seq of signals]
  read_q,      \* [Object -> number of messages]; one more than Capacity is the
               \* put that its event loop waits in
  write_q,     \* [Object -> number of messages]
  ups,         \* sessions started so far
  heard,       \* messages received so far
  table,       \* [Name -> Object or None], the agent's copy of ports
  todo,        \* names the agent has not visited in this round
  visiting,    \* the name whose signal has been looked at, or None
  outbox,      \* Seq(Object or None): the puts the agent has still to make
  excluded,    \* the name whose tree it has to pass on after them, or None
  rest,        \* the ports it has then still to look at, SUBSET Object
  agent        \* "alive", "stopped", or "dead" of a KeyError

tables == <<port_id, ports, threads, pipes>>
sessions == <<linked, signal_q, read_q, write_q, ups, heard>>
broadcast == <<excluded, rest>>
agents == <<table, todo, visiting, outbox, broadcast, agent>>
vars == <<tables, thread, stop_event, call, sessions, agents>>

Idle == [step |-> "idle", name |-> None]
At(step, n) == [step |-> step, name |-> n]
LoopRuns(o) == thread[o] \in {"running", "deaf", "stopping"}

\* The event loop of o is in a put to a read_q that is full.
HeldUp(o) == read_q[o] > Capacity

\* Mutant: a put always finds room.
AlwaysRoom(o) == TRUE

\* The port of the put that is due.
Due == Head(outbox)
Room(o) == write_q[o] < Capacity

\* The agent is in a put to a pipe that is full.
AgentWaits == agent = "alive" /\ outbox # <<>> /\ Due # None /\ ~Room(Due)
AgentGoesOn == agent = "alive" /\ ~AgentWaits

Init ==
  /\ port_id = <<>> /\ threads = {}
  /\ ports = [n \in Name |-> None]
  /\ pipes = [n \in Name |-> None]
  /\ thread = [o \in Object |-> "none"]
  /\ stop_event = [o \in Object |-> FALSE]
  /\ call = Idle
  /\ linked = [o \in Object |-> FALSE]
  /\ signal_q = [o \in Object |-> <<>>]
  /\ read_q = [o \in Object |-> 0]
  /\ write_q = [o \in Object |-> 0]
  /\ ups = 0 /\ heard = 0
  /\ table = [n \in Name |-> None]
  /\ todo = {} /\ visiting = None
  /\ outbox = <<>> /\ excluded = None /\ rest = {}
  /\ agent = "alive"

-----------------------------------------------------------------------------
(* The calls.                                                              *)

\* register_port: under the name of the port, and among the threads.
RegisterPort(n, o) ==
  /\ ports' = [ports EXCEPT ![n] = o]
  /\ threads' = threads \cup {o}

\* bind_port: the port is registered, then its pipes, then it is started.
BindRegister(n) ==
  /\ call = Idle
  /\ Len(port_id) < MaxBinds
  /\ Rebinding \/ ports[n] = None
  /\ port_id' = Append(port_id, n)
  /\ RegisterPort(n, Len(port_id) + 1)
  /\ call' = At("pipes", n)
  /\ UNCHANGED <<pipes, thread, stop_event, sessions, agents>>

BindPipes(n) ==
  /\ call = At("pipes", n)
  /\ pipes' = [pipes EXCEPT ![n] = ports[n]]
  /\ call' = At("start", n)
  /\ UNCHANGED <<port_id, ports, threads, thread, stop_event, sessions, agents>>

\* A thread that cannot be started raises, and everything stays registered.
BindStart(n) ==
  /\ call = At("start", n)
  /\ \/ thread' = [thread EXCEPT ![ports[n]] = "starting"]
     \/ UNCHANGED thread
  /\ call' = Idle
  /\ UNCHANGED <<tables, stop_event, sessions, agents>>

\* The thread of the port can be joined; if not, unbind_port raises and leaves
\* everything as it is.
Joinable(n) ==
  /\ ports[n] # None /\ thread[ports[n]] # "none"
  /\ Prompt => thread[ports[n]] # "starting"

\* Mutant: the thread is not asked to stop.
UnbindUnasked(n) ==
  /\ call = Idle /\ Joinable(n)
  /\ call' = At("join", n)
  /\ UNCHANGED <<tables, thread, stop_event, sessions, agents>>

\* unbind_port: stop() reaches a loop that runs, and only such a one.
Unbind(n) ==
  /\ call = Idle /\ Joinable(n)
  /\ stop_event' = [stop_event EXCEPT ![ports[n]] = @ \/ LoopRuns(ports[n])]
  /\ call' = At("join", n)
  /\ UNCHANGED <<tables, thread, sessions, agents>>

\* join(timeout=2.0): the result of the wait is not looked at.  It times out on a
\* thread that has not heard of the stop, or whose loop the agent holds up.
Join(n) ==
  /\ call = At("join", n)
  /\ \/ thread[ports[n]] \in {"ended", "deaf"}
     \/ ~stop_event[ports[n]] \/ ~Prompt
     \/ HeldUp(ports[n]) /\ ~AgentGoesOn
  /\ call' = At("delete", n)
  /\ UNCHANGED <<tables, thread, stop_event, sessions, agents>>

\* Mutant: the pipes of the port stay in their table.
DeleteKeepingPipes(n) ==
  /\ call = At("delete", n)
  /\ ports' = [ports EXCEPT ![n] = None]
  /\ threads' = threads \ {ports[n]}
  /\ call' = Idle
  /\ UNCHANGED <<port_id, pipes, thread, stop_event, sessions, agents>>

\* delete_port; nobody closes the pipes.
Delete(n) ==
  /\ call = At("delete", n)
  /\ ports' = [ports EXCEPT ![n] = None]
  /\ threads' = threads \ {ports[n]}
  /\ pipes' = [pipes EXCEPT ![n] = None]
  /\ call' = Idle
  /\ UNCHANGED <<port_id, thread, stop_event, sessions, agents>>

\* shutdown: the agent is asked to stop and waited for; no call comes after.
Shutdown ==
  /\ call = Idle
  /\ call' = At("halt", None)
  /\ UNCHANGED <<tables, thread, stop_event, sessions, agents>>

Halted ==
  /\ call = At("halt", None) /\ agent # "alive"
  /\ call' = At("down", None)
  /\ UNCHANGED <<tables, thread, stop_event, sessions, agents>>

-----------------------------------------------------------------------------
(* The thread of a port, and what comes through its link.                  *)

LoopStarts(o) ==
  /\ thread[o] = "starting"
  /\ thread' = [thread EXCEPT ![o] = "running"]
  /\ UNCHANGED <<tables, stop_event, call, sessions, agents>>

\* main_runner cancels run_link, which closes the transport if it has one,
\* and sleeps for a second; connection_lost runs in that second.
StopSeen(o) ==
  /\ thread[o] = "running" /\ stop_event[o] /\ ~HeldUp(o)
  /\ thread' = [thread EXCEPT ![o] = "stopping"]
  /\ linked' = [linked EXCEPT ![o] = FALSE]
  /\ \/ signal_q' = [signal_q EXCEPT ![o] = Append(@, "DISCONNECTED")]
     \/ ~linked[o] /\ UNCHANGED signal_q
  /\ UNCHANGED <<tables, stop_event, call, read_q, write_q, ups, heard, agents>>


\* A port on an interface waits for the commands of its search; one with a pair
\* of UDP ports knows its neighbour.
Searches(o) == port_id[o] \notin Virtual /\ ~linked[o]

\* A cancellation that comes while a command of the search runs is taken for the
\* end of that command: the search goes on, and main_runner waits for it.
StopSwallowed(o) ==
  /\ thread[o] = "running" /\ stop_event[o] /\ ~HeldUp(o)
  /\ Searches(o)
  /\ thread' = [thread EXCEPT ![o] = "deaf"]
  /\ UNCHANGED <<tables, stop_event, call, sessions, agents>>

\* Only an error of the search ends it then.
SearchFails(o) ==
  /\ thread[o] = "deaf" /\ ~linked[o] /\ ~HeldUp(o)
  /\ thread' = [thread EXCEPT ![o] = "ended"]
  /\ UNCHANGED <<tables, stop_event, call, sessions, agents>>

ThreadEnds(o) ==
  /\ thread[o] = "stopping"
  /\ Prompt /\ AgentGoesOn => signal_q[o] = <<>>
  /\ thread' = [thread EXCEPT ![o] = "ended"]
  /\ UNCHANGED <<tables, stop_event, call, sessions, agents>>

\* A session starts: a second after the last one ended, if there was one.
LinkUp(o) ==
  /\ thread[o] \in {"running", "deaf"} /\ ~linked[o] /\ ~HeldUp(o)
  /\ ups < MaxUps
  /\ Prompt /\ AgentGoesOn => signal_q[o] = <<>>
  /\ ups' = ups + 1
  /\ linked' = [linked EXCEPT ![o] = TRUE]
  /\ signal_q' = [signal_q EXCEPT ![o] = Append(@, "CONNECTED")]
  /\ UNCHANGED <<tables, thread, stop_event, call, read_q, write_q, heard, agents>>

LinkDown(o) ==
  /\ linked[o] /\ ~HeldUp(o)
  /\ linked' = [linked EXCEPT ![o] = FALSE]
  /\ signal_q' = [signal_q EXCEPT ![o] = Append(@, "DISCONNECTED")]
  /\ UNCHANGED <<tables, thread, stop_event, call, read_q, write_q, ups, heard, agents>>

\* The send task, which a session has and no other time.
Sends(o) ==
  /\ linked[o] /\ ~HeldUp(o) /\ write_q[o] # 0
  /\ write_q' = [write_q EXCEPT ![o] = @ - 1]
  /\ UNCHANGED <<tables, thread, stop_event, call, linked, signal_q, read_q, ups,
                 heard, agents>>

Receive(o) ==
  /\ linked[o] /\ ~HeldUp(o) /\ heard < MaxHeard
  /\ heard' = heard + 1
  /\ read_q' = [read_q EXCEPT ![o] = @ + 1]
  /\ UNCHANGED <<tables, thread, stop_event, call, linked, signal_q, write_q, ups,
                 agents>>

-----------------------------------------------------------------------------
(* The agent.                                                              *)

\* Between its puts the agent visits its ports.
Ready == agent = "alive" /\ outbox = <<>> /\ excluded = None /\ rest = {}

\* The start of a round: a copy of the table.
CopyPorts ==
  /\ Ready /\ call.step # "halt" /\ visiting = None /\ todo = {}
  /\ table' = ports
  /\ todo' = {n \in Name : ports[n] # None}
  /\ UNCHANGED <<tables, thread, stop_event, call, sessions, visiting, outbox,
                 broadcast, agent>>

\* Mutant: the agent goes on.
AgentNeverStops == FALSE

\* stop_event is looked at between rounds.
AgentStops ==
  /\ Ready /\ call.step = "halt" /\ visiting = None /\ todo = {}
  /\ agent' = "stopped"
  /\ UNCHANGED <<tables, thread, stop_event, call, sessions, table, todo,
                 visiting, outbox, broadcast>>

\* Puts to some ports, one after the other; the table of the round may have lost
\* some of them.
PutsAlong ==
  \E k \in 0..MaxPuts : \E names \in [1..k -> Name] :
    outbox' = [i \in 1..k |-> table[names[i]]]

\* CONNECTED: a tree of the port's own, and one that is known, if any.  DISCONNECTED:
\* an invalidation of a tree that came this way, to its leafward ports.
HandleSignal(n, signal) ==
  \/ signal = "CONNECTED" /\ outbox' \in {<<table[n]>>, <<table[n], table[n]>>}
  \/ signal = "DISCONNECTED" /\ PutsAlong

\* The ports come in the order of their entries in the table, which is that of the
\* bindings unless names are bound again.
Visit(n) ==
  /\ Ready /\ visiting = None /\ n \in todo
  /\ \A m \in todo : Rebinding \/ table[n] <= table[m]
  /\ todo' = todo \ {n}
  /\ visiting' = n
  /\ LET o == table[n] IN
     \/ signal_q[o] = <<>> /\ UNCHANGED <<signal_q, outbox>>
     \/ /\ signal_q[o] # <<>>
        /\ signal_q' = [signal_q EXCEPT ![o] = Tail(@)]
        /\ HandleSignal(n, Head(signal_q[o]))
  /\ UNCHANGED <<tables, thread, stop_event, call, linked, read_q, write_q, ups,
                 heard, table, broadcast, agent>>

\* A new tree is acknowledged, and is to be passed on.  An invalidation goes to the
\* leafward ports, an ack of another's tree to the rootward one: a KeyError without
\* the tree, as is an ack without the paths.  What is left makes no puts.
HandleMessage(n) ==
  \/ outbox' = <<table[n]>> /\ excluded' = n /\ UNCHANGED agent
  \/ PutsAlong /\ UNCHANGED <<excluded, agent>>
  \/ agent' = "dead" /\ UNCHANGED <<outbox, excluded>>

TakeMessage(n) ==
  /\ Ready /\ visiting = n
  /\ visiting' = None
  /\ LET o == table[n] IN
     \/ read_q[o] = 0 /\ UNCHANGED <<read_q, outbox, excluded, agent>>
     \/ /\ read_q[o] # 0
        /\ read_q' = [read_q EXCEPT ![o] = @ - 1]
        /\ HandleMessage(n)
  /\ UNCHANGED <<tables, thread, stop_event, call, linked, signal_q, write_q, ups,
                 heard, table, todo, rest>>

\* A put waits for room.
Put ==
  /\ agent = "alive" /\ outbox # <<>> /\ Due # None /\ Room(Due)
  /\ write_q' = [write_q EXCEPT ![Due] = @ + 1]
  /\ outbox' = Tail(outbox)
  /\ UNCHANGED <<tables, thread, stop_event, call, linked, signal_q, read_q, ups,
                 heard, table, todo, visiting, broadcast, agent>>

\* A port that is not in the table of the round: a KeyError.
LookUpFails ==
  /\ agent = "alive" /\ outbox # <<>> /\ Due = None
  /\ agent' = "dead"
  /\ UNCHANGED <<tables, thread, stop_event, call, sessions, table, todo, visiting,
                 outbox, broadcast>>

\* _broadcast_tree_build takes a copy of the table of its own.
Broadcast ==
  /\ agent = "alive" /\ outbox = <<>> /\ excluded # None
  /\ rest' = {ports[m] : m \in Name \ {excluded}} \ {None}
  /\ excluded' = None
  /\ UNCHANGED <<tables, thread, stop_event, call, sessions, table, todo, visiting,
                 outbox, agent>>

\* A port that is connected when it is looked at is put to.
LookAt(o) ==
  /\ agent = "alive" /\ outbox = <<>> /\ excluded = None /\ o \in rest
  /\ rest' = rest \ {o}
  /\ outbox' = IF linked[o] THEN <<o>> ELSE <<>>
  /\ UNCHANGED <<tables, thread, stop_event, call, sessions, table, todo, visiting,
                 excluded, agent>>

-----------------------------------------------------------------------------
CallGoesOn ==
  \/ \E n \in Name : BindPipes(n) \/ BindStart(n) \/ Join(n) \/ Delete(n)
  \/ Halted

Call ==
  \/ \E n \in Name : BindRegister(n) \/ Unbind(n)
  \/ Shutdown \/ CallGoesOn

LoopGoesOn(o) == LoopStarts(o) \/ StopSeen(o) \/ StopSwallowed(o) \/ ThreadEnds(o)

PortThread(o) ==
  \/ LoopGoesOn(o) \/ SearchFails(o)
  \/ LinkUp(o) \/ LinkDown(o) \/ Sends(o) \/ Receive(o)

AgentThread ==
  \/ CopyPorts \/ AgentStops
  \/ \E n \in Name : Visit(n) \/ TakeMessage(n)
  \/ Put \/ LookUpFails \/ Broadcast \/ \E o \in Object : LookAt(o)

Next == Call \/ AgentThread \/ \E o \in Object : PortThread(o)

Spec == Init /\ [][Next]_vars

\* A call that has begun goes on, event loops run what is ready, and the agent
\* goes on with its round; nobody need call, connect or say anything, and no
\* search need fail.
FairSpec ==
  /\ Spec
  /\ WF_vars(CallGoesOn) /\ WF_vars(AgentThread)
  /\ \A o \in Object : WF_vars(LoopGoesOn(o)) /\ WF_vars(Sends(o))

-----------------------------------------------------------------------------
(* Properties.                                                             *)

Slot == Object \cup {None}
Phase == {"none", "starting", "running", "deaf", "stopping", "ended"}

\* Every variable has its type, and no pipe holds more than it can but for the
\* put that a held up event loop is in.
TypeOK ==
  /\ port_id \in Seq(Name) /\ Len(port_id) <= MaxBinds
  /\ ports \in [Name -> Slot] /\ pipes \in [Name -> Slot] /\ table \in [Name -> Slot]
  /\ threads \subseteq Object
  /\ thread \in [Object -> Phase]
  /\ stop_event \in [Object -> BOOLEAN] /\ linked \in [Object -> BOOLEAN]
  /\ call \in [step : {"idle", "pipes", "start", "join", "delete", "halt", "down"},
               name : Name \cup {None}]
  /\ signal_q \in [Object -> Seq({"CONNECTED", "DISCONNECTED"})]
  /\ read_q \in [Object -> 0..Capacity + 1]
  /\ write_q \in [Object -> 0..Capacity]
  /\ ups \in Nat /\ heard \in Nat
  /\ todo \subseteq Name /\ visiting \in Name \cup {None}
  /\ outbox \in Seq(Slot) /\ excluded \in Name \cup {None} /\ rest \subseteq Object
  /\ agent \in {"alive", "stopped", "dead"}

\* Between calls the three tables of the thread manager speak of the same
\* ports, each under its own name, also when a thread could not be started: so
\* that the deletion of a port finds all it deletes (ThreadManager.py:89-110,
\* cell.py:105-120).
TablesAgree ==
  call.step \in {"idle", "halt", "down"} =>
    /\ pipes = ports
    /\ threads = {ports[n] : n \in Name} \ {None}
    /\ \A n \in Name : ports[n] # None => port_id[ports[n]] = n

Alive(o) == thread[o] \in {"starting", "running", "deaf", "stopping"}

\* A thread that lives on when its name no longer leads to it was asked to stop
\* ("Signal the port to stop", cell.py:133; Port.py:139-142): unless its search
\* has swallowed that, it ends as soon as nothing holds it up.
LiveThreadsAreBound ==
  \A o \in Object : Alive(o) => ports[port_id[o]] = o \/ stop_event[o]


\* A shutdown comes to its end, unless the agent waits for ever in a put to a
\* port that takes nothing: one without a session, or one whose event loop waits
\* for the agent (cell.py:175-188, Agent.py:173-177).
ShutdownEnds ==
  call.step = "halt" ~>
    \/ call.step = "down"
    \/ [](AgentWaits /\ (~linked[Due] \/ HeldUp(Due)))
=============================================================================
