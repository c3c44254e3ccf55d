----------------------------- MODULE Datacenter ------------------------------
(***************************************************************************)
(* src/datacenter.py: a command line from which an operator starts cells   *)
(* (src/cell.py, a process each), joins their ports over XML-RPC, loads a  *)
(* topology, and stops the cells again.  What a cell does with a call is   *)
(* Cell.tla; here a cell is a process that answers at its RPC port, or not.*)
(*                                                                         *)
(* A command runs as a few steps, in between which processes start, fail   *)
(* and end, and the operator may interrupt.  An address is a sequence: the *)
(* local and the remote port if it is virtual, <<>> for an interface, and  *)
(* anything else is malformed.                                             *)
(***************************************************************************)
EXTENDS Naturals, Sequences, SequencesExt

CONSTANTS
  Id,           \* the ids of cells
  Rpc,          \* RPC ports
  Name,         \* the names of ports
  Topology,     \* topology files: [cells, links], as the YAML has them
  Ends,         \* pairs of ends that the operator may link by hand
  None,         \* no such entry
  Careful,      \* does the operator keep ids, RPC ports and addresses apart?
  MaxCommands,  \* bound: commands
  MaxFaults     \* bound: processes that die by themselves

Address == Seq(Nat)
LinkEnd == [id : Id, name : Name]
BoundEnd == [id : Id, name : Name, addr : Address]
Link == [end1 : LinkEnd, end2 : LinkEnd, transport : {"udp", "interface"},
         addrs : {None} \cup Address \X Address]

ASSUME DatacenterAssumption ==
  /\ Careful \in BOOLEAN /\ None \notin Rpc
  /\ MaxCommands \in Nat /\ MaxFaults \in Nat
  /\ Ends \subseteq BoundEnd \X BoundEnd
  /\ \A t \in Topology : t.cells \in Seq([id : Id, rpc : Rpc]) /\ t.links \in Seq(Link)

\* A careful operator writes no file whose cells share an id or an RPC port.
ASSUME CarefulAssumption ==
  Careful => \A t \in Topology : \A j, k \in DOMAIN t.cells :
    j # k => t.cells[j].id # t.cells[k].id /\ t.cells[j].rpc # t.cells[k].rpc

VARIABLES
  proc,       \* Seq of [id, rpc, phase, ports], every process ever started
  processes,  \* [Id -> the number of its process, or 0], self.processes
  cells,      \* [Id -> the RPC port of its proxy, or None], self.cells
  todo,       \* Seq of calls that are left of the command
  step,       \* where its first call is: 1 or 2
  file,       \* the topology that is or was loaded by the last command, or None
  outcome,    \* "none", "loaded" or "failed", what the loading ended with
  running,    \* the command line takes commands
  commands,   \* commands so far
  faults      \* processes that died by themselves

tables == <<processes, cells>>
line == <<todo, step, file, outcome, running, commands>>
vars == <<proc, tables, line, faults>>

Unbound == <<0, 0>>
WellFormed(addr) == Len(addr) \in {0, 2}

Init ==
  /\ proc = <<>>
  /\ processes = [i \in Id |-> 0]
  /\ cells = [i \in Id |-> None]
  /\ todo = <<>> /\ step = 1
  /\ file = None /\ outcome = "none"
  /\ running = TRUE /\ commands = 0 /\ faults = 0

-----------------------------------------------------------------------------
(* The processes of the cells.                                             *)

\* Who listens at an RPC port, and who answers there.
Holders(r) == {p \in DOMAIN proc : proc[p].rpc = r /\ proc[p].phase \in {"serving", "stopping"}}
Servers(r) == {p \in Holders(r) : proc[p].phase = "serving"}

\* The process reaches the start of its RPC server: if the port is taken, the
\* server's thread dies of that, and the process stays, mute.
Starts(p) ==
  /\ proc[p].phase = "starting"
  /\ proc' = [proc EXCEPT ![p].phase = IF Holders(proc[p].rpc) = {} THEN "serving" ELSE "mute"]
  /\ UNCHANGED <<tables, line, faults>>

\* The main thread sees that it is no longer to run.
Exits(p) ==
  /\ proc[p].phase = "stopping"
  /\ proc' = [proc EXCEPT ![p].phase = "dead"]
  /\ UNCHANGED <<tables, line, faults>>

Dies(p) ==
  /\ proc[p].phase # "dead" /\ faults < MaxFaults
  /\ proc' = [proc EXCEPT ![p].phase = "dead"]
  /\ faults' = faults + 1
  /\ UNCHANGED <<tables, line>>

-----------------------------------------------------------------------------
(* How a call of the command ends.                                         *)

\* It returned True, or nothing: on to the next.
Done ==
  /\ todo' = Tail(todo)
  /\ step' = 1
  /\ outcome' = IF file # None /\ Len(todo) = 1 THEN "loaded" ELSE outcome
  /\ UNCHANGED <<file, running, commands>>

\* Mutants: a loading goes on as if nothing had happened; the call is repeated.
FailedUnnoticed == Done

\* It returned False, which ends a loading.
Failed ==
  /\ todo' = <<>>
  /\ step' = 1
  /\ outcome' = IF file # None THEN "failed" ELSE outcome
  /\ UNCHANGED <<file, running, commands>>

GoOn == step' = 2 /\ UNCHANGED <<todo, file, outcome, running, commands>>

At(op, k) == running /\ todo # <<>> /\ Head(todo).op = op /\ step = k

-----------------------------------------------------------------------------
(* add_cell.                                                               *)

NoPorts == [n \in Name |-> Unbound]

\* Mutant: the process is only recorded once it has been reached.
SpawnUnrecorded ==
  /\ At("add", 1)
  /\ proc' = Append(proc, [id |-> Head(todo).id, rpc |-> Head(todo).rpc,
                           phase |-> "starting", ports |-> NoPorts])
  /\ GoOn
  /\ UNCHANGED <<tables, faults>>

\* Popen, and the entry, which may overwrite another.
Spawn ==
  /\ At("add", 1)
  /\ proc' = Append(proc, [id |-> Head(todo).id, rpc |-> Head(todo).rpc,
                           phase |-> "starting", ports |-> NoPorts])
  /\ processes' = [processes EXCEPT ![Head(todo).id] = Len(proc) + 1]
  /\ GoOn
  /\ UNCHANGED <<cells, faults>>

\* Two seconds later: the process is looked at, then its port is tried.  Who
\* answers there is not compared with who was started.
Contact ==
  /\ At("add", 2)
  /\ LET r == Head(todo).rpc IN
     \/ /\ \/ Last(proc).phase = "dead"
           \/ Holders(r) = {}
        /\ Failed
        /\ UNCHANGED cells
     \/ /\ Last(proc).phase # "dead" /\ Servers(r) # {}
        /\ cells' = [cells EXCEPT ![Head(todo).id] = r]
        /\ Done
  /\ UNCHANGED <<proc, processes, faults>>

-----------------------------------------------------------------------------
(* create_link, unlink and _configure_interface_link.                      *)

\* The end whose turn it is.
ThisEnd == Head(todo).ends[step]

\* Only create_link and unlink look at both ids first.
Refused ==
  /\ \/ At("link", 1) /\ Head(todo).via = "udp"
     \/ At("unlink", 1)
  /\ \E k \in 1..2 : cells[Head(todo).ends[k].id] = None
  /\ Failed
  /\ UNCHANGED <<proc, tables, faults>>

Accepted ==
  Head(todo).via = "udp" => \A k \in 1..2 : cells[Head(todo).ends[k].id] # None

\* The call raises: nobody listens, or there is no proxy at all.
Unreachable ==
  /\ \E k \in 1..2 : At("link", k) \/ At("unlink", k)
  /\ step = 1 => Accepted
  /\ cells[ThisEnd.id] = None \/ Holders(cells[ThisEnd.id]) = {}
  /\ Failed
  /\ UNCHANGED <<proc, tables, faults>>

\* Mutant: the port takes whatever address it is given.
BindEndUnchecked ==
  /\ \E k \in 1..2 : At("link", k)
  /\ step = 1 => Accepted
  /\ cells[ThisEnd.id] # None
  /\ \E p \in Servers(cells[ThisEnd.id]) :
       proc' = [proc EXCEPT ![p].ports[ThisEnd.name] = ThisEnd.addr]
  /\ IF step = 1 THEN GoOn ELSE Done
  /\ UNCHANGED <<tables, faults>>

\* bind_port answers with a text, whether it has bound a port or not.
BindEnd ==
  /\ \E k \in 1..2 : At("link", k)
  /\ step = 1 => Accepted
  /\ cells[ThisEnd.id] # None
  /\ \E p \in Servers(cells[ThisEnd.id]) :
       proc' = [proc EXCEPT ![p].ports[ThisEnd.name] =
                  IF WellFormed(ThisEnd.addr) THEN ThisEnd.addr ELSE @]
  /\ IF step = 1 THEN GoOn ELSE Done
  /\ UNCHANGED <<tables, faults>>

UnbindEnd ==
  /\ \E k \in 1..2 : At("unlink", k)
  /\ step = 1 => Accepted
  /\ cells[ThisEnd.id] # None
  /\ \E p \in Servers(cells[ThisEnd.id]) :
       proc' = [proc EXCEPT ![p].ports[ThisEnd.name] = Unbound]
  /\ IF step = 1 THEN GoOn ELSE Done
  /\ UNCHANGED <<tables, faults>>

-----------------------------------------------------------------------------
(* remove_cell.                                                            *)

\* The proxy is forgotten, ...
ForgetProxy ==
  /\ At("remove", 1)
  /\ cells' = [cells EXCEPT ![Head(todo).id] = None]
  /\ GoOn
  /\ UNCHANGED <<processes, faults>>

\* ... after shutdown(), whose errors are swallowed and which one that is stopping
\* keeps waiting, ...
ShutDown ==
  /\ ForgetProxy
  /\ LET r == cells[Head(todo).id] IN
       /\ Holders(r) = Servers(r)
       /\ proc' = [p \in DOMAIN proc |->
                     IF p \in Servers(r) THEN [proc[p] EXCEPT !.phase = "stopping"]
                                         ELSE proc[p]]

\* ... or after the operator has interrupted it, which is swallowed, too.
ShutDownInterrupted == ForgetProxy /\ UNCHANGED proc

Killed(P) == [p \in DOMAIN proc |-> IF p \in P THEN [proc[p] EXCEPT !.phase = "dead"]
                                               ELSE proc[p]]

\* Mutant: after the shutdown the entry is deleted, the process left to itself.
TerminateLeaving ==
  /\ At("remove", 2)
  /\ UNCHANGED proc
  /\ processes' = [processes EXCEPT ![Head(todo).id] = 0]
  /\ Done
  /\ UNCHANGED <<cells, faults>>

\* terminate() and wait().
Terminate ==
  /\ At("remove", 2)
  /\ proc' = Killed({processes[Head(todo).id]})
  /\ processes' = [processes EXCEPT ![Head(todo).id] = 0]
  /\ Done
  /\ UNCHANGED <<cells, faults>>

-----------------------------------------------------------------------------
(* main: the commands.                                                     *)

InUse == {proc[p].ports[n] : p \in {q \in DOMAIN proc : proc[q].phase # "dead"}, n \in Name}
           \ {Unbound, <<>>}
Occupied == {i \in Id : processes[i] # 0}

\* A careful operator starts a cell under an id and on a port of its own, ...
Apart(i, r) == Careful =>
  i \notin Occupied /\ \A j \in Occupied : proc[processes[j]].rpc # r

\* ... and links by addresses that no port uses.
FreeAddress(addr) == Careful => \A used \in InUse : Len(addr) = 2 => addr[1] # used[1]

\* No name that is bound is bound again: what comes of that is in Cell.tla.
FreeEnd(end) ==
  /\ FreeAddress(end.addr)
  /\ cells[end.id] # None =>
       \A p \in Servers(cells[end.id]) : proc[p].ports[end.name] = Unbound

Prompted ==
  /\ running /\ todo = <<>> /\ commands < MaxCommands
  /\ commands' = commands + 1

Command(calls, f) ==
  /\ Prompted
  /\ todo' = calls /\ step' = 1
  /\ file' = f /\ outcome' = "none"
  /\ UNCHANGED <<proc, tables, running, faults>>

TypeAdd == \E i \in Id, r \in Rpc :
  Apart(i, r) /\ Command(<<[op |-> "add", id |-> i, rpc |-> r]>>, None)

TypeLink == \E e \in Ends :
  /\ FreeEnd(e[1]) /\ FreeEnd(e[2])
  /\ Command(<<[op |-> "link", via |-> "udp", ends |-> e]>>, None)

TypeUnlink == \E e \in Ends :
  Command(<<[op |-> "unlink", via |-> "udp", ends |-> e]>>, None)

TypeRemove == \E i \in Id : Command(<<[op |-> "remove", id |-> i]>>, None)

\* teardown goes over the cells that are connected.
TypeTeardown ==
  LET connected == {i \in Id : cells[i] # None} IN
  /\ connected # {}
  /\ \E order \in SetToSeqs(connected) :
       Command([k \in DOMAIN order |-> [op |-> "remove", id |-> order[k]]], None)

\* Mutant: neighbouring links share a port.
DefaultPortsOverlapping(index) == <<5000 + index, 5001 + index>>

\* _configure_udp_link: a pair of ports for the link of that index.
DefaultPorts(index) == <<5000 + 2 * index, 5001 + 2 * index>>

\* _configure_link_from_config; enumerate counts from zero.
LinkCall(link, k) ==
  LET d == DefaultPorts(k - 1)
      addr1 == IF link.addrs = None THEN d ELSE link.addrs[1]
      addr2 == IF link.addrs = None THEN Reverse(d) ELSE link.addrs[2]
  IN [op |-> "link", via |-> link.transport,
      ends |-> <<[id |-> link.end1.id, name |-> link.end1.name, addr |-> addr1],
                 [id |-> link.end2.id, name |-> link.end2.name, addr |-> addr2]>>]

AddCalls(t) ==
  [k \in DOMAIN t.cells |-> [op |-> "add", id |-> t.cells[k].id, rpc |-> t.cells[k].rpc]]
LinkCalls(t) == [k \in DOMAIN t.links |-> LinkCall(t.links[k], k)]

\* load_topology: the cells, then the links, until one fails.
Load == \E t \in Topology :
  /\ \A k \in DOMAIN t.cells : Apart(t.cells[k].id, t.cells[k].rpc)
  /\ \A k \in DOMAIN t.links, j \in 1..2 : FreeEnd(LinkCalls(t)[k].ends[j])
  /\ Command(AddCalls(t) \o LinkCalls(t), t)

\* A mistyped number raises in main, which then terminates every process it has
\* an entry for; entries and proxies stay.
Mistype ==
  /\ Prompted
  /\ proc' = Killed({processes[i] : i \in Id})
  /\ file' = None /\ outcome' = "none"
  /\ UNCHANGED <<tables, todo, step, running, faults>>

\* The loop of main ends, every process that has an entry is terminated first.
TerminateAll ==
  /\ running' = FALSE
  /\ todo' = <<>>
  /\ proc' = Killed({processes[i] : i \in Id})
  /\ UNCHANGED <<tables, step, file, outcome, commands, faults>>

Quit == running /\ todo = <<>> /\ TerminateAll

\* In the middle of a command; but remove_cell swallows it at first.
Interrupt == running /\ todo # <<>> /\ ~At("remove", 1) /\ TerminateAll

-----------------------------------------------------------------------------
Call == \/ Spawn \/ Contact
        \/ Refused \/ Unreachable \/ BindEnd \/ UnbindEnd
        \/ ShutDown \/ Terminate

Operator == \/ TypeAdd \/ TypeLink \/ TypeUnlink \/ TypeRemove \/ TypeTeardown
            \/ Load \/ Mistype \/ Quit \/ Interrupt \/ ShutDownInterrupted

Next == Call \/ Operator \/ \E p \in DOMAIN proc : Starts(p) \/ Exits(p) \/ Dies(p)

Spec == Init /\ [][Next]_vars

\* A command goes on, and a process that is to stop does; how long one takes to
\* start is not known.
FairSpec ==
  Spec /\ WF_vars(Call) /\ WF_vars(\E p \in DOMAIN proc : Exits(p))

-----------------------------------------------------------------------------
(* Properties.                                                             *)

Phase == {"starting", "serving", "mute", "stopping", "dead"}
Process == [id : Id, rpc : Rpc, phase : Phase, ports : [Name -> Address]]
CallRecord ==
  [op : {"add"}, id : Id, rpc : Rpc] \cup [op : {"remove"}, id : Id]
    \cup [op : {"link"}, via : {"udp", "interface"}, ends : BoundEnd \X BoundEnd]
    \cup [op : {"unlink"}, via : {"udp"}, ends : BoundEnd \X BoundEnd]

\* Every variable has its type, and no port has a malformed address.
TypeOK ==
  /\ proc \in Seq(Process)
  /\ \A p \in DOMAIN proc, n \in Name : WellFormed(proc[p].ports[n])
  /\ processes \in [Id -> 0..Len(proc)]
  /\ cells \in [Id -> Rpc \cup {None}]
  /\ todo \in Seq(CallRecord)
  /\ step \in 1..2
  /\ file \in Topology \cup {None}
  /\ outcome \in {"none", "loaded", "failed"}
  /\ running \in BOOLEAN
  /\ commands \in 0..MaxCommands /\ faults \in 0..MaxFaults

\* Whatever failed, was slow or was interrupted in the middle of a command, no
\* cell that was started outlives the controller (datacenter.py:334-340, :420-428).
QuitLeavesNothing == ~running => \A p \in DOMAIN proc : proc[p].phase = "dead"

\* A cell that is connected has a process to stop it by, and nobody else answers
\* its proxy, although who answered was never checked (datacenter.py:44-52).
ProxyReachesOwnCell ==
  \A i \in Id : cells[i] # None =>
    /\ processes[i] # 0
    /\ proc[processes[i]].rpc = cells[i]
    /\ Servers(cells[i]) \subseteq {processes[i]}

LiveAddress(end) == proc[processes[end.id]].ports[end.name]
LocalPorts(n, p) == {a[1] : a \in {proc[p].ports[n]} \ {<<>>}}

\* The two ends are bound to ports that face each other, and nobody else is.
Wired(link) ==
  LET a1 == LiveAddress(link.end1)
      a2 == LiveAddress(link.end2)
  IN /\ Unbound \notin {a1, a2}
     /\ link.transport = "udp" =>
          /\ a1 = Reverse(a2)
          /\ \A p \in DOMAIN proc, n \in Name :
               /\ proc[p].phase = "serving"
               /\ a1[1] \in LocalPorts(n, p)
               => p = processes[link.end1.id] /\ n = link.end1.name

GivenAddresses(t) ==
  UNION {IF t.links[k].addrs = None THEN {} ELSE Range(t.links[k].addrs) :
           k \in DOMAIN t.links}

WellGiven(t) == \A addr \in GivenAddresses(t) : WellFormed(addr)

\* "Topology Loaded Successfully" (datacenter.py:238): every cell of the file is
\* up and connected, every link wired and apart from the others, however slowly
\* the cells started.  A malformed address is taken for bound (:98), and excepted.
LoadedIsWired ==
  /\ outcome = "loaded" /\ running /\ faults = 0
  /\ WellGiven(file)
  =>
  /\ \A k \in DOMAIN file.cells :
       LET i == file.cells[k].id IN
         /\ cells[i] = file.cells[k].rpc
         /\ proc[processes[i]].phase = "serving"
  /\ \A k \in DOMAIN file.links : Wired(file.links[k])

\* A file that can hold: none of its ends is another one or has another one's port,
\* and the two ends of a UDP link face each other.
FileEnd(t, k, j) == LinkCalls(t)[k].ends[j]
Consistent(t) ==
  /\ \A k, l \in DOMAIN t.links, i, j \in 1..2 :
       LET e == FileEnd(t, k, i)
           f == FileEnd(t, l, j)
       IN k # l \/ i # j =>
            /\ e.id # f.id \/ e.name # f.name
            /\ Len(e.addr) = 2 /\ Len(f.addr) = 2 => e.addr[1] # f.addr[1]
  /\ \A k \in DOMAIN t.links, j \in 1..2 :
       Len(FileEnd(t, k, j).addr) = 2 => FileEnd(t, k, j).addr[1] # 0
  /\ \A k \in DOMAIN t.links :
       t.links[k].transport = "udp" =>
         /\ Len(FileEnd(t, k, 1).addr) = 2
         /\ FileEnd(t, k, 1).addr = Reverse(FileEnd(t, k, 2).addr)

=============================================================================
