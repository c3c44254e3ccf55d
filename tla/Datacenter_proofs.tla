-------------------------- MODULE Datacenter_proofs --------------------------
(***************************************************************************)
(* Proofs about Datacenter.tla, for every value of its constants: the      *)
(* types; and, for an operator who keeps ids and RPC ports apart, that no  *)
(* cell outlives the controller, that a proxy reaches its own cell, and    *)
(* that a topology that is reported as loaded is wired.                    *)
(***************************************************************************)
EXTENDS Datacenter, SequenceLemmas

-----------------------------------------------------------------------------
(* The inductive invariants.                                               *)

Connected == {i \in Id : cells[i] # None}

Live(p) == proc[p].phase # "dead"

\* Only processes with an entry live, and the entries are of processes with that
\* id and with RPC ports of their own.
EntriesOK ==
  /\ \A p \in DOMAIN proc : Live(p) => processes[proc[p].id] = p
  /\ \A i \in Occupied : proc[processes[i]].id = i
  /\ \A i, j \in Occupied : proc[processes[i]].rpc = proc[processes[j]].rpc => i = j

\* The cells that the command is still to start have ids and ports of their own.
ToStart == {k \in DOMAIN todo : todo[k].op = "add" /\ (k = 1 => step = 1)}
PendingOK ==
  /\ \A k \in ToStart :
       /\ todo[k].id \notin Occupied
       /\ \A i \in Occupied : proc[processes[i]].rpc # todo[k].rpc
  /\ \A j, k \in ToStart : j # k => todo[j].id # todo[k].id /\ todo[j].rpc # todo[k].rpc

\* A proxy stands for a process with an entry; between the steps of a command the
\* process has an entry and no proxy.
ProxiesOK ==
  /\ \A i \in Id : cells[i] # None =>
       processes[i] # 0 /\ proc[processes[i]].rpc = cells[i]
  /\ todo # <<>> /\ step = 2 /\ Head(todo).op = "add" =>
       /\ processes[Head(todo).id] # 0
       /\ proc[processes[Head(todo).id]].rpc = Head(todo).rpc
  /\ todo # <<>> /\ step = 2 /\ Head(todo).op = "remove" => cells[Head(todo).id] = None

IInv == EntriesOK /\ PendingOK /\ ProxiesOK /\ QuitLeavesNothing

-----------------------------------------------------------------------------
(* The processes.                                                          *)

ProcType(q) ==
  /\ q \in Seq(Process)
  /\ \A p \in DOMAIN q, n \in Name : WellFormed(q[p].ports[n])

\* q has the processes of proc, under their ids and at their ports, and none of
\* them is alive again.
SameCells(q) ==
  /\ DOMAIN q = DOMAIN proc
  /\ \A p \in DOMAIN proc :
       /\ q[p].id = proc[p].id /\ q[p].rpc = proc[p].rpc
       /\ proc[p].phase = "dead" => q[p].phase = "dead"

LEMMA ReplaceProcess ==
  ASSUME ProcType(proc), NEW p \in DOMAIN proc, NEW r \in Process,
         \A n \in Name : WellFormed(r.ports[n]),
         r.id = proc[p].id, r.rpc = proc[p].rpc,
         proc[p].phase = "dead" => r.phase = "dead"
  PROVE  ProcType([proc EXCEPT ![p] = r]) /\ SameCells([proc EXCEPT ![p] = r])
<1> DEFINE q == [proc EXCEPT ![p] = r]
<1>1. proc \in Seq(Process) /\ DOMAIN proc = 1..Len(proc) /\ Len(proc) \in Nat
  BY DEF ProcType
<1>2. DOMAIN q = DOMAIN proc /\ \A k \in DOMAIN proc : q[k] = IF k = p THEN r ELSE proc[k]
  OBVIOUS
<1>3. \A k \in 1..Len(proc) : q[k] \in Process
  BY <1>1, <1>2
<1>4. q \in [1..Len(proc) -> Process]
  BY <1>1, <1>3
<1>5. q \in Seq(Process)
  BY <1>1, <1>4
<1> HIDE DEF q
<1>6. \A k \in DOMAIN q, n \in Name : WellFormed(q[k].ports[n])
  BY <1>2 DEF ProcType
<1> QED
  BY <1>2, <1>5, <1>6 DEF ProcType, SameCells, q

LEMMA PhaseChange ==
  ASSUME ProcType(proc), NEW p \in DOMAIN proc, NEW h \in Phase,
         proc[p].phase = "dead" => h = "dead"
  PROVE  /\ ProcType([proc EXCEPT ![p].phase = h])
         /\ SameCells([proc EXCEPT ![p].phase = h])
<1> DEFINE r == [proc[p] EXCEPT !.phase = h]
<1>1. proc[p] \in Process
  BY DEF ProcType
<1>2. /\ r \in Process /\ r.id = proc[p].id /\ r.rpc = proc[p].rpc
      /\ r.ports = proc[p].ports /\ r.phase = h
  BY <1>1 DEF Process
<1>3. \A n \in Name : WellFormed(r.ports[n])
  BY <1>2 DEF ProcType
<1>4. [proc EXCEPT ![p].phase = h] = [proc EXCEPT ![p] = r]
  OBVIOUS
<1> HIDE DEF r
<1> QED
  BY <1>2, <1>3, <1>4, ReplaceProcess

LEMMA PortChange ==
  ASSUME ProcType(proc), NEW p \in DOMAIN proc, NEW m \in Name, NEW a \in Address,
         WellFormed(a)
  PROVE  /\ ProcType([proc EXCEPT ![p].ports[m] = a])
         /\ SameCells([proc EXCEPT ![p].ports[m] = a])
<1> DEFINE r == [proc[p] EXCEPT !.ports = [@ EXCEPT ![m] = a]]
<1>1. proc[p] \in Process
  BY DEF ProcType
<1>2. /\ r \in Process /\ r.id = proc[p].id /\ r.rpc = proc[p].rpc
      /\ r.ports = [proc[p].ports EXCEPT ![m] = a] /\ r.phase = proc[p].phase
  BY <1>1 DEF Process
<1>3. \A n \in Name : WellFormed(r.ports[n])
  BY <1>1, <1>2 DEF ProcType, Process
<1>4. [proc EXCEPT ![p].ports[m] = a] = [proc EXCEPT ![p] = r]
  OBVIOUS
<1> HIDE DEF r
<1> QED
  BY <1>2, <1>3, <1>4, ReplaceProcess

\* What a set of processes goes through at once: being killed, or asked to stop.
LEMMA PhasesChange ==
  ASSUME ProcType(proc), NEW P, NEW h \in Phase,
         \A p \in P \cap DOMAIN proc : proc[p].phase = "dead" => h = "dead",
         NEW q, q = [p \in DOMAIN proc |-> IF p \in P THEN [proc[p] EXCEPT !.phase = h]
                                                      ELSE proc[p]]
  PROVE  ProcType(q) /\ SameCells(q)
<1>1. proc \in Seq(Process) /\ DOMAIN proc = 1..Len(proc) /\ Len(proc) \in Nat
  BY DEF ProcType
<1>2. \A p \in DOMAIN proc : proc[p] \in Process
  BY <1>1
<1>3. \A p \in DOMAIN proc :
        /\ q[p] \in Process /\ q[p].id = proc[p].id /\ q[p].rpc = proc[p].rpc
        /\ q[p].ports = proc[p].ports
        /\ proc[p].phase = "dead" => q[p].phase = "dead"
  <2> TAKE p \in DOMAIN proc
  <2>1. CASE p \in P
    <3>1. q[p] = [proc[p] EXCEPT !.phase = h]
      BY <2>1
    <3> QED
      BY <1>2, <2>1, <3>1 DEF Process
  <2>2. CASE p \notin P
    BY <1>2, <2>2
  <2> QED
    BY <2>1, <2>2
<1>4. q \in [1..Len(proc) -> Process]
  BY <1>1, <1>3
<1>5. q \in Seq(Process)
  BY <1>1, <1>4
<1> QED
  BY <1>3, <1>5 DEF ProcType, SameCells

LEMMA KilledFacts ==
  ASSUME ProcType(proc), NEW P
  PROVE  /\ ProcType(Killed(P)) /\ SameCells(Killed(P))
         /\ \A p \in DOMAIN proc \cap P : Killed(P)[p].phase = "dead"
<1>1. "dead" \in Phase
  BY DEF Phase
<1>2. ProcType(Killed(P)) /\ SameCells(Killed(P))
  BY <1>1, PhasesChange DEF Killed
<1>3. \A p \in DOMAIN proc : proc[p] \in Process
  BY DEF ProcType
<1>4. \A p \in DOMAIN proc \cap P : Killed(P)[p] = [proc[p] EXCEPT !.phase = "dead"]
  BY DEF Killed
<1>5. \A p \in DOMAIN proc \cap P : Killed(P)[p].phase = "dead"
  BY <1>3, <1>4 DEF Process
<1> QED
  BY <1>2, <1>5

\* What Popen adds: one process more, the last.
LEMMA SpawnFacts ==
  ASSUME TypeOK, NEW i \in Id, NEW r \in Rpc, NEW q,
         q = Append(proc, [id |-> i, rpc |-> r, phase |-> "starting", ports |-> NoPorts])
  PROVE  /\ ProcType(q) /\ Len(q) = Len(proc) + 1 /\ Len(proc) \in Nat
         /\ DOMAIN q = 1..(Len(proc) + 1) /\ DOMAIN proc = 1..Len(proc)
         /\ \A p \in 1..Len(proc) : q[p] = proc[p]
         /\ q[Len(proc) + 1].id = i /\ q[Len(proc) + 1].rpc = r
<1> DEFINE c == [id |-> i, rpc |-> r, phase |-> "starting", ports |-> NoPorts]
<1>1. Unbound \in Address /\ WellFormed(Unbound)
  BY DEF Unbound, Address, WellFormed
<1>2. c \in Process /\ \A n \in Name : WellFormed(c.ports[n])
  BY <1>1 DEF Process, Phase, NoPorts
<1>3. c.id = i /\ c.rpc = r
  OBVIOUS
<1>4. q = Append(proc, c)
  OBVIOUS
<1> HIDE DEF c
<1>5. /\ q \in Seq(Process) /\ Len(q) = Len(proc) + 1 /\ Len(proc) \in Nat
      /\ DOMAIN q = 1..(Len(proc) + 1) /\ DOMAIN proc = 1..Len(proc)
      /\ \A p \in 1..Len(proc) : q[p] = proc[p]
      /\ q[Len(proc) + 1] = c
  BY <1>2, <1>4 DEF TypeOK
<1>6. \A p \in DOMAIN q, n \in Name : WellFormed(q[p].ports[n])
  <2> TAKE p \in DOMAIN q, n \in Name
  <2>1. p \in 1..Len(proc) \/ p = Len(proc) + 1
    BY <1>5
  <2> QED
    BY <1>2, <1>5, <2>1 DEF TypeOK
<1> QED
  BY <1>3, <1>5, <1>6 DEF ProcType

-----------------------------------------------------------------------------
(* The calls of a command.                                                 *)

LEMMA HeadFacts ==
  ASSUME TypeOK, todo # <<>>
  PROVE  /\ Head(todo) \in CallRecord /\ Head(todo) = todo[1]
         /\ Tail(todo) \in Seq(CallRecord)
         /\ \A k \in DOMAIN Tail(todo) : k + 1 \in DOMAIN todo /\ Tail(todo)[k] = todo[k + 1]
         /\ Head(todo).op = "add" => Head(todo).id \in Id /\ Head(todo).rpc \in Rpc
         /\ Head(todo).op = "remove" => Head(todo).id \in Id
         /\ Head(todo).op \in {"link", "unlink"} =>
              \A k \in 1..2 : Head(todo).ends[k] \in BoundEnd
<1>1. todo \in Seq(CallRecord)
  BY DEF TypeOK
<1>2. /\ Head(todo) \in CallRecord /\ Head(todo) = todo[1] /\ Tail(todo) \in Seq(CallRecord)
      /\ \A k \in DOMAIN Tail(todo) : k + 1 \in DOMAIN todo /\ Tail(todo)[k] = todo[k + 1]
  BY <1>1
<1>3. \A c \in CallRecord :
        /\ c.op = "add" => c.id \in Id /\ c.rpc \in Rpc
        /\ c.op = "remove" => c.id \in Id
        /\ c.op \in {"link", "unlink"} => \A k \in 1..2 : c.ends[k] \in BoundEnd
  BY DEF CallRecord
<1> QED
  BY <1>2, <1>3

LEMMA ReverseAddress ==
  ASSUME NEW a \in Address
  PROVE  Reverse(a) \in Address
BY DEF Reverse, Address

\* What a file makes the command line do.
LEMMA FileCalls ==
  ASSUME NEW t \in Topology
  PROVE  /\ LinkCalls(t) \in Seq(CallRecord) /\ AddCalls(t) \in Seq(CallRecord)
         /\ Len(AddCalls(t)) = Len(t.cells) /\ Len(t.cells) \in Nat
         /\ \A k \in DOMAIN LinkCalls(t) : LinkCalls(t)[k].op = "link"
         /\ \A k \in 1..Len(t.cells) :
              /\ AddCalls(t)[k].op = "add"
              /\ AddCalls(t)[k].id = t.cells[k].id /\ AddCalls(t)[k].rpc = t.cells[k].rpc
<1>1. t.cells \in Seq([id : Id, rpc : Rpc]) /\ t.links \in Seq(Link)
  BY DatacenterAssumption
<1>2. \A l \in Link, k \in Nat \ {0} :
        LinkCall(l, k) \in CallRecord /\ LinkCall(l, k).op = "link"
  <2> TAKE l \in Link, k \in Nat \ {0}
  <2> DEFINE d == DefaultPorts(k - 1)
             a1 == IF l.addrs = None THEN d ELSE l.addrs[1]
             a2 == IF l.addrs = None THEN Reverse(d) ELSE l.addrs[2]
  <2>1. k - 1 \in Nat
    OBVIOUS
  <2>2. d \in Address
    BY <2>1 DEF DefaultPorts, Address
  <2>3. Reverse(d) \in Address
    BY <2>2, ReverseAddress
  <2> HIDE DEF d
  <2>4. l.addrs \in {None} \cup Address \X Address
    BY DEF Link
  <2>5. a1 \in Address /\ a2 \in Address
    BY <2>2, <2>3, <2>4
  <2>6. LinkCall(l, k) =
          [op |-> "link", via |-> l.transport,
           ends |-> <<[id |-> l.end1.id, name |-> l.end1.name, addr |-> a1],
                      [id |-> l.end2.id, name |-> l.end2.name, addr |-> a2]>>]
    BY DEF LinkCall, d
  <2> HIDE DEF a1, a2
  <2>7. /\ [id |-> l.end1.id, name |-> l.end1.name, addr |-> a1] \in BoundEnd
        /\ [id |-> l.end2.id, name |-> l.end2.name, addr |-> a2] \in BoundEnd
        /\ l.transport \in {"udp", "interface"}
    BY <2>5 DEF Link, LinkEnd, BoundEnd
  <2> QED
    BY <2>6, <2>7 DEF CallRecord
<1>3. /\ \A k \in 1..Len(t.links) : t.links[k] \in Link
      /\ \A k \in 1..Len(t.cells) : t.cells[k] \in [id : Id, rpc : Rpc]
      /\ Len(t.links) \in Nat /\ Len(t.cells) \in Nat
      /\ DOMAIN t.links = 1..Len(t.links) /\ DOMAIN t.cells = 1..Len(t.cells)
  <2>1. \A S : \A s \in Seq(S) :
          /\ \A k \in 1..Len(s) : s[k] \in S
          /\ Len(s) \in Nat /\ DOMAIN s = 1..Len(s)
    OBVIOUS
  <2> QED
    BY <1>1, <2>1
<1>4. /\ LinkCalls(t) \in Seq(CallRecord)
      /\ \A k \in DOMAIN LinkCalls(t) : LinkCalls(t)[k].op = "link"
  <2>1. \A k \in 1..Len(t.links) :
          LinkCall(t.links[k], k) \in CallRecord /\ LinkCall(t.links[k], k).op = "link"
    BY <1>2, <1>3
  <2>2. LinkCalls(t) = [k \in 1..Len(t.links) |-> LinkCall(t.links[k], k)]
    BY <1>3 DEF LinkCalls
  <2> QED
    BY <1>3, <2>1, <2>2
<1>5. \A k \in 1..Len(t.cells) :
        [op |-> "add", id |-> t.cells[k].id, rpc |-> t.cells[k].rpc] \in CallRecord
  BY <1>3 DEF CallRecord
<1>6. AddCalls(t) \in [1..Len(t.cells) -> CallRecord]
  BY <1>3, <1>5 DEF AddCalls
<1>7. AddCalls(t) \in Seq(CallRecord) /\ Len(AddCalls(t)) = Len(t.cells)
  BY <1>3, <1>6
<1>8. \A k \in 1..Len(t.cells) :
        AddCalls(t)[k] = [op |-> "add", id |-> t.cells[k].id, rpc |-> t.cells[k].rpc]
  BY <1>3 DEF AddCalls
<1>9. \A k \in 1..Len(t.cells) :
        /\ AddCalls(t)[k].op = "add"
        /\ AddCalls(t)[k].id = t.cells[k].id /\ AddCalls(t)[k].rpc = t.cells[k].rpc
  <2> TAKE k \in 1..Len(t.cells)
  <2> DEFINE c == AddCalls(t)[k]
  <2>1. c = [op |-> "add", id |-> t.cells[k].id, rpc |-> t.cells[k].rpc]
    BY <1>8
  <2> HIDE DEF c
  <2>2. c.op = "add" /\ c.id = t.cells[k].id /\ c.rpc = t.cells[k].rpc
    BY <2>1
  <2> QED
    BY <2>2 DEF c
<1> QED
  BY <1>3, <1>4, <1>7, <1>9

LEMMA SameLength ==
  ASSUME ProcType(proc), NEW q, ProcType(q), SameCells(q)
  PROVE  Len(q) = Len(proc)
<1>1. 1..Len(q) = 1..Len(proc) /\ Len(q) \in Nat /\ Len(proc) \in Nat
  BY DEF ProcType, SameCells
<1>2. (Len(q) + 1 \notin 1..Len(proc)) /\ (Len(proc) + 1 \notin 1..Len(q))
  BY <1>1
<1> QED
  BY <1>1, <1>2

\* The processes, after any step but the start of one.
LEMMA ProcStep ==
  ASSUME TypeOK, Next, ~Spawn
  PROVE  ProcType(proc') /\ SameCells(proc')
<1>1. ProcType(proc)
  BY DEF TypeOK, ProcType
<1>2. CASE UNCHANGED proc
  BY <1>1, <1>2 DEF SameCells
<1>3. ASSUME NEW p \in DOMAIN proc, Starts(p) \/ Exits(p) \/ Dies(p)
      PROVE  ProcType(proc') /\ SameCells(proc')
  <2>1. PICK h \in Phase : /\ proc' = [proc EXCEPT ![p].phase = h]
                           /\ proc[p].phase = "dead" => h = "dead"
    BY <1>3 DEF Starts, Exits, Dies, Phase
  <2> QED
    BY <1>1, <2>1, PhaseChange
<1>4. CASE BindEnd \/ UnbindEnd
  <2>1. todo # <<>> /\ Head(todo).op \in {"link", "unlink"} /\ step \in 1..2
    BY <1>4 DEF BindEnd, UnbindEnd, At
  <2>2. ThisEnd \in BoundEnd
    BY <2>1, HeadFacts DEF ThisEnd
  <2>3. ThisEnd.name \in Name /\ ThisEnd.addr \in Address
    BY <2>2 DEF BoundEnd
  <2>4. Unbound \in Address /\ WellFormed(Unbound)
    BY DEF Unbound, Address, WellFormed
  <2>5. \A p \in DOMAIN proc :
          proc[p].ports[ThisEnd.name] \in Address /\ WellFormed(proc[p].ports[ThisEnd.name])
    <3> TAKE p \in DOMAIN proc
    <3>1. proc[p] \in Process
      BY <1>1 DEF ProcType
    <3> QED
      BY <1>1, <2>3, <3>1 DEF ProcType, Process
  <2>6. \E p \in DOMAIN proc, a \in Address :
          WellFormed(a) /\ proc' = [proc EXCEPT ![p].ports[ThisEnd.name] = a]
    <3>1. CASE BindEnd
      <4>1. PICK p \in DOMAIN proc :
              proc' = [proc EXCEPT ![p].ports[ThisEnd.name] =
                         IF WellFormed(ThisEnd.addr) THEN ThisEnd.addr ELSE @]
        BY <3>1 DEF BindEnd, Servers, Holders
      <4>2. CASE WellFormed(ThisEnd.addr)
        BY <2>3, <4>1, <4>2
      <4>3. CASE ~WellFormed(ThisEnd.addr)
        <5>1. proc' = [proc EXCEPT ![p].ports[ThisEnd.name] = proc[p].ports[ThisEnd.name]]
          BY <4>1, <4>3
        <5> QED
          BY <2>5, <5>1
      <4> QED
        BY <4>2, <4>3
    <3>2. CASE UnbindEnd
      BY <2>4, <3>2 DEF UnbindEnd, Servers, Holders
    <3> QED
      BY <1>4, <3>1, <3>2
  <2>7. PICK p \in DOMAIN proc, a \in Address :
          WellFormed(a) /\ proc' = [proc EXCEPT ![p].ports[ThisEnd.name] = a]
    BY <2>6
  <2> QED
    BY <1>1, <2>3, <2>7, PortChange
<1>5. CASE ShutDown
  <2> DEFINE r == cells[Head(todo).id]
  <2>1. proc' = [p \in DOMAIN proc |->
                   IF p \in Servers(r) THEN [proc[p] EXCEPT !.phase = "stopping"]
                                       ELSE proc[p]]
    BY <1>5 DEF ShutDown
  <2>2. \A p \in Servers(r) : proc[p].phase # "dead"
    BY DEF Servers
  <2>3. "stopping" \in Phase
    BY DEF Phase
  <2> HIDE DEF r
  <2> QED
    BY <1>1, <2>1, <2>2, <2>3, PhasesChange
<1>6. CASE Terminate \/ Mistype \/ Quit \/ Interrupt
  <2>1. \E P : proc' = Killed(P)
    BY <1>6 DEF Terminate, Mistype, Quit, Interrupt, TerminateAll
  <2> QED
    BY <1>1, <2>1, KilledFacts
<1>7. CASE Contact \/ Refused \/ Unreachable \/ ShutDownInterrupted
  BY <1>2, <1>7 DEF Contact, Refused, Unreachable, ShutDownInterrupted
<1>8. CASE TypeAdd \/ TypeLink \/ TypeUnlink \/ TypeRemove \/ TypeTeardown \/ Load
  BY <1>2, <1>8 DEF TypeAdd, TypeLink, TypeUnlink, TypeRemove, TypeTeardown, Load, Command
<1> QED
  BY <1>3, <1>4, <1>5, <1>6, <1>7, <1>8 DEF Next, Call, Operator

\* What a command consists of: calls, and perhaps a file.
LEMMA CommandCalls ==
  ASSUME TypeOK, IsFiniteSet(Connected),
         \/ TypeAdd \/ TypeLink \/ TypeUnlink \/ TypeRemove \/ TypeTeardown \/ Load
  PROVE  \E calls \in Seq(CallRecord), f \in Topology \cup {None} : Command(calls, f)
<1>1. \A c \in CallRecord : <<c>> \in Seq(CallRecord)
  OBVIOUS
<1>2. CASE TypeAdd
  <2>1. PICK i \in Id, r \in Rpc : Command(<<[op |-> "add", id |-> i, rpc |-> r]>>, None)
    BY <1>2 DEF TypeAdd
  <2>2. [op |-> "add", id |-> i, rpc |-> r] \in CallRecord
    BY DEF CallRecord
  <2> QED
    BY <1>1, <2>1, <2>2
<1>3. CASE TypeLink
  <2>1. PICK e \in Ends : Command(<<[op |-> "link", via |-> "udp", ends |-> e]>>, None)
    BY <1>3 DEF TypeLink
  <2>2. [op |-> "link", via |-> "udp", ends |-> e] \in CallRecord
    BY DatacenterAssumption DEF CallRecord
  <2> QED
    BY <1>1, <2>1, <2>2
<1>4. CASE TypeUnlink
  <2>1. PICK e \in Ends : Command(<<[op |-> "unlink", via |-> "udp", ends |-> e]>>, None)
    BY <1>4 DEF TypeUnlink
  <2>2. [op |-> "unlink", via |-> "udp", ends |-> e] \in CallRecord
    BY DatacenterAssumption DEF CallRecord
  <2> QED
    BY <1>1, <2>1, <2>2
<1>5. CASE TypeRemove
  <2>1. PICK i \in Id : Command(<<[op |-> "remove", id |-> i]>>, None)
    BY <1>5 DEF TypeRemove
  <2>2. [op |-> "remove", id |-> i] \in CallRecord
    BY DEF CallRecord
  <2> QED
    BY <1>1, <2>1, <2>2
<1>6. CASE TypeTeardown
  <2>1. PICK order \in SetToSeqs(Connected) :
          Command([k \in DOMAIN order |-> [op |-> "remove", id |-> order[k]]], None)
    BY <1>6 DEF TypeTeardown, Connected
  <2>2. Cardinality(Connected) \in Nat
    BY FS_CardinalityType
  <2>3. order \in [1..Cardinality(Connected) -> Connected]
    BY DEF SetToSeqs
  <2>4. \A k \in DOMAIN order : [op |-> "remove", id |-> order[k]] \in CallRecord
    BY <2>3 DEF CallRecord, Connected
  <2>5. [k \in DOMAIN order |-> [op |-> "remove", id |-> order[k]]]
          \in [1..Cardinality(Connected) -> CallRecord]
    BY <2>3, <2>4
  <2>6. [k \in DOMAIN order |-> [op |-> "remove", id |-> order[k]]] \in Seq(CallRecord)
    BY <2>2, <2>5
  <2> QED
    BY <2>1, <2>6
<1>7. CASE Load
  <2>1. PICK t \in Topology : Command(AddCalls(t) \o LinkCalls(t), t)
    BY <1>7 DEF Load
  <2>2. AddCalls(t) \o LinkCalls(t) \in Seq(CallRecord)
    BY FileCalls, ConcatProperties
  <2> QED
    BY <2>1, <2>2
<1> QED
  BY <1>2, <1>3, <1>4, <1>5, <1>6, <1>7

-----------------------------------------------------------------------------
(* The types.                                                              *)

LineType ==
  /\ todo \in Seq(CallRecord)
  /\ step \in 1..2
  /\ file \in Topology \cup {None}
  /\ outcome \in {"none", "loaded", "failed"}
  /\ running \in BOOLEAN
  /\ commands \in 0..MaxCommands

LEMMA LineStep ==
  ASSUME TypeOK, IsFiniteSet(Connected), Next
  PROVE  LineType'
<1>1. LineType
  BY DEF TypeOK, LineType
<1>2. CASE UNCHANGED line
  BY <1>1, <1>2 DEF line, LineType
<1>3. todo # <<>> /\ Done => LineType'
  <2>1. todo # <<>> => Tail(todo) \in Seq(CallRecord)
    BY HeadFacts
  <2> QED
    BY <1>1, <2>1 DEF Done, LineType
<1>4. Failed => LineType'
  <2>1. <<>> \in Seq(CallRecord)
    OBVIOUS
  <2> QED
    BY <1>1, <2>1 DEF Failed, LineType
<1>5. GoOn => LineType'
  BY <1>1 DEF GoOn, LineType
<1>6. CASE \E p \in DOMAIN proc : Starts(p) \/ Exits(p) \/ Dies(p)
  BY <1>2, <1>6 DEF Starts, Exits, Dies
<1>7. CASE Call \/ ShutDownInterrupted
  <2>1. todo # <<>>
    BY <1>7 DEF Call, At, Spawn, Contact, Refused, Unreachable, BindEnd, UnbindEnd,
       ShutDown, Terminate, ShutDownInterrupted, ForgetProxy
  <2>2. Done \/ Failed \/ GoOn
    BY <1>7 DEF Call, Spawn, Contact, Refused, Unreachable, BindEnd, UnbindEnd,
       ShutDown, Terminate, ShutDownInterrupted, ForgetProxy
  <2> QED
    BY <1>3, <1>4, <1>5, <2>1, <2>2
<1>8. CASE TypeAdd \/ TypeLink \/ TypeUnlink \/ TypeRemove \/ TypeTeardown \/ Load
  <2>1. PICK calls \in Seq(CallRecord), f \in Topology \cup {None} : Command(calls, f)
    BY <1>8, CommandCalls
  <2>2. commands' \in 0..MaxCommands /\ step' \in 1..2
    BY <1>1, <2>1, DatacenterAssumption DEF Command, Prompted, LineType
  <2> QED
    BY <1>1, <2>1, <2>2 DEF Command, LineType
<1>9. CASE Mistype
  <2>1. commands' \in 0..MaxCommands
    BY <1>1, <1>9, DatacenterAssumption DEF Mistype, Prompted, LineType
  <2> QED
    BY <1>1, <1>9, <2>1 DEF Mistype, LineType
<1>10. CASE Quit \/ Interrupt
  <2>1. <<>> \in Seq(CallRecord)
    OBVIOUS
  <2> QED
    BY <1>1, <1>10, <2>1 DEF Quit, Interrupt, TerminateAll, LineType
<1> QED
  BY <1>6, <1>7, <1>8, <1>9, <1>10 DEF Next, Operator

LEMMA FaultsStep ==
  ASSUME TypeOK, Next
  PROVE  faults' \in 0..MaxFaults
<1>1. CASE UNCHANGED faults
  BY <1>1 DEF TypeOK
<1>2. CASE \E p \in DOMAIN proc : Dies(p)
  BY <1>2, DatacenterAssumption DEF Dies, TypeOK
<1>3. CASE ~(\E p \in DOMAIN proc : Dies(p))
  <2>1. UNCHANGED faults
    BY <1>3 DEF Next, Call, Operator, Starts, Exits, Spawn, Contact, Refused, Unreachable,
       BindEnd, UnbindEnd, ShutDown, Terminate, ShutDownInterrupted, ForgetProxy, TypeAdd,
       TypeLink, TypeUnlink, TypeRemove, TypeTeardown, Load, Command, Mistype, Quit,
       Interrupt, TerminateAll
  <2> QED
    BY <1>1, <2>1
<1> QED
  BY <1>2, <1>3

\* The tables, and how many cells are connected.
LEMMA TablesStep ==
  ASSUME TypeOK, IsFiniteSet(Connected), Next
  PROVE  /\ processes' \in [Id -> 0..Len(proc')]
         /\ cells' \in [Id -> Rpc \cup {None}]
         /\ IsFiniteSet(Connected')
<1>1. /\ processes \in [Id -> 0..Len(proc)] /\ cells \in [Id -> Rpc \cup {None}]
      /\ ProcType(proc)
  BY DEF TypeOK, ProcType
<1>2. Len(proc) \in Nat
  BY <1>1 DEF ProcType
<1>3. \A i \in Id : Connected' \subseteq Connected \cup {i} => IsFiniteSet(Connected')
  <2> TAKE i \in Id
  <2>1. IsFiniteSet(Connected \cup {i})
    BY FS_AddElement
  <2> QED
    BY <2>1, FS_Subset
<1>4. ASSUME UNCHANGED cells
      PROVE  cells' \in [Id -> Rpc \cup {None}] /\ IsFiniteSet(Connected')
  BY <1>1, <1>4 DEF Connected
<1>5. CASE Spawn
  <2>1. Head(todo).id \in Id /\ Head(todo).rpc \in Rpc
    BY <1>5, HeadFacts DEF Spawn, At
  <2>2. Len(proc') = Len(proc) + 1
    BY <1>5, <2>1, SpawnFacts DEF Spawn
  <2>3. processes' = [processes EXCEPT ![Head(todo).id] = Len(proc) + 1] /\ UNCHANGED cells
    BY <1>5 DEF Spawn
  <2>4. processes' \in [Id -> 0..Len(proc')]
    <3>1. 0..Len(proc) \subseteq 0..Len(proc') /\ Len(proc) + 1 \in 0..Len(proc')
      BY <1>2, <2>2
    <3> QED
      BY <1>1, <2>1, <2>3, <3>1
  <2> QED
    BY <1>1, <1>4, <2>3, <2>4
<1>6. CASE ~Spawn
  <2>1. Len(proc') = Len(proc)
    BY <1>1, <1>6, ProcStep, SameLength
  <2>2. UNCHANGED processes \/ Terminate
    BY <1>6 DEF Next, Call, Operator, Starts, Exits, Dies, Contact, Refused, Unreachable,
       BindEnd, UnbindEnd, ShutDown, ShutDownInterrupted, ForgetProxy, TypeAdd,
       TypeLink, TypeUnlink, TypeRemove, TypeTeardown, Load, Command, Mistype, Quit,
       Interrupt, TerminateAll, tables
  <2>3. processes' \in [Id -> 0..Len(proc')]
    BY <1>1, <1>2, <2>1, <2>2 DEF Terminate
  <2>4. UNCHANGED cells \/ Contact \/ ForgetProxy
    BY <1>6 DEF Next, Call, Operator, Starts, Exits, Dies, Terminate, Refused, Unreachable,
       BindEnd, UnbindEnd, ShutDown, ShutDownInterrupted, TypeAdd, TypeLink, TypeUnlink,
       TypeRemove, TypeTeardown, Load, Command, Mistype, Quit, Interrupt, TerminateAll, tables
  <2>5. CASE UNCHANGED cells
    BY <1>4, <2>3, <2>5
  <2>6. CASE Contact
    <3>1. Head(todo).id \in Id /\ Head(todo).rpc \in Rpc
      BY <2>6, HeadFacts DEF Contact, At
    <3>2. UNCHANGED cells \/ cells' = [cells EXCEPT ![Head(todo).id] = Head(todo).rpc]
      BY <2>6 DEF Contact
    <3>3. cells' \in [Id -> Rpc \cup {None}] /\ Connected' \subseteq Connected \cup {Head(todo).id}
      BY <1>1, <3>1, <3>2 DEF Connected
    <3> QED
      BY <1>3, <2>3, <3>1, <3>3
  <2>7. CASE ForgetProxy
    <3>1. Head(todo).id \in Id /\ cells' = [cells EXCEPT ![Head(todo).id] = None]
      BY <2>7, HeadFacts DEF ForgetProxy, At
    <3>2. cells' \in [Id -> Rpc \cup {None}] /\ Connected' \subseteq Connected \cup {Head(todo).id}
      BY <1>1, <3>1 DEF Connected
    <3> QED
      BY <1>3, <2>3, <3>1, <3>2
  <2> QED
    BY <2>4, <2>5, <2>6, <2>7
<1> QED
  BY <1>5, <1>6

LEMMA TypesAndConnected == Spec => [](TypeOK /\ IsFiniteSet(Connected))
<1>1. Init => TypeOK /\ IsFiniteSet(Connected)
  <2> SUFFICES ASSUME Init PROVE TypeOK /\ IsFiniteSet(Connected)
    OBVIOUS
  <2>1. Connected = {}
    BY DEF Init, Connected
  <2>2. /\ proc = <<>> /\ todo = <<>> /\ <<>> \in Seq(Process) /\ <<>> \in Seq(CallRecord)
        /\ DOMAIN proc = {} /\ Len(proc) = 0
    BY DEF Init
  <2>3. processes \in [Id -> 0..Len(proc)] /\ cells \in [Id -> Rpc \cup {None}]
    BY <2>2 DEF Init
  <2> QED
    BY <2>1, <2>2, <2>3, FS_EmptySet, DatacenterAssumption DEF Init, TypeOK
<1>2. TypeOK /\ IsFiniteSet(Connected) /\ [Next]_vars => (TypeOK /\ IsFiniteSet(Connected))'
  <2> SUFFICES ASSUME TypeOK, IsFiniteSet(Connected), [Next]_vars
               PROVE  TypeOK' /\ IsFiniteSet(Connected')
    BY DEF Connected
  <2>1. CASE UNCHANGED vars
    BY <2>1 DEF vars, tables, line, TypeOK, Connected
  <2>2. CASE Next
    <3>1. LineType' /\ faults' \in 0..MaxFaults
      BY <2>2, LineStep, FaultsStep
    <3>2. /\ processes' \in [Id -> 0..Len(proc')] /\ cells' \in [Id -> Rpc \cup {None}]
          /\ IsFiniteSet(Connected')
      BY <2>2, TablesStep
    <3>3. ProcType(proc')
      <4>1. CASE Spawn
        <5>1. Head(todo).id \in Id /\ Head(todo).rpc \in Rpc
          BY <4>1, HeadFacts DEF Spawn, At
        <5>2. proc' = Append(proc, [id |-> Head(todo).id, rpc |-> Head(todo).rpc,
                                    phase |-> "starting", ports |-> NoPorts])
          BY <4>1 DEF Spawn
        <5>3. \A i \in Id, r \in Rpc : \A q :
                q = Append(proc, [id |-> i, rpc |-> r, phase |-> "starting", ports |-> NoPorts])
                => ProcType(q)
          BY SpawnFacts
        <5> QED
          BY <5>1, <5>2, <5>3
      <4> QED
        BY <2>2, <4>1, ProcStep
    <3> QED
      BY <3>1, <3>2, <3>3 DEF TypeOK, LineType, ProcType
  <2> QED
    BY <2>1, <2>2
<1> QED
  BY <1>1, <1>2, PTL DEF Spec

\* Every variable of the controller keeps its type, whatever a file holds and
\* whatever fails: no command looks at a process that was never started, and no
\* port of a cell has a malformed address (datacenter.py:15-150, :209-300).
THEOREM TypeCorrect == Spec => []TypeOK
BY TypesAndConnected, PTL

-----------------------------------------------------------------------------
(* The entries.                                                            *)

LEMMA EntryFacts ==
  ASSUME TypeOK
  PROVE  /\ \A i \in Occupied : i \in Id /\ processes[i] \in DOMAIN proc
         /\ \A p \in DOMAIN proc : proc[p].id \in Id /\ proc[p].rpc \in Rpc /\ p # 0
         /\ DOMAIN proc = 1..Len(proc) /\ Len(proc) \in Nat
<1>1. proc \in Seq(Process) /\ processes \in [Id -> 0..Len(proc)]
  BY DEF TypeOK
<1>2. DOMAIN proc = 1..Len(proc) /\ Len(proc) \in Nat /\ \A p \in DOMAIN proc : proc[p] \in Process
  BY <1>1
<1> QED
  BY <1>1, <1>2 DEF Occupied, Process

\* Steps that start nothing leave every cell its id and its port, ...
LEMMA CellsStay ==
  ASSUME TypeOK, Next, ~Spawn
  PROVE  SameCells(proc')
BY ProcStep

\* ... and every entry but the one that Terminate deletes.
LEMMA EntriesStay ==
  ASSUME Next, ~Spawn, ~Terminate
  PROVE  UNCHANGED processes
BY DEF Next, Call, Operator, Starts, Exits, Dies, Contact, Refused, Unreachable,
   BindEnd, UnbindEnd, ShutDown, ShutDownInterrupted, ForgetProxy, TypeAdd,
   TypeLink, TypeUnlink, TypeRemove, TypeTeardown, Load, Command, Mistype, Quit,
   Interrupt, TerminateAll, tables

LEMMA SpawnFree ==
  ASSUME TypeOK, PendingOK, Spawn
  PROVE  LET i == Head(todo).id
             r == Head(todo).rpc
         IN /\ i \in Id /\ r \in Rpc /\ i \notin Occupied
            /\ \A j \in Occupied : proc[processes[j]].rpc # r
            /\ 1 \in ToStart /\ todo[1].id = i /\ todo[1].rpc = r
            /\ processes' = [processes EXCEPT ![i] = Len(proc) + 1]
            /\ DOMAIN proc' = 1..(Len(proc) + 1)
            /\ \A p \in 1..Len(proc) : proc'[p] = proc[p]
            /\ proc'[Len(proc) + 1].id = i /\ proc'[Len(proc) + 1].rpc = r
            /\ Occupied' = Occupied \cup {i}
            /\ \A j \in Occupied : processes'[j] = processes[j] /\ proc'[processes[j]] = proc[processes[j]]
<1> DEFINE i == Head(todo).id
           r == Head(todo).rpc
<1>1. todo # <<>> /\ Head(todo).op = "add" /\ step = 1
  BY DEF Spawn, At
<1>2. i \in Id /\ r \in Rpc /\ Head(todo) = todo[1]
  BY <1>1, HeadFacts
<1>3. 1 \in DOMAIN todo
  BY <1>1 DEF TypeOK
<1>4. 1 \in ToStart
  BY <1>1, <1>2, <1>3 DEF ToStart
<1>5. proc' = Append(proc, [id |-> Head(todo).id, rpc |-> Head(todo).rpc,
                            phase |-> "starting", ports |-> NoPorts])
  BY DEF Spawn
<1>6. processes' = [processes EXCEPT ![i] = Len(proc) + 1] /\ processes \in [Id -> 0..Len(proc)]
  BY DEF Spawn, TypeOK
<1>7. i \notin Occupied /\ \A j \in Occupied : proc[processes[j]].rpc # r
  BY <1>2, <1>4 DEF PendingOK
<1>8. \A j \in Id, s \in Rpc : \A q :
        q = Append(proc, [id |-> j, rpc |-> s, phase |-> "starting", ports |-> NoPorts])
        => /\ Len(proc) \in Nat
           /\ DOMAIN q = 1..(Len(proc) + 1)
           /\ \A p \in 1..Len(proc) : q[p] = proc[p]
           /\ q[Len(proc) + 1].id = j /\ q[Len(proc) + 1].rpc = s
  BY SpawnFacts
<1>9. /\ Len(proc) \in Nat
      /\ DOMAIN proc' = 1..(Len(proc) + 1)
      /\ \A p \in 1..Len(proc) : proc'[p] = proc[p]
      /\ proc'[Len(proc) + 1].id = i /\ proc'[Len(proc) + 1].rpc = r
  BY <1>2, <1>5, <1>8
<1> HIDE DEF i, r
<1>10. Occupied' = Occupied \cup {i}
  BY <1>2, <1>6, <1>9 DEF Occupied
<1>11. \A j \in Occupied : processes'[j] = processes[j] /\ proc'[processes[j]] = proc[processes[j]]
  <2> TAKE j \in Occupied
  <2>1. processes[j] \in 1..Len(proc) /\ j # i
    BY <1>7, EntryFacts
  <2> QED
    BY <1>6, <1>9, <2>1 DEF Occupied
<1> QED
  BY <1>2, <1>4, <1>6, <1>7, <1>9, <1>10, <1>11 DEF i, r

LEMMA EntriesStep ==
  ASSUME TypeOK, EntriesOK, PendingOK, [Next]_vars
  PROVE  EntriesOK'
<1>1. ASSUME SameCells(proc'), UNCHANGED processes
      PROVE  EntriesOK'
  <2>1. /\ \A p \in DOMAIN proc' : p \in DOMAIN proc /\ (Live(p)' => Live(p))
        /\ \A p \in DOMAIN proc' : proc'[p].id = proc[p].id
        /\ \A i \in Occupied : /\ proc'[processes'[i]].id = proc[processes[i]].id
                               /\ proc'[processes'[i]].rpc = proc[processes[i]].rpc
        /\ Occupied' = Occupied
    BY <1>1, EntryFacts DEF SameCells, Live, Occupied
  <2> QED
    BY <1>1, <2>1 DEF EntriesOK
<1>2. CASE Terminate
  <2> DEFINE i == Head(todo).id
  <2>1. i \in Id
    BY <1>2, HeadFacts DEF Terminate, At
  <2>2. /\ proc' = Killed({processes[i]})
        /\ processes' = [processes EXCEPT ![i] = 0] /\ processes \in [Id -> 0..Len(proc)]
    BY <1>2 DEF Terminate, TypeOK
  <2>3. ProcType(proc)
    BY DEF TypeOK, ProcType
  <2>4. /\ SameCells(proc')
        /\ processes[i] \in DOMAIN proc => proc'[processes[i]].phase = "dead"
    BY <2>2, <2>3, KilledFacts
  <2> HIDE DEF i
  <2>5. Occupied' = Occupied \ {i} /\ \A j \in Occupied' : processes'[j] = processes[j]
    BY <2>1, <2>2 DEF Occupied
  <2>6. \A j \in Occupied' : /\ proc'[processes'[j]].id = proc[processes[j]].id
                             /\ proc'[processes'[j]].rpc = proc[processes[j]].rpc
    BY <2>4, <2>5, EntryFacts DEF SameCells
  <2>7. ASSUME NEW p \in DOMAIN proc', Live(p)'
        PROVE  processes'[proc'[p].id] = p
    <3>1. p \in DOMAIN proc /\ Live(p) /\ proc'[p].id = proc[p].id
      BY <2>4, <2>7 DEF SameCells, Live
    <3>2. processes[proc[p].id] = p /\ proc[p].id \in Id
      BY <3>1, EntryFacts DEF EntriesOK
    <3>3. proc[p].id # i
      <4> SUFFICES ASSUME proc[p].id = i PROVE FALSE
        OBVIOUS
      <4>1. processes[i] = p
        BY <3>2
      <4> QED
        BY <2>4, <2>7, <3>1, <4>1 DEF Live
    <3> QED
      BY <2>2, <3>1, <3>2, <3>3
  <2> QED
    BY <2>5, <2>6, <2>7 DEF EntriesOK
<1>3. CASE Spawn
  <2> DEFINE i == Head(todo).id
             r == Head(todo).rpc
             n == Len(proc) + 1
  <2>1. /\ i \in Id /\ r \in Rpc /\ i \notin Occupied
        /\ \A j \in Occupied : proc[processes[j]].rpc # r
        /\ processes' = [processes EXCEPT ![i] = n]
        /\ DOMAIN proc' = 1..n
        /\ \A p \in 1..Len(proc) : proc'[p] = proc[p]
        /\ proc'[n].id = i /\ proc'[n].rpc = r
        /\ Occupied' = Occupied \cup {i}
        /\ \A j \in Occupied : /\ processes'[j] = processes[j]
                               /\ proc'[processes[j]] = proc[processes[j]]
    BY <1>3, SpawnFree
  <2>2. processes \in [Id -> 0..Len(proc)]
    BY DEF TypeOK
  <2>3. Len(proc) \in Nat /\ DOMAIN proc = 1..Len(proc)
    BY EntryFacts
  <2> HIDE DEF i, r
  <2>4. ASSUME NEW p \in DOMAIN proc', Live(p)'
        PROVE  processes'[proc'[p].id] = p
    <3>1. CASE p = n
      BY <2>1, <2>2, <3>1
    <3>2. CASE p # n
      <4>1. p \in DOMAIN proc /\ proc'[p] = proc[p]
        BY <2>1, <2>3, <3>2
      <4>2. processes[proc[p].id] = p /\ proc[p].id \in Id /\ p # 0
        BY <2>4, <4>1, EntryFacts DEF EntriesOK, Live
      <4>3. proc[p].id \in Occupied
        BY <4>2 DEF Occupied
      <4> QED
        BY <2>1, <4>1, <4>2, <4>3
    <3> QED
      BY <3>1, <3>2
  <2>5. processes'[i] = n
    BY <2>1, <2>2
  <2>6. \A j \in Occupied' : proc'[processes'[j]].id = j
    BY <2>1, <2>5 DEF EntriesOK
  <2>7. \A j, k \in Occupied' : proc'[processes'[j]].rpc = proc'[processes'[k]].rpc => j = k
    BY <2>1, <2>5 DEF EntriesOK
  <2> QED
    BY <2>4, <2>6, <2>7 DEF EntriesOK
<1>4. CASE Next /\ ~Spawn /\ ~Terminate
  BY <1>1, <1>4, CellsStay, EntriesStay
<1>5. CASE UNCHANGED vars
  <2>1. SameCells(proc') /\ UNCHANGED processes
    BY <1>5 DEF vars, tables, SameCells
  <2> QED
    BY <1>1, <2>1
<1> QED
  BY <1>2, <1>3, <1>4, <1>5

\* What all steps but Spawn do to the entries that are left.
LEMMA EntriesKept ==
  ASSUME TypeOK, [Next]_vars, ~Spawn
  PROVE  /\ SameCells(proc')
         /\ Occupied' \subseteq Occupied
         /\ \A j \in Occupied' : /\ processes'[j] = processes[j]
                                 /\ proc'[processes'[j]].rpc = proc[processes[j]].rpc
<1>1. SameCells(proc')
  <2>1. CASE UNCHANGED vars
    BY <2>1 DEF vars, SameCells
  <2> QED
    BY <2>1, CellsStay
<1>2. Occupied' \subseteq Occupied /\ \A j \in Occupied' : processes'[j] = processes[j]
  <2>1. CASE Terminate
    <3>1. processes' = [processes EXCEPT ![Head(todo).id] = 0] /\ processes \in [Id -> 0..Len(proc)]
      BY <2>1 DEF Terminate, TypeOK
    <3> QED
      BY <3>1 DEF Occupied
  <2>2. CASE UNCHANGED processes
    BY <2>2 DEF Occupied
  <2> QED
    BY <2>1, <2>2, EntriesStay DEF vars, tables
<1> QED
  BY <1>1, <1>2, EntryFacts DEF SameCells

-----------------------------------------------------------------------------
(* The cells that are still to start.                                      *)

LEMMA PendingStep ==
  ASSUME Careful, TypeOK, PendingOK, [Next]_vars
  PROVE  PendingOK'
<1>1. ASSUME Occupied' \subseteq Occupied,
             \A j \in Occupied' : proc'[processes'[j]].rpc = proc[processes[j]].rpc,
             \/ todo' = <<>>
             \/ todo # <<>> /\ todo' = Tail(todo) /\ step' = 1
             \/ todo' = todo /\ step' \in {step, 2}
      PROVE  PendingOK'
  <2>1. CASE todo' = <<>>
    BY <2>1 DEF PendingOK, ToStart
  <2>2. CASE todo # <<>> /\ todo' = Tail(todo) /\ step' = 1
    <3>1. /\ \A k \in DOMAIN Tail(todo) : k \in Nat /\ k + 1 # 1
          /\ \A k \in DOMAIN Tail(todo) : k + 1 \in DOMAIN todo /\ Tail(todo)[k] = todo[k + 1]
      <4>1. \A s \in Seq(CallRecord) : \A k \in DOMAIN s : k \in Nat /\ k + 1 # 1
        OBVIOUS
      <4> QED
        BY <2>2, <4>1, HeadFacts
    <3>2. \A k \in ToStart' : k \in Nat /\ k + 1 \in ToStart /\ todo'[k] = todo[k + 1]
      BY <2>2, <3>1 DEF ToStart
    <3>3. \A k \in ToStart' :
            /\ todo'[k].id \notin Occupied'
            /\ \A i \in Occupied' : proc'[processes'[i]].rpc # todo'[k].rpc
      BY <1>1, <3>2 DEF PendingOK
    <3>4. \A j, k \in ToStart' :
            j # k => todo'[j].id # todo'[k].id /\ todo'[j].rpc # todo'[k].rpc
      <4> TAKE j, k \in ToStart'
      <4>1. j # k => j + 1 # k + 1
        BY <3>2
      <4> QED
        BY <3>2, <4>1 DEF PendingOK
    <3> QED
      BY <3>3, <3>4 DEF PendingOK
  <2>3. CASE todo' = todo /\ step' \in {step, 2}
    <3>1. ToStart' \subseteq ToStart
      BY <2>3 DEF ToStart
    <3> QED
      BY <1>1, <2>3, <3>1 DEF PendingOK
  <2> QED
    BY <1>1, <2>1, <2>2, <2>3
<1>2. CASE Spawn
  <2>1. LET i == Head(todo).id
            r == Head(todo).rpc
        IN /\ 1 \in ToStart /\ todo[1].id = i /\ todo[1].rpc = r
           /\ processes' = [processes EXCEPT ![i] = Len(proc) + 1]
           /\ i \in Id
           /\ proc'[Len(proc) + 1].rpc = r
           /\ Occupied' = Occupied \cup {i}
           /\ \A j \in Occupied : /\ processes'[j] = processes[j]
                                  /\ proc'[processes[j]] = proc[processes[j]]
    BY <1>2, SpawnFree
  <2>2. processes'[todo[1].id] = Len(proc) + 1
    BY <2>1 DEF TypeOK
  <2>3. todo' = todo /\ ToStart' \subseteq ToStart \ {1}
    BY <1>2 DEF Spawn, GoOn, ToStart
  <2> QED
    BY <2>1, <2>2, <2>3 DEF PendingOK
<1>3. ASSUME UNCHANGED <<proc, tables>>, \A k \in DOMAIN todo' : todo'[k].op # "add"
      PROVE  PendingOK'
  BY <1>3 DEF PendingOK, ToStart
<1>4. CASE TypeAdd
  <2>1. PICK i \in Id, r \in Rpc :
          Apart(i, r) /\ Command(<<[op |-> "add", id |-> i, rpc |-> r]>>, None)
    BY <1>4 DEF TypeAdd
  <2>2. /\ todo' = <<[op |-> "add", id |-> i, rpc |-> r]>>
        /\ UNCHANGED <<proc, tables>>
    BY <2>1 DEF Command
  <2>3. ToStart' \subseteq {1} /\ todo'[1].id = i /\ todo'[1].rpc = r
    BY <2>2 DEF ToStart
  <2>4. i \notin Occupied /\ \A j \in Occupied : proc[processes[j]].rpc # r
    BY <2>1 DEF Apart
  <2>5. Occupied' = Occupied /\ \A j \in Occupied : proc'[processes'[j]] = proc[processes[j]]
    BY <2>2 DEF Occupied, tables
  <2> QED
    BY <2>3, <2>4, <2>5 DEF PendingOK
<1>5. CASE Load
  <2>1. PICK t \in Topology :
          /\ \A k \in DOMAIN t.cells : Apart(t.cells[k].id, t.cells[k].rpc)
          /\ Command(AddCalls(t) \o LinkCalls(t), t)
    BY <1>5 DEF Load
  <2>2. todo' = AddCalls(t) \o LinkCalls(t) /\ UNCHANGED <<proc, tables>>
    BY <2>1 DEF Command
  <2>3. t.cells \in Seq([id : Id, rpc : Rpc]) /\ DOMAIN t.cells = 1..Len(t.cells)
    <3>1. t.cells \in Seq([id : Id, rpc : Rpc])
      BY DatacenterAssumption
    <3>2. \A S : \A s \in Seq(S) : DOMAIN s = 1..Len(s)
      OBVIOUS
    <3> QED
      BY <3>1, <3>2
  <2>4. /\ LinkCalls(t) \in Seq(CallRecord) /\ AddCalls(t) \in Seq(CallRecord)
        /\ Len(AddCalls(t)) = Len(t.cells) /\ Len(t.cells) \in Nat
        /\ \A k \in DOMAIN LinkCalls(t) : LinkCalls(t)[k].op = "link"
        /\ \A k \in 1..Len(t.cells) :
             /\ AddCalls(t)[k].op = "add"
             /\ AddCalls(t)[k].id = t.cells[k].id /\ AddCalls(t)[k].rpc = t.cells[k].rpc
    BY FileCalls
  <2>5. ASSUME NEW k \in ToStart'
        PROVE  k \in DOMAIN t.cells /\ todo'[k].id = t.cells[k].id /\ todo'[k].rpc = t.cells[k].rpc
    <3>1. k \in DOMAIN (AddCalls(t) \o LinkCalls(t)) /\ todo'[k].op = "add"
      BY <2>2, <2>5 DEF ToStart
    <3>2. \/ k \in 1..Len(t.cells) /\ (AddCalls(t) \o LinkCalls(t))[k] = AddCalls(t)[k]
          \/ /\ k - Len(t.cells) \in DOMAIN LinkCalls(t)
             /\ (AddCalls(t) \o LinkCalls(t))[k] = LinkCalls(t)[k - Len(t.cells)]
      BY <2>4, <3>1
    <3>3. "add" # "link"
      OBVIOUS
    <3> QED
      BY <2>2, <2>3, <2>4, <3>1, <3>2, <3>3
  <2>6. \A k \in DOMAIN t.cells :
          /\ t.cells[k].id \notin Occupied
          /\ \A j \in Occupied : proc[processes[j]].rpc # t.cells[k].rpc
    BY <2>1 DEF Apart
  <2>7. Occupied' = Occupied /\ \A j \in Occupied : proc'[processes'[j]] = proc[processes[j]]
    BY <2>2 DEF Occupied, tables
  <2>8. \A j, k \in DOMAIN t.cells :
          j # k => t.cells[j].id # t.cells[k].id /\ t.cells[j].rpc # t.cells[k].rpc
    BY CarefulAssumption
  <2> QED
    BY <2>5, <2>6, <2>7, <2>8 DEF PendingOK
<1>6. CASE TypeLink \/ TypeUnlink \/ TypeRemove
  <2>1. PICK c : Command(<<c>>, None) /\ c.op # "add"
    <3>1. CASE TypeLink
      <4>1. PICK e \in Ends : Command(<<[op |-> "link", via |-> "udp", ends |-> e]>>, None)
        BY <3>1 DEF TypeLink
      <4>2. [op |-> "link", via |-> "udp", ends |-> e].op # "add"
        OBVIOUS
      <4> QED
        BY <4>1, <4>2
    <3>2. CASE TypeUnlink
      <4>1. PICK e \in Ends : Command(<<[op |-> "unlink", via |-> "udp", ends |-> e]>>, None)
        BY <3>2 DEF TypeUnlink
      <4>2. [op |-> "unlink", via |-> "udp", ends |-> e].op # "add"
        OBVIOUS
      <4> QED
        BY <4>1, <4>2
    <3>3. CASE TypeRemove
      <4>1. PICK i \in Id : Command(<<[op |-> "remove", id |-> i]>>, None)
        BY <3>3 DEF TypeRemove
      <4>2. [op |-> "remove", id |-> i].op # "add"
        OBVIOUS
      <4> QED
        BY <4>1, <4>2
    <3> QED
      BY <1>6, <3>1, <3>2, <3>3
  <2> QED
    BY <1>3, <2>1 DEF Command
<1>7. CASE TypeTeardown
  <2>1. PICK order : Command([k \in DOMAIN order |-> [op |-> "remove", id |-> order[k]]], None)
    BY <1>7 DEF TypeTeardown
  <2> QED
    BY <1>3, <2>1 DEF Command
<1>8. CASE [Next]_vars /\ ~Spawn /\ ~TypeAdd /\ ~Load /\ ~TypeLink /\ ~TypeUnlink
           /\ ~TypeRemove /\ ~TypeTeardown
  <2>1. \/ todo' = <<>>
        \/ todo # <<>> /\ todo' = Tail(todo) /\ step' = 1
        \/ todo' = todo /\ step' \in {step, 2}
    <3>1. CASE UNCHANGED line
      BY <3>1 DEF line
    <3>2. CASE Call \/ ShutDownInterrupted
      <4>1. todo # <<>> /\ (Done \/ Failed \/ GoOn)
        BY <1>8, <3>2 DEF Call, At, Contact, Refused, Unreachable, BindEnd, UnbindEnd,
           ShutDown, Terminate, ShutDownInterrupted, ForgetProxy
      <4> QED
        BY <4>1 DEF Done, Failed, GoOn
    <3>3. CASE Mistype
      BY <3>3 DEF Mistype
    <3>4. CASE Quit \/ Interrupt
      BY <3>4 DEF Quit, Interrupt, TerminateAll
    <3>5. CASE \E p \in DOMAIN proc : Starts(p) \/ Exits(p) \/ Dies(p)
      BY <3>1, <3>5 DEF Starts, Exits, Dies
    <3> QED
      BY <1>8, <3>1, <3>2, <3>3, <3>4, <3>5 DEF Next, Operator, vars
  <2>2. /\ Occupied' \subseteq Occupied
        /\ \A j \in Occupied' : proc'[processes'[j]].rpc = proc[processes[j]].rpc
    BY <1>8, EntriesKept
  <2> QED
    BY <1>1, <2>1, <2>2
<1> QED
  BY <1>2, <1>4, <1>5, <1>6, <1>7, <1>8

-----------------------------------------------------------------------------
(* The proxies.                                                            *)

LEMMA ProxiesStep ==
  ASSUME TypeOK, EntriesOK, PendingOK, ProxiesOK, [Next]_vars
  PROVE  ProxiesOK'
<1>1. /\ cells \in [Id -> Rpc \cup {None}] /\ processes \in [Id -> 0..Len(proc)]
      /\ step \in 1..2
      /\ todo # <<>> /\ Head(todo).op \in {"add", "remove"} => Head(todo).id \in Id
  BY HeadFacts DEF TypeOK
<1>2. ASSUME UNCHANGED tables, SameCells(proc'),
             \/ todo' = <<>> \/ step' = 1
             \/ todo' = todo /\ step' = step
             \/ todo' = todo /\ Head(todo).op \in {"link", "unlink"}
      PROVE  ProxiesOK'
  <2>1. \A i \in Occupied : proc'[processes'[i]].rpc = proc[processes[i]].rpc
    BY <1>2, EntryFacts DEF SameCells, tables
  <2>2. UNCHANGED cells /\ UNCHANGED processes
    BY <1>2 DEF tables
  <2>3. \A i \in Id : cells'[i] # None =>
          processes'[i] # 0 /\ proc'[processes'[i]].rpc = cells'[i]
    BY <2>1, <2>2 DEF ProxiesOK, Occupied
  <2>4. CASE todo' = <<>> \/ step' = 1
    BY <2>3, <2>4 DEF ProxiesOK
  <2>5. CASE todo' = todo /\ step' = step
    <3>1. todo # <<>> /\ step = 2 /\ Head(todo).op = "add" =>
            /\ processes'[Head(todo).id] # 0
            /\ proc'[processes'[Head(todo).id]].rpc = Head(todo).rpc
      BY <1>1, <2>1, <2>2 DEF ProxiesOK, Occupied
    <3>2. todo # <<>> /\ step = 2 /\ Head(todo).op = "remove" => cells'[Head(todo).id] = None
      BY <2>2 DEF ProxiesOK
    <3> QED
      BY <2>3, <2>5, <3>1, <3>2 DEF ProxiesOK
  <2>6. CASE todo' = todo /\ Head(todo).op \in {"link", "unlink"}
    BY <2>3, <2>6 DEF ProxiesOK
  <2> QED
    BY <1>2, <2>4, <2>5, <2>6
<1>3. CASE Spawn
  <2> DEFINE i == Head(todo).id
             r == Head(todo).rpc
  <2>1. /\ i \in Id /\ i \notin Occupied
        /\ processes' = [processes EXCEPT ![i] = Len(proc) + 1]
        /\ proc'[Len(proc) + 1].rpc = r
        /\ \A j \in Occupied : /\ processes'[j] = processes[j]
                               /\ proc'[processes[j]] = proc[processes[j]]
    BY <1>3, SpawnFree
  <2>2. UNCHANGED cells /\ todo' = todo /\ Head(todo).op = "add" /\ Len(proc) + 1 # 0
    BY <1>3, EntryFacts DEF Spawn, GoOn, At
  <2> HIDE DEF i, r
  <2>3. processes'[i] = Len(proc) + 1
    BY <1>1, <2>1
  <2>4. \A j \in Id : cells'[j] # None =>
          processes'[j] # 0 /\ proc'[processes'[j]].rpc = cells'[j]
    BY <2>1, <2>2 DEF ProxiesOK, Occupied
  <2>5. processes'[Head(todo').id] # 0 /\ proc'[processes'[Head(todo').id]].rpc = Head(todo').rpc
    BY <2>1, <2>2, <2>3 DEF i, r
  <2> QED
    BY <2>2, <2>4, <2>5 DEF ProxiesOK
<1>4. CASE Contact
  <2>1. todo # <<>> /\ Head(todo).op = "add" /\ step = 2 /\ UNCHANGED <<proc, processes>>
    BY <1>4 DEF Contact, At
  <2>2. CASE Failed /\ UNCHANGED cells
    BY <2>1, <2>2, <1>2 DEF Failed, tables, SameCells
  <2>3. CASE Done /\ cells' = [cells EXCEPT ![Head(todo).id] = Head(todo).rpc]
    BY <1>1, <2>1, <2>3 DEF Done, ProxiesOK
  <2> QED
    BY <1>4, <2>2, <2>3 DEF Contact
<1>5. CASE ForgetProxy /\ SameCells(proc')
  <2>1. /\ Head(todo).op = "remove" /\ todo' = todo /\ UNCHANGED processes
        /\ cells' = [cells EXCEPT ![Head(todo).id] = None] /\ Head(todo).id \in Id
    BY <1>1, <1>5 DEF ForgetProxy, GoOn, At
  <2>2. \A i \in Occupied : proc'[processes'[i]].rpc = proc[processes[i]].rpc
    BY <1>5, <2>1, EntryFacts DEF SameCells
  <2> QED
    BY <1>1, <2>1, <2>2 DEF ProxiesOK, Occupied
<1>6. CASE Terminate
  <2> DEFINE i == Head(todo).id
  <2>1. /\ todo # <<>> /\ Head(todo).op = "remove" /\ step = 2 /\ UNCHANGED cells
        /\ processes' = [processes EXCEPT ![i] = 0] /\ step' = 1
    BY <1>6 DEF Terminate, Done, At
  <2>2. i \in Id /\ cells[i] = None
    BY <1>1, <2>1 DEF ProxiesOK
  <2>3. ~Spawn
    BY <2>1 DEF Spawn, At
  <2>4. \A j \in Occupied' : proc'[processes'[j]].rpc = proc[processes[j]].rpc
    BY <1>6, <2>3, EntriesKept
  <2> HIDE DEF i
  <2>5. \A j \in Id : cells'[j] # None => j \in Occupied' /\ processes'[j] # 0
    BY <1>1, <2>1, <2>2 DEF ProxiesOK, Occupied
  <2> QED
    BY <2>1, <2>4, <2>5 DEF ProxiesOK
<1>7. CASE UNCHANGED vars
  BY <1>2, <1>7 DEF vars, tables, line, SameCells
<1>8. CASE Next /\ ~Spawn /\ ~Contact /\ ~ForgetProxy /\ ~Terminate
  <2>1. SameCells(proc') /\ UNCHANGED processes
    BY <1>8, CellsStay, EntriesStay
  <2>2. UNCHANGED cells
    BY <1>8 DEF Next, Call, Operator, Starts, Exits, Dies, Refused, Unreachable,
       BindEnd, UnbindEnd, ShutDown, ShutDownInterrupted, TypeAdd,
       TypeLink, TypeUnlink, TypeRemove, TypeTeardown, Load, Command, Mistype, Quit,
       Interrupt, TerminateAll, tables
  <2>3. \/ todo' = <<>> \/ step' = 1
        \/ todo' = todo /\ step' = step
        \/ todo' = todo /\ Head(todo).op \in {"link", "unlink"}
    <3>1. CASE \E p \in DOMAIN proc : Starts(p) \/ Exits(p) \/ Dies(p)
      BY <3>1 DEF Starts, Exits, Dies, line
    <3>2. CASE Refused \/ Unreachable
      BY <3>2 DEF Refused, Unreachable, Failed
    <3>3. CASE BindEnd \/ UnbindEnd
      BY <3>3 DEF BindEnd, UnbindEnd, Done, GoOn, At
    <3>4. CASE TypeAdd \/ TypeLink \/ TypeUnlink \/ TypeRemove \/ TypeTeardown \/ Load
      BY <3>4 DEF TypeAdd, TypeLink, TypeUnlink, TypeRemove, TypeTeardown, Load, Command
    <3>5. CASE Mistype \/ Quit \/ Interrupt
      BY <3>5 DEF Mistype, Quit, Interrupt, TerminateAll
    <3> QED
      BY <1>8, <3>1, <3>2, <3>3, <3>4, <3>5
         DEF Next, Call, Operator, ShutDown, ShutDownInterrupted
  <2> QED
    BY <1>2, <2>1, <2>2, <2>3 DEF tables
<1> QED
  <2>1. ForgetProxy => SameCells(proc')
    <3>1. ForgetProxy => ~Spawn
      BY DEF ForgetProxy, Spawn, At
    <3> QED
      BY <3>1, EntriesKept
  <2> QED
    BY <2>1, <1>3, <1>4, <1>5, <1>6, <1>7, <1>8

-----------------------------------------------------------------------------
(* The end of the command line.                                            *)

LEMMA QuitStep ==
  ASSUME TypeOK, EntriesOK, QuitLeavesNothing, [Next]_vars
  PROVE  QuitLeavesNothing'
<1>1. CASE Quit \/ Interrupt
  <2>1. proc' = Killed({processes[i] : i \in Id})
    BY <1>1 DEF Quit, Interrupt, TerminateAll
  <2>2. ProcType(proc)
    BY DEF TypeOK, ProcType
  <2>3. /\ SameCells(proc')
        /\ \A p \in DOMAIN proc \cap {processes[i] : i \in Id} : proc'[p].phase = "dead"
    BY <2>1, <2>2, KilledFacts
  <2>4. ASSUME NEW p \in DOMAIN proc
        PROVE  proc'[p].phase = "dead"
    <3>1. CASE Live(p)
      <4>1. p = processes[proc[p].id] /\ proc[p].id \in Id
        BY <3>1, EntryFacts DEF EntriesOK
      <4> QED
        BY <2>3, <4>1
    <3>2. CASE ~Live(p)
      BY <2>3, <3>2 DEF SameCells, Live
    <3> QED
      BY <3>1, <3>2
  <2> QED
    BY <2>3, <2>4 DEF QuitLeavesNothing, SameCells
<1>2. CASE ~Quit /\ ~Interrupt
  <2>1. UNCHANGED running
    BY <1>2 DEF Next, Call, Operator, Starts, Exits, Dies, Spawn, Contact, Refused, Unreachable,
       BindEnd, UnbindEnd, ShutDown, ShutDownInterrupted, ForgetProxy, Terminate, TypeAdd,
       TypeLink, TypeUnlink, TypeRemove, TypeTeardown, Load, Command, Mistype,
       Done, Failed, GoOn, line, vars
  <2>2. ~running => ~Spawn
    BY DEF Spawn, At
  <2>3. ~running => SameCells(proc')
    BY <2>2, EntriesKept
  <2> QED
    BY <2>1, <2>3 DEF QuitLeavesNothing, SameCells
<1> QED
  BY <1>1, <1>2

-----------------------------------------------------------------------------
(* The loading of a file.                                                  *)

Plan(t) == AddCalls(t) \o LinkCalls(t)
Loading == running /\ file # None /\ outcome # "failed" /\ faults = 0 /\ WellGiven(file)

\* How many calls of the plan are done, and which ends of links by them.
Finished == Len(file.cells) + Len(file.links) - Len(todo)
EndDone(k, j) ==
  \/ Len(file.cells) + k <= Finished
  \/ Len(file.cells) + k = Finished + 1 /\ step = 2 /\ j = 1

PlanOK ==
  /\ Len(todo) <= Len(file.cells) + Len(file.links)
  /\ \A k \in DOMAIN todo : todo[k] = Plan(file)[Finished + k]

Up(i) == processes[i] # 0 /\ proc[processes[i]].phase = "serving"
CellsUp ==
  \A k \in DOMAIN file.cells : k <= Finished =>
    cells[file.cells[k].id] = file.cells[k].rpc /\ Up(file.cells[k].id)

Bound(e) == cells[e.id] # None /\ Up(e.id) /\ proc[processes[e.id]].ports[e.name] = e.addr
LinksBound ==
  \A k \in DOMAIN file.links, j \in 1..2 : EndDone(k, j) => Bound(FileEnd(file, k, j))

\* No live process but the end's own uses its port.
Alone(e) == Len(e.addr) = 2 =>
  \A p \in DOMAIN proc, n \in Name :
    /\ Live(p) /\ Len(proc[p].ports[n]) = 2 /\ proc[p].ports[n][1] = e.addr[1]
    => p = processes[e.id] /\ n = e.name
PortsAlone == \A k \in DOMAIN file.links, j \in 1..2 : Alone(FileEnd(file, k, j))

\* A loading that has not failed has done the first calls of its plan, and what
\* they did is still there.
PlanHolds == PlanOK /\ CellsUp /\ LinksBound /\ PortsAlone
LoadOK ==
  /\ outcome \in {"loaded", "failed"} => todo = <<>>
  /\ outcome = "loaded" => file # None
  /\ Loading => PlanHolds

\* The calls of a file, and the ends of its links.
LEMMA FileFacts ==
  ASSUME NEW t \in Topology
  PROVE  /\ Len(t.cells) \in Nat /\ DOMAIN t.cells = 1..Len(t.cells)
         /\ Len(t.links) \in Nat /\ DOMAIN t.links = 1..Len(t.links)
         /\ Plan(t) \in Seq(CallRecord) /\ Len(Plan(t)) = Len(t.cells) + Len(t.links)
         /\ \A k \in 1..Len(t.cells) :
              /\ t.cells[k].id \in Id /\ t.cells[k].rpc \in Rpc
              /\ Plan(t)[k].op = "add"
              /\ Plan(t)[k].id = t.cells[k].id /\ Plan(t)[k].rpc = t.cells[k].rpc
         /\ \A k \in 1..Len(t.links) :
              /\ Plan(t)[Len(t.cells) + k] = LinkCalls(t)[k] /\ LinkCalls(t)[k].op = "link"
              /\ \A j \in 1..2 : FileEnd(t, k, j) \in BoundEnd
<1>1. t.cells \in Seq([id : Id, rpc : Rpc]) /\ t.links \in Seq(Link)
  BY DatacenterAssumption
<1>2. /\ \A k \in 1..Len(t.cells) : t.cells[k] \in [id : Id, rpc : Rpc]
      /\ Len(t.links) \in Nat /\ Len(t.cells) \in Nat
      /\ DOMAIN t.links = 1..Len(t.links) /\ DOMAIN t.cells = 1..Len(t.cells)
  <2>1. \A S : \A s \in Seq(S) :
          /\ \A k \in 1..Len(s) : s[k] \in S
          /\ Len(s) \in Nat /\ DOMAIN s = 1..Len(s)
    OBVIOUS
  <2> QED
    BY <1>1, <2>1
<1>3. /\ LinkCalls(t) \in Seq(CallRecord) /\ AddCalls(t) \in Seq(CallRecord)
      /\ Len(AddCalls(t)) = Len(t.cells)
      /\ \A k \in DOMAIN LinkCalls(t) : LinkCalls(t)[k].op = "link"
      /\ \A k \in 1..Len(t.cells) :
           /\ AddCalls(t)[k].op = "add"
           /\ AddCalls(t)[k].id = t.cells[k].id /\ AddCalls(t)[k].rpc = t.cells[k].rpc
  BY FileCalls
<1>4. DOMAIN LinkCalls(t) = DOMAIN t.links /\ Len(LinkCalls(t)) = Len(t.links)
  <2>1. DOMAIN LinkCalls(t) = 1..Len(t.links)
    BY <1>2 DEF LinkCalls
  <2> QED
    BY <1>2, <1>3, <2>1
<1>5. \A u, v \in Seq(CallRecord) :
        /\ u \o v \in Seq(CallRecord) /\ Len(u \o v) = Len(u) + Len(v)
        /\ \A k \in 1..Len(u) : (u \o v)[k] = u[k]
        /\ \A k \in 1..Len(v) : (u \o v)[Len(u) + k] = v[k]
  OBVIOUS
<1>6. \A k \in 1..Len(t.links) :
        LinkCalls(t)[k] \in CallRecord /\ LinkCalls(t)[k].op = "link"
  BY <1>2, <1>3, <1>4
<1>7. \A k \in 1..Len(t.links) : LinkCalls(t)[k].ends \in BoundEnd \X BoundEnd
  BY <1>6 DEF CallRecord
<1>8. \A k \in 1..Len(t.links), j \in 1..2 : FileEnd(t, k, j) \in BoundEnd
  BY <1>7 DEF FileEnd
<1>9. /\ Plan(t) \in Seq(CallRecord) /\ Len(Plan(t)) = Len(t.cells) + Len(t.links)
      /\ \A k \in 1..Len(t.cells) : Plan(t)[k] = AddCalls(t)[k]
      /\ \A k \in 1..Len(t.links) : Plan(t)[Len(t.cells) + k] = LinkCalls(t)[k]
  <2> DEFINE a == AddCalls(t)
             b == LinkCalls(t)
  <2>1. Plan(t) = a \o b
    BY DEF Plan
  <2>2. /\ a \in Seq(CallRecord) /\ b \in Seq(CallRecord)
        /\ Len(a) = Len(t.cells) /\ Len(b) = Len(t.links)
    BY <1>3, <1>4
  <2> HIDE DEF a, b
  <2>3. /\ a \o b \in Seq(CallRecord) /\ Len(a \o b) = Len(a) + Len(b)
        /\ \A k \in 1..Len(a) : (a \o b)[k] = a[k]
        /\ \A k \in 1..Len(b) : (a \o b)[Len(a) + k] = b[k]
    BY <1>5, <2>2
  <2>4. /\ Plan(t) \in Seq(CallRecord) /\ Len(Plan(t)) = Len(t.cells) + Len(t.links)
        /\ \A k \in 1..Len(t.cells) : Plan(t)[k] = a[k]
        /\ \A k \in 1..Len(t.links) : Plan(t)[Len(t.cells) + k] = b[k]
    BY <2>1, <2>2, <2>3
  <2> QED
    BY <2>4 DEF a, b
<1>10. \A k \in 1..Len(t.cells) : t.cells[k].id \in Id /\ t.cells[k].rpc \in Rpc
  BY <1>2
<1> QED
  BY <1>2, <1>3, <1>6, <1>8, <1>9, <1>10

LEMMA ReversePair ==
  ASSUME NEW x \in Nat, NEW y \in Nat
  PROVE  Reverse(<<x, y>>) = <<y, x>>
<1>1. Len(<<x, y>>) = 2
  OBVIOUS
<1>2. Reverse(<<x, y>>) = [i \in 1..2 |-> <<x, y>>[(2 - i) + 1]]
  BY <1>1 DEF Reverse
<1>3. \A i \in 1..2 : <<x, y>>[(2 - i) + 1] = <<y, x>>[i]
  OBVIOUS
<1>4. <<y, x>> = [i \in 1..2 |-> <<y, x>>[i]]
  OBVIOUS
<1> QED
  BY <1>2, <1>3, <1>4

LEMMA DefaultFacts ==
  ASSUME NEW k \in Nat \ {0}
  PROVE  LET d == DefaultPorts(k - 1) IN
         /\ d = <<2 * k + 4998, 2 * k + 4999>>
         /\ Reverse(d) = <<2 * k + 4999, 2 * k + 4998>>
<1>1. 5000 + 2 * (k - 1) = 2 * k + 4998 /\ 5001 + 2 * (k - 1) = 2 * k + 4999
  OBVIOUS
<1>2. DefaultPorts(k - 1) = <<2 * k + 4998, 2 * k + 4999>>
  BY <1>1 DEF DefaultPorts
<1>3. 2 * k + 4998 \in Nat /\ 2 * k + 4999 \in Nat
  OBVIOUS
<1> QED
  BY <1>2, <1>3, ReversePair

\* The ends as the file writes them.
LEMMA FileEnds ==
  ASSUME NEW t \in Topology, NEW k \in 1..Len(t.links)
  PROVE  LET l == t.links[k]
             d == DefaultPorts(k - 1)
         IN /\ FileEnd(t, k, 1).id = l.end1.id /\ FileEnd(t, k, 1).name = l.end1.name
            /\ FileEnd(t, k, 2).id = l.end2.id /\ FileEnd(t, k, 2).name = l.end2.name
            /\ FileEnd(t, k, 1).addr = IF l.addrs = None THEN d ELSE l.addrs[1]
            /\ FileEnd(t, k, 2).addr = IF l.addrs = None THEN Reverse(d) ELSE l.addrs[2]
<1>1. DOMAIN t.links = 1..Len(t.links)
  BY FileFacts
<1>2. LinkCalls(t)[k] = LinkCall(t.links[k], k)
  BY <1>1 DEF LinkCalls
<1> QED
  BY <1>2 DEF FileEnd, LinkCall

LEMMA FileEndsWellFormed ==
  ASSUME NEW t \in Topology, WellGiven(t), NEW k \in 1..Len(t.links), NEW j \in 1..2
  PROVE  WellFormed(FileEnd(t, k, j).addr)
<1> DEFINE l == t.links[k]
           d == DefaultPorts(k - 1)
<1>1. /\ t.links \in Seq(Link) /\ Len(t.links) \in Nat /\ DOMAIN t.links = 1..Len(t.links)
      /\ l \in Link
  <2>1. t.links \in Seq(Link)
    BY DatacenterAssumption
  <2> QED
    BY <2>1
<1>2. CASE l.addrs = None
  <2>1. Len(d) = 2 /\ Len(Reverse(d)) = 2
    <3>1. d = <<2 * k + 4998, 2 * k + 4999>> /\ Reverse(d) = <<2 * k + 4999, 2 * k + 4998>>
      BY DefaultFacts, <1>1
    <3> HIDE DEF d
    <3> QED
      BY <3>1
  <2> HIDE DEF d, l
  <2> QED
    BY <1>2, <2>1, FileEnds DEF WellFormed, d, l
<1>3. CASE l.addrs # None
  <2>1. l.addrs \in Address \X Address
    BY <1>1, <1>3 DEF Link
  <2>2. {l.addrs[1], l.addrs[2]} \subseteq Range(l.addrs)
    BY <2>1 DEF Range
  <2>3. Range(l.addrs) \subseteq GivenAddresses(t)
    BY <1>1, <1>3 DEF GivenAddresses
  <2>4. WellFormed(l.addrs[1]) /\ WellFormed(l.addrs[2])
    BY <2>2, <2>3 DEF WellGiven
  <2> QED
    BY <1>3, <2>4, FileEnds
<1> QED
  BY <1>2, <1>3

\* The call that is to be made next, and what is left after it.
LEMMA NextCall ==
  ASSUME TypeOK, Loading, PlanOK, todo # <<>>
  PROVE  /\ Head(todo) = Plan(file)[Finished + 1]
         /\ Finished \in Nat /\ Finished + 1 \in 1..(Len(file.cells) + Len(file.links))
         /\ Finished + 1 <= Len(file.cells) => Head(todo).op = "add"
         /\ Finished + 1 > Len(file.cells) =>
              /\ Head(todo).op = "link"
              /\ Finished + 1 - Len(file.cells) \in 1..Len(file.links)
              /\ Head(todo) = LinkCalls(file)[Finished + 1 - Len(file.cells)]
         /\ \A k \in DOMAIN Tail(todo) : Tail(todo)[k] = Plan(file)[Finished + 1 + k]
         /\ Len(Tail(todo)) = Len(todo) - 1
<1>1. file \in Topology
  BY DEF TypeOK, Loading
<1>2. todo \in Seq(CallRecord) /\ Len(todo) \in Nat \ {0} /\ DOMAIN todo = 1..Len(todo)
  BY DEF TypeOK
<1>3. Head(todo) = todo[1] /\ Len(Tail(todo)) = Len(todo) - 1
      /\ \A k \in DOMAIN Tail(todo) : k \in Nat /\ k + 1 \in DOMAIN todo /\ Tail(todo)[k] = todo[k + 1]
  <2>1. \A u \in Seq(CallRecord) : u # <<>> =>
          Len(Tail(u)) = Len(u) - 1 /\ DOMAIN Tail(u) \subseteq Nat
    OBVIOUS
  <2> QED
    BY <1>2, <2>1, HeadFacts
<1> DEFINE c == Len(file.cells)
           l == Len(file.links)
<1>4. c \in Nat /\ l \in Nat
  BY <1>1, FileFacts
<1>5. /\ \A k \in 1..c : Plan(file)[k].op = "add"
      /\ \A k \in 1..l : Plan(file)[c + k] = LinkCalls(file)[k] /\ LinkCalls(file)[k].op = "link"
  BY <1>1, FileFacts
<1>6. /\ Len(todo) <= c + l /\ Finished = c + l - Len(todo)
      /\ \A k \in DOMAIN todo : todo[k] = Plan(file)[Finished + k]
  BY DEF PlanOK, Finished
<1> HIDE DEF c, l
<1>7. Finished \in Nat /\ Finished + 1 \in 1..(c + l)
  BY <1>2, <1>4, <1>6
<1>8. Head(todo) = Plan(file)[Finished + 1]
  BY <1>2, <1>3, <1>6
<1>9. Finished + 1 <= c => Head(todo).op = "add"
  BY <1>5, <1>7, <1>8
<1>10. ASSUME Finished + 1 > c
       PROVE  /\ Head(todo).op = "link"
              /\ Finished + 1 - c \in 1..l
              /\ Head(todo) = LinkCalls(file)[Finished + 1 - c]
  <2>1. Finished + 1 - c \in 1..l /\ c + (Finished + 1 - c) = Finished + 1
    BY <1>4, <1>7, <1>10
  <2> QED
    BY <1>5, <1>8, <2>1
<1>11. \A k \in DOMAIN Tail(todo) : Tail(todo)[k] = Plan(file)[Finished + 1 + k]
  <2> TAKE k \in DOMAIN Tail(todo)
  <2>1. k \in Nat /\ Tail(todo)[k] = Plan(file)[Finished + (k + 1)]
    BY <1>3, <1>6
  <2>2. Finished + (k + 1) = Finished + 1 + k
    BY <1>7, <2>1
  <2> QED
    BY <2>1, <2>2
<1> QED
  BY <1>3, <1>7, <1>8, <1>9, <1>10, <1>11 DEF c, l

\* The steps after which a loading is still going on.
LEMMA LoadingSteps ==
  ASSUME TypeOK, LoadOK, [Next]_vars, Loading'
  PROVE  \/ Load
         \/ /\ Loading /\ UNCHANGED <<file, running>>
            /\ \/ UNCHANGED vars
               \/ Spawn \/ BindEnd
               \/ Contact /\ Done
               \/ \E p \in DOMAIN proc : Starts(p) \/ Exits(p)
<1>1. CASE UNCHANGED vars
  BY <1>1 DEF vars, line, Loading, WellGiven, GivenAddresses
<1>2. ASSUME NEW p \in DOMAIN proc, Starts(p) \/ Exits(p)
      PROVE  Loading /\ UNCHANGED <<file, running>>
  BY <1>2 DEF Starts, Exits, line, Loading, WellGiven, GivenAddresses
<1>3. ASSUME NEW p \in DOMAIN proc, Dies(p)
      PROVE  FALSE
  BY <1>3 DEF Dies, Loading, TypeOK
<1>4. ~(TypeAdd \/ TypeLink \/ TypeUnlink \/ TypeRemove \/ TypeTeardown \/ Mistype)
  BY DEF TypeAdd, TypeLink, TypeUnlink, TypeRemove, TypeTeardown, Command, Mistype, Loading
<1>5. ~(Quit \/ Interrupt)
  BY DEF Quit, Interrupt, TerminateAll, Loading
<1>6. CASE Call \/ ShutDownInterrupted
  <2>1. /\ todo # <<>> /\ UNCHANGED <<file, running, faults>>
        /\ Done \/ Failed \/ GoOn
    BY <1>6 DEF Call, At, Spawn, Contact, Refused, Unreachable, BindEnd, UnbindEnd,
       ShutDown, Terminate, ShutDownInterrupted, ForgetProxy, Done, Failed, GoOn
  <2>2. outcome # "failed"
    BY <2>1 DEF LoadOK
  <2>3. Loading
    BY <2>1, <2>2 DEF Loading, WellGiven, GivenAddresses
  <2>4. PlanOK
    BY <2>3 DEF LoadOK, PlanHolds
  <2>5. Head(todo).op \in {"add", "link"}
    <3>1. file \in Topology
      BY <2>3 DEF TypeOK, Loading
    <3>2. Finished \in Nat /\ Len(file.cells) \in Nat
      BY <2>1, <2>3, <2>4, <3>1, NextCall, FileFacts
    <3>3. Finished + 1 <= Len(file.cells) \/ Finished + 1 > Len(file.cells)
      BY <3>2
    <3> QED
      BY <2>1, <2>3, <2>4, <3>3, NextCall
  <2>6. ~Failed
    BY <2>1 DEF Failed, Loading
  <2>7. ~(Refused \/ Unreachable \/ UnbindEnd \/ ShutDown \/ Terminate \/ ShutDownInterrupted)
    BY <2>5, <2>6 DEF Refused, Unreachable, UnbindEnd, ShutDown, Terminate, ShutDownInterrupted,
       ForgetProxy, At
  <2>8. Contact => Done
    BY <2>6 DEF Contact
  <2> QED
    BY <1>6, <2>1, <2>3, <2>7, <2>8 DEF Call
<1> QED
  BY <1>1, <1>2, <1>3, <1>4, <1>5, <1>6 DEF Next, Operator

LEMMA ProcessFacts ==
  ASSUME TypeOK
  PROVE  \A p \in DOMAIN proc :
           /\ proc[p] \in Process /\ p # 0
           /\ \A n \in Name : proc[p].ports[n] \in Address /\ WellFormed(proc[p].ports[n])
<1>1. proc \in Seq(Process)
  BY DEF TypeOK
<1>2. \A p \in DOMAIN proc : proc[p] \in Process
  BY <1>1
<1> QED
  BY <1>2, EntryFacts DEF TypeOK, Process

\* The call is done.
LEMMA PlanGoesOn ==
  ASSUME TypeOK, Loading, PlanOK, todo # <<>>, file' = file, todo' = Tail(todo)
  PROVE  PlanOK' /\ Finished' = Finished + 1
<1>1. /\ Len(Tail(todo)) = Len(todo) - 1
      /\ \A k \in DOMAIN Tail(todo) : Tail(todo)[k] = Plan(file)[Finished + 1 + k]
  BY NextCall
<1>2. file \in Topology /\ Len(todo) \in Nat
  BY DEF TypeOK, Loading
<1>3. Len(file.cells) \in Nat /\ Len(file.links) \in Nat
  BY <1>2, FileFacts
<1>4. /\ file' = file /\ Len(todo') = Len(todo) - 1
      /\ Len(todo) <= Len(file.cells) + Len(file.links)
  BY <1>1 DEF PlanOK
<1>5. \A c, l, x \in Nat : c + l - (x - 1) = c + l - x + 1 /\ (x <= c + l => x - 1 <= c + l)
  OBVIOUS
<1>6. Finished' = Finished + 1
  <2>1. Finished' = Len(file.cells) + Len(file.links) - (Len(todo) - 1)
    BY <1>4 DEF Finished
  <2> QED
    BY <1>2, <1>3, <1>5, <2>1 DEF Finished
<1>7. Len(todo') <= Len(file.cells) + Len(file.links)
  BY <1>2, <1>3, <1>4, <1>5
<1> QED
  BY <1>1, <1>4, <1>6, <1>7 DEF PlanOK

\* Steps that leave the plan where it is, the tables and the ports as they are,
\* and each cell in service that was.
LEMMA QuietSteps ==
  ASSUME TypeOK, Loading, PlanHolds, UNCHANGED <<tables, line>>,
         DOMAIN proc' = DOMAIN proc,
         \A p \in DOMAIN proc :
           /\ proc'[p].ports = proc[p].ports
           /\ proc[p].phase = "serving" => proc'[p].phase = "serving"
           /\ proc[p].phase = "dead" => proc'[p].phase = "dead"
  PROVE  PlanHolds'
<1>1. UNCHANGED <<processes, cells, todo, step, file>>
  BY DEF tables, line
<1>2. Finished' = Finished
  BY <1>1 DEF Finished
<1>3. PlanOK'
  BY <1>1, <1>2 DEF PlanHolds, PlanOK
<1>4. \A i \in Id : Up(i) => Up(i)'
  <2> TAKE i \in Id
  <2>1. processes[i] # 0 => processes[i] \in DOMAIN proc
    BY EntryFacts DEF Occupied
  <2> QED
    BY <1>1, <2>1 DEF Up
<1>5. file \in Topology
  BY DEF TypeOK, Loading
<1>6. /\ DOMAIN file.cells = 1..Len(file.cells) /\ DOMAIN file.links = 1..Len(file.links)
      /\ \A k \in DOMAIN file.cells : file.cells[k].id \in Id
      /\ \A k \in DOMAIN file.links, j \in 1..2 : FileEnd(file, k, j) \in BoundEnd
  BY <1>5, FileFacts
<1>7. CellsUp'
  BY <1>1, <1>2, <1>4, <1>6 DEF PlanHolds, CellsUp
<1>8. ASSUME NEW e \in BoundEnd, Bound(e)
      PROVE  Bound(e)'
  <2>1. e.id \in Id /\ Up(e.id) /\ Up(e.id)'
    BY <1>4, <1>8 DEF Bound, BoundEnd
  <2>2. processes[e.id] \in DOMAIN proc
    BY <2>1, EntryFacts DEF Up, Occupied
  <2> QED
    BY <1>1, <1>8, <2>1, <2>2 DEF Bound
<1>9. LinksBound'
  BY <1>1, <1>2, <1>6, <1>8 DEF PlanHolds, LinksBound, EndDone, Bound
<1>10. PortsAlone'
  BY <1>1 DEF PlanHolds, PortsAlone, Alone, Live
<1> QED
  BY <1>3, <1>7, <1>9, <1>10 DEF PlanHolds

\* A cell is started under an id that nothing uses.
LEMMA LoadSpawn ==
  ASSUME TypeOK, PendingOK, Loading, PlanHolds, Consistent(file), Spawn
  PROVE  PlanHolds'
<1> DEFINE i == Head(todo).id
           new == Len(proc) + 1
<1>1. /\ i \in Id /\ i \notin Occupied
      /\ processes' = [processes EXCEPT ![i] = new]
      /\ DOMAIN proc' = 1..new
      /\ \A p \in 1..Len(proc) : proc'[p] = proc[p]
      /\ \A j \in Occupied : processes'[j] = processes[j] /\ proc'[processes[j]] = proc[processes[j]]
  BY SpawnFree
<1>2. /\ todo # <<>> /\ Head(todo).op = "add" /\ step = 1
      /\ UNCHANGED <<cells, todo, file>>
  BY DEF Spawn, At, GoOn
<1>3. \A n \in Name : proc'[new].ports[n] = Unbound
  <2>1. proc' = Append(proc, [id |-> Head(todo).id, rpc |-> Head(todo).rpc,
                              phase |-> "starting", ports |-> NoPorts])
    BY DEF Spawn
  <2>2. proc'[new] = [id |-> Head(todo).id, rpc |-> Head(todo).rpc,
                      phase |-> "starting", ports |-> NoPorts]
    <3>1. \A u \in Seq(Process) : \A x : Append(u, x)[Len(u) + 1] = x
      OBVIOUS
    <3> QED
      BY <2>1, <3>1 DEF TypeOK
  <2> QED
    BY <2>2 DEF NoPorts
<1>4. file \in Topology /\ processes \in [Id -> 0..Len(proc)]
  BY DEF TypeOK, Loading
<1>5. DOMAIN proc = 1..Len(proc) /\ Len(proc) \in Nat
  BY EntryFacts
<1> HIDE DEF i, new
<1>6. Finished' = Finished /\ PlanOK'
  BY <1>2 DEF PlanHolds, PlanOK, Finished
<1>7. \A j \in Id : Up(j) => Up(j)'
  BY <1>1 DEF Up, Occupied
<1>8. /\ DOMAIN file.cells = 1..Len(file.cells) /\ DOMAIN file.links = 1..Len(file.links)
      /\ Len(file.cells) \in Nat
      /\ \A k \in DOMAIN file.cells : file.cells[k].id \in Id
      /\ \A k \in DOMAIN file.links, j \in 1..2 : FileEnd(file, k, j) \in BoundEnd
  BY <1>4, FileFacts
<1>9. CellsUp'
  BY <1>2, <1>6, <1>7, <1>8 DEF PlanHolds, CellsUp
<1>10. LinksBound'
  <2>1. Finished \in Nat /\ Finished + 1 <= Len(file.cells)
    <3>1. Finished \in Nat /\ ~(Finished + 1 > Len(file.cells))
      BY <1>2, NextCall DEF PlanHolds
    <3> QED
      BY <1>8, <3>1
  <2>2. \A k \in DOMAIN file.links, j \in 1..2 : ~EndDone(k, j)'
    BY <1>2, <1>6, <1>8, <2>1 DEF EndDone
  <2> QED
    BY <1>2, <2>2 DEF LinksBound
<1>11. ASSUME NEW k \in DOMAIN file.links, NEW j \in 1..2
       PROVE  Alone(FileEnd(file, k, j))'
  <2> DEFINE e == FileEnd(file, k, j)
  <2>1. e \in BoundEnd /\ Alone(e) /\ (Len(e.addr) = 2 => e.addr[1] # 0)
    BY <1>8 DEF PlanHolds, PortsAlone, Consistent
  <2>2. e' = e
    BY <1>2
  <2> HIDE DEF e
  <2>3. e.id \in Id
    BY <2>1 DEF BoundEnd
  <2> SUFFICES ASSUME Len(e.addr) = 2, NEW p \in DOMAIN proc', NEW n \in Name,
                      Live(p)', Len(proc'[p].ports[n]) = 2, proc'[p].ports[n][1] = e.addr[1]
               PROVE  p = processes'[e.id] /\ n = e.name
    BY <2>2 DEF Alone, e
  <2>4. p # new
    BY <1>3, <2>1 DEF Unbound
  <2>5. p \in DOMAIN proc /\ proc'[p] = proc[p]
    BY <1>1, <1>5, <2>4 DEF new
  <2>6. p = processes[e.id] /\ n = e.name
    BY <2>1, <2>5 DEF Alone, Live
  <2>7. e.id \in Occupied
    BY <1>5, <2>3, <2>5, <2>6 DEF Occupied
  <2> QED
    BY <1>1, <2>6, <2>7
<1> QED
  BY <1>2, <1>6, <1>9, <1>10, <1>11 DEF PlanHolds, PortsAlone

\* It answers, and is the one that was started.
LEMMA LoadContact ==
  ASSUME Careful, TypeOK, EntriesOK, ProxiesOK, Loading, PlanHolds, Contact, Done
  PROVE  PlanHolds'
<1> DEFINE i == Head(todo).id
           r == Head(todo).rpc
<1>1. /\ todo # <<>> /\ Head(todo).op = "add" /\ step = 2
      /\ UNCHANGED <<proc, processes, file>> /\ todo' = Tail(todo) /\ step' = 1
  BY DEF Contact, At, Done
<1>2. file \in Topology /\ cells \in [Id -> Rpc \cup {None}]
  BY DEF TypeOK, Loading
<1>3. /\ DOMAIN file.cells = 1..Len(file.cells) /\ DOMAIN file.links = 1..Len(file.links)
      /\ Len(file.cells) \in Nat
      /\ \A k \in DOMAIN file.cells : file.cells[k].id \in Id
      /\ \A k \in DOMAIN file.links, j \in 1..2 : FileEnd(file, k, j) \in BoundEnd
  BY <1>2, FileFacts
<1>4. Finished \in Nat /\ Finished + 1 \in 1..Len(file.cells)
  <2>1. Finished \in Nat /\ ~(Finished + 1 > Len(file.cells))
    BY <1>1, NextCall DEF PlanHolds
  <2> QED
    BY <1>3, <2>1
<1>5. i = file.cells[Finished + 1].id /\ r = file.cells[Finished + 1].rpc
  <2>1. Head(todo) = Plan(file)[Finished + 1]
    BY <1>1, NextCall DEF PlanHolds
  <2>2. /\ Plan(file)[Finished + 1].id = file.cells[Finished + 1].id
        /\ Plan(file)[Finished + 1].rpc = file.cells[Finished + 1].rpc
    BY <1>2, <1>4, FileFacts
  <2> QED
    BY <2>1, <2>2
<1>6. i \in Id /\ r \in Rpc
  BY <1>1, HeadFacts
<1>7. /\ cells' = [cells EXCEPT ![i] = r]
      /\ Up(i)
  <2>1. CASE Failed /\ UNCHANGED cells
    <3>1. outcome' = "failed"
      BY <2>1 DEF Failed, Loading
    <3>2. outcome' \in {"loaded", outcome} /\ outcome # "failed"
      BY DEF Contact, Done, Loading
    <3> QED
      BY <3>1, <3>2
  <2>2. CASE Servers(r) # {} /\ cells' = [cells EXCEPT ![i] = r]
    <3>1. PICK q \in Servers(r) : TRUE
      BY <2>2
    <3>2. q \in DOMAIN proc /\ proc[q].rpc = r /\ proc[q].phase = "serving" /\ Live(q)
      BY <3>1 DEF Servers, Holders, Live
    <3>3. processes[proc[q].id] = q /\ proc[q].id \in Occupied
      BY <3>2, EntryFacts DEF EntriesOK, Occupied
    <3>4. i \in Occupied /\ proc[processes[i]].rpc = r
      BY <1>1, <1>6 DEF ProxiesOK, Occupied
    <3>5. proc[q].id = i
      BY <3>2, <3>3, <3>4 DEF EntriesOK
    <3> QED
      BY <2>2, <3>2, <3>3, <3>5 DEF Up, Occupied
  <2> QED
    BY <2>1, <2>2 DEF Contact
<1> HIDE DEF i, r
<1>8. PlanOK' /\ Finished' = Finished + 1
  BY <1>1, PlanGoesOn DEF PlanHolds
<1>9. ASSUME NEW k \in DOMAIN file.cells, k <= Finished + 1
      PROVE  cells'[file.cells[k].id] = file.cells[k].rpc /\ Up(file.cells[k].id)
  <2>1. CASE k = Finished + 1
    BY <1>2, <1>5, <1>6, <1>7, <2>1
  <2>2. CASE k # Finished + 1
    <3>1. k <= Finished
      BY <1>3, <1>4, <1>9, <2>2
    <3>2. file.cells[k].id # i
      BY <1>2, <1>3, <1>4, <1>5, <2>2, CarefulAssumption
    <3> QED
      BY <1>2, <1>3, <1>7, <3>1, <3>2 DEF PlanHolds, CellsUp
  <2> QED
    BY <2>1, <2>2
<1>10. CellsUp'
  BY <1>1, <1>8, <1>9 DEF CellsUp, Up
<1>11. LinksBound'
  <2>1. \A k \in DOMAIN file.links, j \in 1..2 : ~EndDone(k, j)'
    BY <1>1, <1>3, <1>4, <1>8 DEF EndDone
  <2> QED
    BY <1>1, <2>1 DEF LinksBound
<1>12. PortsAlone'
  BY <1>1 DEF PlanHolds, PortsAlone, Alone, Live
<1> QED
  BY <1>8, <1>10, <1>11, <1>12 DEF PlanHolds

\* An end is bound at its own cell, and at no port that another end has.
LEMMA LoadBind ==
  ASSUME TypeOK, EntriesOK, ProxiesOK, Loading, PlanHolds, Consistent(file), BindEnd
  PROVE  PlanHolds'
<1> DEFINE e == ThisEnd
           m == Finished + 1 - Len(file.cells)
<1>1. /\ todo # <<>> /\ Head(todo).op = "link" /\ step \in 1..2 /\ cells[e.id] # None
      /\ UNCHANGED <<tables, file>>
      /\ IF step = 1 THEN GoOn ELSE Done
  BY DEF BindEnd, At, Done, GoOn
<1>2. file \in Topology
  BY DEF TypeOK, Loading
<1>3. /\ DOMAIN file.cells = 1..Len(file.cells) /\ DOMAIN file.links = 1..Len(file.links)
      /\ Len(file.cells) \in Nat /\ Len(file.links) \in Nat
      /\ \A k \in DOMAIN file.cells : file.cells[k].id \in Id
      /\ \A k \in DOMAIN file.links, j \in 1..2 : FileEnd(file, k, j) \in BoundEnd
  BY <1>2, FileFacts
<1>4. Finished \in Nat /\ m \in 1..Len(file.links) /\ Head(todo) = LinkCalls(file)[m]
  <2>1. Finished \in Nat /\ ~(Finished + 1 <= Len(file.cells))
    BY <1>1, NextCall DEF PlanHolds
  <2>2. Finished + 1 > Len(file.cells)
    BY <1>3, <2>1
  <2> QED
    BY <1>1, <2>1, <2>2, NextCall DEF PlanHolds
<1>5. e = FileEnd(file, m, step)
  BY <1>4 DEF ThisEnd, FileEnd
<1>6. e \in BoundEnd /\ WellFormed(e.addr)
  BY <1>1, <1>2, <1>3, <1>4, <1>5, FileEndsWellFormed DEF Loading
<1>7. e.id \in Id /\ e.name \in Name /\ e.addr \in Address
  BY <1>6 DEF BoundEnd
<1> DEFINE s == processes[e.id]
<1>8. /\ s \in DOMAIN proc /\ proc[s].phase = "serving" /\ e.id \in Occupied
      /\ proc' = [proc EXCEPT ![s].ports[e.name] = e.addr]
  <2>1. PICK p \in Servers(cells[e.id]) :
          proc' = [proc EXCEPT ![p].ports[e.name] = IF WellFormed(e.addr) THEN e.addr ELSE @]
    BY DEF BindEnd
  <2>2. p \in DOMAIN proc /\ proc[p].rpc = cells[e.id] /\ proc[p].phase = "serving" /\ Live(p)
    BY <2>1 DEF Servers, Holders, Live
  <2>3. s # 0 /\ proc[s].rpc = cells[e.id] /\ e.id \in Occupied
    BY <1>1, <1>7 DEF ProxiesOK, Occupied
  <2>4. processes[proc[p].id] = p /\ proc[p].id \in Occupied
    BY <2>2, EntryFacts DEF EntriesOK, Occupied
  <2>5. proc[p].id = e.id
    BY <2>2, <2>3, <2>4 DEF EntriesOK
  <2>6. p = s
    BY <2>4, <2>5
  <2>7. proc' = [proc EXCEPT ![s].ports[e.name] = e.addr]
    BY <1>6, <2>1, <2>6
  <2> QED
    BY <2>2, <2>3, <2>6, <2>7
<1>9. processes \in [Id -> 0..Len(proc)] /\ UNCHANGED <<processes, cells>>
  BY <1>1 DEF TypeOK, tables
<1> HIDE DEF e, m, s
<1>10. /\ DOMAIN proc' = DOMAIN proc
       /\ \A p \in DOMAIN proc :
            /\ proc'[p].phase = proc[p].phase
            /\ \A n \in Name : proc'[p].ports[n] =
                 IF p = s /\ n = e.name THEN e.addr ELSE proc[p].ports[n]
  <2>1. \A p \in DOMAIN proc : proc[p] \in Process
    BY ProcessFacts
  <2>2. DOMAIN proc' = DOMAIN proc
    BY <1>8
  <2>3. \A p \in DOMAIN proc : p # s => proc'[p] = proc[p]
    BY <1>8
  <2>4. proc'[s] = [proc[s] EXCEPT !.ports = [proc[s].ports EXCEPT ![e.name] = e.addr]]
    BY <1>8
  <2>5. proc'[s].phase = proc[s].phase /\ proc'[s].ports = [proc[s].ports EXCEPT ![e.name] = e.addr]
    BY <1>8, <2>1, <2>4 DEF Process
  <2>6. DOMAIN proc[s].ports = Name
    BY <1>8, <2>1 DEF Process
  <2> QED
    BY <1>7, <2>2, <2>3, <2>5, <2>6
<1>11. /\ PlanOK'
       /\ \/ step = 1 /\ step' = 2 /\ Finished' = Finished
          \/ step = 2 /\ step' = 1 /\ Finished' = Finished + 1
  <2>1. CASE step = 1
    <3>1. UNCHANGED <<todo, file>> /\ step' = 2
      BY <1>1, <2>1 DEF GoOn
    <3> QED
      BY <2>1, <3>1 DEF PlanHolds, PlanOK, Finished
  <2>2. CASE step # 1
    <3>1. todo' = Tail(todo) /\ file' = file /\ step' = 1 /\ step = 2
      BY <1>1, <2>2 DEF Done
    <3> QED
      BY <1>1, <3>1, PlanGoesOn DEF PlanHolds
  <2> QED
    BY <2>1, <2>2
<1>12. \A i \in Id : Up(i) => Up(i)'
  <2> TAKE i \in Id
  <2>1. processes[i] # 0 => processes[i] \in DOMAIN proc
    BY EntryFacts DEF Occupied
  <2> QED
    BY <1>9, <1>10, <2>1 DEF Up
<1>13. CellsUp'
  <2>1. ASSUME NEW k \in DOMAIN file.cells, k <= Finished'
        PROVE  k <= Finished
    <3>1. Finished >= Len(file.cells)
      BY <1>3, <1>4 DEF m
    <3> QED
      BY <1>3, <1>4, <2>1, <3>1
  <2> QED
    BY <1>1, <1>3, <1>9, <1>12, <2>1 DEF PlanHolds, CellsUp
<1>14. ASSUME NEW k \in DOMAIN file.links, NEW j \in 1..2, k # m \/ j # step
       PROVE  LET f == FileEnd(file, k, j) IN
              /\ f \in BoundEnd
              /\ e.id # f.id \/ e.name # f.name
              /\ Len(e.addr) = 2 /\ Len(f.addr) = 2 => e.addr[1] # f.addr[1]
  BY <1>1, <1>3, <1>4, <1>5, <1>14 DEF Consistent
<1>15. ASSUME NEW f, f = e
       PROVE  Bound(f)'
  <2>1. proc'[s].phase = "serving" /\ proc'[s].ports[f.name] = f.addr
    <3>1. proc'[s].phase = "serving"
      BY <1>8, <1>10
    <3>2. proc'[s].ports[e.name] = e.addr
      <4>1. s \in DOMAIN proc /\ e.name \in Name
        BY <1>7, <1>8
      <4>2. proc'[s].ports[e.name] =
              IF s = s /\ e.name = e.name THEN e.addr ELSE proc[s].ports[e.name]
        BY <1>10, <4>1
      <4> QED
        BY <4>2
    <3> QED
      BY <1>15, <3>1, <3>2
  <2>2. s # 0 /\ cells[f.id] # None /\ processes[f.id] = s
    BY <1>1, <1>8, <1>15, EntryFacts DEF s
  <2> QED
    BY <1>9, <2>1, <2>2 DEF Bound, Up
<1>16. ASSUME NEW k \in DOMAIN file.links, NEW j \in 1..2, EndDone(k, j)'
       PROVE  \A f : f = FileEnd(file, k, j) => Bound(f)'
  <2> TAKE f
  <2> HAVE f = FileEnd(file, k, j)
  <2>1. CASE k = m /\ j = step
    BY <1>5, <1>15, <2>1
  <2>2. CASE k # m \/ j # step
    <3>1. EndDone(k, j)
      <4>1. \A c, x, y \in Nat : c + y = x + 1 =>
              /\ k \in Nat /\ (c + k <= x + 1 /\ k # y => c + k <= x)
              /\ (c + k = x + 1 => k = y)
        BY <1>3
      <4>2. Len(file.cells) + m = Finished + 1 /\ m \in Nat
        BY <1>3, <1>4 DEF m
      <4>3. k \in Nat /\ (Len(file.cells) + k <= Finished + 1 /\ k # m => Len(file.cells) + k <= Finished)
            /\ (Len(file.cells) + k = Finished + 1 => k = m)
        BY <1>3, <1>4, <4>1, <4>2
      <4>4. CASE step = 1 /\ step' = 2 /\ Finished' = Finished
        BY <1>1, <1>16, <2>2, <4>3, <4>4 DEF EndDone
      <4>5. CASE step = 2 /\ step' = 1 /\ Finished' = Finished + 1
        <5>1. Len(file.cells) + k <= Finished + 1
          BY <1>1, <1>16, <4>5 DEF EndDone
        <5>2. CASE k # m
          BY <4>3, <5>1, <5>2 DEF EndDone
        <5>3. CASE k = m
          <6>1. j = 1
            BY <2>2, <4>5, <5>3
          <6> QED
            BY <4>2, <4>5, <5>3, <6>1 DEF EndDone
        <5> QED
          BY <5>2, <5>3
      <4> QED
        BY <1>11, <4>4, <4>5
    <3>2. Bound(f) /\ f \in BoundEnd /\ (e.id # f.id \/ e.name # f.name)
      BY <1>14, <2>2, <3>1 DEF PlanHolds, LinksBound
    <3>3. f.id \in Id /\ f.name \in Name
      BY <3>2 DEF BoundEnd
    <3>4. Up(f.id) /\ Up(f.id)' /\ f.id \in Occupied
      <4>1. Up(f.id)
        BY <3>2 DEF Bound
      <4>2. Up(f.id)'
        BY <1>12, <3>3, <4>1
      <4>3. f.id \in Occupied
        BY <3>3, <4>1 DEF Up, Occupied
      <4> QED
        BY <4>1, <4>2, <4>3
    <3>5. processes[f.id] # s \/ f.name # e.name
      BY <1>8, <3>2, <3>4 DEF EntriesOK, s
    <3>6. proc'[processes[f.id]].ports[f.name] = proc[processes[f.id]].ports[f.name]
      BY <1>10, <3>3, <3>4, <3>5, EntryFacts
    <3> QED
      BY <1>9, <3>2, <3>4, <3>6 DEF Bound
  <2> QED
    BY <2>1, <2>2
<1>17. LinksBound'
  BY <1>1, <1>16 DEF LinksBound, Bound, Up
<1>18. ASSUME NEW k \in DOMAIN file.links, NEW j \in 1..2
       PROVE  Alone(FileEnd(file, k, j))'
  <2> DEFINE f == FileEnd(file, k, j)
  <2>1. Alone(f)
    BY DEF PlanHolds, PortsAlone
  <2>2. f' = f
    BY <1>1
  <2>3. f = e \/ (Len(e.addr) = 2 /\ Len(f.addr) = 2 => e.addr[1] # f.addr[1])
    BY <1>5, <1>14
  <2> HIDE DEF f
  <2> SUFFICES ASSUME Len(f.addr) = 2, NEW p \in DOMAIN proc, NEW n \in Name,
                      Live(p)', Len(proc'[p].ports[n]) = 2, proc'[p].ports[n][1] = f.addr[1]
               PROVE  p = processes[f.id] /\ n = f.name
    BY <1>9, <1>10, <2>2 DEF Alone, f
  <2>4. CASE p = s /\ n = e.name
    <3>1. f = e
      BY <1>10, <2>3, <2>4
    <3> QED
      BY <2>4, <3>1 DEF s
  <2>5. CASE ~(p = s /\ n = e.name)
    <3>1. proc'[p].ports[n] = proc[p].ports[n] /\ Live(p)
      BY <1>10, <2>5 DEF Live
    <3> QED
      BY <2>1, <3>1 DEF Alone
  <2> QED
    BY <2>4, <2>5
<1>19. PortsAlone'
  BY <1>1, <1>18 DEF PortsAlone
<1> QED
  BY <1>11, <1>13, <1>17, <1>19 DEF PlanHolds

\* At first nothing is done, and no live cell uses a port of the file.
LEMMA LoadBegins ==
  ASSUME Careful, TypeOK, NEW t \in Topology, Consistent(t),
         \A k \in DOMAIN t.links, j \in 1..2 : FreeEnd(LinkCalls(t)[k].ends[j]),
         Command(AddCalls(t) \o LinkCalls(t), t)
  PROVE  PlanHolds'
<1>1. /\ Len(t.cells) \in Nat /\ DOMAIN t.cells = 1..Len(t.cells)
      /\ Len(t.links) \in Nat /\ DOMAIN t.links = 1..Len(t.links)
      /\ Plan(t) \in Seq(CallRecord) /\ Len(Plan(t)) = Len(t.cells) + Len(t.links)
      /\ \A k \in 1..Len(t.links), j \in 1..2 : FileEnd(t, k, j) \in BoundEnd
  BY FileFacts
<1>2. todo' = Plan(t) /\ file' = t /\ step' = 1 /\ UNCHANGED <<proc, tables>>
  BY DEF Command, Plan
<1>3. Finished' = 0
  <2>1. Len(todo') = Len(t.cells) + Len(t.links)
    BY <1>1, <1>2
  <2>2. Finished' = Len(t.cells) + Len(t.links) - (Len(t.cells) + Len(t.links))
    BY <1>2, <2>1 DEF Finished
  <2> QED
    BY <1>1, <2>2
<1>4. PlanOK'
  <2>1. DOMAIN Plan(t) \subseteq Nat
    <3>1. \A u \in Seq(CallRecord) : DOMAIN u \subseteq Nat
      OBVIOUS
    <3> QED
      BY <1>1, <3>1
  <2>2. \A k \in DOMAIN todo' : todo'[k] = Plan(file')[Finished' + k]
    BY <1>2, <1>3, <2>1
  <2>3. Len(todo') <= Len(file'.cells) + Len(file'.links)
    <3>1. Len(todo') = Len(t.cells) + Len(t.links) /\ file' = t
      BY <1>1, <1>2
    <3>2. \A c, l \in Nat : c + l <= c + l
      OBVIOUS
    <3> QED
      BY <1>1, <3>1, <3>2
  <2> QED
    BY <2>2, <2>3 DEF PlanOK
<1>5. CellsUp' /\ LinksBound'
  <2>1. \A k \in DOMAIN t.cells : ~(k <= Finished')
    BY <1>1, <1>3
  <2>2. \A k \in DOMAIN t.links, j \in 1..2 : ~EndDone(k, j)'
    <3>1. \A k \in DOMAIN t.links : ~(Len(t.cells) + k <= Finished')
      BY <1>1, <1>3
    <3> QED
      BY <1>2, <3>1 DEF EndDone
  <2> QED
    BY <1>2, <2>1, <2>2 DEF CellsUp, LinksBound
<1>6. ASSUME NEW k \in DOMAIN t.links, NEW j \in 1..2
      PROVE  Alone(FileEnd(t, k, j))'
  <2> DEFINE e == FileEnd(t, k, j)
  <2>1. FreeAddress(e.addr) /\ (Len(e.addr) = 2 => e.addr[1] # 0)
    BY DEF FreeEnd, FileEnd, Consistent
  <2> HIDE DEF e
  <2> SUFFICES ASSUME Len(e.addr) = 2, NEW p \in DOMAIN proc, NEW n \in Name,
                      Live(p), Len(proc[p].ports[n]) = 2, proc[p].ports[n][1] = e.addr[1]
               PROVE  FALSE
    BY <1>2 DEF Alone, Live, e
  <2> DEFINE used == proc[p].ports[n]
  <2>2. used # <<>>
    OBVIOUS
  <2>3. used # Unbound
    BY <2>1 DEF Unbound
  <2>4. used \in InUse
    BY <2>2, <2>3 DEF InUse, Live
  <2> QED
    BY <2>1, <2>4 DEF FreeAddress
<1>7. PortsAlone'
  BY <1>2, <1>6 DEF PortsAlone
<1> QED
  BY <1>4, <1>5, <1>7 DEF PlanHolds

LEMMA LoadStep ==
  ASSUME Careful, \A t \in Topology : WellGiven(t) => Consistent(t),
         TypeOK, IInv, LoadOK, [Next]_vars
  PROVE  LoadOK'
<1>1. outcome' \in {"loaded", "failed"} => todo' = <<>>
  <2>1. CASE UNCHANGED line
    BY <2>1 DEF line, LoadOK
  <2>2. CASE Call \/ ShutDownInterrupted
    <3>1. todo # <<>> /\ (Done \/ Failed \/ GoOn)
      BY <2>2 DEF Call, At, Spawn, Contact, Refused, Unreachable, BindEnd, UnbindEnd,
         ShutDown, Terminate, ShutDownInterrupted, ForgetProxy
    <3>2. outcome \notin {"loaded", "failed"}
      BY <3>1 DEF LoadOK
    <3>3. Len(todo) = 1 => Tail(todo) = <<>>
      <4>1. \A u \in Seq(CallRecord) : Len(u) = 1 => Tail(u) \in Seq(CallRecord) /\ Len(Tail(u)) = 0
        OBVIOUS
      <4>2. \A u \in Seq(CallRecord) : Len(u) = 0 => u = <<>>
        OBVIOUS
      <4> QED
        BY <4>1, <4>2 DEF TypeOK
    <3> QED
      BY <3>1, <3>2, <3>3 DEF Done, Failed, GoOn
  <2>3. CASE TypeAdd \/ TypeLink \/ TypeUnlink \/ TypeRemove \/ TypeTeardown \/ Load \/ Mistype
    BY <2>3 DEF TypeAdd, TypeLink, TypeUnlink, TypeRemove, TypeTeardown, Load, Command, Mistype
  <2>4. CASE Quit \/ Interrupt
    BY <2>4 DEF Quit, Interrupt, TerminateAll
  <2>5. CASE \E p \in DOMAIN proc : Starts(p) \/ Exits(p) \/ Dies(p)
    BY <2>1, <2>5 DEF Starts, Exits, Dies
  <2> QED
    BY <2>1, <2>2, <2>3, <2>4, <2>5 DEF Next, Operator, vars
<1>2. outcome' = "loaded" => file' # None
  <2>1. CASE UNCHANGED <<outcome, file>>
    BY <2>1 DEF LoadOK
  <2>2. CASE Done \/ Failed
    BY <2>2 DEF Done, Failed, LoadOK
  <2>3. CASE outcome' = "none"
    BY <2>3
  <2> QED
    BY <2>1, <2>2, <2>3 DEF Next, Call, Operator, Spawn, Contact, Refused, Unreachable, BindEnd,
       UnbindEnd, ShutDown, Terminate, ShutDownInterrupted, ForgetProxy, GoOn, TypeAdd, TypeLink,
       TypeUnlink, TypeRemove, TypeTeardown, Load, Command, Mistype, Quit, Interrupt,
       TerminateAll, Starts, Exits, Dies, line, vars
<1>3. ASSUME Loading'
      PROVE  PlanHolds'
  <2>1. CASE Load
    <3>1. PICK t \in Topology :
            /\ \A k \in DOMAIN t.links, j \in 1..2 : FreeEnd(LinkCalls(t)[k].ends[j])
            /\ Command(AddCalls(t) \o LinkCalls(t), t)
      BY <2>1 DEF Load
    <3>2. WellGiven(t)
      BY <1>3, <3>1 DEF Command, Loading, WellGiven, GivenAddresses
    <3> QED
      BY <3>1, <3>2, LoadBegins
  <2>2. CASE Loading
    <3>1. PlanHolds /\ file \in Topology
      BY <2>2 DEF LoadOK, Loading, TypeOK
    <3>2. Consistent(file)
      BY <2>2, <3>1 DEF Loading
    <3>3. CASE UNCHANGED vars
      BY <2>2, <3>1, <3>3, QuietSteps DEF vars
    <3>4. CASE Spawn
      BY <2>2, <3>1, <3>2, <3>4, LoadSpawn DEF IInv
    <3>5. CASE BindEnd
      BY <2>2, <3>1, <3>2, <3>5, LoadBind DEF IInv
    <3>6. CASE Contact /\ Done
      BY <2>2, <3>1, <3>6, LoadContact DEF IInv
    <3>7. ASSUME NEW p \in DOMAIN proc, Starts(p) \/ Exits(p)
          PROVE  PlanHolds'
      <4>1. PICK h \in Phase : proc' = [proc EXCEPT ![p].phase = h] /\ proc[p].phase \in {"starting", "stopping"}
        BY <3>7 DEF Starts, Exits, Phase
      <4>2. UNCHANGED <<tables, line>>
        BY <3>7 DEF Starts, Exits
      <4>3. DOMAIN proc' = DOMAIN proc /\ \A q \in DOMAIN proc : q # p => proc'[q] = proc[q]
        BY <4>1
      <4>4. proc'[p] = [proc[p] EXCEPT !.phase = h]
        BY <4>1
      <4>5. proc'[p].ports = proc[p].ports
        BY <4>4, ProcessFacts DEF Process
      <4>6. \A q \in DOMAIN proc :
              /\ proc'[q].ports = proc[q].ports
              /\ proc[q].phase = "serving" => proc'[q].phase = "serving"
              /\ proc[q].phase = "dead" => proc'[q].phase = "dead"
        BY <4>1, <4>3, <4>5
      <4> QED
        BY <2>2, <3>1, <4>2, <4>3, <4>6, QuietSteps
    <3>8. \/ Load
          \/ UNCHANGED vars \/ Spawn \/ BindEnd
          \/ Contact /\ Done
          \/ \E p \in DOMAIN proc : Starts(p) \/ Exits(p)
      BY <1>3, LoadingSteps
    <3> QED
      BY <2>1, <3>3, <3>4, <3>5, <3>6, <3>7, <3>8
  <2> QED
    BY <1>3, <2>1, <2>2, LoadingSteps
<1> QED
  BY <1>1, <1>2, <1>3 DEF LoadOK

\* What holds when all the plan is done.
LEMMA LoadedFacts ==
  ASSUME \A t \in Topology : WellGiven(t) => Consistent(t), TypeOK, LoadOK
  PROVE  LoadedIsWired
<1> SUFFICES ASSUME outcome = "loaded", running, faults = 0, WellGiven(file)
             PROVE  /\ \A k \in DOMAIN file.cells :
                         LET i == file.cells[k].id IN
                           /\ cells[i] = file.cells[k].rpc
                           /\ proc[processes[i]].phase = "serving"
                    /\ \A k \in DOMAIN file.links : Wired(file.links[k])
  BY DEF LoadedIsWired
<1>1. Loading /\ todo = <<>> /\ PlanHolds
  BY DEF LoadOK, Loading
<1>2. file \in Topology
  BY <1>1 DEF Loading, TypeOK
<1>3. /\ Len(file.cells) \in Nat /\ DOMAIN file.cells = 1..Len(file.cells)
      /\ Len(file.links) \in Nat /\ DOMAIN file.links = 1..Len(file.links)
      /\ \A k \in 1..Len(file.links), j \in 1..2 : FileEnd(file, k, j) \in BoundEnd
  BY <1>2, FileFacts
<1>4. Finished = Len(file.cells) + Len(file.links)
  <2>1. Len(todo) = 0
    BY <1>1
  <2> QED
    BY <1>3, <2>1 DEF Finished
<1>5. \A k \in DOMAIN file.cells :
        cells[file.cells[k].id] = file.cells[k].rpc /\ Up(file.cells[k].id)
  <2>1. \A c, l \in Nat : \A k \in 1..c : k <= c + l
    OBVIOUS
  <2>2. \A k \in DOMAIN file.cells : k <= Finished
    BY <1>3, <1>4, <2>1
  <2> QED
    BY <1>1, <2>2 DEF PlanHolds, CellsUp
<1>6. \A k \in DOMAIN file.links, j \in 1..2 :
        Bound(FileEnd(file, k, j)) /\ Alone(FileEnd(file, k, j))
  <2>1. \A c, l \in Nat : \A k \in 1..l : c + k <= c + l
    OBVIOUS
  <2>2. \A k \in DOMAIN file.links : Len(file.cells) + k <= Finished
    BY <1>3, <1>4, <2>1
  <2> QED
    BY <1>1, <2>2 DEF PlanHolds, LinksBound, PortsAlone, EndDone
<1>7. Consistent(file)
  BY <1>2
<1>8. ASSUME NEW k \in DOMAIN file.links
      PROVE  Wired(file.links[k])
  <2> DEFINE l == file.links[k]
             e1 == FileEnd(file, k, 1)
             e2 == FileEnd(file, k, 2)
  <2>1. /\ e1.id = l.end1.id /\ e1.name = l.end1.name
        /\ e2.id = l.end2.id /\ e2.name = l.end2.name
    BY <1>2, <1>3, FileEnds
  <2>2. /\ Bound(e1) /\ Bound(e2) /\ Alone(e1)
        /\ Len(e1.addr) = 2 => e1.addr[1] # 0
        /\ Len(e2.addr) = 2 => e2.addr[1] # 0
        /\ l.transport = "udp" => Len(e1.addr) = 2 /\ e1.addr = Reverse(e2.addr)
    BY <1>6, <1>7 DEF Consistent
  <2> HIDE DEF e1, e2
  <2>3. LiveAddress(l.end1) = e1.addr /\ LiveAddress(l.end2) = e2.addr
    BY <2>1, <2>2 DEF LiveAddress, Bound
  <2>4. e1.addr # Unbound /\ e2.addr # Unbound
    BY <2>2 DEF Unbound
  <2>5. ASSUME l.transport = "udp", NEW p \in DOMAIN proc, NEW n \in Name,
               proc[p].phase = "serving", e1.addr[1] \in LocalPorts(n, p)
        PROVE  p = processes[l.end1.id] /\ n = l.end1.name
    <3>1. proc[p].ports[n] # <<>> /\ proc[p].ports[n][1] = e1.addr[1]
      BY <2>5 DEF LocalPorts
    <3>2. proc[p].ports[n] \in Seq(Nat) /\ Len(proc[p].ports[n]) \in {0, 2}
      BY ProcessFacts DEF Address, WellFormed
    <3>3. Len(proc[p].ports[n]) = 2
      <4>1. \A a \in Seq(Nat) : Len(a) = 0 => a = <<>>
        OBVIOUS
      <4> QED
        BY <3>1, <3>2, <4>1
    <3> QED
      BY <2>1, <2>2, <2>5, <3>1, <3>3 DEF Alone, Live
  <2> HIDE DEF l
  <2>6. Wired(l)
    BY <2>2, <2>3, <2>4, <2>5 DEF Wired
  <2> QED
    BY <2>6 DEF l
<1> QED
  BY <1>5, <1>8 DEF Up

\* Default ports are apart from each other, so that a file which gives no addresses
\* can hold as soon as it names no end twice (datacenter.py:270-281).
LEMMA DefaultPortsAreApart ==
  ASSUME NEW t \in Topology,
         \A k \in DOMAIN t.links : t.links[k].addrs = None,
         \A k, l \in DOMAIN t.links, i, j \in 1..2 : k # l \/ i # j =>
           \/ FileEnd(t, k, i).id # FileEnd(t, l, j).id
           \/ FileEnd(t, k, i).name # FileEnd(t, l, j).name
  PROVE  Consistent(t)
<1>1. Len(t.links) \in Nat /\ DOMAIN t.links = 1..Len(t.links)
  BY FileFacts
<1>2. ASSUME NEW k \in DOMAIN t.links
      PROVE  /\ FileEnd(t, k, 1).addr = <<2 * k + 4998, 2 * k + 4999>>
             /\ FileEnd(t, k, 2).addr = <<2 * k + 4999, 2 * k + 4998>>
             /\ k \in Nat \ {0}
  BY <1>1, FileEnds, DefaultFacts
<1>3. \A x, y \in Nat : \A a : a = <<x, y>> => Len(a) = 2 /\ a[1] = x
  OBVIOUS
<1>4. ASSUME NEW k \in DOMAIN t.links
      PROVE  /\ \A j \in 1..2 : Len(FileEnd(t, k, j).addr) = 2
             /\ FileEnd(t, k, 1).addr[1] = 2 * k + 4998
             /\ FileEnd(t, k, 2).addr[1] = 2 * k + 4999
  <2>1. 2 * k + 4998 \in Nat /\ 2 * k + 4999 \in Nat
    BY <1>2
  <2> DEFINE x == 2 * k + 4998
             y == 2 * k + 4999
             a == FileEnd(t, k, 1).addr
             b == FileEnd(t, k, 2).addr
  <2>2. a = <<x, y>> /\ b = <<y, x>> /\ x \in Nat /\ y \in Nat
    BY <1>2, <2>1
  <2>3. a[1] = x /\ b[1] = y /\ Len(a) = 2 /\ Len(b) = 2
    <3> HIDE DEF x, y, a, b
    <3> QED
      BY <1>3, <2>2
  <2>4. \A j \in 1..2 : j = 1 \/ j = 2
    OBVIOUS
  <2> QED
    BY <2>3, <2>4
<1>5. \A k, l \in DOMAIN t.links, i, j \in 1..2 : k # l \/ i # j =>
        FileEnd(t, k, i).addr[1] # FileEnd(t, l, j).addr[1]
  <2> TAKE k, l \in DOMAIN t.links, i, j \in 1..2
  <2>1. \A x, y \in Nat : /\ 2 * x + 4998 # 2 * y + 4999
                          /\ x # y => 2 * x + 4998 # 2 * y + 4998 /\ 2 * x + 4999 # 2 * y + 4999
    OBVIOUS
  <2>2. k \in Nat /\ l \in Nat
    BY <1>2
  <2>3. CASE i = 1 /\ j = 1
    BY <1>4, <2>1, <2>2, <2>3
  <2>4. CASE i = 1 /\ j = 2
    BY <1>4, <2>1, <2>2, <2>4
  <2>5. CASE i = 2 /\ j = 1
    BY <1>4, <2>1, <2>2, <2>5
  <2>6. CASE i = 2 /\ j = 2
    BY <1>4, <2>1, <2>2, <2>6
  <2> QED
    BY <2>3, <2>4, <2>5, <2>6
<1>6. \A k \in DOMAIN t.links, j \in 1..2 : FileEnd(t, k, j).addr[1] # 0
  <2> TAKE k \in DOMAIN t.links, j \in 1..2
  <2>1. \A x \in Nat : 2 * x + 4998 # 0 /\ 2 * x + 4999 # 0
    OBVIOUS
  <2> QED
    BY <1>2, <1>4, <2>1
<1>7. \A k \in DOMAIN t.links : FileEnd(t, k, 1).addr = Reverse(FileEnd(t, k, 2).addr)
  <2> TAKE k \in DOMAIN t.links
  <2>1. 2 * k + 4998 \in Nat /\ 2 * k + 4999 \in Nat
    BY <1>2
  <2>2. Reverse(<<2 * k + 4999, 2 * k + 4998>>) = <<2 * k + 4998, 2 * k + 4999>>
    BY <2>1, ReversePair
  <2> QED
    BY <1>2, <2>2
<1> QED
  BY <1>4, <1>5, <1>6, <1>7 DEF Consistent

-----------------------------------------------------------------------------
(* The theorems.                                                           *)

\* Only cells with an entry are alive, each entry is of a cell of that id and with
\* a port of its own, and proxies are to cells with an entry (datacenter.py:15-58,
\* :120-150, :334-340).
THEOREM InductiveInvariant ==
  ASSUME Careful
  PROVE  Spec => [](TypeOK /\ IInv)
<1>1. Init => IInv
  <2> SUFFICES ASSUME Init PROVE IInv
    OBVIOUS
  <2>1. DOMAIN proc = {} /\ DOMAIN todo = {} /\ Occupied = {}
    BY DEF Init, Occupied
  <2>2. ToStart = {}
    BY <2>1 DEF ToStart
  <2> QED
    BY <2>1, <2>2 DEF Init, IInv, EntriesOK, PendingOK, ProxiesOK, QuitLeavesNothing
<1>2. TypeOK /\ IInv /\ [Next]_vars => IInv'
  BY EntriesStep, PendingStep, ProxiesStep, QuitStep DEF IInv
<1> QED
  BY <1>1, <1>2, TypeCorrect, PTL DEF Spec

\* Once the command line has ended, by exit, by an interrupt or with a command
\* half done, no cell is alive: each that was had an entry, and every entry is
\* terminated (datacenter.py:334-340, :420-428).
THEOREM NothingIsLeft ==
  ASSUME Careful
  PROVE  Spec => []QuitLeavesNothing
BY InductiveInvariant, PTL DEF IInv

\* Whoever answers the proxy of a cell is the process that was started for that
\* cell, although the answer does not say who gives it (datacenter.py:44-52).
THEOREM ProxiesAreOwn ==
  ASSUME Careful
  PROVE  Spec => []ProxyReachesOwnCell
<1>1. TypeOK /\ IInv => ProxyReachesOwnCell
  <2> SUFFICES ASSUME TypeOK, IInv, NEW i \in Id, cells[i] # None
               PROVE  /\ processes[i] # 0
                      /\ proc[processes[i]].rpc = cells[i]
                      /\ Servers(cells[i]) \subseteq {processes[i]}
    BY DEF ProxyReachesOwnCell
  <2>1. processes[i] # 0 /\ proc[processes[i]].rpc = cells[i] /\ i \in Occupied
    BY DEF IInv, ProxiesOK, Occupied
  <2>2. ASSUME NEW q \in Servers(cells[i])
        PROVE  q = processes[i]
    <3>1. q \in DOMAIN proc /\ proc[q].rpc = cells[i] /\ Live(q)
      BY DEF Servers, Holders, Live
    <3>2. processes[proc[q].id] = q /\ proc[q].id \in Occupied
      BY <3>1, EntryFacts DEF IInv, EntriesOK, Occupied
    <3>3. proc[q].id = i
      BY <2>1, <3>1, <3>2 DEF IInv, EntriesOK
    <3> QED
      BY <3>2, <3>3
  <2> QED
    BY <2>1, <2>2
<1> QED
  BY <1>1, InductiveInvariant, PTL

\* "Topology Loaded Successfully" (datacenter.py:238) is true, as long as no process
\* dies by itself: the cells of the file are connected and in service, however slowly
\* they started, and its links are wired and apart from all others.  The files must
\* be such that they can hold; for those with default ports, DefaultPortsAreApart
\* says when that is so.
THEOREM LoadedTopologiesAreWired ==
  ASSUME Careful, \A t \in Topology : WellGiven(t) => Consistent(t)
  PROVE  Spec => []LoadedIsWired
<1>1. Init => LoadOK
  BY DEF Init, LoadOK, Loading
<1>2. TypeOK /\ IInv /\ LoadOK /\ [Next]_vars => LoadOK'
  BY LoadStep
<1>3. TypeOK /\ LoadOK => LoadedIsWired
  BY LoadedFacts
<1> QED
  BY <1>1, <1>2, <1>3, TypeCorrect, InductiveInvariant, PTL DEF Spec
=============================================================================
