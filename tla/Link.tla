-------------------------------- MODULE Link ---------------------------------
(***************************************************************************)
(* Two ports joined by a link: hermes/port/Port.py (UDPPort.run_link),     *)
(* hermes/port/protocol/LinkProtocol.py (handshake, timeout, teardown) and *)
(* EthernetProtocolExtended.py (the default protocol above it).            *)
(*                                                                         *)
(* Each port has a thread with an event loop; a callback, and the part of  *)
(* a task between two awaits, runs undisturbed and is one action.  Time is *)
(* abstracted to what the timeout task can see: whether a datagram came    *)
(* since its last look.                                                    *)
(***************************************************************************)
EXTENDS Naturals, Sequences, SequencesExt

CONSTANTS
  Lossy,        \* may the network lose a datagram?
  Reordering,   \* may a datagram overtake another?
  Punctual,     \* do timers fire in time?  If not, any check may come too late
  Discovery,    \* a real interface, whose neighbour discovery may fail?
  MaxOpens,     \* bound: endpoints an end opens
  MaxNet        \* bound: datagrams under way to an end

ASSUME LinkAssumption ==
  /\ {Lossy, Reordering, Punctual, Discovery} \subseteq BOOLEAN
  /\ MaxOpens \in Nat /\ MaxNet \in Nat

End == {"client", "server"}
Peer(e) == IF e = "client" THEN "server" ELSE "client"

Datagram == {"AREYOUTHERE", "YESIAM", "HEARTBEAT", "DATA"}
Task == {"ping", "timeout", "send", "heartbeat"}

VARIABLES
  run_link,      \* [End -> {"waiting", "open", "ended"}], the coroutine of a port
  transport,     \* [End -> {"none", "open", "closing"}]
  link_state,    \* [End -> {"connected", "disconnected"}]
  handler,       \* [End -> {"handshake", "normal"}], _packet_handler
  tasks,         \* [End -> SUBSET Task], the live tasks of the protocol object
  heard,         \* [End -> BOOLEAN], _last_received is after the last check
  signal,        \* [End -> the last signal put in signal_q, or "none"]
  net,           \* [End -> Seq(Datagram)], datagrams under way to an end
  opens,         \* [End -> Nat], endpoints opened
  connects       \* [End -> Nat], sessions started

vars == <<run_link, transport, link_state, handler, tasks, heard, signal, net,
          opens, connects>>

-----------------------------------------------------------------------------
Listening(e) == transport[e] = "open"

\* transport.sendto: nobody receives on a closed socket, and the client's
\* transport drops what is sent after close().
Send(n, e, m) ==
  IF Listening(Peer(e)) /\ (e = "server" \/ Listening(e))
    THEN [n EXCEPT ![Peer(e)] = Append(@, m)]
    ELSE n

Room(e) == Len(net[Peer(e)]) < MaxNet

Arrivals(e) == {i \in DOMAIN net[e] : Reordering \/ i = 1}
Consumed(e, i) == [net EXCEPT ![e] = RemoveAt(@, i)]

\* transport.close(): connection_lost is scheduled, and nothing is read until.
Close(e) == transport' = [transport EXCEPT ![e] = "closing"]

Init ==
  /\ run_link = [e \in End |-> "waiting"]
  /\ transport = [e \in End |-> "none"]
  /\ link_state = [e \in End |-> "disconnected"]
  /\ handler = [e \in End |-> "handshake"]
  /\ tasks = [e \in End |-> {}]
  /\ heard = [e \in End |-> FALSE]
  /\ signal = [e \in End |-> "none"]
  /\ net = [e \in End |-> <<>>]
  /\ opens = [e \in End |-> 0]
  /\ connects = [e \in End |-> 0]

-----------------------------------------------------------------------------
(* run_link: open an endpoint, wait for the end of its session, try again. *)

\* connection_made starts the client's ping task.
FirstTasks(e) == IF e = "client" THEN {"ping"} ELSE {}

\* A new protocol object in its handshake.
OpenEndpoint(e) ==
  /\ run_link[e] = "waiting"
  /\ opens[e] < MaxOpens
  /\ run_link' = [run_link EXCEPT ![e] = "open"]
  /\ transport' = [transport EXCEPT ![e] = "open"]
  /\ handler' = [handler EXCEPT ![e] = "handshake"]
  /\ tasks' = [tasks EXCEPT ![e] = FirstTasks(e)]
  /\ heard' = [heard EXCEPT ![e] = FALSE]
  /\ opens' = [opens EXCEPT ![e] = @ + 1]
  /\ UNCHANGED <<link_state, signal, net, connects>>

\* wait_for_connection swallows an error and returns nothing: unpacking its
\* result raises, and run_link returns for good.
DiscoveryFails(e) ==
  /\ Discovery
  /\ run_link[e] = "waiting"
  /\ run_link' = [run_link EXCEPT ![e] = "ended"]
  /\ UNCHANGED <<transport, link_state, handler, tasks, heard, signal,
                 net, opens, connects>>

\* Mutant: disconnected_future is never resolved.
SessionNeverOver(e) == FALSE

\* disconnected_future is resolved: close, forget the protocol, sleep, loop.
SessionOver(e) ==
  /\ run_link[e] = "open"
  /\ transport[e] = "none"
  /\ run_link' = [run_link EXCEPT ![e] = "waiting"]
  /\ UNCHANGED <<transport, link_state, handler, tasks, heard, signal,
                 net, opens, connects>>

-----------------------------------------------------------------------------
(* The tasks of a protocol object.                                         *)

SendOne(e, m) ==
  /\ Room(e)
  /\ net' = Send(net, e, m)
  /\ UNCHANGED <<run_link, transport, link_state, handler, tasks, heard,
                 signal, opens, connects>>

Ping(e) == "ping" \in tasks[e] /\ SendOne(e, "AREYOUTHERE")
ProcessSend(e) == "send" \in tasks[e] /\ SendOne(e, "DATA")
SendHeartbeat(e) == "heartbeat" \in tasks[e] /\ SendOne(e, "HEARTBEAT")

\* No answer within ten seconds.
PingTimeout(e) ==
  /\ "ping" \in tasks[e]
  /\ Close(e)
  /\ tasks' = [tasks EXCEPT ![e] = @ \ {"ping"}]
  /\ UNCHANGED <<run_link, link_state, handler, heard, signal, net,
                 opens, connects>>

\* One round of _connection_timeout, which runs on after closing.
ConnectionTimeout(e) ==
  /\ "timeout" \in tasks[e]
  /\ \/ heard[e] /\ heard' = [heard EXCEPT ![e] = FALSE] /\ UNCHANGED transport
     \/ (~heard[e] \/ ~Punctual) /\ Close(e) /\ UNCHANGED heard
  /\ UNCHANGED <<run_link, link_state, handler, tasks, signal, net,
                 opens, connects>>

-----------------------------------------------------------------------------
(* Callbacks.                                                              *)

\* Mutants: the ping task goes on; the timeout task is not started, at all or
\* by the client's handler.
PingOnTasks(e) == tasks[e] \cup {"timeout", "send", "heartbeat"}
UnwatchedTasks(e) == {"send", "heartbeat"}
UnwatchedClientTasks(e) ==
  {"send", "heartbeat"} \cup IF e = "client" THEN {} ELSE {"timeout"}

\* The ping is cancelled; the timeout task and those of on_connected start.
SessionTasks(e) == {"timeout", "send", "heartbeat"}

\* What both handshake handlers do.
EnterConnected(e) ==
  /\ link_state' = [link_state EXCEPT ![e] = "connected"]
  /\ handler' = [handler EXCEPT ![e] = "normal"]
  /\ signal' = [signal EXCEPT ![e] = "CONNECTED"]
  /\ tasks' = [tasks EXCEPT ![e] = SessionTasks(e)]
  /\ connects' = [connects EXCEPT ![e] = @ + 1]

\* Mutant: a heartbeat is as good as an answer.
HandleHandshakeLenient(e, i) ==
  /\ e = "client" /\ handler[e] = "handshake"
  /\ net[e][i] \in {"YESIAM", "HEARTBEAT"}
  /\ EnterConnected(e)
  /\ net' = Consumed(e, i)

HandleHandshake(e, i) ==
  /\ e = "client" /\ handler[e] = "handshake" /\ net[e][i] = "YESIAM"
  /\ EnterConnected(e)
  /\ net' = Consumed(e, i)

HandleServerHandshake(e, i) ==
  /\ e = "server" /\ handler[e] = "handshake" /\ net[e][i] = "AREYOUTHERE"
  /\ EnterConnected(e)
  /\ net' = Send(Consumed(e, i), e, "YESIAM")

\* A handshake handler ignores every other datagram.
IgnoreInHandshake(e, i) ==
  /\ handler[e] = "handshake"
  /\ net[e][i] # IF e = "client" THEN "YESIAM" ELSE "AREYOUTHERE"
  /\ net' = Consumed(e, i)
  /\ UNCHANGED <<link_state, handler, signal, tasks, connects>>

\* Mutant: a connected server answers pings, too.
HandleNormalPacketAnswering(e, i) ==
  /\ handler[e] = "normal"
  /\ net' = IF net[e][i] = "AREYOUTHERE" THEN Send(Consumed(e, i), e, "YESIAM")
                                         ELSE Consumed(e, i)
  /\ UNCHANGED <<link_state, handler, signal, tasks, connects>>

\* EthernetProtocolExtended hands every datagram to the agent: the queue it puts
\* them in is that of Agent.tla.
HandleNormalPacket(e, i) ==
  /\ handler[e] = "normal"
  /\ net' = Consumed(e, i)
  /\ UNCHANGED <<link_state, handler, signal, tasks, connects>>

DatagramReceived(e) ==
  /\ Listening(e)
  /\ \E i \in Arrivals(e) :
       \/ HandleHandshake(e, i) \/ HandleServerHandshake(e, i)
       \/ IgnoreInHandshake(e, i) \/ HandleNormalPacket(e, i)
  /\ heard' = [heard EXCEPT ![e] = TRUE]
  /\ UNCHANGED <<run_link, transport, opens>>

\* Mutant: the subclass cancels its heartbeat alone.
OnDisconnectedKeepingSend(running) == running \ {"heartbeat"}

\* on_disconnected: the subclass cancels its own two tasks.
OnDisconnected(running) == running \ {"send", "heartbeat"}

\* Mutant: the agent is not told.
ConnectionLostSilently(e) ==
  /\ transport[e] = "closing"
  /\ transport' = [transport EXCEPT ![e] = "none"]
  /\ link_state' = [link_state EXCEPT ![e] = "disconnected"]
  /\ tasks' = [tasks EXCEPT ![e] = OnDisconnected(@ \ {"ping", "timeout"})]
  /\ net' = [net EXCEPT ![e] = <<>>]
  /\ UNCHANGED <<run_link, handler, signal, heard, opens, connects>>

\* All tasks are cancelled, the future is resolved, and the socket goes.
ConnectionLost(e) ==
  /\ transport[e] = "closing"
  /\ transport' = [transport EXCEPT ![e] = "none"]
  /\ link_state' = [link_state EXCEPT ![e] = "disconnected"]
  /\ tasks' = [tasks EXCEPT ![e] = OnDisconnected(@ \ {"ping", "timeout"})]
  /\ signal' = [signal EXCEPT ![e] = "DISCONNECTED"]
  /\ net' = [net EXCEPT ![e] = <<>>]
  /\ UNCHANGED <<run_link, handler, heard, opens, connects>>

\* The network (external).
Lose(e) ==
  /\ Lossy
  /\ \E i \in DOMAIN net[e] : net' = Consumed(e, i)
  /\ UNCHANGED <<run_link, transport, link_state, handler, tasks, heard,
                 signal, opens, connects>>

Next ==
  \E e \in End :
    \/ OpenEndpoint(e) \/ DiscoveryFails(e) \/ SessionOver(e)
    \/ Ping(e) \/ ProcessSend(e) \/ SendHeartbeat(e)
    \/ PingTimeout(e) \/ ConnectionTimeout(e)
    \/ DatagramReceived(e) \/ ConnectionLost(e) \/ Lose(e)

Spec == Init /\ [][Next]_vars

\* The event loop runs its callbacks, its timers and the coroutine run_link;
\* nobody is bound to send data, and no ping need go unanswered.
FairSpec ==
  /\ Spec
  /\ \A e \in End :
       /\ WF_vars(OpenEndpoint(e)) /\ WF_vars(SessionOver(e))
       /\ WF_vars(Ping(e)) /\ WF_vars(SendHeartbeat(e))
       /\ WF_vars(ConnectionTimeout(e))
       /\ WF_vars(DatagramReceived(e)) /\ WF_vars(ConnectionLost(e))

-----------------------------------------------------------------------------
(* Properties.                                                             *)

\* Every variable has its type; a protocol object in its handshake runs no
\* task but the client's ping.
TypeOK ==
  /\ run_link \in [End -> {"waiting", "open", "ended"}]
  /\ transport \in [End -> {"none", "open", "closing"}]
  /\ link_state \in [End -> {"connected", "disconnected"}]
  /\ handler \in [End -> {"handshake", "normal"}]
  /\ \A e \in End :
       tasks[e] \subseteq IF handler[e] = "handshake" THEN {"ping"} ELSE Task \ {"ping"}
  /\ DOMAIN tasks = End
  /\ heard \in [End -> BOOLEAN]
  /\ signal \in [End -> {"none", "CONNECTED", "DISCONNECTED"}]
  /\ net \in [End -> Seq(Datagram)]
  /\ opens \in [End -> Nat]
  /\ connects \in [End -> Nat]

\* The YESIAM datagrams under way.
Answers == {i \in DOMAIN net["client"] : net["client"][i] = "YESIAM"}

\* No client session starts without a server session that answered it and no
\* other client session: lost, late and leftover handshake datagrams never
\* make a client believe in a server that is not there for it, although pings
\* are repeated and carry no session number (LinkProtocol.py:80-108).
SessionsMatched == connects["client"] + Cardinality(Answers) <= connects["server"]

\* A connected link is watched by its timeout task, its agent was told so
\* last, and it still has a transport whose loss ends the session
\* (LinkProtocol.py:84-93, :128-139, :148-159).
ConnectedIsWatched ==
  \A e \in End : link_state[e] = "connected" =>
    /\ "timeout" \in tasks[e]
    /\ handler[e] = "normal"
    /\ transport[e] # "none"
    /\ signal[e] = "CONNECTED"

\* No task survives its session: an end without a transport runs none, and
\* only a connected end sends data or heartbeats or watches the time
\* (LinkProtocol.py:148-159, EthernetProtocolExtended.py:41-45).
NoTaskLeftBehind ==
  \A e \in End :
    /\ transport[e] = "none" => tasks[e] = {}
    /\ tasks[e] \cap {"timeout", "send", "heartbeat"} # {} => link_state[e] = "connected"

\* The agent never sees a CONNECTED that another one precedes without a
\* DISCONNECTED between them: each session's end is reported before the next
\* one starts (LinkProtocol.py:89, :104, :159; Port.py:228).
SignalsAlternate ==
  [][\A e \in End : connects'[e] # connects[e] => signal[e] # "CONNECTED"]_vars

\* A client left without a server session notices: it gets no datagrams, its
\* timeout task sees that and ends the session (LinkProtocol.py:128-139).
SilenceIsNoticed ==
  (link_state["client"] = "connected" /\ link_state["server"] = "disconnected")
    ~> (link_state["client"] = "disconnected" \/ link_state["server"] = "connected")

\* A server whose client is gone, because its run_link ended or its socket stays
\* closed, notices: its timeout task ends the session, whatever the client sent
\* before (LinkProtocol.py:128-139, Port.py:204).  A client that opens its
\* socket again may keep the session alive with its pings.
LeftServerNotices ==
  (link_state["server"] = "connected" /\ ~Listening("client"))
    ~> (link_state["server"] = "disconnected" \/ Listening("client"))

\* A port whose socket closed opens it again, unless discovery ended run_link
\* (Port.py:204) or the bound is used up: whoever closed it and whatever its
\* tasks still do (LinkProtocol.py:148-159, Port.py:227-242).
PortComesBack ==
  \A e \in End : transport[e] = "closing" ~>
    transport[e] = "open" \/ run_link[e] = "ended" \/ opens[e] = MaxOpens

\* The link implements the link service.
Service == INSTANCE LinkService WITH
  up <- [e \in End |-> link_state[e] = "connected"],
  claims <- Cardinality(Answers),
  sessions <- connects

ServiceSpec == Service!Spec
=============================================================================
