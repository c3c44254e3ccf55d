---------------------------- MODULE SliceProtocol ----------------------------
(***************************************************************************)
(* The two ends of one link running hermes/port/protocol/SliceProtocol.py: *)
(* a client and a server that take turns in sending one item.  An end is   *)
(* in RD (it may send), RA (it sent and awaits an ACK) or WT (it awaits    *)
(* DATA).  The event loop of a port runs one callback or one round of      *)
(* _process_send at a time, so each is one action.                         *)
(*                                                                         *)
(* The handshake and the timeouts of LinkProtocol.py appear here only      *)
(* as the moments at which a session starts and ends; Link.tla has their   *)
(* detail.  Items are numbered in the order the application writes them.   *)
(***************************************************************************)
EXTENDS Naturals, Sequences, SequencesExt

CONSTANTS
  Lossy,         \* may the network lose a datagram?
  Reordering,    \* may a datagram overtake another?
  MaxItems,      \* bound: items the application writes at each end
  MaxLiveness,   \* bound: a LIVENESS is sent only to a shorter input queue
  MaxSessions,   \* bound: sessions the server opens
  MaxFailures    \* bound: sessions each end loses

ASSUME SliceAssumption ==
  /\ Lossy \in BOOLEAN /\ Reordering \in BOOLEAN
  /\ MaxItems \in Nat /\ MaxLiveness \in Nat
  /\ MaxSessions \in Nat /\ MaxFailures \in Nat

End == {"client", "server"}
Peer(e) == IF e = "client" THEN "server" ELSE "client"

None == 0                                      \* items are positive
Datagram == [kind : {"DATA"}, item : Nat \ {0}]
              \cup [kind : {"ACK", "LIVENESS"}]
\* Mutant: the payload is lost in framing.
DataEmpty(d) == [kind |-> "DATA", item |-> None]
Data(d)  == [kind |-> "DATA", item |-> d]
Ack      == [kind |-> "ACK"]
Liveness == [kind |-> "LIVENESS"]

VARIABLES
  link_state,    \* [End -> {"connected", "disconnected"}]
  state,         \* [End -> {"RD", "RA", "WT"}], the SliceStateMachine
  current_data,  \* [End -> item or None]
  write_q,       \* [End -> Seq(item)]  PortIO.write_q
  read_q,        \* [End -> Seq(item)]  PortIO.read_q
  net,           \* [End -> Seq(Datagram)]  datagrams under way to an end
  offer,         \* a YESIAM is under way to a client in its handshake
  written,       \* [End -> Nat]  items written so far, numbers the next one
  sessions,      \* [End -> Nat]  sessions an end has started
  failures       \* [End -> Nat]  sessions an end has lost

protocol == <<link_state, state, current_data, offer>>
vars == <<link_state, state, current_data, write_q, read_q, net, offer,
          written, sessions, failures>>

-----------------------------------------------------------------------------
Connected(e) == link_state[e] = "connected"

\* transport.sendto: a datagram for an end without a session is dropped.
Send(n, to, m) == IF Connected(to) THEN [n EXCEPT ![to] = Append(@, m)] ELSE n

\* The datagrams the network may hand to e next, by position.
Arrivals(e) == {i \in DOMAIN net[e] : Reordering \/ i = 1}

\* e's input queue without the datagram at position i.
Consumed(e, i) == [net EXCEPT ![e] = RemoveAt(@, i)]

Init ==
  /\ link_state = [e \in End |-> "disconnected"]
  /\ state = [e \in End |-> IF e = "client" THEN "RD" ELSE "WT"]
  /\ current_data = [e \in End |-> None]
  /\ write_q = [e \in End |-> <<>>]
  /\ read_q = [e \in End |-> <<>>]
  /\ net = [e \in End |-> <<>>]
  /\ offer = FALSE
  /\ written = [e \in End |-> 0]
  /\ sessions = [e \in End |-> 0]
  /\ failures = [e \in End |-> 0]

-----------------------------------------------------------------------------
(* The session.                                                            *)

\* Mutant: the server starts with the right to send, too.
FreshAllReady(e) ==
  /\ link_state' = [link_state EXCEPT ![e] = "connected"]
  /\ state' = [state EXCEPT ![e] = "RD"]
  /\ current_data' = [current_data EXCEPT ![e] = None]
  /\ sessions' = [sessions EXCEPT ![e] = @ + 1]

\* A new protocol object enters the connected state.
Fresh(e) ==
  /\ link_state' = [link_state EXCEPT ![e] = "connected"]
  /\ state' = [state EXCEPT ![e] = IF e = "client" THEN "RD" ELSE "WT"]
  /\ current_data' = [current_data EXCEPT ![e] = None]
  /\ sessions' = [sessions EXCEPT ![e] = @ + 1]

\* AREYOUTHERE reaches the server, which answers YESIAM.  A client that is
\* already connected ignores the answer in its packet handler.
ServerConnects ==
  /\ ~Connected("server")
  /\ sessions["server"] < MaxSessions
  /\ Fresh("server")
  /\ offer' = ~Connected("client")
  /\ UNCHANGED <<write_q, read_q, net, written, failures>>

ClientConnects ==
  /\ ~Connected("client")
  /\ offer
  /\ Fresh("client")
  /\ offer' = FALSE
  /\ UNCHANGED <<write_q, read_q, net, written, failures>>

\* The transport is closed and connection_lost runs: the send task is
\* cancelled, the protocol object goes, and the kernel drops what its socket
\* had not delivered.  write_q stays as it is.
Disconnects(e) ==
  /\ Connected(e)
  /\ failures[e] < MaxFailures
  /\ link_state' = [link_state EXCEPT ![e] = "disconnected"]
  /\ net' = [net EXCEPT ![e] = <<>>]
  /\ failures' = [failures EXCEPT ![e] = @ + 1]
  /\ UNCHANGED <<state, current_data, write_q, read_q, offer, written, sessions>>

-----------------------------------------------------------------------------
(* Sending.                                                                *)

\* The application (the agent) puts an item in write_q.
Write(e) ==
  /\ written[e] < MaxItems
  /\ written' = [written EXCEPT ![e] = @ + 1]
  /\ write_q' = [write_q EXCEPT ![e] = Append(@, written[e] + 1)]
  /\ UNCHANGED <<protocol, read_q, net, sessions, failures>>

\* Mutants: the item stays in write_q; the end does not wait for the ACK.
TakeAndSendPeeking(e, n) ==
  /\ write_q[e] # <<>>
  /\ current_data' = [current_data EXCEPT ![e] = Head(write_q[e])]
  /\ UNCHANGED write_q
  /\ net' = Send(n, Peer(e), Data(Head(write_q[e])))
  /\ state' = [state EXCEPT ![e] = "RA"]

TakeAndSendUnwaiting(e, n) ==
  /\ write_q[e] # <<>>
  /\ current_data' = [current_data EXCEPT ![e] = Head(write_q[e])]
  /\ write_q' = [write_q EXCEPT ![e] = Tail(@)]
  /\ net' = Send(n, Peer(e), Data(Head(write_q[e])))
  /\ UNCHANGED state

\* Take the next item from write_q, send it and wait for its ACK.
TakeAndSend(e, n) ==
  /\ write_q[e] # <<>>
  /\ current_data' = [current_data EXCEPT ![e] = Head(write_q[e])]
  /\ write_q' = [write_q EXCEPT ![e] = Tail(@)]
  /\ net' = Send(n, Peer(e), Data(Head(write_q[e])))
  /\ state' = [state EXCEPT ![e] = "RA"]

\* Nothing to send: keep the link alive.
SendLiveness(e, n) ==
  /\ write_q[e] = <<>>
  /\ Len(net[Peer(e)]) < MaxLiveness
  /\ net' = Send(n, Peer(e), Liveness)
  /\ UNCHANGED <<state, current_data, write_q>>

\* One round of the _process_send task.
ProcessSend(e) ==
  /\ Connected(e)
  /\ state[e] = "RD"
  /\ TakeAndSend(e, net) \/ SendLiveness(e, net)
  /\ UNCHANGED <<link_state, read_q, offer, written, sessions, failures>>

-----------------------------------------------------------------------------
(* Receiving: _handle_normal_packet, by the kind of the datagram.          *)

\* Mutant: the right to send is not taken with the DATA.
HandleDataWaitingOn(e, i) ==
  /\ net[e][i].kind = "DATA"
  /\ IF state[e] = "WT"
       THEN /\ read_q' = [read_q EXCEPT ![e] = Append(@, net[e][i].item)]
            /\ net' = Send(Consumed(e, i), Peer(e), Ack)
       ELSE /\ net' = Consumed(e, i)
            /\ UNCHANGED read_q
  /\ UNCHANGED <<state, current_data, write_q>>

HandleData(e, i) ==
  /\ net[e][i].kind = "DATA"
  /\ IF state[e] = "WT"
       THEN /\ read_q' = [read_q EXCEPT ![e] = Append(@, net[e][i].item)]
            /\ net' = Send(Consumed(e, i), Peer(e), Ack)
            /\ state' = [state EXCEPT ![e] = "RD"]
       ELSE /\ net' = Consumed(e, i)
            /\ UNCHANGED <<read_q, state>>
  /\ UNCHANGED <<current_data, write_q>>

\* Mutants: the ACK ends in RD; the ACK leaves the end in RA.
HandleAckIntoRD(e, i) ==
  /\ net[e][i] = Ack
  /\ IF state[e] = "RA"
       THEN /\ state' = [state EXCEPT ![e] = "RD"]
            /\ current_data' = [current_data EXCEPT ![e] = None]
            /\ net' = Send(Consumed(e, i), Peer(e), Ack)
       ELSE /\ net' = Consumed(e, i)
            /\ UNCHANGED <<state, current_data>>
  /\ UNCHANGED <<write_q, read_q>>

HandleAckIntoRA(e, i) ==
  /\ net[e][i] = Ack
  /\ net' = IF state[e] = "RA" THEN Send(Consumed(e, i), Peer(e), Ack)
                               ELSE Consumed(e, i)
  /\ UNCHANGED <<state, current_data, write_q, read_q>>

HandleAck(e, i) ==
  /\ net[e][i] = Ack
  /\ IF state[e] = "RA"
       THEN /\ state' = [state EXCEPT ![e] = "WT"]
            /\ current_data' = [current_data EXCEPT ![e] = None]
            /\ net' = Send(Consumed(e, i), Peer(e), Ack)
       ELSE /\ net' = Consumed(e, i)
            /\ UNCHANGED <<state, current_data>>
  /\ UNCHANGED <<write_q, read_q>>

HandleLiveness(e, i) ==
  /\ net[e][i] = Liveness
  /\ IF state[e] = "RD"
       THEN TakeAndSend(e, Consumed(e, i)) \/ SendLiveness(e, Consumed(e, i))
       ELSE /\ net' = Consumed(e, i)
            /\ UNCHANGED <<state, current_data, write_q>>
  /\ UNCHANGED read_q

Receive(e) ==
  /\ Connected(e)
  /\ \E i \in Arrivals(e) :
       HandleData(e, i) \/ HandleAck(e, i) \/ HandleLiveness(e, i)
  /\ UNCHANGED <<link_state, offer, written, sessions, failures>>

-----------------------------------------------------------------------------
(* The network (external).                                                 *)

Lose(e) ==
  /\ Lossy
  /\ \E i \in DOMAIN net[e] : net' = Consumed(e, i)
  /\ UNCHANGED <<protocol, write_q, read_q, written, sessions, failures>>

LoseOffer ==
  /\ Lossy /\ offer
  /\ offer' = FALSE
  /\ UNCHANGED <<link_state, state, current_data, write_q, read_q, net,
                 written, sessions, failures>>

Next ==
  \/ ServerConnects \/ ClientConnects \/ LoseOffer
  \/ \E e \in End : Disconnects(e) \/ Write(e) \/ ProcessSend(e)
                      \/ Receive(e) \/ Lose(e)

Spec == Init /\ [][Next]_vars

\* asyncio runs every ready callback and task, and an unanswered client keeps
\* pinging: without loss each of these steps is eventually taken.
Progress ==
  /\ WF_vars(ServerConnects) /\ WF_vars(ClientConnects)
  /\ \A e \in End : WF_vars(ProcessSend(e)) /\ WF_vars(Receive(e))

\* The application may stop writing...
FairSpec == Spec /\ Progress
\* ... or be assumed to write all its MaxItems items.
BusySpec == FairSpec /\ \A e \in End : WF_vars(Write(e))

-----------------------------------------------------------------------------
(* Properties.                                                             *)

\* Every variable has its type: in particular a payload in read_q is an item,
\* not a datagram, and an end in RA remembers the item it sent or nothing.
TypeOK ==
  /\ link_state \in [End -> {"connected", "disconnected"}]
  /\ state \in [End -> {"RD", "RA", "WT"}]
  /\ current_data \in [End -> Nat]
  /\ write_q \in [End -> Seq(Nat \ {0})]
  /\ read_q \in [End -> Seq(Nat \ {0})]
  /\ net \in [End -> Seq(Datagram)]
  /\ offer \in BOOLEAN
  /\ written \in [End -> Nat]
  /\ sessions \in [End -> Nat]
  /\ failures \in [End -> Nat]

\* The right to send is with an end in RD, or with a DATA datagram under way.
HasTurn(e) == Connected(e) /\ state[e] = "RD"
DataIn(n, e) == {i \in DOMAIN n[e] : n[e][i].kind = "DATA"}

\* ... that is, at place 0 of an end or at a place of the queue to an end.
Tokens == {<<e, 0>> : e \in {f \in End : HasTurn(f)}}
            \cup UNION {{<<e, i>> : i \in DataIn(net, e)} : e \in End}

\* The two ends never both believe it is their turn, and no end believes so
\* while an item is still under way, whatever is lost, overtaken or cut off
\* and even when the two ends are in different sessions: the alternation the
\* class comment promises (SliceProtocol.py:46-56).
OneToken == \A s, t \in Tokens : s = t

\* How many items end e took from write_q, and how many of those its peer
\* has not received.
Taken(e) == written[e] - Len(write_q[e])
Missing(e) == Taken(e) - Len(read_q[Peer(e)])

\* What arrives at an end was written at the other one, arrives in the order
\* it was written and arrives once (DATA handler, SliceProtocol.py:93-102),
\* although nothing numbers the items on the wire.
InOrder ==
  \A e \in End :
    LET got == read_q[Peer(e)] IN
    /\ \A i \in DOMAIN got : got[i] \in 1..Taken(e)
    /\ \A i, j \in DOMAIN got : i < j => got[i] < got[j]

\* The one unacknowledged item is all that a session can cost: the two ends
\* together miss at most one item per session of the client.
OneLossPerSession == Missing("client") + Missing("server") <= sessions["client"]

\* Without loss or overtaking no DATA datagram is thrown away: an end is in WT
\* whenever one arrives, although an ACK may let it leave RA too early
\* (SliceProtocol.py:93-101, :103-110).
NoDataDiscarded ==
  \A e \in End : \A i \in Arrivals(e) :
    net[e][i].kind = "DATA" => state[e] = "WT"

\* current_data is cleared "as it was successfully transmitted"
\* (SliceProtocol.py:108): then nothing that was sent is missing.
AckMeansDelivered ==
  \A e \in End : Connected(e) /\ current_data[e] = None => Missing(e) = 0

\* If both applications keep writing and nothing fails, everything arrives.
EverythingArrives ==
  <>[](\A e \in End : Len(read_q[e]) = MaxItems)

\* The items under way, each with the end it is for.
Flight(n) ==
  UNION {{[to |-> e, item |-> n[e][i].item] : i \in DataIn(n, e)} : e \in End}

\* The slice protocol implements the alternating transfer.
Transfer == INSTANCE AlternatingTransfer WITH
  Item <- 1..MaxItems,
  turn <- {e \in End : HasTurn(e)},
  flight <- Flight(net),
  grants <- sessions["client"]

TransferSpec == Transfer!Spec
=============================================================================
