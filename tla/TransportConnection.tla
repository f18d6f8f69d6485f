------------------------- MODULE TransportConnection -------------------------
(***************************************************************************)
(* The connection of the transport layer: struct Connection with its rows  *)
(* of handle_event, driven by the frames of receive_ind and dropped in the *)
(* middle of a send by the select of ApplicationLayer::run.  The clients   *)
(* and the bus are the environment: a client sends one numbered packet at  *)
(* a time, repeats it until it is acknowledged and stops at a disconnect.  *)
(*                                                                         *)
(* This is the machine by itself.  In the running device the borrow of     *)
(* AppTakeConnected (module KnxStack) panics before it takes a step.       *)
(***************************************************************************)
EXTENDS Naturals, Sequences

CONSTANTS
    Peers,           \* addresses of the clients
    NoPeer,          \* src_addr: None
    MaxPackets,      \* bound: packets a client sends in one connection
    QueueCap,        \* bound: frames under way between a client and the device
    Faults,          \* what may go wrong, among FaultKinds
    OverflowChecks   \* the build traps arithmetic overflow (dev profile)

FaultKinds == {"oom", "cancel", "loss", "restart"}

ASSUME ConnectionAssumption ==
    /\ NoPeer \notin Peers
    /\ MaxPackets \in Nat /\ QueueCap \in Nat
    /\ Faults \subseteq FaultKinds
    /\ OverflowChecks \in BOOLEAN

VARIABLES
    state,      \* Connection.state
    seqRecv,    \* Connection.seq_no_recv
    srcAddr,    \* Connection.src_addr
    timer,      \* Connection.connection_timeout is Some
    call,       \* the action that waits in network.send, or NoCall
    panicked,
    delivered,  \* numbers of the packets indicated since the last A1
    up,         \* frames from each client, in order
    down,       \* frames to each client, in order
    phase,      \* what each client takes the connection for
    acked,      \* packets of each client acknowledged in its connection
    waiting     \* whether each client waits for an acknowledgement

connection == <<state, seqRecv, srcAddr, timer>>
device == <<connection, call, panicked, delivered>>
client == <<phase, acked, waiting>>
vars == <<device, up, down, client>>

(* A T_Data_Connected carries its 4-bit sequence number; no, the packet it  *)
(* belongs to, is seen by the properties only.                              *)
Connect == [kind |-> "connect"]
Disconnect == [kind |-> "disconnect"]
Data(n) == [kind |-> "data", seq |-> n % 16, no |-> n]
Ack(n) == [kind |-> "ack", seq |-> n]

NoCall == [act |-> "none"]

(* Mutant: a narrower mask.                                                 *)
tpci_seq_narrow(frame) == frame.seq % 4

(* FrameReader::tpci_seq keeps three bits of the four.                      *)
tpci_seq(frame) == frame.seq % 8

Init ==
    /\ state = "Closed"
    /\ seqRecv = 0
    /\ srcAddr = NoPeer
    /\ timer = FALSE
    /\ call = NoCall
    /\ panicked = FALSE
    /\ delivered = <<>>
    /\ up = [p \in Peers |-> <<>>]
    /\ down = [p \in Peers |-> <<>>]
    /\ phase = [p \in Peers |-> "closed"]
    /\ acked = [p \in Peers |-> 0]
    /\ waiting = [p \in Peers |-> FALSE]

-----------------------------------------------------------------------------
(* The device *)

(* receive_ind takes a frame of p of this kind: no call is under way. *)
Takes(p, kind) ==
    /\ call = NoCall /\ ~panicked
    /\ up[p] # <<>> /\ Head(up[p]).kind = kind
    /\ up' = [up EXCEPT ![p] = Tail(@)]
    /\ UNCHANGED client

(* send_response_frame up to its wait for the confirmation: the frame is in *)
(* the hands of the driver, or the pool had no block for it.                *)
Sends(p, frame, pending) ==
    \/ /\ down' = [down EXCEPT ![p] = Append(@, frame)]
       /\ call' = pending
    \/ /\ "oom" \in Faults
       /\ UNCHANGED <<down, call>>

(* Mutant: a new connection waits for a confirmation nobody sends. *)
ConnectStaysConnecting(p) ==
    /\ Takes(p, "connect")
    /\ state = "Closed"
    /\ state' = "Connecting"
    /\ seqRecv' = 0
    /\ srcAddr' = p
    /\ timer' = TRUE
    /\ delivered' = <<>>
    /\ UNCHANGED <<call, panicked, down>>

(* E00, E01 in Closed: new_connection_A1. *)
ConnectWhenClosed(p) ==
    /\ Takes(p, "connect")
    /\ state = "Closed"
    /\ state' = "OpenIdle"
    /\ seqRecv' = 0
    /\ srcAddr' = p
    /\ timer' = TRUE
    /\ delivered' = <<>>
    /\ UNCHANGED <<call, panicked, down>>

(* E00 while open: the state changes first, then disconnect_A6 sends. *)
ConnectAgain(p) ==
    /\ Takes(p, "connect")
    /\ state # "Closed" /\ srcAddr = p
    /\ state' = "Closed"
    /\ Sends(p, Disconnect, [act |-> "A6"])
    /\ UNCHANGED <<seqRecv, srcAddr, timer, panicked, delivered>>

(* Mutant: a newcomer takes the connection over. *)
ConnectTakesOver(p) ==
    /\ Takes(p, "connect")
    /\ state # "Closed" /\ srcAddr # p
    /\ srcAddr' = p
    /\ Sends(p, Disconnect, [act |-> "A10"])
    /\ UNCHANGED <<state, seqRecv, timer, panicked, delivered>>

(* E01 while open: reject_A10. *)
ConnectFromOther(p) ==
    /\ Takes(p, "connect")
    /\ state # "Closed" /\ srcAddr # p
    /\ Sends(p, Disconnect, [act |-> "A10"])
    /\ UNCHANGED <<connection, panicked, delivered>>

(* E02 while open: notify_disconect_A5. *)
DisconnectFromOwner(p) ==
    /\ Takes(p, "disconnect")
    /\ state # "Closed" /\ srcAddr = p
    /\ state' = "Closed"
    /\ timer' = FALSE
    /\ UNCHANGED <<seqRecv, srcAddr, call, panicked, delivered, down>>

(* E02 in Closed, E03. *)
DisconnectIgnored(p) ==
    /\ Takes(p, "disconnect")
    /\ state = "Closed" \/ srcAddr # p
    /\ UNCHANGED <<device, down>>

(* The previous number, as the subtraction of two u8 yields it. *)
PreviousSeq == (seqRecv + 255) % 256
Traps == OverflowChecks /\ seqRecv = 0

DataPanics(p) ==
    /\ Takes(p, "data")
    /\ srcAddr = p
    /\ tpci_seq(Head(up[p])) # seqRecv
    /\ Traps
    /\ panicked' = TRUE
    /\ UNCHANGED <<connection, call, delivered, down>>

(* E04 while open: ack_data_A2, up to its wait. *)
DataInSequence(p) ==
    /\ Takes(p, "data")
    /\ state # "Closed" /\ srcAddr = p
    /\ tpci_seq(Head(up[p])) = seqRecv
    /\ Sends(p, Ack(seqRecv % 8), [act |-> "A2", no |-> Head(up[p]).no])
    /\ UNCHANGED <<connection, panicked, delivered>>

(* Mutant: a repeated packet is indicated a second time. *)
DataRepeatedIndicated(p) ==
    /\ Takes(p, "data")
    /\ state # "Closed" /\ srcAddr = p
    /\ tpci_seq(Head(up[p])) # seqRecv /\ ~Traps
    /\ tpci_seq(Head(up[p])) = PreviousSeq
    /\ Sends(p, Ack(tpci_seq(Head(up[p]))), [act |-> "A2", no |-> Head(up[p]).no])
    /\ UNCHANGED <<connection, panicked, delivered>>

(* E05 while open: ack_A3, up to its wait. *)
DataRepeated(p) ==
    /\ Takes(p, "data")
    /\ state # "Closed" /\ srcAddr = p
    /\ tpci_seq(Head(up[p])) # seqRecv /\ ~Traps
    /\ tpci_seq(Head(up[p])) = PreviousSeq
    /\ Sends(p, Ack(tpci_seq(Head(up[p]))), [act |-> "A3"])
    /\ UNCHANGED <<connection, panicked, delivered>>

(* E04, E05 in Closed: reject_A10. *)
DataWhenClosed(p) ==
    /\ Takes(p, "data")
    /\ state = "Closed" /\ srcAddr = p
    /\ \/ tpci_seq(Head(up[p])) = seqRecv
       \/ ~Traps /\ tpci_seq(Head(up[p])) = PreviousSeq
    /\ Sends(p, Disconnect, [act |-> "A10"])
    /\ UNCHANGED <<connection, panicked, delivered>>

(* E06, E07: the last row of handle_event. *)
DataIgnored(p) ==
    /\ Takes(p, "data")
    /\ \/ srcAddr # p
       \/ /\ tpci_seq(Head(up[p])) # seqRecv /\ ~Traps
          /\ tpci_seq(Head(up[p])) # PreviousSeq
    /\ UNCHANGED <<device, down>>

(* Mutant: ack_data_A2 returns None, as ack_A3 does. *)
CallReturnsNothing ==
    /\ call # NoCall
    /\ call' = NoCall
    /\ timer' = (call.act \in {"A2", "A3"} \/ (call.act = "A10" /\ timer))
    /\ seqRecv' = IF call.act = "A2" THEN (seqRecv + 1) % 256 ELSE seqRecv
    /\ UNCHANGED <<state, srcAddr, panicked, delivered, up, down, client>>

(* The driver confirms the response and the action goes on after its send. *)
CallReturns ==
    /\ call # NoCall
    /\ call' = NoCall
    /\ timer' = (call.act \in {"A2", "A3"} \/ (call.act = "A10" /\ timer))
    /\ IF call.act = "A2"
          THEN seqRecv' = (seqRecv + 1) % 256 /\ delivered' = Append(delivered, call.no)
          ELSE UNCHANGED <<seqRecv, delivered>>
    /\ UNCHANGED <<state, srcAddr, panicked, up, down, client>>

(* A group response is ready to be sent: the select of run drops the       *)
(* receive, and with it the rest of the action.                             *)
CallDropped ==
    /\ "cancel" \in Faults
    /\ call # NoCall
    /\ call' = NoCall
    /\ UNCHANGED <<connection, panicked, delivered, up, down, client>>

(* The ticker fires; connection_timeout has nothing to do. *)
TimerFires ==
    /\ timer /\ call = NoCall /\ ~panicked
    /\ UNCHANGED vars

Handles(p) ==
    \/ ConnectWhenClosed(p) \/ ConnectAgain(p) \/ ConnectFromOther(p)
    \/ DisconnectFromOwner(p) \/ DisconnectIgnored(p)
    \/ DataPanics(p) \/ DataInSequence(p) \/ DataRepeated(p)
    \/ DataWhenClosed(p) \/ DataIgnored(p)

-----------------------------------------------------------------------------
(* The clients and the bus.  A frame a client cannot get through is known  *)
(* to it from the bus; a frame of the device may be lost unnoticed.        *)

Posts(p, frame) ==
    /\ Len(up[p]) + Len(down[p]) < QueueCap
    /\ up' = [up EXCEPT ![p] = Append(@, frame)]
    /\ UNCHANGED <<device, down>>

(* A client connects when no frame of its last connection is under way any *)
(* more: the bus is one wire and no frame lingers on it.                    *)
ClientConnects(p) ==
    /\ phase[p] = "closed"
    /\ up[p] = <<>> /\ down[p] = <<>>
    /\ Posts(p, Connect)
    /\ phase' = [phase EXCEPT ![p] = "open"]
    /\ acked' = [acked EXCEPT ![p] = 0]
    /\ waiting' = [waiting EXCEPT ![p] = FALSE]

ClientSends(p) ==
    /\ phase[p] = "open" /\ ~waiting[p] /\ acked[p] < MaxPackets
    /\ Posts(p, Data(acked[p]))
    /\ waiting' = [waiting EXCEPT ![p] = TRUE]
    /\ UNCHANGED <<phase, acked>>

ClientRepeats(p) ==
    /\ phase[p] = "open" /\ waiting[p]
    /\ Posts(p, Data(acked[p]))
    /\ UNCHANGED client

ClientDisconnects(p) ==
    /\ phase[p] = "open" /\ ~waiting[p]
    /\ Posts(p, Disconnect)
    /\ phase' = [phase EXCEPT ![p] = "closed"]
    /\ UNCHANGED <<acked, waiting>>

Receives(p) ==
    /\ down[p] # <<>>
    /\ down' = [down EXCEPT ![p] = Tail(@)]
    /\ UNCHANGED <<device, up>>

Acknowledges(p, frame) ==
    phase[p] = "open" /\ waiting[p] /\ frame = Ack(acked[p] % 16)

ClientAcknowledged(p) ==
    /\ Receives(p)
    /\ Acknowledges(p, Head(down[p]))
    /\ acked' = [acked EXCEPT ![p] = @ + 1]
    /\ waiting' = [waiting EXCEPT ![p] = FALSE]
    /\ UNCHANGED phase

ClientDisconnected(p) ==
    /\ Receives(p)
    /\ Head(down[p]) = Disconnect
    /\ phase' = [phase EXCEPT ![p] = "closed"]
    /\ waiting' = [waiting EXCEPT ![p] = FALSE]
    /\ UNCHANGED acked

ClientIgnores(p) ==
    /\ Receives(p)
    /\ Head(down[p]) # Disconnect /\ ~Acknowledges(p, Head(down[p]))
    /\ UNCHANGED client

BusLoses(p) ==
    /\ "loss" \in Faults
    /\ Receives(p)
    /\ UNCHANGED client

(* The client forgets the connection and tells nobody. *)
ClientRestarts(p) ==
    /\ "restart" \in Faults
    /\ phase[p] = "open"
    /\ phase' = [phase EXCEPT ![p] = "closed"]
    /\ waiting' = [waiting EXCEPT ![p] = FALSE]
    /\ UNCHANGED <<device, up, down, acked>>

ClientStep(p) ==
    \/ ClientConnects(p) \/ ClientSends(p) \/ ClientRepeats(p) \/ ClientDisconnects(p)
    \/ ClientAcknowledged(p) \/ ClientDisconnected(p) \/ ClientIgnores(p)
    \/ BusLoses(p) \/ ClientRestarts(p)

Next ==
    \/ \E p \in Peers : Handles(p) \/ ClientStep(p)
    \/ CallReturns \/ CallDropped \/ TimerFires

Spec == Init /\ [][Next]_vars

(***************************************************************************)
(* The executor runs the device on; the pool, whose blocks all come back   *)
(* (BoxesConserved of KnxStack), is not found empty every time; a waiting  *)
(* client repeats, and what is sent to it again and again arrives at last. *)
(***************************************************************************)
Acks(p) == (DataInSequence(p) \/ DataRepeated(p)) /\ call' # NoCall

Fairness ==
    /\ WF_vars(CallReturns)
    /\ \A p \in Peers :
          /\ WF_vars(Handles(p))
          /\ SF_vars(Acks(p))
          /\ WF_vars(ClientRepeats(p))
          /\ SF_vars(ClientAcknowledged(p))
          /\ WF_vars(ClientIgnores(p))

FairSpec == Spec /\ Fairness

-----------------------------------------------------------------------------
(* Properties *)

Frames == {Connect, Disconnect} \cup {Data(n) : n \in 0 .. MaxPackets}
          \cup {Ack(n) : n \in 0 .. 7}

(* Every variable stays in its range. *)
TypeOK ==
    /\ state \in {"Closed", "OpenIdle"}
    /\ seqRecv \in 0 .. 8
    /\ srcAddr \in Peers \cup {NoPeer}
    /\ timer \in BOOLEAN /\ panicked \in BOOLEAN
    /\ call = NoCall \/ call.act \in {"A2", "A3", "A6", "A10"}
    /\ \A i \in DOMAIN delivered : delivered[i] \in 0 .. MaxPackets
    /\ \A p \in Peers :
          /\ \A i \in DOMAIN up[p] : up[p][i] \in Frames
          /\ \A i \in DOMAIN down[p] : down[p][i] \in Frames
          /\ phase[p] \in {"closed", "open"}
          /\ acked[p] \in 0 .. MaxPackets
          /\ waiting[p] \in BOOLEAN

(* What a connection indicates is what its client sent, in order, nothing  *)
(* missing and nothing twice, whatever is repeated, lost or restarted.     *)
DeliveredInOrder == \A i \in DOMAIN delivered : delivered[i] = i - 1

(* Both ends take part in the same connection. *)
InSession(p) ==
    /\ phase[p] = "open"
    /\ state = "OpenIdle" /\ srcAddr = p
    /\ \A i \in DOMAIN up[p] : up[p][i].kind = "data"

(* A packet the client has seen acknowledged was indicated, or is about to *)
(* be as soon as the send of its acknowledgement returns.                  *)
AckedIsDelivered ==
    \A p \in Peers :
        InSession(p) => acked[p] <= Len(delivered) + IF call.act = "A2" THEN 1 ELSE 0

(* While a connection is open only its owner can end it, and nobody can    *)
(* take it over.                                                           *)
OwnerKeepsConnection ==
    [][state = "OpenIdle" =>
          /\ srcAddr' = srcAddr
          /\ state' = "Closed" =>
                /\ Head(up[srcAddr]) \in {Connect, Disconnect}
                /\ up'[srcAddr] = Tail(up[srcAddr])]_vars

(* A client that waits for an acknowledgement gets it, although frames to  *)
(* it are lost.                                                            *)
PacketsAcked == \A p \in Peers : waiting[p] ~> ~waiting[p]

(* A connection nobody uses any more is closed at last. *)
SilentPeerDropped ==
    <>[](\A p \in Peers : phase[p] = "closed") => <>[](state = "Closed")
=============================================================================
