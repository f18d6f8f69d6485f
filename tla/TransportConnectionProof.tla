---------------------- MODULE TransportConnectionProof ----------------------
(***************************************************************************)
(* What holds of TransportConnection for any number of clients, packets    *)
(* and frames under way.                                                   *)
(*                                                                         *)
(* A packet is recognised by three bits of its number.  The inductive      *)
(* invariant shows that they suffice: a frame of the connection is at most *)
(* one packet ahead of the device (Session), because a client only goes on *)
(* when acknowledged, and no frame is left over from an earlier connection *)
(* when the device opens one (ConnectFirst).                               *)
(***************************************************************************)
EXTENDS TransportConnection, QueueLemmas

Calls ==
    {NoCall} \cup {[act |-> a] : a \in {"A3", "A6", "A10"}}
    \cup {[act |-> "A2", no |-> n] : n \in 0 .. MaxPackets}

(* The types, with those of the queues as wholes; a client that waits has  *)
(* a packet to wait for.                                                   *)
Typed ==
    /\ state \in {"Closed", "OpenIdle"}
    /\ seqRecv \in 0 .. 8
    /\ srcAddr \in Peers \cup {NoPeer}
    /\ timer \in BOOLEAN /\ panicked \in BOOLEAN
    /\ call \in Calls
    /\ delivered \in Seq(0 .. MaxPackets)
    /\ up \in [Peers -> Seq(Frames)]
    /\ down \in [Peers -> Seq(Frames)]
    /\ phase \in [Peers -> {"closed", "open"}]
    /\ acked \in [Peers -> 0 .. MaxPackets]
    /\ waiting \in [Peers -> BOOLEAN]
    /\ \A p \in Peers : waiting[p] => acked[p] < MaxPackets

(* The sequence number counts what was indicated, and the packet about to  *)
(* be indicated is the next one.                                           *)
Counted ==
    /\ Len(delivered) = seqRecv
    /\ call.act = "A2" => state = "OpenIdle" /\ seqRecv < 8 /\ call.no = seqRecv

(* A client sends no packet before those it knows to be acknowledged.      *)
NothingAhead(p) ==
    \A f \in Range(up[p]) : f.kind = "data" => f.no <= acked[p]

(* A connection request is the first frame of its client under way, and    *)
(* the device owes the client nothing from before.                         *)
ConnectFirst(p) ==
    Connect \in Range(up[p]) =>
        Connect \notin Range(Tail(up[p])) /\ down[p] = <<>> /\ acked[p] = 0

(* The packets that may have been acknowledged in the present connection.  *)
Expected == IF call.act = "A2" \/ "cancel" \in Faults THEN seqRecv + 1 ELSE seqRecv

(* In the connection the device holds open.                                *)
Session(p) ==
    state = "OpenIdle" /\ srcAddr = p /\ Connect \notin Range(up[p]) =>
        /\ acked[p] <= Expected
        /\ \A f \in Range(down[p]) : f.kind = "ack" => f.seq < Expected

IInv ==
    /\ Typed /\ Counted /\ DeliveredInOrder
    /\ \A p \in Peers : NothingAhead(p) /\ ConnectFirst(p) /\ Session(p)

(* The three bits of the sequence number and the first one after them.     *)
AckedAtMostEight == \A p \in Peers : acked[p] <= 8

-----------------------------------------------------------------------------
(* Frames *)

(* What the kinds of frame are, and how they differ.                       *)
LEMMA FrameFacts ==
  /\ Connect \in Frames /\ Disconnect \in Frames
  /\ Connect.kind = "connect" /\ Disconnect.kind = "disconnect"
  /\ \A n \in 0 .. MaxPackets :
        Data(n) \in Frames /\ Data(n).kind = "data" /\ Data(n).no = n
  /\ \A n \in 0 .. 7 : Ack(n) \in Frames /\ Ack(n).kind = "ack" /\ Ack(n).seq = n
  /\ \A f \in Frames :
        /\ f.kind = "connect" <=> f = Connect
        /\ f.kind = "disconnect" <=> f = Disconnect
        /\ f.kind = "data" => f.no \in 0 .. MaxPackets /\ f.seq = f.no % 16
        /\ f.kind = "ack" => f.seq \in 0 .. 7
        /\ \A n \in Nat : f = Ack(n) => f.kind = "ack" /\ f.seq = n
<1>1. \A f \in Frames :
         \/ f = Connect \/ f = Disconnect
         \/ \E n \in 0 .. MaxPackets : f = Data(n)
         \/ \E n \in 0 .. 7 : f = Ack(n)
  BY DEF Frames
<1>2. /\ Connect.kind = "connect" /\ Disconnect.kind = "disconnect"
      /\ \A n : Data(n).kind = "data" /\ Data(n).no = n /\ Data(n).seq = n % 16
      /\ \A n : Ack(n).kind = "ack" /\ Ack(n).seq = n
  BY DEF Connect, Disconnect, Data, Ack
<1>3. /\ Connect \in Frames /\ Disconnect \in Frames
      /\ \A n \in 0 .. MaxPackets : Data(n) \in Frames
      /\ \A n \in 0 .. 7 : Ack(n) \in Frames
  BY DEF Frames
<1> QED
  BY <1>1, <1>2, <1>3

(* tpci_seq keeps three bits of the packet's number.                       *)
LEMMA ThreeBits ==
  ASSUME NEW f \in Frames, f.kind = "data"
  PROVE  tpci_seq(f) = f.no % 8 /\ tpci_seq(f) \in 0 .. 7
<1>1. f.no \in Nat /\ f.seq = f.no % 16
  BY FrameFacts, ConnectionAssumption
<1> QED
  BY <1>1 DEF tpci_seq

(* Taking a frame from a queue and putting one at its end.                 *)
LEMMA QueueTake ==
  ASSUME NEW s \in Seq(Frames), s # <<>>
  PROVE  /\ Head(s) \in Frames /\ Tail(s) \in Seq(Frames)
         /\ Range(s) = {Head(s)} \cup Range(Tail(s))
  BY RangeHeadTail

LEMMA QueuePut ==
  ASSUME NEW s \in Seq(Frames), NEW f \in Frames
  PROVE  /\ Append(s, f) \in Seq(Frames)
         /\ Range(Append(s, f)) = Range(s) \cup {f}
         /\ Range(Tail(Append(s, f))) = IF s = <<>> THEN {} ELSE Range(Tail(s)) \cup {f}
  BY RangeAppend, RangeTailAppend

(* The actions that wait in network.send.                                  *)
LEMMA CallFacts ==
  /\ NoCall \in Calls
  /\ NoCall.act = "none"
  /\ \A a \in {"A3", "A6", "A10"} :
        [act |-> a] \in Calls /\ [act |-> a] # NoCall /\ [act |-> a].act = a
  /\ \A n \in 0 .. MaxPackets :
        /\ [act |-> "A2", no |-> n] \in Calls /\ [act |-> "A2", no |-> n] # NoCall
        /\ [act |-> "A2", no |-> n].act = "A2" /\ [act |-> "A2", no |-> n].no = n
  /\ \A c \in Calls :
        /\ c = NoCall \/ c.act \in {"A2", "A3", "A6", "A10"}
        /\ c.act = "A2" => c.no \in 0 .. MaxPackets
<1>1. NoCall.act = "none"
  BY DEF NoCall
<1>2. \A a \in {"A3", "A6", "A10"} :
         [act |-> a] \in Calls /\ [act |-> a] # NoCall /\ [act |-> a].act = a
  BY <1>1 DEF Calls
<1>3. \A n \in 0 .. MaxPackets :
         /\ [act |-> "A2", no |-> n] \in Calls
         /\ [act |-> "A2", no |-> n].act = "A2" /\ [act |-> "A2", no |-> n].no = n
  BY DEF Calls
<1>4. \A n \in 0 .. MaxPackets : [act |-> "A2", no |-> n] # NoCall
  BY <1>1, <1>3
<1>5. NoCall \in Calls
  BY DEF Calls
<1>6. ASSUME NEW c \in Calls
      PROVE  /\ c = NoCall \/ c.act \in {"A2", "A3", "A6", "A10"}
             /\ c.act = "A2" => c.no \in 0 .. MaxPackets
  <2>1. \/ c = NoCall \/ \E a \in {"A3", "A6", "A10"} : c = [act |-> a]
        \/ \E n \in 0 .. MaxPackets : c = [act |-> "A2", no |-> n]
    BY DEF Calls
  <2> QED
    BY <1>1, <1>2, <1>3, <2>1
<1> QED
  BY <1>1, <1>2, <1>3, <1>4, <1>5, <1>6

-----------------------------------------------------------------------------
(* The inductive invariant *)

(* At the start every queue is empty and nobody is connected.              *)
LEMMA InitIInv == Init => IInv
<1> SUFFICES ASSUME Init PROVE IInv
  OBVIOUS
<1>1. <<>> \in Seq(Frames) /\ <<>> \in Seq(0 .. MaxPackets) /\ Len(<<>>) = 0
  BY EmptySeq
<1>2. Typed
  <2>1. waiting \in [Peers -> BOOLEAN] /\ \A p \in Peers : ~waiting[p]
    BY DEF Init
  <2>2. up \in [Peers -> Seq(Frames)] /\ down \in [Peers -> Seq(Frames)]
    BY <1>1 DEF Init
  <2>3. phase \in [Peers -> {"closed", "open"}] /\ acked \in [Peers -> 0 .. MaxPackets]
    BY ConnectionAssumption DEF Init
  <2> QED
    <3>1. /\ state \in {"Closed", "OpenIdle"} /\ seqRecv \in 0 .. 8
          /\ srcAddr \in Peers \cup {NoPeer}
          /\ call \in Calls /\ delivered \in Seq(0 .. MaxPackets)
      BY <1>1, CallFacts DEF Init
    <3>2. timer \in BOOLEAN /\ panicked \in BOOLEAN
      BY DEF Init
    <3> QED
      BY <2>1, <2>2, <2>3, <3>1, <3>2 DEF Typed
<1>3. Counted /\ DeliveredInOrder
  BY <1>1, CallFacts DEF Init, Counted, DeliveredInOrder
<1>4. \A p \in Peers : NothingAhead(p) /\ ConnectFirst(p) /\ Session(p)
  BY RangeOfEmpty DEF Init, NothingAhead, ConnectFirst, Session
<1> QED
  BY <1>2, <1>3, <1>4 DEF IInv

(* Taking a frame of a client touches no other client; once its head is    *)
(* taken there is no connection request in the queue.                      *)
LEMMA TakesFacts ==
  ASSUME IInv, NEW p \in Peers, NEW kind, Takes(p, kind)
  PROVE  /\ call = NoCall /\ call.act = "none"
         /\ up' \in [Peers -> Seq(Frames)]
         /\ Head(up[p]) \in Frames /\ Head(up[p]).kind = kind
         /\ Head(up[p]) \in Range(up[p])
         /\ Range(up'[p]) \subseteq Range(up[p])
         /\ Connect \notin Range(up'[p])
         /\ kind = "connect" <=> Connect \in Range(up[p])
         /\ \A q \in Peers : q # p => up'[q] = up[q]
         /\ UNCHANGED client
<1>1. up \in [Peers -> Seq(Frames)] /\ up[p] \in Seq(Frames)
  BY DEF IInv, Typed
<1>2. /\ up[p] # <<>> /\ Head(up[p]).kind = kind
      /\ up' = [up EXCEPT ![p] = Tail(@)]
      /\ call = NoCall /\ UNCHANGED client
  BY DEF Takes
<1>3. /\ Head(up[p]) \in Frames /\ Tail(up[p]) \in Seq(Frames)
      /\ Range(up[p]) = {Head(up[p])} \cup Range(Tail(up[p]))
  BY <1>1, <1>2, QueueTake
<1>4. /\ up'[p] = Tail(up[p])
      /\ up' \in [Peers -> Seq(Frames)]
      /\ \A q \in Peers : q # p => up'[q] = up[q]
  BY <1>1, <1>2, <1>3
<1>5. Connect \in Range(up[p]) => Connect \notin Range(Tail(up[p]))
  BY DEF IInv, ConnectFirst
<1>6. Head(up[p]).kind = "connect" <=> Head(up[p]) = Connect
  BY <1>3, FrameFacts
<1>7. call.act = "none"
  BY <1>2, CallFacts
<1> QED
  BY <1>2, <1>3, <1>4, <1>5, <1>6, <1>7

(* A frame of the device joins those on the way to one client.             *)
LEMMA SendsFacts ==
  ASSUME Typed, NEW p \in Peers, NEW f \in Frames, NEW c \in Calls, Sends(p, f, c)
  PROVE  /\ down' \in [Peers -> Seq(Frames)] /\ call' \in Calls
         /\ call' = c \/ call' = call
         /\ Range(down'[p]) \subseteq Range(down[p]) \cup {f}
         /\ call' = call => c = call \/ down' = down
         /\ \A q \in Peers : q # p => down'[q] = down[q]
<1>1. /\ down \in [Peers -> Seq(Frames)] /\ down[p] \in Seq(Frames)
      /\ call \in Calls
  BY DEF Typed
<1>2. CASE down' = down /\ call' = call
  BY <1>1, <1>2
<1>3. CASE down' = [down EXCEPT ![p] = Append(@, f)] /\ call' = c
  <2>1. /\ Append(down[p], f) \in Seq(Frames)
        /\ Range(Append(down[p], f)) = Range(down[p]) \cup {f}
    BY <1>1, QueuePut
  <2> QED
    BY <1>1, <1>3, <2>1
<1> QED
  BY <1>2, <1>3 DEF Sends

(* What is left to show of a step of the device that takes a frame of p.   *)
LEMMA DeviceKeepsIInv ==
  ASSUME IInv, NEW p \in Peers, NEW kind, Takes(p, kind),
         /\ state' \in {"Closed", "OpenIdle"}
         /\ seqRecv' \in 0 .. 8
         /\ srcAddr' \in Peers \cup {NoPeer}
         /\ timer' \in BOOLEAN /\ panicked' \in BOOLEAN
         /\ call' \in Calls
         /\ delivered' \in Seq(0 .. MaxPackets)
         /\ down' \in [Peers -> Seq(Frames)],
         Counted', DeliveredInOrder',
         Session(p)',
         \A q \in Peers : q # p => down'[q] = down[q],
         \A q \in Peers : q # p /\ state' = "OpenIdle" /\ srcAddr' = q =>
             state = "OpenIdle" /\ srcAddr = q /\ Expected' = Expected
  PROVE  IInv'
<1>1. Typed'
  BY TakesFacts DEF IInv, Typed, client
<1>2. ASSUME NEW q \in Peers PROVE (NothingAhead(q) /\ ConnectFirst(q) /\ Session(q))'
  <2>1. CASE q = p
    BY <2>1, TakesFacts DEF IInv, NothingAhead, ConnectFirst, client
  <2>2. CASE q # p
    <3>1. /\ up'[q] = up[q] /\ down'[q] = down[q] /\ acked' = acked
          /\ NothingAhead(q) /\ ConnectFirst(q) /\ Session(q)
      BY <2>2, TakesFacts DEF IInv, client
    <3>2. NothingAhead(q)' /\ ConnectFirst(q)'
      BY <3>1 DEF NothingAhead, ConnectFirst
    <3>3. Session(q)'
      BY <2>2, <3>1 DEF Session
    <3> QED
      BY <3>2, <3>3
  <2> QED
    BY <2>1, <2>2
<1> QED
  BY <1>1, <1>2 DEF IInv

(* Three bits of the number of a packet of the present connection tell     *)
(* which one it is.                                                        *)
LEMMA Recognised ==
  ASSUME IInv, NEW p \in Peers, Takes(p, "data"),
         state = "OpenIdle", srcAddr = p, tpci_seq(Head(up[p])) = seqRecv
  PROVE  Head(up[p]).no = seqRecv /\ seqRecv < 8
<1> DEFINE f == Head(up[p])
<1>1. f \in Frames /\ f.kind = "data" /\ f \in Range(up[p])
  BY TakesFacts
<1>2. f.no \in Nat /\ seqRecv = f.no % 8 /\ seqRecv \in 0 .. 7
  BY <1>1, ThreeBits, FrameFacts, ConnectionAssumption
<1>3. acked[p] \in Nat /\ f.no <= acked[p]
  BY <1>1, ConnectionAssumption DEF IInv, Typed, NothingAhead
<1>4. acked[p] <= Expected
  BY TakesFacts DEF IInv, Session
<1>5. Expected \in Nat /\ Expected <= seqRecv + 1
  BY <1>2 DEF Expected
<1> HIDE DEF f
<1>6. f.no <= seqRecv + 1
  BY <1>2, <1>3, <1>4, <1>5
<1>7. f.no = seqRecv /\ seqRecv < 8
  BY <1>2, <1>6
<1> QED
  BY <1>7 DEF f

(* The variables as the proofs of the steps need them.                     *)
LEMMA TypedFacts ==
  ASSUME IInv
  PROVE  /\ state \in {"Closed", "OpenIdle"}
         /\ seqRecv \in 0 .. 8
         /\ srcAddr \in Peers \cup {NoPeer}
         /\ timer \in BOOLEAN /\ panicked \in BOOLEAN
         /\ call \in Calls
         /\ delivered \in Seq(0 .. MaxPackets)
         /\ down \in [Peers -> Seq(Frames)]
         /\ Len(delivered) = seqRecv
         /\ DeliveredInOrder
  BY DEF IInv, Typed, Counted

(* A T_Disconnect is no answer to data: nothing is going to be indicated.  *)
LEMMA RejectFacts ==
  ASSUME IInv, NEW p \in Peers, NEW kind, Takes(p, kind),
         NEW a \in {"A6", "A10"}, Sends(p, Disconnect, [act |-> a])
  PROVE  /\ down' \in [Peers -> Seq(Frames)] /\ call' \in Calls
         /\ call.act # "A2" /\ call'.act # "A2"
         /\ \A q \in Peers : q # p => down'[q] = down[q]
<1>1. call = NoCall /\ NoCall.act = "none"
  BY TakesFacts, CallFacts
<1>2. [act |-> a] \in Calls /\ [act |-> a].act # "A2" /\ Disconnect \in Frames
  BY CallFacts, FrameFacts
<1> QED
  BY <1>1, <1>2, SendsFacts DEF IInv

(* A connection request opens a connection at number 0, or opens none.     *)
LEMMA ConnectsKeepIInv ==
  ASSUME IInv, NEW p \in Peers,
         ConnectWhenClosed(p) \/ ConnectAgain(p) \/ ConnectFromOther(p)
  PROVE  IInv'
<1>1. CASE ConnectWhenClosed(p)
  <2>1. /\ Takes(p, "connect")
        /\ state' = "OpenIdle" /\ seqRecv' = 0 /\ srcAddr' = p /\ timer' = TRUE
        /\ delivered' = <<>> /\ UNCHANGED <<call, panicked, down>>
    BY <1>1 DEF ConnectWhenClosed
  <2>2. <<>> \in Seq(0 .. MaxPackets) /\ Len(<<>>) = 0
    BY EmptySeq
  <2>3. Counted' /\ DeliveredInOrder'
    BY <2>1, <2>2, TakesFacts DEF Counted, DeliveredInOrder
  <2>4. Session(p)'
    <3>1. down'[p] = <<>> /\ acked'[p] = 0
      BY <2>1, TakesFacts DEF IInv, ConnectFirst, client
    <3>2. Expected' \in Nat
      BY <2>1 DEF Expected
    <3> QED
      BY <3>1, <3>2, RangeOfEmpty DEF Session
  <2>5. timer' \in BOOLEAN
    BY <2>1
  <2> QED
    BY <2>1, <2>2, <2>3, <2>4, <2>5, TypedFacts, DeviceKeepsIInv
<1>2. CASE ConnectAgain(p)
  <2>1. /\ Takes(p, "connect")
        /\ state' = "Closed" /\ Sends(p, Disconnect, [act |-> "A6"])
        /\ UNCHANGED <<seqRecv, srcAddr, timer, panicked, delivered>>
    BY <1>2 DEF ConnectAgain
  <2>2. /\ down' \in [Peers -> Seq(Frames)] /\ call' \in Calls /\ call'.act # "A2"
        /\ \A q \in Peers : q # p => down'[q] = down[q]
    BY <2>1, RejectFacts
  <2>3. Counted' /\ DeliveredInOrder' /\ Session(p)'
    BY <2>1, <2>2, TypedFacts DEF Counted, DeliveredInOrder, Session
  <2> QED
    BY <2>1, <2>2, <2>3, TypedFacts, DeviceKeepsIInv
<1>3. CASE ConnectFromOther(p)
  <2>1. /\ Takes(p, "connect")
        /\ srcAddr # p /\ Sends(p, Disconnect, [act |-> "A10"])
        /\ UNCHANGED <<connection, panicked, delivered>>
    BY <1>3 DEF ConnectFromOther
  <2>2. /\ down' \in [Peers -> Seq(Frames)] /\ call' \in Calls
        /\ call.act # "A2" /\ call'.act # "A2"
        /\ \A q \in Peers : q # p => down'[q] = down[q]
    BY <2>1, RejectFacts
  <2>3. Counted' /\ DeliveredInOrder' /\ Session(p)' /\ Expected' = Expected
    BY <2>1, <2>2, TypedFacts DEF Counted, DeliveredInOrder, Session, Expected, connection
  <2> QED
    BY <2>1, <2>2, <2>3, TypedFacts, DeviceKeepsIInv DEF connection
<1> QED
  BY <1>1, <1>2, <1>3

(* A packet that is not the next one leaves the connection as it is.       *)
LEMMA IgnoredKeepsIInv ==
  ASSUME IInv, NEW p \in Peers, NEW kind, Takes(p, kind),
         \/ kind = "data"
         \/ state = "Closed" \/ srcAddr # p,
         UNCHANGED <<connection, call, delivered, down>>, panicked' \in BOOLEAN
  PROVE  IInv'
<1>1. UNCHANGED <<state, seqRecv, srcAddr, timer, call, delivered, down>>
  BY DEF connection
<1>2. Counted' /\ DeliveredInOrder' /\ Expected' = Expected
  BY <1>1 DEF IInv, Counted, DeliveredInOrder, Expected
<1>3. Session(p)'
  <2>1. Session(p)
    BY DEF IInv
  <2>2. acked' = acked /\ (kind = "data" => Connect \notin Range(up[p]))
    BY TakesFacts DEF client
  <2> QED
    BY <1>1, <1>2, <2>1, <2>2 DEF Session
<1> QED
  BY <1>1, <1>2, <1>3, TypedFacts, DeviceKeepsIInv

(* A disconnect ends the connection or is ignored.                         *)
LEMMA DisconnectsKeepIInv ==
  ASSUME IInv, NEW p \in Peers, DisconnectFromOwner(p) \/ DisconnectIgnored(p)
  PROVE  IInv'
<1>1. CASE DisconnectFromOwner(p)
  <2>1. /\ Takes(p, "disconnect") /\ state' = "Closed" /\ timer' = FALSE
        /\ UNCHANGED <<seqRecv, srcAddr, call, panicked, delivered, down>>
    BY <1>1 DEF DisconnectFromOwner
  <2>2. Counted' /\ DeliveredInOrder' /\ Session(p)'
    BY <2>1, TypedFacts, TakesFacts DEF Counted, DeliveredInOrder, Session
  <2>3. timer' \in BOOLEAN
    BY <2>1
  <2> QED
    BY <2>1, <2>2, <2>3, TypedFacts, DeviceKeepsIInv
<1>2. CASE DisconnectIgnored(p)
  BY <1>2, TypedFacts, IgnoredKeepsIInv DEF DisconnectIgnored, device
<1> QED
  BY <1>1, <1>2

(* The next packet is the one about to be indicated; a repeated one is     *)
(* acknowledged under its own number.                                      *)
LEMMA DataKeepsIInv ==
  ASSUME IInv, NEW p \in Peers,
         \/ DataPanics(p) \/ DataInSequence(p) \/ DataRepeated(p)
         \/ DataWhenClosed(p) \/ DataIgnored(p)
  PROVE  IInv'
<1>1. CASE DataPanics(p)
  BY <1>1, IgnoredKeepsIInv DEF DataPanics
<1>2. CASE DataInSequence(p)
  <2> DEFINE f == Head(up[p])
             c == [act |-> "A2", no |-> f.no]
  <2>1. /\ Takes(p, "data") /\ state = "OpenIdle" /\ srcAddr = p
        /\ tpci_seq(f) = seqRecv
        /\ Sends(p, Ack(seqRecv % 8), c)
        /\ UNCHANGED <<state, seqRecv, srcAddr, timer, panicked, delivered>>
    BY <1>2, TypedFacts DEF DataInSequence, connection
  <2>2. f.no = seqRecv /\ seqRecv < 8 /\ f.no \in 0 .. MaxPackets
    <3>1. f.no = seqRecv /\ seqRecv < 8
      BY <2>1, Recognised
    <3>2. f \in Frames /\ f.kind = "data"
      BY <2>1, TakesFacts
    <3> HIDE DEF f
    <3> QED
      BY <3>1, <3>2, FrameFacts
  <2> HIDE DEF f
  <2>3. seqRecv \in 0 .. 7 /\ seqRecv % 8 = seqRecv
    <3>1. seqRecv \in 0 .. 7
      BY <2>2, TypedFacts
    <3> QED
      BY <3>1
  <2>4. /\ c \in Calls /\ c # NoCall /\ c.act = "A2" /\ c.no = seqRecv
        /\ call = NoCall /\ call.act = "none"
    BY <2>1, <2>2, CallFacts, TakesFacts
  <2>5. Ack(seqRecv) \in Frames /\ Ack(seqRecv).seq = seqRecv
    BY <2>3, FrameFacts
  <2> HIDE DEF c
  <2>6. /\ down' \in [Peers -> Seq(Frames)] /\ call' \in Calls
        /\ call' = c \/ (call' = call /\ down' = down)
        /\ Range(down'[p]) \subseteq Range(down[p]) \cup {Ack(seqRecv)}
        /\ \A q \in Peers : q # p => down'[q] = down[q]
    BY <2>1, <2>3, <2>4, <2>5, SendsFacts, SMTT(30) DEF IInv
  <2>7. Counted' /\ DeliveredInOrder'
    BY <2>1, <2>2, <2>4, <2>6, TypedFacts DEF Counted, DeliveredInOrder
  <2>8. Session(p)'
    <3>1. /\ acked[p] <= Expected
          /\ \A g \in Range(down[p]) : g.kind = "ack" => g.seq < Expected
          /\ acked' = acked
      BY <2>1, TakesFacts DEF IInv, Session, client
    <3>2. CASE call' = call /\ down' = down
      BY <2>1, <3>1, <3>2 DEF Session, Expected
    <3>3. CASE call' = c
      <4>1. Expected' = seqRecv + 1 /\ Expected \in {seqRecv, seqRecv + 1}
        BY <2>1, <2>4, <3>3 DEF Expected
      <4>2. acked[p] \in Nat /\ \A g \in Range(down[p]) : g.kind = "ack" => g.seq \in Nat
        <5>1. acked[p] \in Nat /\ down[p] \in Seq(Frames)
          BY ConnectionAssumption DEF IInv, Typed
        <5>2. Range(down[p]) \subseteq Frames
          BY <5>1, RangeInType
        <5> QED
          BY <5>1, <5>2, FrameFacts
      <4> QED
        BY <2>3, <2>5, <2>6, <3>1, <4>1, <4>2 DEF Session
    <3> QED
      BY <2>6, <3>2, <3>3
  <2> QED
    BY <2>1, <2>6, <2>7, <2>8, TypedFacts, DeviceKeepsIInv
<1>3. CASE DataRepeated(p)
  <2> DEFINE n == tpci_seq(Head(up[p]))
             c == [act |-> "A3"]
  <2>1. /\ Takes(p, "data") /\ state = "OpenIdle" /\ srcAddr = p
        /\ n = PreviousSeq /\ Sends(p, Ack(n), c)
        /\ UNCHANGED <<state, seqRecv, srcAddr, timer, panicked, delivered>>
    BY <1>3, TypedFacts DEF DataRepeated, connection
  <2>2. n \in 0 .. 7
    BY <2>1, ThreeBits, TakesFacts
  <2> HIDE DEF n
  <2>3. n < seqRecv
    BY <2>1, <2>2, TypedFacts DEF PreviousSeq
  <2>4. /\ c \in Calls /\ c.act = "A3" /\ call.act = "none"
        /\ Ack(n) \in Frames /\ Ack(n).seq = n
    BY <2>1, <2>2, CallFacts, FrameFacts, TakesFacts
  <2> HIDE DEF c
  <2>5. /\ down' \in [Peers -> Seq(Frames)] /\ call' \in Calls
        /\ call'.act # "A2" /\ call.act # "A2"
        /\ Range(down'[p]) \subseteq Range(down[p]) \cup {Ack(n)}
        /\ \A q \in Peers : q # p => down'[q] = down[q]
    BY <2>1, <2>4, SendsFacts DEF IInv
  <2>6. Counted' /\ DeliveredInOrder' /\ Expected' = Expected
    BY <2>1, <2>5, TypedFacts DEF Counted, DeliveredInOrder, Expected
  <2>7. n < Expected
    BY <2>2, <2>3, TypedFacts DEF Expected
  <2>8. Session(p)'
    BY <2>1, <2>4, <2>5, <2>6, <2>7, TakesFacts DEF IInv, Session, client
  <2> QED
    BY <2>1, <2>5, <2>6, <2>8, TypedFacts, DeviceKeepsIInv
<1>4. CASE DataWhenClosed(p)
  <2>1. /\ Takes(p, "data") /\ state = "Closed"
        /\ Sends(p, Disconnect, [act |-> "A10"])
        /\ UNCHANGED <<state, seqRecv, srcAddr, timer, panicked, delivered>>
    BY <1>4 DEF DataWhenClosed, connection
  <2>2. /\ down' \in [Peers -> Seq(Frames)] /\ call' \in Calls /\ call'.act # "A2"
        /\ \A q \in Peers : q # p => down'[q] = down[q]
    BY <2>1, RejectFacts
  <2>3. Counted' /\ DeliveredInOrder' /\ Session(p)'
    BY <2>1, <2>2, TypedFacts DEF Counted, DeliveredInOrder, Session
  <2> QED
    BY <2>1, <2>2, <2>3, TypedFacts, DeviceKeepsIInv
<1>5. CASE DataIgnored(p)
  BY <1>5, TypedFacts, IgnoredKeepsIInv DEF DataIgnored, device
<1> QED
  BY <1>1, <1>2, <1>3, <1>4, <1>5

(* When ack_data_A2 goes on after its send the packet is counted and       *)
(* indicated; a send that is dropped leaves the device one packet behind.  *)
LEMMA CallsKeepIInv == IInv /\ (CallReturns \/ CallDropped) => IInv'
<1> SUFFICES ASSUME IInv, CallReturns \/ CallDropped PROVE IInv'
  OBVIOUS
<1>1. /\ UNCHANGED <<state, srcAddr, panicked, up, down, phase, acked, waiting>>
      /\ call' = NoCall /\ call'.act = "none" /\ call' \in Calls
  BY CallFacts DEF CallReturns, CallDropped, client, connection
<1>2. /\ timer' \in BOOLEAN
      /\ seqRecv' \in 0 .. 8 /\ delivered' \in Seq(0 .. MaxPackets)
      /\ Counted' /\ DeliveredInOrder'
      /\ Expected <= Expected'
  <2>1. CASE CallReturns /\ call.act = "A2"
    <3>1. /\ seqRecv' = (seqRecv + 1) % 256 /\ delivered' = Append(delivered, call.no)
          /\ timer' = TRUE
      BY <2>1 DEF CallReturns
    <3>2. seqRecv \in 0 .. 7 /\ call.no = seqRecv /\ call.no \in 0 .. MaxPackets
      BY <2>1, TypedFacts, CallFacts DEF IInv, Counted
    <3>3. seqRecv' = seqRecv + 1
      BY <3>1, <3>2
    <3>4. /\ delivered' \in Seq(0 .. MaxPackets)
          /\ Len(delivered') = seqRecv + 1
          /\ \A i \in 1 .. seqRecv : delivered'[i] = delivered[i]
          /\ delivered'[seqRecv + 1] = seqRecv
      BY <3>1, <3>2, TypedFacts, AppendProperties
    <3>5. DOMAIN delivered' = 1 .. seqRecv + 1 /\ DOMAIN delivered = 1 .. seqRecv
      BY <3>4, TypedFacts, LenProperties
    <3>6. DeliveredInOrder'
      BY <3>2, <3>4, <3>5, TypedFacts DEF DeliveredInOrder
    <3>7. Counted'
      BY <1>1, <3>3, <3>4 DEF Counted
    <3>8. Expected <= Expected'
      BY <1>1, <2>1, <3>2, <3>3 DEF Expected
    <3> QED
      BY <3>1, <3>2, <3>3, <3>4, <3>6, <3>7, <3>8
  <2>2. CASE CallReturns /\ call.act # "A2"
    <3>1. UNCHANGED <<seqRecv, delivered>>
      BY <2>2 DEF CallReturns
    <3>2. timer' \in BOOLEAN
      BY <2>2 DEF CallReturns
    <3>3. Counted' /\ DeliveredInOrder' /\ Expected <= Expected'
      BY <1>1, <2>2, <3>1, TypedFacts DEF Counted, DeliveredInOrder, Expected
    <3> QED
      BY <3>1, <3>2, <3>3, TypedFacts
  <2>3. CASE CallDropped
    <3>1. UNCHANGED <<seqRecv, delivered, timer>> /\ "cancel" \in Faults
      BY <2>3 DEF CallDropped, connection
    <3>2. Counted' /\ DeliveredInOrder' /\ Expected <= Expected'
      BY <1>1, <3>1, TypedFacts DEF Counted, DeliveredInOrder, Expected
    <3> QED
      BY <3>1, <3>2, TypedFacts
  <2> QED
    BY <2>1, <2>2, <2>3
<1>3. Typed'
  BY <1>1, <1>2 DEF IInv, Typed
<1>4. ASSUME NEW p \in Peers PROVE (NothingAhead(p) /\ ConnectFirst(p) /\ Session(p))'
  <2>1. NothingAhead(p)' /\ ConnectFirst(p)'
    BY <1>1 DEF IInv, NothingAhead, ConnectFirst
  <2>2. Expected \in Nat /\ Expected' \in Nat
    <3>1. seqRecv \in Nat /\ seqRecv' \in Nat
      BY <1>2, TypedFacts
    <3>2. /\ Expected = seqRecv \/ Expected = seqRecv + 1
          /\ Expected' = seqRecv' \/ Expected' = seqRecv' + 1
      BY DEF Expected
    <3> QED
      BY <3>1, <3>2
  <2>3. acked[p] \in Nat /\ down[p] \in Seq(Frames)
    BY ConnectionAssumption DEF IInv, Typed
  <2>4. \A f \in Range(down[p]) : f.kind = "ack" => f.seq \in Nat
    BY <2>3, RangeInType, FrameFacts
  <2>5. Session(p)
    BY DEF IInv
  <2>6. Session(p)'
    BY <1>1, <1>2, <2>2, <2>3, <2>4, <2>5 DEF Session
  <2> QED
    BY <2>1, <2>6
<1> QED
  BY <1>2, <1>3, <1>4 DEF IInv

-----------------------------------------------------------------------------
(* What is left to show of a step of a client or of the bus.               *)
LEMMA ClientKeepsIInv ==
  ASSUME IInv, NEW p \in Peers, UNCHANGED device,
         /\ up' \in [Peers -> Seq(Frames)] /\ down' \in [Peers -> Seq(Frames)]
         /\ phase' \in [Peers -> {"closed", "open"}]
         /\ acked' \in [Peers -> 0 .. MaxPackets]
         /\ waiting' \in [Peers -> BOOLEAN],
         waiting'[p] => acked'[p] < MaxPackets,
         NothingAhead(p)', ConnectFirst(p)', Session(p)',
         \A q \in Peers : q # p =>
             /\ up'[q] = up[q] /\ down'[q] = down[q]
             /\ acked'[q] = acked[q] /\ waiting'[q] = waiting[q]
  PROVE  IInv'
<1>1. UNCHANGED <<state, seqRecv, srcAddr, timer, call, panicked, delivered>>
  BY DEF device, connection
<1>2. \A q \in Peers : waiting'[q] => acked'[q] < MaxPackets
  BY DEF IInv, Typed
<1>3. Typed'
  BY <1>1, <1>2 DEF IInv, Typed
<1>4. Counted' /\ DeliveredInOrder' /\ Expected' = Expected
  BY <1>1 DEF IInv, Counted, DeliveredInOrder, Expected
<1>5. ASSUME NEW q \in Peers, q # p
      PROVE  (NothingAhead(q) /\ ConnectFirst(q) /\ Session(q))'
  <2>1. /\ up'[q] = up[q] /\ down'[q] = down[q] /\ acked'[q] = acked[q]
        /\ NothingAhead(q) /\ ConnectFirst(q) /\ Session(q)
    BY <1>5 DEF IInv
  <2>2. NothingAhead(q)' /\ ConnectFirst(q)'
    BY <2>1 DEF NothingAhead, ConnectFirst
  <2>3. Session(q)'
    BY <1>1, <1>4, <2>1 DEF Session
  <2> QED
    BY <2>2, <2>3
<1> QED
  BY <1>3, <1>4, <1>5 DEF IInv

(* What a client puts into its queue.                                      *)
LEMMA PostsFacts ==
  ASSUME IInv, NEW p \in Peers, NEW f \in Frames, Posts(p, f)
  PROVE  /\ up' \in [Peers -> Seq(Frames)] /\ UNCHANGED <<device, down>>
         /\ Range(up'[p]) = Range(up[p]) \cup {f}
         /\ Range(Tail(up'[p])) =
               IF up[p] = <<>> THEN {} ELSE Range(Tail(up[p])) \cup {f}
         /\ \A q \in Peers : q # p => up'[q] = up[q]
<1>1. up \in [Peers -> Seq(Frames)] /\ up[p] \in Seq(Frames)
  BY DEF IInv, Typed
<1>2. up' = [up EXCEPT ![p] = Append(@, f)] /\ UNCHANGED <<device, down>>
  BY DEF Posts
<1>3. /\ Append(up[p], f) \in Seq(Frames)
      /\ Range(Append(up[p], f)) = Range(up[p]) \cup {f}
      /\ Range(Tail(Append(up[p], f))) =
            IF up[p] = <<>> THEN {} ELSE Range(Tail(up[p])) \cup {f}
  BY <1>1, QueuePut
<1> QED
  BY <1>1, <1>2, <1>3

(* A packet or a disconnect of the present connection.                     *)
LEMMA PostingKeepsIInv ==
  ASSUME IInv, NEW p \in Peers, NEW f \in Frames, Posts(p, f),
         f = Disconnect \/ f = Data(acked[p]),
         phase' \in [Peers -> {"closed", "open"}], acked' = acked,
         waiting' \in [Peers -> BOOLEAN], waiting'[p] => acked[p] < MaxPackets,
         \A q \in Peers : q # p => waiting'[q] = waiting[q]
  PROVE  IInv'
<1>1. f # Connect /\ (f.kind = "data" => f.no = acked[p])
  BY FrameFacts DEF IInv, Typed
<1>2. acked[p] \in Nat /\ up[p] \in Seq(Frames)
  BY ConnectionAssumption DEF IInv, Typed
<1>3. NothingAhead(p)'
  <2>1. \A g \in Range(up[p]) : g.kind = "data" => g.no <= acked[p]
    BY DEF IInv, NothingAhead
  <2>2. Range(up'[p]) = Range(up[p]) \cup {f}
    BY PostsFacts
  <2> QED
    BY <1>1, <1>2, <2>1, <2>2 DEF NothingAhead
<1>4. ConnectFirst(p)'
  <2>1. /\ Range(up'[p]) = Range(up[p]) \cup {f} /\ down' = down
        /\ Range(Tail(up'[p])) \subseteq Range(Tail(up[p])) \cup {f}
    BY PostsFacts
  <2> QED
    BY <1>1, <2>1 DEF IInv, ConnectFirst
<1>5. Session(p)'
  <2>1. UNCHANGED <<state, seqRecv, srcAddr, call, down>>
    BY PostsFacts DEF device, connection
  <2> QED
    BY <1>1, <2>1, PostsFacts DEF IInv, Session, Expected
<1> QED
  BY <1>3, <1>4, <1>5, PostsFacts, ClientKeepsIInv DEF IInv, Typed

(* No frame of the last connection is left when a client asks for a new    *)
(* one: its request comes first, and nothing is acknowledged in it yet.    *)
LEMMA ClientConnectsKeepsIInv ==
  ASSUME IInv, NEW p \in Peers, ClientConnects(p)
  PROVE  IInv'
<1>1. /\ up[p] = <<>> /\ down[p] = <<>> /\ Posts(p, Connect)
      /\ phase' = [phase EXCEPT ![p] = "open"]
      /\ acked' = [acked EXCEPT ![p] = 0]
      /\ waiting' = [waiting EXCEPT ![p] = FALSE]
  BY DEF ClientConnects
<1>2. Connect \in Frames /\ Connect.kind = "connect"
  BY FrameFacts
<1>3. /\ phase' \in [Peers -> {"closed", "open"}]
      /\ acked' \in [Peers -> 0 .. MaxPackets] /\ acked'[p] = 0
      /\ \A q \in Peers : q # p => acked'[q] = acked[q]
  BY <1>1, ConnectionAssumption DEF IInv, Typed
<1>4. /\ waiting' \in [Peers -> BOOLEAN] /\ ~waiting'[p]
      /\ \A q \in Peers : q # p => waiting'[q] = waiting[q]
  BY <1>1 DEF IInv, Typed
<1>5. /\ Range(up'[p]) = {Connect} /\ Range(Tail(up'[p])) = {} /\ down' = down
      /\ up' \in [Peers -> Seq(Frames)] /\ UNCHANGED device
      /\ \A q \in Peers : q # p => up'[q] = up[q]
  BY <1>1, <1>2, PostsFacts, RangeOfEmpty
<1>6. NothingAhead(p)' /\ ConnectFirst(p)' /\ Session(p)'
  BY <1>1, <1>2, <1>3, <1>5 DEF NothingAhead, ConnectFirst, Session
<1> QED
  BY <1>3, <1>4, <1>5, <1>6, ClientKeepsIInv DEF IInv, Typed

(* What a client sends of its own.                                         *)
LEMMA ClientPostsKeepIInv ==
  ASSUME IInv, NEW p \in Peers,
         \/ ClientConnects(p) \/ ClientSends(p)
         \/ ClientRepeats(p) \/ ClientDisconnects(p)
  PROVE  IInv'
<1>1. /\ phase \in [Peers -> {"closed", "open"}] /\ acked[p] \in 0 .. MaxPackets
      /\ waiting \in [Peers -> BOOLEAN] /\ (waiting[p] => acked[p] < MaxPackets)
  BY DEF IInv, Typed
<1>2. Disconnect \in Frames /\ Data(acked[p]) \in Frames
  BY <1>1, FrameFacts
<1>3. CASE ClientConnects(p)
  BY <1>3, ClientConnectsKeepsIInv
<1>4. CASE ClientSends(p)
  <2>1. /\ Posts(p, Data(acked[p])) /\ acked[p] < MaxPackets
        /\ UNCHANGED <<phase, acked>>
        /\ waiting' = [waiting EXCEPT ![p] = TRUE]
    BY <1>4 DEF ClientSends
  <2>2. /\ waiting' \in [Peers -> BOOLEAN]
        /\ \A q \in Peers : q # p => waiting'[q] = waiting[q]
    BY <1>1, <2>1
  <2> QED
    BY <1>1, <1>2, <2>1, <2>2, PostingKeepsIInv
<1>5. CASE ClientRepeats(p)
  BY <1>1, <1>2, <1>5, PostingKeepsIInv DEF ClientRepeats, client
<1>6. CASE ClientDisconnects(p)
  <2>1. /\ Posts(p, Disconnect) /\ UNCHANGED <<acked, waiting>>
        /\ phase' \in [Peers -> {"closed", "open"}]
    BY <1>1, <1>6 DEF ClientDisconnects
  <2> QED
    BY <1>1, <1>2, <2>1, PostingKeepsIInv
<1> QED
  BY <1>3, <1>4, <1>5, <1>6

(* What a client takes from its queue; by then its request is gone.        *)
LEMMA ReceivesFacts ==
  ASSUME IInv, NEW p \in Peers, Receives(p)
  PROVE  /\ down' \in [Peers -> Seq(Frames)] /\ UNCHANGED <<device, up>>
         /\ Head(down[p]) \in Frames /\ Head(down[p]) \in Range(down[p])
         /\ Range(down'[p]) \subseteq Range(down[p])
         /\ Connect \notin Range(up[p])
         /\ \A q \in Peers : q # p => down'[q] = down[q]
<1>1. down \in [Peers -> Seq(Frames)] /\ down[p] \in Seq(Frames)
  BY DEF IInv, Typed
<1>2. /\ down[p] # <<>> /\ down' = [down EXCEPT ![p] = Tail(@)]
      /\ UNCHANGED <<device, up>>
  BY DEF Receives
<1>3. /\ Head(down[p]) \in Frames /\ Tail(down[p]) \in Seq(Frames)
      /\ Range(down[p]) = {Head(down[p])} \cup Range(Tail(down[p]))
  BY <1>1, <1>2, QueueTake
<1>4. Connect \notin Range(up[p])
  BY <1>2 DEF IInv, ConnectFirst
<1> QED
  BY <1>1, <1>2, <1>3, <1>4

(* A client that receives goes on by one packet at most, and only to where *)
(* the device already is.                                                  *)
LEMMA ReceivingKeepsIInv ==
  ASSUME IInv, NEW p \in Peers, Receives(p),
         /\ phase' \in [Peers -> {"closed", "open"}]
         /\ acked' \in [Peers -> 0 .. MaxPackets]
         /\ waiting' \in [Peers -> BOOLEAN],
         waiting'[p] => acked'[p] < MaxPackets,
         acked[p] <= acked'[p],
         state = "OpenIdle" /\ srcAddr = p => acked'[p] <= Expected,
         \A q \in Peers : q # p => acked'[q] = acked[q] /\ waiting'[q] = waiting[q]
  PROVE  IInv'
<1>1. /\ UNCHANGED <<state, seqRecv, srcAddr, call, up>>
      /\ UNCHANGED device /\ Connect \notin Range(up[p])
      /\ Range(down'[p]) \subseteq Range(down[p])
  BY ReceivesFacts DEF device, connection
<1>2. NothingAhead(p)'
  <2>1. up[p] \in Seq(Frames) /\ acked[p] \in Nat /\ acked'[p] \in Nat
    BY ConnectionAssumption DEF IInv, Typed
  <2>2. \A f \in Range(up[p]) : f.kind = "data" => f.no \in Nat
    BY <2>1, RangeInType, FrameFacts, ConnectionAssumption
  <2>3. \A f \in Range(up[p]) : f.kind = "data" => f.no <= acked[p]
    BY DEF IInv, NothingAhead
  <2> QED
    BY <1>1, <2>1, <2>2, <2>3 DEF NothingAhead
<1>3. ConnectFirst(p)'
  BY <1>1 DEF ConnectFirst
<1>4. Session(p)'
  <2>1. Session(p) /\ Expected' = Expected
    BY <1>1 DEF IInv, Expected
  <2> QED
    BY <1>1, <2>1 DEF Session
<1>5. up' = up /\ up \in [Peers -> Seq(Frames)]
  BY <1>1 DEF IInv, Typed
<1> QED
  BY <1>2, <1>3, <1>4, <1>5, ReceivesFacts, ClientKeepsIInv

(* What a client receives, or the bus loses.                               *)
LEMMA ClientReceiptsKeepIInv ==
  ASSUME IInv, NEW p \in Peers,
         \/ ClientAcknowledged(p) \/ ClientDisconnected(p)
         \/ ClientIgnores(p) \/ BusLoses(p)
  PROVE  IInv'
<1>1. /\ phase \in [Peers -> {"closed", "open"}]
      /\ acked \in [Peers -> 0 .. MaxPackets] /\ acked[p] \in Nat
      /\ waiting \in [Peers -> BOOLEAN]
      /\ \A q \in Peers : waiting[q] => acked[q] < MaxPackets
      /\ seqRecv \in 0 .. 8
  BY ConnectionAssumption DEF IInv, Typed
<1>2. ASSUME Receives(p), state = "OpenIdle", srcAddr = p
      PROVE  /\ acked[p] <= Expected /\ Expected \in 0 .. 9
             /\ \A f \in Range(down[p]) : f.kind = "ack" => f.seq < Expected
  BY <1>1, <1>2, ReceivesFacts DEF IInv, Session, Expected
<1>3. CASE ClientAcknowledged(p)
  <2>1. /\ Receives(p) /\ waiting[p] /\ Head(down[p]) = Ack(acked[p] % 16)
        /\ acked' = [acked EXCEPT ![p] = @ + 1]
        /\ waiting' = [waiting EXCEPT ![p] = FALSE] /\ phase' = phase
    BY <1>3 DEF ClientAcknowledged, Acknowledges
  <2>2. acked[p] + 1 \in 0 .. MaxPackets
    BY <1>1, <2>1, ConnectionAssumption
  <2>3. /\ acked' \in [Peers -> 0 .. MaxPackets] /\ acked'[p] = acked[p] + 1
        /\ \A q \in Peers : q # p => acked'[q] = acked[q]
    BY <1>1, <2>1, <2>2
  <2>4. /\ waiting' \in [Peers -> BOOLEAN] /\ ~waiting'[p]
        /\ \A q \in Peers : q # p => waiting'[q] = waiting[q]
    BY <1>1, <2>1
  <2>5. ASSUME state = "OpenIdle", srcAddr = p PROVE acked'[p] <= Expected
    <3>1. /\ acked[p] <= Expected /\ Expected \in 0 .. 9
          /\ \A f \in Range(down[p]) : f.kind = "ack" => f.seq < Expected
      BY <1>2, <2>1, <2>5
    <3>2. acked[p] % 16 = acked[p]
      BY <1>1, <3>1
    <3>3. Head(down[p]).kind = "ack" /\ Head(down[p]).seq = acked[p]
      BY <1>1, <2>1, <3>2, ReceivesFacts, FrameFacts
    <3>4. acked[p] < Expected
      BY <2>1, <3>1, <3>3, ReceivesFacts
    <3> QED
      BY <1>1, <2>3, <3>1, <3>4
  <2>6. acked[p] <= acked'[p] /\ phase' \in [Peers -> {"closed", "open"}]
    BY <1>1, <2>1, <2>3
  <2> QED
    BY <2>1, <2>3, <2>4, <2>5, <2>6, ReceivingKeepsIInv
<1>4. CASE ClientDisconnected(p)
  <2>1. Receives(p) /\ acked' = acked /\ waiting' = [waiting EXCEPT ![p] = FALSE]
    BY <1>4 DEF ClientDisconnected
  <2>2. phase' \in [Peers -> {"closed", "open"}]
    BY <1>1, <1>4 DEF ClientDisconnected
  <2>3. /\ waiting' \in [Peers -> BOOLEAN] /\ ~waiting'[p]
        /\ \A q \in Peers : q # p => waiting'[q] = waiting[q]
    BY <1>1, <2>1
  <2>4. /\ acked' \in [Peers -> 0 .. MaxPackets] /\ acked[p] <= acked'[p]
        /\ \A q \in Peers : acked'[q] = acked[q]
    BY <1>1, <2>1
  <2>5. state = "OpenIdle" /\ srcAddr = p => acked'[p] <= Expected
    BY <1>2, <2>1
  <2> QED
    BY <2>1, <2>2, <2>3, <2>4, <2>5, ReceivingKeepsIInv
<1>5. CASE ClientIgnores(p) \/ BusLoses(p)
  <2>1. Receives(p) /\ UNCHANGED <<phase, acked, waiting>>
    BY <1>5 DEF ClientIgnores, BusLoses, client
  <2> QED
    BY <1>1, <1>2, <2>1, ReceivingKeepsIInv
<1> QED
  BY <1>3, <1>4, <1>5

(* A client that restarts leaves its frames behind; the invariant binds    *)
(* its queues and not its state.                                           *)
LEMMA ClientRestartsKeepsIInv ==
  ASSUME IInv, NEW p \in Peers, ClientRestarts(p)
  PROVE  IInv'
<1>1. /\ UNCHANGED <<device, up, down, acked>>
      /\ phase' = [phase EXCEPT ![p] = "closed"]
      /\ waiting' = [waiting EXCEPT ![p] = FALSE]
  BY DEF ClientRestarts
<1>2. /\ phase' \in [Peers -> {"closed", "open"}]
      /\ waiting' \in [Peers -> BOOLEAN] /\ ~waiting'[p]
      /\ \A q \in Peers : q # p => waiting'[q] = waiting[q]
  BY <1>1 DEF IInv, Typed
<1>3. /\ up' \in [Peers -> Seq(Frames)] /\ down' \in [Peers -> Seq(Frames)]
      /\ acked' \in [Peers -> 0 .. MaxPackets]
      /\ NothingAhead(p) /\ ConnectFirst(p) /\ Session(p)
  BY <1>1 DEF IInv, Typed
<1>4. NothingAhead(p)' /\ ConnectFirst(p)' /\ Session(p)'
  BY <1>1, <1>3 DEF NothingAhead, ConnectFirst, Session, Expected, device, connection
<1> QED
  BY <1>1, <1>2, <1>3, <1>4, ClientKeepsIInv

-----------------------------------------------------------------------------
(* Every step of the system keeps the invariant.                           *)
LEMMA NextKeepsIInv == IInv /\ [Next]_vars => IInv'
<1> SUFFICES ASSUME IInv, [Next]_vars PROVE IInv'
  OBVIOUS
<1>1. ASSUME NEW p \in Peers, Handles(p) PROVE IInv'
  BY <1>1, ConnectsKeepIInv, DisconnectsKeepIInv, DataKeepsIInv DEF Handles
<1>2. ASSUME NEW p \in Peers, ClientStep(p) PROVE IInv'
  BY <1>2, ClientPostsKeepIInv, ClientReceiptsKeepIInv, ClientRestartsKeepsIInv
  DEF ClientStep
<1>3. CASE CallReturns \/ CallDropped
  BY <1>3, CallsKeepIInv
<1>4. CASE UNCHANGED vars
  BY <1>4 DEF vars, device, connection, client, IInv, Typed, Counted, DeliveredInOrder,
              NothingAhead, ConnectFirst, Session, Expected
<1> QED
  BY <1>1, <1>2, <1>3, <1>4 DEF Next, TimerFires

(* The invariant holds in every reachable state.                           *)
LEMMA AlwaysIInv == Spec => []IInv
  BY InitIInv, NextKeepsIInv, PTL DEF Spec

-----------------------------------------------------------------------------
(* Type correctness: in particular seq_no_recv never passes 8, although it *)
(* is a u8 that ack_data_A2 increments without a mask.                     *)
THEOREM TypeCorrect == Spec => []TypeOK
<1>1. IInv => TypeOK
  <2> SUFFICES ASSUME IInv PROVE TypeOK
    OBVIOUS
  <2>1. \A i \in DOMAIN delivered : delivered[i] \in 0 .. MaxPackets
    BY LenProperties, ElementOfSeq DEF IInv, Typed
  <2>2. ASSUME NEW p \in Peers
        PROVE  /\ \A i \in DOMAIN up[p] : up[p][i] \in Frames
               /\ \A i \in DOMAIN down[p] : down[p][i] \in Frames
    BY LenProperties, ElementOfSeq DEF IInv, Typed
  <2>3. call = NoCall \/ call.act \in {"A2", "A3", "A6", "A10"}
    BY TypedFacts, CallFacts
  <2> QED
    BY <2>1, <2>2, <2>3 DEF IInv, Typed, TypeOK
<1> QED
  BY <1>1, AlwaysIInv, PTL

(* receive_ind indicates every packet of a connection once and in order,   *)
(* whatever the clients repeat, the bus loses, the pool refuses, the       *)
(* select drops or a restart leaves behind.                                *)
THEOREM IndicationsInOrder == Spec => []DeliveredInOrder
  BY AlwaysIInv, PTL DEF IInv

(* In a session of both ends no connection request is under way.           *)
LEMMA InSessionExpects ==
  ASSUME IInv, NEW p \in Peers, InSession(p)
  PROVE  acked[p] <= Expected
<1>1. up[p] \in Seq(Frames) /\ \A i \in DOMAIN up[p] : up[p][i].kind = "data"
  BY DEF IInv, Typed, InSession
<1>2. Connect \notin Range(up[p])
  BY <1>1, FrameFacts DEF Range
<1> QED
  BY <1>2 DEF IInv, Session, InSession

(* What a client takes for received was indicated, or is about to be, if   *)
(* the select of ApplicationLayer::run never drops a send.                 *)
THEOREM AcknowledgedIsDelivered ==
  ASSUME "cancel" \notin Faults
  PROVE  Spec => []AckedIsDelivered
<1>1. IInv => AckedIsDelivered
  <2> SUFFICES ASSUME IInv, NEW p \in Peers, InSession(p)
               PROVE  acked[p] <= Len(delivered) + IF call.act = "A2" THEN 1 ELSE 0
    BY DEF AckedIsDelivered
  <2>1. acked[p] <= Expected
    BY InSessionExpects
  <2>2. Expected = Len(delivered) + IF call.act = "A2" THEN 1 ELSE 0
    BY TypedFacts DEF Expected
  <2> QED
    BY <2>1, <2>2
<1> QED
  BY <1>1, AlwaysIInv, PTL

(* A send that is dropped costs one packet and no more: the device then     *)
(* waits for the number the client has passed and takes nothing else.      *)
THEOREM DropCostsOnePacket ==
  Spec => [](\A p \in Peers : InSession(p) => acked[p] <= Len(delivered) + 1)
<1>1. IInv => \A p \in Peers : InSession(p) => acked[p] <= Len(delivered) + 1
  <2> SUFFICES ASSUME IInv, NEW p \in Peers, InSession(p)
               PROVE  acked[p] <= Len(delivered) + 1
    OBVIOUS
  <2>1. acked[p] <= Expected /\ acked[p] \in Nat
    BY InSessionExpects, ConnectionAssumption DEF IInv, Typed
  <2>2. Expected <= Len(delivered) + 1
    BY TypedFacts DEF Expected
  <2>3. Expected \in Nat /\ Len(delivered) \in Nat
    BY TypedFacts DEF Expected
  <2> QED
    BY <2>1, <2>2, <2>3
<1> QED
  BY <1>1, AlwaysIInv, PTL

(* Nobody but its owner ends a connection of the device or takes it over.  *)
THEOREM OwnerKeepsIt == Spec => OwnerKeepsConnection
<1>1. ASSUME IInv, [Next]_vars, state = "OpenIdle"
      PROVE  /\ srcAddr' = srcAddr
             /\ state' = "Closed" =>
                   /\ Head(up[srcAddr]) \in {Connect, Disconnect}
                   /\ up'[srcAddr] = Tail(up[srcAddr])
  <2>1. ASSUME NEW p \in Peers, NEW kind, Takes(p, kind), kind \in {"connect", "disconnect"}
        PROVE  Head(up[p]) \in {Connect, Disconnect} /\ up'[p] = Tail(up[p])
    <3>1. Head(up[p]) \in {Connect, Disconnect}
      BY <1>1, <2>1, TakesFacts, FrameFacts, SMTT(30)
    <3>2. up'[p] = Tail(up[p])
      BY <1>1, <2>1 DEF Takes, IInv, Typed
    <3> QED
      BY <3>1, <3>2
  <2>2. ASSUME NEW p \in Peers, ConnectAgain(p) \/ DisconnectFromOwner(p)
        PROVE  srcAddr' = srcAddr /\ srcAddr = p
               /\ Head(up[p]) \in {Connect, Disconnect} /\ up'[p] = Tail(up[p])
    BY <2>1, <2>2 DEF ConnectAgain, DisconnectFromOwner
  <2>3. ASSUME NEW p \in Peers, Handles(p), ~ConnectAgain(p), ~DisconnectFromOwner(p)
        PROVE  srcAddr' = srcAddr /\ state' = state
    BY <1>1, <2>3 DEF Handles, ConnectWhenClosed, ConnectFromOther, DisconnectIgnored,
                      DataPanics, DataInSequence, DataRepeated, DataWhenClosed,
                      DataIgnored, device, connection
  <2>4. ASSUME NEW p \in Peers, ClientStep(p) PROVE srcAddr' = srcAddr /\ state' = state
    BY <2>4 DEF ClientStep, ClientConnects, ClientSends, ClientRepeats, ClientDisconnects,
                ClientAcknowledged, ClientDisconnected, ClientIgnores, BusLoses,
                ClientRestarts, Posts, Receives, device, connection
  <2>5. ASSUME CallReturns \/ CallDropped \/ TimerFires \/ UNCHANGED vars
        PROVE  srcAddr' = srcAddr /\ state' = state
    BY <2>5 DEF CallReturns, CallDropped, TimerFires, vars, device, connection
  <2> QED
    BY <1>1, <2>2, <2>3, <2>4, <2>5 DEF Next
<1> QED
  BY <1>1, AlwaysIInv, PTL DEF Spec, OwnerKeepsConnection

(* No connection carries a ninth packet, however long a client tries: it   *)
(* waits for an acknowledgement with bit 3 set, which tpci_seq cuts off.   *)
THEOREM NinthPacketNeverAcked == Spec => []AckedAtMostEight
<1>1. Init => AckedAtMostEight
  <2> SUFFICES ASSUME Init, NEW p \in Peers PROVE acked[p] <= 8
    BY DEF AckedAtMostEight
  <2>1. acked[p] = 0
    BY DEF Init
  <2> QED
    BY <2>1
<1>2. IInv /\ AckedAtMostEight /\ [Next]_vars => AckedAtMostEight'
  <2> SUFFICES ASSUME IInv, AckedAtMostEight, [Next]_vars PROVE AckedAtMostEight'
    OBVIOUS
  <2>1. CASE acked' = acked
    BY <2>1 DEF AckedAtMostEight
  <2>2. ASSUME NEW p \in Peers, ClientConnects(p) PROVE AckedAtMostEight'
    BY <2>2 DEF ClientConnects, AckedAtMostEight, IInv, Typed
  <2>3. ASSUME NEW p \in Peers, ClientAcknowledged(p) PROVE AckedAtMostEight'
    <3>1. /\ Receives(p) /\ Head(down[p]) = Ack(acked[p] % 16)
          /\ acked' = [acked EXCEPT ![p] = @ + 1]
      BY <2>3 DEF ClientAcknowledged, Acknowledges
    <3>2. acked \in [Peers -> 0 .. MaxPackets] /\ acked[p] \in Nat /\ acked[p] <= 8
      BY ConnectionAssumption DEF IInv, Typed, AckedAtMostEight
    <3>3. acked[p] % 16 = acked[p]
      BY <3>2
    <3>4. acked[p] \in 0 .. 7
      <4>1. Head(down[p]) \in Frames /\ Head(down[p]) = Ack(acked[p])
        BY <3>1, <3>3, ReceivesFacts
      <4> QED
        BY <3>2, <4>1, FrameFacts
    <3> QED
      BY <3>1, <3>2, <3>4 DEF AckedAtMostEight
  <2>4. ASSUME NEW p \in Peers, ClientStep(p), ~ClientConnects(p), ~ClientAcknowledged(p)
        PROVE  acked' = acked
    BY <2>4 DEF ClientStep, ClientSends, ClientRepeats, ClientDisconnects,
                ClientDisconnected, ClientIgnores, BusLoses, ClientRestarts, client
  <2>5. ASSUME NEW p \in Peers, Handles(p) PROVE acked' = acked
    BY <2>5 DEF Handles, Takes, ConnectWhenClosed, ConnectAgain, ConnectFromOther,
                DisconnectFromOwner, DisconnectIgnored, DataPanics, DataInSequence,
                DataRepeated, DataWhenClosed, DataIgnored, client
  <2>6. ASSUME CallReturns \/ CallDropped \/ TimerFires \/ UNCHANGED vars
        PROVE  acked' = acked
    BY <2>6 DEF CallReturns, CallDropped, TimerFires, vars, client
  <2> QED
    BY <2>1, <2>2, <2>3, <2>4, <2>5, <2>6 DEF Next
<1> QED
  BY <1>1, <1>2, AlwaysIInv, PTL DEF Spec
=============================================================================
