----------------------------- MODULE TpduProof -----------------------------
(***************************************************************************)
(* What the tests of receive_ind can tell apart, for every octet.          *)
(***************************************************************************)
EXTENDS Tpdu, TLAPS

(* The mask keeps four bits in their place: at most 0x3c, a multiple of 4.  *)
LEMMA MaskedRange ==
    ASSUME NEW t \in Octet
    PROVE  And3C(t) \in 0 .. 60
  <1>1. (t \div 4) % 16 \in 0 .. 15
    BY DEF Octet
  <1>. QED
    BY <1>1 DEF And3C

(* No octet is decoded as a T_ACK or T_NACK: `tpci & 0x3c` never equals 0xc2 *)
(* or 0xc4 in TransportLayer::receive_ind, so the acknowledgement of a      *)
(* client never reaches Connection::handle_ind.                             *)
THEOREM AckNeverDecoded ==
    \A t \in Octet : Individual(t) \notin {"ACK", "NAK"}
  <1> SUFFICES ASSUME NEW t \in Octet
               PROVE  Individual(t) \notin {"ACK", "NAK"}
    OBVIOUS
  <1>1. And3C(t) \in 0 .. 60
    BY MaskedRange
  <1>2. And3C(t) # 194 /\ And3C(t) # 196
    BY <1>1
  <1>. QED
    BY <1>2 DEF Individual

(* That is the only error of receive_ind: every other octet of an           *)
(* individually addressed frame is taken for what the standard says.        *)
THEOREM OthersDecoded ==
    \A t \in Octet : Meaning(t) \notin {"ACK", "NAK"} => Individual(t) = Meaning(t)
  <1> SUFFICES ASSUME NEW t \in Octet, Meaning(t) \notin {"ACK", "NAK"}
               PROVE  Individual(t) = Meaning(t)
    OBVIOUS
  <1>1. t \div 4 = 0 <=> t \in 0 .. 3
    BY DEF Octet
  <1>2. t \div 64 = 1 <=> t \in 64 .. 127
    BY DEF Octet
  <1>3. And3C(t) # 194 /\ And3C(t) # 196
    BY MaskedRange
  <1>4. CASE t \in 0 .. 3
    BY <1>1, <1>4 DEF Individual, Meaning
  <1>5. CASE t \in 64 .. 127
    BY <1>1, <1>2, <1>5 DEF Individual, Meaning
  <1>6. CASE t = 128 \/ t = 129
    BY <1>1, <1>2, <1>6 DEF Individual, Meaning
  <1>7. CASE t \notin 0 .. 3 /\ t \notin 64 .. 127 /\ t # 128 /\ t # 129
    <2>1. Individual(t) = "InvalidTpdu"
      BY <1>1, <1>2, <1>3, <1>7 DEF Individual
    <2>2. Meaning(t) = "InvalidTpdu"
      BY <1>7 DEF Meaning
    <2>. QED
      BY <2>1, <2>2
  <1>. QED
    BY <1>4, <1>5, <1>6, <1>7

(* The sequence number keeps three of the four bits of its field: tpci_seq  *)
(* is the number the client sent for the first eight packets and for no     *)
(* later one, the width of frame.rs:208 behind the run conn_wrap.           *)
THEOREM SeqIsNarrow ==
    \A t \in Octet : /\ tpci_seq(t) = MeantSeq(t) % 8
                     /\ tpci_seq(t) = MeantSeq(t) <=> MeantSeq(t) < 8
  <1> SUFFICES ASSUME NEW t \in Octet
               PROVE  /\ tpci_seq(t) = MeantSeq(t) % 8
                      /\ tpci_seq(t) = MeantSeq(t) <=> MeantSeq(t) < 8
    OBVIOUS
  <1>1. t \div 4 \in 0 .. 63
    BY DEF Octet
  <1>. QED
    BY <1>1 DEF tpci_seq, MeantSeq

(* The frames that reach the connection, and so the double borrow, are the  *)
(* individually addressed T_Data_Connected, T_Connect and T_Disconnect,     *)
(* whatever their destination: NetworkLayer::receive has no other test.     *)
THEOREM ConnectedFrames ==
    \A group \in BOOLEAN, dst \in Nat, t \in Octet, a \in Octet :
        Class(group, dst, t, a) = "connected"
            <=> ~group /\ Meaning(t) \in {"DataConnected", "Connect", "Disconnect"}
  <1> SUFFICES ASSUME NEW group \in BOOLEAN, NEW dst \in Nat, NEW t \in Octet, NEW a \in Octet
               PROVE  Class(group, dst, t, a) = "connected"
                        <=> ~group /\ Meaning(t) \in {"DataConnected", "Connect", "Disconnect"}
    OBVIOUS
  <1> DEFINE service == Transport(Network(group, dst), t)
  <1>1. Class(group, dst, t, a) = "connected" <=> service \in ToConnection
    BY DEF Class
  <1>2. CASE group
    <2>1. service \in {"DataBroadcast", "DataGroup", "DataTagGroup", "InvalidTpdu"}
      BY <1>2 DEF Network, Transport, Broadcast, Group
    <2>. QED
      BY <1>1, <1>2, <2>1 DEF ToConnection
  <1>3. CASE ~group
    <2>1. service = Individual(t)
      BY <1>3 DEF Network, Transport
    <2>2. CASE Meaning(t) \in {"ACK", "NAK"}
      <3>1. t >= 192
        BY <2>2 DEF Meaning
      <3>2. t \div 4 # 0 /\ t \div 64 # 1 /\ t # 128 /\ t # 129
        BY <3>1 DEF Octet
      <3>3. Individual(t) = "InvalidTpdu"
        BY <3>2, MaskedRange DEF Individual
      <3>. QED
        BY <1>1, <2>1, <2>2, <3>3 DEF ToConnection
    <2>3. CASE Meaning(t) \notin {"ACK", "NAK"}
      <3>1. service = Meaning(t)
        BY <2>1, <2>3, OthersDecoded
      <3>. QED
        BY <1>1, <1>3, <2>3, <3>1 DEF ToConnection
    <2>. QED
      BY <2>2, <2>3
  <1>. QED
    BY <1>2, <1>3

(* A frame is answered as a read exactly if it goes to a group other than 0 *)
(* with a first octet 0 and a second one below 64, whatever group it is:    *)
(* receive and to_transport never look at the address.                      *)
THEOREM ReadFrames ==
    \A group \in BOOLEAN, dst \in Nat, t \in Octet, a \in Octet :
        Class(group, dst, t, a) = "read" <=> group /\ dst # 0 /\ t = 0 /\ a < 64
  <1> SUFFICES ASSUME NEW group \in BOOLEAN, NEW dst \in Nat, NEW t \in Octet, NEW a \in Octet
               PROVE  Class(group, dst, t, a) = "read" <=> group /\ dst # 0 /\ t = 0 /\ a < 64
    OBVIOUS
  <1> DEFINE service == Transport(Network(group, dst), t)
  <1>1. Class(group, dst, t, a) = "read"
          <=> service \notin ToConnection /\ Application(service, t, a) = "GroupValueRead"
    BY DEF Class
  <1>2. Application(service, t, a) = "GroupValueRead"
          <=> service = "DataGroup" /\ apci_four(t, a) = 0
    BY DEF Application
  <1>3. service = "DataGroup" <=> group /\ dst # 0 /\ t \div 4 = 0
    BY DEF Network, Transport, Individual, Broadcast, Group, tpci_six
  <1>4. t \div 4 = 0 => (apci_four(t, a) = 0 <=> t = 0 /\ a < 64)
    BY DEF apci_four, Octet
  <1>5. t = 0 => t \div 4 = 0
    OBVIOUS
  <1>. QED
    BY <1>1, <1>2, <1>3, <1>4, <1>5 DEF ToConnection
=============================================================================
