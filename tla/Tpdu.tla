-------------------------------- MODULE Tpdu --------------------------------
(***************************************************************************)
(* What the layers above the driver make of a frame, by its destination    *)
(* and its first two octets of transport data: network, transport and      *)
(* application layer sort frames by pure tests.  KnxStack knows only the   *)
(* result, the class of a frame.                                           *)
(***************************************************************************)
EXTENDS Naturals, Bits

-----------------------------------------------------------------------------
(* The fields, as FrameReader reads them *)

tpci_six(t) == t \div 4
tpci_seq(t) == (t \div 4) % 8
And3C(t) == 4 * ((t \div 4) % 16)

(* ApciBits::Four: the upper four of ten bits, from both octets. *)
apci_four(t, a) == ((t % 4) * 256 + a) \div 64

(* NetworkLayer::receive: any individual address is as good as its own. *)
Network(group, dst) ==
    IF ~group THEN "DataIndividual"
    ELSE IF dst = 0 THEN "DataBroadcast" ELSE "DataGroup"

-----------------------------------------------------------------------------
(* TransportLayer::receive_ind, its tests in their order *)

(* Mutant: T_Disconnect is tested for in its upper six bits only. *)
IndividualLoose(t) ==
    IF t \div 4 = 0 THEN "DataIndividual"
    ELSE IF t \div 64 = 1 THEN "DataConnected"
    ELSE IF t = 128 THEN "Connect"
    ELSE IF t \div 4 = 32 THEN "Disconnect"
    ELSE "InvalidTpdu"

Individual(t) ==
    IF t \div 4 = 0 THEN "DataIndividual"
    ELSE IF t \div 64 = 1 THEN "DataConnected"
    ELSE IF t = 128 THEN "Connect"
    ELSE IF t = 129 THEN "Disconnect"
    ELSE IF And3C(t) = 194 THEN "ACK"
    ELSE IF And3C(t) = 196 THEN "NAK"
    ELSE "InvalidTpdu"

Broadcast(t) == IF tpci_six(t) = 0 THEN "DataBroadcast" ELSE "InvalidTpdu"

Group(t) ==
    IF tpci_six(t) = 0 THEN "DataGroup"
    ELSE IF tpci_six(t) = 1 THEN "DataTagGroup" ELSE "InvalidTpdu"

Transport(service, t) ==
    IF service = "DataIndividual" THEN Individual(t)
    ELSE IF service = "DataBroadcast" THEN Broadcast(t)
    ELSE Group(t)

(* ApplicationLayer::receive: any group address is answered for. *)
Application(service, t, a) ==
    IF service # "DataGroup" THEN "ignored"
    ELSE IF apci_four(t, a) = 0 THEN "GroupValueRead"
    ELSE IF apci_four(t, a) = 1 THEN "GroupValueResponse"
    ELSE IF apci_four(t, a) = 2 THEN "GroupValueWrite"
    ELSE "InvalidApci"

ToConnection == {"DataConnected", "Connect", "Disconnect", "ACK", "NAK"}

(* The classes of KnxStack. *)
Class(group, dst, t, a) ==
    LET service == Transport(Network(group, dst), t)
    IN IF service \in ToConnection THEN "connected"
       ELSE IF Application(service, t, a) = "GroupValueRead" THEN "read"
       ELSE "other"

-----------------------------------------------------------------------------
(* The transport control octets of the KNX standard: 0xc2, 0xc3 and 0x81    *)
(* are what the actions of Connection send themselves.                      *)
Meaning(t) ==
    CASE t \in 0 .. 3 -> "DataIndividual"
      [] t \in 64 .. 127 -> "DataConnected"
      [] t = 128 -> "Connect"
      [] t = 129 -> "Disconnect"
      [] t \in 192 .. 255 /\ t % 4 = 2 -> "ACK"
      [] t \in 192 .. 255 /\ t % 4 = 3 -> "NAK"
      [] OTHER -> "InvalidTpdu"
MeantSeq(t) == (t \div 4) % 16
=============================================================================
