----------------------------- MODULE FrameCodec -----------------------------
(***************************************************************************)
(* A frame on its way: the device builds it octet by octet from a data     *)
(* point or for its connection, or another device sends it; the bus may    *)
(* damage it; the driver checks it and the layers read it.  Integers have  *)
(* the width of the code: lengths are u8, where the build may trap.        *)
(***************************************************************************)
EXTENDS Tpdu, Sequences

CONSTANTS
    Formats,         \* the formats the other devices use
    Headers,         \* priority, hop count and repetition of their frames
    Tpdus,           \* their TPDUs
    Individuals,     \* individual addresses they send to, or that send to us
    Masks,           \* what damage does to an octet
    OverflowChecks   \* the build traps on arithmetic overflow (dev profile)

ASSUME InputAssumption ==
    /\ Formats \subseteq {"Standard", "Extended"}
    /\ Headers \subseteq [priority : 0 .. 3, hop : 0 .. 7, repeated : BOOLEAN]
    /\ \A u \in Tpdus : u \in Seq(Octet) /\ Len(u) \in 1 .. 16
    /\ Masks \subseteq Octet \ {0}
    /\ Individuals \subseteq {a \in Nat : a < 256 * 256} /\ OverflowChecks \in BOOLEAN

VARIABLES
    stage,     \* "idle", "wire", "received"
    own,       \* the device itself has sent the frame
    damage,    \* "none", to its "start", the first octet, or to the "rest"
    meant,     \* what its sender means
    sent,      \* the octets that the sender puts on the bus
    wire,      \* what the bus makes of them
    received   \* what run makes of them

vars == <<stage, own, damage, meant, sent, wire, received>>

-----------------------------------------------------------------------------
(* FrameReader; a buffer is a function from 0 .. n-1 to octets *)

CTRL == 0
LG_FIELD == 5
CTRL_OFFSET(F) == IF F = "Standard" THEN 1 ELSE 2
SRC_ADDR_OFFSET(F) == CTRL_OFFSET(F)
DST_ADDR_OFFSET(F) == CTRL_OFFSET(F) + 2
HEADER_LENGTH(F) == CTRL_OFFSET(F) + 6
TPCI_OFFSET(F) == HEADER_LENGTH(F) - 1
APCI_OFFSET(F) == HEADER_LENGTH(F) - 1
AT_FIELD(F) == IF F = "Standard" THEN 5 ELSE 1
HOP_COUNT_FIELD(F) == AT_FIELD(F)
MAX_FRAME_SIZE(F) == IF F = "Standard" THEN 24 ELSE 263
MIN_FRAME_SIZE(F) == IF F = "Standard" THEN 8 ELSE 9

Address(d, i) == d[i] * 256 + d[i + 1]

checksum(d) == 255 - Parity(d)

(* length before it is cut to a u8. *)
LengthSum(F, d) ==
    (IF F = "Standard" THEN d[LG_FIELD] % 16 ELSE d[LG_FIELD]) + HEADER_LENGTH(F) + 1
length(F, d) == LengthSum(F, d) % 256

src_addr(F, d) == Address(d, SRC_ADDR_OFFSET(F))
addr_type(F, d) == d[AT_FIELD(F)] \div 128
dst_addr(F, d) == [group |-> addr_type(F, d) = 1, addr |-> Address(d, DST_ADDR_OFFSET(F))]
hop_count(F, d) == (d[HOP_COUNT_FIELD(F)] \div 16) % 8
priority(d) == (d[CTRL] \div 4) % 4
tpci_eight(F, d) == d[TPCI_OFFSET(F)]

(* Frame, read through the getters of its format; the TPDU ends before the  *)
(* checksum.                                                                *)
Fields(F, d) ==
    [ src |-> src_addr(F, d), group |-> dst_addr(F, d).group, dst |-> dst_addr(F, d).addr,
      priority |-> priority(d), hop |-> hop_count(F, d),
      tpdu |-> [i \in 1 .. length(F, d) - HEADER_LENGTH(F) |-> d[TPCI_OFFSET(F) + i - 1]] ]

-----------------------------------------------------------------------------
(* FrameWriter; only the standard format is ever built *)

OrAt(d, i, v) == [d EXCEPT ![i] = Or(@, v)]
Resized(d, n) == [i \in 0 .. n - 1 |-> IF i \in DOMAIN d THEN d[i] ELSE 0]

(* The extended frame takes its length from the buffer, not the argument;   *)
(* 263 cut to a u8 is 7, from which 9 is subtracted.                        *)
SetLengthTraps(F) == F = "Extended" /\ MAX_FRAME_SIZE(F) % 256 < HEADER_LENGTH(F) + 1
set_length(F, d, n) ==
    IF F = "Standard"
    THEN Resized(OrAt(d, LG_FIELD, (n - HEADER_LENGTH(F) - 1) % 16), n)
    ELSE Resized([d EXCEPT ![LG_FIELD] =
                    (256 + (Cardinality(DOMAIN d) % 256) - HEADER_LENGTH(F) - 1) % 256], n)

new(n) == OrAt(set_length("Standard", [i \in 0 .. n - 1 |-> 0], n), CTRL, 144)

set_addr(d, i, a) == [d EXCEPT ![i] = a \div 256, ![i + 1] = a % 256]
set_dst_addr(d, group, a) ==
    set_addr(OrAt(d, AT_FIELD("Standard"), IF group THEN 128 ELSE 0),
             DST_ADDR_OFFSET("Standard"), a)
set_src_addr(d, a) == set_addr(d, SRC_ADDR_OFFSET("Standard"), a)
set_priority(d, p) == OrAt(d, CTRL, p * 4)
set_hop_count(d, h) == OrAt(d, HOP_COUNT_FIELD("Standard"), (h % 8) * 16)
set_tpci_eight(d, v) == [d EXCEPT ![TPCI_OFFSET("Standard")] = v]
set_tpci_six(d, v) == OrAt(d, TPCI_OFFSET("Standard"), v * 4)

(* Mutant: the number is not moved to its field. *)
set_tpci_seqUnshifted(d, v) == OrAt(d, TPCI_OFFSET("Standard"), v % 8)
set_tpci_seq(d, v) == OrAt(d, TPCI_OFFSET("Standard"), (v % 8) * 4)
set_apci_four(d, v) ==
    OrAt(OrAt(d, APCI_OFFSET("Standard"), v \div 4), APCI_OFFSET("Standard") + 1, (v % 4) * 64)

-----------------------------------------------------------------------------
(* What the device sends *)

ADDRESS == 1 * 4096 + 1 * 256 + 120
Answered == 1 * 2048 + 1 * 256 + 98   \* TransportLayer::send, hard coded

B1(v) == [type |-> "B1", value |-> v]
B2(v) == [type |-> "B2", value |-> v]
U8(v) == [type |-> "U8", value |-> v]

(* Octets beyond the one that holds the APCI. *)
byte_length(dp) == IF dp.type = "U8" THEN 1 ELSE 0

write(dp, d, i) ==
    CASE dp.type = "B1" -> OrAt(d, i, dp.value % 2)
      [] dp.type = "B2" -> OrAt(d, i, dp.value % 4)
      [] dp.type = "U8" -> [d EXCEPT ![i] = dp.value]

(* Mutant: the length leaves out the place of the checksum. *)
from_datapointShort(dp) ==
    LET F == "Standard"
        d == write(dp, new(MAX_FRAME_SIZE(F)), APCI_OFFSET(F) + 1 + byte_length(dp))
    IN set_length(F, d, HEADER_LENGTH(F) + 1 + byte_length(dp))

from_datapoint(dp) ==
    LET F == "Standard"
        d == write(dp, new(MAX_FRAME_SIZE(F)), APCI_OFFSET(F) + 1 + byte_length(dp))
    IN set_length(F, d, HEADER_LENGTH(F) + 1 + byte_length(dp) + 1)

to_transport(dp, p) ==
    set_hop_count(set_priority(set_apci_four(from_datapoint(dp), 1), p), 7)

info_frame(d) ==
    set_tpci_six(set_src_addr(set_dst_addr(d, TRUE, Answered), ADDRESS), 0)

response_frame(dst, seq, tpci) ==
    LET d == set_priority(new(MIN_FRAME_SIZE("Standard")), 0)
        e == set_src_addr(set_dst_addr(d, FALSE, dst), ADDRESS)
    IN set_tpci_seq(set_tpci_eight(set_hop_count(e, 7), tpci), seq)

(* send_frame: every octet but the last, then the checksum. *)
Sent(d) ==
    LET n == Cardinality(DOMAIN d)
    IN [i \in 1 .. n |-> IF i < n THEN d[i - 1] ELSE checksum(d)]

-----------------------------------------------------------------------------
(* What the driver makes of the octets on the bus *)

FrameType(ctrl) ==
    CASE And(ctrl, 211) = 144 -> "Standard"
      [] And(ctrl, 211) = 16 -> "Extended"
      [] OTHER -> "none"

Failed(why) == [result |-> why]

(* Mutant: the length is only checked against its limits. *)
AcceptsAnyLength(F, n, d) ==
    n >= MIN_FRAME_SIZE(F) /\ n < MAX_FRAME_SIZE(F)
Accepts(F, n, d) ==
    /\ n >= MIN_FRAME_SIZE(F) /\ n <= MAX_FRAME_SIZE(F)
    /\ n = length(F, d)

(* Mutant: the checksum is not compared. *)
receive_frameUnchecked(F, w) ==
    LET n == IF Len(w) < MAX_FRAME_SIZE(F) THEN Len(w) ELSE MAX_FRAME_SIZE(F)
        d == [i \in 0 .. MAX_FRAME_SIZE(F) - 1 |-> IF i < n THEN w[i + 1] ELSE 0]
    IN IF n < HEADER_LENGTH(F) THEN Failed("TimeoutError")
       ELSE IF ~Accepts(F, n, d) THEN Failed("InvalidLength")
       ELSE [result |-> "Ok", format |-> F, data |-> set_length(F, d, n)]

(* receive_frame_int: the buffer is full of zeros before the octets come,   *)
(* and what is beyond its end is not read.                                  *)
receive_frame(F, w) ==
    LET n == IF Len(w) < MAX_FRAME_SIZE(F) THEN Len(w) ELSE MAX_FRAME_SIZE(F)
        d == [i \in 0 .. MAX_FRAME_SIZE(F) - 1 |-> IF i < n THEN w[i + 1] ELSE 0]
    IN IF n < HEADER_LENGTH(F) THEN Failed("TimeoutError")
       ELSE IF n >= MIN_FRAME_SIZE(F) /\ LengthSum(F, d) > 255 /\ OverflowChecks
            THEN Failed("trapped")
       ELSE IF ~Accepts(F, n, d) THEN Failed("InvalidLength")
       ELSE IF d[n] # checksum(d) THEN Failed("Checksum")
       ELSE IF SetLengthTraps(F) /\ OverflowChecks THEN Failed("trapped")
       ELSE [result |-> "Ok", format |-> F, data |-> set_length(F, d, n)]

(* run: octets that do not start a frame are skipped. *)
Received(w) ==
    LET starts == {i \in DOMAIN w : FrameType(w[i]) # "none"}
        first == CHOOSE i \in starts : \A j \in starts : i <= j
    IN IF starts = {} THEN Failed("ignored")
       ELSE receive_frame(FrameType(w[first]), SubSeq(w, first, Len(w)))

-----------------------------------------------------------------------------
(* The standard's encoding, for the frames of other devices.               *)

Sealed(s) == Append(s, 255 - Parity(s))
Encoded(F, m, repeated) ==
    LET ctrl == (IF F = "Standard" THEN 144 ELSE 16) + (IF repeated THEN 0 ELSE 32)
                + m.priority * 4
        at == (IF m.group THEN 128 ELSE 0) + m.hop * 16
        addrs == << m.src \div 256, m.src % 256, m.dst \div 256, m.dst % 256 >>
        lg == Len(m.tpdu) - 1
    IN IF F = "Standard" THEN Sealed(<<ctrl>> \o addrs \o <<at + lg>> \o m.tpdu)
       ELSE Sealed(<<ctrl, at>> \o addrs \o <<lg>> \o m.tpdu)

(* What it is by the standard, in the classes of KnxStack, whoever is meant *)
(* by the address.                                                          *)
Expected(m) ==
    IF ~m.group
    THEN IF Meaning(m.tpdu[1]) \in {"DataConnected", "Connect", "Disconnect"}
         THEN "connected" ELSE "other"
    ELSE IF m.dst # 0 /\ m.tpdu[1] = 0 /\ m.tpdu[2] < 64 THEN "read" ELSE "other"

-----------------------------------------------------------------------------
Init ==
    /\ stage = "idle" /\ own = FALSE /\ damage = "none"
    /\ meant = [src |-> 0] /\ sent = <<>> /\ wire = <<>> /\ received = Failed("none")

(* GroupReadResponse and the layers below it. *)
SendsResponse(dp, p) ==
    LET v == CASE dp.type = "B1" -> dp.value % 2
               [] dp.type = "B2" -> dp.value % 4
               [] OTHER -> dp.value
    IN /\ stage = "idle" /\ stage' = "wire" /\ own' = TRUE
       /\ meant' = [src |-> ADDRESS, group |-> TRUE, dst |-> Answered,
                    priority |-> p, hop |-> 7,
                    tpdu |-> IF dp.type = "U8" THEN <<0, 64, v>> ELSE <<0, 64 + v>>]
       /\ sent' = Sent(info_frame(to_transport(dp, p))) /\ wire' = sent'
       /\ UNCHANGED <<damage, received>>

(* Connection::send_response_frame: T_ACK with a number, T_Disconnect. *)
SendsControl(dst, tpci, seq) ==
    /\ stage = "idle" /\ stage' = "wire" /\ own' = TRUE
    /\ tpci = 129 => seq = 0
    /\ meant' = [src |-> ADDRESS, group |-> FALSE, dst |-> dst,
                 priority |-> 0, hop |-> 7, tpdu |-> <<tpci + 4 * seq>>]
    /\ sent' = Sent(response_frame(dst, seq, tpci)) /\ wire' = sent'
    /\ UNCHANGED <<damage, received>>

OtherSends(F, h, src, group, dst, tpdu) ==
    /\ stage = "idle" /\ stage' = "wire" /\ own' = FALSE
    /\ meant' = [src |-> src, group |-> group, dst |-> dst,
                 priority |-> h.priority, hop |-> h.hop, tpdu |-> tpdu]
    /\ sent' = Encoded(F, meant', h.repeated) /\ wire' = sent'
    /\ UNCHANGED <<damage, received>>

(* One octet altered, lost at either end, or one too many: a zero, or the  *)
(* L_Data.con that follows an echo.                                         *)
Damage(w, where) ==
    /\ stage = "wire" /\ damage = "none" /\ damage' = where
    /\ wire' = w
    /\ UNCHANGED <<stage, own, meant, sent, received>>
AltersOctet ==
    \E i \in DOMAIN wire, k \in Masks :
        Damage([wire EXCEPT ![i] = Xor(@, k)], IF i = 1 THEN "start" ELSE "rest")
LosesFirst == Damage(Tail(wire), "start")
LosesLast == Damage(SubSeq(wire, 1, Len(wire) - 1), "rest")
GainsOctet == \E b \in {0, 139} : Damage(Append(wire, b), "rest")

Receives ==
    /\ stage = "wire" /\ stage' = "received"
    /\ received' = Received(wire)
    /\ UNCHANGED <<own, damage, meant, sent, wire>>

Next ==
    \/ \E p \in 0 .. 3 :
          \/ \E v \in {0, 1} : SendsResponse(B1(v), p)
          \/ \E v \in {0, 1, 2, 3, 255} : SendsResponse(B2(v), p)
          \/ \E v \in {0, 1, 127, 255} : SendsResponse(U8(v), p)
    \/ \E dst \in Individuals, tpci \in {194, 129}, seq \in 0 .. 7 :
          SendsControl(dst, tpci, seq)
    \/ \E F \in Formats, h \in Headers, src \in Individuals, tpdu \in Tpdus :
          \/ \E dst \in Individuals : OtherSends(F, h, src, FALSE, dst, tpdu)
          \/ \E dst \in {0, Answered} : OtherSends(F, h, src, TRUE, dst, tpdu)
    \/ AltersOctet \/ LosesFirst \/ LosesLast \/ GainsOctet
    \/ Receives

Spec == Init /\ [][Next]_vars

-----------------------------------------------------------------------------
(* Properties *)

Arrived == stage = "received" /\ received.result = "Ok"

(* What is on the bus are octets, and the buffer of a standard frame is as  *)
(* long as its length field says, so that no slice of it can be out of      *)
(* range.                                                                   *)
TypeOK ==
    /\ stage \in {"idle", "wire", "received"} /\ own \in BOOLEAN
    /\ damage \in {"none", "start", "rest"}
    /\ \A i \in DOMAIN wire : wire[i] \in Octet
    /\ Arrived /\ received.format = "Standard" =>
          Cardinality(DOMAIN received.data) = length("Standard", received.data)

(* What the device puts on the bus, set bit by bit with `|=` into a buffer  *)
(* of zeros, is what the standard says for the value, the number and the    *)
(* addresses it means; only the flag of a repetition is always set.         *)
SendsWhatIsMeant ==
    stage = "wire" /\ own => sent = Encoded("Standard", meant, TRUE)

(* A frame that nobody damaged is accepted and every field of it is read as *)
(* its sender meant it, though lengths and offsets depend on the format.    *)
RoundTrip ==
    stage = "received" /\ damage = "none" =>
        Arrived /\ Fields(received.format, received.data) = meant

(* A frame with one octet altered, lost or added is not accepted, unless it *)
(* is the first one of a frame with four octets of TPDU or more: reads,     *)
(* answers and frames without data are safe from every such damage.         *)
DamagedIsRejected ==
    damage = "rest" \/ (damage = "start" /\ Len(meant.tpdu) < 4) => ~Arrived

(* When the first octet no longer starts a frame, run looks for one in the  *)
(* octets that follow.  What it then accepts is an end of the frame, octet  *)
(* for octet but for the length that set_length spoils in an extended one,  *)
(* and only where the octets before it cancel out in the checksum.          *)
OnlyTailsPass ==
    Arrived /\ damage = "start" =>
        \E s \in 4 .. Len(sent) :
            /\ Parity(SubSeq(sent, 1, s - 1)) = 0
            /\ Cardinality(DOMAIN received.data) = Len(sent) - s + 1
            /\ \A i \in DOMAIN received.data :
                  received.data[i] = sent[s + i]
                      \/ (received.format = "Extended" /\ i = LG_FIELD)

(* The layers above take an accepted frame for what the standard says, a    *)
(* read, a matter of the connection or neither, though they read it at      *)
(* offsets of their own.  Left out is a group frame without an APCI, whose   *)
(* checksum is read in its place.                                           *)
Understood ==
    Arrived /\ damage = "none" /\ (meant.group => Len(meant.tpdu) > 1) =>
        LET f == received.format
            d == received.data
            fields == Fields(f, d)
        IN Class(fields.group, fields.dst, tpci_eight(f, d), d[APCI_OFFSET(f) + 1])
             = Expected(meant)
=============================================================================
