----------------------------- MODULE Ncn51Driver -----------------------------
(***************************************************************************)
(* uart_task byte by byte: NCN51Driver between the NCN5120 chip and the    *)
(* other two tasks, whose steps are those of KnxStack.  It is shown to     *)
(* implement KnxStack, where a frame arrives or is sent as a whole.        *)
(*                                                                         *)
(* The chip hands on every byte it sees on the bus, the echo of our own    *)
(* frames included, and after such an echo the byte L_Data.con.  A byte    *)
(* is known here by the frame it is part of and its place in that frame.   *)
(* A buffer passes the length and checksum tests if it is one whole frame, *)
(* and it may pass if the first octet of its frame was lost: FrameCodec    *)
(* shows that the tests find the others.                                   *)
(***************************************************************************)
EXTENDS Naturals, Sequences

CONSTANTS
    PoolSize, FrameCap, ServiceCap, Traffic, MaxOwed,  \* of KnxStack
    HeaderSize,   \* bytes up to the destination and its type
    ReadSize,     \* bytes of a group read
    OtherSize,    \* bytes of any other standard frame of another device
    AnswerSize,   \* bytes of a frame of ours
    BufferSize,   \* MAX_FRAME_SIZE of StandardFrame
    LongSize      \* bytes of an extended frame

ASSUME SizeAssumption ==
    /\ {HeaderSize, ReadSize, OtherSize, AnswerSize, BufferSize, LongSize} \subseteq Nat
    /\ 0 < HeaderSize /\ 1 < AnswerSize
    /\ \A s \in {ReadSize, OtherSize, AnswerSize} : HeaderSize < s /\ s < BufferSize
    /\ BufferSize < LongSize

ASSUME StackAssumption ==   \* those of KnxStack; a frame of ours may come in
    /\ PoolSize \in Nat /\ PoolSize >= 2
    /\ FrameCap \in Nat /\ PoolSize <= FrameCap
    /\ ServiceCap \in Nat \ {0}
    /\ {"other"} \subseteq Traffic /\ Traffic \subseteq {"read", "connected", "other"}
    /\ MaxOwed \in Nat

VARIABLES
    free, frameTx, frameRx, con, app, serviceRx, serviceTx, main,  \* of KnxStack
    quiet,      \* of KnxStack; here the other devices never fall silent for good
    loc,        \* where uart_task is
    buf,        \* what its current frame, or its current echo, has read
    wire,       \* bytes of the frame now on the bus, still to be read
    chip,       \* the chip holds a frame of ours that is not on the bus yet
    busy,       \* another device's frame, or the pause after it, keeps the bus
    disturbed   \* history: not alone on the bus since our frame was taken up

drv == <<loc, buf, wire, chip, busy, disturbed>>
tasks == <<app, serviceRx, serviceTx, main, quiet>>
vars == <<free, frameTx, frameRx, con, tasks, drv>>

Own == "own"
Long == "long"
Size(f) == CASE f = "read" -> ReadSize
             [] f = Own -> AnswerSize
             [] f = Long -> LongSize
             [] OTHER -> OtherSize
Bytes(f) == [i \in 1 .. Size(f) |-> [of |-> f, no |-> i, late |-> FALSE]]

(* A late byte comes more than BUS_SILENCE_US after the byte before it: the *)
(* first one of a repetition, and L_Data.con at times.                      *)
OwnRepeated == [Bytes(Own) EXCEPT ![1].late = TRUE]
Con(status, late) == [of |-> status, no |-> 0, late |-> late]
Byte == [Head(wire) EXCEPT !.late = FALSE]

(* A pause the timed reads notice. *)
Paused == IF wire = <<>> THEN TRUE ELSE Head(wire).late

(* The stack takes an echo of our own for a group response: "other". *)
Class(f) == IF f = Own THEN "other" ELSE f

Location ==
    CASE loc = "select" -> "idle"
      [] loc \in {"write", "echo"} -> "transmit"
      [] OTHER -> loc
Held == IF loc = "deliver" THEN Class(buf[1].of) ELSE "none"

Stack == INSTANCE KnxStack WITH driver <- Location, held <- Held

Init ==
    /\ free = PoolSize /\ frameTx = <<>> /\ frameRx = 0 /\ con = "none"
    /\ app = "select" /\ serviceRx = 0 /\ serviceTx = 0 /\ main = "receive"
    /\ quiet = FALSE
    /\ loc = "select" /\ buf = <<>>
    /\ wire = <<>> /\ chip = FALSE /\ busy = FALSE /\ disturbed = FALSE

-----------------------------------------------------------------------------
(* The chip and the bus *)

(* The read under way has seen a byte of a frame that is over: it times out *)
(* before the next frame begins, which a pause on the bus precedes.         *)
TimesOutFirst == loc \in {"header", "body", "dump"} \/ (loc = "echo" /\ buf # <<>>)

BusFrame(f) ==
    /\ wire = <<>> /\ ~busy /\ ~TimesOutFirst
    /\ f = "read" => Stack!Owed < MaxOwed
    /\ wire' = Bytes(f)
    /\ busy' = TRUE
    /\ disturbed' = TRUE
    /\ UNCHANGED <<free, frameTx, frameRx, con, tasks, loc, buf, chip>>

BusIdles ==
    /\ busy /\ wire = <<>>
    /\ busy' = FALSE
    /\ UNCHANGED <<free, frameTx, frameRx, con, tasks, loc, buf, wire, chip, disturbed>>

(* The echo, that of a repetition if nobody acknowledged it, and L_Data.con. *)
ChipTransmits ==
    /\ chip /\ wire = <<>> /\ ~busy /\ ~TimesOutFirst
    /\ chip' = FALSE
    /\ \E status \in {"Ok", "NotOk"}, late \in BOOLEAN, more \in {<<>>, OwnRepeated} :
          wire' = Append(Bytes(Own) \o more, Con(status, late))
    /\ UNCHANGED <<free, frameTx, frameRx, con, tasks, loc, buf, busy, disturbed>>

(* Nothing reads while send_frame writes, nor when the select drops its     *)
(* read: a byte that arrives is lost.                                       *)
ByteLost ==
    /\ loc = "write" /\ wire # <<>>
    /\ wire' = Tail(wire)
    /\ UNCHANGED <<free, frameTx, frameRx, con, tasks, loc, buf, chip, busy, disturbed>>

-----------------------------------------------------------------------------
(* Receiving *)

Reads == wire # <<>> /\ wire' = Tail(wire)

(* A frame starts with a start byte, unless it is read with an error; a     *)
(* byte further on may look like one, the confirmation does not.  Extended  *)
(* frames read from their first byte on are the subject of FrameCodec.      *)
SelectReads ==
    /\ loc = "select" /\ Reads
    /\ \/ /\ Head(wire).no # 0 /\ Byte # Bytes(Long)[1]
          /\ IF free > 0
                THEN free' = free - 1 /\ loc' = "header" /\ buf' = <<Byte>>
                ELSE loc' = "dump" /\ UNCHANGED <<free, buf>>
       \/ UNCHANGED <<free, loc, buf>>
    /\ UNCHANGED <<frameTx, frameRx, con, tasks, chip, busy, disturbed>>

HeaderReads ==
    /\ loc = "header" /\ ~Paused /\ Reads
    /\ buf' = Append(buf, Byte)
    /\ loc' = IF Len(buf') < HeaderSize THEN "header" ELSE "body"
    /\ UNCHANGED <<free, frameTx, frameRx, con, tasks, chip, busy, disturbed>>

(* Mutant: reading on in a full buffer. *)
BodyReadsOn ==
    /\ loc = "body" /\ ~Paused /\ Reads
    /\ buf' = Append(buf, Byte)
    /\ UNCHANGED <<free, frameTx, frameRx, con, tasks, loc, chip, busy, disturbed>>

BodyReads ==
    /\ loc = "body" /\ ~Paused /\ Len(buf) < BufferSize /\ Reads
    /\ buf' = Append(buf, Byte)
    /\ UNCHANGED <<free, frameTx, frameRx, con, tasks, loc, chip, busy, disturbed>>

(* Mutant: the error path keeps the buffer. *)
ReceiveFailsLeaks ==
    /\ loc' = "dump" /\ buf' = <<>>
    /\ UNCHANGED <<free, frameTx, frameRx, con, tasks, chip, busy, disturbed>>

ReceiveFails ==
    /\ loc' = "dump" /\ buf' = <<>>
    /\ free' = free + 1
    /\ UNCHANGED <<frameTx, frameRx, con, tasks, chip, busy, disturbed>>

(* A timeout in the header, or a UART error (parity, overrun). *)
ReadFails ==
    \/ loc = "header" /\ Paused /\ ReceiveFails /\ UNCHANGED wire
    \/ loc \in {"header", "body"} /\ ~Paused /\ Reads /\ ReceiveFails

(* The tests do not see for certain that the start of a frame is missing:   *)
(* the rest may look like any frame.  A full buffer never passes.           *)
MayBeTakenFor(c) ==
    /\ buf[1].no # 1 /\ Len(buf) < BufferSize
    /\ c = "read" => Stack!Owed < MaxOwed

(* The body ends at a timeout or with a full buffer. *)
BodyEnds ==
    /\ loc = "body" /\ (Paused \/ Len(buf) = BufferSize)
    /\ UNCHANGED wire
    /\ \/ /\ loc' = "deliver"
          /\ \/ buf = Bytes(buf[1].of) /\ UNCHANGED buf
             \/ \E c \in Traffic : MayBeTakenFor(c) /\ buf' = Bytes(c)
          /\ UNCHANGED <<free, frameTx, frameRx, con, tasks, chip, busy, disturbed>>
       \/ buf # Bytes(buf[1].of) /\ ReceiveFails

Deliver ==
    /\ loc = "deliver"
    /\ Len(frameTx) < FrameCap
    /\ frameTx' = Append(frameTx, Held)
    /\ loc' = "select" /\ buf' = <<>>
    /\ UNCHANGED <<free, frameRx, con, tasks, wire, chip, busy, disturbed>>

(* read_with_timeout_ignore_errors *)
Dump ==
    /\ loc = "dump"
    /\ IF Paused THEN loc' = "select" /\ UNCHANGED wire ELSE Reads /\ UNCHANGED loc
    /\ UNCHANGED <<free, frameTx, frameRx, con, tasks, buf, chip, busy, disturbed>>

-----------------------------------------------------------------------------
(* Transmitting *)

Transmit ==
    /\ loc = "select" /\ frameRx > 0
    /\ frameRx' = frameRx - 1
    /\ loc' = "write"
    /\ disturbed' = (wire # <<>> \/ busy \/ chip)
    /\ UNCHANGED <<free, frameTx, con, tasks, buf, wire, chip, busy>>

Signals(status) ==
    /\ con' = status
    /\ free' = free + 1
    /\ loc' = "select" /\ buf' = <<>>
    /\ UNCHANGED <<frameTx, frameRx, tasks, chip, busy, disturbed>>

(* Mutant: send_frame returns when all is written. *)
WrittenIsSent ==
    /\ loc = "write"
    /\ chip' = TRUE
    /\ con' = "Ok" /\ free' = free + 1 /\ loc' = "select"
    /\ UNCHANGED <<frameTx, frameRx, tasks, buf, wire, busy, disturbed>>

(* The chip has the whole request; one still waiting in it is overwritten. *)
Written ==
    /\ loc = "write"
    /\ chip' = TRUE
    /\ loc' = "echo"
    /\ UNCHANGED <<free, frameTx, frameRx, con, tasks, buf, wire, busy, disturbed>>

(* A write fails before the request is complete. *)
WriteFails == loc = "write" /\ UNCHANGED wire /\ Signals("NotOk")

(* Mutant: the echo is one byte longer than the frame. *)
EchoReadsOneMore ==
    /\ loc = "echo" /\ ~Paused /\ Reads
    /\ IF Len(buf) < AnswerSize
          THEN buf' = Append(buf, Byte) /\ UNCHANGED loc
          ELSE buf' = <<>> /\ loc' = "confirm"
    /\ UNCHANGED <<free, frameTx, frameRx, con, tasks, chip, busy, disturbed>>

(* As many bytes are read back as were sent, whatever they are. *)
EchoReads ==
    /\ loc = "echo" /\ ~Paused /\ Reads
    /\ IF Len(buf) + 1 < AnswerSize
          THEN buf' = Append(buf, Byte) /\ UNCHANGED loc
          ELSE buf' = <<>> /\ loc' = "confirm"
    /\ UNCHANGED <<free, frameTx, frameRx, con, tasks, chip, busy, disturbed>>

(* A timeout, unless the bus is free for the chip and our first byte comes  *)
(* in time, or a UART error.                                                *)
EchoFails ==
    /\ loc = "echo"
    /\ \/ Paused /\ (buf # <<>> \/ busy \/ wire # <<>> \/ ~chip) /\ UNCHANGED wire
       \/ ~Paused /\ Reads
    /\ Signals("NotOk")

(* The last read has no timeout.  A confirmation tells the status, a byte   *)
(* of a frame may be taken for any, and a UART error is NotOk.              *)
ConfirmReads ==
    /\ loc = "confirm" /\ Reads
    /\ \/ Signals("NotOk")
       \/ Head(wire).of # "NotOk" /\ Signals("Ok")

DriverStep ==
    \/ SelectReads \/ HeaderReads \/ BodyReads \/ ReadFails \/ BodyEnds \/ Deliver
    \/ Dump \/ Written \/ WriteFails \/ EchoReads \/ EchoFails \/ ConfirmReads

AppStep == UNCHANGED drv /\ Stack!AppNext
MainStep == UNCHANGED drv /\ Stack!MainNext

Next ==
    /\ ~Stack!Halted
    /\ \/ DriverStep \/ Transmit \/ AppStep \/ MainStep
       \/ \E f \in Traffic \cup {Long} : BusFrame(f)
       \/ BusIdles \/ ChipTransmits \/ ByteLost

Spec == Init /\ [][Next]_vars

(***************************************************************************)
(* The executor polls every task that can go on; the timers of the driver  *)
(* expire; every frame ends, and the chip, which keeps trying for the bus, *)
(* gets it at last and then confirms.                                      *)
(***************************************************************************)
Fairness ==
    /\ WF_vars(DriverStep)
    /\ SF_vars(Transmit)
    /\ WF_vars(AppStep) /\ WF_vars(MainStep)
    /\ WF_vars(BusIdles) /\ SF_vars(ChipTransmits)

FairSpec == Spec /\ Fairness

-----------------------------------------------------------------------------
(* Properties *)

Kinds == Traffic \cup {Own, Long, "Ok", "NotOk"}

(* Every variable of the driver stays in its range; no more bytes are read  *)
(* than the buffer holds.                                                   *)
TypeOK ==
    /\ loc \in {"select", "header", "body", "deliver", "dump", "write", "echo", "confirm"}
    /\ Len(buf) <= BufferSize
    /\ \A s \in {buf, wire} : \A i \in DOMAIN s : s[i].of \in Kinds
    /\ {chip, busy, disturbed} \subseteq BOOLEAN
    /\ free \in 0 .. PoolSize /\ con \in {"none", "Ok", "NotOk"}

(* Bytes lost, misread or taken for others, the driver still does on the   *)
(* channels, the pool and the signal what KnxStack says.                    *)
ImplementsStack == Stack!Spec

(* While nobody else talks on the bus a confirmation means that the frame   *)
(* has left the chip: the next request cannot overwrite it.                 *)
ConfirmedIsOut == ~disturbed /\ con # "none" => ~chip

(* Every frame handed to the driver is confirmed, although the last read    *)
(* has no timeout and the bytes it has read before may be another frame's.  *)
SendConfirmed == app = "await_con" ~> app = "select"
=============================================================================
