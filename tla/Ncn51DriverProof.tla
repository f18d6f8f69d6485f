--------------------------- MODULE Ncn51DriverProof ---------------------------
(***************************************************************************)
(* What holds of Ncn51Driver for frames and buffers of any size: it does   *)
(* byte by byte what KnxStack does frame by frame, so that what is proved  *)
(* of KnxStack holds of it as well.                                        *)
(*                                                                         *)
(* The invariant of KnxStack is part of the one needed here: a step of the *)
(* driver is a step of KnxStack only where the types of KnxStack hold, and *)
(* they hold because all steps before were steps of KnxStack.              *)
(***************************************************************************)
EXTENDS Ncn51Driver, QueueLemmas

Proofs == INSTANCE KnxStackProof WITH driver <- Location, held <- Held

Locations ==
    {"select", "header", "body", "deliver", "dump", "write", "echo", "confirm"}
Statuses == {"Ok", "NotOk"}

(* The bytes on the wire: those of a frame are counted from 1, and the     *)
(* number 0 is that of a confirmation.                                     *)
Octets ==
    {b \in [of : Kinds, no : Nat, late : BOOLEAN] : b.no = 0 <=> b.of \in Statuses}

Typed ==
    /\ loc \in Locations
    /\ buf \in Seq(Octets) /\ wire \in Seq(Octets)
    /\ chip \in BOOLEAN /\ busy \in BOOLEAN /\ disturbed \in BOOLEAN
    /\ ~quiet

(* What the buffer may hold, wherever uart_task is.                        *)
Buffered ==
    /\ loc \in {"select", "dump", "write", "confirm"} => buf = <<>>
    /\ loc = "header" => Len(buf) \in 1 .. HeaderSize
    /\ loc \in {"body", "deliver"} => Len(buf) \in 1 .. BufferSize
    /\ loc = "echo" => Len(buf) < AnswerSize

(* A read is on the bus or in the buffer, and not in the stack yet.        *)
OnTheWire == \E b \in Range(wire) : b.of = "read"
InTheBuffer == loc \in {"header", "body"} /\ \E b \in Range(buf) : b.of = "read"

(* The load that let the read begin has not grown since: nothing else can  *)
(* be received in full before it.                                          *)
LoadAllows == OnTheWire \/ InTheBuffer => Stack!Owed < MaxOwed

(* There is no pause within the frame of another device.                   *)
NoPauseInRead == OnTheWire => \A b \in Range(wire) : ~b.late

(* Nobody else on the bus since our frame was taken up: the chip has it    *)
(* only while uart_task waits for the first byte of its echo.              *)
AloneOnTheBus ==
    ~disturbed =>
        /\ ~busy
        /\ loc = "write" => wire = <<>> /\ ~chip
        /\ chip => loc = "echo" /\ buf = <<>> /\ wire = <<>>

IInv ==
    /\ Proofs!IInv
    /\ Typed /\ Buffered /\ LoadAllows /\ NoPauseInRead /\ AloneOnTheBus

-----------------------------------------------------------------------------
(* The two instances *)

(* The modules KnxStack and KnxStackProof speak of the same stack.         *)
LEMMA SameStack ==
  /\ Stack!Init <=> Proofs!Init
  /\ Stack!AppNext <=> Proofs!AppNext
  /\ Stack!MainNext <=> Proofs!MainNext
  /\ Stack!Next <=> Proofs!Next
  /\ Stack!vars = Proofs!vars
  /\ Stack!Owed = Proofs!Owed
  /\ Stack!Halted <=> Proofs!Halted
<1> USE DEF Stack!One, Proofs!One, Stack!Transmitting, Proofs!Transmitting,
            Stack!driverVars, Proofs!driverVars, Stack!vars, Proofs!vars
<1>1. Stack!Init <=> Proofs!Init
  BY DEF Stack!Init, Proofs!Init
<1>2. Stack!AppNext <=> Proofs!AppNext
  BY DEF Stack!AppNext, Stack!AppTakeRead, Stack!AppTakeOther, Stack!AppTakeConnected,
         Stack!AppIndicate, Stack!AppTakeResponse, Stack!AppQueueFrame, Stack!AppConfirmed,
         Proofs!AppNext, Proofs!AppTakeRead, Proofs!AppTakeOther, Proofs!AppTakeConnected,
         Proofs!AppIndicate, Proofs!AppTakeResponse, Proofs!AppQueueFrame, Proofs!AppConfirmed
<1>3. Stack!MainNext <=> Proofs!MainNext
  BY DEF Stack!MainNext, Stack!MainReceive, Stack!MainRespond,
         Proofs!MainNext, Proofs!MainReceive, Proofs!MainRespond
<1>4. Stack!Owed = Proofs!Owed
  BY DEF Stack!Owed, Stack!Backlog, Stack!ReadsIn, Stack!Cardinality,
         Proofs!Owed, Proofs!Backlog, Proofs!ReadsIn, Proofs!Cardinality
<1>5. Stack!Halted <=> Proofs!Halted
  BY DEF Stack!Halted, Proofs!Halted
<1>6. Stack!DriverNext <=> Proofs!DriverNext
  BY <1>4
  DEF Stack!DriverNext, Stack!DriverFrameStart, Stack!DriverOutOfMemory, Stack!DriverAck,
      Stack!DriverReceiveFails, Stack!DriverFrameComplete, Stack!DriverDeliver,
      Stack!DriverBusSilent, Stack!DriverTransmit, Stack!DriverEcho,
      Stack!DriverTransmitFails, Stack!DriverConfirm, Stack!DriverSignals,
      Proofs!DriverNext, Proofs!DriverFrameStart, Proofs!DriverOutOfMemory, Proofs!DriverAck,
      Proofs!DriverReceiveFails, Proofs!DriverFrameComplete, Proofs!DriverDeliver,
      Proofs!DriverBusSilent, Proofs!DriverTransmit, Proofs!DriverEcho,
      Proofs!DriverTransmitFails, Proofs!DriverConfirm, Proofs!DriverSignals
<1>7. Stack!BusFallsQuiet <=> Proofs!BusFallsQuiet
  BY DEF Stack!BusFallsQuiet, Proofs!BusFallsQuiet
<1>8. Stack!Next <=> Proofs!Next
  BY <1>2, <1>3, <1>5, <1>6, <1>7 DEF Stack!Next, Proofs!Next
<1> QED
  BY <1>1, <1>2, <1>3, <1>4, <1>5, <1>8

(* Their steps are the same, and so are their specifications.              *)
LEMMA SameSteps == [Stack!Next]_(Stack!vars) <=> [Proofs!Next]_(Proofs!vars)
<1>1. UNCHANGED Stack!vars <=> UNCHANGED Proofs!vars
  BY DEF Stack!vars, Proofs!vars, Stack!driverVars, Proofs!driverVars
<1>2. Stack!Next <=> Proofs!Next
  BY SameStack
<1> QED
  BY <1>1, <1>2

LEMMA SameSpec == Stack!Spec <=> Proofs!Spec
<1>1. Stack!Init <=> Proofs!Init
  BY SameStack
<1> QED
  BY <1>1, SameSteps, PTL DEF Stack!Spec, Proofs!Spec

(* What is proved of KnxStack, under its assumptions.                      *)
LEMMA StackFacts ==
  /\ Proofs!Init => Proofs!IInv
  /\ Proofs!IInv /\ [Proofs!Next]_(Proofs!vars) => Proofs!IInv' /\ Proofs!Serves
  /\ Proofs!IInv => Proofs!Owed \in Nat
  BY StackAssumption, Proofs!InitIInv, Proofs!NextKeepsIInv, Proofs!NextServes,
     Proofs!OwedType
  DEF Proofs!Classes

-----------------------------------------------------------------------------
(* Bytes *)

(* The sizes are numbers, and a whole frame has a byte at least.            *)
LEMMA SizeFacts ==
  /\ Size("read") = ReadSize /\ Size(Own) = AnswerSize /\ Size(Long) = LongSize
  /\ \A f : Size(f) \in Nat \ {0}
<1>1. /\ {HeaderSize, ReadSize, OtherSize, AnswerSize, BufferSize, LongSize} \subseteq Nat
      /\ 0 < ReadSize /\ 0 < OtherSize /\ 0 < AnswerSize /\ 0 < LongSize
  BY SizeAssumption
<1>2. \A f : Size(f) \in {ReadSize, OtherSize, AnswerSize, LongSize}
  BY DEF Size
<1>3. \A f : Size(f) \in Nat \ {0}
  BY <1>1, <1>2
<1> QED
  BY <1>3 DEF Size, Own, Long

(* A frame on the wire: all its bytes are its own, without a pause.         *)
LEMMA BytesFacts ==
  ASSUME NEW f \in Traffic \cup {Own, Long}
  PROVE  /\ Bytes(f) \in Seq(Octets) /\ Len(Bytes(f)) = Size(f)
         /\ \A b \in Range(Bytes(f)) : b.of = f /\ ~b.late
<1> DEFINE n == Size(f)
           byte(i) == [of |-> f, no |-> i, late |-> FALSE]
<1>1. n \in Nat
  BY SizeFacts
<1>2. f \in Kinds /\ f \notin Statuses
  BY StackAssumption DEF Kinds, Statuses, Own, Long
<1>3. \A i \in 1 .. n : byte(i) \in Octets
  BY <1>1, <1>2 DEF Octets
<1>4. Bytes(f) = [i \in 1 .. n |-> byte(i)]
  BY DEF Bytes
<1> HIDE DEF n, byte
<1>5. Bytes(f) \in [1 .. n -> Octets]
  BY <1>3, <1>4
<1>6. Bytes(f) \in Seq(Octets)
  BY <1>1, <1>5, SeqDef
<1>7. Len(Bytes(f)) = n
  BY <1>1, <1>5, <1>6, LenProperties
<1>8. \A b \in Range(Bytes(f)) : \E i \in 1 .. n : b = byte(i)
  BY <1>4 DEF Range
<1>9. \A i : byte(i).of = f /\ ~byte(i).late
  BY DEF byte
<1> QED
  BY <1>6, <1>7, <1>8, <1>9 DEF n

(* The echo of our frame, that of its repetition and the confirmation.     *)
LEMMA EchoFacts ==
  ASSUME NEW status \in Statuses, NEW late \in BOOLEAN,
         NEW more \in {<<>>, OwnRepeated}
  PROVE  LET echo == Append(Bytes(Own) \o more, Con(status, late))
         IN  echo \in Seq(Octets) /\ \A b \in Range(echo) : b.of # "read"
<1> DEFINE own == Bytes(Own)
           echo == Append(own \o more, Con(status, late))
<1>1. own \in Seq(Octets) /\ Len(own) = AnswerSize /\ \A b \in Range(own) : b.of = Own
  BY BytesFacts, SizeFacts
<1>2. Con(status, late) \in Octets /\ Con(status, late).of \in Statuses
  BY DEF Con, Octets, Kinds, Statuses
<1>3. more \in Seq(Octets) /\ \A b \in Range(more) : b.of = Own
  <2>1. CASE more = <<>>
    BY <2>1, EmptySeq, RangeOfEmpty
  <2>2. CASE more = OwnRepeated
    <3>1. own[1] \in Octets /\ own[1].of = Own /\ own[1].no = 1
      <4>1. 1 \in 1 .. Size(Own) /\ 1 \in 1 .. Len(own)
        BY <1>1, SizeFacts
      <4>2. own[1] = [of |-> Own, no |-> 1, late |-> FALSE]
        BY <4>1 DEF Bytes
      <4> HIDE DEF own
      <4>3. own[1] \in Octets
        BY <1>1, <4>1, ElementOfSeq
      <4> QED
        BY <4>2, <4>3
    <3>2. [own[1] EXCEPT !.late = TRUE] \in Octets /\ [own[1] EXCEPT !.late = TRUE].of = Own
      BY <3>1 DEF Octets
    <3>3. more = [own EXCEPT ![1] = [own[1] EXCEPT !.late = TRUE]]
      BY <2>2 DEF OwnRepeated
    <3>4. 1 \in 1 .. Len(own)
      BY <1>1, SizeAssumption
    <3> HIDE DEF own
    <3>5. /\ more \in Seq(Octets) /\ Len(more) = Len(own)
          /\ \A j \in 1 .. Len(own) :
                more[j] = IF j = 1 THEN [own[1] EXCEPT !.late = TRUE] ELSE own[j]
      BY <1>1, <3>2, <3>3, <3>4, ExceptSeq
    <3>6. /\ Range(more) = {more[j] : j \in 1 .. Len(own)}
          /\ Range(own) = {own[j] : j \in 1 .. Len(own)}
      BY <1>1, <3>5, RangeEquality
    <3>7. \A j \in 1 .. Len(own) : own[j].of = Own
      BY <1>1, <3>6
    <3>8. \A j \in 1 .. Len(own) : more[j].of = Own
      BY <3>2, <3>5, <3>7
    <3> QED
      BY <3>5, <3>6, <3>8
  <2> QED
    BY <2>1, <2>2
<1> HIDE DEF own
<1>4. own \o more \in Seq(Octets) /\ Range(own \o more) = Range(own) \cup Range(more)
  BY <1>1, <1>3, ConcatProperties, RangeConcatenation
<1>5. /\ echo \in Seq(Octets)
      /\ Range(echo) = Range(own) \cup Range(more) \cup {Con(status, late)}
  <2>1. \A s \in Seq(Octets) : \A e \in Octets :
           Append(s, e) \in Seq(Octets) /\ Range(Append(s, e)) = Range(s) \cup {e}
    BY RangeAppend
  <2> QED
    BY <1>2, <1>4, <2>1
<1>6. "read" # Own /\ "read" \notin Statuses
  BY DEF Own, Statuses
<1>7. echo \in Seq(Octets) /\ \A b \in Range(echo) : b.of # "read"
  BY <1>1, <1>2, <1>3, <1>5, <1>6
<1> QED
  BY <1>7 DEF own

(* Taking one byte off the wire.                                           *)
LEMMA ReadsFacts ==
  ASSUME Typed, Reads
  PROVE  /\ wire # <<>> /\ Head(wire) \in Octets /\ Head(wire) \in Range(wire)
         /\ wire' \in Seq(Octets) /\ Range(wire') \subseteq Range(wire)
         /\ Byte \in Octets /\ Byte.of = Head(wire).of /\ Byte.no = Head(wire).no
<1>1. wire \in Seq(Octets) /\ wire # <<>> /\ wire' = Tail(wire)
  BY DEF Typed, Reads
<1>2. /\ Head(wire) \in Octets /\ Tail(wire) \in Seq(Octets)
      /\ Range(wire) = {Head(wire)} \cup Range(Tail(wire))
  BY <1>1, RangeHeadTail
<1>3. ASSUME NEW b \in Octets
      PROVE  /\ [b EXCEPT !.late = FALSE] \in Octets
             /\ [b EXCEPT !.late = FALSE].of = b.of
             /\ [b EXCEPT !.late = FALSE].no = b.no
  BY DEF Octets
<1> QED
  BY <1>1, <1>2, <1>3 DEF Byte

-----------------------------------------------------------------------------
(* Every step is one of KnxStack, or none *)

(* A step none of whose changes KnxStack sees.                             *)
LEMMA Stutters ==
  ASSUME UNCHANGED <<free, frameTx, frameRx, con, tasks>>,
         Location' = Location, Held' = Held
  PROVE  UNCHANGED Proofs!vars
  BY DEF tasks, Proofs!vars, Proofs!driverVars

(* A frame read in full is one of the traffic: it is too short for an      *)
(* extended frame, and a confirmation is no first byte.                    *)
LEMMA CompleteIsTraffic ==
  ASSUME IInv, loc = "body", buf = Bytes(buf[1].of)
  PROVE  Class(buf[1].of) \in Traffic /\ buf[1].of \notin Statuses
<1> DEFINE f == buf[1].of
<1>1. Len(buf) \in 1 .. BufferSize /\ buf \in Seq(Octets)
  BY DEF IInv, Buffered, Typed
<1>2. buf[1] \in Octets
  BY <1>1, SizeAssumption, ElementOfSeq
<1>3. buf[1] = [of |-> f, no |-> 1, late |-> FALSE]
  <2>1. Size(f) \in Nat \ {0}
    BY SizeFacts
  <2>2. Bytes(f)[1] = [of |-> f, no |-> 1, late |-> FALSE]
    BY <2>1 DEF Bytes
  <2> QED
    BY <2>2
<1>4. f \in Kinds /\ f \notin Statuses
  BY <1>2, <1>3 DEF Octets
<1>5. f # Long
  <2>1. SUFFICES ASSUME f = Long PROVE FALSE
    OBVIOUS
  <2>2. Len(buf) = LongSize
    BY <2>1, BytesFacts, SizeFacts
  <2> QED
    BY <1>1, <2>2, SizeAssumption
<1> QED
  BY <1>4, <1>5, StackAssumption DEF Kinds, Statuses, Class

(* The end of a frame, when it is taken for a whole one.                   *)
LEMMA TakenForFacts ==
  ASSUME NEW c \in Traffic
  PROVE  /\ Bytes(c) \in Seq(Octets) /\ Len(Bytes(c)) \in 1 .. BufferSize
         /\ Bytes(c)[1].of = c /\ Class(c) = c
<1>1. c # Own /\ c # Long
  BY StackAssumption DEF Own, Long
<1>2. Size(c) \in {ReadSize, OtherSize} /\ Size(c) \in Nat \ {0}
  BY <1>1, SizeFacts DEF Size
<1>3. Bytes(c) \in Seq(Octets) /\ Len(Bytes(c)) = Size(c)
  BY BytesFacts
<1>4. Size(c) \in 1 .. BufferSize
  BY <1>2, SizeAssumption
<1>5. Bytes(c)[1] = [of |-> c, no |-> 1, late |-> FALSE]
  BY <1>2 DEF Bytes
<1>6. Bytes(c)[1].of = c
  BY <1>5
<1> QED
  BY <1>1, <1>3, <1>4, <1>6 DEF Class

(* Receiving.                                                              *)
LEMMA ReceivingIsStack ==
  ASSUME IInv, ~Stack!Halted,
         \/ SelectReads \/ HeaderReads \/ BodyReads \/ ReadFails
         \/ BodyEnds \/ Deliver \/ Dump
  PROVE  [Proofs!Next]_(Proofs!vars)
<1> USE DEF Location, Held
<1>1. ~Proofs!Halted /\ ~quiet /\ free \in Nat
  BY SameStack, StackAssumption DEF IInv, Typed, Proofs!IInv, Proofs!TypeOK
<1>2. CASE SelectReads
  <2>1. CASE loc' = "header" /\ free > 0
    <3>1. Proofs!DriverFrameStart
      BY <1>1, <1>2, <2>1 DEF SelectReads, tasks, Proofs!DriverFrameStart
    <3> QED
      BY <1>1, <3>1 DEF Proofs!Next, Proofs!DriverNext
  <2>2. CASE loc' = "dump" /\ ~(free > 0)
    <3>1. Proofs!DriverOutOfMemory
      BY <1>1, <1>2, <2>2 DEF SelectReads, tasks, Proofs!DriverOutOfMemory
    <3> QED
      BY <1>1, <3>1 DEF Proofs!Next, Proofs!DriverNext
  <2>3. CASE UNCHANGED <<free, loc, buf>>
    BY <1>2, <2>3, Stutters DEF SelectReads
  <2> QED
    BY <1>2, <2>1, <2>2, <2>3 DEF SelectReads
<1>3. CASE HeaderReads
  <2>1. CASE loc' = "header"
    BY <1>3, <2>1, Stutters DEF HeaderReads
  <2>2. CASE loc' = "body"
    <3>1. Proofs!DriverAck
      BY <1>3, <2>2 DEF HeaderReads, tasks, Proofs!DriverAck
    <3> QED
      BY <1>1, <3>1 DEF Proofs!Next, Proofs!DriverNext
  <2> QED
    BY <1>3, <2>1, <2>2 DEF HeaderReads
<1>4. CASE BodyReads
  BY <1>4, Stutters DEF BodyReads
<1>5. ASSUME loc \in {"header", "body"}, ReceiveFails
      PROVE  [Proofs!Next]_(Proofs!vars)
  <2>1. Proofs!DriverReceiveFails
    BY <1>5 DEF ReceiveFails, tasks, Proofs!DriverReceiveFails
  <2> QED
    BY <1>1, <2>1 DEF Proofs!Next, Proofs!DriverNext
<1>6. CASE ReadFails
  BY <1>5, <1>6 DEF ReadFails
<1>7. CASE BodyEnds
  <2>1. CASE ReceiveFails
    BY <1>5, <1>7, <2>1 DEF BodyEnds
  <2>2. CASE loc' = "deliver" /\ buf = Bytes(buf[1].of) /\ UNCHANGED buf
    <3> DEFINE c == Class(buf[1].of)
    <3>1. c \in Traffic
      BY <1>7, <2>2, CompleteIsTraffic DEF BodyEnds
    <3>2. c = "read" => Proofs!Owed < MaxOwed
      <4>1. SUFFICES ASSUME c = "read" PROVE InTheBuffer
        BY SameStack DEF IInv, LoadAllows
      <4>2. buf[1].of = "read"
        BY <4>1 DEF Class
      <4>3. buf[1] \in Range(buf)
        BY <1>7, LenProperties, SizeAssumption DEF IInv, Typed, Buffered, BodyEnds, Range
      <4> QED
        BY <1>7, <4>2, <4>3 DEF InTheBuffer, BodyEnds
    <3>3. Proofs!DriverFrameComplete(c)
      BY <1>7, <2>2, <3>2 DEF BodyEnds, ReceiveFails, tasks, Proofs!DriverFrameComplete
    <3> QED
      BY <1>1, <3>1, <3>3 DEF Proofs!Next, Proofs!DriverNext
  <2>3. ASSUME loc' = "deliver", NEW c \in Traffic, MayBeTakenFor(c), buf' = Bytes(c)
        PROVE  [Proofs!Next]_(Proofs!vars)
    <3>1. Class(buf'[1].of) = c
      BY <2>3, TakenForFacts
    <3>2. c = "read" => Proofs!Owed < MaxOwed
      BY <2>3, SameStack DEF MayBeTakenFor
    <3>3. /\ loc = "body" /\ UNCHANGED <<free, frameTx, frameRx, con, tasks>>
          /\ Location = "body" /\ Location' = "deliver" /\ Held' = c
      BY <1>7, <2>3, <3>1 DEF BodyEnds, ReceiveFails
    <3>4. Proofs!DriverFrameComplete(c)
      BY <3>2, <3>3 DEF tasks, Proofs!DriverFrameComplete
    <3> QED
      BY <1>1, <3>4 DEF Proofs!Next, Proofs!DriverNext
  <2> QED
    BY <1>7, <2>1, <2>2, <2>3 DEF BodyEnds
<1>8. CASE Deliver
  <2>1. Proofs!DriverDeliver
    BY <1>8 DEF Deliver, tasks, Proofs!DriverDeliver
  <2> QED
    BY <1>1, <2>1 DEF Proofs!Next, Proofs!DriverNext
<1>9. CASE Dump
  <2>1. CASE loc' = "select"
    <3>1. Proofs!DriverBusSilent
      BY <1>9, <2>1 DEF Dump, tasks, Proofs!DriverBusSilent
    <3> QED
      BY <1>1, <3>1 DEF Proofs!Next, Proofs!DriverNext
  <2>2. CASE loc' = loc
    BY <1>9, <2>2, Stutters DEF Dump
  <2> QED
    BY <1>9, <2>1, <2>2 DEF Dump
<1> QED
  BY <1>2, <1>3, <1>4, <1>6, <1>7, <1>8, <1>9

(* Transmitting: what happens to the bytes is not seen, the exits are.     *)
LEMMA TransmittingIsStack ==
  ASSUME IInv, ~Stack!Halted,
         \/ Transmit \/ Written \/ WriteFails \/ EchoReads \/ EchoFails \/ ConfirmReads
  PROVE  [Proofs!Next]_(Proofs!vars)
<1> USE DEF Location, Held
<1>1. ~Proofs!Halted
  BY SameStack
<1>2. CASE Transmit
  <2>1. Proofs!DriverTransmit
    BY <1>2 DEF Transmit, tasks, Proofs!DriverTransmit
  <2> QED
    BY <1>1, <2>1 DEF Proofs!Next, Proofs!DriverNext
<1>3. CASE Written
  BY <1>3, Stutters DEF Written
<1>4. ASSUME loc \in {"write", "echo", "confirm"}, NEW status, Signals(status)
      PROVE  Proofs!DriverSignals(status)
  BY <1>4 DEF Signals, tasks, Proofs!DriverSignals
<1>5. ASSUME loc \in {"write", "echo"}, Signals("NotOk")
      PROVE  [Proofs!Next]_(Proofs!vars)
  <2>1. Proofs!DriverTransmitFails
    BY <1>4, <1>5 DEF Proofs!DriverTransmitFails
  <2> QED
    BY <1>1, <2>1 DEF Proofs!Next, Proofs!DriverNext
<1>6. CASE WriteFails
  BY <1>5, <1>6 DEF WriteFails
<1>7. CASE EchoReads
  <2>1. CASE loc' = "echo"
    BY <1>7, <2>1, Stutters DEF EchoReads
  <2>2. CASE loc' = "confirm"
    <3>1. Proofs!DriverEcho
      BY <1>7, <2>2 DEF EchoReads, tasks, Proofs!DriverEcho
    <3> QED
      BY <1>1, <3>1 DEF Proofs!Next, Proofs!DriverNext
  <2> QED
    BY <1>7, <2>1, <2>2 DEF EchoReads
<1>8. CASE EchoFails
  BY <1>5, <1>8 DEF EchoFails
<1>9. CASE ConfirmReads
  <2>1. PICK status \in {"Ok", "NotOk"} : Signals(status)
    BY <1>9 DEF ConfirmReads
  <2>2. Proofs!DriverConfirm(status)
    BY <1>4, <1>9, <2>1 DEF ConfirmReads, Proofs!DriverConfirm
  <2> QED
    BY <1>1, <2>2 DEF Proofs!Next, Proofs!DriverNext
<1> QED
  BY <1>2, <1>3, <1>6, <1>7, <1>8, <1>9

(* The chip and the bus act on what KnxStack does not see.                 *)
BusStep ==
    \/ \E f \in Traffic \cup {Long} : BusFrame(f)
    \/ BusIdles \/ ChipTransmits \/ ByteLost

LEMMA BusStutters ==
  ASSUME BusStep
  PROVE  UNCHANGED <<loc, buf>> /\ UNCHANGED Proofs!vars
<1>1. UNCHANGED <<free, frameTx, frameRx, con, tasks, loc, buf>>
  BY DEF BusStep, BusFrame, BusIdles, ChipTransmits, ByteLost
<1>2. Location' = Location /\ Held' = Held
  BY <1>1 DEF Location, Held
<1> QED
  BY <1>1, <1>2, Stutters

(* Every step of the driver, its surroundings and the other tasks.         *)
LEMMA NextIsStack == IInv /\ [Next]_vars => [Proofs!Next]_(Proofs!vars)
<1> SUFFICES ASSUME IInv, [Next]_vars PROVE [Proofs!Next]_(Proofs!vars)
  OBVIOUS
<1>1. CASE UNCHANGED vars
  <2>1. UNCHANGED <<free, frameTx, frameRx, con, tasks, loc, buf>>
    BY <1>1 DEF vars, drv
  <2>2. Location' = Location /\ Held' = Held
    BY <2>1 DEF Location, Held
  <2> QED
    BY <2>1, <2>2, Stutters
<1>2. ASSUME Next PROVE [Proofs!Next]_(Proofs!vars)
  <2>1. ~Stack!Halted /\ ~Proofs!Halted
    BY <1>2, SameStack DEF Next
  <2>2. CASE DriverStep \/ Transmit
    BY <2>1, <2>2, ReceivingIsStack, TransmittingIsStack DEF DriverStep
  <2>3. CASE AppStep \/ MainStep
    BY <2>1, <2>3, SameStack DEF AppStep, MainStep, Proofs!Next
  <2>4. CASE BusStep
    BY <2>4, BusStutters
  <2> QED
    BY <1>2, <2>2, <2>3, <2>4 DEF Next, BusStep
<1> QED
  BY <1>1, <1>2

-----------------------------------------------------------------------------
(* The inductive invariant *)

(* At the start the bus is silent and the driver waits.                    *)
LEMMA InitIInv == Init => IInv
<1> SUFFICES ASSUME Init PROVE IInv
  OBVIOUS
<1>1. Proofs!IInv
  BY StackFacts DEF Init, Proofs!Init, Location, Held
<1>2. <<>> \in Seq(Octets) /\ Len(<<>>) = 0
  BY EmptySeq
<1>3. Typed /\ Buffered
  BY <1>2 DEF Init, Typed, Buffered, Locations
<1>4. LoadAllows /\ NoPauseInRead
  BY RangeOfEmpty DEF Init, LoadAllows, NoPauseInRead, OnTheWire, InTheBuffer
<1>5. AloneOnTheBus
  BY DEF Init, AloneOnTheBus
<1> QED
  BY <1>1, <1>3, <1>4, <1>5 DEF IInv

(* The invariant of KnxStack is kept, and only the end of a read raises    *)
(* the load.                                                               *)
LEMMA NextKeepsStack ==
  ASSUME IInv, [Next]_vars
  PROVE  /\ Proofs!IInv' /\ Proofs!IInv
         /\ Stack!Owed \in Nat /\ Stack!Owed' \in Nat
         /\ (Held = "none" /\ Held' = "read") \/ Stack!Owed' <= Stack!Owed
<1>1. Proofs!IInv' /\ Proofs!Serves
  BY NextIsStack, StackFacts DEF IInv
<1>2. Proofs!Owed \in Nat /\ (Proofs!Owed \in Nat)'
  <2>1. Proofs!IInv => Proofs!Owed \in Nat
    BY StackFacts
  <2>2. (Proofs!IInv => Proofs!Owed \in Nat)'
    BY StackFacts, PTL
  <2> QED
    BY <1>1, <2>1, <2>2 DEF IInv
<1>3. Stack!Owed = Proofs!Owed /\ (Stack!Owed = Proofs!Owed)'
  <2>1. Stack!Owed = Proofs!Owed
    BY SameStack
  <2>2. (Stack!Owed = Proofs!Owed)'
    BY SameStack, PTL
  <2> QED
    BY <2>1, <2>2
<1> QED
  BY <1>1, <1>2, <1>3 DEF Proofs!Serves, IInv

(* What is left to show of a step: the driver's own part of the invariant, *)
(* where the load needs a look only if a read has begun or was received.   *)
LEMMA StepKeepsIInv ==
  ASSUME IInv, [Next]_vars,
         Typed', Buffered', NoPauseInRead', AloneOnTheBus',
         OnTheWire' \/ InTheBuffer' =>
             /\ ~(Held = "none" /\ Held' = "read")
             /\ OnTheWire \/ InTheBuffer \/ Stack!Owed < MaxOwed
  PROVE  IInv'
<1>1. LoadAllows'
  <2> SUFFICES ASSUME OnTheWire' \/ InTheBuffer' PROVE Stack!Owed' < MaxOwed
    BY DEF LoadAllows
  <2>1. Stack!Owed < MaxOwed
    BY DEF IInv, LoadAllows
  <2> QED
    BY <2>1, NextKeepsStack, StackAssumption
<1> QED
  BY <1>1, NextKeepsStack DEF IInv

(* One byte less on the wire.                                              *)
LEMMA OneByteLess ==
  ASSUME IInv, Reads
  PROVE  /\ OnTheWire' => OnTheWire
         /\ NoPauseInRead'
         /\ Head(wire).of = "read" => OnTheWire
<1>1. Head(wire) \in Range(wire) /\ Range(wire') \subseteq Range(wire)
  BY ReadsFacts DEF IInv
<1> QED
  BY <1>1 DEF IInv, NoPauseInRead, OnTheWire

(* A new frame, its bytes without a pause, or the echo of our own.         *)
LEMMA BusKeepsIInv ==
  ASSUME IInv, [Next]_vars, BusStep
  PROVE  IInv'
<1>1. UNCHANGED <<loc, buf>> /\ Held' = Held /\ UNCHANGED quiet
  BY BusStutters DEF BusStep, BusFrame, BusIdles, ChipTransmits, ByteLost, tasks,
                     Proofs!vars, Proofs!driverVars
<1>2. Buffered' /\ (InTheBuffer' <=> InTheBuffer)
  BY <1>1 DEF IInv, Buffered, InTheBuffer
<1>3. ASSUME NEW f \in Traffic \cup {Long}, BusFrame(f) PROVE IInv'
  <2>1. /\ wire' = Bytes(f) /\ busy' = TRUE /\ disturbed' = TRUE /\ chip' = chip
        /\ f = "read" => Stack!Owed < MaxOwed
    BY <1>3 DEF BusFrame
  <2>2. wire' \in Seq(Octets) /\ \A b \in Range(wire') : b.of = f /\ ~b.late
    BY <2>1, BytesFacts
  <2>3. NoPauseInRead' /\ AloneOnTheBus' /\ (OnTheWire' => f = "read")
    BY <2>1, <2>2 DEF NoPauseInRead, AloneOnTheBus, OnTheWire
  <2>4. Typed'
    BY <1>1, <2>1, <2>2 DEF IInv, Typed
  <2> QED
    BY <1>1, <1>2, <2>1, <2>3, <2>4, StepKeepsIInv
<1>4. CASE BusIdles
  <2>1. busy' = FALSE /\ UNCHANGED <<wire, chip, disturbed>>
    BY <1>4 DEF BusIdles
  <2>2. Typed'
    BY <1>1, <2>1 DEF IInv, Typed
  <2>3. NoPauseInRead' /\ AloneOnTheBus' /\ (OnTheWire' <=> OnTheWire)
    BY <1>1, <2>1 DEF IInv, NoPauseInRead, AloneOnTheBus, OnTheWire
  <2> QED
    BY <1>1, <1>2, <2>2, <2>3, StepKeepsIInv
<1>5. CASE ChipTransmits
  <2>1. PICK status \in Statuses, late \in BOOLEAN, more \in {<<>>, OwnRepeated} :
            wire' = Append(Bytes(Own) \o more, Con(status, late))
    BY <1>5 DEF ChipTransmits, Statuses
  <2>2. chip /\ chip' = FALSE /\ UNCHANGED <<busy, disturbed>>
    BY <1>5 DEF ChipTransmits
  <2>3. wire' \in Seq(Octets) /\ \A b \in Range(wire') : b.of # "read"
    BY <2>1, EchoFacts
  <2>4. Typed'
    BY <1>1, <2>2, <2>3 DEF IInv, Typed
  <2>5. ~OnTheWire' /\ NoPauseInRead'
    BY <2>3 DEF NoPauseInRead, OnTheWire
  <2>6. AloneOnTheBus'
    BY <1>1, <2>2 DEF IInv, AloneOnTheBus
  <2> QED
    BY <1>1, <1>2, <2>4, <2>5, <2>6, StepKeepsIInv
<1>6. CASE ByteLost
  <2>1. Reads /\ UNCHANGED <<chip, busy, disturbed>>
    BY <1>6 DEF ByteLost, Reads
  <2>2. wire # <<>> /\ wire' \in Seq(Octets)
    BY <2>1, ReadsFacts DEF IInv
  <2>3. Typed'
    BY <1>1, <2>1, <2>2 DEF IInv, Typed
  <2>4. AloneOnTheBus'
    BY <1>1, <2>1, <2>2 DEF IInv, AloneOnTheBus
  <2> QED
    BY <1>1, <1>2, <2>1, <2>3, <2>4, OneByteLess, StepKeepsIInv
<1> QED
  BY <1>3, <1>4, <1>5, <1>6 DEF BusStep

(* What is left to show of a step that reads or ends a frame of the bus:   *)
(* the chip takes no part in it.                                           *)
LEMMA ReceivingStepKeepsIInv ==
  ASSUME IInv, [Next]_vars,
         loc \notin {"write", "echo"}, loc' \in Locations \ {"write"},
         UNCHANGED <<chip, busy, disturbed, tasks>>,
         wire' = wire \/ Reads,
         buf' \in Seq(Octets), Buffered',
         InTheBuffer' => OnTheWire \/ InTheBuffer,
         OnTheWire' \/ InTheBuffer' => ~(Held = "none" /\ Held' = "read")
  PROVE  IInv'
<1>1. Typed'
  BY ReadsFacts DEF IInv, Typed, tasks
<1>2. AloneOnTheBus'
  BY DEF IInv, AloneOnTheBus
<1>3. NoPauseInRead' /\ (OnTheWire' => OnTheWire)
  <2>1. CASE wire' = wire
    BY <2>1 DEF IInv, NoPauseInRead, OnTheWire
  <2>2. CASE Reads
    BY <2>2, OneByteLess
  <2> QED
    BY <2>1, <2>2
<1> QED
  BY <1>1, <1>2, <1>3, StepKeepsIInv

(* One byte more in the buffer.                                            *)
LEMMA OneByteMore ==
  ASSUME IInv, Reads
  PROVE  /\ Append(buf, Byte) \in Seq(Octets)
         /\ Len(Append(buf, Byte)) = Len(buf) + 1 /\ Len(buf) \in Nat
         /\ Append(buf, Byte) # <<>>
         /\ \A b \in Range(Append(buf, Byte)) :
               b.of = "read" => OnTheWire \/ \E a \in Range(buf) : a.of = "read"
<1>1. buf \in Seq(Octets) /\ Byte \in Octets /\ (Byte.of = "read" => OnTheWire)
  BY ReadsFacts, OneByteLess DEF IInv, Typed
<1>2. /\ Append(buf, Byte) \in Seq(Octets) /\ Append(buf, Byte) # <<>>
      /\ Len(Append(buf, Byte)) = Len(buf) + 1
      /\ Range(Append(buf, Byte)) = Range(buf) \cup {Byte}
  BY <1>1, RangeAppend
<1>3. Len(buf) \in Nat
  BY <1>1, LenProperties
<1> QED
  BY <1>1, <1>2, <1>3

(* Reading into the buffer.                                                *)
LEMMA ReadingKeepsIInv ==
  ASSUME IInv, [Next]_vars, SelectReads \/ HeaderReads \/ BodyReads
  PROVE  IInv'
<1> USE DEF Locations
<1>1. /\ HeaderSize \in Nat \ {0} /\ BufferSize \in Nat /\ HeaderSize + 1 <= BufferSize
  BY SizeAssumption
<1>2. CASE SelectReads
  <2>1. /\ Reads /\ loc = "select" /\ buf = <<>> /\ UNCHANGED <<chip, busy, disturbed, tasks>>
    BY <1>2 DEF SelectReads, IInv, Buffered
  <2>2. CASE loc' = "header" /\ buf' = <<Byte>>
    <3>1. buf' = Append(buf, Byte)
      BY <2>1, <2>2
    <3>2. Range(buf) = {} /\ Len(buf) = 0
      BY <2>1, RangeOfEmpty, EmptySeq
    <3>3. buf' \in Seq(Octets) /\ Len(buf') = 1
      BY <2>1, <3>1, <3>2, OneByteMore
    <3>4. Buffered'
      BY <1>1, <2>2, <3>3 DEF Buffered
    <3>5. InTheBuffer' => OnTheWire
      BY <2>1, <3>1, <3>2, OneByteMore DEF InTheBuffer
    <3>6. Held' = "none"
      BY <2>2 DEF Held
    <3> QED
      BY <2>1, <2>2, <3>3, <3>4, <3>5, <3>6, ReceivingStepKeepsIInv
  <2>3. CASE loc' \in {"select", "dump"} /\ buf' = buf
    <3>1. buf' \in Seq(Octets) /\ Buffered' /\ ~InTheBuffer'
      BY <2>1, <2>3, EmptySeq DEF Buffered, InTheBuffer
    <3>2. Held' = "none"
      BY <2>3 DEF Held
    <3> QED
      BY <2>1, <2>3, <3>1, <3>2, ReceivingStepKeepsIInv
  <2> QED
    BY <1>2, <2>1, <2>2, <2>3 DEF SelectReads
<1>3. CASE HeaderReads
  <2>1. /\ Reads /\ loc = "header" /\ buf' = Append(buf, Byte)
        /\ Len(buf) \in 1 .. HeaderSize
        /\ \/ loc' = "header" /\ Len(buf') < HeaderSize
           \/ loc' = "body"
        /\ UNCHANGED <<chip, busy, disturbed, tasks>>
    BY <1>3 DEF HeaderReads, IInv, Buffered
  <2>2. buf' \in Seq(Octets) /\ Len(buf') = Len(buf) + 1
    BY <2>1, OneByteMore
  <2>3. Buffered'
    BY <1>1, <2>1, <2>2 DEF Buffered
  <2>4. InTheBuffer' => OnTheWire \/ InTheBuffer
    BY <2>1, OneByteMore DEF InTheBuffer
  <2>5. Held' = "none"
    BY <2>1 DEF Held
  <2> QED
    BY <2>1, <2>2, <2>3, <2>4, <2>5, ReceivingStepKeepsIInv
<1>4. CASE BodyReads
  <2>1. /\ Reads /\ loc = "body" /\ loc' = "body" /\ buf' = Append(buf, Byte)
        /\ Len(buf) < BufferSize /\ Len(buf) \in 1 .. BufferSize
        /\ UNCHANGED <<chip, busy, disturbed, tasks>>
    BY <1>4 DEF BodyReads, IInv, Buffered
  <2>2. buf' \in Seq(Octets) /\ Len(buf') = Len(buf) + 1
    BY <2>1, OneByteMore
  <2>3. Buffered'
    BY <1>1, <2>1, <2>2 DEF Buffered
  <2>4. InTheBuffer' => OnTheWire \/ InTheBuffer
    BY <2>1, OneByteMore DEF InTheBuffer
  <2>5. Held' = "none"
    BY <2>1 DEF Held
  <2> QED
    BY <2>1, <2>2, <2>3, <2>4, <2>5, ReceivingStepKeepsIInv
<1> QED
  BY <1>2, <1>3, <1>4

(* What does not fill the buffer ended with a pause, and there is none     *)
(* within a read.                                                          *)
LEMMA ShortEndsAlone ==
  ASSUME IInv, BodyEnds, Len(buf) < BufferSize
  PROVE  ~OnTheWire
<1>1. Paused
  BY SizeAssumption DEF BodyEnds
<1>2. ASSUME wire # <<>> PROVE Head(wire).late /\ Head(wire) \in Range(wire)
  BY <1>1, <1>2, RangeHeadTail DEF IInv, Typed, Paused
<1>3. wire = <<>> => ~OnTheWire
  BY RangeOfEmpty DEF OnTheWire
<1> QED
  BY <1>2, <1>3 DEF IInv, NoPauseInRead

(* A read received in full is the only one.                                *)
LEMMA ReadEndsAlone ==
  ASSUME IInv, BodyEnds, buf = Bytes(buf[1].of), buf[1].of = "read"
  PROVE  ~OnTheWire
<1>1. Len(buf) = ReadSize
  <2>1. buf[1].of \in Traffic \cup {Own, Long}
    BY CompleteIsTraffic, StackAssumption DEF BodyEnds, Class, Own
  <2> QED
    BY <2>1, BytesFacts, SizeFacts
<1> QED
  BY <1>1, ShortEndsAlone, SizeAssumption

(* Ending a frame, well or badly.                                          *)
LEMMA EndingKeepsIInv ==
  ASSUME IInv, [Next]_vars, ReadFails \/ BodyEnds \/ Deliver \/ Dump
  PROVE  IInv'
<1> USE DEF Locations
<1>1. <<>> \in Seq(Octets) /\ Len(<<>>) = 0
  BY EmptySeq
<1>2. ASSUME loc \in {"header", "body"}, ReceiveFails, wire' = wire \/ Reads
      PROVE  IInv'
  <2>1. loc' = "dump" /\ buf' = <<>> /\ UNCHANGED <<chip, busy, disturbed, tasks>>
    BY <1>2 DEF ReceiveFails
  <2>2. Buffered' /\ ~InTheBuffer' /\ Held' = "none"
    BY <2>1 DEF Buffered, InTheBuffer, Held
  <2> QED
    BY <1>1, <1>2, <2>1, <2>2, ReceivingStepKeepsIInv
<1>3. CASE ReadFails
  BY <1>2, <1>3 DEF ReadFails
<1>4. CASE BodyEnds
  <2>1. CASE ReceiveFails
    BY <1>2, <1>4, <2>1 DEF BodyEnds
  <2>2. CASE ~ReceiveFails
    <3>1. /\ loc = "body" /\ loc' = "deliver" /\ UNCHANGED wire
          /\ UNCHANGED <<chip, busy, disturbed, tasks>>
      BY <1>4, <2>2 DEF BodyEnds
    <3>2. \/ buf = Bytes(buf[1].of) /\ UNCHANGED buf
          \/ \E c \in Traffic : MayBeTakenFor(c) /\ buf' = Bytes(c)
      BY <1>4, <2>2 DEF BodyEnds
    <3>3. buf' \in Seq(Octets) /\ Len(buf') \in 1 .. BufferSize
      BY <3>1, <3>2, TakenForFacts DEF IInv, Typed, Buffered
    <3>4. Buffered' /\ ~InTheBuffer'
      BY <3>1, <3>3 DEF Buffered, InTheBuffer
    <3>5. OnTheWire' => OnTheWire
      BY <3>1 DEF OnTheWire
    <3>6. CASE buf = Bytes(buf[1].of) /\ UNCHANGED buf
      <4>1. Held' = "read" => buf[1].of = "read"
        BY <3>1, <3>6 DEF Held, Class
      <4>2. OnTheWire' => Held' # "read"
        BY <1>4, <3>5, <3>6, <4>1, ReadEndsAlone
      <4> QED
        BY <3>1, <3>3, <3>4, <3>5, <4>2, ReceivingStepKeepsIInv
    <3>7. ASSUME NEW c \in Traffic, MayBeTakenFor(c) PROVE IInv'
      <4>1. ~OnTheWire
        BY <1>4, <3>7, ShortEndsAlone DEF MayBeTakenFor
      <4> QED
        BY <3>1, <3>3, <3>4, <3>5, <4>1, ReceivingStepKeepsIInv
    <3> QED
      BY <3>2, <3>6, <3>7
  <2> QED
    BY <2>1, <2>2
<1>5. CASE Deliver
  <2>1. /\ loc = "deliver" /\ loc' = "select" /\ buf' = <<>> /\ wire' = wire
        /\ UNCHANGED <<chip, busy, disturbed, tasks>>
    BY <1>5 DEF Deliver
  <2>2. Buffered' /\ ~InTheBuffer' /\ Held' = "none"
    BY <2>1 DEF Buffered, InTheBuffer, Held
  <2> QED
    BY <1>1, <2>1, <2>2, ReceivingStepKeepsIInv
<1>6. CASE Dump
  <2>1. /\ loc = "dump" /\ loc' \in {"select", "dump"} /\ buf' = buf /\ buf = <<>>
        /\ wire' = wire \/ Reads
        /\ UNCHANGED <<chip, busy, disturbed, tasks>>
    BY <1>6 DEF Dump, IInv, Buffered
  <2>2. Buffered' /\ ~InTheBuffer' /\ Held' = "none"
    BY <2>1 DEF Buffered, InTheBuffer, Held
  <2> QED
    BY <1>1, <2>1, <2>2, ReceivingStepKeepsIInv
<1> QED
  BY <1>3, <1>4, <1>5, <1>6

(* Transmitting: nothing is in the buffer that the stack would see.        *)
LEMMA TransmittingKeepsIInv ==
  ASSUME IInv, [Next]_vars,
         \/ Transmit \/ Written \/ WriteFails \/ EchoReads \/ EchoFails \/ ConfirmReads
  PROVE  IInv'
<1> USE DEF Locations
<1>1. <<>> \in Seq(Octets) /\ Len(<<>>) = 0 /\ 0 < AnswerSize /\ AnswerSize \in Nat
  BY EmptySeq, SizeAssumption
<1>2. /\ buf \in Seq(Octets) /\ wire \in Seq(Octets) /\ ~quiet
      /\ chip \in BOOLEAN /\ busy \in BOOLEAN /\ disturbed \in BOOLEAN
      /\ loc = "echo" => Len(buf) < AnswerSize
      /\ loc \in {"select", "write", "confirm"} => buf = <<>>
  BY DEF IInv, Typed, Buffered
<1>3. ASSUME wire' = wire \/ Reads
      PROVE  /\ wire' \in Seq(Octets) /\ NoPauseInRead' /\ (OnTheWire' => OnTheWire)
             /\ wire' # wire => wire # <<>>
  <2>1. CASE wire' = wire
    BY <1>2, <2>1 DEF IInv, NoPauseInRead, OnTheWire
  <2>2. CASE Reads
    BY <2>2, OneByteLess, ReadsFacts DEF IInv
  <2> QED
    BY <1>3, <2>1, <2>2
<1>4. ASSUME loc' \in {"select", "write", "echo", "confirm"}, wire' = wire \/ Reads,
             buf' \in Seq(Octets), Buffered', AloneOnTheBus', UNCHANGED quiet,
             chip' \in BOOLEAN, busy' \in BOOLEAN, disturbed' \in BOOLEAN
      PROVE  IInv'
  <2>1. Typed'
    BY <1>2, <1>3, <1>4 DEF Typed
  <2>2. ~InTheBuffer' /\ Held' = "none"
    BY <1>4 DEF InTheBuffer, Held
  <2> QED
    BY <1>3, <1>4, <2>1, <2>2, StepKeepsIInv
<1>5. ASSUME loc \in {"write", "echo", "confirm"}, NEW status, Signals(status),
             wire' = wire \/ Reads, ~disturbed => ~chip
      PROVE  IInv'
  <2>1. loc' = "select" /\ buf' = <<>> /\ UNCHANGED <<chip, busy, disturbed, quiet>>
    BY <1>5 DEF Signals, tasks
  <2>2. Buffered'
    BY <2>1 DEF Buffered
  <2>3. AloneOnTheBus'
    BY <1>5, <2>1 DEF IInv, AloneOnTheBus
  <2> QED
    BY <1>1, <1>2, <1>4, <1>5, <2>1, <2>2, <2>3
<1>6. CASE Transmit
  <2>1. /\ loc = "select" /\ loc' = "write" /\ UNCHANGED <<buf, wire, chip, busy, quiet>>
        /\ disturbed' = (wire # <<>> \/ busy \/ chip)
    BY <1>6 DEF Transmit, tasks
  <2>2. Buffered'
    BY <1>2, <2>1 DEF Buffered
  <2>3. AloneOnTheBus'
    BY <2>1 DEF AloneOnTheBus
  <2>4. disturbed' \in BOOLEAN
    BY <2>1
  <2> QED
    BY <1>2, <1>4, <2>1, <2>2, <2>3, <2>4
<1>7. CASE Written
  <2>1. /\ loc = "write" /\ loc' = "echo" /\ chip' = TRUE
        /\ UNCHANGED <<buf, wire, busy, disturbed, quiet>>
    BY <1>7 DEF Written, tasks
  <2>2. Buffered'
    BY <1>1, <1>2, <2>1 DEF Buffered
  <2>3. AloneOnTheBus'
    BY <1>2, <2>1 DEF IInv, AloneOnTheBus
  <2>4. chip' \in BOOLEAN
    BY <2>1
  <2> QED
    BY <1>2, <1>4, <2>1, <2>2, <2>3, <2>4
<1>8. CASE WriteFails
  BY <1>5, <1>8 DEF WriteFails, IInv, AloneOnTheBus
<1>9. CASE EchoReads
  <2>1. /\ loc = "echo" /\ Reads /\ wire # <<>>
        /\ UNCHANGED <<chip, busy, disturbed, quiet>>
        /\ \/ /\ loc' = "echo" /\ buf' = Append(buf, Byte)
              /\ Len(buf) + 1 < AnswerSize
           \/ loc' = "confirm" /\ buf' = <<>>
    BY <1>9 DEF EchoReads, tasks, Reads
  <2>2. buf' \in Seq(Octets) /\ Buffered'
    BY <1>1, <2>1, OneByteMore DEF Buffered
  <2>3. AloneOnTheBus'
    BY <2>1 DEF IInv, AloneOnTheBus
  <2> QED
    BY <1>2, <1>4, <2>1, <2>2, <2>3
<1>10. CASE EchoFails
  <2>1. /\ loc = "echo" /\ Signals("NotOk") /\ (wire' = wire \/ Reads)
        /\ \/ buf # <<>> \/ busy \/ wire # <<>> \/ ~chip
    BY <1>10 DEF EchoFails, Reads
  <2>2. ~disturbed => ~chip
    BY <2>1 DEF IInv, AloneOnTheBus
  <2> QED
    BY <1>5, <2>1, <2>2
<1>11. CASE ConfirmReads
  <2>1. PICK status \in {"Ok", "NotOk"} : Signals(status)
    BY <1>11 DEF ConfirmReads
  <2>2. loc = "confirm" /\ Reads
    BY <1>11 DEF ConfirmReads
  <2>3. ~disturbed => ~chip
    BY <2>2 DEF IInv, AloneOnTheBus
  <2> QED
    BY <1>5, <2>1, <2>2, <2>3
<1> QED
  BY <1>6, <1>7, <1>8, <1>9, <1>10, <1>11
(* The other two tasks: the driver and the bus stand still.                *)
LEMMA TasksKeepIInv ==
  ASSUME IInv, [Next]_vars, AppStep \/ MainStep
  PROVE  IInv'
<1>1. UNCHANGED drv /\ UNCHANGED quiet
  <2>1. CASE AppStep
    BY <2>1 DEF AppStep, Stack!AppNext, Stack!AppTakeRead, Stack!AppTakeOther,
                Stack!AppTakeConnected, Stack!AppIndicate, Stack!AppTakeResponse,
                Stack!AppQueueFrame, Stack!AppConfirmed
  <2>2. CASE MainStep
    BY <2>2 DEF MainStep, Stack!MainNext, Stack!MainReceive, Stack!MainRespond
  <2> QED
    BY <2>1, <2>2
<1>2. Held' = Held
  BY <1>1 DEF drv, Held
<1>3. Typed' /\ Buffered' /\ NoPauseInRead' /\ AloneOnTheBus'
  BY <1>1 DEF drv, IInv, Typed, Buffered, NoPauseInRead, OnTheWire, AloneOnTheBus
<1>4. OnTheWire' \/ InTheBuffer' => OnTheWire \/ InTheBuffer
  BY <1>1 DEF drv, OnTheWire, InTheBuffer
<1> QED
  BY <1>2, <1>3, <1>4, StepKeepsIInv

(* Every step keeps the invariant.                                         *)
LEMMA NextKeepsIInv == IInv /\ [Next]_vars => IInv'
<1> SUFFICES ASSUME IInv, [Next]_vars PROVE IInv'
  OBVIOUS
<1>1. CASE DriverStep \/ Transmit
  <2>1. CASE SelectReads \/ HeaderReads \/ BodyReads
    BY <2>1, ReadingKeepsIInv
  <2>2. CASE ReadFails \/ BodyEnds \/ Deliver \/ Dump
    BY <2>2, EndingKeepsIInv
  <2>3. CASE \/ Transmit \/ Written \/ WriteFails \/ EchoReads \/ EchoFails
             \/ ConfirmReads
    BY <2>3, TransmittingKeepsIInv
  <2> QED
    BY <1>1, <2>1, <2>2, <2>3 DEF DriverStep
<1>2. CASE AppStep \/ MainStep
  BY <1>2, TasksKeepIInv
<1>3. CASE BusStep
  BY <1>3, BusKeepsIInv
<1>4. CASE UNCHANGED vars
  <2>1. UNCHANGED drv /\ UNCHANGED quiet
    BY <1>4 DEF vars, tasks
  <2>2. Held' = Held
    BY <2>1 DEF drv, Held
  <2>3. Typed' /\ Buffered' /\ NoPauseInRead' /\ AloneOnTheBus'
    BY <2>1 DEF drv, IInv, Typed, Buffered, NoPauseInRead, OnTheWire, AloneOnTheBus
  <2>4. OnTheWire' \/ InTheBuffer' => OnTheWire \/ InTheBuffer
    BY <2>1 DEF drv, OnTheWire, InTheBuffer
  <2> QED
    BY <2>2, <2>3, <2>4, StepKeepsIInv
<1> QED
  BY <1>1, <1>2, <1>3, <1>4 DEF Next, BusStep

LEMMA AlwaysIInv == Spec => []IInv
  BY InitIInv, NextKeepsIInv, PTL DEF Spec

-----------------------------------------------------------------------------
(* Type correctness; with Buffered the bound on what is read: the timed    *)
(* reads never write beyond the frame buffer.                              *)
THEOREM TypeCorrect == Spec => []TypeOK
<1>1. IInv => TypeOK
  <2> SUFFICES ASSUME IInv PROVE TypeOK
    OBVIOUS
  <2>1. Len(buf) <= BufferSize
    <3>1. buf = <<>> => Len(buf) = 0
      BY EmptySeq
    <3>2. Len(buf) \in Nat
      BY LenProperties DEF IInv, Typed
    <3> QED
      BY <3>1, <3>2, SizeAssumption DEF IInv, Typed, Locations, Buffered
  <2>2. \A s \in {buf, wire} : \A i \in DOMAIN s : s[i].of \in Kinds
    <3>1. ASSUME NEW s \in Seq(Octets), NEW i \in DOMAIN s PROVE s[i].of \in Kinds
      BY <3>1, LenProperties, ElementOfSeq DEF Octets
    <3> QED
      BY <3>1 DEF IInv, Typed
  <2>3. free \in 0 .. PoolSize /\ con \in {"none", "Ok", "NotOk"}
    BY StackAssumption DEF IInv, Proofs!IInv, Proofs!TypeOK
  <2> QED
    BY <2>1, <2>2, <2>3 DEF IInv, Typed, Locations, TypeOK
<1> QED
  BY <1>1, AlwaysIInv, PTL

(* The refinement.  Byte by byte, with bytes lost, misread or taken for    *)
(* others, the driver does on the pool, the channels and the signal what   *)
(* KnxStack says, for frames of any length.                                *)
THEOREM DriverImplementsStack == Spec => ImplementsStack
<1>1. Init => Stack!Init
  BY DEF Init, Stack!Init, Location, Held
<1>2. IInv /\ [Next]_vars => [Stack!Next]_(Stack!vars)
  BY NextIsStack, SameSteps
<1> QED
  BY <1>1, <1>2, AlwaysIInv, PTL DEF Spec, ImplementsStack, Stack!Spec

(* With nobody else on the bus a confirmation is never for a frame that    *)
(* the chip still holds.                                                   *)
THEOREM ConfirmedFrameIsOut == Spec => []ConfirmedIsOut
<1>1. IInv => ConfirmedIsOut
  <2> SUFFICES ASSUME IInv, ~disturbed, chip PROVE con = "none"
    BY DEF ConfirmedIsOut
  <2>1. Proofs!Transmitting
    BY DEF IInv, AloneOnTheBus, Location, Proofs!Transmitting
  <2>2. frameRx \in Nat /\ Proofs!OneFrameInFlight
    BY StackAssumption DEF IInv, Proofs!IInv, Proofs!TypeOK
  <2> QED
    BY <2>1, <2>2 DEF Proofs!OneFrameInFlight, Proofs!One
<1> QED
  BY <1>1, AlwaysIInv, PTL

-----------------------------------------------------------------------------
(* What the refinement carries over: theorems about KnxStack that, read    *)
(* through the mapping, speak of the bytes on the wire.                    *)

(* No block of FRAME_POOL is lost in a read that fails half way.           *)
THEOREM DriverKeepsBoxes == Spec => []Proofs!BoxesConserved
<1>1. IInv => Proofs!BoxesConserved
  BY DEF IInv, Proofs!IInv
<1> QED
  BY <1>1, AlwaysIInv, PTL

(* The driver never waits for room when it hands a frame on, so that it    *)
(* misses no byte of the next one for the sake of a slow application.      *)
THEOREM DriverNeverBlocks == Spec => []Proofs!AckedFrameHasRoom
<1>1. Spec => Proofs!Spec
  BY DriverImplementsStack, SameSpec, PTL DEF ImplementsStack
<1>2. Proofs!Spec => []Proofs!AckedFrameHasRoom
  BY StackAssumption, Proofs!AckedFramesHaveRoom DEF Proofs!Classes
<1> QED
  BY <1>1, <1>2, PTL

(* Whatever happens to the bytes, to_transport finds a free buffer.        *)
THEOREM DriverUnwrapIsSafe == Spec => []Proofs!UnwrapNeverFails
<1>1. Spec => Proofs!Spec
  BY DriverImplementsStack, SameSpec, PTL DEF ImplementsStack
<1>2. Proofs!Spec => []Proofs!UnwrapNeverFails
  BY StackAssumption, Proofs!UnwrapIsSafe DEF Proofs!Classes
<1> QED
  BY <1>1, <1>2, PTL

(* Seen from the bus, byte by byte, the device is the server of group      *)
(* reads: it answers what it accepted, once, and nothing else.             *)
THEOREM DriverImplementsServer == Spec => Proofs!ImplementsServer
<1>1. Spec => Proofs!Spec
  BY DriverImplementsStack, SameSpec, PTL DEF ImplementsStack
<1>2. Proofs!Spec => Proofs!ImplementsServer
  BY StackAssumption, Proofs!StackImplementsServer DEF Proofs!Classes
<1> QED
  BY <1>1, <1>2, PTL
=============================================================================
