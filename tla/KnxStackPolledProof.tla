------------------------- MODULE KnxStackPolledProof -------------------------
(***************************************************************************)
(* What the polling adds to KnxStack, for pools, channels and loads of any *)
(* size: a bound on the backlog that does not come from the bus.           *)
(*                                                                         *)
(* The invariant says when a second read, or a second buffer outside the   *)
(* driver, can be there at all: between the end of a frame, before which   *)
(* the tasks have come to rest, and the transmission that the select has   *)
(* found and that follows at once.                                         *)
(***************************************************************************)
EXTENDS KnxStackPolled, KnxStackProof

SettledOnDelivery == driver = "deliver" => AppRests /\ MainRests

ReadsSpread ==
    /\ Owed <= 2
    /\ Owed = 2 => driver = "deliver" \/ found = "frame" \/ Transmitting

(* Blocks of the pool in channels and in the application. *)
Outside == Len(frameTx) + One(AppOwnsBox) + frameRx
BuffersSpread ==
    /\ Outside <= 2
    /\ Outside = 2 => found = "frame"

PInv == IInv /\ PolledTypeOK /\ SettledOnDelivery /\ ReadsSpread /\ BuffersSpread

-----------------------------------------------------------------------------
(* A step is one of KnxStack.                                              *)
LEMMA PolledIsStack == [PolledNext]_polledVars => [Next]_vars
<1> SUFFICES ASSUME [PolledNext]_polledVars PROVE [Next]_vars
  OBVIOUS
<1>1. CASE UNCHANGED polledVars
  BY <1>1 DEF polledVars
<1>2. CASE PolledNext
  BY <1>2 DEF PolledNext, ByteWins, DriverWorks, DriverStays, FrameEnds, Loops,
              LeavesSelectedBranch, Sends, Apps, Mains, Next, DriverNext
<1> QED
  BY <1>1, <1>2

(* The numbers the invariant is about.                                     *)
LEMMA Numbers ==
  ASSUME IInv
  PROVE  /\ Owed \in Nat /\ Backlog \in Nat /\ ReadsIn(frameTx) \in Nat
         /\ Outside \in Nat /\ Len(frameTx) \in Nat /\ frameRx \in Nat
         /\ serviceRx \in Nat /\ serviceTx \in Nat
<1>1. Owed \in Nat /\ Backlog \in Nat /\ ReadsIn(frameTx) \in Nat
  BY OwedType
<1>2. frameRx \in Nat /\ serviceRx \in Nat /\ serviceTx \in Nat /\ Len(frameTx) \in Nat
  BY CapacityAssumption, LenProperties DEF IInv, TypeOK
<1> QED
  BY <1>1, <1>2 DEF Outside, One

(* The tasks rest in one of two ways: with nothing to do, or waiting for   *)
(* the confirmation of a frame that is still in the channel.               *)
LEMMA WaysToRest ==
  ASSUME IInv, AppRests, MainRests, Owed <= 2, ~Transmitting
  PROVE  \/ /\ app = "select" /\ frameTx = <<>> /\ frameRx = 0
            /\ Backlog = 0 /\ ReadsIn(frameTx) = 0
         \/ app = "await_con" /\ frameRx = 1
<1>1. /\ frameRx \in Nat /\ serviceRx \in Nat /\ serviceTx \in Nat
      /\ ServiceCap \in Nat \ {0} /\ FrameCap >= 2 /\ FrameCap \in Nat
      /\ ReadsIn(frameTx) \in Nat /\ Backlog \in Nat /\ Owed \in Nat
      /\ OneFrameInFlight
  BY Numbers, CapacityAssumption DEF IInv
<1>2. CASE app = "select" /\ frameTx = <<>> /\ serviceTx = 0
  <2>1. main = "receive" /\ serviceRx = 0
    BY <1>1, <1>2 DEF MainRests
  <2>2. Backlog = 0
    BY <1>2, <2>1 DEF Backlog, One
  <2>3. frameRx = 0
    BY <1>1, <1>2 DEF OneFrameInFlight, One
  <2>4. ReadsIn(frameTx) = 0
    BY <1>2, ReadsInEmpty
  <2> QED
    BY <1>2, <2>2, <2>3, <2>4
<1>3. CASE app = "indicate" /\ serviceRx = ServiceCap
  <2>1. main = "respond" /\ serviceTx = ServiceCap
    BY <1>1, <1>3 DEF MainRests
  <2>2. Backlog >= 4
    BY <1>1, <1>3, <2>1 DEF Backlog, One
  <2>3. Owed >= Backlog
    BY <1>1 DEF Owed, One
  <2> QED
    BY <1>1, <2>2, <2>3
<1>4. CASE app = "queue" /\ frameRx = FrameCap
  BY <1>1, <1>4 DEF OneFrameInFlight, One
<1>5. CASE app = "await_con" /\ con = "none"
  BY <1>1, <1>5 DEF OneFrameInFlight, One
<1> QED
  BY <1>2, <1>3, <1>4, <1>5 DEF AppRests

(* What delivering a frame meets: if nothing waits to be sent, the frame   *)
(* is the only one.                                                        *)
LEMMA DeliveryFacts ==
  ASSUME PInv, driver = "deliver"
  PROVE  frameRx > 0 \/ (Owed <= 1 /\ Outside = 0)
<1>1. CASE app = "await_con" /\ frameRx = 1
  BY <1>1
<1>2. CASE /\ app = "select" /\ frameTx = <<>> /\ frameRx = 0
           /\ Backlog = 0 /\ ReadsIn(frameTx) = 0
  <2>1. Owed = One(held = "read")
    BY <1>2 DEF Owed, One, Transmitting
  <2>2. Len(frameTx) = 0
    BY <1>2, EmptySeq
  <2>3. Outside = 0
    BY <1>2, <2>2 DEF Outside, One, AppOwnsBox
  <2> QED
    BY <2>1, <2>3 DEF One
<1> QED
  BY <1>1, <1>2, WaysToRest
  DEF PInv, SettledOnDelivery, ReadsSpread, Transmitting

(* A step that takes in no read leaves no more of them than there were.     *)
LEMMA NoMoreReads ==
  ASSUME PInv, [PolledNext]_polledVars, held' = held \/ held' = "none"
  PROVE  Owed' <= Owed /\ Owed' \in Nat
<1>1. [Next]_vars
  BY PolledIsStack
<1>2. Serves /\ Owed \in Nat
  BY <1>1, NextServes, OwedType DEF PInv
<1>3. Owed' \in Nat
  BY <1>2
  DEF Serves, Server!Next, Server!Listen, Server!Accept, Server!Pass, Server!Talk,
      Server!Answer
<1> QED
  BY <1>2, <1>3 DEF Serves

(* The end of a transmission settles a debt.                               *)
LEMMA TransmissionSettles ==
  ASSUME PInv, [PolledNext]_polledVars, Transmitting, driver' = "idle"
  PROVE  Owed' = Owed - 1
<1>1. [Next]_vars
  BY PolledIsStack
<1>2. Serves
  BY <1>1, NextServes DEF PInv
<1>3. Line = "answering" /\ Line' = "free"
  BY DEF Line, Transmitting
<1> QED
  BY <1>2, <1>3
  DEF Serves, Server!Next, Server!Listen, Server!Accept, Server!Pass, Server!Talk,
      Server!Answer

-----------------------------------------------------------------------------
(* The steps *)

(* The driver, except for the end of a frame.                              *)
LEMMA DriverKeepsPInv ==
  ASSUME PInv, [PolledNext]_polledVars, ByteWins \/ DriverStays \/ Loops \/ Sends
  PROVE  PolledTypeOK' /\ SettledOnDelivery' /\ ReadsSpread' /\ BuffersSpread'
<1>1. TypeOK'
  BY PolledIsStack, NextKeepsIInv DEF PInv, IInv
<1>2. /\ Owed \in Nat /\ Owed <= 2 /\ frameRx \in Nat
      /\ Len(frameTx) \in Nat /\ Outside \in Nat /\ Outside <= 2
      /\ found \in {"none", "frame"}
      /\ found = "frame" => driver = "idle" /\ frameRx > 0
      /\ Owed = 2 => driver = "deliver" \/ found = "frame" \/ Transmitting
      /\ Outside = 2 => found = "frame"
      /\ frameTx \in Seq(Classes) /\ (driver = "deliver" => held \in Classes)
  BY Numbers
  DEF PInv, PolledTypeOK, ReadsSpread, BuffersSpread, IInv, TypeOK, HeldWhileDelivering
<1>3. ASSUME held' = held \/ held' = "none" PROVE Owed' <= Owed /\ Owed' \in Nat
  BY <1>3, NoMoreReads
<1>4. ASSUME frameTx' = frameTx, frameRx' = frameRx, app' = app
      PROVE  Outside' = Outside
  BY <1>4 DEF Outside, AppOwnsBox
<1>5. CASE ByteWins
  <2>1. /\ found = "none" /\ found' = "none"
        /\ driver = "idle" /\ driver' \in {"header", "dump"}
        /\ UNCHANGED <<frameTx, frameRx, app, held>>
    BY <1>5 DEF ByteWins, DriverFrameStart, DriverOutOfMemory
  <2>2. Owed <= 1
    BY <1>2, <2>1 DEF Transmitting
  <2>3. Outside' = Outside /\ Owed' <= 1 /\ Owed' \in Nat
    BY <1>2, <1>3, <1>4, <2>1, <2>2
  <2> QED
    BY <1>1, <1>2, <2>1, <2>3
    DEF PolledTypeOK, SettledOnDelivery, ReadsSpread, BuffersSpread
<1>6. CASE DriverStays
  <2>1. /\ driver \in {"header", "body", "transmit"} /\ found' = found
        /\ UNCHANGED <<frameTx, frameRx, app, held>>
        /\ driver' # "deliver"
        /\ driver = "transmit" => driver' = "confirm"
    BY <1>6 DEF DriverStays, DriverAck, DriverReceiveFails, DriverEcho
  <2>2. found = "none" /\ found' = "none" /\ (Owed <= 1 \/ driver' = "confirm")
    BY <1>2, <2>1 DEF Transmitting
  <2>3. Outside' = Outside /\ Owed' <= Owed /\ Owed' \in Nat
    BY <1>3, <1>4, <2>1
  <2> QED
    BY <1>1, <1>2, <2>1, <2>2, <2>3
    DEF PolledTypeOK, SettledOnDelivery, ReadsSpread, BuffersSpread, Transmitting
<1>7. CASE Sends
  <2>1. /\ driver' = "transmit" /\ found' = "none" /\ frameRx' = frameRx - 1
        /\ UNCHANGED <<frameTx, app, held>>
    BY <1>7 DEF Sends, DriverTransmit
  <2>2. Outside' = Outside - 1
    BY <1>2, <2>1 DEF Outside, AppOwnsBox, One
  <2>3. Owed' <= Owed /\ Owed' \in Nat
    BY <1>3, <2>1
  <2> QED
    BY <1>1, <1>2, <2>1, <2>2, <2>3
    DEF PolledTypeOK, SettledOnDelivery, ReadsSpread, BuffersSpread, Transmitting
<1>8. CASE Loops
  <2>1. /\ driver' = "idle" /\ frameRx' = frameRx
        /\ found' = IF frameRx > 0 THEN "frame" ELSE "none"
        /\ app' = app /\ (held' = held \/ held' = "none")
        /\ driver \in {"deliver", "dump", "transmit", "confirm"}
        /\ driver # "deliver" => frameTx' = frameTx
        /\ driver = "deliver" => frameTx' = Append(frameTx, held)
    BY <1>8 DEF Loops, LeavesSelectedBranch, DriverDeliver, DriverBusSilent,
                DriverTransmitFails, DriverConfirm, DriverSignals
  <2>2. PolledTypeOK'
    BY <1>1, <2>1 DEF PolledTypeOK
  <2>3. Owed' <= Owed /\ Owed' \in Nat
    BY <1>3, <2>1
  <2>4. CASE driver = "deliver"
    <3>1. Len(frameTx') = Len(frameTx) + 1
      BY <1>2, <2>1, <2>4, AppendProperties
    <3>2. Outside' = Outside + 1
      BY <1>2, <2>1, <3>1 DEF Outside, AppOwnsBox, One
    <3>3. found' = "frame" \/ (Owed <= 1 /\ Outside = 0)
      BY <2>1, <2>4, DeliveryFacts
    <3>4. Outside <= 1
      BY <1>2, <2>4
    <3> QED
      BY <1>2, <2>1, <2>2, <2>3, <3>2, <3>3, <3>4
      DEF SettledOnDelivery, ReadsSpread, BuffersSpread
  <2>5. CASE driver # "deliver"
    <3>1. Outside' = Outside /\ Outside <= 1
      BY <1>2, <1>4, <2>1, <2>5
    <3>2. Owed' <= 1
      <4>1. CASE driver = "dump"
        BY <1>2, <2>3, <4>1 DEF Transmitting
      <4>2. CASE Transmitting
        BY <1>2, <2>1, <4>2, TransmissionSettles
      <4> QED
        BY <2>1, <2>5, <4>1, <4>2 DEF Transmitting
    <3> QED
      BY <1>2, <2>1, <2>2, <2>3, <3>1, <3>2
      DEF SettledOnDelivery, ReadsSpread, BuffersSpread
  <2> QED
    BY <2>4, <2>5
<1> QED
  BY <1>5, <1>6, <1>7, <1>8

(* The end of a frame: the tasks rest, and one read at most is owed.        *)
LEMMA FrameEndKeepsPInv ==
  ASSUME PInv, [PolledNext]_polledVars, FrameEnds
  PROVE  PolledTypeOK' /\ SettledOnDelivery' /\ ReadsSpread' /\ BuffersSpread'
<1>1. IInv' /\ Serves
  BY PolledIsStack, NextKeepsIInv, NextServes DEF PInv
<1>2. /\ driver = "body" /\ driver' = "deliver" /\ found' = found
      /\ UNCHANGED <<frameTx, frameRx, con, app, serviceRx, serviceTx, main>>
      /\ AppRests /\ MainRests
  BY DEF FrameEnds, DriverFrameComplete
<1>3. /\ found = "none" /\ Owed \in Nat /\ Owed <= 1
      /\ Outside \in Nat /\ Outside <= 1
  BY <1>2, Numbers
  DEF PInv, PolledTypeOK, ReadsSpread, BuffersSpread, Transmitting
<1>4. Owed' <= Owed + 1 /\ Owed' \in Nat
  BY <1>1, <1>3
  DEF Serves, Server!Next, Server!Listen, Server!Accept, Server!Pass, Server!Talk,
      Server!Answer
<1>5. Outside' = Outside
  BY <1>2 DEF Outside, AppOwnsBox
<1>6. SettledOnDelivery'
  BY <1>2 DEF SettledOnDelivery, AppRests, MainRests
<1>7. PolledTypeOK'
  BY <1>1, <1>2, <1>3 DEF PolledTypeOK, IInv
<1> QED
  BY <1>2, <1>3, <1>4, <1>5, <1>6, <1>7 DEF ReadsSpread, BuffersSpread

(* The other two tasks: they do nothing while they rest, and what they do  *)
(* otherwise moves reads and buffers.                                      *)
LEMMA TasksKeepPInv ==
  ASSUME PInv, [PolledNext]_polledVars, Apps \/ Mains
  PROVE  PolledTypeOK' /\ SettledOnDelivery' /\ ReadsSpread' /\ BuffersSpread'
<1>1. TypeOK'
  BY PolledIsStack, NextKeepsIInv DEF PInv, IInv
<1>2. /\ Owed \in Nat /\ Owed <= 2 /\ Outside \in Nat /\ frameRx \in Nat
      /\ Len(frameTx) \in Nat /\ frameTx \in Seq(Classes) /\ serviceTx \in Nat
      /\ OneFrameInFlight
  BY Numbers DEF PInv, ReadsSpread, IInv, TypeOK
<1>3. UNCHANGED <<driver, held, found>>
  BY DEF Apps, Mains, AppNext, AppTakeRead, AppTakeOther, AppTakeConnected, AppIndicate,
         AppTakeResponse, AppQueueFrame, AppConfirmed, MainNext, MainReceive,
         MainRespond, driverVars
<1>4. ReadsSpread'
  BY <1>2, <1>3, NoMoreReads DEF PInv, ReadsSpread, Transmitting
<1>5. SettledOnDelivery'
  <2>1. AppRests => ~AppNext
    BY <1>2, CapacityAssumption
    DEF AppRests, AppNext, AppTakeRead, AppTakeOther, AppTakeConnected, AppIndicate,
        AppTakeResponse, AppQueueFrame, AppConfirmed
  <2>2. MainRests => ~MainNext
    BY CapacityAssumption DEF MainRests, MainNext, MainReceive, MainRespond
  <2>3. driver # "deliver"
    <3>1. SUFFICES ASSUME driver = "deliver" PROVE FALSE
      OBVIOUS
    <3>2. CASE Apps
      BY <2>1, <3>1, <3>2 DEF Apps, PInv, SettledOnDelivery
    <3>3. CASE Mains
      BY <2>2, <3>1, <3>3 DEF Mains, PInv, SettledOnDelivery
    <3> QED
      BY <3>2, <3>3
  <2> QED
    BY <1>3, <2>3 DEF SettledOnDelivery
<1>6. /\ Outside' <= Outside \/ Outside' = 1
      /\ Outside' \in Nat /\ frameRx' >= frameRx /\ frameRx' \in Nat
  <2>1. ASSUME frameTx # <<>>, frameTx' = Tail(frameTx)
        PROVE  Len(frameTx') = Len(frameTx) - 1 /\ Len(frameTx) >= 1
    BY <1>2, <2>1, HeadTailProperties, EmptySeq
  <2>2. CASE AppTakeRead \/ AppTakeConnected
    <3>1. /\ Len(frameTx') = Len(frameTx) - 1 /\ Len(frameTx) >= 1
          /\ ~AppOwnsBox /\ AppOwnsBox' /\ frameRx' = frameRx
      BY <2>1, <2>2 DEF AppTakeRead, AppTakeConnected, AppOwnsBox
    <3> QED
      BY <1>2, <3>1 DEF Outside, One
  <2>3. CASE AppTakeOther
    <3>1. /\ Len(frameTx') = Len(frameTx) - 1 /\ Len(frameTx) >= 1
          /\ app' = app /\ frameRx' = frameRx
      BY <2>1, <2>3 DEF AppTakeOther
    <3> QED
      BY <1>2, <3>1 DEF Outside, One, AppOwnsBox
  <2>4. CASE AppIndicate
    <3>1. /\ Len(frameTx') = Len(frameTx) /\ frameRx' = frameRx
          /\ AppOwnsBox /\ ~AppOwnsBox'
      BY <2>4 DEF AppIndicate, AppOwnsBox
    <3> QED
      BY <1>2, <3>1 DEF Outside, One
  <2>5. CASE AppTakeResponse
    <3>1. app = "select" /\ frameTx' = <<>> /\ frameRx' = frameRx
      BY <2>5 DEF AppTakeResponse
    <3>2. app' = "queue"
      BY <2>5, ResponseFindsBlock DEF AppTakeResponse, PInv
    <3>3. Len(frameTx') = 0
      BY <3>1, EmptySeq
    <3>4. frameRx = 0
      BY <1>2, <3>1 DEF OneFrameInFlight, One
    <3> QED
      BY <3>1, <3>2, <3>3, <3>4 DEF Outside, One, AppOwnsBox
  <2>6. CASE AppQueueFrame
    <3>1. /\ Len(frameTx') = Len(frameTx) /\ frameRx' = frameRx + 1
          /\ AppOwnsBox /\ ~AppOwnsBox'
      BY <2>6 DEF AppQueueFrame, AppOwnsBox
    <3> QED
      BY <1>2, <3>1 DEF Outside, One
  <2>7. CASE AppConfirmed \/ MainNext
    <3>1. /\ Len(frameTx') = Len(frameTx) /\ frameRx' = frameRx
          /\ AppOwnsBox' = AppOwnsBox
      BY <2>7 DEF AppConfirmed, MainNext, MainReceive, MainRespond, AppOwnsBox
    <3> QED
      BY <1>2, <3>1 DEF Outside
  <2> QED
    BY <2>2, <2>3, <2>4, <2>5, <2>6, <2>7 DEF Apps, Mains, AppNext
<1>7. BuffersSpread'
  BY <1>2, <1>3, <1>6 DEF PInv, BuffersSpread
<1>8. PolledTypeOK'
  BY <1>1, <1>2, <1>3, <1>6 DEF PInv, PolledTypeOK
<1> QED
  BY <1>4, <1>5, <1>7, <1>8

(* The first state: nothing is owed and all buffers are in the pool.       *)
LEMMA InitPInv == PolledInit => PInv
<1> SUFFICES ASSUME PolledInit PROVE PInv
  OBVIOUS
<1>1. IInv
  BY InitIInv DEF PolledInit
<1>2. Owed = 0
  BY ReadsInEmpty DEF PolledInit, Init, Owed, Backlog, Transmitting, One
<1>3. Outside = 0
  <2>1. Len(frameTx) = 0
    BY EmptySeq DEF PolledInit, Init
  <2> QED
    BY <2>1 DEF PolledInit, Init, Outside, AppOwnsBox, One
<1> QED
  BY <1>1, <1>2, <1>3
  DEF PInv, IInv, PolledTypeOK, SettledOnDelivery, ReadsSpread, BuffersSpread,
      PolledInit, Init

(* Every step keeps the invariant.                                         *)
LEMMA PolledKeepsPInv == PInv /\ [PolledNext]_polledVars => PInv'
<1> SUFFICES ASSUME PInv, [PolledNext]_polledVars PROVE PInv'
  OBVIOUS
<1>1. IInv'
  BY PolledIsStack, NextKeepsIInv DEF PInv
<1>2. CASE ByteWins \/ DriverStays \/ Loops \/ Sends
  BY <1>1, <1>2, DriverKeepsPInv DEF PInv
<1>3. CASE FrameEnds
  BY <1>1, <1>3, FrameEndKeepsPInv DEF PInv
<1>4. CASE Apps \/ Mains
  BY <1>1, <1>4, TasksKeepPInv DEF PInv
<1>5. CASE \/ BusFallsQuiet /\ UNCHANGED found
           \/ UNCHANGED polledVars
  <2>1. UNCHANGED <<frameTx, frameRx, con, driver, held, app, serviceRx, serviceTx, main,
                    found>>
    BY <1>5 DEF BusFallsQuiet, polledVars, vars, driverVars
  <2>2. Owed' = Owed /\ Outside' = Outside
    BY <2>1 DEF Owed, Backlog, Outside, AppOwnsBox, Transmitting
  <2>3. SettledOnDelivery' /\ ReadsSpread' /\ BuffersSpread'
    BY <2>1, <2>2
    DEF PInv, SettledOnDelivery, ReadsSpread, BuffersSpread, AppRests, MainRests,
        Transmitting
  <2>4. PolledTypeOK'
    BY <1>1, <2>1 DEF PInv, IInv, PolledTypeOK
  <2> QED
    BY <1>1, <2>3, <2>4 DEF PInv
<1> QED
  BY <1>2, <1>3, <1>4, <1>5 DEF PolledNext, DriverWorks

LEMMA AlwaysPInv == PolledSpec => []PInv
  BY InitPInv, PolledKeepsPInv, PTL DEF PolledSpec

-----------------------------------------------------------------------------
(* Every variable stays in its range, and the select has chosen to send    *)
(* only while a frame is there.                                            *)
THEOREM PolledTypeCorrect == PolledSpec => []PolledTypeOK
  BY AlwaysPInv, PTL DEF PInv

(* A bus that reads without a pause, however many frames the channels      *)
(* hold, never gets more than two reads into the device at a time.         *)
THEOREM TwoAreOwed == PolledSpec => []AtMostTwoOwed
<1>1. PInv => AtMostTwoOwed
  BY DEF PInv, ReadsSpread, AtMostTwoOwed
<1> QED
  BY <1>1, AlwaysPInv, PTL

(* So the application and the main task never wait for each other, with    *)
(* channels of any capacity and under any load: what NoWaitCycle says of   *)
(* KnxStack under a bound on the load holds without one.                   *)
THEOREM NeverAWaitCycle == PolledSpec => []~WaitCycle
<1>1. PInv => ~WaitCycle
  <2> SUFFICES ASSUME PInv, WaitCycle PROVE FALSE
    OBVIOUS
  <2>1. /\ Owed \in Nat /\ Backlog \in Nat /\ ReadsIn(frameTx) \in Nat
        /\ frameRx \in Nat /\ Owed <= 2
    BY Numbers DEF PInv, ReadsSpread
  <2>2. Backlog >= 4
    BY CapacityAssumption DEF WaitCycle, Backlog, One
  <2>3. Owed >= Backlog
    BY <2>1 DEF Owed, One
  <2> QED
    BY <2>1, <2>2, <2>3
<1> QED
  BY <1>1, AlwaysPInv, PTL

(* No frame is refused for want of a buffer: whatever comes from the bus   *)
(* two blocks of the pool are in use at most.                              *)
THEOREM TwoBuffersDo == PolledSpec => []TwoBuffersSuffice
<1>1. PInv => TwoBuffersSuffice
  <2> SUFFICES ASSUME PInv PROVE TwoBuffersSuffice
    OBVIOUS
  <2>1. Outside \in Nat /\ Outside <= 2 /\ (Outside = 2 => driver = "idle")
    BY Numbers DEF PInv, BuffersSpread, PolledTypeOK
  <2>2. free + Outside + One(DriverOwnsBox) = PoolSize /\ free \in Nat
    <3>1. Len(frameTx) \in Nat /\ frameRx \in Nat
      BY Numbers DEF PInv
    <3>2. free \in Nat
      BY CapacityAssumption DEF PInv, IInv, TypeOK
    <3>3. BoxesConserved
      BY DEF PInv, IInv
    <3>4. One(DriverOwnsBox) \in Nat /\ One(AppOwnsBox) \in Nat
      BY DEF One, DriverOwnsBox, AppOwnsBox
    <3> QED
      BY <3>1, <3>2, <3>3, <3>4 DEF BoxesConserved, Outside
  <2>3. One(DriverOwnsBox) <= IF driver = "idle" THEN 0 ELSE 1
    BY DEF DriverOwnsBox, One
  <2> QED
    BY <2>1, <2>2, <2>3, CapacityAssumption DEF TwoBuffersSuffice, One
<1> QED
  BY <1>1, AlwaysPInv, PTL
=============================================================================
