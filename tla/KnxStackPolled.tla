--------------------------- MODULE KnxStackPolled ---------------------------
(***************************************************************************)
(* KnxStack under the timing of the executor and of the bus.  A frame is   *)
(* eight octets or more, and the driver is polled for each of them: by the *)
(* time a frame is complete the executor has polled every task it woke, so *)
(* that the other two tasks have nothing left to do.  And run comes back   *)
(* to its select when the bus has been silent: select polls a read just    *)
(* begun, which no octet has ended yet, and then FRAME_CHANNEL_RX.  So a   *)
(* frame queued there goes out before the next one comes in.               *)
(*                                                                         *)
(* KnxStack leaves both out and lets any two tasks run at any speed.  Here *)
(* the bus may be busy for ever, and the load has no bound but its own.    *)
(***************************************************************************)
EXTENDS KnxStack

VARIABLE found   \* what select has found in FRAME_CHANNEL_RX: "frame" or "none"

polledVars == <<vars, found>>

(* The task waits for another one: polled, it would do nothing.  A task in  *)
(* a send waits for room.                                                   *)
AppRests ==
    \/ app = "select" /\ frameTx = <<>> /\ serviceTx = 0
    \/ app = "indicate" /\ serviceRx = ServiceCap
    \/ app = "queue" /\ frameRx = FrameCap
    \/ app = "await_con" /\ con = "none"
MainRests ==
    \/ main = "receive" /\ serviceRx = 0
    \/ main = "respond" /\ serviceTx = ServiceCap

PolledInit == Init /\ found = "none"

(* A byte comes while the select waits and wins it. *)
ByteWins ==
    /\ found = "none"
    /\ DriverFrameStart \/ DriverOutOfMemory
    /\ UNCHANGED found

(* The driver stays in receive_frame or send_frame, or leaves the former by *)
(* an error.                                                                *)
DriverStays ==
    /\ DriverAck \/ DriverReceiveFails \/ DriverEcho
    /\ UNCHANGED found

FrameEnds ==
    /\ AppRests /\ MainRests
    /\ \E c \in Traffic : DriverFrameComplete(c)
    /\ UNCHANGED found

LeavesSelectedBranch ==
    \/ DriverDeliver \/ DriverBusSilent \/ DriverTransmitFails
    \/ \E s \in {"Ok", "NotOk"} : DriverConfirm(s)

(* Mutants: the select waits for a byte alone; run takes a frame from the   *)
(* channel though it may be empty.                                          *)
LoopsUnseeing == LeavesSelectedBranch /\ found' = "none"
LoopsToSend == LeavesSelectedBranch /\ found' = "frame"

(* The loop of run comes back to the select, which looks at the channel.    *)
Loops == LeavesSelectedBranch /\ found' = IF frameRx > 0 THEN "frame" ELSE "none"

Sends == DriverTransmit /\ found' = "none"

DriverWorks == DriverStays \/ FrameEnds \/ Loops
Apps == AppNext /\ UNCHANGED found
Mains == MainNext /\ UNCHANGED found

PolledNext ==
    /\ ~Halted
    /\ \/ ByteWins \/ DriverWorks \/ Sends \/ Apps \/ Mains
       \/ BusFallsQuiet /\ UNCHANGED found

PolledSpec == PolledInit /\ [][PolledNext]_polledVars

(***************************************************************************)
(* Fairness, weak throughout.  The driver leaves receive_frame, the pause  *)
(* after it and send_frame, a frame the select has found goes out, and a   *)
(* woken task is polled.                                                   *)
(***************************************************************************)
PolledFairness ==
    /\ WF_polledVars(Running(Apps))
    /\ WF_polledVars(Running(Mains))
    /\ WF_polledVars(Running(DriverWorks))
    /\ WF_polledVars(Running(Sends))

FairPolledSpec == PolledSpec /\ PolledFairness

-----------------------------------------------------------------------------
(* Properties *)

(* Every variable stays in its range; the select has chosen to send only    *)
(* where it is and while a frame is queued.                                 *)
PolledTypeOK ==
    /\ TypeOK
    /\ found \in {"none", "frame"}
    /\ found = "frame" => driver = "idle" /\ frameRx > 0

(* However densely the reads follow one another, one is being answered and  *)
(* one waits at most, so that the service channels never fill up.           *)
AtMostTwoOwed == Owed <= 2

(* However dense the traffic, two buffers do: none is refused for want of   *)
(* memory.                                                                  *)
TwoBuffersSuffice == free >= PoolSize - 2

(* An accepted read leads to a transmission, though the bus never falls     *)
(* silent.                                                                  *)
ReadsAreServed == Owed > 0 ~> Transmitting

(* The fairness that KnxStack takes for granted follows from the order in   *)
(* which the select polls: strong fairness for the transmission from weak.  *)
ImplementsFairStack == FairSpec
=============================================================================
