------------------------------ MODULE KnxStack ------------------------------
(***************************************************************************)
(* The device as three cooperative embassy tasks that share channels, one  *)
(* signal and one pool of frame buffers:                                   *)
(*                                                                         *)
(*            FRAME_CHANNEL_TX            SERVICE_CHANNEL_RX               *)
(*           --- frameTx ----->          ---- serviceRx ---->              *)
(*   driver                      app                            main       *)
(*           <-- frameRx ------          <--- serviceTx -----              *)
(*           --- con (CON_SIGNAL) ->     SERVICE_CHANNEL_TX                *)
(*            FRAME_CHANNEL_RX                                             *)
(*                                                                         *)
(* One action is one stretch of code between two points where a task can   *)
(* be suspended (an await that may be Pending).  Here a frame of the bus   *)
(* is what the stack tells apart; its bytes are left to other modules, and *)
(* so are extended frames, whose length arithmetic may trap in the driver. *)
(***************************************************************************)
EXTENDS Naturals, Sequences, FiniteSets

(* What the layers above the driver make of a received frame:              *)
(*  "read"      a group frame that is an A_GroupValue_Read                 *)
(*  "connected" an individually addressed T_Connect, T_Disconnect or       *)
(*              T_Data_Connected                                           *)
(*  "other"     all the rest: it is logged and dropped                     *)
Classes == {"read", "connected", "other"}

CONSTANTS
    PoolSize,    \* blocks managed by FRAME_POOL
    FrameCap,    \* capacity of FRAME_CHANNEL_TX and of FRAME_CHANNEL_RX
    ServiceCap,  \* capacity of SERVICE_CHANNEL_RX and of SERVICE_CHANNEL_TX
    Traffic,     \* the classes of frames that arrive on the bus
    MaxOwed      \* offered load: the bus never has more reads outstanding

(* CHANNEL_SIZE gives both the pool and the frame channels their size, so   *)
(* a pool that fits in a channel is what the code justifies.                *)
ASSUME CapacityAssumption ==
    /\ PoolSize \in Nat /\ PoolSize >= 2
    /\ FrameCap \in Nat /\ PoolSize <= FrameCap
    /\ ServiceCap \in Nat \ {0}

ASSUME LoadAssumption == Traffic \subseteq Classes /\ MaxOwed \in Nat

VARIABLES
    free,       \* blocks left in FRAME_POOL
    frameTx,    \* FRAME_CHANNEL_TX: received frames, driver to application
    frameRx,    \* FRAME_CHANNEL_RX: number of response frames to transmit
    con,        \* CON_SIGNAL: "none" until signalled
    driver,     \* where uart_task is
    held,       \* class of the complete frame the driver holds, or "none"
    app,        \* where application_task is
    serviceRx,  \* SERVICE_CHANNEL_RX: number of indications, app to main
    serviceTx,  \* SERVICE_CHANNEL_TX: number of responses, main to app
    main,       \* where the main task is
    quiet       \* the bus has fallen silent for good

driverVars == <<driver, held>>
vars == <<free, frameTx, frameRx, con, driverVars, app, serviceRx, serviceTx,
          main, quiet>>

(***************************************************************************)
(* idle: in the select of run.  header, body: in receive_frame_int, before *)
(* and after ack_if_addressed.  deliver: in FRAME_CHANNEL_TX.send.  dump:  *)
(* in read_with_timeout_ignore_errors.  transmit: in send_frame up to the  *)
(* last echoed byte.  confirm: in its last read, for the L_Data.con byte.  *)
(***************************************************************************)
DriverStates == {"idle", "header", "body", "deliver", "dump", "transmit", "confirm"}
DriverOwnsBox == driver \in {"header", "body", "deliver", "transmit", "confirm"}
Transmitting == driver \in {"transmit", "confirm"}

(***************************************************************************)
(* select: in the select of ApplicationLayer::run.  indicate: in the send  *)
(* on SERVICE_CHANNEL_RX.  queue: in the send on FRAME_CHANNEL_RX.         *)
(* await_con: in CON_SIGNAL.wait.  panic_borrow, panic_unwrap: a panic at   *)
(* the borrow of the connection or at the unwrap of to_transport halted    *)
(* the chip; the first still holds the frame it was called with.           *)
(***************************************************************************)
AppStates == {"select", "indicate", "queue", "await_con", "panic_borrow", "panic_unwrap"}
AppOwnsBox == app \in {"indicate", "queue", "panic_borrow"}
Halted == app \in {"panic_borrow", "panic_unwrap"}

(* receive: waiting on SERVICE_CHANNEL_RX.  respond: in the send of the     *)
(* response on SERVICE_CHANNEL_TX.                                          *)
MainStates == {"receive", "respond"}

One(b) == IF b THEN 1 ELSE 0

ReadsIn(s) == Cardinality({i \in DOMAIN s : s[i] = "read"})

(* Reads taken off the bus whose answer has neither been sent nor given up, *)
(* as it is when its transmission fails: each is in exactly one place.      *)
Backlog == One(app = "indicate") + serviceRx + One(main = "respond") + serviceTx
Owed == ReadsIn(frameTx) + One(held = "read") + Backlog
        + One(app = "queue") + frameRx + One(Transmitting)

Init ==
    /\ free = PoolSize
    /\ frameTx = <<>>
    /\ frameRx = 0
    /\ con = "none"
    /\ driver = "idle"
    /\ held = "none"
    /\ app = "select"
    /\ serviceRx = 0
    /\ serviceTx = 0
    /\ main = "receive"
    /\ quiet = FALSE

-----------------------------------------------------------------------------
(* uart_task: NCN51Driver::run *)

(* Mutant: the result of the allocation is not checked. *)
DriverFrameStartUnchecked ==
    /\ driver = "idle" /\ ~quiet
    /\ free' = free - 1
    /\ driver' = "header"
    /\ UNCHANGED <<frameTx, frameRx, con, held, app, serviceRx, serviceTx, main, quiet>>

(* A frame-start byte arrives and T::new finds a free block. *)
DriverFrameStart ==
    /\ driver = "idle" /\ ~quiet
    /\ free > 0
    /\ free' = free - 1
    /\ driver' = "header"
    /\ UNCHANGED <<frameTx, frameRx, con, held, app, serviceRx, serviceTx, main, quiet>>

(* The pool is exhausted: no acknowledgement, the frame is dumped. *)
DriverOutOfMemory ==
    /\ driver = "idle" /\ ~quiet
    /\ free = 0
    /\ driver' = "dump"
    /\ UNCHANGED <<free, frameTx, frameRx, con, held, app, serviceRx, serviceTx, main, quiet>>

(* The header is in, the frame is acknowledged on the bus if addressed. *)
DriverAck ==
    /\ driver = "header"
    /\ driver' = "body"
    /\ UNCHANGED <<free, frameTx, frameRx, con, held, app, serviceRx, serviceTx, main, quiet>>

(* A read fails or times out, or length or checksum are wrong. *)
DriverReceiveFails ==
    /\ driver \in {"header", "body"}
    /\ free' = free + 1
    /\ driver' = "dump"
    /\ UNCHANGED <<frameTx, frameRx, con, held, app, serviceRx, serviceTx, main, quiet>>

(* The frame is valid; run goes on to send it up.  MaxOwed bounds the load. *)
DriverFrameComplete(c) ==
    /\ driver = "body"
    /\ c = "read" => Owed < MaxOwed
    /\ driver' = "deliver"
    /\ held' = c
    /\ UNCHANGED <<free, frameTx, frameRx, con, app, serviceRx, serviceTx, main, quiet>>

DriverDeliver ==
    /\ driver = "deliver"
    /\ Len(frameTx) < FrameCap
    /\ frameTx' = Append(frameTx, held)
    /\ driver' = "idle"
    /\ held' = "none"
    /\ UNCHANGED <<free, frameRx, con, app, serviceRx, serviceTx, main, quiet>>

(* No byte for BUS_SILENCE_US. *)
DriverBusSilent ==
    /\ driver = "dump"
    /\ driver' = "idle"
    /\ UNCHANGED <<free, frameTx, frameRx, con, held, app, serviceRx, serviceTx, main, quiet>>

DriverTransmit ==
    /\ driver = "idle"
    /\ frameRx > 0
    /\ frameRx' = frameRx - 1
    /\ driver' = "transmit"
    /\ UNCHANGED <<free, frameTx, con, held, app, serviceRx, serviceTx, main, quiet>>

DriverEcho ==
    /\ driver = "transmit"
    /\ driver' = "confirm"
    /\ UNCHANGED <<free, frameTx, frameRx, con, held, app, serviceRx, serviceTx, main, quiet>>

(* An exit of send_frame: the frame is dropped and run signals the status. *)
DriverSignals(status) ==
    /\ con' = status
    /\ free' = free + 1
    /\ driver' = "idle"
    /\ UNCHANGED <<frameTx, frameRx, held, app, serviceRx, serviceTx, main, quiet>>

(* Mutant: the error branch of run forgets to signal. *)
DriverTransmitFailsSilently ==
    /\ driver = "transmit"
    /\ driver' = "idle"
    /\ free' = free + 1
    /\ UNCHANGED <<frameTx, frameRx, con, held, app, serviceRx, serviceTx, main, quiet>>

(* Writing or reading back the echo fails or times out. *)
DriverTransmitFails == driver = "transmit" /\ DriverSignals("NotOk")

(* A byte comes for the last read: an L_Data.con, or one that is not. *)
DriverConfirm(status) == driver = "confirm" /\ DriverSignals(status)

DriverNext ==
    \/ DriverFrameStart \/ DriverOutOfMemory
    \/ DriverAck \/ DriverReceiveFails
    \/ \E c \in Traffic : DriverFrameComplete(c)
    \/ DriverDeliver \/ DriverBusSilent
    \/ DriverTransmit \/ DriverEcho \/ DriverTransmitFails
    \/ \E s \in {"Ok", "NotOk"} : DriverConfirm(s)

-----------------------------------------------------------------------------
(* application_task: ApplicationLayer::run and the layers under it, which  *)
(* run as its calls                                                        *)

(* transport.receive yields a group read; receive starts to indicate it    *)
(* and keeps the frame until the indication is sent.                       *)
AppTakeRead ==
    /\ app = "select"
    /\ frameTx # <<>> /\ Head(frameTx) = "read"
    /\ frameTx' = Tail(frameTx)
    /\ app' = "indicate"
    /\ UNCHANGED <<free, frameRx, con, driverVars, serviceRx, serviceTx, main, quiet>>

(* Mutant: the buffer of a dropped frame is not returned. *)
AppTakeOtherLeaks ==
    /\ app = "select"
    /\ frameTx # <<>> /\ Head(frameTx) = "other"
    /\ frameTx' = Tail(frameTx)
    /\ UNCHANGED <<free, frameRx, con, driverVars, app, serviceRx, serviceTx, main, quiet>>

(* Any other frame, and every decoding error, is logged and dropped. *)
AppTakeOther ==
    /\ app = "select"
    /\ frameTx # <<>> /\ Head(frameTx) = "other"
    /\ frameTx' = Tail(frameTx)
    /\ free' = free + 1
    /\ UNCHANGED <<frameRx, con, driverVars, app, serviceRx, serviceTx, main, quiet>>

(* receive_ind borrows the connection mutably while the temporary that      *)
(* TransportLayer::receive borrowed for its select is still alive (a        *)
(* temporary of a match scrutinee lives to the end of the statement):       *)
(* RefCell::borrow_mut panics.                                              *)
AppTakeConnected ==
    /\ app = "select"
    /\ frameTx # <<>> /\ Head(frameTx) = "connected"
    /\ frameTx' = Tail(frameTx)
    /\ app' = "panic_borrow"
    /\ UNCHANGED <<free, frameRx, con, driverVars, serviceRx, serviceTx, main, quiet>>

AppIndicate ==
    /\ app = "indicate"
    /\ serviceRx < ServiceCap
    /\ serviceRx' = serviceRx + 1
    /\ free' = free + 1
    /\ app' = "select"
    /\ UNCHANGED <<frameTx, frameRx, con, driverVars, serviceTx, main, quiet>>

(* Mutant: run takes a response whether or not frames are waiting. *)
AppTakeResponseUnbiased ==
    /\ app = "select"
    /\ serviceTx > 0
    /\ serviceTx' = serviceTx - 1
    /\ IF free > 0
          THEN free' = free - 1 /\ con' = "none" /\ app' = "queue"
          ELSE app' = "panic_unwrap" /\ UNCHANGED <<free, con>>
    /\ UNCHANGED <<frameTx, frameRx, driverVars, serviceRx, main, quiet>>

(* select polls transport.receive first, so a response is only taken while  *)
(* no frame is queued.  to_transport allocates and unwraps, then            *)
(* DataLinkLayer::send resets the signal and queues the frame.              *)
AppTakeResponse ==
    /\ app = "select"
    /\ frameTx = <<>>
    /\ serviceTx > 0
    /\ serviceTx' = serviceTx - 1
    /\ IF free > 0
          THEN free' = free - 1 /\ con' = "none" /\ app' = "queue"
          ELSE app' = "panic_unwrap" /\ UNCHANGED <<free, con>>
    /\ UNCHANGED <<frameTx, frameRx, driverVars, serviceRx, main, quiet>>

(* Mutant: send returns without waiting for the confirmation. *)
AppQueueFrameNoWait ==
    /\ app = "queue"
    /\ frameRx < FrameCap
    /\ frameRx' = frameRx + 1
    /\ app' = "select"
    /\ UNCHANGED <<free, frameTx, con, driverVars, serviceRx, serviceTx, main, quiet>>

AppQueueFrame ==
    /\ app = "queue"
    /\ frameRx < FrameCap
    /\ frameRx' = frameRx + 1
    /\ app' = "await_con"
    /\ UNCHANGED <<free, frameTx, con, driverVars, serviceRx, serviceTx, main, quiet>>

(* CON_SIGNAL.wait takes the status; send ignores which one it is. *)
AppConfirmed ==
    /\ app = "await_con"
    /\ con # "none"
    /\ con' = "none"
    /\ app' = "select"
    /\ UNCHANGED <<free, frameTx, frameRx, driverVars, serviceRx, serviceTx, main, quiet>>

AppNext ==
    \/ AppTakeRead \/ AppTakeOther \/ AppTakeConnected \/ AppIndicate
    \/ AppTakeResponse \/ AppQueueFrame \/ AppConfirmed

-----------------------------------------------------------------------------
(* main *)

MainReceive ==
    /\ main = "receive"
    /\ serviceRx > 0
    /\ serviceRx' = serviceRx - 1
    /\ main' = "respond"
    /\ UNCHANGED <<free, frameTx, frameRx, con, driverVars, app, serviceTx, quiet>>

(* Mutants: the capacity is not respected; a response that finds the       *)
(* channel full is dropped (try_send); a response is sent twice.           *)
MainRespondUnbounded ==
    /\ main = "respond"
    /\ serviceTx' = serviceTx + 1
    /\ main' = "receive"
    /\ UNCHANGED <<free, frameTx, frameRx, con, driverVars, app, serviceRx, quiet>>
MainRespondOrDrop ==
    /\ main = "respond"
    /\ serviceTx' = serviceTx + One(serviceTx < ServiceCap)
    /\ main' = "receive"
    /\ UNCHANGED <<free, frameTx, frameRx, con, driverVars, app, serviceRx, quiet>>
MainRespondTwice ==
    /\ main = "respond"
    /\ serviceTx < ServiceCap
    /\ serviceTx' = serviceTx + 1
    /\ main' \in {"receive", "respond"}
    /\ UNCHANGED <<free, frameTx, frameRx, con, driverVars, app, serviceRx, quiet>>

MainRespond ==
    /\ main = "respond"
    /\ serviceTx < ServiceCap
    /\ serviceTx' = serviceTx + 1
    /\ main' = "receive"
    /\ UNCHANGED <<free, frameTx, frameRx, con, driverVars, app, serviceRx, quiet>>

MainNext == MainReceive \/ MainRespond

-----------------------------------------------------------------------------
(* The environment: from some point on nobody else talks on the bus. *)
BusFallsQuiet ==
    /\ ~quiet
    /\ quiet' = TRUE
    /\ UNCHANGED <<free, frameTx, frameRx, con, driverVars, app, serviceRx, serviceTx, main>>

(* A panic halts the chip, all tasks with it. *)
Next == ~Halted /\ (DriverNext \/ AppNext \/ MainNext \/ BusFallsQuiet)

Spec == Init /\ [][Next]_vars

(***************************************************************************)
(* Fairness.  The executor polls every woken task, so a task that can go   *)
(* on does.  Off its select the driver always comes back: its reads time   *)
(* out, except two whose end the environment owes: silence after a frame   *)
(* (dump) and the L_Data.con byte of the NCN5120 (confirm).  A select on a *)
(* freshly started UART read sees FRAME_CHANNEL_RX first, so a busy bus    *)
(* cannot keep a queued frame waiting for ever: strong fairness.           *)
(***************************************************************************)
DriverReturns ==
    \/ DriverAck \/ DriverReceiveFails
    \/ \E c \in Traffic : DriverFrameComplete(c)
    \/ DriverDeliver \/ DriverBusSilent
    \/ DriverEcho \/ DriverTransmitFails
    \/ \E s \in {"Ok", "NotOk"} : DriverConfirm(s)

Running(A) == ~Halted /\ A

Fairness ==
    /\ WF_vars(Running(AppNext))
    /\ WF_vars(Running(MainNext))
    /\ WF_vars(Running(DriverReturns))
    /\ SF_vars(Running(DriverTransmit))

FairSpec == Spec /\ Fairness

-----------------------------------------------------------------------------
(* Properties *)

(* Every variable stays in its range; no channel exceeds its capacity. *)
TypeOK ==
    /\ free \in 0 .. PoolSize
    /\ frameTx \in Seq(Classes) /\ Len(frameTx) <= FrameCap
    /\ frameRx \in 0 .. FrameCap
    /\ con \in {"none", "Ok", "NotOk"}
    /\ driver \in DriverStates
    /\ held \in Classes \cup {"none"}
    /\ app \in AppStates
    /\ serviceRx \in 0 .. ServiceCap
    /\ serviceTx \in 0 .. ServiceCap
    /\ main \in MainStates
    /\ quiet \in BOOLEAN

(* No buffer of FRAME_POOL leaks or is used twice: on every path, errors   *)
(* included, each block is free or in exactly one channel or task.         *)
BoxesConserved ==
    free + Len(frameTx) + frameRx + One(DriverOwnsBox) + One(AppOwnsBox) = PoolSize

(* A frame the driver has acknowledged on the bus always finds room in     *)
(* FRAME_CHANNEL_TX: the driver never blocks on it, whatever the           *)
(* application is waiting for.                                             *)
AckedFrameHasRoom ==
    driver \in {"body", "deliver"} => Len(frameTx) < FrameCap

(* CON_SIGNAL is not stale and not missing: while the application waits    *)
(* for a confirmation exactly one of its frame in the channel, its frame   *)
(* on the bus or its confirmation exists, and otherwise none does.         *)
OneFrameInFlight ==
    frameRx + One(Transmitting) + One(con # "none") = One(app = "await_con")

(* The unwrap! on to_transport in run never fails, however many frames     *)
(* wait: a response always finds a free buffer.                            *)
UnwrapNeverFails == app # "panic_unwrap"

(* The application and the main task do not wait for each other: one for   *)
(* room in SERVICE_CHANNEL_RX, the other for room in SERVICE_CHANNEL_TX.   *)
WaitCycle ==
    /\ app = "indicate" /\ serviceRx = ServiceCap
    /\ main = "respond" /\ serviceTx = ServiceCap
NoWaitCycle == MaxOwed <= 2 * ServiceCap + 1 => ~WaitCycle

(* The device tries to answer what it accepted: never twice, never         *)
(* unasked, and no read is lost between the tasks.  The line is seen as    *)
(* the driver sees it.                                                     *)
Line ==
    CASE driver \in {"header", "body"} -> "listening"
      [] Transmitting -> "answering"
      [] OTHER -> "free"
Server == INSTANCE GroupReadServer WITH owed <- Owed, line <- Line
ImplementsServer == Server!Spec

(* A frame handed to the driver is confirmed and the application goes on,  *)
(* however busy the bus is.                                                *)
SendConfirmed == app = "await_con" ~> app = "select"

(* Once the bus falls silent the device works off what it has accepted and  *)
(* comes to rest for good: every buffer is back in the pool, no channel     *)
(* holds anything, no confirmation is left over and every task waits for    *)
(* the bus.  An answer whose transmission failed is given up.               *)
AtRest ==
    /\ free = PoolSize /\ Owed = 0 /\ con = "none"
    /\ driver = "idle" /\ app = "select" /\ main = "receive"
DeviceComesToRest == quiet ~> []AtRest

(* No frame from the bus stops the device. *)
NeverStops == ~Halted
=============================================================================
