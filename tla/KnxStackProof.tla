---------------------------- MODULE KnxStackProof ----------------------------
(***************************************************************************)
(* What holds of KnxStack for every pool size, channel capacity and load.  *)
(*                                                                         *)
(* The inductive invariant counts: every block of the pool is in one place *)
(* (BoxesConserved), every response frame between the application and the  *)
(* driver is in one place (OneFrameInFlight), and the driver holds a       *)
(* complete frame exactly while it delivers it.  Types need the counts: a  *)
(* block returned to the pool fits because it was taken from it.           *)
(***************************************************************************)
EXTENDS KnxStack, FiniteSetTheorems, FunctionTheorems, SequenceTheorems, TLAPS

HeldWhileDelivering == (held # "none") <=> (driver = "deliver")

IInv == TypeOK /\ BoxesConserved /\ OneFrameInFlight /\ HeldWhileDelivering

(* The initial state satisfies the invariant: all blocks are in the pool.  *)
LEMMA InitIInv == Init => IInv
<1> SUFFICES ASSUME Init PROVE IInv
  OBVIOUS
<1>1. frameTx \in Seq(Classes) /\ Len(frameTx) = 0
  BY EmptySeq DEF Init
<1>2. TypeOK
  <2>1. /\ free \in 0 .. PoolSize
        /\ frameRx \in 0 .. FrameCap
        /\ serviceRx \in 0 .. ServiceCap
        /\ serviceTx \in 0 .. ServiceCap
    BY CapacityAssumption DEF Init
  <2>2. Len(frameTx) <= FrameCap
    BY <1>1, CapacityAssumption
  <2> QED
    BY <1>1, <2>1, <2>2 DEF Init, TypeOK, DriverStates, AppStates, MainStates
<1>3. BoxesConserved /\ OneFrameInFlight /\ HeldWhileDelivering
  BY <1>1, CapacityAssumption
  DEF Init, BoxesConserved, OneFrameInFlight, HeldWhileDelivering,
      DriverOwnsBox, AppOwnsBox, Transmitting, One
<1> QED
  BY <1>2, <1>3 DEF IInv

(* No step of the driver breaks the invariant.                             *)
LEMMA DriverKeepsIInv == IInv /\ DriverNext => IInv'
<1> SUFFICES ASSUME IInv, DriverNext PROVE IInv'
  OBVIOUS
<1> USE CapacityAssumption, LoadAssumption
    DEF IInv, TypeOK, BoxesConserved, OneFrameInFlight, HeldWhileDelivering,
        DriverOwnsBox, AppOwnsBox, Transmitting, One, DriverStates, AppStates,
        MainStates, Classes
<1>1. CASE DriverFrameStart
  BY <1>1 DEF DriverFrameStart
<1>2. CASE DriverOutOfMemory
  BY <1>2 DEF DriverOutOfMemory
<1>3. CASE DriverAck
  BY <1>3 DEF DriverAck
<1>4. CASE DriverReceiveFails
  BY <1>4 DEF DriverReceiveFails
<1>5. ASSUME NEW c \in Traffic, DriverFrameComplete(c) PROVE IInv'
  BY <1>5 DEF DriverFrameComplete
<1>6. CASE DriverDeliver
  <2>1. held \in Classes
    BY <1>6 DEF DriverDeliver
  <2>2. frameTx' \in Seq(Classes) /\ Len(frameTx') = Len(frameTx) + 1
    BY <1>6, <2>1, AppendProperties DEF DriverDeliver
  <2> QED
    BY <1>6, <2>2 DEF DriverDeliver
<1>7. CASE DriverBusSilent
  BY <1>7 DEF DriverBusSilent
<1>8. CASE DriverTransmit
  BY <1>8 DEF DriverTransmit
<1>9. CASE DriverEcho
  BY <1>9 DEF DriverEcho
<1>10. CASE DriverTransmitFails
  BY <1>10 DEF DriverTransmitFails, DriverSignals
<1>11. ASSUME NEW s \in {"Ok", "NotOk"}, DriverConfirm(s) PROVE IInv'
  BY <1>11 DEF DriverConfirm, DriverSignals
<1> QED
  BY <1>1, <1>2, <1>3, <1>4, <1>5, <1>6, <1>7, <1>8, <1>9, <1>10, <1>11 DEF DriverNext

(* No step of the application task breaks the invariant.                   *)
LEMMA AppKeepsIInv == IInv /\ AppNext => IInv'
<1> SUFFICES ASSUME IInv, AppNext PROVE IInv'
  OBVIOUS
<1> USE CapacityAssumption, LoadAssumption
    DEF IInv, TypeOK, BoxesConserved, OneFrameInFlight, HeldWhileDelivering,
        DriverOwnsBox, AppOwnsBox, Transmitting, One, DriverStates, AppStates,
        MainStates, Classes, driverVars
<1>1. ASSUME frameTx # <<>>, frameTx' = Tail(frameTx)
      PROVE  frameTx' \in Seq(Classes) /\ Len(frameTx') = Len(frameTx) - 1
  BY <1>1, HeadTailProperties
<1>2. CASE AppTakeRead
  BY <1>1, <1>2 DEF AppTakeRead
<1>3. CASE AppTakeOther
  BY <1>1, <1>3 DEF AppTakeOther
<1>4. CASE AppTakeConnected
  BY <1>1, <1>4 DEF AppTakeConnected
<1>5. CASE AppIndicate
  BY <1>5 DEF AppIndicate
<1>6. CASE AppTakeResponse
  BY <1>6 DEF AppTakeResponse
<1>7. CASE AppQueueFrame
  BY <1>7 DEF AppQueueFrame
<1>8. CASE AppConfirmed
  BY <1>8 DEF AppConfirmed
<1> QED
  BY <1>2, <1>3, <1>4, <1>5, <1>6, <1>7, <1>8 DEF AppNext

(* Every step of the system keeps the invariant.                           *)
LEMMA NextKeepsIInv == IInv /\ [Next]_vars => IInv'
<1> SUFFICES ASSUME IInv, [Next]_vars PROVE IInv'
  OBVIOUS
<1> USE DEF IInv, TypeOK, BoxesConserved, OneFrameInFlight, HeldWhileDelivering,
            DriverOwnsBox, AppOwnsBox, Transmitting, One, driverVars
<1>1. CASE DriverNext
  BY <1>1, DriverKeepsIInv
<1>2. CASE AppNext
  BY <1>2, AppKeepsIInv
<1>3. CASE MainReceive
  BY <1>3, CapacityAssumption DEF MainReceive, MainStates
<1>4. CASE MainRespond
  BY <1>4, CapacityAssumption DEF MainRespond, MainStates
<1>5. CASE BusFallsQuiet
  BY <1>5 DEF BusFallsQuiet
<1>6. CASE UNCHANGED vars
  BY <1>6 DEF vars
<1> QED
  BY <1>1, <1>2, <1>3, <1>4, <1>5, <1>6 DEF Next, MainNext

(* The invariant holds in every reachable state.                           *)
LEMMA AlwaysIInv == Spec => []IInv
  BY InitIInv, NextKeepsIInv, PTL DEF Spec

-----------------------------------------------------------------------------
(* Type correctness: no queue or counter leaves its range, in particular   *)
(* no block is returned to FRAME_POOL that was not taken from it.          *)
THEOREM TypeCorrect == Spec => []TypeOK
  BY AlwaysIInv, PTL DEF IInv

(* No block of FRAME_POOL is leaked or shared, on any path of any task.    *)
THEOREM BoxesAreConserved == Spec => []BoxesConserved
  BY AlwaysIInv, PTL DEF IInv

(* CON_SIGNAL, reset before each frame is queued, answers that frame.      *)
THEOREM ConfirmationMatchesFrame == Spec => []OneFrameInFlight
  BY AlwaysIInv, PTL DEF IInv

(* The driver never blocks on FRAME_CHANNEL_TX with an acknowledged frame: *)
(* its own block is missing from the pool, so the channel, as long as the  *)
(* pool, cannot be full.                                                   *)
THEOREM AckedFramesHaveRoom == Spec => []AckedFrameHasRoom
<1>1. IInv => AckedFrameHasRoom
  BY CapacityAssumption
  DEF IInv, TypeOK, BoxesConserved, AckedFrameHasRoom, DriverOwnsBox, AppOwnsBox, One
<1> QED
  BY <1>1, AlwaysIInv, PTL

(* A response always finds a block: when the application takes one no      *)
(* frame is queued in either direction and the driver owns one at most.    *)
LEMMA ResponseFindsBlock == IInv /\ app = "select" /\ frameTx = <<>> => free > 0
  BY CapacityAssumption
  DEF IInv, TypeOK, BoxesConserved, OneFrameInFlight, DriverOwnsBox, AppOwnsBox,
      Transmitting, One

(* The unwrap! of to_transport in ApplicationLayer::run cannot fail.       *)
THEOREM UnwrapIsSafe == Spec => []UnwrapNeverFails
<1>1. Init => UnwrapNeverFails
  BY DEF Init, UnwrapNeverFails
<1>2. IInv /\ UnwrapNeverFails /\ [Next]_vars => UnwrapNeverFails'
  BY ResponseFindsBlock
  DEF UnwrapNeverFails, Next, vars, driverVars, DriverNext, DriverFrameStart,
      DriverOutOfMemory, DriverAck, DriverReceiveFails, DriverFrameComplete,
      DriverDeliver, DriverBusSilent, DriverTransmit, DriverEcho,
      DriverTransmitFails, DriverConfirm, DriverSignals, AppNext, AppTakeRead,
      AppTakeOther, AppTakeConnected, AppIndicate, AppTakeResponse,
      AppQueueFrame, AppConfirmed, MainNext, MainReceive, MainRespond, BusFallsQuiet
<1> QED
  BY <1>1, <1>2, AlwaysIInv, PTL DEF Spec

-----------------------------------------------------------------------------
(* How many reads a queue of frames holds.                                 *)

(* They are finitely many, so ReadsIn is a natural number.                  *)
LEMMA ReadsInType ==
  ASSUME NEW s \in Seq(Classes)
  PROVE  /\ IsFiniteSet({i \in DOMAIN s : s[i] = "read"})
         /\ ReadsIn(s) \in Nat
<1>1. IsFiniteSet(DOMAIN s)
  BY LenProperties, FS_Interval
<1>2. IsFiniteSet({i \in DOMAIN s : s[i] = "read"})
  BY <1>1, FS_Subset
<1> QED
  BY <1>2, FS_CardinalityType DEF ReadsIn

(* An empty queue holds none.                                              *)
LEMMA ReadsInEmpty == ReadsIn(<<>>) = 0
<1>1. {i \in DOMAIN <<>> : <<>>[i] = "read"} = {}
  OBVIOUS
<1> QED
  BY <1>1, FS_EmptySet DEF ReadsIn

(* A frame put at the end of the queue adds one if it is a read.           *)
LEMMA ReadsInAppend ==
  ASSUME NEW s \in Seq(Classes), NEW c \in Classes
  PROVE  ReadsIn(Append(s, c)) = ReadsIn(s) + One(c = "read")
<1> DEFINE R == {i \in DOMAIN s : s[i] = "read"}
           n == Len(s) + 1
           t == Append(s, c)
<1>1. Len(s) \in Nat /\ DOMAIN s = 1 .. Len(s)
  BY LenProperties
<1>2. /\ DOMAIN t = 1 .. n
      /\ \A i \in DOMAIN s : t[i] = s[i]
      /\ t[n] = c
  <2>1. t \in Seq(Classes) /\ Len(t) = n
    BY AppendProperties
  <2> QED
    BY <1>1, <2>1, AppendProperties, LenProperties
<1>3. {i \in DOMAIN t : t[i] = "read"} = IF c = "read" THEN R \cup {n} ELSE R
  BY <1>1, <1>2
<1>4. IsFiniteSet(R) /\ Cardinality(R) \in Nat
  BY ReadsInType DEF ReadsIn
<1>5. n \notin R
  BY <1>1
<1>6. Cardinality(R \cup {n}) = Cardinality(R) + 1
  BY <1>4, <1>5, FS_AddElement
<1>7. ReadsIn(s) = Cardinality(R)
  BY DEF ReadsIn
<1>8. ReadsIn(t) = Cardinality(IF c = "read" THEN R \cup {n} ELSE R)
  BY <1>3 DEF ReadsIn
<1> HIDE DEF R, t
<1>9. ReadsIn(t) = ReadsIn(s) + One(c = "read")
  BY <1>4, <1>6, <1>7, <1>8 DEF One
<1> QED
  BY <1>9 DEF t

(* A frame taken from the head of the queue subtracts one if it is a read. *)
LEMMA ReadsInTail ==
  ASSUME NEW s \in Seq(Classes), s # <<>>
  PROVE  ReadsIn(s) = ReadsIn(Tail(s)) + One(Head(s) = "read")
<1> DEFINE R == {i \in DOMAIN s : s[i] = "read"}
           T == {i \in DOMAIN Tail(s) : Tail(s)[i] = "read"}
           F == [i \in T |-> i + 1]
<1>1. /\ Len(s) \in Nat \ {0}
      /\ DOMAIN s = 1 .. Len(s)
  BY LenProperties, EmptySeq
<1>2. /\ Tail(s) \in Seq(Classes)
      /\ DOMAIN Tail(s) = 1 .. Len(s) - 1
      /\ \A i \in DOMAIN Tail(s) : Tail(s)[i] = s[i + 1]
  <2>1. Tail(s) \in Seq(Classes) /\ Len(Tail(s)) = Len(s) - 1
    BY HeadTailProperties
  <2>2. DOMAIN Tail(s) = 1 .. Len(s) - 1
    BY <2>1, LenProperties
  <2> QED
    BY <2>1, <2>2, HeadTailProperties
<1>3. Head(s) = s[1]
  OBVIOUS
<1>4. F \in [T -> R \ {1}]
  BY <1>1, <1>2
<1>5. \A i, j \in T : F[i] = F[j] => i = j
  BY <1>1, <1>2
<1>6. \A k \in R \ {1} : \E i \in T : F[i] = k
  <2> SUFFICES ASSUME NEW k \in R \ {1} PROVE \E i \in T : F[i] = k
    OBVIOUS
  <2>1. k - 1 \in T
    BY <1>1, <1>2
  <2> QED
    BY <1>1, <2>1
<1>7. ExistsBijection(T, R \ {1})
  BY <1>4, <1>5, <1>6, Fun_IsBij, Fun_ExistsBij
<1>8. /\ IsFiniteSet(T) /\ IsFiniteSet(R)
      /\ Cardinality(T) \in Nat /\ Cardinality(R) \in Nat
  BY <1>2, ReadsInType DEF ReadsIn
<1>9. Cardinality(R \ {1}) = Cardinality(T)
  BY <1>7, <1>8, FS_Bijection
<1>10. Cardinality(R \ {1}) = IF 1 \in R THEN Cardinality(R) - 1 ELSE Cardinality(R)
  BY <1>8, FS_RemoveElement
<1>11. 1 \in R <=> Head(s) = "read"
  BY <1>1, <1>3
<1>12. ReadsIn(s) = Cardinality(R) /\ ReadsIn(Tail(s)) = Cardinality(T)
  BY DEF ReadsIn
<1> HIDE DEF R, T
<1> QED
  BY <1>8, <1>9, <1>10, <1>11, <1>12 DEF One

-----------------------------------------------------------------------------
(* The stack implements GroupReadServer, the mapping being Owed and Line.  *)

(* A step as the bus sees it: a step of the server or none; the debt grows *)
(* only while the load allows it, and only by a read received in full.     *)
Serves ==
    /\ Server!Next \/ UNCHANGED <<Owed, Line>>
    /\ Owed < MaxOwed \/ Owed' <= Owed
    /\ (held = "none" /\ held' = "read") \/ Owed' <= Owed

(* The debt and its parts are numbers.                                     *)
LEMMA OwedType == IInv => ReadsIn(frameTx) \in Nat /\ Backlog \in Nat /\ Owed \in Nat
<1> SUFFICES ASSUME IInv PROVE ReadsIn(frameTx) \in Nat /\ Backlog \in Nat /\ Owed \in Nat
  OBVIOUS
<1>1. ReadsIn(frameTx) \in Nat
  BY ReadsInType DEF IInv, TypeOK
<1>2. Backlog \in Nat
  BY CapacityAssumption DEF IInv, TypeOK, Backlog, One
<1> QED
  BY <1>1, <1>2, CapacityAssumption, SMTT(30) DEF IInv, TypeOK, Owed, One

(* What the driver does on the bus is what the server may do.              *)
LEMMA DriverServes == IInv /\ DriverNext => Serves
<1> SUFFICES ASSUME IInv, DriverNext PROVE Serves
  OBVIOUS
<1>1. /\ ReadsIn(frameTx) \in Nat /\ Backlog \in Nat /\ Owed \in Nat
      /\ frameTx \in Seq(Classes) /\ frameRx \in Nat /\ MaxOwed \in Nat
      /\ held # "none" <=> driver = "deliver"
  BY OwedType, CapacityAssumption, LoadAssumption DEF IInv, TypeOK, HeldWhileDelivering
<1>2. ASSUME frameTx' = frameTx, app' = app, serviceRx' = serviceRx,
             serviceTx' = serviceTx, main' = main
      PROVE  ReadsIn(frameTx)' = ReadsIn(frameTx) /\ Backlog' = Backlog
  BY <1>2 DEF Backlog
<1> USE <1>1 DEF Serves, Owed, Line, Transmitting, One, Server!Next, Server!Listen,
                 Server!Accept, Server!Pass, Server!Talk, Server!Answer
<1>3. CASE DriverFrameStart
  BY <1>2, <1>3 DEF DriverFrameStart
<1>4. CASE DriverOutOfMemory
  BY <1>2, <1>4 DEF DriverOutOfMemory
<1>5. CASE DriverAck
  BY <1>2, <1>5 DEF DriverAck
<1>6. CASE DriverReceiveFails
  BY <1>2, <1>6 DEF DriverReceiveFails
<1>7. ASSUME NEW c \in Traffic, DriverFrameComplete(c) PROVE Serves
  BY <1>2, <1>7 DEF DriverFrameComplete
<1>8. CASE DriverDeliver
  <2>1. held \in Classes
    BY <1>8 DEF DriverDeliver, IInv, TypeOK
  <2>2. ReadsIn(frameTx)' = ReadsIn(frameTx) + One(held = "read")
    BY <1>8, <2>1, ReadsInAppend DEF DriverDeliver
  <2>3. Backlog' = Backlog
    BY <1>8 DEF DriverDeliver, Backlog
  <2> QED
    BY <1>8, <2>2, <2>3 DEF DriverDeliver
<1>9. CASE DriverBusSilent
  BY <1>2, <1>9 DEF DriverBusSilent
<1>10. CASE DriverTransmit
  BY <1>2, <1>10 DEF DriverTransmit
<1>11. CASE DriverEcho
  BY <1>2, <1>11 DEF DriverEcho
<1>12. CASE DriverTransmitFails
  BY <1>2, <1>12 DEF DriverTransmitFails, DriverSignals
<1>13. ASSUME NEW s \in {"Ok", "NotOk"}, DriverConfirm(s) PROVE Serves
  BY <1>2, <1>13 DEF DriverConfirm, DriverSignals
<1> QED
  BY <1>3, <1>4, <1>5, <1>6, <1>7, <1>8, <1>9, <1>10, <1>11, <1>12, <1>13
  DEF DriverNext

(* What the application does moves a debt from place to place.  It would   *)
(* lose one at the unwrap, if that could fail.                             *)
LEMMA AppServes == IInv /\ AppNext => Serves
<1>1. SUFFICES ASSUME IInv, AppNext PROVE Owed' = Owed
  <2>1. ASSUME AppNext PROVE Line' = Line
    BY <2>1 DEF AppNext, AppTakeRead, AppTakeOther, AppTakeConnected, AppIndicate,
                AppTakeResponse, AppQueueFrame, AppConfirmed, driverVars, Line,
                Transmitting
  <2> QED
    BY <2>1, OwedType DEF Serves
<1>2. /\ ReadsIn(frameTx) \in Nat /\ Backlog \in Nat /\ frameRx \in Nat
      /\ serviceRx \in Nat /\ serviceTx \in Nat /\ frameTx \in Seq(Classes)
  BY <1>1, OwedType, CapacityAssumption DEF IInv, TypeOK
<1>3. ASSUME frameTx # <<>>, frameTx' = Tail(frameTx)
      PROVE  /\ ReadsIn(frameTx)' \in Nat
             /\ ReadsIn(frameTx) = ReadsIn(frameTx)' + One(Head(frameTx) = "read")
  BY <1>2, <1>3, ReadsInTail, ReadsInType, HeadTailProperties
<1>4. ASSUME frameTx' = frameTx PROVE ReadsIn(frameTx)' = ReadsIn(frameTx)
  BY <1>4
<1> USE DEF One, driverVars
<1>5. CASE AppTakeRead
  <2>1. Backlog = Backlog' - 1 /\ Backlog' \in Nat
    BY <1>2, <1>5 DEF AppTakeRead, Backlog
  <2>2. ReadsIn(frameTx)' \in Nat /\ ReadsIn(frameTx) = ReadsIn(frameTx)' + 1
    BY <1>3, <1>5 DEF AppTakeRead
  <2>3. /\ app # "queue" /\ app' # "queue"
        /\ frameRx' = frameRx /\ driver' = driver /\ held' = held
    BY <1>5 DEF AppTakeRead
  <2> QED
    BY <1>2, <2>1, <2>2, <2>3, SMTT(30) DEF Owed, Transmitting
<1>6. CASE AppTakeOther \/ AppTakeConnected
  <2>1. Backlog' = Backlog
    BY <1>2, <1>6 DEF AppTakeOther, AppTakeConnected, Backlog
  <2> QED
    BY <1>2, <1>3, <1>6, <2>1 DEF AppTakeOther, AppTakeConnected, Owed, Transmitting
<1>7. CASE AppIndicate
  <2>1. Backlog' = Backlog
    BY <1>2, <1>7 DEF AppIndicate, Backlog
  <2> QED
    BY <1>2, <1>4, <1>7, <2>1 DEF AppIndicate, Owed, Transmitting
<1>8. CASE AppTakeResponse
  <2>1. app' = "queue"
    BY <1>1, <1>8, ResponseFindsBlock DEF AppTakeResponse
  <2>2. Backlog = Backlog' + 1 /\ Backlog' \in Nat
    BY <1>2, <1>8, <2>1 DEF AppTakeResponse, Backlog
  <2> QED
    BY <1>2, <1>4, <1>8, <2>1, <2>2, SMTT(30) DEF AppTakeResponse, Owed, Transmitting
<1>9. CASE AppQueueFrame
  <2>1. Backlog' = Backlog
    BY <1>2, <1>9 DEF AppQueueFrame, Backlog
  <2> QED
    BY <1>2, <1>4, <1>9, <2>1 DEF AppQueueFrame, Owed, Transmitting
<1>10. CASE AppConfirmed
  <2>1. Backlog' = Backlog
    BY <1>2, <1>10 DEF AppConfirmed, Backlog
  <2> QED
    BY <1>2, <1>4, <1>10, <2>1 DEF AppConfirmed, Owed, Transmitting
<1> QED
  BY <1>1, <1>5, <1>6, <1>7, <1>8, <1>9, <1>10 DEF AppNext

(* Every step of the system is a step of the server, or none.              *)
LEMMA NextServes == IInv /\ [Next]_vars => Serves
<1> SUFFICES ASSUME IInv, [Next]_vars PROVE Serves
  OBVIOUS
<1>1. CASE DriverNext
  BY <1>1, DriverServes
<1>2. CASE AppNext
  BY <1>2, AppServes
<1>3. ASSUME Owed' = Owed, Line' = Line PROVE Serves
  BY <1>3, OwedType DEF Serves
<1> USE OwedType, CapacityAssumption
    DEF Owed, Backlog, Line, Transmitting, One, driverVars
<1>4. CASE MainReceive
  <2>1. Backlog' = Backlog
    BY <1>4 DEF MainReceive, IInv, TypeOK
  <2> QED
    BY <1>3, <1>4, <2>1 DEF MainReceive
<1>5. CASE MainRespond
  <2>1. Backlog' = Backlog
    BY <1>5 DEF MainRespond, IInv, TypeOK
  <2> QED
    BY <1>3, <1>5, <2>1 DEF MainRespond
<1>6. CASE BusFallsQuiet
  BY <1>3, <1>6 DEF BusFallsQuiet
<1>7. CASE UNCHANGED vars
  BY <1>3, <1>7 DEF vars
<1> QED
  BY <1>1, <1>2, <1>4, <1>5, <1>6, <1>7 DEF Next, MainNext

(* The device answers each group read it accepts at most once, answers     *)
(* nothing else and loses none between its tasks.                          *)
THEOREM StackImplementsServer == Spec => ImplementsServer
<1>1. Init => Server!Init
  BY ReadsInEmpty
  DEF Init, Server!Init, Owed, Backlog, Line, Transmitting, One
<1>2. IInv /\ [Next]_vars => [Server!Next]_(Server!vars)
  BY NextServes DEF Serves, Server!vars
<1> QED
  BY <1>1, <1>2, AlwaysIInv, PTL DEF Spec, ImplementsServer, Server!Spec

(* The bus never owes the device more than the offered load.               *)
LEMMA LoadIsBounded == Spec => [](Owed <= MaxOwed)
<1>1. Init => Owed <= MaxOwed
  BY ReadsInEmpty, LoadAssumption
  DEF Init, Owed, Backlog, Transmitting, One
<1>2. IInv /\ Owed <= MaxOwed /\ [Next]_vars => (Owed <= MaxOwed)'
  <2> SUFFICES ASSUME IInv, Owed <= MaxOwed, [Next]_vars
               PROVE  Owed' <= MaxOwed
    OBVIOUS
  <2>1. Owed \in Nat
    BY OwedType
  <2>2. Owed' \in {Owed - 1, Owed, Owed + 1} /\ (Owed < MaxOwed \/ Owed' <= Owed)
    BY <2>1, NextServes
    DEF Serves, Server!Next, Server!Listen, Server!Accept, Server!Pass,
        Server!Talk, Server!Answer
  <2> QED
    BY <2>1, <2>2, LoadAssumption
<1> QED
  BY <1>1, <1>2, AlwaysIInv, PTL DEF Spec

(* The application and the main task wait for each other only under a load *)
(* that fills both service channels and both tasks.                        *)
THEOREM NoWaitCycleUnderLoad == Spec => []NoWaitCycle
<1>1. IInv /\ Owed <= MaxOwed => NoWaitCycle
  <2> SUFFICES ASSUME IInv, Owed <= MaxOwed, WaitCycle
               PROVE  MaxOwed > 2 * ServiceCap + 1
    BY CapacityAssumption, LoadAssumption DEF NoWaitCycle
  <2>1. ReadsIn(frameTx) \in Nat /\ frameRx \in Nat
    BY OwedType, CapacityAssumption DEF IInv, TypeOK
  <2>2. Backlog = 2 * ServiceCap + 2
    BY CapacityAssumption DEF WaitCycle, Backlog, One
  <2> QED
    BY <2>1, <2>2, CapacityAssumption, LoadAssumption DEF Owed, One
<1> QED
  BY <1>1, AlwaysIInv, LoadIsBounded, PTL
=============================================================================
