# embassy-knx in TLA+

A verification project for the firmware in `src/`: a KNX device on a Nordic nRF
chip with an NCN5120 bus transceiver. Three embassy tasks form a protocol stack:
they receive frames from the bus, answer each `A_GroupValue_Read`, and are meant
to hold one connection (T_Connect ... T_Disconnect) with a client.

This file gives the inventory of the system, how the modules correspond to the
code, what is checked and proved and under which assumptions, and what is left.

## 1. The system

The executor is cooperative and runs in thread mode: a task is suspended only at
an `.await` that is pending. What the tasks share:

    uart_task                  application_task                    main
    NCN51Driver::run           ApplicationLayer::run               the loop of main
        |  FRAME_CHANNEL_TX (8)    |   SERVICE_CHANNEL_RX (4)          |
        |------------------------->|---------------------------------->|
        |<-------------------------|<----------------------------------|
        |  FRAME_CHANNEL_RX (8)    |   SERVICE_CHANNEL_TX (4)
        |-- CON_SIGNAL ----------->|
    FRAME_POOL (8 blocks): every Frame, in either direction, is a box from it

The layers inside `application_task` are plain calls: `ApplicationLayer::run`
selects on `TransportLayer::receive` (-> `NetworkLayer::receive` ->
`DataLinkLayer::receive`) and on responses from `main`.

| Component | State | Operations | What makes it correct |
|---|---|---|---|
| Driver, `ncn51_driver.rs` | FRAME_POOL, both frame channels, CON_SIGNAL, the place in `run` | `run`, `receive_frame`, `ack_if_addressed`, `send_frame`, the timed reads | no block is lost on an error path; an acknowledged frame is never stuck; one signal for each transmission |
| Data link, `data_link_layer.rs` | none of its own (CON_SIGNAL) | `send`, `receive` | a confirmation belongs to the frame just sent |
| Network, `network_layer.rs` | none | `send`, `receive` | sorts frames by destination |
| Transport dispatch, `transport_layer.rs` | `RefCell<Connection>` | `receive`, `receive_ind`, `send` | every TPDU reaches its handler |
| Connection, `transport_layer.rs` | state, numbers, owner, timer, stored frame | `handle_ind`, `handle_event`, actions A1 to A10, `connection_timeout` | packets indicated once and in order; acknowledged means indicated; one owner at a time; a silent owner is dropped |
| Application, `application_layer.rs` | the ends of both service channels | `receive`, `run` | each read is answered; `unwrap!` never fails; no deadlock with main |
| Main, `main.rs` | the LED and the loop | one response per indication | as above |
| Frame codec, `frame.rs`; data points, `data_point.rs` | a frame's bytes | getters, setters, lengths, checksum, values | setters and getters agree; lengths stay in range |
| Group objects, `group_object.rs` | state, signal, channel | `read_value` | not used by any task yet |
| Tables, `interface_object_server.rs`, `error.rs`, `settings.rs`, test clients, `build.rs` | none at run time | none | - |

The behaviours that are hard to test: three tasks that wait for each other
through bounded channels; one pool for both directions; a signal without an
identity; a select that drops the other arm in the middle of its work
(`application_layer.rs:89`, `ncn51_driver.rs:149`, `transport_layer.rs:148`);
timers and repetitions; numbers of limited width; a panic that halts every task.
`PROJECT.json` lists each hazard with its line.

## 2. Modules

| Module | Role |
|---|---|
| `GroupReadServer` | abstract: what the device promises the bus. It accepts reads, owes one attempt to answer for each, talks only to pay a debt; an attempt that fails is not repeated |
| `KnxStack` | the three tasks, their channels, the signal and the pool |
| `KnxStackProof` | theorems on `KnxStack`, and that it implements `GroupReadServer` |
| `KnxStackPolled` | `KnxStack` under the timing of executor and bus (extends `KnxStack`; implements it with its fairness) |
| `KnxStackPolledProof` | theorems on `KnxStackPolled` |
| `Ncn51Driver` | `uart_task` byte by byte, with the NCN5120 and the bus; implements `KnxStack` |
| `Ncn51DriverProof` | theorems on `Ncn51Driver`, and that it implements `KnxStack` and with it `GroupReadServer` |
| `Bits` | `&`, `\|`, `^` of octets and the checksum, by arithmetic on the bits |
| `BitLemmas` | lemmas on `Bits`; the checksum sees every change of one octet |
| `Tpdu` | the tests of network, transport and application layer on a frame, as operators |
| `TpduProof` | theorems on `Tpdu`, for every octet |
| `FrameCodec` | a frame octet by octet: built, damaged, checked, read (extends `Tpdu` and `Bits`) |
| `MCFrameCodec` | the frames of other devices for the runs of `FrameCodec` |
| `FrameCodecProof` | theorems on `FrameCodec`, for all standard frames |
| `TransportConnection` | the connection state machine with its clients and a lossy bus |
| `TransportConnectionProof` | theorems on `TransportConnection`, for any clients and packets |
| `QueueLemmas` | what `Append`, `Tail` and a replaced element do to the members of a queue |

What is abstract in one module is detailed in another. `KnxStack` knows a frame by
its class: `Tpdu` defines the classes and `FrameCodec` shows that a frame gets the
right one. In `KnxStack` the driver takes or sends a whole frame in a few steps:
`Ncn51Driver` does it byte by byte and refines those steps. In `Ncn51Driver` a
buffer is accepted if it is one whole frame, or if it may be taken for some other
frame: one that begins in the middle of a frame whose start was lost or misread
(`MayBeTakenFor`). `FrameCodec` shows that the length and checksum tests find all
other damage to one octet, and what can pass.

### KnxStack

One action is one stretch of code between two awaits that may be pending. A task
is a variable that says where it waits; the other variables are its channels.

| Variable | Code |
|---|---|
| `free` | blocks left in FRAME_POOL |
| `frameTx` | FRAME_CHANNEL_TX, the class of each frame in order |
| `frameRx` | FRAME_CHANNEL_RX (all responses are alike, so a count) |
| `serviceRx`, `serviceTx` | the service channels (counts, for the same reason) |
| `con` | CON_SIGNAL |
| `driver`, `held` | where `uart_task` is, and the complete frame in its hands |
| `app`, `main` | where the other tasks are |
| `quiet` | environment: nobody else talks on the bus any more |

A frame is abstracted to what the layers make of it: a group read, a
connection-oriented frame (`connected`; no layer compares its destination with
the device's own address), or anything else, which is logged and dropped. Bytes,
addresses and values are not in this module; frames are of the standard format (see
`FrameCodec` for what the length arithmetic does to an extended one). Of the
driver it keeps all suspension points and all exits, each with the block it
returns and the signal it gives.

* The select of `ApplicationLayer::run` polls the transport first (embassy's
  `select` is biased): `AppTakeResponse` is enabled only with `frameTx` empty.
  `UnwrapNeverFails` depends on it: without the bias the pool could be empty.
* `AppTakeConnected` is the double borrow: `TransportLayer::receive` borrows the
  connection in the scrutinee of a `match`, a temporary that lives to the end of
  the statement, and the arm calls `receive_ind`, which borrows again.
* `panic_borrow` and `panic_unwrap` halt everything (`Next` requires `~Halted`).

The confirmation byte is modelled by its status, which `DataLinkLayer::send`
ignores. The last read of `send_frame` has no timeout, so `confirm` has no failing
exit. `Owed` counts the reads that the device has taken and has neither tried to
answer nor given up: it goes down with the end of a transmission, good
(`DriverConfirm`) or bad (`DriverTransmitFails`: the write or the echo fails; the
code tries once).

### KnxStackPolled

`KnxStack` lets any task run at any speed, and its theorems hold so. Two
facts of the timing are left out of it, and are the guards of this module:

* *Tasks settle between frames* (`FrameEnds`). The driver is polled for each octet
  of a frame, of which there are eight at least, 286 us each on the UART. With
  every poll the executor polls each task woken before, so that before the last
  octet the other two tasks have done what they can (`AppRests`, `MainRests`).
* *The select looks at both arms* (`Loops`, `found`). `run` returns to its `select`
  when the bus has been silent for BUS_SILENCE_US, or after an L_Data.con. It
  then polls a `read` that it has just begun, and which no octet has ended yet, and
  FRAME_CHANNEL_RX; a frame queued there goes out (`Sends`). What is abstracted is an
  octet that ends in the very instant between the two.

The steps are those of `KnxStack`, grouped by what they do to `found`. The bus
may stay busy for ever, and no bound on the load is ever reached.

### Ncn51Driver

`loc` is the place in `run`, `receive_frame_int` or `send_frame`; `buf` what the
current frame or echo has read; `wire` the bytes of the frame now on the bus that
nobody has read; `chip` says that the NCN5120 holds a frame of ours. The other tasks
take the steps of `KnxStack` (`AppStep`, `MainStep`). A byte is known by its frame
and its place in it.

* `select` reads one byte: a start byte (or, after a loss, a byte that looks like
  one) begins `receive_frame`; others are skipped.
* A frame whose start was lost or misread is read from a later octet on, and may
  pass as any other frame (`MayBeTakenFor`), if it does not fill the buffer.
* The timed reads end at a pause of BUS_SILENCE_US (`Paused`): in the header that is
  an error, in the body the end of the frame, in the dump the way back to `select`.
* `send_frame` writes while nobody reads, so a byte that arrives may be lost
  (`ByteLost`), or is read as the echo. As many bytes are read back as were sent and
  not compared. The read after them has no timeout and takes whatever comes.
* The chip sends when the bus is free, may repeat a frame nobody acknowledged (the
  echo again, after a pause), and gives L_Data.con at once or late. A new request
  overwrites one that waits in it.

What is assumed of the bus and the chip is external: a pause between two frames is
longer than BUS_SILENCE_US (`TimesOutFirst`, `busy`), and on a free bus the first
byte of the echo comes in time. `Location` and `Held` map the state to the driver
of `KnxStack`; the echo that is received as a frame, which happens when a
transmission was given up, is a group response of class `other` there. `disturbed`
is history.

On a busy bus the echo does not begin within 2.6 ms: the driver signals NotOk, the
chip still holds the frame, and the next request replaces it. `ConfirmedIsOut`
therefore has `~disturbed` as a premise: it says that this is the only way to
confirm a frame that is still in the chip.

### Tpdu and FrameCodec

The integer tests of `NetworkLayer::receive`, `receive_ind` and
`ApplicationLayer::receive`, in their order. `& 0x3c` is arithmetic (`And3C`); the other
bitwise operators are in `Bits`, where a bit is a quotient modulo 2 and an octet the
sum of its bits, as the provers have no bit vectors. `Meaning` is the standard's table; the connection itself
sends T_ACK as 0xc2, T_NACK as 0xc3 and T_Disconnect as 0x81.

In `FrameCodec` a buffer is a function from `0 .. n-1` to octets, the setters are
the `|=` of the code, a length is a u8. A behaviour is the way of one frame:
the device builds it (`SendsResponse` is main's value through `to_transport`,
`info_frame` and `send_frame`; `SendsControl` is `send_response_frame`) or another
device encodes it by the standard, with any TPDU of one to 16 octets and any
priority, hop count and flag of repetition. One octet may be altered, lost at either
end or gained (a zero, or the L_Data.con that follows an echo at once); `damage`
tells the first octet, without which `run` looks for another start, from the rest,
and `sent` keeps what was sent. `Receives` is the search for the start and
`receive_frame` on a buffer full of zeros. `Fields` reads the result with the
getters. A frame of the device always has the flag of a repetition: `set_repeated`
is never called, and 0 means repeated.

With `OverflowChecks` an overflow ends in `"trapped"`; without, the value wraps.

### TransportConnection

`struct Connection` by itself, as the borrow panic keeps it from taking any step
in the running device: what it does is what the device will do once the borrow is
repaired. `state`, `seqRecv`, `srcAddr` and `timer` are its fields; `call` is the
action suspended in `network.send`. Each row of `handle_event` that `receive_ind`
can reach is an action: E00 to E07, with A1, A2, A3, A5, A6, A10. The rows of
T_ACK and T_NACK cannot be reached: their tests in `receive_ind`
(`tpci & 0x3c == 0xc2`) hold for no byte. A4, A7, A8 and A9 are never called.

* An action that sends is two steps, `Sends` up to the wait for the confirmation
  and `CallReturns` after it. In between the select of `ApplicationLayer::run` may
  drop the rest (`CallDropped`), and the pool may be empty (`"oom"`).
* `tpci_seq` keeps three bits, `seqRecv` is a u8 that never wraps, and
  `seq_no_recv - 1` traps at 0 when overflow checks are on (`DataPanics`).
* `delivered`, and `no` in a data frame, are history: they exist for the
  properties and no guard of the device reads them.

The clients are the environment: a client sends one packet at a time, repeats it
until it is acknowledged, stops at a T_Disconnect. Frames to the device are not
lost (the bus acknowledges them to the client; `AckedFrameHasRoom` of `KnxStack`
is the other half of it), frames of the device may be. A client connects when no
frame of its last connection is under way, because the bus is one wire.

## 3. Runs

| Run | Shows |
|---|---|
| `capacity` | sizes of the code (pool 8, channels 8, services 4), no effective bound on the load (8 blocks and 9 places without one hold 17 reads, `MaxOwed` is 19): types, `BoxesConserved`, `AckedFrameHasRoom`, `OneFrameInFlight`, `UnwrapNeverFails`, `ImplementsServer` |
| `live` | `FairSpec`, the largest load for which the service channels suffice at any speed of the tasks: `NoWaitCycle`, `SendConfirmed` (well or badly), `DeviceComesToRest` (on a silent bus all work ends and all blocks come back; not that every answer gets through) |
| `polled` | sizes of the code, the timing of executor and bus, a bus that may be busy for ever: types, `AtMostTwoOwed`, `TwoBuffersSuffice`, `ReadsAreServed` (an accepted read leads to a transmission), `ImplementsFairStack` |
| `connect` (violation) | one T_Connect halts the device |
| `conn_safety` | two clients, all faults, overflow traps: types, `DeliveredInOrder`, `OwnerKeepsConnection` |
| `conn_live` | one client, eight packets, loss and an empty pool: `PacketsAcked`, `AckedIsDelivered` |
| `conn_wrap` (violation) | the ninth packet is never acknowledged |
| `conn_silent` (violation) | a client that restarts keeps the connection for ever |
| `conn_drop` (violation) | an acknowledged packet is never indicated, if a response gets ready at that moment |
| `driver` | the bytes of the driver, with every fault of the bus and frames of every class: `TypeOK`, `ConfirmedIsOut`, `ImplementsStack`, `SendConfirmed` |
| `codec` | standard frames, one fault: `TypeOK` (buffer and length field agree), `SendsWhatIsMeant`, `RoundTrip`, `DamagedIsRejected`, `OnlyTailsPass`, `Understood` |
| `codec_extended` (violation) | an undamaged extended frame is refused |

**Bounds.** `MaxOwed` bounds the offered load, through `Owed`, the reads taken off
the bus and not settled. In `capacity` it is beyond what `Owed` can reach, as it is
in `polled`, where two are reached. In `live` and `driver` it is a premise: with
`2 * ServiceCap + 2` reads (4 + 4 queued, one with each task) tasks of any speed
could wait for each other, with `2 * ServiceCap + 1` they cannot. The device does
not come near it, as `polled` shows with the tasks as the executor runs them.
`live` and `driver` use smaller pools, still with a pool as long as a channel; the proofs
cover all sizes. `MaxPackets` bounds the packets of one connection: 8 is all the
sequence number can tell apart, 9 the first beyond. `QueueCap` bounds the frames
under way between one client and the device: 3 has room for a packet, its
repetition and an acknowledgement.

`driver` keeps the order of the sizes and makes the numbers small: a header of two
bytes, frames of three and four, a buffer of five, an extended frame of seven bytes, which
fills the buffer if its start is lost. The echo of a frame and the frame of
another device can so overlap at every byte. The bus carries one frame at a time.

`codec` takes TPCI octets from every row of the table and from both sides of each
limit (the theorems cover all 256), APCI octets on both sides of each service,
TPDUs of every length from one to the 16 octets that are the most a standard
frame can have, two headers, and four masks for the altered octet. The addresses
(1.1.173 and 9.0.145) and the data are chosen so that a frame is found within another:
with the first octet altered from 0xbc to 0xbd the last nine octets of a frame
are accepted as a frame of their own, which `OnlyTailsPass` has to account for. One fault at a time is what the checksum is made
for.

**Fairness** (`KnxStack`). The executor polls every woken task, so the steps of
`application_task` and of `main` are weakly fair. The driver, off its select,
always comes back, since its reads time out; in two places the environment owes
the step: the silence after a damaged frame, and the L_Data.con byte of the
NCN5120. `DriverTransmit` is strongly fair, and
this need not be taken for granted: `ImplementsFairStack` derives it in `KnxStackPolled`
from the order in which the select polls, with weak fairness only.

**Fairness** (`Ncn51Driver`). As for `KnxStack`, but the environment's part is
explicit: a frame on the bus ends (`BusIdles`), and the chip, which keeps trying,
gets the bus at last (`ChipTransmits`, strongly fair) and then confirms. From that
`SendConfirmed` follows although the last read has no timeout: the bytes it
waits for are still to come even if the echo read before was partly another's frame.
The timers are in `DriverStep`, which is weakly fair.

**Fairness** (`TransportConnection`). The device handles a frame and a
confirmation comes; a client repeats while it waits; what is sent again and again
is received at last, and the pool is not found empty every time (strong fairness,
for which `BoxesConserved` is the reason: blocks come back). `conn_live` has no
restart: a client that lost the T_Disconnect of its connection is answered
nothing (E06 and E07 are ignored) and would wait for ever.

## 4. Proofs

`KnxStackProof` proves for every `PoolSize >= 2`, every `FrameCap >= PoolSize`,
every `ServiceCap >= 1` and any load (`CapacityAssumption`, `LoadAssumption`):

| Theorem | Statement |
|---|---|
| `TypeCorrect` | `Spec => []TypeOK` |
| `BoxesAreConserved` | `Spec => []BoxesConserved` |
| `ConfirmationMatchesFrame` | `Spec => []OneFrameInFlight` |
| `AckedFramesHaveRoom` | `Spec => []AckedFrameHasRoom` |
| `UnwrapIsSafe` | `Spec => []UnwrapNeverFails` |
| `StackImplementsServer` | `Spec => ImplementsServer` |
| `NoWaitCycleUnderLoad` | `Spec => []NoWaitCycle` |

The inductive invariant is

    IInv == TypeOK /\ BoxesConserved /\ OneFrameInFlight /\ HeldWhileDelivering

The ranges in `TypeOK` are not inductive by themselves: that `free` does not exceed
`PoolSize` when a block comes back follows from `BoxesConserved` (the block is
counted elsewhere), and that FRAME_CHANNEL_RX does not overflow from
`OneFrameInFlight`. `HeldWhileDelivering` ties `held` to the driver's place.
From `IInv`: a driver that owns a block leaves at most `PoolSize - 1` to the
channel (`AckedFramesHaveRoom`); at the select with no frame queued in either
direction only the driver can own a block, so one of two is free
(`ResponseFindsBlock`, `UnwrapIsSafe`). The refinement maps `owed` to the reads
counted in all places (`Owed`) and `line` to what the driver does on the bus; each
step moves a read from one place to the next, which needs lemmas on how a queue's
count of reads changes with `Append` and `Tail`. `LoadIsBounded` and `Backlog`
give the exact load below which the two tasks cannot wait for each other at any speed;
`NeverAWaitCycle` below needs no such load.

`KnxStackPolledProof` proves, under the same assumptions:

| Theorem | Statement |
|---|---|
| `PolledTypeCorrect` | `PolledSpec => []PolledTypeOK` |
| `TwoAreOwed` | `PolledSpec => []AtMostTwoOwed` |
| `NeverAWaitCycle` | `PolledSpec => []~WaitCycle`, for every load |
| `TwoBuffersDo` | `PolledSpec => []TwoBuffersSuffice` |

    PInv == IInv /\ PolledTypeOK /\ SettledOnDelivery /\ ReadsSpread /\ BuffersSpread

`PolledIsStack` (a step is one of `KnxStack`) lets `IInv` be reused. That two reads
are owed at most is not inductive: it has to be said when there can be two at all.
`ReadsSpread` says it is between the end of a frame and the transmission that the
select has found; `BuffersSpread` says the same of the buffers outside the driver,
and `SettledOnDelivery` that the tasks have come to rest before, in one of two ways
(`WaysToRest`): with nothing left to do, or waiting for the confirmation of a
frame that is still queued, which then goes out next.

`TpduProof` proves, for every octet and address, without assumptions:

| Theorem | Statement |
|---|---|
| `AckNeverDecoded` | no octet is taken for a T_ACK or T_NACK |
| `OthersDecoded` | every other octet is taken for what the standard says |
| `SeqIsNarrow` | `tpci_seq` is the number sent modulo 8, right below 8 only |
| `ConnectedFrames` | exactly the frames of class `connected`, whatever their destination |
| `ReadFrames` | exactly the frames of class `read` |

They rest on `MaskedRange` (a value masked with 0x3c is at most 60, so neither
0xc2 nor 0xc4) and on the ranges of the quotients in each test. `ConnectedFrames`
uses `OthersDecoded` for the octets the table knows, and the order of the tests for
the rest.

`TransportConnectionProof` proves, for any set of clients, any number of packets,
queues of any length and overflow checks on or off (`ConnectionAssumption`):

| Theorem | Statement |
|---|---|
| `TypeCorrect` | `Spec => []TypeOK`: `seq_no_recv` never passes 8, though it is a u8 counted on without a mask |
| `IndicationsInOrder` | `Spec => []DeliveredInOrder`, under every fault |
| `AcknowledgedIsDelivered` | `Spec => []AckedIsDelivered`, under every fault but the cancellation of a send |
| `DropCostsOnePacket` | with that one too, a client is ahead of what was indicated by one packet at most |
| `OwnerKeepsIt` | `Spec => OwnerKeepsConnection` |
| `NinthPacketNeverAcked` | no client has more than eight packets of a connection acknowledged |

    IInv == Typed /\ Counted /\ DeliveredInOrder
            /\ \A p \in Peers : NothingAhead(p) /\ ConnectFirst(p) /\ Session(p)

`DeliveredInOrder` speaks of the device alone and what arrives next may come from
anywhere, so the queues have to be described. `Counted` ties `seq_no_recv` to the packets indicated, also while
A2 is suspended. `NothingAhead`: a packet under way is one its client has not seen
acknowledged, or an older one, so a number that fits is that of the next packet
(of two packets with the same three bits the later is eight ahead, which nobody
sends). `ConnectFirst`: a T_Connect is the first frame of its client under way and
nothing from before it is; without it a packet of an old connection could be taken
in the new one. `Session` bounds what the client has seen, and the T_ACKs on their
way, by `Expected`; here the cancellation makes the difference of one packet. That `AcknowledgedIsDelivered` excludes
cancellation is what the run `conn_drop` shows to be necessary. `NinthPacketNeverAcked` makes of the run
`conn_wrap`, which stops at nine packets, a statement on all numbers.

`Ncn51DriverProof` proves, for frames and buffers of all sizes in the order of the
code (`SizeAssumption`) and all sizes of pool, channels and load
(`StackAssumption`):

| Theorem | Statement |
|---|---|
| `TypeCorrect` | `Spec => []TypeOK`: no more octets are read than the buffer holds |
| `DriverImplementsStack` | `Spec => ImplementsStack` |
| `ConfirmedFrameIsOut` | `Spec => []ConfirmedIsOut` |
| `DriverKeepsBoxes`, `DriverNeverBlocks`, `DriverUnwrapIsSafe` | `BoxesConserved`, `AckedFrameHasRoom` and `UnwrapNeverFails` of `KnxStack` hold at the level of bytes |
| `DriverImplementsServer` | the driver with the other tasks implements `GroupReadServer` |

    IInv == Proofs!IInv /\ Typed /\ Buffered /\ LoadAllows /\ NoPauseInRead
            /\ AloneOnTheBus

`Proofs` is an instance of `KnxStackProof`, so the invariant of the stack is reused, through the mapping.
`Buffered` says what the buffer holds at each place of `run`. `LoadAllows` and
`NoPauseInRead` are about a read that is still on the wire: that the load leaves
room for it when its last octet is read, and that the driver reads it to the end,
since it has no pause. `AloneOnTheBus` gives `ConfirmedFrameIsOut`: undisturbed, the
chip holds a frame only while the driver waits for the first octet of the echo.
Each action of the driver is one step or a stutter of `KnxStack` (one lemma per
action); the last four theorems are the composition of this refinement with the theorems
of `KnxStackProof`.

`FrameCodecProof` proves, for all addresses, headers, masks of damage and TPDUs of
one to 16 octets of any value (`InputAssumption`):

| Theorem | Statement |
|---|---|
| `DeviceSendsWhatIsMeant` | `Spec => []SendsWhatIsMeant` |
| `TypeCorrect` | `StandardOnly`: `Spec => []TypeOK` |
| `FramesMakeTheRoundTrip` | `StandardOnly`: `Spec => []RoundTrip` |
| `DamageIsSeen` | `StandardOnly`: `Spec => []DamagedIsRejected` |
| `OnlyTailsAreAccepted` | `StandardOnly`: `Spec => []OnlyTailsPass` |
| `FramesAreUnderstood` | `StandardOnly`: `Spec => []Understood` |

`StandardOnly` (no other device uses the extended format) is needed: the run
`codec_extended` refutes `RoundTrip` without it.

    IInv == Flags /\ (stage = "idle" => wire = <<>>) /\ Intact /\ Spoilt /\ Taken

`Intact` says that an undamaged frame is the encoding of a message within the limits of the format,
`Spoilt` that a damaged one *will* be refused, or that what *will* be accepted of it
is an end of what was sent (`TailOf`), so the whole weight is on the steps that send
and damage. The lemmas below them, in the order of the module:

* *Checksum.* The exclusive or of the octets has in each bit the parity of the
  count of octets that have the bit. Of a sealed frame it is 0xff
  (`SealedFacts`); with one octet altered it is not (`OneOctetAltered` of
  `BitLemmas`, for any number of octets).
* *Start of a frame.* If the altered or the lost octet is the first, `run` looks for
  another start. Any octet may look like one (an address 9.x does), and the
  frame is read from there. The tail has the right checksum only if the octets
  before it cancel out in that of the whole frame, which neither one octet can do
  (the control octet is not zero) nor two (no octet skipped is like the control
  octet, or it would be the start): `FrameWithin`. So three are skipped at least and
  eight follow, which takes eleven octets and a TPDU of four. With more octets
  it can be done (section 5), hence the two cases of `DamagedIsRejected`.
  `AcceptedOctets` and `TailOctets` say what the buffer then holds.
* *Length.* One octet less or more at the end contradicts the length field
  (`WrongLengthIsRejected`).
* *Setters.* With `|=` a field is set right only if its bits are zero before:
  `OrAdds` (numbers without a common bit are added), then, setter by setter, the octets of
  the buffer (`ControlBuffer`, `ShortBuffer`, `LongBuffer`).
* *Getters.* Quotients and remainders give back each field (`FieldsAreMeant`).

Only model-checked: the liveness properties (`SendConfirmed` of both modules,
`DeviceComesToRest`, `ReadsAreServed`, `PacketsAcked`) and the fairness part of
`ImplementsFairStack`, since fairness and ENABLED are beyond the provers, and the
five runs that end in a violation but `conn_wrap`. Extended frames that are meant as
such are only run, for the refutation; that what a standard frame's tail is taken for
may be one is part of the proofs.

## 5. Divergences found

Each is a run that TLC must find violated, and an entry of `findings`: the double
borrow, the three-bit sequence number, the timer without effect, the acknowledged
packet that is dropped by cancellation, the extended frame whose length is read from
its destination.

Limits that the models show and that contradict nothing the code says:

* A checksum of one octet and a search for the start in the middle of a frame let some
  damaged frames pass. A frame with control octet 0xbc, source 0x11ad, destination
  0x90.. and five octets of TPDU, the third of them 1, is accepted as a frame of nine
  octets if 0xbc arrives as 0xbd: the octets 0xbc, 0x11 and 0xad cancel out. Such a frame
  may also look like an extended one, and reach the trap of its `length` or
  `set_length` in the dev profile.
* `send_frame` tries once. A write or an echo that fails, and the status of an
  L_Data.con, lead to NotOk or a status that `DataLinkLayer::send` ignores: the
  answer is not sent again. `DeviceComesToRest` and `ReadsAreServed` speak of the
  attempt.
* In the dev profile the first packet of a connection with a number out of sequence
  traps in `seq_no_recv - 1`.

## 6. Not modelled yet, and the plan

1. Proofs on the abstract side: invariants of `GroupReadServer` for every load,
   which hold of `KnxStack` and `Ncn51Driver` through the refinements.
2. A proof of what `conn_silent` shows: that a connection whose client went silent is
   kept.
3. Frames for other devices in `TransportConnection`: the layers above the driver
   do not compare the destination with the device's own address.
4. A composition of `KnxStack` and `TransportConnection` with the borrow repaired,
   for what cancellation does to CON_SIGNAL. In the code as it is no such state can
   be reached: the first frame for the connection panics.

Not modelled, as it cannot run: `GroupObject::read_value` takes `&'static mut self`
of objects in an immutable static, nobody calls it and nobody receives from its
channel; the actions A4, A7, A8 and A9 of the connection, and with them
`stored_frame`, `rep_count` and the copy of a frame; `apdu_data` and `repeated`;
the building of extended frames, for which no data point is long enough.

Left out for good: start-up of clocks and pins, logging, the JavaScript test
clients, `build.rs`, the empty table files, and `interface_object_server.rs`,
which is not part of the crate.
