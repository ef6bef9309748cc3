# kkpro in TLA+

kkpro is a measuring gateway: it polls measuring modules over a CAN bus,
converts and supervises their values, and publishes values and alarms as Modbus
TCP registers. Clients acknowledge alarms, disable channels and calibrate them by
writing command registers. The gateway runs unattended, so what matters is that
a dead channel is noticed, that an alarm is not lost, that a value shown
without an alarm is sound, and that clients can always connect.

These modules model the parts of the program that carry that logic. They are
checked by TLC on small instances, and the main safety properties are proved with
TLAPS for every instance.

## 1. Inventory

### Threads

| Thread | Runs | Started in |
|---|---|---|
| polling | `Can::runRecvCicle`, SCHED_RR at the highest priority | `canthread.cpp`, from `MainClass` |
| LVS | `Can::txCicle`, only in LVS mode | `can.cpp` |
| main | `MainClass::proceedData` on a 20 ms timer, and every queued slot of the slave objects (`stopSlave`) | `main.cpp` |
| server | `incomingConnection`, `dismisClient`, `clearMBPool` (1 s timer) | `modbusserver.cpp` |
| slave 0..N-1 | `ModBusSlaveDevice::run`, one per client | `modbusslavedevice.cpp` |

`dataMutex` guards `mData` (polling and main thread), `sendMutex` the holding
registers (main thread when it publishes, slaves always). `connectMutex` is taken
only in the server thread.

### Components

**CAN polling loop** (`can.cpp`). State: `mData` (value, status, `filled`,
`error_count` per identifier), `frame_counter`, `miss_counter`. Operations: one
cycle = broadcast a sync, collect frames for at most 45 ms, clear the receive FIFO,
count the missed channels, and on each second incomplete cycle close and
reopen the driver. Hard: repeated, unknown and late frames, a lost sync, a
controller stuck in reset mode, `continue` paths that undo a count. Correct when
the counters say what was heard, a silent channel reaches the error count that
raises an alarm, stored values are recent, and a stuck controller is recovered.

**PCI-1680 driver** (`can_iei/pci_1680.cpp`). State: the mode, timing and
transmit buffer of the controller, the receive queue, whether the card is open.
Operations: open, configure, send, receive, clear, close. Hard: `CanRcvMsg`
cannot report an empty queue, `init` ignores a failed configuration, and the
driver has no lock although several threads call it.

**Modbus connection pool** (`modbusserver.cpp`, `modbusslavedevice.cpp`).
State: per slot `status`, `sock_desc`, the thread and its socket,
`stopSlave_doneStatus`; `active_connections`. Operations: accept, refuse, start,
serve, close, notify, recount. Hard: three kinds of thread without a common
lock, notifications as queued events that outlive a session, a status that is free
before the thread has returned. Correct when a client is served on a slot of its
own until it leaves and no refusal is permanent.

**Channel processing** (`mainwindow.cpp` 140-275, 278-350, 390-590). State:
`dataToSend` (value, previous value, latched mark), the registers. Operations: copy
a sample, convert, check, compare with the group, publish, execute commands.
Hard: one latched mark that is both result and input of the checks, values held
through faults, order of channels, NaN. Correct when alarms are latched, a fault
holds the last good value, no mark means no fault.

**Command registers** (`mainwindow.cpp` 278-328, `modbusslavedevice.cpp`
208-286, `convertregisters.cpp`). State: two bytes per register. Operations:
slaves write with `sendMutex`; the main thread polls, executes and clears
without it. Correct when a command is executed once if it was written, and not
otherwise.

**Modbus request handlers and register layout** (`modbusslavedevice.cpp`
42-286, `convertregisters.cpp`, `mobus_conf.h`). State: the registers, the
request being served, the reply. Operations: take what has arrived, serve its first
request with `sendMutex`, answer. Hard: the main thread publishes while slaves
read, ranges are cut at the end of the registers after the length has been
announced. Correct when a reply is of one publication and of the announced length,
and nobody waits for the mutex for good.

**Calibration** (`xmlconf.cpp` 45-74 and 294-327, `mainwindow.cpp` 263-276,
352-374, 591-625). State: coefficients in memory, in registers, in a document
and in a file. Operations: clients write them, record, zero, start. Hard:
files rewritten in place, four copies that have to agree, floats read without the
mutex, elements that are missing or shared, a crash at any point. Correct when a
start finds the last recording or nothing, and the registers show the coefficients
that are in use. The switch `calibrationsIsON` only decides whether a value is
`a x + b`; that is a free choice of `ChannelStatus`.

**Configuration files** (`xmlconf.cpp` 76-288, `api_func.cpp`). State: the
maps between names, CAN identifiers, channels and groups. Operation: parse.
Hard: elements that share names or identifiers, missing attributes, maps that insert
what they do not find. Correct when every name leads to its channel.

**LVS transmission** (`can.cpp` 558-583, `mainwindow.cpp` 100-117). A second
`Can` object, whose `init` opens the same port of the same card as the first one.
State: the transmission under way; the port and `dataMutex` shared with the
polling and the main thread. Operations: send the value of each channel every 100
ms, configure the port again when a frame is refused. Hard: the main thread
configures the port at the start while the polling thread uses it; three threads
configure, reset and close one controller in any order. Correct when the port is
usable in the end, and a transmission is of one tick.

**Start-up** (`main.cpp`, constructors): the reading of the files is in
`Configuration` and `Calibration`, the second opening of the port in
`SharedPort`; for the rest, its result is the `Init` of the modules.
**Configuration ports** (`confConnection`, `confMBConnection`):
write a constant text. **Logging**: append only, nothing reads it. **ELCUS
library** (`can_200api.*`, `can_codes.h`): vendor code for another card, compiled
and not called. These three are not modelled.

### Interaction

    modules --frames--> driver queue --CanRcvMsg--> polling --mData--> main
                                                            (dataMutex)
    main --dataToSend--> LVS --frames--> port of the polling thread
         (dataMutex)
    main --registers (sendMutex)--> slaves --TCP--> clients
    clients --commands--> slaves --registers--> main (no mutex)
    server --start()--> slaves --disconnected event--> main --dismisClient event--> server

## 2. The modules

| Module | Models | Proofs | Runs |
|---|---|---|---|
| `CycleAccounting` | abstract: what one polling cycle promises | | |
| `CanAcquisition` | polling loop over driver and bus | `CanAcquisition_proofs` | `can_*` |
| `SharedPort` | LVS mode: polling, LVS and main thread over one port, register by register | `SharedPort_proofs` | `shared_port` |
| `ModbusPool` | server, main and slave threads over the slots | `ModbusPool_proofs` | `pool`, `pool_stale_stop` |
| `ChannelStatus` | one tick of the main thread | `ChannelStatus_proofs` | `status` |
| `CommandMailbox` | abstract: what a command register promises | | |
| `CommandRegisters` | slaves against `checkCommand`, byte by byte | `CommandRegisters_proofs` | `command` |
| `RegisterStore` | abstract: the registers as one atomic store | | |
| `ModbusService` | slaves against the publishing main thread, register by register | `ModbusService_proofs` | `service`, `service_inputs` |
| `Calibration` | four copies of the coefficients, files with and without their elements, crashes | `Calibration_proofs` | `calibration` |
| `Configuration` | `parseConfig` and the maps it fills | `Configuration_proofs` | `config` |

The `MC*` modules hold the values of the constants for TLC. Operators under a
comment `mutant:` are deliberately wrong variants of the operator that
follows them; no specification uses them. Each shows, when put in the place of the
right one, that a property can fail.

### CanAcquisition

One action per stretch of `runRecvCicle` between two points at which another
party can be seen: `Sync` (314-325), `ReadFrame` / `ReadExpired` (the read, then
the clock, 327-368), `DropFrame` and `StoreFrame` (379-451), `Drain`
(`CanClearRxBuffer`), `Account` (453-505), `Close` and `Open` (the reopening of
493-503). `pc` is the place in the loop. `filled`, `error_count` and `age` are the
fields of `mData`, `age` standing for `data`: a value is represented by the
number of syncs since it entered the queue. `frame` is `canmsg`, `port` the
controller. The bus (`Answer`, `ForeignFrame`, `BusOff`) is external. A module
answers each sync at most once, and the answer may be late or lost; that is how
`pending` keeps the bus from inventing frames.

Assumptions. Closing the driver drops what its kernel part had queued. An empty
read leaves `canmsg`, an uninitialised local, either unknown (no channel's
identifier) or as the previous call left it: both are in `EmptyReads`, and a run
says which it allows. The driver, once opened, stays installed. Time is a choice at
each read, which covers every result of the code's time arithmetic. The
history variables `received` and `unreported` record what was read in the cycle
and which counters have wrapped; they do not influence the behaviour.

### SharedPort

Here each access to the driver's variables or to a register of the controller is
a step. `Open`, `EnterReset`, `ConfirmReset`, `WriteBTR0`, `WriteBTR1`,
`LeaveReset` are `Can::init`, that is `CanOpenDriver` and twice `CanConfigPort`,
first with 125 kBps and then with 1 MBps; all three threads run them. The polling
thread is a cycle in outline (`AwaitSync`, `PutSync`, `ReceiveAll`,
`ClearBuffers`, `Account`, `CloseDriver`, `ClosePort`): its frames are in
`CanAcquisition`. `StartTransmission` to `EndTransmission` are `txCicle`,
`StartTick` and `EndTick` the part of `proceedData` with `dataMutex`. `Transmit`
is the controller.

Assumptions about the controller, from its data sheet as the driver uses it:
outside reset mode the timing registers ignore writes; reset mode drops the
frame being transmitted; closing the device leaves the controller in reset
mode; the bus takes a frame only at its own speed. A timing register holds the
baudrate its contents belong to. A handle of -1 makes the driver read
`InstallRef[-1]`; whatever that is, the call has no effect on the port.

What the model makes visible. `Can::init` ignores the device it is given and
opens port 0, so that both objects use one port. Configurations that overlap can
leave it at 125 kBps or with the timing registers of two speeds, without an
error; no cycle is complete then, and the second incomplete one reopens it
(`LeftRunning`, `PortRecovers`). `CanClearTxBuffer` of the polling thread
aborts frames of a transmission, and a frame is lost when the port is reset
between the test of the transmit buffer and `SET_BUFFER_DATA`: a receiver of the
LVS frames gets some of a transmission, in order (`SentOneTick`), not all. The
transmission holds `dataMutex` from its first frame to its last, and the polling
thread waits for it with its stored frames.

### ModbusPool

`Assign`, `Start`, `Refuse` are `incomingConnection`, split where `start()` is
called because slave and main threads run in between; `dismisClient` and
`clearMBPool` are single steps of the server thread. `Begin`, `Disconnect`,
`Drop`, `Close`, `Return` are the life of a slave thread. `stopSlave` and
`disconnectSignal` are the two halves of the slot `stopSlave`, separated by its
10 ms of sleep. `stops` and `dismisses` count queued events, `links` the repeated
`connect()` of one signal, each of which delivers one event per emission. A
session queues one `disconnected` event.

### ChannelStatus

`Config`, the channels with their types, limits and groups, is chosen at the start
from the constant `Configs` and never changes. A tick is one `ProceedChannel` per
channel, `proceedGroup`, `Publish` and `checkCommand`. `ProceedChannel` copies any sample, converts it and applies
`proceedStatus`, which is the composition of the checks in the order of the code
(`Substituted`, `ModuleChecked`, `StepChecked`, `OverloadChecked`, `LineChecked`,
`RangeChecked`, `DisabledKept`, `Settled`). Values are integers or NaN; the
thermocouple polynomial is the constant `BTemp`; a calibrated signal takes any
value, since its line may be changed or switched off at any tick. `acked` is a history
variable. `error_count` is abstracted to 0, 1 and 3.

What the model makes visible and a reader of the alarms should know: a module
error that is still marked hides a line broken later (`HoldOnFault` says
so); a deviation from the group replaces the mark of a disabled channel
(`DisabledStays`); a group whose members are all marked has no mean and marks
nobody; a thermocouple listed before its cold junction, or whose junction is
in a group, learns of the junction's mark one tick late (`JunctionTrusted`).

### CommandRegisters

A register is two bytes. `Lock`, `WriteHigh`, `WriteLow`, `Reply` are
`writeHoldings` of a slave; `Publish` is the part of `proceedData` that takes
`sendMutex`; `ReadLow`, `ReadHigh`, `Skip`, `Execute`, `ClearHigh`, `ClearLow` are
`checkCommand` with the order in which `ConvertRegisters` touches the bytes. The
accesses are a data race in C++; the model keeps the order of each thread's
accesses, as x86 does. The histories `requested` and `executed` count commands,
`kept` holds what a register must still contain, `disturbed` marks a write that
overlapped the clearing of the same register.

`CommandMailbox` is the promise without bytes and threads: a command is posted,
perhaps kept, and executed at most once for each time it was posted; while one is
kept no other is executed. The histories are the mapping, so `ImplementsMailbox`
(INSTANCE without substitutions) compares what the threads do with it step by step.

What the model makes visible: a request is lost not only when it is written while
`checkCommand` clears the command before it, but also when `checkCommand` has read
the low byte of that command and not yet the high one, if the two words
differ in the low byte only. The two calibration commands, 51 and 52, do: the
Record written between the two reads of a Reset disappears with it (`Overtaken`).

### ModbusService

`BeginPublish`, `PublishRegister`, `EndPublish` are the end of `proceedData`
(234-257); `Receive` is `run` up to the dispatch, `Lock`, `Move`, `Unlock`,
`Answer` are the three handlers, which differ in what a step of the loop moves
(`Content`) and where the range ends (`Limit`, `End`). A register holds the number
of the publication that wrote it, or `Written` by a client; that is all the
properties tell apart. `unanswered` and `seen` are histories of the client.

`RegisterStore` is what the clients see: registers that a publication replaces all
at once, and that a request reads or writes at one moment between its arrival and
its answer. The mapping lets both take effect when `sendMutex` is locked:
`contents` is the registers with what the holder of the mutex has still to move
moved already, `replies` what a reader has read completed with what it will read.
`ImplementsStore` therefore contains that a reply is of one publication and holds
exactly the registers of its range (`OneTick`, `LengthAnnounced`, which are proved on
their own too), and that a later request sees no earlier publication (`NeverOlder`).

What the model makes visible: `readAll` takes everything that has arrived and only
the first request is served, so a client that does not wait for its answer
loses the second one (`Served` speaks of what is taken up).

### Calibration

A coefficient is the sequence of its bytes. `BeginWrite` and `WriteByte` are
`writeHoldings` on one coefficient; `Record`, `ReadByte`, `UpdateDocument`,
`OpenCalibrations`, `WriteCalibrations` are `recordCalibrations`, which reads
the last byte of each float first and without the mutex; `Zeroing`,
`OpenConfiguration`, `WriteConfiguration` are `pressureDiffToZero`. Opening a file
for writing truncates it, which is why `Crash` between the two leaves it `Broken`.
`Start` is the constructor: parse both files, go on with what there is, write the
coefficients into the registers. `Printed` is a float after printing and reading
with six digits. `whole`, `torn`, `differs`, `kept` are histories.

Of `calibrations.xml` the model keeps where each coefficient is looked up:
`place` is the attribute (`a` or `b`) of the first element named like its channel,
or `Nowhere` if there is no such element; an attribute that is missing from an
element reads as 0 and is added by the first recording, so it counts as a place
that holds 0. Channels of one name have the same place. The program adds no
elements, so `place` never changes; the constant `Placements` says which
combinations of configuration and file are considered, all of them in the
theorems. `ReadFrom` is what `parseConfig` makes of a file, `Written` what the loop of
`recordCalibrations` (298-315) makes of the document.

Assumptions. Calibrated channels have identifiers of their own (with a shared one
they share the record in `dataToSend`, and the last register wins). Files are not
edited while the program runs. A crash leaves a file it was writing empty: that
one flush could be cut in the middle is not modelled. A zeroed offset is any
float.

What the model makes visible: a coefficient whose element is missing is recorded,
used and shown in the registers, but not kept: the recording logs "No element"
(`xmlconf.cpp:307`), goes on, and the next start gives 0. Of channels that share a
name all start with what the last of them was recorded with, whatever the others
had. After a start with a broken `calibrations.xml` the document has no elements,
and every later recording writes that same empty document, so nothing is kept until
the file is repaired by hand. Zeroing is in memory and in `conf.xml` only, so that
the next start forgets it and the next recording takes the old offset from the
registers.

`pressureDiffToZero` is marked `// it broken now` in the source
(`mainwindow.cpp:591`). What it subtracts is the published value, which is not
`a x + b` of now when the frame was missed, when a NaN was replaced by `prev_data`
without a mark (479-482), when a line broke in the first ticks, which take the raw
reading as `prev_data` (168-180, 514-518) and clear the marks (218-221), or while the
calibration is switched off. No property here says that the new offset is right.

### Configuration

A document is what the parser looks up in it: the attributes of the elements of
`conf.xml`, its channel elements, the elements of `calibrations.xml` and of
`modbus.xml`. `ParseModbus` opens `modbus.xml` and finds the first `sensor`,
`ParseSensor` is one round of the loop that follows, `MakeGroups` what lies
between it and the channels, `ParseChannel` one channel element, `Start` the end.
They fill `modbusMap`, `frameMap`, `mData`, `sensorNameMap` and `groupMap`.
`Configured` is the channel that an element gives; what its type does not set is
`Unset`. `getAVCanFrameId` and its companions are translated with their widths.

What the model makes visible: the loop over `modbus.xml` starts at the first
`sensor` and goes on with siblings named `name` (`SensorsInOrder`); a calibrated channel without a
name takes the first coefficients in the file; the limits of a PURE or S channel
are never written; a name that is not there resolves to identifier 0, which no
channel has (`NamesResolve`); without `modbus.xml` there are no channels.

## 3. The runs

| Run | Instance | Shows |
|---|---|---|
| `can_safety` | 2 channels, queue 2, `error_count` mod 4, both kinds of empty read, fairness | a cycle that counted enough frames has one of every channel; the loop implements `CycleAccounting`; a controller in reset mode is recovered; a channel that is no longer stored reaches the alarm count |
| `can_age` | queue 3, ages to 6, `error_count` mod 3, empty reads unknown | only frames read in this cycle are stored; `error_count` bounds the age of each value, and no value just stored is older than two syncs, although late answers pile up |
| `can_stale` | empty reads may be stale | **violated**, see below |
| `pool` | 2 slots, 3 connections, fairness | a connection accepted on a slot at rest is served undisturbed, and is served; a slot is lost only by accepting on one whose thread has not returned; no refusal is permanent |
| `pool_stale_stop` | 1 slot, 2 connections | **violated**, see below |
| `shared_port` | 2 frames, 3 transmissions, 2 ticks, 2 refused frames, 1 failing opening, fairness | once no thread configures the port it is open, out of reset mode, and at the speed of the bus if configurations did not overlap; a transmission is of one tick and in order; a port left at a wrong speed is recovered |
| `status` | two configurations: a junction and its thermocouple; a calibrated and a plain channel of one group. Readings at, inside and beyond the limits, NaN, open circuit | no NaN is published; faults hold the value; no mark means no fault, of the junction too; alarms are latched, disabled channels stay disabled |
| `command` | 1 channel (3 registers), 2 slaves, 3 requests out of every command word and one spanning two registers, fairness | the registers implement `CommandMailbox`: no command is made up, executed twice or executed in the place of a kept one; a request is lost only while the one before it is being cleared or half read; every other one is executed or replaced |
| `service` | 1 sensor in registers 0-2 of 5, byte count mod 10, 2 clients with 2 requests each, both of which may be on the way, 1 publication, fairness | the service implements `RegisterStore`: a reply is what its whole range held at one moment; it is of no publication older than the client has seen and has the announced length; what is taken up is answered |
| `service_inputs` | 1 client, 1 request | **violated**, see below |
| `calibration` | the offsets of a P and of a dP channel, floats of 2 one-bit bytes; each with an element, without, or both with the same; 2 writes, any number of recordings, zeroings and crashes | a start finds the last recording, as far as the file has places for it, or a broken file; registers show the coefficients in use; only overlapping writes tear a recorded float |
| `config` | every document of 3 channels out of 10 kinds, with and without `modbus.xml` and coefficients; `modbus.xml` has `name`, `sensor`, `name` and again `sensor` elements | the sensors are published once each and in order; identifiers, names and coefficients lead to the channels they belong to; a group has one entry for each channel that names it and no other |

Bounds. Two channels are the least with which a frame of one can stand in for
the other and with which a cycle is cut short; queue 3 holds late answers on top
of the current ones; ages and error counts go one beyond the largest value a
property names. `error_count` wraps at 3 or 4 (2^16 in the code) so that the
wrap happens; 4 is the least that leaves room for the alarm count 3. Two slots
and three connections let a slot be reused while the queues still hold events of
its earlier session. One first tick replaces five: what the later ones do is the
same. Three requests to the command registers are one that is being cleared, one
that overlaps it and one that follows. A sensor has the three registers it has in
the code; two registers behind it let a range begin in the sensor and be cut at
the end, and the start-up contents count as a publication, so one more is enough
to mix two. Two bytes are the least float that can be torn, two coefficients the
least that can be confused or share a place in the file. Two frames are the least transmission that can be cut
short, and three transmissions let one be cut while the port recovers from what
the one before did to it; two refused frames let the LVS thread configure the
port again while the polling thread repairs it. `PortRecovers` holds because
only finitely many frames are refused: a thread that configures again and again
can always spoil what the other one has repaired. Three channels let a name, an identifier or a
group be shared by two while the third is between or after them. No run uses
symmetry. `Spec` of each module has no other bounds than its constants; the
theorems hold for all of them.

Deadlock checking is off where the system may stop: in `service*`, when the bounds
on publications and requests are used up, and in `config`, when the parser has
finished. Under fairness the actors of the environment (clients, bus) have none
unless stated here.

Fairness. `CanAcquisition`: the polling thread runs (highest real-time
priority); the 45 ms pass if the loop keeps reading (strong fairness of
`ReadExpired`, since reads that arrive in time alternate with the chance of a
late one); a reconfiguration that is tried again and again succeeds in the end
(strong, an assumption on the hardware). `SharedPort`: each thread runs, since
every wait of the driver is bounded and the holders of `dataMutex` release it;
none for the controller, the bus may be as slow as it likes.
`ModbusPool`: the 1 s timer fires and
its event gets its turn between connections; queued events are delivered; a
started thread runs; a slave whose slot is free notices it after the next request or
`READ_TIMEOUT`. A client never has to leave. `CommandRegisters`: the 20 ms timer
fires, the main thread gets `sendMutex` in the end although slaves take it again
and again (strong), and a slave that holds it goes on. `ModbusService`: a thread
that holds `sendMutex` goes on, a slave takes up what has arrived, and one that
waits for the mutex gets it in the end (strong); a client need not send anything
and the main thread need not begin to publish.

### What the violated runs show

`can_stale`: `CanRcvMsg` tests an unsigned result for `>= 0` and therefore
returns success for an empty queue, under the comment "yuan modify for data
received successfully". If the local `canmsg` still holds the previous
frame, a channel that has fallen silent is stored again and its `error_count`
cleared. It does not matter whether the old frame had been stored when it came: in
the shortest trace it had been dropped as too late.

`pool_stale_stop`: the `stopSlave` event of a session may be delivered when its
slot already serves the next client, since the flag it tests is reset for
each session. It logs the disconnection of a client that is connected, marks its
slot free, and the client is dropped after its next request.

`service_inputs`: function code 4 is commented "read Inputs Registers", but
`InputsRegs` is never given a size (the line is commented out, `mainwindow.cpp:49`).
The range is cut at 0 and the reply announces `2 * amount` bytes and holds none.

Not a run, but met on the way: `conf.xml:7` of the repository gives the step of K
channels as `<DELT value="100"/>`, while `parseConfig` reads the attribute `t_K`. A
missing attribute is 0, so that with this file any change of a K channel is marked.

## 4. The theorems

All are proved for every value of the constants that satisfies the named
assumptions; each proof module states its inductive invariant as a
conjunction.

* **CanAcquisition_proofs.** `Inv` = types, `CounterMatchesFilled` and `RoomLeft`
  (the loop reads only while fewer frames than channels are counted; without it
  `StoreFrame` could leave the range of the counter). It gives `TypeCorrect`,
  `CounterIsExact`, `CompleteIsFull` for every channel list, repeated
  identifiers included. `StoredIsReceived` adds `Backed` (the frame about to be
  stored was read or belongs to no channel) and assumes that empty reads are
  never stale: exactly what `can_stale` refutes without it. `AgesAreReported` needs
  to know why values cannot get old: a sync adds at most one frame of a channel, a
  complete cycle takes at least one, and the second incomplete cycle empties the
  queue. `Backlog` says it by numbering the queued frames of each channel within
  `limit`; it rests on `Backed`, and so on the same assumption.
  `AccountingImplemented` shows each step to be a step or a stutter of
  `CycleAccounting`, for lists without repeated identifiers; with a repeated one
  the code counts a miss for each further place of a stored identifier, so
  that a cycle is never complete.
* **SharedPort_proofs.** `Port` (a port in reset mode is in the hands of some
  thread, a closed one in those of the polling thread) and `Alone` (while
  configurations have not overlapped there is one at most, and what it has
  written so far is in the registers): `PortIsLeftRunning`. `Lock` (who is inside
  holds `dataMutex`, and outside a tick all values are of the same one) and
  `Order` (the frame in the transmit buffer follows the last one sent, the
  frame due next follows both): `TransmissionsAreOfOneTick`. For every number of
  frames and every bound.
* **ModbusPool_proofs.** `Inv` = types, `Given` (handles are numbered, given to
  one slot, served by that slot's thread), `Held` (a clean connection's slot is
  started and nothing is under way that would free it) and `Released` (the slot
  of an ended clean connection is free or about to be). It gives `TypeCorrect`,
  `CleanSessionsAreSafe`, `LeaksNeedOverlap` for every pool size.
* **ChannelStatus_proofs.** `Inv` carries marks from one publication to the next
  through the tick (`AlarmKept`, `DisabledMarkKept`): `TypeCorrect` (no NaN is
  held or published), `AlarmsAreLatched`, `DisabledChannelsStay`. `TickInv` adds
  what each channel already processed owes to its last publication
  (`TickSound`) and that `prev_data` is the published value
  (`PreviousIsData`): `LastGoodValueIsHeld`, `UnmarkedIsHealthy`.
  `JunctionSound` (a thermocouple proceeded without a mark used a junction
  without one, and nothing has changed that mark since): `JunctionsAreTrusted`.
  For every set of configurations; assumed of the conversions: a reading or NaN
  comes out.
* **CommandRegisters_proofs.** `Inv` = types, `HalfwayHigh` (halfway through an
  undisturbed write the high byte is in place), `ClearingEmpty` (nothing is kept
  in a register being cleared, and a write overlapping the clearing knows it),
  `Unmixed` (what `checkCommand` makes of a register that keeps a command is
  that command or none; without it `Execute` could take a kept command away by
  executing another): `TypeCorrect`, `RequestsAreKept`. `Credit` gives each writing of a command one
  execution, which is spent when the command can be seen in the register or is
  about to be (`Seen`, `Coming`), so that halves of two requests and what a
  clearing leaves behind never add up to a command: `CommandsAreNotMadeUp`.
  `MailboxImplemented` joins the two: the credit is what makes a command due when
  it is kept or executed, `Unmixed` that it is the right one.
* **ModbusService_proofs.** `Inv` = types, `Owed` (every request on the way is
  counted as unanswered), `Exclusive` (who publishes or moves holds
  `sendMutex`), `Whole` (outside a publication all published registers are of
  the last one or overwritten, inside it those below `at` are of the new one),
  `Progress` and `Finished` (the length of the reply follows the index) and
  `Replies` (what a reply holds was whole while the mutex was held):
  `TypeCorrect`, `RepliesAreWhole`, `RepliesNeverOlder`, `RepliesAreComplete`, for
  every number of slaves, sensors and registers and all requests.
  `StoreImplemented` shows each step to be one of `RegisterStore` or a stutter: a
  lock is the abstract publication or request (`ContentsMoving`: the holder's
  registers count as moved), a move changes neither `contents` nor `replies`, an
  unlock finds nothing left to move (`RangeIsMoved`).
* **Calibration_proofs.** `Inv` = types, `FileKept` (a readable file holds
  `Written(kept)`: at each place it has, what the last recording put there last), `DocumentKept` (so will be the one about to be written),
  `TakenSoFar` and `WholeShown` (bytes read, and bytes written, are a part
  of one float unless the two overlap), `Writing`, `RegistersShowCoefficients`:
  `TypeCorrect`, `RecordingsAreRestored`, `CoefficientsAreShown`,
  `TearsNeedOverlap`, for every number of coefficients and bytes and every set of
  `Placements`. `LastExists` (a set of coefficients has a last one) makes
  `Written` and `ReadFrom` meet: what was read from a file and is written back
  is the same file (`WrittenBack`).
* **Configuration_proofs.** `TypeCorrect`: the channels that `Configured` makes have
  the fields their type needs, whatever attributes are missing. `Cursor` (the loop
  over `modbus.xml` stands on the first of the sensor elements it has not been
  through, and has published the others in order): `SensorsStayInOrder`. `Inv` = `Place`, `Maps` (the maps hold the channels
  parsed so far, the last of a name or identifier in place of earlier ones) and
  `Groups` (a group has one entry per channel parsed that names it; `OneMore` says
  what a further channel does to the ranks of the others):
  `IdentifiersAreFaithful`, `NamesLeadToChannels`, `GroupsHaveTheirMembers`; `Kept` (a channel has the coefficient the parser
  found for its element until another element takes its identifier):
  `CoefficientsStayOwn`. For every document whose group numbers do not exceed
  the amount of groups (the code does not compare them).

Every invariant, every action property and every refinement the passing runs check
is proved. Only model-checked are the liveness properties `Recovery`, `StoredOrReported`, `PortRecovers`, `RefusalIsTemporary`,
`CleanIsServed`, `KeptIsExecuted`, `Served`, which are beyond TLAPS
(fairness and ENABLED).

## 5. Not modelled

* The time arithmetic of `can.cpp` 347-366 and 505-530: in `CanAcquisition` each
  read is in time or late and each cycle begins at once, freely, so that what
  holds there holds whatever the clock shows. That the elapsed time is wrong when
  a second boundary is crossed with more than a second in between, and that the
  wake-up time can have more than a second of nanoseconds, are listed as a hazard.
* Of the driver, the acceptance filter (it passes everything) and the functions
  nobody calls. The ELCUS library (`can_200api.*`, `can_codes.h`) is compiled in
  and never called.
* The bits of DI channels, the numbers of the conversions (constants or free
  choices with the range the properties need), the wording of logs.
* Negative starts and amounts of Modbus requests, fragments of requests, and the
  regions of the registers against each other.
* Configuration ports and logging: output without state.

## 6. Plan

Done, in this order: the polling loop and its abstract accounting; the connection
pool; channel status; the race on the command registers; calibration; the
request handlers over the published registers; the configuration; the shared
port of LVS mode; zeroing; proofs of all safety
properties the runs check; the command registers as mailboxes and the holding
registers as an atomic store, each shown to be implemented.

1. `RegisterMap`: the regions of the holding registers (values, commands,
   coefficients), which must not overlap, and the arithmetic of starts and
   amounts that `modbusslavedevice.cpp` takes as signed numbers.
2. `CycleTiming`: the time arithmetic with its nanosecond fields, against true
   time.
3. `Gateway`: the polling, main and slave threads composed over `dataMutex` and
   `sendMutex`, with `ChannelStatus` as the publisher of `RegisterStore`.

## 7. Running it

    tlc -workers 2 -config MCCanSafety.cfg MCCanAcquisition.tla
    tlapm CanAcquisition_proofs.tla

Each run takes between a few seconds and about two minutes with two workers. `PROJECT.json` lists runs,
the source lines of every definition, the mutants that break each property,
the hazards of the code, and the theorems.
