------------------------------ MODULE SharedPort ------------------------------
(***************************************************************************)
(* LVS mode: two Can objects on one port of one card.  Can::init ignores    *)
(* the device it was made with and always opens port 0 of card 0, so the    *)
(* polling thread (runRecvCicle), the thread of txCicle and, at the start,  *)
(* the main thread send and configure the same SJA1000 controller; the      *)
(* driver (can_iei/pci_1680.cpp) has no lock.                               *)
(*                                                                         *)
(* Each access to InstallRef or to a register of the controller is a step.  *)
(* A configuration enters reset mode, waits until it sees it, writes the    *)
(* filter and the two bus timing registers, and leaves reset mode; outside  *)
(* reset mode the controller ignores these writes.  Opening configures      *)
(* 125 kBps, init then 1 MBps, which is the speed of the bus.               *)
(*                                                                         *)
(* Abstractions.  A timing register holds the baudrate its contents belong  *)
(* to.  The filter passes everything, whoever writes it, and is left out.   *)
(* A wait of 500 polls can run out whenever it has not ended.  The channels *)
(* and their frames in mData are in CanAcquisition: here a cycle is         *)
(* complete or not, and it can only be complete on a port that works.  A    *)
(* call with the handle -1 reads InstallRef[-1]; whatever is there, it does *)
(* nothing to the port.                                                     *)
(***************************************************************************)
EXTENDS Naturals

CONSTANTS
  Frames,      \* frames of a transmission: one per channel
  MaxRounds,   \* bound: transmissions in a behaviour
  MaxTicks,    \* bound: ticks of the main thread
  MaxFaults,   \* bound: frames SET_BUFFER_DATA refuses to the transmitting thread
  MaxAbsent    \* bound: openings of /dev/PCI1680W0 that fail

ASSUME BoundsAssumption ==
  /\ Frames \in Nat \ {0}
  /\ MaxRounds \in Nat /\ MaxTicks \in Nat /\ MaxFaults \in Nat /\ MaxAbsent \in Nat

Threads == {"polling", "lvs", "main"}
Objects == {"can1", "can"}      \* of MainWindow
(* The object whose init and Write a thread calls. *)
Object(t) == IF t = "polling" THEN "can1" ELSE "can"

Opening == 4    \* setPort.baudrate of CanOpenDriver: 125 kBps
Speed   == 8    \* of Can::init: 1 MBps
Bauds   == {0, Opening, Speed}

Empty == [of |-> "nobody", round |-> 0, index |-> 0, tick |-> 0]
SyncFrame == [Empty EXCEPT !.of = "polling"]

Configuring == {"enter", "confirm", "btr0", "btr1", "leave"}

VARIABLES
  initFlag,    \* of the card: its device file is open
  absent,      \* openings of the device file that will still fail
  InstallRef,  \* InstallRef[0] = 1
  reset,       \* the controller is in reset mode
  btr0, btr1,  \* its bus timing registers
  buffer,      \* its transmit buffer: a frame or Empty
  pc,          \* where each thread is
  baudrate,    \* what each thread is configuring, or configured last
  opened,      \* the objects whose hCan is 0; -1 for the others
  miss_counter,
  complete,    \* the outcome of the cycle
  dataToSend,  \* the tick that wrote each channel
  mutex,       \* dataMutex: the thread that holds it, or "nobody"
  round, index,\* of the transmission and of its frame
  ticks, faults,
  sent,        \* history: the last frame of txCicle that went out
  overlapped   \* history: configurations have overlapped since the port was idle

controller == <<reset, btr0, btr1, buffer>>
driver     == <<initFlag, absent, InstallRef>>
setup      == <<baudrate, opened, overlapped>>
cycle      == <<miss_counter, complete>>
sending    == <<round, index, faults>>
published  == <<dataToSend, ticks>>
vars == <<initFlag, absent, InstallRef, reset, btr0, btr1, buffer, pc, baudrate, opened,
          miss_counter, complete, dataToSend, mutex, round, index, ticks, faults,
          sent, overlapped>>

(* A thread between the first and the last step of opening the port. *)
Busy(t) == pc[t] \in Configuring \cup {"shut", "install"}
OtherBusy(t) == \E u \in Threads \ {t} : Busy(u)

AtSpeed == btr0 = Speed /\ btr1 = Speed

Goto(t, label) == pc' = [pc EXCEPT ![t] = label]

(* The main thread is about to init the second object; the polling thread   *)
(* runs, on a port the constructor has configured for it or on none at all. *)
Init ==
  /\ \/ initFlag = TRUE /\ absent = 0 /\ btr0 = Speed
     \/ initFlag = FALSE /\ absent \in 0 .. MaxAbsent /\ btr0 = 0
  /\ btr1 = btr0
  /\ InstallRef = initFlag
  /\ reset = ~initFlag
  /\ buffer = Empty
  /\ pc = [t \in Threads |-> CASE t = "polling" -> "sync"
                               [] t = "lvs"     -> "idle"
                               [] t = "main"    -> "install"]
  /\ baudrate = [t \in Threads |-> Speed]
  /\ opened = IF initFlag THEN {"can1"} ELSE {}
  /\ overlapped = FALSE
  /\ miss_counter = 0 /\ complete = FALSE
  /\ dataToSend = [c \in 1 .. Frames |-> 0] /\ ticks = 0
  /\ mutex = "nobody"
  /\ round = 0 /\ index = 1 /\ faults = 0
  /\ sent = Empty

----------------------------------------------------------------------------
(* Can::init: CanOpenDriver, which ends with a configuration of its own,    *)
(* then CanConfigPort; the results of both configurations are ignored.      *)

(* Where a thread goes on after init; "unlock": txCicle breaks its loop.    *)
AfterInit(t) ==
  CASE t = "polling" -> "sync" [] t = "lvs" -> "unlock" [] t = "main" -> "idle"

(* _1680_InstallPCI has opened the device file of the card, or will. *)
CardReady == initFlag \/ absent = 0

InstallFails(t) ==
  /\ pc[t] = "install"
  /\ ~CardReady
  /\ absent' = absent - 1
  /\ opened' = opened \ {Object(t)}
  /\ Goto(t, AfterInit(t))
  /\ UNCHANGED <<initFlag, InstallRef, controller, baudrate, overlapped, cycle,
                 published, mutex, sending, sent>>

\* mutant: the port is only marked as open when the card is opened
OpenOnce(t) ==
  /\ pc[t] = "install"
  /\ CardReady
  /\ initFlag' = TRUE
  /\ InstallRef' = (InstallRef \/ ~initFlag)
  /\ baudrate' = [baudrate EXCEPT ![t] = Opening]
  /\ Goto(t, "enter")
  /\ UNCHANGED <<absent, controller, opened, overlapped, cycle, published, mutex, sending, sent>>
Open(t) ==
  /\ pc[t] = "install"
  /\ CardReady
  /\ initFlag' = TRUE
  /\ InstallRef' = TRUE
  /\ baudrate' = [baudrate EXCEPT ![t] = Opening]
  /\ Goto(t, "enter")
  /\ UNCHANGED <<absent, controller, opened, overlapped, cycle, published, mutex, sending, sent>>

(* CanConfigPort returns, to CanOpenDriver or to init. *)
ConfigEnds(t) ==
  IF baudrate[t] = Opening
    THEN /\ baudrate' = [baudrate EXCEPT ![t] = Speed]
         /\ opened' = opened \cup {Object(t)}
         /\ Goto(t, "enter")
    ELSE /\ Goto(t, AfterInit(t))
         /\ UNCHANGED <<baudrate, opened>>

others == <<driver, overlapped, cycle, published, mutex, sending, sent>>

(* Reset mode aborts what is being transmitted. *)
EnterReset(t) ==
  /\ pc[t] = "enter"
  /\ IF InstallRef
       THEN /\ reset' = TRUE
            /\ buffer' = Empty
            /\ Goto(t, "confirm")
            /\ UNCHANGED <<baudrate, opened>>
       ELSE ConfigEnds(t) /\ UNCHANGED <<reset, buffer>>
  /\ UNCHANGED <<btr0, btr1, others>>

(* The wait for reset mode ends when it is seen; if it is not, it runs out  *)
(* and CanConfigPort gives up.                                              *)
ConfirmReset(t) ==
  /\ pc[t] = "confirm"
  /\ IF InstallRef /\ reset
       THEN Goto(t, "btr0") /\ UNCHANGED <<baudrate, opened>>
       ELSE ConfigEnds(t)
  /\ UNCHANGED <<controller, others>>

(* What a register holds after a thread has written it. *)
Timing(t, register) == IF InstallRef /\ reset THEN baudrate[t] ELSE register

WriteBTR0(t) ==
  /\ pc[t] = "btr0"
  /\ btr0' = Timing(t, btr0)
  /\ Goto(t, "btr1")
  /\ UNCHANGED <<reset, btr1, buffer, baudrate, opened, others>>

WriteBTR1(t) ==
  /\ pc[t] = "btr1"
  /\ btr1' = Timing(t, btr1)
  /\ Goto(t, "leave")
  /\ UNCHANGED <<reset, btr0, buffer, baudrate, opened, others>>

\* mutant: the mode is read and written back as it was
LeaveUnchanged(t) ==
  /\ pc[t] = "leave"
  /\ ConfigEnds(t)
  /\ UNCHANGED <<controller, others>>
LeaveReset(t) ==
  /\ pc[t] = "leave"
  /\ reset' = (reset /\ ~InstallRef)
  /\ ConfigEnds(t)
  /\ UNCHANGED <<btr0, btr1, buffer, others>>

init(t) ==
  \/ InstallFails(t) \/ Open(t) \/ EnterReset(t) \/ ConfirmReset(t)
  \/ WriteBTR0(t) \/ WriteBTR1(t) \/ LeaveReset(t)

----------------------------------------------------------------------------
(* CanSendMsg waits until it sees the transmit buffer released and then     *)
(* writes into it; if the wait runs out it returns 0 all the same.  Between *)
(* the two another thread may have written, or the port may have stopped:   *)
(* then the frame is lost.                                                  *)
Released(t) == Object(t) \in opened /\ InstallRef /\ buffer = Empty
Accepted(frame) == {buffer} \cup (IF ~reset /\ buffer = Empty THEN {frame} ELSE {})

(* The controller puts a frame on the bus; the other nodes only acknowledge *)
(* what comes at their speed.                                               *)
Transmit ==
  /\ buffer # Empty /\ ~reset /\ AtSpeed
  /\ buffer' = Empty
  /\ sent' = IF buffer.of = "lvs" THEN buffer ELSE sent
  /\ UNCHANGED <<reset, btr0, btr1, driver, pc, setup, cycle, published, mutex, sending>>

----------------------------------------------------------------------------
(* The polling thread. *)

AwaitSync ==
  /\ pc["polling"] = "sync"
  /\ Goto("polling", IF Released("polling") THEN "put" ELSE "receive")
  /\ UNCHANGED <<driver, controller, setup, cycle, published, mutex, sending, sent>>

PutSync ==
  /\ pc["polling"] = "put"
  /\ buffer' \in Accepted(SyncFrame)
  /\ Goto("polling", "receive")
  /\ UNCHANGED <<driver, reset, btr0, btr1, setup, cycle, published, mutex, sending, sent>>

ReceiveAll ==
  /\ pc["polling"] = "receive"
  /\ complete' \in {FALSE} \cup {"can1" \in opened /\ InstallRef /\ ~reset /\ AtSpeed}
  /\ Goto("polling", "clear")
  /\ UNCHANGED <<driver, controller, setup, miss_counter, published, mutex, sending, sent>>

(* CanClearTxBuffer aborts whatever is in the transmit buffer. *)
ClearBuffers ==
  /\ pc["polling"] = "clear"
  /\ buffer' = IF "can1" \in opened /\ InstallRef THEN Empty ELSE buffer
  /\ Goto("polling", "account")
  /\ UNCHANGED <<driver, reset, btr0, btr1, setup, cycle, published, mutex, sending, sent>>

MissesAfter == IF miss_counter + 1 = 2 THEN 0 ELSE miss_counter + 1

Account ==
  /\ pc["polling"] = "account"
  /\ mutex = "nobody"
  /\ miss_counter' = IF complete THEN miss_counter ELSE MissesAfter
  /\ Goto("polling", IF ~complete /\ miss_counter = 1 THEN "close" ELSE "sync")
  /\ UNCHANGED <<driver, controller, setup, complete, published, mutex, sending, sent>>

CloseDriver ==
  /\ pc["polling"] = "close"
  /\ IF "can1" \in opened /\ InstallRef
       THEN InstallRef' = FALSE /\ Goto("polling", "shut")
       ELSE UNCHANGED InstallRef /\ Goto("polling", "install")
  /\ overlapped' = OtherBusy("polling")
  /\ UNCHANGED <<initFlag, absent, controller, baudrate, opened, cycle, published,
                 mutex, sending, sent>>

(* The driver in the kernel puts the controller into reset mode. *)
ClosePort ==
  /\ pc["polling"] = "shut"
  /\ reset' = TRUE
  /\ buffer' = Empty
  /\ Goto("polling", "install")
  /\ UNCHANGED <<driver, btr0, btr1, setup, cycle, published, mutex, sending, sent>>

polling ==
  \/ init("polling") \/ AwaitSync \/ PutSync \/ ReceiveAll \/ ClearBuffers
  \/ Account \/ CloseDriver \/ ClosePort

----------------------------------------------------------------------------
(* The transmitting thread: txCicle, every 100 ms once the constructor has  *)
(* returned, with dataMutex from its first step to its last.                *)

\* mutant: dataMutex is not waited for
LockFree == pc["lvs"] = "idle"
LockTaken == pc["lvs"] = "idle" /\ mutex = "nobody"

StartTransmission ==
  /\ LockTaken
  /\ pc["main"] \in {"idle", "tick"}
  /\ round < MaxRounds
  /\ round' = round + 1
  /\ index' = 1
  /\ mutex' = "lvs"
  /\ Goto("lvs", "frame")
  /\ UNCHANGED <<driver, controller, setup, cycle, published, faults, sent>>

(* Write has returned 0. *)
NextFrame ==
  IF index < Frames THEN index' = index + 1 /\ Goto("lvs", "frame")
                    ELSE UNCHANGED index /\ Goto("lvs", "unlock")

AwaitFrame ==
  /\ pc["lvs"] = "frame"
  /\ IF Released("lvs") THEN UNCHANGED index /\ Goto("lvs", "put") ELSE NextFrame
  /\ UNCHANGED <<driver, controller, setup, cycle, published, mutex, round, faults, sent>>

PutFrame ==
  /\ pc["lvs"] = "put"
  /\ buffer' \in Accepted([of |-> "lvs", round |-> round, index |-> index,
                           tick |-> dataToSend[index]])
  /\ NextFrame
  /\ UNCHANGED <<driver, reset, btr0, btr1, setup, cycle, published, mutex, round, faults, sent>>

(* SET_BUFFER_DATA reports a failure: init, and the transmission ends. *)
RefuseFrame ==
  /\ pc["lvs"] = "put"
  /\ faults < MaxFaults
  /\ faults' = faults + 1
  /\ overlapped' = OtherBusy("lvs")
  /\ Goto("lvs", "install")
  /\ UNCHANGED <<driver, controller, baudrate, opened, cycle, published, mutex, round, index, sent>>

EndTransmission ==
  /\ pc["lvs"] = "unlock"
  /\ mutex' = "nobody"
  /\ Goto("lvs", "idle")
  /\ UNCHANGED <<driver, controller, setup, cycle, published, sending, sent>>

txCicle ==
  \/ init("lvs") \/ StartTransmission \/ AwaitFrame \/ PutFrame \/ RefuseFrame
  \/ EndTransmission

----------------------------------------------------------------------------
(* The main thread: proceedData rewrites dataToSend with dataMutex held.    *)
StartTick ==
  /\ pc["main"] = "idle"
  /\ mutex = "nobody"
  /\ ticks < MaxTicks
  /\ mutex' = "main"
  /\ ticks' = ticks + 1
  /\ dataToSend' = [dataToSend EXCEPT ![1] = ticks + 1]
  /\ Goto("main", "tick")
  /\ UNCHANGED <<driver, controller, setup, cycle, sending, sent>>

EndTick ==
  /\ pc["main"] = "tick"
  /\ mutex' = "nobody"
  /\ dataToSend' = [c \in 1 .. Frames |-> ticks]
  /\ Goto("main", "idle")
  /\ UNCHANGED <<driver, controller, setup, cycle, ticks, sending, sent>>

main == init("main") \/ StartTick \/ EndTick

Next == polling \/ txCicle \/ main \/ Transmit

Spec == Init /\ [][Next]_vars

(* Every wait of the driver is bounded and the mutex is held by threads     *)
(* that run; the bus may take its time.                                     *)
FairSpec == Spec /\ WF_vars(polling) /\ WF_vars(txCicle) /\ WF_vars(main)

----------------------------------------------------------------------------
(* Every variable has its type. *)
Labels(t) ==
  Configuring \cup {"install"} \cup
  CASE t = "polling" -> {"sync", "put", "receive", "clear", "account", "close", "shut"}
    [] t = "lvs"     -> {"idle", "frame", "put", "unlock"}
    [] t = "main"    -> {"idle", "tick"}
PcOK ==
  /\ pc \in [Threads -> UNION {Labels(t) : t \in Threads}]
  /\ \A t \in Threads : pc[t] \in Labels(t)
LvsFrame == [of : {"lvs"}, round : Nat, index : 1 .. Frames, tick : Nat]
TypeOK ==
  /\ initFlag \in BOOLEAN /\ InstallRef \in BOOLEAN /\ reset \in BOOLEAN
  /\ absent \in 0 .. MaxAbsent
  /\ btr0 \in Bauds /\ btr1 \in Bauds
  /\ buffer \in {Empty, SyncFrame} \cup LvsFrame
  /\ PcOK
  /\ baudrate \in [Threads -> {Opening, Speed}]
  /\ opened \subseteq Objects
  /\ overlapped \in BOOLEAN /\ complete \in BOOLEAN
  /\ miss_counter \in {0, 1}
  /\ dataToSend \in [1 .. Frames -> 0 .. MaxTicks] /\ ticks \in 0 .. MaxTicks
  /\ mutex \in {"nobody", "lvs", "main"}
  /\ round \in 0 .. MaxRounds /\ index \in 1 .. Frames /\ faults \in 0 .. MaxFaults
  /\ sent \in {Empty} \cup LvsFrame

(* However the configurations of the threads interleave, once none of them  *)
(* is at it the port is open and out of reset mode.  The speed is that of   *)
(* the bus, unless configurations have overlapped: a thread that leaves     *)
(* reset mode can make the controller ignore what another one writes, and   *)
(* the port stays at 125 kBps or at a mixture of both speeds.               *)
LeftRunning ==
  initFlag /\ ~(\E t \in Threads : Busy(t)) =>
    /\ InstallRef /\ ~reset
    /\ overlapped \/ AtSpeed

(* The frames of one transmission that go out carry values of one tick, in  *)
(* the order of the channels and each at most once, whatever is lost,       *)
(* aborted or broken off; none is overtaken by a later transmission.        *)
SentOneTick ==
  [][sent' # sent =>
       \/ sent'.round > sent.round
       \/ /\ sent'.round = sent.round
          /\ sent'.tick = sent.tick
          /\ sent'.index > sent.index]_vars

(* A port at the wrong speed, or none, does not last: incomplete cycles     *)
(* make the polling thread reopen it until it works.                        *)
PortRecovers == []<>("can1" \in opened /\ InstallRef /\ ~reset /\ AtSpeed)
=============================================================================
