-------------------------- MODULE SharedPort_proofs --------------------------
(***************************************************************************)
(* Theorems about SharedPort, for every number of frames and all bounds.    *)
(*                                                                         *)
(* The argument.  A controller in reset mode on an open port is in the      *)
(* hands of a thread that has not finished, and a closed one in those of    *)
(* the polling thread (Port).  A thread that configures alone finds reset   *)
(* mode in force until it leaves it, so its writes all count (Alone).  The  *)
(* mutex keeps the tick of a transmission (Lock), and each frame that is    *)
(* written follows the one in the buffer and the last one sent (Order).     *)
(***************************************************************************)
EXTENDS SharedPort, TLAPS

(* The steps that are not part of opening the port. *)
Ordinary ==
  \/ AwaitSync \/ PutSync \/ ReceiveAll \/ ClearBuffers \/ Account
  \/ StartTransmission \/ AwaitFrame \/ PutFrame \/ EndTransmission
  \/ StartTick \/ EndTick \/ Transmit

LEMMA NextCases ==
  Next <=> \/ Ordinary
           \/ CloseDriver \/ ClosePort \/ RefuseFrame
           \/ \E t \in Threads : init(t)
BY DEF Next, Ordinary, polling, txCicle, main, Threads

LEMMA GotoTyped ==
  ASSUME PcOK, NEW t \in Threads, NEW label \in Labels(t), Goto(t, label)
  PROVE  PcOK'
<1>1. label \in UNION {Labels(u) : u \in Threads}
  OBVIOUS
<1>. QED BY <1>1 DEF PcOK, Goto

LEMMA ThreadLabels ==
  /\ {"sync", "put", "receive", "clear", "account", "close", "shut"} \subseteq Labels("polling")
  /\ {"idle", "frame", "put", "unlock"} \subseteq Labels("lvs")
  /\ {"idle", "tick"} \subseteq Labels("main")
  /\ {"polling", "lvs", "main"} = Threads
BY DEF Labels, Threads

LEMMA InitLabels ==
  ASSUME NEW t \in Threads
  PROVE  /\ Configuring \cup {"install"} \subseteq Labels(t)
         /\ AfterInit(t) \in Labels(t)
BY DEF Labels, AfterInit, Threads

----------------------------------------------------------------------------
LEMMA TypeInit == Init => TypeOK
<1>. SUFFICES ASSUME Init PROVE TypeOK
  OBVIOUS
<1>1. \A t \in Threads : pc[t] \in Labels(t)
  BY DEF Init, Labels, Threads
<1>2. pc \in [Threads -> UNION {Labels(t) : t \in Threads}]
  <2>. DEFINE All == UNION {Labels(t) : t \in Threads}
  <2>1. \A t \in Threads : pc[t] \in All
    BY <1>1
  <2>2. pc = [t \in Threads |-> CASE t = "polling" -> "sync"
                                  [] t = "lvs"     -> "idle"
                                  [] t = "main"    -> "install"]
    BY DEF Init
  <2>. HIDE DEF All
  <2>3. pc \in [Threads -> All]
    BY <2>1, <2>2
  <2>. QED BY <2>3 DEF All
<1>3. PcOK BY <1>1, <1>2 DEF PcOK
<1>4. baudrate \in [Threads -> {Opening, Speed}]
  BY DEF Init
<1>5. dataToSend \in [1 .. Frames -> 0 .. MaxTicks]
  BY BoundsAssumption DEF Init
<1>6. opened \subseteq Objects
  BY DEF Init, Objects
<1>7. btr0 \in Bauds /\ btr1 \in Bauds
  BY DEF Init, Bauds, Speed
<1>8. initFlag \in BOOLEAN /\ InstallRef \in BOOLEAN /\ reset \in BOOLEAN
  BY DEF Init
<1>9. /\ absent \in 0 .. MaxAbsent /\ ticks \in 0 .. MaxTicks
      /\ round \in 0 .. MaxRounds /\ index \in 1 .. Frames /\ faults \in 0 .. MaxFaults
  BY BoundsAssumption DEF Init
<1>10. /\ overlapped \in BOOLEAN /\ complete \in BOOLEAN /\ miss_counter \in {0, 1}
       /\ mutex \in {"nobody", "lvs", "main"}
       /\ buffer \in {Empty, SyncFrame} \cup LvsFrame /\ sent \in {Empty} \cup LvsFrame
  BY DEF Init
<1>. QED
  BY <1>3, <1>4, <1>5, <1>6, <1>7, <1>8, <1>9, <1>10 DEF TypeOK

(* What the end of a configuration does to the thread and its object. *)
LEMMA ConfigEndsTyped ==
  ASSUME TypeOK, NEW t \in Threads, ConfigEnds(t)
  PROVE  /\ PcOK'
         /\ baudrate' \in [Threads -> {Opening, Speed}]
         /\ opened' \subseteq Objects
<1>1. PcOK BY DEF TypeOK
<1>2. CASE baudrate[t] = Opening
  <2>1. PcOK' BY <1>1, <1>2, InitLabels, GotoTyped DEF ConfigEnds, Configuring
  <2>. QED BY <1>2, <2>1 DEF ConfigEnds, TypeOK, Object, Objects
<1>3. CASE baudrate[t] # Opening
  <2>1. PcOK' BY <1>1, <1>3, InitLabels, GotoTyped DEF ConfigEnds
  <2>. QED BY <1>3, <2>1 DEF ConfigEnds, TypeOK
<1>. QED BY <1>2, <1>3

LEMMA TypeOfInit ==
  ASSUME TypeOK, NEW t \in Threads, init(t) PROVE TypeOK'
<1>0. PcOK BY DEF TypeOK
<1>1. CASE InstallFails(t)
  <2>1. PcOK' BY <1>0, <1>1, InitLabels, GotoTyped DEF InstallFails
  <2>. QED
    BY <1>1, <2>1, BoundsAssumption DEF InstallFails, CardReady, TypeOK, controller, published, cycle, sending
<1>2. CASE Open(t)
  <2>1. PcOK' BY <1>0, <1>2, InitLabels, GotoTyped DEF Open, Configuring
  <2>. QED BY <1>2, <2>1 DEF Open, TypeOK, controller, published, cycle, sending
<1>3. CASE EnterReset(t) \/ ConfirmReset(t) \/ LeaveReset(t)
  <2>1. /\ reset' \in BOOLEAN
        /\ buffer' \in {buffer, Empty}
        /\ \/ ConfigEnds(t)
           \/ Goto(t, "confirm") /\ UNCHANGED <<baudrate, opened>>
           \/ Goto(t, "btr0") /\ UNCHANGED <<baudrate, opened>>
    BY <1>3 DEF EnterReset, ConfirmReset, LeaveReset, TypeOK, controller
  <2>2. /\ PcOK'
        /\ baudrate' \in [Threads -> {Opening, Speed}]
        /\ opened' \subseteq Objects
    <3>1. CASE ConfigEnds(t) BY <3>1, ConfigEndsTyped
    <3>2. CASE UNCHANGED <<baudrate, opened>> /\ Goto(t, "confirm")
      BY <1>0, <3>2, InitLabels, GotoTyped DEF Configuring, TypeOK
    <3>3. CASE UNCHANGED <<baudrate, opened>> /\ Goto(t, "btr0")
      BY <1>0, <3>3, InitLabels, GotoTyped DEF Configuring, TypeOK
    <3>. QED BY <2>1, <3>1, <3>2, <3>3
  <2>3. UNCHANGED <<btr0, btr1, others>>
    BY <1>3 DEF EnterReset, ConfirmReset, LeaveReset, controller
  <2>. QED
    BY <2>1, <2>2, <2>3 DEF TypeOK, others, driver, cycle, published, sending
<1>4. CASE WriteBTR0(t) \/ WriteBTR1(t)
  <2>1. PcOK' BY <1>0, <1>4, InitLabels, GotoTyped DEF WriteBTR0, WriteBTR1, Configuring
  <2>2. btr0' \in Bauds /\ btr1' \in Bauds
    BY <1>4 DEF WriteBTR0, WriteBTR1, Timing, Bauds, TypeOK
  <2>. QED
    BY <1>4, <2>1, <2>2 DEF WriteBTR0, WriteBTR1, TypeOK, others, driver, cycle, published, sending
<1>. QED BY <1>1, <1>2, <1>3, <1>4 DEF init

(* Where the ordinary steps and the other steps of the threads lead. *)
LEMMA TypeOfLabels ==
  ASSUME PcOK, Ordinary \/ CloseDriver \/ ClosePort \/ RefuseFrame
  PROVE  PcOK'
<1>1. CASE AwaitSync BY <1>1, ThreadLabels, GotoTyped DEF AwaitSync
<1>2. CASE PutSync BY <1>2, ThreadLabels, GotoTyped DEF PutSync
<1>3. CASE ReceiveAll BY <1>3, ThreadLabels, GotoTyped DEF ReceiveAll
<1>4. CASE ClearBuffers BY <1>4, ThreadLabels, GotoTyped DEF ClearBuffers
<1>5. CASE Account BY <1>5, ThreadLabels, GotoTyped DEF Account
<1>6. CASE CloseDriver BY <1>6, ThreadLabels, InitLabels, GotoTyped DEF CloseDriver
<1>7. CASE ClosePort BY <1>7, ThreadLabels, InitLabels, GotoTyped DEF ClosePort
<1>8. CASE StartTransmission BY <1>8, ThreadLabels, GotoTyped DEF StartTransmission
<1>9. CASE AwaitFrame BY <1>9, ThreadLabels, GotoTyped DEF AwaitFrame, NextFrame
<1>10. CASE PutFrame BY <1>10, ThreadLabels, GotoTyped DEF PutFrame, NextFrame
<1>11. CASE RefuseFrame BY <1>11, ThreadLabels, InitLabels, GotoTyped DEF RefuseFrame
<1>12. CASE EndTransmission BY <1>12, ThreadLabels, GotoTyped DEF EndTransmission
<1>13. CASE StartTick BY <1>13, ThreadLabels, GotoTyped DEF StartTick
<1>14. CASE EndTick BY <1>14, ThreadLabels, GotoTyped DEF EndTick
<1>15. CASE Transmit BY <1>15 DEF Transmit, PcOK
<1>. QED
  BY <1>1, <1>2, <1>3, <1>4, <1>5, <1>6, <1>7, <1>8, <1>9, <1>10, <1>11, <1>12, <1>13,
     <1>14, <1>15 DEF Ordinary

LEMMA TypeStep == TypeOK /\ [Next]_vars => TypeOK'
<1>. SUFFICES ASSUME TypeOK, [Next]_vars PROVE TypeOK'
  OBVIOUS
<1>16. CASE \E t \in Threads : init(t) BY <1>16, TypeOfInit
<1>17. CASE UNCHANGED vars BY <1>17 DEF vars, TypeOK, PcOK
<1>18. CASE Ordinary \/ CloseDriver \/ ClosePort \/ RefuseFrame
  <2>0. PcOK' BY <1>18, TypeOfLabels DEF TypeOK
  <2>. USE DEF TypeOK, controller, driver, setup, cycle, sending, published
  <2>1. CASE AwaitSync BY <2>0, <2>1 DEF AwaitSync
  <2>2. CASE PutSync BY <2>0, <2>2 DEF PutSync, Accepted
  <2>3. CASE ReceiveAll BY <2>0, <2>3 DEF ReceiveAll, AtSpeed
  <2>4. CASE ClearBuffers BY <2>0, <2>4 DEF ClearBuffers
  <2>5. CASE Account BY <2>0, <2>5 DEF Account, MissesAfter
  <2>6. CASE CloseDriver BY <2>0, <2>6 DEF CloseDriver, OtherBusy
  <2>7. CASE ClosePort BY <2>0, <2>7 DEF ClosePort
  <2>8. CASE StartTransmission
    BY <2>0, <2>8, BoundsAssumption DEF StartTransmission
  <2>9. CASE AwaitFrame BY <2>0, <2>9, BoundsAssumption DEF AwaitFrame, NextFrame
  <2>10. CASE PutFrame
    <3>1. [of |-> "lvs", round |-> round, index |-> index, tick |-> dataToSend[index]] \in LvsFrame
      BY BoundsAssumption DEF LvsFrame
    <3>2. buffer' \in {Empty, SyncFrame} \cup LvsFrame
      BY <2>10, <3>1 DEF PutFrame, Accepted
    <3>3. index' \in 1 .. Frames
      BY <2>10, BoundsAssumption DEF PutFrame, NextFrame
    <3>. QED BY <2>0, <2>10, <3>2, <3>3 DEF PutFrame
  <2>11. CASE RefuseFrame BY <2>0, <2>11, BoundsAssumption DEF RefuseFrame, OtherBusy
  <2>12. CASE EndTransmission BY <2>0, <2>12 DEF EndTransmission
  <2>13. CASE StartTick BY <2>0, <2>13, BoundsAssumption DEF StartTick
  <2>14. CASE EndTick BY <2>0, <2>14 DEF EndTick
  <2>15. CASE Transmit
    <3>1. sent' \in {Empty} \cup LvsFrame
      BY <2>15 DEF Transmit, Empty, SyncFrame
    <3>. QED BY <2>0, <2>15, <3>1 DEF Transmit
  <2>. QED
    BY <1>18, <2>1, <2>2, <2>3, <2>4, <2>5, <2>6, <2>7, <2>8, <2>9, <2>10, <2>11, <2>12,
       <2>13, <2>14, <2>15 DEF Ordinary
<1>. QED BY <1>16, <1>17, <1>18, NextCases

(* Every variable keeps its type. *)
THEOREM TypeCorrect == Spec => []TypeOK
BY TypeInit, TypeStep, PTL DEF Spec

----------------------------------------------------------------------------
(* A port that is in reset mode is in the hands of a thread; a closed one   *)
(* in those of the polling thread.                                          *)
Port ==
  /\ reset /\ InstallRef => \E t \in Threads : Busy(t)
  /\ initFlag /\ ~InstallRef => Busy("polling") /\ pc["polling"] \notin Configuring
  /\ InstallRef => initFlag

(* While configurations have not overlapped there is at most one, and what  *)
(* it has done so far holds.                                                *)
Alone ==
  ~overlapped =>
    /\ \A t, u \in Threads : Busy(t) /\ Busy(u) => t = u
    /\ \A t \in Threads :
         /\ pc[t] \in Configuring => InstallRef
         /\ pc[t] \in Configuring \ {"enter"} => reset
         /\ baudrate[t] = Speed /\ pc[t] = "btr1" => btr0 = Speed
         /\ baudrate[t] = Speed /\ pc[t] = "leave" => AtSpeed
    /\ initFlag /\ ~(\E t \in Threads : Busy(t)) => AtSpeed

PortInv == TypeOK /\ Port /\ Alone

LEMMA PortInit == Init => Port /\ Alone
<1>. SUFFICES ASSUME Init PROVE Port /\ Alone
  OBVIOUS
<1>1. /\ pc["polling"] = "sync" /\ pc["lvs"] = "idle" /\ pc["main"] = "install"
  BY DEF Init, Threads
<1>2. \A t \in Threads : Busy(t) => t = "main"
  BY <1>1 DEF Busy, Configuring, Threads
<1>3. \A t \in Threads : pc[t] \notin Configuring /\ Busy("main")
  BY <1>1 DEF Busy, Configuring, Threads
<1>4. "main" \in Threads
  BY DEF Threads
<1>5. Alone
  BY <1>2, <1>3, <1>4 DEF Alone, Configuring
<1>6. Port
  BY <1>3, <1>4 DEF Port, Init
<1>. QED BY <1>5, <1>6

(* The steps that move a thread from one label outside the opening of the   *)
(* port to another, or none, and leave the registers alone.                 *)
LEMMA OrdinaryIsQuiet ==
  ASSUME PcOK, Ordinary \/ UNCHANGED vars
  PROVE  /\ UNCHANGED <<initFlag, InstallRef, reset, btr0, btr1, baudrate, overlapped>>
         /\ \A t \in Threads : /\ Busy(t)' <=> Busy(t)
                               /\ Busy(t) => pc'[t] = pc[t]
<1>. DEFINE Quiet(t, a, b) == /\ t \in Threads /\ pc[t] = a /\ Goto(t, b)
                              /\ {a, b} \cap (Configuring \cup {"shut", "install"}) = {}
<1>1. UNCHANGED <<initFlag, InstallRef, reset, btr0, btr1, baudrate, overlapped>>
  BY DEF Ordinary, AwaitSync, PutSync, ReceiveAll, ClearBuffers, Account, StartTransmission,
     AwaitFrame, PutFrame, EndTransmission, StartTick, EndTick, Transmit, vars,
     driver, controller, setup
<1>2. ASSUME NEW t, NEW a, NEW b, Quiet(t, a, b)
      PROVE  \A u \in Threads : /\ Busy(u)' <=> Busy(u)
                                /\ Busy(u) => pc'[u] = pc[u]
  BY <1>2 DEF Goto, Busy, PcOK
<1>3. (\E t, a, b : Quiet(t, a, b)) \/ UNCHANGED pc
  <2>. USE DEF Configuring
  <2>0. {"polling", "lvs", "main"} = Threads BY ThreadLabels
  <2>1. CASE AwaitSync
    <3>1. Quiet("polling", "sync", "put") \/ Quiet("polling", "sync", "receive")
      BY <2>0, <2>1 DEF AwaitSync
    <3>. QED BY <3>1
  <2>2. CASE PutSync
    <3>1. Quiet("polling", "put", "receive") BY <2>0, <2>2 DEF PutSync
    <3>. QED BY <3>1
  <2>3. CASE ReceiveAll
    <3>1. Quiet("polling", "receive", "clear") BY <2>0, <2>3 DEF ReceiveAll
    <3>. QED BY <3>1
  <2>4. CASE ClearBuffers
    <3>1. Quiet("polling", "clear", "account") BY <2>0, <2>4 DEF ClearBuffers
    <3>. QED BY <3>1
  <2>5. CASE Account
    <3>1. Quiet("polling", "account", "close") \/ Quiet("polling", "account", "sync")
      BY <2>0, <2>5 DEF Account
    <3>. QED BY <3>1
  <2>6. CASE StartTransmission
    <3>1. Quiet("lvs", "idle", "frame") BY <2>0, <2>6 DEF StartTransmission, LockTaken
    <3>. QED BY <3>1
  <2>7. CASE AwaitFrame
    <3>1. \/ Quiet("lvs", "frame", "put") \/ Quiet("lvs", "frame", "frame")
          \/ Quiet("lvs", "frame", "unlock")
      BY <2>0, <2>7 DEF AwaitFrame, NextFrame
    <3>. QED BY <3>1
  <2>8. CASE PutFrame
    <3>1. Quiet("lvs", "put", "frame") \/ Quiet("lvs", "put", "unlock")
      BY <2>0, <2>8 DEF PutFrame, NextFrame
    <3>. QED BY <3>1
  <2>9. CASE EndTransmission
    <3>1. Quiet("lvs", "unlock", "idle") BY <2>0, <2>9 DEF EndTransmission
    <3>. QED BY <3>1
  <2>10. CASE StartTick
    <3>1. Quiet("main", "idle", "tick") BY <2>0, <2>10 DEF StartTick
    <3>. QED BY <3>1
  <2>11. CASE EndTick
    <3>1. Quiet("main", "tick", "idle") BY <2>0, <2>11 DEF EndTick
    <3>. QED BY <3>1
  <2>12. CASE Transmit \/ UNCHANGED vars BY <2>12 DEF Transmit, vars
  <2>. QED
    BY <2>1, <2>2, <2>3, <2>4, <2>5, <2>6, <2>7, <2>8, <2>9, <2>10, <2>11, <2>12 DEF Ordinary
<1>4. CASE UNCHANGED pc BY <1>1, <1>4 DEF Busy
<1>5. CASE \E t, a, b : Quiet(t, a, b)
  <2>1. PICK t, a, b : Quiet(t, a, b) BY <1>5
  <2>. QED BY <1>1, <1>2, <2>1
<1>. QED BY <1>1, <1>3, <1>4, <1>5

LEMMA QuietKeepsPort ==
  ASSUME PortInv, Ordinary \/ UNCHANGED vars PROVE Port' /\ Alone'
<1>1. /\ UNCHANGED <<initFlag, InstallRef, reset, btr0, btr1, baudrate, overlapped>>
      /\ \A t \in Threads : /\ Busy(t)' <=> Busy(t)
                            /\ Busy(t) => pc'[t] = pc[t]
  BY OrdinaryIsQuiet DEF PortInv, TypeOK
<1>2. "polling" \in Threads BY ThreadLabels
<1>3. \A t \in Threads : /\ pc[t] \in Configuring => Busy(t)
                         /\ pc'[t] \in Configuring => Busy(t)'
  BY DEF Busy
<1>4. AtSpeed' <=> AtSpeed BY <1>1 DEF AtSpeed
<1>5. Port' BY <1>1, <1>2 DEF Port, PortInv
<1>6. Alone'
  BY <1>1, <1>3, <1>4 DEF Alone, PortInv, Configuring
<1>. QED BY <1>5, <1>6

(* A thread begins to open the port. *)
LEMMA BeginKeepsPort ==
  ASSUME PortInv, CloseDriver \/ RefuseFrame PROVE Port' /\ Alone'
<1>0. PcOK BY DEF PortInv, TypeOK
<1>1. PICK t \in Threads, label \in {"shut", "install"} :
        /\ ~Busy(t) /\ Goto(t, label)
        /\ overlapped' = OtherBusy(t)
        /\ UNCHANGED <<initFlag, reset, btr0, btr1, baudrate>>
        /\ InstallRef' = InstallRef \/ (t = "polling" /\ InstallRef' = FALSE)
  BY ThreadLabels DEF CloseDriver, RefuseFrame, Busy, Configuring, controller, driver
<1>2. pc'[t] = label /\ \A u \in Threads \ {t} : pc'[u] = pc[u]
  BY <1>0, <1>1 DEF Goto, PcOK
<1>3. Busy(t)' /\ \A u \in Threads \ {t} : Busy(u)' <=> Busy(u)
  BY <1>1, <1>2 DEF Busy
<1>4. pc'[t] \notin Configuring
  BY <1>1, <1>2 DEF Configuring
<1>5. Port'
  <2>1. \E u \in Threads : Busy(u)'
    BY <1>3
  <2>2. InstallRef' => initFlag'
    BY <1>1 DEF PortInv, Port
  <2>3. ASSUME initFlag', ~InstallRef'
        PROVE  Busy("polling")' /\ pc'["polling"] \notin Configuring
    <3>1. CASE t = "polling" BY <1>3, <1>4, <3>1
    <3>2. CASE t # "polling"
      <4>1. Busy("polling") /\ pc["polling"] \notin Configuring
        BY <1>1, <2>3, <3>2 DEF PortInv, Port
      <4>. QED BY <1>2, <1>3, <3>2, <4>1, ThreadLabels
    <3>. QED BY <3>1, <3>2
  <2>. QED BY <2>1, <2>2, <2>3 DEF Port
<1>6. Alone'
  <2>. SUFFICES ASSUME ~overlapped' PROVE Alone'
    BY DEF Alone
  <2>1. \A u \in Threads \ {t} : ~Busy(u)'
    BY <1>1, <1>3 DEF OtherBusy
  <2>2. \A u \in Threads : pc'[u] \notin Configuring
    BY <1>4, <2>1 DEF Busy
  <2>. QED BY <1>3, <2>1, <2>2 DEF Alone, Configuring
<1>. QED BY <1>5, <1>6

LEMMA ShutKeepsPort ==
  ASSUME PortInv, ClosePort PROVE Port' /\ Alone'
<1>0. PcOK BY DEF PortInv, TypeOK
<1>1. /\ pc["polling"] = "shut"
      /\ pc'["polling"] = "install" /\ \A u \in Threads \ {"polling"} : pc'[u] = pc[u]
      /\ UNCHANGED <<initFlag, InstallRef, btr0, btr1, baudrate, overlapped>>
  BY <1>0, ThreadLabels DEF ClosePort, Goto, PcOK, driver, setup
<1>2. \A t \in Threads : Busy(t)' <=> Busy(t)
  BY <1>1 DEF Busy
<1>3. Busy("polling")' /\ pc'["polling"] \notin Configuring
  BY <1>1 DEF Busy, Configuring
<1>4. Port' BY <1>1, <1>3, ThreadLabels DEF Port, PortInv
<1>5. Alone'
  <2>. SUFFICES ASSUME ~overlapped' PROVE Alone'
    BY DEF Alone
  <2>1. \A u \in Threads \ {"polling"} : ~Busy(u)'
    BY <1>1, <1>2, <1>3, ThreadLabels DEF PortInv, Alone
  <2>2. \A u \in Threads : pc'[u] \notin Configuring
    BY <1>3, <2>1 DEF Busy
  <2>. QED BY <1>3, <2>1, <2>2, ThreadLabels DEF Alone, Configuring
<1>. QED BY <1>4, <1>5

(* The end of a configuration that did what it should, or overlapped with   *)
(* another one.                                                             *)
LEMMA ConfigEndsKeepsPort ==
  ASSUME PortInv, NEW t \in Threads, pc[t] \in Configuring, ConfigEnds(t),
         UNCHANGED <<initFlag, InstallRef, btr0, btr1, overlapped>>,
         InstallRef => ~reset',
         ~overlapped => pc[t] = "leave"
  PROVE  Port' /\ Alone'
<1>0. PcOK BY DEF PortInv, TypeOK
<1>1. /\ pc'[t] \in {"enter", AfterInit(t)}
      /\ \A u \in Threads \ {t} : pc'[u] = pc[u] /\ baudrate'[u] = baudrate[u]
      /\ pc'[t] # "enter" => baudrate[t] = Speed
  <2>1. t \in DOMAIN pc /\ DOMAIN pc = Threads BY <1>0 DEF PcOK
  <2>2. baudrate \in [Threads -> {Opening, Speed}] BY DEF PortInv, TypeOK
  <2>. QED BY <2>1, <2>2 DEF ConfigEnds, Goto
<1>2. AfterInit(t) \notin Configuring \cup {"install", "shut"}
  BY DEF AfterInit, Configuring, Threads
<1>3. Busy(t) BY DEF Busy
<1>4. \A u \in Threads \ {t} : Busy(u)' <=> Busy(u)
  BY <1>1 DEF Busy
<1>5. Port'
  <2>1. ASSUME initFlag', ~InstallRef'
        PROVE  Busy("polling")' /\ pc'["polling"] \notin Configuring
    <3>1. Busy("polling") /\ pc["polling"] \notin Configuring
      BY <2>1 DEF PortInv, Port
    <3>2. t # "polling" BY <3>1
    <3>. QED BY <1>1, <1>4, <3>1, <3>2, ThreadLabels
  <2>. QED BY <2>1 DEF Port, PortInv
<1>6. Alone'
  <2>. SUFFICES ASSUME ~overlapped' PROVE Alone'
    BY DEF Alone
  <2>1. /\ pc[t] = "leave" /\ InstallRef
        /\ baudrate[t] = Speed => AtSpeed
        /\ \A u \in Threads \ {t} : ~Busy(u)
    BY <1>3 DEF PortInv, Alone
  <2>2. \A u \in Threads \ {t} : ~Busy(u)' /\ pc'[u] \notin Configuring
    BY <1>4, <2>1 DEF Busy
  <2>3. AtSpeed' <=> AtSpeed BY DEF AtSpeed
  <2>4. CASE pc'[t] = "enter"
    <3>1. Busy(t)' BY <2>4 DEF Busy, Configuring
    <3>. QED BY <2>1, <2>2, <2>4, <3>1 DEF Alone, Configuring
  <2>5. CASE pc'[t] # "enter"
    <3>1. ~Busy(t)' /\ pc'[t] \notin Configuring BY <1>1, <1>2, <2>5 DEF Busy
    <3>2. AtSpeed' BY <1>1, <2>1, <2>3, <2>5
    <3>. QED BY <2>2, <3>1, <3>2 DEF Alone, Configuring
  <2>. QED BY <2>4, <2>5
<1>. QED BY <1>5, <1>6

(* A thread goes from one step of its configuration to the next. *)
LEMMA ConfigStepKeepsPort ==
  ASSUME PortInv, NEW t \in Threads, pc[t] \in Configuring,
         NEW label \in Configuring, Goto(t, label),
         UNCHANGED <<initFlag, InstallRef, baudrate, overlapped>>,
         ~overlapped =>
            /\ label # "enter" => reset'
            /\ baudrate[t] = Speed /\ label = "btr1" => btr0' = Speed
            /\ baudrate[t] = Speed /\ label = "leave" => AtSpeed'
  PROVE  Port' /\ Alone'
<1>0. PcOK BY DEF PortInv, TypeOK
<1>1. pc'[t] = label /\ \A u \in Threads \ {t} : pc'[u] = pc[u]
  BY <1>0 DEF Goto, PcOK
<1>2. Busy(t)' /\ Busy(t) BY <1>1 DEF Busy
<1>3. \A u \in Threads \ {t} : Busy(u)' <=> Busy(u)
  BY <1>1 DEF Busy
<1>4. Port'
  <2>1. ASSUME initFlag', ~InstallRef'
        PROVE  Busy("polling")' /\ pc'["polling"] \notin Configuring
    <3>1. Busy("polling") /\ pc["polling"] \notin Configuring
      BY <2>1 DEF PortInv, Port
    <3>2. t # "polling" BY <3>1
    <3>. QED BY <1>1, <1>3, <3>1, <3>2, ThreadLabels
  <2>. QED BY <1>2, <2>1 DEF Port, PortInv
<1>5. Alone'
  <2>. SUFFICES ASSUME ~overlapped' PROVE Alone'
    BY DEF Alone
  <2>1. InstallRef /\ \A u \in Threads \ {t} : ~Busy(u)'
    BY <1>2, <1>3 DEF PortInv, Alone
  <2>2. \A u \in Threads \ {t} : pc'[u] \notin Configuring
    BY <2>1 DEF Busy
  <2>. QED BY <1>1, <1>2, <2>1, <2>2 DEF Alone, Configuring
<1>. QED BY <1>4, <1>5

LEMMA OpeningKeepsPort ==
  ASSUME PortInv, NEW t \in Threads, init(t) PROVE Port' /\ Alone'
<1>. USE DEF Configuring
<1>0. PcOK BY DEF PortInv, TypeOK
<1>1. CASE InstallFails(t)
  <2>1. /\ UNCHANGED <<initFlag, InstallRef, reset, btr0, btr1, baudrate, overlapped>>
        /\ ~initFlag /\ ~InstallRef
    BY <1>1 DEF InstallFails, CardReady, controller, PortInv, Port
  <2>2. pc[t] = "install" /\ Busy(t) BY <1>1 DEF InstallFails, Busy
  <2>3. pc'[t] = AfterInit(t) /\ \A u \in Threads \ {t} : pc'[u] = pc[u]
    BY <1>0, <1>1 DEF InstallFails, Goto, PcOK
  <2>4. AfterInit(t) \notin Configuring \cup {"install", "shut"}
    BY DEF AfterInit, Threads
  <2>5. Port' BY <2>1 DEF Port
  <2>6. Alone'
    <3>. SUFFICES ASSUME ~overlapped' PROVE Alone'
      BY DEF Alone
    <3>1. \A u \in Threads : ~Busy(u)' /\ pc'[u] \notin Configuring
      BY <2>1, <2>2, <2>3, <2>4 DEF PortInv, Alone, Busy
    <3>. QED BY <2>1, <3>1 DEF Alone
  <2>. QED BY <2>5, <2>6
<1>2. CASE Open(t)
  <2>1. pc'[t] = "enter" /\ \A u \in Threads \ {t} : pc'[u] = pc[u]
    BY <1>0, <1>2 DEF Open, Goto, PcOK
  <2>2. Busy(t) /\ Busy(t)' BY <1>2, <2>1 DEF Open, Busy
  <2>3. /\ initFlag' /\ InstallRef'
        /\ UNCHANGED <<reset, overlapped>>
    BY <1>2 DEF Open, controller
  <2>4. Port' BY <2>2, <2>3 DEF Port
  <2>5. Alone'
    <3>. SUFFICES ASSUME ~overlapped' PROVE Alone'
      BY DEF Alone
    <3>1. \A u \in Threads \ {t} : ~Busy(u)' /\ pc'[u] \notin Configuring
      BY <2>1, <2>2, <2>3 DEF PortInv, Alone, Busy
    <3>. QED BY <2>1, <2>2, <2>3, <3>1 DEF Alone
  <2>. QED BY <2>4, <2>5
<1>3. CASE EnterReset(t)
  <2>0. UNCHANGED <<initFlag, InstallRef, btr0, btr1, overlapped>>
    BY <1>3 DEF EnterReset, others, driver
  <2>1. CASE InstallRef
    <3>1. reset' /\ Goto(t, "confirm") /\ UNCHANGED baudrate
      BY <1>3, <2>1 DEF EnterReset
    <3>. QED BY <1>3, <2>0, <3>1, ConfigStepKeepsPort DEF EnterReset
  <2>2. CASE ~InstallRef
    <3>1. ConfigEnds(t) /\ pc[t] \in Configuring
      BY <1>3, <2>2 DEF EnterReset
    <3>2. overlapped BY <2>2, <3>1 DEF PortInv, Alone, TypeOK
    <3>. QED BY <2>0, <2>2, <3>1, <3>2, ConfigEndsKeepsPort
  <2>. QED BY <2>1, <2>2
<1>4. CASE ConfirmReset(t)
  <2>0. UNCHANGED <<initFlag, InstallRef, reset, btr0, btr1, overlapped>>
    BY <1>4 DEF ConfirmReset, others, driver, controller
  <2>1. CASE InstallRef /\ reset
    <3>1. Goto(t, "btr0") /\ UNCHANGED baudrate
      BY <1>4, <2>1 DEF ConfirmReset
    <3>. QED BY <1>4, <2>0, <2>1, <3>1, ConfigStepKeepsPort DEF ConfirmReset
  <2>2. CASE ~(InstallRef /\ reset)
    <3>1. ConfigEnds(t) /\ pc[t] = "confirm"
      BY <1>4, <2>2 DEF ConfirmReset
    <3>2. overlapped BY <2>2, <3>1 DEF PortInv, Alone, TypeOK
    <3>. QED BY <2>0, <2>2, <3>1, <3>2, ConfigEndsKeepsPort
  <2>. QED BY <2>1, <2>2
<1>5. CASE WriteBTR0(t)
  <2>0. /\ UNCHANGED <<initFlag, InstallRef, reset, baudrate, overlapped>>
        /\ pc[t] = "btr0" /\ Goto(t, "btr1")
    BY <1>5 DEF WriteBTR0, others, driver
  <2>1. ~overlapped => reset /\ btr0' = baudrate[t]
    BY <1>5, <2>0 DEF WriteBTR0, Timing, PortInv, Alone
  <2>. QED BY <2>0, <2>1, ConfigStepKeepsPort
<1>6. CASE WriteBTR1(t)
  <2>0. /\ UNCHANGED <<initFlag, InstallRef, reset, btr0, baudrate, overlapped>>
        /\ pc[t] = "btr1" /\ Goto(t, "leave")
    BY <1>6 DEF WriteBTR1, others, driver
  <2>1. ~overlapped => reset /\ btr1' = baudrate[t] /\ (baudrate[t] = Speed => btr0 = Speed)
    BY <1>6, <2>0 DEF WriteBTR1, Timing, PortInv, Alone
  <2>2. ~overlapped /\ baudrate[t] = Speed => AtSpeed'
    BY <2>0, <2>1 DEF AtSpeed
  <2>. QED BY <2>0, <2>1, <2>2, ConfigStepKeepsPort
<1>7. CASE LeaveReset(t)
  <2>0. /\ UNCHANGED <<initFlag, InstallRef, btr0, btr1, overlapped>>
        /\ pc[t] = "leave" /\ ConfigEnds(t)
        /\ InstallRef => ~reset'
    BY <1>7 DEF LeaveReset, others, driver
  <2>. QED BY <2>0, ConfigEndsKeepsPort
<1>. QED BY <1>1, <1>2, <1>3, <1>4, <1>5, <1>6, <1>7 DEF init

LEMMA PortStep == PortInv /\ [Next]_vars => PortInv'
<1>. SUFFICES ASSUME PortInv, [Next]_vars PROVE PortInv'
  OBVIOUS
<1>1. TypeOK' BY TypeStep DEF PortInv
<1>2. Port' /\ Alone'
  BY NextCases, QuietKeepsPort, BeginKeepsPort, ShutKeepsPort, OpeningKeepsPort
<1>. QED BY <1>1, <1>2 DEF PortInv

(* When no thread is opening the port it is open, out of reset mode and, if *)
(* no configurations have overlapped, at the speed of the bus.              *)
THEOREM PortIsLeftRunning == Spec => []LeftRunning
<1>1. Init => PortInv BY TypeInit, PortInit DEF PortInv
<1>2. PortInv => LeftRunning
  <2>. SUFFICES ASSUME PortInv, initFlag, ~(\E t \in Threads : Busy(t))
                PROVE  InstallRef /\ ~reset /\ (overlapped \/ AtSpeed)
    BY DEF LeftRunning
  <2>1. InstallRef /\ ~reset BY ThreadLabels DEF PortInv, Port, TypeOK
  <2>2. overlapped \/ AtSpeed BY DEF PortInv, Alone, TypeOK
  <2>. QED BY <2>1, <2>2
<1>. QED BY <1>1, <1>2, PortStep, PTL DEF Spec

----------------------------------------------------------------------------
(* The mutex, and what its holders leave behind. *)
Lock ==
  /\ mutex = "lvs" <=> pc["lvs"] # "idle"
  /\ mutex = "main" <=> pc["main"] = "tick"
  /\ pc["main"] # "tick" => \A c \in 1 .. Frames : dataToSend[c] = ticks

(* Frame g goes out after frame f. *)
Follows(f, g) ==
  \/ g.round > f.round
  \/ g.round = f.round /\ g.tick = f.tick /\ g.index > f.index
(* The frame that txCicle is at follows f. *)
Due(f) ==
  \/ round > f.round
  \/ round = f.round /\ ticks = f.tick /\ index > f.index

Order ==
  /\ sent.round <= round
  /\ buffer.of = "lvs" => buffer.round <= round /\ Follows(sent, buffer)
  /\ pc["lvs"] \in {"frame", "put"} =>
       Due(sent) /\ (buffer.of = "lvs" => Due(buffer))

OrderInv == TypeOK /\ Lock /\ Order

LEMMA OrderInit == Init => Lock /\ Order
BY DEF Init, Lock, Order, Empty, Threads

LEMMA FrameFields ==
  ASSUME TypeOK
  PROVE  /\ sent.round \in Nat /\ sent.tick \in Nat /\ sent.index \in Nat
         /\ buffer.round \in Nat /\ buffer.tick \in Nat /\ buffer.index \in Nat
         /\ round \in Nat /\ ticks \in Nat /\ index \in Nat
<1>1. \A f \in {Empty, SyncFrame} \cup LvsFrame :
        f.round \in Nat /\ f.tick \in Nat /\ f.index \in Nat
  <2>1. \A f \in {Empty, SyncFrame} : f.round = 0 /\ f.tick = 0 /\ f.index = 0
    BY DEF Empty, SyncFrame
  <2>2. \A f \in LvsFrame : f.round \in Nat /\ f.tick \in Nat /\ f.index \in Nat
    BY BoundsAssumption DEF LvsFrame
  <2>. QED BY <2>1, <2>2
<1>2. sent \in {Empty, SyncFrame} \cup LvsFrame /\ buffer \in {Empty, SyncFrame} \cup LvsFrame
  BY DEF TypeOK
<1>3. round \in Nat /\ ticks \in Nat /\ index \in Nat
  BY BoundsAssumption DEF TypeOK
<1>. QED BY <1>1, <1>2, <1>3

(* A step of the polling thread, of the bus or of the opening of the port   *)
(* empties the buffer or puts a sync frame there.                           *)
LEMMA OthersKeepOrder ==
  ASSUME OrderInv,
         UNCHANGED <<mutex, dataToSend, ticks, round, index, sent>>,
         buffer' = buffer \/ buffer'.of # "lvs",
         pc'["lvs"] # pc["lvs"] =>
            pc'["lvs"] \notin {"idle", "frame", "put"} /\ pc["lvs"] # "idle",
         pc'["main"] = "tick" <=> pc["main"] = "tick"
  PROVE  Lock' /\ Order'
BY DEF OrderInv, Lock, Order, Follows, Due

LEMMA InitStepKeepsOrder ==
  ASSUME OrderInv, NEW t \in Threads, init(t) PROVE Lock' /\ Order'
<1>0. PcOK BY DEF OrderInv, TypeOK
<1>1. UNCHANGED <<mutex, dataToSend, ticks, round, index, sent>>
  BY DEF init, InstallFails, Open, EnterReset, ConfirmReset, WriteBTR0, WriteBTR1, LeaveReset,
     others, published, sending
<1>2. buffer' \in {buffer, Empty}
  BY DEF init, InstallFails, Open, EnterReset, ConfirmReset, WriteBTR0, WriteBTR1, LeaveReset,
     controller
<1>3. /\ pc[t] \in Configuring \cup {"install"}
      /\ \E label \in Configuring \cup {AfterInit(t)} : Goto(t, label)
  BY DEF init, InstallFails, Open, EnterReset, ConfirmReset, WriteBTR0, WriteBTR1, LeaveReset,
     ConfigEnds, Configuring
<1>4. AfterInit("lvs") = "unlock" /\ AfterInit("main") # "tick"
  BY DEF AfterInit
<1>5. /\ pc'["lvs"] # pc["lvs"] => pc'["lvs"] \notin {"idle", "frame", "put"} /\ pc["lvs"] # "idle"
      /\ pc'["main"] = "tick" <=> pc["main"] = "tick"
  <2>1. PICK label \in Configuring \cup {AfterInit(t)} : Goto(t, label) BY <1>3
  <2>2. pc'[t] = label /\ \A u \in Threads \ {t} : pc'[u] = pc[u]
    BY <1>0, <2>1 DEF Goto, PcOK
  <2>. QED BY <1>3, <1>4, <2>2, ThreadLabels DEF Configuring
<1>6. buffer' = buffer \/ buffer'.of # "lvs" BY <1>2 DEF Empty
<1>. QED BY <1>1, <1>5, <1>6, OthersKeepOrder

LEMMA OrderStep == OrderInv /\ [Next]_vars => OrderInv'
<1>. SUFFICES ASSUME OrderInv, [Next]_vars PROVE Lock' /\ Order'
  BY TypeStep DEF OrderInv
<1>0. PcOK /\ TypeOK BY DEF OrderInv, TypeOK
<1>. USE FrameFields
<1>1. CASE \/ AwaitSync \/ PutSync \/ ReceiveAll \/ ClearBuffers \/ Account
           \/ CloseDriver \/ ClosePort \/ UNCHANGED vars
  <2>1. UNCHANGED <<mutex, dataToSend, ticks, round, index, sent>>
    BY <1>1 DEF AwaitSync, PutSync, ReceiveAll, ClearBuffers, Account, CloseDriver, ClosePort,
       vars, published, sending
  <2>2. buffer' \in {buffer, Empty, SyncFrame}
    BY <1>1 DEF AwaitSync, PutSync, Accepted, ReceiveAll, ClearBuffers, Account, CloseDriver,
       ClosePort, vars, controller
  <2>3. UNCHANGED pc \/ \E label : Goto("polling", label)
    BY <1>1 DEF AwaitSync, PutSync, ReceiveAll, ClearBuffers, Account, CloseDriver, ClosePort, vars
  <2>4. pc'["lvs"] = pc["lvs"] /\ pc'["main"] = pc["main"]
    BY <1>0, <2>3, ThreadLabels DEF Goto, PcOK
  <2>5. buffer' = buffer \/ buffer'.of # "lvs" BY <2>2 DEF Empty, SyncFrame
  <2>. QED BY <2>1, <2>4, <2>5, OthersKeepOrder
<1>2. CASE \E t \in Threads : init(t) BY <1>2, InitStepKeepsOrder
<1>3. CASE RefuseFrame
  <2>1. pc'["lvs"] = "install" /\ pc["lvs"] = "put" /\ pc'["main"] = pc["main"]
    BY <1>0, <1>3, ThreadLabels DEF RefuseFrame, Goto, PcOK
  <2>2. UNCHANGED <<mutex, dataToSend, ticks, round, index, sent, buffer>>
    BY <1>3 DEF RefuseFrame, published, controller
  <2>. QED BY <2>1, <2>2, OthersKeepOrder
<1>4. CASE StartTransmission
  <2>1. pc'["lvs"] = "frame" /\ pc["lvs"] = "idle" /\ pc'["main"] = pc["main"]
    BY <1>0, <1>4, ThreadLabels DEF StartTransmission, LockTaken, Goto, PcOK
  <2>2. /\ mutex = "nobody" /\ mutex' = "lvs" /\ round' = round + 1
        /\ UNCHANGED <<dataToSend, ticks, sent, buffer>>
    BY <1>4 DEF StartTransmission, LockTaken, published, controller
  <2>3. Lock' BY <2>1, <2>2 DEF OrderInv, Lock
  <2>4. Order' BY <1>0, <2>1, <2>2 DEF OrderInv, Order, Due, Follows
  <2>. QED BY <2>3, <2>4
<1>5. CASE AwaitFrame
  <2>1. /\ pc["lvs"] = "frame" /\ pc'["main"] = pc["main"]
        /\ pc'["lvs"] \in {"frame", "put", "unlock"}
        /\ index' \in {index, index + 1}
    BY <1>0, <1>5, ThreadLabels DEF AwaitFrame, NextFrame, Goto, PcOK
  <2>2. UNCHANGED <<mutex, dataToSend, ticks, round, sent, buffer>>
    BY <1>5 DEF AwaitFrame, published, controller
  <2>3. Lock' BY <2>1, <2>2 DEF OrderInv, Lock
  <2>4. Order' BY <1>0, <2>1, <2>2 DEF OrderInv, Order, Due, Follows
  <2>. QED BY <2>3, <2>4
<1>6. CASE PutFrame
  <2>1. /\ pc["lvs"] = "put" /\ pc'["main"] = pc["main"]
        /\ \/ pc'["lvs"] = "frame" /\ index' = index + 1
           \/ pc'["lvs"] = "unlock"
    BY <1>0, <1>6, ThreadLabels DEF PutFrame, NextFrame, Goto, PcOK
  <2>2. UNCHANGED <<mutex, dataToSend, ticks, round, sent>>
    BY <1>6 DEF PutFrame, published
  <2>3. Lock' BY <2>1, <2>2 DEF OrderInv, Lock
  <2>4. dataToSend[index] = ticks
    BY <1>0, <2>1 DEF OrderInv, Lock, TypeOK
  <2>5. Due(sent) /\ (buffer.of = "lvs" => Due(buffer))
    BY <2>1 DEF OrderInv, Order
  <2>. DEFINE frame == [of |-> "lvs", round |-> round, index |-> index, tick |-> dataToSend[index]]
  <2>6. buffer' = buffer \/ buffer' = frame
    BY <1>6 DEF PutFrame, Accepted
  <2>9. sent.round <= round /\ (buffer.of = "lvs" => buffer.round <= round)
    BY DEF OrderInv, Order
  <2>10. pc'["lvs"] \in {"frame", "put"} =>
           index' = index + 1 /\ Due(sent)' /\ (buffer.of = "lvs" =>
             \/ round' > buffer.round
             \/ round' = buffer.round /\ ticks' = buffer.tick /\ index' > buffer.index)
    BY <1>0, <2>1, <2>2, <2>5 DEF Due
  <2>7. CASE buffer' = buffer
    <3>1. buffer.of = "lvs" => Follows(sent, buffer) BY DEF OrderInv, Order
    <3>2. buffer'.of = "lvs" => Follows(sent, buffer)' BY <2>2, <2>7, <3>1 DEF Follows
    <3>3. pc'["lvs"] \in {"frame", "put"} => Due(sent)' /\ (buffer'.of = "lvs" => Due(buffer)')
      BY <2>7, <2>10 DEF Due
    <3>. QED BY <2>2, <2>3, <2>7, <2>9, <3>2, <3>3 DEF Order
  <2>8. CASE buffer' = frame
    <3>1. /\ buffer'.round = round /\ buffer'.index = index /\ buffer'.tick = ticks
      BY <2>4, <2>8
    <3>2. Follows(sent, buffer')
      BY <1>0, <2>5, <3>1 DEF Due, Follows
    <3>3. pc'["lvs"] \in {"frame", "put"} => Due(buffer)'
      BY <1>0, <2>2, <2>10, <3>1 DEF Due
    <3>4. buffer'.round <= round' /\ Follows(sent, buffer)' /\ sent'.round <= round'
      BY <1>0, <2>2, <2>9, <3>1, <3>2 DEF Follows
    <3>5. pc'["lvs"] \in {"frame", "put"} => Due(sent)' BY <2>10
    <3>. QED BY <2>3, <3>3, <3>4, <3>5 DEF Order
  <2>. QED BY <2>3, <2>6, <2>7, <2>8
<1>7. CASE EndTransmission
  <2>1. pc'["lvs"] = "idle" /\ pc["lvs"] = "unlock" /\ pc'["main"] = pc["main"]
    BY <1>0, <1>7, ThreadLabels DEF EndTransmission, Goto, PcOK
  <2>2. mutex' = "nobody" /\ UNCHANGED <<dataToSend, ticks, round, index, sent, buffer>>
    BY <1>7 DEF EndTransmission, published, controller, sending
  <2>. QED BY <2>1, <2>2 DEF OrderInv, Lock, Order, Follows
<1>8. CASE StartTick
  <2>1. pc'["main"] = "tick" /\ pc["main"] = "idle" /\ pc'["lvs"] = pc["lvs"]
    BY <1>0, <1>8, ThreadLabels DEF StartTick, Goto, PcOK
  <2>2. mutex = "nobody" /\ mutex' = "main" /\ UNCHANGED <<round, index, sent, buffer>>
    BY <1>8 DEF StartTick, controller, sending
  <2>3. pc["lvs"] = "idle" BY <2>2 DEF OrderInv, Lock
  <2>. QED BY <2>1, <2>2, <2>3 DEF OrderInv, Lock, Order, Follows
<1>9. CASE EndTick
  <2>1. pc'["main"] = "idle" /\ pc["main"] = "tick" /\ pc'["lvs"] = pc["lvs"]
    BY <1>0, <1>9, ThreadLabels DEF EndTick, Goto, PcOK
  <2>2. /\ mutex' = "nobody" /\ UNCHANGED <<ticks, round, index, sent, buffer>>
        /\ \A c \in 1 .. Frames : dataToSend'[c] = ticks
    BY <1>9 DEF EndTick, controller, sending
  <2>3. pc["lvs"] = "idle" BY <2>1 DEF OrderInv, Lock
  <2>. QED BY <2>1, <2>2, <2>3 DEF OrderInv, Lock, Order, Follows
<1>10. CASE Transmit
  <2>1. /\ UNCHANGED <<pc, mutex, dataToSend, ticks, round, index>>
        /\ buffer'.of # "lvs"
        /\ sent' = sent \/ (buffer.of = "lvs" /\ sent' = buffer)
    BY <1>10 DEF Transmit, published, sending, Empty
  <2>. QED BY <2>1 DEF OrderInv, Lock, Order, Due
<1>. QED
  BY <1>1, <1>2, <1>3, <1>4, <1>5, <1>6, <1>7, <1>8, <1>9, <1>10, NextCases DEF Ordinary

(* The frames of a transmission that go out are of one tick and in order.   *)
THEOREM TransmissionsAreOfOneTick == Spec => SentOneTick
<1>1. Init => OrderInv BY TypeInit, OrderInit DEF OrderInv
<1>2. OrderInv /\ [Next]_vars =>
        [sent' # sent =>
           \/ sent'.round > sent.round
           \/ /\ sent'.round = sent.round
              /\ sent'.tick = sent.tick
              /\ sent'.index > sent.index]_vars
  <2>. SUFFICES ASSUME OrderInv, Next, sent' # sent
                PROVE  Follows(sent, sent')
    BY DEF Follows, vars
  <2>1. Transmit
    BY NextCases DEF Ordinary, AwaitSync, PutSync, ReceiveAll, ClearBuffers, Account, CloseDriver,
       ClosePort, RefuseFrame, StartTransmission, AwaitFrame, PutFrame, EndTransmission,
       StartTick, EndTick, init, InstallFails, Open, EnterReset, ConfirmReset, WriteBTR0,
       WriteBTR1, LeaveReset, others
  <2>. QED BY <2>1 DEF Transmit, OrderInv, Order
<1>. QED BY <1>1, <1>2, OrderStep, PTL DEF Spec, SentOneTick
=============================================================================
