------------------------- MODULE ModbusPool_proofs -------------------------
(***************************************************************************)
(* Theorems about ModbusPool, for every size of the pool and every number  *)
(* of connections.                                                         *)
(***************************************************************************)
EXTENDS ModbusPool, FiniteSetTheorems, TLAPS

(* Handles are numbered as they are accepted, each is given to one slot,    *)
(* and a thread serves a handle that was given to its own slot.             *)
Given ==
  /\ \A i \in Slots : sock_desc[i] <= accepts /\ tcpSocket[i] <= accepts
  /\ \A h \in clean \cup ended : h <= accepts
  /\ \A i \in Slots : thread[i] = "starting" \/ starting = i => sock_desc[i] # NoSocket
  /\ \A i \in Slots : thread[i] = "serving" => tcpSocket[i] # NoSocket
  /\ \A i, j \in Slots :
       /\ sock_desc[i] = sock_desc[j] /\ sock_desc[i] # NoSocket => i = j
       /\ tcpSocket[i] = sock_desc[j] /\ tcpSocket[i] # NoSocket => i = j

(* Slot i holds the connection h, and nothing is under way that would free  *)
(* the slot.                                                                *)
Holds(i, h) ==
  /\ sock_desc[i] = h
  /\ status[i] = "started"
  /\ stops[i] = 0
  /\ stopping # i
  /\ IF starting = i THEN thread[i] = "idle"
                     ELSE thread[i] \in {"starting", "serving"}
  /\ thread[i] = "serving" => tcpSocket[i] = h

Held == \A h \in clean \ ended : \E i \in Slots : Holds(i, h)

(* A slot whose clean connection has ended is free or about to be freed.    *)
Released ==
  \A i \in Slots : sock_desc[i] \in clean \cap ended =>
    /\ starting # i
    /\ thread[i] # "starting"
    /\ thread[i] = "closing" \/ status[i] = "free"

Inv == TypeOK /\ Given /\ Held /\ Released

LEMMA SlotsFacts == Slots \subseteq Nat /\ None \notin Slots /\ NoSocket \notin Handles
BY PoolAssumption DEF Slots, None, NoSocket, Handles

LEMMA InitInv == Init => Inv
BY PoolAssumption, SlotsFacts
   DEF Init, Inv, TypeOK, Given, Held, Released, NoSocket, None

LEMMA AssignInv ==
  ASSUME Inv, Assign
  PROVE  Inv'
<1>0. PICK i \in Available : AssignTo(i)
  BY DEF Assign
<1>1. i \in Slots /\ status[i] = "free"
  BY <1>0 DEF Available, Free
<1>2. /\ accepts' = accepts + 1
      /\ accepts' \in 0 .. MaxAccepts
      /\ accepts' \in Handles
      /\ accepts' # NoSocket
      /\ sock_desc' = [sock_desc EXCEPT ![i] = accepts']
      /\ status' = [status EXCEPT ![i] = "started"]
      /\ links' = [links EXCEPT ![i] = @ + 1]
      /\ clean' = IF AtRest(i) THEN clean \cup {accepts'} ELSE clean
      /\ starting = None
      /\ starting' = i
      /\ active < MaxConnections
      /\ active' = active + 1
      /\ UNCHANGED <<thread, tcpSocket, done, stops, dismisses, stopping, ended>>
  BY <1>0, PoolAssumption DEF AssignTo, HasRoom, Inv, TypeOK, Handles, NoSocket
<1>3. TypeOK'
  BY <1>1, <1>2, PoolAssumption DEF Inv, TypeOK
<1>4. \A j \in Slots : sock_desc[j] \in Int /\ tcpSocket[j] \in Int
  BY DEF Inv, TypeOK, Handles, NoSocket
<1>5. accepts \in Nat /\ accepts' > accepts
  BY <1>2 DEF Inv, TypeOK
<1>6. Given'
  BY <1>1, <1>2, <1>4, <1>5, SlotsFacts DEF Inv, TypeOK, Given, Handles
<1>7. Held'
  <2> SUFFICES ASSUME NEW h \in clean' \ ended'
               PROVE  \E j \in Slots : Holds(j, h)'
    BY DEF Held
  <2>1. CASE h \in clean
    <3>1. PICK j \in Slots : Holds(j, h)
      BY <1>2, <2>1 DEF Inv, Held
    <3>2. j # i
      BY <1>1, <3>1 DEF Holds
    <3>3. Holds(j, h)'
      BY <1>1, <1>2, <3>1, <3>2, SlotsFacts DEF Holds, Inv, TypeOK
    <3> QED
      BY <3>3
  <2>2. CASE h \notin clean
    <3>1. h = accepts' /\ AtRest(i)
      BY <1>2, <2>2
    <3>2. Holds(i, h)'
      BY <1>1, <1>2, <3>1 DEF Holds, AtRest, Inv, TypeOK
    <3> QED
      BY <1>1, <3>2
  <2> QED
    BY <2>1, <2>2
<1>8. Released'
  <2> SUFFICES ASSUME NEW j \in Slots, sock_desc'[j] \in clean' \cap ended'
               PROVE  /\ starting' # j
                      /\ thread'[j] # "starting"
                      /\ thread'[j] = "closing" \/ status'[j] = "free"
    BY DEF Released
  <2>1. accepts' \notin ended
    BY <1>2, <1>5 DEF Inv, Given
  <2>2. j # i
    BY <1>1, <1>2, <2>1 DEF Inv, TypeOK
  <2>3. sock_desc[j] \in clean \cap ended
    BY <1>2, <2>1, <2>2 DEF Inv, TypeOK
  <2> QED
    BY <1>2, <2>2, <2>3 DEF Inv, TypeOK, Released
<1> QED
  BY <1>3, <1>6, <1>7, <1>8 DEF Inv

LEMMA StartInv ==
  ASSUME Inv, Start
  PROVE  Inv'
<1>1. /\ starting \in Slots
      /\ starting' = None
      /\ UNCHANGED <<accepts, status, sock_desc, tcpSocket, done, stops, links,
                     dismisses, active, stopping, clean, ended>>
      /\ \A i \in Slots :
           thread'[i] = IF i = starting /\ thread[i] = "idle" THEN "starting"
                        ELSE thread[i]
      /\ thread' \in [Slots -> {"idle", "starting", "serving", "closing", "returning"}]
  BY DEF Start, history, Inv, TypeOK
<1>2. TypeOK'
  BY <1>1 DEF Inv, TypeOK
<1>3. Given'
  BY <1>1, SlotsFacts DEF Inv, Given
<1>4. ASSUME NEW h, NEW i \in Slots, Holds(i, h)
      PROVE  Holds(i, h)'
  BY <1>1, <1>4, SlotsFacts DEF Holds
<1>5. Held'
  BY <1>1, <1>4 DEF Held, Inv
<1>6. Released'
  BY <1>1, SlotsFacts DEF Released, Inv
<1> QED
  BY <1>2, <1>3, <1>5, <1>6 DEF Inv

(* The other steps of the server touch only its own counters and events. *)
LEMMA ServerInv ==
  ASSUME Inv, Refuse \/ clearMBPool \/ \E i \in Slots : dismisClient(i)
  PROVE  Inv'
<1>1. /\ UNCHANGED <<status, sock_desc, thread, tcpSocket, done, stops, starting,
                     stopping, clean, ended>>
      /\ accepts' \in 0 .. MaxAccepts
      /\ accepts <= accepts'
  BY PoolAssumption DEF Refuse, clearMBPool, dismisClient, history, Inv, TypeOK
<1>2. active' \in Int /\ active' <= MaxConnections
  <2>1. IsFiniteSet(Slots)
    BY PoolAssumption, FS_Interval DEF Slots
  <2>2. Cardinality(Free) \in Nat
    BY <2>1, FS_Subset, FS_CardinalityType DEF Free
  <2> QED
    BY <2>2, PoolAssumption
       DEF Refuse, clearMBPool, Counted, dismisClient, Inv, TypeOK
<1>3. links' \in [Slots -> Nat] /\ dismisses' \in [Slots -> Nat]
  BY DEF Refuse, clearMBPool, dismisClient, Inv, TypeOK
<1>4. TypeOK'
  BY <1>1, <1>2, <1>3 DEF Inv, TypeOK
<1>5. Given'
  <2>1. /\ \A i \in Slots : sock_desc[i] \in Int /\ tcpSocket[i] \in Int
        /\ \A h \in clean \cup ended : h \in Int
        /\ accepts \in Int /\ accepts' \in Int
    BY <1>1 DEF Inv, TypeOK, Handles, NoSocket
  <2> QED
    BY <1>1, <2>1 DEF Inv, Given
<1>6. Held' /\ Released'
  BY <1>1 DEF Inv, Held, Holds, Released
<1> QED
  BY <1>4, <1>5, <1>6 DEF Inv

LEMMA BeginInv ==
  ASSUME Inv, NEW k \in Slots, Begin(k)
  PROVE  Inv'
<1>1. /\ thread[k] = "starting"
      /\ UNCHANGED <<accepts, status, sock_desc, stops, links, dismisses, active,
                     starting, stopping, clean, ended>>
      /\ \A i \in Slots :
           /\ thread'[i] = IF i = k THEN "serving" ELSE thread[i]
           /\ tcpSocket'[i] = IF i = k THEN sock_desc[k] ELSE tcpSocket[i]
  BY DEF Begin, server, history, Inv, TypeOK
<1>2. TypeOK'
  BY <1>1 DEF Begin, server, history, Inv, TypeOK
<1>3. sock_desc[k] # NoSocket
  BY <1>1 DEF Inv, Given
<1>4. Given'
  BY <1>1, <1>3 DEF Inv, Given
<1>5. ASSUME NEW h, NEW i \in Slots, Holds(i, h)
      PROVE  Holds(i, h)'
  BY <1>1, <1>5 DEF Holds
<1>6. Held'
  BY <1>1, <1>5 DEF Held, Inv
<1>7. Released'
  BY <1>1 DEF Released, Inv
<1> QED
  BY <1>2, <1>4, <1>6, <1>7 DEF Inv

LEMMA LeaveInv ==
  ASSUME Inv, NEW k \in Slots, Leave(k)
  PROVE  Inv'
<1>1. /\ thread[k] = "serving"
      /\ UNCHANGED <<accepts, status, sock_desc, tcpSocket, done, links, dismisses,
                     active, starting, stopping, clean>>
      /\ ended' = ended \cup {tcpSocket[k]}
      /\ \A i \in Slots :
           /\ thread'[i] = IF i = k THEN "closing" ELSE thread[i]
           /\ i # k => stops'[i] = stops[i]
  BY DEF Leave, server, Inv, TypeOK
<1>2. tcpSocket[k] \in Handles /\ tcpSocket[k] # NoSocket
  BY <1>1 DEF Inv, TypeOK, Given
<1>3. TypeOK'
  BY <1>1, <1>2 DEF Leave, server, Inv, TypeOK
<1>4. Given'
  BY <1>1 DEF Inv, Given
<1>5. Held'
  <2> SUFFICES ASSUME NEW h \in clean \ ended, h # tcpSocket[k]
               PROVE  \E i \in Slots : Holds(i, h)'
    BY <1>1 DEF Held
  <2>1. PICK i \in Slots : Holds(i, h)
    BY DEF Inv, Held
  <2>2. i # k
    BY <1>1, <2>1, SlotsFacts DEF Holds
  <2> QED
    BY <1>1, <2>1, <2>2 DEF Holds
<1>6. Released'
  <2> SUFFICES ASSUME NEW i \in Slots, sock_desc[i] \in clean,
                      sock_desc[i] \in ended \cup {tcpSocket[k]}
               PROVE  /\ starting # i
                      /\ thread'[i] # "starting"
                      /\ thread'[i] = "closing" \/ status[i] = "free"
    BY <1>1 DEF Released
  <2>1. CASE sock_desc[i] \in ended
    BY <1>1, <2>1 DEF Inv, Released
  <2>2. CASE sock_desc[i] \notin ended
    <3>1. i = k
      BY <1>2, <2>2 DEF Inv, Given
    <3>2. PICK j \in Slots : Holds(j, sock_desc[i])
      BY <2>2 DEF Inv, Held
    <3>3. j = i
      BY <1>2, <2>2, <3>2 DEF Inv, Given, Holds
    <3> QED
      BY <1>1, <3>1, <3>2, <3>3 DEF Holds
  <2> QED
    BY <2>1, <2>2
<1> QED
  BY <1>3, <1>4, <1>5, <1>6 DEF Inv

LEMMA CloseInv ==
  ASSUME Inv, NEW k \in Slots, Close(k)
  PROVE  Inv'
<1>1. /\ thread[k] = "closing"
      /\ UNCHANGED <<accepts, sock_desc, done, stops, links, dismisses, active,
                     starting, stopping, clean, ended>>
      /\ \A i \in Slots :
           /\ thread'[i] = IF i = k THEN "returning" ELSE thread[i]
           /\ tcpSocket'[i] = IF i = k THEN NoSocket ELSE tcpSocket[i]
           /\ status'[i] = IF i = k THEN "free" ELSE status[i]
  BY DEF Close, server, history, Inv, TypeOK
<1>2. TypeOK'
  BY <1>1 DEF Close, server, history, Inv, TypeOK
<1>3. Given'
  BY <1>1 DEF Inv, TypeOK, Given, NoSocket
<1>4. ASSUME NEW h, NEW i \in Slots, Holds(i, h)
      PROVE  Holds(i, h)'
  BY <1>1, <1>4 DEF Holds
<1>5. Held'
  BY <1>1, <1>4 DEF Held, Inv
<1>6. Released'
  BY <1>1 DEF Released, Inv
<1> QED
  BY <1>2, <1>3, <1>5, <1>6 DEF Inv

LEMMA ReturnInv ==
  ASSUME Inv, NEW k \in Slots, Return(k)
  PROVE  Inv'
<1>1. /\ thread[k] = "returning"
      /\ UNCHANGED <<accepts, status, sock_desc, tcpSocket, done, stops, links,
                     dismisses, active, starting, stopping, clean, ended>>
      /\ \A i \in Slots : thread'[i] = IF i = k THEN "idle" ELSE thread[i]
  BY DEF Return, server, history, Inv, TypeOK
<1>2. TypeOK'
  BY <1>1 DEF Return, server, history, Inv, TypeOK
<1>3. Given'
  BY <1>1 DEF Inv, Given
<1>4. ASSUME NEW h, NEW i \in Slots, Holds(i, h)
      PROVE  Holds(i, h)'
  BY <1>1, <1>4 DEF Holds
<1>5. Held'
  BY <1>1, <1>4 DEF Held, Inv
<1>6. Released'
  BY <1>1 DEF Released, Inv
<1> QED
  BY <1>2, <1>3, <1>5, <1>6 DEF Inv

(* stopSlave frees only slots with an event queued, which no held slot has. *)
LEMMA MainInv ==
  ASSUME Inv, Main
  PROVE  Inv'
<1>1. CASE disconnectSignal
  <2>1. TypeOK'
    BY <1>1 DEF disconnectSignal, server, history, Inv, TypeOK
  <2>2. Given' /\ Released'
    BY <1>1 DEF disconnectSignal, server, history, Inv, Given, Released
  <2>3. Held'
    BY <1>1, SlotsFacts DEF disconnectSignal, server, history, Inv, Held, Holds
  <2> QED
    BY <2>1, <2>2, <2>3 DEF Inv
<1>2. ASSUME NEW k \in Slots, stopSlave(k)
      PROVE  Inv'
  <2>1. /\ stops[k] > 0
        /\ UNCHANGED <<accepts, sock_desc, links, active, starting, thread, tcpSocket,
                       dismisses, clean, ended>>
        /\ \A i \in Slots :
             /\ i # k => stops'[i] = stops[i] /\ status'[i] = status[i]
             /\ status'[i] \in {status[i], "free"}
        /\ stopping' \in {stopping, k}
    BY <1>2 DEF stopSlave, server, history, Inv, TypeOK
  <2>2. TypeOK'
    <3>1. stops' \in [Slots -> Nat]
      BY <1>2 DEF stopSlave, Inv, TypeOK
    <3>2. /\ done' \in [Slots -> BOOLEAN]
          /\ status' \in [Slots -> {"free", "started"}]
          /\ stopping' \in Slots \cup {None}
      BY <1>2 DEF stopSlave, Inv, TypeOK
    <3> QED
      BY <1>2, <3>1, <3>2 DEF stopSlave, server, history, Inv, TypeOK
  <2>3. Given' /\ Released'
    BY <2>1 DEF Inv, Given, Released
  <2>4. ASSUME NEW h, NEW i \in Slots, Holds(i, h)
        PROVE  Holds(i, h)'
    <3>1. i # k
      BY <2>1, <2>4 DEF Holds
    <3> QED
      BY <2>1, <2>4, <3>1 DEF Holds
  <2>5. Held'
    BY <2>1, <2>4 DEF Held, Inv
  <2> QED
    BY <2>2, <2>3, <2>5 DEF Inv
<1> QED
  BY <1>1, <1>2 DEF Main

LEMMA NextInv == Inv /\ [Next]_vars => Inv'
<1> SUFFICES ASSUME Inv, [Next]_vars PROVE Inv'
  OBVIOUS
<1>1. CASE Server
  BY <1>1, AssignInv, StartInv, ServerInv DEF Server
<1>2. CASE Main
  BY <1>2, MainInv
<1>3. CASE \E i \in Slots : Slave(i)
  BY <1>3, BeginInv, LeaveInv, CloseInv, ReturnInv DEF Slave, Disconnect, Drop
<1>4. CASE UNCHANGED vars
  <2>1. TypeOK' /\ Given' /\ Released'
    BY <1>4 DEF vars, Inv, TypeOK, Given, Released
  <2>2. Held'
    BY <1>4 DEF vars, Inv, Held, Holds
  <2> QED
    BY <2>1, <2>2 DEF Inv
<1> QED
  BY <1>1, <1>2, <1>3, <1>4 DEF Next

THEOREM InvHolds == Spec => []Inv
BY InitInv, NextInv, PTL DEF Spec

(* Every variable of the pool keeps its type; active_connections never      *)
(* exceeds the size of the pool.                                            *)
THEOREM TypeCorrect == Spec => []TypeOK
<1>1. Inv => TypeOK
  BY DEF Inv
<1> QED
  BY <1>1, InvHolds, PTL

(* A connection accepted on a slot at rest keeps its slot, gets a thread    *)
(* and is served by it until that thread leaves its loop.                   *)
THEOREM CleanSessionsAreSafe == Spec => []CleanSession
<1>1. Inv => CleanSession
  BY DEF Inv, Held, Holds, CleanSession
<1> QED
  BY <1>1, InvHolds, PTL

(* Slots are lost only by accepting on a slot whose thread still runs or    *)
(* whose stopSlave is still to come.                                        *)
THEOREM LeaksNeedOverlap == Spec => []LeakOnlyByOverlap
<1>1. Inv => LeakOnlyByOverlap
  <2> SUFFICES ASSUME Inv, NEW i \in Slots, status[i] = "started",
                      thread[i] = "idle", starting # i, sock_desc[i] \in clean
               PROVE  FALSE
    BY DEF LeakOnlyByOverlap
  <2>1. sock_desc[i] \notin ended
    BY DEF Inv, Released
  <2>2. PICK j \in Slots : Holds(j, sock_desc[i])
    BY <2>1 DEF Inv, Held
  <2>3. j = i
    BY <2>2, SlotsFacts DEF Inv, TypeOK, Given, Holds
  <2> QED
    BY <2>2, <2>3 DEF Holds
<1> QED
  BY <1>1, InvHolds, PTL
============================================================================
