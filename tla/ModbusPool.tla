----------------------------- MODULE ModbusPool -----------------------------
(***************************************************************************)
(* The pool of Modbus TCP slaves: ModBusServer (modbusserver.cpp) hands    *)
(* each accepted connection to the first free ModBusSlaveDevice            *)
(* (modbusslavedevice.cpp), which serves it in a thread of its own.        *)
(*                                                                         *)
(* Three kinds of thread share the slots without a common lock:            *)
(*   server  the thread ModBusServer was moved to: incomingConnection,     *)
(*           dismisClient and clearMBPool, one at a time (connectMutex is  *)
(*           only ever taken here);                                        *)
(*   main    runs stopSlave, because the slave objects live there: the     *)
(*           disconnected signal of a socket becomes an event of this      *)
(*           thread, and disconnectSignal an event of the server thread;   *)
(*   slave i run(), from setSocketDescriptor to status = SLAVE_FREE.       *)
(* The bytes exchanged with a client are left out.                         *)
(***************************************************************************)
EXTENDS Integers, FiniteSets

CONSTANTS MaxConnections, \* MAX_CONNECTIONS, the size of the pool
          MaxAccepts      \* bound: connections accepted in a behaviour

ASSUME PoolAssumption == MaxConnections \in Nat \ {0} /\ MaxAccepts \in Nat

Slots   == 0 .. MaxConnections - 1
Handles == 1 .. MaxAccepts
None    == -1   \* no slot
NoSocket == 0   \* no handle

VARIABLES
  accepts,   \* connections accepted so far; the next handle is one more
  status,    \* status[i]: SLAVE_FREE ("free") or SLAVE_STARTED ("started")
  sock_desc, \* the handle last given to slot i
  thread,    \* thread[i]: "idle", "starting", "serving", "closing", "returning"
  tcpSocket, \* the handle the thread of slot i serves
  done,      \* stopSlave_doneStatus
  stops,     \* stopSlave events queued to the main thread, per slot
  links,     \* connections of the slot's disconnectSignal to dismisClient
  dismisses, \* dismisClient events queued to the server thread, per slot
  active,    \* active_connections
  starting,  \* the slot incomingConnection is about to start, or None
  stopping,  \* the slot stopSlave sleeps on, between its two halves, or None
  clean,     \* history: handles accepted on a slot at rest
  ended      \* history: handles whose thread has left its loop

server == <<accepts, sock_desc, links, active, starting>>
vars == <<accepts, status, sock_desc, thread, tcpSocket, done, stops, links,
          dismisses, active, starting, stopping, clean, ended>>
history == <<clean, ended>>

Free == {i \in Slots : status[i] = "free"}

(* No thread runs on the slot and no stopSlave is queued for it or under way. *)
AtRest(i) == thread[i] = "idle" /\ stops[i] = 0 /\ stopping # i

Init ==
  /\ accepts = 0
  /\ status = [i \in Slots |-> "free"]
  /\ sock_desc = [i \in Slots |-> NoSocket]
  /\ thread = [i \in Slots |-> "idle"]
  /\ tcpSocket = [i \in Slots |-> NoSocket]
  /\ done = [i \in Slots |-> FALSE]
  /\ stops = [i \in Slots |-> 0]
  /\ links = [i \in Slots |-> 0]
  /\ dismisses = [i \in Slots |-> 0]
  /\ active = 0
  /\ starting = None
  /\ stopping = None
  /\ clean = {}
  /\ ended = {}

----------------------------------------------------------------------------
(* The server thread. *)

\* mutant: the status of the slots is not looked at
AnySlot == Slots
Available == Free

\* mutant: the limit is off by one
HasRoomOffByOne == active <= MaxConnections
HasRoom == active < MaxConnections

(* incomingConnection up to the call of start(). *)
AssignTo(i) ==
  /\ starting = None
  /\ accepts < MaxAccepts
  /\ HasRoom
  /\ \A j \in Available : i <= j
  /\ accepts' = accepts + 1
  /\ sock_desc' = [sock_desc EXCEPT ![i] = accepts']
  /\ status' = [status EXCEPT ![i] = "started"]
  /\ links' = [links EXCEPT ![i] = @ + 1]
  /\ clean' = IF AtRest(i) THEN clean \cup {accepts'} ELSE clean
  /\ starting' = i
  /\ active' = active + 1
  /\ UNCHANGED <<thread, tcpSocket, done, stops, dismisses, stopping, ended>>

Assign == \E i \in Available : AssignTo(i)

\* mutant: the thread of the slot is never started
StartNothing ==
  /\ starting # None
  /\ starting' = None
  /\ UNCHANGED <<accepts, status, sock_desc, thread, tcpSocket, done, stops, links,
                 dismisses, active, stopping, history>>

(* QThread::start() does nothing while the thread has not finished. *)
Start ==
  /\ starting # None
  /\ thread' = [thread EXCEPT ![starting] = IF @ = "idle" THEN "starting" ELSE @]
  /\ starting' = None
  /\ UNCHANGED <<accepts, status, sock_desc, tcpSocket, done, stops, links,
                 dismisses, active, stopping, history>>

(* Above the limit, or with no slot free, the handle is dropped unclosed. *)
Refuse ==
  /\ starting = None
  /\ accepts < MaxAccepts
  /\ ~HasRoom \/ Available = {}
  /\ accepts' = accepts + 1
  /\ UNCHANGED <<status, sock_desc, thread, tcpSocket, done, stops, links,
                 dismisses, active, starting, stopping, history>>

dismisClient(i) ==
  /\ starting = None
  /\ dismisses[i] > 0
  /\ dismisses' = [dismisses EXCEPT ![i] = @ - 1]
  /\ links' = [links EXCEPT ![i] = 0]
  /\ active' = active - 1
  /\ UNCHANGED <<accepts, status, sock_desc, thread, tcpSocket, done, stops,
                 starting, stopping, history>>

\* mutant: the counter is only ever corrected upwards
RaisedOnly == IF active < MaxConnections - Cardinality(Free)
              THEN MaxConnections - Cardinality(Free) ELSE active
Counted == MaxConnections - Cardinality(Free)

clearMBPool ==
  /\ starting = None
  /\ active' = Counted
  /\ UNCHANGED <<accepts, status, sock_desc, thread, tcpSocket, done, stops,
                 links, dismisses, starting, stopping, history>>

----------------------------------------------------------------------------
(* The thread of slot i. *)

Begin(i) ==
  /\ thread[i] = "starting"
  /\ thread' = [thread EXCEPT ![i] = "serving"]
  /\ tcpSocket' = [tcpSocket EXCEPT ![i] = sock_desc[i]]
  /\ done' = [done EXCEPT ![i] = FALSE]
  /\ UNCHANGED <<server, status, stops, dismisses, stopping, history>>

\* mutant: the slot is not given back when the thread ends
CloseKeepsStatus(i) ==
  /\ thread[i] = "closing"
  /\ thread' = [thread EXCEPT ![i] = "returning"]
  /\ tcpSocket' = [tcpSocket EXCEPT ![i] = NoSocket]
  /\ UNCHANGED <<server, status, done, stops, dismisses, stopping, history>>

(* The loop over waitForReadyRead ends and the socket is disconnected,      *)
(* which queues stopSlave to the main thread.                               *)
Leave(i) ==
  /\ thread[i] = "serving"
  /\ thread' = [thread EXCEPT ![i] = "closing"]
  /\ stops' = [stops EXCEPT ![i] = @ + 1]
  /\ ended' = ended \cup {tcpSocket[i]}
  /\ UNCHANGED <<server, status, tcpSocket, done, dismisses, stopping, clean>>

(* The client goes away or is silent for READ_TIMEOUT. *)
Disconnect(i) == Leave(i)

(* After a request, or a silence of READ_TIMEOUT, on a slot marked free. *)
Drop(i) == status[i] = "free" /\ Leave(i)

Close(i) ==
  /\ thread[i] = "closing"
  /\ thread' = [thread EXCEPT ![i] = "returning"]
  /\ tcpSocket' = [tcpSocket EXCEPT ![i] = NoSocket]
  /\ status' = [status EXCEPT ![i] = "free"]
  /\ UNCHANGED <<server, done, stops, dismisses, stopping, history>>

Return(i) ==
  /\ thread[i] = "returning"
  /\ thread' = [thread EXCEPT ![i] = "idle"]
  /\ UNCHANGED <<server, status, tcpSocket, done, stops, dismisses, stopping, history>>

----------------------------------------------------------------------------
(* The main thread: stopSlave sleeps 10 ms between marking the slot free    *)
(* and telling the server.                                                  *)
stopSlave(i) ==
  /\ stopping = None
  /\ stops[i] > 0
  /\ stops' = [stops EXCEPT ![i] = @ - 1]
  /\ IF done[i]
       THEN UNCHANGED <<done, status, stopping>>
       ELSE /\ done' = [done EXCEPT ![i] = TRUE]
            /\ status' = [status EXCEPT ![i] = "free"]
            /\ stopping' = i
  /\ UNCHANGED <<server, thread, tcpSocket, dismisses, history>>

disconnectSignal ==
  /\ stopping # None
  /\ dismisses' = [dismisses EXCEPT ![stopping] = @ + links[stopping]]
  /\ stopping' = None
  /\ UNCHANGED <<server, status, thread, tcpSocket, done, stops, history>>

----------------------------------------------------------------------------
Server == Assign \/ Start \/ Refuse \/ clearMBPool \/ \E i \in Slots : dismisClient(i)
Slave(i) == Begin(i) \/ Disconnect(i) \/ Drop(i) \/ Close(i) \/ Return(i)
Main == disconnectSignal \/ \E i \in Slots : stopSlave(i)

Next == Server \/ Main \/ \E i \in Slots : Slave(i)

Spec == Init /\ [][Next]_vars

(* The 1 s timer of clearMBPool keeps firing, every event loop runs, and a  *)
(* slave whose slot is marked free notices it at the next request or after  *)
(* READ_TIMEOUT.  No client has to go away.                                 *)
Fairness ==
  /\ WF_vars(Start)
  /\ SF_vars(clearMBPool)
  /\ \A i \in Slots : WF_vars(dismisClient(i))
  /\ WF_vars(disconnectSignal)
  /\ \A i \in Slots : SF_vars(stopSlave(i))
  /\ \A i \in Slots : WF_vars(Begin(i)) /\ WF_vars(Drop(i)) /\ WF_vars(Close(i)) /\ WF_vars(Return(i))

FairSpec == Spec /\ Fairness

----------------------------------------------------------------------------
(* Every variable has its type. *)
TypeOK ==
  /\ accepts \in 0 .. MaxAccepts
  /\ status \in [Slots -> {"free", "started"}]
  /\ sock_desc \in [Slots -> Handles \cup {NoSocket}]
  /\ thread \in [Slots -> {"idle", "starting", "serving", "closing", "returning"}]
  /\ tcpSocket \in [Slots -> Handles \cup {NoSocket}]
  /\ done \in [Slots -> BOOLEAN]
  /\ stops \in [Slots -> Nat]
  /\ links \in [Slots -> Nat]
  /\ dismisses \in [Slots -> Nat]
  /\ active \in Int /\ active <= MaxConnections
  /\ starting \in Slots \cup {None}
  /\ stopping \in Slots \cup {None}
  /\ clean \subseteq Handles
  /\ ended \subseteq Handles

(* A connection accepted on a slot at rest is safe until it ends: its slot  *)
(* stays marked started, so it is neither dropped at its next request nor   *)
(* given away, start() really starts a thread for it, and that thread       *)
(* serves this connection and no other.                                     *)
CleanSession ==
  \A h \in clean \ ended : \E i \in Slots :
    /\ sock_desc[i] = h
    /\ status[i] = "started"
    /\ IF starting = i THEN thread[i] = "idle"
                       ELSE thread[i] \in {"starting", "serving"}
    /\ thread[i] = "serving" => tcpSocket[i] = h

(* A slot is lost for good, marked started with no thread to free it, only  *)
(* by accepting a connection on a slot whose previous thread had not yet    *)
(* returned.                                                                *)
LeakOnlyByOverlap ==
  \A i \in Slots :
    status[i] = "started" /\ thread[i] = "idle" /\ starting # i
      => sock_desc[i] \notin clean

(* "Diconnect from <peer>" is logged, and the slot freed, for a client that *)
(* is gone: stopSlave takes no effect while the thread of its slot serves.  *)
DisconnectIsReal ==
  [][\A i \in Slots : stopping' = i /\ stopping # i => thread[i] # "serving"]_vars

(* The server does not go on refusing clients while a slot is free, however *)
(* many disconnect notifications were lost or counted twice.                *)
RefusalIsTemporary ==
  active >= MaxConnections /\ Free # {} ~> active < MaxConnections \/ Free = {}

(* Every connection accepted on a slot at rest comes to be served.          *)
CleanIsServed ==
  \A h \in Handles :
    h \in clean ~> h \in ended \/ \E i \in Slots : tcpSocket[i] = h
=============================================================================
