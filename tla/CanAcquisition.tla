--------------------------- MODULE CanAcquisition ---------------------------
(***************************************************************************)
(* The CAN polling thread: Can::runRecvCicle (can.cpp) over the PCI-1680   *)
(* user-space driver (can_iei/pci_1680.cpp).                               *)
(*                                                                         *)
(* Every cycle broadcasts a sync frame, collects one frame per configured  *)
(* channel until all have been stored or 45 ms have passed, clears the     *)
(* controller's FIFO, does the bookkeeping of the missed channels, and on  *)
(* every second incomplete cycle closes and reopens the driver.            *)
(*                                                                         *)
(* Abstractions.  A measured value is represented by its age: the number   *)
(* of sync frames broadcast since it entered the receive queue, saturated  *)
(* at MaxAge.  Time is the choice, at each read, of whether the 45 ms are  *)
(* over.  Every access of the thread to mData is made with dataMutex held, *)
(* so storing one frame and accounting one cycle are single steps.  After  *)
(* the first successful open the driver stays installed, so the branch     *)
(* `res != 0' of the loop (can.cpp:370-375) is not taken.                  *)
(***************************************************************************)
EXTENDS Naturals, Sequences, FiniteSets, Functions

CONSTANTS FrameMap,     \* identifiers of the channels in configuration order
          Foreign,      \* any identifier that no configured channel has
          Capacity,     \* frames the receive path can hold
          MaxAge,       \* ages are counted up to here
          ErrorModulus, \* error_count is an unsigned short: 2^16 in the code
          EmptyReads    \* what a read finds in canmsg when nothing was queued

Channels == Len(FrameMap)
Ids      == Range(FrameMap)

ASSUME FrameMapAssumption ==
  /\ FrameMap \in Seq(Range(FrameMap))
  /\ FrameMap # <<>>
ASSUME ForeignAssumption == Foreign \notin Ids
ASSUME BoundsAssumption ==
  /\ Capacity \in Nat \ {0}
  /\ MaxAge \in Nat
  /\ ErrorModulus \in Nat \ {0}
(* "stale": the previous frame is still there.  "unknown": bytes whose     *)
(* identifier belongs to no channel.                                       *)
ASSUME EmptyReadsAssumption == EmptyReads \subseteq {"stale", "unknown"}

VARIABLES
  pc,            \* where the polling thread is
  port,          \* mode of the CAN controller: "closed", "reset", "running"
  buffer,        \* frames received and not yet read
  pending,       \* modules that have not answered the last sync
  frame,         \* the last frame CanRcvMsg copied out
  frame_counter, \* frames stored in this cycle
  miss_counter,  \* incomplete cycles since the driver was last reopened
  filled,        \* mData[id].filled
  error_count,   \* mData[id].error_count
  age,           \* the age of mData[id].data
  received,      \* history: channels whose frame was read in this cycle
  unreported     \* history: never stored, or error_count wrapped since

mData   == <<filled, error_count, age>>
bus     == <<port, buffer, pending>>
history == <<received, unreported>>
vars    == <<pc, port, buffer, pending, frame, frame_counter, miss_counter,
             filled, error_count, age, received, unreported>>

Frame == [id : Ids \cup {Foreign}, age : 0 .. MaxAge]
Older(n) == IF n < MaxAge THEN n + 1 ELSE n
Fresh(id) == [id |-> id, age |-> 0]

(* The channels that share one identifier (the DI channels of one module). *)
Occurrences(id) == Cardinality({k \in DOMAIN FrameMap : FrameMap[k] = id})

Filled == {id \in Ids : filled[id]}

Init ==
  /\ pc = "sync"
  /\ port = "running"
  /\ buffer = <<>>
  /\ pending = {}
  /\ frame = Fresh(Foreign)
  /\ frame_counter = 0
  /\ miss_counter = 0
  /\ filled = [id \in Ids |-> FALSE]
  /\ error_count = [id \in Ids |-> 0]
  /\ age = [id \in Ids |-> MaxAge]
  /\ received = {}
  /\ unreported = Ids

(* Start of a cycle: Write(data) broadcasts the sync frame and its result  *)
(* is ignored, so the sync may be lost; everything gets one cycle older.   *)
Sync ==
  /\ pc = "sync"
  /\ pc' = "read"
  /\ pending' \in {pending} \cup (IF port = "running" THEN {Ids} ELSE {})
  /\ frame_counter' = 0
  /\ buffer' = [k \in DOMAIN buffer |->
                  [buffer[k] EXCEPT !.age = Older(@)]]
  /\ frame' = [frame EXCEPT !.age = Older(@)]
  /\ age' = [id \in Ids |-> Older(age[id])]
  /\ received' = {}
  /\ UNCHANGED <<port, miss_counter, filled, error_count, unreported>>

(* CanRcvMsg: the oldest queued frame or, since its test of the unsigned   *)
(* result always succeeds, whatever canmsg held when nothing was queued.   *)
Receive ==
  \/ /\ buffer # <<>>
     /\ frame' = Head(buffer)
     /\ buffer' = Tail(buffer)
     /\ received' = received \cup {Head(buffer).id}
  \/ /\ buffer = <<>>
     /\ \/ "stale" \in EmptyReads /\ UNCHANGED frame
        \/ "unknown" \in EmptyReads /\ frame' = Fresh(Foreign)
     /\ UNCHANGED <<buffer, received>>

(* A read that returns within MAX_FRAME_RECV_TIME. *)
ReadFrame ==
  /\ pc = "read"
  /\ Receive
  /\ pc' = "store"
  /\ UNCHANGED <<port, pending, frame_counter, miss_counter, mData, unreported>>

(* A read after which the clock shows more than 45 ms: the loop is left    *)
(* and the frame just read is dropped.                                     *)
ReadExpired ==
  /\ pc = "read"
  /\ Receive
  /\ pc' = "drain"
  /\ UNCHANGED <<port, pending, frame_counter, miss_counter, mData, unreported>>

\* mutant: a dropped frame stays counted
DropFrameCounted ==
  /\ pc = "store"
  /\ frame.id \in Ids => filled[frame.id]
  /\ frame_counter' = frame_counter + 1
  /\ pc' = IF frame_counter' < Channels THEN "read" ELSE "drain"
  /\ UNCHANGED <<bus, frame, miss_counter, mData, history>>

(* A repeated frame, or one of an unknown identifier: counted and then     *)
(* uncounted, never stored.                                                *)
DropFrame ==
  /\ pc = "store"
  /\ frame.id \in Ids => filled[frame.id]
  /\ pc' = "read"
  /\ UNCHANGED <<bus, frame, frame_counter, miss_counter, mData, history>>

(* The first frame of a channel in this cycle; the last one ends the loop. *)
StoreFrame ==
  /\ pc = "store"
  /\ frame.id \in Ids
  /\ ~filled[frame.id]
  /\ frame_counter' = frame_counter + 1
  /\ filled' = [filled EXCEPT ![frame.id] = TRUE]
  /\ age' = [age EXCEPT ![frame.id] = frame.age]
  /\ unreported' = unreported \ {frame.id}
  /\ pc' = IF frame_counter' < Channels THEN "read" ELSE "drain"
  /\ UNCHANGED <<bus, frame, miss_counter, error_count, received>>

(* CanClearRxBuffer empties the controller's FIFO: what the driver has not *)
(* yet moved to its own queue is lost, the older frames stay.              *)
Drain ==
  /\ pc = "drain"
  /\ \E kept \in 0 .. Len(buffer) : buffer' = SubSeq(buffer, 1, kept)
  /\ pc' = "account"
  /\ UNCHANGED <<port, pending, frame, frame_counter, miss_counter, mData, history>>

\* mutant: a channel that was not stored keeps its count
RecountedStoredOnly(id) == IF filled[id] THEN 0 ELSE error_count[id]
(* The loop over frameMap resets a stored identifier at its first index and *)
(* counts a miss at each further one, and counts one at every index of an   *)
(* identifier that was not stored.                                          *)
Recounted(id) ==
  IF filled[id] THEN (Occurrences(id) - 1) % ErrorModulus
  ELSE (error_count[id] + Occurrences(id)) % ErrorModulus

Wrapped == {id \in Ids : ~filled[id] /\ error_count[id] + Occurrences(id) >= ErrorModulus}

\* mutant: the marks of the cycle are not cleared
MarksKept == filled
MarksCleared == [id \in Ids |-> FALSE]

\* mutant: miss_counter is never set back
MissesCounted == miss_counter + 1
MissesAfter == IF miss_counter + 1 = 2 THEN 0 ELSE miss_counter + 1

\* mutant: the test misses the value at which miss_counter starts again
ReopenDueLate == miss_counter + 1 = 3
ReopenDue == miss_counter + 1 = 2

Account ==
  /\ pc = "account"
  /\ error_count' = [id \in Ids |-> Recounted(id)]
  /\ filled' = MarksCleared
  /\ unreported' = unreported \cup Wrapped
  /\ IF Cardinality(Filled) = Channels
       THEN pc' = "sync" /\ UNCHANGED miss_counter
       ELSE /\ miss_counter' = MissesAfter
            /\ pc' = IF ReopenDue THEN "close" ELSE "sync"
  /\ UNCHANGED <<bus, frame, frame_counter, age, received>>

(* CanCloseDriver: the kernel driver drops what it had queued. *)
Close ==
  /\ pc = "close"
  /\ port' = "closed"
  /\ buffer' = <<>>
  /\ pc' = "open"
  /\ UNCHANGED <<pending, frame, frame_counter, miss_counter, mData, history>>

(* init: CanOpenDriver and CanConfigPort.  A controller that does not leave *)
(* reset mode is reported by CanConfigPort and ignored by init.             *)
Open(mode) ==
  /\ pc = "open"
  /\ port' = mode
  /\ pc' = "sync"
  /\ UNCHANGED <<buffer, pending, frame, frame_counter, miss_counter, mData, history>>

runRecvCicle ==
  \/ Sync
  \/ ReadFrame
  \/ ReadExpired
  \/ DropFrame
  \/ StoreFrame
  \/ Drain
  \/ Account
  \/ Close
  \/ \E mode \in {"reset", "running"} : Open(mode)

rx == <<pc, frame, frame_counter, miss_counter, filled, error_count, age,
        received, unreported>>

(* A frame from the bus: queued when there is room, otherwise overrun. *)
Arrive(id) ==
  /\ port = "running"
  /\ buffer' = IF Len(buffer) < Capacity THEN Append(buffer, Fresh(id)) ELSE buffer

(* A measuring module answers a sync, once; a node nobody configured sends. *)
Answer(id) ==
  /\ id \in pending
  /\ Arrive(id)
  /\ pending' = pending \ {id}
  /\ UNCHANGED <<port, rx>>

ForeignFrame ==
  /\ Arrive(Foreign)
  /\ UNCHANGED <<port, pending, rx>>

(* The controller goes bus-off and stays in reset mode until reconfigured. *)
BusOff ==
  /\ port = "running"
  /\ port' = "reset"
  /\ UNCHANGED <<buffer, pending, rx>>

Bus == ForeignFrame \/ BusOff \/ \E id \in Ids : Answer(id)

Next == runRecvCicle \/ Bus

Spec == Init /\ [][Next]_vars

(* The thread keeps running (SCHED_RR at the highest priority), the clock   *)
(* passes 45 ms if the loop goes on reading, and reconfiguring the          *)
(* controller succeeds in the end if it is tried again and again.           *)
Fairness ==
  /\ WF_vars(runRecvCicle)
  /\ SF_vars(ReadExpired)
  /\ SF_vars(Open("running"))

FairSpec == Spec /\ Fairness

----------------------------------------------------------------------------
(* Every variable has its type. *)
TypeOK ==
  /\ pc \in {"sync", "read", "store", "drain", "account", "close", "open"}
  /\ port \in {"closed", "reset", "running"}
  /\ buffer \in Seq(Frame) /\ Len(buffer) <= Capacity
  /\ pending \subseteq Ids
  /\ frame \in Frame
  /\ frame_counter \in 0 .. Channels
  /\ miss_counter \in 0 .. 1
  /\ filled \in [Ids -> BOOLEAN]
  /\ error_count \in [Ids -> 0 .. ErrorModulus - 1]
  /\ age \in [Ids -> 0 .. MaxAge]
  /\ received \subseteq Ids \cup {Foreign}
  /\ unreported \subseteq Ids

Collecting == pc \in {"read", "store", "drain", "account"}

(* The counter that ends the collecting loop is the number of channels      *)
(* marked filled, through every repeat, unknown frame and time-out, and no  *)
(* mark survives from one cycle into the next.                              *)
CounterMatchesFilled ==
  Cardinality(Filled) = IF Collecting THEN frame_counter ELSE 0

(* A cycle that ends because it counted enough frames has stored a frame of *)
(* every channel: no frame can stand in for another.                        *)
CompleteMeansFull ==
  pc = "account" /\ frame_counter = Channels => Filled = Ids

(* A channel is marked filled only when a frame of it was taken from the    *)
(* receive queue in this very cycle.  This is what the comment "data        *)
(* received successfully" in CanRcvMsg says of the frame it copies.         *)
StoredWasReceived == Filled \subseteq received

(* The readers of mData can bound the age of a value by error_count: a value *)
(* entered the receive queue at most two sync frames before it was stored,   *)
(* and ages with the misses counted, one more while a cycle is under way.    *)
(* The backlog that late answers and incomplete cycles leave in the queue    *)
(* stops growing because the second incomplete cycle reopens the driver.     *)
AgeReported ==
  \A id \in Ids \ unreported :
    age[id] <= IF filled[id] THEN 2
               ELSE error_count[id] + 2 + (IF Collecting THEN 1 ELSE 0)

(* A controller that fell into reset mode is brought back. *)
Recovery == port = "reset" ~> port = "running"

(* A channel that is no longer stored is reported: again and again either a *)
(* frame is stored for it or its error_count reaches the 3 that             *)
(* proceedStatus turns into MVV_ERROR.  (With StoredWasReceived the frame   *)
(* stored is one that the channel has sent.)                                *)
StoredOrReported ==
  \A id \in Ids : []<>(filled[id] \/ error_count[id] >= 3)

(* The loop implements the accounting it promises. *)
Accounting ==
  INSTANCE CycleAccounting WITH misses <- miss_counter,
                                reopening <- pc \in {"close", "open"}
ImplementsAccounting == Accounting!Spec
=============================================================================
