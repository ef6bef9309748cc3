----------------------- MODULE CanAcquisition_proofs -----------------------
(***************************************************************************)
(* Theorems about CanAcquisition, for every channel list, queue capacity,  *)
(* counter width and outcome of an empty read.                             *)
(***************************************************************************)
EXTENDS CanAcquisition, FiniteSetTheorems, SequenceTheorems, TLAPS

(* A list has at most as many identifiers as entries, and exactly as many  *)
(* when no two entries are equal.                                          *)
LEMMA IdsFinite ==
  /\ Channels \in Nat \ {0}
  /\ IsFiniteSet(Ids)
  /\ Cardinality(Ids) \in Nat
  /\ Cardinality(Ids) <= Channels
  /\ IsInjective(FrameMap) => Cardinality(Ids) = Channels
<1>1. /\ Channels \in Nat
      /\ DOMAIN FrameMap = 1 .. Channels
      /\ FrameMap \in [1 .. Channels -> Ids]
      /\ Channels # 0
  BY FrameMapAssumption, LenProperties, EmptySeq DEF Channels, Ids
<1>2. FrameMap \in Surjection(1 .. Channels, Ids)
  BY <1>1 DEF Surjection, Ids, Range
<1>3. IsFiniteSet(1 .. Channels) /\ Cardinality(1 .. Channels) = Channels
  BY <1>1, FS_Interval
<1>4. /\ IsFiniteSet(Ids)
      /\ Cardinality(Ids) <= Channels
      /\ Cardinality(Ids) = Channels <=> FrameMap \in Injection(1 .. Channels, Ids)
  BY <1>2, <1>3, FS_Surjection
<1>5. IsInjective(FrameMap) => FrameMap \in Injection(1 .. Channels, Ids)
  BY <1>1 DEF Injection, IsInjective
<1> QED
  BY <1>1, <1>4, <1>5, FS_CardinalityType

(* The number of channels marked filled. *)
LEMMA FilledFinite ==
  /\ IsFiniteSet(Filled)
  /\ Cardinality(Filled) \in Nat
  /\ Cardinality(Filled) <= Channels
  /\ Cardinality(Filled) = Channels => Filled = Ids
<1>1. Filled \subseteq Ids
  BY DEF Filled
<1> QED
  BY <1>1, IdsFinite, FS_Subset, FS_CardinalityType

(* The loop is only entered, and a frame is only stored, while fewer        *)
(* frames than channels have been counted.                                  *)
RoomLeft == pc \in {"read", "store"} => frame_counter < Channels

Inv == TypeOK /\ CounterMatchesFilled /\ RoomLeft

LEMMA InitInv == Init => Inv
<1> SUFFICES ASSUME Init PROVE Inv
  OBVIOUS
<1>1. TypeOK
  BY IdsFinite, BoundsAssumption, EmptySeq DEF Init, TypeOK, Frame, Fresh
<1>2. CounterMatchesFilled
  <2>1. Filled = {}
    BY DEF Init, Filled
  <2> QED
    BY <2>1, FS_EmptySet DEF CounterMatchesFilled, Collecting, Init
<1> QED
  BY <1>1, <1>2 DEF Inv, RoomLeft, Init

(* Receive leaves the queue and the frame well typed. *)
LEMMA ReceiveType ==
  ASSUME TypeOK, Receive
  PROVE  /\ frame' \in Frame
         /\ buffer' \in Seq(Frame)
         /\ Len(buffer') <= Capacity
         /\ received' \subseteq Ids \cup {Foreign}
<1>1. CASE /\ buffer # <<>>
           /\ frame' = Head(buffer)
           /\ buffer' = Tail(buffer)
           /\ received' = received \cup {Head(buffer).id}
  <2>1. /\ Head(buffer) \in Frame
        /\ Tail(buffer) \in Seq(Frame)
        /\ Len(Tail(buffer)) = Len(buffer) - 1
        /\ Len(buffer) \in Nat
    BY <1>1, HeadTailProperties, LenProperties DEF TypeOK
  <2>2. Head(buffer).id \in Ids \cup {Foreign}
    BY <2>1 DEF Frame
  <2> QED
    BY <1>1, <2>1, <2>2, BoundsAssumption DEF TypeOK
<1>2. CASE UNCHANGED <<buffer, received>> /\ (UNCHANGED frame \/ frame' = Fresh(Foreign))
  BY <1>2, BoundsAssumption DEF TypeOK, Fresh, Frame
<1> QED
  BY <1>1, <1>2 DEF Receive

(* A frame that arrives keeps the queue well typed. *)
LEMMA ArriveType ==
  ASSUME TypeOK, NEW id \in Ids \cup {Foreign}, Arrive(id)
  PROVE  buffer' \in Seq(Frame) /\ Len(buffer') <= Capacity
<1>1. Fresh(id) \in Frame
  BY BoundsAssumption DEF Fresh, Frame
<1>2. /\ Append(buffer, Fresh(id)) \in Seq(Frame)
      /\ Len(Append(buffer, Fresh(id))) = Len(buffer) + 1
      /\ Len(buffer) \in Nat
  BY <1>1, LenProperties DEF TypeOK
<1> QED
  BY <1>2, BoundsAssumption DEF Arrive, TypeOK

LEMMA OlderType == \A n \in 0 .. MaxAge : Older(n) \in 0 .. MaxAge
  BY BoundsAssumption DEF Older

(* Marks that do not change keep the counter invariant. *)
LEMMA FilledUnchanged == UNCHANGED filled => Filled' = Filled
  BY DEF Filled

(* The same, for a step that stays inside or outside the collecting loop.   *)
LEMMA CounterKept ==
  ASSUME CounterMatchesFilled, UNCHANGED <<filled, frame_counter>>,
         Collecting' <=> Collecting
  PROVE  CounterMatchesFilled'
BY FilledUnchanged DEF CounterMatchesFilled

LEMMA SyncInv ==
  ASSUME Inv, Sync
  PROVE  Inv'
<1>1. /\ DOMAIN buffer = 1 .. Len(buffer)
      /\ Len(buffer) \in Nat
      /\ \A k \in 1 .. Len(buffer) : buffer[k] \in Frame
  BY LenProperties DEF Inv, TypeOK
<1>2. \A k \in 1 .. Len(buffer) : [buffer[k] EXCEPT !.age = Older(@)] \in Frame
  BY <1>1, OlderType DEF Frame
<1>3. buffer' \in [1 .. Len(buffer) -> Frame]
  BY <1>1, <1>2 DEF Sync
<1>4. buffer' \in Seq(Frame) /\ Len(buffer') = Len(buffer)
  BY <1>1, <1>3
<1>5. frame' \in Frame
  BY OlderType DEF Sync, Inv, TypeOK, Frame
<1>6. age' \in [Ids -> 0 .. MaxAge]
  BY OlderType DEF Sync, Inv, TypeOK
<1>7. pending' \subseteq Ids
  BY DEF Sync, Inv, TypeOK
<1>8. TypeOK'
  BY <1>4, <1>5, <1>6, <1>7, IdsFinite DEF Sync, Inv, TypeOK
<1>9. CounterMatchesFilled'
  BY FilledUnchanged DEF Sync, Inv, CounterMatchesFilled, Collecting
<1> QED
  BY <1>8, <1>9, IdsFinite DEF Inv, RoomLeft, Sync

LEMMA ReadInv ==
  ASSUME Inv, ReadFrame \/ ReadExpired
  PROVE  Inv'
<1>1. /\ frame' \in Frame
      /\ buffer' \in Seq(Frame)
      /\ Len(buffer') <= Capacity
      /\ received' \subseteq Ids \cup {Foreign}
  BY ReceiveType DEF Inv, ReadFrame, ReadExpired
<1>2. TypeOK'
  BY <1>1 DEF Inv, TypeOK, ReadFrame, ReadExpired, mData
<1>3. CounterMatchesFilled'
  BY CounterKept DEF Inv, ReadFrame, ReadExpired, mData, Collecting
<1> QED
  BY <1>2, <1>3 DEF Inv, RoomLeft, ReadFrame, ReadExpired

LEMMA DropInv ==
  ASSUME Inv, DropFrame
  PROVE  Inv'
<1>1. TypeOK'
  BY DEF Inv, TypeOK, DropFrame, bus, mData, history
<1>2. CounterMatchesFilled'
  BY CounterKept DEF Inv, DropFrame, mData, Collecting
<1> QED
  BY <1>1, <1>2 DEF Inv, RoomLeft, DropFrame

(* Storing a frame marks one more channel and counts one more frame. *)
LEMMA StoreInv ==
  ASSUME Inv, StoreFrame
  PROVE  Inv'
<1>1. frame.age \in 0 .. MaxAge
  BY DEF Inv, TypeOK, Frame
<1>2. frame_counter < Channels /\ frame_counter + 1 \in 0 .. Channels
  BY IdsFinite DEF Inv, RoomLeft, TypeOK, StoreFrame
<1>3. TypeOK'
  BY <1>1, <1>2 DEF Inv, TypeOK, StoreFrame, bus
<1>4. Filled' = Filled \cup {frame.id} /\ frame.id \notin Filled
  BY DEF Filled, StoreFrame, Inv, TypeOK
<1>5. Cardinality(Filled') = Cardinality(Filled) + 1
  BY <1>4, FilledFinite, FS_AddElement
<1>6. CounterMatchesFilled'
  BY <1>5 DEF Inv, CounterMatchesFilled, StoreFrame, Collecting
<1> QED
  BY <1>2, <1>3, <1>6 DEF Inv, RoomLeft, StoreFrame

LEMMA DrainInv ==
  ASSUME Inv, Drain
  PROVE  Inv'
<1>1. PICK kept \in 0 .. Len(buffer) : buffer' = SubSeq(buffer, 1, kept)
  BY DEF Drain
<1>2. \A k \in 1 .. kept : buffer[k] \in Frame
  BY <1>1, LenProperties, ElementOfSeq DEF Inv, TypeOK
<1>3. Len(buffer) \in Nat
  BY LenProperties DEF Inv, TypeOK
<1>4. SubSeq(buffer, 1, kept) \in Seq(Frame) /\ Len(SubSeq(buffer, 1, kept)) = kept
  BY <1>1, <1>2, <1>3, SubSeqProperties
<1>5. TypeOK'
  BY <1>1, <1>3, <1>4, BoundsAssumption DEF Inv, TypeOK, Drain, mData, history
<1>6. CounterMatchesFilled'
  BY CounterKept DEF Inv, Drain, mData, Collecting
<1> QED
  BY <1>5, <1>6 DEF Inv, RoomLeft, Drain

(* How often an identifier occurs is a number between 1 and Channels. *)
LEMMA OccurrencesType ==
  \A id \in Ids : Occurrences(id) \in Nat \ {0}
<1> TAKE id \in Ids
<1> DEFINE places == {k \in DOMAIN FrameMap : FrameMap[k] = id}
<1>1. IsFiniteSet(1 .. Channels) /\ DOMAIN FrameMap = 1 .. Channels
  BY FrameMapAssumption, LenProperties, IdsFinite, FS_Interval DEF Channels
<1>2. IsFiniteSet(places) /\ Cardinality(places) \in Nat
  BY <1>1, FS_Subset, FS_CardinalityType
<1>3. places # {}
  BY <1>1 DEF Ids, Range
<1> QED
  BY <1>2, <1>3, FS_EmptySet DEF Occurrences

LEMMA AccountInv ==
  ASSUME Inv, Account
  PROVE  Inv'
<1>1. \A id \in Ids : Recounted(id) \in 0 .. ErrorModulus - 1
  BY OccurrencesType, BoundsAssumption DEF Inv, TypeOK, Recounted
<1>2. miss_counter' \in 0 .. 1
  BY DEF Inv, TypeOK, Account, MissesAfter
<1>3. TypeOK'
  BY <1>1, <1>2 DEF Inv, TypeOK, Account, MarksCleared, Wrapped, bus
<1>4. Filled' = {}
  BY DEF Filled, Account, MarksCleared
<1>5. CounterMatchesFilled'
  BY <1>4, FS_EmptySet DEF CounterMatchesFilled, Collecting, Account
<1> QED
  BY <1>3, <1>5 DEF Inv, RoomLeft, Account

LEMMA ReopenInv ==
  ASSUME Inv, Close \/ \E mode \in {"reset", "running"} : Open(mode)
  PROVE  Inv'
<1>1. TypeOK'
  <2>1. CASE Close
    <3>1. <<>> \in Seq(Frame) /\ Len(<<>>) = 0
      BY EmptySeq
    <3> QED
      BY <2>1, <3>1, BoundsAssumption DEF Inv, TypeOK, Close, mData, history
  <2>2. CASE \E mode \in {"reset", "running"} : Open(mode)
    BY <2>2 DEF Inv, TypeOK, Open, mData, history
  <2> QED
    BY <2>1, <2>2
<1>2. CounterMatchesFilled'
  BY CounterKept DEF Inv, Close, Open, mData, Collecting
<1> QED
  BY <1>1, <1>2 DEF Inv, RoomLeft, Close, Open

LEMMA BusInv ==
  ASSUME Inv, Bus
  PROVE  Inv'
<1>1. CounterMatchesFilled' /\ RoomLeft'
  BY CounterKept DEF Inv, RoomLeft, Bus, Answer, ForeignFrame, BusOff, rx, Collecting
<1>2. CASE ForeignFrame
  BY <1>1, <1>2, ArriveType DEF Inv, TypeOK, ForeignFrame, rx
<1>3. CASE BusOff
  BY <1>1, <1>3 DEF Inv, TypeOK, BusOff, rx
<1>4. ASSUME NEW id \in Ids, Answer(id) PROVE Inv'
  BY <1>1, <1>4, ArriveType DEF Inv, TypeOK, Answer, rx
<1> QED
  BY <1>2, <1>3, <1>4 DEF Bus

LEMMA NextInv == Inv /\ [Next]_vars => Inv'
<1> SUFFICES ASSUME Inv, [Next]_vars PROVE Inv'
  OBVIOUS
<1>1. CASE runRecvCicle
  BY <1>1, SyncInv, ReadInv, DropInv, StoreInv, DrainInv, AccountInv, ReopenInv
     DEF runRecvCicle
<1>2. CASE Bus
  BY <1>2, BusInv
<1>3. CASE UNCHANGED vars
  <2>1. TypeOK' /\ RoomLeft'
    BY <1>3 DEF Inv, TypeOK, RoomLeft, vars
  <2>2. CounterMatchesFilled'
    BY <1>3, CounterKept DEF Inv, vars, Collecting
  <2> QED
    BY <2>1, <2>2 DEF Inv
<1> QED
  BY <1>1, <1>2, <1>3 DEF Next

THEOREM InvHolds == Spec => []Inv
BY InitInv, NextInv, PTL DEF Spec

(* Every variable of the polling thread keeps its type. *)
THEOREM TypeCorrect == Spec => []TypeOK
<1>1. Inv => TypeOK
  BY DEF Inv
<1> QED
  BY <1>1, InvHolds, PTL

(* frame_counter is the number of channels marked filled, and no mark is    *)
(* carried over into the next cycle.                                        *)
THEOREM CounterIsExact == Spec => []CounterMatchesFilled
<1>1. Inv => CounterMatchesFilled
  BY DEF Inv
<1> QED
  BY <1>1, InvHolds, PTL

(* A cycle that counted enough frames has stored one of every channel, also *)
(* when several entries of frameMap share an identifier.                    *)
THEOREM CompleteIsFull == Spec => []CompleteMeansFull
<1>1. Inv => CompleteMeansFull
  BY FilledFinite DEF Inv, CounterMatchesFilled, Collecting, CompleteMeansFull
<1> QED
  BY <1>1, InvHolds, PTL

----------------------------------------------------------------------------
(* With the driver leaving no old frame in canmsg, the marks of a cycle are *)
(* backed by frames of that cycle.  The frame about to be stored is either  *)
(* one that was read or one of no channel.                                  *)
Backed ==
  /\ StoredWasReceived
  /\ pc = "store" => frame.id \in received \cup {Foreign}

LEMMA InitBacked == Init => Backed
BY DEF Init, Backed, StoredWasReceived, Filled

LEMMA NextBacked ==
  ASSUME "stale" \notin EmptyReads, Inv, Backed, [Next]_vars
  PROVE  Backed'
<1>1. CASE Sync
  <2>1. Filled = {}
    BY <1>1, FilledFinite, FS_EmptySet DEF Inv, CounterMatchesFilled, Collecting, Sync
  <2> QED
    BY <1>1, <2>1, FilledUnchanged DEF Sync, Backed, StoredWasReceived
<1>2. CASE ReadFrame \/ ReadExpired
  <2>1. received \subseteq received' /\ frame'.id \in received' \cup {Foreign}
    BY <1>2 DEF ReadFrame, ReadExpired, Receive, Fresh
  <2> QED
    BY <1>2, <2>1, FilledUnchanged
       DEF Backed, StoredWasReceived, ReadFrame, ReadExpired, mData
<1>3. CASE StoreFrame
  <2>1. Filled' \subseteq Filled \cup {frame.id}
    BY <1>3 DEF StoreFrame, Filled, Inv, TypeOK
  <2> QED
    BY <1>3, <2>1, ForeignAssumption DEF StoreFrame, Backed, StoredWasReceived
<1>4. CASE Account
  <2>1. Filled' = {}
    BY <1>4 DEF Account, MarksCleared, Filled
  <2> QED
    BY <1>4, <2>1 DEF Account, Backed, StoredWasReceived
<1>5. CASE DropFrame \/ Drain \/ Close \/ \E mode \in {"reset", "running"} : Open(mode)
  BY <1>5, FilledUnchanged
     DEF DropFrame, Drain, Close, Open, Backed, StoredWasReceived, mData, history
<1>6. CASE Bus \/ UNCHANGED vars
  BY <1>6, FilledUnchanged
     DEF Bus, Answer, ForeignFrame, BusOff, rx, vars, Backed, StoredWasReceived
<1> QED
  BY <1>1, <1>2, <1>3, <1>4, <1>5, <1>6 DEF Next, runRecvCicle

(* If an empty read leaves no old frame in canmsg, a channel is marked      *)
(* filled only by a frame of it that was read in the same cycle.            *)
THEOREM StoredIsReceived ==
  ASSUME "stale" \notin EmptyReads
  PROVE  Spec => []StoredWasReceived
<1>1. Inv /\ Backed /\ [Next]_vars => Backed'
  BY NextBacked
<1>2. Backed => StoredWasReceived
  BY DEF Backed
<1> QED
  BY InitBacked, InvHolds, <1>1, <1>2, PTL DEF Spec

----------------------------------------------------------------------------
(* Why no value gets old.  A sync adds one frame of a channel at most, a    *)
(* complete cycle takes one at least, and a second incomplete cycle empties *)
(* the queue.  So the frames of a channel that are queued or to come are no *)
(* more than limit[id], and a frame with r - 1 of them before it has waited *)
(* no longer than limit[id] - r syncs.                                      *)
limit ==
  [id \in Ids |-> 1 + miss_counter + IF Collecting /\ id \notin received THEN 1 ELSE 0]

(* r numbers the queued frames of each channel in their order, so that the  *)
(* numbers stay within these limits.                                        *)
Ranked(r) ==
  \A k \in 1 .. Len(buffer) : buffer[k].id # Foreign =>
    /\ buffer[k].age + r[k] <= limit[buffer[k].id]
    /\ buffer[k].id \in pending => r[k] < limit[buffer[k].id]
    /\ \A j \in 1 .. k - 1 : buffer[j].id = buffer[k].id => r[j] < r[k]

Backlog == pc # "close" => \E r \in [1 .. Len(buffer) -> 1 .. 3] : Ranked(r)

Young == pc = "store" /\ frame.id # Foreign => frame.age <= 1 + miss_counter

AgeInv == Backlog /\ Young /\ AgeReported

LEMMA InitAge == Init => AgeInv
<1> SUFFICES ASSUME Init PROVE AgeInv
  OBVIOUS
<1>1. Len(buffer) = 0
  BY EmptySeq DEF Init
<1>2. [k \in 1 .. Len(buffer) |-> 1] \in [1 .. Len(buffer) -> 1 .. 3]
  OBVIOUS
<1>3. Ranked([k \in 1 .. Len(buffer) |-> 1])
  BY <1>1 DEF Ranked
<1> QED
  BY <1>2, <1>3 DEF Init, AgeInv, Backlog, Young, AgeReported

(* The queue as the lemmas need it. *)
LEMMA QueueType ==
  ASSUME Inv
  PROVE  /\ Len(buffer) \in Nat
         /\ \A k \in 1 .. Len(buffer) : /\ buffer[k] \in Frame
                                        /\ buffer[k].age \in Nat
                                        /\ buffer[k].id \in Ids \cup {Foreign}
         /\ miss_counter \in {0, 1}
<1>1. Len(buffer) \in Nat /\ \A k \in 1 .. Len(buffer) : buffer[k] \in Frame
  BY LenProperties, ElementOfSeq DEF Inv, TypeOK
<1>2. \A f \in Frame : f.age \in Nat /\ f.id \in Ids \cup {Foreign}
  BY BoundsAssumption DEF Frame
<1>3. miss_counter \in {0, 1}
  BY DEF Inv, TypeOK
<1> QED
  BY <1>1, <1>2, <1>3

LEMMA LimitType == Inv => limit \in [Ids -> 1 .. 3]
BY QueueType DEF limit

(* What does not touch the queue keeps its ranks, if no limit falls.        *)
LEMMA RanksKept ==
  ASSUME Inv, Inv', Backlog, pc # "close", UNCHANGED <<buffer, pending>>,
         \A id \in Ids : limit[id] <= limit'[id]
  PROVE  Backlog'
<1>1. PICK r \in [1 .. Len(buffer) -> 1 .. 3] : Ranked(r)
  BY DEF Backlog
<1>2. limit \in [Ids -> 1 .. 3] /\ limit' \in [Ids -> 1 .. 3]
  <2>1. Inv' => (limit \in [Ids -> 1 .. 3])'
    BY LimitType, PTL
  <2> QED
    BY <2>1, LimitType
<1>3. ASSUME NEW k \in 1 .. Len(buffer), buffer[k].id # Foreign
      PROVE  /\ buffer[k].age + r[k] <= limit'[buffer[k].id]
             /\ buffer[k].id \in pending => r[k] < limit'[buffer[k].id]
             /\ \A j \in 1 .. k - 1 : buffer[j].id = buffer[k].id => r[j] < r[k]
  <2>1. /\ buffer[k].id \in Ids /\ buffer[k].age \in Nat /\ r[k] \in 1 .. 3
        /\ limit[buffer[k].id] \in 1 .. 3 /\ limit'[buffer[k].id] \in 1 .. 3
        /\ limit[buffer[k].id] <= limit'[buffer[k].id]
    BY <1>1, <1>2, <1>3, QueueType
  <2> QED
    BY <1>1, <1>3, <2>1 DEF Ranked
<1>4. Ranked(r)'
  BY <1>3 DEF Ranked
<1> QED
  BY <1>1, <1>4 DEF Backlog

LEMMA SyncBacklog ==
  ASSUME Inv, Inv', Backlog, Sync
  PROVE  Backlog'
<1>1. PICK r \in [1 .. Len(buffer) -> 1 .. 3] : Ranked(r)
  BY DEF Backlog, Sync
<1>2. Len(buffer') = Len(buffer) /\ Len(buffer) \in Nat
  BY QueueType DEF Sync
<1>3. ASSUME NEW k \in 1 .. Len(buffer)
      PROVE  /\ buffer'[k].id = buffer[k].id
             /\ buffer'[k].age <= buffer[k].age + 1
             /\ buffer'[k].age \in Nat
  BY <1>3, QueueType, BoundsAssumption DEF Sync, Older, Frame
<1>4. \A id \in Ids : limit'[id] = limit[id] + 1
  BY QueueType DEF limit, Sync, Collecting
<1>5. ASSUME NEW k \in 1 .. Len(buffer), buffer[k].id # Foreign
      PROVE  /\ buffer'[k].age + r[k] <= limit[buffer[k].id] + 1
             /\ r[k] < limit[buffer[k].id] + 1
             /\ \A j \in 1 .. k - 1 : buffer'[j].id = buffer'[k].id => r[j] < r[k]
  <2>1. /\ buffer[k].age \in Nat /\ buffer'[k].age \in Nat
        /\ buffer'[k].age <= buffer[k].age + 1
        /\ r[k] \in 1 .. 3 /\ limit[buffer[k].id] \in 1 .. 3
    BY <1>1, <1>3, <1>5, QueueType, LimitType
  <2>2. buffer[k].age + r[k] <= limit[buffer[k].id]
    BY <1>1, <1>5 DEF Ranked
  <2>3. \A j \in 1 .. k - 1 : buffer'[j].id = buffer'[k].id => r[j] < r[k]
    BY <1>1, <1>2, <1>3, <1>5 DEF Ranked
  <2>4. PICK i, b, a, l : /\ i = buffer[k].age /\ b = buffer'[k].age
                          /\ a = r[k] /\ l = limit[buffer[k].id]
    OBVIOUS
  <2>5. b + a <= l + 1 /\ a < l + 1
    <3>1. i \in Nat /\ b \in Nat /\ a \in 1 .. 3 /\ l \in 1 .. 3 /\ b <= i + 1 /\ i + a <= l
      BY <2>1, <2>2, <2>4, Zenon
    <3> QED
      BY <3>1
  <2> QED
    BY <2>3, <2>4, <2>5, Zenon
<1>6. \A k \in 1 .. Len(buffer) : /\ buffer'[k].id = buffer[k].id
                                 /\ buffer[k].id # Foreign => buffer[k].id \in Ids
  BY <1>3, QueueType
<1>7. Ranked(r)'
  <2>1. ASSUME NEW k \in 1 .. Len(buffer), buffer'[k].id # Foreign
        PROVE  /\ limit'[buffer[k].id] = limit[buffer[k].id] + 1
               /\ buffer'[k].id = buffer[k].id
    <3>1. buffer[k].id \in Ids /\ buffer'[k].id = buffer[k].id
      BY <1>3, <2>1, QueueType
    <3> QED
      BY <1>4, <3>1
  <2> QED
    BY <1>2, <1>5, <2>1 DEF Ranked
<1> QED
  BY <1>1, <1>2, <1>7 DEF Backlog

(* Taking the head lowers the limit of its channel, the first time in a     *)
(* cycle, and with it the numbers of the frames behind it.                  *)
LEMMA ReadBacklog ==
  ASSUME Inv, Inv', Backlog, ReadFrame \/ ReadExpired
  PROVE  Backlog' /\ (frame'.id = Foreign \/ "stale" \in EmptyReads
                        \/ frame'.age <= 1 + miss_counter)
<1>1. PICK r \in [1 .. Len(buffer) -> 1 .. 3] : Ranked(r)
  BY DEF Backlog, ReadFrame, ReadExpired
<1>2. CASE buffer = <<>>
  <2>1. UNCHANGED <<buffer, pending, received, miss_counter>> /\ Collecting /\ Collecting'
    BY <1>2 DEF ReadFrame, ReadExpired, Receive, Collecting
  <2>2. \A id \in Ids : limit[id] <= limit'[id]
    BY <2>1, LimitType DEF limit
  <2>3. "stale" \in EmptyReads \/ frame' = Fresh(Foreign)
    BY <1>2 DEF ReadFrame, ReadExpired, Receive
  <2> QED
    BY <2>1, <2>2, <2>3, RanksKept DEF ReadFrame, ReadExpired, Fresh
<1>3. CASE buffer # <<>>
  <2> DEFINE h == buffer[1].id
             lowered(i) == IF i = h /\ h \notin received THEN limit[i] - 1 ELSE limit[i]
  <2>0. PICK s : s = [k \in 1 .. Len(buffer) - 1 |->
                        IF buffer[k + 1].id = h /\ h \notin received /\ h # Foreign
                          THEN r[k + 1] - 1 ELSE r[k + 1]]
    OBVIOUS
  <2>1. /\ frame' = buffer[1] /\ buffer' = Tail(buffer)
        /\ received' = received \cup {h}
        /\ UNCHANGED <<pending, miss_counter>> /\ Collecting /\ Collecting'
    BY <1>3, HeadTailProperties DEF ReadFrame, ReadExpired, Receive, Collecting, Inv, TypeOK
  <2>2. /\ Len(buffer) \in Nat \ {0}
        /\ Len(buffer') = Len(buffer) - 1
        /\ \A k \in 1 .. Len(buffer) - 1 : buffer'[k] = buffer[k + 1]
    BY <1>3, <2>1, HeadTailProperties, EmptySeq, QueueType DEF Inv, TypeOK
  <2>3. \A k \in 2 .. Len(buffer) : buffer[k].id = h /\ h # Foreign => r[k] > r[1]
    BY <1>1, <2>2 DEF Ranked
  <2>4. s \in [1 .. Len(buffer') -> 1 .. 3]
    <3> SUFFICES ASSUME NEW k \in 1 .. Len(buffer) - 1 PROVE s[k] \in 1 .. 3
      BY <2>0, <2>2
    <3>1. k + 1 \in 2 .. Len(buffer)
      BY <2>2
    <3>2. r[k + 1] \in 1 .. 3 /\ r[1] \in 1 .. 3
      BY <1>1, <2>2, <3>1
    <3> QED
      BY <2>0, <2>3, <3>1, <3>2
  <2>5. \A i \in Ids : limit'[i] = lowered(i)
    BY <2>1, QueueType DEF limit
  <2>6. Ranked(s)'
    <3> SUFFICES ASSUME NEW k \in 1 .. Len(buffer) - 1, buffer[k + 1].id # Foreign
                 PROVE  /\ buffer[k + 1].age + s[k] <= lowered(buffer[k + 1].id)
                        /\ buffer[k + 1].id \in pending => s[k] < lowered(buffer[k + 1].id)
                        /\ \A j \in 1 .. k - 1 : buffer[j + 1].id = buffer[k + 1].id
                                                => s[j] < s[k]
      <4>1. ASSUME NEW k \in 1 .. Len(buffer) - 1, buffer[k + 1].id # Foreign
            PROVE  buffer[k + 1].id \in Ids
        BY <2>2, <4>1, QueueType
      <4>2. ASSUME NEW k \in 1 .. Len(buffer) - 1, buffer[k + 1].id # Foreign
            PROVE  limit'[buffer[k + 1].id] = lowered(buffer[k + 1].id)
        BY <2>5, <4>1, <4>2
      <4> HIDE DEF lowered
      <4> QED
        BY <2>1, <2>2, <4>2 DEF Ranked
    <3>1. k + 1 \in 1 .. Len(buffer) /\ buffer[k + 1].id \in Ids /\ buffer[k + 1].age \in Nat
      BY <2>2, QueueType
    <3>2. limit[buffer[k + 1].id] \in 1 .. 3
      BY <3>1, LimitType
    <3>3. /\ buffer[k + 1].age + r[k + 1] <= limit[buffer[k + 1].id]
          /\ buffer[k + 1].id \in pending => r[k + 1] < limit[buffer[k + 1].id]
          /\ r[k + 1] \in 1 .. 3
      BY <1>1, <3>1 DEF Ranked
    <3>5. /\ buffer[k + 1].age + s[k] <= lowered(buffer[k + 1].id)
          /\ buffer[k + 1].id \in pending => s[k] < lowered(buffer[k + 1].id)
      BY <2>0, <3>1, <3>2, <3>3
    <3>4. ASSUME NEW j \in 1 .. k - 1, buffer[j + 1].id = buffer[k + 1].id
          PROVE  s[j] < s[k]
      <4>1. j + 1 \in 1 .. (k + 1) - 1 /\ j + 1 \in 1 .. Len(buffer) /\ j \in 1 .. Len(buffer) - 1
        BY <2>2
      <4>2. r[j + 1] < r[k + 1]
        BY <1>1, <3>1, <3>4, <4>1 DEF Ranked
      <4>3. r[j + 1] \in 1 .. 3 /\ r[k + 1] \in 1 .. 3
        BY <1>1, <3>1, <4>1
      <4> QED
        BY <2>0, <3>4, <4>1, <4>2, <4>3
    <3> QED
      BY <3>4, <3>5
  <2>7. h = Foreign \/ frame'.age <= 1 + miss_counter
    <3>1. h # Foreign => buffer[1].age + r[1] <= limit[h]
      BY <1>1, <2>2 DEF Ranked
    <3>2. \A i \in Ids : limit[i] <= 2 + miss_counter /\ limit[i] \in 1 .. 3
      BY QueueType, LimitType DEF limit
    <3>3. r[1] \in 1 .. 3 /\ buffer[1].age \in Nat /\ h \in Ids \cup {Foreign}
      BY <2>2, QueueType
    <3>4. h # Foreign => buffer[1].age <= 1 + miss_counter
      BY <3>1, <3>2, <3>3, QueueType
    <3> QED
      BY <2>1, <3>4
  <2> QED
    BY <2>1, <2>4, <2>6, <2>7 DEF Backlog
<1> QED
  BY <1>2, <1>3

LEMMA DrainBacklog ==
  ASSUME Inv, Inv', Backlog, Drain
  PROVE  Backlog'
<1>1. PICK r \in [1 .. Len(buffer) -> 1 .. 3] : Ranked(r)
  BY DEF Backlog, Drain
<1>2. PICK n \in 0 .. Len(buffer) : buffer' = SubSeq(buffer, 1, n)
  BY DEF Drain
<1>3. Len(buffer') = n /\ \A k \in 1 .. n : buffer'[k] = buffer[k]
  BY <1>2, QueueType, SubSeqProperties DEF Inv, TypeOK
<1>4. limit' = limit
  BY DEF limit, Drain, Collecting, history
<1>5. [k \in 1 .. n |-> r[k]] \in [1 .. n -> 1 .. 3]
  BY <1>1, QueueType
<1>6. Ranked([k \in 1 .. n |-> r[k]])'
  BY <1>1, <1>3, <1>4, QueueType DEF Ranked, Drain
<1> QED
  BY <1>3, <1>5, <1>6 DEF Backlog

(* A complete cycle has taken a frame of every channel; an incomplete one   *)
(* raises the limits or goes on to reopen.                                  *)
LEMMA AccountBacklog ==
  ASSUME Inv, Inv', Backed, Backlog, Account
  PROVE  Backlog'
<1>1. CASE Cardinality(Filled) = Channels
  <2>1. Ids \subseteq received
    BY <1>1, FilledFinite DEF Backed, StoredWasReceived
  <2>2. \A id \in Ids : limit'[id] = limit[id]
    BY <1>1, <2>1 DEF limit, Collecting, Account
  <2> QED
    BY <2>2, RanksKept, LimitType DEF Account, bus
<1>2. CASE Cardinality(Filled) # Channels /\ miss_counter = 0
  <2>1. miss_counter' = 1 /\ pc' = "sync"
    BY <1>2 DEF Account, MissesAfter, ReopenDue
  <2>2. \A id \in Ids : limit[id] <= limit'[id]
    BY <1>2, <2>1 DEF limit, Collecting
  <2> QED
    BY <2>2, RanksKept DEF Account, bus
<1>3. CASE Cardinality(Filled) # Channels /\ miss_counter = 1
  BY <1>3 DEF Account, ReopenDue, Backlog
<1> QED
  BY <1>1, <1>2, <1>3, QueueType

(* An answer takes the number kept free for it. *)
LEMMA ArriveBacklog ==
  ASSUME Inv, Inv', Backlog, NEW id \in Ids \cup {Foreign}, Arrive(id),
         UNCHANGED rx,
         id # Foreign => id \in pending /\ id \notin pending',
         pending' \subseteq pending
  PROVE  Backlog'
<1>1. SUFFICES ASSUME pc # "close" PROVE Backlog'
  BY DEF rx, Backlog
<1>2. PICK r \in [1 .. Len(buffer) -> 1 .. 3] : Ranked(r)
  BY <1>1 DEF Backlog
<1>3. limit' = limit
  BY DEF limit, rx, Collecting
<1>4. CASE buffer' = buffer
  <2>1. Ranked(r)'
    BY <1>2, <1>3, <1>4 DEF Ranked
  <2> QED
    BY <1>4, <1>2, <2>1 DEF Backlog
<1>5. CASE buffer' = Append(buffer, Fresh(id))
  <2>0. PICK n, s : n = Len(buffer)
                   /\ s = [k \in 1 .. n + 1 |-> IF k <= n THEN r[k] ELSE IF id \in Ids THEN limit[id] ELSE 1]
    OBVIOUS
  <2>1. /\ n \in Nat /\ Len(buffer') = n + 1
        /\ \A k \in 1 .. n : buffer'[k] = buffer[k]
        /\ buffer'[n + 1] = Fresh(id)
    <3>1. Fresh(id) \in Frame
      BY BoundsAssumption DEF Fresh, Frame
    <3> QED
      BY <1>5, <2>0, <3>1, QueueType, AppendProperties DEF Inv, TypeOK
  <2>2. s \in [1 .. n + 1 -> 1 .. 3] /\ \A k \in 1 .. n : s[k] = r[k]
    BY <1>2, <2>0, <2>1, LimitType
  <2>3. ASSUME NEW k \in 1 .. n, buffer[k].id # Foreign
        PROVE  /\ buffer[k].age + s[k] <= limit[buffer[k].id]
               /\ buffer[k].id \in pending' => s[k] < limit[buffer[k].id]
               /\ \A j \in 1 .. k - 1 : buffer[j].id = buffer[k].id => s[j] < s[k]
    BY <1>2, <2>0, <2>1, <2>2, <2>3 DEF Ranked
  <2>4. ASSUME id # Foreign
        PROVE  /\ 0 + s[n + 1] <= limit[id]
               /\ \A j \in 1 .. n : buffer[j].id = id => s[j] < s[n + 1]
    <3>1. s[n + 1] = limit[id] /\ limit[id] \in 1 .. 3
      BY <2>0, <2>1, <2>4, LimitType
    <3>2. \A j \in 1 .. n : buffer[j].id = id => r[j] < limit[id]
      BY <1>2, <2>0, <2>4 DEF Ranked
    <3> QED
      BY <2>1, <2>2, <3>1, <3>2
  <2>5. Ranked(s)'
    <3> SUFFICES ASSUME NEW k \in 1 .. n + 1, buffer'[k].id # Foreign
                 PROVE  /\ buffer'[k].age + s[k] <= limit[buffer'[k].id]
                        /\ buffer'[k].id \in pending' => s[k] < limit[buffer'[k].id]
                        /\ \A j \in 1 .. k - 1 : buffer'[j].id = buffer'[k].id => s[j] < s[k]
      BY <1>3, <2>1 DEF Ranked
    <3>1. CASE k \in 1 .. n
      BY <2>1, <2>3, <3>1
    <3>2. CASE k = n + 1
      BY <2>1, <2>4, <3>2 DEF Fresh
    <3> QED
      BY <2>1, <3>1, <3>2
  <2> QED
    BY <2>1, <2>2, <2>5 DEF Backlog
<1> QED
  BY <1>4, <1>5 DEF Arrive

LEMMA NextBacklog ==
  ASSUME "stale" \notin EmptyReads, Inv, Inv', Backed, Backlog, Young, [Next]_vars
  PROVE  Backlog' /\ Young'
<1>1. CASE Sync
  BY <1>1, SyncBacklog DEF Sync, Young
<1>2. CASE ReadFrame \/ ReadExpired
  BY <1>2, ReadBacklog DEF ReadFrame, ReadExpired, Young
<1>3. CASE Drain
  BY <1>3, DrainBacklog DEF Drain, Young
<1>4. CASE Account
  BY <1>4, AccountBacklog DEF Account, Young
<1>5. CASE DropFrame \/ StoreFrame
  <2>1. /\ UNCHANGED <<buffer, pending, miss_counter, received>>
        /\ Collecting /\ Collecting' /\ pc # "close" /\ pc' # "store"
    BY <1>5 DEF DropFrame, StoreFrame, bus, history, Collecting
  <2>2. \A id \in Ids : limit[id] <= limit'[id]
    BY <2>1, LimitType DEF limit
  <2> QED
    BY <2>1, <2>2, RanksKept DEF Young
<1>6. CASE Close
  <2>1. Len(buffer') = 0
    BY <1>6, EmptySeq DEF Close
  <2>2. PICK r : r = [k \in 1 .. Len(buffer') |-> 1]
    OBVIOUS
  <2>3. Ranked(r)' /\ r \in [1 .. Len(buffer') -> 1 .. 3]
    BY <2>1, <2>2 DEF Ranked
  <2> QED
    BY <1>6, <2>3 DEF Close, Backlog, Young
<1>7. CASE \E mode \in {"reset", "running"} : Open(mode)
  <2>1. UNCHANGED <<buffer, pending, miss_counter, received>> /\ pc # "close" /\ pc' = "sync"
    BY <1>7 DEF Open, history
  <2>2. \A id \in Ids : limit[id] <= limit'[id]
    BY <1>7, <2>1, LimitType DEF limit, Collecting, Open
  <2> QED
    BY <2>1, <2>2, RanksKept DEF Young
<1>8. CASE Bus
  <2>1. CASE ForeignFrame
    BY <1>8, <2>1, ArriveBacklog DEF ForeignFrame, rx, Young
  <2>2. CASE BusOff
    BY <2>2 DEF BusOff, rx, Backlog, Ranked, limit, Collecting, Young
  <2>3. ASSUME NEW id \in Ids, Answer(id) PROVE Backlog' /\ Young'
    BY <2>3, ArriveBacklog, ForeignAssumption DEF Answer, rx, Young
  <2> QED
    BY <1>8, <2>1, <2>2, <2>3 DEF Bus
<1>9. CASE UNCHANGED vars
  BY <1>9 DEF vars, Backlog, Ranked, limit, Collecting, Young
<1> QED
  BY <1>1, <1>2, <1>3, <1>4, <1>5, <1>6, <1>7, <1>8, <1>9 DEF Next, runRecvCicle

(* Outside the collecting loop no channel is marked. *)
LEMMA NoneMarked ==
  ASSUME Inv, ~Collecting
  PROVE  \A id \in Ids : ~filled[id]
<1>1. Filled = {}
  BY FilledFinite, FS_EmptySet DEF Inv, CounterMatchesFilled
<1> QED
  BY <1>1 DEF Filled, Inv, TypeOK

(* AgeReported when neither the values nor their counts change. *)
LEMMA AgesKept ==
  ASSUME Inv, AgeReported, UNCHANGED <<mData, unreported>>, Collecting' <=> Collecting
  PROVE  AgeReported'
BY DEF AgeReported, mData

LEMMA NextAge ==
  ASSUME Inv, Young, AgeReported, [Next]_vars
  PROVE  AgeReported'
<1>1. CASE Sync
  <2>1. \A id \in Ids : ~filled[id]
    BY <1>1, NoneMarked DEF Sync, Collecting
  <2>2. \A id \in Ids : age'[id] <= age[id] + 1 /\ age[id] \in Nat /\ age'[id] \in Nat
    BY <1>1, BoundsAssumption DEF Sync, Older, Inv, TypeOK
  <2>3. \A id \in Ids : error_count[id] \in Nat
    BY BoundsAssumption DEF Inv, TypeOK
  <2> QED
    BY <1>1, <2>1, <2>2, <2>3 DEF Sync, AgeReported, Collecting
<1>2. CASE StoreFrame
  <2>1. frame.age <= 2 /\ frame.id \in Ids
    BY <1>2, QueueType, ForeignAssumption, BoundsAssumption DEF StoreFrame, Young, Inv, TypeOK, Frame
  <2>2. Collecting /\ Collecting'
    BY <1>2 DEF StoreFrame, Collecting
  <2> QED
    BY <1>2, <2>1, <2>2 DEF StoreFrame, AgeReported, Inv, TypeOK
<1>3. CASE Account
  <2> SUFFICES ASSUME NEW id \in Ids, id \notin unreported'
               PROVE  age'[id] <= error_count'[id] + 2
    <3>1. ~Collecting' /\ \A id \in Ids : ~filled'[id]
      BY <1>3 DEF Account, MarksCleared, Collecting
    <3>2. \A id \in Ids : error_count'[id] \in Int
      BY <1>3, OccurrencesType, BoundsAssumption DEF Account, Recounted, Inv, TypeOK
    <3> QED
      BY <3>1, <3>2 DEF AgeReported
  <2>1. /\ age[id] \in Nat /\ error_count[id] \in Nat /\ Occurrences(id) \in Nat \ {0}
        /\ ErrorModulus \in Nat \ {0}
    BY OccurrencesType, BoundsAssumption DEF Inv, TypeOK
  <2>2. age'[id] = age[id] /\ error_count'[id] = Recounted(id)
        /\ id \notin unreported /\ id \notin Wrapped
    BY <1>3 DEF Account
  <2>3. CASE filled[id]
    <3>1. (Occurrences(id) - 1) % ErrorModulus \in Nat
      BY <2>1
    <3> QED
      BY <2>1, <2>2, <2>3, <3>1 DEF AgeReported, Recounted
  <2>4. CASE ~filled[id]
    <3>1. error_count[id] + Occurrences(id) < ErrorModulus
      BY <2>1, <2>2, <2>4 DEF Wrapped
    <3>2. (error_count[id] + Occurrences(id)) % ErrorModulus = error_count[id] + Occurrences(id)
      BY <2>1, <3>1
    <3>3. age[id] <= error_count[id] + 3
      BY <1>3, <2>1, <2>2, <2>4 DEF AgeReported, Account, Collecting
    <3>4. error_count'[id] = error_count[id] + Occurrences(id)
      BY <2>2, <2>4, <3>2 DEF Recounted
    <3> QED
      BY <2>1, <2>2, <3>3, <3>4
  <2> QED
    BY <2>3, <2>4
<1>4. CASE ReadFrame \/ ReadExpired \/ DropFrame \/ Drain
  BY <1>4, AgesKept DEF ReadFrame, ReadExpired, DropFrame, Drain, history, Collecting
<1>5. CASE Close \/ \E mode \in {"reset", "running"} : Open(mode)
  BY <1>5, AgesKept DEF Close, Open, history, Collecting
<1>6. CASE Bus \/ UNCHANGED vars
  BY <1>6, AgesKept DEF Bus, Answer, ForeignFrame, BusOff, rx, mData, vars, Collecting
<1> QED
  BY <1>1, <1>2, <1>3, <1>4, <1>5, <1>6 DEF Next, runRecvCicle

(* If an empty read leaves no old frame in canmsg, error_count tells the    *)
(* readers of mData how old a value can be, for every list of channels,     *)
(* capacity of the queue and width of the counter.                          *)
THEOREM AgesAreReported ==
  ASSUME "stale" \notin EmptyReads
  PROVE  Spec => []AgeReported
<1>1. Inv /\ Backed /\ [Next]_vars => Backed'
  BY NextBacked
<1>2. Inv /\ Inv' /\ Backed /\ AgeInv /\ [Next]_vars => AgeInv'
  BY NextBacklog, NextAge DEF AgeInv
<1>3. AgeInv => AgeReported
  BY DEF AgeInv
<1> QED
  BY InitBacked, InitAge, InvHolds, <1>1, <1>2, <1>3, PTL DEF Spec

----------------------------------------------------------------------------
LEMMA OnePlace ==
  ASSUME IsInjective(FrameMap), NEW id \in Ids
  PROVE  Occurrences(id) = 1
<1>1. PICK k \in DOMAIN FrameMap : FrameMap[k] = id
  BY DEF Ids, Range
<1>2. {j \in DOMAIN FrameMap : FrameMap[j] = id} = {k}
  BY <1>1 DEF IsInjective
<1> QED
  BY <1>2, FS_Singleton DEF Occurrences

LEMMA InitAccounting == Init => Accounting!Init
BY DEF Init, Accounting!Init

(* The accounting of a cycle is the abstract cycle that heard the channels  *)
(* marked filled.                                                           *)
LEMMA AccountIsCycle ==
  ASSUME IsInjective(FrameMap), Inv, Account
  PROVE  Accounting!Cycle(Filled)
<1>1. error_count' = [id \in Ids |-> IF id \in Filled THEN 0
                                    ELSE (error_count[id] + 1) % ErrorModulus]
  <2>1. ASSUME NEW id \in Ids
        PROVE  Recounted(id) = IF id \in Filled THEN 0
                               ELSE (error_count[id] + 1) % ErrorModulus
    BY <2>1, OnePlace, BoundsAssumption DEF Recounted, Filled
  <2> QED
    BY <2>1 DEF Account
<1>2. Filled = Ids <=> Cardinality(Filled) = Channels
  BY FilledFinite, IdsFinite
<1>3. CASE Filled = Ids
  BY <1>1, <1>2, <1>3 DEF Accounting!Cycle, Account
<1>4. CASE Filled # Ids
  <2>1. /\ miss_counter' = MissesAfter
        /\ pc' = IF ReopenDue THEN "close" ELSE "sync"
    BY <1>2, <1>4 DEF Account
  <2>2. miss_counter = 0 \/ miss_counter = 1
    BY DEF Inv, TypeOK
  <2>3. CASE miss_counter = 0
    <3>1. miss_counter' = (miss_counter + 1) % 2 /\ pc' = "sync"
      BY <2>1, <2>3 DEF MissesAfter, ReopenDue
    <3> QED
      BY <1>1, <1>2, <1>4, <2>3, <3>1 DEF Accounting!Cycle, Account
  <2>4. CASE miss_counter = 1
    <3>1. miss_counter' = (miss_counter + 1) % 2 /\ pc' = "close"
      BY <2>1, <2>4 DEF MissesAfter, ReopenDue
    <3> QED
      BY <1>1, <1>2, <1>4, <2>4, <3>1 DEF Accounting!Cycle, Account
  <2> QED
    BY <2>2, <2>3, <2>4
<1> QED
  BY <1>3, <1>4

LEMMA NextAccounting ==
  ASSUME IsInjective(FrameMap), Inv, [Next]_vars
  PROVE  [Accounting!Next]_(Accounting!vars)
<1>1. CASE Account
  <2>1. Filled \in SUBSET Ids
    BY DEF Filled
  <2> QED
    BY <1>1, <2>1, AccountIsCycle DEF Accounting!Next
<1>2. CASE \E mode \in {"reset", "running"} : Open(mode)
  BY <1>2 DEF Open, mData, Accounting!Next, Accounting!Reopen
<1>3. CASE Sync \/ ReadFrame \/ ReadExpired \/ DropFrame \/ StoreFrame \/ Drain \/ Close
  BY <1>3 DEF Sync, ReadFrame, ReadExpired, DropFrame, StoreFrame, Drain, Close,
              mData, Accounting!vars
<1>4. CASE Bus \/ UNCHANGED vars
  BY <1>4 DEF Bus, Answer, ForeignFrame, BusOff, rx, vars, Accounting!vars
<1> QED
  BY <1>1, <1>2, <1>3, <1>4 DEF Next, runRecvCicle

(* When no two channels share an identifier, the loop implements the        *)
(* abstract accounting: counters move together once a cycle, and the driver *)
(* is reopened after each second incomplete cycle and at no other time.     *)
THEOREM AccountingImplemented ==
  ASSUME IsInjective(FrameMap)
  PROVE  Spec => ImplementsAccounting
<1>1. Inv /\ [Next]_vars => [Accounting!Next]_(Accounting!vars)
  BY NextAccounting
<1> QED
  BY InitAccounting, InvHolds, <1>1, PTL DEF Spec, ImplementsAccounting, Accounting!Spec
============================================================================
