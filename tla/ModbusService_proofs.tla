------------------------- MODULE ModbusService_proofs -------------------------
(***************************************************************************)
(* Proofs about ModbusService: its types, and what a reply may hold.        *)
(*                                                                          *)
(* The argument for the replies.  Whoever moves registers holds sendMutex   *)
(* (Exclusive), so between two publications all published registers hold    *)
(* the last one (Whole), and what a slave has read while it holds the mutex *)
(* is of that publication (Reads).  A reply is therefore of one publication *)
(* and, as the number of publications never falls, of none before the one   *)
(* its client has been told of (Replies).                                   *)
(*                                                                          *)
(* The argument for the atomic store.  A publication and a request take     *)
(* effect when they lock the mutex; contents anticipates the registers that *)
(* its holder has still to move, which nobody else can touch, so that every *)
(* later step until the mutex is released changes nothing abstract.         *)
(***************************************************************************)
EXTENDS ModbusService, TLAPS

USE SizesAssumption, RequestsAssumption, NamesAssumption

----------------------------------------------------------------------------
(* The mutex: who publishes or moves holds it. *)
Exclusive ==
  /\ publishing <=> sendMutex = MainThread
  /\ \A s \in Slaves : pc[s] = "moving" <=> sendMutex = s

(* Register r holds publication t, unless a client has overwritten it. *)
Holds(r, t) == holdings[r] \in {t, Written}

(* Published registers hold the last publication; during one, those already *)
(* written hold it.                                                         *)
Whole ==
  \A r \in Registers : r < Published =>
    /\ ~publishing \/ r < at => Holds(r, tick)

(* What slave s has read in the published registers is of publication t. *)
Reads(s, t) ==
  \A j \in DOMAIN payload[s] :
    request[s].start + j - 1 < Published => payload[s][j] \in {t, Written}

(* How far a slave has come. *)
Progress ==
  \A s \in Slaves : pc[s] = "moving" /\ request[s].func # "writeHoldings" =>
    /\ index[s] = request[s].start + Len(payload[s])
    /\ request[s].start <= End(request[s]) => index[s] <= End(request[s])

(* The length of a finished reply. *)
Finished ==
  \A s \in Slaves :
    /\ pc[s] = "answering"
    /\ request[s].func # "writeHoldings"
    /\ request[s].start <= End(request[s])
    => request[s].start + Len(payload[s]) = End(request[s])

(* What slave s is about to tell is of one publication, not older than what *)
(* its client has been told before.                                         *)
Replies ==
  \A s \in Slaves :
    /\ seen[s] <= tick
    /\ pc[s] = "moving" => Reads(s, tick)
    /\ pc[s] = "answering" => \E t \in 0 .. tick : seen[s] <= t /\ Reads(s, t)

(* Every request still to be served, or being served, is to be answered. *)
Owed ==
  \A s \in Slaves :
    /\ Len(stream[s]) <= unanswered[s]
    /\ pc[s] # "waiting" => Len(stream[s]) < unanswered[s]

Inv == TypeOK /\ Owed /\ Exclusive /\ Whole /\ Progress /\ Finished /\ Replies

----------------------------------------------------------------------------
LEMMA RequestType ==
  ASSUME TypeOK, NEW s \in Slaves
  PROVE  /\ request[s] \in Request
         /\ Limit(request[s]) \in Nat
         /\ End(request[s]) \in Nat
         /\ End(request[s]) <= Limit(request[s])
<1>1. request[s] \in Request
  BY DEF TypeOK, NoRequest, Request, Functions
<1>. QED BY <1>1 DEF Limit, End, Request

(* Every variable keeps its type: the handlers move registers inside the    *)
(* sizes of their vectors only.                                             *)
LEMMA TypeInit == Init => TypeOK
<1>. SUFFICES ASSUME Init PROVE TypeOK
  OBVIOUS
<1>1. holdings \in [Registers -> Contents] BY DEF Init, Contents
<1>2. tick \in 0 .. MaxTicks /\ at \in 0 .. Published BY DEF Init, Published
<1>3. stream \in [Slaves -> Seq(Requests)] /\ payload \in [Slaves -> Seq(Contents)]
  BY DEF Init
<1>4. /\ pc \in [Slaves -> {"waiting", "locking", "moving", "answering"}]
      /\ request \in [Slaves -> Requests \cup {NoRequest}]
      /\ index \in [Slaves -> Nat]
  BY DEF Init
<1>5. /\ sent \in [Slaves -> 0 .. MaxRequests]
      /\ unanswered \in [Slaves -> Nat]
      /\ seen \in [Slaves -> 0 .. MaxTicks]
  BY DEF Init
<1>6. sendMutex \in Slaves \cup {Free, MainThread} /\ publishing \in BOOLEAN
  BY DEF Init
<1>. QED BY <1>1, <1>2, <1>3, <1>4, <1>5, <1>6 DEF TypeOK

LEMMA TypeStep ==
  ASSUME TypeOK, Owed, [Next]_vars PROVE TypeOK'
<1>. USE DEF main, client, slave
<1>1. CASE Publish
  <2>1. CASE BeginPublish BY <2>1 DEF BeginPublish, TypeOK, Published, Contents
  <2>2. CASE PublishRegister
    <3>1. at \in Registers /\ tick \in Contents
      BY <2>2 DEF PublishRegister, TypeOK, Published, Registers, Contents
    <3>2. holdings' \in [Registers -> Contents]
      BY <2>2, <3>1 DEF PublishRegister, TypeOK
    <3>3. at' \in 0 .. Published
      BY <2>2 DEF PublishRegister, TypeOK, Published
    <3>. QED BY <2>2, <3>2, <3>3 DEF PublishRegister, TypeOK
  <2>3. CASE EndPublish BY <2>3 DEF EndPublish, TypeOK
  <2>. QED BY <1>1, <2>1, <2>2, <2>3 DEF Publish
<1>2. ASSUME NEW s \in Slaves, Serve(s) PROVE TypeOK'
  <2>0. /\ request[s] \in Request /\ Limit(request[s]) \in Nat
        /\ End(request[s]) \in Nat /\ End(request[s]) <= Limit(request[s])
    BY RequestType
  <2>1. CASE Receive(s)
    <3>1. Head(stream[s]) \in Requests BY <2>1 DEF Receive, TypeOK
    <3>2. request' \in [Slaves -> Requests \cup {NoRequest}]
      BY <2>1, <3>1 DEF Receive, TypeOK
    <3>3. stream' \in [Slaves -> Seq(Requests)] BY <2>1 DEF Receive, TypeOK
    <3>4. pc' \in [Slaves -> {"waiting", "locking", "moving", "answering"}]
      BY <2>1 DEF Receive, TypeOK
    <3>. QED BY <2>1, <3>2, <3>3, <3>4 DEF Receive, TypeOK
  <2>2. CASE Lock(s)
    <3>1. index' \in [Slaves -> Nat] BY <2>0, <2>2 DEF Lock, TypeOK, Request
    <3>2. payload' \in [Slaves -> Seq(Contents)] BY <2>2 DEF Lock, TypeOK
    <3>3. pc' \in [Slaves -> {"waiting", "locking", "moving", "answering"}]
      BY <2>2 DEF Lock, TypeOK
    <3>. QED BY <2>2, <3>1, <3>2, <3>3 DEF Lock, TypeOK
  <2>3. CASE Move(s)
    <3>1. index' \in [Slaves -> Nat]
      <4>1. /\ index \in [Slaves -> Nat]
            /\ index' = [index EXCEPT ![s] = index[s] + 1]
        BY <2>3 DEF Move, TypeOK
      <4>. QED BY <4>1
    <3>2. Written \in Contents BY DEF Contents
    <3>3. request[s].func # "readInputsRegs" => index[s] \in Registers
      BY <2>0, <2>3 DEF Move, TypeOK, Limit, Registers
    <3>4. Content(s) \in Contents
      BY <3>2, <3>3 DEF Content, TypeOK
    <3>5. holdings' \in [Registers -> Contents]
      BY <2>3, <3>2 DEF Move, TypeOK
    <3>6. payload' \in [Slaves -> Seq(Contents)]
      <4>1. /\ payload \in [Slaves -> Seq(Contents)]
            /\ \/ payload' = payload
               \/ payload' = [payload EXCEPT ![s] = Append(payload[s], Content(s))]
        BY <2>3 DEF Move, TypeOK
      <4>2. Append(payload[s], Content(s)) \in Seq(Contents) BY <3>4, <4>1
      <4>. QED BY <4>1, <4>2
    <3>. QED BY <2>3, <3>1, <3>5, <3>6 DEF Move, TypeOK
  <2>4. CASE Unlock(s) BY <2>4 DEF Unlock, TypeOK
  <2>5. CASE Answer(s)
    <3>1. unanswered[s] \in Nat /\ unanswered[s] >= 1
      <4>1. /\ unanswered[s] \in Nat /\ Len(stream[s]) \in Nat
            /\ pc[s] = "answering"
        BY <2>5 DEF Answer, TypeOK
      <4>2. Len(stream[s]) < unanswered[s] BY <4>1 DEF Owed
      <4>. QED BY <4>1, <4>2
    <3>2. unanswered' \in [Slaves -> Nat]
      <4>1. /\ unanswered \in [Slaves -> Nat]
            /\ unanswered' = [unanswered EXCEPT ![s] = unanswered[s] - 1]
        BY <2>5 DEF Answer, TypeOK
      <4>2. unanswered[s] - 1 \in Nat BY <3>1
      <4>. QED BY <4>1, <4>2
    <3>3. Told(s) \subseteq 0 .. MaxTicks BY DEF Told, TypeOK, Contents
    <3>4. seen' \in [Slaves -> 0 .. MaxTicks]
      <4>1. CASE Told(s) = {} BY <2>5, <4>1 DEF Answer, TypeOK
      <4>2. CASE Told(s) # {}
        <5>1. (CHOOSE t \in Told(s) : TRUE) \in 0 .. MaxTicks BY <3>3, <4>2
        <5>. QED BY <2>5, <4>2, <5>1 DEF Answer, TypeOK
      <4>. QED BY <4>1, <4>2
    <3>5. pc' \in [Slaves -> {"waiting", "locking", "moving", "answering"}]
      BY <2>5 DEF Answer, TypeOK
    <3>. QED BY <2>5, <3>2, <3>4, <3>5 DEF Answer, TypeOK
  <2>. QED BY <1>2, <2>1, <2>2, <2>3, <2>4, <2>5 DEF Serve
<1>3. ASSUME NEW s \in Slaves, Send(s) PROVE TypeOK'
  <2>1. stream' \in [Slaves -> Seq(Requests)] BY <1>3 DEF Send, TypeOK
  <2>2. sent' \in [Slaves -> 0 .. MaxRequests]
    <3>1. /\ sent \in [Slaves -> 0 .. MaxRequests] /\ sent[s] < MaxRequests
          /\ sent' = [sent EXCEPT ![s] = sent[s] + 1]
      BY <1>3 DEF Send, TypeOK
    <3>. QED BY <3>1
  <2>3. unanswered' \in [Slaves -> Nat]
    <3>1. /\ unanswered \in [Slaves -> Nat]
          /\ unanswered' = [unanswered EXCEPT ![s] = unanswered[s] + 1]
      BY <1>3 DEF Send, TypeOK
    <3>. QED BY <3>1
  <2>. QED BY <1>3, <2>1, <2>2, <2>3 DEF Send, TypeOK
<1>4. CASE UNCHANGED vars BY <1>4 DEF vars, TypeOK
<1>. QED BY <1>1, <1>2, <1>3, <1>4 DEF Next

LEMMA OwedStep ==
  ASSUME TypeOK, Owed, [Next]_vars PROVE Owed'
<1>. USE DEF main, client, slave
<1>1. CASE Publish
  BY <1>1 DEF Publish, BeginPublish, PublishRegister, EndPublish, Owed
<1>2. ASSUME NEW s \in Slaves, Serve(s) PROVE Owed'
  <2>1. CASE Receive(s)
    <3>1. Len(stream[s]) >= 1 BY <2>1 DEF Receive, TypeOK
    <3>2. /\ unanswered' = unanswered
          /\ stream'[s] = <<>>
          /\ \A u \in Slaves \ {s} : stream'[u] = stream[u] /\ pc'[u] = pc[u]
          /\ pc[s] = "waiting"
      BY <2>1 DEF Receive, TypeOK
    <3>3. /\ unanswered \in [Slaves -> Nat] /\ Len(stream[s]) \in Nat
          /\ Len(stream'[s]) = 0
      BY <3>2 DEF TypeOK
    <3>. QED BY <3>1, <3>2, <3>3 DEF Owed
  <2>2. CASE Lock(s) BY <2>2 DEF Lock, Owed, TypeOK
  <2>3. CASE Move(s) BY <2>3 DEF Move, Owed, TypeOK
  <2>4. CASE Unlock(s) BY <2>4 DEF Unlock, Owed, TypeOK
  <2>5. CASE Answer(s)
    <3>1. /\ pc[s] = "answering" /\ pc'[s] = "waiting" /\ stream' = stream
          /\ unanswered'[s] = unanswered[s] - 1
          /\ \A u \in Slaves \ {s} : unanswered'[u] = unanswered[u] /\ pc'[u] = pc[u]
      BY <2>5 DEF Answer, TypeOK
    <3>2. unanswered[s] \in Nat /\ Len(stream[s]) \in Nat BY DEF TypeOK
    <3>. QED BY <3>1, <3>2 DEF Owed
  <2>. QED BY <1>2, <2>1, <2>2, <2>3, <2>4, <2>5 DEF Serve
<1>3. ASSUME NEW s \in Slaves, Send(s) PROVE Owed'
  <2>1. PICK r \in Requests : stream' = [stream EXCEPT ![s] = Append(@, r)]
    BY <1>3 DEF Send
  <2>2. Len(stream'[s]) = Len(stream[s]) + 1 BY <2>1 DEF TypeOK
  <2>3. /\ pc' = pc
        /\ unanswered'[s] = unanswered[s] + 1
        /\ \A u \in Slaves \ {s} : unanswered'[u] = unanswered[u] /\ stream'[u] = stream[u]
    BY <1>3, <2>1 DEF Send, TypeOK
  <2>4. unanswered[s] \in Nat /\ Len(stream[s]) \in Nat BY DEF TypeOK
  <2>. QED BY <2>2, <2>3, <2>4 DEF Owed
<1>4. CASE UNCHANGED vars BY <1>4 DEF vars, Owed
<1>. QED BY <1>1, <1>2, <1>3, <1>4 DEF Next

----------------------------------------------------------------------------
LEMMA ExclusiveStep ==
  ASSUME TypeOK, Exclusive, [Next]_vars PROVE Exclusive'
<1>. USE DEF main, client, slave, Free, MainThread
<1>0. \A s \in Slaves : s # Free /\ s # MainThread
  OBVIOUS
<1>1. CASE Publish
  BY <1>0, <1>1 DEF Publish, BeginPublish, PublishRegister, EndPublish, Exclusive
<1>2. ASSUME NEW s \in Slaves, Serve(s) PROVE Exclusive'
  <2>1. CASE Receive(s) BY <2>1 DEF Receive, Exclusive, TypeOK
  <2>2. CASE Lock(s) 
    <3>1. /\ sendMutex = Free /\ sendMutex' = s /\ publishing' = publishing
          /\ pc'[s] = "moving" /\ \A u \in Slaves \ {s} : pc'[u] = pc[u]
      BY <2>2 DEF Lock, TypeOK
    <3>. QED BY <1>0, <3>1 DEF Exclusive
  <2>3. CASE Move(s) BY <2>3 DEF Move, Exclusive
  <2>4. CASE Unlock(s) 
    <3>1. /\ pc[s] = "moving" /\ sendMutex' = Free /\ publishing' = publishing
          /\ pc'[s] = "answering" /\ \A u \in Slaves \ {s} : pc'[u] = pc[u]
      BY <2>4 DEF Unlock, TypeOK
    <3>. QED BY <1>0, <3>1 DEF Exclusive
  <2>5. CASE Answer(s) BY <2>5 DEF Answer, Exclusive, TypeOK
  <2>. QED BY <1>2, <2>1, <2>2, <2>3, <2>4, <2>5 DEF Serve
<1>3. ASSUME NEW s \in Slaves, Send(s) PROVE Exclusive'
  BY <1>3 DEF Send, Exclusive
<1>4. CASE UNCHANGED vars BY <1>4 DEF vars, Exclusive
<1>. QED BY <1>1, <1>2, <1>3, <1>4 DEF Next

LEMMA WholeStep ==
  ASSUME TypeOK, Exclusive, Whole, [Next]_vars PROVE Whole'
<1>. USE DEF main, client, slave
<1>1. CASE Publish
  <2>1. CASE BeginPublish BY <2>1 DEF BeginPublish, Whole, Registers
  <2>2. CASE PublishRegister
    <3>. SUFFICES ASSUME NEW r \in Registers, r < Published, r < at'
                  PROVE  Holds(r, tick)'
      BY <2>2 DEF PublishRegister, Whole
    <3>1. at \in Nat /\ at' = at + 1 /\ r \in Nat
      BY <2>2 DEF PublishRegister, TypeOK, Registers
    <3>2. CASE r = at BY <2>2, <3>2 DEF PublishRegister, TypeOK, Holds
    <3>3. CASE r < at BY <2>2, <3>1, <3>3 DEF PublishRegister, TypeOK, Holds, Whole
    <3>. QED BY <3>1, <3>2, <3>3
  <2>3. CASE EndPublish
    BY <2>3 DEF EndPublish, TypeOK, Whole, Holds, Registers, Published
  <2>. QED BY <1>1, <2>1, <2>2, <2>3 DEF Publish
<1>2. ASSUME NEW s \in Slaves, Serve(s) PROVE Whole'
  <2>1. CASE Move(s) BY <2>1 DEF Move, Whole, Holds, TypeOK
  <2>2. CASE Receive(s) \/ Lock(s) \/ Unlock(s) \/ Answer(s)
    BY <2>2 DEF Receive, Lock, Unlock, Answer, Whole, Holds
  <2>. QED BY <1>2, <2>1, <2>2 DEF Serve
<1>3. ASSUME NEW s \in Slaves, Send(s) PROVE Whole'
  BY <1>3 DEF Send, Whole, Holds
<1>4. CASE UNCHANGED vars BY <1>4 DEF vars, Whole, Holds
<1>. QED BY <1>1, <1>2, <1>3, <1>4 DEF Next

LEMMA ProgressStep ==
  ASSUME TypeOK, Progress, [Next]_vars PROVE Progress'
<1>. USE DEF main, client, slave
<1>1. CASE Publish
  BY <1>1 DEF Publish, BeginPublish, PublishRegister, EndPublish, Progress
<1>2. ASSUME NEW s \in Slaves, Serve(s) PROVE Progress'
  <2>0. /\ request[s] \in Request /\ Limit(request[s]) \in Nat
        /\ End(request[s]) \in Nat /\ End(request[s]) <= Limit(request[s])
    BY RequestType
  <2>1. CASE Receive(s) BY <2>1 DEF Receive, Progress, TypeOK
  <2>2. CASE Lock(s)
    <3>1. request[s].start \in Nat BY <2>0 DEF Request
    <3>. QED BY <2>2, <3>1 DEF Lock, Progress, TypeOK
  <2>3. CASE Move(s)
    <3>1. request[s].start \in Nat /\ index[s] \in Nat /\ payload[s] \in Seq(Contents)
      BY <2>0 DEF Request, TypeOK
    <3>2. request[s].func # "writeHoldings" => Len(payload'[s]) = Len(payload[s]) + 1
      BY <2>3, <3>1 DEF Move, TypeOK
    <3>3. /\ request' = request /\ pc' = pc
          /\ index[s] < End(request[s]) /\ index'[s] = index[s] + 1
          /\ \A u \in Slaves \ {s} : index'[u] = index[u] /\ payload'[u] = payload[u]
      BY <2>3 DEF Move, TypeOK
    <3>4. Len(payload[s]) \in Nat BY <3>1
    <3>. SUFFICES ASSUME NEW u \in Slaves, pc[u] = "moving", request[u].func # "writeHoldings"
                  PROVE  /\ index'[u] = request[u].start + Len(payload'[u])
                         /\ request[u].start <= End(request[u]) => index'[u] <= End(request[u])
      BY <3>3 DEF Progress
    <3>5. CASE u = s
      <4>1. index[s] = request[s].start + Len(payload[s]) BY <3>5 DEF Progress
      <4>2. index'[s] <= End(request[s]) BY <2>0, <3>1, <3>3
      <4>3. Len(payload'[s]) = Len(payload[s]) + 1 BY <3>2, <3>5
      <4>. QED BY <3>1, <3>3, <3>4, <3>5, <4>1, <4>2, <4>3
    <3>6. CASE u # s BY <3>3, <3>6 DEF Progress
    <3>. QED BY <3>5, <3>6
  <2>4. CASE Unlock(s) BY <2>4 DEF Unlock, Progress, TypeOK
  <2>5. CASE Answer(s) BY <2>5 DEF Answer, Progress, TypeOK
  <2>. QED BY <1>2, <2>1, <2>2, <2>3, <2>4, <2>5 DEF Serve
<1>3. ASSUME NEW s \in Slaves, Send(s) PROVE Progress'
  BY <1>3 DEF Send, Progress
<1>4. CASE UNCHANGED vars BY <1>4 DEF vars, Progress
<1>. QED BY <1>1, <1>2, <1>3, <1>4 DEF Next

LEMMA FinishedStep ==
  ASSUME TypeOK, Progress, Finished, [Next]_vars PROVE Finished'
<1>. USE DEF main, client, slave
<1>1. CASE Publish
  BY <1>1 DEF Publish, BeginPublish, PublishRegister, EndPublish, Finished
<1>2. ASSUME NEW s \in Slaves, Serve(s) PROVE Finished'
  <2>0. /\ request[s] \in Request /\ Limit(request[s]) \in Nat
        /\ End(request[s]) \in Nat /\ End(request[s]) <= Limit(request[s])
    BY RequestType
  <2>1. CASE Receive(s) BY <2>1 DEF Receive, Finished, TypeOK
  <2>2. CASE Lock(s) BY <2>2 DEF Lock, Finished, TypeOK
  <2>3. CASE Move(s) BY <2>3 DEF Move, Finished, TypeOK
  <2>4. CASE Unlock(s)
    <3>1. index[s] \in Nat /\ index[s] >= End(request[s])
      BY <2>4 DEF Unlock, TypeOK
    <3>. QED BY <2>0, <2>4, <3>1 DEF Unlock, Finished, Progress, TypeOK
  <2>5. CASE Answer(s) BY <2>5 DEF Answer, Finished, TypeOK
  <2>. QED BY <1>2, <2>1, <2>2, <2>3, <2>4, <2>5 DEF Serve
<1>3. ASSUME NEW s \in Slaves, Send(s) PROVE Finished'
  BY <1>3 DEF Send, Finished
<1>4. CASE UNCHANGED vars BY <1>4 DEF vars, Finished
<1>. QED BY <1>1, <1>2, <1>3, <1>4 DEF Next

(* A register moved into a reply is of the last publication. *)
LEMMA MoveReads ==
  ASSUME TypeOK, Exclusive, Whole, Progress, Replies, NEW s \in Slaves, Move(s)
  PROVE  Reads(s, tick)'
<1>. USE DEF main, client, slave
<1>0. /\ request[s] \in Request /\ Limit(request[s]) \in Nat
      /\ End(request[s]) \in Nat /\ End(request[s]) <= Limit(request[s])
  BY RequestType
<1>1. Reads(s, tick) /\ request' = request /\ tick' = tick
  BY DEF Move, Replies
<1>2. CASE request[s].func = "writeHoldings"
  BY <1>1, <1>2 DEF Move, Reads
<1>3. CASE request[s].func # "writeHoldings"
  <2>1. /\ payload[s] \in Seq(Contents)
        /\ payload' = [payload EXCEPT ![s] = Append(@, Content(s))]
        /\ index[s] = request[s].start + Len(payload[s])
        /\ request[s].start \in Nat /\ index[s] \in Nat
    BY <1>0, <1>3 DEF Move, Progress, TypeOK, Request
  <2>2. payload'[s] = Append(payload[s], Content(s)) BY <2>1 DEF TypeOK
  <2>3. index[s] < Published => Content(s) \in {tick, Written}
    <3>1. CASE request[s].func = "readInputsRegs" BY <3>1 DEF Content
    <3>2. CASE request[s].func # "readInputsRegs"
      <4>1. ~publishing BY DEF Move, Exclusive
      <4>2. index[s] \in Registers BY <1>0, <2>1, <3>2 DEF Move, Limit, Registers
      <4>. QED BY <3>2, <4>1, <4>2 DEF Content, Whole, Holds
    <3>. QED BY <3>1, <3>2
  <2>. SUFFICES ASSUME NEW j \in DOMAIN payload'[s],
                       request[s].start + j - 1 < Published
                PROVE  payload'[s][j] \in {tick, Written}
    BY <1>1 DEF Reads
  <2>4. j \in 1 .. Len(payload[s]) + 1 BY <2>1, <2>2
  <2>5. CASE j = Len(payload[s]) + 1
    <3>1. payload'[s][j] = Content(s) BY <2>1, <2>2, <2>5
    <3>2. index[s] < Published BY <2>1, <2>5
    <3>. QED BY <2>3, <3>1, <3>2
  <2>6. CASE j \in 1 .. Len(payload[s])
    <3>1. payload'[s][j] = payload[s][j] /\ j \in DOMAIN payload[s]
      BY <2>1, <2>2, <2>6
    <3>. QED BY <1>1, <3>1 DEF Reads
  <2>. QED BY <2>4, <2>5, <2>6, <2>1
<1>. QED BY <1>2, <1>3

LEMMA RepliesStep ==
  ASSUME TypeOK, Exclusive, Whole, Progress, Replies, [Next]_vars PROVE Replies'
<1>. USE DEF main, client, slave
<1>1. CASE Publish
  <2>1. CASE BeginPublish
    <3>. SUFFICES ASSUME NEW s \in Slaves
                  PROVE  /\ seen'[s] <= tick'
                         /\ pc'[s] # "moving"
                         /\ pc'[s] = "answering" =>
                              \E t \in 0 .. tick' : seen'[s] <= t /\ Reads(s, t)'
      BY DEF Replies
    <3>1. pc[s] # "moving" BY <2>1 DEF BeginPublish, Exclusive
    <3>2. tick \in Nat /\ tick' = tick + 1 /\ seen[s] \in Nat
      BY <2>1 DEF BeginPublish, TypeOK
    <3>3. ASSUME pc[s] = "answering"
          PROVE  \E t \in 0 .. tick' : seen'[s] <= t /\ Reads(s, t)'
      <4>1. PICK t \in 0 .. tick : seen[s] <= t /\ Reads(s, t)
        BY <3>3 DEF Replies
      <4>2. t \in 0 .. tick' BY <3>2
      <4>3. seen'[s] <= t /\ Reads(s, t)' BY <2>1, <4>1 DEF BeginPublish, Reads
      <4>. QED BY <4>2, <4>3
    <3>. QED BY <2>1, <3>1, <3>2, <3>3 DEF BeginPublish, Replies
  <2>2. CASE PublishRegister BY <2>2 DEF PublishRegister, Replies, Reads
  <2>3. CASE EndPublish BY <2>3 DEF EndPublish, Replies, Reads
  <2>. QED BY <1>1, <2>1, <2>2, <2>3 DEF Publish
<1>2. ASSUME NEW s \in Slaves, Serve(s) PROVE Replies'
  <2>0. tick' = tick BY <1>2 DEF Serve, Receive, Lock, Move, Unlock, Answer
  <2>. SUFFICES ASSUME NEW u \in Slaves
                PROVE  /\ seen'[u] <= tick
                       /\ pc'[u] = "moving" => Reads(u, tick)'
                       /\ pc'[u] = "answering" =>
                            \E t \in 0 .. tick : seen'[u] <= t /\ Reads(u, t)'
    BY <2>0 DEF Replies
  <2>6. CASE u # s
    <3>1. /\ seen'[u] = seen[u] /\ pc'[u] = pc[u]
          /\ request'[u] = request[u] /\ payload'[u] = payload[u]
      BY <1>2, <2>6 DEF Serve, Receive, Lock, Move, Unlock, Answer, TypeOK
    <3>2. \A t : Reads(u, t)' = Reads(u, t) BY <3>1 DEF Reads
    <3>. QED BY <2>0, <3>1, <3>2 DEF Replies
  <2>7. CASE u = s
    <3>0. seen[s] <= tick BY DEF Replies
    <3>1. CASE Receive(s) BY <2>7, <3>0, <3>1 DEF Receive, TypeOK
    <3>2. CASE Lock(s)
      <4>1. payload'[s] = <<>> /\ pc'[s] = "moving" BY <3>2 DEF Lock, TypeOK
      <4>2. Reads(s, tick)' BY <2>0, <4>1 DEF Reads
      <4>3. seen' = seen BY <3>2 DEF Lock
      <4>. QED BY <2>0, <2>7, <3>0, <4>1, <4>2, <4>3
    <3>3. CASE Move(s)
      <4>1. Reads(s, tick)' BY <3>3, MoveReads
      <4>. QED BY <2>0, <2>7, <3>0, <3>3, <4>1 DEF Move
    <3>4. CASE Unlock(s)
      <4>1. Reads(s, tick) BY <3>4 DEF Unlock, Replies
      <4>2. Reads(s, tick)' BY <2>0, <3>4, <4>1 DEF Unlock, Reads
      <4>3. tick \in 0 .. tick BY DEF TypeOK
      <4>4. seen' = seen /\ pc'[s] = "answering" BY <3>4 DEF Unlock, TypeOK
      <4>. QED BY <2>0, <2>7, <3>0, <4>2, <4>3, <4>4
    <3>5. CASE Answer(s)
      <4>1. PICK t \in 0 .. tick : seen[s] <= t /\ Reads(s, t)
        BY <3>5 DEF Answer, Replies
      <4>2. Told(s) \subseteq {t} BY <4>1 DEF Told, Reads
      <4>3. CASE Told(s) = {}
        BY <2>7, <3>0, <3>5, <4>3 DEF Answer, TypeOK
      <4>4. CASE Told(s) # {}
        <5>1. (CHOOSE v \in Told(s) : TRUE) = t BY <4>2, <4>4
        <5>2. seen'[s] = t BY <3>5, <4>4, <5>1 DEF Answer, TypeOK
        <5>3. t <= tick BY <4>1
        <5>. QED BY <2>7, <3>5, <5>2, <5>3 DEF Answer, TypeOK
      <4>. QED BY <4>3, <4>4
    <3>. QED BY <1>2, <3>1, <3>2, <3>3, <3>4, <3>5 DEF Serve
  <2>. QED BY <2>6, <2>7
<1>3. ASSUME NEW s \in Slaves, Send(s) PROVE Replies'
  BY <1>3 DEF Send, Replies, Reads
<1>4. CASE UNCHANGED vars BY <1>4 DEF vars, Replies, Reads
<1>. QED BY <1>1, <1>2, <1>3, <1>4 DEF Next

----------------------------------------------------------------------------
LEMMA InvInit == Init => Inv
<1>. SUFFICES ASSUME Init PROVE Inv
  OBVIOUS
<1>1. TypeOK BY TypeInit
<1>0. /\ tick = 0 /\ at = 0 /\ ~publishing /\ sendMutex = Free
      /\ holdings = [r \in Registers |-> 0]
      /\ \A s \in Slaves : pc[s] = "waiting" /\ seen[s] = 0
  BY DEF Init
<1>2. Progress /\ Finished BY <1>0 DEF Progress, Finished
<1>5. Owed
  <2>1. \A s \in Slaves : Len(stream[s]) = 0 /\ unanswered[s] = 0 BY DEF Init
  <2>. SUFFICES ASSUME NEW s \in Slaves
                PROVE  Len(stream[s]) <= unanswered[s] /\ pc[s] = "waiting"
    BY DEF Owed
  <2>2. Len(stream[s]) = 0 /\ unanswered[s] = 0 BY <2>1
  <2>. QED BY <1>0, <2>2
<1>3. Exclusive /\ Whole BY <1>0 DEF Exclusive, Whole, Holds, Free, MainThread
<1>4. Replies
  <2>1. ASSUME NEW s \in Slaves PROVE seen[s] <= tick
    <3>1. seen[s] = 0 /\ tick = 0 BY <1>0
    <3>. QED BY <3>1
  <2>2. \A s \in Slaves : pc[s] # "moving" /\ pc[s] # "answering" BY <1>0
  <2>. QED BY <2>1, <2>2, Zenon DEF Replies
<1>. QED BY <1>1, <1>2, <1>3, <1>4, <1>5 DEF Inv

LEMMA InvStep == Inv /\ [Next]_vars => Inv'
BY TypeStep, OwedStep, ExclusiveStep, WholeStep, ProgressStep, FinishedStep, RepliesStep
   DEF Inv

LEMMA Invariant == Spec => []Inv
BY InvInit, InvStep, PTL DEF Spec

(* Every variable has its type: publishing and the handlers never leave the *)
(* registers, and no request is answered that was not sent.                 *)
THEOREM TypeCorrect == Spec => []TypeOK
<1>1. Inv => TypeOK BY DEF Inv
<1>. QED BY <1>1, Invariant, PTL

(* What one reply of readHoldings tells is of one publication: sendMutex    *)
(* keeps proceedData and the slaves apart.                                  *)
THEOREM RepliesAreWhole == Spec => []OneTick
<1>1. Inv => OneTick
  BY DEF Inv, Replies, OneTick, Told, Reads
<1>. QED BY <1>1, Invariant, PTL

(* No client is told of a publication older than one it was told of before. *)
THEOREM RepliesNeverOlder == Spec => []NeverOlder
<1>1. Inv => NeverOlder
  BY DEF Inv, Replies, NeverOlder, Told, Reads
<1>. QED BY <1>1, Invariant, PTL

(* readHoldings sends the registers it has announced, for every request     *)
(* inside the registers that the byte count can express.                    *)
THEOREM RepliesAreComplete == Spec => []LengthAnnounced
<1>1. ASSUME Inv PROVE LengthAnnounced
  <2>. SUFFICES ASSUME NEW s \in Slaves,
                       pc[s] = "answering",
                       request[s].func = "readHoldings",
                       request[s].start + request[s].amount <= Size,
                       2 * request[s].amount < ByteModulus
                PROVE  2 * Len(payload[s]) = Announced(request[s])
    BY DEF LengthAnnounced
  <2>1. request[s].start \in Nat /\ request[s].amount \in Nat
    BY <1>1, RequestType DEF Inv, Request
  <2>2. End(request[s]) = request[s].start + request[s].amount
    BY <2>1 DEF End, Limit
  <2>3. Len(payload[s]) \in Nat BY <1>1 DEF Inv, TypeOK
  <2>4. request[s].start + Len(payload[s]) = request[s].start + request[s].amount
    BY <1>1, <2>1, <2>2 DEF Inv, Finished
  <2>5. Len(payload[s]) = request[s].amount BY <2>1, <2>3, <2>4
  <2>6. \A a \in Nat, m \in Nat \ {0} : a < m => a % m = a
    OBVIOUS
  <2>7. 2 * request[s].amount \in Nat BY <2>1
  <2>. QED BY <2>5, <2>6, <2>7 DEF Announced
<1>. QED BY <1>1, Invariant, PTL

----------------------------------------------------------------------------
(* The refinement of RegisterStore: a publication and a request take effect *)
(* when they lock sendMutex; every other step of them stutters, since who   *)
(* holds the mutex is alone with the registers.                             *)

(* The registers in the range of a request are those the loop moves. *)
LEMMA RangeIsMoved ==
  ASSUME NEW r \in Request
  PROVE  /\ Store!Range(r) = r.start .. End(r) - 1
         /\ r.func # "readInputsRegs" => Store!Range(r) \subseteq Registers
BY DEF Store!Range, End, Limit, Request, Registers

LEMMA AloneMoving ==
  ASSUME Exclusive, NEW s \in Slaves, pc[s] = "moving"
  PROVE  ~publishing /\ \A u \in Slaves \ {s} : pc[u] # "moving"
BY DEF Exclusive

LEMMA NobodyMoves ==
  ASSUME Exclusive, publishing \/ sendMutex = Free
  PROVE  /\ \A u \in Slaves : pc[u] # "moving"
         /\ sendMutex = Free => ~publishing
BY DEF Exclusive, Free, MainThread

(* While nobody moves, the store is what the registers hold and will hold   *)
(* after the publication.                                                   *)
LEMMA ContentsAtRest ==
  ASSUME \A u \in Slaves : pc[u] # "moving"
  PROVE  contents = [r \in Registers |->
                       IF publishing /\ r \in at .. Published - 1 THEN tick ELSE holdings[r]]
BY DEF contents, Rest

(* While slave s moves, only its own writes are outstanding. *)
LEMMA ContentsMoving ==
  ASSUME Exclusive, NEW s \in Slaves, pc[s] = "moving"
  PROVE  contents = [r \in Registers |->
                       IF Writes(s) /\ r \in index[s] .. End(request[s]) - 1
                       THEN Written ELSE holdings[r]]
<1>1. ~publishing /\ \A u \in Slaves \ {s} : Rest(u) = {}
  BY AloneMoving DEF Rest
<1>2. Rest(s) = index[s] .. End(request[s]) - 1 BY DEF Rest
<1>3. ASSUME NEW r
      PROVE  (\E u \in Slaves : Writes(u) /\ r \in Rest(u)) <=> (Writes(s) /\ r \in Rest(s))
  BY <1>1
<1>. QED BY <1>1, <1>2, <1>3 DEF contents

(* The answer of a slave depends on the registers only while it moves. *)
LEMMA ReplyFrame ==
  ASSUME TypeOK, NEW u \in Slaves, pc'[u] = pc[u], request'[u] = request[u],
         payload'[u] = payload[u], index'[u] = index[u],
         pc[u] = "moving" => holdings' = holdings
  PROVE  replies'[u] = replies[u]
<1>. DEFINE first == request[u].start
            moved == first .. first + Len(payload[u]) - 1
<1>1. first \in Nat /\ Len(payload[u]) \in Nat
  BY RequestType DEF Request, TypeOK
<1>2. Rest(u)' = Rest(u) /\ Busy(u)' = Busy(u) /\ Writes(u)' = Writes(u)
  BY DEF Rest, Busy, Writes
<1>3. \A r \in moved \cup Rest(u) : Answered(u, r)' = Answered(u, r)
  <2>1. CASE pc[u] = "moving" BY <2>1 DEF Answered
  <2>2. CASE pc[u] # "moving"
    <3>1. Rest(u) = {} BY <2>2 DEF Rest
    <3>2. \A r \in moved : r < first + Len(payload[u]) BY <1>1
    <3>. QED BY <3>1, <3>2 DEF Answered
  <2>. QED BY <2>1, <2>2
<1>. QED BY <1>2, <1>3 DEF replies

LEMMA StoreInit == Init => Store!Init
<1>. SUFFICES ASSUME Init PROVE Store!Init
  OBVIOUS
<1>1. /\ ~publishing /\ tick = 0 /\ holdings = [r \in Registers |-> 0]
      /\ \A s \in Slaves : pc[s] = "waiting"
  BY DEF Init
<1>2. contents = [r \in Registers |-> 0] BY <1>1, ContentsAtRest
<1>3. phases = [s \in Slaves |-> "idle"] BY <1>1 DEF phases, Busy
<1>4. asks = [s \in Slaves |-> NoRequest] BY <1>1 DEF asks
<1>5. replies = [s \in Slaves |-> <<>>] BY <1>1 DEF replies, Busy
<1>. QED BY <1>1, <1>2, <1>3, <1>4, <1>5
         DEF Store!Init, Store!Registers, Store!NoRequest, Store!NoReply, Registers, NoRequest

(* The steps of the main thread. *)
LEMMA PublishRefines ==
  ASSUME TypeOK, Exclusive, Publish PROVE [Store!Next]_Store!vars
<1>. USE DEF main, client, slave
<1>1. /\ UNCHANGED <<pc, request, index, payload>>
      /\ \A u \in Slaves : pc[u] # "moving"
  BY NobodyMoves DEF Publish, BeginPublish, PublishRegister, EndPublish, Exclusive
<1>2. phases' = phases /\ asks' = asks BY <1>1 DEF phases, asks, Busy
<1>3. replies' = replies
  <2>1. \A u \in Slaves : replies'[u] = replies[u] BY <1>1, ReplyFrame
  <2>. QED BY <2>1 DEF replies
<1>4. \A u \in Slaves : pc'[u] # "moving" BY <1>1
<1>5. contents = [r \in Registers |->
                    IF publishing /\ r \in at .. Published - 1 THEN tick ELSE holdings[r]]
  BY <1>1, ContentsAtRest
<1>6. contents' = [r \in Registers |->
                     IF publishing' /\ r \in at' .. Published - 1 THEN tick' ELSE holdings'[r]]
  BY <1>4 DEF contents, Rest
<1>7. at \in Nat /\ at <= Published /\ Published \in Nat /\ Registers \subseteq Nat
  BY DEF TypeOK, Published, Registers
<1>8. CASE BeginPublish
  <2>1. /\ ~publishing /\ publishing' /\ at' = 0 /\ holdings' = holdings /\ tick' = tick + 1
    BY <1>8 DEF BeginPublish
  <2>2. contents' = [r \in Registers |-> IF r < 3 * Sensors THEN tick' ELSE contents[r]]
    BY <1>5, <1>6, <1>7, <2>1 DEF Published
  <2>. QED BY <1>2, <1>3, <2>1, <2>2 DEF Store!Next, Store!Publish, Store!Registers, Registers
<1>9. CASE PublishRegister
  <2>1. /\ publishing /\ publishing' /\ at' = at + 1 /\ at < Published /\ tick' = tick
        /\ holdings' = [holdings EXCEPT ![at] = tick]
    BY <1>9 DEF PublishRegister
  <2>2. ASSUME NEW r \in Registers PROVE contents'[r] = contents[r]
    <3>1. CASE r = at BY <1>5, <1>6, <1>7, <2>1, <3>1 DEF TypeOK
    <3>2. CASE r # at BY <1>5, <1>6, <1>7, <2>1, <3>2 DEF TypeOK
    <3>. QED BY <3>1, <3>2
  <2>3. contents' = contents BY <1>5, <1>6, <2>2
  <2>. QED BY <1>2, <1>3, <2>1, <2>3 DEF Store!vars
<1>10. CASE EndPublish
  <2>1. ~publishing' /\ at = Published /\ holdings' = holdings /\ tick' = tick
    BY <1>10 DEF EndPublish
  <2>2. contents' = contents BY <1>5, <1>6, <1>7, <2>1
  <2>. QED BY <1>2, <1>3, <2>1, <2>2 DEF Store!vars
<1>. QED BY <1>8, <1>9, <1>10 DEF Publish

(* What a step of slave s leaves alone. *)
LEMMA OthersKeepReplies ==
  ASSUME TypeOK, Exclusive, NEW s \in Slaves, Serve(s)
  PROVE  \A u \in Slaves \ {s} : /\ replies'[u] = replies[u]
                                 /\ phases'[u] = phases[u] /\ asks'[u] = asks[u]
<1>. USE DEF main, client, slave
<1>. SUFFICES ASSUME NEW u \in Slaves \ {s}
              PROVE  /\ replies'[u] = replies[u]
                     /\ phases'[u] = phases[u] /\ asks'[u] = asks[u]
  OBVIOUS
<1>1. /\ pc'[u] = pc[u] /\ request'[u] = request[u]
      /\ payload'[u] = payload[u] /\ index'[u] = index[u]
  BY DEF Serve, Receive, Lock, Move, Unlock, Answer, TypeOK
<1>2. pc[u] = "moving" => holdings' = holdings
  BY DEF Serve, Receive, Lock, Move, Unlock, Answer, Exclusive
<1>3. replies'[u] = replies[u] BY <1>1, <1>2, ReplyFrame
<1>. QED BY <1>1, <1>3 DEF phases, asks, Busy

LEMMA ReceiveRefines ==
  ASSUME TypeOK, Exclusive, NEW s \in Slaves, Receive(s) PROVE [Store!Next]_Store!vars
<1>. USE DEF main, client, slave
<1>1. /\ UNCHANGED <<holdings, publishing, tick, at, index, payload>>
      /\ pc[s] = "waiting"
      /\ request'[s] = Head(stream[s]) /\ Head(stream[s]) \in Requests
      /\ pc'[s] = IF Head(stream[s]).func = "unknown" THEN "waiting" ELSE "locking"
      /\ \A u \in Slaves \ {s} : pc'[u] = pc[u] /\ request'[u] = request[u]
  BY DEF Receive, TypeOK
<1>2. contents' = contents
  <2>1. Rest(s) = {} /\ Rest(s)' = {} BY <1>1 DEF Rest
  <2>2. \A u \in Slaves \ {s} : Rest(u)' = Rest(u) /\ Writes(u)' = Writes(u)
    BY <1>1 DEF Rest, Writes
  <2>3. ASSUME NEW r
        PROVE  (\E u \in Slaves : Writes(u)' /\ r \in Rest(u)')
                 <=> (\E u \in Slaves : Writes(u) /\ r \in Rest(u))
    BY <2>1, <2>2
  <2>. QED BY <1>1, <2>3 DEF contents
<1>3. replies' = replies
  <2>1. replies[s] = <<>> /\ replies'[s] = <<>> BY <1>1 DEF replies, Busy
  <2>2. \A u \in Slaves : replies'[u] = replies[u] BY <2>1, OthersKeepReplies DEF Serve
  <2>. QED BY <2>2 DEF replies
<1>4. \A u \in Slaves \ {s} : phases'[u] = phases[u] /\ asks'[u] = asks[u]
  BY OthersKeepReplies DEF Serve
<1>5. CASE Head(stream[s]).func = "unknown"
  <2>1. phases'[s] = phases[s] /\ asks'[s] = asks[s]
    BY <1>1, <1>5 DEF phases, asks, Busy
  <2>2. phases' = phases /\ asks' = asks BY <1>4, <2>1 DEF phases, asks
  <2>. QED BY <1>1, <1>2, <1>3, <2>2 DEF Store!vars
<1>6. CASE Head(stream[s]).func # "unknown"
  <2>1. /\ phases[s] = "idle" /\ phases'[s] = "asked" /\ asks'[s] = Head(stream[s])
    BY <1>1, <1>6 DEF phases, asks, Busy
  <2>2. phases' = [phases EXCEPT ![s] = "asked"] BY <1>4, <2>1 DEF phases
  <2>3. asks' = [asks EXCEPT ![s] = Head(stream[s])] BY <1>4, <2>1 DEF asks
  <2>4. Store!Ask(s) BY <1>1, <1>2, <1>3, <1>6, <2>1, <2>2, <2>3 DEF Store!Ask
  <2>. QED BY <2>4 DEF Store!Next
<1>. QED BY <1>5, <1>6

LEMMA LockRefines ==
  ASSUME TypeOK, Exclusive, Exclusive', NEW s \in Slaves, Lock(s)
  PROVE  Store!TakeEffect(s)
<1>. USE DEF main, client, slave
<1>. DEFINE q == request[s]
<1>1. /\ UNCHANGED <<holdings, publishing, tick, at, request>>
      /\ pc[s] = "locking" /\ sendMutex = Free
      /\ pc'[s] = "moving" /\ index'[s] = q.start /\ payload'[s] = <<>>
  BY DEF Lock, TypeOK
<1>2. ~publishing /\ \A u \in Slaves : pc[u] # "moving" BY <1>1, NobodyMoves
<1>3. q \in Request /\ q.start \in Nat /\ End(q) \in Nat BY RequestType DEF Request
<1>4. /\ Store!Range(q) = q.start .. End(q) - 1
      /\ q.func # "readInputsRegs" => Store!Range(q) \subseteq Registers
  BY <1>3, RangeIsMoved
<1>5. contents = holdings
  <2>1. contents = [r \in Registers |-> holdings[r]] BY <1>2, ContentsAtRest
  <2>. QED BY <2>1 DEF TypeOK
<1>6. contents' = [r \in Registers |->
                     IF Writes(s) /\ r \in q.start .. End(q) - 1 THEN Written ELSE holdings[r]]
  <2>1. (Exclusive /\ pc[s] = "moving" =>
           contents = [r \in Registers |->
                         IF Writes(s) /\ r \in index[s] .. End(request[s]) - 1
                         THEN Written ELSE holdings[r]])'
    BY ContentsMoving, PTL
  <2>. QED BY <1>1, <2>1 DEF Writes
<1>7. phases[s] = "asked" /\ phases'[s] = "done" /\ asks[s] = q /\ asks'[s] = q
  BY <1>1 DEF phases, asks, Busy
<1>8. \A u \in Slaves \ {s} : /\ replies'[u] = replies[u]
                              /\ phases'[u] = phases[u] /\ asks'[u] = asks[u]
  BY OthersKeepReplies DEF Serve
<1>9. phases' = [phases EXCEPT ![s] = "done"] BY <1>7, <1>8 DEF phases
<1>10. asks' = asks BY <1>7, <1>8 DEF asks
<1>11. replies[s] = <<>> BY <1>1 DEF replies, Busy
<1>12. CASE Writes(s)
  <2>1. contents' = [r \in Registers |-> IF r \in Store!Range(q) THEN Written ELSE contents[r]]
    BY <1>4, <1>5, <1>6, <1>12
  <2>2. replies'[s] = <<>> BY <1>1, <1>12 DEF replies, Writes
  <2>3. replies' = replies BY <1>8, <1>11, <2>2 DEF replies
  <2>. QED BY <1>1, <1>7, <1>9, <1>10, <1>12, <2>1, <2>3
           DEF Store!TakeEffect, Store!Registers, Registers, Writes
<1>13. CASE ~Writes(s)
  <2>1. contents' = contents BY <1>5, <1>6, <1>13 DEF TypeOK
  <2>2. replies'[s] = Store!Read(q)
    <3>1. Len(payload'[s]) = 0 BY <1>1
    <3>2. Rest(s)' = q.start .. End(q) - 1 BY <1>1 DEF Rest
    <3>3. q.start .. q.start + Len(payload'[s]) - 1 = {} BY <1>3, <3>1
    <3>4. ASSUME NEW r \in Store!Range(q)
          PROVE  Answered(s, r)' = IF q.func = "readInputsRegs" THEN Written ELSE contents[r]
      BY <1>1, <1>3, <1>4, <1>5, <3>1 DEF Answered
    <3>5. replies'[s] = [r \in Store!Range(q) |-> Answered(s, r)']
      BY <1>1, <1>4, <1>13, <3>2, <3>3 DEF replies, Busy, Writes
    <3>. QED BY <3>4, <3>5 DEF Store!Read
  <2>3. replies' = [replies EXCEPT ![s] = Store!Read(q)] BY <1>8, <2>2 DEF replies
  <2>. QED BY <1>1, <1>7, <1>9, <1>10, <1>13, <2>1, <2>3 DEF Store!TakeEffect, Writes
<1>. QED BY <1>12, <1>13

LEMMA MovedAndRest ==
  ASSUME NEW a \in Nat, NEW n \in Nat, NEW b \in Nat, a + n < b
  PROVE  /\ (a .. a + n - 1) \cup (a + n .. b - 1) = a .. b - 1
         /\ (a .. a + n) \cup (a + n + 1 .. b - 1) = a .. b - 1
OBVIOUS

(* A register moved is one the mapping had counted as moved. *)
LEMMA MoveRefines ==
  ASSUME TypeOK, Exclusive, Exclusive', Progress, NEW s \in Slaves, Move(s)
  PROVE  UNCHANGED Store!vars
<1>. USE DEF main, client, slave
<1>. DEFINE q == request[s]
            n == Len(payload[s])
<1>1. /\ UNCHANGED <<publishing, tick, at, request, pc>>
      /\ pc[s] = "moving" /\ pc'[s] = "moving"
      /\ index[s] < End(q) /\ index'[s] = index[s] + 1
  BY DEF Move, TypeOK
<1>2. /\ q \in Request /\ q.start \in Nat /\ End(q) \in Nat
      /\ index[s] \in Nat /\ n \in Nat /\ payload[s] \in Seq(Contents)
  BY RequestType DEF Request, TypeOK
<1>3. contents = [r \in Registers |->
                    IF Writes(s) /\ r \in index[s] .. End(q) - 1 THEN Written ELSE holdings[r]]
  BY <1>1, ContentsMoving
<1>4. contents' = [r \in Registers |->
                     IF Writes(s) /\ r \in index[s] + 1 .. End(q) - 1
                     THEN Written ELSE holdings'[r]]
  <2>1. (Exclusive /\ pc[s] = "moving" =>
           contents = [r \in Registers |->
                         IF Writes(s) /\ r \in index[s] .. End(request[s]) - 1
                         THEN Written ELSE holdings[r]])'
    BY ContentsMoving, PTL
  <2>. QED BY <1>1, <2>1 DEF Writes
<1>5. phases' = phases /\ asks' = asks BY <1>1 DEF phases, asks, Busy
<1>6. \A u \in Slaves \ {s} : replies'[u] = replies[u] BY OthersKeepReplies DEF Serve
<1>7. CASE Writes(s)
  <2>1. holdings' = [holdings EXCEPT ![index[s]] = Written] BY <1>7 DEF Move, Writes
  <2>2. ASSUME NEW r \in Registers PROVE contents'[r] = contents[r]
    <3>0. r \in Nat /\ holdings \in [Registers -> Contents] BY DEF Registers, TypeOK
    <3>1. contents'[r] = IF r \in index[s] + 1 .. End(q) - 1 THEN Written ELSE holdings'[r]
      BY <1>4, <1>7
    <3>2. contents[r] = IF r \in index[s] .. End(q) - 1 THEN Written ELSE holdings[r]
      BY <1>3, <1>7
    <3>3. holdings'[r] = IF r = index[s] THEN Written ELSE holdings[r] BY <2>1, <3>0
    <3>. QED BY <1>1, <1>2, <3>0, <3>1, <3>2, <3>3
  <2>3. contents' = contents BY <1>3, <1>4, <2>2
  <2>4. replies[s] = <<>> /\ replies'[s] = <<>> BY <1>1, <1>7 DEF replies, Writes
  <2>5. replies' = replies BY <1>6, <2>4 DEF replies
  <2>. QED BY <1>1, <1>5, <2>3, <2>5 DEF Store!vars
<1>8. CASE ~Writes(s)
  <2>1. /\ holdings' = holdings
        /\ payload' = [payload EXCEPT ![s] = Append(payload[s], Content(s))]
        /\ index[s] = q.start + n
    BY <1>1, <1>8 DEF Move, Writes, Progress
  <2>2. contents' = contents BY <1>3, <1>4, <1>8, <2>1
  <2>3. payload'[s] = Append(payload[s], Content(s)) /\ Len(payload'[s]) = n + 1
    BY <1>2, <2>1 DEF TypeOK
  <2>4. ASSUME NEW r \in q.start .. End(q) - 1
        PROVE  Answered(s, r)' = Answered(s, r)
    <3>1. CASE r < q.start + n
      <4>1. r - q.start + 1 \in 1 .. n BY <1>2, <3>1
      <4>2. payload'[s][r - q.start + 1] = payload[s][r - q.start + 1] BY <1>2, <2>3, <4>1
      <4>3. r < q.start + Len(payload'[s]) BY <1>2, <2>3, <3>1
      <4>. QED BY <1>1, <3>1, <4>2, <4>3 DEF Answered
    <3>2. CASE r = q.start + n
      <4>1. r - q.start + 1 = n + 1 BY <1>2, <3>2
      <4>2. payload'[s][n + 1] = Content(s) BY <1>2, <2>3
      <4>3. r < q.start + Len(payload'[s]) /\ ~(r < q.start + n) BY <1>2, <2>3, <3>2
      <4>. QED BY <1>1, <2>1, <3>2, <4>1, <4>2, <4>3 DEF Answered, Content
    <3>3. CASE r > q.start + n
      <4>1. ~(r < q.start + Len(payload'[s])) /\ ~(r < q.start + n) BY <1>2, <2>3, <3>3
      <4>. QED BY <1>1, <2>1, <4>1 DEF Answered
    <3>. QED BY <1>2, <3>1, <3>2, <3>3
  <2>5. /\ (q.start .. q.start + n - 1) \cup Rest(s) = q.start .. End(q) - 1
        /\ (q.start .. q.start + Len(payload'[s]) - 1) \cup Rest(s)' = q.start .. End(q) - 1
    <3>1. Rest(s) = index[s] .. End(q) - 1 /\ Rest(s)' = index[s] + 1 .. End(q) - 1
      BY <1>1 DEF Rest
    <3>2. q.start + Len(payload'[s]) - 1 = q.start + n /\ q.start + n < End(q)
      BY <1>1, <1>2, <2>1, <2>3
    <3>3. /\ (q.start .. q.start + n - 1) \cup (q.start + n .. End(q) - 1) = q.start .. End(q) - 1
          /\ (q.start .. q.start + n) \cup (q.start + n + 1 .. End(q) - 1) = q.start .. End(q) - 1
      <4>. HIDE DEF n, q
      <4>. QED BY <1>2, <3>2, MovedAndRest
    <3>4. Rest(s) = q.start + n .. End(q) - 1 /\ Rest(s)' = q.start + n + 1 .. End(q) - 1
      BY <2>1, <3>1
    <3>. QED BY <3>2, <3>3, <3>4
  <2>6. replies'[s] = replies[s]
    <3>1. replies[s] = [r \in q.start .. End(q) - 1 |-> Answered(s, r)]
      BY <1>1, <1>8, <2>5 DEF replies, Busy
    <3>2. replies'[s] = [r \in q.start .. End(q) - 1 |-> Answered(s, r)']
      BY <1>1, <1>8, <2>5 DEF replies, Busy, Writes
    <3>. QED BY <2>4, <3>1, <3>2
  <2>7. replies' = replies BY <1>6, <2>6 DEF replies
  <2>. QED BY <1>1, <1>5, <2>2, <2>7 DEF Store!vars
<1>. QED BY <1>7, <1>8

LEMMA UnlockRefines ==
  ASSUME TypeOK, Exclusive, NEW s \in Slaves, Unlock(s) PROVE UNCHANGED Store!vars
<1>. USE DEF main, client, slave
<1>1. /\ UNCHANGED <<holdings, publishing, tick, at, request, index, payload>>
      /\ pc[s] = "moving" /\ pc'[s] = "answering" /\ index[s] >= End(request[s])
      /\ \A u \in Slaves \ {s} : pc'[u] = pc[u]
  BY DEF Unlock, TypeOK
<1>2. Rest(s) = {} /\ Rest(s)' = {}
  <2>1. index[s] \in Nat /\ End(request[s]) \in Nat BY RequestType DEF TypeOK
  <2>. QED BY <1>1, <2>1 DEF Rest
<1>3. \A u \in Slaves : Rest(u)' = Rest(u) /\ Writes(u)' = Writes(u) /\ Busy(u)' = Busy(u)
  <2>1. \A u \in Slaves : Writes(u)' = Writes(u) BY <1>1 DEF Writes
  <2>2. Busy(s)' = Busy(s) BY <1>1 DEF Busy
  <2>3. \A u \in Slaves \ {s} : Rest(u)' = Rest(u) /\ Busy(u)' = Busy(u)
    BY <1>1 DEF Rest, Busy
  <2>. QED BY <1>2, <2>1, <2>2, <2>3
<1>4. contents' = contents BY <1>1, <1>3 DEF contents
<1>5. phases' = phases /\ asks' = asks BY <1>1, <1>3 DEF phases, asks, Busy
<1>6. replies' = replies
  <2>1. \A u \in Slaves : \A r : Answered(u, r)' = Answered(u, r) BY <1>1 DEF Answered
  <2>. QED BY <1>1, <1>3, <2>1 DEF replies
<1>. QED BY <1>1, <1>4, <1>5, <1>6 DEF Store!vars

LEMMA AnswerRefines ==
  ASSUME TypeOK, Exclusive, NEW s \in Slaves, Answer(s) PROVE Store!Answer(s)
<1>. USE DEF main, client, slave
<1>1. /\ UNCHANGED <<holdings, publishing, tick, at, request, index, payload>>
      /\ pc[s] = "answering" /\ pc'[s] = "waiting"
      /\ \A u \in Slaves \ {s} : pc'[u] = pc[u]
  BY DEF Answer, TypeOK
<1>2. \A u \in Slaves : Rest(u)' = Rest(u) /\ Writes(u)' = Writes(u)
  BY <1>1 DEF Rest, Writes
<1>3. contents' = contents BY <1>1, <1>2 DEF contents
<1>4. /\ phases[s] = "done" /\ phases'[s] = "idle"
      /\ asks'[s] = NoRequest /\ replies'[s] = <<>>
  BY <1>1 DEF phases, asks, replies, Busy
<1>5. \A u \in Slaves \ {s} : /\ replies'[u] = replies[u]
                              /\ phases'[u] = phases[u] /\ asks'[u] = asks[u]
  BY OthersKeepReplies DEF Serve
<1>6. phases' = [phases EXCEPT ![s] = "idle"] BY <1>4, <1>5 DEF phases
<1>7. asks' = [asks EXCEPT ![s] = NoRequest] BY <1>4, <1>5 DEF asks
<1>8. replies' = [replies EXCEPT ![s] = <<>>] BY <1>4, <1>5 DEF replies
<1>. QED BY <1>1, <1>3, <1>4, <1>6, <1>7, <1>8
         DEF Store!Answer, Store!NoRequest, Store!NoReply, NoRequest

LEMMA StoreStep ==
  ASSUME Inv, Inv', [Next]_vars PROVE [Store!Next]_Store!vars
<1>0. TypeOK /\ Exclusive /\ Progress /\ Exclusive' BY DEF Inv
<1>1. CASE Publish BY <1>0, <1>1, PublishRefines
<1>2. ASSUME NEW s \in Slaves, Serve(s) PROVE [Store!Next]_Store!vars
  <2>1. CASE Receive(s) BY <1>0, <2>1, ReceiveRefines
  <2>2. CASE Lock(s) BY <1>0, <2>2, LockRefines DEF Store!Next
  <2>3. CASE Move(s) BY <1>0, <2>3, MoveRefines
  <2>4. CASE Unlock(s) BY <1>0, <2>4, UnlockRefines
  <2>5. CASE Answer(s) BY <1>0, <2>5, AnswerRefines DEF Store!Next
  <2>. QED BY <1>2, <2>1, <2>2, <2>3, <2>4, <2>5 DEF Serve
<1>3. ASSUME UNCHANGED <<holdings, publishing, tick, at, pc, request, index, payload>>
      PROVE  UNCHANGED Store!vars
  <2>1. contents' = contents BY <1>3 DEF contents, Rest, Writes
  <2>2. phases' = phases /\ asks' = asks BY <1>3 DEF phases, asks, Busy
  <2>3. replies' = replies BY <1>3 DEF replies, Rest, Writes, Busy, Answered
  <2>. QED BY <1>3, <2>1, <2>2, <2>3 DEF Store!vars
<1>4. ASSUME NEW s \in Slaves, Send(s) PROVE [Store!Next]_Store!vars
  BY <1>3, <1>4 DEF Send, main, slave
<1>5. CASE UNCHANGED vars BY <1>3, <1>5 DEF vars, main, slave
<1>. QED BY <1>1, <1>2, <1>4, <1>5 DEF Next

(* For every number of slaves, sensors and registers and all requests: the  *)
(* registers, moved one at a time by threads that interleave, are to the    *)
(* clients one atomic store (linearizability of proceedData's publication   *)
(* and of readHoldings, readInputsRegs and writeHoldings).                  *)
THEOREM StoreImplemented == Spec => ImplementsStore
<1>1. Init => Store!Init BY StoreInit
<1>2. Inv /\ Inv' /\ [Next]_vars => [Store!Next]_Store!vars BY StoreStep
<1>. QED BY <1>1, <1>2, Invariant, PTL DEF Spec, ImplementsStore, Store!Spec
=============================================================================
