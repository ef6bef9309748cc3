----------------------------- MODULE ModbusService -----------------------------
(***************************************************************************)
(* The holding registers between the main thread, which publishes values   *)
(* and marks every 20 ms (the end of MainClass::proceedData,               *)
(* mainwindow.cpp), and the slave threads, which read and write them for   *)
(* their clients (ModBusSlaveDevice, modbusslavedevice.cpp).  Both hold    *)
(* sendMutex meanwhile and move one register at a time.                    *)
(*                                                                         *)
(* Abstractions.  What a register holds is the number of the publication   *)
(* it was written by, or Written by a client.  A request arrives as a      *)
(* whole, but what has arrived when a slave reads its socket is taken at   *)
(* once, and only the first request of it is served.  Negative starts and  *)
(* amounts, which index outside the registers, are not enumerated.  The    *)
(* command and coefficient registers are in modules of their own.          *)
(***************************************************************************)
EXTENDS Integers, Sequences

CONSTANTS
  Slaves,       \* the slave threads, each with one client
  Sensors,      \* sensors in modbusMap: three registers each
  Size,         \* HOLDINGS_AMOUNT
  InputsSize,   \* Inputs_reg.size(): the input registers are never resized
  ByteModulus,  \* the byte count of a reply is one byte: 256
  Written,      \* a value written by a client
  Requests,     \* what the clients ask
  Depth,        \* requests a client sends before it has been answered
  MaxTicks,     \* bound: publications in a behaviour
  MaxRequests   \* bound: requests of each client

Free == "free"
MainThread == "main"

Published == 3 * Sensors   \* the registers below are published
Functions == {"readHoldings", "readInputsRegs", "writeHoldings", "unknown"}
Request == [func : Functions, start : Nat, amount : Nat]

ASSUME SizesAssumption ==
  /\ Sensors \in Nat /\ Size \in Nat /\ Published <= Size
  /\ InputsSize \in Nat
  /\ ByteModulus \in Nat \ {0}
  /\ Depth \in Nat \ {0} /\ MaxTicks \in Nat /\ MaxRequests \in Nat
ASSUME RequestsAssumption == Requests \subseteq Request
ASSUME NamesAssumption == Written \notin Nat /\ Slaves \cap {Free, MainThread} = {}

Registers == 0 .. Size - 1
Contents  == 0 .. MaxTicks \cup {Written}

VARIABLES
  holdings,   \* Holdings_reg
  sendMutex,  \* its holder
  publishing, \* the main thread is publishing
  tick,       \* the publication under way, or the last one
  at,         \* the register it writes next
  stream,     \* stream[s]: requests arrived and not yet read
  pc,         \* pc[s]: "waiting", "locking", "moving", "answering"
  request,    \* request[s]: the one being served
  index,      \* index[s]: the register it moves next
  payload,    \* payload[s]: what the reply holds so far
  sent,       \* requests client s has sent, up to MaxRequests
  unanswered, \* history: how many of them are still to be answered
  seen        \* history: the newest publication client s has been told of

main   == <<publishing, tick, at>>
client == <<stream, sent, unanswered>>
slave  == <<pc, request, index, payload>>
vars   == <<holdings, sendMutex, publishing, tick, at, stream, pc, request, index,
            payload, sent, unanswered, seen>>

NoRequest == [func |-> "readHoldings", start |-> 0, amount |-> 0]

Init ==
  /\ holdings = [r \in Registers |-> 0]
  /\ sendMutex = Free
  /\ publishing = FALSE
  /\ tick = 0
  /\ at = 0
  /\ stream = [s \in Slaves |-> <<>>]
  /\ pc = [s \in Slaves |-> "waiting"]
  /\ request = [s \in Slaves |-> NoRequest]
  /\ index = [s \in Slaves |-> 0]
  /\ payload = [s \in Slaves |-> <<>>]
  /\ sent = [s \in Slaves |-> 0]
  /\ unanswered = [s \in Slaves |-> 0]
  /\ seen = [s \in Slaves |-> 0]

----------------------------------------------------------------------------
(* The main thread. *)

\* mutant: the mutex is not waited for
BeginPublishUnlocked ==
  /\ ~publishing
  /\ tick < MaxTicks
  /\ publishing' = TRUE
  /\ tick' = tick + 1
  /\ at' = 0
  /\ UNCHANGED <<holdings, sendMutex, client, slave, seen>>

BeginPublish ==
  /\ ~publishing
  /\ tick < MaxTicks
  /\ sendMutex = Free
  /\ sendMutex' = MainThread
  /\ publishing' = TRUE
  /\ tick' = tick + 1
  /\ at' = 0
  /\ UNCHANGED <<holdings, client, slave, seen>>

\* mutant: one register too many is published
PublishPastEnd ==
  /\ publishing
  /\ at <= Published
  /\ holdings' = [holdings EXCEPT ![at] = tick]
  /\ at' = at + 1
  /\ UNCHANGED <<sendMutex, publishing, tick, client, slave, seen>>

PublishRegister ==
  /\ publishing
  /\ at < Published
  /\ holdings' = [holdings EXCEPT ![at] = tick]
  /\ at' = at + 1
  /\ UNCHANGED <<sendMutex, publishing, tick, client, slave, seen>>

EndPublish ==
  /\ publishing
  /\ at = Published
  /\ publishing' = FALSE
  /\ sendMutex' = Free
  /\ UNCHANGED <<holdings, tick, at, client, slave, seen>>

Publish == BeginPublish \/ PublishRegister \/ EndPublish

----------------------------------------------------------------------------
(* Slave s. *)

Limit(r) == IF r.func = "readInputsRegs" THEN InputsSize ELSE Size

\* mutant: the last register asked for is left out
EndOneEarly(r) == IF r.start + r.amount > Limit(r) THEN Limit(r) ELSE r.start + r.amount - 1
(* max_reg_for_read: the end of the range, cut at the end of the registers. *)
End(r) == IF r.start + r.amount > Limit(r) THEN Limit(r) ELSE r.start + r.amount

(* The byte count of the reply is computed from the amount asked for. *)
Announced(r) == (2 * r.amount) % ByteModulus

(* run: everything that has arrived is read, its first request is served;   *)
(* one with an unknown function code is logged and never answered.          *)
Receive(s) ==
  /\ pc[s] = "waiting"
  /\ stream[s] # <<>>
  /\ request' = [request EXCEPT ![s] = Head(stream[s])]
  /\ stream' = [stream EXCEPT ![s] = <<>>]
  /\ pc' = [pc EXCEPT ![s] = IF Head(stream[s]).func = "unknown" THEN "waiting" ELSE "locking"]
  /\ UNCHANGED <<holdings, sendMutex, main, index, payload, sent, unanswered, seen>>

\* mutant: the reply still holds the registers of the reply before
LockKeepsPayload(s) ==
  /\ pc[s] = "locking"
  /\ sendMutex = Free
  /\ sendMutex' = s
  /\ index' = [index EXCEPT ![s] = request[s].start]
  /\ pc' = [pc EXCEPT ![s] = "moving"]
  /\ UNCHANGED <<holdings, main, client, request, payload, seen>>

Lock(s) ==
  /\ pc[s] = "locking"
  /\ sendMutex = Free
  /\ sendMutex' = s
  /\ index' = [index EXCEPT ![s] = request[s].start]
  /\ payload' = [payload EXCEPT ![s] = <<>>]
  /\ pc' = [pc EXCEPT ![s] = "moving"]
  /\ UNCHANGED <<holdings, main, client, request, seen>>

(* What the next register holds; nothing is published in the input registers. *)
Content(s) == IF request[s].func = "readInputsRegs" THEN Written ELSE holdings[index[s]]

Move(s) ==
  /\ pc[s] = "moving"
  /\ index[s] < End(request[s])
  /\ IF request[s].func = "writeHoldings"
       THEN /\ holdings' = [holdings EXCEPT ![index[s]] = Written]
            /\ UNCHANGED payload
       ELSE /\ payload' = [payload EXCEPT ![s] = Append(@, Content(s))]
            /\ UNCHANGED holdings
  /\ index' = [index EXCEPT ![s] = @ + 1]
  /\ UNCHANGED <<sendMutex, main, client, pc, request, seen>>

\* mutant: the mutex is not released when the range was cut
UnlockWithin(s) ==
  /\ pc[s] = "moving"
  /\ index[s] >= End(request[s])
  /\ sendMutex' = IF request[s].start + request[s].amount > Limit(request[s])
                  THEN sendMutex ELSE Free
  /\ pc' = [pc EXCEPT ![s] = "answering"]
  /\ UNCHANGED <<holdings, main, client, request, index, payload, seen>>

Unlock(s) ==
  /\ pc[s] = "moving"
  /\ index[s] >= End(request[s])
  /\ sendMutex' = Free
  /\ pc' = [pc EXCEPT ![s] = "answering"]
  /\ UNCHANGED <<holdings, main, client, request, index, payload, seen>>

(* The publications a reply tells of: those of its published registers. *)
Told(s) ==
  {payload[s][j] : j \in {k \in DOMAIN payload[s] : request[s].start + k - 1 < Published}} \ {Written}

Answer(s) ==
  /\ pc[s] = "answering"
  /\ pc' = [pc EXCEPT ![s] = "waiting"]
  /\ unanswered' = [unanswered EXCEPT ![s] = @ - 1]
  /\ seen' = [seen EXCEPT ![s] = IF Told(s) = {} THEN @ ELSE CHOOSE t \in Told(s) : TRUE]
  /\ UNCHANGED <<holdings, sendMutex, main, stream, sent, request, index, payload>>

Serve(s) == Receive(s) \/ Lock(s) \/ Move(s) \/ Unlock(s) \/ Answer(s)

(* Client s sends a request. *)
Send(s) ==
  /\ sent[s] < MaxRequests
  /\ unanswered[s] < Depth
  /\ \E r \in Requests : stream' = [stream EXCEPT ![s] = Append(@, r)]
  /\ sent' = [sent EXCEPT ![s] = @ + 1]
  /\ unanswered' = [unanswered EXCEPT ![s] = @ + 1]
  /\ UNCHANGED <<holdings, sendMutex, main, slave, seen>>

Next == Publish \/ \E s \in Slaves : Serve(s) \/ Send(s)

Spec == Init /\ [][Next]_vars

(* A thread that holds the mutex goes on, and one that waits for it gets it *)
(* in the end.  Clients need not send anything.                             *)
Fairness ==
  /\ WF_vars(PublishRegister) /\ WF_vars(EndPublish)
  /\ \A s \in Slaves :
       /\ SF_vars(Lock(s))
       /\ WF_vars(Receive(s)) /\ WF_vars(Move(s)) /\ WF_vars(Unlock(s)) /\ WF_vars(Answer(s))

FairSpec == Spec /\ Fairness

----------------------------------------------------------------------------
(* Every variable has its type. *)
TypeOK ==
  /\ holdings \in [Registers -> Contents]
  /\ sendMutex \in Slaves \cup {Free, MainThread}
  /\ publishing \in BOOLEAN
  /\ tick \in 0 .. MaxTicks
  /\ at \in 0 .. Published
  /\ stream \in [Slaves -> Seq(Requests)]
  /\ pc \in [Slaves -> {"waiting", "locking", "moving", "answering"}]
  /\ request \in [Slaves -> Requests \cup {NoRequest}]
  /\ index \in [Slaves -> Nat]
  /\ payload \in [Slaves -> Seq(Contents)]
  /\ sent \in [Slaves -> 0 .. MaxRequests]
  /\ unanswered \in [Slaves -> Nat]
  /\ seen \in [Slaves -> 0 .. MaxTicks]

(* The values and marks in one reply belong together: all come from the     *)
(* same publication, but for registers a client has overwritten.            *)
OneTick ==
  \A s \in Slaves : pc[s] = "answering" => \A t, u \in Told(s) : t = u

(* What a client is told is never older than what it has been told before.  *)
NeverOlder ==
  \A s \in Slaves : pc[s] = "answering" => \A t \in Told(s) : t >= seen[s]

(* The registers are one atomic store (RegisterStore): a publication takes  *)
(* effect when it locks sendMutex, and so does a request.                   *)
Busy(s)   == pc[s] \in {"moving", "answering"}
Writes(s) == request[s].func = "writeHoldings"

(* The registers slave s has still to move. *)
Rest(s) == IF pc[s] = "moving" THEN index[s] .. End(request[s]) - 1 ELSE {}

contents ==
  [r \in Registers |->
     IF publishing /\ r \in at .. Published - 1 THEN tick
     ELSE IF \E s \in Slaves : Writes(s) /\ r \in Rest(s) THEN Written
     ELSE holdings[r]]

phases == [s \in Slaves |-> IF Busy(s) THEN "done"
                            ELSE IF pc[s] = "locking" THEN "asked" ELSE "idle"]
asks   == [s \in Slaves |-> IF pc[s] = "waiting" THEN NoRequest ELSE request[s]]

(* Register r as slave s will have answered it. *)
Answered(s, r) ==
  IF r < request[s].start + Len(payload[s]) THEN payload[s][r - request[s].start + 1]
  ELSE IF request[s].func = "readInputsRegs" THEN Written
  ELSE holdings[r]
replies ==
  [s \in Slaves |->
     IF ~Busy(s) \/ Writes(s) THEN <<>>
     ELSE [r \in (request[s].start .. request[s].start + Len(payload[s]) - 1) \cup Rest(s) |->
             Answered(s, r)]]

Store == INSTANCE RegisterStore
           WITH store <- contents, phase <- phases, ask <- asks, reply <- replies

ImplementsStore == Store!Spec

(* A reply to readHoldings is as long as it announces, for every request    *)
(* inside the registers whose length fits the byte count.                   *)
LengthAnnounced ==
  \A s \in Slaves :
    /\ pc[s] = "answering"
    /\ request[s].func = "readHoldings"
    /\ request[s].start + request[s].amount <= Size
    /\ 2 * request[s].amount < ByteModulus
    => 2 * Len(payload[s]) = Announced(request[s])

(* readInputsRegs does what the comment in run says, "read Inputs           *)
(* Registers": the reply holds as many registers as it announces.           *)
InputsAreRead ==
  \A s \in Slaves :
    /\ pc[s] = "answering"
    /\ request[s].func = "readInputsRegs"
    /\ 2 * request[s].amount < ByteModulus
    => 2 * Len(payload[s]) = Announced(request[s])

(* What has arrived is taken up and what is taken up is answered: no slave  *)
(* waits for the mutex for good.  (Requests that arrive together with an    *)
(* earlier one are taken up and dropped: their client waits in vain.)       *)
Served ==
  \A s \in Slaves :
    (stream[s] # <<>> \/ pc[s] # "waiting") ~> (stream[s] = <<>> /\ pc[s] = "waiting")
=============================================================================
