---------------------------- MODULE RegisterStore ----------------------------
(***************************************************************************)
(* What the Modbus service promises to its clients, without the mutex, the *)
(* threads and the registers one after the other: the registers are one    *)
(* atomic store.  A publication replaces all the values and marks at once; *)
(* a request takes effect at one moment between its arrival and its        *)
(* answer, on every register of its range and on no other.                 *)
(***************************************************************************)
EXTENDS Integers

CONSTANTS Slaves, Sensors, Size, InputsSize, Written, Requests

VARIABLES
  store,  \* what each register holds
  tick,   \* the last publication
  phase,  \* phase[s]: "idle", "asked", "done"
  ask,    \* ask[s]: the request slave s serves
  reply   \* reply[s]: the registers it answers with, and what they held

vars == <<store, tick, phase, ask, reply>>

Registers == 0 .. Size - 1
NoRequest == [func |-> "readHoldings", start |-> 0, amount |-> 0]
NoReply   == <<>>

Init ==
  /\ store = [r \in Registers |-> 0]
  /\ tick = 0
  /\ phase = [s \in Slaves |-> "idle"]
  /\ ask = [s \in Slaves |-> NoRequest]
  /\ reply = [s \in Slaves |-> NoReply]

Publish ==
  /\ tick' = tick + 1
  /\ store' = [r \in Registers |-> IF r < 3 * Sensors THEN tick' ELSE store[r]]
  /\ UNCHANGED <<phase, ask, reply>>

Ask(s) ==
  /\ phase[s] = "idle"
  /\ \E r \in Requests : r.func # "unknown" /\ ask' = [ask EXCEPT ![s] = r]
  /\ phase' = [phase EXCEPT ![s] = "asked"]
  /\ UNCHANGED <<store, tick, reply>>

(* The registers a request is about. *)
Range(r) ==
  {i \in 0 .. (IF r.func = "readInputsRegs" THEN InputsSize ELSE Size) - 1 :
     r.start <= i /\ i < r.start + r.amount}

(* The input registers are not in the store: nothing is published there. *)
Read(r) ==
  [i \in Range(r) |-> IF r.func = "readInputsRegs" THEN Written ELSE store[i]]

TakeEffect(s) ==
  /\ phase[s] = "asked"
  /\ phase' = [phase EXCEPT ![s] = "done"]
  /\ IF ask[s].func = "writeHoldings"
       THEN /\ store' = [r \in Registers |-> IF r \in Range(ask[s]) THEN Written ELSE store[r]]
            /\ UNCHANGED reply
       ELSE /\ reply' = [reply EXCEPT ![s] = Read(ask[s])]
            /\ UNCHANGED store
  /\ UNCHANGED <<tick, ask>>

Answer(s) ==
  /\ phase[s] = "done"
  /\ phase' = [phase EXCEPT ![s] = "idle"]
  /\ ask' = [ask EXCEPT ![s] = NoRequest]
  /\ reply' = [reply EXCEPT ![s] = NoReply]
  /\ UNCHANGED <<store, tick>>

Next == Publish \/ \E s \in Slaves : Ask(s) \/ TakeEffect(s) \/ Answer(s)

Spec == Init /\ [][Next]_vars
=============================================================================
