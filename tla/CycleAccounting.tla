-------------------------- MODULE CycleAccounting --------------------------
(***************************************************************************)
(* What the polling loop of Can::runRecvCicle promises to the rest of the  *)
(* gateway, without the bus, the driver, the frames or the clock.  One     *)
(* cycle hears some set of channels.  Their error counters are cleared,    *)
(* every other counter goes up by one, all of them in one step.  A cycle   *)
(* that did not hear every channel is incomplete; each second incomplete   *)
(* cycle is followed by a reopening of the driver before the next cycle,   *)
(* and the driver is never reopened for any other reason.                  *)
(***************************************************************************)
EXTENDS Naturals

CONSTANTS Ids,          \* the CAN identifiers of the configured channels
          ErrorModulus  \* error_count is an unsigned short: 2^16 in the code

VARIABLES error_count,  \* cycles each channel has been missing, mod ErrorModulus
          misses,       \* incomplete cycles since the last reopening
          reopening     \* the driver is being closed and opened again

vars == <<error_count, misses, reopening>>

Init ==
  /\ error_count = [id \in Ids |-> 0]
  /\ misses = 0
  /\ reopening = FALSE

(* One polling cycle that heard exactly the channels of heard. *)
Cycle(heard) ==
  /\ ~reopening
  /\ error_count' = [id \in Ids |->
                       IF id \in heard THEN 0
                       ELSE (error_count[id] + 1) % ErrorModulus]
  /\ IF heard = Ids
       THEN UNCHANGED <<misses, reopening>>
       ELSE /\ misses' = (misses + 1) % 2
            /\ reopening' = (misses = 1)

Reopen ==
  /\ reopening
  /\ reopening' = FALSE
  /\ UNCHANGED <<error_count, misses>>

Next == Reopen \/ \E heard \in SUBSET Ids : Cycle(heard)

Spec == Init /\ [][Next]_vars
=============================================================================
