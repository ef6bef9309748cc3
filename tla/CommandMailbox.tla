---------------------------- MODULE CommandMailbox ----------------------------
(***************************************************************************)
(* What the command registers promise, without the bytes, the mutex and    *)
(* the threads: each register is a mailbox.  A command is executed once at *)
(* most for each time it was posted.  One that is kept stays until it is   *)
(* executed or a client posts again; no other command is executed while it *)
(* waits.                                                                  *)
(***************************************************************************)
EXTENDS Naturals

CONSTANTS Registers, Words, Empty

VARIABLES
  requested,  \* how often each command was posted to each register
  executed,   \* how often it was executed
  kept        \* the command the register keeps, or Empty

vars == <<requested, executed, kept>>

None == [r \in Registers |-> [c \in Words |-> 0]]

Init ==
  /\ requested = None
  /\ executed = None
  /\ kept = [r \in Registers |-> Empty]

(* A command posted and not executed yet. *)
Due(r, c) == executed[r][c] < requested[r][c]

(* A client begins to write: what was kept is given up. *)
Post(r, c) ==
  /\ requested' = [requested EXCEPT ![r][c] = @ + 1]
  /\ kept' = [kept EXCEPT ![r] = Empty]
  /\ UNCHANGED executed

Erase(r) ==
  /\ kept' = [kept EXCEPT ![r] = Empty]
  /\ UNCHANGED <<requested, executed>>

(* From now on the command is not lost. *)
Keep(r, c) ==
  /\ kept[r] = Empty
  /\ Due(r, c)
  /\ kept' = [kept EXCEPT ![r] = c]
  /\ UNCHANGED <<requested, executed>>

Execute(r, c) ==
  /\ kept[r] \in {c, Empty}
  /\ Due(r, c)
  /\ executed' = [executed EXCEPT ![r][c] = @ + 1]
  /\ kept' = [kept EXCEPT ![r] = Empty]
  /\ UNCHANGED requested

Next == \E r \in Registers :
          \/ Erase(r)
          \/ \E c \in Words : Post(r, c) \/ Keep(r, c) \/ Execute(r, c)

Spec == Init /\ [][Next]_vars
=============================================================================
