------------------------- MODULE MCCommandRegisters -------------------------
(* One channel, two slaves; the requests a client may write. *)
EXTENDS CommandRegisters

CONSTANTS s1, s2

Single(r, w) == [start |-> r, values |-> <<w>>]

SmallRequests ==
  {Single(0, w) : w \in {Kvit, ToZero}}
    \cup {Single(1, w) : w \in {Kvit, Disable, Empty}}
    \cup {Single(Last, w) : w \in {Reset, Record}}
    \cup {[start |-> 0, values |-> <<Kvit, Disable>>]}
=============================================================================
