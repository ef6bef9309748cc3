----------------------------- MODULE MCSharedPort -----------------------------
(* Two channels, so that a transmission can be cut between its frames.      *)
EXTENDS SharedPort
=============================================================================
