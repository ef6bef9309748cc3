---------------------------- MODULE MCModbusPool ----------------------------
(* The pool on a small instance; its constants are given in the cfg files. *)
EXTENDS ModbusPool
=============================================================================
