--------------------------- MODULE MCModbusService ---------------------------
(* One sensor in registers 0, 1 and 2, and two registers after them. *)
EXTENDS ModbusService

CONSTANTS s1, s2

Asks(f, i, n) == [func |-> f, start |-> i, amount |-> n]

(* The sensor; a range cut at the end; a client that overwrites a published *)
(* register; the input registers; a request that is not answered.           *)
SmallRequests ==
  {Asks("readHoldings", 0, 3), Asks("readHoldings", 2, 4), Asks("writeHoldings", 1, 1),
   Asks("readInputsRegs", 0, 1), Asks("unknown", 0, 0)}
=============================================================================
