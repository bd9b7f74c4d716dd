--------------------------- MODULE MCModbusServer ---------------------------
(* ModbusServer with two names for clients that wait and one for clients   *)
(* that do not, two of them connected at a time.                           *)
EXTENDS ModbusServer

CONSTANTS c1, c2, c3

=============================================================================
