---------------------------- MODULE MCVectorBus -----------------------------
(* Instance of VectorBus: a request to a device the listener knows, with an *)
(* answer of two bytes, and one to another device, of three.                *)
EXTENDS VectorBus

CONSTANTS r1, r2

MCAnsLen == (r1 :> 2) @@ (r2 :> 3)

=============================================================================
