--------------------------- MODULE MCVtcpTransfer ---------------------------
(***************************************************************************)
(* Small instances of VtcpTransfer: byte k of the stream is the number k,  *)
(* so that a byte in the wrong place shows.                                *)
(***************************************************************************)
EXTENDS VtcpTransfer

CONSTANT Total

MCSource == [k \in 1 .. Total |-> k]
=============================================================================
