----------------------------- MODULE MCVtcpConn -----------------------------
(***************************************************************************)
(* Small instances of VtcpConn: ends "a" and "b", which write AWrites and  *)
(* BWrites bytes; byte k of an end's stream is the number k.               *)
(***************************************************************************)
EXTENDS VtcpConn

CONSTANTS AWrites, BWrites

MCSource == [e \in {"a", "b"} |->
                [k \in 1 .. (IF e = "a" THEN AWrites ELSE BWrites) |-> k]]

MCISS == [e \in {"a", "b"} |-> IF e = "a" THEN 5 ELSE 20]

\* One thing goes wrong at a time: the network errs or an end aborts.
OneMishap == faults + aborts <= 1 /\ timeouts <= faults
=============================================================================
