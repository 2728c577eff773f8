------------------------------ MODULE FileDrop ------------------------------
(***************************************************************************)
(* What the relay file transfer promises (p2put/relayfile.go, SendFile and *)
(* HandleFileStream): under its final name a file is either absent or      *)
(* whole, and SendFile reports success only when it is there.              *)
(***************************************************************************)
VARIABLES
    file,       \* what the final name shows: "absent" or "whole"
    outcome     \* of SendFile: "pending", "ok" or "failed"

Init == file = "absent" /\ outcome = "pending"

\* The file appears under its final name in one step.
Arrive == file = "absent" /\ file' = "whole" /\ UNCHANGED outcome

Succeed == file = "whole" /\ outcome = "pending" /\ outcome' = "ok" /\ UNCHANGED file

\* A failure may be reported although the file has arrived.
Fail == outcome = "pending" /\ outcome' = "failed" /\ UNCHANGED file

Next == Arrive \/ Succeed \/ Fail

Spec == Init /\ [][Next]_<<file, outcome>>
=============================================================================
