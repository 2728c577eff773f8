------------------------------ MODULE SeqSpace ------------------------------
(***************************************************************************)
(* Sequence-number comparison of package vtcp (seqspace.go).  The code     *)
(* compares two uint32 numbers through the sign of int32(a - b); here the  *)
(* width is a parameter: Half is 2^31 in the code, and the difference is   *)
(* taken modulo 2 * Half.  Sequence numbers themselves are kept unwrapped  *)
(* (the number of the byte in the stream); only their residues matter to   *)
(* the comparisons, as in the code.                                        *)
(***************************************************************************)
EXTENDS Integers

CONSTANT Half

ASSUME HalfAssumption == Half \in Nat \ {0}

Modulus == 2 * Half

\* a - b as the code computes it: an unsigned number below 2 * Half, whose
\* int32 reading is negative exactly from Half on.
SeqDiff(a, b) == (a - b) % Modulus

SeqBefore(a, b) == SeqDiff(a, b) >= Half

SeqAfter(a, b) == SeqDiff(a, b) \in 1 .. (Half - 1)

SeqBeforeEq(a, b) == ~SeqAfter(a, b)

SeqAfterEq(a, b) == ~SeqBefore(a, b)

SeqInRange(seq, lo, hi) == SeqAfterEq(seq, lo) /\ SeqBefore(seq, hi)
=============================================================================
