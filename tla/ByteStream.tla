----------------------------- MODULE ByteStream -----------------------------
(***************************************************************************)
(* What one direction of a connection promises to the applications: the    *)
(* bytes accepted from the writer reach the reader, each once and in       *)
(* order.  This is the abstract specification that VtcpTransfer            *)
(* implements; acceptance and delivery each take any number of bytes.      *)
(***************************************************************************)
EXTENDS Naturals, Sequences

CONSTANT Source      \* the bytes the writer hands over, in order

VARIABLES
    wlen,            \* how many of them have been accepted
    delivered        \* what the reader has received

Init == wlen = 0 /\ delivered = << >>

Accept ==
    /\ wlen' \in (wlen + 1) .. Len(Source)
    /\ UNCHANGED delivered

Deliver ==
    /\ \E n \in (Len(delivered) + 1) .. wlen : delivered' = SubSeq(Source, 1, n)
    /\ UNCHANGED wlen

Next == Accept \/ Deliver

Spec == Init /\ [][Next]_<<wlen, delivered>>
=============================================================================
