----------------------------- MODULE VtcpFlush -----------------------------
(***************************************************************************)
(* How the segments a Conn has queued reach its Writer callback            *)
(* (flushPackets in vtcp/conn.go).  Every method of Conn queues its        *)
(* segments and drains the queue in one critical section of c.mu, unlocks, *)
(* and hands the batch to flushPackets.  One activation at a time writes:  *)
(* the one whose CompareAndSwap raised the flag "flushing".  The others    *)
(* put their batch back in the queue and return.                           *)
(*                                                                         *)
(* A thread is a goroutine using the Conn: the application, the network    *)
(* side, a timer callback.  The Writer may call back into the same Conn    *)
(* (two endpoints joined by a synchronous link), so a thread is a stack of *)
(* activations of flushPackets, of which only the last one moves.          *)
(***************************************************************************)
EXTENDS Naturals, Sequences

CONSTANTS
    Threads,
    MaxSegs,         \* bound: segments queued in a behaviour
    MaxDepth,        \* bound: nested activations of one thread
    NoThread

ASSUME FlushAssumption ==
    MaxSegs \in Nat /\ MaxDepth \in Nat /\ NoThread \notin Threads

VARIABLES
    outgoing,        \* c.outgoing
    flushing,        \* c.flushing
    stack,           \* the activations of each thread
    wire,            \* what the Writer has been given
    made             \* segments queued so far

vars == <<outgoing, flushing, stack, wire, made>>

(* A segment is known by its number.  "inside" is a history component: the *)
(* thread that put the segment back while it was itself the one writing.   *)
Entry(n, t) == [seg |-> n, inside |-> t]

Segs(entries) == {entries[i].seg : i \in DOMAIN entries}

Top(t) == stack[t][Len(stack[t])]

SetTop(t, frame) == stack' = [stack EXCEPT ![t][Len(stack[t])] = frame]

Return(t) == stack' = [stack EXCEPT ![t] = SubSeq(@, 1, Len(@) - 1)]

At(t, where) == stack[t] # << >> /\ Top(t).pc = where

Frames(t) == {stack[t][i] : i \in DOMAIN stack[t]}

Writes(frame) == frame.pc \in {"write", "store"}

Init ==
    /\ outgoing = << >> /\ flushing = FALSE
    /\ stack = [t \in Threads |-> << >>]
    /\ wire = << >> /\ made = 0

-----------------------------------------------------------------------------

(* A method of Conn, up to the call of flushPackets: it may queue a        *)
(* segment, takes the whole queue and unlocks.  It is called by a thread   *)
(* outside the Conn or by the Writer, from within an activation that       *)
(* writes.  flushPackets returns at once when there is nothing to write.   *)
Call(t) ==
    /\ stack[t] = << >> \/ (At(t, "write") /\ Top(t).pkts # << >>)
    /\ Len(stack[t]) < MaxDepth
    /\ \E n \in {0, 1} :
         LET pkts == outgoing \o [i \in 1 .. n |-> Entry(made + i, NoThread)]
         IN  /\ made + n <= MaxSegs
             /\ pkts # << >>
             /\ made' = made + n
             /\ stack' = [stack EXCEPT ![t] = Append(@, [pc |-> "cas", pkts |-> pkts])]
    /\ outgoing' = << >>
    /\ UNCHANGED <<flushing, wire>>

(* Mutant: the flag is read and raised in two steps, so a second thread    *)
(* can pass the test as well.                                              *)
CompareThenSwap(t) ==
    \/ /\ At(t, "cas")
       /\ SetTop(t, [Top(t) EXCEPT !.pc = IF flushing THEN "requeue" ELSE "swap"])
       /\ UNCHANGED <<outgoing, flushing, wire, made>>
    \/ /\ At(t, "swap")
       /\ SetTop(t, [Top(t) EXCEPT !.pc = "write"])
       /\ flushing' = TRUE
       /\ UNCHANGED <<outgoing, wire, made>>

CompareAndSwap(t) ==
    /\ At(t, "cas")
    /\ SetTop(t, [Top(t) EXCEPT !.pc = IF flushing THEN "requeue" ELSE "write"])
    /\ flushing' = TRUE
    /\ UNCHANGED <<outgoing, wire, made>>

Requeue(t) ==
    /\ At(t, "requeue")
    /\ LET inside == IF \E f \in Frames(t) : Writes(f) THEN t ELSE NoThread
       IN  outgoing' = outgoing \o [i \in DOMAIN Top(t).pkts |->
                                       Entry(Top(t).pkts[i].seg, inside)]
    /\ Return(t)
    /\ UNCHANGED <<flushing, wire, made>>

(* The Writer callback has returned for the first segment of the batch.    *)
Writer(t) ==
    /\ At(t, "write") /\ Top(t).pkts # << >>
    /\ wire' = Append(wire, Head(Top(t).pkts).seg)
    /\ SetTop(t, [Top(t) EXCEPT !.pkts = Tail(@)])
    /\ UNCHANGED <<outgoing, flushing, made>>

(* Mutant: the queue is copied and not emptied.                            *)
DrainKeeps(t) ==
    /\ At(t, "write") /\ Top(t).pkts = << >>
    /\ SetTop(t, [pc |-> IF outgoing = << >> THEN "store" ELSE "write", pkts |-> outgoing])
    /\ UNCHANGED <<outgoing, flushing, wire, made>>

(* Mutant: no loop; the batch written, the flag goes down.                 *)
DrainNever(t) ==
    /\ At(t, "write") /\ Top(t).pkts = << >>
    /\ SetTop(t, [pc |-> "store", pkts |-> << >>])
    /\ UNCHANGED <<outgoing, flushing, wire, made>>

DrainOutgoing(t) ==
    /\ At(t, "write") /\ Top(t).pkts = << >>
    /\ SetTop(t, [pc |-> IF outgoing = << >> THEN "store" ELSE "write", pkts |-> outgoing])
    /\ outgoing' = << >>
    /\ UNCHANGED <<flushing, wire, made>>

Store(t) ==
    /\ At(t, "store")
    /\ flushing' = FALSE
    /\ Return(t)
    /\ UNCHANGED <<outgoing, wire, made>>

Next == \E t \in Threads :
    \/ Call(t) \/ CompareAndSwap(t) \/ Requeue(t)
    \/ Writer(t) \/ DrainOutgoing(t) \/ Store(t)

Spec == Init /\ [][Next]_vars

-----------------------------------------------------------------------------
(* Properties *)

(* Types of the queue, the flag, the batches and the wire.                 *)
TypeOK ==
    /\ outgoing \in Seq([seg : 1 .. MaxSegs, inside : Threads \cup {NoThread}])
    /\ flushing \in BOOLEAN
    /\ made \in 0 .. MaxSegs
    /\ wire \in Seq(1 .. MaxSegs)
    /\ DOMAIN stack = Threads
    /\ \A t \in Threads : \A f \in Frames(t) :
         /\ f.pc \in {"cas", "requeue", "write", "store"}
         /\ f.pkts \in Seq([seg : 1 .. MaxSegs, inside : Threads \cup {NoThread}])

(* An activation is known by its thread and its depth.                     *)
Activations == {a \in Threads \X (1 .. MaxDepth) : a[2] <= Len(stack[a[1]])}

Frame(a) == stack[a[1]][a[2]]

(* Where segment n is.                                                     *)
Places(n) ==
    {<<"wire", i>> : i \in {j \in DOMAIN wire : wire[j] = n}}
    \cup {<<"queue", i>> : i \in {j \in DOMAIN outgoing : outgoing[j].seg = n}}
    \cup {a \in Activations : n \in Segs(Frame(a).pkts)}

(* The Writer callback is never running twice at once: the activations in  *)
(* the write loop, over all threads and all depths, are at most one, and   *)
(* there is one exactly while the flag is up.                              *)
OneWriter ==
    /\ \A a, b \in Activations : Writes(Frame(a)) /\ Writes(Frame(b)) => a = b
    /\ flushing <=> \E a \in Activations : Writes(Frame(a))

(* Whatever order the drains, the failed swaps and the re-queueings come   *)
(* in, every segment queued is in one place only: written, in c.outgoing,  *)
(* or in the batch of one activation.  None is lost and none written       *)
(* twice.                                                                  *)
EachOnce ==
    \A n \in 1 .. made : \E p \in Places(n) : Places(n) = {p}

(* What the trampoline is for: a segment re-queued by a re-entrant call is *)
(* in the queue only while the outer loop of the same thread has another   *)
(* drain to do, so it is written before that loop ends.                    *)
ReentrantDrained ==
    \A i \in DOMAIN outgoing :
        LET t == outgoing[i].inside
        IN  t # NoThread => \E f \in Frames(t) : f.pc = "write"

(* "Re-queue and let the outer flush loop drain them" (conn.go:270-271),   *)
(* for every failed swap: once no activation is left, nothing is left in   *)
(* the queue.  It does not hold when the failed swap is another            *)
(* goroutine's and falls between the last drain of the writing one and     *)
(* its Store(false).                                                       *)
NoneStranded == (\A t \in Threads : stack[t] = << >>) => outgoing = << >>
=============================================================================
