----------------------------- MODULE RelayFile ------------------------------
(***************************************************************************)
(* Resumable file transfer over relay streams (p2put/relayfile.go).        *)
(*                                                                         *)
(* SendFile runs at one peer and opens a new stream whenever it gets no    *)
(* acknowledgement.  Every stream has its own handler at the other peer,   *)
(* and a handler whose stream was abandoned lives on until it notices.     *)
(* All handlers of one file name share the path of the partial file.       *)
(*                                                                         *)
(* The file is Total chunks of the source.  A file on disk is a sequence   *)
(* of cells, one per chunk; the directory maps the two paths to files, so  *)
(* that a removed file lives on while a handler has it open.               *)
(***************************************************************************)
EXTENDS Naturals, Sequences, FiniteSets, Functions

CONSTANTS
    Total,          \* chunks of the file
    AckBatch,       \* chunks per acknowledgement
    MaxStreams,     \* bound: streams opened
    MaxSends,       \* bound: calls of SendFile, one after the other
    MaxFaults       \* bound: faults of streams, disk and receiving process

ASSUME RelayFileAssumption ==
    /\ Total \in Nat /\ AckBatch \in Nat \ {0} /\ MaxStreams \in Nat \ {0}
    /\ MaxSends \in Nat /\ MaxFaults \in Nat

Streams == 1 .. MaxStreams
Files == Streams        \* a handler creates at most one file: named after its stream
None == 0

VARIABLES
    spc,            \* SendFile: "idle", "accept", "send", "ack", "done", "ok", "failed"
    seq,            \* its next chunk, from 0
    first, cur,     \* its first and its current stream
    opened,         \* streams opened so far
    sends,          \* calls of SendFile so far
    cancelled,      \* its context is cancelled
    up, down,       \* frames on their way to the handler and back
    broken,         \* streams that were reset
    sclosed, rclosed,   \* streams closed by the sender, by the handler
    hpc,            \* handler: "none", "loop", "verified", "renamed", "delete", "failing", "ended"
    hfile, hpos,    \* the file it has open and its position in chunks
    bitmap,         \* chunks it holds as received
    lastAck,
    state,          \* fileSession.state
    table,          \* the receiving peer's sessions
    tmp, saved,     \* the files that the two paths name
    data,           \* cells of every file: "ok", "cut" (a part of the chunk that belongs
                    \* there), "wrong" (another chunk) or "hole"
    faults

sendVars == <<spc, seq, first, cur, opened, sends, cancelled>>
netVars == <<up, down, broken, sclosed, rclosed>>
sesVars == <<hpc, hfile, hpos, bitmap, lastAck, state, table>>
diskVars == <<tmp, saved, data>>
vars == <<sendVars, netVars, sesVars, diskVars, faults>>

Frame(type, n) == [type |-> type, n |-> n]

Init ==
    /\ spc = "idle" /\ seq = 0 /\ first = None /\ cur = None
    /\ opened = 0 /\ sends = 0 /\ cancelled = FALSE
    /\ up = [s \in Streams |-> <<>>] /\ down = [s \in Streams |-> <<>>]
    /\ broken = {} /\ sclosed = {} /\ rclosed = {}
    /\ hpc = [s \in Streams |-> "none"]
    /\ hfile = [s \in Streams |-> None] /\ hpos = [s \in Streams |-> 0]
    /\ bitmap = [s \in Streams |-> {}] /\ lastAck = [s \in Streams |-> 0]
    /\ state = [s \in Streams |-> "init"] /\ table = {}
    /\ tmp = None /\ saved = None /\ data = [f \in Files |-> <<>>]
    /\ faults = 0

\* A fault happens.
Fault == faults < MaxFaults /\ faults' = faults + 1

\* Something that happens by itself under the condition, and as a fault without it.
Unless(condition) == IF condition THEN UNCHANGED faults ELSE Fault

Send(chan, s, frame) == [chan EXCEPT ![s] = Append(@, frame)]
Took(chan, s) == [chan EXCEPT ![s] = Tail(@)]

-----------------------------------------------------------------------------
\* SendFile

\* The sender's next frame; a frame of another type is an error to it.
Gets(types) == down[cur] # <<>> /\ cur \notin broken /\ Head(down[cur]).type \in types
\* Its read fails: reset, end of file, or a deadline although the handler is at work.
ReadFails == cur \in broken \/ (down[cur] = <<>> /\ cur \in rclosed)
\* Its write may fail.
WriteFails == cur \in broken \/ cur \in rclosed

\* SendFile returns: the deferred Close is that of the first stream.
Return(outcome) == spc' = outcome /\ sclosed' = sclosed \cup {first}

\* NewStream and INIT.
OpenStream(offset) ==
    /\ opened < MaxStreams
    /\ opened' = opened + 1 /\ cur' = opened + 1
    /\ up' = Send(up, opened + 1, Frame("INIT", offset))
    /\ spc' = "accept"

StartSend ==
    /\ spc \in {"idle", "failed"} /\ sends < MaxSends
    /\ sends' = sends + 1 /\ cancelled' = FALSE
    /\ seq' = 0
    /\ OpenStream(0) /\ first' = opened + 1
    /\ UNCHANGED <<down, broken, sclosed, rclosed, sesVars, diskVars, faults>>

\* No stream can be opened.
OpenFails ==
    /\ spc \in {"idle", "failed"} /\ sends < MaxSends /\ Fault
    /\ sends' = sends + 1 /\ cancelled' = FALSE
    /\ spc' = "failed"
    /\ UNCHANGED <<seq, first, cur, opened, netVars, sesVars, diskVars>>

ReadAccept ==
    /\ spc = "accept" /\ Gets({"ACCEPT"})
    /\ seq' = Head(down[cur]).n
    /\ down' = Took(down, cur) /\ spc' = "send"
    /\ UNCHANGED <<first, cur, opened, sends, cancelled, up, broken, sclosed, rclosed,
                   sesVars, diskVars, faults>>

AcceptFails ==
    /\ spc = "accept" /\ (Gets({"REJECT"}) \/ ReadFails)
    /\ Return("failed")
    /\ UNCHANGED <<seq, first, cur, opened, sends, cancelled, up, down, broken, rclosed,
                   sesVars, diskVars, faults>>

MinNat(a, b) == IF a < b THEN a ELSE b

SendBatch ==
    /\ spc = "send" /\ seq < Total /\ ~cancelled
    /\ LET end == MinNat(seq + AckBatch, Total)
       IN  /\ up' = [up EXCEPT ![cur] = @ \o [i \in 1 .. end - seq |-> Frame("DATA", seq + i - 1)]]
           /\ seq' = end
    /\ spc' = "ack"
    /\ UNCHANGED <<first, cur, opened, sends, cancelled, down, broken, sclosed, rclosed,
                   sesVars, diskVars, faults>>

\* Writing a chunk or FIN fails.
WriteError ==
    /\ spc = "send" /\ WriteFails
    /\ Return("failed")
    /\ UNCHANGED <<seq, first, cur, opened, sends, cancelled, up, down, broken, rclosed,
                   sesVars, diskVars, faults>>

\* The context is seen to be cancelled, or the source cannot be read.
SendCancel ==
    /\ spc = "send" /\ seq < Total
    /\ Unless(cancelled)
    /\ up' = Send(up, cur, Frame("CANCEL", 0))
    /\ Return("failed")
    /\ UNCHANGED <<seq, first, cur, opened, sends, cancelled, down, broken, rclosed, sesVars, diskVars>>

\* Mutant: the chunk after the acknowledged one is passed over.
ReadAckSkips ==
    /\ spc = "ack" /\ Gets({"ACK"})
    /\ seq' = MinNat(Head(down[cur]).n + 2, Total)
    /\ down' = Took(down, cur) /\ spc' = "send"
    /\ UNCHANGED <<first, cur, opened, sends, cancelled, up, broken, sclosed, rclosed,
                   sesVars, diskVars, faults>>

ReadAck ==
    /\ spc = "ack" /\ Gets({"ACK"})
    /\ seq' = Head(down[cur]).n + 1
    /\ down' = Took(down, cur) /\ spc' = "send"
    /\ UNCHANGED <<first, cur, opened, sends, cancelled, up, broken, sclosed, rclosed,
                   sesVars, diskVars, faults>>

\* No acknowledgement: the stream is closed and another one opened, with the end
\* of the batch as offset.
Resume ==
    /\ spc = "ack"
    /\ Unless(ReadFails \/ Gets({"ERROR"}))
    /\ sclosed' = sclosed \cup {cur}
    /\ ~cancelled /\ OpenStream(seq)
    /\ UNCHANGED <<seq, first, sends, cancelled, down, broken, rclosed, sesVars, diskVars>>

\* ... and that fails, as it does once the context is cancelled.
ResumeFails ==
    /\ spc = "ack"
    /\ IF ReadFails \/ Gets({"ERROR"}) THEN Unless(cancelled) ELSE cancelled /\ Fault
    /\ spc' = "failed" /\ sclosed' = sclosed \cup {first, cur}
    /\ UNCHANGED <<seq, first, cur, opened, sends, cancelled, up, down, broken, rclosed, sesVars, diskVars>>

SendFin ==
    /\ spc = "send" /\ seq >= Total
    /\ up' = Send(up, cur, Frame("FIN", 0)) /\ spc' = "done"
    /\ UNCHANGED <<seq, first, cur, opened, sends, cancelled, down, broken, sclosed, rclosed,
                   sesVars, diskVars, faults>>

ReadDone ==
    /\ spc = "done" /\ Gets({"DONE"})
    /\ Return("ok") /\ down' = Took(down, cur)
    /\ UNCHANGED <<seq, first, cur, opened, sends, cancelled, up, broken, rclosed,
                   sesVars, diskVars, faults>>

\* An error frame, the end of the stream, or the deadline.
DoneFails ==
    /\ spc = "done"
    /\ Unless(ReadFails \/ Gets({"ERROR"}))
    /\ Return("failed")
    /\ UNCHANGED <<seq, first, cur, opened, sends, cancelled, up, down, broken, rclosed, sesVars, diskVars>>

-----------------------------------------------------------------------------
\* HandleFileStream and receiveLoop, for stream s

Reads(s, type) == up[s] # <<>> /\ s \notin broken /\ Head(up[s]).type = type

\* The handler is done with the stream.
End(s) == hpc' = [hpc EXCEPT ![s] = "ended"] /\ rclosed' = rclosed \cup {s}

\* Chunks of a partial file that count as written: an incomplete one does.
WrittenChunks(f) == Len(data[f])

\* INIT: the partial file is opened when the sender has an offset and the file
\* exists, and created, or cut to nothing, otherwise.
Resumes(s) == Head(up[s]).n > 0 /\ tmp # None
PartFile(s) == IF tmp # None THEN tmp ELSE s
Opened(s) == IF Resumes(s) THEN data ELSE [data EXCEPT ![PartFile(s)] = <<>>]

\* Mutant: the handler takes the sender's offset.
StartSeqOffered(s) == Head(up[s]).n

StartSeq(s) == IF Resumes(s) THEN WrittenChunks(tmp) ELSE 0

HandleInit(s) ==
    /\ hpc[s] = "none" /\ Reads(s, "INIT")
    /\ hpos' = [hpos EXCEPT ![s] = StartSeq(s)]
    /\ bitmap' = [bitmap EXCEPT ![s] = {k \in 0 .. Total - 1 : k < StartSeq(s)}]
    /\ lastAck' = [lastAck EXCEPT ![s] = StartSeq(s)]
    /\ down' = Send(down, s, Frame("ACCEPT", StartSeq(s)))
    /\ tmp' = PartFile(s) /\ data' = Opened(s)
    /\ hfile' = [hfile EXCEPT ![s] = PartFile(s)]
    /\ hpc' = [hpc EXCEPT ![s] = "loop"]
    /\ state' = [state EXCEPT ![s] = "transfer"] /\ table' = table \cup {s}
    /\ up' = Took(up, s)
    /\ UNCHANGED <<sendVars, broken, sclosed, rclosed, saved, faults>>

\* No INIT, or no partial file (REJECT), or ACCEPT cannot be written: then the path
\* of the partial file is removed.
InitFails(s) ==
    /\ hpc[s] = "none" /\ s <= opened
    /\ \/ s \in broken /\ UNCHANGED <<down, broken, tmp, data, faults>>
       \/ /\ Reads(s, "INIT") /\ Fault
          /\ down' = Send(down, s, Frame("REJECT", 0))
          /\ UNCHANGED <<broken, tmp, data>>
       \/ /\ Reads(s, "INIT") /\ Fault
          /\ broken' = broken \cup {s} /\ tmp' = None /\ data' = Opened(s)
          /\ UNCHANGED down
    /\ End(s)
    /\ UNCHANGED <<sendVars, up, sclosed, hfile, hpos, bitmap, lastAck, state, table, saved>>

\* A file after a write of one cell at position p.
WriteCell(cells, p, c) ==
    [k \in 1 .. (IF p + 1 > Len(cells) THEN p + 1 ELSE Len(cells)) |->
        IF k = p + 1 THEN c ELSE IF k <= Len(cells) THEN cells[k] ELSE "hole"]

\* bitmapMaxContinuous
MaxContinuous(bits) ==
    CHOOSE n \in 0 .. Total : (\A k \in 0 .. n - 1 : k \in bits) /\ n \notin bits


\* An acknowledgement is due at the end of a batch and of the file.
AckDue(s, newSeq) ==
    (newSeq - lastAck[s] >= AckBatch \/ newSeq >= Total) /\ newSeq > lastAck[s]

\* DATA: written at the current position unless held already, then acknowledged.
RecvData(s) ==
    /\ hpc[s] = "loop" /\ Reads(s, "DATA")
    /\ LET k == Head(up[s]).n
           new == k \notin bitmap[s]
           cell == IF k = hpos[s] THEN "ok" ELSE "wrong"
           newSeq == MaxContinuous(bitmap[s] \cup {k})
           acks == AckDue(s, newSeq)
       IN  /\ data' = IF new THEN [data EXCEPT ![hfile[s]] = WriteCell(@, hpos[s], cell)] ELSE data
           /\ hpos' = IF new THEN [hpos EXCEPT ![s] = @ + 1] ELSE hpos
           /\ bitmap' = [bitmap EXCEPT ![s] = @ \cup {k}]
           /\ down' = IF acks THEN Send(down, s, Frame("ACK", newSeq - 1)) ELSE down
           /\ lastAck' = IF acks THEN [lastAck EXCEPT ![s] = newSeq] ELSE lastAck
    /\ up' = Took(up, s)
    /\ UNCHANGED <<sendVars, broken, sclosed, rclosed, hpc, hfile, state, table, tmp, saved, faults>>

\* The disk when the handler stops at any point of the write that is its next step.
Torn(s) ==
    IF /\ hpc[s] = "loop" /\ Reads(s, "DATA") /\ Head(up[s]).n \notin bitmap[s]
       /\ hpos[s] = Len(data[hfile[s]])
    THEN {data, [data EXCEPT ![hfile[s]] = Append(@, "cut")]} ELSE {data}

\* The write fails, perhaps after a part of the chunk: ERROR, then cleanup.
DiskError(s) ==
    /\ hpc[s] = "loop" /\ Reads(s, "DATA") /\ Fault
    /\ data' \in Torn(s)
    /\ down' = Send(down, s, Frame("ERROR", 0)) /\ up' = Took(up, s)
    /\ hpc' = [hpc EXCEPT ![s] = "failing"]
    /\ UNCHANGED <<sendVars, broken, sclosed, rclosed, hfile, hpos, bitmap, lastAck, state, table, tmp, saved>>

Whole(f) == data[f] = [k \in 1 .. Total |-> "ok"]

\* Mutant: the hash of the partial file is not compared.
VerifiedUnread == tmp # None

\* verifyFileHash of what the path of the partial file names.
Verified == tmp # None /\ Whole(tmp)

\* FIN: the file is closed, and what the path of the partial file names is hashed.
RecvFin(s) ==
    /\ hpc[s] = "loop" /\ Reads(s, "FIN")
    /\ up' = Took(up, s)
    /\ hfile' = [hfile EXCEPT ![s] = None]
    /\ IF Verified
       THEN hpc' = [hpc EXCEPT ![s] = "verified"] /\ UNCHANGED down
       ELSE hpc' = [hpc EXCEPT ![s] = "failing"] /\ down' = Send(down, s, Frame("ERROR", 0))
    /\ UNCHANGED <<sendVars, broken, sclosed, rclosed, hpos, bitmap, lastAck, state, table, diskVars, faults>>

\* os.Rename of whatever the path names by now.
Rename(s) ==
    /\ hpc[s] = "verified"
    /\ IF tmp # None
       THEN /\ saved' = tmp /\ tmp' = None
            /\ hpc' = [hpc EXCEPT ![s] = "renamed"] /\ UNCHANGED down
       ELSE /\ hpc' = [hpc EXCEPT ![s] = "failing"] /\ down' = Send(down, s, Frame("ERROR", 0))
            /\ UNCHANGED <<saved, tmp>>
    /\ UNCHANGED <<sendVars, up, broken, sclosed, rclosed, hfile, hpos, bitmap, lastAck, state, table, data, faults>>

\* state = "done" and DONE.  When DONE cannot be written the entry stays in the
\* table: cleanupSession leaves a session that is done alone.
SendDone(s) ==
    /\ hpc[s] = "renamed"
    /\ state' = [state EXCEPT ![s] = "done"]
    /\ IF s \in broken
       THEN End(s) /\ UNCHANGED down
       ELSE /\ hpc' = [hpc EXCEPT ![s] = "delete"] /\ down' = Send(down, s, Frame("DONE", 0))
            /\ UNCHANGED rclosed
    /\ UNCHANGED <<sendVars, up, broken, sclosed, hfile, hpos, bitmap, lastAck, table, diskVars, faults>>

DeleteSession(s) ==
    /\ hpc[s] = "delete"
    /\ table' = table \ {s} /\ End(s)
    /\ UNCHANGED <<sendVars, up, down, broken, sclosed, hfile, hpos, bitmap, lastAck, state, diskVars, faults>>

\* cleanupSession: a session that was cancelled is left as it is; otherwise the
\* path of the partial file is removed, whichever file it names.
Cleanup(s) ==
    /\ End(s)
    /\ IF state[s] = "cancelled"
       THEN UNCHANGED <<state, hfile, tmp, table>>
       ELSE /\ state' = [state EXCEPT ![s] = "error"]
            /\ hfile' = [hfile EXCEPT ![s] = None]
            /\ tmp' = None
            /\ table' = table \ {s}
    /\ UNCHANGED <<sendVars, down, broken, sclosed, hpos, bitmap, lastAck, saved, data>>

CleanupFailing(s) == hpc[s] = "failing" /\ Cleanup(s) /\ UNCHANGED <<up, faults>>

RecvCancel(s) == hpc[s] = "loop" /\ Reads(s, "CANCEL") /\ Cleanup(s) /\ up' = Took(up, s) /\ UNCHANGED faults

\* The sender will not write to s again.
Abandoned(s) == s # cur \/ spc \in {"ok", "failed"}

\* The read fails: reset, end of file, or the deadline, which is a fault when the
\* sender is still at work on this stream.
RecvFails(s) ==
    /\ hpc[s] = "loop"
    /\ s \in broken \/ up[s] = <<>>
    /\ Unless(s \in broken \/ s \in sclosed \/ Abandoned(s))
    /\ Cleanup(s) /\ UNCHANGED up

-----------------------------------------------------------------------------
\* Users and environment

\* CancelFileSession, or the caller's context, at the sending peer.
CancelSender ==
    /\ spc \in {"accept", "send", "ack", "done"} /\ ~cancelled
    /\ cancelled' = TRUE
    /\ UNCHANGED <<spc, seq, first, cur, opened, sends, netVars, sesVars, diskVars, faults>>

\* CancelFileSession at the receiving peer: nothing in receiveLoop looks at it.
CancelReceiver(s) ==
    /\ s \in table /\ state[s] # "cancelled"
    /\ state' = [state EXCEPT ![s] = "cancelled"]
    /\ UNCHANGED <<sendVars, netVars, hpc, hfile, hpos, bitmap, lastAck, table, diskVars, faults>>

\* The relay drops the stream; frames on their way are lost.
Break(s) ==
    /\ s <= opened /\ s \notin broken /\ Fault
    /\ hpc[s] # "ended" \/ s = cur
    /\ broken' = broken \cup {s}
    /\ UNCHANGED <<sendVars, up, down, sclosed, rclosed, sesVars, diskVars>>

\* The receiving process is killed and restarted: its handlers and sessions are
\* gone, its files stay, and a chunk being written may be incomplete.
Crash ==
    /\ Fault
    /\ data' \in UNION {Torn(s) : s \in Streams}
    /\ broken' = broken \cup 1 .. opened
    /\ hpc' = [s \in Streams |-> IF s <= opened THEN "ended" ELSE "none"]
    /\ rclosed' = rclosed \cup 1 .. opened
    /\ hfile' = [s \in Streams |-> None] /\ table' = {}
    /\ UNCHANGED <<sendVars, up, down, sclosed, hpos, bitmap, lastAck, state, tmp, saved>>

Sender ==
    \/ ReadAccept \/ AcceptFails \/ SendBatch \/ WriteError \/ SendCancel \/ ReadAck
    \/ Resume \/ ResumeFails \/ SendFin \/ ReadDone \/ DoneFails

Handler(s) ==
    \/ HandleInit(s) \/ InitFails(s) \/ RecvData(s) \/ DiskError(s) \/ RecvFin(s) \/ Rename(s)
    \/ SendDone(s) \/ DeleteSession(s) \/ CleanupFailing(s) \/ RecvCancel(s) \/ RecvFails(s)

Environment == StartSend \/ OpenFails \/ CancelSender \/ Crash \/ \E s \in Streams : CancelReceiver(s) \/ Break(s)

Next == Sender \/ Environment \/ \E s \in Streams : Handler(s)

Spec == Init /\ [][Next]_vars

\* Goroutines that can run do.
FairSpec == Spec /\ WF_vars(Sender) /\ \A s \in Streams : WF_vars(Handler(s))

-----------------------------------------------------------------------------
\* Properties

\* Types.  An open file of a handler exists, and positions stay within the file.
TypeOK ==
    /\ spc \in {"idle", "accept", "send", "ack", "done", "ok", "failed"}
    /\ seq \in 0 .. Total + 1 /\ {first, cur} \subseteq Streams \cup {None}
    /\ opened \in 0 .. MaxStreams /\ faults \in 0 .. MaxFaults
    /\ \A s \in Streams :
        /\ hpc[s] \in {"none", "loop", "verified", "renamed", "delete", "failing", "ended"}
        /\ hpc[s] = "loop" => hfile[s] \in Files
        /\ state[s] \in {"init", "transfer", "done", "error", "cancelled"}
    /\ {tmp, saved} \subseteq Files \cup {None}
    /\ \A f \in Files : \A k \in DOMAIN data[f] : data[f][k] \in {"ok", "cut", "wrong", "hole"}

Drop == INSTANCE FileDrop WITH
    file <- IF saved = None THEN "absent" ELSE IF Whole(saved) THEN "whole" ELSE "damaged",
    outcome <- IF spc \in {"ok", "failed"} THEN spc ELSE "pending"

\* The transfer implements FileDrop: whatever abandoned handlers, resumed
\* streams, cancellation and crashes do, the final name shows nothing or the
\* whole file, and SendFile succeeds only when the file is there.
DropSpec == Drop!Spec

\* Cells of files d that do not hold their chunk.
Damaged(d) == {c \in Files \X (1 .. Total) : c[2] \in DOMAIN d[c[1]] /\ d[c[1]][c[2]] # "ok"}

\* What a handler counts as received, and so acknowledges, is in the file it has open,
\* every chunk at its own place, however stale the handler's position: no file has a
\* hole or a chunk of another place.  Every cell that is not its whole chunk is owed to
\* a failed write or crash of its own: a resumption counts it as received
\* (writtenChunks++), acknowledges it, and leaves it to the hash.
ReceivedInPlace ==
    /\ \A s \in Streams : hpc[s] = "loop" => \A k \in bitmap[s] : k + 1 \in DOMAIN data[hfile[s]]
    /\ \A f \in Files : \A k \in DOMAIN data[f] : data[f][k] \in {"ok", "cut"}
    /\ ExistsInjection(Damaged(data), 1 .. faults)

\* SendFile fails only for a cause: a fault or a cancellation by its caller.
\* The receiver's CancelFileSession is none, since its loop goes on.
FailsForCause == spc = "failed" => faults > 0 \/ cancelled


\* docs/relayfile-design.md:10, concurrent transfers do not disturb each other: the
\* final name never shows a damaged file, also when SendFile is called again while
\* a handler of the call before is still at work.
SavedWhole == saved # None => Whole(saved)

\* docs/relayfile-design.md:8, the transfer resumes by itself after the relay
\* drops it and loses one window of acknowledgements at most.
ResumeLosesAWindow == [][ReadAccept => seq' + AckBatch >= seq]_vars

\* docs/relayfile-design.md:109, a sender that has read ACK(cs) knows that the chunks
\* 0 .. cs have safely arrived, and :194, a chunk that may be incomplete is checked
\* again on resumption: while the handler is at work they are whole in its file.
AckedArrived ==
    [][ReadAck /\ hpc[cur] = "loop" => \A k \in 1 .. seq' : data[hfile[cur]][k] = "ok"]_vars
=============================================================================
