---- MODULE Wal ----
(***************************************************************************)
(* internal/wal: a segmented write-ahead log.  Append hands its record to  *)
(* one writer goroutine, which collects a batch, writes it, syncs the      *)
(* active segment and answers.  Open recovers from whatever a crash left.  *)
(* A consumer (Reader) follows the log and persists its offset.            *)
(*                                                                         *)
(* Each client appends one record, named after it.  Records have one size, *)
(* so that byte limits count records.  A segment file is its header, the   *)
(* records in it and how much of it fsync has made durable; Torn stands    *)
(* for bytes that do not form a record, where every scan stops.            *)
(***************************************************************************)
EXTENDS Integers, Sequences, Functions

CONSTANTS
    Client,         \* callers of Append, one call each
    Torn,           \* bytes that scanRecord rejects
    Policy,         \* "batched", "always" or "interval"
    SegRecords,     \* records that fit into a segment (SegmentBytes)
    MaxBatch,       \* records that close a batch (MaxBatchBytes)
    MaxPending,     \* capacity of the request channel
    WriteFaults,    \* whether a write may fail short
    SyncFaults,     \* whether fsync or creating a segment may fail
    PowerLoss,      \* whether a crash may take unsynced bytes with it
    CloseCalled,    \* whether Close may be called
    Retention,      \* whether Retain is called, as no caller in src/ does yet
    MaxCrashes      \* bound: crashes

ASSUME WalAssumption ==
    /\ Torn \notin Client
    /\ Policy \in {"batched", "always", "interval"}
    /\ SegRecords \in Nat \ {0} /\ MaxBatch \in Nat \ {0} /\ MaxPending \in Nat \ {0}
    /\ WriteFaults \in BOOLEAN /\ SyncFaults \in BOOLEAN
    /\ PowerLoss \in BOOLEAN /\ CloseCalled \in BOOLEAN /\ Retention \in BOOLEAN
    /\ MaxCrashes \in Nat

VARIABLES
    files,      \* disk: the segment files, ascending by base
    committed,  \* disk: the consumer's offset file
    up,         \* "up", "down", or "refused" when Open returned an error
    segs,       \* l.segs: base and record count of each segment
    next,       \* l.next
    handle,     \* whether l.active is open
    reqs,       \* l.reqs
    wpc,        \* control state of writeLoop
    batch,      \* the batch it is writing
    written,    \* how many records of the batch are written
    closed,     \* l.closed, and l.quit is closed
    call,       \* call[c]: where c is in Append, or what Append returned to it
    resp,       \* resp[c]: the answer in c's response channel
    pos,        \* the consumer's next offset
    delivered,  \* history: <<offset, record>> pairs Next has returned
    crashes,    \* crashes so far
    outage      \* history: one of them was a loss of power

diskVars == <<files, committed>>
logVars == <<segs, next, handle>>
writerVars == <<reqs, wpc, batch, written>>
clientVars == <<call, resp>>
readerVars == <<pos, delivered>>
crashVars == <<crashes, outage>>
vars == <<diskVars, up, logVars, writerVars, closed, clientVars, readerVars, crashVars>>

Segment == [base : Nat, hdr : BOOLEAN, recs : Seq(Client \cup {Torn}),
            synced : Nat \cup {-1}]     \* -1: not even the header
Final == [kind : {"acked"}, off : Nat]
         \cup [kind : {"failed", "cancelled", "closed"}]
None == [kind |-> "none"]

TypeOK ==
    /\ files \in Seq(Segment) /\ committed \in Nat
    /\ up \in {"up", "down", "refused"}
    /\ segs \in Seq([base : Nat, records : Nat]) /\ next \in Nat
    /\ handle \in BOOLEAN
    /\ reqs \in Seq(Client) /\ Len(reqs) <= MaxPending
    /\ wpc \in {"idle", "collect", "write", "roll", "exited"}
    /\ batch \in Seq(Client) /\ Len(batch) <= MaxBatch
    /\ written \in 0..Len(batch)
    /\ closed \in BOOLEAN
    /\ call \in [Client -> Final \cup [kind : {"new", "sending", "waiting"}]]
    /\ resp \in [Client -> Final \cup {None}]
    /\ pos \in Nat /\ delivered \subseteq Nat \X Client
    /\ crashes \in Nat /\ outage \in BOOLEAN

----------------------------------------------------------------------------
(* What a scan of the disk finds.                                           *)

\* scanSegment: records up to the first bytes that are not one.
Valid(f) ==
    IF ~f.hdr THEN 0
    ELSE CHOOSE n \in 0..Len(f.recs) :
             /\ \A j \in 1..n : f.recs[j] # Torn
             /\ n = Len(f.recs) \/ f.recs[n + 1] = Torn

\* The segment that offset o lies in, and the record there.
Holds(f, o) == f.base <= o /\ o < f.base + Valid(f)
Readable(o) == \E i \in DOMAIN files : Holds(files[i], o)
DiskAt(o) == LET f == files[CHOOSE i \in DOMAIN files : Holds(files[i], o)]
             IN  f.recs[o - f.base + 1]
End(s) == s.base + s.records
LastOf(s) == s[Len(s)]

LastFile == Len(files)
WriteTo(rs) == files' = [files EXCEPT ![LastFile].recs = @ \o rs]
SyncLast == [files EXCEPT ![LastFile].synced = Len(files[LastFile].recs)]

----------------------------------------------------------------------------
(* Open: recovery runs at every start, and resumes the consumer.            *)

NewSegment(base, hdr) == [base |-> base, hdr |-> hdr, recs |-> <<>>, synced |-> -1]

\* Mutant: a last file that is not full is taken for a crash during roll.
ListedFull ==
    IF files # <<>> /\ Len(LastOf(files).recs) <= SegRecords
    THEN SubSeq(files, 1, Len(files) - 1) ELSE files

\* A torn header on the last file is a crash during roll: the file is dropped.
Listed ==
    IF files # <<>> /\ ~LastOf(files).hdr THEN SubSeq(files, 1, Len(files) - 1) ELSE files
Scanned == [i \in DOMAIN Listed |->
               [base |-> Listed[i].base, records |-> Valid(Listed[i])]]
Chained == /\ \A i \in DOMAIN Listed : Listed[i].hdr
           /\ \A i \in 1..Len(Listed) - 1 : End(Scanned[i]) = Scanned[i + 1].base

\* Mutant: the torn tail stays, and records are appended after it.
TruncatedNot == Listed

Truncated == [Listed EXCEPT ![Len(Listed)].recs = SubSeq(@, 1, Valid(LastOf(Listed)))]

Resume(oldest) == pos' = IF committed < oldest THEN oldest ELSE committed

Started ==
    /\ up' = "up" /\ handle' = TRUE
    /\ reqs' = <<>> /\ wpc' = "idle" /\ batch' = <<>> /\ written' = 0
    /\ closed' = FALSE
    /\ UNCHANGED <<committed, clientVars, delivered, crashVars>>

OpenEmpty ==
    /\ up = "down" /\ Listed = <<>>
    /\ files' = <<NewSegment(0, TRUE)>>
    /\ segs' = <<[base |-> 0, records |-> 0]>> /\ next' = 0
    /\ Resume(0)
    /\ Started

OpenExisting ==
    /\ up = "down" /\ Listed # <<>> /\ Chained
    /\ files' = Truncated
    /\ segs' = Scanned /\ next' = End(LastOf(Scanned))
    /\ Resume(Scanned[1].base)
    /\ Started

OpenRefused ==
    /\ up = "down" /\ Listed # <<>> /\ ~Chained
    /\ up' = "refused"
    /\ UNCHANGED <<diskVars, logVars, writerVars, closed, clientVars, readerVars, crashVars>>

----------------------------------------------------------------------------
(* Append, from the caller's side.                                          *)

Return(c, r) == call' = [call EXCEPT ![c] = r]
CallOnly == UNCHANGED <<diskVars, up, logVars, wpc, batch, written, closed, resp,
                        readerVars, crashVars>>

CheckClosed(c) ==
    /\ up = "up" /\ call[c].kind = "new"
    /\ Return(c, [kind |-> IF closed THEN "closed" ELSE "sending"])
    /\ CallOnly /\ UNCHANGED reqs

Send(c) ==
    /\ up = "up" /\ call[c].kind = "sending" /\ Len(reqs) < MaxPending
    /\ reqs' = Append(reqs, c)
    /\ Return(c, [kind |-> "waiting"])
    /\ CallOnly

Receive(c) ==
    /\ up = "up" /\ call[c].kind = "waiting" /\ resp[c] # None
    /\ Return(c, resp[c])
    /\ CallOnly /\ UNCHANGED reqs

\* Mutant: the second select of Append has no l.done case.
WriterGoneSending(c) ==
    /\ up = "up" /\ call[c].kind = "sending" /\ wpc = "exited"
    /\ Return(c, [kind |-> "closed"])
    /\ CallOnly /\ UNCHANGED reqs

\* The l.done case of both selects.
WriterGone(c) ==
    /\ up = "up" /\ call[c].kind \in {"sending", "waiting"} /\ wpc = "exited"
    /\ Return(c, [kind |-> "closed"])
    /\ CallOnly /\ UNCHANGED reqs

\* The ctx.Done case of both selects.
ContextDone(c) ==
    /\ up = "up" /\ call[c].kind \in {"sending", "waiting"}
    /\ Return(c, [kind |-> "cancelled"])
    /\ CallOnly /\ UNCHANGED reqs

----------------------------------------------------------------------------
(* writeLoop and writeBatch.                                                *)

Take ==
    /\ up = "up" /\ wpc = "idle" /\ reqs # <<>>
    /\ batch' = <<Head(reqs)>> /\ written' = 0
    /\ reqs' = Tail(reqs)
    /\ wpc' = IF Policy = "always" THEN "write" ELSE "collect"
    /\ UNCHANGED <<diskVars, up, logVars, closed, clientVars, readerVars, crashVars>>

Collect ==
    /\ up = "up" /\ wpc = "collect" /\ reqs # <<>> /\ Len(batch) < MaxBatch
    /\ batch' = Append(batch, Head(reqs))
    /\ reqs' = Tail(reqs)
    /\ UNCHANGED <<diskVars, up, logVars, wpc, written, closed, clientVars,
                   readerVars, crashVars>>

\* The batch is full or its window has passed.
CollectEnd ==
    /\ up = "up" /\ wpc = "collect"
    /\ wpc' = "write"
    /\ UNCHANGED <<diskVars, up, logVars, reqs, batch, written, closed, clientVars,
                   readerVars, crashVars>>

\* writeBatch returned: every request of the batch gets its answer.
Answer(r(_)) ==
    /\ resp' = [c \in Client |-> IF c \in Range(batch) THEN r(c) ELSE resp[c]]
    /\ wpc' = "idle" /\ batch' = <<>> /\ written' = 0
    /\ UNCHANGED <<committed, up, reqs, closed, call, readerVars, crashVars>>

AnswerError == Answer(LAMBDA c : [kind |-> "failed"])

OffsetIn(c) == next - Len(batch) + (CHOOSE i \in DOMAIN batch : batch[i] = c) - 1
AnswerOffsets == Answer(LAMBDA c : [kind |-> "acked", off |-> OffsetIn(c)])

Writing == up = "up" /\ wpc = "write" /\ written < Len(batch)
Full == LastOf(segs).records >= SegRecords

\* f.Write and the bookkeeping after it.
WriteRecord ==
    /\ Writing /\ ~Full /\ handle
    /\ WriteTo(<<batch[written + 1]>>)
    /\ segs' = [segs EXCEPT ![Len(segs)].records = @ + 1]
    /\ next' = next + 1
    /\ written' = written + 1
    /\ UNCHANGED <<committed, up, handle, reqs, wpc, batch, closed, clientVars,
                   readerVars, crashVars>>

\* The write fails, leaving nothing or part of the record in the file.
WriteFails ==
    /\ WriteFaults /\ Writing /\ ~Full /\ handle
    /\ WriteTo(<<>>) \/ WriteTo(<<Torn>>)
    /\ AnswerError
    /\ UNCHANGED logVars

\* Mutant: roll does not sync the segment it seals.
RollCreateUnsynced ==
    /\ Writing /\ Full /\ handle
    /\ files' = Append(files, NewSegment(next, FALSE))
    /\ handle' = FALSE
    /\ wpc' = "roll"
    /\ UNCHANGED <<committed, up, segs, next, reqs, batch, written, closed, clientVars,
                   readerVars, crashVars>>

\* roll: sync and close the active segment and create the next file ...
RollCreate ==
    /\ Writing /\ Full /\ handle
    /\ files' = Append(SyncLast, NewSegment(next, FALSE))
    /\ handle' = FALSE
    /\ wpc' = "roll"
    /\ UNCHANGED <<committed, up, segs, next, reqs, batch, written, closed, clientVars,
                   readerVars, crashVars>>

\* ... and write its header.
RollHeader ==
    /\ up = "up" /\ wpc = "roll"
    /\ files' = [files EXCEPT ![LastFile].hdr = TRUE]
    /\ segs' = Append(segs, [base |-> next, records |-> 0])
    /\ handle' = TRUE
    /\ wpc' = "write"
    /\ UNCHANGED <<committed, up, next, reqs, batch, written, closed, clientVars,
                   readerVars, crashVars>>

\* roll fails before the close, after it, or at the header; after the close
\* l.active is a closed file and every later write fails.
RollFails ==
    /\ SyncFaults
    /\ \/ Writing /\ Full /\ handle /\ UNCHANGED <<files, handle>>
       \/ Writing /\ Full /\ handle /\ files' = SyncLast /\ handle' = FALSE
       \/ up = "up" /\ wpc = "roll" /\ UNCHANGED <<files, handle>>
    /\ AnswerError
    /\ UNCHANGED <<segs, next>>

HandleClosed ==
    /\ Writing /\ ~handle
    /\ AnswerError
    /\ UNCHANGED <<files, logVars>>

Written == up = "up" /\ wpc = "write" /\ written = Len(batch)

Sync ==
    /\ Written
    /\ files' = SyncLast
    /\ AnswerOffsets
    /\ UNCHANGED logVars

\* SyncInterval: the last fsync is recent enough.
SyncSkipped ==
    /\ Written /\ Policy = "interval"
    /\ AnswerOffsets
    /\ UNCHANGED <<files, logVars>>

SyncFails ==
    /\ SyncFaults /\ Written
    /\ AnswerError
    /\ UNCHANGED <<files, logVars>>

\* Close: the writer notices l.quit when it is idle; Close then syncs.
Close ==
    /\ CloseCalled /\ up = "up" /\ ~closed
    /\ closed' = TRUE
    /\ UNCHANGED <<diskVars, up, logVars, writerVars, clientVars, readerVars, crashVars>>

\* Mutant: the writer waits for a request before it looks at l.quit.
QuitAfterRequest ==
    /\ up = "up" /\ closed /\ wpc = "idle" /\ reqs # <<>>
    /\ wpc' = "exited"
    /\ files' = IF handle THEN SyncLast ELSE files
    /\ handle' = FALSE
    /\ UNCHANGED <<committed, up, segs, next, reqs, batch, written, closed, clientVars,
                   readerVars, crashVars>>

Quit ==
    /\ up = "up" /\ closed /\ wpc = "idle"
    /\ wpc' = "exited"
    /\ files' = IF handle THEN SyncLast ELSE files
    /\ handle' = FALSE
    /\ UNCHANGED <<committed, up, segs, next, reqs, batch, written, closed, clientVars,
                   readerVars, crashVars>>

----------------------------------------------------------------------------
(* The consumer.                                                            *)

\* Mutant: the head of the log is off by one.
ReadNextOffByOne ==
    /\ up = "up" /\ pos + 1 < next /\ Readable(pos)
    /\ delivered' = delivered \cup {<<pos, DiskAt(pos)>>}
    /\ pos' = pos + 1
    /\ UNCHANGED <<diskVars, up, logVars, writerVars, closed, clientVars, crashVars>>

\* Next reads the record at pos; before the head of the log, and where the
\* file does not hold a record, it returns an error (ErrNoRecord, or ErrCorrupt
\* from skipTo) and nothing changes.
ReadNext ==
    /\ up = "up" /\ pos < next /\ Readable(pos)
    /\ delivered' = delivered \cup {<<pos, DiskAt(pos)>>}
    /\ pos' = pos + 1
    /\ UNCHANGED <<diskVars, up, logVars, writerVars, closed, clientVars, crashVars>>

Commit ==
    /\ up = "up" /\ committed # pos
    /\ committed' = pos
    /\ UNCHANGED <<files, up, logVars, writerVars, closed, clientVars, readerVars, crashVars>>

\* Mutant: MinRetainOffset is what the consumer has read, not what it committed.
RetainUnread ==
    /\ Retention /\ up = "up"
    /\ \E k \in 1..Len(segs) - 1 :
          /\ \A i \in 1..k : End(segs[i]) <= pos
          /\ segs' = SubSeq(segs, k + 1, Len(segs))
          /\ files' = SubSeq(files, k + 1, Len(files))
    /\ UNCHANGED <<committed, up, next, handle, writerVars, closed, clientVars, readerVars,
                   crashVars>>

\* Retain, for one consumer: the oldest sealed segments that are over the size or
\* age budget go, up to the first that ends above MinRetainOffset.
Retain ==
    /\ Retention /\ up = "up"
    /\ \E k \in 1..Len(segs) - 1 :
          /\ \A i \in 1..k : End(segs[i]) <= committed
          /\ segs' = SubSeq(segs, k + 1, Len(segs))
          /\ files' = SubSeq(files, k + 1, Len(files))
    /\ UNCHANGED <<committed, up, next, handle, writerVars, closed, clientVars, readerVars,
                   crashVars>>

----------------------------------------------------------------------------
(* Crashes.  Memory is lost and callers get no answer.                      *)

Down ==
    /\ up = "up" /\ crashes < MaxCrashes
    /\ up' = "down" /\ crashes' = crashes + 1
    /\ call' = [c \in Client |-> IF call[c].kind \in {"sending", "waiting"}
                                 THEN [kind |-> "cancelled"] ELSE call[c]]
    /\ resp' = [c \in Client |-> None]
    /\ UNCHANGED <<committed, logVars, writerVars, closed, readerVars>>

\* The process is killed, perhaps in the middle of a write: what it wrote stays
\* in the page cache.
Kill ==
    /\ Down /\ UNCHANGED outage
    /\ \/ UNCHANGED files
       \/ Writing /\ handle /\ ~Full /\ WriteTo(<<Torn>>)

\* What the disk may hold of file f after the machine lost power: everything
\* synced, and any part of the rest.
Survivors(f) ==
    LET part(n, tail) == [f EXCEPT !.recs = SubSeq(f.recs, 1, n) \o tail, !.synced = n]
        least == IF f.synced < 0 THEN 0 ELSE f.synced
    IN  {<<part(n, <<>>)>> : n \in least..Len(f.recs)}
        \cup {<<part(n, <<Torn>>)>> : n \in least..Len(f.recs) - 1}
        \cup (IF f.synced < 0 THEN {<<>>, <<NewSegment(f.base, FALSE)>>} ELSE {})

LosePower ==
    /\ PowerLoss /\ Down /\ outage' = TRUE
    /\ \E i \in DOMAIN files : \E s \in Survivors(files[i]) :
          files' = SubSeq(files, 1, i - 1) \o s \o SubSeq(files, i + 1, Len(files))

----------------------------------------------------------------------------
Init ==
    /\ files = <<>> /\ committed = 0 /\ up = "down"
    /\ segs = <<>> /\ next = 0 /\ handle = FALSE
    /\ reqs = <<>> /\ wpc = "idle" /\ batch = <<>> /\ written = 0 /\ closed = FALSE
    /\ call = [c \in Client |-> [kind |-> "new"]] /\ resp = [c \in Client |-> None]
    /\ pos = 0 /\ delivered = {} /\ crashes = 0 /\ outage = FALSE

Open == OpenEmpty \/ OpenExisting \/ OpenRefused
AppendCall(c) == CheckClosed(c) \/ Send(c) \/ Receive(c) \/ WriterGone(c) \/ ContextDone(c)
Writer == \/ Take \/ Collect \/ CollectEnd
          \/ WriteRecord \/ WriteFails \/ RollCreate \/ RollHeader \/ RollFails
          \/ HandleClosed \/ Sync \/ SyncSkipped \/ SyncFails \/ Quit

Next == \/ Open \/ (\E c \in Client : AppendCall(c)) \/ Writer \/ Close
        \/ ReadNext \/ Commit \/ Retain \/ Kill \/ LosePower

Spec == Init /\ [][Next]_vars

(* The goroutines keep running and a stopped server is started again.       *)
LiveSpec ==
    /\ Spec
    /\ WF_vars(Open) /\ WF_vars(Writer) /\ WF_vars(ReadNext)
    /\ \A c \in Client : WF_vars(Send(c) \/ Receive(c) \/ WriterGone(c))

----------------------------------------------------------------------------
Acked(c) == call[c].kind = "acked"

\* The log as its users see it: the records a scan from offset 0 finds, with Torn
\* for one that is missing.
LogEnd == IF files = <<>> THEN 0 ELSE LastOf(files).base + Valid(LastOf(files))
Entries == [i \in 1..LogEnd |-> IF Readable(i - 1) THEN DiskAt(i - 1) ELSE Torn]

Abstract == INSTANCE DurableLog WITH
    Value <- Client, MayLose <- PowerLoss, entries <- Entries,
    acked <- {<<call[c].off, c>> : c \in {d \in Client : Acked(d)}}

\* Segments, batches, rolls and recovery implement the durable log: a record is
\* acknowledged at the offset it has on disk, and no crash takes back an
\* acknowledged record or one below it (Append, writeBatch, roll, load).
Implements == Abstract!Spec

\* Recovery never finds a gap in the offset chain: load refuses to start only
\* when files were damaged from outside.
NeverRefuses == up # "refused"

\* Neither the consumer nor the offset it would resume at is ever below the oldest
\* segment, whatever retention removes, crashes take and restarts find: Next would
\* fail with "offset not on disk" for ever, or a restart would skip records that
\* were not processed (MinRetainOffset, Resume).
NeverOvertaken == up = "up" => segs[1].base <= committed /\ committed <= pos

\* An offset names one record: redelivery after a crash returns what was
\* delivered there before.
DeliveredStable ==
    \A a, b \in delivered : a[1] = b[1] => a[2] = b[2]

\* "in every policy an Append that returned nil error is durable" (SyncPolicy):
\* the record can be read back at the offset Append returned.
AckedReadable ==
    \A c \in Client : Acked(c) => Readable(call[c].off) /\ DiskAt(call[c].off) = c

\* "Writer exited with this request still queued: it was never written"
\* (Append): a record whose Append returned ErrClosed is not in the log.
ClosedNotWritten ==
    \A c \in Client : call[c].kind = "closed" => \A f \in Range(files) : c \notin Range(f.recs)

\* Every Append returns, without its context being cancelled: the writer answers
\* it, or the closing of l.done wakes it up.
AppendReturns ==
    \A c \in Client : call[c].kind \in {"sending", "waiting"} ~> call[c] \in Final

\* Close does not wait for ever for the writer.
CloseReturns == closed ~> wpc = "exited" \/ up # "up"

\* A write failed short, and the bytes are still in front of what follows.
Damaged == WriteFaults /\ up = "up" /\ \E f \in Range(files) : Torn \in Range(f.recs)

\* Every acknowledged record reaches the consumer, across kills, losses of power,
\* rolls and failed syncs.  The exceptions: after a loss of power that took records
\* the consumer had read, those that get their offsets; and what is written behind a
\* short write.
AckedDelivered ==
    \A c \in Client :
        Acked(c) ~> \/ \E d \in delivered : d[2] = c
                    \/ outage /\ Acked(c) /\ pos > call[c].off
                    \/ Damaged
====
