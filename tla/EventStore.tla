---- MODULE EventStore ----
(***************************************************************************)
(* internal/eventstore/store.go: the hot row buffer and its compaction     *)
(* into immutable segment files, one per (project, hour) partition.        *)
(*                                                                         *)
(* A row is an event together with the place it was read from: the WAL     *)
(* offset of its record and its index there.  A segment file is its name   *)
(* and its rows; the name is what the code formats into the path:          *)
(* partition directory, smallest timestamp, flush counter.  Renaming onto  *)
(* an existing name replaces that file.                                    *)
(***************************************************************************)
EXTENDS Naturals, FiniteSets

CONSTANTS
    Event,          \* the events clients send
    Part,           \* Part[e]: the (project, hour) partition of event e
    Ts,             \* Ts[e]: the timestamp of event e
    MaxBufferRows,  \* hard cap of the hot buffer
    FlushRows,      \* buffer size at which NeedsFlush answers TRUE
    FlushFaults,    \* whether writing a segment may fail (disk full, EIO)
    MaxFlushCount   \* bound: no write fails once the counter is this high

Partition == {Part[e] : e \in Event}

ASSUME StoreAssumption ==
    /\ Part \in [Event -> Partition]
    /\ Ts \in [Event -> Nat]
    /\ MaxBufferRows \in Nat \ {0}
    /\ FlushRows \in Nat \ {0}
    /\ FlushFaults \in BOOLEAN /\ MaxFlushCount \in Nat

VARIABLES
    buf,        \* rows in the hot buffer
    flushing,   \* rows a running Flush took out of the buffer
    parts,      \* partitions that Flush has still to write
    wrote,      \* names that Flush has written so far (newSegs)
    files,      \* segment files on disk
    segs,       \* names the store knows and scans
    flushCount  \* segments this process has tried to write

storeVars == <<buf, flushing, parts, wrote, files, segs, flushCount>>

Row == [off : Nat, i : Nat, ev : Event]
Name == [part : Partition, ts : Nat, seq : Nat]
File == [name : Name, rows : SUBSET Row]

StoreTypeOK ==
    /\ buf \in SUBSET Row
    /\ flushing \in SUBSET Row
    /\ parts \in SUBSET Partition
    /\ wrote \in SUBSET Name
    /\ files \in SUBSET File
    /\ segs \in SUBSET Name
    /\ flushCount \in Nat

StoreInit ==
    /\ buf = {} /\ flushing = {} /\ parts = {} /\ wrote = {}
    /\ files = {} /\ segs = {} /\ flushCount = 0

\* Rows on disk, and rows Scan sees: the buffer merged with the known segments.
StoredRows == UNION {f.rows : f \in files}
Visible == buf \cup UNION {f.rows : f \in {g \in files : g.name \in segs}}

----------------------------------------------------------------------------
HasRoom == Cardinality(buf) + 1 <= MaxBufferRows

StoreAppend(r) ==
    /\ HasRoom
    /\ buf' = buf \cup {r}
    /\ UNCHANGED <<flushing, parts, wrote, files, segs, flushCount>>

\* The clock decides whether a non-empty buffer is older than FlushAge.
NeedsFlush(aged) == Cardinality(buf) >= FlushRows \/ (buf # {} /\ aged)

----------------------------------------------------------------------------
(* Flush, as the steps another goroutine or a crash can fall between: take *)
(* the buffer, write the partitions in the random order of a Go map, then  *)
(* publish the new segments.                                               *)

FlushBegin ==
    /\ flushing = {} /\ buf # {}
    /\ flushing' = buf
    /\ buf' = {}
    /\ parts' = {Part[r.ev] : r \in buf}
    /\ wrote' = {}
    /\ UNCHANGED <<files, segs, flushCount>>

RowsOf(p) == {r \in flushing : Part[r.ev] = p}

MinTs(rows) == CHOOSE t \in {Ts[r.ev] : r \in rows} : \A r \in rows : t <= Ts[r.ev]

SegmentName(p) == [part |-> p, ts |-> MinTs(RowsOf(p)), seq |-> flushCount + 1]

WriteSegment(p) ==
    /\ p \in parts
    /\ flushCount' = flushCount + 1
    /\ files' = {f \in files : f.name # SegmentName(p)}
                  \cup {[name |-> SegmentName(p), rows |-> RowsOf(p)]}
    /\ parts' = parts \ {p}
    /\ wrote' = wrote \cup {SegmentName(p)}
    /\ UNCHANGED <<buf, flushing, segs>>

\* Mutant: a failed flush does not put the rows back.
WriteSegmentFailsLoses(p) ==
    /\ FlushFaults /\ flushCount < MaxFlushCount
    /\ p \in parts
    /\ flushCount' \in {flushCount, flushCount + 1}
    /\ flushing' = {} /\ parts' = {} /\ wrote' = {}
    /\ UNCHANGED <<buf, files, segs>>

\* One partition cannot be written: every row goes back into the buffer, also
\* the rows of the partitions already on disk.  A failing MkdirAll comes before
\* the counter is advanced, every other failure after.
WriteSegmentFails(p) ==
    /\ FlushFaults /\ flushCount < MaxFlushCount
    /\ p \in parts
    /\ flushCount' \in {flushCount, flushCount + 1}
    /\ buf' = flushing \cup buf
    /\ flushing' = {} /\ parts' = {} /\ wrote' = {}
    /\ UNCHANGED <<files, segs>>

FlushEnd ==
    /\ flushing # {} /\ parts = {}
    /\ segs' = segs \cup wrote
    /\ flushing' = {} /\ wrote' = {}
    /\ UNCHANGED <<buf, parts, files, flushCount>>

\* The process dies, or ends, and Open runs again: loadSegments lists the disk.
StoreReopen ==
    /\ buf' = {} /\ flushing' = {} /\ parts' = {} /\ wrote' = {}
    /\ segs' = {f.name : f \in files}
    /\ flushCount' = 0
    /\ UNCHANGED files
====
