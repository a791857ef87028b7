---- MODULE Pipeline ----
(***************************************************************************)
(* internal/ingest/pipeline.go: Submit appends records to the WAL, Run     *)
(* reads them, stores their events in the event store, counts them on      *)
(* their issue, and commits the consumer offset after flushing the store.  *)
(*                                                                         *)
(* The WAL is the durable sequence DurableLog specifies and module Wal     *)
(* implements: log[o + 1] is the record at offset o, a sequence of events. *)
(* Run is one goroutine; cpc says where it stands in the Go text and ret   *)
(* where it goes on when the Flush or commit it has called returns.        *)
(***************************************************************************)
EXTENDS EventStore, Sequences

CONSTANTS
    Bodies,         \* the records clients submit, sequences of events
    Bad,            \* events ExtractEvent rejects
    NoId,           \* events without an event_id, never deduplicated
    MaxLag,         \* consumer lag above which Submit sheds
    CommitEvery,    \* records between two threshold commits
    DedupeCap,      \* keys per dedupe generation
    Split,          \* ingest and worker are two processes sharing the directory
    DistinctStamps, \* clients never send two events of one partition and time
    CommitFaults,   \* whether writing the offset file may fail
    IssueFaults,    \* whether the issue upsert may fail
    ReadFaults,     \* whether reading the WAL may fail
    Shutdown,       \* whether SIGTERM may arrive
    MaxLog,         \* bound: records submitted
    MaxReboots      \* bound: crashes and restarts

ASSUME PipelineAssumption ==
    /\ Bodies \subseteq Seq(Event)
    /\ Bad \subseteq Event /\ NoId \subseteq Event
    /\ MaxLag \in Nat /\ CommitEvery \in Nat \ {0} /\ DedupeCap \in Nat \ {0}
    /\ Split \in BOOLEAN /\ DistinctStamps \in BOOLEAN /\ CommitFaults \in BOOLEAN
    /\ IssueFaults \in BOOLEAN /\ ReadFaults \in BOOLEAN /\ Shutdown \in BOOLEAN
    /\ MaxLog \in Nat /\ MaxReboots \in Nat

VARIABLES
    log,         \* the records in the WAL
    committed,   \* the offset file of consumer "pipeline"
    pos,         \* the reader's next offset
    lag,         \* p.consumerLag as Submit sees it
    cpc, ret,    \* control state of Run
    idx,         \* event of the current record Run is at
    uncommitted, \* records read since the last commit
    cur, prev,   \* the two dedupe generations
    ctxDone,     \* the context of Run is cancelled
    times,       \* times[e]: how often e was counted on its issue (SQLite)
    abandoned,   \* history: rows process gave up when the context was cancelled
    reboots      \* crashes and restarts so far

walVars == <<log, committed>>
dedupeVars == <<cur, prev>>
histVars == <<abandoned, reboots>>
vars == <<storeVars, walVars, pos, lag, cpc, ret, idx, uncommitted, dedupeVars,
          ctxDone, times, histVars>>

Running == {"select", "next", "event", "append", "wait", "upsert", "flush", "commit"}

TypeOK ==
    /\ StoreTypeOK
    /\ log \in Seq(Seq(Event))
    /\ committed \in Nat /\ pos \in Nat /\ lag \in Nat
    /\ cpc \in Running \cup {"exited"}
    /\ ret \in {"wait", "next", "select", "exited"}
    /\ idx \in Nat \ {0} /\ uncommitted \in Nat
    /\ cur \in SUBSET Event /\ prev \in SUBSET Event
    /\ ctxDone \in BOOLEAN
    /\ times \in [Event -> Nat]
    /\ abandoned \in SUBSET Row /\ reboots \in Nat

Init ==
    /\ StoreInit
    /\ log = <<>> /\ committed = 0 /\ pos = 0 /\ lag = 0
    /\ cpc = "select" /\ ret = "select" /\ idx = 1 /\ uncommitted = 0
    /\ cur = {} /\ prev = {} /\ ctxDone = FALSE
    /\ times = [e \in Event |-> 0]
    /\ abandoned = {} /\ reboots = 0

----------------------------------------------------------------------------
(* Submit.  A Submit that sheds leaves the log alone; one that times out    *)
(* waiting for the ack may still have appended.                             *)

Stamp(e) == <<Part[e], Ts[e]>>

\* No event of b shares partition and timestamp with another event sent so far.
Fresh(b) ==
    /\ \A i, j \in DOMAIN b : Stamp(b[i]) = Stamp(b[j]) => i = j
    /\ \A k \in DOMAIN log : \A i \in DOMAIN log[k] : \A j \in DOMAIN b :
          Stamp(log[k][i]) # Stamp(b[j])

Submit(b) ==
    /\ lag <= MaxLag
    /\ Len(log) < MaxLog
    /\ DistinctStamps => Fresh(b)
    /\ log' = Append(log, b)
    /\ UNCHANGED <<storeVars, committed, pos, lag, cpc, ret, idx, uncommitted,
                   dedupeVars, ctxDone, times, histVars>>

Cancel ==
    /\ Shutdown /\ ~ctxDone /\ cpc # "exited"
    /\ ctxDone' = TRUE
    /\ UNCHANGED <<storeVars, walVars, pos, lag, cpc, ret, idx, uncommitted,
                   dedupeVars, times, histVars>>

----------------------------------------------------------------------------
(* The loop of Run.                                                         *)

Goto(target) == cpc' = target /\ UNCHANGED ret
Call(sub, target) == cpc' = sub /\ ret' = target

SelectDone ==
    /\ cpc = "select" /\ ctxDone
    /\ Call("flush", "exited")
    /\ UNCHANGED <<storeVars, walVars, pos, lag, idx, uncommitted, dedupeVars,
                   ctxDone, times, histVars>>

\* Mutant: the periodic commit only looks at the buffer.
SelectTickBufferOnly ==
    /\ cpc = "select"
    /\ \E aged \in BOOLEAN : NeedsFlush(aged)
    /\ Call("flush", "next")
    /\ UNCHANGED <<storeVars, walVars, pos, lag, idx, uncommitted, dedupeVars,
                   ctxDone, times, histVars>>

SelectTick ==
    /\ cpc = "select"
    /\ uncommitted > 0 \/ \E aged \in BOOLEAN : NeedsFlush(aged)
    /\ Call("flush", "next")
    /\ UNCHANGED <<storeVars, walVars, pos, lag, idx, uncommitted, dedupeVars,
                   ctxDone, times, histVars>>

\* The default branch of the select: not taken once ctx.Done is ready.
SelectDefault ==
    /\ cpc = "select" /\ ~ctxDone
    /\ Goto("next")
    /\ UNCHANGED <<storeVars, walVars, pos, lag, idx, uncommitted, dedupeVars,
                   ctxDone, times, histVars>>

\* Run sets the lag its own process sheds by; the ingest process of a split
\* deployment polls the offset file instead.
LocalLag(n) == lag' = IF Split THEN lag ELSE n

RefreshLagFromWAL ==
    /\ Split
    /\ lag' = IF Len(log) > committed THEN Len(log) - committed ELSE 0
    /\ UNCHANGED <<storeVars, walVars, pos, cpc, ret, idx, uncommitted,
                   dedupeVars, ctxDone, times, histVars>>

ReadRecord ==
    /\ cpc = "next" /\ pos < Len(log)
    /\ pos' = pos + 1
    /\ LocalLag(Len(log) - (pos + 1))
    /\ idx' = 1
    /\ Goto("event")
    /\ UNCHANGED <<storeVars, walVars, uncommitted, dedupeVars, ctxDone, times,
                   histVars>>

\* Another process reads the log through Refresh, which may lag behind it.
NoRecord ==
    /\ cpc = "next" /\ (pos >= Len(log) \/ Split)
    /\ LocalLag(0)
    /\ \/ ctxDone /\ Call("flush", "exited")
       \/ Goto("select")
    /\ UNCHANGED <<storeVars, walVars, pos, idx, uncommitted, dedupeVars,
                   ctxDone, times, histVars>>

\* Next failed: Run returns without committing and the process shuts down.
ReadFails ==
    /\ ReadFaults /\ cpc = "next"
    /\ Goto("exited")
    /\ UNCHANGED <<storeVars, walVars, pos, lag, idx, uncommitted, dedupeVars,
                   ctxDone, times, histVars>>

RecordDone ==
    /\ cpc = "event" /\ idx > Len(log[pos])
    /\ uncommitted' = uncommitted + 1
    /\ IF uncommitted + 1 >= CommitEvery THEN Call("flush", "select")
                                         ELSE Goto("select")
    /\ UNCHANGED <<storeVars, walVars, pos, lag, idx, dedupeVars, ctxDone,
                   times, histVars>>

----------------------------------------------------------------------------
(* process: one event of the current record at a time.                      *)

RowOf(o, i) == [off |-> o, i |-> i, ev |-> log[o + 1][i]]

EventAt == log[pos][idx]
RowAt == RowOf(pos - 1, idx)
AtEvent == cpc = "event" /\ idx <= Len(log[pos])

Seen(e) == e \notin NoId /\ e \in cur \cup prev

DropEvent ==
    /\ AtEvent
    /\ EventAt \in Bad \/ Seen(EventAt)
    /\ idx' = idx + 1
    /\ UNCHANGED <<storeVars, walVars, pos, lag, cpc, ret, uncommitted,
                   dedupeVars, ctxDone, times, histVars>>

\* Mutant: rotation forgets both generations.
RememberOneGeneration(e) ==
    IF e \in NoId THEN UNCHANGED dedupeVars
    ELSE IF Cardinality(cur) >= DedupeCap THEN prev' = {} /\ cur' = {e}
    ELSE cur' = cur \cup {e} /\ UNCHANGED prev

\* dedupe.firstSeen remembers the key, rotating the generations when full.
Remember(e) ==
    IF e \in NoId THEN UNCHANGED dedupeVars
    ELSE IF Cardinality(cur) >= DedupeCap THEN prev' = cur /\ cur' = {e}
    ELSE cur' = cur \cup {e} /\ UNCHANGED prev

TakeEvent ==
    /\ AtEvent
    /\ EventAt \notin Bad /\ ~Seen(EventAt)
    /\ Remember(EventAt)
    /\ Goto("append")
    /\ UNCHANGED <<storeVars, walVars, pos, lag, idx, uncommitted, ctxDone,
                   times, histVars>>

StoreEvent ==
    /\ cpc = "append"
    /\ StoreAppend(RowAt)
    /\ Goto("upsert")
    /\ UNCHANGED <<walVars, pos, lag, idx, uncommitted, dedupeVars, ctxDone,
                   times, histVars>>

BufferFull ==
    /\ cpc = "append" /\ ~HasRoom
    /\ Call("flush", "wait")
    /\ UNCHANGED <<storeVars, walVars, pos, lag, idx, uncommitted, dedupeVars,
                   ctxDone, times, histVars>>

Retry ==
    /\ cpc = "wait"
    /\ Goto("append")
    /\ UNCHANGED <<storeVars, walVars, pos, lag, idx, uncommitted, dedupeVars,
                   ctxDone, times, histVars>>

\* The context is cancelled while process waits for room: it returns, leaving
\* this event and the rest of the record unstored, and Run counts the record.
GiveUp ==
    /\ cpc = "wait" /\ ctxDone
    /\ abandoned' = abandoned \cup {RowOf(pos - 1, i) : i \in idx..Len(log[pos])}
    /\ idx' = Len(log[pos]) + 1
    /\ Goto("event")
    /\ UNCHANGED <<storeVars, walVars, pos, lag, uncommitted, dedupeVars,
                   ctxDone, times, reboots>>

UpsertIssue ==
    /\ cpc = "upsert"
    /\ \/ times' = [times EXCEPT ![EventAt] = @ + 1]
       \/ (IssueFaults \/ ctxDone) /\ UNCHANGED times
    /\ idx' = idx + 1
    /\ Goto("event")
    /\ UNCHANGED <<storeVars, walVars, pos, lag, uncommitted, dedupeVars,
                   ctxDone, histVars>>

----------------------------------------------------------------------------
(* Flush and commit, called from process (ret = "wait": flush only) and from *)
(* the commit closure of Run.                                                *)

AfterFlush == IF ret = "wait" THEN Goto("wait") ELSE Goto("commit")

FlushNothing ==
    /\ cpc = "flush" /\ flushing = {} /\ buf = {}
    /\ AfterFlush
    /\ UNCHANGED <<storeVars, walVars, pos, lag, idx, uncommitted, dedupeVars,
                   ctxDone, times, histVars>>

FlushTake ==
    /\ cpc = "flush"
    /\ FlushBegin
    /\ UNCHANGED <<walVars, pos, lag, cpc, ret, idx, uncommitted, dedupeVars,
                   ctxDone, times, histVars>>

FlushPart(p) ==
    /\ cpc = "flush"
    /\ WriteSegment(p)
    /\ UNCHANGED <<walVars, pos, lag, cpc, ret, idx, uncommitted, dedupeVars,
                   ctxDone, times, histVars>>

\* A failed Flush is logged and retried later, except in the last commit, whose
\* error Run returns.
FlushFails(p) ==
    /\ cpc = "flush"
    /\ WriteSegmentFails(p)
    /\ Goto(ret)
    /\ UNCHANGED <<walVars, pos, lag, idx, uncommitted, dedupeVars, ctxDone,
                   times, histVars>>

FlushReturn ==
    /\ cpc = "flush"
    /\ FlushEnd
    /\ AfterFlush
    /\ UNCHANGED <<walVars, pos, lag, idx, uncommitted, dedupeVars, ctxDone,
                   times, histVars>>

CommitOffset ==
    /\ cpc = "commit"
    /\ committed' = pos
    /\ uncommitted' = 0
    /\ Goto(ret)
    /\ UNCHANGED <<storeVars, log, pos, lag, idx, dedupeVars, ctxDone, times,
                   histVars>>

CommitFails ==
    /\ CommitFaults /\ cpc = "commit"
    /\ Goto(ret)
    /\ UNCHANGED <<storeVars, walVars, pos, lag, idx, uncommitted, dedupeVars,
                   ctxDone, times, histVars>>

\* Mutant: the dedupe generations survive the restart.
RebootKeepsDedupe ==
    /\ reboots < MaxReboots
    /\ StoreReopen
    /\ pos' = committed /\ LocalLag(0)
    /\ cpc' = "select" /\ ret' = "select" /\ idx' = 1 /\ uncommitted' = 0
    /\ ctxDone' = FALSE
    /\ reboots' = reboots + 1
    /\ UNCHANGED <<walVars, dedupeVars, times, abandoned>>

\* The process is killed at any point, or has exited, and starts again: all
\* memory is lost and NewReader resumes from the offset file.
Reboot ==
    /\ reboots < MaxReboots
    /\ StoreReopen
    /\ pos' = committed /\ LocalLag(0)
    /\ cpc' = "select" /\ ret' = "select" /\ idx' = 1 /\ uncommitted' = 0
    /\ cur' = {} /\ prev' = {} /\ ctxDone' = FALSE
    /\ reboots' = reboots + 1
    /\ UNCHANGED <<walVars, times, abandoned>>

IngestReboot ==
    /\ Split /\ reboots < MaxReboots
    /\ lag' = 0
    /\ reboots' = reboots + 1
    /\ UNCHANGED <<storeVars, walVars, pos, cpc, ret, idx, uncommitted,
                   dedupeVars, ctxDone, times, abandoned>>

----------------------------------------------------------------------------
Process == \/ DropEvent \/ TakeEvent \/ StoreEvent \/ BufferFull \/ Retry
           \/ GiveUp \/ UpsertIssue

Flush == \/ FlushNothing \/ FlushTake \/ FlushReturn
         \/ \E p \in Partition : FlushPart(p) \/ FlushFails(p)

Run == \/ SelectDone \/ SelectTick \/ SelectDefault
       \/ ReadRecord \/ NoRecord \/ ReadFails \/ RecordDone
       \/ Process \/ Flush \/ CommitOffset \/ CommitFails

Next == \/ \E b \in Bodies : Submit(b)
        \/ RefreshLagFromWAL \/ Cancel \/ Run \/ Reboot \/ IngestReboot

Spec == Init /\ [][Next]_vars

(* Run keeps running, its ticker and the lag ticker keep firing, Refresh    *)
(* catches up with the log, and the disk does not fail for ever.            *)
LiveSpec ==
    /\ Spec
    /\ WF_vars(Run) /\ WF_vars(RefreshLagFromWAL)
    /\ SF_vars(SelectTick) /\ SF_vars(ReadRecord) /\ SF_vars(CommitOffset)
    /\ \A p \in Partition : SF_vars(FlushPart(p))

----------------------------------------------------------------------------
StoredEvents == {r.ev : r \in StoredRows}

\* Once the committed offset has passed a record, none of its events exists
\* only in memory: each is malformed, in a segment file, or was given up by
\* process at shutdown (GiveUp).  This is what flushing before every commit in
\* Run is for: the WAL will not deliver the record again.
CommittedStored ==
    \A o \in 0..committed - 1 : \A i \in DOMAIN log[o + 1] :
        \/ log[o + 1][i] \in Bad \cup StoredEvents
        \/ RowOf(o, i) \in abandoned

\* Once the committed offset has passed a record, each of its events that is not
\* malformed has been counted on its issue (process), wherever in the record a
\* crash came, if neither the upsert nor its context fails.
CommittedCounted ==
    ~IssueFaults /\ ~Shutdown =>
        \A o \in 0..committed - 1 : \A i \in DOMAIN log[o + 1] :
            log[o + 1][i] \in Bad \/ times[log[o + 1][i]] > 0

\* "Post-acknowledgment data is never dropped for capacity reasons" (Run): no
\* event of an accepted record is left out because the hot buffer was full.
NeverCapacityDropped ==
    \A r \in abandoned : committed > r.off => r.ev \in StoredEvents

\* A row the pipeline has committed is never removed from disk again, whatever
\* segment is later renamed onto the file that holds it (writeSegment).
StoredStays ==
    [][\A r \in StoredRows : r.off < committed /\ r \notin abandoned
                              => r \in StoredRows']_vars

\* "segMeta is one immutable on-disk segment" (store.go): a segment file keeps
\* its rows for ever.
SegmentsImmutable == [][files \subseteq files']_vars

\* Every record accepted is in the end read, stored and committed, so that the
\* WAL can drop it: crashes, failed flushes and failed commits only delay it.
EventuallyCommitted ==
    \A o \in 0..MaxLog - 1 : o < Len(log) ~> o < committed

\* An ingest process that sheds load starts to accept again: the lag it polls
\* from the offset file falls even when no new record arrives.
SheddingEnds == lag > MaxLag ~> lag <= MaxLag

Copies(e) ==
    Cardinality(UNION {{<<f.name, r>> : r \in {s \in f.rows : s.ev = e}} : f \in files})

Places == UNION {{<<k, i>> : i \in DOMAIN log[k]} : k \in DOMAIN log}
SentBefore(x, y) == x[1] < y[1] \/ (x[1] = y[1] /\ x[2] < y[2])
SentAt(x) == log[x[1]][x[2]]

\* Between any two times e was sent, at most DedupeCap other ids were.
SentWithinWindow(e) ==
    \A x, y \in Places :
        SentAt(x) = e /\ SentAt(y) = e /\ SentBefore(x, y) =>
            LET between == {z \in Places : SentBefore(x, z) /\ SentBefore(z, y)}
            IN  Cardinality({SentAt(z) : z \in between} \ (NoId \cup Bad \cup {e})) <= DedupeCap

\* "at-least-once + dedupe = effectively once" (type Pipeline): an event with an
\* event_id is counted once on its issue and is in one segment row, however
\* often its client sends it, if no more than a generation of other ids comes
\* between.  The dedupe generations live in memory: what the WAL delivers again
\* after a restart may be stored and counted twice.  A Flush that fails puts the
\* rows of every partition back, those it has written too, and the next one
\* writes them again to a file of another name.
EffectivelyOnce ==
    reboots = 0 => \A e \in Event \ NoId : SentWithinWindow(e) =>
        times[e] <= 1 /\ (~FlushFaults => Copies(e) <= 1)
====
