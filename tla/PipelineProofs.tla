---- MODULE PipelineProofs ----
(***************************************************************************)
(* Run never commits past an event that is only in memory, for any number  *)
(* of records, events, crashes and failed writes, when no two events share *)
(* partition and timestamp; nor, whatever the events, past one that is not *)
(* counted on its issue.                                                   *)
(***************************************************************************)
EXTENDS PipelineInv, WellFoundedInduction, TLAPS

\* Leaves are tried with SMT, then with Zenon.
USE SMTT(30), Zenon

----------------------------------------------------------------------------
(* The ingest side and Run up to Flush, and the counts.                      *)

\* No step but Submit touches the records of the log.
LEMMA StampKept ==
    ASSUME StampInv, UNCHANGED log
    PROVE  StampInv'
  BY DEF StampInv, Stamp

\* The row of an event the log holds is a row.
LEMMA RowOfType ==
    ASSUME TypeOK, NEW o \in Nat, o < Len(log), NEW i \in DOMAIN log[o + 1]
    PROVE  RowOf(o, i) \in Row
BY DEF TypeOK, RowOf, Row

\* A step that only moves the control state of Run.
LEMMA ControlStep ==
    ASSUME IInv, TypeOK',
           UNCHANGED <<buf, flushing, parts, files, flushCount, log, committed,
                       pos, idx, cur, prev, abandoned>>,
           InProcess' => InProcess,
           InProcess /\ ~InProcess' => idx > Len(log[pos]),
           InProcess' /\ cpc' # "event" => idx <= Len(log[pos]) /\ EventAt \notin Bad,
           cpc' = "event" => cpc = "event",
           cpc' = "upsert" => cpc = "upsert",
           cpc' # "flush" => flushing = {},
           cpc' = "commit" => buf = {} /\ ret' # "wait"
    PROVE  IInv'
<1> USE DEF IInv
<1>1. PositionInv'
  BY Zenon DEF PositionInv, EventAt
<1>2. StampInv'
  BY DEF StampInv, Stamp
<1>3. MemoryInv'
  BY Zenon DEF MemoryInv, ValidRow, RowAt, RowOf
<1>4. FileInv'
  BY ZenonT(60) DEF FileInv, ValidRow, Stamp
<1>5. AccountInv'
  <2>1. \A r : Settled(r)' = Settled(r) /\ Safe(r)' = Safe(r) /\ Kept(r)' = Kept(r)
    BY Zenon DEF Settled, Safe, Kept
  <2>2. \A o, i : RowOf(o, i)' = RowOf(o, i)
    BY Zenon DEF RowOf
  <2>3. ASSUME NEW o \in committed..pos - 1, NEW i \in DOMAIN log[o + 1], Pending(o, i)
        PROVE  Pending(o, i)'
    BY <2>3 DEF Pending, TypeOK
  <2> QED
    BY <2>1, <2>2, <2>3, Zenon DEF AccountInv
<1>6. DedupeInv'
  BY ZenonT(60) DEF DedupeInv
<1> QED
  BY <1>1, <1>2, <1>3, <1>4, <1>5, <1>6, Zenon

\* Actions that move control only keep every variable in its type.
LEMMA ControlType ==
    ASSUME TypeOK,
           \/ Cancel \/ SelectDone \/ SelectTick \/ SelectDefault \/ NoRecord
           \/ ReadFails \/ RecordDone \/ BufferFull \/ Retry \/ FlushNothing
           \/ CommitFails \/ IngestReboot
    PROVE  TypeOK'
<1> USE DEF TypeOK, StoreTypeOK, storeVars, walVars, dedupeVars, histVars, Running,
            Goto, Call
<1>1. CASE Cancel
  BY <1>1, Zenon DEF Cancel
<1>2. CASE SelectDone
  BY <1>2, Zenon DEF SelectDone
<1>3. CASE SelectTick
  BY <1>3, Zenon DEF SelectTick
<1>4. CASE SelectDefault
  BY <1>4, Zenon DEF SelectDefault
<1>5. CASE NoRecord
  BY <1>5, Zenon DEF NoRecord, LocalLag
<1>6. CASE ReadFails
  BY <1>6, Zenon DEF ReadFails
<1>7. CASE RecordDone
  BY <1>7 DEF RecordDone
<1>8. CASE BufferFull
  BY <1>8, Zenon DEF BufferFull
<1>9. CASE Retry
  BY <1>9, Zenon DEF Retry
<1>10. CASE FlushNothing
  BY <1>10, Zenon DEF FlushNothing, AfterFlush
<1>11. CASE CommitFails
  BY <1>11, ZenonT(60) DEF CommitFails
<1>12. CASE IngestReboot
  BY <1>12 DEF IngestReboot
<1> QED
  BY <1>1, <1>2, <1>3, <1>4, <1>5, <1>6, <1>7, <1>8, <1>9, <1>10, <1>11, <1>12, Zenon

\* Where such a step may move control to.
ControlMove ==
    /\ UNCHANGED <<buf, flushing, parts, files, flushCount, log, committed,
                   pos, idx, cur, prev, abandoned>>
    /\ InProcess' => InProcess
    /\ InProcess /\ ~InProcess' => idx > Len(log[pos])
    /\ InProcess' /\ cpc' # "event" => InProcess /\ cpc # "event"
    /\ cpc' = "event" => cpc = "event"
    /\ cpc' = "upsert" => cpc = "upsert"
    /\ cpc' # "flush" => cpc # "flush" \/ flushing = {}
    /\ cpc' = "commit" => (cpc = "commit" \/ buf = {}) /\ (ret' = "wait" => cpc = "commit" /\ ret = "wait")

\* Each of the steps of the loop that touch neither the store nor the offsets
\* is such a move.
LEMMA ControlMoves ==
    ASSUME cpc = "commit" => ret # "wait", ret \in {"wait", "next", "select", "exited"},
           \/ Cancel \/ SelectDone \/ SelectTick \/ SelectDefault \/ NoRecord
           \/ ReadFails \/ RecordDone \/ BufferFull \/ Retry \/ FlushNothing
           \/ CommitFails \/ IngestReboot
    PROVE  ControlMove
<1> USE DEF ControlMove, InProcess, storeVars, walVars, dedupeVars, histVars, Goto, Call
<1>1. CASE Cancel
  BY <1>1, Zenon DEF Cancel
<1>2. CASE SelectDone
  BY <1>2, Zenon DEF SelectDone
<1>3. CASE SelectTick
  BY <1>3, Zenon DEF SelectTick
<1>4. CASE SelectDefault
  BY <1>4, Zenon DEF SelectDefault
<1>5. CASE NoRecord
  BY <1>5, Zenon DEF NoRecord
<1>6. CASE ReadFails
  BY <1>6, Zenon DEF ReadFails
<1>7. CASE RecordDone
  BY <1>7, Zenon DEF RecordDone
<1>8. CASE BufferFull
  BY <1>8, Zenon DEF BufferFull
<1>9. CASE Retry
  BY <1>9, Zenon DEF Retry
<1>10. CASE FlushNothing
  BY <1>10, Zenon DEF FlushNothing, AfterFlush
<1>11. CASE CommitFails
  BY <1>11, Zenon DEF CommitFails
<1>12. CASE IngestReboot
  BY <1>12, Zenon DEF IngestReboot
<1> QED
  BY <1>1, <1>2, <1>3, <1>4, <1>5, <1>6, <1>7, <1>8, <1>9, <1>10, <1>11, <1>12, ZenonT(60)

\* They preserve the invariant.
LEMMA ControlActions ==
    ASSUME IInv,
           \/ Cancel \/ SelectDone \/ SelectTick \/ SelectDefault \/ NoRecord
           \/ ReadFails \/ RecordDone \/ BufferFull \/ Retry \/ FlushNothing
           \/ CommitFails \/ IngestReboot
    PROVE  IInv'
<1>1. TypeOK'
  BY ControlType, Zenon DEF IInv
<1>2. /\ cpc # "flush" => flushing = {}
      /\ cpc = "commit" => buf = {} /\ ret # "wait"
      /\ InProcess /\ cpc # "event" => idx <= Len(log[pos]) /\ EventAt \notin Bad
  BY Zenon DEF IInv, MemoryInv, PositionInv
<1>3. ret \in {"wait", "next", "select", "exited"}
  BY Zenon DEF IInv, TypeOK
<1>4. ControlMove
  BY <1>2, <1>3, ControlMoves, Zenon
<1> QED
  BY <1>1, <1>2, <1>4, ControlStep, Zenon DEF ControlMove

\* The lag the ingest role reads from the log.
LEMMA RefreshLagStep ==
    ASSUME IInv, RefreshLagFromWAL
    PROVE  IInv'
<1> USE DEF RefreshLagFromWAL, storeVars, walVars, dedupeVars, histVars
<1>1. TypeOK'
  BY DEF IInv, TypeOK, StoreTypeOK
<1> QED
  BY <1>1, ControlStep, ZenonT(60) DEF IInv, PositionInv, MemoryInv, InProcess

\* A record whose events have stamps of their own is appended.
LEMMA SubmitStep ==
    ASSUME IInv, DistinctStamps, NEW b \in Bodies, Submit(b)
    PROVE  IInv'
<1> USE DEF IInv
<1>1. b \in Seq(Event) /\ log \in Seq(Seq(Event))
  BY PipelineAssumption, Zenon DEF TypeOK
<1>2. /\ log' \in Seq(Seq(Event))
      /\ Len(log') = Len(log) + 1
      /\ \A k \in 1..Len(log) : log'[k] = log[k]
      /\ log'[Len(log) + 1] = b
  BY <1>1 DEF Submit
<1>3. UNCHANGED <<storeVars, committed, pos, lag, cpc, ret, idx, uncommitted,
                  dedupeVars, ctxDone, times, histVars>>
  BY Zenon DEF Submit
<1> USE DEF storeVars, dedupeVars, histVars
<1>4. TypeOK'
  BY <1>2, <1>3, Zenon DEF TypeOK, StoreTypeOK
<1>5. committed \in Nat /\ pos \in Nat /\ committed <= pos /\ pos <= Len(log) /\ Len(log) \in Nat
  BY <1>1 DEF TypeOK, PositionInv
<1>a. ASSUME NEW o \in 0..pos - 1 PROVE log'[o + 1] = log[o + 1]
  <2>1. o + 1 \in 1..Len(log)
    BY <1>5
  <2> QED
    BY <1>2, <2>1, Zenon
<1>6. PositionInv'
  BY <1>2, <1>3, <1>5 DEF PositionInv, InProcess, EventAt
<1>7. StampInv'
  <2>1. Fresh(b)
    BY Zenon DEF Submit
  <2>2. DOMAIN log' = DOMAIN log \cup {Len(log) + 1} /\ DOMAIN log = 1..Len(log)
    BY <1>1, <1>2
  <2>3. SUFFICES ASSUME NEW k \in DOMAIN log', NEW l \in DOMAIN log',
                        NEW i \in DOMAIN log'[k], NEW j \in DOMAIN log'[l],
                        Stamp(log'[k][i]) = Stamp(log'[l][j])
                 PROVE  k = l /\ i = j
    BY Zenon DEF StampInv, Stamp
  <2>4. CASE k \in DOMAIN log /\ l \in DOMAIN log
    BY <1>2, <2>2, <2>3, <2>4 DEF StampInv
  <2>5. CASE k \in DOMAIN log /\ l = Len(log) + 1
    BY <1>2, <2>1, <2>2, <2>3, <2>5 DEF Fresh
  <2>6. CASE k = Len(log) + 1 /\ l \in DOMAIN log
    BY <1>2, <2>1, <2>2, <2>3, <2>6 DEF Fresh
  <2>7. CASE k = Len(log) + 1 /\ l = Len(log) + 1
    BY <1>2, <2>1, <2>2, <2>3, <2>7, Zenon DEF Fresh
  <2> QED
    BY <2>2, <2>4, <2>5, <2>6, <2>7, Zenon
<1>8. ASSUME NEW r \in Row, ValidRow(r) PROVE ValidRow(r)'
  <2>1. r.off + 1 \in 1..Len(log) /\ r.off \in Nat
    BY <1>5, <1>8 DEF ValidRow, Row
  <2>2. log'[r.off + 1] = log[r.off + 1] /\ r.off < Len(log')
    BY <1>2, <1>5, <2>1
  <2> QED
    BY <1>8, <2>2, Zenon DEF ValidRow
<1>9. MemoryInv'
  <2>1. cpc = "upsert" => RowAt' = RowAt
    BY <1>2, <1>3, <1>5 DEF PositionInv, InProcess, RowAt, RowOf
  <2> QED
    BY <1>3, <1>8, <2>1, Zenon DEF MemoryInv, TypeOK, StoreTypeOK
<1>10. FileInv'
  BY <1>3, <1>8, Zenon DEF FileInv, Stamp, TypeOK, StoreTypeOK, File
<1>11. AccountInv'
  <2>1. \A r : Settled(r)' = Settled(r) /\ Safe(r)' = Safe(r) /\ Kept(r)' = Kept(r)
    BY <1>3, Zenon DEF Settled, Safe, Kept
  <2>2. \A o \in 0..pos - 1 : log'[o + 1] = log[o + 1]
    BY <1>a, Zenon
  <2>3. \A o \in 0..pos - 1 : \A i : RowOf(o, i)' = RowOf(o, i) /\ Pending(o, i)' = Pending(o, i)
    BY <1>3, <2>2, Zenon DEF RowOf, Pending, InProcess
  <2>4. 0..committed - 1 \subseteq 0..pos - 1 /\ committed..pos - 1 \subseteq 0..pos - 1
    BY <1>5
  <2> QED
    BY <1>3, <2>1, <2>2, <2>3, <2>4 DEF AccountInv
<1>12. DedupeInv'
  <2>1. \A o \in 0..pos - 1 : log'[o + 1] = log[o + 1]
    BY <1>a, Zenon
  <2>2. InProcess' = InProcess
    BY <1>3, Zenon DEF InProcess
  <2>3. ASSUME NEW e \in cur \cup prev
        PROVE  \E o \in 0..pos - 1 : \E i \in DOMAIN log'[o + 1] :
                  /\ log'[o + 1][i] = e
                  /\ InProcess /\ o = pos - 1 => i <= idx
                  /\ cpc = "event" /\ o = pos - 1 => i < idx
    <3>1. PICK o \in 0..pos - 1 : \E i \in DOMAIN log[o + 1] :
                  /\ log[o + 1][i] = e
                  /\ InProcess /\ o = pos - 1 => i <= idx
                  /\ cpc = "event" /\ o = pos - 1 => i < idx
      BY Zenon DEF DedupeInv
    <3>2. log'[o + 1] = log[o + 1]
      BY <2>1, Zenon
    <3> QED
      BY <3>1, <3>2, Zenon
  <2> QED
    BY <1>3, <2>2, <2>3, ZenonT(60) DEF DedupeInv
<1> QED
  BY <1>4, <1>6, <1>7, <1>9, <1>10, <1>11, <1>12, Zenon

\* The successor of a natural number.
LEMMA NatSucc == \A n \in Nat : n + 1 \in Nat /\ ~(n + 1 <= n)
OBVIOUS

\* The bounds every step relies on.
LEMMA Bounds ==
    ASSUME IInv
    PROVE  /\ committed \in Nat /\ pos \in Nat /\ idx \in Nat \ {0} /\ Len(log) \in Nat
           /\ committed <= pos /\ pos <= Len(log)
           /\ DOMAIN log = 1..Len(log)
           /\ \A k \in 1..Len(log) : /\ log[k] \in Seq(Event) /\ Len(log[k]) \in Nat
                                     /\ DOMAIN log[k] = 1..Len(log[k])
           /\ InProcess => pos \in 1..Len(log) /\ pos - 1 \in Nat /\ pos - 1 + 1 = pos
BY DEF IInv, TypeOK, PositionInv

\* Run reads the next record of the log.
LEMMA ReadRecordStep ==
    ASSUME IInv, ReadRecord
    PROVE  IInv'
<1> USE DEF IInv, storeVars, walVars, dedupeVars, histVars
<1>1. /\ cpc = "next" /\ cpc' = "event" /\ pos < Len(log) /\ pos' = pos + 1 /\ idx' = 1
      /\ ~InProcess
      /\ UNCHANGED <<storeVars, walVars, ret, uncommitted, dedupeVars, ctxDone, times,
                     histVars>>
  BY Zenon DEF ReadRecord, Goto, InProcess
<1>2. TypeOK'
  BY Bounds DEF ReadRecord, LocalLag, Goto, TypeOK, StoreTypeOK, Running
<1>3. PositionInv'
  BY <1>1, Bounds DEF PositionInv, InProcess
<1>4. StampInv'
  <2>1. log' = log
    BY <1>1, Zenon
  <2> QED
    BY <2>1, SMTT(30) DEF StampInv, Stamp
<1>5. MemoryInv'
  <2>1. \A r : ValidRow(r)' = ValidRow(r)
    BY <1>1, Zenon DEF ValidRow
  <2>2. \A r \in Row : r.off < pos => r.off < pos'
    BY <1>1, Bounds DEF Row
  <2> QED
    BY <1>1, <2>1, <2>2, Zenon DEF MemoryInv, TypeOK, StoreTypeOK
<1>6. FileInv'
  BY <1>1, SMTT(30) DEF FileInv, ValidRow, Stamp
<1>7. AccountInv'
  <2>1. \A r : Settled(r)' = Settled(r) /\ Safe(r)' = Safe(r)
    BY <1>1, ZenonT(60) DEF Settled, Safe
  <2>2. \A r : Kept(r) => Kept(r)'
    BY <1>1, Bounds DEF Kept, TypeOK, StoreTypeOK, File, Row
  <2>3. \A o, i : RowOf(o, i)' = RowOf(o, i) /\ ~Pending(o, i)
    BY <1>1, Zenon DEF RowOf, Pending
  <2>4. \A o : o = pos => \A i \in DOMAIN log[o + 1] : Pending(o, i)'
    <3>1. DOMAIN log[pos + 1] = 1..Len(log[pos + 1]) /\ Len(log[pos + 1]) \in Nat
      BY <1>1, Bounds
    <3>2. pos = pos' - 1 /\ InProcess'
      BY <1>1, Bounds DEF InProcess
    <3> QED
      BY <1>1, <3>1, <3>2 DEF Pending
  <2>5. (committed..pos - 1)' = (committed..pos - 1) \cup {pos}
    BY <1>1, Bounds
  <2> QED
    BY <1>1, <2>1, <2>2, <2>3, <2>4, <2>5, ZenonT(60) DEF AccountInv
<1>8. DedupeInv'
  <2>1. (0..pos - 1)' = (0..pos - 1) \cup {pos} /\ pos \notin 0..pos - 1
    BY <1>1, Bounds
  <2>2. \A o \in 0..pos - 1 : o # pos' - 1
    BY <1>1, Bounds
  <2> QED
    BY <1>1, <2>1, <2>2, ZenonT(60) DEF DedupeInv
<1> QED
  BY <1>2, <1>3, <1>4, <1>5, <1>6, <1>7, <1>8, Zenon

----------------------------------------------------------------------------
(* The steps of process: taking, dropping, storing and giving up an event.  *)

\* No event that process has still to handle is in the dedupe generations:
\* with distinct stamps only malformed events are dropped.
LEMMA NotSeen ==
    ASSUME IInv, AtEvent
    PROVE  ~Seen(EventAt)
<1>1. pos \in DOMAIN log /\ idx \in DOMAIN log[pos] /\ InProcess
  BY Bounds DEF AtEvent, InProcess
<1>2. ASSUME NEW o \in 0..pos - 1, NEW i \in DOMAIN log[o + 1],
             log[o + 1][i] = EventAt, o = pos - 1 => i < idx
      PROVE  FALSE
  <2>1. o + 1 \in DOMAIN log
    BY Bounds
  <2>2. o + 1 = pos /\ i = idx
    BY <1>1, <1>2, <2>1, ZenonT(60) DEF IInv, StampInv, Stamp, EventAt
  <2> QED
    BY <1>1, <1>2, <2>2, Bounds
<1> QED
  BY <1>2, Zenon DEF IInv, DedupeInv, Seen, AtEvent

\* process passes over an event it does not store.
LEMMA DropEventStep ==
    ASSUME IInv, DropEvent
    PROVE  IInv'
<1> USE DEF IInv, storeVars, walVars, dedupeVars, histVars
<1>1. /\ cpc = "event" /\ idx <= Len(log[pos]) /\ idx' = idx + 1 /\ InProcess
      /\ UNCHANGED <<storeVars, walVars, pos, lag, cpc, ret, uncommitted,
                     dedupeVars, ctxDone, times, histVars>>
  BY Zenon DEF DropEvent, AtEvent, InProcess
<1>2. EventAt \in Bad
  BY NotSeen, Zenon DEF DropEvent
<1>3. TypeOK'
  BY <1>1, Bounds DEF TypeOK, StoreTypeOK
<1>4. PositionInv'
  <2>1. \A i, n \in Nat : i <= n => i + 1 <= n + 1
    OBVIOUS
  <2>2. idx \in Nat /\ Len(log[pos]) \in Nat
    BY <1>1, Bounds, Zenon
  <2>3. idx' <= Len(log[pos]) + 1
    BY <1>1, <2>1, <2>2, Zenon
  <2> QED
    BY <1>1, <2>3, Zenon DEF PositionInv, InProcess
<1>5. StampInv'
  BY <1>1, StampKept, Zenon
<1>6. MemoryInv'
  BY <1>1, Zenon DEF MemoryInv, ValidRow
<1>7. FileInv'
  BY <1>1, ZenonT(60) DEF FileInv, ValidRow, Stamp
<1>8. AccountInv'
  <2>1. \A r : Settled(r)' = Settled(r) /\ Safe(r)' = Safe(r) /\ Kept(r)' = Kept(r)
    BY <1>1, Zenon DEF Settled, Safe, Kept
  <2>2. \A o, i : RowOf(o, i)' = RowOf(o, i)
    BY <1>1, ZenonT(60) DEF RowOf
  <2>3. ASSUME NEW o \in committed..pos - 1, NEW i \in DOMAIN log[o + 1], Pending(o, i)
        PROVE  Pending(o, i)' \/ Settled(RowOf(o, i))
    BY <1>1, <1>2, <2>3, Bounds DEF Pending, InProcess, Settled, RowOf, EventAt
  <2> QED
    BY <1>1, <2>1, <2>2, <2>3, Zenon DEF AccountInv
<1>9. DedupeInv'
  <2>1. ASSUME NEW e \in cur \cup prev
        PROVE  \E o \in 0..pos - 1 : \E i \in DOMAIN log[o + 1] :
                  /\ log[o + 1][i] = e
                  /\ o = pos - 1 => i <= idx + 1 /\ i < idx + 1
    <3>1. PICK o \in 0..pos - 1 : \E i \in DOMAIN log[o + 1] :
                  log[o + 1][i] = e /\ (o = pos - 1 => i < idx)
      BY <1>1, ZenonT(60) DEF DedupeInv
    <3>2. DOMAIN log[o + 1] = 1..Len(log[o + 1]) /\ Len(log[o + 1]) \in Nat
      BY Bounds
    <3>3. PICK i \in DOMAIN log[o + 1] : log[o + 1][i] = e /\ (o = pos - 1 => i < idx)
      BY <3>1, Zenon
    <3>4. o = pos - 1 => i <= idx + 1 /\ i < idx + 1
      BY <3>2, <3>3, Bounds
    <3> QED
      BY <3>3, <3>4, Zenon
  <2> QED
    BY <1>1, <2>1, ZenonT(60) DEF DedupeInv
<1> QED
  BY <1>3, <1>4, <1>5, <1>6, <1>7, <1>8, <1>9, Zenon

\* process remembers an event and goes on to store it.
LEMMA TakeEventStep ==
    ASSUME IInv, TakeEvent
    PROVE  IInv'
<1> USE DEF IInv, storeVars, walVars, dedupeVars, histVars
<1>1. /\ cpc = "event" /\ cpc' = "append" /\ idx <= Len(log[pos])
      /\ InProcess /\ InProcess'
      /\ UNCHANGED <<storeVars, walVars, pos, lag, ret, idx, uncommitted, ctxDone,
                     times, histVars>>
  BY ZenonT(60) DEF TakeEvent, AtEvent, InProcess, Goto
<1>2. pos \in 1..Len(log) /\ idx \in DOMAIN log[pos] /\ EventAt = log[pos][idx]
  BY <1>1, Bounds DEF EventAt
<1>3. /\ EventAt \in Event
      /\ (cur \cup prev)' \subseteq (cur \cup prev) \cup {EventAt}
      /\ cur' \in SUBSET Event /\ prev' \in SUBSET Event
  <2>1. EventAt \in Event
    BY <1>2, Bounds
  <2> QED
    BY <2>1, ZenonT(60) DEF TakeEvent, Remember, TypeOK
<1>4. TypeOK'
  BY <1>1, <1>3, Zenon DEF TypeOK, StoreTypeOK, Running
<1>5. PositionInv'
  BY <1>1, Bounds, Zenon DEF PositionInv, TakeEvent, EventAt
<1>6. StampInv'
  BY <1>1, StampKept, Zenon
<1>7. MemoryInv'
  BY <1>1, Zenon DEF MemoryInv, ValidRow
<1>8. FileInv'
  BY <1>1, Zenon DEF FileInv, ValidRow, Stamp
<1>9. AccountInv'
  <2>1. \A r : Settled(r)' = Settled(r) /\ Safe(r)' = Safe(r) /\ Kept(r)' = Kept(r)
    BY <1>1, Zenon DEF Settled, Safe, Kept
  <2>2. \A o, i : RowOf(o, i)' = RowOf(o, i) /\ Pending(o, i)' = Pending(o, i)
    BY <1>1, Zenon DEF RowOf, Pending
  <2> QED
    BY <1>1, <2>1, <2>2, Zenon DEF AccountInv
<1>10. DedupeInv'
  <2>1. ASSUME NEW e \in cur \cup prev
        PROVE  \E o \in 0..pos - 1 : \E i \in DOMAIN log[o + 1] :
                  log[o + 1][i] = e /\ (o = pos - 1 => i <= idx)
    BY <1>1, ZenonT(60) DEF DedupeInv
  <2>2. \E o \in 0..pos - 1 : \E i \in DOMAIN log[o + 1] :
            log[o + 1][i] = EventAt /\ (o = pos - 1 => i <= idx)
    <3>1. pos - 1 \in 0..pos - 1 /\ pos - 1 + 1 = pos /\ idx <= idx
      BY <1>1, Bounds
    <3> QED
      BY <1>2, <3>1, Zenon
  <2>3. ASSUME NEW e \in (cur \cup prev)'
        PROVE  \E o \in 0..pos - 1 : \E i \in DOMAIN log[o + 1] :
                  log[o + 1][i] = e /\ (o = pos - 1 => i <= idx)
    BY <1>3, <2>1, <2>2, Zenon
  <2> QED
    BY <1>1, <2>3, Zenon DEF DedupeInv
<1> QED
  BY <1>4, <1>5, <1>6, <1>7, <1>8, <1>9, <1>10, Zenon

\* Append adds a row to the hot buffer.
LEMMA StoreEventStep ==
    ASSUME IInv, StoreEvent
    PROVE  IInv'
<1> USE DEF IInv, walVars, dedupeVars, histVars
<1>1. /\ cpc = "append" /\ cpc' = "upsert" /\ idx <= Len(log[pos])
      /\ InProcess /\ InProcess' /\ flushing = {}
      /\ buf' = buf \cup {RowAt}
      /\ UNCHANGED <<flushing, parts, wrote, files, segs, flushCount>>
      /\ UNCHANGED <<walVars, pos, lag, ret, idx, uncommitted, dedupeVars, ctxDone,
                     times, histVars>>
  BY Zenon DEF StoreEvent, StoreAppend, InProcess, Goto, PositionInv, MemoryInv
<1>2. RowAt \in Row /\ ValidRow(RowAt) /\ RowAt.off = pos - 1 /\ committed <= pos - 1
  <2>1. pos \in 1..Len(log) /\ idx \in DOMAIN log[pos] /\ pos - 1 \in Nat /\ pos - 1 + 1 = pos
    BY <1>1, Bounds
  <2>2. RowAt \in Row
    BY <2>1, RowOfType, Bounds DEF RowAt
  <2>3. committed < pos /\ EventAt \notin Bad
    BY <1>1, Zenon DEF PositionInv
  <2> QED
    BY <2>1, <2>2, <2>3, Bounds DEF RowAt, RowOf, ValidRow, EventAt
<1>3. TypeOK'
  BY <1>1, <1>2, Zenon DEF TypeOK, StoreTypeOK, Running
<1>4. PositionInv'
  BY <1>1, Bounds, Zenon DEF PositionInv, EventAt
<1>5. StampInv'
  BY <1>1, StampKept, Zenon
<1>6. MemoryInv'
  <2>1. RowAt' = RowAt
    BY <1>1, Zenon DEF RowAt, RowOf
  <2>2. pos - 1 < pos
    BY Bounds
  <2> QED
    BY <1>1, <1>2, <2>1, <2>2, ZenonT(60) DEF MemoryInv, ValidRow
<1>7. FileInv'
  BY <1>1, Zenon DEF FileInv, ValidRow, Stamp
<1>8. AccountInv'
  <2>1. \A r : Settled(r)' = Settled(r) /\ Safe(r)' = Safe(r) /\ Kept(r)' = Kept(r)
    BY <1>1, Zenon DEF Settled, Safe, Kept
  <2>2. \A o, i : RowOf(o, i)' = RowOf(o, i) /\ Pending(o, i)' = Pending(o, i)
    BY <1>1, Zenon DEF RowOf, Pending
  <2> QED
    BY <1>1, <2>1, <2>2, Zenon DEF AccountInv
<1>9. DedupeInv'
  BY <1>1, Zenon DEF DedupeInv
<1> QED
  BY <1>3, <1>4, <1>5, <1>6, <1>7, <1>8, <1>9, Zenon

\* process leaves the current event behind: what it leaves is accounted for.
LEMMA NextEvent ==
    ASSUME IInv, TypeOK', InProcess, idx <= Len(log[pos]),
           cpc' = "event", idx' \in Nat, idx < idx', idx' <= Len(log[pos]) + 1,
           \A i \in DOMAIN log[pos] :
              i >= idx /\ i < idx' => \/ RowOf(pos - 1, i) \in buf
                                      \/ RowOf(pos - 1, i) \in abandoned',
           abandoned \subseteq abandoned', flushing = {},
           UNCHANGED <<storeVars, walVars, pos, ret, dedupeVars>>
    PROVE  IInv'
<1> USE DEF IInv, storeVars, walVars, dedupeVars
<1>1. InProcess'
  BY Zenon DEF InProcess
<1>2. PositionInv'
  BY <1>1, Bounds, Zenon DEF PositionInv
<1>3. StampInv'
  BY DEF StampInv, Stamp
<1>4. MemoryInv'
  BY Zenon DEF MemoryInv, ValidRow
<1>5. FileInv'
  BY Zenon DEF FileInv, ValidRow, Stamp
<1>6. AccountInv'
  <2>1. \A r : (Settled(r) => Settled(r)') /\ Safe(r)' = Safe(r) /\ Kept(r)' = Kept(r)
    BY Zenon DEF Settled, Safe, Kept
  <2>2. \A o, i : RowOf(o, i)' = RowOf(o, i)
    BY Zenon DEF RowOf
  <2>3. ASSUME NEW o \in committed..pos - 1, NEW i \in DOMAIN log[o + 1], Pending(o, i)
        PROVE  Pending(o, i)' \/ Settled(RowOf(o, i))' \/ RowOf(o, i) \in buf
    <3>1. o = pos - 1 /\ i \in DOMAIN log[pos] /\ i \in Nat /\ i >= idx
      BY <2>3, Bounds DEF Pending
    <3>2. CASE i >= idx'
      BY <1>1, <3>1, <3>2, Zenon DEF Pending
    <3>3. CASE i < idx'
      BY <3>1, <3>3, <2>2, Zenon DEF Settled
    <3> QED
      BY <3>1, <3>2, <3>3
  <2> QED
    BY <2>1, <2>2, <2>3, Zenon DEF AccountInv
<1>7. DedupeInv'
  <2>1. ASSUME NEW e \in cur \cup prev
        PROVE  \E o \in 0..pos - 1 : \E i \in DOMAIN log[o + 1] :
                  log[o + 1][i] = e /\ (o = pos - 1 => i <= idx' /\ i < idx')
    <3>1. PICK o \in 0..pos - 1 : \E i \in DOMAIN log[o + 1] :
                  log[o + 1][i] = e /\ (o = pos - 1 => i <= idx)
      BY DEF DedupeInv
    <3>2. DOMAIN log[o + 1] = 1..Len(log[o + 1]) /\ Len(log[o + 1]) \in Nat
      BY Bounds
    <3>3. PICK i \in DOMAIN log[o + 1] : log[o + 1][i] = e /\ (o = pos - 1 => i <= idx)
      BY <3>1, Zenon
    <3>4. o = pos - 1 => i <= idx' /\ i < idx'
      BY <3>2, <3>3, Bounds
    <3> QED
      BY <3>3, <3>4, ZenonT(60)
  <2> QED
    BY <1>1, <2>1, Zenon DEF DedupeInv
<1> QED
  BY <1>2, <1>3, <1>4, <1>5, <1>6, <1>7, Zenon

\* The issue is updated, or that fails; the store is not touched.
LEMMA UpsertIssueStep ==
    ASSUME IInv, UpsertIssue
    PROVE  IInv'
<1> USE DEF storeVars, walVars, dedupeVars, histVars
<1>1. /\ cpc = "upsert" /\ cpc' = "event" /\ idx' = idx + 1
      /\ InProcess /\ idx <= Len(log[pos]) /\ flushing = {} /\ RowAt \in buf
      /\ UNCHANGED <<storeVars, walVars, pos, lag, ret, uncommitted, dedupeVars,
                     ctxDone, histVars>>
  BY ZenonT(60) DEF UpsertIssue, Goto, InProcess, IInv, PositionInv, MemoryInv
<1>2. EventAt \in Event
  BY <1>1, Bounds DEF EventAt
<1>3. times' \in [Event -> Nat]
  BY <1>2 DEF UpsertIssue, IInv, TypeOK
<1>4. TypeOK'
  <2>1. idx' \in Nat \ {0}
    BY <1>1, Bounds
  <2> QED
    BY <1>1, <1>3, <2>1, Zenon DEF IInv, TypeOK, StoreTypeOK, Running
<1>5. \A i \in DOMAIN log[pos] : i >= idx /\ i < idx' => RowOf(pos - 1, i) \in buf
  <2>1. \A i \in DOMAIN log[pos] : i >= idx /\ i < idx' => i = idx
    BY <1>1, Bounds
  <2> QED
    BY <1>1, <2>1, Zenon DEF RowAt
<1> QED
  BY <1>1, <1>4, <1>5, NextEvent, Bounds

\* The process is told to stop while the buffer is full.
LEMMA GiveUpStep ==
    ASSUME IInv, GiveUp
    PROVE  IInv'
<1> USE DEF storeVars, walVars, dedupeVars, histVars
<1>1. /\ cpc = "wait" /\ cpc' = "event" /\ idx' = Len(log[pos]) + 1
      /\ InProcess /\ idx <= Len(log[pos]) /\ flushing = {}
      /\ abandoned' = abandoned \cup {RowOf(pos - 1, i) : i \in idx..Len(log[pos])}
      /\ UNCHANGED <<storeVars, walVars, pos, lag, ret, uncommitted, dedupeVars,
                     ctxDone, times, reboots>>
  BY Zenon DEF GiveUp, Goto, InProcess, IInv, PositionInv, MemoryInv
<1>2. \A i \in idx..Len(log[pos]) : RowOf(pos - 1, i) \in Row
  <2>1. \A i \in idx..Len(log[pos]) : i \in DOMAIN log[pos - 1 + 1]
    BY <1>1, Bounds
  <2>2. pos - 1 \in Nat /\ pos - 1 < Len(log)
    BY <1>1, Bounds
  <2> QED
    BY <2>1, <2>2, RowOfType, ZenonT(60) DEF IInv
<1>3. TypeOK'
  <2>1. idx' \in Nat \ {0}
    BY <1>1, Bounds
  <2>2. abandoned' \in SUBSET Row
    BY <1>1, <1>2, Zenon DEF IInv, TypeOK
  <2> QED
    BY <1>1, <2>1, <2>2, ZenonT(60) DEF IInv, TypeOK, StoreTypeOK, Running
<1>4. \A i \in DOMAIN log[pos] : i >= idx /\ i < idx' => RowOf(pos - 1, i) \in abandoned'
  BY <1>1, Bounds
<1> QED
  BY <1>1, <1>3, <1>4, NextEvent, Bounds

----------------------------------------------------------------------------
(* The committed offset never passes an event that has not been counted.     *)

\* The bounds every step relies on.
LEMMA CountBounds ==
    ASSUME CountInv
    PROVE  /\ committed \in Nat /\ pos \in Nat /\ idx \in Nat \ {0} /\ Len(log) \in Nat
           /\ committed <= pos /\ pos <= Len(log)
           /\ \A k \in 1..Len(log) : /\ log[k] \in Seq(Event) /\ Len(log[k]) \in Nat
                                     /\ DOMAIN log[k] = 1..Len(log[k])
           /\ InProcess => pos \in 1..Len(log) /\ pos - 1 \in Nat /\ pos - 1 + 1 = pos
BY DEF CountInv, CountType, CountPosition

\* A step that moves control within process or outside it, or leaves it when
\* the record has no event left.
QuietMove ==
    /\ UNCHANGED <<log, committed, pos, idx, cur, prev, times, ctxDone>>
    /\ ret' \in {"wait", "next", "select", "exited"}
    /\ InProcess' => InProcess
    /\ InProcess /\ ~InProcess' => cpc = "event" /\ idx > Len(log[pos])
    /\ InHand' = InHand
    /\ cpc' = "commit" => ret' # "wait"

\* Such a step preserves the invariant.
LEMMA QuietStep ==
    ASSUME CountInv, QuietMove
    PROVE  CountInv'
<1>1. CountType' /\ CountPosition'
  BY Zenon DEF CountInv, CountType, CountPosition, QuietMove
<1>2. ReadCounted'
  <2>1. ASSUME NEW o \in 0..pos - 1, NEW i \in DOMAIN log[o + 1], Pending(o, i)
        PROVE  Pending(o, i)'
    BY <2>1, CountBounds DEF Pending, QuietMove
  <2>2. \A e : Counted(e)' = Counted(e)
    BY Zenon DEF Counted, QuietMove
  <2> QED
    BY <2>1, <2>2, Zenon DEF CountInv, ReadCounted, QuietMove
<1>3. SeenCounted'
  BY Zenon DEF CountInv, SeenCounted, Counted, EventAt, QuietMove
<1> QED
  BY <1>1, <1>2, <1>3, Zenon DEF CountInv

\* The steps of Run that neither read, take, drop nor count an event, and those
\* of the ingest process that append nothing.
LEMMA QuietActions ==
    ASSUME CountInv, NoFault,
           \/ RefreshLagFromWAL \/ Cancel \/ SelectDone \/ SelectTick \/ SelectDefault
           \/ NoRecord \/ ReadFails \/ RecordDone \/ StoreEvent \/ BufferFull \/ Retry
           \/ GiveUp \/ Flush \/ CommitFails \/ IngestReboot \/ UNCHANGED vars
    PROVE  CountInv'
<1>1. /\ ret \in {"wait", "next", "select", "exited"}
      /\ cpc = "commit" => ret # "wait"
      /\ ~Shutdown /\ ctxDone = FALSE
  BY Zenon DEF CountInv, CountType, CountPosition, NoFault
<1> USE <1>1 DEF QuietMove, InProcess, InHand, storeVars, walVars, dedupeVars, histVars,
                 Goto, Call
<1>2. CASE RefreshLagFromWAL \/ IngestReboot \/ UNCHANGED vars
  BY <1>2, QuietStep, Zenon DEF RefreshLagFromWAL, IngestReboot, vars
<1>3. CASE Cancel \/ GiveUp \/ SelectDone
  BY <1>3, Zenon DEF Cancel, GiveUp, SelectDone
<1>4. CASE SelectTick \/ SelectDefault \/ NoRecord \/ ReadFails
  BY <1>4, QuietStep, Zenon DEF SelectTick, SelectDefault, NoRecord, ReadFails
<1>5. CASE RecordDone
  BY <1>5, QuietStep, Zenon DEF RecordDone
<1>6. CASE StoreEvent \/ BufferFull \/ Retry
  BY <1>6, QuietStep, Zenon DEF StoreEvent, BufferFull, Retry
<1>7. CASE FlushNothing \/ FlushTake \/ FlushReturn
  BY <1>7, QuietStep, Zenon DEF FlushNothing, FlushTake, FlushReturn, AfterFlush
<1>8. CASE \E p \in Partition : FlushPart(p) \/ FlushFails(p)
  BY <1>8, QuietStep, Zenon DEF FlushPart, FlushFails
<1>9. CASE CommitFails
  BY <1>9, QuietStep, Zenon DEF CommitFails
<1> QED
  BY <1>2, <1>3, <1>4, <1>5, <1>6, <1>7, <1>8, <1>9, Zenon DEF Flush

\* A record is appended behind everything Run has read.
LEMMA SubmitCounts ==
    ASSUME CountInv, NEW b \in Bodies, Submit(b)
    PROVE  CountInv'
<1>1. /\ log' \in Seq(Seq(Event)) /\ Len(log') = Len(log) + 1
      /\ \A k \in 1..Len(log) : log'[k] = log[k]
  <2>1. log \in Seq(Seq(Event)) /\ b \in Seq(Event) /\ log' = Append(log, b)
    BY PipelineAssumption, Zenon DEF CountInv, CountType, Submit
  <2> QED
    BY <2>1
<1>2. UNCHANGED <<committed, pos, cpc, ret, idx, cur, prev, ctxDone, times>>
  BY Zenon DEF Submit, dedupeVars
<1>3. ASSUME NEW o \in 0..pos - 1 PROVE log'[o + 1] = log[o + 1]
  <2>1. o + 1 \in 1..Len(log)
    BY CountBounds
  <2> QED
    BY <1>1, <2>1, Zenon
<1>4. InProcess => log'[pos] = log[pos]
  BY <1>1, CountBounds, ZenonT(60)
<1>5. CountType' /\ CountPosition'
  BY <1>1, <1>2, <1>4, CountBounds
     DEF CountInv, CountType, CountPosition, InProcess, InHand
<1>6. ReadCounted'
  BY <1>2, <1>3, Zenon DEF CountInv, ReadCounted, Counted, Pending, InProcess
<1>7. SeenCounted'
  BY <1>2, <1>4, Zenon DEF CountInv, SeenCounted, Counted, EventAt, InHand, InProcess
<1> QED
  BY <1>5, <1>6, <1>7, Zenon DEF CountInv

\* Run reads the next record: all of its events are still to be handled.
LEMMA ReadRecordCounts ==
    ASSUME CountInv, ReadRecord
    PROVE  CountInv'
<1>1. /\ cpc = "next" /\ cpc' = "event" /\ pos < Len(log) /\ pos' = pos + 1 /\ idx' = 1
      /\ UNCHANGED <<log, committed, ret, cur, prev, ctxDone, times>>
  BY Zenon DEF ReadRecord, Goto, walVars, dedupeVars
<1>2. ~InProcess /\ ~InHand /\ InProcess' /\ ~InHand'
  BY <1>1, ZenonT(60) DEF InProcess, InHand
<1>3. CountType' /\ CountPosition'
  BY <1>1, <1>2, CountBounds DEF CountInv, CountType, CountPosition
<1>4. ReadCounted'
  <2>1. (0..pos - 1)' = (0..pos - 1) \cup {pos}
    BY <1>1, CountBounds
  <2>2. \A o \in 0..pos - 1 : \A i \in DOMAIN log[o + 1] : Counted(log[o + 1][i])
    BY <1>2, Zenon DEF CountInv, ReadCounted, Pending
  <2>3. \A o : o = pos => \A i \in DOMAIN log[o + 1] : Pending(o, i)'
    <3>1. DOMAIN log[pos + 1] = 1..Len(log[pos + 1]) /\ Len(log[pos + 1]) \in Nat
      BY <1>1, CountBounds
    <3>2. pos = pos' - 1
      BY <1>1, CountBounds
    <3> QED
      BY <1>1, <1>2, <3>1, <3>2 DEF Pending
  <2> QED
    BY <1>1, <2>1, <2>2, <2>3, ZenonT(60) DEF ReadCounted, Counted
<1>5. SeenCounted'
  BY <1>1, <1>2, Zenon DEF CountInv, SeenCounted, Counted
<1> QED
  BY <1>3, <1>4, <1>5, Zenon DEF CountInv

\* process is done with the event at idx, which is malformed or counted now.
LEMMA EventDone ==
    ASSUME CountInv, InProcess, idx <= Len(log[pos]), cpc' = "event", idx' = idx + 1,
           UNCHANGED <<log, committed, pos, ret, cur, prev, ctxDone>>,
           times' \in [Event -> Nat], \A e : Counted(e) => Counted(e)',
           EventAt \in Bad \/ times'[EventAt] > 0
    PROVE  CountInv'
<1>1. InProcess' /\ ~InHand'
  BY Zenon DEF InProcess, InHand
<1>2. CountType' /\ CountPosition'
  BY <1>1, CountBounds DEF CountInv, CountType, CountPosition
<1>3. ReadCounted'
  <2>1. ASSUME NEW o \in 0..pos - 1, NEW i \in DOMAIN log[o + 1], Pending(o, i),
               ~Counted(log[o + 1][i])'
        PROVE  Pending(o, i)'
    <3>1. i # idx
      BY <2>1, CountBounds, Zenon DEF Pending, EventAt, Counted
    <3> QED
      BY <1>1, <2>1, <3>1, CountBounds DEF Pending
  <2>2. ASSUME NEW o, NEW i, Counted(log[o + 1][i]) PROVE Counted(log[o + 1][i])'
    BY <2>2, Zenon DEF Counted
  <2> QED
    BY <2>1, <2>2, Zenon DEF CountInv, ReadCounted
<1>4. SeenCounted'
  BY Zenon DEF CountInv, SeenCounted, EventAt, Counted
<1> QED
  BY <1>2, <1>3, <1>4, Zenon DEF CountInv

\* process drops an event: a malformed one, or a resend of a counted one.
LEMMA DropEventCounts ==
    ASSUME CountInv, DropEvent
    PROVE  CountInv'
<1>1. /\ cpc = "event" /\ cpc' = "event" /\ idx <= Len(log[pos]) /\ idx' = idx + 1
      /\ UNCHANGED <<log, committed, pos, ret, cur, prev, ctxDone, times>>
  BY Zenon DEF DropEvent, AtEvent, walVars, dedupeVars
<1>2. InProcess /\ ~InHand
  BY <1>1, Zenon DEF InProcess, InHand
<1>3. Counted(EventAt)
  BY <1>2, Zenon DEF DropEvent, Seen, CountInv, SeenCounted, Counted
<1>4. \A e : Counted(e) => Counted(e)'
  BY <1>1, Zenon DEF Counted
<1> QED
  BY <1>1, <1>2, <1>3, <1>4, EventDone, Zenon DEF CountInv, CountType, Counted

\* process takes an event: it is the one in hand until it is counted.
LEMMA TakeEventCounts ==
    ASSUME CountInv, TakeEvent
    PROVE  CountInv'
<1>1. /\ cpc = "event" /\ cpc' = "append" /\ idx <= Len(log[pos])
      /\ UNCHANGED <<log, committed, pos, ret, idx, ctxDone, times>>
      /\ Remember(EventAt)
  BY Zenon DEF TakeEvent, AtEvent, Goto, walVars
<1>2. InProcess /\ ~InHand /\ InProcess' /\ InHand'
  BY <1>1, Zenon DEF InProcess, InHand
<1>3. EventAt \in Event /\ EventAt' = EventAt
  BY <1>1, <1>2, CountBounds DEF EventAt
<1>4. cur' \cup prev' \subseteq cur \cup prev \cup {EventAt}
  BY <1>1, Zenon DEF Remember, dedupeVars
<1>5. CountType' /\ CountPosition'
  BY <1>1, <1>2, <1>3, <1>4, Zenon DEF CountInv, CountType, CountPosition
<1>6. ReadCounted'
  BY <1>1, <1>2, Zenon DEF CountInv, ReadCounted, Counted, Pending
<1>7. SeenCounted'
  BY <1>1, <1>2, <1>3, <1>4, Zenon DEF CountInv, SeenCounted, Counted
<1> QED
  BY <1>5, <1>6, <1>7, Zenon DEF CountInv

\* The event in hand is counted.
LEMMA UpsertIssueCounts ==
    ASSUME CountInv, NoFault, UpsertIssue
    PROVE  CountInv'
<1>1. /\ cpc = "upsert" /\ cpc' = "event" /\ idx' = idx + 1
      /\ UNCHANGED <<log, committed, pos, ret, cur, prev, ctxDone>>
      /\ times' = [times EXCEPT ![EventAt] = @ + 1]
  BY Zenon DEF UpsertIssue, Goto, walVars, dedupeVars, CountInv, CountType, NoFault
<1>2. InProcess /\ idx <= Len(log[pos])
  BY <1>1, Zenon DEF InProcess, InHand, CountInv, CountPosition
<1>3. EventAt \in Event /\ times \in [Event -> Nat]
  <2>1. log[pos] \in Seq(Event) /\ idx \in 1..Len(log[pos])
    BY <1>2, CountBounds
  <2> QED
    BY <2>1 DEF EventAt, CountInv, CountType
<1>4. /\ times' \in [Event -> Nat] /\ times'[EventAt] > 0
      /\ \A e \in Event : times[e] > 0 => times'[e] > 0
      /\ \A e : e \notin Event => times'[e] = times[e]
  BY <1>1, <1>3
<1>5. \A e : Counted(e) => Counted(e)'
  BY <1>4, Zenon DEF Counted
<1> QED
  BY <1>1, <1>2, <1>4, <1>5, EventDone, Zenon

\* The commit closure runs outside process, when every event read is counted.
LEMMA CommitOffsetCounts ==
    ASSUME CountInv, CommitOffset
    PROVE  CountInv'
<1>1. /\ cpc = "commit" /\ committed' = pos /\ cpc' = ret /\ ret # "wait"
      /\ UNCHANGED <<log, pos, ret, idx, cur, prev, ctxDone, times>>
  BY Zenon DEF CommitOffset, Goto, dedupeVars, CountInv, CountPosition
<1>2. ~InProcess /\ ~InHand /\ ~InProcess' /\ ~InHand' /\ cpc' # "commit"
  BY <1>1, Zenon DEF InProcess, InHand, CountInv, CountType
<1>3. CountType' /\ CountPosition'
  BY <1>1, <1>2, CountBounds DEF CountInv, CountType, CountPosition
<1>4. ReadCounted' /\ SeenCounted'
  BY <1>1, <1>2, Zenon DEF CountInv, ReadCounted, SeenCounted, Counted, Pending
<1> QED
  BY <1>3, <1>4, Zenon DEF CountInv

\* A crash forgets the generations along with the position in the log.
LEMMA RebootCounts ==
    ASSUME CountInv, Reboot
    PROVE  CountInv'
<1>1. /\ pos' = committed /\ cpc' = "select" /\ ret' = "select" /\ idx' = 1
      /\ cur' = {} /\ prev' = {} /\ ctxDone' = FALSE
      /\ UNCHANGED <<log, committed, times>>
  BY Zenon DEF Reboot, walVars
<1>2. ~InProcess' /\ ~InHand'
  BY <1>1, Zenon DEF InProcess, InHand
<1>3. CountType' /\ CountPosition'
  BY <1>1, <1>2, CountBounds DEF CountInv, CountType, CountPosition
<1>4. ReadCounted'
  <2>1. ASSUME NEW o \in 0..committed - 1, NEW i \in DOMAIN log[o + 1]
        PROVE  o \in 0..pos - 1 /\ ~Pending(o, i)
    BY CountBounds DEF CountInv, CountPosition, Pending
  <2> QED
    BY <1>1, <2>1, Zenon DEF CountInv, ReadCounted, Counted
<1>5. SeenCounted'
  BY <1>1, Zenon DEF SeenCounted
<1> QED
  BY <1>3, <1>4, <1>5, Zenon DEF CountInv

----------------------------------------------------------------------------
\* Every step preserves the invariant.
LEMMA NextCounts ==
    ASSUME CountInv, NoFault, [Next]_vars
    PROVE  CountInv'
<1>1. CASE \E b \in Bodies : Submit(b)
  BY <1>1, SubmitCounts, Zenon
<1>2. CASE \/ RefreshLagFromWAL \/ Cancel \/ SelectDone \/ SelectTick \/ SelectDefault
           \/ NoRecord \/ ReadFails \/ RecordDone \/ StoreEvent \/ BufferFull \/ Retry
           \/ GiveUp \/ Flush \/ CommitFails \/ IngestReboot \/ UNCHANGED vars
  BY <1>2, QuietActions, Zenon
<1>3. CASE ReadRecord \/ DropEvent \/ TakeEvent \/ UpsertIssue
  BY <1>3, ReadRecordCounts, DropEventCounts, TakeEventCounts, UpsertIssueCounts, Zenon
<1>4. CASE CommitOffset \/ Reboot
  BY <1>4, CommitOffsetCounts, RebootCounts, Zenon
<1> QED
  BY <1>1, <1>2, <1>3, <1>4, Zenon DEF Next, Run, Process

----------------------------------------------------------------------------
(* Flush, the commit and restarts.                                           *)

\* MinTs picks the timestamp of one of the rows.
LEMMA MinTsOfRow ==
    ASSUME NEW rows \in SUBSET Row, rows # {}
    PROVE  \E r \in rows : MinTs(rows) = Ts[r.ev]
<1> DEFINE T == {Ts[r.ev] : r \in rows}
<1>1. T \subseteq Nat /\ T # {}
  BY StoreAssumption DEF Row
<1> HIDE DEF T
<1>2. PICK t \in T : \A u \in T : ~(<<u, t>> \in OpToRel(<, Nat))
  BY <1>1, NatLessThanWellFounded, WFMin, Zenon
<1>3. \A u \in T : t <= u
  <2>1. SUFFICES ASSUME NEW u \in T, u < t PROVE FALSE
    BY <1>1
  <2>2. <<u, t>> \in Nat \X Nat
    BY <1>1, Zenon
  <2>3. <<u, t>> \in OpToRel(<, Nat)
    BY <2>1, <2>2, Zenon DEF OpToRel
  <2> QED
    BY <1>2, <2>3, Zenon
<1>4. MinTs(rows) \in T
  BY <1>3, ZenonT(60) DEF MinTs, T
<1> QED
  BY <1>4, Zenon DEF T

(* The steps of Flush, the commit that follows it, and a crash.              *)

\* Flush takes the rows out of the buffer.
LEMMA FlushTakeStep ==
    ASSUME IInv, FlushTake
    PROVE  IInv'
<1> USE DEF IInv, walVars, dedupeVars, histVars
<1>1. /\ cpc = "flush" /\ flushing = {} /\ flushing' = buf /\ buf' = {}
      /\ parts' = {Part[r.ev] : r \in buf} /\ wrote' = {}
      /\ UNCHANGED <<files, segs, flushCount>>
      /\ UNCHANGED <<walVars, pos, lag, cpc, ret, idx, uncommitted, dedupeVars,
                     ctxDone, times, histVars>>
  BY Zenon DEF FlushTake, FlushBegin
<1>2. TypeOK'
  <2>1. parts' \in SUBSET Partition
    BY <1>1, Zenon DEF TypeOK, StoreTypeOK, Row, Partition
  <2> QED
    BY <1>1, <2>1, Zenon DEF TypeOK, StoreTypeOK
<1>3. PositionInv'
  BY <1>1, Zenon DEF PositionInv, InProcess, EventAt
<1>4. StampInv'
  BY <1>1, StampKept, Zenon
<1>5. MemoryInv'
  BY <1>1, ZenonT(60) DEF MemoryInv, ValidRow
<1>6. FileInv'
  BY <1>1, SMTT(30) DEF FileInv, ValidRow, Stamp
<1>7. AccountInv'
  <2>1. \A r : Settled(r)' = Settled(r) /\ Safe(r)' = Safe(r) /\ Kept(r)' = Kept(r)
    BY <1>1, Zenon DEF Settled, Safe, Kept
  <2>2. \A o, i : RowOf(o, i)' = RowOf(o, i) /\ Pending(o, i)' = Pending(o, i)
    BY <1>1, Zenon DEF RowOf, Pending, InProcess
  <2>3. buf' \cup flushing' = buf \cup flushing
    BY <1>1, Zenon
  <2>4. \A r \in flushing' : Part[r.ev] \in parts'
    BY <1>1, Zenon
  <2> QED
    BY <1>1, <2>1, <2>2, <2>3, <2>4, ZenonT(60) DEF AccountInv
<1>8. DedupeInv'
  BY <1>1, Zenon DEF DedupeInv, InProcess
<1> QED
  BY <1>2, <1>3, <1>4, <1>5, <1>6, <1>7, <1>8, Zenon

\* Flush returns, with an error or without: no row is left in flushing, and
\* those that were are in the buffer again or kept on disk.
LEMMA FlushLeave ==
    ASSUME IInv, TypeOK', cpc = "flush", InProcess' <=> InProcess,
           cpc' \notin {"event", "flush", "upsert"},
           cpc' = "commit" => buf' = {} /\ ret' # "wait",
           flushing' = {}, parts' = {}, buf \subseteq buf', buf' \subseteq buf \cup flushing,
           flushCount <= flushCount',
           \A r \in flushing : r \in buf' \/ Kept(r),
           UNCHANGED <<files, walVars, pos, idx, dedupeVars, abandoned>>
    PROVE  IInv'
<1> USE DEF IInv, walVars, dedupeVars
<1>1. PositionInv'
  BY ZenonT(60) DEF PositionInv, InProcess, EventAt
<1>2. StampInv'
  BY DEF StampInv, Stamp
<1>3. MemoryInv'
  BY Zenon DEF MemoryInv, ValidRow
<1>4. FileInv'
  BY Zenon DEF FileInv, ValidRow, Stamp
<1>5. AccountInv'
  <2>1. \A r : Settled(r)' = Settled(r) /\ Safe(r)' = Safe(r)
    BY ZenonT(60) DEF Settled, Safe
  <2>2. \A r : Kept(r) => Kept(r)'
    BY DEF Kept, TypeOK, StoreTypeOK, File, Name
  <2>3. \A o, i : RowOf(o, i)' = RowOf(o, i) /\ Pending(o, i)' = Pending(o, i)
    BY Zenon DEF RowOf, Pending
  <2> QED
    BY <2>1, <2>2, <2>3, ZenonT(60) DEF AccountInv
<1>6. DedupeInv'
  BY Zenon DEF DedupeInv
<1> QED
  BY <1>1, <1>2, <1>3, <1>4, <1>5, <1>6, Zenon

\* A segment cannot be written and the rows go back.
LEMMA FlushFailsStep ==
    ASSUME IInv, NEW p \in Partition, FlushFails(p)
    PROVE  IInv'
<1> USE DEF walVars, dedupeVars, histVars
<1>1. /\ cpc = "flush" /\ cpc' = ret /\ ret' = ret
      /\ flushCount' \in {flushCount, flushCount + 1}
      /\ buf' = flushing \cup buf /\ flushing' = {} /\ parts' = {} /\ wrote' = {}
      /\ UNCHANGED <<files, segs>>
      /\ UNCHANGED <<walVars, pos, lag, idx, uncommitted, dedupeVars, ctxDone,
                     times, histVars>>
  BY Zenon DEF FlushFails, WriteSegmentFails, Goto
<1>2. flushCount' \in Nat /\ flushCount <= flushCount'
  BY <1>1 DEF IInv, TypeOK, StoreTypeOK
<1>3. TypeOK'
  BY <1>1, <1>2, Zenon DEF IInv, TypeOK, StoreTypeOK, Running
<1>4. /\ InProcess' <=> InProcess
      /\ cpc' \notin {"event", "flush", "upsert", "commit"}
  BY <1>1, Zenon DEF InProcess, IInv, TypeOK
<1> QED
  BY <1>1, <1>2, <1>3, <1>4, FlushLeave, Zenon

\* Flush publishes its segments.
LEMMA FlushReturnStep ==
    ASSUME IInv, FlushReturn
    PROVE  IInv'
<1> USE DEF walVars, dedupeVars, histVars
<1>1. /\ cpc = "flush" /\ ret' = ret
      /\ cpc' = IF ret = "wait" THEN "wait" ELSE "commit"
      /\ flushing # {} /\ parts = {} /\ flushing' = {} /\ wrote' = {}
      /\ segs' = segs \cup wrote
      /\ UNCHANGED <<buf, parts, files, flushCount>>
      /\ UNCHANGED <<walVars, pos, lag, idx, uncommitted, dedupeVars, ctxDone,
                     times, histVars>>
  BY Zenon DEF FlushReturn, FlushEnd, AfterFlush, Goto
<1>2. TypeOK'
  BY <1>1, Zenon DEF IInv, TypeOK, StoreTypeOK, Running
<1>3. InProcess' <=> InProcess
  BY <1>1, Zenon DEF InProcess
<1>4. buf = {} /\ \A r \in flushing : Kept(r)
  BY <1>1, ZenonT(60) DEF IInv, MemoryInv, AccountInv
<1>5. flushCount <= flushCount'
  BY <1>1 DEF IInv, TypeOK, StoreTypeOK
<1> QED
  BY <1>1, <1>2, <1>3, <1>4, <1>5, FlushLeave, Zenon

\* What writing a segment does.  A file whose rows are all committed is not
\* replaced: the new name is the stamp of a row that is not committed, and a
\* stamp determines its row.
LEMMA WriteSegmentFacts ==
    ASSUME IInv, NEW p \in Partition, FlushPart(p)
    PROVE  LET new == [name |-> SegmentName(p), rows |-> RowsOf(p)]
           IN  /\ SegmentName(p) \in Name
               /\ new \in files' /\ new \in File
               /\ files' \subseteq files \cup {new}
               /\ \A r \in RowsOf(p) : ValidRow(r) /\ committed <= r.off /\ r.off < pos
               /\ \E r \in RowsOf(p) : Stamp(r.ev) = <<p, SegmentName(p).ts>>
               /\ \A f \in files : f.name.seq <= flushCount => f \in files'
               /\ \A f \in files : (\A s \in f.rows : s.off < committed) => f \in files'
<1> USE DEF IInv
<1>0. flushCount \in Nat
  BY ZenonT(60) DEF TypeOK, StoreTypeOK
<1>1. RowsOf(p) # {} /\ RowsOf(p) \in SUBSET Row
  BY Zenon DEF FlushPart, WriteSegment, MemoryInv, RowsOf, TypeOK, StoreTypeOK
<1>2. PICK w \in RowsOf(p) : MinTs(RowsOf(p)) = Ts[w.ev]
  BY <1>1, MinTsOfRow, Zenon
<1>3. w \in Row /\ w.ev \in Event /\ Ts[w.ev] \in Nat /\ Part[w.ev] = p
  BY <1>1, StoreAssumption, ZenonT(60) DEF Row, RowsOf
<1>4. /\ SegmentName(p) \in Name
      /\ SegmentName(p).seq = flushCount + 1
      /\ SegmentName(p).part = p /\ SegmentName(p).ts = Ts[w.ev]
  <2>1. flushCount + 1 \in Nat
    BY <1>0, NatSucc, Zenon
  <2> QED
    BY <1>2, <1>3, <2>1, Zenon DEF SegmentName, Name
<1>5. Stamp(w.ev) = <<p, SegmentName(p).ts>>
  BY <1>3, <1>4, Zenon DEF Stamp
<1>6. \A r \in RowsOf(p) : ValidRow(r) /\ committed <= r.off /\ r.off < pos
  BY Zenon DEF MemoryInv, RowsOf
<1>7. files' = {f \in files : f.name # SegmentName(p)}
                 \cup {[name |-> SegmentName(p), rows |-> RowsOf(p)]}
  BY Zenon DEF FlushPart, WriteSegment
<1>8. \A f \in files : f.name.seq <= flushCount => f \in files'
  <2>1. ~(SegmentName(p).seq <= flushCount)
    BY <1>0, <1>4, NatSucc, ZenonT(60)
  <2> QED
    BY <1>7, <2>1, Zenon
<1>9. ASSUME NEW f \in files, \A s \in f.rows : s.off < committed
      PROVE  f.name # SegmentName(p)
  <2>1. SUFFICES ASSUME f.name = SegmentName(p) PROVE FALSE
    BY Zenon
  <2>2. PICK v \in f.rows : Stamp(v.ev) = Stamp(w.ev)
    BY <1>5, <1>4, <2>1, Zenon DEF FileInv
  <2>3. v \in Row /\ ValidRow(v) /\ ValidRow(w)
    BY <1>6, ZenonT(60) DEF FileInv, TypeOK, StoreTypeOK, File
  <2>4. v.off + 1 \in DOMAIN log /\ w.off + 1 \in DOMAIN log /\ v.off \in Nat /\ w.off \in Nat
    <3>1. v.off \in Nat /\ w.off \in Nat
      BY <1>3, <2>3, Zenon DEF Row
    <3>2. v.off < Len(log) /\ w.off < Len(log)
      BY <2>3, Zenon DEF ValidRow
    <3>3. \A a, n \in Nat : a < n => a + 1 \in 1..n
      OBVIOUS
    <3>4. Len(log) \in Nat /\ DOMAIN log = 1..Len(log)
      BY Bounds, Zenon
    <3> QED
      BY <3>1, <3>2, <3>3, <3>4, Zenon
  <2>5. v.off + 1 = w.off + 1
    <3>1. /\ v.i \in DOMAIN log[v.off + 1] /\ log[v.off + 1][v.i] = v.ev
          /\ w.i \in DOMAIN log[w.off + 1] /\ log[w.off + 1][w.i] = w.ev
      BY <2>3, Zenon DEF ValidRow
    <3>2. Stamp(log[v.off + 1][v.i]) = Stamp(log[w.off + 1][w.i])
      BY <2>2, <3>1, Zenon
    <3> DEFINE k == v.off + 1
               l == w.off + 1
    <3>3. /\ k \in DOMAIN log /\ l \in DOMAIN log /\ v.i \in DOMAIN log[k] /\ w.i \in DOMAIN log[l]
          /\ Stamp(log[k][v.i]) = Stamp(log[l][w.i])
      BY <2>4, <3>1, <3>2, Zenon
    <3> HIDE DEF k, l
    <3>4. k = l
      BY <3>3, Zenon DEF StampInv
    <3> QED
      BY <3>4, Zenon DEF k, l
  <2>6. v.off < committed /\ committed <= w.off
    BY <1>6, <1>9, Zenon
  <2> QED
    BY <2>4, <2>5, <2>6, Bounds
<1> QED
  BY <1>1, <1>4, <1>5, <1>6, <1>7, <1>8, <1>9, ZenonT(60) DEF File

\* Flush writes the segment of one partition.
LEMMA FlushPartStep ==
    ASSUME IInv, NEW p \in Partition, FlushPart(p)
    PROVE  IInv'
<1> USE DEF IInv, walVars, dedupeVars, histVars
<1> DEFINE new == [name |-> SegmentName(p), rows |-> RowsOf(p)]
<1>1. /\ cpc = "flush" /\ flushCount' = flushCount + 1 /\ p \in parts
      /\ parts' = parts \ {p} /\ wrote' = wrote \cup {SegmentName(p)}
      /\ UNCHANGED <<buf, flushing, segs>>
      /\ UNCHANGED <<walVars, pos, lag, cpc, ret, idx, uncommitted, dedupeVars,
                     ctxDone, times, histVars>>
  BY Zenon DEF FlushPart, WriteSegment
<1>2. /\ SegmentName(p) \in Name
      /\ new \in files' /\ new \in File
      /\ files' \subseteq files \cup {new}
      /\ \A r \in RowsOf(p) : ValidRow(r) /\ committed <= r.off /\ r.off < pos
      /\ \E r \in RowsOf(p) : Stamp(r.ev) = <<p, SegmentName(p).ts>>
      /\ \A f \in files : f.name.seq <= flushCount => f \in files'
      /\ \A f \in files : (\A s \in f.rows : s.off < committed) => f \in files'
  BY WriteSegmentFacts, Zenon
<1>3. SegmentName(p).part = p /\ SegmentName(p).seq = flushCount + 1
  BY Zenon DEF SegmentName
<1>4. new.name = SegmentName(p) /\ new.rows = RowsOf(p)
  BY Zenon
<1> HIDE DEF new
<1>5. flushCount \in Nat
  BY ZenonT(60) DEF TypeOK, StoreTypeOK
<1>6. TypeOK'
  <2>1. flushCount' \in Nat
    BY <1>1, <1>5, NatSucc, Zenon
  <2>2. wrote' \in SUBSET Name /\ files' \in SUBSET File /\ parts' \in SUBSET Partition
    BY <1>1, <1>2, ZenonT(60) DEF TypeOK, StoreTypeOK
  <2> QED
    BY <1>1, <2>1, <2>2, ZenonT(60) DEF TypeOK, StoreTypeOK
<1>7. PositionInv'
  BY <1>1, Zenon DEF PositionInv, InProcess, EventAt
<1>8. StampInv'
  BY <1>1, StampKept, Zenon
<1>9. MemoryInv'
  BY <1>1, Zenon DEF MemoryInv, ValidRow
<1>10. FileInv'
  <2>1. \A r : ValidRow(r)' = ValidRow(r)
    BY <1>1, Zenon DEF ValidRow
  <2> QED
    BY <1>2, <1>3, <1>4, <2>1, ZenonT(60) DEF FileInv, Stamp
<1>11. AccountInv'
  <2>1. \A r : Settled(r)' = Settled(r) /\ (Safe(r) => Safe(r)')
    BY <1>1, <1>2, Zenon DEF Settled, Safe
  <2>2. ASSUME NEW r, Kept(r) PROVE Kept(r)'
    <3>1. PICK f \in files : /\ r \in f.rows /\ f.name.seq <= flushCount
                             /\ \A s \in f.rows : s.off < pos
      BY <2>2, ZenonT(60) DEF Kept
    <3>2. f \in files' /\ f.name.seq <= flushCount'
      BY <1>1, <1>2, <1>5, <3>1 DEF TypeOK, StoreTypeOK, File, Name
    <3> QED
      BY <1>1, <3>1, <3>2, Zenon DEF Kept
  <2>3. ASSUME NEW r \in RowsOf(p) PROVE Kept(r)'
    <3>1. new.name.seq <= flushCount'
      <4>1. \A a \in Nat : a + 1 <= a + 1
        OBVIOUS
      <4> QED
        BY <1>1, <1>3, <1>4, <1>5, <4>1, ZenonT(60)
    <3> QED
      BY <1>1, <1>2, <1>4, <3>1, ZenonT(60) DEF Kept
  <2>4. \A o, i : RowOf(o, i)' = RowOf(o, i) /\ Pending(o, i)' = Pending(o, i)
    BY <1>1, Zenon DEF RowOf, Pending, InProcess
  <2>5. \A r \in flushing : Part[r.ev] \in parts' \/ Kept(r)'
    BY <1>1, <2>2, <2>3, ZenonT(60) DEF AccountInv, RowsOf
  <2> QED
    BY <1>1, <2>1, <2>2, <2>4, <2>5, ZenonT(60) DEF AccountInv
<1>12. DedupeInv'
  BY <1>1, ZenonT(60) DEF DedupeInv, InProcess
<1> QED
  BY <1>6, <1>7, <1>8, <1>9, <1>10, <1>11, <1>12, ZenonT(60)

\* Commit comes after a Flush that left nothing in memory: every record read is
\* settled or in a file that stays.
LEMMA CommitOffsetStep ==
    ASSUME IInv, CommitOffset
    PROVE  IInv'
<1> USE DEF IInv, storeVars, dedupeVars, histVars
<1>1. /\ cpc = "commit" /\ committed' = pos /\ cpc' = ret /\ ret' = ret /\ uncommitted' = 0
      /\ ret \in {"next", "select", "exited"} /\ buf = {} /\ flushing = {}
      /\ ~InProcess /\ ~InProcess'
      /\ UNCHANGED <<storeVars, log, pos, lag, idx, dedupeVars, ctxDone, times,
                     histVars>>
  BY Zenon DEF CommitOffset, Goto, MemoryInv, TypeOK, InProcess
<1>2. TypeOK'
  BY <1>1, ZenonT(60) DEF TypeOK, StoreTypeOK, Running
<1>3. PositionInv'
  BY <1>1, Bounds DEF PositionInv
<1>4. StampInv'
  BY <1>1, StampKept, Zenon
<1>5. MemoryInv'
  BY <1>1, ZenonT(60) DEF MemoryInv
<1>6. FileInv'
  BY <1>1, SMTT(30) DEF FileInv, ValidRow, Stamp
<1>7. AccountInv'
  <2>1. \A r : Settled(r)' = Settled(r) /\ (Kept(r) => Safe(r)')
    BY <1>1, ZenonT(60) DEF Settled, Kept, Safe
  <2>2. \A r : Safe(r) => Safe(r)'
    <3>1. \A f \in files : \A s \in f.rows : s.off \in Nat
      BY ZenonT(60) DEF TypeOK, StoreTypeOK, File, Row
    <3>2. \A o \in Nat : o < committed => o < pos
      BY Bounds
    <3> QED
      BY <1>1, <3>1, <3>2, Zenon DEF Safe
  <2>3. \A o, i : RowOf(o, i)' = RowOf(o, i) /\ ~Pending(o, i)
    BY <1>1, ZenonT(60) DEF RowOf, Pending
  <2>4. /\ (0..committed - 1)' = (0..committed - 1) \cup (committed..pos - 1)
        /\ (committed..pos - 1)' = {}
    BY <1>1, Bounds
  <2>5. \A o \in (0..committed - 1) \cup (committed..pos - 1) : \A i \in DOMAIN log[o + 1] :
           Settled(RowOf(o, i))' \/ Safe(RowOf(o, i))'
    BY <1>1, <2>1, <2>2, <2>3, ZenonT(60) DEF AccountInv
  <2> QED
    BY <1>1, <2>4, <2>5, ZenonT(60) DEF AccountInv
<1>8. DedupeInv'
  BY <1>1, ZenonT(60) DEF DedupeInv, InProcess
<1> QED
  BY <1>2, <1>3, <1>4, <1>5, <1>6, <1>7, <1>8, Zenon

\* The process dies and starts again from the committed offset.
LEMMA RebootStep ==
    ASSUME IInv, Reboot
    PROVE  IInv'
<1> USE DEF IInv, walVars
<1>1. /\ buf' = {} /\ flushing' = {} /\ parts' = {} /\ wrote' = {} /\ flushCount' = 0
      /\ segs' = {f.name : f \in files} /\ files' = files
      /\ pos' = committed /\ lag' \in {lag, 0}
      /\ cpc' = "select" /\ ret' = "select" /\ idx' = 1 /\ uncommitted' = 0
      /\ cur' = {} /\ prev' = {} /\ ctxDone' = FALSE /\ reboots' = reboots + 1
      /\ UNCHANGED <<walVars, times, abandoned>>
  BY Zenon DEF Reboot, StoreReopen, LocalLag
<1>2. TypeOK'
  <2>1. segs' \in SUBSET Name
    BY <1>1, ZenonT(60) DEF TypeOK, StoreTypeOK, File
  <2>2. lag' \in Nat /\ idx' \in Nat \ {0} /\ reboots' \in Nat /\ flushCount' \in Nat
    BY <1>1 DEF TypeOK
  <2> QED
    BY <1>1, <2>1, <2>2, ZenonT(60) DEF TypeOK, StoreTypeOK, Running
<1>3. PositionInv'
  BY <1>1, Bounds DEF PositionInv, InProcess
<1>4. StampInv'
  BY <1>1, StampKept, Zenon
<1>5. MemoryInv'
  BY <1>1, ZenonT(60) DEF MemoryInv
<1>6. FileInv'
  BY <1>1, SMTT(30) DEF FileInv, ValidRow, Stamp
<1>7. AccountInv'
  <2>1. \A r : Settled(r)' = Settled(r) /\ Safe(r)' = Safe(r)
    BY <1>1, Zenon DEF Settled, Safe
  <2>2. \A o, i : RowOf(o, i)' = RowOf(o, i)
    BY <1>1, ZenonT(60) DEF RowOf
  <2>3. (committed..pos - 1)' = {}
    BY <1>1, Bounds
  <2> QED
    BY <1>1, <2>1, <2>2, <2>3, ZenonT(60) DEF AccountInv
<1>8. DedupeInv'
  BY <1>1, Zenon DEF DedupeInv
<1> QED
  BY <1>2, <1>3, <1>4, <1>5, <1>6, <1>7, <1>8, Zenon

----------------------------------------------------------------------------
(* All steps together.                                                       *)

\* The initial state: an empty log and an empty store.
LEMMA InitIInv ==
    ASSUME Init
    PROVE  IInv
<1> USE DEF Init, StoreInit
<1>1. TypeOK
  <2>1. StoreTypeOK
    BY Zenon DEF StoreTypeOK
  <2>2. log \in Seq(Seq(Event)) /\ times \in [Event -> Nat]
    OBVIOUS
  <2>3. /\ committed \in Nat /\ pos \in Nat /\ lag \in Nat /\ idx \in Nat \ {0}
        /\ uncommitted \in Nat /\ reboots \in Nat
    OBVIOUS
  <2> QED
    BY <2>1, <2>2, <2>3, Zenon DEF TypeOK, Running
<1>2. PositionInv /\ StampInv /\ MemoryInv /\ FileInv /\ DedupeInv
  BY DEF PositionInv, StampInv, MemoryInv, FileInv, DedupeInv, InProcess
<1>3. AccountInv
  BY DEF AccountInv
<1> QED
  BY <1>1, <1>2, <1>3, Zenon DEF IInv

\* Nothing changes.
LEMMA StutterStep ==
    ASSUME IInv, UNCHANGED vars
    PROVE  IInv'
<1>1. UNCHANGED <<buf, flushing, parts, files, flushCount, log, committed,
                  pos, idx, cur, prev, abandoned, cpc, ret>>
  BY Zenon DEF vars, storeVars, walVars, dedupeVars, histVars
<1>2. TypeOK'
  BY Zenon DEF IInv, TypeOK, StoreTypeOK, vars, storeVars, walVars, dedupeVars, histVars
<1> QED
  BY <1>1, <1>2, ControlStep, ZenonT(60) DEF IInv, PositionInv, MemoryInv, InProcess

\* Every step preserves the inductive invariant.
LEMMA NextIInv ==
    ASSUME IInv, DistinctStamps, [Next]_vars
    PROVE  IInv'
<1>1. CASE \E b \in Bodies : Submit(b)
  BY <1>1, SubmitStep, Zenon
<1>2. CASE RefreshLagFromWAL
  BY <1>2, RefreshLagStep, Zenon
<1>3. CASE Cancel \/ SelectDone \/ SelectTick \/ SelectDefault \/ NoRecord
           \/ ReadFails \/ RecordDone \/ BufferFull \/ Retry \/ FlushNothing
           \/ CommitFails \/ IngestReboot
  BY <1>3, ControlActions, Zenon
<1>4. CASE ReadRecord
  BY <1>4, ReadRecordStep, Zenon
<1>5. CASE DropEvent \/ TakeEvent
  BY <1>5, DropEventStep, TakeEventStep, Zenon
<1>6. CASE StoreEvent \/ GiveUp \/ UpsertIssue
  BY <1>6, StoreEventStep, GiveUpStep, UpsertIssueStep, Zenon
<1>7. CASE FlushTake \/ FlushReturn
  BY <1>7, FlushTakeStep, FlushReturnStep, Zenon
<1>8. CASE \E p \in Partition : FlushPart(p) \/ FlushFails(p)
  BY <1>8, FlushPartStep, FlushFailsStep, ZenonT(60)
<1>9. CASE CommitOffset \/ Reboot
  BY <1>9, CommitOffsetStep, RebootStep, Zenon
<1>10. CASE UNCHANGED vars
  BY <1>10, StutterStep, Zenon
<1> QED
  BY <1>1, <1>2, <1>3, <1>4, <1>5, <1>6, <1>7, <1>8, <1>9, <1>10, ZenonT(60)
     DEF Next, Run, Process, Flush

----------------------------------------------------------------------------
\* The inductive invariant holds throughout, for any set of events, any number
\* of records, crashes and failing writes.
THEOREM Invariance ==
    ASSUME DistinctStamps
    PROVE  Spec => []IInv
<1>1. Init => IInv
  BY InitIInv, Zenon
<1>2. IInv /\ [Next]_vars => IInv'
  BY NextIInv, Zenon
<1> QED
  BY <1>1, <1>2, PTL DEF Spec

\* Every variable keeps its type.
THEOREM TypeCorrect ==
    ASSUME DistinctStamps
    PROVE  Spec => []TypeOK
<1>1. IInv => TypeOK
  BY Zenon DEF IInv
<1> QED
  BY <1>1, Invariance, PTL

\* Run never commits past an event that is only in memory.
THEOREM CommitAfterFlush ==
    ASSUME DistinctStamps
    PROVE  Spec => []CommittedStored
<1>1. IInv => CommittedStored
  <2>1. SUFFICES ASSUME IInv, NEW o \in 0..committed - 1, NEW i \in DOMAIN log[o + 1]
                 PROVE  \/ log[o + 1][i] \in Bad \cup StoredEvents
                        \/ RowOf(o, i) \in abandoned
    BY Zenon DEF CommittedStored
  <2>2. RowOf(o, i).ev = log[o + 1][i]
    BY Zenon DEF RowOf
  <2>3. Safe(RowOf(o, i)) => RowOf(o, i).ev \in StoredEvents
    BY Zenon DEF Safe, StoredEvents, StoredRows
  <2> QED
    BY <2>1, <2>2, <2>3, Zenon DEF IInv, AccountInv, Settled
<1> QED
  BY <1>1, Invariance, PTL

\* No later segment replaces the last copy of a committed row.
THEOREM CommittedRowsStay ==
    ASSUME DistinctStamps
    PROVE  Spec => StoredStays
<1>1. ASSUME IInv, [Next]_vars
      PROVE  [\A r \in StoredRows : r.off < committed /\ r \notin abandoned
                                    => r \in StoredRows']_vars
  <2>1. SUFFICES ASSUME NEW r \in StoredRows, r.off < committed, r \notin abandoned
                 PROVE  r \in StoredRows'
    BY Zenon
  <2>2. CASE \E p \in Partition : FlushPart(p)
    <3>1. PICK p \in Partition : FlushPart(p)
      BY <2>2, Zenon
    <3>2. r \in Row /\ ValidRow(r)
      BY <1>1, ZenonT(60) DEF IInv, TypeOK, StoreTypeOK, File, FileInv, StoredRows
    <3>3. r.off \in 0..committed - 1 /\ r.i \in DOMAIN log[r.off + 1] /\ r = RowOf(r.off, r.i)
      BY <1>1, <2>1, <3>2, Bounds DEF ValidRow, Row, RowOf
    <3>4. Safe(r)
      BY <1>1, <2>1, <3>2, <3>3, ZenonT(60) DEF IInv, AccountInv, Settled, ValidRow
    <3> QED
      BY <1>1, <3>1, <3>4, WriteSegmentFacts, Zenon DEF Safe, StoredRows
  <2>3. CASE files' = files
    BY <2>3, Zenon DEF StoredRows
  <2>4. files' = files \/ \E p \in Partition : FlushPart(p)
    BY <1>1, Zenon DEF Next, Run, Process, Flush, vars, storeVars, Submit, RefreshLagFromWAL,
       Cancel, SelectDone, SelectTick, SelectDefault, ReadRecord, NoRecord, ReadFails,
       RecordDone, DropEvent, TakeEvent, StoreEvent, StoreAppend, BufferFull, Retry,
       GiveUp, UpsertIssue, FlushNothing, FlushTake, FlushBegin, FlushReturn, FlushEnd,
       FlushFails, WriteSegmentFails, CommitOffset, CommitFails, Reboot, StoreReopen,
       IngestReboot
  <2> QED
    BY <2>2, <2>3, <2>4, Zenon
<1> QED
  BY <1>1, Invariance, PTL DEF Spec, StoredStays

\* The committed offset never passes an event that has not been counted on its
\* issue: for any events and records, sent and resent in any order, and any
\* number of crashes, full buffers, failed flushes and failed commits.
THEOREM CommitAfterCount == Spec => []CommittedCounted
<1>1. CASE NoFault
  <2>1. Init => CountInv
    BY DEF Init, CountInv, CountType, CountPosition, ReadCounted, SeenCounted, InProcess, InHand
  <2>2. CountInv /\ [Next]_vars => CountInv'
    BY <1>1, NextCounts, Zenon
  <2>3. CountInv => CommittedCounted
    <3>1. SUFFICES ASSUME CountInv, NEW o \in 0..committed - 1, NEW i \in DOMAIN log[o + 1]
                   PROVE  Counted(log[o + 1][i])
      BY Zenon DEF CommittedCounted, Counted
    <3>2. o \in 0..pos - 1 /\ ~Pending(o, i)
      BY <3>1, CountBounds DEF CountInv, CountPosition, Pending
    <3> QED
      BY <3>1, <3>2, Zenon DEF CountInv, ReadCounted
  <2> QED
    BY <2>1, <2>2, <2>3, PTL DEF Spec
<1>2. CASE ~NoFault
  <2>1. CommittedCounted
    BY <1>2, Zenon DEF CommittedCounted, NoFault
  <2> QED
    BY <2>1, PTL
<1> QED
  BY <1>1, <1>2, Zenon
====
