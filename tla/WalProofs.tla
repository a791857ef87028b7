---- MODULE WalProofs ----
(***************************************************************************)
(* The log of internal/wal, for any number of callers, records, segments   *)
(* and crashes: what retention leaves, its recovery, what it delivers, and *)
(* that it implements DurableLog.                                          *)
(***************************************************************************)
EXTENDS WalSteps

USE SMTT(30), Zenon

----------------------------------------------------------------------------
(* The first file, for all constants.                                        *)

\* The files keep their number and their bases, and what was synced once.
SameFiles ==
    /\ Len(files') = Len(files)
    /\ \A i \in 1..Len(files) : /\ files'[i].base = files[i].base
                                /\ files[i].synced >= 0 => files'[i].synced >= 0

\* Replacing one file by another with the same base.
LEMMA PutSame ==
    ASSUME TypeOK, NEW i \in 1..Len(files), NEW g, files' = Put(files, i, g),
           g.base = files[i].base, files[i].synced >= 0 => g.synced >= 0
    PROVE  SameFiles
<1>1. files \in Seq(Segment) /\ DOMAIN files = 1..Len(files) /\ Len(files) \in Nat
  BY LogTypes, Zenon
<1>2. Len(files') = Len(files)
  BY <1>1 DEF Put
<1>3. \A j \in 1..Len(files) : files'[j] = IF j = i THEN g ELSE files[j]
  BY <1>1, Zenon DEF Put
<1> QED BY <1>2, <1>3, Zenon DEF SameFiles

\* A step that moves no file and no segment, and does not lower the committed offset.
LEMMA FirstKept ==
    ASSUME BaseInv, FirstInv, SameFiles, BaseInv', committed <= committed',
           up' = "up" => /\ up = "up" /\ Len(segs') = Len(segs)
                         /\ \A i \in 1..Len(segs) : segs'[i].base = segs[i].base
                         /\ handle' => handle
                         /\ wpc' = "roll" => wpc = "roll" /\ next' = next
    PROVE  FirstInv'
<1>1. /\ files \in Seq(Segment) /\ Len(files) \in Nat /\ files' \in Seq(Segment) /\ Len(segs) \in Nat
      /\ committed \in Nat /\ committed' \in Nat
  BY LogTypes, Zenon DEF BaseInv, TypeOK
<1>2. Len(files') = Len(files)
  BY Zenon DEF SameFiles
<1>3. \A i \in 1..Len(files') - 1 : files'[i].synced >= 0
  <2> SUFFICES ASSUME NEW i \in 1..Len(files) - 1 PROVE files'[i].synced >= 0
    BY <1>2, Zenon
  <2>1. i \in 1..Len(files)
    BY <1>1
  <2> QED BY <2>1, Zenon DEF FirstInv, SameFiles
<1>4. files' # <<>> => files'[1].base <= committed'
  <2> SUFFICES ASSUME files' # <<>> PROVE files'[1].base <= committed'
    BY Zenon
  <2>1. files # <<>> /\ 1 \in 1..Len(files)
    BY <1>1, <1>2
  <2>2. files'[1].base = files[1].base /\ files[1].base <= committed
    BY <2>1, Zenon DEF FirstInv, SameFiles
  <2>3. files[1].base \in Nat
    BY <1>1, <2>1, SegTypes, Zenon
  <2>4. \A a, b, d \in Nat : a <= b /\ b <= d => a <= d
    OBVIOUS
  <2> QED BY <1>1, <2>2, <2>3, <2>4, Zenon
<1>5. ASSUME up' = "up"
      PROVE  /\ \A i \in 1..Len(segs') : segs'[i].base = files'[i].base
             /\ handle' => Len(files') = Len(segs')
             /\ wpc' = "roll" => /\ Len(files') = Len(segs') + 1 /\ ~handle'
                                 /\ LastOf(files').base = next'
  <2>1. up = "up" /\ Len(segs') = Len(segs) /\ Len(segs) <= Len(files) /\ files # <<>>
    <3>1. up = "up" /\ Len(segs') = Len(segs) /\ Len(segs) <= Len(files) /\ segs # <<>>
      BY <1>5, Zenon DEF BaseInv, OffsetInv
    <3> QED BY <1>1, <3>1, LogTypes DEF BaseInv
  <2>2. \A i \in 1..Len(segs) : i \in 1..Len(files)
    BY <1>1, <2>1
  <2>3. Len(files) \in 1..Len(files)
    BY <1>1, <2>1
  <2>4. LastOf(files').base = LastOf(files).base
    BY <1>2, <2>3, Zenon DEF SameFiles, LastOf
  <2> QED BY <1>2, <1>5, <2>1, <2>2, <2>4, Zenon DEF FirstInv, SameFiles
<1> QED BY <1>3, <1>4, <1>5, Zenon DEF FirstInv

\* An fsync, a write and a header keep the file's base.
LEMMA LastSame ==
    ASSUME TypeOK, files # <<>>,
           \/ files' = files
           \/ files' = SyncLast
           \/ files' = WithLast(files, Headed(LastOf(files)))
           \/ \E rs : files' = WithLast(files, Wrote(LastOf(files), rs))
    PROVE  SameFiles
<1> DEFINE n == Len(files)
           f == LastOf(files)
<1>1. n \in 1..n /\ f = files[n] /\ f \in Segment
  BY LogTypes DEF LastOf
<1>2. /\ Headed(f).base = f.base /\ Headed(f).synced = f.synced
      /\ \A rs : Wrote(f, rs).base = f.base /\ Wrote(f, rs).synced = f.synced
      /\ Synced(f).base = f.base /\ Synced(f).synced = Len(f.recs)
  BY <1>1, Zenon DEF Headed, Wrote, Synced, Segment
<1>3. Synced(f).synced >= 0
  BY <1>1, <1>2, ValidFacts
<1>4. \A g : WithLast(files, g) = Put(files, n, g)
  BY Zenon DEF WithLast, Put
<1>5. SyncLast = WithLast(files, Synced(f))
  BY SyncLastFacts, Zenon
<1>6. CASE files' = files
  BY <1>6, Zenon DEF SameFiles
<1>7. ASSUME NEW g, files' = WithLast(files, g), g.base = f.base, f.synced >= 0 => g.synced >= 0
      PROVE  SameFiles
  <2>1. files' = Put(files, n, g) /\ g.base = files[n].base /\ (files[n].synced >= 0 => g.synced >= 0)
    BY <1>1, <1>4, <1>7, Zenon
  <2> QED BY <1>1, <2>1, PutSame, Zenon
<1> QED BY <1>2, <1>3, <1>5, <1>6, <1>7, Zenon

\* The steps of callers, of the writer but roll, and of the consumer but Retain.
LEMMA FirstSteps ==
    ASSUME BaseInv, FirstInv,
           \/ \E c \in Client : AppendCall(c)
           \/ Take \/ Collect \/ CollectEnd \/ Close
           \/ WriteFails \/ RollFails \/ HandleClosed \/ Sync \/ SyncSkipped \/ SyncFails
           \/ WriteRecord \/ Quit \/ ReadNext \/ Commit \/ Kill \/ OpenRefused
    PROVE  FirstInv'
<1>1. BaseInv' /\ TypeOK
  BY BaseStep, Zenon DEF BaseInv, Next, Writer, Open
<1>2. committed \in Nat /\ committed <= committed
  BY <1>1 DEF TypeOK
<1>3. up = "up" => files # <<>>
  <2>1. up = "up" => Len(segs) <= Len(files) /\ segs # <<>>
    BY Zenon DEF BaseInv, OffsetInv
  <2> QED BY <1>1, <2>1, LogTypes
<1>4. CASE (\E c \in Client : AppendCall(c)) \/ Take \/ Collect \/ CollectEnd \/ Close
  <2>1. up = "up" /\ UNCHANGED <<files, committed, up, segs, next, handle>>
    BY <1>4, QuietSteps, Zenon
  <2>2. wpc' = "roll" => wpc = "roll"
    BY <1>4, Zenon DEF AppendCall, CheckClosed, Send, Receive, WriterGone, ContextDone, CallOnly,
           Take, Collect, CollectEnd, Close, writerVars
  <2>3. SameFiles
    BY <2>1, Zenon DEF SameFiles
  <2> QED BY <1>1, <1>2, <2>1, <2>2, <2>3, FirstKept, Zenon
<1>5. CASE WriteFails \/ RollFails \/ HandleClosed \/ Sync \/ SyncSkipped \/ SyncFails
  <2>1. /\ up = "up" /\ UNCHANGED <<committed, up, segs, next>> /\ wpc' = "idle"
        /\ handle' => handle
    <3>1. up = "up" /\ UNCHANGED <<segs, next>> /\ (handle' => handle)
      <4>1. CASE RollFails
        <5>1. up = "up" /\ UNCHANGED <<segs, next>> /\ (handle' = handle \/ handle' = FALSE)
          BY <4>1, Zenon DEF RollFails, Writing
        <5>2. handle \in BOOLEAN
          BY <1>1, Zenon DEF TypeOK
        <5> QED BY <5>1, <5>2, SMT
      <4>2. CASE WriteFails \/ HandleClosed \/ Sync \/ SyncSkipped \/ SyncFails
        <5>1. up = "up" /\ UNCHANGED logVars
          BY <4>2, Zenon DEF WriteFails, HandleClosed, Sync, SyncSkipped, SyncFails, Writing, Written
        <5> QED BY <5>1, Zenon DEF logVars
      <4> QED BY <1>5, <4>1, <4>2, Zenon
    <3>2. AnswerError \/ (Written /\ AnswerOffsets)
      BY <1>5, Zenon DEF WriteFails, RollFails, HandleClosed, Sync, SyncSkipped, SyncFails
    <3> QED BY <1>1, <3>1, <3>2, ErrorAnswered, OffsetsAnswered, Zenon
  <2>2. SameFiles
    <3>1. Torn \in Client \cup {Torn}
      OBVIOUS
    <3>2. CASE WriteFails
      <4>1. \/ files' = files
            \/ files' = WithLast(files, Wrote(LastOf(files), <<Torn>>))
        BY <1>1, <1>3, <2>1, <3>1, <3>2, WriteToFacts, WriteNothing, Zenon DEF WriteFails
      <4> QED BY <1>1, <1>3, <2>1, <4>1, LastSame, Zenon
    <3>3. CASE RollFails \/ HandleClosed \/ Sync \/ SyncSkipped \/ SyncFails
      <4>1. files' = files \/ files' = SyncLast
        BY <3>3, Zenon DEF RollFails, HandleClosed, Sync, SyncSkipped, SyncFails
      <4> QED BY <1>1, <1>3, <2>1, <4>1, LastSame, Zenon
    <3> QED BY <1>5, <3>2, <3>3, Zenon
  <2>3. wpc' # "roll"
    BY <2>1, Zenon
  <2> QED BY <1>1, <1>2, <2>1, <2>2, <2>3, FirstKept, Zenon
<1>6. CASE WriteRecord
  <2> DEFINE m == [base |-> LastOf(segs).base, records |-> LastOf(segs).records + 1]
  <2>1. /\ files # <<>> /\ segs # <<>>
        /\ files' = WithLast(files, Wrote(LastOf(files), <<batch[written + 1]>>))
        /\ segs' = WithLast(segs, m)
    BY <1>6, WriteStep, Zenon
  <2>2. up = "up" /\ UNCHANGED <<committed, up, handle, wpc>> /\ wpc # "roll"
    BY <1>6, Zenon DEF WriteRecord, Writing
  <2>3. SameFiles
    BY <1>1, <2>1, LastSame, Zenon
  <2>4. segs \in Seq(SegMeta) /\ LastOf(segs) \in SegMeta
    BY <1>1, <2>1, LogTypes, Zenon
  <2>5. m \in SegMeta /\ m.base = LastOf(segs).base
    BY <2>4 DEF SegMeta
  <2> HIDE DEF m
  <2>6. /\ Len(segs') = Len(segs) /\ LastOf(segs') = m
        /\ \A i \in 1..Len(segs) : i # Len(segs) => segs'[i] = segs[i]
    BY <2>1, <2>4, <2>5, WithLastFacts, Zenon
  <2>7. \A i \in 1..Len(segs) : segs'[i].base = segs[i].base
    BY <2>5, <2>6, Zenon DEF LastOf
  <2> QED BY <1>1, <1>2, <2>2, <2>3, <2>6, <2>7, FirstKept, Zenon
<1>7. CASE Quit
  <2>1. /\ up = "up" /\ UNCHANGED <<committed, up, segs, next>> /\ wpc' # "roll" /\ ~handle'
        /\ files' = files \/ files' = SyncLast
    BY <1>7, Zenon DEF Quit
  <2>2. SameFiles
    BY <1>1, <1>3, <2>1, LastSame, Zenon
  <2> QED BY <1>1, <1>2, <2>1, <2>2, FirstKept, Zenon
<1>8. CASE ReadNext \/ Commit
  <2>1. up = "up" /\ UNCHANGED <<files, up, segs, next, handle, wpc>> /\ committed' \in {committed, pos}
    BY <1>8, Zenon DEF ReadNext, Commit, diskVars, logVars, writerVars
  <2>2. committed <= committed'
    BY <1>2, <2>1, Zenon DEF BaseInv, OffsetInv
  <2>3. SameFiles
    BY <2>1, Zenon DEF SameFiles
  <2> QED BY <1>1, <2>1, <2>2, <2>3, FirstKept, Zenon
<1>9. CASE Kill
  <2>1. /\ files # <<>> /\ up' = "down"
        /\ files' = files \/ files' = WithLast(files, Wrote(LastOf(files), <<Torn>>))
    BY <1>9, KillStep, Zenon
  <2>2. committed' = committed /\ up' # "up"
    BY <1>9, <2>1, Zenon DEF Kill, Down
  <2>3. SameFiles
    BY <1>1, <2>1, LastSame, Zenon
  <2> QED BY <1>1, <1>2, <2>2, <2>3, FirstKept, Zenon
<1>10. CASE OpenRefused
  <2>1. files' = files /\ committed' = committed /\ up' # "up"
    BY <1>10, Zenon DEF OpenRefused, diskVars
  <2>2. SameFiles
    BY <2>1, Zenon DEF SameFiles
  <2> QED BY <1>1, <1>2, <2>1, <2>2, FirstKept, Zenon
<1> QED BY <1>4, <1>5, <1>6, <1>7, <1>8, <1>9, <1>10, Zenon

\* roll: the sealed file is synced, and the next one starts at the head of the log.
LEMMA FirstRollCreate ==
    ASSUME BaseInv, FirstInv, RollCreate
    PROVE  FirstInv'
<1> DEFINE n == Len(files)
           q == SyncLast
           g == NewSegment(next, FALSE)
<1>1. /\ up = "up" /\ up' = "up" /\ handle /\ handle' = FALSE /\ wpc' = "roll"
      /\ UNCHANGED <<committed, segs, next>> /\ files' = Append(q, g) /\ TypeOK
  BY Zenon DEF RollCreate, Writing, BaseInv
<1>2. /\ files # <<>> /\ next \in Nat /\ q = WithLast(files, Synced(LastOf(files)))
      /\ q \in Seq(Segment) /\ Len(q) = n /\ n \in Nat
  BY RollCreateStep, Zenon
<1>3. files \in Seq(Segment) /\ LastOf(files) \in Segment /\ n \in 1..n /\ 1 \in 1..n
  BY <1>1, <1>2, LogTypes
<1>4. g \in Segment /\ g.base = next
  BY <1>2 DEF NewSegment, Segment
<1>5. /\ Synced(LastOf(files)) \in Segment /\ Synced(LastOf(files)).base = LastOf(files).base
      /\ Synced(LastOf(files)).synced = Len(LastOf(files).recs)
  BY <1>3, SyncedFacts, Zenon DEF Synced, Segment
<1>6. Synced(LastOf(files)).synced >= 0
  BY <1>3, <1>5, ValidFacts
<1>7. LastOf(q) = Synced(LastOf(files)) /\ \A i \in 1..n : i # n => q[i] = files[i]
  BY <1>2, <1>3, <1>5, WithLastFacts, Zenon
<1>8. \A i \in 1..n : q[i].base = files[i].base /\ q[i].synced >= 0
  <2> SUFFICES ASSUME NEW i \in 1..n PROVE q[i].base = files[i].base /\ q[i].synced >= 0
    BY Zenon
  <2>1. CASE i = n
    BY <1>2, <1>5, <1>6, <1>7, <2>1, Zenon DEF LastOf
  <2>2. CASE i # n
    <3>1. i \in 1..n - 1
      BY <1>2, <2>2
    <3> QED BY <1>7, <2>2, <3>1, Zenon DEF FirstInv
  <2> QED BY <2>1, <2>2, Zenon
<1> HIDE DEF q, g
<1>9. /\ Len(files') = n + 1 /\ files' # <<>> /\ LastOf(files') = g
      /\ \A i \in 1..n : files'[i] = q[i]
  <2>1. /\ Len(files') = Len(q) + 1 /\ files' # <<>> /\ LastOf(files') = g
        /\ \A i \in 1..Len(q) : files'[i] = q[i]
    BY <1>1, <1>2, <1>4, AppendFacts
  <2> QED BY <1>2, <2>1, Zenon
<1>10. \A i \in 1..Len(files') - 1 : files'[i].synced >= 0
  <2>1. Len(files') - 1 = n
    BY <1>2, <1>9
  <2> QED BY <1>8, <1>9, <2>1, Zenon
<1>11. files'[1].base <= committed'
  BY <1>1, <1>2, <1>3, <1>8, <1>9, Zenon DEF FirstInv
<1>12. Len(segs) = n /\ \A i \in 1..Len(segs) : segs[i].base = files[i].base
  BY <1>1, Zenon DEF FirstInv
<1> QED BY <1>1, <1>4, <1>8, <1>9, <1>10, <1>11, <1>12, Zenon DEF FirstInv

\* roll: the segment in memory gets the base of the file.
LEMMA FirstRollHeader ==
    ASSUME BaseInv, FirstInv, RollHeader
    PROVE  FirstInv'
<1> DEFINE n == Len(segs)
<1>1. /\ up = "up" /\ up' = "up" /\ wpc = "roll" /\ handle' = TRUE /\ wpc' = "write"
      /\ UNCHANGED <<committed, next>> /\ TypeOK
  BY Zenon DEF RollHeader, BaseInv
<1>2. /\ files # <<>> /\ files' = WithLast(files, Headed(LastOf(files)))
      /\ files' \in Seq(Segment) /\ Len(files') = Len(files)
      /\ Len(segs') = n + 1 /\ segs'[n + 1] = [base |-> next, records |-> 0]
      /\ \A i \in 1..n : segs'[i] = segs[i]
  BY RollHeaderStep, Zenon
<1>3. SameFiles
  BY <1>1, <1>2, LastSame, Zenon
<1>4. n \in Nat /\ Len(files) = n + 1 /\ LastOf(files).base = next /\ \A i \in 1..n : segs[i].base = files[i].base
  BY <1>1, LogTypes, Zenon DEF FirstInv
<1>5. \A i \in 1..n + 1 : (i = n + 1 \/ i \in 1..n) /\ (i \in 1..n => i \in 1..Len(files))
  BY <1>4
<1>6. n + 1 \in 1..Len(files) /\ 1 \in 1..Len(files)
  BY <1>4
<1>7. \A i \in 1..Len(segs') : segs'[i].base = files'[i].base
  <2> SUFFICES ASSUME NEW i \in 1..n + 1 PROVE segs'[i].base = files'[i].base
    BY <1>2, Zenon
  <2>1. CASE i = n + 1
    <3>1. segs'[n + 1].base = next
      <4>1. \A x, y : [base |-> x, records |-> y].base = x
        BY Zenon
      <4> QED BY <1>2, <4>1, Zenon
    <3>2. files'[n + 1].base = files[n + 1].base /\ files[n + 1].base = next
      BY <1>3, <1>4, <1>6, Zenon DEF SameFiles, LastOf
    <3> QED BY <2>1, <3>1, <3>2, Zenon
  <2>2. CASE i \in 1..n
    BY <1>2, <1>3, <1>4, <1>5, <2>2, Zenon DEF SameFiles
  <2> QED BY <1>5, <2>1, <2>2, Zenon
<1>8. \A i \in 1..Len(files') - 1 : files'[i].synced >= 0
  <2> SUFFICES ASSUME NEW i \in 1..Len(files) - 1 PROVE files'[i].synced >= 0
    BY <1>2, Zenon
  <2>1. i \in 1..Len(files)
    BY <1>4
  <2> QED BY <1>3, <2>1, Zenon DEF FirstInv, SameFiles
<1>9. files'[1].base <= committed'
  BY <1>1, <1>2, <1>3, <1>6, Zenon DEF FirstInv, SameFiles
<1> QED BY <1>1, <1>2, <1>4, <1>7, <1>8, <1>9, Zenon DEF FirstInv

\* Retention: the file that is then the first starts where the last one removed
\* ended, at or below the committed offset.
LEMMA FirstRetain ==
    ASSUME BaseInv, FirstInv, Retain
    PROVE  FirstInv'
<1>1. /\ up = "up" /\ UNCHANGED <<committed, up, next, handle, wpc>> /\ TypeOK
      /\ Len(segs) <= Len(files)
  BY RetainStep, Zenon DEF BaseInv
<1>2. PICK k \in 1..Len(segs) - 1 :
          /\ \A i \in 1..k : End(segs[i]) <= committed
          /\ segs' = SubSeq(segs, k + 1, Len(segs))
          /\ files' = SubSeq(files, k + 1, Len(files))
  BY Zenon DEF Retain
<1>3. /\ segs \in Seq(SegMeta) /\ files \in Seq(Segment) /\ Len(segs) \in Nat /\ Len(files) \in Nat
  BY <1>1, LogTypes, Zenon
<1>4. k \in Nat /\ k < Len(segs) /\ k < Len(files) /\ k \in 1..k
  BY <1>1, <1>3
<1> DEFINE m == Len(segs) - k
           n == Len(files) - k
<1>5. Len(segs') = m /\ \A i \in 1..m : segs'[i] = segs[i + k]
  BY <1>2, <1>3, <1>4, RestFacts, Zenon
<1>6. Len(files') = n /\ \A i \in 1..n : files'[i] = files[i + k]
  BY <1>2, <1>3, <1>4, RestFacts, Zenon
<1>7. /\ m \in Nat /\ n \in Nat /\ 1 \in 1..n /\ n \in 1..n /\ m <= n /\ n + k = Len(files) /\ 1 + k = k + 1
      /\ Len(files) = Len(segs) => n = m
      /\ Len(files) = Len(segs) + 1 => n = m + 1
      /\ \A i \in 1..m : i + k \in 1..Len(segs) /\ i \in 1..n
      /\ \A i \in 1..n - 1 : i \in 1..n /\ i + k \in 1..Len(files) - 1
      /\ k + 1 \in 1..Len(segs)
  BY <1>1, <1>3, <1>4
<1> HIDE DEF m, n
<1>8. \A i \in 1..Len(files') - 1 : files'[i].synced >= 0
  BY <1>6, <1>7, Zenon DEF FirstInv
<1>9. files'[1].base <= committed'
  <2>1. End(segs[k]) = segs[k + 1].base /\ segs[k + 1].base = files[k + 1].base
    BY <1>1, <1>7, Zenon DEF BaseInv, OffsetInv, FirstInv
  <2> QED BY <1>1, <1>2, <1>4, <1>6, <1>7, <2>1, Zenon
<1>10. \A i \in 1..Len(segs') : segs'[i].base = files'[i].base
  BY <1>1, <1>5, <1>6, <1>7, Zenon DEF FirstInv
<1>11. LastOf(files') = LastOf(files)
  BY <1>6, <1>7, Zenon DEF LastOf
<1>12. /\ handle' => Len(files') = Len(segs')
       /\ wpc' = "roll" => Len(files') = Len(segs') + 1 /\ ~handle' /\ LastOf(files').base = next'
  BY <1>1, <1>5, <1>6, <1>7, <1>11, Zenon DEF FirstInv
<1> QED BY <1>8, <1>9, <1>10, <1>12, Zenon DEF FirstInv

\* A loss of power takes the last file or none.
LEMMA FirstLosePower ==
    ASSUME BaseInv, FirstInv, LosePower
    PROVE  FirstInv'
<1>1. BaseInv' /\ up' # "up" /\ committed' = committed /\ TypeOK /\ committed \in Nat
  BY LosePowerStep, Zenon DEF LosePower, Down, BaseInv, TypeOK
<1>2. PICK i \in DOMAIN files : \E u \in Survivors(files[i]) :
           files' = SubSeq(files, 1, i - 1) \o u \o SubSeq(files, i + 1, Len(files))
  BY Zenon DEF LosePower
<1>3. PICK u \in Survivors(files[i]) :
           files' = SubSeq(files, 1, i - 1) \o u \o SubSeq(files, i + 1, Len(files))
  BY <1>2, Zenon
<1>4. files \in Seq(Segment) /\ Len(files) \in Nat /\ i \in 1..Len(files) /\ files # <<>>
  BY <1>1, <1>2, LogTypes
<1>5. files[i] \in Segment
  BY <1>4, SegTypes, Zenon
<1>6. committed <= committed'
  BY <1>1
<1>7. ASSUME NEW g \in Segment, u = <<g>>, g.base = files[i].base, files[i].synced >= 0 => g.synced >= 0
      PROVE  FirstInv'
  <2>1. files' = Put(files, i, g)
    BY <1>3, <1>4, <1>7, Spliced, Zenon
  <2>2. SameFiles
    BY <1>1, <1>4, <1>7, <2>1, PutSame, Zenon
  <2> QED BY <1>1, <1>6, <2>2, FirstKept, Zenon
<1>8. ASSUME NEW k \in Nat, NEW tail \in {<<>>, <<Torn>>}, u = <<Part(files[i], k, tail)>>
      PROVE  FirstInv'
  <2> DEFINE g == Part(files[i], k, tail)
  <2>1. g.base = files[i].base /\ g.synced = k /\ k >= 0
    BY <1>5 DEF Part, Segment
  <2>2. g \in Segment
    <3>1. u \in Seq(Segment)
      BY <1>5, SurvivorTypes, Zenon
    <3>2. u[1] = g /\ Len(u) = 1
      BY <1>8
    <3> QED BY <3>1, <3>2
  <2> HIDE DEF g
  <2> QED BY <1>7, <1>8, <2>1, <2>2, Zenon DEF g
<1>9. ASSUME files[i].synced < 0, u = <<NewSegment(files[i].base, FALSE)>>
      PROVE  FirstInv'
  <2> DEFINE g == NewSegment(files[i].base, FALSE)
  <2>1. g \in Segment /\ g.base = files[i].base
    BY <1>5 DEF NewSegment, Segment
  <2>2. ~(files[i].synced >= 0)
    BY <1>5, <1>9 DEF Segment
  <2> HIDE DEF g
  <2> QED BY <1>7, <1>9, <2>1, <2>2, Zenon DEF g
<1>10. ASSUME files[i].synced < 0, u = <<>>
       PROVE  FirstInv'
  <2> DEFINE n == Len(files) - 1
  <2>1. i = Len(files)
    <3>1. ~(files[i].synced >= 0)
      BY <1>5, <1>10 DEF Segment
    <3>2. i # Len(files) => i \in 1..Len(files) - 1
      BY <1>4
    <3> QED BY <3>1, <3>2, Zenon DEF FirstInv
  <2>2. files' = SubSeq(files, 1, n)
    <3>1. files[i] \in Segment
      BY <1>5
    <3> QED BY <1>3, <1>4, <1>10, <2>1, <3>1, Spliced, Zenon
  <2>3. files' \in Seq(Segment) /\ Len(files') = n /\ \A j \in 1..n : files'[j] = files[j]
    BY <1>4, <2>2, FrontFacts, Zenon
  <2>4. \A j \in 1..n - 1 : j \in 1..n
    BY <1>4
  <2>5. files' # <<>> => 1 \in 1..n
    BY <1>4, <2>3
  <2> QED BY <1>1, <1>4, <2>3, <2>4, <2>5, Zenon DEF FirstInv
<1> QED BY <1>3, <1>5, <1>8, <1>9, <1>10, SurvivorFacts, Zenon

\* Open: the segments it finds start where their files do.
LEMMA FirstOpen ==
    ASSUME BaseInv, FirstInv, OpenEmpty \/ OpenExisting
    PROVE  FirstInv'
<1>1. TypeOK /\ committed \in Nat /\ 0 <= committed
  BY DEF BaseInv, TypeOK
<1>2. Started /\ up' = "up" /\ committed' = committed /\ wpc' = "idle"
  BY Zenon DEF OpenEmpty, OpenExisting, Started
<1>3. CASE OpenEmpty
  <2> DEFINE g == NewSegment(0, TRUE)
             m == [base |-> 0, records |-> 0]
  <2>1. files' = <<g>> /\ segs' = <<m>>
    BY <1>3, Zenon DEF OpenEmpty
  <2>2. g \in Segment /\ g.base = 0 /\ m \in SegMeta /\ m.base = 0
    BY DEF NewSegment, Segment, SegMeta
  <2> HIDE DEF g, m
  <2>3. Len(files') = 1 /\ files'[1] = g /\ Len(segs') = 1 /\ segs'[1] = m
    BY <2>1, <2>2, SingleFacts, Zenon
  <2>4. (\A i \in 1..1 : i = 1) /\ 1..1 - 1 = {}
    OBVIOUS
  <2> QED BY <1>1, <1>2, <2>2, <2>3, <2>4, Zenon DEF FirstInv
<1>4. CASE OpenExisting
  <2> DEFINE n == Len(Listed)
             f == LastOf(Listed)
  <2>1. Listed # <<>> /\ files' = Truncated /\ segs' = Scanned
    BY <1>4, Zenon DEF OpenExisting
  <2>2. /\ Listed \in Seq(Segment) /\ n \in Nat /\ f \in Segment /\ n \in 1..n
        /\ \A i \in 1..n : i \in 1..Len(files) /\ Listed[i] = files[i]
    BY <1>1, <2>1, ListedFacts, Zenon
  <2>3. files' = WithLast(Listed, Cut(f)) /\ Len(files') = n
    BY <1>1, <2>1, TruncatedFacts, Zenon
  <2>4. Cut(f) \in Segment /\ Cut(f).base = f.base
    BY <2>2, CutFacts, Zenon DEF Cut, Segment
  <2>5. LastOf(files') = Cut(f) /\ \A i \in 1..n : i # n => files'[i] = files[i]
    BY <2>1, <2>2, <2>3, <2>4, WithLastFacts, Zenon
  <2>6. Len(segs') = n /\ \A i \in 1..n : segs'[i].base = files[i].base
    BY <1>1, <2>1, ScannedFacts, Zenon
  <2>7. \A i \in 1..n : files'[i].base = files[i].base
    BY <2>2, <2>3, <2>4, <2>5, Zenon DEF LastOf
  <2>8. \A i \in 1..n - 1 : i \in 1..n /\ i # n /\ i \in 1..Len(files) - 1
    <3>1. n \in 1..Len(files) /\ Len(files) \in Nat
      BY <1>1, <2>2, LogTypes, Zenon
    <3> QED BY <2>2, <3>1
  <2>9. 1 \in 1..n /\ files # <<>>
    <3>1. n \in 1..Len(files) /\ files \in Seq(Segment)
      BY <1>1, <2>2, LogTypes, Zenon
    <3> QED BY <2>2, <3>1
  <2> HIDE DEF n
  <2> QED BY <1>2, <2>3, <2>5, <2>6, <2>7, <2>8, <2>9, Zenon DEF FirstInv
<1> QED BY <1>3, <1>4, Zenon

\* Every step keeps the first file at or below the committed offset.
LEMMA FirstStep == BaseInv /\ FirstInv /\ [Next]_vars => FirstInv'
<1> SUFFICES ASSUME BaseInv, FirstInv, [Next]_vars PROVE FirstInv'
  BY Zenon
<1>1. CASE UNCHANGED vars
  <2>1. UNCHANGED <<files, committed, up, segs, next, handle, wpc>>
    BY <1>1, Zenon DEF vars, diskVars, logVars, writerVars
  <2> QED BY <2>1, Zenon DEF FirstInv
<1>2. CASE OpenEmpty \/ OpenExisting \/ RollCreate \/ RollHeader \/ Retain \/ LosePower
  BY <1>2, FirstOpen, FirstRollCreate, FirstRollHeader, FirstRetain, FirstLosePower, Zenon
<1> QED BY <1>1, <1>2, FirstSteps, ZenonT(60) DEF Next, Writer, Open

\* While the log is open, its oldest segment starts at or below the committed
\* offset, so that no retention, crash or loss of power removes a record that was
\* not committed, and the reader is at or above that offset (Retain, OpenReader);
\* for every policy, fault and number of crashes.
THEOREM NotOvertaken == Spec => []NeverOvertaken
<1>1. Init => FirstInv
  <2>1. Init => Len(files) = 0
    BY DEF Init
  <2> QED BY <2>1 DEF Init, FirstInv
<1>2. BaseInv /\ FirstInv => NeverOvertaken
  <2> SUFFICES ASSUME BaseInv, FirstInv, up = "up" PROVE segs[1].base <= committed /\ committed <= pos
    BY Zenon DEF NeverOvertaken
  <2>1. segs # <<>> /\ Len(segs) <= Len(files) /\ committed <= pos
    BY Zenon DEF BaseInv, OffsetInv
  <2>2. 1 \in 1..Len(segs) /\ files # <<>>
    BY <2>1, LogTypes DEF BaseInv
  <2> QED BY <2>1, <2>2, Zenon DEF FirstInv
<1> QED BY <1>1, <1>2, FirstStep, BaseInvariance, PTL DEF Spec

----------------------------------------------------------------------------
(* The other steps on the files.                                            *)

\* A failed write leaves the records before it where they are.
LEMMA WriteFailsDisk ==
    ASSUME BaseInv, DiskInv, WriteFails
    PROVE  DiskInv' /\ Kept(files, files') /\ files' # <<>> /\ files'[1].base = files[1].base
<1>1. /\ up = "up" /\ up' = "up" /\ wpc' = "idle" /\ UNCHANGED <<segs, next, handle>> /\ TypeOK
      /\ Writing /\ handle /\ WriteFaults
  BY Zenon DEF WriteFails, Writing, AnswerError, Answer, logVars, BaseInv
<1>2. MatchWriter'
  BY <1>1, ZenonT(60) DEF MatchWriter
<1>3. /\ files \in Seq(Segment) /\ files # <<>> /\ Len(segs) = Len(files) /\ Len(files) \in Nat
      /\ Len(files) \in 1..Len(files) /\ MatchFiles
  <2>1. /\ files \in Seq(Segment) /\ files # <<>> /\ Len(segs) = Len(files) /\ Len(files) \in Nat
        /\ 1 <= Len(files)
    BY <1>1, LastMatched, ZenonT(60)
  <2> QED BY <1>1, <2>1 DEF DiskInv
<1>4. CASE WriteTo(<<>>)
  <2>1. files' = files
    BY <1>1, <1>3, <1>4, WriteNothing, ZenonT(60)
  <2> QED BY <1>1, <1>2, <1>3, <2>1, FilesSame, ZenonT(60)
<1>5. CASE WriteTo(<<Torn>>)
  <2>1. files' = WithLast(files, Wrote(LastOf(files), <<Torn>>))
    BY <1>1, <1>3, <1>5, WriteToFacts, ZenonT(60)
  <2>2. /\ Shape(files') /\ Kept(files, files')
        /\ Len(files') = Len(files) /\ files' # <<>> /\ files'[1].base = files[1].base
        /\ LastOf(files').hdr /\ LastOf(files').base = LastOf(files).base
        /\ Valid(LastOf(files')) = Valid(LastOf(files))
        /\ \A i \in 1..Len(files) - 1 : files'[i] = files[i]
    BY <1>1, <2>1, TornDisk, ZenonT(60)
  <2>3. \A i \in 1..Len(segs') : segs'[i].base = files'[i].base /\ Valid(files'[i]) <= segs'[i].records
    <3> SUFFICES ASSUME NEW i \in 1..Len(files)
                 PROVE  segs[i].base = files'[i].base /\ Valid(files'[i]) <= segs[i].records
      BY <1>1, <1>3, ZenonT(60)
    <3>1. segs[i].base = files[i].base /\ Valid(files[i]) <= segs[i].records
      BY <1>3, ZenonT(60) DEF MatchFiles
    <3>2. CASE i = Len(files)
      BY <2>2, <3>1, <3>2, ZenonT(60) DEF LastOf
    <3>3. CASE i # Len(files)
      <4>1. i \in 1..Len(files) - 1
        BY <1>3, <3>3
      <4> QED BY <2>2, <3>1, <4>1, ZenonT(60)
    <3> QED BY <3>2, <3>3, ZenonT(60)
  <2>4. MatchFiles'
    BY <1>1, <1>3, <2>2, <2>3, ZenonT(60) DEF MatchFiles
  <2> QED BY <1>1, <1>2, <2>2, <2>4, ZenonT(60) DEF DiskInv
<1> QED BY <1>4, <1>5, ZenonT(60) DEF WriteFails

\* A roll, first half: the sealed file is followed by an empty one.
LEMMA RollCreateDisk ==
    ASSUME BaseInv, DiskInv, RollCreate
    PROVE  /\ DiskInv' /\ (~WriteFaults => Kept(files, files'))
           /\ \A o \in Nat : \A r : On(files, o, r) => On(files', o, r)
           /\ files' # <<>> /\ files'[1].base = files[1].base
<1> DEFINE f == LastOf(files)
           t == SyncLast
           n == Len(files)
<1>1. /\ up = "up" /\ up' = "up" /\ handle /\ wpc = "write" /\ wpc' = "roll" /\ ~handle'
      /\ files' = Append(t, NewSegment(next, FALSE)) /\ UNCHANGED <<segs, next, batch, written>>
  BY Zenon DEF RollCreate, Writing
<1>2. /\ files \in Seq(Segment) /\ files # <<>> /\ f \in Segment /\ n \in Nat /\ 1 <= n
      /\ Len(segs) = n /\ f.hdr /\ EndOf(files) <= next
      /\ ~WriteFaults => Clean(f) /\ EndOf(files) = next /\ f.base + Len(f.recs) = next
  BY <1>1, LastMatched, ZenonT(60)
<1>3. Shape(files) /\ (~WriteFaults => Whole(files)) /\ MatchFiles /\ MatchWriter
  BY <1>1, ZenonT(60) DEF DiskInv
<1>4. t = WithLast(files, Synced(f)) /\ next \in Nat /\ Len(files') = n + 1
  BY RollCreateStep, ZenonT(60)
<1> HIDE DEF t
<1>5. /\ t \in Seq(Segment) /\ Len(t) = n /\ t # <<>> /\ LastOf(t) = Synced(f)
      /\ \A i \in 1..n : /\ t[i].base = files[i].base /\ t[i].hdr = files[i].hdr
                         /\ t[i].recs = files[i].recs /\ Valid(t[i]) = Valid(files[i])
      /\ Shape(t) /\ (~WriteFaults => Whole(t) /\ Sealed(LastOf(t)))
      /\ EndOf(t) = EndOf(files) /\ (~WriteFaults => Kept(files, t))
      /\ \A o \in Nat : \A r : On(files, o, r) => On(t, o, r)
      /\ Durable(t) = f.base + Len(f.recs)
  BY <1>2, <1>3, <1>4, SyncedFiles, ZenonT(60)
<1>6. /\ LastOf(t).hdr /\ LastOf(t).base = f.base /\ LastOf(t).recs = f.recs
  BY <1>2, <1>5, SyncedFacts, ZenonT(60)
<1> HIDE DEF f, n
<1>7. /\ files' \in Seq(Segment) /\ files' # <<>>
      /\ \A i \in 1..n : files'[i] = t[i]
      /\ files'[1].base = t[1].base /\ EndOf(files') = next /\ Durable(files') = next
      /\ LastOf(files') = NewSegment(next, FALSE)
      /\ Shape(files')
      /\ Whole(t) /\ Sealed(LastOf(t)) /\ LastOf(t).base + Len(LastOf(t).recs) = next /\ EndOf(t) = next
         => Whole(files')
      /\ \A o \in Nat : \A r : On(t, o, r) => On(files', o, r)
  <2>1. EndOf(t) <= next
    BY <1>2, <1>5, ZenonT(60)
  <2>2. t \in Seq(Segment) /\ Len(t) = n /\ t # <<>> /\ Shape(t)
    BY <1>5, Zenon
  <2> QED BY <1>1, <1>4, <1>6, <2>1, <2>2, Appended, ZenonT(60)
<1>8. ~WriteFaults => Whole(files')
  BY <1>2, <1>5, <1>6, <1>7, ZenonT(60)
<1>9. files'[1].base = files[1].base
  <2>1. 1 \in 1..n
    BY <1>2
  <2> QED BY <1>5, <1>7, <2>1, ZenonT(60)
<1>10. \A o \in Nat : \A r : On(files, o, r) => On(files', o, r)
  BY <1>5, <1>7, ZenonT(60)
<1>11. ~WriteFaults => Kept(files, files')
  <2>1. ~WriteFaults => Durable(files) <= next
    <3>1. ~WriteFaults => Durable(files) <= Durable(t) \/ Retention
      BY <1>5, ZenonT(60) DEF Kept
    <3>2. ~WriteFaults => Durable(files) <= f.base + Len(f.recs)
      <4>1. ~WriteFaults => Tailed(f)
        BY <1>2, <1>3, ZenonT(60) DEF Whole, f
      <4>2. f.base \in Nat /\ Len(f.recs) \in Nat /\ f.synced \in Nat \cup {-1}
        BY <1>2 DEF Segment
      <4> QED BY <1>2, <4>1, <4>2 DEF Tailed, Durable, f
    <3> QED BY <1>2, <3>2, ZenonT(60)
  <2> QED BY <1>2, <1>7, <1>9, <1>10, <2>1, ZenonT(60) DEF Kept
<1>12. MatchFiles'
  <2>1. /\ ~LastOf(files').hdr /\ LastOf(files').base = next
    BY <1>7 DEF NewSegment
  <2>2. \A i \in 1..n : Clean(files[i]) => Clean(files'[i])
    BY <1>5, <1>7 DEF Clean
  <2>3. \A i \in 1..Len(segs') : /\ segs'[i].base = files'[i].base
                                 /\ Valid(files'[i]) <= segs'[i].records
                                 /\ ~WriteFaults => /\ segs'[i].records = Len(files'[i].recs)
                                                    /\ Clean(files'[i])
    <3> SUFFICES ASSUME NEW i \in 1..Len(segs')
                 PROVE  /\ segs'[i].base = files'[i].base
                        /\ Valid(files'[i]) <= segs'[i].records
                        /\ ~WriteFaults => /\ segs'[i].records = Len(files'[i].recs)
                                           /\ Clean(files'[i])
      BY Zenon
    <3>1. i \in 1..Len(segs) /\ i \in 1..n /\ segs' = segs
      BY <1>1, <1>2, ZenonT(60)
    <3>2. /\ segs[i].base = files[i].base /\ Valid(files[i]) <= segs[i].records
          /\ ~WriteFaults => segs[i].records = Len(files[i].recs) /\ Clean(files[i])
      BY <1>3, <3>1, ZenonT(60) DEF MatchFiles
    <3>3. /\ files'[i].base = files[i].base /\ files'[i].recs = files[i].recs
          /\ Valid(files'[i]) = Valid(files[i])
      BY <1>5, <1>7, <3>1, ZenonT(60)
    <3> QED BY <2>2, <3>1, <3>2, <3>3, ZenonT(60)
  <2>4. Len(segs') = Len(files') - 1 /\ Len(segs') # Len(files')
    BY <1>1, <1>2, <1>4
  <2> QED BY <1>1, <2>1, <2>3, <2>4, ZenonT(60) DEF MatchFiles
<1>13. MatchWriter'
  <2>1. Len(segs') # Len(files')
    BY <1>1, <1>2, <1>4
  <2> QED BY <1>1, <1>3, <2>1, ZenonT(60) DEF MatchWriter
<1> QED BY <1>1, <1>7, <1>8, <1>9, <1>10, <1>11, <1>12, <1>13, ZenonT(60) DEF DiskInv

\* A roll, second half: the new file has its header.
LEMMA RollHeaderDisk ==
    ASSUME BaseInv, DiskInv, RollHeader
    PROVE  DiskInv' /\ Kept(files, files') /\ files' # <<>> /\ files'[1].base = files[1].base
<1> DEFINE f == LastOf(files)
           g == Headed(f)
           n == Len(files)
<1>1. /\ up = "up" /\ up' = "up" /\ wpc = "roll" /\ wpc' = "write" /\ handle'
      /\ UNCHANGED <<next, batch, written>>
  BY Zenon DEF RollHeader
<1>2. /\ files \in Seq(Segment) /\ files # <<>> /\ f \in Segment /\ n \in Nat /\ 1 <= n
      /\ ~WriteFaults => Clean(f)
  BY <1>1, LastMatched
<1>3. Shape(files) /\ (~WriteFaults => Whole(files)) /\ MatchFiles /\ MatchWriter
  BY <1>1, Zenon DEF DiskInv
<1>4. Len(segs) # n /\ Len(segs) = n - 1 /\ ~f.hdr /\ f.base = next
  BY <1>1, <1>3, ZenonT(60) DEF MatchFiles, MatchWriter
<1>5. /\ files' = WithLast(files, g) /\ Len(segs') = Len(segs) + 1
      /\ segs'[Len(segs) + 1] = [base |-> next, records |-> 0]
      /\ \A i \in 1..Len(segs) : segs'[i] = segs[i]
  BY RollHeaderStep, Zenon
<1>6. /\ g \in Segment /\ g.base = f.base /\ g.hdr /\ g.recs = f.recs /\ g.synced = f.synced
  BY <1>2, HeadedFacts, Zenon
<1>7. n \in 1..n /\ files[n] = f /\ f.recs = <<>> /\ Len(f.recs) = 0
  <2>1. n \in 1..n /\ files[n] = f
    BY <1>2 DEF LastOf
  <2> HIDE DEF f, n
  <2>2. f.recs = <<>>
    BY <1>3, <1>4, <2>1, ZenonT(60) DEF Shape, n
  <2> QED BY <2>1, <2>2, Zenon
<1>8. f.synced \in Nat \cup {-1}
  BY <1>2, Zenon DEF Segment
<1> HIDE DEF g
<1>9. Clean(g) /\ Valid(f) = 0
  BY <1>4, <1>6, <1>7 DEF Clean, Valid
<1>10. Valid(g) = 0
  BY <1>6, <1>7, <1>9, CleanValid, ZenonT(60)
<1>11. ASSUME ~WriteFaults PROVE Tailed(g)
  <2>1. Tailed(f)
    BY <1>2, <1>3, <1>11, ZenonT(60) DEF Whole
  <2> QED BY <1>6, <2>1, ZenonT(60) DEF Tailed
<1>12. /\ files' \in Seq(Segment) /\ Len(files') = n /\ files' # <<>> /\ LastOf(files') = g
       /\ \A i \in 1..n - 1 : files'[i] = files[i]
       /\ Shape(files') /\ (Whole(files) /\ Tailed(g) => Whole(files'))
       /\ Kept(files, files')
  <2>1. /\ f.synced <= g.synced /\ Valid(g) = Valid(f)
        /\ \A j \in 1..Valid(f) : g.recs[j] = f.recs[j]
    BY <1>6, <1>8, <1>9, <1>10
  <2> QED BY <1>2, <1>3, <1>5, <1>6, <2>1, LastChanged, ZenonT(60)
<1>13. files'[1].base = files[1].base
  BY <1>2, <1>3, <1>5, <1>6, Replaced, ZenonT(60)
<1>14. MatchFiles'
  <2> HIDE DEF f, n
  <2>1. Len(segs') = n /\ files'[n] = g
    BY <1>2, <1>4, <1>5, <1>12 DEF LastOf
  <2>2. ASSUME NEW i \in 1..n
        PROVE  /\ segs'[i].base = files'[i].base /\ Valid(files'[i]) <= segs'[i].records
               /\ ~WriteFaults => /\ segs'[i].records = Len(files'[i].recs) /\ Clean(files'[i])
    <3>1. CASE i # n
      <4>1. i \in 1..n - 1 /\ i \in 1..Len(segs)
        BY <1>2, <1>4, <3>1
      <4>2. /\ segs[i].base = files[i].base /\ Valid(files[i]) <= segs[i].records
            /\ ~WriteFaults => /\ segs[i].records = Len(files[i].recs) /\ Clean(files[i])
        BY <1>3, <4>1, Zenon DEF MatchFiles
      <4> QED BY <1>5, <1>12, <4>1, <4>2, ZenonT(60)
    <3>2. CASE i = n
      <4>1. segs'[i] = [base |-> next, records |-> 0] /\ files'[i] = g
        BY <1>2, <1>4, <1>5, <2>1, <3>2, ZenonT(60)
      <4>2. g.base = next /\ Len(g.recs) = 0
        BY <1>4, <1>6, <1>7, ZenonT(60)
      <4> QED BY <1>9, <1>10, <4>1, <4>2
    <3> QED BY <3>1, <3>2, ZenonT(60)
  <2> QED BY <1>6, <1>12, <2>1, <2>2, ZenonT(60) DEF MatchFiles
<1>15. MatchWriter'
  BY <1>1, <1>3, Zenon DEF MatchWriter
<1> QED BY <1>1, <1>3, <1>11, <1>12, <1>13, <1>14, <1>15, ZenonT(60) DEF DiskInv

\* Retention removes files from the front.
LEMMA RetainDisk ==
    ASSUME BaseInv, DiskInv, Retain
    PROVE  /\ DiskInv' /\ Retention /\ files # <<>> /\ files' # <<>>
           /\ files[1].base <= files'[1].base
           /\ \A o \in Nat : \A r : On(files, o, r) => On(files', o, r) \/ o < files'[1].base
<1>0. Retention
  BY Zenon DEF Retain
<1>1. /\ Len(segs) <= Len(files) /\ up = "up"
      /\ UNCHANGED <<up, next, handle, wpc, batch, written>>
  BY RetainStep, Zenon
<1>2. PICK k \in 1..Len(segs) - 1 :
          /\ files' = SubSeq(files, k + 1, Len(files)) /\ Len(files') = Len(files) - k
          /\ Len(segs') = Len(segs) - k
          /\ \A i \in 1..Len(files) - k : files'[i] = files[i + k]
          /\ \A i \in 1..Len(segs) - k : segs'[i] = segs[i + k]
  BY RetainStep, Zenon
<1>3. /\ files \in Seq(Segment) /\ files # <<>> /\ Len(files) \in Nat /\ Len(segs) \in Nat
  BY <1>1, LastMatched, ZenonT(60)
<1>4. Shape(files) /\ (~WriteFaults => Whole(files)) /\ MatchFiles /\ MatchWriter
  BY <1>1, ZenonT(60) DEF DiskInv
<1>5. k \in Nat /\ k < Len(files) /\ k + 1 \in 1..Len(segs) /\ k < Len(segs)
  BY <1>1, <1>3
<1>6. files[k + 1].hdr
  <2>1. CASE k + 1 = Len(files)
    <3>1. Len(segs) = Len(files)
      BY <1>1, <1>3, <1>5, <2>1
    <3> QED BY <1>4, <2>1, <3>1, ZenonT(60) DEF MatchFiles, LastOf
  <2>2. CASE k + 1 # Len(files)
    <3>1. k + 1 \in 1..Len(files) - 1
      BY <1>3, <1>5, <2>2
    <3> QED BY <1>4, <3>1, ZenonT(60) DEF Shape
  <2> QED BY <2>1, <2>2, Zenon
<1>7. /\ files' \in Seq(Segment) /\ files' # <<>> /\ LastOf(files') = LastOf(files)
      /\ files'[1] = files[k + 1]
      /\ Shape(files') /\ (Whole(files) => Whole(files'))
      /\ \A o \in Nat : \A r : On(files, o, r) => On(files', o, r) \/ o < files'[1].base
      /\ files[1].base <= files'[1].base
  BY <1>0, <1>2, <1>3, <1>4, <1>5, <1>6, Rest, ZenonT(60)
<1>8. MatchFiles'
  <2>1. ASSUME NEW i \in 1..Len(segs')
        PROVE  /\ segs'[i].base = files'[i].base /\ Valid(files'[i]) <= segs'[i].records
               /\ ~WriteFaults => /\ segs'[i].records = Len(files'[i].recs) /\ Clean(files'[i])
    <3>1. i \in 1..Len(segs) - k /\ i \in 1..Len(files) - k /\ i + k \in 1..Len(segs)
      BY <1>1, <1>2, <1>3, <1>5
    <3>2. segs'[i] = segs[i + k] /\ files'[i] = files[i + k]
      BY <1>2, <3>1, ZenonT(60)
    <3> QED BY <1>4, <3>1, <3>2, ZenonT(60) DEF MatchFiles
  <2>2. /\ Len(segs') = Len(files') <=> Len(segs) = Len(files)
        /\ Len(segs') = Len(files') - 1 <=> Len(segs) = Len(files) - 1
    <3>1. Len(segs') = Len(segs) - k /\ Len(files') = Len(files) - k
      BY <1>2, ZenonT(60)
    <3>2. Len(segs') = Len(files') <=> Len(segs) = Len(files)
      BY <1>3, <1>5, <3>1
    <3>3. Len(segs') = Len(files') - 1 <=> Len(segs) = Len(files) - 1
      BY <1>3, <1>5, <3>1
    <3> QED BY <3>2, <3>3, Zenon
  <2> QED BY <1>1, <1>4, <1>7, <2>1, <2>2, ZenonT(60) DEF MatchFiles
<1>9. MatchWriter'
  <2>1. Len(segs') = Len(files') <=> Len(segs) = Len(files)
    BY <1>2, <1>3, <1>5
  <2> QED BY <1>1, <1>4, <2>1, ZenonT(60) DEF MatchWriter
<1> QED BY <1>0, <1>3, <1>4, <1>7, <1>8, <1>9, ZenonT(60) DEF DiskInv

\* A kill leaves at most a torn tail.
LEMMA KillDisk ==
    ASSUME BaseInv, DiskInv, Kill
    PROVE  DiskInv' /\ Kept(files, files') /\ files # <<>> /\ files' # <<>> /\ files'[1].base = files[1].base
<1>1. /\ up = "up" /\ up' = "down" /\ files # <<>>
      /\ \/ files' = files
         \/ Writing /\ handle /\ files' = WithLast(files, Wrote(LastOf(files), <<Torn>>))
  BY KillStep, Zenon
<1>2. CASE files' = files
  <2>1. Kept(files, files)
    BY LogTypes, KeptSame, Zenon DEF BaseInv
  <2> QED BY <1>1, <1>2, <2>1, ZenonT(60) DEF DiskInv
<1>3. CASE Writing /\ handle /\ files' = WithLast(files, Wrote(LastOf(files), <<Torn>>))
  BY <1>1, <1>3, TornDisk, ZenonT(60) DEF DiskInv
<1> QED BY <1>1, <1>2, <1>3, ZenonT(60)

\* The machine loses power: the log keeps what is durable, and all below its new head.
LEMMA LosePowerDisk ==
    ASSUME BaseInv, DiskInv, LosePower, ~WriteFaults
    PROVE  /\ DiskInv'
           /\ \A o \in Nat : \A r : On(files, o, r) /\ o < EndOf(files') => On(files', o, r)
           /\ ~Retention => /\ EndOf(files') <= EndOf(files) /\ Durable(files) <= EndOf(files')
                            /\ Durable(files) <= Durable(files')
<1> DEFINE f == LastOf(files)
<1>1. PowerLoss /\ up' = "down" /\ up = "up" /\ files' \in Seq(Segment)
  BY LosePowerStep, LogTypes, ZenonT(60) DEF LosePower, Down, BaseInv, TypeOK
<1>2. /\ files \in Seq(Segment) /\ files # <<>> /\ f \in Segment /\ Clean(f) /\ Len(files) \in Nat
      /\ DOMAIN files = 1..Len(files)
  BY <1>1, LastMatched
<1>3. Shape(files) /\ Whole(files) /\ Tailed(f)
  BY <1>2, Zenon DEF DiskInv, Whole
<1>4. PICK i \in 1..Len(files) : \E u \in Survivors(files[i]) :
           files' = SubSeq(files, 1, i - 1) \o u \o SubSeq(files, i + 1, Len(files))
  BY <1>2, Zenon DEF LosePower
<1>5. \/ files' = files
      \/ files' = SubSeq(files, 1, Len(files) - 1) /\ f.synced < 0
      \/ \E g \in Segment :
            /\ files' = WithLast(files, g) /\ g.base = f.base
            /\ ~g.hdr => g.recs = <<>>
            /\ Tailed(g) /\ Valid(g) <= Valid(f)
            /\ f.synced <= Valid(g) /\ f.synced <= g.synced
            /\ \A j \in 1..Valid(g) : g.recs[j] = f.recs[j]
  <2>1. PICK u \in Survivors(files[i]) :
            files' = SubSeq(files, 1, i - 1) \o u \o SubSeq(files, i + 1, Len(files))
    BY <1>4, Zenon
  <2>2. PowerCut(files, files')
    BY <1>2, <1>3, <2>1, PowerLost, ZenonT(60)
  <2> QED BY <2>2, Zenon DEF PowerCut
<1>6. f.base \in Nat /\ f.synced \in Nat \cup {-1} /\ Valid(f) \in Nat /\ Len(f.recs) \in Nat
  BY <1>2, ValidFacts, ZenonT(60) DEF Segment
<1>7. EndOf(files) = f.base + Valid(f) /\ Durable(files) = f.base + IF f.synced < 0 THEN 0 ELSE f.synced
  BY <1>2, Zenon DEF EndOf, Durable
<1> HIDE DEF f
<1>8. f.synced <= Valid(f)
  <2>1. CASE f.hdr
    <3>1. Valid(f) = Len(f.recs)
      BY <1>2, <2>1, CleanValid, ZenonT(60)
    <3> QED BY <1>3, <3>1, ZenonT(60) DEF Tailed
  <2>2. CASE ~f.hdr
    <3>1. f.recs = <<>>
      <4>1. Len(files) \in 1..Len(files)
        BY <1>2
      <4> QED BY <1>3, <2>2, <4>1, ZenonT(60) DEF Shape, f, LastOf
    <3> QED BY <1>3, <1>6, <3>1 DEF Tailed
  <2> QED BY <2>1, <2>2, ZenonT(60)
<1>9. CASE files' = files
  <2>1. Durable(files) <= EndOf(files) /\ Durable(files) <= Durable(files) /\ EndOf(files) <= EndOf(files)
    BY <1>6, <1>7, <1>8
  <2> QED BY <1>1, <1>3, <1>9, <2>1, ZenonT(60) DEF DiskInv
<1>10. CASE files' = SubSeq(files, 1, Len(files) - 1) /\ f.synced < 0
  <2>1. /\ Shape(files') /\ Whole(files')
        /\ files' # <<>> => EndOf(files') = f.base /\ Durable(files') = f.base
        /\ \A o \in Nat : \A r : On(files, o, r) /\ o < f.base => On(files', o, r)
        /\ Len(files') = Len(files) - 1
    BY <1>2, <1>3, <1>10, Dropped, ZenonT(60) DEF f
  <2>2. files' = <<>> => EndOf(files') = 0 /\ Durable(files') = 0
    BY Zenon DEF EndOf, Durable
  <2>3. files' = <<>> /\ ~Retention => f.base = 0
    <3> SUFFICES ASSUME files' = <<>>, ~Retention PROVE f.base = 0
      BY Zenon
    <3>2. Len(files') = 0
      BY Zenon
    <3>3. Len(files') = Len(files) - 1 /\ Len(files) \in Nat
      BY <1>2, <2>1, ZenonT(60)
    <3>1. Len(files) = 1
      BY <3>2, <3>3
    <3> QED BY <1>2, <1>3, <3>1, ZenonT(60) DEF Whole, f, LastOf
  <2>4. \A o \in Nat : \A r : On(files, o, r) /\ o < EndOf(files') => On(files', o, r)
    BY <2>1, <2>2
  <2>5. ~Retention => EndOf(files') = f.base /\ Durable(files') = f.base
    BY <2>1, <2>2, <2>3, ZenonT(60)
  <2>6. Durable(files) = f.base
    BY <1>6, <1>7, <1>10
  <2> QED BY <1>1, <1>6, <1>7, <2>1, <2>4, <2>5, <2>6 DEF DiskInv
<1>11. ASSUME NEW g \in Segment,
              files' = WithLast(files, g), g.base = f.base,
              ~g.hdr => g.recs = <<>>,
              Tailed(g), Valid(g) <= Valid(f),
              f.synced <= Valid(g), f.synced <= g.synced,
              \A j \in 1..Valid(g) : g.recs[j] = f.recs[j]
       PROVE  /\ DiskInv'
              /\ \A o \in Nat : \A r : On(files, o, r) /\ o < EndOf(files') => On(files', o, r)
              /\ ~Retention => /\ EndOf(files') <= EndOf(files) /\ Durable(files) <= EndOf(files')
                               /\ Durable(files) <= Durable(files')
  <2>1. /\ files' # <<>> /\ LastOf(files') = g /\ EndOf(files') = g.base + Valid(g)
        /\ Shape(files') /\ Whole(files')
    BY <1>1, <1>2, <1>3, <1>11, Replaced, ZenonT(60) DEF f
  <2>2. Valid(g) \in Nat /\ g.synced \in Nat \cup {-1}
    BY ValidFacts, Zenon DEF Segment
  <2>3. Durable(files') = f.base + IF g.synced < 0 THEN 0 ELSE g.synced
    BY <1>11, <2>1, ZenonT(60) DEF Durable
  <2>4. \A o \in Nat : \A r : On(files, o, r) /\ o < EndOf(files') => On(files', o, r)
    BY <1>2, <1>11, <2>1, <2>2, ReplacedOn DEF f
  <2>5. EndOf(files') <= EndOf(files) /\ Durable(files) <= EndOf(files') /\ Durable(files) <= Durable(files')
    <3> DEFINE b == f.base
               v == Valid(f)
               w == Valid(g)
               x == f.synced
               y == g.synced
    <3>1. /\ b \in Nat /\ v \in Nat /\ w \in Nat /\ x \in Nat \cup {-1} /\ y \in Nat \cup {-1}
          /\ w <= v /\ x <= w /\ x <= y
      BY <1>6, <1>11, <2>2, ZenonT(60)
    <3>2. /\ EndOf(files) = b + v /\ EndOf(files') = b + w
          /\ Durable(files) = b + (IF x < 0 THEN 0 ELSE x)
          /\ Durable(files') = b + (IF y < 0 THEN 0 ELSE y)
      BY <1>7, <1>11, <2>1, <2>3, ZenonT(60)
    <3> HIDE DEF b, v, w, x, y
    <3> QED BY <3>1, <3>2
  <2> QED BY <1>1, <2>1, <2>4, <2>5, ZenonT(60) DEF DiskInv
<1> QED BY <1>5, <1>9, <1>10, <1>11, ZenonT(60)

\* What Open lists, and what it makes of it.
LEMMA ListedDisk ==
    ASSUME BaseInv, DiskInv
    PROVE  /\ Listed \in Seq(Segment) /\ Shape(Listed) /\ (~WriteFaults => Whole(Listed))
           /\ Kept(files, Listed)
           /\ Listed # <<>> => LastOf(Listed).hdr
           /\ ~PowerLoss /\ files # <<>> => Listed # <<>>
<1>1. /\ files \in Seq(Segment) /\ Shape(files) /\ (~WriteFaults => Whole(files)) /\ TypeOK
  BY LogTypes, Zenon DEF BaseInv, DiskInv
<1>2. CASE Listed = files /\ (files # <<>> => LastOf(files).hdr)
  BY <1>1, <1>2, KeptSame, ZenonT(60)
<1>3. CASE files # <<>> /\ ~LastOf(files).hdr /\ Listed = SubSeq(files, 1, Len(files) - 1)
  <2>1. Listed # <<>> => LastOf(Listed).hdr
    BY <1>1, <1>3, Dropped, ZenonT(60)
  <2> QED BY <1>1, <1>3, <2>1, HeadlessDropped, ZenonT(60)
<1> QED BY <1>1, <1>2, <1>3, ListedFacts, ZenonT(60)

\* Recovery: the torn tail of the last file goes, and no record with it.
LEMMA OpenExistingDisk ==
    ASSUME BaseInv, DiskInv, OpenExisting
    PROVE  DiskInv' /\ Kept(files, files') /\ files' # <<>>
<1> DEFINE s == Listed
           f == LastOf(s)
           g == Cut(f)
           n == Len(s)
<1>0. TypeOK
  BY Zenon DEF BaseInv
<1>1. s # <<>> /\ files' = Truncated /\ segs' = Scanned /\ wpc' = "idle" /\ up' = "up"
  BY Zenon DEF OpenExisting, Started
<1>2. /\ s \in Seq(Segment) /\ Shape(s) /\ (~WriteFaults => Whole(s)) /\ Kept(files, s) /\ f.hdr
  BY <1>1, ListedDisk, Zenon
<1>3. /\ files' = WithLast(s, g) /\ f \in Segment /\ n \in Nat /\ n \in 1..n
      /\ \A i \in 1..n : s[i] = files[i]
  BY <1>0, <1>1, TruncatedFacts, ListedFacts, ZenonT(60)
<1>4. /\ Len(Scanned) = n
      /\ \A i \in 1..n : Scanned[i].base = s[i].base /\ Scanned[i].records = Valid(s[i])
  BY <1>0, <1>3, ScannedFacts, ZenonT(60)
<1> HIDE DEF s
<1>5. /\ g \in Segment /\ g.base = f.base /\ g.hdr = f.hdr /\ g.synced = f.synced
      /\ Len(g.recs) = Valid(f) /\ \A j \in 1..Valid(f) : g.recs[j] = f.recs[j]
      /\ Valid(g) = Valid(f)
  BY <1>3, CutFacts, Zenon
<1> HIDE DEF g
<1>6. /\ Valid(f) \in Nat /\ Valid(f) <= Len(f.recs) /\ Len(f.recs) \in Nat
      /\ \A j \in 1..Valid(f) : f.recs[j] # Torn
      /\ Valid(f) = Len(f.recs) \/ f.recs[Valid(f) + 1] = Torn
  BY <1>2, <1>3, ValidFacts, ZenonT(60)
<1>7. f.synced \in Nat \cup {-1}
  BY <1>3, Zenon DEF Segment
<1> HIDE DEF f, n
<1>8. Clean(g)
  BY <1>5, <1>6, Zenon DEF Clean
<1>9. ASSUME ~WriteFaults PROVE Tailed(g)
  <2>1. Tailed(f)
    BY <1>1, <1>2, <1>9, ZenonT(60) DEF Whole, f
  <2>2. f.synced <= Valid(f)
    <3> SUFFICES ASSUME f.synced > Valid(f) PROVE FALSE
      BY <1>6, <1>7
    <3>1. Valid(f) + 1 \in 1..Len(f.recs) /\ Valid(f) + 1 <= f.synced
      BY <1>6, <1>7, <2>1 DEF Tailed
    <3>2. f.recs[Valid(f) + 1] = Torn
      BY <1>6, <3>1
    <3> QED BY <2>1, <3>1, <3>2, ZenonT(60) DEF Tailed
  <2> QED BY <1>5, <1>8, <2>2, ZenonT(60) DEF Tailed, Clean
<1>10. /\ files' \in Seq(Segment) /\ Len(files') = n /\ files' # <<>> /\ LastOf(files') = g
       /\ \A i \in 1..n - 1 : files'[i] = s[i]
       /\ Shape(files') /\ (Whole(s) /\ Tailed(g) => Whole(files'))
       /\ Kept(s, files')
  <2>1. f.synced <= g.synced
    BY <1>5, <1>7
  <2>2. g \in Segment /\ g.hdr /\ g.base = LastOf(s).base /\ Valid(g) = Valid(LastOf(s))
    BY <1>2, <1>5, ZenonT(60) DEF f
  <2>3. /\ LastOf(s).synced <= g.synced
        /\ \A j \in 1..Valid(LastOf(s)) : g.recs[j] = LastOf(s).recs[j]
    BY <1>5, <2>1, ZenonT(60) DEF f
  <2> QED BY <1>1, <1>2, <1>3, <2>2, <2>3, LastChanged DEF n
<1>11. Kept(files, files')
  BY <1>0, <1>2, <1>10, LogTypes, KeptTwice, ZenonT(60)
<1>12. MatchFiles'
  <2>1. files'[n] = g /\ s[n] = f
    BY <1>3, <1>10, ZenonT(60) DEF LastOf, f, n
  <2>2. ASSUME NEW i \in 1..n
        PROVE  /\ segs'[i].base = files'[i].base /\ Valid(files'[i]) <= segs'[i].records
               /\ ~WriteFaults => /\ segs'[i].records = Len(files'[i].recs) /\ Clean(files'[i])
    <3>0. /\ segs'[i].base = s[i].base /\ segs'[i].records = Valid(s[i]) /\ s[i] \in Segment
          /\ Valid(s[i]) \in Nat
      BY <1>1, <1>2, <1>4, SegTypes, ZenonT(60) DEF n
    <3>1. CASE i # n
      <4>1. i \in 1..n - 1 /\ files'[i] = s[i] /\ s[i].hdr
        <5>1. i \in 1..n - 1
          BY <1>3, <3>1
        <5> QED BY <1>2, <1>10, <5>1, ZenonT(60) DEF Shape, n
      <4>2. ~WriteFaults => Clean(s[i])
        BY <1>2, <4>1, ZenonT(60) DEF Whole, Sealed, n
      <4>3. ~WriteFaults => Valid(s[i]) = Len(s[i].recs)
        BY <3>0, <4>1, <4>2, CleanValid, ZenonT(60)
      <4> QED BY <3>0, <4>1, <4>2, <4>3
    <3>2. CASE i = n
      <4>1. Valid(f) <= Valid(f)
        BY <1>6
      <4> QED BY <1>5, <1>8, <2>1, <3>0, <3>2, <4>1, ZenonT(60)
    <3> QED BY <3>1, <3>2, Zenon
  <2> QED BY <1>1, <1>2, <1>4, <1>5, <1>10, <2>2, ZenonT(60) DEF MatchFiles
<1>13. MatchWriter'
  BY <1>1, Zenon DEF MatchWriter
<1> QED BY <1>2, <1>9, <1>10, <1>11, <1>12, <1>13, ZenonT(60) DEF DiskInv

\* Open makes the first segment only where there is no record.
LEMMA OpenEmptyDisk ==
    ASSUME BaseInv, DiskInv, OpenEmpty
    PROVE  DiskInv' /\ Kept(files, files') /\ files' # <<>> /\ (~PowerLoss => files = <<>>)
<1> DEFINE f == NewSegment(0, TRUE)
           t == <<f>>
<1>1. /\ Listed = <<>> /\ files' = t /\ segs' = <<[base |-> 0, records |-> 0]>>
      /\ wpc' = "idle" /\ up' = "up"
  BY Zenon DEF OpenEmpty, Started
<1>2. /\ f \in Segment /\ f.base = 0 /\ f.hdr /\ f.recs = <<>> /\ Clean(f) /\ Valid(f) = 0
      /\ Shape(t) /\ Whole(t) /\ EndOf(t) = 0 /\ Durable(t) = 0
      /\ t \in Seq(Segment) /\ t # <<>> /\ LastOf(t) = f /\ t[1] = f /\ Len(t) = 1
  BY FirstFile, Zenon
<1> HIDE DEF f, t
<1>3. Kept(files, Listed) /\ (~PowerLoss => files = <<>>) /\ files \in Seq(Segment) /\ Listed \in Seq(Segment)
  BY <1>1, ListedDisk, LogTypes, ZenonT(60) DEF BaseInv
<1>4. Kept(Listed, t)
  <2>1. EndOf(Listed) = 0 /\ Durable(Listed) = 0
    BY <1>1, ZenonT(60) DEF EndOf, Durable
  <2>2. \A o \in Nat : \A r : ~On(Listed, o, r)
    <3>1. \A i \in 1..Len(Listed) : FALSE
      BY <1>1
    <3> QED BY <3>1, ZenonT(60) DEF On
  <2> QED BY <1>1, <1>2, <2>1, <2>2 DEF Kept
<1>5. Kept(files, t)
  BY <1>2, <1>3, <1>4, KeptTwice, ZenonT(60)
<1>6. MatchFiles'
  <2>1. Len(segs') = 1 /\ segs'[1] = [base |-> 0, records |-> 0]
    BY <1>1, ZenonT(60)
  <2>2. segs'[1].base = 0 /\ segs'[1].records = 0
    BY <2>1
  <2>3. \A i \in 1..Len(segs') : i = 1
    BY <2>1
  <2>4. Len(f.recs) = 0
    BY <1>2, Zenon
  <2> QED BY <1>1, <1>2, <2>1, <2>2, <2>3, <2>4 DEF MatchFiles
<1>7. MatchWriter'
  BY <1>1, Zenon DEF MatchWriter
<1> QED BY <1>1, <1>2, <1>3, <1>5, <1>6, <1>7, ZenonT(60) DEF DiskInv

\* Without short writes Open never refuses.
LEMMA NotRefused ==
    ASSUME BaseInv, DiskInv, ~WriteFaults, Listed # <<>>
    PROVE  Chained
<1> DEFINE s == Listed
           n == Len(s)
<1>0. TypeOK
  BY Zenon DEF BaseInv
<1>1. /\ s \in Seq(Segment) /\ Shape(s) /\ Whole(s) /\ LastOf(s).hdr
  BY ListedDisk, Zenon
<1>2. n \in Nat /\ DOMAIN s = 1..n /\ \A i \in 1..n : s[i] = files[i] /\ s[i] \in Segment
  BY <1>0, ListedFacts, Zenon
<1>3. \A i \in 1..n : Scanned[i].base = s[i].base /\ Scanned[i].records = Valid(s[i])
  BY <1>0, <1>2, ScannedFacts, ZenonT(60)
<1> HIDE DEF s, n
<1>4. \A i \in 1..n - 1 : i \in 1..n /\ i + 1 \in 1..n
  BY <1>2
<1>5. \A i \in 1..n : s[i].hdr
  <2>1. \A i \in 1..n : i = n \/ i \in 1..n - 1
    BY <1>2
  <2> QED BY <1>1, <2>1, ZenonT(60) DEF Shape, LastOf, n
<1>6. \A i \in 1..n - 1 : End(Scanned[i]) = Scanned[i + 1].base
  <2> SUFFICES ASSUME NEW i \in 1..n - 1 PROVE End(Scanned[i]) = Scanned[i + 1].base
    BY Zenon
  <2>1. Sealed(s[i]) /\ s[i].base + Len(s[i].recs) = s[i + 1].base
    BY <1>1, ZenonT(60) DEF Whole, n
  <2>2. Valid(s[i]) = Len(s[i].recs)
    BY <1>2, <1>4, <1>5, <2>1, CleanValid, ZenonT(60) DEF Sealed
  <2> QED BY <1>3, <1>4, <2>1, <2>2, ZenonT(60) DEF End
<1> QED BY <1>2, <1>5, <1>6, ZenonT(60) DEF Chained, s, n

\* Open refuses to start only behind a write that failed short.
LEMMA OpenRefusedDisk ==
    ASSUME BaseInv, DiskInv, OpenRefused
    PROVE  DiskInv' /\ files' = files /\ WriteFaults
<1>1. up' = "refused" /\ files' = files /\ Listed # <<>> /\ ~Chained
  BY Zenon DEF OpenRefused, diskVars
<1> QED BY <1>1, NotRefused, ZenonT(60) DEF DiskInv

----------------------------------------------------------------------------
(* The invariants of the files, and recovery.                                *)

\* Every step keeps the files in shape, and without a loss of power in place.
LEMMA DiskStep ==
    ASSUME BaseInv, DiskInv, [Next]_vars, ~(WriteFaults /\ PowerLoss)
    PROVE  DiskInv' /\ (~PowerLoss => Ahead(files, files'))
<1>0. files \in Seq(Segment)
  BY LogTypes, Zenon DEF BaseInv
<1>1. CASE OpenEmpty
  BY <1>0, <1>1, OpenEmptyDisk, AheadSame, ZenonT(60) DEF Kept
<1>2. CASE OpenExisting
  BY <1>0, <1>2, OpenExistingDisk, AheadSame, ZenonT(60) DEF Kept
<1>3. CASE OpenRefused
  BY <1>0, <1>3, OpenRefusedDisk, AheadSame, ZenonT(60)
<1>4. CASE \/ \E c \in Client : AppendCall(c)
           \/ Take \/ Collect \/ CollectEnd \/ Close \/ ReadNext \/ Commit
  BY <1>0, <1>4, QuietDisk, AheadSame, ZenonT(60)
<1>5. CASE RollFails \/ HandleClosed \/ Sync \/ SyncSkipped \/ SyncFails
  BY <1>0, <1>5, AnswerDisk, AheadSame, ZenonT(60)
<1>6. CASE Quit
  BY <1>0, <1>6, QuitDisk, AheadSame, ZenonT(60)
<1>7. CASE WriteRecord
  BY <1>0, <1>7, WriteDisk, AheadSame, ZenonT(60)
<1>8. CASE WriteFails
  BY <1>0, <1>8, WriteFailsDisk, AheadSame, ZenonT(60) DEF Kept
<1>9. CASE RollCreate
  BY <1>0, <1>9, RollCreateDisk, AheadSame, ZenonT(60)
<1>10. CASE RollHeader
  BY <1>0, <1>10, RollHeaderDisk, AheadSame, ZenonT(60) DEF Kept
<1>11. CASE Retain
  BY <1>11, RetainDisk, ZenonT(60) DEF Ahead
<1>12. CASE Kill
  BY <1>0, <1>12, KillDisk, AheadSame, ZenonT(60) DEF Kept
<1>13. CASE LosePower
  BY <1>13, LosePowerDisk, ZenonT(60) DEF LosePower
<1>14. CASE UNCHANGED vars
  <2>1. UNCHANGED <<files, up, segs, next, handle, wpc, batch, written>>
    BY <1>14, ZenonT(60) DEF vars, diskVars, logVars, writerVars
  <2>2. up = "up" => MatchWriter'
    BY <2>1, Zenon DEF DiskInv, MatchWriter
  <2> QED BY <1>0, <2>1, <2>2, FilesSame, AheadSame, ZenonT(60)
<1> QED BY <1>1, <1>2, <1>3, <1>4, <1>5, <1>6, <1>7, <1>8, <1>9, <1>10, <1>11, <1>12, <1>13, <1>14, ZenonT(60)
        DEF Next, Writer, Open

\* There are no files yet.
LEMMA DiskInit == Init => DiskInv
<1> SUFFICES ASSUME Init PROVE DiskInv
  BY Zenon
<1>1. files = <<>> /\ up = "down"
  BY Zenon DEF Init
<1>2. Len(files) = 0
  BY <1>1, Zenon
<1>3. Shape(files)
  BY <1>1, <1>2 DEF Shape
<1>4. Whole(files)
  BY <1>1, <1>2 DEF Whole
<1> QED BY <1>1, <1>3, <1>4, ZenonT(60) DEF DiskInv

\* The files of a log whose writes do not fail short, or whose machine does not
\* lose power: they do not overlap, only the last may lack its header, and memory
\* agrees with them (writeBatch, roll, load).
THEOREM DiskInvariance ==
    ASSUME ~(WriteFaults /\ PowerLoss)
    PROVE  Spec => [](BaseInv /\ DiskInv)
<1>1. Init => BaseInv /\ DiskInv
  BY BaseInit, DiskInit, Zenon
<1>2. BaseInv /\ DiskInv /\ [Next]_vars => (BaseInv /\ DiskInv)'
  BY BaseStep, DiskStep, Zenon
<1> QED BY <1>1, <1>2, PTL DEF Spec

\* Whatever the order of kills, power losses, failed fsyncs and failed rolls, load
\* finds a chain without a gap and Open starts.
THEOREM NoRefusal ==
    ASSUME ~WriteFaults
    PROVE  Spec => []NeverRefuses
<1>1. Init => NeverRefuses
  BY Zenon DEF Init, NeverRefuses
<1>2. NeverRefuses /\ BaseInv /\ DiskInv /\ [Next]_vars => NeverRefuses'
  <2> SUFFICES ASSUME NeverRefuses, BaseInv, DiskInv, [Next]_vars PROVE NeverRefuses'
    BY Zenon
  <2>1. ~OpenRefused
    BY OpenRefusedDisk, ZenonT(60)
  <2>2. up' \in {up, "up", "down"}
    BY <2>1, ZenonT(60) DEF Next, Open, Writer, OpenEmpty, OpenExisting, Started, AppendCall, CheckClosed, Send, Receive,
                WriterGone, ContextDone, CallOnly, Take, Collect, CollectEnd, WriteRecord, WriteFails,
                RollCreate, RollHeader, RollFails, HandleClosed, Sync, SyncSkipped, SyncFails, Quit,
                AnswerError, AnswerOffsets, Answer, Close, ReadNext, Commit, Retain, Kill, LosePower, Down, vars
  <2> QED BY <2>2, Zenon DEF NeverRefuses
<1>3. Spec => [](BaseInv /\ DiskInv)
  BY DiskInvariance, Zenon
<1> QED BY <1>1, <1>2, <1>3, PTL DEF Spec

----------------------------------------------------------------------------
(* Delivery.                                                                 *)

\* What was delivered before a step is still on disk, or retained no longer.
LEMMA DeliveredOld ==
    ASSUME BaseInv, BaseInv', DeliveredInv, Ahead(files, files'), NEW d \in delivered
    PROVE  files' # <<>> /\ (d[1] < files'[1].base \/ On(files', d[1], d[2]))
<1>1. files # <<>> /\ (d[1] < files[1].base \/ On(files, d[1], d[2])) /\ d[1] \in Nat
  BY Zenon DEF DeliveredInv, BaseInv, TypeOK
<1>2. files' # <<>> /\ files[1].base <= files'[1].base
  BY <1>1, Zenon DEF Ahead
<1>3. files[1].base \in Nat /\ files'[1].base \in Nat
  <2>1. files \in Seq(Segment) /\ files' \in Seq(Segment)
    BY Zenon DEF BaseInv, TypeOK
  <2>2. 1 \in 1..Len(files) /\ 1 \in 1..Len(files')
    BY <1>1, <1>2, <2>1
  <2> QED BY <2>1, <2>2, SegTypes, ZenonT(60)
<1>4. CASE d[1] < files[1].base
  BY <1>1, <1>2, <1>3, <1>4
<1>5. CASE On(files, d[1], d[2])
  BY <1>1, <1>2, <1>5, ZenonT(60) DEF Ahead
<1> QED BY <1>1, <1>4, <1>5, ZenonT(60)

\* Next delivers at an offset what it has delivered there before.
LEMMA DeliveredStep ==
    ASSUME BaseInv, BaseInv', DiskInv, DeliveredInv, DeliveredStable, [Next]_vars, ~PowerLoss
    PROVE  DeliveredInv' /\ DeliveredStable'
<1>1. Ahead(files, files')
  BY DiskStep, Zenon
<1>2. CASE delivered' = delivered
  BY <1>1, <1>2, DeliveredOld, Zenon DEF DeliveredInv, DeliveredStable
<1>3. CASE ReadNext
  <2> DEFINE x == DiskAt(pos)
  <2>1. /\ up = "up" /\ Readable(pos) /\ delivered' = delivered \cup {<<pos, x>>} /\ files' = files
    BY <1>3, Zenon DEF ReadNext, diskVars
  <2>2. pos \in Nat /\ TypeOK /\ delivered \subseteq Nat \X Client
    BY Zenon DEF BaseInv, TypeOK
  <2>3. On(files, pos, x)
    BY <2>1, <2>2, DiskAtFacts, ZenonT(60) DEF On
  <2> HIDE DEF x
  <2>4. /\ files \in Seq(Segment) /\ files # <<>> /\ 1 <= Len(segs) /\ Len(segs) \in Nat
        /\ Shape(files) /\ MatchFiles
    BY <2>1, LastMatched, Zenon DEF DiskInv
  <2>5. files[1].base <= pos
    <3>1. segs[1].base <= pos
      BY <2>1, ZenonT(60) DEF BaseInv, OffsetInv
    <3>2. 1 \in 1..Len(segs)
      BY <2>4
    <3> QED BY <2>4, <3>1, <3>2, ZenonT(60) DEF MatchFiles
  <2>6. files[1].base \in Nat
    <3>1. 1 \in 1..Len(files)
      BY <2>4
    <3> QED BY <2>4, <3>1, SegTypes, ZenonT(60)
  <2>7. ASSUME NEW d \in delivered, d[1] = pos PROVE d[2] = x
    <3>1. On(files, pos, d[2])
      BY <2>2, <2>5, <2>6, <2>7 DEF DeliveredInv
    <3> QED BY <2>2, <2>3, <2>4, <3>1, OnUnique, ZenonT(60)
  <2>8. DeliveredInv'
    <3> SUFFICES ASSUME NEW d \in delivered'
                 PROVE  files' # <<>> /\ (d[1] < files'[1].base \/ On(files', d[1], d[2]))
      BY Zenon DEF DeliveredInv
    <3>1. CASE d \in delivered
      BY <1>1, <3>1, DeliveredOld, ZenonT(60)
    <3>2. CASE d = <<pos, x>>
      BY <2>1, <2>3, <2>4, <3>2, ZenonT(60)
    <3> QED BY <2>1, <3>1, <3>2, ZenonT(60)
  <2>9. DeliveredStable'
    <3> SUFFICES ASSUME NEW a \in delivered', NEW b \in delivered', a[1] = b[1]
                 PROVE  a[2] = b[2]
      BY Zenon DEF DeliveredStable
    <3>1. CASE a \in delivered /\ b \in delivered
      BY <3>1, Zenon DEF DeliveredStable
    <3>2. CASE a \in delivered /\ b = <<pos, x>>
      BY <2>7, <3>2, Zenon
    <3>3. CASE a = <<pos, x>> /\ b \in delivered
      BY <2>7, <3>3, Zenon
    <3>4. CASE a = <<pos, x>> /\ b = <<pos, x>>
      BY <3>4, Zenon
    <3> QED BY <2>1, <3>1, <3>2, <3>3, <3>4, ZenonT(60)
  <2> QED BY <2>8, <2>9, Zenon
<1>4. CASE ~ReadNext
  <2>1. delivered' = delivered
    BY <1>4, ZenonT(60) DEF Next, Open, Writer, OpenEmpty, OpenExisting, OpenRefused, Started, AppendCall, CheckClosed,
                Send, Receive, WriterGone, ContextDone, CallOnly, Take, Collect, CollectEnd, WriteRecord,
                WriteFails, RollCreate, RollHeader, RollFails, HandleClosed, Sync, SyncSkipped, SyncFails,
                Quit, AnswerError, AnswerOffsets, Answer, Close, Commit, Retain, Kill, LosePower, Down,
                vars, readerVars
  <2> QED BY <1>2, <2>1, ZenonT(60)
<1> QED BY <1>3, <1>4, Zenon

\* An offset names one record for ever, while the machine keeps its power: what the
\* consumer is given again after a restart is what it was given before, even behind
\* writes that failed short and behind retention (Next, skipTo, load, Retain).
THEOREM StableDelivery ==
    ASSUME ~PowerLoss
    PROVE  Spec => []DeliveredStable
<1>1. Init => DeliveredInv /\ DeliveredStable
  BY Zenon DEF Init, DeliveredInv, DeliveredStable
<1>2. BaseInv /\ BaseInv' /\ DiskInv /\ DeliveredInv /\ DeliveredStable /\ [Next]_vars
      => DeliveredInv' /\ DeliveredStable'
  BY DeliveredStep, Zenon
<1>3. Spec => [](BaseInv /\ DiskInv)
  BY DiskInvariance, Zenon
<1> QED BY <1>1, <1>2, <1>3, PTL DEF Spec

----------------------------------------------------------------------------
(* Acknowledged records, where writes do not fail short, fsync precedes every *)
(* answer and retention removes nothing.                                      *)

\* An offset in an answer is a number.
LEMMA OffsetNat ==
    ASSUME TypeOK, NEW c \in Client
    PROVE  /\ resp[c].kind = "acked" => resp[c].off \in Nat
           /\ call[c].kind = "acked" => call[c].off \in Nat
<1>1. ASSUME NEW a \in Final, a.kind = "acked" PROVE a.off \in Nat
  BY <1>1, Zenon DEF Final
<1>2. resp[c].kind = "acked" => resp[c] \in Final
  BY DEF TypeOK, None
<1>3. call[c].kind = "acked" => call[c] \in Final
  BY Zenon DEF TypeOK
<1> QED BY <1>1, <1>2, <1>3, Zenon

\* Answers stay sure while durable records stay.
LEMMA AckSame ==
    ASSUME BaseInv, BaseInv', AckInv, Durable(files) <= Durable(files'),
           \A o \in Nat : \A r : On(files, o, r) /\ o < Durable(files) => On(files', o, r),
           \A c \in Client : resp'[c].kind = "acked" => resp'[c] = resp[c],
           \A c \in Client : call'[c].kind = "acked" => call'[c] \in {call[c], resp[c]},
           up' = "up" => \A j \in 1..written' : On(files', next' - written' + j - 1, batch'[j])
    PROVE  AckInv'
<1>1. ASSUME NEW c \in Client, NEW a \in {resp[c], call[c]} PROVE Sure(files', a, c)
  <2> SUFFICES ASSUME a.kind = "acked" PROVE On(files', a.off, c) /\ a.off < Durable(files')
    BY Zenon DEF Sure
  <2>1. a.off \in Nat
    BY <1>1, OffsetNat, Zenon DEF BaseInv
  <2>2. On(files, a.off, c) /\ a.off < Durable(files)
    BY <1>1, ZenonT(60) DEF AckInv, Sure
  <2>3. Durable(files) \in Nat /\ Durable(files') \in Nat
    BY DurableNat, ZenonT(60) DEF BaseInv, TypeOK
  <2>4. a.off < Durable(files')
    <3>1. \A i, j, k \in Nat : i < j /\ j <= k => i < k
      OBVIOUS
    <3> QED BY <2>1, <2>2, <2>3, <3>1, ZenonT(60)
  <2> QED BY <2>1, <2>2, <2>4, ZenonT(60)
<1>2. \A c \in Client : Sure(files', resp'[c], c)
  <2> SUFFICES ASSUME NEW c \in Client PROVE Sure(files', resp'[c], c)
    BY Zenon
  <2>1. Sure(files', resp[c], c)
    BY <1>1, Zenon
  <2> QED BY <2>1, Zenon DEF Sure
<1>3. \A c \in Client : Sure(files', call'[c], c)
  <2> SUFFICES ASSUME NEW c \in Client PROVE Sure(files', call'[c], c)
    BY Zenon
  <2>1. Sure(files', resp[c], c) /\ Sure(files', call[c], c)
    BY <1>1, Zenon
  <2> QED BY <2>1, Zenon DEF Sure
<1> QED BY <1>2, <1>3, Zenon DEF AckInv

\* The steps that change no file.
LEMMA AckQuiet ==
    ASSUME BaseInv, BaseInv', DiskInv, AckInv,
           \/ \E c \in Client : AppendCall(c)
           \/ Take \/ Collect \/ CollectEnd \/ Close
           \/ ReadNext \/ Commit
    PROVE  AckInv'
<1>1. files' = files /\ UNCHANGED <<up, next>>
  BY QuietDisk, ZenonT(60)
<1>2. /\ Durable(files) <= Durable(files')
      /\ \A o \in Nat : \A r : On(files, o, r) => On(files', o, r)
  BY <1>1, DurableNat DEF BaseInv, TypeOK
<1>3. resp' = resp
  BY Zenon DEF AppendCall, CheckClosed, Send, Receive, WriterGone, ContextDone, CallOnly,
         Take, Collect, CollectEnd, Close, ReadNext, Commit, clientVars
<1>4. \A c \in Client : call'[c].kind = "acked" => call'[c] \in {call[c], resp[c]}
  <2> SUFFICES ASSUME NEW d \in Client, call'[d].kind = "acked" PROVE call'[d] \in {call[d], resp[d]}
    BY Zenon
  <2>1. CASE call' = call
    BY <2>1, Zenon
  <2>2. CASE \E c \in Client : AppendCall(c)
    <3>1. PICK c \in Client : AppendCall(c)
      BY <2>2, Zenon
    <3>2. \E r \in {resp[c]} \cup [kind : {"closed", "sending", "waiting", "cancelled"}] :
              call' = [call EXCEPT ![c] = r]
      BY <3>1, ZenonT(60) DEF AppendCall, CheckClosed, Send, Receive, WriterGone, ContextDone, Return
    <3>3. call \in [Client -> Final \cup [kind : {"new", "sending", "waiting"}]]
      BY Zenon DEF BaseInv, TypeOK
    <3>4. CASE d # c
      BY <3>2, <3>3, <3>4, Zenon
    <3>5. CASE d = c
      <4>1. call'[d] \in {resp[c]} \cup [kind : {"closed", "sending", "waiting", "cancelled"}]
        BY <3>2, <3>3, <3>5, ZenonT(60)
      <4>2. call'[d] \notin [kind : {"closed", "sending", "waiting", "cancelled"}]
        BY Zenon
      <4> QED BY <3>5, <4>1, <4>2, ZenonT(60)
    <3> QED BY <3>4, <3>5, Zenon
  <2> QED BY <2>1, <2>2, Zenon DEF Take, Collect, CollectEnd, Close, ReadNext, Commit, clientVars
<1>5. up' = "up" => \A j \in 1..written' : On(files', next' - written' + j - 1, batch'[j])
  <2>1. CASE UNCHANGED <<batch, written>>
    BY <1>1, <2>1, Zenon DEF AckInv
  <2>2. CASE written' = 0
    BY <2>2
  <2>3. CASE Collect
    <3>1. written = 0 /\ written' = written
      BY <2>3, ZenonT(60) DEF Collect, DiskInv, MatchWriter
    <3> QED BY <2>2, <3>1, ZenonT(60)
  <2> QED BY <2>1, <2>2, <2>3, ZenonT(60)
          DEF AppendCall, CheckClosed, Send, Receive, WriterGone, ContextDone, CallOnly,
              Take, CollectEnd, Close, ReadNext, Commit, writerVars
<1> QED BY <1>2, <1>3, <1>4, <1>5, AckSame, ZenonT(60)

\* The steps that answer with an error, or only move the writer, keep the records.
LEMMA AckKept ==
    ASSUME BaseInv, BaseInv', AckInv, Kept(files, files'), ~WriteFaults, ~Retention,
           call' = call, \A c \in Client : resp'[c].kind = "acked" => resp'[c] = resp[c],
           up' = "up" => \/ written' = 0
                         \/ up = "up" /\ UNCHANGED <<next, written, batch>>
    PROVE  AckInv'
<1>1. /\ Durable(files) <= Durable(files')
      /\ \A o \in Nat : \A r : On(files, o, r) => On(files', o, r)
  BY Zenon DEF Kept
<1>2. \A c \in Client : call'[c].kind = "acked" => call'[c] \in {call[c], resp[c]}
  BY Zenon
<1>3. up' = "up" => \A j \in 1..written' : On(files', next' - written' + j - 1, batch'[j])
  <2>1. CASE written' = 0
    BY <2>1
  <2>2. CASE up = "up" /\ UNCHANGED <<next, written, batch>>
    <3> SUFFICES ASSUME NEW j \in 1..written PROVE On(files', next - written + j - 1, batch[j])
      BY <2>2, Zenon
    <3>1. next - written + j - 1 \in Nat
      <4>1. written \in Nat /\ next \in Nat /\ written <= next
        BY <2>2 DEF BaseInv, OffsetInv, TypeOK
      <4> QED BY <4>1
    <3>2. On(files, next - written + j - 1, batch[j])
      BY <2>2, Zenon DEF AckInv
    <3> QED BY <1>1, <3>1, <3>2, ZenonT(60)
  <2> QED BY <2>1, <2>2, ZenonT(60)
<1> QED BY <1>1, <1>2, <1>3, AckSame, ZenonT(60)

\* writeBatch returned an error.
LEMMA AckErrors ==
    ASSUME BaseInv, BaseInv', DiskInv, AckInv, ~WriteFaults, ~Retention,
           RollFails \/ HandleClosed \/ SyncFails
    PROVE  AckInv'
<1>1. AnswerError
  BY Zenon DEF RollFails, HandleClosed, SyncFails
<1>2. Kept(files, files')
  BY AnswerDisk, Zenon
<1>3. call' = call /\ written' = 0
  BY <1>1, Zenon DEF AnswerError, Answer
<1>4. \A c \in Client : resp'[c].kind = "acked" => resp'[c] = resp[c]
  <2>1. resp' = [c \in Client |-> IF c \in Range(batch) THEN [kind |-> "failed"] ELSE resp[c]]
    BY <1>1, Zenon DEF AnswerError, Answer
  <2> QED BY <2>1, Zenon
<1> QED BY <1>2, <1>3, <1>4, AckKept, ZenonT(60)

\* A record is written at the offset that its place in the batch gives it.
LEMMA AckWrite ==
    ASSUME BaseInv, BaseInv', DiskInv, AckInv, WriteRecord, ~WriteFaults
    PROVE  AckInv'
<1>1. /\ \A o \in Nat : \A r : On(files, o, r) => On(files', o, r)
      /\ On(files', next, batch[written + 1]) /\ Durable(files') = Durable(files)
  BY WriteDisk, Zenon
<1>2. /\ up = "up" /\ next' = next + 1 /\ written' = written + 1
      /\ UNCHANGED <<batch, call, resp>>
  BY ZenonT(60) DEF WriteRecord, Writing, clientVars
<1>3. written \in Nat /\ next \in Nat /\ written <= next
  BY <1>2 DEF BaseInv, OffsetInv, TypeOK
<1>4. \A j \in 1..written' : On(files', next' - written' + j - 1, batch'[j])
  <2> SUFFICES ASSUME NEW j \in 1..written + 1 PROVE On(files', next - written + j - 1, batch[j])
    <3>1. next' - written' = next - written
      BY <1>2, <1>3
    <3> QED BY <1>2, <3>1, Zenon
  <2>1. next - written + j - 1 \in Nat
    BY <1>3
  <2>2. CASE j = written + 1
    <3>1. next - written + j - 1 = next
      BY <1>3, <2>2
    <3> QED BY <1>1, <2>2, <3>1, ZenonT(60)
  <2>3. CASE j # written + 1
    <3>1. j \in 1..written
      BY <1>3, <2>3
    <3>2. On(files, next - written + j - 1, batch[j])
      BY <1>2, <3>1, ZenonT(60) DEF AckInv
    <3> QED BY <1>1, <2>1, <3>2, ZenonT(60)
  <2> QED BY <2>2, <2>3, Zenon
<1>5. Durable(files) <= Durable(files')
  <2>1. files \in Seq(Segment)
    BY LogTypes, Zenon DEF BaseInv
  <2>2. Durable(files) \in Nat
    BY <2>1, DurableNat, Zenon
  <2>3. \A n \in Nat : n <= n
    OBVIOUS
  <2> QED BY <1>1, <2>2, <2>3, ZenonT(60)
<1>6. /\ \A c \in Client : resp'[c].kind = "acked" => resp'[c] = resp[c]
      /\ \A c \in Client : call'[c].kind = "acked" => call'[c] \in {call[c], resp[c]}
  BY <1>2, Zenon
<1> QED BY <1>1, <1>4, <1>5, <1>6, AckSame, ZenonT(60)

\* fsync has returned when the batch is answered with its offsets.
LEMMA AckSync ==
    ASSUME BaseInv, BaseInv', DiskInv, AckInv, Sync, ~WriteFaults, ~Retention
    PROVE  AckInv'
<1>1. Written /\ AnswerOffsets /\ files' = SyncLast /\ UNCHANGED <<segs, next, handle>>
  BY Zenon DEF Sync, logVars
<1>2. up = "up" /\ wpc = "write" /\ written = Len(batch)
  BY <1>1, Zenon DEF Written
<1>3. /\ wpc' = "idle" /\ written' = 0 /\ UNCHANGED <<up, call>>
      /\ \A c \in Client : resp'[c] = IF c \in Range(batch)
                                     THEN [kind |-> "acked", off |-> OffsetIn(c)] ELSE resp[c]
  BY <1>1, OffsetsAnswered, ZenonT(60)
<1>4. Durable(files') = next
  <2>1. MatchWriter'
    BY <1>3, Zenon DEF MatchWriter
  <2>2. Durable(files') = LastOf(files).base + Len(LastOf(files).recs)
    BY <1>1, <1>2, <1>3, <2>1, FilesSynced, ZenonT(60)
  <2>3. batch # <<>> /\ (~handle => written = 0)
    BY <1>2, ZenonT(60) DEF DiskInv, MatchWriter
  <2>4. batch \in Seq(Client) /\ handle \in BOOLEAN
    BY Zenon DEF BaseInv, TypeOK
  <2>5. handle
    BY <1>2, <2>3, <2>4
  <2> QED BY <1>2, <2>2, <2>5, LastMatched, ZenonT(60)
<1>5. Kept(files, files')
  BY AnswerDisk, Zenon
<1>6. /\ Durable(files) <= Durable(files')
      /\ \A o \in Nat : \A r : On(files, o, r) => On(files', o, r)
  BY <1>5, Zenon DEF Kept
<1>7. ASSUME NEW c \in Range(batch)
      PROVE  On(files', OffsetIn(c), c) /\ OffsetIn(c) < Durable(files')
  <2>1. PICK i \in 1..Len(batch) : /\ batch[i] = c /\ OffsetIn(c) = next - Len(batch) + i - 1
                                   /\ OffsetIn(c) \in Nat
    BY <1>1, <1>7, OffsetInFacts, ZenonT(60)
  <2>2. On(files, next - Len(batch) + i - 1, batch[i])
    BY <1>2, ZenonT(60) DEF AckInv
  <2>3. next \in Nat /\ Len(batch) \in Nat
    BY DEF BaseInv, TypeOK
  <2> QED BY <1>4, <1>6, <2>1, <2>2, <2>3
<1>8. ASSUME NEW c \in Client, NEW a \in {resp[c], call[c]} PROVE Sure(files', a, c)
  <2> SUFFICES ASSUME a.kind = "acked" PROVE On(files', a.off, c) /\ a.off < Durable(files')
    BY Zenon DEF Sure
  <2>1. a.off \in Nat
    BY <1>8, OffsetNat, ZenonT(60) DEF BaseInv
  <2>2. On(files, a.off, c) /\ a.off < Durable(files)
    BY <1>8, ZenonT(60) DEF AckInv, Sure
  <2>3. Durable(files) \in Nat /\ Durable(files') \in Nat
    BY DurableNat, ZenonT(60) DEF BaseInv, TypeOK
  <2>4. a.off < Durable(files')
    BY <1>6, <2>1, <2>2, <2>3
  <2> QED BY <1>6, <2>1, <2>2, <2>4, ZenonT(60)
<1>9. \A c \in Client : Sure(files', resp'[c], c)
  <2> SUFFICES ASSUME NEW c \in Client PROVE Sure(files', resp'[c], c)
    BY Zenon
  <2>1. CASE c \in Range(batch)
    <3> DEFINE o == OffsetIn(c)
    <3>1. resp'[c] = [kind |-> "acked", off |-> o]
      BY <1>3, <2>1, Zenon
    <3>2. On(files', o, c) /\ o < Durable(files')
      BY <1>7, <2>1, Zenon
    <3> HIDE DEF o
    <3>3. resp'[c].off = o
      BY <3>1
    <3> QED BY <3>2, <3>3, Zenon DEF Sure
  <2>2. CASE c \notin Range(batch)
    BY <1>3, <1>8, <2>2, ZenonT(60)
  <2> QED BY <2>1, <2>2, Zenon
<1>10. \A c \in Client : Sure(files', call'[c], c)
  BY <1>3, <1>8, ZenonT(60)
<1>11. \A j \in 1..written' : On(files', next' - written' + j - 1, batch'[j])
  BY <1>3
<1> QED BY <1>9, <1>10, <1>11, ZenonT(60) DEF AckInv

\* A crash loses the answers on their way; what Append has returned stays.
LEMMA AckDown ==
    ASSUME BaseInv, BaseInv', DiskInv, AckInv, Kill \/ LosePower, ~WriteFaults, ~Retention
    PROVE  /\ AckInv'
           /\ \A c \in Client : /\ call'[c].kind = "acked" <=> call[c].kind = "acked"
                                /\ call[c].kind = "acked" => call'[c] = call[c]
<1>1. Down
  BY Zenon DEF Kill, LosePower
<1>2. /\ up' = "down" /\ resp' = [c \in Client |-> None]
      /\ call' = [c \in Client |-> IF call[c].kind \in {"sending", "waiting"}
                                   THEN [kind |-> "cancelled"] ELSE call[c]]
  BY <1>1, Zenon DEF Down
<1>3. /\ Durable(files) <= Durable(files')
      /\ \A o \in Nat : \A r : On(files, o, r) /\ o < Durable(files) => On(files', o, r)
  <2>1. CASE Kill
    BY <2>1, KillDisk, ZenonT(60) DEF Kept
  <2>2. CASE LosePower
    <3>1. /\ Durable(files) <= EndOf(files') /\ Durable(files) <= Durable(files')
          /\ \A o \in Nat : \A r : On(files, o, r) /\ o < EndOf(files') => On(files', o, r)
      BY <2>2, LosePowerDisk, ZenonT(60)
    <3>2. Durable(files) \in Nat /\ EndOf(files') \in Nat
      BY DurableNat, ZenonT(60) DEF BaseInv, TypeOK
    <3> QED BY <3>1, <3>2
  <2> QED BY <2>1, <2>2, Zenon
<1>4. \A c \in Client : resp'[c].kind = "acked" => resp'[c] = resp[c]
  BY <1>2, Zenon DEF None
<1>5. \A c \in Client : /\ call'[c].kind = "acked" <=> call[c].kind = "acked"
                        /\ call[c].kind = "acked" => call'[c] = call[c]
  BY <1>2, Zenon
<1>6. \A c \in Client : call'[c].kind = "acked" => call'[c] \in {call[c], resp[c]}
  BY <1>5, Zenon
<1>7. AckInv'
  BY <1>2, <1>3, <1>4, <1>6, AckSame, ZenonT(60)
<1> QED BY <1>5, <1>7, Zenon

\* Every step keeps the answers true.
LEMMA AckStep ==
    ASSUME BaseInv, BaseInv', DiskInv, AckInv, [Next]_vars,
           ~WriteFaults, ~Retention, Policy # "interval"
    PROVE  AckInv'
<1>1. CASE Open
  <2>1. OpenEmpty \/ OpenExisting
    BY <1>1, OpenRefusedDisk, Zenon DEF Open
  <2>2. Kept(files, files')
    BY <2>1, OpenEmptyDisk, OpenExistingDisk, ZenonT(60)
  <2>3. written' = 0 /\ UNCHANGED <<call, resp>>
    BY <2>1, Zenon DEF OpenEmpty, OpenExisting, Started, clientVars
  <2> QED BY <2>2, <2>3, AckKept, ZenonT(60)
<1>2. CASE \/ \E c \in Client : AppendCall(c)
           \/ Take \/ Collect \/ CollectEnd \/ Close \/ ReadNext \/ Commit
  BY <1>2, AckQuiet, Zenon
<1>3. CASE RollFails \/ HandleClosed \/ SyncFails
  BY <1>3, AckErrors, Zenon
<1>4. CASE Sync
  BY <1>4, AckSync, Zenon
<1>5. CASE WriteRecord
  BY <1>5, AckWrite, Zenon
<1>6. CASE RollCreate \/ RollHeader \/ Quit
  <2>1. Kept(files, files')
    BY <1>6, RollCreateDisk, RollHeaderDisk, QuitDisk, ZenonT(60)
  <2>2. up = "up" /\ UNCHANGED <<next, written, batch, call, resp>>
    BY <1>6, Zenon DEF RollCreate, RollHeader, Quit, Writing, clientVars
  <2> QED BY <2>1, <2>2, AckKept, ZenonT(60)
<1>7. CASE Kill \/ LosePower
  BY <1>7, AckDown, Zenon
<1>8. CASE UNCHANGED vars
  <2>1. UNCHANGED <<files, up, next, written, batch, call, resp>>
    BY <1>8, ZenonT(60) DEF vars, diskVars, logVars, writerVars, clientVars
  <2>2. Kept(files, files')
    BY <2>1, KeptSame, ZenonT(60) DEF BaseInv, TypeOK
  <2> QED BY <2>1, <2>2, AckKept, ZenonT(60)
<1>9. ~WriteFails /\ ~SyncSkipped /\ ~Retain
  BY Zenon DEF WriteFails, SyncSkipped, Retain
<1> QED BY <1>1, <1>2, <1>3, <1>4, <1>5, <1>6, <1>7, <1>8, <1>9, ZenonT(60) DEF Next, Writer

\* Nothing has been answered yet.
LEMMA AckInit == Init => AckInv
<1> SUFFICES ASSUME Init PROVE AckInv
  BY Zenon
<1>1. up = "down" /\ \A c \in Client : resp[c].kind = "none" /\ call[c].kind = "new"
  BY Zenon DEF Init, None
<1>2. \A c \in Client : Sure(files, resp[c], c) /\ Sure(files, call[c], c)
  BY <1>1, ZenonT(60) DEF Sure
<1> QED BY <1>1, <1>2, ZenonT(60) DEF AckInv

\* Append's answers are true, and stay true across kills, power losses, failed
\* fsyncs and failed rolls (writeBatch syncs before it answers).
THEOREM AckInvariance ==
    ASSUME ~WriteFaults, ~Retention, Policy # "interval"
    PROVE  Spec => [](BaseInv /\ DiskInv /\ AckInv)
<1>1. Spec => [](BaseInv /\ DiskInv)
  BY DiskInvariance, Zenon
<1>2. BaseInv /\ BaseInv' /\ DiskInv /\ AckInv /\ [Next]_vars => AckInv'
  BY AckStep, Zenon
<1> QED BY <1>1, <1>2, AckInit, PTL DEF Spec

\* Under the batched and the always policy a record whose Append returned an offset
\* is read back at it, whatever crashes, as long as no write fails short: "in every
\* policy an Append that returned nil error is durable" (SyncPolicy).
THEOREM AckedStays ==
    ASSUME ~WriteFaults, ~Retention, Policy # "interval"
    PROVE  Spec => []AckedReadable
<1>1. BaseInv /\ DiskInv /\ AckInv => AckedReadable
  <2> SUFFICES ASSUME BaseInv, DiskInv, AckInv, NEW c \in Client, Acked(c)
               PROVE  Readable(call[c].off) /\ DiskAt(call[c].off) = c
    BY Zenon DEF AckedReadable
  <2> DEFINE o == call[c].off
  <2>1. TypeOK /\ Shape(files) /\ files \in Seq(Segment)
    BY LogTypes, Zenon DEF BaseInv, DiskInv
  <2>2. o \in Nat /\ On(files, o, c)
    BY OffsetNat, Zenon DEF BaseInv, AckInv, Sure, Acked
  <2> HIDE DEF o
  <2>3. Readable(o)
    BY <2>1, <2>2, LogTypes, ZenonT(60) DEF On, Readable
  <2>4. On(files, o, DiskAt(o))
    BY <2>1, <2>2, <2>3, DiskAtFacts, ZenonT(60) DEF On
  <2>5. DiskAt(o) = c
    BY <2>1, <2>2, <2>4, OnUnique, ZenonT(60)
  <2> QED BY <2>3, <2>5, Zenon DEF o
<1> QED BY <1>1, AckInvariance, PTL

----------------------------------------------------------------------------
(* The refinement.                                                            *)

\* The records of a chain of files, and the pairs that Append has returned.
EntriesOf(s) ==
    [k \in 1..EndOf(s) |->
        IF \E i \in DOMAIN s : Holds(s[i], k - 1)
        THEN LET f == s[CHOOSE i \in DOMAIN s : Holds(s[i], k - 1)] IN f.recs[k - 1 - f.base + 1]
        ELSE Torn]
Pairs(f) == {<<f[c].off, c>> : c \in {d \in Client : f[d].kind = "acked"}}

\* A chain that starts at offset 0 has a record at every offset below its end.
LEMMA EntriesFacts ==
    ASSUME NEW s \in Seq(Segment), Whole(s), ~Retention
    PROVE  /\ EntriesOf(s) \in Seq(Client \cup {Torn}) /\ Len(EntriesOf(s)) = EndOf(s) /\ EndOf(s) \in Nat
           /\ \A o \in Nat : o < EndOf(s) => On(s, o, EntriesOf(s)[o + 1])
<1>1. EndOf(s) \in Nat /\ DOMAIN s = 1..Len(s)
  BY DurableNat
<1>2. ASSUME NEW k \in 1..EndOf(s)
      PROVE  EntriesOf(s)[k] \in Client \cup {Torn} /\ On(s, k - 1, EntriesOf(s)[k])
  <2> DEFINE i == CHOOSE j \in DOMAIN s : Holds(s[j], k - 1)
             f == s[i]
  <2>1. k \in Nat /\ k - 1 \in 0..EndOf(s) - 1 /\ k - 1 \in Nat
    BY <1>1, <1>2
  <2>2. \E j \in DOMAIN s : Holds(s[j], k - 1)
    <3>1. s # <<>>
      BY <1>1, <2>1 DEF EndOf
    <3>2. s[1].base = 0
      BY <3>1, Zenon DEF Whole
    <3>3. k - 1 \in s[1].base..EndOf(s) - 1
      BY <2>1, <3>2, Zenon
    <3> QED BY <1>1, <3>1, <3>3, ZenonT(60) DEF Whole
  <2>3. i \in 1..Len(s) /\ Holds(f, k - 1)
    BY <1>1, <2>2, ZenonT(60)
  <2>4. EntriesOf(s)[k] = f.recs[k - 1 - f.base + 1]
    BY <1>2, <2>2, ZenonT(60) DEF EntriesOf
  <2> HIDE DEF i
  <2>5. f \in Segment
    BY <2>3
  <2> HIDE DEF f
  <2>6. f.base \in Nat /\ f.recs \in Seq(Client \cup {Torn})
    BY <2>5, ZenonT(60) DEF Segment
  <2>7. Valid(f) \in Nat /\ Valid(f) <= Len(f.recs)
    BY <2>5, ValidFacts, ZenonT(60)
  <2>8. k - 1 - f.base + 1 \in 1..Len(f.recs)
    BY <2>1, <2>3, <2>6, <2>7 DEF Holds
  <2>9. f.recs[k - 1 - f.base + 1] \in Client \cup {Torn}
    BY <2>6, <2>8
  <2> QED BY <2>3, <2>4, <2>9, ZenonT(60) DEF On, f
<1>3. EntriesOf(s) = [k \in 1..EndOf(s) |-> EntriesOf(s)[k]]
  BY Zenon DEF EntriesOf
<1>4. EntriesOf(s) \in Seq(Client \cup {Torn}) /\ Len(EntriesOf(s)) = EndOf(s)
  <2> DEFINE e == EntriesOf(s)
  <2>1. \A k \in 1..EndOf(s) : e[k] \in Client \cup {Torn}
    BY <1>2, Zenon
  <2>2. e \in [1..EndOf(s) -> Client \cup {Torn}]
    BY <1>3, <2>1, ZenonT(60)
  <2> HIDE DEF e
  <2> QED BY <1>1, <2>2 DEF e
<1>5. ASSUME NEW o \in Nat, o < EndOf(s) PROVE On(s, o, EntriesOf(s)[o + 1])
  <2>1. o + 1 \in 1..EndOf(s) /\ (o + 1) - 1 = o
    BY <1>1, <1>5
  <2> QED BY <1>2, <2>1, ZenonT(60)
<1> QED BY <1>1, <1>4, <1>5, ZenonT(60)

\* A record of a chain lies below its end.
LEMMA OnBelow ==
    ASSUME NEW s \in Seq(Segment), Shape(s), NEW o \in Nat, NEW r, On(s, o, r)
    PROVE  o < EndOf(s)
<1> DEFINE n == Len(s)
<1>1. PICK i \in 1..n : Holds(s[i], o)
  BY Zenon DEF On
<1>2. n \in Nat /\ s # <<>> /\ n \in 1..n
  BY <1>1
<1>3. /\ s[i].base \in Nat /\ Valid(s[i]) \in Nat
      /\ s[n].base \in Nat /\ Valid(s[n]) \in Nat
  BY <1>2, SegTypes, ZenonT(60)
<1>4. i # n => s[i].base + Valid(s[i]) <= s[n].base
  BY <1>2 DEF Shape
<1>5. EndOf(s) = s[n].base + Valid(s[n])
  BY <1>2, Zenon DEF EndOf, LastOf
<1> HIDE DEF n
<1> QED BY <1>1, <1>3, <1>4, <1>5 DEF Holds

\* The record that a chain has at an offset is its entry there.
LEMMA EntryIs ==
    ASSUME NEW s \in Seq(Segment), Whole(s), Shape(s), ~Retention,
           NEW o \in Nat, o < EndOf(s), NEW r, On(s, o, r)
    PROVE  EntriesOf(s)[o + 1] = r
BY EntriesFacts, OnUnique, Zenon

\* A chain that keeps the records below n of another has its entries there.
LEMMA EntriesKept ==
    ASSUME NEW s \in Seq(Segment), Whole(s), NEW t \in Seq(Segment), Whole(t), Shape(t), ~Retention,
           NEW n \in Nat, n <= EndOf(s), n <= EndOf(t),
           \A o \in Nat : \A r : On(s, o, r) /\ o < n => On(t, o, r)
    PROVE  \A k \in 1..n : EntriesOf(t)[k] = EntriesOf(s)[k]
<1> SUFFICES ASSUME NEW k \in 1..n PROVE EntriesOf(t)[k] = EntriesOf(s)[k]
  BY Zenon
<1> DEFINE o == k - 1
<1>1. EndOf(s) \in Nat /\ EndOf(t) \in Nat
  BY DurableNat, Zenon
<1>2. o \in Nat /\ o < n /\ o < EndOf(s) /\ o < EndOf(t) /\ k = o + 1
  BY <1>1
<1> HIDE DEF o
<1>3. On(s, o, EntriesOf(s)[o + 1])
  BY <1>2, EntriesFacts, ZenonT(60)
<1>4. On(t, o, EntriesOf(s)[o + 1])
  BY <1>2, <1>3, ZenonT(60)
<1> QED BY <1>2, <1>4, EntryIs, ZenonT(60)

\* Sequences of one length that agree everywhere are equal.
LEMMA SeqEqual ==
    ASSUME NEW S, NEW a \in Seq(S), NEW b \in Seq(S), Len(a) = Len(b),
           \A k \in 1..Len(a) : a[k] = b[k]
    PROVE  a = b
OBVIOUS

\* A step that keeps every record leaves the log as it is.
LEMMA EntriesSame ==
    ASSUME NEW s \in Seq(Segment), Whole(s), NEW t \in Seq(Segment), Whole(t), Shape(t),
           ~Retention, ~WriteFaults, Kept(s, t)
    PROVE  EntriesOf(t) = EntriesOf(s)
<1>1. EndOf(t) = EndOf(s) /\ EndOf(s) \in Nat
  BY DurableNat, Zenon DEF Kept
<1>2. \A k \in 1..EndOf(s) : EntriesOf(t)[k] = EntriesOf(s)[k]
  BY <1>1, EntriesKept DEF Kept
<1>3. /\ EntriesOf(t) \in Seq(Client \cup {Torn}) /\ EntriesOf(s) \in Seq(Client \cup {Torn})
      /\ Len(EntriesOf(t)) = EndOf(s) /\ Len(EntriesOf(s)) = EndOf(s)
  BY <1>1, EntriesFacts, Zenon
<1> QED BY <1>2, <1>3, SeqEqual, ZenonT(60)

\* A written record is appended to the log.
LEMMA EntriesGrow ==
    ASSUME NEW s \in Seq(Segment), Whole(s), NEW t \in Seq(Segment), Whole(t), Shape(t), ~Retention,
           EndOf(t) = EndOf(s) + 1, \A o \in Nat : \A r : On(s, o, r) => On(t, o, r),
           NEW v \in Client, On(t, EndOf(s), v)
    PROVE  EntriesOf(t) = Append(EntriesOf(s), v)
<1> DEFINE n == EndOf(s)
           a == EntriesOf(s)
           b == EntriesOf(t)
           S == Client \cup {Torn}
<1>1. a \in Seq(S) /\ Len(a) = n /\ n \in Nat /\ b \in Seq(S) /\ Len(b) = n + 1
  BY EntriesFacts, Zenon
<1>2. \A k \in 1..n : b[k] = a[k]
  <2>1. n <= EndOf(s) /\ n <= EndOf(t)
    <3> HIDE DEF a, b
    <3> QED BY <1>1
  <2> QED BY <1>1, <2>1, EntriesKept, ZenonT(60)
<1>3. b[n + 1] = v
  BY <1>1, EntryIs
<1>4. v \in S
  BY Zenon
<1> HIDE DEF n, a, b, S
<1>5. /\ Append(a, v) \in Seq(S) /\ Len(Append(a, v)) = n + 1
      /\ (\A k \in 1..n : Append(a, v)[k] = a[k]) /\ Append(a, v)[n + 1] = v
  BY <1>1, <1>4
<1>6. \A k \in 1..n + 1 : b[k] = Append(a, v)[k]
  BY <1>1, <1>2, <1>3, <1>5
<1>7. b = Append(a, v)
  BY <1>1, <1>5, <1>6, SeqEqual, ZenonT(60)
<1> QED BY <1>7, Zenon DEF n, a, b

\* A loss of power leaves a prefix of the log.
LEMMA EntriesCut ==
    ASSUME NEW s \in Seq(Segment), Whole(s), NEW t \in Seq(Segment), Whole(t), Shape(t), ~Retention,
           EndOf(t) <= EndOf(s), \A o \in Nat : \A r : On(s, o, r) /\ o < EndOf(t) => On(t, o, r)
    PROVE  EntriesOf(t) = SubSeq(EntriesOf(s), 1, EndOf(t))
<1> DEFINE n == EndOf(t)
           a == EntriesOf(s)
           b == EntriesOf(t)
           S == Client \cup {Torn}
<1>1. a \in Seq(S) /\ n <= Len(a) /\ Len(a) \in Nat /\ n \in Nat /\ b \in Seq(S) /\ Len(b) = n
  BY EntriesFacts, Zenon
<1>2. \A k \in 1..n : b[k] = a[k]
  <2>1. n <= EndOf(s) /\ n <= EndOf(t)
    <3> HIDE DEF a, b
    <3> QED BY <1>1
  <2> QED BY <1>1, <2>1, EntriesKept, ZenonT(60)
<1> HIDE DEF n, a, b, S
<1>3. /\ SubSeq(a, 1, n) \in Seq(S) /\ Len(SubSeq(a, 1, n)) = n
      /\ \A k \in 1..n : SubSeq(a, 1, n)[k] = a[k]
  BY <1>1
<1>4. b = SubSeq(a, 1, n)
  BY <1>1, <1>2, <1>3, SeqEqual, ZenonT(60)
<1> QED BY <1>4, Zenon DEF n, a, b

\* Results that agree on the acknowledged ones give the same pairs.
LEMMA PairsSame ==
    ASSUME NEW f, NEW g,
           \A c \in Client : /\ g[c].kind = "acked" <=> f[c].kind = "acked"
                             /\ f[c].kind = "acked" => g[c] = f[c]
    PROVE  Pairs(g) = Pairs(f)
BY Zenon DEF Pairs

\* The mapping, as functions of the files and of the callers' results.
LEMMA Mapping == /\ Entries = EntriesOf(files) /\ Entries' = EntriesOf(files')
                 /\ {<<call[c].off, c>> : c \in {d \in Client : Acked(d)}} = Pairs(call)
                 /\ {<<call[c].off, c>> : c \in {d \in Client : Acked(d)}}' = Pairs(call')
<1>1. Entries = EntriesOf(files)
  BY Zenon DEF Entries, EntriesOf, LogEnd, EndOf, Readable, DiskAt
<1>2. Entries' = EntriesOf(files')
  BY Zenon DEF Entries, EntriesOf, LogEnd, EndOf, Readable, DiskAt
<1>3. {<<call[c].off, c>> : c \in {d \in Client : Acked(d)}} = Pairs(call)
  BY Zenon DEF Pairs, Acked
<1>4. {<<call[c].off, c>> : c \in {d \in Client : Acked(d)}}' = Pairs(call')
  BY Zenon DEF Pairs, Acked
<1> QED BY <1>1, <1>2, <1>3, <1>4, ZenonT(60)

\* A step of the durable log, in terms of the mapped state.
LogStep(e, p, f, q) ==
    \/ q = p /\ \E v \in Client : f = Append(e, v)
    \/ f = e /\ \E o \in 0..Len(e) - 1 : q = p \cup {<<o, e[o + 1]>>}
    \/ /\ PowerLoss /\ q = p
       /\ \E n \in 0..Len(e) - 1 : f = SubSeq(e, 1, n) /\ \A a \in p : a[1] < n
    \/ f = e /\ q = p

\* A caller that receives an acknowledgement learns of a record of the log; the other
\* steps of Append tell it of none.
LEMMA CallMapped ==
    ASSUME BaseInv, DiskInv, AckInv, ~WriteFaults, ~Retention, NEW c \in Client, AppendCall(c)
    PROVE  LogStep(EntriesOf(files), Pairs(call), EntriesOf(files'), Pairs(call'))
<1>1. files' = files
  BY QuietDisk, ZenonT(60)
<1>2. call \in [Client -> Final \cup [kind : {"new", "sending", "waiting"}]]
  BY Zenon DEF BaseInv, TypeOK
<1>3. call[c].kind # "acked"
  BY Zenon DEF AppendCall, CheckClosed, Send, Receive, WriterGone, ContextDone
<1>4. PICK r : /\ r \in {resp[c]} \cup [kind : {"closed", "sending", "waiting", "cancelled"}]
               /\ call' = [call EXCEPT ![c] = r]
  BY Zenon DEF AppendCall, CheckClosed, Send, Receive, WriterGone, ContextDone, Return
<1>5. call'[c] = r /\ \A d \in Client : d # c => call'[d] = call[d]
  BY <1>2, <1>4, ZenonT(60)
<1>6. CASE r.kind # "acked"
  <2>1. \A d \in Client : /\ call'[d].kind = "acked" <=> call[d].kind = "acked"
                          /\ call[d].kind = "acked" => call'[d] = call[d]
    BY <1>3, <1>5, <1>6, ZenonT(60)
  <2>2. Pairs(call') = Pairs(call)
    BY <2>1, PairsSame, ZenonT(60)
  <2> QED BY <1>1, <2>2, Zenon DEF LogStep
<1>7. CASE r.kind = "acked"
  <2>1. r = resp[c]
    <3>1. r \notin [kind : {"closed", "sending", "waiting", "cancelled"}]
      BY <1>7, Zenon
    <3> QED BY <1>4, <3>1, ZenonT(60)
  <2> DEFINE o == r.off
  <2>2. o \in Nat
    BY <1>7, <2>1, OffsetNat, ZenonT(60) DEF BaseInv
  <2>3. On(files, o, c) /\ o < Durable(files)
    BY <1>7, <2>1, ZenonT(60) DEF AckInv, Sure
  <2> HIDE DEF o
  <2>4. files \in Seq(Segment) /\ Whole(files) /\ Shape(files)
    BY LogTypes, ZenonT(60) DEF BaseInv, DiskInv
  <2>5. o < EndOf(files)
    BY <2>2, <2>3, <2>4, OnBelow, ZenonT(60)
  <2>6. EntriesOf(files)[o + 1] = c
    BY <2>2, <2>3, <2>4, <2>5, EntryIs, ZenonT(60)
  <2>7. o \in 0..Len(EntriesOf(files)) - 1
    BY <2>2, <2>4, <2>5, EntriesFacts
  <2>8. Pairs(call') = Pairs(call) \cup {<<o, c>>}
    <3>1. ASSUME NEW p \in Pairs(call') PROVE p \in Pairs(call) \cup {<<o, c>>}
      BY <1>5, <3>1, ZenonT(60) DEF Pairs, o
    <3>2. ASSUME NEW p \in Pairs(call) PROVE p \in Pairs(call')
      BY <1>3, <1>5, <3>2, ZenonT(60) DEF Pairs
    <3>3. <<o, c>> \in Pairs(call')
      BY <1>5, <1>7, Zenon DEF Pairs, o
    <3> QED BY <3>1, <3>2, <3>3, ZenonT(60)
  <2> QED BY <1>1, <2>6, <2>7, <2>8, ZenonT(60) DEF LogStep
<1> QED BY <1>6, <1>7, ZenonT(60)
\* Every step of the log is a step of the durable log or leaves it as it is.
LEMMA StepMapped ==
    ASSUME BaseInv, BaseInv', DiskInv, DiskInv', AckInv, [Next]_vars,
           ~WriteFaults, ~Retention, Policy # "interval"
    PROVE  LogStep(EntriesOf(files), Pairs(call), EntriesOf(files'), Pairs(call'))
<1>1. /\ files \in Seq(Segment) /\ Whole(files) /\ Shape(files)
      /\ files' \in Seq(Segment) /\ Whole(files') /\ Shape(files')
  BY Zenon DEF BaseInv, TypeOK, DiskInv
<1>2. ASSUME Kept(files, files'), Pairs(call') = Pairs(call)
      PROVE  LogStep(EntriesOf(files), Pairs(call), EntriesOf(files'), Pairs(call'))
  <2>1. EntriesOf(files') = EntriesOf(files)
    BY <1>1, <1>2, EntriesSame, ZenonT(60)
  <2> QED BY <1>2, <2>1, Zenon DEF LogStep
<1>3. CASE \E c \in Client : AppendCall(c)
  BY <1>3, CallMapped, ZenonT(60)
<1>4. CASE WriteRecord
  <2> DEFINE v == batch[written + 1]
  <2>1. /\ EndOf(files) = next /\ EndOf(files') = next + 1 /\ On(files', next, v)
        /\ \A o \in Nat : \A r : On(files, o, r) => On(files', o, r)
    BY <1>4, WriteDisk, ZenonT(60)
  <2>2. v \in Client
    <3>1. batch \in Seq(Client) /\ written \in 0..Len(batch) /\ Len(batch) \in Nat
      BY DEF BaseInv, TypeOK
    <3>2. written < Len(batch)
      BY <1>4, ZenonT(60) DEF WriteRecord, Writing
    <3>3. written + 1 \in 1..Len(batch)
      BY <3>1, <3>2
    <3> QED BY <3>1, <3>3
  <2>3. call' = call
    BY <1>4, Zenon DEF WriteRecord, clientVars
  <2> HIDE DEF v
  <2>4. EntriesOf(files') = Append(EntriesOf(files), v)
    BY <1>1, <2>1, <2>2, EntriesGrow, ZenonT(60)
  <2> QED BY <2>2, <2>3, <2>4, ZenonT(60) DEF LogStep
<1>5. CASE Kill
  <2>1. Pairs(call') = Pairs(call)
    BY <1>5, AckDown, PairsSame, ZenonT(60)
  <2> QED BY <1>2, <1>5, <2>1, KillDisk, ZenonT(60)
<1>6. CASE LosePower
  <2> DEFINE n == EndOf(files')
             e == EntriesOf(files)
  <2>1. Pairs(call') = Pairs(call)
    BY <1>6, AckDown, PairsSame, ZenonT(60)
  <2>2. /\ n <= EndOf(files) /\ Durable(files) <= n
        /\ \A o \in Nat : \A r : On(files, o, r) /\ o < n => On(files', o, r)
    BY <1>6, LosePowerDisk, ZenonT(60)
  <2>3. EntriesOf(files') = SubSeq(e, 1, n)
    BY <1>1, <2>2, EntriesCut, ZenonT(60)
  <2>4. /\ n \in Nat /\ Durable(files) \in Nat /\ e \in Seq(Client \cup {Torn})
        /\ Len(e) = EndOf(files) /\ Len(e) \in Nat
    BY <1>1, EntriesFacts, DurableNat, ZenonT(60)
  <2>5. \A a \in Pairs(call) : a[1] < n
    <3> SUFFICES ASSUME NEW c \in Client, call[c].kind = "acked" PROVE call[c].off < n
      BY DEF Pairs
    <3>1. call[c].off \in Nat /\ call[c].off < Durable(files)
      BY OffsetNat, Zenon DEF BaseInv, AckInv, Sure
    <3> QED BY <2>2, <2>4, <3>1
  <2>6. PowerLoss
    BY <1>6, Zenon DEF LosePower
  <2> HIDE DEF n, e
  <2>7. CASE n = Len(e)
    <3>1. SubSeq(e, 1, n) = e
      BY <2>4, <2>7
    <3>2. EntriesOf(files') = e
      BY <2>3, <3>1, ZenonT(60)
    <3> QED BY <2>1, <3>2, ZenonT(60) DEF LogStep, e
  <2>8. CASE n # Len(e)
    <3>1. n \in 0..Len(e) - 1
      BY <2>2, <2>4, <2>8
    <3> QED BY <2>1, <2>3, <2>5, <2>6, <3>1, ZenonT(60) DEF LogStep, e
  <2> QED BY <2>7, <2>8, ZenonT(60)
<1>7. CASE Open
  <2>1. OpenEmpty \/ OpenExisting
    BY <1>7, OpenRefusedDisk, ZenonT(60) DEF Open
  <2>2. call' = call
    BY <2>1, Zenon DEF OpenEmpty, OpenExisting, Started, clientVars
  <2> QED BY <1>2, <2>1, <2>2, OpenEmptyDisk, OpenExistingDisk, ZenonT(60)
<1>8. CASE Take \/ Collect \/ CollectEnd \/ Close \/ ReadNext \/ Commit
  <2>1. files' = files
    BY <1>8, QuietDisk, ZenonT(60)
  <2>2. call' = call
    BY <1>8, Zenon DEF Take, Collect, CollectEnd, Close, ReadNext, Commit, clientVars
  <2> QED BY <1>1, <1>2, <2>1, <2>2, KeptSame, ZenonT(60)
<1>9. CASE RollFails \/ HandleClosed \/ Sync \/ SyncSkipped \/ SyncFails
  <2>1. call' = call
    BY <1>9, ZenonT(60) DEF RollFails, HandleClosed, Sync, SyncSkipped, SyncFails, AnswerError, AnswerOffsets, Answer
  <2> QED BY <1>2, <1>9, <2>1, AnswerDisk, ZenonT(60)
<1>10. CASE RollCreate \/ RollHeader \/ Quit
  <2>1. call' = call
    BY <1>10, Zenon DEF RollCreate, RollHeader, Quit, clientVars
  <2> QED BY <1>2, <1>10, <2>1, RollCreateDisk, RollHeaderDisk, QuitDisk, ZenonT(60)
<1>11. CASE UNCHANGED vars
  <2>1. UNCHANGED <<files, call>>
    BY <1>11, ZenonT(60) DEF vars, diskVars, clientVars
  <2> QED BY <1>1, <1>2, <2>1, KeptSame, ZenonT(60)
<1>12. ~WriteFails /\ ~Retain
  BY Zenon DEF WriteFails, Retain
<1> QED BY <1>3, <1>4, <1>5, <1>6, <1>7, <1>8, <1>9, <1>10, <1>11, <1>12, ZenonT(60) DEF Next, Writer

\* The write-ahead log implements the durable log: while writes do not fail short,
\* fsync comes before every answer and retention removes nothing, every step of
\* callers, writer, recovery, kills and losses of power appends one record, tells
\* one caller of a record at its offset, loses records above every acknowledged
\* one, or changes nothing a user sees (Append, writeBatch, roll, load).
THEOREM WalImplements ==
    ASSUME ~WriteFaults, ~Retention, Policy # "interval"
    PROVE  Spec => Implements
<1>1. Init => Abstract!Init
  <2> SUFFICES ASSUME Init PROVE Abstract!Init
    BY Zenon
  <2>1. files = <<>> /\ call = [c \in Client |-> [kind |-> "new"]]
    BY Zenon DEF Init
  <2>2. Entries = <<>>
    <3>1. LogEnd = 0
      BY <2>1, ZenonT(60) DEF LogEnd
    <3>2. Entries \in [1..0 -> {}]
      BY <3>1 DEF Entries
    <3> QED BY <3>2
  <2>3. Pairs(call) = {}
    BY <2>1, Zenon DEF Pairs
  <2> QED BY <2>2, <2>3, Mapping, ZenonT(60) DEF Abstract!Init
<1>2. ASSUME LogStep(EntriesOf(files), Pairs(call), EntriesOf(files'), Pairs(call'))
      PROVE  [Abstract!Next]_<<Entries, {<<call[c].off, c>> : c \in {d \in Client : Acked(d)}}>>
  <2> DEFINE p == {<<call[c].off, c>> : c \in {d \in Client : Acked(d)}}
             e == Entries
  <2>1. LogStep(e, p, e', p')
    BY <1>2, Mapping, ZenonT(60)
  <2>2. CASE p' = p /\ \E v \in Client : e' = Append(e, v)
    BY <2>2, ZenonT(60) DEF Abstract!Next, Abstract!Write
  <2>3. CASE e' = e /\ \E o \in 0..Len(e) - 1 : p' = p \cup {<<o, e[o + 1]>>}
    BY <2>3 DEF Abstract!Next, Abstract!Ack
  <2>4. CASE /\ PowerLoss /\ p' = p
             /\ \E n \in 0..Len(e) - 1 : e' = SubSeq(e, 1, n) /\ \A a \in p : a[1] < n
    BY <2>4, Zenon DEF Abstract!Next, Abstract!Lose
  <2>5. CASE e' = e /\ p' = p
    BY <2>5, ZenonT(60)
  <2> QED BY <2>1, <2>2, <2>3, <2>4, <2>5, ZenonT(60) DEF LogStep
<1>3. /\ BaseInv /\ DiskInv /\ AckInv /\ (BaseInv /\ DiskInv /\ AckInv)' /\ [Next]_vars
      => [Abstract!Next]_<<Entries, {<<call[c].off, c>> : c \in {d \in Client : Acked(d)}}>>
  BY <1>2, StepMapped, Zenon
<1>4. Spec => [](BaseInv /\ DiskInv /\ AckInv)
  BY AckInvariance, Zenon
<1> QED BY <1>1, <1>3, <1>4, PTL DEF Spec, Implements, Abstract!Spec

====
