---- MODULE WalSteps ----
(***************************************************************************)
(* What the steps of the log and a loss of power do to a sequence of       *)
(* segment files, the offsets in memory, and what a write does to the      *)
(* files.                                                                  *)
(***************************************************************************)
EXTENDS WalInv, WellFoundedInduction, TLAPS

\* Leaves are tried with SMT, then with Zenon.
USE SMTT(30), Zenon

SegMeta == [base : Nat, records : Nat]

\* What the steps of the writer make of the last file.
WithLast(s, g) == [s EXCEPT ![Len(s)] = g]
Wrote(f, rs) == [f EXCEPT !.recs = @ \o rs]
Synced(f) == [f EXCEPT !.synced = Len(f.recs)]
Headed(f) == [f EXCEPT !.hdr = TRUE]
Cut(f) == [f EXCEPT !.recs = SubSeq(@, 1, Valid(f))]

\* Replacing the last element of a sequence.
LEMMA WithLastFacts ==
    ASSUME NEW S, NEW s \in Seq(S), s # <<>>, NEW g \in S
    PROVE  /\ WithLast(s, g) \in Seq(S) /\ Len(WithLast(s, g)) = Len(s)
           /\ WithLast(s, g) # <<>> /\ LastOf(WithLast(s, g)) = g
           /\ \A i \in 1..Len(s) : i # Len(s) => WithLast(s, g)[i] = s[i]
<1>1. Len(s) \in 1..Len(s)
  OBVIOUS
<1> QED BY <1>1 DEF WithLast, LastOf

\* A sequence of one element.
LEMMA SingleFacts ==
    ASSUME NEW S, NEW g \in S
    PROVE  /\ <<g>> \in Seq(S) /\ Len(<<g>>) = 1 /\ <<g>> # <<>>
           /\ <<g>>[1] = g /\ LastOf(<<g>>) = g
BY DEF LastOf

\* Adding an element to a sequence.
LEMMA AppendFacts ==
    ASSUME NEW S, NEW s \in Seq(S), NEW g \in S
    PROVE  /\ Append(s, g) \in Seq(S) /\ Len(Append(s, g)) = Len(s) + 1 /\ Append(s, g) # <<>>
           /\ Append(s, g)[Len(s) + 1] = g /\ LastOf(Append(s, g)) = g
           /\ \A i \in 1..Len(s) : Append(s, g)[i] = s[i]
BY DEF LastOf

\* Removing the last element of a sequence.
LEMMA FrontFacts ==
    ASSUME NEW S, NEW s \in Seq(S), s # <<>>
    PROVE  LET t == SubSeq(s, 1, Len(s) - 1)
           IN  t \in Seq(S) /\ Len(t) = Len(s) - 1 /\ \A i \in 1..Len(s) - 1 : t[i] = s[i]
<1> DEFINE n == Len(s) - 1
           t == SubSeq(s, 1, n)
<1>1. n \in Nat /\ \A i \in 1..n : i \in 1..Len(s)
  OBVIOUS
<1>2. t = [i \in 1..n |-> s[i]]
  <2>1. \A i \in 1..n : 1 + i - 1 = i
    BY <1>1
  <2> QED BY <1>1, <2>1
<1>3. \A i \in 1..n : s[i] \in S
  BY <1>1
<1> HIDE DEF n, t
<1>4. t \in Seq(S) /\ Len(t) = n /\ \A i \in 1..n : t[i] = s[i]
  BY <1>1, <1>2, <1>3
<1> QED BY <1>4, Zenon DEF n, t

\* Removing the first k elements of a sequence.
LEMMA RestFacts ==
    ASSUME NEW S, NEW s \in Seq(S), NEW k \in Nat, k < Len(s)
    PROVE  LET t == SubSeq(s, k + 1, Len(s))
           IN  t \in Seq(S) /\ Len(t) = Len(s) - k /\ \A i \in 1..Len(s) - k : t[i] = s[i + k]
<1> DEFINE n == Len(s) - k
           t == SubSeq(s, k + 1, Len(s))
<1>1. n \in Nat /\ \A i \in 1..n : i + k \in 1..Len(s)
  OBVIOUS
<1>2. t = [i \in 1..n |-> s[i + k]]
  <2>1. Len(s) - (k + 1) + 1 = n /\ \A i \in 1..n : (k + 1) + i - 1 = i + k
    BY <1>1
  <2> QED BY <1>1, <2>1
<1>3. \A i \in 1..n : s[i + k] \in S
  BY <1>1
<1> HIDE DEF n, t
<1>4. t \in Seq(S) /\ Len(t) = n /\ \A i \in 1..n : t[i] = s[i + k]
  BY <1>1, <1>2, <1>3
<1> QED BY <1>4, Zenon DEF n, t

\* scanSegment counts the records before the first bytes that are not one.
LEMMA ValidFacts ==
    ASSUME NEW f \in Segment
    PROVE  /\ Valid(f) \in Nat /\ Valid(f) <= Len(f.recs) /\ Len(f.recs) \in Nat
           /\ \A j \in 1..Valid(f) : f.recs[j] # Torn
           /\ f.hdr => Valid(f) = Len(f.recs) \/ f.recs[Valid(f) + 1] = Torn
<1> DEFINE l == Len(f.recs)
           B == {n \in 0..l : n = l \/ f.recs[n + 1] = Torn}
<1>1. l \in Nat
  BY DEF Segment
<1> HIDE DEF l
<1>2. B \subseteq Nat /\ l \in B
  BY <1>1
<1>3. PICK m \in B : \A x \in Nat : <<x, m>> \in OpToRel(<, Nat) => x \notin B
  BY <1>2, NatLessThanWellFounded, WFMin, Zenon
<1>4. ASSUME NEW j \in 1..m PROVE f.recs[j] # Torn
  <2>1. j - 1 \in Nat /\ j - 1 < m /\ m \in Nat /\ j - 1 \in 0..l /\ (j - 1) + 1 = j
    BY <1>1, <1>2
  <2>2. <<j - 1, m>> \in OpToRel(<, Nat)
    BY <2>1, Zenon DEF OpToRel
  <2>3. j - 1 \notin B
    BY <1>3, <2>1, <2>2, Zenon
  <2> QED BY <2>1, <2>3, Zenon
<1>5. /\ m \in 0..l /\ \A j \in 1..m : f.recs[j] # Torn
      /\ m = l \/ f.recs[m + 1] = Torn
  BY <1>3, <1>4, Zenon
<1>6. f.hdr => /\ Valid(f) \in 0..l /\ \A j \in 1..Valid(f) : f.recs[j] # Torn
               /\ Valid(f) = l \/ f.recs[Valid(f) + 1] = Torn
  BY <1>5, Zenon DEF Valid, l
<1>7. ~f.hdr => Valid(f) = 0
  BY Zenon DEF Valid
<1> QED BY <1>1, <1>6, <1>7 DEF l

\* The count of a scan is determined by that.
LEMMA ValidIs ==
    ASSUME NEW f \in Segment, f.hdr, NEW n \in Nat, n <= Len(f.recs),
           \A j \in 1..n : f.recs[j] # Torn, n = Len(f.recs) \/ f.recs[n + 1] = Torn
    PROVE  Valid(f) = n
<1>1. /\ Valid(f) \in Nat /\ Valid(f) <= Len(f.recs) /\ Len(f.recs) \in Nat
      /\ \A j \in 1..Valid(f) : f.recs[j] # Torn
      /\ Valid(f) = Len(f.recs) \/ f.recs[Valid(f) + 1] = Torn
  BY ValidFacts, Zenon
<1>2. ASSUME Valid(f) < n PROVE FALSE
  <2>1. Valid(f) + 1 \in 1..n /\ Valid(f) # Len(f.recs)
    BY <1>1, <1>2
  <2> QED BY <1>1, <2>1, Zenon
<1>3. ASSUME n < Valid(f) PROVE FALSE
  <2>1. n + 1 \in 1..Valid(f) /\ n # Len(f.recs)
    BY <1>1, <1>3
  <2> QED BY <1>1, <2>1, Zenon
<1> QED BY <1>1, <1>2, <1>3

\* The last file after a sync and after its header is written.
LEMMA SyncedFacts ==
    ASSUME NEW f \in Segment
    PROVE  /\ Synced(f) \in Segment /\ Synced(f).base = f.base /\ Synced(f).hdr = f.hdr
           /\ Synced(f).recs = f.recs /\ Synced(f).synced = Len(f.recs)
           /\ Valid(Synced(f)) = Valid(f)
<1>1. Len(f.recs) \in Nat
  BY DEF Segment
<1>2. /\ Synced(f) \in Segment /\ Synced(f).base = f.base /\ Synced(f).hdr = f.hdr
      /\ Synced(f).recs = f.recs /\ Synced(f).synced = Len(f.recs)
  BY <1>1, Zenon DEF Synced, Segment
<1> QED BY <1>2 DEF Valid

\* A file with its header written.
LEMMA HeadedFacts ==
    ASSUME NEW f \in Segment
    PROVE  /\ Headed(f) \in Segment /\ Headed(f).base = f.base /\ Headed(f).hdr
           /\ Headed(f).recs = f.recs /\ Headed(f).synced = f.synced
BY Zenon DEF Headed, Segment

\* A write goes behind what is there; behind torn bytes no scan finds it.
LEMMA WroteFacts ==
    ASSUME NEW f \in Segment, NEW x \in Client \cup {Torn}
    PROVE  LET g == Wrote(f, <<x>>)
           IN  /\ g \in Segment /\ g.base = f.base /\ g.hdr = f.hdr /\ g.synced = f.synced
               /\ Len(g.recs) = Len(f.recs) + 1 /\ g.recs[Len(f.recs) + 1] = x
               /\ \A j \in 1..Len(f.recs) : g.recs[j] = f.recs[j]
               /\ Valid(g) = IF f.hdr /\ x # Torn /\ Valid(f) = Len(f.recs)
                             THEN Valid(f) + 1 ELSE Valid(f)
<1> DEFINE g == Wrote(f, <<x>>)
           l == Len(f.recs)
<1>1. f.recs \in Seq(Client \cup {Torn}) /\ l \in Nat
  BY DEF Segment
<1>2. /\ f.recs \o <<x>> \in Seq(Client \cup {Torn}) /\ Len(f.recs \o <<x>>) = l + 1
      /\ (f.recs \o <<x>>)[l + 1] = x /\ \A j \in 1..l : (f.recs \o <<x>>)[j] = f.recs[j]
  BY <1>1
<1>3. /\ g \in Segment /\ g.base = f.base /\ g.hdr = f.hdr /\ g.synced = f.synced
      /\ g.recs = f.recs \o <<x>>
  BY <1>2, Zenon DEF Wrote, Segment
<1>4. /\ Len(g.recs) = l + 1 /\ g.recs[l + 1] = x /\ \A j \in 1..l : g.recs[j] = f.recs[j]
  BY <1>2, <1>3, Zenon
<1> HIDE DEF g
<1>5. /\ Valid(f) \in Nat /\ Valid(f) <= l
      /\ \A j \in 1..Valid(f) : f.recs[j] # Torn
      /\ f.hdr => Valid(f) = l \/ f.recs[Valid(f) + 1] = Torn
  BY ValidFacts, Zenon
<1> HIDE DEF l
<1>6. ASSUME ~f.hdr PROVE Valid(g) = Valid(f)
  BY <1>3, <1>6, Zenon DEF Valid
<1>7. ASSUME f.hdr, x # Torn, Valid(f) = l PROVE Valid(g) = Valid(f) + 1
  <2>1. \A j \in 1..l + 1 : g.recs[j] # Torn
    BY <1>1, <1>4, <1>5, <1>7
  <2>2. g.hdr /\ l + 1 \in Nat /\ l + 1 <= Len(g.recs) /\ l + 1 = Len(g.recs)
    BY <1>1, <1>3, <1>4, <1>7
  <2>3. Valid(g) = l + 1
    BY <1>3, <2>1, <2>2, ValidIs, Zenon
  <2> QED BY <1>7, <2>3, Zenon
<1>8. ASSUME f.hdr, x = Torn \/ Valid(f) # l PROVE Valid(g) = Valid(f)
  <2>1. \A j \in 1..Valid(f) : g.recs[j] # Torn
    BY <1>1, <1>4, <1>5
  <2>2. g.recs[Valid(f) + 1] = Torn
    <3>1. CASE Valid(f) = l
      BY <1>4, <1>8, <3>1, Zenon
    <3>2. CASE Valid(f) # l
      <4>1. Valid(f) + 1 \in 1..l
        BY <1>1, <1>5, <3>2
      <4> QED BY <1>4, <1>5, <1>8, <3>2, <4>1, Zenon
    <3> QED BY <3>1, <3>2, Zenon
  <2>3. Valid(f) <= Len(g.recs)
    BY <1>1, <1>4, <1>5
  <2>4. g.hdr
    BY <1>3, <1>8, Zenon
  <2> QED BY <1>3, <1>5, <2>1, <2>2, <2>3, <2>4, ValidIs, ZenonT(60)
<1>9. Valid(g) = IF f.hdr /\ x # Torn /\ Valid(f) = l THEN Valid(f) + 1 ELSE Valid(f)
  BY <1>6, <1>7, <1>8, Zenon
<1> QED BY <1>3, <1>4, <1>9, Zenon DEF g, l

\* Truncating the torn tail keeps the records a scan finds.
LEMMA CutFacts ==
    ASSUME NEW f \in Segment
    PROVE  LET g == Cut(f)
           IN  /\ g \in Segment /\ g.base = f.base /\ g.hdr = f.hdr /\ g.synced = f.synced
               /\ Len(g.recs) = Valid(f) /\ \A j \in 1..Valid(f) : g.recs[j] = f.recs[j]
               /\ Valid(g) = Valid(f)
<1> DEFINE g == Cut(f)
           v == Valid(f)
           t == SubSeq(f.recs, 1, v)
<1>1. f.recs \in Seq(Client \cup {Torn})
  BY Zenon DEF Segment
<1>2. v \in Nat /\ v <= Len(f.recs) /\ \A j \in 1..v : f.recs[j] # Torn
  BY ValidFacts, Zenon
<1> HIDE DEF v
<1>3. t \in Seq(Client \cup {Torn}) /\ Len(t) = v /\ \A j \in 1..v : t[j] = f.recs[j]
  <2>1. t = [j \in 1..v |-> f.recs[j]]
    <3>1. \A i \in 1..v : 1 + i - 1 = i
      BY <1>2
    <3> QED BY <1>1, <1>2, <3>1
  <2>2. \A j \in 1..v : f.recs[j] \in Client \cup {Torn}
    BY <1>1, <1>2
  <2> HIDE DEF t
  <2> QED BY <1>2, <2>1, <2>2
<1>4. /\ g \in Segment /\ g.base = f.base /\ g.hdr = f.hdr /\ g.synced = f.synced
      /\ g.recs = t
  BY <1>3, Zenon DEF Cut, Segment, v
<1> HIDE DEF g, t
<1>5. Valid(g) = v
  <2>1. CASE ~f.hdr
    BY <1>4, <2>1, Zenon DEF Valid, v
  <2>2. CASE f.hdr
    <3>1. g.hdr /\ v <= Len(g.recs) /\ v = Len(g.recs) /\ \A j \in 1..v : g.recs[j] # Torn
      BY <1>2, <1>3, <1>4, <2>2
    <3> QED BY <1>2, <1>4, <3>1, ValidIs, Zenon
  <2> QED BY <2>1, <2>2, Zenon
<1> QED BY <1>3, <1>4, <1>5, Zenon DEF g, v

\* The survivors of a file are files.
LEMMA SurvivorTypes ==
    ASSUME NEW f \in Segment, NEW t \in Survivors(f)
    PROVE  t \in Seq(Segment) /\ (t = <<>> \/ \E g \in Segment : t = <<g>>)
<1> DEFINE part(n, tail) == [f EXCEPT !.recs = SubSeq(f.recs, 1, n) \o tail, !.synced = n]
           least == IF f.synced < 0 THEN 0 ELSE f.synced
<1>1. /\ f.recs \in Seq(Client \cup {Torn}) /\ f.synced \in Nat \cup {-1} /\ f.base \in Nat
      /\ Len(f.recs) \in Nat
  BY DEF Segment
<1>2. least \in Nat
  BY <1>1
<1>3. \A n \in least..Len(f.recs) : \A tail \in Seq(Client \cup {Torn}) : part(n, tail) \in Segment
  <2> SUFFICES ASSUME NEW n \in least..Len(f.recs), NEW tail \in Seq(Client \cup {Torn})
               PROVE  part(n, tail) \in Segment
    BY Zenon
  <2>1. n \in Nat /\ n <= Len(f.recs)
    BY <1>1, <1>2
  <2>2. SubSeq(f.recs, 1, n) \in Seq(Client \cup {Torn})
    BY <1>1, <2>1
  <2>3. SubSeq(f.recs, 1, n) \o tail \in Seq(Client \cup {Torn})
    BY <2>2
  <2> QED BY <2>1, <2>3, Zenon DEF Segment
<1>4. NewSegment(f.base, FALSE) \in Segment
  BY <1>1 DEF NewSegment, Segment
<1>5. \/ t = <<>>
      \/ t = <<NewSegment(f.base, FALSE)>>
      \/ \E n \in least..Len(f.recs) : t = <<part(n, <<>>)>>
      \/ \E n \in least..Len(f.recs) - 1 : t = <<part(n, <<Torn>>)>>
  BY Zenon DEF Survivors
<1>6. \A n \in least..Len(f.recs) - 1 : n \in least..Len(f.recs)
  BY <1>1, <1>2
<1>7. <<>> \in Seq(Client \cup {Torn}) /\ <<Torn>> \in Seq(Client \cup {Torn})
  OBVIOUS
<1> HIDE DEF part, least
<1>8. t = <<>> \/ \E g \in Segment : t = <<g>>
  <2>1. ASSUME NEW n \in least..Len(f.recs), t = <<part(n, <<>>)>>
        PROVE  \E g \in Segment : t = <<g>>
    BY <1>3, <1>7, <2>1, Zenon
  <2>2. ASSUME NEW n \in least..Len(f.recs) - 1, t = <<part(n, <<Torn>>)>>
        PROVE  \E g \in Segment : t = <<g>>
    BY <1>3, <1>6, <1>7, <2>2, Zenon
  <2>3. CASE t = <<>> \/ t = <<NewSegment(f.base, FALSE)>>
    BY <1>4, <2>3, Zenon
  <2>4. CASE \E n \in least..Len(f.recs) : t = <<part(n, <<>>)>>
    BY <2>1, <2>4, Zenon
  <2>5. CASE \E n \in least..Len(f.recs) - 1 : t = <<part(n, <<Torn>>)>>
    BY <2>2, <2>5, Zenon
  <2> QED BY <1>5, <2>3, <2>4, <2>5, Zenon
<1>9. <<>> \in Seq(Segment)
  OBVIOUS
<1> QED BY <1>8, <1>9, SingleFacts, ZenonT(60)

\* The types of the files in a sequence.
LEMMA SegTypes ==
    ASSUME NEW s \in Seq(Segment)
    PROVE  \A i \in 1..Len(s) : /\ s[i] \in Segment /\ s[i].base \in Nat
                                /\ Len(s[i].recs) \in Nat /\ Valid(s[i]) \in Nat
<1> SUFFICES ASSUME NEW i \in 1..Len(s)
             PROVE  /\ s[i] \in Segment /\ s[i].base \in Nat
                    /\ Len(s[i].recs) \in Nat /\ Valid(s[i]) \in Nat
  BY Zenon
<1>1. s[i] \in Segment
  OBVIOUS
<1>2. s[i].base \in Nat
  BY <1>1, Zenon DEF Segment
<1> QED BY <1>1, <1>2, ValidFacts, Zenon

----------------------------------------------------------------------------
(* Offsets in memory, for all constants.                                     *)

\* The types of the files, the segments and the last of each.
LEMMA LogTypes ==
    ASSUME TypeOK
    PROVE  /\ files \in Seq(Segment) /\ Len(files) \in Nat /\ DOMAIN files = 1..Len(files)
           /\ segs \in Seq(SegMeta) /\ Len(segs) \in Nat
           /\ files # <<>> => LastOf(files) \in Segment
           /\ segs # <<>> => /\ LastOf(segs) \in SegMeta /\ End(LastOf(segs)) \in Nat
                             /\ Len(segs) \in 1..Len(segs) /\ 1 \in 1..Len(segs)
           /\ \A i \in 1..Len(segs) : /\ segs[i] \in SegMeta /\ End(segs[i]) \in Nat
                                      /\ segs[i].base \in Nat /\ segs[i].records \in Nat
<1>1. files \in Seq(Segment) /\ segs \in Seq(SegMeta)
  BY Zenon DEF TypeOK, SegMeta
<1>2. \A i \in 1..Len(segs) : segs[i] \in SegMeta
  BY <1>1
<1>3. \A i \in 1..Len(segs) : segs[i].base \in Nat /\ segs[i].records \in Nat
  BY <1>2, Zenon DEF SegMeta
<1>4. segs # <<>> => Len(segs) \in 1..Len(segs) /\ 1 \in 1..Len(segs)
  BY <1>1
<1>5. files # <<>> => Len(files) \in 1..Len(files)
  BY <1>1
<1> QED BY <1>1, <1>2, <1>3, <1>4, <1>5 DEF LastOf, End

\* The writer's answer to its batch.
LEMMA ErrorAnswered ==
    ASSUME TypeOK, AnswerError
    PROVE  /\ resp' \in [Client -> Final \cup {None}]
           /\ wpc' = "idle" /\ batch' = <<>> /\ written' = 0
           /\ UNCHANGED <<committed, up, reqs, closed, call, readerVars, crashVars>>
<1>1. [kind |-> "failed"] \in Final
  BY Zenon DEF Final
<1>2. resp' = [c \in Client |-> IF c \in Range(batch) THEN [kind |-> "failed"] ELSE resp[c]]
  BY Zenon DEF AnswerError, Answer
<1>3. resp \in [Client -> Final \cup {None}]
  BY Zenon DEF TypeOK
<1>4. resp' \in [Client -> Final \cup {None}]
  BY <1>1, <1>2, <1>3, Zenon
<1> QED BY <1>4, Zenon DEF AnswerError, Answer

\* OffsetIn, when the batch is written: an offset before the head.
LEMMA OffsetInFacts ==
    ASSUME BaseInv, Written, NEW c \in Range(batch)
    PROVE  \E i \in 1..Len(batch) : /\ batch[i] = c /\ OffsetIn(c) = next - Len(batch) + i - 1
                                    /\ OffsetIn(c) \in Nat
<1> DEFINE i == CHOOSE j \in DOMAIN batch : batch[j] = c
<1>1. batch \in Seq(Client) /\ Len(batch) \in Nat /\ DOMAIN batch = 1..Len(batch)
  BY DEF BaseInv, TypeOK
<1>2. i \in 1..Len(batch) /\ batch[i] = c
  BY <1>1, Zenon DEF Range
<1>3. OffsetIn(c) = next - Len(batch) + i - 1
  BY Zenon DEF OffsetIn
<1>4. Len(batch) <= next /\ next \in Nat
  BY Zenon DEF Written, BaseInv, OffsetInv, TypeOK
<1> HIDE DEF i
<1> QED BY <1>1, <1>2, <1>3, <1>4

\* writeBatch succeeded: every request of the batch gets its offset.
LEMMA OffsetsAnswered ==
    ASSUME BaseInv, Written, AnswerOffsets
    PROVE  /\ resp' \in [Client -> Final \cup {None}]
           /\ wpc' = "idle" /\ batch' = <<>> /\ written' = 0
           /\ UNCHANGED <<committed, up, reqs, closed, call, readerVars, crashVars>>
           /\ \A c \in Client : resp'[c] = IF c \in Range(batch)
                                          THEN [kind |-> "acked", off |-> OffsetIn(c)] ELSE resp[c]
<1>1. \A c \in Range(batch) : [kind |-> "acked", off |-> OffsetIn(c)] \in Final
  <2> SUFFICES ASSUME NEW c \in Range(batch)
               PROVE  [kind |-> "acked", off |-> OffsetIn(c)] \in Final
    BY Zenon
  <2>1. OffsetIn(c) \in Nat
    BY OffsetInFacts, Zenon
  <2> QED BY <2>1, Zenon DEF Final
<1>2. resp' = [c \in Client |-> IF c \in Range(batch)
                               THEN [kind |-> "acked", off |-> OffsetIn(c)] ELSE resp[c]]
  BY Zenon DEF AnswerOffsets, Answer
<1>3. resp \in [Client -> Final \cup {None}]
  BY Zenon DEF BaseInv, TypeOK
<1>4. resp' \in [Client -> Final \cup {None}]
  BY <1>1, <1>2, <1>3, Zenon
<1> QED BY <1>2, <1>4, Zenon DEF AnswerOffsets, Answer

\* After an answer the writer is idle, and the segments are as before.
LEMMA AfterAnswer ==
    ASSUME BaseInv, resp' \in [Client -> Final \cup {None}],
           wpc' = "idle", batch' = <<>>, written' = 0,
           UNCHANGED <<committed, up, reqs, closed, call, readerVars, crashVars, segs, next>>,
           files' \in Seq(Segment), Len(files') = Len(files), handle' \in BOOLEAN
    PROVE  BaseInv'
<1>1. batch' \in Seq(Client) /\ Len(batch') <= MaxBatch /\ written' \in 0..Len(batch')
  BY WalAssumption
<1>2. TypeOK'
  BY <1>1, Zenon DEF BaseInv, TypeOK, readerVars, crashVars
<1>3. OffsetInv'
  BY DEF BaseInv, TypeOK, OffsetInv, readerVars
<1> QED BY <1>2, <1>3, Zenon DEF BaseInv

\* A write to the last file.
LEMMA WriteToFacts ==
    ASSUME TypeOK, files # <<>>, NEW x \in Client \cup {Torn}, WriteTo(<<x>>)
    PROVE  /\ files' = WithLast(files, Wrote(LastOf(files), <<x>>))
           /\ files' \in Seq(Segment) /\ Len(files') = Len(files)
<1>1. files \in Seq(Segment) /\ LastOf(files) \in Segment
  BY LogTypes, Zenon
<1>2. files' = WithLast(files, Wrote(LastOf(files), <<x>>))
  BY Zenon DEF WriteTo, WithLast, Wrote, LastOf, LastFile
<1>3. Wrote(LastOf(files), <<x>>) \in Segment
  BY <1>1, WroteFacts, Zenon
<1> QED BY <1>1, <1>2, <1>3, WithLastFacts, Zenon

\* A write that left nothing in the file.
LEMMA WriteNothing ==
    ASSUME TypeOK, files # <<>>, WriteTo(<<>>)
    PROVE  files' = files
<1>1. files \in Seq(Segment) /\ LastOf(files) \in Segment /\ Len(files) \in 1..Len(files)
  BY LogTypes
<1>2. files[Len(files)].recs \o <<>> = files[Len(files)].recs
  BY <1>1 DEF Segment, LastOf
<1> QED BY <1>1, <1>2 DEF WriteTo, LastFile, Segment, LastOf

\* What an fsync of the active file changes.
LEMMA SyncLastFacts ==
    ASSUME TypeOK, files # <<>>
    PROVE  /\ SyncLast = WithLast(files, Synced(LastOf(files)))
           /\ SyncLast \in Seq(Segment) /\ Len(SyncLast) = Len(files)
<1>1. files \in Seq(Segment) /\ LastOf(files) \in Segment
  BY LogTypes, Zenon
<1>2. SyncLast = WithLast(files, Synced(LastOf(files)))
  BY Zenon DEF SyncLast, WithLast, Synced, LastOf, LastFile
<1>3. Synced(LastOf(files)) \in Segment
  BY <1>1, SyncedFacts, Zenon
<1> QED BY <1>1, <1>2, <1>3, WithLastFacts, Zenon

\* The steps that answer a batch.
LEMMA AnswerSteps ==
    ASSUME BaseInv, WriteFails \/ RollFails \/ HandleClosed \/ Sync \/ SyncSkipped \/ SyncFails
    PROVE  BaseInv'
<1>1. TypeOK /\ up = "up" /\ files # <<>> /\ files \in Seq(Segment) /\ handle \in BOOLEAN
  <2>1. TypeOK /\ up = "up"
    BY Zenon DEF BaseInv, WriteFails, RollFails, HandleClosed, Sync, SyncSkipped, SyncFails, Writing,
           Written
  <2>2. Len(files) > 0
    BY <2>1, LogTypes DEF BaseInv, OffsetInv
  <2> QED BY <2>1, <2>2, LogTypes DEF TypeOK
<1>2. SyncLast \in Seq(Segment) /\ Len(SyncLast) = Len(files)
  BY <1>1, SyncLastFacts, Zenon
<1>3. CASE WriteFails
  <2>1. files' \in Seq(Segment) /\ Len(files') = Len(files)
    BY <1>1, <1>3, WriteToFacts, WriteNothing, Zenon DEF WriteFails
  <2>2. AnswerError /\ UNCHANGED <<segs, next, handle>>
    BY <1>3, Zenon DEF WriteFails, logVars
  <2> QED BY <1>1, <2>1, <2>2, ErrorAnswered, AfterAnswer, Zenon
<1>4. CASE RollFails
  <2>1. files' \in Seq(Segment) /\ Len(files') = Len(files) /\ handle' \in BOOLEAN
    BY <1>1, <1>2, <1>4, Zenon DEF RollFails
  <2>2. AnswerError /\ UNCHANGED <<segs, next>>
    BY <1>4, Zenon DEF RollFails
  <2> QED BY <1>1, <2>1, <2>2, ErrorAnswered, AfterAnswer, Zenon
<1>5. CASE HandleClosed \/ SyncFails
  <2>1. AnswerError /\ UNCHANGED <<files, segs, next, handle>>
    BY <1>5, Zenon DEF HandleClosed, SyncFails, logVars
  <2> QED BY <1>1, <2>1, ErrorAnswered, AfterAnswer, Zenon
<1>6. CASE Sync \/ SyncSkipped
  <2>1. /\ Written /\ AnswerOffsets /\ UNCHANGED <<segs, next, handle>>
        /\ files' \in Seq(Segment) /\ Len(files') = Len(files)
    BY <1>1, <1>2, <1>6, Zenon DEF Sync, SyncSkipped, logVars
  <2> QED BY <1>1, <2>1, OffsetsAnswered, AfterAnswer, Zenon
<1> QED BY <1>3, <1>4, <1>5, <1>6, Zenon

\* The steps of callers, and those that only move the writer or Close.
LEMMA QuietSteps ==
    ASSUME BaseInv,
           \/ \E c \in Client : AppendCall(c)
           \/ Take \/ Collect \/ CollectEnd \/ Close
    PROVE  /\ BaseInv' /\ up = "up"
           /\ UNCHANGED <<files, committed, up, segs, next, handle, resp, pos, delivered, crashes, outage>>
<1> USE DEF BaseInv
<1>1. CASE \E c \in Client : AppendCall(c)
  <2>1. PICK c \in Client : AppendCall(c)
    BY <1>1, Zenon
  <2>2. CallOnly /\ up = "up"
    BY <2>1, Zenon DEF AppendCall, CheckClosed, Send, Receive, WriterGone, ContextDone
  <2>3. \E r \in Final \cup [kind : {"new", "sending", "waiting"}] : Return(c, r)
    <3>1. resp[c] \in Final \cup {None}
      BY Zenon DEF TypeOK
    <3>2. \A k \in {"closed", "sending", "waiting", "cancelled"} :
              [kind |-> k] \in Final \cup [kind : {"new", "sending", "waiting"}]
      BY Zenon DEF Final
    <3>3. CASE CheckClosed(c)
      BY <3>2, <3>3, Zenon DEF CheckClosed
    <3>4. CASE Send(c)
      BY <3>2, <3>4, Zenon DEF Send
    <3>5. CASE Receive(c)
      BY <3>1, <3>5, Zenon DEF Receive
    <3>6. CASE WriterGone(c) \/ ContextDone(c)
      BY <3>2, <3>6, Zenon DEF WriterGone, ContextDone
    <3> QED BY <2>1, <3>3, <3>4, <3>5, <3>6, Zenon DEF AppendCall
  <2>4. call' \in [Client -> Final \cup [kind : {"new", "sending", "waiting"}]]
    BY <2>3, Zenon DEF Return, TypeOK
  <2>5. reqs' \in Seq(Client) /\ Len(reqs') <= MaxPending
    <3>1. reqs \in Seq(Client) /\ Len(reqs) <= MaxPending
      BY Zenon DEF TypeOK
    <3>2. CASE Send(c)
      BY <3>1, <3>2, WalAssumption DEF Send
    <3>3. CASE ~Send(c)
      BY <2>1, <3>1, <3>3, Zenon DEF AppendCall, CheckClosed, Receive, WriterGone, ContextDone
    <3> QED BY <3>2, <3>3, Zenon
  <2>6. TypeOK'
    BY <2>2, <2>4, <2>5, Zenon DEF TypeOK, CallOnly, diskVars, logVars, readerVars, crashVars
  <2>7. OffsetInv'
    BY <2>2, Zenon DEF OffsetInv, CallOnly, diskVars, logVars, readerVars
  <2> QED BY <2>2, <2>6, <2>7, Zenon DEF CallOnly, diskVars, logVars, readerVars, crashVars
<1>2. CASE Take
  <2>1. /\ up = "up"
        /\ UNCHANGED <<files, committed, up, segs, next, handle, closed, call, resp, pos, delivered, crashes, outage>>
    BY <1>2, Zenon DEF Take, diskVars, logVars, clientVars, readerVars, crashVars
  <2>2. /\ reqs' \in Seq(Client) /\ Len(reqs') <= MaxPending
        /\ batch' \in Seq(Client) /\ Len(batch') <= MaxBatch /\ written' \in 0..Len(batch')
    BY <1>2, WalAssumption DEF Take, TypeOK
  <2>3. wpc' \in {"write", "collect"} /\ written' = 0
    BY <1>2, Zenon DEF Take
  <2>4. TypeOK'
    BY <2>1, <2>2, <2>3, ZenonT(60) DEF TypeOK
  <2>5. OffsetInv'
    BY <2>1, <2>3 DEF OffsetInv, TypeOK
  <2> QED BY <2>1, <2>4, <2>5, Zenon
<1>3. CASE Collect
  <2>1. /\ up = "up"
        /\ UNCHANGED <<files, committed, up, segs, next, handle, wpc, written, closed, call, resp, pos, delivered,
                       crashes, outage>>
    BY <1>3, Zenon DEF Collect, diskVars, logVars, clientVars, readerVars, crashVars
  <2>2. /\ reqs' \in Seq(Client) /\ Len(reqs') <= MaxPending
        /\ batch' \in Seq(Client) /\ Len(batch') <= MaxBatch /\ written' \in 0..Len(batch')
    <3>1. /\ reqs \in Seq(Client) /\ Len(reqs) <= MaxPending /\ reqs # <<>>
          /\ batch \in Seq(Client) /\ Len(batch) < MaxBatch /\ written \in 0..Len(batch)
      BY <1>3, Zenon DEF Collect, TypeOK
    <3>2. Head(reqs) \in Client /\ reqs' \in Seq(Client) /\ Len(reqs') = Len(reqs) - 1
      BY <1>3, <3>1 DEF Collect
    <3>3. batch' \in Seq(Client) /\ Len(batch') = Len(batch) + 1
      BY <1>3, <3>1, <3>2 DEF Collect
    <3> QED BY <2>1, <3>1, <3>2, <3>3, WalAssumption
  <2>4. TypeOK'
    BY <2>1, <2>2, Zenon DEF TypeOK
  <2>5. OffsetInv'
    BY <2>1, Zenon DEF OffsetInv
  <2> QED BY <2>1, <2>4, <2>5, Zenon
<1>4. CASE CollectEnd \/ Close
  <2>1. /\ up = "up" /\ wpc' \in {wpc, "write"} /\ closed' \in {closed, TRUE}
        /\ UNCHANGED <<files, committed, up, segs, next, handle, reqs, batch, written, call, resp,
                       pos, delivered, crashes, outage>>
    BY <1>4, Zenon DEF CollectEnd, Close, diskVars, logVars, writerVars, clientVars, readerVars, crashVars
  <2>4. TypeOK'
    BY <2>1, Zenon DEF TypeOK
  <2>5. OffsetInv'
    BY <2>1, Zenon DEF OffsetInv
  <2> QED BY <2>1, <2>4, <2>5, Zenon
<1> QED BY <1>1, <1>2, <1>3, <1>4, Zenon

\* One record of the batch is written.
LEMMA WriteStep ==
    ASSUME BaseInv, WriteRecord
    PROVE  /\ BaseInv' /\ files # <<>> /\ segs # <<>> /\ batch[written + 1] \in Client
           /\ written + 1 \in 1..Len(batch)
           /\ files' = WithLast(files, Wrote(LastOf(files), <<batch[written + 1]>>))
           /\ segs' = WithLast(segs, [base |-> LastOf(segs).base, records |-> LastOf(segs).records + 1])
<1> USE DEF BaseInv
<1> DEFINE m == [base |-> LastOf(segs).base, records |-> LastOf(segs).records + 1]
<1>1. /\ up = "up" /\ wpc = "write" /\ written < Len(batch) /\ WriteTo(<<batch[written + 1]>>)
      /\ next' = next + 1 /\ written' = written + 1
      /\ UNCHANGED <<committed, up, handle, reqs, wpc, batch, closed, call, resp, pos, delivered,
                     crashes, outage>>
      /\ segs' = [segs EXCEPT ![Len(segs)].records = @ + 1]
  BY Zenon DEF WriteRecord, Writing, clientVars, readerVars, crashVars
<1>2. segs # <<>> /\ files # <<>> /\ Len(segs) <= Len(files) /\ written <= next
  <2>1. segs # <<>> /\ Len(segs) <= Len(files) /\ written <= next
    BY <1>1, Zenon DEF OffsetInv
  <2> QED BY <2>1, LogTypes
<1>3. batch[written + 1] \in Client /\ written + 1 \in 1..Len(batch) /\ written' \in 0..Len(batch')
  <2>1. batch \in Seq(Client) /\ written \in 0..Len(batch) /\ Len(batch) \in Nat
    BY DEF TypeOK
  <2>2. written + 1 \in 1..Len(batch)
    BY <1>1, <2>1
  <2> QED BY <1>1, <2>1, <2>2
<1>4. /\ files' = WithLast(files, Wrote(LastOf(files), <<batch[written + 1]>>))
      /\ files' \in Seq(Segment) /\ Len(files') = Len(files)
  BY <1>1, <1>2, <1>3, WriteToFacts, Zenon
<1>5. segs \in Seq(SegMeta) /\ LastOf(segs) \in SegMeta /\ Len(segs) \in 1..Len(segs)
  BY <1>2, LogTypes, Zenon
<1>6. m \in SegMeta /\ End(m) = End(LastOf(segs)) + 1 /\ m.base = LastOf(segs).base
  BY <1>5 DEF SegMeta, End
<1>7. segs' = WithLast(segs, m)
  <2>1. [segs[Len(segs)] EXCEPT !.records = @ + 1] = m
    BY <1>5 DEF LastOf, SegMeta
  <2>2. segs' = [segs EXCEPT ![Len(segs)] = [segs[Len(segs)] EXCEPT !.records = @ + 1]]
    BY <1>1, <1>5, Zenon
  <2> QED BY <2>1, <2>2, Zenon DEF WithLast
<1> HIDE DEF m
<1>8. /\ segs' \in Seq(SegMeta) /\ Len(segs') = Len(segs) /\ segs' # <<>> /\ LastOf(segs') = m
      /\ \A i \in 1..Len(segs) : i # Len(segs) => segs'[i] = segs[i]
  BY <1>2, <1>5, <1>6, <1>7, WithLastFacts, ZenonT(60)
<1>9. next \in Nat /\ next' \in Nat
  <2>1. \A a \in Nat : a + 1 \in Nat
    OBVIOUS
  <2> QED BY <1>1, <2>1, Zenon DEF TypeOK
<1>10. TypeOK'
  BY <1>1, <1>3, <1>4, <1>8, <1>9, Zenon DEF TypeOK, SegMeta
<1>11. \A i \in 1..Len(segs) : segs'[i].base = segs[i].base
  BY <1>6, <1>8, Zenon DEF LastOf
<1>12. OffsetInv'
  <2>1. \A i \in 1..Len(segs') - 1 : End(segs'[i]) = segs'[i + 1].base
    <3> SUFFICES ASSUME NEW i \in 1..Len(segs) - 1
                 PROVE  End(segs'[i]) = segs'[i + 1].base
      BY <1>8, Zenon
    <3>1. i \in 1..Len(segs) /\ i + 1 \in 1..Len(segs) /\ i # Len(segs)
      BY <1>5
    <3>2. End(segs[i]) = segs[i + 1].base
      BY <1>1, Zenon DEF OffsetInv
    <3> QED BY <1>8, <1>11, <3>1, <3>2, Zenon
  <2>2. next' = End(LastOf(segs')) /\ written' <= next'
    <3>1. next = End(LastOf(segs)) /\ written \in Nat
      BY <1>1 DEF OffsetInv, TypeOK
    <3> QED BY <1>1, <1>2, <1>6, <1>8, <1>9, <3>1
  <2>3. segs'[1].base <= pos' /\ committed' <= pos'
    BY <1>1, <1>5, <1>11 DEF OffsetInv
  <2> QED BY <1>1, <1>2, <1>4, <1>8, <2>1, <2>2, <2>3, Zenon DEF OffsetInv
<1> QED BY <1>2, <1>3, <1>4, <1>7, <1>10, <1>12, Zenon DEF m

\* The active segment is sealed and the file of the next one created.
LEMMA RollCreateStep ==
    ASSUME BaseInv, RollCreate
    PROVE  /\ BaseInv' /\ files # <<>> /\ Len(files') = Len(files) + 1 /\ next \in Nat
           /\ SyncLast = WithLast(files, Synced(LastOf(files)))
           /\ SyncLast \in Seq(Segment) /\ Len(SyncLast) = Len(files) /\ Len(files) \in Nat
<1> USE DEF BaseInv
<1>1. /\ up = "up" /\ files' = Append(SyncLast, NewSegment(next, FALSE)) /\ handle' = FALSE /\ wpc' = "roll"
      /\ UNCHANGED <<committed, up, segs, next, reqs, batch, written, closed, call, resp, pos, delivered,
                     crashes, outage>>
  BY Zenon DEF RollCreate, Writing, clientVars, readerVars, crashVars
<1>2. segs # <<>> /\ files # <<>> /\ Len(segs) <= Len(files) /\ Len(files) \in Nat /\ Len(segs) \in Nat
  <2>1. segs # <<>> /\ Len(segs) <= Len(files)
    BY <1>1, Zenon DEF OffsetInv
  <2> QED BY <2>1, LogTypes
<1>3. /\ SyncLast = WithLast(files, Synced(LastOf(files)))
      /\ SyncLast \in Seq(Segment) /\ Len(SyncLast) = Len(files)
  BY <1>2, SyncLastFacts, Zenon
<1>4. NewSegment(next, FALSE) \in Segment /\ next \in Nat
  BY DEF NewSegment, Segment, TypeOK
<1>5. files' \in Seq(Segment) /\ Len(files') = Len(files) + 1
  <2> DEFINE q == SyncLast
             g == NewSegment(next, FALSE)
  <2>1. q \in Seq(Segment) /\ g \in Segment /\ Len(q) = Len(files) /\ files' = Append(q, g)
    BY <1>1, <1>3, <1>4, Zenon
  <2> HIDE DEF q, g
  <2> QED BY <2>1, AppendFacts
<1>6. TypeOK'
  BY <1>1, <1>5, Zenon DEF TypeOK
<1>7. OffsetInv'
  BY <1>1, <1>2, <1>5 DEF OffsetInv
<1> QED BY <1>2, <1>3, <1>4, <1>5, <1>6, <1>7, Zenon

\* Its header is written, and it joins the segments in memory.
LEMMA RollHeaderStep ==
    ASSUME BaseInv, RollHeader
    PROVE  /\ BaseInv' /\ files # <<>> /\ segs # <<>> /\ Len(segs) < Len(files)
           /\ files' = WithLast(files, Headed(LastOf(files)))
           /\ files' \in Seq(Segment) /\ Len(files') = Len(files)
           /\ Len(segs') = Len(segs) + 1 /\ segs'[Len(segs) + 1] = [base |-> next, records |-> 0]
           /\ \A i \in 1..Len(segs) : segs'[i] = segs[i]
<1> USE DEF BaseInv
<1> DEFINE m == [base |-> next, records |-> 0]
<1>1. /\ up = "up" /\ files' = [files EXCEPT ![LastFile].hdr = TRUE] /\ handle' = TRUE /\ wpc' = "write"
      /\ segs' = Append(segs, m) /\ wpc = "roll"
      /\ UNCHANGED <<committed, up, next, reqs, batch, written, closed, call, resp, pos, delivered,
                     crashes, outage>>
  BY Zenon DEF RollHeader, clientVars, readerVars, crashVars
<1>2. segs # <<>> /\ files # <<>> /\ Len(segs) < Len(files) /\ Len(files) \in Nat /\ Len(segs) \in Nat
  <2>1. segs # <<>> /\ Len(segs) < Len(files)
    BY <1>1, Zenon DEF OffsetInv
  <2> QED BY <2>1, LogTypes
<1>3. files' = WithLast(files, Headed(LastOf(files)))
  BY <1>1, Zenon DEF WithLast, Headed, LastOf, LastFile
<1>4. files \in Seq(Segment) /\ LastOf(files) \in Segment
  BY <1>2, LogTypes, Zenon
<1>5. files' \in Seq(Segment) /\ Len(files') = Len(files)
  BY <1>2, <1>3, <1>4, HeadedFacts, WithLastFacts, ZenonT(60)
<1>6. m \in SegMeta /\ End(m) = next /\ m.base = next
  BY DEF SegMeta, End, TypeOK
<1> HIDE DEF m
<1>7. /\ segs' \in Seq(SegMeta) /\ Len(segs') = Len(segs) + 1 /\ segs'[Len(segs) + 1] = m
      /\ \A i \in 1..Len(segs) : segs'[i] = segs[i]
  BY <1>1, <1>6, LogTypes
<1>8. TypeOK'
  BY <1>1, <1>5, <1>7, Zenon DEF TypeOK, SegMeta
<1>9. OffsetInv'
  <2>1. \A i \in 1..Len(segs') - 1 : End(segs'[i]) = segs'[i + 1].base
    <3> SUFFICES ASSUME NEW i \in 1..Len(segs)
                 PROVE  End(segs'[i]) = segs'[i + 1].base
      BY <1>2, <1>7
    <3>1. CASE i = Len(segs)
      BY <1>1, <1>6, <1>7, <3>1, Zenon DEF OffsetInv, LastOf
    <3>2. CASE i # Len(segs)
      <4>1. i \in 1..Len(segs) - 1 /\ i + 1 \in 1..Len(segs)
        BY <1>2, <3>2
      <4>2. End(segs[i]) = segs[i + 1].base
        BY <1>1, <4>1, Zenon DEF OffsetInv
      <4> QED BY <1>7, <4>1, <4>2, Zenon
    <3> QED BY <3>1, <3>2, Zenon
  <2>2. segs' # <<>> /\ Len(segs') <= Len(files') /\ 1 \in 1..Len(segs)
    BY <1>2, <1>5, <1>7
  <2>3. next' = End(LastOf(segs'))
    BY <1>1, <1>6, <1>7, Zenon DEF LastOf
  <2>4. segs'[1].base <= pos' /\ committed' <= pos' /\ written' <= next' /\ wpc' # "roll"
    BY <1>1, <1>7, <2>2, Zenon DEF OffsetInv
  <2> QED BY <2>1, <2>2, <2>3, <2>4, Zenon DEF OffsetInv
<1> QED BY <1>2, <1>3, <1>5, <1>7, <1>8, <1>9, Zenon DEF m

\* The end of the writer, and the steps of the consumer.
LEMMA QuitStep ==
    ASSUME BaseInv, Quit
    PROVE  BaseInv' /\ files # <<>>
<1> USE DEF BaseInv
<1>1. /\ up = "up" /\ files' \in {SyncLast, files} /\ handle' = FALSE /\ wpc' = "exited"
      /\ UNCHANGED <<committed, up, segs, next, reqs, batch, written, closed, call, resp, pos, delivered,
                     crashes, outage>>
  BY Zenon DEF Quit, clientVars, readerVars, crashVars
<1>2. files # <<>>
  <2>1. segs # <<>> /\ Len(segs) <= Len(files)
    BY <1>1, Zenon DEF OffsetInv
  <2> QED BY <2>1, LogTypes
<1>3. files' \in Seq(Segment) /\ Len(files') = Len(files)
  BY <1>1, <1>2, SyncLastFacts, LogTypes, Zenon
<1>4. TypeOK'
  BY <1>1, <1>3, Zenon DEF TypeOK
<1>5. OffsetInv'
  BY <1>1, <1>3, Zenon DEF OffsetInv
<1> QED BY <1>2, <1>4, <1>5, Zenon

\* A record that can be read is at its place in a file.
LEMMA DiskAtFacts ==
    ASSUME TypeOK, NEW o \in Nat, Readable(o)
    PROVE  /\ DiskAt(o) \in Client
           /\ \E i \in 1..Len(files) : /\ Holds(files[i], o)
                                       /\ files[i].recs[o - files[i].base + 1] = DiskAt(o)
<1> DEFINE i == CHOOSE j \in DOMAIN files : Holds(files[j], o)
           f == files[i]
<1>1. files \in Seq(Segment) /\ DOMAIN files = 1..Len(files)
  BY LogTypes, Zenon
<1>2. i \in 1..Len(files) /\ Holds(f, o)
  BY <1>1, Zenon DEF Readable
<1>3. f \in Segment
  BY <1>1, <1>2
<1>4. DiskAt(o) = f.recs[o - f.base + 1]
  BY Zenon DEF DiskAt
<1> HIDE DEF i
<1>5. f.recs \in Seq(Client \cup {Torn}) /\ f.base \in Nat
  BY <1>3, Zenon DEF Segment
<1>6. o - f.base + 1 \in 1..Valid(f) /\ Valid(f) \in Nat /\ Valid(f) <= Len(f.recs)
  BY <1>2, <1>3, <1>5, ValidFacts DEF Holds
<1>7. f.recs[o - f.base + 1] # Torn
  BY <1>3, <1>6, ValidFacts, Zenon
<1>8. o - f.base + 1 \in 1..Len(f.recs)
  BY <1>5, <1>6
<1>9. DiskAt(o) \in Client
  BY <1>4, <1>5, <1>7, <1>8
<1> QED BY <1>2, <1>4, <1>9, Zenon

\* Next and Commit keep the consumer within the log.
LEMMA ConsumerSteps ==
    ASSUME BaseInv, ReadNext \/ Commit
    PROVE  BaseInv'
<1> USE DEF BaseInv
<1>1. CASE ReadNext
  <2>1. /\ up = "up" /\ Readable(pos) /\ delivered' = delivered \cup {<<pos, DiskAt(pos)>>}
        /\ pos' = pos + 1
        /\ UNCHANGED <<files, committed, up, segs, next, handle, reqs, wpc, batch, written, closed,
                       call, resp, crashes, outage>>
    BY <1>1, Zenon DEF ReadNext, diskVars, logVars, writerVars, clientVars, crashVars
  <2>2. pos \in Nat /\ DiskAt(pos) \in Client
    BY <2>1, DiskAtFacts, Zenon DEF TypeOK
  <2>3. pos' \in Nat /\ delivered' \subseteq Nat \X Client
    BY <2>1, <2>2 DEF TypeOK
  <2>4. TypeOK'
    BY <2>1, <2>3, Zenon DEF TypeOK
  <2>5. OffsetInv'
    <3>1. segs[1].base <= pos' /\ committed <= pos'
      <4>1. segs[1].base <= pos /\ committed <= pos /\ segs # <<>>
        BY <2>1, Zenon DEF OffsetInv
      <4>2. segs[1].base \in Nat /\ committed \in Nat
        BY <4>1, LogTypes, Zenon DEF TypeOK
      <4> QED BY <2>1, <2>2, <4>1, <4>2
    <3> QED BY <2>1, <3>1, Zenon DEF OffsetInv
  <2> QED BY <2>4, <2>5, Zenon
<1>2. CASE Commit
  <2>1. /\ up = "up" /\ committed' = pos
        /\ UNCHANGED <<files, up, segs, next, handle, reqs, wpc, batch, written, closed,
                       call, resp, pos, delivered, crashes, outage>>
    BY <1>2, Zenon DEF Commit, logVars, writerVars, clientVars, readerVars, crashVars
  <2>2. TypeOK'
    BY <2>1, Zenon DEF TypeOK
  <2>3. pos \in Nat
    BY Zenon DEF TypeOK
  <2>4. OffsetInv'
    BY <2>1, <2>3 DEF OffsetInv
  <2> QED BY <2>2, <2>4, Zenon
<1> QED BY <1>1, <1>2, Zenon

\* Retention removes the first k files and segments.
LEMMA RetainStep ==
    ASSUME BaseInv, Retain
    PROVE  /\ BaseInv' /\ Len(segs) <= Len(files) /\ up = "up"
           /\ UNCHANGED <<committed, up, next, handle, reqs, wpc, batch, written, closed,
                          call, resp, pos, delivered, crashes, outage>>
           /\ \E k \in 1..Len(segs) - 1 :
                 /\ files' = SubSeq(files, k + 1, Len(files)) /\ Len(files') = Len(files) - k
                 /\ Len(segs') = Len(segs) - k
                 /\ \A i \in 1..Len(files) - k : files'[i] = files[i + k]
                 /\ \A i \in 1..Len(segs) - k : segs'[i] = segs[i + k]
<1> USE DEF BaseInv
<1>1. PICK k \in 1..Len(segs) - 1 :
          /\ \A i \in 1..k : End(segs[i]) <= committed
          /\ segs' = SubSeq(segs, k + 1, Len(segs))
          /\ files' = SubSeq(files, k + 1, Len(files))
  BY Zenon DEF Retain
<1>2. /\ up = "up"
      /\ UNCHANGED <<committed, up, next, handle, reqs, wpc, batch, written, closed,
                     call, resp, pos, delivered, crashes, outage>>
  BY Zenon DEF Retain, writerVars, clientVars, readerVars, crashVars
<1>3. /\ segs # <<>> /\ Len(segs) <= Len(files) /\ Len(segs) \in Nat /\ Len(files) \in Nat
      /\ segs \in Seq(SegMeta) /\ files \in Seq(Segment)
  BY <1>2, LogTypes, Zenon DEF OffsetInv
<1>4. k \in Nat /\ k < Len(segs) /\ k < Len(files) /\ k \in 1..Len(segs) - 1 /\ k \in 1..k
  BY <1>3
<1>5. /\ segs' \in Seq(SegMeta) /\ Len(segs') = Len(segs) - k
      /\ \A i \in 1..Len(segs) - k : segs'[i] = segs[i + k]
  BY <1>1, <1>3, <1>4, RestFacts, Zenon
<1>6. /\ files' \in Seq(Segment) /\ Len(files') = Len(files) - k
      /\ \A i \in 1..Len(files) - k : files'[i] = files[i + k]
  BY <1>1, <1>3, <1>4, RestFacts, Zenon
<1>7. TypeOK'
  BY <1>2, <1>5, <1>6, Zenon DEF TypeOK, SegMeta
<1>8. OffsetInv'
  <2>1. segs' # <<>> /\ Len(segs') <= Len(files') /\ (wpc' = "roll" => Len(segs') < Len(files'))
    <3>1. wpc = "roll" => Len(segs) < Len(files)
      BY <1>2, Zenon DEF OffsetInv
    <3> QED BY <1>2, <1>3, <1>4, <1>5, <1>6, <3>1
  <2>2. \A i \in 1..Len(segs') - 1 : End(segs'[i]) = segs'[i + 1].base
    <3> SUFFICES ASSUME NEW i \in 1..Len(segs) - k - 1
                 PROVE  End(segs'[i]) = segs'[i + 1].base
      BY <1>5, Zenon
    <3>1. /\ i \in 1..Len(segs) - k /\ i + 1 \in 1..Len(segs) - k /\ i + k \in 1..Len(segs) - 1
          /\ (i + 1) + k = (i + k) + 1
      BY <1>3, <1>4
    <3>2. End(segs[i + k]) = segs[(i + k) + 1].base
      BY <1>2, <3>1, Zenon DEF OffsetInv
    <3> QED BY <1>5, <3>1, <3>2, Zenon
  <2>3. LastOf(segs') = LastOf(segs)
    <3>1. Len(segs) - k \in 1..Len(segs) - k /\ (Len(segs) - k) + k = Len(segs)
      BY <1>3, <1>4
    <3> QED BY <1>5, <3>1, Zenon DEF LastOf
  <2>4. segs'[1].base <= pos'
    <3>1. segs'[1] = segs[1 + k] /\ 1 + k = k + 1
      BY <1>3, <1>4, <1>5
    <3>2. End(segs[k]) = segs[k + 1].base
      BY <1>2, <1>4, Zenon DEF OffsetInv
    <3>3. End(segs[k]) <= committed /\ committed <= pos
      BY <1>1, <1>2, <1>4, Zenon DEF OffsetInv
    <3>4. committed \in Nat /\ pos \in Nat
      BY Zenon DEF TypeOK
    <3>5. k \in 1..Len(segs)
      BY <1>3, <1>4
    <3>6. End(segs[k]) \in Nat
      BY <3>5, LogTypes, Zenon
    <3> QED BY <1>2, <3>1, <3>2, <3>3, <3>4, <3>6
  <2>5. next' = End(LastOf(segs')) /\ written' <= next' /\ committed' <= pos'
    BY <1>2, <2>3, Zenon DEF OffsetInv
  <2> QED BY <2>1, <2>2, <2>4, <2>5, ZenonT(60) DEF OffsetInv
<1> QED BY <1>1, <1>2, <1>3, <1>5, <1>6, <1>7, <1>8, ZenonT(60)

\* What a crash makes of memory.
LEMMA DownFacts ==
    ASSUME BaseInv, Down, files' \in Seq(Segment), outage' \in BOOLEAN
    PROVE  BaseInv'
<1> USE DEF BaseInv
<1>1. /\ up' = "down" /\ crashes' = crashes + 1 /\ resp' = [c \in Client |-> None]
      /\ UNCHANGED <<committed, segs, next, handle, reqs, wpc, batch, written, closed, pos, delivered>>
  BY Zenon DEF Down, logVars, writerVars, readerVars
<1>2. call' \in [Client -> Final \cup [kind : {"new", "sending", "waiting"}]]
  <2>1. [kind |-> "cancelled"] \in Final
    BY Zenon DEF Final
  <2> QED BY <2>1, Zenon DEF Down, TypeOK
<1>3. crashes' \in Nat /\ resp' \in [Client -> Final \cup {None}]
  BY <1>1 DEF TypeOK
<1>4. TypeOK'
  BY <1>1, <1>2, <1>3, Zenon DEF TypeOK
<1>5. OffsetInv'
  BY <1>1, Zenon DEF OffsetInv
<1> QED BY <1>4, <1>5, Zenon

\* The process is killed.
LEMMA KillStep ==
    ASSUME BaseInv, Kill
    PROVE  /\ BaseInv' /\ up = "up" /\ up' = "down" /\ files # <<>>
           /\ \/ files' = files
              \/ Writing /\ handle /\ files' = WithLast(files, Wrote(LastOf(files), <<Torn>>))
<1>1. Down /\ outage' = outage /\ TypeOK /\ up = "up" /\ up' = "down"
  BY Zenon DEF Kill, BaseInv, Down
<1>2. files # <<>>
  <2>1. segs # <<>> /\ Len(segs) <= Len(files)
    BY <1>1, Zenon DEF OffsetInv, BaseInv
  <2> QED BY <1>1, <2>1, LogTypes
<1>3. \/ files' = files
      \/ Writing /\ handle /\ files' = WithLast(files, Wrote(LastOf(files), <<Torn>>))
  BY <1>1, <1>2, WriteToFacts, Zenon DEF Kill
<1>4. files' \in Seq(Segment)
  BY <1>1, <1>2, WriteToFacts, LogTypes, Zenon DEF Kill
<1>5. outage' \in BOOLEAN
  BY <1>1, Zenon DEF TypeOK
<1> QED BY <1>1, <1>2, <1>3, <1>4, <1>5, DownFacts, Zenon

\* The machine loses power.
LEMMA LosePowerStep ==
    ASSUME BaseInv, LosePower
    PROVE  BaseInv' /\ PowerLoss /\ up' = "down"
<1>1. PowerLoss /\ Down /\ outage' = TRUE /\ TypeOK /\ up' = "down"
  BY Zenon DEF LosePower, BaseInv, Down
<1>2. files' \in Seq(Segment)
  <2>1. PICK i \in DOMAIN files : \E t \in Survivors(files[i]) :
             files' = SubSeq(files, 1, i - 1) \o t \o SubSeq(files, i + 1, Len(files))
    BY Zenon DEF LosePower
  <2>2. PICK t \in Survivors(files[i]) :
             files' = SubSeq(files, 1, i - 1) \o t \o SubSeq(files, i + 1, Len(files))
    BY <2>1, Zenon
  <2>3. files \in Seq(Segment) /\ i \in 1..Len(files) /\ Len(files) \in Nat
    BY <1>1, LogTypes, Zenon
  <2>4. t \in Seq(Segment)
    BY <2>3, SurvivorTypes
  <2>5. SubSeq(files, 1, i - 1) \in Seq(Segment) /\ SubSeq(files, i + 1, Len(files)) \in Seq(Segment)
    BY <2>3
  <2> QED BY <2>2, <2>4, <2>5
<1> QED BY <1>1, <1>2, DownFacts, Zenon

\* What Open finds: all files, or all but a last one without its header.
LEMMA ListedFacts ==
    ASSUME TypeOK
    PROVE  /\ Listed \in Seq(Segment) /\ Len(Listed) \in Nat /\ DOMAIN Listed = 1..Len(Listed)
           /\ \/ Listed = files /\ (files # <<>> => LastOf(files).hdr)
              \/ /\ files # <<>> /\ ~LastOf(files).hdr
                 /\ Listed = SubSeq(files, 1, Len(files) - 1) /\ Len(Listed) = Len(files) - 1
           /\ Listed # <<>> => LastOf(Listed) \in Segment /\ Len(Listed) \in 1..Len(Listed)
           /\ \A i \in 1..Len(Listed) : i \in 1..Len(files) /\ Listed[i] = files[i] /\ Listed[i] \in Segment
<1>1. files \in Seq(Segment) /\ Len(files) \in Nat
  BY LogTypes, Zenon
<1>2. CASE files # <<>> /\ ~LastOf(files).hdr
  <2> DEFINE t == SubSeq(files, 1, Len(files) - 1)
  <2>1. t \in Seq(Segment) /\ Len(t) = Len(files) - 1 /\ \A i \in 1..Len(files) - 1 : t[i] = files[i]
    BY <1>1, <1>2, FrontFacts, Zenon
  <2>2. Listed = t
    BY <1>2, Zenon DEF Listed
  <2> HIDE DEF t
  <2>3. \A i \in 1..Len(t) : i \in 1..Len(files) /\ t[i] = files[i] /\ t[i] \in Segment
    BY <1>1, <2>1
  <2>4. Len(t) \in Nat /\ DOMAIN t = 1..Len(t) /\ (t # <<>> => LastOf(t) \in Segment /\ Len(t) \in 1..Len(t))
    BY <2>1 DEF LastOf
  <2> QED BY <1>2, <2>1, <2>2, <2>3, <2>4, Zenon DEF t
<1>3. CASE ~(files # <<>> /\ ~LastOf(files).hdr)
  <2>1. Listed = files
    BY <1>3, Zenon DEF Listed
  <2> QED BY <1>1, <1>3, <2>1 DEF LastOf
<1> QED BY <1>2, <1>3, Zenon

\* What load finds in the files it lists.
LEMMA ScannedFacts ==
    ASSUME TypeOK
    PROVE  /\ Scanned \in Seq(SegMeta) /\ Len(Scanned) = Len(Listed)
           /\ \A i \in 1..Len(Listed) : /\ Scanned[i].base = files[i].base
                                        /\ Scanned[i].records = Valid(files[i])
<1> DEFINE n == Len(Listed)
<1>1. /\ n \in Nat /\ DOMAIN Listed = 1..n
      /\ \A i \in 1..n : Listed[i] \in Segment /\ Listed[i] = files[i]
  BY ListedFacts, Zenon
<1>2. \A i \in 1..n : [base |-> Listed[i].base, records |-> Valid(Listed[i])] \in SegMeta
  BY <1>1, ValidFacts, Zenon DEF SegMeta, Segment
<1>3. Scanned = [i \in 1..n |-> [base |-> Listed[i].base, records |-> Valid(Listed[i])]]
  BY <1>1, Zenon DEF Scanned
<1> HIDE DEF n
<1>4. Scanned \in Seq(SegMeta) /\ Len(Scanned) = n
  BY <1>1, <1>2, <1>3
<1>5. \A i \in 1..n : Scanned[i].base = files[i].base /\ Scanned[i].records = Valid(files[i])
  BY <1>1, <1>3, Zenon
<1> QED BY <1>4, <1>5, Zenon DEF n

\* The files after load has cut the torn tail.
LEMMA TruncatedFacts ==
    ASSUME TypeOK, Listed # <<>>
    PROVE  /\ Truncated = WithLast(Listed, Cut(LastOf(Listed)))
           /\ Truncated \in Seq(Segment) /\ Len(Truncated) = Len(Listed)
<1>1. Listed \in Seq(Segment) /\ LastOf(Listed) \in Segment
  BY ListedFacts, Zenon
<1>2. Truncated = WithLast(Listed, Cut(LastOf(Listed)))
  BY Zenon DEF Truncated, WithLast, Cut, LastOf
<1>3. Cut(LastOf(Listed)) \in Segment
  BY <1>1, CutFacts, Zenon
<1> QED BY <1>1, <1>2, <1>3, WithLastFacts, Zenon

\* What Open starts with.
LEMMA StartedFacts ==
    ASSUME BaseInv, Started, files' \in Seq(Segment), segs' \in Seq(SegMeta), next' \in Nat,
           Resume(segs'[1].base), segs'[1].base \in Nat,
           segs' # <<>>, Len(segs') <= Len(files'), next' = End(LastOf(segs')),
           \A i \in 1..Len(segs') - 1 : End(segs'[i]) = segs'[i + 1].base
    PROVE  BaseInv'
<1>1. /\ up' = "up" /\ handle' = TRUE /\ wpc' = "idle" /\ closed' = FALSE
      /\ UNCHANGED <<committed, call, resp, delivered, crashes, outage>>
  BY Zenon DEF Started, clientVars, crashVars
<1>2. /\ reqs' \in Seq(Client) /\ Len(reqs') <= MaxPending /\ batch' \in Seq(Client)
      /\ Len(batch') <= MaxBatch /\ written' \in 0..Len(batch') /\ written' = 0
  BY WalAssumption DEF Started
<1>3. pos' \in Nat /\ segs'[1].base <= pos' /\ committed <= pos' /\ committed \in Nat
  BY DEF Resume, BaseInv, TypeOK
<1>4. TypeOK'
  BY <1>1, <1>2, <1>3, Zenon DEF BaseInv, TypeOK, SegMeta
<1>5. OffsetInv'
  BY <1>1, <1>2, <1>3 DEF OffsetInv
<1> QED BY <1>4, <1>5, Zenon DEF BaseInv

\* Each outcome of Open leaves the offsets in order.
LEMMA OpenSteps ==
    ASSUME BaseInv, Open
    PROVE  BaseInv'
<1>0. TypeOK
  BY Zenon DEF BaseInv
<1>1. CASE OpenEmpty
  <2> DEFINE m == [base |-> 0, records |-> 0]
  <2>1. files' = <<NewSegment(0, TRUE)>> /\ segs' = <<m>> /\ next' = 0 /\ Resume(0) /\ Started
    BY <1>1, Zenon DEF OpenEmpty
  <2>2. NewSegment(0, TRUE) \in Segment /\ m \in SegMeta /\ m.base = 0 /\ End(m) = 0
    BY DEF NewSegment, Segment, SegMeta, End
  <2> HIDE DEF m
  <2>3. /\ files' \in Seq(Segment) /\ Len(files') = 1 /\ segs' \in Seq(SegMeta) /\ Len(segs') = 1
        /\ segs'[1] = m /\ segs' # <<>> /\ LastOf(segs') = m
    BY <2>1, <2>2, SingleFacts, Zenon
  <2>4. \A i \in 1..Len(segs') - 1 : End(segs'[i]) = segs'[i + 1].base
    BY <2>3
  <2> QED BY <2>1, <2>2, <2>3, <2>4, StartedFacts
<1>2. CASE OpenExisting
  <2> DEFINE n == Len(Listed)
  <2>1. /\ Listed # <<>> /\ Chained /\ files' = Truncated /\ segs' = Scanned
        /\ next' = End(LastOf(Scanned)) /\ Resume(Scanned[1].base) /\ Started
    BY <1>2, Zenon DEF OpenExisting
  <2>2. n \in Nat /\ n \in 1..n /\ 1 \in 1..n
    BY <1>0, <2>1, ListedFacts
  <2>3. Scanned \in Seq(SegMeta) /\ Len(Scanned) = n /\ Scanned # <<>>
    BY <1>0, <2>2, ScannedFacts
  <2>4. Truncated \in Seq(Segment) /\ Len(Truncated) = n
    BY <1>0, <2>1, TruncatedFacts, Zenon
  <2>5. \A i \in 1..n - 1 : End(Scanned[i]) = Scanned[i + 1].base
    BY <2>1, Zenon DEF Chained
  <2> HIDE DEF n
  <2>6. Scanned[1] \in SegMeta /\ LastOf(Scanned) \in SegMeta
    BY <2>2, <2>3 DEF LastOf
  <2>7. Scanned[1].base \in Nat /\ End(LastOf(Scanned)) \in Nat
    BY <2>6 DEF SegMeta, End
  <2>8. /\ segs' \in Seq(SegMeta) /\ segs' # <<>> /\ Len(segs') <= Len(files')
        /\ next' = End(LastOf(segs')) /\ next' \in Nat /\ segs'[1].base \in Nat
        /\ Resume(segs'[1].base) /\ files' \in Seq(Segment)
    BY <2>1, <2>2, <2>3, <2>4, <2>7
  <2>9. \A i \in 1..Len(segs') - 1 : End(segs'[i]) = segs'[i + 1].base
    BY <2>1, <2>3, <2>5, Zenon
  <2> QED BY <2>1, <2>8, <2>9, StartedFacts, Zenon
<1>3. CASE OpenRefused
  <2>1. /\ up' = "refused"
        /\ UNCHANGED <<files, committed, segs, next, handle, reqs, wpc, batch, written, closed,
                       call, resp, pos, delivered, crashes, outage>>
    BY <1>3, Zenon DEF OpenRefused, diskVars, logVars, writerVars, clientVars, readerVars, crashVars
  <2>2. TypeOK'
    BY <1>0, <2>1, Zenon DEF TypeOK
  <2>3. OffsetInv'
    BY <2>1, Zenon DEF OffsetInv
  <2> QED BY <2>2, <2>3, Zenon DEF BaseInv
<1> QED BY <1>1, <1>2, <1>3, Zenon DEF Open

\* A directory without files.
LEMMA BaseInit == Init => BaseInv
<1> SUFFICES ASSUME Init PROVE BaseInv
  BY Zenon
<1>1. /\ files \in Seq(Segment) /\ segs \in Seq([base : Nat, records : Nat])
      /\ reqs \in Seq(Client) /\ Len(reqs) <= MaxPending
      /\ batch \in Seq(Client) /\ Len(batch) <= MaxBatch /\ written \in 0..Len(batch)
  BY WalAssumption DEF Init
<1>2. /\ call \in [Client -> Final \cup [kind : {"new", "sending", "waiting"}]]
      /\ resp \in [Client -> Final \cup {None}]
  BY Zenon DEF Init
<1>3. handle \in BOOLEAN /\ closed \in BOOLEAN /\ outage \in BOOLEAN /\ delivered \subseteq Nat \X Client
  BY Zenon DEF Init
<1>4. TypeOK
  BY <1>1, <1>2, <1>3, Zenon DEF TypeOK, Init
<1> QED BY <1>4, Zenon DEF BaseInv, OffsetInv, Init

\* Every step keeps the types and the chain of offsets.
LEMMA BaseStep == BaseInv /\ [Next]_vars => BaseInv'
<1> SUFFICES ASSUME BaseInv, [Next]_vars PROVE BaseInv'
  BY Zenon
<1>1. CASE Open
  BY <1>1, OpenSteps, Zenon
<1>2. CASE (\E c \in Client : AppendCall(c)) \/ Take \/ Collect \/ CollectEnd \/ Close
  BY <1>2, QuietSteps, Zenon
<1>3. CASE WriteFails \/ RollFails \/ HandleClosed \/ Sync \/ SyncSkipped \/ SyncFails
  BY <1>3, AnswerSteps, Zenon
<1>4. CASE WriteRecord \/ RollCreate \/ RollHeader \/ Quit
  BY <1>4, WriteStep, RollCreateStep, RollHeaderStep, QuitStep, Zenon
<1>5. CASE ReadNext \/ Commit \/ Retain \/ Kill \/ LosePower
  BY <1>5, ConsumerSteps, RetainStep, KillStep, LosePowerStep, Zenon
<1>6. CASE UNCHANGED vars
  <2>1. UNCHANGED <<files, committed, up, segs, next, handle, reqs, wpc, batch, written, closed,
                    call, resp, pos, delivered, crashes, outage>>
    BY <1>6, Zenon DEF vars, diskVars, logVars, writerVars, clientVars, readerVars, crashVars
  <2>2. TypeOK'
    BY <2>1, ZenonT(60) DEF BaseInv, TypeOK
  <2>3. OffsetInv'
    BY <2>1, Zenon DEF BaseInv, OffsetInv
  <2> QED BY <2>2, <2>3, Zenon DEF BaseInv
<1> QED BY <1>1, <1>2, <1>3, <1>4, <1>5, <1>6, Zenon DEF Next, Writer

\* The segments in memory are a chain that ends at the head of the log, and the
\* consumer is neither before it nor before its committed offset (load, roll, Retain).
THEOREM BaseInvariance == Spec => []BaseInv
BY BaseInit, BaseStep, PTL DEF Spec

----------------------------------------------------------------------------
(* The files, for all constants but a short write together with a loss of     *)
(* power.  The operators below are about any sequence of files.               *)

\* Replacing the last file by one with the same base.
LEMMA Replaced ==
    ASSUME NEW s \in Seq(Segment), s # <<>>, Shape(s),
           NEW g \in Segment, g.base = LastOf(s).base,
           ~g.hdr => g.recs = <<>>, LastOf(s).hdr => g.hdr \/ PowerLoss
    PROVE  LET t == WithLast(s, g)
           IN  /\ t \in Seq(Segment) /\ Len(t) = Len(s) /\ t # <<>> /\ LastOf(t) = g
               /\ \A i \in 1..Len(s) - 1 : t[i] = s[i]
               /\ t[1].base = s[1].base /\ EndOf(t) = g.base + Valid(g)
               /\ Shape(t)
               /\ Whole(s) /\ Tailed(g) => Whole(t)
<1> DEFINE t == WithLast(s, g)
           n == Len(s)
<1>1. /\ t \in Seq(Segment) /\ Len(t) = n /\ t # <<>> /\ LastOf(t) = g
      /\ \A i \in 1..n : i # n => t[i] = s[i]
  BY WithLastFacts, Zenon
<1>2. n \in Nat /\ n \in 1..n /\ 1 \in 1..n /\ LastOf(s) \in Segment /\ t[n] = g /\ s[n] = LastOf(s)
  BY <1>1 DEF LastOf
<1>3. /\ \A i \in 1..n - 1 : i \in 1..n /\ i # n
      /\ \A i \in 1..n : s[i] \in Segment /\ s[i].base \in Nat /\ Valid(s[i]) \in Nat
  BY <1>2, SegTypes
<1> HIDE DEF t, n
<1>4. \A i \in 1..n : t[i].base = s[i].base
  BY <1>1, <1>2, Zenon
<1>5. EndOf(t) = g.base + Valid(g) /\ g.base \in Nat /\ Valid(g) \in Nat
  BY <1>1, ValidFacts, Zenon DEF EndOf, Segment
<1>6. Shape(t)
  <2>1. \A i \in 1..n - 1 : t[i].hdr
    BY <1>1, <1>3, Zenon DEF Shape, n
  <2>2. \A i \in 1..n : ~t[i].hdr => t[i].recs = <<>>
    BY <1>1, <1>2, Zenon DEF Shape, n
  <2>3. \A i, j \in 1..n : i < j => t[i].base + Valid(t[i]) <= t[j].base
    <3> SUFFICES ASSUME NEW i \in 1..n, NEW j \in 1..n, i < j
                 PROVE  t[i].base + Valid(t[i]) <= t[j].base
      BY Zenon
    <3>1. i # n
      BY <1>2
    <3>2. s[i].base + Valid(s[i]) <= s[j].base
      BY Zenon DEF Shape, n
    <3> QED BY <1>1, <1>4, <3>1, <3>2, Zenon
  <2>4. ~PowerLoss => t[1].hdr
    BY <1>1, <1>2, Zenon DEF Shape
  <2> QED BY <1>1, <2>1, <2>2, <2>3, <2>4, Zenon DEF Shape
<1>7. ASSUME Whole(s), Tailed(g) PROVE Whole(t)
  <2>1. \A i \in 1..n - 1 : Sealed(t[i]) /\ t[i].base + Len(t[i].recs) = t[i + 1].base
    <3> SUFFICES ASSUME NEW i \in 1..n - 1
                 PROVE  Sealed(t[i]) /\ t[i].base + Len(t[i].recs) = t[i + 1].base
      BY Zenon
    <3>1. i + 1 \in 1..n
      BY <1>2
    <3>2. Sealed(s[i]) /\ s[i].base + Len(s[i].recs) = s[i + 1].base
      BY <1>7, Zenon DEF Whole, n
    <3> QED BY <1>1, <1>3, <1>4, <3>1, <3>2, Zenon
  <2>2. \A o \in t[1].base..EndOf(t) - 1 : \E i \in 1..n : Holds(t[i], o)
    <3> SUFFICES ASSUME NEW o \in t[1].base..EndOf(t) - 1
                 PROVE  \E i \in 1..n : Holds(t[i], o)
      BY Zenon
    <3>0. o \in Nat /\ s[1].base <= o /\ o < g.base + Valid(g)
      <4>1. \A b, v \in Nat : \A p, e : p = b /\ e = v => \A q \in p..e - 1 : q \in Nat /\ b <= q /\ q < v
        OBVIOUS
      <4>2. \A b, v \in Nat : b + v \in Nat
        OBVIOUS
      <4>3. t[1].base = s[1].base /\ s[1].base \in Nat /\ g.base + Valid(g) \in Nat
        BY <1>2, <1>3, <1>4, <1>5, <4>2, Zenon
      <4> QED BY <1>5, <4>1, <4>3, Zenon
    <3>1. CASE o < g.base
      <4>1. EndOf(s) = g.base + Valid(s[n]) /\ Valid(s[n]) \in Nat
        BY <1>2, <1>3, Zenon DEF EndOf
      <4>2. o \in s[1].base..EndOf(s) - 1
        BY <1>2, <1>3, <1>5, <3>0, <3>1, <4>1
      <4>3. PICK i \in 1..n : Holds(s[i], o)
        BY <1>7, <4>2, Zenon DEF Whole, n
      <4>4. i # n
        BY <1>2, <1>5, <3>0, <3>1, <4>3 DEF Holds
      <4> QED BY <1>1, <4>3, <4>4, Zenon
    <3>2. CASE o >= g.base
      BY <1>2, <3>0, <3>2, Zenon DEF Holds
    <3> QED BY <1>5, <3>0, <3>1, <3>2
  <2>3. ~Retention => t[1].base = 0
    BY <1>2, <1>4, <1>7, Zenon DEF Whole
  <2> QED BY <1>1, <1>7, <2>1, <2>2, <2>3, Zenon DEF Whole
<1> QED BY <1>1, <1>2, <1>3, <1>4, <1>5, <1>6, <1>7, Zenon DEF t, n

\* What the replaced file had keeps its place as far as the new one agrees with it.
LEMMA ReplacedOn ==
    ASSUME NEW s \in Seq(Segment), s # <<>>, NEW g \in Segment, g.base = LastOf(s).base,
           NEW v \in Nat, v <= Valid(g),
           \A j \in 1..v : j <= Valid(LastOf(s)) => g.recs[j] = LastOf(s).recs[j],
           NEW o \in Nat, NEW r, On(s, o, r), o < g.base + v
    PROVE  On(WithLast(s, g), o, r)
<1> DEFINE t == WithLast(s, g)
           n == Len(s)
<1>1. /\ Len(t) = n /\ LastOf(t) = g /\ \A i \in 1..n : i # n => t[i] = s[i]
  BY WithLastFacts, ZenonT(60)
<1>2. n \in Nat /\ t[n] = g /\ s[n] = LastOf(s) /\ LastOf(s) \in Segment
  BY <1>1 DEF LastOf
<1>3. PICK i \in 1..n : Holds(s[i], o) /\ s[i].recs[o - s[i].base + 1] = r
  BY Zenon DEF On
<1> HIDE DEF t, n
<1>4. CASE i # n
  BY <1>1, <1>3, <1>4, Zenon DEF On, t
<1>5. CASE i = n
  <2>1. g.base \in Nat /\ Valid(g) \in Nat /\ Valid(LastOf(s)) \in Nat
    BY <1>2, ValidFacts, Zenon DEF Segment
  <2>2. g.base <= o /\ o < g.base + Valid(LastOf(s))
    BY <1>2, <1>3, <1>5, Zenon DEF Holds
  <2>3. o - g.base + 1 \in 1..v /\ o - g.base + 1 <= Valid(LastOf(s)) /\ o < g.base + Valid(g)
    <3> DEFINE b == g.base
               x == Valid(g)
               y == Valid(LastOf(s))
    <3>1. /\ b \in Nat /\ x \in Nat /\ y \in Nat /\ b <= o /\ o < b + y /\ o < b + v /\ v <= x
      BY <2>1, <2>2, Zenon
    <3> HIDE DEF b, x, y
    <3>2. o - b + 1 \in 1..v /\ o - b + 1 <= y /\ o < b + x
      BY <3>1
    <3> QED BY <3>2, Zenon DEF b, x, y
  <2>4. g.recs[o - g.base + 1] = r
    BY <1>2, <1>3, <1>5, <2>3, Zenon
  <2>5. Holds(g, o)
    BY <2>2, <2>3, Zenon DEF Holds
  <2> QED BY <1>1, <1>2, <1>5, <2>4, <2>5, Zenon DEF On, t
<1> QED BY <1>4, <1>5, Zenon

\* Adding an empty file behind a sealed one.
LEMMA Appended ==
    ASSUME NEW s \in Seq(Segment), s # <<>>, Shape(s), LastOf(s).hdr,
           NEW b \in Nat, EndOf(s) <= b
    PROVE  LET t == Append(s, NewSegment(b, FALSE))
           IN  /\ t \in Seq(Segment) /\ t # <<>> /\ Len(t) = Len(s) + 1
               /\ \A i \in 1..Len(s) : t[i] = s[i]
               /\ t[1].base = s[1].base /\ EndOf(t) = b /\ Durable(t) = b
               /\ LastOf(t) = NewSegment(b, FALSE)
               /\ Shape(t)
               /\ Whole(s) /\ Sealed(LastOf(s)) /\ LastOf(s).base + Len(LastOf(s).recs) = b /\ EndOf(s) = b
                  => Whole(t)
               /\ \A o \in Nat : \A r : On(s, o, r) => On(t, o, r)
<1> DEFINE g == NewSegment(b, FALSE)
           t == Append(s, g)
           n == Len(s)
<1>1. /\ g \in Segment /\ g.base = b /\ g.recs = <<>> /\ ~g.hdr /\ g.synced = -1 /\ Valid(g) = 0
      /\ Len(g.recs) = 0
  BY DEF NewSegment, Segment, Valid
<1> HIDE DEF g
<1>2. /\ t \in Seq(Segment) /\ Len(t) = n + 1 /\ t # <<>> /\ t[n + 1] = g /\ LastOf(t) = g
      /\ \A i \in 1..n : t[i] = s[i]
  BY <1>1, AppendFacts
<1>3. n \in Nat /\ n \in 1..n /\ 1 \in 1..n /\ LastOf(s) \in Segment /\ s[n] = LastOf(s)
  BY DEF LastOf
<1>4. \A i \in 1..n : s[i] \in Segment /\ s[i].base \in Nat /\ Valid(s[i]) \in Nat
  BY SegTypes, Zenon
<1> HIDE DEF t, n
<1>5. EndOf(t) = b /\ Durable(t) = b
  BY <1>1, <1>2 DEF EndOf, Durable
<1>6. \A i \in 1..n : s[i].base + Valid(s[i]) <= b
  <2> SUFFICES ASSUME NEW i \in 1..n PROVE s[i].base + Valid(s[i]) <= b
    BY Zenon
  <2>1. s[n].base + Valid(s[n]) <= b
    BY <1>3, Zenon DEF EndOf
  <2>2. i # n => s[i].base + Valid(s[i]) <= s[n].base
    BY <1>3 DEF Shape, n
  <2> DEFINE c == s[i].base
             v == Valid(s[i])
             d == s[n].base
             w == Valid(s[n])
  <2>3. /\ c \in Nat /\ v \in Nat /\ d \in Nat /\ w \in Nat /\ d + w <= b
        /\ c + v <= d \/ (c = d /\ v = w)
    BY <1>3, <1>4, <2>1, <2>2, Zenon
  <2> HIDE DEF c, v, d, w
  <2>4. c + v <= b
    BY <2>3
  <2> QED BY <2>4, Zenon DEF c, v
<1>7. Shape(t)
  <2>1. \A i \in 1..n : t[i].hdr
    BY <1>2, <1>3 DEF Shape, n
  <2>2. \A i \in 1..n + 1 : ~t[i].hdr => t[i].recs = <<>>
    BY <1>1, <1>2, <1>3, <2>1
  <2>3. \A i, j \in 1..n + 1 : i < j => t[i].base + Valid(t[i]) <= t[j].base
    <3> SUFFICES ASSUME NEW i \in 1..n + 1, NEW j \in 1..n + 1, i < j
                 PROVE  t[i].base + Valid(t[i]) <= t[j].base
      BY Zenon
    <3>1. i \in 1..n /\ t[i] = s[i]
      BY <1>2, <1>3
    <3>2. CASE j \in 1..n
      BY <1>2, <3>1, <3>2, Zenon DEF Shape, n
    <3>3. CASE j = n + 1
      BY <1>1, <1>2, <1>6, <3>1, <3>3, ZenonT(60)
    <3> QED BY <1>3, <3>2, <3>3
  <2>4. \A i \in 1..Len(t) - 1 : i \in 1..n
    BY <1>2, <1>3
  <2> QED BY <1>2, <1>3, <2>1, <2>2, <2>3, <2>4, ZenonT(60) DEF Shape
<1>8. ASSUME Whole(s), Sealed(LastOf(s)), LastOf(s).base + Len(LastOf(s).recs) = b, EndOf(s) = b
      PROVE  Whole(t)
  <2>1. \A i \in 1..n : Sealed(t[i]) /\ t[i].base + Len(t[i].recs) = t[i + 1].base
    <3> SUFFICES ASSUME NEW i \in 1..n
                 PROVE  Sealed(t[i]) /\ t[i].base + Len(t[i].recs) = t[i + 1].base
      BY Zenon
    <3>1. CASE i = n
      BY <1>1, <1>2, <1>3, <1>8, <3>1, ZenonT(60)
    <3>2. CASE i # n
      <4>1. i \in 1..n - 1 /\ i + 1 \in 1..n
        BY <1>3, <3>2
      <4>2. Sealed(s[i]) /\ s[i].base + Len(s[i].recs) = s[i + 1].base
        BY <1>8, <4>1, Zenon DEF Whole, n
      <4> QED BY <1>2, <4>1, <4>2, Zenon
    <3> QED BY <3>1, <3>2, Zenon
  <2>2. Tailed(g)
    BY <1>1 DEF Tailed
  <2>3. \A o \in t[1].base..EndOf(t) - 1 : \E i \in 1..n + 1 : Holds(t[i], o)
    <3>1. \A o \in s[1].base..EndOf(s) - 1 : \E i \in 1..n : Holds(s[i], o)
      BY <1>8, Zenon DEF Whole, n
    <3>2. \A i \in 1..n : i \in 1..n + 1
      BY <1>3
    <3> QED BY <1>2, <1>3, <1>5, <1>8, <3>1, <3>2, ZenonT(60)
  <2>4. ~Retention => t[1].base = 0
    BY <1>2, <1>3, <1>8, Zenon DEF Whole
  <2>5. \A i \in 1..Len(t) - 1 : i \in 1..n
    BY <1>2, <1>3
  <2> QED BY <1>2, <2>1, <2>2, <2>3, <2>4, <2>5, ZenonT(60) DEF Whole
<1>9. \A o \in Nat : \A r : On(s, o, r) => On(t, o, r)
  <2>1. \A i \in 1..n : i \in 1..n + 1
    BY <1>3
  <2> QED BY <1>2, <2>1, Zenon DEF On, n
<1> QED BY <1>2, <1>3, <1>5, <1>7, <1>8, <1>9, ZenonT(60) DEF t, n, g

\* A file with a header and without torn bytes is read to its end.
LEMMA CleanValid ==
    ASSUME NEW f \in Segment, f.hdr, Clean(f)
    PROVE  Valid(f) = Len(f.recs)
<1>1. Len(f.recs) \in Nat
  BY DEF Segment
<1> QED BY <1>1, ValidIs DEF Clean

\* Dropping the last file.
LEMMA Dropped ==
    ASSUME NEW s \in Seq(Segment), s # <<>>, Shape(s)
    PROVE  LET t == SubSeq(s, 1, Len(s) - 1)
           IN  /\ t \in Seq(Segment) /\ Len(t) = Len(s) - 1 /\ \A i \in 1..Len(s) - 1 : t[i] = s[i]
               /\ Shape(t)
               /\ t # <<>> => t[1].base = s[1].base /\ LastOf(t).hdr
               /\ Whole(s) => Whole(t)
               /\ Whole(s) /\ t # <<>> => /\ EndOf(t) = LastOf(s).base /\ Durable(t) = LastOf(s).base
                                          /\ Clean(LastOf(t))
               /\ \A o \in Nat : \A r : On(s, o, r) /\ o < LastOf(s).base => On(t, o, r)
<1> DEFINE t == SubSeq(s, 1, Len(s) - 1)
           n == Len(s)
<1>1. t \in Seq(Segment) /\ Len(t) = n - 1 /\ \A i \in 1..n - 1 : t[i] = s[i]
  BY FrontFacts, Zenon
<1>2. n \in Nat /\ n \in 1..n /\ 1 \in 1..n /\ LastOf(s) \in Segment /\ s[n] = LastOf(s)
  BY DEF LastOf
<1>3. \A i \in 1..n : s[i] \in Segment
  OBVIOUS
<1>4. \A i \in 1..n : Valid(s[i]) \in Nat
  BY SegTypes, Zenon
<1>5. \A i \in 1..n : s[i].base \in Nat /\ Len(s[i].recs) \in Nat
  BY SegTypes, Zenon
<1>6. \A i \in 1..n - 1 : i \in 1..n /\ i + 1 \in 1..n /\ i # n
  BY <1>2
<1> HIDE DEF t, n
<1>7. ASSUME t # <<>> PROVE n - 1 \in 1..n - 1 /\ 1 \in 1..n - 1 /\ LastOf(t) = s[n - 1] /\ t[1] = s[1]
  BY <1>1, <1>2, <1>7 DEF LastOf
<1>8. Shape(t)
  <2>1. \A i \in 1..n - 1 : t[i].hdr
    BY <1>1, Zenon DEF Shape, n
  <2>2. \A i, j \in 1..n - 1 : i < j => t[i].base + Valid(t[i]) <= t[j].base
    BY <1>1, <1>6, Zenon DEF Shape, n
  <2>3. \A i \in 1..Len(t) - 1 : i \in 1..n - 1
    BY <1>1, <1>2
  <2>4. t # <<>> => t[1].hdr
    BY <1>7, <2>1, Zenon
  <2> QED BY <1>1, <2>1, <2>2, <2>3, <2>4, Zenon DEF Shape
<1>9. t # <<>> => LastOf(t).hdr
  BY <1>7, Zenon DEF Shape, n
<1>10. ASSUME Whole(s), t # <<>>
       PROVE  EndOf(t) = LastOf(s).base /\ Durable(t) = LastOf(s).base /\ Clean(LastOf(t))
  <2> DEFINE f == s[n - 1]
  <2>1. Sealed(f) /\ f.base + Len(f.recs) = s[(n - 1) + 1].base
    BY <1>7, <1>10, Zenon DEF Whole, n
  <2>2. (n - 1) + 1 = n
    BY <1>2
  <2>3. f \in Segment /\ f.hdr /\ Clean(f) /\ f.synced = Len(f.recs) /\ Len(f.recs) \in Nat
    BY <1>3, <1>5, <1>6, <1>7, <1>9, <1>10, <2>1, ZenonT(60) DEF Sealed
  <2>4. Valid(f) = Len(f.recs)
    BY <2>3, CleanValid, Zenon
  <2> HIDE DEF f
  <2>5. LastOf(t) = f /\ t # <<>>
    BY <1>7, <1>10, Zenon DEF f
  <2>6. EndOf(t) = f.base + Len(f.recs) /\ Durable(t) = f.base + Len(f.recs)
    BY <2>3, <2>4, <2>5 DEF EndOf, Durable
  <2> QED BY <1>2, <2>1, <2>2, <2>3, <2>5, <2>6, ZenonT(60)
<1>11. ASSUME Whole(s) PROVE Whole(t)
  <2>1. \A i \in 1..Len(t) - 1 : Sealed(t[i]) /\ t[i].base + Len(t[i].recs) = t[i + 1].base
    <3> SUFFICES ASSUME NEW i \in 1..Len(t) - 1
                 PROVE  Sealed(t[i]) /\ t[i].base + Len(t[i].recs) = t[i + 1].base
      BY Zenon
    <3>1. i \in 1..n - 1 /\ i + 1 \in 1..n - 1
      BY <1>1, <1>2
    <3>2. Sealed(s[i]) /\ s[i].base + Len(s[i].recs) = s[i + 1].base
      BY <1>11, <3>1, Zenon DEF Whole, n
    <3> QED BY <1>1, <3>1, <3>2, Zenon
  <2>2. ASSUME t # <<>>
        PROVE  /\ Tailed(LastOf(t)) /\ (~Retention => t[1].base = 0)
               /\ \A o \in t[1].base..EndOf(t) - 1 : \E i \in 1..n - 1 : Holds(t[i], o)
    <3>1. Sealed(s[n - 1])
      BY <1>7, <1>11, <2>2, ZenonT(60) DEF Whole, n
    <3>2. Len(s[n - 1].recs) \in Nat
      BY <1>5, <1>6, <1>7, <2>2, ZenonT(60)
    <3>3. Tailed(LastOf(t))
      BY <1>7, <2>2, <3>1, <3>2 DEF Tailed, Sealed, Clean
    <3>4. ~Retention => t[1].base = 0
      BY <1>7, <1>11, <2>2, Zenon DEF Whole
    <3>5. ASSUME NEW o \in t[1].base..EndOf(t) - 1 PROVE \E i \in 1..n - 1 : Holds(t[i], o)
      <4>1. EndOf(t) = s[n].base /\ t[1] = s[1] /\ 1 \in 1..n
        BY <1>2, <1>7, <1>10, <1>11, <2>2, Zenon
      <4>2. EndOf(s) = s[n].base + Valid(s[n]) /\ s[n].base \in Nat /\ Valid(s[n]) \in Nat /\ s[1].base \in Nat
        BY <1>2, <1>4, <1>5, Zenon DEF EndOf
      <4>3. o \in s[1].base..EndOf(s) - 1 /\ o < s[n].base
        BY <4>1, <4>2
      <4>4. PICK i \in 1..n : Holds(s[i], o)
        BY <1>11, <4>3, Zenon DEF Whole, n
      <4>5. i # n
        BY <4>2, <4>3, <4>4 DEF Holds
      <4>6. i \in 1..n - 1
        BY <1>2, <4>5
      <4> QED BY <1>1, <4>4, <4>6, Zenon
    <3> QED BY <3>3, <3>4, <3>5, ZenonT(60)
  <2> QED BY <1>1, <2>1, <2>2, ZenonT(60) DEF Whole
<1>12. ASSUME NEW o \in Nat, NEW r, On(s, o, r), o < LastOf(s).base PROVE On(t, o, r)
  <2>1. PICK i \in 1..n : Holds(s[i], o) /\ s[i].recs[o - s[i].base + 1] = r
    BY <1>12, Zenon DEF On, n
  <2>2. i # n
    BY <1>2, <1>5, <1>12, <2>1 DEF Holds
  <2>3. i \in 1..n - 1
    BY <1>2, <2>2
  <2> QED BY <1>1, <2>1, <2>3, Zenon DEF On
<1> QED BY <1>1, <1>7, <1>8, <1>9, <1>10, <1>11, <1>12, ZenonT(60) DEF t, n

\* Removing the first k files.
LEMMA Rest ==
    ASSUME NEW s \in Seq(Segment), Shape(s), NEW k \in Nat, k < Len(s), s[k + 1].hdr, Retention
    PROVE  LET t == SubSeq(s, k + 1, Len(s))
           IN  /\ t \in Seq(Segment) /\ t # <<>> /\ LastOf(t) = LastOf(s) /\ t[1] = s[k + 1]
               /\ Shape(t)
               /\ Whole(s) => Whole(t)
               /\ \A o \in Nat : \A r : On(s, o, r) => On(t, o, r) \/ o < t[1].base
               /\ s[1].base <= t[1].base
<1> DEFINE t == SubSeq(s, k + 1, Len(s))
           n == Len(s)
<1>1. t \in Seq(Segment) /\ Len(t) = n - k /\ \A i \in 1..n - k : t[i] = s[i + k]
  BY RestFacts, Zenon
<1>2. n \in Nat /\ s # <<>>
  OBVIOUS
<1>3. \A i \in 1..n : s[i] \in Segment
  OBVIOUS
<1>4. \A i \in 1..n : Valid(s[i]) \in Nat
  BY SegTypes, Zenon
<1>5. \A i \in 1..n : s[i].base \in Nat /\ Len(s[i].recs) \in Nat
  BY SegTypes, Zenon
<1> HIDE DEF t, n
<1>6. \A i \in 1..n - k : i + k \in 1..n /\ (i < n - k => i + k \in 1..n - 1)
  BY <1>2
<1>7. /\ k < n /\ n - k \in 1..n - k /\ (n - k) + k = n /\ 1 \in 1..n - k /\ 1 + k = k + 1
      /\ 1 \in 1..n /\ n \in 1..n /\ k + 1 \in 1..n
  BY <1>2 DEF n
<1>8. t # <<>> /\ LastOf(t) = LastOf(s) /\ t[1] = s[k + 1] /\ EndOf(t) = EndOf(s)
  <2>1. t # <<>> /\ LastOf(t) = LastOf(s) /\ t[1] = s[k + 1]
    BY <1>1, <1>7 DEF LastOf, n
  <2> QED BY <1>2, <2>1, Zenon DEF EndOf
<1>9. \A i \in 1..k : s[i].base + Valid(s[i]) <= s[k + 1].base
  <2>1. \A i \in 1..k : i \in 1..n /\ i < k + 1
    BY <1>2, <1>7
  <2> QED BY <1>7, <2>1, Zenon DEF Shape, n
<1>10. s[1].base <= t[1].base
  <2>1. CASE k = 0
    BY <1>5, <1>7, <1>8, <2>1
  <2>2. CASE k # 0
    <3>1. s[1].base + Valid(s[1]) <= s[k + 1].base
      BY <1>9, <2>2
    <3>2. \A a, v, c \in Nat : a + v <= c => a <= c
      OBVIOUS
    <3> QED BY <1>4, <1>5, <1>7, <1>8, <3>1, <3>2, ZenonT(60)
  <2> QED BY <2>1, <2>2, Zenon
<1>11. Shape(t)
  <2>1. \A i \in 1..n - k - 1 : t[i].hdr
    <3> SUFFICES ASSUME NEW i \in 1..n - k - 1 PROVE t[i].hdr
      BY Zenon
    <3>1. i \in 1..n - k /\ i + k \in 1..n - 1
      BY <1>2, <1>7
    <3> QED BY <1>1, <3>1, Zenon DEF Shape, n
  <2>2. \A i \in 1..n - k : ~t[i].hdr => t[i].recs = <<>>
    BY <1>1, <1>6, Zenon DEF Shape, n
  <2>3. \A i, j \in 1..n - k : i < j => t[i].base + Valid(t[i]) <= t[j].base
    <3> SUFFICES ASSUME NEW i \in 1..n - k, NEW j \in 1..n - k, i < j
                 PROVE  t[i].base + Valid(t[i]) <= t[j].base
      BY Zenon
    <3>1. i + k \in 1..n /\ j + k \in 1..n /\ i + k < j + k
      BY <1>2, <1>6
    <3>2. s[i + k].base + Valid(s[i + k]) <= s[j + k].base
      BY <3>1, Zenon DEF Shape, n
    <3> QED BY <1>1, <3>2, Zenon
  <2> QED BY <1>1, <1>8, <2>1, <2>2, <2>3, ZenonT(60) DEF Shape
<1>12. ASSUME NEW o \in Nat, t[1].base <= o, NEW i \in 1..n, Holds(s[i], o)
       PROVE  \E j \in 1..n - k : t[j] = s[i]
  <2>1. ~(i <= k)
    <3> SUFFICES ASSUME i <= k PROVE FALSE
      BY Zenon
    <3>1. s[i].base + Valid(s[i]) <= s[k + 1].base
      BY <1>9
    <3> DEFINE a == s[i].base + Valid(s[i])
               c == s[k + 1].base
    <3>2. a \in Int /\ c \in Int
      <4>1. \A x, y \in Nat : x + y \in Int /\ x \in Int
        OBVIOUS
      <4> QED BY <1>4, <1>5, <1>7, <4>1, ZenonT(60)
    <3>3. a <= c /\ c <= o /\ o < a
      BY <1>8, <1>12, <3>1, Zenon DEF Holds
    <3> HIDE DEF a, c
    <3> QED BY <3>2, <3>3
  <2>2. i - k \in 1..n - k /\ (i - k) + k = i
    BY <1>2, <2>1
  <2> QED BY <1>1, <2>2, Zenon
<1>13. ASSUME Whole(s) PROVE Whole(t)
  <2>1. \A i \in 1..Len(t) - 1 : Sealed(t[i]) /\ t[i].base + Len(t[i].recs) = t[i + 1].base
    <3> SUFFICES ASSUME NEW i \in 1..Len(t) - 1
                 PROVE  Sealed(t[i]) /\ t[i].base + Len(t[i].recs) = t[i + 1].base
      BY Zenon
    <3>1. i \in 1..n - k /\ i + 1 \in 1..n - k /\ i + k \in 1..n - 1 /\ (i + 1) + k = (i + k) + 1
      BY <1>1, <1>2, <1>7
    <3>2. Sealed(s[i + k]) /\ s[i + k].base + Len(s[i + k].recs) = s[(i + k) + 1].base
      BY <1>13, <3>1, Zenon DEF Whole, n
    <3> QED BY <1>1, <3>1, <3>2, ZenonT(60)
  <2>2. ASSUME NEW o \in t[1].base..EndOf(t) - 1 PROVE \E i \in 1..Len(t) : Holds(t[i], o)
    <3>1. o \in Nat /\ t[1].base <= o /\ o \in s[1].base..EndOf(s) - 1
      <4>1. LastOf(s) = s[n]
        BY Zenon DEF LastOf, n
      <4>2. EndOf(s) \in Nat /\ s[1].base \in Nat /\ t[1].base \in Nat
        <5>1. \A x, y \in Nat : x + y \in Nat
          OBVIOUS
        <5> QED BY <1>2, <1>4, <1>5, <1>7, <1>8, <4>1, <5>1, ZenonT(60) DEF EndOf
      <4> QED BY <1>8, <1>10, <4>2
    <3>2. PICK i \in 1..n : Holds(s[i], o)
      BY <1>2, <1>13, <3>1, Zenon DEF Whole, n
    <3> QED BY <1>1, <1>12, <3>1, <3>2, ZenonT(60)
  <2>3. Tailed(LastOf(t))
    BY <1>2, <1>8, <1>13, Zenon DEF Whole
  <2> QED BY <2>1, <2>2, <2>3, Zenon DEF Whole
<1>14. ASSUME NEW o \in Nat, NEW r, On(s, o, r), ~(o < t[1].base) PROVE On(t, o, r)
  <2>1. PICK i \in 1..n : Holds(s[i], o) /\ s[i].recs[o - s[i].base + 1] = r
    BY <1>14, ZenonT(60) DEF On, n
  <2>2. t[1].base <= o
    BY <1>5, <1>7, <1>8, <1>14
  <2>3. PICK j \in 1..n - k : t[j] = s[i]
    BY <1>12, <2>1, <2>2, Zenon
  <2> QED BY <1>1, <2>1, <2>3, Zenon DEF On
<1> QED BY <1>1, <1>8, <1>10, <1>11, <1>13, <1>14, ZenonT(60) DEF t, n

\* The first file of an empty directory.
LEMMA FirstFile ==
    LET f == NewSegment(0, TRUE)
    IN  /\ f \in Segment /\ f.base = 0 /\ f.hdr /\ f.recs = <<>> /\ Clean(f) /\ Valid(f) = 0
        /\ Shape(<<f>>) /\ Whole(<<f>>) /\ EndOf(<<f>>) = 0 /\ Durable(<<f>>) = 0
        /\ <<f>> \in Seq(Segment) /\ <<f>> # <<>> /\ LastOf(<<f>>) = f /\ <<f>>[1] = f /\ Len(<<f>>) = 1
<1> DEFINE f == NewSegment(0, TRUE)
<1>1. /\ f \in Segment /\ f.base = 0 /\ f.hdr /\ f.recs = <<>> /\ Len(f.recs) = 0 /\ f.synced = -1
  BY DEF NewSegment, Segment
<1> HIDE DEF f
<1>2. Clean(f) /\ Tailed(f)
  BY <1>1 DEF Clean, Tailed
<1>3. Valid(f) = 0
  BY <1>1, <1>2, CleanValid, Zenon
<1>4. <<f>> \in Seq(Segment) /\ <<f>> # <<>> /\ LastOf(<<f>>) = f /\ <<f>>[1] = f /\ Len(<<f>>) = 1
  BY <1>1, SingleFacts, Zenon
<1> DEFINE t == <<f>>
<1>5. t # <<>> /\ LastOf(t) = f /\ t[1] = f /\ Len(t) = 1
  BY <1>4, Zenon
<1> HIDE DEF t
<1>6. EndOf(t) = 0 /\ Durable(t) = 0
  BY <1>1, <1>3, <1>5 DEF EndOf, Durable
<1>7. Shape(t) /\ Whole(t)
  <2>1. \A i \in 1..Len(t) : i = 1
    BY <1>5
  <2>2. \A i \in 1..Len(t) - 1 : FALSE
    BY <1>5
  <2>3. Shape(t)
    BY <1>1, <1>5, <2>1, <2>2 DEF Shape
  <2>4. \A o \in t[1].base..EndOf(t) - 1 : FALSE
    BY <1>1, <1>5, <1>6
  <2> QED BY <1>1, <1>2, <1>5, <2>2, <2>3, <2>4, ZenonT(60) DEF Whole
<1> QED BY <1>1, <1>2, <1>3, <1>4, <1>6, <1>7, ZenonT(60) DEF t, f

\* Files do not overlap: an offset names one record.
LEMMA OnUnique ==
    ASSUME NEW s \in Seq(Segment), Shape(s), NEW o \in Nat, NEW r, NEW q, On(s, o, r), On(s, o, q)
    PROVE  r = q
<1>1. PICK i \in 1..Len(s) : Holds(s[i], o) /\ s[i].recs[o - s[i].base + 1] = r
  BY Zenon DEF On
<1>2. PICK j \in 1..Len(s) : Holds(s[j], o) /\ s[j].recs[o - s[j].base + 1] = q
  BY Zenon DEF On
<1>3. s[i] \in Segment /\ s[j] \in Segment
  OBVIOUS
<1>4. s[i].base \in Nat /\ Valid(s[i]) \in Nat /\ s[j].base \in Nat /\ Valid(s[j]) \in Nat
  BY <1>3, ValidFacts, ZenonT(60) DEF Segment
<1>5. ~(i < j) /\ ~(j < i)
  <2>1. (i < j => s[i].base + Valid(s[i]) <= s[j].base) /\ (j < i => s[j].base + Valid(s[j]) <= s[i].base)
    BY Zenon DEF Shape
  <2> QED BY <1>1, <1>2, <1>4, <2>1 DEF Holds
<1> QED BY <1>1, <1>2, <1>5

\* Two sequences, one after the other.
LEMMA ConcatFacts ==
    ASSUME NEW S, NEW a \in Seq(S), NEW b \in Seq(S)
    PROVE  /\ a \o b \in Seq(S) /\ Len(a \o b) = Len(a) + Len(b)
           /\ \A j \in 1..Len(a) : (a \o b)[j] = a[j]
           /\ \A j \in 1..Len(b) : (a \o b)[Len(a) + j] = b[j]
OBVIOUS

Put(s, i, g) == [s EXCEPT ![i] = g]

\* Replacing element i of a sequence by the elements of u.
LEMMA Spliced ==
    ASSUME NEW S, NEW s \in Seq(S), NEW i \in 1..Len(s), NEW g \in S
    PROVE  /\ SubSeq(s, 1, i - 1) \o <<g>> \o SubSeq(s, i + 1, Len(s)) = Put(s, i, g)
           /\ i = Len(s) => SubSeq(s, 1, i - 1) \o <<>> \o SubSeq(s, i + 1, Len(s)) = SubSeq(s, 1, Len(s) - 1)
<1> DEFINE n == Len(s)
           a == SubSeq(s, 1, i - 1)
           b == SubSeq(s, i + 1, n)
<1>1. n \in Nat /\ i \in Nat /\ i >= 1 /\ i <= n
  OBVIOUS
<1>2. a \in Seq(S) /\ Len(a) = i - 1 /\ \A j \in 1..i - 1 : a[j] = s[j]
  <2>1. \A j \in 1..i - 1 : 1 + j - 1 = j /\ j \in 1..n
    BY <1>1
  <2>2. a = [j \in 1..i - 1 |-> s[j]]
    BY <1>1, <2>1
  <2> HIDE DEF a
  <2> QED BY <1>1, <2>1, <2>2
<1>3. b \in Seq(S) /\ Len(b) = n - i /\ \A j \in 1..n - i : b[j] = s[i + j]
  <2>1. \A j \in 1..n - i : (i + 1) + j - 1 = i + j /\ i + j \in 1..n
    BY <1>1
  <2>2. b = [j \in 1..n - i |-> s[i + j]]
    BY <1>1, <2>1
  <2> HIDE DEF b
  <2> QED BY <1>1, <2>1, <2>2
<1> HIDE DEF n, a, b
<1>4. a \o <<g>> \o b = [s EXCEPT ![i] = g]
  <2>1. <<g>> \in Seq(S) /\ Len(<<g>>) = 1 /\ <<g>>[1] = g
    BY SingleFacts, Zenon
  <2> DEFINE c == a \o <<g>>
             d == c \o b
             e == [s EXCEPT ![i] = g]
  <2>2. c \in Seq(S) /\ Len(c) = i /\ c[i] = g /\ \A j \in 1..i - 1 : c[j] = s[j]
    BY <1>1, <1>2, <2>1
  <2> HIDE DEF c
  <2>3. d \in Seq(S) /\ Len(d) = n
    <3>1. d \in Seq(S) /\ Len(d) = Len(c) + Len(b)
      BY <1>3, <2>2, ConcatFacts, Zenon
    <3> QED BY <1>1, <1>3, <2>2, <3>1
  <2>4. \A j \in 1..n : d[j] = IF j = i THEN g ELSE s[j]
    <3> SUFFICES ASSUME NEW j \in 1..n PROVE d[j] = IF j = i THEN g ELSE s[j]
      BY Zenon
    <3>1. CASE j <= i
      <4>1. j \in 1..Len(c) /\ (j # i => j \in 1..i - 1)
        BY <1>1, <2>2, <3>1
      <4>2. d[j] = c[j]
        BY <1>3, <2>2, <4>1
      <4> QED BY <2>2, <4>1, <4>2, Zenon
    <3>2. CASE j > i
      <4>1. j - i \in 1..n - i /\ i + (j - i) = j
        BY <1>1, <3>2
      <4>2. d[j] = b[j - i]
        BY <1>1, <1>3, <2>2, <3>2, <4>1
      <4> QED BY <1>1, <1>3, <3>2, <4>1, <4>2
    <3>3. j <= i \/ j > i
      BY <1>1
    <3> QED BY <3>1, <3>2, <3>3, Zenon
  <2>5. e \in Seq(S) /\ Len(e) = n /\ \A j \in 1..n : e[j] = IF j = i THEN g ELSE s[j]
    BY <1>1 DEF n
  <2> HIDE DEF d, e
  <2>6. d = e
    BY <1>1, <2>3, <2>4, <2>5
  <2> QED BY <2>6, Zenon DEF d, e, c
<1>5. ASSUME i = n PROVE a \o <<>> \o b = a
  <2>1. b = <<>>
    BY <1>1, <1>3, <1>5
  <2> QED BY <1>2, <2>1
<1> QED BY <1>4, <1>5, Zenon DEF n, a, b, Put

\* Part of a clean file, and the torn bytes that may follow it.
Part(f, k, tail) == [f EXCEPT !.recs = SubSeq(f.recs, 1, k) \o tail, !.synced = k]

\* What may follow the first k records of f, and the file g they make.
MayFollow(f, k, tail) ==
    \/ tail = <<>> /\ k <= Len(f.recs)
    \/ tail = <<Torn>> /\ k < Len(f.recs)
CutTo(g, f, k) ==
    /\ g \in Segment /\ g.base = f.base /\ g.synced = k /\ Tailed(g)
    /\ ~g.hdr => g.recs = <<>>
    /\ Valid(g) = k /\ k <= Valid(f) /\ \A j \in 1..k : g.recs[j] = f.recs[j]

\* What a loss of power leaves of a clean file.
LEMMA PartFacts ==
    ASSUME NEW f \in Segment, Clean(f), ~f.hdr => f.recs = <<>>, NEW k \in Nat, f.synced <= k,
           NEW tail, MayFollow(f, k, tail)
    PROVE  CutTo(Part(f, k, tail), f, k)
<1> DEFINE g == Part(f, k, tail)
           a == SubSeq(f.recs, 1, k)
           l == Len(f.recs)
<1>0. (tail = <<>> /\ k <= l) \/ (tail = <<Torn>> /\ k < l)
  BY Zenon DEF MayFollow
<1>1. f.recs \in Seq(Client \cup {Torn}) /\ l \in Nat /\ k <= l /\ f.base \in Nat /\ f.hdr \in BOOLEAN
  BY <1>0 DEF Segment
<1>2. a \in Seq(Client \cup {Torn}) /\ Len(a) = k /\ \A j \in 1..k : a[j] = f.recs[j]
  <2>1. \A j \in 1..k : 1 + j - 1 = j /\ j \in 1..l
    BY <1>1
  <2>2. a = [j \in 1..k |-> f.recs[j]]
    BY <1>1, <2>1
  <2> HIDE DEF a
  <2> QED BY <1>1, <2>1, <2>2
<1>3. \A j \in 1..k : f.recs[j] # Torn
  BY <1>1 DEF Clean
<1>4. f.hdr => Valid(f) = l
  BY CleanValid, Zenon
<1> HIDE DEF a, l
<1>5. /\ g.recs = a \o tail /\ g.base = f.base /\ g.hdr = f.hdr /\ g.synced = k
      /\ g = [base |-> f.base, hdr |-> f.hdr, recs |-> a \o tail, synced |-> k]
  <2> DEFINE x == a \o tail
  <2>1. g = [f EXCEPT !.recs = x, !.synced = k]
    BY Zenon DEF Part, a
  <2> HIDE DEF g, x
  <2>2. g = [base |-> f.base, hdr |-> f.hdr, recs |-> x, synced |-> k]
    BY <2>1, Zenon DEF Segment
  <2> QED BY <2>2, Zenon DEF x
<1>6. CASE tail = <<>>
  <2>1. a \o tail = a
    BY <1>2, <1>6
  <2>2. g \in Segment /\ g.recs = a
    BY <1>1, <1>2, <1>5, <2>1, Zenon DEF Segment
  <2> HIDE DEF g
  <2>3. Tailed(g)
    <3>1. Len(g.recs) = k /\ g.synced = k /\ \A j \in 1..k : g.recs[j] # Torn
      BY <1>2, <1>3, <1>5, <2>2, ZenonT(60)
    <3>2. k <= k
      OBVIOUS
    <3> QED BY <3>1, <3>2, Zenon DEF Tailed
  <2>4. CASE f.hdr
    <3>1. g.hdr
      BY <1>5, <2>4, Zenon
    <3>2. Valid(g) = k
      BY <1>2, <1>3, <2>2, <3>1, ValidIs
    <3> QED BY <1>1, <1>2, <1>4, <1>5, <2>2, <2>3, <2>4, <3>1, <3>2, ZenonT(60) DEF g, CutTo
  <2>5. CASE ~f.hdr
    <3>1. l = 0 /\ k = 0 /\ a = <<>>
      BY <1>1, <1>2, <2>5 DEF l
    <3>2. Valid(g) = 0 /\ Valid(f) = 0
      BY <1>5, <2>5, Zenon DEF Valid
    <3> QED BY <1>1, <1>2, <1>5, <2>2, <2>3, <3>1, <3>2, ZenonT(60) DEF g, CutTo
  <2> QED BY <2>4, <2>5, ZenonT(60)
<1>7. CASE tail = <<Torn>> /\ k < l
  <2> DEFINE b == a \o <<Torn>>
  <2>1. b \in Seq(Client \cup {Torn}) /\ Len(b) = k + 1 /\ b[k + 1] = Torn /\ \A j \in 1..k : b[j] = f.recs[j]
    BY <1>2
  <2>2. f.hdr
    BY <1>1, <1>7 DEF l
  <2> HIDE DEF b
  <2>3. g \in Segment /\ g.recs = b /\ g.hdr
    BY <1>1, <1>5, <1>7, <2>1, <2>2, ZenonT(60) DEF Segment, b
  <2> HIDE DEF g
  <2>6. /\ Len(g.recs) = k + 1 /\ g.synced = k /\ k <= k + 1 /\ g.recs[k + 1] = Torn
        /\ \A j \in 1..k : g.recs[j] # Torn
    <3>1. g.synced = k
      BY <1>5, Zenon
    <3> QED BY <1>3, <2>1, <2>3, <3>1
  <2>4. Tailed(g)
    <3>1. \A j \in 1..k + 1 : j < k + 1 \/ j <= k => j \in 1..k
      OBVIOUS
    <3> QED BY <2>6, <3>1, Zenon DEF Tailed
  <2>5. Valid(g) = k
    BY <2>3, <2>6, ValidIs, Zenon
  <2> QED BY <1>1, <1>4, <1>5, <1>7, <2>1, <2>2, <2>3, <2>4, <2>5, ZenonT(60) DEF g, CutTo
<1> QED BY <1>0, <1>6, <1>7, ZenonT(60)

\* What may be left of one file after a loss of power.
LEMMA SurvivorFacts ==
    ASSUME NEW f \in Segment, NEW u \in Survivors(f)
    PROVE  \/ \E k \in Nat : /\ f.synced <= k
                             /\ \/ k <= Len(f.recs) /\ u = <<Part(f, k, <<>>)>>
                                \/ k < Len(f.recs) /\ u = <<Part(f, k, <<Torn>>)>>
           \/ f.synced < 0 /\ u \in {<<>>, <<NewSegment(f.base, FALSE)>>}
<1> DEFINE least == IF f.synced < 0 THEN 0 ELSE f.synced
           l == Len(f.recs)
<1>1. f.synced \in Nat \cup {-1} /\ l \in Nat
  BY DEF Segment
<1>2. least \in Nat /\ f.synced <= least
  BY <1>1
<1>3. \/ \E k \in least..l : u = <<Part(f, k, <<>>)>>
      \/ \E k \in least..l - 1 : u = <<Part(f, k, <<Torn>>)>>
      \/ f.synced < 0 /\ u \in {<<>>, <<NewSegment(f.base, FALSE)>>}
  BY Zenon DEF Survivors, Part
<1> HIDE DEF least, l
<1>4. /\ \A k \in least..l : k \in Nat /\ f.synced <= k /\ k <= l
      /\ \A k \in least..l - 1 : k \in Nat /\ f.synced <= k /\ k < l
  BY <1>1, <1>2
<1>5. CASE \E k \in least..l : u = <<Part(f, k, <<>>)>>
  BY <1>4, <1>5, Zenon DEF l
<1>6. CASE \E k \in least..l - 1 : u = <<Part(f, k, <<Torn>>)>>
  BY <1>4, <1>6, Zenon DEF l
<1> QED BY <1>3, <1>5, <1>6, Zenon

\* What a loss of power may make of the files s: nothing, or the last one is lost or
\* cut above what was synced.
PowerCut(s, t) ==
    \/ t = s
    \/ t = SubSeq(s, 1, Len(s) - 1) /\ LastOf(s).synced < 0
    \/ \E g \in Segment :
          /\ t = WithLast(s, g) /\ g.base = LastOf(s).base
          /\ ~g.hdr => g.recs = <<>>
          /\ Tailed(g) /\ Valid(g) <= Valid(LastOf(s))
          /\ LastOf(s).synced <= Valid(g) /\ LastOf(s).synced <= g.synced
          /\ \A j \in 1..Valid(g) : g.recs[j] = LastOf(s).recs[j]

\* A loss of power touches only the last file: the others are synced.
LEMMA PowerLost ==
    ASSUME NEW s \in Seq(Segment), Shape(s), Whole(s), Clean(LastOf(s)),
           NEW i \in 1..Len(s), NEW u \in Survivors(s[i]),
           NEW t, t = SubSeq(s, 1, i - 1) \o u \o SubSeq(s, i + 1, Len(s))
    PROVE  PowerCut(s, t)
<1> DEFINE f == s[i]
           n == Len(s)
<1>1. n \in Nat /\ n \in 1..n /\ s[n] = LastOf(s) /\ s # <<>>
  BY DEF LastOf
<1>2. f \in Segment /\ (~f.hdr => f.recs = <<>>) /\ Len(f.recs) \in Nat
  BY SegTypes, Zenon DEF Shape
<1>3. Clean(f) /\ (i # n => f.synced = Len(f.recs))
  <2>1. i # n => i \in 1..n - 1
    BY <1>1
  <2>2. i # n => Sealed(f)
    BY <2>1, Zenon DEF Whole
  <2> QED BY <1>1, <2>2, Zenon DEF Sealed
<1>4. /\ \A g \in Segment : u = <<g>> => t = Put(s, i, g)
      /\ u = <<>> /\ i = n => t = SubSeq(s, 1, n - 1)
  <2>1. ASSUME NEW g \in Segment, u = <<g>> PROVE t = Put(s, i, g)
    <3>1. SubSeq(s, 1, i - 1) \o <<g>> \o SubSeq(s, i + 1, Len(s)) = Put(s, i, g)
      BY Spliced, Zenon
    <3> QED BY <2>1, <3>1, Zenon
  <2>2. ASSUME u = <<>>, i = n PROVE t = SubSeq(s, 1, n - 1)
    <3>1. SubSeq(s, 1, i - 1) \o <<>> \o SubSeq(s, i + 1, Len(s)) = SubSeq(s, 1, n - 1)
      BY <1>2, <2>2, Spliced, ZenonT(60)
    <3> QED BY <2>2, <3>1, Zenon
  <2> QED BY <2>1, <2>2, Zenon
<1>5. ASSUME NEW k \in Nat, f.synced <= k, NEW tail, u = <<Part(f, k, tail)>>,
             \/ tail = <<>> /\ k <= Len(f.recs)
             \/ tail = <<Torn>> /\ k < Len(f.recs)
      PROVE  PowerCut(s, t)
  <2> DEFINE g == Part(f, k, tail)
  <2> HIDE DEF f
  <2>1. /\ g \in Segment /\ g.base = f.base /\ g.synced = k /\ Tailed(g)
        /\ ~g.hdr => g.recs = <<>>
        /\ Valid(g) = k /\ k <= Valid(f) /\ \A j \in 1..k : g.recs[j] = f.recs[j]
    <3>1. f \in Segment /\ Clean(f) /\ (~f.hdr => f.recs = <<>>) /\ k \in Nat /\ f.synced <= k
      BY <1>2, <1>3, <1>5, Zenon
    <3>2. MayFollow(f, k, tail)
      BY <1>5, Zenon DEF MayFollow
    <3>3. CutTo(g, f, k)
      BY <3>1, <3>2, PartFacts, Zenon
    <3> HIDE DEF g
    <3> QED BY <3>3, Zenon DEF CutTo
  <2>2. t = Put(s, i, g)
    BY <1>4, <1>5, <2>1, Zenon
  <2>3. CASE i = n
    <3>1. t = WithLast(s, g) /\ f = LastOf(s)
      BY <1>1, <2>2, <2>3, Zenon DEF WithLast, Put, f
    <3> HIDE DEF g
    <3> QED BY <1>5, <2>1, <3>1, Zenon DEF PowerCut
  <2>4. CASE i # n
    <3>1. k = Len(f.recs) /\ tail = <<>>
      BY <1>2, <1>3, <1>5, <2>4
    <3>2. f.recs \in Seq(Client \cup {Torn})
      BY <1>2, Zenon DEF Segment
    <3>3. SubSeq(f.recs, 1, k) \o tail = f.recs
      BY <3>1, <3>2
    <3>4. g = f
      <4>1. g = [f EXCEPT !.recs = f.recs, !.synced = k] /\ f.synced = k
        BY <1>3, <2>4, <3>1, <3>3, ZenonT(60) DEF Part
      <4> HIDE DEF g
      <4> QED BY <1>2, <4>1, Zenon DEF Segment
    <3>5. [s EXCEPT ![i] = s[i]] = s
      OBVIOUS
    <3> QED BY <2>2, <3>4, <3>5, ZenonT(60) DEF f, Put, PowerCut
  <2> QED BY <2>3, <2>4, Zenon
<1>6. ASSUME f.synced < 0 PROVE i = n
  BY <1>2, <1>3, <1>6
<1>7. ASSUME f.synced < 0, u = <<NewSegment(f.base, FALSE)>>
      PROVE  PowerCut(s, t)
  <2> DEFINE g == NewSegment(f.base, FALSE)
  <2>1. i = n /\ f = LastOf(s)
    BY <1>1, <1>6, <1>7, Zenon
  <2>2. f.base \in Nat /\ f.synced \in Nat \cup {-1}
    BY <1>2, ZenonT(60) DEF Segment
  <2>3. /\ g \in Segment /\ g.base = f.base /\ g.recs = <<>> /\ Len(g.recs) = 0 /\ Valid(g) = 0
        /\ g.synced = -1
    BY <2>2 DEF NewSegment, Segment, Valid
  <2>4. t = WithLast(s, g)
    BY <1>4, <1>7, <2>1, <2>3, ZenonT(60) DEF WithLast, Put
  <2> HIDE DEF g, f
  <2>5. Tailed(g)
    BY <2>3 DEF Tailed
  <2>6. Valid(f) \in Nat /\ f.synced = -1
    BY <1>2, <1>7, <2>2, ValidFacts
  <2>7. /\ g.base = LastOf(s).base /\ (~g.hdr => g.recs = <<>>) /\ Valid(g) <= Valid(LastOf(s))
        /\ LastOf(s).synced <= Valid(g) /\ LastOf(s).synced <= g.synced
    BY <2>1, <2>3, <2>6
  <2>8. \A j \in 1..Valid(g) : g.recs[j] = LastOf(s).recs[j]
    BY <2>3
  <2> QED BY <2>3, <2>4, <2>5, <2>7, <2>8, ZenonT(60) DEF PowerCut
<1>8. ASSUME f.synced < 0, u = <<>>
      PROVE  PowerCut(s, t)
  BY <1>1, <1>4, <1>6, <1>8, Zenon DEF PowerCut
<1> HIDE DEF f
<1>9. \/ \E k \in Nat : /\ f.synced <= k
                        /\ \/ k <= Len(f.recs) /\ u = <<Part(f, k, <<>>)>>
                           \/ k < Len(f.recs) /\ u = <<Part(f, k, <<Torn>>)>>
      \/ f.synced < 0 /\ u \in {<<>>, <<NewSegment(f.base, FALSE)>>}
  BY <1>2, SurvivorFacts, Zenon DEF f
<1>10. CASE \E k \in Nat : /\ f.synced <= k
                          /\ \/ k <= Len(f.recs) /\ u = <<Part(f, k, <<>>)>>
                             \/ k < Len(f.recs) /\ u = <<Part(f, k, <<Torn>>)>>
  <2>1. PICK k \in Nat : /\ f.synced <= k
                         /\ \/ k <= Len(f.recs) /\ u = <<Part(f, k, <<>>)>>
                            \/ k < Len(f.recs) /\ u = <<Part(f, k, <<Torn>>)>>
    BY <1>10, Zenon
  <2>2. CASE k <= Len(f.recs) /\ u = <<Part(f, k, <<>>)>>
    BY <1>5, <2>1, <2>2, Zenon
  <2>3. CASE k < Len(f.recs) /\ u = <<Part(f, k, <<Torn>>)>>
    BY <1>5, <2>1, <2>3, Zenon
  <2> QED BY <2>1, <2>2, <2>3, Zenon
<1>11. CASE f.synced < 0 /\ u \in {<<>>, <<NewSegment(f.base, FALSE)>>}
  BY <1>7, <1>8, <1>11, Zenon
<1> QED BY <1>9, <1>10, <1>11, Zenon

\* A step that changes no record of the log: what is on disk stays at its offset,
\* the head stays where it is and nothing durable is lost.
Kept(s, t) ==
    /\ \A o \in Nat : \A r : On(s, o, r) => On(t, o, r)
    /\ ~PowerLoss /\ s # <<>> => t # <<>> /\ t[1].base = s[1].base
    /\ ~WriteFaults /\ ~Retention => EndOf(t) = EndOf(s) /\ Durable(s) <= Durable(t)

\* The ends of a sequence of files are offsets.
LEMMA DurableNat ==
    ASSUME NEW s \in Seq(Segment)
    PROVE  Durable(s) \in Nat /\ EndOf(s) \in Nat
<1>1. CASE s = <<>>
  BY <1>1, Zenon DEF Durable, EndOf
<1>2. CASE s # <<>>
  <2>1. LastOf(s) \in Segment
    BY <1>2 DEF LastOf
  <2>2. LastOf(s).base \in Nat /\ LastOf(s).synced \in Nat \cup {-1} /\ Valid(LastOf(s)) \in Nat
    BY <2>1, ValidFacts, Zenon DEF Segment
  <2> QED BY <1>2, <2>2 DEF Durable, EndOf
<1> QED BY <1>1, <1>2, Zenon

\* Files that do not change are kept.
LEMMA KeptSame ==
    ASSUME NEW s \in Seq(Segment)
    PROVE  Kept(s, s)
BY DurableNat DEF Kept

\* Files kept by two changes are kept by both together.
LEMMA KeptTwice ==
    ASSUME NEW s \in Seq(Segment), NEW t \in Seq(Segment), NEW u \in Seq(Segment), Kept(s, t), Kept(t, u)
    PROVE  Kept(s, u)
<1>1. Durable(s) \in Nat /\ Durable(t) \in Nat /\ Durable(u) \in Nat
  BY DurableNat, Zenon
<1> QED BY <1>1 DEF Kept

\* Replacing the last file by one that scans the same.
LEMMA LastChanged ==
    ASSUME NEW s \in Seq(Segment), s # <<>>, Shape(s),
           NEW g \in Segment, g.base = LastOf(s).base,
           ~g.hdr => g.recs = <<>>, LastOf(s).hdr => g.hdr,
           Valid(g) = Valid(LastOf(s)), LastOf(s).synced <= g.synced,
           \A j \in 1..Valid(LastOf(s)) : g.recs[j] = LastOf(s).recs[j]
    PROVE  LET t == WithLast(s, g)
           IN  /\ t \in Seq(Segment) /\ Len(t) = Len(s) /\ t # <<>> /\ LastOf(t) = g
               /\ \A i \in 1..Len(s) - 1 : t[i] = s[i]
               /\ Shape(t) /\ (Whole(s) /\ Tailed(g) => Whole(t))
               /\ Kept(s, t) /\ EndOf(t) = EndOf(s)
<1> DEFINE t == WithLast(s, g)
           f == LastOf(s)
           v == Valid(f)
<1>1. /\ t \in Seq(Segment) /\ Len(t) = Len(s) /\ t # <<>> /\ LastOf(t) = g
      /\ \A i \in 1..Len(s) - 1 : t[i] = s[i]
      /\ t[1].base = s[1].base /\ EndOf(t) = g.base + Valid(g)
      /\ Shape(t) /\ (Whole(s) /\ Tailed(g) => Whole(t))
  BY Replaced, Zenon
<1>2. f \in Segment /\ v \in Nat /\ f.base \in Nat
  <2>1. f \in Segment
    BY DEF LastOf
  <2> QED BY <2>1, ValidFacts, Zenon DEF Segment
<1>3. EndOf(s) = f.base + v
  BY Zenon DEF EndOf
<1>4. ASSUME NEW o \in Nat, NEW r, On(s, o, r) PROVE On(t, o, r)
  <2>1. o < g.base + v
    <3>1. PICK i \in 1..Len(s) : Holds(s[i], o)
      BY <1>4, Zenon DEF On
    <3>2. /\ s[i].base \in Nat /\ Valid(s[i]) \in Nat /\ Len(s) \in 1..Len(s) /\ Len(s) \in Nat
          /\ s[Len(s)] = f
      BY SegTypes DEF LastOf
    <3>3. i # Len(s) => s[i].base + Valid(s[i]) <= s[Len(s)].base
      BY <3>2 DEF Shape
    <3> QED BY <1>2, <3>1, <3>2, <3>3 DEF Holds
  <2> HIDE DEF t, f, v
  <2> QED BY <1>2, <1>4, <2>1, ReplacedOn DEF t, f, v
<1>5. Durable(s) <= Durable(t)
  <2>1. f.synced \in Nat \cup {-1} /\ g.synced \in Nat \cup {-1}
    BY <1>2, Zenon DEF Segment
  <2> HIDE DEF t
  <2> QED BY <1>1, <1>2, <2>1 DEF Durable
<1> HIDE DEF t
<1>6. EndOf(t) = EndOf(s)
  BY <1>1, <1>3, Zenon
<1>7. Kept(s, t)
  BY <1>1, <1>4, <1>5, <1>6, Zenon DEF Kept
<1> QED BY <1>1, <1>6, <1>7, Zenon DEF t

\* An fsync of the last file.
LEMMA SyncedFiles ==
    ASSUME NEW s \in Seq(Segment), s # <<>>, Shape(s), ~WriteFaults => Whole(s) /\ Clean(LastOf(s))
    PROVE  LET t == WithLast(s, Synced(LastOf(s)))
           IN  /\ t \in Seq(Segment) /\ Len(t) = Len(s) /\ t # <<>> /\ LastOf(t) = Synced(LastOf(s))
               /\ \A i \in 1..Len(s) - 1 : t[i] = s[i]
               /\ \A i \in 1..Len(s) : /\ t[i].base = s[i].base /\ t[i].hdr = s[i].hdr
                                       /\ t[i].recs = s[i].recs /\ Valid(t[i]) = Valid(s[i])
               /\ Shape(t) /\ (~WriteFaults => Whole(t) /\ Sealed(LastOf(t)))
               /\ EndOf(t) = EndOf(s) /\ (~WriteFaults => Kept(s, t))
               /\ \A o \in Nat : \A r : On(s, o, r) => On(t, o, r)
               /\ Durable(t) = LastOf(s).base + Len(LastOf(s).recs)
<1> DEFINE f == LastOf(s)
           g == Synced(f)
           t == WithLast(s, g)
<1>1. f \in Segment /\ Len(s) \in 1..Len(s) /\ Len(s) \in Nat
  BY DEF LastOf
<1>2. /\ g \in Segment /\ g.base = f.base /\ g.hdr = f.hdr
      /\ g.recs = f.recs /\ g.synced = Len(f.recs) /\ Valid(g) = Valid(f)
  BY <1>1, SyncedFacts, Zenon
<1>3. ~f.hdr => f.recs = <<>>
  BY <1>1, Zenon DEF Shape, LastOf
<1>4. /\ t \in Seq(Segment) /\ Len(t) = Len(s) /\ t # <<>> /\ LastOf(t) = g
      /\ \A i \in 1..Len(s) - 1 : t[i] = s[i]
      /\ t[1].base = s[1].base /\ EndOf(t) = g.base + Valid(g)
      /\ Shape(t) /\ (Whole(s) /\ Tailed(g) => Whole(t))
  <2> HIDE DEF f, g
  <2> QED BY <1>1, <1>2, <1>3, Replaced, Zenon DEF f
<1>5. Len(f.recs) \in Nat /\ Valid(f) \in Nat /\ Valid(f) <= Len(f.recs) /\ f.base \in Nat
  BY <1>1, ValidFacts, ZenonT(60) DEF Segment
<1>6. ASSUME ~WriteFaults
      PROVE  Sealed(g) /\ Tailed(g) /\ f.synced <= g.synced
  <2>1. Clean(f) /\ Tailed(f)
    BY <1>6, Zenon DEF Whole
  <2> HIDE DEF f, g
  <2> QED BY <1>2, <1>5, <2>1 DEF Sealed, Tailed, Clean
<1>7. ~WriteFaults => Kept(s, t)
  <2> HIDE DEF f, g
  <2> QED BY <1>2, <1>3, <1>6, LastChanged, ZenonT(60) DEF f
<1>8. ASSUME NEW o \in Nat, NEW r, On(s, o, r) PROVE On(t, o, r)
  <2>1. o < g.base + Valid(g)
    <3>1. PICK i \in 1..Len(s) : Holds(s[i], o)
      BY <1>8, Zenon DEF On
    <3>2. s[i].base \in Nat /\ Valid(s[i]) \in Nat /\ s[Len(s)] = f
      BY SegTypes, ZenonT(60) DEF LastOf
    <3>3. i # Len(s) => s[i].base + Valid(s[i]) <= s[Len(s)].base
      BY <1>1 DEF Shape
    <3> HIDE DEF f, g
    <3> QED BY <1>1, <1>2, <1>5, <3>1, <3>2, <3>3 DEF Holds
  <2> HIDE DEF f, g, t
  <2> QED BY <1>2, <1>5, <1>8, <2>1, ReplacedOn DEF t, f
<1>9. Durable(t) = f.base + Len(f.recs)
  <2> HIDE DEF f, g, t
  <2> QED BY <1>2, <1>4, <1>5 DEF Durable
<1>10. EndOf(s) = f.base + Valid(f)
  BY Zenon DEF EndOf
<1>11. \A i \in 1..Len(s) : /\ t[i].base = s[i].base /\ t[i].hdr = s[i].hdr
                            /\ t[i].recs = s[i].recs /\ Valid(t[i]) = Valid(s[i])
  <2>1. t[Len(s)] = g /\ s[Len(s)] = f
    BY <1>1, <1>4, Zenon DEF LastOf
  <2> HIDE DEF f, g, t
  <2>2. \A i \in 1..Len(s) : i = Len(s) \/ i \in 1..Len(s) - 1
    BY <1>1
  <2> QED BY <1>2, <1>4, <2>1, <2>2, ZenonT(60)
<1> HIDE DEF f, g, t
<1> QED BY <1>2, <1>4, <1>6, <1>7, <1>8, <1>9, <1>10, <1>11, ZenonT(60) DEF f, g, t

\* Dropping a last file without its header loses no record.
LEMMA HeadlessDropped ==
    ASSUME NEW s \in Seq(Segment), s # <<>>, Shape(s), ~WriteFaults => Whole(s), ~LastOf(s).hdr
    PROVE  LET t == SubSeq(s, 1, Len(s) - 1)
           IN  /\ t \in Seq(Segment) /\ Shape(t) /\ (~WriteFaults => Whole(t))
               /\ ~PowerLoss => t # <<>>
               /\ Kept(s, t)
<1> DEFINE t == SubSeq(s, 1, Len(s) - 1)
           f == LastOf(s)
           n == Len(s)
<1>1. /\ t \in Seq(Segment) /\ Len(t) = n - 1 /\ Shape(t)
      /\ t # <<>> => t[1].base = s[1].base
      /\ Whole(s) => Whole(t)
      /\ Whole(s) /\ t # <<>> => EndOf(t) = f.base /\ Durable(t) = f.base
      /\ \A o \in Nat : \A r : On(s, o, r) /\ o < f.base => On(t, o, r)
  BY Dropped, Zenon
<1>2. n \in Nat /\ n \in 1..n /\ s[n] = f
  BY DEF LastOf
<1> HIDE DEF t, f, n
<1>3. f \in Segment /\ f.base \in Nat /\ f.recs = <<>> /\ Valid(f) = 0 /\ f.synced \in Nat \cup {-1}
  <2>1. f \in Segment
    BY <1>2 DEF n
  <2>2. f.recs = <<>> /\ ~f.hdr
    BY <1>2, Zenon DEF Shape, n, f
  <2> QED BY <2>1, <2>2, Zenon DEF Segment, Valid
<1>4. ~PowerLoss => t # <<>>
  <2> SUFFICES ASSUME ~PowerLoss, t = <<>> PROVE FALSE
    BY Zenon
  <2>1. n = 1
    <3>1. Len(t) = 0
      BY Zenon
    <3> QED BY <1>1, <1>2, <3>1
  <2> QED BY <1>2, <2>1, Zenon DEF Shape, f
<1>5. ASSUME NEW o \in Nat, NEW r, On(s, o, r) PROVE On(t, o, r)
  <2>1. PICK i \in 1..n : Holds(s[i], o)
    BY <1>5, Zenon DEF On, n
  <2>2. s[i].base \in Nat /\ Valid(s[i]) \in Nat
    BY SegTypes, ZenonT(60) DEF n
  <2>3. i # n => s[i].base + Valid(s[i]) <= f.base
    BY <1>2 DEF Shape, n
  <2>4. i # n
    BY <1>2, <1>3, <2>1 DEF Holds
  <2>5. o < f.base
    BY <1>3, <2>1, <2>2, <2>3, <2>4 DEF Holds
  <2> QED BY <1>1, <1>5, <2>5, Zenon
<1>6. ASSUME ~WriteFaults, ~Retention PROVE EndOf(t) = EndOf(s) /\ Durable(s) <= Durable(t)
  <2>1. EndOf(s) = f.base
    BY <1>3 DEF EndOf, f
  <2>2. Durable(s) = f.base
    <3>1. f.synced <= 0
      <4>1. Tailed(f) /\ Len(f.recs) = 0
        BY <1>3, <1>6, ZenonT(60) DEF Whole, f
      <4> QED BY <4>1, Zenon DEF Tailed
    <3> QED BY <1>3, <3>1 DEF Durable, f
  <2>3. CASE t # <<>>
    BY <1>1, <1>3, <1>6, <2>1, <2>2, <2>3
  <2>4. CASE t = <<>>
    <3>1. EndOf(t) = 0 /\ Durable(t) = 0
      BY <2>4, ZenonT(60) DEF EndOf, Durable
    <3>2. n = 1
      <4>1. Len(t) = 0
        BY <2>4, Zenon
      <4> QED BY <1>1, <1>2, <4>1
    <3>3. f.base = 0
      BY <1>2, <1>6, <3>2, Zenon DEF Whole
    <3> QED BY <2>1, <2>2, <3>1, <3>3
  <2> QED BY <2>3, <2>4, Zenon
<1>7. Kept(s, t)
  BY <1>1, <1>4, <1>5, <1>6, ZenonT(60) DEF Kept
<1> QED BY <1>1, <1>4, <1>7, Zenon DEF t

\* Where no power is lost, records stay until retention has passed them.
Ahead(s, t) ==
    s # <<>> => /\ t # <<>> /\ s[1].base <= t[1].base
                /\ \A o \in Nat : \A r : On(s, o, r) => On(t, o, r) \/ o < t[1].base

\* Files that keep their records and their first base.
LEMMA AheadSame ==
    ASSUME NEW s \in Seq(Segment), NEW t, s # <<>> => t # <<>> /\ t[1].base = s[1].base,
           \A o \in Nat : \A r : On(s, o, r) => On(t, o, r)
    PROVE  Ahead(s, t)
<1>1. s # <<>> => s[1].base \in Nat
  <2>1. s # <<>> => 1 \in 1..Len(s)
    OBVIOUS
  <2> QED BY <2>1, SegTypes, Zenon
<1> QED BY <1>1 DEF Ahead

----------------------------------------------------------------------------
(* What each step does to the files.                                         *)

\* What a running log knows of its last file.
LEMMA LastMatched ==
    ASSUME BaseInv, DiskInv, up = "up"
    PROVE  /\ files \in Seq(Segment) /\ files # <<>> /\ segs # <<>> /\ LastOf(files) \in Segment
           /\ Len(files) \in Nat /\ Len(segs) \in Nat /\ 1 <= Len(segs) /\ Len(segs) <= Len(files)
           /\ handle => Len(segs) = Len(files)
           /\ ~WriteFaults => Clean(LastOf(files)) /\ EndOf(files) = next
           /\ Len(segs) = Len(files) => /\ LastOf(files).hdr
                                        /\ EndOf(files) <= next
                                        /\ ~WriteFaults => LastOf(files).base + Len(LastOf(files).recs) = next
<1> DEFINE f == LastOf(files)
           n == Len(files)
<1>1. /\ files \in Seq(Segment) /\ segs # <<>> /\ Len(segs) <= n /\ n \in Nat /\ Len(segs) \in Nat
      /\ next = End(LastOf(segs)) /\ next \in Nat
  BY LogTypes, ZenonT(60) DEF BaseInv, OffsetInv, TypeOK
<1>2. files # <<>> /\ 1 <= Len(segs) /\ n \in 1..n /\ Len(segs) \in 1..Len(segs)
  BY <1>1, LogTypes DEF BaseInv
<1>3. f \in Segment /\ f.base \in Nat /\ Len(f.recs) \in Nat /\ Valid(f) \in Nat /\ files[n] = f
  BY <1>1, <1>2, SegTypes, ZenonT(60) DEF LastOf
<1>4. MatchFiles /\ Shape(files)
  BY Zenon DEF DiskInv
<1>5. EndOf(files) = f.base + Valid(f)
  BY <1>2, ZenonT(60) DEF EndOf
<1> HIDE DEF f, n
<1>6. ASSUME Len(segs) = n
      PROVE  /\ f.hdr /\ EndOf(files) <= next
             /\ ~WriteFaults => /\ Clean(f) /\ f.base + Len(f.recs) = next /\ EndOf(files) = next
  <2>1. /\ f.hdr /\ LastOf(segs).base = f.base /\ Valid(f) <= LastOf(segs).records
        /\ ~WriteFaults => LastOf(segs).records = Len(f.recs) /\ Clean(f)
    BY <1>2, <1>3, <1>4, <1>6, ZenonT(60) DEF MatchFiles, LastOf, f, n
  <2>2. next = f.base + LastOf(segs).records /\ LastOf(segs).records \in Nat
    BY <1>1, <1>2, <2>1, LogTypes, ZenonT(60) DEF End, LastOf, BaseInv
  <2>3. ~WriteFaults => Valid(f) = Len(f.recs)
    BY <1>3, <2>1, CleanValid, ZenonT(60)
  <2> QED BY <1>3, <1>5, <2>1, <2>2, <2>3
<1>7. ASSUME Len(segs) # n
      PROVE  ~handle /\ (~WriteFaults => Clean(f) /\ EndOf(files) = next)
  <2>1. ~handle /\ ~f.hdr /\ f.base = next
    BY <1>4, <1>7, Zenon DEF MatchFiles, f, n
  <2>2. f.recs = <<>>
    BY <1>2, <1>3, <1>4, <2>1, ZenonT(60) DEF Shape, n
  <2>3. Clean(f) /\ Valid(f) = 0
    BY <2>1, <2>2 DEF Clean, Valid
  <2> QED BY <1>1, <1>3, <1>5, <2>1, <2>3
<1> QED BY <1>1, <1>2, <1>3, <1>6, <1>7, ZenonT(60) DEF f, n

\* A step that changes neither the files nor the segments.
LEMMA FilesSame ==
    ASSUME BaseInv, DiskInv, UNCHANGED <<files, segs, next>>,
           up' = "up" => up = "up" /\ handle' = handle /\ MatchWriter'
    PROVE  DiskInv' /\ Kept(files, files')
<1>1. files \in Seq(Segment)
  BY LogTypes, Zenon DEF BaseInv
<1>2. Kept(files, files')
  BY <1>1, KeptSame, Zenon
<1>3. Shape(files') /\ (~WriteFaults => Whole(files'))
  BY Zenon DEF DiskInv
<1>4. up' = "up" => MatchFiles'
  BY Zenon DEF DiskInv, MatchFiles
<1> QED BY <1>2, <1>3, <1>4, Zenon DEF DiskInv

\* A step that only syncs the last file.
LEMMA FilesSynced ==
    ASSUME BaseInv, DiskInv, up = "up", files' = SyncLast, UNCHANGED <<segs, next>>,
           up' = "up", handle' \in {handle, FALSE}, MatchWriter'
    PROVE  /\ DiskInv' /\ (~WriteFaults => Kept(files, files'))
           /\ \A o \in Nat : \A r : On(files, o, r) => On(files', o, r)
           /\ files' # <<>> /\ files'[1].base = files[1].base
           /\ ~WriteFaults => Durable(files') = LastOf(files).base + Len(LastOf(files).recs)
<1>1. /\ files \in Seq(Segment) /\ files # <<>> /\ Shape(files) /\ MatchFiles
      /\ ~WriteFaults => Whole(files) /\ Clean(LastOf(files))
      /\ Len(segs) <= Len(files) /\ Len(segs) \in Nat /\ Len(files) \in Nat
  BY LastMatched, Zenon DEF DiskInv
<1>2. files' = WithLast(files, Synced(LastOf(files)))
  BY <1>1, SyncLastFacts, ZenonT(60) DEF BaseInv
<1>3. /\ files' \in Seq(Segment) /\ Len(files') = Len(files) /\ files' # <<>>
      /\ \A i \in 1..Len(files) : /\ files'[i].base = files[i].base /\ files'[i].hdr = files[i].hdr
                                  /\ files'[i].recs = files[i].recs /\ Valid(files'[i]) = Valid(files[i])
      /\ Shape(files') /\ (~WriteFaults => Whole(files'))
      /\ ~WriteFaults => Kept(files, files')
      /\ \A o \in Nat : \A r : On(files, o, r) => On(files', o, r)
      /\ Durable(files') = LastOf(files).base + Len(LastOf(files).recs)
  BY <1>1, <1>2, SyncedFiles
<1>4. MatchFiles'
  <2>1. Len(files) \in 1..Len(files) /\ 1 \in 1..Len(files) /\ \A i \in 1..Len(segs) : i \in 1..Len(files)
    BY <1>1
  <2>2. LastOf(files').hdr = LastOf(files).hdr /\ LastOf(files').base = LastOf(files).base
    BY <1>3, <2>1, ZenonT(60) DEF LastOf
  <2>3. \A i \in 1..Len(segs') : /\ segs'[i].base = files'[i].base
                                 /\ Valid(files'[i]) <= segs'[i].records
                                 /\ ~WriteFaults => /\ segs'[i].records = Len(files'[i].recs)
                                                    /\ Clean(files'[i])
    BY <1>1, <1>3, <2>1 DEF MatchFiles, Clean
  <2>4. Len(segs') # Len(files') => Len(segs') = Len(files') - 1 /\ ~handle' /\ ~LastOf(files').hdr
                                     /\ LastOf(files').base = next'
    BY <1>1, <1>3, <2>2, ZenonT(60) DEF MatchFiles
  <2>5. Len(segs') = Len(files') => LastOf(files').hdr
    BY <1>1, <1>3, <2>2, ZenonT(60) DEF MatchFiles
  <2> QED BY <2>3, <2>4, <2>5, Zenon DEF MatchFiles
<1>5. files'[1].base = files[1].base
  <2>1. 1 \in 1..Len(files)
    BY <1>1
  <2> QED BY <1>3, <2>1, Zenon
<1> QED BY <1>3, <1>4, <1>5, Zenon DEF DiskInv

\* Steps of callers, of the writer between its writes, and of the consumer.
LEMMA QuietDisk ==
    ASSUME BaseInv, DiskInv,
           \/ \E c \in Client : AppendCall(c)
           \/ Take \/ Collect \/ CollectEnd \/ Close
           \/ ReadNext \/ Commit
    PROVE  DiskInv' /\ files' = files /\ UNCHANGED <<up, segs, next, handle>>
<1>1. up = "up" /\ UNCHANGED <<files, up, segs, next, handle>>
  <2>1. CASE ReadNext \/ Commit
    BY <2>1, Zenon DEF ReadNext, Commit, diskVars, logVars
  <2> QED BY <2>1, QuietSteps, ZenonT(60)
<1>2. MatchWriter
  BY <1>1, Zenon DEF DiskInv
<1>3. CASE UNCHANGED <<wpc, batch, written>>
  BY <1>1, <1>2, <1>3, FilesSame, ZenonT(60) DEF MatchWriter
<1>4. CASE Take
  <2>1. batch' = <<Head(reqs)>> /\ written' = 0 /\ wpc' \in {"write", "collect"}
    BY <1>4, Zenon DEF Take
  <2>2. batch' # <<>>
    BY <2>1, Zenon
  <2>3. MatchWriter'
    BY <2>1, <2>2, ZenonT(60) DEF MatchWriter
  <2> QED BY <1>1, <2>3, FilesSame, Zenon
<1>5. CASE Collect
  <2>1. batch' = Append(batch, Head(reqs)) /\ written' = written /\ wpc' = wpc /\ batch \in Seq(Client)
    BY <1>5, Zenon DEF Collect, BaseInv, TypeOK
  <2>2. batch' # <<>>
    BY <2>1
  <2>3. MatchWriter'
    BY <1>1, <1>2, <2>1, <2>2, ZenonT(60) DEF MatchWriter
  <2> QED BY <1>1, <2>3, FilesSame, Zenon
<1>6. CASE CollectEnd
  <2>1. wpc = "collect" /\ wpc' = "write" /\ UNCHANGED <<batch, written>>
    BY <1>6, Zenon DEF CollectEnd
  <2>2. MatchWriter'
    BY <1>1, <1>2, <2>1, Zenon DEF MatchWriter
  <2> QED BY <1>1, <2>2, FilesSame, Zenon
<1>7. CASE Close \/ ReadNext \/ Commit \/ \E c \in Client : AppendCall(c)
  <2>1. UNCHANGED <<wpc, batch, written>>
    BY <1>7, Zenon DEF Close, ReadNext, Commit, AppendCall, CheckClosed, Send, Receive, WriterGone,
                ContextDone, CallOnly, writerVars
  <2> QED BY <1>3, <2>1, Zenon
<1> QED BY <1>1, <1>4, <1>5, <1>6, <1>7, ZenonT(60)

\* The steps that answer a batch, but for a write that fails short.
LEMMA AnswerDisk ==
    ASSUME BaseInv, DiskInv, RollFails \/ HandleClosed \/ Sync \/ SyncSkipped \/ SyncFails
    PROVE  /\ DiskInv' /\ (~WriteFaults => Kept(files, files'))
           /\ \A o \in Nat : \A r : On(files, o, r) => On(files', o, r)
           /\ files' # <<>> /\ files'[1].base = files[1].base
<1>1. up = "up" /\ BaseInv' /\ TypeOK
  BY AnswerSteps, Zenon DEF RollFails, HandleClosed, Sync, SyncSkipped, SyncFails, Writing, Written, BaseInv
<1>2. up' = "up" /\ wpc' = "idle" /\ UNCHANGED <<segs, next>>
  BY <1>1, Zenon DEF RollFails, HandleClosed, Sync, SyncSkipped, SyncFails, AnswerError, AnswerOffsets, Answer,
              logVars
<1>3. MatchWriter'
  BY <1>2, Zenon DEF MatchWriter
<1>4. \/ files' = files /\ handle' = handle
      \/ files' = SyncLast /\ handle' \in {handle, FALSE}
  BY Zenon DEF RollFails, HandleClosed, Sync, SyncSkipped, SyncFails, logVars
<1>5. CASE files' = files /\ handle' = handle
  BY <1>1, <1>2, <1>3, <1>5, FilesSame, LastMatched, ZenonT(60) DEF Kept
<1>6. CASE files' = SyncLast /\ handle' \in {handle, FALSE}
  BY <1>1, <1>2, <1>3, <1>6, FilesSynced, ZenonT(60)
<1> QED BY <1>4, <1>5, <1>6, Zenon

\* The writer exits, and Close syncs.
LEMMA QuitDisk ==
    ASSUME BaseInv, DiskInv, Quit
    PROVE  /\ DiskInv' /\ (~WriteFaults => Kept(files, files'))
           /\ \A o \in Nat : \A r : On(files, o, r) => On(files', o, r)
           /\ files' # <<>> /\ files'[1].base = files[1].base
<1>1. /\ up = "up" /\ up' = "up" /\ UNCHANGED <<segs, next, batch, written>> /\ wpc' = "exited"
      /\ files' = (IF handle THEN SyncLast ELSE files) /\ handle' = FALSE
  BY Zenon DEF Quit
<1>2. MatchWriter'
  BY <1>1, Zenon DEF MatchWriter
<1>3. handle \in BOOLEAN
  BY Zenon DEF BaseInv, TypeOK
<1>4. CASE handle
  BY <1>1, <1>2, <1>4, FilesSynced, ZenonT(60)
<1>5. CASE ~handle
  BY <1>1, <1>2, <1>3, <1>5, FilesSame, LastMatched, ZenonT(60) DEF Kept
<1> QED BY <1>4, <1>5, Zenon

\* One record is written behind the others.
LEMMA WriteDisk ==
    ASSUME BaseInv, DiskInv, WriteRecord
    PROVE  /\ DiskInv' /\ (\A o \in Nat : \A r : On(files, o, r) => On(files', o, r))
           /\ files' # <<>> /\ files'[1].base = files[1].base
           /\ ~WriteFaults => /\ EndOf(files) = next /\ EndOf(files') = next + 1
                              /\ On(files', next, batch[written + 1])
                              /\ Durable(files') = Durable(files)
<1> DEFINE f == LastOf(files)
           x == batch[written + 1]
           g == Wrote(f, <<x>>)
           m == [base |-> LastOf(segs).base, records |-> LastOf(segs).records + 1]
           n == Len(files)
<1>1. /\ up = "up" /\ up' = "up" /\ handle /\ wpc = "write" /\ next' = next + 1
      /\ UNCHANGED <<handle, wpc, batch>>
  BY Zenon DEF WriteRecord, Writing
<1>2. /\ files \in Seq(Segment) /\ files # <<>> /\ segs # <<>> /\ f \in Segment
      /\ n \in Nat /\ Len(segs) = n /\ 1 <= n /\ f.hdr /\ EndOf(files) <= next
      /\ ~WriteFaults => Clean(f) /\ EndOf(files) = next /\ f.base + Len(f.recs) = next
  BY <1>1, LastMatched, Zenon
<1>3. x \in Client /\ files' = WithLast(files, g) /\ segs' = WithLast(segs, m)
  BY WriteStep, Zenon
<1>4. Shape(files) /\ (~WriteFaults => Whole(files)) /\ MatchFiles /\ MatchWriter
  BY <1>1, Zenon DEF DiskInv
<1>5. /\ g \in Segment /\ g.base = f.base /\ g.hdr = f.hdr /\ g.synced = f.synced
      /\ Len(g.recs) = Len(f.recs) + 1 /\ g.recs[Len(f.recs) + 1] = x
      /\ \A j \in 1..Len(f.recs) : g.recs[j] = f.recs[j]
      /\ Valid(g) = IF f.hdr /\ x # Torn /\ Valid(f) = Len(f.recs) THEN Valid(f) + 1 ELSE Valid(f)
  BY <1>2, <1>3, WroteFacts, ZenonT(60)
<1>6. x # Torn
  BY <1>3, WalAssumption, Zenon
<1>7. /\ f.base \in Nat /\ Len(f.recs) \in Nat /\ Valid(f) \in Nat /\ Valid(f) <= Len(f.recs)
      /\ f.synced \in Nat \cup {-1} /\ files[n] = f
  BY <1>2, ValidFacts, Zenon DEF Segment, LastOf
<1> HIDE DEF f, x, g, n
<1>8. /\ files' \in Seq(Segment) /\ Len(files') = n /\ files' # <<>> /\ LastOf(files') = g
      /\ \A i \in 1..n - 1 : files'[i] = files[i]
      /\ files'[1].base = files[1].base /\ EndOf(files') = g.base + Valid(g)
      /\ Shape(files') /\ (Whole(files) /\ Tailed(g) => Whole(files'))
  BY <1>2, <1>3, <1>4, <1>5, Replaced, ZenonT(60) DEF f, n
<1>9. ASSUME ~WriteFaults
      PROVE  Clean(g) /\ Tailed(g) /\ Valid(g) = Len(g.recs) /\ Valid(f) = Len(f.recs)
  <2>1. Valid(f) = Len(f.recs) /\ Clean(f) /\ Tailed(f)
    BY <1>2, <1>4, <1>9, CleanValid, ZenonT(60) DEF Whole, f
  <2>2. \A j \in 1..Len(g.recs) : j \in 1..Len(f.recs) \/ j = Len(f.recs) + 1
    BY <1>5, <1>7
  <2>3. Clean(g)
    BY <1>5, <1>6, <2>1, <2>2, ZenonT(60) DEF Clean
  <2>4. Tailed(g)
    BY <1>5, <1>7, <2>1, <2>3 DEF Tailed, Clean
  <2> QED BY <1>2, <1>5, <1>6, <2>1, <2>3, <2>4, ZenonT(60)
<1>10. ASSUME NEW o \in Nat, NEW r, On(files, o, r) PROVE On(files', o, r)
  <2>1. o < g.base + Valid(f)
    <3>1. PICK i \in 1..n : Holds(files[i], o)
      BY <1>10, Zenon DEF On, n
    <3>2. files[i].base \in Nat /\ Valid(files[i]) \in Nat
      BY <1>2, SegTypes, ZenonT(60) DEF n
    <3>3. i # n => files[i].base + Valid(files[i]) <= files[n].base
      BY <1>2, <1>4 DEF Shape, n
    <3> QED BY <1>2, <1>5, <1>7, <3>1, <3>2, <3>3 DEF Holds
  <2>2. Valid(f) <= Valid(g) /\ \A j \in 1..Valid(f) : g.recs[j] = f.recs[j]
    BY <1>5, <1>7
  <2> QED BY <1>2, <1>3, <1>5, <1>7, <1>10, <2>1, <2>2, ReplacedOn, ZenonT(60) DEF f
<1>11. MatchFiles'
  <2>1. m \in SegMeta /\ m.base = LastOf(segs).base /\ m.records = LastOf(segs).records + 1
        /\ LastOf(segs).records \in Nat
    BY <1>2, LogTypes DEF SegMeta, BaseInv
  <2> HIDE DEF m
  <2>2. /\ Len(segs') = n /\ LastOf(segs') = m
        /\ \A i \in 1..n : i # n => segs'[i] = segs[i]
    <3>1. segs \in Seq(SegMeta) /\ segs # <<>>
      BY <1>2, LogTypes, Zenon DEF BaseInv
    <3>2. /\ Len(WithLast(segs, m)) = Len(segs) /\ LastOf(WithLast(segs, m)) = m
          /\ \A i \in 1..Len(segs) : i # Len(segs) => WithLast(segs, m)[i] = segs[i]
      BY <2>1, <3>1, WithLastFacts, ZenonT(60)
    <3> QED BY <1>2, <1>3, <3>2, Zenon
  <2>3. segs'[n] = m /\ files'[n] = g /\ segs[n] = LastOf(segs) /\ n \in 1..n
    BY <1>2, <1>8, <2>2 DEF LastOf
  <2>4. ASSUME NEW i \in 1..n
        PROVE  /\ segs'[i].base = files'[i].base /\ Valid(files'[i]) <= segs'[i].records
               /\ ~WriteFaults => /\ segs'[i].records = Len(files'[i].recs) /\ Clean(files'[i])
    <3>1. /\ segs[i].base = files[i].base /\ Valid(files[i]) <= segs[i].records
          /\ ~WriteFaults => /\ segs[i].records = Len(files[i].recs) /\ Clean(files[i])
      BY <1>2, <1>4, Zenon DEF MatchFiles
    <3>2. CASE i # n
      <4>1. i \in 1..n - 1
        BY <1>2, <3>2
      <4> QED BY <1>8, <2>2, <3>1, <3>2, <4>1, ZenonT(60)
    <3>3. CASE i = n
      <4>1. segs'[i] = m /\ files'[i] = g /\ files[i] = f /\ segs[i] = LastOf(segs)
        BY <1>7, <2>3, <3>3, ZenonT(60)
      <4>2. Valid(g) <= Valid(f) + 1
        BY <1>5, <1>7
      <4>3. m.base = g.base /\ Valid(g) <= m.records
        <5>1. Valid(g) \in Nat
          BY <1>5, <1>7
        <5> QED BY <1>5, <1>7, <2>1, <3>1, <4>1, <4>2, <5>1
      <4>4. ~WriteFaults => m.records = Len(g.recs) /\ Clean(g)
        BY <1>5, <1>9, <2>1, <3>1, <4>1, ZenonT(60)
      <4> QED BY <4>1, <4>3, <4>4, Zenon
    <3> QED BY <3>2, <3>3, Zenon
  <2> QED BY <1>2, <1>5, <1>8, <2>2, <2>4, Zenon DEF MatchFiles
<1>12. MatchWriter'
  BY <1>1, <1>4, Zenon DEF MatchWriter
<1>13. ASSUME ~WriteFaults
       PROVE  /\ EndOf(files) = next /\ EndOf(files') = next + 1
              /\ On(files', next, x) /\ Durable(files') = Durable(files)
  <2>1. EndOf(files') = next + 1
    BY <1>2, <1>5, <1>7, <1>8, <1>9, <1>13
  <2>2. files'[n] = g /\ n \in 1..n
    BY <1>2, <1>8 DEF LastOf
  <2>3. Holds(g, next) /\ next - g.base + 1 = Len(f.recs) + 1
    BY <1>2, <1>5, <1>7, <1>9, <1>13 DEF Holds
  <2>4. On(files', next, x)
    BY <1>5, <1>8, <2>2, <2>3, ZenonT(60) DEF On
  <2>5. Durable(files') = Durable(files)
    BY <1>2, <1>5, <1>8, ZenonT(60) DEF Durable, f
  <2> QED BY <1>2, <1>13, <2>1, <2>4, <2>5, ZenonT(60)
<1> QED BY <1>1, <1>4, <1>8, <1>9, <1>10, <1>11, <1>12, <1>13, ZenonT(60) DEF DiskInv, x

\* Bytes that form no record, behind the others.
LEMMA TornDisk ==
    ASSUME BaseInv, DiskInv, Writing, handle, files' = WithLast(files, Wrote(LastOf(files), <<Torn>>))
    PROVE  /\ Shape(files') /\ (~WriteFaults => Whole(files')) /\ Kept(files, files')
           /\ Len(files') = Len(files) /\ files' # <<>> /\ files'[1].base = files[1].base
           /\ LastOf(files').hdr /\ LastOf(files').base = LastOf(files).base
           /\ Valid(LastOf(files')) = Valid(LastOf(files))
           /\ \A i \in 1..Len(files) - 1 : files'[i] = files[i]
<1> DEFINE f == LastOf(files)
           g == Wrote(f, <<Torn>>)
<1>1. up = "up"
  BY Zenon DEF Writing
<1>2. /\ files \in Seq(Segment) /\ files # <<>> /\ f \in Segment /\ f.hdr /\ Len(files) \in Nat
      /\ ~WriteFaults => Clean(f)
  BY <1>1, LastMatched, Zenon
<1>3. Shape(files) /\ (~WriteFaults => Whole(files))
  BY Zenon DEF DiskInv
<1>4. /\ g \in Segment /\ g.base = f.base /\ g.hdr = f.hdr /\ g.synced = f.synced
      /\ Len(g.recs) = Len(f.recs) + 1
      /\ \A j \in 1..Len(f.recs) : g.recs[j] = f.recs[j]
      /\ Valid(g) = Valid(f)
  <2>1. Torn \in Client \cup {Torn}
    BY Zenon
  <2>2. /\ g \in Segment /\ g.base = f.base /\ g.hdr = f.hdr /\ g.synced = f.synced
        /\ Len(g.recs) = Len(f.recs) + 1
        /\ \A j \in 1..Len(f.recs) : g.recs[j] = f.recs[j]
        /\ Valid(g) = IF f.hdr /\ Torn # Torn /\ Valid(f) = Len(f.recs) THEN Valid(f) + 1 ELSE Valid(f)
    BY <1>2, <2>1, WroteFacts, ZenonT(60)
  <2> QED BY <2>2, Zenon
<1>5. /\ f.base \in Nat /\ Len(f.recs) \in Nat /\ Valid(f) \in Nat /\ Valid(f) <= Len(f.recs)
      /\ f.synced \in Nat \cup {-1}
  BY <1>2, ValidFacts, Zenon DEF Segment
<1> HIDE DEF f, g
<1>6. ASSUME ~WriteFaults PROVE Tailed(g)
  <2>1. Tailed(f) /\ Clean(f)
    BY <1>2, <1>3, <1>6, ZenonT(60) DEF Whole, f
  <2>2. \A j \in 1..Len(g.recs) : j < Len(g.recs) \/ j <= g.synced => j \in 1..Len(f.recs)
    BY <1>4, <1>5, <2>1 DEF Tailed
  <2>3. g.synced <= Len(g.recs)
    BY <1>4, <1>5, <2>1 DEF Tailed
  <2> QED BY <1>4, <2>1, <2>2, <2>3, ZenonT(60) DEF Tailed, Clean
<1>7. /\ files' \in Seq(Segment) /\ Len(files') = Len(files) /\ files' # <<>> /\ LastOf(files') = g
      /\ \A i \in 1..Len(files) - 1 : files'[i] = files[i]
      /\ Shape(files') /\ (Whole(files) /\ Tailed(g) => Whole(files'))
      /\ Kept(files, files')
  <2>1. f.synced <= g.synced /\ \A j \in 1..Valid(f) : g.recs[j] = f.recs[j]
    BY <1>4, <1>5
  <2>2. files' = WithLast(files, g)
    BY Zenon DEF f, g
  <2>3. g \in Segment /\ g.hdr /\ g.base = LastOf(files).base /\ Valid(g) = Valid(LastOf(files))
    BY <1>2, <1>4, Zenon DEF f
  <2>4. /\ LastOf(files).synced <= g.synced /\ files \in Seq(Segment) /\ files # <<>>
        /\ \A j \in 1..Valid(LastOf(files)) : g.recs[j] = LastOf(files).recs[j]
    BY <1>2, <2>1, Zenon DEF f
  <2>5. (~g.hdr => g.recs = <<>>) /\ (LastOf(files).hdr => g.hdr)
    BY <2>3, Zenon
  <2> DEFINE t == WithLast(files, g)
  <2>6. /\ t \in Seq(Segment) /\ Len(t) = Len(files) /\ t # <<>> /\ LastOf(t) = g
        /\ \A i \in 1..Len(files) - 1 : t[i] = files[i]
        /\ Shape(t) /\ (Whole(files) /\ Tailed(g) => Whole(t)) /\ Kept(files, t)
    BY <1>3, <2>3, <2>4, <2>5, LastChanged, ZenonT(60)
  <2> HIDE DEF t
  <2> QED BY <2>2, <2>6, ZenonT(60) DEF t
<1>8. files'[1].base = files[1].base
  <2>1. files' = WithLast(files, g)
    BY Zenon DEF f, g
  <2> QED BY <1>2, <1>3, <1>4, <2>1, Replaced, ZenonT(60) DEF f
<1> QED BY <1>2, <1>3, <1>4, <1>6, <1>7, <1>8, ZenonT(60) DEF f
====
