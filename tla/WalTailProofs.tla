---- MODULE WalTailProofs ----
(***************************************************************************)
(* Why a process may follow a log it does not own through the directory    *)
(* alone (Open with ReadOnly, Refresh in internal/wal), for any number of  *)
(* records, segments and crashes.  A file with a complete header is never  *)
(* removed and never gets shorter, so what Refresh has read stays true     *)
(* while the owner goes on; and because the last known segment is scanned  *)
(* again after the directory is listed, it reaches every base the listing  *)
(* has after it.                                                           *)
(***************************************************************************)
EXTENDS WalTail, TLAPS

\* Leaves are tried with SMT, then with Zenon.
USE SMTT(30), Zenon

File == [base : Nat, hdr : BOOLEAN, records : Nat]
Segment == [base : Nat, records : Nat]

\* There is a segment with base b whose records go up to offset e at least.
Reaches(b, e) ==
    \E i \in 1..Len(files) : files[i].hdr /\ files[i].base = b /\ e <= End(files[i])

\* The files are a chain from offset 0 in which only the last may be empty or have
\* a torn header.
DiskInv ==
    /\ \A i \in 1..Len(files) - 1 : /\ files[i].hdr /\ files[i].records > 0
                                    /\ End(files[i]) = files[i + 1].base
    /\ \A i, j \in 1..Len(files) : i < j => End(files[i]) <= files[j].base
    /\ files # <<>> => files[1].base = 0
    /\ files # <<>> /\ ~LastOf(files).hdr => LastOf(files).records = 0
    /\ owner = "run" => files # <<>> /\ LastOf(files).hdr
    /\ owner = "create" => files # <<>> /\ ~LastOf(files).hdr

\* What was listed is on disk up to the next base that was listed.
ListingInv ==
    /\ \A j \in 1..Len(listing) - 1 :
          listing[j] < listing[j + 1] /\ Reaches(listing[j], listing[j + 1])
    /\ listing # <<>> => listing[1] = 0

\* The view is a chain from offset 0 of segments on disk.
SegsInv ==
    /\ \A i \in 1..Len(segs) : Reaches(segs[i].base, End(segs[i]))
    /\ \A i \in 1..Len(segs) - 1 : End(segs[i]) = segs[i + 1].base
    /\ segs # <<>> => segs[1].base = 0

\* Where Refresh is.  While it walks the listing, the end of the view is at or
\* after the base it is at, and at or after the base listed after the last
\* segment of the view.
WalkInv ==
    /\ rpc = "idle" /\ segs # <<>> => next = End(LastOf(segs))
    /\ rpc = "attach" /\ k <= Len(listing) =>
          \/ k = 1 /\ segs = <<>>
          \/ /\ k > 1 /\ segs # <<>>
             /\ LastOf(segs).base = listing[k - 1] /\ listing[k] <= End(LastOf(segs))
    /\ rpc \in {"known", "new"} => segs # <<>>
    /\ rpc = "known" => k = 1
    /\ rpc = "new" =>
          /\ k <= Len(listing) => listing[k] <= End(LastOf(segs))
          /\ \A j \in 1..Len(listing) - 1 :
                listing[j] = LastOf(segs).base => listing[j + 1] <= End(LastOf(segs))

\* The inductive invariant.
TailInv == TypeOK /\ DiskInv /\ ListingInv /\ SegsInv /\ WalkInv /\ ~corrupt

----------------------------------------------------------------------------
\* Two files with complete headers: the one with the smaller base ends at or
\* before the base of the other, and no two have the same base.
LEMMA FilesApart ==
    ASSUME TypeOK, DiskInv, NEW i \in 1..Len(files), NEW j \in 1..Len(files)
    PROVE  /\ files[i].base \in Nat /\ files[i].records \in Nat /\ End(files[i]) \in Nat
           /\ files[i].base <= End(files[i])
           /\ files[i].base = files[j].base => i = j
           /\ files[i].base < files[j].base => End(files[i]) <= files[j].base
<1>1. files \in Seq(File)
  BY Zenon DEF TypeOK, File
<1>2. files[i] \in File /\ files[j] \in File
  BY <1>1
<1>3. /\ files[i].base \in Nat /\ files[i].records \in Nat
      /\ files[j].base \in Nat /\ files[j].records \in Nat
  BY <1>2, Zenon DEF File
<1>4. i \in Nat /\ j \in Nat /\ Len(files) \in Nat
  BY <1>1
<1>5. i < j => End(files[i]) <= files[j].base /\ files[i].records > 0
  BY <1>1, <1>4 DEF DiskInv
<1>6. j < i => End(files[j]) <= files[i].base /\ files[j].records > 0
  BY <1>1, <1>4 DEF DiskInv
<1>7. i = j \/ i < j \/ j < i
  BY <1>4
<1>8. \A b, r \in Nat : b + r \in Nat /\ b <= b + r /\ (r > 0 => b < b + r)
  OBVIOUS
<1>9. /\ End(files[i]) \in Nat /\ files[i].base <= End(files[i])
      /\ End(files[j]) \in Nat /\ files[j].base <= End(files[j])
      /\ files[i].records > 0 => files[i].base < End(files[i])
      /\ files[j].records > 0 => files[j].base < End(files[j])
  BY <1>3, <1>8, Zenon DEF End
<1> DEFINE a == files[i].base
           b == files[j].base
           x == End(files[i])
           y == End(files[j])
<1>10. /\ a \in Nat /\ b \in Nat /\ x \in Nat /\ y \in Nat
       /\ i < j => a < x /\ x <= b
       /\ j < i => b < y /\ y <= a
  BY <1>3, <1>5, <1>6, <1>9, Zenon
<1> HIDE DEF a, b, x, y
<1>11. (a = b => i = j) /\ (a < b /\ i # j => x <= b)
  BY <1>7, <1>10
<1>12. ~(a < a)
  BY <1>10
<1> QED BY <1>3, <1>9, <1>11, <1>12, Zenon DEF a, b, x, y

\* A segment of the view ends at an offset.
LEMMA SegmentFacts ==
    ASSUME NEW s \in Seq(Segment), NEW i \in 1..Len(s)
    PROVE  /\ s[i] \in Segment /\ s[i].base \in Nat /\ End(s[i]) \in Nat
           /\ s[i].base <= End(s[i])
<1>1. s[i] \in Segment
  OBVIOUS
<1>2. s[i].base \in Nat /\ s[i].records \in Nat
  BY <1>1, Zenon DEF Segment
<1> QED BY <1>1, <1>2 DEF End

\* A file that reaches an offset is ready, and a probe of it finds all its records.
LEMMA ProbeFacts ==
    ASSUME TypeOK, DiskInv, NEW b \in Nat, Ready(b)
    PROVE  /\ Probe(b) \in Segment /\ Probe(b).base = b
           /\ Reaches(b, End(Probe(b)))
           /\ \A e \in Nat : Reaches(b, e) => e <= End(Probe(b))
           /\ \A i \in 1..Len(files) : b < files[i].base => End(Probe(b)) <= files[i].base
<1>1. files \in Seq(File) /\ DOMAIN files = 1..Len(files)
  BY DEF TypeOK, File
<1> DEFINE c == CHOOSE j \in DOMAIN files : files[j].base = b /\ files[j].hdr
<1>2. c \in 1..Len(files) /\ files[c].base = b /\ files[c].hdr
  BY <1>1, Zenon DEF Ready
<1>3. Probe(b) = [base |-> b, records |-> files[c].records]
  BY Zenon DEF Probe
<1> HIDE DEF c
<1>4. /\ files[c].records \in Nat /\ End(files[c]) \in Nat
      /\ \A i \in 1..Len(files) : /\ files[i].base = b => i = c
                                  /\ b < files[i].base => End(files[c]) <= files[i].base
  BY <1>2, FilesApart, Zenon
<1>5. /\ Probe(b) \in Segment /\ Probe(b).base = b /\ End(Probe(b)) = End(files[c])
  BY <1>2, <1>3, <1>4 DEF Segment, End
<1> QED BY <1>2, <1>4, <1>5 DEF Reaches

----------------------------------------------------------------------------
\* What a step of the owner may do to the directory.
DiskKept == \A b \in Nat, e \in Nat : Reaches(b, e) => Reaches(b, e)'

\* A record at the end of the last file.
LEMMA AppendStep ==
    ASSUME TypeOK, DiskInv, OwnerAppend
    PROVE  files' \in Seq(File) /\ DiskInv' /\ DiskKept
<1> DEFINE n == Len(files)
           f == [files[n] EXCEPT !.records = @ + 1]
<1>1. files \in Seq(File) /\ n \in Nat /\ owner = "run" /\ owner' = "run"
  BY DEF TypeOK, File, OwnerAppend
<1>2. n \in 1..n /\ files # <<>> /\ files[n].hdr /\ files[n] \in File
  BY <1>1 DEF DiskInv, LastOf
<1>3. files' = [files EXCEPT ![n] = f]
  BY Zenon DEF OwnerAppend
<1>4. /\ f \in File /\ f.base = files[n].base /\ f.hdr = files[n].hdr
      /\ f.records = files[n].records + 1 /\ f.records \in Nat
  <2> HIDE DEF n
  <2>1. files[n].records + 1 \in Nat
    BY <1>2 DEF File
  <2>2. f \in File
    BY <1>2, <2>1, Zenon DEF File
  <2>3. /\ f.base = files[n].base /\ f.hdr = files[n].hdr
        /\ f.records = files[n].records + 1
    BY <1>2, Zenon DEF File
  <2> QED BY <2>1, <2>2, <2>3, Zenon
<1> HIDE DEF f
<1>5. /\ files' \in Seq(File) /\ Len(files') = n /\ files'[n] = f
      /\ \A i \in 1..n : i # n => files'[i] = files[i]
  BY <1>1, <1>2, <1>3, <1>4
<1>6. \A i \in 1..n : /\ files[i] \in File /\ files'[i].base = files[i].base
                      /\ files'[i].hdr = files[i].hdr
                      /\ i # n => End(files'[i]) = End(files[i])
  BY <1>1, <1>4, <1>5
<1>7. files'[n].base \in Nat /\ files[n].records \in Nat /\ End(files[n]) <= End(files'[n])
  BY <1>2, <1>4, <1>5 DEF File, End
<1> HIDE DEF n
<1>8. DiskInv'
  <2>1. \A i \in 1..n - 1 : /\ files'[i].hdr /\ files'[i].records > 0
                            /\ End(files'[i]) = files'[i + 1].base
    <3> SUFFICES ASSUME NEW i \in 1..n - 1
                 PROVE  /\ files'[i].hdr /\ files'[i].records > 0
                        /\ End(files'[i]) = files'[i + 1].base
      BY Zenon
    <3>1. i \in 1..n /\ i + 1 \in 1..n /\ i # n
      BY <1>1
    <3>2. files[i].hdr /\ files[i].records > 0 /\ End(files[i]) = files[i + 1].base
      BY Zenon DEF DiskInv, n
    <3> QED BY <1>5, <1>6, <3>1, <3>2, Zenon
  <2>2. \A i, j \in 1..n : i < j => End(files'[i]) <= files'[j].base
    <3> SUFFICES ASSUME NEW i \in 1..n, NEW j \in 1..n, i < j
                 PROVE  End(files'[i]) <= files'[j].base
      BY Zenon
    <3>1. i # n
      BY <1>1
    <3>2. End(files[i]) <= files[j].base
      BY Zenon DEF DiskInv, n
    <3> QED BY <1>6, <3>1, <3>2, Zenon
  <2>3. files'[1].base = 0 /\ LastOf(files').hdr /\ files' # <<>> /\ Len(files') = n
    BY <1>1, <1>2, <1>5, <1>6 DEF DiskInv, LastOf
  <2> QED BY <1>1, <2>1, <2>2, <2>3, Zenon DEF DiskInv
<1>9. DiskKept
  <2> SUFFICES ASSUME NEW b \in Nat, NEW e \in Nat, Reaches(b, e)
               PROVE  Reaches(b, e)'
    BY Zenon DEF DiskKept
  <2>1. PICK i \in 1..n : files[i].hdr /\ files[i].base = b /\ e <= End(files[i])
    BY Zenon DEF Reaches, n
  <2>2. End(files[n]) \in Int /\ End(files'[n]) \in Int
    <3>1. \A x, y \in Nat : x + y \in Int
      OBVIOUS
    <3> QED BY <1>2, <1>4, <1>5, <3>1, Zenon DEF File, End
  <2>3. e <= End(files'[i])
    BY <1>6, <1>7, <2>1, <2>2
  <2>4. files'[i].hdr /\ files'[i].base = b
    BY <1>6, <2>1, Zenon
  <2> QED BY <1>5, <2>1, <2>3, <2>4, Zenon DEF Reaches
<1> QED BY <1>5, <1>8, <1>9, Zenon

\* A new file, without its header, at the end of the log.
LEMMA CreateStep ==
    ASSUME TypeOK, DiskInv, CreateSegment, files = <<>> \/ LastOf(files).hdr,
           files # <<>> => LastOf(files).records > 0
    PROVE  files' \in Seq(File) /\ DiskInv' /\ DiskKept
<1> DEFINE n == Len(files)
           f == [base |-> Written, hdr |-> FALSE, records |-> 0]
<1>1. files \in Seq(File) /\ n \in Nat
  BY DEF TypeOK, File
<1>2. files # <<>> => n \in 1..n /\ files[n] \in File
  BY <1>1
<1>3. files # <<>> => Written = End(files[n])
  BY Zenon DEF Written, LastOf
<1>4. Written \in Nat
  BY <1>2 DEF Written, LastOf, File, End
<1>5. f \in File /\ f.base = Written /\ ~f.hdr /\ f.records = 0
  BY <1>4, Zenon DEF File
<1> HIDE DEF f
<1>6. files' = Append(files, f)
  BY Zenon DEF CreateSegment, f
<1>7. /\ files' \in Seq(File) /\ Len(files') = n + 1 /\ files'[n + 1] = f
      /\ \A i \in 1..n : files'[i] = files[i]
  BY <1>1, <1>5, <1>6
<1> HIDE DEF n
<1>8. \A i \in 1..n : End(files[i]) <= Written
  <2> SUFFICES ASSUME NEW i \in 1..n PROVE End(files[i]) <= Written
    BY Zenon
  <2>1. files # <<>> /\ n \in 1..n
    BY <1>1 DEF n
  <2>2. i = n \/ i < n
    BY <1>1
  <2>3. /\ End(files[n]) \in Nat /\ files[n].base \in Nat /\ files[n].base <= End(files[n])
        /\ End(files[i]) \in Nat
    BY <2>1, FilesApart, Zenon DEF n
  <2>4. i < n => End(files[i]) <= files[n].base
    BY <2>1, Zenon DEF DiskInv, n
  <2>5. Written = End(files[n])
    BY <2>1, Zenon DEF Written, LastOf, n
  <2> QED BY <2>2, <2>3, <2>4, <2>5
<1>9. DiskInv'
  <2>1. \A i \in 1..n : /\ files'[i].hdr /\ files'[i].records > 0
                        /\ End(files'[i]) = files'[i + 1].base
    <3> SUFFICES ASSUME NEW i \in 1..n
                 PROVE  /\ files'[i].hdr /\ files'[i].records > 0
                        /\ End(files'[i]) = files'[i + 1].base
      BY Zenon
    <3>1. CASE i = n
      <4>1. files # <<>>
        BY <1>1 DEF n
      <4> QED BY <1>3, <1>4, <1>5, <1>7, <3>1, <4>1, Zenon DEF LastOf, n
    <3>2. CASE i # n
      <4>1. i \in 1..n - 1 /\ i + 1 \in 1..n
        BY <1>1, <3>2
      <4>2. files[i].hdr /\ files[i].records > 0 /\ End(files[i]) = files[i + 1].base
        BY <4>1, Zenon DEF DiskInv, n
      <4> QED BY <1>7, <4>1, <4>2, Zenon
    <3> QED BY <3>1, <3>2, Zenon
  <2>2. \A i, j \in 1..n + 1 : i < j => End(files'[i]) <= files'[j].base
    <3> SUFFICES ASSUME NEW i \in 1..n + 1, NEW j \in 1..n + 1, i < j
                 PROVE  End(files'[i]) <= files'[j].base
      BY Zenon
    <3>1. i \in 1..n
      BY <1>1
    <3>2. CASE j = n + 1
      BY <1>5, <1>7, <1>8, <3>1, <3>2, Zenon
    <3>3. CASE j # n + 1
      <4>1. j \in 1..n
        BY <1>1, <3>3
      <4>2. End(files[i]) <= files[j].base
        BY <3>1, <4>1, Zenon DEF DiskInv, n
      <4> QED BY <1>7, <3>1, <4>1, <4>2, Zenon
    <3> QED BY <3>2, <3>3, Zenon
  <2>3. files'[1].base = 0
    <3>1. CASE files = <<>>
      BY <1>5, <1>7, <3>1 DEF Written, n
    <3>2. CASE files # <<>>
      BY <1>1, <1>2, <1>7, <3>2 DEF DiskInv, n
    <3> QED BY <3>1, <3>2, Zenon
  <2>4. files' # <<>> /\ LastOf(files') = f
    BY <1>1, <1>7 DEF LastOf
  <2>5. owner' = "create"
    BY Zenon DEF CreateSegment
  <2>6. Len(files') = n + 1 /\ (n + 1) - 1 = n
    BY <1>1, <1>7
  <2> QED BY <1>5, <2>1, <2>2, <2>3, <2>4, <2>5, <2>6 DEF DiskInv
<1>10. DiskKept
  <2> SUFFICES ASSUME NEW b \in Nat, NEW e \in Nat, Reaches(b, e)
               PROVE  Reaches(b, e)'
    BY Zenon DEF DiskKept
  <2>1. PICK i \in 1..n : files[i].hdr /\ files[i].base = b /\ e <= End(files[i])
    BY Zenon DEF Reaches, n
  <2>2. i \in 1..Len(files') /\ files'[i] = files[i]
    BY <1>1, <1>7, <2>1
  <2> QED BY <2>1, <2>2, Zenon DEF Reaches
<1> QED BY <1>7, <1>9, <1>10, Zenon

\* The header of the last file.
LEMMA HeaderStep ==
    ASSUME TypeOK, DiskInv, OwnerHeader
    PROVE  files' \in Seq(File) /\ DiskInv' /\ DiskKept
<1> DEFINE n == Len(files)
           f == [files[n] EXCEPT !.hdr = TRUE]
<1>1. files \in Seq(File) /\ n \in Nat /\ owner = "create" /\ owner' = "run"
  BY DEF TypeOK, File, OwnerHeader
<1>2. n \in 1..n /\ files # <<>> /\ files[n] \in File
  BY <1>1 DEF DiskInv
<1>3. files' = [files EXCEPT ![n] = f]
  BY Zenon DEF OwnerHeader
<1> HIDE DEF n
<1>4. /\ f \in File /\ f.hdr /\ f.base = files[n].base /\ f.records = files[n].records
  BY <1>2, Zenon DEF File
<1> HIDE DEF f
<1>5. /\ files' \in Seq(File) /\ Len(files') = n /\ files'[n] = f
      /\ \A i \in 1..n : i # n => files'[i] = files[i]
  BY <1>1, <1>2, <1>3, <1>4 DEF n
<1>6. \A i \in 1..n : /\ files'[i].base = files[i].base /\ files'[i].records = files[i].records
                      /\ files[i].hdr => files'[i].hdr
  BY <1>4, <1>5, Zenon
<1>7. \A i \in 1..n : End(files'[i]) = End(files[i])
  BY <1>6, Zenon DEF End
<1>8. DiskInv'
  <2>1. \A i \in 1..n - 1 : /\ files'[i].hdr /\ files'[i].records > 0
                            /\ End(files'[i]) = files'[i + 1].base
    <3> SUFFICES ASSUME NEW i \in 1..n - 1
                 PROVE  /\ files'[i].hdr /\ files'[i].records > 0
                        /\ End(files'[i]) = files'[i + 1].base
      BY Zenon
    <3>1. i \in 1..n /\ i + 1 \in 1..n
      BY <1>1
    <3>2. files[i].hdr /\ files[i].records > 0 /\ End(files[i]) = files[i + 1].base
      BY Zenon DEF DiskInv, n
    <3> QED BY <1>6, <1>7, <3>1, <3>2, Zenon
  <2>2. \A i, j \in 1..n : i < j => End(files'[i]) <= files'[j].base
    BY <1>6, <1>7, Zenon DEF DiskInv, n
  <2>3. files'[1].base = 0 /\ LastOf(files').hdr /\ files' # <<>> /\ Len(files') = n
    BY <1>1, <1>2, <1>4, <1>5, <1>6 DEF DiskInv, LastOf
  <2> QED BY <1>1, <2>1, <2>2, <2>3, Zenon DEF DiskInv
<1>9. DiskKept
  <2> SUFFICES ASSUME NEW b \in Nat, NEW e \in Nat, Reaches(b, e)
               PROVE  Reaches(b, e)'
    BY Zenon DEF DiskKept
  <2>1. PICK i \in 1..n : files[i].hdr /\ files[i].base = b /\ e <= End(files[i])
    BY Zenon DEF Reaches, n
  <2>2. files'[i].hdr /\ files'[i].base = b /\ e <= End(files'[i])
    BY <1>6, <1>7, <2>1, Zenon
  <2> QED BY <1>5, <2>1, <2>2, Zenon DEF Reaches
<1> QED BY <1>5, <1>8, <1>9, Zenon

\* All but the last element of a sequence.
LEMMA FrontFacts ==
    ASSUME NEW S, NEW s \in Seq(S), Len(s) \in 1..Len(s)
    PROVE  LET t == SubSeq(s, 1, Len(s) - 1)
           IN  t \in Seq(S) /\ Len(t) = Len(s) - 1 /\ \A i \in 1..Len(s) - 1 : t[i] = s[i]
<1> DEFINE n == Len(s) - 1
           t == SubSeq(s, 1, n)
<1>1. n \in Nat /\ \A i \in 1..n : i \in 1..Len(s)
  OBVIOUS
<1>2. t = [i \in 1..n |-> s[i]]
  <2>1. \A i \in 1..n : 1 + i - 1 = i
    BY <1>1
  <2> QED BY <1>1, <2>1
<1>3. \A i \in 1..n : s[i] \in S
  BY <1>1
<1> HIDE DEF n, t
<1>4. t \in Seq(S) /\ Len(t) = n /\ \A i \in 1..n : t[i] = s[i]
  BY <1>1, <1>2, <1>3
<1> QED BY <1>4, Zenon DEF n, t

\* Recovery removes a file with a torn header, which nobody has counted on.
LEMMA RemoveStep ==
    ASSUME TypeOK, DiskInv, files # <<>>, ~LastOf(files).hdr,
           files' = SubSeq(files, 1, Len(files) - 1),
           owner' = IF Len(files) = 1 THEN "down" ELSE "run"
    PROVE  files' \in Seq(File) /\ DiskInv' /\ DiskKept
<1> DEFINE n == Len(files)
<1>1. files \in Seq(File) /\ n \in Nat /\ n \in 1..n
  BY DEF TypeOK, File
<1>2. /\ files' \in Seq(File) /\ Len(files') = n - 1
      /\ \A i \in 1..n - 1 : files'[i] = files[i]
  BY <1>1, FrontFacts, Zenon
<1>3. ~files[n].hdr
  BY Zenon DEF LastOf
<1> HIDE DEF n
<1>4. DiskInv'
  <2>1. \A i \in 1..(n - 1) - 1 : /\ files'[i].hdr /\ files'[i].records > 0
                                  /\ End(files'[i]) = files'[i + 1].base
    <3> SUFFICES ASSUME NEW i \in 1..(n - 1) - 1
                 PROVE  /\ files'[i].hdr /\ files'[i].records > 0
                        /\ End(files'[i]) = files'[i + 1].base
      BY Zenon
    <3>1. i \in 1..n - 1 /\ i + 1 \in 1..n - 1
      BY <1>1
    <3>2. files[i].hdr /\ files[i].records > 0 /\ End(files[i]) = files[i + 1].base
      BY <3>1, Zenon DEF DiskInv, n
    <3> QED BY <1>2, <3>1, <3>2, Zenon
  <2>2. \A i, j \in 1..n - 1 : i < j => End(files'[i]) <= files'[j].base
    <3> SUFFICES ASSUME NEW i \in 1..n - 1, NEW j \in 1..n - 1, i < j
                 PROVE  End(files'[i]) <= files'[j].base
      BY Zenon
    <3>1. i \in 1..n /\ j \in 1..n
      BY <1>1
    <3>2. End(files[i]) <= files[j].base
      BY <3>1, Zenon DEF DiskInv, n
    <3> QED BY <1>2, <3>2, Zenon
  <2>3. CASE n = 1
    <3>1. files' = <<>> /\ owner' = "down"
      BY <1>2, <2>3 DEF n
    <3> QED BY <1>2, <2>1, <2>2, <3>1, Zenon DEF DiskInv
  <2>4. CASE n # 1
    <3>1. n - 1 \in 1..n - 1 /\ 1 \in 1..n - 1
      BY <1>1, <2>4
    <3>2. files' # <<>> /\ LastOf(files') = files[n - 1] /\ files'[1] = files[1]
      BY <1>2, <3>1 DEF LastOf
    <3>3. files[n - 1].hdr /\ files[1].base = 0
      BY <3>1, Zenon DEF DiskInv, n
    <3>4. owner' = "run"
      BY <2>4, Zenon DEF n
    <3> QED BY <1>2, <2>1, <2>2, <3>2, <3>3, <3>4, ZenonT(60) DEF DiskInv
  <2> QED BY <2>3, <2>4, Zenon
<1>5. DiskKept
  <2> SUFFICES ASSUME NEW b \in Nat, NEW e \in Nat, Reaches(b, e)
               PROVE  Reaches(b, e)'
    BY Zenon DEF DiskKept
  <2>1. PICK i \in 1..n : files[i].hdr /\ files[i].base = b /\ e <= End(files[i])
    BY Zenon DEF Reaches, n
  <2>2. i \in 1..n - 1
    BY <1>1, <1>3, <2>1
  <2>3. i \in 1..Len(files') /\ files'[i] = files[i]
    BY <1>2, <2>2, Zenon
  <2> QED BY <2>1, <2>3, Zenon DEF Reaches
<1> QED BY <1>2, <1>4, <1>5, Zenon

\* Whatever the owner does, killed at any point, what is readable stays readable,
\* and so the attached process keeps what it knows.
LEMMA OwnerStep ==
    ASSUME TailInv, Owner \/ OwnerKilled
    PROVE  TailInv'
<1> USE DEF TailInv
<1>1. UNCHANGED <<viewVars, rpc, listing, k, corrupt>> /\ crashes' \in Nat
  BY DEF Owner, OwnerKilled, OwnerAppend, OwnerRoll, OwnerHeader, OwnerOpen, TypeOK
<1>2. files' \in Seq(File) /\ DiskInv' /\ DiskKept
  <2>1. CASE OwnerAppend
    BY <2>1, AppendStep, Zenon
  <2>2. CASE OwnerRoll
    BY <2>2, CreateStep, Zenon DEF OwnerRoll, DiskInv
  <2>3. CASE OwnerHeader
    BY <2>3, HeaderStep, Zenon
  <2>4. CASE OwnerKilled
    BY <2>4, Zenon DEF OwnerKilled, DiskInv, DiskKept, Reaches, TypeOK, File
  <2>5. CASE OwnerOpen
    <3>1. CASE files = <<>> /\ CreateSegment
      BY <3>1, CreateStep, Zenon
    <3>2. CASE files # <<>> /\ LastOf(files).hdr /\ owner' = "run" /\ UNCHANGED files
      BY <3>2, Zenon DEF DiskInv, DiskKept, Reaches, TypeOK, File
    <3>3. CASE /\ files # <<>> /\ ~LastOf(files).hdr
               /\ files' = SubSeq(files, 1, Len(files) - 1)
               /\ owner' = IF Len(files) = 1 THEN "down" ELSE "run"
      BY <3>3, RemoveStep, Zenon
    <3> QED BY <2>5, <3>1, <3>2, <3>3, Zenon DEF OwnerOpen
  <2> QED BY <2>1, <2>2, <2>3, <2>4, <2>5, Zenon DEF Owner
<1>3. owner' \in {"down", "create", "run"}
  BY Zenon DEF Owner, OwnerKilled, OwnerAppend, OwnerRoll, OwnerHeader, OwnerOpen, CreateSegment,
         TypeOK
<1>4. TypeOK'
  BY <1>1, <1>2, <1>3, Zenon DEF TypeOK, File, viewVars
<1>5. ListingInv'
  <2>1. listing \in Seq(Nat) /\ listing' = listing
    BY <1>1, Zenon DEF TypeOK
  <2>2. \A j \in 1..Len(listing) - 1 : listing[j] \in Nat /\ listing[j + 1] \in Nat
    BY <2>1
  <2>3. \A j \in 1..Len(listing) - 1 : Reaches(listing[j], listing[j + 1])'
    <3> SUFFICES ASSUME NEW j \in 1..Len(listing) - 1
                 PROVE  Reaches(listing[j], listing[j + 1])'
      BY Zenon
    <3> DEFINE b == listing[j]
               e == listing[j + 1]
    <3>1. b \in Nat /\ e \in Nat /\ Reaches(b, e)
      BY <2>2, Zenon DEF ListingInv
    <3>2. listing'[j] = b /\ listing'[j + 1] = e
      BY <2>1, Zenon
    <3> HIDE DEF b, e
    <3>3. \E m \in 1..Len(files') : files'[m].hdr /\ files'[m].base = b /\ e <= End(files'[m])
      BY <1>2, <3>1, Zenon DEF DiskKept, Reaches
    <3> QED BY <3>2, <3>3, Zenon DEF Reaches
  <2> QED BY <2>1, <2>3, Zenon DEF ListingInv
<1>6. SegsInv'
  <2>1. segs \in Seq(Segment) /\ segs' = segs
    BY <1>1, Zenon DEF TypeOK, Segment, viewVars
  <2>2. \A i \in 1..Len(segs) : segs[i].base \in Nat /\ End(segs[i]) \in Nat
    BY <2>1, SegmentFacts, Zenon
  <2>3. \A i \in 1..Len(segs) : Reaches(segs[i].base, End(segs[i]))'
    <3> SUFFICES ASSUME NEW i \in 1..Len(segs)
                 PROVE  Reaches(segs[i].base, End(segs[i]))'
      BY <2>1, Zenon
    <3> DEFINE b == segs[i].base
               e == End(segs[i])
    <3>1. b \in Nat /\ e \in Nat /\ Reaches(b, e)
      BY <2>2, Zenon DEF SegsInv
    <3>2. segs'[i].base = b /\ End(segs'[i]) = e
      BY <2>1, Zenon
    <3> HIDE DEF b, e
    <3>3. \E m \in 1..Len(files') : files'[m].hdr /\ files'[m].base = b /\ e <= End(files'[m])
      BY <1>2, <3>1, Zenon DEF DiskKept, Reaches
    <3> QED BY <3>2, <3>3, Zenon DEF Reaches
  <2> QED BY <2>1, <2>3, Zenon DEF SegsInv
<1>7. WalkInv' /\ ~corrupt'
  BY <1>1, Zenon DEF WalkInv, viewVars
<1> QED BY <1>2, <1>4, <1>5, <1>6, <1>7, Zenon

----------------------------------------------------------------------------
\* listSegments: each listed base is where the file before it ends.
LEMMA ListStep ==
    ASSUME TailInv, RefreshList
    PROVE  TailInv'
<1> USE DEF TailInv
<1>1. files \in Seq(File) /\ Len(files) \in Nat /\ files # <<>> /\ DOMAIN files = 1..Len(files)
  BY DEF TypeOK, File, RefreshList
<1>2. /\ UNCHANGED <<ownerVars, viewVars, corrupt, crashes>>
      /\ listing' = [i \in 1..Len(files) |-> files[i].base] /\ k' = 1
      /\ rpc' = IF segs = <<>> THEN "attach" ELSE "known"
  BY <1>1, Zenon DEF RefreshList
<1>3. \A i \in 1..Len(files) : files[i] \in File
  BY <1>1
<1>4. \A i \in 1..Len(files) : files[i].base \in Nat /\ files[i].records \in Nat
  BY <1>3, Zenon DEF File
<1>5. /\ listing' \in Seq(Nat) /\ Len(listing') = Len(files)
      /\ \A i \in 1..Len(files) : listing'[i] = files[i].base
  BY <1>1, <1>2, <1>4
<1>6. TypeOK' /\ DiskInv' /\ SegsInv' /\ ~corrupt'
  <2>1. UNCHANGED <<files, owner, segs, next, corrupt, crashes>>
    BY <1>2, Zenon DEF ownerVars, viewVars
  <2> QED BY <1>2, <1>5, <2>1 DEF TypeOK, DiskInv, SegsInv, Reaches
<1>7. ListingInv'
  <2>1. ASSUME NEW j \in 1..Len(files) - 1
        PROVE  listing'[j] < listing'[j + 1] /\ Reaches(listing[j], listing[j + 1])'
    <3>1. j \in 1..Len(files) /\ j + 1 \in 1..Len(files)
      BY <1>1
    <3>2. files[j].hdr /\ files[j].records > 0 /\ End(files[j]) = files[j + 1].base
      BY Zenon DEF DiskInv
    <3>3. listing'[j] = files[j].base /\ listing'[j + 1] = End(files[j])
      BY <1>5, <3>1, <3>2, Zenon
    <3>4. listing'[j] < listing'[j + 1] /\ End(files[j]) \in Nat
      BY <1>4, <3>1, <3>2, <3>3 DEF End
    <3>5. files' = files
      BY <1>2, Zenon DEF ownerVars
    <3> QED BY <3>1, <3>2, <3>3, <3>4, <3>5 DEF Reaches
  <2>2. listing'[1] = 0
    BY <1>1, <1>5 DEF DiskInv
  <2> QED BY <1>5, <2>1, <2>2, Zenon DEF ListingInv
<1>8. WalkInv'
  <2>1. segs' = segs
    BY <1>2, Zenon DEF viewVars
  <2> QED BY <1>2, <2>1, Zenon DEF WalkInv
<1> QED BY <1>6, <1>7, <1>8, Zenon

\* A segment on disk that starts where the view ends extends the view.
LEMMA ViewExtended ==
    ASSUME TypeOK, SegsInv, NEW p \in Segment, Reaches(p.base, End(p)),
           segs = <<>> => p.base = 0, segs # <<>> => End(LastOf(segs)) = p.base,
           segs' = Append(segs, p), files' = files
    PROVE  segs' \in Seq(Segment) /\ SegsInv' /\ segs' # <<>> /\ LastOf(segs') = p
<1> DEFINE n == Len(segs)
<1>1. segs \in Seq(Segment) /\ n \in Nat
  BY DEF TypeOK, Segment
<1>2. /\ segs' \in Seq(Segment) /\ Len(segs') = n + 1 /\ segs'[n + 1] = p
      /\ \A i \in 1..n : segs'[i] = segs[i]
  BY <1>1
<1>3. segs' # <<>> /\ LastOf(segs') = p
  BY <1>1, <1>2 DEF LastOf
<1>4. segs # <<>> => n \in 1..n
  BY <1>1
<1>5. \A i \in 1..n + 1 : Reaches(segs'[i].base, End(segs'[i]))
  BY <1>1, <1>2 DEF SegsInv
<1>6. \A i \in 1..n : End(segs'[i]) = segs'[i + 1].base
  <2> SUFFICES ASSUME NEW i \in 1..n PROVE End(segs'[i]) = segs'[i + 1].base
    BY Zenon
  <2>1. CASE i = n
    BY <1>1, <1>2, <2>1 DEF LastOf
  <2>2. CASE i # n
    <3>1. i \in 1..n - 1 /\ i + 1 \in 1..n
      BY <1>1, <2>2
    <3> QED BY <1>2, <3>1, Zenon DEF SegsInv
  <2> QED BY <2>1, <2>2, Zenon
<1>7. segs'[1].base = 0
  <2>1. CASE segs = <<>>
    BY <1>2, <2>1
  <2>2. CASE segs # <<>>
    <3>1. 1 \in 1..n
      BY <1>1, <1>4, <2>2
    <3> QED BY <1>2, <2>2, <3>1, Zenon DEF SegsInv
  <2> QED BY <2>1, <2>2, Zenon
<1>8. (n + 1) - 1 = n
  BY <1>1
<1> HIDE DEF n
<1>9. SegsInv'
  BY <1>2, <1>5, <1>6, <1>7, <1>8, ZenonT(60) DEF SegsInv, Reaches
<1> QED BY <1>2, <1>3, <1>9, Zenon

\* What a step of Refresh that lists nothing leaves alone.
LEMMA RefreshRest ==
    ASSUME TailInv, UNCHANGED <<ownerVars, listing>>, crashes' = crashes,
           segs' \in Seq(Segment), next' \in Nat, k' \in Nat \ {0}, ~corrupt', corrupt' \in BOOLEAN,
           rpc' \in {"idle", "attach", "known", "new"}, SegsInv', WalkInv'
    PROVE  TailInv'
<1>1. TypeOK'
  BY Zenon DEF TailInv, TypeOK, ownerVars, Segment
<1>2. DiskInv' /\ ListingInv'
  BY Zenon DEF TailInv, DiskInv, ListingInv, Reaches, ownerVars
<1> QED BY <1>1, <1>2, Zenon DEF TailInv

\* First attach: a listed file that is there starts where the one before it ends,
\* even if that one has grown since.
LEMMA AttachStep ==
    ASSUME TailInv, RefreshAttach
    PROVE  TailInv'
<1> USE DEF TailInv
<1>1. /\ rpc = "attach" /\ k \in Nat \ {0} /\ k <= Len(listing) /\ listing \in Seq(Nat)
      /\ Len(listing) \in Nat /\ k \in 1..Len(listing) /\ segs \in Seq(Segment)
      /\ UNCHANGED <<ownerVars, next, rpc, listing, corrupt, crashes>>
  BY DEF RefreshAttach, TypeOK, Segment
<1>2. files' = files /\ next' \in Nat /\ corrupt' \in BOOLEAN /\ ~corrupt'
  BY <1>1, Zenon DEF TypeOK, ownerVars
<1>3. listing[k] \in Nat /\ (k # 1 => k - 1 \in 1..Len(listing) - 1)
  BY <1>1
<1>4. CASE ~Ready(listing[k])
  <2>1. segs' = segs /\ k' = Len(listing) + 1
    BY <1>4, Zenon DEF RefreshAttach
  <2>2. k' \in Nat \ {0} /\ ~(k' <= Len(listing))
    BY <1>1, <2>1
  <2>3. SegsInv' /\ WalkInv'
    BY <1>1, <1>2, <2>1, <2>2, Zenon DEF SegsInv, WalkInv, Reaches
  <2> QED BY <1>1, <1>2, <2>1, <2>2, <2>3, RefreshRest, Zenon
<1>5. CASE Ready(listing[k])
  <2> DEFINE b == listing[k]
             p == Probe(b)
  <2>1. segs' = Append(segs, p) /\ k' = k + 1
    BY <1>5, Zenon DEF RefreshAttach
  <2>2. /\ p \in Segment /\ p.base = b /\ Reaches(b, End(p))
        /\ \A e \in Nat : Reaches(b, e) => e <= End(p)
    BY <1>3, <1>5, ProbeFacts, Zenon
  <2>3. PICK c \in 1..Len(files) : files[c].base = b
    <3>1. DOMAIN files = 1..Len(files)
      BY DEF TypeOK
    <3> QED BY <1>5, <3>1, Zenon DEF Ready
  <2> HIDE DEF p
  <2>4. segs = <<>> => p.base = 0
    BY <1>1, <2>2 DEF WalkInv, ListingInv
  <2>5. ASSUME segs # <<>> PROVE End(LastOf(segs)) = p.base
    <3> DEFINE l == LastOf(segs)
    <3>1. /\ Len(segs) \in 1..Len(segs) /\ l \in Segment /\ l.base \in Nat /\ End(l) \in Nat
      <4>1. Len(segs) \in 1..Len(segs)
        BY <1>1, <2>5
      <4> QED BY <1>1, <4>1, SegmentFacts, Zenon DEF LastOf
    <3>2. k # 1 /\ l.base = listing[k - 1] /\ listing[k] <= End(l)
      BY <1>1, <2>5 DEF WalkInv
    <3>3. l.base < b
      <4>1. listing[k - 1] < listing[(k - 1) + 1] /\ (k - 1) + 1 = k
        BY <1>1, <1>3, <3>2 DEF ListingInv
      <4> QED BY <3>2, <4>1, Zenon
    <3>4. PICK i \in 1..Len(files) : files[i].base = l.base /\ End(l) <= End(files[i])
      BY <3>1, Zenon DEF SegsInv, Reaches, LastOf
    <3>5. End(files[i]) \in Nat /\ End(files[i]) <= files[c].base
      BY <2>3, <3>3, <3>4, FilesApart, Zenon
    <3> HIDE DEF l
    <3>6. End(l) = p.base
      BY <1>3, <2>2, <2>3, <3>1, <3>2, <3>4, <3>5
    <3> QED BY <3>6, Zenon DEF l
  <2>6. segs' \in Seq(Segment) /\ SegsInv' /\ segs' # <<>> /\ LastOf(segs') = p
    BY <1>2, <2>1, <2>2, <2>4, <2>5, ViewExtended, Zenon
  <2>7. k + 1 <= Len(listing) => listing[k + 1] <= End(p)
    <3> SUFFICES ASSUME k + 1 <= Len(listing) PROVE listing[k + 1] <= End(p)
      BY Zenon
    <3>1. k \in 1..Len(listing) - 1 /\ k + 1 \in 1..Len(listing)
      BY <1>1
    <3>2. listing[k + 1] \in Nat /\ Reaches(b, listing[k + 1])
      BY <1>1, <3>1 DEF ListingInv
    <3> QED BY <2>2, <3>2, Zenon
  <2>8. k' \in Nat \ {0} /\ k' > 1 /\ k' - 1 = k
    BY <1>1, <2>1
  <2>9. WalkInv'
    BY <1>1, <2>1, <2>2, <2>6, <2>7, <2>8, Zenon DEF WalkInv
  <2> QED BY <1>1, <1>2, <2>6, <2>8, <2>9, RefreshRest, Zenon
<1> QED BY <1>4, <1>5, Zenon

\* The last known segment is there, and scanned again it reaches the base that was
\* listed after its own.
LEMMA KnownStep ==
    ASSUME TailInv, RefreshKnown
    PROVE  TailInv'
<1> USE DEF TailInv
<1> DEFINE n == Len(segs)
           b == segs[n].base
           p == Probe(b)
<1>1. /\ segs \in Seq(Segment) /\ n \in Nat /\ segs # <<>> /\ n \in 1..n /\ k = 1
      /\ UNCHANGED <<ownerVars, next, listing, k, corrupt, crashes>> /\ rpc' = "new"
      /\ listing \in Seq(Nat) /\ Len(listing) \in Nat
  BY DEF RefreshKnown, TypeOK, Segment, WalkInv
<1>2. files' = files /\ next' \in Nat /\ corrupt' \in BOOLEAN /\ ~corrupt'
  BY <1>1, Zenon DEF TypeOK, ownerVars
<1>3. b \in Nat /\ Reaches(b, End(segs[n]))
  BY <1>1, SegmentFacts, Zenon DEF SegsInv
<1>4. Ready(b)
  BY <1>3 DEF Reaches, Ready, TypeOK
<1>5. segs' = [segs EXCEPT ![n] = p]
  BY <1>4, Zenon DEF RefreshKnown, LastOf
<1>6. /\ p \in Segment /\ p.base = b /\ Reaches(b, End(p))
      /\ \A e \in Nat : Reaches(b, e) => e <= End(p)
  BY <1>3, <1>4, ProbeFacts, Zenon
<1> HIDE DEF p
<1>7. /\ segs' \in Seq(Segment) /\ Len(segs') = n /\ segs'[n] = p
      /\ \A i \in 1..n : i # n => segs'[i] = segs[i]
  BY <1>1, <1>5, <1>6
<1>8. \A i \in 1..n : segs'[i].base = segs[i].base
  BY <1>6, <1>7, Zenon
<1> HIDE DEF n, b
<1>9. LastOf(segs') = p /\ segs' # <<>> /\ End(p) \in Nat
  BY <1>1, <1>6, <1>7 DEF LastOf, Segment, End
<1>10. SegsInv'
  <2>1. \A i \in 1..n : Reaches(segs'[i].base, End(segs'[i]))
    BY <1>6, <1>7, Zenon DEF SegsInv, n
  <2>2. \A i \in 1..n - 1 : End(segs'[i]) = segs'[i + 1].base
    <3> SUFFICES ASSUME NEW i \in 1..n - 1 PROVE End(segs'[i]) = segs'[i + 1].base
      BY Zenon
    <3>1. i \in 1..n /\ i + 1 \in 1..n /\ i # n
      BY <1>1
    <3>2. End(segs[i]) = segs[i + 1].base
      BY Zenon DEF SegsInv, n
    <3> QED BY <1>7, <1>8, <3>1, <3>2, Zenon
  <2>3. segs'[1].base = 0
    <3>1. 1 \in 1..n
      BY <1>1
    <3> QED BY <1>1, <1>8, <3>1, Zenon DEF SegsInv
  <2> QED BY <1>2, <1>7, <2>1, <2>2, <2>3, Zenon DEF SegsInv, Reaches
<1>11. WalkInv'
  <2>1. 1 <= Len(listing) => listing[1] <= End(p)
    BY <1>1, <1>9 DEF ListingInv
  <2>2. ASSUME NEW j \in 1..Len(listing) - 1, listing[j] = p.base
        PROVE  listing[j + 1] <= End(p)
    <3>1. j + 1 \in 1..Len(listing)
      BY <1>1
    <3>2. listing[j + 1] \in Nat /\ Reaches(b, listing[j + 1])
      BY <1>1, <1>6, <2>2, <3>1 DEF ListingInv
    <3> QED BY <1>6, <3>2, Zenon
  <2> QED BY <1>1, <1>9, <2>1, <2>2, Zenon DEF WalkInv
<1> QED BY <1>1, <1>2, <1>7, <1>10, <1>11, RefreshRest, Zenon DEF TypeOK

\* The walk over the listing: a base below the end of the view is of a segment
\* that is before the last of the view, or is the last itself.
LEMMA NewStep ==
    ASSUME TailInv, RefreshNew
    PROVE  TailInv'
<1> USE DEF TailInv
<1> DEFINE b == listing[k]
           l == LastOf(segs)
<1>1. /\ rpc = "new" /\ k \in Nat \ {0} /\ listing \in Seq(Nat) /\ Len(listing) \in Nat
      /\ k \in 1..Len(listing) /\ segs \in Seq(Segment) /\ segs # <<>>
      /\ UNCHANGED <<ownerVars, next, listing, crashes>>
  BY DEF RefreshNew, TypeOK, Segment, WalkInv
<1>2. files' = files /\ next' \in Nat
  BY <1>1, Zenon DEF TypeOK, ownerVars
<1>3. Len(segs) \in 1..Len(segs)
  BY <1>1
<1>4. l \in Segment /\ l.base \in Nat /\ End(l) \in Nat /\ l.base <= End(l)
  BY <1>1, <1>3, SegmentFacts, Zenon DEF LastOf
<1>5. b \in Nat /\ b <= End(l)
  BY <1>1 DEF WalkInv
<1>6. /\ segs' = IF b = End(l) /\ Ready(b) THEN Append(segs, Probe(b)) ELSE segs
      /\ k' = IF b = End(l) /\ ~Ready(b) THEN Len(listing) + 1 ELSE k + 1
      /\ corrupt' = (corrupt \/ b > End(l))
      /\ rpc' = IF b > End(l) THEN "idle" ELSE rpc
  BY Zenon DEF RefreshNew
<1>7. ~corrupt' /\ rpc' = "new" /\ corrupt' \in BOOLEAN
  <2> HIDE DEF b, l
  <2>1. ~(b > End(l))
    BY <1>4, <1>5
  <2>2. corrupt' = FALSE /\ rpc' = "new"
    BY <1>1, <1>6, <2>1, Zenon
  <2> QED BY <2>2, Zenon
<1>8. CASE b = End(l) /\ Ready(b)
  <2> DEFINE p == Probe(b)
  <2>1. /\ p \in Segment /\ p.base = b /\ Reaches(b, End(p))
        /\ \A e \in Nat : Reaches(b, e) => e <= End(p)
    BY <1>5, <1>8, ProbeFacts, Zenon
  <2>2. segs' = Append(segs, p) /\ k' = k + 1
    BY <1>6, <1>8, Zenon
  <2> HIDE DEF p
  <2>3. segs' \in Seq(Segment) /\ SegsInv' /\ segs' # <<>> /\ LastOf(segs') = p
    BY <1>1, <1>2, <1>8, <2>1, <2>2, ViewExtended, Zenon
  <2>4. ASSUME NEW j \in 1..Len(listing) - 1, listing[j] = p.base
        PROVE  listing[j + 1] <= End(p)
    <3>1. j + 1 \in 1..Len(listing)
      BY <1>1
    <3>2. listing[j + 1] \in Nat /\ Reaches(b, listing[j + 1])
      BY <1>1, <2>1, <2>4, <3>1 DEF ListingInv
    <3> QED BY <2>1, <3>2, Zenon
  <2>5. k' \in Nat \ {0} /\ (k' <= Len(listing) => k \in 1..Len(listing) - 1)
    BY <1>1, <2>2
  <2>6. k' <= Len(listing) => listing[k'] <= End(p)
    BY <2>1, <2>2, <2>4, <2>5, Zenon
  <2>7. WalkInv'
    BY <1>1, <1>7, <2>3, <2>4, <2>6, Zenon DEF WalkInv
  <2> QED BY <1>1, <1>2, <1>7, <2>3, <2>5, <2>7, RefreshRest, Zenon
<1>9. CASE b = End(l) /\ ~Ready(b)
  <2>1. segs' = segs /\ k' = Len(listing) + 1
    BY <1>6, <1>9, Zenon
  <2>2. k' \in Nat \ {0} /\ ~(k' <= Len(listing))
    BY <1>1, <2>1
  <2>3. SegsInv' /\ WalkInv'
    BY <1>1, <1>2, <1>7, <2>1, <2>2, Zenon DEF SegsInv, WalkInv, Reaches
  <2> QED BY <1>1, <1>2, <1>7, <2>1, <2>2, <2>3, RefreshRest, Zenon
<1>10. CASE b < End(l)
  <2>1. segs' = segs /\ k' = k + 1
    BY <1>4, <1>5, <1>6, <1>10
  <2>2. k' \in Nat \ {0}
    BY <1>1, <2>1
  <2>3. k' <= Len(listing) => listing[k'] <= End(l)
    <3> SUFFICES ASSUME k' <= Len(listing) PROVE listing[k + 1] <= End(l)
      BY <2>1, Zenon
    <3>1. k \in 1..Len(listing) - 1 /\ k + 1 \in 1..Len(listing)
      BY <1>1, <2>1
    <3>2. CASE b = l.base
      BY <1>1, <3>1, <3>2, Zenon DEF WalkInv
    <3>3. CASE b # l.base
      <4>1. listing[k + 1] \in Nat /\ Reaches(b, listing[k + 1])
        BY <1>1, <3>1 DEF ListingInv
      <4>2. PICK i \in 1..Len(files) : files[i].base = b /\ listing[k + 1] <= End(files[i])
        BY <4>1, Zenon DEF Reaches
      <4>3. PICK c \in 1..Len(files) : files[c].base = l.base /\ End(l) <= End(files[c])
        BY <1>3, Zenon DEF SegsInv, Reaches, LastOf
      <4> HIDE DEF b, l
      <4>4. /\ End(files[i]) \in Nat /\ End(files[c]) \in Nat
            /\ b < l.base => End(files[i]) <= l.base
            /\ l.base < b => End(files[c]) <= b
        BY <4>2, <4>3, FilesApart, Zenon
      <4>5. b < l.base
        BY <1>4, <1>5, <1>10, <3>3, <4>3, <4>4
      <4> QED BY <1>4, <4>1, <4>2, <4>4, <4>5
    <3> QED BY <3>2, <3>3, Zenon
  <2>4. SegsInv' /\ WalkInv'
    BY <1>1, <1>2, <1>7, <2>1, <2>3, Zenon DEF SegsInv, WalkInv, Reaches
  <2> QED BY <1>1, <1>2, <1>7, <2>1, <2>2, <2>4, RefreshRest, Zenon
<1> QED BY <1>4, <1>5, <1>8, <1>9, <1>10

\* The end of Refresh, and a restart of the process.
LEMMA DoneStep ==
    ASSUME TailInv, RefreshDone \/ ReaderKilled
    PROVE  TailInv'
<1> USE DEF TailInv
<1>1. CASE RefreshDone
  <2>1. UNCHANGED <<ownerVars, segs, listing, k, corrupt, crashes>> /\ rpc' = "idle"
    BY <1>1, Zenon DEF RefreshDone
  <2>2. segs \in Seq(Segment) /\ files' = files
    BY <2>1, Zenon DEF TypeOK, Segment, ownerVars
  <2>3. segs # <<>> => End(LastOf(segs)) \in Nat
    <3> SUFFICES ASSUME segs # <<>> PROVE End(LastOf(segs)) \in Nat
      BY Zenon
    <3>1. Len(segs) \in 1..Len(segs)
      BY <2>2
    <3> QED BY <2>2, <3>1, SegmentFacts, Zenon DEF LastOf
  <2>4. next' \in Nat /\ (segs # <<>> => next' = End(LastOf(segs)))
    BY <1>1, <2>3, Zenon DEF RefreshDone, TypeOK
  <2>5. SegsInv' /\ WalkInv'
    BY <2>1, <2>2, <2>4, Zenon DEF SegsInv, WalkInv, Reaches
  <2> QED BY <2>1, <2>2, <2>4, <2>5, RefreshRest, Zenon DEF TypeOK
<1>2. CASE ReaderKilled
  <2>1. /\ segs' = <<>> /\ next' = 0 /\ rpc' = "idle" /\ listing' = <<>> /\ k' = 1
        /\ crashes' = crashes + 1 /\ UNCHANGED <<files, owner, corrupt>>
    BY <1>2, Zenon DEF ReaderKilled, ownerVars
  <2>2. TypeOK'
    BY <2>1 DEF TypeOK
  <2>3. DiskInv' /\ ListingInv' /\ SegsInv' /\ WalkInv' /\ ~corrupt'
    BY <2>1 DEF DiskInv, ListingInv, SegsInv, WalkInv
  <2> QED BY <2>2, <2>3, Zenon
<1> QED BY <1>1, <1>2, Zenon

\* The invariant of the directory, the listing and the view, at every step of the
\* owner and of Refresh and whenever either process is killed.
THEOREM TailInvariance == Spec => []TailInv
<1>1. Init => TailInv
  <2> SUFFICES ASSUME Init PROVE TailInv
    BY Zenon
  <2>1. TypeOK
    <3>1. files \in Seq(File) /\ segs \in Seq(Segment) /\ listing \in Seq(Nat)
      BY DEF Init
    <3>2. corrupt \in BOOLEAN
      BY Zenon DEF Init
    <3>3. next \in Nat /\ k \in Nat \ {0} /\ crashes \in Nat
      BY DEF Init
    <3> QED BY <3>1, <3>2, <3>3, Zenon DEF Init, TypeOK, File, Segment
  <2>2. DiskInv /\ ListingInv /\ SegsInv /\ WalkInv /\ ~corrupt
    BY DEF Init, DiskInv, ListingInv, SegsInv, WalkInv
  <2> QED BY <2>1, <2>2, Zenon DEF TailInv
<1>2. TailInv /\ [Next]_vars => TailInv'
  <2> SUFFICES ASSUME TailInv, [Next]_vars PROVE TailInv'
    BY ZenonT(60)
  <2>1. CASE UNCHANGED vars
    BY <2>1 DEF vars, ownerVars, viewVars, TailInv, TypeOK, DiskInv, ListingInv, SegsInv,
                WalkInv, Reaches
  <2> QED BY <2>1, OwnerStep, ListStep, AttachStep, KnownStep, NewStep, DoneStep, Zenon
          DEF Next, Refresh
<1> QED BY <1>1, <1>2, PTL DEF Spec

\* Refresh never takes a log that is only being written for a corrupt one.
THEOREM NeverFatal == Spec => []NoFalseCorruption
<1>1. TailInv => NoFalseCorruption
  BY Zenon DEF TailInv, NoFalseCorruption
<1> QED BY <1>1, TailInvariance, PTL

\* Every offset below the attached log's next can be read from disk.
THEOREM ViewReadable == Spec => []ViewOnDisk
<1>1. TailInv => ViewOnDisk
  <2> SUFFICES ASSUME TailInv, rpc = "idle" PROVE ViewOnDisk
    BY Zenon DEF ViewOnDisk
  <2>1. files \in Seq(File) /\ segs \in Seq(Segment)
    BY Zenon DEF TailInv, TypeOK, File, Segment
  <2>2. DOMAIN files = 1..Len(files) /\ DOMAIN segs = 1..Len(segs)
    BY <2>1
  <2>3. ASSUME NEW i \in 1..Len(segs)
        PROVE  \E j \in 1..Len(files) : /\ files[j].hdr /\ files[j].base = segs[i].base
                                        /\ segs[i].records <= files[j].records
    <3>1. PICK j \in 1..Len(files) : /\ files[j].hdr /\ files[j].base = segs[i].base
                                     /\ End(segs[i]) <= End(files[j])
      BY Zenon DEF TailInv, SegsInv, Reaches
    <3>2. files[j] \in File /\ segs[i] \in Segment
      BY <2>1
    <3>3. segs[i].records <= files[j].records
      BY <3>1, <3>2 DEF File, Segment, End
    <3> QED BY <3>1, <3>3, Zenon
  <2> QED BY <2>2, <2>3, Zenon DEF TailInv, SegsInv, WalkInv, ViewOnDisk
<1> QED BY <1>1, TailInvariance, PTL
====
