---- MODULE WalInv ----
(***************************************************************************)
(* The inductive invariants of the log: what WalProofs shows that every    *)
(* step of callers, writer, consumer, recovery and crashes preserves.      *)
(***************************************************************************)
EXTENDS Wal

----------------------------------------------------------------------------
(* Offsets in memory.                                                       *)

\* The segments in memory are a chain that ends at the head of the log; the
\* consumer is not before it, and never before its committed offset.
OffsetInv ==
    up = "up" =>
        /\ segs # <<>> /\ Len(segs) <= Len(files)
        /\ \A i \in 1..Len(segs) - 1 : End(segs[i]) = segs[i + 1].base
        /\ next = End(LastOf(segs)) /\ written <= next
        /\ segs[1].base <= pos /\ committed <= pos
        /\ wpc = "roll" => Len(segs) < Len(files)

BaseInv == TypeOK /\ OffsetInv

\* The first file does not start above the committed offset, up or down: a loss
\* of power can only take the last file, every other has been synced; and each
\* segment in memory starts where its file does, so that retention removes the
\* files it has judged by the segments.
FirstInv ==
    /\ \A i \in 1..Len(files) - 1 : files[i].synced >= 0
    /\ files # <<>> => files[1].base <= committed
    /\ up = "up" =>
        /\ \A i \in 1..Len(segs) : segs[i].base = files[i].base
        /\ handle => Len(files) = Len(segs)
        /\ wpc = "roll" => /\ Len(files) = Len(segs) + 1 /\ ~handle
                           /\ LastOf(files).base = next

----------------------------------------------------------------------------
(* Files.  The operators are about any sequence of them.                    *)

\* The end of the records in files s, and: record r is at offset o.
EndOf(s) == IF s = <<>> THEN 0 ELSE LastOf(s).base + Valid(LastOf(s))
On(s, o, r) == \E i \in 1..Len(s) : Holds(s[i], o) /\ s[i].recs[o - s[i].base + 1] = r

\* The end of what fsync has reached.
Durable(s) ==
    IF s = <<>> THEN 0
    ELSE LastOf(s).base + (IF LastOf(s).synced < 0 THEN 0 ELSE LastOf(s).synced)

\* Files do not overlap, and only the last may lack its header.
Shape(s) ==
    /\ \A i \in 1..Len(s) - 1 : s[i].hdr
    /\ \A i \in 1..Len(s) : ~s[i].hdr => s[i].recs = <<>>
    /\ \A i, j \in 1..Len(s) : i < j => s[i].base + Valid(s[i]) <= s[j].base
    /\ ~PowerLoss /\ s # <<>> => s[1].hdr

Clean(f) == \A j \in 1..Len(f.recs) : f.recs[j] # Torn
Sealed(f) == Clean(f) /\ f.synced = Len(f.recs)

\* Bytes that no scan accepts are at most one unsynced tail.
Tailed(f) ==
    /\ f.synced <= Len(f.recs)
    /\ \A j \in 1..Len(f.recs) : j < Len(f.recs) \/ j <= f.synced => f.recs[j] # Torn

\* No write has failed short: the files are a chain without a gap.
Whole(s) ==
    /\ \A i \in 1..Len(s) - 1 : Sealed(s[i]) /\ s[i].base + Len(s[i].recs) = s[i + 1].base
    /\ s # <<>> => /\ Tailed(LastOf(s))
                   /\ \A o \in s[1].base..EndOf(s) - 1 : \E i \in 1..Len(s) : Holds(s[i], o)
                   /\ ~Retention => s[1].base = 0

\* What the running log holds in memory of each file.
MatchFiles ==
    /\ Len(segs) = Len(files) => LastOf(files).hdr
    /\ Len(segs) # Len(files) => /\ Len(segs) = Len(files) - 1 /\ ~handle
                                 /\ ~LastOf(files).hdr /\ LastOf(files).base = next
    /\ \A i \in 1..Len(segs) : /\ segs[i].base = files[i].base
                               /\ Valid(files[i]) <= segs[i].records
                               /\ ~WriteFaults => /\ segs[i].records = Len(files[i].recs)
                                                  /\ Clean(files[i])

\* Only an open file is rolled, and only a written batch has a closed one.
MatchWriter ==
    /\ wpc = "roll" => Len(segs) # Len(files)
    /\ wpc \in {"collect", "write", "roll"} => batch # <<>>
    /\ wpc = "collect" \/ (wpc = "write" /\ ~handle) => written = 0

\* For all constants but writes that fail short together with losses of power.
DiskInv ==
    /\ Shape(files)
    /\ ~WriteFaults => Whole(files)
    /\ up = "up" => MatchFiles /\ MatchWriter

----------------------------------------------------------------------------
(* Deliveries and answers.                                                  *)

\* Without losses of power: what was delivered is on disk, or retention has removed it.
DeliveredInv ==
    \A d \in delivered : files # <<>> /\ (d[1] < files[1].base \/ On(files, d[1], d[2]))

\* An answer with an offset names a record that fsync has reached.
Sure(s, a, c) == a.kind = "acked" => On(s, a.off, c) /\ a.off < Durable(s)

\* Without short writes, retention and the interval policy: what the writer
\* has written of its batch is at the offsets it will answer with.
AckInv ==
    /\ up = "up" => \A j \in 1..written : On(files, next - written + j - 1, batch[j])
    /\ \A c \in Client : Sure(files, resp[c], c) /\ Sure(files, call[c], c)
====
