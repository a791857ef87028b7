---- MODULE PipelineInv ----
(***************************************************************************)
(* The inductive invariants of the pipeline: what PipelineProofs and       *)
(* OnceProofs show that every step of Run, of Flush and of the ingest side *)
(* preserves.                                                              *)
(***************************************************************************)
EXTENDS Pipeline

\* Run is inside process, or in a Flush that process has called.
InProcess == cpc \in {"event", "append", "wait", "upsert"} \/ (cpc = "flush" /\ ret = "wait")

\* Event i of the record at offset o has still to be handled by process.
Pending(o, i) == InProcess /\ o = pos - 1 /\ i >= idx

\* r is one of the rows the log gives rise to.  Malformed events have none.
ValidRow(r) ==
    /\ r.off < Len(log)
    /\ r.i \in DOMAIN log[r.off + 1]
    /\ r.ev = log[r.off + 1][r.i]
    /\ r.ev \notin Bad

Settled(r) == r.ev \in Bad \/ r \in abandoned

\* r is in a file none of whose rows will be delivered again, so that no later
\* segment can take that file's name.
Safe(r) == \E f \in files : r \in f.rows /\ \A s \in f.rows : s.off < committed

\* r is in a file this process cannot overwrite and may commit.
Kept(r) ==
    \E f \in files : /\ r \in f.rows
                     /\ f.name.seq <= flushCount
                     /\ \A s \in f.rows : s.off < pos

PositionInv ==
    /\ committed <= pos /\ pos <= Len(log)
    /\ InProcess => committed < pos /\ idx <= Len(log[pos]) + 1
    /\ InProcess /\ cpc # "event" => idx <= Len(log[pos]) /\ EventAt \notin Bad

\* What the environment assumption DistinctStamps gives.
StampInv ==
    \A k, l \in DOMAIN log : \A i \in DOMAIN log[k], j \in DOMAIN log[l] :
        Stamp(log[k][i]) = Stamp(log[l][j]) => k = l /\ i = j

MemoryInv ==
    /\ \A r \in buf \cup flushing : ValidRow(r) /\ committed <= r.off /\ r.off < pos
    /\ cpc # "flush" => flushing = {}
    /\ flushing # {} => buf = {}
    /\ cpc = "upsert" => RowAt \in buf
    /\ cpc = "commit" => buf = {} /\ ret # "wait"
    /\ parts \subseteq {Part[r.ev] : r \in flushing}

\* A file's name is the stamp of one of its rows.
FileInv ==
    \A f \in files :
        /\ \A r \in f.rows : ValidRow(r)
        /\ \E r \in f.rows : Stamp(r.ev) = <<f.name.part, f.name.ts>>

\* Everything read and not committed is accounted for.
AccountInv ==
    /\ \A o \in 0..committed - 1 : \A i \in DOMAIN log[o + 1] :
          Settled(RowOf(o, i)) \/ Safe(RowOf(o, i))
    /\ \A o \in committed..pos - 1 : \A i \in DOMAIN log[o + 1] :
          \/ Pending(o, i)
          \/ Settled(RowOf(o, i))
          \/ RowOf(o, i) \in buf \cup flushing
          \/ Kept(RowOf(o, i))
    /\ \A r \in flushing : Part[r.ev] \in parts \/ Kept(r)

\* The dedupe generations hold only events that process has taken.
DedupeInv ==
    \A e \in cur \cup prev : \E o \in 0..pos - 1 : \E i \in DOMAIN log[o + 1] :
        /\ log[o + 1][i] = e
        /\ InProcess /\ o = pos - 1 => i <= idx
        /\ cpc = "event" /\ o = pos - 1 => i < idx

IInv ==
    /\ TypeOK /\ PositionInv /\ StampInv /\ MemoryInv /\ FileInv /\ AccountInv
    /\ DedupeInv

----------------------------------------------------------------------------
(* The invariant behind CommittedCounted.  Unlike the one about the store it  *)
(* needs no assumption on the events: clients may send any event any number   *)
(* of times, so that the dedupe generations do drop events.                   *)

Counted(e) == e \in Bad \/ times[e] > 0

\* process has taken the event at idx and has not counted it yet.
InHand == InProcess /\ cpc # "event"

NoFault == ~IssueFaults /\ ~Shutdown

CountType ==
    /\ log \in Seq(Seq(Event))
    /\ committed \in Nat /\ pos \in Nat /\ idx \in Nat \ {0}
    /\ ret \in {"wait", "next", "select", "exited"}
    /\ cur \in SUBSET Event /\ prev \in SUBSET Event
    /\ times \in [Event -> Nat]
    /\ ctxDone = FALSE

CountPosition ==
    /\ committed <= pos /\ pos <= Len(log)
    /\ InProcess => committed < pos
    /\ InHand => idx <= Len(log[pos])
    /\ cpc = "commit" => ret # "wait"

\* Every event read is counted, unless process has still to handle it.
ReadCounted ==
    \A o \in 0..pos - 1 : \A i \in DOMAIN log[o + 1] :
        Counted(log[o + 1][i]) \/ Pending(o, i)

\* So a resend is dropped only when the event has been counted: the generations
\* hold counted events and the one in hand.
SeenCounted == \A e \in cur \cup prev : Counted(e) \/ (InHand /\ e = EventAt)

CountInv == CountType /\ CountPosition /\ ReadCounted /\ SeenCounted

----------------------------------------------------------------------------
(* The invariant behind EffectivelyOnce, for a process that has not restarted. *)

\* process has decided about the event at place x of the log.
Handled(x) ==
    \/ x[1] < pos
    \/ x[1] = pos /\ (~InProcess \/ x[2] < idx \/ (x[2] = idx /\ InHand))

\* The ids, other than e, that process has met after place x.
MetSince(x, e) ==
    {SentAt(z) : z \in {y \in Places : SentBefore(x, y) /\ Handled(y)}} \ (NoId \cup Bad \cup {e})

\* Since e was taken at x it is remembered, or more ids came than a generation
\* holds: it leaves cur with its generation, and prev when the next one is full.
Remembered(x, e) ==
    \/ e \in cur
    \/ e \in prev /\ cur \subseteq MetSince(x, e)
    \/ Cardinality(MetSince(x, e)) > DedupeCap

RowsMade == buf \cup flushing \cup StoredRows
PlaceOf(r) == <<r.off + 1, r.i>>

NeverTaken(e) ==
    /\ e \notin cur \cup prev /\ times[e] = 0
    /\ \A r \in RowsMade : r.ev # e
    /\ InHand => EventAt # e

TakenOnceAt(x, e) ==
    /\ Handled(x) /\ SentAt(x) = e
    /\ Remembered(x, e)
    /\ \A r \in RowsMade : r.ev = e => PlaceOf(r) = x
    /\ times[e] <= 1
    /\ InHand /\ EventAt = e => x = <<pos, idx>> /\ times[e] = 0

OnceType ==
    /\ log \in Seq(Seq(Event)) /\ times \in [Event -> Nat]
    /\ pos \in Nat /\ idx \in Nat \ {0}
    /\ buf \in SUBSET Row /\ flushing \in SUBSET Row
    /\ \A f \in files : f.rows \in SUBSET Row
    /\ ret \in {"wait", "next", "select", "exited"}

OncePosition ==
    /\ pos <= Len(log)
    /\ InProcess => 0 < pos
    /\ InHand => idx <= Len(log[pos])
    /\ cpc = "commit" => ret # "wait"

\* No row is in two files, or in a file and still to be written: a flush that
\* fails half way would put rows back that are on disk already.
RowsApart ==
    /\ \A f, g \in files : \A r \in f.rows : r \in g.rows => f = g
    /\ \A f \in files : \A r \in f.rows :
          r \notin buf /\ (r \in flushing => Part[r.ev] \notin parts)

\* No row is made before its turn.
RowsOnce ==
    /\ cpc # "flush" => flushing = {}
    /\ flushing # {} => buf = {}
    /\ \A r \in RowsMade :
          /\ r.off < pos
          /\ InProcess /\ r.off = pos - 1 => r.i < idx \/ (r.i = idx /\ cpc = "upsert")
    /\ ~FlushFaults => RowsApart

EventsOnce ==
    \A e \in Event \ NoId : SentWithinWindow(e) =>
        NeverTaken(e) \/ \E x \in Places : TakenOnceAt(x, e)

OnceState == OnceType /\ OncePosition /\ RowsOnce /\ EventsOnce

OnceInv == reboots \in Nat /\ (reboots = 0 => OnceState)
====
