---- MODULE EventQuery ----
(***************************************************************************)
(* internal/eventstore/query.go and aggregate.go, with Refresh of store.go *)
(* and the readers main.go wires to them.  Two processes share the segment *)
(* directory: the worker, whose pipeline goroutine fills and flushes the   *)
(* store, and a query node, whose store only learns of segments through    *)
(* Refresh.  Either answers a Scan or an Aggregate while the other moves.  *)
(*                                                                         *)
(* Readers change nothing in a store, so one read per behaviour, begun in  *)
(* any reachable state, stands for all of them.  A read copies the hot     *)
(* rows and the segment list under one lock, then opens the files one at a *)
(* time without it.  The pipeline goroutine is Pipeline's Run in outline:  *)
(* append rows in log order, flush, commit, and after a crash replay from  *)
(* the committed offset.                                                   *)
(***************************************************************************)
EXTENDS EventStore, SequencesExt

CONSTANTS
    Arrivals,   \* the events of the log in order, one per record
    Project,    \* Project[p]: the project of partition p
    User,       \* User[e]: the user of event e, or NoUser
    NoUser,
    Queries,    \* the queries asked
    MaxCrashes  \* bound: crashes of the worker

ASSUME QueryAssumption ==
    /\ Arrivals \in Seq(Event)
    /\ Partition \subseteq Nat      \* numbered in the order of (project, hour)
    /\ DOMAIN Project = Partition /\ DOMAIN User = Event
    /\ MaxCrashes \in Nat
    \* zero bounds are no bounds; only = {} is no equality predicate, otherwise
    \* the events whose level, fingerprint, release... equal those asked for
    /\ \A q \in Queries :
         /\ q.project \in {Project[p] : p \in Partition}
         /\ q.min \in Nat /\ q.max \in Nat /\ q.limit \in Nat \ {0}
         /\ q.only \in SUBSET Event

VARIABLES
    next,       \* records the consumer has read
    committed,  \* its committed offset
    crashes,
    metas,      \* the worker's s.segs: pruning metadata, in scan order
    nodeMetas,  \* the query node's s.segs
    read        \* the read followed through its steps

vars == <<storeVars, next, committed, crashes, metas, nodeMetas, read>>
worker == <<storeVars, next, committed, crashes, metas>>

----------------------------------------------------------------------------
MaxTs(rows) == CHOOSE t \in {Ts[r.ev] : r \in rows} : \A r \in rows : Ts[r.ev] <= t

Meta == [name : Name, min : Nat, max : Nat]

\* What writeSegment returns, and what readSegmentMeta finds in the footer.
MetaOf(f) == [name |-> f.name, min |-> MinTs(f.rows), max |-> MaxTs(f.rows)]

\* The sort after every change of s.segs: project, hour, path.
Before(a, b) ==
    \/ a.name.part < b.name.part
    \/ a.name.part = b.name.part /\ a.name.ts < b.name.ts
    \/ a.name.part = b.name.part /\ a.name.ts = b.name.ts /\ a.name.seq < b.name.seq

\* s.segs = append(s.segs, newSegs...), sorted.
Appended(ms, new) == SortSeq(ms \o SetToSeq(new), Before)

Known(ms) == {m.name : m \in Range(ms)}

Named(name) == CHOOSE f \in files : f.name = name

Matches(q, e) ==
    /\ Project[Part[e]] = q.project
    /\ q.min # 0 => Ts[e] >= q.min
    /\ q.max # 0 => Ts[e] <= q.max
    /\ q.only # {} => e \in q.only

\* Mutant: a segment whose newest row is at the lower bound is pruned.
SegmentMayMatchExclusive(q, m) ==
    /\ Project[m.name.part] = q.project
    /\ q.min # 0 => m.max > q.min
    /\ q.max # 0 => m.min <= q.max

SegmentMayMatch(q, m) ==
    /\ Project[m.name.part] = q.project
    /\ q.min # 0 => m.max >= q.min
    /\ q.max # 0 => m.min <= q.max

Matching(q, rows) == {r \in rows : Matches(q, r.ev)}

\* The buffer keeps log order; writeSegment sorts a file by timestamp.
InLogOrder(rows) == SetToSortSeq(rows, LAMBDA a, b : a.off < b.off)
InTimeOrder(rows) ==
    SetToSortSeq(rows, LAMBDA a, b : Ts[a.ev] < Ts[b.ev] \/ (Ts[a.ev] = Ts[b.ev] /\ a.off < b.off))

FirstN(n, s) == SubSeq(s, 1, IF n < Len(s) THEN n ELSE Len(s))

UsersOf(rows) == {User[r.ev] : r \in rows} \ {NoUser}

----------------------------------------------------------------------------
Idle == [pc |-> "idle"]

Init ==
    /\ StoreInit
    /\ next = 0 /\ committed = 0 /\ crashes = 0
    /\ metas = <<>> /\ nodeMetas = <<>>
    /\ read = Idle

\* The pipeline goroutine.  It does not append while its own Flush runs.
Consume ==
    /\ flushing = {} /\ next < Len(Arrivals)
    /\ StoreAppend([off |-> next, i |-> 1, ev |-> Arrivals[next + 1]])
    /\ next' = next + 1
    /\ UNCHANGED <<committed, crashes, metas, nodeMetas, read>>

FlushTake == FlushBegin /\ UNCHANGED <<next, committed, crashes, metas, nodeMetas, read>>

FlushPart(p) ==
    /\ WriteSegment(p) \/ WriteSegmentFails(p)
    /\ UNCHANGED <<next, committed, crashes, metas, nodeMetas, read>>

FlushReturn ==
    /\ FlushEnd
    /\ metas' = Appended(metas, {MetaOf(Named(n)) : n \in wrote})
    /\ UNCHANGED <<next, committed, crashes, nodeMetas, read>>

Commit ==
    /\ buf = {} /\ flushing = {} /\ committed < next
    /\ committed' = next
    /\ UNCHANGED <<storeVars, next, crashes, metas, nodeMetas, read>>

\* The worker dies and starts again; a read it was serving dies with it.
Crash ==
    /\ crashes < MaxCrashes
    /\ StoreReopen
    /\ crashes' = crashes + 1
    /\ next' = committed
    /\ metas' = Appended(<<>>, {MetaOf(f) : f \in files})
    /\ read' = IF read.pc # "idle" /\ read.node = "worker" THEN Idle ELSE read
    /\ UNCHANGED <<committed, nodeMetas>>

\* Mutant: every partition directory is listed only once.
RefreshNewPartitions ==
    LET new == {f \in files : f.name.part \notin {n.part : n \in Known(nodeMetas)}} IN
    /\ new # {}
    /\ nodeMetas' = Appended(nodeMetas, {MetaOf(f) : f \in new})
    /\ UNCHANGED <<worker, read>>

\* The query node's ticker: walk the directory, add the files not known.
Refresh ==
    LET new == {f \in files : f.name \notin Known(nodeMetas)} IN
    /\ new # {}
    /\ nodeMetas' = Appended(nodeMetas, {MetaOf(f) : f \in new})
    /\ UNCHANGED <<worker, read>>

----------------------------------------------------------------------------
(* A read.  "due" is history: the matching rows of the copied buffer and   *)
(* of the segments published when the read began.                          *)

Listed(node) == IF node = "worker" THEN metas ELSE nodeMetas
Hot(node) == IF node = "worker" THEN buf ELSE {}
Held(node) ==
    IF node = "worker" THEN Visible ELSE UNION {Named(n).rows : n \in Known(nodeMetas)}

Begin(node, kind, q) ==
    LET hot == InLogOrder(Matching(q, Hot(node))) IN
    /\ read.pc = "idle"
    /\ read' = [pc |-> "segments", node |-> node, kind |-> kind, q |-> q,
                todo |-> Listed(node),
                out |-> IF kind = "scan" THEN FirstN(q.limit, hot) ELSE hot,
                users |-> UsersOf(Range(hot)),
                due |-> Matching(q, Held(node))]
    /\ UNCHANGED <<worker, nodeMetas>>

Scan(node, q) == Begin(node, "scan", q)
Aggregate(node, q) == Begin(node, "aggregate", q)

Room == read.kind = "scan" => Len(read.out) < read.q.limit

Segment == Head(read.todo)
MatchingIn(m) == InTimeOrder(Matching(read.q, Named(m.name).rows))

ScanSegment ==
    /\ read.pc = "segments" /\ read.kind = "scan" /\ Room
    /\ read.todo # <<>>
    /\ read' = [read EXCEPT
                  !.todo = Tail(@),
                  !.out = IF SegmentMayMatch(read.q, Segment)
                          THEN @ \o FirstN(read.q.limit - Len(@), MatchingIn(Segment)) ELSE @]
    /\ UNCHANGED <<worker, nodeMetas>>

\* Mutant: the sketch is merged also when an equality predicate is set.
WholeSegmentAnyRows(q, m) ==
    /\ q.min = 0 \/ q.min <= m.min
    /\ q.max = 0 \/ q.max >= m.max

\* The footer's user sketch may stand for the rows.
WholeSegment(q, m) ==
    /\ q.min = 0 \/ q.min <= m.min
    /\ q.max = 0 \/ q.max >= m.max
    /\ q.only = {}

AggregateSegment ==
    /\ read.pc = "segments" /\ read.kind = "aggregate"
    /\ read.todo # <<>>
    /\ read' = IF ~SegmentMayMatch(read.q, Segment) THEN [read EXCEPT !.todo = Tail(@)]
               ELSE [read EXCEPT
                  !.todo = Tail(@),
                  !.out = @ \o MatchingIn(Segment),
                  !.users = @ \cup UsersOf(Range(MatchingIn(Segment)))
                              \cup (IF WholeSegment(read.q, Segment)
                                    THEN UsersOf(Named(Segment.name).rows) ELSE {})]
    /\ UNCHANGED <<worker, nodeMetas>>

ReadDone ==
    /\ read.pc = "segments" /\ (read.todo = <<>> \/ ~Room)
    /\ read' = [read EXCEPT !.pc = "done"]
    /\ UNCHANGED <<worker, nodeMetas>>

----------------------------------------------------------------------------
Reader ==
    \/ \E node \in {"worker", "query"}, q \in Queries : Scan(node, q) \/ Aggregate(node, q)
    \/ ScanSegment \/ AggregateSegment \/ ReadDone

Flush == FlushTake \/ FlushReturn \/ \E p \in Partition : FlushPart(p)

Next == Consume \/ Flush \/ Commit \/ Crash \/ Refresh \/ Reader

Spec == Init /\ [][Next]_vars

----------------------------------------------------------------------------
\* Types of the reader's state and of the segment lists.
TypeOK ==
    /\ StoreTypeOK
    /\ next \in 0..Len(Arrivals) /\ committed \in 0..next
    /\ metas \in Seq(Meta) /\ nodeMetas \in Seq(Meta)
    /\ read.pc \in {"idle", "segments", "done"}
    /\ read.pc # "idle" => read.out \in Seq(Row) /\ read.todo \in Seq(Meta)

Done(kinds) == read.pc = "done" /\ read.kind \in kinds

\* A finished Scan or Aggregate of the worker has found every matching row that
\* was in the buffer or in a published segment when it took its copy, each once, or
\* as many of them as the limit allows - whatever was flushed meanwhile, and
\* whatever segments were pruned unopened (Scan, segmentMayMatch, Aggregate).
\* This is said of a worker that has not crashed: see ListedOnce.
ReadExact ==
    Done({"scan", "aggregate"}) /\ read.node = "worker" /\ crashes = 0 =>
        /\ IsInjective(read.out)
        /\ Range(read.out) \subseteq read.due
        /\ Room => read.due \subseteq Range(read.out)

\* The users an Aggregate counts are those of the rows it counts: merging the
\* sketch of a whole segment adds nobody (aggregateSegment's fast path).  Again
\* of a worker that has not crashed: the bounds the query node has of a segment
\* rewritten after a crash are the old ones, and it may take it for whole.
UsersExact ==
    Done({"aggregate"}) /\ crashes = 0 => read.users = UsersOf(Range(read.out))

\* When Refresh has nothing left to add, the query node finds the row of every
\* committed record: some segment listed there holds it and its bounds do not
\* rule it out.  So the poll interval is all the delay there is (main.go:534-537
\* calls it "the query node's one honest staleness window").  This is said of a
\* worker that has not crashed: Refresh passes over a rewritten segment.
NodeComplete ==
    crashes = 0 /\ ~ENABLED Refresh =>
        \A o \in 1..committed : \E m \in Range(nodeMetas) :
            /\ m.min <= Ts[Arrivals[o]] /\ Ts[Arrivals[o]] <= m.max
            /\ \E r \in Named(m.name).rows : r.off = o - 1

\* What was visible to a read stays visible while the process lives
\* (store.go:4 "Reads merge buffer + segments").
VisibleStays == [][crashes' = crashes => Visible \subseteq Visible']_vars

\* A scan for one issue that stops at its limit has left out no event newer
\* than one it returned (api.go:391 "returns recent raw events").
RecentFirst ==
    Done({"scan"}) /\ read.node = "worker" =>
        \A r \in Range(read.out), s \in read.due \ Range(read.out) : Ts[s.ev] <= Ts[r.ev]

\* No segment file is listed, and so scanned and counted, twice (store.go:336
\* "this process wrote it; Refresh must not re-add it").
ListedOnce == \A i, j \in DOMAIN metas : metas[i].name = metas[j].name => i = j
====
