# leser in TLA+

leser is an error tracker in one Go binary. Clients post events over HTTP; the
server appends them to a write-ahead log, answers, and a consumer goroutine moves
them from the log into an event store and an issue table and evaluates alert
rules. The same binary can be split into ingest, worker and query processes that
share a data directory, and several nodes can forward requests to each other.

This directory holds TLA+ models of those parts, TLC configurations that check
them on small instances, and TLAPS proofs of the properties that matter most.
`PROJECT.json` maps every definition to the lines it models and lists components,
runs, findings, hazards and theorems. Paths below are relative to `src/`.

## 1. The system

| Part | State | Operations | What is hard |
|---|---|---|---|
| Log (`internal/wal`) | segment files, list of segments, head, request channel, offset file | Append, group commit, roll, Close, Open, Next, Commit | crashes between write, fsync and answer; torn tails; select races at Close |
| Tail of a log (`wal.Refresh`) | the view of a second process | list, probe, fold in | the owner writes, rolls and recovers meanwhile |
| Pipeline (`internal/ingest/pipeline.go`) | read position, dedupe generations, lag | Submit, Run, process, commit | flush before commit at every exit; replay; shutdown while blocked |
| Event store (`internal/eventstore`) | hot buffer, segment files, list of segments | Append, Flush, Scan, Aggregate, Refresh | partial flush, names after a restart, readers during a flush |
| Ingest HTTP (`internal/ingest/http.go`, `internal/cache`) | key cache, drop counters | authenticate, admit, submit | lookups racing a revocation and each other |
| Rate limiter (`internal/ratelimit`) | token buckets, checkpoint | Allow, Snapshot, Restore | refill arithmetic, cap, restart |
| Metadata (`internal/metadata`) | SQLite: schema, issues, users, rules; one writer goroutine | Write, Close, migrate, Bootstrap, upsert, merge, split | callers that give up; processes starting together; chains of merges |
| Alerts (`internal/alerts`) | queue, cooldowns, breaker, dead letters | Evaluate, deliver | full queue, retries, open breaker |
| Cluster (`internal/cluster`, `internal/api` dispatch) | a ring and addresses per node | refresh, lookup, proxy | views that differ while a request is under way; no hop limit |
| Access (`internal/api`, `internal/authz`, `internal/metadata/auth.go`) | sessions, tokens, roles | login, logout, token creation and revocation, authenticate, Can | a credential that ends while a request is forwarded |
| Parsing (`internal/ingest/envelope.go`, `event.go`) | none | Parse, ExtractEvent | payloads by length or by line, limits, ids that items inherit |
| Grouping (`internal/grouping`) | none | Fingerprint, rules, enhancements | which differences between two events make two issues |
| Search, configuration, web page | | | sequential; see section 7 |

The interactions: Submit appends to the log; Run reads it, appends to the store,
calls the issue sink (upsert, then Evaluate), flushes the store and commits the
offset. Every write of metadata goes through one goroutine. A query node sees the
worker only through the segment directory and SQLite.

What makes it correct: an acknowledged record is not lost and not skipped; what the
committed offset has passed is on disk; an event is stored and counted once;
readers miss nothing that was visible; merged issues lead to a live one in one hop;
a matching alert is delivered or accounted for; a project stays within its quota;
every call returns; a request is not forwarded in circles, and is served only with
a credential that still allows it; an envelope is read as it was written; events of
one cause share an issue.

## 2. Modules

| Module | Models | State and actions |
|---|---|---|
| `DurableLog` | what the log promises | a sequence and the acknowledged pairs; Write, Ack, Lose |
| `Wal` | `wal.go`, `segment.go`, `reader.go`, `retention.go` | callers in the selects of Append, the writer (Take, Collect, WriteRecord, Roll..., Sync), Open..., Close, the consumer, Kill and LosePower. Implements `DurableLog` |
| `WalTail` | read-only Open and Refresh | an owner in outline, and every step of Refresh between which the owner can move |
| `EventStore` | `store.go` | buffer and files; Flush as take, write one partition, publish |
| `Pipeline` | `pipeline.go`, on `EventStore` | `cpc` is where Run stands in the Go text, `ret` where it goes on after a Flush or commit |
| `EventQuery` | `query.go`, `aggregate.go`, Refresh of `store.go`, on `EventStore` | a worker, a query node, and one read followed segment by segment |
| `Issues` | `issues.go` | the table; one action per transaction |
| `Alerts` | `alerts.go` | Evaluate: the rules are loaded, or cannot be read, then taken one by one; the queue, each worker, the breaker |
| `IssueSink` | `issueSink` of `main.go` | composes `Issues` and `Alerts`: an upsert and the Evaluate after it are separate steps, and an upsert may commit after its caller has given up (`db.go:95`), when Evaluate is not called |
| `MetaWriter` | Write, writeLoop, execTx, Close of `db.go` | callers, the channel, the goroutine |
| `Startup` | Open, migrate, Bootstrap of `db.go`; `cmdServe` to its banner | a control state per process, the database; `skipped` are the processes whose start went on although users could not be counted or created |
| `IngestHttp` | `http.go`, `lru.go` | a control state per request, the cache as a list |
| `RateLimit` | `ratelimit.go` and its checkpoint | buckets, the copy and the saved table, the clock; `used[p][t]` counts what the bucket of p admitted from t on, and goes with it into the checkpoint |
| `Access` | `auth.go`, `authz.go`, the session and token handlers of `api.go` | a row per credential; Login, Logout, creation, revocation and expiry |
| `Cluster` | `ring.go`, `membership.go`, dispatch and proxy of `api.go`, on `Access` | rings and addresses per node; one request, authenticated and authorized at every node it visits |
| `Envelope` | `envelope.go`, the ids of `event.go` and `pipeline.go` | operators only: Parse, and a writer of envelopes to compare it with |
| `Grouping` | `grouping.go`, `rules.go`, the grouping input of `event.go` | operators only: Fingerprint with its fallbacks, rules and enhancements |

The proofs are in `PipelineProofs` and `OnceProofs` (the invariants they prove are
in `PipelineInv`), `WalSteps` and `WalProofs` (invariants in `WalInv`; `WalSteps` has the
facts about sequences of files, the offsets and the writes, `WalProofs` the other steps
on the files and the theorems that rest on them),
`WalTailProofs`, `IngestProofs` (`RateLimit`, `IngestHttp`), `MetadataProofs`
(`MetaWriter`, `Startup`, `Issues`, `Alerts`, `IssueSink`) and `ClusterProofs`. `MC*`
modules hold the constants of the instances. An operator whose comment begins with "Mutant:"
is a wrong version of the definition after it, and is used nowhere: put in its place,
it must make TLC report the property listed with it in `PROJECT.json`.

How the modules compose. `Pipeline` uses the log as a durable sequence, which `Wal`
implements (run `wal_durable`, theorem `WalImplements`); where `Wal` breaks the promise, after a short write or
when a power loss takes records the consumer has read, `Pipeline` says nothing.
The records of `MCPipeline` are what `Envelope` reads from two envelopes: one whose
item inherits the id of the header and whose other item needs its id normalized, one
with an item of an unknown type and an event without id. The fingerprints of
`MCIssueSink` are those `Grouping` gives four events, two of which group together.
`Cluster` runs the checks of `Access` at every hop. `IngestHttp` calls `RateLimit`.
`EventQuery` repeats the pipeline goroutine in outline: consume, flush, commit.

### What is abstracted

- Log: records have one size, so byte limits count records. A file is its header,
  its records, and how much is durable; `Torn` is anything a scan rejects. The
  fsync of a new file also makes its directory entry durable.
- Pipeline: an event is a value with a fixed partition and timestamp (an event
  without a timestamp gets one when it is read, so in a replay it may get a new
  one). In a split deployment NoRecord may happen early, because Refresh lags.
- Store: a file is a name and a set of rows; a rename is durable at once. Bloom
  filters and row-group statistics only skip rows that do not match, and are left
  out; the HyperLogLog sketch is an exact set; the directory walk of Refresh is
  one step. A reader changes nothing, so one read begun anywhere stands for all.
- Issues: (project, fingerprint) identifies an issue. A failed transaction is no
  step.
- Alerts: one webhook and one breaker; a cooldown or a reset ends at any moment;
  the rules do not change. Stopping the workers, and the limit of the dead-letter
  ring, are left out.
- Limiter: a tick refills a whole number of tokens. `SetLimit` has no caller. A
  project without a bucket (the limiter is full) is admitted uncounted.
- HTTP: every key costs one unit; what body and Submit answer is open.
- Writer: a panic ends the caller that met it, so that the others are followed on.
- Start-up: a transaction that read before another committed cannot write (SQLite
  answers BUSY at once). This is external to the repository.
- Cluster: gossip gives a node any membership that contains itself. Virtual nodes
  of different nodes do not share a hash.
- Access: a credential is valid or not; revocation, expiry and deletion clear one
  flag. A role is a set of permissions, given by a constant.
- Envelope: a body is a sequence of symbols, a JSON object, a newline or garbage, and
  lengths count symbols. The form ExtractEvent gives an id (lower case, no
  dashes) is a constant function. The limit
  on the whole body is enforced before, in `http.go`.
- Grouping: a text is a value; what the normalizers, the library patterns and the glob
  matcher say of it are constants. The hash of the parts is the parts: collisions
  are left out.

## 3. Runs that pass

| Run | Properties | Shows |
|---|---|---|
| `wal_durable` | NeverRefuses, Implements, AppendReturns, CloseReturns, AckedDelivered | killed, without power, with failing fsync and roll and a Close at any point: what was acknowledged stays at its offset (`Wal` implements `DurableLog`), recovery never refuses its own files, every Append and Close returns, acknowledged records are delivered |
| `wal_short` | DeliveredStable, NeverOvertaken | short writes and retention under the interval policy: an offset never returns two different records, and the oldest segment never starts above the committed offset |
| `tail` | NoFalseCorruption, ViewOnDisk, CatchesUp | Refresh never mistakes a log being written for a corrupt one, claims nothing that is not on disk, and catches up |
| `pipeline_faults` | CommittedStored, ParseExact | one process with every fault: nothing committed is only in memory; an envelope is read as it was written |
| `pipeline_split` | EffectivelyOnce, CommittedCounted, EventuallyCommitted, SheddingEnds | two processes and resending clients: an event resent within the dedupe window is stored and counted once; what is committed has been counted; every record is committed in the end; a shedding ingest process recovers |
| `query` | ReadExact, UsersExact, NodeComplete | reads on the worker are exact, user counts too; the query node finds every committed row |
| `sink` | OneHop, NoneLost, AlertsFire, Accounted, GroupsByCause, HitShows, DeliveryEnds | merges stay one hop deep and hide no event, no hit on a resolved or merged issue goes unseen; every regression Evaluate hears of, with rules it can read, is in the queue, with a worker or settled; each notification is in exactly one place and its delivery ends; noise in an event does not change its issue, its cause does |
| `cluster` | NoLoop, OwnerServes, ServedAllowed, Answered | no request returns to a node that forwarded it; the owner serves in a converged cluster, also while a node rebuilds its ring and addresses from the same members; the node that serves has checked the credential itself; every request is answered |
| `http` | QuotaHolds, CacheExact, RevocationBounded | the quota of a tracked project over every stretch of time, the accounting of the key cache, how long a revoked key is accepted |
| `writer` | AnswerTrue, CloseDrains, WriteReturns, DbCloseReturns | the answer of Write is true, Close drains and returns, an accepted Write returns to its caller. A panic is no return |
| `startup` | ReadyComplete, CreatedOnce, AllServe | who serves has schema and project, and an account unless its start passed over an error of counting or creating users; each is made once; all serve in the end if restarted |

`ParseExact` and `GroupsByCause` are about pure functions: they quantify over every
envelope, body and event within the bounds, and TLC evaluates them once, in the initial
state.
Every module that models state in the code also defines a type invariant (`TypeOK` or
`...TypeOK`). They hold in these instances; the runs name only the properties above.

### Bounds

Every numeric bound is a constant named `Max...`. They are chosen so that the case of
interest happens and one more of its kind adds only repetition:

- log: segments of one record so that every second write rolls, batches of two, a
  channel of one place so that it fills up, two or three callers, one or two crashes;
- tail: four records, two crashes, and a view of at most three segments unless
  there is something new to read;
- pipeline: records of two events over two partitions, a buffer of two rows, so
  that a record can fill the buffer and one flush writes two files; two or three
  records, a crash, a dedupe generation of one or two ids against four events;
- envelopes: two items where the writer may write three, payloads of three symbols,
  every body of up to five symbols: each limit is met and passed by one;
- query: three events over two hours, queries on the boundaries of a segment and one
  with room for a single row, a failing disk, a crash;
- issues: three fingerprints of one project, so that chains of merges occur; three
  hits, two merges; one rule, a queue of one, two workers, two attempts, a breaker that
  opens after two;
- grouping: two frames, of the application or a library, where events may have more;
- cluster: three nodes with interleaved virtual nodes, each of which knows at least
  one other at first, a refresh and a crash within a request; one credential of one of three users, who differ in role and organisation;
- HTTP: three requests by two handlers, three keys of which one may be revoked, a cache
  of two, so that it holds several entries and evicts, one bucket for two projects,
  lifetime and lookup of one tick, three ticks, a restart;
- writer: four callers for two places; start-up: three processes, two migrations,
  two kills or failures.

Deadlock checking is off where the bounds, or the system, let everything stop.
Symmetry is used only in runs without liveness (`wal_short`, `http`).

### Fairness

- `Wal`: the writer, the consumer and callers whose select has a ready case go on
  (goroutine scheduling), and a stopped server is started again. Callers' contexts
  need not end.
- `WalTail`: the refresh ticker fires; nothing is assumed of the owner.
- `Pipeline`: Run goes on and the lag ticker fires; strong fairness on the ticker
  case of its select (Go picks at random among ready cases), on reading (Refresh
  catches up) and on the flush and the commit (the disk does not fail for ever).
- `IssueSink`: Evaluate and every worker go on; the breaker need not reset.
- `Cluster`: a node goes on with the request it has; views need not settle.
- `MetaWriter`: the goroutine goes on; a blocked sender is served in turn (Go
  channels are first in, first out), hence strong fairness per caller.
- `Startup`: a process goes on, and is started again when it failed.

## 4. Disagreements between the code and what is written about it

The run `pipeline_v_overwrite` ends with a counterexample: the counter in a segment's
name starts again after a restart, so a later segment with equal partition and first
timestamp replaces the only copy of a committed event, where `order.md:108` says that
a kill loses at most what was not acknowledged.

Other statements of comments and docs are defined beside the properties, with the line
they quote, and the code does not meet them. Named as INVARIANT (or PROPERTY, where
marked) in the configuration given, each produces its counterexample:

| Definition | Configuration | What happens |
|---|---|---|
| `AckedReadable` | `MCWal_short` | records acknowledged after a short write lie behind a torn one and are never read |
| `ClosedNotWritten` | `MCWal_durable`, `MCWal_short` | ErrClosed is returned for a record that was written |
| `SegmentsOnce` | `MCWalTail` | an empty last segment is folded in again at every refresh |
| `NeverCapacityDropped` | `MCPipeline_faults` | shutdown while the buffer is full commits past an event that was not stored |
| `SegmentsImmutable` (PROPERTY) | `MCPipeline_faults` | a segment file is replaced by a later one |
| `VisibleStays` (PROPERTY) | `MCEventQuery` | rows cannot be read while they are flushed |
| `RecentFirst` | `MCEventQuery` | the events shown of an issue are its oldest |
| `ListedOnce` | `MCEventQuery` | a file replaced after a crash is listed twice on the worker |
| `CountedOnce` | `MCIssueSink` | merging again counts again |
| `AttemptsArePosts` (PROPERTY) | `MCIssueSink` | an open breaker burns attempts |
| `NoPanic` | `MCMetaWriter` | Write panics when it meets Close |
| `NoStartFails` | `MCStartup` | roles that start together fail |
| `CredentialsShown` | `MCStartup` | the admin password can be lost before it is printed |

`EffectivelyOnce` needs three conditions, all in its statement: no restart, because the
dedupe generations live in memory; no more than a generation of other ids between
two sends of an event, because that is all they remember; and, for the rows but not for
the count, no flush that fails, because `store.go:Flush` then puts back the rows of
every partition, also of those it has already written.

## 5. Proofs

For every value of the constants that meets the named assumptions:

- `PipelineProofs`: `CommitAfterFlush` (`CommittedStored`), `CommittedRowsStay`
  (`StoredStays`) and `TypeCorrect`, from `Invariance`, under `DistinctStamps`: no
  two events share partition and timestamp. Without it the statement is false
  (`pipeline_v_overwrite`). `CommittedStored` is not inductive: the commit is right
  because everything read since the last one is accounted for. `IInv` says where
  every such event is (pending, in the buffer, being flushed, or in a file this
  process will not overwrite), and that a file holding committed rows only can
  never have its name taken again: a name contains the stamp of one of the rows in
  the file, and that row will not be delivered again. There is one lemma per group
  of actions; `DedupeInv` is needed because an event
  dropped as a duplicate must have been taken before.
- `PipelineProofs` also has `CommitAfterCount` (`CommittedCounted`), with no assumption
  on the events: clients may resend anything. The property itself excludes failing
  upserts and a cancelled context. What makes it inductive is `SeenCounted`: the
  generations hold counted events and the one process has in hand, so what is dropped
  as a duplicate has been counted, also after a crash, which empties them together
  with the position in the log.
- `OnceProofs`: `DedupeSuffices` (`EffectivelyOnce`), for any records, resends and
  generation size, from `OnceInv`. An event sent within the window was either never
  taken, or was taken at one place of the log. In that case every row of it names this
  place, and it is `Remembered`: it is in the current generation; or in the previous one,
  and then all of the current one came after it; or more than a generation of other ids
  has come since. The third case cannot be met again within the window, so the next
  copy is dropped. A rotation leads from the first to the second and from the second to
  the third, which is why one generation of other ids is the bound. `RowsApart`, that no
  row is in two files or in a file and still to be written, is what a failed flush breaks.
- `MetadataProofs`, on issues and alerts: `MergedOneHop` (`OneHop`) and `EventsShow` (`HitShows`, an action
  property) for the table alone, from `MergeInv`; the work is in MergeIssues, where
  sources and whatever pointed at them move together. `SinkIsIssues`: the sink
  implements `Issues`, so both hold of it. `RegressionsFire` (`AlertsFire`) and
  `NothingSilent` (`Accounted`) are about the table and the engine together, from
  `SinkInv`: an issue that stands regressed has a notification in hand, or settled since,
  for every rule Evaluate is past, and still has the others before it, unless it is one
  of those Evaluate was not called for or could not read the rules for (`missed`); a
  worker is busy exactly while a notification is out of the queue. Workers are any
  finite set.
- `IngestProofs`: for the limiter, `Quota` (`QuotaHolds`) and `Bounded`
  (`BucketBounded`), from `LimitInv`: for every time t, what a bucket admitted from t on
  and what it holds stay within the burst and the refill from t to its last use, and so
  do the copy and the checkpoint up to when they were taken (`Within`); a restart brings
  back what the checkpoint says and grants nothing for the time between. What was
  admitted after the copy is forgotten with the process, as the code means it
  (`ratelimit.go:3`, "Approximate-after-restart is fine"). `HttpIsLimit`: the endpoint
  implements the limiter's specification, hence `EndpointQuota`. For the endpoint,
  `CacheStaysExact` (`CacheExact`) and `RevocationDelay` (`RevocationBounded`), from
  `HttpInv`: an entry expires at most its lifetime after a lookup that found the key
  active, and a lookup in flight began before the revocation.
- `MetadataProofs`, on the database: `WriteAnswers` (`AnswerTrue`) and `CloseWaits` (`CloseDrains`), from
  `WriterInv`, which says where each operation is: in the channel, being executed, or
  answered. `ServesComplete` (`ReadyComplete`) and `BootstrapOnce` (`CreatedOnce`), from
  `StartupInv`: a process whose snapshot is older than the last commit cannot commit,
  so what it read is still so when it writes. The account is promised to the processes
  that are not `skipped`.
- `ClusterProofs`: `ProxyNoLoop` (`NoLoop`), for any number of nodes, hashes and
  views that change at any time. A node's ring always contains the node itself, so
  the owner it finds is closer to the key around the ring than it is; closer is
  transitive and irreflexive, so no node is met twice (`RouteInv`). `OwnershipAgreed`
  (`OwnerServes`), from `SteadyInv`: while no view changes its members, ring and metadata
  of every node that runs are the nodes that run, however often they are rebuilt.
  `ServesAllowed`
  (`ServedAllowed`), for any users, roles, credentials and changes to them: a
  credential that ends before a request reaches a node is found out by that node.
- `WalSteps` and `WalProofs`, for any callers, records, segment size, batch, crashes and policy unless
  an assumption is named. `NotOvertaken` (`NeverOvertaken`), with no assumption, from
  `BaseInv` and `FirstInv`: the list in memory is a chain that ends at the head; each
  segment in it starts where its file does; the first file starts at or below the
  committed offset, also while the log is closed. A loss of power cannot take the first
  of several files, because every file but the last has been synced, and retention
  removes a file whose end, the start of the next, is committed.
  `NoRefusal` (`NeverRefuses`), where no write fails short, from `DiskInv`: the files do
  not overlap, only the last may lack its header and only its unsynced tail may be
  torn, they leave no gap, and memory agrees with them; a power loss can then only cut
  the last file, or take it if it was never synced, and load accepts the rest. `DiskInv`
  holds unless short writes and losses of power come together.
  `StableDelivery` (`DeliveredStable`), where power is not lost, from `DeliveredInv`: what
  was delivered is at its offset on disk or below the oldest file. Here writes may fail
  short: what lies behind a torn record is never delivered, so recovery can give its
  offset to another. `AckedStays` (`AckedReadable`, which section 4 refutes with short writes) and
  `WalImplements` (`Implements`), where no write fails short, fsync precedes every answer
  (`Policy # "interval"`) and nothing is retained away, from `AckInv`: an answer names a
  record below the durable end, and what is written of a batch is where its answers
  will say. The mapping is that of `Wal`: the entries are what a scan from offset 0
  finds; `LogStep` names what a step may do to them, and there is one case per group of
  actions.
- `WalTailProofs`: `NeverFatal` (`NoFalseCorruption`) and `ViewReadable` (`ViewOnDisk`),
  from `TailInv`. A file with a complete header is neither removed nor shortened, so
  what Refresh has read stays true while the owner goes on. The listing may be stale;
  what saves Refresh is that the last known segment is scanned after the listing is
  made, so it reaches the base listed after its own.

Only model-checked: all liveness (fairness and ENABLED are out of the prover's
reach), among it `AppendReturns`, `CloseReturns` and `AckedDelivered` of `Wal`;
`NoneLost` (a sum over the table); and the properties of `EventQuery`, whose results are
folds over segments. What a fold or a recursive definition computes for every input
would need induction over data, so `Envelope` and `Grouping` are left to TLC as well.

## 6. Running

    tlc -workers 2 -config MCPipeline_faults.cfg MCPipeline
    tlapm PipelineProofs.tla

`WalSteps` and `WalProofs` take between ten and twenty minutes each: the prover's own bookkeeping
grows with the facts in scope. For that reason the larger modules begin with a USE that
gives SMT more time than its default, and try Zenon after it.

The module and configuration of every run are in `PROJECT.json`.

## 7. Not modelled

- Power loss in `Pipeline`: the rename in `store.go:410` is not followed by an fsync of
  the directory. Which renames survive depends on the file system.
- Crashes in the issue sink: an alert can be lost between the upsert and Evaluate
  (`main.go:612`). `Pipeline` has the crash and the upsert, `IssueSink` the alert.
- What the glob matcher and the normalizers of `internal/grouping` do to a text: chains
  of library calls on characters.
- `internal/search`: parsing a query string into filters, without state.
- Alert rules and audit entries in SQLite: single statements that nothing else in the
  models waits for.
- The HyperLogLog estimate, password hashing and Parquet encoding: an estimate without
  an exact property, cryptography, and an external format.
- Logging, configuration and command parsing, the HTTP server wrapper, the web page,
  benchmarks and scripts: I/O, or code without interleaving.
