---- MODULE Startup ----
(***************************************************************************)
(* cmdServe of cmd/leser/main.go up to its banner, with Open, migrate and  *)
(* Bootstrap of internal/metadata/db.go: several roles start on one data   *)
(* directory at the same time, and any of them may be killed and started   *)
(* again.  The database is SQLite in WAL mode: one transaction writes at a *)
(* time; one that read before it writes fails if another has committed     *)
(* since that read.                                                        *)
(***************************************************************************)
EXTENDS Naturals

CONSTANTS
    Process,
    Serving,        \* the processes with doQuery: they create the admin
    SchemaVersion,  \* number of migrations
    StartFaults,    \* whether a step of the start may fail by itself
    MaxKills        \* bound of the kills and of these failures

ASSUME StartupAssumption ==
    /\ Serving \subseteq Process
    /\ SchemaVersion \in Nat /\ MaxKills \in Nat
    /\ StartFaults \in BOOLEAN

VARIABLES
    schema,     \* greatest version in schema_migrations; its tables exist
    orgs,       \* default organizations, each with its project and key
    admins,     \* processes whose admin account is in the users table
    pc,         \* pc[p]: where cmdServe of p stands
    version,    \* version[p]: the next migration p applies
    stale,      \* stale[p]: another transaction committed since p's first read
    note,       \* note[p]: p holds admin credentials to print
    printed,    \* history: processes that printed credentials
    skipped,    \* history: processes whose last start went on without the account
    kills

dbVars == <<schema, orgs, admins>>
vars == <<dbVars, pc, version, stale, note, printed, skipped, kills>>

TypeOK ==
    /\ schema \in 0..SchemaVersion /\ orgs \in Nat
    /\ admins \in SUBSET Process /\ printed \in SUBSET Process
    /\ skipped \in SUBSET Process
    /\ pc \in [Process -> {"off", "open", "migrate", "bootstrap", "insert", "count",
                           "create", "join", "ready", "failed"}]
    /\ version \in [Process -> Nat]
    /\ stale \in [Process -> BOOLEAN] /\ note \in [Process -> BOOLEAN]
    /\ kills \in 0..MaxKills

Init ==
    /\ schema = 0 /\ orgs = 0 /\ admins = {}
    /\ pc = [p \in Process |-> "off"]
    /\ version = [p \in Process |-> 0]
    /\ stale = [p \in Process |-> FALSE]
    /\ note = [p \in Process |-> FALSE]
    /\ printed = {} /\ skipped = {} /\ kills = 0

Goto(p, where) == pc' = [pc EXCEPT ![p] = where]

\* A commit of p makes the reads of the transactions now open stale.
Committed(p) == stale' = [q \in Process |-> q # p]

----------------------------------------------------------------------------
\* Also started again, by hand or by a supervisor, after a failure.
Start(p) ==
    /\ pc[p] \in {"off", "failed"}
    /\ Goto(p, "open")
    /\ UNCHANGED <<dbVars, version, stale, note, printed, skipped, kills>>

\* Mutant: the version in schema_migrations is not read.
ReadVersionFromOne(p) ==
    /\ pc[p] = "open"
    /\ version' = [version EXCEPT ![p] = 1]
    /\ Goto(p, "migrate")
    /\ UNCHANGED <<dbVars, stale, note, printed, skipped, kills>>

\* migrate: create schema_migrations if it is not there, read the version.
ReadVersion(p) ==
    /\ pc[p] = "open"
    /\ version' = [version EXCEPT ![p] = schema + 1]
    /\ Goto(p, "migrate")
    /\ UNCHANGED <<dbVars, stale, note, printed, skipped, kills>>

\* One migration in one transaction; its CREATE TABLE finds no such table.
Migrate(p) ==
    /\ pc[p] = "migrate" /\ version[p] <= SchemaVersion
    /\ schema < version[p]
    /\ schema' = version[p]
    /\ version' = [version EXCEPT ![p] = @ + 1]
    /\ Committed(p)
    /\ UNCHANGED <<orgs, admins, pc, note, printed, skipped, kills>>

\* CREATE TABLE finds the table another process has made: Open fails.
MigrateFails(p) ==
    /\ pc[p] = "migrate" /\ version[p] <= SchemaVersion
    /\ schema >= version[p]
    /\ Goto(p, "failed")
    /\ UNCHANGED <<dbVars, version, stale, note, printed, skipped, kills>>

\* Mutant: the last migration is left out.
MigratedButLast(p) ==
    /\ pc[p] = "migrate" /\ version[p] >= SchemaVersion
    /\ Goto(p, "bootstrap")
    /\ UNCHANGED <<dbVars, version, stale, note, printed, skipped, kills>>

Migrated(p) ==
    /\ pc[p] = "migrate" /\ version[p] > SchemaVersion
    /\ Goto(p, "bootstrap")
    /\ UNCHANGED <<dbVars, version, stale, note, printed, skipped, kills>>

\* Bootstrap's transaction: the SELECTs find everything, or something is
\* missing and INSERTs follow.
BootstrapRead(p) ==
    /\ pc[p] = "bootstrap"
    /\ Goto(p, IF orgs > 0 THEN "count" ELSE "insert")
    /\ stale' = [stale EXCEPT ![p] = FALSE]
    /\ UNCHANGED <<dbVars, version, note, printed, skipped, kills>>

\* Mutant: the SELECTs and the INSERTs are not one transaction.
BootstrapInsertAnyway(p) ==
    /\ pc[p] = "insert"
    /\ orgs' = orgs + 1
    /\ Committed(p)
    /\ Goto(p, "count")
    /\ UNCHANGED <<schema, admins, version, note, printed, skipped, kills>>

BootstrapInsert(p) ==
    /\ pc[p] = "insert" /\ ~stale[p]
    /\ orgs' = orgs + 1
    /\ Committed(p)
    /\ Goto(p, "count")
    /\ UNCHANGED <<schema, admins, version, note, printed, skipped, kills>>

\* SQLITE_BUSY for a stale read: Bootstrap fails, cmdServe returns 1.
BootstrapBusy(p) ==
    /\ pc[p] = "insert" /\ stale[p]
    /\ Goto(p, "failed")
    /\ UNCHANGED <<dbVars, version, stale, note, printed, skipped, kills>>

\* The WAL and the store are opened; a serving process counts the users.
CountUsers(p) ==
    /\ pc[p] = "count"
    /\ Goto(p, IF p \in Serving /\ admins = {} THEN "create" ELSE "join")
    /\ skipped' = skipped \ {p}
    /\ UNCHANGED <<dbVars, version, stale, note, printed, kills>>

\* cerr # nil: the account is passed over without a word.
CountUsersFails(p) ==
    /\ pc[p] = "count" /\ p \in Serving
    /\ Goto(p, "join")
    /\ skipped' = skipped \cup {p}
    /\ UNCHANGED <<dbVars, version, stale, note, printed, kills>>

\* The e-mail address is unique: the loser of a race gets an error.
CreateUser(p) ==
    /\ pc[p] = "create" /\ admins = {}
    /\ admins' = {p} /\ note' = [note EXCEPT ![p] = TRUE]
    /\ Committed(p)
    /\ Goto(p, "join")
    /\ UNCHANGED <<schema, orgs, version, printed, skipped, kills>>

\* That error and any other, of the disk or the database, is a warning only.
CreateUserFails(p) ==
    /\ pc[p] = "create"
    /\ Goto(p, "join")
    /\ skipped' = IF admins = {} THEN skipped \cup {p} ELSE skipped
    /\ UNCHANGED <<dbVars, version, stale, note, printed, kills>>

\* The cluster is joined and the goroutines are started; the banner is printed.
Serve(p) ==
    /\ pc[p] = "join"
    /\ printed' = IF note[p] THEN printed \cup {p} ELSE printed
    /\ Goto(p, "ready")
    /\ UNCHANGED <<dbVars, version, stale, note, skipped, kills>>

\* Opening the database, Bootstrap, the log, the store, the password or the join
\* fails for a reason of its own: cmdServe returns 1.
StartFails(p) ==
    /\ StartFaults /\ kills < MaxKills
    /\ pc[p] \notin {"off", "ready", "failed"}
    /\ Goto(p, "failed")
    /\ note' = [note EXCEPT ![p] = FALSE]
    /\ kills' = kills + 1
    /\ UNCHANGED <<dbVars, version, stale, printed, skipped>>

Kill(p) ==
    /\ kills < MaxKills
    /\ pc[p] \notin {"off", "failed"}
    /\ Goto(p, "off")
    /\ note' = [note EXCEPT ![p] = FALSE]
    /\ kills' = kills + 1
    /\ UNCHANGED <<dbVars, version, stale, printed, skipped>>

----------------------------------------------------------------------------
Open(p) == ReadVersion(p) \/ Migrate(p) \/ MigrateFails(p) \/ Migrated(p)
Bootstrap(p) == BootstrapRead(p) \/ BootstrapInsert(p) \/ BootstrapBusy(p)
CmdServe(p) ==
    \/ Start(p) \/ Open(p) \/ Bootstrap(p)
    \/ CountUsers(p) \/ CountUsersFails(p) \/ CreateUser(p) \/ CreateUserFails(p)
    \/ Serve(p)

Next == \E p \in Process : CmdServe(p) \/ StartFails(p) \/ Kill(p)

Spec == Init /\ [][Next]_vars

\* Every process goes on starting, and is started again when it failed.
LiveSpec == Spec /\ \A p \in Process : WF_vars(CmdServe(p))

----------------------------------------------------------------------------
\* A process that serves has the whole schema and the default project under it,
\* and, when users log in there, an account, unless counting the users or creating
\* the first one failed, which cmdServe passes over: whatever the others did
\* meanwhile and wherever earlier starts were killed (migrate, Bootstrap).
ReadyComplete ==
    \A p \in Process : pc[p] = "ready" =>
        /\ schema = SchemaVersion /\ orgs > 0
        /\ p \in Serving \ skipped => admins # {}

\* Racing starts create one organization and one admin account, and the
\* credentials printed are those of the account (Bootstrap, CreateUser).
CreatedOnce == orgs <= 1 /\ (\A p, q \in admins : p = q) /\ printed \subseteq admins

\* Processes that are started again when they fail all get to serve in the end.
AllServe == \A p \in Process : <>(pc[p] = "ready")

\* The losers of start-up races go on (main.go:310 "SQLite's own WAL mode handles
\* concurrent multi-process access").
NoStartFails == \A p \in Process : pc[p] # "failed"

\* The credentials of the admin account are printed, or about to be
\* (main.go:351 "created once, credentials printed once").
CredentialsShown == \A p \in admins : p \in printed \/ note[p]
====
