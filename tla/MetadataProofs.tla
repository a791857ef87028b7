---- MODULE MetadataProofs ----
(***************************************************************************)
(* The metadata store and what is behind it, for any number of callers,    *)
(* processes, fingerprints, rules and workers.  MetaWriter: Write answers  *)
(* truly and Close drains.  Startup: racing, killed and repeated starts    *)
(* leave one organization, one account and nobody serving without them.    *)
(* Issues: merged issues are one hop from an issue in the stream, so that  *)
(* UpsertIssue follows merged_into once and never in a loop, and a counted *)
(* event shows.  IssueSink: a regression reaches its rules, and no         *)
(* notification is lost without being counted.                             *)
(***************************************************************************)
EXTENDS MetaWriter, Startup, IssueSink, FiniteSetTheorems, TLAPS

\* Leaves are tried with SMT, then with Zenon.
USE SMTT(30), Zenon

\* A transaction accepted and not executed yet.
Pending(c) == running = c \/ \E i \in 1..Len(writes) : writes[i] = c

\* A caller's transaction is in one place: nobody's twice in the channel, none
\* there that is running.
ChannelInv ==
    /\ \A i, j \in 1..Len(writes) : writes[i] = writes[j] => i = j
    /\ \A i \in 1..Len(writes) : writes[i] # running

\* The answer channel says what became of the transaction, and only after it
\* was executed; what a caller got is what the channel held.
AnswerInv ==
    \A c \in Caller :
        /\ call[c] \in {"idle", "send"} => resp[c] = "none" /\ ~Pending(c)
        /\ Pending(c) => resp[c] = "none"
        /\ resp[c] = "ok" <=> c \in committed
        /\ call[c] \in {"ok", "err"} => resp[c] = call[c]

\* Who waits without an answer has a transaction the goroutine will come to,
\* and the goroutine ends only when there is none.
DrainInv ==
    /\ \A c \in Caller : call[c] = "wait" /\ resp[c] = "none" => Pending(c)
    /\ done => closed /\ writes = <<>> /\ running = Nobody
    /\ main = "closed" => done

WriterInv == WriterTypeOK /\ ChannelInv /\ AnswerInv /\ DrainInv

----------------------------------------------------------------------------
\* Before migrate ends a process is never ahead of the database; after it the
\* schema is whole.
SchemaInv ==
    \A p \in Process :
        /\ pc[p] = "migrate" => version[p] <= schema + 1
        /\ pc[p] \in {"bootstrap", "insert", "count", "create", "join", "ready"}
             => schema = SchemaVersion

\* Behind Bootstrap there is an organization, and who is about to insert a
\* second one read before the first was committed.
OrgInv ==
    /\ orgs <= 1
    /\ \A p \in Process :
        /\ pc[p] \in {"count", "create", "join", "ready"} => orgs > 0
        /\ pc[p] = "insert" /\ orgs > 0 => stale[p]

\* One account; who holds its credentials created it.
AdminInv ==
    /\ \A p, q \in admins : p = q
    /\ printed \subseteq admins
    /\ \A p \in Process :
        /\ note[p] => p \in admins
        /\ pc[p] \in {"join", "ready"} /\ p \in Serving \ skipped => admins # {}

StartupInv == TypeOK /\ SchemaInv /\ OrgInv /\ AdminInv

----------------------------------------------------------------------------
\* The steps of a caller of Write preserve the invariant.
LEMMA CallerSteps ==
    ASSUME WriterInv, NEW c \in Caller, Write(c) \/ WriteStep(c) \/ ContextDone(c)
    PROVE  WriterInv'
<1> USE WriterAssumption DEF WriterInv
<1>1. CASE Send(c)
  <2>1. /\ writes' = Append(writes, c) /\ writes' \in Seq(Caller)
        /\ Len(writes') = Len(writes) + 1
        /\ \A i \in 1..Len(writes) : writes'[i] = writes[i]
        /\ writes'[Len(writes) + 1] = c
    BY <1>1 DEF Send, WriterTypeOK
  <2>2. /\ call' = [call EXCEPT ![c] = "wait"] /\ call[c] = "send"
        /\ ~closed /\ Len(writes) < Cap
        /\ UNCHANGED <<resp, closed, running, done, main, committed>>
    BY <1>1, ZenonT(60) DEF Send, CallAt
  <2>3. WriterTypeOK'
    BY <2>1, <2>2 DEF WriterTypeOK
  <2>4. ChannelInv'
    BY <2>1, <2>2 DEF ChannelInv, AnswerInv, Pending, WriterTypeOK
  <2>5. /\ Pending(c)'
        /\ \A d \in Caller : Pending(d) => Pending(d)'
        /\ \A d \in Caller : d # c /\ Pending(d)' => Pending(d)
    BY <2>1, <2>2 DEF Pending, WriterTypeOK
  <2>6. AnswerInv'
    BY <2>2, <2>5, ZenonT(60) DEF AnswerInv, WriterTypeOK
  <2>7. DrainInv'
    BY <2>2, <2>5, Zenon DEF DrainInv, WriterTypeOK
  <2> QED
    BY <2>3, <2>4, <2>6, <2>7, ZenonT(60)
<1>2. ASSUME NEW where \in {"send", "panic", "cancelled", "ok", "err"},
             UNCHANGED <<resp, writes, closed, running, done, main, committed>>,
             call' = [call EXCEPT ![c] = where],
             where = "send" => call[c] = "idle",
             where \in {"ok", "err"} => resp[c] = where
      PROVE  WriterInv'
  <2>1. WriterTypeOK'
    BY <1>2, Zenon DEF WriterTypeOK, Returned
  <2>2. /\ ChannelInv' /\ \A d \in Caller : Pending(d)' <=> Pending(d)
        /\ \A d \in Caller \ {c} : call'[d] = call[d]
        /\ call'[c] = where
    BY <1>2, ZenonT(60) DEF WriterTypeOK, ChannelInv, Pending
  <2>3. AnswerInv'
    BY <1>2, <2>2, ZenonT(60) DEF AnswerInv
  <2>4. DrainInv'
    BY <1>2, <2>2, Zenon DEF DrainInv
  <2> QED
    BY <2>1, <2>2, <2>3, <2>4, Zenon
<1>3. CASE Write(c)
  BY <1>2, <1>3, Zenon DEF Write, CallAt
<1>4. CASE SendClosed(c)
  BY <1>2, <1>4, Zenon DEF SendClosed, CallAt
<1>5. CASE Receive(c)
  BY <1>2, <1>5, Zenon DEF Receive, CallAt, WriterTypeOK
<1>6. CASE ContextDone(c)
  BY <1>2, <1>6, Zenon DEF ContextDone, CallAt
<1> QED
  BY <1>1, <1>3, <1>4, <1>5, <1>6, ZenonT(60) DEF WriteStep

\* The goroutine takes a transaction off the channel.
LEMMA TakeStep ==
    ASSUME WriterInv, LoopTake
    PROVE  WriterInv'
<1> USE WriterAssumption DEF WriterInv
<1>1. /\ Len(writes) > 0 /\ writes' \in Seq(Caller) /\ Len(writes') = Len(writes) - 1
      /\ \A i \in 1..Len(writes') : writes'[i] = writes[i + 1]
      /\ running' = writes[1] /\ running = Nobody /\ ~done
      /\ UNCHANGED <<call, resp, closed, done, main, committed>>
  BY DEF LoopTake, WriterTypeOK
<1>2. WriterTypeOK'
  BY <1>1 DEF WriterTypeOK
<1>3. ChannelInv'
  <2>1. ASSUME NEW i \in 1..Len(writes') PROVE i + 1 \in 1..Len(writes) /\ 1 \in 1..Len(writes) /\ i + 1 # 1
    BY <1>1 DEF WriterTypeOK
  <2>2. ASSUME NEW i \in 1..Len(writes'), NEW j \in 1..Len(writes'), writes'[i] = writes'[j]
        PROVE  i = j
    <3>1. i + 1 = j + 1
      <4>1. writes[i + 1] = writes[j + 1]
        BY <1>1, <2>2, Zenon
      <4> QED
        BY <2>1, <4>1, Zenon DEF ChannelInv
    <3> QED
      BY <3>1
  <2>3. ASSUME NEW i \in 1..Len(writes') PROVE writes'[i] # running'
    BY <1>1, <2>1, Zenon DEF ChannelInv
  <2> QED
    BY <2>2, <2>3, Zenon DEF ChannelInv
<1>4. ASSUME NEW c \in Caller PROVE Pending(c)' <=> Pending(c)
  <2>1. ASSUME NEW i \in 1..Len(writes), writes[i] = c PROVE Pending(c)'
    <3>1. CASE i = 1
      BY <1>1, <2>1, <3>1, Zenon DEF Pending
    <3>2. CASE i # 1
      <4>1. i - 1 \in 1..Len(writes') /\ writes'[i - 1] = c
        BY <1>1, <2>1, <3>2 DEF WriterTypeOK
      <4> QED
        BY <4>1, ZenonT(60) DEF Pending
    <3> QED
      BY <3>1, <3>2, Zenon
  <2>2. Pending(c)' => Pending(c)
    BY <1>1 DEF Pending, WriterTypeOK
  <2> QED
    BY <1>1, <2>1, <2>2, Zenon DEF Pending
<1>5. AnswerInv'
  BY <1>1, <1>4, Zenon DEF AnswerInv
<1>6. DrainInv'
  BY <1>1, <1>4, ZenonT(60) DEF DrainInv
<1> QED
  BY <1>2, <1>3, <1>5, <1>6, ZenonT(60)

\* The goroutine executes the transaction and answers.
LEMMA ExecStep ==
    ASSUME WriterInv, ExecTx
    PROVE  WriterInv'
<1> USE WriterAssumption DEF WriterInv
<1>1. /\ running \in Caller /\ running' = Nobody
      /\ UNCHANGED <<call, writes, closed, done, main>>
      /\ \/ committed' = committed \cup {running} /\ resp' = [resp EXCEPT ![running] = "ok"]
         \/ committed' = committed /\ resp' = [resp EXCEPT ![running] = "err"]
  BY Zenon DEF ExecTx, Answer, WriterTypeOK
<1>2. WriterTypeOK'
  BY <1>1, Zenon DEF WriterTypeOK
<1>3. ChannelInv'
  BY <1>1 DEF ChannelInv, WriterTypeOK
<1>4. /\ \A c \in Caller : c = running => ~Pending(c)'
      /\ \A c \in Caller : c # running => (Pending(c)' <=> Pending(c))
  BY <1>1, WriterAssumption, ZenonT(60) DEF Pending, ChannelInv
<1>5. resp[running] = "none" /\ resp'[running] # "none" /\ Pending(running)
  BY <1>1 DEF AnswerInv, Pending, WriterTypeOK
<1>6. \A c \in Caller : c # running => resp'[c] = resp[c] /\ (c \in committed' <=> c \in committed)
  BY <1>1, Zenon DEF WriterTypeOK
<1>7. resp'[running] = "ok" <=> running \in committed'
  BY <1>1, <1>5, Zenon DEF AnswerInv, WriterTypeOK
<1>8. AnswerInv'
  <2> SUFFICES ASSUME NEW c \in Caller
               PROVE  /\ call[c] \in {"idle", "send"} => resp'[c] = "none" /\ ~Pending(c)'
                      /\ Pending(c)' => resp'[c] = "none"
                      /\ resp'[c] = "ok" <=> c \in committed'
                      /\ call[c] \in {"ok", "err"} => resp'[c] = call[c]
    BY <1>1, Zenon DEF AnswerInv
  <2>1. CASE c = running
    BY <2>1, <1>4, <1>5, <1>7, Zenon DEF AnswerInv
  <2>2. CASE c # running
    BY <2>2, <1>4, <1>6, Zenon DEF AnswerInv
  <2> QED
    BY <2>1, <2>2, Zenon
<1>9. DrainInv'
  BY <1>1, <1>4, <1>5, <1>6, Zenon DEF DrainInv
<1> QED
  BY <1>2, <1>3, <1>8, <1>9, Zenon

\* Every step of the callers, the goroutine and Close preserves it.
LEMMA WriterStep ==
    ASSUME WriterInv, [WriterNext]_writerVars
    PROVE  WriterInv'
<1> USE DEF WriterInv
<1>1. CASE LoopEnd
  BY <1>1 DEF LoopEnd, WriterTypeOK, ChannelInv, AnswerInv, DrainInv, Pending
<1>2. CASE Close
  BY <1>2 DEF Close, WriterTypeOK, ChannelInv, AnswerInv, DrainInv, Pending
<1>3. CASE CloseReturn
  BY <1>3 DEF CloseReturn, WriterTypeOK, ChannelInv, AnswerInv, DrainInv, Pending
<1>4. CASE UNCHANGED writerVars
  BY <1>4 DEF writerVars, WriterTypeOK, ChannelInv, AnswerInv, DrainInv, Pending
<1> QED
  BY <1>1, <1>2, <1>3, <1>4, CallerSteps, TakeStep, ExecStep, ZenonT(60) DEF WriterNext, WriteLoop

\* The invariant of the writer holds in every behaviour, for any number of
\* callers and any capacity of the channel.
THEOREM WriterInvariance == WriterSpec => []WriterInv
<1>1. WriterInit => WriterInv
  <2> SUFFICES ASSUME WriterInit PROVE WriterInv
    BY Zenon
  <2>1. WriterTypeOK
    <3>1. writes \in Seq(Caller) /\ Len(writes) <= Cap
      BY WriterAssumption DEF WriterInit
    <3> QED
      BY <3>1, Zenon DEF WriterInit, WriterTypeOK
  <2>2. \A c \in Caller : ~Pending(c)
    <3>1. Len(writes) = 0 /\ running \notin Caller
      BY WriterAssumption, Zenon DEF WriterInit
    <3> QED
      BY <3>1 DEF Pending
  <2>3. ChannelInv /\ AnswerInv /\ DrainInv
    BY <2>2 DEF WriterInit, ChannelInv, AnswerInv, DrainInv
  <2> QED
    BY <2>1, <2>3, Zenon DEF WriterInv
<1> QED
  BY <1>1, WriterStep, PTL DEF WriterSpec

\* What Write returns is what became of the transaction (execTx, Write).
THEOREM WriteAnswers == WriterSpec => []AnswerTrue
<1>1. WriterInv => AnswerTrue
  BY Zenon DEF WriterInv, WriterTypeOK, AnswerInv, AnswerTrue
<1> QED
  BY <1>1, WriterInvariance, PTL

\* Close returns only after every accepted transaction was answered (writeLoop).
THEOREM CloseWaits == WriterSpec => []CloseDrains
<1>1. WriterInv => CloseDrains
  <2> SUFFICES ASSUME WriterInv, main = "closed", NEW c \in Caller, call[c] = "wait",
                      resp[c] = "none"
               PROVE  FALSE
    BY Zenon DEF CloseDrains
  <2>1. Pending(c) /\ writes = <<>> /\ running = Nobody
    BY Zenon DEF WriterInv, DrainInv
  <2> QED
    BY <2>1, WriterAssumption DEF Pending
<1> QED
  BY <1>1, WriterInvariance, PTL

----------------------------------------------------------------------------
\* Opening the database: the version is read, migrations are applied.
LEMMA OpenSteps ==
    ASSUME StartupInv, NEW p \in Process, Start(p) \/ Open(p)
    PROVE  StartupInv'
<1> USE StartupAssumption DEF StartupInv
<1>1. CASE Start(p)
  BY <1>1, ZenonT(60) DEF Start, Goto, dbVars, TypeOK, SchemaInv, OrgInv, AdminInv
<1>2. CASE ReadVersion(p)
  BY <1>2 DEF ReadVersion, Goto, dbVars, TypeOK, SchemaInv, OrgInv, AdminInv
<1>3. CASE Migrate(p)
  <2>1. /\ schema' = schema + 1 /\ schema < SchemaVersion /\ schema' \in 0..SchemaVersion
        /\ version' = [version EXCEPT ![p] = @ + 1] /\ version[p] = schema'
        /\ stale' \in [Process -> BOOLEAN]
        /\ UNCHANGED <<orgs, admins, pc, note, printed, skipped, kills>>
    BY <1>3 DEF Migrate, Committed, TypeOK, SchemaInv
  <2>2. \A q \in Process : pc[q] \notin {"bootstrap", "insert", "count", "create", "join", "ready"}
    BY <2>1 DEF SchemaInv, TypeOK
  <2>3. TypeOK'
    BY <2>1 DEF TypeOK
  <2>4. SchemaInv'
    BY <2>1, <2>2 DEF SchemaInv, TypeOK
  <2>5. OrgInv' /\ AdminInv'
    BY <2>1, <2>2, Zenon DEF OrgInv, AdminInv
  <2> QED
    BY <2>3, <2>4, <2>5, Zenon
<1>4. CASE MigrateFails(p)
  BY <1>4, ZenonT(60) DEF MigrateFails, Goto, dbVars, TypeOK, SchemaInv, OrgInv, AdminInv
<1>5. CASE Migrated(p)
  BY <1>5 DEF Migrated, Goto, dbVars, TypeOK, SchemaInv, OrgInv, AdminInv
<1> QED
  BY <1>1, <1>2, <1>3, <1>4, <1>5, Zenon DEF Open

\* Bootstrap: who inserts read when there was no organization, and no commit
\* came in between.
LEMMA BootstrapSteps ==
    ASSUME StartupInv, NEW p \in Process, Bootstrap(p)
    PROVE  StartupInv'
<1> USE StartupAssumption DEF StartupInv
<1>1. CASE BootstrapRead(p)
  BY <1>1, ZenonT(60) DEF BootstrapRead, Goto, dbVars, TypeOK, SchemaInv, OrgInv, AdminInv
<1>2. CASE BootstrapInsert(p)
  <2>1. orgs = 0
    <3>1. pc[p] = "insert" /\ ~stale[p] /\ orgs \in Nat
      BY <1>2, Zenon DEF BootstrapInsert, TypeOK
    <3>2. ~(orgs > 0)
      BY <3>1, Zenon DEF OrgInv
    <3> QED
      BY <3>1, <3>2
  <2>2. /\ orgs' = 1
        /\ pc[p] = "insert" /\ pc' = [pc EXCEPT ![p] = "count"]
        /\ stale' = [q \in Process |-> q # p]
        /\ UNCHANGED <<schema, admins, version, note, printed, skipped, kills>>
    BY <1>2, <2>1 DEF BootstrapInsert, Committed, Goto
  <2>3. stale' \in [Process -> BOOLEAN] /\ \A q \in Process : q # p => stale'[q]
    BY <2>2, ZenonT(60)
  <2> QED
    BY <2>2, <2>3 DEF TypeOK, SchemaInv, OrgInv, AdminInv
<1>3. CASE BootstrapBusy(p)
  BY <1>3, Zenon DEF BootstrapBusy, Goto, dbVars, TypeOK, SchemaInv, OrgInv, AdminInv
<1> QED
  BY <1>1, <1>2, <1>3, Zenon DEF Bootstrap

\* The account, the banner, and the ends of a process.
LEMMA ServeSteps ==
    ASSUME StartupInv, NEW p \in Process,
           \/ CountUsers(p) \/ CountUsersFails(p) \/ CreateUser(p) \/ CreateUserFails(p)
           \/ Serve(p) \/ StartFails(p) \/ Kill(p)
    PROVE  StartupInv'
<1> USE StartupAssumption DEF StartupInv
<1>1. CASE CountUsers(p)
  BY <1>1, ZenonT(60) DEF CountUsers, Goto, dbVars, TypeOK, SchemaInv, OrgInv, AdminInv
<1>2. CASE CreateUser(p)
  <2>1. /\ admins = {} /\ admins' = {p} /\ note' = [note EXCEPT ![p] = TRUE]
        /\ pc[p] = "create" /\ pc' = [pc EXCEPT ![p] = "join"]
        /\ stale' = [q \in Process |-> q # p]
        /\ UNCHANGED <<schema, orgs, version, printed, skipped, kills>>
    BY <1>2, Zenon DEF CreateUser, Committed, Goto
  <2>2. \A q \in Process : q # p /\ pc[q] = "insert" => stale'[q]
    BY <2>1, ZenonT(60)
  <2> QED
    BY <1>2, <2>1, <2>2 DEF TypeOK, SchemaInv, OrgInv, AdminInv
<1>3. CASE CountUsersFails(p) \/ CreateUserFails(p)
  <2>1. /\ pc[p] \in {"count", "create"} /\ pc' = [pc EXCEPT ![p] = "join"]
        /\ skipped' \in SUBSET Process /\ skipped \subseteq skipped'
        /\ p \in skipped' \/ admins # {}
        /\ UNCHANGED <<schema, orgs, admins, version, stale, note, printed, kills>>
    BY <1>3, Zenon DEF CountUsersFails, CreateUserFails, Goto, dbVars, TypeOK
  <2>2. TypeOK' /\ SchemaInv' /\ OrgInv'
    BY <2>1, ZenonT(60) DEF TypeOK, SchemaInv, OrgInv
  <2>3. AdminInv'
    BY <2>1, ZenonT(60) DEF TypeOK, AdminInv
  <2> QED
    BY <2>2, <2>3, Zenon
<1>4. CASE Serve(p)
  BY <1>4, ZenonT(60) DEF Serve, Goto, dbVars, TypeOK, SchemaInv, OrgInv, AdminInv
<1>5. CASE StartFails(p) \/ Kill(p)
  <2>1. /\ pc' = [pc EXCEPT ![p] = "off"] \/ pc' = [pc EXCEPT ![p] = "failed"]
        /\ note' = [note EXCEPT ![p] = FALSE]
        /\ kills < MaxKills /\ kills' = kills + 1
        /\ UNCHANGED <<schema, orgs, admins, version, stale, printed, skipped>>
    BY <1>5, Zenon DEF StartFails, Kill, Goto, dbVars
  <2>2. TypeOK'
    BY <2>1 DEF TypeOK
  <2>3. SchemaInv'
    BY <2>1, Zenon DEF TypeOK, SchemaInv
  <2>4. OrgInv'
    BY <2>1, Zenon DEF TypeOK, OrgInv
  <2>5. AdminInv'
    BY <2>1, Zenon DEF TypeOK, AdminInv
  <2> QED
    BY <2>2, <2>3, <2>4, <2>5, Zenon
<1> QED
  BY <1>1, <1>2, <1>3, <1>4, <1>5, ZenonT(60)

\* The invariant of start-up holds in every behaviour, for any processes,
\* migrations, failures and kills.
THEOREM StartupInvariance == Spec => []StartupInv
<1>1. Init => StartupInv
  BY StartupAssumption DEF Init, StartupInv, TypeOK, SchemaInv, OrgInv, AdminInv
<1>2. StartupInv /\ [Next]_vars => StartupInv'
  <2> SUFFICES ASSUME StartupInv, [Next]_vars PROVE StartupInv'
    BY Zenon
  <2>1. CASE UNCHANGED vars
    BY <2>1, Zenon DEF vars, dbVars, StartupInv, TypeOK, SchemaInv, OrgInv, AdminInv
  <2> QED
    BY <2>1, OpenSteps, BootstrapSteps, ServeSteps, Zenon DEF Next, CmdServe
<1> QED
  BY <1>1, <1>2, PTL DEF Spec

\* Whoever serves has the schema and the project under it, and an account when
\* counting the users and creating the first one did not fail (migrate, Bootstrap,
\* cmdServe).
THEOREM ServesComplete == Spec => []ReadyComplete
<1>1. StartupInv => ReadyComplete
  BY Zenon DEF StartupInv, SchemaInv, OrgInv, AdminInv, ReadyComplete
<1> QED
  BY <1>1, StartupInvariance, PTL

\* One organization and one account, whose credentials are the ones printed
\* (Bootstrap, CreateUser).
THEOREM BootstrapOnce == Spec => []CreatedOnce
<1>1. StartupInv => CreatedOnce
  BY Zenon DEF StartupInv, OrgInv, AdminInv, CreatedOnce
<1> QED
  BY <1>1, StartupInvariance, PTL

\* The table is a function of fingerprints.
TableShape ==
    /\ DOMAIN row \subseteq Fingerprint
    /\ row = [f \in DOMAIN row |-> row[f]]

MergeInv == TableShape /\ OneHop

\* UpsertIssue: no row changes what it is merged into, a new one is not merged.
LEMMA UpsertIssueStep ==
    ASSUME MergeInv, NEW f \in Fingerprint, UpsertIssue(f)
    PROVE  MergeInv'
<1> USE IssuesAssumption DEF MergeInv, TableShape, OneHop, Listed
<1>1. CASE f \in DOMAIN row
  <2> DEFINE t == Target(f)
             r == Row(Regress(row[t].status), row[t].seen + 1, row[t].into)
  <2>1. t \in DOMAIN row
    BY <1>1, Zenon DEF Target
  <2>2. row' = [row EXCEPT ![t] = r] /\ r.into = row[t].into
    BY <1>1, Zenon DEF UpsertIssue, Row
  <2> HIDE DEF t, r
  <2>3. DOMAIN row' = DOMAIN row /\ \A g \in DOMAIN row : row'[g].into = row[g].into
    BY <2>1, <2>2, Zenon
  <2>4. TableShape'
    <3>1. row' = [g \in DOMAIN row |-> IF g = t THEN r ELSE row[g]]
      BY <2>2, ZenonT(60)
    <3> QED BY <2>3, <3>1
  <2> QED BY <2>3, <2>4
<1>2. CASE f \notin DOMAIN row
  <2>1. row' = [g \in DOMAIN row \cup {f} |-> IF g = f THEN NewIssue ELSE row[g]]
    BY <1>2, Zenon DEF UpsertIssue
  <2>2. TableShape'
    BY <2>1 DEF NewIssue, Row
  <2>3. \A g \in DOMAIN row : row'[g] = row[g]
    BY <1>2, <2>1, Zenon
  <2>4. row'[f].into = None /\ DOMAIN row' = DOMAIN row \cup {f}
    BY <2>1, Zenon DEF NewIssue, Row
  <2> QED BY <2>2, <2>3, <2>4
<1> QED BY <1>1, <1>2, Zenon

\* SetIssueStatus: merged_into is left alone.
LEMMA SetIssueStatusStep ==
    ASSUME MergeInv, NEW p, NEW f, NEW s, SetIssueStatus(p, f, s)
    PROVE  MergeInv'
<1> USE DEF MergeInv, TableShape, OneHop, Listed
<1>1. row' = [row EXCEPT ![f] = Row(s, row[f].seen, row[f].into)] /\ f \in DOMAIN row
  BY Zenon DEF SetIssueStatus
<1>2. DOMAIN row' = DOMAIN row /\ \A g \in DOMAIN row : row'[g].into = row[g].into
  BY <1>1, Zenon DEF Row
<1>3. TableShape'
  BY <1>1, Zenon
<1> QED BY <1>2, <1>3

\* SplitIssue: one more issue in the stream; nothing was merged into it.
LEMMA SplitIssueStep ==
    ASSUME MergeInv, NEW p, NEW f, SplitIssue(p, f)
    PROVE  MergeInv'
<1> USE DEF MergeInv, TableShape, OneHop, Listed
<1>1. row' = [row EXCEPT ![f] = Row("unresolved", row[f].seen, None)] /\ f \in DOMAIN row
  BY Zenon DEF SplitIssue
<1>2. DOMAIN row' = DOMAIN row /\ \A g \in DOMAIN row : row'[g].into = IF g = f THEN None ELSE row[g].into
  BY <1>1, Zenon DEF Row
<1>3. TableShape'
  BY <1>1, Zenon
<1> QED BY <1>2, <1>3

\* MergeIssues: the target is in the stream and stays there; whatever pointed
\* at a source, and the sources, now point at the target.
LEMMA MergeIssuesStep ==
    ASSUME MergeInv, NEW p, NEW t, NEW sources, MergeIssues(p, t, sources)
    PROVE  MergeInv'
<1> DEFINE S == Range(sources)
<1>1. t \in Listed /\ t \notin S /\ Project[t] = p
  BY Zenon DEF MergeIssues, Listed
<1>2. \A f \in S : f \in DOMAIN row /\ Project[f] = p
  BY Zenon DEF MergeIssues
<1> DEFINE seen(f) == IF f = t THEN SeenWith(t, sources) ELSE row[f].seen
           into(f) == Repointed(t, sources)[f]
<1>0. row' = [f \in DOMAIN row |-> Row(row[f].status, seen(f), into(f))]
  BY Zenon DEF MergeIssues
<1>3. TableShape'
  <2> HIDE DEF seen, into
  <2> QED BY <1>0, Zenon DEF MergeInv, TableShape
<1>4. DOMAIN row' = DOMAIN row /\ \A f \in DOMAIN row : row'[f].into = into(f)
  <2> HIDE DEF seen, into
  <2> QED BY <1>0, Zenon DEF Row
<1>5. \A f \in DOMAIN row : Repointed(t, sources)[f] =
          IF f \in S \/ row[f].into \in S THEN t ELSE row[f].into
  BY Zenon DEF Repointed
<1> HIDE DEF S
<1>6. t \in Listed'
  BY <1>1, <1>2, <1>4, <1>5, IssuesAssumption, Zenon DEF Listed, MergeInv, TableShape
<1>7. OneHop'
  <2> SUFFICES ASSUME NEW f \in DOMAIN row, row'[f].into # None
               PROVE  row'[f].into \in Listed' /\ Project[row'[f].into] = Project[f]
    BY <1>4, Zenon DEF OneHop
  <2>1. CASE f \in S \/ row[f].into \in S
    BY <1>1, <1>2, <1>4, <1>5, <1>6, <2>1, IssuesAssumption DEF MergeInv, OneHop, TableShape
  <2>2. CASE ~(f \in S \/ row[f].into \in S)
    <3>1. row'[f].into = row[f].into
      BY <1>4, <1>5, <2>2, Zenon
    <3>2. row[f].into \in Listed /\ Project[row[f].into] = Project[f]
      BY <3>1, Zenon DEF MergeInv, OneHop
    <3>3. row[f].into \in Listed'
      BY <1>4, <1>5, <2>2, <3>2, <1>2, IssuesAssumption, ZenonT(60) DEF Listed, MergeInv, TableShape
    <3> QED BY <3>1, <3>2, <3>3, Zenon
  <2> QED BY <2>1, <2>2, Zenon
<1> QED BY <1>3, <1>7, Zenon DEF MergeInv

\* Every transaction on the issues table preserves the invariant.
LEMMA IssuesStep ==
    ASSUME MergeInv, [IssuesNext]_issueVars
    PROVE  MergeInv'
<1>1. CASE UNCHANGED issueVars
  BY <1>1, Zenon DEF issueVars, MergeInv, TableShape, OneHop, Listed
<1>2. CASE \E f \in Fingerprint : UpsertIssue(f)
  BY <1>2, UpsertIssueStep, Zenon
<1>3. CASE Api
  BY <1>3, SetIssueStatusStep, MergeIssuesStep, SplitIssueStep, ZenonT(60) DEF Api
<1> QED BY <1>1, <1>2, <1>3, Zenon DEF IssuesNext

\* In every behaviour of the issues table, the invariant of merges holds.
THEOREM IssuesInvariance == IssuesSpec => []MergeInv
<1>1. IssuesInit => MergeInv
  BY DEF IssuesInit, MergeInv, TableShape, OneHop
<1> QED BY <1>1, IssuesStep, PTL DEF IssuesSpec

\* "merged_into is always one hop deep" (MergeIssues), for any fingerprints,
\* projects and requests.
THEOREM MergedOneHop == IssuesSpec => []OneHop
<1>1. MergeInv => OneHop
  BY Zenon DEF MergeInv
<1> QED BY <1>1, IssuesInvariance, PTL

\* The event UpsertIssue counts is in the stream, in an issue that is not
\* resolved.
LEMMA UpsertShows ==
    ASSUME MergeInv, NEW f \in Fingerprint, UpsertIssue(f)
    PROVE  \E g \in Listed' : /\ row'[g].status # "resolved"
                              /\ g \in DOMAIN row => row'[g].seen = row[g].seen + 1
<1>1. CASE f \in DOMAIN row
  <2> DEFINE t == Target(f)
             r == Row(Regress(row[t].status), row[t].seen + 1, row[t].into)
  <2>1. t \in DOMAIN row /\ row[t].into = None
    BY <1>1, Zenon DEF Target, MergeInv, OneHop, Listed
  <2>2. row' = [row EXCEPT ![t] = r]
    BY <1>1, Zenon DEF UpsertIssue
  <2>3. r.into = None /\ r.status # "resolved" /\ r.seen = row[t].seen + 1
    BY <2>1, Zenon DEF Row, Regress
  <2> HIDE DEF t, r
  <2>4. t \in DOMAIN row' /\ row'[t] = r
    BY <2>1, <2>2, Zenon
  <2> QED BY <2>3, <2>4, Zenon DEF Listed
<1>2. CASE f \notin DOMAIN row
  <2>1. row' = [g \in DOMAIN row \cup {f} |-> IF g = f THEN NewIssue ELSE row[g]]
    BY <1>2, Zenon DEF UpsertIssue
  <2>2. f \in Listed' /\ row'[f].status # "resolved"
    BY <2>1, Zenon DEF NewIssue, Row, Listed
  <2> QED BY <1>2, <2>2, Zenon
<1> QED BY <1>1, <1>2, Zenon

\* "A resolved issue seeing a new event becomes regressed (never silently
\* resolved)" (UpsertIssue), through a merge too, for any requests in between.
THEOREM EventsShow == IssuesSpec => HitShows
<1>1. MergeInv /\ [IssuesNext]_issueVars =>
        [hits' # hits =>
            \E f \in Listed' : /\ row'[f].status # "resolved"
                               /\ f \in DOMAIN row => row'[f].seen = row[f].seen + 1]_issueVars
  <2> SUFFICES ASSUME MergeInv, IssuesNext, hits' # hits
               PROVE  \E f \in Listed' : /\ row'[f].status # "resolved"
                                         /\ f \in DOMAIN row => row'[f].seen = row[f].seen + 1
    BY Zenon
  <2>1. PICK f \in Fingerprint : UpsertIssue(f)
    BY Zenon DEF IssuesNext, Api, SetIssueStatus, MergeIssues, SplitIssue
  <2> QED BY <2>1, UpsertShows, Zenon
<1> QED BY <1>1, IssuesInvariance, PTL DEF IssuesSpec, HitShows

----------------------------------------------------------------------------
\* To the issues table, the sink's alerting is invisible (issueSink): every
\* behaviour of the sink is one of the table, with its theorems.
THEOREM SinkIsIssues == SinkSpec => IssuesSpec
<1>1. SinkInit => IssuesInit
  BY Zenon DEF SinkInit
<1>2. [SinkNext]_sinkVars => [IssuesNext]_issueVars
  BY Zenon DEF SinkNext, SinkUpsert, SinkAbandoned, IssuesNext, sinkVars
<1> QED BY <1>1, <1>2, PTL DEF SinkSpec, IssuesSpec

----------------------------------------------------------------------------
Notification == [rule : Nat, issue : Fingerprint]
Delivery == [n : Notification \cup {Nothing}, attempt : Nat, posting : BOOLEAN]

\* Evaluate is at a suffix of the rules, and the activity names an issue.
EvalInv ==
    /\ epc \in {"idle", "load", "match"} /\ (epc = "match" <=> rules # <<>>)
    /\ rules \in Seq(Nat) /\ Len(rules) <= Len(Rule)
    /\ \A j \in 1..Len(rules) : rules[j] = Rule[Len(Rule) - Len(rules) + j]
    /\ epc # "idle" => act.issue \in Fingerprint

\* A worker without a notification is idle.
WorkerInv ==
    /\ queue \in Seq(Notification)
    /\ worker \in [Worker -> Delivery]
    /\ \A w \in Worker : worker[w].n = Nothing => worker[w] = Idle
    /\ delivered \in Nat /\ dropped \in Nat /\ dead \in Nat /\ accepted \in Nat

\* A notification of the pair is in the engine, or has left it since the issue
\* regressed.
Told(pair) == InHand(pair) \/ pair \in settled

\* Evaluate has yet to come to rule i of Rule.
Ahead(i) == epc = "load" \/ (epc = "match" /\ i > Len(Rule) - Len(rules))

\* Of a regressed issue each rule for regressions has been told, or Evaluate has the
\* regression in hand and has yet to come to the rule.
FireInv ==
    \A f \in DOMAIN row \ missed, i \in 1..Len(Rule) :
        row[f].status = "regressed" /\ Condition[Rule[i]] = "regression" =>
            Told(<<Rule[i], f>>) \/ (act.issue = f /\ act.regressed /\ Ahead(i))

SinkInv == MergeInv /\ EvalInv /\ WorkerInv /\ FireInv /\ Accounted

\* An upsert makes no issue regressed but the one of its outcome.
LEMMA UpsertOutcome ==
    ASSUME MergeInv, NEW f \in Fingerprint, UpsertIssue(f)
    PROVE  /\ Outcome(f).issue \in Fingerprint
           /\ \A g \in DOMAIN row' : row'[g].status = "regressed" =>
                \/ g \in DOMAIN row /\ row[g].status = "regressed"
                \/ g = Outcome(f).issue /\ Outcome(f).regressed
<1> DEFINE t == IF f \in DOMAIN row THEN Target(f) ELSE f
<1>1. /\ Outcome(f).issue = t
      /\ Outcome(f).regressed <=> f \in DOMAIN row /\ row[t].status = "resolved"
  BY Zenon DEF Outcome
<1>2. t \in Fingerprint /\ (f \in DOMAIN row => t \in DOMAIN row)
  BY Zenon DEF Target, MergeInv, TableShape, OneHop, Listed
<1>3. ASSUME NEW g \in DOMAIN row', row'[g].status = "regressed"
      PROVE  \/ g \in DOMAIN row /\ row[g].status = "regressed"
             \/ g = t /\ Outcome(f).regressed
  <2>1. CASE f \in DOMAIN row
    <3> DEFINE r == Row(Regress(row[t].status), row[t].seen + 1, row[t].into)
    <3>1. row' = [row EXCEPT ![t] = r]
      BY <2>1, Zenon DEF UpsertIssue
    <3>2. r.status = "regressed" => row[t].status \in {"resolved", "regressed"}
      BY Zenon DEF Row, Regress
    <3> HIDE DEF r, t
    <3>3. g \in DOMAIN row /\ (g # t => row'[g] = row[g]) /\ (g = t => row'[g] = r)
      BY <1>2, <2>1, <3>1, Zenon
    <3> QED BY <1>1, <1>3, <2>1, <3>2, <3>3, Zenon
  <2>2. CASE f \notin DOMAIN row
    <3>1. row' = [h \in DOMAIN row \cup {f} |-> IF h = f THEN NewIssue ELSE row[h]]
      BY <2>2, Zenon DEF UpsertIssue
    <3> QED BY <1>3, <2>2, <3>1, Zenon DEF NewIssue, Row
  <2> QED BY <2>1, <2>2, ZenonT(60)
<1> QED BY <1>1, <1>2, <1>3, Zenon

\* Evaluate is called: it has all rules ahead, and what was told of an earlier
\* regression of the issue counts no more.
LEMMA SinkUpsertStep ==
    ASSUME SinkInv, NEW f \in Fingerprint, SinkUpsert(f)
    PROVE  EvalInv' /\ WorkerInv' /\ FireInv' /\ Accounted'
<1>1. /\ epc = "idle" /\ epc' = "load" /\ act' = Outcome(f)
      /\ missed' = missed \ {g \in {act'.issue} : act'.regressed}
      /\ settled' = settled \ {pair \in settled : act'.regressed /\ pair[2] = act'.issue}
      /\ UNCHANGED <<rules, cooldown, accepted, queue, dropped, worker, fails, open, delivered, dead>>
  BY Zenon DEF SinkUpsert, workVars
<1>2. /\ act'.issue \in Fingerprint
      /\ \A g \in DOMAIN row' : row'[g].status = "regressed" =>
            \/ g \in DOMAIN row /\ row[g].status = "regressed"
            \/ g = act'.issue /\ act'.regressed
  BY <1>1, UpsertOutcome, Zenon DEF SinkUpsert, SinkInv
<1>3. EvalInv'
  BY <1>1, <1>2, Zenon DEF SinkInv, EvalInv
<1>4. FireInv'
  <2> SUFFICES ASSUME NEW g \in DOMAIN row' \ missed', NEW i \in 1..Len(Rule),
                      row'[g].status = "regressed", Condition[Rule[i]] = "regression"
               PROVE  Told(<<Rule[i], g>>)' \/ (act'.issue = g /\ act'.regressed /\ Ahead(i)')
    BY Zenon DEF FireInv
  <2>1. CASE g = act'.issue /\ act'.regressed
    BY <1>1, <2>1, Zenon DEF Ahead
  <2>2. CASE ~(g = act'.issue /\ act'.regressed)
    <3>1. g \in DOMAIN row \ missed /\ row[g].status = "regressed"
      BY <1>1, <1>2, <2>2, Zenon
    <3>2. Told(<<Rule[i], g>>)
      BY <1>1, <3>1, Zenon DEF SinkInv, FireInv, Ahead
    <3>3. CASE InHand(<<Rule[i], g>>)
      BY <1>1, <3>3, Zenon DEF Told, InHand, Busy
    <3>4. CASE <<Rule[i], g>> \in settled
      <4>1. <<Rule[i], g>>[2] = g
        BY Zenon
      <4> QED BY <1>1, <2>2, <3>4, <4>1, Zenon DEF Told
    <3> QED BY <3>2, <3>3, <3>4, Zenon DEF Told
  <2> QED BY <2>1, <2>2, Zenon
<1>5. WorkerInv' /\ Accounted'
  BY <1>1, Zenon DEF SinkInv, WorkerInv, Accounted, Busy
<1> QED BY <1>3, <1>4, <1>5, Zenon

\* An upsert whose caller has gone leaves the engine alone; a regression it makes is
\* among the missed ones.
LEMMA SinkAbandonedStep ==
    ASSUME SinkInv, NEW f \in Fingerprint, SinkAbandoned(f)
    PROVE  EvalInv' /\ WorkerInv' /\ FireInv' /\ Accounted'
<1>1. /\ missed' = missed \cup {g \in {Outcome(f).issue} : Outcome(f).regressed}
      /\ UNCHANGED <<epc, act, rules, cooldown, accepted, settled, queue, dropped>>
      /\ UNCHANGED <<worker, fails, open, delivered, dead>>
  BY Zenon DEF SinkAbandoned, workVars
<1>2. \A g \in DOMAIN row' : row'[g].status = "regressed" =>
          \/ g \in DOMAIN row /\ row[g].status = "regressed"
          \/ g = Outcome(f).issue /\ Outcome(f).regressed
  BY UpsertOutcome, Zenon DEF SinkAbandoned, SinkInv
<1>3. EvalInv' /\ WorkerInv' /\ Accounted'
  BY <1>1, Zenon DEF SinkInv, EvalInv, WorkerInv, Accounted, Busy
<1>4. \A g \in DOMAIN row' \ missed' : row'[g].status = "regressed" =>
          g \in DOMAIN row \ missed /\ row[g].status = "regressed"
  BY <1>1, <1>2, Zenon
<1>5. \A pair : Told(pair) => Told(pair)'
  BY <1>1, Zenon DEF Told, InHand, Busy
<1>6. \A i : Ahead(i) => Ahead(i)'
  BY <1>1, Zenon DEF Ahead
<1>7. FireInv'
  BY <1>1, <1>4, <1>5, <1>6, Zenon DEF SinkInv, FireInv
<1> QED BY <1>3, <1>7, Zenon

\* The API makes no issue regressed.
LEMMA ApiStep ==
    ASSUME SinkInv, Api, UNCHANGED alertVars
    PROVE  EvalInv' /\ WorkerInv' /\ FireInv' /\ Accounted'
<1>1. EvalInv' /\ WorkerInv' /\ Accounted'
  BY Zenon DEF SinkInv, alertVars, evalVars, workVars, EvalInv, WorkerInv, Accounted, Busy
<1>2. DOMAIN row' = DOMAIN row
  BY ZenonT(60) DEF Api, SetIssueStatus, MergeIssues, SplitIssue
<1>3. ASSUME NEW g \in DOMAIN row PROVE row'[g].status = "regressed" => row[g].status = "regressed"
  <2>1. ASSUME NEW p, NEW f, NEW s \in SettableStatus, SetIssueStatus(p, f, s)
        PROVE  row'[g].status = "regressed" => row[g].status = "regressed"
    BY <2>1, Zenon DEF SetIssueStatus, SettableStatus, Row
  <2>2. ASSUME NEW p, NEW f, SplitIssue(p, f)
        PROVE  row'[g].status = "regressed" => row[g].status = "regressed"
    BY <2>2, Zenon DEF SplitIssue, Row
  <2>3. ASSUME NEW p, NEW f, NEW sources, MergeIssues(p, f, sources)
        PROVE  row'[g].status = row[g].status
    BY <2>3, Zenon DEF MergeIssues, Row
  <2> QED BY <2>1, <2>2, <2>3, Zenon DEF Api
<1>4. FireInv'
  <2>1. UNCHANGED <<epc, act, rules, missed, settled, queue, worker>>
    BY Zenon DEF alertVars, evalVars, workVars
  <2>2. (\A pair : Told(pair) => Told(pair)') /\ (\A i : Ahead(i) => Ahead(i)')
    BY <2>1, Zenon DEF Told, InHand, Busy, Ahead
  <2> QED BY <1>2, <1>3, <2>1, <2>2, Zenon DEF SinkInv, FireInv
<1> QED BY <1>1, <1>4, Zenon

\* Evaluate has read the rules, and has all of them ahead, or could not.
LEMMA EvaluateBeginStep ==
    ASSUME SinkInv, EvaluateBegin \/ RulesUnreadable, UNCHANGED issueVars
    PROVE  EvalInv' /\ WorkerInv' /\ FireInv' /\ Accounted'
<1>1. /\ epc = "load" /\ row' = row
      /\ UNCHANGED <<cooldown, accepted, settled, queue, dropped>>
      /\ UNCHANGED <<worker, fails, open, delivered, dead>>
  BY Zenon DEF EvaluateBegin, RulesUnreadable, workVars, issueVars
<1>2. WorkerInv' /\ Accounted'
  BY <1>1, Zenon DEF SinkInv, WorkerInv, Accounted, Busy
<1>3. \A pair : Told(pair) => Told(pair)'
  BY <1>1, Zenon DEF Told, InHand, Busy
<1>4. Rule \in Seq(Nat) /\ Len(Rule) \in Nat /\ (Rule = <<>> => Len(Rule) = 0)
  BY AlertsAssumption
<1>5. act.issue \in Fingerprint
  BY <1>1, Zenon DEF SinkInv, EvalInv
<1>6. CASE EvaluateBegin /\ Rule # <<>>
  <2>1. epc' = "match" /\ rules' = Rule /\ act' = act /\ missed' = missed
    BY <1>6, Zenon DEF EvaluateBegin, Continue
  <2>2. \A i \in 1..Len(Rule) : i > Len(Rule) - Len(rules')
    BY <1>4, <2>1
  <2>3. EvalInv'
    BY <1>4, <1>5, <1>6, <2>1 DEF EvalInv
  <2>4. FireInv'
    BY <1>1, <1>3, <2>1, <2>2, Zenon DEF SinkInv, FireInv, Ahead
  <2> QED BY <1>2, <2>3, <2>4, Zenon
<1>7. CASE RulesUnreadable \/ (EvaluateBegin /\ Rule = <<>>)
  <2>1. epc' = "idle" /\ rules' = <<>> /\ missed \subseteq missed'
    BY <1>7, Zenon DEF EvaluateBegin, RulesUnreadable, Continue
  <2>2. EvalInv'
    BY <1>4, <2>1 DEF EvalInv
  <2>3. CASE RulesUnreadable
    <3>1. missed' = missed \cup {i \in {act.issue} : act.regressed}
      BY <2>3, Zenon DEF RulesUnreadable
    <3>2. FireInv'
      BY <1>1, <1>3, <3>1, Zenon DEF SinkInv, FireInv
    <3> QED BY <1>2, <2>2, <3>2, Zenon
  <2>4. CASE Rule = <<>>
    <3>1. 1..Len(Rule) = {}
      BY <1>4, <2>4
    <3>2. FireInv'
      BY <3>1, Zenon DEF FireInv
    <3> QED BY <1>2, <2>2, <3>2, Zenon
  <2> QED BY <1>7, <2>3, <2>4, Zenon
<1> QED BY <1>6, <1>7, Zenon

\* One turn of Evaluate's loop: its rule is the next one of Rule, and what
\* passes the cooldown is queued or counted as dropped.
LEMMA EvaluateRuleStep ==
    ASSUME SinkInv, EvaluateRule, UNCHANGED issueVars
    PROVE  EvalInv' /\ WorkerInv' /\ FireInv' /\ Accounted'
<1> DEFINE r == Head(rules)
           k == Len(Rule) - Len(rules) + 1
           n == [rule |-> r, issue |-> act.issue]
<1>1. /\ rules \in Seq(Nat) /\ rules # <<>> /\ rules' = Tail(rules)
      /\ epc = "match" /\ epc' = IF rules' = <<>> THEN "idle" ELSE "match"
      /\ UNCHANGED <<missed, workVars, row>>
  BY Zenon DEF EvaluateRule, Continue, SinkInv, EvalInv, issueVars
<1>a. Pair(n) = <<r, act.issue>> /\ n.rule = r
  BY Zenon DEF Pair
<1>b. \/ Matches(r, act) /\ accepted' = accepted + 1 /\ Enqueue(n)
      \/ /\ Matches(r, act) /\ settled' = settled \cup {Pair(n)}
         /\ UNCHANGED <<accepted, queue, dropped>>
      \/ ~Matches(r, act) /\ UNCHANGED <<accepted, settled, queue, dropped>>
  BY <1>a, Zenon DEF EvaluateRule
<1>2. /\ Len(rules) > 0 /\ Len(rules') = Len(rules) - 1 /\ rules' \in Seq(Nat)
      /\ \A j \in 1..Len(rules') : rules'[j] = rules[j + 1]
  BY <1>1
<1>3. r \in Nat /\ act.issue \in Fingerprint /\ k \in 1..Len(Rule) /\ r = Rule[k]
  BY <1>1, <1>2, AlertsAssumption DEF SinkInv, EvalInv
<1>4. rules' # <<>> => act' = act
  BY Zenon DEF EvaluateRule, Continue
<1>c. n \in Notification /\ queue \in Seq(Notification)
  BY <1>3, Zenon DEF Notification, SinkInv, WorkerInv
<1> HIDE DEF n
<1>d. /\ \A pair : Told(pair) => Told(pair)'
      /\ Matches(r, act) => \A pair : pair = Pair(n) => Told(pair)'
  <2>1. UNCHANGED worker
    BY <1>1, Zenon DEF workVars
  <2>2. CASE queue' = Append(queue, n) /\ settled' = settled
    <3>1. /\ \A i \in DOMAIN queue : i \in DOMAIN queue' /\ queue'[i] = queue[i]
          /\ Len(queue) + 1 \in DOMAIN queue' /\ queue'[Len(queue) + 1] = n
      BY <1>c, <2>2
    <3> QED BY <2>1, <2>2, <3>1, Zenon DEF Told, InHand, Busy
  <2>3. CASE queue' = queue /\ settled' = settled \cup {Pair(n)}
    BY <2>1, <2>3, Zenon DEF Told, InHand, Busy
  <2>4. CASE ~Matches(r, act) /\ UNCHANGED <<settled, queue>>
    BY <2>1, <2>4, Zenon DEF Told, InHand, Busy
  <2> QED BY <1>b, <2>2, <2>3, <2>4, Zenon DEF Enqueue
<1>5. EvalInv'
  <2>1. ASSUME NEW j \in 1..Len(rules') PROVE rules'[j] = Rule[Len(Rule) - Len(rules') + j]
    <3>1. /\ j + 1 \in 1..Len(rules) /\ rules'[j] = rules[j + 1]
          /\ Len(Rule) - Len(rules) + (j + 1) = Len(Rule) - Len(rules') + j
      BY <1>1, <1>2, AlertsAssumption
    <3> QED BY <3>1, Zenon DEF SinkInv, EvalInv
  <2>2. Len(rules) <= Len(Rule) /\ Len(Rule) \in Nat
    BY AlertsAssumption DEF SinkInv, EvalInv
  <2>3. Len(rules') <= Len(Rule)
    BY <1>1, <1>2, <2>2
  <2> QED BY <1>1, <1>2, <1>3, <1>4, <2>1, <2>3, Zenon DEF EvalInv
<1>6. FireInv'
  <2> SUFFICES ASSUME NEW f \in DOMAIN row \ missed, NEW i \in 1..Len(Rule),
                      row[f].status = "regressed", Condition[Rule[i]] = "regression"
               PROVE  Told(<<Rule[i], f>>)' \/ (act'.issue = f /\ act'.regressed /\ Ahead(i)')
    BY <1>1, Zenon DEF FireInv
  <2>1. CASE Told(<<Rule[i], f>>)
    BY <1>d, <2>1, Zenon
  <2>2. CASE ~Told(<<Rule[i], f>>)
    <3>1. i > Len(Rule) - Len(rules) /\ act.issue = f /\ act.regressed
      BY <1>1, <2>2, Zenon DEF SinkInv, FireInv, Ahead
    <3>2. CASE i = k
      <4>1. Matches(r, act)
        BY <1>3, <3>1, <3>2, Zenon DEF Matches
      <4> QED BY <1>3, <1>a, <1>d, <3>1, <3>2, <4>1, Zenon
    <3>3. CASE i # k
      <4>1. Len(Rule) \in Nat /\ Len(rules) \in Nat
        BY <1>1, AlertsAssumption
      <4>a. \A L, R \in Nat : i \in 1..L /\ i > L - R /\ i # L - R + 1 => i > L - (R - 1) /\ R - 1 > 0
        OBVIOUS
      <4>2. i > Len(Rule) - Len(rules') /\ Len(rules') > 0
        BY <1>2, <3>1, <3>3, <4>1, <4>a, Zenon
      <4>3. rules' # <<>>
        BY <4>2
      <4> QED BY <1>1, <1>4, <3>1, <4>2, <4>3, Zenon DEF Ahead
    <3> QED BY <3>2, <3>3, Zenon
  <2> QED BY <2>1, <2>2, Zenon
<1>7. WorkerInv' /\ Accounted'
  <2>1. \/ accepted' = accepted + 1 /\ Enqueue(n)
        \/ UNCHANGED <<accepted, queue, dropped>>
    BY <1>b, Zenon
  <2>2. n \in Notification
    BY <1>c, Zenon
  <2>3. queue \in Seq(Notification) /\ accepted \in Nat /\ dropped \in Nat
    BY Zenon DEF SinkInv, WorkerInv
  <2>4. /\ queue' \in Seq(Notification) /\ accepted' \in Nat /\ dropped' \in Nat
        /\ \/ accepted' = accepted + 1 /\ Len(queue') = Len(queue) + 1 /\ dropped' = dropped
           \/ accepted' = accepted + 1 /\ Len(queue') = Len(queue) /\ dropped' = dropped + 1
           \/ accepted' = accepted /\ Len(queue') = Len(queue) /\ dropped' = dropped
    <3>1. CASE UNCHANGED <<accepted, queue, dropped>>
      BY <2>3, <3>1, Zenon
    <3>2. CASE accepted' = accepted + 1 /\ queue' = Append(queue, n) /\ dropped' = dropped
      BY <2>2, <2>3, <3>2
    <3>3. CASE accepted' = accepted + 1 /\ dropped' = dropped + 1 /\ queue' = queue
      BY <2>3, <3>3
    <3> QED BY <2>1, <3>1, <3>2, <3>3, Zenon DEF Enqueue
  <2>5. UNCHANGED <<worker, delivered, dead>>
    BY <1>1, Zenon DEF workVars
  <2>6. WorkerInv'
    BY <2>4, <2>5, Zenon DEF SinkInv, WorkerInv
  <2>7. Cardinality({w \in Worker : Busy(w)}) \in Nat
    BY FS_CardinalityType, FS_Subset, AlertsAssumption, Zenon
  <2>8. Accounted'
    <3>1. Len(queue) \in Nat /\ Len(queue') \in Nat /\ delivered \in Nat /\ dead \in Nat
      BY <2>3, <2>4 DEF SinkInv, WorkerInv
    <3> DEFINE b == Cardinality({w \in Worker : Busy(w)})
    <3>2. accepted = Len(queue) + b + delivered + dropped + dead
      BY Zenon DEF SinkInv, Accounted
    <3>3. Accounted' <=> accepted' = Len(queue') + b + delivered + dropped' + dead
      BY <2>5, Zenon DEF Accounted, Busy
    <3> HIDE DEF b
    <3>4. b \in Nat
      BY <2>7, Zenon DEF b
    <3>5. accepted' = Len(queue') + b + delivered + dropped' + dead
      <4>1. CASE accepted' = accepted + 1 /\ Len(queue') = Len(queue) + 1 /\ dropped' = dropped
        BY <2>3, <3>1, <3>2, <3>4, <4>1
      <4>2. CASE accepted' = accepted + 1 /\ Len(queue') = Len(queue) /\ dropped' = dropped + 1
        BY <2>3, <3>1, <3>2, <3>4, <4>2
      <4>3. CASE accepted' = accepted /\ Len(queue') = Len(queue) /\ dropped' = dropped
        BY <2>3, <3>1, <3>2, <3>4, <4>3, Zenon
      <4> QED BY <2>4, <4>1, <4>2, <4>3, Zenon
    <3> QED BY <3>3, <3>5, Zenon
  <2> QED BY <2>6, <2>8, Zenon
<1> QED BY <1>5, <1>6, <1>7, Zenon

----------------------------------------------------------------------------
\* The busy workers when one of them changes.
LEMMA BusyCount ==
    ASSUME NEW w \in Worker, \A v \in Worker \ {w} : worker'[v] = worker[v]
    PROVE  LET n == Cardinality({v \in Worker : Busy(v)})
               m == Cardinality({v \in Worker : Busy(v)'})
           IN  /\ n \in Nat /\ m \in Nat
               /\ worker[w] # Idle /\ worker'[w] # Idle => m = n
               /\ worker[w] = Idle /\ worker'[w] # Idle => m = n + 1
               /\ worker[w] # Idle /\ worker'[w] = Idle => m = n - 1
<1> DEFINE B == {v \in Worker : Busy(v)}
           C == {v \in Worker : Busy(v)'}
<1>1. IsFiniteSet(B) /\ IsFiniteSet(C)
  BY FS_Subset, AlertsAssumption, Zenon
<1>2. Cardinality(B) \in Nat /\ Cardinality(C) \in Nat
  BY <1>1, FS_CardinalityType, Zenon
<1>3. w \in B <=> worker[w] # Idle
  BY Zenon DEF Busy
<1>4. w \in C <=> worker'[w] # Idle
  BY Zenon DEF Busy, Idle
<1>5. \A v \in Worker \ {w} : v \in B <=> v \in C
  BY Zenon DEF Busy, Idle
<1> HIDE DEF B, C
<1>6. CASE w \in B /\ w \in C
  <2>1. B = C
    BY <1>5, <1>6, Zenon DEF B, C
  <2> QED BY <1>2, <1>3, <1>4, <1>6, <2>1, Zenon DEF B, C
<1>7. CASE w \notin B /\ w \in C
  <2>1. C = B \cup {w}
    BY <1>5, <1>7, Zenon DEF B, C
  <2>2. Cardinality(C) = Cardinality(B) + 1
    BY <1>1, <1>7, <2>1, FS_AddElement, Zenon
  <2> QED BY <1>2, <1>3, <1>4, <1>7, <2>2, Zenon DEF B, C
<1>8. CASE w \in B /\ w \notin C
  <2>1. C = B \ {w}
    BY <1>5, <1>8, Zenon DEF B, C
  <2>2. Cardinality(C) = Cardinality(B) - 1
    BY <1>1, <1>8, <2>1, FS_RemoveElement, Zenon
  <2> QED BY <1>2, <1>3, <1>4, <1>8, <2>2, Zenon DEF B, C
<1> QED BY <1>2, <1>3, <1>4, <1>6, <1>7, <1>8, ZenonT(60) DEF B, C

\* A worker takes a notification off the queue, tries to deliver it, and is
\* done with it by a success or in the dead-letter ring.
LEMMA DeliverStep ==
    ASSUME SinkInv, NEW w \in Worker, Deliver(w)
    PROVE  WorkerInv' /\ Accounted'
<1> DEFINE n == Cardinality({v \in Worker : Busy(v)})
           m == Cardinality({v \in Worker : Busy(v)'})
<1>1. /\ queue \in Seq(Notification) /\ Len(queue) \in Nat
      /\ worker \in [Worker -> Delivery]
      /\ \A v \in Worker : worker[v].n = Nothing => worker[v] = Idle
      /\ delivered \in Nat /\ dropped \in Nat /\ dead \in Nat /\ accepted \in Nat
      /\ accepted = Len(queue) + n + delivered + dropped + dead
  BY DEF SinkInv, WorkerInv, Accounted
<1> HIDE DEF n, m
<1>2. Accounted' <=> accepted' = Len(queue') + m + delivered' + dropped' + dead'
  BY Zenon DEF Accounted, m, Busy, Idle
<1>3. ASSUME NEW x \in Delivery,
             worker' = [worker EXCEPT ![w] = x], x.n = Nothing => x = Idle,
             queue' \in Seq(Notification), delivered' \in Nat, dead' \in Nat,
             UNCHANGED <<dropped, accepted>>
      PROVE  /\ WorkerInv' /\ n \in Nat /\ m \in Nat
             /\ worker[w] # Idle /\ x # Idle => m = n
             /\ worker[w] = Idle /\ x # Idle => m = n + 1
             /\ worker[w] # Idle /\ x = Idle => m = n - 1
  <2>1. worker'[w] = x /\ \A v \in Worker \ {w} : worker'[v] = worker[v]
    BY <1>1, <1>3, Zenon
  <2>2. WorkerInv'
    BY <1>1, <1>3, <2>1, Zenon DEF WorkerInv, Idle
  <2> QED BY <2>1, <2>2, BusyCount, Zenon DEF n, m
<1>4. Idle \in Delivery
  BY Zenon DEF Idle, Delivery
<1>5. CASE Dequeue(w)
  <2> DEFINE x == [worker[w] EXCEPT !.n = Head(queue)]
  <2>1. /\ Head(queue) \in Notification /\ queue' = Tail(queue) /\ queue' \in Seq(Notification)
        /\ Len(queue') = Len(queue) - 1 /\ worker[w] = Idle
        /\ UNCHANGED <<dropped, accepted, delivered, dead>>
        /\ worker' = [worker EXCEPT ![w] = x]
    BY <1>1, <1>5 DEF Dequeue, evalVars
  <2>2. x.n # Nothing /\ x # Idle
    BY <2>1, SinkAssumption, Zenon DEF Notification, Idle
  <2>3. x \in Delivery
    BY <1>4, <2>1, Zenon DEF Delivery
  <2> HIDE DEF x
  <2>4. WorkerInv' /\ n \in Nat /\ m = n + 1
    BY <1>1, <1>3, <2>1, <2>2, <2>3, ZenonT(60)
  <2> QED BY <1>1, <1>2, <2>1, <2>4
<1>6. CASE BreakerRefuses(w) \/ Post(w) \/ PostFails(w)
  <2>1. UNCHANGED <<queue, dropped, accepted, delivered, dead>>
    BY <1>6, Zenon DEF BreakerRefuses, Post, PostFails, evalVars
  <2>2. worker[w].n # Nothing /\ worker[w] # Idle
    BY <1>1, <1>6 DEF BreakerRefuses, Post, PostFails, Trying, Idle
  <2>3. ASSUME NEW x \in Delivery, x.n = worker[w].n, worker' = [worker EXCEPT ![w] = x]
        PROVE  WorkerInv' /\ Accounted'
    <3>1. x.n # Nothing /\ x # Idle
      BY <2>2, <2>3 DEF Idle
    <3>2. WorkerInv' /\ n \in Nat /\ m = n
      BY <1>1, <1>3, <2>1, <2>2, <2>3, <3>1, Zenon
    <3> QED BY <1>1, <1>2, <2>1, <3>2, ZenonT(60)
  <2>4. worker[w] \in Delivery
    BY <1>1, Zenon
  <2>5. CASE BreakerRefuses(w)
    <3> DEFINE x == [worker[w] EXCEPT !.attempt = @ + 1]
    <3>1. x \in Delivery /\ x.n = worker[w].n
      BY <2>4 DEF Delivery
    <3>2. worker' = [worker EXCEPT ![w] = x]
      BY <2>5, Zenon DEF BreakerRefuses
    <3> HIDE DEF x
    <3> QED BY <2>3, <3>1, <3>2, Zenon
  <2>6. CASE Post(w)
    <3> DEFINE x == [worker[w] EXCEPT !.posting = TRUE]
    <3>1. x \in Delivery /\ x.n = worker[w].n
      BY <2>4, Zenon DEF Delivery
    <3>2. worker' = [worker EXCEPT ![w] = x]
      BY <2>6, Zenon DEF Post
    <3> HIDE DEF x
    <3> QED BY <2>3, <3>1, <3>2, Zenon
  <2>7. CASE PostFails(w)
    <3> DEFINE y == [worker[w] EXCEPT !.posting = FALSE]
               x == [y EXCEPT !.attempt = @ + 1]
    <3>a. y \in Delivery /\ y.n = worker[w].n
      BY <2>4, Zenon DEF Delivery
    <3> HIDE DEF y
    <3>1. x \in Delivery /\ x.n = worker[w].n
      BY <3>a DEF Delivery
    <3>2. worker' = [worker EXCEPT ![w] = x]
      BY <2>7, Zenon DEF PostFails, y
    <3> HIDE DEF x
    <3> QED BY <2>3, <3>1, <3>2, Zenon
  <2> QED BY <1>6, <2>5, <2>6, <2>7, Zenon
<1>7. CASE PostSucceeds(w) \/ DeadLetter(w)
  <2>1. /\ worker' = [worker EXCEPT ![w] = Idle]
        /\ UNCHANGED <<queue, dropped, accepted>>
        /\ \/ delivered' = delivered + 1 /\ dead' = dead
           \/ dead' = dead + 1 /\ delivered' = delivered
    BY <1>7, Zenon DEF PostSucceeds, DeadLetter, evalVars
  <2>2. worker[w] # Idle
    BY <1>1, <1>7 DEF PostSucceeds, DeadLetter, Trying, Idle
  <2>3. queue' \in Seq(Notification) /\ delivered' \in Nat /\ dead' \in Nat
    BY <1>1, <2>1
  <2>4. WorkerInv' /\ n \in Nat /\ m = n - 1
    BY <1>3, <1>4, <2>1, <2>2, <2>3, Zenon
  <2> QED BY <1>1, <1>2, <2>1, <2>4
<1> QED BY <1>5, <1>6, <1>7, Zenon DEF Deliver

\* The workers forget no notification: it moves from the queue to a worker, stays
\* there from attempt to attempt, and has left the engine when the worker is idle.
LEMMA DeliverKeeps ==
    ASSUME SinkInv, NEW w \in Worker, Deliver(w)
    PROVE  \A pair : Told(pair) => Told(pair)'
<1> SUFFICES ASSUME NEW pair, Told(pair) PROVE Told(pair)'
  BY Zenon
<1>1. /\ queue \in Seq(Notification) /\ worker \in [Worker -> Delivery]
      /\ \A v \in Worker : worker[v].n = Nothing => worker[v] = Idle
  BY Zenon DEF SinkInv, WorkerInv
<1>2. CASE Dequeue(w)
  <2>1. /\ worker[w] = Idle /\ queue # <<>> /\ queue' = Tail(queue) /\ settled' = settled
        /\ worker' = [worker EXCEPT ![w].n = Head(queue)]
    BY <1>2, Zenon DEF Dequeue
  <2>2. /\ Head(queue) = queue[1] /\ Head(queue) \in Notification
        /\ \A i \in DOMAIN queue : i = 1 \/ (i - 1 \in DOMAIN queue' /\ queue'[i - 1] = queue[i])
    BY <1>1, <2>1
  <2>3. /\ \A v \in Worker : v # w => worker'[v] = worker[v]
        /\ worker'[w].n = queue[1]
    BY <1>1, <2>1, <2>2, Zenon DEF Delivery
  <2>4. worker'[w] # Idle
    <3>1. queue[1] # Nothing /\ Idle.n = Nothing
      BY <2>2, SinkAssumption, Zenon DEF Notification, Idle
    <3> QED BY <2>3, <3>1, Zenon
  <2>5. CASE pair \in settled
    BY <2>1, <2>5, Zenon DEF Told
  <2>6. ASSUME NEW i \in DOMAIN queue, Pair(queue[i]) = pair PROVE Told(pair)'
    <3>1. CASE i = 1
      <4>1. worker'[w] # Idle /\ Pair(worker'[w].n) = pair
        BY <2>3, <2>4, <2>6, <3>1, Zenon
      <4> QED BY <4>1, Zenon DEF Told, InHand, Busy, Idle, Pair
    <3>2. CASE i # 1
      <4>1. i - 1 \in DOMAIN queue' /\ Pair(queue'[i - 1]) = pair
        BY <2>2, <2>6, <3>2, Zenon
      <4> QED BY <4>1, Zenon DEF Told, InHand, Pair
    <3> QED BY <3>1, <3>2, Zenon
  <2>7. ASSUME NEW v \in Worker, Busy(v), Pair(worker[v].n) = pair PROVE Told(pair)'
    <3>1. worker'[v] = worker[v] /\ worker[v] # Idle
      BY <2>1, <2>3, <2>7, Zenon DEF Busy
    <3> QED BY <2>7, <3>1, Zenon DEF Told, InHand, Busy, Idle, Pair
  <2> QED BY <2>5, <2>6, <2>7, Zenon DEF Told, InHand
<1>3. CASE BreakerRefuses(w) \/ Post(w) \/ PostFails(w)
  <2>1. queue' = queue /\ settled' = settled
    BY <1>3, Zenon DEF BreakerRefuses, Post, PostFails
  <2>2. worker[w].n # Nothing /\ Idle.n = Nothing
    BY <1>1, <1>3 DEF BreakerRefuses, Post, PostFails, Trying, Idle
  <2>3. worker[w] \in Delivery
    BY <1>1, Zenon
  <2>4. worker'[w].n = worker[w].n /\ \A v \in Worker : v # w => worker'[v] = worker[v]
    <3>1. CASE BreakerRefuses(w)
      BY <1>1, <2>3, <3>1, Zenon DEF BreakerRefuses, Delivery
    <3>2. CASE Post(w)
      BY <1>1, <2>3, <3>2, Zenon DEF Post, Delivery
    <3>3. CASE PostFails(w)
      BY <1>1, <2>3, <3>3, ZenonT(60) DEF PostFails, Delivery
    <3> QED BY <1>3, <3>1, <3>2, <3>3, Zenon
  <2>5. \A v \in Worker : worker'[v].n = worker[v].n /\ (worker[v] # Idle => worker'[v] # Idle)
    BY <2>2, <2>4, Zenon
  <2> QED BY <2>1, <2>5, Zenon DEF Told, InHand, Busy, Pair, Idle
<1>4. CASE PostSucceeds(w) \/ DeadLetter(w)
  <2>1. /\ queue' = queue /\ settled' = settled \cup {Pair(worker[w].n)}
        /\ worker' = [worker EXCEPT ![w] = Idle]
    BY <1>4, Zenon DEF PostSucceeds, DeadLetter
  <2>2. \A v \in Worker : v # w => worker'[v] = worker[v]
    BY <1>1, <2>1, Zenon
  <2>3. pair \in settled' \/ (\E i \in DOMAIN queue' : Pair(queue'[i]) = pair)
          \/ \E v \in Worker : worker'[v] # Idle /\ Pair(worker'[v].n) = pair
    BY <2>1, <2>2, Zenon DEF Told, InHand, Busy
  <2> QED BY <2>3, Zenon DEF Told, InHand, Busy, Pair, Idle
<1> QED BY <1>2, <1>3, <1>4, Zenon DEF Deliver

\* The engine's steps leave Evaluate and the table alone.
LEMMA EngineStep ==
    ASSUME SinkInv, Engine, UNCHANGED issueVars
    PROVE  EvalInv' /\ WorkerInv' /\ FireInv' /\ Accounted'
<1>1. UNCHANGED <<row, epc, rules, act, missed>>
  BY ZenonT(60) DEF Engine, CooldownEnds, BreakerResets, Deliver, Dequeue, BreakerRefuses, Post,
         PostSucceeds, PostFails, DeadLetter, evalVars, issueVars
<1>a. \A pair : Told(pair) => Told(pair)'
  <2>1. CASE CooldownEnds \/ BreakerResets
    <3>1. UNCHANGED <<settled, queue, worker>>
      BY <2>1, Zenon DEF CooldownEnds, BreakerResets, workVars
    <3> QED BY <3>1, Zenon DEF Told, InHand, Busy
  <2> QED BY <2>1, DeliverKeeps, Zenon DEF Engine
<1>b. \A i : Ahead(i) => Ahead(i)'
  BY <1>1, Zenon DEF Ahead
<1>2. EvalInv' /\ FireInv'
  BY <1>1, <1>a, <1>b, Zenon DEF SinkInv, EvalInv, FireInv
<1>3. CASE CooldownEnds \/ BreakerResets
  <2>1. UNCHANGED <<queue, worker, delivered, dropped, dead, accepted>>
    BY <1>3, Zenon DEF CooldownEnds, BreakerResets, workVars, evalVars
  <2> QED BY <1>2, <2>1, Zenon DEF SinkInv, WorkerInv, Accounted, Busy
<1> QED BY <1>2, <1>3, DeliverStep, Zenon DEF Engine

\* The invariant of the sink, for any fingerprints, rules, workers and queue.
THEOREM SinkInvariance == SinkSpec => []SinkInv
<1>1. SinkInit => SinkInv
  <2> SUFFICES ASSUME SinkInit PROVE SinkInv
    BY Zenon
  <2>1. MergeInv /\ FireInv
    BY DEF SinkInit, IssuesInit, MergeInv, TableShape, OneHop, FireInv
  <2>2. EvalInv
    BY AlertsAssumption DEF SinkInit, AlertsInit, EvalInv
  <2>3. WorkerInv
    BY DEF SinkInit, AlertsInit, WorkerInv, Idle, Delivery
  <2>4. {w \in Worker : Busy(w)} = {}
    BY Zenon DEF SinkInit, AlertsInit, Busy
  <2>5. Cardinality({w \in Worker : Busy(w)}) = 0
    BY <2>4, FS_EmptySet, Zenon
  <2>6. Accounted
    BY <2>5 DEF SinkInit, AlertsInit, Accounted
  <2> QED BY <2>1, <2>2, <2>3, <2>6, ZenonT(60) DEF SinkInv
<1>2. SinkInv /\ [SinkNext]_sinkVars => SinkInv'
  <2> SUFFICES ASSUME SinkInv, [SinkNext]_sinkVars PROVE SinkInv'
    BY Zenon
  <2>1. MergeInv'
    BY IssuesStep, Zenon DEF SinkInv, SinkNext, SinkUpsert, SinkAbandoned, IssuesNext, sinkVars
  <2>2. CASE UNCHANGED sinkVars
    <3>1. /\ UNCHANGED <<row, epc, act, rules, missed, settled, queue, worker>>
          /\ UNCHANGED <<delivered, dropped, dead, accepted>>
      BY <2>2, Zenon DEF sinkVars, issueVars, alertVars, evalVars, workVars
    <3>2. EvalInv' /\ WorkerInv' /\ Accounted'
      BY <3>1, Zenon DEF SinkInv, EvalInv, WorkerInv, Accounted, Busy
    <3>3. (\A pair : Told(pair) => Told(pair)') /\ (\A i : Ahead(i) => Ahead(i)')
      BY <3>1, Zenon DEF Told, InHand, Busy, Ahead
    <3>4. FireInv'
      BY <3>1, <3>3, Zenon DEF SinkInv, FireInv
    <3> QED BY <2>1, <3>2, <3>4, Zenon DEF SinkInv
  <2>3. CASE SinkNext
    BY <2>1, <2>3, SinkUpsertStep, SinkAbandonedStep, ApiStep, EvaluateBeginStep, EvaluateRuleStep,
       EngineStep, Zenon DEF SinkNext, Evaluate, SinkInv
  <2> QED BY <2>2, <2>3, Zenon
<1> QED BY <1>1, <1>2, PTL DEF SinkSpec

\* Every regression Evaluate is called for with rules it can read is told, through a
\* merge too: the notification is in the engine, or it has left it since and is
\* counted (issueSink, Evaluate, enqueue, deliver).
THEOREM RegressionsFire == SinkSpec => []AlertsFire
<1>1. SinkInv => AlertsFire
  <2> SUFFICES ASSUME SinkInv, epc = "idle", NEW i \in DOMAIN Rule,
                      NEW f \in DOMAIN row \ missed,
                      Condition[Rule[i]] = "regression", row[f].status = "regressed"
               PROVE  InHand(<<Rule[i], f>>) \/ <<Rule[i], f>> \in settled
    BY Zenon DEF AlertsFire
  <2>1. i \in 1..Len(Rule)
    BY AlertsAssumption
  <2> QED BY <2>1, Zenon DEF SinkInv, FireInv, Told, Ahead
<1> QED BY <1>1, SinkInvariance, PTL

\* "counted, never silent" (Enqueue, deliver): what passed the cooldown is in
\* one place, and every way out of the engine is counted.
THEOREM NothingSilent == SinkSpec => []Accounted
<1>1. SinkInv => Accounted
  BY Zenon DEF SinkInv
<1> QED BY <1>1, SinkInvariance, PTL
====
