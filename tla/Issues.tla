---- MODULE Issues ----
(***************************************************************************)
(* internal/metadata/issues.go: the issues table and the transactions that *)
(* change it.  The writer goroutine of the metadata database runs one      *)
(* transaction at a time and rolls a failed one back, so a transaction is  *)
(* one step and one that returns an error is none.                         *)
(*                                                                         *)
(* UNIQUE(project_id, fingerprint) makes the fingerprint the identity of   *)
(* an issue: the row of fingerprint f, of project Project[f].              *)
(***************************************************************************)
EXTENDS Naturals, Sequences, FiniteSetsExt

CONSTANTS
    Fingerprint, \* fingerprints, each of one project
    Project,     \* the project of each fingerprint
    None,        \* merged_into IS NULL
    MaxHits,     \* bound: events received
    MaxMerges    \* bound: merges

ASSUME IssuesAssumption ==
    None \notin Fingerprint /\ MaxHits \in Nat /\ MaxMerges \in Nat

VARIABLES
    row,    \* the table: a function of the fingerprints that have an issue
    hits,   \* events upserted so far
    merges  \* merges so far

issueVars == <<row, hits, merges>>

Status == {"unresolved", "resolved", "ignored", "regressed"}
SettableStatus == {"unresolved", "resolved", "ignored"}

IssuesTypeOK ==
    /\ DOMAIN row \subseteq Fingerprint
    /\ \A f \in DOMAIN row :
          /\ DOMAIN row[f] = {"status", "seen", "into"}
          /\ row[f].status \in Status
          /\ row[f].seen \in Nat \ {0}
          /\ row[f].into \in DOMAIN row \cup {None}
    /\ hits \in Nat /\ merges \in Nat

IssuesInit == row = <<>> /\ hits = 0 /\ merges = 0

Row(status, seen, into) == [status |-> status, seen |-> seen, into |-> into]

NewIssue == Row("unresolved", 1, None)

\* The row an event of fingerprint f counts into: one hop, no chase loop.
Target(f) == IF row[f].into = None THEN f ELSE row[f].into

Regress(status) == IF status = "resolved" THEN "regressed" ELSE status

\* Mutant: the status that decides about regression is the merged row's.
UpsertIssueOwnStatus(f) ==
    /\ hits < MaxHits
    /\ row' = IF f \in DOMAIN row
              THEN [row EXCEPT ![Target(f)].seen = @ + 1,
                               ![f].status = Regress(@)]
              ELSE [g \in DOMAIN row \cup {f} |-> IF g = f THEN NewIssue ELSE row[g]]
    /\ hits' = hits + 1
    /\ UNCHANGED merges

\* Count an event: insert on first sight, else count into the target, which
\* regresses when it was resolved.
UpsertIssue(f) ==
    /\ hits < MaxHits
    /\ row' = IF f \in DOMAIN row
              THEN [row EXCEPT ![Target(f)] = Row(Regress(@.status), @.seen + 1, @.into)]
              ELSE [g \in DOMAIN row \cup {f} |-> IF g = f THEN NewIssue ELSE row[g]]
    /\ hits' = hits + 1
    /\ UNCHANGED merges

\* Any issue of the project, a merged one too.
SetIssueStatus(p, f, status) ==
    /\ f \in DOMAIN row /\ Project[f] = p
    /\ row' = [row EXCEPT ![f] = Row(status, @.seen, @.into)]
    /\ UNCHANGED <<hits, merges>>

\* The sum MergeIssues adds up, source by source, duplicates included.
SeenWith(t, sources) ==
    row[t].seen + SumFunction([i \in DOMAIN sources |-> row[sources[i]].seen])

\* Mutant: what was merged into a source keeps pointing at it.
RepointedNot(t, sources) ==
    [f \in DOMAIN row |-> IF f \in Range(sources) THEN t ELSE row[f].into]

\* merged_into after the loop: the sources, and whatever was merged into one.
Repointed(t, sources) ==
    [f \in DOMAIN row |->
        IF f \in Range(sources) \/ row[f].into \in Range(sources) THEN t ELSE row[f].into]

\* Mutant: the sources disappear from the stream and their events with them.
MergeIssuesUncounted(p, t, sources) ==
    /\ merges < MaxMerges
    /\ {t} \cup Range(sources) \subseteq {f \in DOMAIN row : Project[f] = p}
    /\ row[t].into = None /\ t \notin Range(sources)
    /\ row' = [f \in DOMAIN row |-> [row[f] EXCEPT !.into = Repointed(t, sources)[f]]]
    /\ merges' = merges + 1
    /\ UNCHANGED hits

MergeIssues(p, t, sources) ==
    /\ merges < MaxMerges
    /\ {t} \cup Range(sources) \subseteq {f \in DOMAIN row : Project[f] = p}
    /\ row[t].into = None /\ t \notin Range(sources)
    /\ row' = [f \in DOMAIN row |->
                  Row(row[f].status,
                      IF f = t THEN SeenWith(t, sources) ELSE row[f].seen,
                      Repointed(t, sources)[f])]
    /\ merges' = merges + 1
    /\ UNCHANGED hits

\* Its events so far stay counted in the target.
SplitIssue(p, f) ==
    /\ f \in DOMAIN row /\ Project[f] = p /\ row[f].into # None
    /\ row' = [row EXCEPT ![f] = Row("unresolved", @.seen, None)]
    /\ UNCHANGED <<hits, merges>>

\* ListIssues, without a filter: merged issues are not in the stream.
Listed == {f \in DOMAIN row : row[f].into = None}

\* The requests of the API: a merge names one or two sources.
Sources == {<<f>> : f \in Fingerprint} \cup (Fingerprint \X Fingerprint)

Api ==
    \E p \in {Project[g] : g \in Fingerprint}, f \in Fingerprint :
        \/ \E s \in SettableStatus : SetIssueStatus(p, f, s)
        \/ \E sources \in Sources : MergeIssues(p, f, sources)
        \/ SplitIssue(p, f)

IssuesNext == Api \/ \E f \in Fingerprint : UpsertIssue(f)

IssuesSpec == IssuesInit /\ [][IssuesNext]_issueVars

----------------------------------------------------------------------------
\* "merged_into is always one hop deep" (MergeIssues): an issue is merged into
\* one that is itself in the stream, of the same project.
OneHop ==
    \A f \in DOMAIN row : row[f].into # None =>
        row[f].into \in Listed /\ Project[row[f].into] = Project[f]

\* Merging and splitting hide no event: the issues in the stream count at least
\* every event received.
NoneLost == hits <= MapThenSumSet(LAMBDA f : row[f].seen, Listed)

\* "A resolved issue seeing a new event becomes regressed (never silently
\* resolved)", through a merge too: the issue an event is counted in is in the
\* stream and not resolved.
HitShows ==
    [][hits' # hits =>
        \E f \in Listed' : /\ row'[f].status # "resolved"
                           /\ f \in DOMAIN row => row'[f].seen = row[f].seen + 1]_issueVars

\* An event is counted once: no issue has more of them than were received.
CountedOnce == \A f \in DOMAIN row : row[f].seen <= hits
====
