---- MODULE IssueSink ----
(***************************************************************************)
(* cmd/leser, issueSink: the consumer's IssueSink counts an event into its *)
(* issue and hands the outcome to the alert engine, while the API merges,  *)
(* splits and resolves issues and the engine's workers deliver.            *)
(***************************************************************************)
EXTENDS Issues, Alerts

ASSUME SinkAssumption == Nothing \notin [rule : Nat, issue : Fingerprint]

sinkVars == <<issueVars, alertVars>>

\* Mutant: the outcome names the event's own issue, not the merge target.
OutcomeUnmerged(f) ==
    [issue |-> f, isNew |-> f \notin DOMAIN row,
     regressed |-> f \in DOMAIN row /\ row[Target(f)].status = "resolved",
     seen |-> row'[f].seen]

\* The IssueOutcome of the upsert, as Evaluate's IssueActivity.
Outcome(f) ==
    LET t == IF f \in DOMAIN row THEN Target(f) ELSE f
    IN  [issue |-> t, isNew |-> f \notin DOMAIN row,
         regressed |-> f \in DOMAIN row /\ row[t].status = "resolved",
         seen |-> row'[t].seen]

\* Upserted and answered; Evaluate is called.
SinkUpsert(f) ==
    /\ epc = "idle"
    /\ UpsertIssue(f)
    /\ epc' = "load" /\ act' = Outcome(f)
    /\ missed' = missed \ {g \in {act'.issue} : act'.regressed}
    /\ settled' = settled \ {pair \in settled : act'.regressed /\ pair[2] = act'.issue}
    /\ UNCHANGED <<rules, cooldown, accepted, queue, dropped, workVars>>

\* Write gave up waiting when the context ended (db.go:95), and the writer goroutine
\* committed the upsert all the same, before any later one: UpsertIssue returned the
\* error, and Evaluate is not called.
SinkAbandoned(f) ==
    /\ epc = "idle"
    /\ UpsertIssue(f)
    /\ missed' = missed \cup {g \in {Outcome(f).issue} : Outcome(f).regressed}
    /\ UNCHANGED <<epc, act, rules, cooldown, accepted, settled, queue, dropped, workVars>>

SinkInit == IssuesInit /\ AlertsInit

SinkNext ==
    \/ \E f \in Fingerprint : SinkUpsert(f) \/ SinkAbandoned(f)
    \/ Api /\ UNCHANGED alertVars
    \/ (Evaluate \/ Engine) /\ UNCHANGED issueVars

SinkSpec == SinkInit /\ [][SinkNext]_sinkVars

(* Evaluate and each worker's goroutine keep running.                        *)
SinkLiveSpec ==
    /\ SinkSpec
    /\ WF_sinkVars(Evaluate /\ UNCHANGED issueVars)
    /\ \A w \in Worker : WF_sinkVars(Deliver(w) /\ UNCHANGED issueVars)

----------------------------------------------------------------------------
\* Every regression Evaluate is called for with rules it can read is told, also
\* when the event came in under an issue merged into the one that regresses, and
\* whatever the API and the workers do meanwhile: once the consumer is past it, each
\* rule for regressions has a notification of the issue in the queue, with a worker
\* or, since the issue regressed, delivered, dead-lettered, counted as dropped or
\* held back by its cooldown.
AlertsFire ==
    epc = "idle" =>
        \A i \in DOMAIN Rule, f \in DOMAIN row \ missed :
            Condition[Rule[i]] = "regression" /\ row[f].status = "regressed"
                => InHand(<<Rule[i], f>>) \/ <<Rule[i], f>> \in settled
====
