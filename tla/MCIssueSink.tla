---- MODULE MCIssueSink ----
(* Three fingerprints of one project, a rule for regressions. *)
EXTENDS IssueSink, Grouping, SequencesExt

CONSTANTS p1, w1, w2

MCNormalSymbol ==
    [s \in {"", "T", "T$1", "U", "f", "g", "h", "app", "lib"} |->
        IF s = "" THEN "<unknown>" ELSE IF s = "T$1" THEN "T" ELSE s]
MCNormalMessage == [s \in {"", "v1", "v2"} |-> IF s = "" THEN s ELSE "v<num>"]
MCNormalPath == [s \in {"src", "lib"} |-> s]
MCGlobMatch == {<<"T*", "T">>, <<"T*", "T$1">>, <<"v*", "v1">>, <<"v*", "v2">>, <<"src*", "src">>}

SentryEvent(parts, excs, message) ==
    [platform |-> "go", fingerprint |-> parts, exceptions |-> excs, message |-> message,
     logentry |-> [formatted |-> "", message |-> ""]]

\* The second event groups with the first.
MCEvents ==
    {SentryEvent(<<>>, <<[type |-> "T", value |-> "v1", frames |-> <<Frame("app", "f", "", {})>>]>>, ""),
     SentryEvent(<<>>, <<[type |-> "T$1", value |-> "v2",
                          frames |-> <<Frame("", "g", "lib", {}), Frame("app", "f", "", {})>>]>>, "v1"),
     SentryEvent(<<>>, <<>>, "v1"),
     SentryEvent(<<"a">>, <<>>, "v1")}

MCFingerprint == {IssueOf(se) : se \in MCEvents}
MCProject == [f \in MCFingerprint |-> p1]
MCRule == <<1>>
MCCondition == <<"regression">>

----------------------------------------------------------------------------
\* Events share an issue exactly if their cause is the same: what churns between
\* two occurrences of an error has no part in the fingerprint (grouping.go), and
\* what tells two errors apart has one.  This depends on no state, and is looked
\* at once, in the initial state.
GroupsByCause == SinkInit => NoiseIgnored /\ CauseSeparates /\ RulesOverride
====
