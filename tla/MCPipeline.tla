---- MODULE MCPipeline ----
(* Instances of Pipeline for TLC, whose records are envelopes. *)
EXTENDS PipelineProofs, Envelope

\* Two partitions; e1 is the oldest event of its partition but not sent first.
MCEvent == {"e1", "e2", "e3", "e4"}
MCPart == [e \in MCEvent |-> IF e = "e3" THEN 2 ELSE 1]
MCTs == [e \in MCEvent |-> CASE e = "e1" -> 2 [] e \in {"e2", "e3"} -> 1 [] e = "e4" -> 3]

MCNormalId == [id \in {"", "e1", "e2", "e3", "E-3"} |-> IF id = "E-3" THEN "e3" ELSE id]

Item(type, payload) == [type |-> type, payload |-> payload, prefixed |-> TRUE, gap |-> <<>>]

\* One envelope whose header has the id of its event, and one with an item of an
\* unknown type and, last, an event without an id, or garbage if events may be bad.
MCEnvelopes ==
    {Written("e1", <<Item("event", <<Object("", "", {})>>),
                     Item("transaction", <<Object("E-3", "", {}), Nl>>)>>, TRUE),
     Written("", <<Item("other", <<Object("e3", "event", {}), Nl>>),
                   Item("event", <<Object("e2", "", {})>>),
                   Item("event", IF Bad = {} THEN <<Object("", "", {})>> ELSE <<Garbage>>)>>, FALSE)}

\* The event without an id, or that is garbage, is e4.
NamesOf(events) ==
    [j \in DOMAIN events |->
        IF ~events[j].ok THEN "e4" ELSE IF events[j].id = "" THEN "e4" ELSE events[j].id]

MCBodies == {NamesOf(EventsOf("envelope", in)) : in \in MCEnvelopes}

----------------------------------------------------------------------------
(* What the records are made with depends on no state: it is looked at once,  *)
(* in the initial state.                                                     *)

\* Parse (envelope.go) is exact: it returns what a client wrote, and it returns
\* nothing that a client could not have written.
ParseExact == Init => WrittenIsRead /\ ReadCanBeWritten
====
