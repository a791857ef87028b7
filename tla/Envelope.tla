---- MODULE Envelope ----
(***************************************************************************)
(* internal/ingest/envelope.go and the first half of process: from the     *)
(* body of a record to its events.  A body is a sequence of symbols: a     *)
(* newline, a blank, a JSON object, or bytes that are no JSON.  A length   *)
(* counts symbols.  A JSON object is the fields the code reads, and decodes *)
(* as header, as item header and as event, wherever it stands.             *)
(***************************************************************************)
EXTENDS Integers, SequencesExt

CONSTANTS
    MaxItems,     \* Limits.MaxItems
    MaxItemBytes, \* Limits.MaxItemBytes
    NormalId,     \* an event_id in lower case without dashes
    MaxWritten, MaxBody \* bounds: items of the written and symbols of the other bodies checked

Nl == [kind |-> "newline"]
Sp == [kind |-> "blank"]
Garbage == [kind |-> "garbage"]
Object(id, type, length) == [kind |-> "object", event_id |-> id, type |-> type, length |-> length]

AcceptedTypes == {"event", "transaction", "attachment", "session", "client_report", "check_in"}

----------------------------------------------------------------------------
(* Parse.                                                                    *)

\* readLine from k: the place of the next newline, or past the end.
LineEnd(in, k) ==
    LET ends == {j \in k..Len(in) : in[j] = Nl}
    IN  IF ends = {} THEN Len(in) + 1 ELSE Min(ends)

\* bytes.TrimSpace, which json.Unmarshal does too.
Trim(s) == SelectSeq(s, LAMBDA y : y.kind \notin {"newline", "blank"})
IsObject(s) == Len(Trim(s)) = 1 /\ Trim(s)[1].kind = "object"

Malformed == [ok |-> FALSE]

\* Mutant: a payload always ends at a newline.
PayloadToNewline(in, k, length) ==
    LET end == LineEnd(in, k)
    IN  [ok |-> TRUE, bytes |-> SubSeq(in, k, end - 1), next |-> end + 1]

\* The payload of an item whose header ends before k: so many bytes and a newline,
\* or up to a newline.  Where the newline ends the payload it counts for its size.
Payload(in, k, length) ==
    LET n == CHOOSE n \in length : TRUE
        end == IF length = {} THEN LineEnd(in, k) ELSE k + n
        size == IF length # {} THEN n ELSE IF end <= Len(in) THEN end - k + 1 ELSE end - k
    IN  IF /\ size \in 0..MaxItemBytes
           /\ end <= Len(in) + 1
           /\ end <= Len(in) => in[end] = Nl
        THEN [ok |-> TRUE, bytes |-> SubSeq(in, k, end - 1), next |-> end + 1]
        ELSE Malformed

\* The loop of Parse: what is read from k on, after n accepted items.
ItemsFrom(in) ==
    LET from[k \in 1..(Len(in) + 2), n \in 0..MaxItems] ==
        LET end == LineEnd(in, k)
            line == SubSeq(in, k, end - 1)
            ih == Trim(line)[1]
            p == Payload(in, IF end <= Len(in) THEN end + 1 ELSE end, ih.length)
            known == ih.type \in AcceptedTypes
            after == from[p.next, IF known THEN n + 1 ELSE n]
        IN  IF Trim(line) = <<>> THEN
                 IF end > Len(in) THEN [ok |-> TRUE, items |-> <<>>] ELSE from[end + 1, n]
            ELSE IF n = MaxItems \/ ~IsObject(line) THEN Malformed
            ELSE IF ih.type = "" \/ ~p.ok THEN Malformed
            ELSE IF ~known \/ ~after.ok THEN after
            ELSE [ok |-> TRUE, items |-> <<[type |-> ih.type, payload |-> p.bytes]>> \o after.items]
    IN  from

\* A header line without a newline is an error even if it is whole.
Parse(in) ==
    LET end == LineEnd(in, 1)
        line == SubSeq(in, 1, end - 1)
        rest == ItemsFrom(in)[end + 1, 0]
    IN  IF end > Len(in) \/ ~IsObject(line) \/ ~rest.ok THEN Malformed
        ELSE [ok |-> TRUE, header |-> Trim(line)[1].event_id, items |-> rest.items]

----------------------------------------------------------------------------
(* The events process takes from a record.                                   *)

\* ExtractEvent normalizes the event's own id; the header's is taken as it is.
IdOf(own, header) == IF NormalId[own] = "" THEN header ELSE NormalId[own]

\* A payload that is no JSON is dropped as malformed, here as an event that is not ok.
Extract(payload, header) ==
    IF IsObject(payload) THEN [ok |-> TRUE, id |-> IdOf(Trim(payload)[1].event_id, header)]
    ELSE Malformed

\* A record of the store endpoint is one event, one of the envelope endpoint many.
EventsOf(kind, in) ==
    LET env == Parse(in)
        items == SelectSeq(env.items, LAMBDA it : it.type \in {"event", "transaction"})
    IN  IF kind = "event" THEN <<Extract(in, "")>>
        ELSE IF ~env.ok THEN <<>>
        ELSE [j \in 1..Len(items) |-> Extract(items[j].payload, env.header)]

----------------------------------------------------------------------------
(* What a client writes, for reference.                                      *)

\* An item as a client means it: its type, its payload, whether it gives the
\* length, and blank space before it.
WrittenItem(it) ==
    it.gap \o <<Object("", it.type, IF it.prefixed THEN {Len(it.payload)} ELSE {}), Nl>>
    \o it.payload \o <<Nl>>

Written(header, items, final) ==
    LET body == <<Object(header, "", {}), Nl>> \o FlattenSeq([j \in DOMAIN items |-> WrittenItem(items[j])])
    IN  IF final \/ items = <<>> THEN body ELSE SubSeq(body, 1, Len(body) - 1)

AcceptedOf(items) == SelectSeq(items, LAMBDA it : it.type \in AcceptedTypes)

\* The items before the last accepted one leave room for it.
Few(items) ==
    \A j \in DOMAIN items : Len(AcceptedOf(SubSeq(items, 1, j - 1))) < MaxItems

\* Each payload is one the protocol can express within the limit.
Fits(items, final) ==
    \A j \in DOMAIN items :
        LET p == items[j].payload
            ended == final \/ j < Len(items)
        IN  IF items[j].prefixed THEN Len(p) <= MaxItemBytes
            ELSE ~Contains(p, Nl) /\ Len(p) < MaxItemBytes + (IF ended THEN 0 ELSE 1)

\* Payloads that are an event, hold newlines, look like an item header, or are
\* empty; a type that is accepted and one that is not.
SomePayloads == {<<>>, <<Object("e1", "", {})>>, <<Garbage, Nl>>, <<Object("", "event", {1}), Nl, Sp>>}
SomeItems == [type: {"event", "other"}, payload: SomePayloads, prefixed: BOOLEAN,
              gap: {<<>>, <<Sp, Nl>>}]
SomeSymbols == {Nl, Sp, Garbage, Object("e1", "event", {}), Object("", "event", {1}),
                Object("", "event", {0 - 1})}

Bare(items) == [j \in DOMAIN items |-> [type |-> items[j].type, payload |-> items[j].payload]]
Prefixed(items) == [j \in DOMAIN items |->
    [type |-> items[j].type, payload |-> items[j].payload, prefixed |-> TRUE, gap |-> <<>>]]

\* Whatever a payload contains, no part of it is taken for a header, no item is
\* lost or run into the next, and an item more than MaxItems is refused.
WrittenIsRead ==
    \A items \in BoundedSeq(SomeItems, MaxWritten), final \in BOOLEAN :
        Fits(items, final) =>
            Parse(Written("h", items, final)) =
                IF Few(items) THEN [ok |-> TRUE, header |-> "h", items |-> Bare(AcceptedOf(items))]
                ELSE Malformed

\* Of any bytes, what is accepted is within the limits and means the same when it
\* is written again with lengths.
ReadCanBeWritten ==
    \A in \in BoundedSeq(SomeSymbols, MaxBody) :
        LET env == Parse(<<Object("h", "", {}), Nl>> \o in)
        IN  env.ok =>
               /\ Len(env.items) <= MaxItems
               /\ \A j \in DOMAIN env.items : Len(env.items[j].payload) <= MaxItemBytes
               /\ Parse(Written("h", Prefixed(env.items), TRUE)) = env
====
