---- MODULE DurableLog ----
(***************************************************************************)
(* What internal/wal promises its users: a log whose records are read back *)
(* at the offset Append returned.  A crash of the machine may take back    *)
(* records nobody was told about, never one below an acknowledged record.  *)
(* Module Wal implements it; module Pipeline uses it.                      *)
(***************************************************************************)
EXTENDS Naturals, Sequences

CONSTANTS
    Value,      \* what can be appended
    MayLose     \* whether the machine, not only the process, may crash

VARIABLES
    entries,    \* entries[o + 1] is the record at offset o
    acked       \* pairs <<offset, value>> that Append has returned

Init == entries = <<>> /\ acked = {}

Write(v) ==
    /\ entries' = Append(entries, v)
    /\ UNCHANGED acked

Ack(o) ==
    /\ o < Len(entries)
    /\ acked' = acked \cup {<<o, entries[o + 1]>>}
    /\ UNCHANGED entries

Lose(n) ==
    /\ MayLose
    /\ \A a \in acked : a[1] < n
    /\ entries' = SubSeq(entries, 1, n)
    /\ UNCHANGED acked

Next == \/ \E v \in Value : Write(v)
        \/ \E o \in 0..Len(entries) - 1 : Ack(o)
        \/ \E n \in 0..Len(entries) - 1 : Lose(n)

Spec == Init /\ [][Next]_<<entries, acked>>
====
