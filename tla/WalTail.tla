---- MODULE WalTail ----
(***************************************************************************)
(* internal/wal, read-only attach (Open with ReadOnly, Refresh): a worker  *)
(* process follows a log that another process owns, through the directory  *)
(* alone.  Refresh lists the segment files, re-scans the last one it knows *)
(* and folds in the new ones, while the owner keeps writing, rolls, is     *)
(* killed and recovers.                                                    *)
(*                                                                         *)
(* A file is its base, whether its header is complete, and the number of   *)
(* complete records in it; a record being written is not one yet.          *)
(***************************************************************************)
EXTENDS Integers, Sequences

CONSTANTS
    MaxRecords, \* bound: records the owner appends
    MaxCrashes, \* bound: crashes of either process
    MaxView     \* bound: length of l.segs beyond which a Refresh that has no
                \* new record to find is left out (it can only add copies)

ASSUME TailAssumption ==
    MaxRecords \in Nat /\ MaxCrashes \in Nat /\ MaxView \in Nat \ {0}

VARIABLES
    files,      \* the segment files, ascending by base
    owner,      \* the owning process: "down", "create" (in createSegment), "run"
    segs, next, \* the attached log's l.segs and l.next
    rpc,        \* control state of Refresh
    listing,    \* bases listSegments returned
    k,          \* the entry of the listing Refresh is at
    corrupt,    \* Refresh has returned ErrCorrupt
    crashes     \* crashes so far

ownerVars == <<files, owner>>
viewVars == <<segs, next>>
vars == <<ownerVars, viewVars, rpc, listing, k, corrupt, crashes>>

End(s) == s.base + s.records
LastOf(s) == s[Len(s)]

TypeOK ==
    /\ files \in Seq([base : Nat, hdr : BOOLEAN, records : Nat])
    /\ owner \in {"down", "create", "run"}
    /\ segs \in Seq([base : Nat, records : Nat]) /\ next \in Nat
    /\ rpc \in {"idle", "attach", "known", "new"}
    /\ listing \in Seq(Nat) /\ k \in Nat \ {0}
    /\ corrupt \in BOOLEAN /\ crashes \in Nat

Init ==
    /\ files = <<>> /\ owner = "down"
    /\ segs = <<>> /\ next = 0
    /\ rpc = "idle" /\ listing = <<>> /\ k = 1 /\ corrupt = FALSE /\ crashes = 0

----------------------------------------------------------------------------
(* The owner: see Wal for its detail.  Whether a record still fits depends   *)
(* on its size, so a segment that is not empty may be rolled at any point.   *)

Written == IF files = <<>> THEN 0 ELSE End(LastOf(files))

CreateSegment ==
    /\ files' = Append(files, [base |-> Written, hdr |-> FALSE, records |-> 0])
    /\ owner' = "create"

OwnerAppend ==
    /\ owner = "run" /\ Written < MaxRecords
    /\ files' = [files EXCEPT ![Len(files)].records = @ + 1]
    /\ UNCHANGED <<owner, viewVars, rpc, listing, k, corrupt, crashes>>

OwnerRoll ==
    /\ owner = "run" /\ LastOf(files).records > 0 /\ Written < MaxRecords
    /\ CreateSegment
    /\ UNCHANGED <<viewVars, rpc, listing, k, corrupt, crashes>>

OwnerHeader ==
    /\ owner = "create"
    /\ files' = [files EXCEPT ![Len(files)].hdr = TRUE]
    /\ owner' = "run"
    /\ UNCHANGED <<viewVars, rpc, listing, k, corrupt, crashes>>

OwnerKilled ==
    /\ owner # "down" /\ crashes < MaxCrashes
    /\ owner' = "down" /\ crashes' = crashes + 1
    /\ UNCHANGED <<files, viewVars, rpc, listing, k, corrupt>>

\* load: a file with a torn header is removed; an empty directory gets its
\* first segment.
OwnerOpen ==
    /\ owner = "down"
    /\ \/ files = <<>> /\ CreateSegment
       \/ files # <<>> /\ LastOf(files).hdr /\ owner' = "run" /\ UNCHANGED files
       \/ /\ files # <<>> /\ ~LastOf(files).hdr
          /\ files' = SubSeq(files, 1, Len(files) - 1)
          /\ owner' = IF Len(files) = 1 THEN "down" ELSE "run"
    /\ UNCHANGED <<viewVars, rpc, listing, k, corrupt, crashes>>

----------------------------------------------------------------------------
(* Refresh.                                                                  *)

\* Mutant: the record being written is counted.
ProbePartial(base) ==
    LET i == CHOOSE j \in DOMAIN files : files[j].base = base /\ files[j].hdr
    IN  [base |-> base, records |-> files[i].records + 1]

\* readSegmentProbe: ready when the file is there and its header is complete.
Ready(base) == \E i \in DOMAIN files : files[i].base = base /\ files[i].hdr
Probe(base) ==
    LET i == CHOOSE j \in DOMAIN files : files[j].base = base /\ files[j].hdr
    IN  [base |-> base, records |-> files[i].records]

\* Mutant: the last known segment is probed before the directory is listed.
RefreshListLate ==
    /\ \/ /\ rpc = "idle" /\ files # <<>>
          /\ Len(segs) < MaxView \/ next < Written
          /\ listing' = [i \in DOMAIN files |-> files[i].base]
          /\ k' = 1
          /\ rpc' = IF segs = <<>> THEN "attach" ELSE "known"
       \/ /\ rpc = "new" /\ k = 1 /\ files # <<>>
          /\ listing' = [i \in DOMAIN files |-> files[i].base]
          /\ UNCHANGED <<k, rpc>>
    /\ UNCHANGED <<ownerVars, viewVars, corrupt, crashes>>

RefreshList ==
    /\ rpc = "idle" /\ files # <<>>
    /\ Len(segs) < MaxView \/ next < Written
    /\ listing' = [i \in DOMAIN files |-> files[i].base]
    /\ k' = 1
    /\ rpc' = IF segs = <<>> THEN "attach" ELSE "known"
    /\ UNCHANGED <<ownerVars, viewVars, corrupt, crashes>>

\* First attach: every segment that is ready, in order.
RefreshAttach ==
    /\ rpc = "attach" /\ k <= Len(listing)
    /\ IF Ready(listing[k])
       THEN segs' = Append(segs, Probe(listing[k])) /\ k' = k + 1
       ELSE k' = Len(listing) + 1 /\ UNCHANGED segs
    /\ UNCHANGED <<ownerVars, next, rpc, listing, corrupt, crashes>>

\* Mutant: known segments are taken to be complete and not scanned again.
RefreshKnownSkipped ==
    /\ rpc = "known" /\ rpc' = "new"
    /\ UNCHANGED <<ownerVars, viewVars, listing, k, corrupt, crashes>>

\* The last known segment may have grown.
RefreshKnown ==
    /\ rpc = "known"
    /\ segs' = IF Ready(LastOf(segs).base)
               THEN [segs EXCEPT ![Len(segs)] = Probe(LastOf(segs).base)] ELSE segs
    /\ rpc' = "new"
    /\ UNCHANGED <<ownerVars, next, listing, k, corrupt, crashes>>

\* The listing is walked from its start, so the last known segment is met
\* again: as base < expect when it has records, as base = expect when not.
RefreshNew ==
    /\ rpc = "new" /\ k <= Len(listing)
    /\ LET base == listing[k]
           expect == End(LastOf(segs))
       IN  /\ segs' = IF base = expect /\ Ready(base) THEN Append(segs, Probe(base)) ELSE segs
           /\ k' = IF base = expect /\ ~Ready(base) THEN Len(listing) + 1 ELSE k + 1
           /\ corrupt' = (corrupt \/ base > expect)
           /\ rpc' = IF base > expect THEN "idle" ELSE rpc
    /\ UNCHANGED <<ownerVars, next, listing, crashes>>

RefreshDone ==
    /\ rpc \in {"attach", "new"} /\ k > Len(listing)
    /\ next' = IF segs = <<>> THEN next ELSE End(LastOf(segs))
    /\ rpc' = "idle"
    /\ UNCHANGED <<ownerVars, segs, listing, k, corrupt, crashes>>

\* The attached process restarts and loads from nothing.
ReaderKilled ==
    /\ crashes < MaxCrashes
    /\ segs' = <<>> /\ next' = 0 /\ rpc' = "idle" /\ listing' = <<>> /\ k' = 1
    /\ crashes' = crashes + 1
    /\ UNCHANGED <<ownerVars, corrupt>>

----------------------------------------------------------------------------
Owner == OwnerAppend \/ OwnerRoll \/ OwnerHeader \/ OwnerOpen
Refresh == RefreshList \/ RefreshAttach \/ RefreshKnown \/ RefreshNew \/ RefreshDone

Next == Owner \/ OwnerKilled \/ Refresh \/ ReaderKilled

Spec == Init /\ [][Next]_vars

(* The refresh ticker keeps firing.  Nothing is assumed of the owner.        *)
LiveSpec == Spec /\ WF_vars(Refresh)

----------------------------------------------------------------------------
\* "Refresh never treats a not-yet-visible segment as fatal" (refreshLoop): it
\* never reports corruption of a log that is only being written.
NoFalseCorruption == ~corrupt

\* Outside Refresh, the view is a chain of segments that are on disk with all
\* the records the view claims: every offset below next can be read.
ViewOnDisk ==
    rpc = "idle" =>
        /\ \A i \in DOMAIN segs :
              \E j \in DOMAIN files :
                  /\ files[j].hdr /\ files[j].base = segs[i].base
                  /\ segs[i].records <= files[j].records
        /\ \A i \in 1..Len(segs) - 1 : End(segs[i]) = segs[i + 1].base
        /\ segs # <<>> => segs[1].base = 0 /\ next = End(LastOf(segs))

\* Refresh folds in the segments "written by the owning process since the last
\* call": a segment is in the view once.
SegmentsOnce == \A i, j \in DOMAIN segs : segs[i].base = segs[j].base => i = j

\* What the owner has written becomes visible, whether or not the owner is
\* still alive.
CatchesUp == \A o \in 0..MaxRecords - 1 : Written > o ~> next > o
====
