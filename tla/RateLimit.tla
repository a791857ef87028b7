---- MODULE RateLimit ----
(***************************************************************************)
(* internal/ratelimit/ratelimit.go, the per-project token buckets in front *)
(* of ingest, with the checkpoint main.go takes of them every 30 seconds   *)
(* (RateLimitSave, RateLimitLoad of internal/metadata/db.go).              *)
(*                                                                         *)
(* A tick of the clock refills Rate tokens; the unit of time is small      *)
(* enough for that to be a whole number.  SetLimit has no caller, so every *)
(* project has the default limit.  Allow, Snapshot and Restore each hold   *)
(* the mutex throughout and are one step; the checkpoint is two, the copy  *)
(* and the transaction that saves it.                                      *)
(***************************************************************************)
EXTENDS Integers, FiniteSets

CONSTANTS
    Project,
    Rate, Burst,    \* DefaultLimit
    MaxProjects,    \* cap on tracked buckets
    None,           \* no copy, no saved row
    MaxTime,        \* bound of the clock
    MaxRestarts     \* bound of the restarts

ASSUME LimitAssumption ==
    /\ Rate \in Nat /\ Burst \in Nat \ {0}
    /\ MaxProjects \in Nat \ {0}
    /\ MaxTime \in Nat /\ MaxRestarts \in Nat

VARIABLES
    now,
    tracked,    \* projects with a bucket
    tokens,     \* tokens[p]: the bucket's content (0 without one)
    last,       \* last[p]: when it was last refilled
    used,       \* history: used[p][t], requests of p the bucket admitted from time t
                \* on; a checkpoint and what it restores carry theirs
    copied,     \* None, or the copy the checkpoint goroutine holds
    saved,      \* table rate_limit_state: the tokens of each project
    restarts

bucketVars == <<tracked, tokens, last, used>>
limitVars == <<now, bucketVars, copied, saved, restarts>>

Time == 0..MaxTime
Unused == [t \in Time |-> 0]
Bucket == [tokens : Nat, used : [Time -> Nat]]

LimitTypeOK ==
    /\ now \in Time /\ restarts \in Nat
    /\ tracked \in SUBSET Project
    /\ tokens \in [Project -> Nat]
    /\ last \in [Project -> Time]
    /\ used \in [Project -> [Time -> Nat]]
    /\ DOMAIN saved \subseteq Project
    /\ \A p \in DOMAIN saved : saved[p] \in Bucket
    /\ copied # None =>
         DOMAIN copied \subseteq Project /\ \A p \in DOMAIN copied : copied[p] \in Bucket

LimitInit ==
    /\ now = 0 /\ restarts = 0
    /\ tracked = {}
    /\ tokens = [p \in Project |-> 0]
    /\ last = [p \in Project |-> 0]
    /\ copied = None
    /\ saved = [p \in {} |-> 0]
    /\ used = [p \in Project |-> Unused]

LimitTick ==
    /\ now < MaxTime
    /\ now' = now + 1
    /\ UNCHANGED <<bucketVars, copied, saved, restarts>>

----------------------------------------------------------------------------
\* Mutant: a bucket that is not used for long holds more than the burst.
AtMostBurstNot(t) == t

AtMostBurst(t) == IF t > Burst THEN Burst ELSE t

\* A new bucket is full; an old one gains what the elapsed time is worth.
Refilled(p) ==
    IF p \in tracked THEN AtMostBurst(tokens[p] + (now - last[p]) * Rate) ELSE Burst

Tracks(p) == p \in tracked \/ Cardinality(tracked) < MaxProjects

\* Allow: no bucket, and no room for one.  The request is admitted uncounted.
AllowUntracked(p) == ~Tracks(p) /\ UNCHANGED limitVars

Refill(p) ==
    /\ tracked' = tracked \cup {p}
    /\ last' = [last EXCEPT ![p] = now]
    /\ UNCHANGED <<now, copied, saved, restarts>>

Admit(p) ==
    /\ Tracks(p)
    /\ Refilled(p) >= 1
    /\ tokens' = [tokens EXCEPT ![p] = Refilled(p) - 1]
    /\ used' = [used EXCEPT ![p] = [t \in Time |-> IF t <= now THEN @[t] + 1 ELSE 0]]
    /\ Refill(p)

Reject(p) ==
    /\ Tracks(p)
    /\ Refilled(p) < 1
    /\ tokens' = [tokens EXCEPT ![p] = Refilled(p)]
    /\ Refill(p)
    /\ UNCHANGED used

Allow(p) == AllowUntracked(p) \/ Admit(p) \/ Reject(p)

----------------------------------------------------------------------------
Snapshot ==
    /\ copied = None
    /\ copied' = [p \in tracked |-> [tokens |-> tokens[p], used |-> used[p]]]
    /\ UNCHANGED <<now, bucketVars, saved, restarts>>

\* Replace-all in one transaction.
RateLimitSave ==
    /\ copied # None
    /\ saved' = [p \in DOMAIN copied |-> copied[p]]
    /\ copied' = None
    /\ UNCHANGED <<now, bucketVars, restarts>>

\* The buckets Restore makes: of every saved project, in the random order of a
\* Go map until the cap is reached; of none when RateLimitLoad fails.
Restorable == {S \in SUBSET DOMAIN saved :
                 S = {} \/ S = DOMAIN saved \/ Cardinality(S) = MaxProjects}

Restore(S) ==
    /\ tokens' = [p \in Project |-> IF p \in S THEN saved[p].tokens ELSE 0]
    /\ used' = [p \in Project |-> IF p \in S THEN saved[p].used ELSE Unused]
    /\ last' = [p \in Project |-> IF p \in S THEN now ELSE 0]

\* The process dies and a new one loads the checkpoint.
LimitRestart ==
    /\ restarts < MaxRestarts
    /\ \E S \in Restorable :
         /\ Cardinality(S) <= MaxProjects
         /\ tracked' = S
         /\ Restore(S)
    /\ copied' = None
    /\ restarts' = restarts + 1
    /\ UNCHANGED <<now, saved>>

LimitNext == LimitTick \/ Snapshot \/ RateLimitSave \/ LimitRestart \/ \E p \in Project : Allow(p)

LimitSpec == LimitInit /\ [][LimitNext]_limitVars

----------------------------------------------------------------------------
\* In no stretch of time up to now is more admitted of a tracked project than a full
\* bucket and the refill of that stretch allow, however requests, refills, the two
\* halves of a checkpoint and restarts interleave: a restart resets no quota that was
\* checkpointed, and forgets only what was admitted since the checkpoint it loads
\* (Allow, Snapshot, Restore; ratelimit.go:2 "so a restart does not reset every
\* quota").
QuotaHolds == \A p \in tracked, t \in 0..now : used[p][t] <= Burst + Rate * (now - t)

\* A bucket holds between none and Burst tokens, in memory and in the
\* checkpoint (the cap of Allow, the guard before the decrement).
BucketBounded ==
    /\ \A p \in Project : tokens[p] \in 0..Burst
    /\ \A p \in DOMAIN saved : saved[p].tokens \in 0..Burst
====
