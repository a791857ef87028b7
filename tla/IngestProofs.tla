---- MODULE IngestProofs ----
(***************************************************************************)
(* The ingest endpoint for any number of handlers, keys and projects and   *)
(* any sizes: no more of a tracked project is admitted than its bucket     *)
(* allows in any stretch of time, the key cache is exact and within its    *)
(* capacity, and a revoked key is accepted for no longer than its lifetime *)
(* in the cache.                                                           *)
(***************************************************************************)
EXTENDS IngestHttp, TLAPS

\* Leaves are tried with SMT, then with Zenon.
USE SMTT(30), Zenon

\* What a bucket with x tokens, last refilled at time T, may have let through (u[t]
\* from time t on): with what it still holds no more than a full bucket and the
\* refill up to T, whichever t one counts from.
Within(x, u, T) ==
    /\ x \in 0..Burst
    /\ \A t \in Time : /\ t <= T => u[t] + x <= Burst + Rate * (T - t)
                       /\ t > T => u[t] = 0

\* The inductive invariant of LimitSpec: every bucket is within its account, also the
\* ones a checkpoint carries, and a project without a bucket has none.
LimitInv ==
    /\ LimitTypeOK
    /\ \A p \in Project : last[p] <= now /\ tokens[p] \in 0..Burst
    /\ \A p \in tracked : Within(tokens[p], used[p], last[p])
    /\ \A p \in Project \ tracked : used[p] = Unused
    /\ \A p \in DOMAIN saved : Within(saved[p].tokens, saved[p].used, now)
    /\ copied # None =>
         \A p \in DOMAIN copied : Within(copied[p].tokens, copied[p].used, now)

\* Distributing the rate over two stretches of time, the arithmetic of Allow.
LEMMA RateSplits ==
    ASSUME NEW r \in Nat, NEW a \in Int, NEW b \in Int, NEW c \in Int
    PROVE  r * (c - a) = r * (b - a) + (c - b) * r
OBVIOUS

\* A refill grows with the time it covers.
LEMMA RateGrows ==
    ASSUME NEW r \in Nat, NEW d \in Nat
    PROVE  r * d \in Nat
OBVIOUS

\* The account of a bucket at a later time, with what it gained meanwhile or less.
LEMMA WithinLater ==
    ASSUME NEW x \in Nat, NEW u \in [Time -> Nat], NEW T \in Time, NEW U \in Time,
           NEW y \in 0..Burst, T <= U, y <= x + (U - T) * Rate, Within(x, u, T)
    PROVE  Within(y, u, U)
<1> USE LimitAssumption
<1>1. /\ T \in Nat /\ U \in Nat /\ U - T \in Nat /\ (U - T) * Rate \in Nat /\ Burst \in Nat
      /\ y \in Nat /\ y <= Burst
  BY RateGrows DEF Time
<1>2. ASSUME NEW t \in Time, t <= U PROVE u[t] + y <= Burst + Rate * (U - t)
  <2>1. t \in Nat /\ u[t] \in Nat
    BY DEF Time
  <2>2. CASE t <= T
    <3>1. u[t] + x <= Burst + Rate * (T - t)
      BY <2>2, Zenon DEF Within
    <3>2. Rate * (U - t) = Rate * (T - t) + (U - T) * Rate
      BY <1>1, <2>1, RateSplits
    <3>3. T - t \in Nat
      BY <1>1, <2>1, <2>2
    <3>4. Rate * (T - t) \in Nat
      BY <3>3, RateGrows, Zenon
    <3>5. \A a, b, c, m, d, e \in Nat : a + b <= c + m /\ e <= b + d => a + e <= c + (m + d)
      OBVIOUS
    <3>6. u[t] + y <= Burst + (Rate * (T - t) + (U - T) * Rate)
      BY <1>1, <2>1, <3>1, <3>4, <3>5, Zenon
    <3> QED
      BY <3>2, <3>6, Zenon
  <2>3. CASE t > T
    <3>1. u[t] = 0
      BY <2>3, Zenon DEF Within
    <3>2. U - t \in Nat
      BY <1>1, <1>2, <2>1
    <3>3. Rate * (U - t) \in Nat
      BY <3>2, RateGrows, Zenon
    <3>4. \A b, c, m \in Nat : b <= c => 0 + b <= c + m
      OBVIOUS
    <3> QED
      BY <1>1, <3>1, <3>3, <3>4, Zenon
  <2> QED
    BY <1>1, <2>1, <2>2, <2>3
<1>3. ASSUME NEW t \in Time, t > U PROVE u[t] = 0
  <2>1. t > T
    BY <1>1, <1>3 DEF Time
  <2> QED
    BY <2>1, Zenon DEF Within
<1> QED
  BY <1>2, <1>3, Zenon DEF Within

\* A full bucket nobody has used.
LEMMA WithinUnused ==
    ASSUME NEW T \in Time
    PROVE  Within(Burst, Unused, T)
<1> USE LimitAssumption
<1>1. T \in Nat /\ Burst \in 0..Burst /\ Burst \in Nat
  BY DEF Time
<1>2. \A t \in Time : Unused[t] = 0 /\ t \in Nat
  BY DEF Unused, Time
<1>3. ASSUME NEW t \in Time, t <= T PROVE Unused[t] + Burst <= Burst + Rate * (T - t)
  <2>1. T - t \in Nat
    BY <1>1, <1>2, <1>3
  <2>2. Rate * (T - t) \in Nat
    BY <2>1, RateGrows, Zenon
  <2>3. \A b, m \in Nat : 0 + b <= b + m
    OBVIOUS
  <2> QED
    BY <1>1, <1>2, <2>2, <2>3, Zenon
<1> QED
  BY <1>1, <1>2, <1>3, Zenon DEF Within

\* A request takes one token.
LEMMA WithinAdmit ==
    ASSUME NEW u \in [Time -> Nat], NEW T \in Time, NEW y \in 0..Burst, y >= 1, Within(y, u, T)
    PROVE  Within(y - 1, [t \in Time |-> IF t <= T THEN u[t] + 1 ELSE 0], T)
<1> USE LimitAssumption
<1> DEFINE v == [t \in Time |-> IF t <= T THEN u[t] + 1 ELSE 0]
<1>1. y \in Nat /\ y - 1 \in 0..Burst /\ T \in Nat
  BY DEF Time
<1>2. \A t \in Time : t > T => v[t] = 0
  BY <1>1 DEF Time
<1>3. ASSUME NEW t \in Time, t <= T PROVE v[t] + (y - 1) <= Burst + Rate * (T - t)
  <2>1. v[t] = u[t] + 1 /\ u[t] \in Nat
    BY <1>3, Zenon
  <2> HIDE DEF v
  <2>2. u[t] + y <= Burst + Rate * (T - t)
    BY <1>3, Zenon DEF Within
  <2>3. v[t] + (y - 1) = u[t] + y
    BY <1>1, <2>1
  <2> QED
    BY <2>2, <2>3, Zenon
<1> HIDE DEF v
<1>4. Within(y - 1, v, T)
  BY <1>1, <1>2, <1>3, Zenon DEF Within
<1> QED
  BY <1>4, Zenon DEF v

\* The initial state: no buckets.
LEMMA InitIInv == LimitInit => LimitInv
<1> SUFFICES ASSUME LimitInit PROVE LimitInv
  BY Zenon
<1> USE LimitAssumption
<1>1. Unused \in [Time -> Nat] /\ 0 \in Time
  BY DEF Unused, Time
<1>2. DOMAIN saved = {}
  BY Zenon DEF LimitInit
<1>3. LimitTypeOK
  BY <1>1, <1>2 DEF LimitInit, LimitTypeOK
<1>4. \A p \in Project : last[p] <= now /\ tokens[p] \in 0..Burst
  BY DEF LimitInit
<1> QED
  BY <1>1, <1>2, <1>3, <1>4, Zenon DEF LimitInit, LimitInv

\* What Allow finds in a bucket: at most Burst, at least none, and no more than
\* time has earned.
LEMMA RefilledWithin ==
    ASSUME LimitInv, NEW p \in Project
    PROVE  Refilled(p) \in 0..Burst /\ Within(Refilled(p), used[p], now)
<1> USE LimitAssumption
<1>1. now \in Time /\ used[p] \in [Time -> Nat]
  BY Zenon DEF LimitInv, LimitTypeOK
<1>2. CASE p \in tracked
  <2>1. /\ last[p] \in Time /\ last[p] <= now /\ tokens[p] \in Nat
        /\ Within(tokens[p], used[p], last[p])
    BY <1>2, Zenon DEF LimitInv, LimitTypeOK
  <2>2. now - last[p] \in Nat
    BY <1>1, <2>1 DEF Time
  <2>3. (now - last[p]) * Rate \in Nat
    BY <2>2, RateGrows
  <2>4. Refilled(p) = AtMostBurst(tokens[p] + (now - last[p]) * Rate)
    BY <1>2, Zenon DEF Refilled
  <2>5. \A s \in Nat : AtMostBurst(s) \in 0..Burst /\ AtMostBurst(s) <= s
    BY DEF AtMostBurst
  <2>6. \A a, b \in Nat : a + b \in Nat
    OBVIOUS
  <2>7. Refilled(p) \in 0..Burst /\ Refilled(p) <= tokens[p] + (now - last[p]) * Rate
    BY <2>1, <2>3, <2>4, <2>5, <2>6, Zenon
  <2> QED
    BY <1>1, <2>1, <2>7, WithinLater, Zenon
<1>3. CASE p \notin tracked
  <2>1. Refilled(p) = Burst /\ used[p] = Unused
    BY <1>3, Zenon DEF Refilled, LimitInv
  <2>2. Burst \in 0..Burst
    OBVIOUS
  <2> QED
    BY <1>1, <2>1, <2>2, WithinUnused, Zenon
<1> QED
  BY <1>2, <1>3, Zenon

\* A bucket stays within its account as time passes.
LEMMA WithinStays ==
    ASSUME NEW x, NEW u \in [Time -> Nat], NEW T \in Time, NEW U \in Time, T <= U, Within(x, u, T)
    PROVE  Within(x, u, U)
<1> USE LimitAssumption
<1>1. x \in 0..Burst /\ x \in Nat
  BY DEF Within
<1>2. U - T \in Nat
  BY DEF Time
<1>3. (U - T) * Rate \in Nat
  BY <1>2, RateGrows
<1>4. \A a, b \in Nat : a <= a + b
  OBVIOUS
<1>5. x <= x + (U - T) * Rate
  BY <1>1, <1>3, <1>4, Zenon
<1> QED
  BY <1>1, <1>5, WithinLater, Zenon

\* The clock only moves on.
LEMMA TickStep == LimitInv /\ LimitTick => LimitInv'
<1> SUFFICES ASSUME LimitInv, LimitTick PROVE LimitInv'
  BY Zenon
<1>1. UNCHANGED <<tracked, tokens, last, used, copied, saved, restarts>>
  BY Zenon DEF LimitTick, bucketVars
<1>2. now \in Time /\ now' \in Time /\ now <= now' /\ \A t \in Time : t <= now => t <= now'
  BY LimitAssumption DEF LimitTick, LimitInv, LimitTypeOK, Time
<1>3. LimitTypeOK'
  BY <1>1, <1>2, Zenon DEF LimitInv, LimitTypeOK
<1>4. \A p \in Project : last[p] <= now'
  BY <1>2, Zenon DEF LimitInv, LimitTypeOK
<1>5. \A p \in DOMAIN saved : Within(saved[p].tokens, saved[p].used, now')
  <2>1. \A p \in DOMAIN saved : saved[p].used \in [Time -> Nat]
    BY Zenon DEF LimitInv, LimitTypeOK, Bucket
  <2> QED
    BY <1>2, <2>1, WithinStays, Zenon DEF LimitInv
<1>6. copied # None => \A p \in DOMAIN copied : Within(copied[p].tokens, copied[p].used, now')
  <2>1. copied # None => \A p \in DOMAIN copied : copied[p].used \in [Time -> Nat]
    BY Zenon DEF LimitInv, LimitTypeOK, Bucket
  <2> QED
    BY <1>2, <2>1, WithinStays, Zenon DEF LimitInv
<1> QED
  BY <1>1, <1>3, <1>4, <1>5, <1>6, Zenon DEF LimitInv, Within

\* A request that takes a token or finds none.
LEMMA AllowStep ==
    ASSUME LimitInv, NEW q \in Project, Admit(q) \/ Reject(q)
    PROVE  LimitInv'
<1> USE LimitAssumption
<1>1. /\ tracked' = tracked \cup {q} /\ last' = [last EXCEPT ![q] = now]
      /\ UNCHANGED <<now, copied, saved, restarts>>
  BY Zenon DEF Admit, Reject, Refill
<1>2. /\ Refilled(q) \in 0..Burst /\ Within(Refilled(q), used[q], now)
      /\ now \in Time /\ used[q] \in [Time -> Nat]
  BY RefilledWithin, Zenon DEF LimitInv, LimitTypeOK
<1>3. PICK x \in 0..Burst, u \in [Time -> Nat] :
          /\ Within(x, u, now)
          /\ tokens' = [tokens EXCEPT ![q] = x] /\ used' = [used EXCEPT ![q] = u]
  <2>1. CASE Admit(q)
    <3> DEFINE u == [t \in Time |-> IF t <= now THEN used[q][t] + 1 ELSE 0]
    <3>1. /\ Refilled(q) >= 1 /\ tokens' = [tokens EXCEPT ![q] = Refilled(q) - 1]
          /\ used' = [used EXCEPT ![q] = u]
      BY <2>1, Zenon DEF Admit
    <3>2. Refilled(q) - 1 \in 0..Burst
      BY <1>2, <3>1
    <3>3. u \in [Time -> Nat]
      BY <1>2 DEF Time
    <3>4. Within(Refilled(q) - 1, u, now)
      BY <1>2, <3>1, WithinAdmit, Zenon
    <3> HIDE DEF u
    <3> QED
      BY <3>1, <3>2, <3>3, <3>4, Zenon
  <2>2. CASE Reject(q)
    <3>1. tokens' = [tokens EXCEPT ![q] = Refilled(q)] /\ used' = used
      BY <2>2, Zenon DEF Reject
    <3>2. used' = [used EXCEPT ![q] = used[q]]
      BY <3>1, Zenon DEF LimitInv, LimitTypeOK
    <3> QED
      BY <1>2, <3>1, <3>2, Zenon
  <2> QED
    BY <2>1, <2>2, Zenon
<1>4. /\ tokens'[q] = x /\ used'[q] = u /\ last'[q] = now
      /\ \A p \in Project : p # q =>
           tokens'[p] = tokens[p] /\ used'[p] = used[p] /\ last'[p] = last[p]
  BY <1>1, <1>3, Zenon DEF LimitInv, LimitTypeOK
<1>5. x \in Nat /\ now <= now
  BY <1>2 DEF Time
<1>6. LimitTypeOK'
  BY <1>1, <1>2, <1>3, <1>5, Zenon DEF LimitInv, LimitTypeOK
<1>7. \A p \in Project : last'[p] <= now' /\ tokens'[p] \in 0..Burst
  BY <1>1, <1>3, <1>4, <1>5, Zenon DEF LimitInv
<1>8. tracked \subseteq Project
  BY Zenon DEF LimitInv, LimitTypeOK
<1>9. \A p \in tracked' : Within(tokens'[p], used'[p], last'[p])
  BY <1>1, <1>3, <1>4, <1>8, Zenon DEF LimitInv
<1>10. \A p \in Project \ tracked' : used'[p] = Unused
  BY <1>1, <1>4, Zenon DEF LimitInv
<1>11. /\ \A p \in DOMAIN saved' : Within(saved'[p].tokens, saved'[p].used, now')
       /\ copied' # None =>
            \A p \in DOMAIN copied' : Within(copied'[p].tokens, copied'[p].used, now')
  BY <1>1, Zenon DEF LimitInv
<1> QED
  BY <1>6, <1>7, <1>9, <1>10, <1>11, Zenon DEF LimitInv, Within, Unused

\* Both steps of a checkpoint carry the accounts over.
LEMMA CheckpointStep == LimitInv /\ (Snapshot \/ RateLimitSave) => LimitInv'
<1>1. ASSUME LimitInv, Snapshot PROVE LimitInv'
  <2>1. /\ UNCHANGED <<now, tracked, tokens, last, used, saved, restarts>>
        /\ copied' = [p \in tracked |-> [tokens |-> tokens[p], used |-> used[p]]]
    BY <1>1, Zenon DEF Snapshot, bucketVars
  <2>2. /\ tracked \subseteq Project /\ DOMAIN copied' = tracked
        /\ \A p \in tracked : copied'[p].tokens = tokens[p] /\ copied'[p].used = used[p]
    BY <1>1, <2>1, Zenon DEF LimitInv, LimitTypeOK
  <2>3. \A p \in tracked : copied'[p] \in Bucket
    BY <1>1, <2>1, <2>2, Zenon DEF LimitInv, LimitTypeOK, Bucket
  <2>4. \A p \in tracked : Within(copied'[p].tokens, copied'[p].used, now)
    <3> SUFFICES ASSUME NEW p \in tracked PROVE Within(tokens[p], used[p], now)
      BY <2>2, Zenon
    <3>1. /\ used[p] \in [Time -> Nat] /\ last[p] \in Time /\ now \in Time /\ last[p] <= now
          /\ Within(tokens[p], used[p], last[p])
      BY <1>1, <2>2, Zenon DEF LimitInv, LimitTypeOK
    <3> QED
      BY <3>1, WithinStays, Zenon
  <2>5. LimitTypeOK'
    BY <1>1, <2>1, <2>2, <2>3, Zenon DEF LimitInv, LimitTypeOK
  <2> QED
    BY <1>1, <2>1, <2>2, <2>4, <2>5, Zenon DEF LimitInv, Within
<1>2. ASSUME LimitInv, RateLimitSave PROVE LimitInv'
  <2>1. /\ UNCHANGED <<now, tracked, tokens, last, used, restarts>> /\ copied # None
        /\ copied' = None /\ DOMAIN saved' = DOMAIN copied
        /\ \A p \in DOMAIN copied : saved'[p] = copied[p]
    BY <1>2, Zenon DEF RateLimitSave, bucketVars
  <2>2. LimitTypeOK'
    BY <1>2, <2>1, Zenon DEF LimitInv, LimitTypeOK
  <2> QED
    BY <1>2, <2>1, <2>2, Zenon DEF LimitInv, Within
<1> QED
  BY <1>1, <1>2, Zenon

\* A restart goes on with the accounts of the saved buckets.
LEMMA RestartStep == LimitInv /\ LimitRestart => LimitInv'
<1> SUFFICES ASSUME LimitInv, LimitRestart
             PROVE  LimitInv'
  BY Zenon
<1> USE LimitAssumption
<1>1. PICK S \in Restorable : /\ tracked' = S
                              /\ Restore(S)
  BY Zenon DEF LimitRestart
<1>2. S \subseteq DOMAIN saved /\ S \subseteq Project
  BY Zenon DEF Restorable, LimitInv, LimitTypeOK
<1>3. copied' = None /\ saved' = saved /\ now' = now /\ restarts' \in Nat
  BY DEF LimitRestart, LimitInv, LimitTypeOK
<1>4. /\ now \in Time /\ 0 \in Time /\ 0 \in 0..Burst /\ now <= now /\ 0 <= now
      /\ Unused \in [Time -> Nat]
  BY DEF LimitInv, LimitTypeOK, Unused, Time
<1>5. /\ tokens' = [p \in Project |-> IF p \in S THEN saved[p].tokens ELSE 0]
      /\ used' = [p \in Project |-> IF p \in S THEN saved[p].used ELSE Unused]
      /\ last' = [p \in Project |-> IF p \in S THEN now ELSE 0]
  BY <1>1, Zenon DEF Restore
<1>6. \A p \in S : /\ saved[p].tokens \in Nat /\ saved[p].used \in [Time -> Nat]
                   /\ Within(saved[p].tokens, saved[p].used, now)
                   /\ saved[p].tokens \in 0..Burst
  BY <1>2, Zenon DEF LimitInv, LimitTypeOK, Bucket, Within
<1>7. /\ \A p \in S : /\ tokens'[p] = saved[p].tokens /\ used'[p] = saved[p].used
                      /\ last'[p] = now
      /\ \A p \in Project \ S : tokens'[p] = 0 /\ used'[p] = Unused /\ last'[p] = 0
  BY <1>2, <1>5, Zenon
<1>8. \A p \in Project : /\ last'[p] \in Time /\ last'[p] <= now
                         /\ tokens'[p] \in 0..Burst /\ used'[p] \in [Time -> Nat]
  BY <1>4, <1>6, <1>7, Zenon
<1>9. /\ tokens' \in [Project -> Nat] /\ last' \in [Project -> Time]
      /\ used' \in [Project -> [Time -> Nat]]
  <2>1. \A p \in Project : tokens'[p] \in Nat
    BY <1>8
  <2> QED
    BY <1>5, <1>8, <2>1, Zenon
<1>10. LimitTypeOK'
  BY <1>1, <1>2, <1>3, <1>4, <1>9, Zenon DEF LimitInv, LimitTypeOK
<1>11. \A p \in tracked' : Within(tokens'[p], used'[p], last'[p])
  BY <1>1, <1>6, <1>7, Zenon
<1> QED
  BY <1>1, <1>3, <1>7, <1>8, <1>10, <1>11, Zenon DEF LimitInv, Within, Unused

\* LimitInv is inductive and holds throughout.
THEOREM LimitInvariance == LimitSpec => []LimitInv
<1>1. LimitInv /\ [LimitNext]_limitVars => LimitInv'
  <2> SUFFICES ASSUME LimitInv, [LimitNext]_limitVars
               PROVE  LimitInv'
    BY Zenon
  <2>1. CASE UNCHANGED limitVars
    <3>1. UNCHANGED <<now, tracked, tokens, last, used, copied, saved, restarts>>
      BY <2>1, Zenon DEF limitVars, bucketVars
    <3> QED
      BY <3>1, Zenon DEF LimitInv, LimitTypeOK, Within
  <2>2. CASE \E p \in Project : Allow(p)
    BY <2>1, <2>2, AllowStep, Zenon DEF Allow, AllowUntracked
  <2> QED
    BY <2>1, <2>2, TickStep, CheckpointStep, RestartStep, Zenon DEF LimitNext
<1> QED
  BY <1>1, InitIInv, PTL DEF LimitSpec

\* QuotaHolds for every instance: what is admitted of a tracked project in any stretch
\* of time is bounded by Burst and the refill, across the restarts whose checkpoint
\* has the requests (Allow, Snapshot, RateLimitSave, Restore).
THEOREM Quota == LimitSpec => []QuotaHolds
<1>1. LimitInv => QuotaHolds
  <2> SUFFICES ASSUME LimitInv, NEW p \in tracked, NEW t \in 0..now
               PROVE  used[p][t] <= Burst + Rate * (now - t)
    BY Zenon DEF QuotaHolds
  <2> USE LimitAssumption
  <2>1. /\ p \in Project /\ now \in Time /\ last[p] \in Time /\ last[p] <= now
        /\ used[p] \in [Time -> Nat] /\ Within(tokens[p], used[p], last[p])
    BY Zenon DEF LimitInv, LimitTypeOK
  <2>2. Within(tokens[p], used[p], now)
    BY <2>1, WithinStays, Zenon
  <2>3. t \in Time /\ t <= now /\ now - t \in Nat
    BY <2>1 DEF Time
  <2>4. used[p][t] + tokens[p] <= Burst + Rate * (now - t) /\ tokens[p] \in 0..Burst
    BY <2>2, <2>3, Zenon DEF Within
  <2>5. Rate * (now - t) \in Nat /\ used[p][t] \in Nat
    BY <2>1, <2>3, RateGrows, Zenon
  <2>6. tokens[p] \in Nat
    BY <2>4
  <2>7. \A a, b, c, d \in Nat : a + b <= c + d => a <= c + d
    OBVIOUS
  <2> QED
    BY <2>4, <2>5, <2>6, <2>7, Zenon
<1> QED
  BY <1>1, LimitInvariance, PTL

\* BucketBounded for every instance (the cap and the guard of Allow).
THEOREM Bounded == LimitSpec => []BucketBounded
<1>1. LimitInv => BucketBounded
  BY Zenon DEF LimitInv, BucketBounded, Within
<1> QED
  BY <1>1, LimitInvariance, PTL

----------------------------------------------------------------------------
(* The key cache and the handlers. *)

\* Where a request's key is needed, there is one.
RequestInv ==
    \A h \in Handler :
        /\ req[h].at \in {"get", "lookup", "set", "owner", "quota"} => req[h].key \in Key
        /\ req[h].at # "owner" => req[h].passed = Never

\* What the database said of a key it said before the key was revoked.
RevocationInv ==
    /\ now \in 0..MaxTime
    /\ \A k \in active : revoked[k] = Never
    /\ \A k \in Key : revoked[k] = Never \/ revoked[k] <= now
    /\ \A h \in Handler : req[h].at = "set" =>
         /\ req[h].began <= now /\ now <= req[h].began + Slow
         /\ req[h].began <= revoked[req[h].key]
    /\ \A h \in Handler : req[h].passed # Never =>
         req[h].passed <= now /\ req[h].passed <= revoked[req[h].key] + TTL + Slow

\* So no entry of the cache outlives its key by more than TTL and a lookup.
EntryInv ==
    \A i \in 1..Len(ll) :
        ll[i].expires <= now + TTL /\ ll[i].expires <= revoked[ll[i].key] + TTL + Slow

HttpInv == TypeOK /\ RequestInv /\ CacheExact /\ RevocationInv /\ EntryInv

Entry == [key : Key, expires : Nat]
Requests == [at : Points, key : Key \cup {None}, began : 0..MaxTime,
             passed : 0..MaxTime \cup {Never}]

\* What is left of the cache when the element of k, if there is one, is taken
\* out: other entries of the list, in as many places.
LEMMA RestFacts ==
    ASSUME TypeOK, CacheExact, NEW k
    PROVE  /\ Rest(k) \in Seq(Entry)
           /\ RestBytes(k) \in Nat /\ Len(Rest(k)) = RestBytes(k) /\ RestBytes(k) <= curBytes
           /\ \A i \in 1..Len(Rest(k)) : Rest(k)[i].key # k
           /\ \A i \in 1..Len(Rest(k)) : \E j \in 1..Len(ll) : Rest(k)[i] = ll[j]
           /\ \A i, j \in 1..Len(Rest(k)) : Rest(k)[i].key = Rest(k)[j].key => i = j
<1>1. /\ ll \in Seq(Entry) /\ Len(ll) \in Nat /\ curBytes = Len(ll) /\ DOMAIN ll = 1..Len(ll)
      /\ \A i, j \in 1..Len(ll) : ll[i].key = ll[j].key => i = j
  <2>1. ll \in Seq(Entry) /\ curBytes = Len(ll)
    BY Zenon DEF TypeOK, CacheExact, Entry
  <2>2. Len(ll) \in Nat /\ DOMAIN ll = 1..Len(ll)
    BY <2>1
  <2> QED
    BY <2>1, <2>2, Zenon DEF CacheExact
<1>2. CASE Cached(k) = {}
  <2>1. Rest(k) = ll /\ RestBytes(k) = curBytes
    BY <1>2, Zenon DEF Rest, RestBytes
  <2>2. \A i \in 1..Len(ll) : ll[i].key # k
    BY <1>1, <1>2, Zenon DEF Cached
  <2> QED
    BY <1>1, <2>1, <2>2
<1>3. CASE Cached(k) # {}
  <2> DEFINE e == Element(k)
             at(j) == IF j < e THEN j ELSE j + 1
  <2>1. e \in 1..Len(ll) /\ ll[e].key = k
    <3>1. e \in Cached(k)
      BY <1>3, Zenon DEF Element
    <3> QED
      BY <1>1, <3>1, Zenon DEF Cached
  <2> HIDE DEF e
  <2>2. Rest(k) = [j \in 1..Len(ll) - 1 |-> ll[at(j)]] /\ RestBytes(k) = Len(ll) - 1
    BY <1>1, <1>3, Zenon DEF Rest, RestBytes, Without, e
  <2>3. /\ \A j \in 1..Len(ll) - 1 : at(j) \in 1..Len(ll) /\ at(j) # e
        /\ \A i, j \in 1..Len(ll) - 1 : at(i) = at(j) => i = j
    BY <1>1, <2>1
  <2> HIDE DEF at
  <2>4. Len(ll) - 1 \in Nat /\ \A j \in 1..Len(ll) - 1 : ll[at(j)] \in Entry
    BY <1>1, <2>1, <2>3
  <2>5. Rest(k) \in Seq(Entry) /\ Len(Rest(k)) = Len(ll) - 1
    BY <2>2, <2>4
  <2>6. \A j \in 1..Len(Rest(k)) : Rest(k)[j] = ll[at(j)]
    BY <2>2, <2>5, Zenon
  <2>7. \A j \in 1..Len(Rest(k)) : at(j) \in 1..Len(ll) /\ at(j) # e
    BY <2>3, <2>5, Zenon
  <2>8. ASSUME NEW i \in 1..Len(Rest(k)), NEW j \in 1..Len(Rest(k)), Rest(k)[i].key = Rest(k)[j].key
        PROVE  i = j
    <3>1. ll[at(i)].key = ll[at(j)].key
      BY <2>6, <2>8, Zenon
    <3>2. at(i) = at(j)
      BY <1>1, <2>7, <3>1, Zenon
    <3> QED
      BY <2>3, <2>5, <3>2, Zenon
  <2>9. ASSUME NEW j \in 1..Len(Rest(k)) PROVE Rest(k)[j].key # k
    <3>1. ll[at(j)].key = k => at(j) = e
      BY <1>1, <2>1, <2>7, Zenon
    <3> QED
      BY <2>6, <2>7, <3>1, Zenon
  <2>10. \A j \in 1..Len(Rest(k)) : \E m \in 1..Len(ll) : Rest(k)[j] = ll[m]
    BY <2>6, <2>7, Zenon
  <2>11. Len(ll) - 1 \in Nat /\ Len(ll) - 1 <= Len(ll) /\ Len(ll) - 1 = curBytes - 1
    BY <1>1, <2>4
  <2> QED
    BY <1>1, <2>2, <2>5, <2>8, <2>9, <2>10, <2>11, ZenonT(60)
<1> QED
  BY <1>2, <1>3, Zenon

\* An entry of k put in front of the rest.
LEMMA FrontFacts ==
    ASSUME TypeOK, CacheExact, NEW en \in Entry
    PROVE  LET s == <<en>> \o Rest(en.key)
           IN  /\ s \in Seq(Entry) /\ Len(s) = RestBytes(en.key) + 1
               /\ \A i \in 1..Len(s) : s[i] = en \/ \E j \in 1..Len(ll) : s[i] = ll[j]
               /\ \A i, j \in 1..Len(s) : s[i].key = s[j].key => i = j
<1> DEFINE k == en.key
           r == Rest(k)
           s == <<en>> \o r
<1>1. /\ r \in Seq(Entry) /\ Len(r) = RestBytes(k) /\ Len(r) \in Nat
      /\ \A i \in 1..Len(r) : r[i].key # k
      /\ \A i \in 1..Len(r) : \E j \in 1..Len(ll) : r[i] = ll[j]
      /\ \A i, j \in 1..Len(r) : r[i].key = r[j].key => i = j
  BY RestFacts, Zenon
<1> HIDE DEF r, k
<1>2. /\ s \in Seq(Entry) /\ Len(s) = Len(r) + 1
      /\ s[1] = en /\ \A i \in 2..Len(s) : s[i] = r[i - 1]
  BY <1>1
<1>a. en.key = k
  BY Zenon DEF k
<1> HIDE DEF s
<1>3. \A i \in 2..Len(s) : i - 1 \in 1..Len(r)
  BY <1>1, <1>2
<1>4. \A i \in 1..Len(s) : i = 1 \/ i \in 2..Len(s)
  BY <1>1, <1>2
<1>5. ASSUME NEW i \in 1..Len(s), NEW j \in 1..Len(s), s[i].key = s[j].key PROVE i = j
  <2>1. CASE i = 1
    BY <1>1, <1>2, <1>3, <1>4, <1>5, <1>a, <2>1
  <2>2. CASE j = 1
    BY <1>1, <1>2, <1>3, <1>4, <1>5, <1>a, <2>2
  <2>3. CASE i # 1 /\ j # 1
    <3>1. i - 1 = j - 1
      BY <1>1, <1>2, <1>3, <1>4, <1>5, <2>3
    <3> QED
      BY <3>1
  <2> QED
    BY <2>1, <2>2, <2>3, Zenon
<1>6. ASSUME NEW i \in 1..Len(s) PROVE s[i] = en \/ \E j \in 1..Len(ll) : s[i] = ll[j]
  <2>1. i # 1 => i - 1 \in 1..Len(r) /\ s[i] = r[i - 1]
    BY <1>2, <1>3, <1>4, Zenon
  <2> QED
    BY <1>1, <1>2, <2>1
<1> QED
  BY <1>1, <1>2, <1>5, <1>6, Zenon DEF s, r, k

\* A step of one handler that moves its request on, and may change the cache.
LEMMA RequestStep ==
    ASSUME HttpInv, NEW h \in Handler, NEW r \in Requests, req' = [req EXCEPT ![h] = r],
           r.at \in {"get", "lookup", "set", "owner", "quota"} => r.key \in Key,
           r.at # "owner" => r.passed = Never,
           r.at = "set" =>
               r.began <= now /\ now <= r.began + Slow /\ r.began <= revoked[r.key],
           r.passed # Never => r.passed <= now /\ r.passed <= revoked[r.key] + TTL + Slow,
           UNCHANGED <<now, active, revoked>>, requests' \in 0..MaxRequests,
           UNCHANGED cacheVars \/ (ll' \in Seq(Entry) /\ CacheExact' /\ EntryInv')
    PROVE  HttpInv'
<1>1. req \in [Handler -> Requests] /\ ll \in Seq(Entry) /\ curBytes \in 0..MaxBytes
  BY Zenon DEF HttpInv, TypeOK, Requests, Entry
<1>2. req' \in [Handler -> Requests] /\ req'[h] = r /\ \A g \in Handler \ {h} : req'[g] = req[g]
  BY <1>1, Zenon
<1>3. RequestInv'
  BY <1>2, Zenon DEF HttpInv, RequestInv
<1>4. ll' \in Seq(Entry) /\ CacheExact' /\ EntryInv'
  BY <1>1, Zenon DEF HttpInv, CacheExact, EntryInv, cacheVars
<1>5. curBytes' \in 0..MaxBytes
  <2>1. Len(ll') \in Nat /\ curBytes' = Len(ll') /\ curBytes' <= MaxBytes
    BY <1>4 DEF CacheExact
  <2> QED
    BY <2>1, HttpAssumption
<1>6. TypeOK'
  BY <1>2, <1>4, <1>5, Zenon DEF HttpInv, TypeOK, Requests, Entry
<1>7. RevocationInv'
  BY <1>2, Zenon DEF HttpInv, RevocationInv
<1> QED
  BY <1>3, <1>4, <1>6, <1>7, Zenon DEF HttpInv

\* Requests that come, go, and pass the checks behind the cache.
LEMMA PlainSteps ==
    ASSUME HttpInv, NEW h \in Handler,
           \/ \E k \in Key : Arrive(h, k)
           \/ LookupFails(h) \/ CheckProject(h) \/ CheckQuota(h) \/ ReadBody(h)
    PROVE  HttpInv'
<1>1. Idle \in Requests /\ Idle.at = "idle" /\ Idle.passed = Never
  BY HttpAssumption, LimitAssumption DEF Idle, Request, Requests, Points
<1>2. requests \in 0..MaxRequests
  BY Zenon DEF HttpInv, TypeOK
<1>3. ASSUME Respond(h), UNCHANGED <<now, active, revoked, cacheVars, requests>>
      PROVE  HttpInv'
  BY <1>1, <1>2, <1>3, RequestStep, Zenon DEF Respond
<1>4. ASSUME NEW k \in Key, Arrive(h, k) PROVE HttpInv'
  <2> DEFINE r == Request("get", k, 0, Never)
  <2>1. r \in Requests /\ r.at = "get" /\ r.key \in Key /\ r.passed = Never
    BY HttpAssumption, LimitAssumption DEF Request, Requests, Points
  <2>2. /\ req' = [req EXCEPT ![h] = r] /\ requests' \in 0..MaxRequests
        /\ UNCHANGED <<now, active, revoked, cacheVars>>
    BY <1>2, <1>4, HttpAssumption DEF Arrive, limitVars
  <2> HIDE DEF r
  <2> QED
    BY <2>1, <2>2, RequestStep, Zenon
<1>5. CASE LookupFails(h) \/ ReadBody(h)
  BY <1>3, <1>5, Zenon DEF LookupFails, ReadBody, limitVars
<1>6. CASE CheckProject(h)
  <2> DEFINE r == Request("quota", req[h].key, 0, Never)
  <2>1. req[h].key \in Key
    BY <1>6, Zenon DEF CheckProject, HttpInv, RequestInv
  <2>2. r \in Requests /\ r.at = "quota" /\ r.key \in Key /\ r.passed = Never
    BY <2>1, HttpAssumption, LimitAssumption DEF Request, Requests, Points
  <2>3. UNCHANGED <<now, active, revoked, cacheVars, requests>>
    BY <1>6, Zenon DEF CheckProject, limitVars
  <2>4. Respond(h) \/ req' = [req EXCEPT ![h] = r]
    BY <1>6, Zenon DEF CheckProject, Goto
  <2> HIDE DEF r
  <2>5. CASE req' = [req EXCEPT ![h] = r]
    BY <1>2, <2>2, <2>3, <2>5, RequestStep, Zenon
  <2> QED
    BY <1>3, <2>3, <2>4, <2>5, Zenon
<1>7. CASE CheckQuota(h)
  <2> DEFINE r == Request("body", None, 0, Never)
  <2>1. r \in Requests /\ r.at = "body" /\ r.passed = Never
    BY HttpAssumption, LimitAssumption DEF Request, Requests, Points
  <2>2. UNCHANGED <<now, active, revoked, cacheVars, requests>>
    BY <1>7, Zenon DEF CheckQuota, AllowUntracked, Admit, Reject, Refill, limitVars
  <2>3. Respond(h) \/ req' = [req EXCEPT ![h] = r]
    BY <1>7, Zenon DEF CheckQuota
  <2> HIDE DEF r
  <2>4. CASE req' = [req EXCEPT ![h] = r]
    BY <1>2, <2>1, <2>2, <2>4, RequestStep, Zenon
  <2> QED
    BY <1>3, <2>2, <2>3, <2>4, Zenon
<1> QED
  BY <1>4, <1>5, <1>6, <1>7, Zenon

\* A lookup finds the key active: it is not revoked yet.
LEMMA LookupStep ==
    ASSUME HttpInv, NEW h \in Handler, LookupKey(h)
    PROVE  HttpInv'
<1> DEFINE r == Request("set", req[h].key, now, Never)
<1>1. req[h].key \in Key /\ revoked[req[h].key] = Never /\ now \in 0..MaxTime
  BY Zenon DEF LookupKey, HttpInv, RequestInv, RevocationInv
<1>2. /\ r \in Requests /\ r.at = "set" /\ r.key = req[h].key /\ r.passed = Never
      /\ r.began = now
  BY <1>1, HttpAssumption, LimitAssumption, Zenon DEF Request, Requests, Points
<1>3. now <= now /\ now <= now + Slow /\ now <= Never
  BY <1>1, HttpAssumption, LimitAssumption
<1>4. req' = [req EXCEPT ![h] = r] /\ UNCHANGED <<now, active, revoked, cacheVars, requests>>
  BY Zenon DEF LookupKey, Goto, limitVars
<1>5. requests' \in 0..MaxRequests
  BY <1>4, Zenon DEF HttpInv, TypeOK
<1> HIDE DEF r
<1> QED
  BY <1>1, <1>2, <1>3, <1>4, <1>5, RequestStep, Zenon

\* A hit: the entry moves to the front, and vouches for the key.
LEMMA HitStep ==
    ASSUME HttpInv, NEW h \in Handler, GetHit(h)
    PROVE  HttpInv'
<1> DEFINE k == req[h].key
           r == Request("owner", k, 0, now)
<1>1. k \in Key /\ now \in 0..MaxTime /\ ll \in Seq(Entry) /\ DOMAIN ll = 1..Len(ll)
  BY DEF GetHit, HttpInv, RequestInv, RevocationInv, TypeOK, Entry
<1>2. PICK i \in Cached(k) : now <= ll[i].expires
  BY Zenon DEF GetHit, Fresh
<1>3. Element(k) \in Cached(k)
  BY <1>2, Zenon DEF Element
<1> DEFINE e == Element(k)
<1>4. e \in 1..Len(ll) /\ ll[e].key = k /\ ll[e] \in Entry
  BY <1>1, <1>3 DEF Cached
<1>5. now <= ll[e].expires
  BY <1>1, <1>2, <1>3, Zenon DEF Cached, HttpInv, CacheExact
<1>6. ll' = <<ll[e]>> \o Rest(k) /\ curBytes' = curBytes
  BY Zenon DEF GetHit, Hit
<1> HIDE DEF e
<1>7. /\ ll' \in Seq(Entry) /\ Len(ll') = RestBytes(k) + 1
      /\ \A j \in 1..Len(ll') : \E m \in 1..Len(ll) : ll'[j] = ll[m]
      /\ \A j, m \in 1..Len(ll') : ll'[j].key = ll'[m].key => j = m
  <2>1. TypeOK /\ CacheExact
    BY Zenon DEF HttpInv
  <2> HIDE DEF k
  <2>2. /\ ll' \in Seq(Entry) /\ Len(ll') = RestBytes(k) + 1
        /\ \A j \in 1..Len(ll') : ll'[j] = ll[e] \/ \E m \in 1..Len(ll) : ll'[j] = ll[m]
        /\ \A j, m \in 1..Len(ll') : ll'[j].key = ll'[m].key => j = m
    <3>1. ll[e] \in Entry /\ ll[e].key = k
      BY <1>4, Zenon
    <3> DEFINE s == <<ll[e]>> \o Rest(k)
    <3>2. /\ s \in Seq(Entry) /\ Len(s) = RestBytes(k) + 1
          /\ \A j \in 1..Len(s) : s[j] = ll[e] \/ \E m \in 1..Len(ll) : s[j] = ll[m]
          /\ \A j, m \in 1..Len(s) : s[j].key = s[m].key => j = m
      BY <2>1, <3>1, FrontFacts, ZenonT(60)
    <3>3. ll' = s
      BY <1>6, Zenon
    <3> HIDE DEF s
    <3> QED
      BY <3>2, <3>3, ZenonT(60)
  <2> QED
    BY <1>4, <2>2, Zenon
<1>8. CacheExact'
  <2>1. Cached(k) # {} /\ curBytes = Len(ll) /\ curBytes <= MaxBytes /\ DOMAIN ll' = 1..Len(ll')
    BY <1>3, <1>7 DEF HttpInv, CacheExact
  <2>2. Len(ll') = curBytes
    <3>1. RestBytes(k) = curBytes - 1 /\ curBytes \in Nat
      <4>1. Len(ll) \in Nat
        BY <1>1
      <4> HIDE DEF k
      <4> QED
        BY <2>1, <4>1, Zenon DEF RestBytes
    <3> HIDE DEF k
    <3> QED
      BY <1>7, <3>1
  <2> QED
    BY <1>6, <1>7, <2>1, <2>2, Zenon DEF CacheExact
<1>9. /\ req' = [req EXCEPT ![h] = r] /\ UNCHANGED <<now, active, revoked, requests>>
      /\ requests' \in 0..MaxRequests
  BY Zenon DEF GetHit, Accept, Goto, limitVars, HttpInv, TypeOK
<1>10. EntryInv'
  BY <1>7, <1>9, Zenon DEF HttpInv, EntryInv
<1>11. ll[e].expires \in Nat /\ revoked[k] \in Nat /\ ll[e].expires <= revoked[k] + TTL + Slow
  <2>1. ll[e].expires <= revoked[k] + TTL + Slow
    BY <1>4, Zenon DEF HttpInv, EntryInv
  <2>2. revoked[k] \in Nat
    BY <1>1, HttpAssumption DEF HttpInv, TypeOK
  <2> QED
    BY <1>4, <2>1, <2>2, Zenon DEF Entry
<1>12. now <= revoked[k] + TTL + Slow /\ now <= now
  <2> DEFINE until == revoked[k] + TTL + Slow
             expires == ll[e].expires
  <2>1. now \in 0..MaxTime /\ now <= expires /\ expires <= until /\ expires \in Nat
    BY <1>1, <1>5, <1>11, Zenon
  <2>2. \A a, b, c \in Nat : a + b + c \in Nat
    OBVIOUS
  <2>3. until \in Nat
    BY <1>11, <2>2, HttpAssumption, Zenon
  <2> HIDE DEF until, expires
  <2>4. now <= until /\ now <= now
    BY <2>1, <2>3
  <2> QED
    BY <2>4, Zenon DEF until
<1>13. r \in Requests /\ r.at = "owner" /\ r.key = k /\ r.passed = now
  BY <1>1, LimitAssumption DEF Request, Requests, Points
<1> HIDE DEF r, k
<1> QED
  BY <1>1, <1>7, <1>8, <1>9, <1>10, <1>12, <1>13, RequestStep, Zenon

\* A miss: the expired entry goes.
LEMMA MissStep ==
    ASSUME HttpInv, NEW h \in Handler, GetMiss(h)
    PROVE  HttpInv'
<1> DEFINE k == req[h].key
           r == Request("lookup", k, 0, Never)
<1>1. k \in Key
  BY Zenon DEF GetMiss, HttpInv, RequestInv
<1>2. ll' = Rest(k) /\ curBytes' = RestBytes(k)
  BY Zenon DEF GetMiss, Miss
<1>3. /\ ll' \in Seq(Entry) /\ curBytes' = Len(ll') /\ curBytes' <= curBytes /\ curBytes' \in Nat
      /\ \A j \in 1..Len(ll') : \E m \in 1..Len(ll) : ll'[j] = ll[m]
      /\ \A j, m \in 1..Len(ll') : ll'[j].key = ll'[m].key => j = m
  BY <1>2, RestFacts, ZenonT(60) DEF HttpInv
<1>4. CacheExact'
  <2>1. curBytes <= MaxBytes /\ curBytes \in Nat /\ DOMAIN ll' = 1..Len(ll')
    BY <1>3 DEF HttpInv, CacheExact, TypeOK
  <2> QED
    BY <1>3, <2>1, HttpAssumption DEF CacheExact
<1>5. /\ req' = [req EXCEPT ![h] = r] /\ UNCHANGED <<now, active, revoked, requests>>
      /\ requests' \in 0..MaxRequests
  BY Zenon DEF GetMiss, Goto, limitVars, HttpInv, TypeOK
<1>6. EntryInv'
  BY <1>3, <1>5, Zenon DEF HttpInv, EntryInv
<1>7. r \in Requests /\ r.at = "lookup" /\ r.key = k /\ r.passed = Never
  BY <1>1, HttpAssumption, LimitAssumption DEF Request, Requests, Points
<1> HIDE DEF r, k
<1> QED
  BY <1>1, <1>3, <1>4, <1>5, <1>6, <1>7, RequestStep, Zenon

\* Set: the new entry in front, the back cut off at the capacity.  The lookup
\* found the key at most Slow ago.
LEMMA RememberStep ==
    ASSUME HttpInv, NEW h \in Handler, Remember(h)
    PROVE  HttpInv'
<1> DEFINE k == req[h].key
           en == [key |-> k, expires |-> now + TTL]
           s == <<en>> \o Rest(k)
           bytes == RestBytes(k) + 1
           over == IF bytes > MaxBytes THEN bytes - MaxBytes ELSE 0
           r == Request("owner", k, 0, now)
<1>1. /\ k \in Key /\ now \in 0..MaxTime /\ now \in Nat /\ req[h].began \in Nat
      /\ now <= req[h].began + Slow /\ req[h].began <= revoked[k]
  <2>1. k \in Key /\ req[h].at = "set"
    BY Zenon DEF Remember, HttpInv, RequestInv
  <2>2. now \in 0..MaxTime /\ now <= req[h].began + Slow /\ req[h].began <= revoked[k]
    BY <2>1, Zenon DEF HttpInv, RevocationInv
  <2>3. req[h].began \in 0..MaxTime
    BY Zenon DEF HttpInv, TypeOK
  <2> QED
    BY <2>1, <2>2, <2>3, LimitAssumption
<1>2. revoked[k] \in Nat
  BY <1>1, HttpAssumption DEF HttpInv, TypeOK
<1>3. en \in Entry /\ en.key = k /\ en.expires = now + TTL
  BY <1>1, HttpAssumption DEF Entry
<1>4. ll' = SubSeq(s, 1, Len(s) - over) /\ curBytes' = bytes - over
  BY Zenon DEF Remember, Set
<1>5. /\ s \in Seq(Entry) /\ Len(s) = bytes /\ bytes \in Nat \ {0}
      /\ \A j \in 1..Len(s) : s[j] = en \/ \E m \in 1..Len(ll) : s[j] = ll[m]
      /\ \A j, m \in 1..Len(s) : s[j].key = s[m].key => j = m
  <2> HIDE DEF en, k
  <2>1. TypeOK /\ CacheExact
    BY Zenon DEF HttpInv
  <2>2. RestBytes(k) \in Nat
    BY <2>1, RestFacts, Zenon
  <2>3. /\ s \in Seq(Entry) /\ Len(s) = RestBytes(k) + 1
        /\ \A j \in 1..Len(s) : s[j] = en \/ \E m \in 1..Len(ll) : s[j] = ll[m]
        /\ \A j, m \in 1..Len(s) : s[j].key = s[m].key => j = m
    <3>1. en \in Entry /\ en.key = k
      BY <1>3, Zenon
    <3> QED
      BY <2>1, <3>1, FrontFacts, ZenonT(60)
  <2>4. bytes \in Nat \ {0}
    BY <2>2
  <2> QED
    BY <2>3, <2>4, Zenon
<1>6. /\ Len(s) - over \in Nat /\ Len(s) - over <= Len(s) /\ Len(s) - over <= MaxBytes
      /\ bytes - over = Len(s) - over
  <2> HIDE DEF s, bytes
  <2> QED
    BY <1>5, HttpAssumption
<1> HIDE DEF s, bytes, over, en
<1>7. /\ ll' \in Seq(Entry) /\ Len(ll') = Len(s) - over /\ DOMAIN ll' = 1..Len(ll')
      /\ \A j \in 1..Len(ll') : ll'[j] = s[j] /\ j \in 1..Len(s)
  BY <1>4, <1>5, <1>6
<1>8. CacheExact'
  BY <1>4, <1>5, <1>6, <1>7 DEF CacheExact
<1>9. /\ req' = [req EXCEPT ![h] = r] /\ UNCHANGED <<now, active, revoked, requests>>
      /\ requests' \in 0..MaxRequests
  BY Zenon DEF Remember, Accept, Goto, limitVars, HttpInv, TypeOK
<1>10. now + TTL <= revoked[k] + TTL + Slow /\ now <= revoked[k] + TTL + Slow /\ now <= now
  BY <1>1, <1>2, HttpAssumption
<1>11. EntryInv'
  <2> SUFFICES ASSUME NEW j \in 1..Len(ll')
               PROVE  /\ ll'[j].expires <= now + TTL
                      /\ ll'[j].expires <= revoked[ll'[j].key] + TTL + Slow
    BY <1>9, Zenon DEF EntryInv
  <2>1. CASE ll'[j] = en
    BY <1>1, <1>3, <1>10, <2>1, HttpAssumption
  <2>2. CASE \E m \in 1..Len(ll) : ll'[j] = ll[m]
    BY <2>2, Zenon DEF HttpInv, EntryInv
  <2> QED
    BY <1>5, <1>7, <2>1, <2>2, ZenonT(60)
<1>12. r \in Requests /\ r.at = "owner" /\ r.key = k /\ r.passed = now
  BY <1>1, LimitAssumption DEF Request, Requests, Points
<1> HIDE DEF r, k
<1> QED
  BY <1>1, <1>7, <1>8, <1>9, <1>10, <1>11, <1>12, RequestStep, Zenon

\* The clock and a revocation.
LEMMA TimeSteps ==
    ASSUME HttpInv, Tick \/ \E k \in Key : Revoke(k)
    PROVE  HttpInv'
<1> USE HttpAssumption, LimitAssumption
<1>1. CASE Tick
  <2>1. /\ now' = now + 1 /\ now < MaxTime /\ now \in Nat
        /\ UNCHANGED <<active, revoked, ll, curBytes, req, requests>>
        /\ \A h \in Handler : req[h].at = "set" => now < req[h].began + Slow
    BY <1>1 DEF Tick, LimitTick, httpVars, cacheVars, HttpInv, RevocationInv
  <2>2. \A k \in Key : revoked[k] = Never \/ (revoked[k] \in Nat /\ revoked[k] <= now)
    BY DEF HttpInv, TypeOK, RevocationInv
  <2>3. ASSUME NEW h \in Handler
        PROVE  /\ req[h].began \in Nat
               /\ req[h].passed # Never => req[h].passed \in Nat /\ req[h].passed <= now
    BY DEF HttpInv, TypeOK, RevocationInv
  <2>4. RevocationInv'
    BY <2>1, <2>2, <2>3 DEF HttpInv, RevocationInv
  <2>5. EntryInv'
    <3>1. ll \in Seq(Entry)
      BY Zenon DEF HttpInv, TypeOK, Entry
    <3>2. \A i \in 1..Len(ll) : ll[i] \in Entry
      BY <3>1
    <3> QED
      BY <2>1, <3>2 DEF HttpInv, EntryInv, Entry
  <2>6. TypeOK' /\ RequestInv' /\ CacheExact'
    BY <2>1, Zenon DEF HttpInv, TypeOK, RequestInv, CacheExact
  <2> QED
    BY <2>4, <2>5, <2>6, Zenon DEF HttpInv
<1>2. ASSUME NEW k \in Key, Revoke(k) PROVE HttpInv'
  <2>1. /\ k \in active /\ active' = active \ {k} /\ revoked' = [revoked EXCEPT ![k] = now]
        /\ UNCHANGED <<now, ll, curBytes, req, requests>>
    BY <1>2, Zenon DEF Revoke, limitVars, cacheVars
  <2>2. now \in 0..MaxTime /\ now \in Nat
    BY DEF HttpInv, RevocationInv
  <2>3. TypeOK' /\ RequestInv' /\ CacheExact'
    BY <2>1, <2>2, Zenon DEF HttpInv, TypeOK, RequestInv, CacheExact
  <2>4. revoked'[k] = now /\ \A g \in Key \ {k} : revoked'[g] = revoked[g]
    BY <2>1, Zenon DEF HttpInv, TypeOK
  <2>5. EntryInv'
    <3> SUFFICES ASSUME NEW i \in 1..Len(ll)
                 PROVE  /\ ll[i].expires <= now + TTL
                        /\ ll[i].expires <= revoked'[ll[i].key] + TTL + Slow
      BY <2>1, Zenon DEF EntryInv
    <3>1. /\ ll[i].expires \in Nat /\ ll[i].key \in Key /\ ll[i].expires <= now + TTL
          /\ ll[i].expires <= revoked[ll[i].key] + TTL + Slow
      <4>1. ll \in Seq(Entry)
        BY Zenon DEF HttpInv, TypeOK, Entry
      <4>2. ll[i] \in Entry
        BY <4>1
      <4> QED
        BY <4>2, Zenon DEF HttpInv, EntryInv, Entry
    <3>2. CASE ll[i].key = k
      BY <2>2, <2>4, <3>1, <3>2
    <3>3. CASE ll[i].key # k
      BY <2>4, <3>1, <3>3, Zenon
    <3> QED
      BY <3>2, <3>3, Zenon
  <2>6. ASSUME NEW h \in Handler
        PROVE  /\ req[h].at = "set" =>
                    now <= req[h].began + Slow /\ req[h].began <= revoked'[req[h].key]
               /\ req[h].passed # Never =>
                    req[h].passed <= now /\ req[h].passed <= revoked'[req[h].key] + TTL + Slow
    <3>1. req[h].at = "set" \/ req[h].passed # Never => req[h].key \in Key
      BY Zenon DEF HttpInv, RequestInv
    <3>2. /\ req[h].at = "set" =>
               now <= req[h].began + Slow /\ req[h].began <= revoked[req[h].key]
          /\ req[h].passed # Never =>
               req[h].passed <= now /\ req[h].passed <= revoked[req[h].key] + TTL + Slow
      BY Zenon DEF HttpInv, RevocationInv
    <3>3. req[h].began \in 0..MaxTime /\ req[h].passed \in 0..MaxTime \cup {Never}
      BY Zenon DEF HttpInv, TypeOK
    <3>4. CASE req[h].key # k
      BY <2>4, <3>1, <3>2, <3>4, Zenon
    <3>5. CASE req[h].key = k
      <4>1. req[h].at = "set" => req[h].began <= now
        BY Zenon DEF HttpInv, RevocationInv
      <4> QED
        BY <2>2, <2>4, <3>2, <3>3, <3>5, <4>1
    <3> QED
      BY <3>4, <3>5, Zenon
  <2>7. RevocationInv'
    BY <2>1, <2>2, <2>4, <2>6 DEF HttpInv, RevocationInv, TypeOK
  <2> QED
    BY <2>3, <2>5, <2>7, Zenon DEF HttpInv
<1> QED
  BY <1>1, <1>2, Zenon

\* A new process has an empty cache and no requests.
LEMMA RestartKeeps ==
    ASSUME HttpInv, Restart
    PROVE  HttpInv'
<1> USE HttpAssumption, LimitAssumption
<1>1. /\ ll' = <<>> /\ curBytes' = 0 /\ req' = [h \in Handler |-> Idle]
      /\ UNCHANGED <<now, active, revoked, requests>>
  BY Zenon DEF Restart, LimitRestart
<1>2. Idle \in Requests /\ Idle.at = "idle" /\ Idle.passed = Never
  BY DEF Idle, Request, Requests, Points
<1> HIDE DEF Idle
<1>3. req' \in [Handler -> Requests] /\ \A h \in Handler : req'[h] = Idle
  BY <1>1, <1>2, Zenon
<1>4. TypeOK'
  BY <1>1, <1>3 DEF HttpInv, TypeOK, Requests
<1>5. RequestInv' /\ RevocationInv'
  BY <1>1, <1>2, <1>3, Zenon DEF HttpInv, RequestInv, RevocationInv
<1>6. CacheExact' /\ EntryInv'
  BY <1>1 DEF CacheExact, EntryInv
<1> QED
  BY <1>4, <1>5, <1>6, Zenon DEF HttpInv

\* The invariant of the endpoint, for any handlers, keys, capacity, lifetime and
\* time of a lookup.
THEOREM HttpInvariance == Spec => []HttpInv
<1> USE HttpAssumption, LimitAssumption
<1>1. Init => HttpInv
  <2> SUFFICES ASSUME Init PROVE HttpInv
    BY Zenon
  <2>1. Idle \in Requests /\ Idle.at = "idle" /\ Idle.passed = Never
    BY DEF Idle, Request, Requests, Points
  <2>2. TypeOK
    <3> HIDE DEF Idle
    <3>1. req \in [Handler -> Requests]
      BY <2>1, Zenon DEF Init
    <3> QED
      BY <3>1 DEF Init, TypeOK, Requests
  <2>3. RequestInv /\ RevocationInv
    BY <2>1 DEF Init, LimitInit, RequestInv, RevocationInv
  <2>4. CacheExact /\ EntryInv
    BY DEF Init, CacheExact, EntryInv
  <2> QED
    BY <2>2, <2>3, <2>4, Zenon DEF HttpInv
<1>2. HttpInv /\ [Next]_vars => HttpInv'
  <2> SUFFICES ASSUME HttpInv, [Next]_vars PROVE HttpInv'
    BY Zenon
  <2>1. CASE UNCHANGED <<now, httpVars>>
    BY <2>1, Zenon DEF httpVars, cacheVars, HttpInv, TypeOK, RequestInv, CacheExact, RevocationInv,
                EntryInv
  <2>2. CASE (Snapshot \/ RateLimitSave) /\ UNCHANGED httpVars
    BY <2>1, <2>2, Zenon DEF Snapshot, RateLimitSave
  <2>3. CASE UNCHANGED vars
    BY <2>1, <2>3, Zenon DEF vars, limitVars
  <2>4. ASSUME NEW h \in Handler, Handle(h) PROVE HttpInv'
    BY <2>4, PlainSteps, LookupStep, HitStep, MissStep, RememberStep, Zenon DEF Handle
  <2> QED
    BY <2>2, <2>3, <2>4, TimeSteps, RestartKeeps, Zenon DEF Next
<1> QED
  BY <1>1, <1>2, PTL DEF Spec

\* Whatever lookups of one key race, the cache lists a key once, counts its
\* bytes and is within its capacity (Get, Set, removeElement).
THEOREM CacheStaysExact == Spec => []CacheExact
<1>1. HttpInv => CacheExact
  BY Zenon DEF HttpInv
<1> QED
  BY <1>1, HttpInvariance, PTL

\* "60s TTL bounds revocation delay" (lookupKey), up to the time of a lookup.
THEOREM RevocationDelay == Spec => []RevocationBounded
<1>1. HttpInv => RevocationBounded
  BY Zenon DEF HttpInv, RevocationInv, RevocationBounded
<1> QED
  BY <1>1, HttpInvariance, PTL

\* The endpoint uses the limiter as the limiter is meant to be used, so that the
\* limiter's theorems hold of it (handle, Allow).
THEOREM HttpIsLimit == Spec => LimitSpec
<1>1. Init => LimitInit
  BY Zenon DEF Init
<1>2. HttpInv /\ [Next]_vars => [LimitNext]_limitVars
  <2> SUFFICES ASSUME HttpInv, [Next]_vars PROVE [LimitNext]_limitVars
    BY Zenon
  <2>1. CASE UNCHANGED vars
    BY <2>1, Zenon DEF vars
  <2>2. ASSUME NEW h \in Handler, CheckQuota(h) PROVE LimitNext
    <3>1. ProjectOf[req[h].key] \in Project
      BY <2>2, HttpAssumption, Zenon DEF CheckQuota, HttpInv, RequestInv
    <3>2. Allow(ProjectOf[req[h].key])
      BY <2>2, Zenon DEF CheckQuota, Allow
    <3> QED
      BY <3>1, <3>2, Zenon DEF LimitNext
  <2>3. ASSUME NEW h \in Handler, Handle(h), ~CheckQuota(h) PROVE UNCHANGED limitVars
    BY <2>3, Zenon DEF Handle, Arrive, GetHit, GetMiss, LookupKey, LookupFails, Remember,
                CheckProject, ReadBody
  <2>4. CASE Tick \/ Restart \/ ((Snapshot \/ RateLimitSave) /\ UNCHANGED httpVars)
    BY <2>4, Zenon DEF Tick, Restart, LimitNext
  <2>5. ASSUME NEW k \in Key, Revoke(k) PROVE UNCHANGED limitVars
    BY <2>5, Zenon DEF Revoke
  <2> QED
    BY <2>1, <2>2, <2>3, <2>4, <2>5, Zenon DEF Next
<1> QED
  BY <1>1, <1>2, HttpInvariance, PTL DEF Spec, LimitSpec

\* Quota and bounds of the limiter, as the endpoint runs it (handle).
THEOREM EndpointQuota == Spec => [](QuotaHolds /\ BucketBounded)
BY HttpIsLimit, Quota, Bounded, PTL
====
