---- MODULE IngestHttp ----
(***************************************************************************)
(* internal/ingest/http.go, composed with internal/cache/lru.go and        *)
(* internal/ratelimit: the handler of the two ingest endpoints, the cache  *)
(* of DSN keys in front of the metadata database, and the limiter.         *)
(* Requests run concurrently; the lookup of a key in the database and its  *)
(* insertion into the cache are separate steps.  Every cached key costs    *)
(* one unit.  What the body and the pipeline (Pipeline's Submit) answer is *)
(* left open, and so are the counters of the requests turned away.  No     *)
(* code revokes a key; an operator does, in the database.                  *)
(***************************************************************************)
EXTENDS RateLimit, Sequences

CONSTANTS
    Handler,     \* handler goroutines, each serving one request at a time
    Key,
    ProjectOf,   \* ProjectOf[k]: the project key k belongs to
    Revocable,   \* bound: the keys that may be revoked
    MaxBytes,    \* capacity of the cache
    TTL,         \* lifetime of a cached key
    Slow,        \* assumption: a lookup takes no longer
    MaxRequests, \* bound: requests
    Never

ASSUME HttpAssumption ==
    /\ ProjectOf \in [Key -> Project] /\ Revocable \subseteq Key
    /\ MaxBytes \in Nat \ {0}
    /\ TTL \in Nat /\ Slow \in Nat /\ MaxRequests \in Nat
    /\ Never \in Nat /\ Never > MaxTime + TTL + Slow

VARIABLES
    active,     \* keys that are active in the database
    revoked,    \* history: revoked[k], when, or Never
    ll,         \* the cache, most recent first: [key, expires]
    curBytes,
    req,        \* req[h]: the request handler h is serving
    requests    \* requests so far

cacheVars == <<ll, curBytes>>
httpVars == <<active, revoked, cacheVars, req, requests>>
vars == <<limitVars, httpVars>>

\* at: where the handler stands; began: when its lookup found the key active;
\* passed: when lookupKey returned the key, or Never.  Both are histories, and
\* are forgotten when no longer needed.
Request(at, key, began, passed) ==
    [at |-> at, key |-> key, began |-> began, passed |-> passed]
Idle == Request("idle", None, 0, Never)
Points == {"idle", "get", "lookup", "set", "owner", "quota", "body"}

TypeOK ==
    /\ active \in SUBSET Key /\ revoked \in [Key -> 0..MaxTime \cup {Never}]
    /\ ll \in Seq([key : Key, expires : Nat]) /\ curBytes \in 0..MaxBytes
    /\ req \in [Handler -> [at : Points, key : Key \cup {None}, began : 0..MaxTime,
                            passed : 0..MaxTime \cup {Never}]]
    /\ requests \in 0..MaxRequests

Init ==
    /\ LimitInit
    /\ active = Key /\ revoked = [k \in Key |-> Never]
    /\ ll = <<>> /\ curBytes = 0
    /\ req = [h \in Handler |-> Idle]
    /\ requests = 0

Goto(h, point, began, passed) == req' = [req EXCEPT ![h] = Request(point, @.key, began, passed)]
Respond(h) == req' = [req EXCEPT ![h] = Idle]

\* Time passes; lookups in flight do not take longer than Slow.
Tick ==
    /\ \A h \in Handler : req[h].at = "set" => now < req[h].began + Slow
    /\ LimitTick
    /\ UNCHANGED httpVars

Revoke(k) ==
    /\ k \in active \cap Revocable
    /\ active' = active \ {k}
    /\ revoked' = [revoked EXCEPT ![k] = now]
    /\ UNCHANGED <<limitVars, cacheVars, req, requests>>

----------------------------------------------------------------------------
(* The cache. *)

Cached(k) == {i \in DOMAIN ll : ll[i].key = k}

\* removeElement of the element c.items holds for k, if it holds one.
Without(i) == [j \in 1..Len(ll) - 1 |-> ll[IF j < i THEN j ELSE j + 1]]
Element(k) == CHOOSE i \in Cached(k) : TRUE
Rest(k) == IF Cached(k) = {} THEN ll ELSE Without(Element(k))
RestBytes(k) == IF Cached(k) = {} THEN curBytes ELSE curBytes - 1

\* Present and not expired.
Fresh(k) == \E i \in Cached(k) : now <= ll[i].expires

\* Mutant: a hit renews the entry.
HitRenews(k) ==
    /\ ll' = <<[key |-> k, expires |-> now + TTL]>> \o Rest(k)
    /\ UNCHANGED curBytes

\* MoveToFront.
Hit(k) ==
    /\ ll' = <<ll[Element(k)]>> \o Rest(k)
    /\ UNCHANGED curBytes

\* An expired entry is removed.
Miss(k) == ll' = Rest(k) /\ curBytes' = RestBytes(k)

\* Mutant: the element the key already has stays in the list.
SetKeepsOld(k) ==
    LET new == <<[key |-> k, expires |-> now + TTL]>> \o ll
        bytes == curBytes + 1
        over == IF bytes > MaxBytes THEN bytes - MaxBytes ELSE 0 IN
    /\ ll' = SubSeq(new, 1, Len(new) - over)
    /\ curBytes' = bytes - over

\* Replace, then evict from the back down to the capacity.
Set(k) ==
    LET new == <<[key |-> k, expires |-> now + TTL]>> \o Rest(k)
        bytes == RestBytes(k) + 1
        over == IF bytes > MaxBytes THEN bytes - MaxBytes ELSE 0 IN
    /\ ll' = SubSeq(new, 1, Len(new) - over)
    /\ curBytes' = bytes - over

----------------------------------------------------------------------------
(* The handler.  A request whose path or credentials are missing or bad is  *)
(* answered at once, and is no step.                                        *)

Arrive(h, k) ==
    /\ req[h].at = "idle" /\ requests < MaxRequests
    /\ req' = [req EXCEPT ![h] = Request("get", k, 0, Never)]
    /\ requests' = requests + 1
    /\ UNCHANGED <<limitVars, active, revoked, cacheVars>>

\* lookupKey returns the key.
Accept(h) == Goto(h, "owner", 0, now)

GetHit(h) ==
    /\ req[h].at = "get" /\ Fresh(req[h].key)
    /\ Hit(req[h].key)
    /\ Accept(h)
    /\ UNCHANGED <<limitVars, active, revoked, requests>>

GetMiss(h) ==
    /\ req[h].at = "get" /\ ~Fresh(req[h].key)
    /\ Miss(req[h].key)
    /\ Goto(h, "lookup", 0, Never)
    /\ UNCHANGED <<limitVars, active, revoked, requests>>

LookupKey(h) ==
    /\ req[h].at = "lookup" /\ req[h].key \in active
    /\ Goto(h, "set", now, Never)
    /\ UNCHANGED <<limitVars, active, revoked, cacheVars, requests>>

\* No such active key, or the database fails.
LookupFails(h) ==
    /\ req[h].at = "lookup"
    /\ Respond(h)
    /\ UNCHANGED <<limitVars, active, revoked, cacheVars, requests>>

Remember(h) ==
    /\ req[h].at = "set"
    /\ Set(req[h].key)
    /\ Accept(h)
    /\ UNCHANGED <<limitVars, active, revoked, requests>>

\* The key must be of the project the path names.
CheckProject(h) ==
    /\ req[h].at = "owner"
    /\ Respond(h) \/ Goto(h, "quota", 0, Never)
    /\ UNCHANGED <<limitVars, active, revoked, cacheVars, requests>>

\* h.limiter.Allow; the key is not used again.
CheckQuota(h) ==
    /\ req[h].at = "quota"
    /\ LET p == ProjectOf[req[h].key] IN
         \/ /\ AllowUntracked(p) \/ Admit(p)
            /\ req' = [req EXCEPT ![h] = Request("body", None, 0, Never)]
         \/ Reject(p) /\ Respond(h)
    /\ UNCHANGED <<active, revoked, cacheVars, requests>>

\* The body is refused, or given to Submit, whatever comes of that.
ReadBody(h) ==
    /\ req[h].at = "body"
    /\ Respond(h)
    /\ UNCHANGED <<limitVars, active, revoked, cacheVars, requests>>

\* The process dies and starts again; clients of the requests in flight see
\* their connection close.
Restart ==
    /\ LimitRestart
    /\ ll' = <<>> /\ curBytes' = 0
    /\ req' = [h \in Handler |-> Idle]
    /\ UNCHANGED <<active, revoked, requests>>

Handle(h) ==
    \/ \E k \in Key : Arrive(h, k)
    \/ GetHit(h) \/ GetMiss(h) \/ LookupKey(h) \/ LookupFails(h) \/ Remember(h)
    \/ CheckProject(h) \/ CheckQuota(h) \/ ReadBody(h)

Next ==
    \/ Tick \/ Restart
    \/ (Snapshot \/ RateLimitSave) /\ UNCHANGED httpVars
    \/ \E k \in Key : Revoke(k)
    \/ \E h \in Handler : Handle(h)

Spec == Init /\ [][Next]_vars
----------------------------------------------------------------------------
\* The cache lists a key once, its byte count is the size of the list, and the
\* list is within the capacity, whatever lookups of one key race (Get, Set,
\* removeElement).
CacheExact ==
    /\ curBytes = Len(ll) /\ curBytes <= MaxBytes
    /\ \A i, j \in DOMAIN ll : ll[i].key = ll[j].key => i = j

\* A key is accepted for at most TTL, and the time of one lookup, after it was
\* revoked (http.go:45 "60s TTL bounds revocation delay").
RevocationBounded ==
    \A h \in Handler :
        req[h].passed # Never => req[h].passed <= revoked[req[h].key] + TTL + Slow
====
