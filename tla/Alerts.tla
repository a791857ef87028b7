---- MODULE Alerts ----
(***************************************************************************)
(* internal/alerts: the engine that matches issue activity against rules,  *)
(* queues notifications and delivers them from a pool of workers, with a   *)
(* cooldown per (rule, issue), retries and a circuit breaker.              *)
(*                                                                         *)
(* Time is not counted: a cooldown window or a breaker's reset may end at  *)
(* any moment.  All rules post to one webhook URL, so there is one breaker.*)
(***************************************************************************)
EXTENDS Naturals, Sequences, FiniteSets

CONSTANTS
    Rule,          \* enabled rules, in the order EnabledRules returns them
    Condition,     \* the condition of each
    Threshold,     \* Rule.Threshold of the frequency rules
    Worker,        \* opts.Workers
    QueueDepth,    \* opts.QueueDepth
    MaxAttempts,   \* opts.MaxAttempts
    BreakerFails,  \* opts.BreakerFails
    Nothing        \* no activity, no notification

ASSUME AlertsAssumption ==
    /\ Rule \in Seq(Nat) /\ Threshold \in Nat /\ IsFiniteSet(Worker)
    /\ QueueDepth \in Nat \ {0} /\ MaxAttempts \in Nat \ {0} /\ BreakerFails \in Nat \ {0}

VARIABLES
    epc,           \* Evaluate: "load" the rules, "match" them, or not running
    act, rules,    \* the activity it is given and the rules still to match
    queue,         \* e.queue
    cooldown,      \* the (rule, issue) pairs whose window is open
    worker,        \* the deliver call of each worker
    fails, open,   \* the breaker: consecutive failures, whether it is open
    delivered, dropped, dead, \* Delivered, Dropped, and entries put in the dead ring
    accepted,      \* notifications that passed the cooldown
    settled,       \* history: the (rule, issue) pairs a notification of which has
                   \* left the engine, or fell into a window, since the regression
    missed         \* history: issues whose last regression was not evaluated

evalVars == <<epc, act, rules, cooldown, accepted, missed>>
workVars == <<worker, fails, open, delivered, dead>>
alertVars == <<evalVars, settled, queue, dropped, workVars>>

\* deliver: the notification, the attempt it is at, whether a post is out.
Idle == [n |-> Nothing, attempt |-> 0, posting |-> FALSE]

AlertsTypeOK ==
    /\ epc \in {"idle", "load", "match"}
    /\ epc = "match" <=> rules # <<>>
    /\ epc = "idle" <=> act = Nothing
    /\ Len(queue) <= QueueDepth
    /\ \A w \in Worker :
          /\ worker[w].attempt \in 0..MaxAttempts
          /\ worker[w].n = Nothing => worker[w] = Idle
    /\ fails \in 0..BreakerFails - 1 /\ open \in BOOLEAN
    /\ {delivered, dropped, dead, accepted} \subseteq Nat

AlertsInit ==
    /\ epc = "idle" /\ act = Nothing /\ rules = <<>> /\ queue = <<>> /\ cooldown = {}
    /\ worker = [w \in Worker |-> Idle]
    /\ fails = 0 /\ open = FALSE
    /\ delivered = 0 /\ dropped = 0 /\ dead = 0 /\ accepted = 0
    /\ settled = {} /\ missed = {}

----------------------------------------------------------------------------
(* Evaluate, on the pipeline's goroutine.                                    *)

Matches(r, a) ==
    CASE Condition[r] = "new_issue"  -> a.isNew
      [] Condition[r] = "regression" -> a.regressed
      [] Condition[r] = "frequency"  -> Threshold > 0 /\ a.seen = Threshold
      [] OTHER -> FALSE

\* Evaluate goes on with the rules rs, or returns when there are none left.
Continue(rs) ==
    /\ rules' = rs
    /\ epc' = IF rs = <<>> THEN "idle" ELSE "match"
    /\ act' = IF rs = <<>> THEN Nothing ELSE act

EvaluateBegin ==
    /\ epc = "load"
    /\ Continue(Rule)
    /\ UNCHANGED <<cooldown, accepted, missed, settled, queue, dropped, workVars>>

\* EnabledRules fails: a line in the log, and the activity is forgotten.
RulesUnreadable ==
    /\ epc = "load"
    /\ Continue(<<>>)
    /\ missed' = missed \cup {i \in {act.issue} : act.regressed}
    /\ UNCHANGED <<cooldown, accepted, settled, queue, dropped, workVars>>

Pair(n) == <<n.rule, n.issue>>

\* Mutant: a notification that does not fit the queue is not counted.
EnqueueSilent(n) ==
    IF Len(queue) < QueueDepth
    THEN queue' = Append(queue, n) /\ UNCHANGED <<dropped, settled>>
    ELSE UNCHANGED <<queue, dropped, settled>>

Enqueue(n) ==
    IF Len(queue) < QueueDepth
    THEN queue' = Append(queue, n) /\ UNCHANGED <<dropped, settled>>
    ELSE dropped' = dropped + 1 /\ settled' = settled \cup {Pair(n)} /\ UNCHANGED queue

\* One turn of the loop over the rules.  cooldownOK opens the window before
\* the queue is tried.
EvaluateRule ==
    /\ epc = "match"
    /\ Continue(Tail(rules))
    /\ LET n == [rule |-> Head(rules), issue |-> act.issue]
       IN  \/ /\ Matches(n.rule, act) /\ Pair(n) \notin cooldown
              /\ cooldown' = cooldown \cup {Pair(n)}
              /\ accepted' = accepted + 1
              /\ Enqueue(n)
           \/ /\ Matches(n.rule, act) /\ Pair(n) \in cooldown
              /\ settled' = settled \cup {Pair(n)}
              /\ UNCHANGED <<cooldown, accepted, queue, dropped>>
           \/ /\ ~Matches(n.rule, act)
              /\ UNCHANGED <<cooldown, accepted, settled, queue, dropped>>
    /\ UNCHANGED <<missed, workVars>>

Evaluate == EvaluateBegin \/ RulesUnreadable \/ EvaluateRule

CooldownEnds ==
    /\ \E pair \in cooldown : cooldown' = cooldown \ {pair}
    /\ UNCHANGED <<epc, act, rules, accepted, missed, settled, queue, dropped, workVars>>

----------------------------------------------------------------------------
(* The workers.                                                              *)

Dequeue(w) ==
    /\ worker[w] = Idle /\ queue # <<>>
    /\ worker' = [worker EXCEPT ![w].n = Head(queue)]
    /\ queue' = Tail(queue)
    /\ UNCHANGED <<evalVars, settled, dropped, fails, open, delivered, dead>>

Trying(w) == worker[w].n # Nothing /\ ~worker[w].posting

\* breakerAllow refuses: sleep, and on to the next attempt.
BreakerRefuses(w) ==
    /\ Trying(w) /\ worker[w].attempt < MaxAttempts /\ open
    /\ worker' = [worker EXCEPT ![w].attempt = @ + 1]
    /\ UNCHANGED <<evalVars, settled, queue, dropped, fails, open, delivered, dead>>

Post(w) ==
    /\ Trying(w) /\ worker[w].attempt < MaxAttempts /\ ~open
    /\ worker' = [worker EXCEPT ![w].posting = TRUE]
    /\ UNCHANGED <<evalVars, settled, queue, dropped, fails, open, delivered, dead>>

\* breakerRecord(true).
PostSucceeds(w) ==
    /\ worker[w].posting
    /\ worker' = [worker EXCEPT ![w] = Idle]
    /\ fails' = 0 /\ open' = FALSE /\ delivered' = delivered + 1
    /\ settled' = settled \cup {Pair(worker[w].n)}
    /\ UNCHANGED <<evalVars, queue, dropped, dead>>

\* breakerRecord(false).
RecordFailure ==
    IF fails + 1 >= BreakerFails THEN open' = TRUE /\ fails' = 0
    ELSE fails' = fails + 1 /\ UNCHANGED open

\* Mutant: a failed delivery starts afresh, as if it were queued again.
PostFailsAfresh(w) ==
    /\ worker[w].posting
    /\ worker' = [worker EXCEPT ![w] = [Idle EXCEPT !.n = worker[w].n]]
    /\ RecordFailure
    /\ UNCHANGED <<evalVars, settled, queue, dropped, delivered, dead>>

PostFails(w) ==
    /\ worker[w].posting
    /\ worker' = [worker EXCEPT ![w].posting = FALSE, ![w].attempt = @ + 1]
    /\ RecordFailure
    /\ UNCHANGED <<evalVars, settled, queue, dropped, delivered, dead>>

DeadLetter(w) ==
    /\ Trying(w) /\ worker[w].attempt = MaxAttempts
    /\ worker' = [worker EXCEPT ![w] = Idle]
    /\ dead' = dead + 1
    /\ settled' = settled \cup {Pair(worker[w].n)}
    /\ UNCHANGED <<evalVars, queue, dropped, fails, open, delivered>>

BreakerResets ==
    /\ open /\ open' = FALSE
    /\ UNCHANGED <<evalVars, settled, queue, dropped, worker, fails, delivered, dead>>

Deliver(w) ==
    \/ Dequeue(w) \/ BreakerRefuses(w) \/ Post(w)
    \/ PostSucceeds(w) \/ PostFails(w) \/ DeadLetter(w)

Engine == CooldownEnds \/ BreakerResets \/ \E w \in Worker : Deliver(w)

----------------------------------------------------------------------------
Busy(w) == worker[w] # Idle

\* A notification of the pair that waits or is being delivered.
InHand(pair) ==
    \/ \E i \in DOMAIN queue : Pair(queue[i]) = pair
    \/ \E w \in Worker : Busy(w) /\ Pair(worker[w].n) = pair

\* "counted, never silent": a notification that passed the cooldown is queued,
\* with a worker, delivered, dropped or dead-lettered, and in one place only.
Accounted ==
    accepted = Len(queue) + Cardinality({w \in Worker : Busy(w)}) + delivered + dropped + dead

\* A delivery ends, by a success or in the dead-letter ring, however the
\* endpoint answers and whatever the breaker does.
DeliveryEnds == \A w \in Worker : Busy(w) ~> ~Busy(w)

\* "wait out the reset window rather than burning attempts" (deliver): an attempt
\* is used up by a post only.
AttemptsArePosts ==
    [][\A w \in Worker : worker'[w].attempt > worker[w].attempt => worker[w].posting]_alertVars
====
