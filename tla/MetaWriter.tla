---- MODULE MetaWriter ----
(***************************************************************************)
(* internal/metadata/db.go: Write hands a transaction to the one goroutine *)
(* that executes them, over a bounded channel, and waits for its answer or *)
(* for its context; Close closes the channel and waits for the goroutine.  *)
(* Every caller writes once; a transaction is named by its caller.         *)
(***************************************************************************)
EXTENDS Naturals, Sequences

CONSTANTS
    Caller,     \* goroutines that call Write
    Cap,        \* capacity of the channel db.writes
    Nobody

ASSUME WriterAssumption == Cap \in Nat \ {0} /\ Nobody \notin Caller

VARIABLES
    call,       \* call[c]: where c's Write stands, or how it returned
    resp,       \* resp[c]: content of the operation's answer channel
    writes,     \* the channel db.writes
    closed,     \* it has been closed
    running,    \* the operation writeLoop executes
    done,       \* writeLoop has returned
    main,       \* where Close stands
    committed   \* transactions in the database

writerVars == <<call, resp, writes, closed, running, done, main, committed>>

\* How Write returns to its caller; a panic does not.
Returned == {"ok", "err", "cancelled"}

WriterTypeOK ==
    /\ call \in [Caller -> {"idle", "send", "wait", "panic"} \cup Returned]
    /\ resp \in [Caller -> {"none", "ok", "err"}]
    /\ writes \in Seq(Caller) /\ Len(writes) <= Cap
    /\ closed \in BOOLEAN /\ done \in BOOLEAN
    /\ running \in Caller \cup {Nobody}
    /\ main \in {"serving", "closing", "closed"}
    /\ committed \in SUBSET Caller

WriterInit ==
    /\ call = [c \in Caller |-> "idle"]
    /\ resp = [c \in Caller |-> "none"]
    /\ writes = <<>> /\ closed = FALSE
    /\ running = Nobody /\ done = FALSE
    /\ main = "serving"
    /\ committed = {}

CallAt(c, where) == call' = [call EXCEPT ![c] = where]

----------------------------------------------------------------------------
Write(c) ==
    /\ call[c] = "idle"
    /\ CallAt(c, "send")
    /\ UNCHANGED <<resp, writes, closed, running, done, main, committed>>

Send(c) ==
    /\ call[c] = "send" /\ ~closed /\ Len(writes) < Cap
    /\ writes' = Append(writes, c)
    /\ CallAt(c, "wait")
    /\ UNCHANGED <<resp, closed, running, done, main, committed>>

\* A send on a closed channel, begun before or after it was closed.
SendClosed(c) ==
    /\ call[c] = "send" /\ closed
    /\ CallAt(c, "panic")
    /\ UNCHANGED <<resp, writes, closed, running, done, main, committed>>

Receive(c) ==
    /\ call[c] = "wait" /\ resp[c] # "none"
    /\ CallAt(c, resp[c])
    /\ UNCHANGED <<resp, writes, closed, running, done, main, committed>>

\* The context ends in either select.
ContextDone(c) ==
    /\ call[c] \in {"send", "wait"}
    /\ CallAt(c, "cancelled")
    /\ UNCHANGED <<resp, writes, closed, running, done, main, committed>>

----------------------------------------------------------------------------
LoopTake ==
    /\ ~done /\ running = Nobody /\ writes # <<>>
    /\ running' = Head(writes)
    /\ writes' = Tail(writes)
    /\ UNCHANGED <<call, resp, closed, done, main, committed>>

\* Mutant: the answer channel has no buffer.
AnswerUnbuffered(result) ==
    /\ call[running] = "wait"
    /\ resp' = [resp EXCEPT ![running] = result]

\* The buffer of one takes the answer whether or not the caller still waits.
Answer(result) == resp' = [resp EXCEPT ![running] = result]

\* Mutant: the error of Commit is not returned.
ExecTxIgnoresCommit ==
    /\ running # Nobody
    /\ \/ committed' = committed \cup {running} /\ Answer("ok")
       \/ committed' = committed /\ Answer("ok")
    /\ running' = Nobody
    /\ UNCHANGED <<call, writes, closed, done, main>>

\* Commit, or rollback of whatever failed.
ExecTx ==
    /\ running # Nobody
    /\ \/ committed' = committed \cup {running} /\ Answer("ok")
       \/ committed' = committed /\ Answer("err")
    /\ running' = Nobody
    /\ UNCHANGED <<call, writes, closed, done, main>>

\* Mutant: the goroutine stops as soon as the channel is closed.
LoopEndAtOnce ==
    /\ ~done /\ running = Nobody /\ closed
    /\ done' = TRUE
    /\ UNCHANGED <<call, resp, writes, closed, running, main, committed>>

\* range over a closed channel ends when its buffer is empty.
LoopEnd ==
    /\ ~done /\ running = Nobody /\ closed /\ writes = <<>>
    /\ done' = TRUE
    /\ UNCHANGED <<call, resp, writes, closed, running, main, committed>>

Close ==
    /\ main = "serving"
    /\ main' = "closing" /\ closed' = TRUE
    /\ UNCHANGED <<call, resp, writes, running, done, committed>>

CloseReturn ==
    /\ main = "closing" /\ done
    /\ main' = "closed"
    /\ UNCHANGED <<call, resp, writes, closed, running, done, committed>>

----------------------------------------------------------------------------
WriteStep(c) == Send(c) \/ SendClosed(c) \/ Receive(c)
WriteLoop == LoopTake \/ ExecTx \/ LoopEnd

WriterNext ==
    \/ \E c \in Caller : Write(c) \/ WriteStep(c) \/ ContextDone(c)
    \/ WriteLoop \/ Close \/ CloseReturn

WriterSpec == WriterInit /\ [][WriterNext]_writerVars

\* Goroutines are scheduled, and a channel serves its blocked senders in turn;
\* no context need end and Close need not be called.
WriterLiveSpec ==
    /\ WriterSpec
    /\ WF_writerVars(WriteLoop) /\ WF_writerVars(CloseReturn)
    /\ \A c \in Caller : SF_writerVars(WriteStep(c))

----------------------------------------------------------------------------
\* Write says what became of the transaction: no error means it is committed,
\* an error of the transaction that nothing of it is (execTx, Write).
AnswerTrue ==
    \A c \in Caller : (call[c] = "ok" => c \in committed) /\ (call[c] = "err" => c \notin committed)

\* When Close returns, every operation accepted before it has been executed and
\* answered (writeLoop drains the channel).
CloseDrains == main = "closed" => \A c \in Caller : call[c] = "wait" => resp[c] # "none"

\* Every Write that the goroutine has accepted returns to its caller, also when
\* callers before it gave up and when the database is closed under it, and every
\* other one is accepted or returns unless the database is closed first, which is
\* where it panics (Write, writeLoop).
WriteReturns ==
    \A c \in Caller :
        /\ call[c] = "wait" ~> call[c] \in Returned
        /\ call[c] = "send" ~> call[c] \in Returned \cup {"wait"} \/ closed

\* Close returns, however many operations are in the channel and whether or not
\* their callers still wait (Close, writeLoop).
DbCloseReturns == main = "closing" ~> main = "closed"

\* No Write panics (order.md:107 "No panics/exceptions crossing module
\* boundaries. Every fallible function returns an explicit error").
NoPanic == \A c \in Caller : call[c] # "panic"
====
