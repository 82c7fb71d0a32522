----------------------------- MODULE AtomicBlock -----------------------------
(***************************************************************************)
(* runAtomically() of src/transaction/atomic.ts over the transactions of   *)
(* the PostgreSQL adapter (src/adapters/postgres.ts), as several calls run *)
(* in one process and callbacks make calls of their own.                   *)
(*                                                                         *)
(* A call runs uninterrupted from one await to the next. It waits for a    *)
(* connection, for BEGIN, for SET TRANSACTION, for its callback, for       *)
(* COMMIT, for ROLLBACK and for the pause before a retry: that is pc.      *)
(* Whether a call is nested is decided by one flag of the whole process.   *)
(*                                                                         *)
(* The server and the driver's pool are external: a statement succeeds or  *)
(* fails, COMMIT may take effect and still fail in the client's eyes, a    *)
(* connection that is lost takes its transaction with it, a statement that *)
(* fails aborts the transaction so that a later COMMIT only rolls it back  *)
(* (without an error), and a released connection refuses every statement.  *)
(***************************************************************************)
EXTENDS Naturals, FiniteSets

CONSTANTS
  Blocks,     \* calls of runAtomically()
  PoolSizes,  \* how many connections the driver's pool may be made with
  Attempts,   \* maxRetries + 1 with retryOnError, else 1
  Isolated,   \* the calls with options.isolation
  Swallowing, \* the calls whose callback catches the error of a failed statement
  Nested,     \* whether callbacks call runAtomically() themselves
  Top         \* the caller of a call that no callback made

ASSUME AtomicAssumption ==
  /\ PoolSizes \subseteq Nat
  /\ Attempts \in Nat \ {0}
  /\ Isolated \subseteq Blocks
  /\ Swallowing \subseteq Blocks
  /\ Nested \in BOOLEAN
  /\ Top \notin Blocks

VARIABLES
  poolSize,  \* the connections of the driver's pool, fixed when it is made
  inAtomic,  \* globalThis[ATOMIC_CONTEXT]
  pc,        \* what each call waits for, or how it settled
  caller,    \* the call whose callback made it, or Top
  attempt,   \* the loop variable
  error,     \* the kind of error the catch block holds
  held,      \* the attempt has a connection reserved
  tx,        \* the attempt's transaction on the server
  applied    \* how many transactions of the call have committed

vars == <<poolSize, inAtomic, pc, caller, attempt, error, held, tx, applied>>

Settled == {"resolved", "rejected", "refused"}
Waits == {"connection", "begin", "isolation", "callback", "commit", "rollback", "pause"}

Transactions == {"none", "open", "aborted", "committed", "rolled back"}

\* The waits between setAtomicContext(true) and the finally block.
Inside == {"callback", "commit", "rollback", "pause"}

\* Types of the variables; a call makes no more attempts than it may.
TypeOK ==
  /\ poolSize \in PoolSizes
  /\ inAtomic \in BOOLEAN
  /\ pc \in [Blocks -> {"uncalled"} \cup Waits \cup Settled]
  /\ caller \in [Blocks -> Blocks \cup {Top}]
  /\ attempt \in [Blocks -> 0..(Attempts - 1)]
  /\ error \in [Blocks -> {"none", "connection", "other"}]
  /\ held \in [Blocks -> BOOLEAN]
  /\ tx \in [Blocks -> Transactions]
  /\ applied \in [Blocks -> Nat]

Init ==
  /\ poolSize \in PoolSizes
  /\ inAtomic = FALSE
  /\ pc = [b \in Blocks |-> "uncalled"]
  /\ caller = [b \in Blocks |-> Top]
  /\ attempt = [b \in Blocks |-> 0]
  /\ error = [b \in Blocks |-> "none"]
  /\ held = [b \in Blocks |-> FALSE]
  /\ tx = [b \in Blocks |-> "none"]
  /\ applied = [b \in Blocks |-> 0]

Goto(b, l) == pc' = [pc EXCEPT ![b] = l]

-----------------------------------------------------------------------------
(* The call, up to the callback.                                           *)

\* A callback awaits the calls it makes, one at a time.
Awaiting(p) == \E b \in Blocks : caller[b] = p /\ pc[b] \in Waits

Callers == {Top} \cup {p \in Blocks : Nested /\ pc[p] = "callback" /\ ~Awaiting(p)}

\* The nesting check reads the flag; the flag is set only after BEGIN.
Call(b, p) ==
  /\ pc[b] = "uncalled"
  /\ caller' = [caller EXCEPT ![b] = p]
  /\ Goto(b, IF inAtomic THEN "refused" ELSE "connection")
  /\ UNCHANGED <<poolSize, inAtomic, attempt, error, held, tx, applied>>

FreeConnection == Cardinality({b \in Blocks : held[b]}) < poolSize

Reserve(b) ==
  /\ pc[b] = "connection"
  /\ FreeConnection
  /\ held' = [held EXCEPT ![b] = TRUE]
  /\ Goto(b, "begin")
  /\ UNCHANGED <<poolSize, inAtomic, caller, attempt, error, tx, applied>>

\* Reserving or BEGIN fails: outside the try block, so there is no retry.
BeginFails(b) ==
  /\ pc[b] \in {"connection", "begin"}
  /\ held' = [held EXCEPT ![b] = FALSE]
  /\ Goto(b, "rejected")
  /\ UNCHANGED <<poolSize, inAtomic, caller, attempt, error, tx, applied>>

EnterCallback(b) ==
  /\ inAtomic' = TRUE
  /\ Goto(b, "callback")

Begun(b) ==
  /\ pc[b] = "begin"
  /\ tx' = [tx EXCEPT ![b] = "open"]
  /\ IF b \in Isolated THEN Goto(b, "isolation") /\ UNCHANGED inAtomic
                       ELSE EnterCallback(b)
  /\ UNCHANGED <<poolSize, caller, attempt, error, held, applied>>

IsolationSet(b) ==
  /\ pc[b] = "isolation"
  /\ EnterCallback(b)
  /\ UNCHANGED <<poolSize, caller, attempt, error, held, tx, applied>>

\* SET TRANSACTION fails outside the try block: nothing rolls back or releases.
IsolationFails(b) ==
  /\ pc[b] = "isolation"
  /\ Goto(b, "rejected")
  /\ UNCHANGED <<poolSize, inAtomic, caller, attempt, error, held, tx, applied>>

-----------------------------------------------------------------------------
(* The try block.                                                          *)

\* A statement fails and the callback goes on as if nothing had happened.
ErrorSwallowed(b) ==
  /\ pc[b] = "callback"
  /\ b \in Swallowing
  /\ tx[b] = "open"
  /\ tx' = [tx EXCEPT ![b] = "aborted"]
  /\ UNCHANGED <<poolSize, inAtomic, pc, caller, attempt, error, held, applied>>

CallbackReturns(b) ==
  /\ pc[b] = "callback"
  /\ ~Awaiting(b)
  /\ Goto(b, "commit")
  /\ UNCHANGED <<poolSize, inAtomic, caller, attempt, error, held, tx, applied>>

\* The callback throws a ConnectionError or something else; ROLLBACK is sent.
CallbackThrows(b, kind) ==
  /\ pc[b] = "callback"
  /\ ~Awaiting(b)
  /\ error' = [error EXCEPT ![b] = kind]
  /\ Goto(b, "rollback")
  /\ UNCHANGED <<poolSize, inAtomic, caller, attempt, held, tx, applied>>

\* Seeded fault: the finally of commit() and rollback() does not release.
StillHeldUnreleased == TRUE

\* commit() and rollback() release the connection in `finally`.
StillHeld == FALSE

\* What COMMIT does when it takes effect, and when it does not.
Commits(b) ==
  /\ tx[b] = "open"
  /\ tx' = [tx EXCEPT ![b] = "committed"]
  /\ applied' = [applied EXCEPT ![b] = @ + 1]

Discards(b) ==
  /\ tx' = [tx EXCEPT ![b] = "rolled back"]
  /\ UNCHANGED applied

\* COMMIT succeeds for the client; of an aborted transaction nothing remains.
Committed(b) ==
  /\ pc[b] = "commit"
  /\ Commits(b) \/ (tx[b] = "aborted" /\ Discards(b))
  /\ held' = [held EXCEPT ![b] = StillHeld]
  /\ inAtomic' = FALSE
  /\ Goto(b, "resolved")
  /\ UNCHANGED <<poolSize, caller, attempt, error>>

\* Seeded fault: a failed COMMIT surfaces as the ConnectionError it may come from.
CommitErrorAsConnection == "connection"

\* wrapError() makes a QueryError of whatever the driver throws.
CommitError == "other"

\* COMMIT fails for the client; the server may have committed before that.
CommitFails(b) ==
  /\ pc[b] = "commit"
  /\ Commits(b) \/ Discards(b)
  /\ held' = [held EXCEPT ![b] = StillHeld]
  /\ error' = [error EXCEPT ![b] = CommitError]
  /\ Goto(b, "rollback")
  /\ UNCHANGED <<poolSize, inAtomic, caller, attempt>>

-----------------------------------------------------------------------------
(* The catch and finally blocks.                                           *)

\* Seeded fault: one attempt too many (attempt <= attempts - 1).
CanRetryOnceMore(b) == error[b] = "connection" /\ attempt[b] + 1 <= Attempts

CanRetry(b) == error[b] = "connection" /\ attempt[b] + 1 < Attempts

\* ROLLBACK ends, its own failure is swallowed; after a failed COMMIT the
\* connection is already released and the statement has no effect.
RollbackEnds(b) ==
  /\ pc[b] = "rollback"
  /\ tx' = [tx EXCEPT ![b] = IF @ = "committed" THEN @ ELSE "rolled back"]
  /\ held' = [held EXCEPT ![b] = StillHeld]
  /\ IF CanRetry(b)
     THEN Goto(b, "pause") /\ UNCHANGED inAtomic
     ELSE Goto(b, "rejected") /\ inAtomic' = FALSE
  /\ UNCHANGED <<poolSize, caller, attempt, error, applied>>

\* The finally block runs on `continue`, too.
FlagAfterPause == FALSE

\* Bun.sleep(retryDelayMs) ends; `continue` runs the finally block on its way.
PauseEnds(b) ==
  /\ pc[b] = "pause"
  /\ inAtomic' = FlagAfterPause
  /\ attempt' = [attempt EXCEPT ![b] = @ + 1]
  /\ error' = [error EXCEPT ![b] = "none"]
  /\ Goto(b, "connection")
  /\ UNCHANGED <<poolSize, caller, held, tx, applied>>

CallbackEnds(b) ==
  CallbackReturns(b) \/ \E kind \in {"connection", "other"} : CallbackThrows(b, kind)

DriverAnswers(b) ==
  \/ BeginFails(b) \/ Begun(b)
  \/ IsolationSet(b) \/ IsolationFails(b)
  \/ Committed(b) \/ CommitFails(b)
  \/ RollbackEnds(b)

Next ==
  \E b \in Blocks :
    \/ \E p \in Callers : Call(b, p)
    \/ Reserve(b)
    \/ BeginFails(b)
    \/ Begun(b)
    \/ IsolationSet(b)
    \/ IsolationFails(b)
    \/ ErrorSwallowed(b)
    \/ CallbackReturns(b)
    \/ \E kind \in {"connection", "other"} : CallbackThrows(b, kind)
    \/ Committed(b)
    \/ CommitFails(b)
    \/ RollbackEnds(b)
    \/ PauseEnds(b)

Spec == Init /\ [][Next]_vars

\* Statements that were sent are answered, callbacks and pauses end, and the
\* driver's pool serves whoever keeps asking. A refused or failed reservation
\* is not relied on.
Fairness ==
  \A b \in Blocks :
    /\ SF_vars(Reserve(b))
    /\ WF_vars(pc[b] # "connection" /\ DriverAnswers(b))
    /\ WF_vars(CallbackEnds(b))
    /\ WF_vars(PauseEnds(b))

FairSpec == Spec /\ Fairness

-----------------------------------------------------------------------------
(* Properties.                                                             *)

\* However often the callback is retried, its writes take effect at most once:
\* once when the call resolves (unless the callback swallowed an error), never
\* when it rejects unless COMMIT took effect without an answer, never when it is
\* refused.
AllOrNothing ==
  \A b \in Blocks :
    /\ applied[b] <= 1
    /\ pc[b] = "resolved" => applied[b] = 1 \/ b \in Swallowing
    /\ pc[b] \in {"rejected", "refused"} /\ tx[b] # "committed" => applied[b] = 0

Closed(b) == ~held[b] /\ tx[b] \notin {"open", "aborted"}

\* The flag is set only while a call is between its callback and its finally
\* block: a flag that stayed behind would refuse every later call for good.
FlagHonest == inAtomic => \E b \in Blocks : pc[b] \in Inside

\* A call without an isolation level that has settled left no transaction open
\* and no connection reserved, whichever of its steps failed, and nobody leaves
\* the flag behind.
NothingLeftOpen ==
  /\ \A b \in Blocks \ Isolated : pc[b] \in Settled => Closed(b)
  /\ FlagHonest

\* Every attempt after the first starts clean: the one before it is rolled back,
\* its connection is released and none of its writes took effect.
RetryFromCleanSlate ==
  [][\A b \in Blocks : attempt'[b] # attempt[b]
        => tx[b] = "rolled back" /\ ~held[b] /\ applied[b] = 0]_vars

\* A failed SET TRANSACTION has left the call's transaction and connection behind.
Abandoned(b) == pc[b] = "rejected" /\ held[b] /\ tx[b] = "open"

\* Every connection is held by a call that will not give it back by itself: one
\* that was abandoned, or one whose callback awaits a call it made.
HeldUp ==
  /\ ~FreeConnection
  /\ \A b \in Blocks : held[b] => Abandoned(b) \/ (pc[b] = "callback" /\ Awaiting(b))

\* Every call settles unless it is held up for good: whatever fails, is retried
\* or waits its turn, only connections lost to a failed SET TRANSACTION, and
\* callbacks that hold all the others while calls they were let make wait for
\* one, keep a call of runAtomically() from settling.
EveryBlockSettles ==
  []<>~HeldUp => \A b \in Blocks : pc[b] \in Waits ~> pc[b] \in Settled

\* The promise runAtomically() makes, see AtomicPromise.
ResultOf(b) ==
  CASE pc[b] = "resolved" -> "resolved"
    [] pc[b] \in {"rejected", "refused"} -> "rejected"
    [] OTHER -> "pending"

Promise == INSTANCE AtomicPromise WITH result <- [b \in Blocks |-> ResultOf(b)]

\* Calls, retries and lost answers together are no more than AtomicPromise allows.
ImplementsPromise == Promise!Spec
=============================================================================
