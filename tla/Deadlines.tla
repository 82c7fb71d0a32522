------------------------------- MODULE Deadlines -------------------------------
(***************************************************************************)
(* Time limits and retries: calls under the limit of one operation and the *)
(* budget of their transaction (async/clock.ts, async/timeout.ts,          *)
(* async/abort.ts), and a function that is called again after a deadlock   *)
(* (transaction/deadlock.ts).                                              *)
(*                                                                         *)
(* The calls of a transaction may overlap.  Time passes one unit at a time *)
(* and not over a timer that is due; a function that heeds its signal      *)
(* rejects when that fires, others settle whenever they like.              *)
(***************************************************************************)
EXTENDS Integers, Sequences, FiniteSets

CONSTANTS None,        \* null and undefined: both mean that no limit is given
          Budgets,     \* values of timeout.transaction
          Globals,     \* values of timeout.query, or None
          Limits,      \* what a call may ask for, or None
          Calls,       \* calls that may run at once
          Heeding,     \* those whose function heeds its signal
          Adapter,     \* the adapter whose deadlocks are retried
          Failures,    \* what the retried function may throw
          MaxRetries, BaseDelay, MaxDelay,
          MaxElapsed   \* bound on time

\* An error of the retried function is [squn, causes]: whether it is the
\* library's, and the driver's codes from its direct cause inwards.
ASSUME DeadlinesAssumption ==
  /\ None \notin Int
  /\ Budgets \subseteq Int /\ Globals \subseteq Nat \union {None}
  /\ Limits \subseteq Nat \union {None} /\ Heeding \subseteq Calls
  /\ Failures \subseteq [squn : BOOLEAN, causes : Seq(STRING)]
  /\ MaxRetries \in Nat /\ BaseDelay \in Nat /\ MaxDelay \in Nat /\ MaxElapsed \in Nat

VARIABLES elapsed,     \* Date.now() - startedAt of the TransactionClock
          config,      \* [budget, global] of the TimeoutConfig
          call,        \* per call: [at, how, limit, ms, since, fired, as]
          retry        \* the loop: [at, attempt, lost, slept, outcome]
timeVars == <<elapsed, config, call>>
deadlineVars == <<elapsed, config, call, retry>>

Uncalled == [at |-> "idle", how |-> "none", limit |-> None, ms |-> None, since |-> 0,
             fired |-> FALSE, as |-> "none"]
\* What a function that returns leaves: no error.
Success == [squn |-> FALSE, causes |-> <<>>]

DeadlinesInit ==
  /\ elapsed = 0 /\ config \in [budget : Budgets, global : Globals]
  /\ call = [c \in Calls |-> Uncalled]
  /\ retry = [at |-> "idle", attempt |-> 0, lost |-> <<>>, slept |-> <<>>, outcome |-> Success]

-----------------------------------------------------------------------------
(* The limit of a call *)

AtMost(a, b) == IF a = None THEN b ELSE IF b = None THEN a ELSE IF a < b THEN a ELSE b

\* A budget of 0 is no budget.
remaining(budget) ==
  CASE budget <= 0 -> None
    [] budget > 0 -> IF elapsed >= budget THEN 0 ELSE budget - elapsed

\* Mutant: the limit of the call is not held against the budget.
resolveTimeoutUncapped(callTimeout) ==
  IF callTimeout # None THEN callTimeout ELSE AtMost(config.global, remaining(config.budget))

\* The call's own limit, or else the operation's; never more than what is
\* left of the transaction.
resolveTimeout(callTimeout) ==
  AtMost(IF callTimeout # None THEN callTimeout ELSE config.global, remaining(config.budget))

Running(c) == call[c].at = "running"
Ends(c, as, fired) ==
  call' = [call EXCEPT ![c].at = "idle", ![c].as = as, ![c].fired = fired]

\* withTimeout() of timeout.ts or of abort.ts sets a timer and calls the
\* function; without any limit the function is called as it is.
CallStarts(c, limit, how) ==
  /\ ~Running(c)
  /\ call' = [call EXCEPT ![c] = [at |-> "running", how |-> how, limit |-> limit,
                                  ms |-> resolveTimeout(limit), since |-> elapsed,
                                  fired |-> FALSE, as |-> "none"]]
  /\ UNCHANGED <<elapsed, config, retry>>

\* What a rejection becomes once the signal has fired: timeout.ts says so.
Rejection(how, fired) == IF how = "timeout" /\ fired THEN "TimeoutError" ELSE "error"

Due(c) == Running(c) /\ call[c].ms # None /\ ~call[c].fired /\ elapsed >= call[c].since + call[c].ms

\* The timer fires; a function that heeds the signal rejects at once.
TimerFires(c) ==
  /\ Due(c)
  /\ IF c \in Heeding THEN Ends(c, Rejection(call[c].how, TRUE), TRUE)
                      ELSE call' = [call EXCEPT ![c].fired = TRUE]
  /\ UNCHANGED <<elapsed, config, retry>>

\* The function returns or rejects; a late result is returned as any other.
CallSettles(c, ok) ==
  /\ Running(c)
  /\ Ends(c, IF ok THEN "result" ELSE Rejection(call[c].how, call[c].fired), call[c].fired)
  /\ UNCHANGED <<elapsed, config, retry>>

TimePasses ==
  /\ elapsed < MaxElapsed /\ \A c \in Calls : ~Due(c)
  /\ elapsed' = elapsed + 1
  /\ UNCHANGED <<config, call, retry>>

-----------------------------------------------------------------------------
(* The retry of deadlocks *)

Deadlocks == [mssql |-> "1205", postgres |-> "40P01", mysql |-> "1213", sqlite |-> "SQLITE_BUSY"]

\* Only the direct cause is looked at.
isDeadlock(err) == Len(err.causes) > 0 /\ err.causes[1] = Deadlocks[Adapter]

\* Mutant: the pauses double for ever.
delayUncapped(attempt) == BaseDelay * 2 ^ attempt

delay(attempt) ==
  IF BaseDelay * 2 ^ attempt < MaxDelay THEN BaseDelay * 2 ^ attempt ELSE MaxDelay

RetryStarts ==
  /\ retry.at = "idle"
  /\ retry' = [retry EXCEPT !.at = "running"]
  /\ UNCHANGED timeVars

RetryReturns ==
  /\ retry.at = "running"
  /\ retry' = [retry EXCEPT !.at = "done", !.outcome = Success]
  /\ UNCHANGED timeVars

GoesOn(err) == retry.attempt < MaxRetries /\ err.squn /\ isDeadlock(err)

RetryGivesUp(err) ==
  /\ retry.at = "running" /\ ~GoesOn(err)
  /\ retry' = [retry EXCEPT !.at = "done", !.outcome = err]
  /\ UNCHANGED timeVars

\* The pause is between half of the delay and all of it.
RetrySleeps(err) ==
  /\ retry.at = "running" /\ GoesOn(err)
  /\ \E jitter \in 0..delay(retry.attempt) :
       /\ 2 * jitter >= delay(retry.attempt)
       /\ retry' = [retry EXCEPT !.at = "sleeping", !.lost = Append(@, err),
                                 !.slept = Append(@, jitter)]
  /\ UNCHANGED timeVars

RetryAgain ==
  /\ retry.at = "sleeping"
  /\ retry' = [retry EXCEPT !.at = "running", !.attempt = @ + 1]
  /\ UNCHANGED timeVars

TimeNext ==
  \/ \E c \in Calls :
       \/ \E limit \in Limits, how \in {"timeout", "abort"} : CallStarts(c, limit, how)
       \/ TimerFires(c)
       \/ \E ok \in BOOLEAN : CallSettles(c, ok)
  \/ TimePasses
RetryNext ==
  \/ RetryStarts \/ RetryReturns \/ RetryAgain
  \/ \E err \in Failures : RetryGivesUp(err) \/ RetrySleeps(err)
DeadlinesNext == TimeNext \/ RetryNext

DeadlinesSpec == DeadlinesInit /\ [][DeadlinesNext]_deadlineVars

-----------------------------------------------------------------------------

\* A call that heeds its signal is not running when the budget of its
\* transaction or its own limit is over, unless it began just then; and a
\* TimeoutError says that the limit it goes by, or the budget, is over
\* (timeout.ts, clock.ts).
LimitsKept ==
  \A c \in Calls :
    LET x == call[c]
        own == IF x.limit # None THEN x.limit ELSE config.global
    IN /\ Running(c) /\ c \in Heeding =>
            /\ config.budget > 0 => elapsed <= config.budget \/ elapsed = x.since
            /\ own # None => elapsed <= x.since + own
       /\ x.as = "TimeoutError" =>
            \/ own # None /\ elapsed >= x.since + own
            \/ config.budget > 0 /\ elapsed >= config.budget

\* A deadlock of the adapter, one that retrying may get past.
Retryable(err) ==
  err.squn /\ err.causes # <<>> /\ Head(err.causes) = Deadlocks[Adapter]

\* The function is called again after a deadlock of its own adapter and after
\* nothing else, no more than maxRetries times, and it gives up on such a
\* deadlock only after all of them.  No pause is longer than the longest
\* delay, and none is shorter than the one before until they are past half of
\* it (deadlock.ts).
RetriesKept ==
  LET made == Len(retry.lost) IN
  /\ made <= MaxRetries /\ Len(retry.slept) = made
  /\ \A k \in DOMAIN retry.lost : Retryable(retry.lost[k])
  /\ retry.at = "done" /\ Retryable(retry.outcome) => made = MaxRetries
  /\ \A k \in DOMAIN retry.slept : retry.slept[k] <= MaxDelay
  /\ \A k \in 1..(made - 1) :
       retry.slept[k] <= retry.slept[k + 1] \/ 2 * retry.slept[k] > MaxDelay

DeadlinesKept == LimitsKept /\ RetriesKept
=============================================================================
