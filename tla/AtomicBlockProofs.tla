-------------------------- MODULE AtomicBlockProofs --------------------------
(***************************************************************************)
(* Proofs about AtomicBlock for any calls, pool size, attempts and         *)
(* nesting, and about Deadlines for any limits, calls and failures.        *)
(*                                                                         *)
(* AtomicBlock: the inductive invariant says what each wait of a call      *)
(* knows about its attempt: whether a connection is held and how its       *)
(* transaction stands.  With it, a commit is the last thing that happens   *)
(* to a call's writes.                                                     *)
(*                                                                         *)
(* Deadlines: a timer was set to end with the first of the two limits, and *)
(* time does not pass over it; the k-th pause is the one of the k-th       *)
(* attempt, and a delay is half of the next until it is the longest.       *)
(***************************************************************************)
EXTENDS AtomicBlock, Deadlines, FiniteSetTheorems, FunctionTheorems, SequenceTheorems, TLAPS

\* The connection and the transaction of the attempt, as pc implies them.
Stage(b) ==
  /\ pc[b] \in {"uncalled", "refused"} => ~held[b] /\ tx[b] = "none"
  /\ pc[b] = "connection" => ~held[b] /\ tx[b] \in {"none", "rolled back"}
  /\ pc[b] = "begin" => held[b] /\ tx[b] \in {"none", "rolled back"}
  /\ pc[b] = "isolation" => held[b] /\ tx[b] = "open"
  /\ pc[b] \in {"callback", "commit"} => held[b] /\ tx[b] \in {"open", "aborted"}
  /\ tx[b] = "aborted" => b \in Swallowing
  /\ pc[b] = "isolation" => b \in Isolated
  /\ pc[b] = "rollback" =>
       /\ tx[b] \in {"open", "aborted", "committed", "rolled back"}
       /\ tx[b] = "committed" => error[b] = "other"
  /\ pc[b] = "pause" => ~held[b] /\ tx[b] = "rolled back" /\ CanRetry(b)
  /\ pc[b] = "resolved" =>
       /\ ~held[b]
       /\ tx[b] = "committed" \/ (tx[b] = "rolled back" /\ b \in Swallowing)
  /\ pc[b] = "rejected" => Closed(b) \/ b \in Isolated

\* The writes took effect exactly when the attempt's transaction committed.
Counted(b) == applied[b] = IF tx[b] = "committed" THEN 1 ELSE 0

Inv ==
  /\ TypeOK
  /\ \A b \in Blocks : Stage(b) /\ Counted(b)
  /\ FlagHonest

\* The invariant holds before any call is made.
LEMMA InitInv == Init => Inv
<1> SUFFICES ASSUME Init PROVE Inv
  OBVIOUS
<1>1. 0 \in 0..(Attempts - 1) /\ 0 \in Nat
  BY AtomicAssumption
<1>2. TypeOK
  BY <1>1 DEF Init, TypeOK, Transactions
<1>3. \A b \in Blocks : Stage(b) /\ Counted(b)
  BY DEF Init, Stage, Counted
<1>4. FlagHonest
  BY DEF Init, FlagHonest
<1> QED BY <1>2, <1>3, <1>4 DEF Inv

\* What one step does to one call: nothing, or one of the steps of that call.
CallStep(b) ==
  \/ \E p \in Callers : Call(b, p)
  \/ Reserve(b)
  \/ BeginFails(b)
  \/ Begun(b)
  \/ IsolationSet(b)
  \/ IsolationFails(b)
  \/ ErrorSwallowed(b)
  \/ CallbackReturns(b)
  \/ \E kind \in {"connection", "other"} : CallbackThrows(b, kind)
  \/ Committed(b)
  \/ CommitFails(b)
  \/ RollbackEnds(b)
  \/ PauseEnds(b)

LEMMA NextIsCallStep == Next <=> \E b \in Blocks : CallStep(b)
  BY DEF Next, CallStep

\* Counting one up keeps a function into the naturals, and from 0 it gives 1.
LEMMA CountUp ==
  ASSUME NEW S, NEW f \in [S -> Nat], NEW b \in S
  PROVE  /\ [f EXCEPT ![b] = @ + 1] \in [S -> Nat]
         /\ [f EXCEPT ![b] = @] = f
         /\ f[b] = 0 => [f EXCEPT ![b] = @ + 1] = [f EXCEPT ![b] = 1]
<1>1. f[b] + 1 \in Nat
  OBVIOUS
<1>2. [f EXCEPT ![b] = @ + 1] \in [S -> Nat]
  BY <1>1
<1>3. [f EXCEPT ![b] = @] = f
  OBVIOUS
<1>4. f[b] = 0 => f[b] + 1 = 1
  OBVIOUS
<1> QED BY <1>2, <1>3, <1>4

\* The bound of an attempt number, in arithmetic alone.
LEMMA NextAttempt ==
  ASSUME NEW n \in Nat \ {0}, NEW a \in 0..(n - 1), a + 1 < n
  PROVE  a + 1 \in 0..(n - 1)
  OBVIOUS

\* COMMIT, answered or not, either counts the writes once or discards them.
LEMMA CommitCounts ==
  ASSUME Inv, NEW b \in Blocks, Committed(b) \/ CommitFails(b)
  PROVE  /\ pc[b] = "commit" /\ applied[b] = 0
         /\ \/ tx' = [tx EXCEPT ![b] = "committed"] /\ applied' = [applied EXCEPT ![b] = 1]
            \/ tx' = [tx EXCEPT ![b] = "rolled back"] /\ applied' = applied
         /\ tx' \in [Blocks -> Transactions]
         /\ applied' \in [Blocks -> Nat]
         /\ Counted(b)'
<1>1. applied \in [Blocks -> Nat] /\ tx \in [Blocks -> Transactions]
  BY DEF Inv, TypeOK
<1>2. pc[b] = "commit"
  BY DEF Committed, CommitFails
<1>3. applied[b] = 0
  BY <1>2 DEF Inv, Stage, Counted
<1>4. Commits(b) \/ Discards(b)
  BY DEF Committed, CommitFails
<1>5. CASE Commits(b)
  <2>1. applied' = [applied EXCEPT ![b] = @ + 1] /\ tx' = [tx EXCEPT ![b] = "committed"]
    BY <1>5 DEF Commits
  <2>2. applied' = [applied EXCEPT ![b] = 1]
    BY <1>1, <1>3, <2>1, CountUp
  <2>3. tx'[b] = "committed" /\ applied'[b] = 1
    BY <1>1, <2>1, <2>2
  <2>4. tx' \in [Blocks -> Transactions]
    BY <1>1, <2>1 DEF Transactions
  <2>5. applied' \in [Blocks -> Nat]
    BY <1>1, <2>2
  <2> QED BY <1>2, <1>3, <2>1, <2>2, <2>3, <2>4, <2>5 DEF Counted
<1>6. CASE Discards(b)
  BY <1>1, <1>2, <1>3, <1>6 DEF Discards, Counted, Transactions
<1> QED BY <1>4, <1>5, <1>6

\* A step keeps the types: the retry check keeps the attempts within bounds.
LEMMA TypeStep ==
  ASSUME Inv, NEW b \in Blocks, CallStep(b)
  PROVE  TypeOK'
<1> USE AtomicAssumption DEF Inv, TypeOK, Goto, Settled, Waits, Transactions
<1>1. CASE \E p \in Callers : Call(b, p)
  <2>1. PICK p \in Callers : Call(b, p)
    BY <1>1
  <2>2. p \in Blocks \cup {Top}
    BY <2>1 DEF Callers
  <2> QED BY <2>1, <2>2 DEF Call
<1>2. CASE Reserve(b)
  BY <1>2 DEF Reserve
<1>3. CASE BeginFails(b)
  BY <1>3 DEF BeginFails
<1>4. CASE Begun(b)
  BY <1>4 DEF Begun, EnterCallback
<1>5. CASE IsolationSet(b) \/ IsolationFails(b)
  BY <1>5 DEF IsolationSet, IsolationFails, EnterCallback
<1>6. CASE ErrorSwallowed(b)
  BY <1>6 DEF ErrorSwallowed
<1>7. CASE CallbackReturns(b) \/ \E kind \in {"connection", "other"} : CallbackThrows(b, kind)
  BY <1>7 DEF CallbackReturns, CallbackThrows
<1>8. CASE Committed(b) \/ CommitFails(b)
  <2>1. tx' \in [Blocks -> Transactions] /\ applied' \in [Blocks -> Nat]
    BY <1>8, CommitCounts
  <2> QED BY <1>8, <2>1 DEF Committed, CommitFails, StillHeld, CommitError
<1>9. CASE RollbackEnds(b)
  BY <1>9 DEF RollbackEnds, StillHeld
<1>10. CASE PauseEnds(b)
  <2>1. CanRetry(b)
    BY <1>10 DEF PauseEnds, Stage
  <2>2. attempt[b] \in 0..(Attempts - 1)
    OBVIOUS
  <2>3. attempt[b] + 1 \in 0..(Attempts - 1)
    BY <2>1, <2>2, NextAttempt DEF CanRetry
  <2> QED BY <1>10, <2>3 DEF PauseEnds, FlagAfterPause
<1> QED
  BY <1>1, <1>2, <1>3, <1>4, <1>5, <1>6, <1>7, <1>8, <1>9, <1>10 DEF CallStep

\* A step of one call leaves every other call's attempt alone.
LEMMA OthersKept ==
  ASSUME Inv, NEW b \in Blocks, CallStep(b), NEW x \in Blocks, x # b
  PROVE  /\ pc'[x] = pc[x]
         /\ attempt'[x] = attempt[x]
         /\ error'[x] = error[x]
         /\ held'[x] = held[x]
         /\ tx'[x] = tx[x]
         /\ applied'[x] = applied[x]
  BY DEF CallStep, Inv, TypeOK, Goto, Call, Reserve, BeginFails, Begun, EnterCallback,
     IsolationSet, IsolationFails, ErrorSwallowed, CallbackReturns, CallbackThrows, Committed,
     CommitFails, Commits, Discards, RollbackEnds, PauseEnds

\* A step keeps what its own call knows about its attempt.
LEMMA StageStep ==
  ASSUME Inv, NEW b \in Blocks, CallStep(b)
  PROVE  Stage(b)' /\ Counted(b)'
<1> USE AtomicAssumption DEF Inv, TypeOK, Stage, Counted, Goto, Transactions
<1>1. CASE \E p \in Callers : Call(b, p)
  BY <1>1 DEF Call
<1>2. CASE Reserve(b)
  BY <1>2 DEF Reserve
<1>3. CASE BeginFails(b)
  BY <1>3 DEF BeginFails, Closed
<1>4. CASE Begun(b)
  <2>1. held[b] /\ tx[b] # "committed"
    BY <1>4 DEF Begun
  <2> QED BY <1>4, <2>1 DEF Begun, EnterCallback
<1>5. CASE IsolationSet(b)
  BY <1>5 DEF IsolationSet, EnterCallback
<1>6. CASE IsolationFails(b)
  BY <1>6 DEF IsolationFails
<1>7. CASE ErrorSwallowed(b)
  BY <1>7 DEF ErrorSwallowed
<1>8. CASE CallbackReturns(b) \/ \E kind \in {"connection", "other"} : CallbackThrows(b, kind)
  BY <1>8 DEF CallbackReturns, CallbackThrows
<1>9. CASE Committed(b) \/ CommitFails(b)
  <2>1. Counted(b)'
    BY <1>9, CommitCounts
  <2>2. tx'[b] \in {"committed", "rolled back"}
    <3>1. \/ tx' = [tx EXCEPT ![b] = "committed"]
          \/ tx' = [tx EXCEPT ![b] = "rolled back"]
      BY <1>9, CommitCounts
    <3> QED BY <3>1
  <2>3. CASE Committed(b)
    <3>1. pc'[b] = "resolved" /\ ~held'[b]
      BY <2>3 DEF Committed, StillHeld
    <3>2. tx'[b] = "committed" \/ b \in Swallowing
      BY <2>3 DEF Committed, Commits
    <3> QED BY <2>1, <2>2, <3>1, <3>2
  <2>4. CASE CommitFails(b)
    <3>1. pc'[b] = "rollback" /\ error'[b] = "other"
      BY <2>4 DEF CommitFails, CommitError
    <3> QED BY <2>1, <2>2, <3>1
  <2> QED BY <1>9, <2>3, <2>4
<1>10. CASE RollbackEnds(b)
  BY <1>10 DEF RollbackEnds, StillHeld, CanRetry, Closed
<1>11. CASE PauseEnds(b)
  BY <1>11 DEF PauseEnds
<1> QED
  BY <1>1, <1>2, <1>3, <1>4, <1>5, <1>6, <1>7, <1>8, <1>9, <1>10, <1>11 DEF CallStep

\* Whoever raises the flag is inside, and whoever leaves lowers it.
LEMMA FlagStep ==
  ASSUME Inv, NEW b \in Blocks, CallStep(b)
  PROVE  FlagHonest'
<1> SUFFICES ASSUME inAtomic' = TRUE
             PROVE  \E x \in Blocks : pc'[x] \in Inside
  BY TypeStep DEF FlagHonest, TypeOK
<1>1. CASE pc'[b] \in Inside
  BY <1>1
<1>2. CASE pc'[b] \notin Inside
  <2>1. inAtomic = TRUE
    BY <1>2 DEF CallStep, Inv, TypeOK, Inside, Goto, Call, Reserve, BeginFails, Begun,
       EnterCallback, IsolationSet, IsolationFails, ErrorSwallowed, CallbackReturns, CallbackThrows,
       Committed, CommitFails, RollbackEnds, PauseEnds, FlagAfterPause
  <2>2. PICK x \in Blocks : pc[x] \in Inside
    BY <2>1 DEF Inv, FlagHonest
  <2>3. x # b
    BY <1>2, <2>2 DEF CallStep, Inv, TypeOK, Inside, Goto, Call, Reserve, BeginFails, Begun,
       EnterCallback, IsolationSet, IsolationFails, ErrorSwallowed, CallbackReturns, CallbackThrows,
       Committed, CommitFails, RollbackEnds, PauseEnds, FlagAfterPause
  <2> QED BY <2>2, <2>3, OthersKept
<1> QED BY <1>1, <1>2

\* Every step keeps the invariant.
LEMMA StepInv == Inv /\ [Next]_vars => Inv'
<1> SUFFICES ASSUME Inv, [Next]_vars PROVE Inv'
  OBVIOUS
<1>1. CASE Next
  <2>1. PICK b \in Blocks : CallStep(b)
    BY <1>1, NextIsCallStep
  <2>2. \A x \in Blocks : Stage(x)' /\ Counted(x)'
    <3> SUFFICES ASSUME NEW x \in Blocks PROVE Stage(x)' /\ Counted(x)'
      OBVIOUS
    <3>1. CASE x = b
      BY <2>1, <3>1, StageStep
    <3>2. CASE x # b
      BY <2>1, <3>2, OthersKept DEF Inv, Stage, Counted, CanRetry, Closed
    <3> QED BY <3>1, <3>2
  <2> QED BY <2>1, <2>2, TypeStep, FlagStep DEF Inv
<1>2. CASE UNCHANGED vars
  BY <1>2 DEF vars, Inv, TypeOK, Stage, Counted, FlagHonest, CanRetry, Closed
<1> QED BY <1>1, <1>2

\* The invariant holds in every reachable state.
THEOREM AtomicInvariant == Spec => []Inv
<1>1. Init => Inv
  BY InitInv
<1>2. Inv /\ [Next]_vars => Inv'
  BY StepInv
<1> QED BY <1>1, <1>2, PTL DEF Spec

\* For any calls and number of attempts the types hold: no attempt is counted beyond
\* the retries the caller asked for.
THEOREM AtomicTyped == Spec => []TypeOK
<1>1. Inv => TypeOK
  BY DEF Inv
<1> QED BY <1>1, AtomicInvariant, PTL

\* However calls overlap, nest and retry, the writes of each take effect at most
\* once, and exactly once when it resolves (atomic.ts 63-154).
THEOREM AtomicAllOrNothing == Spec => []AllOrNothing
<1>1. Inv => AllOrNothing
  <2> SUFFICES ASSUME Inv, NEW b \in Blocks
               PROVE  /\ applied[b] <= 1
                      /\ pc[b] = "resolved" => applied[b] = 1 \/ b \in Swallowing
                      /\ pc[b] \in {"rejected", "refused"} /\ tx[b] # "committed"
                           => applied[b] = 0
    BY DEF AllOrNothing
  <2>1. Counted(b) /\ Stage(b)
    BY DEF Inv
  <2>2. applied[b] = 0 \/ applied[b] = 1
    BY <2>1 DEF Counted
  <2>3. applied[b] <= 1
    BY <2>2
  <2> QED BY <2>1, <2>3 DEF Counted, Stage
<1> QED BY <1>1, AtomicInvariant, PTL

\* Without an isolation level no failure leaves a transaction or a connection
\* behind (the finally blocks of postgres.ts, the catch block of atomic.ts).
THEOREM AtomicNothingLeftOpen == Spec => []NothingLeftOpen
<1>1. Inv => NothingLeftOpen
  BY DEF Inv, TypeOK, Stage, NothingLeftOpen, Settled, Closed
<1> QED BY <1>1, AtomicInvariant, PTL

\* The process-wide flag never stays behind when nobody is inside.
THEOREM AtomicFlagHonest == Spec => []FlagHonest
<1>1. Inv => FlagHonest
  BY DEF Inv
<1> QED BY <1>1, AtomicInvariant, PTL

\* A retry starts only after the attempt before it is rolled back and released.
THEOREM AtomicRetryFromCleanSlate == Spec => RetryFromCleanSlate
<1> DEFINE Clean == \A b \in Blocks : attempt'[b] # attempt[b]
                      => tx[b] = "rolled back" /\ ~held[b] /\ applied[b] = 0
<1>1. Inv /\ [Next]_vars => [Clean]_vars
  <2> SUFFICES ASSUME Inv, Next, NEW x \in Blocks, attempt'[x] # attempt[x]
               PROVE  tx[x] = "rolled back" /\ ~held[x] /\ applied[x] = 0
    OBVIOUS
  <2>1. PICK b \in Blocks : CallStep(b)
    BY NextIsCallStep
  <2>2. x = b
    BY <2>1, OthersKept
  <2>3. pc[x] = "pause"
    BY <2>1, <2>2 DEF CallStep, Inv, TypeOK, Call, Reserve, BeginFails, Begun, IsolationSet,
       IsolationFails, ErrorSwallowed, CallbackReturns, CallbackThrows, Committed, CommitFails,
       RollbackEnds, PauseEnds
  <2> QED BY <2>3 DEF Inv, Stage, Counted
<1> QED BY <1>1, AtomicInvariant, PTL DEF Spec, RetryFromCleanSlate

-----------------------------------------------------------------------------
(* AtomicBlock implements AtomicPromise.                                   *)

Result == [b \in Blocks |-> ResultOf(b)]

\* A step that is not the commit of a call leaves its writes as they are.
LEMMA OnlyCommitApplies ==
  ASSUME Inv, NEW b \in Blocks, CallStep(b), ~Committed(b), ~CommitFails(b)
  PROVE  applied' = applied
  BY DEF CallStep, Call, Reserve, BeginFails, Begun, IsolationSet, IsolationFails,
     ErrorSwallowed, CallbackReturns, CallbackThrows, RollbackEnds, PauseEnds

\* A step of call b changes the result of no other call.
LEMMA ResultOfOthers ==
  ASSUME Inv, NEW b \in Blocks, CallStep(b)
  PROVE  Result' = [Result EXCEPT ![b] = ResultOf(b)']
  BY OthersKept DEF Result, ResultOf

\* Every step is an Apply, a Reject or a stutter of the promise.
LEMMA PromiseStep == Inv /\ [Next]_vars => [Promise!Next]_<<applied, Result>>
<1> SUFFICES ASSUME Inv, [Next]_vars
             PROVE  [Promise!Next]_<<applied, Result>>
  OBVIOUS
<1>1. CASE UNCHANGED vars
  BY <1>1 DEF vars, Result, ResultOf
<1>2. CASE Next
  <2>1. PICK b \in Blocks : CallStep(b)
    BY <1>2, NextIsCallStep
  <2>2. Result' = [Result EXCEPT ![b] = ResultOf(b)']
    BY <2>1, ResultOfOthers
  <2>3. Result[b] = ResultOf(b)
    BY DEF Result
  <2>4. CASE Committed(b)
    <3>1. applied[b] = 0 /\ ResultOf(b) = "pending" /\ ResultOf(b)' = "resolved"
      BY <2>4, CommitCounts DEF Committed, Goto, Inv, TypeOK, ResultOf
    <3>2. CASE Commits(b)
      <4>1. applied' = [applied EXCEPT ![b] = 1]
        BY <2>4, <3>1, <3>2, CountUp DEF Commits, Inv, TypeOK
      <4> QED BY <2>2, <2>3, <3>1, <4>1 DEF Promise!Next, Promise!Apply, Result
    <3>3. CASE tx[b] = "aborted" /\ Discards(b)
      <4>1. b \in Swallowing /\ applied' = applied
        BY <3>3 DEF Inv, Stage, Discards
      <4> QED BY <2>2, <2>3, <3>1, <4>1 DEF Promise!Next, Promise!ResolveUnapplied, Result
    <3> QED BY <2>4, <3>2, <3>3 DEF Committed
  <2>5. CASE CommitFails(b)
    <3>1. pc[b] = "commit" /\ applied[b] = 0 /\ ResultOf(b) = "pending"
      BY <2>5, CommitCounts DEF ResultOf
    <3>2. applied' = [applied EXCEPT ![b] = 1] \/ applied' = applied
      BY <2>5, CommitCounts
    <3>3. ResultOf(b)' = "pending"
      BY <2>5 DEF CommitFails, Goto, Inv, TypeOK, ResultOf
    <3>4. CASE applied' = applied
      BY <2>2, <2>3, <3>1, <3>3, <3>4 DEF Result
    <3>5. CASE applied' = [applied EXCEPT ![b] = 1]
      BY <2>2, <2>3, <3>1, <3>3, <3>5 DEF Promise!Next, Promise!Apply, Result
    <3> QED BY <3>2, <3>4, <3>5
  <2>6. CASE ~Committed(b) /\ ~CommitFails(b)
    <3>1. applied' = applied
      BY <2>1, <2>6, OnlyCommitApplies
    <3>2. \/ ResultOf(b)' = ResultOf(b)
          \/ ResultOf(b) = "pending" /\ ResultOf(b)' = "rejected"
      BY <2>1, <2>6 DEF CallStep, Inv, TypeOK, Goto, Call, Reserve, BeginFails, Begun,
         EnterCallback, IsolationSet, IsolationFails, ErrorSwallowed, CallbackReturns,
         CallbackThrows,
         RollbackEnds, PauseEnds, ResultOf
    <3>3. CASE ResultOf(b)' = ResultOf(b)
      BY <2>2, <2>3, <3>1, <3>3 DEF Result
    <3>4. CASE ResultOf(b) = "pending" /\ ResultOf(b)' = "rejected"
      BY <2>2, <2>3, <3>1, <3>4 DEF Promise!Next, Promise!Reject, Result
    <3> QED BY <3>2, <3>3, <3>4
  <2> QED BY <2>4, <2>5, <2>6
<1> QED BY <1>1, <1>2

\* runAtomically() over the adapter keeps its promise whatever fails.
THEOREM AtomicImplementsPromise == Spec => ImplementsPromise
<1>1. Init => Promise!Init
  BY DEF Init, Promise!Init, ResultOf
<1>2. Inv /\ [Next]_vars => [Promise!Next]_<<applied, Result>>
  BY PromiseStep
<1> QED BY <1>1, <1>2, AtomicInvariant, PTL DEF Spec, ImplementsPromise, Promise!Spec, Result

-----------------------------------------------------------------------------
(* Deadlines: the limits                                                   *)

Own(c) == IF call[c].limit # None THEN call[c].limit ELSE config.global

\* The limit the call goes by, or the budget, is over.
Over(c) ==
  \/ Own(c) # None /\ elapsed >= call[c].since + Own(c)
  \/ config.budget > 0 /\ elapsed >= config.budget

TimeTyped ==
  /\ elapsed \in Nat
  /\ config \in [budget : Int, global : Nat \union {None}]
  /\ call \in [Calls -> [at : {"idle", "running"}, how : {"none", "timeout", "abort"},
                         limit : Nat \union {None}, ms : Nat \union {None}, since : Nat,
                         fired : BOOLEAN, as : {"none", "result", "error", "TimeoutError"}]]

\* The timer was set to end with the limit of the call or with the budget,
\* whichever is first.
Timed(c) ==
  LET x == call[c] IN
  /\ Own(c) # None => x.ms # None /\ x.ms =< Own(c)
  /\ config.budget > 0 => x.ms # None /\ (x.since + x.ms =< config.budget \/ x.ms = 0)
  /\ x.ms # None => \/ Own(c) # None /\ x.ms = Own(c)
                    \/ config.budget > 0 /\ x.since + x.ms >= config.budget

CallInv(c) ==
  LET x == call[c] IN
  /\ x.since =< elapsed
  /\ Running(c) =>
       /\ Timed(c) /\ x.as = "none"
       /\ ~x.fired /\ x.ms # None => elapsed =< x.since + x.ms
       /\ x.fired => c \notin Heeding /\ x.ms # None /\ elapsed >= x.since + x.ms
  /\ x.as = "TimeoutError" => Over(c)

TimeInv == TimeTyped /\ \A c \in Calls : CallInv(c)

LEMMA TimeStart == DeadlinesInit => TimeInv
<1> SUFFICES ASSUME DeadlinesInit PROVE TimeInv
  OBVIOUS
<1>1. TimeTyped
  BY DeadlinesAssumption DEF DeadlinesInit, TimeTyped, Uncalled
<1>2. ASSUME NEW c \in Calls PROVE CallInv(c)
  BY DEF DeadlinesInit, CallInv, Running, Uncalled
<1> QED
  BY <1>1, <1>2 DEF TimeInv

\* Once a timer is over, so is the limit it was set by.
LEMMA TimerOver ==
  ASSUME TimeTyped, NEW c \in Calls, Timed(c), call[c].ms # None,
         elapsed >= call[c].since + call[c].ms
  PROVE  Over(c)
<1>1. /\ elapsed \in Nat /\ call[c].since \in Nat /\ call[c].ms \in Nat /\ config.budget \in Int
      /\ call[c].limit \in Nat \union {None} /\ config.global \in Nat \union {None}
  BY DEF TimeTyped
<1>2. Own(c) \in Nat \union {None}
  BY <1>1 DEF Own
<1> QED
  BY <1>1, <1>2 DEF Timed, Over

\* What a call does leaves the others alone.
LEMMA OthersCalls ==
  ASSUME TimeInv, NEW c \in Calls, NEW x, call' = [call EXCEPT ![c] = x],
         UNCHANGED <<elapsed, config>>,
         NEW d \in Calls, d # c
  PROVE  CallInv(d)'
<1>1. call'[d] = call[d]
  BY DEF TimeInv, TimeTyped
<1>2. CallInv(d)
  BY DEF TimeInv
<1> QED
  BY <1>1, <1>2 DEF CallInv, Running, Timed, Over, Own

LEMMA CallStartKeeps ==
  ASSUME TimeInv, NEW c \in Calls, NEW limit \in Limits, NEW how \in {"timeout", "abort"},
         CallStarts(c, limit, how)
  PROVE  TimeInv'
<1> DEFINE ms == resolveTimeout(limit)
           own == IF limit # None THEN limit ELSE config.global
           left == remaining(config.budget)
           x == [at |-> "running", how |-> how, limit |-> limit, ms |-> ms, since |-> elapsed,
                 fired |-> FALSE, as |-> "none"]
<1>1. call' = [call EXCEPT ![c] = x] /\ UNCHANGED <<elapsed, config>>
  BY DEF CallStarts
<1>2. /\ elapsed \in Nat /\ config.budget \in Int /\ own \in Nat \union {None}
      /\ limit \in Nat \union {None} /\ None \notin Int
  BY DeadlinesAssumption DEF TimeInv, TimeTyped
<1>3. /\ config.budget =< 0 => left = None
      /\ config.budget > 0 => /\ left \in Nat
                              /\ elapsed + left =< config.budget \/ left = 0
                              /\ elapsed + left >= config.budget
  BY <1>2 DEF remaining
<1>4. ms = AtMost(own, left)
  BY DEF resolveTimeout
<1> HIDE DEF left, own, ms
<1>5. /\ ms \in Nat \union {None}
      /\ own # None => ms # None /\ ms =< own
      /\ config.budget > 0 => ms # None /\ (elapsed + ms =< config.budget \/ ms = 0)
      /\ ms # None => \/ own # None /\ ms = own
                      \/ config.budget > 0 /\ elapsed + ms >= config.budget
  BY <1>2, <1>3, <1>4 DEF AtMost
<1>6. TimeTyped'
  BY <1>1, <1>2, <1>5 DEF TimeInv, TimeTyped
<1>7. call'[c] = x
  BY <1>1 DEF TimeInv, TimeTyped
<1>8. Own(c)' = own
  BY <1>1, <1>7 DEF Own, own
<1>9. Timed(c)'
  BY <1>1, <1>5, <1>7, <1>8 DEF Timed
<1>10. CallInv(c)'
  BY <1>1, <1>2, <1>5, <1>7, <1>9 DEF CallInv, Running
<1> QED
  BY <1>1, <1>6, <1>10, OthersCalls DEF TimeInv

\* A call that ends keeps its numbers, and may say that its timer was over
\* when it was.
LEMMA EndKeeps ==
  ASSUME TimeInv, NEW c \in Calls, NEW as \in {"result", "error", "TimeoutError"},
         NEW fired \in BOOLEAN, Ends(c, as, fired), UNCHANGED <<elapsed, config>>,
         as = "TimeoutError" => Over(c)
  PROVE  TimeInv'
<1> DEFINE x == [call[c] EXCEPT !.at = "idle", !.as = as, !.fired = fired]
<1>1. call' = [call EXCEPT ![c] = x]
  BY DEF Ends, TimeInv, TimeTyped
<1>2. TimeTyped'
  BY <1>1 DEF TimeInv, TimeTyped
<1>3. /\ call'[c].since = call[c].since /\ call'[c].limit = call[c].limit
      /\ call'[c].at = "idle" /\ call'[c].as = as
  BY <1>1 DEF TimeInv, TimeTyped
<1>4. CallInv(c)
  BY DEF TimeInv
<1>5. Over(c) => Over(c)'
  BY <1>3 DEF Over, Own
<1>6. CallInv(c)'
  BY <1>3, <1>4, <1>5 DEF CallInv, Running
<1> QED
  BY <1>1, <1>2, <1>6, OthersCalls DEF TimeInv

LEMMA TimeKept == TimeInv /\ [DeadlinesNext]_deadlineVars => TimeInv'
<1> SUFFICES ASSUME TimeInv, [DeadlinesNext]_deadlineVars
             PROVE  TimeInv'
  OBVIOUS
<1>1. ASSUME NEW c \in Calls, TimerFires(c)
      PROVE  TimeInv'
  <2>1. /\ Due(c) /\ Running(c) /\ call[c].ms # None /\ elapsed >= call[c].since + call[c].ms
        /\ Timed(c) /\ UNCHANGED <<elapsed, config>>
    BY <1>1 DEF TimerFires, Due, TimeInv, CallInv
  <2>2. Over(c)
    BY <2>1, TimerOver DEF TimeInv
  <2>3. CASE c \in Heeding
    <3>1. Ends(c, Rejection(call[c].how, TRUE), TRUE)
      BY <1>1, <2>3 DEF TimerFires
    <3> QED
      BY <2>1, <2>2, <3>1, EndKeeps DEF Rejection
  <2>4. CASE c \notin Heeding
    <3> DEFINE x == [call[c] EXCEPT !.fired = TRUE]
    <3>1. call' = [call EXCEPT ![c] = x]
      BY <1>1, <2>4 DEF TimerFires
    <3>2. TimeTyped'
      BY <2>1, <3>1 DEF TimeInv, TimeTyped
    <3>3. /\ call'[c].since = call[c].since /\ call'[c].limit = call[c].limit
          /\ call'[c].at = call[c].at /\ call'[c].as = call[c].as /\ call'[c].ms = call[c].ms
          /\ call'[c].fired
      BY <3>1 DEF TimeInv, TimeTyped
    <3>4. CallInv(c)
      BY DEF TimeInv
    <3>5. (Timed(c) => Timed(c)') /\ (Over(c) => Over(c)')
      BY <2>1, <3>3 DEF Timed, Over, Own
    <3>6. CallInv(c)'
      BY <2>1, <2>4, <3>3, <3>4, <3>5 DEF CallInv, Running
    <3> QED
      BY <2>1, <3>1, <3>2, <3>6, OthersCalls DEF TimeInv
  <2> QED
    BY <2>3, <2>4
<1>2. ASSUME NEW c \in Calls, NEW ok \in BOOLEAN, CallSettles(c, ok)
      PROVE  TimeInv'
  <2> DEFINE as == IF ok THEN "result" ELSE Rejection(call[c].how, call[c].fired)
  <2>1. /\ Running(c) /\ UNCHANGED <<elapsed, config>> /\ Ends(c, as, call[c].fired)
    BY <1>2 DEF CallSettles
  <2>2. call[c].fired \in BOOLEAN /\ as \in {"result", "error", "TimeoutError"}
    BY DEF TimeInv, TimeTyped, Rejection
  <2>3. as = "TimeoutError" => call[c].fired
    BY DEF Rejection
  <2>4. call[c].fired => Over(c)
    BY <2>1, TimerOver DEF TimeInv, CallInv
  <2> QED
    BY <2>1, <2>2, <2>3, <2>4, EndKeeps
<1>3. CASE TimePasses
  <2>1. elapsed' = elapsed + 1 /\ UNCHANGED <<config, call>> /\ \A c \in Calls : ~Due(c)
    BY <1>3 DEF TimePasses
  <2>2. TimeTyped'
    BY <2>1 DEF TimeInv, TimeTyped
  <2>3. ASSUME NEW c \in Calls PROVE CallInv(c)'
    <3>1. /\ elapsed \in Nat /\ call[c].since \in Nat /\ call[c].ms \in Nat \union {None}
          /\ config.budget \in Int /\ Own(c) \in Nat \union {None}
      BY DEF TimeInv, TimeTyped, Own
    <3>2. CallInv(c) /\ ~Due(c)
      BY <2>1 DEF TimeInv
    <3>3. Own(c)' = Own(c) /\ (Timed(c) => Timed(c)')
      BY <2>1 DEF Timed, Own
    <3>4. Over(c) => Over(c)'
      BY <2>1, <3>1, <3>3 DEF Over
    <3> QED
      BY <2>1, <3>1, <3>2, <3>3, <3>4 DEF CallInv, Running, Due
  <2> QED
    BY <2>2, <2>3 DEF TimeInv
<1>4. CASE UNCHANGED timeVars
  BY <1>4 DEF timeVars, TimeInv, TimeTyped, CallInv, Running, Timed, Over, Own
<1>5. RetryNext => UNCHANGED timeVars
  BY DEF RetryNext, RetryStarts, RetryReturns, RetryAgain, RetryGivesUp, RetrySleeps
<1> QED
  BY <1>1, <1>2, <1>3, <1>4, <1>5, CallStartKeeps DEF DeadlinesNext, TimeNext, deadlineVars, timeVars

\* The invariant of the calls says what LimitsKept asks.
LEMMA TimeKeepsLimits == TimeInv => LimitsKept
<1> SUFFICES ASSUME TimeInv, NEW c \in Calls
             PROVE  /\ Running(c) /\ c \in Heeding =>
                         /\ config.budget > 0 =>
                              elapsed <= config.budget \/ elapsed = call[c].since
                         /\ Own(c) # None => elapsed <= call[c].since + Own(c)
                    /\ call[c].as = "TimeoutError" =>
                         \/ Own(c) # None /\ elapsed >= call[c].since + Own(c)
                         \/ config.budget > 0 /\ elapsed >= config.budget
  BY DEF LimitsKept, Own
<1>1. /\ elapsed \in Nat /\ call[c].since \in Nat /\ call[c].ms \in Nat \union {None}
      /\ config.budget \in Int /\ Own(c) \in Nat \union {None} /\ call[c].fired \in BOOLEAN
  BY DEF TimeInv, TimeTyped, Own
<1>2. CallInv(c)
  BY DEF TimeInv
<1>3. call[c].as = "TimeoutError" => Over(c)
  BY <1>2 DEF CallInv
<1>4. ASSUME Running(c), c \in Heeding
      PROVE  /\ config.budget > 0 =>
                  elapsed <= config.budget \/ elapsed = call[c].since
             /\ Own(c) # None => elapsed <= call[c].since + Own(c)
  <2>1. /\ Timed(c) /\ call[c].since =< elapsed
        /\ call[c].ms # None => elapsed =< call[c].since + call[c].ms
    BY <1>1, <1>2, <1>4 DEF CallInv
  <2> QED
    BY <1>1, <2>1, DeadlinesAssumption DEF Timed
<1> QED
  BY <1>3, <1>4 DEF Over

-----------------------------------------------------------------------------
(* Deadlines: the retries                                                  *)

\* The powers of two by counting the subsets of 1..n: those with n and those
\* without are as many.
LEMMA TwoToThe == \A n \in Nat : 2^n \in Nat /\ 2^n = Cardinality(SUBSET (1..n))
<1> SUFFICES ASSUME NEW n \in Nat PROVE 2^n \in Nat /\ 2^n = Cardinality(SUBSET (1..n))
  OBVIOUS
<1>1. IsFiniteSet(1..n) /\ Cardinality(1..n) = n
  BY FS_Interval
<1>2. IsFiniteSet(SUBSET (1..n)) /\ Cardinality(SUBSET (1..n)) = 2^Cardinality(1..n)
  BY <1>1, FS_SUBSET, Zenon
<1>3. Cardinality(SUBSET (1..n)) \in Nat
  BY <1>2, FS_CardinalityType
<1> QED
  BY <1>1, <1>2, <1>3

LEMMA TwoDoubles == \A n \in Nat : 2^(n + 1) = 2 * 2^n
<1> SUFFICES ASSUME NEW n \in Nat PROVE 2^(n + 1) = 2 * 2^n
  OBVIOUS
<1> DEFINE m == n + 1
           A == 1..n
           B == 1..m
           S == SUBSET A
           T == (SUBSET B) \ (SUBSET A)
           f == [x \in S |-> x \union {m}]
<1>1. IsFiniteSet(S)
  <2>1. IsFiniteSet(A)
    BY FS_Interval
  <2> QED
    BY <2>1, FS_SUBSET, Zenon
<1>2. B = A \union {m} /\ m \notin A
  OBVIOUS
<1> HIDE DEF m, A, B
<1>3. S \union T = SUBSET B /\ S \cap T = {}
  <2>1. A \subseteq B
    BY <1>2
  <2>2. S \subseteq SUBSET B
    BY <2>1, Zenon
  <2> HIDE DEF S
  <2>3. T = (SUBSET B) \ S
    BY DEF S
  <2> HIDE DEF T
  <2> QED
    BY <2>2, <2>3
<1>4. f \in Bijection(S, T)
  <2>1. \A x \in S : f[x] = x \union {m} /\ m \notin x
    BY <1>2
  <2>2. ASSUME NEW x \in S PROVE x \union {m} \in T
    <3>1. x \subseteq A
      OBVIOUS
    <3>2. x \union {m} \subseteq B /\ ~(x \union {m} \subseteq A)
      BY <1>2, <3>1
    <3> QED
      BY <3>2, Zenon
  <2>3. ASSUME NEW x \in S, NEW y \in S, f[x] = f[y] PROVE x = y
    <3>1. x \union {m} = y \union {m} /\ m \notin x /\ m \notin y
      BY <2>1, <2>3
    <3> QED
      BY <3>1
  <2>4. ASSUME NEW z \in T PROVE \E x \in S : f[x] = z
    <3>1. m \in z /\ z \ {m} \in S
      <4>1. z \subseteq B /\ ~(z \subseteq A)
        BY Zenon
      <4>2. m \in z /\ z \ {m} \subseteq A
        BY <1>2, <4>1
      <4> QED
        BY <4>2, Zenon
    <3>2. f[z \ {m}] = z
      BY <3>1
    <3> QED
      BY <3>1, <3>2
  <2>5. f \in [S -> T]
    BY <2>2
  <2> HIDE DEF S, T, f
  <2>6. f \in Injection(S, T)
    BY <2>3, <2>5 DEF Injection, IsInjective
  <2>7. f \in Surjection(S, T)
    BY <2>4, <2>5 DEF Surjection
  <2> QED
    BY <2>6, <2>7 DEF Bijection
<1> HIDE DEF S, T, f
<1>5. IsFiniteSet(T) /\ Cardinality(T) = Cardinality(S)
  BY <1>1, <1>4, FS_Bijection, Zenon DEF ExistsBijection
<1>6. Cardinality(S \union T) = Cardinality(S) + Cardinality(T) - Cardinality(S \cap T)
  BY <1>1, <1>5, FS_Union
<1>7. Cardinality(SUBSET B) = Cardinality(S) + Cardinality(S) - 0
  BY <1>3, <1>5, <1>6, FS_EmptySet
<1>8. 2^n \in Nat /\ 2^n = Cardinality(S) /\ 2^m = Cardinality(SUBSET B)
  BY TwoToThe DEF S, A, B, m
<1>9. 2^m = 2 * 2^n
  BY <1>7, <1>8
<1> QED
  BY <1>9 DEF m

\* A delay is the longest one, or half of the next if that is shorter.
LEMMA DelaysGrow ==
  ASSUME NEW n \in Nat
  PROVE  /\ delay(n) \in Nat /\ delay(n) =< MaxDelay
         /\ delay(n + 1) = MaxDelay \/ delay(n + 1) = 2 * delay(n)
<1> DEFINE x == BaseDelay * 2^n
           y == BaseDelay * 2^(n + 1)
<1>1. BaseDelay \in Nat /\ MaxDelay \in Nat
  BY DeadlinesAssumption
<1>2. 2^n \in Nat /\ 2^(n + 1) = 2 * 2^n
  BY TwoToThe, TwoDoubles
<1>3. x \in Nat /\ y = 2 * x
  <2>1. ASSUME NEW p \in Nat PROVE BaseDelay * p \in Nat /\ BaseDelay * (2 * p) = 2 * (BaseDelay * p)
    BY <1>1
  <2> QED
    BY <1>2, <2>1
<1>4. delay(n) = (IF x < MaxDelay THEN x ELSE MaxDelay) /\ delay(n + 1) = (IF y < MaxDelay THEN y ELSE MaxDelay)
  BY DEF delay
<1> HIDE DEF x, y
<1> QED
  BY <1>1, <1>3, <1>4

RetryTyped ==
  retry \in [at : {"idle", "running", "sleeping", "done"}, attempt : Nat, lost : Seq(Failures),
             slept : Seq(Nat), outcome : Failures \union {Success}]

\* The k-th pause is the one of the k-th attempt.
Paused(k) == retry.slept[k] =< delay(k - 1) /\ 2 * retry.slept[k] >= delay(k - 1)

\* The loop is one attempt behind its pauses while it sleeps.
RetryInv ==
  /\ RetryTyped
  /\ Len(retry.lost) = Len(retry.slept)
  /\ Len(retry.lost) = IF retry.at = "sleeping" THEN retry.attempt + 1 ELSE retry.attempt
  /\ Len(retry.lost) =< MaxRetries
  /\ \A k \in 1..Len(retry.slept) : Paused(k)
  /\ \A k \in 1..Len(retry.lost) : Retryable(retry.lost[k])
  /\ retry.at = "done" /\ Retryable(retry.outcome) => retry.attempt = MaxRetries

LEMMA RetryStart == DeadlinesInit => RetryInv
<1> SUFFICES ASSUME DeadlinesInit PROVE RetryInv
  OBVIOUS
<1>1. /\ retry = [at |-> "idle", attempt |-> 0, lost |-> <<>>, slept |-> <<>>, outcome |-> Success]
      /\ MaxRetries \in Nat
  BY DeadlinesAssumption DEF DeadlinesInit
<1> QED
  BY <1>1 DEF RetryInv, RetryTyped

\* What the loop takes for a deadlock is one.
LEMMA DeadlocksSeen ==
  ASSUME NEW err \in Failures \union {Success}
  PROVE  Retryable(err) <=> err.squn /\ isDeadlock(err)
<1> DEFINE causes == err.causes
<1>1. causes \in Seq(STRING)
  <2>1. CASE err \in Failures
    BY <2>1, DeadlinesAssumption
  <2>2. CASE err = Success
    <3>1. <<>> \in Seq(STRING)
      OBVIOUS
    <3>2. causes = <<>>
      BY <2>2 DEF Success
    <3> QED
      BY <3>1, <3>2
  <2> QED
    BY <2>1, <2>2
<1> HIDE DEF causes
<1>2. (causes # <<>> <=> Len(causes) > 0) /\ (causes # <<>> => Head(causes) = causes[1])
  BY <1>1
<1> QED
  BY <1>2 DEF Retryable, isDeadlock, causes

LEMMA Longer ==
  ASSUME NEW S, NEW s \in Seq(S), NEW e \in S, NEW t, t = Append(s, e)
  PROVE  /\ t \in Seq(S) /\ Len(t) = Len(s) + 1
         /\ \A k \in 1..Len(s) : t[k] = s[k]
         /\ t[Len(s) + 1] = e
  OBVIOUS

LEMMA RetryKept == RetryInv /\ [DeadlinesNext]_deadlineVars => RetryInv'
<1> SUFFICES ASSUME RetryInv, [DeadlinesNext]_deadlineVars
             PROVE  RetryInv'
  OBVIOUS
<1>1. /\ RetryTyped /\ MaxRetries \in Nat
      /\ retry.at \in {"idle", "running", "sleeping", "done"} /\ retry.attempt \in Nat
      /\ retry.lost \in Seq(Failures) /\ retry.slept \in Seq(Nat)
  BY DeadlinesAssumption DEF RetryInv, RetryTyped
<1>2. CASE UNCHANGED retry
  BY <1>2 DEF RetryInv, RetryTyped, Paused
<1>3. CASE RetryStarts
  <2>1. retry' = [retry EXCEPT !.at = "running"] /\ retry.at = "idle"
    BY <1>3 DEF RetryStarts
  <2> QED
    BY <1>1, <2>1 DEF RetryInv, RetryTyped, Paused
<1>4. CASE RetryReturns
  <2>1. retry' = [retry EXCEPT !.at = "done", !.outcome = Success] /\ retry.at = "running"
    BY <1>4 DEF RetryReturns
  <2>2. ~Retryable(Success)
    BY DEF Retryable, Success
  <2> QED
    BY <1>1, <2>1, <2>2 DEF RetryInv, RetryTyped, Paused
<1>5. CASE RetryAgain
  <2>1. retry' = [retry EXCEPT !.at = "running", !.attempt = @ + 1] /\ retry.at = "sleeping"
    BY <1>5 DEF RetryAgain
  <2>2. /\ retry'.lost = retry.lost /\ retry'.slept = retry.slept /\ retry'.at = "running"
        /\ retry'.attempt = retry.attempt + 1
    BY <1>1, <2>1 DEF RetryTyped
  <2>3. RetryTyped'
    <3>1. retry.attempt + 1 \in Nat
      BY <1>1
    <3>2. retry' = [retry EXCEPT !.at = "running", !.attempt = retry.attempt + 1]
      BY <2>1
    <3> QED
      BY <1>1, <3>1, <3>2, Zenon DEF RetryTyped
  <2>4. \A k \in 1..Len(retry'.slept) : Paused(k)'
    BY <2>2 DEF RetryInv, Paused
  <2> QED
    BY <2>1, <2>2, <2>3, <2>4 DEF RetryInv
<1>6. ASSUME NEW err \in Failures, RetryGivesUp(err)
      PROVE  RetryInv'
  <2>1. retry' = [retry EXCEPT !.at = "done", !.outcome = err] /\ retry.at = "running" /\ ~GoesOn(err)
    BY <1>6 DEF RetryGivesUp
  <2>2. /\ retry'.lost = retry.lost /\ retry'.slept = retry.slept /\ retry'.at = "done"
        /\ retry'.attempt = retry.attempt /\ retry'.outcome = err
    BY <1>1, <2>1 DEF RetryTyped
  <2>3. RetryTyped'
    BY <1>1, <2>1 DEF RetryTyped
  <2>4. \A k \in 1..Len(retry'.slept) : Paused(k)'
    BY <2>2 DEF RetryInv, Paused
  <2>5. Retryable(err) => ~(retry.attempt < MaxRetries)
    BY <2>1, DeadlocksSeen DEF GoesOn
  <2>6. retry.attempt =< MaxRetries
    BY <2>1 DEF RetryInv
  <2>7. Retryable(err) => retry.attempt = MaxRetries
    BY <1>1, <2>5, <2>6
  <2> QED
    BY <2>1, <2>2, <2>3, <2>4, <2>7 DEF RetryInv
<1>7. ASSUME NEW err \in Failures, RetrySleeps(err)
      PROVE  RetryInv'
  <2> DEFINE n == Len(retry.lost)
  <2>1. retry.at = "running" /\ retry.attempt < MaxRetries /\ Retryable(err)
    BY <1>7, DeadlocksSeen DEF RetrySleeps, GoesOn
  <2>2. n = Len(retry.slept) /\ n = retry.attempt /\ n \in Nat
    BY <1>1, <2>1 DEF RetryInv
  <2>3. PICK jitter \in 0..delay(retry.attempt) :
          /\ 2 * jitter >= delay(retry.attempt)
          /\ retry' = [retry EXCEPT !.at = "sleeping", !.lost = Append(@, err),
                                    !.slept = Append(@, jitter)]
    BY <1>7 DEF RetrySleeps
  <2>4. jitter \in Nat /\ jitter =< delay(n) /\ 2 * jitter >= delay(n)
    BY <1>1, <2>2, <2>3, DelaysGrow
  <2>5. /\ retry'.lost = Append(retry.lost, err) /\ retry'.slept = Append(retry.slept, jitter)
        /\ retry'.at = "sleeping" /\ retry'.attempt = retry.attempt
    BY <1>1, <2>3 DEF RetryTyped
  <2>6. /\ retry'.lost \in Seq(Failures) /\ Len(retry'.lost) = n + 1
        /\ \A k \in 1..n : retry'.lost[k] = retry.lost[k]
        /\ retry'.lost[n + 1] = err
    <3> DEFINE t == retry'.lost
    <3>1. t = Append(retry.lost, err)
      BY <2>5
    <3> HIDE DEF t
    <3>2. /\ t \in Seq(Failures) /\ Len(t) = Len(retry.lost) + 1
          /\ \A k \in 1..Len(retry.lost) : t[k] = retry.lost[k]
          /\ t[Len(retry.lost) + 1] = err
      BY <1>1, <3>1, Longer
    <3> QED
      BY <3>2 DEF t
  <2>7. /\ retry'.slept \in Seq(Nat) /\ Len(retry'.slept) = n + 1
        /\ \A k \in 1..n : retry'.slept[k] = retry.slept[k]
        /\ retry'.slept[n + 1] = jitter
    <3> DEFINE t == retry'.slept
    <3>1. t = Append(retry.slept, jitter)
      BY <2>5
    <3> HIDE DEF t
    <3>2. /\ t \in Seq(Nat) /\ Len(t) = Len(retry.slept) + 1
          /\ \A k \in 1..Len(retry.slept) : t[k] = retry.slept[k]
          /\ t[Len(retry.slept) + 1] = jitter
      BY <1>1, <2>4, <3>1, Longer
    <3> QED
      BY <2>2, <3>2 DEF t
  <2>8. RetryTyped'
    BY <1>1, <2>3, <2>5, <2>6, <2>7 DEF RetryTyped
  <2>9. \A k \in 1..n : Retryable(retry.lost[k]) /\ Paused(k)
    BY <2>2 DEF RetryInv
  <2>10. ASSUME NEW k \in 1..(n + 1) PROVE Retryable(retry'.lost[k]) /\ Paused(k)'
    <3>1. CASE k = n + 1
      <4>1. k - 1 = n
        BY <2>2, <3>1
      <4> QED
        BY <2>1, <2>4, <2>6, <2>7, <3>1, <4>1 DEF Paused
    <3>2. CASE k \in 1..n
      BY <2>6, <2>7, <2>9, <3>2 DEF Paused
    <3> QED
      BY <2>2, <3>1, <3>2
  <2>11. n + 1 =< MaxRetries
    BY <1>1, <2>1, <2>2
  <2> HIDE DEF n
  <2> QED
    BY <2>2, <2>5, <2>6, <2>7, <2>8, <2>10, <2>11 DEF RetryInv
<1>8. TimeNext => UNCHANGED retry
  BY DEF TimeNext, CallStarts, TimerFires, CallSettles, TimePasses
<1> QED
  BY <1>2, <1>3, <1>4, <1>5, <1>6, <1>7, <1>8 DEF DeadlinesNext, RetryNext, deadlineVars

\* The invariant of the loop says what RetriesKept asks.
LEMMA RetryKeepsRetries == RetryInv => RetriesKept
<1> SUFFICES ASSUME RetryInv PROVE RetriesKept
  OBVIOUS
<1>1. /\ MaxRetries \in Nat /\ MaxDelay \in Nat /\ retry.lost \in Seq(Failures)
      /\ retry.slept \in Seq(Nat) /\ retry.attempt \in Nat
  BY DeadlinesAssumption DEF RetryInv, RetryTyped
<1> DEFINE made == Len(retry.lost)
<1>2. made \in Nat /\ made = Len(retry.slept) /\ made =< MaxRetries
  BY <1>1 DEF RetryInv
<1>3. retry.at = "done" /\ Retryable(retry.outcome) => made = MaxRetries
  BY DEF RetryInv
<1> DEFINE slept == retry.slept
<1>4. ASSUME NEW k \in 1..made
      PROVE  /\ slept[k] \in Nat /\ delay(k - 1) \in Nat /\ delay(k - 1) =< MaxDelay
             /\ slept[k] =< delay(k - 1) /\ 2 * slept[k] >= delay(k - 1)
  <2>1. k - 1 \in Nat /\ k \in 1..Len(slept)
    BY <1>2
  <2>2. Paused(k)
    BY <2>1 DEF RetryInv
  <2>3. slept[k] \in Nat
    BY <1>1, <2>1
  <2> QED
    BY <2>1, <2>2, <2>3, DelaysGrow DEF Paused
<1> HIDE DEF made, slept
<1>5. ASSUME NEW k \in 1..made PROVE slept[k] =< MaxDelay
  BY <1>1, <1>4
<1>6. ASSUME NEW k \in 1..(made - 1)
      PROVE  slept[k] =< slept[k + 1] \/ 2 * slept[k] > MaxDelay
  <2>1. k \in 1..made /\ k + 1 \in 1..made /\ k - 1 \in Nat /\ (k - 1) + 1 = k /\ (k + 1) - 1 = k
    BY <1>2
  <2>2. delay(k) = MaxDelay \/ delay(k) = 2 * delay(k - 1)
    BY <2>1, DelaysGrow
  <2>3. slept[k] \in Nat /\ slept[k] =< delay(k - 1) /\ delay(k - 1) \in Nat
    BY <1>4, <2>1
  <2>4. slept[k + 1] \in Nat /\ 2 * slept[k + 1] >= delay(k)
    BY <1>4, <2>1
  <2> HIDE DEF made
  <2> QED
    BY <1>1, <2>2, <2>3, <2>4
<1> USE DEF made, slept
<1>7. DOMAIN retry.lost = 1..made /\ DOMAIN retry.slept = 1..made
  BY <1>1, <1>2
<1>8. \A k \in DOMAIN retry.lost : Retryable(retry.lost[k])
  BY <1>7 DEF RetryInv
<1> QED
  BY <1>2, <1>3, <1>5, <1>6, <1>7, <1>8 DEF RetriesKept

\* No call outlives its limits, and nothing is retried but a deadlock, whatever
\* the limits, the calls and the failures (timeout.ts, clock.ts, deadlock.ts).
THEOREM DeadlinesAlwaysKept == DeadlinesSpec => []DeadlinesKept
<1>1. DeadlinesInit => TimeInv /\ RetryInv
  BY TimeStart, RetryStart
<1>2. (TimeInv /\ RetryInv) /\ [DeadlinesNext]_deadlineVars => (TimeInv /\ RetryInv)'
  BY TimeKept, RetryKept
<1>3. TimeInv /\ RetryInv => DeadlinesKept
  BY TimeKeepsLimits, RetryKeepsRetries DEF DeadlinesKept
<1> QED
  BY <1>1, <1>2, <1>3, PTL DEF DeadlinesSpec
=============================================================================
