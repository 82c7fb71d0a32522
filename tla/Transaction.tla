---------------------------- MODULE Transaction ----------------------------
(***************************************************************************)
(* A Transaction (src/transaction/transaction.ts), its savepoints          *)
(* (savepoint.ts) and the db.transaction() that runs a callback with it    *)
(* (src/db.ts), over one PostgreSQL transaction (adapters/postgres.ts).    *)
(*                                                                         *)
(* The callback may run several tasks at once (Promise.all): each awaits   *)
(* its own calls, and the callback throws as soon as one task throws,      *)
(* while the others run on. A call checks the state and sends its          *)
(* statement in one step; the state changes when the answer is back. The   *)
(* statements of a connection are executed in the order they were sent.    *)
(*                                                                         *)
(* The server is external. A failed statement aborts the transaction;      *)
(* ROLLBACK TO takes an aborted transaction back to an open one; COMMIT    *)
(* of an aborted transaction rolls back without an error; a statement      *)
(* that is executed after the end commits by itself; a lost connection     *)
(* rolls back, unless a COMMIT on its way took effect.                     *)
(*                                                                         *)
(* Executing a statement and handing its answer to the caller are one      *)
(* step. query() differs from execute() in nothing that is modelled.       *)
(***************************************************************************)
EXTENDS Naturals, Sequences

CONSTANTS
  Tasks,     \* the concurrent users of the Transaction inside the callback
  Wrapper,   \* db.transaction() itself
  MaxCalls,  \* bound on the calls the tasks make
  Marks      \* the states that markTimedOut() and markFailed() are called for

ASSUME TransactionAssumption ==
  /\ Wrapper \notin Tasks
  /\ MaxCalls \in Nat
  /\ Marks \subseteq {"TIMED_OUT", "FAILED"}

VARIABLES
  state,     \* _state
  depth,     \* _savepointDepth
  released,  \* the connection is back in the driver's pool
  fn,        \* the callback: running, returned or threw
  thrower,   \* the task that threw, or Wrapper
  outcome,   \* of the promise db.transaction() returned
  sent,      \* statements sent and not answered, oldest first
  server,    \* the transaction as the server has it
  lost,      \* the connection is lost
  work,      \* the statements whose effects the open transaction holds
  points,    \* its savepoints, oldest first
  durable,   \* the statements whose effects are committed
  calls,     \* number of calls made: the last one's id
  handles,   \* Savepoint objects, each with the work it was created over
  ends,      \* history: every commit and rollback asked for
  late,      \* history: the calls made while an end was on its way
  marked     \* history: markTimedOut() or markFailed() was called

client == <<state, depth, released, fn, thrower, outcome>>
connection == <<sent, server, lost, work, points, durable>>
history == <<calls, handles, ends, late, marked>>
vars == <<client, connection, history>>

States == {"ACTIVE", "COMMITTED", "ROLLED_BACK", "TIMED_OUT", "FAILED"}
Endings == {"commit", "rollback"}
Kinds == Endings \cup {"execute", "savepoint", "rollback_to", "release"}
Ended == {"committed", "rolled_back", "discarded"}
Actors == Tasks \cup {Wrapper}
Ids == Nat \ {0}

Statement == [id : Ids, by : Actors, kind : Kinds, name : Nat]
Point == [name : Nat, work : SUBSET Ids]
Handle == [name : Nat, saved : SUBSET Ids]
EndCall == [id : Ids, by : Actors, kind : Endings]

OneWaitEach == \A i, j \in 1..Len(sent) : sent[i].by = sent[j].by => i = j

\* Types of the variables; nobody waits for two statements at once, and the
\* depth counts no more than the calls that were made.
TypeOK ==
  /\ state \in States
  /\ depth \in Nat /\ depth <= calls
  /\ released \in BOOLEAN
  /\ fn \in {"running", "returned", "threw"}
  /\ thrower \in Actors
  /\ outcome \in {"pending", "resolved", "rejected"}
  /\ sent \in Seq(Statement) /\ OneWaitEach
  /\ server \in {"open", "aborted"} \cup Ended
  /\ lost \in BOOLEAN
  /\ work \in SUBSET Ids
  /\ points \in Seq(Point)
  /\ durable \in SUBSET Ids
  /\ calls \in Nat
  /\ handles \in SUBSET Handle
  /\ ends \in SUBSET EndCall
  /\ late \in SUBSET Ids
  /\ marked \in BOOLEAN

Init ==
  /\ state = "ACTIVE" /\ depth = 0 /\ released = FALSE
  /\ fn = "running" /\ thrower = Wrapper /\ outcome = "pending"
  /\ sent = <<>> /\ server = "open" /\ lost = FALSE
  /\ work = {} /\ points = <<>> /\ durable = {}
  /\ calls = 0 /\ handles = {} /\ ends = {} /\ late = {} /\ marked = FALSE

-----------------------------------------------------------------------------
(* Calls.                                                                  *)

ActiveUnlessCommitted == state # "COMMITTED"

Active == state = "ACTIVE"

InFlight(a) == \E i \in 1..Len(sent) : sent[i].by = a
EndInFlight == \E i \in 1..Len(sent) : sent[i].kind \in Endings

\* A task that runs: it has not thrown and awaits no call, and the callback has not returned.
Free(t) == fn # "returned" /\ thrower # t /\ ~InFlight(t)

Send(a, kind, name) ==
  /\ calls' = calls + 1
  /\ sent' = Append(sent, [id |-> calls', by |-> a, kind |-> kind, name |-> name])
  /\ late' = IF EndInFlight THEN late \cup {calls'} ELSE late
  /\ UNCHANGED <<server, lost, work, points, durable, handles, marked>>

Execute(t) ==
  /\ Free(t) /\ Active /\ calls < MaxCalls
  /\ Send(t, "execute", 0)
  /\ UNCHANGED <<client, ends>>

NextDepthTwice == depth + 2
NextDepthLive == Len(points) + 1

\* The depth names the savepoint, and grows before the statement is sent.
NextDepth == depth + 1

Savepoint(t) ==
  /\ Free(t) /\ Active /\ calls < MaxCalls
  /\ depth' = NextDepth
  /\ Send(t, "savepoint", NextDepth)
  /\ UNCHANGED <<state, released, fn, thrower, outcome, ends>>

\* Savepoint.rollback() and release() do not ask for the state; a released
\* connection refuses their statements.
PointCall(t, kind) ==
  /\ Free(t) /\ calls < MaxCalls
  /\ ~released
  /\ \E h \in handles : Send(t, kind, h.name)
  /\ UNCHANGED <<client, ends>>

SendEnd(a, kind) ==
  /\ Send(a, kind, 0)
  /\ ends' = ends \cup {[id |-> calls', by |-> a, kind |-> kind]}

\* commit(), rollback(), and the rollback() of `await using`.
End(t, kind) ==
  /\ Free(t) /\ Active /\ calls < MaxCalls
  /\ SendEnd(t, kind)
  /\ UNCHANGED client

Mark(t, s) ==
  /\ Free(t)
  /\ state' = s
  /\ marked' = TRUE
  /\ UNCHANGED <<depth, released, fn, thrower, outcome, connection>>
  /\ UNCHANGED <<calls, handles, ends, late>>

-----------------------------------------------------------------------------
(* db.transaction().                                                       *)

EndIfActiveByCommit(kind, settled) ==
  IF Active
    THEN SendEnd(Wrapper, "commit") /\ UNCHANGED outcome
    ELSE outcome' = settled /\ UNCHANGED <<connection, history>>

EndIfActiveForgotten(kind, settled) ==
  outcome' = settled /\ UNCHANGED <<connection, history>>

\* What the wrapper does when the callback is over: it ends a transaction
\* that is still ACTIVE, and leaves any other to whoever ended it.
EndIfActive(kind, settled) ==
  IF Active
    THEN SendEnd(Wrapper, kind) /\ UNCHANGED outcome
    ELSE outcome' = settled /\ UNCHANGED <<connection, history>>

CallbackReturns ==
  /\ fn = "running"
  /\ sent = <<>>
  /\ fn' = "returned"
  /\ EndIfActive("commit", "resolved")
  /\ UNCHANGED <<state, depth, released, thrower>>

CallbackThrows(t) ==
  /\ fn = "running"
  /\ Free(t)
  /\ fn' = "threw"
  /\ thrower' = t
  /\ EndIfActive("rollback", "rejected")
  /\ UNCHANGED <<state, depth, released>>

-----------------------------------------------------------------------------
(* The server executes the oldest statement, and its caller goes on.       *)

Oldest(kinds) == sent # <<>> /\ Head(sent).kind \in kinds

\* The latest savepoint of the name the statement gives.
IsNamed(i) ==
  /\ points[i].name = Head(sent).name
  /\ \A j \in 1..Len(points) : points[j].name = Head(sent).name => j <= i

Executed ==
  /\ Oldest({"execute"}) /\ ~lost
  /\ \/ /\ server = "open"
        /\ work' = work \cup {Head(sent).id}
        /\ UNCHANGED durable
     \/ /\ server \in Ended
        /\ durable' = durable \cup {Head(sent).id}
        /\ UNCHANGED work
  /\ sent' = Tail(sent)
  /\ UNCHANGED <<client, server, lost, points, history>>

SavepointMade ==
  /\ Oldest({"savepoint"})
  /\ server = "open"
  /\ sent' = Tail(sent)
  /\ points' = Append(points, [name |-> Head(sent).name, work |-> work])
  /\ handles' = handles \cup {[name |-> Head(sent).name, saved |-> work]}
  /\ UNCHANGED <<client, server, lost, work, durable, calls, ends, late, marked>>

\* ROLLBACK TO keeps the savepoint it names and drops those made after it.
RolledBackTo ==
  /\ Oldest({"rollback_to"})
  /\ server \in {"open", "aborted"}
  /\ sent' = Tail(sent)
  /\ server' = "open"
  /\ \E i \in 1..Len(points) :
       IsNamed(i) /\ points' = SubSeq(points, 1, i) /\ work' = points[i].work
  /\ UNCHANGED <<client, lost, durable, history>>

\* RELEASE drops the savepoint it names and those made after it.
PointReleased ==
  /\ Oldest({"release"})
  /\ server = "open"
  /\ sent' = Tail(sent)
  /\ \E i \in 1..Len(points) : IsNamed(i) /\ points' = SubSeq(points, 1, i - 1)
  /\ UNCHANGED <<client, server, lost, work, durable, history>>

StatementFails ==
  /\ Oldest(Kinds \ Endings)
  /\ sent' = Tail(sent)
  /\ server' = IF server = "open" THEN "aborted" ELSE server
  /\ UNCHANGED <<client, lost, work, points, durable, history>>

\* commit() and rollback() release the connection however they end.
Answered(s, settled) ==
  /\ state' = s
  /\ released' = TRUE
  /\ outcome' = IF Head(sent).by = Wrapper THEN settled ELSE outcome
  /\ sent' = Tail(sent)
  /\ UNCHANGED <<depth, fn, thrower, lost, history>>

ServerEnds(s) ==
  /\ server' = s
  /\ durable' = IF s = "committed" THEN durable \cup work ELSE durable
  /\ work' = {}
  /\ points' = <<>>

ServerUnchanged == UNCHANGED <<server, work, points, durable>>

Committed ==
  /\ Oldest({"commit"}) /\ ~lost
  /\ Answered("COMMITTED", "resolved")
  /\ \/ server = "open" /\ ServerEnds("committed")
     \/ server = "aborted" /\ ServerEnds("discarded")
     \/ server \in Ended /\ ServerUnchanged

RolledBack ==
  /\ Oldest({"rollback"}) /\ ~lost
  /\ Answered("ROLLED_BACK", "rejected")
  /\ \/ server \in {"open", "aborted"} /\ ServerEnds("rolled_back")
     \/ server \in Ended /\ ServerUnchanged

EndFails ==
  /\ \/ Oldest({"commit"}) /\ server = "open" /\ ServerEnds("rolled_back")
     \/ Oldest(Endings) /\ lost /\ ServerUnchanged
  /\ Answered("FAILED", "rejected")

ConnectionLost ==
  /\ ~lost
  /\ lost' = TRUE
  /\ \/ server \in {"open", "aborted"} /\ ServerEnds("rolled_back")
     \/ server = "open" /\ Oldest({"commit"}) /\ ServerEnds("committed")
     \/ server \in Ended /\ ServerUnchanged
  /\ UNCHANGED <<client, sent, history>>

-----------------------------------------------------------------------------

TaskCalls(t) ==
  \/ Execute(t)
  \/ Savepoint(t)
  \/ \E kind \in {"rollback_to", "release"} : PointCall(t, kind)
  \/ \E kind \in Endings : End(t, kind)
  \/ \E s \in Marks : Mark(t, s)

Answer ==
  \/ Executed \/ SavepointMade \/ RolledBackTo \/ PointReleased
  \/ StatementFails \/ Committed \/ RolledBack \/ EndFails

Next ==
  \/ \E t \in Tasks : TaskCalls(t)
  \/ CallbackReturns
  \/ \E t \in Tasks : CallbackThrows(t)
  \/ Answer
  \/ ConnectionLost

Spec == Init /\ [][Next]_vars

-----------------------------------------------------------------------------
(* What the transaction promises.                                          *)

\* The savepoints on the server are told apart by their names, and each is the
\* one some Savepoint object stands for: rolling back to it restores exactly
\* the work the transaction held when the object was made, whatever other
\* tasks did in between.
SavepointExact ==
  \A i \in 1..Len(points) :
    /\ \A j \in 1..Len(points) : points[i].name = points[j].name => i = j
    /\ \A h \in handles : h.name = points[i].name => h.saved = points[i].work

CommitAsked == \E e \in ends : e.by \in Tasks /\ e.kind = "commit"

\* A callback that throws, and did not commit by itself, leaves no effect behind,
\* except of the statements its other tasks sent after the end was on its way.
NothingEscapes == fn = "threw" /\ ~CommitAsked => durable \subseteq late

\* "clean return -> COMMIT, any throw -> ROLLBACK": the same without the
\* exception.
ThrowLeavesNothing == fn = "threw" /\ ~CommitAsked => durable = {}

\* When db.transaction() has settled, the transaction has ended on the server
\* and its connection is back in the pool, whoever ended it and however that
\* went (markTimedOut() and markFailed() end nothing).
EndsReleased ==
  outcome # "pending" /\ ~marked => released /\ server \in Ended

EndsRaced == \E e \in ends : e.id \in late

\* Unless a second end was asked for while one was on its way, the state is
\* what became of the transaction: COMMITTED after a COMMIT, ROLLED_BACK after
\* a ROLLBACK or a connection lost since, and it stays so.
StateHonest ==
  ~EndsRaced /\ ~marked =>
    /\ state = "COMMITTED" => server \in {"committed", "discarded"}
    /\ state = "ROLLED_BACK" => server = "rolled_back"
    /\ state = "ACTIVE" <=> ~released
=============================================================================
