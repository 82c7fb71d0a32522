----------------------------- MODULE Migrations -----------------------------
(***************************************************************************)
(* runMigrations() and rollbackMigration() (src/migrations/runner.ts) as   *)
(* several processes call them on one database with transactional DDL      *)
(* (adapters/postgres.ts).                                                 *)
(*                                                                         *)
(* A migration is its position in the full list; a caller knows a prefix   *)
(* of it, as an older release does. A call runs uninterrupted from one     *)
(* await to the next: pc is the statement whose answer it waits for.       *)
(*                                                                         *)
(* The server is external. Statements may fail; a failed statement aborts  *)
(* the transaction, which keeps its locks until it is ended; COMMIT may    *)
(* take effect and still fail for the client. An INSERT waits for another  *)
(* transaction that has inserted or deleted the row, a DELETE for one that *)
(* has deleted it, and neither sees rows that are not committed. A script  *)
(* that locks the schema waits for one of the same migration to end.       *)
(***************************************************************************)
EXTENDS Naturals, FiniteSets

CONSTANTS
  Runners,     \* calls of runMigrations()
  Undoers,     \* calls of rollbackMigration()
  N,           \* number of migrations
  Length,      \* how many of them each call is given
  Reversible,  \* the migrations that have `down`
  Locking      \* the migrations whose scripts lock the schema

Calls == Runners \cup Undoers
Ids == 1..N

ASSUME MigrationsAssumption ==
  /\ Runners \cap Undoers = {}
  /\ N \in Nat
  /\ Length \in [Calls -> 0..N]
  /\ Reversible \subseteq Ids /\ Locking \subseteq Ids

VARIABLES
  recorded,  \* ids in the tracking table
  ups,       \* how often each `up` has taken effect
  downs,     \* how often each `down` has taken effect
  undone,    \* history: migrations that were taken out of the table again
  pc,        \* what each call waits for, or how it settled
  at,        \* `migration`: the one a call is working on
  applied,   \* the ids a runner read before its loop
  result,    \* result.applied of a runner
  ran,       \* the script has run in the transaction, which is not ended
  row        \* what the transaction did to the row of its migration

database == <<recorded, ups, downs, undone>>
vars == <<database, pc, at, applied, result, ran, row>>

Settled == {"resolved", "rejected"}
Waits == {"create", "select", "begin", "script", "record", "commit", "rollback"}
Rows == {"none", "inserted", "deleted", "missed"}

\* Types of the variables; a call works on a migration of its own list.
TypeOK ==
  /\ recorded \subseteq Ids /\ undone \subseteq Ids
  /\ ups \in [Ids -> Nat] /\ downs \in [Ids -> Nat]
  /\ pc \in [Calls -> {"uncalled"} \cup Waits \cup Settled]
  /\ at \in [Calls -> 0..N]
  /\ \A c \in Calls : at[c] <= Length[c]
  /\ applied \in [Calls -> SUBSET Ids]
  /\ result \in [Calls -> SUBSET Ids]
  /\ ran \in [Calls -> BOOLEAN]
  /\ row \in [Calls -> Rows]

\* The database is at some release.
Init ==
  /\ \E n \in 0..N :
       /\ recorded = 1..n
       /\ ups = [m \in Ids |-> IF m <= n THEN 1 ELSE 0]
  /\ downs = [m \in Ids |-> 0]
  /\ undone = {}
  /\ pc = [c \in Calls |-> "uncalled"]
  /\ at = [c \in Calls |-> 0]
  /\ applied = [c \in Calls |-> {}]
  /\ result = [c \in Calls |-> {}]
  /\ ran = [c \in Calls |-> FALSE]
  /\ row = [c \in Calls |-> "none"]

Goto(c, l) == pc' = [pc EXCEPT ![c] = l]

-----------------------------------------------------------------------------
(* runMigrations(), up to its loop.                                        *)

RunCalled(r) ==
  /\ pc[r] = "uncalled"
  /\ Goto(r, "create")
  /\ UNCHANGED <<database, at, applied, result, ran, row>>

TableCreated(r) ==
  /\ pc[r] = "create"
  /\ Goto(r, "select")
  /\ UNCHANGED <<database, at, applied, result, ran, row>>

PendingBeyond(r, from, ids) == (from..(Length[r] + 1)) \ ids

Pending(r, from, ids) == (from..Length[r]) \ ids

\* The loop goes on to the next migration that is not in `ids`, or ends.
Continue(r, from, ids) ==
  \/ /\ Pending(r, from, ids) = {}
     /\ Goto(r, "resolved")
     /\ UNCHANGED at
  \/ \E m \in Pending(r, from, ids) :
       /\ \A k \in Pending(r, from, ids) : m <= k
       /\ at' = [at EXCEPT ![r] = m]
       /\ Goto(r, "begin")

Selected(r) ==
  /\ r \in Runners /\ pc[r] = "select"
  /\ applied' = [applied EXCEPT ![r] = recorded]
  /\ Continue(r, 1, recorded)
  /\ UNCHANGED <<database, result, ran, row>>

-----------------------------------------------------------------------------
(* rollbackMigration(), up to its transaction.                             *)

UndoCalled(u, m) ==
  /\ pc[u] = "uncalled"
  /\ IF m <= Length[u] /\ m \in Reversible
       THEN Goto(u, "select") /\ at' = [at EXCEPT ![u] = m]
       ELSE Goto(u, "rejected") /\ UNCHANGED at
  /\ UNCHANGED <<database, applied, result, ran, row>>

Verified(u) ==
  /\ u \in Undoers /\ pc[u] = "select"
  /\ Goto(u, IF at[u] \in recorded THEN "begin" ELSE "rejected")
  /\ UNCHANGED <<database, at, applied, result, ran, row>>

-----------------------------------------------------------------------------
(* The transaction of either.                                              *)

\* What fails outside the try block rejects the call.
FailsOutside(c) ==
  /\ pc[c] \in {"create", "select", "begin"}
  /\ Goto(c, "rejected")
  /\ UNCHANGED <<database, at, applied, result, ran, row>>

Begun(c) ==
  /\ pc[c] = "begin"
  /\ Goto(c, "script")
  /\ UNCHANGED <<database, at, applied, result, ran, row>>

SchemaLocked(c) ==
  at[c] \in Locking /\ \E o \in Calls \ {c} : ran[o] /\ at[o] = at[c]

ScriptRuns(c) ==
  /\ pc[c] = "script"
  /\ ~SchemaLocked(c)
  /\ ran' = [ran EXCEPT ![c] = TRUE]
  /\ Goto(c, "record")
  /\ UNCHANGED <<database, at, applied, result, row>>

RowLocked(c, by) == \E o \in Calls \ {c} : row[o] \in by /\ at[o] = at[c]

InsertableIgnoring(m) == TRUE

\* The id is the primary key of the tracking table.
Insertable(m) == m \notin recorded

Recorded(r) ==
  /\ r \in Runners /\ pc[r] = "record"
  /\ ~RowLocked(r, {"inserted", "deleted"})
  /\ Insertable(at[r])
  /\ row' = [row EXCEPT ![r] = "inserted"]
  /\ Goto(r, "commit")
  /\ UNCHANGED <<database, at, applied, result, ran>>

\* A DELETE that finds no row is no error.
Deleted(u) ==
  /\ u \in Undoers /\ pc[u] = "record"
  /\ ~RowLocked(u, {"deleted"})
  /\ row' = [row EXCEPT ![u] = IF at[u] \in recorded THEN "deleted" ELSE "missed"]
  /\ Goto(u, "commit")
  /\ UNCHANGED <<database, at, applied, result, ran>>

AfterFailureUnrolled == "rejected"

\* The catch block rolls back first.
AfterFailure == "rollback"

DuplicateKey(r) ==
  /\ r \in Runners /\ pc[r] = "record"
  /\ ~RowLocked(r, {"inserted", "deleted"})
  /\ ~Insertable(at[r])
  /\ Goto(r, AfterFailure)
  /\ UNCHANGED <<database, at, applied, result, ran, row>>

StatementFails(c) ==
  /\ pc[c] \in {"script", "record"}
  /\ Goto(c, AfterFailure)
  /\ UNCHANGED <<database, at, applied, result, ran, row>>

\* What COMMIT does when it takes effect.
TakesEffect(c) ==
  /\ IF c \in Runners
       THEN ups' = [ups EXCEPT ![at[c]] = @ + 1] /\ UNCHANGED downs
       ELSE downs' = [downs EXCEPT ![at[c]] = @ + 1] /\ UNCHANGED ups
  /\ recorded' = CASE row[c] = "inserted" -> recorded \cup {at[c]}
                   [] row[c] = "deleted" -> recorded \ {at[c]}
                   [] OTHER -> recorded
  /\ undone' = IF c \in Undoers THEN undone \cup {at[c]} ELSE undone

TransactionOver(c) ==
  /\ ran' = [ran EXCEPT ![c] = FALSE]
  /\ row' = [row EXCEPT ![c] = "none"]

MigrationCommitted(r) ==
  /\ r \in Runners /\ pc[r] = "commit"
  /\ TakesEffect(r) /\ TransactionOver(r)
  /\ result' = [result EXCEPT ![r] = @ \cup {at[r]}]
  /\ Continue(r, at[r] + 1, applied[r])
  /\ UNCHANGED applied

UndoCommitted(u) ==
  /\ u \in Undoers /\ pc[u] = "commit"
  /\ TakesEffect(u) /\ TransactionOver(u)
  /\ Goto(u, "resolved")
  /\ UNCHANGED <<at, applied, result>>

\* The transaction is over, one way or the other, and its connection released.
CommitFails(c) ==
  /\ pc[c] = "commit"
  /\ TakesEffect(c) \/ UNCHANGED database
  /\ TransactionOver(c)
  /\ Goto(c, AfterFailure)
  /\ UNCHANGED <<at, applied, result>>

AfterRollbackContinue(c) ==
  IF c \in Runners THEN Continue(c, at[c] + 1, applied[c])
                   ELSE Goto(c, "rejected") /\ UNCHANGED at

\* The error is thrown on: the migrations after a failed one are not tried.
AfterRollback(c) == Goto(c, "rejected") /\ UNCHANGED at

\* ROLLBACK ends, or the connection is gone; its own error is swallowed.
RolledBack(c) ==
  /\ pc[c] = "rollback"
  /\ TransactionOver(c)
  /\ AfterRollback(c)
  /\ UNCHANGED <<database, applied, result>>

-----------------------------------------------------------------------------

\* The server answers what it can answer without failing.
Answered(c) ==
  \/ TableCreated(c) \/ Selected(c) \/ Verified(c)
  \/ Begun(c) \/ ScriptRuns(c)
  \/ Recorded(c) \/ DuplicateKey(c) \/ Deleted(c)
  \/ MigrationCommitted(c) \/ UndoCommitted(c)
  \/ RolledBack(c)

Next ==
  \/ \E r \in Runners : RunCalled(r)
  \/ \E u \in Undoers, m \in Ids : UndoCalled(u, m)
  \/ \E c \in Calls : Answered(c) \/ FailsOutside(c) \/ StatementFails(c) \/ CommitFails(c)

Spec == Init /\ [][Next]_vars

\* Every statement that is not blocked is answered.
FairSpec == Spec /\ \A c \in Calls : WF_vars(Answered(c))

-----------------------------------------------------------------------------
(* What the runner promises.                                               *)

\* Two rollbacks of one migration were on their way together or in turn.
UndoRepeated(m) ==
  \E u, v \in Undoers : u # v /\ at[u] = m /\ at[v] = m

\* The tracking table says what the schema holds: each migration has taken effect
\* exactly once if it is recorded and not at all (or been undone as often) if it
\* is not, whatever fails and however many runners race. Two rollbacks of one
\* migration may both run its `down`, and are left out.
RecordMatchesSchema ==
  \A m \in Ids :
    ~UndoRepeated(m) => ups[m] = downs[m] + (IF m \in recorded THEN 1 ELSE 0)

\* Migrations take effect in the order of the list: a recorded one has all
\* before it recorded, but for those that were rolled back by hand.
InOrder == \A m \in recorded : \A k \in 1..m : k \in recorded \cup undone

\* A runner that resolves leaves its whole list applied, but for what was rolled
\* back by hand, and what each runner says it applied is its own doing: no two
\* runners claim one application.
ReportHonest ==
  /\ \A r \in Runners :
       pc[r] = "resolved" => 1..Length[r] \subseteq recorded \cup undone
  /\ \A m \in Ids : Cardinality({r \in Runners : m \in result[r]}) <= ups[m]

\* Every call settles: runners that race for a migration never wait for each
\* other forever, and no call that failed leaves a lock behind.
EveryCallSettles == \A c \in Calls : pc[c] \in Waits ~> pc[c] \in Settled
=============================================================================
