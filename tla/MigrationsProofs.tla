-------------------------- MODULE MigrationsProofs --------------------------
(***************************************************************************)
(* Proofs about Migrations, for any number of migrations, runners and      *)
(* rollbacks.                                                              *)
(*                                                                         *)
(* The inductive invariant says what a call that works on a migration      *)
(* knows of the tracking table: an open transaction that has inserted its  *)
(* row is the only one to have done so and nobody has recorded it since, a *)
(* rollback finds its row unless another rollback took it, and a runner    *)
(* has left nothing before its migration undone.                           *)
(***************************************************************************)
EXTENDS Migrations, FiniteSetTheorems, TLAPS

Working == {"begin", "script", "record", "commit", "rollback"}
Held == {"inserted", "deleted"}
Seen == recorded \cup undone

\* What a call knows of the row of its migration.
RowKnown(c) ==
  /\ pc[c] \in Working => at[c] \in Ids
  /\ pc[c] = "uncalled" => at[c] = 0
  /\ c \in Undoers => pc[c] # "create" /\ (pc[c] = "select" => at[c] \in Ids)
  /\ row[c] # "none" => pc[c] = "commit"
  /\ pc[c] = "commit" /\ c \in Runners => row[c] = "inserted"
  /\ pc[c] = "commit" /\ c \in Undoers => row[c] \in {"deleted", "missed"}
  /\ row[c] = "inserted" => at[c] \notin recorded
  /\ row[c] = "deleted" => at[c] \in recorded
  /\ row[c] = "missed" => UndoRepeated(at[c])
  /\ c \in Undoers /\ pc[c] \in {"begin", "script", "record", "commit"}
       => at[c] \in recorded \/ UndoRepeated(at[c])

\* What a runner has seen applied.
OrderKnown(r) ==
  /\ applied[r] \subseteq Seen
  /\ pc[r] \in Working => \A k \in Ids : k < at[r] => k \in Seen

Exclusive ==
  \A c, d \in Calls : c # d /\ at[c] = at[d] /\ row[c] \in Held => row[d] \notin Held

Inv ==
  /\ TypeOK
  /\ \A c \in Calls : RowKnown(c)
  /\ \A r \in Runners : OrderKnown(r)
  /\ Exclusive
  /\ RecordMatchesSchema
  /\ InOrder

-----------------------------------------------------------------------------
(* Type correctness.                                                       *)

\* The loop stays inside the caller's list.
LEMMA ContinueTyped ==
  ASSUME TypeOK, NEW r \in Runners, NEW from \in Nat \ {0}, NEW ids, Continue(r, from, ids)
  PROVE  /\ pc' \in [Calls -> {"uncalled"} \cup Waits \cup Settled]
         /\ at' \in [Calls -> 0..N]
         /\ \A c \in Calls : at'[c] <= Length[c]
<1>1. r \in Calls
  BY DEF Calls
<1>2. CASE Goto(r, "resolved") /\ UNCHANGED at
  BY <1>2 DEF TypeOK, Goto, Settled
<1>3. ASSUME NEW m \in Pending(r, from, ids), at' = [at EXCEPT ![r] = m], Goto(r, "begin")
      PROVE  /\ pc' \in [Calls -> {"uncalled"} \cup Waits \cup Settled]
             /\ at' \in [Calls -> 0..N]
             /\ \A c \in Calls : at'[c] <= Length[c]
  <2>1. Length[r] \in 0..N /\ N \in Nat
    BY <1>1, MigrationsAssumption
  <2>2. m \in 0..N /\ m <= Length[r]
    BY <2>1 DEF Pending
  <2>3. pc' \in [Calls -> {"uncalled"} \cup Waits \cup Settled]
    BY <1>3 DEF TypeOK, Goto, Waits
  <2> QED BY <1>1, <1>3, <2>2, <2>3 DEF TypeOK
<1> QED BY <1>2, <1>3 DEF Continue

\* A step that only moves a call on, by a jump to a known place.
LEMMA GotoTyped ==
  ASSUME TypeOK, NEW c \in Calls, NEW l \in Waits \cup Settled, Goto(c, l)
  PROVE  pc' \in [Calls -> {"uncalled"} \cup Waits \cup Settled]
BY DEF TypeOK, Goto

\* What the end of a transaction writes.
LEMMA EffectTyped ==
  ASSUME TypeOK, NEW c \in Calls, at[c] \in Ids, TakesEffect(c) \/ UNCHANGED database
  PROVE  /\ recorded' \subseteq Ids /\ undone' \subseteq Ids
         /\ ups' \in [Ids -> Nat] /\ downs' \in [Ids -> Nat]
<1>1. CASE UNCHANGED database
  BY <1>1 DEF TypeOK, database
<1>2. CASE TakesEffect(c)
  <2>1. recorded' \subseteq Ids /\ undone' \subseteq Ids
    BY <1>2 DEF TakesEffect, TypeOK
  <2>2. ups[at[c]] + 1 \in Nat /\ downs[at[c]] + 1 \in Nat
    BY DEF TypeOK
  <2> QED BY <1>2, <2>1, <2>2 DEF TakesEffect, TypeOK
<1> QED BY <1>1, <1>2

LEMMA OverTyped ==
  ASSUME TypeOK, NEW c \in Calls, TransactionOver(c)
  PROVE  ran' \in [Calls -> BOOLEAN] /\ row' \in [Calls -> Rows]
BY DEF TypeOK, TransactionOver, Rows

\* A call that works on a migration has one: the part of the invariant that
\* type correctness needs.
Placed == \A c \in Calls : pc[c] \in Working => at[c] \in Ids

LEMMA PlacedStep == TypeOK /\ Placed /\ [Next]_vars => TypeOK'
<1> SUFFICES ASSUME TypeOK, Placed, [Next]_vars PROVE TypeOK'
  OBVIOUS
<1> USE DEF database
<1>1. ASSUME NEW c \in Calls,
             \E l \in Waits \cup Settled : Goto(c, l),
             UNCHANGED <<database, at, applied, result>>,
             ran' \in [Calls -> BOOLEAN], row' \in [Calls -> Rows]
      PROVE  TypeOK'
  <2>1. pc' \in [Calls -> {"uncalled"} \cup Waits \cup Settled]
    BY <1>1, GotoTyped
  <2> QED BY <1>1, <2>1 DEF TypeOK
<1>2. ran \in [Calls -> BOOLEAN] /\ row \in [Calls -> Rows]
  BY DEF TypeOK
<1>3. /\ {"create", "select", "begin", "script", "record", "commit", "rollback"} \subseteq Waits
      /\ {"resolved", "rejected"} \subseteq Settled
      /\ AfterFailure \in Waits
  BY DEF Waits, Settled, AfterFailure
<1>4. ASSUME NEW r \in Runners, RunCalled(r) PROVE TypeOK'
  BY <1>1, <1>2, <1>3, <1>4 DEF RunCalled, Calls
<1>5. ASSUME NEW u \in Undoers, NEW m \in Ids, UndoCalled(u, m) PROVE TypeOK'
  <2>1. u \in Calls
    BY DEF Calls
  <2>2. pc' \in [Calls -> {"uncalled"} \cup Waits \cup Settled]
    BY <1>3, <1>5, <2>1, GotoTyped DEF UndoCalled
  <2>3. m \in 0..N
    BY MigrationsAssumption DEF Ids
  <2>4. at' \in [Calls -> 0..N] /\ \A c \in Calls : at'[c] <= Length[c]
    BY <1>5, <2>1, <2>3 DEF UndoCalled, TypeOK
  <2> QED BY <1>5, <2>2, <2>4 DEF UndoCalled, TypeOK
<1>6. ASSUME NEW c \in Calls,
             \/ TableCreated(c) \/ Verified(c) \/ Begun(c)
             \/ FailsOutside(c) \/ StatementFails(c) \/ DuplicateKey(c)
      PROVE  TypeOK'
  <2>1. \E l \in Waits \cup Settled : Goto(c, l)
    BY <1>3, <1>6 DEF TableCreated, Verified, Begun, FailsOutside, StatementFails, DuplicateKey
  <2>2. UNCHANGED <<database, at, applied, result, ran, row>>
    BY <1>6 DEF TableCreated, Verified, Begun, FailsOutside, StatementFails, DuplicateKey
  <2> QED BY <1>1, <1>2, <2>1, <2>2
<1>7. ASSUME NEW c \in Calls, ScriptRuns(c) PROVE TypeOK'
  <2>1. ran' \in [Calls -> BOOLEAN]
    BY <1>2, <1>7 DEF ScriptRuns
  <2> QED BY <1>1, <1>2, <1>3, <1>7, <2>1 DEF ScriptRuns
<1>8. ASSUME NEW c \in Calls, Recorded(c) \/ Deleted(c) PROVE TypeOK'
  <2>1. row' \in [Calls -> Rows]
    BY <1>2, <1>8 DEF Recorded, Deleted, Rows
  <2> QED BY <1>1, <1>2, <1>3, <1>8, <2>1 DEF Recorded, Deleted
<1>9. ASSUME NEW c \in Calls, Selected(c) PROVE TypeOK'
  <2>1. c \in Runners /\ Continue(c, 1, recorded)
    BY <1>9 DEF Selected
  <2>2. applied' \in [Calls -> SUBSET Ids]
    BY <1>9 DEF Selected, TypeOK
  <2>3. UNCHANGED <<database, result, ran, row>>
    BY <1>9 DEF Selected
  <2> QED BY <2>1, <2>2, <2>3, ContinueTyped DEF TypeOK
<1>10. ASSUME NEW c \in Calls, MigrationCommitted(c) PROVE TypeOK'
  <2>1. at[c] \in Ids /\ c \in Runners
    BY <1>10 DEF MigrationCommitted, Placed, Working
  <2>2. at[c] + 1 \in Nat \ {0}
    BY <2>1, MigrationsAssumption DEF Ids
  <2>3. Continue(c, at[c] + 1, applied[c]) /\ TakesEffect(c) /\ TransactionOver(c)
    BY <1>10 DEF MigrationCommitted
  <2>4. result' \in [Calls -> SUBSET Ids] /\ applied' = applied
    BY <1>10, <2>1 DEF MigrationCommitted, TypeOK
  <2>5. /\ recorded' \subseteq Ids /\ undone' \subseteq Ids
        /\ ups' \in [Ids -> Nat] /\ downs' \in [Ids -> Nat]
    BY <2>1, <2>3, EffectTyped
  <2>6. ran' \in [Calls -> BOOLEAN] /\ row' \in [Calls -> Rows]
    BY <2>3, OverTyped
  <2>7. /\ pc' \in [Calls -> {"uncalled"} \cup Waits \cup Settled]
        /\ at' \in [Calls -> 0..N]
        /\ \A d \in Calls : at'[d] <= Length[d]
    BY <2>1, <2>2, <2>3, ContinueTyped
  <2> QED BY <2>4, <2>5, <2>6, <2>7 DEF TypeOK
<1>11. ASSUME NEW c \in Calls, UndoCommitted(c) \/ CommitFails(c) PROVE TypeOK'
  <2>1. at[c] \in Ids
    BY <1>11 DEF UndoCommitted, CommitFails, Placed, Working
  <2>2. /\ TakesEffect(c) \/ UNCHANGED database
        /\ TransactionOver(c)
        /\ UNCHANGED <<at, applied, result>>
        /\ Goto(c, "resolved") \/ Goto(c, AfterFailure)
    BY <1>11 DEF UndoCommitted, CommitFails
  <2>3. /\ recorded' \subseteq Ids /\ undone' \subseteq Ids
        /\ ups' \in [Ids -> Nat] /\ downs' \in [Ids -> Nat]
    BY <2>1, <2>2, EffectTyped
  <2>4. ran' \in [Calls -> BOOLEAN] /\ row' \in [Calls -> Rows]
    BY <2>2, OverTyped
  <2>5. pc' \in [Calls -> {"uncalled"} \cup Waits \cup Settled]
    BY <1>3, <2>2, GotoTyped
  <2> QED BY <2>2, <2>3, <2>4, <2>5 DEF TypeOK
<1>12. ASSUME NEW c \in Calls, RolledBack(c) PROVE TypeOK'
  BY <1>1, <1>3, <1>12, OverTyped DEF RolledBack, AfterRollback
<1>13. CASE UNCHANGED vars
  BY <1>13 DEF vars, TypeOK
<1> QED
  BY <1>4, <1>5, <1>6, <1>7, <1>8, <1>9, <1>10, <1>11, <1>12, <1>13 DEF Next, Answered

-----------------------------------------------------------------------------
(* Calls that change nothing in the database.                              *)

Known ==
  /\ \A c \in Calls : RowKnown(c)
  /\ \A r \in Runners : OrderKnown(r)
  /\ Exclusive

\* Only call c moves.
Only(c) ==
  \A d \in Calls \ {c} :
    pc'[d] = pc[d] /\ at'[d] = at[d] /\ row'[d] = row[d] /\ applied'[d] = applied[d]

\* The migration of a rollback does not change once it has one.
SameUndo(c) == c \in Undoers => at'[c] = at[c] \/ at[c] = 0

LEMMA UndoStable ==
  ASSUME NEW c \in Calls, Only(c), SameUndo(c), NEW m \in Ids, UndoRepeated(m)
  PROVE  UndoRepeated(m)'
<1>1. PICK u \in Undoers, v \in Undoers : u # v /\ at[u] = m /\ at[v] = m
  BY DEF UndoRepeated
<1>2. m # 0
  BY MigrationsAssumption DEF Ids
<1>3. at'[u] = at[u] /\ at'[v] = at[v]
  BY <1>1, <1>2 DEF Only, SameUndo, Calls
<1> QED BY <1>1, <1>3 DEF UndoRepeated

\* Where the row of an open transaction is known, so is the migration.
LEMMA OthersKept ==
  ASSUME Known, NEW c \in Calls, Only(c), SameUndo(c), UNCHANGED database,
         NEW d \in Calls \ {c}
  PROVE  RowKnown(d)' /\ (d \in Runners => OrderKnown(d)')
<1>1. RowKnown(d)
  BY DEF Known
<1>2. /\ pc'[d] = pc[d] /\ at'[d] = at[d] /\ row'[d] = row[d] /\ applied'[d] = applied[d]
      /\ recorded' = recorded /\ undone' = undone
  BY DEF Only, database
<1>3. ASSUME NEW m \in Ids, at[d] = m, UndoRepeated(at[d])
      PROVE  \E u, v \in Undoers : u # v /\ at'[u] = m /\ at'[v] = m
  <2>1. UndoRepeated(m)'
    BY <1>3, UndoStable
  <2> QED BY <2>1 DEF UndoRepeated
<1>4. row[d] = "missed" => at[d] \in Ids
  BY <1>1 DEF RowKnown, Working
<1>5. c \in Undoers /\ pc[d] \in {"begin", "script", "record", "commit"} => at[d] \in Ids
  BY <1>1 DEF RowKnown, Working
<1>7. UndoRepeated(at[d]) /\ at[d] \in Ids
        => \E u, v \in Undoers : u # v /\ at'[u] = at'[d] /\ at'[v] = at'[d]
  BY <1>2, <1>3
<1>8. RowKnown(d)'
  BY <1>1, <1>2, <1>4, <1>7 DEF RowKnown, Working, UndoRepeated
<1>9. d \in Runners => OrderKnown(d)'
  BY <1>2 DEF Known, OrderKnown, Seen, Working
<1> QED BY <1>8, <1>9

LEMMA QuietStep ==
  ASSUME Inv, NEW c \in Calls, Only(c), SameUndo(c), UNCHANGED database,
         RowKnown(c)', c \in Runners => OrderKnown(c)',
         row'[c] \in Held => \A d \in Calls \ {c} : at[d] = at'[c] => row[d] \notin Held
  PROVE  Known' /\ RecordMatchesSchema' /\ InOrder'
<1>1. Known
  BY DEF Inv, Known
<1>2. \A d \in Calls \ {c} : RowKnown(d)' /\ (d \in Runners => OrderKnown(d)')
  BY <1>1, OthersKept
<1>3. Exclusive'
  BY <1>1 DEF Known, Exclusive, Only
<1>4. Known'
  BY <1>2, <1>3 DEF Known, Calls
<1>5. RecordMatchesSchema'
  <2> SUFFICES ASSUME NEW m \in Ids, ~UndoRepeated(m)'
               PROVE  ups'[m] = downs'[m] + (IF m \in recorded' THEN 1 ELSE 0)
    BY DEF RecordMatchesSchema
  <2>1. ~UndoRepeated(m)
    BY UndoStable
  <2> QED BY <2>1 DEF Inv, RecordMatchesSchema, database
<1>6. InOrder'
  BY DEF Inv, InOrder, database
<1> QED BY <1>4, <1>5, <1>6

\* A call moves on to l, and the row of its transaction stays as it was: untouched.
LEMMA JumpStep ==
  ASSUME Inv, NEW c \in Calls, NEW l \in (Waits \cup Settled) \ {"create", "commit"},
         Goto(c, l), UNCHANGED <<database, at, applied, row>>, pc[c] # "commit",
         l \in Working => at[c] \in Ids,
         c \in Undoers /\ l = "select" => at[c] \in Ids,
         c \in Undoers /\ l \in {"begin", "script", "record"}
           => at[c] \in recorded \/ UndoRepeated(at[c]),
         c \in Runners /\ l \in Working => \A k \in Ids : k < at[c] => k \in Seen
  PROVE  Known' /\ RecordMatchesSchema' /\ InOrder'
<1>1. pc'[c] = l /\ \A d \in Calls \ {c} : pc'[d] = pc[d]
  BY DEF Inv, TypeOK, Goto
<1>2. Only(c) /\ SameUndo(c) /\ UNCHANGED database
  BY <1>1 DEF Only, SameUndo
<1>3. row[c] = "none"
  BY DEF Inv, RowKnown
<1>4. l # "uncalled"
  BY DEF Waits, Settled
<1>5. RowKnown(c)'
  BY <1>1, <1>3, <1>4 DEF RowKnown, UndoRepeated, database
<1>6. c \in Runners => OrderKnown(c)'
  BY <1>1 DEF Inv, OrderKnown, Seen, database
<1>7. row'[c] \notin Held
  BY <1>3 DEF Held
<1> QED BY <1>2, <1>5, <1>6, <1>7, QuietStep

\* The loop: what lies between the last migration and the next is in `ids`.
LEMMA ContinueKnown ==
  ASSUME TypeOK, NEW r \in Runners, NEW from \in 1..(N + 1), NEW ids, Continue(r, from, ids)
  PROVE  /\ \A d \in Calls \ {r} : pc'[d] = pc[d] /\ at'[d] = at[d]
         /\ pc'[r] \in {"begin", "resolved"}
         /\ pc'[r] = "begin" => /\ at'[r] \in Ids
                                /\ \A k \in Ids : from <= k /\ k < at'[r] => k \in ids
<1>1. r \in Calls /\ Length[r] \in 0..N /\ N \in Nat
  BY MigrationsAssumption DEF Calls
<1>2. CASE Goto(r, "resolved") /\ UNCHANGED at
  BY <1>1, <1>2 DEF TypeOK, Goto
<1>3. ASSUME NEW m \in Pending(r, from, ids),
             \A k \in Pending(r, from, ids) : m <= k,
             at' = [at EXCEPT ![r] = m], Goto(r, "begin")
      PROVE  /\ \A d \in Calls \ {r} : pc'[d] = pc[d] /\ at'[d] = at[d]
             /\ pc'[r] = "begin"
             /\ at'[r] \in Ids
             /\ \A k \in Ids : from <= k /\ k < at'[r] => k \in ids
  <2>1. at'[r] = m /\ pc'[r] = "begin"
    BY <1>1, <1>3 DEF TypeOK, Goto
  <2>2. \A d \in Calls \ {r} : pc'[d] = pc[d] /\ at'[d] = at[d]
    BY <1>1, <1>3 DEF TypeOK, Goto
  <2>3. m \in Ids /\ m <= Length[r]
    BY <1>1 DEF Pending, Ids
  <2>4. ASSUME NEW k \in Ids, from <= k, k < m PROVE k \in ids
    <3>1. k \in from..Length[r]
      BY <1>1, <2>3, <2>4 DEF Ids
    <3>2. k \notin Pending(r, from, ids)
      BY <1>3, <2>3, <2>4 DEF Ids
    <3> QED BY <3>1, <3>2 DEF Pending
  <2> QED BY <2>1, <2>2, <2>3, <2>4
<1> QED BY <1>2, <1>3 DEF Continue

LEMMA SelectedStep ==
  ASSUME Inv, NEW r \in Calls, Selected(r)
  PROVE  Known' /\ RecordMatchesSchema' /\ InOrder'
<1>1. /\ r \in Runners /\ r \notin Undoers /\ pc[r] = "select"
      /\ applied' = [applied EXCEPT ![r] = recorded]
      /\ Continue(r, 1, recorded)
      /\ UNCHANGED <<database, row>>
  BY MigrationsAssumption DEF Selected
<1>2. 1 \in 1..(N + 1)
  BY MigrationsAssumption
<1>3. /\ \A d \in Calls \ {r} : pc'[d] = pc[d] /\ at'[d] = at[d]
      /\ pc'[r] \in {"begin", "resolved"}
      /\ pc'[r] = "begin" => /\ at'[r] \in Ids
                             /\ \A k \in Ids : 1 <= k /\ k < at'[r] => k \in recorded
  BY <1>1, <1>2, ContinueKnown DEF Inv
<1>4. applied'[r] = recorded /\ \A d \in Calls \ {r} : applied'[d] = applied[d]
  BY <1>1 DEF Inv, TypeOK
<1>5. Only(r) /\ SameUndo(r) /\ UNCHANGED database
  BY <1>1, <1>3, <1>4 DEF Only, SameUndo
<1>6. row[r] = "none" /\ row'[r] = "none"
  BY <1>1 DEF Inv, RowKnown
<1>7. RowKnown(r)'
  BY <1>1, <1>3, <1>6 DEF RowKnown, Working
<1>8. \A k \in Ids : 1 <= k
  BY MigrationsAssumption DEF Ids
<1>9. OrderKnown(r)'
  BY <1>1, <1>3, <1>4, <1>8 DEF OrderKnown, Seen, Working, database
<1> QED BY <1>5, <1>6, <1>7, <1>9, QuietStep DEF Held

LEMMA UndoCalledStep ==
  ASSUME Inv, NEW u \in Undoers, NEW m \in Ids, UndoCalled(u, m)
  PROVE  Known' /\ RecordMatchesSchema' /\ InOrder'
<1>1. u \in Calls /\ u \notin Runners
  BY MigrationsAssumption DEF Calls
<1>2. pc[u] = "uncalled" /\ at[u] = 0 /\ row[u] = "none"
  BY <1>1 DEF UndoCalled, Inv, RowKnown
<1>3. UNCHANGED <<database, applied, row>>
  BY DEF UndoCalled
<1>4. \A d \in Calls \ {u} : pc'[d] = pc[d] /\ at'[d] = at[d]
  BY <1>1 DEF UndoCalled, Goto, Inv, TypeOK
<1>5. (pc'[u] = "select" /\ at'[u] = m) \/ (pc'[u] = "rejected" /\ at'[u] = at[u])
  BY <1>1 DEF UndoCalled, Goto, Inv, TypeOK
<1>6. Only(u) /\ SameUndo(u) /\ UNCHANGED database
  BY <1>2, <1>3, <1>4 DEF Only, SameUndo
<1>7. RowKnown(u)'
  BY <1>1, <1>2, <1>3, <1>5 DEF RowKnown, Working
<1>8. row'[u] \notin Held
  BY <1>2, <1>3 DEF Held
<1> QED BY <1>1, <1>6, <1>7, <1>8, QuietStep

LEMMA RowStep ==
  ASSUME Inv, NEW c \in Calls, Recorded(c) \/ Deleted(c)
  PROVE  Known' /\ RecordMatchesSchema' /\ InOrder'
<1>1. /\ pc[c] = "record" /\ pc' = [pc EXCEPT ![c] = "commit"]
      /\ UNCHANGED <<database, at, applied>>
  BY DEF Recorded, Deleted, Goto
<1>2. /\ pc'[c] = "commit" /\ \A d \in Calls \ {c} : pc'[d] = pc[d]
      /\ at[c] \in Ids
  BY <1>1 DEF Inv, TypeOK, RowKnown, Working
<1>3. \A d \in Calls \ {c} : row'[d] = row[d]
  BY DEF Recorded, Deleted, Inv, TypeOK
<1>4. Only(c) /\ SameUndo(c) /\ UNCHANGED database
  BY <1>1, <1>2, <1>3 DEF Only, SameUndo
<1>5. c \in Runners => OrderKnown(c)'
  BY <1>1, <1>2 DEF Inv, OrderKnown, Seen, Working, database
<1>6. CASE Recorded(c)
  <2>1. c \in Runners /\ c \notin Undoers /\ row'[c] = "inserted" /\ at[c] \notin recorded
    BY <1>6, MigrationsAssumption DEF Recorded, Insertable, Inv, TypeOK
  <2>2. \A d \in Calls \ {c} : at[d] = at'[c] => row[d] \notin Held
    BY <1>1, <1>6 DEF Recorded, RowLocked, Held
  <2>3. RowKnown(c)'
    BY <1>1, <1>2, <2>1 DEF RowKnown, Working, database
  <2> QED BY <1>4, <1>5, <2>2, <2>3, QuietStep
<1>7. CASE Deleted(c)
  <2>1. c \in Undoers /\ c \notin Runners
    BY <1>7, MigrationsAssumption DEF Deleted
  <2>2. row'[c] = IF at[c] \in recorded THEN "deleted" ELSE "missed"
    BY <1>7 DEF Deleted, Inv, TypeOK
  <2>3. at[c] \in recorded \/ UndoRepeated(at[c])
    BY <1>1, <2>1 DEF Inv, RowKnown
  <2>4. RowKnown(c)'
    BY <1>1, <1>2, <2>1, <2>2, <2>3 DEF RowKnown, UndoRepeated, Working, database
  <2>5. ASSUME row'[c] \in Held, NEW d \in Calls \ {c}, at[d] = at'[c]
        PROVE  row[d] \notin Held
    <3>1. at[d] \in recorded
      BY <1>1, <2>2, <2>5 DEF Held
    <3>2. row[d] # "inserted"
      BY <3>1 DEF Inv, RowKnown
    <3>3. row[d] # "deleted"
      BY <1>1, <1>7, <2>5 DEF Deleted, RowLocked
    <3> QED BY <3>2, <3>3 DEF Held
  <2> QED BY <1>4, <1>5, <2>4, <2>5, QuietStep
<1> QED BY <1>6, <1>7

LEMMA RunCalledStep ==
  ASSUME Inv, NEW r \in Runners, RunCalled(r)
  PROVE  Known' /\ RecordMatchesSchema' /\ InOrder'
<1>1. r \in Calls /\ r \notin Undoers
  BY MigrationsAssumption DEF Calls
<1>2. row[r] = "none" /\ pc'[r] = "create" /\ \A d \in Calls \ {r} : pc'[d] = pc[d]
  BY <1>1 DEF RunCalled, Goto, Inv, TypeOK, RowKnown
<1>3. UNCHANGED <<database, at, applied, row>>
  BY DEF RunCalled
<1>4. Only(r) /\ SameUndo(r) /\ UNCHANGED database
  BY <1>2, <1>3 DEF Only, SameUndo
<1>5. RowKnown(r)'
  BY <1>1, <1>2, <1>3 DEF RowKnown, Working
<1>6. OrderKnown(r)'
  BY <1>2, <1>3 DEF Inv, OrderKnown, Seen, Working, database
<1> QED BY <1>1, <1>2, <1>3, <1>4, <1>5, <1>6, QuietStep DEF Held

\* The steps that leave the transaction's row alone.
LEMMA WaitStep ==
  ASSUME Inv, NEW c \in Calls,
         \/ TableCreated(c) \/ Verified(c) \/ Begun(c) \/ ScriptRuns(c)
         \/ FailsOutside(c) \/ DuplicateKey(c) \/ StatementFails(c)
  PROVE  Known' /\ RecordMatchesSchema' /\ InOrder'
<1>1. /\ UNCHANGED <<database, at, applied, row>>
      /\ pc[c] \in {"create", "select", "begin", "script", "record"}
  BY DEF TableCreated, Verified, Begun, ScriptRuns, FailsOutside, DuplicateKey, StatementFails
<1>2. RowKnown(c) /\ (c \in Runners => OrderKnown(c))
  BY DEF Inv
<1>3. {"select", "begin", "script", "record", "rollback", "resolved", "rejected"}
        \subseteq (Waits \cup Settled) \ {"create", "commit"}
  BY DEF Waits, Settled
<1>4. CASE TableCreated(c)
  <2>1. c \notin Undoers
    BY <1>2, <1>4 DEF TableCreated, RowKnown
  <2>2. "select" \notin Working
    BY DEF Working
  <2> QED BY <1>1, <1>3, <1>4, <2>1, <2>2, JumpStep DEF TableCreated
<1>5. CASE Verified(c)
  <2>1. c \in Undoers /\ c \notin Runners /\ at[c] \in Ids
    BY <1>2, <1>5, MigrationsAssumption DEF Verified, RowKnown
  <2>2. CASE at[c] \in recorded
    <3>1. Goto(c, "begin")
      BY <1>5, <2>2 DEF Verified
    <3> QED BY <1>1, <1>3, <2>1, <2>2, <3>1, JumpStep
  <2>3. CASE at[c] \notin recorded
    <3>1. Goto(c, "rejected") /\ "rejected" \notin Working
      BY <1>5, <2>3 DEF Verified, Working
    <3> QED BY <1>1, <1>3, <2>1, <3>1, JumpStep
  <2> QED BY <2>2, <2>3
<1>6. CASE FailsOutside(c)
  <2>1. Goto(c, "rejected") /\ "rejected" \notin Working
    BY <1>6 DEF FailsOutside, Working
  <2> QED BY <1>1, <1>3, <2>1, JumpStep
<1>7. ASSUME pc[c] \in {"begin", "script", "record"}
      PROVE  /\ at[c] \in Ids
             /\ c \in Undoers => at[c] \in recorded \/ UndoRepeated(at[c])
             /\ c \in Runners => \A k \in Ids : k < at[c] => k \in Seen
  BY <1>2, <1>7 DEF RowKnown, OrderKnown, Working
<1>8. CASE Begun(c)
  BY <1>1, <1>3, <1>7, <1>8, JumpStep DEF Begun
<1>9. CASE ScriptRuns(c)
  BY <1>1, <1>3, <1>7, <1>9, JumpStep DEF ScriptRuns
<1>10. CASE DuplicateKey(c) \/ StatementFails(c)
  <2>1. Goto(c, "rollback") /\ pc[c] \in {"script", "record"}
    BY <1>10 DEF DuplicateKey, StatementFails, AfterFailure
  <2> QED BY <1>1, <1>3, <1>7, <2>1, JumpStep
<1> QED BY <1>4, <1>5, <1>6, <1>8, <1>9, <1>10

\* A transaction that ends without effect.
LEMMA AbortStep ==
  ASSUME Inv, NEW c \in Calls, RolledBack(c) \/ (CommitFails(c) /\ UNCHANGED database)
  PROVE  Known' /\ RecordMatchesSchema' /\ InOrder'
<1>1. /\ pc[c] \in {"commit", "rollback"}
      /\ Goto(c, "rejected") \/ Goto(c, "rollback")
      /\ row' = [row EXCEPT ![c] = "none"]
      /\ UNCHANGED <<database, at, applied>>
  BY DEF RolledBack, CommitFails, TransactionOver, AfterRollback, AfterFailure
<1>2. RowKnown(c) /\ (c \in Runners => OrderKnown(c))
  BY DEF Inv
<1>3. row'[c] = "none" /\ \A d \in Calls \ {c} : row'[d] = row[d]
  BY <1>1 DEF Inv, TypeOK
<1>4. pc'[c] \in {"rejected", "rollback"} /\ \A d \in Calls \ {c} : pc'[d] = pc[d]
  BY <1>1 DEF Inv, TypeOK, Goto
<1>5. Only(c) /\ SameUndo(c) /\ UNCHANGED database
  BY <1>1, <1>3, <1>4 DEF Only, SameUndo
<1>6. RowKnown(c)'
  BY <1>1, <1>2, <1>3, <1>4 DEF RowKnown, Working
<1>7. c \in Runners => OrderKnown(c)'
  BY <1>1, <1>2, <1>4 DEF OrderKnown, Seen, Working, database
<1> QED BY <1>3, <1>5, <1>6, <1>7, QuietStep DEF Held

-----------------------------------------------------------------------------
(* Transactions that take effect.                                          *)

\* A transaction that takes effect puts its migration into the table, or takes it
\* out, or was a rollback that came too late; nothing seen is lost.
LEMMA EffectCases ==
  ASSUME Inv, NEW c \in Calls, pc[c] = "commit", TakesEffect(c)
  PROVE  /\ at[c] \in Ids
         /\ Seen \subseteq Seen'
         /\ \/ /\ c \in Runners /\ row[c] = "inserted" /\ at[c] \notin recorded
               /\ recorded' = recorded \cup {at[c]} /\ undone' = undone
               /\ ups' = [ups EXCEPT ![at[c]] = @ + 1] /\ downs' = downs
            \/ /\ c \in Undoers /\ row[c] = "deleted" /\ at[c] \in recorded
               /\ recorded' = recorded \ {at[c]} /\ undone' = undone \cup {at[c]}
               /\ ups' = ups /\ downs' = [downs EXCEPT ![at[c]] = @ + 1]
            \/ /\ c \in Undoers /\ row[c] = "missed" /\ UndoRepeated(at[c])
               /\ recorded' = recorded /\ undone' = undone \cup {at[c]}
               /\ ups' = ups /\ downs' = [downs EXCEPT ![at[c]] = @ + 1]
<1>1. RowKnown(c)
  BY DEF Inv
<1>2. at[c] \in Ids
  BY <1>1 DEF RowKnown, Working
<1>3. CASE c \in Runners
  <2>1. c \notin Undoers /\ row[c] = "inserted" /\ at[c] \notin recorded
    BY <1>1, <1>3, MigrationsAssumption DEF RowKnown
  <2>2. recorded' = recorded \cup {at[c]} /\ undone' = undone
    BY <2>1 DEF TakesEffect
  <2>3. ups' = [ups EXCEPT ![at[c]] = @ + 1] /\ downs' = downs
    BY <1>3 DEF TakesEffect
  <2>4. Seen \subseteq Seen'
    BY <2>2 DEF Seen
  <2> QED BY <1>2, <1>3, <2>1, <2>2, <2>3, <2>4
<1>4. CASE c \in Undoers
  <2>1. c \notin Runners
    BY <1>4, MigrationsAssumption
  <2>2. ups' = ups /\ downs' = [downs EXCEPT ![at[c]] = @ + 1]
    BY <2>1 DEF TakesEffect
  <2>3. undone' = undone \cup {at[c]}
    BY <1>4 DEF TakesEffect
  <2>4. CASE row[c] = "deleted"
    <3>1. recorded' = recorded \ {at[c]} /\ at[c] \in recorded
      BY <1>1, <2>4 DEF TakesEffect, RowKnown
    <3>2. Seen \subseteq Seen'
      BY <2>3, <3>1 DEF Seen
    <3> QED BY <1>2, <1>4, <2>2, <2>3, <2>4, <3>1, <3>2
  <2>5. CASE row[c] = "missed"
    <3>1. recorded' = recorded
      BY <2>5 DEF TakesEffect
    <3>2. UndoRepeated(at[c])
      BY <1>1, <2>5 DEF RowKnown
    <3>3. Seen \subseteq Seen'
      BY <2>3, <3>1 DEF Seen
    <3> QED BY <1>2, <1>4, <2>2, <2>3, <2>5, <3>1, <3>2, <3>3
  <2> QED BY <1>1, <1>4, <2>4, <2>5 DEF RowKnown
<1> QED BY <1>3, <1>4 DEF Calls

\* What the other calls know outlives it.
LEMMA EffectOthers ==
  ASSUME Inv, NEW c \in Calls, pc[c] = "commit", TakesEffect(c), Only(c),
         c \in Undoers => at'[c] = at[c],
         NEW d \in Calls \ {c}
  PROVE  RowKnown(d)' /\ (d \in Runners => OrderKnown(d)')
<1>1. RowKnown(d)
  BY DEF Inv
<1>2. pc'[d] = pc[d] /\ at'[d] = at[d] /\ row'[d] = row[d] /\ applied'[d] = applied[d]
  BY DEF Only
<1>3. row[c] \in Held /\ row[d] \in Held => at[d] # at[c]
  BY DEF Inv, Exclusive
<1>4. row[d] = "inserted" => at[d] \notin recorded'
  BY <1>1, <1>3, EffectCases DEF RowKnown, Held
<1>5. row[d] = "deleted" => at[d] \in recorded'
  BY <1>1, <1>3, EffectCases DEF RowKnown, Held
<1>6. SameUndo(c)
  BY DEF SameUndo
<1>7. ASSUME NEW m \in Ids, at[d] = m, UndoRepeated(m)
      PROVE  \E u, v \in Undoers : u # v /\ at'[u] = at'[d] /\ at'[v] = at'[d]
  BY <1>2, <1>6, <1>7, UndoStable DEF UndoRepeated
<1>8. row[d] = "missed"
        => \E u, v \in Undoers : u # v /\ at'[u] = at'[d] /\ at'[v] = at'[d]
  <2>1. row[d] = "missed" => at[d] \in Ids /\ UndoRepeated(at[d])
    BY <1>1 DEF RowKnown, Working
  <2> QED BY <1>7, <2>1
<1>9. ASSUME d \in Undoers, pc[d] \in {"begin", "script", "record", "commit"}
      PROVE  \/ at[d] \in recorded'
             \/ \E u, v \in Undoers : u # v /\ at'[u] = at'[d] /\ at'[v] = at'[d]
  <2>1. at[d] \in Ids /\ (at[d] \in recorded \/ UndoRepeated(at[d]))
    BY <1>1, <1>9 DEF RowKnown, Working
  <2>2. CASE at[d] \in recorded \ recorded'
    <3>1. c \in Undoers /\ at[d] = at[c]
      BY <2>2, EffectCases
    <3>2. at'[c] = at'[d]
      BY <1>2, <3>1
    <3> QED BY <1>9, <3>1, <3>2
  <2> QED BY <1>7, <2>1, <2>2
<1>10. RowKnown(d)'
  BY <1>1, <1>2, <1>4, <1>5, <1>8, <1>9 DEF RowKnown, UndoRepeated
<1>11. d \in Runners => OrderKnown(d)'
  BY <1>2, EffectCases DEF Inv, OrderKnown
<1> QED BY <1>10, <1>11

\* The books stay balanced, but for a migration that two rollbacks are after.
LEMMA EffectBalanced ==
  ASSUME Inv, NEW c \in Calls, pc[c] = "commit", TakesEffect(c), Only(c),
         c \in Undoers => at'[c] = at[c]
  PROVE  RecordMatchesSchema'
<1> SUFFICES ASSUME NEW m \in Ids, ~UndoRepeated(m)'
             PROVE  ups'[m] = downs'[m] + (IF m \in recorded' THEN 1 ELSE 0)
  BY DEF RecordMatchesSchema
<1>1. ~UndoRepeated(m)
  <2>1. SameUndo(c)
    BY DEF SameUndo
  <2> QED BY <2>1, UndoStable
<1>2. ups[m] = downs[m] + (IF m \in recorded THEN 1 ELSE 0)
  BY <1>1 DEF Inv, RecordMatchesSchema
<1>3. ups[m] \in Nat /\ downs[m] \in Nat
  BY DEF Inv, TypeOK
<1>4. CASE at[c] # m
  <2>1. ups'[m] = ups[m] /\ downs'[m] = downs[m]
    BY <1>4, EffectCases DEF Inv, TypeOK
  <2>2. m \in recorded' <=> m \in recorded
    BY <1>4, EffectCases
  <2> QED BY <1>2, <2>1, <2>2
<1>5. CASE at[c] = m
  <2>1. CASE c \in Runners
    <3>1. c \notin Undoers
      BY <2>1, MigrationsAssumption
    <3>2. m \notin recorded /\ m \in recorded'
      BY <1>5, <3>1, EffectCases
    <3>3. ups'[m] = ups[m] + 1 /\ downs'[m] = downs[m]
      BY <1>5, <3>1, EffectCases DEF Inv, TypeOK
    <3> QED BY <1>2, <1>3, <3>2, <3>3
  <2>2. CASE c \in Undoers
    <3>1. c \notin Runners
      BY <2>2, MigrationsAssumption
    <3>2. m \in recorded /\ m \notin recorded'
      BY <1>1, <1>5, <3>1, EffectCases
    <3>3. downs'[m] = downs[m] + 1 /\ ups'[m] = ups[m]
      BY <1>5, <3>1, EffectCases DEF Inv, TypeOK
    <3> QED BY <1>2, <1>3, <3>2, <3>3
  <2> QED BY <2>1, <2>2 DEF Calls
<1> QED BY <1>4, <1>5

LEMMA EffectInOrder ==
  ASSUME Inv, NEW c \in Calls, pc[c] = "commit", TakesEffect(c)
  PROVE  InOrder'
<1> SUFFICES ASSUME NEW m \in recorded', NEW k \in 1..m PROVE k \in Seen'
  BY DEF InOrder, Seen
<1>1. CASE m \in recorded
  <2>1. k \in Seen
    BY <1>1 DEF Inv, InOrder, Seen
  <2> QED BY <2>1, EffectCases
<1>2. CASE m \notin recorded
  <2>1. c \in Runners /\ m = at[c] /\ m \in Ids
    BY <1>2, EffectCases
  <2>2. \A j \in Ids : j < m => j \in Seen
    BY <2>1 DEF Inv, OrderKnown, Working
  <2>3. k \in Ids /\ (k < m \/ k = m)
    BY <2>1, MigrationsAssumption DEF Ids
  <2>4. CASE k = m
    BY <2>4 DEF Seen
  <2> QED BY <2>2, <2>3, <2>4, EffectCases
<1> QED BY <1>1, <1>2

\* Two transactions stay apart when one of them ends.
LEMMA EffectStep ==
  ASSUME Inv, NEW c \in Calls, pc[c] = "commit", TakesEffect(c), Only(c),
         c \in Undoers => at'[c] = at[c],
         row'[c] = "none", RowKnown(c)', c \in Runners => OrderKnown(c)'
  PROVE  Known' /\ RecordMatchesSchema' /\ InOrder'
<1>1. \A d \in Calls \ {c} : RowKnown(d)' /\ (d \in Runners => OrderKnown(d)')
  BY EffectOthers
<1>2. Exclusive'
  BY DEF Inv, Exclusive, Only, Held
<1>3. Known'
  BY <1>1, <1>2 DEF Known, Calls
<1> QED BY <1>3, EffectBalanced, EffectInOrder

\* What is left of the loop starts after the migration that is recorded now.
LEMMA MigrationCommittedStep ==
  ASSUME Inv, NEW r \in Calls, MigrationCommitted(r)
  PROVE  Known' /\ RecordMatchesSchema' /\ InOrder'
<1>1. /\ r \in Runners /\ r \notin Undoers /\ pc[r] = "commit" /\ TakesEffect(r)
      /\ row' = [row EXCEPT ![r] = "none"]
      /\ applied' = applied
      /\ Continue(r, at[r] + 1, applied[r])
  BY MigrationsAssumption DEF MigrationCommitted, TransactionOver
<1>2. at[r] \in Ids /\ at[r] \in recorded' /\ Seen \subseteq Seen'
  BY <1>1, EffectCases
<1>3. at[r] + 1 \in 1..(N + 1)
  BY <1>2, MigrationsAssumption DEF Ids
<1>4. /\ \A d \in Calls \ {r} : pc'[d] = pc[d] /\ at'[d] = at[d]
      /\ pc'[r] \in {"begin", "resolved"}
      /\ pc'[r] = "begin"
           => /\ at'[r] \in Ids
              /\ \A k \in Ids : at[r] + 1 <= k /\ k < at'[r] => k \in applied[r]
  BY <1>1, <1>3, ContinueKnown DEF Inv
<1>5. row'[r] = "none" /\ \A d \in Calls \ {r} : row'[d] = row[d]
  BY <1>1 DEF Inv, TypeOK
<1>6. Only(r)
  BY <1>1, <1>4, <1>5 DEF Only
<1>7. RowKnown(r)'
  BY <1>1, <1>4, <1>5 DEF RowKnown, Working
<1>8. applied[r] \subseteq Seen /\ \A k \in Ids : k < at[r] => k \in Seen
  BY <1>1 DEF Inv, OrderKnown, Working
<1>9. ASSUME pc'[r] = "begin", NEW k \in Ids, k < at'[r] PROVE k \in Seen'
  <2>1. k < at[r] \/ k = at[r] \/ at[r] + 1 <= k
    BY <1>2, MigrationsAssumption DEF Ids
  <2>2. CASE k = at[r]
    BY <1>2, <2>2 DEF Seen
  <2> QED BY <1>2, <1>4, <1>8, <1>9, <2>1, <2>2
<1>10. OrderKnown(r)'
  <2>1. pc'[r] \in Working => pc'[r] = "begin"
    BY <1>4 DEF Working
  <2> QED BY <1>1, <1>2, <1>8, <1>9, <2>1 DEF OrderKnown
<1> QED BY <1>1, <1>5, <1>6, <1>7, <1>10, EffectStep

\* A rollback that is committed, and a COMMIT that took effect and failed.
LEMMA LateEffectStep ==
  ASSUME Inv, NEW c \in Calls,
         UndoCommitted(c) \/ (CommitFails(c) /\ TakesEffect(c))
  PROVE  Known' /\ RecordMatchesSchema' /\ InOrder'
<1>1. /\ pc[c] = "commit" /\ TakesEffect(c)
      /\ (Goto(c, "resolved") /\ c \notin Runners) \/ Goto(c, "rollback")
      /\ row' = [row EXCEPT ![c] = "none"]
      /\ UNCHANGED <<at, applied>>
  BY MigrationsAssumption DEF UndoCommitted, CommitFails, TransactionOver, AfterFailure
<1>2. RowKnown(c) /\ (c \in Runners => OrderKnown(c))
  BY DEF Inv
<1>3. row'[c] = "none" /\ \A d \in Calls \ {c} : row'[d] = row[d]
  BY <1>1 DEF Inv, TypeOK
<1>4. pc'[c] \in {"resolved", "rollback"} /\ \A d \in Calls \ {c} : pc'[d] = pc[d]
  BY <1>1 DEF Inv, TypeOK, Goto
<1>5. Only(c)
  BY <1>1, <1>3, <1>4 DEF Only
<1>6. RowKnown(c)'
  BY <1>1, <1>2, <1>3, <1>4 DEF RowKnown, Working
<1>7. c \in Runners => OrderKnown(c)'
  <2>1. Seen \subseteq Seen'
    BY <1>1, EffectCases
  <2> QED BY <1>1, <1>2, <2>1 DEF OrderKnown, Working
<1> QED BY <1>1, <1>3, <1>5, <1>6, <1>7, EffectStep

-----------------------------------------------------------------------------
(* The theorems.                                                           *)

LEMMA InitInv == Init => Inv
<1> SUFFICES ASSUME Init PROVE Inv
  OBVIOUS
<1>1. PICK n \in 0..N : recorded = 1..n /\ ups = [m \in Ids |-> IF m <= n THEN 1 ELSE 0]
  BY DEF Init
<1>2. recorded \subseteq Ids
  BY <1>1, MigrationsAssumption DEF Ids
<1>3. ups \in [Ids -> Nat]
  BY <1>1
<1>4. TypeOK
  <2>1. \A c \in Calls : 0 <= Length[c] /\ 0 \in 0..N
    BY MigrationsAssumption
  <2> QED BY <1>2, <1>3, <2>1 DEF Init, TypeOK, Rows
<1>5. \A c \in Calls : RowKnown(c)
  BY DEF Init, RowKnown, Working
<1>6. \A r \in Runners : OrderKnown(r)
  BY DEF Init, OrderKnown, Working, Calls
<1>7. Exclusive
  BY DEF Init, Exclusive, Held
<1>8. RecordMatchesSchema
  <2> SUFFICES ASSUME NEW m \in Ids
               PROVE  ups[m] = downs[m] + (IF m \in recorded THEN 1 ELSE 0)
    BY DEF RecordMatchesSchema
  <2>1. downs[m] = 0 /\ ups[m] = IF m <= n THEN 1 ELSE 0
    BY <1>1 DEF Init
  <2>2. m \in recorded <=> m <= n
    BY <1>1, MigrationsAssumption DEF Ids
  <2> QED BY <2>1, <2>2
<1>9. InOrder
  BY <1>1, MigrationsAssumption DEF InOrder
<1> QED BY <1>4, <1>5, <1>6, <1>7, <1>8, <1>9 DEF Inv

LEMMA NextInv == Inv /\ [Next]_vars => Inv'
<1> SUFFICES ASSUME Inv, [Next]_vars PROVE Inv'
  OBVIOUS
<1>1. TypeOK'
  BY PlacedStep DEF Inv, Placed, RowKnown
<1>2. ASSUME NEW r \in Runners, RunCalled(r)
      PROVE  Known' /\ RecordMatchesSchema' /\ InOrder'
  BY <1>2, RunCalledStep
<1>3. ASSUME NEW u \in Undoers, NEW m \in Ids, UndoCalled(u, m)
      PROVE  Known' /\ RecordMatchesSchema' /\ InOrder'
  BY <1>3, UndoCalledStep
<1>4. ASSUME NEW c \in Calls,
             Answered(c) \/ FailsOutside(c) \/ StatementFails(c) \/ CommitFails(c)
      PROVE  Known' /\ RecordMatchesSchema' /\ InOrder'
  <2>1. CASE \/ TableCreated(c) \/ Verified(c) \/ Begun(c) \/ ScriptRuns(c)
             \/ FailsOutside(c) \/ DuplicateKey(c) \/ StatementFails(c)
    BY <2>1, WaitStep
  <2>2. CASE Selected(c)
    BY <2>2, SelectedStep
  <2>3. CASE Recorded(c) \/ Deleted(c)
    BY <2>3, RowStep
  <2>4. CASE MigrationCommitted(c)
    BY <2>4, MigrationCommittedStep
  <2>5. CASE UndoCommitted(c)
    BY <2>5, LateEffectStep
  <2>6. CASE CommitFails(c)
    <3>1. TakesEffect(c) \/ UNCHANGED database
      BY <2>6 DEF CommitFails
    <3> QED BY <2>6, <3>1, AbortStep, LateEffectStep
  <2>7. CASE RolledBack(c)
    BY <2>7, AbortStep
  <2> QED BY <1>4, <2>1, <2>2, <2>3, <2>4, <2>5, <2>6, <2>7 DEF Answered
<1>5. ASSUME UNCHANGED vars
      PROVE  Known' /\ RecordMatchesSchema' /\ InOrder'
  <2>1. UNCHANGED <<recorded, ups, downs, undone, pc, at, applied, row>>
    BY <1>5 DEF vars, database
  <2>2. Known'
    <3>1. \A c \in Calls : RowKnown(c)'
      BY <2>1 DEF Inv, RowKnown, UndoRepeated
    <3>2. \A r \in Runners : OrderKnown(r)'
      BY <2>1 DEF Inv, OrderKnown, Seen
    <3>3. Exclusive'
      BY <2>1 DEF Inv, Exclusive
    <3> QED BY <3>1, <3>2, <3>3 DEF Known
  <2>3. RecordMatchesSchema' /\ InOrder'
    BY <2>1 DEF Inv, RecordMatchesSchema, InOrder, UndoRepeated
  <2> QED BY <2>2, <2>3
<1>6. Known' /\ RecordMatchesSchema' /\ InOrder'
  BY <1>2, <1>3, <1>4, <1>5 DEF Next
<1> QED BY <1>1, <1>6 DEF Inv, Known

\* Inv holds throughout every behaviour of the runner, with any number of
\* migrations, runners of any release and rollbacks.
THEOREM MigrationsInvariant == Spec => []Inv
BY InitInv, NextInv, PTL DEF Spec

\* The variables of the runner and of the database keep their types.
THEOREM MigrationsTyped == Spec => []TypeOK
<1>1. Inv => TypeOK
  BY DEF Inv
<1> QED BY <1>1, MigrationsInvariant, PTL

\* However runners of several releases race and whatever fails, a COMMIT of unknown
\* outcome included, the tracking table says what the schema holds (runner.ts:94-133:
\* script and record commit together), unless two rollbacks are after one migration.
THEOREM MigrationsRecordMatchesSchema == Spec => []RecordMatchesSchema
<1>1. Inv => RecordMatchesSchema
  BY DEF Inv
<1> QED BY <1>1, MigrationsInvariant, PTL

\* No interleaving and no failure lets a migration be recorded before one that the
\* list has in front of it, unless that one was rolled back (runner.ts:87-122).
THEOREM MigrationsInOrder == Spec => []InOrder
<1>1. Inv => InOrder
  BY DEF Inv
<1> QED BY <1>1, MigrationsInvariant, PTL

-----------------------------------------------------------------------------
(* What runners report.                                                    *)

Claims(m) == {r \in Runners : m \in result[r]}

\* No two runners claim one application, and as many claims are finite.
Claimed == \A m \in Ids : IsFiniteSet(Claims(m)) /\ Cardinality(Claims(m)) <= ups[m]

Complete == \A r \in Runners : pc[r] = "resolved" => 1..Length[r] \subseteq Seen

\* Nothing is taken back: what was recorded stays recorded or was undone by hand.
LEMMA Grows ==
  ASSUME Inv, [Next]_vars
  PROVE  Seen \subseteq Seen' /\ \A m \in Ids : ups[m] \in Nat /\ ups'[m] \in Nat /\ ups[m] <= ups'[m]
<1>1. \A m \in Ids : ups[m] \in Nat /\ ups'[m] \in Nat
  BY NextInv DEF Inv, TypeOK
<1>2. CASE UNCHANGED database
  BY <1>1, <1>2 DEF database, Seen
<1>3. ASSUME NEW c \in Calls, pc[c] = "commit", TakesEffect(c)
      PROVE  Seen \subseteq Seen' /\ \A m \in Ids : ups[m] <= ups'[m]
  <2>1. ups' = ups \/ ups' = [ups EXCEPT ![at[c]] = @ + 1]
    BY <1>3, EffectCases
  <2> QED BY <1>1, <1>3, <2>1, EffectCases DEF Inv, TypeOK
<1>4. UNCHANGED database \/ \E c \in Calls : pc[c] = "commit" /\ TakesEffect(c)
  <2>1. ASSUME NEW c \in Calls, Answered(c)
        PROVE  UNCHANGED database \/ (pc[c] = "commit" /\ TakesEffect(c))
    BY <2>1 DEF Answered, TableCreated, Selected, Verified, Begun, ScriptRuns, Recorded,
       DuplicateKey, Deleted, MigrationCommitted, UndoCommitted, RolledBack
  <2>2. ASSUME NEW c \in Calls, FailsOutside(c) \/ StatementFails(c) \/ CommitFails(c)
        PROVE  UNCHANGED database \/ (pc[c] = "commit" /\ TakesEffect(c))
    BY <2>2 DEF FailsOutside, StatementFails, CommitFails
  <2>3. UNCHANGED vars => UNCHANGED database
    BY DEF vars
  <2> QED BY <2>1, <2>2, <2>3 DEF Next, RunCalled, UndoCalled
<1> QED BY <1>1, <1>2, <1>3, <1>4

\* A claim is made in the step that applies the migration.
LEMMA ResultStep ==
  ASSUME Inv, [Next]_vars
  PROVE  \/ result' = result
         \/ \E r \in Runners : /\ MigrationCommitted(r) /\ at[r] \in Ids
                               /\ result' = [result EXCEPT ![r] = @ \cup {at[r]}]
                               /\ ups' = [ups EXCEPT ![at[r]] = @ + 1]
<1>1. ASSUME NEW c \in Calls, Answered(c), ~MigrationCommitted(c) PROVE result' = result
  BY <1>1 DEF Answered, TableCreated, Selected, Verified, Begun, ScriptRuns, Recorded,
     DuplicateKey, Deleted, UndoCommitted, RolledBack
<1>2. ASSUME NEW c \in Calls, FailsOutside(c) \/ StatementFails(c) \/ CommitFails(c)
      PROVE  result' = result
  BY <1>2 DEF FailsOutside, StatementFails, CommitFails
<1>3. ASSUME NEW c \in Calls, MigrationCommitted(c)
      PROVE  /\ c \in Runners /\ at[c] \in Ids
             /\ result' = [result EXCEPT ![c] = @ \cup {at[c]}]
             /\ ups' = [ups EXCEPT ![at[c]] = @ + 1]
  <2>1. c \in Runners /\ c \notin Undoers /\ pc[c] = "commit" /\ TakesEffect(c)
    BY <1>3, MigrationsAssumption DEF MigrationCommitted
  <2> QED BY <1>3, <2>1, EffectCases DEF MigrationCommitted
<1>4. UNCHANGED vars => result' = result
  BY DEF vars
<1> QED BY <1>1, <1>2, <1>3, <1>4 DEF Next, RunCalled, UndoCalled

LEMMA ClaimedStep == Inv /\ Claimed /\ [Next]_vars => Claimed'
<1> SUFFICES ASSUME Inv, Claimed, [Next]_vars, NEW m \in Ids
             PROVE  IsFiniteSet(Claims(m)') /\ Cardinality(Claims(m)') <= ups'[m]
  BY DEF Claimed
<1>1. /\ IsFiniteSet(Claims(m)) /\ Cardinality(Claims(m)) <= ups[m]
      /\ Cardinality(Claims(m)) \in Nat
      /\ ups[m] \in Nat /\ ups'[m] \in Nat /\ ups[m] <= ups'[m]
  BY Grows, FS_CardinalityType DEF Claimed
<1>2. CASE Claims(m)' = Claims(m)
  BY <1>1, <1>2
<1>3. CASE Claims(m)' # Claims(m)
  <2>1. PICK r \in Runners : /\ at[r] \in Ids
                             /\ result' = [result EXCEPT ![r] = @ \cup {at[r]}]
                             /\ ups' = [ups EXCEPT ![at[r]] = @ + 1]
    BY <1>3, ResultStep DEF Claims
  <2>2. /\ result'[r] = result[r] \cup {at[r]}
        /\ \A o \in Runners \ {r} : result'[o] = result[o]
    BY <2>1 DEF Inv, TypeOK, Calls
  <2>3. m = at[r] /\ Claims(m)' = Claims(m) \cup {r} /\ r \notin Claims(m)
    BY <1>3, <2>2 DEF Claims
  <2>4. IsFiniteSet(Claims(m)') /\ Cardinality(Claims(m)') = Cardinality(Claims(m)) + 1
    BY <1>1, <2>3, FS_AddElement
  <2>5. ups'[m] = ups[m] + 1
    BY <2>1, <2>3 DEF Inv, TypeOK
  <2> QED BY <1>1, <2>4, <2>5
<1> QED BY <1>2, <1>3

\* A runner resolves when nothing of its list is pending.
LEMMA CompleteStep == Inv /\ Complete /\ [Next]_vars => Complete'
<1> SUFFICES ASSUME Inv, Complete, [Next]_vars, NEW r \in Runners, pc'[r] = "resolved",
                    NEW k \in 1..Length[r]
             PROVE  k \in Seen'
  BY DEF Complete, Seen
<1>1. r \in Calls /\ r \notin Undoers /\ Length[r] \in 0..N /\ k \in Ids
  BY MigrationsAssumption DEF Calls, Ids
<1>2. CASE pc[r] = "resolved"
  BY <1>2, Grows DEF Complete
<1>3. CASE pc[r] # "resolved"
  <2>1. Selected(r) \/ MigrationCommitted(r)
    <3>1. ASSUME NEW c \in Calls, Answered(c), c # r \/ ~(Selected(r) \/ MigrationCommitted(r))
          PROVE  pc'[r] # "resolved"
      <4>1. CASE c # r
        BY <1>1, <1>3, <3>1, <4>1 DEF Inv, TypeOK, Answered, TableCreated, Selected, Verified,
           Begun, ScriptRuns, Recorded, DuplicateKey, Deleted, MigrationCommitted,
           UndoCommitted, RolledBack, AfterRollback, Continue, Goto
      <4>2. CASE c = r /\ ~(Selected(r) \/ MigrationCommitted(r))
        BY <1>1, <1>3, <3>1, <4>2 DEF Inv, TypeOK, Answered, TableCreated, Verified,
           Begun, ScriptRuns, Recorded, DuplicateKey, Deleted, UndoCommitted, RolledBack,
           AfterRollback, AfterFailure, Goto
      <4> QED BY <3>1, <4>1, <4>2
    <3>2. ASSUME NEW c \in Calls, FailsOutside(c) \/ StatementFails(c) \/ CommitFails(c)
          PROVE  pc'[r] # "resolved"
      BY <1>1, <1>3, <3>2 DEF Inv, TypeOK, FailsOutside, StatementFails, CommitFails,
         AfterFailure, Goto
    <3>3. ASSUME NEW c \in Runners, RunCalled(c) PROVE pc'[r] # "resolved"
      BY <1>1, <1>3, <3>3 DEF Inv, TypeOK, RunCalled, Goto
    <3>4. ASSUME NEW u \in Undoers, NEW m \in Ids, UndoCalled(u, m) PROVE pc'[r] # "resolved"
      BY <1>1, <1>3, <3>4 DEF Inv, TypeOK, UndoCalled, Goto
    <3>5. UNCHANGED vars => pc'[r] # "resolved"
      BY <1>3 DEF vars
    <3> QED BY <3>1, <3>2, <3>3, <3>4, <3>5 DEF Next
  <2>2. CASE Selected(r)
    <3>1. Continue(r, 1, recorded) /\ UNCHANGED database
      BY <2>2 DEF Selected
    <3>2. Pending(r, 1, recorded) = {}
      BY <1>1, <3>1 DEF Continue, Goto, Inv, TypeOK
    <3> QED BY <1>1, <3>1, <3>2 DEF Pending, Seen, database
  <2>3. CASE MigrationCommitted(r)
    <3>1. /\ Continue(r, at[r] + 1, applied[r]) /\ pc[r] = "commit" /\ TakesEffect(r)
      BY <2>3 DEF MigrationCommitted
    <3>2. Pending(r, at[r] + 1, applied[r]) = {}
      BY <1>1, <3>1 DEF Continue, Goto, Inv, TypeOK
    <3>3. at[r] \in Ids /\ at[r] \in Seen'
      BY <1>1, <3>1, EffectCases DEF Seen
    <3>4. applied[r] \subseteq Seen /\ \A j \in Ids : j < at[r] => j \in Seen
      BY <3>1 DEF Inv, OrderKnown, Working
    <3>5. k < at[r] \/ k = at[r] \/ k \in (at[r] + 1)..Length[r]
      BY <1>1, <3>3 DEF Ids
    <3>6. k \in (at[r] + 1)..Length[r] => k \in applied[r]
      BY <3>2 DEF Pending
    <3> QED BY <1>1, <3>3, <3>4, <3>5, <3>6, Grows
  <2> QED BY <2>1, <2>2, <2>3
<1> QED BY <1>2, <1>3

\* However runners race, fail and are undone: one that resolves leaves its whole list
\* applied or undone by hand, and of each application at most one runner says that it
\* was its own (runner.ts:85-123).
THEOREM MigrationsReportHonest == Spec => []ReportHonest
<1>1. Init => Claimed /\ Complete
  <2> SUFFICES ASSUME Init PROVE Claimed /\ Complete
    OBVIOUS
  <2>1. \A m \in Ids : Claims(m) = {} /\ ups[m] \in Nat
    BY InitInv DEF Init, Claims, Calls, Inv, TypeOK
  <2>2. Claimed
    BY <2>1, FS_EmptySet DEF Claimed
  <2>3. Complete
    BY DEF Init, Complete, Calls
  <2> QED BY <2>2, <2>3
<1>2. Claimed /\ Complete => ReportHonest
  BY DEF Claimed, Complete, ReportHonest, Claims, Seen
<1> QED BY <1>1, <1>2, ClaimedStep, CompleteStep, MigrationsInvariant, PTL DEF Spec
=============================================================================
