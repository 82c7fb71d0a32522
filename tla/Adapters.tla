------------------------------- MODULE Adapters -------------------------------
(***************************************************************************)
(* The four adapters of src/src/adapters as their callers use them at the  *)
(* same time: plain statements, batches and transactions with savepoints.  *)
(* One behaviour has one dialect.  The operations of an adapter are        *)
(* translated from its file; what its driver and the server behind it do   *)
(* (connections, sessions, COMMIT) is external.  Every action but the two  *)
(* halves of beginTransaction() and the rows of a batch is one await: no   *)
(* other caller can touch the connection in between.                       *)
(***************************************************************************)
EXTENDS Naturals, Sequences, FiniteSets

CONSTANTS Callers,    \* tasks that use the adapter
          Conns,      \* connections the driver's pool may open
          Dialects,   \* the adapters to consider
          Batchers,   \* those that call executeBatch(), once (a bound)
          MaxOps,     \* statements each caller sends outside batches (a bound)
          MaxMarks,   \* savepoints a session has at once (a bound)
          Rows,       \* rows of a batch (a bound)
          None        \* no connection

ASSUME AdaptersAssumption ==
  /\ Conns # {}
  /\ Dialects \subseteq {"postgres", "mysql", "mssql", "sqlite"}
  /\ Batchers \subseteq Callers /\ MaxOps \in [Callers -> Nat]
  /\ {MaxMarks, Rows} \subseteq Nat
  /\ None \notin Conns

VARIABLES dialect,    \* IDbAdapter.type
          live,       \* the pool (SQLite: the handle) exists and is not closed
          free,       \* connections the driver's pool may hand out
          sess,       \* the session of each connection, at the server
          durable,    \* committed work
          at,         \* where each caller is
          conn,       \* the connection its transaction object closes over
          mine,       \* what it was answered in its transaction, and its marks
          err,        \* a statement of its transaction failed and it went on
          ops, row,   \* statements sent; rows of its batch that were applied
          batch,      \* its one executeBatch()
          promised,   \* work answered as done, outside anybody's transaction
          undone,     \* work whose rollback was answered
          leaked,     \* connections START TRANSACTION failed on (MySQL)
          foul        \* a COMMIT of MySQL has failed

pool == <<live, free>>
server == <<sess, durable>>
me == <<at, conn, mine, err>>
count == <<ops, row, batch>>
seen == <<promised, undone, leaked, foul>>
vars == <<dialect, pool, server, me, count, seen>>

Work == [by : Callers, kind : {"statement", "row"}, n : Nat]
\* A session keeps the work of its open transaction, and for each savepoint
\* the work that was there before it.
NoSession == [open |-> FALSE, bad |-> FALSE, work |-> {}, marks |-> <<>>]
\* A caller keeps what it was answered, and the same for its own savepoints.
NothingDone == [work |-> {}, marks |-> {}]

\* SQLite has one handle; the others take connections from their pool.
Handle == CHOOSE x \in Conns : TRUE

Init ==
  /\ dialect \in Dialects
  /\ live = (dialect # "mssql")
  /\ free = Conns
  /\ sess = [x \in Conns |-> NoSession]
  /\ durable = {}
  /\ at = [c \in Callers |-> "idle"]
  /\ conn = [c \in Callers |-> None]
  /\ mine = [c \in Callers |-> NothingDone]
  /\ err = [c \in Callers |-> FALSE]
  /\ ops = [c \in Callers |-> 0]
  /\ row = [c \in Callers |-> 0]
  /\ batch = [c \in Callers |-> IF c \in Batchers THEN "no" ELSE "none"]
  /\ promised = {} /\ undone = {} /\ leaked = {} /\ foul = FALSE

-----------------------------------------------------------------------------
(* The server and the drivers (external). *)

\* A session in a transaction keeps the work to itself; otherwise it commits.
Runs(x, work) ==
  IF sess[x].open
  THEN sess' = [sess EXCEPT ![x].work = @ \cup work] /\ UNCHANGED durable
  ELSE durable' = durable \cup work /\ UNCHANGED sess

\* START TRANSACTION commits what the session had open.
Opens(x) ==
  /\ sess' = [sess EXCEPT ![x] = [NoSession EXCEPT !.open = TRUE]]
  /\ durable' = durable \cup sess[x].work

\* PostgreSQL answers the COMMIT of an aborted transaction and drops it.
Commits(x) ==
  /\ sess' = [sess EXCEPT ![x] = NoSession]
  /\ durable' = IF sess[x].bad THEN durable ELSE durable \cup sess[x].work

Drops(x) == sess' = [sess EXCEPT ![x] = NoSession] /\ UNCHANGED durable

\* One statement of w, on whatever connection is free; the answer says whether.
Applied(w, ok) ==
  \E x \in free : IF ok THEN Runs(x, {w}) ELSE UNCHANGED server
AppliedByHandle(w, ok) == IF ok THEN Runs(Handle, {w}) ELSE UNCHANGED server

-----------------------------------------------------------------------------
(* What a caller of any adapter sees. *)

InTx(c) == at[c] = "tx"
Holds(c) == at[c] \in {"acquired", "tx"}
Next1(c) == [by |-> c, kind |-> "statement", n |-> ops[c] + 1]
NextRow(c) == [by |-> c, kind |-> "row", n |-> row[c] + 1]
Outside == \A x \in Conns : dialect = "sqlite" => ~sess[x].open

\* An answer to a plain call is a promise, unless SQLite ran it inside the
\* transaction another caller had open on the one handle.
Promise(work) == promised' = IF Outside THEN promised \cup work ELSE promised

Goes(c, place, x) == at' = [at EXCEPT ![c] = place] /\ conn' = [conn EXCEPT ![c] = x]
Enters(c, x) ==
  /\ Goes(c, "tx", x)
  /\ mine' = [mine EXCEPT ![c] = NothingDone] /\ err' = [err EXCEPT ![c] = FALSE]
Leaves(c) == Goes(c, "idle", None) /\ UNCHANGED <<mine, err>>
Ends(c) == Goes(c, "ended", conn[c]) /\ UNCHANGED <<mine, err>>

\* A statement outside a transaction.
Sends(c, ok) ==
  /\ live /\ at[c] = "idle" /\ ops[c] < MaxOps[c]
  /\ ops' = [ops EXCEPT ![c] = @ + 1]
  /\ IF ok THEN Promise({Next1(c)}) ELSE UNCHANGED promised
  /\ UNCHANGED <<dialect, pool, me, row, batch, undone, leaked, foul>>

\* A statement of a transaction; a refused one makes PostgreSQL abort it.
SendsInTx(c, aborts) ==
  /\ InTx(c) /\ ops[c] < MaxOps[c]
  /\ ops' = [ops EXCEPT ![c] = @ + 1]
  /\ \/ /\ ~sess[conn[c]].bad
        /\ Runs(conn[c], {Next1(c)})
        /\ mine' = [mine EXCEPT ![c].work = @ \cup {Next1(c)}]
        /\ UNCHANGED err
     \/ /\ sess' = [sess EXCEPT ![conn[c]].bad = aborts]
        /\ err' = [err EXCEPT ![c] = TRUE]
        /\ UNCHANGED <<durable, mine>>
  /\ UNCHANGED <<dialect, pool, at, conn, row, batch, seen>>

\* COMMIT was answered.
Committed(c) ==
  /\ Commits(conn[c])
  /\ promised' = IF dialect = "postgres" /\ err[c] THEN promised
                 ELSE promised \cup mine[c].work
  /\ Leaves(c)
  /\ UNCHANGED undone

\* ROLLBACK was answered, or failed because the session is gone.
RolledBack(c) ==
  /\ Drops(conn[c])
  /\ undone' \in {undone, undone \cup mine[c].work}
  /\ Leaves(c)
  /\ UNCHANGED promised

\* SAVEPOINT, ROLLBACK TO and, where there is one, RELEASE.  Savepoints are
\* numbered as they are set; ROLLBACK TO and RELEASE drop the later ones too.
SavesPoint(c) ==
  LET s == sess[conn[c]] IN
  /\ InTx(c) /\ ~s.bad /\ Len(s.marks) < MaxMarks
  /\ sess' = [sess EXCEPT ![conn[c]].marks = Append(@, s.work)]
  /\ mine' = [mine EXCEPT ![c].marks = @ \cup {[n |-> Len(s.marks) + 1, work |-> mine[c].work]}]
  /\ UNCHANGED <<dialect, pool, durable, at, conn, err, count, seen>>
GoesBack(c) ==
  LET s == sess[conn[c]] IN
  /\ InTx(c)
  /\ \E m \in mine[c].marks :
       /\ m.n \in DOMAIN s.marks
       /\ sess' = [sess EXCEPT ![conn[c]] = [open |-> s.open, bad |-> FALSE, work |-> s.marks[m.n],
                                             marks |-> SubSeq(s.marks, 1, m.n)]]
       /\ mine' = [mine EXCEPT ![c] = [work |-> m.work, marks |-> {k \in @.marks : k.n <= m.n}]]
       /\ undone' = undone \cup (mine[c].work \ m.work)
  /\ err' = [err EXCEPT ![c] = FALSE]
  /\ UNCHANGED <<dialect, pool, durable, at, conn, count, promised, leaked, foul>>
ForgetsPoint(c, atServer) ==
  LET s == sess[conn[c]] IN
  /\ InTx(c) /\ ~s.bad
  /\ \E m \in mine[c].marks :
       /\ m.n \in DOMAIN s.marks
       /\ mine' = [mine EXCEPT ![c].marks = {k \in @ : k.n < m.n}]
       /\ sess' = IF atServer THEN [sess EXCEPT ![conn[c]].marks = SubSeq(@, 1, m.n - 1)] ELSE sess
  /\ UNCHANGED <<dialect, pool, durable, at, conn, err, count, seen>>

\* executeBatch(): one row after the other, each awaited; the first failure ends it.
StartsBatch(c) ==
  /\ live /\ at[c] = "idle" /\ batch[c] = "no"
  /\ at' = [at EXCEPT ![c] = "batch"]
  /\ batch' = [batch EXCEPT ![c] = "running"]
  /\ UNCHANGED <<dialect, pool, server, conn, mine, err, ops, row, seen>>
\* Mutant: a row that fails is skipped and the loop goes on.
AppliesRowOrSkips(c) ==
  /\ live /\ at[c] = "batch" /\ row[c] < Rows
  /\ \E ok \in BOOLEAN : Applied(NextRow(c), ok)
  /\ row' = [row EXCEPT ![c] = @ + 1]
  /\ UNCHANGED <<dialect, pool, me, ops, batch, seen>>
AppliesRow(c) ==
  /\ live /\ at[c] = "batch" /\ row[c] < Rows
  /\ Applied(NextRow(c), TRUE)
  /\ row' = [row EXCEPT ![c] = @ + 1]
  /\ UNCHANGED <<dialect, pool, me, ops, batch, seen>>
EndsBatch(c) ==
  /\ at[c] = "batch"
  /\ at' = [at EXCEPT ![c] = "idle"]
  /\ \/ /\ row[c] = Rows
        /\ batch' = [batch EXCEPT ![c] = "answered"]
        /\ Promise([by : {c}, kind : {"row"}, n : 1..Rows])
     \/ /\ row[c] < Rows
        /\ batch' = [batch EXCEPT ![c] = "failed"]
        /\ UNCHANGED promised
  /\ UNCHANGED <<dialect, pool, server, conn, mine, err, ops, row, undone, leaked, foul>>
BatchOf(c) == StartsBatch(c) \/ AppliesRow(c) \/ EndsBatch(c)

\* close() while no transaction is open.
Closes ==
  /\ live /\ \A c \in Callers : at[c] \in {"idle", "batch"}
  /\ live' = FALSE
  /\ sess' = [x \in Conns |-> NoSession]
  /\ UNCHANGED <<dialect, free, durable, me, count, seen>>

\* The caller does not follow a failed commit() with a rollback().
GivesUp(c) ==
  /\ at[c] = "ended" /\ Leaves(c)
  /\ UNCHANGED <<dialect, pool, server, count, seen>>

-----------------------------------------------------------------------------
(* postgres.ts *)

PgStatement(c) ==
  dialect = "postgres" /\ \E ok \in BOOLEAN : Sends(c, ok) /\ Applied(Next1(c), ok)

PgReserve(c) ==
  /\ dialect = "postgres" /\ live /\ at[c] = "idle"
  /\ \E x \in free : free' = free \ {x} /\ Goes(c, "acquired", x)
  /\ UNCHANGED <<dialect, live, server, mine, err, count, seen>>

\* Mutant: the error path of BEGIN does not release.
PgBeginKeeps(c) ==
  /\ dialect = "postgres" /\ at[c] = "acquired"
  /\ (Opens(conn[c]) /\ Enters(c, conn[c])) \/ (Leaves(c) /\ UNCHANGED server)
  /\ UNCHANGED <<dialect, pool, count, seen>>

\* A BEGIN that fails gives the reserved connection back.
PgBegin(c) ==
  /\ dialect = "postgres" /\ at[c] = "acquired"
  /\ \/ Opens(conn[c]) /\ Enters(c, conn[c]) /\ UNCHANGED free
     \/ free' = free \cup {conn[c]} /\ Leaves(c) /\ UNCHANGED server
  /\ UNCHANGED <<dialect, live, count, seen>>

PgTxStatement(c) == dialect = "postgres" /\ SendsInTx(c, TRUE)

\* finally: the reservation ends however the COMMIT went.
PgCommit(c) ==
  /\ dialect = "postgres" /\ InTx(c)
  /\ \/ Committed(c)
     \/ Drops(conn[c]) /\ Ends(c) /\ UNCHANGED <<promised, undone>>
  /\ free' = free \cup {conn[c]}
  /\ UNCHANGED <<dialect, live, count, leaked, foul>>

\* After a failed commit() the driver refuses the ended reservation.
PgRollback(c) ==
  /\ dialect = "postgres"
  /\ \/ InTx(c) /\ RolledBack(c) /\ free' = free \cup {conn[c]}
     \/ at[c] = "ended" /\ Leaves(c) /\ UNCHANGED <<free, server, promised, undone>>
  /\ UNCHANGED <<dialect, live, count, leaked, foul>>

PgSavepoint(c) == dialect = "postgres" /\ (SavesPoint(c) \/ GoesBack(c) \/ ForgetsPoint(c, TRUE))
PgBatch(c) == dialect = "postgres" /\ BatchOf(c)
PgClose == dialect = "postgres" /\ Closes

-----------------------------------------------------------------------------
(* mysql.ts *)

MyStatement(c) ==
  dialect = "mysql" /\ \E ok \in BOOLEAN : Sends(c, ok) /\ Applied(Next1(c), ok)

MyGetConnection(c) ==
  /\ dialect = "mysql" /\ live /\ at[c] = "idle"
  /\ \E x \in free : free' = free \ {x} /\ Goes(c, "acquired", x)
  /\ UNCHANGED <<dialect, live, server, mine, err, count, seen>>

\* A START TRANSACTION that fails leaves the connection with nobody.
MyBegin(c) ==
  /\ dialect = "mysql" /\ at[c] = "acquired"
  /\ \/ Opens(conn[c]) /\ Enters(c, conn[c]) /\ UNCHANGED leaked
     \/ leaked' = leaked \cup {conn[c]} /\ Leaves(c) /\ UNCHANGED server
  /\ UNCHANGED <<dialect, pool, count, promised, undone, foul>>

MyTxStatement(c) == dialect = "mysql" /\ SendsInTx(c, FALSE)

\* A COMMIT that fails may leave the transaction open; the connection is
\* released all the same.
MyCommit(c) ==
  /\ dialect = "mysql" /\ InTx(c)
  /\ \/ Committed(c) /\ UNCHANGED foul
     \/ /\ Drops(conn[c]) \/ UNCHANGED server
        /\ Ends(c) /\ foul' = TRUE
        /\ UNCHANGED <<promised, undone>>
  /\ free' = free \cup {conn[c]}
  /\ UNCHANGED <<dialect, live, count, leaked>>

\* Mutant: rollback() releases the connection without a ROLLBACK.
MyRollbackOnlyReleases(c) ==
  /\ dialect = "mysql" /\ at[c] \in {"tx", "ended"}
  /\ Leaves(c) /\ undone' = undone \cup mine[c].work
  /\ free' = free \cup {conn[c]}
  /\ UNCHANGED <<dialect, live, server, count, promised, leaked, foul>>

\* After a failed commit() it rolls back and releases the connection again,
\* whoever has it by then.
MyRollback(c) ==
  /\ dialect = "mysql" /\ at[c] \in {"tx", "ended"}
  /\ RolledBack(c)
  /\ free' = free \cup {conn[c]}
  /\ UNCHANGED <<dialect, live, count, leaked, foul>>

MySavepoint(c) == dialect = "mysql" /\ (SavesPoint(c) \/ GoesBack(c) \/ ForgetsPoint(c, TRUE))
MyBatch(c) == dialect = "mysql" /\ BatchOf(c)
MyClose == dialect = "mysql" /\ Closes

-----------------------------------------------------------------------------
(* mssql.ts *)

\* The pool is made by the first call, and again by the first after close().
MsPool ==
  /\ dialect = "mssql" /\ ~live
  /\ live' = TRUE
  /\ UNCHANGED <<dialect, free, server, me, count, seen>>

MsStatement(c) ==
  dialect = "mssql" /\ \E ok \in BOOLEAN : Sends(c, ok) /\ Applied(Next1(c), ok)

\* Transaction.begin() takes a connection and, when it fails, gives it back.
MsBegin(c) ==
  /\ dialect = "mssql" /\ live /\ at[c] = "idle"
  /\ \E x \in free : free' = free \ {x} /\ Opens(x) /\ Enters(c, x)
  /\ UNCHANGED <<dialect, live, count, seen>>

MsTxStatement(c) == dialect = "mssql" /\ SendsInTx(c, FALSE)

\* Mutant: the connection is forgotten before it is given back.
MsCommitForgets(c) ==
  /\ dialect = "mssql" /\ InTx(c)
  /\ Committed(c)
  /\ free' = free \cup {conn'[c]}
  /\ UNCHANGED <<dialect, live, count, leaked, foul>>

\* The driver releases the connection when the transaction has ended.
MsCommit(c) ==
  /\ dialect = "mssql" /\ InTx(c)
  /\ \/ Committed(c)
     \/ Drops(conn[c]) /\ Ends(c) /\ UNCHANGED <<promised, undone>>
  /\ free' = free \cup {conn[c]}
  /\ UNCHANGED <<dialect, live, count, leaked, foul>>

\* After a failed commit() the driver answers that nothing has begun.
MsRollback(c) ==
  /\ dialect = "mssql"
  /\ \/ InTx(c) /\ RolledBack(c) /\ free' = free \cup {conn[c]}
     \/ at[c] = "ended" /\ Leaves(c) /\ UNCHANGED <<free, server, promised, undone>>
  /\ UNCHANGED <<dialect, live, count, leaked, foul>>

\* releaseSavepoint() does nothing.
MsSavepoint(c) == dialect = "mssql" /\ (SavesPoint(c) \/ GoesBack(c) \/ ForgetsPoint(c, FALSE))
MsBatch(c) == dialect = "mssql" /\ BatchOf(c)
MsClose == dialect = "mssql" /\ Closes

-----------------------------------------------------------------------------
(* sqlite.ts: every operation is synchronous, on the one handle. *)

LiteStatement(c) ==
  dialect = "sqlite" /\ \E ok \in BOOLEAN : Sends(c, ok) /\ AppliedByHandle(Next1(c), ok)

\* BEGIN inside a transaction is an error, so a second one is refused.
LiteBegin(c) ==
  /\ dialect = "sqlite" /\ live /\ at[c] = "idle"
  /\ ~sess[Handle].open
  /\ Opens(Handle) /\ Enters(c, Handle)
  /\ UNCHANGED <<dialect, pool, count, seen>>

LiteTxStatement(c) == dialect = "sqlite" /\ SendsInTx(c, FALSE)

\* A COMMIT that fails (busy) leaves the transaction open on the handle.
LiteCommit(c) ==
  /\ dialect = "sqlite" /\ InTx(c)
  /\ Committed(c) \/ (Ends(c) /\ UNCHANGED <<server, promised, undone>>)
  /\ UNCHANGED <<dialect, pool, count, leaked, foul>>

LiteRollback(c) ==
  /\ dialect = "sqlite" /\ at[c] \in {"tx", "ended"}
  /\ RolledBack(c)
  /\ UNCHANGED <<dialect, pool, count, leaked, foul>>

LiteSavepoint(c) == dialect = "sqlite" /\ (SavesPoint(c) \/ GoesBack(c) \/ ForgetsPoint(c, TRUE))

\* The loop runs to its end or to the first row that fails without a pause.
LiteBatch(c) ==
  /\ dialect = "sqlite" /\ live /\ at[c] = "idle" /\ batch[c] = "no"
  /\ \E k \in 0..Rows :
       LET applied == [by : {c}, kind : {"row"}, n : 1..k] IN
       /\ row' = [row EXCEPT ![c] = k]
       /\ batch' = [batch EXCEPT ![c] = IF k = Rows THEN "answered" ELSE "failed"]
       /\ IF k = Rows THEN Promise(applied) ELSE UNCHANGED promised
       /\ Runs(Handle, applied)
  /\ UNCHANGED <<dialect, pool, me, ops, undone, leaked, foul>>

LiteClose == dialect = "sqlite" /\ Closes

-----------------------------------------------------------------------------
Postgres(c) == PgStatement(c) \/ PgReserve(c) \/ PgBegin(c) \/ PgTxStatement(c)
                 \/ PgCommit(c) \/ PgRollback(c) \/ PgSavepoint(c) \/ PgBatch(c)
Mysql(c) == MyStatement(c) \/ MyGetConnection(c) \/ MyBegin(c) \/ MyTxStatement(c)
              \/ MyCommit(c) \/ MyRollback(c) \/ MySavepoint(c) \/ MyBatch(c)
Mssql(c) == MsStatement(c) \/ MsBegin(c) \/ MsTxStatement(c)
              \/ MsCommit(c) \/ MsRollback(c) \/ MsSavepoint(c) \/ MsBatch(c)
Sqlite(c) == LiteStatement(c) \/ LiteBegin(c) \/ LiteTxStatement(c)
               \/ LiteCommit(c) \/ LiteRollback(c) \/ LiteSavepoint(c) \/ LiteBatch(c)

Next ==
  \/ \E c \in Callers : Postgres(c) \/ Mysql(c) \/ Mssql(c) \/ Sqlite(c) \/ GivesUp(c)
  \/ MsPool \/ PgClose \/ MyClose \/ MsClose \/ LiteClose

Spec == Init /\ [][Next]_vars

-----------------------------------------------------------------------------
\* Shapes of all variables.
TypeOK ==
  /\ dialect \in Dialects /\ live \in BOOLEAN
  /\ free \subseteq Conns /\ leaked \subseteq Conns
  /\ sess \in [Conns -> [open : BOOLEAN, bad : BOOLEAN, work : SUBSET Work,
                        marks : Seq(SUBSET Work)]]
  /\ at \in [Callers -> {"idle", "acquired", "tx", "ended", "batch"}]
  /\ conn \in [Callers -> Conns \cup {None}]
  /\ mine \in [Callers -> [work : SUBSET Work,
                          marks : SUBSET [n : Nat, work : SUBSET Work]]]
  /\ err \in [Callers -> BOOLEAN]
  /\ ops \in [Callers -> Nat] /\ row \in [Callers -> 0..Rows]
  /\ batch \in [Callers -> {"none", "no", "running", "answered", "failed"}]
  /\ durable \subseteq Work /\ promised \subseteq Work /\ undone \subseteq Work
  /\ foul \in BOOLEAN

\* Work that was answered as done is in the database, and work whose rollback
\* was answered, to a savepoint or of the whole transaction, is not: on every
\* adapter, until a COMMIT of MySQL fails (mysql.ts:148).
WorkHonest == ~foul => promised \subseteq durable /\ undone \cap durable = {}

\* No two callers run transactions on one connection, and none of their
\* connections may be handed out (until a COMMIT of MySQL fails).
OneUser ==
  ~foul => \A c, d \in Callers : Holds(c) =>
    /\ Holds(d) /\ conn[c] = conn[d] => c = d
    /\ dialect # "sqlite" => conn[c] \notin free

\* A connection is free or held by a transaction: every way out of one gives
\* it back, except the failed START TRANSACTION of MySQL (mysql.ts:106).
NoneLost ==
  \A x \in Conns : x \in free \cup leaked \/ \E c \in Callers : Holds(c) /\ conn[c] = x

\* Every connection is in one place: no two transactions share one, none is
\* free and in use, and none is lost on the way out of a transaction.
ConnectionsKept == OneUser /\ NoneLost

\* What a failed executeBatch() leaves is a prefix of its rows
\* (until a COMMIT of MySQL fails).
BatchPrefix ==
  ~foul => \A w \in durable : w.kind = "row" =>
    \A k \in 1..w.n : [w EXCEPT !.n = k] \in durable

\* PRD.md:1794: "Transactions **pin** a connection for their entire duration."
Pinned == \A c \in Callers : InTx(c) => conn[c] \notin free
=============================================================================
