---------------------------- MODULE AdaptersProofs ----------------------------
(***************************************************************************)
(* Proofs about Adapters, for any callers, connections, statements,        *)
(* savepoints and rows, on each of the four adapters.                      *)
(*                                                                         *)
(* Connections: one kind of step takes a free one, one ends a use of it    *)
(* and gives it back, and START TRANSACTION of MySQL loses one; everything *)
(* else moves callers between idle and a batch. On SQLite there is nothing *)
(* to take: there the handle is open for whoever is between BEGIN and the  *)
(* end, which is why a second BEGIN is refused (KInv).                     *)
(*                                                                         *)
(* Work: a piece of work is new when it is sent and in one place ever      *)
(* after: committed, in one session, undone, or lost. What a caller was    *)
(* answered in its transaction is in its session, and nothing it was       *)
(* answered after a savepoint is in what that savepoint goes back to, so   *)
(* that COMMIT keeps and ROLLBACK removes what they answer (WInv).         *)
(***************************************************************************)
EXTENDS Adapters, TLAPS

Places == {"idle", "acquired", "tx", "ended", "batch"}

\* A transaction has a connection also when its COMMIT has failed.
Placed ==
  /\ free \subseteq Conns
  /\ at \in [Callers -> Places]
  /\ DOMAIN conn = Callers
  /\ \A c \in Callers : at[c] \in {"acquired", "tx", "ended"} => conn[c] \in Conns

SessOK == DOMAIN sess = Conns /\ \A x \in Conns : "open" \in DOMAIN sess[x]

OnHandle(c) == at[c] \in {"tx", "ended"}

\* Nobody else is between BEGIN and the end while the handle is open.
LiteOK == dialect = "sqlite" =>
  /\ free = Conns
  /\ \A c \in Callers : at[c] # "acquired" /\ (OnHandle(c) => sess[Handle].open)
  /\ \A c, d \in Callers : OnHandle(c) /\ OnHandle(d) => c = d

\* On MySQL only a failed COMMIT leaves a transaction to be rolled back.
EndedFoul == dialect = "mysql" => \A c \in Callers : at[c] = "ended" => foul

KInv == Placed /\ SessOK /\ LiteOK /\ EndedFoul /\ OneUser /\ NoneLost

\* The caller c goes to one place with a connection, the others stay.
Moved(c, place, x) == at' = [at EXCEPT ![c] = place] /\ conn' = [conn EXCEPT ![c] = x]

LEMMA HandleIsOne == Handle \in Conns
BY AdaptersAssumption DEF Handle

-----------------------------------------------------------------------------
(* The kinds of steps                                                      *)

\* The callers that are in a transaction stay where they are.
Quiet ==
  /\ UNCHANGED <<dialect, free, conn, leaked, foul>>
  /\ at' \in [Callers -> Places]
  /\ \A c \in Callers : at'[c] = at[c] \/ {at[c], at'[c]} \subseteq {"idle", "batch"}
  /\ SessOK'
  /\ dialect = "sqlite" => sess'[Handle].open = sess[Handle].open

LEMMA QuietKeeps == ASSUME KInv, Quiet PROVE KInv'
<1>1. \A c \in Callers : \A p \in {"acquired", "tx", "ended"} : at'[c] = p <=> at[c] = p
  BY DEF Quiet
<1>2. \A c \in Callers : (Holds(c)' <=> Holds(c)) /\ (OnHandle(c)' <=> OnHandle(c))
  BY <1>1 DEF Holds, OnHandle
<1>3. UNCHANGED <<dialect, free, conn, leaked, foul>>
  BY DEF Quiet
<1>4. Placed'
  BY <1>1, <1>3 DEF KInv, Placed, Quiet
<1>5. LiteOK'
  BY <1>1, <1>2, <1>3 DEF KInv, LiteOK, Quiet
<1>6. EndedFoul'
  BY <1>1, <1>3 DEF KInv, EndedFoul
<1>7. OneUser'
  BY <1>2, <1>3 DEF KInv, OneUser
<1>8. NoneLost'
  BY <1>2, <1>3 DEF KInv, NoneLost
<1> QED BY <1>4, <1>5, <1>6, <1>7, <1>8 DEF KInv, Quiet

LEMMA TakeKeeps ==
  ASSUME KInv, SessOK', UNCHANGED <<dialect, leaked, foul>>, dialect # "sqlite",
         NEW c \in Callers, at[c] = "idle",
         NEW x \in free, free' = free \ {x},
         NEW p \in {"acquired", "tx"}, Moved(c, p, x)
  PROVE  KInv'
<1>1. /\ at'[c] = p /\ conn'[c] = x /\ x \in Conns
      /\ \A d \in Callers \ {c} : at'[d] = at[d] /\ conn'[d] = conn[d]
  BY DEF KInv, Placed, Moved
<1>2. Placed'
  BY <1>1 DEF KInv, Placed, Places, Moved
<1>3. Holds(c)' /\ \A d \in Callers \ {c} : (Holds(d)' <=> Holds(d))
  BY <1>1 DEF Holds
<1>4. OneUser'
  BY <1>1, <1>3 DEF KInv, OneUser
<1>5. NoneLost'
  <2>1. ASSUME NEW d \in Callers, Holds(d) PROVE d # c
    BY <2>1 DEF Holds
  <2> QED BY <1>1, <1>3, <2>1 DEF KInv, NoneLost
<1>6. EndedFoul'
  BY <1>1 DEF KInv, EndedFoul
<1> QED BY <1>2, <1>4, <1>5, <1>6 DEF KInv, LiteOK

LEMMA EnterKeeps ==
  ASSUME KInv, SessOK', UNCHANGED <<dialect, free, leaked, foul>>, dialect # "sqlite",
         NEW c \in Callers, at[c] = "acquired", Moved(c, "tx", conn[c])
  PROVE  KInv'
<1>1. /\ at'[c] = "tx" /\ conn'[c] = conn[c]
      /\ \A d \in Callers \ {c} : at'[d] = at[d] /\ conn'[d] = conn[d]
  BY DEF KInv, Placed, Moved
<1>2. Placed'
  BY <1>1 DEF KInv, Placed, Places, Moved
<1>3. \A d \in Callers : (Holds(d)' <=> Holds(d)) /\ conn'[d] = conn[d]
  BY <1>1 DEF Holds
<1>4. OneUser' /\ NoneLost'
  BY <1>3 DEF KInv, OneUser, NoneLost
<1>5. EndedFoul'
  BY <1>1 DEF KInv, EndedFoul
<1> QED BY <1>2, <1>4, <1>5 DEF KInv, LiteOK

\* The connection goes back to the pool, or with the leaked ones.
LEMMA GiveBackKeeps ==
  ASSUME KInv, SessOK', UNCHANGED dialect, dialect # "sqlite", foul => foul',
         NEW c \in Callers, at[c] \in {"acquired", "tx"},
         \/ free' = free \cup {conn[c]} /\ leaked' = leaked
         \/ free' = free /\ leaked' = leaked \cup {conn[c]},
         \/ Moved(c, "idle", None)
         \/ Moved(c, "ended", conn[c]) /\ (dialect = "mysql" => foul')
  PROVE  KInv'
<1>1. /\ at'[c] \in {"idle", "ended"} /\ conn[c] \in Conns
      /\ \A d \in Callers \ {c} : at'[d] = at[d] /\ conn'[d] = conn[d]
      /\ at'[c] = "ended" => conn'[c] = conn[c] /\ (dialect = "mysql" => foul')
  BY DEF KInv, Placed, Moved
<1>2. at' \in [Callers -> Places] /\ DOMAIN conn' = Callers
  BY DEF KInv, Placed, Places, Moved
<1>3. Placed'
  BY <1>1, <1>2 DEF KInv, Placed
<1>4. ~Holds(c)' /\ Holds(c) /\ \A d \in Callers \ {c} : (Holds(d)' <=> Holds(d))
  BY <1>1 DEF Holds
<1>5. OneUser'
  <2> SUFFICES ASSUME ~foul', NEW d \in Callers, Holds(d)'
               PROVE  /\ \A e \in Callers : Holds(e)' /\ conn'[d] = conn'[e] => d = e
                      /\ conn'[d] \notin free'
    BY DEF OneUser
  <2>1. d # c /\ Holds(d) /\ conn'[d] = conn[d] /\ ~foul
    BY <1>1, <1>4
  <2>2. conn[d] # conn[c] /\ conn[d] \notin free
    BY <1>4, <2>1 DEF KInv, OneUser
  <2> QED BY <1>1, <1>4, <2>1, <2>2 DEF KInv, OneUser
<1>6. NoneLost'
  <2> SUFFICES ASSUME NEW x \in Conns
               PROVE  x \in free' \cup leaked' \/ \E d \in Callers : Holds(d)' /\ conn'[d] = x
    BY DEF NoneLost
  <2>1. CASE x \in free \cup leaked \cup {conn[c]}
    BY <2>1
  <2>2. CASE x \notin free \cup leaked \cup {conn[c]}
    <3>1. PICK d \in Callers : Holds(d) /\ conn[d] = x
      BY <2>2 DEF KInv, NoneLost
    <3> QED BY <1>1, <1>4, <2>2, <3>1
  <2> QED BY <2>1, <2>2
<1>7. EndedFoul'
  BY <1>1 DEF KInv, EndedFoul
<1> QED BY <1>3, <1>5, <1>6, <1>7 DEF KInv, LiteOK

\* Nobody needs the transaction any more whose COMMIT has failed.
LEMMA OverKeeps ==
  ASSUME KInv, SessOK', UNCHANGED <<dialect, leaked, foul>>,
         NEW c \in Callers, at[c] = "ended", Moved(c, "idle", None),
         free' = free \/ (free' = free \cup {conn[c]} /\ dialect = "mysql"),
         dialect = "sqlite" => UNCHANGED sess \/ sess' = [sess EXCEPT ![conn[c]] = NoSession]
  PROVE  KInv'
<1>1. /\ at'[c] = "idle" /\ conn[c] \in Conns
      /\ \A d \in Callers \ {c} : at'[d] = at[d] /\ conn'[d] = conn[d]
  BY DEF KInv, Placed, Moved
<1>2. Placed'
  BY <1>1 DEF KInv, Placed, Places, Moved
<1>3. \A d \in Callers : (Holds(d)' <=> Holds(d)) /\ (Holds(d) => conn'[d] = conn[d])
  BY <1>1 DEF Holds
<1>4. NoneLost'
  BY <1>3 DEF KInv, NoneLost
<1>5. OneUser'
  <2>1. CASE dialect = "mysql"
    BY <1>1, <2>1 DEF KInv, EndedFoul, OneUser
  <2>2. CASE dialect # "mysql"
    BY <1>3, <2>2 DEF KInv, OneUser
  <2> QED BY <2>1, <2>2
<1>6. EndedFoul'
  BY <1>1 DEF KInv, EndedFoul
<1>7. LiteOK'
  <2> SUFFICES ASSUME dialect = "sqlite" PROVE LiteOK'
    BY DEF LiteOK
  <2>1. \A d \in Callers : at'[d] # "acquired" /\ ~OnHandle(d)'
    BY <1>1 DEF KInv, LiteOK, OnHandle
  <2>2. free' = Conns
    BY DEF KInv, LiteOK
  <2> QED BY <2>1, <2>2 DEF LiteOK
<1> QED BY <1>2, <1>4, <1>5, <1>6, <1>7 DEF KInv

-----------------------------------------------------------------------------
(* Sessions                                                                *)

LEMMA RunsKeeps ==
  ASSUME SessOK, NEW x \in Conns, NEW w, Runs(x, w)
  PROVE  SessOK' /\ \A y \in Conns : sess'[y].open = sess[y].open
BY DEF SessOK, Runs

LEMMA SetSessKeeps ==
  ASSUME SessOK, NEW x \in Conns,
         NEW b \in BOOLEAN, sess' = [sess EXCEPT ![x] = [NoSession EXCEPT !.open = b]]
  PROVE  SessOK'
BY DEF SessOK, NoSession

LEMMA DropsKeeps ==
  ASSUME SessOK, NEW x, sess' = [sess EXCEPT ![x] = NoSession] PROVE SessOK'
BY DEF SessOK, NoSession

LEMMA CommittedMoves ==
  ASSUME SessOK, NEW c \in Callers, Committed(c) \/ RolledBack(c)
  PROVE  SessOK' /\ Moved(c, "idle", None) /\ sess' = [sess EXCEPT ![conn[c]] = NoSession]
<1>1. sess' = [sess EXCEPT ![conn[c]] = NoSession]
  BY DEF Committed, Commits, RolledBack, Drops
<1> QED BY <1>1, DropsKeeps DEF Committed, RolledBack, Leaves, Goes, Moved

-----------------------------------------------------------------------------
(* Statements, batches and savepoints are quiet                            *)

LEMMA StatementQuiet ==
  ASSUME KInv, NEW c \in Callers, NEW ok \in BOOLEAN, Sends(c, ok),
         \/ Applied(Next1(c), ok) /\ dialect # "sqlite"
         \/ AppliedByHandle(Next1(c), ok)
  PROVE  Quiet
<1>1. UNCHANGED <<dialect, free, conn, leaked, foul, at>>
  BY DEF Sends, pool, me
<1>2. SessOK' /\ (dialect = "sqlite" => sess'[Handle].open = sess[Handle].open)
  <2>1. CASE ~ok
    BY <2>1 DEF Applied, AppliedByHandle, server, KInv, SessOK
  <2>2. CASE ok
    <3>1. PICK x \in Conns : Runs(x, {Next1(c)})
      BY <2>2, HandleIsOne DEF Applied, AppliedByHandle, KInv, Placed
    <3> QED BY <3>1, RunsKeeps, HandleIsOne DEF KInv
  <2> QED BY <2>1, <2>2
<1> QED BY <1>1, <1>2 DEF Quiet, KInv, Placed

LEMMA TxStatementQuiet ==
  ASSUME KInv, NEW c \in Callers, NEW b, SendsInTx(c, b) PROVE Quiet
<1>1. UNCHANGED <<dialect, free, conn, leaked, foul, at>> /\ conn[c] \in Conns
  BY DEF SendsInTx, pool, seen, InTx, KInv, Placed
<1>2. SessOK' /\ \A y \in Conns : sess'[y].open = sess[y].open
  <2>1. CASE Runs(conn[c], {Next1(c)})
    BY <1>1, <2>1, RunsKeeps DEF KInv
  <2>2. CASE sess' = [sess EXCEPT ![conn[c]].bad = b]
    BY <1>1, <2>2 DEF KInv, SessOK
  <2> QED BY <2>1, <2>2 DEF SendsInTx
<1> QED BY <1>1, <1>2, HandleIsOne DEF Quiet, KInv, Placed

LEMMA SavepointQuiet ==
  ASSUME KInv, NEW c \in Callers, NEW atServer \in BOOLEAN,
         SavesPoint(c) \/ GoesBack(c) \/ ForgetsPoint(c, atServer)
  PROVE  Quiet
<1>1. UNCHANGED <<dialect, free, conn, leaked, foul, at>> /\ conn[c] \in Conns
  BY DEF SavesPoint, GoesBack, ForgetsPoint, pool, seen, InTx, KInv, Placed
<1>2. SessOK' /\ \A y \in Conns : sess'[y].open = sess[y].open
  <2>1. CASE SavesPoint(c)
    BY <1>1, <2>1 DEF SavesPoint, KInv, SessOK
  <2>2. CASE GoesBack(c)
    <3>1. PICK b, w, k : sess' = [sess EXCEPT ![conn[c]] =
                           [open |-> sess[conn[c]].open, bad |-> b, work |-> w, marks |-> k]]
      BY <2>2 DEF GoesBack
    <3> QED BY <1>1, <3>1 DEF KInv, SessOK
  <2>3. CASE ForgetsPoint(c, atServer)
    <3>1. PICK n : sess' = IF atServer THEN [sess EXCEPT ![conn[c]].marks = SubSeq(@, 1, n)] ELSE sess
      BY <2>3 DEF ForgetsPoint
    <3> QED BY <1>1, <3>1 DEF KInv, SessOK
  <2> QED BY <2>1, <2>2, <2>3
<1> QED BY <1>1, <1>2, HandleIsOne DEF Quiet, KInv, Placed

LEMMA BatchQuiet ==
  ASSUME KInv, NEW c \in Callers, BatchOf(c), dialect # "sqlite" PROVE Quiet
<1>1. UNCHANGED <<dialect, free, conn, leaked, foul>>
  BY DEF BatchOf, StartsBatch, AppliesRow, EndsBatch, pool, me, seen
<1>2. /\ at' \in [Callers -> Places]
      /\ \A d \in Callers : at'[d] = at[d] \/ {at[d], at'[d]} \subseteq {"idle", "batch"}
  BY DEF BatchOf, StartsBatch, AppliesRow, EndsBatch, me, KInv, Placed, Places
<1>3. SessOK'
  <2>1. CASE UNCHANGED sess
    BY <2>1 DEF KInv, SessOK
  <2>2. CASE AppliesRow(c)
    <3>1. PICK x \in Conns : Runs(x, {NextRow(c)})
      BY <2>2 DEF AppliesRow, Applied, KInv, Placed
    <3> QED BY <3>1, RunsKeeps DEF KInv
  <2> QED BY <2>1, <2>2 DEF BatchOf, StartsBatch, EndsBatch, server
<1> QED BY <1>1, <1>2, <1>3 DEF Quiet

LEMMA LiteBatchQuiet ==
  ASSUME KInv, NEW c \in Callers, LiteBatch(c) PROVE Quiet
<1>1. UNCHANGED <<dialect, free, conn, leaked, foul, at>>
  BY DEF LiteBatch, pool, me
<1>2. SessOK' /\ sess'[Handle].open = sess[Handle].open
  BY HandleIsOne, RunsKeeps DEF LiteBatch, KInv
<1> QED BY <1>1, <1>2 DEF Quiet, KInv, Placed

\* A pool is made, or closed while nobody is in a transaction.
LEMMA PoolQuiet == ASSUME KInv, MsPool \/ Closes PROVE KInv'
<1>1. CASE MsPool
  <2>1. Quiet
    BY <1>1 DEF MsPool, Quiet, KInv, Placed, SessOK, server, me, seen
  <2> QED BY <2>1, QuietKeeps
<1>2. CASE Closes
  <2>1. /\ UNCHANGED <<dialect, free, conn, leaked, foul, at>>
        /\ sess' = [x \in Conns |-> NoSession]
        /\ \A c \in Callers : at[c] \in {"idle", "batch"}
    BY <1>2 DEF Closes, me, seen
  <2>2. SessOK'
    BY <2>1 DEF SessOK, NoSession
  <2>3. LiteOK'
    BY <2>1 DEF KInv, LiteOK, OnHandle
  <2> QED BY <2>1, <2>2, <2>3 DEF KInv, Placed, OneUser, NoneLost, EndedFoul, Holds
<1> QED BY <1>1, <1>2

-----------------------------------------------------------------------------
(* The four adapters                                                       *)

LEMMA PostgresKeeps == ASSUME KInv, NEW c \in Callers, Postgres(c) PROVE KInv'
<1>1. CASE PgStatement(c)
  BY <1>1, StatementQuiet, QuietKeeps DEF PgStatement
<1>2. CASE PgReserve(c)
  <2>1. PICK x \in free : free' = free \ {x} /\ Goes(c, "acquired", x)
    BY <1>2 DEF PgReserve
  <2> QED BY <1>2, <2>1, TakeKeeps DEF PgReserve, Goes, Moved, server, seen, KInv, SessOK
<1>3. CASE PgBegin(c)
  <2>1. CASE Opens(conn[c]) /\ Enters(c, conn[c]) /\ UNCHANGED free
    <3>1. SessOK'
      BY <1>3, <2>1, SetSessKeeps DEF PgBegin, Opens, KInv, Placed
    <3> QED BY <1>3, <2>1, <3>1, EnterKeeps DEF PgBegin, Enters, Goes, Moved, seen
  <2>2. CASE free' = free \cup {conn[c]} /\ Leaves(c) /\ UNCHANGED server
    BY <1>3, <2>2, GiveBackKeeps DEF PgBegin, Leaves, Goes, Moved, seen, server, KInv, SessOK
  <2> QED BY <1>3, <2>1, <2>2 DEF PgBegin
<1>4. CASE PgTxStatement(c)
  BY <1>4, TxStatementQuiet, QuietKeeps DEF PgTxStatement
<1>5. CASE PgCommit(c)
  <2>1. SessOK' /\ (Moved(c, "idle", None) \/ Moved(c, "ended", conn[c]))
    BY <1>5, CommittedMoves, DropsKeeps DEF PgCommit, Drops, Ends, Goes, Moved, KInv
  <2> QED BY <1>5, <2>1, GiveBackKeeps DEF PgCommit, InTx
<1>6. CASE PgRollback(c)
  <2>1. CASE InTx(c) /\ RolledBack(c) /\ free' = free \cup {conn[c]}
    BY <1>6, <2>1, CommittedMoves, GiveBackKeeps DEF PgRollback, InTx, KInv
  <2>2. CASE at[c] = "ended" /\ Leaves(c) /\ UNCHANGED <<free, server, promised, undone>>
    BY <1>6, <2>2, OverKeeps DEF PgRollback, Leaves, Goes, Moved, server, KInv, SessOK
  <2> QED BY <1>6, <2>1, <2>2 DEF PgRollback
<1>7. CASE PgSavepoint(c)
  BY <1>7, SavepointQuiet, QuietKeeps DEF PgSavepoint
<1>8. CASE PgBatch(c)
  BY <1>8, BatchQuiet, QuietKeeps DEF PgBatch
<1> QED BY <1>1, <1>2, <1>3, <1>4, <1>5, <1>6, <1>7, <1>8 DEF Postgres

LEMMA MysqlKeeps == ASSUME KInv, NEW c \in Callers, Mysql(c) PROVE KInv'
<1>1. CASE MyStatement(c)
  BY <1>1, StatementQuiet, QuietKeeps DEF MyStatement
<1>2. CASE MyGetConnection(c)
  <2>1. PICK x \in free : free' = free \ {x} /\ Goes(c, "acquired", x)
    BY <1>2 DEF MyGetConnection
  <2> QED BY <1>2, <2>1, TakeKeeps DEF MyGetConnection, Goes, Moved, server, seen, KInv, SessOK
<1>3. CASE MyBegin(c)
  <2>1. CASE Opens(conn[c]) /\ Enters(c, conn[c]) /\ UNCHANGED leaked
    <3>1. SessOK'
      BY <1>3, <2>1, SetSessKeeps DEF MyBegin, Opens, KInv, Placed
    <3> QED BY <1>3, <2>1, <3>1, EnterKeeps DEF MyBegin, Enters, Goes, Moved, pool
  <2>2. CASE leaked' = leaked \cup {conn[c]} /\ Leaves(c) /\ UNCHANGED server
    BY <1>3, <2>2, GiveBackKeeps DEF MyBegin, Leaves, Goes, Moved, pool, server, KInv, SessOK
  <2> QED BY <1>3, <2>1, <2>2 DEF MyBegin
<1>4. CASE MyTxStatement(c)
  BY <1>4, TxStatementQuiet, QuietKeeps DEF MyTxStatement
<1>5. CASE MyCommit(c)
  <2>1. CASE Committed(c) /\ UNCHANGED foul
    BY <1>5, <2>1, CommittedMoves, GiveBackKeeps DEF MyCommit, InTx, KInv
  <2>2. CASE (Drops(conn[c]) \/ UNCHANGED server) /\ Ends(c) /\ foul' = TRUE
    <3>1. SessOK' /\ Moved(c, "ended", conn[c])
      BY <2>2, DropsKeeps DEF Drops, server, Ends, Goes, Moved, KInv, SessOK
    <3> QED BY <1>5, <2>2, <3>1, GiveBackKeeps DEF MyCommit, InTx
  <2> QED BY <1>5, <2>1, <2>2 DEF MyCommit
<1>6. CASE MyRollback(c)
  <2>1. SessOK' /\ Moved(c, "idle", None)
    BY <1>6, CommittedMoves DEF MyRollback, KInv
  <2>2. CASE at[c] = "tx"
    BY <1>6, <2>1, <2>2, GiveBackKeeps DEF MyRollback
  <2>3. CASE at[c] = "ended"
    BY <1>6, <2>1, <2>3, OverKeeps DEF MyRollback
  <2> QED BY <1>6, <2>2, <2>3 DEF MyRollback
<1>7. CASE MySavepoint(c)
  BY <1>7, SavepointQuiet, QuietKeeps DEF MySavepoint
<1>8. CASE MyBatch(c)
  BY <1>8, BatchQuiet, QuietKeeps DEF MyBatch
<1> QED BY <1>1, <1>2, <1>3, <1>4, <1>5, <1>6, <1>7, <1>8 DEF Mysql

LEMMA MssqlKeeps == ASSUME KInv, NEW c \in Callers, Mssql(c) PROVE KInv'
<1>1. CASE MsStatement(c)
  BY <1>1, StatementQuiet, QuietKeeps DEF MsStatement
<1>2. CASE MsBegin(c)
  <2>1. PICK x \in free : free' = free \ {x} /\ Opens(x) /\ Enters(c, x)
    BY <1>2 DEF MsBegin
  <2>2. SessOK'
    BY <2>1, SetSessKeeps DEF Opens, KInv, Placed
  <2> QED BY <1>2, <2>1, <2>2, TakeKeeps DEF MsBegin, Enters, Goes, Moved, seen
<1>3. CASE MsTxStatement(c)
  BY <1>3, TxStatementQuiet, QuietKeeps DEF MsTxStatement
<1>4. CASE MsCommit(c)
  <2>1. SessOK' /\ (Moved(c, "idle", None) \/ Moved(c, "ended", conn[c]))
    BY <1>4, CommittedMoves, DropsKeeps DEF MsCommit, Drops, Ends, Goes, Moved, KInv
  <2> QED BY <1>4, <2>1, GiveBackKeeps DEF MsCommit, InTx
<1>5. CASE MsRollback(c)
  <2>1. CASE InTx(c) /\ RolledBack(c) /\ free' = free \cup {conn[c]}
    BY <1>5, <2>1, CommittedMoves, GiveBackKeeps DEF MsRollback, InTx, KInv
  <2>2. CASE at[c] = "ended" /\ Leaves(c) /\ UNCHANGED <<free, server, promised, undone>>
    BY <1>5, <2>2, OverKeeps DEF MsRollback, Leaves, Goes, Moved, server, KInv, SessOK
  <2> QED BY <1>5, <2>1, <2>2 DEF MsRollback
<1>6. CASE MsSavepoint(c)
  BY <1>6, SavepointQuiet, QuietKeeps DEF MsSavepoint
<1>7. CASE MsBatch(c)
  BY <1>7, BatchQuiet, QuietKeeps DEF MsBatch
<1> QED BY <1>1, <1>2, <1>3, <1>4, <1>5, <1>6, <1>7 DEF Mssql

\* The handle is open from BEGIN to the end.
LEMMA LiteBeginKeeps == ASSUME KInv, NEW c \in Callers, LiteBegin(c) PROVE KInv'
<1>1. /\ dialect = "sqlite" /\ at[c] = "idle" /\ Moved(c, "tx", Handle)
      /\ sess' = [sess EXCEPT ![Handle] = [NoSession EXCEPT !.open = TRUE]]
      /\ UNCHANGED <<dialect, free, leaked, foul>> /\ ~sess[Handle].open
  BY DEF LiteBegin, Opens, Enters, Goes, Moved, pool, seen
<1>2. /\ at'[c] = "tx" /\ conn'[c] = Handle
      /\ \A d \in Callers \ {c} : at'[d] = at[d] /\ conn'[d] = conn[d]
  BY <1>1 DEF KInv, Placed, Moved
<1>3. Placed'
  BY <1>1, <1>2, HandleIsOne DEF KInv, Placed, Places, Moved
<1>4. SessOK' /\ sess'[Handle].open
  BY <1>1, HandleIsOne, SetSessKeeps DEF KInv, SessOK, NoSession
<1>5. \A d \in Callers : ~OnHandle(d) /\ at[d] # "acquired"
  BY <1>1 DEF KInv, LiteOK
<1>6. LiteOK'
  BY <1>1, <1>2, <1>4, <1>5 DEF KInv, LiteOK, OnHandle
<1>7. OneUser' /\ NoneLost' /\ EndedFoul'
  BY <1>1, <1>2, <1>5 DEF KInv, LiteOK, OneUser, NoneLost, EndedFoul, Holds, OnHandle
<1> QED BY <1>3, <1>4, <1>6, <1>7 DEF KInv

LEMMA LiteEndKeeps == ASSUME KInv, NEW c \in Callers, LiteCommit(c) \/ LiteRollback(c) PROVE KInv'
<1>1. /\ dialect = "sqlite" /\ OnHandle(c) /\ UNCHANGED <<dialect, free, leaked, foul>>
  BY DEF LiteCommit, LiteRollback, InTx, OnHandle, pool
<1>2. \A d \in Callers : d # c => ~OnHandle(d)
  BY <1>1 DEF KInv, LiteOK
<1>3. \/ SessOK' /\ Moved(c, "idle", None)
      \/ UNCHANGED sess /\ Moved(c, "ended", conn[c])
  BY CommittedMoves DEF LiteCommit, LiteRollback, Ends, Goes, Moved, server, KInv
<1>4. /\ SessOK' /\ at' \in [Callers -> Places] /\ DOMAIN conn' = Callers
      /\ \A d \in Callers \ {c} : at'[d] = at[d] /\ conn'[d] = conn[d]
      /\ at'[c] = "idle" \/ (at'[c] = "ended" /\ conn'[c] = conn[c] /\ UNCHANGED sess)
  BY <1>3 DEF KInv, SessOK, Placed, Places, Moved
<1>5. Placed'
  BY <1>1, <1>4 DEF KInv, Placed, OnHandle
<1>6. \A d \in Callers : ~Holds(d)'
  BY <1>1, <1>2, <1>4 DEF KInv, LiteOK, Holds, OnHandle
<1>7. OneUser' /\ NoneLost' /\ EndedFoul'
  BY <1>1, <1>6 DEF KInv, LiteOK, OneUser, NoneLost, EndedFoul
<1>8. LiteOK'
  BY <1>1, <1>2, <1>4 DEF KInv, LiteOK, OnHandle
<1> QED BY <1>4, <1>5, <1>7, <1>8 DEF KInv

LEMMA SqliteKeeps == ASSUME KInv, NEW c \in Callers, Sqlite(c) PROVE KInv'
<1>1. CASE LiteStatement(c)
  BY <1>1, StatementQuiet, QuietKeeps DEF LiteStatement
<1>2. CASE LiteTxStatement(c)
  BY <1>2, TxStatementQuiet, QuietKeeps DEF LiteTxStatement
<1>3. CASE LiteSavepoint(c)
  BY <1>3, SavepointQuiet, QuietKeeps DEF LiteSavepoint
<1>4. CASE LiteBatch(c)
  BY <1>4, LiteBatchQuiet, QuietKeeps
<1> QED BY <1>1, <1>2, <1>3, <1>4, LiteBeginKeeps, LiteEndKeeps DEF Sqlite

LEMMA GivesUpKeeps == ASSUME KInv, NEW c \in Callers, GivesUp(c) PROVE KInv'
BY OverKeeps DEF GivesUp, Leaves, Goes, Moved, pool, server, seen, KInv, SessOK

-----------------------------------------------------------------------------

LEMMA InitKeeps == Init => KInv
BY DEF Init, KInv, Placed, Places, SessOK, LiteOK, EndedFoul, OneUser, NoneLost, Holds,
       OnHandle, NoSession

LEMMA StepKeeps == KInv /\ [Next]_vars => KInv'
<1> SUFFICES ASSUME KInv, [Next]_vars PROVE KInv'
  OBVIOUS
<1>1. ASSUME NEW c \in Callers, Postgres(c) \/ Mysql(c) \/ Mssql(c) \/ Sqlite(c) \/ GivesUp(c)
      PROVE  KInv'
  BY <1>1, PostgresKeeps, MysqlKeeps, MssqlKeeps, SqliteKeeps, GivesUpKeeps
<1>2. CASE MsPool \/ PgClose \/ MyClose \/ MsClose \/ LiteClose
  BY <1>2, PoolQuiet DEF PgClose, MyClose, MsClose, LiteClose
<1>3. CASE UNCHANGED vars
  BY <1>3 DEF vars, pool, server, me, seen, KInv, Placed, SessOK, LiteOK, EndedFoul, OneUser,
              NoneLost, Holds, OnHandle
<1> QED BY <1>1, <1>2, <1>3 DEF Next

\* For any callers and connections, on every adapter: no two transactions share a
\* connection and none is free while one holds it (until a COMMIT of MySQL fails), and
\* every connection is free, held, or was lost by a failed START TRANSACTION of MySQL.
THEOREM AdaptersConnectionsKept == Spec => []ConnectionsKept
<1>1. KInv => ConnectionsKept
  BY DEF KInv, ConnectionsKept
<1> QED BY <1>1, InitKeeps, StepKeeps, PTL DEF Spec

-----------------------------------------------------------------------------
(* Types                                                                   *)

Session == [open : BOOLEAN, bad : BOOLEAN, work : SUBSET Work, marks : Seq(SUBSET Work)]
Answered == [work : SUBSET Work, marks : SUBSET [n : Nat, work : SUBSET Work]]

\* The parts of TypeOK that steps change together.
ServerOK == sess \in [Conns -> Session] /\ durable \subseteq Work
MeOK ==
  /\ at \in [Callers -> Places] /\ conn \in [Callers -> Conns \cup {None}]
  /\ mine \in [Callers -> Answered] /\ err \in [Callers -> BOOLEAN]
CountOK ==
  /\ ops \in [Callers -> Nat] /\ row \in [Callers -> 0..Rows]
  /\ batch \in [Callers -> {"none", "no", "running", "answered", "failed"}]
SeenOK == promised \subseteq Work /\ undone \subseteq Work /\ leaked \subseteq Conns /\ foul \in BOOLEAN
PoolOK == dialect \in Dialects /\ live \in BOOLEAN /\ free \subseteq Conns

LEMMA TypeParts == TypeOK <=> ServerOK /\ MeOK /\ CountOK /\ SeenOK /\ PoolOK
BY DEF TypeOK, ServerOK, MeOK, CountOK, SeenOK, PoolOK, Session, Answered, Places

LEMMA TypePartsNext == TypeOK' <=> ServerOK' /\ MeOK' /\ CountOK' /\ SeenOK' /\ PoolOK'
BY TypeParts, PTL

LEMMA WorkOf ==
  ASSUME TypeOK, NEW c \in Callers
  PROVE  Next1(c) \in Work /\ NextRow(c) \in Work
BY DEF TypeOK, Next1, NextRow, Work

LEMMA NoSessionTyped ==
  NoSession \in Session /\ [NoSession EXCEPT !.open = TRUE] \in Session /\ NothingDone \in Answered
<1>1. <<>> \in Seq(SUBSET Work)
  OBVIOUS
<1> QED BY <1>1 DEF NoSession, Session, NothingDone, Answered

LEMMA RunsTyped ==
  ASSUME ServerOK, NEW x \in Conns, NEW W, W \subseteq Work, Runs(x, W) PROVE ServerOK'
<1>1. CASE sess' = [sess EXCEPT ![x].work = @ \cup W] /\ UNCHANGED durable
  <2>1. [sess[x] EXCEPT !.work = @ \cup W] \in Session
    BY DEF ServerOK, Session
  <2> QED BY <1>1, <2>1 DEF ServerOK
<1>2. CASE durable' = durable \cup W /\ UNCHANGED sess
  BY <1>2 DEF ServerOK
<1> QED BY <1>1, <1>2 DEF Runs

LEMMA ResetTyped ==
  ASSUME ServerOK, NEW x \in Conns, NEW s \in Session, sess' = [sess EXCEPT ![x] = s],
         durable' \in {durable, durable \cup sess[x].work}
  PROVE  ServerOK'
BY DEF ServerOK, Session

LEMMA LeavesTyped ==
  ASSUME MeOK, NEW c \in Callers, Leaves(c) \/ Ends(c) PROVE MeOK'
BY DEF MeOK, Places, Leaves, Ends, Goes

LEMMA EntersTyped ==
  ASSUME MeOK, NEW c \in Callers, NEW x \in Conns, Enters(c, x) PROVE MeOK'
BY NoSessionTyped DEF MeOK, Places, Enters, Goes

LEMMA SendsTyped ==
  ASSUME TypeOK, NEW c \in Callers, NEW ok \in BOOLEAN, Sends(c, ok),
         Applied(Next1(c), ok) \/ AppliedByHandle(Next1(c), ok)
  PROVE  TypeOK'
<1>1. ServerOK'
  <2>1. CASE ~ok
    BY <2>1, TypeParts DEF Applied, AppliedByHandle, server, ServerOK
  <2>2. CASE ok
    <3>1. PICK x \in Conns : Runs(x, {Next1(c)})
      BY <2>2, HandleIsOne DEF Applied, AppliedByHandle, TypeOK
    <3> QED BY <3>1, RunsTyped, TypeParts, WorkOf
  <2> QED BY <2>1, <2>2
<1>2. MeOK' /\ CountOK' /\ PoolOK'
  BY TypeParts DEF Sends, me, pool, MeOK, CountOK, PoolOK
<1>3. SeenOK'
  BY TypeParts, WorkOf DEF Sends, Promise, SeenOK
<1> QED BY <1>1, <1>2, <1>3, TypePartsNext

LEMMA SendsInTxTyped ==
  ASSUME TypeOK, NEW c \in Callers, conn[c] \in Conns, NEW b \in BOOLEAN, SendsInTx(c, b)
  PROVE  TypeOK'
<1>1. ServerOK' /\ mine' \in [Callers -> Answered] /\ err' \in [Callers -> BOOLEAN]
  <2>1. CASE /\ Runs(conn[c], {Next1(c)})
             /\ mine' = [mine EXCEPT ![c].work = @ \cup {Next1(c)}] /\ UNCHANGED err
    <3>1. ServerOK'
      BY <2>1, RunsTyped, TypeParts, WorkOf
    <3> QED BY <2>1, <3>1, WorkOf, TypeParts DEF MeOK, Answered
  <2>2. CASE /\ sess' = [sess EXCEPT ![conn[c]].bad = b]
             /\ err' = [err EXCEPT ![c] = TRUE] /\ UNCHANGED <<durable, mine>>
    BY <2>2, TypeParts DEF ServerOK, Session, MeOK
  <2> QED BY <2>1, <2>2 DEF SendsInTx
<1>2. MeOK' /\ CountOK' /\ PoolOK' /\ SeenOK'
  BY <1>1, TypeParts DEF SendsInTx, pool, seen, MeOK, CountOK, PoolOK, SeenOK
<1> QED BY <1>1, <1>2, TypePartsNext

LEMMA EndTyped ==
  ASSUME TypeOK, NEW c \in Callers, conn[c] \in Conns, Committed(c) \/ RolledBack(c)
  PROVE  ServerOK' /\ MeOK' /\ promised' \subseteq Work /\ undone' \subseteq Work
<1>1. mine[c].work \subseteq Work
  BY DEF TypeOK
<1>2. ServerOK'
  BY ResetTyped, NoSessionTyped, TypeParts DEF Committed, Commits, RolledBack, Drops
<1>3. MeOK'
  BY LeavesTyped, TypeParts DEF Committed, RolledBack
<1> QED BY <1>1, <1>2, <1>3, TypeParts DEF Committed, RolledBack, SeenOK

LEMMA SavepointTyped ==
  ASSUME TypeOK, NEW c \in Callers, conn[c] \in Conns, NEW b \in BOOLEAN,
         SavesPoint(c) \/ GoesBack(c) \/ ForgetsPoint(c, b)
  PROVE  TypeOK'
<1> DEFINE s == sess[conn[c]]
<1>1. s \in Session /\ mine[c] \in Answered
  BY TypeParts DEF ServerOK, MeOK
<1>2. CASE SavesPoint(c)
  <2> DEFINE k == [n |-> Len(s.marks) + 1, work |-> mine[c].work]
  <2>1. Append(s.marks, s.work) \in Seq(SUBSET Work) /\ k \in [n : Nat, work : SUBSET Work]
    BY <1>1 DEF Session, Answered
  <2>2. ServerOK' /\ MeOK'
    BY <1>2, <2>1, TypeParts DEF SavesPoint, ServerOK, MeOK, Session, Answered
  <2> QED BY <1>2, <2>2, TypeParts, TypePartsNext DEF SavesPoint, pool, count, seen, CountOK, PoolOK, SeenOK
<1>3. CASE GoesBack(c)
  <2>1. PICK m \in mine[c].marks :
          /\ m.n \in DOMAIN s.marks
          /\ sess' = [sess EXCEPT ![conn[c]] = [open |-> s.open, bad |-> FALSE, work |-> s.marks[m.n],
                                                marks |-> SubSeq(s.marks, 1, m.n)]]
          /\ mine' = [mine EXCEPT ![c] = [work |-> m.work, marks |-> {k \in @.marks : k.n <= m.n}]]
          /\ undone' = undone \cup (mine[c].work \ m.work)
    BY <1>3 DEF GoesBack
  <2>2. s.marks[m.n] \subseteq Work /\ SubSeq(s.marks, 1, m.n) \in Seq(SUBSET Work)
    BY <1>1, <2>1 DEF Session
  <2>3. ServerOK'
    BY <1>1, <1>3, <2>1, <2>2, TypeParts DEF GoesBack, ServerOK, Session
  <2>4. MeOK' /\ undone' \subseteq Work
    BY <1>1, <1>3, <2>1, TypeParts DEF GoesBack, MeOK, Answered, SeenOK
  <2> QED BY <1>3, <2>3, <2>4, TypeParts, TypePartsNext DEF GoesBack, pool, count, CountOK, PoolOK, SeenOK
<1>4. CASE ForgetsPoint(c, b)
  <2>1. PICK m \in mine[c].marks :
          /\ m.n \in DOMAIN s.marks
          /\ mine' = [mine EXCEPT ![c].marks = {k \in @ : k.n < m.n}]
          /\ sess' = IF b THEN [sess EXCEPT ![conn[c]].marks = SubSeq(@, 1, m.n - 1)] ELSE sess
    BY <1>4 DEF ForgetsPoint
  <2>2. SubSeq(s.marks, 1, m.n - 1) \in Seq(SUBSET Work)
    BY <1>1, <2>1 DEF Session
  <2>3. ServerOK' /\ MeOK'
    BY <1>1, <1>4, <2>1, <2>2, TypeParts DEF ForgetsPoint, ServerOK, MeOK, Session, Answered
  <2> QED BY <1>4, <2>3, TypeParts, TypePartsNext DEF ForgetsPoint, pool, count, seen, CountOK, PoolOK, SeenOK
<1> QED BY <1>2, <1>3, <1>4

LEMMA BatchTyped ==
  ASSUME TypeOK, NEW c \in Callers, BatchOf(c) PROVE TypeOK'
<1>1. CASE StartsBatch(c)
  BY <1>1, TypeParts, TypePartsNext DEF StartsBatch, pool, server, seen, ServerOK, MeOK, Places, CountOK, SeenOK, PoolOK
<1>2. CASE AppliesRow(c)
  <2>1. PICK x \in Conns : Runs(x, {NextRow(c)})
    BY <1>2 DEF AppliesRow, Applied, TypeOK
  <2>2. ServerOK'
    BY <2>1, RunsTyped, WorkOf, TypeParts
  <2>3. CountOK'
    BY <1>2, TypeParts, AdaptersAssumption DEF AppliesRow, CountOK
  <2> QED BY <1>2, <2>2, <2>3, TypeParts, TypePartsNext DEF AppliesRow, pool, me, seen, MeOK, SeenOK, PoolOK
<1>3. CASE EndsBatch(c)
  <2>1. [by : {c}, kind : {"row"}, n : 1..Rows] \subseteq Work
    BY AdaptersAssumption DEF Work
  <2>2. SeenOK'
    BY <1>3, <2>1, TypeParts DEF EndsBatch, Promise, SeenOK
  <2> QED BY <1>3, <2>2, TypeParts, TypePartsNext
          DEF EndsBatch, pool, server, ServerOK, MeOK, Places, CountOK, PoolOK
<1> QED BY <1>1, <1>2, <1>3 DEF BatchOf

LEMMA LiteBatchTyped ==
  ASSUME TypeOK, NEW c \in Callers, LiteBatch(c) PROVE TypeOK'
<1>1. PICK k \in 0..Rows :
        LET applied == [by : {c}, kind : {"row"}, n : 1..k] IN
        /\ row' = [row EXCEPT ![c] = k]
        /\ batch' = [batch EXCEPT ![c] = IF k = Rows THEN "answered" ELSE "failed"]
        /\ IF k = Rows THEN Promise(applied) ELSE UNCHANGED promised
        /\ Runs(Handle, applied)
  BY DEF LiteBatch
<1> DEFINE applied == [by : {c}, kind : {"row"}, n : 1..k]
<1>2. applied \subseteq Work
  BY AdaptersAssumption DEF Work
<1>3. ServerOK'
  BY <1>1, <1>2, HandleIsOne, RunsTyped, TypeParts
<1>4. SeenOK'
  BY <1>1, <1>2, TypeParts DEF Promise, LiteBatch, SeenOK
<1>5. CountOK'
  BY <1>1, TypeParts DEF LiteBatch, CountOK
<1> QED BY <1>3, <1>4, <1>5, TypeParts, TypePartsNext DEF LiteBatch, pool, me, MeOK, PoolOK


\* A connection in hand is one of the pool's.
LEMMA ConnOf ==
  ASSUME KInv, NEW c \in Callers, at[c] \in {"acquired", "tx", "ended"} PROVE conn[c] \in Conns
BY DEF KInv, Placed

LEMMA PostgresTyped == ASSUME TypeOK, KInv, NEW c \in Callers, Postgres(c) PROVE TypeOK'
<1>1. CASE PgStatement(c)
  BY <1>1, SendsTyped DEF PgStatement
<1>2. CASE PgReserve(c)
  BY <1>2, TypeParts, TypePartsNext
     DEF PgReserve, Goes, server, count, seen, ServerOK, MeOK, Places, CountOK, SeenOK, PoolOK
<1>3. CASE PgBegin(c)
  <2>1. PoolOK' /\ CountOK' /\ SeenOK'
    BY <1>3, TypeParts, ConnOf DEF PgBegin, count, seen, CountOK, SeenOK, PoolOK
  <2>2. CASE Opens(conn[c]) /\ Enters(c, conn[c])
    BY <1>3, <2>1, <2>2, ConnOf, EntersTyped, ResetTyped, NoSessionTyped, TypeParts, TypePartsNext
       DEF PgBegin, Opens
  <2>3. CASE Leaves(c) /\ UNCHANGED server
    BY <2>1, <2>3, LeavesTyped, TypeParts, TypePartsNext DEF server, ServerOK
  <2> QED BY <1>3, <2>2, <2>3 DEF PgBegin
<1>4. CASE PgTxStatement(c)
  BY <1>4, ConnOf, SendsInTxTyped DEF PgTxStatement, SendsInTx, InTx
<1>5. CASE PgCommit(c)
  <2>1. ServerOK' /\ MeOK' /\ promised' \subseteq Work /\ undone' \subseteq Work
    BY <1>5, ConnOf, EndTyped, LeavesTyped, ResetTyped, NoSessionTyped, TypeParts
       DEF PgCommit, InTx, Drops, SeenOK
  <2> QED BY <1>5, <2>1, ConnOf, TypeParts, TypePartsNext DEF PgCommit, InTx, count, CountOK, SeenOK, PoolOK
<1>6. CASE PgRollback(c)
  <2>1. ServerOK' /\ MeOK' /\ promised' \subseteq Work /\ undone' \subseteq Work
    BY <1>6, ConnOf, EndTyped, LeavesTyped, TypeParts DEF PgRollback, InTx, server, ServerOK, SeenOK
  <2> QED BY <1>6, <2>1, ConnOf, TypeParts, TypePartsNext DEF PgRollback, InTx, count, CountOK, SeenOK, PoolOK
<1>7. CASE PgSavepoint(c)
  BY <1>7, ConnOf, SavepointTyped DEF PgSavepoint, SavesPoint, GoesBack, ForgetsPoint, InTx
<1>8. CASE PgBatch(c)
  BY <1>8, BatchTyped DEF PgBatch
<1> QED BY <1>1, <1>2, <1>3, <1>4, <1>5, <1>6, <1>7, <1>8 DEF Postgres

LEMMA MysqlTyped == ASSUME TypeOK, KInv, NEW c \in Callers, Mysql(c) PROVE TypeOK'
<1>1. CASE MyStatement(c)
  BY <1>1, SendsTyped DEF MyStatement
<1>2. CASE MyGetConnection(c)
  BY <1>2, TypeParts, TypePartsNext
     DEF MyGetConnection, Goes, server, count, seen, ServerOK, MeOK, Places, CountOK, SeenOK, PoolOK
<1>3. CASE MyBegin(c)
  <2>1. PoolOK' /\ CountOK' /\ SeenOK'
    BY <1>3, TypeParts, ConnOf DEF MyBegin, pool, count, CountOK, SeenOK, PoolOK
  <2>2. CASE Opens(conn[c]) /\ Enters(c, conn[c])
    BY <1>3, <2>1, <2>2, ConnOf, EntersTyped, ResetTyped, NoSessionTyped, TypeParts, TypePartsNext
       DEF MyBegin, Opens
  <2>3. CASE Leaves(c) /\ UNCHANGED server
    BY <2>1, <2>3, LeavesTyped, TypeParts, TypePartsNext DEF server, ServerOK
  <2> QED BY <1>3, <2>2, <2>3 DEF MyBegin
<1>4. CASE MyTxStatement(c)
  BY <1>4, ConnOf, SendsInTxTyped DEF MyTxStatement, SendsInTx, InTx
<1>5. CASE MyCommit(c)
  <2>1. CASE Committed(c) /\ UNCHANGED foul
    <3>1. ServerOK' /\ MeOK' /\ promised' \subseteq Work /\ undone' \subseteq Work
      BY <1>5, <2>1, ConnOf, EndTyped DEF MyCommit, InTx
    <3> QED BY <1>5, <2>1, <3>1, ConnOf, TypeParts, TypePartsNext
            DEF MyCommit, InTx, count, CountOK, SeenOK, PoolOK
  <2>2. CASE (Drops(conn[c]) \/ UNCHANGED server) /\ Ends(c) /\ foul' = TRUE /\ UNCHANGED <<promised, undone>>
    <3>1. ServerOK' /\ MeOK'
      BY <1>5, <2>2, ConnOf, LeavesTyped, ResetTyped, NoSessionTyped, TypeParts
         DEF MyCommit, InTx, Drops, server, ServerOK
    <3> QED BY <1>5, <2>2, <3>1, ConnOf, TypeParts, TypePartsNext
            DEF MyCommit, InTx, count, CountOK, SeenOK, PoolOK
  <2> QED BY <1>5, <2>1, <2>2 DEF MyCommit
<1>6. CASE MyRollback(c)
  <2>1. ServerOK' /\ MeOK' /\ promised' \subseteq Work /\ undone' \subseteq Work
    BY <1>6, ConnOf, EndTyped DEF MyRollback
  <2> QED BY <1>6, <2>1, ConnOf, TypeParts, TypePartsNext DEF MyRollback, count, CountOK, SeenOK, PoolOK
<1>7. CASE MySavepoint(c)
  BY <1>7, ConnOf, SavepointTyped DEF MySavepoint, SavesPoint, GoesBack, ForgetsPoint, InTx
<1>8. CASE MyBatch(c)
  BY <1>8, BatchTyped DEF MyBatch
<1> QED BY <1>1, <1>2, <1>3, <1>4, <1>5, <1>6, <1>7, <1>8 DEF Mysql

LEMMA MssqlTyped == ASSUME TypeOK, KInv, NEW c \in Callers, Mssql(c) PROVE TypeOK'
<1>1. CASE MsStatement(c)
  BY <1>1, SendsTyped DEF MsStatement
<1>2. CASE MsBegin(c)
  <2>1. PICK x \in Conns : free' = free \ {x} /\ Opens(x) /\ Enters(c, x)
    BY <1>2, TypeParts DEF MsBegin, PoolOK
  <2>2. ServerOK' /\ MeOK'
    BY <2>1, EntersTyped, ResetTyped, NoSessionTyped, TypeParts DEF Opens
  <2> QED BY <1>2, <2>1, <2>2, TypeParts, TypePartsNext DEF MsBegin, count, seen, CountOK, SeenOK, PoolOK
<1>3. CASE MsTxStatement(c)
  BY <1>3, ConnOf, SendsInTxTyped DEF MsTxStatement, SendsInTx, InTx
<1>4. CASE MsCommit(c)
  <2>1. ServerOK' /\ MeOK' /\ promised' \subseteq Work /\ undone' \subseteq Work
    BY <1>4, ConnOf, EndTyped, LeavesTyped, ResetTyped, NoSessionTyped, TypeParts
       DEF MsCommit, InTx, Drops, SeenOK
  <2> QED BY <1>4, <2>1, ConnOf, TypeParts, TypePartsNext DEF MsCommit, InTx, count, CountOK, SeenOK, PoolOK
<1>5. CASE MsRollback(c)
  <2>1. ServerOK' /\ MeOK' /\ promised' \subseteq Work /\ undone' \subseteq Work
    BY <1>5, ConnOf, EndTyped, LeavesTyped, TypeParts DEF MsRollback, InTx, server, ServerOK, SeenOK
  <2> QED BY <1>5, <2>1, ConnOf, TypeParts, TypePartsNext DEF MsRollback, InTx, count, CountOK, SeenOK, PoolOK
<1>6. CASE MsSavepoint(c)
  BY <1>6, ConnOf, SavepointTyped DEF MsSavepoint, SavesPoint, GoesBack, ForgetsPoint, InTx
<1>7. CASE MsBatch(c)
  BY <1>7, BatchTyped DEF MsBatch
<1> QED BY <1>1, <1>2, <1>3, <1>4, <1>5, <1>6, <1>7 DEF Mssql

LEMMA SqliteTyped == ASSUME TypeOK, KInv, NEW c \in Callers, Sqlite(c) PROVE TypeOK'
<1>1. CASE LiteStatement(c)
  BY <1>1, SendsTyped DEF LiteStatement
<1>2. CASE LiteBegin(c)
  <2>1. ServerOK' /\ MeOK'
    BY <1>2, HandleIsOne, EntersTyped, ResetTyped, NoSessionTyped, TypeParts DEF LiteBegin, Opens
  <2> QED BY <1>2, <2>1, TypeParts, TypePartsNext DEF LiteBegin, pool, count, seen, CountOK, SeenOK, PoolOK
<1>3. CASE LiteTxStatement(c)
  BY <1>3, ConnOf, SendsInTxTyped DEF LiteTxStatement, SendsInTx, InTx
<1>4. CASE LiteCommit(c)
  <2>1. ServerOK' /\ MeOK' /\ promised' \subseteq Work /\ undone' \subseteq Work
    BY <1>4, ConnOf, EndTyped, LeavesTyped, TypeParts DEF LiteCommit, InTx, server, ServerOK, SeenOK
  <2> QED BY <1>4, <2>1, TypeParts, TypePartsNext DEF LiteCommit, pool, count, CountOK, SeenOK, PoolOK
<1>5. CASE LiteRollback(c)
  <2>1. ServerOK' /\ MeOK' /\ promised' \subseteq Work /\ undone' \subseteq Work
    BY <1>5, ConnOf, EndTyped DEF LiteRollback
  <2> QED BY <1>5, <2>1, TypeParts, TypePartsNext DEF LiteRollback, pool, count, CountOK, SeenOK, PoolOK
<1>6. CASE LiteSavepoint(c)
  BY <1>6, ConnOf, SavepointTyped DEF LiteSavepoint, SavesPoint, GoesBack, ForgetsPoint, InTx
<1>7. CASE LiteBatch(c)
  BY <1>7, LiteBatchTyped
<1> QED BY <1>1, <1>2, <1>3, <1>4, <1>5, <1>6, <1>7 DEF Sqlite

LEMMA InitTyped == Init => TypeOK
<1> SUFFICES ASSUME Init PROVE TypeOK
  OBVIOUS
<1>1. ServerOK /\ MeOK
  BY NoSessionTyped DEF Init, ServerOK, MeOK, Places
<1>2. 0 \in Nat /\ 0 \in 0..Rows
  BY AdaptersAssumption
<1>3. CountOK
  BY <1>2 DEF Init, CountOK
<1>4. live \in BOOLEAN
  BY Zenon DEF Init
<1>5. SeenOK /\ PoolOK
  BY <1>4 DEF Init, SeenOK, PoolOK
<1> QED BY <1>1, <1>3, <1>5, TypeParts

LEMMA StepTyped == TypeOK /\ KInv /\ [Next]_vars => TypeOK'
<1> SUFFICES ASSUME TypeOK, KInv, [Next]_vars PROVE TypeOK'
  OBVIOUS
<1>1. ASSUME NEW c \in Callers, GivesUp(c) PROVE TypeOK'
  BY <1>1, LeavesTyped, TypeParts, TypePartsNext
     DEF GivesUp, pool, server, count, seen, ServerOK, CountOK, SeenOK, PoolOK
<1>2. CASE MsPool
  BY <1>2, TypeParts, TypePartsNext
     DEF MsPool, server, me, count, seen, ServerOK, MeOK, CountOK, SeenOK, PoolOK
<1>3. CASE Closes
  BY <1>3, NoSessionTyped, TypeParts, TypePartsNext
     DEF Closes, me, count, seen, ServerOK, MeOK, CountOK, SeenOK, PoolOK
<1>4. CASE UNCHANGED vars
  BY <1>4, TypeParts, TypePartsNext
     DEF vars, pool, server, me, count, seen, ServerOK, MeOK, CountOK, SeenOK, PoolOK
<1> QED BY <1>1, <1>2, <1>3, <1>4, PostgresTyped, MysqlTyped, MssqlTyped, SqliteTyped
        DEF Next, PgClose, MyClose, MsClose, LiteClose

\* On every adapter all variables keep their shapes, sessions and savepoints included.
THEOREM AdaptersTyped == Spec => []TypeOK
BY InitKeeps, StepKeeps, InitTyped, StepTyped, PTL DEF Spec
-----------------------------------------------------------------------------
(* What becomes of work                                                    *)

\* With a row of a batch go the rows before it.
Whole(W) == \A w \in W : w.kind = "row" => \A k \in 1..w.n : [w EXCEPT !.n = k] \in W

\* A session's savepoints hold more and more of its work.
Shaped(s) ==
  /\ s.open \/ s = NoSession
  /\ Whole(s.work)
  /\ \A i \in DOMAIN s.marks :
       /\ s.marks[i] \subseteq s.work /\ Whole(s.marks[i])
       /\ \A j \in DOMAIN s.marks : i <= j => s.marks[i] \subseteq s.marks[j]

\* What a caller was answered in its transaction is in the session; of what it was
\* answered after a savepoint, nothing is in the session's savepoint.
Follow(s, m) ==
  /\ s.open /\ m.work \subseteq s.work
  /\ \A k \in m.marks :
       /\ k.n \in DOMAIN s.marks /\ k.work \subseteq s.marks[k.n]
       /\ (m.work \ k.work) \cap s.marks[k.n] = {}
  /\ \A k, l \in m.marks : k.n <= l.n => (l.work \ k.work) \cap s.marks[k.n] = {}

\* On SQLite a transaction whose COMMIT has failed still has its session.
Active(c) == at[c] = "tx" \/ (dialect = "sqlite" /\ at[c] = "ended")

Sessions ==
  \A x \in Conns :
    /\ Shaped(sess[x])
    /\ sess[x].open => IF dialect = "sqlite" THEN x = Handle
                       ELSE \E c \in Callers : InTx(c) /\ conn[c] = x

Followed ==
  \A c \in Callers : Active(c) =>
    /\ dialect = "sqlite" => conn[c] = Handle
    /\ Follow(sess[conn[c]], mine[c])
    /\ sess[conn[c]].bad => dialect = "postgres" /\ err[c]

Sent(e) == IF e.kind = "row" THEN e.n \in 1..row[e.by] ELSE e.n <= ops[e.by]

\* Every piece of work is in one place.
Apart ==
  /\ promised \subseteq durable /\ undone \cap durable = {} /\ Whole(durable)
  /\ \A e \in durable \cup undone : Sent(e)
  /\ \A x \in Conns :
       /\ sess[x].work \cap (durable \cup undone) = {}
       /\ \A e \in sess[x].work : Sent(e)
       /\ \A y \in Conns : x # y => sess[x].work \cap sess[y].work = {}

Batches ==
  \A c \in Callers :
    /\ at[c] = "batch" => /\ dialect # "sqlite"
                          /\ [by : {c}, kind : {"row"}, n : 1..row[c]] \subseteq durable
    /\ batch[c] = "no" => row[c] = 0 /\ at[c] # "batch"

WInv == Sessions /\ Followed /\ Apart /\ Batches

\* The session of x becomes s, the others stay.
Changed(x, s) == sess'[x] = s /\ \A y \in Conns \ {x} : sess'[y] = sess[y]

LEMMA WholeUnion == ASSUME NEW A, NEW B, Whole(A), Whole(B) PROVE Whole(A \cup B)
BY DEF Whole

LEMMA WholeStatement == ASSUME NEW w, w.kind = "statement" PROVE Whole({w})
BY DEF Whole

LEMMA WholeRows ==
  ASSUME NEW c \in Callers, NEW k \in Nat PROVE Whole([by : {c}, kind : {"row"}, n : 1..k])
<1> SUFFICES ASSUME NEW w \in [by : {c}, kind : {"row"}, n : 1..k], NEW j \in 1..w.n
             PROVE  [w EXCEPT !.n = j] \in [by : {c}, kind : {"row"}, n : 1..k]
  BY DEF Whole
<1>1. j \in 1..k
  OBVIOUS
<1> QED BY <1>1

(* Sessions and what their callers were answered, as values. *)

LEMMA GrowsWell ==
  ASSUME NEW s \in Session, NEW m \in Answered, NEW W, W \subseteq Work, NEW t \in Session,
         t.open = s.open, t.work = s.work \cup W, t.marks = s.marks, s.open
  PROVE  /\ Shaped(s) /\ Whole(W) => Shaped(t)
         /\ Follow(s, m) => Follow(t, m)
<1>1. Shaped(s) /\ Whole(W) => Shaped(t)
  BY WholeUnion DEF Shaped
<1>2. Follow(s, m) => Follow(t, m)
  BY DEF Follow
<1> QED BY <1>1, <1>2

LEMMA AnsweredWell ==
  ASSUME NEW s \in Session, NEW m \in Answered, NEW w, w \notin s.work,
         Shaped(s), Follow(s, m),
         NEW t \in Session, t.open = s.open, t.work = s.work \cup {w}, t.marks = s.marks,
         NEW k \in Answered, k.work = m.work \cup {w}, k.marks = m.marks
  PROVE  Follow(t, k)
BY DEF Shaped, Follow

LEMMA MarkWell ==
  ASSUME NEW s \in Session, NEW m \in Answered, Shaped(s), Follow(s, m),
         NEW t \in Session, t.open = s.open, t.work = s.work, t.marks = Append(s.marks, s.work),
         NEW k \in Answered, k.work = m.work,
         k.marks = m.marks \cup {[n |-> Len(s.marks) + 1, work |-> m.work]}
  PROVE  Shaped(t) /\ Follow(t, k)
<1>1. s.marks \in Seq(SUBSET Work) /\ Len(s.marks) \in Nat
  BY DEF Session
<1>2. /\ DOMAIN t.marks = 1..(Len(s.marks) + 1) /\ DOMAIN s.marks = 1..Len(s.marks)
      /\ t.marks[Len(s.marks) + 1] = s.work
      /\ \A i \in DOMAIN s.marks : t.marks[i] = s.marks[i]
  BY <1>1 DEF Session
<1>3. Shaped(t)
  BY <1>1, <1>2 DEF Shaped, Follow
<1>4. Follow(t, k)
  <2> DEFINE new == [n |-> Len(s.marks) + 1, work |-> m.work]
  <2>1. \A l \in k.marks : (l \in m.marks /\ l.n \in 1..Len(s.marks)) \/ l = new
    BY <1>2 DEF Follow
  <2>2. \A l \in k.marks : /\ l.n \in DOMAIN t.marks /\ l.work \subseteq t.marks[l.n]
                           /\ (k.work \ l.work) \cap t.marks[l.n] = {}
    BY <1>1, <1>2, <2>1 DEF Follow
  <2>3. ASSUME NEW l \in k.marks, NEW j \in k.marks, l.n <= j.n
        PROVE  (j.work \ l.work) \cap t.marks[l.n] = {}
    <3>1. CASE l = new
      BY <1>1, <2>1, <2>3, <3>1
    <3>2. CASE l # new
      BY <1>1, <1>2, <2>1, <2>3, <3>2 DEF Follow
    <3> QED BY <3>1, <3>2
  <2> QED BY <2>2, <2>3 DEF Follow
<1> QED BY <1>3, <1>4

\* The first n savepoints are kept; the work may go back to the last of them.
LEMMA CutWell ==
  ASSUME NEW s \in Session, Shaped(s), s.open, NEW n \in 0..Len(s.marks),
         NEW t \in Session, t.open = s.open, t.marks = SubSeq(s.marks, 1, n),
         t.work = s.work \/ (n > 0 /\ t.work = s.marks[n])
  PROVE  Shaped(t) /\ DOMAIN t.marks = 1..n /\ \A i \in 1..n : t.marks[i] = s.marks[i]
<1>1. s.marks \in Seq(SUBSET Work) /\ Len(s.marks) \in Nat
  BY DEF Session
<1>2. DOMAIN t.marks = 1..n /\ DOMAIN s.marks = 1..Len(s.marks)
      /\ \A i \in 1..n : i \in DOMAIN s.marks /\ t.marks[i] = s.marks[i]
  BY <1>1
<1>3. Whole(t.work) /\ \A i \in 1..n : s.marks[i] \subseteq t.work
  BY <1>1, <1>2 DEF Shaped
<1> QED BY <1>2, <1>3 DEF Shaped

LEMMA BackWell ==
  ASSUME NEW s \in Session, NEW m \in Answered, Shaped(s), Follow(s, m), NEW k \in m.marks,
         NEW t \in Session, t.open = s.open, t.marks = SubSeq(s.marks, 1, k.n),
         t.work = s.marks[k.n],
         NEW l \in Answered, l.work = k.work, l.marks = {j \in m.marks : j.n <= k.n}
  PROVE  Shaped(t) /\ Follow(t, l)
<1>1. k.n \in 1..Len(s.marks) /\ s.marks \in Seq(SUBSET Work) /\ s.open
  BY DEF Follow, Session
<1> DEFINE n == k.n
<1>0. n \in 0..Len(s.marks) /\ n > 0
  BY <1>1
<1>2. Shaped(t) /\ DOMAIN t.marks = 1..n /\ \A i \in 1..n : t.marks[i] = s.marks[i]
  <2> HIDE DEF n
  <2>1. t.marks = SubSeq(s.marks, 1, n) /\ t.work = s.marks[n]
    BY DEF n
  <2> QED BY <1>0, <1>1, <2>1, CutWell
<1>3. \A j \in l.marks : j \in m.marks /\ j.n \in 1..k.n /\ t.marks[j.n] = s.marks[j.n]
  BY <1>1, <1>2 DEF Follow
<1> QED BY <1>1, <1>2, <1>3 DEF Follow

LEMMA ForgetWell ==
  ASSUME NEW s \in Session, NEW m \in Answered, Shaped(s), Follow(s, m), NEW k \in m.marks,
         NEW t \in Session, t.open = s.open, t.work = s.work,
         t.marks \in {s.marks, SubSeq(s.marks, 1, k.n - 1)},
         NEW l \in Answered, l.work = m.work, l.marks = {j \in m.marks : j.n < k.n}
  PROVE  Shaped(t) /\ Follow(t, l)
<1>1. /\ k.n \in 1..Len(s.marks) /\ s.marks \in Seq(SUBSET Work) /\ s.open
      /\ Len(s.marks) \in Nat /\ DOMAIN s.marks = 1..Len(s.marks)
  BY DEF Follow, Session
<1>2. PICK n \in 0..Len(s.marks) : t.marks = SubSeq(s.marks, 1, n) /\ k.n - 1 <= n
  <2>1. CASE t.marks = s.marks
    BY <1>1, <2>1
  <2>2. CASE t.marks = SubSeq(s.marks, 1, k.n - 1)
    <3>1. k.n - 1 \in 0..Len(s.marks) /\ k.n - 1 <= k.n - 1
      BY <1>1
    <3> QED BY <2>2, <3>1
  <2> QED BY <2>1, <2>2
<1>3. Shaped(t) /\ DOMAIN t.marks = 1..n /\ \A i \in 1..n : t.marks[i] = s.marks[i]
  BY <1>1, <1>2, CutWell
<1>4. \A j \in l.marks : j \in m.marks /\ j.n \in 1..n /\ t.marks[j.n] = s.marks[j.n]
  BY <1>1, <1>2, <1>3 DEF Follow, Answered
<1> QED BY <1>1, <1>3, <1>4 DEF Follow

(* Steps of one session, and what they leave of the invariant. *)

LEMMA Sessionwise ==
  ASSUME TypeOK, NEW x \in Conns, NEW W, W \subseteq Work, Runs(x, W)
  PROVE  /\ sess[x].open => UNCHANGED durable /\ \A y \in Conns \ {x} : sess'[y] = sess[y]
         /\ sess[x].open => /\ sess'[x].open = sess[x].open /\ sess'[x].bad = sess[x].bad
                            /\ sess'[x].work = sess[x].work \cup W /\ sess'[x].marks = sess[x].marks
         /\ ~sess[x].open => UNCHANGED sess /\ durable' = durable \cup W
         /\ \A y \in Conns : sess[y] \in Session /\ sess'[y] \in Session
<1>1. \A y \in Conns : sess[y] \in Session /\ sess'[y] \in Session
  BY RunsTyped, TypeParts DEF ServerOK
<1>2. DOMAIN sess = Conns /\ \A y \in Conns : DOMAIN sess[y] = {"open", "bad", "work", "marks"}
  BY TypeParts DEF ServerOK, Session
<1> QED BY <1>1, <1>2 DEF Runs

\* Nobody else is active on the connection of an active caller.
LEMMA Alone ==
  ASSUME KInv, ~foul, NEW c \in Callers, Active(c), NEW d \in Callers, Active(d), conn[c] = conn[d]
  PROVE  c = d
BY DEF KInv, LiteOK, OneUser, OnHandle, Holds, Active

\* A connection of the pool is in no transaction, and neither is one just reserved.
LEMMA FreeIsClosed ==
  ASSUME KInv, ~foul, Sessions, dialect # "sqlite", NEW x \in Conns,
         x \in free \/ \E c \in Callers : at[c] = "acquired" /\ conn[c] = x
  PROVE  ~sess[x].open /\ sess[x] = NoSession
<1>1. ~sess[x].open
  <2> SUFFICES ASSUME sess[x].open PROVE FALSE
    OBVIOUS
  <2>1. PICK d \in Callers : InTx(d) /\ conn[d] = x
    BY DEF Sessions
  <2> QED BY <2>1 DEF InTx, KInv, OneUser, Holds
<1> QED BY <1>1 DEF Sessions, Shaped

LEMMA ApartRuns ==
  ASSUME TypeOK, Apart, NEW x \in Conns, NEW W, W \subseteq Work, Runs(x, W),
         \A e \in Work : Sent(e) => Sent(e)',
         \A e \in W : ~Sent(e) /\ Sent(e)',
         ~sess[x].open => Whole(durable \cup W),
         UNCHANGED undone,
         promised' = promised \/ (~sess[x].open /\ promised' = promised \cup W)
  PROVE  Apart'
<1>1. /\ durable \subseteq Work /\ undone \subseteq Work
      /\ \A y \in Conns : sess[y].work \subseteq Work
  BY TypeParts DEF ServerOK, SeenOK, Session
<1>2. /\ W \cap (durable \cup undone) = {}
      /\ \A y \in Conns : W \cap sess[y].work = {}
  BY DEF Apart
<1>3. CASE sess[x].open
  <2>1. /\ UNCHANGED <<durable, promised>>
        /\ sess'[x].work = sess[x].work \cup W
        /\ \A y \in Conns \ {x} : sess'[y] = sess[y]
    BY <1>3, Sessionwise
  <2>2. promised' \subseteq durable' /\ undone' \cap durable' = {} /\ Whole(durable')
    BY <2>1 DEF Apart
  <2>3. \A e \in durable' \cup undone' : Sent(e)'
    BY <1>1, <2>1 DEF Apart
  <2>4. ASSUME NEW y \in Conns
        PROVE  /\ sess'[y].work \cap (durable' \cup undone') = {}
               /\ \A e \in sess'[y].work : Sent(e)'
    BY <1>1, <1>2, <2>1 DEF Apart
  <2>5. ASSUME NEW y \in Conns, NEW z \in Conns, y # z
        PROVE  sess'[y].work \cap sess'[z].work = {}
    BY <1>2, <2>1, <2>5 DEF Apart
  <2> QED BY <2>2, <2>3, <2>4, <2>5 DEF Apart
<1>4. CASE ~sess[x].open
  <2>1. UNCHANGED sess /\ durable' = durable \cup W
    BY <1>4, Sessionwise
  <2> QED BY <1>1, <1>2, <1>4, <2>1 DEF Apart
<1> QED BY <1>3, <1>4

LEMMA SessionsRuns ==
  ASSUME TypeOK, Sessions, NEW x \in Conns, NEW W, W \subseteq Work, Runs(x, W),
         sess[x].open => Whole(W),
         UNCHANGED <<dialect, at, conn>>
  PROVE  Sessions'
<1>1. \A y \in Conns : sess'[y].open = sess[y].open /\ Shaped(sess'[y])
  <2>1. NothingDone \in Answered
    BY NoSessionTyped
  <2> QED BY <2>1, Sessionwise, GrowsWell DEF Sessions
<1> QED BY <1>1 DEF Sessions, InTx

LEMMA FollowedRuns ==
  ASSUME TypeOK, KInv, Followed, NEW x \in Conns, NEW W, W \subseteq Work, Runs(x, W),
         UNCHANGED <<dialect, conn, mine, err>>,
         \A c \in Callers : Active(c)' => Active(c)
  PROVE  Followed'
<1> SUFFICES ASSUME NEW c \in Callers, Active(c)'
             PROVE  /\ dialect = "sqlite" => conn[c] = Handle
                    /\ Follow(sess'[conn[c]], mine[c])
                    /\ sess'[conn[c]].bad => dialect = "postgres" /\ err[c]
  BY DEF Followed
<1>1. conn[c] \in Conns /\ mine[c] \in Answered
  BY ConnOf, TypeParts DEF Active, MeOK
<1>2. CASE sess[x].open /\ conn[c] = x
  <2>1. /\ Follow(sess[x], mine[c]) /\ sess[x] \in Session /\ sess'[x] \in Session
        /\ sess'[x].open = sess[x].open /\ sess'[x].bad = sess[x].bad
        /\ sess'[x].work = sess[x].work \cup W /\ sess'[x].marks = sess[x].marks
    BY <1>1, <1>2, Sessionwise DEF Followed
  <2>2. Follow(sess'[x], mine[c])
    BY <1>1, <1>2, <2>1, GrowsWell
  <2> QED BY <1>2, <2>1, <2>2 DEF Followed
<1>3. CASE ~sess[x].open \/ conn[c] # x
  <2>1. sess'[conn[c]] = sess[conn[c]]
    BY <1>1, <1>3, Sessionwise
  <2> QED BY <2>1 DEF Followed
<1> QED BY <1>2, <1>3

\* A step of the transaction of c.
LEMMA OneStep ==
  ASSUME TypeOK, KInv, ~foul, Sessions, Followed, NEW c \in Callers, InTx(c),
         NEW s, NEW m, Changed(conn[c], s), mine' = [mine EXCEPT ![c] = m],
         UNCHANGED <<dialect, at, conn>>,
         \A d \in Callers \ {c} : err'[d] = err[d],
         Shaped(s), Follow(s, m),
         s.bad => dialect = "postgres" /\ err'[c]
  PROVE  Sessions' /\ Followed'
<1>1. conn[c] \in Conns /\ Active(c) /\ DOMAIN mine = Callers /\ sess[conn[c]].open
  BY ConnOf, TypeParts DEF InTx, Active, MeOK, Followed, Follow
<1>2. Sessions'
  <2> SUFFICES ASSUME NEW y \in Conns
               PROVE  /\ Shaped(sess'[y])
                      /\ sess'[y].open => IF dialect = "sqlite" THEN y = Handle
                                          ELSE \E d \in Callers : InTx(d) /\ conn[d] = y
    BY DEF Sessions, InTx
  <2>1. CASE y = conn[c]
    BY <1>1, <2>1 DEF Changed, Followed
  <2>2. CASE y # conn[c]
    BY <2>2 DEF Changed, Sessions
  <2> QED BY <2>1, <2>2
<1>3. Followed'
  <2> SUFFICES ASSUME NEW d \in Callers, Active(d)
               PROVE  /\ dialect = "sqlite" => conn[d] = Handle
                      /\ Follow(sess'[conn[d]], mine'[d])
                      /\ sess'[conn[d]].bad => dialect = "postgres" /\ err'[d]
    BY DEF Followed, Active
  <2>1. CASE d = c
    BY <1>1, <2>1 DEF Changed, Followed
  <2>2. CASE d # c
    <3>1. conn[d] # conn[c] /\ conn[d] \in Conns
      BY <1>1, <2>2, Alone, ConnOf DEF Active
    <3> QED BY <1>1, <2>2, <3>1 DEF Changed, Followed
  <2> QED BY <2>1, <2>2
<1> QED BY <1>2, <1>3

\* The transaction of c is over, and its session.
LEMMA OneEnd ==
  ASSUME TypeOK, KInv, ~foul, Sessions, Followed, NEW c \in Callers, Active(c),
         Changed(conn[c], NoSession), UNCHANGED <<dialect, mine, err>>,
         ~Active(c)', \A d \in Callers \ {c} : at'[d] = at[d] /\ conn'[d] = conn[d]
  PROVE  Sessions' /\ Followed'
<1>1. conn[c] \in Conns
  BY ConnOf DEF Active
<1>2. Sessions'
  <2> SUFFICES ASSUME NEW y \in Conns
               PROVE  /\ Shaped(sess'[y])
                      /\ sess'[y].open => IF dialect = "sqlite" THEN y = Handle
                                          ELSE \E d \in Callers : InTx(d)' /\ conn'[d] = y
    BY DEF Sessions
  <2>1. CASE y = conn[c]
    <3>1. sess'[y] = NoSession
      BY <1>1, <2>1 DEF Changed
    <3> QED BY <3>1 DEF NoSession, Shaped, Whole
  <2>2. CASE y # conn[c]
    <3>1. sess'[y] = sess[y]
      BY <2>2 DEF Changed
    <3>2. ASSUME NEW d \in Callers, InTx(d), conn[d] = y PROVE InTx(d)' /\ conn'[d] = y
      BY <2>2, <3>2 DEF InTx
    <3> QED BY <3>1, <3>2 DEF Sessions
  <2> QED BY <2>1, <2>2
<1>3. Followed'
  <2> SUFFICES ASSUME NEW d \in Callers, Active(d)'
               PROVE  /\ dialect = "sqlite" => conn'[d] = Handle
                      /\ Follow(sess'[conn'[d]], mine[d])
                      /\ sess'[conn'[d]].bad => dialect = "postgres" /\ err[d]
    BY DEF Followed
  <2>1. d # c /\ Active(d) /\ conn'[d] = conn[d] /\ conn[d] \in Conns
    BY ConnOf DEF Active
  <2>2. conn[d] # conn[c]
    BY <2>1, Alone
  <2> QED BY <2>1, <2>2 DEF Changed, Followed
<1> QED BY <1>2, <1>3

\* What becomes of the work of a session that is over.
LEMMA ApartEnds ==
  ASSUME TypeOK, Apart, NEW x \in Conns, Shaped(sess[x]), Changed(x, NoSession),
         NEW W, W \subseteq sess[x].work,
         UNCHANGED <<ops, row>>,
         \/ durable' = durable /\ promised' = promised /\ undone' \in {undone, undone \cup W}
         \/ /\ durable' = durable \cup sess[x].work /\ undone' = undone
            /\ promised' \in {promised, promised \cup W}
  PROVE  Apart'
<1>1. /\ sess'[x].work = {} /\ \A y \in Conns \ {x} : sess'[y] = sess[y]
  BY DEF Changed, NoSession
<1>2. Whole(durable')
  BY WholeUnion DEF Apart, Shaped
<1>3. promised' \subseteq durable' /\ undone' \cap durable' = {}
  BY DEF Apart
<1>4. \A e \in durable' \cup undone' : Sent(e)'
  <2>1. \A e \in durable' \cup undone' : Sent(e)
    BY DEF Apart
  <2> QED BY <2>1 DEF Sent
<1>5. ASSUME NEW y \in Conns
      PROVE  sess'[y].work \cap (durable' \cup undone') = {} /\ \A e \in sess'[y].work : Sent(e)'
  BY <1>1 DEF Apart, Sent
<1>6. ASSUME NEW y \in Conns, NEW z \in Conns, y # z PROVE sess'[y].work \cap sess'[z].work = {}
  BY <1>1, <1>6 DEF Apart
<1> QED BY <1>2, <1>3, <1>4, <1>5, <1>6 DEF Apart

LEMMA BatchesKeep ==
  ASSUME Batches, UNCHANGED <<dialect, row>>, durable \subseteq durable',
         \A c \in Callers : at'[c] = "batch" => at[c] = "batch",
         \A c \in Callers : batch'[c] = "no" => batch[c] = "no"
  PROVE  Batches'
BY DEF Batches

\* A caller that was in no transaction is in none after the step, or it gives one up;
\* the server and what the callers were answered stay.
LEMMA MovesKeep ==
  ASSUME WInv, NEW c \in Callers, ~InTx(c), ~Active(c)',
         \A d \in Callers \ {c} : at'[d] = at[d] /\ conn'[d] = conn[d],
         at'[c] # "batch",
         UNCHANGED <<dialect, server, mine, err, count, promised, undone>>
  PROVE  WInv'
<1>1. UNCHANGED <<sess, durable, ops, row, batch>>
  BY DEF server, count
<1>2. Sessions'
  <2>1. \A d \in Callers : InTx(d) => InTx(d)' /\ conn'[d] = conn[d]
    BY DEF InTx
  <2> QED BY <1>1, <2>1 DEF WInv, Sessions
<1>3. Followed'
  <2>1. \A d \in Callers : Active(d)' => Active(d) /\ d # c
    BY DEF Active
  <2> QED BY <1>1, <2>1 DEF WInv, Followed
<1>4. Apart'
  <2>1. \A e : Sent(e)' <=> Sent(e)
    BY <1>1 DEF Sent
  <2> QED BY <1>1, <2>1 DEF WInv, Apart
<1>5. Batches'
  BY <1>1 DEF WInv, Batches
<1> QED BY <1>2, <1>3, <1>4, <1>5 DEF WInv

\* c begins on a connection whose session is closed.
LEMMA EnterWork ==
  ASSUME TypeOK, KInv, ~foul, WInv, NEW c \in Callers, ~Active(c), NEW x \in Conns,
         sess[x] = NoSession, Opens(x), Enters(c, x), dialect = "sqlite" => x = Handle,
         UNCHANGED <<dialect, count, promised, undone>>,
         \A d \in Callers \ {c} : Active(d) => conn[d] # x
  PROVE  WInv'
<1> DEFINE s == [NoSession EXCEPT !.open = TRUE]
<1>1. /\ UNCHANGED <<durable, ops, row, batch>>
      /\ sess'[x] = s /\ \A y \in Conns \ {x} : sess'[y] = sess[y]
  BY TypeParts DEF Opens, ServerOK, NoSession, count
<1>2. /\ at'[c] = "tx" /\ conn'[c] = x /\ mine'[c] = NothingDone
      /\ \A d \in Callers \ {c} : /\ at'[d] = at[d] /\ conn'[d] = conn[d]
                                  /\ mine'[d] = mine[d] /\ err'[d] = err[d]
  BY TypeParts DEF Enters, Goes, MeOK
<1>3. s.open /\ ~s.bad /\ s.work = {} /\ Shaped(s) /\ Follow(s, NothingDone)
  BY DEF NoSession, NothingDone, Shaped, Follow, Whole
<1>4. Sessions'
  <2> SUFFICES ASSUME NEW y \in Conns
               PROVE  /\ Shaped(sess'[y])
                      /\ sess'[y].open => IF dialect = "sqlite" THEN y = Handle
                                          ELSE \E d \in Callers : InTx(d)' /\ conn'[d] = y
    BY DEF Sessions
  <2>1. CASE y = x
    BY <1>1, <1>2, <1>3, <2>1 DEF InTx
  <2>2. CASE y # x
    <3>1. ASSUME NEW d \in Callers, InTx(d), conn[d] = y PROVE InTx(d)' /\ conn'[d] = y
      BY <1>2, <3>1 DEF InTx, Active
    <3> QED BY <1>1, <2>2, <3>1 DEF WInv, Sessions
  <2> QED BY <2>1, <2>2
<1>5. Followed'
  <2> SUFFICES ASSUME NEW d \in Callers, Active(d)'
               PROVE  /\ dialect = "sqlite" => conn'[d] = Handle
                      /\ Follow(sess'[conn'[d]], mine'[d])
                      /\ sess'[conn'[d]].bad => dialect = "postgres" /\ err'[d]
    BY DEF Followed
  <2>1. CASE d = c
    BY <1>1, <1>2, <1>3, <2>1
  <2>2. CASE d # c
    <3>1. Active(d)
      BY <1>2, <2>2 DEF Active
    <3>2. conn[d] \in Conns /\ conn[d] # x
      BY <2>2, <3>1, ConnOf DEF Active
    <3> QED BY <1>1, <1>2, <2>2, <3>1, <3>2 DEF WInv, Followed
  <2> QED BY <2>1, <2>2
<1>6. Apart'
  <2>1. \A e : Sent(e)' <=> Sent(e)
    BY <1>1 DEF Sent
  <2>2. \A y \in Conns : sess'[y].work = sess[y].work
    BY <1>1, <1>3 DEF NoSession
  <2> QED BY <1>1, <2>1, <2>2 DEF WInv, Apart
<1>7. Batches'
  BY <1>1, <1>2 DEF WInv, Batches
<1> QED BY <1>4, <1>5, <1>6, <1>7 DEF WInv

\* A statement is new, and so is the next row of a batch.
LEMMA StatementIsNew ==
  ASSUME TypeOK, NEW c \in Callers, ops' = [ops EXCEPT ![c] = @ + 1], UNCHANGED row
  PROVE  /\ \A e \in Work : Sent(e) => Sent(e)'
         /\ \A e \in {Next1(c)} : ~Sent(e) /\ Sent(e)'
         /\ Next1(c) \in Work /\ Whole({Next1(c)})
<1>1. ops[c] \in Nat /\ ops'[c] = ops[c] + 1 /\ \A d \in Callers : ops[d] \in Nat /\ ops[d] <= ops'[d]
  BY DEF TypeOK
<1>2. \A e \in Work : e.by \in Callers /\ e.n \in Nat
  BY DEF Work
<1>3. \A e \in Work : Sent(e) => Sent(e)'
  BY <1>1, <1>2 DEF Sent
<1>4. Next1(c).kind = "statement" /\ Next1(c).by = c /\ Next1(c).n = ops[c] + 1
  BY DEF Next1
<1>5. ASSUME NEW e, e = Next1(c) PROVE ~Sent(e) /\ Sent(e)'
  BY <1>1, <1>4, <1>5 DEF Sent
<1> QED BY <1>3, <1>4, <1>5, WorkOf, WholeStatement

\* A statement outside transactions.
LEMMA SendsWork ==
  ASSUME TypeOK, KInv, ~foul, WInv, NEW c \in Callers, NEW ok \in BOOLEAN, Sends(c, ok),
         \/ Applied(Next1(c), ok) /\ dialect # "sqlite"
         \/ AppliedByHandle(Next1(c), ok) /\ dialect = "sqlite"
  PROVE  WInv'
<1>1. /\ UNCHANGED <<dialect, at, conn, mine, err, row, batch, undone>>
      /\ ops' = [ops EXCEPT ![c] = @ + 1]
  BY DEF Sends, me
<1>2. Batches'
  <2>1. durable \subseteq durable'
    BY DEF Applied, AppliedByHandle, Runs, server
  <2> QED BY <1>1, <2>1, BatchesKeep DEF WInv
<1>3. CASE ~ok
  <2>1. UNCHANGED <<sess, durable, promised>>
    BY <1>3 DEF Sends, Applied, AppliedByHandle, server
  <2>2. \A e \in durable \cup undone : e \in Work
    BY DEF TypeOK
  <2>3. \A x \in Conns : sess[x].work \subseteq Work
    BY TypeParts DEF ServerOK, Session
  <2>4. Apart'
    BY <1>1, <2>1, <2>2, <2>3, StatementIsNew DEF WInv, Apart
  <2> QED BY <1>1, <1>2, <2>1, <2>4 DEF WInv, Sessions, Followed, InTx, Active
<1>4. CASE ok
  <2>1. PICK x \in Conns : /\ Runs(x, {Next1(c)})
                           /\ IF dialect = "sqlite" THEN x = Handle ELSE x \in free
    BY <1>4, HandleIsOne, TypeParts DEF Applied, AppliedByHandle, PoolOK
  <2>2. dialect # "sqlite" => ~sess[x].open
    BY <2>1, FreeIsClosed DEF WInv
  <2>3. promised' = promised \/ (~sess[x].open /\ promised' = promised \cup {Next1(c)})
    BY <1>4, <2>1, <2>2, HandleIsOne DEF Sends, Promise, Outside
  <2>4. Whole(durable \cup {Next1(c)})
    BY <1>1, StatementIsNew, WholeUnion DEF WInv, Apart
  <2>5. Apart'
    BY <1>1, <2>1, <2>3, <2>4, StatementIsNew, ApartRuns DEF WInv
  <2>6. Sessions'
    BY <1>1, <2>1, StatementIsNew, SessionsRuns DEF WInv
  <2>7. Followed'
    BY <1>1, <2>1, StatementIsNew, FollowedRuns DEF WInv, Active
  <2> QED BY <1>2, <2>5, <2>6, <2>7 DEF WInv
<1> QED BY <1>3, <1>4

\* A statement of a transaction.
LEMMA SendsInTxWork ==
  ASSUME TypeOK, KInv, ~foul, WInv, NEW c \in Callers, NEW b \in BOOLEAN, SendsInTx(c, b),
         b => dialect = "postgres", TypeOK'
  PROVE  WInv'
<1> DEFINE x == conn[c]
           w == Next1(c)
<1>1. /\ UNCHANGED <<dialect, at, conn, row, batch, undone, promised>>
      /\ ops' = [ops EXCEPT ![c] = @ + 1] /\ InTx(c)
  BY DEF SendsInTx, seen
<1>2. x \in Conns /\ sess[x] \in Session /\ mine[c] \in Answered /\ sess[x].open
      /\ Shaped(sess[x]) /\ Follow(sess[x], mine[c])
      /\ sess'[x] \in Session /\ mine'[c] \in Answered
  BY <1>1, ConnOf, TypeParts, TypePartsNext DEF InTx, Active, MeOK, ServerOK, WInv, Sessions, Followed, Follow
<1>3. CASE ~sess[x].bad /\ Runs(x, {w}) /\ mine' = [mine EXCEPT ![c].work = @ \cup {w}] /\ UNCHANGED err
  <2>1. w \notin sess[x].work
    BY <1>1, <1>2, StatementIsNew DEF WInv, Apart
  <2>2. /\ sess'[x].open /\ ~sess'[x].bad /\ sess'[x].work = sess[x].work \cup {w}
        /\ sess'[x].marks = sess[x].marks /\ Changed(x, sess'[x]) /\ UNCHANGED durable
    <3>1. {w} \subseteq Work
      BY <1>1, StatementIsNew
    <3> QED BY <1>2, <1>3, <3>1, Sessionwise DEF Changed
  <2>3. mine'[c].work = mine[c].work \cup {w} /\ mine'[c].marks = mine[c].marks
        /\ mine' = [mine EXCEPT ![c] = mine'[c]]
    BY <1>2, <1>3, TypeParts DEF MeOK, Answered
  <2>4. Follow(sess'[x], mine'[c])
    BY <1>2, <2>1, <2>2, <2>3, AnsweredWell
  <2>5. Shaped(sess'[x])
    BY <1>1, <1>2, <2>2, StatementIsNew, GrowsWell
  <2>6. Sessions' /\ Followed'
    BY <1>1, <1>3, <2>2, <2>3, <2>4, <2>5, OneStep DEF WInv
  <2>7. Apart'
    BY <1>1, <1>2, <1>3, StatementIsNew, ApartRuns DEF WInv
  <2>8. Batches'
    BY <1>1, <2>2, BatchesKeep DEF WInv
  <2> QED BY <2>6, <2>7, <2>8 DEF WInv
<1>4. CASE sess' = [sess EXCEPT ![x].bad = b] /\ err' = [err EXCEPT ![c] = TRUE] /\ UNCHANGED <<durable, mine>>
  <2>1. /\ sess'[x].open = sess[x].open /\ sess'[x].bad = b /\ sess'[x].work = sess[x].work
        /\ sess'[x].marks = sess[x].marks /\ Changed(x, sess'[x])
    BY <1>2, <1>4, TypeParts DEF ServerOK, Session, Changed
  <2>2. Shaped(sess'[x]) /\ Follow(sess'[x], mine[c])
    BY <1>2, <2>1 DEF Shaped, Follow
  <2>3. mine' = [mine EXCEPT ![c] = mine[c]] /\ err'[c] /\ \A d \in Callers \ {c} : err'[d] = err[d]
    BY <1>4, TypeParts DEF MeOK
  <2>4. Sessions' /\ Followed'
    BY <1>1, <2>1, <2>2, <2>3, OneStep DEF WInv
  <2>5. \A y \in Conns : sess'[y].work = sess[y].work /\ sess[y].work \subseteq Work
    BY <2>1, TypeParts DEF Changed, ServerOK, Session
  <2>6. \A e \in durable \cup undone : e \in Work
    BY DEF TypeOK
  <2>7. Apart'
    BY <1>1, <1>4, <2>5, <2>6, StatementIsNew DEF WInv, Apart
  <2>8. Batches'
    BY <1>1, <1>4, BatchesKeep DEF WInv
  <2> QED BY <2>4, <2>7, <2>8 DEF WInv
<1> QED BY <1>3, <1>4 DEF SendsInTx

\* COMMIT or ROLLBACK was answered, or the session is gone.
LEMMA EndWork ==
  ASSUME TypeOK, KInv, ~foul, WInv, NEW c \in Callers, Active(c),
         \/ Committed(c)
         \/ RolledBack(c)
         \/ Drops(conn[c]) /\ Ends(c) /\ UNCHANGED <<promised, undone>> /\ dialect # "sqlite",
         UNCHANGED <<dialect, count>>
  PROVE  WInv'
<1> DEFINE x == conn[c]
<1>1. x \in Conns /\ mine[c].work \subseteq sess[x].work /\ Shaped(sess[x])
      /\ (sess[x].bad => dialect = "postgres" /\ err[c])
  BY ConnOf DEF Active, WInv, Sessions, Followed, Follow
<1>2. Changed(x, NoSession) /\ UNCHANGED <<mine, err, ops, row, batch>>
  BY <1>1, TypeParts DEF Committed, RolledBack, Commits, Drops, Leaves, Ends, Changed, ServerOK, count
<1>3. /\ ~Active(c)' /\ at'[c] # "batch"
      /\ \A d \in Callers \ {c} : at'[d] = at[d] /\ conn'[d] = conn[d]
  BY TypeParts DEF Committed, RolledBack, Leaves, Ends, Goes, Active, MeOK
<1>4. Sessions' /\ Followed'
  BY <1>2, <1>3, OneEnd DEF WInv
<1>5. \/ durable' = durable /\ promised' = promised /\ undone' \in {undone, undone \cup mine[c].work}
      \/ /\ durable' = durable \cup sess[x].work /\ undone' = undone
         /\ promised' \in {promised, promised \cup mine[c].work}
  BY <1>1 DEF Committed, Commits, RolledBack, Drops
<1>6. Apart'
  BY <1>1, <1>2, <1>5, ApartEnds DEF WInv
<1>7. Batches'
  BY <1>2, <1>3, <1>5, BatchesKeep DEF WInv
<1> QED BY <1>4, <1>6, <1>7 DEF WInv

LEMMA SavepointWork ==
  ASSUME TypeOK, KInv, ~foul, WInv, NEW c \in Callers, NEW b \in BOOLEAN, TypeOK',
         SavesPoint(c) \/ GoesBack(c) \/ ForgetsPoint(c, b)
  PROVE  WInv'
<1> DEFINE x == conn[c]
           s == sess[x]
           m == mine[c]
<1>1. /\ UNCHANGED <<dialect, at, conn, ops, row, batch, durable, promised>> /\ InTx(c)
  BY DEF SavesPoint, GoesBack, ForgetsPoint, count, seen
<1>2. /\ x \in Conns /\ s \in Session /\ m \in Answered /\ s.open
      /\ Shaped(s) /\ Follow(s, m) /\ (s.bad => dialect = "postgres" /\ err[c])
      /\ sess'[x] \in Session /\ mine'[c] \in Answered
      /\ m.work \subseteq s.work
  BY <1>1, ConnOf, TypeParts, TypePartsNext DEF InTx, Active, MeOK, ServerOK, WInv, Sessions, Followed, Follow
<1>3. Batches'
  BY <1>1, BatchesKeep DEF WInv
<1>4. \A e : Sent(e)' <=> Sent(e)
  BY <1>1 DEF Sent
<1>5. CASE SavesPoint(c)
  <2>1. /\ Changed(x, sess'[x]) /\ mine' = [mine EXCEPT ![c] = mine'[c]] /\ UNCHANGED <<err, undone>>
        /\ sess'[x].open = s.open /\ sess'[x].bad = s.bad /\ sess'[x].work = s.work
        /\ sess'[x].marks = Append(s.marks, s.work)
        /\ mine'[c].work = m.work
        /\ mine'[c].marks = m.marks \cup {[n |-> Len(s.marks) + 1, work |-> m.work]}
    BY <1>2, <1>5, TypeParts DEF SavesPoint, seen, ServerOK, MeOK, Session, Answered, Changed
  <2>2. Shaped(sess'[x]) /\ Follow(sess'[x], mine'[c])
    BY <1>2, <2>1, MarkWell
  <2>3. Sessions' /\ Followed'
    BY <1>1, <1>2, <2>1, <2>2, OneStep DEF WInv
  <2>4. \A y \in Conns : sess'[y].work = sess[y].work
    BY <2>1 DEF Changed
  <2>5. Apart'
    BY <1>1, <1>4, <2>1, <2>4 DEF WInv, Apart
  <2> QED BY <1>3, <2>3, <2>5 DEF WInv
<1>6. CASE GoesBack(c)
  <2>1. PICK k \in m.marks :
          /\ k.n \in DOMAIN s.marks
          /\ sess' = [sess EXCEPT ![x] = [open |-> s.open, bad |-> FALSE, work |-> s.marks[k.n],
                                          marks |-> SubSeq(s.marks, 1, k.n)]]
          /\ mine' = [mine EXCEPT ![c] = [work |-> k.work, marks |-> {j \in @.marks : j.n <= k.n}]]
          /\ undone' = undone \cup (m.work \ k.work)
    BY <1>6 DEF GoesBack
  <2>2. /\ Changed(x, sess'[x]) /\ mine' = [mine EXCEPT ![c] = mine'[c]]
        /\ sess'[x].open = s.open /\ ~sess'[x].bad /\ sess'[x].work = s.marks[k.n]
        /\ sess'[x].marks = SubSeq(s.marks, 1, k.n)
        /\ mine'[c].work = k.work /\ mine'[c].marks = {j \in m.marks : j.n <= k.n}
    BY <1>2, <2>1, TypeParts DEF ServerOK, MeOK, Changed
  <2>3. Shaped(sess'[x]) /\ Follow(sess'[x], mine'[c])
    BY <1>2, <2>2, BackWell
  <2>4. \A d \in Callers \ {c} : err'[d] = err[d]
    BY <1>6, TypeParts DEF GoesBack, MeOK
  <2>5. Sessions' /\ Followed'
    BY <1>1, <1>2, <2>2, <2>3, <2>4, OneStep DEF WInv
  <2>6. s.marks[k.n] \subseteq s.work /\ (m.work \ k.work) \cap s.marks[k.n] = {}
    BY <1>2, <2>1 DEF Shaped, Follow
  <2>7. Apart'
    <3>1. undone' \cap durable' = {} /\ promised' \subseteq durable' /\ Whole(durable')
      BY <1>1, <1>2, <2>1 DEF WInv, Apart
    <3>2. \A e \in durable' \cup undone' : Sent(e)'
      BY <1>1, <1>2, <1>4, <2>1 DEF WInv, Apart
    <3>3. ASSUME NEW y \in Conns
          PROVE  sess'[y].work \cap (durable' \cup undone') = {} /\ \A e \in sess'[y].work : Sent(e)'
      <4>1. CASE y = x
        BY <1>1, <1>2, <1>4, <2>1, <2>2, <2>6, <4>1 DEF WInv, Apart
      <4>2. CASE y # x
        BY <1>1, <1>2, <1>4, <2>1, <2>2, <4>2 DEF WInv, Apart, Changed
      <4> QED BY <4>1, <4>2
    <3>4. ASSUME NEW y \in Conns, NEW z \in Conns, y # z PROVE sess'[y].work \cap sess'[z].work = {}
      <4>1. sess'[y].work \subseteq sess[y].work /\ sess'[z].work \subseteq sess[z].work
        BY <2>2, <2>6 DEF Changed
      <4> QED BY <3>4, <4>1 DEF WInv, Apart
    <3> QED BY <3>1, <3>2, <3>3, <3>4 DEF Apart
  <2> QED BY <1>3, <2>5, <2>7 DEF WInv
<1>7. CASE ForgetsPoint(c, b)
  <2>1. PICK k \in m.marks :
          /\ k.n \in DOMAIN s.marks
          /\ mine' = [mine EXCEPT ![c].marks = {j \in @ : j.n < k.n}]
          /\ sess' = IF b THEN [sess EXCEPT ![x].marks = SubSeq(@, 1, k.n - 1)] ELSE sess
    BY <1>7 DEF ForgetsPoint
  <2>2. /\ Changed(x, sess'[x]) /\ UNCHANGED <<err, undone>>
        /\ sess'[x].open = s.open /\ sess'[x].bad = s.bad /\ sess'[x].work = s.work
        /\ sess'[x].marks \in {s.marks, SubSeq(s.marks, 1, k.n - 1)}
    BY <1>2, <1>7, <2>1, TypeParts DEF ForgetsPoint, seen, ServerOK, Session, Changed
  <2>3. /\ mine' = [mine EXCEPT ![c] = mine'[c]]
        /\ mine'[c].work = m.work /\ mine'[c].marks = {j \in m.marks : j.n < k.n}
    BY <1>2, <2>1, TypeParts DEF MeOK, Answered
  <2>4. Shaped(sess'[x]) /\ Follow(sess'[x], mine'[c])
    BY <1>2, <2>2, <2>3, ForgetWell
  <2>5. Sessions' /\ Followed'
    BY <1>1, <1>2, <2>2, <2>3, <2>4, OneStep DEF WInv
  <2>6. \A y \in Conns : sess'[y].work = sess[y].work
    BY <2>2 DEF Changed
  <2>7. Apart'
    BY <1>1, <1>4, <2>2, <2>6 DEF WInv, Apart
  <2> QED BY <1>3, <2>5, <2>7 DEF WInv
<1> QED BY <1>5, <1>6, <1>7

LEMMA BatchWork ==
  ASSUME TypeOK, KInv, ~foul, WInv, NEW c \in Callers, BatchOf(c), dialect # "sqlite"
  PROVE  WInv'
<1>0. ~Active(c) /\ ~InTx(c)
  BY DEF BatchOf, StartsBatch, AppliesRow, EndsBatch, Active, InTx
<1>1. CASE StartsBatch(c)
  <2>1. /\ UNCHANGED <<dialect, sess, durable, conn, mine, err, ops, row, promised, undone>>
        /\ at' = [at EXCEPT ![c] = "batch"] /\ batch' = [batch EXCEPT ![c] = "running"]
        /\ batch[c] = "no"
    BY <1>1 DEF StartsBatch, server, seen
  <2>2. /\ at'[c] = "batch" /\ batch'[c] = "running"
        /\ \A d \in Callers \ {c} : at'[d] = at[d] /\ batch'[d] = batch[d]
    BY <2>1, TypeParts DEF MeOK, CountOK
  <2>3. Sessions' /\ Followed'
    BY <1>0, <2>1, <2>2 DEF WInv, Sessions, Followed, InTx, Active
  <2>4. Apart'
    BY <2>1 DEF WInv, Apart, Sent
  <2>5. row[c] = 0
    BY <2>1 DEF WInv, Batches
  <2>6. Batches'
    BY <2>1, <2>2, <2>5 DEF WInv, Batches
  <2> QED BY <2>3, <2>4, <2>6 DEF WInv
<1>2. CASE AppliesRow(c)
  <2>1. /\ UNCHANGED <<dialect, at, conn, mine, err, ops, batch, promised, undone>>
        /\ row' = [row EXCEPT ![c] = @ + 1] /\ at[c] = "batch"
    BY <1>2 DEF AppliesRow, me, seen
  <2>2. PICK x \in free : Runs(x, {NextRow(c)})
    BY <1>2 DEF AppliesRow, Applied
  <2>3. x \in Conns /\ ~sess[x].open /\ {NextRow(c)} \subseteq Work
    BY <2>2, TypeParts, FreeIsClosed, WorkOf DEF PoolOK, WInv
  <2>4. UNCHANGED sess /\ durable' = durable \cup {NextRow(c)}
    BY <2>2, <2>3, Sessionwise
  <2>5. /\ row[c] \in Nat /\ row'[c] = row[c] + 1
        /\ \A d \in Callers : row[d] \in Nat /\ row[d] <= row'[d] /\ (d # c => row'[d] = row[d])
    BY <2>1, TypeParts, AdaptersAssumption DEF CountOK
  <2>6. [by : {c}, kind : {"row"}, n : 1..row[c]] \subseteq durable /\ batch[c] # "no"
    BY <2>1 DEF WInv, Batches
  <2>7. [by : {c}, kind : {"row"}, n : 1..row'[c]] \subseteq durable'
    <3> SUFFICES ASSUME NEW w \in [by : {c}, kind : {"row"}, n : 1..row'[c]] PROVE w \in durable'
      OBVIOUS
    <3>1. CASE w.n = row[c] + 1
      BY <2>4, <3>1 DEF NextRow
    <3>2. CASE w.n # row[c] + 1
      <4>1. w.n \in 1..row[c]
        BY <2>5, <3>2
      <4> QED BY <2>4, <2>6, <4>1
    <3> QED BY <3>1, <3>2
  <2>8. Whole(durable \cup {NextRow(c)})
    <3> SUFFICES ASSUME NEW w \in durable \cup {NextRow(c)}, w.kind = "row", NEW k \in 1..w.n
                 PROVE  [w EXCEPT !.n = k] \in durable \cup {NextRow(c)}
      BY DEF Whole
    <3>1. CASE w \in durable
      BY <3>1 DEF WInv, Apart, Whole
    <3>2. CASE w = NextRow(c)
      <4>1. k \in 1..row'[c] /\ [w EXCEPT !.n = k] = [by |-> c, kind |-> "row", n |-> k]
        BY <2>5, <3>2 DEF NextRow
      <4> QED BY <2>4, <2>7, <4>1
    <3> QED BY <3>1, <3>2
  <2>9. \A e \in Work : Sent(e) => Sent(e)'
    BY <2>1, <2>5 DEF Sent, Work
  <2>10. ASSUME NEW e \in {NextRow(c)} PROVE ~Sent(e) /\ Sent(e)'
    BY <2>5 DEF Sent, NextRow
  <2>11. Apart'
    BY <2>1, <2>2, <2>3, <2>8, <2>9, <2>10, ApartRuns DEF WInv
  <2>12. Sessions' /\ Followed'
    BY <2>1, <2>4 DEF WInv, Sessions, Followed, InTx, Active
  <2>13. Batches'
    BY <2>1, <2>4, <2>5, <2>6, <2>7 DEF WInv, Batches
  <2> QED BY <2>11, <2>12, <2>13 DEF WInv
<1>3. CASE EndsBatch(c)
  <2>1. /\ UNCHANGED <<dialect, sess, durable, conn, mine, err, ops, row, undone>>
        /\ at' = [at EXCEPT ![c] = "idle"] /\ at[c] = "batch"
    BY <1>3 DEF EndsBatch, server
  <2>2. /\ at'[c] = "idle" /\ batch'[c] # "no"
        /\ \A d \in Callers \ {c} : at'[d] = at[d] /\ batch'[d] = batch[d]
    BY <1>3, <2>1, TypeParts DEF EndsBatch, MeOK, CountOK
  <2>3. promised' \subseteq durable
    <3>1. promised \subseteq durable /\ [by : {c}, kind : {"row"}, n : 1..row[c]] \subseteq durable
      BY <2>1 DEF WInv, Apart, Batches
    <3> QED BY <1>3, <3>1 DEF EndsBatch, Promise
  <2>4. Sessions' /\ Followed'
    BY <1>0, <2>1, <2>2 DEF WInv, Sessions, Followed, InTx, Active
  <2>5. Apart'
    BY <2>1, <2>3 DEF WInv, Apart, Sent
  <2>6. Batches'
    BY <2>1, <2>2 DEF WInv, Batches
  <2> QED BY <2>4, <2>5, <2>6 DEF WInv
<1> QED BY <1>1, <1>2, <1>3 DEF BatchOf

LEMMA LiteBatchWork ==
  ASSUME TypeOK, KInv, ~foul, WInv, NEW c \in Callers, LiteBatch(c)
  PROVE  WInv'
<1>1. /\ UNCHANGED <<dialect, at, conn, mine, err, ops, undone>>
      /\ dialect = "sqlite" /\ batch[c] = "no" /\ at[c] = "idle"
  BY DEF LiteBatch, me
<1>2. PICK k \in 0..Rows :
        LET applied == [by : {c}, kind : {"row"}, n : 1..k] IN
        /\ row' = [row EXCEPT ![c] = k]
        /\ batch' = [batch EXCEPT ![c] = IF k = Rows THEN "answered" ELSE "failed"]
        /\ IF k = Rows THEN Promise(applied) ELSE UNCHANGED promised
        /\ Runs(Handle, applied)
  BY DEF LiteBatch
<1> DEFINE W == [by : {c}, kind : {"row"}, n : 1..k]
<1>3. /\ k \in Nat /\ W \subseteq Work /\ Runs(Handle, W)
  BY <1>2, AdaptersAssumption DEF Work
<1>4. /\ row[c] = 0 /\ row'[c] = k /\ batch'[c] # "no"
      /\ \A d \in Callers : row[d] \in Nat
      /\ \A d \in Callers \ {c} : row'[d] = row[d] /\ batch'[d] = batch[d]
  BY <1>1, <1>2, TypeParts, AdaptersAssumption DEF CountOK, WInv, Batches
<1>5. Whole(W) /\ Whole(durable \cup W)
  BY <1>3, WholeRows, WholeUnion DEF WInv, Apart
<1>6. \A e \in Work : Sent(e) => Sent(e)'
  BY <1>1, <1>4 DEF Sent, Work
<1>7. \A e \in W : ~Sent(e) /\ Sent(e)'
  BY <1>1, <1>4 DEF Sent
<1>8. promised' = promised \/ (~sess[Handle].open /\ promised' = promised \cup W)
  BY <1>1, <1>2, HandleIsOne DEF Promise, Outside
<1>9. Apart'
  BY <1>1, <1>3, <1>5, <1>6, <1>7, <1>8, HandleIsOne, ApartRuns DEF WInv
<1>10. Sessions'
  BY <1>1, <1>3, <1>5, HandleIsOne, SessionsRuns DEF WInv
<1>11. Followed'
  BY <1>1, <1>3, HandleIsOne, FollowedRuns DEF WInv, Active
<1>12. Batches'
  BY <1>1, <1>4 DEF WInv, Batches
<1> QED BY <1>9, <1>10, <1>11, <1>12 DEF WInv

LEMMA ClosesWork == ASSUME TypeOK, WInv, Closes PROVE WInv'
<1>1. /\ sess' = [x \in Conns |-> NoSession] /\ \A c \in Callers : at[c] \in {"idle", "batch"}
      /\ UNCHANGED <<dialect, durable, at, conn, mine, err, ops, row, batch, promised, undone>>
  BY DEF Closes, me, count, seen
<1>2. \A x \in Conns : sess'[x].work = {} /\ ~sess'[x].open /\ Shaped(sess'[x])
  BY <1>1 DEF NoSession, Shaped, Whole
<1>3. Sessions' /\ Followed'
  BY <1>1, <1>2 DEF Sessions, Followed, Active
<1>4. Apart'
  BY <1>1, <1>2 DEF WInv, Apart, Sent
<1>5. Batches'
  BY <1>1 DEF WInv, Batches
<1> QED BY <1>3, <1>4, <1>5 DEF WInv

\* A reserved connection, or a free one, is of nobody who is active.
LEMMA BeginsAlone ==
  ASSUME KInv, ~foul, dialect # "sqlite", NEW x \in Conns, NEW c \in Callers,
         x \in free \/ (at[c] = "acquired" /\ conn[c] = x), NEW d \in Callers \ {c}, Active(d)
  PROVE  conn[d] # x
BY DEF KInv, OneUser, Holds, Active

\* A caller moves without the server.
LEMMA MovedOnly ==
  ASSUME TypeOK, WInv, NEW c \in Callers, ~InTx(c), UNCHANGED <<dialect, server, mine, err, count, promised, undone>>,
         NEW x \in Conns \cup {None}, Goes(c, "idle", x) \/ Goes(c, "acquired", x)
  PROVE  WInv'
<1>1. at'[c] \in {"idle", "acquired"} /\ \A d \in Callers \ {c} : at'[d] = at[d] /\ conn'[d] = conn[d]
  BY TypeParts DEF Goes, MeOK
<1>2. ~Active(c)' /\ at'[c] # "batch"
  BY <1>1 DEF Active
<1> QED BY <1>1, <1>2, MovesKeep

LEMMA PostgresWork ==
  ASSUME TypeOK, TypeOK', KInv, ~foul, WInv, NEW c \in Callers, Postgres(c) PROVE WInv'
<1>0. dialect = "postgres"
  BY DEF Postgres, PgStatement, PgReserve, PgBegin, PgTxStatement, PgCommit, PgRollback, PgSavepoint, PgBatch
<1>1. CASE PgStatement(c)
  BY <1>1, SendsWork DEF PgStatement
<1>2. CASE PgReserve(c)
  <2>1. PICK x \in Conns : Goes(c, "acquired", x)
    BY <1>2, TypeParts DEF PgReserve, PoolOK
  <2> QED BY <1>2, <2>1, MovedOnly DEF PgReserve, InTx, seen
<1>3. CASE PgBegin(c)
  <2>1. CASE Opens(conn[c]) /\ Enters(c, conn[c])
    <3>1. conn[c] \in Conns /\ sess[conn[c]] = NoSession /\ ~Active(c)
      BY <1>0, <1>3, ConnOf, FreeIsClosed DEF PgBegin, Active, WInv
    <3>2. \A d \in Callers \ {c} : Active(d) => conn[d] # conn[c]
      BY <1>0, <1>3, <3>1, BeginsAlone DEF PgBegin
    <3> QED BY <1>0, <1>3, <2>1, <3>1, <3>2, EnterWork DEF PgBegin, seen
  <2>2. CASE Leaves(c) /\ UNCHANGED server
    BY <1>3, <2>2, MovedOnly DEF PgBegin, Leaves, InTx, seen
  <2> QED BY <1>3, <2>1, <2>2 DEF PgBegin
<1>4. CASE PgTxStatement(c)
  BY <1>4, SendsInTxWork DEF PgTxStatement
<1>5. CASE PgCommit(c)
  BY <1>5, EndWork DEF PgCommit, InTx, Active
<1>6. CASE PgRollback(c)
  <2>1. CASE InTx(c) /\ RolledBack(c)
    BY <1>6, <2>1, EndWork DEF PgRollback, InTx, Active
  <2>2. CASE at[c] = "ended" /\ Leaves(c) /\ UNCHANGED <<free, server, promised, undone>>
    BY <1>6, <2>2, MovedOnly DEF PgRollback, Leaves, InTx
  <2> QED BY <1>6, <2>1, <2>2 DEF PgRollback
<1>7. CASE PgSavepoint(c)
  BY <1>7, SavepointWork DEF PgSavepoint
<1>8. CASE PgBatch(c)
  BY <1>0, <1>8, BatchWork DEF PgBatch
<1> QED BY <1>1, <1>2, <1>3, <1>4, <1>5, <1>6, <1>7, <1>8 DEF Postgres

LEMMA MysqlWork ==
  ASSUME TypeOK, TypeOK', KInv, ~foul, ~foul', WInv, NEW c \in Callers, Mysql(c) PROVE WInv'
<1>0. dialect = "mysql"
  BY DEF Mysql, MyStatement, MyGetConnection, MyBegin, MyTxStatement, MyCommit, MyRollback, MySavepoint, MyBatch
<1>1. CASE MyStatement(c)
  BY <1>1, SendsWork DEF MyStatement
<1>2. CASE MyGetConnection(c)
  <2>1. PICK x \in Conns : Goes(c, "acquired", x)
    BY <1>2, TypeParts DEF MyGetConnection, PoolOK
  <2> QED BY <1>2, <2>1, MovedOnly DEF MyGetConnection, InTx, seen
<1>3. CASE MyBegin(c)
  <2>1. CASE Opens(conn[c]) /\ Enters(c, conn[c])
    <3>1. conn[c] \in Conns /\ sess[conn[c]] = NoSession /\ ~Active(c)
      BY <1>0, <1>3, ConnOf, FreeIsClosed DEF MyBegin, Active, WInv
    <3>2. \A d \in Callers \ {c} : Active(d) => conn[d] # conn[c]
      BY <1>0, <1>3, <3>1, BeginsAlone DEF MyBegin
    <3> QED BY <1>0, <1>3, <2>1, <3>1, <3>2, EnterWork DEF MyBegin
  <2>2. CASE Leaves(c) /\ UNCHANGED server
    BY <1>3, <2>2, MovedOnly DEF MyBegin, Leaves, InTx
  <2> QED BY <1>3, <2>1, <2>2 DEF MyBegin
<1>4. CASE MyTxStatement(c)
  BY <1>4, SendsInTxWork DEF MyTxStatement
<1>5. CASE MyCommit(c)
  BY <1>5, EndWork DEF MyCommit, InTx, Active
<1>6. CASE MyRollback(c)
  <2>1. at[c] = "tx"
    BY <1>0, <1>6 DEF MyRollback, KInv, EndedFoul
  <2> QED BY <1>6, <2>1, EndWork DEF MyRollback, Active
<1>7. CASE MySavepoint(c)
  BY <1>7, SavepointWork DEF MySavepoint
<1>8. CASE MyBatch(c)
  BY <1>0, <1>8, BatchWork DEF MyBatch
<1> QED BY <1>1, <1>2, <1>3, <1>4, <1>5, <1>6, <1>7, <1>8 DEF Mysql

LEMMA MssqlWork ==
  ASSUME TypeOK, TypeOK', KInv, ~foul, WInv, NEW c \in Callers, Mssql(c) PROVE WInv'
<1>0. dialect = "mssql"
  BY DEF Mssql, MsStatement, MsBegin, MsTxStatement, MsCommit, MsRollback, MsSavepoint, MsBatch
<1>1. CASE MsStatement(c)
  BY <1>1, SendsWork DEF MsStatement
<1>2. CASE MsBegin(c)
  <2>1. PICK x \in free : free' = free \ {x} /\ Opens(x) /\ Enters(c, x)
    BY <1>2 DEF MsBegin
  <2>2. x \in Conns /\ sess[x] = NoSession /\ ~Active(c)
    BY <1>0, <1>2, <2>1, FreeIsClosed, TypeParts DEF MsBegin, Active, WInv, PoolOK
  <2>3. \A d \in Callers \ {c} : Active(d) => conn[d] # x
    BY <1>0, <2>1, <2>2, BeginsAlone
  <2> QED BY <1>0, <1>2, <2>1, <2>2, <2>3, EnterWork DEF MsBegin, seen
<1>3. CASE MsTxStatement(c)
  BY <1>3, SendsInTxWork DEF MsTxStatement
<1>4. CASE MsCommit(c)
  BY <1>4, EndWork DEF MsCommit, InTx, Active
<1>5. CASE MsRollback(c)
  <2>1. CASE InTx(c) /\ RolledBack(c)
    BY <1>5, <2>1, EndWork DEF MsRollback, InTx, Active
  <2>2. CASE at[c] = "ended" /\ Leaves(c) /\ UNCHANGED <<free, server, promised, undone>>
    BY <1>5, <2>2, MovedOnly DEF MsRollback, Leaves, InTx
  <2> QED BY <1>5, <2>1, <2>2 DEF MsRollback
<1>6. CASE MsSavepoint(c)
  BY <1>6, SavepointWork DEF MsSavepoint
<1>7. CASE MsBatch(c)
  BY <1>0, <1>7, BatchWork DEF MsBatch
<1> QED BY <1>1, <1>2, <1>3, <1>4, <1>5, <1>6, <1>7 DEF Mssql

LEMMA SqliteWork ==
  ASSUME TypeOK, TypeOK', KInv, ~foul, WInv, NEW c \in Callers, Sqlite(c) PROVE WInv'
<1>0. dialect = "sqlite"
  BY DEF Sqlite, LiteStatement, LiteBegin, LiteTxStatement, LiteCommit, LiteRollback, LiteSavepoint, LiteBatch
<1>1. CASE LiteStatement(c)
  BY <1>0, <1>1, SendsWork DEF LiteStatement
<1>2. CASE LiteBegin(c)
  <2>1. sess[Handle] = NoSession /\ ~Active(c) /\ \A d \in Callers : ~Active(d)
    BY <1>2, HandleIsOne DEF LiteBegin, WInv, Sessions, Shaped, KInv, LiteOK, OnHandle, Active
  <2> QED BY <1>2, <2>1, HandleIsOne, EnterWork DEF LiteBegin, seen
<1>3. CASE LiteTxStatement(c)
  BY <1>3, SendsInTxWork DEF LiteTxStatement
<1>4. CASE LiteCommit(c)
  <2>1. CASE Committed(c)
    BY <1>4, <2>1, EndWork DEF LiteCommit, InTx, Active
  <2>2. CASE Ends(c) /\ UNCHANGED <<server, promised, undone>>
    <3>1. /\ UNCHANGED <<dialect, sess, durable, conn, mine, err, ops, row, batch, promised, undone>>
          /\ at'[c] = "ended" /\ \A d \in Callers \ {c} : at'[d] = at[d]
      BY <1>4, <2>2, TypeParts DEF LiteCommit, Ends, Goes, server, count, MeOK
    <3>2. \A d \in Callers : Active(d)' <=> Active(d)
      BY <1>0, <1>4, <3>1 DEF LiteCommit, InTx, Active
    <3>3. Sessions' /\ Followed'
      BY <1>0, <3>1, <3>2 DEF WInv, Sessions, Followed
    <3>4. Apart'
      BY <3>1 DEF WInv, Apart, Sent
    <3>5. Batches'
      BY <3>1 DEF WInv, Batches
    <3> QED BY <3>3, <3>4, <3>5 DEF WInv
  <2> QED BY <1>4, <2>1, <2>2 DEF LiteCommit
<1>5. CASE LiteRollback(c)
  BY <1>0, <1>5, EndWork DEF LiteRollback, Active
<1>6. CASE LiteSavepoint(c)
  BY <1>6, SavepointWork DEF LiteSavepoint
<1>7. CASE LiteBatch(c)
  BY <1>7, LiteBatchWork
<1> QED BY <1>1, <1>2, <1>3, <1>4, <1>5, <1>6, <1>7 DEF Sqlite

LEMMA InitWork == Init => WInv
<1> SUFFICES ASSUME Init PROVE WInv
  OBVIOUS
<1>1. \A x \in Conns : sess[x] = NoSession /\ Shaped(NoSession) /\ NoSession.work = {} /\ ~NoSession.open
  BY DEF Init, NoSession, Shaped, Whole
<1>2. Sessions /\ Followed
  BY <1>1 DEF Init, Sessions, Followed, Active
<1>3. Apart
  BY <1>1 DEF Init, Apart, Whole
<1>4. Batches
  BY DEF Init, Batches
<1> QED BY <1>2, <1>3, <1>4 DEF WInv

\* Everything the theorems need; a failed COMMIT of MySQL is never forgotten.
AInv == TypeOK /\ KInv /\ (~foul => WInv)

LEMMA FoulStays == [Next]_vars => (foul => foul')
<1> SUFFICES ASSUME [Next]_vars, foul PROVE foul'
  OBVIOUS
<1>1. ASSUME NEW c \in Callers, Postgres(c) PROVE foul' = foul
  <2>1. ASSUME PgStatement(c) \/ PgTxStatement(c) PROVE foul' = foul
    BY <2>1 DEF PgStatement, PgTxStatement, Sends, SendsInTx, seen
  <2>2. ASSUME PgReserve(c) \/ PgBegin(c) \/ PgCommit(c) \/ PgRollback(c) PROVE foul' = foul
    BY <2>2 DEF PgReserve, PgBegin, PgCommit, PgRollback, seen
  <2>3. ASSUME PgSavepoint(c) \/ PgBatch(c) PROVE foul' = foul
    BY <2>3 DEF PgSavepoint, PgBatch, SavesPoint, GoesBack, ForgetsPoint, BatchOf, StartsBatch,
                AppliesRow, EndsBatch, seen
  <2> QED BY <1>1, <2>1, <2>2, <2>3 DEF Postgres
<1>2. ASSUME NEW c \in Callers, Mysql(c) PROVE foul'
  <2>1. ASSUME MyStatement(c) \/ MyTxStatement(c) PROVE foul' = foul
    BY <2>1 DEF MyStatement, MyTxStatement, Sends, SendsInTx, seen
  <2>2. ASSUME MyGetConnection(c) \/ MyBegin(c) \/ MyCommit(c) \/ MyRollback(c) PROVE foul'
    BY <2>2 DEF MyGetConnection, MyBegin, MyCommit, MyRollback, seen
  <2>3. ASSUME MySavepoint(c) \/ MyBatch(c) PROVE foul' = foul
    BY <2>3 DEF MySavepoint, MyBatch, SavesPoint, GoesBack, ForgetsPoint, BatchOf, StartsBatch,
                AppliesRow, EndsBatch, seen
  <2> QED BY <1>2, <2>1, <2>2, <2>3 DEF Mysql
<1>3. ASSUME NEW c \in Callers, Mssql(c) PROVE foul' = foul
  <2>1. ASSUME MsStatement(c) \/ MsTxStatement(c) PROVE foul' = foul
    BY <2>1 DEF MsStatement, MsTxStatement, Sends, SendsInTx, seen
  <2>2. ASSUME MsBegin(c) \/ MsCommit(c) \/ MsRollback(c) PROVE foul' = foul
    BY <2>2 DEF MsBegin, MsCommit, MsRollback, seen
  <2>3. ASSUME MsSavepoint(c) \/ MsBatch(c) PROVE foul' = foul
    BY <2>3 DEF MsSavepoint, MsBatch, SavesPoint, GoesBack, ForgetsPoint, BatchOf, StartsBatch,
                AppliesRow, EndsBatch, seen
  <2> QED BY <1>3, <2>1, <2>2, <2>3 DEF Mssql
<1>4. ASSUME NEW c \in Callers, Sqlite(c) PROVE foul' = foul
  <2>1. ASSUME LiteStatement(c) \/ LiteTxStatement(c) PROVE foul' = foul
    BY <2>1 DEF LiteStatement, LiteTxStatement, Sends, SendsInTx, seen
  <2>2. ASSUME LiteBegin(c) \/ LiteCommit(c) \/ LiteRollback(c) PROVE foul' = foul
    BY <2>2 DEF LiteBegin, LiteCommit, LiteRollback, seen
  <2>3. ASSUME LiteSavepoint(c) \/ LiteBatch(c) PROVE foul' = foul
    BY <2>3 DEF LiteSavepoint, LiteBatch, SavesPoint, GoesBack, ForgetsPoint, seen
  <2> QED BY <1>4, <2>1, <2>2, <2>3 DEF Sqlite
<1>5. ASSUME (\E c \in Callers : GivesUp(c)) \/ MsPool \/ Closes \/ UNCHANGED vars
      PROVE  foul' = foul
  BY <1>5 DEF GivesUp, MsPool, Closes, vars, seen
<1> QED BY <1>1, <1>2, <1>3, <1>4, <1>5 DEF Next, PgClose, MyClose, MsClose, LiteClose

LEMMA InitAll == Init => AInv
BY InitKeeps, InitTyped, InitWork DEF AInv

LEMMA StepAll == AInv /\ [Next]_vars => AInv'
<1> SUFFICES ASSUME AInv, [Next]_vars PROVE AInv'
  OBVIOUS
<1>1. TypeOK /\ KInv /\ TypeOK' /\ KInv'
  BY StepKeeps, StepTyped DEF AInv
<1>2. ASSUME ~foul' PROVE WInv'
  <2>1. ~foul /\ WInv
    BY <1>1, <1>2, FoulStays DEF AInv
  <2>2. ASSUME NEW c \in Callers, GivesUp(c) PROVE WInv'
    BY <1>1, <2>1, <2>2, MovedOnly DEF GivesUp, Leaves, InTx, seen
  <2>3. CASE MsPool \/ UNCHANGED vars
    BY <2>1, <2>3 DEF MsPool, vars, server, me, count, seen, WInv, Sessions, Followed, Apart, Batches,
                      InTx, Active, Sent
  <2> QED BY <1>1, <1>2, <2>1, <2>2, <2>3, PostgresWork, MysqlWork, MssqlWork, SqliteWork, ClosesWork
          DEF Next, PgClose, MyClose, MsClose, LiteClose
<1> QED BY <1>1, <1>2 DEF AInv

\* On every adapter, for any callers, connections, statements and savepoints: work answered
\* as done is committed, and work whose rollback was answered, to a savepoint or of the whole
\* transaction, is not and never will be, until a COMMIT of MySQL fails.
THEOREM AdaptersWorkHonest == Spec => []WorkHonest
<1>1. AInv => WorkHonest
  BY DEF AInv, WInv, Apart, WorkHonest
<1> QED BY <1>1, InitAll, StepAll, PTL DEF Spec

\* For batches of any length on every adapter: what a failed executeBatch() leaves in the
\* database is a prefix of its rows, also when the batch ran inside another caller's
\* transaction on SQLite, until a COMMIT of MySQL fails.
THEOREM AdaptersBatchPrefix == Spec => []BatchPrefix
<1>1. AInv => BatchPrefix
  BY DEF AInv, WInv, Apart, Whole, BatchPrefix
<1> QED BY <1>1, InitAll, StepAll, PTL DEF Spec
=============================================================================
