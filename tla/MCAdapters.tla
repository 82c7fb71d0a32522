------------------------------ MODULE MCAdapters ------------------------------
(*****************************************************************************)
(* Adapters for TLC: two callers on a pool of two connections, one savepoint *)
(* per transaction; one caller sends two statements, the other one and a     *)
(* batch of two rows.                                                        *)
(*****************************************************************************)
EXTENDS Adapters

CONSTANTS c1, c2, x1, x2

MCCallers == {c1, c2}
MCConns == {x1, x2}
AllDialects == {"postgres", "mysql", "mssql", "sqlite"}
OnlyMysql == {"mysql"}
MCBatchers == {c2}
MCMaxOps == [c \in MCCallers |-> IF c = c1 THEN 2 ELSE 1]

\* What follows a failed COMMIT of MySQL is the subject of MysqlFailedCommit.cfg.
NotFoul == ~foul
=============================================================================
