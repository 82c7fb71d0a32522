---------------------------- MODULE MCMigrations ----------------------------
(* Small instances of Migrations for TLC. *)
EXTENDS Migrations, TLC

CONSTANTS Older  \* the calls of an older release, which knows one migration less

Releases == [c \in Calls |-> IF c \in Older THEN N - 1 ELSE N]
=============================================================================
