-------------------------------- MODULE MCScans --------------------------------
(*****************************************************************************)
(* Scans for TLC: four rows of which two share their key, pages of two rows  *)
(* or of none, two readers of one cursor and one write.                      *)
(*****************************************************************************)
EXTENDS Scans

CONSTANTS r1, r2

MCReaders == {r1, r2}
MCRows == 1..4
MCKey == <<1, 2, 2, 3>>
=============================================================================
