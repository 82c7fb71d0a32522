----------------------------- MODULE MCConnections -----------------------------
(*****************************************************************************)
(* Connections for TLC: a primary and three replicas, two of them behind     *)
(* MSSQL adapters and one of them read-only; a group with two replicas and   *)
(* one without; two overlapping failovers.                                   *)
(*****************************************************************************)
EXTENDS Connections, TLC

CONSTANTS p, a, b, c, f1, f2, g1, g2

MCNames == {p, a, b, c}
MCMssql == {b, c}
MCGuarded == {c}
MCGroups == {g1, g2}
MCWriteName == (g1 :> p @@ g2 :> a)
MCReadNames == (g1 :> <<a, b>> @@ g2 :> <<>>)
MCStandbyNames == <<a, b, c>>
MCTenantOf == <<c, Unknown>>
MCFailovers == {f1, f2}
FailoverSymmetry == Permutations(MCFailovers)
=============================================================================
