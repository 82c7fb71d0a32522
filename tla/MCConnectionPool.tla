-------------------------- MODULE MCConnectionPool --------------------------
(* Small instances of ConnectionPool for TLC. *)
EXTENDS ConnectionPool, TLC

\* The clients, the connections and the drains are interchangeable. Only used
\* for runs that check no liveness.
Symmetry == Permutations(Clients) \cup Permutations(Conns) \cup Permutations(Drains)
=============================================================================
