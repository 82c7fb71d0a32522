------------------------------- MODULE MCCaches -------------------------------
(***************************************************************************)
(* The two caches for TLC. They share nothing: a behaviour is one of       *)
(* either, and the other one stays as it was made.                         *)
(***************************************************************************)
EXTENDS CachedDb, QueryCache, TLC

\* Any choice of keys: with it the callers are interchangeable, and the keys
\* that are not written to.
AnyKeys == (SUBSET Keys) \ {{}}
CacheSymmetry == Permutations(Keys \ Written) \cup Permutations(Callers)

CachesInit == Init /\ CacheInit
CachesNext ==
  \/ CacheInit /\ Next /\ UNCHANGED cacheVars
  \/ Init /\ CacheNext /\ UNCHANGED vars
CachesSpec == CachesInit /\ [][CachesNext]_<<vars, cacheVars>>
=============================================================================
