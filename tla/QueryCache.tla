------------------------------ MODULE QueryCache ------------------------------
(***************************************************************************)
(* QueryCache (src/cache/query-cache.ts): compiled queries by the hash of  *)
(* their text, held weakly, with a limit on their number, on the time they *)
(* go unused and on their age. No call awaits anything; what comes between *)
(* two calls is the reaper's timer, the garbage collector and time.        *)
(***************************************************************************)
EXTENDS MapOrder

CONSTANTS
  Sqls,               \* the keys
  Compiled,           \* what is stored under them
  maxSize, ttlMs, maxAgeMs,
  Off,                \* null: no such limit; and no such entry
  MaxNow              \* bound on the clock

\* An entry whose query the garbage collector has taken is not alive.
CacheEntry == [key : Sqls, compiled : Compiled, createdAt : 0..MaxNow,
               lastUsedAt : 0..MaxNow, alive : BOOLEAN]

ASSUME QueryCacheAssumption ==
  /\ maxSize \in Nat /\ MaxNow \in Nat
  /\ {ttlMs, maxAgeMs} \subseteq Nat \cup {Off}
  /\ Off \notin CacheEntry

VARIABLES
  date,       \* Date.now()
  kept,       \* entries: a Map, the least recently used first
  reaping,    \* reaperTimer is set
  latest,     \* history: what was last stored under a key, used or collected since
  since       \* history: the other keys stored or found after its last use

cacheVars == <<date, kept, reaping, latest, since>>

CacheInit ==
  /\ date = 0 /\ kept = <<>> /\ reaping \in {FALSE, maxSize > 0}
  /\ latest = [s \in Sqls |-> Off] /\ since = [s \in Sqls |-> {}]

Unused(e) == ttlMs # Off /\ date - e.lastUsedAt > ttlMs
TooOld(e) == maxAgeMs # Off /\ date - e.createdAt > maxAgeMs
Live(e) == ~Unused(e) /\ ~TooOld(e) /\ e.alive

-----------------------------------------------------------------------------
(* The Map.                                                                *)

At(s) == {i \in DOMAIN kept : kept[i].key = s}
Found(s) == {kept[i] : i \in {j \in At(s) : Live(kept[j])}}

\* Map.delete() of the key at the place i, and of s if it is there.
Without(i) == [j \in 1..(Len(kept) - 1) |-> kept[IF j < i THEN j ELSE j + 1]]
Except(s) == IF At(s) = {} THEN kept ELSE Without(CHOOSE i \in At(s) : TRUE)

\* The history of s becomes e, after which the others are less recently used.
Uses(s, e) ==
  /\ latest' = [latest EXCEPT ![s] = e]
  /\ since' = [o \in Sqls |-> IF o = s \/ latest[o] = Off THEN {} ELSE since[o] \cup {s}]

-----------------------------------------------------------------------------
(* The operations.                                                         *)

\* Mutant: an entry that is found keeps its place.
TouchedInPlace(e) ==
  [i \in DOMAIN kept |-> IF kept[i] = e THEN [e EXCEPT !.lastUsedAt = date] ELSE kept[i]]

Touched(e) == Append(Except(e.key), [e EXCEPT !.lastUsedAt = date])

\* get(): what is found becomes the newest; what is no longer servable goes.
get(s) ==
  /\ maxSize > 0
  /\ \/ \E e \in Found(s) :
          kept' = Touched(e) /\ Uses(s, [latest[s] EXCEPT !.lastUsedAt = date])
     \/ Found(s) = {} /\ kept' = Except(s) /\ UNCHANGED <<latest, since>>
  /\ UNCHANGED <<date, reaping>>

\* The oldest entry goes if there is no room.
Room(es) == IF Len(es) >= maxSize THEN Tail(es) ELSE es

\* set(): the place of s is given up before the oldest entry must make room.
set(s, c) ==
  LET stored == [key |-> s, compiled |-> c, createdAt |-> date,
                 lastUsedAt |-> date, alive |-> TRUE]
  IN /\ maxSize > 0
     /\ kept' = Append(Room(Except(s)), stored)
     /\ Uses(s, stored)
     /\ UNCHANGED <<date, reaping>>

\* clear() stops the reaper for good.
clear ==
  /\ kept' = <<>> /\ reaping' = FALSE
  /\ latest' = [s \in Sqls |-> Off] /\ since' = [s \in Sqls |-> {}]
  /\ UNCHANGED date

reap ==
  /\ reaping
  /\ kept' \in Remaining(kept, {i \in DOMAIN kept : Live(kept[i])})
  /\ UNCHANGED <<date, reaping, latest, since>>

\* The garbage collector takes the query stored under s.
Collect(s) ==
  /\ \E i \in At(s) : kept[i].alive /\ kept' = [kept EXCEPT ![i].alive = FALSE]
  /\ latest' = [latest EXCEPT ![s].alive = FALSE]
  /\ UNCHANGED <<date, reaping, since>>

TimePasses ==
  /\ date < MaxNow /\ date' = date + 1
  /\ UNCHANGED <<kept, reaping, latest, since>>

CacheNext ==
  \/ \E s \in Sqls : get(s) \/ Collect(s) \/ \E c \in Compiled : set(s, c)
  \/ clear \/ reap \/ TimePasses

CacheSpec == CacheInit /\ [][CacheNext]_cacheVars

-----------------------------------------------------------------------------

\* Stored last under s, used and created recently enough and not collected.
Due(s) == latest[s] # Off /\ Live(latest[s])

\* The cache is the LRU cache it says it is: what get() finds is what was last
\* stored under that text, used and created recently enough and not collected;
\* and such a query is missed only when maxSize others were stored or found
\* after its last use.
LeastRecentlyUsed ==
  /\ Len(kept) <= maxSize
  /\ \A s \in Sqls :
       /\ \A e \in Found(s) : Due(s) /\ e.compiled = latest[s].compiled
       /\ Due(s) /\ Cardinality(since[s]) < maxSize => Found(s) # {}
=============================================================================
