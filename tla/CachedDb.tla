------------------------------ MODULE CachedDb ------------------------------
(***************************************************************************)
(* CachedDb (src/cache/cached-db.ts): query() with a cache of results in   *)
(* front of a database, and invalidate().                                  *)
(*                                                                         *)
(* query() looks the key up and either answers from the cache at once or   *)
(* asks the database and stores the answer when it comes: a call runs      *)
(* uninterrupted on either side of that await. Nothing keeps two calls     *)
(* from missing the same key together. The rows of a key are the version   *)
(* of the data they were read from. Writes go to the database behind the   *)
(* cache's back, through execute(), a transaction or another process.      *)
(*                                                                         *)
(* The entries are a Map: a key that is set again keeps its place. The     *)
(* hit and miss counters and the contents of the arrays are left out.      *)
(***************************************************************************)
EXTENDS MapOrder

CONSTANTS
  Keys,        \* cache keys: a query with its parameters
  Callers,     \* concurrent callers of query()
  MaxSize,     \* options.maxSize
  TTL,         \* options.ttl
  Patterns,    \* what one invalidate() covers: all keys, one, or a RegExp's matches
  MaxTime,     \* bound on the clock
  Written,     \* the keys whose data is written to
  MaxVersion,  \* bound on the writes to a key
  NoCall       \* a caller with no query() on its way

ASSUME CachedDbAssumption ==
  /\ MaxSize \in Nat /\ TTL \in Nat /\ MaxTime \in Nat /\ MaxVersion \in Nat
  /\ Patterns \subseteq SUBSET Keys /\ Written \subseteq Keys

VARIABLES
  now,      \* Date.now()
  db,       \* version of the data behind each key
  entries,  \* _entries, oldest insertion first
  call,     \* what each caller's query() knows when it has missed
  floor     \* history: version of a key's data at its last invalidation

vars == <<now, db, entries, call, floor>>

Versions == 0..MaxVersion
Times == 0..MaxTime

\* overtaken, readAt and hit are history: an invalidation of the key came
\* while the query was on its way; when the database was read; the entry
\* has been served since.
Entry == [key : Keys, rows : Versions, lastUsedAt : Times,
          overtaken : BOOLEAN, readAt : Times, hit : BOOLEAN]

Call == [key : Keys, started : Times, overtaken : BOOLEAN,
         rows : Versions \cup {NoCall}, readAt : Times]

KeysUnique ==
  \A i, j \in 1..Len(entries) : entries[i].key = entries[j].key => i = j

\* Types of the variables; however stores, evictions and expiries interleave, the
\* entries are a Map of at most options.maxSize keys.
TypeOK ==
  /\ now \in Times
  /\ db \in [Keys -> Versions]
  /\ entries \in Seq(Entry) /\ KeysUnique /\ Len(entries) <= MaxSize
  /\ call \in [Callers -> Call \cup {NoCall}]
  /\ floor \in [Keys -> Versions]

Init ==
  /\ now = 0
  /\ db = [k \in Keys |-> 0]
  /\ entries = <<>>
  /\ call = [c \in Callers |-> NoCall]
  /\ floor = [k \in Keys |-> 0]

-----------------------------------------------------------------------------
(* The Map.                                                                *)

Index(k) == {i \in 1..Len(entries) : entries[i].key = k}

\* Mutant: no more than the first entry it covers is deleted.
KeptButFirst(ks) ==
  {i \in 1..Len(entries) :
     entries[i].key \in ks => \E j \in 1..(i - 1) : entries[j].key \in ks}

\* Where the entries are that deleting the keys ks leaves.
Kept(ks) == {i \in 1..Len(entries) : entries[i].key \notin ks}

Delete(ks) == entries' \in Remaining(entries, Kept(ks))

SetAppending(es, e) == Append(es, e)

\* Map.set(): in place when the key is there, at the end when it is not.
Set(es, e) ==
  IF \E i \in 1..Len(es) : es[i].key = e.key
    THEN [i \in 1..Len(es) |-> IF es[i].key = e.key THEN e ELSE es[i]]
    ELSE Append(es, e)

-----------------------------------------------------------------------------
(* query().                                                                *)

Servable(i) == now - entries[i].lastUsedAt <= TTL

Hit(c, k) ==
  /\ call[c] = NoCall
  /\ \E i \in Index(k) :
       /\ Servable(i)
       /\ entries' = [entries EXCEPT ![i].lastUsedAt = now, ![i].hit = TRUE]
  /\ UNCHANGED <<now, db, call, floor>>

\* An entry that is too old is deleted before the database is asked.
Miss(c, k) ==
  /\ call[c] = NoCall
  /\ \A i \in Index(k) : ~Servable(i)
  /\ Delete({k})
  /\ call' = [call EXCEPT ![c] = [key |-> k, started |-> now, overtaken |-> FALSE,
                                  rows |-> NoCall, readAt |-> now]]
  /\ UNCHANGED <<now, db, floor>>

\* The database executes the query.
Read(c) ==
  /\ call[c] # NoCall /\ call[c].rows = NoCall
  /\ call' = [call EXCEPT ![c].rows = db[call[c].key], ![c].readAt = now]
  /\ UNCHANGED <<now, db, entries, floor>>

\* The adapter rejects: nothing is stored.
QueryFails(c) ==
  /\ call[c] # NoCall
  /\ call' = [call EXCEPT ![c] = NoCall]
  /\ UNCHANGED <<now, db, entries, floor>>

Evicted(es) == IF Len(es) >= MaxSize THEN Tail(es) ELSE es

\* The time of the entry is that of the call, not that of the answer.
StampOf(c) == call[c].started

\* Room is made before the key is set, whether or not it is there already.
Store(c) ==
  /\ call[c] # NoCall /\ call[c].rows # NoCall
  /\ entries' =
       IF MaxSize = 0 THEN entries
       ELSE Set(Evicted(entries),
                [key |-> call[c].key, rows |-> call[c].rows, lastUsedAt |-> StampOf(c),
                 overtaken |-> call[c].overtaken, readAt |-> call[c].readAt, hit |-> FALSE])
  /\ call' = [call EXCEPT ![c] = NoCall]
  /\ UNCHANGED <<now, db, floor>>

-----------------------------------------------------------------------------
(* invalidate(), writes and time.                                          *)

Overtake(ks) ==
  call' = [c \in Callers |->
             IF call[c] # NoCall /\ call[c].key \in ks
               THEN [call[c] EXCEPT !.overtaken = TRUE] ELSE call[c]]

Invalidate(ks) ==
  /\ Delete(ks)
  /\ floor' = [k \in Keys |-> IF k \in ks THEN db[k] ELSE floor[k]]
  /\ Overtake(ks)
  /\ UNCHANGED <<now, db>>

Write(k) ==
  /\ db[k] < MaxVersion
  /\ db' = [db EXCEPT ![k] = @ + 1]
  /\ UNCHANGED <<now, entries, call, floor>>

Tick ==
  /\ now < MaxTime
  /\ now' = now + 1
  /\ UNCHANGED <<db, entries, call, floor>>

Query(c) == \E k \in Keys : Hit(c, k) \/ Miss(c, k)

Next ==
  \/ \E c \in Callers : Query(c) \/ Read(c) \/ QueryFails(c) \/ Store(c)
  \/ \E ks \in Patterns : Invalidate(ks)
  \/ \E k \in Written : Write(k)
  \/ Tick

Spec == Init /\ [][Next]_vars

-----------------------------------------------------------------------------
(* What the cache promises.                                                *)

\* An entry older than the last invalidation of its key was put there by a query
\* that the invalidation overtook.
StaleOnlyIfOvertaken ==
  \A i \in 1..Len(entries) :
    entries[i].rows < floor[entries[i].key] => entries[i].overtaken

\* The first time an entry is served, its rows were read from the database at most
\* one TTL ago, however long the query took.
FirstHitFresh ==
  \A i \in 1..Len(entries) :
    ~entries[i].hit /\ Servable(i) => now - entries[i].readAt <= TTL

\* What is served is what the code can vouch for: stale rows come only from a query
\* an invalidation overtook, and the clock of an entry starts before its rows are read.
CacheHonest == StaleOnlyIfOvertaken /\ FirstHitFresh
=============================================================================
