----------------------------- MODULE CachesProofs -----------------------------
(***************************************************************************)
(* Proofs about the two caches, each on its own: CachedDb for any keys,    *)
(* callers, size, TTL and patterns, QueryCache for any texts, queries,     *)
(* limits and size.                                                        *)
(*                                                                         *)
(* CachedDb (DbInv): what an entry knows it has from the call that stored  *)
(* it: that its clock started before the rows were read, until it is hit,  *)
(* and that rows older than an invalidation come from a call which that    *)
(* one overtook. The rows of a read are never older, since nothing is      *)
(* invalidated at a version the database has not reached.                  *)
(*                                                                         *)
(* QueryCache (CacheInv): an entry is what was last stored under its key,  *)
(* and the entries behind it in the Map were all stored or found after its *)
(* last use: so the one that makes room has been followed by maxSize       *)
(* others.                                                                 *)
(***************************************************************************)
EXTENDS CachedDb, QueryCache, Integers, FunctionTheorems, FiniteSetTheorems,
        SequenceTheorems, TLAPS

\* A Map: no two entries of one key.
MapOf(es) ==
  /\ es \in Seq(Entry)
  /\ \A i, j \in 1..Len(es) : es[i].key = es[j].key => i = j

EntryOK(e) ==
  /\ ~e.hit => e.lastUsedAt <= e.readAt
  /\ e.rows < floor[e.key] => e.overtaken

CallOK(c) == call[c] # NoCall =>
  /\ call[c].started <= now
  /\ call[c].started <= call[c].readAt
  /\ call[c].rows # NoCall /\ call[c].rows < floor[call[c].key] => call[c].overtaken

DbInv ==
  /\ TypeOK
  /\ \A k \in Keys : floor[k] <= db[k]
  /\ \A c \in Callers : CallOK(c)
  /\ \A i \in 1..Len(entries) : EntryOK(entries[i])

-----------------------------------------------------------------------------
(* CachedDb: the Map                                                       *)

\* Deleting leaves entries that were there, of other keys, and no more of them.
LEMMA DeleteKeeps ==
  ASSUME MapOf(entries), NEW ks, Delete(ks)
  PROVE  /\ MapOf(entries') /\ Len(entries') <= Len(entries)
         /\ \A i \in 1..Len(entries') :
              \E j \in 1..Len(entries) :
                entries'[i] = entries[j] /\ entries[j].key \notin ks
<1> DEFINE n == Cardinality(Kept(ks))
<1>1. Kept(ks) \in SUBSET (1..Len(entries)) /\ Len(entries) \in Nat
  BY LenProperties DEF Kept, MapOf
<1>2. IsFiniteSet(1..Len(entries)) /\ Cardinality(1..Len(entries)) = Len(entries)
  <2>1. 1 \in Int /\ Len(entries) \in Int /\ Len(entries) >= 0
    BY <1>1
  <2>2. /\ IsFiniteSet(1..Len(entries))
        /\ Cardinality(1..Len(entries)) =
             IF 1 > Len(entries) THEN 0 ELSE Len(entries) - 1 + 1
    BY <2>1, FS_Interval
  <2>3. QED BY <2>1, <2>2
<1>3. IsFiniteSet(Kept(ks)) /\ n <= Len(entries)
  BY <1>1, <1>2, FS_Subset
<1>4. n \in Nat
  BY <1>3, FS_CardinalityType
<1>5. PICK at \in InOrder(n, Kept(ks)) : entries' = [i \in DOMAIN at |-> entries[at[i]]]
  BY DEF Delete, Remaining
<1> HIDE DEF n
<1>6. at \in [1..n -> Kept(ks)] /\ \A i, j \in 1..n : i < j => at[i] < at[j]
  BY DEF InOrder
<1>7. entries' = [i \in 1..n |-> entries[at[i]]] /\ Len(entries') = n
  BY <1>4, <1>5, <1>6
<1>8. \A i \in 1..n : /\ at[i] \in 1..Len(entries) /\ at[i] \in Nat
                      /\ entries[at[i]] \in Entry
                      /\ entries[at[i]].key \notin ks
  BY <1>1, <1>6, ElementOfSeq DEF Kept, MapOf
<1>9. entries' \in Seq(Entry)
  BY <1>4, <1>7, <1>8
<1>10. ASSUME NEW i \in 1..n, NEW j \in 1..n, at[i] = at[j] PROVE i = j
  <2>1. ~(i < j) /\ ~(j < i)
    BY <1>6, <1>8, <1>10
  <2>2. QED BY <2>1, <1>4
<1>11. \A i, j \in 1..n : entries'[i].key = entries'[j].key => i = j
  BY <1>7, <1>8, <1>10 DEF MapOf
<1>12. QED BY <1>3, <1>7, <1>8, <1>9, <1>11 DEF MapOf

\* Eviction makes room.
LEMMA EvictedKeeps ==
  ASSUME CachedDbAssumption, MaxSize # 0, NEW es, MapOf(es), Len(es) <= MaxSize
  PROVE  /\ MapOf(Evicted(es)) /\ Len(Evicted(es)) < MaxSize
         /\ \A i \in 1..Len(Evicted(es)) : \E j \in 1..Len(es) : Evicted(es)[i] = es[j]
<1>1. MaxSize \in Nat /\ Len(es) \in Nat
  BY LenProperties DEF CachedDbAssumption, MapOf
<1>2. CASE Len(es) < MaxSize
  <2>1. Evicted(es) = es
    BY <1>1, <1>2 DEF Evicted
  <2>2. QED BY <1>2, <2>1
<1>3. CASE Len(es) >= MaxSize
  <2>1. Evicted(es) = Tail(es) /\ es # <<>>
    BY <1>1, <1>3, EmptySeq DEF Evicted
  <2>2. /\ Tail(es) \in Seq(Entry) /\ Len(Tail(es)) = Len(es) - 1
        /\ \A i \in 1..Len(Tail(es)) : Tail(es)[i] = es[i + 1] /\ i + 1 \in 1..Len(es)
    BY <1>1, <2>1, HeadTailProperties DEF MapOf
  <2>3. MapOf(Tail(es))
    BY <1>1, <2>2 DEF MapOf
  <2>4. QED BY <1>1, <2>1, <2>2, <2>3
<1>4. QED BY <1>1, <1>2, <1>3

\* Setting a key adds one entry at most.
LEMMA DbSetKeeps ==
  ASSUME NEW es, MapOf(es), NEW e \in Entry
  PROVE  /\ MapOf(Set(es, e)) /\ Len(Set(es, e)) <= Len(es) + 1
         /\ \A i \in 1..Len(Set(es, e)) :
              Set(es, e)[i] = e \/ \E j \in 1..Len(es) : Set(es, e)[i] = es[j]
<1>1. Len(es) \in Nat /\ \A i \in 1..Len(es) : es[i] \in Entry
  BY LenProperties, ElementOfSeq DEF MapOf
<1>2. CASE \E i \in 1..Len(es) : es[i].key = e.key
  <2> DEFINE new == [i \in 1..Len(es) |-> IF es[i].key = e.key THEN e ELSE es[i]]
  <2>1. Set(es, e) = new
    BY <1>2 DEF Set
  <2>2. new \in Seq(Entry) /\ Len(new) = Len(es)
    BY <1>1
  <2>3. \A i \in 1..Len(es) : new[i].key = es[i].key
    OBVIOUS
  <2>4. \A i \in 1..Len(es) : new[i] = e \/ new[i] = es[i]
    OBVIOUS
  <2> HIDE DEF new
  <2>5. MapOf(new)
    BY <2>2, <2>3 DEF MapOf
  <2>6. QED BY <1>1, <2>1, <2>2, <2>4, <2>5
<1>3. CASE ~ \E i \in 1..Len(es) : es[i].key = e.key
  <2>1. Set(es, e) = Append(es, e)
    BY <1>3 DEF Set
  <2>2. /\ Append(es, e) \in Seq(Entry) /\ Len(Append(es, e)) = Len(es) + 1
        /\ \A i \in 1..Len(es) : Append(es, e)[i] = es[i]
        /\ Append(es, e)[Len(es) + 1] = e
    BY AppendProperties DEF MapOf
  <2>3. MapOf(Append(es, e))
    BY <1>1, <1>3, <2>2 DEF MapOf
  <2>4. QED BY <1>1, <2>1, <2>2, <2>3
<1>4. QED BY <1>2, <1>3

-----------------------------------------------------------------------------
(* CachedDb: each operation keeps the invariant                            *)

LEMMA Typed == TypeOK <=> /\ now \in Times /\ db \in [Keys -> Versions]
                          /\ MapOf(entries) /\ Len(entries) <= MaxSize
                          /\ call \in [Callers -> Call \cup {NoCall}]
                          /\ floor \in [Keys -> Versions]
  BY DEF TypeOK, KeysUnique, MapOf

LEMMA Initially == CachedDbAssumption /\ Init => DbInv
<1> SUFFICES ASSUME CachedDbAssumption, Init PROVE DbInv
  OBVIOUS
<1>1. 0 \in Times /\ 0 \in Versions
  BY DEF CachedDbAssumption, Times, Versions
<1>2. entries \in Seq(Entry) /\ Len(entries) = 0 /\ MaxSize \in Nat
  BY EmptySeq DEF Init, CachedDbAssumption
<1>3. TypeOK
  BY <1>1, <1>2 DEF Init, TypeOK, KeysUnique
<1>4. QED BY <1>1, <1>2, <1>3 DEF Init, DbInv, CallOK, Versions

LEMMA HitKeeps ==
  ASSUME CachedDbAssumption, DbInv, NEW c \in Callers, NEW k \in Keys, Hit(c, k) PROVE DbInv'
<1>1. PICK i \in Index(k) :
        entries' = [entries EXCEPT ![i].lastUsedAt = now, ![i].hit = TRUE]
  BY DEF Hit
<1> DEFINE e == [entries[i] EXCEPT !.lastUsedAt = now, !.hit = TRUE]
<1>2. i \in 1..Len(entries) /\ MapOf(entries) /\ entries \in Seq(Entry)
  BY Typed DEF DbInv, Index, MapOf
<1>3. entries[i] \in Entry /\ now \in Times
  BY <1>2, ElementOfSeq DEF DbInv, TypeOK
<1>4. e \in Entry /\ e.key = entries[i].key /\ e.rows = entries[i].rows
        /\ e.overtaken = entries[i].overtaken /\ e.hit = TRUE
  BY <1>3 DEF Entry
<1>5. entries' = [entries EXCEPT ![i] = e]
  BY <1>1, <1>2, <1>3, LenProperties DEF Entry
<1> HIDE DEF e
<1>6. /\ entries' \in Seq(Entry) /\ Len(entries') = Len(entries)
      /\ \A j \in 1..Len(entries) : entries'[j] = IF j = i THEN e ELSE entries[j]
  BY <1>2, <1>4, <1>5, ExceptSeq
<1>7. MapOf(entries')
  BY <1>2, <1>4, <1>6 DEF MapOf
<1>8. UNCHANGED <<now, db, call, floor>>
  BY DEF Hit
<1>9. TypeOK'
  BY <1>6, <1>7, <1>8, Typed DEF DbInv, TypeOK, KeysUnique, MapOf
<1>10. \A j \in 1..Len(entries') : EntryOK(entries[j])'
  BY <1>2, <1>4, <1>6, <1>8 DEF DbInv, EntryOK
<1>11. QED BY <1>8, <1>9, <1>10 DEF DbInv, CallOK

\* The entries that are left are as good as they were where floor is the same.
LEMMA MissKeeps ==
  ASSUME CachedDbAssumption, DbInv, NEW c \in Callers, NEW k \in Keys, Miss(c, k) PROVE DbInv'
<1> DEFINE new == [key |-> k, started |-> now, overtaken |-> FALSE,
                   rows |-> NoCall, readAt |-> now]
<1>1. /\ Delete({k}) /\ call' = [call EXCEPT ![c] = new] /\ UNCHANGED <<now, db, floor>>
  BY DEF Miss
<1>2. /\ MapOf(entries') /\ Len(entries') <= Len(entries)
      /\ \A i \in 1..Len(entries') : \E j \in 1..Len(entries) : entries'[i] = entries[j]
  BY <1>1, DeleteKeeps, Typed DEF DbInv
<1>3. new \in Call /\ now \in Nat
  BY DEF DbInv, TypeOK, Call, Times
<1>4. new.started = now /\ new.readAt = now /\ new.rows = NoCall
  OBVIOUS
<1> HIDE DEF new
<1>5. call' \in [Callers -> Call \cup {NoCall}]
  BY <1>1, <1>3 DEF DbInv, TypeOK
<1>6. Len(entries') <= MaxSize
  BY <1>2, Typed, LenProperties DEF DbInv, TypeOK, CachedDbAssumption, MapOf
<1>7. TypeOK'
  BY <1>1, <1>2, <1>5, <1>6, Typed DEF DbInv, TypeOK, KeysUnique, MapOf
<1>8. \A d \in Callers : CallOK(d)'
  BY <1>1, <1>3, <1>4 DEF DbInv, TypeOK, CallOK
<1>9. \A i \in 1..Len(entries') : EntryOK(entries[i])'
  BY <1>1, <1>2 DEF DbInv, EntryOK
<1>10. QED BY <1>1, <1>7, <1>8, <1>9 DEF DbInv

LEMMA ReadKeeps ==
  ASSUME CachedDbAssumption, DbInv, NEW c \in Callers, Read(c) PROVE DbInv'
<1> DEFINE new == [call[c] EXCEPT !.rows = db[call[c].key], !.readAt = now]
<1>1. call[c] \in Call /\ call[c] # NoCall /\ UNCHANGED <<now, db, entries, floor>>
  BY DEF DbInv, TypeOK, Read
<1>2. call' = [call EXCEPT ![c] = new]
  BY <1>1 DEF Read, DbInv, TypeOK, Call
<1>3. call[c].key \in Keys /\ db[call[c].key] \in Versions /\ now \in Times
  BY <1>1 DEF DbInv, TypeOK, Call
<1>4. new \in Call /\ new.started = call[c].started /\ new.readAt = now
        /\ new.key = call[c].key /\ new.rows = db[call[c].key]
  BY <1>1, <1>3 DEF Call
<1> HIDE DEF new
<1>5. TypeOK'
  BY <1>1, <1>2, <1>4 DEF DbInv, TypeOK, KeysUnique
<1>6. floor[new.key] \in Nat /\ db[new.key] \in Nat /\ floor[new.key] <= db[new.key]
  BY <1>3, <1>4 DEF DbInv, TypeOK, Versions
<1>7. ~(new.rows < floor[new.key])
  BY <1>4, <1>6
<1>8. CallOK(c)'
  BY <1>1, <1>2, <1>4, <1>7 DEF DbInv, TypeOK, CallOK
<1>9. \A d \in Callers \ {c} : CallOK(d)'
  BY <1>1, <1>2 DEF DbInv, TypeOK, CallOK
<1>10. QED BY <1>1, <1>5, <1>8, <1>9 DEF DbInv, EntryOK

LEMMA QueryFailsKeeps ==
  ASSUME DbInv, NEW c \in Callers, QueryFails(c) PROVE DbInv'
<1>1. TypeOK'
  BY DEF DbInv, TypeOK, KeysUnique, QueryFails
<1>2. \A d \in Callers : CallOK(d)'
  BY DEF DbInv, TypeOK, CallOK, QueryFails
<1>3. QED BY <1>1, <1>2 DEF DbInv, EntryOK, QueryFails

\* What the call knows the entry knows.
LEMMA StoreKeeps ==
  ASSUME CachedDbAssumption, DbInv, NEW c \in Callers, Store(c) PROVE DbInv'
<1> DEFINE e == [key |-> call[c].key, rows |-> call[c].rows, lastUsedAt |-> StampOf(c),
                 overtaken |-> call[c].overtaken, readAt |-> call[c].readAt, hit |-> FALSE]
<1>1. /\ call[c] \in Call /\ call[c] # NoCall /\ call[c].rows # NoCall
      /\ call' = [call EXCEPT ![c] = NoCall] /\ UNCHANGED <<now, db, floor>>
  BY DEF DbInv, TypeOK, Store
<1>2. entries' = IF MaxSize = 0 THEN entries ELSE Set(Evicted(entries), e)
  BY DEF Store
<1>3. e \in Entry
  BY <1>1 DEF Call, Entry, StampOf
<1>4. EntryOK(e)
  BY <1>1 DEF DbInv, CallOK, EntryOK, StampOf
<1> HIDE DEF e
<1>5. /\ MapOf(entries') /\ Len(entries') <= MaxSize
      /\ \A i \in 1..Len(entries') :
           entries'[i] = e \/ \E j \in 1..Len(entries) : entries'[i] = entries[j]
  <2>1. MapOf(entries) /\ Len(entries) <= MaxSize
    BY Typed DEF DbInv
  <2>2. CASE MaxSize = 0
    BY <1>2, <2>1, <2>2
  <2>3. CASE MaxSize # 0
    <3> DEFINE es == Evicted(entries)
    <3>1. /\ MapOf(es) /\ Len(es) < MaxSize
          /\ \A i \in 1..Len(es) : \E j \in 1..Len(entries) : es[i] = entries[j]
      BY <2>1, <2>3, EvictedKeeps
    <3> HIDE DEF es
    <3>2. entries' = Set(es, e)
      BY <1>2, <2>3 DEF es
    <3>3. /\ MapOf(entries') /\ Len(entries') <= Len(es) + 1
          /\ \A i \in 1..Len(entries') :
               entries'[i] = e \/ \E j \in 1..Len(es) : entries'[i] = es[j]
      BY <1>3, <3>1, <3>2, DbSetKeeps
    <3>4. Len(es) \in Nat /\ Len(entries') \in Nat /\ MaxSize \in Nat
      BY <3>1, <3>3, LenProperties DEF MapOf, CachedDbAssumption
    <3>5. QED BY <3>1, <3>3, <3>4
  <2>4. QED BY <2>2, <2>3
<1>6. TypeOK'
  <2>1. call' \in [Callers -> Call \cup {NoCall}]
    BY <1>1 DEF DbInv, TypeOK
  <2>2. QED BY <1>1, <1>5, <2>1 DEF DbInv, TypeOK, KeysUnique, MapOf
<1>7. \A d \in Callers : CallOK(d)'
  BY <1>1 DEF DbInv, TypeOK, CallOK
<1>8. \A i \in 1..Len(entries') : EntryOK(entries[i])'
  BY <1>1, <1>4, <1>5 DEF DbInv, EntryOK
<1>9. QED BY <1>1, <1>6, <1>7, <1>8 DEF DbInv

\* What is left has other keys, and the calls of these keys are overtaken.
LEMMA InvalidateKeeps ==
  ASSUME CachedDbAssumption, DbInv, NEW ks \in Patterns, Invalidate(ks) PROVE DbInv'
<1>1. /\ Delete(ks) /\ Overtake(ks) /\ UNCHANGED <<now, db>>
      /\ floor' = [k \in Keys |-> IF k \in ks THEN db[k] ELSE floor[k]]
  BY DEF Invalidate
<1>2. /\ MapOf(entries') /\ Len(entries') <= Len(entries)
      /\ \A i \in 1..Len(entries') : \E j \in 1..Len(entries) :
           entries'[i] = entries[j] /\ entries[j].key \notin ks
  BY <1>1, DeleteKeeps, Typed DEF DbInv
<1>3. \A d \in Callers : call[d] # NoCall =>
        /\ call[d] \in Call
        /\ call[d].key \in ks => /\ call'[d] = [call[d] EXCEPT !.overtaken = TRUE]
        /\ call[d].key \notin ks => call'[d] = call[d]
  BY <1>1 DEF DbInv, TypeOK, Overtake
<1>4. \A d \in Callers : call[d] = NoCall => call'[d] = NoCall
  BY <1>1 DEF Overtake
<1>5. \A d \in Callers : call'[d] \in Call \cup {NoCall}
  BY <1>3, <1>4 DEF Call
<1>6. TypeOK'
  <2>1. floor' \in [Keys -> Versions]
    BY <1>1 DEF DbInv, TypeOK
  <2>2. call' \in [Callers -> Call \cup {NoCall}]
    BY <1>1, <1>5 DEF Overtake
  <2>3. Len(entries') <= MaxSize
    BY <1>2, Typed, LenProperties DEF DbInv, TypeOK, CachedDbAssumption, MapOf
  <2>4. QED BY <1>1, <1>2, <2>1, <2>2, <2>3 DEF DbInv, TypeOK, KeysUnique, MapOf
<1>7. \A k \in Keys : floor'[k] <= db'[k]
  BY <1>1 DEF DbInv, TypeOK, Versions
<1>8. ASSUME NEW d \in Callers PROVE CallOK(d)'
  <2>1. CASE call[d] = NoCall
    BY <1>4, <2>1 DEF CallOK
  <2>2. CASE call[d] # NoCall /\ call[d].key \in ks
    <3>1. call[d] \in Call /\ call'[d] = [call[d] EXCEPT !.overtaken = TRUE]
      BY <1>3, <2>2
    <3>2. call'[d].started = call[d].started /\ call'[d].readAt = call[d].readAt
            /\ call'[d].overtaken = TRUE
      BY <3>1 DEF Call
    <3>3. QED BY <1>1, <2>2, <3>2 DEF DbInv, CallOK
  <2>3. CASE call[d] # NoCall /\ call[d].key \notin ks
    <3>1. call[d].key \in Keys /\ call'[d] = call[d]
      BY <1>3, <2>3 DEF Call
    <3>2. floor'[call[d].key] = floor[call[d].key]
      BY <1>1, <2>3, <3>1
    <3>3. QED BY <1>1, <3>1, <3>2 DEF DbInv, CallOK
  <2>4. QED BY <2>1, <2>2, <2>3
<1>9. ASSUME NEW i \in 1..Len(entries') PROVE EntryOK(entries[i])'
  <2>1. PICK j \in 1..Len(entries) :
          entries'[i] = entries[j] /\ entries[j].key \notin ks
    BY <1>2
  <2>2. entries[j].key \in Keys /\ EntryOK(entries[j])
    <3>1. entries[j] \in Entry
      BY Typed, ElementOfSeq DEF DbInv, MapOf
    <3>2. QED BY <3>1 DEF DbInv, Entry
  <2>3. floor'[entries[j].key] = floor[entries[j].key]
    BY <1>1, <2>1, <2>2
  <2>4. QED BY <2>1, <2>2, <2>3 DEF EntryOK
<1>10. QED BY <1>6, <1>7, <1>8, <1>9 DEF DbInv

LEMMA WriteKeeps ==
  ASSUME CachedDbAssumption, DbInv, NEW k \in Keys, Write(k) PROVE DbInv'
<1>1. /\ db[k] \in Nat /\ db[k] + 1 \in Versions
      /\ db' = [db EXCEPT ![k] = db[k] + 1] /\ UNCHANGED <<now, entries, call, floor>>
  BY DEF CachedDbAssumption, DbInv, TypeOK, Versions, Write
<1>2. TypeOK'
  BY <1>1 DEF DbInv, TypeOK, KeysUnique
<1>3. \A x \in Keys : floor'[x] <= db'[x]
  BY <1>1 DEF DbInv, TypeOK, Versions
<1>4. QED BY <1>1, <1>2, <1>3 DEF DbInv, CallOK, EntryOK

LEMMA TickKeeps ==
  ASSUME CachedDbAssumption, DbInv, Tick PROVE DbInv'
<1>1. now \in Nat /\ now' = now + 1 /\ now' \in Times /\ UNCHANGED <<db, entries, call, floor>>
  BY DEF CachedDbAssumption, DbInv, TypeOK, Times, Tick
<1>2. TypeOK'
  BY <1>1 DEF DbInv, TypeOK, KeysUnique
<1>3. \A c \in Callers : CallOK(c)'
  BY <1>1 DEF DbInv, TypeOK, CallOK, Call, Times
<1>4. QED BY <1>1, <1>2, <1>3 DEF DbInv, EntryOK

LEMMA StutterKeeps == ASSUME DbInv, UNCHANGED vars PROVE DbInv'
<1>1. TypeOK'
  BY DEF DbInv, TypeOK, KeysUnique, vars
<1>2. QED BY <1>1 DEF DbInv, CallOK, EntryOK, vars

LEMMA DbStepKeeps == ASSUME CachedDbAssumption, DbInv, [Next]_vars PROVE DbInv'
<1>1. ASSUME NEW c \in Callers, Query(c) PROVE DbInv'
  BY <1>1, HitKeeps, MissKeeps DEF Query
<1>2. ASSUME NEW c \in Callers, Read(c) PROVE DbInv'
  BY <1>2, ReadKeeps
<1>3. ASSUME NEW c \in Callers, QueryFails(c) PROVE DbInv'
  BY <1>3, QueryFailsKeeps
<1>4. ASSUME NEW c \in Callers, Store(c) PROVE DbInv'
  BY <1>4, StoreKeeps
<1>5. ASSUME NEW ks \in Patterns, Invalidate(ks) PROVE DbInv'
  BY <1>5, InvalidateKeeps
<1>6. ASSUME NEW k \in Written, Write(k) PROVE DbInv'
  <2>1. k \in Keys
    BY DEF CachedDbAssumption
  <2>2. QED BY <1>6, <2>1, WriteKeeps
<1>7. CASE Tick
  BY <1>7, TickKeeps
<1>8. CASE UNCHANGED vars
  BY <1>8, StutterKeeps
<1>9. QED BY <1>1, <1>2, <1>3, <1>4, <1>5, <1>6, <1>7, <1>8 DEF Next

-----------------------------------------------------------------------------
(* What the cache promises *)

\* Rows that are served for the first time within the TTL of the call were read
\* after it.
LEMMA DbInvariantImplies == ASSUME CachedDbAssumption, DbInv PROVE CacheHonest
<1>1. StaleOnlyIfOvertaken
  BY DEF DbInv, EntryOK, StaleOnlyIfOvertaken
<1>2. ASSUME NEW i \in 1..Len(entries), ~entries[i].hit, Servable(i)
      PROVE  now - entries[i].readAt <= TTL
  <2>1. entries[i] \in Entry /\ now \in Times
    BY Typed, ElementOfSeq DEF DbInv, MapOf
  <2>2. now \in Nat /\ entries[i].readAt \in Nat /\ entries[i].lastUsedAt \in Nat /\ TTL \in Nat
    BY <2>1 DEF Entry, Times, CachedDbAssumption
  <2>3. entries[i].lastUsedAt <= entries[i].readAt
    BY <1>2 DEF DbInv, EntryOK
  <2>4. QED BY <1>2, <2>2, <2>3 DEF Servable
<1>3. QED BY <1>1, <1>2 DEF CacheHonest, FirstHitFresh

LEMMA CachedDbInvariant == Spec => []DbInv
  BY CachedDbAssumption, Initially, DbStepKeeps, PTL DEF Spec

\* For any callers, keys and size: the entries of CachedDb stay a Map of at most
\* maxSize keys, whatever misses store, evict and delete while others wait.
THEOREM CachedDbTypes == Spec => []TypeOK
<1>1. DbInv => TypeOK
  BY DEF DbInv
<1>2. QED BY <1>1, CachedDbInvariant, PTL

\* For any callers, keys, size and TTL: rows older than the last invalidation of their
\* key are in CachedDb only where it overtook the query that stored them, and a first
\* hit is served rows that were read at most one TTL ago.
THEOREM CachedDbHonest == Spec => []CacheHonest
  BY CachedDbAssumption, DbInvariantImplies, CachedDbInvariant, PTL

-----------------------------------------------------------------------------
(* QueryCache                                                              *)

Has(es, s) == \E i \in 1..Len(es) : es[i].key = s

\* The order of es is the recency of its keys.
ByRecency(es) ==
  /\ es \in Seq(CacheEntry)
  /\ \A i \in 1..Len(es) : es[i] = latest[es[i].key]
  /\ \A i, j \in 1..Len(es) :
       i < j => es[i].key # es[j].key /\ es[j].key \in since[es[i].key]

History ==
  /\ date \in 0..MaxNow
  /\ latest \in [Sqls -> CacheEntry \cup {Off}]
  /\ since \in [Sqls -> SUBSET Sqls]
  /\ \A s \in Sqls : IsFiniteSet(since[s])

\* What is due is there unless maxSize others came after it.
Missed(s) == Due(s) => Has(kept, s) \/ Cardinality(since[s]) >= maxSize

CacheInv ==
  /\ History
  /\ ByRecency(kept) /\ Len(kept) <= maxSize
  /\ \A s \in Sqls : Missed(s)

-----------------------------------------------------------------------------
(* The Map                                                                 *)

\* What is left in its order is still in the order of recency.
LEMMA InOrderKeeps ==
  ASSUME NEW es, ByRecency(es), NEW n \in Nat, NEW at \in [1..n -> 1..Len(es)],
         \A i, j \in 1..n : i < j => at[i] < at[j]
  PROVE  LET left == [i \in 1..n |-> es[at[i]]]
         IN  ByRecency(left) /\ Len(left) = n
<1> DEFINE left == [i \in 1..n |-> es[at[i]]]
<1>1. \A i \in 1..n : at[i] \in 1..Len(es) /\ left[i] = es[at[i]] /\ left[i] \in CacheEntry
  <2> SUFFICES ASSUME NEW i \in 1..n
               PROVE  at[i] \in 1..Len(es) /\ left[i] = es[at[i]] /\ left[i] \in CacheEntry
    OBVIOUS
  <2>1. at[i] \in 1..Len(es) /\ left[i] = es[at[i]]
    OBVIOUS
  <2> QED BY <2>1, ElementOfSeq DEF ByRecency
<1>2. left \in Seq(CacheEntry) /\ Len(left) = n
  BY <1>1
<1> HIDE DEF left
<1>3. \A i \in 1..n : left[i] = latest[left[i].key]
  BY <1>1 DEF ByRecency
<1>4. ASSUME NEW i \in 1..n, NEW j \in 1..n, i < j
      PROVE  left[i].key # left[j].key /\ left[j].key \in since[left[i].key]
  <2>1. at[i] < at[j] /\ at[i] \in 1..Len(es) /\ at[j] \in 1..Len(es)
    BY <1>4
  <2>2. left[i] = es[at[i]] /\ left[j] = es[at[j]]
    BY <1>1
  <2> QED BY <2>1, <2>2 DEF ByRecency
<1>5. ByRecency(left)
  BY <1>2, <1>3, <1>4 DEF ByRecency
<1> QED BY <1>2, <1>5 DEF left

LEMMA KeysDiffer ==
  ASSUME NEW es, ByRecency(es), NEW i \in 1..Len(es), NEW j \in 1..Len(es), es[i].key = es[j].key
  PROVE  i = j
BY LenProperties DEF ByRecency

\* Deleting s leaves the others, and makes room if s was there.
LEMMA ExceptKeeps ==
  ASSUME ByRecency(kept), NEW s
  PROVE  /\ ByRecency(Except(s)) /\ ~Has(Except(s), s)
         /\ \A o : o # s /\ Has(kept, o) => Has(Except(s), o)
         /\ Len(Except(s)) = IF Has(kept, s) THEN Len(kept) - 1 ELSE Len(kept)
<1> DEFINE n == Len(kept)
<1>1. n \in Nat /\ DOMAIN kept = 1..n
  BY LenProperties DEF ByRecency
<1>2. CASE At(s) = {}
  <2>1. Except(s) = kept /\ ~Has(kept, s)
    BY <1>1, <1>2 DEF Except, At, Has
  <2> QED BY <2>1
<1>3. CASE At(s) # {}
  <2>1. PICK p \in 1..n : kept[p].key = s /\ Except(s) = Without(p)
    BY <1>1, <1>3 DEF Except, At
  <2> DEFINE at == [j \in 1..(n - 1) |-> IF j < p THEN j ELSE j + 1]
             left == [j \in 1..(n - 1) |-> kept[at[j]]]
  <2>2. n - 1 \in Nat /\ p \in Nat
    BY <1>1, <2>1
  <2>3. /\ at \in [1..(n - 1) -> 1..n]
        /\ \A j \in 1..(n - 1) : at[j] = IF j < p THEN j ELSE j + 1
    BY <1>1, <2>2
  <2>4. left = Without(p)
    BY DEF Without
  <2> HIDE DEF at
  <2>5. \A j \in 1..(n - 1) : left[j] = kept[at[j]] /\ at[j] # p /\ at[j] \in 1..n
    BY <2>2, <2>3
  <2>6. ByRecency(left) /\ Len(left) = n - 1
    <3>1. \A i, j \in 1..(n - 1) : i < j => at[i] < at[j]
      BY <2>2, <2>3
    <3> QED BY <2>2, <2>3, <3>1, InOrderKeeps
  <2> HIDE DEF left
  <2>7. \A i \in 1..n \ {p} : \E j \in 1..(n - 1) : at[j] = i
    <3> SUFFICES ASSUME NEW i \in 1..n \ {p} PROVE \E j \in 1..(n - 1) : at[j] = i
      OBVIOUS
    <3>1. CASE i < p
      <4>1. i \in 1..(n - 1) /\ at[i] = i
        BY <1>1, <2>2, <2>3, <3>1
      <4> QED BY <4>1
    <3>2. CASE i > p
      <4>1. i - 1 \in 1..(n - 1) /\ at[i - 1] = i
        BY <1>1, <2>2, <2>3, <3>2
      <4> QED BY <4>1
    <3> QED BY <2>2, <3>1, <3>2
  <2>8. ASSUME NEW j \in 1..(n - 1) PROVE left[j].key # s
    BY <2>1, <2>5, KeysDiffer
  <2>9. ASSUME NEW o, o # s, Has(kept, o) PROVE Has(left, o)
    <3>1. PICK i \in 1..n : kept[i].key = o
      BY <2>9 DEF Has
    <3>2. PICK j \in 1..(n - 1) : at[j] = i
      BY <2>1, <2>7, <2>9, <3>1
    <3> QED BY <2>5, <2>6, <3>1, <3>2 DEF Has
  <2>10. Has(kept, s)
    BY <2>1 DEF Has
  <2>11. ~Has(left, s)
    BY <2>6, <2>8 DEF Has
  <2> QED BY <2>1, <2>4, <2>6, <2>9, <2>10, <2>11
<1> QED BY <1>2, <1>3

\* The reaper leaves the entries that are live.
LEMMA RemainingKeeps ==
  ASSUME ByRecency(kept), NEW S \in SUBSET (1..Len(kept)), NEW left \in Remaining(kept, S)
  PROVE  /\ ByRecency(left) /\ Len(left) <= Len(kept)
         /\ \A i \in S : Has(left, kept[i].key)
<1> DEFINE n == Cardinality(S)
<1>1. Len(kept) \in Nat
  BY LenProperties DEF ByRecency
<1>2. \A m \in Nat : IsFiniteSet(1..m) /\ Cardinality(1..m) = m
  <2> SUFFICES ASSUME NEW m \in Nat PROVE IsFiniteSet(1..m) /\ Cardinality(1..m) = m
    OBVIOUS
  <2>1. 1 \in Int /\ m \in Int
    OBVIOUS
  <2>2. IsFiniteSet(1..m) /\ Cardinality(1..m) = IF 1 > m THEN 0 ELSE m - 1 + 1
    BY <2>1, FS_Interval
  <2> QED BY <2>2
<1>3. IsFiniteSet(S) /\ n \in Nat /\ n <= Len(kept)
  <2>1. IsFiniteSet(1..Len(kept)) /\ Cardinality(1..Len(kept)) = Len(kept)
    BY <1>1, <1>2
  <2>2. IsFiniteSet(S) /\ n <= Len(kept)
    BY <2>1, FS_Subset
  <2> QED BY <2>2, FS_CardinalityType
<1>4. PICK at \in InOrder(n, S) : left = [i \in DOMAIN at |-> kept[at[i]]]
  BY DEF Remaining
<1> HIDE DEF n
<1>5. /\ at \in [1..n -> S] /\ left = [i \in 1..n |-> kept[at[i]]]
      /\ \A i, j \in 1..n : i < j => at[i] < at[j]
  BY <1>4 DEF InOrder
<1>6. at \in [1..n -> 1..Len(kept)]
  BY <1>5
<1>7. ByRecency(left) /\ Len(left) = n
  BY <1>3, <1>5, <1>6, InOrderKeeps
<1>8. at \in Injection(1..n, S)
  <2>1. \A i, j \in 1..n : at[i] = at[j] => i = j
    BY <1>3, <1>5, <1>6
  <2> QED BY <1>5, <2>1, Fun_IsInj
<1>9. at \in Surjection(1..n, S)
  BY <1>2, <1>3, <1>8, FS_Injection DEF n
<1>10. \A i \in S : \E j \in 1..n : at[j] = i
  BY <1>9 DEF Surjection
<1>11. \A i \in S : Has(left, kept[i].key)
  BY <1>5, <1>7, <1>10 DEF Has
<1> QED BY <1>3, <1>7, <1>11

\* The first entry has been followed by as many others as there are behind it.
LEMMA FirstIsFollowed ==
  ASSUME History, NEW es, ByRecency(es), Len(es) = maxSize, maxSize > 0,
         NEW s \in Sqls, ~Has(es, s)
  PROVE  Cardinality(since[es[1].key] \cup {s}) >= maxSize
<1> DEFINE K == since[es[1].key] \cup {s}
           f == [i \in 1..maxSize |-> IF i = 1 THEN s ELSE es[i].key]
<1>1. maxSize \in Nat /\ 1 \in 1..maxSize
  BY QueryCacheAssumption
<1>2. IsFiniteSet(K) /\ Cardinality(K) \in Nat
  <2>1. es[1].key \in Sqls
    <3>1. es \in Seq(CacheEntry) /\ 1 \in 1..Len(es)
      BY <1>1 DEF ByRecency
    <3>2. es[1] \in CacheEntry
      BY <3>1, ElementOfSeq
    <3> QED BY <3>2 DEF CacheEntry
  <2>2. IsFiniteSet(since[es[1].key])
    BY <2>1 DEF History
  <2>3. IsFiniteSet(K)
    BY <2>2, FS_AddElement
  <2> QED BY <2>3, FS_CardinalityType
<1>3. f \in [1..maxSize -> K]
  <2> SUFFICES ASSUME NEW i \in 1..maxSize, i # 1 PROVE es[i].key \in since[es[1].key]
    OBVIOUS
  <2>1. 1 < i
    BY <1>1
  <2> QED BY <1>1, <2>1 DEF ByRecency
<1>4. ASSUME NEW i \in 1..maxSize, NEW j \in 1..maxSize, f[i] = f[j] PROVE i = j
  <2>1. \A k \in 1..maxSize : es[k].key # s
    BY DEF Has
  <2>2. CASE i = 1 \/ j = 1
    BY <1>1, <1>4, <2>1, <2>2
  <2>3. CASE i # 1 /\ j # 1
    <3>1. es[i].key = es[j].key
      BY <1>4, <2>3
    <3> QED BY <3>1, KeysDiffer
  <2> QED BY <2>2, <2>3
<1> HIDE DEF f, K
<1>5. f \in Injection(1..maxSize, K)
  BY <1>3, <1>4, Fun_IsInj
<1>6. Cardinality(1..maxSize) <= Cardinality(K)
  BY <1>2, <1>5, FS_Injection
<1>7. Cardinality(1..maxSize) = maxSize
  <2>1. 1 \in Int /\ maxSize \in Int
    BY <1>1
  <2>2. Cardinality(1..maxSize) = IF 1 > maxSize THEN 0 ELSE maxSize - 1 + 1
    BY <2>1, FS_Interval
  <2> QED BY <1>1, <2>2
<1> QED BY <1>1, <1>2, <1>6, <1>7 DEF K

LEMMA GrowsNoSmaller ==
  ASSUME History, NEW o \in Sqls, NEW s, Cardinality(since[o]) >= maxSize
  PROVE  Cardinality(since[o] \cup {s}) >= maxSize
<1>1. IsFiniteSet(since[o])
  BY DEF History
<1>2. /\ Cardinality(since[o]) \in Nat
      /\ Cardinality(since[o] \cup {s}) =
           IF s \in since[o] THEN Cardinality(since[o]) ELSE Cardinality(since[o]) + 1
  BY <1>1, FS_AddElement, FS_CardinalityType
<1> QED BY <1>2, QueryCacheAssumption

-----------------------------------------------------------------------------
(* Each operation keeps the invariant                                      *)

\* Taking out entries that nobody is due.
LEMMA DropKeeps ==
  ASSUME CacheInv, UNCHANGED <<date, latest, since>>, ByRecency(kept'), Len(kept') <= Len(kept),
         \A s \in Sqls : Due(s) /\ Has(kept, s) => Has(kept', s)
  PROVE  CacheInv'
<1>1. History'
  BY DEF CacheInv, History
<1>2. ByRecency(kept)'
  BY DEF ByRecency
<1>3. Len(kept') <= maxSize
  BY LenProperties, QueryCacheAssumption DEF CacheInv, ByRecency
<1>4. ASSUME NEW s \in Sqls PROVE Missed(s)'
  <2>1. Due(s)' => Due(s)
    BY DEF Due, Live, Unused, TooOld
  <2>2. Has(kept, s)' <=> Has(kept', s)
    BY DEF Has
  <2> QED BY <2>1, <2>2 DEF CacheInv, Missed
<1> QED BY <1>1, <1>2, <1>3, <1>4 DEF CacheInv

\* Putting an entry behind all others.
LEMMA AppendKeeps ==
  ASSUME CacheInv, NEW es, ByRecency(es), Len(es) < maxSize,
         NEW s \in Sqls, ~Has(es, s), NEW e \in CacheEntry, e.key = s,
         kept' = Append(es, e), Uses(s, e), UNCHANGED date,
         \A o \in Sqls \ {s} :
           Due(o) => Has(es, o) \/ Cardinality(since[o] \cup {s}) >= maxSize
  PROVE  CacheInv'
<1> DEFINE n == Len(es)
<1>1. /\ latest' = [latest EXCEPT ![s] = e]
      /\ since' = [o \in Sqls |-> IF o = s \/ latest[o] = Off THEN {} ELSE since[o] \cup {s}]
  BY DEF Uses
<1>2. History'
  <2>1. latest' \in [Sqls -> CacheEntry \cup {Off}] /\ since' \in [Sqls -> SUBSET Sqls]
    BY <1>1 DEF CacheInv, History
  <2>2. ASSUME NEW o \in Sqls PROVE IsFiniteSet(since'[o])
    <3>1. IsFiniteSet(since[o])
      BY DEF CacheInv, History
    <3>2. since'[o] = {} \/ since'[o] = since[o] \cup {s}
      BY <1>1
    <3>3. IsFiniteSet({}) /\ IsFiniteSet(since[o] \cup {s})
      BY <3>1, FS_AddElement, FS_EmptySet
    <3> QED BY <3>2, <3>3
  <2> QED BY <2>1, <2>2 DEF CacheInv, History
<1>3. /\ n \in Nat /\ kept' \in Seq(CacheEntry) /\ Len(kept') = n + 1
      /\ \A i \in 1..n : kept'[i] = es[i]
      /\ kept'[n + 1] = e
  BY AppendProperties, LenProperties DEF ByRecency
<1>4. ASSUME NEW i \in 1..n
      PROVE  /\ es[i].key \in Sqls \ {s} /\ latest[es[i].key] # Off
             /\ latest'[es[i].key] = es[i]
             /\ since'[es[i].key] = since[es[i].key] \cup {s}
  <2>1. es[i] \in CacheEntry /\ es[i] = latest[es[i].key]
    BY ElementOfSeq DEF ByRecency
  <2>2. es[i].key \in Sqls /\ es[i].key # s
    BY <2>1 DEF CacheEntry, Has
  <2>3. latest[es[i].key] # Off
    BY <2>1, QueryCacheAssumption
  <2> QED BY <1>1, <2>1, <2>2, <2>3 DEF CacheInv, History
<1> HIDE DEF n
<1>5. \A i \in 1..Len(kept') : kept'[i] = latest'[kept'[i].key]
  <2>1. latest'[s] = e
    BY <1>1 DEF CacheInv, History
  <2>2. \A i \in 1..Len(kept') : i \in 1..n \/ i = n + 1
    BY <1>3
  <2> QED BY <1>3, <1>4, <2>1, <2>2
<1>6. ASSUME NEW i \in 1..Len(kept'), NEW j \in 1..Len(kept'), i < j
      PROVE  kept'[i].key # kept'[j].key /\ kept'[j].key \in since'[kept'[i].key]
  <2>1. i \in 1..n /\ kept'[i] = es[i]
    BY <1>3, <1>6
  <2>2. CASE j \in 1..n
    <3>1. es[i].key # es[j].key /\ es[j].key \in since[es[i].key]
      BY <1>6, <2>1, <2>2 DEF ByRecency, n
    <3> QED BY <1>3, <1>4, <2>1, <2>2, <3>1
  <2>3. CASE j = n + 1
    BY <1>3, <1>4, <2>1, <2>3
  <2> QED BY <1>3, <2>2, <2>3
<1>7. ByRecency(kept)'
  BY <1>3, <1>5, <1>6 DEF ByRecency
<1>8. Len(kept') <= maxSize
  BY <1>3, QueryCacheAssumption DEF n
<1>9. ASSUME NEW o \in Sqls PROVE Missed(o)'
  <2>1. CASE o = s
    BY <1>3, <2>1 DEF Missed, Has
  <2>2. CASE o # s
    <3>1. latest'[o] = latest[o] /\ (latest[o] # Off => since'[o] = since[o] \cup {s})
      BY <1>1, <2>2 DEF CacheInv, History
    <3>2. Due(o)' => Due(o) /\ latest[o] # Off
      BY <3>1 DEF Due, Live, Unused, TooOld
    <3>3. Has(es, o) => Has(kept, o)'
      BY <1>3 DEF Has, n
    <3> QED BY <2>2, <3>1, <3>2, <3>3 DEF Missed
  <2> QED BY <2>1, <2>2
<1> QED BY <1>2, <1>7, <1>8, <1>9 DEF CacheInv

LEMMA InitKeeps == CacheInit => CacheInv
<1> SUFFICES ASSUME CacheInit PROVE CacheInv
  OBVIOUS
<1>1. kept \in Seq(CacheEntry) /\ Len(kept) = 0
  BY EmptySeq DEF CacheInit
<1>2. \A s \in Sqls : latest[s] = Off /\ since[s] = {}
  BY DEF CacheInit
<1>3. History
  BY <1>2, FS_EmptySet, QueryCacheAssumption DEF CacheInit, History
<1>4. ByRecency(kept)
  BY <1>1 DEF ByRecency
<1> QED BY <1>1, <1>2, <1>3, <1>4, QueryCacheAssumption DEF CacheInv, Missed, Due

\* What the Map holds of s is the last that was stored under it.
LEMMA KeptIsLatest ==
  ASSUME CacheInv, NEW s, NEW i \in At(s)
  PROVE  /\ i \in 1..Len(kept) /\ s \in Sqls /\ kept[i] \in CacheEntry /\ kept[i].key = s
         /\ kept[i] = latest[s] /\ latest[s] # Off
<1>1. kept \in Seq(CacheEntry) /\ i \in 1..Len(kept) /\ kept[i].key = s
  BY LenProperties DEF CacheInv, ByRecency, At
<1>2. kept[i] \in CacheEntry
  BY <1>1, ElementOfSeq
<1>3. kept[i] = latest[s]
  BY <1>1 DEF CacheInv, ByRecency
<1> QED BY <1>1, <1>2, <1>3, QueryCacheAssumption DEF CacheEntry

LEMMA HasAt == ASSUME CacheInv, NEW s PROVE Has(kept, s) <=> At(s) # {}
BY LenProperties DEF CacheInv, ByRecency, Has, At

LEMMA FoundKeeps ==
  ASSUME CacheInv, NEW s \in Sqls, NEW e \in Found(s), kept' = Touched(e),
         Uses(s, [latest[s] EXCEPT !.lastUsedAt = date]), UNCHANGED date
  PROVE  CacheInv'
<1> DEFINE touched == [latest[s] EXCEPT !.lastUsedAt = date]
<1>1. PICK i \in At(s) : e = kept[i]
  BY DEF Found
<1>2. e \in CacheEntry /\ e.key = s /\ e = latest[s]
  BY <1>1, KeptIsLatest
<1>3. touched \in CacheEntry /\ touched.key = s
  BY <1>2 DEF CacheInv, History, CacheEntry
<1>4. kept' = Append(Except(s), touched)
  BY <1>2 DEF Touched
<1> HIDE DEF touched
<1>5. ByRecency(kept) /\ Len(kept) \in Nat /\ Len(kept) <= maxSize /\ Has(kept, s)
  BY <1>1, HasAt, LenProperties DEF CacheInv, ByRecency
<1>6. /\ ByRecency(Except(s)) /\ ~Has(Except(s), s) /\ Len(Except(s)) < maxSize
      /\ \A o : o # s /\ Has(kept, o) => Has(Except(s), o)
  BY <1>5, ExceptKeeps, QueryCacheAssumption
<1>7. \A o \in Sqls \ {s} :
        Due(o) => Has(Except(s), o) \/ Cardinality(since[o] \cup {s}) >= maxSize
  BY <1>6, GrowsNoSmaller DEF CacheInv, Missed
<1> QED BY <1>3, <1>4, <1>6, <1>7, AppendKeeps DEF touched

\* What is not servable goes.
LEMMA NotFoundKeeps ==
  ASSUME CacheInv, NEW s \in Sqls, Found(s) = {}, kept' = Except(s),
         UNCHANGED <<date, latest, since>>
  PROVE  CacheInv'
<1>1. ByRecency(kept) /\ Len(kept) \in Nat
  BY LenProperties DEF CacheInv, ByRecency
<1>2. /\ ByRecency(kept') /\ Len(kept') <= Len(kept)
      /\ \A o : o # s /\ Has(kept, o) => Has(kept', o)
  BY <1>1, ExceptKeeps
<1>3. Has(kept, s) => ~Due(s)
  <2> SUFFICES ASSUME NEW i \in At(s) PROVE ~Due(s)
    BY HasAt
  <2>1. ~Live(kept[i])
    BY DEF Found
  <2> QED BY <2>1, KeptIsLatest DEF Due
<1> QED BY <1>2, <1>3, DropKeeps

LEMMA SetKeeps ==
  ASSUME CacheInv, NEW s \in Sqls, NEW c \in Compiled, set(s, c)
  PROVE  CacheInv'
<1> DEFINE e == [key |-> s, compiled |-> c, createdAt |-> date,
                 lastUsedAt |-> date, alive |-> TRUE]
           others == Except(s)
<1>1. /\ maxSize > 0 /\ maxSize \in Nat /\ kept' = Append(Room(others), e)
      /\ Uses(s, e) /\ UNCHANGED date
  BY QueryCacheAssumption DEF set
<1>2. e \in CacheEntry /\ e.key = s
  BY DEF CacheInv, History, CacheEntry
<1> HIDE DEF e
<1>3. ByRecency(kept) /\ Len(kept) \in Nat /\ Len(kept) <= maxSize
  BY LenProperties DEF CacheInv, ByRecency
<1>4. /\ ByRecency(others) /\ ~Has(others, s)
      /\ \A o : o # s /\ Has(kept, o) => Has(others, o)
      /\ Len(others) <= maxSize /\ Len(others) \in Nat
  <2>1. /\ ByRecency(others) /\ ~Has(others, s)
        /\ \A o : o # s /\ Has(kept, o) => Has(others, o)
        /\ Len(others) <= Len(kept)
    BY <1>3, ExceptKeeps
  <2>2. Len(others) \in Nat
    BY <2>1, LenProperties DEF ByRecency
  <2> QED BY <1>1, <1>3, <2>1, <2>2
<1> HIDE DEF others
<1>5. \A o \in Sqls \ {s} :
        Due(o) => Has(others, o) \/ Cardinality(since[o] \cup {s}) >= maxSize
  BY <1>4, GrowsNoSmaller DEF CacheInv, Missed
<1>6. CASE Len(others) < maxSize
  <2>1. Room(others) = others
    BY <1>1, <1>4, <1>6 DEF Room
  <2> QED BY <1>1, <1>2, <1>4, <1>5, <1>6, <2>1, AppendKeeps
<1>7. CASE Len(others) = maxSize
  <2> DEFINE n == maxSize
             room == Tail(others)
  <2>1. Room(others) = room /\ others \in Seq(CacheEntry) /\ others # <<>>
    BY <1>1, <1>4, <1>7, EmptySeq DEF Room, ByRecency
  <2>2. /\ room \in Seq(CacheEntry) /\ Len(room) = n - 1
        /\ \A i \in 1..(n - 1) : room[i] = others[i + 1]
    BY <1>7, <2>1, HeadTailProperties
  <2>3. ByRecency(room)
    <3>1. \A i \in 1..(n - 1) : i + 1 \in 1..n
      BY <1>1
    <3>2. \A i \in 1..(n - 1) : room[i] = latest[room[i].key]
      BY <1>4, <1>7, <2>2, <3>1 DEF ByRecency
    <3>3. ASSUME NEW i \in 1..(n - 1), NEW j \in 1..(n - 1), i < j
          PROVE  room[i].key # room[j].key /\ room[j].key \in since[room[i].key]
      <4>1. i + 1 < j + 1 /\ i + 1 \in 1..n /\ j + 1 \in 1..n
        BY <3>1, <3>3
      <4>2. room[i] = others[i + 1] /\ room[j] = others[j + 1]
        BY <2>2
      <4> QED BY <1>4, <1>7, <4>1, <4>2 DEF ByRecency
    <3> QED BY <2>2, <3>2, <3>3 DEF ByRecency
  <2> HIDE DEF room
  <2>4. ~Has(room, s)
    <3>1. \A i \in 1..(n - 1) : i + 1 \in 1..Len(others) /\ room[i] = others[i + 1]
      BY <1>1, <1>7, <2>2
    <3> QED BY <1>4, <2>2, <3>1 DEF Has
  <2>5. Len(room) < maxSize
    BY <1>1, <2>2
  <2>6. Cardinality(since[others[1].key] \cup {s}) >= maxSize
    BY <1>1, <1>4, <1>7, FirstIsFollowed DEF CacheInv
  <2>7. ASSUME NEW o \in Sqls \ {s}, Due(o)
        PROVE  Has(room, o) \/ Cardinality(since[o] \cup {s}) >= maxSize
    <3>1. CASE o = others[1].key
      BY <2>6, <3>1
    <3>2. CASE o # others[1].key /\ Has(others, o)
      <4>1. PICK i \in 1..n : others[i].key = o
        BY <1>7, <3>2 DEF Has
      <4>2. i - 1 \in 1..(n - 1) /\ (i - 1) + 1 = i
        BY <1>1, <3>2, <4>1
      <4>3. room[i - 1].key = o
        BY <2>2, <4>1, <4>2
      <4> QED BY <2>2, <4>2, <4>3 DEF Has
    <3> QED BY <1>5, <2>7, <3>1, <3>2
  <2> QED BY <1>1, <1>2, <2>1, <2>3, <2>4, <2>5, <2>7, AppendKeeps
<1> QED BY <1>1, <1>4, <1>6, <1>7

LEMMA ReapKeeps == ASSUME CacheInv, reap PROVE CacheInv'
<1> DEFINE S == {i \in DOMAIN kept : Live(kept[i])}
<1>1. ByRecency(kept) /\ DOMAIN kept = 1..Len(kept) /\ kept' \in Remaining(kept, S)
  BY LenProperties DEF CacheInv, ByRecency, reap
<1>2. S \in SUBSET (1..Len(kept))
  BY <1>1
<1>3. ByRecency(kept') /\ Len(kept') <= Len(kept) /\ \A i \in S : Has(kept', kept[i].key)
  BY <1>1, <1>2, RemainingKeeps
<1>4. ASSUME NEW s \in Sqls, Due(s), Has(kept, s) PROVE Has(kept', s)
  <2>1. PICK i \in At(s) : TRUE
    BY <1>4, HasAt
  <2>2. kept[i].key = s /\ Live(kept[i]) /\ i \in DOMAIN kept
    BY <1>1, <1>4, KeptIsLatest DEF Due
  <2> QED BY <1>3, <2>2
<1> QED BY <1>3, <1>4, DropKeeps DEF reap

\* What is collected is no longer due.
LEMMA CollectKeeps == ASSUME CacheInv, NEW s \in Sqls, Collect(s) PROVE CacheInv'
<1>1. PICK i \in At(s) : kept' = [kept EXCEPT ![i].alive = FALSE]
  BY DEF Collect
<1> DEFINE e == [kept[i] EXCEPT !.alive = FALSE]
<1>2. /\ i \in 1..Len(kept) /\ kept[i] \in CacheEntry /\ kept[i].key = s /\ kept[i] = latest[s]
      /\ ByRecency(kept)
  BY KeptIsLatest DEF CacheInv
<1>3. e \in CacheEntry /\ e.key = s /\ e.alive = FALSE
  BY <1>2 DEF CacheEntry
<1>4. /\ latest' = [latest EXCEPT ![s] = e] /\ kept' = [kept EXCEPT ![i] = e]
      /\ UNCHANGED <<date, since>>
  BY <1>1, <1>2 DEF Collect
<1> HIDE DEF e
<1>5. /\ kept' \in Seq(CacheEntry) /\ Len(kept') = Len(kept)
      /\ \A j \in 1..Len(kept) : kept'[j] = IF j = i THEN e ELSE kept[j]
  BY <1>2, <1>3, <1>4, ExceptSeq DEF ByRecency
<1>6. History'
  BY <1>3, <1>4 DEF CacheInv, History
<1>7. \A j \in 1..Len(kept) : kept'[j].key = kept[j].key
  BY <1>2, <1>3, <1>5
<1>8. ASSUME NEW j \in 1..Len(kept) PROVE kept'[j] = latest'[kept'[j].key]
  <2>1. kept[j] \in CacheEntry /\ kept[j] = latest[kept[j].key]
    BY <1>2, ElementOfSeq DEF ByRecency
  <2>2. CASE j = i
    BY <1>3, <1>4, <1>5, <2>2 DEF CacheInv, History
  <2>3. CASE j # i
    <3>1. kept[j].key # s
      BY <1>2, <2>3, KeysDiffer
    <3> QED BY <1>4, <1>5, <2>1, <2>3, <3>1 DEF CacheInv, History, CacheEntry
  <2> QED BY <2>2, <2>3
<1>9. ByRecency(kept)'
  BY <1>2, <1>4, <1>5, <1>7, <1>8 DEF ByRecency
<1>10. ASSUME NEW o \in Sqls PROVE Missed(o)'
  <2>1. CASE o = s
    <3>1. latest'[s].alive = FALSE
      BY <1>3, <1>4 DEF CacheInv, History
    <3> QED BY <2>1, <3>1 DEF Missed, Due, Live
  <2>2. CASE o # s
    <3>1. latest'[o] = latest[o]
      BY <1>4, <2>2 DEF CacheInv, History
    <3>2. Due(o)' => Due(o)
      BY <1>4, <3>1 DEF Due, Live, Unused, TooOld
    <3>3. Has(kept, o) => Has(kept, o)'
      BY <1>5, <1>7 DEF Has
    <3> QED BY <1>4, <3>2, <3>3 DEF CacheInv, Missed
  <2> QED BY <2>1, <2>2
<1> QED BY <1>5, <1>6, <1>9, <1>10 DEF CacheInv

LEMMA ClearKeeps == ASSUME CacheInv, clear PROVE CacheInv'
<1>1. kept' \in Seq(CacheEntry) /\ Len(kept') = 0
  BY EmptySeq DEF clear
<1>2. \A s \in Sqls : latest'[s] = Off /\ since'[s] = {}
  BY DEF clear
<1>3. History'
  BY <1>2, FS_EmptySet DEF clear, CacheInv, History
<1>4. ByRecency(kept)'
  BY <1>1 DEF ByRecency
<1> QED BY <1>1, <1>2, <1>3, <1>4, QueryCacheAssumption DEF CacheInv, Missed, Due

\* Time makes nothing due.
LEMMA TimeKeeps == ASSUME CacheInv, TimePasses PROVE CacheInv'
<1>1. /\ date \in Nat /\ date' = date + 1 /\ date' \in 0..MaxNow
      /\ UNCHANGED <<kept, latest, since>>
  BY QueryCacheAssumption DEF CacheInv, History, TimePasses
<1>2. ASSUME NEW s \in Sqls PROVE Missed(s)'
  <2>1. Due(s)' => Due(s)
    <3>1. latest[s] # Off => latest[s] \in CacheEntry
      BY DEF CacheInv, History
    <3>2. latest[s] # Off => latest[s].lastUsedAt \in Nat /\ latest[s].createdAt \in Nat
      BY <3>1, QueryCacheAssumption DEF CacheEntry
    <3>3. ttlMs \in Nat \cup {Off} /\ maxAgeMs \in Nat \cup {Off}
      BY QueryCacheAssumption
    <3>4. latest[s] # Off => (Unused(latest[s]) => Unused(latest[s])')
      BY <1>1, <3>2, <3>3 DEF Unused
    <3>5. latest[s] # Off => (TooOld(latest[s]) => TooOld(latest[s])')
      BY <1>1, <3>2, <3>3 DEF TooOld
    <3> QED BY <1>1, <3>4, <3>5 DEF Due, Live
  <2> QED BY <1>1, <2>1 DEF CacheInv, Missed, Has
<1> QED BY <1>1, <1>2 DEF CacheInv, History, ByRecency

LEMMA StepKeeps == ASSUME CacheInv, [CacheNext]_cacheVars PROVE CacheInv'
<1>1. ASSUME NEW s \in Sqls, get(s) PROVE CacheInv'
  BY <1>1, FoundKeeps, NotFoundKeeps DEF get
<1>2. ASSUME NEW s \in Sqls, NEW c \in Compiled, set(s, c) PROVE CacheInv'
  BY <1>2, SetKeeps
<1>3. ASSUME NEW s \in Sqls, Collect(s) PROVE CacheInv'
  BY <1>3, CollectKeeps
<1>4. CASE UNCHANGED cacheVars
  BY <1>4 DEF cacheVars, CacheInv, History, ByRecency, Missed, Due, Live, Unused, TooOld, Has
<1> QED BY <1>1, <1>2, <1>3, <1>4, ClearKeeps, ReapKeeps, TimeKeeps DEF CacheNext

-----------------------------------------------------------------------------

LEMMA InvariantImplies == CacheInv => LeastRecentlyUsed
<1> SUFFICES ASSUME CacheInv PROVE LeastRecentlyUsed
  OBVIOUS
<1>1. ASSUME NEW s \in Sqls, NEW e \in Found(s) PROVE Due(s) /\ e.compiled = latest[s].compiled
  <2>1. PICK i \in At(s) : e = kept[i] /\ Live(kept[i])
    BY DEF Found
  <2> QED BY <2>1, KeptIsLatest DEF Due
<1>2. ASSUME NEW s \in Sqls, Due(s), Cardinality(since[s]) < maxSize PROVE Found(s) # {}
  <2>1. Cardinality(since[s]) \in Nat
    BY FS_CardinalityType DEF CacheInv, History
  <2>2. Has(kept, s)
    BY <1>2, <2>1, QueryCacheAssumption DEF CacheInv, Missed
  <2>3. PICK i \in At(s) : TRUE
    BY <2>2, HasAt
  <2>4. Live(kept[i])
    BY <1>2, KeptIsLatest DEF Due
  <2> QED BY <2>4 DEF Found
<1> QED BY <1>1, <1>2 DEF LeastRecentlyUsed, CacheInv

\* For any texts, queries, limits and size: QueryCache finds only what was last stored
\* under a text, is recent enough and not collected, and of that it misses only what
\* maxSize others were stored or found after.
THEOREM QueryCacheLeastRecentlyUsed == CacheSpec => []LeastRecentlyUsed
  BY InitKeeps, StepKeeps, InvariantImplies, PTL DEF CacheSpec
=============================================================================
