------------------------ MODULE ConnectionPoolProofs ------------------------
(***************************************************************************)
(* The safety of ConnectionPool, for every number of clients, connections  *)
(* and drains and every setting of the options. Inv is the inductive       *)
(* invariant: the properties of ConnectionPool, and what ties them to the  *)
(* waiter queue and to the drain phases.                                   *)
(***************************************************************************)
EXTENDS ConnectionPool, TLAPS, SequenceTheorems, FiniteSetTheorems

-----------------------------------------------------------------------------
(* Sequences.                                                              *)

LEMMA IntervalLemma ==
  ASSUME NEW m \in Nat, NEW n \in Nat, 1..m = 1..n
  PROVE  m = n
<1>1. \A x \in Nat : x \in 1..m <=> x \in 1..n
  OBVIOUS
<1>2. \A x \in Nat : (1 <= x /\ x <= m) <=> (1 <= x /\ x <= n)
  BY <1>1
<1>3. (1 <= m => m <= n) /\ (1 <= n => n <= m)
  BY <1>2
<1> QED BY <1>3

\* Splicing one position out of a sequence leaves the other elements, once each.
LEMMA SpliceLemma ==
  ASSUME NEW S, NEW s \in Seq(S), NEW p \in 1..Len(s)
  PROVE  /\ Splice(s, p) \in Seq(S)
         /\ Len(Splice(s, p)) = Len(s) - 1
         /\ DOMAIN Splice(s, p) = 1..(Len(s) - 1)
         /\ Elems(Splice(s, p)) \subseteq Elems(s)
         /\ IsInjective(s)
              => /\ IsInjective(Splice(s, p))
                 /\ s[p] \notin Elems(Splice(s, p))
<1> DEFINE t == Splice(s, p)
           n == Len(s) - 1
<1>1. Len(s) \in Nat /\ DOMAIN s = 1..Len(s) /\ n \in Nat
  BY LenProperties
<1>2. t = [j \in 1..n |-> IF j < p THEN s[j] ELSE s[j + 1]]
  BY DEF Splice
<1>3. \A j \in 1..n : (IF j < p THEN s[j] ELSE s[j + 1]) \in S
  BY <1>1, ElementOfSeq
<1>4. t \in [1..n -> S]
  BY <1>2, <1>3
<1>5. t \in Seq(S) /\ Len(t) = n /\ DOMAIN t = 1..n
  <2>1. t \in Seq(S)
    BY <1>1, <1>4, SeqDef
  <2>2. DOMAIN t = 1..n
    BY <1>4
  <2>3. Len(t) \in Nat /\ DOMAIN t = 1..Len(t)
    BY <2>1, LenProperties
  <2>4. Len(t) = n
    BY <1>1, <2>2, <2>3, IntervalLemma
  <2> QED BY <2>1, <2>2, <2>4
<1>6. Elems(t) \subseteq Elems(s)
  BY <1>1, <1>2, <1>5 DEF Elems
<1>7. ASSUME IsInjective(s)
      PROVE  /\ IsInjective(t)
             /\ s[p] \notin Elems(t)
  <2>1. \A j \in 1..n : \E m \in 1..Len(s) :
           /\ m # p
           /\ m = (IF j < p THEN j ELSE j + 1)
           /\ t[j] = s[m]
    BY <1>1, <1>2
  <2>2. \A i, j \in 1..n : t[i] = t[j] => i = j
    BY <1>1, <1>7, <2>1 DEF IsInjective
  <2>3. s[p] \notin Elems(t)
    BY <1>1, <1>5, <1>7, <2>1 DEF Elems, IsInjective
  <2> QED BY <1>5, <2>2, <2>3 DEF IsInjective
<1> QED BY <1>5, <1>6, <1>7

\* What the first n pops leave in the idle list.
LEMMA PrefixLemma ==
  ASSUME NEW S, NEW s \in Seq(S), NEW p \in 1..Len(s)
  PROVE  /\ SubSeq(s, 1, p - 1) \in Seq(S)
         /\ Len(SubSeq(s, 1, p - 1)) = p - 1
         /\ DOMAIN SubSeq(s, 1, p - 1) = 1..(p - 1)
         /\ \A i \in 1..(p - 1) : SubSeq(s, 1, p - 1)[i] = s[i]
         /\ Elems(SubSeq(s, 1, p - 1)) \subseteq Elems(s)
<1>1. Len(s) \in Nat /\ DOMAIN s = 1..Len(s)
  BY LenProperties
<1>2. \A i \in 1..(p - 1) : s[i] \in S
  BY <1>1, ElementOfSeq
<1>3. /\ SubSeq(s, 1, p - 1) \in Seq(S)
      /\ Len(SubSeq(s, 1, p - 1)) = p - 1
      /\ \A i \in 1..(p - 1) : SubSeq(s, 1, p - 1)[i] = s[i]
  BY <1>1, <1>2, SubSeqProperties
<1>4. DOMAIN SubSeq(s, 1, p - 1) = 1..(p - 1)
  BY <1>3, LenProperties
<1> QED BY <1>1, <1>3, <1>4 DEF Elems

\* Appending an element that is not there yet.
LEMMA AppendLemma ==
  ASSUME NEW S, NEW s \in Seq(S), NEW e \in S
  PROVE  /\ Append(s, e) \in Seq(S)
         /\ DOMAIN Append(s, e) = 1..(Len(s) + 1)
         /\ Elems(Append(s, e)) = Elems(s) \cup {e}
         /\ e \notin Elems(s) /\ IsInjective(s)
              => IsInjective(Append(s, e))
<1>1. Len(s) \in Nat /\ DOMAIN s = 1..Len(s)
  BY LenProperties
<1>2. /\ Append(s, e) \in Seq(S)
      /\ Len(Append(s, e)) = Len(s) + 1
      /\ \A i \in 1..Len(s) : Append(s, e)[i] = s[i]
      /\ Append(s, e)[Len(s) + 1] = e
  BY AppendProperties
<1>3. DOMAIN Append(s, e) = 1..(Len(s) + 1)
  BY <1>2, LenProperties
<1>4. Elems(Append(s, e)) = Elems(s) \cup {e}
  BY <1>1, <1>2, <1>3 DEF Elems
<1> QED BY <1>1, <1>2, <1>3, <1>4 DEF Elems, IsInjective

LEMMA EmptyLemma == /\ \A S : <<>> \in Seq(S)
                    /\ Elems(<<>>) = {}
                    /\ DOMAIN <<>> = {}
                    /\ Len(<<>>) = 0
                    /\ IsInjective(<<>>)
BY DEF Elems, IsInjective
-----------------------------------------------------------------------------
(* The inductive invariant.                                                *)

\* A connection that does not exist yet is nowhere and unused.
Uncreated ==
  \A c \in Conns : state[c] = "NONE" =>
     c \notin Open /\ c \notin Held /\ useCount[c] = 0

\* Waiters are distinct, hold nothing, and are gone once a drain was called.
WaitersOK ==
  /\ IsInjective(queue)
  /\ \A i \in DOMAIN queue : hold[queue[i]] = NoConn
  /\ drained => queue = <<>>

DrainsOK == \A d \in Drains : phase[d] # "uncalled" => drained

\* Counting what clients still hold too: after a drain they hand back connections
\* that the pool has already let go of.
Bounded ==
  /\ IsFiniteSet(Open \cup Held)
  /\ Cardinality(Open \cup Held) <= Max

Inv ==
  /\ TypeOK
  /\ Uncreated
  /\ WaitersOK
  /\ DrainsOK
  /\ NoSharing
  /\ NoLeak
  /\ NoIdleWhileWaiting
  /\ Bounded

LEMMA InitInv == Init => Inv
<1> SUFFICES ASSUME Init PROVE Inv
  OBVIOUS
<1> USE EmptyLemma DEF Init
<1>1. Open = {} /\ Held = {}
  BY DEF Open, Held
<1>2. TypeOK
  <2>1. 0 \in 0..UseLimit
    BY PoolAssumption DEF UseLimit, UseCap
  <2>2. "NONE" \in States /\ "uncalled" \in Phases
    BY DEF States, Phases
  <2> QED BY <2>1, <2>2 DEF TypeOK
<1>3. Uncreated
  BY <1>1 DEF Uncreated
<1>4. WaitersOK /\ DrainsOK /\ NoIdleWhileWaiting
  BY DEF WaitersOK, DrainsOK, NoIdleWhileWaiting
<1>5. NoSharing
  BY DEF NoSharing
<1>6. NoLeak
  BY <1>1 DEF NoLeak
<1>7. Bounded
  BY <1>1, FS_EmptySet, PoolAssumption DEF Bounded
<1> QED BY <1>2, <1>3, <1>4, <1>5, <1>6, <1>7 DEF Inv

\* Nothing is out but what clients hold once nobody can be given anything new.
LEMMA BoundedShrinks ==
  ASSUME Bounded, Open' \cup Held' \subseteq Open \cup Held
  PROVE  Bounded'
<1>1. /\ IsFiniteSet(Open' \cup Held')
      /\ Cardinality(Open' \cup Held') <= Cardinality(Open \cup Held)
  BY FS_Subset DEF Bounded
<1>2. Cardinality(Open' \cup Held') \in Nat /\ Cardinality(Open \cup Held) \in Nat
  BY <1>1, FS_CardinalityType DEF Bounded
<1> QED BY <1>1, <1>2, PoolAssumption DEF Bounded

-----------------------------------------------------------------------------
(* What the clients hold.                                                  *)

LEMMA HoldTake ==
  ASSUME hold \in [Clients -> Conns \cup {NoConn}],
         NEW k \in Clients, NEW c \in Conns,
         hold[k] = NoConn, hold' = [hold EXCEPT ![k] = c]
  PROVE  hold' \in [Clients -> Conns \cup {NoConn}] /\ Held' = Held \cup {c}
<1>1. hold' \in [Clients -> Conns \cup {NoConn}]
  OBVIOUS
<1>2. \A j \in Clients : hold'[j] = IF j = k THEN c ELSE hold[j]
  OBVIOUS
<1>3. c # NoConn
  BY PoolAssumption
<1> QED BY <1>1, <1>2, <1>3 DEF Held

LEMMA HoldDrop ==
  ASSUME hold \in [Clients -> Conns \cup {NoConn}],
         NEW k \in Clients, hold[k] # NoConn,
         \A i, j \in Clients : hold[i] = hold[j] /\ hold[i] # NoConn => i = j,
         hold' = [hold EXCEPT ![k] = NoConn]
  PROVE  hold' \in [Clients -> Conns \cup {NoConn}] /\ Held' = Held \ {hold[k]}
<1>1. hold' \in [Clients -> Conns \cup {NoConn}]
  OBVIOUS
<1>2. \A j \in Clients : hold'[j] = IF j = k THEN NoConn ELSE hold[j]
  OBVIOUS
<1>3. \A j \in Clients : hold[j] = hold[k] => j = k
  OBVIOUS
<1> QED BY <1>1, <1>2, <1>3 DEF Held

LEMMA HoldPass ==
  ASSUME hold \in [Clients -> Conns \cup {NoConn}],
         NEW k \in Clients, NEW w \in Clients,
         hold[k] # NoConn, hold[w] = NoConn,
         hold' = [hold EXCEPT ![k] = NoConn, ![w] = hold[k]]
  PROVE  hold' \in [Clients -> Conns \cup {NoConn}] /\ Held' = Held
<1>1. hold[k] \in Conns /\ w # k
  OBVIOUS
<1>2. \A j \in Clients : hold'[j] = IF j = w THEN hold[k]
                                     ELSE IF j = k THEN NoConn ELSE hold[j]
  BY <1>1
<1>3. hold' \in [Clients -> Conns \cup {NoConn}]
  BY <1>1
<1>4. Held' \subseteq Held
  BY <1>2 DEF Held
<1>5. ASSUME NEW j \in Clients, hold[j] # NoConn
      PROVE  \E i \in Clients : hold'[i] = hold[j]
  <2>1. CASE j = k
    BY <1>2, <2>1
  <2>2. CASE j # k
    BY <1>2, <1>5, <2>2
  <2> QED BY <2>1, <2>2
<1> QED BY <1>3, <1>4, <1>5 DEF Held

\* markAcquired() keeps the types, and the use limit when the connection was not
\* due for recycling.
LEMMA MarkAcquiredType ==
  ASSUME TypeOK, NEW c \in Conns, NEW dead, MarkAcquired(c, dead),
         MaxUseCount > 0 => useCount[c] < MaxUseCount
  PROVE  /\ state' \in [Conns -> States]
         /\ useCount' \in [Conns -> 0..UseLimit]
         /\ aged' \in [Conns -> BOOLEAN]
         /\ stale' \in [Conns -> BOOLEAN]
<1>1. state' \in [Conns -> States]
  BY DEF TypeOK, States, MarkAcquired, SetState
<1>2. Bump(useCount[c]) \in 0..UseLimit
  BY PoolAssumption DEF TypeOK, Bump, UseLimit, UseCap
<1>3. useCount' \in [Conns -> 0..UseLimit]
  BY <1>2 DEF TypeOK, MarkAcquired
<1>4. aged' \in [Conns -> BOOLEAN] /\ stale' \in [Conns -> BOOLEAN]
  BY DEF TypeOK, MarkAcquired
<1> QED BY <1>1, <1>3, <1>4

LEMMA MarkAllDeadType ==
  ASSUME TypeOK, NEW dead, MarkAllDead(dead)
  PROVE  /\ state' \in [Conns -> States]
         /\ useCount' \in [Conns -> 0..UseLimit]
         /\ aged' \in [Conns -> BOOLEAN]
         /\ stale' \in [Conns -> BOOLEAN]
BY DEF TypeOK, States, MarkAllDead

-----------------------------------------------------------------------------
(* acquire()                                                               *)

LEMMA AcquireIdleInv ==
  ASSUME Inv, NEW k \in Clients, AcquireIdle(k)
  PROVE  Inv'
<1> USE DEF Inv
<1>1. PICK p \in DOMAIN idle :
        /\ TopUsable(p)
        /\ idle' = SubSeq(idle, 1, p - 1)
        /\ acquired' = acquired \cup {idle[p]}
        /\ hold' = [hold EXCEPT ![k] = idle[p]]
        /\ MarkAcquired(idle[p], {idle[j] : j \in (p + 1)..Len(idle)})
        /\ destroyed' = destroyed + (Len(idle) - p)
  BY DEF AcquireIdle
<1> DEFINE c == idle[p]
<1>2. /\ UNCHANGED <<queue, drained, created, phase>>
      /\ ~drained /\ hold[k] = NoConn /\ ~Waiting(k)
  BY DEF AcquireIdle, CanAcquire
<1>3. idle \in Seq(Conns) /\ Len(idle) \in Nat /\ DOMAIN idle = 1..Len(idle)
  BY LenProperties DEF TypeOK
<1>4. p \in 1..Len(idle) /\ c \in Conns
  BY <1>1, <1>3, ElementOfSeq
<1>5. /\ idle' \in Seq(Conns)
      /\ DOMAIN idle' = 1..(p - 1)
      /\ \A i \in 1..(p - 1) : idle'[i] = idle[i]
      /\ Elems(idle)' \subseteq Elems(idle)
  BY <1>1, <1>3, <1>4, PrefixLemma
<1>6. c \notin Elems(idle)'
  BY <1>3, <1>4, <1>5 DEF NoSharing, Elems, IsInjective
<1>7. hold' \in [Clients -> Conns \cup {NoConn}] /\ Held' = Held \cup {c}
  BY <1>1, <1>2, <1>4, HoldTake DEF TypeOK
<1>8. c \in Elems(idle)
  BY <1>1 DEF Elems
<1>9. ~DrainDone
  BY <1>2 DEF DrainDone, DrainsOK, Phases
<1>10. TypeOK'
  <2>1. MaxUseCount > 0 => useCount[c] < MaxUseCount
    BY <1>1, <1>4, PoolAssumption DEF TopUsable, ShouldRecycle, TypeOK, UseLimit, UseCap
  <2>2. /\ state' \in [Conns -> States]
        /\ useCount' \in [Conns -> 0..UseLimit]
        /\ aged' \in [Conns -> BOOLEAN]
        /\ stale' \in [Conns -> BOOLEAN]
    BY <1>1, <1>4, <2>1, MarkAcquiredType
  <2>3. destroyed' \in Nat
    BY <1>1, <1>3, <1>4 DEF TypeOK
  <2>4. acquired' \in SUBSET Conns
    BY <1>1, <1>4 DEF TypeOK
  <2> QED BY <1>2, <1>5, <1>7, <2>2, <2>3, <2>4 DEF TypeOK
<1>11. Uncreated'
  <2>1. state[c] # "NONE"
    BY <1>4, <1>8 DEF Uncreated, Open
  <2>2. ASSUME NEW x \in Conns, state'[x] = "NONE"
        PROVE  x # c /\ state[x] = "NONE" /\ useCount'[x] = useCount[x]
    BY <1>1, <1>4, <2>2 DEF MarkAcquired, SetState, TypeOK
  <2>3. Open' \subseteq Open \cup {c}
    BY <1>1, <1>5 DEF Open
  <2> QED BY <1>7, <2>2, <2>3 DEF Uncreated
<1>12. WaitersOK'
  <2>1. \A i \in DOMAIN queue : queue[i] # k /\ queue[i] \in Clients
    BY <1>2, LenProperties, ElementOfSeq DEF Waiting, Elems, TypeOK
  <2>2. \A i \in DOMAIN queue : hold'[queue[i]] = NoConn
    BY <1>1, <2>1 DEF WaitersOK, TypeOK
  <2> QED BY <1>2, <2>2 DEF WaitersOK
<1>13. DrainsOK'
  BY <1>2 DEF DrainsOK
<1>14. NoSharing'
  <2>1. IsInjective(idle')
    BY <1>3, <1>4, <1>5 DEF NoSharing, IsInjective
  <2>2. Elems(idle)' \cap acquired' = {}
    BY <1>1, <1>5, <1>6 DEF NoSharing
  <2>3. Elems(idle)' \cap Held' = {}
    BY <1>5, <1>6, <1>7 DEF NoSharing
  <2>4. c \notin Held
    BY <1>8 DEF NoSharing
  <2>5. \A i, j \in Clients : hold'[i] = hold'[j] /\ hold'[i] # NoConn => i = j
    BY <1>1, <1>2, <2>4 DEF NoSharing, Held, TypeOK
  <2> QED BY <2>1, <2>2, <2>3, <2>5 DEF NoSharing
<1>15. NoLeak'
  <2>1. acquired = Held /\ \A x \in acquired : state[x] = "ACQUIRED"
    BY <1>9 DEF NoLeak
  <2>2. acquired' = Held'
    BY <1>1, <1>7, <2>1
  <2>3. \A x \in acquired : x \notin Elems(idle)
    BY DEF NoSharing
  <2> DEFINE popped == {idle[j] : j \in (p + 1)..Len(idle)}
  <2>4. popped \subseteq Elems(idle)
    BY <1>3, <1>4 DEF Elems
  <2>5. \A x \in Conns : state'[x] = IF x = c THEN "ACQUIRED"
                                  ELSE IF x \in popped THEN "DEAD" ELSE state[x]
    BY <1>1 DEF MarkAcquired, SetState
  <2> HIDE DEF popped
  <2>6. \A x \in acquired' : state'[x] = "ACQUIRED"
    BY <1>1, <1>4, <2>1, <2>3, <2>4, <2>5 DEF TypeOK
  <2> QED BY <2>2, <2>6 DEF NoLeak
<1>16. NoIdleWhileWaiting'
  BY <1>2, <1>1, <1>3, EmptyLemma DEF NoIdleWhileWaiting
<1>17. Bounded'
  <2>1. Open' \cup Held' \subseteq Open \cup Held
    BY <1>1, <1>5, <1>7, <1>8 DEF Open
  <2> QED BY <2>1, BoundedShrinks
<1> QED BY <1>10, <1>11, <1>12, <1>13, <1>14, <1>15, <1>16, <1>17

LEMMA AcquireNewInv ==
  ASSUME Inv, NEW k \in Clients, AcquireNew(k)
  PROVE  Inv'
<1> USE DEF Inv
<1>1. PICK c \in Conns :
        /\ state[c] = "NONE"
        /\ acquired' = acquired \cup {c}
        /\ hold' = [hold EXCEPT ![k] = c]
        /\ MarkAcquired(c, Elems(idle))
  BY DEF AcquireNew
<1>2. /\ UNCHANGED <<queue, drained, phase>>
      /\ idle' = <<>>
      /\ created' = created + 1
      /\ destroyed' = destroyed + Len(idle)
      /\ ~drained /\ hold[k] = NoConn /\ ~Waiting(k)
      /\ HasRoom
  BY DEF AcquireNew, CanAcquire
<1>3. hold' \in [Clients -> Conns \cup {NoConn}] /\ Held' = Held \cup {c}
  BY <1>1, <1>2, HoldTake DEF TypeOK
<1>4. ~DrainDone
  BY <1>2 DEF DrainDone, DrainsOK, Phases
<1>5. Elems(idle)' = {} /\ DOMAIN idle' = {}
  BY <1>2, EmptyLemma
<1>6. c \notin Held /\ useCount[c] = 0
  BY <1>1 DEF Uncreated
<1>7. acquired = Held /\ \A x \in acquired : state[x] = "ACQUIRED"
  BY <1>4 DEF NoLeak
<1>8. TypeOK'
  <2>1. /\ state' \in [Conns -> States]
        /\ useCount' \in [Conns -> 0..UseLimit]
        /\ aged' \in [Conns -> BOOLEAN]
        /\ stale' \in [Conns -> BOOLEAN]
    BY <1>1, <1>6, MarkAcquiredType
  <2>2. destroyed' \in Nat /\ created' \in Nat
    BY <1>2, LenProperties DEF TypeOK
  <2>3. idle' \in Seq(Conns)
    BY <1>2, EmptyLemma
  <2> QED BY <1>1, <1>2, <1>3, <2>1, <2>2, <2>3 DEF TypeOK
<1>9. Uncreated'
  <2>1. ASSUME NEW x \in Conns, state'[x] = "NONE"
        PROVE  x # c /\ state[x] = "NONE" /\ useCount'[x] = useCount[x]
    BY <1>1, <2>1 DEF MarkAcquired, SetState, TypeOK
  <2>2. Open' \subseteq Open \cup {c}
    BY <1>1, <1>5 DEF Open
  <2> QED BY <1>3, <2>1, <2>2 DEF Uncreated
<1>10. WaitersOK'
  <2>1. \A i \in DOMAIN queue : queue[i] # k /\ queue[i] \in Clients
    BY <1>2, LenProperties, ElementOfSeq DEF Waiting, Elems, TypeOK
  <2>2. \A i \in DOMAIN queue : hold'[queue[i]] = NoConn
    BY <1>1, <2>1 DEF WaitersOK, TypeOK
  <2> QED BY <1>2, <2>2 DEF WaitersOK
<1>11. DrainsOK'
  BY <1>2 DEF DrainsOK
<1>12. NoSharing'
  <2>1. \A i, j \in Clients : hold'[i] = hold'[j] /\ hold'[i] # NoConn => i = j
    BY <1>1, <1>2, <1>6 DEF NoSharing, Held, TypeOK
  <2>2. IsInjective(idle')
    BY <1>2, EmptyLemma
  <2> QED BY <1>5, <2>1, <2>2 DEF NoSharing
<1>13. NoLeak'
  <2>1. \A x \in acquired : x \notin Elems(idle)
    BY DEF NoSharing
  <2>2. \A x \in Conns : state'[x] = IF x = c THEN "ACQUIRED"
                                  ELSE IF x \in Elems(idle) THEN "DEAD" ELSE state[x]
    BY <1>1 DEF MarkAcquired, SetState
  <2>3. \A x \in acquired' : state'[x] = "ACQUIRED"
    BY <1>1, <1>7, <2>1, <2>2 DEF TypeOK
  <2> QED BY <1>1, <1>3, <1>7, <2>3 DEF NoLeak
<1>14. NoIdleWhileWaiting'
  BY <1>2 DEF NoIdleWhileWaiting
<1>15. Bounded'
  <2>1. Open' \cup Held' = acquired \cup {c}
    BY <1>1, <1>3, <1>5, <1>7 DEF Open
  <2>2. IsFiniteSet(acquired)
    BY FS_Subset DEF Bounded, Open
  <2>3. /\ IsFiniteSet(acquired \cup {c})
        /\ Cardinality(acquired \cup {c}) <= Cardinality(acquired) + 1
    <3>1. /\ IsFiniteSet(acquired \cup {c})
          /\ Cardinality(acquired \cup {c}) =
               IF c \in acquired THEN Cardinality(acquired) ELSE Cardinality(acquired) + 1
      BY <2>2, FS_AddElement
    <3>2. Cardinality(acquired) \in Nat
      BY <2>2, FS_CardinalityType
    <3> QED BY <3>1, <3>2
  <2>4. Cardinality(acquired \cup {c}) <= Max
    BY <1>2, <2>2, <2>3, FS_CardinalityType, PoolAssumption DEF HasRoom
  <2> QED BY <2>1, <2>3, <2>4 DEF Bounded
<1> QED BY <1>8, <1>9, <1>10, <1>11, <1>12, <1>13, <1>14, <1>15

\* The idle list is popped empty, then the request is queued or refused.
LEMMA AcquireQueuedInv ==
  ASSUME Inv, NEW k \in Clients, AcquireQueued(k)
  PROVE  Inv'
<1> USE DEF Inv
<1>1. /\ queue' = IF Len(queue) < MaxQueue THEN Append(queue, k) ELSE queue
      /\ idle' = <<>>
      /\ MarkAllDead(Elems(idle))
      /\ destroyed' = destroyed + Len(idle)
      /\ UNCHANGED <<acquired, drained, created, hold, phase>>
      /\ ~drained /\ hold[k] = NoConn /\ ~Waiting(k)
  BY DEF AcquireQueued, CanAcquire
<1>2. Elems(idle)' = {} /\ DOMAIN idle' = {} /\ idle' \in Seq(Conns)
  BY <1>1, EmptyLemma
<1>3. Held' = Held
  BY <1>1 DEF Held
<1>4. /\ Append(queue, k) \in Seq(Clients)
      /\ Elems(Append(queue, k)) = Elems(queue) \cup {k}
      /\ IsInjective(Append(queue, k))
  BY <1>1, AppendLemma DEF TypeOK, WaitersOK, Waiting
<1>5. \A x \in Conns : state'[x] = IF x \in Elems(idle) THEN "DEAD" ELSE state[x]
  BY <1>1 DEF MarkAllDead
<1>6. TypeOK'
  <2>1. /\ state' \in [Conns -> States]
        /\ useCount' \in [Conns -> 0..UseLimit]
        /\ aged' \in [Conns -> BOOLEAN]
        /\ stale' \in [Conns -> BOOLEAN]
    BY <1>1, MarkAllDeadType
  <2>2. destroyed' \in Nat
    BY <1>1, LenProperties DEF TypeOK
  <2> QED BY <1>1, <1>2, <1>4, <2>1, <2>2 DEF TypeOK
<1>7. Uncreated'
  BY <1>1, <1>2, <1>3, <1>5 DEF Uncreated, Open, MarkAllDead
<1>8. WaitersOK'
  <2>1. ASSUME NEW i \in DOMAIN queue'
        PROVE  hold[queue'[i]] = NoConn
    <3>1. queue'[i] \in Elems(queue) \cup {k}
      BY <1>1, <1>4 DEF Elems
    <3>2. \A x \in Elems(queue) : hold[x] = NoConn
      BY DEF Elems, WaitersOK
    <3> QED BY <1>1, <3>1, <3>2
  <2> QED BY <1>1, <1>4, <2>1 DEF WaitersOK
<1>9. DrainsOK'
  BY <1>1 DEF DrainsOK
<1>10. NoSharing'
  <2>1. IsInjective(idle')
    BY <1>1, EmptyLemma
  <2> QED BY <1>1, <1>2, <2>1 DEF NoSharing
<1>11. NoLeak'
  <2>1. \A x \in acquired : x \notin Elems(idle) /\ x \in Conns
    BY DEF NoSharing, TypeOK
  <2> QED BY <1>1, <1>3, <1>5, <2>1 DEF NoLeak, DrainDone
<1>12. NoIdleWhileWaiting'
  BY <1>1 DEF NoIdleWhileWaiting
<1>13. Bounded'
  BY <1>1, <1>2, <1>3, BoundedShrinks DEF Open
<1> QED BY <1>6, <1>7, <1>8, <1>9, <1>10, <1>11, <1>12, <1>13

LEMMA AcquireTimeoutInv ==
  ASSUME Inv, NEW k \in Clients, AcquireTimeout(k)
  PROVE  Inv'
<1> USE DEF Inv
<1>1. PICK p \in DOMAIN queue : queue[p] = k /\ queue' = Splice(queue, p)
  BY DEF AcquireTimeout
<1>2. UNCHANGED <<connVars, idle, acquired, drained, statVars, hold, phase>>
  BY DEF AcquireTimeout
<1>3. queue \in Seq(Clients) /\ DOMAIN queue = 1..Len(queue) /\ Len(queue) \in Nat
  BY LenProperties DEF TypeOK
<1>4. /\ queue' \in Seq(Clients)
      /\ Elems(queue') \subseteq Elems(queue)
      /\ IsInjective(queue')
  <2>1. IsInjective(queue)
    BY DEF WaitersOK
  <2> QED BY <1>1, <1>3, <2>1, SpliceLemma
<1>5. Open' = Open /\ Held' = Held
  BY <1>2 DEF Open, Held, Elems
<1>6. TypeOK'
  BY <1>2, <1>4 DEF TypeOK, connVars, statVars
<1>7. Uncreated'
  BY <1>2, <1>5 DEF Uncreated, connVars
<1>8. WaitersOK'
  <2>1. \A x \in Elems(queue) : hold[x] = NoConn
    BY DEF Elems, WaitersOK
  <2>2. \A i \in DOMAIN queue' : queue'[i] \in Elems(queue')
    BY DEF Elems
  <2>3. ~drained
    BY <1>1, EmptyLemma DEF WaitersOK
  <2> QED BY <1>2, <1>4, <2>1, <2>2, <2>3 DEF WaitersOK
<1>9. DrainsOK' /\ NoSharing' /\ NoLeak'
  BY <1>2, <1>5 DEF DrainsOK, NoSharing, NoLeak, DrainDone, Elems, connVars
<1>10. NoIdleWhileWaiting'
  BY <1>1, <1>2, EmptyLemma DEF NoIdleWhileWaiting
<1>11. Bounded'
  BY <1>5 DEF Bounded
<1> QED BY <1>6, <1>7, <1>8, <1>9, <1>10, <1>11

-----------------------------------------------------------------------------
(* release()                                                               *)

LEMMA ReleaseRecycleInv ==
  ASSUME Inv, NEW k \in Clients, ReleaseRecycle(k)
  PROVE  Inv'
<1> USE DEF Inv
<1> DEFINE c == hold[k]
<1>1. /\ c # NoConn
      /\ MarkAllDead({c})
      /\ acquired' = acquired \ {c}
      /\ destroyed' = destroyed + 1
      /\ hold' = [hold EXCEPT ![k] = NoConn]
      /\ UNCHANGED <<idle, queue, drained, created, phase>>
  BY DEF ReleaseRecycle, StillOut
<1>2. c \in Conns /\ c \in Held
  BY <1>1 DEF TypeOK, Held
<1>3. hold' \in [Clients -> Conns \cup {NoConn}] /\ Held' = Held \ {c}
  BY <1>1, HoldDrop DEF TypeOK, NoSharing
<1>4. \A x \in Conns : state'[x] = IF x = c THEN "DEAD" ELSE state[x]
  BY <1>1 DEF MarkAllDead
<1>5. Elems(idle)' = Elems(idle)
  BY <1>1 DEF Elems
<1>6. TypeOK'
  <2>1. /\ state' \in [Conns -> States]
        /\ useCount' \in [Conns -> 0..UseLimit]
        /\ aged' \in [Conns -> BOOLEAN]
        /\ stale' \in [Conns -> BOOLEAN]
    BY <1>1, MarkAllDeadType
  <2> QED BY <1>1, <1>3, <2>1 DEF TypeOK
<1>7. Uncreated'
  BY <1>1, <1>3, <1>4, <1>5 DEF Uncreated, Open, MarkAllDead
<1>8. WaitersOK'
  BY <1>1, LenProperties, ElementOfSeq DEF WaitersOK, TypeOK
<1>9. DrainsOK' /\ NoIdleWhileWaiting'
  BY <1>1 DEF DrainsOK, NoIdleWhileWaiting
<1>10. NoSharing'
  <2>1. \A i, j \in Clients : hold'[i] = hold'[j] /\ hold'[i] # NoConn => i = j
    BY <1>1 DEF NoSharing, TypeOK
  <2> QED BY <1>1, <1>3, <1>5, <2>1 DEF NoSharing
<1>11. NoLeak'
  <2>1. CASE DrainDone
    BY <1>1, <2>1 DEF NoLeak, DrainDone
  <2>2. CASE ~DrainDone
    BY <1>1, <1>3, <1>4, <2>2 DEF NoLeak, TypeOK
  <2> QED BY <2>1, <2>2
<1>12. Bounded'
  BY <1>1, <1>3, <1>5, BoundedShrinks DEF Open
<1> QED BY <1>6, <1>7, <1>8, <1>9, <1>10, <1>11, <1>12

LEMMA ReleaseHandOffInv ==
  ASSUME Inv, NEW k \in Clients, ReleaseHandOff(k)
  PROVE  Inv'
<1> USE DEF Inv
<1> DEFINE c == hold[k]
           w == queue[1]
<1>1. /\ c # NoConn
      /\ ~ShouldRecycle(c)
      /\ queue # <<>>
      /\ MarkAcquired(c, {})
      /\ acquired' = acquired \cup {c}
      /\ hold' = [hold EXCEPT ![k] = NoConn, ![w] = c]
      /\ queue' = Splice(queue, 1)
      /\ UNCHANGED <<idle, drained, statVars, phase>>
  BY DEF ReleaseHandOff, NobodyWaits, ServedWaiter
<1>2. /\ queue \in Seq(Clients) /\ DOMAIN queue = 1..Len(queue)
      /\ Len(queue) \in Nat /\ 1 \in 1..Len(queue)
  BY <1>1, LenProperties, EmptySeq DEF TypeOK
<1>3. w \in Clients /\ hold[w] = NoConn
  BY <1>2, ElementOfSeq DEF WaitersOK
<1>4. /\ queue' \in Seq(Clients)
      /\ Elems(queue') \subseteq Elems(queue)
      /\ w \notin Elems(queue')
      /\ IsInjective(queue')
  <2>1. IsInjective(queue)
    BY DEF WaitersOK
  <2> QED BY <1>1, <1>2, <2>1, SpliceLemma
<1>5. c \in Conns /\ c \in Held
  BY <1>1 DEF TypeOK, Held
<1>6. hold' \in [Clients -> Conns \cup {NoConn}] /\ Held' = Held
  BY <1>1, <1>3, HoldPass DEF TypeOK
<1>7. ~drained
  BY <1>1 DEF WaitersOK
<1>8. ~DrainDone /\ ~DrainDone'
  BY <1>1, <1>7 DEF DrainDone, DrainsOK
<1>9. acquired = Held /\ acquired' = acquired
  BY <1>1, <1>5, <1>8 DEF NoLeak
<1>10. \A x \in Conns : state'[x] = IF x = c THEN "ACQUIRED" ELSE state[x]
  BY <1>1 DEF MarkAcquired, SetState
<1>11. Elems(idle)' = Elems(idle)
  BY <1>1 DEF Elems
<1>12. TypeOK'
  <2>1. MaxUseCount > 0 => useCount[c] < MaxUseCount
    BY <1>1, <1>5, PoolAssumption DEF ShouldRecycle, TypeOK, UseLimit, UseCap
  <2>2. /\ state' \in [Conns -> States]
        /\ useCount' \in [Conns -> 0..UseLimit]
        /\ aged' \in [Conns -> BOOLEAN]
        /\ stale' \in [Conns -> BOOLEAN]
    BY <1>1, <1>5, <2>1, MarkAcquiredType
  <2> QED BY <1>1, <1>4, <1>6, <1>9, <2>2 DEF TypeOK, statVars
<1>13. Uncreated'
  <2>1. ASSUME NEW x \in Conns, state'[x] = "NONE"
        PROVE  x # c /\ state[x] = "NONE" /\ useCount'[x] = useCount[x]
    BY <1>1, <1>10, <2>1 DEF MarkAcquired, TypeOK
  <2> QED BY <1>6, <1>9, <1>11, <2>1 DEF Uncreated, Open
<1>14. WaitersOK'
  <2>1. \A x \in Elems(queue) : hold[x] = NoConn
    BY DEF Elems, WaitersOK
  <2>2. \A i \in DOMAIN queue' : queue'[i] \in Elems(queue') /\ queue'[i] # w
    BY <1>4 DEF Elems
  <2>3. \A i \in DOMAIN queue' : queue'[i] \in Clients
    BY <1>4, LenProperties, ElementOfSeq
  <2>4. \A i \in DOMAIN queue' : hold'[queue'[i]] = NoConn
    BY <1>1, <1>4, <2>1, <2>2, <2>3 DEF TypeOK
  <2> QED BY <1>1, <1>4, <1>7, <2>4 DEF WaitersOK
<1>15. DrainsOK' /\ NoIdleWhileWaiting'
  BY <1>1 DEF DrainsOK, NoIdleWhileWaiting
<1>16. NoSharing'
  <2>1. \A i, j \in Clients : hold'[i] = hold'[j] /\ hold'[i] # NoConn => i = j
    BY <1>1, <1>3 DEF NoSharing, TypeOK
  <2> QED BY <1>1, <1>6, <1>9, <1>11, <2>1 DEF NoSharing
<1>17. NoLeak'
  BY <1>6, <1>8, <1>9, <1>10 DEF NoLeak, TypeOK
<1>18. Bounded'
  BY <1>6, <1>9, <1>11, BoundedShrinks DEF Open
<1> QED BY <1>12, <1>13, <1>14, <1>15, <1>16, <1>17, <1>18

\* Also the release of a connection that a finished drain has already destroyed.
LEMMA ReleaseIdleInv ==
  ASSUME Inv, NEW k \in Clients, ReleaseIdle(k)
  PROVE  Inv'
<1> USE DEF Inv
<1> DEFINE c == hold[k]
<1>1. /\ c # NoConn
      /\ queue = <<>>
      /\ SetState(c, "IDLE", {})
      /\ acquired' = acquired \ {c}
      /\ idle' = Append(idle, c)
      /\ hold' = [hold EXCEPT ![k] = NoConn]
      /\ UNCHANGED <<useCount, aged, stale, queue, drained, statVars, phase>>
  BY DEF ReleaseIdle, NobodyWaits, StillOut
<1>2. c \in Conns /\ c \in Held
  BY <1>1 DEF TypeOK, Held
<1>3. hold' \in [Clients -> Conns \cup {NoConn}] /\ Held' = Held \ {c}
  BY <1>1, HoldDrop DEF TypeOK, NoSharing
<1>4. \A x \in Conns : state'[x] = IF x = c THEN "IDLE" ELSE state[x]
  BY <1>1 DEF SetState
<1>5. c \notin Elems(idle)
  BY <1>2 DEF NoSharing
<1>6. /\ idle' \in Seq(Conns)
      /\ Elems(idle)' = Elems(idle) \cup {c}
      /\ IsInjective(idle')
  <2>1. IsInjective(idle)
    BY DEF NoSharing
  <2>2. Elems(idle)' = Elems(idle')
    BY DEF Elems
  <2> QED BY <1>1, <1>2, <1>5, <2>1, <2>2, AppendLemma DEF TypeOK
<1>7. TypeOK'
  <2>1. state' \in [Conns -> States]
    BY <1>1 DEF SetState, TypeOK, States
  <2> QED BY <1>1, <1>3, <1>6, <2>1 DEF TypeOK, statVars
<1>8. Uncreated'
  BY <1>1, <1>2, <1>3, <1>4, <1>6 DEF Uncreated, Open
<1>9. WaitersOK' /\ DrainsOK' /\ NoIdleWhileWaiting'
  BY <1>1, EmptyLemma DEF WaitersOK, DrainsOK, NoIdleWhileWaiting
<1>10. NoSharing'
  <2>1. \A i, j \in Clients : hold'[i] = hold'[j] /\ hold'[i] # NoConn => i = j
    BY <1>1 DEF NoSharing, TypeOK
  <2>2. Elems(idle)' \cap acquired' = {} /\ Elems(idle)' \cap Held' = {}
    BY <1>1, <1>3, <1>6 DEF NoSharing
  <2> QED BY <1>6, <2>1, <2>2 DEF NoSharing
<1>11. NoLeak'
  <2>1. CASE DrainDone
    BY <1>1, <2>1 DEF NoLeak, DrainDone
  <2>2. CASE ~DrainDone
    BY <1>1, <1>3, <1>4, <2>2 DEF NoLeak, TypeOK
  <2> QED BY <2>1, <2>2
<1>12. Bounded'
  <2>1. Open' \cup Held' \subseteq Open \cup Held
    BY <1>1, <1>2, <1>3, <1>6 DEF Open
  <2> QED BY <2>1, BoundedShrinks
<1> QED BY <1>7, <1>8, <1>9, <1>10, <1>11, <1>12

-----------------------------------------------------------------------------
(* The reaper.                                                             *)

LEMMA RemainderLemma ==
  ASSUME NEW S, NEW s \in Seq(S), IsInjective(s), NEW E,
         NEW t \in UNION {[1..n -> Elems(s)] : n \in 0..Len(s)},
         IsRemainder(t, s, E)
  PROVE  /\ t \in Seq(S)
         /\ Len(t) \in Nat /\ Len(t) <= Len(s)
         /\ Elems(t) = Elems(s) \ E
         /\ IsInjective(t)
<1>1. Len(s) \in Nat /\ DOMAIN s = 1..Len(s)
  BY LenProperties
<1>2. PICK n \in 0..Len(s) : t \in [1..n -> Elems(s)]
  OBVIOUS
<1>3. n \in Nat /\ n <= Len(s)
  BY <1>1, <1>2
<1>4. Elems(s) \subseteq S
  BY <1>1, ElementOfSeq DEF Elems
<1>5. t \in [1..n -> S]
  BY <1>2, <1>4
<1>6. t \in Seq(S)
  BY <1>3, <1>5, SeqDef
<1>7. DOMAIN t = 1..n
  BY <1>2
<1>8. Len(t) = n
  BY <1>3, <1>6, <1>7, LenProperties, IntervalLemma
<1>9. IsInjective(t)
  <2>1. SUFFICES ASSUME NEW i \in 1..n, NEW j \in 1..n, i < j PROVE t[i] # t[j]
    BY <1>3, <1>7 DEF IsInjective
  <2>2. PICK m1, m2 \in DOMAIN s : m1 < m2 /\ s[m1] = t[i] /\ s[m2] = t[j]
    BY <1>7, <2>1 DEF IsRemainder
  <2> QED BY <1>1, <2>2 DEF IsInjective
<1> QED BY <1>3, <1>6, <1>8, <1>9 DEF IsRemainder

LEMMA ReapInv ==
  ASSUME Inv, Reap
  PROVE  Inv'
<1> USE DEF Inv
<1>1. PICK rest \in UNION {[1..n -> Elems(idle)] : n \in 0..Len(idle)} :
        /\ IsRemainder(rest, idle, Evictable)
        /\ idle' = rest
        /\ destroyed' = destroyed + (Len(idle) - Len(rest))
  BY DEF Reap
<1>2. /\ ~drained
      /\ MarkAllDead(Evictable)
      /\ UNCHANGED <<acquired, queue, drained, created, hold, phase>>
  BY DEF Reap
<1>3. idle \in Seq(Conns) /\ Len(idle) \in Nat /\ IsInjective(idle)
  BY LenProperties DEF TypeOK, NoSharing
<1>4. /\ idle' \in Seq(Conns)
      /\ Len(idle') \in Nat /\ Len(idle') <= Len(idle)
      /\ Elems(idle)' = Elems(idle) \ Evictable
      /\ IsInjective(idle')
  <2>1. Elems(idle)' = Elems(idle')
    BY DEF Elems
  <2> QED BY <1>1, <1>3, <2>1, RemainderLemma
<1>5. Held' = Held
  BY <1>2 DEF Held
<1>6. \A x \in Conns : state'[x] = IF x \in Evictable THEN "DEAD" ELSE state[x]
  BY <1>2 DEF MarkAllDead
<1>7. TypeOK'
  <2>1. /\ state' \in [Conns -> States]
        /\ useCount' \in [Conns -> 0..UseLimit]
        /\ aged' \in [Conns -> BOOLEAN]
        /\ stale' \in [Conns -> BOOLEAN]
    BY <1>2, MarkAllDeadType
  <2>2. destroyed' \in Nat
    BY <1>1, <1>3, <1>4 DEF TypeOK
  <2> QED BY <1>2, <1>4, <2>1, <2>2 DEF TypeOK
<1>8. Uncreated'
  BY <1>2, <1>4, <1>5, <1>6 DEF Uncreated, Open, MarkAllDead
<1>9. WaitersOK' /\ DrainsOK'
  BY <1>2 DEF WaitersOK, DrainsOK
<1>10. NoSharing'
  BY <1>2, <1>4, <1>5 DEF NoSharing
<1>11. NoLeak'
  <2>1. \A x \in acquired : x \in Conns /\ x \notin Evictable
    BY DEF NoSharing, Evictable, TypeOK
  <2> QED BY <1>2, <1>5, <1>6, <2>1 DEF NoLeak, DrainDone
<1>12. NoIdleWhileWaiting'
  <2>1. idle = <<>> => idle' = <<>>
    BY <1>3, <1>4, EmptyLemma, EmptySeq
  <2> QED BY <1>2, <2>1 DEF NoIdleWhileWaiting
<1>13. Bounded'
  BY <1>2, <1>4, <1>5, BoundedShrinks DEF Open
<1> QED BY <1>7, <1>8, <1>9, <1>10, <1>11, <1>12, <1>13

-----------------------------------------------------------------------------
(* drain()                                                                 *)

\* The destruction at the end of drain(), by a call whose phase becomes "done".
LEMMA DestroyAllInv ==
  ASSUME Inv, NEW d \in Drains, DestroyAll,
         phase' = [phase EXCEPT ![d] = "done"],
         drained' = TRUE, queue' = <<>>, UNCHANGED <<created, hold>>
  PROVE  Inv'
<1> USE DEF Inv
<1>1. /\ MarkAllDead(Open)
      /\ destroyed' = destroyed + Len(idle) + Cardinality(acquired)
      /\ idle' = <<>>
      /\ acquired' = {}
  BY DEF DestroyAll
<1>2. Held' = Held
  BY DEF Held
<1>3. Elems(idle)' = {} /\ Open' = {}
  BY <1>1, EmptyLemma DEF Open
<1>4. \A x \in Conns : state'[x] = IF x \in Open THEN "DEAD" ELSE state[x]
  BY <1>1 DEF MarkAllDead
<1>5. TypeOK'
  <2>1. /\ state' \in [Conns -> States]
        /\ useCount' \in [Conns -> 0..UseLimit]
        /\ aged' \in [Conns -> BOOLEAN]
        /\ stale' \in [Conns -> BOOLEAN]
    BY <1>1, MarkAllDeadType
  <2>2. IsFiniteSet(acquired)
    BY FS_Subset DEF Bounded, Open
  <2>3. Cardinality(acquired) \in Nat
    BY <2>2, FS_CardinalityType
  <2>4. destroyed' \in Nat
    BY <1>1, <2>3, LenProperties DEF TypeOK
  <2>5. phase' \in [Drains -> Phases]
    BY DEF TypeOK, Phases
  <2> QED BY <1>1, <2>1, <2>4, <2>5, EmptyLemma DEF TypeOK
<1>6. Uncreated'
  BY <1>1, <1>2, <1>3, <1>4 DEF Uncreated, MarkAllDead
<1>7. WaitersOK' /\ DrainsOK' /\ NoIdleWhileWaiting'
  BY EmptyLemma DEF WaitersOK, DrainsOK, NoIdleWhileWaiting
<1>8. NoSharing'
  <2>1. IsInjective(idle')
    BY <1>1, EmptyLemma
  <2> QED BY <1>1, <1>2, <1>3, <2>1 DEF NoSharing
<1>9. NoLeak'
  <2>1. phase'[d] = "done"
    BY DEF TypeOK
  <2> QED BY <2>1 DEF NoLeak, DrainDone
<1>10. Bounded'
  BY <1>2, <1>3, BoundedShrinks
<1> QED BY <1>5, <1>6, <1>7, <1>8, <1>9, <1>10

\* A drain that starts to wait, or wakes up, touches no connection.
LEMMA DrainPhaseInv ==
  ASSUME Inv, NEW d \in Drains, NEW s \in {"waiting", "woken"},
         phase' = [phase EXCEPT ![d] = s],
         phase[d] \in {"uncalled", "waiting"},
         drained', drained' \in BOOLEAN, queue' = <<>>,
         UNCHANGED <<connVars, idle, acquired, statVars, hold>>
  PROVE  Inv'
<1> USE DEF Inv
<1>1. Open' = Open /\ Held' = Held /\ Elems(idle)' = Elems(idle)
  BY DEF Open, Held, Elems
<1>2. TypeOK'
  BY EmptyLemma DEF TypeOK, Phases, connVars, statVars
<1>3. Uncreated' /\ NoSharing' /\ Bounded'
  BY <1>1 DEF Uncreated, NoSharing, Bounded, connVars
<1>4. WaitersOK' /\ DrainsOK' /\ NoIdleWhileWaiting'
  BY EmptyLemma DEF WaitersOK, DrainsOK, NoIdleWhileWaiting
<1>5. DrainDone' <=> DrainDone
  BY DEF DrainDone, TypeOK
<1>6. NoLeak'
  BY <1>1, <1>5 DEF NoLeak, connVars
<1> QED BY <1>2, <1>3, <1>4, <1>6

LEMMA DrainInv ==
  ASSUME Inv, NEW d \in Drains, NEW timed \in BOOLEAN, Drain(d, timed)
  PROVE  Inv'
<1>1. phase[d] = "uncalled" /\ drained' = TRUE /\ queue' = <<>> /\ UNCHANGED hold
  BY DEF Drain
<1>2. CASE timed /\ acquired # {}
  BY <1>1, <1>2, DrainPhaseInv DEF Drain
<1>3. CASE ~(timed /\ acquired # {})
  BY <1>1, <1>3, DestroyAllInv DEF Drain
<1> QED BY <1>2, <1>3

LEMMA DrainWakeInv ==
  ASSUME Inv, NEW d \in Drains, DrainPoll(d) \/ DrainTimeout(d)
  PROVE  Inv'
<1>1. /\ phase[d] = "waiting"
      /\ phase' = [phase EXCEPT ![d] = "woken"]
      /\ UNCHANGED <<connVars, poolVars, statVars, hold>>
  BY DEF DrainPoll, DrainTimeout
<1>2. drained /\ queue = <<>>
  BY <1>1 DEF Inv, DrainsOK, WaitersOK
<1> QED BY <1>1, <1>2, DrainPhaseInv DEF poolVars

LEMMA DrainFinishInv ==
  ASSUME Inv, NEW d \in Drains, DrainFinish(d)
  PROVE  Inv'
<1>1. drained /\ queue = <<>>
  BY DEF Inv, DrainsOK, WaitersOK, DrainFinish
<1>2. drained = TRUE
  BY <1>1 DEF Inv, TypeOK
<1> QED BY <1>1, <1>2, DestroyAllInv DEF DrainFinish

-----------------------------------------------------------------------------
(* Time, and no step at all.                                               *)

LEMMA ClockInv ==
  ASSUME Inv, UNCHANGED <<state, useCount, poolVars, statVars, hold, phase>>,
         aged' \in [Conns -> BOOLEAN], stale' \in [Conns -> BOOLEAN]
  PROVE  Inv'
<1> USE DEF Inv
<1>1. Open' = Open /\ Held' = Held /\ Elems(idle)' = Elems(idle)
  BY DEF Open, Held, Elems, poolVars
<1>2. TypeOK'
  BY DEF TypeOK, poolVars, statVars
<1>3. Uncreated' /\ NoSharing' /\ Bounded'
  BY <1>1 DEF Uncreated, NoSharing, Bounded, poolVars
<1>4. WaitersOK' /\ DrainsOK' /\ NoIdleWhileWaiting'
  BY DEF WaitersOK, DrainsOK, NoIdleWhileWaiting, poolVars
<1>5. NoLeak'
  BY <1>1 DEF NoLeak, DrainDone, poolVars
<1> QED BY <1>2, <1>3, <1>4, <1>5

LEMMA NextInv == Inv /\ [Next]_vars => Inv'
<1> SUFFICES ASSUME Inv, [Next]_vars PROVE Inv'
  OBVIOUS
<1>1. ASSUME NEW k \in Clients,
             \/ AcquireIdle(k) \/ AcquireNew(k) \/ AcquireQueued(k) \/ AcquireTimeout(k)
      PROVE  Inv'
  BY <1>1, AcquireIdleInv, AcquireNewInv, AcquireQueuedInv, AcquireTimeoutInv
<1>2. ASSUME NEW k \in Clients,
             ReleaseRecycle(k) \/ ReleaseHandOff(k) \/ ReleaseIdle(k)
      PROVE  Inv'
  BY <1>2, ReleaseRecycleInv, ReleaseHandOffInv, ReleaseIdleInv
<1>3. CASE Reap
  BY <1>3, ReapInv
<1>4. ASSUME NEW d \in Drains,
             \/ \E timed \in BOOLEAN : Drain(d, timed)
             \/ DrainPoll(d) \/ DrainTimeout(d) \/ DrainFinish(d)
      PROVE  Inv'
  BY <1>4, DrainInv, DrainWakeInv, DrainFinishInv
<1>5. ASSUME NEW c \in Conns, AgeOut(c) \/ GoStale(c)
      PROVE  Inv'
  BY <1>5, ClockInv DEF AgeOut, GoStale, Inv, TypeOK
<1>6. CASE UNCHANGED vars
  BY <1>6, ClockInv DEF vars, connVars, Inv, TypeOK
<1> QED BY <1>1, <1>2, <1>3, <1>4, <1>5, <1>6 DEF Next

-----------------------------------------------------------------------------
(* The theorems.                                                           *)

\* The conjunction of everything below is an invariant of the pool.
THEOREM PoolInvariant == Spec => []Inv
BY InitInv, NextInv, PTL DEF Spec

\* Every variable keeps its type and, with a maxUseCount, no connection is handed
\* out more often than that (shouldRecycle() is asked on every way out).
THEOREM PoolTypeCorrect == Spec => []TypeOK
<1>1. Inv => TypeOK
  BY DEF Inv
<1> QED BY <1>1, PoolInvariant, PTL

\* A connection is never shared: not by two clients, not by a client and the idle
\* list, for acquire(), release(), the timers, the reaper and drain() in any order.
THEOREM PoolNoSharing == Spec => []NoSharing
<1>1. Inv => NoSharing
  BY DEF Inv
<1> QED BY <1>1, PoolInvariant, PTL

\* Until a drain has finished, what is acquired is what clients hold, and alive.
THEOREM PoolNoLeak == Spec => []NoLeak
<1>1. Inv => NoLeak
  BY DEF Inv
<1> QED BY <1>1, PoolInvariant, PTL

\* A request never waits beside an idle connection.
THEOREM PoolNoIdleWhileWaiting == Spec => []NoIdleWhileWaiting
<1>1. Inv => NoIdleWhileWaiting
  BY DEF Inv
<1> QED BY <1>1, PoolInvariant, PTL

\* The pool never has more than config.max connections open.
THEOREM PoolWithinMax == Spec => []PoolBound
<1>1. Inv => PoolBound
  <2>1. SUFFICES ASSUME Inv PROVE PoolBound
    OBVIOUS
  <2>2. IsFiniteSet(Open) /\ Cardinality(Open) <= Cardinality(Open \cup Held)
    BY <2>1, FS_Subset DEF Inv, Bounded
  <2>3. Cardinality(Open) \in Nat /\ Cardinality(Open \cup Held) \in Nat
    BY <2>1, <2>2, FS_CardinalityType DEF Inv, Bounded
  <2> QED BY <2>1, <2>2, <2>3, PoolAssumption DEF PoolBound, Inv, Bounded
<1> QED BY <1>1, PoolInvariant, PTL
-----------------------------------------------------------------------------
(* The counters, what a client is handed, and the order of the queue.      *)

LEMMA AcquiredFinite ==
  ASSUME Inv
  PROVE  /\ IsFiniteSet(acquired) /\ Cardinality(acquired) \in Nat
         /\ idle \in Seq(Conns) /\ Len(idle) \in Nat
<1>1. IsFiniteSet(acquired)
  BY FS_Subset DEF Inv, Bounded, Open
<1> QED BY <1>1, FS_CardinalityType, LenProperties DEF Inv, TypeOK

\* What is held is acquired, for as long as no drain has finished.
LEMMA HeldIsAcquired ==
  ASSUME Inv, ~DrainDone, NEW k \in Clients, hold[k] # NoConn
  PROVE  hold[k] \in acquired
BY DEF Inv, NoLeak, Held

LEMMA StatsAcquire ==
  ASSUME Inv, StatsBalance, ~DrainDone, NEW k \in Clients,
         AcquireIdle(k) \/ AcquireNew(k) \/ AcquireQueued(k)
  PROVE  created' = destroyed' + Len(idle') + Cardinality(acquired')
<1> DEFINE n == Cardinality(acquired)
<1>1. /\ n \in Nat /\ IsFiniteSet(acquired) /\ idle \in Seq(Conns) /\ Len(idle) \in Nat
      /\ created = destroyed + Len(idle) + n /\ created \in Nat /\ destroyed \in Nat
  BY AcquiredFinite DEF StatsBalance, Inv, TypeOK
<1> HIDE DEF n
<1>2. ASSUME NEW c \in Conns, c \notin acquired, acquired' = acquired \cup {c}
      PROVE  Cardinality(acquired') = n + 1
  BY <1>1, <1>2, FS_AddElement DEF n
<1>3. CASE AcquireIdle(k)
  <2>1. PICK p \in DOMAIN idle :
          /\ idle' = SubSeq(idle, 1, p - 1)
          /\ acquired' = acquired \cup {idle[p]}
          /\ destroyed' = destroyed + (Len(idle) - p)
    BY <1>3 DEF AcquireIdle
  <2>2. p \in 1..Len(idle) /\ idle[p] \in Conns /\ idle[p] \notin acquired
    BY <1>1, LenProperties, ElementOfSeq DEF Inv, NoSharing, Elems
  <2>3. Len(idle') = p - 1
    BY <1>1, <2>1, <2>2, PrefixLemma
  <2>4. Cardinality(acquired') = n + 1
    BY <1>2, <2>1, <2>2
  <2>5. created' = created /\ p \in Nat
    BY <1>3, <2>2 DEF AcquireIdle
  <2>6. destroyed' = destroyed + (Len(idle) - p)
    BY <2>1
  <2>7. destroyed' + Len(idle') = destroyed + Len(idle) - 1
    BY <1>1, <2>3, <2>5, <2>6
  <2>8. created = destroyed + Len(idle) - 1 + (n + 1)
    BY <1>1
  <2> QED BY <2>4, <2>5, <2>7, <2>8
<1>4. CASE AcquireNew(k)
  <2>1. PICK c \in Conns : state[c] = "NONE" /\ acquired' = acquired \cup {c}
    BY <1>4 DEF AcquireNew
  <2>2. c \notin acquired
    BY <2>1 DEF Inv, Uncreated, Open
  <2>3. Cardinality(acquired') = n + 1
    BY <1>2, <2>1, <2>2
  <2>4. Len(idle') = 0 /\ created' = created + 1 /\ destroyed' = destroyed + Len(idle)
    BY <1>4, EmptyLemma DEF AcquireNew
  <2> QED BY <1>1, <2>3, <2>4
<1>5. CASE AcquireQueued(k)
  <2>1. /\ Len(idle') = 0 /\ created' = created /\ acquired' = acquired
        /\ destroyed' = destroyed + Len(idle)
    BY <1>5, EmptyLemma DEF AcquireQueued
  <2> QED BY <1>1, <2>1 DEF n
<1> QED BY <1>3, <1>4, <1>5

LEMMA StatsRelease ==
  ASSUME Inv, StatsBalance, ~DrainDone, NEW k \in Clients, Release(k)
  PROVE  created' = destroyed' + Len(idle') + Cardinality(acquired')
<1> DEFINE n == Cardinality(acquired)
<1>1. /\ n \in Nat /\ IsFiniteSet(acquired) /\ idle \in Seq(Conns) /\ Len(idle) \in Nat
      /\ created = destroyed + Len(idle) + n /\ created \in Nat /\ destroyed \in Nat
  BY AcquiredFinite DEF StatsBalance, Inv, TypeOK
<1>2. hold[k] \in acquired /\ hold[k] \in Conns
  BY HeldIsAcquired DEF Release, ReleaseRecycle, ReleaseHandOff, ReleaseIdle, Inv, TypeOK
<1>3. Cardinality(acquired \ {hold[k]}) = n - 1
  BY <1>1, <1>2, FS_RemoveElement
<1> HIDE DEF n
<1>4. CASE ReleaseRecycle(k)
  <2>1. /\ acquired' = acquired \ {hold[k]} /\ destroyed' = destroyed + 1
        /\ idle' = idle /\ created' = created
    BY <1>4 DEF ReleaseRecycle, StillOut
  <2> QED BY <1>1, <1>3, <2>1
<1>5. CASE ReleaseHandOff(k)
  <2>1. acquired' = acquired /\ UNCHANGED <<idle, created, destroyed>>
    BY <1>2, <1>5 DEF ReleaseHandOff, statVars
  <2> QED BY <1>1, <2>1 DEF n
<1>6. CASE ReleaseIdle(k)
  <2>1. /\ acquired' = acquired \ {hold[k]} /\ idle' = Append(idle, hold[k])
        /\ UNCHANGED <<created, destroyed>>
    BY <1>6 DEF ReleaseIdle, StillOut, statVars
  <2>2. Len(idle') = Len(idle) + 1
    BY <1>1, <1>2, <2>1, AppendProperties
  <2> QED BY <1>1, <1>3, <2>1, <2>2
<1> QED BY <1>4, <1>5, <1>6 DEF Release

LEMMA StatsStep ==
  ASSUME Inv, StatsBalance, [Next]_vars
  PROVE  StatsBalance'
<1> SUFFICES ASSUME ~DrainDone'
             PROVE  created' = destroyed' + Len(idle') + Cardinality(acquired')
  BY DEF StatsBalance
<1>0. phase \in [Drains -> Phases]
  BY DEF Inv, TypeOK
<1>1. ASSUME NEW k \in Clients, AcquireIdle(k) \/ AcquireNew(k) \/ AcquireQueued(k)
      PROVE  created' = destroyed' + Len(idle') + Cardinality(acquired')
  <2>1. ~DrainDone
    BY <1>1 DEF AcquireIdle, AcquireNew, AcquireQueued, DrainDone
  <2> QED BY <1>1, <2>1, StatsAcquire
<1>2. ASSUME NEW k \in Clients, Release(k)
      PROVE  created' = destroyed' + Len(idle') + Cardinality(acquired')
  <2>1. ~DrainDone
    BY <1>2 DEF Release, ReleaseRecycle, ReleaseHandOff, ReleaseIdle, DrainDone
  <2> QED BY <1>2, <2>1, StatsRelease
<1>3. CASE Reap
  <2>1. ~DrainDone
    BY <1>3 DEF Reap, DrainDone
  <2>2. PICK rest \in UNION {[1..n -> Elems(idle)] : n \in 0..Len(idle)} :
          /\ IsRemainder(rest, idle, Evictable)
          /\ idle' = rest
          /\ destroyed' = destroyed + (Len(idle) - Len(rest))
    BY <1>3 DEF Reap
  <2>3. Len(rest) \in Nat
    BY <2>2, AcquiredFinite, RemainderLemma DEF Inv, NoSharing
  <2>4. UNCHANGED <<acquired, created>>
    BY <1>3 DEF Reap
  <2> QED BY <2>1, <2>2, <2>3, <2>4, AcquiredFinite DEF StatsBalance, Inv, TypeOK
<1>4. ASSUME UNCHANGED <<idle, acquired, created, destroyed>>, DrainDone => DrainDone'
      PROVE  created' = destroyed' + Len(idle') + Cardinality(acquired')
  BY <1>4 DEF StatsBalance
<1>5. ASSUME NEW k \in Clients, AcquireTimeout(k)
      PROVE  created' = destroyed' + Len(idle') + Cardinality(acquired')
  BY <1>4, <1>5 DEF AcquireTimeout, statVars, DrainDone
<1>6. ASSUME NEW d \in Drains, phase' = [phase EXCEPT ![d] = "done"]
      PROVE  FALSE
  BY <1>0, <1>6 DEF DrainDone
<1>7. ASSUME NEW d \in Drains, NEW s \in Phases, phase[d] # "done",
             phase' = [phase EXCEPT ![d] = s]
      PROVE  DrainDone => DrainDone'
  BY <1>0, <1>7 DEF DrainDone
<1>8. ASSUME NEW d \in Drains, NEW timed \in BOOLEAN, Drain(d, timed)
      PROVE  created' = destroyed' + Len(idle') + Cardinality(acquired')
  <2>1. /\ UNCHANGED <<idle, acquired, created, destroyed>>
        /\ phase' = [phase EXCEPT ![d] = "waiting"] /\ phase[d] = "uncalled"
    BY <1>6, <1>8 DEF Drain, statVars
  <2> QED BY <1>4, <1>7, <2>1 DEF Phases
<1>9. ASSUME NEW d \in Drains, DrainPoll(d) \/ DrainTimeout(d)
      PROVE  created' = destroyed' + Len(idle') + Cardinality(acquired')
  <2>1. /\ UNCHANGED <<idle, acquired, created, destroyed>>
        /\ phase' = [phase EXCEPT ![d] = "woken"] /\ phase[d] = "waiting"
    BY <1>9 DEF DrainPoll, DrainTimeout, poolVars, statVars
  <2> QED BY <1>4, <1>7, <2>1 DEF Phases
<1>10. ASSUME NEW d \in Drains, DrainFinish(d)
       PROVE  created' = destroyed' + Len(idle') + Cardinality(acquired')
  BY <1>6, <1>10 DEF DrainFinish
<1>11. ASSUME NEW c \in Conns, AgeOut(c) \/ GoStale(c)
       PROVE  created' = destroyed' + Len(idle') + Cardinality(acquired')
  BY <1>4, <1>11 DEF AgeOut, GoStale, poolVars, statVars, DrainDone
<1>12. CASE UNCHANGED vars
  BY <1>4, <1>12 DEF vars, poolVars, statVars, DrainDone
<1> QED BY <1>1, <1>2, <1>3, <1>5, <1>8, <1>9, <1>10, <1>11, <1>12 DEF Next, Release

\* The counters of poolStats() account for every connection, and none of those
\* that are out is with nobody, until a drain has finished.
THEOREM PoolAccounted == Spec => []Accounted
<1>1. Init => StatsBalance
  BY EmptyLemma, FS_EmptySet DEF Init, StatsBalance
<1>2. Inv /\ StatsBalance /\ [Next]_vars => StatsBalance'
  BY StatsStep
<1>3. Inv /\ StatsBalance => Accounted
  BY DEF Inv, Accounted
<1> QED BY <1>1, <1>2, <1>3, PoolInvariant, PTL DEF Spec

\* A connection that does not exist yet has no age.
NewUnaged == \A c \in Conns : state[c] = "NONE" => ~aged[c]

\* No step takes a connection out of existence, and only time ages one.
LEMMA NewUnagedStep == NewUnaged /\ Inv /\ [Next]_vars => NewUnaged'
<1> SUFFICES ASSUME NewUnaged, Inv, [Next]_vars, NEW c \in Conns, state'[c] = "NONE"
             PROVE  ~aged'[c]
  BY DEF NewUnaged
<1>0. state \in [Conns -> States] /\ aged \in [Conns -> BOOLEAN]
  BY DEF Inv, TypeOK
<1>1. ASSUME state[c] = "NONE", aged' = aged PROVE ~aged'[c]
  BY <1>1 DEF NewUnaged
<1>2. ASSUME NEW x, NEW s, s # "NONE", NEW dead, SetState(x, s, dead) PROVE state[c] = "NONE"
  BY <1>0, <1>2 DEF SetState
<1>3. ASSUME NEW dead, MarkAllDead(dead) PROVE ~aged'[c]
  <2>1. state[c] = "NONE" /\ aged' = aged
    BY <1>0, <1>3 DEF MarkAllDead
  <2> QED BY <1>1, <2>1
<1>4. ASSUME NEW x, NEW dead, MarkAcquired(x, dead) PROVE ~aged'[c]
  BY <1>1, <1>2, <1>4 DEF MarkAcquired
<1>5. ASSUME NEW k \in Clients,
             \/ AcquireIdle(k) \/ AcquireNew(k) \/ AcquireQueued(k) \/ AcquireTimeout(k)
             \/ ReleaseRecycle(k) \/ ReleaseHandOff(k) \/ ReleaseIdle(k)
      PROVE  ~aged'[c]
  <2>1. CASE AcquireIdle(k)
    BY <1>4, <2>1 DEF AcquireIdle
  <2>2. CASE AcquireNew(k)
    BY <1>4, <2>2 DEF AcquireNew
  <2>3. CASE AcquireQueued(k) \/ ReleaseRecycle(k)
    BY <1>3, <2>3 DEF AcquireQueued, ReleaseRecycle
  <2>4. CASE AcquireTimeout(k)
    BY <1>1, <2>4 DEF AcquireTimeout, connVars
  <2>5. CASE ReleaseHandOff(k)
    BY <1>4, <2>5 DEF ReleaseHandOff
  <2>6. CASE ReleaseIdle(k)
    <3>1. SetState(hold[k], "IDLE", {}) /\ aged' = aged
      BY <2>6 DEF ReleaseIdle
    <3>2. state[c] = "NONE"
      BY <1>2, <3>1
    <3> QED BY <1>1, <3>1, <3>2
  <2> QED BY <1>5, <2>1, <2>2, <2>3, <2>4, <2>5, <2>6
<1>6. CASE Reap
  BY <1>3, <1>6 DEF Reap
<1>7. ASSUME NEW d \in Drains,
             \/ \E timed \in BOOLEAN : Drain(d, timed)
             \/ DrainPoll(d) \/ DrainTimeout(d) \/ DrainFinish(d)
      PROVE  ~aged'[c]
  <2>1. MarkAllDead(Open) \/ UNCHANGED connVars
    BY <1>7 DEF Drain, DrainPoll, DrainTimeout, DrainFinish, DestroyAll
  <2> QED BY <1>1, <1>3, <2>1 DEF connVars
<1>8. ASSUME NEW x \in Conns, AgeOut(x) \/ GoStale(x) PROVE ~aged'[c]
  BY <1>0, <1>8 DEF AgeOut, GoStale, NewUnaged
<1>9. CASE UNCHANGED vars
  BY <1>1, <1>9 DEF vars, connVars
<1> QED BY <1>5, <1>6, <1>7, <1>8, <1>9 DEF Next

\* Whatever acquire() and release() hand to a client has at least that use left:
\* shouldRecycle() is asked on every path, again for every connection popped.
THEOREM PoolHandedOutFresh == Spec => HandedOutFresh
<1> DEFINE Fresh == \A k \in Clients : hold'[k] # NoConn /\ hold'[k] # hold[k]
                                         => ~ShouldRecycle(hold'[k])
<1>1. Init => NewUnaged
  BY DEF Init, NewUnaged
<1>2. Inv /\ NewUnaged /\ [Next]_vars => [Fresh]_vars
  <2> SUFFICES ASSUME Inv, NewUnaged, Next, NEW k \in Clients,
                      hold'[k] # NoConn, hold'[k] # hold[k]
               PROVE  ~ShouldRecycle(hold'[k])
    OBVIOUS
  <2>0. hold \in [Clients -> Conns \cup {NoConn}] /\ queue \in Seq(Clients)
    BY DEF Inv, TypeOK
  <2>1. PICK j \in Clients : AcquireIdle(j) \/ AcquireNew(j) \/ Release(j)
    BY DEF Next, Release, AcquireQueued, AcquireTimeout, Reap, Drain, DrainPoll, DrainTimeout,
       DrainFinish, AgeOut, GoStale
  <2>2. CASE AcquireIdle(j)
    <3>1. PICK i \in DOMAIN idle : TopUsable(i) /\ hold' = [hold EXCEPT ![j] = idle[i]]
      BY <2>2 DEF AcquireIdle
    <3>2. hold'[k] = idle[i]
      BY <2>0, <3>1
    <3> QED BY <3>1, <3>2 DEF TopUsable
  <2>3. CASE AcquireNew(j)
    <3>1. PICK c \in Conns : state[c] = "NONE" /\ hold' = [hold EXCEPT ![j] = c]
      BY <2>3 DEF AcquireNew
    <3>2. hold'[k] = c
      BY <2>0, <3>1
    <3>3. useCount[c] = 0 /\ ~aged[c]
      BY <3>1 DEF Inv, Uncreated, NewUnaged
    <3>4. ~(MaxUseCount > 0 /\ 0 >= MaxUseCount)
      BY PoolAssumption
    <3> QED BY <3>2, <3>3, <3>4 DEF ShouldRecycle
  <2>4. CASE Release(j)
    <3>1. CASE ReleaseHandOff(j)
      <4>1. /\ ~ShouldRecycle(hold[j])
            /\ hold' = [hold EXCEPT ![j] = NoConn, ![queue[ServedWaiter]] = hold[j]]
        BY <3>1 DEF ReleaseHandOff
      <4>2. hold'[k] = hold[j]
        BY <2>0, <4>1
      <4> QED BY <4>1, <4>2
    <3>2. CASE ReleaseRecycle(j) \/ ReleaseIdle(j)
      BY <2>0, <3>2 DEF ReleaseRecycle, ReleaseIdle
    <3> QED BY <2>4, <3>1, <3>2 DEF Release
  <2> QED BY <2>1, <2>2, <2>3, <2>4
<1> QED BY <1>1, <1>2, NewUnagedStep, PoolInvariant, PTL DEF Spec, HandedOutFresh

\* Without recycling a queue means that everything the pool may open is out.
QueueAtMax == queue # <<>> => Cardinality(acquired) >= Max

LEMMA NeverRecycled == ASSUME ~Recycles PROVE \A c \in Conns : ~ShouldRecycle(c)
BY PoolAssumption DEF ShouldRecycle, Recycles

\* While clients wait, nothing but a hand-off or a new waiter concerns clients.
LEMMA Queued ==
  ASSUME ~Recycles, Inv, QueueAtMax, queue # <<>>
  PROVE  /\ \A k \in Clients : ~AcquireIdle(k) /\ ~AcquireNew(k)
         /\ \A k \in Clients : ~ReleaseRecycle(k) /\ ~ReleaseIdle(k)
         /\ \A d \in Drains : ~DrainFinish(d)
         /\ ~DrainDone
<1>1. idle = <<>>
  BY DEF Inv, NoIdleWhileWaiting
<1>2. \A k \in Clients : ~AcquireIdle(k)
  BY <1>1, EmptyLemma DEF AcquireIdle
<1>3. Cardinality(acquired) \in Nat /\ Max \in Nat
  BY AcquiredFinite, PoolAssumption
<1>4. \A k \in Clients : ~AcquireNew(k)
  BY <1>3 DEF QueueAtMax, AcquireNew, HasRoom
<1>5. \A k \in Clients : hold[k] # NoConn => ~ShouldRecycle(hold[k])
  BY NeverRecycled DEF Inv, TypeOK
<1>6. \A k \in Clients : ~ReleaseRecycle(k) /\ ~ReleaseIdle(k)
  BY <1>5 DEF ReleaseRecycle, ReleaseIdle, NobodyWaits
<1>7. \A d \in Drains : phase[d] = "uncalled"
  BY DEF Inv, DrainsOK, WaitersOK
<1> QED BY <1>2, <1>4, <1>6, <1>7 DEF DrainFinish, DrainDone

LEMMA QueueAtMaxStep == ASSUME ~Recycles PROVE Inv /\ QueueAtMax /\ [Next]_vars => QueueAtMax'
<1> SUFFICES ASSUME Inv, QueueAtMax, [Next]_vars, queue' # <<>>
             PROVE  Cardinality(acquired') >= Max
  BY DEF QueueAtMax
<1>1. CASE queue = <<>>
  <2>0. queue' # queue
    BY <1>1
  <2>1. ~(\E k \in Clients : AcquireTimeout(k))
    BY <1>1, EmptyLemma DEF AcquireTimeout
  <2>2. ~(\E k \in Clients : ReleaseHandOff(k))
    BY <1>1 DEF ReleaseHandOff, NobodyWaits
  <2>3. ~(\E d \in Drains, timed \in BOOLEAN : Drain(d, timed))
    BY DEF Drain
  <2>4. \E k \in Clients : AcquireQueued(k)
    BY <2>0, <2>1, <2>2, <2>3 DEF Next, AcquireIdle, AcquireNew, ReleaseRecycle, ReleaseIdle,
       Reap, DrainPoll, DrainTimeout, DrainFinish, AgeOut, GoStale, vars, poolVars
  <2>5. Cardinality(acquired) \in Nat /\ Max \in Nat
    BY AcquiredFinite, PoolAssumption
  <2> QED BY <2>4, <2>5 DEF AcquireQueued, HasRoom
<1>2. CASE queue # <<>>
  <2>1. \A k \in Clients : ReleaseHandOff(k) => acquired' = acquired
    BY Queued, <1>2, HeldIsAcquired DEF ReleaseHandOff
  <2>2. ~(\E d \in Drains, timed \in BOOLEAN : Drain(d, timed))
    BY DEF Drain
  <2>3. acquired' = acquired
    BY Queued, <1>2, <2>1, <2>2 DEF Next, AcquireQueued, AcquireTimeout, Reap, DrainPoll,
       DrainTimeout, AgeOut, GoStale, vars, poolVars
  <2> QED BY <1>2, <2>3 DEF QueueAtMax
<1> QED BY <1>1, <1>2

\* Without recycling nobody who queues is overtaken, and a queue only forms at max
\* (pool.ts 79-152). With recycling both fail: release() does not replace the
\* connection it destroys.
THEOREM PoolNoOvertaking == ASSUME ~Recycles PROVE Spec => NoOvertaking
<1> DEFINE Fair == \A k \in Clients : hold'[k] # NoConn /\ hold'[k] # hold[k] /\ queue # <<>>
                                        => k = Head(queue)
<1>1. Init => QueueAtMax
  BY DEF Init, QueueAtMax
<1>2. Inv /\ QueueAtMax /\ [Next]_vars => QueueAtMax'
  BY QueueAtMaxStep
<1>3. Inv /\ QueueAtMax /\ [Next]_vars => [Fair]_vars
  <2> SUFFICES ASSUME Inv, QueueAtMax, Next, NEW k \in Clients, queue # <<>>,
                      hold'[k] # NoConn, hold'[k] # hold[k]
               PROVE  k = Head(queue)
    OBVIOUS
  <2>1. PICK j \in Clients : ReleaseHandOff(j)
    BY Queued DEF Next, AcquireQueued, AcquireTimeout, Reap, Drain, DrainPoll, DrainTimeout,
       AgeOut, GoStale
  <2>2. hold' = [hold EXCEPT ![j] = NoConn, ![queue[1]] = hold[j]]
    BY <2>1 DEF ReleaseHandOff, ServedWaiter
  <2>3. k = queue[1]
    BY <2>2 DEF Inv, TypeOK
  <2> QED BY <2>3, HeadTailProperties DEF Inv, TypeOK
<1> QED BY <1>1, <1>2, <1>3, PoolInvariant, PTL DEF Spec, NoOvertaking

-----------------------------------------------------------------------------
(* The pool implements PoolPromise.                                        *)

\* What PoolPromise sees of a state, and of a step that keeps it.
Seen == <<hold, queue, drained>>

AtMaxOrRecycles == Recycles \/ QueueAtMax

LEMMA AtMaxStep == AtMaxOrRecycles /\ Inv /\ [Next]_vars => AtMaxOrRecycles'
<1>1. CASE Recycles
  BY <1>1 DEF AtMaxOrRecycles, Recycles
<1>2. CASE ~Recycles
  BY <1>2, QueueAtMaxStep DEF AtMaxOrRecycles
<1> QED BY <1>1, <1>2

LEMMA LeasedIsHeld == Promise!Leased = Held
BY DEF Promise!Leased, Held

LEMMA SameCardinality == \A S : Promise!Cardinality(S) = Cardinality(S)
BY DEF Promise!Cardinality, Cardinality

LEMMA FullIsMax == Promise!Full <=> Cardinality(Held) >= Max
BY LeasedIsHeld, SameCardinality DEF Promise!Full

\* Who may acquire may ask, and what is out is what is held.
LEMMA AcquireAsks ==
  ASSUME Inv, NEW k \in Clients, CanAcquire(k)
  PROVE  Promise!Asks(k) /\ acquired = Held
<1>1. ~DrainDone
  BY DEF CanAcquire, DrainDone, Inv, DrainsOK
<1> QED BY <1>1 DEF CanAcquire, Waiting, Elems, Promise!Asks, Inv, NoLeak

LEMMA GrantedIdle ==
  ASSUME Inv, NEW k \in Clients, AcquireIdle(k) PROVE Promise!Grant(k)
<1>1. PICK i \in DOMAIN idle : hold' = [hold EXCEPT ![k] = idle[i]]
  BY DEF AcquireIdle
<1>2. idle[i] \in Conns /\ idle[i] \in Elems(idle) /\ idle # <<>>
  BY <1>1, ElementOfSeq, LenProperties, EmptyLemma DEF Inv, TypeOK, Elems
<1>3. idle[i] \notin Held
  BY <1>2 DEF Inv, NoSharing
<1>4. Cardinality(Held) < Max
  <2>1. Held \cup {idle[i]} \in SUBSET (Open \cup Held)
    BY <1>2 DEF Open
  <2>2. IsFiniteSet(Open \cup Held) /\ Cardinality(Open \cup Held) <= Max
    BY DEF Inv, Bounded
  <2>3. /\ IsFiniteSet(Held) /\ IsFiniteSet(Held \cup {idle[i]})
        /\ Cardinality(Held \cup {idle[i]}) <= Cardinality(Open \cup Held)
    BY <2>1, <2>2, FS_Subset
  <2>4. Cardinality(Held \cup {idle[i]}) = Cardinality(Held) + 1
    BY <1>3, <2>3, FS_AddElement
  <2>5. /\ Cardinality(Held) \in Nat /\ Cardinality(Open \cup Held) \in Nat /\ Max \in Nat
    BY <2>2, <2>3, FS_CardinalityType, PoolAssumption
  <2> QED BY <2>2, <2>3, <2>4, <2>5
<1>5. ~Promise!Full
  <2>1. Cardinality(Held) \in Nat /\ Max \in Nat
    BY FS_Subset, FS_CardinalityType, PoolAssumption DEF Inv, Bounded
  <2> QED BY <1>4, <2>1, FullIsMax
<1>6. Promise!InTurn
  BY <1>2 DEF Inv, NoIdleWhileWaiting, Promise!InTurn
<1>7. UNCHANGED <<queue, drained>> /\ CanAcquire(k)
  BY DEF AcquireIdle
<1> QED BY <1>1, <1>2, <1>3, <1>5, <1>6, <1>7, AcquireAsks, LeasedIsHeld DEF Promise!Grant

LEMMA GrantedNew ==
  ASSUME Inv, AtMaxOrRecycles, NEW k \in Clients, AcquireNew(k) PROVE Promise!Grant(k)
<1>1. PICK c \in Conns : state[c] = "NONE" /\ hold' = [hold EXCEPT ![k] = c]
  BY DEF AcquireNew
<1>2. c \notin Held
  BY <1>1 DEF Inv, Uncreated
<1>3. CanAcquire(k) /\ Cardinality(acquired) < Max /\ UNCHANGED <<queue, drained>>
  BY DEF AcquireNew, HasRoom
<1>4. Cardinality(acquired) \in Nat /\ Max \in Nat
  BY AcquiredFinite, PoolAssumption
<1>5. ~Promise!Full
  BY <1>3, <1>4, AcquireAsks, FullIsMax
<1>6. Promise!InTurn
  BY <1>3, <1>4 DEF AtMaxOrRecycles, QueueAtMax, Promise!InTurn
<1> QED BY <1>1, <1>2, <1>3, <1>5, <1>6, AcquireAsks, LeasedIsHeld DEF Promise!Grant

LEMMA WaitsOrRejected ==
  ASSUME Inv, NEW k \in Clients, AcquireQueued(k) PROVE Promise!Wait(k) \/ UNCHANGED Seen
<1>1. /\ CanAcquire(k) /\ ~(Cardinality(acquired) < Max) /\ UNCHANGED <<drained, hold>>
      /\ queue' = IF Len(queue) < MaxQueue THEN Append(queue, k) ELSE queue
  BY DEF AcquireQueued, HasRoom
<1>2. Cardinality(acquired) \in Nat /\ Max \in Nat
  BY AcquiredFinite, PoolAssumption
<1>3. Promise!Full
  BY <1>1, <1>2, AcquireAsks, FullIsMax
<1> QED BY <1>1, <1>3, AcquireAsks DEF Promise!Wait, Seen

LEMMA SpliceIsOthers == \A i : Splice(queue, i) = Promise!Others(i)
BY DEF Splice, Promise!Others

LEMMA GivesUp ==
  ASSUME NEW k \in Clients, AcquireTimeout(k) PROVE Promise!GiveUp(k)
BY SpliceIsOthers DEF AcquireTimeout, Promise!GiveUp

LEMMA Returns ==
  ASSUME Inv, NEW k \in Clients, ReleaseRecycle(k) \/ ReleaseIdle(k) PROVE Promise!Return(k)
<1>1. /\ hold[k] # NoConn /\ hold' = [hold EXCEPT ![k] = NoConn]
      /\ UNCHANGED <<queue, drained>>
  BY DEF ReleaseRecycle, ReleaseIdle
<1>2. hold[k] \in Conns
  BY <1>1 DEF Inv, TypeOK
<1>3. CASE ReleaseRecycle(k)
  <2>1. Recycles
    BY <1>2, <1>3, NeverRecycled DEF ReleaseRecycle
  <2> QED BY <1>1, <2>1 DEF Promise!Return, Promise!InTurn
<1>4. CASE ReleaseIdle(k)
  <2>1. queue = <<>>
    BY <1>4 DEF ReleaseIdle, NobodyWaits
  <2> QED BY <1>1, <2>1 DEF Promise!Return, Promise!InTurn
<1> QED BY <1>3, <1>4

LEMMA PassesOn ==
  ASSUME NEW k \in Clients, ReleaseHandOff(k) PROVE Promise!PassOn(k)
BY SpliceIsOthers DEF ReleaseHandOff, NobodyWaits, ServedWaiter, Promise!PassOn

LEMMA Closes ==
  ASSUME NEW d \in Drains, NEW timed \in BOOLEAN, Drain(d, timed) PROVE Promise!Close
BY DEF Drain, Promise!Close

LEMMA PromiseStep ==
  ASSUME Inv, AtMaxOrRecycles, [Next]_vars PROVE [Promise!Next]_Seen
<1>1. ASSUME NEW k \in Clients, AcquireIdle(k) \/ AcquireNew(k) PROVE Promise!Next
  BY <1>1, GrantedIdle, GrantedNew DEF Promise!Next
<1>2. ASSUME NEW k \in Clients, AcquireQueued(k) PROVE [Promise!Next]_Seen
  BY <1>2, WaitsOrRejected DEF Promise!Next
<1>3. ASSUME NEW k \in Clients, AcquireTimeout(k) PROVE Promise!Next
  BY <1>3, GivesUp DEF Promise!Next
<1>4. ASSUME NEW k \in Clients, ReleaseRecycle(k) \/ ReleaseIdle(k) PROVE Promise!Next
  BY <1>4, Returns DEF Promise!Next
<1>5. ASSUME NEW k \in Clients, ReleaseHandOff(k) PROVE Promise!Next
  BY <1>5, PassesOn DEF Promise!Next
<1>6. ASSUME NEW d \in Drains, NEW timed \in BOOLEAN, Drain(d, timed) PROVE Promise!Next
  BY <1>6, Closes DEF Promise!Next
<1>7. ASSUME NEW d \in Drains, DrainPoll(d) \/ DrainTimeout(d) \/ DrainFinish(d)
      PROVE  UNCHANGED Seen
  BY <1>7 DEF DrainPoll, DrainTimeout, DrainFinish, Seen, poolVars
<1>8. ASSUME NEW c \in Conns, AgeOut(c) \/ GoStale(c) PROVE UNCHANGED Seen
  BY <1>8 DEF AgeOut, GoStale, Seen, poolVars
<1>9. Reap => UNCHANGED Seen
  BY DEF Reap, Seen
<1>10. UNCHANGED vars => UNCHANGED Seen
  BY DEF vars, poolVars, Seen
<1> QED BY <1>1, <1>2, <1>3, <1>4, <1>5, <1>6, <1>7, <1>8, <1>9, <1>10 DEF Next

\* For any clients, connections, drains and options, clients see an allocator of
\* exclusive leases, at most max of them; who waits does so while all are leased, and
\* where nothing is recycled everybody is served in turn.
THEOREM PoolImplementsAllocator == Spec => ImplementsAllocator
<1>1. Init => Promise!Init
  BY DEF Init, Promise!Init
<1>2. Init => AtMaxOrRecycles
  BY DEF Init, AtMaxOrRecycles, QueueAtMax
<1>3. AtMaxOrRecycles /\ Inv /\ [Next]_vars => [Promise!Next]_Seen
  BY PromiseStep
<1> QED
  BY <1>1, <1>2, <1>3, AtMaxStep, PoolInvariant, PTL
     DEF Spec, ImplementsAllocator, Promise!Spec, Promise!promiseVars, Seen
=============================================================================
