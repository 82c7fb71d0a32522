---------------------------- MODULE StatementsProofs ----------------------------
(***************************************************************************)
(* Proofs about the statements the library builds and pages through, and   *)
(* about what it makes of their results: Scans, for any rows, keys,        *)
(* readers, page size and number of writes, Binding, for any values,       *)
(* tables, objects and length of a text, and Rows, for any contents,       *)
(* tables and results.                                                     *)
(*                                                                         *)
(* Scans.  What a query answers is the increasing enumeration of what it   *)
(* matched: AscendingOrder shows that there is one, by counting the rows   *)
(* before each.  Each of the three scans then has an invariant of its own: *)
(* what the cursor and its readers hold comes from one table when the      *)
(* table did not change between the fetches (CursorInv), a keyset scan has *)
(* the rows with every key up to its cursor (KeysetInv), and the two       *)
(* answers of an offset page are about one table (OffsetInv).              *)
(*                                                                         *)
(* Binding.  A text is bound rightly in every dialect when its numbers go  *)
(* up, each names a parameter and each parameter is named (InOrder), as    *)
(* every operation on fragments keeps it; a text of question marks is when *)
(* its values stand in their order.  What reads @name parameters keeps one *)
(* of the two (NamedInv), and paramOrder names what each placeholder       *)
(* receives as long as there was no array; the ParamBuffer holds what the  *)
(* present call was given (Holds).                                         *)
(*                                                                         *)
(* Rows.  The segments so far and the current one are the columns read cut *)
(* before each column of splitOn (Segmented), so that each is what StartOf *)
(* bounds; the parents found are those of the rows read, in the order of   *)
(* their first rows (RowsInv).                                             *)
(***************************************************************************)
EXTENDS Scans, Binding, Rows, FunctionTheorems, FiniteSetTheorems, SequenceTheorems, TLAPS

-----------------------------------------------------------------------------
(* The order of rows and the sequences of them                             *)

\* Before is a strict total order of the rows.
LEMMA BeforeOrder ==
  ASSUME NEW r \in Rows, NEW s \in Rows
  PROVE  /\ r \in Nat /\ s \in Nat /\ Key[r] \in Nat /\ Key[s] \in Nat
         /\ ~Before(r, r)
         /\ r = s \/ Before(r, s) \/ Before(s, r)
         /\ Before(r, s) => ~Before(s, r) /\ Key[r] =< Key[s]
         /\ \A t \in Rows : Before(r, s) /\ Before(s, t) => Before(r, t)
<1>1. \A t \in Rows : t \in Nat /\ Key[t] \in Nat
  BY ScanAssumption
<1> QED
  BY <1>1 DEF Before

LEMMA RowsFinite ==
  ASSUME NEW S \in SUBSET Rows
  PROVE  IsFiniteSet(S) /\ Cardinality(S) \in Nat
<1>1. IsFiniteSet(S)
  BY ScanAssumption, FS_Subset
<1> QED
  BY <1>1, FS_CardinalityType

\* Ascending enumerates the rows it is given, each once, in their order.
LEMMA AscendingOrder ==
  ASSUME NEW S \in SUBSET Rows
  PROVE  /\ Ascending(S) \in [1..Cardinality(S) -> S]
         /\ \A i, j \in 1..Cardinality(S) : i < j => Before(Ascending(S)[i], Ascending(S)[j])
         /\ \A r \in S : \E i \in 1..Cardinality(S) : Ascending(S)[i] = r
<1> DEFINE n == Cardinality(S)
           Earlier(r) == {s \in S : Before(s, r)}
           place == [r \in S |-> Cardinality(Earlier(r)) + 1]
<1>1. IsFiniteSet(S) /\ n \in Nat
  BY RowsFinite
<1>2. ASSUME NEW r \in S
      PROVE  Cardinality(Earlier(r)) \in Nat /\ Cardinality(Earlier(r)) < n
  <2>1. Earlier(r) \in SUBSET S /\ r \notin Earlier(r)
    BY BeforeOrder
  <2>2. Earlier(r) # S
    BY <2>1
  <2>3. /\ IsFiniteSet(Earlier(r)) /\ Cardinality(Earlier(r)) =< n
        /\ n = Cardinality(Earlier(r)) => S = Earlier(r)
    BY <1>1, <2>1, FS_Subset
  <2>4. Cardinality(Earlier(r)) \in Nat
    BY <2>3, FS_CardinalityType
  <2> QED
    BY <1>1, <2>2, <2>3, <2>4
<1>3. ASSUME NEW r \in S, NEW t \in S, Before(r, t)
      PROVE  place[r] < place[t]
  <2>1. Earlier(r) \in SUBSET Earlier(t)
    BY <1>3, BeforeOrder
  <2>2. r \in Earlier(t) /\ r \notin Earlier(r)
    BY <1>3, BeforeOrder
  <2>3. IsFiniteSet(Earlier(t))
    <3>1. Earlier(t) \in SUBSET S
      OBVIOUS
    <3> QED
      BY <1>1, <3>1, FS_Subset
  <2>4. /\ Cardinality(Earlier(r)) =< Cardinality(Earlier(t))
        /\ Cardinality(Earlier(t)) = Cardinality(Earlier(r)) => Earlier(t) = Earlier(r)
    BY <2>1, <2>3, FS_Subset
  <2>5. Earlier(t) # Earlier(r)
    BY <2>2
  <2> QED
    BY <1>2, <2>4, <2>5
<1>4. place \in Injection(S, 1..n)
  <2>1. place \in [S -> 1..n]
    BY <1>1, <1>2
  <2>2. ASSUME NEW r \in S, NEW t \in S, place[r] = place[t]
        PROVE  r = t
    <3>1. place[r] \in Nat /\ ~(place[r] < place[t]) /\ ~(place[t] < place[r])
      BY <1>1, <2>1, <2>2
    <3>2. ~Before(r, t) /\ ~Before(t, r)
      BY <1>3, <3>1
    <3>3. r \in Rows /\ t \in Rows
      OBVIOUS
    <3> QED
      BY <3>2, <3>3, BeforeOrder
  <2> QED
    BY <2>1, <2>2 DEF Injection, IsInjective
<1>5. place \in Surjection(S, 1..n)
  <2>1. IsFiniteSet(1..n) /\ Cardinality(1..n) = IF 1 > n THEN 0 ELSE n - 1 + 1
    BY <1>1, FS_Interval
  <2>2. Cardinality(1..n) = n
    BY <1>1, <2>1
  <2>3. Cardinality(S) = Cardinality(1..n) <=> place \in Surjection(S, 1..n)
    BY <1>4, <2>1, FS_Injection
  <2> QED
    BY <2>2, <2>3
<1>6. \A i \in 1..n : \E r \in S : place[r] = i
  BY <1>5 DEF Surjection
<1>7. ASSUME NEW i \in 1..n
      PROVE  Ascending(S)[i] \in S /\ place[Ascending(S)[i]] = i
  <2>1. PICK r \in S : place[r] = i
    BY <1>6
  <2>2. Cardinality(Earlier(r)) = i - 1
    BY <2>1, <1>2
  <2>3. Ascending(S)[i] = CHOOSE x \in S : Cardinality(Earlier(x)) = i - 1
    BY DEF Ascending
  <2>4. Ascending(S)[i] \in S /\ Cardinality(Earlier(Ascending(S)[i])) = i - 1
    BY <2>2, <2>3
  <2> QED
    BY <2>4
<1>8. Ascending(S) \in [1..n -> S]
  <2>1. Ascending(S) = [i \in 1..n |-> Ascending(S)[i]]
    BY DEF Ascending
  <2> QED
    BY <1>7, <2>1
<1>9. ASSUME NEW i \in 1..n, NEW j \in 1..n, i < j
      PROVE  Before(Ascending(S)[i], Ascending(S)[j])
  <2>1. /\ Ascending(S)[i] \in S /\ place[Ascending(S)[i]] = i
        /\ Ascending(S)[j] \in S /\ place[Ascending(S)[j]] = j
    BY <1>7
  <2>2. ~Before(Ascending(S)[j], Ascending(S)[i])
    <3>1. SUFFICES ASSUME Before(Ascending(S)[j], Ascending(S)[i])
                   PROVE  FALSE
      OBVIOUS
    <3>2. place[Ascending(S)[j]] < place[Ascending(S)[i]]
      BY <1>3, <2>1, <3>1
    <3> QED
      BY <1>9, <2>1, <3>2
  <2>3. Ascending(S)[i] # Ascending(S)[j]
    BY <1>9, <2>1
  <2> QED
    BY <2>1, <2>2, <2>3, BeforeOrder
<1>10. ASSUME NEW r \in S
       PROVE  \E i \in 1..n : Ascending(S)[i] = r
  <2>1. place[r] \in 1..n
    BY <1>4 DEF Injection
  <2>2. Ascending(S)[place[r]] \in S /\ place[Ascending(S)[place[r]]] = place[r]
    BY <1>7, <2>1
  <2>3. Ascending(S)[place[r]] = r
    BY <1>4, <2>2 DEF Injection, IsInjective
  <2> QED
    BY <2>1, <2>3
<1> QED
  BY <1>8, <1>9, <1>10

\* As a sequence.
LEMMA AscendingSeq ==
  ASSUME NEW S \in SUBSET Rows
  PROVE  /\ Ascending(S) \in Seq(S) /\ Ascending(S) \in Seq(Rows)
         /\ Len(Ascending(S)) = Cardinality(S) /\ Cardinality(S) \in Nat
<1>1. Cardinality(S) \in Nat
  BY RowsFinite
<1>2. Ascending(S) \in [1..Cardinality(S) -> S]
  BY AscendingOrder
<1>3. Ascending(S) \in Seq(S) /\ Ascending(S) \in Seq(Rows)
  BY <1>1, <1>2
<1> QED
  BY <1>1, <1>2, <1>3, LenProperties

\* The first rows of a sequence.
LEMMA FirstIs ==
  ASSUME NEW S, NEW seq \in Seq(S), NEW n \in Nat
  PROVE  /\ First(seq, n) \in Seq(S)
         /\ Len(First(seq, n)) = IF Len(seq) < n THEN Len(seq) ELSE n
         /\ \A i \in 1..Len(First(seq, n)) : i \in 1..Len(seq) /\ First(seq, n)[i] = seq[i]
<1> DEFINE m == IF Len(seq) < n THEN Len(seq) ELSE n
<1>1. Len(seq) \in Nat /\ m \in Nat /\ m =< Len(seq) /\ 1 =< m + 1
  BY LenProperties
<1>2. First(seq, n) = SubSeq(seq, 1, m)
  BY DEF First
<1>3. SubSeq(seq, 1, m) = [i \in 1..m |-> seq[i]]
  BY <1>1
<1>4. \A i \in 1..m : i \in 1..Len(seq) /\ seq[i] \in S
  BY <1>1, ElementOfSeq
<1>5. First(seq, n) \in Seq(S) /\ Len(First(seq, n)) = m
  BY <1>1, <1>2, <1>3, <1>4
<1> QED
  BY <1>1, <1>2, <1>3, <1>4, <1>5

-----------------------------------------------------------------------------
(* The invariants                                                          *)

TableTyped == table \in SUBSET Rows /\ writes \in Nat
CursorTyped ==
  /\ cursor \in [rows : Seq(Rows), index : Nat, fetched : BOOLEAN, closed : BOOLEAN]
  /\ reading \in [Readers -> [at : {"idle", "asked", "ran"}, rows : Seq(Rows)]]
  /\ handed \in Seq(Rows) /\ fetches \in SUBSET (0..writes)
KeysetTyped ==
  keyset \in [direction : {None, "asc", "desc"}, limit : Nat, cursor : Nat \union {None},
              seen : Seq(Rows), last : BOOLEAN, kept : SUBSET table]
OffsetTyped ==
  /\ offset \in [page : 0..MaxPage, pageSize : Nat, stage : SUBSET {"rows", "count"}, rows : Seq(Rows),
                 total : Nat, at : SUBSET (0..writes),
                 answer : {None} \union [totalPages : Int, hasNext : BOOLEAN, hasPrev : BOOLEAN]]
  /\ offset.stage # {} => offset.page # 0
STypes == TableTyped /\ CursorTyped /\ KeysetTyped /\ OffsetTyped

\* Before a query of the cursor ran, nobody has any row.
Unread == fetches = {} =>
  /\ handed = <<>> /\ cursor.index = 0 /\ cursor.rows = <<>> /\ ~cursor.fetched
  /\ \A r \in Readers : reading[r].at # "ran"

\* Everything that was fetched is what the table held when it was T; a closed
\* cursor has let go of it, or got it again from a reader that was late.
ReadOf(T) ==
  /\ \A r \in Readers : reading[r].at = "ran" => reading[r].rows = Ascending(T)
  /\ cursor.rows \in {<<>>, Ascending(T)}
  /\ cursor.fetched /\ ~cursor.closed => cursor.rows = Ascending(T)
  /\ cursor.index =< Cardinality(T)
  /\ handed = First(Ascending(T), cursor.index)

CursorInv ==
  /\ Unread
  /\ \A v \in fetches : fetches = {v} =>
       \E T \in SUBSET Rows : (writes = v => table = T) /\ ReadOf(T)

\* The order of a scan, and the keys it has passed when its cursor is at one.
Ahead(direction, r, s) == IF direction = "asc" THEN Before(r, s) ELSE Before(s, r)
Passed(direction, key, payload) == IF direction = "asc" THEN key =< payload ELSE key >= payload

\* A keyset scan has rows in order, none beyond its cursor, and of what was
\* there all along it has every key up to the cursor: at the end, every key.
KeysetInv ==
  LET seen == keyset.seen IN
  /\ \A i, j \in 1..Len(seen) : i < j => Ahead(keyset.direction, seen[i], seen[j])
  /\ keyset.cursor # None =>
       \A i \in 1..Len(seen) : Passed(keyset.direction, Key[seen[i]], keyset.cursor)
  /\ keyset.cursor = None /\ ~keyset.last => seen = <<>>
  /\ keyset.limit = 0 => keyset.cursor = None
  /\ \A row \in keyset.kept :
       keyset.last \/ (keyset.cursor # None /\ Passed(keyset.direction, Key[row], keyset.cursor)) =>
         \E i \in 1..Len(seen) : Key[seen[i]] = Key[row]

\* The rows of a page, and those of the page asked for in the table when it was T.
Slice(seq, page, size) ==
  LET skip == (page - 1) * size
  IN SubSeq(seq, skip + 1, Len(First(seq, skip + size)))
PageOf(T) == Slice(Ascending(T), offset.page, offset.pageSize)

OffsetInv ==
  /\ offset.page = 0 \/ offset.pageSize = 0 => offset.rows = <<>>
  /\ offset.page = 0 => offset.at = {} /\ offset.stage = {} /\ offset.answer = None
  /\ offset.page # 0 /\ offset.at = {} => offset.stage = {"rows", "count"}
  /\ \A v \in offset.at : offset.at = {v} =>
       \E T \in SUBSET Rows :
         /\ writes = v => table = T
         /\ "rows" \notin offset.stage => offset.rows = PageOf(T)
         /\ "count" \notin offset.stage => offset.total = Cardinality(T)
  /\ offset.answer # None =>
       /\ offset.page # 0 /\ offset.stage = {}
       /\ offset.answer = [totalPages |-> totalPages(offset.total, offset.pageSize),
                           hasNext |-> offset.page < totalPages(offset.total, offset.pageSize),
                           hasPrev |-> offset.page > 1]

SInv == STypes /\ CursorInv /\ KeysetInv /\ OffsetInv

-----------------------------------------------------------------------------
(* A keyset page                                                           *)

\* The rows a scan may ask for, in its order.
LEMMA OrderedRows ==
  ASSUME NEW S \in SUBSET Rows, NEW direction
  PROVE  LET seq == Ordered(direction, S) IN
         /\ seq \in Seq(S) /\ seq \in Seq(Rows)
         /\ Len(seq) \in Nat
         /\ \A i \in 1..Len(seq) : seq[i] \in S
         /\ \A i, j \in 1..Len(seq) : i < j => Ahead(direction, seq[i], seq[j])
         /\ \A r \in S : \E i \in 1..Len(seq) : seq[i] = r
<1> DEFINE n == Cardinality(S)
           A == Ascending(S)
<1>1. /\ A \in [1..n -> S]
      /\ \A i, j \in 1..n : i < j => Before(A[i], A[j])
      /\ \A r \in S : \E i \in 1..n : A[i] = r
  BY AscendingOrder
<1>2. n \in Nat /\ A \in Seq(S) /\ A \in Seq(Rows) /\ Len(A) = n
  BY AscendingSeq
<1>3. CASE direction = "asc"
  <2>1. Ordered(direction, S) = A
    BY <1>3 DEF Ordered
  <2> QED
    BY <1>1, <1>2, <1>3, <2>1 DEF Ahead
<1>4. CASE direction # "asc"
  <2> DEFINE D == Ordered(direction, S)
  <2>1. D = [i \in 1..n |-> A[n + 1 - i]]
    BY <1>4 DEF Ordered, Descending
  <2>2. \A i \in 1..n : n + 1 - i \in 1..n
    BY <1>2
  <2>3. \A i \in 1..n : D[i] = A[n + 1 - i] /\ D[i] \in S
    BY <1>1, <2>1, <2>2
  <2>4. D \in [1..n -> S]
    BY <2>1, <2>3
  <2>5. D \in Seq(S) /\ D \in Seq(Rows)
    BY <1>2, <2>4
  <2>6. Len(D) = n
    BY <1>2, <2>4, <2>5, LenProperties
  <2>7. ASSUME NEW i \in 1..n, NEW j \in 1..n, i < j
        PROVE  Ahead(direction, D[i], D[j])
    <3>1. n + 1 - j < n + 1 - i
      BY <1>2, <2>7
    <3>2. Before(A[n + 1 - j], A[n + 1 - i])
      BY <1>1, <2>2, <3>1
    <3> QED
      BY <1>4, <2>3, <3>2 DEF Ahead
  <2>8. ASSUME NEW r \in S
        PROVE  \E i \in 1..n : D[i] = r
    <3>1. PICK j \in 1..n : A[j] = r
      BY <1>1
    <3>2. n + 1 - j \in 1..n /\ n + 1 - (n + 1 - j) = j
      BY <1>2
    <3> QED
      BY <2>3, <3>1, <3>2
  <2> QED
    BY <1>2, <2>3, <2>5, <2>6, <2>7, <2>8
<1> QED
  BY <1>3, <1>4

Matching(direction, payload) ==
  {r \in table : payload # None => Beyond(r, direction, payload)}

\* A page is the first rows of those beyond the cursor; the row more that it
\* asks for tells whether there are others.
LEMMA PageRows ==
  ASSUME table \in SUBSET Rows, NEW direction, NEW payload, NEW limit \in Nat
  PROVE  LET page == cursorPage(direction, payload, limit)
             all == Ordered(direction, Matching(direction, payload))
         IN /\ page.rows \in Seq(Rows)
            /\ page.hasNext <=> Len(all) > limit
            /\ Len(page.rows) = IF Len(all) < limit THEN Len(all) ELSE limit
            /\ \A i \in 1..Len(page.rows) : i \in 1..Len(all) /\ page.rows[i] = all[i]
            /\ page.nextCursor = IF page.hasNext /\ limit > 0 THEN Key[page.rows[limit]] ELSE None
            /\ page.nextCursor # None => page.nextCursor \in Nat
<1> DEFINE page == cursorPage(direction, payload, limit)
           all == Ordered(direction, Matching(direction, payload))
           raw == First(all, limit + 1)
           rows == First(raw, limit)
<1>1. limit \in Nat /\ limit + 1 \in Nat
  OBVIOUS
<1>2. all \in Seq(Rows) /\ Len(all) \in Nat
  <2>1. Matching(direction, payload) \in SUBSET Rows
    BY DEF Matching
  <2> QED
    BY <2>1, OrderedRows
<1>3. /\ raw \in Seq(Rows)
      /\ Len(raw) = IF Len(all) < limit + 1 THEN Len(all) ELSE limit + 1
      /\ \A i \in 1..Len(raw) : i \in 1..Len(all) /\ raw[i] = all[i]
  BY <1>1, <1>2, FirstIs
<1>4. /\ rows \in Seq(Rows)
      /\ Len(rows) = IF Len(raw) < limit THEN Len(raw) ELSE limit
      /\ \A i \in 1..Len(rows) : i \in 1..Len(raw) /\ rows[i] = raw[i]
  BY <1>1, <1>3, FirstIs
<1>5. Len(raw) > limit <=> Len(all) > limit
  BY <1>1, <1>2, <1>3
<1>6. Len(rows) = IF Len(all) < limit THEN Len(all) ELSE limit
  BY <1>1, <1>2, <1>3, <1>4
<1>7. /\ page.rows = rows
      /\ page.hasNext = (Len(raw) > limit)
      /\ page.nextCursor = IF Len(raw) > limit /\ rows # <<>> THEN Key[rows[Len(rows)]] ELSE None
  BY DEF cursorPage, Matching
<1>8. Len(raw) > limit => /\ Len(rows) = limit /\ (rows # <<>> <=> limit > 0)
                          /\ limit > 0 => rows[limit] \in Rows
  <2>1. Len(raw) > limit => Len(rows) = limit
    BY <1>1, <1>2, <1>5, <1>6
  <2>2. Len(rows) = limit /\ limit > 0 => limit \in 1..Len(rows)
    BY <1>1
  <2>3. rows # <<>> <=> Len(rows) > 0
    BY <1>4, LenProperties, EmptySeq
  <2> QED
    BY <1>4, <2>1, <2>2, <2>3, ElementOfSeq
<1>9. \A r \in Rows : Key[r] \in Nat
  BY BeforeOrder
<1> QED
  BY <1>3, <1>4, <1>5, <1>6, <1>7, <1>8, <1>9

-----------------------------------------------------------------------------
(* Types                                                                   *)

LEMMA TypesStart == Init => STypes
<1> SUFFICES ASSUME Init PROVE STypes
  OBVIOUS
<1>1. /\ table \in SUBSET Rows /\ writes \in Nat /\ MaxPage \in Nat
      /\ <<>> \in Seq(Rows)
  BY ScanAssumption DEF Init
<1> QED
  BY <1>1 DEF Init, STypes, TableTyped, CursorTyped, KeysetTyped, OffsetTyped, Fresh, Idle

\* A cursor that delivers keeps its fields, and hands out a row it has.
LEMMA DeliversTyped ==
  ASSUME handed \in Seq(Rows),
         NEW c \in [rows : Seq(Rows), index : Nat, fetched : BOOLEAN, closed : BOOLEAN],
         Delivers(c)
  PROVE  /\ cursor' \in [rows : Seq(Rows), index : Nat, fetched : BOOLEAN, closed : BOOLEAN]
         /\ handed' \in Seq(Rows)
<1>1. CASE c.index < Len(c.rows)
  <2>1. c.index + 1 \in 1..Len(c.rows)
    BY <1>1, LenProperties
  <2>2. c.rows[c.index + 1] \in Rows
    BY <2>1, ElementOfSeq
  <2>3. handed' = Append(handed, c.rows[c.index + 1]) /\ cursor' = [c EXCEPT !.index = @ + 1]
    BY <1>1 DEF Delivers
  <2>4. handed' \in Seq(Rows)
    BY <2>2, <2>3, AppendProperties
  <2>5. c.index + 1 \in Nat
    OBVIOUS
  <2> QED
    BY <2>3, <2>4, <2>5
<1>2. CASE ~(c.index < Len(c.rows))
  BY <1>2 DEF Delivers
<1> QED
  BY <1>1, <1>2

\* The rows of a page, by the numbers of the page and of the rows.
LEMMA PageSlice ==
  ASSUME NEW seq \in Seq(Rows), NEW page \in Nat \ {0}, NEW limit \in Nat
  PROVE  LET skip == (page - 1) * limit
             rows == Slice(seq, page, limit)
         IN /\ rows \in Seq(Rows) /\ skip \in Nat
            /\ Len(rows) = IF Len(seq) =< skip THEN 0
                           ELSE IF Len(seq) < skip + limit THEN Len(seq) - skip ELSE limit
<1> DEFINE skip == (page - 1) * limit
           m == Len(First(seq, skip + limit))
           rows == SubSeq(seq, skip + 1, m)
<1>1. skip \in Nat /\ limit \in Nat /\ skip + limit \in Nat
  OBVIOUS
<1>2. Len(seq) \in Nat
  BY LenProperties
<1>3. m = IF Len(seq) < skip + limit THEN Len(seq) ELSE skip + limit
  BY <1>1, FirstIs
<1>4. m \in Nat /\ m =< Len(seq)
  BY <1>1, <1>2, <1>3
<1> HIDE DEF skip, m
<1>5. rows = [i \in 1..(m - skip) |-> seq[i + skip]]
  <2>1. rows = [i \in 1..(1 + m - (skip + 1)) |-> seq[i + (skip + 1) - 1]]
    BY <1>1, <1>4
  <2>2. \A i \in 1..(m - skip) : i + (skip + 1) - 1 = i + skip
    BY <1>1, <1>4
  <2>3. 1 + m - (skip + 1) = m - skip
    BY <1>1, <1>4
  <2> QED
    BY <2>1, <2>2, <2>3
<1>6. \A i \in 1..(m - skip) : i + skip \in 1..Len(seq)
  BY <1>1, <1>2, <1>4
<1>7. \A i \in 1..(m - skip) : seq[i + skip] \in Rows
  BY <1>6, ElementOfSeq
<1>8. rows \in Seq(Rows) /\ Len(rows) = IF m =< skip THEN 0 ELSE m - skip
  <2> HIDE DEF rows
  <2>1. CASE m =< skip
    <3>1. 1..(m - skip) = {} /\ 1..0 = {}
      BY <1>1, <1>4, <2>1
    <3>2. rows = [i \in 1..0 |-> seq[i + skip]]
      BY <1>5, <3>1
    <3>3. rows \in [1..0 -> Rows]
      BY <3>1, <3>2
    <3>4. rows \in Seq(Rows)
      <4>1. 0 \in Nat
        OBVIOUS
      <4> QED
        BY <3>3, <4>1
    <3>5. Len(rows) = 0
      BY <3>3, <3>4, LenProperties
    <3> QED
      BY <2>1, <3>4, <3>5
  <2>2. CASE ~(m =< skip)
    <3>1. m - skip \in Nat
      BY <1>1, <1>4, <2>2
    <3>2. rows \in [1..(m - skip) -> Rows]
      BY <1>5, <1>7
    <3>3. rows \in Seq(Rows)
      BY <3>1, <3>2
    <3>4. Len(rows) = m - skip
      BY <3>1, <3>2, <3>3, LenProperties
    <3> QED
      BY <2>2, <3>3, <3>4
  <2> QED
    BY <2>1, <2>2
<1>9. Len(rows) = IF Len(seq) =< skip THEN 0
                  ELSE IF Len(seq) < skip + limit THEN Len(seq) - skip ELSE limit
  BY <1>1, <1>2, <1>3, <1>8
<1> QED
  BY <1>1, <1>8, <1>9 DEF skip, m, Slice

LEMMA TypesKept == STypes /\ [Next]_vars => STypes'
<1> SUFFICES ASSUME STypes, [Next]_vars
             PROVE  STypes'
  OBVIOUS
<1> DEFINE Cur == [rows : Seq(Rows), index : Nat, fetched : BOOLEAN, closed : BOOLEAN]
           Read == [at : {"idle", "asked", "ran"}, rows : Seq(Rows)]
<1>0. /\ table \in SUBSET Rows /\ writes \in Nat /\ writes + 1 \in Nat /\ MaxPage \in Nat
      /\ cursor \in Cur /\ reading \in [Readers -> Read]
      /\ handed \in Seq(Rows) /\ fetches \in SUBSET (0..writes)
      /\ <<>> \in Seq(Rows) /\ Idle \in Read
      /\ Ascending(table) \in Seq(Rows)
  <2>1. <<>> \in Seq(Rows) /\ Idle \in Read
    BY DEF Idle
  <2> QED
    BY <2>1, ScanAssumption, AscendingSeq DEF STypes, TableTyped, CursorTyped
<1>1. ASSUME NEW row \in Rows, Writes(row)
      PROVE  STypes'
  <2>1. /\ table' \in SUBSET Rows /\ writes' = writes + 1
        /\ keyset' = [keyset EXCEPT !.kept = @ \intersect table']
        /\ UNCHANGED <<cursor, reading, handed, fetches, offset>>
    BY <1>0, <1>1 DEF Writes
  <2>2. 0..writes \subseteq 0..writes' /\ writes' \in Nat
    BY <1>0, <2>1
  <2>3. CursorTyped' /\ TableTyped'
    BY <1>0, <2>1, <2>2 DEF CursorTyped, TableTyped
  <2>4. KeysetTyped'
    BY <2>1 DEF STypes, KeysetTyped
  <2>5. OffsetTyped'
    BY <2>1, <2>2, SMTT(30) DEF STypes, OffsetTyped
  <2> QED
    BY <2>3, <2>4, <2>5 DEF STypes
<1>2. ASSUME NEW r \in Readers, stream(r)
      PROVE  STypes'
  <2>0. UNCHANGED <<table, writes, keyset, offset>>
    BY <1>2 DEF stream, NextFetched, NextAsks, NextRuns, NextAnswered, NextFails, close
  <2>1. /\ cursor' \in Cur /\ reading' \in [Readers -> Read]
        /\ handed' \in Seq(Rows) /\ fetches' \in SUBSET (0..writes)
    <3>1. CASE NextFetched(r)
      BY <1>0, <3>1, DeliversTyped DEF NextFetched
    <3>2. CASE NextAsks(r)
      BY <1>0, <3>2 DEF NextAsks
    <3>3. CASE NextRuns(r)
      <4>1. /\ reading' = [reading EXCEPT ![r] = [at |-> "ran", rows |-> Ascending(table)]]
            /\ fetches' = fetches \union {writes}
            /\ UNCHANGED <<cursor, handed>>
        BY <3>3 DEF NextRuns
      <4> QED
        BY <1>0, <4>1
    <3>4. CASE NextAnswered(r)
      <4> DEFINE c == [cursor EXCEPT !.rows = reading[r].rows, !.fetched = TRUE]
      <4>1. c \in Cur
        BY <1>0
      <4>2. /\ Delivers(c) /\ UNCHANGED fetches
            /\ reading' = [reading EXCEPT ![r] = Idle]
        BY <3>4 DEF NextAnswered
      <4>3. cursor' \in Cur /\ handed' \in Seq(Rows)
        BY <1>0, <4>1, <4>2, DeliversTyped
      <4> QED
        BY <1>0, <4>2, <4>3
    <3>5. CASE NextFails(r)
      BY <1>0, <3>5 DEF NextFails
    <3>6. CASE close
      BY <1>0, <3>6 DEF close
    <3> QED
      BY <1>2, <3>1, <3>2, <3>3, <3>4, <3>5, <3>6 DEF stream
  <2>2. CursorTyped' /\ TableTyped'
    BY <1>0, <2>0, <2>1 DEF CursorTyped, TableTyped
  <2>3. KeysetTyped' /\ OffsetTyped'
    BY <2>0 DEF STypes, KeysetTyped, OffsetTyped
  <2> QED
    BY <2>2, <2>3 DEF STypes
<1>3. ASSUME NEW direction \in {"asc", "desc"}, NEW limit \in Sizes, StartsKeyset(direction, limit)
      PROVE  STypes'
  <2>1. /\ keyset' = [direction |-> direction, limit |-> limit, cursor |-> None, seen |-> <<>>,
                      last |-> FALSE, kept |-> table]
        /\ UNCHANGED <<table, writes, cursor, reading, handed, fetches, offset>>
    BY <1>3 DEF StartsKeyset, Fresh
  <2>2. KeysetTyped'
    BY <1>0, <2>1, ScanAssumption DEF KeysetTyped
  <2> QED
    BY <2>1, <2>2 DEF STypes, TableTyped, CursorTyped, OffsetTyped
<1>4. CASE NextPage
  <2> DEFINE page == cursorPage(keyset.direction, keyset.cursor, keyset.limit)
  <2>0. keyset.limit \in Nat
    BY DEF STypes, KeysetTyped
  <2>1. /\ page.rows \in Seq(Rows) /\ page.nextCursor \in Nat \union {None}
    BY <1>0, <2>0, PageRows
  <2>2. /\ keyset' = [keyset EXCEPT !.seen = @ \o page.rows, !.cursor = page.nextCursor,
                                    !.last = ~page.hasNext]
        /\ UNCHANGED <<table, writes, cursor, reading, handed, fetches, offset>>
    BY <1>4 DEF NextPage
  <2>3. keyset.seen \o page.rows \in Seq(Rows)
    BY <2>1, ConcatProperties DEF STypes, KeysetTyped
  <2>4. KeysetTyped'
    BY <2>1, <2>2, <2>3 DEF STypes, KeysetTyped
  <2> QED
    BY <2>2, <2>4 DEF STypes, TableTyped, CursorTyped, OffsetTyped
<1>5. ASSUME OffsetTyped', UNCHANGED <<table, writes, cursor, reading, handed, fetches, keyset>>
      PROVE  STypes'
  BY <1>5 DEF STypes, TableTyped, CursorTyped, KeysetTyped
<1>6. ASSUME NEW page \in 1..MaxPage, NEW pageSize \in Sizes, offsetPage(page, pageSize)
      PROVE  STypes'
  <2>1. page \in 0..MaxPage /\ page # 0 /\ pageSize \in Nat
    BY <1>0, ScanAssumption
  <2>2. offset' = [offset EXCEPT !.page = page, !.pageSize = pageSize, !.stage = {"rows", "count"}]
    BY <1>6 DEF offsetPage
  <2>3. OffsetTyped'
    BY <1>6, <2>1, <2>2 DEF STypes, OffsetTyped, offsetPage
  <2> QED
    BY <1>5, <1>6, <2>3 DEF offsetPage
<1>7. CASE OffsetRows
  <2> DEFINE skip == (offset.page - 1) * offset.pageSize
             all == Ascending(table)
             rows == SubSeq(all, skip + 1, Len(First(all, skip + offset.pageSize)))
  <2>1. /\ offset' = [offset EXCEPT !.stage = @ \ {"rows"}, !.at = @ \union {writes}, !.rows = rows]
        /\ "rows" \in offset.stage /\ UNCHANGED writes
    BY <1>7 DEF OffsetRows
  <2>2. offset.page \in Nat \ {0} /\ offset.pageSize \in Nat
    BY <1>0, <2>1 DEF STypes, OffsetTyped
  <2>3. rows \in Seq(Rows)
    <3>1. all \in Seq(Rows) /\ rows = Slice(all, offset.page, offset.pageSize)
      BY <1>0, AscendingSeq DEF Slice
    <3> HIDE DEF all, rows
    <3> QED
      BY <2>2, <3>1, PageSlice
  <2> HIDE DEF rows
  <2>4. offset.stage \ {"rows"} \in SUBSET {"rows", "count"}
    BY DEF STypes, OffsetTyped
  <2>5. offset.at \union {writes} \in SUBSET (0..writes)
    BY <1>0 DEF STypes, OffsetTyped
  <2>6. OffsetTyped'
    BY <2>1, <2>2, <2>3, <2>4, <2>5 DEF STypes, OffsetTyped
  <2> QED
    BY <1>5, <1>7, <2>6 DEF OffsetRows
<1>8. CASE OffsetCount
  <2>1. Cardinality(table) \in Nat
    BY <1>0, RowsFinite
  <2>2. /\ offset' = [offset EXCEPT !.stage = @ \ {"count"}, !.at = @ \union {writes},
                                    !.total = Cardinality(table)]
        /\ "count" \in offset.stage /\ UNCHANGED writes
    BY <1>8 DEF OffsetCount
  <2>3. offset.page # 0
    BY <2>2 DEF STypes, OffsetTyped
  <2>4. offset.stage \ {"count"} \in SUBSET {"rows", "count"}
    BY DEF STypes, OffsetTyped
  <2>5. offset.at \union {writes} \in SUBSET (0..writes)
    BY <1>0 DEF STypes, OffsetTyped
  <2>6. OffsetTyped'
    BY <2>1, <2>2, <2>3, <2>4, <2>5 DEF STypes, OffsetTyped
  <2> QED
    BY <1>5, <1>8, <2>6 DEF OffsetCount
<1>9. CASE OffsetAnswers
  <2> DEFINE answer == [totalPages |-> totalPages(offset.total, offset.pageSize),
                        hasNext |-> offset.page < totalPages(offset.total, offset.pageSize),
                        hasPrev |-> offset.page > 1]
  <2>1. totalPages(offset.total, offset.pageSize) \in Int
    <3>1. offset.total \in Nat /\ offset.pageSize \in Nat
      BY DEF STypes, OffsetTyped
    <3> QED
      BY <3>1 DEF totalPages
  <2>2. answer \in [totalPages : Int, hasNext : BOOLEAN, hasPrev : BOOLEAN]
    BY <2>1
  <2>3. offset' = [offset EXCEPT !.answer = answer] /\ UNCHANGED writes
    BY <1>9 DEF OffsetAnswers
  <2> HIDE DEF answer
  <2>4. OffsetTyped'
    BY <2>2, <2>3 DEF STypes, OffsetTyped
  <2> QED
    BY <1>5, <1>9, <2>4 DEF OffsetAnswers
<1>10. CASE UNCHANGED vars
  BY <1>10 DEF STypes, TableTyped, CursorTyped, KeysetTyped, OffsetTyped, vars
<1> QED
  BY <1>1, <1>2, <1>3, <1>4, <1>6, <1>7, <1>8, <1>9, <1>10 DEF Next

-----------------------------------------------------------------------------
(* The cursor                                                              *)

\* One row more of the first rows of a sequence.
LEMMA FirstNext ==
  ASSUME NEW seq \in Seq(Rows), NEW n \in Nat, n < Len(seq)
  PROVE  Append(First(seq, n), seq[n + 1]) = First(seq, n + 1)
<1> DEFINE a == Append(First(seq, n), seq[n + 1])
           b == First(seq, n + 1)
<1>1. /\ First(seq, n) \in Seq(Rows) /\ Len(First(seq, n)) = n
      /\ \A i \in 1..n : First(seq, n)[i] = seq[i]
  BY FirstIs, LenProperties
<1>2. /\ b \in Seq(Rows) /\ Len(b) = n + 1
      /\ \A i \in 1..(n + 1) : b[i] = seq[i]
  BY FirstIs, LenProperties
<1>3. seq[n + 1] \in Rows
  BY LenProperties, ElementOfSeq
<1>4. /\ a \in Seq(Rows) /\ Len(a) = n + 1
      /\ \A i \in 1..n : a[i] = seq[i]
      /\ a[n + 1] = seq[n + 1]
  BY <1>1, <1>3, AppendProperties
<1>5. \A i \in 1..(n + 1) : a[i] = b[i]
  BY <1>2, <1>4
<1> QED
  BY <1>2, <1>4, <1>5, SeqEqual

\* What a cursor hands out goes on where it stopped.
LEMMA DeliversNext ==
  ASSUME NEW T \in SUBSET Rows,
         NEW c \in [rows : Seq(Rows), index : Nat, fetched : BOOLEAN, closed : BOOLEAN],
         c.rows = Ascending(T), c.index =< Cardinality(T),
         handed = First(Ascending(T), c.index), Delivers(c)
  PROVE  /\ cursor'.rows = Ascending(T) /\ cursor'.index =< Cardinality(T)
         /\ handed' = First(Ascending(T), cursor'.index)
<1>1. Ascending(T) \in Seq(Rows) /\ Len(Ascending(T)) = Cardinality(T) /\ Cardinality(T) \in Nat
  BY AscendingSeq
<1>2. CASE c.index < Cardinality(T)
  <2>1. cursor' = [c EXCEPT !.index = @ + 1] /\ handed' = Append(handed, Ascending(T)[c.index + 1])
    BY <1>1, <1>2 DEF Delivers
  <2>2. cursor'.rows = c.rows /\ cursor'.index = c.index + 1
    BY <2>1
  <2>3. handed' = First(Ascending(T), c.index + 1)
    BY <1>1, <1>2, <2>1, FirstNext
  <2> QED
    BY <1>1, <1>2, <2>2, <2>3
<1>3. CASE ~(c.index < Cardinality(T))
  BY <1>1, <1>3 DEF Delivers
<1> QED
  BY <1>2, <1>3

LEMMA CursorStart == Init => CursorInv
  BY DEF Init, CursorInv, Unread, Idle

LEMMA CursorKept == STypes /\ CursorInv /\ [Next]_vars => CursorInv'
<1> SUFFICES ASSUME STypes, CursorInv, [Next]_vars
             PROVE  CursorInv'
  OBVIOUS
<1> DEFINE Cur == [rows : Seq(Rows), index : Nat, fetched : BOOLEAN, closed : BOOLEAN]
           Read == [at : {"idle", "asked", "ran"}, rows : Seq(Rows)]
           Same(v, T) == (writes = v => table = T) /\ ReadOf(T)
<1>0. /\ table \in SUBSET Rows /\ writes \in Nat
      /\ cursor \in Cur /\ reading \in [Readers -> Read]
      /\ handed \in Seq(Rows) /\ fetches \in SUBSET (0..writes)
  BY DEF STypes, TableTyped, CursorTyped
<1>1. ASSUME NEW row \in Rows, Writes(row)
      PROVE  CursorInv'
  <2>1. writes' = writes + 1 /\ UNCHANGED <<cursor, reading, handed, fetches>>
    BY <1>1 DEF Writes
  <2>2. ASSUME NEW v \in fetches, fetches = {v}
        PROVE  \E T \in SUBSET Rows : (writes' = v => table' = T) /\ ReadOf(T)'
    <3>1. PICK T \in SUBSET Rows : ReadOf(T)
      BY <2>2 DEF CursorInv
    <3>2. ReadOf(T)'
      BY <2>1, <3>1 DEF ReadOf
    <3>3. writes' # v
      BY <1>0, <2>1
    <3> QED
      BY <3>2, <3>3
  <2> QED
    BY <2>1, <2>2 DEF CursorInv, Unread
<1>2. ASSUME NEW r \in Readers, stream(r)
      PROVE  CursorInv'
  <2>0. UNCHANGED <<table, writes>>
    BY <1>2 DEF stream, NextFetched, NextAsks, NextRuns, NextAnswered, NextFails, close
  <2>1. ASSUME UNCHANGED fetches, Unread',
               \A T \in SUBSET Rows : ReadOf(T) => ReadOf(T)'
        PROVE  CursorInv'
    BY <2>0, <2>1 DEF CursorInv
  <2>2. CASE NextFetched(r)
    <3>1. cursor.fetched /\ ~cursor.closed /\ Delivers(cursor) /\ UNCHANGED <<reading, fetches>>
      BY <2>2 DEF NextFetched, Exhausted
    <3>2. Unread'
      BY <3>1 DEF CursorInv, Unread
    <3>3. ASSUME NEW T \in SUBSET Rows, ReadOf(T)
          PROVE  ReadOf(T)'
      BY <1>0, <3>1, <3>3, DeliversNext DEF ReadOf
    <3> QED
      BY <2>1, <3>1, <3>2, <3>3
  <2>3. CASE NextAsks(r)
    <3>1. /\ reading[r].at = "idle" /\ reading' = [reading EXCEPT ![r].at = "asked"]
          /\ UNCHANGED <<cursor, handed, fetches>>
      BY <2>3 DEF NextAsks
    <3>2. \A q \in Readers : reading'[q].at = "ran" => reading'[q] = reading[q]
      BY <1>0, <3>1
    <3>3. Unread'
      BY <3>1, <3>2 DEF CursorInv, Unread
    <3> QED
      BY <2>1, <3>1, <3>2, <3>3 DEF ReadOf
  <2>4. CASE NextRuns(r)
    <3>1. /\ reading' = [reading EXCEPT ![r] = [at |-> "ran", rows |-> Ascending(table)]]
          /\ fetches' = fetches \union {writes}
          /\ UNCHANGED <<cursor, handed>>
      BY <2>4 DEF NextRuns
    <3>2. \A q \in Readers : reading'[q] = reading[q]
                             \/ reading'[q] = [at |-> "ran", rows |-> Ascending(table)]
      BY <1>0, <3>1
    <3>3. ASSUME NEW v \in fetches', fetches' = {v}
          PROVE  \E T \in SUBSET Rows : (writes' = v => table' = T) /\ ReadOf(T)'
      <4>1. v = writes
        BY <3>1, <3>3
      <4>2. ReadOf(table) \/ fetches = {}
        <5>1. fetches # {} => fetches = {writes}
          BY <3>1, <3>3, <4>1
        <5> QED
          BY <5>1 DEF CursorInv
      <4>3. ReadOf(table)'
        <5>1. CASE ReadOf(table)
          BY <2>0, <3>1, <3>2, <5>1 DEF ReadOf
        <5>2. CASE fetches = {}
          <6>1. /\ handed = <<>> /\ cursor.index = 0 /\ cursor.rows = <<>> /\ ~cursor.fetched
                /\ \A q \in Readers : reading[q].at # "ran"
            BY <5>2 DEF CursorInv, Unread
          <6>2. 0 =< Cardinality(table) /\ Ascending(table) \in Seq(Rows)
            BY <1>0, AscendingSeq
          <6>3. First(Ascending(table), 0) = <<>>
            BY <6>2, FirstIs, LenProperties, EmptySeq
          <6> QED
            BY <2>0, <3>1, <3>2, <6>1, <6>2, <6>3 DEF ReadOf
        <5> QED
          BY <4>2, <5>1, <5>2
      <4> QED
        BY <1>0, <2>0, <4>1, <4>3
    <3>4. Unread'
      BY <3>1 DEF Unread
    <3> QED
      BY <3>3, <3>4 DEF CursorInv
  <2>5. CASE NextAnswered(r)
    <3> DEFINE c == [cursor EXCEPT !.rows = reading[r].rows, !.fetched = TRUE]
    <3>1. /\ reading[r].at = "ran" /\ reading' = [reading EXCEPT ![r] = Idle]
          /\ Delivers(c) /\ UNCHANGED fetches
      BY <2>5 DEF NextAnswered
    <3>2. fetches # {}
      BY <3>1 DEF CursorInv, Unread
    <3>3. Unread'
      BY <3>1, <3>2 DEF Unread
    <3>4. ASSUME NEW T \in SUBSET Rows, ReadOf(T)
          PROVE  ReadOf(T)'
      <4>1. c \in Cur /\ c.rows = Ascending(T) /\ c.index = cursor.index
        BY <1>0, <3>1, <3>4 DEF ReadOf
      <4>2. c.index =< Cardinality(T) /\ handed = First(Ascending(T), c.index)
        BY <3>4, <4>1 DEF ReadOf
      <4>3. /\ cursor'.rows = Ascending(T) /\ cursor'.index =< Cardinality(T)
            /\ handed' = First(Ascending(T), cursor'.index)
        BY <1>0, <3>1, <4>1, <4>2, DeliversNext
      <4>4. \A q \in Readers : reading'[q].at = "ran" => reading'[q] = reading[q]
        BY <1>0, <3>1 DEF Idle
      <4> QED
        BY <3>4, <4>3, <4>4 DEF ReadOf
    <3> QED
      BY <2>1, <3>1, <3>3, <3>4
  <2>6. CASE NextFails(r)
    <3>1. /\ reading' = [reading EXCEPT ![r] = Idle]
          /\ UNCHANGED <<cursor, handed, fetches>>
      BY <2>6 DEF NextFails
    <3>2. \A q \in Readers : reading'[q].at = "ran" => reading'[q] = reading[q]
      BY <1>0, <3>1 DEF Idle
    <3>3. Unread'
      BY <3>1, <3>2 DEF CursorInv, Unread
    <3> QED
      BY <2>1, <3>1, <3>2, <3>3 DEF ReadOf
  <2>7. CASE close
    <3>1. /\ cursor' = [cursor EXCEPT !.closed = TRUE, !.rows = <<>>]
          /\ UNCHANGED <<reading, handed, fetches>>
      BY <2>7 DEF close
    <3>2. /\ cursor'.index = cursor.index /\ cursor'.fetched = cursor.fetched
          /\ cursor'.rows = <<>> /\ cursor'.closed
      BY <1>0, <3>1
    <3>3. Unread'
      BY <3>1, <3>2 DEF CursorInv, Unread
    <3> QED
      BY <2>1, <3>1, <3>2, <3>3 DEF ReadOf
  <2> QED
    BY <1>2, <2>2, <2>3, <2>4, <2>5, <2>6, <2>7 DEF stream
<1>3. CASE UNCHANGED <<table, writes, cursor, reading, handed, fetches>>
  BY <1>3 DEF CursorInv, Unread, ReadOf
<1>4. Next \/ UNCHANGED vars
  OBVIOUS
<1>5. ASSUME Next, ~\E row \in Rows : Writes(row), ~\E r \in Readers : stream(r)
      PROVE  UNCHANGED <<table, writes, cursor, reading, handed, fetches>>
  BY <1>5 DEF Next, StartsKeyset, NextPage, offsetPage, OffsetRows, OffsetCount, OffsetAnswers
<1> QED
  BY <1>1, <1>2, <1>3, <1>4, <1>5 DEF vars

-----------------------------------------------------------------------------
(* The keyset scan                                                         *)

LEMMA KeysetStart == Init => KeysetInv
  BY DEF Init, KeysetInv, Fresh

\* Rows ahead of each other have their keys in that order, or the same key.
LEMMA AheadPassed ==
  ASSUME NEW r \in Rows, NEW s \in Rows, NEW direction
  PROVE  /\ Ahead(direction, r, s) => Passed(direction, Key[r], Key[s])
         /\ Passed(direction, Key[s], Key[s])
  BY BeforeOrder DEF Ahead, Passed

\* A row within a key is before every row beyond that key, and every row is
\* within the key or beyond it.
LEMMA BeyondPassed ==
  ASSUME NEW r \in Rows, NEW direction, NEW payload \in Nat
  PROVE  /\ Passed(direction, Key[r], payload) \/ Beyond(r, direction, payload)
         /\ \A s \in Rows :
              Passed(direction, Key[s], payload) /\ Beyond(r, direction, payload) =>
                /\ Ahead(direction, s, r)
                /\ \A key \in Nat : Passed(direction, Key[r], key) => Passed(direction, Key[s], key)
<1>1. Key[r] \in Nat /\ \A s \in Rows : Key[s] \in Nat
  BY BeforeOrder
<1> QED
  BY <1>1 DEF Passed, Beyond, Ahead, Before

\* Two sequences, one after the other.
LEMMA Joined ==
  ASSUME NEW s \in Seq(Rows), NEW t \in Seq(Rows)
  PROVE  /\ Len(s) \in Nat /\ Len(t) \in Nat
         /\ s \o t \in Seq(Rows) /\ Len(s \o t) = Len(s) + Len(t)
         /\ \A i \in 1..Len(s) :
              i \in 1..Len(s \o t) /\ (s \o t)[i] = s[i] /\ s[i] \in Rows
         /\ \A i \in 1..Len(t) :
              Len(s) + i \in 1..Len(s \o t) /\ (s \o t)[Len(s) + i] = t[i] /\ t[i] \in Rows
         /\ \A i \in 1..Len(s \o t) :
              i \in 1..Len(s) \/ \E k \in 1..Len(t) : i = Len(s) + k
<1> DEFINE m == Len(s)
           n == Len(t)
<1>1. /\ m \in Nat /\ n \in Nat
      /\ \A i \in 1..m : s[i] \in Rows
      /\ \A i \in 1..n : t[i] \in Rows
  BY LenProperties, ElementOfSeq
<1>2. /\ s \o t \in Seq(Rows) /\ Len(s \o t) = m + n
      /\ \A i \in 1..(m + n) : (s \o t)[i] = IF i =< m THEN s[i] ELSE t[i - m]
  BY ConcatProperties
<1> HIDE DEF m, n
<1>3. \A i \in 1..m : i \in 1..(m + n) /\ i =< m
  BY <1>1
<1>4. \A i \in 1..n : m + i \in 1..(m + n) /\ ~(m + i =< m) /\ (m + i) - m = i
  BY <1>1
<1>5. \A i \in 1..(m + n) : i \in 1..m \/ (i - m \in 1..n /\ i = m + (i - m))
  BY <1>1
<1> QED
  BY <1>1, <1>2, <1>3, <1>4, <1>5 DEF m, n

\* What a page does to a scan, whatever its cursor.
LEMMA NextPageKeeps ==
  ASSUME STypes, KeysetInv, NextPage
  PROVE  KeysetInv'
<1> DEFINE direction == keyset.direction
           payload == keyset.cursor
           limit == keyset.limit
           page == cursorPage(direction, payload, limit)
           rows == page.rows
           next == page.nextCursor
           all == Ordered(direction, Matching(direction, payload))
           seen == keyset.seen
           new == keyset'.seen
<1>1. /\ table \in SUBSET Rows /\ seen \in Seq(Rows) /\ payload \in Nat \union {None}
      /\ keyset.kept \in SUBSET table /\ limit \in Nat /\ None \notin Nat
  BY ScanAssumption DEF STypes, TableTyped, KeysetTyped
<1>2. /\ ~keyset.last
      /\ keyset' = [keyset EXCEPT !.seen = @ \o page.rows, !.cursor = page.nextCursor,
                                  !.last = ~page.hasNext]
  BY DEF NextPage
<1>3. /\ new = seen \o rows /\ keyset'.cursor = next /\ keyset'.last = ~page.hasNext
      /\ keyset'.direction = direction /\ keyset'.kept = keyset.kept
      /\ keyset'.limit = limit
  BY <1>2 DEF STypes, KeysetTyped
<1>4. /\ rows \in Seq(Rows)
      /\ page.hasNext <=> Len(all) > limit
      /\ Len(rows) = IF Len(all) < limit THEN Len(all) ELSE limit
      /\ \A i \in 1..Len(rows) : i \in 1..Len(all) /\ rows[i] = all[i]
      /\ next = IF page.hasNext /\ limit > 0 THEN Key[rows[limit]] ELSE None
      /\ next # None => next \in Nat
  BY <1>1, PageRows
<1>5. /\ all \in Seq(Rows) /\ Len(all) \in Nat
      /\ \A i \in 1..Len(all) : all[i] \in Matching(direction, payload)
      /\ \A i, j \in 1..Len(all) : i < j => Ahead(direction, all[i], all[j])
      /\ \A r \in Matching(direction, payload) : \E i \in 1..Len(all) : all[i] = r
  <2>1. Matching(direction, payload) \in SUBSET Rows
    BY <1>1 DEF Matching
  <2> QED
    BY <2>1, OrderedRows
<1> HIDE DEF page, all, next, new, rows, seen, limit
<1>6. /\ Len(seen) \in Nat /\ Len(rows) \in Nat
      /\ new \in Seq(Rows) /\ Len(new) = Len(seen) + Len(rows)
      /\ \A i \in 1..Len(seen) : new[i] = seen[i] /\ seen[i] \in Rows
      /\ \A i \in 1..Len(rows) : new[Len(seen) + i] = rows[i] /\ rows[i] \in Rows
  BY <1>1, <1>3, <1>4, Joined
<1>7. /\ \A i \in 1..Len(seen) : i \in 1..Len(new)
      /\ \A i \in 1..Len(rows) : Len(seen) + i \in 1..Len(new)
      /\ \A i \in 1..Len(new) : i \in 1..Len(seen)
                                \/ \E k \in 1..Len(rows) : i = Len(seen) + k
  BY <1>1, <1>3, <1>4, Joined
\* Everything seen before is ahead of everything on the page.
<1>8. ASSUME NEW i \in 1..Len(seen), NEW k \in 1..Len(rows)
      PROVE  /\ Ahead(direction, seen[i], rows[k])
             /\ \A key \in Nat : Passed(direction, Key[rows[k]], key) =>
                                   Passed(direction, Key[seen[i]], key)
  <2>1. seen # <<>>
    BY <1>1, LenProperties, EmptySeq
  <2>2. payload # None /\ payload \in Nat
    BY <1>1, <1>2, <2>1 DEF KeysetInv, seen
  <2>3. Passed(direction, Key[seen[i]], payload)
    BY <2>2 DEF KeysetInv, seen
  <2>4. Beyond(rows[k], direction, payload)
    BY <1>4, <1>5, <2>2 DEF Matching
  <2> QED
    BY <1>6, <2>2, <2>3, <2>4, BeyondPassed
<1>9. ASSUME NEW i \in 1..Len(new), NEW j \in 1..Len(new), i < j
      PROVE  Ahead(direction, new[i], new[j])
  <2>1. CASE i \in 1..Len(seen) /\ j \in 1..Len(seen)
    BY <1>6, <1>9, <2>1 DEF KeysetInv, seen
  <2>2. CASE i \in 1..Len(seen) /\ j \notin 1..Len(seen)
    BY <1>6, <1>7, <1>8, <2>2
  <2>3. CASE i \notin 1..Len(seen)
    <3>1. j \notin 1..Len(seen)
      BY <1>6, <1>9, <2>3
    <3>2. PICK k \in 1..Len(rows) : i = Len(seen) + k
      BY <1>7, <2>3
    <3>3. PICK l \in 1..Len(rows) : j = Len(seen) + l
      BY <1>7, <3>1
    <3>4. k < l
      BY <1>6, <1>9, <3>2, <3>3
    <3>5. Ahead(direction, all[k], all[l])
      BY <1>4, <1>5, <3>4
    <3> QED
      BY <1>4, <1>6, <3>2, <3>3, <3>5
  <2> QED
    BY <2>1, <2>2, <2>3
<1>10. ASSUME next # None
       PROVE  /\ Len(rows) = limit /\ limit \in 1..Len(rows) /\ limit \in 1..Len(all)
              /\ next = Key[rows[limit]] /\ next \in Nat
  <2>1. page.hasNext /\ limit > 0
    BY <1>4, <1>10
  <2> QED
    BY <1>1, <1>4, <1>5, <1>10, <2>1
<1>11. ASSUME next # None, NEW i \in 1..Len(new)
       PROVE  Passed(direction, Key[new[i]], next)
  <2>1. \A k \in 1..Len(rows) : Passed(direction, Key[rows[k]], next)
    <3>1. SUFFICES ASSUME NEW k \in 1..Len(rows)
                   PROVE  Passed(direction, Key[rows[k]], next)
      OBVIOUS
    <3>2. k < limit => Ahead(direction, rows[k], rows[limit])
      BY <1>4, <1>5, <1>10, <1>11
    <3>3. k < limit \/ k = limit
      BY <1>10, <1>11
    <3>4. rows[k] \in Rows /\ rows[limit] \in Rows /\ next = Key[rows[limit]]
      BY <1>6, <1>10, <1>11
    <3>5. Ahead(direction, rows[k], rows[limit]) => Passed(direction, Key[rows[k]], next)
      BY <3>4, AheadPassed
    <3>6. Passed(direction, Key[rows[limit]], next)
      BY <3>4, AheadPassed
    <3> QED
      BY <3>2, <3>3, <3>5, <3>6
  <2>2. CASE i \in 1..Len(seen)
    <3>1. limit \in 1..Len(rows) /\ next \in Nat
      BY <1>10, <1>11
    <3> QED
      BY <1>6, <1>8, <2>1, <2>2, <3>1
  <2>3. CASE i \notin 1..Len(seen)
    BY <1>6, <1>7, <2>1, <2>3
  <2> QED
    BY <2>2, <2>3
<1>12. next = None /\ ~keyset'.last => limit = 0 /\ new = <<>>
  <2>1. SUFFICES ASSUME page.hasNext, next = None
                 PROVE  limit = 0 /\ new = <<>>
    BY <1>3
  <2>2. limit = 0
    <3>1. SUFFICES ASSUME limit > 0 PROVE FALSE
      BY <1>1
    <3>2. limit \in 1..Len(rows)
      BY <1>1, <1>4, <1>5, <2>1, <3>1
    <3>3. Key[rows[limit]] \in Nat
      BY <1>6, <3>2, BeforeOrder
    <3> QED
      BY <1>1, <1>4, <2>1, <3>1, <3>3
  <2>3. payload = None /\ seen = <<>>
    BY <1>2, <2>2 DEF KeysetInv, seen, limit
  <2>4. Len(rows) = 0 /\ Len(seen) = 0
    BY <1>1, <1>4, <1>5, <1>6, <2>2, <2>3, LenProperties, EmptySeq
  <2> QED
    BY <1>6, <2>2, <2>4, LenProperties, EmptySeq
<1>13. ASSUME NEW row \in keyset.kept,
              ~page.hasNext \/ (next # None /\ Passed(direction, Key[row], next))
       PROVE  \E i \in 1..Len(new) : Key[new[i]] = Key[row]
  <2>0. row \in Rows /\ row \in table
    BY <1>1
  <2>1. CASE payload # None /\ Passed(direction, Key[row], payload)
    <3>1. PICK i \in 1..Len(seen) : Key[seen[i]] = Key[row]
      BY <2>1 DEF KeysetInv, seen
    <3>2. i \in 1..Len(new)
      BY <1>7
    <3> QED
      BY <1>6, <3>1, <3>2
  <2>2. CASE ~(payload # None /\ Passed(direction, Key[row], payload))
    <3>1. row \in Matching(direction, payload)
      BY <1>1, <2>0, <2>2, BeyondPassed DEF Matching
    <3>2. PICK k \in 1..Len(all) : all[k] = row
      BY <1>5, <3>1
    <3>3. \E l \in 1..Len(rows) : Key[rows[l]] = Key[row]
      <4>1. CASE k \in 1..Len(rows)
        BY <1>4, <3>2, <4>1
      <4>2. CASE k \notin 1..Len(rows)
        <5>1. Len(all) > limit /\ page.hasNext /\ limit < k
          BY <1>1, <1>4, <1>5, <4>2
        <5>2. next # None /\ Passed(direction, Key[row], next)
          BY <1>13, <5>1
        <5>3. /\ limit \in 1..Len(rows) /\ limit \in 1..Len(all)
              /\ next = Key[rows[limit]] /\ rows[limit] \in Rows /\ rows[limit] = all[limit]
          BY <1>4, <1>6, <1>10, <5>2
        <5>4. Ahead(direction, rows[limit], row)
          BY <1>5, <3>2, <5>1, <5>3
        <5>5. Passed(direction, Key[rows[limit]], Key[row])
          BY <2>0, <5>3, <5>4, AheadPassed
        <5>6. Key[rows[limit]] = Key[row]
          BY <2>0, <5>2, <5>3, <5>5, BeforeOrder DEF Passed
        <5> QED
          BY <5>3, <5>6
      <4> QED
        BY <4>1, <4>2
    <3>4. PICK l \in 1..Len(rows) : Key[rows[l]] = Key[row]
      BY <3>3
    <3>5. Len(seen) + l \in 1..Len(new)
      BY <1>7
    <3> QED
      BY <1>6, <3>4, <3>5
  <2> QED
    BY <2>1, <2>2
<1>14. limit = 0 => next = None
  BY <1>4
<1> QED
  BY <1>3, <1>9, <1>11, <1>12, <1>13, <1>14 DEF KeysetInv, new

LEMMA KeysetKept == STypes /\ KeysetInv /\ [Next]_vars => KeysetInv'
<1> SUFFICES ASSUME STypes, KeysetInv, [Next]_vars
             PROVE  KeysetInv'
  OBVIOUS
<1>1. ASSUME NEW row \in Rows, Writes(row)
      PROVE  KeysetInv'
  <2>1. keyset' = [keyset EXCEPT !.kept = @ \intersect table']
    BY <1>1 DEF Writes
  <2>2. /\ keyset'.kept \subseteq keyset.kept
        /\ keyset'.seen = keyset.seen /\ keyset'.cursor = keyset.cursor
        /\ keyset'.last = keyset.last /\ keyset'.direction = keyset.direction
        /\ keyset'.limit = keyset.limit
    BY <2>1 DEF STypes, KeysetTyped
  <2> QED
    BY <2>2 DEF KeysetInv
<1>2. ASSUME NEW direction \in {"asc", "desc"}, NEW limit \in Sizes, StartsKeyset(direction, limit)
      PROVE  KeysetInv'
  <2>1. keyset' = [direction |-> direction, limit |-> limit, cursor |-> None, seen |-> <<>>,
                   last |-> FALSE, kept |-> table]
    BY <1>2 DEF StartsKeyset, Fresh
  <2> QED
    BY <2>1 DEF KeysetInv
<1>3. CASE NextPage
  BY <1>3, NextPageKeeps
<1>4. CASE UNCHANGED keyset
  BY <1>4 DEF KeysetInv
<1>5. ASSUME NEW r \in Readers, stream(r)
      PROVE  UNCHANGED keyset
  BY <1>5 DEF stream, NextFetched, NextAsks, NextRuns, NextAnswered, NextFails, close
<1>6. ASSUME NEW page \in 1..MaxPage, NEW pageSize \in Sizes, offsetPage(page, pageSize)
      PROVE  UNCHANGED keyset
  BY <1>6 DEF offsetPage
<1>7. OffsetRows \/ OffsetCount \/ OffsetAnswers => UNCHANGED keyset
  BY DEF OffsetRows, OffsetCount, OffsetAnswers
<1> QED
  BY <1>1, <1>2, <1>3, <1>4, <1>5, <1>6, <1>7 DEF Next, vars

-----------------------------------------------------------------------------
(* The offset page                                                         *)

LEMMA TimesMonotone ==
  ASSUME NEW l \in Nat, NEW x \in Int, NEW y \in Int, x =< y
  PROVE  l * x =< l * y
<1>1. y - x \in Nat
  OBVIOUS
<1>2. l * (y - x) \in Nat
  BY <1>1
<1>3. l * (y - x) = l * y - l * x
  OBVIOUS
<1> QED
  BY <1>2, <1>3

\* The count of pages is rounded up: there is a page after k pages exactly when
\* there is a row after those of k pages.
LEMMA PagesRoundedUp ==
  ASSUME NEW total \in Nat, NEW k \in Nat, NEW limit \in Nat \ {0}
  PROVE  /\ totalPages(total, limit) \in Int
         /\ k < totalPages(total, limit) <=> k * limit < total
<1> DEFINE a == total + limit - 1
           q == totalPages(total, limit)
<1>1. limit \in Nat /\ limit > 0 /\ a \in Int
  OBVIOUS
<1>2. q \in Int /\ limit * q =< a /\ a < limit * q + limit
  BY <1>1 DEF totalPages
<1> HIDE DEF q
<1>3. CASE k < q
  <2>1. limit * (k + 1) =< limit * q
    BY <1>1, <1>2, <1>3, TimesMonotone
  <2>2. limit * (k + 1) = k * limit + limit
    BY <1>1
  <2>3. k * limit \in Int /\ limit * q \in Int
    BY <1>1, <1>2
  <2>4. k * limit + limit =< total + limit - 1
    BY <1>1, <1>2, <2>1, <2>2, <2>3
  <2>5. k * limit < total
    BY <1>1, <2>3, <2>4
  <2> QED
    BY <1>2, <1>3, <2>5 DEF q
<1>4. CASE ~(k < q)
  <2>1. limit * q =< limit * k
    BY <1>1, <1>2, <1>4, TimesMonotone
  <2>2. limit * k = k * limit /\ k * limit \in Int /\ limit * q \in Int
    BY <1>1, <1>2
  <2>3. total + limit - 1 < k * limit + limit
    BY <1>1, <1>2, <2>1, <2>2
  <2>4. ~(k * limit < total)
    BY <1>1, <2>2, <2>3
  <2> QED
    BY <1>2, <1>4, <2>4 DEF q
<1> QED
  BY <1>3, <1>4

LEMMA OffsetStart == Init => OffsetInv
  BY DEF Init, OffsetInv

LEMMA OffsetKept == STypes /\ OffsetInv /\ [Next]_vars => OffsetInv'
<1> SUFFICES ASSUME STypes, OffsetInv, [Next]_vars
             PROVE  OffsetInv'
  OBVIOUS
<1> DEFINE Same(v, T) ==
             /\ writes = v => table = T
             /\ "rows" \notin offset.stage => offset.rows = PageOf(T)
             /\ "count" \notin offset.stage => offset.total = Cardinality(T)
<1>0. /\ table \in SUBSET Rows /\ writes \in Nat /\ offset.at \in SUBSET (0..writes)
      /\ DOMAIN offset = {"page", "pageSize", "stage", "rows", "total", "at", "answer"}
      /\ offset.stage \in SUBSET {"rows", "count"}
  BY DEF STypes, TableTyped, OffsetTyped
<1>1. ASSUME NEW row \in Rows, Writes(row)
      PROVE  OffsetInv'
  <2>1. writes' = writes + 1 /\ UNCHANGED offset
    BY <1>1 DEF Writes
  <2>2. ASSUME NEW v \in offset.at, offset.at = {v}
        PROVE  \E T \in SUBSET Rows : Same(v, T)'
    <3>1. PICK T \in SUBSET Rows : Same(v, T)
      BY <2>2 DEF OffsetInv
    <3>2. writes' # v
      BY <1>0, <2>1
    <3>3. Same(v, T)'
      BY <2>1, <3>1, <3>2 DEF PageOf
    <3> QED
      BY <3>3
  <2> QED
    BY <2>1, <2>2 DEF OffsetInv
<1>2. CASE UNCHANGED <<table, writes, offset>>
  BY <1>2 DEF OffsetInv, PageOf
<1>3. ASSUME NEW page \in 1..MaxPage, NEW pageSize \in Sizes, offsetPage(page, pageSize)
      PROVE  OffsetInv'
  <2>1. /\ offset.page = 0 /\ page # 0
        /\ offset' = [offset EXCEPT !.page = page, !.pageSize = pageSize, !.stage = {"rows", "count"}]
    BY <1>3 DEF offsetPage
  <2>2. offset.at = {} /\ offset.answer = None
    BY <2>1 DEF OffsetInv
  <2>3. /\ offset'.page = page /\ offset'.stage = {"rows", "count"}
        /\ offset'.at = {} /\ offset'.answer = None
    BY <1>0, <2>1, <2>2
  <2> QED
    BY <2>1, <2>3 DEF OffsetInv
\* The second query says what the first one of the same table says.
<1>4. ASSUME offset.stage # {}, offset'.at = offset.at \union {writes},
             offset.at = {} => offset.stage = {"rows", "count"},
             NEW v \in offset'.at, offset'.at = {v}
      PROVE  v = writes /\ Same(writes, table)
  <2>1. v = writes /\ (offset.at = {} \/ offset.at = {writes})
    BY <1>4
  <2>2. CASE offset.at = {}
    BY <1>4, <2>1, <2>2
  <2>3. CASE offset.at = {writes}
    <3>1. PICK T \in SUBSET Rows : Same(writes, T)
      BY <2>3 DEF OffsetInv
    <3>2. T = table
      BY <3>1
    <3> QED
      BY <2>1, <3>1, <3>2
  <2> QED
    BY <2>1, <2>2, <2>3
<1>5. CASE OffsetRows
  <2>1. /\ "rows" \in offset.stage /\ UNCHANGED <<table, writes>>
        /\ offset' = [offset EXCEPT !.stage = @ \ {"rows"}, !.at = @ \union {writes},
                                    !.rows = PageOf(table)]
    BY <1>5 DEF OffsetRows, PageOf, Slice
  <2>2. /\ offset'.stage = offset.stage \ {"rows"} /\ offset'.at = offset.at \union {writes}
        /\ offset'.rows = PageOf(table) /\ offset'.page = offset.page
        /\ offset'.pageSize = offset.pageSize /\ offset'.total = offset.total /\ offset'.answer = offset.answer
    BY <1>0, <2>1
  <2>3. offset.page # 0 /\ offset.answer = None
    BY <2>1 DEF OffsetInv
  <2>4. ASSUME NEW v \in offset'.at, offset'.at = {v}
        PROVE  \E T \in SUBSET Rows : Same(v, T)'
    <3>1. v = writes /\ Same(writes, table)
      BY <1>4, <2>1, <2>2, <2>3, <2>4 DEF OffsetInv
    <3>2. PageOf(table)' = PageOf(table)
      BY <2>1, <2>2 DEF PageOf
    <3>3. Same(v, table)'
      BY <2>1, <2>2, <3>1, <3>2
    <3> QED
      BY <1>0, <2>1, <3>3
  <2>5. offset.pageSize = 0 => PageOf(table) = <<>>
    <3>1. offset.page \in Nat \ {0} /\ offset.pageSize \in Nat
      BY <2>3, ScanAssumption DEF STypes, OffsetTyped
    <3>2. Ascending(table) \in Seq(Rows) /\ Len(Ascending(table)) \in Nat
      BY <1>0, AscendingSeq, LenProperties
    <3>3. /\ PageOf(table) \in Seq(Rows)
          /\ \E skip \in Nat : Len(PageOf(table)) =
               IF Len(Ascending(table)) =< skip THEN 0
               ELSE IF Len(Ascending(table)) < skip + offset.pageSize
                    THEN Len(Ascending(table)) - skip ELSE offset.pageSize
      BY <3>1, <3>2, PageSlice DEF PageOf
    <3>4. offset.pageSize = 0 => Len(PageOf(table)) = 0
      BY <3>2, <3>3
    <3> QED
      BY <3>3, <3>4, LenProperties, EmptySeq
  <2> QED
    BY <2>2, <2>3, <2>4, <2>5 DEF OffsetInv
<1>6. CASE OffsetCount
  <2>1. /\ "count" \in offset.stage /\ UNCHANGED <<table, writes>>
        /\ offset' = [offset EXCEPT !.stage = @ \ {"count"}, !.at = @ \union {writes},
                                    !.total = Cardinality(table)]
    BY <1>6 DEF OffsetCount
  <2>2. /\ offset'.stage = offset.stage \ {"count"} /\ offset'.at = offset.at \union {writes}
        /\ offset'.rows = offset.rows /\ offset'.page = offset.page
        /\ offset'.pageSize = offset.pageSize
        /\ offset'.pageSize = offset.pageSize /\ offset'.total = Cardinality(table) /\ offset'.answer = offset.answer
    BY <1>0, <2>1
  <2>3. offset.page # 0 /\ offset.answer = None
    BY <2>1 DEF OffsetInv
  <2>4. ASSUME NEW v \in offset'.at, offset'.at = {v}
        PROVE  \E T \in SUBSET Rows : Same(v, T)'
    <3>1. v = writes /\ Same(writes, table)
      BY <1>4, <2>1, <2>2, <2>3, <2>4 DEF OffsetInv
    <3>2. PageOf(table)' = PageOf(table)
      BY <2>1, <2>2 DEF PageOf
    <3>3. Same(v, table)'
      BY <2>1, <2>2, <3>1, <3>2
    <3> QED
      BY <1>0, <2>1, <3>3
  <2> QED
    BY <2>2, <2>3, <2>4 DEF OffsetInv
<1>7. CASE OffsetAnswers
  <2> DEFINE answer == [totalPages |-> totalPages(offset.total, offset.pageSize),
                        hasNext |-> offset.page < totalPages(offset.total, offset.pageSize),
                        hasPrev |-> offset.page > 1]
  <2>1. /\ offset.page # 0 /\ offset.stage = {} /\ UNCHANGED <<table, writes>>
        /\ offset' = [offset EXCEPT !.answer = answer]
    BY <1>7 DEF OffsetAnswers
  <2> HIDE DEF answer
  <2>2. /\ offset'.stage = offset.stage /\ offset'.at = offset.at
        /\ offset'.rows = offset.rows /\ offset'.page = offset.page
        /\ offset'.pageSize = offset.pageSize
        /\ offset'.pageSize = offset.pageSize /\ offset'.total = offset.total /\ offset'.answer = answer
    BY <1>0, <2>1
  <2>3. ASSUME NEW v \in offset.at, offset.at = {v}
        PROVE  \E T \in SUBSET Rows : Same(v, T)'
    <3>1. PICK T \in SUBSET Rows : Same(v, T)
      BY <2>3 DEF OffsetInv
    <3>2. PageOf(T)' = PageOf(T)
      BY <2>2 DEF PageOf
    <3>3. Same(v, T)'
      BY <2>1, <2>2, <3>1, <3>2
    <3> QED
      BY <3>3
  <2>4. offset.at # {}
    BY <2>1 DEF OffsetInv
  <2>5. answer = [totalPages |-> totalPages(offset'.total, offset'.pageSize),
                  hasNext |-> offset'.page < totalPages(offset'.total, offset'.pageSize),
                  hasPrev |-> offset'.page > 1]
    BY <2>2 DEF answer
  <2> QED
    BY <2>1, <2>2, <2>3, <2>4, <2>5 DEF OffsetInv
<1>8. ASSUME NEW r \in Readers, stream(r)
      PROVE  UNCHANGED <<table, writes, offset>>
  BY <1>8 DEF stream, NextFetched, NextAsks, NextRuns, NextAnswered, NextFails, close
<1>9. ASSUME NEW direction \in {"asc", "desc"}, NEW limit \in Sizes, StartsKeyset(direction, limit)
      PROVE  UNCHANGED <<table, writes, offset>>
  BY <1>9 DEF StartsKeyset
<1>10. NextPage => UNCHANGED <<table, writes, offset>>
  BY DEF NextPage
<1> QED
  BY <1>1, <1>2, <1>3, <1>5, <1>6, <1>7, <1>8, <1>9, <1>10 DEF Next, vars

-----------------------------------------------------------------------------
(* The theorems                                                            *)

LEMMA MomentsFinite ==
  ASSUME NEW n \in Nat, NEW at \in SUBSET (0..n)
  PROVE  IsFiniteSet(at)
<1>1. IsFiniteSet(0..n)
  BY FS_Interval
<1> QED
  BY <1>1, FS_Subset

LEMMA ScanInvariant == Spec => []SInv
<1>1. Init => SInv
  BY TypesStart, CursorStart, KeysetStart, OffsetStart DEF SInv
<1>2. SInv /\ [Next]_vars => SInv'
  BY TypesKept, CursorKept, KeysetKept, OffsetKept DEF SInv
<1> QED
  BY <1>1, <1>2, PTL DEF Spec

\* Readers that share a cursor never get a row twice, and get rows in order and
\* from the first on, as long as nobody writes between the fetches of those that
\* asked before the first answer: for any number of readers.
THEOREM ScansCursorOnce == Spec => []CursorOnce
<1>1. SInv => CursorOnce
  <2> SUFFICES ASSUME SInv, Cardinality(fetches) = 1
               PROVE  /\ \A i, j \in DOMAIN handed : i < j => Before(handed[i], handed[j])
                      /\ cursor.rows # <<>> => handed = First(cursor.rows, cursor.index)
    BY DEF CursorOnce
  <2>1. fetches \in SUBSET (0..writes) /\ writes \in Nat /\ cursor.index \in Nat
    BY DEF SInv, STypes, CursorTyped, TableTyped
  <2>2. IsFiniteSet(fetches)
    BY <2>1, MomentsFinite
  <2>3. PICK v : fetches = {v}
    BY <2>2, FS_Singleton
  <2>4. PICK T \in SUBSET Rows : ReadOf(T)
    BY <2>3 DEF SInv, CursorInv
  <2>5. handed = First(Ascending(T), cursor.index) /\ cursor.rows \in {<<>>, Ascending(T)}
    BY <2>4 DEF ReadOf
  <2>6. /\ Ascending(T) \in Seq(Rows) /\ Len(Ascending(T)) = Cardinality(T)
    BY AscendingSeq
  <2>7. /\ handed \in Seq(Rows)
        /\ \A i \in 1..Len(handed) : i \in 1..Cardinality(T) /\ handed[i] = Ascending(T)[i]
    BY <2>1, <2>5, <2>6, FirstIs
  <2>8. DOMAIN handed = 1..Len(handed)
    BY <2>7, LenProperties
  <2>9. ASSUME NEW i \in DOMAIN handed, NEW j \in DOMAIN handed, i < j
        PROVE  Before(handed[i], handed[j])
    BY <2>7, <2>8, <2>9, AscendingOrder
  <2> QED
    BY <2>5, <2>9
<1> QED
  BY <1>1, ScanInvariant, PTL

\* A keyset scan that ended has a row of every key that was there all along, and
\* its rows once and in order: for any table, page size, direction and writes.
THEOREM ScansKeysetComplete == Spec => []KeysetComplete
<1>1. SInv => KeysetComplete
  <2> SUFFICES ASSUME SInv
               PROVE  KeysetComplete
    OBVIOUS
  <2>1. keyset.seen \in Seq(Rows)
    BY DEF SInv, STypes, KeysetTyped
  <2>2. DOMAIN keyset.seen = 1..Len(keyset.seen)
    BY <2>1, LenProperties
  <2> QED
    BY <2>2 DEF SInv, KeysetInv, KeysetComplete, Ahead
<1> QED
  BY <1>1, ScanInvariant, PTL

\* An offset page says that there is a next page exactly when it counted rows after
\* its own; if its two queries saw one table it has rows exactly when its number is
\* one of the pages counted, and is full when there is a next one; a page size of 0
\* has no rows and no pages: for any page number and page size.
THEOREM ScansOffsetHonest == Spec => []OffsetHonest
<1> DEFINE page == offset.page
           limit == offset.pageSize
           total == offset.total
           skip == (page - 1) * limit
<1>1. ASSUME SInv, offset.answer # None
      PROVE  /\ page \in Nat /\ total \in Nat /\ limit \in Nat
             /\ page # 0 /\ offset.stage = {}
             /\ limit = 0 => offset.rows = <<>>
             /\ offset.answer.totalPages = totalPages(total, limit)
             /\ offset.answer.hasNext = (page < totalPages(total, limit))
  BY <1>1, ScanAssumption DEF SInv, OffsetInv, STypes, OffsetTyped
<1>2. ASSUME SInv, offset.answer # None, limit = 0
      PROVE  offset.answer.totalPages = 0 /\ ~offset.answer.hasNext /\ offset.rows = <<>>
  <2>1. totalPages(total, limit) = 0
    BY <1>2 DEF totalPages
  <2>2. page \in Nat /\ ~(page < 0)
    BY <1>1, <1>2
  <2> QED
    BY <1>1, <1>2, <2>1, <2>2
<1>3. ASSUME SInv, offset.answer # None, limit # 0
      PROVE  offset.answer.hasNext <=> total > page * limit
  BY <1>1, <1>3, PagesRoundedUp
<1>4. ASSUME SInv, offset.answer # None, limit # 0, Cardinality(offset.at) = 1
      PROVE  /\ page <= offset.answer.totalPages <=> offset.rows # <<>>
             /\ offset.answer.hasNext => Len(offset.rows) = limit
  <2>1. /\ offset.at \in SUBSET (0..writes) /\ writes \in Nat /\ page \in Nat /\ total \in Nat
        /\ limit \in Nat \ {0}
    BY <1>1, <1>4 DEF SInv, STypes, OffsetTyped, TableTyped
  <2>2. IsFiniteSet(offset.at)
    BY <2>1, MomentsFinite
  <2>3. PICK v : offset.at = {v}
    BY <1>4, <2>2, FS_Singleton
  <2>4. /\ page # 0 /\ offset.stage = {}
        /\ offset.answer.totalPages = totalPages(total, limit)
        /\ offset.answer.hasNext = (page < totalPages(total, limit))
    BY <1>1, <1>4
  <2>5. PICK T \in SUBSET Rows : offset.rows = PageOf(T) /\ total = Cardinality(T)
    BY <1>4, <2>3, <2>4 DEF SInv, OffsetInv
  <2>6. Ascending(T) \in Seq(Rows) /\ Len(Ascending(T)) = total
    BY <2>5, AscendingSeq
  <2>18. offset.rows = Slice(Ascending(T), page, limit)
    BY <2>5 DEF PageOf
  <2> HIDE DEF page, total, limit
  <2>19. page \in Nat \ {0} /\ limit \in Nat
    BY <2>1, <2>4
  <2>7. /\ offset.rows \in Seq(Rows) /\ skip \in Nat
        /\ Len(offset.rows) = IF total =< skip THEN 0
                              ELSE IF total < skip + limit THEN total - skip ELSE limit
    BY <2>6, <2>18, <2>19, PageSlice
  <2>8. /\ limit \in Nat /\ limit > 0 /\ skip + limit = page * limit
    BY <2>1
  <2>9. page < totalPages(total, limit) <=> page * limit < total
    BY <2>1, PagesRoundedUp
  <2>10. page - 1 < totalPages(total, limit) <=> skip < total
    BY <2>1, <2>4, PagesRoundedUp
  <2>11. totalPages(total, limit) \in Int
    BY <2>1, PagesRoundedUp
  <2>12. offset.rows # <<>> <=> Len(offset.rows) # 0
    BY <2>7, EmptySeq, LenProperties
  <2> HIDE DEF skip
  <2>13. page * limit \in Int
    BY <2>1, <2>8
  <2>14. page =< totalPages(total, limit) <=> skip < total
    BY <2>1, <2>10, <2>11
  <2>15. Len(offset.rows) # 0 <=> skip < total
    BY <2>1, <2>7, <2>8
  <2>16. page * limit < total => Len(offset.rows) = limit
    BY <2>1, <2>7, <2>8, <2>13
  <2>17. total > page * limit <=> page * limit < total
    BY <2>1, <2>13
  <2> QED
    BY <2>4, <2>9, <2>12, <2>14, <2>15, <2>16, <2>17 DEF page, total, limit
<1>5. SInv => OffsetHonest
  BY <1>2, <1>3, <1>4 DEF OffsetHonest
<1> QED
  BY <1>5, ScanInvariant, PTL

-----------------------------------------------------------------------------
(* Binding: what the servers do with the texts                             *)

\* The numbers of a text go up, each names a parameter, and each parameter is
\* named by one.
InOrder(text, params) ==
  /\ \A i \in Of(text, "$") : text[i].n \in 1..Len(params) /\ params[text[i].n] = text[i].for
  /\ \A i, j \in Of(text, "$") : i < j => text[i].n < text[j].n
  /\ \A m \in 1..Len(params) : \E i \in Of(text, "$") : text[i].n = m

\* There are n numbers up to n.
LEMMA UpToCount == \A n \in Nat : IsFiniteSet(1..n) /\ Cardinality(1..n) = n
<1> SUFFICES ASSUME NEW n \in Nat PROVE IsFiniteSet(1..n) /\ Cardinality(1..n) = n
  OBVIOUS
<1>1. 1 \in Int /\ n \in Int
  OBVIOUS
<1>2. IsFiniteSet(1..n) /\ Cardinality(1..n) = IF 1 > n THEN 0 ELSE n - 1 + 1
  BY <1>1, FS_Interval
<1> QED
  BY <1>2

\* The number of a placeholder is its rank: as many placeholders are at or
\* before it as there are numbers up to its own.
LEMMA NumberIsRank ==
  ASSUME NEW text, NEW params, Len(text) \in Nat, Len(params) \in Nat, InOrder(text, params),
         NEW i \in Of(text, "$")
  PROVE  Cardinality({j \in Of(text, "$") : j <= i}) = text[i].n
<1> DEFINE S == {j \in Of(text, "$") : j <= i}
           T == 1..text[i].n
           number == [j \in S |-> text[j].n]
<1>1. S \subseteq 1..Len(text) /\ IsFiniteSet(S)
  <2>1. S \subseteq 1..Len(text)
    BY DEF Of
  <2> QED
    BY <2>1, UpToCount, FS_Subset
<1>2. text[i].n \in Nat /\ T \subseteq 1..Len(params)
  BY DEF InOrder
<1>3. \A j \in S : text[j].n \in T
  <2>1. TAKE j \in S
  <2>2. j \in Of(text, "$") /\ j \in 1..Len(text) /\ i \in 1..Len(text) /\ j <= i
    BY <1>1, <2>1 DEF Of
  <2>3. j = i \/ text[j].n < text[i].n
    BY <2>2 DEF InOrder
  <2> QED
    BY <2>2, <2>3 DEF InOrder
<1>4. number \in Injection(S, T)
  <2>1. \A j, k \in S : text[j].n = text[k].n => j = k
    <3>1. TAKE j, k \in S
    <3>2. j \in Of(text, "$") /\ k \in Of(text, "$") /\ j \in 1..Len(text) /\ k \in 1..Len(text)
      BY <1>1
    <3>3. j < k \/ k < j \/ j = k
      BY <3>2
    <3> QED
      BY <3>2, <3>3 DEF InOrder
  <2> QED
    BY <1>3, <2>1 DEF Injection, IsInjective
<1>5. number \in Surjection(S, T)
  <2>1. \A m \in T : \E j \in S : number[j] = m
    <3>1. TAKE m \in T
    <3>2. PICK j \in Of(text, "$") : text[j].n = m
      BY <1>2 DEF InOrder
    <3>3. j \in 1..Len(text) /\ i \in 1..Len(text)
      BY <3>2 DEF Of
    <3>4. ~ i < j
      BY <1>2, <3>2, <3>3 DEF InOrder
    <3> QED
      BY <3>2, <3>3, <3>4
  <2> QED
    BY <1>3, <2>1 DEF Surjection
<1>6. ExistsBijection(S, T)
  BY <1>4, <1>5 DEF ExistsBijection, Bijection
<1>7. Cardinality(T) = text[i].n
  BY <1>2, UpToCount
<1> QED
  BY <1>1, <1>6, <1>7, FS_Bijection

\* There are as many placeholders as parameters, and the same numbers.
LEMMA AsManyPlaceholders ==
  ASSUME NEW text, NEW params, Len(text) \in Nat, Len(params) \in Nat, InOrder(text, params)
  PROVE  /\ Cardinality(Of(text, "$")) = Len(params)
         /\ {text[i].n : i \in Of(text, "$")} = 1..Len(params)
<1>1. {text[i].n : i \in Of(text, "$")} = 1..Len(params)
  BY DEF InOrder
<1>2. CASE Len(params) = 0
  <2>1. Of(text, "$") = {}
    BY <1>2 DEF InOrder
  <2> QED
    BY <1>1, <1>2, <2>1, FS_EmptySet
<1>3. CASE Len(params) > 0
  <2>1. PICK i \in Of(text, "$") : text[i].n = Len(params)
    BY <1>3 DEF InOrder
  <2>2. \A j \in Of(text, "$") : j <= i
    <3>1. TAKE j \in Of(text, "$")
    <3>2. i \in 1..Len(text) /\ j \in 1..Len(text)
      BY <2>1, <3>1 DEF Of
    <3>3. text[j].n \in 1..Len(params) /\ (i < j => text[i].n < text[j].n)
      BY <2>1, <3>1 DEF InOrder
    <3> QED
      BY <2>1, <3>2, <3>3
  <2>3. Of(text, "$") = {j \in Of(text, "$") : j <= i}
    BY <2>2
  <2>4. Cardinality({j \in Of(text, "$") : j <= i}) = Len(params)
    BY <2>1, NumberIsRank
  <2> QED
    BY <1>1, <2>3, <2>4
<1> QED
  BY <1>2, <1>3

\* Such a text is bound as it was meant, however a server counts.
LEMMA BoundInOrder ==
  ASSUME NEW s, NEW dialect \in Dialects, Len(s.text) \in Nat, Len(s.params) \in Nat,
         InOrder(s.text, s.params), Of(s.text, "?") = {}
  PROVE  Bound(dialect, s)
<1> DEFINE places == Of(s.text, "$")
<1>1. Bindable(s.text) = places
  BY DEF Bindable
<1>2. \A i \in places : s.text[i].kind = "$" /\ i \in 1..Len(s.text)
  BY DEF Of
<1>3. \A i \in places : Received(dialect, s.text, i) = s.text[i].n
  <2>1. TAKE i \in places
  <2>2. {k \in Bindable(s.text) : k <= i} = {k \in places : k <= i}
    BY <1>1
  <2>3. Cardinality({k \in places : k <= i}) = s.text[i].n
    BY <2>1, NumberIsRank
  <2>4. \A j, k \in places : k < j => s.text[j].n # s.text[k].n
    <3>1. TAKE j, k \in places
    <3>2. k < j => s.text[k].n < s.text[j].n
      BY DEF InOrder
    <3>3. s.text[k].n \in Nat /\ s.text[j].n \in Nat
      BY DEF InOrder
    <3> QED
      BY <3>2, <3>3
  <2>5. CASE dialect = "postgres"
    BY <2>5 DEF Received
  <2>6. CASE dialect = "mysql"
    BY <2>2, <2>3, <2>6 DEF Received
  <2>7. CASE dialect = "mssql"
    BY <1>2, <2>1, <2>7 DEF Received
  <2>8. CASE dialect = "sqlite"
    <3> DEFINE alike(j, k) == s.text[j].kind = "$" /\ s.text[k].kind = "$" /\ s.text[j].n = s.text[k].n
               new(j) == \A k \in Bindable(s.text) : k < j => ~alike(j, k)
               upTo(j) == {k \in Bindable(s.text) : k <= j}
    <3>1. \A j \in upTo(i) : new(j) /\ \A k \in upTo(j) : k < j => ~alike(i, k)
      <4>1. TAKE j \in upTo(i)
      <4>2. j \in places /\ j <= i /\ j \in Int /\ i \in Int
        BY <1>1, <1>2, <2>1
      <4>3. new(j)
        BY <1>1, <2>4, <4>2
      <4>4. ASSUME NEW k \in upTo(j), k < j PROVE ~alike(i, k)
        <5>1. k \in places /\ k < i
          BY <1>1, <1>2, <4>2, <4>4
        <5> QED
          BY <2>1, <2>4, <5>1
      <4> QED
        BY <4>3, <4>4
    <3>2. {j \in upTo(i) : new(j) /\ \A k \in upTo(j) : k < j => ~alike(i, k)} = {k \in places : k <= i}
      BY <2>2, <3>1
    <3>3. Received("sqlite", s.text, i)
            = Cardinality({j \in upTo(i) : new(j) /\ \A k \in upTo(j) : k < j => ~alike(i, k)})
      BY DEF Received
    <3> QED
      BY <2>3, <2>8, <3>2, <3>3
  <2> QED
    BY <2>5, <2>6, <2>7, <2>8 DEF Dialects
<1>4. {Received(dialect, s.text, i) : i \in places} = 1..Len(s.params)
  BY <1>3, AsManyPlaceholders
<1>5. Cardinality(places) = Len(s.params)
  BY AsManyPlaceholders
<1>6. \A i \in places : s.params[Received(dialect, s.text, i)] = s.text[i].for
  BY <1>3 DEF InOrder
<1> QED
  BY <1>1, <1>2, <1>4, <1>5, <1>6 DEF Bound

\* PostgreSQL may use a parameter more than once.
LEMMA BoundByNumber ==
  ASSUME NEW s, Of(s.text, "?") = {},
         \A i \in Of(s.text, "$") : s.text[i].n \in 1..Len(s.params) /\ s.params[s.text[i].n] = s.text[i].for
  PROVE  Bound("postgres", s)
<1>1. Bindable(s.text) = Of(s.text, "$")
  BY DEF Bindable
<1>2. \A i \in Of(s.text, "$") : s.text[i].kind = "$" /\ Received("postgres", s.text, i) = s.text[i].n
  BY DEF Of, Received
<1> QED
  BY <1>1, <1>2 DEF Bound

\* The other servers count question marks.
LEMMA BoundByPosition ==
  ASSUME NEW s, NEW dialect \in Dialects \ {"postgres"}, Len(s.text) \in Nat,
         Len(s.text) = Len(s.params),
         \A i \in 1..Len(s.text) : s.text[i].kind = "?" /\ s.params[i] = s.text[i].for
  PROVE  Bound(dialect, s)
<1> DEFINE places == 1..Len(s.text)
<1>1. Of(s.text, "?") = places /\ Of(s.text, "$") = {} /\ Bindable(s.text) = places
  BY DEF Of, Bindable
<1>2. \A i \in places : {k \in places : k <= i} = 1..i /\ Cardinality(1..i) = i
  <2>1. TAKE i \in places
  <2>2. i \in Nat /\ {k \in places : k <= i} = 1..i
    OBVIOUS
  <2> QED
    BY <2>2, UpToCount
<1>3. \A i \in places : Received(dialect, s.text, i) = i
  <2>1. TAKE i \in places
  <2>2. CASE dialect = "mysql"
    BY <1>1, <1>2, <2>2 DEF Received
  <2>3. CASE dialect = "mssql"
    BY <1>1, <1>2, <2>3 DEF Received, Until
  <2>4. CASE dialect = "sqlite"
    <3> DEFINE alike(j, k) == s.text[j].kind = "$" /\ s.text[k].kind = "$" /\ s.text[j].n = s.text[k].n
               new(j) == \A k \in Bindable(s.text) : k < j => ~alike(j, k)
               upTo(j) == {k \in Bindable(s.text) : k <= j}
    <3>1. \A j \in upTo(i) : new(j) /\ \A k \in upTo(j) : k < j => ~alike(i, k)
      BY <1>1
    <3>2. {j \in upTo(i) : new(j) /\ \A k \in upTo(j) : k < j => ~alike(i, k)} = 1..i
      BY <1>1, <1>2, <3>1
    <3>3. Received("sqlite", s.text, i)
            = Cardinality({j \in upTo(i) : new(j) /\ \A k \in upTo(j) : k < j => ~alike(i, k)})
      BY DEF Received
    <3> QED
      BY <1>2, <2>4, <3>2, <3>3
  <2> QED
    BY <2>2, <2>3, <2>4 DEF Dialects
<1>4. {Received(dialect, s.text, i) : i \in places} = 1..Len(s.params)
  BY <1>3
<1>5. Cardinality(places) = Len(s.params)
  BY UpToCount
<1>6. \A i \in places : s.params[Received(dialect, s.text, i)] = s.text[i].for
  BY <1>3
<1> QED
  BY <1>1, <1>4, <1>5, <1>6 DEF Bound

-----------------------------------------------------------------------------
(* Binding: fragments                                                      *)

PlacesOf(V) == [kind : {"$", "tvp"}, n : Nat, for : V]
FragmentPlaces == PlacesOf(Values \union Tables)
Fragments == [text : Seq(FragmentPlaces), params : Seq(Values), tvpValues : Seq(Tables)]

FragmentInv(f) == f \in Fragments /\ InOrder(f.text, f.params) /\ SentinelsRight(f)

\* A fragment of which that holds is bound rightly everywhere and is valid.
LEMMA FragmentIsRight ==
  ASSUME NEW f, FragmentInv(f)
  PROVE  FragmentRight(f)
<1>1. /\ f.text \in Seq(FragmentPlaces) /\ f.params \in Seq(Values) /\ f.tvpValues \in Seq(Tables)
      /\ Len(f.text) \in Nat /\ Len(f.params) \in Nat
      /\ \A i \in 1..Len(f.text) : f.text[i].kind \in {"$", "tvp"}
  <2>1. f.text \in Seq(FragmentPlaces) /\ f.params \in Seq(Values) /\ f.tvpValues \in Seq(Tables)
    BY DEF FragmentInv, Fragments
  <2>2. Len(f.text) \in Nat /\ Len(f.params) \in Nat
    BY <2>1, LenProperties
  <2>3. \A i \in 1..Len(f.text) : f.text[i] \in FragmentPlaces
    BY <2>1, ElementOfSeq
  <2> QED
    BY <2>1, <2>2, <2>3 DEF FragmentPlaces, PlacesOf
<1>2. \A kind \in {"?", "(", ")", ";", "write"} : Of(f.text, kind) = {}
  BY <1>1 DEF Of
<1>3. \A dialect \in Dialects : Bound(dialect, f)
  BY <1>1, <1>2, BoundInOrder DEF FragmentInv
<1>4. \A i \in 1..Len(f.text) : Until(Of(f.text, ")"), i) = {} /\ Until(Of(f.text, "("), i) = {}
  BY <1>2 DEF Until
<1>5. f.tvpValues = <<>> => Of(f.text, "tvp") = {}
  <2>1. HAVE f.tvpValues = <<>>
  <2>2. Len(f.tvpValues) = 0
    BY <2>1
  <2> QED
    BY <2>2 DEF FragmentInv, SentinelsRight
<1>6. Cardinality({f.text[i].n : i \in Of(f.text, "$")}) = Len(f.params)
  BY <1>1, AsManyPlaceholders, UpToCount DEF FragmentInv
<1>7. Cardinality({}) = 0
  BY FS_EmptySet
<1>8. \A i \in 1..Len(f.text) : Cardinality(Until(Of(f.text, ")"), i)) <= Cardinality(Until(Of(f.text, "("), i))
  <2>1. TAKE i \in 1..Len(f.text)
  <2>2. Cardinality(Until(Of(f.text, ")"), i)) = 0 /\ Cardinality(Until(Of(f.text, "("), i)) = 0
    BY <1>4, <1>7
  <2> QED
    BY <2>2
<1>9. validateSql(f, FALSE, TRUE)
  <2>1. Cardinality(Of(f.text, "(")) = 0 /\ Cardinality(Of(f.text, ")")) = 0 /\ Cardinality(Of(f.text, "write")) = 0
    BY <1>2, <1>7
  <2>2. f.tvpValues = <<>> => Cardinality(Of(f.text, "tvp")) = 0
    BY <1>5, <1>7
  <2>3. \A i \in Of(f.text, ";") : i = Len(f.text)
    BY <1>2
  <2> QED
    BY <1>6, <1>8, <2>1, <2>2, <2>3 DEF validateSql
<1> QED
  BY <1>3, <1>9 DEF FragmentInv, FragmentRight

\* What sqlIf() returns when its condition is false.
LEMMA EmptyInv == FragmentInv(Empty) /\ Empty.tvpValues = <<>>
<1>1. Empty = [text |-> <<>>, params |-> <<>>, tvpValues |-> <<>>]
  BY DEF Empty, createFragment
<1>2. Empty \in Fragments
  BY <1>1, EmptySeq DEF Fragments
<1>3. Len(Empty.text) = 0 /\ Len(Empty.params) = 0
  BY <1>1
<1>4. \A kind \in {"$", "tvp"} : Of(Empty.text, kind) = {}
  BY <1>3 DEF Of
<1> QED
  BY <1>1, <1>2, <1>3, <1>4 DEF FragmentInv, InOrder, SentinelsRight

\* A scalar has the number after those of the parameters before it.
LEMMA TakesScalarInv ==
  ASSUME NEW f, FragmentInv(f), NEW value \in Values
  PROVE  /\ FragmentInv(takesScalar(f, value))
         /\ takesScalar(f, value).tvpValues = f.tvpValues
<1> DEFINE p == Place("$", Len(f.params) + 1, value)
           text == Append(f.text, p)
           params == Append(f.params, value)
<1>1. /\ f.text \in Seq(FragmentPlaces) /\ f.params \in Seq(Values) /\ f.tvpValues \in Seq(Tables)
      /\ Len(f.text) \in Nat /\ Len(f.params) \in Nat
  BY LenProperties DEF FragmentInv, Fragments
<1>2. takesScalar(f, value) = [text |-> text, params |-> params, tvpValues |-> f.tvpValues]
  BY DEF takesScalar, createFragment
<1>3. p \in FragmentPlaces /\ p.kind = "$" /\ p.n = Len(f.params) + 1 /\ p.for = value
  BY <1>1 DEF Place, FragmentPlaces, PlacesOf
<1>4. /\ text \in Seq(FragmentPlaces) /\ Len(text) = Len(f.text) + 1 /\ text[Len(f.text) + 1] = p
      /\ \A i \in 1..Len(f.text) : text[i] = f.text[i]
  BY <1>1, <1>3
<1>5. /\ params \in Seq(Values) /\ Len(params) = Len(f.params) + 1 /\ params[Len(f.params) + 1] = value
      /\ \A i \in 1..Len(f.params) : params[i] = f.params[i]
  BY <1>1
<1>6. /\ Of(text, "$") = Of(f.text, "$") \union {Len(f.text) + 1} /\ Of(text, "tvp") = Of(f.text, "tvp")
      /\ Of(f.text, "$") \subseteq 1..Len(f.text) /\ Of(f.text, "tvp") \subseteq 1..Len(f.text)
  BY <1>1, <1>3, <1>4 DEF Of
<1> HIDE DEF p, text, params
<1>7. InOrder(text, params)
  <2>1. \A i \in Of(text, "$") : text[i].n \in 1..Len(params) /\ params[text[i].n] = text[i].for
    <3>1. TAKE i \in Of(text, "$")
    <3>2. CASE i = Len(f.text) + 1
      BY <1>1, <1>3, <1>4, <1>5, <3>2
    <3>3. CASE i \in Of(f.text, "$")
      <4>1. f.text[i].n \in 1..Len(f.params) /\ f.params[f.text[i].n] = f.text[i].for
        BY <3>3 DEF FragmentInv, InOrder
      <4>2. text[i] = f.text[i]
        BY <1>4, <1>6, <3>3
      <4> QED
        BY <1>1, <1>5, <4>1, <4>2
    <3> QED
      BY <1>6, <3>2, <3>3
  <2>2. \A i, j \in Of(text, "$") : i < j => text[i].n < text[j].n
    <3>1. TAKE i, j \in Of(text, "$")
    <3>2. HAVE i < j
    <3>3. i \in Of(f.text, "$") /\ i \in 1..Len(f.text)
      BY <1>1, <1>6, <3>1, <3>2
    <3>4. text[i].n \in 1..Len(f.params)
      BY <1>4, <3>3 DEF FragmentInv, InOrder
    <3>5. CASE j = Len(f.text) + 1
      BY <1>1, <1>3, <1>4, <3>4, <3>5
    <3>6. CASE j \in Of(f.text, "$")
      BY <1>4, <1>6, <3>2, <3>3, <3>6 DEF FragmentInv, InOrder
    <3> QED
      BY <1>6, <3>5, <3>6
  <2>3. \A m \in 1..Len(params) : \E i \in Of(text, "$") : text[i].n = m
    <3>1. TAKE m \in 1..Len(params)
    <3>2. CASE m = Len(f.params) + 1
      BY <1>3, <1>4, <1>6, <3>2
    <3>3. CASE m \in 1..Len(f.params)
      BY <1>4, <1>6, <3>3 DEF FragmentInv, InOrder
    <3> QED
      BY <1>1, <1>5, <3>2, <3>3
  <2> QED
    BY <2>1, <2>2, <2>3 DEF InOrder
<1>8. SentinelsRight(takesScalar(f, value))
  BY <1>2, <1>4, <1>6 DEF FragmentInv, SentinelsRight
<1> QED
  BY <1>1, <1>2, <1>4, <1>5, <1>7, <1>8 DEF FragmentInv, Fragments

\* The sentinel of a table has the index the table gets.
LEMMA TakesTableInv ==
  ASSUME NEW f, FragmentInv(f), NEW tvpValue \in Tables
  PROVE  FragmentInv(takesTable(f, tvpValue))
<1> DEFINE p == Place("tvp", Len(f.tvpValues), tvpValue)
           text == Append(f.text, p)
           tables == Append(f.tvpValues, tvpValue)
<1>1. /\ f.text \in Seq(FragmentPlaces) /\ f.params \in Seq(Values) /\ f.tvpValues \in Seq(Tables)
      /\ Len(f.text) \in Nat /\ Len(f.params) \in Nat /\ Len(f.tvpValues) \in Nat
  BY LenProperties DEF FragmentInv, Fragments
<1>2. takesTable(f, tvpValue) = [text |-> text, params |-> f.params, tvpValues |-> tables]
  BY DEF takesTable, createFragment
<1>3. p \in FragmentPlaces /\ p.kind = "tvp" /\ p.n = Len(f.tvpValues) /\ p.for = tvpValue
  BY <1>1 DEF Place, FragmentPlaces, PlacesOf
<1>4. /\ text \in Seq(FragmentPlaces) /\ Len(text) = Len(f.text) + 1 /\ text[Len(f.text) + 1] = p
      /\ \A i \in 1..Len(f.text) : text[i] = f.text[i]
  BY <1>1, <1>3
<1>5. /\ tables \in Seq(Tables) /\ Len(tables) = Len(f.tvpValues) + 1
      /\ tables[Len(f.tvpValues) + 1] = tvpValue
      /\ \A i \in 1..Len(f.tvpValues) : tables[i] = f.tvpValues[i]
  BY <1>1
<1>6. /\ Of(text, "tvp") = Of(f.text, "tvp") \union {Len(f.text) + 1} /\ Of(text, "$") = Of(f.text, "$")
      /\ Of(f.text, "$") \subseteq 1..Len(f.text) /\ Of(f.text, "tvp") \subseteq 1..Len(f.text)
  BY <1>1, <1>3, <1>4 DEF Of
<1> HIDE DEF p, text, tables
<1>7. InOrder(text, f.params)
  BY <1>4, <1>6 DEF FragmentInv, InOrder
<1>8. \A i \in Of(text, "tvp") :
        text[i].n + 1 \in 1..Len(tables) /\ tables[text[i].n + 1] = text[i].for
  <2>1. TAKE i \in Of(text, "tvp")
  <2>2. CASE i = Len(f.text) + 1
    BY <1>1, <1>3, <1>4, <1>5, <2>2
  <2>3. CASE i \in Of(f.text, "tvp")
    <3>1. f.text[i].n + 1 \in 1..Len(f.tvpValues) /\ f.tvpValues[f.text[i].n + 1] = f.text[i].for
      BY <2>3 DEF FragmentInv, SentinelsRight
    <3>2. text[i] = f.text[i]
      BY <1>4, <1>6, <2>3
    <3> QED
      BY <1>1, <1>5, <3>1, <3>2
  <2> QED
    BY <1>6, <2>2, <2>3
<1>9. SentinelsRight(takesTable(f, tvpValue))
  BY <1>2, <1>8 DEF SentinelsRight
<1> QED
  BY <1>1, <1>2, <1>4, <1>5, <1>7, <1>9 DEF FragmentInv, Fragments

\* Renumbering moves the numbers of a text, and nothing else.
LEMMA Renumbered ==
  ASSUME NEW V, NEW text \in Seq(PlacesOf(V)), NEW shift \in Nat
  PROVE  /\ renumberPlaceholders(text, shift) \in Seq(PlacesOf(V))
         /\ Len(renumberPlaceholders(text, shift)) = Len(text)
         /\ \A i \in 1..Len(text) :
              /\ renumberPlaceholders(text, shift)[i].kind = text[i].kind
              /\ renumberPlaceholders(text, shift)[i].for = text[i].for
              /\ renumberPlaceholders(text, shift)[i].n
                   = IF text[i].kind = "$" THEN text[i].n + shift ELSE text[i].n
<1> DEFINE place(i) == IF text[i].kind = "$" THEN [text[i] EXCEPT !.n = @ + shift] ELSE text[i]
<1>1. Len(text) \in Nat /\ \A i \in 1..Len(text) : text[i] \in PlacesOf(V)
  BY LenProperties, ElementOfSeq
<1>2. \A i \in 1..Len(text) : /\ place(i) \in PlacesOf(V)
                              /\ place(i).kind = text[i].kind /\ place(i).for = text[i].for
                              /\ place(i).n = IF text[i].kind = "$" THEN text[i].n + shift ELSE text[i].n
  BY <1>1 DEF PlacesOf
<1>3. renumberPlaceholders(text, shift) = [i \in 1..Len(text) |-> place(i)]
  BY DEF renumberPlaceholders
<1> HIDE DEF place
<1>4. renumberPlaceholders(text, shift) \in Seq(PlacesOf(V))
  BY <1>1, <1>2, <1>3
<1>5. Len(renumberPlaceholders(text, shift)) = Len(text)
  BY <1>1, <1>3
<1> QED
  BY <1>2, <1>3, <1>4, <1>5

\* The second of two sequences follows the first.
LEMMA ConcatShifted ==
  ASSUME NEW S, NEW s \in Seq(S), NEW t \in Seq(S)
  PROVE  /\ Len(s \o t) = Len(s) + Len(t)
         /\ \A i \in 1..Len(s) : (s \o t)[i] = s[i]
         /\ \A i \in 1..Len(t) : (s \o t)[i + Len(s)] = t[i]
<1> DEFINE L == Len(s)
           M == Len(t)
           u == s \o t
<1>1. L \in Nat /\ M \in Nat
  BY LenProperties
<1>2. Len(u) = L + M /\ \A i \in 1..(L + M) : u[i] = IF i <= L THEN s[i] ELSE t[i - L]
  BY ConcatProperties
<1> HIDE DEF L, M, u
<1>3. \A i \in 1..L : i \in 1..(L + M) /\ i <= L
  BY <1>1
<1>4. \A i \in 1..M : i + L \in 1..(L + M) /\ ~(i + L <= L) /\ (i + L) - L = i
  BY <1>1
<1>5. Len(u) = L + M /\ (\A i \in 1..L : u[i] = s[i]) /\ \A i \in 1..M : u[i + L] = t[i]
  BY <1>2, <1>3, <1>4
<1> QED
  BY <1>5 DEF L, M, u

\* Two texts one after the other, the second with its numbers moved: w is the
\* text and r its parameters.
TextsJoin(w, t, u, shift) ==
  /\ Len(t) \in Nat /\ Len(u) \in Nat /\ Len(w) = Len(t) + Len(u)
  /\ \A i \in 1..Len(t) : w[i] = t[i]
  /\ \A i \in 1..Len(u) : /\ w[i + Len(t)].kind = u[i].kind /\ w[i + Len(t)].for = u[i].for
                          /\ u[i].kind = "$" => w[i + Len(t)].n = u[i].n + shift
ParamsJoin(r, p, q) ==
  /\ Len(p) \in Nat /\ Len(q) \in Nat /\ Len(r) = Len(p) + Len(q)
  /\ \A i \in 1..Len(p) : r[i] = p[i]
  /\ \A i \in 1..Len(q) : r[i + Len(p)] = q[i]

\* Two texts in order make one when the numbers of the second were shifted by the
\* parameters of the first.
LEMMA InOrderConcat ==
  ASSUME NEW t, NEW u, NEW w, NEW p, NEW q, NEW r,
         TextsJoin(w, t, u, Len(p)), ParamsJoin(r, p, q), InOrder(t, p), InOrder(u, q)
  PROVE  InOrder(w, r)
<1> DEFINE L == Len(t)
           M == Len(u)
           P == Len(p)
           Q == Len(q)
<1>1. /\ L \in Nat /\ M \in Nat /\ Len(w) = L + M
      /\ \A i \in 1..L : w[i] = t[i]
      /\ \A i \in 1..M : /\ w[i + L].kind = u[i].kind /\ w[i + L].for = u[i].for
                         /\ u[i].kind = "$" => w[i + L].n = u[i].n + P
  BY DEF TextsJoin
<1>2. /\ P \in Nat /\ Q \in Nat /\ Len(r) = P + Q
      /\ \A i \in 1..P : r[i] = p[i]
      /\ \A i \in 1..Q : r[i + P] = q[i]
  BY DEF ParamsJoin
<1>3. /\ \A i \in Of(t, "$") : i \in 1..L /\ t[i].kind = "$" /\ t[i].n \in 1..P /\ p[t[i].n] = t[i].for
      /\ \A j \in Of(u, "$") : j \in 1..M /\ u[j].kind = "$" /\ u[j].n \in 1..Q /\ q[u[j].n] = u[j].for
      /\ \A i, j \in Of(t, "$") : i < j => t[i].n < t[j].n
      /\ \A i, j \in Of(u, "$") : i < j => u[i].n < u[j].n
      /\ \A m \in 1..P : \E i \in Of(t, "$") : t[i].n = m
      /\ \A m \in 1..Q : \E j \in Of(u, "$") : u[j].n = m
      /\ \A i \in 1..L : t[i].kind = "$" => i \in Of(t, "$")
      /\ \A j \in 1..M : u[j].kind = "$" => j \in Of(u, "$")
      /\ Of(w, "$") = {i \in 1..Len(w) : w[i].kind = "$"}
  BY DEF InOrder, Of
<1> HIDE DEF L, M, P, Q
<1>4. Of(w, "$") = {i \in 1..(L + M) : w[i].kind = "$"}
  BY <1>1, <1>3
<1> DEFINE first(i) == i \in Of(t, "$") /\ i \in 1..L /\ w[i] = t[i] /\ t[i].n \in 1..P
           second(i, j) == /\ j \in Of(u, "$") /\ j \in 1..M /\ i = j + L /\ u[j].n \in 1..Q
                           /\ w[i].n = u[j].n + P /\ w[i].for = u[j].for
<1>5. \A i \in Of(t, "$") : /\ i \in 1..L /\ t[i].kind = "$" /\ t[i].n \in 1..P /\ p[t[i].n] = t[i].for
                            /\ i \in Of(w, "$") /\ first(i)
  BY <1>1, <1>3, <1>4
<1>6. \A j \in Of(u, "$") : /\ j \in 1..M /\ u[j].kind = "$" /\ u[j].n \in 1..Q /\ q[u[j].n] = u[j].for
                            /\ j + L \in Of(w, "$") /\ second(j + L, j)
  <2>1. TAKE j \in Of(u, "$")
  <2>2. j \in 1..M /\ u[j].kind = "$" /\ u[j].n \in 1..Q /\ q[u[j].n] = u[j].for
    BY <1>3
  <2>3. j + L \in 1..(L + M)
    BY <1>1, <2>2
  <2> QED
    BY <1>1, <1>4, <2>2, <2>3
<1>7. \A i \in Of(w, "$") : first(i) \/ \E j \in Of(u, "$") : second(i, j)
  <2>1. TAKE i \in Of(w, "$")
  <2>2. i \in 1..(L + M) /\ w[i].kind = "$"
    BY <1>4
  <2>3. CASE i \in 1..L
    <3>1. i \in Of(t, "$")
      BY <1>1, <1>3, <2>2, <2>3
    <3> QED
      BY <1>5, <3>1
  <2>4. CASE i \notin 1..L
    <3>1. PICK j \in 1..M : i = j + L
      <4>1. i - L \in 1..M /\ i = (i - L) + L
        BY <1>1, <2>2, <2>4
      <4> QED
        BY <4>1
    <3>2. j \in Of(u, "$")
      BY <1>1, <1>3, <2>2, <3>1
    <3> QED
      BY <1>6, <3>1, <3>2
  <2> QED
    BY <2>3, <2>4
<1> HIDE DEF first, second
<1>8. \A i \in Of(w, "$") : w[i].n \in 1..Len(r) /\ r[w[i].n] = w[i].for
  <2>1. TAKE i \in Of(w, "$")
  <2>2. CASE first(i)
    BY <1>5, <1>2, <2>2 DEF first
  <2>3. ASSUME NEW j \in Of(u, "$"), second(i, j)
        PROVE  w[i].n \in 1..Len(r) /\ r[w[i].n] = w[i].for
    <3>1. u[j].n \in 1..Q /\ q[u[j].n] = u[j].for
      BY <1>6
    <3>2. u[j].n + P \in 1..(P + Q)
      BY <1>2, <3>1
    <3> QED
      BY <1>2, <2>3, <3>1, <3>2 DEF second
  <2> QED
    BY <1>7, <2>2, <2>3
<1>9. \A i, j \in Of(w, "$") : i < j => w[i].n < w[j].n
  <2>1. TAKE i, j \in Of(w, "$")
  <2>2. HAVE i < j
  <2>3. CASE first(i) /\ first(j)
    BY <1>3, <2>2, <2>3 DEF first
  <2>4. ASSUME first(i), NEW k \in Of(u, "$"), second(j, k)
        PROVE  w[i].n < w[j].n
    BY <1>2, <2>4 DEF first, second
  <2>5. ASSUME first(j), NEW k \in Of(u, "$"), second(i, k)
        PROVE  FALSE
    BY <1>1, <2>2, <2>5 DEF first, second
  <2>6. ASSUME NEW k \in Of(u, "$"), second(i, k), NEW m \in Of(u, "$"), second(j, m)
        PROVE  w[i].n < w[j].n
    <3>1. k < m
      BY <1>1, <2>2, <2>6 DEF second
    <3>2. u[k].n < u[m].n
      BY <1>3, <3>1
    <3> QED
      BY <1>2, <2>6, <3>2 DEF second
  <2> QED
    BY <1>7, <2>3, <2>4, <2>5, <2>6
<1>10. \A m \in 1..Len(r) : \E i \in Of(w, "$") : w[i].n = m
  <2>1. TAKE m \in 1..Len(r)
  <2>2. CASE m \in 1..P
    <3>1. PICK i \in Of(t, "$") : t[i].n = m
      BY <1>3, <2>2
    <3> QED
      BY <1>5, <3>1 DEF first
  <2>3. CASE m \notin 1..P
    <3>1. m - P \in 1..Q
      BY <1>2, <2>1, <2>3
    <3>2. PICK j \in Of(u, "$") : u[j].n = m - P
      BY <1>3, <3>1
    <3>3. w[j + L].n = (m - P) + P /\ j + L \in Of(w, "$")
      BY <1>6, <3>2 DEF second
    <3> QED
      BY <1>2, <2>1, <3>3
  <2> QED
    BY <2>2, <2>3
<1> QED
  BY <1>8, <1>9, <1>10 DEF InOrder

\* A nested fragment keeps its values and its tables, when only one of the two
\* has tables of its own.
LEMMA NestsInv ==
  ASSUME NEW f, NEW g, FragmentInv(f), FragmentInv(g), f.tvpValues = <<>> \/ g.tvpValues = <<>>
  PROVE  FragmentInv(nests(f, g))
<1> DEFINE moved == renumberPlaceholders(g.text, Len(f.params))
           text == f.text \o moved
           params == f.params \o g.params
           tables == f.tvpValues \o g.tvpValues
           L == Len(f.text)
           M == Len(g.text)
           P == Len(f.params)
           Q == Len(g.params)
<1>1. /\ f.text \in Seq(FragmentPlaces) /\ f.params \in Seq(Values) /\ f.tvpValues \in Seq(Tables)
      /\ g.text \in Seq(FragmentPlaces) /\ g.params \in Seq(Values) /\ g.tvpValues \in Seq(Tables)
  BY DEF FragmentInv, Fragments
<1>2. L \in Nat /\ M \in Nat /\ P \in Nat /\ Q \in Nat
  BY <1>1, LenProperties
<1>3. nests(f, g) = [text |-> text, params |-> params, tvpValues |-> tables]
  BY DEF nests, createFragment
<1>4. moved \in Seq(FragmentPlaces)
  BY <1>1, <1>2, Renumbered DEF FragmentPlaces
<1>5. /\ Len(moved) = M
      /\ \A i \in 1..M : /\ moved[i].kind = g.text[i].kind /\ moved[i].for = g.text[i].for
                         /\ moved[i].n = IF g.text[i].kind = "$" THEN g.text[i].n + P ELSE g.text[i].n
  BY <1>1, <1>2, Renumbered DEF FragmentPlaces
<1> HIDE DEF moved
<1>6. text \in Seq(FragmentPlaces) /\ params \in Seq(Values)
  BY <1>1, <1>4, ConcatProperties
<1>7. tables \in Seq(Tables) /\ (f.tvpValues = <<>> => tables = g.tvpValues)
      /\ (g.tvpValues = <<>> => tables = f.tvpValues)
  BY <1>1, ConcatProperties, ConcatEmptySeq
<1>8. /\ Len(text) = L + Len(moved) /\ \A i \in 1..L : text[i] = f.text[i]
      /\ \A i \in 1..Len(moved) : text[i + L] = moved[i]
  BY <1>1, <1>4, ConcatShifted
<1>9. /\ Len(params) = P + Q /\ \A i \in 1..P : params[i] = f.params[i]
      /\ \A i \in 1..Q : params[i + P] = g.params[i]
  <2>1. f.params \in Seq(Values) /\ g.params \in Seq(Values)
    BY <1>1
  <2>2. Len(params) = P + Q
    BY <2>1, ConcatShifted
  <2>3. \A i \in 1..P : params[i] = f.params[i]
    BY <2>1, ConcatShifted
  <2>4. \A i \in 1..Q : params[i + P] = g.params[i]
    <3> DEFINE p == f.params
               q == g.params
    <3>1. p \in Seq(Values) /\ q \in Seq(Values)
      BY <2>1
    <3> HIDE DEF p, q
    <3>2. \A i \in 1..Len(q) : (p \o q)[i + Len(p)] = q[i]
      BY <3>1, ConcatShifted
    <3> QED
      BY <3>2 DEF p, q
  <2> QED
    BY <2>2, <2>3, <2>4
<1> HIDE DEF text, params, tables, L, M, P, Q
<1>10. InOrder(text, params)
  <2>1. InOrder(f.text, f.params) /\ InOrder(g.text, g.params)
    BY DEF FragmentInv
  <2>2. TextsJoin(text, f.text, g.text, Len(f.params))
    BY <1>2, <1>5, <1>8 DEF TextsJoin, L, M, P
  <2>3. ParamsJoin(params, f.params, g.params)
    BY <1>2, <1>9 DEF ParamsJoin, P, Q
  <2> QED
    BY <2>1, <2>2, <2>3, InOrderConcat
<1>11. \A i \in Of(text, "tvp") : text[i].n + 1 \in 1..Len(tables) /\ tables[text[i].n + 1] = text[i].for
  <2>1. TAKE i \in Of(text, "tvp")
  <2>2. i \in 1..(L + M) /\ text[i].kind = "tvp"
    BY <1>5, <1>8 DEF Of
  <2>3. CASE i \in 1..L
    <3>1. i \in Of(f.text, "tvp") /\ text[i] = f.text[i]
      BY <1>8, <2>2, <2>3 DEF Of, L
    <3>2. f.text[i].n + 1 \in 1..Len(f.tvpValues) /\ f.tvpValues[f.text[i].n + 1] = f.text[i].for
      BY <3>1 DEF FragmentInv, SentinelsRight
    <3>3. f.tvpValues # <<>>
      BY <3>2
    <3> QED
      BY <1>7, <3>1, <3>2, <3>3
  <2>4. CASE i \notin 1..L
    <3> DEFINE j == i - L
    <3>1. j \in 1..M /\ j + L = i
      BY <1>2, <2>2, <2>4
    <3> HIDE DEF j
    <3>2. text[i] = moved[j]
      BY <1>5, <1>8, <3>1
    <3>3. g.text[j].kind = "tvp" /\ text[i].for = g.text[j].for /\ text[i].n = g.text[j].n
      BY <1>5, <2>2, <3>1, <3>2
    <3>4. j \in Of(g.text, "tvp")
      BY <3>1, <3>3 DEF Of, M
    <3>5. g.text[j].n + 1 \in 1..Len(g.tvpValues) /\ g.tvpValues[g.text[j].n + 1] = g.text[j].for
      BY <3>4 DEF FragmentInv, SentinelsRight
    <3>6. g.tvpValues # <<>>
      BY <3>5
    <3> QED
      BY <1>7, <3>3, <3>5, <3>6
  <2> QED
    BY <2>3, <2>4
<1>12. SentinelsRight(nests(f, g))
  BY <1>3, <1>11 DEF SentinelsRight
<1> QED
  BY <1>3, <1>6, <1>7, <1>10, <1>12 DEF FragmentInv, Fragments

\* sqlJoin() and build() do what the tag does with fragments that have no tables.
LEMMA JoinsInv ==
  ASSUME NEW f, NEW g, FragmentInv(f), FragmentInv(g), f.tvpValues = <<>>, g.tvpValues = <<>>
  PROVE  FragmentInv(joins(f, g)) /\ joins(f, g).tvpValues = <<>>
<1>1. f.tvpValues \o g.tvpValues = <<>>
  BY ConcatEmptySeq, EmptySeq
<1>2. joins(f, g) = nests(f, g)
  BY <1>1 DEF joins, nests
<1> QED
  BY <1>2, NestsInv DEF joins, createFragment

-----------------------------------------------------------------------------
(* Binding: statements                                                     *)

\* A text that the code numbers from 1 is in order.
LEMMA NumberedInOrder ==
  ASSUME NEW values, Len(values) \in Nat
  PROVE  /\ Len(Numbered(values)) = Len(values) /\ InOrder(Numbered(values), values)
         /\ Of(Numbered(values), "?") = {}
         /\ Numbered(values) \in Seq(PlacesOf({values[i] : i \in 1..Len(values)}))
<1>1. Len(Numbered(values)) = Len(values)
  BY DEF Numbered
<1>2. \A i \in 1..Len(values) : /\ Numbered(values)[i].kind = "$" /\ Numbered(values)[i].n = i
                               /\ Numbered(values)[i].for = values[i]
  BY DEF Numbered, Place
<1>3. Of(Numbered(values), "$") = 1..Len(values) /\ Of(Numbered(values), "?") = {}
  BY <1>1, <1>2 DEF Of
<1>4. InOrder(Numbered(values), values)
  BY <1>2, <1>3 DEF InOrder
<1>5. Numbered(values) \in Seq(PlacesOf({values[i] : i \in 1..Len(values)}))
  BY DEF Numbered, Place, PlacesOf
<1> QED
  BY <1>1, <1>3, <1>4, <1>5

\* So it is bound rightly in every dialect.
LEMMA NumberedBound ==
  ASSUME NEW s, NEW dialect \in Dialects, NEW values, Len(values) \in Nat,
         s.text = Numbered(values), s.params = values
  PROVE  Bound(dialect, s)
BY NumberedInOrder, BoundInOrder

\* With one more placeholder, as update() has, it is numbered still.
LEMMA NumberedAppend ==
  ASSUME NEW n \in Nat, NEW values, NEW last, values = [i \in 1..n |-> values[i]]
  PROVE  /\ Len(Append(values, last)) = n + 1
         /\ Append(Numbered(values), Place("$", n + 1, last)) = Numbered(Append(values, last))
<1> DEFINE V == {values[i] : i \in 1..n} \union {last}
           all == Append(values, last)
           text == Append(Numbered(values), Place("$", n + 1, last))
<1>1. values \in Seq(V) /\ Len(values) = n
  <2>1. \A i \in 1..n : values[i] \in V
    OBVIOUS
  <2> HIDE DEF V
  <2> QED
    BY <2>1
<1>2. last \in V
  OBVIOUS
<1> HIDE DEF V
<1>3. /\ all \in Seq(V) /\ Len(all) = n + 1 /\ all[n + 1] = last
      /\ \A i \in 1..n : all[i] = values[i]
  BY <1>1, <1>2
<1>4. Numbered(values) \in Seq(PlacesOf(V)) /\ Len(Numbered(values)) = n
      /\ \A i \in 1..n : Numbered(values)[i] = Place("$", i, values[i])
  <2>1. \A i \in 1..n : values[i] \in V
    BY <1>1, ElementOfSeq
  <2>2. \A i \in 1..n : Place("$", i, values[i]) \in PlacesOf(V)
    BY <2>1 DEF Place, PlacesOf
  <2> QED
    BY <1>1, <2>2 DEF Numbered
<1>5. Place("$", n + 1, last) \in PlacesOf(V)
  BY <1>2 DEF Place, PlacesOf
<1>6. /\ text \in Seq(PlacesOf(V)) /\ Len(text) = n + 1 /\ text[n + 1] = Place("$", n + 1, last)
      /\ \A i \in 1..n : text[i] = Place("$", i, values[i])
  BY <1>4, <1>5
<1> HIDE DEF all, text
<1>7. /\ Numbered(all) = [i \in 1..(n + 1) |-> Place("$", i, all[i])]
      /\ Len(Numbered(all)) = n + 1
  BY <1>3 DEF Numbered
<1>8. \A i \in 1..(n + 1) : text[i] = Numbered(all)[i]
  <2>1. TAKE i \in 1..(n + 1)
  <2>2. i \in 1..n \/ i = n + 1
    OBVIOUS
  <2> QED
    BY <1>3, <1>6, <1>7, <2>2
<1>9. \A i \in 1..(n + 1) : Numbered(all)[i] \in PlacesOf(V)
  <2>1. \A i \in 1..(n + 1) : all[i] \in V
    BY <1>3, ElementOfSeq
  <2> QED
    BY <1>7, <2>1 DEF Place, PlacesOf
<1>10. Numbered(all) \in Seq(PlacesOf(V))
  <2> DEFINE u == Numbered(all)
  <2>1. u = [i \in 1..(n + 1) |-> u[i]] /\ \A i \in 1..(n + 1) : u[i] \in PlacesOf(V)
    BY <1>7, <1>9
  <2> HIDE DEF u
  <2>2. u \in Seq(PlacesOf(V))
    BY <2>1
  <2> QED
    BY <2>2 DEF u
<1>11. text = Numbered(all)
  BY <1>6, <1>7, <1>8, <1>10, SeqEqual
<1> QED
  BY <1>3, <1>11 DEF all, text

\* Filtering a sequence leaves one of its elements.
LEMMA FilterIsSeq ==
  ASSUME NEW seq, Len(seq) \in Nat, NEW S \in SUBSET (1..Len(seq))
  PROVE  /\ Cardinality(S) \in Nat /\ Len(Filter(seq, S)) = Cardinality(S)
         /\ Filter(seq, S) = [i \in 1..Cardinality(S) |-> Filter(seq, S)[i]]
<1>1. IsFiniteSet(S)
  BY UpToCount, FS_Subset
<1>2. Cardinality(S) \in Nat
  BY <1>1, FS_CardinalityType
<1> QED
  BY <1>2 DEF Filter

\* An object has a number of entries.
LEMMA ObjectLength == \A data \in Objects : Len(data) \in Nat
BY BindingAssumption, LenProperties

\* insert, update, deleteRow, upsert and the stored procedures.
LEMMA WritesBound ==
  ASSUME NEW dialect \in Dialects, NEW data \in Objects, WritesObject(dialect, data)
  PROVE  loop'.of = "sent" /\ loop'.dialect \in Dialects /\ Bound(loop'.dialect, loop')
<1>1. ASSUME NEW d \in Dialects, NEW values, Len(values) \in Nat, Sends(d, Statement(Numbered(values), values))
      PROVE  loop'.of = "sent" /\ loop'.dialect \in Dialects /\ Bound(loop'.dialect, loop')
  BY <1>1, NumberedBound DEF Sends, Statement
<1>2. Len(data) \in Nat /\ Len(Vals(data)) \in Nat
  BY ObjectLength DEF Vals
<1>3. CASE Sends(dialect, insert(data))
  <2> DEFINE cols == Filter(ColumnNames, {i \in 1..Len(ColumnNames) : Has(data, ColumnNames[i])})
             values == [i \in 1..Len(cols) |-> data[Entry(data, cols[i])].val]
  <2>1. Len(ColumnNames) \in Nat
    BY BindingAssumption, LenProperties
  <2>2. Len(cols) \in Nat
    BY <2>1, FilterIsSeq
  <2> HIDE DEF cols
  <2>3. Len(values) \in Nat
    BY <2>2
  <2>4. insert(data) = Statement(Numbered(values), values)
    BY DEF insert, cols
  <2> QED
    BY <1>1, <1>3, <2>3, <2>4
<1>4. ASSUME NEW pk, NEW value \in Values, Sends(dialect, update(data, pk, value))
      PROVE  loop'.of = "sent" /\ loop'.dialect \in Dialects /\ Bound(loop'.dialect, loop')
  <2> DEFINE others == Filter(data, {i \in 1..Len(data) : data[i].col # pk})
             n == Len(others)
             all == Append(Vals(others), value)
  <2>1. n \in Nat
    BY <1>2, FilterIsSeq
  <2> HIDE DEF others
  <2>2. Vals(others) = [i \in 1..n |-> Vals(others)[i]]
    BY DEF Vals
  <2>3. Len(all) = n + 1 /\ Append(Numbered(Vals(others)), Place("$", n + 1, value)) = Numbered(all)
    BY <2>1, <2>2, NumberedAppend
  <2>4. update(data, pk, value) = Statement(Numbered(all), all)
    BY <2>3 DEF update, others
  <2>5. Len(all) \in Nat
    BY <2>1, <2>3
  <2> QED
    BY <1>1, <1>4, <2>4, <2>5
<1>5. ASSUME NEW value \in Values, Sends(dialect, deleteRow(value))
      PROVE  loop'.of = "sent" /\ loop'.dialect \in Dialects /\ Bound(loop'.dialect, loop')
  <2>1. Numbered(<<value>>) = <<Place("$", 1, value)>> /\ Len(<<value>>) = 1
    BY DEF Numbered
  <2> QED
    BY <1>1, <1>5, <2>1 DEF deleteRow
<1>6. ASSUME NEW conflict \in Conflicts, dialect = "mysql" => UpdateColumns(data, conflict) = <<>>,
             Sends(dialect, upsert(dialect, data, conflict))
      PROVE  loop'.of = "sent" /\ loop'.dialect \in Dialects /\ Bound(loop'.dialect, loop')
  <2>1. upsert(dialect, data, conflict) = Statement(Numbered(Vals(data)), Vals(data))
    <3>1. CASE dialect # "mysql"
      BY <3>1 DEF upsert, upsertOnce
    <3>2. CASE dialect = "mysql"
      <4> DEFINE cols == UpdateColumns(data, conflict)
                 again == [i \in 1..Len(cols) |-> Place("$", Entry(data, cols[i].col), cols[i].val)]
      <4>1. cols = <<>>
        BY <1>6, <3>2
      <4>2. again = <<>>
        BY <4>1
      <4>3. Numbered(Vals(data)) \o <<>> = Numbered(Vals(data))
        BY <1>2, NumberedInOrder, ConcatEmptySeq
      <4>4. upsertMysql(data, conflict) = Statement(Numbered(Vals(data)) \o again, Vals(data))
        BY DEF upsertMysql
      <4> QED
        BY <3>2, <4>2, <4>3, <4>4 DEF upsert
    <3> QED
      BY <3>1, <3>2
  <2> QED
    BY <1>1, <1>2, <1>6, <2>1
<1>7. CASE Sends(dialect, queryProc(data)) \/ Sends(dialect, execProc(data))
  BY <1>1, <1>2, <1>7 DEF queryProc, execProc
<1> QED
  BY <1>3, <1>4, <1>5, <1>6, <1>7 DEF WritesObject

\* A table sent as arrays follows the parameters of its fragment; sent as rows it
\* is a text of question marks.
LEMMA TableBound ==
  ASSUME \A f \in made : FragmentInv(f), NEW rows \in TableRows, MaterialisesTable(rows)
  PROVE  loop'.of = "sent" /\ loop'.dialect \in Dialects /\ Bound(loop'.dialect, loop')
<1>1. Len(rows) \in Nat /\ Columns \in Nat
  BY BindingAssumption, LenProperties
<1>2. ASSUME NEW f \in made, \A i \in 1..Len(f.text) : f.text[i].kind = "$",
             Sends("postgres", materializeTvpUnnest(Columns, rows, f))
      PROVE  Bound("postgres", loop')
  <2> DEFINE arrays == [j \in 1..Columns |-> [i \in 1..Len(rows) |-> rows[i][j]]]
             V == Values \union Tables \union {arrays[j] : j \in 1..Columns}
             numbered == Numbered(arrays)
             moved == renumberPlaceholders(numbered, Len(f.params))
             text == f.text \o moved
             params == f.params \o arrays
  <2>1. /\ f.text \in Seq(FragmentPlaces) /\ f.params \in Seq(Values)
        /\ Len(f.text) \in Nat /\ Len(f.params) \in Nat /\ InOrder(f.text, f.params)
    BY LenProperties DEF FragmentInv, Fragments
  <2>2. arrays \in Seq(V) /\ Len(arrays) = Columns
    <3>1. \A j \in 1..Columns : arrays[j] \in V
      OBVIOUS
    <3> HIDE DEF V
    <3> QED
      BY <1>1, <3>1
  <2>3. FragmentPlaces \subseteq PlacesOf(V) /\ Values \subseteq V
        /\ PlacesOf({arrays[i] : i \in 1..Len(arrays)}) \subseteq PlacesOf(V)
    BY <2>2 DEF FragmentPlaces, PlacesOf
  <2>4. loop'.text = text /\ loop'.params = params
    BY <1>2 DEF materializeTvpUnnest, Sends, Statement
  <2> HIDE DEF arrays, V
  <2>5. /\ Len(numbered) = Columns /\ InOrder(numbered, arrays)
        /\ numbered \in Seq(PlacesOf({arrays[i] : i \in 1..Len(arrays)}))
    BY <1>1, <2>2, NumberedInOrder
  <2>6. numbered \in Seq(PlacesOf(V)) /\ f.text \in Seq(PlacesOf(V)) /\ f.params \in Seq(V)
    BY <2>1, <2>3, <2>5, SeqMonotonic
  <2> HIDE DEF numbered
  <2>7. moved \in Seq(PlacesOf(V))
    BY <2>1, <2>6, Renumbered
  <2>8. Len(moved) = Columns
    BY <2>1, <2>5, <2>6, Renumbered
  <2>9. \A i \in 1..Columns : /\ moved[i].kind = numbered[i].kind /\ moved[i].for = numbered[i].for
                              /\ numbered[i].kind = "$" => moved[i].n = numbered[i].n + Len(f.params)
    BY <2>1, <2>5, <2>6, Renumbered
  <2> HIDE DEF moved
  <2>10. TextsJoin(text, f.text, numbered, Len(f.params))
    <3>1. /\ Len(text) = Len(f.text) + Len(moved) /\ \A i \in 1..Len(f.text) : text[i] = f.text[i]
          /\ \A i \in 1..Len(moved) : text[i + Len(f.text)] = moved[i]
      BY <2>6, <2>7, ConcatShifted
    <3> QED
      BY <1>1, <2>1, <2>5, <2>8, <2>9, <3>1 DEF TextsJoin
  <2>11. ParamsJoin(params, f.params, arrays)
    <3>1. /\ Len(params) = Len(f.params) + Len(arrays)
          /\ \A i \in 1..Len(f.params) : params[i] = f.params[i]
          /\ \A i \in 1..Len(arrays) : params[i + Len(f.params)] = arrays[i]
      <4>1. f.params \in Seq(V) /\ arrays \in Seq(V)
        BY <2>2, <2>6
      <4> QED
        BY ONLY <4>1, ConcatShifted
    <3> QED
      BY <1>1, <2>1, <2>2, <3>1 DEF ParamsJoin
  <2>12. InOrder(text, params)
    BY <2>1, <2>5, <2>10, <2>11, InOrderConcat
  <2>13. \A i \in 1..Len(text) : text[i] \in PlacesOf(V)
    BY <2>6, <2>7, ConcatProperties, ElementOfSeq
  <2>14. Of(text, "?") = {}
    BY <2>13 DEF Of, PlacesOf
  <2> HIDE DEF text, params
  <2> QED
    BY <2>4, <2>12, <2>14, BoundByNumber DEF InOrder
<1>3. ASSUME NEW dialect \in {"mysql", "sqlite"}, Sends(dialect, materializeTvpTempTable(Columns, rows))
      PROVE  Bound(dialect, loop')
  <2> DEFINE n == Len(rows) * Columns
             flat == [k \in 1..n |-> rows[((k - 1) \div Columns) + 1][((k - 1) % Columns) + 1]]
  <2>1. n \in Nat
    BY <1>1
  <2>2. loop'.text = [k \in 1..Len(flat) |-> Place("?", 0, flat[k])] /\ loop'.params = flat
    BY <1>3 DEF materializeTvpTempTable, Sends, Statement
  <2> HIDE DEF n
  <2>3. Len(flat) = n
    BY <2>1
  <2> HIDE DEF flat
  <2>4. Len(loop'.text) = n /\ Len(loop'.params) = n
    BY <2>1, <2>2, <2>3
  <2>5. \A i \in 1..Len(loop'.text) : loop'.text[i].kind = "?" /\ loop'.params[i] = loop'.text[i].for
    BY <2>2, <2>3, <2>4 DEF Place
  <2>6. dialect \in Dialects \ {"postgres"}
    BY DEF Dialects
  <2> QED
    BY <2>1, <2>4, <2>5, <2>6, BoundByPosition
<1> QED
  BY <1>2, <1>3 DEF MaterialisesTable, Sends, Dialects

-----------------------------------------------------------------------------
(* Binding: @name parameters                                               *)

\* A text with the values so far: numbers on PostgreSQL, question marks in the
\* order of the values elsewhere.
PlacesRight(dialect, text, params) ==
  IF dialect = "postgres"
  THEN \A i \in 1..Len(text) : /\ text[i].kind = "$" /\ text[i].n \in 1..Len(params)
                               /\ params[text[i].n] = text[i].for
  ELSE /\ Len(text) = Len(params)
       /\ \A i \in 1..Len(text) : text[i].kind = "?" /\ params[i] = text[i].for

\* As long as no array was expanded, paramOrder names what each placeholder
\* receives.
OrderRight(l) ==
  /\ Len(l.text) = Len(l.read) /\ Len(l.paramOrder) = Len(l.params)
  /\ \A k \in l.known : l.paramOrder[k.at] = k.name
  /\ \A i \in 1..Len(l.text) :
       l.read[i] = l.paramOrder[IF l.dialect = "postgres" THEN l.text[i].n ELSE i]

NamedPlaces == [kind : {"$", "?"}, n : Nat, for : Values]
NamedLoops == [of : {"named", "built"}, dialect : Dialects, given : Params, read : Seq(Names),
               text : Seq(NamedPlaces), params : Seq(Values), paramOrder : Seq(Names),
               known : SUBSET [name : Names, at : Nat]]

NamedInv(l) ==
  /\ l \in NamedLoops
  /\ \A i \in 1..Len(l.read) : l.read[i] \in DOMAIN l.given
  /\ PlacesRight(l.dialect, l.text, l.params)
  /\ \A k \in l.known : /\ k.at \in 1..Len(l.params) /\ k.name \in DOMAIN l.given
                        /\ l.params[k.at] = l.given[k.name].vals[1]
  /\ (\A i \in 1..Len(l.read) : ~l.given[l.read[i]].many) => OrderRight(l)
  /\ l.of = "built" => {l.read[i] : i \in 1..Len(l.read)} = DOMAIN l.given

\* Such a text is bound rightly.
LEMMA PlacesBound ==
  ASSUME NEW s, NEW dialect \in Dialects, NEW S, s.text \in Seq(S), PlacesRight(dialect, s.text, s.params)
  PROVE  Bound(dialect, s)
<1>1. Len(s.text) \in Nat
  BY LenProperties
<1>2. CASE dialect = "postgres"
  <2>1. Of(s.text, "?") = {}
    BY <1>2 DEF Of, PlacesRight
  <2>2. \A i \in Of(s.text, "$") : s.text[i].n \in 1..Len(s.params) /\ s.params[s.text[i].n] = s.text[i].for
    BY <1>2 DEF Of, PlacesRight
  <2> QED
    BY <1>2, <2>1, <2>2, BoundByNumber
<1>3. CASE dialect # "postgres"
  BY <1>1, <1>3, BoundByPosition DEF PlacesRight
<1> QED
  BY <1>2, <1>3

\* The values of one more name, with a text of placeholders for them.
LEMMA PlacesAppended ==
  ASSUME NEW dialect \in Dialects, NEW text \in Seq(NamedPlaces), NEW params \in Seq(Values),
         NEW vals \in Seq(Values), PlacesRight(dialect, text, params),
         NEW places, DOMAIN places = 1..Len(vals), places = [i \in DOMAIN places |-> places[i]],
         \A i \in 1..Len(vals) : places[i] = NextPlace(dialect, Len(params) + i, vals[i])
  PROVE  /\ text \o places \in Seq(NamedPlaces) /\ params \o vals \in Seq(Values)
         /\ PlacesRight(dialect, text \o places, params \o vals)
         /\ Len(params \o vals) = Len(params) + Len(vals)
         /\ Len(text \o places) = Len(text) + Len(vals)
         /\ \A i \in 1..Len(params) : (params \o vals)[i] = params[i]
         /\ \A i \in 1..Len(text) : (text \o places)[i] = text[i]
         /\ \A i \in 1..Len(vals) : (text \o places)[i + Len(text)] = NextPlace(dialect, Len(params) + i, vals[i])
<1> DEFINE t == text \o places
           p == params \o vals
           L == Len(text)
           P == Len(params)
           V == Len(vals)
<1>1. L \in Nat /\ P \in Nat /\ V \in Nat /\ \A i \in 1..V : vals[i] \in Values
  BY LenProperties, ElementOfSeq
<1>2. \A i \in 1..V : NextPlace(dialect, P + i, vals[i]) \in NamedPlaces
  BY <1>1 DEF NextPlace, Place, NamedPlaces
<1>3. places \in Seq(NamedPlaces) /\ Len(places) = V
      /\ \A i \in 1..V : places[i] = NextPlace(dialect, P + i, vals[i])
  <2>1. places \in [1..V -> NamedPlaces]
    BY <1>2
  <2> QED
    BY <1>1, <2>1
<1>4. t \in Seq(NamedPlaces) /\ p \in Seq(Values)
  BY <1>3, ConcatProperties
<1>5. /\ Len(t) = L + Len(places) /\ \A i \in 1..L : t[i] = text[i]
      /\ \A i \in 1..Len(places) : t[i + L] = places[i]
  <2>1. places \in Seq(NamedPlaces)
    BY <1>3
  <2> QED
    BY ONLY <2>1, text \in Seq(NamedPlaces), ConcatShifted
<1>6. /\ Len(p) = P + V /\ \A i \in 1..P : p[i] = params[i]
      /\ \A i \in 1..V : p[i + P] = vals[i]
  BY ConcatShifted
<1> HIDE DEF t, p, L, P, V
<1>7. PlacesRight(dialect, t, p)
  <2>1. \A i \in 1..Len(t) : i \in 1..L \/ \E j \in 1..V : i = j + L
    <3>1. TAKE i \in 1..Len(t)
    <3>2. i \in 1..(L + V)
      BY <1>3, <1>5
    <3>3. i \in 1..L \/ (i - L \in 1..V /\ i = (i - L) + L)
      BY <1>1, <3>2
    <3> QED
      BY <3>3
  <2>2. CASE dialect = "postgres"
    <3>1. ASSUME NEW i \in 1..L
          PROVE  t[i].kind = "$" /\ t[i].n \in 1..Len(p) /\ p[t[i].n] = t[i].for
      <4>1. text[i].kind = "$" /\ text[i].n \in 1..P /\ params[text[i].n] = text[i].for
        BY <2>2 DEF PlacesRight, L, P
      <4> QED
        BY <1>1, <1>5, <1>6, <4>1
    <3>2. ASSUME NEW j \in 1..V
          PROVE  t[j + L].kind = "$" /\ t[j + L].n \in 1..Len(p) /\ p[t[j + L].n] = t[j + L].for
      <4>1. t[j + L] = [kind |-> "$", n |-> P + j, for |-> vals[j]]
        BY <1>3, <1>5, <2>2 DEF NextPlace, Positional, Place
      <4>2. P + j \in 1..(P + V) /\ P + j = j + P
        BY <1>1
      <4> QED
        BY <1>6, <4>1, <4>2
    <3> QED
      BY <2>1, <2>2, <3>1, <3>2 DEF PlacesRight
  <2>3. CASE dialect # "postgres"
    <3>1. L = P /\ \A i \in 1..L : text[i].kind = "?" /\ params[i] = text[i].for
      BY <2>3 DEF PlacesRight, L, P
    <3>2. \A j \in 1..V : t[j + L].kind = "?" /\ t[j + L].for = vals[j] /\ p[j + L] = vals[j]
      BY <1>3, <1>5, <1>6, <2>3, <3>1 DEF NextPlace, Positional, Place
    <3> QED
      <4>1. \A i \in 1..Len(t) : t[i].kind = "?" /\ p[i] = t[i].for
        <5>1. \A i \in 1..L : t[i].kind = "?" /\ p[i] = t[i].for
          BY <1>5, <1>6, <3>1
        <5> QED
          BY <2>1, <3>2, <5>1
      <4>2. Len(t) = Len(p)
        BY <1>3, <1>5, <1>6, <3>1
      <4> QED
        BY <2>3, <4>1, <4>2 DEF PlacesRight
  <2> QED
    BY <2>2, <2>3
<1>8. \A i \in 1..V : t[i + L] = NextPlace(dialect, P + i, vals[i])
  BY <1>3, <1>5
<1> QED
  BY <1>3, <1>4, <1>5, <1>6, <1>7, <1>8 DEF t, p, L, P, V

\* What is known of the loop and of a parameter that has the next name.
LEMMA NamedFacts ==
  ASSUME NamedInv(loop), NEW name \in Names
  PROVE  /\ loop.of \in {"named", "built"} /\ loop.dialect \in Dialects /\ loop.given \in Params
         /\ loop.read \in Seq(Names) /\ loop.text \in Seq(NamedPlaces) /\ loop.params \in Seq(Values)
         /\ loop.paramOrder \in Seq(Names) /\ loop.known \in SUBSET [name : Names, at : Nat]
         /\ Len(loop.read) \in Nat /\ Len(loop.text) \in Nat /\ Len(loop.params) \in Nat
         /\ Len(loop.paramOrder) \in Nat
         /\ Append(loop.read, name) \in Seq(Names) /\ Len(Append(loop.read, name)) = Len(loop.read) + 1
         /\ Append(loop.read, name)[Len(loop.read) + 1] = name
         /\ \A i \in 1..Len(loop.read) : Append(loop.read, name)[i] = loop.read[i]
         /\ name \in DOMAIN loop.given =>
              /\ loop.given[name].vals \in Seq(Values)
              /\ ~loop.given[name].many => /\ Len(loop.given[name].vals) = 1
                                           /\ loop.given[name].vals[1] \in Values
<1>1. /\ loop.of \in {"named", "built"} /\ loop.dialect \in Dialects /\ loop.given \in Params
      /\ loop.read \in Seq(Names) /\ loop.text \in Seq(NamedPlaces) /\ loop.params \in Seq(Values)
      /\ loop.paramOrder \in Seq(Names) /\ loop.known \in SUBSET [name : Names, at : Nat]
  BY DEF NamedInv, NamedLoops
<1>2. /\ Len(loop.read) \in Nat /\ Len(loop.text) \in Nat /\ Len(loop.params) \in Nat
      /\ Len(loop.paramOrder) \in Nat
  BY <1>1, LenProperties
<1>3. /\ Append(loop.read, name) \in Seq(Names) /\ Len(Append(loop.read, name)) = Len(loop.read) + 1
      /\ Append(loop.read, name)[Len(loop.read) + 1] = name
      /\ \A i \in 1..Len(loop.read) : Append(loop.read, name)[i] = loop.read[i]
  BY <1>1, <1>2
<1>4. ASSUME name \in DOMAIN loop.given
      PROVE  /\ loop.given[name].vals \in Seq(Values)
             /\ ~loop.given[name].many => /\ Len(loop.given[name].vals) = 1
                                          /\ loop.given[name].vals[1] \in Values
  <2>1. loop.given[name].vals \in Seq(Values) /\ (~loop.given[name].many => Len(loop.given[name].vals) = 1)
    BY <1>1, <1>4, BindingAssumption
  <2>2. ASSUME ~loop.given[name].many PROVE loop.given[name].vals[1] \in Values
    <3>1. 1 \in 1..Len(loop.given[name].vals)
      BY <2>1, <2>2
    <3> QED
      BY <2>1, <3>1, ElementOfSeq
  <2> QED
    BY <2>1, <2>2
<1> QED
  BY <1>1, <1>2, <1>3, <1>4

\* What the next name has to keep.
LEMMA NextNameInv ==
  ASSUME NamedInv(loop), loop.of = "named", NEW name \in Names, name \in DOMAIN loop.given,
         loop' \in NamedLoops, loop'.of = "named", loop'.dialect = loop.dialect, loop'.given = loop.given,
         loop'.read = Append(loop.read, name),
         PlacesRight(loop'.dialect, loop'.text, loop'.params),
         \A k \in loop'.known :
           \/ k \in loop.known
           \/ /\ k.name = name /\ k.at \in 1..Len(loop'.params)
              /\ loop'.params[k.at] = loop.given[name].vals[1],
         Len(loop.params) <= Len(loop'.params),
         \A i \in 1..Len(loop.params) : loop'.params[i] = loop.params[i],
         ~loop.given[name].many /\ OrderRight(loop) => OrderRight(loop')
  PROVE  NamedInv(loop') /\ loop'.of = "named"
<1> DEFINE read == Append(loop.read, name)
           params == loop'.params
<1>1. /\ Len(read) = Len(loop.read) + 1 /\ read[Len(loop.read) + 1] = name
      /\ \A i \in 1..Len(loop.read) : read[i] = loop.read[i]
      /\ Len(loop.read) \in Nat /\ Len(loop.params) \in Nat
  BY NamedFacts
<1> HIDE DEF read
<1>2. \A i \in 1..Len(read) : read[i] \in DOMAIN loop.given
  BY <1>1 DEF NamedInv
<1>3. \A k \in loop'.known : /\ k.at \in 1..Len(params) /\ k.name \in DOMAIN loop.given
                             /\ params[k.at] = loop.given[k.name].vals[1]
  <2>1. TAKE k \in loop'.known
  <2>2. CASE k \in loop.known
    <3>1. /\ k.at \in 1..Len(loop.params) /\ k.name \in DOMAIN loop.given
          /\ loop.params[k.at] = loop.given[k.name].vals[1]
      BY <2>2 DEF NamedInv
    <3>2. params \in Seq(Values)
      BY DEF NamedLoops
    <3>3. Len(params) \in Nat
      BY <3>2, LenProperties
    <3>4. k.at \in 1..Len(params)
      BY <1>1, <3>1, <3>3
    <3> QED
      BY <3>1, <3>4
  <2> QED
    BY <2>1, <2>2
<1>4. (\A i \in 1..Len(read) : ~loop.given[read[i]].many) => OrderRight(loop')
  <2>1. HAVE \A i \in 1..Len(read) : ~loop.given[read[i]].many
  <2>2. \A i \in 1..Len(loop.read) : i \in 1..Len(read) /\ read[i] = loop.read[i]
    BY <1>1
  <2>3. \A i \in 1..Len(loop.read) : ~loop.given[loop.read[i]].many
    BY <2>1, <2>2
  <2>4. Len(read) \in 1..Len(read) /\ read[Len(read)] = name
    BY <1>1
  <2> QED
    BY <2>1, <2>3, <2>4 DEF NamedInv
<1>5. loop'.read = read
  BY DEF read
<1> QED
  BY <1>2, <1>3, <1>4, <1>5 DEF NamedInv

\* An array puts its values and their placeholders at the end.
LEMMA ExpandsArrayInv ==
  ASSUME NamedInv(loop), loop.of = "named", NEW name \in Names, name \in DOMAIN loop.given,
         loop.given[name].many,
         loop' = [expandsArray(loop.given[name].vals) EXCEPT !.read = Append(loop.read, name)]
  PROVE  NamedInv(loop') /\ loop'.of = "named"
<1> DEFINE vals == loop.given[name].vals
           read == Append(loop.read, name)
           places == [i \in 1..Len(vals) |-> NextPlace(loop.dialect, Len(loop.params) + i, vals[i])]
           text == loop.text \o places
           params == loop.params \o vals
<1>1. loop' = [of |-> "named", dialect |-> loop.dialect, given |-> loop.given, read |-> read,
               text |-> text, params |-> params, paramOrder |-> loop.paramOrder, known |-> loop.known]
  BY DEF NamedInv, NamedLoops, expandsArray
<1>2. /\ loop.dialect \in Dialects /\ loop.given \in Params /\ loop.text \in Seq(NamedPlaces)
      /\ loop.params \in Seq(Values) /\ loop.paramOrder \in Seq(Names)
      /\ loop.known \in SUBSET [name : Names, at : Nat]
      /\ vals \in Seq(Values) /\ read \in Seq(Names) /\ Len(loop.params) \in Nat
  BY NamedFacts
<1>3. PlacesRight(loop.dialect, loop.text, loop.params)
  BY DEF NamedInv
<1> HIDE DEF vals, read
<1>4. /\ text \in Seq(NamedPlaces) /\ params \in Seq(Values)
      /\ PlacesRight(loop.dialect, text, params)
      /\ Len(params) = Len(loop.params) + Len(vals)
      /\ \A i \in 1..Len(loop.params) : params[i] = loop.params[i]
  <2>1. /\ DOMAIN places = 1..Len(vals) /\ places = [i \in DOMAIN places |-> places[i]]
        /\ \A i \in 1..Len(vals) : places[i] = NextPlace(loop.dialect, Len(loop.params) + i, vals[i])
    OBVIOUS
  <2> HIDE DEF places
  <2> QED
    BY ONLY <1>2, <1>3, <2>1, PlacesAppended
<1> HIDE DEF text, params
<1>5. Len(vals) \in Nat
  BY <1>2, LenProperties
<1>6. /\ loop' \in NamedLoops /\ loop'.of = "named" /\ loop'.dialect = loop.dialect /\ loop'.given = loop.given
      /\ loop'.read = read /\ loop'.text = text /\ loop'.params = params
      /\ loop'.paramOrder = loop.paramOrder /\ loop'.known = loop.known
  <2>1. /\ loop'.of = "named" /\ loop'.dialect = loop.dialect /\ loop'.given = loop.given
        /\ loop'.read = read /\ loop'.text = text /\ loop'.params = params
        /\ loop'.paramOrder = loop.paramOrder /\ loop'.known = loop.known
    BY ONLY <1>1
  <2>2. loop' \in NamedLoops
    BY ONLY <1>1, <1>2, <1>4 DEF NamedLoops
  <2> QED
    BY <2>1, <2>2
<1>7. Len(loop.params) <= Len(params)
  BY <1>2, <1>4, <1>5
<1> QED
  <2>1. \A i \in 1..Len(loop.params) : loop'.params[i] = loop.params[i]
    BY <1>4, <1>6
  <2>2. /\ loop'.read = Append(loop.read, name) /\ Len(loop.params) <= Len(loop'.params)
        /\ PlacesRight(loop'.dialect, loop'.text, loop'.params)
        /\ \A k \in loop'.known : k \in loop.known
    BY <1>4, <1>6, <1>7 DEF read
  <2> QED
    BY <1>6, <2>1, <2>2, NextNameInv

\* On PostgreSQL a name that comes again names the value it was given before.
LEMMA UsesAgainInv ==
  ASSUME NamedInv(loop), loop.of = "named", NEW name \in Names, name \in DOMAIN loop.given,
         ~loop.given[name].many, Positional(loop.dialect), NEW k \in loop.known, k.name = name,
         loop' = [usesAgain(k.at, loop.given[name].vals[1]) EXCEPT !.read = Append(loop.read, name)]
  PROVE  NamedInv(loop') /\ loop'.of = "named"
<1> DEFINE value == loop.given[name].vals[1]
           p == Place("$", k.at, value)
           text == Append(loop.text, p)
           read == Append(loop.read, name)
<1>1. loop' = [of |-> "named", dialect |-> loop.dialect, given |-> loop.given, read |-> read,
               text |-> text, params |-> loop.params, paramOrder |-> loop.paramOrder, known |-> loop.known]
  BY DEF NamedInv, NamedLoops, usesAgain
<1>2. loop.dialect = "postgres"
  BY DEF Positional
<1>3. k.at \in Nat /\ k.at \in 1..Len(loop.params) /\ loop.params[k.at] = value
  BY NamedFacts DEF NamedInv
<1>4. p \in NamedPlaces /\ p.kind = "$" /\ p.n = k.at /\ p.for = value
  BY <1>3, NamedFacts DEF Place, NamedPlaces
<1> HIDE DEF p, value
<1>5. /\ text \in Seq(NamedPlaces) /\ Len(text) = Len(loop.text) + 1 /\ text[Len(loop.text) + 1] = p
      /\ \A i \in 1..Len(loop.text) : text[i] = loop.text[i]
  BY <1>4, NamedFacts
<1>6. \A i \in 1..Len(text) : i \in 1..Len(loop.text) \/ i = Len(loop.text) + 1
  BY <1>5, NamedFacts
<1> HIDE DEF text, read
<1>7. PlacesRight(loop.dialect, text, loop.params)
  <2>1. \A i \in 1..Len(loop.text) : /\ loop.text[i].kind = "$" /\ loop.text[i].n \in 1..Len(loop.params)
                                     /\ loop.params[loop.text[i].n] = loop.text[i].for
    BY <1>2 DEF NamedInv, PlacesRight
  <2> QED
    BY <1>2, <1>3, <1>4, <1>5, <1>6, <2>1 DEF PlacesRight
<1>8. /\ loop' \in NamedLoops /\ loop'.of = "named" /\ loop'.dialect = loop.dialect /\ loop'.given = loop.given
      /\ loop'.read = read /\ loop'.text = text /\ loop'.params = loop.params
      /\ loop'.paramOrder = loop.paramOrder /\ loop'.known = loop.known
  <2>1. /\ loop.dialect \in Dialects /\ loop.given \in Params /\ loop.params \in Seq(Values)
        /\ loop.paramOrder \in Seq(Names) /\ loop.known \in SUBSET [name : Names, at : Nat]
        /\ read \in Seq(Names)
    BY NamedFacts DEF read
  <2>2. /\ loop'.of = "named" /\ loop'.dialect = loop.dialect /\ loop'.given = loop.given
        /\ loop'.read = read /\ loop'.text = text /\ loop'.params = loop.params
        /\ loop'.paramOrder = loop.paramOrder /\ loop'.known = loop.known
    BY ONLY <1>1
  <2>3. loop' \in NamedLoops
    BY ONLY <1>1, <1>5, <2>1 DEF NamedLoops
  <2> QED
    BY <2>2, <2>3
<1>9. OrderRight(loop) => OrderRight(loop')
  <2>1. HAVE OrderRight(loop)
  <2>2. \A i \in 1..Len(loop.text) : loop.read[i] = loop.paramOrder[loop.text[i].n]
    BY <1>2, <2>1 DEF OrderRight
  <2>3. Len(loop.text) = Len(loop.read) /\ loop.paramOrder[k.at] = name
    BY <2>1 DEF OrderRight
  <2>4. /\ Len(read) = Len(loop.read) + 1 /\ read[Len(loop.read) + 1] = name
        /\ \A i \in 1..Len(loop.read) : read[i] = loop.read[i]
    BY NamedFacts DEF read
  <2>5. \A i \in 1..Len(text) : read[i] = loop.paramOrder[text[i].n]
    <3>1. TAKE i \in 1..Len(text)
    <3>2. CASE i \in 1..Len(loop.text)
      BY <1>5, <2>2, <2>3, <2>4, <3>2
    <3>3. CASE i = Len(loop.text) + 1
      BY <1>4, <1>5, <2>3, <2>4, <3>3
    <3> QED
      BY <1>6, <3>2, <3>3
  <2>6. Len(text) = Len(read)
    BY <1>5, <2>3, <2>4
  <2> QED
    <3>1. /\ Len(loop'.text) = Len(loop'.read) /\ Len(loop'.paramOrder) = Len(loop'.params)
          /\ \A j \in loop'.known : loop'.paramOrder[j.at] = j.name
      BY <1>8, <2>1, <2>6 DEF OrderRight
    <3>2. \A i \in 1..Len(loop'.text) :
            loop'.read[i] = loop'.paramOrder[IF loop'.dialect = "postgres" THEN loop'.text[i].n ELSE i]
      <4>1. /\ loop'.text = text /\ loop'.read = read /\ loop'.paramOrder = loop.paramOrder
            /\ loop'.dialect = "postgres"
        BY <1>2, <1>8
      <4> QED
        BY ONLY <2>5, <4>1
    <3> QED
      BY <3>1, <3>2 DEF OrderRight
<1>10. Len(loop.params) <= Len(loop.params)
  BY NamedFacts
<1> QED
  <2>1. \A i \in 1..Len(loop.params) : loop'.params[i] = loop.params[i]
    BY <1>8
  <2>2. /\ loop'.read = Append(loop.read, name) /\ Len(loop.params) <= Len(loop'.params)
        /\ PlacesRight(loop'.dialect, loop'.text, loop'.params)
        /\ \A j \in loop'.known : j \in loop.known
    BY <1>7, <1>8, <1>10 DEF read
  <2> QED
    BY <1>8, <1>9, <2>1, <2>2, NextNameInv

\* Any other name adds its value.
LEMMA AppendsValueInv ==
  ASSUME NamedInv(loop), loop.of = "named", NEW name \in Names, name \in DOMAIN loop.given,
         ~loop.given[name].many,
         loop' = [appendsValue(name, loop.given[name].vals[1]) EXCEPT !.read = Append(loop.read, name)]
  PROVE  NamedInv(loop') /\ loop'.of = "named"
<1> DEFINE value == loop.given[name].vals[1]
           P == Len(loop.params)
           L == Len(loop.text)
           p == NextPlace(loop.dialect, P + 1, value)
           text == Append(loop.text, p)
           read == Append(loop.read, name)
           params == Append(loop.params, value)
           order == Append(loop.paramOrder, name)
           known == IF Positional(loop.dialect) THEN loop.known \union {[name |-> name, at |-> P + 1]}
                    ELSE loop.known
<1>1. loop' = [of |-> "named", dialect |-> loop.dialect, given |-> loop.given, read |-> read,
               text |-> text, params |-> params, paramOrder |-> order, known |-> known]
  BY DEF NamedInv, NamedLoops, appendsValue
<1>2. P \in Nat /\ L \in Nat /\ value \in Values
  BY NamedFacts
<1>3. /\ p \in NamedPlaces /\ p.for = value
      /\ loop.dialect = "postgres" => p.kind = "$" /\ p.n = P + 1
      /\ loop.dialect # "postgres" => p.kind = "?"
  BY <1>2 DEF NextPlace, Positional, Place, NamedPlaces
<1> HIDE DEF p, value
<1>4. /\ text \in Seq(NamedPlaces) /\ Len(text) = L + 1 /\ text[L + 1] = p
      /\ \A i \in 1..L : text[i] = loop.text[i]
  BY <1>3, NamedFacts
<1>5. /\ params \in Seq(Values) /\ Len(params) = P + 1 /\ params[P + 1] = value
      /\ \A i \in 1..P : params[i] = loop.params[i]
  BY <1>2, NamedFacts
<1>6. /\ order \in Seq(Names) /\ Len(order) = Len(loop.paramOrder) + 1
      /\ order[Len(loop.paramOrder) + 1] = name
      /\ \A i \in 1..Len(loop.paramOrder) : order[i] = loop.paramOrder[i]
  BY NamedFacts
<1>7. known \in SUBSET [name : Names, at : Nat]
  BY <1>2, NamedFacts
<1>8. /\ Len(read) = Len(loop.read) + 1 /\ read[Len(loop.read) + 1] = name
      /\ \A i \in 1..Len(loop.read) : read[i] = loop.read[i]
  BY NamedFacts
<1>9. \A k \in known : k \in loop.known \/ (k.name = name /\ k.at = P + 1)
  OBVIOUS
<1> HIDE DEF text, read, params, order, known
<1>10. PlacesRight(loop.dialect, loop.text, loop.params)
  BY DEF NamedInv
<1> HIDE DEF P, L
<1>11. \A i \in 1..Len(text) : i \in 1..L \/ i = L + 1
  BY <1>2, <1>4
<1>12. PlacesRight(loop.dialect, text, params)
  <2>1. CASE loop.dialect = "postgres"
    <3>1. \A i \in 1..L : /\ loop.text[i].kind = "$" /\ loop.text[i].n \in 1..P
                          /\ loop.params[loop.text[i].n] = loop.text[i].for
      BY <1>10, <2>1 DEF PlacesRight, L, P
    <3>2. \A i \in 1..L : text[i].kind = "$" /\ text[i].n \in 1..Len(params) /\ params[text[i].n] = text[i].for
      BY <1>2, <1>4, <1>5, <3>1
    <3>3. p.n \in 1..Len(params) /\ params[p.n] = p.for /\ p.kind = "$"
      BY <1>2, <1>3, <1>5, <2>1
    <3> QED
      BY <1>4, <1>11, <2>1, <3>2, <3>3 DEF PlacesRight
  <2>2. CASE loop.dialect # "postgres"
    <3>1. L = P /\ \A i \in 1..L : loop.text[i].kind = "?" /\ loop.params[i] = loop.text[i].for
      BY <1>10, <2>2 DEF PlacesRight, L, P
    <3> QED
      BY <1>3, <1>4, <1>5, <1>11, <2>2, <3>1 DEF PlacesRight
  <2> QED
    BY <2>1, <2>2
<1>13. /\ loop' \in NamedLoops /\ loop'.of = "named" /\ loop'.dialect = loop.dialect /\ loop'.given = loop.given
       /\ loop'.read = read /\ loop'.text = text /\ loop'.params = params
       /\ loop'.paramOrder = order /\ loop'.known = known
  <2>1. loop.dialect \in Dialects /\ loop.given \in Params /\ read \in Seq(Names)
    BY NamedFacts DEF read
  <2>2. /\ loop'.of = "named" /\ loop'.dialect = loop.dialect /\ loop'.given = loop.given
        /\ loop'.read = read /\ loop'.text = text /\ loop'.params = params
        /\ loop'.paramOrder = order /\ loop'.known = known
    BY ONLY <1>1
  <2>3. loop' \in NamedLoops
    BY ONLY <1>1, <1>4, <1>5, <1>6, <1>7, <2>1 DEF NamedLoops
  <2> QED
    BY <2>2, <2>3
<1>14. OrderRight(loop) => OrderRight(loop')
  <2>1. HAVE OrderRight(loop)
  <2>2. L = Len(loop.read) /\ Len(loop.paramOrder) = P /\ \A k \in loop.known : loop.paramOrder[k.at] = k.name
    BY <2>1 DEF OrderRight, L, P
  <2>3. Len(text) = Len(read) /\ Len(order) = Len(params)
    BY <1>4, <1>5, <1>6, <1>8, <2>2
  <2>4. \A k \in known : order[k.at] = k.name
    <3>1. TAKE k \in known
    <3>2. CASE k \in loop.known
      <4>1. k.at \in 1..P
        BY <3>2 DEF NamedInv, P
      <4> QED
        BY <1>6, <2>2, <3>2, <4>1
    <3>3. CASE k.name = name /\ k.at = P + 1
      BY <1>6, <2>2, <3>3
    <3> QED
      BY <1>9, <3>2, <3>3
  <2>5. \A i \in 1..Len(text) : read[i] = order[IF loop.dialect = "postgres" THEN text[i].n ELSE i]
    <3>1. TAKE i \in 1..Len(text)
    <3>2. CASE i = L + 1
      <4>1. read[i] = name /\ order[P + 1] = name /\ text[i] = p
        BY <1>4, <1>6, <1>8, <2>2, <3>2
      <4>2. CASE loop.dialect = "postgres"
        BY <1>3, <4>1, <4>2
      <4>3. CASE loop.dialect # "postgres"
        <5>1. L = P
          BY <1>10, <4>3 DEF PlacesRight, L, P
        <5> QED
          BY <3>2, <4>1, <4>3, <5>1
      <4> QED
        BY <4>2, <4>3
    <3>3. CASE i \in 1..L
      <4> DEFINE at == IF loop.dialect = "postgres" THEN loop.text[i].n ELSE i
      <4>1. loop.read[i] = loop.paramOrder[at]
        BY <2>1, <3>3 DEF OrderRight, L
      <4>2. at \in 1..P
        BY <1>10, <3>3 DEF PlacesRight, L, P
      <4> QED
        BY <1>4, <1>6, <1>8, <2>2, <3>3, <4>1, <4>2
    <3> QED
      BY <1>11, <3>2, <3>3
  <2> QED
    <3>1. /\ Len(loop'.text) = Len(loop'.read) /\ Len(loop'.paramOrder) = Len(loop'.params)
          /\ \A j \in loop'.known : loop'.paramOrder[j.at] = j.name
      BY <1>13, <2>3, <2>4
    <3>2. \A i \in 1..Len(loop'.text) :
            loop'.read[i] = loop'.paramOrder[IF loop'.dialect = "postgres" THEN loop'.text[i].n ELSE i]
      <4>1. /\ loop'.text = text /\ loop'.read = read /\ loop'.paramOrder = order
            /\ loop'.dialect = loop.dialect
        BY <1>13
      <4> QED
        BY ONLY <2>5, <4>1
    <3> QED
      BY <3>1, <3>2 DEF OrderRight
<1>15. \A k \in known : k \in loop.known
                        \/ (k.name = name /\ k.at \in 1..Len(params) /\ params[k.at] = value)
  BY <1>2, <1>5, <1>9
<1>16. Len(loop.params) <= Len(params) /\ \A i \in 1..Len(loop.params) : params[i] = loop.params[i]
  BY <1>2, <1>5 DEF P
<1> QED
  <2>1. \A i \in 1..Len(loop.params) : loop'.params[i] = loop.params[i]
    BY <1>13, <1>16
  <2>2. /\ loop'.read = Append(loop.read, name) /\ Len(loop.params) <= Len(loop'.params)
        /\ PlacesRight(loop'.dialect, loop'.text, loop'.params)
    BY <1>12, <1>13, <1>16 DEF read
  <2>3. \A k \in loop'.known :
           \/ k \in loop.known
           \/ /\ k.name = name /\ k.at \in 1..Len(loop'.params)
              /\ loop'.params[k.at] = loop.given[name].vals[1]
    BY <1>13, <1>15 DEF value
  <2> QED
    BY <1>13, <1>14, <2>1, <2>2, <2>3, NextNameInv

\* The next row of a batch is read in the order of paramOrder, so every
\* placeholder receives the value of its name.
LEMMA BatchBound ==
  ASSUME NamedInv(loop), loop.of = "built", NEW row \in [DOMAIN loop.given -> Values], executeBatch(row)
  PROVE  loop'.of = "sent" /\ loop'.dialect \in Dialects /\ Bound(loop'.dialect, loop')
<1> DEFINE text == [i \in 1..Len(loop.text) |-> [loop.text[i] EXCEPT !.for = row[loop.read[i]]]]
           params == [i \in 1..Len(loop.paramOrder) |-> row[loop.paramOrder[i]]]
<1>1. /\ loop'.of = "sent" /\ loop'.dialect = loop.dialect /\ loop'.text = text /\ loop'.params = params
  BY DEF executeBatch, Sends, Statement
<1>2. /\ loop.dialect \in Dialects /\ loop.text \in Seq(NamedPlaces) /\ loop.read \in Seq(Names)
      /\ loop.params \in Seq(Values) /\ loop.paramOrder \in Seq(Names)
      /\ \A i \in 1..Len(loop.read) : loop.read[i] \in DOMAIN loop.given
      /\ PlacesRight(loop.dialect, loop.text, loop.params)
  BY DEF NamedInv, NamedLoops
<1>3. /\ Len(loop.text) \in Nat /\ Len(loop.params) \in Nat /\ Len(loop.paramOrder) \in Nat
      /\ \A i \in 1..Len(loop.text) : loop.text[i] \in NamedPlaces
  BY <1>2, LenProperties, ElementOfSeq
<1>4. OrderRight(loop)
  BY <1>2 DEF NamedInv, executeBatch
<1>5. /\ Len(loop.text) = Len(loop.read) /\ Len(loop.paramOrder) = Len(loop.params)
      /\ \A i \in 1..Len(loop.text) :
           loop.read[i] = loop.paramOrder[IF loop.dialect = "postgres" THEN loop.text[i].n ELSE i]
  BY <1>4 DEF OrderRight
<1>6. Len(text) = Len(loop.text) /\ Len(params) = Len(loop.params)
  BY <1>3, <1>5
<1>7. \A i \in 1..Len(loop.text) : text[i] \in NamedPlaces /\ text[i].kind = loop.text[i].kind
                                   /\ text[i].n = loop.text[i].n /\ text[i].for = row[loop.read[i]]
  <2>1. TAKE i \in 1..Len(loop.text)
  <2>2. row[loop.read[i]] \in Values
    BY <1>2, <1>5
  <2>3. text[i] = [loop.text[i] EXCEPT !.for = row[loop.read[i]]] /\ loop.text[i] \in NamedPlaces
    BY <1>3
  <2> QED
    BY ONLY <2>2, <2>3 DEF NamedPlaces
<1>8. \A i \in 1..Len(loop.params) : params[i] = row[loop.paramOrder[i]]
  BY <1>5
<1>9. text \in Seq(NamedPlaces)
  <2>1. text \in [1..Len(loop.text) -> NamedPlaces]
    BY <1>7
  <2> HIDE DEF text
  <2> QED
    BY <1>3, <2>1
<1> HIDE DEF text, params
<1>10. PlacesRight(loop.dialect, text, params)
  <2>1. CASE loop.dialect = "postgres"
    <3>1. \A i \in 1..Len(loop.text) : loop.text[i].kind = "$" /\ loop.text[i].n \in 1..Len(loop.params)
      BY <1>2, <2>1 DEF PlacesRight
    <3>2. \A i \in 1..Len(text) : /\ text[i].kind = "$" /\ text[i].n \in 1..Len(params)
                                  /\ params[text[i].n] = text[i].for
      BY <1>5, <1>6, <1>7, <1>8, <2>1, <3>1
    <3> QED
      BY <2>1, <3>2 DEF PlacesRight
  <2>2. CASE loop.dialect # "postgres"
    <3>1. Len(loop.text) = Len(loop.params) /\ \A i \in 1..Len(loop.text) : loop.text[i].kind = "?"
      BY <1>2, <2>2 DEF PlacesRight
    <3> QED
      BY <1>5, <1>6, <1>7, <1>8, <2>2, <3>1 DEF PlacesRight
  <2> QED
    BY <2>1, <2>2
<1>11. loop'.text \in Seq(NamedPlaces) /\ PlacesRight(loop'.dialect, loop'.text, loop'.params)
       /\ loop'.dialect \in Dialects
  BY <1>1, <1>2, <1>9, <1>10
<1> QED
  BY <1>1, <1>11, PlacesBound

\* A text is refused for a name that is missing or one too many.
RejectedRight(l) ==
  l.of = "rejected" /\ {l.read[i] : i \in 1..Len(l.read)} # DOMAIN l.given

\* buildParams() begins with nothing.
LEMMA BuildsInv ==
  ASSUME NEW given \in Params, NEW dialect \in Dialects, buildParams(given, dialect)
  PROVE  NamedInv(loop')
<1>1. loop' = [of |-> "named", dialect |-> dialect, given |-> given, read |-> <<>>,
               text |-> <<>>, params |-> <<>>, paramOrder |-> <<>>, known |-> {}]
  BY DEF buildParams
<1>2. /\ loop'.of = "named" /\ loop'.dialect = dialect /\ loop'.given = given /\ loop'.read = <<>>
      /\ loop'.text = <<>> /\ loop'.params = <<>> /\ loop'.paramOrder = <<>> /\ loop'.known = {}
  BY ONLY <1>1
<1>3. loop' \in NamedLoops
  BY <1>1 DEF NamedLoops
<1>4. PlacesRight(loop'.dialect, loop'.text, loop'.params) /\ OrderRight(loop')
  BY <1>2 DEF PlacesRight, OrderRight
<1> QED
  BY <1>2, <1>3, <1>4 DEF NamedInv

\* Every branch of the callback of replace().
LEMMA ReadsNameInv ==
  ASSUME NamedInv(loop), NEW name \in Names, ReadsName(name)
  PROVE  NamedInv(loop') \/ RejectedRight(loop')
<1> DEFINE read == Append(loop.read, name)
<1>1. loop.of = "named"
  BY DEF ReadsName
<1>2. CASE name \notin DOMAIN loop.given /\ Rejects(read)
  <2>1. loop'.of = "rejected" /\ loop'.given = loop.given /\ loop'.read = read
    BY <1>2 DEF Rejects
  <2>2. Len(read) \in 1..Len(read) /\ read[Len(read)] = name
    BY NamedFacts
  <2>3. name \in {read[i] : i \in 1..Len(read)}
    BY <2>2
  <2> QED
    BY <1>2, <2>1, <2>3 DEF RejectedRight
<1>3. CASE /\ name \in DOMAIN loop.given /\ loop.given[name].many
           /\ loop' = [expandsArray(loop.given[name].vals) EXCEPT !.read = read]
  BY <1>1, <1>3, ExpandsArrayInv
<1>4. ASSUME name \in DOMAIN loop.given, ~loop.given[name].many, Positional(loop.dialect),
             NEW k \in loop.known, k.name = name,
             loop' = [usesAgain(k.at, loop.given[name].vals[1]) EXCEPT !.read = read]
      PROVE  NamedInv(loop')
  BY <1>1, <1>4, UsesAgainInv
<1>5. CASE /\ name \in DOMAIN loop.given /\ ~loop.given[name].many
           /\ loop' = [appendsValue(name, loop.given[name].vals[1]) EXCEPT !.read = read]
  BY <1>1, <1>5, AppendsValueInv
<1> HIDE DEF read
<1> QED
  BY <1>2, <1>3, <1>4, <1>5 DEF ReadsName, read

\* The check for names that the text does not have.
LEMMA EndsNamesInv ==
  ASSUME NamedInv(loop), EndsNames
  PROVE  NamedInv(loop') \/ RejectedRight(loop')
<1> DEFINE names == {loop.read[i] : i \in 1..Len(loop.read)}
<1>1. loop.of = "named" /\ names \subseteq DOMAIN loop.given
  BY DEF EndsNames, NamedInv
<1>2. CASE \A name \in DOMAIN loop.given : \E i \in 1..Len(loop.read) : loop.read[i] = name
  <2>1. loop' = [loop EXCEPT !.of = "built"] /\ loop \in NamedLoops
    BY <1>2 DEF EndsNames, NamedInv
  <2>2. /\ loop' \in NamedLoops /\ loop'.dialect = loop.dialect /\ loop'.given = loop.given
        /\ loop'.read = loop.read /\ loop'.text = loop.text /\ loop'.params = loop.params
        /\ loop'.paramOrder = loop.paramOrder /\ loop'.known = loop.known
    BY ONLY <2>1 DEF NamedLoops
  <2>3. names = DOMAIN loop.given
    BY <1>1, <1>2
  <2>4. OrderRight(loop) => OrderRight(loop')
    <3>1. HAVE OrderRight(loop)
    <3> QED
      BY <2>2, <3>1 DEF OrderRight
  <2>5. (\A i \in 1..Len(loop'.read) : ~loop'.given[loop'.read[i]].many) => OrderRight(loop')
    BY <2>2, <2>4 DEF NamedInv
  <2>6. PlacesRight(loop'.dialect, loop'.text, loop'.params)
    BY <2>2 DEF NamedInv
  <2>7. /\ \A i \in 1..Len(loop'.read) : loop'.read[i] \in DOMAIN loop'.given
        /\ \A k \in loop'.known : /\ k.at \in 1..Len(loop'.params) /\ k.name \in DOMAIN loop'.given
                                  /\ loop'.params[k.at] = loop'.given[k.name].vals[1]
    BY <2>2 DEF NamedInv
  <2>8. {loop'.read[i] : i \in 1..Len(loop'.read)} = DOMAIN loop'.given
    BY <2>2, <2>3
  <2> QED
    BY <2>2, <2>5, <2>6, <2>7, <2>8 DEF NamedInv
<1>3. CASE ~\A name \in DOMAIN loop.given : \E i \in 1..Len(loop.read) : loop.read[i] = name
  <2>1. loop'.of = "rejected" /\ loop'.given = loop.given /\ loop'.read = loop.read
    BY <1>3 DEF EndsNames, Rejects
  <2>2. names # DOMAIN loop.given
    BY <1>3
  <2> QED
    BY <2>1, <2>2 DEF RejectedRight
<1> QED
  BY <1>2, <1>3

-----------------------------------------------------------------------------
(* Binding: the ParamBuffer                                                *)

BufferTyped(b) ==
  /\ b \in [slots : Seq(Values \union {Missing}), len : Nat]
  /\ 1 <= Len(b.slots) /\ b.len <= Len(b.slots)

\* The first values of the buffer are those of the call.
Holds(b, given) == b.len = Len(given) /\ \A i \in 1..Len(given) : b.slots[i] = given[i]

\* A new buffer has a slot at least.
LEMMA NewBufferTyped == BufferTyped(NewBuffer(Capacity))
<1>1. Capacity \in Nat \ {0}
  BY BindingAssumption
<1> QED
  BY <1>1 DEF NewBuffer, BufferTyped

\* reset() forgets what the last call bound.
LEMMA ResetTyped ==
  ASSUME NEW b, BufferTyped(b)
  PROVE  BufferTyped(reset(b)) /\ Holds(reset(b), <<>>)
<1> DEFINE slots == [i \in 1..Len(b.slots) |-> IF i <= b.len THEN Missing ELSE b.slots[i]]
<1>1. b.slots \in Seq(Values \union {Missing}) /\ b.len \in Nat /\ 1 <= Len(b.slots)
  BY DEF BufferTyped
<1>2. Len(b.slots) \in Nat /\ \A i \in 1..Len(b.slots) : b.slots[i] \in Values \union {Missing}
  BY <1>1, LenProperties, ElementOfSeq
<1>3. slots \in Seq(Values \union {Missing}) /\ Len(slots) = Len(b.slots)
  BY <1>2
<1> HIDE DEF slots
<1>4. reset(b) = [slots |-> slots, len |-> 0]
  BY DEF reset, slots
<1> QED
  BY <1>1, <1>3, <1>4 DEF BufferTyped, Holds

\* push() adds a value, in a larger buffer when there is no room.
LEMMA PushHolds ==
  ASSUME NEW b, BufferTyped(b), NEW given \in Seq(Values), Holds(b, given), NEW value \in Values
  PROVE  BufferTyped(push(b, value)) /\ Holds(push(b, value), Append(given, value))
<1> DEFINE V == Values \union {Missing}
           grown == [i \in 1..(2 * Len(b.slots)) |-> IF i <= b.len THEN b.slots[i] ELSE Missing]
           room == IF b.len >= Len(b.slots) THEN grown ELSE b.slots
           slots == [room EXCEPT ![b.len + 1] = value]
<1>1. b.slots \in Seq(V) /\ b.len \in Nat /\ 1 <= Len(b.slots) /\ b.len <= Len(b.slots)
      /\ b = [slots |-> b.slots, len |-> b.len]
  BY DEF BufferTyped
<1>2. Len(b.slots) \in Nat /\ \A i \in 1..Len(b.slots) : b.slots[i] \in V
  BY <1>1, LenProperties, ElementOfSeq
<1>3. push(b, value) = [slots |-> slots, len |-> b.len + 1]
  BY ONLY <1>1 DEF push, grow
<1>4. value \in V /\ Missing \in V
  OBVIOUS
<1> HIDE DEF V
<1>5. grown \in Seq(V) /\ Len(grown) = 2 * Len(b.slots) /\ \A i \in 1..b.len : grown[i] = b.slots[i]
  BY <1>1, <1>2, <1>4
<1> HIDE DEF grown
<1>6. room \in Seq(V) /\ Len(room) \in Nat /\ b.len + 1 \in 1..Len(room)
      /\ \A i \in 1..b.len : room[i] = b.slots[i]
  <2>1. CASE b.len >= Len(b.slots)
    <3>1. room = grown /\ b.len = Len(b.slots)
      BY <1>1, <1>2, <2>1
    <3> QED
      BY <1>1, <1>2, <1>5, <3>1
  <2>2. CASE ~(b.len >= Len(b.slots))
    BY <1>1, <1>2, <2>2
  <2> QED
    BY <2>1, <2>2
<1> HIDE DEF room
<1>7. slots \in Seq(V) /\ Len(slots) = Len(room) /\ slots[b.len + 1] = value
      /\ \A i \in 1..b.len : slots[i] = b.slots[i]
  BY <1>1, <1>4, <1>6
<1> HIDE DEF slots
<1>8. BufferTyped(push(b, value))
  BY <1>1, <1>3, <1>6, <1>7 DEF BufferTyped, V
<1>9. /\ Len(given) \in Nat /\ Len(Append(given, value)) = Len(given) + 1
      /\ Append(given, value)[Len(given) + 1] = value
      /\ \A i \in 1..Len(given) : Append(given, value)[i] = given[i]
  OBVIOUS
<1>10. Holds(push(b, value), Append(given, value))
  <2>1. b.len = Len(given) /\ \A i \in 1..Len(given) : b.slots[i] = given[i]
    BY DEF Holds
  <2>2. \A i \in 1..(Len(given) + 1) : i \in 1..Len(given) \/ i = Len(given) + 1
    BY <1>9
  <2> QED
    BY <1>3, <1>7, <1>9, <2>1, <2>2 DEF Holds
<1> QED
  BY <1>8, <1>10

\* toArray() returns what the call was given.
LEMMA ArrayOfHeld ==
  ASSUME NEW b, BufferTyped(b), NEW given \in Seq(Values), Holds(b, given)
  PROVE  toArray(b) = given
<1>1. b.slots \in Seq(Values \union {Missing}) /\ b.len \in Nat /\ b.len <= Len(b.slots)
  BY DEF BufferTyped
<1>2. b.len = Len(given) /\ \A i \in 1..Len(given) : b.slots[i] = given[i]
  BY DEF Holds
<1> DEFINE array == SubSeq(b.slots, 1, b.len)
<1>3. Len(b.slots) \in Nat
  BY <1>1, LenProperties
<1>4. /\ array \in Seq(Values \union {Missing}) /\ Len(array) = b.len
      /\ \A i \in 1..b.len : array[i] = b.slots[i]
  <2>1. \A i \in 1..b.len : b.slots[i] \in Values \union {Missing}
    BY <1>1, <1>3, ElementOfSeq
  <2> QED
    BY <1>1, <1>3, <2>1
<1> HIDE DEF array
<1>5. array = given
  BY <1>2, <1>4, SeqEqual
<1> QED
  BY <1>5 DEF toArray, array

-----------------------------------------------------------------------------
(* Binding: the invariant                                                  *)

\* What runs has only values that stand where they belong.
LoopRight(l, b) ==
  \/ l = Rest
  \/ /\ l \in [of : Composing, f : Fragments] /\ FragmentInv(l.f)
     /\ l.of # "sql" => l.f.tvpValues = <<>>
  \/ NamedInv(l)
  \/ RejectedRight(l)
  \/ l.of = "sent" /\ l.dialect \in Dialects /\ Bound(l.dialect, l)
  \/ l \in [of : {"bind"}, given : Seq(Values)] /\ Holds(b, l.given)
  \/ l.of = "bound" /\ l.array = l.given

BindingIInv ==
  /\ \A f \in made : FragmentInv(f)
  /\ LoopRight(loop, buffer)
  /\ BufferTyped(buffer)

\* The invariant says what the property does.
LEMMA BindingIInvExact ==
  ASSUME BindingIInv
  PROVE  BindingExact
<1> DEFINE names == {loop.read[i] : i \in 1..Len(loop.read)}
           Exact == /\ loop.of \in Composing => FragmentRight(loop.f)
                    /\ loop.of \in {"named", "built", "sent"} => Bound(loop.dialect, loop)
                    /\ loop.of = "built" => names = DOMAIN loop.given
                    /\ loop.of = "rejected" => names # DOMAIN loop.given
                    /\ loop.of = "bound" => loop.array = loop.given
<1>1. \A f \in made : FragmentRight(f)
  BY FragmentIsRight DEF BindingIInv
<1>2. ASSUME loop = Rest PROVE Exact
  BY <1>2 DEF Rest, Composing
<1>3. ASSUME loop \in [of : Composing, f : Fragments] /\ FragmentInv(loop.f) PROVE Exact
  <2>1. loop.of \in Composing /\ FragmentRight(loop.f)
    BY <1>3, FragmentIsRight
  <2> QED
    BY <2>1 DEF Composing
<1>4. ASSUME NamedInv(loop) PROVE Exact
  <2>1. loop.of \in {"named", "built"} /\ (loop.of = "built" => names = DOMAIN loop.given)
        /\ loop.dialect \in Dialects /\ loop.text \in Seq(NamedPlaces)
        /\ PlacesRight(loop.dialect, loop.text, loop.params)
    BY <1>4 DEF NamedInv, NamedLoops
  <2>2. Bound(loop.dialect, loop)
    BY <2>1, PlacesBound
  <2> HIDE DEF names
  <2> QED
    BY <2>1, <2>2 DEF Composing
<1>5. ASSUME RejectedRight(loop) PROVE Exact
  BY <1>5 DEF RejectedRight, Composing
<1>6. ASSUME loop.of = "sent" /\ loop.dialect \in Dialects /\ Bound(loop.dialect, loop) PROVE Exact
  BY <1>6 DEF Composing
<1>7. ASSUME loop \in [of : {"bind"}, given : Seq(Values)] PROVE Exact
  <2>1. loop.of = "bind"
    BY <1>7
  <2> QED
    BY <2>1 DEF Composing
<1>8. ASSUME loop.of = "bound" /\ loop.array = loop.given PROVE Exact
  BY <1>8 DEF Composing
<1>9. Exact
  BY <1>2, <1>3, <1>4, <1>5, <1>6, <1>7, <1>8 DEF BindingIInv, LoopRight
<1> QED
  BY <1>1, <1>9 DEF BindingExact

\* It holds when nothing was built.
LEMMA BindingIInvInit == BindingInit => BindingIInv
  BY NewBufferTyped DEF BindingInit, BindingIInv, LoopRight

\* An iteration of the tag, of sqlJoin() or of build() that goes on with a right
\* fragment.
LEMMA GoesRight ==
  ASSUME BindingIInv, NEW how \in Composing, NEW f, Goes(how, f), FragmentInv(f),
         how # "sql" => f.tvpValues = <<>>
  PROVE  BindingIInv'
<1>1. loop.of = how /\ loop' = [loop EXCEPT !.f = f] /\ made' = made /\ buffer' = buffer
  BY DEF Goes
<1>2. loop \in [of : Composing, f : Fragments]
  BY <1>1 DEF BindingIInv, LoopRight, Composing, Rest, NamedInv, NamedLoops, RejectedRight
<1>3. f \in Fragments
  BY DEF FragmentInv
<1>4. loop' \in [of : Composing, f : Fragments] /\ loop'.f = f /\ loop'.of = how
  BY ONLY <1>1, <1>2, <1>3
<1> QED
  BY <1>1, <1>4 DEF BindingIInv, LoopRight

\* While a fragment is composed, what it has so far is right.
LEMMA ComposingRight ==
  ASSUME BindingIInv, loop.of \in Composing
  PROVE  FragmentInv(loop.f) /\ (loop.of # "sql" => loop.f.tvpValues = <<>>)
BY DEF BindingIInv, LoopRight, Composing, Rest, NamedInv, NamedLoops, RejectedRight

\* Composing fragments keeps it.
LEMMA FragmentStep ==
  ASSUME BindingIInv, FragmentNext
  PROVE  BindingIInv'
<1>1. ASSUME NEW how \in Composing, Composes(how) PROVE BindingIInv'
  <2>1. loop' = [of |-> how, f |-> Empty] /\ made' = made /\ buffer' = buffer
    BY <1>1 DEF Composes
  <2>2. Empty \in Fragments
    BY EmptyInv DEF FragmentInv
  <2>3. loop' \in [of : Composing, f : Fragments] /\ loop'.f = Empty
    BY <2>1, <2>2
  <2> QED
    BY <2>1, <2>3, EmptyInv DEF BindingIInv, LoopRight
<1>2. ASSUME NEW g \in made, NEW condition \in BOOLEAN, InterpolatesFragment(g, condition)
      PROVE  BindingIInv'
  <2>1. loop.of = "sql" /\ (g.tvpValues # <<>> => loop.f.tvpValues = <<>>)
        /\ Goes("sql", nests(loop.f, sqlIf(condition, g)))
    BY <1>2 DEF InterpolatesFragment
  <2>2. FragmentInv(loop.f) /\ FragmentInv(g)
    BY <2>1, ComposingRight DEF Composing, BindingIInv
  <2>3. FragmentInv(sqlIf(condition, g))
        /\ (loop.f.tvpValues = <<>> \/ sqlIf(condition, g).tvpValues = <<>>)
    BY <2>1, <2>2, EmptyInv DEF sqlIf
  <2>4. FragmentInv(nests(loop.f, sqlIf(condition, g)))
    BY <2>2, <2>3, NestsInv
  <2> QED
    BY <2>1, <2>4, GoesRight DEF Composing
<1>3. ASSUME NEW tvpValue \in Tables, InterpolatesTable(tvpValue) PROVE BindingIInv'
  <2>1. loop.of = "sql" /\ Goes("sql", takesTable(loop.f, tvpValue))
    BY <1>3 DEF InterpolatesTable
  <2>2. FragmentInv(takesTable(loop.f, tvpValue))
    BY <2>1, ComposingRight, TakesTableInv DEF Composing
  <2> QED
    BY <2>1, <2>2, GoesRight DEF Composing
<1>4. ASSUME NEW value \in Values, InterpolatesScalar(value) PROVE BindingIInv'
  <2>1. loop.of = "sql" /\ Goes("sql", takesScalar(loop.f, value))
    BY <1>4 DEF InterpolatesScalar
  <2>2. FragmentInv(takesScalar(loop.f, value))
    BY <2>1, ComposingRight, TakesScalarInv DEF Composing
  <2> QED
    BY <2>1, <2>2, GoesRight DEF Composing
<1>5. ASSUME NEW g \in made, Joins(g) PROVE BindingIInv'
  <2>1. loop.of = "join" /\ g.tvpValues = <<>> /\ Goes("join", joins(loop.f, g))
    BY <1>5 DEF Joins
  <2>2. FragmentInv(joins(loop.f, g)) /\ joins(loop.f, g).tvpValues = <<>>
    BY <2>1, ComposingRight, JoinsInv DEF Composing, BindingIInv
  <2> QED
    BY <2>1, <2>2, GoesRight DEF Composing
<1>6. ASSUME NEW clause \in made, NEW condition \in BOOLEAN, AddsClause(clause, condition)
      PROVE  BindingIInv'
  <2>1. loop.of = "build" /\ clause.tvpValues = <<>> /\ Goes("build", whereIf(loop.f, condition, clause))
    BY <1>6 DEF AddsClause
  <2>2. FragmentInv(loop.f) /\ loop.f.tvpValues = <<>> /\ FragmentInv(clause)
    BY <2>1, ComposingRight DEF Composing, BindingIInv
  <2>3. FragmentInv(whereIf(loop.f, condition, clause)) /\ whereIf(loop.f, condition, clause).tvpValues = <<>>
    BY <2>1, <2>2, JoinsInv DEF whereIf
  <2> QED
    BY <2>1, <2>3, GoesRight DEF Composing
<1>7. ASSUME NEW kept \in SUBSET made, Returns(kept) PROVE BindingIInv'
  <2>1. made' = kept \union {loop.f} /\ loop' = Rest /\ buffer' = buffer /\ loop.of \in Composing
    BY <1>7 DEF Returns
  <2>2. \A f \in made' : FragmentInv(f)
    BY <2>1, ComposingRight DEF BindingIInv
  <2> QED
    BY <2>1, <2>2 DEF BindingIInv, LoopRight
<1>8. ASSUME NEW rows \in TableRows, MaterialisesTable(rows) PROVE BindingIInv'
  <2>1. loop'.of = "sent" /\ loop'.dialect \in Dialects /\ Bound(loop'.dialect, loop')
    BY <1>8, TableBound DEF BindingIInv
  <2>2. made' = made /\ buffer' = buffer
    BY <1>8 DEF MaterialisesTable, Sends
  <2> QED
    BY <2>1, <2>2 DEF BindingIInv, LoopRight
<1> QED
  BY <1>1, <1>2, <1>3, <1>4, <1>5, <1>6, <1>7, <1>8 DEF FragmentNext

\* A text with @name parameters is read, or was.
LEMMA NamedRight ==
  ASSUME BindingIInv, loop.of \in {"named", "built"}
  PROVE  NamedInv(loop)
BY DEF BindingIInv, LoopRight, Composing, Rest, RejectedRight

\* So do named parameters, batches and the typed writes.
LEMMA StatementStep ==
  ASSUME BindingIInv, StatementNext
  PROVE  BindingIInv'
<1>1. ASSUME NEW given \in Params, NEW dialect \in Dialects, buildParams(given, dialect) PROVE BindingIInv'
  <2>1. NamedInv(loop') /\ made' = made /\ buffer' = buffer
    BY <1>1, BuildsInv DEF buildParams
  <2> QED
    BY <2>1 DEF BindingIInv, LoopRight
<1>2. ASSUME NEW name \in Names, ReadsName(name) PROVE BindingIInv'
  <2>1. made' = made /\ buffer' = buffer /\ NamedInv(loop)
    BY <1>2, NamedRight DEF ReadsName
  <2>2. NamedInv(loop') \/ RejectedRight(loop')
    BY <1>2, <2>1, ReadsNameInv
  <2> QED
    BY <2>1, <2>2 DEF BindingIInv, LoopRight
<1>3. CASE EndsNames
  <2>1. made' = made /\ buffer' = buffer /\ NamedInv(loop)
    BY <1>3, NamedRight DEF EndsNames
  <2>2. NamedInv(loop') \/ RejectedRight(loop')
    BY <1>3, <2>1, EndsNamesInv
  <2> QED
    BY <2>1, <2>2 DEF BindingIInv, LoopRight
<1>4. ASSUME loop.of = "built", NEW row \in [DOMAIN loop.given -> Values], executeBatch(row) PROVE BindingIInv'
  <2>1. made' = made /\ buffer' = buffer /\ NamedInv(loop)
    BY <1>4, NamedRight DEF executeBatch, Sends
  <2>2. loop'.of = "sent" /\ loop'.dialect \in Dialects /\ Bound(loop'.dialect, loop')
    BY <1>4, <2>1, BatchBound
  <2> QED
    BY <2>1, <2>2 DEF BindingIInv, LoopRight
<1>5. ASSUME NEW dialect \in Dialects, NEW data \in Objects, WritesObject(dialect, data) PROVE BindingIInv'
  <2>1. loop'.of = "sent" /\ loop'.dialect \in Dialects /\ Bound(loop'.dialect, loop')
    BY <1>5, WritesBound
  <2>2. made' = made /\ buffer' = buffer
    BY <1>5 DEF WritesObject, Sends
  <2> QED
    BY <2>1, <2>2 DEF BindingIInv, LoopRight
<1> QED
  BY <1>1, <1>2, <1>3, <1>4, <1>5 DEF StatementNext

\* While bind() runs, the buffer holds what it was given.
LEMMA BindRight ==
  ASSUME BindingIInv, loop.of = "bind"
  PROVE  loop \in [of : {"bind"}, given : Seq(Values)] /\ Holds(buffer, loop.given)
BY DEF BindingIInv, LoopRight, Composing, Rest, NamedInv, NamedLoops, RejectedRight

\* So does bind().
LEMMA PreparedStep ==
  ASSUME BindingIInv, PreparedNext
  PROVE  BindingIInv'
<1>1. CASE Binds
  <2>1. loop' = [of |-> "bind", given |-> <<>>] /\ buffer' = reset(buffer) /\ made' = made
    BY <1>1 DEF Binds
  <2>2. BufferTyped(buffer') /\ Holds(buffer', <<>>)
    BY <2>1, ResetTyped DEF BindingIInv
  <2>3. loop' \in [of : {"bind"}, given : Seq(Values)] /\ loop'.given = <<>>
    BY <2>1
  <2> QED
    BY <2>1, <2>2, <2>3 DEF BindingIInv, LoopRight
<1>2. ASSUME NEW value \in Values, BindsValue(value) PROVE BindingIInv'
  <2>1. loop.of = "bind" /\ loop' = [loop EXCEPT !.given = Append(@, value)]
        /\ buffer' = push(buffer, value) /\ made' = made
    BY <1>2 DEF BindsValue
  <2>2. loop \in [of : {"bind"}, given : Seq(Values)] /\ Holds(buffer, loop.given)
    BY <2>1, BindRight
  <2>3. loop' \in [of : {"bind"}, given : Seq(Values)] /\ loop'.given = Append(loop.given, value)
    BY <2>1, <2>2
  <2>4. BufferTyped(buffer') /\ Holds(buffer', Append(loop.given, value))
    BY <2>1, <2>2, PushHolds DEF BindingIInv
  <2> QED
    BY <2>1, <2>3, <2>4 DEF BindingIInv, LoopRight
<1>3. CASE EndsBind
  <2>1. loop.of = "bind" /\ loop' = [of |-> "bound", given |-> loop.given, array |-> toArray(buffer)]
        /\ buffer' = buffer /\ made' = made
    BY <1>3 DEF EndsBind
  <2>2. toArray(buffer) = loop.given
    BY <2>1, BindRight, ArrayOfHeld DEF BindingIInv
  <2>3. loop'.of = "bound" /\ loop'.array = loop'.given
    BY <2>1, <2>2
  <2> QED
    BY <2>1, <2>3 DEF BindingIInv, LoopRight
<1> QED
  BY <1>1, <1>2, <1>3 DEF PreparedNext

\* Every placeholder of every statement receives the value its author put there,
\* names are refused exactly when they must be, and a prepared query sends its own
\* values, for every set of values, tables and rows and every length of text:
\* tag.ts, helpers.ts, query-builder.ts, param-builder.ts, execute.ts, proc.ts,
\* core/tvp, param-buffer.ts.
THEOREM BindingAlwaysExact == BindingSpec => []BindingExact
<1>1. BindingInit => BindingIInv
  BY BindingIInvInit
<1>2. BindingIInv /\ [BindingNext]_bindingVars => BindingIInv'
  <2> SUFFICES ASSUME BindingIInv, [BindingNext]_bindingVars PROVE BindingIInv'
    OBVIOUS
  <2>1. CASE Done
    <3>1. loop' = Rest /\ made' = made /\ buffer' = buffer
      BY <2>1 DEF Done
    <3> QED
      BY <3>1 DEF BindingIInv, LoopRight
  <2>2. CASE UNCHANGED bindingVars
    <3>1. loop' = loop /\ made' = made /\ buffer' = buffer
      BY <2>2 DEF bindingVars
    <3> QED
      BY <3>1 DEF BindingIInv
  <2> QED
    BY <2>1, <2>2, FragmentStep, StatementStep, PreparedStep DEF BindingNext
<1>3. BindingIInv => BindingExact
  BY BindingIInvExact
<1> QED
  BY <1>1, <1>2, <1>3, PTL DEF BindingSpec

-----------------------------------------------------------------------------
(* Rows *)

-----------------------------------------------------------------------------
(* Rows: values as they are read                                           *)

LEMMA Unrefused ==
  ASSUME NEW code, NEW is, NEW of
  PROVE  Refusal(code) # [is |-> is, of |-> of]
<1>1. DOMAIN Refusal(code) = {"refused"} /\ DOMAIN [is |-> is, of |-> of] = {"is", "of"}
  BY DEF Refusal
<1>2. {"refused"} # {"is", "of"}
  OBVIOUS
<1> QED
  BY <1>1, <1>2

LEMMA HandlerKinds ==
  ASSUME NEW dbType
  PROVE  handlerOf(dbType) \in {"number", "boolean", "string", "date", "buffer", "json", "identity"}
<1>1. CASE dbType \notin DOMAIN BUILT_IN_HANDLERS
  BY <1>1 DEF handlerOf
<1>2. CASE dbType \in DOMAIN BUILT_IN_HANDLERS
  <2>1. dbType \in {"int", "bigint", "smallint", "float", "decimal", "boolean", "text", "nvarchar",
                    "varchar", "char", "datetime", "date", "time", "uuid", "blob", "json", "array"}
    BY <1>2 DEF BUILT_IN_HANDLERS
  <2>2. BUILT_IN_HANDLERS[dbType] \in {"number", "boolean", "string", "date", "buffer", "json", "identity"}
    BY <2>1 DEF BUILT_IN_HANDLERS
  <2> QED
    BY <1>2, <2>2 DEF handlerOf
<1> QED
  BY <1>1, <1>2

\* Whatever form a driver answers in is read as the value that is held, but for
\* a text of a json column that it parsed.
LEMMA ReadRight ==
  ASSUME NEW driver \in Drivers, NEW dbType, NEW v \in TypedValue(dbType)
  PROVE  LET got == fromDb(dbType, Form(driver, dbType, v))
         IN /\ v # Null /\ Form(driver, dbType, v) # Null
            /\ AsRead(dbType, v) # Refusal("SyntaxError")
            /\ IF driver.json = "parsed" /\ handlerOf(dbType) = "json" /\ v.is = "string"
               THEN got = Refusal("SyntaxError") ELSE got = AsRead(dbType, v)
<1>1. PICK h : h = handlerOf(dbType) /\ h \in {"number", "boolean", "string", "date", "buffer", "json", "identity"}
  BY HandlerKinds
<1>2. PICK is, of : v = [is |-> is, of |-> of] /\ is \in Held[h] /\ (h = "boolean" => of \in {"true", "false"})
  BY <1>1 DEF TypedValue
<1>3. is \in {"number", "boolean", "string", "date", "buffer", "object", "array"}
  BY <1>1, <1>2 DEF Held
<1>4. v # Null
  BY <1>2, <1>3 DEF Null
<1>5. AsRead(dbType, v) # Refusal("SyntaxError")
  <2>1. \E a, b : AsRead(dbType, v) = [is |-> a, of |-> b]
    BY <1>2 DEF AsRead, Value
  <2> QED
    BY <2>1, Unrefused
<1>6. ASSUME NEW a, NEW b, Form(driver, dbType, v) = [is |-> a, of |-> b], a # "null"
      PROVE  /\ Form(driver, dbType, v) # Null
             /\ h = "string" => fromDb(dbType, Form(driver, dbType, v)) = [is |-> "string", of |-> b]
             /\ h = "number" => fromDb(dbType, Form(driver, dbType, v))
                                  = [is |-> "number", of |-> IF a = "number" THEN b ELSE Nearest[b]]
             /\ h = "boolean" => fromDb(dbType, Form(driver, dbType, v)) = booleanHandler([is |-> a, of |-> b])
             /\ h = "date" => fromDb(dbType, Form(driver, dbType, v)) = [is |-> "date", of |-> b]
             /\ h = "buffer" => fromDb(dbType, Form(driver, dbType, v)) = [is |-> "buffer", of |-> b]
             /\ h = "json" => fromDb(dbType, Form(driver, dbType, v)) = jsonHandler([is |-> a, of |-> b])
             /\ h = "identity" => fromDb(dbType, Form(driver, dbType, v)) = [is |-> a, of |-> b]
  <2>1. PICK raw : raw = Form(driver, dbType, v)
    OBVIOUS
  <2>2. raw = [is |-> a, of |-> b] /\ raw.is = a /\ raw.of = b
    BY <1>6, <2>1
  <2>3. raw # Null
    BY <1>6, <2>2 DEF Null
  <2>4. /\ h = "string" => fromDb(dbType, raw) = stringHandler(raw)
        /\ h = "number" => fromDb(dbType, raw) = numberHandler(raw)
        /\ h = "boolean" => fromDb(dbType, raw) = booleanHandler(raw)
        /\ h = "date" => fromDb(dbType, raw) = dateHandler(raw)
        /\ h = "buffer" => fromDb(dbType, raw) = bufferHandler(raw)
        /\ h = "json" => fromDb(dbType, raw) = jsonHandler(raw)
        /\ h = "identity" => fromDb(dbType, raw) = raw
    BY <1>1, <2>3 DEF fromDb
  <2>5. /\ stringHandler(raw) = [is |-> "string", of |-> b]
        /\ numberHandler(raw) = [is |-> "number", of |-> IF a = "number" THEN b ELSE Nearest[b]]
        /\ dateHandler(raw) = [is |-> "date", of |-> b] /\ bufferHandler(raw) = [is |-> "buffer", of |-> b]
    BY <2>2 DEF stringHandler, numberHandler, dateHandler, bufferHandler, Value
  <2> QED
    BY <2>1, <2>2, <2>3, <2>4, <2>5
<1>7. /\ driver.number \in {"number", "bigint", "string"} /\ driver.boolean \in {"boolean", "number", "string"}
      /\ driver.date \in {"date", "string"} /\ driver.buffer \in {"buffer", "bytes", "string"}
      /\ driver.json \in {"parsed", "text"}
  BY DEF Drivers
<1>8. h # "number" => AsRead(dbType, v) = v
  BY <1>1 DEF AsRead
<1>9. CASE h = "number"
  <2>1. Form(driver, dbType, v)
          = [is |-> driver.number, of |-> IF driver.number = "number" THEN Nearest[of] ELSE of]
    BY <1>1, <1>2, <1>4, <1>9 DEF Form, Value
  <2>2. AsRead(dbType, v) = [is |-> "number", of |-> Nearest[of]]
    BY <1>1, <1>2, <1>4, <1>9 DEF AsRead, Value
  <2> QED
    BY <1>1, <1>4, <1>5, <1>6, <1>7, <1>9, <2>1, <2>2
<1>10. CASE h = "boolean"
  <2>1. PICK b : b = IF driver.boolean # "number" THEN of ELSE IF of = "true" THEN "1" ELSE "0"
    OBVIOUS
  <2>2. Form(driver, dbType, v) = [is |-> driver.boolean, of |-> b]
    BY <1>1, <1>2, <1>4, <1>10, <2>1 DEF Form, Value
  <2>3. is = "boolean"
    BY <1>2, <1>10 DEF Held
  <2>4. booleanHandler([is |-> driver.boolean, of |-> b]) = v
    BY <1>2, <1>7, <1>10, <2>1, <2>3 DEF booleanHandler, Value
  <2> QED
    BY <1>1, <1>4, <1>5, <1>6, <1>7, <1>8, <1>10, <2>2, <2>4
<1>11. CASE h \in {"date", "buffer"}
  <2>1. Form(driver, dbType, v) = [is |-> IF h = "date" THEN driver.date ELSE driver.buffer, of |-> of]
    BY <1>1, <1>2, <1>4, <1>11 DEF Form, Value
  <2>2. is = h
    BY <1>2, <1>11 DEF Held
  <2>3. PICK a : a = (IF h = "date" THEN driver.date ELSE driver.buffer) /\ a # "null"
    BY <1>7
  <2>4. Form(driver, dbType, v) # Null /\ fromDb(dbType, Form(driver, dbType, v)) = [is |-> h, of |-> of]
    BY <1>6, <1>11, <2>1, <2>3
  <2> QED
    BY <1>1, <1>2, <1>4, <1>5, <1>8, <1>11, <2>2, <2>4
<1>12. CASE h \in {"string", "identity"}
  <2>1. Form(driver, dbType, v) = [is |-> is, of |-> of]
    BY <1>1, <1>2, <1>4, <1>12 DEF Form
  <2>2. is \in {"string", "array"} /\ (h = "string" => is = "string")
    BY <1>2, <1>12 DEF Held
  <2> QED
    BY <1>1, <1>2, <1>4, <1>5, <1>6, <1>8, <1>12, <2>1, <2>2
<1>13. CASE h = "json"
  <2>1. PICK a : a = IF driver.json # "text" THEN is ELSE IF is = "object" THEN "object JSON" ELSE "string JSON"
    OBVIOUS
  <2>2. Form(driver, dbType, v) = [is |-> a, of |-> of]
    BY <1>1, <1>2, <1>4, <1>13, <2>1 DEF Form, Value
  <2>3. is \in {"object", "string"}
    BY <1>2, <1>13 DEF Held
  <2>4. fromDb(dbType, Form(driver, dbType, v)) = jsonHandler([is |-> a, of |-> of])
        /\ Form(driver, dbType, v) # Null
    BY <1>6, <1>13, <2>1, <2>2, <2>3
  <2>5. IF driver.json = "parsed" /\ is = "string"
        THEN jsonHandler([is |-> a, of |-> of]) = Refusal("SyntaxError")
        ELSE jsonHandler([is |-> a, of |-> of]) = v
    BY <1>2, <1>7, <2>1, <2>3 DEF jsonHandler, Value
  <2> QED
    BY <1>1, <1>2, <1>4, <1>5, <1>8, <1>13, <2>4, <2>5
<1> QED
  BY <1>1, <1>9, <1>10, <1>11, <1>12, <1>13

LEMMA NullRead ==
  ASSUME NEW driver, NEW dbType
  PROVE  /\ Form(driver, dbType, Null) = Null /\ fromDb(dbType, Null) = Null
         /\ AsRead(dbType, Null) = Null /\ Null # Refusal("SyntaxError") /\ Null.is = "null"
<1>1. Null # Refusal("SyntaxError")
  BY Unrefused DEF Null
<1> QED
  BY <1>1 DEF Form, fromDb, AsRead, Null

\* The mapper refuses what it should, and maps the rest to what is held.
LEMMA MapperRight ==
  ASSUME NEW driver \in Drivers, NEW w \in HeldRows, NEW strict \in BOOLEAN,
         NEW got \in compileMapper(w.schema, Answered(driver, w.schema, w.row), strict)
  PROVE  MappedRight([of |-> "mapped", schema |-> w.schema, held |-> w.row, strict |-> strict,
                      driver |-> driver, got |-> got])
<1> DEFINE schema == w.schema
           row == Answered(driver, schema, w.row)
           raw(c) == IF c \in DOMAIN row THEN row[c] ELSE Null
           result == [c \in DOMAIN schema |-> fromDb(schema[c].dbType, raw(c))]
           held(c) == IF c \in DOMAIN w.row THEN w.row[c] ELSE Null
           text(c) == handlerOf(schema[c].dbType) = "json" /\ held(c).is = "string"
           missing == strict /\ \E c \in DOMAIN schema : held(c) = Null /\ ~schema[c].isNullable
           unknown == strict /\ ~(DOMAIN w.row \subseteq DOMAIN schema)
           reparsed == driver.json = "parsed" /\ \E c \in DOMAIN schema : text(c)
           nulls == {Refusal("NULL_VIOLATION") :
                       c \in {c \in DOMAIN schema : strict /\ raw(c) = Null /\ ~schema[c].isNullable}}
           misread == {result[c] : c \in {c \in DOMAIN schema : result[c] = Refusal("SyntaxError")}}
<1>1. ASSUME NEW c \in DOMAIN schema
      PROVE  /\ raw(c) = Null <=> held(c) = Null
             /\ AsRead(schema[c].dbType, held(c)) # Refusal("SyntaxError")
             /\ IF driver.json = "parsed" /\ text(c) THEN result[c] = Refusal("SyntaxError")
                ELSE result[c] = AsRead(schema[c].dbType, held(c))
  <2>1. result[c] = fromDb(schema[c].dbType, raw(c))
    BY <1>1
  <2>2. CASE c \notin DOMAIN w.row
    <3>1. raw(c) = Null /\ held(c) = Null
      BY <2>2 DEF Answered
    <3> QED
      BY <2>1, <3>1, NullRead
  <2>3. CASE c \in DOMAIN w.row
    <3>1. raw(c) = Form(driver, schema[c].dbType, held(c))
      BY <1>1, <2>3 DEF Answered
    <3>2. held(c) \in TypedValue(schema[c].dbType) \union {Null}
      BY <1>1, <2>3, RowsAssumption
    <3>3. CASE held(c) = Null
      BY <2>1, <3>1, <3>3, NullRead
    <3>4. CASE held(c) \in TypedValue(schema[c].dbType)
      <4> HIDE DEF held, raw, result
      <4> QED
        BY <2>1, <3>1, <3>4, ReadRight
    <3> QED
      BY <3>2, <3>3, <3>4
  <2> QED
    BY <2>2, <2>3
<1>2. DOMAIN row = DOMAIN w.row
  BY DEF Answered
<1>3. got \in CASE nulls \union misread # {} -> nulls \union misread
               [] nulls \union misread = {} /\ strict /\ ~(DOMAIN row \subseteq DOMAIN schema) ->
                    {Refusal("UNKNOWN_COLUMN")}
               [] OTHER -> {result}
  BY DEF compileMapper
<1>4. \A x \in nulls : x = Refusal("NULL_VIOLATION") /\ missing
  BY <1>1
<1>5. \A x \in misread : x = Refusal("SyntaxError") /\ reparsed
  <2>1. ASSUME NEW c \in DOMAIN schema, result[c] = Refusal("SyntaxError") PROVE reparsed
    <3> HIDE DEF text, held, result
    <3> QED
      BY <1>1, <2>1
  <2> QED
    BY <2>1
<1>6. missing => nulls # {}
  BY <1>1
<1>7. reparsed => misread # {}
  <2>1. SUFFICES ASSUME NEW c \in DOMAIN schema, driver.json = "parsed", text(c)
                 PROVE  misread # {}
    OBVIOUS
  <2>2. result[c] = Refusal("SyntaxError")
    BY <1>1, <2>1
  <2>3. result[c] \in misread
    BY <2>2
  <2> QED
    BY <2>3
<1>8. ASSUME ~reparsed
      PROVE  result = [c \in DOMAIN schema |-> AsRead(schema[c].dbType, held(c))]
  <2>1. \A c \in DOMAIN schema : result[c] = AsRead(schema[c].dbType, held(c))
    <3> HIDE DEF text, held, result
    <3> QED
      BY <1>1, <1>8
  <2> QED
    BY <2>1
<1>9. \/ missing /\ got = Refusal("NULL_VIOLATION")
      \/ unknown /\ got = Refusal("UNKNOWN_COLUMN")
      \/ reparsed /\ got = Refusal("SyntaxError")
      \/ /\ ~(missing \/ unknown \/ reparsed)
         /\ got = [c \in DOMAIN schema |-> AsRead(schema[c].dbType, held(c))]
  <2>1. CASE nulls \union misread # {}
    <3>1. got \in nulls \union misread
      <4> HIDE DEF nulls, misread, result, row, schema
      <4> QED
        BY <1>3, <2>1
    <3> HIDE DEF nulls, misread, missing, reparsed
    <3> QED
      BY <1>4, <1>5, <3>1
  <2>2. CASE nulls \union misread = {} /\ unknown
    <3>1. got = Refusal("UNKNOWN_COLUMN")
      <4>1. strict /\ ~(DOMAIN row \subseteq DOMAIN schema)
        BY <1>2, <2>2
      <4> HIDE DEF nulls, misread, result, row, schema, unknown
      <4> QED
        BY <1>3, <2>2, <4>1
    <3> QED
      BY <2>2, <3>1
  <2>3. CASE nulls \union misread = {} /\ ~unknown
    <3>1. got = result
      <4>1. ~(strict /\ ~(DOMAIN row \subseteq DOMAIN schema))
        BY <1>2, <2>3
      <4> HIDE DEF nulls, misread, result, row, schema, unknown
      <4> QED
        BY <1>3, <2>3, <4>1
    <3>2. ~missing /\ ~reparsed
      <4> HIDE DEF nulls, misread, missing, reparsed
      <4> QED
        BY <1>6, <1>7, <2>3
    <3> QED
      BY <1>8, <2>3, <3>1, <3>2
  <2> QED
    BY <2>1, <2>2, <2>3
<1> HIDE DEF missing, unknown, reparsed
<1>10. PICK r : r = [of |-> "mapped", schema |-> w.schema, held |-> w.row, strict |-> strict,
                     driver |-> driver, got |-> got]
  OBVIOUS
<1>11. /\ r.schema = w.schema /\ r.held = w.row /\ r.strict = strict /\ r.driver = driver /\ r.got = got
  BY <1>10
<1>12. MappedRight(r)
  BY <1>9, <1>11 DEF MappedRight, missing, unknown, reparsed
<1> QED
  BY <1>10, <1>12

\* Both kinds of query answer alike.
LEMMA AnswersAlike ==
  ASSUME NEW rows \in QueryResults
  PROVE  /\ <<query(rows), queryFirst(rows), querySingle(rows, TRUE), queryScalar(rows)>>
              = <<preparedAll(rows), preparedFirst(rows), preparedSingle(rows), preparedScalar(rows)>>
         /\ rows # <<>> => querySingle(rows, FALSE) = querySingle(rows, TRUE)
<1>1. rows \in Seq(Seq(Cells)) /\ Len(rows) \in Nat /\ (rows = <<>> <=> Len(rows) = 0)
  BY RowsAssumption
<1>0. Len(rows) = 0 \/ Len(rows) = 1 \/ Len(rows) > 1
  <2>1. ASSUME NEW n \in Nat PROVE n = 0 \/ n = 1 \/ n > 1
    OBVIOUS
  <2> QED
    BY <1>1, <2>1
<1>2. Len(rows) > 0 => rows[1] \in Seq(Cells) /\ (rows[1] = <<>> <=> ~(Len(rows[1]) > 0))
  BY <1>1
<1>3. query(rows) = preparedAll(rows) /\ queryFirst(rows) = preparedFirst(rows)
  BY <1>1 DEF query, preparedAll, queryFirst, preparedFirst
<1>4. querySingle(rows, TRUE) = preparedSingle(rows)
  <2>1. CASE Len(rows) = 0
    BY <1>1, <2>1 DEF querySingle, preparedSingle
  <2>2. CASE Len(rows) = 1
    BY <1>1, <2>2 DEF querySingle, preparedSingle
  <2>3. CASE Len(rows) > 1
    BY <1>1, <2>3 DEF querySingle, preparedSingle
  <2> QED
    BY <1>0, <2>1, <2>2, <2>3
<1>5. queryScalar(rows) = preparedScalar(rows)
  BY <1>1, <1>2 DEF queryScalar, preparedScalar
<1>6. rows # <<>> => querySingle(rows, FALSE) = querySingle(rows, TRUE)
  <2>1. CASE Len(rows) = 1
    BY <1>1, <2>1 DEF querySingle
  <2>2. CASE Len(rows) > 1
    BY <1>1, <2>2 DEF querySingle
  <2> QED
    BY <1>0, <1>1, <2>1, <2>2
<1> QED
  BY <1>3, <1>4, <1>5, <1>6
-----------------------------------------------------------------------------
(* Rows: where the objects of a join begin                                 *)

LEMMA JoinShape ==
  ASSUME NEW q \in JoinResults
  PROVE  /\ q.columns \in Seq(STRING) /\ q.splitOn \in Seq(STRING)
         /\ \E n \in Nat, c \in Nat \ {0} :
              /\ n = Len(q.splitOn) /\ c = Len(q.columns)
              /\ DOMAIN q.columns = 1..c /\ DOMAIN q.splitOn = 1..n
         /\ \A i, j \in DOMAIN q.columns : q.columns[i] = q.columns[j] => i = j
         /\ \A k \in DOMAIN q.splitOn : \E i \in 2..Len(q.columns) : q.columns[i] = q.splitOn[k]
         /\ \A j, k \in DOMAIN q.splitOn, p, r \in DOMAIN q.columns :
              j < k /\ q.columns[p] = q.splitOn[j] /\ q.columns[r] = q.splitOn[k] => p < r
<1>1. q.columns \in Seq(STRING) /\ q.splitOn \in Seq(STRING) /\ Len(q.columns) > 0 /\ IsInjective(q.columns)
  BY RowsAssumption
<1>2. /\ Len(q.splitOn) \in Nat /\ Len(q.columns) \in Nat /\ Len(q.columns) # 0
      /\ DOMAIN q.columns = 1..Len(q.columns) /\ DOMAIN q.splitOn = 1..Len(q.splitOn)
  BY <1>1
<1>3. \A i, j \in DOMAIN q.columns : q.columns[i] = q.columns[j] => i = j
  BY <1>1 DEF IsInjective
<1>4. /\ \A k \in DOMAIN q.splitOn : \E i \in 2..Len(q.columns) : q.columns[i] = q.splitOn[k]
      /\ \A j, k \in DOMAIN q.splitOn, p, r \in DOMAIN q.columns :
            j < k /\ q.columns[p] = q.splitOn[j] /\ q.columns[r] = q.splitOn[k] => p < r
  BY RowsAssumption
<1> QED
  BY <1>1, <1>2, <1>3, <1>4

LEMMA StartsGrow ==
  ASSUME NEW q \in JoinResults
  PROVE  /\ StartOf(q, 1) = 1
         /\ \A k \in 1..Len(q.splitOn) : /\ StartOf(q, k + 1) \in 2..Len(q.columns)
                                         /\ q.columns[StartOf(q, k + 1)] = q.splitOn[k]
         /\ StartOf(q, Len(q.splitOn) + 2) = Len(q.columns) + 1
         /\ \A j, k \in 1..(Len(q.splitOn) + 2) : j < k => StartOf(q, j) < StartOf(q, k)
<1>1. PICK n \in Nat, c \in Nat \ {0} :
             /\ n = Len(q.splitOn) /\ c = Len(q.columns)
             /\ DOMAIN q.columns = 1..c /\ DOMAIN q.splitOn = 1..n
  BY JoinShape
<1>2. StartOf(q, 1) = 1
  BY DEF StartOf
<1>3. ASSUME NEW k \in 1..n
      PROVE  StartOf(q, k + 1) \in 2..c /\ q.columns[StartOf(q, k + 1)] = q.splitOn[k]
  <2>1. PICK i \in 2..c : q.columns[i] = q.splitOn[k]
    BY <1>1, JoinShape
  <2>2. i \in DOMAIN q.columns
    BY <1>1
  <2>3. StartOf(q, k + 1) = CHOOSE j \in DOMAIN q.columns : q.columns[j] = q.splitOn[k]
    <3>1. k + 1 # 1 /\ k + 1 \in 2..(n + 1) /\ (k + 1) - 1 = k
      BY <1>1
    <3>2. k + 1 \in 2..(Len(q.splitOn) + 1) /\ k + 1 # Len(q.splitOn) + 2
      BY <1>1, <3>1
    <3> QED
      BY <3>1, <3>2 DEF StartOf
  <2>4. StartOf(q, k + 1) \in DOMAIN q.columns /\ q.columns[StartOf(q, k + 1)] = q.splitOn[k]
    BY <2>1, <2>2, <2>3
  <2>5. StartOf(q, k + 1) = i
    BY <2>1, <2>2, <2>4, JoinShape
  <2> QED
    BY <2>4, <2>5
<1>4. StartOf(q, n + 2) = c + 1
  <2>1. n + 2 # 1 /\ n + 2 \notin 2..(n + 1)
    BY <1>1
  <2> QED
    BY <1>1, <2>1 DEF StartOf
<1>5. ASSUME NEW j \in 1..(n + 2), NEW k \in 1..(n + 2), j < k
      PROVE  StartOf(q, j) < StartOf(q, k)
  <2>1. CASE j = 1 /\ k = n + 2
    BY <1>1, <1>2, <1>4, <2>1
  <2>2. CASE j = 1 /\ k # n + 2
    <3>1. k - 1 \in 1..n /\ (k - 1) + 1 = k
      BY <1>1, <1>5, <2>2
    <3>2. StartOf(q, k) \in 2..c
      BY <1>3, <3>1
    <3> QED
      BY <1>1, <1>2, <2>2, <3>2
  <2>3. CASE j # 1 /\ k = n + 2
    <3>1. j - 1 \in 1..n /\ (j - 1) + 1 = j
      BY <1>1, <1>5, <2>3
    <3>2. StartOf(q, j) \in 2..c
      BY <1>3, <3>1
    <3> QED
      BY <1>1, <1>4, <2>3, <3>2
  <2>4. CASE j # 1 /\ k # n + 2
    <3>1. j - 1 \in 1..n /\ (j - 1) + 1 = j /\ k - 1 \in 1..n /\ (k - 1) + 1 = k /\ j - 1 < k - 1
      BY <1>1, <1>5, <2>4
    <3>2. StartOf(q, j) \in 2..c /\ q.columns[StartOf(q, j)] = q.splitOn[j - 1]
      BY <1>3, <3>1
    <3>3. StartOf(q, k) \in 2..c /\ q.columns[StartOf(q, k)] = q.splitOn[k - 1]
      BY <1>3, <3>1
    <3>4. StartOf(q, j) \in DOMAIN q.columns /\ StartOf(q, k) \in DOMAIN q.columns
      BY <1>1, <3>2, <3>3
    <3> QED
      BY <1>1, <3>1, <3>2, <3>3, <3>4, JoinShape
  <2> QED
    BY <2>1, <2>2, <2>3, <2>4
<1> QED
  BY <1>1, <1>2, <1>3, <1>4, <1>5

\* What buildSegments() has after n columns.
Segmented(q, n, segments, current) ==
  LET m == Len(segments)
  IN /\ segments \in Seq(Seq(STRING)) /\ m <= Len(q.splitOn)
     /\ \A k \in 1..m : segments[k] = SubSeq(q.columns, StartOf(q, k), StartOf(q, k + 1) - 1)
     /\ current = SubSeq(q.columns, StartOf(q, m + 1), n)
     /\ StartOf(q, m + 1) <= IF n = 0 THEN 1 ELSE n
     /\ n < StartOf(q, m + 2)

LEMMA SegmentsStart ==
  ASSUME NEW q \in JoinResults
  PROVE  Segmented(q, 0, <<>>, <<>>)
<1>1. q.columns \in Seq(STRING) /\ q.splitOn \in Seq(STRING)
  BY JoinShape
<1>2. StartOf(q, 1) = 1 /\ StartOf(q, 2) \in Nat /\ 0 < StartOf(q, 2)
  <2>1. Len(q.splitOn) \in Nat
    BY <1>1
  <2>2. CASE Len(q.splitOn) = 0
    BY <1>1, <2>2, StartsGrow
  <2>3. CASE Len(q.splitOn) # 0
    <3>1. 1 \in 1..Len(q.splitOn) /\ 1 + 1 = 2
      BY <2>1, <2>3
    <3> QED
      BY <3>1, StartsGrow
  <2> QED
    BY <2>2, <2>3
<1>3. SubSeq(q.columns, 1, 0) = <<>>
  BY <1>1, SubSeqEmpty
<1>4. Len(<<>>) = 0 /\ <<>> \in Seq(Seq(STRING)) /\ Len(q.splitOn) \in Nat
  BY <1>1
<1> QED
  BY <1>2, <1>3, <1>4 DEF Segmented

LEMMA SegmentsStep ==
  ASSUME NEW q \in JoinResults, NEW n \in Nat, n < Len(q.columns), NEW segments, NEW current,
         Segmented(q, n, segments, current)
  PROVE  LET col == q.columns[n + 1]
         IN IF col \in ToSet(q.splitOn) /\ current # <<>>
            THEN Segmented(q, n + 1, Append(segments, current), <<col>>)
            ELSE Segmented(q, n + 1, segments, Append(current, col))
<1>a. PICK s \in Nat, c \in Nat \ {0} :
             /\ s = Len(q.splitOn) /\ c = Len(q.columns)
             /\ DOMAIN q.columns = 1..c /\ DOMAIN q.splitOn = 1..s
  BY JoinShape
<1>1. q.columns \in Seq(STRING) /\ q.splitOn \in Seq(STRING)
  BY JoinShape
<1>b. PICK col : col = q.columns[n + 1] /\ col \in STRING
  BY <1>1, <1>a
<1>2. PICK m \in Nat :
      /\ m = Len(segments) /\ segments \in Seq(Seq(STRING)) /\ m <= s
      /\ current = SubSeq(q.columns, StartOf(q, m + 1), n)
      /\ StartOf(q, m + 1) <= IF n = 0 THEN 1 ELSE n
      /\ n < StartOf(q, m + 2)
      /\ \A k \in 1..m : segments[k] = SubSeq(q.columns, StartOf(q, k), StartOf(q, k + 1) - 1)
  <2>1. segments \in Seq(Seq(STRING))
    BY DEF Segmented
  <2>2. Len(segments) \in Nat
    BY <2>1
  <2> QED
    BY <1>a, <2>2 DEF Segmented
<1>0. /\ StartOf(q, 1) = 1
      /\ \A k \in 1..s : StartOf(q, k + 1) \in 2..c /\ q.columns[StartOf(q, k + 1)] = q.splitOn[k]
      /\ StartOf(q, s + 2) = c + 1
      /\ \A j, k \in 1..(s + 2) : j < k => StartOf(q, j) < StartOf(q, k)
  BY <1>a, StartsGrow
<1>00. n < c
  BY <1>a
<1>3. \A k \in 1..(s + 2) : StartOf(q, k) \in 1..(c + 1)
  <2>1. ASSUME NEW k \in 1..(s + 2) PROVE StartOf(q, k) \in 1..(c + 1)
    <3>1. CASE k = 1 \/ k = s + 2
      BY <1>1, <1>a, <1>b, <3>1, <1>0
    <3>2. CASE k # 1 /\ k # s + 2
      <4>1. k - 1 \in 1..s /\ (k - 1) + 1 = k
        BY <1>1, <1>a, <1>b, <3>2
      <4>2. StartOf(q, k) \in 2..c
        BY <1>0, <4>1
      <4> QED
        BY <1>1, <1>a, <1>b, <4>2
    <3> QED
      BY <3>1, <3>2
  <2> QED
    BY <2>1
<1>4. StartOf(q, m + 1) \in 1..(c + 1) /\ StartOf(q, m + 2) \in 1..(c + 1) /\ StartOf(q, 1) = 1
  BY <1>00, <1>1, <1>a, <1>b, <1>2, <1>3, <1>0
<1>5. current \in Seq(STRING)
  <2>1. \A i \in StartOf(q, m + 1)..n : q.columns[i] \in STRING
    BY <1>1, <1>a, <1>b, <1>4
  <2> QED
    BY <1>2, <1>4, <2>1, SubSeqProperties
<1>6. ASSUME col \in ToSet(q.splitOn) /\ current # <<>>
      PROVE  Segmented(q, n + 1, Append(segments, current), <<col>>)
  <2>1. PICK j \in 1..s : q.splitOn[j] = col
    BY <1>1, <1>a, <1>b, <1>6 DEF ToSet
  <2>2. StartOf(q, j + 1) = n + 1
    <3>1. StartOf(q, j + 1) \in DOMAIN q.columns /\ q.columns[StartOf(q, j + 1)] = col
      BY <1>1, <1>a, <1>b, <2>1, <1>0
    <3>2. n + 1 \in DOMAIN q.columns
      BY <1>1, <1>a, <1>b
    <3> QED
      BY <1>b, <3>1, <3>2, JoinShape
  <2>3. n # 0
    BY <1>1, <1>a, <1>b, <2>2, <1>0
  <2>4. j = m + 1
    <3>1. ~(j + 1 <= m + 1)
      <4>1. CASE j + 1 = m + 1
        BY <1>2, <1>4, <2>2, <2>3, <4>1
      <4>2. CASE j + 1 < m + 1
        <5>1. j + 1 \in 1..(s + 2) /\ m + 1 \in 1..(s + 2)
          BY <1>00, <1>1, <1>a, <1>b, <1>2
        <5>2. StartOf(q, j + 1) < StartOf(q, m + 1)
          BY <4>2, <5>1, <1>0
        <5> QED
          BY <1>2, <1>4, <2>2, <2>3, <5>2
      <4> QED
        BY <1>2, <4>1, <4>2
    <3>2. ~(j + 1 > m + 2)
      <4>1. SUFFICES ASSUME j + 1 > m + 2 PROVE FALSE
        OBVIOUS
      <4>2. j + 1 \in 1..(s + 2) /\ m + 2 \in 1..(s + 2)
        BY <1>00, <1>1, <1>a, <1>b, <1>2, <4>1
      <4>3. StartOf(q, m + 2) < StartOf(q, j + 1)
        BY <4>1, <4>2, <1>0
      <4> QED
        BY <1>2, <1>4, <2>2, <4>3
    <3> QED
      BY <1>2, <3>1, <3>2
  <2>5. m + 1 <= s /\ StartOf(q, m + 2) = n + 1
    BY <1>2, <2>2, <2>4
  <2>6. Append(segments, current) \in Seq(Seq(STRING)) /\ Len(Append(segments, current)) = m + 1
    BY <1>2, <1>5
  <2>7. \A k \in 1..(m + 1) : Append(segments, current)[k]
                               = SubSeq(q.columns, StartOf(q, k), StartOf(q, k + 1) - 1)
    <3>1. StartOf(q, m + 2) - 1 = n /\ (m + 1) + 1 = m + 2
      BY <1>2, <2>5
    <3>2. Append(segments, current)[m + 1] = current
      BY <1>2, <1>5
    <3>3. \A k \in 1..m : Append(segments, current)[k] = segments[k]
      BY <1>2, <1>5
    <3>4. \A k \in 1..(m + 1) : k = m + 1 \/ k \in 1..m
      BY <1>2
    <3> QED
      BY <1>2, <3>1, <3>2, <3>3, <3>4
  <2>8. <<col>> = SubSeq(q.columns, n + 1, n + 1)
    <3>1. SubSeq(q.columns, n + 1, n + 1) = SubSeq(q.columns, n + 1, n) \o <<col>>
      <4>1. \A i \in (n + 1)..(n + 1) : q.columns[i] \in STRING
        BY <1>1, <1>a, <1>b
      <4> QED
        BY <1>1, <1>a, <1>b, <4>1, SubSeqRecursiveSecond
    <3>2. SubSeq(q.columns, n + 1, n) = <<>>
      BY <1>1, <1>a, <1>b, SubSeqEmpty
    <3>3. <<>> \o <<col>> = <<col>>
      OBVIOUS
    <3> QED
      BY <3>1, <3>2, <3>3
  <2>9. n + 1 < StartOf(q, m + 3)
    <3>1. m + 2 \in 1..(s + 2) /\ m + 3 \in 1..(s + 2) /\ m + 2 < m + 3
      BY <1>00, <1>1, <1>a, <1>b, <1>2, <2>5
    <3> QED
      BY <2>5, <3>1, <1>0
  <2>10. (m + 1) + 1 = m + 2 /\ (m + 1) + 2 = m + 3 /\ n + 1 # 0
    BY <1>2
  <2> QED
    <3>1. PICK segs : segs = Append(segments, current)
      OBVIOUS
    <3>2. StartOf(q, (m + 1) + 1) <= IF n + 1 = 0 THEN 1 ELSE n + 1
      BY <2>5, <2>10
    <3>3. <<col>> = SubSeq(q.columns, StartOf(q, (m + 1) + 1), n + 1)
      BY <2>5, <2>8, <2>10
    <3>4. n + 1 < StartOf(q, (m + 1) + 2)
      BY <2>9, <2>10
    <3>5. segs \in Seq(Seq(STRING)) /\ Len(segs) = m + 1 /\ m + 1 <= Len(q.splitOn)
      BY <1>a, <2>5, <2>6, <3>1
    <3>6. \A k \in 1..(m + 1) : segs[k] = SubSeq(q.columns, StartOf(q, k), StartOf(q, k + 1) - 1)
      BY <2>7, <3>1
    <3>7. Segmented(q, n + 1, segs, <<col>>)
      BY <3>2, <3>3, <3>4, <3>5, <3>6 DEF Segmented
    <3> QED
      BY <3>1, <3>7
<1>7. ASSUME ~(col \in ToSet(q.splitOn) /\ current # <<>>)
      PROVE  Segmented(q, n + 1, segments, Append(current, col))
  <2>1. col \notin ToSet(q.splitOn) \/ n = 0
    <3>1. ASSUME current = <<>>, n # 0 PROVE FALSE
      <4>1. Len(current) = n - StartOf(q, m + 1) + 1
        <5>1. \A i \in StartOf(q, m + 1)..n : q.columns[i] \in STRING
          BY <1>1, <1>a, <1>b, <1>4
        <5> QED
          BY <1>2, <1>4, <3>1, <5>1, SubSeqProperties
      <4> QED
        BY <1>2, <1>4, <3>1, <4>1
    <3> QED
      BY <1>7, <3>1
  <2>2. n + 1 # StartOf(q, m + 2)
    <3>1. SUFFICES ASSUME n + 1 = StartOf(q, m + 2) PROVE FALSE
      OBVIOUS
    <3>2. m + 1 \in 1..s
      <4>1. CASE m = s
        BY <1>1, <1>a, <1>b, <3>1, <4>1, <1>0
      <4> QED
        BY <1>00, <1>1, <1>a, <1>b, <1>2, <4>1
    <3>3. (m + 1) + 1 = m + 2
      BY <1>2
    <3>4. q.columns[StartOf(q, m + 2)] = q.splitOn[m + 1] /\ StartOf(q, m + 2) \in 2..c
      BY <1>1, <1>a, <1>b, <3>2, <3>3, <1>0
    <3>5. col \in ToSet(q.splitOn)
      BY <1>1, <1>a, <1>b, <3>1, <3>2, <3>4 DEF ToSet
    <3> QED
      BY <2>1, <3>1, <3>4, <3>5
  <2>3. n + 1 < StartOf(q, m + 2)
    BY <1>2, <1>4, <2>2
  <2>4. StartOf(q, m + 1) <= n + 1
    BY <1>2, <1>4
  <2>5. Append(current, col) = SubSeq(q.columns, StartOf(q, m + 1), n + 1)
    <3>1. \A i \in StartOf(q, m + 1)..(n + 1) : q.columns[i] \in STRING
      BY <1>1, <1>a, <1>b, <1>4
    <3>2. SubSeq(q.columns, StartOf(q, m + 1), n + 1) = SubSeq(q.columns, StartOf(q, m + 1), n) \o <<col>>
      <4>1. /\ StartOf(q, m + 1) \in 1..Len(q.columns) /\ n + 1 \in StartOf(q, m + 1)..Len(q.columns)
            /\ (n + 1) - 1 = n
        BY <1>00, <1>a, <1>4, <2>4
      <4> QED
        BY <1>1, <1>b, <4>1, SubSeqRecursiveSecond
    <3>3. Append(current, col) = current \o <<col>>
      <4>1. col \in STRING
        BY <1>1, <1>a, <1>b
      <4> QED
        BY <1>5, <4>1
    <3> QED
      BY <1>2, <3>2, <3>3
  <2> QED
    <3>1. StartOf(q, m + 1) <= IF n + 1 = 0 THEN 1 ELSE n + 1
      BY <2>4
    <3> QED
      BY <1>a, <1>2, <2>3, <2>5, <3>1 DEF Segmented
<1> QED
  BY <1>b, <1>6, <1>7
\* The segments are the parts that RowsExact speaks of.
SplitRight(q, segments) ==
  /\ Len(segments) = Len(q.splitOn) + 1
  /\ \A k \in 1..(Len(q.splitOn) + 1) :
       ToSet(segments[k]) = {q.columns[i] : i \in StartOf(q, k)..(StartOf(q, k + 1) - 1)}

LEMMA SegmentsEnd ==
  ASSUME NEW q \in JoinResults, NEW segments, NEW current,
         Segmented(q, Len(q.columns), segments, current)
  PROVE  SplitRight(q, IF current = <<>> THEN segments ELSE Append(segments, current))
<1>1. PICK s \in Nat, c \in Nat \ {0} :
             /\ s = Len(q.splitOn) /\ c = Len(q.columns)
             /\ DOMAIN q.columns = 1..c /\ DOMAIN q.splitOn = 1..s
  BY JoinShape
<1>2. q.columns \in Seq(STRING)
  BY JoinShape
<1>3. /\ StartOf(q, 1) = 1
      /\ \A k \in 1..s : StartOf(q, k + 1) \in 2..c
      /\ StartOf(q, s + 2) = c + 1
      /\ \A j, k \in 1..(s + 2) : j < k => StartOf(q, j) < StartOf(q, k)
  BY <1>1, StartsGrow
<1>4. segments \in Seq(Seq(STRING)) /\ Len(segments) \in Nat
  <2>1. segments \in Seq(Seq(STRING))
    BY DEF Segmented
  <2> QED
    BY <2>1
<1>5. PICK m \in Nat : m = Len(segments)
  BY <1>4
<1>6. /\ m <= s /\ current = SubSeq(q.columns, StartOf(q, m + 1), c)
      /\ StartOf(q, m + 1) <= c /\ c < StartOf(q, m + 2)
      /\ \A k \in 1..m : segments[k] = SubSeq(q.columns, StartOf(q, k), StartOf(q, k + 1) - 1)
  <2>1. c # 0
    OBVIOUS
  <2> QED
    BY <1>1, <1>5, <2>1 DEF Segmented
<1>7. m = s
  <2>1. SUFFICES ASSUME m + 1 \in 1..s PROVE FALSE
    BY <1>6
  <2>2. StartOf(q, (m + 1) + 1) \in 2..c
    BY <1>3, <2>1
  <2>3. (m + 1) + 1 = m + 2
    OBVIOUS
  <2> QED
    BY <1>6, <2>2, <2>3
<1>8. \A k \in 1..(s + 1) : StartOf(q, k) \in 1..c /\ StartOf(q, k + 1) \in 1..(c + 1)
  <2>1. ASSUME NEW k \in 1..(s + 1) PROVE StartOf(q, k) \in 1..c
    <3>1. CASE k = 1
      BY <1>3, <3>1
    <3>2. CASE k # 1
      <4>1. k - 1 \in 1..s /\ (k - 1) + 1 = k
        BY <3>2
      <4>2. StartOf(q, k) \in 2..c
        BY <1>3, <4>1
      <4> QED
        BY <4>2
    <3> QED
      BY <3>1, <3>2
  <2>2. ASSUME NEW k \in 1..(s + 1) PROVE StartOf(q, k + 1) \in 1..(c + 1)
    <3>1. CASE k = s + 1
      <4>1. k + 1 = s + 2
        BY <3>1
      <4> QED
        BY <1>3, <4>1
    <3>2. CASE k # s + 1
      <4>1. k \in 1..s
        BY <3>2
      <4>2. StartOf(q, k + 1) \in 2..c
        BY <1>3, <4>1
      <4> QED
        BY <4>2
    <3> QED
      BY <3>1, <3>2
  <2> QED
    BY <2>1, <2>2
<1>9. ASSUME NEW a \in 1..c, NEW b \in 0..c
      PROVE  /\ SubSeq(q.columns, a, b) \in Seq(STRING)
             /\ a <= b => SubSeq(q.columns, a, b) # <<>>
             /\ ToSet(SubSeq(q.columns, a, b)) = {q.columns[i] : i \in a..b}
  <2> DEFINE t == SubSeq(q.columns, a, b)
  <2>1. \A i \in a..b : q.columns[i] \in STRING
    BY <1>1, <1>2
  <2>2. /\ t \in Seq(STRING) /\ Len(t) = (IF a <= b THEN b - a + 1 ELSE 0)
        /\ \A i \in 1..(b - a + 1) : t[i] = q.columns[a + i - 1]
    BY <2>1, SubSeqProperties
  <2>3. DOMAIN t = 1..Len(t)
    BY <2>2
  <2> HIDE DEF t
  <2>4. 1..Len(t) = 1..(b - a + 1)
    BY <2>2
  <2>5. ASSUME NEW x \in ToSet(t) PROVE x \in {q.columns[i] : i \in a..b}
    <3>1. PICK i \in 1..(b - a + 1) : x = q.columns[a + i - 1]
      BY <2>2, <2>3, <2>4 DEF ToSet
    <3>2. a + i - 1 \in a..b
      OBVIOUS
    <3> QED
      BY <3>1, <3>2
  <2>6. ASSUME NEW i \in a..b PROVE q.columns[i] \in ToSet(t)
    <3>1. i - a + 1 \in 1..(b - a + 1) /\ a + (i - a + 1) - 1 = i
      OBVIOUS
    <3>2. t[i - a + 1] = q.columns[i]
      BY <2>2, <3>1
    <3> QED
      BY <2>3, <2>4, <3>1, <3>2 DEF ToSet
  <2>7. a <= b => t # <<>>
    BY <2>2
  <2> QED
    BY <2>2, <2>5, <2>6, <2>7 DEF t
<1>10. StartOf(q, m + 1) \in 1..c /\ c \in 0..c
  BY <1>6, <1>7, <1>8
<1>11. current # <<>> /\ current \in Seq(STRING)
  BY <1>6, <1>9, <1>10
<1>12. PICK all : all = Append(segments, current)
  OBVIOUS
<1>13. /\ Len(all) = m + 1 /\ all[m + 1] = current
       /\ \A k \in 1..m : all[k] = segments[k]
  BY <1>4, <1>5, <1>11, <1>12
<1>14. ASSUME NEW k \in 1..(s + 1)
       PROVE  ToSet(all[k]) = {q.columns[i] : i \in StartOf(q, k)..(StartOf(q, k + 1) - 1)}
  <2>1. StartOf(q, k) \in 1..c /\ StartOf(q, k + 1) - 1 \in 0..c
    <3>1. StartOf(q, k) \in 1..c /\ StartOf(q, k + 1) \in 1..(c + 1)
      BY <1>8
    <3> QED
      BY <3>1
  <2>2. all[k] = SubSeq(q.columns, StartOf(q, k), StartOf(q, k + 1) - 1)
    <3>1. CASE k = m + 1
      <4>1. k + 1 = s + 2 /\ StartOf(q, k + 1) - 1 = c
        BY <1>3, <1>7, <3>1
      <4> QED
        BY <1>6, <1>13, <3>1, <4>1
    <3>2. CASE k # m + 1
      <4>1. k \in 1..m
        BY <1>7, <3>2
      <4> QED
        BY <1>6, <1>13, <4>1
    <3> QED
      BY <3>1, <3>2
  <2> QED
    BY <1>9, <2>1, <2>2
<1>15. SplitRight(q, all)
  BY <1>1, <1>7, <1>13, <1>14 DEF SplitRight
<1> QED
  BY <1>11, <1>12, <1>15
-----------------------------------------------------------------------------
(* Rows: one parent for each key                                           *)

Parents(q) == {ParentOf(q, i, j) : i, j \in 1..Len(q.rows)}

\* What a row adds to its parent is what ParentOf says.
LEMMA AttachesRight ==
  ASSUME NEW q \in JoinResults, NEW segments, SplitRight(q, segments), NEW i \in 1..Len(q.rows)
  PROVE  /\ extractSegment(q.rows[i], segments[1]) = Part(q, q.rows[i], 1)
         /\ \A h : ParentOf(q, h, i).joined = attach(q.rows[i], segments, q.splitOn, q.mappers)
         /\ \A h : ParentOf(q, h, i).key = KeyOf(q, h)
         /\ \A h : ParentOf(q, h, i).self = Part(q, q.rows[h], 1)
<1>1. PICK s \in Nat : s = Len(q.splitOn)
  BY JoinShape
<1>2. ASSUME NEW k \in 1..(s + 1)
      PROVE  extractSegment(q.rows[i], segments[k]) = Part(q, q.rows[i], k)
  BY <1>1 DEF SplitRight, extractSegment, Part
<1>3. 1..(Len(segments) - 1) = 1..s
  <2>1. Len(segments) - 1 = s
    BY <1>1 DEF SplitRight
  <2> QED
    BY <2>1
<1>4. \A k \in 1..s : extractSegment(q.rows[i], segments[k + 1]) = Part(q, q.rows[i], k + 1)
  BY <1>2
<1>5. 1 \in 1..(s + 1)
  OBVIOUS
<1>6. attach(q.rows[i], segments, q.splitOn, q.mappers)
        = [k \in 1..s |-> IF q.rows[i][q.splitOn[k]] = Null \/ k >= q.mappers THEN Null
                          ELSE Part(q, q.rows[i], k + 1)]
  <2>1. \A k \in 1..s : k + 1 > q.mappers <=> k >= q.mappers
    <3>1. q.mappers \in Nat
      BY RowsAssumption
    <3>2. \A k \in 1..s, m \in Nat : k + 1 > m <=> k >= m
      OBVIOUS
    <3> QED
      BY <3>1, <3>2
  <2> QED
    BY <1>3, <1>4, <2>1 DEF attach
<1> QED
  BY <1>1, <1>2, <1>5, <1>6 DEF ParentOf

\* The keys of the parents found are different.
LEMMA ParentsDiffer ==
  ASSUME NEW q, NEW n \in Nat, NEW found \in Seq(Parents(q)), NestedRight(q, n, found),
         NEW k \in DOMAIN found, NEW m \in DOMAIN found, found[k].key = found[m].key
  PROVE  k = m
<1>1. k \in Nat /\ m \in Nat
  OBVIOUS
<1>2. PICK i \in 1..n : FirstRow(q, i) /\ KeyOf(q, i) = found[k].key
  <2>1. PICK i \in 1..n, j \in 1..n : FirstRow(q, i) /\ KeyOf(q, i) = KeyOf(q, j) /\ found[k] = ParentOf(q, i, j)
    BY DEF NestedRight
  <2> QED
    BY <2>1 DEF ParentOf
<1>3. ~(k < m) /\ ~(m < k)
  <2>1. \A a, b \in DOMAIN found : a < b /\ KeyOf(q, i) = found[a].key /\ KeyOf(q, i) = found[b].key => i < i
    BY <1>2 DEF NestedRight
  <2>2. ~(i < i)
    OBVIOUS
  <2> QED
    BY <1>2, <2>1, <2>2
<1> QED
  BY <1>1, <1>3

LEMMA NewParent ==
  ASSUME NEW q, NEW n \in Nat, n < Len(q.rows), Len(q.rows) \in Nat,
         NEW found \in Seq(Parents(q)), NestedRight(q, n, found),
         \A k \in DOMAIN found : found[k].key # KeyOf(q, n + 1)
  PROVE  /\ Append(found, ParentOf(q, n + 1, n + 1)) \in Seq(Parents(q))
         /\ NestedRight(q, n + 1, Append(found, ParentOf(q, n + 1, n + 1)))
<1>1. PICK p : p = ParentOf(q, n + 1, n + 1)
  OBVIOUS
<1>2. p.key = KeyOf(q, n + 1) /\ p \in Parents(q)
  <2>1. n + 1 \in 1..Len(q.rows)
    OBVIOUS
  <2>2. p \in Parents(q)
    BY <1>1, <2>1 DEF Parents
  <2> QED
    BY <1>1, <2>2 DEF ParentOf
<1>3. PICK len \in Nat : len = Len(found) /\ DOMAIN found = 1..len
  OBVIOUS
<1>4. PICK more : more = Append(found, p)
  OBVIOUS
<1>5. /\ more \in Seq(Parents(q)) /\ DOMAIN more = 1..(len + 1)
      /\ more[len + 1] = p /\ \A k \in 1..len : more[k] = found[k]
  BY <1>2, <1>3, <1>4
<1>6. \A k \in 1..(len + 1) : k \in 1..len \/ k = len + 1
  OBVIOUS
<1>7. /\ \A i \in 1..n : \E k \in 1..len : found[k].key = KeyOf(q, i)
      /\ \A k \in 1..len : \E i, j \in 1..n :
           FirstRow(q, i) /\ LastRow(q, n, j) /\ KeyOf(q, i) = KeyOf(q, j) /\ found[k] = ParentOf(q, i, j)
      /\ \A k, m \in 1..len, i, j \in 1..n :
           /\ k < m /\ FirstRow(q, i) /\ KeyOf(q, i) = found[k].key
           /\ FirstRow(q, j) /\ KeyOf(q, j) = found[m].key
           => i < j
  BY <1>3 DEF NestedRight
<1>8. \A i \in 1..n : KeyOf(q, i) # KeyOf(q, n + 1)
  BY <1>3, <1>7
<1>9. \A i \in 1..(n + 1) : i \in 1..n \/ i = n + 1
  OBVIOUS
<1>10. FirstRow(q, n + 1) /\ LastRow(q, n + 1, n + 1)
  BY <1>8, <1>9 DEF FirstRow, LastRow
<1>11. \A i \in 1..(n + 1) : \E k \in 1..(len + 1) : more[k].key = KeyOf(q, i)
  <2>1. ASSUME NEW i \in 1..n PROVE \E k \in 1..(len + 1) : more[k].key = KeyOf(q, i)
    <3>1. PICK k \in 1..len : found[k].key = KeyOf(q, i)
      BY <1>7
    <3>2. k \in 1..(len + 1)
      OBVIOUS
    <3> QED
      BY <1>5, <3>1, <3>2
  <2>2. len + 1 \in 1..(len + 1)
    OBVIOUS
  <2> QED
    BY <1>2, <1>5, <1>9, <2>1, <2>2
<1>12. ASSUME NEW k \in 1..(len + 1)
       PROVE  \E i, j \in 1..(n + 1) : /\ FirstRow(q, i) /\ LastRow(q, n + 1, j)
                                      /\ KeyOf(q, i) = KeyOf(q, j) /\ more[k] = ParentOf(q, i, j)
  <2>1. CASE k = len + 1
    <3>1. n + 1 \in 1..(n + 1)
      OBVIOUS
    <3> QED
      BY <1>1, <1>5, <1>10, <2>1, <3>1
  <2>2. CASE k # len + 1
    <3>1. k \in 1..len
      BY <1>6, <2>2
    <3>2. PICK i \in 1..n, j \in 1..n :
            FirstRow(q, i) /\ LastRow(q, n, j) /\ KeyOf(q, i) = KeyOf(q, j) /\ found[k] = ParentOf(q, i, j)
      BY <1>7, <3>1
    <3>3. \A h \in j..(n + 1) : h \in j..n \/ h = n + 1
      OBVIOUS
    <3>4. LastRow(q, n + 1, j)
      BY <1>8, <3>2, <3>3 DEF LastRow
    <3>5. i \in 1..(n + 1) /\ j \in 1..(n + 1)
      OBVIOUS
    <3> QED
      BY <1>5, <3>1, <3>2, <3>4, <3>5
  <2> QED
    BY <2>1, <2>2
<1>13. ASSUME NEW k \in 1..(len + 1), NEW m \in 1..(len + 1), NEW i \in 1..(n + 1), NEW j \in 1..(n + 1),
              k < m, FirstRow(q, i), KeyOf(q, i) = more[k].key,
              FirstRow(q, j), KeyOf(q, j) = more[m].key
       PROVE  i < j
  <2>1. k \in 1..len
    BY <1>13
  <2>2. more[k].key # KeyOf(q, n + 1)
    BY <1>3, <1>5, <2>1
  <2>3. i \in 1..n
    BY <1>9, <1>13, <2>2
  <2>4. CASE m = len + 1
    <3>1. j = n + 1
      BY <1>2, <1>5, <1>8, <1>9, <1>13, <2>4
    <3> QED
      BY <2>3, <3>1
  <2>5. CASE m # len + 1
    <3>1. m \in 1..len
      BY <1>6, <2>5
    <3>2. j \in 1..n
      BY <1>3, <1>5, <1>9, <1>13, <3>1
    <3>3. KeyOf(q, i) = found[k].key /\ KeyOf(q, j) = found[m].key
      BY <1>5, <1>13, <2>1, <3>1
    <3> QED
      BY <1>7, <1>13, <2>1, <2>3, <3>1, <3>2, <3>3
  <2> QED
    BY <2>4, <2>5
<1>14. NestedRight(q, n + 1, more)
  BY <1>5, <1>11, <1>12, <1>13 DEF NestedRight
<1> QED
  BY <1>1, <1>4, <1>5, <1>14

LEMMA OldParent ==
  ASSUME NEW q, NEW n \in Nat, n < Len(q.rows), Len(q.rows) \in Nat,
         NEW found \in Seq(Parents(q)), NestedRight(q, n, found),
         NEW at \in DOMAIN found, found[at].key = KeyOf(q, n + 1), NEW joined,
         \A h : ParentOf(q, h, n + 1).joined = joined
  PROVE  /\ [found EXCEPT ![at].joined = joined] \in Seq(Parents(q))
         /\ NestedRight(q, n + 1, [found EXCEPT ![at].joined = joined])
<1>1. PICK len \in Nat : len = Len(found) /\ DOMAIN found = 1..len
  OBVIOUS
<1>2. PICK more : more = [found EXCEPT ![at].joined = joined]
  OBVIOUS
<1>3. /\ \A i \in 1..n : \E k \in 1..len : found[k].key = KeyOf(q, i)
      /\ \A k \in 1..len : \E i, j \in 1..n :
           FirstRow(q, i) /\ LastRow(q, n, j) /\ KeyOf(q, i) = KeyOf(q, j) /\ found[k] = ParentOf(q, i, j)
      /\ \A k, m \in 1..len, i, j \in 1..n :
           /\ k < m /\ FirstRow(q, i) /\ KeyOf(q, i) = found[k].key
           /\ FirstRow(q, j) /\ KeyOf(q, j) = found[m].key
           => i < j
  BY <1>1 DEF NestedRight
<1>4. PICK i0 \in 1..n, j0 \in 1..n :
        /\ FirstRow(q, i0) /\ LastRow(q, n, j0) /\ KeyOf(q, i0) = KeyOf(q, j0)
        /\ found[at] = ParentOf(q, i0, j0)
  BY <1>1, <1>3
<1>5. KeyOf(q, i0) = KeyOf(q, n + 1)
  BY <1>4 DEF ParentOf
<1>6. [found[at] EXCEPT !.joined = joined] = ParentOf(q, i0, n + 1)
  <2>1. \A a, b, c : [[key |-> a, self |-> b, joined |-> c] EXCEPT !.joined = joined]
                       = [key |-> a, self |-> b, joined |-> joined]
    OBVIOUS
  <2>2. /\ \E c : found[at] = [key |-> KeyOf(q, i0), self |-> Part(q, q.rows[i0], 1), joined |-> c]
        /\ \E c : /\ ParentOf(q, i0, n + 1) = [key |-> KeyOf(q, i0), self |-> Part(q, q.rows[i0], 1), joined |-> c]
                  /\ ParentOf(q, i0, n + 1).joined = c
    BY <1>4 DEF ParentOf
  <2> QED
    BY <2>1, <2>2
<1>7. /\ DOMAIN more = 1..len /\ more[at] = ParentOf(q, i0, n + 1)
      /\ \A k \in 1..len : k # at => more[k] = found[k]
  BY <1>1, <1>2, <1>6
<1>8. \A k \in 1..len : more[k].key = found[k].key
  BY <1>5, <1>7 DEF ParentOf
<1>9. more \in Seq(Parents(q))
  <2>1. i0 \in 1..Len(q.rows) /\ n + 1 \in 1..Len(q.rows)
    OBVIOUS
  <2>2. ParentOf(q, i0, n + 1) \in Parents(q)
    BY <2>1 DEF Parents
  <2>3. \A k \in 1..len : found[k] \in Parents(q)
    BY <1>1
  <2>4. \A k \in 1..len : more[k] \in Parents(q)
    BY <1>7, <2>2, <2>3
  <2>5. more = [k \in 1..len |-> more[k]]
    BY <1>1, <1>2
  <2>6. more \in [1..len -> Parents(q)]
    BY <2>4, <2>5
  <2> QED
    BY <2>6, SeqDef
<1>10. \A i \in 1..(n + 1) : i \in 1..n \/ i = n + 1
  OBVIOUS
<1>11. \A i \in 1..(n + 1) : \E k \in 1..len : more[k].key = KeyOf(q, i)
  <2>1. at \in 1..len /\ more[at].key = KeyOf(q, n + 1)
    BY <1>1, <1>8
  <2> QED
    BY <1>3, <1>8, <1>10, <2>1
<1>12. ~FirstRow(q, n + 1)
  <2>1. i0 \in 1..(n + 1) /\ i0 # n + 1
    OBVIOUS
  <2> QED
    BY <1>5, <2>1 DEF FirstRow
<1>13. ASSUME NEW k \in 1..len
       PROVE  \E i, j \in 1..(n + 1) : /\ FirstRow(q, i) /\ LastRow(q, n + 1, j)
                                      /\ KeyOf(q, i) = KeyOf(q, j) /\ more[k] = ParentOf(q, i, j)
  <2>1. CASE k = at
    <3>1. i0 \in 1..(n + 1) /\ n + 1 \in 1..(n + 1) /\ (n + 1)..(n + 1) = {n + 1}
      OBVIOUS
    <3>2. LastRow(q, n + 1, n + 1)
      BY <3>1 DEF LastRow
    <3> QED
      BY <1>4, <1>5, <1>7, <2>1, <3>1, <3>2
  <2>2. CASE k # at
    <3>1. PICK i \in 1..n, j \in 1..n :
            FirstRow(q, i) /\ LastRow(q, n, j) /\ KeyOf(q, i) = KeyOf(q, j) /\ found[k] = ParentOf(q, i, j)
      BY <1>3
    <3>2. found[k].key # KeyOf(q, n + 1)
      BY <1>1, <2>2, ParentsDiffer
    <3>3. KeyOf(q, j) # KeyOf(q, n + 1)
      BY <3>1, <3>2 DEF ParentOf
    <3>4. \A h \in j..(n + 1) : h \in j..n \/ h = n + 1
      OBVIOUS
    <3>5. LastRow(q, n + 1, j)
      BY <3>1, <3>3, <3>4 DEF LastRow
    <3>6. i \in 1..(n + 1) /\ j \in 1..(n + 1)
      OBVIOUS
    <3> QED
      BY <1>7, <2>2, <3>1, <3>5, <3>6
  <2> QED
    BY <2>1, <2>2
<1>14. ASSUME NEW k \in 1..len, NEW m \in 1..len, NEW i \in 1..(n + 1), NEW j \in 1..(n + 1),
              k < m, FirstRow(q, i), KeyOf(q, i) = more[k].key,
              FirstRow(q, j), KeyOf(q, j) = more[m].key
       PROVE  i < j
  <2>1. i \in 1..n /\ j \in 1..n
    BY <1>10, <1>12, <1>14
  <2>2. KeyOf(q, i) = found[k].key /\ KeyOf(q, j) = found[m].key
    BY <1>8, <1>14
  <2> QED
    BY <1>3, <1>14, <2>1, <2>2
<1>15. NestedRight(q, n + 1, more)
  BY <1>7, <1>11, <1>13, <1>14 DEF NestedRight
<1> QED
  BY <1>2, <1>9, <1>15

-----------------------------------------------------------------------------
(* Rows: the invariant                                                     *)

\* What the two loops have so far.
RowsInv ==
  /\ RowsExact
  /\ mapping.of = "segments" =>
       /\ mapping = [of |-> "segments", asked |-> mapping.asked, at |-> mapping.at,
                     segments |-> mapping.segments, current |-> mapping.current]
       /\ mapping.asked \in JoinResults /\ mapping.at \in 0..Len(mapping.asked.columns)
       /\ Segmented(mapping.asked, mapping.at, mapping.segments, mapping.current)
  /\ mapping.of = "nesting" =>
       /\ mapping = [of |-> "nesting", asked |-> mapping.asked, at |-> mapping.at,
                     segments |-> mapping.segments, found |-> mapping.found]
       /\ mapping.asked \in JoinResults /\ mapping.at \in 0..Len(mapping.asked.rows)
       /\ mapping.asked.mappers # 0 /\ SplitRight(mapping.asked, mapping.segments)
       /\ mapping.found \in Seq(Parents(mapping.asked))

LEMMA RowsStep ==
  ASSUME RowsInv, [RowsNext]_mapping
  PROVE  RowsInv'
<1>1. CASE UNCHANGED mapping
  BY <1>1 DEF RowsInv, RowsExact
<1>2. ASSUME NEW driver \in Drivers, NEW w \in HeldRows, NEW strict \in BOOLEAN, MapsRow(driver, w, strict)
      PROVE  RowsInv'
  <2>1. PICK got \in compileMapper(w.schema, Answered(driver, w.schema, w.row), strict) :
          mapping' = [of |-> "mapped", schema |-> w.schema, held |-> w.row, strict |-> strict,
                      driver |-> driver, got |-> got]
    BY <1>2 DEF MapsRow
  <2>2. mapping'.of = "mapped" /\ MappedRight(mapping')
    BY <2>1, MapperRight
  <2> QED
    BY <2>2 DEF RowsInv, RowsExact
<1>3. ASSUME NEW q \in JoinResults, NEW i \in DOMAIN q.rows, BuildsObject(q.columns, q.rows[i])
      PROVE  RowsInv'
  <2>1. mapping'.of = "built"
    BY <1>3 DEF BuildsObject
  <2>2. /\ mapping'.columns = q.columns /\ mapping'.row = q.rows[i]
        /\ mapping'.instance = [c \in ToSet(q.columns) |-> q.rows[i][c]]
        /\ mapping'.arguments = [k \in DOMAIN q.columns |-> q.rows[i][q.columns[k]]]
    BY <1>3 DEF BuildsObject, propertyInjectionMapper, constructorMapper
  <2>3. \A k \in DOMAIN q.columns : q.columns[k] \in ToSet(q.columns)
    BY DEF ToSet
  <2> QED
    BY <2>1, <2>2, <2>3 DEF RowsInv, RowsExact
<1>4. ASSUME NEW rows \in QueryResults, Answers(rows)
      PROVE  RowsInv'
  <2>1. /\ mapping'.of = "answered" /\ mapping'.rows = rows
        /\ mapping'.plain = mapping'.prepared
        /\ mapping'.lenient = querySingle(rows, FALSE) /\ mapping'.plain[3] = querySingle(rows, TRUE)
    BY <1>4, AnswersAlike DEF Answers
  <2> QED
    BY <2>1, AnswersAlike DEF RowsInv, RowsExact
<1>5. ASSUME NEW q \in JoinResults, SplitsNothing(q)
      PROVE  RowsInv'
  <2>1. /\ mapping'.of = "nested" /\ mapping'.asked = q /\ mapping'.at = 0 /\ mapping'.found = <<>>
        /\ q.rows = <<>> /\ Len(q.rows) = 0
    BY <1>5 DEF SplitsNothing
  <2>2. NestedRight(q, 0, <<>>)
    BY DEF NestedRight
  <2> QED
    BY <2>1, <2>2 DEF RowsInv, RowsExact
<1>6. ASSUME NEW q \in JoinResults, Splits(q)
      PROVE  RowsInv'
  <2>1. mapping' = [of |-> "segments", asked |-> q, at |-> 0, segments |-> <<>>, current |-> <<>>]
    BY <1>6 DEF Splits
  <2>2. 0 \in 0..Len(q.columns)
    BY JoinShape
  <2> QED
    BY <2>1, <2>2, SegmentsStart DEF RowsInv, RowsExact
<1>7. CASE SplitsColumn
  <2> DEFINE q == mapping.asked
             n == mapping.at
             col == q.columns[n + 1]
  <2>1. /\ mapping = [of |-> "segments", asked |-> q, at |-> n,
                      segments |-> mapping.segments, current |-> mapping.current]
        /\ q \in JoinResults /\ n \in 0..Len(q.columns) /\ n < Len(q.columns)
        /\ Segmented(q, n, mapping.segments, mapping.current)
    BY <1>7 DEF SplitsColumn, RowsInv
  <2>2. n \in Nat /\ n + 1 \in 0..Len(q.columns)
    <3>1. Len(q.columns) \in Nat
      BY <2>1, JoinShape
    <3> QED
      BY <2>1, <3>1
  <2>3. CASE col \in ToSet(q.splitOn) /\ mapping.current # <<>>
    <3>1. mapping' = [of |-> "segments", asked |-> q, at |-> n + 1,
                      segments |-> Append(mapping.segments, mapping.current), current |-> <<col>>]
      BY <1>7, <2>1, <2>3 DEF SplitsColumn
    <3>2. Segmented(q, n + 1, Append(mapping.segments, mapping.current), <<col>>)
      BY <2>1, <2>2, <2>3, SegmentsStep
    <3> QED
      BY <2>1, <2>2, <3>1, <3>2 DEF RowsInv, RowsExact
  <2>4. CASE ~(col \in ToSet(q.splitOn) /\ mapping.current # <<>>)
    <3>1. mapping' = [of |-> "segments", asked |-> q, at |-> n + 1,
                      segments |-> mapping.segments, current |-> Append(mapping.current, col)]
      BY <1>7, <2>1, <2>4 DEF SplitsColumn
    <3>2. Segmented(q, n + 1, mapping.segments, Append(mapping.current, col))
      BY <2>1, <2>2, <2>4, SegmentsStep
    <3> QED
      BY <2>1, <2>2, <3>1, <3>2 DEF RowsInv, RowsExact
  <2> QED
    BY <2>3, <2>4
<1>8. CASE EndsColumns
  <2> DEFINE q == mapping.asked
             all == IF mapping.current = <<>> THEN mapping.segments
                    ELSE Append(mapping.segments, mapping.current)
  <2>1. q \in JoinResults /\ Segmented(q, Len(q.columns), mapping.segments, mapping.current)
    BY <1>8 DEF EndsColumns, RowsInv
  <2>2. mapping' = [of |-> IF q.mappers = 0 THEN "nested" ELSE "nesting", asked |-> q, at |-> 0,
                    found |-> <<>>, segments |-> all]
    BY <1>8 DEF EndsColumns
  <2>3. SplitRight(q, all)
    BY <2>1, SegmentsEnd
  <2>4. NestedRight(q, 0, <<>>) /\ <<>> \in Seq(Parents(q))
    BY DEF NestedRight
  <2>5. 0 \in 0..Len(q.rows)
    <3>1. Len(q.rows) \in Nat
      BY <2>1, RowsAssumption
    <3> QED
      BY <3>1
  <2> HIDE DEF q, all
  <2> QED
    BY <2>1, <2>2, <2>3, <2>4, <2>5 DEF RowsInv, RowsExact
<1>9. CASE NestsRow
  <2> DEFINE q == mapping.asked
             n == mapping.at
             row == q.rows[n + 1]
             joined == attach(row, mapping.segments, q.splitOn, q.mappers)
  <2>1. /\ mapping = [of |-> "nesting", asked |-> q, at |-> n,
                      segments |-> mapping.segments, found |-> mapping.found]
        /\ q \in JoinResults /\ n \in 0..Len(q.rows) /\ n < Len(q.rows)
        /\ SplitRight(q, mapping.segments) /\ mapping.found \in Seq(Parents(q))
        /\ NestedRight(q, n, mapping.found)
    BY <1>9 DEF NestsRow, RowsInv, RowsExact
  <2>2. n \in Nat /\ Len(q.rows) \in Nat /\ n + 1 \in 0..Len(q.rows) /\ n + 1 \in 1..Len(q.rows)
    <3>1. Len(q.rows) \in Nat
      BY <2>1, RowsAssumption
    <3> QED
      BY <2>1, <3>1
  <2>3. /\ extractSegment(row, mapping.segments[1]) = Part(q, row, 1)
        /\ \A h : ParentOf(q, h, n + 1).joined = joined
    BY <2>1, <2>2, AttachesRight
  <2>4. CASE {k \in DOMAIN mapping.found : mapping.found[k].key = KeyOf(q, n + 1)} = {}
    <3>1. mapping' = [of |-> "nesting", asked |-> q, at |-> n + 1, segments |-> mapping.segments,
                      found |-> Append(mapping.found,
                        [key |-> KeyOf(q, n + 1), self |-> extractSegment(row, mapping.segments[1]),
                         joined |-> joined])]
      BY <1>9, <2>1, <2>4 DEF NestsRow
    <3>2. [key |-> KeyOf(q, n + 1), self |-> extractSegment(row, mapping.segments[1]), joined |-> joined]
            = ParentOf(q, n + 1, n + 1)
      BY <2>3 DEF ParentOf
    <3>3. /\ Append(mapping.found, ParentOf(q, n + 1, n + 1)) \in Seq(Parents(q))
          /\ NestedRight(q, n + 1, Append(mapping.found, ParentOf(q, n + 1, n + 1)))
      BY <2>1, <2>2, <2>4, NewParent
    <3> QED
      BY <2>1, <2>2, <3>1, <3>2, <3>3 DEF RowsInv, RowsExact
  <2>5. ASSUME NEW k \in DOMAIN mapping.found, mapping.found[k].key = KeyOf(q, n + 1),
               mapping' = [mapping EXCEPT !.at = n + 1, !.found = [@ EXCEPT ![k].joined = joined]]
        PROVE  RowsInv'
    <3>1. mapping' = [of |-> "nesting", asked |-> q, at |-> n + 1, segments |-> mapping.segments,
                      found |-> [mapping.found EXCEPT ![k].joined = joined]]
      <4>2. PICK g : g = [mapping.found EXCEPT ![k].joined = joined]
        OBVIOUS
      <4>3. mapping' = [[mapping EXCEPT !.at = n + 1] EXCEPT !.found = g]
        BY <2>1, <2>5, <4>2
      <4>4. PICK s : s = [mapping EXCEPT !.at = n + 1]
        OBVIOUS
      <4>5. s = [of |-> "nesting", asked |-> q, at |-> n + 1,
                 segments |-> mapping.segments, found |-> mapping.found]
        BY <2>1, <4>4
      <4>6. [s EXCEPT !.found = g] = [of |-> "nesting", asked |-> q, at |-> n + 1,
                                      segments |-> mapping.segments, found |-> g]
        BY <4>5
      <4> QED
        BY <4>2, <4>3, <4>4, <4>6
    <3>2. /\ [mapping.found EXCEPT ![k].joined = joined] \in Seq(Parents(q))
          /\ NestedRight(q, n + 1, [mapping.found EXCEPT ![k].joined = joined])
      BY <2>1, <2>2, <2>3, <2>5, OldParent
    <3> QED
      BY <2>1, <2>2, <3>1, <3>2 DEF RowsInv, RowsExact
  <2> QED
    BY <1>9, <2>4, <2>5 DEF NestsRow
<1>10. CASE EndsRows
  <2>1. /\ mapping'.of = "nested" /\ mapping'.asked = mapping.asked
        /\ mapping'.at = mapping.at /\ mapping'.found = mapping.found
    <3>1. mapping = [of |-> "nesting", asked |-> mapping.asked, at |-> mapping.at,
                     segments |-> mapping.segments, found |-> mapping.found]
      BY <1>10 DEF EndsRows, RowsInv
    <3> QED
      BY <1>10, <3>1 DEF EndsRows
  <2> QED
    BY <1>10, <2>1 DEF EndsRows, RowsInv, RowsExact
<1>11. CASE RowsDone
  <2>1. mapping'.of = "nothing"
    BY <1>11 DEF RowsDone, Nothing
  <2> QED
    BY <2>1 DEF RowsInv, RowsExact
<1> QED
  BY <1>1, <1>2, <1>3, <1>4, <1>5, <1>6, <1>7, <1>8, <1>9, <1>10, <1>11 DEF RowsNext

\* Whatever is written, joined or asked for, the caller gets it as it was.
THEOREM RowsAlwaysExact == RowsSpec => []RowsExact
<1>1. RowsInit => RowsInv
  BY DEF RowsInit, RowsInv, RowsExact, Nothing
<1>2. RowsInv /\ [RowsNext]_mapping => RowsInv'
  BY RowsStep
<1>3. RowsInv => RowsExact
  BY DEF RowsInv
<1> QED
  BY <1>1, <1>2, <1>3, PTL DEF RowsSpec
=============================================================================
