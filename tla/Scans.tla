--------------------------------- MODULE Scans ---------------------------------
(***************************************************************************)
(* Reading a table piece by piece while others write it: the cursor of     *)
(* stream() (async/cursor.ts, api/query.ts), keyset pages                  *)
(* (pagination/cursor.ts) and offset pages (pagination/offset.ts).         *)
(*                                                                         *)
(* A query runs at one moment between its call and its answer; what it     *)
(* answers is what the table holds at that moment, ordered by the column   *)
(* the scan is about.  Rows may share a value of that column.              *)
(***************************************************************************)
EXTENDS Integers, Sequences, FiniteSets

CONSTANTS Rows,        \* the rows there may ever be, numbers
          Key,         \* the ordered column of each row, a number from 1
          None,
          Readers,     \* who calls next() on the one cursor
          Sizes,       \* the numbers of rows a page is asked to have, 0 among them
          MaxPage,     \* bound on the page offsetPage() is asked for
          MaxWrites    \* bound on writes
ASSUME ScanAssumption ==
  /\ Rows \subseteq Nat /\ IsFiniteSet(Rows)
  /\ Key \in [Rows -> Nat \ {0}] /\ None \notin Nat
  /\ Sizes \subseteq Nat /\ MaxPage \in Nat /\ MaxWrites \in Nat

VARIABLES table, writes,
          cursor,      \* [rows, index, fetched, closed] of the Cursor object
          reading,     \* per reader: [at: "idle", "asked" or "ran", rows]
          handed,      \* the rows next() returned, in that order
          fetches,     \* how many of its queries have run, at which writes
          keyset,      \* the keyset scan: [direction, limit, cursor, seen, last, kept]
          offset       \* the offset call: [page, pageSize, stage, rows, total, at, answer]

vars == <<table, writes, cursor, reading, handed, fetches, keyset, offset>>

Before(r, s) == Key[r] < Key[s] \/ (Key[r] = Key[s] /\ r < s)
Ascending(S) ==
  [n \in 1..Cardinality(S) |-> CHOOSE r \in S : Cardinality({s \in S : Before(s, r)}) = n - 1]
Descending(S) == [n \in 1..Cardinality(S) |-> Ascending(S)[Cardinality(S) + 1 - n]]
Ordered(direction, S) == IF direction = "asc" THEN Ascending(S) ELSE Descending(S)
First(seq, n) == SubSeq(seq, 1, IF Len(seq) < n THEN Len(seq) ELSE n)

Idle == [at |-> "idle", rows |-> <<>>]
Fresh == [direction |-> None, limit |-> 0, cursor |-> None, seen |-> <<>>, last |-> FALSE, kept |-> {}]
Init ==
  /\ table \in SUBSET Rows /\ writes = 0
  /\ cursor = [rows |-> <<>>, index |-> 0, fetched |-> FALSE, closed |-> FALSE]
  /\ reading = [r \in Readers |-> Idle]
  /\ handed = <<>> /\ fetches = {}
  /\ keyset = Fresh
  /\ offset = [page |-> 0, pageSize |-> 0, stage |-> {}, rows |-> <<>>,
               total |-> 0, at |-> {}, answer |-> None]

\* Another client inserts or deletes a row; "kept" are those that were there
\* all through the keyset scan.
Writes(row) ==
  /\ writes < MaxWrites
  /\ writes' = writes + 1
  /\ table' = IF row \in table THEN table \ {row} ELSE table \union {row}
  /\ keyset' = [keyset EXCEPT !.kept = @ \intersect table']
  /\ UNCHANGED <<cursor, reading, handed, fetches, offset>>

-----------------------------------------------------------------------------
(* Cursor *)

\* next() of a closed cursor, or after the last row.
Exhausted == cursor.closed \/ (cursor.fetched /\ cursor.index >= Len(cursor.rows))

\* What follows the fetch: the row at the index, if there is one.
Delivers(c) ==
  IF c.index < Len(c.rows)
  THEN /\ cursor' = [c EXCEPT !.index = @ + 1]
       /\ handed' = Append(handed, c.rows[c.index + 1])
  ELSE cursor' = c /\ handed' = handed

\* next() without a fetch, from the rows that are there.
NextFetched(r) ==
  /\ reading[r].at = "idle" /\ ~Exhausted /\ cursor.fetched
  /\ Delivers(cursor)
  /\ UNCHANGED <<table, writes, reading, fetches, keyset, offset>>

\* next() before the rows are there asks for them, however many asked before.
NextAsks(r) ==
  /\ reading[r].at = "idle" /\ ~cursor.closed /\ ~cursor.fetched
  /\ reading' = [reading EXCEPT ![r].at = "asked"]
  /\ UNCHANGED <<table, writes, cursor, handed, fetches, keyset, offset>>

\* The query of that next() runs ...
NextRuns(r) ==
  /\ reading[r].at = "asked"
  /\ reading' = [reading EXCEPT ![r] = [at |-> "ran", rows |-> Ascending(table)]]
  /\ fetches' = fetches \union {writes}
  /\ UNCHANGED <<table, writes, cursor, handed, keyset, offset>>

\* Mutant: every fetch starts at the first row again.
AnswerRewinds(r) ==
  /\ reading[r].at = "ran"
  /\ reading' = [reading EXCEPT ![r] = Idle]
  /\ Delivers([cursor EXCEPT !.rows = reading[r].rows, !.fetched = TRUE, !.index = 0])
  /\ UNCHANGED <<table, writes, fetches, keyset, offset>>

\* ... and its answer replaces the rows, also of a cursor closed meanwhile.
NextAnswered(r) ==
  /\ reading[r].at = "ran"
  /\ reading' = [reading EXCEPT ![r] = Idle]
  /\ Delivers([cursor EXCEPT !.rows = reading[r].rows, !.fetched = TRUE])
  /\ UNCHANGED <<table, writes, fetches, keyset, offset>>

\* The query fails: next() throws and the rows are still to be fetched.
NextFails(r) ==
  /\ reading[r].at = "asked"
  /\ reading' = [reading EXCEPT ![r] = Idle]
  /\ UNCHANGED <<table, writes, cursor, handed, fetches, keyset, offset>>

close ==
  /\ ~cursor.closed
  /\ cursor' = [cursor EXCEPT !.closed = TRUE, !.rows = <<>>]
  /\ UNCHANGED <<table, writes, reading, handed, fetches, keyset, offset>>

\* stream(): one consumer takes row after row and closes at the end, at an
\* error and when it stops early.
stream(r) ==
  \/ NextFetched(r) \/ NextAsks(r) \/ NextRuns(r) \/ NextAnswered(r) \/ NextFails(r)
  \/ reading[r].at = "idle" /\ close

-----------------------------------------------------------------------------
(* Keyset pages *)

\* Mutant: a page starts with the row the last one ended with.
BeyondOrAt(row, direction, payload) ==
  IF direction = "asc" THEN Key[row] >= payload ELSE Key[row] =< payload

\* The condition of a page: rows beyond the value in the cursor.
Beyond(row, direction, payload) ==
  IF direction = "asc" THEN Key[row] > payload ELSE Key[row] < payload

\* One call asks for a row more than the page has; that row says whether there
\* is a next page and is not returned.  A page of no rows has no last row to
\* make a cursor of.
cursorPage(direction, payload, limit) ==
  LET matching == {r \in table : payload # None => Beyond(r, direction, payload)}
      rawRows == First(Ordered(direction, matching), limit + 1)
      hasNext == Len(rawRows) > limit
      rows == First(rawRows, limit)
  IN [rows |-> rows, hasNext |-> hasNext,
      nextCursor |-> IF hasNext /\ rows # <<>> THEN Key[rows[Len(rows)]] ELSE None,
      prevCursor |-> IF payload # None /\ rows # <<>> THEN Key[rows[1]] ELSE None]

StartsKeyset(direction, limit) ==
  /\ keyset.direction = None
  /\ keyset' = [Fresh EXCEPT !.direction = direction, !.limit = limit, !.kept = table]
  /\ UNCHANGED <<table, writes, cursor, reading, handed, fetches, offset>>

NextPage ==
  /\ keyset.direction # None /\ ~keyset.last
  /\ LET page == cursorPage(keyset.direction, keyset.cursor, keyset.limit)
     IN keyset' = [keyset EXCEPT !.seen = @ \o page.rows, !.cursor = page.nextCursor,
                                 !.last = ~page.hasNext]
  /\ UNCHANGED <<table, writes, cursor, reading, handed, fetches, offset>>

-----------------------------------------------------------------------------
(* Offset pages *)

offsetPage(page, pageSize) ==
  /\ offset.page = 0
  /\ offset' = [offset EXCEPT !.page = page, !.pageSize = pageSize, !.stage = {"rows", "count"}]
  /\ UNCHANGED <<table, writes, cursor, reading, handed, fetches, keyset>>

\* The two queries run in either order, other clients write between them.
OffsetRows ==
  /\ "rows" \in offset.stage
  /\ LET skip == (offset.page - 1) * offset.pageSize
         all == Ascending(table)
     IN offset' = [offset EXCEPT !.stage = @ \ {"rows"}, !.at = @ \union {writes},
                     !.rows = SubSeq(all, skip + 1, Len(First(all, skip + offset.pageSize)))]
  /\ UNCHANGED <<table, writes, cursor, reading, handed, fetches, keyset>>
OffsetCount ==
  /\ "count" \in offset.stage
  /\ offset' = [offset EXCEPT !.stage = @ \ {"count"}, !.at = @ \union {writes},
                              !.total = Cardinality(table)]
  /\ UNCHANGED <<table, writes, cursor, reading, handed, fetches, keyset>>

\* Mutant: the last page that is not full is not counted.
FullPages(total, pageSize) == IF pageSize > 0 THEN total \div pageSize ELSE 0

totalPages(total, pageSize) ==
  IF pageSize > 0 THEN (total + pageSize - 1) \div pageSize ELSE 0
OffsetAnswers ==
  /\ offset.page # 0 /\ offset.stage = {} /\ offset.answer = None
  /\ LET pages == totalPages(offset.total, offset.pageSize)
     IN offset' = [offset EXCEPT !.answer = [totalPages |-> pages, hasNext |-> offset.page < pages,
                                             hasPrev |-> offset.page > 1]]
  /\ UNCHANGED <<table, writes, cursor, reading, handed, fetches, keyset>>

Next ==
  \/ \E row \in Rows : Writes(row)
  \/ \E r \in Readers : stream(r)
  \/ \E direction \in {"asc", "desc"}, limit \in Sizes : StartsKeyset(direction, limit)
  \/ NextPage
  \/ \E page \in 1..MaxPage, pageSize \in Sizes : offsetPage(page, pageSize)
  \/ OffsetRows \/ OffsetCount \/ OffsetAnswers

Spec == Init /\ [][Next]_vars

-----------------------------------------------------------------------------

\* Readers that share a cursor never get a row twice, and get rows in order
\* and from the first on, as long as nobody writes between the fetches of those
\* that asked before the first answer (cursor.ts: each of them fetches again
\* and replaces the rows under the one index).
CursorOnce ==
  Cardinality(fetches) = 1 =>
    /\ \A i, j \in DOMAIN handed : i < j => Before(handed[i], handed[j])
    /\ cursor.rows # <<>> => handed = First(cursor.rows, cursor.index)

\* A keyset scan that ended has every row that was there all along, once and in
\* order.  Only a row with the same key as one it has may be missing: the
\* cursor keeps the key of the last row and nothing to tell its equals apart
\* (pagination/cursor.ts).
KeysetComplete ==
  /\ \A i, j \in DOMAIN keyset.seen : i < j =>
       IF keyset.direction = "asc" THEN Before(keyset.seen[i], keyset.seen[j])
                                   ELSE Before(keyset.seen[j], keyset.seen[i])
  /\ keyset.last => \A row \in keyset.kept :
       \E i \in DOMAIN keyset.seen : Key[keyset.seen[i]] = Key[row]

\* An offset page says that there is a next one exactly when it counted rows
\* after its own, and when nobody wrote between its two queries its rows are those
\* the page numbers promise.  A page size of 0 has no rows and no pages: then it
\* says that there is no next page, however many rows it counted (offset.ts).
OffsetHonest ==
  offset.answer # None =>
    IF offset.pageSize = 0
    THEN offset.answer.totalPages = 0 /\ ~offset.answer.hasNext /\ offset.rows = <<>>
    ELSE /\ offset.answer.hasNext <=> offset.total > offset.page * offset.pageSize
         /\ Cardinality(offset.at) = 1 =>
              /\ offset.page <= offset.answer.totalPages <=> offset.rows # <<>>
              /\ offset.answer.hasNext => Len(offset.rows) = offset.pageSize
=============================================================================
