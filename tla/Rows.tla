--------------------------------- MODULE Rows ---------------------------------
(***************************************************************************)
(* From what a driver returns to what the caller gets: type handlers, the  *)
(* compiled mapper of a table, class mappers, the nesting of joined rows,  *)
(* and the single, first and scalar answers.                               *)
(*                                                                         *)
(* A value is a record [is, of]: the JavaScript type and what it denotes.  *)
(* A row is a function of its columns, the list of columns is kept beside. *)
(*                                                                         *)
(* None of these functions awaits: mapping is the one that runs, with what *)
(* it has so far, and a step is one iteration of its loop.                 *)
(***************************************************************************)
EXTENDS Naturals, Sequences, FiniteSets, SequencesExt

CONSTANTS Contents,     \* what values denote
          Nearest,      \* the double nearest to a number
          HeldRows,     \* [schema, row]: a table, columns to [dbType, isNullable], and
                        \* what is selected of a row that some table holds
          JoinResults,  \* results of joins: [columns, splitOn, rows], and how many mappers
                        \* splitAndMap() gets
          QueryResults  \* results of queries: sequences of rows, as lists of cells

Null == [is |-> "null", of |-> "null"]
Value(is, of) == [is |-> is, of |-> of]

BUILT_IN_HANDLERS ==
  [int |-> "number", bigint |-> "number", smallint |-> "number", float |-> "number",
   decimal |-> "number", boolean |-> "boolean", text |-> "string", nvarchar |-> "string",
   varchar |-> "string", char |-> "string", datetime |-> "date", date |-> "date",
   time |-> "string", uuid |-> "string", blob |-> "buffer", json |-> "json", array |-> "identity"]
handlerOf(dbType) ==
  IF dbType \in DOMAIN BUILT_IN_HANDLERS THEN BUILT_IN_HANDLERS[dbType] ELSE "identity"

\* What a column holds, by its handler: a json column a text as well as an object.
Held == [number |-> {"number"}, boolean |-> {"boolean"}, string |-> {"string"}, date |-> {"date"},
         buffer |-> {"buffer"}, json |-> {"object", "string"}, identity |-> {"array", "string"}]
TypedValue(dbType) ==
  [is : Held[handlerOf(dbType)],
   of : IF handlerOf(dbType) = "boolean" THEN {"true", "false"} ELSE Contents]
Cells == [is : {"number", "string"}, of : Contents] \union {Null}

\* Columns to split at are columns of the result after its first, in its order.
ASSUME RowsAssumption ==
  /\ \A w \in HeldRows : \A c \in DOMAIN w.schema :
       c \in DOMAIN w.row => w.row[c] \in TypedValue(w.schema[c].dbType) \union {Null}
  /\ \A q \in JoinResults :
       /\ q.columns \in Seq(STRING) /\ Len(q.columns) > 0 /\ IsInjective(q.columns)
       /\ q.splitOn \in Seq(STRING) /\ q.mappers \in Nat
       /\ \A k \in DOMAIN q.splitOn : \E i \in 2..Len(q.columns) : q.columns[i] = q.splitOn[k]
       /\ \A j, k \in DOMAIN q.splitOn, p, r \in DOMAIN q.columns :
            j < k /\ q.columns[p] = q.splitOn[j] /\ q.columns[r] = q.splitOn[k] => p < r
       /\ q.rows \in Seq([ToSet(q.columns) -> Cells])
  /\ QueryResults \subseteq Seq(Seq(Cells))

VARIABLE mapping  \* what runs: [of, ...] with what it has so far

\* An error, null or undefined in place of a value or a row.
Refusal(code) == [refused |-> code]

Nothing == [of |-> "nothing"]
RowsInit == mapping = Nothing

-----------------------------------------------------------------------------
(* core/type-handler.ts *)

stringHandler(raw) == Value("string", raw.of)
numberHandler(raw) == Value("number", IF raw.is = "number" THEN raw.of ELSE Nearest[raw.of])
\* A number is false when it is 0, a string is true when it says so.
booleanHandler(raw) ==
  Value("boolean", CASE raw.is = "number" -> IF raw.of = "0" THEN "false" ELSE "true"
                     [] raw.is = "string" -> IF raw.of \in {"true", "1"} THEN "true" ELSE "false"
                     [] OTHER -> raw.of)
\* A text denotes the moment, or the bytes, that are read from it.
dateHandler(raw) == Value("date", raw.of)
bufferHandler(raw) == Value("buffer", raw.of)
\* Every string is parsed.  The JSON of an object and that of a text are told
\* apart from other strings, which are not JSON.
jsonHandler(raw) ==
  CASE raw.is = "object JSON" -> Value("object", raw.of)
    [] raw.is = "string JSON" -> Value("string", raw.of)
    [] raw.is = "string" -> Refusal("SyntaxError")
    [] OTHER -> raw

fromDb(dbType, raw) ==
  LET handler == handlerOf(dbType)
  IN CASE raw = Null -> Null
       [] raw # Null /\ handler = "string" -> stringHandler(raw)
       [] raw # Null /\ handler = "number" -> numberHandler(raw)
       [] raw # Null /\ handler = "boolean" -> booleanHandler(raw)
       [] raw # Null /\ handler = "date" -> dateHandler(raw)
       [] raw # Null /\ handler = "buffer" -> bufferHandler(raw)
       [] raw # Null /\ handler = "json" -> jsonHandler(raw)
       [] raw # Null /\ handler = "identity" -> raw

\* The forms in which a driver may answer what a table holds.
Drivers == [number : {"number", "bigint", "string"}, boolean : {"boolean", "number", "string"},
            date : {"date", "string"}, buffer : {"buffer", "bytes", "string"},
            json : {"parsed", "text"}]
Form(driver, dbType, held) ==
  LET handler == handlerOf(dbType)
  IN CASE held # Null /\ handler = "number" ->
            Value(driver.number, IF driver.number = "number" THEN Nearest[held.of] ELSE held.of)
       [] held # Null /\ handler = "boolean" ->
            Value(driver.boolean, IF driver.boolean # "number" THEN held.of
                                  ELSE IF held.of = "true" THEN "1" ELSE "0")
       [] held # Null /\ handler = "date" -> Value(driver.date, held.of)
       [] held # Null /\ handler = "buffer" -> Value(driver.buffer, held.of)
       [] held # Null /\ handler = "json" /\ driver.json = "text" ->
            Value(IF held.is = "object" THEN "object JSON" ELSE "string JSON", held.of)
       [] OTHER -> held

-----------------------------------------------------------------------------
(* core/type-mapper.ts.  A schema maps columns to [dbType, isNullable]. *)

\* What the mapper may come to: the order of the columns, which decides between
\* two faults, is left out.
compileMapper(schema, row, strict) ==
  LET raw(c) == IF c \in DOMAIN row THEN row[c] ELSE Null
      result == [c \in DOMAIN schema |-> fromDb(schema[c].dbType, raw(c))]
      faults == {Refusal("NULL_VIOLATION") :
                   c \in {c \in DOMAIN schema : strict /\ raw(c) = Null /\ ~schema[c].isNullable}}
                \union {result[c] : c \in {c \in DOMAIN schema : result[c] = Refusal("SyntaxError")}}
  IN CASE faults # {} -> faults
       [] faults = {} /\ strict /\ ~(DOMAIN row \subseteq DOMAIN schema) -> {Refusal("UNKNOWN_COLUMN")}
       [] OTHER -> {result}

\* What the driver answers for a row; a column that the table does not declare is
\* of no type.
Answered(driver, schema, row) ==
  [c \in DOMAIN row |-> IF c \in DOMAIN schema THEN Form(driver, schema[c].dbType, row[c]) ELSE row[c]]

MapsRow(driver, w, strict) ==
  \E got \in compileMapper(w.schema, Answered(driver, w.schema, w.row), strict) :
    mapping' = [of |-> "mapped", schema |-> w.schema, held |-> w.row, strict |-> strict,
                driver |-> driver, got |-> got]

\* mapping/class-mapper.ts: the fields by name, or in the declared order.
propertyInjectionMapper(columnNames, row) == [c \in ToSet(columnNames) |-> row[c]]
constructorMapper(columnNames, row) == [i \in DOMAIN columnNames |-> row[columnNames[i]]]

BuildsObject(columns, row) ==
  mapping' = [of |-> "built", columns |-> columns, row |-> row,
              instance |-> propertyInjectionMapper(columns, row),
              arguments |-> constructorMapper(columns, row)]

-----------------------------------------------------------------------------
(* api/query.ts and api/prepared.ts: one answer from the rows of a query.  A *)
(* row here is the sequence of its columns.                                  *)

query(rows) == rows
queryFirst(rows) == IF rows = <<>> THEN Refusal("null") ELSE rows[1]
querySingle(rows, strict) ==
  CASE rows = <<>> -> Refusal(IF strict THEN "NO_ROWS_FOUND" ELSE "null")
    [] Len(rows) > 1 -> Refusal("MULTIPLE_ROWS_FOUND")
    [] Len(rows) = 1 -> rows[1]
queryScalar(rows) ==
  IF rows = <<>> \/ rows[1] = <<>> THEN Refusal("NO_ROWS_FOUND") ELSE rows[1][1]

preparedAll(rows) == rows
preparedFirst(rows) == IF Len(rows) = 0 THEN Refusal("null") ELSE rows[1]
preparedSingle(rows) ==
  IF Len(rows) = 1 THEN rows[1]
  ELSE Refusal(IF Len(rows) = 0 THEN "NO_ROWS_FOUND" ELSE "MULTIPLE_ROWS_FOUND")
preparedScalar(rows) ==
  IF Len(rows) > 0 /\ Len(rows[1]) > 0 THEN rows[1][1] ELSE Refusal("NO_ROWS_FOUND")

Answers(rows) ==
  mapping' = [of |-> "answered", rows |-> rows, lenient |-> querySingle(rows, FALSE),
              plain |-> <<query(rows), queryFirst(rows), querySingle(rows, TRUE), queryScalar(rows)>>,
              prepared |-> <<preparedAll(rows), preparedFirst(rows), preparedSingle(rows),
                             preparedScalar(rows)>>]

-----------------------------------------------------------------------------
(* mapping/nested-mapper.ts, with the identity as every segment's mapper *)

\* splitAndMap() begins: no rows, nothing to return.
SplitsNothing(q) ==
  /\ q.rows = <<>>
  /\ mapping' = [of |-> "nested", asked |-> q, at |-> 0, segments |-> <<>>, found |-> <<>>]
Splits(q) ==
  /\ q.rows # <<>>
  /\ mapping' = [of |-> "segments", asked |-> q, at |-> 0, segments |-> <<>>, current |-> <<>>]

\* buildSegments(): the next column.
SplitsColumn ==
  /\ mapping.of = "segments" /\ mapping.at < Len(mapping.asked.columns)
  /\ LET at == mapping.at + 1
         col == mapping.asked.columns[at]
     IN mapping' =
          IF col \in ToSet(mapping.asked.splitOn) /\ mapping.current # <<>>
          THEN [mapping EXCEPT !.at = at, !.segments = Append(@, mapping.current), !.current = <<col>>]
          ELSE [mapping EXCEPT !.at = at, !.current = Append(@, col)]
\* Without a mapper for the parents there is nothing to return.
EndsColumns ==
  /\ mapping.of = "segments" /\ mapping.at = Len(mapping.asked.columns)
  /\ mapping' = [of |-> IF mapping.asked.mappers = 0 THEN "nested" ELSE "nesting",
                 asked |-> mapping.asked, at |-> 0, found |-> <<>>,
                 segments |-> IF mapping.current = <<>> THEN mapping.segments
                              ELSE Append(mapping.segments, mapping.current)]

extractSegment(row, columns) == [c \in ToSet(columns) |-> row[c]]

\* Mutant: a null key is mapped like any other.
attachEvenNull(row, segments, splitOn, mappers) ==
  [i \in 1..(Len(segments) - 1) |->
     IF i + 1 > mappers THEN Null ELSE extractSegment(row, segments[i + 1])]

\* The joined objects of one row, which replace those of an earlier row; what
\* has no mapper is null.
attach(row, segments, splitOn, mappers) ==
  [i \in 1..(Len(segments) - 1) |->
     IF row[splitOn[i]] = Null \/ i + 1 > mappers THEN Null
     ELSE extractSegment(row, segments[i + 1])]

KeyOf(q, i) == q.rows[i][q.columns[1]]

\* The next row: of a parent that was found, or of a new one.
NestsRow ==
  /\ mapping.of = "nesting" /\ mapping.at < Len(mapping.asked.rows)
  /\ LET at == mapping.at + 1
         row == mapping.asked.rows[at]
         key == KeyOf(mapping.asked, at)
         joined == attach(row, mapping.segments, mapping.asked.splitOn, mapping.asked.mappers)
         had == {k \in DOMAIN mapping.found : mapping.found[k].key = key}
     IN \/ /\ had = {}
           /\ mapping' = [mapping EXCEPT !.at = at, !.found = Append(@,
                [key |-> key, self |-> extractSegment(row, mapping.segments[1]), joined |-> joined])]
        \/ \E k \in had :
             mapping' = [mapping EXCEPT !.at = at, !.found = [@ EXCEPT ![k].joined = joined]]
EndsRows ==
  /\ mapping.of = "nesting" /\ mapping.at = Len(mapping.asked.rows)
  /\ mapping' = [mapping EXCEPT !.of = "nested"]

-----------------------------------------------------------------------------

\* The caller has what it asked for.
RowsDone == mapping.of \in {"mapped", "built", "answered", "nested"} /\ mapping' = Nothing

RowsNext ==
  \/ /\ mapping = Nothing
     /\ \/ \E driver \in Drivers, w \in HeldRows, strict \in BOOLEAN : MapsRow(driver, w, strict)
        \/ \E q \in JoinResults : \E i \in DOMAIN q.rows : BuildsObject(q.columns, q.rows[i])
        \/ \E rows \in QueryResults : Answers(rows)
        \/ \E q \in JoinResults : SplitsNothing(q) \/ Splits(q)
  \/ SplitsColumn \/ EndsColumns \/ NestsRow \/ EndsRows
  \/ RowsDone

RowsSpec == RowsInit /\ [][RowsNext]_mapping

-----------------------------------------------------------------------------
(* What each must come to *)

\* A number is read as the nearest double, anything else as it is.
AsRead(dbType, held) ==
  IF held # Null /\ handlerOf(dbType) = "number" THEN Value("number", Nearest[held.of]) ELSE held

\* A strict mapper refuses a row that is not of the table.  Any mapper fails at
\* a text of a json column that the driver has parsed already.  What is not
\* refused is the row that the table holds.
MappedRight(r) ==
  LET held(c) == IF c \in DOMAIN r.held THEN r.held[c] ELSE Null
      missing == r.strict /\ \E c \in DOMAIN r.schema : held(c) = Null /\ ~r.schema[c].isNullable
      unknown == r.strict /\ ~(DOMAIN r.held \subseteq DOMAIN r.schema)
      reparsed == r.driver.json = "parsed" /\ \E c \in DOMAIN r.schema :
                    handlerOf(r.schema[c].dbType) = "json" /\ held(c).is = "string"
  IN \/ missing /\ r.got = Refusal("NULL_VIOLATION")
     \/ unknown /\ r.got = Refusal("UNKNOWN_COLUMN")
     \/ reparsed /\ r.got = Refusal("SyntaxError")
     \/ /\ ~(missing \/ unknown \/ reparsed)
        /\ r.got = [c \in DOMAIN r.schema |-> AsRead(r.schema[c].dbType, held(c))]

\* The k-th object of a joined row begins with the key it is split at.
StartOf(q, k) ==
  CASE k = 1 -> 1
    [] k \in 2..(Len(q.splitOn) + 1) -> CHOOSE i \in DOMAIN q.columns : q.columns[i] = q.splitOn[k - 1]
    [] k = Len(q.splitOn) + 2 -> Len(q.columns) + 1
Part(q, row, k) == [c \in {q.columns[i] : i \in StartOf(q, k)..(StartOf(q, k + 1) - 1)} |-> row[c]]

\* A parent as the row i has it, with what the row j joins to it.
ParentOf(q, i, j) ==
  LET row == q.rows[j]
  IN [key |-> KeyOf(q, i), self |-> Part(q, q.rows[i], 1),
      joined |-> [k \in 1..Len(q.splitOn) |-> IF row[q.splitOn[k]] = Null \/ k >= q.mappers THEN Null
                                              ELSE Part(q, row, k + 1)]]

FirstRow(q, i) == \A j \in 1..i : KeyOf(q, j) = KeyOf(q, i) => j = i
LastRow(q, n, i) == \A j \in i..n : KeyOf(q, j) = KeyOf(q, i) => j = i

\* Of the first n rows of q: every parent once, in the order of their first
\* rows, as the first has it, with what the last joins to it.
NestedRight(q, n, found) ==
  /\ \A i \in 1..n : \E k \in DOMAIN found : found[k].key = KeyOf(q, i)
  /\ \A k \in DOMAIN found : \E i, j \in 1..n :
       FirstRow(q, i) /\ LastRow(q, n, j) /\ KeyOf(q, i) = KeyOf(q, j) /\ found[k] = ParentOf(q, i, j)
  /\ \A k, m \in DOMAIN found, i, j \in 1..n :
       /\ k < m /\ FirstRow(q, i) /\ KeyOf(q, i) = found[k].key
       /\ FirstRow(q, j) /\ KeyOf(q, j) = found[m].key
       => i < j

\* Whatever forms its driver answers in, a row is mapped to the row that the
\* table holds, its numbers as doubles, and a row that is not of the table is
\* refused in strict mode; but a text of a json column that the driver parsed is
\* parsed again, which fails (type-mapper.ts, type-handler.ts).  The rows of a join
\* come back as their parents, once each and in order, with the objects their
\* columns are split into, of which the last row's replace all others, and null
\* for one without a key or without a mapper; without any mapper nothing comes
\* back (nested-mapper.ts).  A prepared query answers what the plain one answers
\* (query.ts, prepared.ts); a class gets its columns by name (class-mapper.ts).
RowsExact ==
  /\ mapping.of = "mapped" => MappedRight(mapping)
  /\ mapping.of \in {"nesting", "nested"} =>
       IF mapping.asked.mappers = 0 THEN mapping.found = <<>>
       ELSE NestedRight(mapping.asked, mapping.at, mapping.found)
  /\ mapping.of = "nested" /\ mapping.asked.mappers # 0 => mapping.at = Len(mapping.asked.rows)
  /\ mapping.of = "answered" =>
       mapping.plain = mapping.prepared /\ (mapping.rows # <<>> => mapping.lenient = mapping.plain[3])
  /\ mapping.of = "built" =>
       \A i \in DOMAIN mapping.columns :
         /\ mapping.arguments[i] = mapping.row[mapping.columns[i]]
         /\ mapping.instance[mapping.columns[i]] = mapping.arguments[i]
=============================================================================
