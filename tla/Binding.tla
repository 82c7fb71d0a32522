-------------------------------- MODULE Binding --------------------------------
(***************************************************************************)
(* How values get next to their placeholders: the sql tag and its helpers, *)
(* the query builder, @name parameters, batches, the typed writes, stored  *)
(* procedures, prepared queries and table-valued parameters.               *)
(*                                                                         *)
(* A text is the sequence of its placeholders.  Each carries, in "for",    *)
(* the value its author meant; the code never looks at that.  What a       *)
(* placeholder receives is decided by the adapter's translation and the    *)
(* server (Received); the two must agree.                                  *)
(*                                                                         *)
(* None of these functions awaits, so one loop runs at a time, and its     *)
(* iterations are the steps; a fragment may be built from earlier ones.    *)
(***************************************************************************)
EXTENDS Integers, Sequences, FiniteSets

CONSTANTS Missing,      \* the value of a key an object does not have
          Values,       \* scalars
          Tables,       \* table-valued parameters, as the tag meets them
          Params,       \* what @name parameters are given: [many, vals] by name
          Names,        \* the names a text may have
          ColumnNames,  \* the columns of a table, in order
          Objects,      \* rows to write: sequences of [col, val]
          Conflicts,    \* lists of conflict columns
          TableRows,    \* rows of a table-valued parameter: sequences of cells
          Columns,      \* how many cells each of them has
          Capacity,     \* of the ParamBuffer
          MaxPlaces,    \* bound on the placeholders of a text
          MaxMade       \* bound on the fragments at hand
Dialects == {"postgres", "mysql", "mssql", "sqlite"}

\* An array has many values, anything else has one; a key of an object is there
\* once.
ASSUME BindingAssumption ==
  /\ Values \intersect Tables = {}
  /\ \A given \in Params : \A name \in DOMAIN given :
       /\ given[name].many \in BOOLEAN /\ given[name].vals \in Seq(Values)
       /\ ~given[name].many => Len(given[name].vals) = 1
  /\ ColumnNames \in Seq(STRING)
  /\ \A data \in Objects : data \in Seq([col : STRING, val : Values])
  /\ \A rows \in TableRows : rows \in Seq(Seq(Values))
  /\ Columns \in Nat /\ Capacity \in Nat \ {0} /\ MaxPlaces \in Nat /\ MaxMade \in Nat

VARIABLES made,     \* the fragments at hand
          loop,     \* what runs: [of, ...] with what it has so far
          buffer    \* the ParamBuffer of a prepared query: [slots, len]
bindingVars == <<made, loop, buffer>>

Place(kind, n, value) == [kind |-> kind, n |-> n, for |-> value]
Numbered(values) == [i \in 1..Len(values) |-> Place("$", i, values[i])]
\* Array.filter: what stands at the places S.
Filter(seq, S) == [k \in 1..Cardinality(S) |-> seq[CHOOSE i \in S : Cardinality({j \in S : j < i}) = k - 1]]

NewBuffer(capacity) == [slots |-> [i \in 1..capacity |-> Missing], len |-> 0]
Rest == [of |-> "none"]

BindingInit == made = {} /\ loop = Rest /\ buffer = NewBuffer(Capacity)

-----------------------------------------------------------------------------
(* sql/tag.ts, sql/fragment.ts, sql/helpers.ts, api/query-builder.ts *)

createFragment(text, params, tvpValues) ==
  [text |-> text, params |-> params, tvpValues |-> tvpValues]
Empty == createFragment(<<>>, <<>>, <<>>)

\* Mutant: the placeholders of a nested fragment keep their numbers.
renumberNothing(text, shift) == text

renumberPlaceholders(text, shift) ==
  [i \in 1..Len(text) |-> IF text[i].kind = "$" THEN [text[i] EXCEPT !.n = @ + shift] ELSE text[i]]

\* A nested fragment's sentinels keep their numbers.
nests(f, g) ==
  createFragment(f.text \o renumberPlaceholders(g.text, Len(f.params)),
                 f.params \o g.params, f.tvpValues \o g.tvpValues)
\* The fragment that sqlJoin() and build() return has no tables.
joins(f, g) ==
  createFragment(f.text \o renumberPlaceholders(g.text, Len(f.params)), f.params \o g.params, <<>>)
takesTable(f, tvpValue) ==
  createFragment(Append(f.text, Place("tvp", Len(f.tvpValues), tvpValue)),
                 f.params, Append(f.tvpValues, tvpValue))
takesScalar(f, value) ==
  createFragment(Append(f.text, Place("$", Len(f.params) + 1, value)),
                 Append(f.params, value), f.tvpValues)

sqlIf(condition, fragment) == IF condition THEN fragment ELSE Empty
whereIf(f, condition, clause) == IF condition THEN joins(f, clause) ELSE f

Composing == {"sql", "join", "build"}
\* sql``, sqlJoin() or the build() of a query builder begins.
Composes(how) == loop = Rest /\ loop' = [of |-> how, f |-> Empty] /\ UNCHANGED <<made, buffer>>

\* f is what the loop has after this iteration.
Goes(how, f) ==
  /\ loop.of = how /\ Len(f.text) <= MaxPlaces
  /\ loop' = [loop EXCEPT !.f = f]
  /\ UNCHANGED <<made, buffer>>

\* One interpolation of the tag.  A fragment with tables is nested before any
\* other table, and not joined: the code carries its tables only then.
InterpolatesFragment(g, condition) ==
  /\ loop.of = "sql" /\ (g.tvpValues # <<>> => loop.f.tvpValues = <<>>)
  /\ Goes("sql", nests(loop.f, sqlIf(condition, g)))
InterpolatesTable(tvpValue) == loop.of = "sql" /\ Goes("sql", takesTable(loop.f, tvpValue))
InterpolatesScalar(value) == loop.of = "sql" /\ Goes("sql", takesScalar(loop.f, value))
\* The next of the fragments that are joined.
Joins(g) == loop.of = "join" /\ g.tvpValues = <<>> /\ Goes("join", joins(loop.f, g))
\* The next call of where() or whereIf(): build() goes through the clauses in
\* the order of the calls.
AddsClause(clause, condition) ==
  /\ loop.of = "build" /\ clause.tvpValues = <<>>
  /\ Goes("build", whereIf(loop.f, condition, clause))

\* The fragment is returned; the caller may let go of others.
Returns(kept) ==
  /\ loop.of \in Composing /\ Cardinality(kept \union {loop.f}) <= MaxMade
  /\ made' = kept \union {loop.f} /\ loop' = Rest
  /\ UNCHANGED buffer

-----------------------------------------------------------------------------
(* sql/validator.ts *)

Of(text, kind) == {i \in 1..Len(text) : text[i].kind = kind}
Until(S, i) == {j \in S : j <= i}

validateSql(f, multiStatement, readonly) ==
  LET count(kind) == Cardinality(Of(f.text, kind))
  IN /\ Cardinality({f.text[i].n : i \in Of(f.text, "$")}) = Len(f.params)
     /\ \A i \in 1..Len(f.text) : Cardinality(Until(Of(f.text, ")"), i)) <= Cardinality(Until(Of(f.text, "("), i))
     /\ count("(") = count(")")
     /\ f.tvpValues = <<>> => count("tvp") = 0
     /\ ~multiStatement => \A i \in Of(f.text, ";") : i = Len(f.text)
     /\ readonly => count("write") = 0

-----------------------------------------------------------------------------
(* core/param-builder.ts.  A parameter is [many, vals]: an array or a value. *)

Positional(dialect) == dialect = "postgres"
NextPlace(dialect, n, value) == IF Positional(dialect) THEN Place("$", n, value) ELSE Place("?", 0, value)

buildParams(given, dialect) ==
  /\ loop = Rest
  /\ loop' = [of |-> "named", dialect |-> dialect, given |-> given, read |-> <<>>,
              text |-> <<>>, params |-> <<>>, paramOrder |-> <<>>, known |-> {}]
  /\ UNCHANGED <<made, buffer>>

\* PARAM_MISSING or PARAM_EXTRA
Rejects(read) == loop' = [of |-> "rejected", given |-> loop.given, read |-> read]

\* An array is expanded in place.
expandsArray(vals) ==
  LET places == [i \in 1..Len(vals) |-> NextPlace(loop.dialect, Len(loop.params) + i, vals[i])]
  IN [loop EXCEPT !.text = @ \o places, !.params = @ \o vals]
\* PostgreSQL uses the index of a value again.
usesAgain(at, value) == [loop EXCEPT !.text = Append(@, Place("$", at, value))]
appendsValue(name, value) ==
  LET index == Len(loop.params) + 1
  IN [loop EXCEPT !.text = Append(@, NextPlace(loop.dialect, index, value)),
                  !.params = Append(@, value), !.paramOrder = Append(@, name),
                  !.known = IF Positional(loop.dialect) THEN @ \union {[name |-> name, at |-> index]} ELSE @]

\* The next @name in the text.
ReadsName(name) ==
  /\ loop.of = "named" /\ UNCHANGED <<made, buffer>>
  /\ LET read == Append(loop.read, name)
         param == loop.given[name]
         again == {k \in loop.known : k.name = name}
         replaced(it) == Len(it.text) <= MaxPlaces /\ loop' = [it EXCEPT !.read = read]
     IN /\ Len(read) <= MaxPlaces
        /\ \/ name \notin DOMAIN loop.given /\ Rejects(read)
           \/ name \in DOMAIN loop.given /\ param.many /\ replaced(expandsArray(param.vals))
           \/ /\ name \in DOMAIN loop.given /\ ~param.many /\ Positional(loop.dialect)
              /\ \E k \in again : replaced(usesAgain(k.at, param.vals[1]))
           \/ /\ name \in DOMAIN loop.given /\ ~param.many /\ (Positional(loop.dialect) => again = {})
              /\ replaced(appendsValue(name, param.vals[1]))

\* The text has no more names.
EndsNames ==
  /\ loop.of = "named" /\ UNCHANGED <<made, buffer>>
  /\ IF \A name \in DOMAIN loop.given : \E i \in 1..Len(loop.read) : loop.read[i] = name
     THEN loop' = [loop EXCEPT !.of = "built"]
     ELSE Rejects(loop.read)

-----------------------------------------------------------------------------
(* api/execute.ts and api/proc.ts.  An object is the sequence of its entries. *)

Statement(text, params) == [text |-> text, params |-> params]
Sends(dialect, s) ==
  /\ loop' = [of |-> "sent", dialect |-> dialect, text |-> s.text, params |-> s.params]
  /\ UNCHANGED <<made, buffer>>

\* One row of a batch: the text was made from the first row, its parameters are
\* taken by name.
executeBatch(row) ==
  /\ loop.of = "built" /\ \A name \in DOMAIN loop.given : ~loop.given[name].many
  /\ Sends(loop.dialect,
           Statement([i \in 1..Len(loop.text) |-> [loop.text[i] EXCEPT !.for = row[loop.read[i]]]],
                     [i \in 1..Len(loop.paramOrder) |-> row[loop.paramOrder[i]]]))

Entry(data, c) == CHOOSE i \in 1..Len(data) : data[i].col = c
Has(data, c) == \E i \in 1..Len(data) : data[i].col = c
Vals(data) == [i \in 1..Len(data) |-> data[i].val]

insert(data) ==
  LET cols == Filter(ColumnNames, {i \in 1..Len(ColumnNames) : Has(data, ColumnNames[i])})
      values == [i \in 1..Len(cols) |-> data[Entry(data, cols[i])].val]
  IN Statement(Numbered(values), values)

update(data, pkColumn, pkValue) ==
  LET others == Filter(data, {i \in 1..Len(data) : data[i].col # pkColumn})
      values == Append(Vals(others), pkValue)
  IN Statement(Append(Numbered(Vals(others)), Place("$", Len(values), pkValue)), values)

deleteRow(pkValue) == Statement(<<Place("$", 1, pkValue)>>, <<pkValue>>)

UpdateColumns(data, conflict) ==
  Filter(data, {i \in 1..Len(data) : \A j \in 1..Len(conflict) : conflict[j] # data[i].col})

\* The values are sent once; the update refers to the row that was to be inserted.
upsertOnce(data) == Statement(Numbered(Vals(data)), Vals(data))
\* The update names the placeholders of the insert a second time.
upsertMysql(data, conflict) ==
  LET cols == UpdateColumns(data, conflict)
      again == [i \in 1..Len(cols) |-> Place("$", Entry(data, cols[i].col), cols[i].val)]
  IN Statement(Numbered(Vals(data)) \o again, Vals(data))
upsert(dialect, data, conflict) ==
  IF dialect = "mysql" THEN upsertMysql(data, conflict) ELSE upsertOnce(data)

queryProc(params) == Statement(Numbered(Vals(params)), Vals(params))
execProc(params) == Statement(Numbered(Vals(params)), Vals(params))

\* The update of MySQL is always refused, which is left out.
WritesObject(dialect, data) ==
  /\ loop = Rest
  /\ \/ Sends(dialect, insert(data))
     \/ \E i \in 1..Len(ColumnNames), value \in Values : Sends(dialect, update(data, ColumnNames[i], value))
     \/ \E value \in Values : Sends(dialect, deleteRow(value))
     \/ \E conflict \in Conflicts :
          /\ dialect = "mysql" => UpdateColumns(data, conflict) = <<>>
          /\ Sends(dialect, upsert(dialect, data, conflict))
     \/ dialect = "mssql" /\ Sends(dialect, queryProc(data))
     \/ dialect = "postgres" /\ Sends(dialect, execProc(data))

-----------------------------------------------------------------------------
(* core/tvp: a table is the sequence of its rows, a row the sequence of its  *)
(* columns' values.                                                          *)

\* tvp(): every row has the columns of the schema and no others.
tvp(columns, rows) == \A i \in 1..Len(rows) : Len(rows[i]) = columns

\* One array per column, numbered after the parameters the fragment has.
materializeTvpUnnest(columns, rows, f) ==
  LET arrays == [j \in 1..columns |-> [i \in 1..Len(rows) |-> rows[i][j]]]
  IN Statement(f.text \o renumberPlaceholders(Numbered(arrays), Len(f.params)), f.params \o arrays)

\* One INSERT of all rows, row by row.
materializeTvpTempTable(columns, rows) ==
  LET flat == [k \in 1..(Len(rows) * columns) |-> rows[((k - 1) \div columns) + 1][((k - 1) % columns) + 1]]
  IN Statement([k \in 1..Len(flat) |-> Place("?", 0, flat[k])], flat)

MaterialisesTable(rows) ==
  /\ loop = Rest /\ tvp(Columns, rows)
  /\ \/ \E f \in made : /\ \A i \in 1..Len(f.text) : f.text[i].kind = "$"
                        /\ Sends("postgres", materializeTvpUnnest(Columns, rows, f))
     \/ \E dialect \in {"mysql", "sqlite"} : Sends(dialect, materializeTvpTempTable(Columns, rows))

-----------------------------------------------------------------------------
(* cache/param-buffer.ts and api/prepared.ts *)

reset(b) == [slots |-> [i \in 1..Len(b.slots) |-> IF i <= b.len THEN Missing ELSE b.slots[i]],
             len |-> 0]
grow(b) == [b EXCEPT !.slots = [i \in 1..(2 * Len(@)) |-> IF i <= b.len THEN @[i] ELSE Missing]]
push(b, value) ==
  LET room == IF b.len >= Len(b.slots) THEN grow(b) ELSE b
  IN [slots |-> [room.slots EXCEPT ![b.len + 1] = value], len |-> b.len + 1]
toArray(b) == SubSeq(b.slots, 1, b.len)

\* bind(): the buffer a call leaves is the one the next call starts from.
Binds ==
  /\ loop = Rest /\ loop' = [of |-> "bind", given |-> <<>>]
  /\ buffer' = reset(buffer) /\ UNCHANGED made
BindsValue(value) ==
  /\ loop.of = "bind" /\ Len(loop.given) < MaxPlaces
  /\ loop' = [loop EXCEPT !.given = Append(@, value)]
  /\ buffer' = push(buffer, value) /\ UNCHANGED made
EndsBind ==
  /\ loop.of = "bind"
  /\ loop' = [of |-> "bound", given |-> loop.given, array |-> toArray(buffer)]
  /\ UNCHANGED <<made, buffer>>

-----------------------------------------------------------------------------

\* The caller has what the function returned.
Done ==
  /\ loop.of \in {"rejected", "built", "sent", "bound"} /\ loop' = Rest
  /\ UNCHANGED <<made, buffer>>

FragmentNext ==
  \/ \E how \in Composing : Composes(how)
  \/ \E g \in made, condition \in BOOLEAN : InterpolatesFragment(g, condition)
  \/ \E tvpValue \in Tables : InterpolatesTable(tvpValue)
  \/ \E value \in Values : InterpolatesScalar(value)
  \/ \E g \in made : Joins(g)
  \/ \E clause \in made, condition \in BOOLEAN : AddsClause(clause, condition)
  \/ \E kept \in SUBSET made : Returns(kept)
  \/ \E rows \in TableRows : MaterialisesTable(rows)

StatementNext ==
  \/ \E given \in Params, dialect \in Dialects : buildParams(given, dialect)
  \/ \E name \in Names : ReadsName(name)
  \/ EndsNames
  \/ loop.of = "built" /\ \E row \in [DOMAIN loop.given -> Values] : executeBatch(row)
  \/ \E dialect \in Dialects, data \in Objects : WritesObject(dialect, data)

PreparedNext == Binds \/ (\E value \in Values : BindsValue(value)) \/ EndsBind

BindingNext == FragmentNext \/ StatementNext \/ PreparedNext \/ Done

BindingSpec == BindingInit /\ [][BindingNext]_bindingVars

-----------------------------------------------------------------------------
(* What the adapters translate and the servers bind. *)

Bindable(text) == Of(text, "$") \union Of(text, "?")

\* The parameter a server binds to the placeholder i, counted from 1.  mysql.ts
\* makes every $n a ?, whatever its number; mssql.ts makes $n the parameter
\* @p(n-1), and the k-th ? the parameter @p(k-1), which is params[k-1].
Received(dialect, text, i) ==
  LET alike(j, k) == text[j].kind = "$" /\ text[k].kind = "$" /\ text[j].n = text[k].n
      new(j) == \A k \in Bindable(text) : k < j => ~alike(j, k) 
      upTo(j) == {k \in Bindable(text) : k <= j}
  IN CASE dialect = "postgres" -> text[i].n
       [] dialect = "mysql" -> Cardinality(upTo(i))
       [] dialect = "mssql" -> IF text[i].kind = "$" THEN text[i].n ELSE Cardinality(Until(Of(text, "?"), i))
       \* SQLite counts a name where it first occurs.
       [] dialect = "sqlite" -> Cardinality({j \in upTo(i) : new(j) /\ \A k \in upTo(j) : k < j => ~alike(i, k)})

\* The server does not refuse the statement, and every placeholder receives
\* what is meant for it.
Bound(dialect, s) ==
  LET places == Bindable(s.text)
      indices == {Received(dialect, s.text, i) : i \in places}
  IN /\ dialect = "postgres" => \A i \in places : s.text[i].kind = "$"
     /\ dialect = "mysql" => Cardinality(places) = Len(s.params)
     /\ dialect = "sqlite" => indices = 1..Len(s.params)
     /\ indices \subseteq 1..Len(s.params)
     /\ \A i \in places : s.params[Received(dialect, s.text, i)] = s.text[i].for

\* Every sentinel names the table that was interpolated there.
SentinelsRight(f) ==
  \A i \in Of(f.text, "tvp") :
    f.text[i].n + 1 \in 1..Len(f.tvpValues) /\ f.tvpValues[f.text[i].n + 1] = f.text[i].for

FragmentRight(f) ==
  /\ \A dialect \in Dialects : Bound(dialect, f)
  /\ SentinelsRight(f) /\ validateSql(f, FALSE, TRUE)

\* Every placeholder of every statement receives the value its author put
\* there, whatever fragments it came through and whatever dialect it goes to;
\* named parameters are refused when, and only when, a name is missing or one too
\* many; and a prepared query sends the values of its own call: tag.ts,
\* helpers.ts, query-builder.ts, param-builder.ts, execute.ts, proc.ts,
\* param-buffer.ts, core/tvp and the placeholders of the adapters.
BindingExact ==
  LET names == {loop.read[i] : i \in 1..Len(loop.read)} IN
  /\ \A f \in made : FragmentRight(f)
  /\ loop.of \in Composing => FragmentRight(loop.f)
  /\ loop.of \in {"named", "built", "sent"} => Bound(loop.dialect, loop)
  /\ loop.of = "built" => names = DOMAIN loop.given
  /\ loop.of = "rejected" => names # DOMAIN loop.given
  /\ loop.of = "bound" => loop.array = loop.given
=============================================================================
