----------------------------- MODULE MCAlgorithms -----------------------------
(***************************************************************************)
(* The functions that await nothing, on bounded inputs: the statements of  *)
(* Binding, the results of Rows, the settings of Configuration; beside     *)
(* them the time limits and the retries of Deadlines.  They share no state *)
(* with each other: one of them moves at a time, the others at rest.       *)
(***************************************************************************)
EXTENDS Deadlines, Binding, Rows, Configuration, TLC

Init == DeadlinesInit /\ BindingInit /\ RowsInit /\ ConfigurationInit

UpTo(n, S) == UNION {[1..k -> S] : k \in 0..n}
SomeOf(values) ==
  UNION {{f \in [K -> UNION {values[k] : k \in K}] : \A k \in K : f[k] \in values[k]}
           : K \in SUBSET DOMAIN values}

-----------------------------------------------------------------------------
(* Texts and their parameters *)

CONSTANTS v1, v2

One(value) == [many |-> FALSE, vals |-> <<value>>]
Array(values) == [many |-> TRUE, vals |-> values]
MCParams == UNION {[N -> {One(v1), One(v2), Array(<<v1, v2>>), Array(<<>>)}] : N \in SUBSET Names}
MCColumnNames == <<"y", "id", "x">>
Written(cols) == [i \in 1..Len(cols) |-> [col |-> cols[i], val |-> IF i % 2 = 0 THEN v1 ELSE v2]]
MCObjects == {Written(cols) : cols \in {s \in UpTo(3, {"id", "x", "y"}) : IsInjective(s)}}
MCConflicts == {<<"id">>, <<"id", "x", "y">>}
MCTableRows == UpTo(2, [1..2 -> {v1, v2}])

\* The fragments at hand and the buffer matter to their own functions only.
BindingSteps ==
  \/ buffer = NewBuffer(Capacity) /\ FragmentNext
  \/ buffer = NewBuffer(Capacity) /\ made = {} /\ StatementNext
  \/ made = {} /\ PreparedNext
  \/ Done

-----------------------------------------------------------------------------
(* Settings *)

MCLeading == "5433" :> 5433 @@ "54x" :> 54
\* "@" is not a part of a user's name in a URL.
MCPercent == [t \in {"", "u", "d", "p@ss"} |-> IF t = "p@ss" THEN "p%40ss" ELSE t]

OneOf(values) == {Leaf(v) : v \in values}
Section(keys) == {Leaf(Undefined)} \union {Obj(o) : o \in SomeOf([k \in keys |-> OneOf({7, 0, Undefined})])}
Connection == {Obj(o) : o \in SomeOf([url |-> OneOf({"x", ":memory:"}), host |-> OneOf({"x", Undefined}),
                                      password |-> OneOf({"x"}), authType |-> OneOf({"x"})])}
\* The second logger is an instance of a class: what it has, it inherits.
Loggers == {Leaves([warn |-> "mine", trace |-> "mine"]), Leaves(<<>>)}
MCUserConfigs ==
  {<<>>, [env |-> Leaf("test")], [tvpCopyThreshold |-> Leaf(-1)]}
  \union [pool : Section({"min", "max"}) \union {Leaf(null), Leaves([max |-> null])}]
  \union [timeout : Section({"connect"}) \union {Leaves([acquire |-> -1])}, deadlockRetries : OneOf({2, Undefined})]
  \union [cache : {Leaf(null), Leaves([ttlMs |-> null]), Leaves([maxSize |-> Undefined])}]
  \union [log : {Leaf(null)} \union {Obj(l) : l \in SomeOf([logger |-> Loggers, level |-> OneOf({"info"})])}]
  \union [security : {Obj([format |-> Leaves([normalizeKeywords |-> "true"])])}, maskSensitive : OneOf({"false"})]
  \union [env : OneOf({"production"}), connection : Connection \union {Leaf(Undefined)}]
MCExplicit == {Undefined, "test"}

Named == SomeOf([name \in {"BUN_ENV", "NODE_ENV"} |-> {"production", "test", "staging"}])
MCEnvironments ==
  Named \union SomeOf([url |-> {"mysql://byurl/u"}, host |-> {"a", "b"}, port |-> {"5433", "54x", "junk"},
                       ssl |-> {"true", "require", "no"}])
MCOverrides == SomeOf([url |-> {"c", Undefined}, host |-> {"c", Undefined}])
MCNamedVars ==
  SomeOf(<<"eu", "host">> :> {"a", "b"} @@ <<"eu", "port">> :> {"5433"} @@ <<"eu", "x", "host">> :> {"a"}
         @@ <<"us", "readonly">> :> {"true", "1"} @@ <<"junk">> :> {"a"})

MCConns == SomeOf([url |-> {"x", "bad", ":memory:"}, host |-> {"x", "localhost"}, password |-> {"x"},
                   authType |-> {"x"}, user |-> {"root"}])

Texts == {"good", "bad"}
MCAuths == [type : {"userpass"}, username : Texts, password : Texts]
  \union [type : {"windows"}, username : Optional(Texts), domain : Optional(Texts)]
  \union [type : {"windows-upn"}, upn : Texts, password : Texts]
  \union [type : {"connection-string"}, url : {"", "u"}]
  \union [type : {"azure-ad"}, tenantId : Texts, clientId : Texts,
          clientSecret : {"secret", Undefined}, managedIdentity : {"true", Undefined}]
MCMssqlOptions == SomeOf([host |-> {"h"}, user |-> {"u"}, domain |-> {"d"}])
MCUrls ==
  "mysql://u:p%40ss@h:5433/d" :> [host |-> "h", port |-> "5433", user |-> "u", password |-> "p@ss", database |-> "d"]
  @@ "mysql://h" :> [host |-> "h", port |-> "", user |-> "", password |-> "", database |-> ""]
MCPoolOptions == SomeOf([url |-> DOMAIN MCUrls \union {"", "no url", Undefined}, host |-> {"x", Undefined},
                         user |-> {"x"}, password |-> {"p@ss"}])
MCFiles == [state : {"absent", "broken", "loads"},
            export : {"undefined", "scalar", "no connections", "connections"}]

-----------------------------------------------------------------------------
(* Rows *)

MCContents == {"0", "1", "2", "5", "7", "8", "9", "d", "o", "true", "false"}

\* 9 is none of the doubles.
MCNearest == [c \in MCContents |-> IF c = "9" THEN "8" ELSE c]
MCSchema == [c \in {"int", "boolean", "datetime", "json", "bigint"} |->
               [dbType |-> c, isNullable |-> c \notin {"boolean", "bigint"}]]
Typed == [int : {Value("number", "1"), Null}, boolean : {Value("boolean", b) : b \in {"true", "false"}},
          datetime : {Value("date", "d"), Null}, json : {Value("object", "o"), Value("string", "d"), Null},
          bigint : {Value("number", "9")}]
MCOthers == [c \in {"varchar", "blob", "array", "custom"} |-> [dbType |-> c, isNullable |-> TRUE]]
\* As it should be, with a column that the table does not have, or without one.
MCHeldRows ==
  [schema : {MCSchema},
   row : Typed \union {row @@ [other |-> Value("number", "1")] : row \in Typed}
               \union {[c \in DOMAIN row \ {"bigint"} |-> row[c]] : row \in Typed}]
  \union [schema : {MCOthers},
          row : [varchar : {Value("string", "d")}, blob : {Value("buffer", "d")},
                 array : {Value("array", "d")}, custom : {Value("string", "d"), Null}]]

Num(n) == Value("number", n)
Joined == {Null, Num("8"), Num("9")}
JoinedRows == [id : {Num("1"), Num("2")}, name : {Num("7")}, childId : Joined, childName : {Num("7")},
               otherId : {Null, Num("5")}]
MCJoinResults == [columns : {<<"id", "name", "childId", "childName", "otherId">>},
                  splitOn : {<<"childId", "otherId">>, <<"childId">>, <<>>}, mappers : {3},
                  rows : UpTo(3, JoinedRows)]
  \union [columns : {<<"id", "name", "childId", "childName", "otherId">>},
          splitOn : {<<"childId", "otherId">>}, mappers : 0..2, rows : UpTo(2, JoinedRows)]
MCQueryResults == UpTo(2, UpTo(2, {Num("1"), Null}))

-----------------------------------------------------------------------------
(* Deadlines and retries *)

Failure(squn, causes) == [squn |-> squn, causes |-> causes]
MCFailures == {Failure(TRUE, <<"1213">>), Failure(TRUE, <<"wrapped", "1213">>),
               Failure(TRUE, <<"1205">>), Failure(TRUE, <<>>), Failure(FALSE, <<"1213">>)}

NoTime == elapsed = 0 /\ call = [c \in Calls |-> Uncalled]
\* Nothing is timed and nothing is retried.
NoWait == NoTime /\ retry.at = "idle" /\ config = [budget |-> 0, global |-> None]

\* Calls are timed or a function is retried: together they would only multiply.
Waits == (retry.at = "idle" /\ TimeNext) \/ (NoTime /\ RetryNext)

-----------------------------------------------------------------------------

Next ==
  \/ /\ BindingInit /\ RowsInit /\ ConfigurationInit
     /\ Waits /\ UNCHANGED <<bindingVars, mapping, settings>>
  \/ /\ NoWait /\ RowsInit /\ ConfigurationInit
     /\ BindingSteps /\ UNCHANGED <<deadlineVars, mapping, settings>>
  \/ /\ NoWait /\ BindingInit /\ ConfigurationInit
     /\ RowsNext /\ UNCHANGED <<deadlineVars, bindingVars, settings>>
  \/ /\ NoWait /\ BindingInit /\ RowsInit
     /\ ConfigurationNext /\ UNCHANGED <<deadlineVars, bindingVars, mapping>>

Spec == Init /\ [][Next]_<<deadlineVars, bindingVars, mapping, settings>>
=============================================================================
