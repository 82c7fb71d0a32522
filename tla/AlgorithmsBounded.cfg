\* Settings of every kind asked for once; results of up to three rows.
\* Texts of three placeholders with two fragments at hand.
\* Two calls of a transaction, one of which heeds its signal, and a function
\* that is called up to five times.
SPECIFICATION Spec
CONSTANTS
  Missing = Missing
  v1 = v1
  v2 = v2
  Values = {v1, v2}
  Tables = {"t", "u"}
  Params <- MCParams
  Names = {"p", "q"}
  ColumnNames <- MCColumnNames
  Objects <- MCObjects
  Conflicts <- MCConflicts
  TableRows <- MCTableRows
  Columns = 2
  Capacity = 1
  MaxPlaces = 3
  MaxMade = 2
  Undefined = Undefined
  null = null
  Leading <- MCLeading
  Percent <- MCPercent
  UserConfigs <- MCUserConfigs
  Explicit <- MCExplicit
  Environments <- MCEnvironments
  Overrides <- MCOverrides
  NamedVars <- MCNamedVars
  Conns <- MCConns
  Auths <- MCAuths
  MssqlOptions <- MCMssqlOptions
  Urls <- MCUrls
  PoolOptions <- MCPoolOptions
  Files <- MCFiles
  Contents <- MCContents
  HeldRows <- MCHeldRows
  Nearest <- MCNearest
  JoinResults <- MCJoinResults
  QueryResults <- MCQueryResults
  WellFormed = {"x"}
  Fitting = {"good"}
  None = None
  Budgets = {0, 4}
  Globals = {None, 3}
  Limits = {None, 0, 2, 5}
  Calls = {c1, c2}
  Heeding = {c1}
  Adapter = "mysql"
  Failures <- MCFailures
  MaxRetries = 4
  BaseDelay = 2
  MaxDelay = 10
  MaxElapsed = 6
INVARIANTS
  BindingExact
  SettingsExact
  RowsExact
  DeadlinesKept
CHECK_DEADLOCK FALSE
