----------------------------- MODULE Configuration -----------------------------
(***************************************************************************)
(* How settings are found: the preset of the environment under the user's  *)
(* configuration, environment variables and explicit options for one       *)
(* connection, the checks at start, and what an adapter makes of the       *)
(* options it is given.                                                    *)
(*                                                                         *)
(* An object is a function of its own keys: the methods that an instance   *)
(* of a class inherits are none of them.  A key that is present but        *)
(* undefined has the value Undefined.  Environment variables are an object *)
(* too, of texts; Leading gives the number a text starts with, and a text  *)
(* outside its domain starts with none.                                    *)
(***************************************************************************)
EXTENDS Integers, Sequences

CONSTANTS Undefined,     \* the value of a key an object does not have
          null,
          Leading,       \* the number a text starts with
          Percent,       \* texts as a URL has to spell them
          UserConfigs,   \* what createConnection() is given
          Explicit,      \* the names of environments resolveConfig() may be given
          Environments,  \* variables of the process: texts by name
          Overrides,     \* explicit options of one connection
          NamedVars,     \* variables of named connections: texts by their words
          Conns,         \* connections to be checked for production
          WellFormed,    \* the texts that look like a URL
          Auths,         \* ways to log in to MSSQL
          Fitting,       \* the texts that match the patterns of validateAuth()
          MssqlOptions,  \* options of a connection to MSSQL beside its login
          Urls,          \* URLs: what was meant by each text that is one
          PoolOptions,   \* options of a pool of MySQL
          Files          \* configuration files: [state, export]

Adapters == {"postgres", "mysql", "mssql", "sqlite"}
Network == {"url", "host", "port", "database", "user", "password"}
NamedFields == Network \union {"ssl", "authType", "domain", "upn", "readonly"}

\* A value of a configuration is a leaf or an object.
Leaf(value) == [is |-> "leaf", value |-> value]
Obj(object) == [is |-> "object", at |-> object]
Leaves(object) == Obj([k \in DOMAIN object |-> Leaf(object[k])])
KeysOf(value) == IF value.is = "object" THEN DOMAIN value.at ELSE {}
Child(value, key) == IF key \in KeysOf(value) THEN value.at[key] ELSE Leaf(Undefined)

Optional(S) == S \union {Undefined}
IsLeaf(value, S) == value.is = "leaf" /\ value = Leaf(value.value) /\ value.value \in S
IsSection(value, S) ==
  \/ IsLeaf(value, {Undefined, null})
  \/ value.is = "object" /\ \A k \in DOMAIN value.at : IsLeaf(value.at[k], S)

\* What the checks read of a configuration; the rest of it may be anything.
Numbers == Int \union {Undefined, null}
IsConfig(user) ==
  LET at(key) == Child(Obj(user), key)
  IN /\ \A section \in {"pool", "timeout", "cache"} : IsSection(at(section), Numbers)
     /\ IsSection(at("connection"), Optional(STRING))
     /\ \A key \in {"deadlockRetries", "tvpCopyThreshold"} : IsLeaf(at(key), Numbers)
     /\ IsLeaf(at("env"), Optional(STRING))

Logins == [type : {"userpass"}, username : STRING, password : STRING]
  \union [type : {"windows"}, username : Optional(STRING), domain : Optional(STRING)]
  \union [type : {"windows-upn"}, upn : STRING, password : STRING]
  \union [type : {"connection-string"}, url : STRING]
  \union [type : {"azure-ad"}, tenantId : STRING, clientId : STRING,
          clientSecret : Optional(STRING), managedIdentity : Optional({"true", "false"})]

\* The texts that the code knows by name where a value may be missing.
Words == {"development", "production", "test", "true", "require", ":memory:", ""}

\* Variables of a process are texts: one that is there has a value.
ASSUME ConfigurationAssumption ==
  /\ Undefined \notin Words /\ Undefined \notin Int /\ Undefined \notin DOMAIN Leading
  /\ null # Undefined /\ null \notin Int
  /\ \A text \in DOMAIN Percent : Percent[text] = "" <=> text = ""
  /\ \A user \in UserConfigs : IsConfig(user)
  /\ \A vars \in Environments \union NamedVars : \A name \in DOMAIN vars : vars[name] # Undefined
  /\ ":memory:" \notin WellFormed
  /\ Auths \subseteq Logins /\ Undefined \notin Auths
  /\ \A text \in DOMAIN Urls : \A part \in {"user", "password", "database"} : Urls[text][part] \in DOMAIN Percent
  /\ Undefined \notin DOMAIN Urls /\ Undefined \notin DOMAIN Percent
  /\ Files \subseteq [state : {"absent", "broken", "loads"},
                     export : {"undefined", "scalar", "no connections", "connections"}]

VARIABLE settings  \* what was resolved last: [of, ..., got]

\* Object spread.
Over(new, old) ==
  [k \in DOMAIN new \union DOMAIN old |-> IF k \in DOMAIN new THEN new[k] ELSE old[k]]
Get(object, key) == IF key \in DOMAIN object THEN object[key] ELSE Undefined
Only(object, keys) == [k \in keys \cap DOMAIN object |-> object[k]]
Defined(object) == Only(object, {k \in DOMAIN object : object[k] # Undefined})
FirstDefined(values) ==
  LET there == {i \in DOMAIN values : values[i] # Undefined}
  IN IF there = {} THEN Undefined ELSE values[CHOOSE i \in there : \A j \in there : i <= j]

-----------------------------------------------------------------------------
(* config/resolve.ts and the presets. *)

\* A logger of the library is an object of functions, here named after it.
Logger(name) == Leaves([level \in {"debug", "info", "warn", "error", "fatal"} |-> name])
LogOf(logger, level) == [logger |-> Logger(logger), level |-> Leaf(level)]

DEVELOPMENT_DEFAULTS ==
  [env |-> Leaf("development"), pool |-> Leaves([min |-> 1, max |-> 5]),
   timeout |-> Leaves([query |-> 60000, transaction |-> 120000]),
   cache |-> Obj([maxSize |-> Leaf(100), ttlMs |-> Leaf(300000), maxAgeMs |-> Leaf(null),
                  reaperIntervalMs |-> Leaf(60000)]),
   log |-> Obj(Over([slowQueryMs |-> Leaf(200)], LogOf("console", "debug"))), errorVerbosity |-> Leaf("full"),
   maskSensitive |-> Leaf("false"), deadlockRetries |-> Leaf(1)]
PRODUCTION_DEFAULTS ==
  [env |-> Leaf("production"),
   pool |-> Leaves([min |-> 5, max |-> 20, maxConnectionAgeMs |-> 3600000, maxUseCount |-> 10000]),
   timeout |-> Leaves([query |-> 30000, transaction |-> 60000]),
   cache |-> Leaves([maxSize |-> 1000, ttlMs |-> 3600000, maxAgeMs |-> 86400000, reaperIntervalMs |-> 60000]),
   log |-> Obj(Over([slowQueryMs |-> Leaf(1000)], LogOf("json", "warn"))), errorVerbosity |-> Leaf("minimal"),
   maskSensitive |-> Leaf("true"), deadlockRetries |-> Leaf(3)]
TEST_DEFAULTS ==
  [env |-> Leaf("test"), pool |-> Leaves([min |-> 1, max |-> 1]),
   timeout |-> Leaves([query |-> 5000, transaction |-> 10000]), cache |-> Leaves([maxSize |-> 0]),
   log |-> Obj(LogOf("noop", "fatal")), errorVerbosity |-> Leaf("full"),
   maskSensitive |-> Leaf("false"), deadlockRetries |-> Leaf(0)]
PRESETS == [development |-> DEVELOPMENT_DEFAULTS, production |-> PRODUCTION_DEFAULTS,
            test |-> TEST_DEFAULTS]

\* An unknown name is the development environment.
detectEnv(explicit, vars) ==
  LET raw == FirstDefined(<<explicit, Get(vars, "BUN_ENV"), Get(vars, "NODE_ENV"), "development">>)
  IN IF raw \in DOMAIN PRESETS THEN raw ELSE "development"

Skipped(value) == value = Leaf(Undefined)

\* Mutant: a nested object of the user replaces the preset's.
deepMergeShallow(base, override) ==
  Over([k \in {j \in DOMAIN override : ~Skipped(override[j])} |-> override[k]], base)

\* Two objects merge as Nested() has it, anything else replaces; undefined is no value.
MergeBy(Nested(_, _), base, override) ==
  LET both(k) == k \in DOMAIN base /\ base[k].is = "object" /\ override[k].is = "object"
      value(k) == IF both(k) THEN Nested(base[k], override[k]) ELSE override[k]
  IN Over([k \in {j \in DOMAIN override : ~Skipped(override[j])} |-> value(k)], base)

\* The recursion ends where the preset has no more objects: its deepest one is
\* log.logger.
Replaced(base, override) == override
MergedLogger(base, override) == Obj(MergeBy(Replaced, base.at, override.at))
MergedSection(base, override) == Obj(MergeBy(MergedLogger, base.at, override.at))
deepMerge(base, override) == MergeBy(MergedSection, base, override)

resolveConfig(user, env, vars) ==
  LET environment == detectEnv(FirstDefined(<<env, Child(Obj(user), "env").value>>), vars)
  IN Over([env |-> Leaf(environment)], deepMerge(PRESETS[environment], user))

\* config/validate.ts: what does not throw.  null counts as 0, and is no section.
Numeric(value) == IF value = null THEN 0 ELSE value
validateConfig(config) ==
  LET at(section) == Child(Obj(config), section)
      pool(key) == Child(at("pool"), key).value
      atLeast(value, bound) == value = Undefined \/ Numeric(value) >= bound
  IN /\ \A section \in {"pool", "timeout", "cache"} : at(section) # Leaf(null)
     /\ atLeast(pool("min"), 0) /\ atLeast(pool("max"), 1)
     /\ pool("min") # Undefined /\ pool("max") # Undefined => Numeric(pool("min")) <= Numeric(pool("max"))
     /\ \A key \in KeysOf(at("timeout")) : atLeast(Child(at("timeout"), key).value, 0)
     /\ \A key \in {"tvpCopyThreshold", "deadlockRetries"} : atLeast(at(key).value, 0)
     /\ atLeast(Child(at("cache"), "maxSize").value, 0)

-----------------------------------------------------------------------------
(* config/resolve-connection.ts *)

envInt(vars, name) ==
  IF Get(vars, name) \in DOMAIN Leading THEN Leading[Get(vars, name)] ELSE Undefined
\* A boolean is the text "true" or "false".
envBool(vars, name) ==
  CASE Get(vars, name) = Undefined -> Undefined
    [] Get(vars, name) = "true" -> "true"
    [] OTHER -> "false"
envSsl(vars, name) ==
  IF Get(vars, name) = "require" THEN "require" ELSE envBool(vars, name)

\* The fields each adapter reads from variables.
ADAPTER_ENV_FIELDS == [postgres |-> Network \union {"ssl"}, mysql |-> Network,
                       mssql |-> Network \union {"authType", "domain", "upn"}, sqlite |-> {"url"}]

ReadVar(vars, field) ==
  CASE field = "port" -> envInt(vars, field)
    [] field = "ssl" -> envSsl(vars, field)
    [] field = "readonly" -> envBool(vars, field)
    [] OTHER -> Get(vars, field)
buildFromEnvFields(vars, fields) == Defined([f \in fields |-> ReadVar(vars, f)])

resolveConnectionConfig(adapter, vars, defaults, overrides) ==
  Over(Defined(overrides), Over(buildFromEnvFields(vars, ADAPTER_ENV_FIELDS[adapter]), Defined(defaults)))

DEV_CONNECTIONS ==
  [postgres |-> [host |-> "localhost", port |-> 5432, database |-> "dev", user |-> "postgres"],
   mysql |-> [host |-> "localhost", port |-> 3306, database |-> "dev", user |-> "root"],
   mssql |-> [host |-> "localhost", port |-> 1433, database |-> "dev", user |-> "sa"],
   sqlite |-> [url |-> "dev.db"]]

\* connections/env-loader.ts.  A variable SQUN_CONN_A_B_F is the sequence of
\* the words after the prefix; the name of a connection is the first of them.
resolveNamedConnectionConfig(vars, name) ==
  LET mine == [f \in {g \in NamedFields : <<name, g>> \in DOMAIN vars} |-> vars[<<name, f>>]]
  IN buildFromEnvFields(mine, NamedFields)
discoverNamedConnections(vars) ==
  LET names == {key[1] : key \in {k \in DOMAIN vars : Len(k) > 1}}
  IN [name \in names |-> resolveNamedConnectionConfig(vars, name)]

-----------------------------------------------------------------------------
(* config/validate-production.ts: an error, or the warnings that are logged. *)

Refuses(code) == [error |-> code, warnings |-> {}]
Warns(warnings) == [error |-> "none", warnings |-> warnings]

productionSqlite(conn) ==
  CASE Get(conn, "url") = Undefined -> Refuses("CONFIG_MISSING")
    [] Get(conn, "url") = ":memory:" -> Refuses("CONFIG_PRODUCTION_GUARD")
    [] OTHER -> Warns({})

productionNetwork(adapter, conn) ==
  LET has(key) == Get(conn, key) # Undefined
      enough == has("url") \/ (has("host") /\ has("password")
                               /\ (adapter = "mssql" => has("authType")))
  IN CASE has("url") /\ Get(conn, "url") \notin WellFormed -> Refuses("CONFIG_URL_MALFORMED")
       [] ~has("url") /\ ~enough -> Refuses("CONFIG_MISSING")
       [] OTHER -> Warns({w \in {"localhost", "ssl", "superuser"} :
            \/ w = "localhost" /\ Get(conn, "host") \in {"localhost", "127.0.0.1"}
            \/ w = "ssl" /\ Get(conn, "ssl") \in {"false", Undefined}
            \/ w = "superuser" /\ Get(conn, "user") \in {"root", "sa", "postgres"}})

validateProductionConfig(env, adapter, conn) ==
  CASE env # "production" -> Warns({})
    [] env = "production" /\ adapter = "sqlite" -> productionSqlite(conn)
    [] env = "production" /\ adapter # "sqlite" -> productionNetwork(adapter, conn)

-----------------------------------------------------------------------------
(* db.ts *)

\* The values of an object whose keys are leaves.
Plain(value) == [k \in KeysOf(value) |-> Child(value, k).value]

\* It names no environment itself, and no login is validated.
createConnection(adapter, user, vars) ==
  LET config == resolveConfig(user, Undefined, vars)
      conn == Plain(Child(Obj(config), "connection"))
  IN [config |-> config,
      error |-> IF validateConfig(config)
                THEN validateProductionConfig(config["env"].value, adapter, conn).error
                ELSE "CONFIG_INVALID_VALUE"]

-----------------------------------------------------------------------------
(* What the adapters' constructors make of their options *)

\* User and password stay as the URL spells them; a part that is missing is "".
newURL(text) ==
  LET meant == Urls[text]
  IN [hostname |-> meant.host, port |-> meant.port, username |-> Percent[meant.user],
      password |-> Percent[meant.password], pathname |-> Percent[meant.database]]

UrlPart(text) == IF text = "" THEN Undefined ELSE text
UrlParts(u) == [host |-> UrlPart(u.hostname), user |-> UrlPart(u.username), password |-> UrlPart(u.password),
                database |-> UrlPart(u.pathname), port |-> IF u.port = "" THEN Undefined ELSE Leading[u.port]]

\* mysql.ts: with a URL, unless it is empty, the other options are not looked at.
HasUrl(options) == Get(options, "url") \notin {Undefined, ""}
buildPoolConfig(options) ==
  IF HasUrl(options)
  THEN Defined(UrlParts(newURL(options["url"])))
  ELSE Over([host |-> FirstDefined(<<Get(options, "host"), "localhost">>),
             port |-> FirstDefined(<<Get(options, "port"), 3306>>)],
            Defined(Only(options, {"user", "password", "database"})))

\* auth/validate-auth.ts.  Each text has a pattern for what it is.
validateAuth(auth) ==
  CASE auth.type = "userpass" -> auth.username \in Fitting /\ auth.password \in Fitting
    [] auth.type = "windows" -> Get(auth, "domain") # Undefined /\ Get(auth, "username") # Undefined
                                  => auth.domain \in Fitting /\ auth.username \in Fitting
    [] auth.type = "windows-upn" -> auth.upn \in Fitting /\ auth.password \in Fitting
    [] auth.type = "connection-string" -> auth.url # ""
    [] auth.type = "azure-ad" -> /\ auth.tenantId \in Fitting /\ auth.clientId \in Fitting
                                 /\ \/ Get(auth, "clientSecret") # Undefined
                                    \/ Get(auth, "managedIdentity") = "true"

\* mssql.ts: the authentication's own fields replace those of the options.  Azure
\* always means a service principal with a secret, whatever managedIdentity says.
AuthFields(auth, options) ==
  CASE auth.type = "userpass" -> [user |-> auth.username, password |-> auth.password]
    [] auth.type = "windows" ->
         Over([domain |-> FirstDefined(<<Get(auth, "domain"), Get(options, "domain")>>)],
              Defined([user |-> Get(auth, "username")]))
    [] auth.type = "windows-upn" -> [user |-> auth.upn, password |-> auth.password]
    [] auth.type = "azure-ad" ->
         [authentication |-> [type |-> "service-principal-secret",
                              clientId |-> auth.clientId, tenantId |-> auth.tenantId,
                              clientSecret |-> FirstDefined(<<Get(auth, "clientSecret"), "">>)]]
    [] auth.type = "connection-string" -> <<>>

buildConfig(options) ==
  LET base == [server |-> FirstDefined(<<Get(options, "host"), "localhost">>),
               port |-> FirstDefined(<<Get(options, "port"), 1433>>),
               database |-> Get(options, "database"), user |-> Get(options, "user"),
               password |-> Get(options, "password")]
      auth == Get(options, "auth")
  IN IF auth # Undefined THEN Over(AuthFields(auth, options), base) ELSE base

\* What the driver connects with; an empty connection string is none.
getPool(options) ==
  LET auth == Get(options, "auth")
      url == IF auth # Undefined /\ auth.type = "connection-string" THEN auth.url ELSE ""
  IN IF url # "" THEN [url |-> url] ELSE buildConfig(options)

\* connections/config-file.ts: a module is absent, broken or has an export.
loadConfigFile(file) ==
  CASE file.state = "absent" -> "null"
    [] file.state = "broken" -> "CONFIG_INVALID_VALUE"
    [] file.state = "loads" /\ file.export = "undefined" -> "null"
    [] file.state = "loads" /\ file.export \in {"scalar", "no connections"} -> "CONFIG_INVALID_VALUE"
    [] file.state = "loads" /\ file.export = "connections" -> "config"

-----------------------------------------------------------------------------
(* One of them is asked for at a time. *)

Unasked == [of |-> "nothing"]
ConfigurationInit == settings = Unasked

ResolvesConfig(user, env, vars) ==
  settings' = [of |-> "config", user |-> user, env |-> env, vars |-> vars,
               got |-> resolveConfig(user, env, vars)]
CreatesConnection(adapter, user, vars) ==
  settings' = [of |-> "created", adapter |-> adapter, user |-> user, vars |-> vars,
               got |-> createConnection(adapter, user, vars)]
ResolvesConnection(adapter, vars, overrides) ==
  settings' = [of |-> "connection", adapter |-> adapter, vars |-> vars, overrides |-> overrides,
               got |-> resolveConnectionConfig(adapter, vars, DEV_CONNECTIONS[adapter], overrides)]
Discovers(vars) ==
  settings' = [of |-> "named", vars |-> vars, got |-> discoverNamedConnections(vars)]
Guards(env, adapter, conn) ==
  settings' = [of |-> "production", env |-> env, adapter |-> adapter, conn |-> conn,
               got |-> validateProductionConfig(env, adapter, conn)]
ValidatesAuth(auth) == settings' = [of |-> "auth", auth |-> auth, accepted |-> validateAuth(auth)]
\* The driver connects; nobody has validated the login unless the caller did.
LogsIn(auth, options) ==
  settings' = [of |-> "login", auth |-> auth, options |-> options,
               got |-> getPool(Over([auth |-> auth], options))]
\* A text that is no URL makes the constructor throw.
MakesPool(options) ==
  LET throws == HasUrl(options) /\ options["url"] \notin DOMAIN Urls
  IN settings' = [of |-> "pool", options |-> options, throws |-> throws,
                  got |-> IF throws THEN <<>> ELSE buildPoolConfig(options)]
LoadsFile(file) ==
  settings' = [of |-> "file", file |-> file, got |-> loadConfigFile(file)]
\* The caller has what it asked for.
Taken == settings # Unasked /\ settings' = Unasked

ConfigurationNext ==
  \/ /\ settings = Unasked
     /\ \/ \E user \in UserConfigs, env \in Explicit, vars \in Environments : ResolvesConfig(user, env, vars)
        \/ \E adapter \in Adapters, user \in UserConfigs, vars \in Environments :
             CreatesConnection(adapter, user, vars)
        \/ \E adapter \in Adapters, vars \in Environments, overrides \in Overrides :
             ResolvesConnection(adapter, vars, overrides)
        \/ \E vars \in NamedVars : Discovers(vars)
        \/ \E env \in DOMAIN PRESETS, adapter \in Adapters, conn \in Conns : Guards(env, adapter, conn)
        \/ \E auth \in Auths : ValidatesAuth(auth)
        \/ \E auth \in Optional(Auths), options \in MssqlOptions : LogsIn(auth, options)
        \/ \E options \in PoolOptions : MakesPool(options)
        \/ \E file \in Files : LoadsFile(file)
  \/ Taken

ConfigurationSpec == ConfigurationInit /\ [][ConfigurationNext]_settings

-----------------------------------------------------------------------------
(* What each must come to *)

\* The number that the text of a port begins with; a flag is "true" or "false".
Parsed(field, text) ==
  CASE field = "port" -> IF text \in DOMAIN Leading THEN Leading[text] ELSE Undefined
    [] field \in {"ssl", "readonly"} -> IF text = "true" \/ (field = "ssl" /\ text = "require")
                                       THEN text ELSE "false"
    [] OTHER -> text
VariableOf(vars, name, field) == IF name \in DOMAIN vars THEN Parsed(field, vars[name]) ELSE Undefined

\* What is left of the preset under a value of the user's: nothing, if that value
\* is there and is no object.
Beneath(user, preset) == IF user.is = "object" \/ Skipped(user) THEN preset ELSE Leaf(Undefined)
LaidOver(got, user, preset) ==
  /\ Skipped(user) => got = preset
  /\ ~Skipped(user) /\ user.is # "object" => got = user
  /\ user.is = "object" => got.is = "object" /\ KeysOf(got) \subseteq KeysOf(user) \union KeysOf(preset)

\* Laid over each other at a key, at every key of that, and at every key of those.
LaidOverAt(got, user, preset, a) ==
  LET g(key) == Child(Child(got, a), key)
      u(key) == Child(Child(user, a), key)
      p(key) == Child(Beneath(Child(user, a), Child(preset, a)), key)
      keys(us, pre) == KeysOf(us) \union KeysOf(pre)
  IN /\ LaidOver(Child(got, a), Child(user, a), Child(preset, a))
     /\ \A b \in keys(Child(user, a), Child(preset, a)) :
          /\ LaidOver(g(b), u(b), p(b))
          /\ \A c \in keys(u(b), p(b)) :
               LaidOver(Child(g(b), c), Child(u(b), c), Child(Beneath(u(b), p(b)), c))

Bounded(config) ==
  LET pool(key) == Child(Child(Obj(config), "pool"), key).value
  IN pool("max") \in Int /\ pool("max") > 0 /\ Numeric(pool("min")) \in 0..pool("max")

\* The environment that is named first, if there is one of that name.
EnvironmentOf(explicit, user, vars) ==
  LET named == FirstDefined(<<explicit, Child(Obj(user), "env").value,
                              Get(vars, "BUN_ENV"), Get(vars, "NODE_ENV")>>)
  IN IF named \in {"production", "test"} THEN named ELSE "development"

ConfigRight(got, env, user, vars) ==
  LET environment == EnvironmentOf(env, user, vars)
      preset == PRESETS[environment]
  IN /\ got["env"] = Leaf(environment)
     /\ \A a \in (DOMAIN user \union DOMAIN preset) \ {"env"} : LaidOverAt(Obj(got), Obj(user), Obj(preset), a)
     /\ validateConfig(got) => Bounded(got)

\* Of a connection: a server is named, and a password, unless they are in a URL.
Complete(adapter, conn) ==
  LET given(key) == Get(conn, key) # Undefined
  IN \/ given("url") /\ conn["url"] # ":memory:"
     \/ adapter # "sqlite" /\ given("host") /\ given("password")

CreatedRight(r) ==
  /\ ConfigRight(r.got.config, Undefined, r.user, r.vars)
  /\ r.got.error = "none" =>
       /\ Bounded(r.got.config)
       /\ EnvironmentOf(Undefined, r.user, r.vars) = "production"
            => Complete(r.adapter, Plain(Child(Obj(r.user), "connection")))

ConnectionRight(r) ==
  \A field \in NamedFields :
    Get(r.got, field) =
      FirstDefined(<<Get(r.overrides, field),
                     IF field \in ADAPTER_ENV_FIELDS[r.adapter] THEN VariableOf(r.vars, field, field)
                     ELSE Undefined,
                     Get(DEV_CONNECTIONS[r.adapter], field)>>)

\* Every connection that a variable names, with its own variables only.
NamedRight(r) ==
  /\ DOMAIN r.got = {name \in {key[1] : key \in DOMAIN r.vars} :
                       \E key \in DOMAIN r.vars : Len(key) > 1 /\ key[1] = name}
  /\ \A name \in DOMAIN r.got, field \in NamedFields :
       Get(r.got[name], field) = VariableOf(r.vars, <<name, field>>, field)

ProductionRight(r) == r.env = "production" /\ r.got.error = "none" => Complete(r.adapter, r.conn)

\* An Azure login that is let pass without a secret asks for a managed identity.
AuthRight(r) ==
  r.accepted /\ r.auth.type = "azure-ad" /\ r.auth.clientSecret = Undefined => r.auth.managedIdentity = "true"

\* The driver is given what the login says.  An Azure login is a service principal
\* with the login's secret or, when it has none, an empty one.
LoginRight(r) ==
  r.auth # Undefined =>
    /\ \A field \in {"username", "upn", "password", "domain"} \intersect DOMAIN r.auth :
         r.auth[field] # Undefined =>
           r.got[IF field \in {"username", "upn"} THEN "user" ELSE field] = r.auth[field]
    /\ r.auth.type = "connection-string" /\ r.auth.url # "" => r.got = [url |-> r.auth.url]
    /\ r.auth.type = "azure-ad" =>
         LET sent == r.got["authentication"]
         IN /\ sent.type = "service-principal-secret"
            /\ sent.clientId = r.auth.clientId /\ sent.tenantId = r.auth.tenantId
            /\ sent.clientSecret = IF r.auth.clientSecret = Undefined THEN "" ELSE r.auth.clientSecret

\* With a URL nothing else is heeded, and its parts stay as they are spelled.
PoolRight(r) ==
  IF HasUrl(r.options)
  THEN /\ r.throws <=> r.options["url"] \notin DOMAIN Urls
       /\ ~r.throws => \A field \in {"user", "password", "database"} :
            LET meant == Urls[r.options["url"]][field]
            IN Get(r.got, field) = IF meant = "" THEN Undefined ELSE Percent[meant]
  ELSE /\ ~r.throws
       /\ Get(r.got, "host") = FirstDefined(<<Get(r.options, "host"), "localhost">>)
       /\ \A field \in {"user", "password", "database"} : Get(r.got, field) = Get(r.options, field)

\* A configuration has, at every key down to three levels, the caller's value if
\* there is one that is not undefined, else the value of the preset of the
\* environment that was named first (a value that is no object, null too, hides all
\* that the preset has below it; a logger is merged like any other object, so that
\* the preset's methods stand in for those it inherits); one that validateConfig()
\* lets pass bounds its pool, and createConnection() starts in production only with
\* a server and a password or a URL (resolve.ts, validate.ts, db.ts).  A connection
\* has the explicit option, else the variable, else the default, and a named one
\* its own variables only (resolve-connection.ts, env-loader.ts).  The drivers are
\* given the login and the options as LoginRight and PoolRight have it (mssql.ts,
\* mysql.ts): the managed identity that validateAuth() lets pass is not used, and
\* nothing is decoded.
SettingsExact ==
  /\ settings.of = "config" =>
       ConfigRight(settings.got, settings.env, settings.user, settings.vars)
  /\ settings.of = "created" => CreatedRight(settings)
  /\ settings.of = "connection" => ConnectionRight(settings)
  /\ settings.of = "named" => NamedRight(settings)
  /\ settings.of = "production" => ProductionRight(settings)
  /\ settings.of = "auth" => AuthRight(settings)
  /\ settings.of = "login" => LoginRight(settings)
  /\ settings.of = "pool" => PoolRight(settings)
  /\ settings.of = "file" =>
       (settings.got = "config" => settings.file.state = "loads" /\ settings.file.export = "connections")
=============================================================================
