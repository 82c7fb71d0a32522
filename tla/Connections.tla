------------------------------ MODULE Connections ------------------------------
(***************************************************************************)
(* Which server an operation reaches: the registry of named connections    *)
(* and the precedence of the ways to name one, read and write routing,     *)
(* failover, tenants, the read-only guard and the process-wide pool of the *)
(* MSSQL driver, while servers go down and come back. Groups, failover,    *)
(* tenants and the guard are exported for callers to use: createConnections*)
(* itself only looks names up.                                             *)
(*                                                                         *)
(* A server is named after the connection that is configured for it.       *)
(***************************************************************************)
EXTENDS Integers, Sequences, FiniteSets, SequencesExt

CONSTANTS Names,         \* the registered connections
          None, Unknown, \* no name, and a name that is not registered
          defaultName,
          Mssql,         \* the connections whose adapter is a MssqlAdapter
          Guarded,       \* the read-only connections, in strict mode
          Groups,        \* the connection groups, and of each
          writeName, readNames,       \* its writer and its list of replicas
          primaryName, standbyNames,  \* the failover group
          tenantOf,      \* the resolver: the connection of each tenant
          Failovers,     \* calls of failover() that may overlap
          MaxReads, MaxOutages        \* bounds
ASSUME ConnectionsAssumption ==
  /\ None \notin Names /\ Unknown \notin Names
  /\ defaultName \in Names /\ primaryName \in Names /\ standbyNames \in Seq(Names)
  /\ writeName \in [Groups -> Names] /\ readNames \in [Groups -> Seq(Names)]
  /\ Mssql \subseteq Names /\ Guarded \subseteq Names
  /\ MaxReads \in Nat /\ MaxOutages \in Nat

VARIABLES up,          \* servers that answer
          outages,
          global,      \* the server of the driver's process-wide pool
          pools,       \* the adapters that hold that pool
          roundRobinIndex, reads,   \* per group; reads counts the turns of each place in the list
          active,      \* of the failover group
          failing,     \* per failover: [at, refused]; at is its standby's index
          promoted,    \* what the last promotion saw: [name, refused]
          last         \* the last operation: [want, server, write, how, group]

vars == <<up, outages, global, pools, roundRobinIndex, reads, active, failing, promoted, last>>
routing == <<global, pools, last>>
grouping == <<roundRobinIndex, reads>>
failures == <<active, failing, promoted>>

Off == [at |-> 0, refused |-> {}]
Init ==
  /\ up = Names /\ outages = 0
  /\ global = None /\ pools = {}
  /\ roundRobinIndex = [g \in Groups |-> 0]
  /\ reads = [g \in Groups |-> [i \in DOMAIN readNames[g] |-> 0]]
  /\ active = primaryName /\ failing = [f \in Failovers |-> Off]
  /\ promoted = [name |-> None, refused |-> {}]
  /\ last = [want |-> None, server |-> None, write |-> FALSE, how |-> "none", group |-> None]

Down(server) ==
  /\ server \in up /\ outages < MaxOutages
  /\ up' = up \ {server} /\ outages' = outages + 1
  /\ UNCHANGED <<routing, grouping, failures>>
Recovers(server) ==
  /\ server \notin up
  /\ up' = up \union {server}
  /\ UNCHANGED <<outages, routing, grouping, failures>>

-----------------------------------------------------------------------------
(* Reaching a server *)

\* The driver connects the first configuration it is given and gives the same
\* pool to everyone after that, until it is closed.
Server(name) == IF name \in Mssql /\ global # None THEN global ELSE name

\* What an operation or a ping of an adapter does first.
Connects(name) ==
  IF name \in Mssql /\ (global # None \/ name \in up)
  THEN global' = Server(name) /\ pools' = pools \union {name}
  ELSE UNCHANGED <<global, pools>>

ReachesBy(name, write, how, group) ==
  /\ last' = [want |-> name, server |-> Server(name), write |-> write, how |-> how, group |-> group]
  /\ Connects(name)
Reaches(name, write, how) == ReachesBy(name, write, how, None)

\* Another adapter that holds the pool finds it closed, and connects again.
Closes(name) ==
  /\ name \in pools
  /\ global' = None /\ pools' = {}
  /\ UNCHANGED <<up, outages, grouping, failures, last>>

-----------------------------------------------------------------------------
(* connections/registry.ts, resolve-connection.ts, db.ts, readonly/guard.ts *)

get(name) == IF name = None THEN defaultName ELSE name
Registered(name) == get(name) \in Names

Asks(name, write, how) ==
  /\ Registered(name)
  /\ Reaches(get(name), write, how)
  /\ UNCHANGED <<up, outages, grouping, failures>>

\* An operation of createConnections(), or of the database use() gives: neither
\* asks whether the connection is read-only.
Operation(option, write) == Asks(option, write, "operation")
Scoped(name, write) == name # None /\ Asks(name, write, "operation")

\* The most specific name: of the call, of use(), of the builder.
resolveConnection(option, scope, builder) ==
  IF option # None THEN option ELSE IF scope # None THEN scope ELSE builder
Options == Names \union {None, Unknown}
Resolvable == {resolveConnection(o, s, b) : o, s, b \in Options}
Resolved(name, write) == name \in Resolvable /\ Asks(name, write, "operation")

\* The guard is for callers to ask before they send.
assertWritable(name, write) == write => name \notin Guarded
Checked(name, write) == assertWritable(get(name), write) /\ Asks(name, write, "checked")

\* forTenant(): the resolver's name must be registered.
Tenant(tenant, write) == tenantOf[tenant] # None /\ Asks(tenantOf[tenant], write, "tenant")

\* pingAll() pings them all at once: whichever MSSQL adapter comes first
\* connects for the others, or fails for them.
pingAll ==
  /\ global = None
  /\ \E first \in Mssql : IF first \in up THEN global' = first /\ pools' = Mssql
                                           ELSE UNCHANGED <<global, pools>>
  /\ UNCHANGED <<up, outages, grouping, failures, last>>

-----------------------------------------------------------------------------
(* connections/group.ts *)

\* Mutant: the last replica is never picked.
pickReadButLast(g, idx) == (idx % (Len(readNames[g]) - 1)) + 1

\* The place in the list that a running number comes to.
pickRead(g, idx) == (idx % Len(readNames[g])) + 1

\* Round robin, which least-load falls back to.
getRead(g) ==
  /\ readNames[g] # <<>> /\ roundRobinIndex[g] < MaxReads
  /\ LET place == pickRead(g, roundRobinIndex[g])
     IN /\ roundRobinIndex' = [roundRobinIndex EXCEPT ![g] = @ + 1]
        /\ reads' = [reads EXCEPT ![g][place] = @ + 1]
        /\ ReachesBy(readNames[g][place], FALSE, "group", g)
  /\ UNCHANGED <<up, outages, failures>>

\* The random mode keeps no index.
getReadRandom(g) ==
  /\ \E place \in DOMAIN readNames[g] : ReachesBy(readNames[g][place], FALSE, "group", g)
  /\ UNCHANGED <<up, outages, grouping, failures>>

\* Without replicas the writer is read from, in every mode.
getReadOfWriter(g) ==
  /\ readNames[g] = <<>>
  /\ ReachesBy(writeName[g], FALSE, "group", g)
  /\ UNCHANGED <<up, outages, grouping, failures>>

getWrite(g) ==
  /\ ReachesBy(writeName[g], TRUE, "group", g)
  /\ UNCHANGED <<up, outages, grouping, failures>>

-----------------------------------------------------------------------------
(* connections/failover.ts *)

getActive(write) ==
  /\ Reaches(active, write, "failover")
  /\ UNCHANGED <<up, outages, grouping, failures>>

Tries(f, i, refused) == failing' = [failing EXCEPT ![f] = [at |-> i, refused |-> refused]]

failover(f) ==
  /\ failing[f].at = 0 /\ standbyNames # <<>>
  /\ Tries(f, 1, {})
  /\ UNCHANGED <<up, outages, routing, grouping, active, promoted>>

\* The standby answers: it is promoted, whatever others did meanwhile.
PingAnswered(f) ==
  LET name == standbyNames[failing[f].at]
  IN /\ failing[f].at # 0 /\ Server(name) \in up
     /\ active' = name
     /\ promoted' = [name |-> name, refused |-> failing[f].refused]
     /\ failing' = [failing EXCEPT ![f] = Off]
     /\ Connects(name)
     /\ UNCHANGED <<up, outages, grouping, last>>

\* Mutant: the standby after the one that refused is passed over as well.
SkipsOne(i) == i + 2

NextTried(i) == i + 1

\* It does not: the next one is tried, and after the last one failover() throws.
PingRefused(f) ==
  LET at == failing[f].at
      then == NextTried(at)
  IN /\ at # 0 /\ Server(standbyNames[at]) \notin up
     /\ IF then <= Len(standbyNames)
        THEN Tries(f, then, failing[f].refused \union {standbyNames[at]})
        ELSE failing' = [failing EXCEPT ![f] = Off]
     /\ Connects(standbyNames[at])
     /\ UNCHANGED <<up, outages, grouping, active, promoted, last>>

Next ==
  \/ \E s \in Names : Down(s) \/ Recovers(s) \/ Closes(s)
  \/ \E name \in Options, write \in BOOLEAN :
       Operation(name, write) \/ Scoped(name, write) \/ Resolved(name, write)
         \/ Checked(name, write)
  \/ \E tenant \in DOMAIN tenantOf, write \in BOOLEAN : Tenant(tenant, write)
  \/ pingAll
  \/ \E g \in Groups : getRead(g) \/ getReadRandom(g) \/ getReadOfWriter(g) \/ getWrite(g)
  \/ \E write \in BOOLEAN : getActive(write)
  \/ \E f \in Failovers : failover(f) \/ PingAnswered(f) \/ PingRefused(f)

Spec == Init /\ [][Next]_vars

-----------------------------------------------------------------------------

\* An operation reaches the server of the connection it was routed to, and
\* another only when both are MSSQL servers: then it reaches the one whose
\* adapter connected first (mssql.ts: m.connect() is process-wide).  A group
\* writes to its writer only; its reads go to its replicas, whose places in the
\* list take turns in the round, or to the writer if the list is empty.
RoutedRight ==
  /\ last.server # last.want => {last.want, last.server} \subseteq Mssql
  /\ last.how = "group" =>
       IF last.write \/ readNames[last.group] = <<>> THEN last.want = writeName[last.group]
       ELSE last.want \in ToSet(readNames[last.group])
  /\ last.write /\ last.how = "checked" => last.want \notin Guarded
  /\ \A g \in Groups : \A i, j \in DOMAIN readNames[g] : reads[g][i] <= reads[g][j] + 1

\* The connection in use is the primary, or a standby that answered the failover
\* that promoted it after every standby before it had refused that same one;
\* overlapping failovers each promote by what they saw (failover.ts).
PromotedFirst ==
  IF promoted.name = None THEN active = primaryName
  ELSE /\ active = promoted.name
       /\ \E i \in DOMAIN standbyNames :
            /\ standbyNames[i] = active
            /\ promoted.refused = {standbyNames[j] : j \in 1..(i - 1)}
=============================================================================
