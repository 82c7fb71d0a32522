--------------------------- MODULE ConnectionsProofs ---------------------------
(***************************************************************************)
(* Proofs about Connections, for any connections, groups, tenants and      *)
(* failovers, and about Configuration, for any settings.                   *)
(*                                                                         *)
(* A failover that is under way has been refused by every standby before   *)
(* the one it pings, however many others promote meanwhile; the pool of    *)
(* the process is that of an MSSQL connection; and the reads a group has   *)
(* given out are full rounds over its list of replicas and the beginning   *)
(* of another one, whose length is the index modulo that of the list.      *)
(*                                                                         *)
(* Settings are read from objects that are laid over each other: what Get  *)
(* finds in them is what the chain of ?? finds in the sources              *)
(* (GetOverDefined); and values that are laid over each other have         *)
(* children that are (LaidBelow), which is followed three levels down.     *)
(***************************************************************************)
EXTENDS Connections, Configuration, TLAPS

Replicas(g) == Len(readNames[g])
Standbys == DOMAIN standbyNames
Before(i) == {standbyNames[j] : j \in 1..(i - 1)}

\* A failover that is under way pings one standby and remembers those before it.
Trying(f) == failing[f].at # 0 =>
  failing[f].at \in Standbys /\ failing[f].refused = Before(failing[f].at)
FailoversOK ==
  /\ DOMAIN failing = Failovers
  /\ \A f \in Failovers : failing[f].at \in Nat /\ Trying(f)

FailoverInv == FailoversOK /\ PromotedFirst

PoolOfMssql == global = None \/ global \in Mssql

\* Of the last operation.
Reached(op) ==
  /\ op.server # op.want => {op.want, op.server} \subseteq Mssql
  /\ op.how = "group" => IF op.write \/ readNames[op.group] = <<>>
                         THEN op.want = writeName[op.group]
                         ELSE op.want \in ToSet(readNames[op.group])
  /\ op.write /\ op.how = "checked" => op.want \notin Guarded

RoutingInv == PoolOfMssql /\ Reached(last)

\* Full rounds, and the first replicas of the next.
Rotated(g) ==
  \E rounds \in Nat : \A i \in 1..Replicas(g) :
    reads[g][i] = rounds + (IF i <= roundRobinIndex[g] % Replicas(g) THEN 1 ELSE 0)
RotationInv ==
  /\ roundRobinIndex \in [Groups -> Nat]
  /\ DOMAIN reads = Groups
  /\ \A g \in Groups : DOMAIN reads[g] = 1..Replicas(g)
  /\ \A g \in Groups : readNames[g] # <<>> => Rotated(g)

-----------------------------------------------------------------------------
(* Promotion *)

LEMMA FailoverInitially == Init => FailoverInv
  BY DEF Init, FailoverInv, FailoversOK, Trying, Off, PromotedFirst

\* Nothing but a failover touches what failovers know.
LEMMA FailoverUntouched ==
  ASSUME FailoverInv, UNCHANGED failures PROVE FailoverInv'
  BY DEF FailoverInv, FailoversOK, Trying, PromotedFirst, failures

LEMMA FailoverStarts ==
  ASSUME ConnectionsAssumption, FailoverInv, NEW f \in Failovers, failover(f) PROVE FailoverInv'
<1>1. Before(1) = {} /\ 1 \in Standbys
  BY DEF Before, failover, Standbys, ConnectionsAssumption
<1>2. failing' = [failing EXCEPT ![f] = [at |-> 1, refused |-> {}]] /\ UNCHANGED <<active, promoted>>
  BY DEF failover, Tries
<1>3. FailoversOK'
  BY <1>1, <1>2 DEF FailoverInv, FailoversOK, Trying
<1>4. PromotedFirst'
  BY <1>2 DEF FailoverInv, PromotedFirst
<1> QED
  BY <1>3, <1>4 DEF FailoverInv

LEMMA FailoverPromotes ==
  ASSUME ConnectionsAssumption, FailoverInv, NEW f \in Failovers, PingAnswered(f) PROVE FailoverInv'
<1> DEFINE i == failing[f].at
<1>1. i \in Standbys /\ failing[f].refused = Before(i)
  BY DEF FailoverInv, FailoversOK, Trying, PingAnswered
<1>2. /\ active' = standbyNames[i]
      /\ promoted' = [name |-> standbyNames[i], refused |-> Before(i)]
      /\ failing' = [failing EXCEPT ![f] = Off]
  BY <1>1 DEF PingAnswered
<1>3. FailoversOK'
  BY <1>2 DEF FailoverInv, FailoversOK, Trying, Off
<1>4. promoted'.name = standbyNames[i] /\ promoted'.name # None
  BY <1>1, <1>2 DEF Standbys, ConnectionsAssumption
<1>5. PromotedFirst'
  BY <1>1, <1>2, <1>4 DEF PromotedFirst, Before, Standbys
<1> QED
  BY <1>3, <1>5 DEF FailoverInv

LEMMA FailoverGoesOn ==
  ASSUME ConnectionsAssumption, FailoverInv, NEW f \in Failovers, PingRefused(f) PROVE FailoverInv'
<1> DEFINE i == failing[f].at
<1>1. i \in Standbys /\ failing[f].refused = Before(i) /\ UNCHANGED <<active, promoted>>
  BY DEF FailoverInv, FailoversOK, Trying, PingRefused
<1>2. PromotedFirst'
  BY <1>1 DEF FailoverInv, PromotedFirst
<1>3. CASE i + 1 <= Len(standbyNames)
  <2>1. failing' = [failing EXCEPT ![f] = [at |-> i + 1, refused |-> Before(i) \union {standbyNames[i]}]]
    BY <1>1, <1>3 DEF PingRefused, NextTried, Tries
  <2>2. i \in Nat \ {0} /\ i + 1 \in Standbys
    BY <1>1, <1>3 DEF Standbys, ConnectionsAssumption
  <2>3. Before(i) \union {standbyNames[i]} = Before(i + 1)
    BY <2>2 DEF Before
  <2>4. failing' = [failing EXCEPT ![f] = [at |-> i + 1, refused |-> Before(i + 1)]]
    BY <2>1, <2>3
  <2> HIDE DEF i
  <2>5. FailoversOK'
    BY <2>2, <2>4 DEF FailoverInv, FailoversOK, Trying
  <2> QED
    BY <1>2, <2>5 DEF FailoverInv
<1>4. CASE ~(i + 1 <= Len(standbyNames))
  BY <1>2, <1>4 DEF PingRefused, NextTried, FailoverInv, FailoversOK, Trying, Off
<1> QED
  BY <1>3, <1>4

LEMMA FailoverStep ==
  ASSUME ConnectionsAssumption, FailoverInv, [Next]_vars PROVE FailoverInv'
<1>1. ASSUME NEW f \in Failovers, failover(f) PROVE FailoverInv'
  BY <1>1, FailoverStarts
<1>2. ASSUME NEW f \in Failovers, PingAnswered(f) PROVE FailoverInv'
  BY <1>2, FailoverPromotes
<1>3. ASSUME NEW f \in Failovers, PingRefused(f) PROVE FailoverInv'
  BY <1>3, FailoverGoesOn
<1>4. CASE UNCHANGED failures
  BY <1>4, FailoverUntouched
<1>5. \/ \E f \in Failovers : failover(f) \/ PingAnswered(f) \/ PingRefused(f)
      \/ UNCHANGED failures
  BY DEF Next, vars, failures, Down, Recovers, Closes, Operation, Scoped, Resolved, Checked,
         Asks, Tenant, pingAll, getRead, getReadRandom,
         getReadOfWriter, getWrite, getActive
<1> QED
  BY <1>1, <1>2, <1>3, <1>4, <1>5

\* The connection in use is the primary, or was promoted by a failover that every
\* standby before it had refused (connections/failover.ts).
THEOREM ConnectionsPromotedFirst == Spec => []PromotedFirst
<1>1. Init => FailoverInv
  BY FailoverInitially
<1>2. FailoverInv /\ [Next]_vars => FailoverInv'
  BY FailoverStep, ConnectionsAssumption
<1>3. FailoverInv => PromotedFirst
  BY DEF FailoverInv
<1> QED
  BY <1>1, <1>2, <1>3, PTL DEF Spec

-----------------------------------------------------------------------------
(* Routing *)

LEMMA RoutingInitially == Init => RoutingInv
  BY DEF Init, RoutingInv, PoolOfMssql, Reached

\* Whatever is reached under some name, and whoever connects on the way.
LEMMA ReachesRight ==
  ASSUME RoutingInv, NEW name, NEW write \in BOOLEAN, NEW how, NEW group,
         ReachesBy(name, write, how, group),
         how = "group" => IF write \/ readNames[group] = <<>> THEN name = writeName[group]
                          ELSE name \in ToSet(readNames[group]),
         write /\ how = "checked" => name \notin Guarded
  PROVE RoutingInv'
<1>1. name \in Mssql /\ global # None => Server(name) \in Mssql
  BY DEF RoutingInv, PoolOfMssql, Server
<1>2. Server(name) # name => name \in Mssql /\ global # None
  BY DEF Server
<1>3. name \in Mssql => Server(name) \in Mssql
  BY <1>1, <1>2
<1>4. PoolOfMssql'
  BY <1>3 DEF ReachesBy, Connects, RoutingInv, PoolOfMssql
<1>5. last' = [want |-> name, server |-> Server(name), write |-> write, how |-> how, group |-> group]
  BY DEF ReachesBy
<1>6. Reached(last')
  BY <1>2, <1>3, <1>5 DEF Reached
<1> QED
  BY <1>4, <1>6 DEF RoutingInv, Reached

LEMMA ConnectsRight ==
  ASSUME RoutingInv, NEW name, Connects(name), UNCHANGED last PROVE RoutingInv'
  BY DEF RoutingInv, PoolOfMssql, Reached, Connects, Server

LEMMA PickedReplica ==
  ASSUME ConnectionsAssumption, NEW g \in Groups, readNames[g] # <<>>, NEW idx \in Nat
  PROVE pickRead(g, idx) \in 1..Replicas(g) /\ readNames[g][pickRead(g, idx)] \in ToSet(readNames[g])
<1>1. Replicas(g) \in Nat \ {0} /\ DOMAIN readNames[g] = 1..Replicas(g)
  BY DEF ConnectionsAssumption, Replicas
<1>2. idx % Replicas(g) \in 0..(Replicas(g) - 1)
  BY <1>1
<1>3. (idx % Replicas(g)) + 1 \in 1..Replicas(g)
  BY <1>1, <1>2
<1> QED
  BY <1>1, <1>3 DEF pickRead, ToSet, Replicas

LEMMA RoutingStep ==
  ASSUME ConnectionsAssumption, RoutingInv, roundRobinIndex \in [Groups -> Nat], [Next]_vars
  PROVE RoutingInv'
<1>1. ASSUME NEW name, NEW write \in BOOLEAN, Asks(name, write, "operation") PROVE RoutingInv'
  BY <1>1, ReachesRight DEF Asks, Reaches
<1>2. ASSUME NEW name, NEW write \in BOOLEAN, Checked(name, write) PROVE RoutingInv'
  BY <1>2, ReachesRight DEF Checked, Asks, Reaches, assertWritable, get
<1>3. ASSUME NEW tenant, NEW write \in BOOLEAN, Tenant(tenant, write) PROVE RoutingInv'
  BY <1>3, ReachesRight DEF Tenant, Asks, Reaches
<1>4. CASE pingAll
  BY <1>4 DEF pingAll, RoutingInv, PoolOfMssql, Reached
<1>5. ASSUME NEW g \in Groups, getRead(g) PROVE RoutingInv'
  <2>1. readNames[g][pickRead(g, roundRobinIndex[g])] \in ToSet(readNames[g])
    BY <1>5, PickedReplica DEF getRead
  <2>2. ReachesBy(readNames[g][pickRead(g, roundRobinIndex[g])], FALSE, "group", g)
    BY <1>5 DEF getRead
  <2> QED
    BY <2>1, <2>2, <1>5, ReachesRight DEF getRead
<1>6. ASSUME NEW g \in Groups, getReadRandom(g) PROVE RoutingInv'
  <2>1. PICK place \in DOMAIN readNames[g] : ReachesBy(readNames[g][place], FALSE, "group", g)
    BY <1>6 DEF getReadRandom
  <2>2. readNames[g][place] \in ToSet(readNames[g]) /\ readNames[g] # <<>>
    BY DEF ToSet, ConnectionsAssumption
  <2> QED
    BY <2>1, <2>2, ReachesRight
<1>7. ASSUME NEW g \in Groups, getReadOfWriter(g) \/ getWrite(g) PROVE RoutingInv'
  BY <1>7, ReachesRight DEF getReadOfWriter, getWrite
<1>8. ASSUME NEW write \in BOOLEAN, getActive(write) PROVE RoutingInv'
  BY <1>8, ReachesRight DEF getActive, Reaches
<1>9. ASSUME NEW f \in Failovers, PingAnswered(f) \/ PingRefused(f) PROVE RoutingInv'
  BY <1>9, ConnectsRight DEF PingAnswered, PingRefused
<1>10. ASSUME NEW server, Closes(server) PROVE RoutingInv'
  BY <1>10 DEF Closes, RoutingInv, PoolOfMssql, Reached
<1>11. CASE UNCHANGED routing
  BY <1>11 DEF routing, RoutingInv, PoolOfMssql, Reached
<1>12. \/ UNCHANGED routing
       \/ \E server \in Names : Closes(server)
       \/ \E name \in Options, write \in BOOLEAN : Asks(name, write, "operation") \/ Checked(name, write)
       \/ \E tenant \in DOMAIN tenantOf, write \in BOOLEAN : Tenant(tenant, write)
       \/ pingAll
       \/ \E g \in Groups : getRead(g) \/ getReadRandom(g) \/ getReadOfWriter(g) \/ getWrite(g)
       \/ \E write \in BOOLEAN : getActive(write)
       \/ \E f \in Failovers : PingAnswered(f) \/ PingRefused(f)
  BY DEF Next, vars, routing, Down, Recovers, Operation, Scoped, Resolved, failover
<1> QED
  BY <1>1, <1>2, <1>3, <1>4, <1>5, <1>6, <1>7, <1>8, <1>9, <1>10, <1>11, <1>12

-----------------------------------------------------------------------------
(* Rotation *)

\* Quotient and remainder are unique ...
LEMMA DivisionUnique ==
  ASSUME NEW L \in Nat \ {0}, NEW d \in Int, NEW r \in 0..(L - 1),
         NEW e \in Int, NEW s \in 0..(L - 1), L * d + r = L * e + s
  PROVE d = e /\ r = s
<1>1. L * (d - e) = s - r
  OBVIOUS
<1>2. d - e < 1
  <2>1. SUFFICES ASSUME d - e >= 1 PROVE FALSE
    OBVIOUS
  <2>2. L * (d - e) >= L
    BY <2>1
  <2> QED
    BY <2>2, <1>1
<1>3. d - e > -1
  <2>1. SUFFICES ASSUME e - d >= 1 PROVE FALSE
    OBVIOUS
  <2>2. L * (e - d) >= L
    BY <2>1
  <2>3. L * (e - d) = r - s
    BY <1>1
  <2> QED
    BY <2>2, <2>3
<1> QED
  BY <1>1, <1>2, <1>3

LEMMA Division ==
  ASSUME NEW L \in Nat \ {0}, NEW x \in Nat
  PROVE \E d \in Int, r \in 0..(L - 1) : r = x % L /\ x = L * d + r
<1>1. (x % L) \in 0..(L - 1)
  OBVIOUS
<1>2. x \div L \in Int
  OBVIOUS
<1>3. x = L * (x \div L) + (x % L)
  OBVIOUS
<1> QED
  BY <1>1, <1>2, <1>3

\* ... so that the remainder of the next number is the next one, or 0.
LEMMA NextRemainder ==
  ASSUME NEW L \in Nat \ {0}, NEW x \in Nat
  PROVE (x + 1) % L = IF (x % L) + 1 = L THEN 0 ELSE (x % L) + 1
<1>1. PICK d \in Int, r \in 0..(L - 1) : r = x % L /\ x = L * d + r
  BY Division
<1>2. PICK e \in Int, s \in 0..(L - 1) : s = (x + 1) % L /\ x + 1 = L * e + s
  BY Division, x + 1 \in Nat
<1>3. CASE r + 1 = L
  <2>1. L * (d + 1) = L * d + L
    OBVIOUS
  <2>2. L * (d + 1) + 0 = L * e + s
    BY <1>1, <1>2, <1>3, <2>1
  <2>3. 0 \in 0..(L - 1) /\ d + 1 \in Int
    OBVIOUS
  <2>4. 0 = s
    BY <2>2, <2>3, DivisionUnique
  <2> QED
    BY <2>4, <1>1, <1>2, <1>3
<1>4. CASE r + 1 # L
  <2>1. L * d + (r + 1) = L * e + s
    BY <1>1, <1>2
  <2>2. r + 1 \in 0..(L - 1)
    BY <1>4
  <2>3. r + 1 = s
    BY <2>1, <2>2, DivisionUnique
  <2> QED
    BY <2>3, <1>1, <1>2, <1>4
<1> QED
  BY <1>3, <1>4

LEMMA RotationInitially ==
  ASSUME ConnectionsAssumption, Init PROVE RotationInv
<1>1. ASSUME NEW g \in Groups PROVE DOMAIN reads[g] = 1..Replicas(g)
  BY DEF Init, ConnectionsAssumption, Replicas
<1>2. ASSUME NEW g \in Groups, readNames[g] # <<>> PROVE Rotated(g)
  <2>1. Replicas(g) \in Nat \ {0} /\ DOMAIN readNames[g] = 1..Replicas(g)
    BY <1>2 DEF ConnectionsAssumption, Replicas
  <2>2. 0 % Replicas(g) = 0
    BY <2>1
  <2>3. roundRobinIndex[g] = 0
    BY DEF Init
  <2>4. \A i \in 1..Replicas(g) :
          reads[g][i] = 0 + (IF i <= roundRobinIndex[g] % Replicas(g) THEN 1 ELSE 0)
    BY <2>1, <2>2, <2>3 DEF Init
  <2> QED
    BY <2>4 DEF Rotated
<1> QED
  BY <1>1, <1>2 DEF Init, RotationInv

LEMMA RotationTurns ==
  ASSUME ConnectionsAssumption, RotationInv, NEW g \in Groups, getRead(g) PROVE RotationInv'
<1> DEFINE L == Replicas(g)
           r == roundRobinIndex[g] % L
           s == roundRobinIndex'[g] % L
<1>1. L \in Nat \ {0} /\ readNames[g] # <<>> /\ roundRobinIndex[g] \in Nat
  BY DEF ConnectionsAssumption, Replicas, RotationInv, getRead
<1>2. r \in 0..(L - 1) /\ r + 1 \in 1..L
  BY <1>1
<1>3. /\ roundRobinIndex' = [roundRobinIndex EXCEPT ![g] = @ + 1]
      /\ roundRobinIndex'[g] = roundRobinIndex[g] + 1
  BY DEF getRead, RotationInv
<1>4. s = IF r + 1 = L THEN 0 ELSE r + 1
  BY <1>1, <1>3, NextRemainder
<1>5. reads' = [reads EXCEPT ![g][r + 1] = @ + 1]
  BY DEF getRead, pickRead, Replicas
<1>6. g \in DOMAIN reads /\ DOMAIN reads[g] = 1..L
  BY DEF RotationInv
<1>7. PICK rounds \in Nat : \A i \in 1..L : reads[g][i] = rounds + (IF i <= r THEN 1 ELSE 0)
  BY <1>1 DEF RotationInv, Rotated
<1> HIDE DEF r, s
<1>8. \A i \in 1..L : reads'[g][i] = rounds + (IF i <= r + 1 THEN 1 ELSE 0)
  <2> TAKE i \in 1..L
  <2>1. CASE i = r + 1
    BY <2>1, <1>2, <1>5, <1>6, <1>7
  <2>2. CASE i # r + 1
    <3>1. reads'[g][i] = reads[g][i]
      BY <2>2, <1>2, <1>5, <1>6
    <3> QED
      BY <3>1, <2>2, <1>2, <1>7
  <2> QED
    BY <2>1, <2>2
<1>9. \E q \in Nat : \A i \in 1..L : reads'[g][i] = q + (IF i <= s THEN 1 ELSE 0)
  <2>1. CASE r + 1 = L
    <3>1. \A i \in 1..L : reads'[g][i] = (rounds + 1) + (IF i <= s THEN 1 ELSE 0)
      BY <1>8, <2>1, <1>4, <1>1
    <3> QED
      BY <3>1, rounds + 1 \in Nat
  <2>2. CASE r + 1 # L
    BY <1>8, <2>2, <1>4
  <2> QED
    BY <2>1, <2>2
<1>10. Rotated(g)'
  BY <1>9 DEF Rotated, s, Replicas
<1>11. ASSUME NEW h \in Groups, h # g PROVE reads'[h] = reads[h] /\ roundRobinIndex'[h] = roundRobinIndex[h]
  BY <1>3, <1>5, <1>6, <1>11 DEF RotationInv
<1>12. ASSUME NEW h \in Groups, readNames[h] # <<>> PROVE Rotated(h)'
  <2>1. CASE h = g
    BY <2>1, <1>10
  <2>2. CASE h # g
    <3>1. PICK q \in Nat : \A i \in 1..Replicas(h) :
            reads[h][i] = q + (IF i <= roundRobinIndex[h] % Replicas(h) THEN 1 ELSE 0)
      BY <1>12 DEF RotationInv, Rotated
    <3> QED
      BY <3>1, <2>2, <1>11 DEF Rotated, Replicas
  <2> QED
    BY <2>1, <2>2
<1>13. \A h \in Groups : DOMAIN reads'[h] = 1..Replicas(h)
  BY <1>5, <1>6, <1>11 DEF RotationInv
<1>14. roundRobinIndex' \in [Groups -> Nat] /\ DOMAIN reads' = Groups
  BY <1>1, <1>3, <1>5 DEF RotationInv
<1> QED
  BY <1>12, <1>13, <1>14 DEF RotationInv, Replicas

LEMMA RotationStep ==
  ASSUME ConnectionsAssumption, RotationInv, [Next]_vars PROVE RotationInv'
<1>1. ASSUME NEW g \in Groups, getRead(g) PROVE RotationInv'
  BY <1>1, RotationTurns
<1>2. CASE UNCHANGED grouping
  BY <1>2 DEF grouping, RotationInv, Rotated, Replicas
<1>3. (\E g \in Groups : getRead(g)) \/ UNCHANGED grouping
  BY DEF Next, vars, grouping, Down, Recovers, Closes, Operation, Scoped, Resolved, Checked, Asks,
         Tenant, pingAll, getReadRandom, getReadOfWriter, getWrite, getActive, failover,
         PingAnswered, PingRefused
<1> QED
  BY <1>1, <1>2, <1>3

LEMMA RotationEven ==
  ASSUME ConnectionsAssumption, RotationInv
  PROVE \A g \in Groups : \A i, j \in DOMAIN readNames[g] : reads[g][i] <= reads[g][j] + 1
<1> TAKE g \in Groups
<1> TAKE i, j \in DOMAIN readNames[g]
<1>1. readNames[g] # <<>> /\ DOMAIN readNames[g] = 1..Replicas(g)
  BY DEF ConnectionsAssumption, Replicas
<1>2. PICK rounds \in Nat : \A k \in 1..Replicas(g) :
        reads[g][k] = rounds + (IF k <= roundRobinIndex[g] % Replicas(g) THEN 1 ELSE 0)
  BY <1>1 DEF RotationInv, Rotated
<1>3. \A k \in 1..Replicas(g) : reads[g][k] \in {rounds, rounds + 1}
  BY <1>2
<1> QED
  BY <1>1, <1>3

\* An operation reaches the server of the connection it was routed to, or of
\* another MSSQL connection; a group writes to its writer, and its reads take the
\* places of its list of replicas in turn, or go to the writer if the list is
\* empty (connections/group.ts, mssql.ts, guard.ts).
THEOREM ConnectionsRoutedRight == Spec => []RoutedRight
<1> DEFINE Inv == RoutingInv /\ RotationInv
<1>1. Init => Inv
  BY RoutingInitially, RotationInitially, ConnectionsAssumption
<1>2. Inv /\ [Next]_vars => Inv'
  <2>1. SUFFICES ASSUME Inv, [Next]_vars PROVE Inv'
    OBVIOUS
  <2>2. RoutingInv'
    BY <2>1, RoutingStep, ConnectionsAssumption DEF RotationInv
  <2>3. RotationInv'
    BY <2>1, RotationStep, ConnectionsAssumption
  <2> QED
    BY <2>2, <2>3
<1>3. Inv => RoutedRight
  BY RotationEven, ConnectionsAssumption DEF RoutedRight, RoutingInv, Reached
<1> QED
  BY <1>1, <1>2, <1>3, PTL DEF Spec

-----------------------------------------------------------------------------
(* Settings *)

LEMMA FirstOfTwo ==
  ASSUME NEW a, NEW b
  PROVE  FirstDefined(<<a, b>>) = IF a # Undefined THEN a ELSE b
<1> DEFINE values == <<a, b>>
           there == {i \in DOMAIN values : values[i] # Undefined}
<1>1. DOMAIN values = {1, 2} /\ values[1] = a /\ values[2] = b
  OBVIOUS
<1>2. FirstDefined(values) = IF there = {} THEN Undefined
                             ELSE values[CHOOSE i \in there : \A j \in there : i <= j]
  BY DEF FirstDefined
<1>3. CASE a # Undefined
  <2>1. 1 \in there /\ there \subseteq {1, 2}
    BY <1>1, <1>3
  <2>2. (CHOOSE i \in there : \A j \in there : i <= j) = 1
    BY <2>1
  <2> QED
    BY <1>1, <1>2, <1>3, <2>1, <2>2
<1>4. CASE a = Undefined /\ b # Undefined
  <2>1. there = {2}
    BY <1>1, <1>4
  <2>2. (CHOOSE i \in there : \A j \in there : i <= j) = 2
    BY <2>1
  <2> QED
    BY <1>1, <1>2, <1>4, <2>1, <2>2
<1>5. CASE a = Undefined /\ b = Undefined
  BY <1>1, <1>2, <1>5
<1> QED
  BY <1>3, <1>4, <1>5

\* With what is known of the values behind the first.
LEMMA FirstOfThree ==
  ASSUME NEW a, NEW b, NEW c
  PROVE  FirstDefined(<<a, b, c>>) = IF a # Undefined THEN a ELSE FirstDefined(<<b, c>>)
<1> DEFINE values == <<a, b, c>>
           there == {i \in DOMAIN values : values[i] # Undefined}
<1>1. DOMAIN values = {1, 2, 3} /\ values[1] = a /\ values[2] = b /\ values[3] = c
  OBVIOUS
<1>2. FirstDefined(values) = IF there = {} THEN Undefined
                             ELSE values[CHOOSE i \in there : \A j \in there : i <= j]
  BY DEF FirstDefined
<1>3. CASE a # Undefined
  <2>1. 1 \in there /\ there \subseteq {1, 2, 3}
    BY <1>1, <1>3
  <2>2. (CHOOSE i \in there : \A j \in there : i <= j) = 1
    BY <2>1
  <2> QED
    BY <1>1, <1>2, <1>3, <2>1, <2>2
<1>4. CASE a = Undefined /\ b # Undefined
  <2>1. 2 \in there /\ there \subseteq {2, 3}
    BY <1>1, <1>4
  <2>2. (CHOOSE i \in there : \A j \in there : i <= j) = 2
    BY <2>1
  <2> QED
    BY <1>1, <1>2, <1>4, <2>1, <2>2, FirstOfTwo
<1>5. CASE a = Undefined /\ b = Undefined /\ c # Undefined
  <2>1. there = {3}
    BY <1>1, <1>5
  <2>2. (CHOOSE i \in there : \A j \in there : i <= j) = 3
    BY <2>1
  <2> QED
    BY <1>1, <1>2, <1>5, <2>1, <2>2, FirstOfTwo
<1>6. CASE a = Undefined /\ b = Undefined /\ c = Undefined
  BY <1>1, <1>2, <1>6, FirstOfTwo
<1> QED
  BY <1>3, <1>4, <1>5, <1>6

LEMMA FirstOfFour ==
  ASSUME NEW a, NEW b, NEW c, NEW d
  PROVE  FirstDefined(<<a, b, c, d>>) = IF a # Undefined THEN a ELSE FirstDefined(<<b, c, d>>)
<1> DEFINE values == <<a, b, c, d>>
           there == {i \in DOMAIN values : values[i] # Undefined}
           least == CHOOSE i \in there : \A j \in there : i <= j
<1>1. DOMAIN values = 1..4 /\ values[1] = a /\ values[2] = b /\ values[3] = c /\ values[4] = d
  OBVIOUS
<1>2. FirstDefined(values) = IF there = {} THEN Undefined ELSE values[least]
  BY DEF FirstDefined
<1>3. FirstDefined(<<b, c, d>>) = IF b # Undefined THEN b ELSE IF c # Undefined THEN c ELSE d
  <2>1. FirstDefined(<<b, c, d>>) = IF b # Undefined THEN b ELSE FirstDefined(<<c, d>>)
    BY FirstOfThree
  <2>2. FirstDefined(<<c, d>>) = IF c # Undefined THEN c ELSE d
    BY FirstOfTwo
  <2> QED
    BY <2>1, <2>2
<1>4. CASE a # Undefined
  <2>1. 1 \in there /\ there \subseteq 1..4
    BY <1>1, <1>4
  <2>2. least = 1
    BY <2>1
  <2> QED
    BY <1>1, <1>2, <1>4, <2>1, <2>2
<1>5. CASE a = Undefined /\ b # Undefined
  <2>1. 2 \in there /\ there \subseteq 2..4
    BY <1>1, <1>5
  <2>2. least = 2
    BY <2>1
  <2> QED
    BY <1>1, <1>2, <1>3, <1>5, <2>1, <2>2
<1>6. CASE a = Undefined /\ b = Undefined /\ c # Undefined
  <2>1. 3 \in there /\ there \subseteq 3..4
    BY <1>1, <1>6
  <2>2. least = 3
    BY <2>1
  <2> QED
    BY <1>1, <1>2, <1>3, <1>6, <2>1, <2>2
<1>7. CASE a = Undefined /\ b = Undefined /\ c = Undefined /\ d # Undefined
  <2>1. there = {4}
    BY <1>1, <1>7
  <2>2. least = 4
    BY <2>1
  <2> QED
    BY <1>1, <1>2, <1>3, <1>7, <2>1, <2>2
<1>8. CASE a = Undefined /\ b = Undefined /\ c = Undefined /\ d = Undefined
  BY <1>1, <1>2, <1>3, <1>8
<1> QED
  BY <1>4, <1>5, <1>6, <1>7, <1>8

\* Reading a key of an object that is made from others.
LEMMA GetDefined ==
  ASSUME NEW object, NEW key
  PROVE  Get(Defined(object), key) = Get(object, key)
BY DEF Get, Defined, Only

LEMMA GetOver ==
  ASSUME NEW new, NEW old, NEW key
  PROVE  Get(Over(new, old), key) = IF key \in DOMAIN new THEN new[key] ELSE Get(old, key)
BY DEF Get, Over

LEMMA GetOverDefined ==
  ASSUME NEW new, NEW old, NEW key
  PROVE  Get(Over(Defined(new), old), key)
           = IF Get(new, key) # Undefined THEN Get(new, key) ELSE Get(old, key)
<1>1. DOMAIN Defined(new) = {k \in DOMAIN new : new[k] # Undefined}
  BY DEF Defined, Only
<1>2. \A k \in DOMAIN Defined(new) : Defined(new)[k] = new[k]
  BY DEF Defined, Only
<1> QED
  BY <1>1, <1>2, GetOver DEF Get

\* A variable gives what its text says.
LEMMA Reads ==
  ASSUME NEW variables, NEW field, \A name \in DOMAIN variables : variables[name] # Undefined
  PROVE  ReadVar(variables, field) = VariableOf(variables, field, field)
<1>1. Undefined \notin DOMAIN Leading /\ Undefined # "true" /\ Undefined # "require"
  BY ConfigurationAssumption DEF Words
<1>2. Get(variables, field) = IF field \in DOMAIN variables THEN variables[field] ELSE Undefined
  BY DEF Get
<1>3. field \in DOMAIN variables => variables[field] # Undefined
  OBVIOUS
<1>4. CASE field = "port"
  BY <1>1, <1>2, <1>3, <1>4 DEF ReadVar, VariableOf, Parsed, envInt
<1>5. CASE field = "ssl"
  BY <1>1, <1>2, <1>3, <1>5 DEF ReadVar, VariableOf, Parsed, envSsl, envBool
<1>6. CASE field = "readonly"
  BY <1>1, <1>2, <1>3, <1>6 DEF ReadVar, VariableOf, Parsed, envBool
<1>7. CASE field \notin {"port", "ssl", "readonly"}
  BY <1>1, <1>2, <1>3, <1>7 DEF ReadVar, VariableOf, Parsed
<1> QED
  BY <1>4, <1>5, <1>6, <1>7

LEMMA FromEnvironment ==
  ASSUME NEW variables, NEW fields, NEW field, \A name \in DOMAIN variables : variables[name] # Undefined
  PROVE  Get(buildFromEnvFields(variables, fields), field)
           = IF field \in fields THEN VariableOf(variables, field, field) ELSE Undefined
<1> DEFINE read == [f \in fields |-> ReadVar(variables, f)]
<1>1. Get(buildFromEnvFields(variables, fields), field) = Get(read, field)
  BY GetDefined DEF buildFromEnvFields
<1>2. Get(read, field) = IF field \in fields THEN ReadVar(variables, field) ELSE Undefined
  BY DEF Get
<1> QED
  BY <1>1, <1>2, Reads

\* The preset that is taken is that of the first environment that is named, if
\* there is one of that name.
LEMMA Detects ==
  ASSUME NEW explicit, NEW user, NEW variables
  PROVE  /\ detectEnv(FirstDefined(<<explicit, Child(Obj(user), "env").value>>), variables)
              = EnvironmentOf(explicit, user, variables)
         /\ EnvironmentOf(explicit, user, variables) \in {"development", "production", "test"}
<1> DEFINE own == Child(Obj(user), "env").value
           first == FirstDefined(<<explicit, own>>)
           bun == Get(variables, "BUN_ENV")
           node == Get(variables, "NODE_ENV")
           named == FirstDefined(<<explicit, own, bun, node>>)
           raw == FirstDefined(<<first, bun, node, "development">>)
<1>1. "development" # Undefined /\ Undefined \notin {"production", "test"}
  BY ConfigurationAssumption DEF Words
<1>2. /\ detectEnv(first, variables) = IF raw \in DOMAIN PRESETS THEN raw ELSE "development"
      /\ EnvironmentOf(explicit, user, variables) = IF named \in {"production", "test"} THEN named ELSE "development"
  BY DEF detectEnv, EnvironmentOf
<1> HIDE DEF own, bun, node
<1>3. first = IF explicit # Undefined THEN explicit ELSE own
  BY FirstOfTwo
<1>4. FirstDefined(<<bun, node>>) = IF bun # Undefined THEN bun ELSE node
  BY FirstOfTwo
<1>5. FirstDefined(<<own, bun, node>>) = IF own # Undefined THEN own ELSE FirstDefined(<<bun, node>>)
  BY FirstOfThree
<1>6. named = IF explicit # Undefined THEN explicit ELSE FirstDefined(<<own, bun, node>>)
  BY FirstOfFour
<1>7. FirstDefined(<<node, "development">>) = IF node # Undefined THEN node ELSE "development"
  BY FirstOfTwo
<1>8. FirstDefined(<<bun, node, "development">>)
        = IF bun # Undefined THEN bun ELSE FirstDefined(<<node, "development">>)
  BY FirstOfThree
<1> HIDE DEF first
<1>9. raw = IF first # Undefined THEN first ELSE FirstDefined(<<bun, node, "development">>)
  BY FirstOfFour
<1> HIDE DEF raw, named
<1>10. raw = IF named # Undefined THEN named ELSE "development"
  BY <1>3, <1>4, <1>5, <1>6, <1>7, <1>8, <1>9
<1>11. DOMAIN PRESETS = {"development", "production", "test"}
  BY DEF PRESETS
<1> QED
  BY <1>1, <1>2, <1>10, <1>11 DEF first, own

\* A preset bounds its pool, and has no connection.
LEMMA PresetsRight ==
  ASSUME NEW environment \in {"development", "production", "test"}
  PROVE  LET preset == Obj(PRESETS[environment])
         IN /\ Child(preset, "pool").is = "object"
            /\ \A k \in {"min", "max"} : Child(Child(preset, "pool"), k).value \in Int
            /\ Child(preset, "connection") = Leaf(Undefined)
            /\ "env" \in KeysOf(preset)
<1> USE DEF PRESETS, Leaves, Leaf, Obj, Child, KeysOf
<1>1. CASE environment = "development"
  BY <1>1 DEF DEVELOPMENT_DEFAULTS
<1>2. CASE environment = "production"
  BY <1>2 DEF PRODUCTION_DEFAULTS
<1>3. CASE environment = "test"
  BY <1>3 DEF TEST_DEFAULTS
<1> QED
  BY <1>1, <1>2, <1>3

\* What a merge makes of two values, one, two and three levels down.
Laid1(b, o) == IF Skipped(o) THEN b ELSE IF b.is = "object" /\ o.is = "object" THEN MergedSection(b, o) ELSE o
Laid2(b, o) == IF Skipped(o) THEN b ELSE IF b.is = "object" /\ o.is = "object" THEN MergedLogger(b, o) ELSE o
Laid3(b, o) == IF Skipped(o) THEN b ELSE o

LEMMA ChildOf ==
  ASSUME NEW object, NEW k
  PROVE  /\ KeysOf(Obj(object)) = DOMAIN object
         /\ Child(Obj(object), k) = IF k \in DOMAIN object THEN object[k] ELSE Leaf(Undefined)
         /\ Obj(object).is = "object" /\ Obj(object).at = object
  BY DEF Obj, Child, KeysOf

LEMMA LeafHasNone ==
  ASSUME NEW value, value.is # "object", NEW k
  PROVE  Child(value, k) = Leaf(Undefined) /\ KeysOf(value) = {}
  BY DEF Child, KeysOf

LEMMA UndefinedIsLeaf == Leaf(Undefined).is # "object" /\ Leaf(Undefined).value = Undefined
  BY DEF Leaf

LEMMA RootMerged ==
  ASSUME NEW base, NEW over, NEW k
  PROVE  Child(Obj(deepMerge(base, over)), k) = Laid1(Child(Obj(base), k), Child(Obj(over), k))
<1> DEFINE kept == {j \in DOMAIN over : ~Skipped(over[j])}
           value(j) == IF j \in DOMAIN base /\ base[j].is = "object" /\ over[j].is = "object"
                       THEN MergedSection(base[j], over[j]) ELSE over[j]
           merged == Over([j \in kept |-> value(j)], base)
<1>1. deepMerge(base, over) = merged
  BY DEF deepMerge, MergeBy
<1>2. Child(Obj(merged), k) = IF k \in kept THEN value(k) ELSE Child(Obj(base), k)
  <2>1. DOMAIN merged = kept \union DOMAIN base
    BY DEF Over
  <2>2. k \in DOMAIN merged => merged[k] = IF k \in kept THEN value(k) ELSE base[k]
    BY DEF Over
  <2>3. Child(Obj(merged), k) = IF k \in DOMAIN merged THEN merged[k] ELSE Leaf(Undefined)
    BY ChildOf
  <2>4. Child(Obj(base), k) = IF k \in DOMAIN base THEN base[k] ELSE Leaf(Undefined)
    BY ChildOf
  <2> HIDE DEF merged, value, kept
  <2> QED
    BY <2>1, <2>2, <2>3, <2>4
<1> QED
  BY <1>1, <1>2, ChildOf, UndefinedIsLeaf DEF Laid1, Skipped

LEMMA SectionMerged ==
  ASSUME NEW b, NEW o, b.is = "object", o.is = "object"
  PROVE  /\ MergedSection(b, o).is = "object" /\ KeysOf(MergedSection(b, o)) \subseteq KeysOf(o) \union KeysOf(b)
         /\ \A k : Child(MergedSection(b, o), k) = Laid2(Child(b, k), Child(o, k))
<1> DEFINE kept == {j \in DOMAIN o.at : ~Skipped(o.at[j])}
           value(j) == IF j \in DOMAIN b.at /\ b.at[j].is = "object" /\ o.at[j].is = "object"
                       THEN MergedLogger(b.at[j], o.at[j]) ELSE o.at[j]
           merged == Over([j \in kept |-> value(j)], b.at)
<1>1. MergedSection(b, o) = Obj(merged)
  BY DEF MergedSection, MergeBy
<1>2. KeysOf(b) = DOMAIN b.at /\ KeysOf(o) = DOMAIN o.at
  BY DEF KeysOf
<1>3. KeysOf(Obj(merged)) = kept \union DOMAIN b.at
  BY ChildOf DEF Over
<1>4. ASSUME NEW k PROVE Child(MergedSection(b, o), k) = Laid2(Child(b, k), Child(o, k))
  <2>1. Child(Obj(merged), k) = IF k \in kept THEN value(k) ELSE Child(b, k)
    BY <1>2, ChildOf DEF Over, Child
  <2> QED
    BY <1>1, <1>2, <2>1, UndefinedIsLeaf DEF Laid2, Skipped, Child
<1> QED
  BY <1>1, <1>2, <1>3, <1>4, ChildOf

LEMMA LoggerMerged ==
  ASSUME NEW b, NEW o, b.is = "object", o.is = "object"
  PROVE  /\ MergedLogger(b, o).is = "object" /\ KeysOf(MergedLogger(b, o)) \subseteq KeysOf(o) \union KeysOf(b)
         /\ \A k : Child(MergedLogger(b, o), k) = Laid3(Child(b, k), Child(o, k))
<1> DEFINE kept == {j \in DOMAIN o.at : ~Skipped(o.at[j])}
           merged == Over([j \in kept |-> o.at[j]], b.at)
<1>1. MergedLogger(b, o) = Obj(merged)
  BY DEF MergedLogger, MergeBy, Replaced
<1>2. KeysOf(b) = DOMAIN b.at /\ KeysOf(o) = DOMAIN o.at
  BY DEF KeysOf
<1>3. KeysOf(Obj(merged)) = kept \union DOMAIN b.at
  BY ChildOf DEF Over
<1>4. ASSUME NEW k PROVE Child(MergedLogger(b, o), k) = Laid3(Child(b, k), Child(o, k))
  <2>1. Child(Obj(merged), k) = IF k \in kept THEN o.at[k] ELSE Child(b, k)
    BY <1>2, ChildOf DEF Over, Child
  <2> QED
    BY <1>1, <1>2, <2>1, UndefinedIsLeaf DEF Laid3, Skipped, Child
<1> QED
  BY <1>1, <1>2, <1>3, <1>4, ChildOf

LEMMA LaidRight ==
  ASSUME NEW p, NEW u
  PROVE  LaidOver(Laid1(p, u), u, p) /\ LaidOver(Laid2(p, u), u, p) /\ LaidOver(Laid3(p, u), u, p)
<1>1. Skipped(u) => u.is # "object"
  BY UndefinedIsLeaf DEF Skipped
<1>2. CASE p.is = "object" /\ u.is = "object"
  BY <1>1, <1>2, SectionMerged, LoggerMerged DEF LaidOver, Laid1, Laid2, Laid3
<1>3. CASE ~(p.is = "object" /\ u.is = "object")
  BY <1>1, <1>3 DEF LaidOver, Laid1, Laid2, Laid3
<1> QED
  BY <1>2, <1>3

\* Values that are laid over each other have children that are.
LEMMA LaidBelow ==
  ASSUME NEW p, NEW u, NEW k
  PROVE  LET under == Child(Beneath(u, p), k)
         IN /\ Child(Laid1(p, u), k) = Laid2(under, Child(u, k))
            /\ Child(Laid2(p, u), k) = Laid3(under, Child(u, k))
<1>1. CASE u.is = "object" /\ p.is = "object"
  <2>1. ~Skipped(u) /\ Beneath(u, p) = p
    BY <1>1, UndefinedIsLeaf DEF Skipped, Beneath
  <2> QED
    BY <1>1, <2>1, SectionMerged, LoggerMerged DEF Laid1, Laid2
<1>2. CASE u.is = "object" /\ p.is # "object"
  <2>1. ~Skipped(u) /\ Beneath(u, p) = p /\ Child(p, k) = Leaf(Undefined)
    BY <1>2, LeafHasNone, UndefinedIsLeaf DEF Skipped, Beneath
  <2>2. Laid1(p, u) = u /\ Laid2(p, u) = u
    BY <1>2, <2>1 DEF Laid1, Laid2
  <2> QED
    BY <2>1, <2>2, UndefinedIsLeaf DEF Laid2, Laid3, Skipped
<1>3. CASE Skipped(u)
  <2>1. Beneath(u, p) = p /\ Laid1(p, u) = p /\ Laid2(p, u) = p
    BY <1>3 DEF Beneath, Laid1, Laid2
  <2>2. Skipped(Child(u, k))
    BY <1>3, LeafHasNone, UndefinedIsLeaf DEF Skipped
  <2> QED
    BY <2>1, <2>2 DEF Laid2, Laid3
<1>4. CASE u.is # "object" /\ ~Skipped(u)
  <2>1. Laid1(p, u) = u /\ Laid2(p, u) = u /\ Beneath(u, p) = Leaf(Undefined)
    BY <1>4 DEF Laid1, Laid2, Beneath
  <2>2. Child(u, k) = Leaf(Undefined) /\ Child(Leaf(Undefined), k) = Leaf(Undefined)
    BY <1>4, LeafHasNone, UndefinedIsLeaf
  <2> QED
    BY <2>1, <2>2 DEF Laid2, Laid3, Skipped
<1> QED
  BY <1>1, <1>2, <1>3, <1>4

LEMMA MergedRight ==
  ASSUME NEW got, NEW user, NEW preset, NEW a,
         Child(got, a) = Laid1(Child(preset, a), Child(user, a))
  PROVE  LaidOverAt(got, user, preset, a)
<1> DEFINE u1 == Child(user, a)
           p1 == Child(preset, a)
           g(b) == Child(Child(got, a), b)
           u(b) == Child(u1, b)
           p(b) == Child(Beneath(u1, p1), b)
<1>1. LaidOver(Child(got, a), u1, p1)
  BY LaidRight
<1>2. ASSUME NEW b PROVE g(b) = Laid2(p(b), u(b)) /\ LaidOver(g(b), u(b), p(b))
  <2>1. g(b) = Laid2(p(b), u(b))
    BY LaidBelow
  <2> QED
    BY <2>1, LaidRight
<1> HIDE DEF u1, p1, g, u, p
<1>3. ASSUME NEW b, NEW c
      PROVE  LaidOver(Child(g(b), c), Child(u(b), c), Child(Beneath(u(b), p(b)), c))
  <2>1. Child(g(b), c) = Laid3(Child(Beneath(u(b), p(b)), c), Child(u(b), c))
    BY <1>2, LaidBelow
  <2> QED
    BY <2>1, LaidRight
<1> QED
  BY <1>1, <1>2, <1>3 DEF LaidOverAt, u1, p1, g, u, p

LEMMA ConfigurationRight ==
  ASSUME NEW user \in UserConfigs, NEW env, NEW variables, NEW got,
         got = resolveConfig(user, env, variables)
  PROVE  ConfigRight(got, env, user, variables)
<1> DEFINE environment == EnvironmentOf(env, user, variables)
           preset == PRESETS[environment]
           below == deepMerge(preset, user)
<1>1. got = Over([env |-> Leaf(environment)], below)
  BY Detects DEF resolveConfig
<1>2. got["env"] = Leaf(environment)
  BY <1>1 DEF Over
<1>3. ASSUME NEW a, a # "env"
      PROVE  Child(Obj(got), a) = Laid1(Child(Obj(preset), a), Child(Obj(user), a))
  <2>1. Child(Obj(got), a) = Child(Obj(below), a)
    BY <1>1, <1>3, ChildOf DEF Over
  <2> QED
    BY <2>1, RootMerged
<1>4. ASSUME NEW a \in (DOMAIN user \union DOMAIN preset) \ {"env"}
      PROVE  LaidOverAt(Obj(got), Obj(user), Obj(preset), a)
  BY <1>3, MergedRight
<1>5. ASSUME validateConfig(got) PROVE Bounded(got)
  <2> DEFINE p == Child(Obj(preset), "pool")
             u == Child(Obj(user), "pool")
             pool == Child(Obj(got), "pool")
  <2>1. pool = Laid1(p, u)
    BY <1>3
  <2>2. p.is = "object" /\ \A k \in {"min", "max"} : Child(p, k).value \in Int
    BY Detects, PresetsRight
  <2>3. IsSection(u, Numbers)
    BY ConfigurationAssumption DEF IsConfig
  <2>4. pool # Leaf(null)
    BY <1>5 DEF validateConfig
  <2> HIDE DEF p, u, pool
  <2>5. u.is = "object" \/ Skipped(u)
    <3>1. CASE IsLeaf(u, {Undefined, null})
      BY <2>1, <2>4, <3>1 DEF IsLeaf, Laid1, Skipped
    <3> QED
      BY <2>3, <3>1 DEF IsSection
  <2>6. ASSUME NEW k \in {"min", "max"}
        PROVE  Child(pool, k).value \in Int \union {null}
    <3>1. Child(pool, k) = Laid2(Child(p, k), Child(u, k))
      BY <2>1, <2>5, LaidBelow DEF Beneath
    <3>2. /\ Child(u, k).is # "object" /\ Child(u, k).value \in Numbers
          /\ Child(u, k) = Leaf(Child(u, k).value)
      BY <2>3, <2>5, UndefinedIsLeaf DEF IsSection, IsLeaf, Child, KeysOf, Skipped, Numbers, Leaf
    <3>3. CASE Skipped(Child(u, k))
      BY <2>2, <3>1, <3>3 DEF Laid2
    <3>4. CASE ~Skipped(Child(u, k))
      BY <3>1, <3>2, <3>4 DEF Laid2, Numbers, Skipped
    <3> QED
      BY <3>3, <3>4
  <2>7. Child(pool, "min").value \in Int \union {null} /\ Child(pool, "max").value \in Int \union {null}
    BY <2>6
  <2>8. null # Undefined /\ null \notin Int /\ Undefined \notin Int
    BY ConfigurationAssumption
  <2>9. /\ Numeric(Child(pool, "min").value) >= 0
        /\ Numeric(Child(pool, "max").value) >= 1
        /\ Numeric(Child(pool, "min").value) <= Numeric(Child(pool, "max").value)
    BY <1>5, <2>7, <2>8 DEF validateConfig, pool
  <2>10. Child(pool, "max").value \in Int /\ Child(pool, "max").value >= 1
    BY <2>7, <2>9 DEF Numeric
  <2>11. Numeric(Child(pool, "min").value) \in 0..Child(pool, "max").value
    BY <2>7, <2>8, <2>9, <2>10 DEF Numeric
  <2> QED
    BY <2>10, <2>11 DEF Bounded, pool
<1> QED
  BY <1>2, <1>4, <1>5 DEF ConfigRight

LEMMA ResolvedConnectionRight ==
  ASSUME NEW adapter \in Adapters, NEW variables \in Environments, NEW overrides \in Overrides,
         NEW r, r = [of |-> "connection", adapter |-> adapter, vars |-> variables, overrides |-> overrides,
                     got |-> resolveConnectionConfig(adapter, variables, DEV_CONNECTIONS[adapter], overrides)]
  PROVE  ConnectionRight(r)
<1> DEFINE fields == ADAPTER_ENV_FIELDS[adapter]
           read == buildFromEnvFields(variables, fields)
           defaults == DEV_CONNECTIONS[adapter]
<1>1. r.adapter = adapter /\ r.vars = variables /\ r.overrides = overrides
      /\ r.got = Over(Defined(overrides), Over(read, Defined(defaults)))
  BY DEF resolveConnectionConfig
<1>2. ASSUME NEW field
      PROVE  Get(r.got, field) =
               FirstDefined(<<Get(overrides, field),
                              IF field \in fields THEN VariableOf(variables, field, field) ELSE Undefined,
                              Get(defaults, field)>>)
  <2> DEFINE variable == IF field \in fields THEN VariableOf(variables, field, field) ELSE Undefined
  <2>1. Get(read, field) = variable
    <3>1. \A key \in DOMAIN variables : variables[key] # Undefined
      BY ConfigurationAssumption
    <3> QED
      BY <3>1, FromEnvironment
  <2>2. Get(Over(read, Defined(defaults)), field)
          = IF Get([f \in fields |-> ReadVar(variables, f)], field) # Undefined
            THEN Get([f \in fields |-> ReadVar(variables, f)], field) ELSE Get(Defined(defaults), field)
    BY GetOverDefined DEF buildFromEnvFields
  <2>3. Get(read, field) = Get([f \in fields |-> ReadVar(variables, f)], field)
    BY GetDefined DEF buildFromEnvFields
  <2>4. Get(Defined(defaults), field) = Get(defaults, field)
    BY GetDefined
  <2>5. Get(r.got, field) = IF Get(overrides, field) # Undefined THEN Get(overrides, field)
                            ELSE Get(Over(read, Defined(defaults)), field)
    BY <1>1, GetOverDefined
  <2> HIDE DEF variable, read, defaults
  <2>6. FirstDefined(<<Get(overrides, field), variable, Get(defaults, field)>>)
          = IF Get(overrides, field) # Undefined THEN Get(overrides, field)
            ELSE FirstDefined(<<variable, Get(defaults, field)>>)
    BY FirstOfThree
  <2>7. FirstDefined(<<variable, Get(defaults, field)>>)
          = IF variable # Undefined THEN variable ELSE Get(defaults, field)
    BY FirstOfTwo
  <2>8. Get(r.got, field) = FirstDefined(<<Get(overrides, field), variable, Get(defaults, field)>>)
    BY <2>1, <2>2, <2>3, <2>4, <2>5, <2>6, <2>7
  <2> QED
    BY <2>8 DEF variable
<1> QED
  BY <1>1, <1>2 DEF ConnectionRight

LEMMA DiscoveredRight ==
  ASSUME NEW variables \in NamedVars,
         NEW r, r = [of |-> "named", vars |-> variables, got |-> discoverNamedConnections(variables)]
  PROVE  NamedRight(r)
<1> DEFINE names == {key[1] : key \in {k \in DOMAIN variables : Len(k) > 1}}
<1>1. r.vars = variables /\ r.got = [name \in names |-> resolveNamedConnectionConfig(variables, name)]
  BY DEF discoverNamedConnections
<1>2. names = {name \in {key[1] : key \in DOMAIN variables} :
                 \E key \in DOMAIN variables : Len(key) > 1 /\ key[1] = name}
  OBVIOUS
<1>3. ASSUME NEW name \in names, NEW field \in NamedFields
      PROVE  Get(r.got[name], field) = VariableOf(variables, <<name, field>>, field)
  <2> DEFINE there == {g \in NamedFields : <<name, g>> \in DOMAIN variables}
             mine == [f \in there |-> variables[<<name, f>>]]
  <2>1. r.got[name] = buildFromEnvFields(mine, NamedFields)
    BY <1>1 DEF resolveNamedConnectionConfig
  <2>2. \A f \in DOMAIN mine : mine[f] # Undefined
    BY ConfigurationAssumption
  <2>3. Get(r.got[name], field) = VariableOf(mine, field, field)
    BY <2>1, <2>2, FromEnvironment
  <2>4. field \in DOMAIN mine <=> <<name, field>> \in DOMAIN variables
    OBVIOUS
  <2>5. field \in DOMAIN mine => mine[field] = variables[<<name, field>>]
    OBVIOUS
  <2> HIDE DEF mine
  <2> QED
    BY <2>3, <2>4, <2>5 DEF VariableOf
<1> QED
  BY <1>1, <1>2, <1>3 DEF NamedRight

LEMMA AcceptedRight ==
  ASSUME NEW env, NEW adapter \in Adapters, NEW conn,
         NEW r, r = [of |-> "production", env |-> env, adapter |-> adapter, conn |-> conn,
                     got |-> validateProductionConfig(env, adapter, conn)]
  PROVE  ProductionRight(r)
<1>1. r.env = env /\ r.adapter = adapter /\ r.conn = conn
      /\ r.got = validateProductionConfig(env, adapter, conn)
  OBVIOUS
<1> SUFFICES ASSUME env = "production", r.got.error = "none"
             PROVE  Complete(adapter, conn)
  BY <1>1 DEF ProductionRight
<1> USE DEF Complete
<1>2. Get(conn, "url") # Undefined => Get(conn, "url") = conn["url"]
  BY DEF Get
<1>3. Undefined # ":memory:" /\ ":memory:" \notin WellFormed
  BY ConfigurationAssumption DEF Words
<1>4. CASE adapter = "sqlite"
  <2>1. r.got = productionSqlite(conn)
    BY <1>1, <1>4 DEF validateProductionConfig
  <2>2. Get(conn, "url") # Undefined /\ Get(conn, "url") # ":memory:"
    BY <1>3, <2>1 DEF productionSqlite, Refuses
  <2> QED
    BY <1>2, <2>2
<1>5. CASE adapter # "sqlite"
  <2>1. r.got = productionNetwork(adapter, conn)
    BY <1>1, <1>5 DEF validateProductionConfig
  <2>2. CASE Get(conn, "url") # Undefined
    <3>1. Get(conn, "url") \in WellFormed
      BY <2>1, <2>2 DEF productionNetwork, Refuses
    <3> QED
      BY <1>2, <1>3, <2>2, <3>1
  <2>3. CASE Get(conn, "url") = Undefined
    <3>1. Get(conn, "host") # Undefined /\ Get(conn, "password") # Undefined
      BY <2>1, <2>3 DEF productionNetwork, Refuses
    <3> QED
      BY <1>5, <3>1
  <2> QED
    BY <2>2, <2>3
<1> QED
  BY <1>4, <1>5

LEMMA CreatedRightly ==
  ASSUME NEW adapter \in Adapters, NEW user \in UserConfigs, NEW variables \in Environments,
         NEW r, r = [of |-> "created", adapter |-> adapter, user |-> user, vars |-> variables,
                     got |-> createConnection(adapter, user, variables)]
  PROVE  CreatedRight(r)
<1> DEFINE config == resolveConfig(user, Undefined, variables)
           environment == EnvironmentOf(Undefined, user, variables)
           conn == Child(Obj(user), "connection")
           verdict == validateProductionConfig(environment, adapter, Plain(conn))
<1>1. r.adapter = adapter /\ r.user = user /\ r.vars = variables /\ r.got.config = config
  BY DEF createConnection
<1>2. ConfigRight(config, Undefined, user, variables)
  BY ConfigurationRight
<1>3. config["env"].value = environment
  BY <1>2 DEF ConfigRight, Leaf
<1>4. Child(Obj(config), "connection") = conn
  <2> DEFINE preset == PRESETS[environment]
  <2>1. config = Over([env |-> Leaf(environment)], deepMerge(preset, user))
    BY Detects DEF resolveConfig
  <2>2. Child(Obj(config), "connection") = Child(Obj(deepMerge(preset, user)), "connection")
    BY <2>1, ChildOf DEF Over
  <2>3. Child(Obj(config), "connection") = Laid1(Child(Obj(preset), "connection"), conn)
    BY <2>2, RootMerged
  <2>4. Child(Obj(preset), "connection") = Leaf(Undefined)
    BY Detects, PresetsRight
  <2> QED
    BY <2>3, <2>4, UndefinedIsLeaf DEF Laid1, Skipped
<1>5. r.got.error = IF validateConfig(config) THEN verdict.error ELSE "CONFIG_INVALID_VALUE"
  BY <1>3, <1>4 DEF createConnection
<1> HIDE DEF config, environment, conn, verdict
<1>6. r.got.error = "none" => validateConfig(config) /\ verdict.error = "none"
  BY <1>5
<1>7. r.got.error = "none" => Bounded(config)
  BY <1>2, <1>6 DEF ConfigRight
<1>8. verdict.error = "none" /\ environment = "production" => Complete(adapter, Plain(conn))
  <2>1. PICK q : q = [of |-> "production", env |-> environment, adapter |-> adapter, conn |-> Plain(conn),
                      got |-> verdict]
    OBVIOUS
  <2>2. ProductionRight(q)
    BY <2>1, AcceptedRight DEF verdict
  <2> QED
    BY <2>1, <2>2 DEF ProductionRight
<1> QED
  BY <1>1, <1>2, <1>6, <1>7, <1>8 DEF CreatedRight, environment, conn

LEMMA AcceptedLogin ==
  ASSUME NEW auth \in Auths, NEW r, r = [of |-> "auth", auth |-> auth, accepted |-> validateAuth(auth)]
  PROVE  AuthRight(r)
<1> SUFFICES ASSUME validateAuth(auth), auth.type = "azure-ad", auth.clientSecret = Undefined
             PROVE  auth.managedIdentity = "true"
  BY DEF AuthRight
<1>1. Get(auth, "clientSecret") = Undefined
  BY DEF Get
<1>2. Undefined # "true"
  BY ConfigurationAssumption DEF Words
<1>3. Get(auth, "managedIdentity") = "true"
  BY <1>1 DEF validateAuth
<1> QED
  BY <1>2, <1>3 DEF Get

LEMMA LoggedInRight ==
  ASSUME NEW auth \in Optional(Auths), NEW options \in MssqlOptions,
         NEW r, r = [of |-> "login", auth |-> auth, options |-> options,
                     got |-> getPool(Over([auth |-> auth], options))]
  PROVE  LoginRight(r)
<1> SUFFICES ASSUME auth # Undefined PROVE LoginRight(r)
  BY DEF LoginRight
<1> DEFINE given == Over([auth |-> auth], options)
           base == [server |-> FirstDefined(<<Get(given, "host"), "localhost">>),
                    port |-> FirstDefined(<<Get(given, "port"), 1433>>),
                    database |-> Get(given, "database"), user |-> Get(given, "user"),
                    password |-> Get(given, "password")]
           own == AuthFields(auth, given)
           name(field) == IF field \in {"username", "upn"} THEN "user" ELSE field
           fields == {"username", "upn", "password", "domain"}
           said == auth.type = "connection-string" /\ auth.url # ""
<1>1. Get(given, "auth") = auth
  BY DEF Over, Get
<1>2. auth \in Logins
  BY ConfigurationAssumption DEF Optional
<1>3. r.auth = auth /\ r.got = IF said THEN [url |-> auth.url] ELSE Over(own, base)
  <2>1. buildConfig(given) = Over(own, base)
    BY <1>1 DEF buildConfig
  <2> HIDE DEF given, own, base
  <2>2. getPool(given) = IF said THEN [url |-> auth.url] ELSE buildConfig(given)
    BY <1>1 DEF getPool
  <2> QED
    BY <2>1, <2>2 DEF given
<1> HIDE DEF given, base, own, name
<1>4. ASSUME NEW key \in DOMAIN own PROVE Over(own, base)[key] = own[key]
  BY DEF Over
<1>5. CASE auth \in [type : {"userpass"}, username : STRING, password : STRING]
  <2>1. DOMAIN auth = {"type", "username", "password"} /\ auth.type = "userpass"
    BY <1>5
  <2>2. own = [user |-> auth.username, password |-> auth.password]
    BY <2>1 DEF AuthFields, own
  <2>3. r.got["user"] = auth["username"] /\ r.got["password"] = auth["password"]
    BY <1>3, <1>4, <2>1, <2>2
  <2> QED
    BY <1>3, <2>1, <2>3 DEF LoginRight
<1>6. CASE auth \in [type : {"windows"}, username : Optional(STRING), domain : Optional(STRING)]
  <2> DEFINE d == [domain |-> FirstDefined(<<Get(auth, "domain"), Get(given, "domain")>>)]
             u == [user |-> Get(auth, "username")]
  <2>1. DOMAIN auth = {"type", "username", "domain"} /\ auth.type = "windows"
    BY <1>6
  <2>2. own = Over(d, Defined(u))
    BY <2>1 DEF AuthFields, own
  <2>3. Get(auth, "username") = auth["username"] /\ Get(auth, "domain") = auth["domain"]
    BY <2>1 DEF Get
  <2>4. auth["domain"] # Undefined => r.got["domain"] = auth["domain"]
    <3>1. FirstDefined(<<Get(auth, "domain"), Get(given, "domain")>>)
            = IF Get(auth, "domain") # Undefined THEN Get(auth, "domain") ELSE Get(given, "domain")
      BY FirstOfTwo
    <3>2. "domain" \in DOMAIN own /\ own["domain"] = d["domain"]
      BY <2>2 DEF Over
    <3> QED
      BY <1>3, <1>4, <2>1, <2>3, <3>1, <3>2
  <2>5. auth["username"] # Undefined => r.got["user"] = auth["username"]
    <3>1. SUFFICES ASSUME auth["username"] # Undefined PROVE r.got["user"] = auth["username"]
      OBVIOUS
    <3>2. "user" \in DOMAIN Defined(u) /\ Defined(u)["user"] = auth["username"]
      BY <2>3, <3>1 DEF Defined, Only
    <3>3. "user" \in DOMAIN own /\ own["user"] = auth["username"]
      BY <2>2, <3>2 DEF Over
    <3> QED
      BY <1>3, <1>4, <2>1, <3>3
  <2> QED
    BY <1>3, <2>1, <2>4, <2>5 DEF LoginRight
<1>7. CASE auth \in [type : {"windows-upn"}, upn : STRING, password : STRING]
  <2>1. DOMAIN auth = {"type", "upn", "password"} /\ auth.type = "windows-upn"
    BY <1>7
  <2>2. own = [user |-> auth.upn, password |-> auth.password]
    BY <2>1 DEF AuthFields, own
  <2>3. r.got["user"] = auth["upn"] /\ r.got["password"] = auth["password"]
    BY <1>3, <1>4, <2>1, <2>2
  <2> QED
    BY <1>3, <2>1, <2>3 DEF LoginRight
<1>8. CASE auth \in [type : {"connection-string"}, url : STRING]
  <2>1. DOMAIN auth = {"type", "url"} /\ auth.type = "connection-string"
    BY <1>8
  <2> QED
    BY <1>3, <2>1 DEF LoginRight
<1>9. CASE auth \in [type : {"azure-ad"}, tenantId : STRING, clientId : STRING,
                     clientSecret : Optional(STRING), managedIdentity : Optional({"true", "false"})]
  <2>1. /\ DOMAIN auth = {"type", "tenantId", "clientId", "clientSecret", "managedIdentity"}
        /\ auth.type = "azure-ad"
    BY <1>9
  <2> DEFINE secret == FirstDefined(<<Get(auth, "clientSecret"), "">>)
             sent == [type |-> "service-principal-secret", clientId |-> auth.clientId,
                      tenantId |-> auth.tenantId, clientSecret |-> secret]
  <2>2. own = [authentication |-> sent]
    BY <2>1 DEF AuthFields, own
  <2>3. r.got["authentication"] = sent
    BY <1>3, <1>4, <2>1, <2>2
  <2>4. secret = IF Get(auth, "clientSecret") # Undefined THEN Get(auth, "clientSecret") ELSE ""
    BY FirstOfTwo
  <2>5. Get(auth, "clientSecret") = auth.clientSecret
    BY <2>1 DEF Get
  <2>6. /\ sent.type = "service-principal-secret"
        /\ sent.clientId = auth.clientId /\ sent.tenantId = auth.tenantId
        /\ sent.clientSecret = IF auth.clientSecret = Undefined THEN "" ELSE auth.clientSecret
    BY <2>4, <2>5
  <2> HIDE DEF sent
  <2>7. r.auth = auth
    BY <1>3
  <2>8. {"username", "upn", "password", "domain"} \intersect DOMAIN r.auth = {}
    BY <2>1, <2>7
  <2>9. r.auth.type # "connection-string"
    BY <2>1, <2>7
  <2> QED
    BY <2>3, <2>6, <2>7, <2>8, <2>9 DEF LoginRight
<1> QED
  BY <1>2, <1>5, <1>6, <1>7, <1>8, <1>9 DEF Logins

LEMMA PooledRight ==
  ASSUME NEW options, NEW throws,
         throws = (HasUrl(options) /\ options["url"] \notin DOMAIN Urls),
         NEW r, r = [of |-> "pool", options |-> options, throws |-> throws,
                     got |-> IF throws THEN <<>> ELSE buildPoolConfig(options)]
  PROVE  PoolRight(r)
<1>1. r.options = options /\ r.throws = throws /\ r.got = IF throws THEN <<>> ELSE buildPoolConfig(options)
  OBVIOUS
<1>0. ~(HasUrl(options) /\ options["url"] \notin DOMAIN Urls) => r.got = buildPoolConfig(options)
  BY <1>1
<1>2. CASE HasUrl(options) /\ options["url"] \notin DOMAIN Urls
  BY <1>1, <1>2 DEF PoolRight
<1>3. CASE HasUrl(options) /\ options["url"] \in DOMAIN Urls
  <2> DEFINE meant == Urls[options["url"]]
             u == newURL(options["url"])
  <2>1. r.got = Defined(UrlParts(u))
    BY <1>0, <1>3 DEF buildPoolConfig
  <2>2. ASSUME NEW field \in {"user", "password", "database"}
        PROVE  Get(r.got, field) = UrlPart(Percent[meant[field]])
    <3>1. Get(r.got, field) = Get(UrlParts(u), field)
      BY <2>1, GetDefined
    <3>2. u.username = Percent[meant["user"]] /\ u.password = Percent[meant["password"]]
          /\ u.pathname = Percent[meant["database"]]
      BY DEF newURL
    <3> HIDE DEF u, meant
    <3>3. Get(UrlParts(u), "user") = UrlPart(u.username) /\ Get(UrlParts(u), "password") = UrlPart(u.password)
          /\ Get(UrlParts(u), "database") = UrlPart(u.pathname)
      BY DEF Get, UrlParts
    <3> QED
      BY <3>1, <3>2, <3>3
  <2>3. ASSUME NEW field \in {"user", "password", "database"}
        PROVE  Percent[meant[field]] = "" <=> meant[field] = ""
    BY <1>3, ConfigurationAssumption
  <2>4. HasUrl(r.options) /\ ~r.throws
    BY <1>1, <1>3
  <2>5. ASSUME NEW field \in {"user", "password", "database"}
        PROVE  Get(r.got, field) = IF meant[field] = "" THEN Undefined ELSE Percent[meant[field]]
    BY <2>2, <2>3 DEF UrlPart
  <2> QED
    BY <1>1, <1>3, <2>4, <2>5 DEF PoolRight
<1>4. CASE ~HasUrl(options)
  <2> DEFINE first == [host |-> FirstDefined(<<Get(options, "host"), "localhost">>),
                       port |-> FirstDefined(<<Get(options, "port"), 3306>>)]
             others == Only(options, {"user", "password", "database"})
  <2>1. r.got = Over(first, Defined(others))
    BY <1>0, <1>4 DEF buildPoolConfig
  <2>2. Get(r.got, "host") = FirstDefined(<<Get(options, "host"), "localhost">>)
    BY <2>1 DEF Over, Get
  <2>3. ASSUME NEW field \in {"user", "password", "database"}
        PROVE  Get(r.got, field) = Get(options, field)
    <3>1. Get(r.got, field) = Get(Defined(others), field)
      BY <2>1, GetOver
    <3>2. Get(Defined(others), field) = Get(others, field)
      BY GetDefined
    <3>3. Get(others, field) = Get(options, field)
      BY DEF Get, Only
    <3> QED
      BY <3>1, <3>2, <3>3
  <2> QED
    BY <1>1, <1>4, <2>2, <2>3 DEF PoolRight
<1> QED
  BY <1>2, <1>3, <1>4

LEMMA SettingsStep ==
  ASSUME SettingsExact, [ConfigurationNext]_settings
  PROVE  SettingsExact'
<1>1. CASE UNCHANGED settings
  BY <1>1 DEF SettingsExact
<1>2. ASSUME NEW user \in UserConfigs, NEW env \in Explicit, NEW variables \in Environments,
             ResolvesConfig(user, env, variables)
      PROVE  SettingsExact'
  <2>1. /\ settings'.of = "config" /\ settings'.user = user /\ settings'.env = env
        /\ settings'.vars = variables /\ settings'.got = resolveConfig(user, env, variables)
    BY <1>2 DEF ResolvesConfig
  <2> QED
    BY <2>1, ConfigurationRight DEF SettingsExact
<1>3. ASSUME NEW adapter \in Adapters, NEW variables \in Environments, NEW overrides \in Overrides,
             ResolvesConnection(adapter, variables, overrides)
      PROVE  SettingsExact'
  <2>1. PICK r : r = [of |-> "connection", adapter |-> adapter, vars |-> variables, overrides |-> overrides,
                      got |-> resolveConnectionConfig(adapter, variables, DEV_CONNECTIONS[adapter], overrides)]
    OBVIOUS
  <2>2. settings' = r /\ r.of = "connection" /\ ConnectionRight(r)
    BY <1>3, <2>1, ResolvedConnectionRight DEF ResolvesConnection
  <2> QED
    BY <2>2 DEF SettingsExact
<1>4. ASSUME NEW variables \in NamedVars, Discovers(variables)
      PROVE  SettingsExact'
  <2>1. PICK r : r = [of |-> "named", vars |-> variables, got |-> discoverNamedConnections(variables)]
    OBVIOUS
  <2>2. settings' = r /\ r.of = "named" /\ NamedRight(r)
    BY <1>4, <2>1, DiscoveredRight DEF Discovers
  <2> QED
    BY <2>2 DEF SettingsExact
<1>5. ASSUME NEW env, NEW adapter \in Adapters, NEW conn \in Conns, Guards(env, adapter, conn)
      PROVE  SettingsExact'
  <2>1. PICK r : r = [of |-> "production", env |-> env, adapter |-> adapter, conn |-> conn,
                      got |-> validateProductionConfig(env, adapter, conn)]
    OBVIOUS
  <2>2. settings' = r /\ r.of = "production" /\ ProductionRight(r)
    BY <1>5, <2>1, AcceptedRight DEF Guards
  <2> QED
    BY <2>2 DEF SettingsExact
<1>6. ASSUME NEW auth \in Optional(Auths), NEW options \in MssqlOptions, LogsIn(auth, options)
      PROVE  SettingsExact'
  <2>1. PICK r : r = [of |-> "login", auth |-> auth, options |-> options,
                      got |-> getPool(Over([auth |-> auth], options))]
    OBVIOUS
  <2>2. settings' = r /\ r.of = "login" /\ LoginRight(r)
    BY <1>6, <2>1, LoggedInRight DEF LogsIn
  <2> QED
    BY <2>2 DEF SettingsExact
<1>7. ASSUME NEW options \in PoolOptions, MakesPool(options)
      PROVE  SettingsExact'
  <2> DEFINE throws == HasUrl(options) /\ options["url"] \notin DOMAIN Urls
  <2>1. PICK r : r = [of |-> "pool", options |-> options, throws |-> throws,
                      got |-> IF throws THEN <<>> ELSE buildPoolConfig(options)]
    OBVIOUS
  <2>2. settings' = r /\ r.of = "pool" /\ PoolRight(r)
    BY <1>7, <2>1, PooledRight DEF MakesPool
  <2> QED
    BY <2>2 DEF SettingsExact
<1>8. ASSUME NEW file \in Files, LoadsFile(file)
      PROVE  SettingsExact'
  <2>1. settings'.of = "file" /\ settings'.file = file /\ settings'.got = loadConfigFile(file)
    BY <1>8 DEF LoadsFile
  <2>2. file \in [state : {"absent", "broken", "loads"},
                  export : {"undefined", "scalar", "no connections", "connections"}]
    BY ConfigurationAssumption
  <2>3. loadConfigFile(file) = "config" => file.state = "loads" /\ file.export = "connections"
    BY <2>2 DEF loadConfigFile
  <2> QED
    BY <2>1, <2>3 DEF SettingsExact
<1>9. CASE Taken
  BY <1>9 DEF Taken, Unasked, SettingsExact
<1>10. ASSUME NEW adapter \in Adapters, NEW user \in UserConfigs, NEW variables \in Environments,
              CreatesConnection(adapter, user, variables)
       PROVE  SettingsExact'
  <2>1. PICK r : r = [of |-> "created", adapter |-> adapter, user |-> user, vars |-> variables,
                      got |-> createConnection(adapter, user, variables)]
    OBVIOUS
  <2>2. settings' = r /\ r.of = "created" /\ CreatedRight(r)
    BY <1>10, <2>1, CreatedRightly DEF CreatesConnection
  <2> QED
    BY <2>2 DEF SettingsExact
<1>11. ASSUME NEW auth \in Auths, ValidatesAuth(auth)
       PROVE  SettingsExact'
  <2>1. PICK r : r = [of |-> "auth", auth |-> auth, accepted |-> validateAuth(auth)]
    OBVIOUS
  <2>2. settings' = r /\ r.of = "auth" /\ AuthRight(r)
    BY <1>11, <2>1, AcceptedLogin DEF ValidatesAuth
  <2> QED
    BY <2>2 DEF SettingsExact
<1> QED
  BY <1>1, <1>2, <1>3, <1>4, <1>5, <1>6, <1>7, <1>8, <1>9, <1>10, <1>11 DEF ConfigurationNext

\* Whatever is asked of the settings: they are the caller's laid over the preset's,
\* down to the methods of a logger; what createConnection() accepts bounds its pool
\* and, in production, names a server; and the drivers are given the login and the
\* options as LoginRight and PoolRight say (resolve.ts, db.ts, mssql.ts, mysql.ts).
THEOREM SettingsAlwaysExact == ConfigurationSpec => []SettingsExact
<1>1. ConfigurationInit => SettingsExact
  BY DEF ConfigurationInit, Unasked, SettingsExact
<1>2. SettingsExact /\ [ConfigurationNext]_settings => SettingsExact'
  BY SettingsStep
<1> QED
  BY <1>1, <1>2, PTL DEF ConfigurationSpec
=============================================================================
