----------------------------- MODULE PoolPromise -----------------------------
(***************************************************************************)
(* What ConnectionPool (src/pool/pool.ts) promises its clients: a fair     *)
(* allocator of at most Max leases. A client has a connection to itself    *)
(* until it returns it, waits only while everything is leased, and is      *)
(* served in the order it came. A pool that recycles promises less: it may *)
(* keep clients waiting while there is room, and serve one who comes later.*)
(*                                                                         *)
(* There is no idle list, no reaper, no age and no count here, and nothing *)
(* of how drain() waits: closing takes no lease away.                      *)
(***************************************************************************)
EXTENDS Naturals, Sequences, FiniteSets

CONSTANTS
  Clients,
  Conns,
  Max,
  MaxQueue,
  NoConn,
  Recycles   \* whether connections are ever replaced for their age or use

VARIABLES
  lease,    \* the connection of each client
  waiting,  \* the clients that wait, oldest first
  closed

promiseVars == <<lease, waiting, closed>>

Leased == {lease[k] : k \in Clients} \ {NoConn}

Full == Cardinality(Leased) >= Max

\* Nobody is passed over.
InTurn == Recycles \/ waiting = <<>>

Asks(k) ==
  /\ ~closed /\ lease[k] = NoConn
  /\ \A i \in DOMAIN waiting : waiting[i] # k

\* The clients that wait, without the i-th.
Others(i) == [j \in 1..(Len(waiting) - 1) |-> IF j < i THEN waiting[j] ELSE waiting[j + 1]]

Init ==
  /\ lease = [k \in Clients |-> NoConn]
  /\ waiting = <<>>
  /\ closed = FALSE

\* A connection nobody has.
Grant(k) ==
  /\ Asks(k) /\ ~Full /\ InTurn
  /\ \E c \in Conns \ Leased : lease' = [lease EXCEPT ![k] = c]
  /\ UNCHANGED <<waiting, closed>>

Wait(k) ==
  /\ Asks(k) /\ Full
  /\ Len(waiting) < MaxQueue
  /\ waiting' = Append(waiting, k)
  /\ UNCHANGED <<lease, closed>>

GiveUp(k) ==
  /\ \E i \in DOMAIN waiting : waiting[i] = k /\ waiting' = Others(i)
  /\ UNCHANGED <<lease, closed>>

\* What is returned is kept only if nobody waits for it.
Return(k) ==
  /\ lease[k] # NoConn /\ InTurn
  /\ lease' = [lease EXCEPT ![k] = NoConn]
  /\ UNCHANGED <<waiting, closed>>

PassOn(k) ==
  /\ lease[k] # NoConn /\ waiting # <<>>
  /\ lease' = [lease EXCEPT ![k] = NoConn, ![waiting[1]] = lease[k]]
  /\ waiting' = Others(1)
  /\ UNCHANGED closed

Close ==
  /\ closed' = TRUE
  /\ waiting' = <<>>
  /\ UNCHANGED lease

Next ==
  \/ \E k \in Clients : Grant(k) \/ Wait(k) \/ GiveUp(k) \/ Return(k) \/ PassOn(k)
  \/ Close

Spec == Init /\ [][Next]_promiseVars
=============================================================================
