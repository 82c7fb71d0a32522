--------------------------- MODULE ConnectionPool ---------------------------
(***************************************************************************)
(* The connection pool of src/pool (pool.ts, connection.ts, reaper.ts,     *)
(* stats.ts), with the clients that acquire and release connections and    *)
(* the callers of drain().                                                 *)
(*                                                                         *)
(* JavaScript runs every method to its first await without interruption,   *)
(* so acquire(), release(), a timer callback and each half of drain() are  *)
(* one action each. What interleaves is the order of the calls, of the     *)
(* acquire timers, of the reaper ticks and of the two halves of drain().   *)
(*                                                                         *)
(* Time is abstracted to two facts of a connection the code compares with  *)
(* a limit: aged[c] (Date.now() - createdAt >= maxConnectionAgeMs) and     *)
(* stale[c] (Date.now() - lastUsedAt >= idleTimeoutMs). Either may become  *)
(* true at any moment; only markAcquired() makes stale false again.        *)
(***************************************************************************)
EXTENDS Naturals, Sequences, FiniteSets, Functions

CONSTANTS
  Clients,      \* callers of acquire() and release(), one request at a time each
  Conns,        \* identities for connections; their number bounds how many are ever created
  Drains,       \* calls of drain()
  Max,          \* config.max
  MaxQueue,     \* config.maxQueueSize
  MaxUseCount,  \* config.maxUseCount, 0 when the option is absent
  AgeLimited,   \* whether config.maxConnectionAgeMs is given
  ReapEnabled,  \* config.reapIntervalMs > 0
  NoConn        \* the client holds no connection

ASSUME PoolAssumption ==
  /\ Max \in Nat
  /\ MaxQueue \in Nat
  /\ MaxUseCount \in Nat
  /\ AgeLimited \in BOOLEAN
  /\ ReapEnabled \in BOOLEAN
  /\ NoConn \notin Conns

VARIABLES
  \* PooledConnection
  state,      \* _state, "NONE" until the connection is created
  useCount,   \* _useCount, counted up to UseCap
  aged,       \* the connection is older than maxConnectionAgeMs
  stale,      \* the connection was last acquired idleTimeoutMs ago or more
  \* ConnectionPool
  idle,       \* idle connections; acquire() pops from the end, release() pushes there
  acquired,   \* the set of connections that are out
  queue,      \* the clients whose request waits, oldest first
  drained,    \* drain() has been called
  \* PoolStats
  created, destroyed,
  \* callers
  hold,       \* the connection each client was given and has not released
  phase       \* how far each call of drain() is

connVars == <<state, useCount, aged, stale>>
poolVars == <<idle, acquired, queue, drained>>
statVars == <<created, destroyed>>
vars == <<connVars, poolVars, statVars, hold, phase>>

States == {"NONE", "IDLE", "ACQUIRED", "DEAD"}
Phases == {"uncalled", "waiting", "woken", "done"}

\* useCount is only compared with MaxUseCount, so it is not counted past UseCap.
UseCap == MaxUseCount + 1

\* With a maxUseCount no connection is handed out more often than that.
UseLimit == IF MaxUseCount > 0 THEN MaxUseCount ELSE UseCap

\* Types of the variables, and the use limit: recycling keeps useCount in range.
TypeOK ==
  /\ state \in [Conns -> States]
  /\ useCount \in [Conns -> 0..UseLimit]
  /\ aged \in [Conns -> BOOLEAN]
  /\ stale \in [Conns -> BOOLEAN]
  /\ idle \in Seq(Conns)
  /\ acquired \in SUBSET Conns
  /\ queue \in Seq(Clients)
  /\ drained \in BOOLEAN
  /\ created \in Nat
  /\ destroyed \in Nat
  /\ hold \in [Clients -> Conns \cup {NoConn}]
  /\ phase \in [Drains -> Phases]

-----------------------------------------------------------------------------
(* Helpers over the state.                                                 *)

Elems(s) == {s[i] : i \in DOMAIN s}

\* What the pool counts against max: idle.length + acquired.size.
Open == Elems(idle) \cup acquired

Held == {hold[k] : k \in Clients} \ {NoConn}

Waiting(k) == k \in Elems(queue)

DrainDone == \E d \in Drains : phase[d] = "done"

\* Seeded fault: the use limit is checked with > instead of >=.
ShouldRecycleLate(c) ==
  \/ AgeLimited /\ aged[c]
  \/ MaxUseCount > 0 /\ useCount[c] > MaxUseCount

ShouldRecycle(c) ==
  \/ AgeLimited /\ aged[c]
  \/ MaxUseCount > 0 /\ useCount[c] >= MaxUseCount

\* s without its element at position i: array.splice(i, 1).
Splice(s, i) == [j \in 1..(Len(s) - 1) |-> IF j < i THEN s[j] ELSE s[j + 1]]

\* t is what splicing every element of E out of s leaves.
IsRemainder(t, s, E) ==
  /\ Elems(t) = Elems(s) \ E
  /\ \A i, j \in DOMAIN t : i < j =>
        \E m, n \in DOMAIN s : m < n /\ s[m] = t[i] /\ s[n] = t[j]

Init ==
  /\ state = [c \in Conns |-> "NONE"]
  /\ useCount = [c \in Conns |-> 0]
  /\ aged = [c \in Conns |-> FALSE]
  /\ stale = [c \in Conns |-> FALSE]
  /\ idle = <<>>
  /\ acquired = {}
  /\ queue = <<>>
  /\ drained = FALSE
  /\ created = 0
  /\ destroyed = 0
  /\ hold = [k \in Clients |-> NoConn]
  /\ phase = [d \in Drains |-> "uncalled"]

-----------------------------------------------------------------------------
(* PooledConnection: the transitions, which no method guards.              *)

Bump(n) == IF n < UseCap THEN n + 1 ELSE n

\* destroyConnection() on every connection of `dead`, then s for connection c.
SetState(c, s, dead) ==
  state' = [x \in Conns |-> IF x = c THEN s
                            ELSE IF x \in dead THEN "DEAD" ELSE state[x]]

MarkAcquired(c, dead) ==
  /\ SetState(c, "ACQUIRED", dead)
  /\ useCount' = [useCount EXCEPT ![c] = Bump(@)]
  /\ stale' = [stale EXCEPT ![c] = FALSE]
  /\ UNCHANGED aged

MarkAllDead(dead) ==
  /\ state' = [x \in Conns |-> IF x \in dead THEN "DEAD" ELSE state[x]]
  /\ UNCHANGED <<useCount, aged, stale>>

-----------------------------------------------------------------------------
(* acquire(): the call recurses over the idle connections it has to        *)
(* recycle, so the connections after the one it takes are destroyed. After *)
(* drain() the call is rejected and changes nothing.                       *)

CanAcquire(k) == ~drained /\ hold[k] = NoConn /\ ~Waiting(k)

NoneUsable == \A i \in DOMAIN idle : ShouldRecycle(idle[i])

TopUsable(i) ==
  /\ ~ShouldRecycle(idle[i])
  /\ \A j \in DOMAIN idle : j > i => ShouldRecycle(idle[j])

AcquireIdle(k) ==
  /\ CanAcquire(k)
  /\ \E i \in DOMAIN idle :
       /\ TopUsable(i)
       /\ idle' = SubSeq(idle, 1, i - 1)
       /\ acquired' = acquired \cup {idle[i]}
       /\ hold' = [hold EXCEPT ![k] = idle[i]]
       /\ MarkAcquired(idle[i], {idle[j] : j \in (i + 1)..Len(idle)})
       /\ destroyed' = destroyed + (Len(idle) - i)
  /\ UNCHANGED <<queue, drained, created, phase>>

\* Seeded fault: the room left is compared with <= instead of <.
HasRoomOffByOne == Cardinality(acquired) <= Max

\* By now idle is empty: every idle connection has been popped and recycled.
HasRoom == Cardinality(acquired) < Max

AcquireNew(k) ==
  /\ CanAcquire(k)
  /\ NoneUsable
  /\ HasRoom
  /\ \E c \in Conns :
       /\ state[c] = "NONE"
       /\ acquired' = acquired \cup {c}
       /\ hold' = [hold EXCEPT ![k] = c]
       /\ MarkAcquired(c, Elems(idle))
  /\ idle' = <<>>
  /\ created' = created + 1
  /\ destroyed' = destroyed + Len(idle)
  /\ UNCHANGED <<queue, drained, phase>>

\* A request beyond maxQueueSize is rejected at once.
AcquireQueued(k) ==
  /\ CanAcquire(k)
  /\ NoneUsable
  /\ ~HasRoom
  /\ queue' = IF Len(queue) < MaxQueue THEN Append(queue, k) ELSE queue
  /\ idle' = <<>>
  /\ MarkAllDead(Elems(idle))
  /\ destroyed' = destroyed + Len(idle)
  /\ UNCHANGED <<acquired, drained, created, hold, phase>>

\* The acquireTimeoutMs timer of a waiting request fires.
AcquireTimeout(k) ==
  /\ \E i \in DOMAIN queue : queue[i] = k /\ queue' = Splice(queue, i)
  /\ UNCHANGED <<connVars, idle, acquired, drained, statVars, hold, phase>>

-----------------------------------------------------------------------------
(* release(): recycle, else hand to the oldest waiter, else idle.          *)

\* Seeded fault: release() forgets acquired.delete(conn).
StillOutUndeleted(c) == acquired

\* What stays acquired once c is given back.
StillOut(c) == acquired \ {c}

ReleaseRecycle(k) ==
  /\ hold[k] # NoConn
  /\ ShouldRecycle(hold[k])
  /\ MarkAllDead({hold[k]})
  /\ acquired' = StillOut(hold[k])
  /\ destroyed' = destroyed + 1
  /\ hold' = [hold EXCEPT ![k] = NoConn]
  /\ UNCHANGED <<idle, queue, drained, created, phase>>

\* Seeded fault: release() does not look for a waiter before it goes idle.
NobodyWaitsUnasked == TRUE

NobodyWaits == queue = <<>>

\* Seeded fault: the newest waiter is served (queue.pop() for queue.shift()).
ServedWaiterNewest == Len(queue)

\* The position of the waiter release() serves.
ServedWaiter == 1

\* The connection goes straight to the waiter: it is never idle in between.
ReleaseHandOff(k) ==
  /\ hold[k] # NoConn
  /\ ~ShouldRecycle(hold[k])
  /\ ~NobodyWaits
  /\ MarkAcquired(hold[k], {})
  /\ acquired' = acquired \cup {hold[k]}
  /\ hold' = [hold EXCEPT ![k] = NoConn, ![queue[ServedWaiter]] = hold[k]]
  /\ queue' = Splice(queue, ServedWaiter)
  /\ UNCHANGED <<idle, drained, statVars, phase>>

ReleaseIdle(k) ==
  /\ hold[k] # NoConn
  /\ ~ShouldRecycle(hold[k])
  /\ NobodyWaits
  /\ SetState(hold[k], "IDLE", {})
  /\ acquired' = StillOut(hold[k])
  /\ idle' = Append(idle, hold[k])
  /\ hold' = [hold EXCEPT ![k] = NoConn]
  /\ UNCHANGED <<useCount, aged, stale, queue, drained, statVars, phase>>

Release(k) == ReleaseRecycle(k) \/ ReleaseHandOff(k) \/ ReleaseIdle(k)

-----------------------------------------------------------------------------
(* The reaper: one tick evicts every idle connection that is dead or past  *)
(* the idle timeout, whatever config.min says. drain() stops it.           *)

Evictable == {c \in Elems(idle) : state[c] = "DEAD" \/ stale[c]}

Reap ==
  /\ ReapEnabled
  /\ ~drained
  /\ Evictable # {}
  /\ \E rest \in UNION {[1..n -> Elems(idle)] : n \in 0..Len(idle)} :
       /\ IsRemainder(rest, idle, Evictable)
       /\ idle' = rest
       /\ destroyed' = destroyed + (Len(idle) - Len(rest))
  /\ MarkAllDead(Evictable)
  /\ UNCHANGED <<acquired, queue, drained, created, hold, phase>>

-----------------------------------------------------------------------------
(* drain(): rejects the waiters, waits for the connections that are out    *)
(* when it was given a timeoutMs, and destroys everything that is left.    *)

DestroyAll ==
  /\ MarkAllDead(Open)
  /\ destroyed' = destroyed + Len(idle) + Cardinality(acquired)
  /\ idle' = <<>>
  /\ acquired' = {}

Drain(d, timed) ==
  /\ phase[d] = "uncalled"
  /\ drained' = TRUE
  /\ queue' = <<>>
  /\ IF timed /\ acquired # {}
     THEN /\ phase' = [phase EXCEPT ![d] = "waiting"]
          /\ UNCHANGED <<connVars, idle, acquired, statVars>>
     ELSE /\ phase' = [phase EXCEPT ![d] = "done"]
          /\ DestroyAll
          /\ UNCHANGED created
  /\ UNCHANGED hold

\* The 50 ms interval finds that nothing is out.
DrainPoll(d) ==
  /\ phase[d] = "waiting"
  /\ acquired = {}
  /\ phase' = [phase EXCEPT ![d] = "woken"]
  /\ UNCHANGED <<connVars, poolVars, statVars, hold>>

\* Seeded fault: the race has no Bun.sleep(timeoutMs) in it.
DrainTimeoutMissing(d) == DrainPoll(d)

\* Bun.sleep(timeoutMs) ends first.
DrainTimeout(d) ==
  /\ phase[d] = "waiting"
  /\ phase' = [phase EXCEPT ![d] = "woken"]
  /\ UNCHANGED <<connVars, poolVars, statVars, hold>>

DrainFinish(d) ==
  /\ phase[d] = "woken"
  /\ phase' = [phase EXCEPT ![d] = "done"]
  /\ DestroyAll
  /\ UNCHANGED <<queue, drained, created, hold>>

-----------------------------------------------------------------------------
(* Time passes.                                                            *)

AgeOut(c) ==
  /\ AgeLimited
  /\ state[c] # "NONE"
  /\ ~aged[c]
  /\ aged' = [aged EXCEPT ![c] = TRUE]
  /\ UNCHANGED <<state, useCount, stale, poolVars, statVars, hold, phase>>

GoStale(c) ==
  /\ ReapEnabled
  /\ state[c] # "NONE"
  /\ ~stale[c]
  /\ stale' = [stale EXCEPT ![c] = TRUE]
  /\ UNCHANGED <<state, useCount, aged, poolVars, statVars, hold, phase>>

Next ==
  \/ \E k \in Clients :
       \/ AcquireIdle(k)
       \/ AcquireNew(k)
       \/ AcquireQueued(k)
       \/ AcquireTimeout(k)
       \/ ReleaseRecycle(k)
       \/ ReleaseHandOff(k)
       \/ ReleaseIdle(k)
  \/ Reap
  \/ \E d \in Drains :
       \/ \E timed \in BOOLEAN : Drain(d, timed)
       \/ DrainPoll(d)
       \/ DrainTimeout(d)
       \/ DrainFinish(d)
  \/ \E c \in Conns : AgeOut(c) \/ GoStale(c)

Spec == Init /\ [][Next]_vars

\* Every timer of the process fires: setTimeout, setInterval and Bun.sleep.
TimerFairness ==
  \A d \in Drains : WF_vars(DrainPoll(d) \/ DrainTimeout(d)) /\ WF_vars(DrainFinish(d))

\* A client gives back what it was given (the adapters release in `finally`).
ReleaseFairness == \A k \in Clients : WF_vars(Release(k))

FairSpec == Spec /\ TimerFairness

-----------------------------------------------------------------------------
(* Properties.                                                             *)

\* A connection is in one place: never twice in the idle list, never idle and
\* acquired at once, never held by two clients, never idle while a client holds
\* it. Two clients on one connection would interleave their statements.
NoSharing ==
  /\ IsInjective(idle)
  /\ Elems(idle) \cap acquired = {}
  /\ \A j, k \in Clients : hold[j] = hold[k] /\ hold[j] # NoConn => j = k
  /\ Elems(idle) \cap Held = {}

\* However acquires, recycling, timeouts, the reaper and drains interleave, the
\* pool never has more than config.max connections open.
PoolBound == Cardinality(Open) <= Max

\* Until a drain has finished, the acquired set is exactly what clients hold, all
\* of it alive: nothing leaks and nothing is destroyed under a client.
NoLeak ==
  ~DrainDone => /\ acquired = Held
                /\ \A c \in acquired : state[c] = "ACQUIRED"

\* No request waits while a connection sits idle.
NoIdleWhileWaiting == queue # <<>> => idle = <<>>

\* totalCreated and totalDestroyed of poolStats() balance with idle and acquired
\* for as long as no drain has destroyed connections that are still held.
StatsBalance == ~DrainDone => created = destroyed + Len(idle) + Cardinality(acquired)

\* Every connection that was created is idle, with the client that holds it, or
\* counted as destroyed, for as long as no drain has finished.
Accounted == NoLeak /\ StatsBalance

\* A connection is not past its age or use limit when a client gets it: it has at
\* least the use it is handed out for left.
HandedOutFresh ==
  [][\A k \in Clients : hold'[k] # NoConn /\ hold'[k] # hold[k]
        => ~ShouldRecycle(hold'[k])]_vars

\* Requests are served in the order they queued: whoever gets a connection while
\* others wait is the oldest of them, so a newcomer never overtakes.
NoOvertaking ==
  [][\A k \in Clients : hold'[k] # NoConn /\ hold'[k] # hold[k] /\ queue # <<>>
        => k = Head(queue)]_vars

\* Connections are replaced for their age or their use.
Recycles == AgeLimited \/ MaxUseCount > 0

\* To its clients the pool is an allocator of leases, see PoolPromise.
Promise == INSTANCE PoolPromise WITH lease <- hold, waiting <- queue, closed <- drained

\* However idle connections, the reaper, timers and drains interleave, clients see
\* nothing but exclusive leases, at most config.max of them, given in their turn,
\* and wait only while all are given out.
ImplementsAllocator == Promise!Spec

\* As long as clients give connections back, no request waits forever, even if
\* its acquire timer were never to fire: the pool serves it.
EveryWaiterSettles ==
  ReleaseFairness => \A k \in Clients : Waiting(k) ~> ~Waiting(k)

\* Every call of drain() ends, whether or not clients give anything back.
DrainEnds == \A d \in Drains : phase[d] = "waiting" ~> phase[d] = "done"
=============================================================================
