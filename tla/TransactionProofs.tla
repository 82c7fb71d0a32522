------------------------- MODULE TransactionProofs -------------------------
(***************************************************************************)
(* Proofs about Transaction, for any tasks and any number of calls.        *)
(***************************************************************************)
EXTENDS Transaction, TLAPS

Sent == 1..Len(sent)
Points == 1..Len(points)

\* Names: whatever is called by a name got it from the depth, and a SAVEPOINT
\* on its way has one that nothing else has.
NamesBounded ==
  /\ \A i \in Sent : sent[i].name <= depth
  /\ \A i \in Points : points[i].name <= depth
  /\ \A h \in handles : h.name <= depth

NamesFresh ==
  \A i \in Sent : sent[i].kind = "savepoint" =>
    /\ \A j \in Sent : sent[j].kind = "savepoint" /\ sent[i].name = sent[j].name => i = j
    /\ \A j \in Points : points[j].name # sent[i].name
    /\ \A h \in handles : h.name # sent[i].name

Naming == NamesBounded /\ NamesFresh /\ SavepointExact

\* Ends: what was sent behind an end is late, and after the release nothing
\* else is left; the transaction ends on the server only by an end that is
\* answered or with the connection.
LateBehindEnd ==
  /\ \A i, j \in Sent : i < j /\ sent[i].kind \in Endings => sent[j].id \in late
  /\ released => \A i \in Sent : sent[i].id \in late

EndsRecorded ==
  \A i \in Sent : sent[i].kind \in Endings =>
    [id |-> sent[i].id, by |-> sent[i].by, kind |-> sent[i].kind] \in ends

Ending ==
  /\ LateBehindEnd
  /\ EndsRecorded
  /\ state = "ACTIVE" => ~released
  /\ ~released /\ ~marked => state = "ACTIVE"
  /\ ~released /\ ~lost => server \in {"open", "aborted"}
  /\ released \/ lost => server \in Ended

\* The wrapper sends one statement, when the callback is over.
WrapperOnce == fn = "running" => \A i \in Sent : sent[i].by # Wrapper
WrapperCommits == \A e \in ends : e.by = Wrapper /\ e.kind = "commit" => fn = "returned"

NoCommit == \A e \in ends : e.kind # "commit"
Escapes == NoCommit => durable \subseteq late /\ server # "committed"

-----------------------------------------------------------------------------
(* Sequences.                                                              *)

LEMMA TailFacts ==
  ASSUME NEW S, NEW s \in Seq(S), s # <<>>
  PROVE  /\ Tail(s) \in Seq(S)
         /\ Head(s) = s[1] /\ Head(s) \in S
         /\ 1 \in 1..Len(s)
         /\ \A i \in 1..Len(Tail(s)) : i + 1 \in 1..Len(s) /\ Tail(s)[i] = s[i + 1]
  OBVIOUS

LEMMA AppendFacts ==
  ASSUME NEW S, NEW s \in Seq(S), NEW x \in S
  PROVE  /\ Append(s, x) \in Seq(S)
         /\ \A i \in 1..Len(Append(s, x)) :
              \/ i \in 1..Len(s) /\ Append(s, x)[i] = s[i]
              \/ i = Len(s) + 1 /\ Append(s, x)[i] = x
  OBVIOUS

LEMMA PrefixFacts ==
  ASSUME NEW S, NEW s \in Seq(S), NEW n \in 0..Len(s)
  PROVE  /\ SubSeq(s, 1, n) \in Seq(S)
         /\ \A i \in 1..Len(SubSeq(s, 1, n)) : i \in 1..Len(s) /\ SubSeq(s, 1, n)[i] = s[i]
  OBVIOUS

-----------------------------------------------------------------------------
(* What every send and every answer does to the statements on their way.   *)

LEMMA SendFacts ==
  ASSUME TypeOK, NEW a \in Actors, NEW kind \in Kinds, NEW name \in Nat,
         ~InFlight(a), Send(a, kind, name)
  PROVE  /\ calls' = calls + 1 /\ calls' \in Ids
         /\ sent' \in Seq(Statement)
         /\ \A i \in 1..Len(sent)' :
              \/ i \in Sent /\ sent'[i] = sent[i]
              \/ /\ i = Len(sent) + 1
                 /\ sent'[i].id = calls' /\ sent'[i].by = a
                 /\ sent'[i].kind = kind /\ sent'[i].name = name
         /\ \A i, j \in 1..Len(sent)' : sent'[i].by = sent'[j].by => i = j
         /\ late' \in SUBSET Ids /\ late \subseteq late'
         /\ EndInFlight => calls' \in late'
         /\ UNCHANGED <<server, lost, work, points, durable, handles, marked>>
<1> DEFINE x == [id |-> calls + 1, by |-> a, kind |-> kind, name |-> name]
<1>1. sent \in Seq(Statement) /\ calls \in Nat /\ late \in SUBSET Ids
  BY DEF TypeOK
<1>2. calls' = calls + 1 /\ calls' \in Ids
  BY <1>1 DEF Send, Ids
<1>3. x \in Statement /\ sent' = Append(sent, x)
  BY <1>1, <1>2 DEF Send, Statement
<1>4. /\ sent' \in Seq(Statement)
      /\ \A i \in 1..Len(sent)' :
           \/ i \in Sent /\ sent'[i] = sent[i]
           \/ i = Len(sent) + 1 /\ sent'[i] = x
  <2> HIDE DEF x
  <2> QED BY <1>1, <1>3, AppendFacts, Zenon DEF Sent
<1>5. \A i \in Sent : sent[i].by # a
  BY DEF InFlight, Sent
<1>6. ASSUME NEW i \in 1..Len(sent)', NEW j \in 1..Len(sent)', sent'[i].by = sent'[j].by
      PROVE  i = j
  <2>1. x.by = a
    OBVIOUS
  <2>2. \A k \in 1..Len(sent)' :
          \/ k \in Sent /\ sent'[k].by = sent[k].by
          \/ k = Len(sent) + 1 /\ sent'[k].by = a
    <3> HIDE DEF x
    <3> QED BY <1>4, <2>1
  <2>3. \A k, l \in Sent : sent[k].by = sent[l].by => k = l
    BY DEF TypeOK, OneWaitEach, Sent
  <2> QED BY <1>5, <1>6, <2>2, <2>3
<1>7. /\ late' \in SUBSET Ids /\ late \subseteq late'
      /\ EndInFlight => calls' \in late'
  BY <1>1, <1>2 DEF Send
<1>8. UNCHANGED <<server, lost, work, points, durable, handles, marked>>
  BY DEF Send
<1>9. x.id = calls' /\ x.by = a /\ x.kind = kind /\ x.name = name
  BY <1>2
<1> HIDE DEF x
<1> QED BY <1>2, <1>4, <1>6, <1>7, <1>8, <1>9

LEMMA PopFacts ==
  ASSUME TypeOK, sent # <<>>, sent' = Tail(sent)
  PROVE  /\ sent' \in Seq(Statement)
         /\ 1 \in Sent /\ Head(sent) = sent[1] /\ Head(sent) \in Statement
         /\ \A i \in 1..Len(sent)' : i + 1 \in Sent /\ sent'[i] = sent[i + 1]
         /\ \A i, j \in 1..Len(sent)' : sent'[i].by = sent'[j].by => i = j
<1>1. sent \in Seq(Statement)
  BY DEF TypeOK
<1>2. /\ sent' \in Seq(Statement)
      /\ 1 \in Sent /\ Head(sent) = sent[1] /\ Head(sent) \in Statement
      /\ \A i \in 1..Len(sent)' : i + 1 \in Sent /\ sent'[i] = sent[i + 1]
  BY <1>1, TailFacts, Zenon DEF Sent
<1>3. \A i, j \in 1..Len(sent)' : i \in Nat /\ j \in Nat /\ (i + 1 = j + 1 => i = j)
  BY <1>2
<1>4. \A i, j \in 1..Len(sent)' : sent'[i].by = sent'[j].by => i = j
  BY <1>2, <1>3 DEF TypeOK, OneWaitEach, Sent
<1> QED BY <1>2, <1>4

LEMMA SendTyped ==
  ASSUME TypeOK, NEW a \in Actors, NEW kind \in Kinds, NEW name \in Nat,
         ~InFlight(a), Send(a, kind, name)
  PROVE  /\ sent' \in Seq(Statement) /\ OneWaitEach'
         /\ calls' = calls + 1 /\ calls' \in Ids
         /\ late' \in SUBSET Ids
         /\ UNCHANGED <<server, lost, work, points, durable, handles, marked>>
  BY SendFacts DEF OneWaitEach

LEMMA PopTyped ==
  ASSUME TypeOK, sent # <<>>, sent' = Tail(sent)
  PROVE  sent' \in Seq(Statement) /\ OneWaitEach'
  BY PopFacts DEF OneWaitEach

-----------------------------------------------------------------------------
(* Types.                                                                  *)

LEMMA Typing == TypeOK /\ WrapperOnce /\ [Next]_vars => TypeOK'
<1> SUFFICES ASSUME TypeOK, WrapperOnce, [Next]_vars PROVE TypeOK'
  OBVIOUS
<1> Wrapper \in Actors /\ \A t \in Tasks : t \in Actors
  BY DEF Actors
<1>1. ASSUME NEW t \in Tasks, Execute(t) PROVE TypeOK'
  <2>1. ~InFlight(t) /\ Send(t, "execute", 0) /\ UNCHANGED <<client, ends>>
    BY <1>1 DEF Execute, Free
  <2>2. "execute" \in Kinds
    BY DEF Kinds
  <2> QED BY <2>1, <2>2, SendTyped DEF TypeOK, client
<1>2. ASSUME NEW t \in Tasks, Savepoint(t) PROVE TypeOK'
  <2>1. /\ ~InFlight(t) /\ depth' = depth + 1 /\ depth + 1 \in Nat
        /\ Send(t, "savepoint", depth + 1)
        /\ UNCHANGED <<state, released, fn, thrower, outcome, ends>>
    BY <1>2 DEF Savepoint, Free, NextDepth, TypeOK
  <2>2. "savepoint" \in Kinds
    BY DEF Kinds
  <2>3. /\ sent' \in Seq(Statement) /\ OneWaitEach'
        /\ calls' = calls + 1 /\ late' \in SUBSET Ids
        /\ UNCHANGED <<server, lost, work, points, durable, handles, marked>>
    BY <2>1, <2>2, SendTyped
  <2> QED BY <2>1, <2>3 DEF TypeOK
<1>3. ASSUME NEW t \in Tasks, NEW kind \in {"rollback_to", "release"}, PointCall(t, kind)
      PROVE  TypeOK'
  <2>1. PICK h \in handles : Send(t, kind, h.name)
    BY <1>3 DEF PointCall
  <2>2. h \in Handle
    BY DEF TypeOK
  <2>3. ~InFlight(t) /\ h.name \in Nat /\ kind \in Kinds /\ UNCHANGED <<client, ends>>
    BY <1>3, <2>2 DEF PointCall, Free, Handle, Kinds
  <2> QED BY <2>1, <2>3, SendTyped DEF TypeOK, client
<1>4. ASSUME NEW a \in Actors, NEW kind \in Endings, ~InFlight(a), SendEnd(a, kind)
      PROVE  /\ sent' \in Seq(Statement) /\ OneWaitEach'
             /\ calls' = calls + 1
             /\ ends' \in SUBSET EndCall /\ late' \in SUBSET Ids
             /\ UNCHANGED <<server, lost, work, points, durable, handles, marked>>
  <2>1. Send(a, kind, 0) /\ ends' = ends \cup {[id |-> calls', by |-> a, kind |-> kind]}
    BY <1>4 DEF SendEnd
  <2>2. kind \in Kinds
    BY DEF Kinds
  <2>3. /\ sent' \in Seq(Statement) /\ OneWaitEach'
        /\ calls' = calls + 1 /\ calls' \in Ids /\ late' \in SUBSET Ids
        /\ UNCHANGED <<server, lost, work, points, durable, handles, marked>>
    BY <1>4, <2>1, <2>2, SendTyped
  <2>4. [id |-> calls', by |-> a, kind |-> kind] \in EndCall
    BY <2>3 DEF EndCall
  <2> QED BY <2>1, <2>3, <2>4 DEF TypeOK
<1>5. ASSUME NEW t \in Tasks, NEW kind \in Endings, End(t, kind) PROVE TypeOK'
  <2>1. ~InFlight(t) /\ SendEnd(t, kind) /\ UNCHANGED client
    BY <1>5 DEF End, Free
  <2> QED BY <1>4, <2>1 DEF TypeOK, client
<1>6. ASSUME NEW t \in Tasks, NEW s \in Marks, Mark(t, s) PROVE TypeOK'
  <2>1. s \in States
    BY TransactionAssumption DEF States
  <2> QED BY <1>6, <2>1 DEF Mark, TypeOK, connection, OneWaitEach
<1>7. ASSUME CallbackReturns PROVE TypeOK'
  <2>1. ~InFlight(Wrapper) /\ "commit" \in Endings
    BY <1>7 DEF CallbackReturns, WrapperOnce, InFlight, Sent, Endings
  <2>2. /\ fn' = "returned" /\ UNCHANGED <<state, depth, released, thrower>>
        /\ \/ SendEnd(Wrapper, "commit") /\ UNCHANGED outcome
           \/ outcome' = "resolved" /\ UNCHANGED <<connection, history>>
    BY <1>7 DEF CallbackReturns, EndIfActive
  <2>3. CASE SendEnd(Wrapper, "commit") /\ UNCHANGED outcome
    BY <1>4, <2>1, <2>2, <2>3 DEF TypeOK
  <2>4. CASE outcome' = "resolved" /\ UNCHANGED <<connection, history>>
    BY <2>2, <2>4 DEF TypeOK, OneWaitEach, connection, history
  <2> QED BY <2>2, <2>3, <2>4
<1>8. ASSUME NEW t \in Tasks, CallbackThrows(t) PROVE TypeOK'
  <2>1. ~InFlight(Wrapper) /\ "rollback" \in Endings
    BY <1>8 DEF CallbackThrows, WrapperOnce, InFlight, Sent, Endings
  <2>2. /\ fn' = "threw" /\ thrower' = t /\ UNCHANGED <<state, depth, released>>
        /\ \/ SendEnd(Wrapper, "rollback") /\ UNCHANGED outcome
           \/ outcome' = "rejected" /\ UNCHANGED <<connection, history>>
    BY <1>8 DEF CallbackThrows, EndIfActive
  <2>3. CASE SendEnd(Wrapper, "rollback") /\ UNCHANGED outcome
    BY <1>4, <2>1, <2>2, <2>3 DEF TypeOK
  <2>4. CASE outcome' = "rejected" /\ UNCHANGED <<connection, history>>
    BY <2>2, <2>4 DEF TypeOK, OneWaitEach, connection, history
  <2> QED BY <2>2, <2>3, <2>4
<1>9. ASSUME sent # <<>>, sent' = Tail(sent), UNCHANGED <<client, lost, calls, ends, late, marked>>,
             server' \in {"open", "aborted"} \cup Ended,
             work' \in SUBSET Ids, points' \in Seq(Point), durable' \in SUBSET Ids,
             handles' \in SUBSET Handle
      PROVE  TypeOK'
  BY <1>9, PopTyped DEF TypeOK, client
<1>10. ASSUME Executed PROVE TypeOK'
  <2>1. sent # <<>> /\ sent' = Tail(sent) /\ Head(sent) \in Statement
    BY <1>10, PopFacts DEF Executed, Oldest
  <2>2. Head(sent).id \in Ids
    BY <2>1 DEF Statement
  <2> QED BY <1>9, <1>10, <2>1, <2>2 DEF Executed, TypeOK, history
<1>11. ASSUME SavepointMade PROVE TypeOK'
  <2>1. sent # <<>> /\ sent' = Tail(sent) /\ Head(sent) \in Statement
    BY <1>11, PopFacts DEF SavepointMade, Oldest
  <2>2. Head(sent).name \in Nat
    BY <2>1 DEF Statement
  <2>3. /\ [name |-> Head(sent).name, work |-> work] \in Point
        /\ [name |-> Head(sent).name, saved |-> work] \in Handle
    BY <2>2 DEF TypeOK, Point, Handle
  <2>4. points' \in Seq(Point)
    BY <1>11, <2>3, AppendFacts DEF SavepointMade, TypeOK
  <2>5. handles' \in SUBSET Handle
    BY <1>11, <2>3 DEF SavepointMade, TypeOK
  <2> QED BY <1>9, <1>11, <2>1, <2>4, <2>5 DEF SavepointMade, TypeOK
<1>12. ASSUME RolledBackTo PROVE TypeOK'
  <2>1. sent # <<>> /\ sent' = Tail(sent)
    BY <1>12 DEF RolledBackTo, Oldest
  <2>2. PICK i \in 1..Len(points) : points' = SubSeq(points, 1, i) /\ work' = points[i].work
    BY <1>12 DEF RolledBackTo
  <2>3. points \in Seq(Point)
    BY DEF TypeOK
  <2>4. points' \in Seq(Point) /\ points[i] \in Point
    BY <2>2, <2>3, PrefixFacts
  <2>5. work' \in SUBSET Ids
    BY <2>2, <2>4 DEF Point
  <2> QED BY <1>9, <1>12, <2>1, <2>4, <2>5 DEF RolledBackTo, TypeOK, history
<1>13. ASSUME PointReleased PROVE TypeOK'
  <2>1. sent # <<>> /\ sent' = Tail(sent)
    BY <1>13 DEF PointReleased, Oldest
  <2>2. PICK i \in 1..Len(points) : points' = SubSeq(points, 1, i - 1)
    BY <1>13 DEF PointReleased
  <2>3. points \in Seq(Point)
    BY DEF TypeOK
  <2>4. points' \in Seq(Point)
    BY <2>2, <2>3, PrefixFacts
  <2> QED BY <1>9, <1>13, <2>1, <2>4 DEF PointReleased, TypeOK, history
<1>14. ASSUME StatementFails PROVE TypeOK'
  <2>1. sent # <<>> /\ sent' = Tail(sent)
    BY <1>14 DEF StatementFails, Oldest
  <2> QED BY <1>9, <1>14, <2>1 DEF StatementFails, TypeOK, history
<1>15. ASSUME NEW e \in Ended, ServerEnds(e) \/ ServerUnchanged
       PROVE  /\ server' \in {"open", "aborted"} \cup Ended
              /\ work' \in SUBSET Ids /\ durable' \in SUBSET Ids
              /\ points' \in Seq(Point)
  <2>1. CASE ServerEnds(e)
    <3>1. <<>> \in Seq(Point)
      OBVIOUS
    <3> QED BY <2>1, <3>1 DEF ServerEnds, TypeOK
  <2>2. CASE ServerUnchanged
    BY <2>2 DEF ServerUnchanged, TypeOK
  <2> QED BY <1>15, <2>1, <2>2
<1>16. ASSUME NEW s \in States, NEW settled \in {"resolved", "rejected"},
              Answered(s, settled), sent # <<>>,
              NEW e \in Ended, ServerEnds(e) \/ ServerUnchanged
       PROVE  TypeOK'
  <2>1. sent' = Tail(sent)
    BY <1>16 DEF Answered
  <2>2. sent' \in Seq(Statement) /\ OneWaitEach'
    BY <1>16, <2>1, PopTyped
  <2>3. /\ server' \in {"open", "aborted"} \cup Ended
        /\ work' \in SUBSET Ids /\ durable' \in SUBSET Ids /\ points' \in Seq(Point)
    BY <1>15, <1>16
  <2> QED BY <1>16, <2>2, <2>3 DEF Answered, TypeOK, history
<1>17. ASSUME Committed PROVE TypeOK'
  <2>1. sent # <<>> /\ Answered("COMMITTED", "resolved")
    BY <1>17 DEF Committed, Oldest
  <2>2. \E e \in Ended : ServerEnds(e) \/ ServerUnchanged
    BY <1>17 DEF Committed, Ended
  <2> QED BY <1>16, <2>1, <2>2 DEF States
<1>18. ASSUME RolledBack PROVE TypeOK'
  <2>1. sent # <<>> /\ Answered("ROLLED_BACK", "rejected")
    BY <1>18 DEF RolledBack, Oldest
  <2>2. \E e \in Ended : ServerEnds(e) \/ ServerUnchanged
    BY <1>18 DEF RolledBack, Ended
  <2> QED BY <1>16, <2>1, <2>2 DEF States
<1>19. ASSUME EndFails PROVE TypeOK'
  <2>1. sent # <<>> /\ Answered("FAILED", "rejected")
    BY <1>19 DEF EndFails, Oldest
  <2>2. \E e \in Ended : ServerEnds(e) \/ ServerUnchanged
    BY <1>19 DEF EndFails, Ended
  <2> QED BY <1>16, <2>1, <2>2 DEF States
<1>20. ASSUME ConnectionLost PROVE TypeOK'
  <2>1. \E e \in Ended : ServerEnds(e) \/ ServerUnchanged
    BY <1>20 DEF ConnectionLost, Ended
  <2>2. /\ server' \in {"open", "aborted"} \cup Ended
        /\ work' \in SUBSET Ids /\ durable' \in SUBSET Ids /\ points' \in Seq(Point)
    BY <1>15, <2>1
  <2> QED BY <1>20, <2>2 DEF ConnectionLost, TypeOK, OneWaitEach, client, history
<1>21. CASE UNCHANGED vars
  BY <1>21 DEF vars, TypeOK, OneWaitEach, client, connection, history
<1> QED
  BY <1>1, <1>2, <1>3, <1>5, <1>6, <1>7, <1>8, <1>10, <1>11, <1>12, <1>13, <1>14,
     <1>17, <1>18, <1>19, <1>20, <1>21 DEF Next, TaskCalls, Answer

-----------------------------------------------------------------------------
(* Names.                                                                  *)

\* The savepoints a step leaves are the first of those there were.
FewerPoints == \A i \in 1..Len(points)' : i \in Points /\ points'[i] = points[i]

LEMMA EndsClearPoints ==
  ASSUME NEW e \in Ended, ServerEnds(e) \/ ServerUnchanged
  PROVE  FewerPoints
BY DEF ServerEnds, ServerUnchanged, FewerPoints, Points

LEMMA NamingKept ==
  ASSUME TypeOK, Naming, UNCHANGED <<depth, handles>>, FewerPoints,
         \/ sent # <<>> /\ sent' = Tail(sent)
         \/ UNCHANGED sent
  PROVE  Naming'
<1>1. /\ \A i \in 1..Len(points)' : points'[i].name <= depth
      /\ SavepointExact'
  BY DEF FewerPoints, Points, Naming, NamesBounded, SavepointExact
<1>2. CASE sent # <<>> /\ sent' = Tail(sent)
  <2>1. \A i \in 1..Len(sent)' : i + 1 \in Sent /\ sent'[i] = sent[i + 1]
    BY <1>2, PopFacts
  <2>2. NamesBounded'
    BY <1>1, <2>1 DEF Naming, NamesBounded, Sent, Points
  <2>3. ASSUME NEW i \in 1..Len(sent)', sent'[i].kind = "savepoint"
        PROVE  /\ \A j \in 1..Len(points)' : points'[j].name # sent'[i].name
               /\ \A h \in handles : h.name # sent'[i].name
    <3>1. /\ \A j \in Points : points[j].name # sent'[i].name
          /\ \A h \in handles : h.name # sent'[i].name
      BY <2>1, <2>3 DEF Naming, NamesFresh
    <3> QED BY <3>1 DEF FewerPoints
  <2>4. ASSUME NEW i \in 1..Len(sent)', NEW j \in 1..Len(sent)',
               sent'[i].kind = "savepoint", sent'[j].kind = "savepoint",
               sent'[i].name = sent'[j].name
        PROVE  i = j
    <3>1. i + 1 = j + 1
      BY <2>1, <2>4 DEF Naming, NamesFresh
    <3> QED BY <3>1
  <2>5. NamesFresh'
    BY <2>3, <2>4 DEF NamesFresh, Sent, Points
  <2> QED BY <1>1, <2>2, <2>5 DEF Naming
<1>3. CASE UNCHANGED sent
  <2>1. NamesBounded'
    BY <1>1, <1>3 DEF Naming, NamesBounded, Sent, Points
  <2>2. NamesFresh'
    BY <1>3 DEF FewerPoints, Naming, NamesFresh, Sent, Points
  <2> QED BY <1>1, <2>1, <2>2 DEF Naming
<1> QED BY <1>2, <1>3

\* A statement that makes no savepoint is called by a name there is, or by none.
LEMMA NamingSent ==
  ASSUME TypeOK, Naming, UNCHANGED depth,
         NEW a \in Actors, NEW kind \in Kinds \ {"savepoint"}, NEW name \in Nat,
         name <= depth, ~InFlight(a), Send(a, kind, name)
  PROVE  Naming'
<1> kind \in Kinds
  OBVIOUS
<1>1. /\ UNCHANGED <<points, handles>>
      /\ \A i \in 1..Len(sent)' :
           \/ i \in Sent /\ sent'[i] = sent[i]
           \/ i = Len(sent) + 1 /\ sent'[i].kind = kind /\ sent'[i].name = name
  BY SendFacts
<1>2. NamesBounded'
  BY <1>1 DEF Naming, NamesBounded, Sent, Points
<1>3. NamesFresh'
  BY <1>1 DEF Naming, NamesFresh, Sent, Points
<1>4. SavepointExact'
  BY <1>1 DEF Naming, SavepointExact
<1> QED BY <1>2, <1>3, <1>4 DEF Naming

LEMMA NamingStep == TypeOK /\ WrapperOnce /\ Naming /\ [Next]_vars => Naming'
<1> SUFFICES ASSUME TypeOK, WrapperOnce, Naming, [Next]_vars PROVE Naming'
  OBVIOUS
<1> Wrapper \in Actors /\ (\A t \in Tasks : t \in Actors) /\ depth \in Nat
  BY DEF Actors, TypeOK
<1>1. ASSUME UNCHANGED points PROVE FewerPoints
  BY <1>1 DEF FewerPoints, Points
<1>2. ASSUME NEW t \in Tasks, Execute(t) PROVE Naming'
  <2>1. ~InFlight(t) /\ Send(t, "execute", 0) /\ UNCHANGED depth
    BY <1>2 DEF Execute, Free, client
  <2>2. "execute" \in Kinds \ {"savepoint"} /\ 0 \in Nat /\ 0 <= depth
    BY DEF Kinds
  <2> QED BY <2>1, <2>2, NamingSent
<1>3. ASSUME NEW t \in Tasks, Savepoint(t) PROVE Naming'
  <2>1. /\ ~InFlight(t) /\ depth' = depth + 1 /\ depth + 1 \in Nat
        /\ Send(t, "savepoint", depth + 1)
    BY <1>3 DEF Savepoint, Free, NextDepth, TypeOK
  <2>2. "savepoint" \in Kinds
    BY DEF Kinds
  <2>3. /\ UNCHANGED <<points, handles>>
        /\ \A i \in 1..Len(sent)' :
             \/ i \in Sent /\ sent'[i] = sent[i]
             \/ i = Len(sent) + 1 /\ sent'[i].name = depth + 1
    BY <2>1, <2>2, SendFacts
  <2>4. /\ \A i \in Sent : sent[i].name <= depth /\ sent[i].name \in Nat
        /\ \A i \in Points : points[i].name <= depth /\ points[i].name \in Nat
        /\ \A h \in handles : h.name <= depth /\ h.name \in Nat
    <3>1. \A i \in Sent : sent[i] \in Statement
      BY DEF TypeOK, Sent
    <3>2. \A i \in Points : points[i] \in Point
      BY DEF TypeOK, Points
    <3>3. \A h \in handles : h \in Handle
      BY DEF TypeOK
    <3> QED BY <3>1, <3>2, <3>3 DEF Naming, NamesBounded, Statement, Point, Handle
  <2>5. NamesBounded'
    BY <2>1, <2>3, <2>4 DEF NamesBounded, Sent, Points
  <2>6. NamesFresh'
    BY <2>3, <2>4 DEF Naming, NamesFresh, Sent, Points
  <2>7. SavepointExact'
    BY <2>3 DEF Naming, SavepointExact
  <2> QED BY <2>5, <2>6, <2>7 DEF Naming
<1>4. ASSUME NEW t \in Tasks, NEW kind \in {"rollback_to", "release"}, PointCall(t, kind)
      PROVE  Naming'
  <2>1. PICK h \in handles : Send(t, kind, h.name)
    BY <1>4 DEF PointCall
  <2>2. /\ ~InFlight(t) /\ h.name \in Nat /\ h.name <= depth /\ UNCHANGED depth
        /\ kind \in Kinds \ {"savepoint"}
    BY <1>4 DEF PointCall, Free, client, TypeOK, Handle, Kinds, Naming, NamesBounded
  <2> QED BY <2>1, <2>2, NamingSent
<1>5. ASSUME NEW a \in Actors, NEW kind \in Endings, ~InFlight(a), SendEnd(a, kind),
             UNCHANGED depth
      PROVE  Naming'
  <2>1. 0 \in Nat /\ 0 <= depth
    OBVIOUS
  <2>2. kind \in Kinds \ {"savepoint"}
    BY DEF Kinds, Endings
  <2>3. Send(a, kind, 0)
    BY <1>5 DEF SendEnd
  <2> QED BY <1>5, <2>1, <2>2, <2>3, NamingSent
<1>6. ASSUME NEW t \in Tasks, NEW kind \in Endings, End(t, kind) PROVE Naming'
  BY <1>5, <1>6 DEF End, Free, client
<1>7. ASSUME NEW t \in Tasks, NEW s \in Marks, Mark(t, s) PROVE Naming'
  BY <1>1, <1>7, NamingKept DEF Mark, connection
<1>8. ASSUME UNCHANGED <<connection, history, depth>> PROVE Naming'
  BY <1>1, <1>8, NamingKept DEF connection, history
<1>9. ASSUME CallbackReturns PROVE Naming'
  <2>1. ~InFlight(Wrapper) /\ "commit" \in Endings
    BY <1>9 DEF CallbackReturns, WrapperOnce, InFlight, Sent, Endings
  <2> QED BY <1>5, <1>8, <1>9, <2>1 DEF CallbackReturns, EndIfActive
<1>10. ASSUME NEW t \in Tasks, CallbackThrows(t) PROVE Naming'
  <2>1. ~InFlight(Wrapper) /\ "rollback" \in Endings
    BY <1>10 DEF CallbackThrows, WrapperOnce, InFlight, Sent, Endings
  <2> QED BY <1>5, <1>8, <1>10, <2>1 DEF CallbackThrows, EndIfActive
<1>11. ASSUME Executed \/ StatementFails PROVE Naming'
  BY <1>1, <1>11, NamingKept DEF Executed, StatementFails, Oldest, client, history
<1>12. ASSUME SavepointMade PROVE Naming'
  <2> DEFINE n == Head(sent).name
  <2>1. /\ 1 \in Sent /\ sent[1].name = n /\ sent[1].kind = "savepoint" /\ n \in Nat
        /\ \A i \in 1..Len(sent)' : i + 1 \in Sent /\ i + 1 # 1 /\ sent'[i] = sent[i + 1]
        /\ \A i, j \in 1..Len(sent)' : i + 1 = j + 1 => i = j
    BY <1>12, PopFacts DEF SavepointMade, Oldest, Statement
  <2>2. /\ points' = Append(points, [name |-> n, work |-> work])
        /\ handles' = handles \cup {[name |-> n, saved |-> work]}
        /\ UNCHANGED depth
    BY <1>12 DEF SavepointMade, client
  <2>3. [name |-> n, work |-> work] \in Point
    BY <2>1 DEF TypeOK, Point
  <2>4. \A i \in 1..Len(points)' :
          \/ i \in Points /\ points'[i] = points[i]
          \/ i = Len(points) + 1 /\ points'[i] = [name |-> n, work |-> work]
    BY <2>2, <2>3, AppendFacts DEF TypeOK, Points
  <2>5. \A h \in handles' : \/ h \in handles
                            \/ h.name = n /\ h.saved = work
    BY <2>2
  <2>6. /\ n <= depth
        /\ \A j \in Points : points[j].name # n
        /\ \A h \in handles : h.name # n
        /\ \A j \in Sent : sent[j].kind = "savepoint" /\ sent[j].name = n => j = 1
    BY <2>1 DEF Naming, NamesBounded, NamesFresh
  <2> HIDE DEF n
  <2>7. NamesBounded'
    BY <2>1, <2>2, <2>4, <2>5, <2>6 DEF Naming, NamesBounded, Sent, Points
  <2>8. NamesFresh'
    <3>1. ASSUME NEW i \in 1..Len(sent)', sent'[i].kind = "savepoint"
          PROVE  /\ sent'[i].name # n
                 /\ \A j \in Points : points[j].name # sent'[i].name
                 /\ \A h \in handles : h.name # sent'[i].name
      BY <2>1, <2>6, <3>1 DEF Naming, NamesFresh
    <3>2. ASSUME NEW i \in 1..Len(sent)', NEW j \in 1..Len(sent)',
                 sent'[i].kind = "savepoint", sent'[j].kind = "savepoint",
                 sent'[i].name = sent'[j].name
          PROVE  i = j
      BY <2>1, <3>2 DEF Naming, NamesFresh
    <3> QED BY <2>4, <2>5, <3>1, <3>2 DEF NamesFresh, Sent, Points
  <2>9. SavepointExact'
    BY <2>4, <2>5, <2>6 DEF Naming, SavepointExact, Points
  <2> QED BY <2>7, <2>8, <2>9 DEF Naming
<1>13. ASSUME RolledBackTo \/ PointReleased PROVE Naming'
  <2>1. \E i \in 1..Len(points) : points' = SubSeq(points, 1, i) \/ points' = SubSeq(points, 1, i - 1)
    BY <1>13 DEF RolledBackTo, PointReleased
  <2>2. points \in Seq(Point)
    BY DEF TypeOK
  <2>3. \E k \in 0..Len(points) : points' = SubSeq(points, 1, k)
    BY <2>1, <2>2
  <2>4. FewerPoints
    BY <2>2, <2>3, PrefixFacts DEF FewerPoints, Points
  <2> QED BY <1>13, <2>4, NamingKept
       DEF RolledBackTo, PointReleased, Oldest, client, history
<1>14. ASSUME Committed \/ RolledBack \/ EndFails PROVE Naming'
  <2>1. \E e \in Ended : ServerEnds(e) \/ ServerUnchanged
    BY <1>14 DEF Committed, RolledBack, EndFails, Ended
  <2>2. sent # <<>> /\ sent' = Tail(sent) /\ UNCHANGED <<depth, handles>>
    BY <1>14 DEF Committed, RolledBack, EndFails, Answered, Oldest, history
  <2> QED BY <2>1, <2>2, EndsClearPoints, NamingKept
<1>15. ASSUME ConnectionLost PROVE Naming'
  <2>1. \E e \in Ended : ServerEnds(e) \/ ServerUnchanged
    BY <1>15 DEF ConnectionLost, Ended
  <2> QED BY <1>15, <2>1, EndsClearPoints, NamingKept DEF ConnectionLost, client, history
<1>16. CASE UNCHANGED vars
  BY <1>8, <1>16 DEF vars, client
<1> QED
  BY <1>2, <1>3, <1>4, <1>6, <1>7, <1>9, <1>10, <1>11, <1>12, <1>13, <1>14, <1>15, <1>16
  DEF Next, TaskCalls, Answer

-----------------------------------------------------------------------------
(* Ends.                                                                   *)

EndingInv ==
  /\ Ending
  /\ WrapperOnce
  /\ WrapperCommits
  /\ Escapes
  /\ EndsReleased
  /\ StateHonest

\* Any statement sent before the release, an end or not.
LEMMA EndingSent ==
  ASSUME TypeOK, EndingInv, ~released,
         NEW a \in Actors, NEW kind \in Kinds, NEW name \in Nat,
         ~InFlight(a), Send(a, kind, name),
         UNCHANGED <<state, released, outcome>>,
         ends \subseteq ends', WrapperCommits',
         kind \in Endings => [id |-> calls', by |-> a, kind |-> kind] \in ends',
         fn' = "running" => fn = "running" /\ a # Wrapper
  PROVE  EndingInv'
<1>1. /\ \A i \in 1..Len(sent)' :
           \/ i \in Sent /\ sent'[i] = sent[i]
           \/ /\ i = Len(sent) + 1
              /\ sent'[i].id = calls' /\ sent'[i].by = a /\ sent'[i].kind = kind
      /\ late \subseteq late'
      /\ EndInFlight => calls' \in late'
      /\ UNCHANGED <<server, lost, durable, marked>>
  BY SendFacts
<1>2. LateBehindEnd'
  <2>1. ASSUME NEW i \in 1..Len(sent)', NEW j \in 1..Len(sent)',
               i < j, sent'[i].kind \in Endings
        PROVE  sent'[j].id \in late'
    <3>1. i \in Sent /\ sent'[i] = sent[i]
      BY <1>1, <2>1 DEF Sent
    <3>2. CASE j \in Sent /\ sent'[j] = sent[j]
      BY <1>1, <2>1, <3>1, <3>2 DEF EndingInv, Ending, LateBehindEnd
    <3>3. CASE sent'[j].id = calls'
      BY <1>1, <2>1, <3>1, <3>3 DEF EndInFlight, Sent
    <3> QED BY <1>1, <3>2, <3>3
  <2> QED BY <2>1 DEF LateBehindEnd, Sent
<1>3. EndsRecorded'
  BY <1>1 DEF EndingInv, Ending, EndsRecorded, Sent
<1>4. Ending'
  BY <1>1, <1>2, <1>3 DEF EndingInv, Ending
<1>5. WrapperOnce'
  BY <1>1 DEF EndingInv, WrapperOnce, Sent
<1>6. Escapes' /\ EndsReleased' /\ StateHonest'
  BY <1>1 DEF EndingInv, Escapes, NoCommit, EndsReleased, StateHonest, EndsRaced
<1> QED BY <1>4, <1>5, <1>6 DEF EndingInv

\* What is left of the statements on their way when the oldest is answered.
LEMMA PopEnding ==
  ASSUME TypeOK, EndingInv, sent # <<>>, sent' = Tail(sent),
         UNCHANGED <<fn, ends, late>>,
         released' => released \/ Head(sent).kind \in Endings
  PROVE  LateBehindEnd' /\ EndsRecorded' /\ WrapperOnce' /\ WrapperCommits'
<1>1. /\ 1 \in Sent /\ Head(sent) = sent[1]
      /\ \A i \in 1..Len(sent)' : i + 1 \in Sent /\ sent'[i] = sent[i + 1]
  BY PopFacts
<1>2. /\ \A i, j \in 1..Len(sent)' : i < j => i + 1 < j + 1
      /\ \A i \in 1..Len(sent)' : 1 < i + 1
  OBVIOUS
<1>3. \A i, j \in 1..Len(sent)' : i < j /\ sent'[i].kind \in Endings => sent'[j].id \in late
  BY <1>1, <1>2 DEF EndingInv, Ending, LateBehindEnd
<1>4. released' => \A i \in 1..Len(sent)' : sent'[i].id \in late
  BY <1>1, <1>2 DEF EndingInv, Ending, LateBehindEnd
<1>5. EndsRecorded' /\ WrapperOnce' /\ WrapperCommits'
  BY <1>1 DEF EndingInv, Ending, EndsRecorded, WrapperOnce, WrapperCommits, Sent
<1> QED BY <1>3, <1>4, <1>5 DEF LateBehindEnd, Sent

\* A statement other than an end is answered.
LEMMA EndingPopped ==
  ASSUME TypeOK, EndingInv, sent # <<>>, sent' = Tail(sent),
         UNCHANGED <<client, lost, ends, late, marked>>,
         durable' \subseteq durable \cup late,
         server \in {"open", "aborted"} => server' \in {"open", "aborted"},
         server \in Ended => server' = server
  PROVE  EndingInv'
<1>1. UNCHANGED <<state, released, fn, outcome>>
  BY DEF client
<1>2. LateBehindEnd' /\ EndsRecorded' /\ WrapperOnce' /\ WrapperCommits'
  BY <1>1, PopEnding
<1>3. server \in {"open", "aborted"} \cup Ended
  BY DEF TypeOK
<1>4. "open" \notin Ended /\ "aborted" \notin Ended /\ "committed" \in Ended
  BY DEF Ended
<1>5. Ending'
  BY <1>1, <1>2, <1>3 DEF EndingInv, Ending
<1>6. Escapes'
  BY <1>3, <1>4 DEF EndingInv, Escapes, NoCommit
<1>7. EndsReleased' /\ StateHonest'
  BY <1>1, <1>3, <1>4 DEF EndingInv, EndsReleased, StateHonest, EndsRaced, Ended
<1> QED BY <1>2, <1>5, <1>6, <1>7 DEF EndingInv

\* An end is answered: late unless it is what ended the transaction.
LEMMA EndingAnswered ==
  ASSUME TypeOK, EndingInv, sent # <<>>, Head(sent).kind \in Endings,
         NEW s \in States \ {"ACTIVE"}, NEW settled \in {"resolved", "rejected"},
         Answered(s, settled),
         server' \in Ended,
         NoCommit => durable' = durable /\ server' # "committed",
         ~lost /\ server \in {"open", "aborted"} /\ s = "COMMITTED"
           => server' \in {"committed", "discarded"},
         ~lost /\ server \in {"open", "aborted"} /\ s = "ROLLED_BACK"
           => server' = "rolled_back",
         s # "FAILED" => ~lost
  PROVE  EndingInv'
<1>1. /\ sent' = Tail(sent) /\ state' = s /\ released' = TRUE
      /\ UNCHANGED <<fn, lost, ends, late, marked>>
  BY DEF Answered, history
<1>2. LateBehindEnd' /\ EndsRecorded' /\ WrapperOnce' /\ WrapperCommits'
  BY <1>1, PopEnding
<1>3. Ending'
  BY <1>1, <1>2 DEF Ending
<1>4. Escapes'
  BY <1>1 DEF EndingInv, Escapes, NoCommit
<1>5. EndsReleased'
  BY <1>1 DEF EndsReleased
<1>6. 1 \in Sent /\ Head(sent) = sent[1]
  BY <1>1, PopFacts
<1>7. released => EndsRaced
  <2>1. ASSUME released PROVE EndsRaced
    <3> DEFINE e == [id |-> sent[1].id, by |-> sent[1].by, kind |-> sent[1].kind]
    <3>1. e \in ends /\ e.id \in late
      BY <1>6, <2>1 DEF EndingInv, Ending, EndsRecorded, LateBehindEnd
    <3> QED BY <3>1 DEF EndsRaced
  <2> QED BY <2>1
<1>8. StateHonest'
  BY <1>1, <1>7 DEF EndingInv, Ending, StateHonest, EndsRaced
<1> QED BY <1>2, <1>3, <1>4, <1>5, <1>8 DEF EndingInv

LEMMA EndingStep == TypeOK /\ EndingInv /\ [Next]_vars => EndingInv'
<1> SUFFICES ASSUME TypeOK, EndingInv, [Next]_vars PROVE EndingInv'
  OBVIOUS
<1> Wrapper \in Actors /\ \A t \in Tasks : t \in Actors /\ t # Wrapper
  BY TransactionAssumption DEF Actors
<1>1. ASSUME NEW t \in Tasks, NEW kind \in Kinds \ Endings, NEW name \in Nat,
             ~released, ~InFlight(t), Send(t, kind, name),
             UNCHANGED <<state, released, fn, outcome, ends>>
      PROVE  EndingInv'
  <2>1. WrapperCommits'
    BY <1>1 DEF EndingInv, WrapperCommits
  <2> QED BY <1>1, <2>1, EndingSent
<1>2. ASSUME NEW t \in Tasks, Execute(t) PROVE EndingInv'
  <2>1. "execute" \in Kinds \ Endings /\ 0 \in Nat
    BY DEF Kinds, Endings
  <2>2. ~released
    BY <1>2 DEF Execute, Active, EndingInv, Ending
  <2> QED BY <1>1, <1>2, <2>1, <2>2 DEF Execute, Free, client
<1>3. ASSUME NEW t \in Tasks, Savepoint(t) PROVE EndingInv'
  <2>1. "savepoint" \in Kinds \ Endings
    BY DEF Kinds, Endings
  <2>2. NextDepth \in Nat
    BY DEF NextDepth, TypeOK
  <2>3. ~released
    BY <1>3 DEF Savepoint, Active, EndingInv, Ending
  <2> QED BY <1>1, <1>3, <2>1, <2>2, <2>3 DEF Savepoint, Free
<1>4. ASSUME NEW t \in Tasks, NEW kind \in {"rollback_to", "release"}, PointCall(t, kind)
      PROVE  EndingInv'
  <2>1. PICK h \in handles : Send(t, kind, h.name)
    BY <1>4 DEF PointCall
  <2>2. h.name \in Nat /\ kind \in Kinds \ Endings
    BY DEF TypeOK, Handle, Kinds, Endings
  <2> QED BY <1>1, <1>4, <2>1, <2>2 DEF PointCall, Free, client
<1>5. ASSUME NEW a \in Actors, NEW kind \in Endings, ~InFlight(a), SendEnd(a, kind),
             state = "ACTIVE", UNCHANGED <<state, released, outcome>>,
             fn' = "running" => fn = "running" /\ a # Wrapper,
             fn = "returned" => fn' = "returned",
             a = Wrapper /\ kind = "commit" => fn' = "returned"
      PROVE  EndingInv'
  <2>1. /\ Send(a, kind, 0)
        /\ ends' = ends \cup {[id |-> calls', by |-> a, kind |-> kind]}
    BY <1>5 DEF SendEnd
  <2>2. kind \in Kinds /\ ~released
    BY <1>5 DEF Kinds, EndingInv, Ending
  <2>3. WrapperCommits'
    BY <1>5, <2>1 DEF EndingInv, WrapperCommits
  <2> QED BY <1>5, <2>1, <2>2, <2>3, EndingSent
<1>6. ASSUME NEW t \in Tasks, NEW kind \in Endings, End(t, kind) PROVE EndingInv'
  BY <1>5, <1>6 DEF End, Free, Active, client
<1>7. ASSUME NEW t \in Tasks, NEW s \in Marks, Mark(t, s) PROVE EndingInv'
  <2>1. /\ state' = s /\ marked' = TRUE
        /\ UNCHANGED <<released, fn, outcome, sent, server, lost, durable, ends, late>>
    BY <1>7 DEF Mark, connection
  <2>2. s # "ACTIVE"
    BY TransactionAssumption
  <2> QED BY <2>1, <2>2 DEF EndingInv, Ending, LateBehindEnd, EndsRecorded, WrapperOnce,
       WrapperCommits, Escapes, NoCommit, EndsReleased, StateHonest, Sent
<1>8. ASSUME state # "ACTIVE", fn' # "running", fn = "running",
             UNCHANGED <<state, depth, released, connection, history>>
      PROVE  EndingInv'
  <2>1. UNCHANGED <<sent, server, lost, durable, ends, late, marked>>
    BY <1>8 DEF connection, history
  <2> QED BY <1>8, <2>1 DEF EndingInv, Ending, LateBehindEnd, EndsRecorded, WrapperOnce,
       WrapperCommits, Escapes, NoCommit, EndsReleased, StateHonest, EndsRaced, Sent
<1>9. ASSUME CallbackReturns PROVE EndingInv'
  <2>1. ~InFlight(Wrapper) /\ "commit" \in Endings
    BY <1>9 DEF CallbackReturns, EndingInv, WrapperOnce, InFlight, Sent, Endings
  <2>2. fn = "running" /\ fn' = "returned" /\ UNCHANGED <<state, depth, released>>
    BY <1>9 DEF CallbackReturns
  <2>3. CASE state = "ACTIVE"
    BY <1>5, <1>9, <2>1, <2>2, <2>3 DEF CallbackReturns, EndIfActive, Active
  <2>4. CASE state # "ACTIVE"
    BY <1>8, <1>9, <2>2, <2>4 DEF CallbackReturns, EndIfActive, Active
  <2> QED BY <2>3, <2>4
<1>10. ASSUME NEW t \in Tasks, CallbackThrows(t) PROVE EndingInv'
  <2>1. ~InFlight(Wrapper) /\ "rollback" \in Endings
    BY <1>10 DEF CallbackThrows, EndingInv, WrapperOnce, InFlight, Sent, Endings
  <2>2. fn = "running" /\ fn' = "threw" /\ UNCHANGED <<state, depth, released>>
    BY <1>10 DEF CallbackThrows
  <2>3. CASE state = "ACTIVE"
    BY <1>5, <1>10, <2>1, <2>2, <2>3 DEF CallbackThrows, EndIfActive, Active
  <2>4. CASE state # "ACTIVE"
    BY <1>8, <1>10, <2>2, <2>4 DEF CallbackThrows, EndIfActive, Active
  <2> QED BY <2>3, <2>4
<1>11. ASSUME Executed PROVE EndingInv'
  <2>1. /\ sent # <<>> /\ sent' = Tail(sent)
        /\ UNCHANGED <<client, lost, server, ends, late, marked>>
    BY <1>11 DEF Executed, Oldest, history
  <2>2. CASE server = "open" /\ UNCHANGED durable
    BY <2>1, <2>2, EndingPopped
  <2>3. CASE server \in Ended /\ durable' = durable \cup {Head(sent).id}
    <3>1. released
      BY <1>11, <2>3 DEF Executed, EndingInv, Ending, Ended
    <3>2. Head(sent).id \in late
      BY <2>1, <3>1, PopFacts DEF EndingInv, Ending, LateBehindEnd
    <3>3. "open" \notin Ended /\ "aborted" \notin Ended
      BY DEF Ended
    <3> QED BY <2>1, <2>3, <3>2, <3>3, EndingPopped
  <2> QED BY <1>11, <2>2, <2>3 DEF Executed
<1>12. ASSUME SavepointMade \/ RolledBackTo \/ PointReleased \/ StatementFails
       PROVE  EndingInv'
  <2>1. /\ sent # <<>> /\ sent' = Tail(sent)
        /\ UNCHANGED <<client, lost, durable, ends, late, marked>>
    BY <1>12 DEF SavepointMade, RolledBackTo, PointReleased, StatementFails, Oldest, history
  <2>2. /\ server \in {"open", "aborted"} => server' \in {"open", "aborted"}
        /\ server \in Ended => server' = server
    BY <1>12 DEF SavepointMade, RolledBackTo, PointReleased, StatementFails, Ended
  <2> QED BY <2>1, <2>2, EndingPopped
<1>13. ASSUME Committed PROVE EndingInv'
  <2>1. /\ sent # <<>> /\ Head(sent).kind = "commit" /\ ~lost
        /\ Answered("COMMITTED", "resolved")
    BY <1>13 DEF Committed, Oldest
  <2>2. /\ server' \in Ended
        /\ server \in {"open", "aborted"} => server' \in {"committed", "discarded"}
    BY <1>13 DEF Committed, ServerEnds, ServerUnchanged, Ended
  <2>3. ~NoCommit
    <3> DEFINE e == [id |-> sent[1].id, by |-> sent[1].by, kind |-> sent[1].kind]
    <3>1. e \in ends /\ e.kind = "commit"
      BY <2>1, PopFacts DEF Answered, EndingInv, Ending, EndsRecorded, Endings
    <3> QED BY <3>1 DEF NoCommit
  <2>4. "COMMITTED" \in States \ {"ACTIVE"} /\ "commit" \in Endings
    BY DEF States, Endings
  <2> QED BY <2>1, <2>2, <2>3, <2>4, EndingAnswered
<1>14. ASSUME RolledBack PROVE EndingInv'
  <2>1. /\ sent # <<>> /\ Head(sent).kind = "rollback" /\ ~lost
        /\ Answered("ROLLED_BACK", "rejected")
    BY <1>14 DEF RolledBack, Oldest
  <2>2. /\ server' \in Ended /\ durable' = durable
        /\ server \in {"open", "aborted"} => server' = "rolled_back"
        /\ server' # "committed" \/ server' = server
    BY <1>14 DEF RolledBack, ServerEnds, ServerUnchanged, Ended
  <2>3. NoCommit => server' # "committed"
    BY <2>2 DEF EndingInv, Escapes
  <2>4. "ROLLED_BACK" \in States \ {"ACTIVE"} /\ "rollback" \in Endings
    BY DEF States, Endings
  <2> QED BY <2>1, <2>2, <2>3, <2>4, EndingAnswered
<1>15. ASSUME EndFails PROVE EndingInv'
  <2>1. /\ sent # <<>> /\ Head(sent).kind \in Endings
        /\ Answered("FAILED", "rejected")
    BY <1>15 DEF EndFails, Oldest, Endings
  <2>2. /\ server' \in Ended /\ durable' = durable
        /\ server' # "committed" \/ server' = server
    BY <1>15 DEF EndFails, ServerEnds, ServerUnchanged, Ended, EndingInv, Ending
  <2>3. NoCommit => server' # "committed"
    BY <2>2 DEF EndingInv, Escapes
  <2>4. "FAILED" \in States \ {"ACTIVE"}
    BY DEF States
  <2> QED BY <2>1, <2>2, <2>3, <2>4, EndingAnswered
<1>16. ASSUME ConnectionLost PROVE EndingInv'
  <2>1. UNCHANGED <<state, released, fn, outcome, sent, ends, late, marked>>
    BY <1>16 DEF ConnectionLost, client, history
  <2>2. /\ lost' = TRUE /\ server' \in Ended
        /\ server \in Ended => server' = server
        /\ \/ durable' = durable /\ server' \in {server, "rolled_back"}
           \/ sent # <<>> /\ Head(sent).kind = "commit"
    BY <1>16 DEF ConnectionLost, ServerEnds, ServerUnchanged, Oldest, Ended
  <2>3. NoCommit => durable' = durable /\ server' \in {server, "rolled_back"}
    <3> SUFFICES ASSUME sent # <<>>, Head(sent).kind = "commit" PROVE ~NoCommit
      BY <2>2
    <3> DEFINE e == [id |-> sent[1].id, by |-> sent[1].by, kind |-> sent[1].kind]
    <3>1. sent \in Seq(Statement)
      BY DEF TypeOK
    <3>2. 1 \in Sent /\ Head(sent) = sent[1]
      BY <3>1, TailFacts DEF Sent
    <3>3. e \in ends /\ e.kind = "commit"
      BY <3>2 DEF EndingInv, Ending, EndsRecorded, Endings
    <3> QED BY <3>3 DEF NoCommit
  <2>4. Ending'
    BY <2>1, <2>2 DEF EndingInv, Ending, LateBehindEnd, EndsRecorded, Sent
  <2>5. Escapes'
    BY <2>1, <2>3 DEF EndingInv, Escapes, NoCommit
  <2>6. EndsReleased'
    BY <2>1, <2>2 DEF EndingInv, EndsReleased
  <2>7. StateHonest'
    BY <2>1, <2>2 DEF EndingInv, StateHonest, EndsRaced, Ended
  <2> QED BY <2>1, <2>4, <2>5, <2>6, <2>7 DEF EndingInv, WrapperOnce, WrapperCommits, Sent
<1>17. CASE UNCHANGED vars
  <2>1. UNCHANGED <<state, released, fn, outcome, sent, server, lost, durable, ends, late, marked>>
    BY <1>17 DEF vars, client, connection, history
  <2> QED BY <2>1 DEF EndingInv, Ending, LateBehindEnd, EndsRecorded, WrapperOnce,
       WrapperCommits, Escapes, NoCommit, EndsReleased, StateHonest, EndsRaced, Sent
<1> QED
  BY <1>2, <1>3, <1>4, <1>6, <1>7, <1>9, <1>10, <1>11, <1>12, <1>13, <1>14, <1>15, <1>16, <1>17
  DEF Next, TaskCalls, Answer

-----------------------------------------------------------------------------
(* The theorems.                                                           *)

\* The inductive invariant of a Transaction inside db.transaction().
THEOREM TransactionInvariant == Spec => [](TypeOK /\ Naming /\ EndingInv)
<1>1. Init => TypeOK /\ Naming /\ EndingInv
  <2> SUFFICES ASSUME Init PROVE TypeOK /\ Naming /\ EndingInv
    OBVIOUS
  <2>1. Len(sent) = 0 /\ Len(points) = 0
    BY DEF Init
  <2>2. Sent = {} /\ Points = {} /\ OneWaitEach
    BY <2>1 DEF Sent, Points, OneWaitEach
  <2>3. TypeOK
    <3>1. sent \in Seq(Statement) /\ points \in Seq(Point)
      BY DEF Init
    <3>2. depth \in Nat /\ calls \in Nat /\ depth <= calls
      BY DEF Init
    <3>3. /\ work \in SUBSET Ids /\ durable \in SUBSET Ids /\ late \in SUBSET Ids
          /\ handles \in SUBSET Handle /\ ends \in SUBSET EndCall
      BY DEF Init
    <3>4. state \in States /\ thrower \in Actors
      BY DEF Init, States, Actors
    <3> QED BY <2>2, <3>1, <3>2, <3>3, <3>4 DEF Init, TypeOK
  <2>4. Naming
    BY <2>1, <2>2 DEF Init, Naming, NamesBounded, NamesFresh, SavepointExact
  <2>5. EndingInv
    BY <2>2 DEF Init, EndingInv, Ending, LateBehindEnd, EndsRecorded, WrapperOnce,
       WrapperCommits, Escapes, EndsReleased, StateHonest
  <2> QED BY <2>3, <2>4, <2>5
<1>2. TypeOK /\ Naming /\ EndingInv /\ [Next]_vars => (TypeOK /\ Naming /\ EndingInv)'
  BY Typing, NamingStep, EndingStep DEF EndingInv
<1> QED BY <1>1, <1>2, PTL DEF Spec

\* The variables keep their types, however many tasks call and however often.
THEOREM TransactionTyped == Spec => []TypeOK
BY TransactionInvariant, PTL

\* Rolling back to a savepoint restores the work it was created over, whatever
\* the tasks made, released and rolled back to in the meantime.
THEOREM TransactionSavepointExact == Spec => []SavepointExact
<1>1. Naming => SavepointExact
  BY DEF Naming
<1> QED BY <1>1, TransactionInvariant, PTL

\* A callback that throws leaves no effect behind, except of the statements its
\* other tasks sent after the end was on its way.
THEOREM TransactionNothingEscapes == Spec => []NothingEscapes
<1>1. TypeOK /\ EndingInv => NothingEscapes
  <2> SUFFICES ASSUME TypeOK, EndingInv, fn = "threw", ~CommitAsked
               PROVE  durable \subseteq late
    BY DEF NothingEscapes
  <2>1. \A e \in ends : e.by \in Tasks \cup {Wrapper}
    BY DEF TypeOK, EndCall, Actors
  <2>2. NoCommit
    BY <2>1 DEF EndingInv, WrapperCommits, CommitAsked, NoCommit
  <2> QED BY <2>2 DEF EndingInv, Escapes
<1> QED BY <1>1, TransactionInvariant, PTL

\* When db.transaction() has settled, the transaction is over on the server and
\* its connection released, unless somebody marked it.
THEOREM TransactionEndsReleased == Spec => []EndsReleased
<1>1. EndingInv => EndsReleased
  BY DEF EndingInv
<1> QED BY <1>1, TransactionInvariant, PTL

\* The state tells what became of the transaction unless two ends raced.
THEOREM TransactionStateHonest == Spec => []StateHonest
<1>1. EndingInv => StateHonest
  BY DEF EndingInv
<1> QED BY <1>1, TransactionInvariant, PTL
=============================================================================
