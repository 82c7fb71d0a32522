---------------------------- MODULE AtomicPromise ----------------------------
(***************************************************************************)
(* What runAtomically() promises its caller (src/transaction/atomic.ts):   *)
(* the writes of the callback take effect at most once however often the   *)
(* callback is retried, they have taken effect when the call resolves, and *)
(* nothing takes effect once the call has settled. A call whose COMMIT got *)
(* no answer may reject although its writes took effect, and a call whose  *)
(* callback swallows the error of a failed statement may resolve without.  *)
(***************************************************************************)
EXTENDS Naturals

CONSTANTS
  Blocks,     \* calls of runAtomically()
  Swallowing  \* the calls whose callback catches the error of a failed statement

VARIABLES
  applied,  \* how often the writes of each call have taken effect
  result    \* what its promise has become

Results == {"pending", "resolved", "rejected"}

Init ==
  /\ applied = [b \in Blocks |-> 0]
  /\ result = [b \in Blocks |-> "pending"]

\* The writes take effect; the caller learns of it at once or not at all.
Apply(b) ==
  /\ result[b] = "pending"
  /\ applied[b] = 0
  /\ applied' = [applied EXCEPT ![b] = 1]
  /\ \E r \in {"pending", "resolved"} : result' = [result EXCEPT ![b] = r]

Reject(b) ==
  /\ result[b] = "pending"
  /\ result' = [result EXCEPT ![b] = "rejected"]
  /\ UNCHANGED applied

ResolveUnapplied(b) ==
  /\ b \in Swallowing
  /\ result[b] = "pending"
  /\ result' = [result EXCEPT ![b] = "resolved"]
  /\ UNCHANGED applied

Next == \E b \in Blocks : Apply(b) \/ Reject(b) \/ ResolveUnapplied(b)

Spec == Init /\ [][Next]_<<applied, result>>
=============================================================================
