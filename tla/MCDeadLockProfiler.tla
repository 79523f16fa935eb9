------------------------- MODULE MCDeadLockProfiler -------------------------
(***************************************************************************)
(* An instance of DeadLockProfiler for TLC: two locks share a name.        *)
(***************************************************************************)
EXTENDS DeadLockProfiler

CONSTANTS a1, a2, b, c, A, B, C

FourLocks == {a1, a2, b, c}
ThreeNames == [l \in FourLocks |-> IF l = b THEN B ELSE IF l = c THEN C ELSE A]

(* Threads are interchangeable, and so are the locks of one name, and the  *)
(* two locks with names of their own together with these.                  *)
Swap == [x \in {b, c, B, C} |-> CASE x = b -> c [] x = c -> b [] x = B -> C [] x = C -> B]
Symmetry == Permutations(Threads) \cup Permutations({a1, a2}) \cup {Swap}
=============================================================================
