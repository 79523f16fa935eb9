----------------------------- MODULE MCJobQueue -----------------------------
(***************************************************************************)
(* Instances of JobQueue for TLC.                                          *)
(***************************************************************************)
EXTENDS JobQueue

(* The loop of LockQueue::PopAll as it is written: popped[i, n] elements   *)
(* are taken when the index is i and n elements are left.                  *)
MaxLen == 12
popped[i \in 0..MaxLen, n \in 0..MaxLen] ==
  IF i < n THEN 1 + popped[i + 1, n - 1] ELSE 0

ASSUME PopLoopTakesHalf == \A n \in 0..MaxLen : popped[0, n] = PopAllCount(n)
=============================================================================
