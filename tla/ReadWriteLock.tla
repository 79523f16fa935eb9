--------------------------- MODULE ReadWriteLock ---------------------------
(***************************************************************************)
(* What users of WRITE_LOCK and READ_LOCK rely on: guards nest, a thread   *)
(* that writes is alone, and threads that read may be many.                *)
(***************************************************************************)
EXTENDS Integers, Sequences

CONSTANT Threads

VARIABLE held     \* the guards of each thread, the innermost one last

Writes(t) == \E i \in DOMAIN held[t] : held[t][i] = "write"

(* t may write when no other thread holds a guard, and it has not begun as *)
(* a reader; it may read when no other thread writes.                      *)
MayWrite(t) ==
  /\ \A u \in Threads \ {t} : held[u] = <<>>
  /\ held[t] = <<>> \/ Writes(t)
MayRead(t) == \A u \in Threads \ {t} : ~Writes(u)

Acquire(t, kind) == held' = [held EXCEPT ![t] = Append(@, kind)]

Release(t) ==
  /\ held[t] # <<>>
  /\ held' = [held EXCEPT ![t] = SubSeq(@, 1, Len(@) - 1)]

Init == held = [t \in Threads |-> <<>>]

Next ==
  \E t \in Threads :
    \/ MayWrite(t) /\ Acquire(t, "write")
    \/ MayRead(t) /\ Acquire(t, "read")
    \/ Release(t)

Spec == Init /\ [][Next]_held
=============================================================================
