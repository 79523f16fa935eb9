-------------------------------- MODULE Lock --------------------------------
(***************************************************************************)
(* The spin lock under WRITE_LOCK and READ_LOCK.  _lockFlag is one atomic  *)
(* word: the id of the writing thread in its upper half, the number of     *)
(* readers in the lower one; _writeCount is a plain integer that only the  *)
(* writer may touch.  Guards are released in reverse order, because they   *)
(* are objects of a scope.  Time-outs only print (CRASH does not stop the  *)
(* program), so that a thread that waits goes on waiting.                  *)
(***************************************************************************)
EXTENDS Integers, Sequences, FiniteSets

CONSTANTS
  Threads,    \* the threads, each with an LThreadId
  MaxDepth,   \* bound: guards a thread holds at once
  None        \* the id zero, which no thread has

ASSUME ThreadsAssumption == IsFiniteSet(Threads) /\ None \notin Threads
ASSUME DepthAssumption == MaxDepth \in Nat

VARIABLES
  writer,      \* WRITE_THREAD_MASK of _lockFlag
  readers,     \* READ_COUNT_MASK of _lockFlag
  writeCount,  \* _writeCount
  held,        \* the guards of each thread, the innermost one last
  pc,          \* where thread t is in a lock function
  expected     \* the number of readers thread t has loaded

vars == <<writer, readers, writeCount, held, pc, expected>>

Init ==
  /\ writer = None
  /\ readers = 0
  /\ writeCount = 0
  /\ held = [t \in Threads |-> <<>>]
  /\ pc = [t \in Threads |-> "idle"]
  /\ expected = [t \in Threads |-> 0]

-----------------------------------------------------------------------------
GoTo(t, step) == pc' = [pc EXCEPT ![t] = step]

(* The guard's constructor returns, its destructor returns.                *)
Hold(t, kind) == held' = [held EXCEPT ![t] = Append(@, kind)]
LetGo(t) == held' = [held EXCEPT ![t] = SubSeq(@, 1, Len(@) - 1)]

Holds(t, kind) == \E i \in DOMAIN held[t] : held[t][i] = kind
Innermost(t, kind) == held[t] # <<>> /\ held[t][Len(held[t])] = kind

(* WriteLock: the thread that writes already only counts once more.        *)
BeginWrite(t) ==
  /\ pc[t] = "idle"
  /\ Len(held[t]) < MaxDepth
  /\ GoTo(t, IF writer = t THEN "counting" ELSE "writing")
  /\ UNCHANGED <<writer, readers, writeCount, held, expected>>

(* The compare-and-swap expects EMPTY_FLAG.  (Variant: it expects no       *)
(* writer only.)                                                           *)
NoWriter == writer = None
Empty == writer = None /\ readers = 0

SwapWrite(t) ==
  /\ pc[t] = "writing"
  /\ Empty
  /\ writer' = t
  /\ GoTo(t, "counting")
  /\ UNCHANGED <<readers, writeCount, held, expected>>

(* _writeCount++, and WriteLock returns.                                   *)
CountWrite(t) ==
  /\ pc[t] = "counting"
  /\ writeCount' = writeCount + 1
  /\ Hold(t, "write")
  /\ GoTo(t, "idle")
  /\ UNCHANGED <<writer, readers, expected>>

(* WriteUnlock complains of readers, whoever they are, and goes on.        *)
BeginWriteUnlock(t) ==
  /\ pc[t] = "idle"
  /\ Innermost(t, "write")
  /\ GoTo(t, "unlocking")
  /\ UNCHANGED <<writer, readers, writeCount, held, expected>>

(* --_writeCount: the flag is emptied only when it is zero.  (Variant: it  *)
(* is emptied by the first unlock.)                                        *)
AnyUnlock == TRUE
LastUnlock == writeCount = 1

CountDown(t) ==
  /\ pc[t] = "unlocking"
  /\ writeCount' = writeCount - 1
  /\ IF LastUnlock THEN GoTo(t, "emptying") /\ UNCHANGED held
                   ELSE GoTo(t, "idle") /\ LetGo(t)
  /\ UNCHANGED <<writer, readers, expected>>

StoreEmpty(t) ==
  /\ pc[t] = "emptying"
  /\ writer' = None
  /\ readers' = 0
  /\ LetGo(t)
  /\ GoTo(t, "idle")
  /\ UNCHANGED <<writeCount, expected>>

-----------------------------------------------------------------------------
(* ReadLock: the thread that writes may read as well.                      *)
BeginRead(t) ==
  /\ pc[t] = "idle"
  /\ Len(held[t]) < MaxDepth
  /\ GoTo(t, IF writer = t THEN "adding" ELSE "reading")
  /\ UNCHANGED <<writer, readers, writeCount, held, expected>>

AddRead(t) ==
  /\ pc[t] = "adding"
  /\ readers' = readers + 1
  /\ Hold(t, "read")
  /\ GoTo(t, "idle")
  /\ UNCHANGED <<writer, writeCount, expected>>

LoadReaders(t) ==
  /\ pc[t] = "reading"
  /\ expected' = [expected EXCEPT ![t] = readers]
  /\ GoTo(t, "swapping")
  /\ UNCHANGED <<writer, readers, writeCount, held>>

(* The compare-and-swap expects that many readers and no writer.           *)
(* (Variant: the writer's half of the flag is not compared.)               *)
SameReaders(t) == readers = expected[t]
Unchanged(t) == writer = None /\ readers = expected[t]

SwapRead(t) ==
  /\ pc[t] = "swapping"
  /\ Unchanged(t)
  /\ readers' = readers + 1
  /\ Hold(t, "read")
  /\ GoTo(t, "idle")
  /\ UNCHANGED <<writer, writeCount, expected>>

RetryRead(t) ==
  /\ pc[t] = "swapping"
  /\ ~Unchanged(t)
  /\ GoTo(t, "reading")
  /\ UNCHANGED <<writer, readers, writeCount, held, expected>>

(* ReadUnlock: fetch_sub(1).  (Variant: it subtracts nothing.)             *)
SameAsBefore == readers
OneReaderLess == readers - 1

ReadUnlock(t) ==
  /\ pc[t] = "idle"
  /\ Innermost(t, "read")
  /\ readers' = OneReaderLess
  /\ LetGo(t)
  /\ UNCHANGED <<writer, writeCount, pc, expected>>

-----------------------------------------------------------------------------
Unlock(t) == BeginWriteUnlock(t) \/ ReadUnlock(t)

CallStep(t) ==
  \/ SwapWrite(t) \/ CountWrite(t) \/ CountDown(t) \/ StoreEmpty(t)
  \/ AddRead(t) \/ LoadReaders(t) \/ SwapRead(t) \/ RetryRead(t)

Next ==
  \E t \in Threads :
    BeginWrite(t) \/ BeginRead(t) \/ Unlock(t) \/ CallStep(t)

Spec == Init /\ [][Next]_vars

(* Threads run, and every scope that holds a guard is left.                *)
Fairness == \A t \in Threads : WF_vars(CallStep(t)) /\ WF_vars(Unlock(t))

FairSpec == Spec /\ Fairness

-----------------------------------------------------------------------------
(* The guards of one kind, and the threads that wait for one.              *)
Guards(kind) ==
  {g \in Threads \X (1 .. MaxDepth) :
     g[2] <= Len(held[g[1]]) /\ held[g[1]][g[2]] = kind}

Waiting == {t \in Threads : pc[t] \in {"writing", "reading", "swapping"}}

(* Every variable has its type.                                            *)
TypeOK ==
  /\ writer \in Threads \cup {None}
  /\ readers \in Nat
  /\ writeCount \in Nat
  /\ held \in [Threads -> Seq({"read", "write"})]
  /\ pc \in [Threads -> {"idle", "writing", "counting", "unlocking", "emptying",
                         "adding", "reading", "swapping"}]
  /\ expected \in [Threads -> Nat]

(* A thread that writes is alone: while it holds a write guard no other    *)
(* thread holds a guard of either kind.                                    *)
MutualExclusion ==
  \A t, u \in Threads : t # u /\ Holds(t, "write") => held[u] = <<>>

(* The two halves of _lockFlag and _writeCount say who is in the lock: so  *)
(* it is empty when, and only when, no guard is left and none is being     *)
(* made or unmade, and _writeCount is never touched by two threads.        *)
FlagCountsGuards ==
  /\ readers = Cardinality(Guards("read"))
  /\ \A t \in Threads :
       /\ writer = t <=> Holds(t, "write") \/ pc[t] = "counting"
       /\ pc[t] = "emptying" => writeCount = 0 /\ held[t] = <<"write">>
       /\ pc[t] # "emptying" /\ writer = t =>
            writeCount = Cardinality(Guards("write"))
  /\ writer = None => writeCount = 0

(* A thread that asks to write while it only reads waits for its own read  *)
(* guard: it never gets in, and no thread writes again.                    *)
UpgradeNeverEnds ==
  [][\A t \in Threads :
       pc[t] = "writing" /\ Holds(t, "read")
         => pc'[t] = "writing" /\ writer' = None]_vars

(* Short of that, the lock always moves on: threads do not wait for ever   *)
(* while nobody gets in.                                                   *)
LockMovesOn ==
  \/ []<>(Waiting = {})
  \/ []<><<\E t \in Threads : Len(held'[t]) > Len(held[t])>>_vars
  \/ <>(\E t \in Threads : pc[t] = "writing" /\ Holds(t, "read"))

(* What WriteUnlock asserts, "INVALID_UNLOCK_ORDER": it is called when     *)
(* there are no readers left.                                              *)
UnlockedInOrder == \A t \in Threads : pc[t] = "unlocking" => readers = 0

-----------------------------------------------------------------------------
Abstract == INSTANCE ReadWriteLock

(* The steps on the flag implement the guards of a read-write lock.        *)
ImplementsReadWriteLock == Abstract!Spec
=============================================================================
