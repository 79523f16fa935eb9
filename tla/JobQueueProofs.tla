--------------------------- MODULE JobQueueProofs ---------------------------
(***************************************************************************)
(* Proofs about JobQueue, for any number of threads and any set of jobs.   *)
(***************************************************************************)
EXTENDS JobQueue, FiniteSetTheorems, SequenceTheorems, TLAPS

(* What a thread's position in Push and Excute says about its locals.      *)
LocalsOK ==
  \A t \in Threads :
    /\ call[t] = "adding" => item[t] \in Jobs /\ exec[t] \in {"out", "run"}
    /\ exec[t] \notin {"next", "run"} => batch[t] = <<>> /\ ran[t] = 0
    /\ ran[t] <= Len(batch[t])
    /\ exec[t] = "run" => ran[t] < Len(batch[t])

(* A push made from inside a running job has seen a counter above zero.    *)
NestedPushSeesCount ==
  \A t \in Threads : Inside(t) /\ call[t] = "adding" => size[t] # 0

(* CountAccounts without the choice of an executor.                        *)
CountSplit ==
  /\ ~executing => count = Cardinality(Adders) + Len(queue)
  /\ \A t \in Threads :
       Inside(t) => count = Cardinality(Adders) + Len(queue) + Len(batch[t])

(* The inductive invariant.                                                *)
IInv ==
  /\ TypeOK
  /\ SerialExecution
  /\ LocalsOK
  /\ CountSplit
  /\ NestedPushReturns
  /\ NestedPushSeesCount

-----------------------------------------------------------------------------
(* PopAll splits the queue: both parts are sequences of jobs, the first is *)
(* not empty when the queue is not, and nothing is lost in between.        *)
LEMMA PopSplits ==
  ASSUME NEW q \in Seq(Jobs)
  PROVE  /\ Popped(q) \in Seq(Jobs)
         /\ LeftBehind(q) \in Seq(Jobs)
         /\ Len(Popped(q)) + Len(LeftBehind(q)) = Len(q)
<1>1. PopAllCount(Len(q)) \in 0 .. Len(q)
  BY DEF PopAllCount
<1> QED
  BY <1>1 DEF Popped, LeftBehind

(* There are finitely many threads, so the adders can be counted.          *)
LEMMA AddersFinite ==
  IsFiniteSet(Adders) /\ Cardinality(Adders) \in Nat
<1>1. Adders \in SUBSET Threads
  BY DEF Adders
<1> QED
  BY <1>1, ThreadsAssumption, FS_Subset, FS_CardinalityType

(* The counter accounts for the jobs whichever way it is written.          *)
LEMMA CountSplitAccounts ==
  ASSUME SerialExecution, CountSplit
  PROVE  CountAccounts
<1>1. CASE executing
  <2>1. Executor \in Threads /\ Inside(Executor)
    BY <1>1 DEF SerialExecution, Executor
  <2> QED
    BY <1>1, <2>1 DEF CountSplit, CountAccounts
<1>2. CASE ~executing
  <2>1. Cardinality(Adders) + Len(queue) + 0 = Cardinality(Adders) + Len(queue)
    BY AddersFinite
  <2> QED
    BY <1>2, <2>1 DEF CountSplit, CountAccounts
<1> QED
  BY <1>1, <1>2

-----------------------------------------------------------------------------
(* Before any thread has called DoAsync the invariant holds.               *)
LEMMA InitIInv == Init => IInv
<1> SUFFICES ASSUME Init PROVE IInv
  OBVIOUS
<1>1. TypeOK
  <2>1. <<>> \in Seq(Jobs)
    OBVIOUS
  <2> QED
    BY <2>1 DEF Init, TypeOK
<1>2. SerialExecution /\ LocalsOK /\ NestedPushReturns /\ NestedPushSeesCount
  BY DEF Init, SerialExecution, LocalsOK, NestedPushReturns,
         NestedPushSeesCount, Inside
<1>3. Adders = {}
  BY DEF Init, Adders
<1>4. CountSplit
  BY <1>3, FS_EmptySet DEF Init, CountSplit, Inside
<1> QED
  BY <1>1, <1>2, <1>4 DEF IInv

(* A step that leaves the pushers, the counter, the queue and the batches  *)
(* alone, and puts nobody into Excute, keeps the counter right.            *)
LEMMA SameCountSplit ==
  ASSUME CountSplit, Adders' = Adders,
         UNCHANGED <<count, queue, executing, batch>>,
         \A u \in Threads : Inside(u)' => Inside(u)
  PROVE  CountSplit'
BY DEF CountSplit

(* No atomic step of Push, Excute or DoGlobalQueue breaks it.              *)
LEMMA NextIInv == IInv /\ [Next]_vars => IInv'
<1> SUFFICES ASSUME IInv, [Next]_vars PROVE IInv'
  OBVIOUS
<1> USE DEF IInv
<1>1. ASSUME NEW t \in Threads, NEW j \in Jobs, FetchAdd(t, j)
      PROVE  IInv'
  <2>1. TypeOK'
    BY <1>1 DEF FetchAdd, TypeOK, pushVars, excuteVars, history
  <2>2. SerialExecution' /\ LocalsOK'
    <3>1. SerialExecution'
      BY <1>1 DEF FetchAdd, TypeOK, SerialExecution, LocalsOK, Inside,
        pushVars, excuteVars, history
    <3>2. LocalsOK'
      BY <1>1 DEF FetchAdd, TypeOK, SerialExecution, LocalsOK, Inside,
        pushVars, excuteVars, history
    <3> QED
      BY <3>1, <3>2
  <2>3. CountSplit'
    <3>1. t \notin Adders /\ Adders' = Adders \cup {t}
      BY <1>1 DEF FetchAdd, Adders, TypeOK
    <3>2. Cardinality(Adders') = Cardinality(Adders) + 1
      BY <3>1, AddersFinite, FS_AddElement
    <3>3. /\ count' = count + 1
          /\ UNCHANGED <<executing, queue, exec, batch>>
      BY <1>1 DEF FetchAdd, excuteVars
    <3>4. \A u \in Threads : Len(batch[u]) \in Nat
      BY DEF TypeOK
    <3>5. ~executing => count + 1 = Cardinality(Adders') + Len(queue)
      BY <3>2, AddersFinite DEF CountSplit, TypeOK
    <3>6. ASSUME NEW u \in Threads, Inside(u)
          PROVE  count + 1 = Cardinality(Adders') + Len(queue) + Len(batch[u])
      <4>1. count = Cardinality(Adders) + Len(queue) + Len(batch[u])
        BY <3>6 DEF CountSplit
      <4>2. Cardinality(Adders) \in Nat /\ Len(queue) \in Nat
        BY AddersFinite DEF TypeOK
      <4> QED
        BY <3>2, <3>4, <4>1, <4>2
    <3> QED
      BY <3>3, <3>5, <3>6 DEF CountSplit, Inside
  <2>4. NestedPushReturns' /\ NestedPushSeesCount'
    <3>1. Inside(t) => count # 0
      BY <1>1, AddersFinite DEF FetchAdd, TypeOK, LocalsOK, CountSplit, Inside
    <3> QED
      BY <1>1, <3>1
         DEF FetchAdd, TypeOK, NestedPushReturns, NestedPushSeesCount, Inside,
             excuteVars
  <2> QED
    BY <2>1, <2>2, <2>3, <2>4
<1>2. ASSUME NEW t \in Threads, TakeToken(t)
      PROVE  IInv'
  <2>1. TypeOK'
    BY <1>2 DEF TakeToken, TypeOK, pushVars, excuteVars, history
  <2>2. SerialExecution' /\ LocalsOK'
    <3>1. SerialExecution'
      BY <1>2 DEF TakeToken, TypeOK, SerialExecution, LocalsOK, Inside,
        pushVars, excuteVars, history
    <3>2. LocalsOK'
      BY <1>2 DEF TakeToken, TypeOK, SerialExecution, LocalsOK, Inside,
        pushVars, excuteVars, history
    <3> QED
      BY <3>1, <3>2
  <2>3. CountSplit'
    <3>1. Adders' = Adders
      BY <1>2 DEF TakeToken, Adders, TypeOK
    <3>2. UNCHANGED <<count, queue, executing, batch>>
      BY <1>2 DEF TakeToken, pushVars, excuteVars
    <3>3. \A u \in Threads : Inside(u)' => Inside(u)
      BY <1>2 DEF TakeToken, Inside, TypeOK, excuteVars
    <3> QED
      BY <3>1, <3>2, <3>3, SameCountSplit
  <2>4. NestedPushReturns' /\ NestedPushSeesCount'
    BY <1>2 DEF TakeToken, TypeOK, LocalsOK, NestedPushReturns, NestedPushSeesCount, Inside, pushVars, excuteVars, history
  <2> QED
    BY <2>1, <2>2, <2>3, <2>4
<1>3. ASSUME NEW t \in Threads, Enqueue(t)
      PROVE  IInv'
  <2>1. TypeOK'
    <3>1. item[t] \in Jobs
      BY <1>3 DEF Enqueue, LocalsOK
    <3> QED
      BY <1>3, <3>1 DEF Enqueue, Put, TypeOK, excuteVars
  <2>2. SerialExecution' /\ LocalsOK'
    <3>1. SerialExecution'
      BY <1>3 DEF Enqueue, TypeOK, SerialExecution, LocalsOK, Inside, pushVars,
        excuteVars, history
    <3>2. LocalsOK'
      BY <1>3 DEF Enqueue, TypeOK, SerialExecution, LocalsOK, Inside, pushVars,
        excuteVars, history
    <3> QED
      BY <3>1, <3>2
  <2>3. CountSplit'
    <3>1. t \in Adders /\ Adders' = Adders \ {t}
      BY <1>3 DEF Enqueue, Adders, TypeOK
    <3>2. Cardinality(Adders') = Cardinality(Adders) - 1
      BY <3>1, AddersFinite, FS_RemoveElement
    <3>3. Len(queue') = Len(queue) + 1
      BY <1>3 DEF Enqueue, Put, TypeOK
    <3>4. UNCHANGED <<count, executing, exec, batch>>
      BY <1>3 DEF Enqueue, excuteVars
    <3>5. \A u \in Threads : Len(batch[u]) \in Nat
      BY DEF TypeOK
    <3> QED
      <4>1. Cardinality(Adders) \in Nat /\ Len(queue) \in Nat
        BY AddersFinite DEF TypeOK
      <4>2. ~executing => count = Cardinality(Adders') + Len(queue')
        BY <3>2, <3>3, <4>1 DEF CountSplit
      <4>3. ASSUME NEW u \in Threads, Inside(u)
            PROVE  count = Cardinality(Adders') + Len(queue') + Len(batch[u])
        <5>1. count = Cardinality(Adders) + Len(queue) + Len(batch[u])
          BY <4>3 DEF CountSplit
        <5> QED
          BY <3>2, <3>3, <3>5, <4>1, <5>1
      <4> QED
        BY <3>4, <4>2, <4>3 DEF CountSplit, Inside
  <2>4. NestedPushReturns' /\ NestedPushSeesCount'
    BY <1>3 DEF Enqueue, TypeOK, LocalsOK, NestedPushReturns, NestedPushSeesCount, Inside, pushVars, excuteVars, history
  <2> QED
    BY <2>1, <2>2, <2>3, <2>4
<1>4. ASSUME NEW t \in Threads, Enter(t)
      PROVE  IInv'
  <2>1. TypeOK'
    BY <1>4 DEF Enter, TypeOK, pushVars, excuteVars, history
  <2>2. SerialExecution' /\ LocalsOK'
    <3>1. \A u \in Threads : ~Inside(u)
      BY <1>4 DEF Enter, CanEnter, SerialExecution
    <3>2. executing' /\ exec' = [exec EXCEPT ![t] = "pop"]
      BY <1>4 DEF Enter
    <3>3. SerialExecution'
      BY <3>1, <3>2 DEF SerialExecution, Inside, TypeOK
    <3>4. LocalsOK'
      BY <1>4, <3>1 DEF Enter, TypeOK, LocalsOK, Inside, pushVars
    <3> QED
      BY <3>3, <3>4
  <2>3. CountSplit'
    <3>1. Adders' = Adders
      BY <1>4 DEF Enter, Adders, TypeOK
    <3>2. batch[t] = <<>> /\ \A u \in Threads : ~Inside(u)
      BY <1>4 DEF Enter, CanEnter, SerialExecution, LocalsOK, Inside
    <3>3. count = Cardinality(Adders) + Len(queue) + Len(batch[t])
      BY <1>4, <3>2, AddersFinite DEF Enter, CanEnter, CountSplit, TypeOK
    <3> QED
      BY <1>4, <3>1, <3>2, <3>3 DEF Enter, CountSplit, Inside, TypeOK
  <2>4. NestedPushReturns' /\ NestedPushSeesCount'
    BY <1>4 DEF Enter, TypeOK, LocalsOK, NestedPushReturns, NestedPushSeesCount, Inside, pushVars, excuteVars, history
  <2> QED
    BY <2>1, <2>2, <2>3, <2>4
<1>5. ASSUME NEW t \in Threads, Bounce(t)
      PROVE  IInv'
  <2>1. TypeOK'
    BY <1>5 DEF Bounce, TypeOK, pushVars, excuteVars, history
  <2>2. SerialExecution' /\ LocalsOK'
    <3>1. SerialExecution'
      BY <1>5 DEF Bounce, TypeOK, SerialExecution, LocalsOK, Inside, pushVars,
        excuteVars, history
    <3>2. LocalsOK'
      BY <1>5 DEF Bounce, TypeOK, SerialExecution, LocalsOK, Inside, pushVars,
        excuteVars, history
    <3> QED
      BY <3>1, <3>2
  <2>3. CountSplit'
    <3>1. Adders' = Adders
      BY <1>5 DEF Bounce, Adders, TypeOK
    <3>2. UNCHANGED <<count, queue, executing, batch>>
      BY <1>5 DEF Bounce, pushVars, excuteVars
    <3>3. \A u \in Threads : Inside(u)' => Inside(u)
      BY <1>5 DEF Bounce, Inside, TypeOK, excuteVars
    <3> QED
      BY <3>1, <3>2, <3>3, SameCountSplit
  <2>4. NestedPushReturns' /\ NestedPushSeesCount'
    BY <1>5 DEF Bounce, TypeOK, LocalsOK, NestedPushReturns, NestedPushSeesCount, Inside, pushVars, excuteVars, history
  <2> QED
    BY <2>1, <2>2, <2>3, <2>4
<1>6. ASSUME NEW t \in Threads, PopAll(t)
      PROVE  IInv'
  <2>1. TypeOK'
    BY <1>6, PopSplits DEF PopAll, TypeOK, pushVars, history
  <2>2. SerialExecution' /\ LocalsOK'
    <3>1. SerialExecution'
      BY <1>6 DEF PopAll, TypeOK, SerialExecution, LocalsOK, Inside, pushVars,
        excuteVars, history
    <3>2. LocalsOK'
      BY <1>6 DEF PopAll, TypeOK, SerialExecution, LocalsOK, Inside, pushVars,
        excuteVars, history
    <3> QED
      BY <3>1, <3>2
  <2>3. CountSplit'
    <3>1. Adders' = Adders
      BY <1>6 DEF PopAll, Adders
    <3>2. Len(batch'[t]) + Len(queue') = Len(queue)
      BY <1>6, PopSplits DEF PopAll, TypeOK
    <3>3. batch[t] = <<>> /\ Inside(t)
      BY <1>6 DEF PopAll, LocalsOK, Inside
    <3>4. count = Cardinality(Adders) + Len(queue)
      BY <3>3, AddersFinite DEF CountSplit, TypeOK
    <3>5. count' = Cardinality(Adders') + Len(queue') + Len(batch'[t])
      <4>1. count' = count /\ Len(queue') \in Nat /\ Len(batch'[t]) \in Nat
        BY <1>6, <2>1 DEF PopAll, TypeOK
      <4> QED
        BY <3>1, <3>2, <3>4, <4>1, AddersFinite
    <3> QED
      BY <2>2, <3>3, <3>5, <1>6
         DEF PopAll, CountSplit, SerialExecution, Inside, TypeOK
  <2>4. NestedPushReturns' /\ NestedPushSeesCount'
    BY <1>6 DEF PopAll, TypeOK, LocalsOK, NestedPushReturns, NestedPushSeesCount, Inside, pushVars, excuteVars, history
  <2> QED
    BY <2>1, <2>2, <2>3, <2>4
<1>7. ASSUME NEW t \in Threads, PopNothing(t)
      PROVE  IInv'
  <2>1. TypeOK'
    BY <1>7 DEF PopNothing, TypeOK, pushVars, excuteVars, history
  <2>2. SerialExecution' /\ LocalsOK'
    <3>1. SerialExecution'
      BY <1>7 DEF PopNothing, TypeOK, SerialExecution, LocalsOK, Inside,
        pushVars, excuteVars, history
    <3>2. LocalsOK'
      BY <1>7 DEF PopNothing, TypeOK, SerialExecution, LocalsOK, Inside,
        pushVars, excuteVars, history
    <3> QED
      BY <3>1, <3>2
  <2>3. CountSplit'
    <3>1. Adders' = Adders
      BY <1>7 DEF PopNothing, Adders
    <3>2. UNCHANGED <<count, queue, executing, batch>>
      BY <1>7 DEF PopNothing, pushVars, excuteVars
    <3>3. \A u \in Threads : Inside(u)' => Inside(u)
      BY <1>7 DEF PopNothing, Inside, TypeOK, excuteVars
    <3> QED
      BY <3>1, <3>2, <3>3, SameCountSplit
  <2>4. NestedPushReturns' /\ NestedPushSeesCount'
    BY <1>7 DEF PopNothing, TypeOK, LocalsOK, NestedPushReturns, NestedPushSeesCount, Inside, pushVars, excuteVars, history
  <2> QED
    BY <2>1, <2>2, <2>3, <2>4
<1>8. ASSUME NEW t \in Threads, StartJob(t)
      PROVE  IInv'
  <2>1. TypeOK'
    BY <1>8 DEF StartJob, TypeOK, pushVars, excuteVars, history
  <2>2. SerialExecution' /\ LocalsOK'
    <3>1. SerialExecution'
      BY <1>8 DEF StartJob, TypeOK, SerialExecution, LocalsOK, Inside,
        pushVars, excuteVars, history
    <3>2. LocalsOK'
      BY <1>8 DEF StartJob, TypeOK, SerialExecution, LocalsOK, Inside,
        pushVars, excuteVars, history
    <3> QED
      BY <3>1, <3>2
  <2>3. CountSplit'
    <3>1. Adders' = Adders
      BY <1>8 DEF StartJob, Adders
    <3>2. UNCHANGED <<count, queue, executing, batch>>
      BY <1>8 DEF StartJob, pushVars, excuteVars
    <3>3. \A u \in Threads : Inside(u)' => Inside(u)
      BY <1>8 DEF StartJob, Inside, TypeOK, excuteVars
    <3> QED
      BY <3>1, <3>2, <3>3, SameCountSplit
  <2>4. NestedPushReturns' /\ NestedPushSeesCount'
    BY <1>8 DEF StartJob, TypeOK, LocalsOK, NestedPushReturns, NestedPushSeesCount, Inside, pushVars, excuteVars, history
  <2> QED
    BY <2>1, <2>2, <2>3, <2>4
<1>9. ASSUME NEW t \in Threads, FinishJob(t)
      PROVE  IInv'
  <2>1. TypeOK'
    <3>1. batch[t][ran[t] + 1] \in Jobs
      BY <1>9, ElementOfSeq DEF FinishJob, LocalsOK, TypeOK
    <3> QED
      BY <1>9, <3>1 DEF FinishJob, TypeOK, pushVars
  <2>2. SerialExecution' /\ LocalsOK'
    <3>1. SerialExecution'
      BY <1>9 DEF FinishJob, TypeOK, SerialExecution, LocalsOK, Inside,
        pushVars, excuteVars, history
    <3>2. LocalsOK'
      BY <1>9 DEF FinishJob, TypeOK, SerialExecution, LocalsOK, Inside,
        pushVars, excuteVars, history
    <3> QED
      BY <3>1, <3>2
  <2>3. CountSplit'
    <3>1. Adders' = Adders
      BY <1>9 DEF FinishJob, Adders
    <3>2. UNCHANGED <<count, queue, executing, batch>>
      BY <1>9 DEF FinishJob, pushVars, excuteVars
    <3>3. \A u \in Threads : Inside(u)' => Inside(u)
      BY <1>9 DEF FinishJob, Inside, TypeOK, excuteVars
    <3> QED
      BY <3>1, <3>2, <3>3, SameCountSplit
  <2>4. NestedPushReturns' /\ NestedPushSeesCount'
    BY <1>9 DEF FinishJob, TypeOK, LocalsOK, NestedPushReturns, NestedPushSeesCount, Inside, pushVars, excuteVars, history
  <2> QED
    BY <2>1, <2>2, <2>3, <2>4
<1>10. ASSUME NEW t \in Threads, FetchSub(t)
      PROVE  IInv'
  <2>1. TypeOK'
    <3>1. Inside(t) /\ count = Cardinality(Adders) + Len(queue) + Len(batch[t])
      BY <1>10 DEF FetchSub, CountSplit, Inside
    <3>2. count - Len(batch[t]) \in Nat
      BY <3>1, AddersFinite DEF TypeOK
    <3>3. <<>> \in Seq(Jobs)
      OBVIOUS
    <3> QED
      BY <1>10, <3>2, <3>3 DEF FetchSub, Subtracted, TypeOK, pushVars, history
  <2>2. SerialExecution' /\ LocalsOK'
    <3>1. SerialExecution'
      BY <1>10 DEF FetchSub, TypeOK, SerialExecution, LocalsOK, Inside,
        pushVars, excuteVars, history
    <3>2. LocalsOK'
      BY <1>10 DEF FetchSub, TypeOK, SerialExecution, LocalsOK, Inside,
        pushVars, excuteVars, history
    <3> QED
      BY <3>1, <3>2
  <2>3. CountSplit'
    <3>1. Adders' = Adders
      BY <1>10 DEF FetchSub, Adders
    <3>2. Inside(t) /\ count = Cardinality(Adders) + Len(queue) + Len(batch[t])
      BY <1>10 DEF FetchSub, CountSplit, Inside
    <3>3. count' = Cardinality(Adders') + Len(queue') + Len(batch'[t])
      <4>1. /\ count' = count - Len(batch[t]) /\ queue' = queue
            /\ Len(batch'[t]) = 0
        BY <1>10 DEF FetchSub, Subtracted, TypeOK
      <4>2. /\ Cardinality(Adders) \in Nat /\ Len(queue) \in Nat
            /\ Len(batch[t]) \in Nat
        BY AddersFinite DEF TypeOK
      <4> QED
        BY <3>1, <3>2, <4>1, <4>2
    <3> QED
      BY <1>10, <2>2, <3>2, <3>3
         DEF FetchSub, CountSplit, SerialExecution, Inside, TypeOK
  <2>4. NestedPushReturns' /\ NestedPushSeesCount'
    BY <1>10 DEF FetchSub, TypeOK, LocalsOK, NestedPushReturns, NestedPushSeesCount, Inside, pushVars, excuteVars, history
  <2> QED
    BY <2>1, <2>2, <2>3, <2>4
<1>11. ASSUME NEW t \in Threads, KeepGoing(t)
      PROVE  IInv'
  <2>1. TypeOK'
    BY <1>11 DEF KeepGoing, TypeOK, pushVars, excuteVars, history
  <2>2. SerialExecution' /\ LocalsOK'
    <3>1. SerialExecution'
      BY <1>11 DEF KeepGoing, TypeOK, SerialExecution, LocalsOK, Inside,
        pushVars, excuteVars, history
    <3>2. LocalsOK'
      BY <1>11 DEF KeepGoing, TypeOK, SerialExecution, LocalsOK, Inside,
        pushVars, excuteVars, history
    <3> QED
      BY <3>1, <3>2
  <2>3. CountSplit'
    <3>1. Adders' = Adders
      BY <1>11 DEF KeepGoing, Adders
    <3>2. UNCHANGED <<count, queue, executing, batch>>
      BY <1>11 DEF KeepGoing, pushVars, excuteVars
    <3>3. \A u \in Threads : Inside(u)' => Inside(u)
      BY <1>11 DEF KeepGoing, Inside, TypeOK, excuteVars
    <3> QED
      BY <3>1, <3>2, <3>3, SameCountSplit
  <2>4. NestedPushReturns' /\ NestedPushSeesCount'
    BY <1>11 DEF KeepGoing, TypeOK, LocalsOK, NestedPushReturns, NestedPushSeesCount, Inside, pushVars, excuteVars, history
  <2> QED
    BY <2>1, <2>2, <2>3, <2>4
<1>12. ASSUME NEW t \in Threads, HandOver(t)
      PROVE  IInv'
  <2>1. TypeOK'
    BY <1>12 DEF HandOver, TypeOK, pushVars, excuteVars, history
  <2>2. SerialExecution' /\ LocalsOK'
    <3>1. SerialExecution'
      BY <1>12 DEF HandOver, TypeOK, SerialExecution, LocalsOK, Inside,
        pushVars, excuteVars, history
    <3>2. LocalsOK'
      BY <1>12 DEF HandOver, TypeOK, SerialExecution, LocalsOK, Inside,
        pushVars, excuteVars, history
    <3> QED
      BY <3>1, <3>2
  <2>3. CountSplit'
    <3>1. Adders' = Adders
      BY <1>12 DEF HandOver, Adders
    <3>2. UNCHANGED <<count, queue, executing, batch>>
      BY <1>12 DEF HandOver, pushVars, excuteVars
    <3>3. \A u \in Threads : Inside(u)' => Inside(u)
      BY <1>12 DEF HandOver, Inside, TypeOK, excuteVars
    <3> QED
      BY <3>1, <3>2, <3>3, SameCountSplit
  <2>4. NestedPushReturns' /\ NestedPushSeesCount'
    BY <1>12 DEF HandOver, TypeOK, LocalsOK, NestedPushReturns, NestedPushSeesCount, Inside, pushVars, excuteVars, history
  <2> QED
    BY <2>1, <2>2, <2>3, <2>4
<1>13. ASSUME NEW t \in Threads, Clear(t)
      PROVE  IInv'
  <2>1. TypeOK'
    BY <1>13 DEF Clear, TypeOK, pushVars, excuteVars, history
  <2>2. SerialExecution' /\ LocalsOK'
    <3>1. SerialExecution'
      BY <1>13 DEF Clear, TypeOK, SerialExecution, LocalsOK, Inside, pushVars,
        excuteVars, history
    <3>2. LocalsOK'
      BY <1>13 DEF Clear, TypeOK, SerialExecution, LocalsOK, Inside, pushVars,
        excuteVars, history
    <3> QED
      BY <3>1, <3>2
  <2>3. CountSplit'
    <3>1. Adders' = Adders
      BY <1>13 DEF Clear, Adders
    <3>2. batch[t] = <<>> /\ Inside(t)
      BY <1>13 DEF Clear, LocalsOK, Inside
    <3>3. count = Cardinality(Adders) + Len(queue)
      BY <3>2, AddersFinite DEF CountSplit, TypeOK
    <3>4. \A u \in Threads : ~Inside(u)'
      BY <1>13, <3>2 DEF Clear, SerialExecution, Inside, TypeOK
    <3> QED
      BY <1>13, <3>1, <3>3, <3>4 DEF Clear, CountSplit
  <2>4. NestedPushReturns' /\ NestedPushSeesCount'
    BY <1>13 DEF Clear, TypeOK, LocalsOK, NestedPushReturns, NestedPushSeesCount, Inside, pushVars, excuteVars, history
  <2> QED
    BY <2>1, <2>2, <2>3, <2>4
<1>14. CASE UNCHANGED vars
  BY <1>14 DEF vars, pushVars, excuteVars, history, TypeOK, SerialExecution, LocalsOK, CountSplit, Adders, NestedPushReturns, NestedPushSeesCount, Inside
<1> QED
  BY <1>1, <1>2, <1>3, <1>4, <1>5, <1>6, <1>7, <1>8, <1>9, <1>10, <1>11, <1>12, <1>13, <1>14 DEF Next, CallStep

(* The invariant holds for every number of threads and every set of jobs.  *)
THEOREM InvariantHolds == Spec => []IInv
BY InitIInv, NextIInv, PTL DEF Spec

(* Every variable keeps its type; in particular _insideQueue never goes    *)
(* below zero, whatever the threads do.                                    *)
THEOREM TypeCorrect == Spec => []TypeOK
<1>1. IInv => TypeOK
  BY DEF IInv
<1> QED
  BY <1>1, InvariantHolds, PTL

(* Two jobs of one queue never run at the same time.                       *)
THEOREM JobsAreSerial == Spec => []SerialExecution
<1>1. IInv => SerialExecution
  BY DEF IInv
<1> QED
  BY <1>1, InvariantHolds, PTL

(* _insideQueue is the number of jobs on their way in, in _queue and in    *)
(* the batch of the executor.                                              *)
THEOREM CounterAccounts == Spec => []CountAccounts
<1>1. IInv => CountAccounts
  BY CountSplitAccounts DEF IInv
<1> QED
  BY <1>1, InvariantHolds, PTL

(* A job that posts to its own queue never makes Excute run inside itself. *)
THEOREM NestedPushesReturn == Spec => []NestedPushReturns
<1>1. IInv => NestedPushReturns
  BY DEF IInv
<1> QED
  BY <1>1, InvariantHolds, PTL

-----------------------------------------------------------------------------
(* While the queue is stranded its counter is above zero, so that a push   *)
(* only adds to it.                                                        *)
LEMMA StrandedStep == IInv /\ [Next]_vars => (Stranded => Stranded')
<1> SUFFICES ASSUME IInv, Stranded, [Next]_vars PROVE Stranded'
  OBVIOUS
<1>1. \A t \in Threads : ~Inside(t)
  BY DEF IInv, SerialExecution, Stranded
<1>2. count # 0
  <2>1. Len(queue) \in Nat \ {0}
    BY EmptySeq DEF IInv, TypeOK, Stranded
  <2> QED
    BY <2>1, AddersFinite DEF IInv, CountSplit, Stranded, TypeOK
<1>3. ASSUME NEW t \in Threads, NEW j \in Jobs, FetchAdd(t, j)
      PROVE  Stranded'
  BY <1>2, <1>3 DEF FetchAdd, Stranded, IInv, TypeOK
<1>4. ASSUME NEW t \in Threads, Enqueue(t)
      PROVE  Stranded'
  <2>1. queue' # <<>>
    BY <1>4, EmptySeq DEF Enqueue, Put, IInv, TypeOK, LocalsOK
  <2> QED
    BY <1>4, <2>1 DEF Enqueue, Stranded, IInv, TypeOK
<1>5. ASSUME NEW t \in Threads, TakeToken(t)
      PROVE  FALSE
  BY <1>5 DEF TakeToken, Stranded
<1>6. ASSUME NEW t \in Threads, CallStep(t), ~Enqueue(t)
      PROVE  FALSE
  BY <1>1, <1>6
     DEF CallStep, Enter, Bounce, PopAll, PopNothing, StartJob, FinishJob,
         FetchSub, KeepGoing, HandOver, Clear, Inside, Stranded
<1>7. CASE UNCHANGED vars
  BY <1>7 DEF vars, pushVars, Stranded
<1> QED
  BY <1>3, <1>4, <1>5, <1>6, <1>7 DEF Next

(* Once a queue is stranded, no later push, from any thread, gets it going *)
(* again: its jobs are never run.                                          *)
THEOREM StrandingIsFinal == Spec => StrandedForEver
<1>1. IInv /\ [Next]_vars => [Stranded => Stranded']_vars
  BY StrandedStep
<1> QED
  BY <1>1, InvariantHolds, PTL DEF Spec, StrandedForEver

-----------------------------------------------------------------------------
(* Somebody is bound to reach Excute.                                      *)
OnTheWay ==
  \/ tokens > 0
  \/ \E t \in Threads :
       call[t] = "entering" \/ (call[t] = "adding" /\ size[t] = 0)

(* While no window has been hit and nobody will look at _queue again, a    *)
(* counted job has somebody on the way to run it.                          *)
WakeUpPending ==
  slips = {} /\ count # 0
    /\ (\A t \in Threads : exec[t] \in {"out", "clear"})
  => OnTheWay

(* The queue begins empty, so that nothing is owed a wake-up.              *)
LEMMA InitWakeUp == Init => WakeUpPending
BY DEF Init, WakeUpPending

(* As long as no window has been hit, every step that leaves jobs in a     *)
(* free queue leaves somebody on the way to it.                            *)
LEMMA NextWakeUp == IInv /\ WakeUpPending /\ [Next]_vars => WakeUpPending'
<1> SUFFICES ASSUME IInv, WakeUpPending, [Next]_vars,
                    slips' = {}, count' # 0,
                    \A t \in Threads : exec'[t] \in {"out", "clear"}
             PROVE  OnTheWay'
  BY DEF WakeUpPending
<1> USE DEF IInv, TypeOK
<1>1. ASSUME NEW t \in Threads, NEW j \in Jobs, FetchAdd(t, j)
      PROVE  OnTheWay'
  BY <1>1 DEF FetchAdd, OnTheWay, WakeUpPending, excuteVars, history
<1>2. ASSUME NEW t \in Threads, Enqueue(t)
      PROVE  OnTheWay'
  BY <1>2 DEF Enqueue, OnTheWay, WakeUpPending, excuteVars
<1>3. ASSUME NEW t \in Threads, TakeToken(t)
      PROVE  OnTheWay'
  BY <1>3 DEF TakeToken, OnTheWay
<1>4. ASSUME NEW t \in Threads, Enter(t)
      PROVE  FALSE
  BY <1>4 DEF Enter
<1>5. ASSUME NEW t \in Threads, Bounce(t)
      PROVE  FALSE
  <2>1. PICK u \in Threads : Inside(u)
    BY <1>5 DEF Bounce, CanEnter, SerialExecution
  <2>2. exec[u] = "clear"
    BY <1>5, <2>1 DEF Bounce, excuteVars, Inside
  <2> QED
    BY <1>5, <2>2 DEF Bounce
<1>6. ASSUME NEW t \in Threads, PopNothing(t)
      PROVE  OnTheWay'
  <2>1. \A u \in Threads : call[u] = "adding" => size[u] = 0
    BY <1>6 DEF PopNothing
  <2>2. batch[t] = <<>> /\ Inside(t)
    BY <1>6 DEF PopNothing, LocalsOK, Inside
  <2>3. count = Cardinality(Adders)
    BY <1>6, <2>2, AddersFinite, EmptySeq DEF PopNothing, CountSplit
  <2>4. Adders # {}
    BY <1>6, <2>3, AddersFinite, FS_EmptySet DEF PopNothing
  <2>5. PICK u \in Threads : call[u] = "adding" /\ size[u] = 0
    BY <2>1, <2>4 DEF Adders
  <2> QED
    BY <1>6, <2>5 DEF PopNothing, OnTheWay, pushVars
<1>7. ASSUME NEW t \in Threads,
             PopAll(t) \/ StartJob(t) \/ FinishJob(t) \/ FetchSub(t)
               \/ KeepGoing(t)
      PROVE  FALSE
  BY <1>7 DEF PopAll, StartJob, FinishJob, FetchSub, KeepGoing
<1>8. ASSUME NEW t \in Threads, HandOver(t)
      PROVE  OnTheWay'
  BY <1>8 DEF HandOver, OnTheWay
<1>9. ASSUME NEW t \in Threads, Clear(t)
      PROVE  OnTheWay'
  BY <1>9 DEF Clear, OnTheWay, WakeUpPending, pushVars, history
<1>10. CASE UNCHANGED vars
  BY <1>10
     DEF vars, pushVars, excuteVars, history, OnTheWay, WakeUpPending
<1> QED
  BY <1>1, <1>2, <1>3, <1>4, <1>5, <1>6, <1>7, <1>8, <1>9, <1>10
     DEF Next, CallStep

(* With somebody on the way the queue is not stranded, so that a stranded  *)
(* one has been through a window.                                          *)
LEMMA WakeUpExplains == IInv /\ WakeUpPending => StrandedOnlyThroughSlip
<1> SUFFICES ASSUME IInv, WakeUpPending, Stranded, slips = {} PROVE FALSE
  BY DEF StrandedOnlyThroughSlip
<1>1. \A t \in Threads : exec[t] = "out"
  BY DEF Stranded, IInv, SerialExecution, Inside
<1>2. Len(queue) \in Nat \ {0}
  BY EmptySeq DEF IInv, TypeOK, Stranded
<1>3. count # 0
  BY <1>2, AddersFinite DEF IInv, CountSplit, Stranded, TypeOK
<1> QED
  BY <1>1, <1>3 DEF WakeUpPending, OnTheWay, Stranded

(* The two windows of Excute are the only ways to lose a queue.            *)
THEOREM OnlySlipsStrand == Spec => []StrandedOnlyThroughSlip
BY InvariantHolds, InitWakeUp, NextWakeUp, WakeUpExplains, PTL DEF Spec

-----------------------------------------------------------------------------
(* Facts about the jobs in the queue's care: what is left of a batch is a  *)
(* sequence of jobs.                                                       *)
LEMMA RestIsSeq ==
  ASSUME TypeOK, NEW t \in Threads
  PROVE  Rest(t) \in Seq(Jobs)
BY SubSeqProperties, ElementOfSeq DEF Rest, TypeOK

(* Nothing is left of a batch that has run to its end.                     *)
LEMMA RestEmpty ==
  ASSUME TypeOK, NEW t \in Threads, ran[t] >= Len(batch[t])
  PROVE  Rest(t) = <<>>
BY SubSeqEmpty DEF Rest, TypeOK

(* The thread inside Excute is the executor: its batch comes before        *)
(* _queue.                                                                 *)
LEMMA BacklogHeld ==
  ASSUME SerialExecution, NEW t \in Threads, Inside(t)
  PROVE  Backlog = Rest(t) \o queue
BY DEF SerialExecution, Executor, Backlog

(* The same after a step.                                                  *)
LEMMA BacklogHeldNext ==
  ASSUME SerialExecution', NEW t \in Threads, Inside(t)'
  PROVE  Backlog' = Rest(t)' \o queue'
BY DEF SerialExecution, Executor, Backlog

(* The jobs in the care of the queue are a sequence of jobs.               *)
LEMMA BacklogIsSeq ==
  ASSUME TypeOK, SerialExecution
  PROVE  Backlog \in Seq(Jobs)
<1>1. CASE executing
  <2>1. PICK t \in Threads : Inside(t)
    BY <1>1 DEF SerialExecution
  <2>2. Rest(t) \in Seq(Jobs) /\ queue \in Seq(Jobs)
    BY RestIsSeq DEF TypeOK
  <2>3. Backlog = Rest(t) \o queue
    BY <2>1, BacklogHeld
  <2> QED
    BY <2>2, <2>3, ConcatProperties
<1>2. CASE ~executing
  BY <1>2 DEF Backlog, TypeOK
<1> QED
  BY <1>1, <1>2

(* Taking the older half of the queue as the batch leaves the order alone. *)
LEMMA PopKeepsOrder ==
  ASSUME NEW q \in Seq(Jobs)
  PROVE  SubSeq(Popped(q), 1, Len(Popped(q))) \o LeftBehind(q) = q
<1>1. PopAllCount(Len(q)) \in 0 .. Len(q)
  BY DEF PopAllCount
<1>a. ASSUME NEW k \in 0 .. Len(q)
      PROVE  SubSeq(q, 1, k) \o SubSeq(q, k + 1, Len(q)) = SubSeq(q, 1, Len(q))
  <2>1. /\ 1 \in 1 .. Len(q) + 1 /\ k \in 1 - 1 .. Len(q)
        /\ Len(q) \in k .. Len(q)
    OBVIOUS
  <2> QED
    BY <2>1, ConcatAdjacentSubSeq
<1>2. Popped(q) \o LeftBehind(q) = SubSeq(q, 1, Len(q))
  BY <1>1, <1>a DEF Popped, LeftBehind
<1> QED
  BY <1>2, SubSeqFull, PopSplits

(* A job put behind the queue goes behind the whole backlog.               *)
LEMMA AppendToBoth ==
  ASSUME NEW r \in Seq(Jobs), NEW q \in Seq(Jobs), NEW j \in Jobs
  PROVE  r \o Append(q, j) = Append(r \o q, j)
OBVIOUS

(* The job that runs is the first of the backlog.                          *)
LEMMA RunningIsHead ==
  ASSUME TypeOK, SerialExecution, NEW t \in Threads, Inside(t),
         ran[t] < Len(batch[t])
  PROVE  /\ Backlog # <<>>
         /\ Head(Backlog) = batch[t][ran[t] + 1]
         /\ Tail(Backlog) =
              SubSeq(batch[t], ran[t] + 2, Len(batch[t])) \o queue
<1> DEFINE b == batch[t]  n == ran[t]
<1>1. b \in Seq(Jobs) /\ n \in Nat /\ queue \in Seq(Jobs)
  BY DEF TypeOK
<1>2. Rest(t) \in Seq(Jobs) /\ Len(Rest(t)) > 0
  BY <1>1, RestIsSeq, SubSeqProperties, ElementOfSeq DEF Rest
<1>3. Head(Rest(t)) = b[n + 1] /\ Tail(Rest(t)) = SubSeq(b, n + 2, Len(b))
  <2>1. n + 1 \in 1 .. Len(b) /\ Len(b) \in n + 1 .. Len(b)
    BY <1>1
  <2>2. (n + 1) + 1 = n + 2
    BY <1>1
  <2> QED
    BY <1>1, <2>1, <2>2, HeadTailOfSubSeq DEF Rest
<1>4. Backlog = Rest(t) \o queue
  BY BacklogHeld
<1>5. ASSUME NEW r \in Seq(Jobs), Len(r) > 0, NEW q \in Seq(Jobs)
      PROVE  /\ r \o q # <<>>
             /\ Head(r \o q) = Head(r)
             /\ Tail(r \o q) = Tail(r) \o q
  <2>1. Len(r \o q) > 0 /\ (r \o q)[1] = r[1] /\ r \o q \in Seq(Jobs)
    BY <1>5, ConcatProperties
  <2>2. /\ Tail(r) \in Seq(Jobs)
        /\ Len(Tail(r)) = Len(r) - 1
        /\ \A i \in 1 .. Len(r) - 1 : Tail(r)[i] = r[i + 1]
    BY <1>5, HeadTailProperties, EmptySeq
  <2>3. /\ Tail(r \o q) \in Seq(Jobs)
        /\ Len(Tail(r \o q)) = Len(r) + Len(q) - 1
        /\ \A i \in 1 .. Len(r) + Len(q) - 1 :
             Tail(r \o q)[i] = (r \o q)[i + 1]
    BY <2>1, <1>5, HeadTailProperties, EmptySeq, ConcatProperties
  <2>4. Tail(r \o q) = Tail(r) \o q
    <3>1. /\ Tail(r) \o q \in Seq(Jobs)
          /\ Len(Tail(r) \o q) = Len(r) + Len(q) - 1
          /\ \A i \in 1 .. Len(r) + Len(q) - 1 :
               (Tail(r) \o q)[i] = IF i <= Len(r) - 1
                                   THEN Tail(r)[i] ELSE q[i - (Len(r) - 1)]
      BY <1>5, <2>2, ConcatProperties
    <3>2. \A i \in 1 .. Len(r) + Len(q) - 1 :
            (r \o q)[i + 1] = IF i + 1 <= Len(r)
                              THEN r[i + 1] ELSE q[(i + 1) - Len(r)]
      BY <1>5, ConcatProperties
    <3>3. \A i \in 1 .. Len(r) + Len(q) - 1 :
            Tail(r \o q)[i] = (Tail(r) \o q)[i]
      BY <1>5, <2>2, <2>3, <3>1, <3>2
    <3> QED
      BY <2>3, <3>1, <3>3, SeqEqual
  <2> QED
    BY <2>1, <2>4, <1>5
<1>6. /\ Rest(t) \o queue # <<>>
      /\ Head(Rest(t) \o queue) = Head(Rest(t))
      /\ Tail(Rest(t) \o queue) = Tail(Rest(t)) \o queue
  BY <1>1, <1>2, <1>5
<1> QED
  BY <1>3, <1>4, <1>6

-----------------------------------------------------------------------------
Busy == \E t \in Threads : exec[t] = "run"

(* What a step can do to the backlog: nothing, take a job in at the end,   *)
(* begin the first job, or finish it.                                      *)
Idle ==
  UNCHANGED <<Backlog, Busy, accepted, executed>>
TakeIn(j) ==
  /\ Backlog' = Append(Backlog, j)
  /\ accepted' = Append(accepted, j)
  /\ UNCHANGED <<Busy, executed>>
BeginFirst ==
  /\ ~Busy /\ Busy' /\ Backlog # <<>>
  /\ UNCHANGED <<Backlog, accepted, executed>>
FinishFirst ==
  /\ Busy /\ ~Busy' /\ Backlog # <<>>
  /\ Backlog' = Tail(Backlog)
  /\ executed' = Append(executed, Head(Backlog))
  /\ UNCHANGED accepted

(* A step that touches neither Excute nor _queue leaves the backlog alone. *)
LEMMA SameBacklog ==
  ASSUME UNCHANGED <<executing, exec, batch, ran, queue>>
  PROVE  Backlog' = Backlog /\ Busy' = Busy
BY DEF Backlog, Busy, Rest, Executor, Inside

(* A step inside Excute that leaves the flag held and the rest of the      *)
(* batch followed by the queue as it was leaves the backlog as it was.     *)
LEMMA HeldBacklog ==
  ASSUME SerialExecution, SerialExecution',
         NEW t \in Threads, Inside(t), Inside(t)',
         Rest(t)' \o queue' = Rest(t) \o queue
  PROVE  Backlog' = Backlog
<1>1. Backlog = Rest(t) \o queue
  BY BacklogHeld
<1>2. Backlog' = Rest(t)' \o queue'
  BY BacklogHeldNext
<1> QED
  BY <1>1, <1>2

(* Every step of the code does one of four things to the backlog: nothing, *)
(* a job joins it, its first job begins, its first job finishes.           *)
LEMMA StepOnBacklog ==
  IInv /\ IInv' /\ [Next]_vars
    => Idle \/ (\E j \in Jobs : TakeIn(j)) \/ BeginFirst \/ FinishFirst
<1> SUFFICES ASSUME IInv, IInv', [Next]_vars
             PROVE  Idle \/ (\E j \in Jobs : TakeIn(j)) \/ BeginFirst
                      \/ FinishFirst
  OBVIOUS
<1>0. /\ TypeOK /\ SerialExecution /\ LocalsOK
      /\ TypeOK' /\ SerialExecution' /\ LocalsOK'
  BY DEF IInv
<1>1. ASSUME NEW t \in Threads, NEW j \in Jobs, FetchAdd(t, j)
      PROVE  Idle
  BY <1>1, SameBacklog DEF FetchAdd, Idle, excuteVars, history
<1>2. ASSUME NEW t \in Threads, TakeToken(t)
      PROVE  Idle
  BY <1>2, SameBacklog DEF TakeToken, Idle, excuteVars, history
<1>3. ASSUME NEW t \in Threads, Bounce(t)
      PROVE  Idle
  BY <1>3, SameBacklog DEF Bounce, Idle, excuteVars
<1>4. ASSUME NEW t \in Threads, Enqueue(t)
      PROVE  \E j \in Jobs : TakeIn(j)
  <2>1. item[t] \in Jobs
    BY <1>0, <1>4 DEF Enqueue, LocalsOK
  <2>2. Busy' = Busy /\ executed' = executed
    BY <1>4 DEF Enqueue, Busy, excuteVars
  <2>3. accepted' = Append(accepted, item[t])
    BY <1>4 DEF Enqueue
  <2>4. queue' = Append(queue, item[t])
        /\ UNCHANGED <<executing, exec, batch, ran>>
    BY <1>4 DEF Enqueue, Put, excuteVars
  <2>5. CASE executing
    <3>1. PICK u \in Threads : Inside(u)
      BY <1>0, <2>5 DEF SerialExecution
    <3>2. Inside(u)' /\ Rest(u)' = Rest(u)
      BY <2>4, <3>1 DEF Inside, Rest
    <3>3. Rest(u) \in Seq(Jobs) /\ queue \in Seq(Jobs)
      BY <1>0, RestIsSeq DEF TypeOK
    <3>4. Backlog = Rest(u) \o queue
      BY <1>0, <3>1, BacklogHeld
    <3>5. Backlog' = Rest(u) \o Append(queue, item[t])
      BY <1>0, <2>4, <3>2, BacklogHeldNext
    <3>6. Backlog' = Append(Backlog, item[t])
      BY <2>1, <3>3, <3>4, <3>5, AppendToBoth
    <3> QED
      BY <2>1, <2>2, <2>3, <3>6 DEF TakeIn
  <2>6. CASE ~executing
    <3>1. Backlog' = Append(Backlog, item[t])
      BY <2>4, <2>6 DEF Backlog
    <3> QED
      BY <2>1, <2>2, <2>3, <3>1 DEF TakeIn
  <2> QED
    BY <2>5, <2>6
<1>5. ASSUME NEW t \in Threads, Enter(t)
      PROVE  Idle
  <2>1. \A u \in Threads : exec[u] = "out"
    BY <1>0, <1>5 DEF Enter, CanEnter, SerialExecution, Inside
  <2>2. exec' = [exec EXCEPT ![t] = "pop"]
    BY <1>5 DEF Enter
  <2>3. ~Busy /\ ~Busy'
    BY <1>0, <2>1, <2>2 DEF Busy, TypeOK
  <2>4. Inside(t)' /\ batch[t] = <<>> /\ ran[t] = 0 /\ UNCHANGED <<batch, ran>>
    BY <1>0, <1>5, <2>1, <2>2 DEF Enter, Inside, LocalsOK, TypeOK
  <2>5. Rest(t)' = <<>>
    <3>1. Rest(t)' = Rest(t)
      BY <2>4 DEF Rest
    <3>2. ran[t] >= Len(batch[t])
      BY <2>4
    <3> QED
      BY <1>0, <3>1, <3>2, RestEmpty
  <2>6. Backlog' = <<>> \o queue
    BY <1>0, <1>5, <2>4, <2>5, BacklogHeldNext DEF Enter
  <2>7. Backlog' = Backlog
    BY <1>0, <1>5, <2>6, ConcatEmptySeq
       DEF Enter, CanEnter, Backlog, TypeOK
  <2> QED
    BY <1>5, <2>3, <2>7 DEF Enter, Idle, Busy
<1>6. ASSUME NEW t \in Threads, PopAll(t)
      PROVE  Idle
  <2>1. /\ Inside(t) /\ Inside(t)' /\ UNCHANGED <<accepted, executed>>
        /\ batch'[t] = Popped(queue) /\ ran'[t] = 0
        /\ queue' = LeftBehind(queue)
    BY <1>0, <1>6 DEF PopAll, Inside, TypeOK, history
  <2>2. Busy' = Busy
    BY <1>0, <1>6 DEF PopAll, Busy, TypeOK
  <2>3. Rest(t) = <<>>
    <3>1. ran[t] >= Len(batch[t])
      BY <1>0, <1>6 DEF PopAll, LocalsOK
    <3> QED
      BY <1>0, <3>1, RestEmpty
  <2>4. Rest(t)' \o queue' = queue
    <3>1. Rest(t)' = SubSeq(Popped(queue), 1, Len(Popped(queue)))
      BY <2>1 DEF Rest
    <3>2. queue \in Seq(Jobs)
      BY <1>0 DEF TypeOK
    <3> QED
      BY <2>1, <3>1, <3>2, PopKeepsOrder
  <2>5. Rest(t) \o queue = queue
    BY <1>0, <2>3, ConcatEmptySeq DEF TypeOK
  <2>6. Backlog' = Backlog
    BY <1>0, <2>1, <2>4, <2>5, HeldBacklog
  <2> QED
    BY <2>1, <2>2, <2>6 DEF Idle
<1>7. ASSUME NEW t \in Threads, PopNothing(t) \/ KeepGoing(t) \/ HandOver(t)
      PROVE  Idle
  <2>1. /\ Inside(t) /\ Inside(t)'
        /\ UNCHANGED <<accepted, executed, queue, batch, ran>>
    BY <1>0, <1>7
       DEF PopNothing, KeepGoing, HandOver, Inside, TypeOK, history
  <2>2. Busy' = Busy
    <3>1. CASE PopNothing(t)
      BY <1>0, <3>1 DEF PopNothing, Busy, TypeOK
    <3>2. CASE KeepGoing(t)
      BY <1>0, <3>2 DEF KeepGoing, Busy, TypeOK
    <3>3. CASE HandOver(t)
      BY <1>0, <3>3 DEF HandOver, Busy, TypeOK
    <3> QED
      BY <1>7, <3>1, <3>2, <3>3
  <2>3. Backlog' = Backlog
    BY <1>0, <2>1, HeldBacklog DEF Rest
  <2> QED
    BY <2>1, <2>2, <2>3 DEF Idle
<1>8. ASSUME NEW t \in Threads, StartJob(t)
      PROVE  BeginFirst
  <2>1. /\ Inside(t) /\ Inside(t)' /\ exec'[t] = "run"
        /\ UNCHANGED <<accepted, executed, queue, batch, ran>>
    BY <1>0, <1>8 DEF StartJob, Inside, TypeOK, history
  <2>2. ~Busy /\ Busy'
    BY <1>0, <1>8, <2>1 DEF StartJob, Busy, SerialExecution, Inside
  <2>3. Backlog' = Backlog
    BY <1>0, <2>1, HeldBacklog DEF Rest
  <2>4. Backlog # <<>>
    BY <1>0, <1>8, <2>1, RunningIsHead DEF StartJob
  <2> QED
    BY <2>1, <2>2, <2>3, <2>4 DEF BeginFirst
<1>9. ASSUME NEW t \in Threads, FinishJob(t)
      PROVE  FinishFirst
  <2>1. /\ Inside(t) /\ Inside(t)' /\ exec[t] = "run" /\ exec'[t] = "next"
        /\ UNCHANGED <<accepted, queue, batch>>
        /\ ran'[t] = ran[t] + 1
        /\ executed' = Append(executed, batch[t][ran[t] + 1])
    BY <1>0, <1>9 DEF FinishJob, Inside, TypeOK
  <2>2. Busy /\ ~Busy'
    BY <1>0, <2>1 DEF Busy, SerialExecution, Inside
  <2>3. ran[t] < Len(batch[t])
    BY <1>0, <2>1 DEF LocalsOK
  <2>4. /\ Backlog # <<>>
        /\ Head(Backlog) = batch[t][ran[t] + 1]
        /\ Tail(Backlog) =
             SubSeq(batch[t], ran[t] + 2, Len(batch[t])) \o queue
    BY <1>0, <2>1, <2>3, RunningIsHead
  <2>5. Backlog' = Rest(t)' \o queue'
    BY <1>0, <2>1, BacklogHeldNext
  <2>6. Rest(t)' = SubSeq(batch[t], ran[t] + 2, Len(batch[t]))
    <3>1. ran'[t] + 1 = ran[t] + 2
      BY <1>0, <2>1 DEF TypeOK
    <3> QED
      BY <2>1, <3>1 DEF Rest
  <2> QED
    BY <2>1, <2>2, <2>4, <2>5, <2>6 DEF FinishFirst
<1>10. ASSUME NEW t \in Threads, FetchSub(t)
       PROVE  Idle
  <2>1. /\ Inside(t) /\ Inside(t)'
        /\ UNCHANGED <<accepted, executed, queue>>
        /\ ran[t] >= Len(batch[t])
        /\ ran'[t] >= Len(batch'[t])
    BY <1>0, <1>10 DEF FetchSub, Inside, TypeOK, LocalsOK, history
  <2>2. Busy' = Busy
    BY <1>0, <1>10 DEF FetchSub, Busy, TypeOK
  <2>3. Rest(t) = <<>>
    BY <1>0, <2>1, RestEmpty
  <2>4. Rest(t)' = <<>>
    BY <1>0, <2>1, SubSeqEmpty DEF Rest, TypeOK
  <2>5. Backlog' = Backlog
    BY <1>0, <2>1, <2>3, <2>4, HeldBacklog
  <2> QED
    BY <2>1, <2>2, <2>5 DEF Idle
<1>11. ASSUME NEW t \in Threads, Clear(t)
       PROVE  Idle
  <2>1. /\ Inside(t) /\ ~executing' /\ UNCHANGED <<accepted, executed, queue>>
        /\ ran[t] >= Len(batch[t])
    BY <1>0, <1>11 DEF Clear, Inside, TypeOK, LocalsOK, history
  <2>2. Busy' = Busy
    BY <1>0, <1>11 DEF Clear, Busy, TypeOK
  <2>3. Backlog = <<>> \o queue
    BY <1>0, <2>1, BacklogHeld, RestEmpty
  <2>4. Backlog' = Backlog
    BY <1>0, <2>1, <2>3, ConcatEmptySeq DEF Backlog, TypeOK
  <2> QED
    BY <2>1, <2>2, <2>4 DEF Idle
<1>12. CASE UNCHANGED vars
  BY <1>12, SameBacklog DEF vars, excuteVars, history, Idle
<1> QED
  BY <1>1, <1>2, <1>3, <1>4, <1>5, <1>6, <1>7, <1>8, <1>9, <1>10, <1>11,
     <1>12 DEF Next, CallStep

-----------------------------------------------------------------------------
(* Before any call there is no backlog and no job runs.                    *)
LEMMA InitBacklog == Init => Backlog = <<>> /\ ~Busy
BY DEF Init, Backlog, Busy

(* The order holds before any call.                                        *)
LEMMA InitFifo == Init => FirstInFirstOut
<1> SUFFICES ASSUME Init PROVE FirstInFirstOut
  OBVIOUS
<1>1. <<>> \o <<>> = <<>>
  OBVIOUS
<1> QED
  BY <1>1, InitBacklog DEF Init, FirstInFirstOut

(* Each of the four things a step does to the backlog keeps the order.     *)
LEMMA NextFifo ==
  IInv /\ IInv' /\ FirstInFirstOut /\ [Next]_vars => FirstInFirstOut'
<1> SUFFICES ASSUME IInv, IInv', FirstInFirstOut, [Next]_vars
             PROVE  FirstInFirstOut'
  OBVIOUS
<1>1. executed \in Seq(Jobs) /\ Backlog \in Seq(Jobs)
  BY BacklogIsSeq DEF IInv, TypeOK
<1>2. CASE Idle
  BY <1>2 DEF Idle, FirstInFirstOut
<1>3. ASSUME NEW j \in Jobs, TakeIn(j)
      PROVE  FirstInFirstOut'
  BY <1>1, <1>3, AppendToBoth DEF TakeIn, FirstInFirstOut
<1>4. CASE BeginFirst
  BY <1>4 DEF BeginFirst, FirstInFirstOut
<1>5. CASE FinishFirst
  <2>1. ASSUME NEW e \in Seq(Jobs), NEW b \in Seq(Jobs), b # <<>>
        PROVE  Append(e, Head(b)) \o Tail(b) = e \o b
    <3>1. Head(b) \in Jobs /\ Tail(b) \in Seq(Jobs)
      BY <2>1, HeadTailProperties
    <3>2. b = <<Head(b)>> \o Tail(b)
      BY <2>1, HeadTailProperties, SeqEqual
    <3>3. Append(e, Head(b)) = e \o <<Head(b)>>
      BY <3>1
    <3>4. (e \o <<Head(b)>>) \o Tail(b) = e \o (<<Head(b)>> \o Tail(b))
      BY <3>1, ConcatAssociative
    <3> QED
      BY <3>2, <3>3, <3>4
  <2> QED
    BY <1>1, <1>5, <2>1 DEF FinishFirst, FirstInFirstOut
<1> QED
  BY <1>2, <1>3, <1>4, <1>5, StepOnBacklog

(* Jobs are run in the order in which they entered _queue, none lost or    *)
(* doubled, for any number of threads.                                     *)
THEOREM JobsAreFirstInFirstOut == Spec => []FirstInFirstOut
BY InvariantHolds, InitFifo, NextFifo, PTL DEF Spec

(* The queue begins as an empty serial queue.                              *)
LEMMA InitSerial == Init => Serial!Init
BY InitBacklog DEF Init, Serial!Init, Busy

(* Each of the four things a step does to the backlog is a step of the     *)
(* serial queue or none.                                                   *)
LEMMA NextSerial ==
  IInv /\ IInv' /\ [Next]_vars => [Serial!Next]_(Serial!vars)
<1> SUFFICES ASSUME IInv, IInv', [Next]_vars
             PROVE  [Serial!Next]_(Serial!vars)
  OBVIOUS
<1>1. CASE Idle
  BY <1>1 DEF Idle, Serial!vars, Busy
<1>2. ASSUME NEW j \in Jobs, TakeIn(j)
      PROVE  Serial!Next
  BY <1>2 DEF TakeIn, Serial!Next, Serial!Submit, Busy
<1>3. CASE BeginFirst
  BY <1>3 DEF BeginFirst, Serial!Next, Serial!Begin, Busy
<1>4. CASE FinishFirst
  BY <1>4 DEF FinishFirst, Serial!Next, Serial!End, Busy
<1> QED
  BY <1>1, <1>2, <1>3, <1>4, StepOnBacklog

(* The concurrent JobQueue implements the serial queue its callers rely    *)
(* on: every step of every thread is a step of SerialQueue or none.        *)
THEOREM JobQueueImplementsSerialQueue == Spec => ImplementsSerialQueue
BY InvariantHolds, InitSerial, NextSerial, PTL
   DEF Spec, ImplementsSerialQueue, Serial!Spec
=============================================================================
