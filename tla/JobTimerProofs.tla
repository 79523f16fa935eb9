--------------------------- MODULE JobTimerProofs ---------------------------
(***************************************************************************)
(* Proofs about JobTimer, for any threads, jobs, clock and time slice.     *)
(***************************************************************************)
EXTENDS JobTimer, TLAPS

(* Between TakeTop and Pop: the steps of a thread that has an item.        *)
Busy == Inside \ {"looking"}

(* A worker came at a tick that has passed, and the item it has taken is   *)
(* due, still at the top, and has been pushed or dropped.                  *)
WorkersOK ==
  \A t \in Threads :
    /\ start[t] <= now
    /\ step[t] \in Busy =>
         /\ IsTop(item[t])
         /\ item[t].tick < start[t]
         /\ Pushed(item[t].job) \/ Dropped(item[t].job)

(* Every item is of a job DoTimer has been called for, and _timers has one *)
(* for each.                                                               *)
JobsOnce ==
  /\ \A x, y \in timers : x.job = y.job => x = y
  /\ \A x \in timers \cup dropped : x.job \in reserved
  /\ \A i \in DOMAIN pushed : pushed[i].job \in reserved

(* The inductive invariant.                                                *)
IInv ==
  /\ TypeOK
  /\ WorkersOK
  /\ JobsOnce
  /\ TimersAreKept
  /\ InTickOrder

-----------------------------------------------------------------------------
(* The types, and who has the lock, are kept by every step.                *)
LEMMA TypeNext == TypeOK /\ [Next]_vars => TypeOK'
<1> SUFFICES ASSUME TypeOK, [Next]_vars PROVE TypeOK'
  OBVIOUS
<1> USE TimerAssumption DEF TypeOK, Ticks, Inside, GoOn
<1>1. CASE Tick
  BY <1>1 DEF Tick, queueVars, historyVars
<1>2. CASE Release
  BY <1>2 DEF Release, historyVars
<1>3. ASSUME NEW t \in Threads, WorkReserve(t) PROVE TypeOK'
  BY <1>3 DEF WorkReserve, Reserve, DueTick, Items, historyVars
<1>4. ASSUME NEW t \in Threads, WorkLock(t) PROVE TypeOK'
  BY <1>4 DEF WorkLock, queueVars, historyVars
<1>5. ASSUME NEW t \in Threads, WorkUnlock(t) PROVE TypeOK'
  BY <1>5 DEF WorkUnlock, queueVars, historyVars
<1>6. ASSUME NEW t \in Threads, DoGlobalTimer(t) PROVE TypeOK'
  BY <1>6 DEF DoGlobalTimer, queueVars, historyVars
<1>7. ASSUME NEW t \in Threads, Acquire(t) PROVE TypeOK'
  BY <1>7 DEF Acquire, queueVars, historyVars
<1>8. ASSUME NEW t \in Threads, FindNothing(t) PROVE TypeOK'
  BY <1>8 DEF FindNothing, Return, queueVars, historyVars
<1>9. ASSUME NEW t \in Threads, TakeTop(t) PROVE TypeOK'
  <2>1. PICK x \in timers :
          /\ item' = [item EXCEPT ![t] = x]
          /\ \/ pushed' = Append(pushed, x) /\ UNCHANGED dropped
             \/ dropped' = dropped \cup {x} /\ UNCHANGED pushed
    BY <1>9 DEF TakeTop
  <2>2. x \in Items /\ x # NoItem
    BY DEF Items, NoItem
  <2>3. /\ step[t] = "looking"
        /\ \/ step' = [step EXCEPT ![t] = "pushing"]
           \/ step' = [step EXCEPT ![t] = "popping"]
        /\ UNCHANGED <<now, lock, other, start, timers, held, reserved>>
    BY <1>9 DEF TakeTop, queueVars
  <2>4. pushed' \in Seq(Items) /\ dropped' \subseteq Items
    <3>1. pushed \in Seq(Items) /\ dropped \subseteq Items /\ x \in Items
      BY <2>2
    <3>2. Append(pushed, x) \in Seq(Items)
      BY <3>1
    <3> QED
      BY <2>1, <3>1, <3>2
  <2>5. /\ step' \in [Threads -> {"working", "worked", "locked", "waiting",
                                  "looking", "pushing", "wanting", "having",
                                  "popping"}]
        /\ item' \in [Threads -> Items \cup {NoItem}]
    BY <2>1, <2>2, <2>3
  <2>6. ASSUME NEW u \in Threads
        PROVE  /\ lock' = u <=> step'[u] \in Inside
               /\ other' = u <=> step'[u] \in {"locked", "having"}
               /\ item'[u] = NoItem <=> step'[u] \notin Inside \ {"looking"}
    BY <2>1, <2>2, <2>3
  <2> QED
    BY <2>3, <2>4, <2>5, <2>6
<1>10. ASSUME NEW t \in Threads, RunJob(t) PROVE TypeOK'
  BY <1>10 DEF RunJob, queueVars, historyVars
<1>11. ASSUME NEW t \in Threads, JobReserve(t) PROVE TypeOK'
  BY <1>11 DEF JobReserve, Reserve, DueTick, Items, historyVars
<1>12. ASSUME NEW t \in Threads, JobWait(t) PROVE TypeOK'
  BY <1>12 DEF JobWait, queueVars, historyVars
<1>13. ASSUME NEW t \in Threads, JobLock(t) PROVE TypeOK'
  BY <1>13 DEF JobLock, queueVars, historyVars
<1>14. ASSUME NEW t \in Threads, JobUnlock(t) PROVE TypeOK'
  BY <1>14 DEF JobUnlock, queueVars, historyVars
<1>15. ASSUME NEW t \in Threads, Pop(t) PROVE TypeOK'
  <2>1. /\ step[t] = "popping"
        /\ timers' \subseteq timers
        /\ item' = [item EXCEPT ![t] = NoItem]
        /\ UNCHANGED <<now, other, held, reserved, pushed, dropped>>
    BY <1>15 DEF Pop, historyVars
  <2>2. CASE Return(t)
    BY <2>1, <2>2 DEF Return
  <2>3. CASE step' = [step EXCEPT ![t] = "looking"]
          /\ UNCHANGED <<lock, start>>
    BY <2>1, <2>3
  <2> QED
    BY <1>15, <2>2, <2>3 DEF Pop
<1>16. CASE UNCHANGED vars
  BY <1>16 DEF vars, queueVars, historyVars
<1> QED
  BY <1>1, <1>2, <1>3, <1>4, <1>5, <1>6, <1>7, <1>8, <1>9, <1>10, <1>11,
     <1>12, <1>13, <1>14, <1>15, <1>16 DEF Next, Round

-----------------------------------------------------------------------------
(* A thread that has an item holds the lock, so that there is one at most, *)
(* and the others have none.                                               *)
LEMMA OneWorker ==
  ASSUME TypeOK, NEW t \in Threads, step[t] \in Inside,
         NEW u \in Threads, u # t
  PROVE  /\ step[u] \notin Inside
         /\ item[u] = NoItem
BY DEF TypeOK

(* What an item that has been taken is, and what the item of nobody is.    *)
LEMMA ItemsHaveJobs ==
  ASSUME TypeOK
  PROVE  /\ \A x \in timers \cup dropped : x \in Items
         /\ \A i \in DOMAIN pushed : pushed[i] \in Items
         /\ \A x \in Items : x.job \in Jobs /\ x.tick \in Int
         /\ NoItem.job \notin Jobs
<1>1. \A x \in Items : x.job \in Jobs /\ x.tick \in Int
  BY TimerAssumption DEF Items, Ticks
<1>2. NoItem.job \notin Jobs
  BY TimerAssumption DEF NoItem
<1> QED
  BY <1>1, <1>2 DEF TypeOK

(* Steps that leave the timers alone: the clock, the lock and the threads  *)
(* go on, but nobody takes or gives back an item.                          *)
LEMMA QuietStep ==
  ASSUME IInv, TypeOK', now <= now',
         UNCHANGED <<timers, reserved, pushed, dropped, item>>,
         \A u \in Threads :
           /\ start'[u] <= now'
           /\ step'[u] \in Busy => step[u] \in Busy /\ start'[u] = start[u]
  PROVE  IInv'
<1> USE DEF IInv
<1>1. WorkersOK'
  BY DEF WorkersOK, IsTop, Pushed, Dropped
<1>2. JobsOnce'
  BY DEF JobsOnce
<1>3. TimersAreKept'
  BY DEF TimersAreKept, Reserved, Pushed, Dropped
<1>4. InTickOrder'
  <2>1. \A i \in DOMAIN pushed : pushed[i].tick < now'
    BY ItemsHaveJobs DEF InTickOrder, TypeOK, Ticks
  <2> QED
    BY <2>1 DEF InTickOrder
<1> QED
  BY <1>1, <1>2, <1>3, <1>4

(* Reserve: the new item is of a job that none was of before, and is due   *)
(* no earlier than now, so that what a thread has taken stays at the top.  *)
LEMMA ReserveStep ==
  ASSUME IInv, TypeOK', NEW t \in Threads, Reserve(t),
         UNCHANGED <<now, start, item, pushed, dropped>>,
         \A u \in Threads : step'[u] \in Busy => step[u] \in Busy
  PROVE  IInv'
<1> USE DEF IInv
<1>1. PICK j \in Jobs \ reserved, m \in BOOLEAN, after \in Ticks :
        /\ timers' = timers \cup {[tick |-> now + after, job |-> j,
                                   member |-> m]}
        /\ reserved' = reserved \cup {j}
  BY DEF Reserve, DueTick
<1> DEFINE y == [tick |-> now + after, job |-> j, member |-> m]
<1>2. /\ timers' = timers \cup {y} /\ y.job = j /\ y.tick >= now
      /\ y.tick \in Int
  BY <1>1, TimerAssumption DEF TypeOK, Ticks
<1> HIDE DEF y
<1>3. WorkersOK'
  <2>1. ASSUME NEW u \in Threads, step[u] \in Busy
        PROVE  IsTop(item[u])'
    <3>1. item[u] \in timers /\ item[u].tick < start[u] /\ start[u] <= now
      BY <2>1 DEF WorkersOK, IsTop
    <3>2. item[u].tick <= y.tick
      BY <1>2, <3>1, ItemsHaveJobs, TimerAssumption DEF TypeOK, Ticks
    <3>3. \A x \in timers : item[u].tick <= x.tick
      BY <2>1 DEF WorkersOK, IsTop
    <3> QED
      BY <1>2, <3>1, <3>2, <3>3 DEF IsTop
  <2> QED
    BY <2>1 DEF WorkersOK, Pushed, Dropped
<1>4. JobsOnce'
  BY <1>1, <1>2 DEF JobsOnce
<1>5. TimersAreKept'
  <2>1. ~Reserved(j) /\ ~Pushed(j) /\ ~Dropped(j)
    BY DEF JobsOnce, Reserved, Pushed, Dropped
  <2>2. \A k \in reserved : Reserved(k)' <=> Reserved(k)
    BY <1>2 DEF Reserved
  <2>3. Reserved(j)'
    BY <1>2 DEF Reserved
  <2>4. \A k : (Pushed(k)' <=> Pushed(k)) /\ (Dropped(k)' <=> Dropped(k))
    BY DEF Pushed, Dropped
  <2> QED
    BY <1>1, <2>1, <2>2, <2>3, <2>4 DEF TimersAreKept
<1>6. InTickOrder'
  <2>1. ASSUME NEW i \in DOMAIN pushed PROVE pushed[i].tick <= y.tick
    BY <1>2, ItemsHaveJobs, TimerAssumption DEF InTickOrder, TypeOK, Ticks
  <2> QED
    BY <1>2, <2>1 DEF InTickOrder
<1> QED
  BY <1>3, <1>4, <1>5, <1>6

(* TakeTop: nobody has taken the item before, and it is due no earlier     *)
(* than those that have been pushed.                                       *)
LEMMA TakeStep ==
  ASSUME IInv, TypeOK', NEW t \in Threads, TakeTop(t)
  PROVE  IInv'
<1> USE DEF IInv
<1>1. PICK x \in timers :
        /\ IsTop(x) /\ x.tick < start[t]
        /\ item' = [item EXCEPT ![t] = x]
        /\ \/ pushed' = Append(pushed, x) /\ UNCHANGED dropped
           \/ dropped' = dropped \cup {x} /\ UNCHANGED pushed
  BY DEF TakeTop, CompareTick
<1>2. /\ step[t] = "looking"
      /\ \A u \in Threads : u # t => step'[u] = step[u]
      /\ UNCHANGED <<now, lock, other, start, timers, held, reserved>>
  BY DEF TakeTop, GoOn, queueVars, TypeOK
<1>3. /\ item'[t] = x
      /\ \A u \in Threads : u # t
           => item'[u] = item[u] /\ step[u] \notin Inside
  BY <1>1, <1>2, OneWorker DEF TypeOK, Inside
<1>4. \A u \in Threads : item[u].job \notin Jobs
  <2>1. item[t] = NoItem
    BY <1>2 DEF TypeOK
  <2> QED
    BY <1>2, <2>1, OneWorker, ItemsHaveJobs DEF Inside
<1>5. /\ x \in Items /\ x.job \in Jobs /\ x.job \in reserved
      /\ ~Pushed(x.job) /\ ~Dropped(x.job)
  <2>1. x \in Items /\ x.job \in Jobs /\ x.job \in reserved
    BY ItemsHaveJobs DEF JobsOnce
  <2>2. Reserved(x.job)
    BY DEF Reserved
  <2> QED
    BY <1>4, <2>1, <2>2 DEF TimersAreKept
<1>6. \A k : /\ Pushed(k) => Pushed(k)'
             /\ Dropped(k) => Dropped(k)'
             /\ Pushed(k)' \/ Dropped(k)'
                  => Pushed(k) \/ Dropped(k) \/ k = x.job
  <2>1. CASE pushed' = Append(pushed, x) /\ UNCHANGED dropped
    <3>1. /\ DOMAIN pushed' = 1 .. Len(pushed) + 1 /\ Len(pushed) \in Nat
          /\ \A i \in 1 .. Len(pushed) : pushed'[i] = pushed[i]
          /\ pushed'[Len(pushed) + 1] = x /\ DOMAIN pushed = 1 .. Len(pushed)
      BY <2>1, <1>5 DEF TypeOK
    <3>2. \A i \in DOMAIN pushed' : i \in DOMAIN pushed \/ i = Len(pushed) + 1
      BY <3>1
    <3>3. \A i \in DOMAIN pushed : i \in DOMAIN pushed'
      BY <3>1
    <3>4. \A k : /\ Pushed(k) => Pushed(k)'
                 /\ Pushed(k)' => Pushed(k) \/ k = x.job
      BY <3>1, <3>2, <3>3 DEF Pushed
    <3> QED
      BY <2>1, <3>4 DEF Dropped
  <2>2. CASE dropped' = dropped \cup {x} /\ UNCHANGED pushed
    BY <2>2 DEF Pushed, Dropped
  <2> QED
    BY <1>1, <2>1, <2>2
<1>7. Pushed(x.job)' \/ Dropped(x.job)'
  <2>1. CASE pushed' = Append(pushed, x)
    <3>1. Len(pushed) + 1 \in DOMAIN pushed' /\ pushed'[Len(pushed) + 1] = x
      BY <2>1, <1>5 DEF TypeOK
    <3> QED
      BY <3>1 DEF Pushed
  <2>2. CASE dropped' = dropped \cup {x}
    BY <2>2 DEF Dropped
  <2> QED
    BY <1>1, <2>1, <2>2
<1>8. WorkersOK'
  <2>1. ASSUME NEW u \in Threads, u # t, step'[u] \in Busy PROVE FALSE
    BY <1>2, <1>3, <2>1 DEF Busy
  <2>2. IsTop(x)'
    BY <1>1, <1>2 DEF IsTop
  <2> QED
    BY <1>1, <1>2, <1>3, <1>7, <2>1, <2>2 DEF WorkersOK
<1>9. JobsOnce'
  <2>1. CASE pushed' = Append(pushed, x) /\ UNCHANGED dropped
    BY <2>1, <1>2, <1>5 DEF JobsOnce, TypeOK
  <2>2. CASE dropped' = dropped \cup {x} /\ UNCHANGED pushed
    BY <2>2, <1>2, <1>5 DEF JobsOnce
  <2> QED
    BY <1>1, <2>1, <2>2
<1>10. TimersAreKept'
  <2>1. \A k \in reserved : Reserved(k)' \/ Pushed(k)' \/ Dropped(k)'
    BY <1>2, <1>6 DEF TimersAreKept, Reserved
  <2>2. ASSUME NEW k \in reserved, Reserved(k)', Pushed(k)' \/ Dropped(k)'
        PROVE  item'[t].job = k
    <3>1. CASE k = x.job
      BY <3>1, <1>3
    <3>2. CASE k # x.job
      <4>1. Reserved(k) /\ (Pushed(k) \/ Dropped(k))
        BY <2>2, <3>2, <1>2, <1>6 DEF Reserved
      <4>2. k \in Jobs
        BY DEF TypeOK
      <4> QED
        BY <4>1, <4>2, <1>4 DEF TimersAreKept
    <3> QED
      BY <3>1, <3>2
  <2>3. \A i, k \in DOMAIN pushed' : pushed'[i].job = pushed'[k].job => i = k
    <3>1. CASE pushed' = Append(pushed, x)
      BY <3>1, <1>5 DEF TimersAreKept, Pushed, TypeOK
    <3>2. CASE UNCHANGED pushed
      BY <3>2 DEF TimersAreKept
    <3> QED
      BY <1>1, <3>1, <3>2
  <2> QED
    BY <1>2, <2>1, <2>2, <2>3 DEF TimersAreKept
<1>11. InTickOrder'
  <2>1. CASE pushed' = Append(pushed, x)
    <3>1. x.tick < now
      BY <1>1, <1>5, ItemsHaveJobs DEF WorkersOK, TypeOK, Ticks
    <3>2. \A y \in timers : x.tick <= y.tick
      BY <1>1 DEF IsTop
    <3>3. \A i \in DOMAIN pushed : pushed[i].tick <= x.tick
      BY DEF InTickOrder
    <3>4. x.tick <= x.tick
      BY <1>5, ItemsHaveJobs
    <3>5. /\ DOMAIN pushed' = 1 .. Len(pushed) + 1 /\ Len(pushed) \in Nat
          /\ \A i \in 1 .. Len(pushed) : pushed'[i] = pushed[i]
          /\ pushed'[Len(pushed) + 1] = x /\ DOMAIN pushed = 1 .. Len(pushed)
      BY <2>1, <1>5 DEF TypeOK
    <3> QED
      BY <1>2, <3>1, <3>2, <3>3, <3>4, <3>5 DEF InTickOrder
  <2>2. CASE UNCHANGED pushed
    BY <2>2, <1>2 DEF InTickOrder
  <2> QED
    BY <1>1, <2>1, <2>2
<1> QED
  BY <1>8, <1>9, <1>10, <1>11

(* Pop: what is at the top is what the thread has pushed or dropped.       *)
LEMMA PopStep ==
  ASSUME IInv, TypeOK', NEW t \in Threads, Pop(t)
  PROVE  IInv'
<1> USE DEF IInv
<1> DEFINE x == item[t]
<1>1. /\ step[t] = "popping" /\ step[t] \in Busy /\ step[t] \in Inside
      /\ IsTop(x) /\ (Pushed(x.job) \/ Dropped(x.job))
  BY DEF Pop, WorkersOK, Busy, Inside
<1>2. /\ timers' = timers \ {x}
      /\ item' = [item EXCEPT ![t] = NoItem]
      /\ UNCHANGED <<now, reserved, pushed, dropped>>
  BY <1>1 DEF Pop, IsPopped, historyVars
<1>3. \A u \in Threads : step'[u] \notin Busy /\ start'[u] <= now
  <2>1. \A u \in Threads : u # t => step'[u] = step[u]
    BY DEF Pop, Return, GoOn, TypeOK
  <2>2. step'[t] \in {"working", "looking"}
    BY DEF Pop, Return, GoOn, TypeOK
  <2>3. \A u \in Threads : start'[u] \in {start[u], 0}
    BY DEF Pop, Return, TypeOK
  <2>4. \A u \in Threads : 0 <= now /\ start[u] <= now
    BY TimerAssumption DEF WorkersOK, TypeOK, Ticks
  <2> QED
    BY <1>1, <2>1, <2>2, <2>3, <2>4, OneWorker DEF Busy, Inside
<1>4. WorkersOK'
  BY <1>2, <1>3 DEF WorkersOK
<1>5. JobsOnce'
  BY <1>2 DEF JobsOnce
<1>6. TimersAreKept'
  <2>1. x \in timers /\ x.job \in Jobs
    BY <1>1, ItemsHaveJobs DEF IsTop
  <2>2. \A k : (Pushed(k)' <=> Pushed(k)) /\ (Dropped(k)' <=> Dropped(k))
    BY <1>2 DEF Pushed, Dropped
  <2>3. \A k : Reserved(k)' <=> Reserved(k) /\ k # x.job
    BY <1>2, <2>1 DEF Reserved, JobsOnce
  <2>4. ASSUME NEW k \in reserved, Reserved(k), Pushed(k) \/ Dropped(k)
        PROVE  k = x.job
    <3>1. PICK u \in Threads : item[u].job = k
      BY <2>4 DEF TimersAreKept
    <3>2. k \in Jobs
      BY DEF TypeOK
    <3> QED
      BY <1>1, <3>1, <3>2, OneWorker, ItemsHaveJobs
  <2> QED
    BY <1>1, <1>2, <2>2, <2>3, <2>4 DEF TimersAreKept
<1>7. InTickOrder'
  BY <1>2 DEF InTickOrder
<1> QED
  BY <1>4, <1>5, <1>6, <1>7

-----------------------------------------------------------------------------
(* Before any worker has come round the invariant holds.                   *)
LEMMA InitIInv == Init => IInv
<1> SUFFICES ASSUME Init PROVE IInv
  OBVIOUS
<1>1. TypeOK
  BY TimerAssumption DEF Init, TypeOK, Ticks, Inside
<1>2. WorkersOK /\ JobsOnce /\ InTickOrder
  BY DEF Init, WorkersOK, JobsOnce, InTickOrder, Busy, Inside
<1>3. TimersAreKept
  BY <1>1 DEF Init, TimersAreKept
<1> QED
  BY <1>1, <1>2, <1>3 DEF IInv

(* No step of a worker, of the clock or of the owner of the queue breaks   *)
(* it.                                                                     *)
LEMMA NextIInv == IInv /\ [Next]_vars => IInv'
<1> SUFFICES ASSUME IInv, [Next]_vars PROVE IInv'
  OBVIOUS
<1>1. TypeOK /\ TypeOK'
  BY TypeNext DEF IInv
<1>2. now \in Int /\ (\A u \in Threads : start[u] \in Int /\ start[u] <= now)
  BY <1>1 DEF IInv, TypeOK, Ticks, WorkersOK
<1>3. CASE Tick
  BY <1>1, <1>2, <1>3, QuietStep DEF Tick, queueVars, historyVars
<1>4. CASE Release
  BY <1>1, <1>2, <1>4, QuietStep DEF Release, historyVars
<1>5. ASSUME NEW t \in Threads, WorkReserve(t) PROVE IInv'
  BY <1>1, <1>5, ReserveStep DEF WorkReserve, GoOn, TypeOK, historyVars, Busy
<1>6. ASSUME NEW t \in Threads, WorkLock(t) \/ WorkUnlock(t) PROVE IInv'
  BY <1>1, <1>2, <1>6, QuietStep
     DEF WorkLock, WorkUnlock, GoOn, TypeOK, queueVars, historyVars, Busy,
       Inside
<1>7. ASSUME NEW t \in Threads, DoGlobalTimer(t) PROVE IInv'
  BY <1>1, <1>2, <1>7, QuietStep
     DEF DoGlobalTimer, GoOn, TypeOK, queueVars, historyVars, Busy, Inside
<1>8. ASSUME NEW t \in Threads, Acquire(t) PROVE IInv'
  BY <1>1, <1>2, <1>8, QuietStep
     DEF Acquire, GoOn, TypeOK, queueVars, historyVars, Busy, Inside
<1>9. ASSUME NEW t \in Threads, FindNothing(t) PROVE IInv'
  <2>1. 0 <= now
    BY <1>1, TimerAssumption DEF TypeOK, Ticks
  <2> QED
    BY <1>1, <1>2, <1>9, <2>1, QuietStep
       DEF FindNothing, Return, GoOn, TypeOK, queueVars, historyVars, Busy
<1>10. ASSUME NEW t \in Threads, TakeTop(t) PROVE IInv'
  BY <1>1, <1>10, TakeStep
<1>11. ASSUME NEW t \in Threads, RunJob(t) \/ JobWait(t) PROVE IInv'
  BY <1>1, <1>2, <1>11, QuietStep
     DEF RunJob, JobWait, GoOn, TypeOK, queueVars, historyVars, Busy, Inside
<1>12. ASSUME NEW t \in Threads, JobReserve(t) PROVE IInv'
  BY <1>1, <1>12, ReserveStep
     DEF JobReserve, GoOn, TypeOK, historyVars, Busy, Inside
<1>13. ASSUME NEW t \in Threads, JobLock(t) \/ JobUnlock(t) PROVE IInv'
  BY <1>1, <1>2, <1>13, QuietStep
     DEF JobLock, JobUnlock, GoOn, TypeOK, queueVars, historyVars, Busy, Inside
<1>14. ASSUME NEW t \in Threads, Pop(t) PROVE IInv'
  BY <1>1, <1>14, PopStep
<1>15. CASE UNCHANGED vars
  BY <1>1, <1>2, <1>15, QuietStep DEF vars, queueVars, historyVars
<1> QED
  BY <1>3, <1>4, <1>5, <1>6, <1>7, <1>8, <1>9, <1>10, <1>11, <1>12, <1>13,
     <1>14, <1>15 DEF Next, Round

-----------------------------------------------------------------------------
(* The inductive invariant of the timer holds, for any threads and jobs.   *)
THEOREM TimerInvariantHolds == Spec => []IInv
<1> QED
  BY InitIInv, NextIInv, PTL DEF Spec

(* No job given to DoTimer is lost or doubled, although Distribute pops    *)
(* after the job has run and may have reserved.                            *)
THEOREM TimersStayKept == Spec => []TimersAreKept
<1>1. IInv => TimersAreKept
  BY DEF IInv
<1> QED
  BY <1>1, TimerInvariantHolds, PTL

(* Distribute pushes jobs in the order of their ticks and none too early.  *)
THEOREM JobsComeInTickOrder == Spec => []InTickOrder
<1>1. IInv => InTickOrder
  BY DEF IInv
<1> QED
  BY <1>1, TimerInvariantHolds, PTL
=============================================================================
