------------------------------ MODULE JobTimer ------------------------------
(***************************************************************************)
(* The timer every JobQueue may leave jobs with (DoTimer): a priority      *)
(* queue under one lock, which each worker looks through at the end of     *)
(* each round of its loop.  A worker that finds a job due pushes it to its *)
(* queue while it holds the timer's lock, and the push may run the job on  *)
(* the spot; the job may reserve again, and may wait for another lock.     *)
(* One queue owns the jobs; jobs are told apart by their names.            *)
(***************************************************************************)
EXTENDS Integers, Sequences, FiniteSets

CONSTANTS
  Threads,   \* worker threads
  Jobs,      \* jobs given to DoTimer, each of them once
  MaxTick,   \* bound: the clock stops here
  WorkTick,  \* WORK_TICK, the time slice of a Distribute
  None

ASSUME TimerAssumption ==
  /\ MaxTick \in Nat /\ WorkTick \in Nat
  /\ None \notin Threads \cup Jobs

Ticks == 0 .. MaxTick
Items == [tick : Ticks, job : Jobs, member : BOOLEAN]   \* TimeItem

VARIABLES
  now,       \* GetTickCount64
  timers,    \* _timers
  lock,      \* the thread that holds the timer's lock, or None
  other,     \* the thread that holds a lock of somebody else, or None
  step,      \* where thread t is in its round
  start,     \* the startTick of its Distribute
  item,      \* the TimeItem it has copied from the top
  held,      \* somebody else than the timer keeps the queue alive
  reserved,  \* jobs that DoTimer has been called for
  pushed,    \* history: items pushed to the queue, in their order
  dropped    \* history: items whose queue was gone

queueVars == <<timers, held, reserved>>
historyVars == <<pushed, dropped>>
vars == <<now, lock, other, step, start, item, queueVars, historyVars>>

NoItem == [job |-> None]

Init ==
  /\ now = 0
  /\ timers = {}
  /\ lock = None
  /\ other = None
  /\ step = [t \in Threads |-> "working"]
  /\ start = [t \in Threads |-> 0]
  /\ item = [t \in Threads |-> NoItem]
  /\ held = TRUE
  /\ reserved = {}
  /\ pushed = <<>>
  /\ dropped = {}

-----------------------------------------------------------------------------
GoOn(t, next) == step' = [step EXCEPT ![t] = next]

(* owner.lock(): the queue lives as long as somebody holds it.  A job made *)
(* from a member function holds its queue, one made from a callback does   *)
(* not.                                                                    *)
QueueLives == held \/ \E x \in timers : x.member

(* The tick a job is due at.  (Variant: counted from nothing.)             *)
TickOnly(after) == after
DueTick(after) == now + after

(* Reserve, under the lock.  Bound: jobs due before the clock stops.       *)
Reserve(t) ==
  /\ lock \in {None, t}
  /\ \E j \in Jobs \ reserved, m \in BOOLEAN, after \in Ticks :
       /\ DueTick(after) < MaxTick
       /\ timers' = timers \cup {[tick |-> DueTick(after), job |-> j,
                                  member |-> m]}
       /\ reserved' = reserved \cup {j}

-----------------------------------------------------------------------------
(* The rest of a round: a packet's handler or a job reserves, or takes     *)
(* some lock that is let go of before anything else is called, as the one  *)
(* of Session::Send.                                                       *)
WorkReserve(t) ==
  /\ step[t] = "working"
  /\ held
  /\ Reserve(t)
  /\ GoOn(t, "worked")
  /\ UNCHANGED <<now, lock, other, start, item, held, historyVars>>

WorkLock(t) ==
  /\ step[t] = "working"
  /\ other = None
  /\ other' = t
  /\ GoOn(t, "locked")
  /\ UNCHANGED <<now, lock, start, item, queueVars, historyVars>>

WorkUnlock(t) ==
  /\ step[t] = "locked"
  /\ other' = None
  /\ GoOn(t, "worked")
  /\ UNCHANGED <<now, lock, start, item, queueVars, historyVars>>

(* The queue is let go of, as a room that the RoomManager deletes.         *)
Release ==
  /\ held
  /\ held' = FALSE
  /\ UNCHANGED <<now, timers, reserved, lock, other, step, start, item,
                 historyVars>>

Tick ==
  /\ now < MaxTick
  /\ now' = now + 1
  /\ UNCHANGED <<lock, other, step, start, item, queueVars, historyVars>>

-----------------------------------------------------------------------------
(* DoGlobalTimer reads the clock before Distribute waits for the lock.     *)
DoGlobalTimer(t) ==
  /\ step[t] \in {"working", "worked"}
  /\ start' = [start EXCEPT ![t] = now]
  /\ GoOn(t, "waiting")
  /\ UNCHANGED <<now, lock, other, item, queueVars, historyVars>>

Acquire(t) ==
  /\ step[t] = "waiting"
  /\ lock = None
  /\ lock' = t
  /\ GoOn(t, "looking")
  /\ UNCHANGED <<now, other, start, item, queueVars, historyVars>>

(* The top of the heap: none of the others is due before.  (Variant: the   *)
(* order of TimeItem is turned round.)                                     *)
IsBottom(x) == x \in timers /\ \A y \in timers : y.tick <= x.tick
IsTop(x) == x \in timers /\ \A y \in timers : x.tick <= y.tick

(* compareTick.  (Variant: due or not.)                                    *)
AnyTick(x, tick) == TRUE
CompareTick(x, tick) == x.tick < tick

(* The lock is let go of at the end of Distribute.  (Variant: it is kept.) *)
ReturnLocked(t) ==
  /\ UNCHANGED lock
  /\ start' = [start EXCEPT ![t] = 0]
  /\ GoOn(t, "working")

Return(t) ==
  /\ lock' = None
  /\ start' = [start EXCEPT ![t] = 0]
  /\ GoOn(t, "working")

(* Nothing is left, or nothing that is due.                                *)
FindNothing(t) ==
  /\ step[t] = "looking"
  /\ \/ timers = {}
     \/ \E x \in timers : IsTop(x) /\ ~CompareTick(x, start[t])
  /\ Return(t)
  /\ UNCHANGED <<now, other, item, queueVars, historyVars>>

(* The top is due: its queue is locked and is given the job, or is gone.   *)
TakeTop(t) ==
  /\ step[t] = "looking"
  /\ \E x \in timers :
       /\ IsTop(x)
       /\ CompareTick(x, start[t])
       /\ item' = [item EXCEPT ![t] = x]
       /\ IF QueueLives
          THEN pushed' = Append(pushed, x) /\ GoOn(t, "pushing")
                 /\ UNCHANGED dropped
          ELSE dropped' = dropped \cup {x} /\ GoOn(t, "popping")
                 /\ UNCHANGED pushed
  /\ UNCHANGED <<now, lock, other, start, queueVars>>

(* Push runs the job here, or leaves it to the thread that is running the  *)
(* queue.  The job may reserve, and may wait for another lock.             *)
RunJob(t) ==
  /\ step[t] = "pushing"
  /\ GoOn(t, "popping")
  /\ UNCHANGED <<now, lock, other, start, item, queueVars, historyVars>>

JobReserve(t) ==
  /\ step[t] = "pushing"
  /\ Reserve(t)
  /\ GoOn(t, "popping")
  /\ UNCHANGED <<now, lock, other, start, item, held, historyVars>>

JobWait(t) ==
  /\ step[t] = "pushing"
  /\ GoOn(t, "wanting")
  /\ UNCHANGED <<now, lock, other, start, item, queueVars, historyVars>>

JobLock(t) ==
  /\ step[t] = "wanting"
  /\ other = None
  /\ other' = t
  /\ GoOn(t, "having")
  /\ UNCHANGED <<now, lock, start, item, queueVars, historyVars>>

JobUnlock(t) ==
  /\ step[t] = "having"
  /\ other' = None
  /\ GoOn(t, "popping")
  /\ UNCHANGED <<now, lock, start, item, queueVars, historyVars>>

(* _timers.pop() takes what is at the top by now: what was there before,   *)
(* unless something that is due earlier has come in.                       *)
IsPopped(x, t) == IF IsTop(item[t]) THEN x = item[t] ELSE IsTop(x)

(* The end of the slice is counted from the tick the worker came with.     *)
Pop(t) ==
  /\ step[t] = "popping"
  /\ \E x \in timers : IsPopped(x, t) /\ timers' = timers \ {x}
  /\ item' = [item EXCEPT ![t] = NoItem]
  /\ IF now - start[t] > WorkTick
     THEN Return(t)
     ELSE GoOn(t, "looking") /\ UNCHANGED <<lock, start>>
  /\ UNCHANGED <<now, other, held, reserved, historyVars>>

-----------------------------------------------------------------------------
(* Steps of a round that a worker has to take.                             *)
Round(t) ==
  \/ DoGlobalTimer(t) \/ WorkUnlock(t)
  \/ Acquire(t) \/ FindNothing(t) \/ TakeTop(t)
  \/ RunJob(t) \/ JobLock(t) \/ JobUnlock(t) \/ Pop(t)

Next ==
  \/ Tick \/ Release
  \/ \E t \in Threads : Round(t) \/ WorkReserve(t) \/ WorkLock(t)
                          \/ JobReserve(t) \/ JobWait(t)

Spec == Init /\ [][Next]_vars

(* The clock runs, and so do the workers, in an endless loop.              *)
Fairness == WF_vars(Tick) /\ \A t \in Threads : WF_vars(Round(t))

FairSpec == Spec /\ Fairness

-----------------------------------------------------------------------------
Pushed(j) == \E i \in DOMAIN pushed : pushed[i].job = j
Dropped(j) == \E x \in dropped : x.job = j
Reserved(j) == \E x \in timers : x.job = j

Inside == {"looking", "pushing", "wanting", "having", "popping"}

(* Every variable has its type, and the lock is held by the one thread     *)
(* that is inside Distribute, also while it runs a job.                    *)
TypeOK ==
  /\ now \in Ticks
  /\ timers \subseteq Items
  /\ lock \in Threads \cup {None} /\ other \in Threads \cup {None}
  /\ step \in [Threads -> {"working", "worked", "locked", "waiting", "looking",
                           "pushing", "wanting", "having", "popping"}]
  /\ start \in [Threads -> Ticks]
  /\ item \in [Threads -> Items \cup {NoItem}]
  /\ held \in BOOLEAN
  /\ reserved \subseteq Jobs
  /\ pushed \in Seq(Items)
  /\ dropped \subseteq Items
  /\ \A t \in Threads :
       /\ lock = t <=> step[t] \in Inside
       /\ other = t <=> step[t] \in {"locked", "having"}
       /\ item[t] = NoItem <=> step[t] \notin Inside \ {"looking"}

(* A job given to DoTimer is in _timers until it is pushed or its queue is *)
(* found gone, and is pushed once: what Distribute pops is what it has     *)
(* pushed, although the job has run in between and may have reserved.      *)
TimersAreKept ==
  /\ TypeOK
  /\ \A j \in reserved : Reserved(j) \/ Pushed(j) \/ Dropped(j)
  /\ \A j \in reserved :
       Reserved(j) /\ (Pushed(j) \/ Dropped(j)) =>
         \E t \in Threads : item[t].job = j
  /\ \A i, k \in DOMAIN pushed : pushed[i].job = pushed[k].job => i = k

(* Jobs come in the order of the ticks they are due at and never before,   *)
(* although workers come with start ticks that are older than what others  *)
(* have pushed meanwhile, and jobs are reserved all the time.              *)
InTickOrder ==
  /\ \A i, k \in DOMAIN pushed : i < k => pushed[i].tick <= pushed[k].tick
  /\ \A i \in DOMAIN pushed :
       /\ pushed[i].tick < now
       /\ \A x \in timers : pushed[i].tick <= x.tick

(* Every job is pushed or dropped in the end: no worker waits for ever     *)
(* behind the one that runs a job under the timer's lock.                  *)
EveryTimerEnds ==
  \A j \in Jobs : Reserved(j) ~> Pushed(j) \/ Dropped(j)
=============================================================================
