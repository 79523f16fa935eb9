-------------------------- MODULE DeadLockProfiler --------------------------
(***************************************************************************)
(* The detector of debug builds.  Before a thread waits for a lock,        *)
(* WriteLock tells DeadLockProfiler the name of the lock; the profiler     *)
(* remembers which name was asked for while which one was on top of the    *)
(* thread's stack, and searches the graph of these pairs depth first each  *)
(* time it grows, under a mutex of its own that threads with a lock to     *)
(* push or to pop have to wait for.  A name is the type of the object the  *)
(* lock is a member of, so that many locks share one.  Locks are write     *)
(* locks, which the thread that has one may take again (module Lock).      *)
(***************************************************************************)
EXTENDS Integers, Sequences, FiniteSets, SequencesExt

CONSTANTS
  Threads,
  Locks,
  NameOf,     \* typeid(this).name() of the owner of each lock
  MaxDepth,   \* bound: locks on the stack of a thread
  MaxStacked  \* bound: locks on all the stacks

ASSUME NamesAssumption == DOMAIN NameOf = Locks
ASSUME DepthAssumption == MaxDepth \in Nat /\ MaxStacked \in Nat

Names == {NameOf[l] : l \in Locks}

VARIABLES
  names,      \* _idToName: a name's place here is its id
  history,    \* _lockHistory, as a set of pairs of ids
  stack,      \* LLockStack of each thread, with the lock behind each id
  waiting,    \* whether thread t has pushed the top of its stack only
  pushing,    \* <<t, l>>: thread t is in CheckCycle because of lock l
  root,       \* lockId, the loop of CheckCycle
  order,      \* _discoveredOrder; zero: not discovered
  count,      \* _discoveredCount
  finished,   \* _finished
  parent,     \* _parent
  calls,      \* the calls of Dfs: id and what the loop has left to do
  trail,      \* the ids printed since a circle was seen, the last one first
  reported    \* history: the circles that have been printed

searchVars == <<root, order, count, finished, parent, calls, trail>>
vars == <<names, history, stack, waiting, pushing, searchVars, reported>>

Init ==
  /\ names = <<>>
  /\ history = {}
  /\ stack = [t \in Threads |-> <<>>]
  /\ waiting = [t \in Threads |-> FALSE]
  /\ pushing = {}
  /\ root = 1 /\ order = <<>> /\ count = 0 /\ finished = {}
  /\ parent = <<>> /\ calls = <<>> /\ trail = <<>>
  /\ reported = {}

-----------------------------------------------------------------------------
(* The mutex is held as long as a search goes on.                          *)
MutexIsFree == pushing = {}

(* A name that is new gets the next id.                                    *)
Named(name) == IF name \in ToSet(names) THEN names ELSE Append(names, name)

Id(ids, l) == CHOOSE i \in DOMAIN ids : ids[i] = NameOf[l]

(* The pair goes to those that are there already.                          *)
Recorded(edge) == history \cup {edge}

NextSet(edges, n, here) == {there \in 1 .. n : <<here, there>> \in edges}

Stacked == Cardinality({p \in Threads \X (1 .. MaxDepth) :
                          p[2] <= Len(stack[p[1]])})

(* LLockStack.push: from now on the thread tries to get the lock.          *)
Pushed(t, l) ==
  /\ stack' = [stack EXCEPT ![t] = Append(@, l)]
  /\ waiting' = [waiting EXCEPT ![t] = TRUE]

(* PushLock.  A pair of different names that is new is recorded, and sends *)
(* the thread into CheckCycle.                                             *)
PushLock(t, l) ==
  /\ MutexIsFree
  /\ ~waiting[t]
  /\ Len(stack[t]) < MaxDepth
  /\ Stacked < MaxStacked
  /\ names' = Named(NameOf[l])
  /\ LET edge == <<Id(names', Last(stack[t])), Id(names', l)>>
     IN  IF stack[t] # <<>> /\ edge[1] # edge[2] /\ edge \notin history
         THEN /\ history' = Recorded(edge)
              /\ pushing' = {<<t, l>>}
              /\ order' = [i \in DOMAIN names' |-> 0]
              /\ parent' = [i \in DOMAIN names' |-> 0]
              /\ UNCHANGED <<stack, waiting>>
         ELSE /\ Pushed(t, l)
              /\ UNCHANGED <<history, pushing, order, parent>>
  /\ UNCHANGED <<root, count, finished, calls, trail, reported>>

-----------------------------------------------------------------------------
(* Dfs is called for an id that has not been discovered.                   *)
Discover(id) ==
  /\ order' = [order EXCEPT ![id] = count + 1]
  /\ count' = count + 1

Call(id) == [here |-> id, left |-> NextSet(history, Len(names), id)]

(* CheckCycle begins a search at every id.  (Variant: at the first only.)  *)
FirstRoot == 1
LastRoot == Len(names)

NextRoot ==
  /\ pushing # {} /\ calls = <<>> /\ root <= LastRoot
  /\ root' = root + 1
  /\ IF order[root] = 0
     THEN Discover(root) /\ calls' = <<Call(root)>>
     ELSE UNCHANGED <<order, count, calls>>
  /\ UNCHANGED <<names, history, stack, waiting, pushing, finished, parent,
                 trail, reported>>

(* The call of Dfs that is running, and the next turn of its loop; nextSet *)
(* is in the order of std::set.                                            *)
Here == Last(calls).here
There == Min(Last(calls).left)
InLoop == calls # <<>> /\ Last(calls).left # {} /\ trail = <<>>
Passed ==
  [calls EXCEPT ![Len(calls)] =
     [here |-> Here, left |-> Last(calls).left \ {There}]]

(* An id that has not been discovered is searched from.                    *)
Descend ==
  /\ InLoop /\ order[There] = 0
  /\ parent' = [parent EXCEPT ![There] = Here]
  /\ Discover(There)
  /\ calls' = Append(Passed, Call(There))
  /\ UNCHANGED <<names, history, stack, waiting, pushing, root, finished,
                 trail, reported>>

(* One behind this one, and one that is finished, are passed over.         *)
IsBack == order[Here] >= order[There] /\ There \notin finished

PassOver ==
  /\ InLoop /\ order[There] # 0 /\ ~IsBack
  /\ calls' = Passed
  /\ UNCHANGED <<names, history, stack, waiting, pushing, root, order, count,
                 finished, parent, trail, reported>>

(* A pair that leads back: the circle is printed from here.                *)
SeeCircle ==
  /\ InLoop /\ order[There] # 0 /\ IsBack
  /\ trail' = <<Here>>
  /\ UNCHANGED <<names, history, stack, waiting, pushing, root, order, count,
                 finished, parent, calls, reported>>

(* What is printed when there has been reached.  (Variant: not there.)     *)
OpenEnd(id, seq) == seq
Circle(id, seq) == <<id>> \o seq

(* One turn of the printing loop: now becomes its parent, up to there.     *)
(* CRASH prints too, and Dfs goes on.                                      *)
PrintParent ==
  /\ trail # <<>>
  /\ LET now == parent[Head(trail)]
     IN  IF now = There
         THEN /\ reported' = reported \cup {Circle(now, trail)}
              /\ trail' = <<>>
              /\ calls' = Passed
         ELSE /\ trail' = <<now>> \o trail
              /\ UNCHANGED <<calls, reported>>
  /\ UNCHANGED <<names, history, stack, waiting, pushing, root, order, count,
                 finished, parent>>

(* The loop of Dfs is over.                                                *)
Return ==
  /\ calls # <<>> /\ Last(calls).left = {}
  /\ finished' = finished \cup {Here}
  /\ calls' = Front(calls)
  /\ UNCHANGED <<names, history, stack, waiting, pushing, root, order, count,
                 parent, trail, reported>>

(* CheckCycle is over: it clears what it used (_discoveredCount when it    *)
(* begins) and PushLock goes on.                                           *)
Searched(t, l) ==
  /\ <<t, l>> \in pushing /\ calls = <<>> /\ root > LastRoot
  /\ pushing' = {}
  /\ root' = 1 /\ order' = <<>> /\ count' = 0 /\ finished' = {} /\ parent' = <<>>
  /\ Pushed(t, l)
  /\ UNCHANGED <<names, history, calls, trail, reported>>

-----------------------------------------------------------------------------
(* The locks thread t has, as opposed to the one it waits for.             *)
Depth(t) == IF waiting[t] THEN Len(stack[t]) - 1 ELSE Len(stack[t])
Held(t) == {stack[t][i] : i \in 1 .. Depth(t)}

(* WriteLock gets the lock: nobody else has it.                            *)
Acquire(t) ==
  /\ waiting[t]
  /\ \A u \in Threads \ {t} : Last(stack[t]) \notin Held(u)
  /\ waiting' = [waiting EXCEPT ![t] = FALSE]
  /\ UNCHANGED <<names, history, stack, pushing, searchVars, reported>>

(* PopLock and the rest of WriteUnlock: guards go in reverse order.        *)
PopLock(t) ==
  /\ MutexIsFree
  /\ ~waiting[t]
  /\ stack[t] # <<>>
  /\ stack' = [stack EXCEPT ![t] = Front(@)]
  /\ UNCHANGED <<names, history, waiting, pushing, searchVars, reported>>

Search ==
  \/ NextRoot \/ Descend \/ PassOver \/ SeeCircle \/ PrintParent \/ Return
  \/ \E t \in Threads, l \in Locks : Searched(t, l)

Next ==
  \/ \E t \in Threads :
       \/ \E l \in Locks : PushLock(t, l)
       \/ Acquire(t)
       \/ PopLock(t)
  \/ Search

Spec == Init /\ [][Next]_vars

-----------------------------------------------------------------------------
Wanted(t) == Last(stack[t])

(* Threads that wait for each other in a circle, and no more of them.      *)
Blocked(T) ==
  /\ T # {}
  /\ \A t \in T : waiting[t] /\ \E u \in T \ {t} : Wanted(t) \in Held(u)

Deadlocked(T) == Blocked(T) /\ \A U \in SUBSET T : Blocked(U) => U = T

(* The places on the stacks of threads in T from a lock that another of    *)
(* them waits for up to the lock the thread itself waits for.              *)
Involved(T) ==
  {p \in T \X (1 .. MaxDepth) :
     /\ p[2] \in DOMAIN stack[p[1]]
     /\ \E u \in T \ {p[1]}, j \in 1 .. p[2] :
          j <= Depth(p[1]) /\ stack[p[1]][j] = Wanted(u)}

LockAt(p) == stack[p[1]][p[2]]

(* Every variable has its type, a name has one id, and there is a search   *)
(* only while a thread pushes.                                             *)
TypeOK ==
  /\ names \in Seq(Names) /\ IsInjective(names)
  /\ history \subseteq (DOMAIN names) \X (DOMAIN names)
  /\ stack \in [Threads -> Seq(Locks)]
  /\ \A t \in Threads : Len(stack[t]) <= MaxDepth
  /\ waiting \in [Threads -> BOOLEAN]
  /\ \A t \in Threads : waiting[t] => stack[t] # <<>>
  /\ pushing \subseteq Threads \X Locks
  /\ \A c \in reported : c \in Seq(DOMAIN names)

(* What is printed as a deadlock is a circle of the lock history that goes *)
(* through no name twice, although the search does not stop at a report    *)
(* but goes on with the same _parent and _finished.                        *)
ReportsAreCircles ==
  /\ TypeOK
  /\ \A c \in reported :
       /\ IsInjective(c) /\ Len(c) > 1
       /\ \A i \in 1 .. Len(c) - 1 : <<c[i], c[i + 1]>> \in history
       /\ <<Last(c), Head(c)>> \in history

(* Threads that wait for each other in a circle have been reported, by a   *)
(* circle that ends with a pair of locks on the stack of one of them,      *)
(* unless all the locks involved have the same name: although only the top *)
(* of a stack is recorded and a pair is looked at only once, whoever it    *)
(* comes from.                                                             *)
DeadlocksAreReported ==
  \A T \in SUBSET Threads :
    Deadlocked(T) =>
      \/ \A p, q \in Involved(T) : NameOf[LockAt(p)] = NameOf[LockAt(q)]
      \/ \E p, q \in Involved(T), c \in reported :
           /\ q = <<p[1], p[2] + 1>>
           /\ Last(c) = Id(names, LockAt(p)) /\ Head(c) = Id(names, LockAt(q))
=============================================================================
