------------------------------ MODULE JobQueue ------------------------------
(***************************************************************************)
(* One JobQueue of the server and every worker thread that touches it.     *)
(* A thread reaches the queue in two ways: DoAsync -> Push, from a packet  *)
(* handler or from inside a running job, and DoGlobalQueue, which takes a  *)
(* reference to the queue out of GQUEUE and calls Excute.  The steps are   *)
(* the atomic operations of the source: fetch_add, the push under the lock *)
(* of LockQueue, the compare-and-swap on _isExcute, PopAll, each job,      *)
(* fetch_sub, the push to GQUEUE and the final store.                      *)
(***************************************************************************)
EXTENDS Integers, Sequences, FiniteSets

CONSTANTS
  Threads,    \* the worker threads (ThreadManager, main)
  Jobs,       \* the Job objects handed to DoAsync, each of them once
  None        \* no job

ASSUME ThreadsAssumption == IsFiniteSet(Threads)
ASSUME NoneAssumption == None \notin Jobs

VARIABLES
  fresh,      \* jobs no thread has handed to DoAsync yet
  count,      \* _insideQueue
  queue,      \* _queue
  executing,  \* _isExcute
  tokens,     \* references to this queue that are in GQUEUE
  call,       \* where thread t is in its call of Push or Excute
  item,       \* the job thread t is pushing
  size,       \* the value thread t's fetch_add returned
  exec,       \* where thread t is in the body of Excute
  batch,      \* the local vector "jobs" of thread t's Excute
  ran,        \* how many jobs of the batch thread t has run
  accepted,   \* history: the order in which jobs entered _queue
  executed,   \* history: the order in which jobs finished
  slips       \* history: the windows hit since a thread last got the queue

pushVars == <<fresh, item, size>>
excuteVars == <<exec, batch, ran>>
history == <<accepted, executed, slips>>
vars == <<pushVars, count, queue, executing, tokens, call, excuteVars, history>>

Init ==
  /\ fresh = Jobs
  /\ count = 0
  /\ queue = <<>>
  /\ executing = FALSE
  /\ tokens = 0
  /\ call = [t \in Threads |-> "none"]
  /\ item = [t \in Threads |-> None]
  /\ size = [t \in Threads |-> 0]
  /\ exec = [t \in Threads |-> "out"]
  /\ batch = [t \in Threads |-> <<>>]
  /\ ran = [t \in Threads |-> 0]
  /\ accepted = <<>>
  /\ executed = <<>>
  /\ slips = {}

-----------------------------------------------------------------------------
(* DoAsync and the first line of Push.  The thread is either outside the   *)
(* queue or inside a job of it that posts another one (a room's job runs   *)
(* the RoomManager inline, which posts back to the room).                  *)
FetchAdd(t, j) ==
  /\ call[t] = "none"
  /\ exec[t] \in {"out", "run"}
  /\ j \in fresh
  /\ fresh' = fresh \ {j}
  /\ size' = [size EXCEPT ![t] = count]
  /\ item' = [item EXCEPT ![t] = j]
  /\ count' = count + 1
  /\ call' = [call EXCEPT ![t] = "adding"]
  /\ UNCHANGED <<queue, executing, tokens, excuteVars, history>>

(* LockQueue::Push: behind the others.  (Variant: in front of them.)       *)
PutInFront(q, j) == <<j>> \o q
Put(q, j) == Append(q, j)

(* _queue.Push(job), and Excute() next if the counter was zero.            *)
Enqueue(t) ==
  /\ call[t] = "adding"
  /\ queue' = Put(queue, item[t])
  /\ accepted' = Append(accepted, item[t])
  /\ item' = [item EXCEPT ![t] = None]
  /\ call' = [call EXCEPT ![t] = IF size[t] = 0 THEN "entering" ELSE "none"]
  /\ UNCHANGED <<fresh, count, executing, tokens, size, excuteVars, executed,
                 slips>>

(* DoGlobalQueue: the worker loop takes a reference and calls Excute.      *)
TakeToken(t) ==
  /\ call[t] = "none"
  /\ exec[t] = "out"
  /\ tokens > 0
  /\ tokens' = tokens - 1
  /\ call' = [call EXCEPT ![t] = "entering"]
  /\ UNCHANGED <<pushVars, count, queue, executing, excuteVars, history>>

(* compare_exchange_strong(expected = false, true) succeeds only when no   *)
(* other thread holds the flag.  (Variant: the flag is set unseen.)        *)
CanEnterUnseen == TRUE
CanEnter == ~executing

Enter(t) ==
  /\ call[t] = "entering"
  /\ CanEnter
  /\ executing' = TRUE
  /\ call' = [call EXCEPT ![t] = "none"]
  /\ exec' = [exec EXCEPT ![t] = "pop"]
  /\ slips' = {}
  /\ UNCHANGED <<pushVars, count, queue, tokens, batch, ran, accepted,
                 executed>>

(* The compare-and-swap fails: Excute returns and nothing is remembered,   *)
(* even when the executor has already looked at the queue for the last     *)
(* time and only the store is left.                                        *)
Bounce(t) ==
  /\ call[t] = "entering"
  /\ ~CanEnter
  /\ call' = [call EXCEPT ![t] = "none"]
  /\ slips' = IF \E u \in Threads : exec[u] = "clear"
              THEN slips \cup {"refused"} ELSE slips
  /\ UNCHANGED <<pushVars, count, queue, executing, tokens, excuteVars,
                 accepted, executed>>

-----------------------------------------------------------------------------
(* PopAll tests "i < _queue.size()" while it pops, so that both ends of    *)
(* the test move: it takes the older half of the queue and leaves the      *)
(* younger one behind.                                                     *)
PopAllCount(n) == (n + 1) \div 2
Popped(q) == SubSeq(q, 1, PopAllCount(Len(q)))
LeftBehind(q) == SubSeq(q, PopAllCount(Len(q)) + 1, Len(q))

PopAll(t) ==
  /\ exec[t] = "pop"
  /\ queue # <<>>
  /\ batch' = [batch EXCEPT ![t] = Popped(queue)]
  /\ queue' = LeftBehind(queue)
  /\ ran' = [ran EXCEPT ![t] = 0]
  /\ exec' = [exec EXCEPT ![t] = "next"]
  /\ UNCHANGED <<pushVars, count, executing, tokens, call, history>>

(* PopAll finds nothing: the loop is left, although a job may be counted   *)
(* already and not be in _queue yet.                                       *)
PopNothing(t) ==
  /\ exec[t] = "pop"
  /\ queue = <<>>
  /\ exec' = [exec EXCEPT ![t] = "clear"]
  /\ slips' = IF \E u \in Threads : call[u] = "adding" /\ size[u] # 0
              THEN slips \cup {"unseen"} ELSE slips
  /\ UNCHANGED <<pushVars, count, queue, executing, tokens, call, batch, ran,
                 accepted, executed>>

(* job->Excute() begins ...                                                *)
StartJob(t) ==
  /\ exec[t] = "next"
  /\ ran[t] < Len(batch[t])
  /\ exec' = [exec EXCEPT ![t] = "run"]
  /\ UNCHANGED <<pushVars, count, queue, executing, tokens, call, batch, ran,
                 history>>

(* ... and returns, once the pushes it made have returned.                 *)
FinishJob(t) ==
  /\ exec[t] = "run"
  /\ call[t] = "none"
  /\ executed' = Append(executed, batch[t][ran[t] + 1])
  /\ ran' = [ran EXCEPT ![t] = @ + 1]
  /\ exec' = [exec EXCEPT ![t] = "next"]
  /\ UNCHANGED <<pushVars, count, queue, executing, tokens, call, batch,
                 accepted, slips>>

(* _insideQueue.fetch_sub(jobs.size()), after the whole batch.  (Variant:  *)
(* what PopAll left behind is subtracted with it.)                         *)
SubtractedWithRest(t) == Len(batch[t]) + Len(queue)
Subtracted(t) == Len(batch[t])

FetchSub(t) ==
  /\ exec[t] = "next"
  /\ ran[t] = Len(batch[t])
  /\ count' = count - Subtracted(t)
  /\ batch' = [batch EXCEPT ![t] = <<>>]
  /\ ran' = [ran EXCEPT ![t] = 0]
  /\ exec' = [exec EXCEPT ![t] = "tick"]
  /\ UNCHANGED <<pushVars, queue, executing, tokens, call, history>>

(* The clock decides: within WORK_TICK the loop goes on ...                *)
KeepGoing(t) ==
  /\ exec[t] = "tick"
  /\ exec' = [exec EXCEPT ![t] = "pop"]
  /\ UNCHANGED <<pushVars, count, queue, executing, tokens, call, batch, ran,
                 history>>

(* Variant: the loop is left and GQUEUE is not told.                       *)
GiveUp(t) ==
  /\ exec[t] = "tick"
  /\ exec' = [exec EXCEPT ![t] = "clear"]
  /\ UNCHANGED <<pushVars, count, queue, executing, tokens, call, batch, ran,
                 history>>

(* ... past it the queue is handed to GQUEUE, while _isExcute still holds. *)
HandOver(t) ==
  /\ exec[t] = "tick"
  /\ tokens' = tokens + 1
  /\ exec' = [exec EXCEPT ![t] = "clear"]
  /\ UNCHANGED <<pushVars, count, queue, executing, call, batch, ran,
                 history>>

(* Variant: the flag is left set.                                          *)
LeaveFlagSet(t) ==
  /\ exec[t] = "clear"
  /\ exec' = [exec EXCEPT ![t] = "out"]
  /\ UNCHANGED <<pushVars, count, queue, executing, tokens, call, batch, ran,
                 history>>

(* _isExcute.store(false); the thread is back where it was called from.    *)
Clear(t) ==
  /\ exec[t] = "clear"
  /\ executing' = FALSE
  /\ exec' = [exec EXCEPT ![t] = "out"]
  /\ UNCHANGED <<pushVars, count, queue, tokens, call, batch, ran, history>>

-----------------------------------------------------------------------------
(* The steps inside a call of Push or Excute: each one is code that runs   *)
(* to its end on its own.                                                  *)
CallStep(t) ==
  \/ Enqueue(t)
  \/ Enter(t)
  \/ Bounce(t)
  \/ PopAll(t)
  \/ PopNothing(t)
  \/ StartJob(t)
  \/ FinishJob(t)
  \/ FetchSub(t)
  \/ KeepGoing(t)
  \/ HandOver(t)
  \/ Clear(t)

Next ==
  \E t \in Threads :
    \/ \E j \in Jobs : FetchAdd(t, j)
    \/ TakeToken(t)
    \/ CallStep(t)

Spec == Init /\ [][Next]_vars

(* A thread that is inside a call finishes it, and the loop of every       *)
(* worker comes back to DoGlobalQueue, because Dispatch waits 10 ms only.  *)
Fairness == \A t \in Threads : WF_vars(CallStep(t)) /\ WF_vars(TakeToken(t))

FairSpec == Spec /\ Fairness

-----------------------------------------------------------------------------
Inside(t) == exec[t] # "out"

(* The executor, when there is one.                                        *)
Executor == CHOOSE t \in Threads : Inside(t)

(* Threads between their fetch_add and their _queue.Push.                  *)
Adders == {t \in Threads : call[t] = "adding"}

(* What is left of the batch thread t is working on.                       *)
Rest(t) == SubSeq(batch[t], ran[t] + 1, Len(batch[t]))

(* The jobs in the queue's care that have not finished, oldest first.      *)
Backlog == IF executing THEN Rest(Executor) \o queue ELSE queue

(* Nobody holds the queue, nobody is on the way to it, nothing in GQUEUE   *)
(* names it, and yet there are jobs in it.                                 *)
Stranded ==
  /\ queue # <<>>
  /\ ~executing
  /\ tokens = 0
  /\ \A t \in Threads :
       call[t] # "entering" /\ (call[t] = "adding" => size[t] # 0)

-----------------------------------------------------------------------------
(* Every variable has its type, and _insideQueue never goes below zero.    *)
TypeOK ==
  /\ fresh \subseteq Jobs
  /\ count \in Nat
  /\ queue \in Seq(Jobs)
  /\ executing \in BOOLEAN
  /\ tokens \in Nat
  /\ call \in [Threads -> {"none", "adding", "entering"}]
  /\ item \in [Threads -> Jobs \cup {None}]
  /\ size \in [Threads -> Nat]
  /\ exec \in [Threads -> {"out", "pop", "next", "run", "tick", "clear"}]
  /\ batch \in [Threads -> Seq(Jobs)]
  /\ ran \in [Threads -> Nat]
  /\ accepted \in Seq(Jobs)
  /\ executed \in Seq(Jobs)
  /\ slips \subseteq {"refused", "unseen"}

(* Excute's flag keeps all threads but one out of its body, so that two    *)
(* jobs of one room never run at the same time.                            *)
SerialExecution ==
  /\ \A t, u \in Threads : Inside(t) /\ Inside(u) => t = u
  /\ executing <=> \E t \in Threads : Inside(t)

(* _insideQueue counts the jobs on their way in, the ones in _queue and    *)
(* the popped batch until the whole of it has run: it is zero exactly when *)
(* a push has to start the execution itself.                               *)
CountAccounts ==
  count = Cardinality(Adders) + Len(queue)
            + (IF executing THEN Len(batch[Executor]) ELSE 0)

(* A job that posts to the queue it is running on only leaves the new job  *)
(* there: its own batch is still counted, so it never calls Excute and     *)
(* Excute never runs inside itself.                                        *)
NestedPushReturns ==
  \A t \in Threads : Inside(t) => call[t] # "entering"

(* Jobs leave in the order they came in and none is lost or doubled, in    *)
(* spite of PopAll leaving half of the queue behind.                       *)
FirstInFirstOut == accepted = executed \o Backlog

(* A queue that is stranded stays so for ever: the jobs in it keep         *)
(* _insideQueue above zero, and every later push trusts somebody else to   *)
(* run it.                                                                 *)
StrandedForEver == [][Stranded => Stranded']_vars

(* A queue gets stranded only through one of two windows of Excute: a      *)
(* compare-and-swap refused by an executor that has nothing but its store  *)
(* left to do, and a last PopAll that ran between another thread's         *)
(* fetch_add and its push.                                                 *)
StrandedOnlyThroughSlip == Stranded => slips # {}

(* Whatever the interleaving, a job that reached _queue is run, or the     *)
(* queue has been stranded with it.                                        *)
EveryJobRunsOrIsStranded ==
  \A j \in Jobs :
    (\E i \in DOMAIN accepted : accepted[i] = j)
      ~> ((\E i \in DOMAIN executed : executed[i] = j) \/ Stranded)

-----------------------------------------------------------------------------
(* JobQueue implements the serial queue: _queue and the rest of the batch  *)
(* are the pending jobs.                                                   *)
Serial == INSTANCE SerialQueue WITH
  pending <- Backlog,
  busy <- \E t \in Threads : exec[t] = "run",
  executed <- executed

(* Every step of every thread is a step of the serial queue or no step of  *)
(* it: callers of DoAsync see one job at a time, in order, each once.      *)
ImplementsSerialQueue == Serial!Spec
=============================================================================
