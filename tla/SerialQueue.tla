---------------------------- MODULE SerialQueue ----------------------------
(***************************************************************************)
(* What a JobQueue promises to the code that calls DoAsync: jobs of one    *)
(* queue are run one at a time, each once, in the order in which they were *)
(* put on the queue.  Rooms and the RoomManager keep their state in plain  *)
(* containers and rely on exactly this.                                    *)
(***************************************************************************)
EXTENDS Sequences

CONSTANT Jobs

VARIABLES
  pending,    \* jobs accepted and not yet finished, in order
  busy,       \* the first of them is being run
  executed    \* jobs finished, in order

vars == <<pending, busy, executed>>

Init ==
  /\ pending = <<>>
  /\ busy = FALSE
  /\ executed = <<>>

(* A job is accepted: it goes behind every job that was accepted before.   *)
Submit(j) ==
  /\ pending' = Append(pending, j)
  /\ UNCHANGED <<busy, executed>>

(* The oldest job starts; nothing else is running.                         *)
Begin ==
  /\ ~busy
  /\ pending # <<>>
  /\ busy' = TRUE
  /\ UNCHANGED <<pending, executed>>

(* The running job ends.                                                   *)
End ==
  /\ busy
  /\ busy' = FALSE
  /\ executed' = Append(executed, Head(pending))
  /\ pending' = Tail(pending)

Next == (\E j \in Jobs : Submit(j)) \/ Begin \/ End

Spec == Init /\ [][Next]_vars
=============================================================================
