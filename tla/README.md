# A verification project for EscapeSimulator

EscapeSimulator is a multiplayer escape-room game: an Unreal client
(`src/Capstone`) and a C++ game server on Windows completion ports
(`src/Server`). The server is where threads, queues, locks and connections meet,
and this project models it in TLA+, checks the models with TLC on small
instances and proves the central ones with TLAPS for every instance.

Contents: [inventory](#1-inventory), [modules](#2-modules),
[runs](#3-runs), [fairness](#4-fairness), [proofs](#5-proofs),
[disagreements](#6-where-code-and-assertions-disagree),
[not modelled](#7-not-modelled), [plan](#8-plan).
To check a module: `tlc -config JobQueue.cfg MCJobQueue`; to check proofs:
`tlapm JobQueueProofs.tla`.

## 1. Inventory

`src/Server/ServerCore` (about 2100 lines) is the library: network, threads, job
queues, locks. `src/Server/GameServer` (about 1100 lines that are not generated)
is the game. `src/Server/Libraries`, `protoc-*`, `tinyxml2` and `SimpleMath` are
third-party, `*.pb.*` are generated. The repository has no tests, and its own
statements about what should hold are the messages of `CRASH`, which, as
`CoreMacro.h:32-39` defines it, prints and goes on.

The process is six equal worker threads (five and `main`), each in
`DoWorkerJob`: take one completion from the port (10 ms at most), take queues
out of `GQUEUE`, look at the job timer, again.

| Component | State | Operations | What is hard | What makes it right |
|---|---|---|---|---|
| `JobQueue`, `LockQueue`, `GlobalQueue` | `_insideQueue`, `_queue`, `_isExcute`; `GQUEUE` | `DoAsync`/`Push`, `Excute`, `PopAll`, `DoGlobalQueue` | any thread pushes and any may end up running the queue; three atomics that are not updated together; a time slice; pushes from inside jobs | jobs are serial, in order, none lost; somebody always runs them |
| `Room`, `RoomManager`, `Player`, `GameSession`, packet handlers | `_rooms`; `_players`, `_isStart`; `Player::room`; `GameSession::player` | `C_CREATE_GAME`, `C_ENTER_GAME`, `C_LEAVE_GAME`, `C_GAME_START`, `C_GAME_END`; the rooms' jobs; `OnDisconnected` | handlers read state and post jobs that find another state; `OnDisconnected` runs beside the room's queue | room and player agree; clients know who is in their room; empty rooms are deleted; sessions that have gone are out |
| `Session`, `SessionManager`, `IocpCore` | `_connected`, `_isSend`, `_sendQueue`, `_sendVector`, `_owner` of the events; `GSESSIONS` | `ProcessConnect`, `Send`, `Disconnect`, the completions | one send at a time on any thread; completions on any thread; calls that fail at once; two ends of one connection | one operation per event; sends in order, no lost wake-up; one orderly end |
| `RecvBuffer`, `PacketSession` | `_readPos`, `_writePos`, bytes | `OnWrite`, `OnRecv`, `OnRead`, `Clean` | TCP cuts the stream anywhere | packets come out as they were sent |
| `Lock` and its guards | `_lockFlag`, `_writeCount` | `WriteLock`, `WriteUnlock`, `ReadLock`, `ReadUnlock` | spinning on one word with two halves, beside a plain counter; nesting; upgrades | a read-write lock |
| `DeadLockProfiler` | names, `_lockHistory`, stacks of the threads | `PushLock`, `PopLock`, `CheckCycle` | a search that does not stop at its first finding, over a history that grows by single edges | circles are found, and what is reported is one |
| A room while it is played in | `_players`, `_isStart`, places and start points of the players; what each client has been told | `C_MOVE`, `C_GAME_START`, `C_GAME_END`, the hand light, entries and leaves | clients send while the server moves them; news is sent once; `OnDisconnected` beside the room's job | clients see what the server has; who is disconnected is out |
| `JobTimer` | `_timers` (a heap), its lock | `Reserve`, `Distribute`, `DoTimer` | runs jobs under its own lock, which may reserve again or wait for another lock; `DoTimer` has no caller | no job lost or doubled, in the order of the ticks |
| `Listener`, `Service` | `AcceptEvent`s and their sessions, session factory, the service's set | `StartAccept`, `RegisterAccept`, `ProcessAccept` | the session runs while its event is given a new one; `AcceptEx` fails at once | every slot in one place, every session new, clients get in |
| `ThreadManager`, `DoWorkerJob` | threads, thread-locals | `Launch`, `DoGlobalQueue`, `DoGlobalTimer` | scheduling | part of `JobQueue`, `JobTimer`, `Listener`, and the fairness everywhere |
| `GameSessionManager` | a set under a lock | `Add`, `Remove` | nothing reads it | part of `Session` |
| `SendBuffer`, `SocketUtils`, `NetAddress`, `TimeManager` | - | wrappers | nothing of their own | not modelled |
| Client: players | place, light | sends its place again and again, switches its light, goes where it is put | packets on their way both ways | part of the room above |
| Client: objects | doors, notes, the painting puzzle | Unreal callbacks | - | not modelled: the handlers of their packets are not in the repository |
| `PacketGenerator` | - | text to text | - | not modelled |

How they interact. A completion of a `WSARecv` runs `Session::ProcessRecv`,
`PacketSession::OnRecv`, `GameSession::OnRecvPacket` and a `Handle_*` function on
the thread that took it. The handler posts a job to the `RoomManager` or a
`Room`, each of which *is* a `JobQueue`; the thread that posts may run the
queue at once, and jobs post to other queues the same way (a room asks the
`RoomManager` for its deletion, the `RoomManager` posts players to rooms). Jobs
call `Session::Send` on the sessions of the room's players, from any thread.
The end of a connection is a completion too; it runs
`GameSession::OnDisconnected`, which calls `Room::HandleLeavePlayer` directly,
not through the room's queue. Every container is under a `Lock`, and in debug
builds every `WriteLock` goes through the `DeadLockProfiler`.

## 2. Modules

| Module | Models | Abstraction |
|---|---|---|
| `SerialQueue` | the promise of a job queue | abstract specification |
| `JobQueue` (`MCJobQueue`, `JobQueueProofs`) | one queue, all threads | a job is a name; the clock is a choice; `GQUEUE` is the number of references to this queue |
| `GameRooms` (`MCGameRooms`, `GameRoomsProofs`) | the game logic | queues are sequences of jobs that run one at a time in order, as `SerialQueue` promises; packets are kinds; ids are numbers; positions, names and stages are left out |
| `RoomPlay` (`MCRoomPlay`, `RoomPlayProofs`) | one room while its players play | the room's queue as above; a place is a start point, the stage, what lies outside of the table, or none; packets to one client arrive in their order |
| `Listener` (`MCListener`, `ListenerProofs`) | accept events, the port and the workers | a session is a name, the kernel answers as it likes; what a connected session does is in `Session` |
| `Session` (`MCSession`, `SessionProofs`) | one accepted session, with what `GameSession` does at its two ends | bytes are left out; a buffer is a name; the kernel answers as it likes |
| `PacketChannel` | the promise to `OnRecvPacket` | abstract specification |
| `PacketStream` (`MCPacketStream`, `SessionProofs`) | one connection's bytes | a byte is (packet, place in it); what a header says is the size of the packet it begins |
| `ReadWriteLock` | what users of the lock rely on | abstract specification |
| `JobTimer` (`MCJobTimer`, `JobTimerProofs`) | the timer, its lock and the workers' rounds | one queue owns the jobs; ticks are small numbers; all other locks are one |
| `Lock` (`MCLock`, `LockProofs`) | the spin lock | time-outs only print, so a waiting thread goes on waiting; the counts are unbounded numbers |
| `DeadLockProfiler` (`MCDeadLockProfiler`, `DeadLockProfilerProofs`) | the detector and the write locks under it | names instead of pointers to them; ids begin at one |

How to read a module against the code:

* `JobQueue`. `count` is `_insideQueue`, `executing` is `_isExcute`, `tokens` is
  the queue's share of `GQUEUE`. `FetchAdd` and `Enqueue` are the two lines of
  `Push`; `Enter`/`Bounce` are the two outcomes of the compare-and-swap in
  `Excute`; `PopAll`/`PopNothing`, `StartJob`, `FinishJob`, `FetchSub`,
  `KeepGoing`/`HandOver` and `Clear` follow its loop line by line. A thread in
  `"run"` is inside a job and may call `FetchAdd` again: that is a nested push.
  `PopAllCount` is what the loop in `LockQueue::PopAll` takes (an index that
  rises and a size that falls: half, rounded up); `MCJobQueue` evaluates the
  loop itself and compares. `slips` remembers which of the two windows
  described under the run has been hit since a thread last got the queue.
* `GameRooms`. `Receive` is a handler up to what it reads, `PostJoin` and
  `PostToRoom` are what it posts, so that anything may happen in between.
  `RunManager` is one job of the `RoomManager` (it only touches the manager's
  own map and posts, so it is one step). A job of a room is several steps
  (`phase`), cut where it changes `_players`, `Player::room` or what clients
  have been told, because `OnDisconnected` may run between them:
  `DisconnectLook`, `DisconnectLeave`, `DisconnectTell`, `DisconnectDone`. Where both
  would be inside the same `unordered_map`, `Collide` lets the process die as
  well. `Alive` says who holds a reference to a room, `LockRoom` is the
  `weak_ptr::lock`, and `LetGo`, part of every step that drops a reference, is
  `Room::~Room`, which clears `_players` when nobody keeps the room any more.
  Variables `view` (what a client has been told), `emptied`
  and the two kinds of players "ghost" and "stuck" exist for the properties.
* `RoomPlay`. One action per packet handler (`SendMove`, `SwitchLight`,
  `AskStart`, `AskEnd`, `AskLeave`), each posting a job; `RunJob` runs the
  head of `jobs`. Entering is cut in two (`Enter`, then `EnterTold`, which reads
  the size of `_players` again) and so is `PlayerMove` (`MoveBegun`, `MoveTold`),
  because `OnDisconnected` may run in between. While a C_MOVE is copied over a
  player's message its object id may be read as 0 (`CopyFrom` clears first);
  `Torn` is the branch of `OnDisconnected` that then finds nobody. `told`, `lit`
  and `at` are the clients' side: what S_SPAWN, S_MOVE, S_GAME_START and
  S_GAME_END told them, whose light they see, and where they are, which they
  send again in the next C_MOVE. `mail` is what they have been sent and not yet
  obeyed, so that an old C_MOVE can follow a new place.
* `Listener`. `asked`, `port`, `task` and `lost` are the places an accept event
  can be in: with the kernel, completed, with a worker, or nowhere. `Ask` has
  two outcomes because the kernel may refuse at once, and the code takes
  either for a pending call (section 6 does not list it, since no comment
  promises anything). `NewSession` is the session factory.
* `JobTimer`. `step[t]` follows a worker through `DoGlobalTimer` and
  `Distribute`: `TakeTop` copies the top and locks its `weak_ptr`, `RunJob`,
  `JobReserve` and `JobWait` are what a push may run under the timer's lock, `Pop`
  pops what is the top by then. `pushed` and `dropped` are history.
* `Session`. `handling[t]` is where a thread is with a completion,
  `sending[t]` where it is in `Send`. `pending` counts what the kernel has for
  each of the three events and `owner` whether the event still holds its
  session. `Complete` is `IocpCore::Dispatch`. `broken` is set by a step that
  leaves defined behaviour - a null `_owner`, `front()` of an empty queue,
  `erase(end())`, a null player - and nothing is said about what happens
  afterwards. `OnConnected` and `ForgetPlayer` are the callbacks of
  `GameSession` (`managed` is `GSessionManager`'s set), `known` is whether the
  client has asked for a game yet.
* `PacketStream`. `ProcessRecv` is three actions, in its order: `OnWrite(n)`, a
  completion of `n` bytes up to the call of `OnRecv`; `HandlePacket`, one turn
  of the loop there, with the call of `OnRecvPacket`; `OnRead`, the end of the
  loop with `RecvBuffer::OnRead` and `Clean`. Meanwhile only the client moves,
  because one `WSARecv` is outstanding. `RecvNothing` is the `WSARecv` that finds
  no room. `memcpy` onto an overlapping place is the outcome `"garbled"`.
  `received`, `lag` and `split` are history.
* `Lock`. `writer` and `readers` are the halves of `_lockFlag`; `held` is the
  stack of guard objects of each thread, which is why unlocks come in reverse
  order. `SwapWrite` and `SwapRead` are the successful compare-and-swaps;
  a failed one of a writer changes nothing and has no action.
* `DeadLockProfiler`. `PushLock` is the call up to `CheckCycle`, `Searched` the
  rest of it when the search is over; the mutex is held from one to the other
  (`MutexIsFree`), while threads that neither push nor pop go on. `NextRoot` is a
  turn of the loop in `CheckCycle`. `calls` is the stack of the calls of `Dfs`,
  each with what its loop has left; `Descend`, `PassOver` and `SeeCircle` are the
  three branches of that loop, `Return` is its end, and `PrintParent` is a turn
  of the loop that prints. `reported` is history: every circle printed so far,
  with the `here` of the search last.

A definition that comes in a second form with the comment "Variant" is a wrong
version of the one below it; the project's properties have been tried against
these.

## 3. Runs

All runs but `JobTimer` set `CHECK_DEADLOCK FALSE`: inputs are bounded and used
up, a session ends, a process dies and (in `Lock`) upgraders wait for ever, so
that the models really stop. The workers of `JobTimer` go round for ever, and
its run looks for a deadlock. Types are checked as the first conjunct of the first
invariant of each run, and in `JobQueue` and `Lock` by the proofs alone.

| Run | Instance | States | Shows |
|---|---|---|---|
| `JobQueue` | 3 threads, 3 jobs | 30 thousand | below |
| `GameRooms` | 3 sessions, 3 players, 2 rooms, 4 packets, 2 drops | 1.4 million | below |
| `GameRoomsLive` | 2 sessions, 2 players, 2 rooms, 3 packets, 2 drops | 71 thousand | empty rooms are deleted |
| `RoomPlay` | 3 players, 2 start points, 2 waiting jobs, 2 packets besides C_MOVE, 1 drop | 1.25 million | below |
| `Listener` | 2 accept events, 4 sessions, 2 clients, 2 threads | 49 thousand | below |
| `Session` | 3 threads, 3 buffers | 76 thousand | below |
| `SessionAssert` | 2 threads, 1 buffer | violation | section 6 |
| `JobTimer` | 2 threads, 2 jobs, 4 ticks, slice of 1 | 96 thousand | below |
| `Lock` | 3 threads, 2 guards each | 191 thousand | below |
| `LockOrder` | 2 threads, 3 guards each | violation | section 6 |
| `PacketStream` | packets of 2 and 3 bytes, buffer 3 x 3, 6 packets | 120 thousand | below |
| `DeadLockProfiler` | 3 threads, 4 locks of 3 names, 2 deep, 6 in all | 1.6 million | below |

**JobQueue.** Jobs are serial (`SerialExecution`), and the steps implement
`SerialQueue`, in which jobs run in the order they were put in, although
`PopAll` takes only half (`ImplementsSerialQueue`). `_insideQueue` accounts for
every job that is on its way in, waiting or in the running batch
(`CountAccounts`), which is why a nested push never re-enters `Excute`.
The queue can nevertheless be lost. Two windows exist: the compare-and-swap of
a thread that was told to run the queue is refused while the executor has only
the store of line 46 left, and a last `PopAll` runs between another thread's
`fetch_add` and its push. After either of them the queue can hold jobs with
nobody to run them (`Stranded`). `StrandedOnlyThroughSlip`: nothing else does it.
`StrandedForEver`: a stranded queue never recovers, since its jobs keep
`_insideQueue` above zero and each later push trusts somebody else.
`EveryJobRunsOrIsStranded`: otherwise every job runs. Three threads are the
executor, a refused one and a pusher; three jobs are what is needed for a batch
of two with one left behind.

**GameRooms.** What the state promises: a player is in the room that locking
its `room` gives, and in no other, although two threads move it and rooms go with
their last reference (`MembershipAgrees`);
members know each other when the entering job is over (`MembersAreKnown`);
rooms leave the manager only after a leaving player emptied them
(`OnlyEmptiedRoomsAreDeleted`); `OnDisconnected` takes out a player it found in
a room (`DisconnectedPlayersAreOut`). What the code does not do, stated as
exactly as it holds: a player whose room job was still queued when its session
ended gets in afterwards, and if nobody has asked to delete the room by then,
stays for ever and keeps the room (`GhostKeepsItsRoom`; if somebody has, it goes
with the room); a client may keep showing
a player that left, but only one that left through `OnDisconnected` while the
list for a newcomer had been built and not sent (`StaleViewsComeFromDisconnect`);
a session whose player is in no room - it left, or its entry was refused - can
never join again before it disconnects (`StuckUntilDisconnect`). `GameDelete`
does not look whether the room is still empty: a room that somebody entered
after the deletion was asked for is deleted all the same. No property excludes
this, because the code does it: `OnlyEmptiedRoomsAreDeleted` says that the room
had been empty once, `EmptyRoomIsDeleted` speaks of rooms that stay empty, and
`StuckUntilDisconnect` covers the player that is left without its room. A connection
that ends before it made a player follows a null pointer (`halted`). Two
rooms, three players and four packets let a player leave and others enter,
start and end a game around a deletion; two disconnections can meet in one
room. `GameRoomsLive` is smaller because liveness is checked without symmetry.

**RoomPlay.** What every client has been told of a place is what the server has
(`PositionsAgree`), in whatever order moves, starts and ends of the game come,
and although the end of the game leaves out members without a session: a move
is applied and told in one job. Lights are told and kept nowhere: who has heard
of a light since it came in sees it as it is, and who came in later sees it off
(`LightsAgree`). As long as nobody has left and no more players come than there
are start points, each gets one of its own; after that two may share one, and
an index below zero or beyond the table is reached (`StartPointsAreOwn`). Whoever
came in with its session up is out once the session has ended, except a player
whose C_MOVE was being copied when `OnDisconnected` read its object id: it stays
in the room for good (`DisconnectedAreOut`). Three players on two points contain
a shared point, a third without one, and a newcomer between two others; one
drop is enough for each of the races, all of which are between the room and
one disconnecting thread.

**Listener.** A slot is always in exactly one place (`SlotsAreKept`), and the
session a client is going to be given is one nobody else has, although it runs
on other threads before its event has been given the next
(`SessionsAreFresh`). Clients are let in (`ClientsAreLetIn`) as long as `AcceptEx`
has not failed at once for every event: its result is a `BOOL`, never
`SOCKET_ERROR`, so that the retry in the code is never taken and each such
failure costs a slot for good, silently. Two events, each of which may fail or
be between any two steps of its worker while the other accepts; four sessions
let both events and both clients have one, and one of them can be used again.

**Session.** One `WSASend` and one `WSARecv` at a time, each owned until it
completes, and `Disconnect` called at most twice (`OperationsStayOwned`); buffers
go out in the order of `_sendQueue`, each once (`SentInOrder`). `RegisterSend`
calls `front()` of an empty queue only for a sender that came late to the flag:
at least two buffers were queued, all of them sent and completed before it took
the flag; one sender at a time and `ProcessSend` cannot get there
(`LateSenderBreaks`). No buffer waits
without a thread or completion that will look at it
(`WaitingBuffersHaveASender`), except behind a `WSASend` that failed at once. The
null `_owner` and `erase(end())` take the second call of `Disconnect`, and the
null player takes that or a client that never asked for a game
(`SecondCloseBreaks`). Buffers are sent (`BuffersAreSent`) and an ended session
leaves `GSESSIONS` and `GSessionManager` (`ClosedSessionIsUnlisted`), with the
exceptions the formulas name. Three threads are a sender, the end of the sends
and the end of the receives; three buffers are one in flight, one waiting and
one being pushed.

**JobTimer.** Between `Reserve` and `Distribute` no job is lost or pushed twice,
although the job has run, and may have reserved another one, between `top()` and
`pop()` (`TimersAreKept`): a job reserved meanwhile is due no earlier than now,
and the one being run was due before. Jobs come in the order of their ticks
and never early, although workers come with ticks they read before they waited
for the lock (`InTickOrder`). Every job comes out in the end and nobody waits for
ever, as long as the other lock is not held across a call into the timer
(`EveryTimerEnds`). Two workers are the one inside and the one behind it; two
jobs are the one that runs and the one it reserves.

**Lock.** The word and the plain counter say who is in (`FlagCountsGuards`), and the
whole implements `ReadWriteLock`, where a thread that writes is alone (the theorem
`LockExcludes` states this of the guards themselves). A
reader that asks to write waits for its own guard and shuts every writer out
(`UpgradeNeverEnds`); short of that the lock keeps moving (`LockMovesOn`). It does
not promise more: a single writer may be passed by readers for ever. Two
guards per thread contain all pairs of nestings; the theorems cover all depths.

**PacketStream.** Whatever the portions, no byte is lost, doubled or moved, the
loop of `OnRecv` stays inside what is there, so that the "Read Overflow" branch of
`ProcessRecv` is dead, and if no portion ends inside a packet nothing waits
(`StreamIsKept`). `OnRecvPacket` is called with every packet whole, once and in
order (`ImplementsPacketChannel`). `OnRecv` is told how many bytes have just come
in, not how
many there are, so it never looks at more than that: what lags in the buffer
never gets less (`LagNeverShrinks`), and after one split packet the last packet
waits until the next one arrives. Nine bytes of buffer, three times the
unit of `Clean`, stand for the ten times 64 KB of the code: large enough for all
three branches of `Clean` and small enough to be filled; the theorems hold for
any sizes. Lags of every size from zero to a full buffer occur in the run.

**DeadLockProfiler.** What it prints is a circle of the history
(`ReportsAreCircles`), and threads that wait for each other in a circle of
differently named locks have been reported (`DeadlocksAreReported`), although only
the top of the stack is recorded and each pair is looked at once. Three threads
that hold one lock and wait for another are the longest circle three names
have; stacks that are deeper, with locks between those that threads wait for, are
left to the theorem. Two limits
are visible in the model and are not claimed otherwise: locks of one type share
a name and deadlocks among them are not seen, and a history circle is not yet a
deadlock (a thread that nests A, B and A again, which the lock allows, makes
one).

## 4. Fairness

Weak fairness of the steps inside a call: threads are scheduled, and a call that
has begun ends. `JobQueue` adds `TakeToken`, because the loop of every worker
comes back to `DoGlobalQueue` after at most 10 ms. Nothing makes a client
send, drop or a thread push. In `Listener`, `main` and the workers go on, the
kernel accepts when it has a call and a client, and a session that has lost its
client ends, as `Session` shows; clients need neither come nor go. In `JobTimer`
the clock runs and workers go round, which `DoWorkerJob` is; nobody has to
reserve. `Session` adds strong fairness of the completion of
sends and of disconnects: the kernel completes them, with an error if need be,
and the port hands completions out first come first served, so that other
completions cannot overtake one for ever. Data need never arrive. `Lock` adds
that every scope with a guard is left. `GameRooms` assumes that its queues run
their jobs, that is, that none is stranded; `JobQueue` shows when this fails, and
`EmptyRoomIsDeleted` is as good as that assumption.

## 5. Proofs

Every safety invariant, every action property and every refinement that a run
checks is also proved, for any finite set of threads, any jobs, packets, locks
and names, and any depth of nesting. Each component's module says what it
assumes of its constants, and the runs evaluate these assumptions.

`JobQueueProofs` assumes what `JobQueue` does: `Threads` is finite (so that the
pushers can be counted) and `None` is no job. The invariant `IInv` is `TypeOK`,
`SerialExecution`, `LocalsOK`, `CountSplit`, `NestedPushReturns` and
`NestedPushSeesCount`. None of the properties is inductive by itself: that a
nested push does not enter `Excute` needs that it read a counter above zero,
that needs `CountSplit` (the counter covers the batch of the thread that runs
it), and that needs serial execution, which needs in turn that no thread
inside is entering. From it follow
`TypeCorrect`, `JobsAreSerial`, `CounterAccounts`, `NestedPushesReturn` and
`StrandingIsFinal`. `OnlySlipsStrand` takes a second invariant, `WakeUpPending`:
whenever jobs are counted and neither window was hit, an executor, a thread on
its way or a reference in `GQUEUE` remains. `JobsAreFirstInFirstOut` and
`JobQueueImplementsSerialQueue` go over `StepOnBacklog`: every step leaves
the backlog alone, appends to it, starts its head or removes its head.

`LockProofs` assumes finitely many threads, none of them `None`, and a natural
`MaxDepth` that may be any. `IInv` is `TypeOK`, `FlagCountsGuards`, `DepthOK`,
`Positions`, `WriterFirst` and `WriterAlone`. The work is in counting guards:
`HoldCounts` and `LetGoCounts` say what one guard more or less does to the
cardinalities, and `EmptyIsFree` and `LastIsOnly` read the flag back into
guards. `LockExcludes`, `UpgradesNeverEnd` and `LockImplementsReadWriteLock` follow.
`readers` and `writeCount` are natural numbers in it: 2^16 nested or parallel
guards would overflow the 16 bits of the code, and with six threads of
bounded nesting this is no state of the program.

`JobTimerProofs` assumes of the ticks that they are natural numbers and of
`None` that it is neither a thread nor a job. `IInv` is `TypeOK`, `WorkersOK`
(what the worker inside has copied, and which tick it came with), `JobsOnce`,
and the two properties. The point is that the item being pushed is still the
top at `Pop`: it was due before now, and what its job reserves is not.

`ListenerProofs` allows any number of slots, sessions, clients and threads. `IInv`
says for every event in which of its places it is, and that the session it
owns is fresh in each; `OnceInPort`, `OneThread` and `OwnSessions` are what keep
two completions of one event apart.

`SessionProofs` assumes only that `Threads` is finite. Its `IInv` follows the
two chains of operations: `SendChain` (the flag, the send in flight and the
thread that handles its completion are one token), `RecvChain` (the same of
the receive), `CallsOfDisconnect` (each chain ends once, so that `Disconnect`
is called twice at most), `FirstClose` (what is still whole until the second
call), `SentInOrder`, `LateSenders` (as long as one buffer at most was queued,
one thread at most is in `Send`, and none once it is sent), `Awake` (who will
look at a waiting buffer) and `LoadedTrue`. The chains meet in a count of the
threads that are ending one (`Enders`), which is why finiteness is needed
(`ThreadsAssumption`). `OneCloseIsSafe` is then a corollary: what breaks needs
both calls, or a client without a player. `OnlyLateSendersBreak` takes the
empty queue from `SentInOrder` (what was queued has been sent), the idle
kernel from `SendChain`, and the second buffer from `LateSenders`.

`GameRoomsProofs` assumes what `GameRooms` does: the bounds are natural
numbers, and `None` is no player and no room. `IInv` has fifteen conjuncts.
`JobMove` is the key to all steps: a step takes at most one head of a queue
and posts at most one job. From it `Tickets` - each player has at most one job
that brings it into a room, wherever that job is - and with it `NotYet`: a
player that has not tried to enter yet is nowhere. So a player enters once,
and room and player agree (`Agree`). `Running` says what the job in progress
can rely on while `OnDisconnected` works beside it, `Deletes` that what asks
for a deletion has emptied the room. For `Room::~Room`: a room that nobody
keeps is not kept again (`DeadRoomsStayDead`), and one that still has a member
after a step is still kept (`AliveStays`), so that a player in `_players` is
in a room that lives. `HostComesFirst`, a part of `IInv`, says that the host's
job is the first of a new room, so that the refusal branch of
`HandleEnterHostPlayer` is dead; it follows from the manager being serial, and
is proved but not a property of a run. All safety and action properties of the
run follow: `MembershipAlwaysAgrees`, `HostAlwaysComesFirst`,
`MembersAreAlwaysKnown`, `StaleViewsAlwaysComeFromDisconnect`,
`OnlyEmptiedRoomsAreEverDeleted`, `DisconnectedPlayersAreAlwaysOut`,
`GhostsKeepTheirRooms` and `StuckStaysStuck`, for any number of sessions,
players, rooms, packets and drops.

`RoomPlayProofs` assumes that `Players` is finite (members are counted), that
there is a start point, and that the bounds are natural numbers. Every step is
a `Move`, one of eleven forms that forget what the invariant does not need.
`OneEntry` and `NotYet` say, as in `GameRoomsProofs`, that a player comes in once
and is nowhere before; from that `DisconnectedAreOut` is inductive. `PlacesAgree`
is `PositionsAgree` with less exempted: the player whose C_MOVE is being copied
has still been told of all others, and its place is already the new one. For the
lights, `LastNews` says that the last message about a light that waits is what
its client has done. For the start points, `PointsInTurn` says that they
are given out from zero on, one to each member but the one coming in
(`Placed`), as long as nobody has left. All four properties of the run follow.

The last part of `SessionProofs` is about `PacketStream`, the buffer a session
owns; its specification is called `StreamSpec` so that one module can speak of
both. `SizesAssumption` is what it needs: a header has a size, packets are at
least as long, the buffer is not empty. `StreamInv` is `StreamIsKept` with
`LoopOK` and `BytesKnown`. `LoopOK` is what the two other properties rest on:
in `OnRecv` the buffer holds exactly what came in and what lagged before, so
that what is left is never less than before; and if no portion has ended
inside a packet its last byte ends one. `BytesKnown` is that every byte
belongs to a packet that was sent. `Joined` says byte for byte what the data
and the stream behind it are; all steps but two leave it as it is, which
`SameJoined` shows for the three ways of `Clean`. For the two others,
`FrontBytes` is the argument: bytes that follow one another (`ByteAfter`) from
the first of a packet are those of that packet, as the first that is not
(`LeastNumber`) would have a good one before it. So the loop sees the size of
the packet it is at, and hands it on whole (`PacketAtFront`).

`DeadLockProfilerProofs` assumes that every lock has a name and that the bounds are
natural numbers. `IInv` follows a search that somebody else's mutex protects.
`CallsOK`: the calls of `Dfs` are a path of the history, discovered in its order,
with each `_parent` the call below. `DiscoveredOK`: what has an order is finished
or on the path. With both, an id that is not behind and not finished is on the
path, so that the printing loop arrives at it before `_parent` ends
(`TrailOK`), and what it has printed is a circle. `FinishedOK` and `LoopsOK` are why
nothing is missed: finished ids can be ranked so that every pair leads down,
except those that a report ended with, although the search goes on behind a
report. At the end all ids are finished, and the ranking is one of all pairs
that have been searched (`Ranked`), which adding names does not disturb. A
deadlock then contradicts it: between the locks of its threads the name of
least rank (`DeadlockIsSeen`) is left by a pair that was reported, or by none; and
if by none, the threads that wait for locks of this name wait for each other,
and are all of them, so that all the locks have this one name.

Only model-checked: the liveness properties (`EveryJobRunsOrIsStranded`,
`EmptyRoomIsDeleted`, `BuffersAreSent`, `ClosedSessionIsUnlisted`,
`ClientsAreLetIn`, `EveryTimerEnds`, `LockMovesOn`), which are beyond the
prover. `PopAllCount` of `JobQueue` is the loop of `LockQueue::PopAll` in
closed form; that both agree is evaluated by the run, for queues up to a
bound, because a proof would need induction over data.

## 6. Where code and assertions disagree

* `SessionAssert`: `Disconnect` says `CRASH("not connected, does not disconnect")`
  (`Session.cpp:43-44`), and is called on a session that is not connected any
  more: the receives and the sends of a broken connection end separately, and
  both call it. Nothing stops the second call: `expected` is loaded from
  `_connected`, so that exchanging false for false succeeds.
* `LockOrder`: `WriteUnlock` says `CRASH("INVALID_UNLOCK_ORDER")`
  (`Lock.cpp:49-50`) of guards that are released in the right order, when the
  thread itself holds an older read guard under its write guard (write, read,
  write). No caller in this commit uses `READ_LOCK`.

## 7. Not modelled

The relays for doors, locks, drawers and things picked up (`ACTION_*` other than
the hand light), which send a packet on to the room and keep nothing on the
server, and the client objects they are about: the client's packet handlers are
not in the repository, so that what a client does with them cannot be read from
the code. `BroadCase` and `GSessionManager.Broadcast`, which have no caller;
`ClientService` and `RegisterConnect`, which the server does not use; `Join`, which
waits for threads that never end; the branch of `RegisterSend` without `SINGLE`
(`CoreMacro.h:12` defines a macro of this name, so that the branch is never
compiled); serialisation, sockets and the clock; rendering and input of the
client; vendored and generated code, which is most of the repository's lines.

`JobTimer::Reserve`, which only `DoTimer` calls, and `READ_LOCK` are not used by
anything in this commit: what `JobTimer` says of jobs that wait, and `Lock` of
readers, is about the component and not about the running server.

References are let go at the end of a job in `GameRooms`: the executor of a queue
keeps the jobs of a batch until it has run them all, and a caller of `DoAsync` its
room until the call returns, so that in the code a room that is not found any
more may be destroyed somewhat later than in the model. `_hostPlayer` is left
out, since it only makes a line of log.

Liveness of `RoomPlay` is not checked: with jobs that run, it would say that
moves arrive, and symmetry and the size of the model leave no room for it.

## 8. Plan

Done, in this order: job queue and its proofs, game logic, session, lock and
its proofs, packet framing, deadlock profiler, job timer, listener, play in a
room, the proofs of timer, listener, session, game logic and play in a room,
the proofs of the receive buffer and of the deadlock profiler, whose search and
whose parsing are steps of their own for them. What is left:

1. `JobQueue` with several queues: a room's queue and the `RoomManager`'s run by
   the same threads, and what a stranded room does to its players.
2. The relays and the client's objects, should the client's packet handlers
   come into the repository.
