--------------------------- MODULE GameRoomsProofs ---------------------------
(***************************************************************************)
(* Proofs about GameRooms, for any number of sessions, players, rooms,     *)
(* packets and disconnections.                                             *)
(***************************************************************************)
EXTENDS GameRooms, FiniteSetTheorems, FunctionTheorems, SequenceTheorems, TLAPS

-----------------------------------------------------------------------------
(* Jobs and handlers, by their types.                                      *)
ManagerJobs ==
  [kind : {"inside"}, player : Players, room : Rooms]
    \cup [kind : {"create"}, player : Players]
    \cup [kind : {"delete"}, room : Rooms]
RoomJobs == [kind : {"host", "enter", "leave", "start", "end"},
             player : Players]
Jobs == ManagerJobs \cup RoomJobs
JobsOf(q) == IF q = GRoom THEN ManagerJobs ELSE RoomJobs

InRoomKinds == {"leave", "start", "end"}
Handlers ==
  {Idle} \cup [kind : {"inside"}, room : Rooms] \cup [kind : {"create"}]
    \cup [kind : InRoomKinds, room : Rooms, player : Players]

Types ==
  /\ TypeOK
  /\ handler \in [Sessions -> Handlers]
  /\ jobs \in [Queues -> Seq(Jobs)]
  /\ \A q \in Queues : \A i \in DOMAIN jobs[q] : jobs[q][i] \in JobsOf(q)

(* Creations that are posted have a room left.                             *)
CreatesFit == created + CreatesPosted <= MaxRooms

(* Nobody knows a room that has not been created.                          *)
Fresh ==
  \A r \in Rooms : r > created =>
    /\ jobs[r] = <<>> /\ members[r] = {} /\ ~isStart[r]
    /\ \A p \in Players : roomOf[p] # r
    /\ \A s \in Sessions :
         /\ target[s] # r
         /\ handler[s].kind \in InRoomKinds => handler[s].room # r

(* How far a job is agrees with what it is.                                *)
Runs(r) == Head(jobs[r]).player
Entering(r) == phase[r] \in {"hosting", "entered", "listed"}
Phases ==
  \A r \in Rooms :
    /\ phase[r] # "idle" => jobs[r] # <<>>
    /\ phase[r] = "hosting" => Head(jobs[r]).kind = "host"
    /\ phase[r] \in {"entered", "listed"} => Head(jobs[r]).kind = "enter"
    /\ phase[r] = "left" => Head(jobs[r]).kind = "leave"

(* Jobs that bring a player into a room: each player has one at most.      *)
JoinKinds == {"inside", "create", "host", "enter"}
Ticket(q, i, p) ==
  /\ q \in Queues /\ i \in DOMAIN jobs[q]
  /\ jobs[q][i].kind \in JoinKinds /\ jobs[q][i].player = p
Tickets ==
  /\ \A q \in Queues : \A i \in DOMAIN jobs[q] :
       jobs[q][i].kind \in JoinKinds => jobs[q][i].player <= Len(owner)
  /\ \A p \in Players : \A q, k \in Queues :
       \A i \in DOMAIN jobs[q], m \in DOMAIN jobs[k] :
         Ticket(q, i, p) /\ Ticket(k, m, p) => q = k /\ i = m

(* A player that has not tried to enter a room yet is nowhere.             *)
Unborn(p) ==
  \/ p > Len(owner)
  \/ \E q \in Queues : \E i \in DOMAIN jobs[q] :
       Ticket(q, i, p) /\ ~(q \in Rooms /\ i = 1 /\ Entering(q))
NotYet ==
  \A p \in Players : Unborn(p) =>
    /\ roomOf[p] = None /\ view[p] = {}
    /\ \A s \in Sessions : player[s] = p => target[s] = None

(* Sessions, their players, and the room OnDisconnected is in.             *)
SessionsAgree ==
  \A s \in Sessions :
    /\ player[s] # None => player[s] <= Len(owner) /\ owner[player[s]] = s
    /\ handler[s].kind \in {"inside", "create"} => player[s] = None
    /\ leaving[s] \in {"inside", "left"} => target[s] # None
    /\ leaving[s] \in {"no", "done"} => target[s] = None
    /\ target[s] # None => player[s] # None
    /\ leaving[s] = "inside" => roomOf[player[s]] \in {target[s], None}
    /\ leaving[s] = "left" => roomOf[player[s]] = None
    /\ leaving[s] = "out" /\ target[s] # None => roomOf[player[s]] = None

(* Membership, with the room's life spelled out.                           *)
Agree ==
  \A r \in Rooms, p \in Players :
    p \in members[r] <=> roomOf[p] = r /\ Alive(r)

(* The job that brings the host in comes to an empty room that has not     *)
(* started, before any other job of the room: the path on which a host is  *)
(* refused and takes the room with it is never used.                       *)
HostComesFirst ==
  \A r \in Rooms : \A i \in DOMAIN jobs[r] :
    jobs[r][i].kind = "host" =>
      i = 1 /\ (phase[r] = "hosting" \/ (members[r] = {} /\ ~isStart[r]))

(* What a room and its clients can rely on while a job is running.         *)
Running ==
  \A r \in Rooms :
    /\ phase[r] = "left" => ~Unborn(Runs(r)) /\ roomOf[Runs(r)] = None
    /\ Entering(r) => roomOf[Runs(r)] \in {r, None}
    /\ phase[r] = "hosting" => members[r] \subseteq {Runs(r)}
    /\ phase[r] \in {"hosting", "entered"} => view[Runs(r)] = {}
    /\ Entering(r) => \/ Runs(r) \in members[r]
                      \/ leaving[owner[Runs(r)]] # "no"
    /\ phase[r] = "listed" =>
         /\ members[r] \subseteq snapshot[r]
         /\ Runs(r) \in members[r] =>
              \A q \in members[r] : Runs(r) \in view[q]
         /\ \A q \in snapshot[r] \ members[r] :
              q <= Len(owner) /\ leaving[owner[q]] # "no"

(* Who is shown has been made.                                             *)
ViewsAreMade == \A p, q \in Players : q \in view[p] => q <= Len(owner)

(* Deletions are of rooms that have been left empty.                       *)
Deletes ==
  /\ \A i \in DOMAIN jobs[GRoom] :
       jobs[GRoom][i].kind = "delete" => jobs[GRoom][i].room \in emptied
  /\ \A r \in Rooms :
       /\ members[r] = {}
       /\ \/ phase[r] = "left"
          \/ \E s \in Sessions : leaving[s] = "left" /\ target[s] = r
       => r \in emptied

(* The inductive invariant.                                                *)
IInv ==
  /\ Types
  /\ CreatesFit
  /\ Fresh
  /\ Phases
  /\ Tickets
  /\ NotYet
  /\ SessionsAgree
  /\ Agree
  /\ HostComesFirst
  /\ Running
  /\ MembersAreKnown
  /\ ViewsAreMade
  /\ StaleViewsComeFromDisconnect
  /\ Deletes
  /\ OnlyEmptiedRoomsAreDeleted

-----------------------------------------------------------------------------
(* What a job of a queue carries.                                          *)
LEMMA RoomJobFacts ==
  ASSUME NEW j \in RoomJobs
  PROVE  /\ j.kind \in {"host", "enter", "leave", "start", "end"}
         /\ j.player \in Players
BY DEF RoomJobs

(* What a job of the RoomManager carries.                                  *)
LEMMA ManagerJobFacts ==
  ASSUME NEW j \in ManagerJobs
  PROVE  \/ j.kind = "inside" /\ j.player \in Players /\ j.room \in Rooms
         \/ j.kind = "create" /\ j.player \in Players
         \/ j.kind = "delete" /\ j.room \in Rooms
<1>1. \/ j \in [kind : {"inside"}, player : Players, room : Rooms]
      \/ j \in [kind : {"create"}, player : Players]
      \/ j \in [kind : {"delete"}, room : Rooms]
  BY DEF ManagerJobs
<1>2. CASE j \in [kind : {"inside"}, player : Players, room : Rooms]
  BY <1>2
<1>3. CASE j \in [kind : {"create"}, player : Players]
  BY <1>3
<1>4. CASE j \in [kind : {"delete"}, room : Rooms]
  BY <1>4
<1> QED
  BY <1>1, <1>2, <1>3, <1>4

(* What a packet handler holds between reading and posting.                *)
LEMMA HandlerFacts ==
  ASSUME NEW h \in Handlers
  PROVE  \/ h = Idle /\ h.kind = "none"
         \/ h.kind = "inside" /\ h.room \in Rooms
         \/ h.kind = "create"
         \/ h.kind \in InRoomKinds /\ h.room \in Rooms /\ h.player \in Players
<1>1. \/ h = Idle
      \/ h \in [kind : {"inside"}, room : Rooms]
      \/ h \in [kind : {"create"}]
      \/ h \in [kind : InRoomKinds, room : Rooms, player : Players]
  BY DEF Handlers
<1>2. CASE h = Idle
  BY <1>2 DEF Idle
<1>3. CASE h \in [kind : {"inside"}, room : Rooms]
  BY <1>3
<1>4. CASE h \in [kind : {"create"}]
  BY <1>4
<1>5. CASE h \in [kind : InRoomKinds, room : Rooms, player : Players]
  BY <1>5 DEF InRoomKinds
<1> QED
  BY <1>1, <1>2, <1>3, <1>4, <1>5

(* Queues and ids.                                                         *)
LEMMA Ids ==
  /\ Players \subseteq Nat /\ Rooms \subseteq Nat /\ GRoom \notin Rooms
  /\ Rooms \subseteq Queues /\ GRoom \in Queues
  /\ \A q \in Queues : q # GRoom => q \in Rooms
  /\ None \notin Players /\ None \notin Rooms
BY BoundsAssumption, NoneAssumption DEF Players, Rooms, Queues, GRoom

(* A step takes the heads of some queues and adds a job to the end of some *)
(* others.                                                                 *)
JobStep(P, Q, j) ==
  /\ P \cap Q = {}
  /\ Q # {} => j \in Jobs
  /\ jobs' = [q \in Queues |-> jobs'[q]]
  /\ \A q \in Queues :
       /\ q \in P => jobs[q] # <<>> /\ jobs'[q] = Tail(jobs[q])
       /\ q \in Q => jobs'[q] = Append(jobs[q], j)
       /\ q \notin P \cup Q => jobs'[q] = jobs[q]

(* Where the jobs of a queue come from.                                    *)
LEMMA JobsComeFrom ==
  ASSUME Types, NEW P, NEW Q, NEW j, JobStep(P, Q, j),
         NEW q \in Queues, NEW i \in DOMAIN jobs'[q]
  PROVE  \/ q \in Q /\ i = Len(jobs[q]) + 1 /\ jobs'[q][i] = j
         \/ q \in P /\ i + 1 \in DOMAIN jobs[q]
              /\ jobs'[q][i] = jobs[q][i + 1]
         \/ q \notin P /\ i \in DOMAIN jobs[q] /\ jobs'[q][i] = jobs[q][i]
<1>1. jobs[q] \in Seq(Jobs)
  BY DEF Types
<1>2. CASE q \in P
  <2>1. jobs[q] # <<>> /\ jobs'[q] = Tail(jobs[q])
    BY <1>2 DEF JobStep
  <2>2. /\ Len(Tail(jobs[q])) = Len(jobs[q]) - 1
        /\ DOMAIN jobs[q] = 1 .. Len(jobs[q])
        /\ DOMAIN Tail(jobs[q]) = 1 .. Len(jobs[q]) - 1
        /\ \A k \in 1 .. Len(jobs[q]) - 1 : Tail(jobs[q])[k] = jobs[q][k + 1]
    BY <1>1, <2>1
  <2> QED
    BY <1>1, <1>2, <2>1, <2>2
<1>3. CASE q \in Q
  <2>1. jobs'[q] = Append(jobs[q], j) /\ q \notin P /\ j \in Jobs
    BY <1>3 DEF JobStep
  <2> QED
    BY <1>1, <1>3, <2>1
<1>4. CASE q \notin P \cup Q
  BY <1>1, <1>4 DEF JobStep
<1> QED
  BY <1>2, <1>3, <1>4

(* The head of a queue stays unless it is taken.                           *)
LEMMA HeadStays ==
  ASSUME Types, NEW P, NEW Q, NEW j, JobStep(P, Q, j),
         NEW q \in Queues, q \notin P, jobs[q] # <<>>
  PROVE  /\ jobs'[q] # <<>> /\ Head(jobs'[q]) = Head(jobs[q])
         /\ 1 \in DOMAIN jobs[q] /\ jobs[q][1] = Head(jobs[q])
<1>1. jobs[q] \in Seq(Jobs)
  BY DEF Types
<1>2. \/ jobs'[q] = jobs[q]
      \/ jobs'[q] = Append(jobs[q], j) /\ j \in Jobs
  BY DEF JobStep
<1> QED
  BY <1>1, <1>2

(* The ways the model writes a change of the queues, as JobSteps.          *)
LEMMA JobForms ==
  ASSUME Types
  PROVE  /\ \A j : UNCHANGED jobs => JobStep({}, {}, j)
         /\ \A q \in Queues : \A j \in Jobs :
              jobs' = Post(jobs, q, j) => JobStep({}, {q}, j)
         /\ \A q \in Queues : \A j :
              jobs[q] # <<>> /\ jobs' = [jobs EXCEPT ![q] = Tail(@)]
                => JobStep({q}, {}, j)
         /\ \A q, k \in Queues : \A j \in Jobs :
              /\ q # k /\ jobs[q] # <<>>
              /\ jobs' = Post([jobs EXCEPT ![q] = Tail(@)], k, j)
              => JobStep({q}, {k}, j)
<1>1. jobs \in [Queues -> Seq(Jobs)]
  BY DEF Types
<1>2. ASSUME NEW j, UNCHANGED jobs PROVE JobStep({}, {}, j)
  BY <1>1, <1>2 DEF JobStep
<1>3. ASSUME NEW q \in Queues, NEW j \in Jobs, jobs' = Post(jobs, q, j)
      PROVE JobStep({}, {q}, j)
  BY <1>1, <1>3 DEF JobStep, Post
<1>4. ASSUME NEW q \in Queues, NEW j, jobs[q] # <<>>,
             jobs' = [jobs EXCEPT ![q] = Tail(@)]
      PROVE JobStep({q}, {}, j)
  BY <1>1, <1>4 DEF JobStep
<1>5. ASSUME NEW q \in Queues, NEW k \in Queues, NEW j \in Jobs, q # k,
             jobs[q] # <<>>,
             jobs' = Post([jobs EXCEPT ![q] = Tail(@)], k, j)
      PROVE JobStep({q}, {k}, j)
  <2> DEFINE js == [jobs EXCEPT ![q] = Tail(@)]
  <2>1. /\ js = [l \in Queues |-> IF l = q THEN Tail(jobs[q]) ELSE jobs[l]]
        /\ jobs' = [js EXCEPT ![k] = Append(@, j)]
    BY <1>1, <1>5 DEF Post
  <2> HIDE DEF js
  <2>2. jobs' = [l \in Queues |-> IF l = k THEN Append(js[k], j) ELSE js[l]]
    BY <2>1
  <2>3. /\ js[k] = jobs[k] /\ js[q] = Tail(jobs[q])
        /\ \A l \in Queues : l # q => js[l] = jobs[l]
    BY <1>5, <2>1
  <2>4. /\ jobs'[q] = Tail(jobs[q]) /\ jobs'[k] = Append(jobs[k], j)
        /\ \A l \in Queues : l # q /\ l # k => jobs'[l] = jobs[l]
    BY <1>5, <2>2, <2>3
  <2>5. jobs' = [l \in Queues |-> jobs'[l]] /\ {q} \cap {k} = {}
    BY <1>5, <2>2
  <2> QED
    BY <1>5, <2>4, <2>5 DEF JobStep
<1> QED
  BY <1>2, <1>3, <1>4, <1>5

(* A JobStep keeps the types of the jobs.                                  *)
LEMMA JobTypes ==
  ASSUME Types, NEW P, NEW Q, NEW j, JobStep(P, Q, j),
         \A q \in Q : j \in JobsOf(q)
  PROVE  /\ jobs' \in [Queues -> Seq(Jobs)]
         /\ \A q \in Queues : \A i \in DOMAIN jobs'[q] :
              jobs'[q][i] \in JobsOf(q)
<1>1. ASSUME NEW q \in Queues PROVE jobs'[q] \in Seq(Jobs)
  <2>1. jobs[q] \in Seq(Jobs)
    BY DEF Types
  <2>2. \/ jobs'[q] = jobs[q]
        \/ jobs'[q] = Append(jobs[q], j) /\ j \in Jobs
        \/ jobs[q] # <<>> /\ jobs'[q] = Tail(jobs[q])
    BY DEF JobStep
  <2>3. CASE jobs[q] # <<>> /\ jobs'[q] = Tail(jobs[q])
    BY <2>1, <2>3
  <2>4. CASE jobs'[q] = Append(jobs[q], j) /\ j \in Jobs
    BY <2>1, <2>4
  <2> QED
    BY <2>1, <2>2, <2>3, <2>4
<1>2. jobs' = [q \in Queues |-> jobs'[q]]
  BY DEF JobStep
<1>3. ASSUME NEW q \in Queues, NEW i \in DOMAIN jobs'[q]
      PROVE jobs'[q][i] \in JobsOf(q)
  <2>1. \A k \in DOMAIN jobs[q] : jobs[q][k] \in JobsOf(q)
    BY DEF Types
  <2> QED
    BY <2>1, JobsComeFrom
<1> QED
  BY <1>1, <1>2, <1>3

-----------------------------------------------------------------------------
(* The steps, one by one: those of the RoomManager and of a room by the    *)
(* job they are of.                                                        *)
ManagerJob == Head(jobs[GRoom])
Creates == RunManager /\ ManagerJob.kind = "create"
  /\ GameCreate(ManagerJob.player)
Lets == RunManager /\ ManagerJob.kind = "inside"
          /\ GameInside(ManagerJob.player, ManagerJob.room)
Forgets == RunManager /\ ManagerJob.kind = "delete"
  /\ GameDelete(ManagerJob.room)

In(r, kind, step) ==
  /\ ~halted /\ phase[r] = step /\ Head(jobs[r]).kind = kind
  /\ UNCHANGED <<sessionVars, leaveVars, managerVars, halted>>
HostBegins(r) == In(r, "host", "begun") /\ HostBegun(r, Runs(r))
HostEnds(r) == In(r, "host", "hosting") /\ HostTold(r, Runs(r))
EnterBegins(r) == In(r, "enter", "begun") /\ EnterBegun(r, Runs(r))
EnterTells(r) == In(r, "enter", "entered") /\ EnterTold(r, Runs(r))
EnterEnds(r) == In(r, "enter", "listed") /\ EnterListed(r, Runs(r))
LeaveBegins(r) == In(r, "leave", "begun") /\ LeaveBegun(r, Runs(r))
LeaveEnds(r) == In(r, "leave", "left") /\ LeaveTold(r, Runs(r))
Starts(r) == In(r, "start", phase[r]) /\ phase[r] # "idle" /\ GameStart(r)
Ends(r) == In(r, "end", phase[r]) /\ phase[r] # "idle" /\ GameEnd(r)

(* Every step is one of them.                                              *)
LEMMA StepCases ==
  ASSUME [Next]_vars
  PROVE  \/ \E s \in Sessions :
              \/ Receive(s) \/ PostJoin(s) \/ PostToRoom(s)
              \/ DisconnectLook(s) \/ DisconnectLeave(s)
              \/ DisconnectTell(s) \/ DisconnectDone(s)
         \/ Creates \/ Lets \/ Forgets
         \/ \E r \in Rooms :
              \/ BeginJob(r) \/ HostBegins(r) \/ HostEnds(r)
              \/ EnterBegins(r) \/ EnterTells(r) \/ EnterEnds(r)
              \/ LeaveBegins(r) \/ LeaveEnds(r) \/ Starts(r) \/ Ends(r)
              \/ Collide(r)
         \/ UNCHANGED vars
<1>1. ASSUME RunManager PROVE Creates \/ Lets \/ Forgets
  BY <1>1 DEF RunManager, Creates, Lets, Forgets, ManagerJob
<1>2. ASSUME NEW r \in Rooms, RunRoom(r)
      PROVE  \/ HostBegins(r) \/ HostEnds(r)
             \/ EnterBegins(r) \/ EnterTells(r) \/ EnterEnds(r)
             \/ LeaveBegins(r) \/ LeaveEnds(r) \/ Starts(r) \/ Ends(r)
  BY <1>2 DEF RunRoom, HostBegins, HostEnds, EnterBegins, EnterTells,
     EnterEnds, LeaveBegins, LeaveEnds, Starts, Ends, In, Runs
<1> QED
  BY <1>1, <1>2 DEF Next, RoomStep, HandlerStep, DisconnectStep

-----------------------------------------------------------------------------
(* Creations that wait in a queue: one more at its end, one less at its    *)
(* head.                                                                   *)
Creations(s) == {i \in DOMAIN s : s[i].kind = "create"}

(* The creations in a queue are finitely many.                             *)
LEMMA CreationsFinite ==
  ASSUME NEW s \in Seq(Jobs)
  PROVE  IsFiniteSet(Creations(s)) /\ Cardinality(Creations(s)) \in Nat
<1>1. Creations(s) \in SUBSET (1 .. Len(s)) /\ 1 \in Int /\ Len(s) \in Int
  BY DEF Creations
<1>2. IsFiniteSet(1 .. Len(s))
  BY <1>1, FS_Interval
<1> QED
  BY <1>1, <1>2, FS_Subset, FS_CardinalityType

(* A job at the end of a queue counts if it is a creation.                 *)
LEMMA CreationsAppend ==
  ASSUME NEW s \in Seq(Jobs), NEW j \in Jobs
  PROVE  Cardinality(Creations(Append(s, j))) =
           Cardinality(Creations(s)) + IF j.kind = "create" THEN 1 ELSE 0
<1>1. /\ DOMAIN Append(s, j) = DOMAIN s \cup {Len(s) + 1}
      /\ Len(s) + 1 \notin DOMAIN s
      /\ \A i \in DOMAIN s : Append(s, j)[i] = s[i]
      /\ Append(s, j)[Len(s) + 1] = j
  OBVIOUS
<1>2. CASE j.kind = "create"
  <2>1. /\ Creations(Append(s, j)) = Creations(s) \cup {Len(s) + 1}
        /\ Len(s) + 1 \notin Creations(s)
    BY <1>1, <1>2 DEF Creations
  <2> QED
    BY <1>2, <2>1, CreationsFinite, FS_AddElement
<1>3. CASE j.kind # "create"
  <2>1. Creations(Append(s, j)) = Creations(s)
    BY <1>1, <1>3 DEF Creations
  <2> QED
    BY <1>3, <2>1, CreationsFinite
<1> QED
  BY <1>2, <1>3

(* A job taken from a queue no longer counts.                              *)
LEMMA CreationsTail ==
  ASSUME NEW s \in Seq(Jobs), s # <<>>
  PROVE  Cardinality(Creations(s)) =
           Cardinality(Creations(Tail(s)))
             + IF Head(s).kind = "create" THEN 1 ELSE 0
<1> DEFINE A == Creations(Tail(s))
           B == Creations(s) \ {1}
           f == [i \in A |-> i + 1]
<1>1. /\ DOMAIN Tail(s) = 1 .. Len(s) - 1 /\ DOMAIN s = 1 .. Len(s)
      /\ Len(s) \in Nat /\ Len(s) > 0 /\ s[1] = Head(s)
      /\ \A i \in 1 .. Len(s) - 1 : Tail(s)[i] = s[i + 1]
  OBVIOUS
<1>2. A \subseteq Nat /\ \A i \in A : i + 1 \in B
  BY <1>1 DEF Creations
<1>3. \A k \in B : k - 1 \in A
  <2>1. ASSUME NEW k \in B PROVE k - 1 \in A
    <3>1. k \in 2 .. Len(s) /\ s[k].kind = "create"
      BY <1>1 DEF Creations
    <3>2. k - 1 \in 1 .. Len(s) - 1 /\ Tail(s)[k - 1] = s[k]
      BY <1>1, <3>1
    <3> QED
      BY <1>1, <3>1, <3>2 DEF Creations
  <2> QED
    BY <2>1
<1>4. f \in Bijection(A, B)
  <2>1. f \in [A -> B]
    BY <1>2
  <2>2. \A i, k \in A : f[i] = f[k] => i = k
    BY <1>2
  <2>3. \A k \in B : \E i \in A : f[i] = k
    <3>1. ASSUME NEW k \in B PROVE \E i \in A : f[i] = k
      <4>1. k - 1 \in A /\ k \in Nat
        BY <1>1, <1>3 DEF Creations
      <4>2. f[k - 1] = k
        BY <4>1
      <4> QED
        BY <4>1, <4>2
    <3> QED
      BY <3>1
  <2> HIDE DEF f, A, B
  <2>4. f \in Injection(A, B)
    BY <2>1, <2>2 DEF Injection, IsInjective
  <2>5. f \in Surjection(A, B)
    BY <2>1, <2>3 DEF Surjection
  <2> QED
    BY <2>4, <2>5 DEF Bijection
<1>5. Tail(s) \in Seq(Jobs)
  OBVIOUS
<1>6. Cardinality(B) = Cardinality(A) /\ IsFiniteSet(B)
  <2>1. ExistsBijection(A, B) /\ IsFiniteSet(A)
    BY <1>4, <1>5, CreationsFinite DEF ExistsBijection
  <2> HIDE DEF A, B
  <2> QED
    BY <2>1, FS_Bijection
<1>7. CASE Head(s).kind = "create"
  <2>1. 1 \in Creations(s) /\ IsFiniteSet(Creations(s))
    BY <1>1, <1>7, CreationsFinite DEF Creations
  <2>2. Cardinality(B) = Cardinality(Creations(s)) - 1
    BY <2>1, FS_RemoveElement
  <2> QED
    BY <1>6, <1>7, <2>2, CreationsFinite
<1>8. CASE Head(s).kind # "create"
  <2>1. B = Creations(s)
    BY <1>1, <1>8 DEF Creations
  <2>2. Cardinality(Creations(s)) = Cardinality(Creations(Tail(s)))
    BY <1>6, <2>1
  <2> QED
    BY <1>5, <1>8, <2>2, CreationsFinite
<1> QED
  BY <1>7, <1>8

(* What is counted in CreatesFit, by what a step does to the queue.        *)
LEMMA CreatesCount ==
  ASSUME Types, NEW P, NEW Q, NEW j, JobStep(P, Q, j)
  PROVE  /\ CreatesPosted \in Nat
         /\ GRoom \notin P \cup Q => CreatesPosted' = CreatesPosted
         /\ GRoom \in Q => CreatesPosted' =
              CreatesPosted + IF j.kind = "create" THEN 1 ELSE 0
         /\ GRoom \in P => CreatesPosted =
              CreatesPosted' + IF ManagerJob.kind = "create" THEN 1 ELSE 0
<1>1. /\ CreatesPosted = Cardinality(Creations(jobs[GRoom]))
      /\ CreatesPosted' = Cardinality(Creations(jobs'[GRoom]))
      /\ jobs[GRoom] \in Seq(Jobs) /\ GRoom \in Queues
  BY Ids DEF CreatesPosted, Creations, Types
<1>2. CreatesPosted \in Nat
  BY <1>1, CreationsFinite
<1>3. CASE GRoom \notin P \cup Q
  <2>1. jobs'[GRoom] = jobs[GRoom]
    BY <1>1, <1>3 DEF JobStep
  <2> QED
    BY <1>1, <1>2, <1>3, <2>1
<1>4. CASE GRoom \in Q
  <2>1. jobs'[GRoom] = Append(jobs[GRoom], j) /\ j \in Jobs /\ GRoom \notin P
    BY <1>1, <1>4 DEF JobStep
  <2> QED
    BY <1>1, <1>2, <1>4, <2>1, CreationsAppend
<1>5. CASE GRoom \in P
  <2>1. jobs'[GRoom] = Tail(jobs[GRoom]) /\ jobs[GRoom] # <<>>
          /\ GRoom \notin Q
    BY <1>1, <1>5 DEF JobStep
  <2> QED
    BY <1>1, <1>2, <1>5, <2>1, CreationsTail DEF ManagerJob
<1> QED
  BY <1>3, <1>4, <1>5

(* The heads that are run.                                                 *)
LEMMA ManagerRuns ==
  ASSUME Types, jobs[GRoom] # <<>>
  PROVE  /\ ManagerJob \in ManagerJobs /\ 1 \in DOMAIN jobs[GRoom]
         /\ ManagerJob = jobs[GRoom][1]
<1>1. jobs[GRoom] \in Seq(Jobs) /\ JobsOf(GRoom) = ManagerJobs
  BY Ids DEF Types, JobsOf
<1>2. 1 \in DOMAIN jobs[GRoom] /\ ManagerJob = jobs[GRoom][1]
  BY <1>1 DEF ManagerJob
<1> QED
  BY <1>1, <1>2, Ids DEF Types

(* The head of a room's queue is a job of a room.                          *)
LEMMA RoomRuns ==
  ASSUME Types, NEW r \in Rooms, jobs[r] # <<>>
  PROVE  /\ Head(jobs[r]) \in RoomJobs /\ Runs(r) \in Players
         /\ 1 \in DOMAIN jobs[r] /\ Head(jobs[r]) = jobs[r][1]
<1>1. jobs[r] \in Seq(Jobs) /\ JobsOf(r) = RoomJobs
  BY Ids DEF Types, JobsOf
<1>2. 1 \in DOMAIN jobs[r] /\ Head(jobs[r]) = jobs[r][1]
  BY <1>1
<1>3. Head(jobs[r]) \in RoomJobs
  BY <1>1, <1>2, Ids DEF Types
<1> QED
  BY <1>2, <1>3, RoomJobFacts DEF Runs

-----------------------------------------------------------------------------
(* The steps on the queues, as JobSteps.                                   *)
LEMMA PostJoinJobs ==
  ASSUME Types, NEW s \in Sessions, PostJoin(s)
  PROVE  /\ Len(owner) + 1 \in Players
         /\ \E j \in ManagerJobs :
              /\ j.kind \in {"inside", "create"}
              /\ j.player = Len(owner) + 1
              /\ j.kind = "create" => created + CreatesPosted < MaxRooms
              /\ JobStep({}, {GRoom}, j)
<1>1. /\ Len(owner) \in Nat /\ Len(owner) < MaxPlayers
      /\ handler[s].kind \in {"inside", "create"}
      /\ handler[s].kind = "create" => created + CreatesPosted < MaxRooms
  BY DEF PostJoin, Types, TypeOK
<1>2. Len(owner) + 1 \in Players
  BY <1>1, BoundsAssumption DEF Players
<1> DEFINE p == Len(owner) + 1
           j == IF handler[s].kind = "inside"
                THEN [kind |-> "inside", player |-> p,
                  room |-> handler[s].room]
                ELSE [kind |-> "create", player |-> p]
<1>3. jobs' = Post(jobs, GRoom, j)
  BY DEF PostJoin
<1>4. CASE handler[s].kind = "inside"
  <2>1. handler[s].room \in Rooms
    BY <1>4, HandlerFacts DEF Types, InRoomKinds
  <2>2. /\ j = [kind |-> "inside", player |-> p, room |-> handler[s].room]
        /\ j.kind = "inside" /\ j.player = p /\ j \in ManagerJobs
    BY <1>2, <1>4, <2>1 DEF ManagerJobs
  <2> HIDE DEF j
  <2>3. JobStep({}, {GRoom}, j)
    BY <1>3, <2>2, JobForms, Ids DEF Jobs
  <2> QED
    BY <1>2, <2>2, <2>3
<1>5. CASE handler[s].kind = "create"
  <2>1. /\ j = [kind |-> "create", player |-> p]
        /\ j.kind = "create" /\ j.player = p /\ j \in ManagerJobs
    BY <1>2, <1>5 DEF ManagerJobs
  <2> HIDE DEF j
  <2>2. JobStep({}, {GRoom}, j)
    BY <1>3, <2>1, JobForms, Ids DEF Jobs
  <2> QED
    BY <1>1, <1>2, <1>5, <2>1, <2>2
<1> QED
  BY <1>1, <1>4, <1>5

(* A job for a room that a handler holds.                                  *)
LEMMA PostToRoomJobs ==
  ASSUME Types, NEW s \in Sessions, PostToRoom(s)
  PROVE  /\ handler[s].room \in Rooms
         /\ \E j \in RoomJobs :
              /\ j.kind \in InRoomKinds /\ j.kind = handler[s].kind
              /\ j.player = handler[s].player
              /\ JobStep({}, {handler[s].room}, j)
<1> DEFINE h == handler[s]
           j == [kind |-> h.kind, player |-> h.player]
<1>1. h.kind \in InRoomKinds /\ h.room \in Rooms /\ h.player \in Players
  <2>1. h \in Handlers /\ h.kind \in {"leave", "start", "end"}
    BY DEF Types, PostToRoom
  <2> HIDE DEF h
  <2> QED
    BY <2>1, HandlerFacts DEF InRoomKinds
<1>2. j \in RoomJobs /\ j.kind = h.kind /\ j.player = h.player
  BY <1>1 DEF RoomJobs, InRoomKinds
<1>3. jobs' = Post(jobs, h.room, j)
  BY DEF PostToRoom
<1> HIDE DEF j
<1>4. JobStep({}, {h.room}, j)
  BY <1>1, <1>2, <1>3, JobForms, Ids DEF Jobs
<1> QED
  BY <1>1, <1>2, <1>4

(* A creation becomes the host's job, in the next room's queue.            *)
LEMMA CreatesJobs ==
  ASSUME Types, CreatesFit, Creates
  PROVE  /\ created + 1 \in Rooms /\ ManagerJob.player \in Players
         /\ jobs[GRoom] # <<>>
         /\ \E j \in RoomJobs :
              /\ j.kind = "host" /\ j.player = ManagerJob.player
              /\ JobStep({GRoom}, {created + 1}, j)
<1>1. jobs[GRoom] # <<>> /\ ManagerJob.kind = "create"
  BY DEF Creates, RunManager
<1>2. ManagerJob.player \in Players
  BY <1>1, ManagerRuns, ManagerJobFacts
<1>3. created + 1 \in Rooms
  <2>1. CreatesPosted # 0
    <3>1. 1 \in Creations(jobs[GRoom])
      BY <1>1, ManagerRuns DEF Creations
    <3>2. jobs[GRoom] \in Seq(Jobs)
      BY Ids DEF Types
    <3> QED
      BY <3>1, <3>2, CreationsFinite, FS_EmptySet
         DEF CreatesPosted, Creations
  <2>2. CreatesPosted \in Nat
    <3>1. jobs[GRoom] \in Seq(Jobs)
      BY Ids DEF Types
    <3> QED
      BY <3>1, CreationsFinite DEF CreatesPosted, Creations
  <2> QED
    BY <2>1, <2>2, BoundsAssumption DEF CreatesFit, Types, TypeOK, Rooms
<1> DEFINE j == [kind |-> "host", player |-> ManagerJob.player]
<1>4. j \in RoomJobs /\ j.kind = "host" /\ j.player = ManagerJob.player
  BY <1>2 DEF RoomJobs
<1>5. jobs' = Post([jobs EXCEPT ![GRoom] = Tail(@)], created + 1, j)
  BY DEF Creates, GameCreate, NewRoomId
<1> HIDE DEF j
<1>6. JobStep({GRoom}, {created + 1}, j)
  BY <1>1, <1>3, <1>4, <1>5, JobForms, Ids DEF Jobs
<1> QED
  BY <1>1, <1>2, <1>3, <1>4, <1>6

(* A job to enter goes on to its room, if _rooms has it.                   *)
LEMMA LetsJobs ==
  ASSUME Types, Lets
  PROVE  /\ ManagerJob.player \in Players /\ ManagerJob.room \in Rooms
         /\ jobs[GRoom] # <<>> /\ ManagerJob.kind = "inside"
         /\ \/ JobStep({GRoom}, {}, 0)
            \/ /\ ManagerJob.room \in rooms
               /\ \E j \in RoomJobs :
                    /\ j.kind = "enter" /\ j.player = ManagerJob.player
                    /\ JobStep({GRoom}, {ManagerJob.room}, j)
<1>1. jobs[GRoom] # <<>> /\ ManagerJob.kind = "inside"
  BY DEF Lets, RunManager
<1>2. ManagerJob.player \in Players /\ ManagerJob.room \in Rooms
  BY <1>1, ManagerRuns, ManagerJobFacts
<1> DEFINE j == [kind |-> "enter", player |-> ManagerJob.player]
<1>3. j \in RoomJobs /\ j.kind = "enter" /\ j.player = ManagerJob.player
  BY <1>2 DEF RoomJobs
<1>4. \/ jobs' = [jobs EXCEPT ![GRoom] = Tail(@)]
      \/ /\ ManagerJob.room \in rooms
         /\ jobs' = Post([jobs EXCEPT ![GRoom] = Tail(@)], ManagerJob.room, j)
  BY DEF Lets, GameInside
<1> HIDE DEF j
<1>5. CASE jobs' = [jobs EXCEPT ![GRoom] = Tail(@)]
  BY <1>1, <1>2, <1>5, JobForms, Ids
<1>6. CASE /\ ManagerJob.room \in rooms
           /\ jobs' = Post([jobs EXCEPT ![GRoom] = Tail(@)], ManagerJob.room,
                j)
  <2>1. JobStep({GRoom}, {ManagerJob.room}, j)
    BY <1>1, <1>2, <1>3, <1>6, JobForms, Ids DEF Jobs
  <2> QED
    BY <1>1, <1>2, <1>3, <1>6, <2>1
<1> QED
  BY <1>4, <1>5, <1>6

(* A deletion only takes its job.                                          *)
LEMMA ForgetsJobs ==
  ASSUME Types, Forgets
  PROVE  /\ ManagerJob.room \in Rooms /\ jobs[GRoom] # <<>>
         /\ ManagerJob.kind = "delete" /\ JobStep({GRoom}, {}, 0)
<1>1. /\ jobs[GRoom] # <<>> /\ ManagerJob.kind = "delete"
      /\ jobs' = [jobs EXCEPT ![GRoom] = Tail(@)]
  BY DEF Forgets, RunManager, GameDelete
<1>2. ManagerJob.room \in Rooms
  BY <1>1, ManagerRuns, ManagerJobFacts
<1> QED
  BY <1>1, <1>2, JobForms, Ids

(* The end of a job takes it.                                              *)
LEMMA EndJobJobs ==
  ASSUME Types, NEW r \in Rooms, jobs[r] # <<>>, EndJob(r)
  PROVE  JobStep({r}, {}, 0)
BY JobForms, Ids DEF EndJob, Finish

(* A room that is let go of stays as it is, or goes with its members.      *)
Shuts(r) ==
  members' = [members EXCEPT ![r] = {}] /\ ~Alive(r)'

LEMMA LetGoMoves ==
  ASSUME TypeOK, NEW r \in Rooms, LetGo(r)
  PROVE  /\ members' \in [Rooms -> SUBSET Players]
         /\ members' = members \/ Shuts(r)
<1>1. members \in [Rooms -> SUBSET Players]
  BY DEF TypeOK
<1>2. CASE r \in Living'
  BY <1>1, <1>2 DEF LetGo
<1>3. CASE r \notin Living'
  <2>1. ~Alive(r)'
    BY <1>3 DEF Living
  <2> QED
    BY <1>1, <1>3, <2>1 DEF LetGo, Shuts
<1> QED
  BY <1>2, <1>3

(* OnDisconnected lets go of its room, if it has one.                      *)
LEMMA DoneMoves ==
  ASSUME TypeOK, NEW s \in Sessions, DisconnectDone(s)
  PROVE  /\ members' \in [Rooms -> SUBSET Players]
         /\ members' = members \/ (target[s] \in Rooms /\ Shuts(target[s]))
<1>1. target[s] = None \/ target[s] \in Rooms
  BY DEF TypeOK
<1>2. CASE target[s] = None
  BY <1>2 DEF DisconnectDone, TypeOK
<1>3. CASE target[s] \in Rooms
  <2>1. LetGo(target[s])
    BY <1>3, Ids DEF DisconnectDone
  <2> QED
    BY <1>3, <2>1, LetGoMoves
<1> QED
  BY <1>1, <1>2, <1>3

(* The RoomManager lets go of a room it deletes.                           *)
LEMMA ForgetsMoves ==
  ASSUME Types, Forgets
  PROVE  /\ members' \in [Rooms -> SUBSET Players]
         /\ members' = members \/ Shuts(ManagerJob.room)
<1>1. ManagerJob.room \in Rooms
  BY ForgetsJobs
<1>2. LetGo(ManagerJob.room)
  BY DEF Forgets, RunManager, GameDelete
<1> QED
  BY <1>1, <1>2, LetGoMoves DEF Types

(* The end of a leave asks for the deletion of an empty room.              *)
LEMMA LeaveEndsJobs ==
  ASSUME Types, Phases, NEW r \in Rooms, LeaveEnds(r)
  PROVE  /\ jobs[r] # <<>>
         /\ \/ JobStep({r}, {}, 0)
            \/ /\ members[r] = {}
               /\ \E j \in ManagerJobs :
                    /\ j.kind = "delete" /\ j.room = r
                    /\ JobStep({r}, {GRoom}, j)
<1>1. /\ jobs[r] # <<>>
      /\ jobs' = DeleteIfEmpty(r, [jobs EXCEPT ![r] = Tail(@)])
  BY DEF LeaveEnds, In, LeaveTold, Finish, Phases
<1> DEFINE j == [kind |-> "delete", room |-> r]
<1>2. j \in ManagerJobs /\ j.kind = "delete" /\ j.room = r
  BY DEF ManagerJobs
<1>3. \/ jobs' = [jobs EXCEPT ![r] = Tail(@)]
      \/ /\ members[r] = {}
         /\ jobs' = Post([jobs EXCEPT ![r] = Tail(@)], GRoom, j)
  BY <1>1 DEF DeleteIfEmpty
<1> HIDE DEF j
<1>4. CASE jobs' = [jobs EXCEPT ![r] = Tail(@)]
  BY <1>1, <1>4, JobForms, Ids
<1>5. CASE /\ members[r] = {}
           /\ jobs' = Post([jobs EXCEPT ![r] = Tail(@)], GRoom, j)
  <2>1. JobStep({r}, {GRoom}, j)
    BY <1>1, <1>2, <1>5, JobForms, Ids DEF Jobs
  <2> QED
    BY <1>1, <1>2, <1>5, <2>1
<1> QED
  BY <1>3, <1>4, <1>5

(* So does OnDisconnected.                                                 *)
LEMMA TellJobs ==
  ASSUME Types, SessionsAgree, NEW s \in Sessions, DisconnectTell(s)
  PROVE  /\ target[s] \in Rooms /\ player[s] \in Players
         /\ \/ JobStep({}, {}, 0)
            \/ /\ members[target[s]] = {}
               /\ \E j \in ManagerJobs :
                    /\ j.kind = "delete" /\ j.room = target[s]
                    /\ JobStep({}, {GRoom}, j)
<1> DEFINE r == target[s]
           j == [kind |-> "delete", room |-> r]
<1>1. target[s] \in Rooms /\ player[s] \in Players
  BY DEF SessionsAgree, DisconnectTell, Types, TypeOK
<1>2. j \in ManagerJobs /\ j.kind = "delete" /\ j.room = r
  BY <1>1 DEF ManagerJobs
<1>3. jobs' = jobs \/ (members[r] = {} /\ jobs' = Post(jobs, GRoom, j))
  BY DEF DisconnectTell, DeleteIfEmpty
<1> HIDE DEF j
<1>4. CASE jobs' = jobs
  BY <1>1, <1>4, JobForms
<1>5. CASE members[r] = {} /\ jobs' = Post(jobs, GRoom, j)
  <2>1. JobStep({}, {GRoom}, j)
    BY <1>2, <1>5, JobForms, Ids DEF Jobs
  <2> QED
    BY <1>1, <1>2, <1>5, <2>1
<1> QED
  BY <1>3, <1>4, <1>5
(* The jobs of the RoomManager and of a room.                              *)
LEMMA JobsOfQueues ==
  /\ JobsOf(GRoom) = ManagerJobs
  /\ \A r \in Rooms : JobsOf(r) = RoomJobs
BY Ids DEF JobsOf

(* A step that puts a job where it may go keeps the types of the jobs.     *)
LEMMA RoomJobPosted ==
  ASSUME Types, NEW P, NEW r \in Rooms, \E j \in RoomJobs : JobStep(P, {r}, j)
  PROVE  /\ jobs' \in [Queues -> Seq(Jobs)]
         /\ \A q \in Queues : \A i \in DOMAIN jobs'[q] :
              jobs'[q][i] \in JobsOf(q)
<1>1. PICK j \in RoomJobs : JobStep(P, {r}, j)
  OBVIOUS
<1>2. \A q \in {r} : j \in JobsOf(q)
  BY JobsOfQueues
<1> QED
  BY <1>1, <1>2, JobTypes

(* The same for the RoomManager's queue.                                   *)
LEMMA ManagerJobPosted ==
  ASSUME Types, NEW P, \E j \in ManagerJobs : JobStep(P, {GRoom}, j)
  PROVE  /\ jobs' \in [Queues -> Seq(Jobs)]
         /\ \A q \in Queues : \A i \in DOMAIN jobs'[q] :
              jobs'[q][i] \in JobsOf(q)
<1>1. PICK j \in ManagerJobs : JobStep(P, {GRoom}, j)
  OBVIOUS
<1>2. \A q \in {GRoom} : j \in JobsOf(q)
  BY JobsOfQueues
<1> QED
  BY <1>1, <1>2, JobTypes

(* The counters are numbers.                                               *)
LEMMA Counts ==
  ASSUME Types
  PROVE  /\ created \in Nat /\ created <= MaxRooms /\ MaxRooms \in Nat
         /\ Len(owner) \in Nat /\ Len(owner) <= MaxPlayers
         /\ owner \in Seq(Sessions)
         /\ \A p \in 1 .. Len(owner) : owner[p] \in Sessions /\ p \in Players
<1>1. /\ created \in 0 .. MaxRooms /\ owner \in Seq(Sessions)
      /\ Len(owner) <= MaxPlayers /\ MaxRooms \in Nat /\ MaxPlayers \in Nat
  BY BoundsAssumption DEF Types, TypeOK
<1>2. \A p \in 1 .. Len(owner) : p \in Players
  BY <1>1 DEF Players
<1> QED
  BY <1>1, <1>2


-----------------------------------------------------------------------------
(* The host finds its room empty and not started.                          *)
LEMMA HostMayEnter ==
  ASSUME Types, Phases, HostComesFirst, NEW r \in Rooms, HostBegins(r)
  PROVE  /\ MayEnter(r, Runs(r)) /\ members[r] = {} /\ jobs[r] # <<>>
         /\ UNCHANGED jobs
<1>1. /\ phase[r] = "begun" /\ Head(jobs[r]).kind = "host" /\ jobs[r] # <<>>
  BY DEF HostBegins, In, Phases
<1>2. 1 \in DOMAIN jobs[r] /\ jobs[r][1].kind = "host"
  BY <1>1, RoomRuns
<1>3. members[r] = {} /\ ~isStart[r]
  BY <1>1, <1>2 DEF HostComesFirst
<1>4. MayEnter(r, Runs(r))
  BY <1>3 DEF MayEnter
<1> QED
  BY <1>1, <1>3, <1>4 DEF HostBegins, HostBegun, GoTo

(* The types are kept by every step.                                       *)
LEMMA TypesNext == IInv /\ [Next]_vars => Types'
<1> SUFFICES ASSUME IInv, [Next]_vars PROVE Types'
  OBVIOUS
<1>0. Types
  BY DEF IInv
<1>a. /\ TypeOK /\ handler \in [Sessions -> Handlers]
  BY <1>0 DEF Types
<1> USE <1>a DEF TypeOK, sessionVars, leaveVars, roomVars, managerVars
<1>1. ASSUME NEW s \in Sessions, Receive(s) PROVE Types'
  <2>1. TypeOK'
    <3>1. UNCHANGED <<player, owner>>
      BY <1>1 DEF Receive, ReceiveJoin, ReceiveInRoom
    <3>2. requests' \in 0 .. MaxRequests
      BY <1>1, BoundsAssumption DEF Receive
    <3> QED
      BY <1>1, <3>1, <3>2 DEF Receive
  <2>2. handler' \in [Sessions -> Handlers]
    <3>1. CASE ReceiveJoin(s)
      <4>1. \/ \E r \in Rooms : handler' = [handler EXCEPT ![s] =
                                   [kind |-> "inside", room |-> r]]
            \/ handler' = [handler EXCEPT ![s] = [kind |-> "create"]]
        BY <3>1 DEF ReceiveJoin
      <4>2. \A r \in Rooms : [kind |-> "inside", room |-> r] \in Handlers
        BY DEF Handlers
      <4>3. [kind |-> "create"] \in Handlers
        BY DEF Handlers
      <4> QED
        BY <4>1, <4>2, <4>3
    <3>2. CASE ReceiveInRoom(s)
      <4>1. PICK k \in {"leave", "start", "end"} :
              handler' = [handler EXCEPT ![s] =
                [kind |-> k, room |-> LockRoom(player[s]),
                  player |-> player[s]]]
        BY <3>2 DEF ReceiveInRoom
      <4>2. LockRoom(player[s]) \in Rooms /\ player[s] \in Players
        BY <3>2 DEF ReceiveInRoom, LockRoom
      <4> QED
        BY <4>1, <4>2 DEF Handlers, InRoomKinds
    <3> QED
      BY <1>1, <3>1, <3>2 DEF Receive
  <2>3. JobStep({}, {}, 0)
    BY <1>1, <1>0, JobForms DEF Receive
  <2> QED
    BY <1>0, <2>1, <2>2, <2>3, JobTypes DEF Types
<1>2. ASSUME NEW s \in Sessions, PostJoin(s) PROVE Types'
  <2>1. PICK j \in ManagerJobs :
          /\ Len(owner) + 1 \in Players
          /\ JobStep({}, {GRoom}, j)
    BY <1>2, <1>0, PostJoinJobs
  <2>2. TypeOK'
    <3>1. owner' = Append(owner, s) /\ owner \in Seq(Sessions)
      BY <1>2 DEF PostJoin
    <3>0. Len(owner) < MaxPlayers
      BY <1>2 DEF PostJoin
    <3>2. owner' \in Seq(Sessions) /\ Len(owner') <= MaxPlayers
      BY <3>0, <3>1, BoundsAssumption
    <3>3. player' \in [Sessions -> Players \cup {None}]
      BY <1>2, <2>1 DEF PostJoin
    <3> QED
      BY <1>2, <3>2, <3>3 DEF PostJoin
  <2>3. handler' \in [Sessions -> Handlers]
    BY <1>2 DEF PostJoin, Handlers
  <2> QED
    BY <1>0, <2>1, <2>2, <2>3, ManagerJobPosted, JobTypes DEF Types
<1>3. ASSUME NEW s \in Sessions, PostToRoom(s) PROVE Types'
  <2>1. PICK j \in RoomJobs : /\ handler[s].room \in Rooms
                              /\ JobStep({}, {handler[s].room}, j)
    BY <1>3, <1>0, PostToRoomJobs
  <2>2. TypeOK' /\ handler' \in [Sessions -> Handlers]
    BY <1>3 DEF PostToRoom, Handlers
  <2> QED
    BY <1>0, <2>1, <2>2, RoomJobPosted, JobTypes DEF Types
<1>4. ASSUME NEW s \in Sessions, DisconnectLook(s) PROVE Types'
  <2>1. TypeOK' /\ handler' = handler
    <3>1. LockRoom(player[s]) \in Rooms \cup {None}
      BY DEF LockRoom
    <3> QED
      BY <1>4, <3>1 DEF DisconnectLook
  <2>2. JobStep({}, {}, 0)
    BY <1>4, <1>0, JobForms DEF DisconnectLook
  <2> QED
    BY <1>0, <2>1, <2>2, JobTypes DEF Types
<1>5. ASSUME NEW s \in Sessions, DisconnectLeave(s) PROVE Types'
  <2>0. target[s] \in Rooms
    BY <1>5 DEF IInv, SessionsAgree, DisconnectLeave
  <2>1. TypeOK' /\ handler' = handler
    <3>1. CASE player[s] \in members[target[s]]
      <4>1. /\ LeavePlayer(target[s], player[s]) /\ player[s] \in Players
            /\ emptied' = emptied \/ emptied' = emptied \cup {target[s]}
        BY <1>5, <2>0, <3>1 DEF DisconnectLeave
      <4>2. members' \in [Rooms -> SUBSET Players]
        BY <2>0, <4>1 DEF LeavePlayer
      <4>3. roomOf' \in [Players -> Rooms \cup {None}]
        BY <4>1 DEF LeavePlayer
      <4>4. emptied' \subseteq Rooms
        BY <2>0, <4>1
      <4>5. leaving' \in [Sessions -> {"no", "inside", "left", "out", "done"}]
        BY <1>5, <3>1 DEF DisconnectLeave
      <4> QED
        BY <1>5, <4>2, <4>3, <4>4, <4>5 DEF DisconnectLeave
    <3>2. CASE player[s] \notin members[target[s]]
      BY <1>5, <3>2 DEF DisconnectLeave
    <3> QED
      BY <3>1, <3>2
  <2>2. JobStep({}, {}, 0)
    BY <1>5, <1>0, JobForms DEF DisconnectLeave
  <2> QED
    BY <1>0, <2>1, <2>2, JobTypes DEF Types
<1>6. ASSUME NEW s \in Sessions, DisconnectTell(s) PROVE Types'
  <2>1. TypeOK' /\ handler' = handler
    BY <1>6 DEF DisconnectTell, ToldOfLeave
  <2>2. \/ JobStep({}, {}, 0)
        \/ \E j \in ManagerJobs : JobStep({}, {GRoom}, j)
    BY <1>6, <1>0, TellJobs DEF IInv
  <2>3. CASE JobStep({}, {}, 0)
    BY <1>0, <2>1, <2>3, JobTypes DEF Types
  <2>4. CASE \E j \in ManagerJobs : JobStep({}, {GRoom}, j)

    BY <1>0, <2>1, <2>4, ManagerJobPosted DEF Types
  <2> QED
    BY <2>2, <2>3, <2>4
<1>7. ASSUME NEW s \in Sessions, DisconnectDone(s) PROVE Types'
  <2>1. TypeOK' /\ handler' = handler
    BY <1>7, <1>0, DoneMoves DEF DisconnectDone
  <2>2. JobStep({}, {}, 0)
    BY <1>7, <1>0, JobForms DEF DisconnectDone
  <2> QED
    BY <1>0, <2>1, <2>2, JobTypes DEF Types
<1>8. ASSUME Creates PROVE Types'
  <2>1. /\ created + 1 \in Rooms
        /\ \E j \in RoomJobs : JobStep({GRoom}, {created + 1}, j)
    BY <1>8, <1>0, CreatesJobs DEF IInv
  <2>2. /\ created' = created + 1 /\ rooms' = rooms \cup {created + 1}
        /\ members' = members
    BY <1>8 DEF Creates, GameCreate, NewRoomId
  <2>3. created' \in 0 .. MaxRooms /\ rooms' \subseteq 1 .. created'
    BY <2>1, <2>2 DEF Rooms
  <2>4. TypeOK' /\ handler' = handler
    BY <1>8, <2>2, <2>3 DEF Creates, RunManager
  <2> QED
    BY <1>0, <2>1, <2>4, RoomJobPosted, JobTypes DEF Types
<1>9. ASSUME Lets PROVE Types'
  <2>1. TypeOK' /\ handler' = handler
    BY <1>9 DEF Lets, RunManager, GameInside
  <2>2. \/ JobStep({GRoom}, {}, 0)
        \/ /\ ManagerJob.room \in Rooms
           /\ \E j \in RoomJobs : JobStep({GRoom}, {ManagerJob.room}, j)
    BY <1>9, <1>0, LetsJobs
  <2>3. CASE JobStep({GRoom}, {}, 0)
    BY <1>0, <2>1, <2>3, JobTypes DEF Types
  <2>4. CASE /\ ManagerJob.room \in Rooms
           /\ \E j \in RoomJobs : JobStep({GRoom}, {ManagerJob.room}, j)

    BY <1>0, <2>1, <2>4, RoomJobPosted DEF Types
  <2> QED
    BY <2>2, <2>3, <2>4
<1>10. ASSUME Forgets PROVE Types'
  <2>1. TypeOK' /\ handler' = handler
    BY <1>10, <1>0, ForgetsMoves DEF Forgets, RunManager, GameDelete
  <2> QED
    BY <1>10, <1>0, <2>1, ForgetsJobs, JobTypes DEF Types
<1>11. ASSUME NEW r \in Rooms, BeginJob(r) PROVE Types'
  <2>1. TypeOK' /\ handler' = handler
    BY <1>11, <1>0 DEF BeginJob, GoTo
  <2>2. JobStep({}, {}, 0)
    BY <1>11, <1>0, JobForms DEF BeginJob, GoTo
  <2> QED
    BY <1>0, <2>1, <2>2, JobTypes DEF Types
<1>12. ASSUME NEW r \in Rooms, HostBegins(r) PROVE Types'
  <2>1. MayEnter(r, Runs(r)) /\ UNCHANGED jobs /\ Runs(r) \in Players
    BY <1>12, <1>0, HostMayEnter, RoomRuns DEF IInv
  <2>2. TypeOK' /\ handler' = handler
    <3>1. members' \in [Rooms -> SUBSET Players]
      BY <1>12, <2>1 DEF HostBegins, In, HostBegun, EnterPlayer, GoTo
    <3>2. roomOf' \in [Players -> Rooms \cup {None}]
      BY <1>12, <2>1 DEF HostBegins, In, HostBegun, EnterPlayer, GoTo
    <3>3. phase' \in [Rooms -> {"idle", "begun", "hosting", "entered",
                                  "listed", "left"}]
      BY <1>12, <2>1 DEF HostBegins, In, HostBegun, EnterPlayer, GoTo
    <3> QED
      BY <1>12, <2>1, <3>1, <3>2, <3>3 DEF HostBegins, In, HostBegun,
        EnterPlayer, GoTo
  <2>3. JobStep({}, {}, 0)
    BY <1>0, <2>1, JobForms
  <2> QED
    BY <1>0, <2>2, <2>3, JobTypes DEF Types
<1>13. ASSUME NEW r \in Rooms, HostEnds(r) PROVE Types'
  <2>1. jobs[r] # <<>> /\ Runs(r) \in Players
    BY <1>13, <1>0, RoomRuns DEF HostEnds, In, IInv, Phases
  <2>2. TypeOK' /\ handler' = handler
    BY <1>13, <2>1, LetGoMoves DEF HostEnds, In, HostTold, EndJob, Finish
  <2>3. JobStep({}, {}, 0) \/ JobStep({r}, {}, 0)
    BY <1>13, <1>0, <2>1, EndJobJobs DEF HostEnds, HostTold
  <2> QED
    BY <1>0, <2>2, <2>3, JobTypes DEF Types
<1>14. ASSUME NEW r \in Rooms, EnterBegins(r) PROVE Types'
  <2>1. jobs[r] # <<>> /\ Runs(r) \in Players
    BY <1>14, <1>0, RoomRuns DEF EnterBegins, In, IInv, Phases
  <2>2. TypeOK' /\ handler' = handler
    <3>1. members' \in [Rooms -> SUBSET Players]
      BY <1>14, <2>1, LetGoMoves DEF EnterBegins, In, EnterBegun, EnterPlayer, GoTo, EndJob, Finish
    <3>2. roomOf' \in [Players -> Rooms \cup {None}]
      BY <1>14, <2>1 DEF EnterBegins, In, EnterBegun, EnterPlayer, GoTo, EndJob, Finish
    <3>3. phase' \in [Rooms -> {"idle", "begun", "hosting", "entered",
                                  "listed", "left"}]
      BY <1>14, <2>1 DEF EnterBegins, In, EnterBegun, EnterPlayer, GoTo, EndJob, Finish
    <3> QED
      BY <1>14, <2>1, <3>1, <3>2, <3>3 DEF EnterBegins, In, EnterBegun,
        EnterPlayer, GoTo, EndJob, Finish
  <2>3. JobStep({}, {}, 0) \/ JobStep({r}, {}, 0)
    <3>1. UNCHANGED jobs \/ EndJob(r)
      BY <1>14 DEF EnterBegins, EnterBegun, GoTo
    <3> QED
      BY <1>0, <2>1, <3>1, JobForms, EndJobJobs
  <2> QED
    BY <1>0, <2>2, <2>3, JobTypes DEF Types
<1>15. ASSUME NEW r \in Rooms, EnterTells(r) PROVE Types'
  <2>1. jobs[r] # <<>> /\ Runs(r) \in Players
    BY <1>15, <1>0, RoomRuns DEF EnterTells, In, IInv, Phases
  <2>2. TypeOK' /\ handler' = handler
    BY <1>15, <2>1 DEF EnterTells, In, EnterTold, ToldOfEntry, GoTo
  <2>3. JobStep({}, {}, 0) \/ JobStep({r}, {}, 0)
    BY <1>15, <1>0, <2>1, JobForms, EndJobJobs DEF EnterTells, In, EnterTold,
      ToldOfEntry, GoTo
  <2> QED
    BY <1>0, <2>2, <2>3, JobTypes DEF Types
<1>16. ASSUME NEW r \in Rooms, EnterEnds(r) PROVE Types'
  <2>1. jobs[r] # <<>> /\ Runs(r) \in Players
    BY <1>16, <1>0, RoomRuns DEF EnterEnds, In, IInv, Phases
  <2>2. TypeOK' /\ handler' = handler
    BY <1>16, <2>1, LetGoMoves DEF EnterEnds, In, EnterListed, EndJob, Finish
  <2>3. JobStep({}, {}, 0) \/ JobStep({r}, {}, 0)
    BY <1>16, <1>0, <2>1, EndJobJobs DEF EnterEnds, EnterListed
  <2> QED
    BY <1>0, <2>2, <2>3, JobTypes DEF Types
<1>17. ASSUME NEW r \in Rooms, LeaveBegins(r) PROVE Types'
  <2>1. jobs[r] # <<>> /\ Runs(r) \in Players
    BY <1>17, <1>0, RoomRuns DEF LeaveBegins, In, IInv, Phases
  <2>0. \/ /\ LeavePlayer(r, Runs(r)) /\ UNCHANGED jobs
           /\ emptied' = emptied \/ emptied' = emptied \cup {r}
           /\ phase' = [phase EXCEPT ![r] = "left"]
        \/ EndJob(r) /\ UNCHANGED <<roomOf, emptied>>
    BY <1>17 DEF LeaveBegins, LeaveBegun, GoTo
  <2>2. TypeOK' /\ handler' = handler
    <3>1. members' \in [Rooms -> SUBSET Players]
      BY <2>0, LetGoMoves DEF LeavePlayer, EndJob, Finish
    <3>2. roomOf' \in [Players -> Rooms \cup {None}]
      BY <2>0, <2>1 DEF LeavePlayer
    <3>3. phase' \in [Rooms -> {"idle", "begun", "hosting", "entered",
                                 "listed", "left"}]
      BY <2>0 DEF EndJob, Finish
    <3> QED
      BY <1>17, <2>0, <3>1, <3>2, <3>3 DEF LeaveBegins, In, LeaveBegun
  <2>3. JobStep({}, {}, 0) \/ JobStep({r}, {}, 0)
    BY <1>0, <2>0, <2>1, JobForms, EndJobJobs
  <2> QED
    BY <1>0, <2>2, <2>3, JobTypes DEF Types
<1>18. ASSUME NEW r \in Rooms, LeaveEnds(r) PROVE Types'
  <2>1. TypeOK' /\ handler' = handler
    BY <1>18, LetGoMoves DEF LeaveEnds, In, LeaveTold, Finish, ToldOfLeave
  <2>2. \/ JobStep({r}, {}, 0)
        \/ \E j \in ManagerJobs : JobStep({r}, {GRoom}, j)
    BY <1>18, <1>0, LeaveEndsJobs DEF IInv
  <2>3. CASE JobStep({r}, {}, 0)
    BY <1>0, <2>1, <2>3, JobTypes DEF Types
  <2>4. CASE \E j \in ManagerJobs : JobStep({r}, {GRoom}, j)

    BY <1>0, <2>1, <2>4, ManagerJobPosted DEF Types
  <2> QED
    BY <2>2, <2>3, <2>4
<1>19. ASSUME NEW r \in Rooms, Starts(r) PROVE Types'
  <2>1. jobs[r] # <<>> /\ Runs(r) \in Players
    BY <1>19, <1>0, RoomRuns DEF Starts, In, IInv, Phases
  <2>2. TypeOK' /\ handler' = handler
    BY <1>19, <2>1, LetGoMoves DEF Starts, In, GameStart, StageStart, EndJob,
      Finish
  <2>3. JobStep({}, {}, 0) \/ JobStep({r}, {}, 0)
    BY <1>19, <1>0, <2>1, EndJobJobs DEF Starts, GameStart
  <2> QED
    BY <1>0, <2>2, <2>3, JobTypes DEF Types
<1>20. ASSUME NEW r \in Rooms, Ends(r) PROVE Types'
  <2>1. jobs[r] # <<>> /\ Runs(r) \in Players
    BY <1>20, <1>0, RoomRuns DEF Ends, In, IInv, Phases
  <2>2. TypeOK' /\ handler' = handler
    BY <1>20, <2>1, LetGoMoves DEF Ends, In, GameEnd, EndJob, Finish
  <2>3. JobStep({}, {}, 0) \/ JobStep({r}, {}, 0)
    BY <1>20, <1>0, <2>1, EndJobJobs DEF Ends, GameEnd
  <2> QED
    BY <1>0, <2>2, <2>3, JobTypes DEF Types
<1>21. ASSUME NEW r \in Rooms, Collide(r) PROVE Types'
  <2>1. TypeOK' /\ handler' = handler
    BY <1>21, <1>0 DEF Collide
  <2>2. JobStep({}, {}, 0)
    BY <1>21, <1>0, JobForms DEF Collide
  <2> QED
    BY <1>0, <2>1, <2>2, JobTypes DEF Types
<1>22. CASE UNCHANGED vars
  <2>1. TypeOK' /\ handler' = handler /\ jobs' = jobs
    BY <1>22 DEF vars
  <2> QED
    BY <1>0, <2>1 DEF Types
<1> QED
  BY <1>1, <1>2, <1>3, <1>4, <1>5, <1>6, <1>7, <1>8, <1>9, <1>10, <1>11,
     <1>12, <1>13, <1>14, <1>15, <1>16, <1>17, <1>18, <1>19, <1>20, <1>21,
     <1>22, StepCases


-----------------------------------------------------------------------------
(* What every step does to the queues, all in one: it takes the head of    *)
(* one queue at most (P) and adds one job at most to another (Q); the job  *)
(* of a room goes on step by step until it is taken away; a player that is *)
(* made comes with its first job, and a job that brings a player in is     *)
(* made from the one that is taken.                                        *)
PhaseGoesOn(r) ==
  \/ phase'[r] = phase[r]
  \/ phase[r] = "idle" /\ phase'[r] = "begun" /\ jobs[r] # <<>>
  \/ /\ phase[r] = "begun"
     /\ \/ Head(jobs[r]).kind = "host" /\ phase'[r] = "hosting"
        \/ Head(jobs[r]).kind = "enter" /\ phase'[r] = "entered"
        \/ Head(jobs[r]).kind = "leave" /\ phase'[r] = "left"
  \/ phase[r] = "entered" /\ phase'[r] = "listed"

JobMove(P, Q, j) ==
  /\ JobStep(P, Q, j)
  /\ P = {} \/ \E q \in Queues : P = {q}
  /\ Q = {} \/ \E q \in Queues : Q = {q}
  /\ \A r \in Rooms : r \in P => phase'[r] = "idle"
  /\ \A r \in Rooms : r \notin P => PhaseGoesOn(r)
  /\ \/ owner' = owner /\ (Q # {} => j.kind \notin {"inside", "create"})
     \/ /\ P = {} /\ Q = {GRoom} /\ j.kind \in {"inside", "create"}
        /\ j.player = Len(owner) + 1 /\ Len(owner') = Len(owner) + 1
        /\ j.kind = "create" => created + CreatesPosted < MaxRooms
  /\ Q # {} /\ j.kind \in {"host", "enter"} =>
       /\ P = {GRoom} /\ ManagerJob.kind \in {"inside", "create"}
       /\ j.player = ManagerJob.player
  /\ \/ created' = created /\ (Q # {} => j.kind # "host")
     \/ /\ created' = created + 1 /\ j.kind = "host"
        /\ P = {GRoom} /\ ManagerJob.kind = "create" /\ Q = {created + 1}
  /\ \A r \in Rooms : r \in Q => r <= created'
  /\ Q # {} /\ j.kind = "delete" =>
       j.room \in emptied /\ members[j.room] = {}
  /\ Q # {} /\ j.kind = "leave" =>
       \E s \in Sessions : /\ handler[s].kind = "leave"
                           /\ handler[s].player = j.player
  /\ \A r \in Rooms : r \in Q => Alive(r) \/ r > created

(* A step that leaves the queues alone.                                    *)
LEMMA QuietMove ==
  ASSUME Types, UNCHANGED <<jobs, owner, created>>,
         \A r \in Rooms : PhaseGoesOn(r)
  PROVE  JobMove({}, {}, 0)
<1>1. JobStep({}, {}, 0)
  BY JobForms
<1> QED
  BY <1>1 DEF JobMove

(* A step that only takes a job.                                           *)
LEMMA TakeMove ==
  ASSUME Types, NEW q \in Queues, JobStep({q}, {}, 0),
         UNCHANGED <<owner, created>>, q \in Rooms => phase'[q] = "idle",
         \A r \in Rooms : r # q => PhaseGoesOn(r)
  PROVE  JobMove({q}, {}, 0)
BY DEF JobMove

(* Every step is such a move.                                              *)
LEMMA JobsMove == IInv /\ [Next]_vars => \E P, Q, j : JobMove(P, Q, j)
<1> SUFFICES ASSUME IInv, [Next]_vars PROVE \E P, Q, j : JobMove(P, Q, j)
  OBVIOUS
<1>0. /\ Types /\ CreatesFit /\ Fresh /\ Phases /\ SessionsAgree
      /\ HostComesFirst /\ phase \in [Rooms -> {"idle", "begun", "hosting",
                                         "entered", "listed", "left"}]
  BY DEF IInv, Types, TypeOK
<1> USE DEF sessionVars, leaveVars, roomVars, managerVars
<1>1. ASSUME NEW s \in Sessions, Receive(s) PROVE \E P, Q, j : JobMove(P, Q, j)
  <2>1. /\ UNCHANGED <<jobs, owner, created>>
        /\ \A r \in Rooms : PhaseGoesOn(r)
    BY <1>1, <1>0 DEF Receive, ReceiveJoin, ReceiveInRoom, PhaseGoesOn
  <2> QED
    BY <1>0, <2>1, QuietMove
<1>2. ASSUME NEW s \in Sessions, PostJoin(s)
      PROVE  \E P, Q, j : JobMove(P, Q, j)
  <2>1. PICK j \in ManagerJobs :
          /\ j.kind \in {"inside", "create"} /\ j.player = Len(owner) + 1
          /\ j.kind = "create" => created + CreatesPosted < MaxRooms
          /\ JobStep({}, {GRoom}, j)
    BY <1>2, <1>0, PostJoinJobs
  <2>2. /\ Len(owner') = Len(owner) + 1 /\ created' = created
        /\ \A r \in Rooms : PhaseGoesOn(r)
    BY <1>2, <1>0 DEF PostJoin, PhaseGoesOn
  <2>3. JobMove({}, {GRoom}, j)
    BY <2>1, <2>2, Ids DEF JobMove
  <2> QED
    BY <2>3
<1>3. ASSUME NEW s \in Sessions, PostToRoom(s)
      PROVE  \E P, Q, j : JobMove(P, Q, j)
  <2>1. PICK j \in RoomJobs :
          /\ handler[s].room \in Rooms /\ handler[s].kind \in InRoomKinds
          /\ j.kind \in InRoomKinds /\ JobStep({}, {handler[s].room}, j)
          /\ j.kind = handler[s].kind /\ j.player = handler[s].player
    BY <1>3, <1>0, PostToRoomJobs
  <2>2. /\ owner' = owner /\ created' = created
        /\ \A r \in Rooms : PhaseGoesOn(r)
    BY <1>3, <1>0 DEF PostToRoom, PhaseGoesOn
  <2>3. handler[s].room <= created
    <3>1. created \in Nat /\ handler[s].room \in Nat
      BY <1>0, <2>1, Ids, Counts
    <3>2. ~(handler[s].room > created)
      BY <1>0, <2>1 DEF Fresh
    <3> QED
      BY <3>1, <3>2
  <2>4. Alive(handler[s].room)
    BY <2>1 DEF Alive, InRoomKinds
  <2>5. JobMove({}, {handler[s].room}, j)
    BY <2>1, <2>2, <2>3, <2>4, Ids DEF JobMove, InRoomKinds
  <2> QED
    BY <2>5
<1>4. ASSUME NEW s \in Sessions, DisconnectLook(s)
      PROVE  \E P, Q, j : JobMove(P, Q, j)
  <2>1. /\ UNCHANGED <<jobs, owner, created>>
        /\ \A r \in Rooms : PhaseGoesOn(r)
    BY <1>4, <1>0 DEF DisconnectLook, PhaseGoesOn
  <2> QED
    BY <1>0, <2>1, QuietMove
<1>5. ASSUME NEW s \in Sessions, DisconnectLeave(s)
      PROVE  \E P, Q, j : JobMove(P, Q, j)
  <2>1. /\ UNCHANGED <<jobs, owner, created>>
        /\ \A r \in Rooms : PhaseGoesOn(r)
    BY <1>5, <1>0 DEF DisconnectLeave, PhaseGoesOn
  <2> QED
    BY <1>0, <2>1, QuietMove
<1>6. ASSUME NEW s \in Sessions, DisconnectTell(s)
      PROVE  \E P, Q, j : JobMove(P, Q, j)
  <2>1. /\ owner' = owner /\ created' = created
        /\ \A r \in Rooms : PhaseGoesOn(r)
    BY <1>6, <1>0 DEF DisconnectTell, PhaseGoesOn
  <2>2. CASE JobStep({}, {}, 0)
    <3>1. JobMove({}, {}, 0)
      BY <2>1, <2>2 DEF JobMove
    <3> QED
      BY <3>1
  <2>3. CASE /\ members[target[s]] = {}
             /\ \E j \in ManagerJobs :
                  /\ j.kind = "delete" /\ j.room = target[s]
                  /\ JobStep({}, {GRoom}, j)
    <3>0. target[s] \in emptied
      BY <1>6, <1>0, <2>3, TellJobs DEF DisconnectTell, IInv, Deletes
    <3>1. PICK j \in ManagerJobs : /\ j.kind = "delete" /\ j.room \in emptied
                                   /\ members[j.room] = {}
                                   /\ JobStep({}, {GRoom}, j)
      BY <2>3, <3>0
    <3>2. JobMove({}, {GRoom}, j)
      BY <2>1, <3>1, Ids DEF JobMove
    <3> QED
      BY <3>2
  <2> QED
    BY <1>6, <1>0, <2>2, <2>3, TellJobs
<1>7. ASSUME NEW s \in Sessions, DisconnectDone(s)
      PROVE  \E P, Q, j : JobMove(P, Q, j)
  <2>1. /\ UNCHANGED <<jobs, owner, created>>
        /\ \A r \in Rooms : PhaseGoesOn(r)
    BY <1>7, <1>0 DEF DisconnectDone, PhaseGoesOn
  <2> QED
    BY <1>0, <2>1, QuietMove
<1>8. ASSUME Creates PROVE \E P, Q, j : JobMove(P, Q, j)
  <2>1. PICK j \in RoomJobs :
          /\ created + 1 \in Rooms /\ j.kind = "host"
          /\ j.player = ManagerJob.player
          /\ JobStep({GRoom}, {created + 1}, j)
    BY <1>8, <1>0, CreatesJobs
  <2>2. /\ owner' = owner /\ created' = created + 1
        /\ ManagerJob.kind = "create"
        /\ \A r \in Rooms : PhaseGoesOn(r)
    BY <1>8, <1>0 DEF Creates, RunManager, GameCreate, PhaseGoesOn
  <2>3. created + 1 > created
    BY <1>0, Counts
  <2>4. JobMove({GRoom}, {created + 1}, j)
    BY <2>1, <2>2, <2>3, Ids DEF JobMove
  <2> QED
    BY <2>4
<1>9. ASSUME Lets PROVE \E P, Q, j : JobMove(P, Q, j)
  <2>1. /\ owner' = owner /\ created' = created
        /\ ManagerJob.kind = "inside" /\ ManagerJob.room \in Rooms
        /\ \A r \in Rooms : PhaseGoesOn(r)
    BY <1>9, <1>0, LetsJobs DEF Lets, RunManager, GameInside, managerVars,
      PhaseGoesOn
  <2>2. CASE JobStep({GRoom}, {}, 0)
    <3>1. JobMove({GRoom}, {}, 0)
      BY <1>0, <2>1, <2>2, Ids, TakeMove
    <3> QED
      BY <3>1
  <2>3. CASE /\ ManagerJob.room \in rooms
             /\ \E j \in RoomJobs :
                  /\ j.kind = "enter" /\ j.player = ManagerJob.player
                  /\ JobStep({GRoom}, {ManagerJob.room}, j)
    <3>1. PICK j \in RoomJobs :
            /\ j.kind = "enter" /\ j.player = ManagerJob.player
            /\ JobStep({GRoom}, {ManagerJob.room}, j)
      BY <2>3
    <3>2. ManagerJob.room <= created
      <4>1. created \in Nat /\ rooms \subseteq 1 .. created
        BY <1>0, BoundsAssumption DEF Types, TypeOK
      <4>2. ManagerJob.room \in 1 .. created
        BY <2>3, <4>1
      <4> QED
        BY <4>1, <4>2
    <3>3. Alive(ManagerJob.room)
      BY <2>3 DEF Alive
    <3>4. JobMove({GRoom}, {ManagerJob.room}, j)
      BY <2>1, <3>1, <3>2, <3>3, Ids DEF JobMove
    <3> QED
      BY <3>4
  <2> QED
    BY <1>9, <1>0, <2>2, <2>3, LetsJobs
<1>10. ASSUME Forgets PROVE \E P, Q, j : JobMove(P, Q, j)
  <2>1. /\ owner' = owner /\ created' = created
        /\ \A r \in Rooms : PhaseGoesOn(r)
    BY <1>10, <1>0 DEF Forgets, RunManager, GameDelete, PhaseGoesOn
  <2> QED
    BY <1>10, <1>0, <2>1, ForgetsJobs, Ids, TakeMove
<1>11. ASSUME NEW r \in Rooms, BeginJob(r) PROVE \E P, Q, j : JobMove(P, Q, j)
  <2>1. /\ UNCHANGED <<jobs, owner, created>>
        /\ \A q \in Rooms : PhaseGoesOn(q)
    BY <1>11, <1>0 DEF BeginJob, GoTo, PhaseGoesOn
  <2> QED
    BY <1>0, <2>1, QuietMove
<1>12. ASSUME NEW r \in Rooms, HostBegins(r)
      PROVE  \E P, Q, j : JobMove(P, Q, j)
  <2>1. MayEnter(r, Runs(r)) /\ UNCHANGED jobs
    BY <1>12, <1>0, HostMayEnter
  <2>2. /\ UNCHANGED <<owner, created>>
        /\ \A q \in Rooms : PhaseGoesOn(q)
    BY <1>12, <1>0, <2>1 DEF HostBegins, In, HostBegun, GoTo, PhaseGoesOn
  <2> QED
    BY <1>0, <2>1, <2>2, QuietMove
<1>13. ASSUME NEW r \in Rooms, HostEnds(r) PROVE \E P, Q, j : JobMove(P, Q, j)
  <2>1. jobs[r] # <<>> /\ EndJob(r) /\ r \in Queues
    BY <1>13, <1>0, Ids DEF HostEnds, In, HostTold, Phases
  <2>2. JobStep({r}, {}, 0)
    BY <1>0, <2>1, EndJobJobs
  <2>3. /\ UNCHANGED <<owner, created>> /\ phase'[r] = "idle"
        /\ \A q \in Rooms : q # r => PhaseGoesOn(q)
    BY <1>13, <1>0, <2>1 DEF HostEnds, In, HostTold, EndJob, Finish, PhaseGoesOn
  <2> QED
    BY <1>0, <2>1, <2>2, <2>3, TakeMove
<1>14. ASSUME NEW r \in Rooms, EnterBegins(r)
      PROVE  \E P, Q, j : JobMove(P, Q, j)
  <2>1. /\ jobs[r] # <<>> /\ r \in Queues
        /\ EndJob(r) \/ GoTo(r, "entered")
        /\ UNCHANGED <<owner, created>> /\ phase[r] = "begun"
        /\ Head(jobs[r]).kind = "enter"
    BY <1>14, <1>0, Ids DEF EnterBegins, In, EnterBegun, Phases
  <2>2. CASE EndJob(r)
    <3>1. JobStep({r}, {}, 0)
      BY <1>0, <2>1, <2>2, EndJobJobs
    <3>2. phase'[r] = "idle" /\ \A q \in Rooms : q # r => PhaseGoesOn(q)
      BY <1>0, <2>2 DEF EndJob, Finish, PhaseGoesOn
    <3> QED
      BY <1>0, <2>1, <3>1, <3>2, TakeMove
  <2>3. CASE GoTo(r, "entered")
    <3>1. UNCHANGED jobs /\ \A q \in Rooms : PhaseGoesOn(q)
      BY <1>0, <2>1, <2>3 DEF GoTo, PhaseGoesOn
    <3> QED
      BY <1>0, <2>1, <3>1, QuietMove
  <2> QED
    BY <2>1, <2>2, <2>3
<1>15. ASSUME NEW r \in Rooms, EnterTells(r)
      PROVE  \E P, Q, j : JobMove(P, Q, j)
  <2>1. /\ UNCHANGED <<jobs, owner, created>>
        /\ \A q \in Rooms : PhaseGoesOn(q)
    BY <1>15, <1>0 DEF EnterTells, In, EnterTold, GoTo, PhaseGoesOn
  <2> QED
    BY <1>0, <2>1, QuietMove
<1>16. ASSUME NEW r \in Rooms, EnterEnds(r) PROVE \E P, Q, j : JobMove(P, Q, j)
  <2>1. jobs[r] # <<>> /\ EndJob(r) /\ r \in Queues
    BY <1>16, <1>0, Ids DEF EnterEnds, In, EnterListed, Phases
  <2>2. JobStep({r}, {}, 0)
    BY <1>0, <2>1, EndJobJobs
  <2>3. /\ UNCHANGED <<owner, created>> /\ phase'[r] = "idle"
        /\ \A q \in Rooms : q # r => PhaseGoesOn(q)
    BY <1>16, <1>0, <2>1 DEF EnterEnds, In, EnterListed, EndJob, Finish, PhaseGoesOn
  <2> QED
    BY <1>0, <2>1, <2>2, <2>3, TakeMove
<1>17. ASSUME NEW r \in Rooms, LeaveBegins(r)
      PROVE  \E P, Q, j : JobMove(P, Q, j)
  <2>1. /\ jobs[r] # <<>> /\ r \in Queues
        /\ EndJob(r) \/ GoTo(r, "left")
        /\ UNCHANGED <<owner, created>> /\ phase[r] = "begun"
        /\ Head(jobs[r]).kind = "leave"
    BY <1>17, <1>0, Ids DEF LeaveBegins, In, LeaveBegun, Phases
  <2>2. CASE EndJob(r)
    <3>1. JobStep({r}, {}, 0)
      BY <1>0, <2>1, <2>2, EndJobJobs
    <3>2. phase'[r] = "idle" /\ \A q \in Rooms : q # r => PhaseGoesOn(q)
      BY <1>0, <2>2 DEF EndJob, Finish, PhaseGoesOn
    <3> QED
      BY <1>0, <2>1, <3>1, <3>2, TakeMove
  <2>3. CASE GoTo(r, "left")
    <3>1. UNCHANGED jobs /\ \A q \in Rooms : PhaseGoesOn(q)
      BY <1>0, <2>1, <2>3 DEF GoTo, PhaseGoesOn
    <3> QED
      BY <1>0, <2>1, <3>1, QuietMove
  <2> QED
    BY <2>1, <2>2, <2>3
<1>18. ASSUME NEW r \in Rooms, LeaveEnds(r) PROVE \E P, Q, j : JobMove(P, Q, j)
  <2>1. /\ owner' = owner /\ created' = created /\ r \in Queues
        /\ phase'[r] = "idle"
        /\ \A q \in Rooms : q # r => PhaseGoesOn(q)
    BY <1>18, <1>0, Ids DEF LeaveEnds, In, LeaveTold, Finish, PhaseGoesOn
  <2>2. CASE JobStep({r}, {}, 0)
    BY <1>0, <2>1, <2>2, TakeMove
  <2>3. CASE /\ members[r] = {}
             /\ \E j \in ManagerJobs :
                  /\ j.kind = "delete" /\ j.room = r
                  /\ JobStep({r}, {GRoom}, j)
    <3>0. r \in emptied
      BY <1>18, <2>3 DEF LeaveEnds, In, IInv, Deletes
    <3>1. PICK j \in ManagerJobs : /\ j.kind = "delete" /\ j.room \in emptied
                                   /\ members[j.room] = {}
                                   /\ JobStep({r}, {GRoom}, j)
      BY <2>3, <3>0
    <3>2. JobMove({r}, {GRoom}, j)
      BY <2>1, <3>1, Ids DEF JobMove
    <3> QED
      BY <3>2
  <2> QED
    BY <1>18, <1>0, <2>2, <2>3, LeaveEndsJobs
<1>19. ASSUME NEW r \in Rooms, Starts(r) PROVE \E P, Q, j : JobMove(P, Q, j)
  <2>1. jobs[r] # <<>> /\ EndJob(r) /\ r \in Queues
    BY <1>19, <1>0, Ids DEF Starts, In, GameStart, Phases
  <2>2. JobStep({r}, {}, 0)
    BY <1>0, <2>1, EndJobJobs
  <2>3. /\ UNCHANGED <<owner, created>> /\ phase'[r] = "idle"
        /\ \A q \in Rooms : q # r => PhaseGoesOn(q)
    BY <1>19, <1>0, <2>1 DEF Starts, In, GameStart, EndJob, Finish, PhaseGoesOn
  <2> QED
    BY <1>0, <2>1, <2>2, <2>3, TakeMove
<1>20. ASSUME NEW r \in Rooms, Ends(r) PROVE \E P, Q, j : JobMove(P, Q, j)
  <2>1. jobs[r] # <<>> /\ EndJob(r) /\ r \in Queues
    BY <1>20, <1>0, Ids DEF Ends, In, GameEnd, Phases
  <2>2. JobStep({r}, {}, 0)
    BY <1>0, <2>1, EndJobJobs
  <2>3. /\ UNCHANGED <<owner, created>> /\ phase'[r] = "idle"
        /\ \A q \in Rooms : q # r => PhaseGoesOn(q)
    BY <1>20, <1>0, <2>1 DEF Ends, In, GameEnd, EndJob, Finish, PhaseGoesOn
  <2> QED
    BY <1>0, <2>1, <2>2, <2>3, TakeMove
<1>21. ASSUME NEW r \in Rooms, Collide(r) PROVE \E P, Q, j : JobMove(P, Q, j)
  <2>1. /\ UNCHANGED <<jobs, owner, created>>
        /\ \A q \in Rooms : PhaseGoesOn(q)
    BY <1>21, <1>0 DEF Collide, PhaseGoesOn
  <2> QED
    BY <1>0, <2>1, QuietMove
<1>22. CASE UNCHANGED vars
  <2>1. /\ UNCHANGED <<jobs, owner, created>>
        /\ \A r \in Rooms : PhaseGoesOn(r)
    BY <1>22 DEF vars, PhaseGoesOn
  <2> QED
    BY <1>0, <2>1, QuietMove
<1> QED
  BY <1>1, <1>2, <1>3, <1>4, <1>5, <1>6, <1>7, <1>8, <1>9, <1>10, <1>11,
     <1>12, <1>13, <1>14, <1>15, <1>16, <1>17, <1>18, <1>19, <1>20, <1>21,
     <1>22, StepCases


-----------------------------------------------------------------------------
(* Creations on their way never exceed the rooms that are left.            *)
LEMMA CreatesFitNext == IInv /\ [Next]_vars => CreatesFit'
<1> SUFFICES ASSUME IInv, [Next]_vars PROVE CreatesFit'
  OBVIOUS
<1>1. PICK P, Q, j : JobMove(P, Q, j)
  BY JobsMove DEF IInv
<1>2. Types /\ JobStep(P, Q, j)
  BY <1>1 DEF IInv, JobMove
<1>3. /\ CreatesPosted \in Nat /\ CreatesPosted' \in Int
      /\ GRoom \notin P \cup Q => CreatesPosted' = CreatesPosted
      /\ GRoom \in Q => CreatesPosted' =
           CreatesPosted + IF j.kind = "create" THEN 1 ELSE 0
      /\ GRoom \in P => CreatesPosted =
           CreatesPosted' + IF ManagerJob.kind = "create" THEN 1 ELSE 0
  <2>1. Types'
    BY TypesNext
  <2>2. CreatesPosted' = Cardinality(Creations(jobs'[GRoom]))
        /\ jobs'[GRoom] \in Seq(Jobs)
    BY <2>1, Ids DEF CreatesPosted, Creations, Types
  <2> QED
    BY <1>2, <2>2, CreatesCount, CreationsFinite
<1>4. created \in Nat /\ created + CreatesPosted <= MaxRooms
        /\ MaxRooms \in Nat
  BY <1>2, Counts DEF IInv, CreatesFit
<1>5. created' + CreatesPosted' <= MaxRooms
  <2>1. \/ created' = created /\ (Q # {} => j.kind # "host")
        \/ created' = created + 1 /\ P = {GRoom} /\ ManagerJob.kind = "create"
    BY <1>1 DEF JobMove
  <2>2. GRoom \in Q /\ j.kind = "create" =>
          created' = created /\ created + CreatesPosted < MaxRooms
    BY <1>1 DEF JobMove
  <2>3. P \cap Q = {}
    BY <1>2 DEF JobStep
  <2>4. CASE GRoom \notin P \cup Q
    BY <1>3, <1>4, <2>1, <2>4
  <2>5. CASE GRoom \in Q
    BY <1>3, <1>4, <2>1, <2>2, <2>3, <2>5
  <2>6. CASE GRoom \in P
    <3> DEFINE a == CreatesPosted
               b == CreatesPosted'
               c == IF ManagerJob.kind = "create" THEN 1 ELSE 0
    <3>1. a \in Nat /\ b \in Int /\ a = b + c /\ c \in {0, 1}
          /\ (ManagerJob.kind = "create" => c = 1)
      BY <1>3, <2>6
    <3>2. created' = created \/ (created' = created + 1 /\ c = 1)
      BY <2>1, <3>1
    <3>3. created + a <= MaxRooms
      BY <1>4
    <3> HIDE DEF a, b, c
    <3>4. created' + b <= MaxRooms
      BY <1>4, <3>1, <3>2, <3>3
    <3> QED
      BY <3>4 DEF b
  <2> QED
    BY <2>4, <2>5, <2>6
<1> QED
  BY <1>5 DEF CreatesFit

-----------------------------------------------------------------------------
(* Where a ticket was before the step: it is new with its player, made     *)
(* from the RoomManager's head, or in the same queue as before.            *)
LEMMA TicketsComeFrom ==
  ASSUME Types, NEW P, NEW Q, NEW j, JobMove(P, Q, j),
         NEW q, NEW i, NEW p, Ticket(q, i, p)'
  PROVE  /\ q \in Queues /\ i \in Nat /\ i > 0
         /\ \/ /\ q \in Q /\ i = Len(jobs[q]) + 1 /\ q = GRoom
               /\ p = Len(owner) + 1 /\ Len(owner') = Len(owner) + 1
            \/ /\ q \in Q /\ i = Len(jobs[q]) + 1
               /\ P = {GRoom} /\ Ticket(GRoom, 1, p)
            \/ q \in P /\ Ticket(q, i + 1, p)
            \/ q \notin P /\ Ticket(q, i, p)
<1>1. /\ JobStep(P, Q, j) /\ q \in Queues /\ i \in DOMAIN jobs'[q]
      /\ jobs'[q][i].kind \in JoinKinds /\ jobs'[q][i].player = p
  BY DEF JobMove, Ticket
<1>2. i \in Nat /\ i > 0
  <2>1. jobs[q] \in Seq(Jobs)
    BY <1>1 DEF Types
  <2>2. \/ jobs'[q] = jobs[q]
        \/ jobs'[q] = Append(jobs[q], j) /\ j \in Jobs
        \/ jobs[q] # <<>> /\ jobs'[q] = Tail(jobs[q])
    BY <1>1 DEF JobStep
  <2>3. CASE jobs[q] # <<>> /\ jobs'[q] = Tail(jobs[q])
    BY <1>1, <2>1, <2>3
  <2>4. CASE jobs'[q] = Append(jobs[q], j) /\ j \in Jobs
    BY <1>1, <2>1, <2>4
  <2> QED
    BY <1>1, <2>1, <2>2, <2>3, <2>4
<1>3. CASE q \in Q /\ i = Len(jobs[q]) + 1 /\ jobs'[q][i] = j
  <2>1. CASE j.kind \in {"inside", "create"}
    <3>1. /\ q = GRoom /\ j.player = Len(owner) + 1
          /\ Len(owner') = Len(owner) + 1
      BY <1>3, <2>1 DEF JobMove
    <3> QED
      BY <1>1, <1>2, <1>3, <3>1
  <2>2. CASE j.kind \in {"host", "enter"}
    <3>1. /\ P = {GRoom} /\ ManagerJob.kind \in {"inside", "create"}
          /\ p = ManagerJob.player
      BY <1>1, <1>3, <2>2 DEF JobMove
    <3>2. jobs[GRoom] # <<>>
      BY <1>1, <3>1, Ids DEF JobStep
    <3>3. Ticket(GRoom, 1, p)
      BY <3>1, <3>2, ManagerRuns, Ids DEF Ticket, JoinKinds
    <3> QED
      BY <1>1, <1>2, <1>3, <3>1, <3>3
  <2> QED
    BY <1>1, <1>3, <2>1, <2>2 DEF JoinKinds
<1>4. CASE /\ q \in P /\ i + 1 \in DOMAIN jobs[q]
           /\ jobs'[q][i] = jobs[q][i + 1]
  BY <1>1, <1>2, <1>4 DEF Ticket
<1>5. CASE q \notin P /\ i \in DOMAIN jobs[q] /\ jobs'[q][i] = jobs[q][i]
  BY <1>1, <1>2, <1>5 DEF Ticket
<1> QED
  BY <1>1, <1>3, <1>4, <1>5, JobsComeFrom

(* Tickets are of players that have been made, and each player has one at  *)
(* most.                                                                   *)
LEMMA TicketsAre ==
  ASSUME Types, Tickets
  PROVE  /\ \A q, i, p : Ticket(q, i, p) => p \in Players /\ p <= Len(owner)
         /\ \A q, i, k, m, p : Ticket(q, i, p) /\ Ticket(k, m, p)
              => q = k /\ i = m
<1>1. ASSUME NEW q, NEW i, NEW p, Ticket(q, i, p)
      PROVE  p \in Players /\ p <= Len(owner)
  <2>1. /\ q \in Queues /\ i \in DOMAIN jobs[q]
        /\ jobs[q][i].kind \in JoinKinds /\ jobs[q][i].player = p
    BY <1>1 DEF Ticket
  <2>2. jobs[q][i] \in ManagerJobs \/ jobs[q][i] \in RoomJobs
    BY <2>1 DEF Types, JobsOf
  <2>3. p \in Players
    BY <2>1, <2>2, ManagerJobFacts, RoomJobFacts DEF JoinKinds
  <2> QED
    BY <2>1, <2>3 DEF Tickets
<1>2. ASSUME NEW q, NEW i, NEW k, NEW m, NEW p,
             Ticket(q, i, p), Ticket(k, m, p)
      PROVE  q = k /\ i = m
  <2>1. p \in Players
    BY <1>1, <1>2
  <2>2. /\ q \in Queues /\ i \in DOMAIN jobs[q]
        /\ k \in Queues /\ m \in DOMAIN jobs[k]
    BY <1>2 DEF Ticket
  <2> QED
    BY <1>2, <2>1, <2>2 DEF Tickets
<1> QED
  BY <1>1, <1>2

(* A step leaves each player with one ticket at most.                      *)
LEMMA TicketsNext == IInv /\ [Next]_vars => Tickets'
<1> SUFFICES ASSUME IInv, [Next]_vars PROVE Tickets'
  OBVIOUS
<1>1. PICK P, Q, j : JobMove(P, Q, j)
  BY JobsMove DEF IInv
<1>2. Types /\ Tickets
  BY DEF IInv
<1>3. Len(owner) \in Nat
        /\ (Len(owner') = Len(owner) \/ Len(owner') = Len(owner) + 1)
  BY <1>1, <1>2, Counts DEF JobMove
<1>4. ASSUME NEW q, NEW i, NEW p, Ticket(q, i, p)'
      PROVE  p <= Len(owner')
  <2>1. \/ p = Len(owner) + 1 /\ Len(owner') = Len(owner) + 1
        \/ p \in Players /\ p <= Len(owner)
    BY <1>1, <1>2, <1>4, TicketsComeFrom, TicketsAre
  <2>2. CASE p = Len(owner) + 1 /\ Len(owner') = Len(owner) + 1
    BY <1>3, <2>2
  <2>3. CASE p \in Players /\ p <= Len(owner)
    <3>1. p \in Nat
      BY <2>3, Ids
    <3> QED
      BY <1>3, <2>3, <3>1
  <2> QED
    BY <2>1, <2>2, <2>3
<1>5. ASSUME NEW q, NEW i, NEW k, NEW m, NEW p,
             Ticket(q, i, p)', Ticket(k, m, p)'
      PROVE  q = k /\ i = m
  <2> DEFINE FromNew(a, b) ==
               /\ a \in Q /\ b = Len(jobs[a]) + 1 /\ p = Len(owner) + 1
             FromHead(a, b) ==
               /\ a \in Q /\ b = Len(jobs[a]) + 1
               /\ P = {GRoom} /\ Ticket(GRoom, 1, p)
             FromTail(a, b) == a \in P /\ Ticket(a, b + 1, p)
             FromSame(a, b) == a \notin P /\ Ticket(a, b, p)
  <2>1. /\ i \in Nat /\ i > 0 /\ m \in Nat /\ m > 0
        /\ FromNew(q, i) \/ FromHead(q, i) \/ FromTail(q, i) \/ FromSame(q, i)
        /\ FromNew(k, m) \/ FromHead(k, m) \/ FromTail(k, m) \/ FromSame(k, m)
    BY <1>1, <1>2, <1>5, TicketsComeFrom
  <2>2. q \in Q /\ k \in Q => q = k
    BY <1>1 DEF JobMove
  <2>3. /\ \A a, b : Ticket(a, b, p) => p # Len(owner) + 1
        /\ \A a, b, c, d : Ticket(a, b, p) /\ Ticket(c, d, p) => a = c /\ b = d
    BY <1>2, <1>3, TicketsAre, Ids
  <2>4. CASE FromNew(q, i)
    BY <2>1, <2>2, <2>3, <2>4
  <2>5. CASE FromHead(q, i)
    BY <2>1, <2>2, <2>3, <2>5
  <2>6. CASE FromTail(q, i)
    BY <2>1, <2>2, <2>3, <2>6
  <2>7. CASE FromSame(q, i)
    BY <2>1, <2>2, <2>3, <2>7
  <2> QED
    BY <2>1, <2>4, <2>5, <2>6, <2>7
<1>6. ASSUME NEW q \in Queues, NEW i \in DOMAIN jobs'[q],
             jobs'[q][i].kind \in JoinKinds
      PROVE  jobs'[q][i].player <= Len(owner')
  <2>1. PICK p : p = jobs'[q][i].player
    OBVIOUS
  <2>2. Ticket(q, i, p)'
    BY <1>6, <2>1 DEF Ticket
  <2> QED
    BY <1>4, <2>1, <2>2
<1> QED
  BY <1>5, <1>6 DEF Tickets

(* A player that has tried to enter has tried for good.                    *)
LEMMA UnbornShrinks ==
  ASSUME IInv, [Next]_vars, NEW p \in Players, Unborn(p)'
  PROVE  Unborn(p)
<1>1. PICK P, Q, j : JobMove(P, Q, j)
  BY JobsMove DEF IInv
<1>2. Types /\ Tickets /\ p \in Nat
  BY Ids DEF IInv
<1>3. Len(owner) \in Nat
        /\ (Len(owner') = Len(owner) \/ Len(owner') = Len(owner) + 1)
  BY <1>1, <1>2, Counts DEF JobMove
<1>4. CASE p > Len(owner')
  BY <1>2, <1>3, <1>4 DEF Unborn
<1>5. CASE \E q \in Queues : \E i \in DOMAIN jobs'[q] :
             Ticket(q, i, p)' /\ ~(q \in Rooms /\ i = 1 /\ Entering(q)')
  <2>0. PICK q \in Queues : \E i \in DOMAIN jobs'[q] :
          Ticket(q, i, p)' /\ ~(q \in Rooms /\ i = 1 /\ Entering(q)')
    BY <1>5
  <2>1. PICK i \in DOMAIN jobs'[q] :
          Ticket(q, i, p)' /\ ~(q \in Rooms /\ i = 1 /\ Entering(q)')
    BY <2>0
  <2>2. \A a, b : Ticket(a, b, p) => a \in Queues /\ b \in DOMAIN jobs[a]
    BY DEF Ticket
  <2>3. CASE p = Len(owner) + 1
    BY <1>3, <2>3 DEF Unborn
  <2>4. CASE Ticket(GRoom, 1, p)
    BY <2>2, <2>4, Ids DEF Unborn
  <2>5. CASE q \in P /\ Ticket(q, i + 1, p) /\ i \in Nat /\ i > 0
    <3>1. i + 1 # 1
      BY <2>5
    <3> QED
      BY <2>2, <2>5, <3>1 DEF Unborn
  <2>6. CASE q \notin P /\ Ticket(q, i, p)
    <3>1. ~(q \in Rooms /\ i = 1 /\ Entering(q))
      BY <1>1, <2>1, <2>6 DEF JobMove, PhaseGoesOn, Entering
    <3> QED
      BY <2>2, <2>6, <3>1 DEF Unborn
  <2> QED
    BY <1>1, <1>2, <2>1, <2>3, <2>4, <2>5, <2>6, TicketsComeFrom
<1> QED
  BY <1>4, <1>5 DEF Unborn

(* The player a room is letting in has been born.                          *)
LEMMA EnteringIsBorn ==
  ASSUME Types, Phases, Tickets, NEW r \in Rooms, Entering(r)
  PROVE  Runs(r) \in Players /\ ~Unborn(Runs(r)) /\ Ticket(r, 1, Runs(r))
<1>1. jobs[r] # <<>> /\ Head(jobs[r]).kind \in {"host", "enter"}
  BY DEF Entering, Phases
<1>2. Runs(r) \in Players /\ Ticket(r, 1, Runs(r))
  BY <1>1, RoomRuns, Ids DEF Ticket, JoinKinds, Runs
<1>3. /\ \A q, i : Ticket(q, i, Runs(r)) => q = r /\ i = 1
      /\ Runs(r) <= Len(owner) /\ Runs(r) \in Nat /\ Len(owner) \in Nat
  BY <1>2, TicketsAre, Ids, Counts
<1> QED
  BY <1>2, <1>3 DEF Unborn

-----------------------------------------------------------------------------
(* Who comes and goes.  A room lets in the player of its job; a player is  *)
(* taken out by the room's job or by OnDisconnected of its session.        *)
Enters(r, p) ==
  /\ phase[r] = "begun" /\ jobs[r] # <<>> /\ p = Runs(r) /\ p \in Players
  /\ \/ Head(jobs[r]).kind = "host" /\ phase'[r] = "hosting"
     \/ Head(jobs[r]).kind = "enter" /\ phase'[r] = "entered"
  /\ MayEnter(r, p) /\ EnterPlayer(r, p)
  /\ UNCHANGED <<sessionVars, leaveVars, managerVars, jobs, isStart,
                 view, snapshot, emptied>>
  /\ \A q \in Rooms : q # r => phase'[q] = phase[q]

Leaves(r, p) ==
  /\ p \in Players /\ p \in members[r] /\ LeavePlayer(r, p)
  /\ emptied' = IF members[r] = {p} THEN emptied \cup {r} ELSE emptied
  /\ UNCHANGED <<sessionVars, target, managerVars, jobs, isStart, view,
                 snapshot>>
  /\ \/ /\ phase[r] = "begun" /\ phase'[r] = "left" /\ p = Runs(r)
        /\ Head(jobs[r]).kind = "leave" /\ leaving' = leaving
        /\ \A q \in Rooms : q # r => phase'[q] = phase[q]
     \/ /\ phase' = phase
        /\ \E s \in Sessions :
             /\ leaving[s] = "inside" /\ target[s] = r /\ player[s] = p
             /\ leaving' = [leaving EXCEPT ![s] = "left"]

(* The jobs that let a player in or out do it, or end.                     *)
LEMMA HostEnters ==
  ASSUME IInv, NEW r \in Rooms, HostBegins(r)
  PROVE  Enters(r, Runs(r)) /\ Runs(r) \in Players
<1>0. /\ Types /\ Phases /\ HostComesFirst
      /\ phase \in [Rooms -> {"idle", "begun", "hosting", "entered",
                               "listed", "left"}]
  BY DEF IInv, Types, TypeOK
<1>1. MayEnter(r, Runs(r)) /\ UNCHANGED jobs /\ jobs[r] # <<>>
  BY <1>0, HostMayEnter
<1>2. Runs(r) \in Players
  BY <1>0, <1>1, RoomRuns
<1> QED
  BY <1>0, <1>1, <1>2 DEF HostBegins, In, HostBegun, GoTo, Enters, sessionVars,
     leaveVars, managerVars

(* HandleEnterPlayer lets its player in, or ends.                          *)
LEMMA EnterEnters ==
  ASSUME IInv, NEW r \in Rooms, EnterBegins(r)
  PROVE  /\ Runs(r) \in Players
         /\ \/ Enters(r, Runs(r))
            \/ EndJob(r) /\ UNCHANGED <<roomOf, emptied>>
<1>0. /\ Types /\ Phases
      /\ phase \in [Rooms -> {"idle", "begun", "hosting", "entered",
                               "listed", "left"}]
  BY DEF IInv, Types, TypeOK
<1>1. jobs[r] # <<>> /\ Runs(r) \in Players
  BY <1>0, RoomRuns DEF EnterBegins, In, Phases
<1>2. CASE MayEnter(r, Runs(r))
  BY <1>0, <1>1, <1>2 DEF EnterBegins, In, EnterBegun, GoTo, Enters,
    sessionVars,
     leaveVars, managerVars
<1>3. CASE ~MayEnter(r, Runs(r))
  BY <1>1, <1>3 DEF EnterBegins, In, EnterBegun
<1> QED
  BY <1>2, <1>3

(* HandleLeavePlayer takes its player out, or ends.                        *)
LEMMA LeaveLeaves ==
  ASSUME IInv, NEW r \in Rooms, LeaveBegins(r)
  PROVE  /\ Runs(r) \in Players
         /\ \/ Leaves(r, Runs(r))
            \/ EndJob(r) /\ UNCHANGED <<roomOf, emptied>>
<1>0. /\ Types /\ Phases
      /\ phase \in [Rooms -> {"idle", "begun", "hosting", "entered",
                               "listed", "left"}]
  BY DEF IInv, Types, TypeOK
<1>1. jobs[r] # <<>> /\ Runs(r) \in Players
  BY <1>0, RoomRuns DEF LeaveBegins, In, Phases
<1>2. CASE Runs(r) \in members[r]
  BY <1>0, <1>1, <1>2 DEF LeaveBegins, In, LeaveBegun, GoTo, Leaves,
    sessionVars,
     leaveVars, managerVars
<1>3. CASE Runs(r) \notin members[r]
  BY <1>1, <1>3 DEF LeaveBegins, In, LeaveBegun
<1> QED
  BY <1>2, <1>3

(* The members of the rooms after a step.                                  *)
MembersMove ==
  \/ UNCHANGED <<members, roomOf, emptied>>
  \/ \E r \in Rooms : Shuts(r) /\ UNCHANGED <<roomOf, emptied>>
  \/ \E r \in Rooms, p \in Players : Enters(r, p) \/ Leaves(r, p)

(* Every step moves at most one player.                                    *)
LEMMA MembersMoveHolds == IInv /\ [Next]_vars => MembersMove
<1> SUFFICES ASSUME IInv, [Next]_vars PROVE MembersMove
  OBVIOUS
<1>0. /\ Types /\ Phases /\ HostComesFirst /\ SessionsAgree
      /\ phase \in [Rooms -> {"idle", "begun", "hosting", "entered",
                               "listed", "left"}]
  BY DEF IInv, Types, TypeOK
<1> USE DEF sessionVars, leaveVars, roomVars, managerVars, MembersMove
<1>1. ASSUME NEW s \in Sessions, Receive(s) PROVE MembersMove
  BY <1>1 DEF Receive, ReceiveJoin, ReceiveInRoom, MayJoin
<1>2. ASSUME NEW s \in Sessions, PostJoin(s) PROVE MembersMove
  BY <1>2 DEF PostJoin
<1>3. ASSUME NEW s \in Sessions, PostToRoom(s) PROVE MembersMove
  BY <1>3 DEF PostToRoom
<1>4. ASSUME NEW s \in Sessions, DisconnectLook(s) PROVE MembersMove
  BY <1>4 DEF DisconnectLook
<1>5. ASSUME NEW s \in Sessions, DisconnectLeave(s) PROVE MembersMove
  <2>1. target[s] \in Rooms /\ player[s] \in Players
    BY <1>5, <1>0 DEF DisconnectLeave, SessionsAgree, Types, TypeOK
  <2>2. CASE player[s] \in members[target[s]]
    <3>1. Leaves(target[s], player[s])
      BY <1>5, <1>0, <2>1, <2>2 DEF DisconnectLeave, Leaves
    <3> QED
      BY <2>1, <3>1
  <2>3. CASE player[s] \notin members[target[s]]
    BY <1>5, <2>3 DEF DisconnectLeave
  <2> QED
    BY <2>2, <2>3
<1>6. ASSUME NEW s \in Sessions, DisconnectTell(s) PROVE MembersMove
  BY <1>6 DEF DisconnectTell, ToldOfLeave
<1>7. ASSUME NEW s \in Sessions, DisconnectDone(s) PROVE MembersMove
  BY <1>7, <1>0, DoneMoves DEF DisconnectDone, Types
<1>8. ASSUME Creates PROVE MembersMove
  BY <1>8 DEF Creates, RunManager, GameCreate, NewRoomId
<1>9. ASSUME Lets PROVE MembersMove
  BY <1>9 DEF Lets, RunManager, GameInside
<1>10. ASSUME Forgets PROVE MembersMove
  BY <1>10, <1>0, ForgetsMoves, ForgetsJobs DEF Forgets, RunManager, GameDelete
<1>11. ASSUME NEW r \in Rooms, BeginJob(r) PROVE MembersMove
  BY <1>11 DEF BeginJob, GoTo
<1>12. ASSUME NEW r \in Rooms, HostBegins(r) PROVE MembersMove
  BY <1>12, HostEnters
<1>13. ASSUME NEW r \in Rooms, HostEnds(r) PROVE MembersMove
  BY <1>13, <1>0, LetGoMoves DEF HostEnds, In, HostTold, EndJob, Finish, Types
<1>14. ASSUME NEW r \in Rooms, EnterBegins(r) PROVE MembersMove
  BY <1>14, <1>0, EnterEnters, LetGoMoves DEF EndJob, Finish, Types
<1>15. ASSUME NEW r \in Rooms, EnterTells(r) PROVE MembersMove
  BY <1>15 DEF EnterTells, In, EnterTold, ToldOfEntry, GoTo
<1>16. ASSUME NEW r \in Rooms, EnterEnds(r) PROVE MembersMove
  BY <1>16, <1>0, LetGoMoves DEF EnterEnds, In, EnterListed, EndJob, Finish,
    Types
<1>17. ASSUME NEW r \in Rooms, LeaveBegins(r) PROVE MembersMove
  BY <1>17, <1>0, LeaveLeaves, LetGoMoves DEF EndJob, Finish, Types
<1>18. ASSUME NEW r \in Rooms, LeaveEnds(r) PROVE MembersMove
  BY <1>18, <1>0, LetGoMoves DEF LeaveEnds, In, LeaveTold, Finish, Types
<1>19. ASSUME NEW r \in Rooms, Starts(r) PROVE MembersMove
  BY <1>19, <1>0, LetGoMoves DEF Starts, In, GameStart, EndJob, Finish, Types
<1>20. ASSUME NEW r \in Rooms, Ends(r) PROVE MembersMove
  BY <1>20, <1>0, LetGoMoves DEF Ends, In, GameEnd, EndJob, Finish, Types
<1>21. ASSUME NEW r \in Rooms, Collide(r) PROVE MembersMove
  BY <1>21 DEF Collide
<1>22. CASE UNCHANGED vars
  BY <1>22 DEF vars
<1> QED
  BY <1>1, <1>2, <1>3, <1>4, <1>5, <1>6, <1>7, <1>8, <1>9, <1>10, <1>11,
     <1>12, <1>13, <1>14, <1>15, <1>16, <1>17, <1>18, <1>19, <1>20, <1>21,
     <1>22, StepCases


(* Only a job of its own opens or closes a room to newcomers.              *)
StartMove ==
  \A q \in Rooms :
    \/ isStart'[q] = isStart[q]
    \/ phase[q] # "idle" /\ Head(jobs[q]).kind \in {"start", "end"}

(* Every step keeps to it.                                                 *)
LEMMA StartMoveHolds == IInv /\ [Next]_vars => StartMove
<1> SUFFICES ASSUME IInv, [Next]_vars PROVE StartMove
  OBVIOUS
<1>0. isStart \in [Rooms -> BOOLEAN]
  BY DEF IInv, Types, TypeOK
<1> USE DEF sessionVars, leaveVars, roomVars, managerVars, StartMove
<1>1. ASSUME NEW s \in Sessions, Receive(s) PROVE StartMove
  BY <1>1, <1>0 DEF Receive, ReceiveJoin, ReceiveInRoom, MayJoin
<1>2. ASSUME NEW s \in Sessions, PostJoin(s) PROVE StartMove
  BY <1>2, <1>0 DEF PostJoin
<1>3. ASSUME NEW s \in Sessions, PostToRoom(s) PROVE StartMove
  BY <1>3, <1>0 DEF PostToRoom
<1>4. ASSUME NEW s \in Sessions, DisconnectLook(s) PROVE StartMove
  BY <1>4, <1>0 DEF DisconnectLook
<1>5. ASSUME NEW s \in Sessions, DisconnectLeave(s) PROVE StartMove
  BY <1>5, <1>0 DEF DisconnectLeave, LeavePlayer
<1>6. ASSUME NEW s \in Sessions, DisconnectTell(s) PROVE StartMove
  BY <1>6, <1>0 DEF DisconnectTell, ToldOfLeave
<1>7. ASSUME NEW s \in Sessions, DisconnectDone(s) PROVE StartMove
  BY <1>7, <1>0 DEF DisconnectDone
<1>8. ASSUME Creates PROVE StartMove
  BY <1>8, <1>0 DEF Creates, RunManager, GameCreate, NewRoomId
<1>9. ASSUME Lets PROVE StartMove
  BY <1>9, <1>0 DEF Lets, RunManager, GameInside
<1>10. ASSUME Forgets PROVE StartMove
  BY <1>10, <1>0 DEF Forgets, RunManager, GameDelete
<1>11. ASSUME NEW r \in Rooms, BeginJob(r) PROVE StartMove
  BY <1>11, <1>0 DEF BeginJob, GoTo
<1>12. ASSUME NEW r \in Rooms, HostBegins(r) PROVE StartMove
  BY <1>12, <1>0 DEF HostBegins, In, HostBegun, EnterPlayer, GoTo
<1>13. ASSUME NEW r \in Rooms, HostEnds(r) PROVE StartMove
  BY <1>13, <1>0 DEF HostEnds, In, HostTold, EndJob, Finish
<1>14. ASSUME NEW r \in Rooms, EnterBegins(r) PROVE StartMove
  BY <1>14, <1>0 DEF EnterBegins, In, EnterBegun, EnterPlayer, GoTo, EndJob, Finish
<1>15. ASSUME NEW r \in Rooms, EnterTells(r) PROVE StartMove
  BY <1>15, <1>0 DEF EnterTells, In, EnterTold, ToldOfEntry, GoTo
<1>16. ASSUME NEW r \in Rooms, EnterEnds(r) PROVE StartMove
  BY <1>16, <1>0 DEF EnterEnds, In, EnterListed, EndJob, Finish
<1>17. ASSUME NEW r \in Rooms, LeaveBegins(r) PROVE StartMove
  BY <1>17, <1>0 DEF LeaveBegins, In, LeaveBegun, LeavePlayer, GoTo, EndJob, Finish
<1>18. ASSUME NEW r \in Rooms, LeaveEnds(r) PROVE StartMove
  BY <1>18, <1>0 DEF LeaveEnds, In, LeaveTold, Finish, ToldOfLeave
<1>19. ASSUME NEW r \in Rooms, Starts(r) PROVE StartMove
  BY <1>19, <1>0 DEF Starts, In, GameStart, StageStart, EndJob, Finish
<1>20. ASSUME NEW r \in Rooms, Ends(r) PROVE StartMove
  BY <1>20, <1>0 DEF Ends, In, GameEnd, EndJob, Finish
<1>21. ASSUME NEW r \in Rooms, Collide(r) PROVE StartMove
  BY <1>21, <1>0 DEF Collide
<1>22. CASE UNCHANGED vars
  BY <1>22, <1>0 DEF vars
<1> QED
  BY <1>1, <1>2, <1>3, <1>4, <1>5, <1>6, <1>7, <1>8, <1>9, <1>10, <1>11,
     <1>12, <1>13, <1>14, <1>15, <1>16, <1>17, <1>18, <1>19, <1>20, <1>21,
     <1>22, StepCases


(* Steps of sessions, and steps that leave sessions alone.                 *)
SessionMove ==
  \/ UNCHANGED <<handler, player, owner, leaving, target>>
  \/ \E s \in Sessions :
       \/ Receive(s) \/ PostJoin(s) \/ PostToRoom(s) \/ DisconnectLook(s)
       \/ DisconnectLeave(s) \/ DisconnectTell(s) \/ DisconnectDone(s)

(* Every step is one or the other.                                         *)
LEMMA SessionMoveHolds == IInv /\ [Next]_vars => SessionMove
<1> SUFFICES ASSUME IInv, [Next]_vars PROVE SessionMove
  OBVIOUS
<1> USE DEF sessionVars, leaveVars, roomVars, managerVars, SessionMove
<1>1. ASSUME NEW s \in Sessions, Receive(s) PROVE SessionMove
  BY <1>1
<1>2. ASSUME NEW s \in Sessions, PostJoin(s) PROVE SessionMove
  BY <1>2
<1>3. ASSUME NEW s \in Sessions, PostToRoom(s) PROVE SessionMove
  BY <1>3
<1>4. ASSUME NEW s \in Sessions, DisconnectLook(s) PROVE SessionMove
  BY <1>4
<1>5. ASSUME NEW s \in Sessions, DisconnectLeave(s) PROVE SessionMove
  BY <1>5
<1>6. ASSUME NEW s \in Sessions, DisconnectTell(s) PROVE SessionMove
  BY <1>6
<1>7. ASSUME NEW s \in Sessions, DisconnectDone(s) PROVE SessionMove
  BY <1>7
<1>8. ASSUME Creates PROVE SessionMove
  BY <1>8 DEF Creates, RunManager, GameCreate, NewRoomId
<1>9. ASSUME Lets PROVE SessionMove
  BY <1>9 DEF Lets, RunManager, GameInside
<1>10. ASSUME Forgets PROVE SessionMove
  BY <1>10 DEF Forgets, RunManager, GameDelete
<1>11. ASSUME NEW r \in Rooms, BeginJob(r) PROVE SessionMove
  BY <1>11 DEF BeginJob, GoTo
<1>12. ASSUME NEW r \in Rooms, HostBegins(r) PROVE SessionMove
  BY <1>12 DEF HostBegins, In, HostBegun, EnterPlayer, GoTo
<1>13. ASSUME NEW r \in Rooms, HostEnds(r) PROVE SessionMove
  BY <1>13 DEF HostEnds, In, HostTold, EndJob, Finish
<1>14. ASSUME NEW r \in Rooms, EnterBegins(r) PROVE SessionMove
  BY <1>14 DEF EnterBegins, In, EnterBegun, EnterPlayer, GoTo, EndJob, Finish
<1>15. ASSUME NEW r \in Rooms, EnterTells(r) PROVE SessionMove
  BY <1>15 DEF EnterTells, In, EnterTold, ToldOfEntry, GoTo
<1>16. ASSUME NEW r \in Rooms, EnterEnds(r) PROVE SessionMove
  BY <1>16 DEF EnterEnds, In, EnterListed, EndJob, Finish
<1>17. ASSUME NEW r \in Rooms, LeaveBegins(r) PROVE SessionMove
  BY <1>17 DEF LeaveBegins, In, LeaveBegun, LeavePlayer, GoTo, EndJob, Finish
<1>18. ASSUME NEW r \in Rooms, LeaveEnds(r) PROVE SessionMove
  BY <1>18 DEF LeaveEnds, In, LeaveTold, Finish, ToldOfLeave
<1>19. ASSUME NEW r \in Rooms, Starts(r) PROVE SessionMove
  BY <1>19 DEF Starts, In, GameStart, StageStart, EndJob, Finish
<1>20. ASSUME NEW r \in Rooms, Ends(r) PROVE SessionMove
  BY <1>20 DEF Ends, In, GameEnd, EndJob, Finish
<1>21. ASSUME NEW r \in Rooms, Collide(r) PROVE SessionMove
  BY <1>21 DEF Collide
<1>22. CASE UNCHANGED vars
  BY <1>22 DEF vars
<1> QED
  BY <1>1, <1>2, <1>3, <1>4, <1>5, <1>6, <1>7, <1>8, <1>9, <1>10, <1>11,
     <1>12, <1>13, <1>14, <1>15, <1>16, <1>17, <1>18, <1>19, <1>20, <1>21,
     <1>22, StepCases


(* Steps that tell clients something, and steps that do not.               *)
ViewMove ==
  \/ UNCHANGED <<view, snapshot>>
  \/ \E r \in Rooms :
       HostEnds(r) \/ EnterTells(r) \/ EnterEnds(r) \/ LeaveEnds(r)
  \/ \E s \in Sessions : DisconnectTell(s)

(* Every step is one or the other.                                         *)
LEMMA ViewMoveHolds == IInv /\ [Next]_vars => ViewMove
<1> SUFFICES ASSUME IInv, [Next]_vars PROVE ViewMove
  OBVIOUS
<1> USE DEF sessionVars, leaveVars, roomVars, managerVars, ViewMove
<1>1. ASSUME NEW s \in Sessions, Receive(s) PROVE ViewMove
  BY <1>1 DEF Receive, ReceiveJoin, ReceiveInRoom, MayJoin
<1>2. ASSUME NEW s \in Sessions, PostJoin(s) PROVE ViewMove
  BY <1>2 DEF PostJoin
<1>3. ASSUME NEW s \in Sessions, PostToRoom(s) PROVE ViewMove
  BY <1>3 DEF PostToRoom
<1>4. ASSUME NEW s \in Sessions, DisconnectLook(s) PROVE ViewMove
  BY <1>4 DEF DisconnectLook
<1>5. ASSUME NEW s \in Sessions, DisconnectLeave(s) PROVE ViewMove
  BY <1>5 DEF DisconnectLeave, LeavePlayer
<1>6. ASSUME NEW s \in Sessions, DisconnectTell(s) PROVE ViewMove
  BY <1>6
<1>7. ASSUME NEW s \in Sessions, DisconnectDone(s) PROVE ViewMove
  BY <1>7 DEF DisconnectDone
<1>8. ASSUME Creates PROVE ViewMove
  BY <1>8 DEF Creates, RunManager, GameCreate, NewRoomId
<1>9. ASSUME Lets PROVE ViewMove
  BY <1>9 DEF Lets, RunManager, GameInside
<1>10. ASSUME Forgets PROVE ViewMove
  BY <1>10 DEF Forgets, RunManager, GameDelete
<1>11. ASSUME NEW r \in Rooms, BeginJob(r) PROVE ViewMove
  BY <1>11 DEF BeginJob, GoTo
<1>12. ASSUME NEW r \in Rooms, HostBegins(r) PROVE ViewMove
  BY <1>12 DEF HostBegins, In, HostBegun, EnterPlayer, GoTo
<1>13. ASSUME NEW r \in Rooms, HostEnds(r) PROVE ViewMove
  BY <1>13
<1>14. ASSUME NEW r \in Rooms, EnterBegins(r) PROVE ViewMove
  BY <1>14 DEF EnterBegins, In, EnterBegun, EnterPlayer, GoTo, EndJob, Finish
<1>15. ASSUME NEW r \in Rooms, EnterTells(r) PROVE ViewMove
  BY <1>15
<1>16. ASSUME NEW r \in Rooms, EnterEnds(r) PROVE ViewMove
  BY <1>16
<1>17. ASSUME NEW r \in Rooms, LeaveBegins(r) PROVE ViewMove
  BY <1>17 DEF LeaveBegins, In, LeaveBegun, LeavePlayer, GoTo, EndJob, Finish
<1>18. ASSUME NEW r \in Rooms, LeaveEnds(r) PROVE ViewMove
  BY <1>18
<1>19. ASSUME NEW r \in Rooms, Starts(r) PROVE ViewMove
  BY <1>19 DEF Starts, In, GameStart, StageStart, EndJob, Finish
<1>20. ASSUME NEW r \in Rooms, Ends(r) PROVE ViewMove
  BY <1>20 DEF Ends, In, GameEnd, EndJob, Finish
<1>21. ASSUME NEW r \in Rooms, Collide(r) PROVE ViewMove
  BY <1>21 DEF Collide
<1>22. CASE UNCHANGED vars
  BY <1>22 DEF vars
<1> QED
  BY <1>1, <1>2, <1>3, <1>4, <1>5, <1>6, <1>7, <1>8, <1>9, <1>10, <1>11,
     <1>12, <1>13, <1>14, <1>15, <1>16, <1>17, <1>18, <1>19, <1>20, <1>21,
     <1>22, StepCases


(* What the end of a phase means.                                          *)
RoomMove(q) ==
  /\ phase[q] = "begun" /\ phase'[q] \in {"hosting", "entered"}
       => Enters(q, Runs(q))
  /\ phase[q] = "begun" /\ phase'[q] = "left" => Leaves(q, Runs(q))
  /\ phase[q] = "entered" /\ phase'[q] = "listed" => EnterTells(q)
  /\ Entering(q) /\ phase'[q] = "idle" => HostEnds(q) \/ EnterEnds(q)
  /\ phase[q] = "left" /\ phase'[q] = "idle" => LeaveEnds(q)

(* Every step of every room is such a step.                                *)
LEMMA RoomMoveHolds == IInv /\ [Next]_vars => \A q \in Rooms : RoomMove(q)
<1> SUFFICES ASSUME IInv, [Next]_vars PROVE \A q \in Rooms : RoomMove(q)
  OBVIOUS
<1>0. /\ Types /\ Phases /\ HostComesFirst /\ SessionsAgree
      /\ phase \in [Rooms -> {"idle", "begun", "hosting", "entered",
                               "listed", "left"}]
  BY DEF IInv, Types, TypeOK
<1> USE DEF sessionVars, leaveVars, roomVars, managerVars
<1>1. ASSUME NEW s \in Sessions, Receive(s) PROVE \A q \in Rooms : RoomMove(q)
  <2>1. phase' = phase
    BY <1>1 DEF Receive
  <2> QED
    BY <2>1 DEF RoomMove, Entering
<1>2. ASSUME NEW s \in Sessions, PostJoin(s) PROVE \A q \in Rooms : RoomMove(q)
  <2>1. phase' = phase
    BY <1>2 DEF PostJoin
  <2> QED
    BY <2>1 DEF RoomMove, Entering
<1>3. ASSUME NEW s \in Sessions, PostToRoom(s)
      PROVE  \A q \in Rooms : RoomMove(q)
  <2>1. phase' = phase
    BY <1>3 DEF PostToRoom
  <2> QED
    BY <2>1 DEF RoomMove, Entering
<1>4. ASSUME NEW s \in Sessions, DisconnectLook(s)
      PROVE  \A q \in Rooms : RoomMove(q)
  <2>1. phase' = phase
    BY <1>4 DEF DisconnectLook
  <2> QED
    BY <2>1 DEF RoomMove, Entering
<1>5. ASSUME NEW s \in Sessions, DisconnectLeave(s)
      PROVE  \A q \in Rooms : RoomMove(q)
  <2>1. phase' = phase
    BY <1>5 DEF DisconnectLeave
  <2> QED
    BY <2>1 DEF RoomMove, Entering
<1>6. ASSUME NEW s \in Sessions, DisconnectTell(s)
      PROVE  \A q \in Rooms : RoomMove(q)
  <2>1. phase' = phase
    BY <1>6 DEF DisconnectTell
  <2> QED
    BY <2>1 DEF RoomMove, Entering
<1>7. ASSUME NEW s \in Sessions, DisconnectDone(s)
      PROVE  \A q \in Rooms : RoomMove(q)
  <2>1. phase' = phase
    BY <1>7 DEF DisconnectDone
  <2> QED
    BY <2>1 DEF RoomMove, Entering
<1>8. ASSUME Creates PROVE \A q \in Rooms : RoomMove(q)
  <2>1. phase' = phase
    BY <1>8 DEF Creates, RunManager
  <2> QED
    BY <2>1 DEF RoomMove, Entering
<1>9. ASSUME Lets PROVE \A q \in Rooms : RoomMove(q)
  <2>1. phase' = phase
    BY <1>9 DEF Lets, RunManager
  <2> QED
    BY <2>1 DEF RoomMove, Entering
<1>10. ASSUME Forgets PROVE \A q \in Rooms : RoomMove(q)
  <2>1. phase' = phase
    BY <1>10 DEF Forgets, RunManager
  <2> QED
    BY <2>1 DEF RoomMove, Entering
<1>11. ASSUME NEW r \in Rooms, BeginJob(r) PROVE \A q \in Rooms : RoomMove(q)
  <2>1. \A q \in Rooms : q # r => phase'[q] = phase[q]
    BY <1>11, <1>0 DEF BeginJob, GoTo
  <2>2. RoomMove(r)
    BY <1>11, <1>0 DEF BeginJob, GoTo, RoomMove, Entering
  <2> QED
    BY <2>1, <2>2 DEF RoomMove, Entering
<1>12. ASSUME NEW r \in Rooms, HostBegins(r) PROVE \A q \in Rooms : RoomMove(q)
  <2>1. phase[r] = "begun" /\ (Enters(r, Runs(r)))
    BY <1>12, HostEnters DEF HostBegins, In
  <2>2. CASE Enters(r, Runs(r))
    <3>1. RoomMove(r)
      BY <1>0, <2>1, <2>2 DEF Enters, RoomMove, Entering
    <3>2. \A q \in Rooms : q # r => phase'[q] = phase[q]
      BY <1>12, <1>0 DEF HostBegins, In, HostBegun, GoTo, Finish
    <3> QED
      BY <3>1, <3>2 DEF RoomMove, Entering
  <2> QED
    BY <2>1, <2>2
<1>13. ASSUME NEW r \in Rooms, HostEnds(r) PROVE \A q \in Rooms : RoomMove(q)
  <2>1. \A q \in Rooms : q # r => phase'[q] = phase[q]
    BY <1>13, <1>0 DEF HostEnds, In, HostTold, EndJob, Finish
  <2>2. RoomMove(r)
    BY <1>13, <1>0 DEF HostEnds, In, HostTold, EndJob, Finish, RoomMove, Entering
  <2> QED
    BY <2>1, <2>2 DEF RoomMove, Entering
<1>14. ASSUME NEW r \in Rooms, EnterBegins(r)
      PROVE  \A q \in Rooms : RoomMove(q)
  <2>1. phase[r] = "begun" /\ (Enters(r, Runs(r)) \/ EndJob(r))
    BY <1>14, EnterEnters DEF EnterBegins, In
  <2>2. CASE Enters(r, Runs(r))
    <3>1. RoomMove(r)
      BY <1>0, <2>1, <2>2 DEF Enters, RoomMove, Entering
    <3>2. \A q \in Rooms : q # r => phase'[q] = phase[q]
      BY <1>14, <1>0 DEF EnterBegins, In, EnterBegun, GoTo, EndJob, Finish
    <3> QED
      BY <3>1, <3>2 DEF RoomMove, Entering
  <2>3. CASE EndJob(r)
    BY <1>0, <2>1, <2>3 DEF EndJob, Finish, RoomMove, Entering
  <2> QED
    BY <2>1, <2>2, <2>3
<1>15. ASSUME NEW r \in Rooms, EnterTells(r) PROVE \A q \in Rooms : RoomMove(q)
  <2>1. \A q \in Rooms : q # r => phase'[q] = phase[q]
    BY <1>15, <1>0 DEF EnterTells, In, EnterTold, GoTo
  <2>2. RoomMove(r)
    BY <1>15, <1>0 DEF EnterTells, In, EnterTold, GoTo, RoomMove, Entering
  <2> QED
    BY <2>1, <2>2 DEF RoomMove, Entering
<1>16. ASSUME NEW r \in Rooms, EnterEnds(r) PROVE \A q \in Rooms : RoomMove(q)
  <2>1. \A q \in Rooms : q # r => phase'[q] = phase[q]
    BY <1>16, <1>0 DEF EnterEnds, In, EnterListed, EndJob, Finish
  <2>2. RoomMove(r)
    BY <1>16, <1>0 DEF EnterEnds, In, EnterListed, EndJob, Finish, RoomMove, Entering
  <2> QED
    BY <2>1, <2>2 DEF RoomMove, Entering
<1>17. ASSUME NEW r \in Rooms, LeaveBegins(r)
      PROVE  \A q \in Rooms : RoomMove(q)
  <2>1. phase[r] = "begun" /\ (Leaves(r, Runs(r)) \/ EndJob(r))
    BY <1>17, LeaveLeaves DEF LeaveBegins, In
  <2>2. CASE Leaves(r, Runs(r))
    <3>1. RoomMove(r)
      BY <1>0, <2>1, <2>2 DEF Leaves, RoomMove, Entering
    <3>2. \A q \in Rooms : q # r => phase'[q] = phase[q]
      BY <1>17, <1>0 DEF LeaveBegins, In, LeaveBegun, GoTo, EndJob, Finish
    <3> QED
      BY <3>1, <3>2 DEF RoomMove, Entering
  <2>3. CASE EndJob(r)
    BY <1>0, <2>1, <2>3 DEF EndJob, Finish, RoomMove, Entering
  <2> QED
    BY <2>1, <2>2, <2>3
<1>18. ASSUME NEW r \in Rooms, LeaveEnds(r) PROVE \A q \in Rooms : RoomMove(q)
  <2>1. \A q \in Rooms : q # r => phase'[q] = phase[q]
    BY <1>18, <1>0 DEF LeaveEnds, In, LeaveTold, Finish
  <2>2. RoomMove(r)
    BY <1>18, <1>0 DEF LeaveEnds, In, LeaveTold, Finish, RoomMove, Entering
  <2> QED
    BY <2>1, <2>2 DEF RoomMove, Entering
<1>19. ASSUME NEW r \in Rooms, Starts(r) PROVE \A q \in Rooms : RoomMove(q)
  <2>1. \A q \in Rooms : q # r => phase'[q] = phase[q]
    BY <1>19, <1>0 DEF Starts, In, GameStart, EndJob, Finish
  <2>2. RoomMove(r)
    BY <1>19, <1>0 DEF Starts, In, GameStart, EndJob, Finish, RoomMove, Entering,
      Phases
  <2> QED
    BY <2>1, <2>2 DEF RoomMove, Entering
<1>20. ASSUME NEW r \in Rooms, Ends(r) PROVE \A q \in Rooms : RoomMove(q)
  <2>1. \A q \in Rooms : q # r => phase'[q] = phase[q]
    BY <1>20, <1>0 DEF Ends, In, GameEnd, EndJob, Finish
  <2>2. RoomMove(r)
    BY <1>20, <1>0 DEF Ends, In, GameEnd, EndJob, Finish, RoomMove, Entering, Phases
  <2> QED
    BY <2>1, <2>2 DEF RoomMove, Entering
<1>21. ASSUME NEW r \in Rooms, Collide(r) PROVE \A q \in Rooms : RoomMove(q)
  <2>1. phase' = phase
    BY <1>21 DEF Collide
  <2> QED
    BY <2>1 DEF RoomMove, Entering
<1>22. CASE UNCHANGED vars
  <2>1. phase' = phase
    BY <1>22 DEF vars
  <2> QED
    BY <2>1 DEF RoomMove, Entering
<1> QED
  BY <1>1, <1>2, <1>3, <1>4, <1>5, <1>6, <1>7, <1>8, <1>9, <1>10, <1>11,
     <1>12, <1>13, <1>14, <1>15, <1>16, <1>17, <1>18, <1>19, <1>20, <1>21,
     <1>22, StepCases


-----------------------------------------------------------------------------
(* The phase of a room keeps agreeing with its job.                        *)
LEMMA PhasesNext == IInv /\ [Next]_vars => Phases'
<1> SUFFICES ASSUME IInv, [Next]_vars, NEW r \in Rooms
             PROVE  /\ phase'[r] # "idle" => jobs'[r] # <<>>
                    /\ phase'[r] = "hosting" => Head(jobs'[r]).kind = "host"
                    /\ phase'[r] \in {"entered", "listed"} =>
                         Head(jobs'[r]).kind = "enter"
                    /\ phase'[r] = "left" => Head(jobs'[r]).kind = "leave"
  BY DEF Phases
<1>1. PICK P, Q, j : JobMove(P, Q, j)
  BY JobsMove DEF IInv
<1>2. Types /\ JobStep(P, Q, j) /\ r \in Queues
  BY <1>1, Ids DEF IInv, JobMove
<1>3. /\ phase[r] # "idle" => jobs[r] # <<>>
      /\ phase[r] = "hosting" => Head(jobs[r]).kind = "host"
      /\ phase[r] \in {"entered", "listed"} => Head(jobs[r]).kind = "enter"
      /\ phase[r] = "left" => Head(jobs[r]).kind = "leave"
  BY DEF IInv, Phases
<1>4. CASE r \in P
  BY <1>1, <1>4 DEF JobMove
<1>5. CASE r \notin P /\ jobs[r] = <<>>
  <2>1. phase'[r] = "idle"
    BY <1>1, <1>3, <1>5 DEF JobMove, PhaseGoesOn
  <2> QED
    BY <2>1
<1>6. CASE r \notin P /\ jobs[r] # <<>>
  <2>1. jobs'[r] # <<>> /\ Head(jobs'[r]) = Head(jobs[r])
    BY <1>2, <1>6, HeadStays
  <2>2. PhaseGoesOn(r)
    BY <1>1, <1>6 DEF JobMove
  <2> QED
    BY <1>3, <2>1, <2>2 DEF PhaseGoesOn
<1> QED
  BY <1>4, <1>5, <1>6

(* Rooms are created one after the other.                                  *)
LEMMA CreatedGrows ==
  ASSUME IInv, [Next]_vars
  PROVE  /\ created \in Nat
         /\ created' \in Nat /\ created <= created'
<1>1. PICK P, Q, j : JobMove(P, Q, j)
  BY JobsMove DEF IInv
<1>2. created \in Nat
  BY Counts DEF IInv
<1> QED
  BY <1>1, <1>2 DEF JobMove

(* Jobs of the RoomManager that create and forget rooms, and other steps.  *)
RoomsMove == UNCHANGED managerVars \/ Creates \/ Forgets

(* Every step is one or the other.                                         *)
LEMMA RoomsMoveHolds == IInv /\ [Next]_vars => RoomsMove
<1> SUFFICES ASSUME IInv, [Next]_vars PROVE RoomsMove
  OBVIOUS
<1> USE DEF sessionVars, leaveVars, roomVars, managerVars, RoomsMove
<1>1. ASSUME NEW s \in Sessions, Receive(s) PROVE RoomsMove
  BY <1>1 DEF Receive, ReceiveJoin, ReceiveInRoom, MayJoin
<1>2. ASSUME NEW s \in Sessions, PostJoin(s) PROVE RoomsMove
  BY <1>2 DEF PostJoin
<1>3. ASSUME NEW s \in Sessions, PostToRoom(s) PROVE RoomsMove
  BY <1>3 DEF PostToRoom
<1>4. ASSUME NEW s \in Sessions, DisconnectLook(s) PROVE RoomsMove
  BY <1>4 DEF DisconnectLook
<1>5. ASSUME NEW s \in Sessions, DisconnectLeave(s) PROVE RoomsMove
  BY <1>5 DEF DisconnectLeave, LeavePlayer
<1>6. ASSUME NEW s \in Sessions, DisconnectTell(s) PROVE RoomsMove
  BY <1>6 DEF DisconnectTell, ToldOfLeave
<1>7. ASSUME NEW s \in Sessions, DisconnectDone(s) PROVE RoomsMove
  BY <1>7 DEF DisconnectDone
<1>8. ASSUME Creates PROVE RoomsMove
  BY <1>8
<1>9. ASSUME Lets PROVE RoomsMove
  BY <1>9 DEF Lets, GameInside
<1>10. ASSUME Forgets PROVE RoomsMove
  BY <1>10
<1>11. ASSUME NEW r \in Rooms, BeginJob(r) PROVE RoomsMove
  BY <1>11 DEF BeginJob, GoTo
<1>12. ASSUME NEW r \in Rooms, HostBegins(r) PROVE RoomsMove
  BY <1>12 DEF HostBegins, In, HostBegun, EnterPlayer, GoTo
<1>13. ASSUME NEW r \in Rooms, HostEnds(r) PROVE RoomsMove
  BY <1>13 DEF HostEnds, In, HostTold, EndJob, Finish
<1>14. ASSUME NEW r \in Rooms, EnterBegins(r) PROVE RoomsMove
  BY <1>14 DEF EnterBegins, In, EnterBegun, EnterPlayer, GoTo, EndJob, Finish
<1>15. ASSUME NEW r \in Rooms, EnterTells(r) PROVE RoomsMove
  BY <1>15 DEF EnterTells, In, EnterTold, ToldOfEntry, GoTo
<1>16. ASSUME NEW r \in Rooms, EnterEnds(r) PROVE RoomsMove
  BY <1>16 DEF EnterEnds, In, EnterListed, EndJob, Finish
<1>17. ASSUME NEW r \in Rooms, LeaveBegins(r) PROVE RoomsMove
  BY <1>17 DEF LeaveBegins, In, LeaveBegun, LeavePlayer, GoTo, EndJob, Finish
<1>18. ASSUME NEW r \in Rooms, LeaveEnds(r) PROVE RoomsMove
  BY <1>18 DEF LeaveEnds, In, LeaveTold, Finish, ToldOfLeave
<1>19. ASSUME NEW r \in Rooms, Starts(r) PROVE RoomsMove
  BY <1>19 DEF Starts, In, GameStart, StageStart, EndJob, Finish
<1>20. ASSUME NEW r \in Rooms, Ends(r) PROVE RoomsMove
  BY <1>20 DEF Ends, In, GameEnd, EndJob, Finish
<1>21. ASSUME NEW r \in Rooms, Collide(r) PROVE RoomsMove
  BY <1>21 DEF Collide
<1>22. CASE UNCHANGED vars
  BY <1>22 DEF vars
<1> QED
  BY <1>1, <1>2, <1>3, <1>4, <1>5, <1>6, <1>7, <1>8, <1>9, <1>10, <1>11,
     <1>12, <1>13, <1>14, <1>15, <1>16, <1>17, <1>18, <1>19, <1>20, <1>21,
     <1>22, StepCases

-----------------------------------------------------------------------------
(* A room nobody holds is not held again.                                  *)
LEMMA DeadRoomsStayDead ==
  ASSUME IInv, [Next]_vars, NEW r \in Rooms, r <= created, ~Alive(r)
  PROVE  ~Alive(r)'
<1>0. /\ TypeOK /\ r \notin rooms /\ jobs[r] = <<>> /\ r \in Nat
      /\ \A s \in Sessions : target[s] # r
      /\ \A s \in Sessions : handler[s].kind \in InRoomKinds
                               => handler[s].room # r
      /\ created \in Nat /\ None # r
  BY Ids, Counts DEF IInv, Types, Alive, InRoomKinds
<1>1. \A x : LockRoom(x) # r
  BY <1>0 DEF LockRoom
<1>2. jobs'[r] = <<>>
  <2>1. PICK P, Q, j : JobMove(P, Q, j)
    BY JobsMove DEF IInv
  <2>2. JobStep(P, Q, j) /\ r \in Queues
    BY <2>1, Ids DEF JobMove
  <2>3. r \notin Q
    BY <1>0, <2>1 DEF JobMove
  <2>4. r \notin P
    BY <1>0, <2>2 DEF JobStep
  <2> QED
    BY <1>0, <2>2, <2>3, <2>4 DEF JobStep
<1>3. r \notin rooms'
  <2>1. CASE Creates
    <3>1. created + 1 \in rooms' /\ rooms' = rooms \cup {created + 1}
      BY <2>1 DEF Creates, GameCreate, NewRoomId
    <3> QED
      BY <1>0, <3>1
  <2>2. CASE Forgets
    BY <1>0, <2>2 DEF Forgets, GameDelete
  <2> QED
    BY <1>0, <2>1, <2>2, RoomsMoveHolds DEF RoomsMove, managerVars
<1>4. ASSUME NEW s \in Sessions
      PROVE  /\ target'[s] # r
             /\ handler'[s].kind \in InRoomKinds => handler'[s].room # r
  <2> USE <1>0, <1>1 DEF TypeOK
  <2>0. handler \in [Sessions -> Handlers]
    BY DEF IInv, Types
  <2>1. CASE UNCHANGED <<handler, player, owner, leaving, target>>
    BY <2>1
  <2>2. ASSUME NEW u \in Sessions, Receive(u)
        PROVE  /\ target' = target
               /\ handler'[s].kind \in InRoomKinds => handler'[s].room # r
    <3>1. CASE ReceiveJoin(u)
      BY <2>0, <2>2, <3>1 DEF Receive, ReceiveJoin, InRoomKinds, leaveVars
    <3>2. CASE ReceiveInRoom(u)
      BY <2>0, <2>2, <3>2 DEF Receive, ReceiveInRoom, InRoomKinds, leaveVars
    <3> QED
      BY <2>2, <3>1, <3>2 DEF Receive
  <2>3. ASSUME NEW u \in Sessions, PostJoin(u) \/ PostToRoom(u)
        PROVE  /\ target' = target
               /\ handler'[s].kind \in InRoomKinds => handler'[s].room # r
    <3>1. target' = target /\ handler' = [handler EXCEPT ![u] = Idle]
      BY <2>3 DEF PostJoin, PostToRoom, leaveVars
    <3> QED
      BY <2>0, <3>1 DEF Idle, InRoomKinds
  <2>4. ASSUME NEW u \in Sessions, DisconnectLook(u) \/ DisconnectDone(u)
        PROVE  handler' = handler /\ target'[s] # r
    <3>1. /\ handler' = handler
          /\ \E x \in {None, LockRoom(player[u])} :
               target' = [target EXCEPT ![u] = x]
      BY <2>4 DEF DisconnectLook, DisconnectDone, sessionVars
    <3> QED
      BY <3>1
  <2>5. ASSUME NEW u \in Sessions, DisconnectLeave(u) \/ DisconnectTell(u)
        PROVE  handler' = handler /\ target' = target
    BY <2>5 DEF DisconnectLeave, DisconnectTell, sessionVars
  <2> QED
    BY <2>1, <2>2, <2>3, <2>4, <2>5, SessionMoveHolds DEF SessionMove
<1> QED
  BY <1>2, <1>3, <1>4 DEF Alive, InRoomKinds

(* Who takes the last job of a room lets go of the room.                   *)
LEMMA TakersLetGo ==
  ASSUME IInv, [Next]_vars, NEW r \in Rooms, jobs[r] # <<>>, jobs'[r] = <<>>
  PROVE  LetGo(r)
<1>0. /\ TypeOK /\ Types /\ Phases /\ HostComesFirst
      /\ jobs \in [Queues -> Seq(Jobs)] /\ r \in Queues /\ r # GRoom
  BY Ids DEF IInv, Types
<1>1. ASSUME NEW k \in Rooms, k # r, EndJob(k) PROVE FALSE
  BY <1>0, <1>1 DEF EndJob, Finish
<1>2. ASSUME NEW k \in Rooms, EndJob(k) PROVE LetGo(r)
  BY <1>1, <1>2 DEF EndJob, Finish
<1>3. jobs' # jobs
  OBVIOUS
<1>4. ASSUME NEW q \in Queues, NEW j, jobs' = Post(jobs, q, j) PROVE FALSE
  BY <1>0, <1>4 DEF Post
<1>5. ASSUME NEW j, NEW q \in Queues,
             \/ jobs' = [jobs EXCEPT ![GRoom] = Tail(@)]
             \/ jobs' = Post([jobs EXCEPT ![GRoom] = Tail(@)], q, j)
      PROVE  FALSE
  BY <1>0, <1>5 DEF Post
<1>6. ASSUME NEW s \in Sessions PROVE
        /\ ~Receive(s) /\ ~PostJoin(s) /\ ~PostToRoom(s)
        /\ ~DisconnectLook(s) /\ ~DisconnectLeave(s)
        /\ ~DisconnectTell(s) /\ ~DisconnectDone(s)
  <2>1. ASSUME PostJoin(s) PROVE FALSE
    BY <1>4, <2>1, Ids DEF PostJoin
  <2>2. ASSUME PostToRoom(s) PROVE FALSE
    <3>1. handler[s].room \in Rooms
      BY <2>2, <1>0, HandlerFacts DEF PostToRoom, Types, InRoomKinds
    <3> QED
      BY <1>4, <2>2, <3>1, Ids DEF PostToRoom
  <2>3. ASSUME DisconnectTell(s) PROVE FALSE
    BY <1>3, <1>4, <2>3, Ids DEF DisconnectTell, DeleteIfEmpty
  <2> QED
    BY <1>3, <2>1, <2>2, <2>3 DEF Receive, DisconnectLook, DisconnectLeave,
       DisconnectDone
<1>7. ~Creates /\ ~Lets /\ ~Forgets
  <2>1. ASSUME Creates PROVE FALSE
    <3>1. NewRoomId \in Queues
      BY <2>1, CreatesJobs, Ids, <1>0 DEF NewRoomId, IInv
    <3> QED
      BY <1>5, <2>1, <3>1 DEF Creates, GameCreate
  <2>2. ASSUME Lets PROVE FALSE
    BY <1>0, <1>5, <2>2, LetsJobs, Ids DEF Lets, GameInside
  <2>3. ASSUME Forgets PROVE FALSE
    BY <1>5, <2>3, Ids DEF Forgets, GameDelete
  <2> QED
    BY <2>1, <2>2, <2>3
<1>8. ASSUME NEW k \in Rooms PROVE
        /\ ~BeginJob(k) /\ ~HostBegins(k) /\ ~EnterTells(k) /\ ~Collide(k)
  <2>1. ~HostBegins(k)
    BY <1>0, <1>3, HostMayEnter
  <2> QED
    BY <1>3, <2>1 DEF BeginJob, GoTo, EnterTells, EnterTold, Collide
<1>9. ASSUME NEW k \in Rooms,
             \/ HostEnds(k) \/ EnterBegins(k) \/ EnterEnds(k)
             \/ LeaveBegins(k) \/ Starts(k) \/ Ends(k)
      PROVE  LetGo(r)
  BY <1>2, <1>3, <1>9 DEF HostEnds, HostTold, EnterBegins, EnterBegun, EnterEnds,
     EnterListed, LeaveBegins, LeaveBegun, Starts, GameStart, Ends, GameEnd, GoTo
<1>10. ASSUME NEW k \in Rooms, LeaveEnds(k) PROVE LetGo(r)
  <2>1. /\ LetGo(k)
        /\ jobs' = DeleteIfEmpty(k, [jobs EXCEPT ![k] = Tail(@)])
    BY <1>10 DEF LeaveEnds, LeaveTold, Finish
  <2>2. k # r => jobs'[r] = jobs[r]
    BY <1>0, <2>1 DEF DeleteIfEmpty, Post
  <2> QED
    BY <2>1, <2>2
<1>11. ~UNCHANGED vars
  BY <1>3 DEF vars
<1> QED
  BY <1>6, <1>7, <1>8, <1>9, <1>10, <1>11, StepCases

(* A room that keeps a member is still held: only the step that lets go of *)
(* its last reference could end that, and it empties the room.             *)
LEMMA AliveStays ==
  ASSUME IInv, [Next]_vars, NEW r \in Rooms, Alive(r), members'[r] # {}
  PROVE  Alive(r)'
<1>0. /\ TypeOK /\ Types /\ handler \in [Sessions -> Handlers]
      /\ jobs \in [Queues -> Seq(Jobs)] /\ r \in Queues
  BY Ids DEF IInv, Types
<1>1. ASSUME LetGo(r) PROVE Alive(r)'
  <2>1. r \in Living'
    BY <1>0, <1>1 DEF LetGo, TypeOK
  <2> QED
    BY <2>1 DEF Living
<1>2. CASE r \in rooms
  <2>1. CASE r \in rooms'
    BY <2>1 DEF Alive
  <2>2. CASE r \notin rooms'
    <3>1. Forgets /\ ManagerJob.room = r
      BY <1>2, <2>2, RoomsMoveHolds DEF RoomsMove, managerVars, Creates,
         GameCreate, Forgets, GameDelete
    <3>2. LetGo(r)
      BY <3>1 DEF Forgets, GameDelete
    <3> QED
      BY <1>1, <3>2
  <2> QED
    BY <2>1, <2>2
<1>3. CASE jobs[r] # <<>>
  <2>1. CASE jobs'[r] # <<>>
    BY <2>1 DEF Alive
  <2>2. CASE jobs'[r] = <<>>
    BY <1>1, <1>3, <2>2, TakersLetGo
  <2> QED
    BY <2>1, <2>2
<1>4. ASSUME NEW s \in Sessions, target[s] = r PROVE Alive(r)'
  <2>1. CASE target'[s] = r
    BY <2>1 DEF Alive
  <2>2. CASE target'[s] # r
    <3>1. ASSUME NEW u \in Sessions,
                 \/ Receive(u) \/ PostJoin(u) \/ PostToRoom(u)
                 \/ DisconnectLeave(u) \/ DisconnectTell(u)
          PROVE  target' = target
      BY <3>1 DEF Receive, PostJoin, PostToRoom, DisconnectLeave,
         DisconnectTell, leaveVars
    <3>2. ASSUME NEW u \in Sessions, DisconnectLook(u) PROVE FALSE
      <4>1. leaving[u] = "no" /\ \E x : target' = [target EXCEPT ![u] = x]
        BY <3>2 DEF DisconnectLook
      <4>2. u = s
        BY <1>0, <1>4, <2>2, <4>1 DEF TypeOK
      <4> QED
        BY <1>4, <4>1, <4>2, Ids DEF IInv, SessionsAgree
    <3>3. ASSUME NEW u \in Sessions, DisconnectDone(u) PROVE LetGo(r)
      <4>1. target' = [target EXCEPT ![u] = None]
        BY <3>3 DEF DisconnectDone
      <4>2. u = s
        BY <1>0, <1>4, <2>2, <4>1 DEF TypeOK
      <4> QED
        BY <1>4, <3>3, <4>2, Ids DEF DisconnectDone
    <3> QED
      BY <1>1, <1>4, <2>2, <3>1, <3>2, <3>3, SessionMoveHolds DEF SessionMove
  <2> QED
    BY <2>1, <2>2
<1>5. ASSUME NEW s \in Sessions, handler[s].kind \in InRoomKinds,
             handler[s].room = r
      PROVE  Alive(r)'
  <2>1. CASE handler'[s] = handler[s]
    BY <1>5, <2>1 DEF Alive, InRoomKinds
  <2>2. CASE handler'[s] # handler[s]
    <3>0. handler[s] # Idle /\ handler[s].kind \notin {"inside", "create"}
      BY <1>5 DEF Idle, InRoomKinds
    <3>1. ASSUME NEW u \in Sessions, Receive(u) PROVE FALSE
      <4>1. handler[u] = Idle /\ \E x : handler' = [handler EXCEPT ![u] = x]
        BY <3>1 DEF Receive, ReceiveJoin, ReceiveInRoom
      <4> QED
        BY <1>0, <2>2, <3>0, <4>1
    <3>2. ASSUME NEW u \in Sessions, PostJoin(u) PROVE FALSE
      <4>1. /\ handler[u].kind \in {"inside", "create"}
            /\ handler' = [handler EXCEPT ![u] = Idle]
        BY <3>2 DEF PostJoin
      <4> QED
        BY <1>0, <2>2, <3>0, <4>1
    <3>3. ASSUME NEW u \in Sessions, PostToRoom(u) PROVE jobs'[r] # <<>>
      <4>1. handler' = [handler EXCEPT ![u] = Idle]
        BY <3>3 DEF PostToRoom
      <4>2. u = s
        BY <1>0, <2>2, <4>1
      <4>3. \E j : jobs' = [jobs EXCEPT ![r] = Append(@, j)]
        BY <1>5, <3>3, <4>2 DEF PostToRoom, Post
      <4> QED
        BY <1>0, <4>3
    <3>4. ASSUME NEW u \in Sessions,
                 \/ DisconnectLook(u) \/ DisconnectLeave(u)
                 \/ DisconnectTell(u) \/ DisconnectDone(u)
          PROVE  handler' = handler
      BY <3>4 DEF DisconnectLook, DisconnectLeave, DisconnectTell,
         DisconnectDone, sessionVars
    <3> QED
      BY <2>2, <3>1, <3>2, <3>3, <3>4, SessionMoveHolds
         DEF SessionMove, Alive
  <2> QED
    BY <2>1, <2>2
<1> QED
  BY <1>2, <1>3, <1>4, <1>5 DEF Alive, InRoomKinds

(* A room that has shut has no job left and nobody in it.                  *)
LEMMA ShutRooms ==
  ASSUME IInv, [Next]_vars, NEW r \in Rooms, Shuts(r)
  PROVE  /\ members'[r] = {} /\ phase'[r] = "idle"
         /\ \A s \in Sessions : target'[s] # r
<1>1. members \in [Rooms -> SUBSET Players]
  BY DEF IInv, Types, TypeOK
<1>2. /\ jobs'[r] = <<>>
      /\ \A s \in Sessions : target'[s] # r
  BY DEF Shuts, Alive
<1>3. phase'[r] = "idle"
  BY <1>2, PhasesNext DEF Phases
<1> QED
  BY <1>1, <1>2, <1>3 DEF Shuts

(* Rooms that have not been created stay unknown.                          *)
LEMMA FreshNext == IInv /\ [Next]_vars => Fresh'
<1> SUFFICES ASSUME IInv, [Next]_vars, NEW r \in Rooms, r > created'
             PROVE  /\ jobs'[r] = <<>> /\ members'[r] = {} /\ ~isStart'[r]
                    /\ \A p \in Players : roomOf'[p] # r
                    /\ \A s \in Sessions :
                         /\ target'[s] # r
                         /\ handler'[s].kind \in InRoomKinds
                              => handler'[s].room # r
  BY DEF Fresh
<1>1. PICK P, Q, j : JobMove(P, Q, j)
  BY JobsMove DEF IInv
<1>2. Types /\ JobStep(P, Q, j) /\ r \in Queues /\ r \in Nat
  BY <1>1, Ids DEF IInv, JobMove
<1>3. r > created
  BY <1>2, CreatedGrows
<1>4. /\ jobs[r] = <<>> /\ members[r] = {} /\ ~isStart[r]
      /\ \A p \in Players : roomOf[p] # r
      /\ \A s \in Sessions :
           /\ target[s] # r
           /\ handler[s].kind \in InRoomKinds => handler[s].room # r
  BY <1>3 DEF IInv, Fresh
<1>5. jobs'[r] = <<>>
  <2>1. r \notin Q
    BY <1>1, <1>2, CreatedGrows DEF JobMove
  <2>2. r \notin P
    BY <1>2, <1>4 DEF JobStep
  <2> QED
    BY <1>2, <1>4, <2>1, <2>2 DEF JobStep
<1>6. /\ members'[r] = {} /\ \A p \in Players : roomOf'[p] # r
  <2>1. CASE UNCHANGED <<members, roomOf, emptied>>
    BY <1>4, <2>1
  <2>4. ASSUME NEW k \in Rooms, Shuts(k), UNCHANGED <<roomOf, emptied>>
        PROVE  members'[r] = {} /\ \A q \in Players : roomOf'[q] # r
    BY <1>2, <1>4, <2>4 DEF Shuts, Types, TypeOK
  <2>2. ASSUME NEW k \in Rooms, NEW p \in Players, Enters(k, p)
        PROVE  members'[r] = {} /\ \A q \in Players : roomOf'[q] # r
    <3>1. k # r /\ EnterPlayer(k, p)
      BY <1>4, <2>2 DEF Enters
    <3> QED
      BY <1>2, <1>4, <3>1 DEF EnterPlayer, Types, TypeOK
  <2>3. ASSUME NEW k \in Rooms, NEW p \in Players, Leaves(k, p)
        PROVE  members'[r] = {} /\ \A q \in Players : roomOf'[q] # r
    <3>1. LeavePlayer(k, p) /\ None # r
      BY <2>3, Ids DEF Leaves
    <3> QED
      BY <1>2, <1>4, <3>1 DEF LeavePlayer, Types, TypeOK
  <2> QED
    BY <2>1, <2>2, <2>3, <2>4, MembersMoveHolds DEF MembersMove
<1>7. ~isStart'[r]
  <2>1. phase[r] = "idle"
    BY <1>4 DEF IInv, Phases
  <2> QED
    BY <1>4, <2>1, StartMoveHolds DEF StartMove
<1>8. ASSUME NEW s \in Sessions
      PROVE  /\ target'[s] # r
             /\ handler'[s].kind \in InRoomKinds => handler'[s].room # r
  <2> USE <1>2, <1>4 DEF Types, TypeOK
  <2>1. LockRoom(player[s]) # r
    BY Ids DEF LockRoom
  <2>2. \A u \in Sessions : LockRoom(player[u]) # r
    BY Ids DEF LockRoom
  <2>3. CASE UNCHANGED <<handler, player, owner, leaving, target>>
    BY <2>3
  <2>4. ASSUME NEW u \in Sessions, Receive(u)
        PROVE  /\ target'[s] # r
               /\ handler'[s].kind \in InRoomKinds => handler'[s].room # r
    <3>1. target' = target
      BY <2>4 DEF Receive, leaveVars
    <3>2. CASE ReceiveJoin(u)
      <4>1. PICK h : /\ handler' = [handler EXCEPT ![u] = h]
                     /\ h.kind \notin InRoomKinds
        BY <3>2 DEF ReceiveJoin, InRoomKinds
      <4>2. handler'[s] = h \/ handler'[s] = handler[s]
        BY <4>1
      <4> QED
        BY <3>1, <4>1, <4>2
    <3>3. CASE ReceiveInRoom(u)
      BY <2>2, <2>4, <3>1, <3>3 DEF ReceiveInRoom, InRoomKinds
    <3> QED
      BY <2>4, <3>2, <3>3 DEF Receive
  <2>5. ASSUME NEW u \in Sessions, PostJoin(u) \/ PostToRoom(u)
        PROVE  /\ target'[s] # r
               /\ handler'[s].kind \in InRoomKinds => handler'[s].room # r
    <3>1. target' = target /\ handler' = [handler EXCEPT ![u] = Idle]
      BY <2>5 DEF PostJoin, PostToRoom, leaveVars
    <3> QED
      BY <3>1 DEF Idle, InRoomKinds
  <2>6. ASSUME NEW u \in Sessions, DisconnectLook(u) \/ DisconnectDone(u)
        PROVE  /\ target'[s] # r
               /\ handler'[s].kind \in InRoomKinds => handler'[s].room # r
    <3>1. /\ handler' = handler
          /\ \E x \in {None, LockRoom(player[u])} :
               target' = [target EXCEPT ![u] = x]
      BY <2>6 DEF DisconnectLook, DisconnectDone, sessionVars
    <3> QED
      BY <2>2, <3>1, Ids
  <2>7. ASSUME NEW u \in Sessions, DisconnectLeave(u) \/ DisconnectTell(u)
        PROVE  /\ target'[s] # r
               /\ handler'[s].kind \in InRoomKinds => handler'[s].room # r
    BY <2>7 DEF DisconnectLeave, DisconnectTell, sessionVars
  <2> QED
    BY <2>3, <2>4, <2>5, <2>6, <2>7, SessionMoveHolds DEF SessionMove
<1> QED
  BY <1>5, <1>6, <1>7, <1>8

-----------------------------------------------------------------------------
(* Entering a room takes a player that has not tried yet, and no player    *)
(* tries twice.                                                            *)
LEMMA EntersBears ==
  ASSUME IInv, NEW r \in Rooms, NEW p \in Players, Enters(r, p)
  PROVE  Unborn(p) /\ ~Unborn(p)'
<1>1. Types /\ Tickets
  BY DEF IInv
<1>2. /\ phase[r] = "begun" /\ jobs[r] # <<>> /\ p = Runs(r)
      /\ Head(jobs[r]).kind \in {"host", "enter"}
      /\ phase'[r] \in {"hosting", "entered"} /\ jobs' = jobs /\ owner' = owner
  BY DEF Enters, sessionVars
<1>3. Ticket(r, 1, p) /\ 1 \in DOMAIN jobs[r] /\ r \in Queues
  BY <1>1, <1>2, RoomRuns, Ids DEF Ticket, JoinKinds, Runs
<1>4. Unborn(p)
  BY <1>2, <1>3 DEF Unborn, Entering
<1>5. /\ \A q, i : Ticket(q, i, p) => q = r /\ i = 1
      /\ p <= Len(owner) /\ p \in Nat /\ Len(owner) \in Nat
  BY <1>1, <1>3, TicketsAre, Ids, Counts
<1>6. \A q, i : Ticket(q, i, p)' => Ticket(q, i, p)
  BY <1>2 DEF Ticket
<1>7. ~Unborn(p)'
  <2>1. ~(p > Len(owner'))
    BY <1>2, <1>5
  <2>2. Entering(r)'
    BY <1>2 DEF Entering
  <2> QED
    BY <1>5, <1>6, <2>1, <2>2 DEF Unborn
<1> QED
  BY <1>4, <1>7

(* A player comes from no room and leaves the room it is in; a room goes   *)
(* with the last reference to it, and its members with it.                 *)
LEMMA AgreeNext == IInv /\ [Next]_vars => Agree'
<1> SUFFICES ASSUME IInv, [Next]_vars, NEW r \in Rooms, NEW p \in Players
             PROVE  p \in members'[r] <=> roomOf'[p] = r /\ Alive(r)'
  BY DEF Agree
<1>0. /\ members \in [Rooms -> SUBSET Players]
      /\ roomOf \in [Players -> Rooms \cup {None}]
      /\ None \notin Rooms /\ r \in Nat /\ created \in Nat
  BY Ids, Counts DEF IInv, Types, TypeOK
<1>1. \A k \in Rooms, q \in Players :
        q \in members[k] <=> roomOf[q] = k /\ Alive(k)
  BY DEF IInv, Agree
<1>2. p \in members'[r] /\ p \in members[r] => Alive(r)'
  BY <1>1, AliveStays
<1>3. roomOf[p] = r /\ Alive(r)' => Alive(r)
  <2>1. ASSUME roomOf[p] = r, ~Alive(r) PROVE ~Alive(r)'
    <3>1. ~(r > created)
      BY <2>1 DEF IInv, Fresh
    <3>2. r <= created
      BY <1>0, <3>1
    <3> QED
      BY <2>1, <3>2, DeadRoomsStayDead
  <2> QED
    BY <2>1
<1>4. CASE UNCHANGED <<members, roomOf, emptied>>
  BY <1>1, <1>2, <1>3, <1>4
<1>5. ASSUME NEW k \in Rooms, Shuts(k), UNCHANGED <<roomOf, emptied>>
      PROVE  p \in members'[r] <=> roomOf'[p] = r /\ Alive(r)'
  <2>1. CASE k = r
    BY <1>0, <1>5, <2>1 DEF Shuts
  <2>2. CASE k # r
    <3>1. members'[r] = members[r] /\ roomOf' = roomOf
      BY <1>0, <1>5, <2>2 DEF Shuts
    <3> QED
      BY <1>1, <1>2, <1>3, <3>1
  <2> QED
    BY <2>1, <2>2
<1>6. ASSUME NEW k \in Rooms, NEW q \in Players, Enters(k, q)
      PROVE  p \in members'[r] <=> roomOf'[p] = r /\ Alive(r)'
  <2>1. /\ members' = [members EXCEPT ![k] = @ \cup {q}]
        /\ roomOf' = [roomOf EXCEPT ![q] = k]
        /\ jobs[k] # <<>> /\ jobs' = jobs
    BY <1>6 DEF Enters, EnterPlayer
  <2>2. roomOf[q] = None
    <3>1. Unborn(q)
      BY <1>6, EntersBears
    <3> QED
      BY <3>1 DEF IInv, NotYet
  <2>3. Alive(k)'
    BY <2>1 DEF Alive
  <2>4. CASE p = q
    <3>1. roomOf'[p] = k /\ p \notin members[r]
      BY <1>0, <1>1, <2>1, <2>2, <2>4
    <3>2. p \in members'[r] <=> k = r
      BY <1>0, <2>1, <2>4, <3>1
    <3> QED
      BY <2>3, <3>1, <3>2
  <2>5. CASE p # q
    <3>1. /\ roomOf'[p] = roomOf[p]
          /\ p \in members'[r] <=> p \in members[r]
      BY <1>0, <2>1, <2>5
    <3> QED
      BY <1>1, <1>2, <1>3, <3>1
  <2> QED
    BY <2>4, <2>5
<1>7. ASSUME NEW k \in Rooms, NEW q \in Players, Leaves(k, q)
      PROVE  p \in members'[r] <=> roomOf'[p] = r /\ Alive(r)'
  <2>1. /\ members' = [members EXCEPT ![k] = @ \ {q}]
        /\ roomOf' = [roomOf EXCEPT ![q] = None]
        /\ q \in members[k]
    BY <1>7 DEF Leaves, LeavePlayer
  <2>2. CASE p = q
    <3>1. roomOf'[p] = None /\ roomOf[p] = k
      BY <1>0, <1>1, <2>1, <2>2
    <3>2. p \notin members'[r]
      BY <1>0, <1>1, <2>1, <2>2, <3>1
    <3> QED
      BY <1>0, <3>1, <3>2
  <2>3. CASE p # q
    <3>1. /\ roomOf'[p] = roomOf[p]
          /\ p \in members'[r] <=> p \in members[r]
      BY <1>0, <2>1, <2>3
    <3> QED
      BY <1>1, <1>2, <1>3, <3>1
  <2> QED
    BY <2>2, <2>3
<1> QED
  BY <1>4, <1>5, <1>6, <1>7, MembersMoveHolds DEF MembersMove

(* The host's job keeps its place, and its room stays as it was.           *)
LEMMA HostComesFirstNext == IInv /\ [Next]_vars => HostComesFirst'
<1> SUFFICES ASSUME IInv, [Next]_vars, NEW r \in Rooms,
                    NEW i \in DOMAIN jobs'[r], jobs'[r][i].kind = "host"
             PROVE  i = 1 /\ (phase'[r] = "hosting"
                               \/ (members'[r] = {} /\ ~isStart'[r]))
  BY DEF HostComesFirst
<1>1. PICK P, Q, j : JobMove(P, Q, j)
  BY JobsMove DEF IInv
<1>2. Types /\ Types' /\ JobStep(P, Q, j) /\ r \in Queues
  BY <1>1, TypesNext, Ids DEF IInv, JobMove
<1>3. /\ members \in [Rooms -> SUBSET Players]
      /\ isStart \in [Rooms -> BOOLEAN]
      /\ jobs[r] \in Seq(Jobs) /\ jobs'[r] \in Seq(Jobs)
  BY <1>2 DEF Types, TypeOK
<1>4. CASE r \in Q /\ i = Len(jobs[r]) + 1 /\ jobs'[r][i] = j
  <2>1. created' = created + 1 /\ Q = {created + 1} /\ r = created + 1
    BY <1>1, <1>4 DEF JobMove
  <2>2. jobs[r] = <<>> /\ members[r] = {} /\ ~isStart[r]
    <3>1. r > created
      BY <2>1, CreatedGrows
    <3> QED
      BY <3>1 DEF IInv, Fresh
  <2>3. phase[r] = "idle"
    BY <2>2 DEF IInv, Phases
  <2>4. ~isStart'[r]
    BY <2>2, <2>3, StartMoveHolds DEF StartMove
  <2>5. members'[r] = {}
    <3>1. CASE UNCHANGED <<members, roomOf, emptied>>
      BY <2>2, <3>1
    <3>4. ASSUME NEW k \in Rooms, Shuts(k) PROVE members'[r] = {}
      BY <1>3, <2>2, <3>4 DEF Shuts
    <3>2. ASSUME NEW k \in Rooms, NEW p \in Players, Enters(k, p)
          PROVE  members'[r] = {}
      BY <1>3, <2>2, <2>3, <3>2 DEF Enters, EnterPlayer
    <3>3. ASSUME NEW k \in Rooms, NEW p \in Players, Leaves(k, p)
          PROVE  members'[r] = {}
      BY <1>3, <2>2, <3>3 DEF Leaves, LeavePlayer
    <3> QED
      BY <3>1, <3>2, <3>3, <3>4, MembersMoveHolds DEF MembersMove
  <2> QED
    BY <1>4, <2>2, <2>4, <2>5
<1>5. CASE r \in P /\ i + 1 \in DOMAIN jobs[r] /\ jobs'[r][i] = jobs[r][i + 1]
  <2>1. i + 1 = 1
    BY <1>5 DEF IInv, HostComesFirst
  <2>2. i \in Nat /\ i > 0
    BY <1>3
  <2> QED
    BY <2>1, <2>2
<1>6. CASE r \notin P /\ i \in DOMAIN jobs[r] /\ jobs'[r][i] = jobs[r][i]
  <2>1. /\ i = 1
        /\ phase[r] = "hosting" \/ (members[r] = {} /\ ~isStart[r])
    BY <1>6 DEF IInv, HostComesFirst
  <2>2. jobs[r] # <<>> /\ Head(jobs[r]).kind = "host"
    BY <1>3, <1>6, <2>1
  <2>3. CASE phase[r] = "hosting"
    BY <1>1, <1>6, <2>1, <2>3 DEF JobMove, PhaseGoesOn
  <2>4. CASE members[r] = {} /\ ~isStart[r]
    <3>1. ~isStart'[r]
      BY <2>2, <2>4, StartMoveHolds DEF StartMove
    <3>2. CASE UNCHANGED <<members, roomOf, emptied>>
      BY <2>1, <2>4, <3>1, <3>2
    <3>5. ASSUME NEW k \in Rooms, Shuts(k) PROVE members'[r] = {}
      BY <1>3, <2>4, <3>5 DEF Shuts
    <3>3. ASSUME NEW k \in Rooms, NEW p \in Players, Enters(k, p)
          PROVE  phase'[r] = "hosting" \/ members'[r] = {}
      <4>1. CASE k = r
        BY <2>2, <3>3, <4>1 DEF Enters
      <4>2. CASE k # r
        BY <1>3, <2>4, <3>3, <4>2 DEF Enters, EnterPlayer
      <4> QED
        BY <4>1, <4>2
    <3>4. ASSUME NEW k \in Rooms, NEW p \in Players, Leaves(k, p)
          PROVE  members'[r] = {}
      BY <1>3, <2>4, <3>4 DEF Leaves, LeavePlayer
    <3> QED
      BY <2>1, <3>1, <3>2, <3>3, <3>4, <3>5, MembersMoveHolds DEF MembersMove
  <2> QED
    BY <2>1, <2>3, <2>4
<1> QED
  BY <1>2, <1>4, <1>5, <1>6, JobsComeFrom

-----------------------------------------------------------------------------
(* A player that has not tried to enter is in no room, its client knows    *)
(* nobody, and OnDisconnected of its session is in no room.                *)
LEMMA NotYetNext == IInv /\ [Next]_vars => NotYet'
<1> SUFFICES ASSUME IInv, [Next]_vars, NEW p \in Players, Unborn(p)'
             PROVE  /\ roomOf'[p] = None /\ view'[p] = {}
                    /\ \A s \in Sessions : player'[s] = p => target'[s] = None
  BY DEF NotYet
<1>0. /\ Types /\ Phases /\ Tickets /\ TypeOK
  BY DEF IInv, Types
<1>1. Unborn(p)
  BY UnbornShrinks
<1>2. /\ roomOf[p] = None /\ view[p] = {}
      /\ \A s \in Sessions : player[s] = p => target[s] = None
      /\ \A r \in Rooms : p \notin members[r]
  BY <1>1, Ids DEF IInv, NotYet, Agree
<1>3. roomOf'[p] = None
  <2>1. CASE UNCHANGED roomOf
    BY <1>2, <2>1
  <2>2. ASSUME NEW r \in Rooms, NEW k \in Players, Enters(r, k)
        PROVE  roomOf'[p] = None
    <3>1. k # p
      BY <2>2, EntersBears
    <3> QED
      BY <1>0, <1>2, <2>2, <3>1 DEF Enters, EnterPlayer, TypeOK
  <2>3. ASSUME NEW r \in Rooms, NEW k \in Players, Leaves(r, k)
        PROVE  roomOf'[p] = None
    BY <1>0, <1>2, <2>3 DEF Leaves, LeavePlayer, TypeOK
  <2> QED
    BY <2>1, <2>2, <2>3, MembersMoveHolds DEF MembersMove
<1>4. view'[p] = {}
  <2> USE <1>0, <1>2 DEF TypeOK
  <2>1. ASSUME NEW r \in Rooms, Entering(r) PROVE p # Runs(r)
    BY <1>1, <2>1, EnteringIsBorn
  <2>2. ASSUME NEW r \in Rooms, HostEnds(r) PROVE view'[p] = {}
    <3>1. p # Runs(r)
      BY <2>1, <2>2 DEF HostEnds, In, Entering
    <3> QED
      BY <2>2, <3>1 DEF HostEnds, HostTold
  <2>3. ASSUME NEW r \in Rooms, EnterTells(r) PROVE view'[p] = {}
    <3>1. p # Runs(r)
      BY <2>1, <2>3 DEF EnterTells, In, Entering
    <3> QED
      BY <2>3, <3>1 DEF EnterTells, EnterTold, ToldOfEntry
  <2>4. ASSUME NEW r \in Rooms, EnterEnds(r) PROVE view'[p] = {}
    <3>1. p # Runs(r)
      BY <2>1, <2>4 DEF EnterEnds, In, Entering
    <3> QED
      BY <2>4, <3>1 DEF EnterEnds, EnterListed
  <2>5. ASSUME NEW r \in Rooms, LeaveEnds(r) PROVE view'[p] = {}
    BY <2>5 DEF LeaveEnds, LeaveTold, Finish, ToldOfLeave
  <2>6. ASSUME NEW s \in Sessions, DisconnectTell(s) PROVE view'[p] = {}
    BY <2>6 DEF DisconnectTell, ToldOfLeave
  <2> QED
    BY <2>2, <2>3, <2>4, <2>5, <2>6, ViewMoveHolds DEF ViewMove
<1>5. ASSUME NEW s \in Sessions, player'[s] = p PROVE target'[s] = None
  <2> USE <1>0, <1>2 DEF TypeOK
  <2>1. CASE UNCHANGED <<handler, player, owner, leaving, target>>
    BY <1>5, <2>1
  <2>2. ASSUME NEW u \in Sessions, Receive(u) \/ PostToRoom(u)
                                     \/ DisconnectLeave(u) \/ DisconnectTell(u)
        PROVE  target'[s] = None
    <3>1. player' = player /\ target' = target
      BY <2>2 DEF Receive, ReceiveJoin, ReceiveInRoom, PostToRoom,
         DisconnectLeave, DisconnectTell, sessionVars, leaveVars
    <3> QED
      BY <1>5, <3>1
  <2>3. ASSUME NEW u \in Sessions, PostJoin(u) PROVE target'[s] = None
    <3>1. /\ target' = target /\ handler[u].kind \in {"inside", "create"}
          /\ s # u => player'[s] = player[s]
      BY <2>3 DEF PostJoin, leaveVars
    <3>2. target[u] = None
      BY <3>1 DEF IInv, SessionsAgree
    <3> QED
      BY <1>5, <3>1, <3>2
  <2>4. ASSUME NEW u \in Sessions, DisconnectLook(u) PROVE target'[s] = None
    <3>1. player' = player
          /\ target' = [target EXCEPT ![u] = LockRoom(player[u])]
      BY <2>4 DEF DisconnectLook, sessionVars
    <3>2. LockRoom(p) = None
      BY DEF LockRoom
    <3> QED
      BY <1>5, <3>1, <3>2
  <2>5. ASSUME NEW u \in Sessions, DisconnectDone(u) PROVE target'[s] = None
    <3>1. /\ player' = [player EXCEPT ![u] = None]
          /\ target' = [target EXCEPT ![u] = None]
      BY <2>5 DEF DisconnectDone
    <3> QED
      BY <1>5, <3>1, Ids
  <2> QED
    BY <2>1, <2>2, <2>3, <2>4, <2>5, SessionMoveHolds DEF SessionMove
<1> QED
  BY <1>3, <1>4, <1>5

(* The room a player points to while OnDisconnected is in one: nobody      *)
(* brings it anywhere else.                                                *)
LEMMA RoomIsHeld ==
  ASSUME IInv, [Next]_vars, NEW s \in Sessions, target[s] # None
  PROVE  player[s] \in Players
    /\ roomOf'[player[s]] \in {roomOf[player[s]], None}
<1>0. TypeOK /\ player[s] \in Players
  BY DEF IInv, Types, TypeOK, SessionsAgree
<1>1. ASSUME NEW r \in Rooms, NEW p \in Players, Enters(r, p)
      PROVE  roomOf'[player[s]] \in {roomOf[player[s]], None}
  <2>1. p # player[s]
    <3>1. Unborn(p)
      BY <1>1, EntersBears
    <3> QED
      BY <1>0, <3>1 DEF IInv, NotYet
  <2> QED
    BY <1>0, <1>1, <2>1 DEF Enters, EnterPlayer, TypeOK
<1>2. ASSUME NEW r \in Rooms, NEW p \in Players, Leaves(r, p)
      PROVE  roomOf'[player[s]] \in {roomOf[player[s]], None}
  BY <1>0, <1>2 DEF Leaves, LeavePlayer, TypeOK
<1> QED
  BY <1>0, <1>1, <1>2, MembersMoveHolds DEF MembersMove

(* What SessionsAgree says of one session.                                 *)
SessionAgrees(s) ==
  /\ player[s] # None => player[s] <= Len(owner) /\ owner[player[s]] = s
  /\ handler[s].kind \in {"inside", "create"} => player[s] = None
  /\ leaving[s] \in {"inside", "left"} => target[s] # None
  /\ leaving[s] \in {"no", "done"} => target[s] = None
  /\ target[s] # None => player[s] # None
  /\ leaving[s] = "inside" => roomOf[player[s]] \in {target[s], None}
  /\ leaving[s] = "left" => roomOf[player[s]] = None
  /\ leaving[s] = "out" /\ target[s] # None => roomOf[player[s]] = None

(* A session keeps agreeing with its player and its room.                  *)
LEMMA SessionsAgreeNext == IInv /\ [Next]_vars => SessionsAgree'
<1> SUFFICES ASSUME IInv, [Next]_vars, NEW s \in Sessions
             PROVE  SessionAgrees(s)'
  BY DEF SessionsAgree, SessionAgrees
<1>0. /\ Types /\ TypeOK /\ handler \in [Sessions -> Handlers]
      /\ Agree /\ None \notin Players /\ None \notin Rooms
           /\ Players \subseteq Nat
      /\ Len(owner) \in Nat /\ owner \in Seq(Sessions)
  BY Ids, Counts DEF IInv, Types
<1>1. SessionAgrees(s)
  BY DEF IInv, SessionsAgree, SessionAgrees
<1>2. target[s] # None => /\ player[s] \in Players
                          /\ roomOf'[player[s]] \in {roomOf[player[s]], None}
  BY RoomIsHeld
<1>3. player[s] \in Players \cup {None} /\ target[s] \in Rooms \cup {None}
  BY <1>0 DEF TypeOK
<1>4. ASSUME player'[s] = player[s], leaving'[s] = leaving[s],
             target'[s] = target[s],
             handler'[s] = handler[s]
               \/ handler'[s].kind \notin {"inside", "create"}
               \/ player[s] = None,
             owner' = owner \/ \E u \in Sessions : owner' = Append(owner, u)
      PROVE  SessionAgrees(s)'
  <2>1. player[s] # None => player[s] <= Len(owner') /\ owner'[player[s]] = s
    <3>1. CASE owner' = owner
      BY <1>1, <3>1 DEF SessionAgrees
    <3>2. ASSUME NEW u \in Sessions, owner' = Append(owner, u),
            player[s] # None
          PROVE  player[s] <= Len(owner') /\ owner'[player[s]] = s
      <4>1. player[s] \in 1 .. Len(owner) /\ owner[player[s]] = s
        BY <1>0, <1>1, <1>3, <3>2 DEF SessionAgrees, Players
      <4> QED
        BY <1>0, <3>2, <4>1
    <3> QED
      BY <1>4, <3>1, <3>2
  <2> QED
    BY <1>1, <1>2, <1>3, <1>4, <2>1 DEF SessionAgrees
<1>5. ASSUME NEW u \in Sessions, Receive(u) PROVE SessionAgrees(s)'
  <2>1. /\ UNCHANGED <<player, owner, leaving, target>>
    BY <1>5 DEF Receive, ReceiveJoin, ReceiveInRoom, leaveVars
  <2>2. handler'[s] = handler[s]
          \/ handler'[s].kind \notin {"inside", "create"}
          \/ player[s] = None
    <3>1. CASE ReceiveJoin(u)
      <4>1. CASE u = s
        BY <3>1, <4>1 DEF ReceiveJoin, MayJoin
      <4>2. CASE u # s
        BY <1>0, <3>1, <4>2 DEF ReceiveJoin
      <4> QED
        BY <4>1, <4>2
    <3>2. CASE ReceiveInRoom(u)
      <4>1. PICK k \in {"leave", "start", "end"} :
              handler' = [handler EXCEPT ![u] =
                [kind |-> k, room |-> LockRoom(player[u]),
                  player |-> player[u]]]
        BY <3>2 DEF ReceiveInRoom
      <4>2. u = s => handler'[s].kind = k
        BY <1>0, <4>1
      <4>3. u # s => handler'[s] = handler[s]
        BY <1>0, <4>1
      <4> QED
        BY <4>2, <4>3
    <3> QED
      BY <1>5, <3>1, <3>2 DEF Receive
  <2> QED
    BY <1>4, <2>1, <2>2
<1>6. ASSUME NEW u \in Sessions, PostJoin(u) PROVE SessionAgrees(s)'
  <2>1. /\ UNCHANGED <<leaving, target, roomOf>> /\ owner' = Append(owner, u)
        /\ handler[u].kind \in {"inside", "create"}
        /\ player' = [player EXCEPT ![u] = Len(owner) + 1]
        /\ handler' = [handler EXCEPT ![u] = Idle]
    BY <1>6 DEF PostJoin, leaveVars, roomVars
  <2>2. CASE u # s
    <3>1. player'[s] = player[s] /\ handler'[s] = handler[s]
      BY <1>0, <2>1, <2>2
    <3> QED
      BY <1>4, <2>1, <3>1
  <2>3. CASE u = s
    <3>1. player[s] = None /\ target[s] = None
      BY <1>1, <2>1, <2>3 DEF SessionAgrees
    <3>2. /\ leaving[s] \notin {"inside", "left"}
          /\ target'[s] = None /\ leaving'[s] = leaving[s]
      BY <1>1, <2>1, <3>1 DEF SessionAgrees
    <3>3. player'[s] = Len(owner) + 1 /\ handler'[s] = Idle
      BY <1>0, <2>1, <2>3 DEF TypeOK
    <3>4. player'[s] <= Len(owner') /\ owner'[player'[s]] = s
      BY <1>0, <2>1, <2>3, <3>3
    <3>5. handler'[s].kind \notin {"inside", "create"}
      BY <3>3 DEF Idle
    <3> QED
      BY <3>2, <3>4, <3>5 DEF SessionAgrees
  <2> QED
    BY <2>2, <2>3
<1>7. ASSUME NEW u \in Sessions, PostToRoom(u) PROVE SessionAgrees(s)'
  <2>1. /\ UNCHANGED <<player, owner, leaving, target>>
        /\ handler' = [handler EXCEPT ![u] = Idle]
    BY <1>7 DEF PostToRoom, leaveVars
  <2>2. handler'[s] = handler[s]
          \/ handler'[s].kind \notin {"inside", "create"}
    BY <1>0, <2>1 DEF Idle
  <2> QED
    BY <1>4, <2>1, <2>2
<1>8. ASSUME NEW u \in Sessions, DisconnectLook(u) PROVE SessionAgrees(s)'
  <2>1. /\ UNCHANGED <<handler, player, owner, roomOf>> /\ leaving[u] = "no"
        /\ target' = [target EXCEPT ![u] = LockRoom(player[u])]
        /\ leaving' = [leaving EXCEPT ![u] =
                        IF LockRoom(player[u]) = None THEN "out" ELSE "inside"]
    BY <1>8 DEF DisconnectLook, sessionVars, roomVars
  <2>2. CASE u # s
    <3>1. target'[s] = target[s] /\ leaving'[s] = leaving[s]
      BY <1>0, <2>1, <2>2 DEF TypeOK
    <3> QED
      BY <1>4, <2>1, <3>1
  <2>3. CASE u = s
    <3>1. target'[s] = LockRoom(player[s])
      BY <1>0, <2>1, <2>3 DEF TypeOK
    <3>2. leaving'[s] = IF LockRoom(player[s]) = None THEN "out" ELSE "inside"
      BY <1>0, <2>1, <2>3 DEF TypeOK
    <3>3. LockRoom(player[s]) # None =>
            player[s] # None /\ LockRoom(player[s]) = roomOf[player[s]]
      BY DEF LockRoom
    <3>4. CASE LockRoom(player[s]) = None
      BY <1>1, <2>1, <3>1, <3>2, <3>4 DEF SessionAgrees
    <3>5. CASE LockRoom(player[s]) # None
      BY <1>1, <2>1, <3>1, <3>2, <3>3, <3>5 DEF SessionAgrees
    <3> QED
      BY <3>4, <3>5
  <2> QED
    BY <2>2, <2>3
<1>9. ASSUME NEW u \in Sessions, DisconnectLeave(u) PROVE SessionAgrees(s)'
  <2>1. UNCHANGED <<handler, player, owner, target>> /\ leaving[u] = "inside"
    BY <1>9 DEF DisconnectLeave, sessionVars
  <2>2. \E x : leaving' = [leaving EXCEPT ![u] = x]
    BY <1>9 DEF DisconnectLeave
  <2>3. CASE u # s
    <3>1. leaving'[s] = leaving[s]
      BY <1>0, <2>2, <2>3 DEF TypeOK
    <3> QED
      BY <1>4, <2>1, <3>1
  <2>4. CASE u = s
    <3>1. /\ target[s] \in Rooms /\ player[s] \in Players
          /\ roomOf[player[s]] \in {target[s], None}
      BY <1>1, <1>2, <1>3, <2>1, <2>4 DEF SessionAgrees
    <3>2. CASE player[s] \in members[target[s]]
      <4>1. LeavePlayer(target[s], player[s]) /\ leaving'[s] = "left"
        BY <1>0, <1>9, <2>4, <3>2 DEF DisconnectLeave, TypeOK
      <4>2. roomOf'[player[s]] = None
        BY <1>0, <3>1, <4>1 DEF LeavePlayer, TypeOK
      <4> QED
        BY <1>1, <2>1, <2>4, <3>1, <4>1, <4>2 DEF SessionAgrees
    <3>3. CASE player[s] \notin members[target[s]]
      <4>1. leaving'[s] = "out" /\ roomOf' = roomOf
        BY <1>0, <1>9, <2>4, <3>3 DEF DisconnectLeave, TypeOK
      <4>2. roomOf[player[s]] = None
        BY <1>0, <3>1, <3>3 DEF Agree, Alive
      <4> QED
        BY <1>1, <2>1, <2>4, <3>1, <4>1, <4>2 DEF SessionAgrees
    <3> QED
      BY <3>2, <3>3
  <2> QED
    BY <2>3, <2>4
<1>10. ASSUME NEW u \in Sessions, DisconnectTell(u) PROVE SessionAgrees(s)'
  <2>1. /\ UNCHANGED <<handler, player, owner, target, roomOf>>
        /\ leaving[u] = "left" /\ leaving' = [leaving EXCEPT ![u] = "out"]
    BY <1>10 DEF DisconnectTell, sessionVars
  <2>2. leaving'[s] = IF u = s THEN "out" ELSE leaving[s]
    BY <1>0, <2>1 DEF TypeOK
  <2> QED
    BY <1>1, <2>1, <2>2 DEF SessionAgrees
<1>11. ASSUME NEW u \in Sessions, DisconnectDone(u) PROVE SessionAgrees(s)'
  <2>1. /\ UNCHANGED <<handler, owner, roomOf>>
        /\ leaving' = [leaving EXCEPT ![u] = "done"]
        /\ target' = [target EXCEPT ![u] = None]
        /\ player' = [player EXCEPT ![u] = None]
    BY <1>11 DEF DisconnectDone, roomVars
  <2>2. CASE u # s
    <3>1. /\ target'[s] = target[s] /\ leaving'[s] = leaving[s]
          /\ player'[s] = player[s]
      BY <1>0, <2>1, <2>2 DEF TypeOK
    <3> QED
      BY <1>4, <2>1, <3>1
  <2>3. CASE u = s
    <3>1. /\ target'[s] = None /\ leaving'[s] = "done" /\ player'[s] = None
      BY <1>0, <2>1, <2>3 DEF TypeOK
    <3> QED
      BY <3>1 DEF SessionAgrees
  <2> QED
    BY <2>2, <2>3
<1>12. CASE UNCHANGED <<handler, player, owner, leaving, target>>
  BY <1>4, <1>12
<1> QED
  BY <1>5, <1>6, <1>7, <1>8, <1>9, <1>10, <1>11, <1>12, SessionMoveHolds
     DEF SessionMove

-----------------------------------------------------------------------------
(* Players keep their session, and a session that has begun to disconnect  *)
(* does not go back.                                                       *)
LEMMA OwnersStay ==
  ASSUME IInv, [Next]_vars
  PROVE  /\ Len(owner) <= Len(owner')
         /\ \A p \in Players : p <= Len(owner) =>
              /\ p <= Len(owner') /\ owner'[p] = owner[p]
              /\ owner[p] \in Sessions
<1>1. /\ Len(owner) \in Nat /\ owner \in Seq(Sessions)
      /\ \A p \in 1 .. Len(owner) : owner[p] \in Sessions
  BY Counts DEF IInv
<1>2. owner' = owner \/ \E s \in Sessions : owner' = Append(owner, s)
  BY SessionMoveHolds DEF SessionMove, Receive, ReceiveJoin, ReceiveInRoom,
     PostJoin, PostToRoom, DisconnectLook, DisconnectLeave, DisconnectTell,
     DisconnectDone, sessionVars
<1>3. CASE owner' = owner
  BY <1>1, <1>3 DEF Players
<1>4. ASSUME NEW s \in Sessions, owner' = Append(owner, s)
      PROVE  /\ Len(owner) <= Len(owner')
             /\ \A p \in 1 .. Len(owner) :
                  p <= Len(owner') /\ owner'[p] = owner[p]
  BY <1>1, <1>4
<1> QED
  BY <1>1, <1>2, <1>3, <1>4 DEF Players

(* OnDisconnected goes on, and takes out only a member.                    *)
LEMMA LeavingGoesOn ==
  ASSUME IInv, [Next]_vars, NEW s \in Sessions
  PROVE  /\ leaving[s] # "no" => leaving'[s] # "no"
         /\ leaving'[s] = "left" =>
              /\ target'[s] = target[s]
              /\ \/ leaving[s] = "left"
                 \/ target[s] \in Rooms /\ members[target[s]] # {}
<1>0. TypeOK
  BY DEF IInv, Types
<1>1. CASE UNCHANGED <<handler, player, owner, leaving, target>>
  BY <1>1
<1>2. ASSUME NEW u \in Sessions, Receive(u) \/ PostJoin(u) \/ PostToRoom(u)
      PROVE  leaving' = leaving /\ target' = target
  BY <1>2 DEF Receive, PostJoin, PostToRoom, leaveVars
<1>3. ASSUME NEW u \in Sessions, DisconnectLook(u)
      PROVE  /\ leaving[s] # "no" => leaving'[s] = leaving[s]
             /\ leaving'[s] = "left" =>
                  leaving[s] = "left" /\ target'[s] = target[s]
  BY <1>0, <1>3 DEF DisconnectLook, TypeOK
<1>4. ASSUME NEW u \in Sessions, DisconnectLeave(u)
      PROVE  /\ leaving[s] # "no" => leaving'[s] # "no"
             /\ target' = target
             /\ leaving'[s] = "left" =>
                  \/ leaving[s] = "left"
                  \/ target[s] \in Rooms /\ members[target[s]] # {}
  <2>1. target[u] \in Rooms /\ target' = target
    BY <1>0, <1>4 DEF DisconnectLeave, IInv, SessionsAgree, TypeOK
  <2>2. \/ player[u] \in members[target[u]]
        \/ leaving' = [leaving EXCEPT ![u] = "out"]
    BY <1>4 DEF DisconnectLeave
  <2>3. \E x \in {"left", "out"} : leaving' = [leaving EXCEPT ![u] = x]
    BY <1>4 DEF DisconnectLeave
  <2> QED
    BY <1>0, <2>1, <2>2, <2>3 DEF TypeOK
<1>5. ASSUME NEW u \in Sessions, DisconnectTell(u)
      PROVE  /\ leaving[s] # "no" => leaving'[s] # "no"
             /\ target' = target
             /\ leaving'[s] = "left" => leaving[s] = "left"
  BY <1>0, <1>5 DEF DisconnectTell, TypeOK
<1>6. ASSUME NEW u \in Sessions, DisconnectDone(u)
      PROVE  /\ leaving[s] # "no" => leaving'[s] # "no"
             /\ leaving'[s] = "left" =>
                  leaving[s] = "left" /\ target'[s] = target[s]
  BY <1>0, <1>6 DEF DisconnectDone, TypeOK
<1> QED
  BY <1>1, <1>2, <1>3, <1>4, <1>5, <1>6, SessionMoveHolds DEF SessionMove

(* A member has been born, and is a member of no other room.               *)
LEMMA MembersAreBorn ==
  ASSUME IInv, NEW r \in Rooms, NEW p \in members[r]
  PROVE  /\ p \in Players /\ ~Unborn(p) /\ roomOf[p] = r /\ p <= Len(owner)
         /\ \A k \in Rooms : p \in members[k] => k = r
<1>1. p \in Players /\ roomOf[p] = r
  BY DEF IInv, Types, TypeOK, Agree
<1>2. ~Unborn(p)
  BY <1>1, Ids DEF IInv, NotYet
<1>3. p <= Len(owner)
  <2>1. p \in Nat /\ Len(owner) \in Nat /\ ~(p > Len(owner))
    BY <1>1, <1>2, Ids, Counts DEF IInv, Unborn
  <2> QED
    BY <2>1
<1> QED
  BY <1>1, <1>2, <1>3 DEF IInv, Agree

(* Rooms let different players in.                                         *)
LEMMA RoomsRunOthers ==
  ASSUME IInv, NEW r \in Rooms, NEW k \in Rooms, Entering(r), Entering(k),
         Runs(r) = Runs(k)
  PROVE  r = k
BY EnteringIsBorn, TicketsAre DEF IInv

(* Who is no longer a member of a room that is there has been taken out,   *)
(* and how.                                                                *)
LEMMA MembersGo ==
  ASSUME IInv, [Next]_vars, NEW r \in Rooms, NEW p \in members[r],
         p \notin members'[r], ~Shuts(r)
  PROVE  /\ roomOf'[p] = None
         /\ \/ leaving'[owner'[p]] # "no"
            \/ phase[r] = "begun" /\ phase'[r] = "left" /\ p = Runs(r)
<1>0. TypeOK /\ p \in Players /\ p <= Len(owner) /\ roomOf[p] = r
  BY MembersAreBorn DEF IInv, Types
<1>1. ASSUME NEW k \in Rooms, NEW q \in Players, Enters(k, q) PROVE FALSE
  BY <1>0, <1>1 DEF Enters, EnterPlayer, TypeOK
<1>2. ASSUME NEW k \in Rooms, NEW q \in Players, Leaves(k, q)
      PROVE  /\ roomOf'[p] = None
             /\ \/ leaving'[owner'[p]] # "no"
                \/ phase[r] = "begun" /\ phase'[r] = "left" /\ p = Runs(r)
  <2>1. k = r /\ q = p /\ roomOf'[p] = None
    BY <1>0, <1>2 DEF Leaves, LeavePlayer, TypeOK
  <2>2. CASE phase[k] = "begun" /\ phase'[k] = "left" /\ q = Runs(k)
    BY <2>1, <2>2
  <2>3. CASE \E s \in Sessions :
               /\ leaving[s] = "inside" /\ target[s] = k /\ player[s] = q
               /\ leaving' = [leaving EXCEPT ![s] = "left"]
    <3>1. PICK s \in Sessions :
            /\ player[s] = p /\ leaving' = [leaving EXCEPT ![s] = "left"]
      BY <2>1, <2>3
    <3>2. owner[p] = s
      BY <1>0, <3>1, Ids DEF IInv, SessionsAgree
    <3>3. owner'[p] = s
      BY <1>0, <3>2, OwnersStay
    <3>4. leaving'[s] = "left"
      BY <1>0, <3>1 DEF TypeOK
    <3> QED
      BY <2>1, <3>3, <3>4
  <2> QED
    BY <1>2, <2>2, <2>3 DEF Leaves
<1>3. ASSUME NEW k \in Rooms, Shuts(k) PROVE FALSE
  <2>1. k # r
    BY <1>3
  <2> QED
    BY <1>0, <1>3, <2>1 DEF Shuts, TypeOK
<1> QED
  BY <1>0, <1>1, <1>2, <1>3, MembersMoveHolds DEF MembersMove

(* Who becomes a member is let in by the room's job.                       *)
LEMMA MembersCome ==
  ASSUME IInv, [Next]_vars, NEW r \in Rooms, NEW p \in members'[r],
         p \notin members[r]
  PROVE  p \in Players /\ Enters(r, p)
<1>0. TypeOK
  BY DEF IInv, Types
<1>1. ASSUME NEW k \in Rooms, NEW q \in Players, Enters(k, q)
      PROVE  p \in Players /\ Enters(r, p)
  <2>1. k = r /\ q = p
    BY <1>0, <1>1 DEF Enters, EnterPlayer, TypeOK
  <2> QED
    BY <1>1, <2>1
<1>2. ASSUME NEW k \in Rooms, NEW q \in Players, Leaves(k, q) PROVE FALSE
  BY <1>0, <1>2 DEF Leaves, LeavePlayer, TypeOK
<1>3. ASSUME NEW k \in Rooms, Shuts(k) PROVE FALSE
  BY <1>0, <1>3 DEF Shuts, TypeOK
<1> QED
  BY <1>1, <1>2, <1>3, MembersMoveHolds DEF MembersMove

-----------------------------------------------------------------------------
(* A job that has begun goes on for the same player.                       *)
LEMMA JobGoesOn ==
  ASSUME IInv, [Next]_vars, NEW r \in Rooms, phase'[r] \notin {"idle", "begun"}
  PROVE  /\ jobs[r] # <<>> /\ Runs(r)' = Runs(r) /\ Runs(r) \in Players
         /\ \/ phase'[r] = phase[r]
            \/ phase[r] = "begun" /\ Entering(r)' /\ Enters(r, Runs(r))
            \/ phase[r] = "begun" /\ phase'[r] = "left" /\ Leaves(r, Runs(r))
            \/ /\ phase[r] = "entered" /\ phase'[r] = "listed"
               /\ EnterTells(r)
<1>1. PICK P, Q, j : JobMove(P, Q, j)
  BY JobsMove DEF IInv
<1>2. r \notin P /\ PhaseGoesOn(r) /\ JobStep(P, Q, j) /\ r \in Queues
  BY <1>1, Ids DEF JobMove
<1>3. phase[r] # "idle" /\ jobs[r] # <<>>
  BY <1>2 DEF PhaseGoesOn, IInv, Phases
<1>4. Head(jobs'[r]) = Head(jobs[r])
  BY <1>2, <1>3, HeadStays DEF IInv
<1>5. Runs(r)' = Runs(r) /\ Runs(r) \in Players
  BY <1>3, <1>4, RoomRuns DEF IInv, Runs
<1>6. RoomMove(r)
  BY RoomMoveHolds
<1> QED
  BY <1>2, <1>3, <1>5, <1>6 DEF PhaseGoesOn, RoomMove, Entering

(* A player that is in a room, or on its way through, keeps what its       *)
(* client has been told, but for what the room's own job tells it, and for *)
(* those that leave.                                                       *)
LEMMA ViewsOfMembers ==
  ASSUME IInv, [Next]_vars, NEW r \in Rooms, NEW p \in Players,
         roomOf[p] = r \/ (Entering(r) /\ Runs(r) = p)
  PROVE  \/ view'[p] = view[p]
         \/ HostEnds(r) /\ p = Runs(r)
         \/ EnterTells(r) /\ p = Runs(r)
         \/ EnterTells(r) /\ p \in members[r] /\ p # Runs(r)
              /\ view'[p] = view[p] \cup {Runs(r)}
         \/ EnterEnds(r) /\ p = Runs(r)
         \/ \E q \in Players : /\ roomOf[q] = None
                               /\ view'[p] = view[p] \ {q}
                               /\ LeaveEnds(r) => q = Runs(r)
<1> DEFINE G == \/ view'[p] = view[p]
                \/ HostEnds(r) /\ p = Runs(r)
                \/ EnterTells(r) /\ p = Runs(r)
                \/ EnterTells(r) /\ p \in members[r] /\ p # Runs(r)
                     /\ view'[p] = view[p] \cup {Runs(r)}
                \/ EnterEnds(r) /\ p = Runs(r)
                \/ \E q \in Players : /\ roomOf[q] = None
                                      /\ view'[p] = view[p] \ {q}
                                      /\ LeaveEnds(r) => q = Runs(r)
<1>0. TypeOK /\ None \notin Rooms
  BY Ids DEF IInv, Types
<1>1. \A k \in Rooms : Entering(k) /\ Runs(k) = p => k = r
  <2>1. ASSUME NEW k \in Rooms, Entering(k), Runs(k) = p PROVE k = r
    <3>1. roomOf[p] \in {k, None}
      BY <2>1 DEF IInv, Running
    <3> QED
      BY <1>0, <2>1, <3>1, RoomsRunOthers
  <2> QED
    BY <2>1
<1>2. \A k \in Rooms : p \in members[k] => k = r
  <2>1. ASSUME NEW k \in Rooms, p \in members[k] PROVE k = r
    <3>1. roomOf[p] = k
      BY <2>1, MembersAreBorn
    <3>2. Entering(r) /\ Runs(r) = p => roomOf[p] \in {r, None}
      BY DEF IInv, Running
    <3> QED
      BY <1>0, <3>1, <3>2
  <2> QED
    BY <2>1
<1>3. ASSUME NEW k \in Rooms, HostEnds(k) PROVE G
  <2>1. Entering(k) /\ view' = [view EXCEPT ![Runs(k)] = {Runs(k)}]
    BY <1>3 DEF HostEnds, In, HostTold, Entering
  <2> QED
    BY <1>0, <1>1, <1>3, <2>1 DEF TypeOK
<1>4. ASSUME NEW k \in Rooms, EnterTells(k) PROVE G
  <2>1. Entering(k)
    BY <1>4 DEF EnterTells, In, Entering
  <2>2. view' = [ToldOfEntry(k, Runs(k)) EXCEPT ![Runs(k)] = {Runs(k)}]
    BY <1>4 DEF EnterTells, EnterTold
  <2>3. CASE p = Runs(k)
    BY <1>1, <1>4, <2>1, <2>3
  <2>4. CASE p # Runs(k) /\ p \in members[k]
    <3>1. k = r /\ view'[p] = view[p] \cup {Runs(k)}
      BY <1>2, <2>2, <2>4 DEF ToldOfEntry
    <3> QED
      BY <1>4, <2>4, <3>1
  <2>5. CASE p # Runs(k) /\ p \notin members[k]
    BY <2>2, <2>5 DEF ToldOfEntry
  <2> QED
    BY <2>3, <2>4, <2>5
<1>5. ASSUME NEW k \in Rooms, EnterEnds(k) PROVE G
  <2>1. /\ Entering(k)
        /\ view' = [view EXCEPT ![Runs(k)] = @ \cup snapshot[k]]
    BY <1>5 DEF EnterEnds, In, EnterListed, Entering
  <2> QED
    BY <1>0, <1>1, <1>5, <2>1 DEF TypeOK
<1>6. ASSUME NEW k \in Rooms, LeaveEnds(k) PROVE G
  <2>1. /\ phase[k] = "left" /\ view' = ToldOfLeave(k, Runs(k))
        /\ phase' = [phase EXCEPT ![k] = "idle"]
    BY <1>6 DEF LeaveEnds, In, LeaveTold, Finish
  <2>2. Runs(k) \in Players /\ roomOf[Runs(k)] = None
    BY <2>1, RoomRuns DEF IInv, Running, Phases
  <2>3. LeaveEnds(r) => k = r
    <3>1. ASSUME LeaveEnds(r) PROVE k = r
      <4>1. phase[r] = "left" /\ phase' = [phase EXCEPT ![r] = "idle"]
        BY <3>1 DEF LeaveEnds, In, LeaveTold, Finish
      <4> QED
        BY <1>0, <2>1, <4>1 DEF TypeOK
    <3> QED
      BY <3>1
  <2>4. view'[p] = view[p] \/ view'[p] = view[p] \ {Runs(k)}
    BY <2>1 DEF ToldOfLeave
  <2> QED
    BY <2>1, <2>2, <2>3, <2>4
<1>7. ASSUME NEW s \in Sessions, DisconnectTell(s) PROVE G
  <2>1. /\ leaving[s] = "left" /\ view' = ToldOfLeave(target[s], player[s])
        /\ phase' = phase
    BY <1>7 DEF DisconnectTell
  <2>2. player[s] \in Players /\ roomOf[player[s]] = None
    BY <1>0, <2>1 DEF IInv, SessionsAgree, TypeOK
  <2>3. ~LeaveEnds(r)
    BY <1>0, <2>1 DEF LeaveEnds, In, LeaveTold, Finish, TypeOK
  <2>4. view'[p] = view[p] \/ view'[p] = view[p] \ {player[s]}
    BY <2>1 DEF ToldOfLeave
  <2> QED
    BY <2>1, <2>2, <2>3, <2>4
<1>8. G
  BY <1>3, <1>4, <1>5, <1>6, <1>7, ViewMoveHolds DEF ViewMove
<1> QED
  BY <1>8

-----------------------------------------------------------------------------
(* What Running says of one room.                                          *)
RoomRunning(r) ==
  /\ phase[r] = "left" => ~Unborn(Runs(r)) /\ roomOf[Runs(r)] = None
  /\ Entering(r) => roomOf[Runs(r)] \in {r, None}
  /\ phase[r] = "hosting" => members[r] \subseteq {Runs(r)}
  /\ phase[r] \in {"hosting", "entered"} => view[Runs(r)] = {}
  /\ Entering(r) => \/ Runs(r) \in members[r]
                    \/ leaving[owner[Runs(r)]] # "no"
  /\ phase[r] = "listed" =>
       /\ members[r] \subseteq snapshot[r]
       /\ Runs(r) \in members[r] =>
            \A q \in members[r] : Runs(r) \in view[q]
       /\ \A q \in snapshot[r] \ members[r] :
            q <= Len(owner) /\ leaving[owner[q]] # "no"

(* A room in the middle of letting a player in lets nobody else in.        *)
LEMMA NobodyElseEnters ==
  ASSUME IInv, [Next]_vars, NEW r \in Rooms, phase[r] # "begun"
  PROVE  members'[r] \subseteq members[r]
<1>1. ASSUME NEW p \in members'[r], p \notin members[r] PROVE FALSE
  BY <1>1, MembersCome DEF Enters
<1> QED
  BY <1>1

(* A session that is leaving still is after a step.                        *)
LEMMA OwnersLeave ==
  ASSUME IInv, [Next]_vars, NEW p \in Players, p <= Len(owner),
         leaving[owner[p]] # "no"
  PROVE  p <= Len(owner') /\ leaving'[owner'[p]] # "no"
<1>1. owner'[p] = owner[p] /\ owner[p] \in Sessions /\ p <= Len(owner')
  BY OwnersStay
<1> QED
  BY <1>1, LeavingGoesOn

(* The room goes on with the job it is in.                                 *)
LEMMA RunningGoesOn ==
  ASSUME IInv, [Next]_vars, NEW r \in Rooms,
         phase'[r] \notin {"idle", "begun"}, phase'[r] = phase[r]
  PROVE  RoomRunning(r)'
<1> DEFINE p == Runs(r)
<1>0. /\ TypeOK /\ RoomRunning(r) /\ None \notin Rooms
      /\ Runs(r)' = p /\ p \in Players
  BY JobGoesOn, Ids DEF IInv, Types, Running, RoomRunning
<1>1. ~Unborn(p) => ~Unborn(p)'
  BY <1>0, UnbornShrinks
<1>2. roomOf'[p] \in {roomOf[p], None} \/ Unborn(p)
  <2>1. ASSUME NEW k \in Rooms, NEW q \in Players, Enters(k, q)
        PROVE  roomOf'[p] = roomOf[p] \/ Unborn(p)
    <3>1. Unborn(q)
      BY <2>1, EntersBears
    <3> QED
      BY <1>0, <2>1, <3>1 DEF Enters, EnterPlayer, TypeOK
  <2>2. ASSUME NEW k \in Rooms, NEW q \in Players, Leaves(k, q)
        PROVE  roomOf'[p] \in {roomOf[p], None}
    BY <1>0, <2>2 DEF Leaves, LeavePlayer, TypeOK
  <2> QED
    BY <2>1, <2>2, MembersMoveHolds DEF MembersMove
<1>3. members'[r] \subseteq members[r] /\ ~Shuts(r)
  BY NobodyElseEnters, ShutRooms
<1>4. CASE phase[r] = "left"
  <2>1. ~Unborn(p) /\ roomOf[p] = None
    BY <1>0, <1>4 DEF RoomRunning
  <2>2. roomOf'[p] = None
    BY <1>2, <2>1
  <2> QED
    BY <1>0, <1>1, <1>4, <2>1, <2>2 DEF RoomRunning, Entering
<1>5. CASE Entering(r)
  <2>1. /\ ~Unborn(p) /\ p <= Len(owner) /\ Entering(r)'
    <3>1. ~Unborn(p)
      BY <1>5, EnteringIsBorn DEF IInv
    <3>2. p \in Nat /\ Len(owner) \in Nat
      BY <1>0, Ids, Counts DEF IInv
    <3> QED
      BY <1>5, <3>1, <3>2 DEF Unborn, Entering
  <2>2. roomOf'[p] \in {r, None}
    BY <1>0, <1>2, <1>5, <2>1 DEF RoomRunning
  <2>3. /\ ~HostEnds(r) /\ ~EnterTells(r) /\ ~EnterEnds(r)
    BY <1>0, <1>5 DEF HostEnds, HostTold, EnterTells, EnterTold, EnterEnds,
       EnterListed, In, GoTo, EndJob, Finish, TypeOK
  <2>4. \/ p \in members'[r]
        \/ leaving'[owner'[p]] # "no"
    <3>1. CASE p \in members[r]
      <4>1. phase[r] # "begun"
        BY <1>5 DEF Entering
      <4> QED
        BY <1>3, <3>1, <4>1, MembersGo
    <3>2. CASE p \notin members[r]
      <4>1. leaving[owner[p]] # "no"
        BY <1>0, <1>5, <3>2 DEF RoomRunning
      <4> QED
        BY <1>0, <2>1, <4>1, OwnersLeave
    <3> QED
      BY <3>1, <3>2
  <2>5. phase[r] = "hosting" => members'[r] \subseteq {p}
    BY <1>0, <1>3 DEF RoomRunning
  <2>6. phase[r] \in {"hosting", "entered"} => view'[p] = {}
    <3>1. ASSUME phase[r] \in {"hosting", "entered"} PROVE view'[p] = {}
      <4>1. view[p] = {}
        BY <1>0, <3>1 DEF RoomRunning
      <4>2. view'[p] = view[p] \/ \E q : view'[p] = view[p] \ {q}
        BY <1>0, <1>5, <2>3, ViewsOfMembers
      <4> QED
        BY <4>1, <4>2
    <3> QED
      BY <3>1
  <2>7. ASSUME phase[r] = "listed"
        PROVE  /\ members'[r] \subseteq snapshot'[r]
               /\ p \in members'[r] => \A q \in members'[r] : p \in view'[q]
               /\ \A q \in snapshot'[r] \ members'[r] :
                    q <= Len(owner') /\ leaving'[owner'[q]] # "no"
    <3>1. snapshot'[r] = snapshot[r]
      <4>1. ASSUME NEW k \in Rooms, HostEnds(k) \/ LeaveEnds(k)
            PROVE  snapshot' = snapshot
        BY <4>1 DEF HostEnds, HostTold, LeaveEnds, LeaveTold, Finish
      <4>2. ASSUME NEW k \in Rooms, EnterTells(k) \/ EnterEnds(k)
            PROVE  snapshot'[r] = snapshot[r]
        <5>1. k # r
          BY <2>3, <4>2
        <5> QED
          BY <1>0, <4>2, <5>1 DEF EnterTells, EnterTold, EnterEnds,
            EnterListed,
             TypeOK
      <4>3. ASSUME NEW s \in Sessions, DisconnectTell(s)
            PROVE  snapshot' = snapshot
        BY <4>3 DEF DisconnectTell
      <4> QED
        BY <4>1, <4>2, <4>3, ViewMoveHolds DEF ViewMove
    <3>2. members'[r] \subseteq snapshot'[r]
      BY <1>0, <1>3, <2>7, <3>1 DEF RoomRunning
    <3>3. ASSUME p \in members'[r], NEW q \in members'[r] PROVE p \in view'[q]
      <4>1. p \in members[r] /\ q \in members[r] /\ p \in view[q]
        BY <1>0, <1>3, <2>7, <3>3 DEF RoomRunning
      <4>2. q \in Players /\ roomOf[q] = r /\ roomOf[p] = r
        BY <4>1, MembersAreBorn
      <4>3. view'[q] = view[q] \/ \E x \in Players : /\ roomOf[x] = None
                                                    /\ view'[q] = view[q] \ {x}
        BY <2>3, <4>2, ViewsOfMembers
      <4> QED
        BY <1>0, <4>1, <4>2, <4>3
    <3>4. ASSUME NEW q \in snapshot'[r] \ members'[r]
          PROVE  q <= Len(owner') /\ leaving'[owner'[q]] # "no"
      <4>1. CASE q \in members[r]
        <5>1. q \in Players /\ q <= Len(owner)
          BY <4>1, MembersAreBorn
        <5>2. leaving'[owner'[q]] # "no"
          BY <1>3, <2>7, <3>4, <4>1, MembersGo
        <5> QED
          BY <5>1, <5>2, OwnersStay
      <4>2. CASE q \notin members[r]
        <5>1. /\ q \in Players /\ q <= Len(owner) /\ leaving[owner[q]] # "no"
          BY <1>0, <2>7, <3>1, <3>4, <4>2 DEF RoomRunning, TypeOK
        <5> QED
          BY <5>1, OwnersLeave
      <4> QED
        BY <4>1, <4>2
    <3> QED
      BY <3>2, <3>3, <3>4
  <2>8. phase'[r] # "left"
    BY <1>5 DEF Entering
  <2> HIDE DEF p
  <2>9. /\ roomOf'[Runs(r)'] \in {r, None}
        /\ phase'[r] = "hosting" => members'[r] \subseteq {Runs(r)'}
        /\ phase'[r] \in {"hosting", "entered"} => view'[Runs(r)'] = {}
        /\ Runs(r)' \in members'[r] \/ leaving'[owner'[Runs(r)']] # "no"
        /\ phase'[r] = "listed" =>
             /\ members'[r] \subseteq snapshot'[r]
             /\ Runs(r)' \in members'[r] =>
                  \A q \in members'[r] : Runs(r)' \in view'[q]
             /\ \A q \in snapshot'[r] \ members'[r] :
                  q <= Len(owner') /\ leaving'[owner'[q]] # "no"
    BY <1>0, <2>2, <2>4, <2>5, <2>6, <2>7
  <2> QED
    BY <2>8, <2>9 DEF RoomRunning
<1> QED
  BY <1>0, <1>4, <1>5 DEF Entering, TypeOK

(* The first step of a job that lets its player in or out, and the second  *)
(* of one that lets a player in.                                           *)
LEMMA RunningBegins ==
  ASSUME IInv, [Next]_vars, NEW r \in Rooms, phase[r] = "begun",
         phase'[r] \notin {"idle", "begun"}
  PROVE  RoomRunning(r)'
<1> DEFINE p == Runs(r)
<1>0. /\ TypeOK /\ None \notin Rooms
      /\ Runs(r)' = p /\ p \in Players
  BY JobGoesOn, Ids DEF IInv, Types
<1>1. CASE Entering(r)' /\ Enters(r, Runs(r))
  <2>1. Unborn(p) /\ view[p] = {}
    BY <1>0, <1>1, EntersBears DEF IInv, NotYet
  <2>2. /\ roomOf'[p] = r /\ members'[r] = members[r] \cup {p} /\ view' = view
    BY <1>0, <1>1 DEF Enters, EnterPlayer, TypeOK
  <2>3. phase'[r] = "hosting" => members[r] = {}
    <3>1. ASSUME phase'[r] = "hosting" PROVE members[r] = {}
      <4>1. Head(jobs[r]).kind = "host" /\ jobs[r] # <<>>
        BY <1>1, <3>1 DEF Enters
      <4>2. 1 \in DOMAIN jobs[r] /\ jobs[r][1].kind = "host"
        BY <4>1, RoomRuns DEF IInv
      <4> QED
        BY <4>2 DEF IInv, HostComesFirst
    <3> QED
      BY <3>1
  <2>4. phase'[r] \in {"hosting", "entered"}
    BY <1>1 DEF Enters
  <2> HIDE DEF p
  <2> QED
    BY <1>0, <2>1, <2>2, <2>3, <2>4 DEF RoomRunning, Entering
<1>2. CASE phase'[r] = "left" /\ Leaves(r, Runs(r))
  <2>1. p \in members[r] /\ roomOf'[p] = None
    BY <1>0, <1>2 DEF Leaves, LeavePlayer, TypeOK
  <2>2. ~Unborn(p)'
    BY <1>0, <2>1, MembersAreBorn, UnbornShrinks
  <2> QED
    BY <1>0, <1>2, <2>1, <2>2 DEF RoomRunning, Entering
<1> QED
  BY <1>1, <1>2, JobGoesOn

(* The second step of a job that lets a player in.                         *)
LEMMA RunningTells ==
  ASSUME IInv, [Next]_vars, NEW r \in Rooms, phase[r] = "entered",
         phase'[r] = "listed"
  PROVE  RoomRunning(r)'
<1> DEFINE p == Runs(r)
<1>0. /\ TypeOK /\ RoomRunning(r) /\ Runs(r)' = p /\ p \in Players
           /\ EnterTells(r)
  BY JobGoesOn DEF IInv, Types, Running, RoomRunning
<1>1. /\ members' = members /\ roomOf' = roomOf /\ leaving' = leaving
      /\ owner' = owner /\ snapshot'[r] = members[r]
      /\ view' = [ToldOfEntry(r, p) EXCEPT ![p] = {p}]
  BY <1>0 DEF EnterTells, EnterTold, In, leaveVars, sessionVars, TypeOK
<1>2. \A q \in members[r] : p \in view'[q]
  BY <1>0, <1>1 DEF ToldOfEntry, TypeOK
<1>3. /\ roomOf[p] \in {r, None}
      /\ p \in members[r] \/ leaving[owner[p]] # "no"
  BY <1>0 DEF RoomRunning, Entering
<1> HIDE DEF p
<1> QED
  BY <1>0, <1>1, <1>2, <1>3 DEF RoomRunning, Entering

(* What Running says is kept by every step.                                *)
LEMMA RunningNext == IInv /\ [Next]_vars => Running'
<1> SUFFICES ASSUME IInv, [Next]_vars, NEW r \in Rooms PROVE RoomRunning(r)'
  BY DEF Running, RoomRunning
<1>1. CASE phase'[r] \in {"idle", "begun"}
  BY <1>1 DEF RoomRunning, Entering
<1>2. CASE phase'[r] \notin {"idle", "begun"}
  BY <1>2, JobGoesOn, RunningGoesOn, RunningBegins, RunningTells
<1> QED
  BY <1>1, <1>2

-----------------------------------------------------------------------------
(* The members of a room stay known to each other.                         *)
LEMMA MembersAreKnownNext == IInv /\ [Next]_vars => MembersAreKnown'
<1> SUFFICES ASSUME IInv, [Next]_vars, NEW r \in Rooms,
                    NEW p \in members'[r], NEW q \in members'[r]
             PROVE  \/ q \in view'[p]
                    \/ /\ phase'[r] \in {"hosting", "entered", "listed"}
                       /\ Head(jobs'[r]).player \in {p, q}
  BY DEF MembersAreKnown
<1>0. TypeOK
  BY DEF IInv, Types
<1>1. CASE p \notin members[r] \/ q \notin members[r]
  <2>1. PICK x \in {p, q} : Enters(r, x)
    BY <1>1, MembersCome
  <2>2. /\ jobs' = jobs /\ x = Runs(r)
        /\ phase'[r] \in {"hosting", "entered", "listed"}
    BY <2>1 DEF Enters
  <2> QED
    BY <2>2 DEF Runs
<1>2. CASE p \in members[r] /\ q \in members[r]
  <2>1. /\ p \in Players /\ roomOf[p] = r /\ q \in Players /\ roomOf[q] = r
    BY <1>2, MembersAreBorn
  <2>2. ASSUME EnterTells(r), Runs(r) \in {p, q}
        PROVE  /\ phase'[r] \in {"hosting", "entered", "listed"}
               /\ Head(jobs'[r]).player \in {p, q}
    BY <1>0, <2>2 DEF EnterTells, EnterTold, In, GoTo, Runs, TypeOK
  <2>3. ASSUME HostEnds(r) PROVE q \in view'[p]
    <3>1. members[r] \subseteq {Runs(r)}
            /\ view' = [view EXCEPT ![Runs(r)] = {Runs(r)}]
      BY <2>3 DEF IInv, Running, HostEnds, HostTold, In
    <3> QED
      BY <1>0, <1>2, <2>1, <3>1 DEF TypeOK
  <2>4. CASE q \in view[p]
    <3>1. CASE EnterEnds(r) /\ p = Runs(r)
      BY <1>0, <2>1, <2>4, <3>1 DEF EnterEnds, EnterListed, TypeOK
    <3>2. ASSUME NEW x \in Players, roomOf[x] = None,
                 view'[p] = view[p] \ {x}
          PROVE  q \in view'[p]
      BY <2>1, <2>4, <3>2, Ids
    <3> QED
      BY <2>1, <2>2, <2>3, <2>4, <3>1, <3>2, ViewsOfMembers
  <2>5. CASE Entering(r) /\ Runs(r) \in {p, q}
    <3>1. CASE phase'[r] = "idle"
      <4>1. CASE EnterEnds(r)
        <5>1. /\ phase[r] = "listed"
              /\ view' = [view EXCEPT ![Runs(r)] = @ \cup snapshot[r]]
          BY <4>1 DEF EnterEnds, EnterListed, In
        <5>2. /\ members[r] \subseteq snapshot[r]
              /\ Runs(r) \in members[r] =>
                   \A x \in members[r] : Runs(r) \in view[x]
          BY <5>1 DEF IInv, Running
        <5> QED
          BY <1>0, <1>2, <2>1, <2>5, <5>1, <5>2 DEF TypeOK
      <4> QED
        BY <2>3, <2>5, <3>1, <4>1, RoomMoveHolds DEF RoomMove
    <3>2. CASE phase'[r] # "idle"
      <4>1. phase'[r] \in {"hosting", "entered", "listed"}
        <5>1. PICK P, Q, j : JobMove(P, Q, j)
          BY JobsMove DEF IInv
        <5>2. PhaseGoesOn(r)
          BY <3>2, <5>1 DEF JobMove
        <5> QED
          BY <2>5, <5>2 DEF PhaseGoesOn, Entering
      <4>2. Runs(r)' = Runs(r)
        BY <4>1, JobGoesOn
      <4> QED
        BY <2>5, <4>1, <4>2 DEF Runs
    <3> QED
      BY <3>1, <3>2
  <2> QED
    BY <1>2, <2>4, <2>5 DEF IInv, MembersAreKnown, Entering, Runs
<1> QED
  BY <1>1, <1>2

(* Nobody is shown that has not been made.                                 *)
LEMMA ViewsAreMadeNext == IInv /\ [Next]_vars => ViewsAreMade'
<1> SUFFICES ASSUME IInv, [Next]_vars, NEW p \in Players, NEW q \in Players,
                    q \in view'[p]
             PROVE  q <= Len(owner)
  <2>1. ASSUME IInv, [Next]_vars, NEW q \in Players, q <= Len(owner)
        PROVE  q <= Len(owner')
    BY <2>1, OwnersStay
  <2> QED
    BY <2>1 DEF ViewsAreMade
<1>0. TypeOK
  BY DEF IInv, Types
<1>1. CASE q \in view[p]
  BY <1>1 DEF IInv, ViewsAreMade
<1>2. ASSUME NEW r \in Rooms, Entering(r) PROVE Runs(r) <= Len(owner)
  BY <1>2, EnteringIsBorn, TicketsAre DEF IInv
<1>3. CASE q \notin view[p]
  <2>1. ASSUME NEW r \in Rooms, HostEnds(r) PROVE q <= Len(owner)
    <3>1. Entering(r) /\ q = Runs(r)
      BY <1>0, <1>3, <2>1 DEF HostEnds, HostTold, In, Entering, TypeOK
    <3> QED
      BY <1>2, <3>1
  <2>2. ASSUME NEW r \in Rooms, EnterTells(r) PROVE q <= Len(owner)
    <3>1. Entering(r) /\ q = Runs(r)
      BY <1>0, <1>3, <2>2 DEF EnterTells, EnterTold, ToldOfEntry, In, Entering,
         TypeOK
    <3> QED
      BY <1>2, <3>1
  <2>3. ASSUME NEW r \in Rooms, EnterEnds(r) PROVE q <= Len(owner)
    <3>1. phase[r] = "listed" /\ q \in snapshot[r]
      BY <1>0, <1>3, <2>3 DEF EnterEnds, EnterListed, In, TypeOK
    <3>2. CASE q \in members[r]
      BY <3>2, MembersAreBorn
    <3>3. CASE q \notin members[r]
      BY <3>1, <3>3 DEF IInv, Running
    <3> QED
      BY <3>2, <3>3
  <2>4. ASSUME NEW r \in Rooms, LeaveEnds(r) PROVE FALSE
    BY <1>3, <2>4 DEF LeaveEnds, LeaveTold, Finish, ToldOfLeave
  <2>5. ASSUME NEW s \in Sessions, DisconnectTell(s) PROVE FALSE
    BY <1>3, <2>5 DEF DisconnectTell, ToldOfLeave
  <2> QED
    BY <1>3, <2>1, <2>2, <2>3, <2>4, <2>5, ViewMoveHolds DEF ViewMove
<1> QED
  BY <1>1, <1>3

(* Who is wrongly shown has left through OnDisconnected, or is on its way  *)
(* out.                                                                    *)
LEMMA StaleViewsNext ==
  IInv /\ [Next]_vars => StaleViewsComeFromDisconnect'
<1> SUFFICES ASSUME IInv, [Next]_vars, NEW r \in Rooms, NEW p \in members'[r],
                    NEW q \in view'[p] \ members'[r]
             PROVE  \/ leaving'[owner'[q]] # "no"
                    \/ phase'[r] = "left" /\ Head(jobs'[r]).player = q
  BY DEF StaleViewsComeFromDisconnect
<1>0. TypeOK /\ None \notin Rooms
  BY Ids DEF IInv, Types
<1>1. CASE p \notin members[r]
  <2>1. Enters(r, p) /\ p \in Players
    BY <1>1, MembersCome
  <2>2. view'[p] = {}
    <3>1. Unborn(p) /\ view' = view
      BY <2>1, EntersBears DEF Enters
    <3> QED
      BY <2>1, <3>1 DEF IInv, NotYet
  <2> QED
    BY <2>2
<1>2. CASE p \in members[r]
  <2>0. p \in Players /\ roomOf[p] = r
    BY <1>2, MembersAreBorn
  <2>1. q \in Players
    <3>1. view'[p] \subseteq Players
      BY <2>0, TypesNext DEF Types, TypeOK
    <3> QED
      BY <3>1
  <2>2. ASSUME q <= Len(owner), leaving[owner[q]] # "no"
        PROVE  leaving'[owner'[q]] # "no"
    BY <2>1, <2>2, OwnersLeave
  <2>5. ~Shuts(r)
    BY ShutRooms
  <2>3. CASE q \in view[p]
    <3>1. CASE q \in members[r]
      <4>1. CASE phase[r] = "begun" /\ phase'[r] = "left" /\ q = Runs(r)
        BY <4>1, JobGoesOn DEF Runs
      <4> QED
        BY <2>5, <3>1, <4>1, MembersGo
    <3>2. CASE q \notin members[r] /\ leaving[owner[q]] # "no"
      BY <2>0, <2>1, <2>2, <2>3, <3>2 DEF IInv, ViewsAreMade
    <3>3. CASE q \notin members[r] /\ phase[r] = "left" /\ Runs(r) = q
      <4>1. CASE phase'[r] = "idle"
        <5>1. LeaveEnds(r)
          BY <3>3, <4>1, RoomMoveHolds DEF RoomMove
        <5>2. view'[p] = view[p] \ {q}
          BY <1>2, <2>0, <3>3, <5>1 DEF LeaveEnds, LeaveTold, Finish, ToldOfLeave
        <5> QED
          BY <5>2
      <4>2. CASE phase'[r] # "idle"
        <5>1. PICK P, Q, j : JobMove(P, Q, j)
          BY JobsMove DEF IInv
        <5>2. PhaseGoesOn(r)
          BY <4>2, <5>1 DEF JobMove
        <5>3. phase'[r] = "left"
          BY <3>3, <5>2 DEF PhaseGoesOn
        <5> QED
          BY <3>3, <5>3, JobGoesOn DEF Runs
      <4> QED
        BY <4>1, <4>2
    <3> QED
      BY <1>2, <2>3, <3>1, <3>2, <3>3 DEF IInv, StaleViewsComeFromDisconnect,
        Runs
  <2>4. CASE q \notin view[p]
    <3>1. CASE HostEnds(r) /\ p = Runs(r)
      <4>1. view'[p] = {p}
        BY <1>0, <2>0, <3>1 DEF HostEnds, HostTold, TypeOK
      <4> QED
        BY <4>1
    <3>2. CASE EnterTells(r) /\ p = Runs(r)
      <4>1. view'[p] = {p}
        BY <1>0, <2>0, <3>2 DEF EnterTells, EnterTold, ToldOfEntry, TypeOK
      <4> QED
        BY <4>1
    <3>3. CASE EnterTells(r) /\ view'[p] = view[p] \cup {Runs(r)}
      <4>1. q = Runs(r) /\ Entering(r) /\ members' = members
        BY <2>4, <3>3 DEF EnterTells, EnterTold, In, Entering
      <4>2. leaving[owner[q]] # "no"
        BY <4>1 DEF IInv, Running
      <4>3. q <= Len(owner)
        BY <4>1, EnteringIsBorn, TicketsAre DEF IInv
      <4> QED
        BY <2>2, <4>2, <4>3
    <3>4. CASE EnterEnds(r) /\ p = Runs(r)
      <4>1. /\ phase[r] = "listed" /\ members' = members
            /\ view'[p] = view[p] \cup snapshot[r]
        BY <1>0, <2>0, <2>5, <3>4, LetGoMoves DEF EnterEnds, EnterListed, In,
           EndJob, Finish, TypeOK
      <4>2. q \in snapshot[r] \ members[r]
        BY <2>4, <4>1
      <4>3. q <= Len(owner) /\ leaving[owner[q]] # "no"
        BY <4>1, <4>2 DEF IInv, Running
      <4> QED
        BY <2>2, <4>3
    <3>5. CASE \E x \in Players : view'[p] = view[p] \ {x}
      BY <2>4, <3>5
    <3> QED
      BY <2>0, <2>4, <3>1, <3>2, <3>3, <3>4, <3>5, ViewsOfMembers
  <2> QED
    BY <2>3, <2>4
<1> QED
  BY <1>1, <1>2

-----------------------------------------------------------------------------
(* A room that is empty has been left, unless it has gone.                 *)
LEMMA EmptiedGrows ==
  ASSUME IInv, [Next]_vars
  PROVE  /\ emptied \subseteq emptied'
         /\ \A r \in Rooms : members[r] # {} /\ members'[r] = {} =>
              r \in emptied' \/ Shuts(r)
<1>0. TypeOK
  BY DEF IInv, Types
<1>1. ASSUME NEW k \in Rooms, NEW p \in Players, Enters(k, p)
      PROVE  /\ emptied' = emptied
             /\ \A r \in Rooms : members[r] \subseteq members'[r]
  BY <1>0, <1>1 DEF Enters, EnterPlayer, TypeOK
<1>2. ASSUME NEW k \in Rooms, NEW p \in Players, Leaves(k, p)
      PROVE  /\ emptied \subseteq emptied'
             /\ \A r \in Rooms :
                  members[r] # {} /\ members'[r] = {} => r \in emptied'
  <2>1. /\ emptied' = IF members[k] = {p} THEN emptied \cup {k} ELSE emptied
        /\ members' = [members EXCEPT ![k] = @ \ {p}] /\ p \in members[k]
    BY <1>2 DEF Leaves, LeavePlayer
  <2>2. ASSUME NEW r \in Rooms, members[r] # {}, members'[r] = {}
        PROVE  r \in emptied'
    <3>1. r = k /\ members[k] = {p}
      BY <1>0, <2>1, <2>2 DEF TypeOK
    <3> QED
      BY <2>1, <3>1
  <2> QED
    BY <2>1, <2>2
<1>3. ASSUME NEW k \in Rooms, Shuts(k), emptied' = emptied
      PROVE  /\ emptied \subseteq emptied'
             /\ \A r \in Rooms : members[r] # {} /\ members'[r] = {} => r = k
  BY <1>0, <1>3 DEF Shuts, TypeOK
<1> QED
  BY <1>1, <1>2, <1>3, MembersMoveHolds DEF MembersMove

(* Only deletions of emptied rooms are asked for.                          *)
LEMMA DeletesNext == IInv /\ [Next]_vars => Deletes'
<1> SUFFICES ASSUME IInv, [Next]_vars PROVE Deletes'
  OBVIOUS
<1>1. ASSUME NEW i \in DOMAIN jobs'[GRoom], jobs'[GRoom][i].kind = "delete"
      PROVE  jobs'[GRoom][i].room \in emptied'
  <2>1. PICK P, Q, j : JobMove(P, Q, j)
    BY JobsMove DEF IInv
  <2>2. JobStep(P, Q, j) /\ GRoom \in Queues
    BY <2>1, Ids DEF JobMove
  <2>3. \/ GRoom \in Q /\ jobs'[GRoom][i] = j
        \/ i + 1 \in DOMAIN jobs[GRoom] /\ jobs'[GRoom][i] = jobs[GRoom][i + 1]
        \/ i \in DOMAIN jobs[GRoom] /\ jobs'[GRoom][i] = jobs[GRoom][i]
    BY <2>2, JobsComeFrom DEF IInv
  <2>4. jobs'[GRoom][i].room \in emptied
    BY <1>1, <2>1, <2>3 DEF JobMove, IInv, Deletes
  <2> QED
    BY <2>4, EmptiedGrows
<1>2. ASSUME NEW r \in Rooms, members'[r] = {},
             phase'[r] = "left"
               \/ \E s \in Sessions : leaving'[s] = "left" /\ target'[s] = r
      PROVE  r \in emptied'
  <2>1. CASE members[r] # {}
    <3>1. ~Shuts(r)
      BY <1>2, ShutRooms
    <3> QED
      BY <1>2, <2>1, <3>1, EmptiedGrows
  <2>2. CASE members[r] = {}
    <3>1. \/ phase[r] = "left"
          \/ \E s \in Sessions : leaving[s] = "left" /\ target[s] = r
      <4>1. CASE phase'[r] = "left"
        <5>1. ~Leaves(r, Runs(r))
          BY <2>2 DEF Leaves
        <5> QED
          BY <4>1, <5>1, JobGoesOn DEF Entering
      <4>2. CASE \E s \in Sessions : leaving'[s] = "left" /\ target'[s] = r
        BY <2>2, <4>2, LeavingGoesOn
      <4> QED
        BY <1>2, <4>1, <4>2
    <3>2. r \in emptied
      BY <2>2, <3>1 DEF IInv, Deletes
    <3> QED
      BY <3>2, EmptiedGrows
  <2> QED
    BY <2>1, <2>2
<1> QED
  BY <1>1, <1>2 DEF Deletes

(* Only the room that is created next comes into _rooms, and only one that *)
(* has been emptied goes.                                                  *)
LEMMA RoomsGrow ==
  ASSUME IInv, [Next]_vars
  PROVE  /\ rooms' \subseteq rooms \cup {created + 1}
         /\ \A r \in rooms \ rooms' : r \in emptied
         /\ \/ created' = created
            \/ created' = created + 1 /\ created + 1 \in rooms'
<1>1. CASE UNCHANGED managerVars
  BY <1>1 DEF managerVars
<1>2. CASE Creates
  BY <1>2 DEF Creates, GameCreate, NewRoomId
<1>3. CASE Forgets
  <2>1. /\ rooms' = rooms \ {ManagerJob.room} /\ created' = created
        /\ jobs[GRoom] # <<>> /\ ManagerJob.kind = "delete"
    BY <1>3 DEF Forgets, GameDelete, RunManager
  <2>2. /\ 1 \in DOMAIN jobs[GRoom] /\ jobs[GRoom][1] = ManagerJob
    BY <2>1, ManagerRuns DEF IInv
  <2>3. ManagerJob.room \in emptied
    BY <2>1, <2>2 DEF IInv, Deletes
  <2> QED
    BY <2>1, <2>3
<1> QED
  BY <1>1, <1>2, <1>3, RoomsMoveHolds DEF RoomsMove

(* Only an emptied room is missing from _rooms.                            *)
LEMMA OnlyEmptiedNext == IInv /\ [Next]_vars => OnlyEmptiedRoomsAreDeleted'
<1> SUFFICES ASSUME IInv, [Next]_vars PROVE OnlyEmptiedRoomsAreDeleted'
  OBVIOUS
<1>1. /\ OnlyEmptiedRoomsAreDeleted /\ created \in Nat
      /\ emptied \subseteq emptied'
  BY EmptiedGrows, Counts DEF IInv
<1> QED
  BY <1>1, RoomsGrow DEF OnlyEmptiedRoomsAreDeleted

-----------------------------------------------------------------------------
(* The invariant holds at the start and is kept.                           *)
LEMMA InitIInv == Init => IInv
<1> SUFFICES ASSUME Init PROVE IInv
  OBVIOUS
<1> USE BoundsAssumption, NoneAssumption DEF Init
<1>1. TypeOK
  <2>1. owner \in Seq(Sessions) /\ Len(owner) <= MaxPlayers
    OBVIOUS
  <2>2. requests \in 0 .. MaxRequests /\ created \in 0 .. MaxRooms
    OBVIOUS
  <2>3. /\ player \in [Sessions -> Players \cup {None}]
        /\ roomOf \in [Players -> Rooms \cup {None}]
        /\ members \in [Rooms -> SUBSET Players]
        /\ isStart \in [Rooms -> BOOLEAN]
        /\ snapshot \in [Rooms -> SUBSET Players]
        /\ view \in [Players -> SUBSET Players]
        /\ target \in [Sessions -> Rooms \cup {None}]
    OBVIOUS
  <2>4. /\ phase \in [Rooms -> {"idle", "begun", "hosting", "entered",
                                "listed", "left"}]
        /\ leaving \in [Sessions -> {"no", "inside", "left", "out", "done"}]
        /\ rooms \subseteq 1 .. created /\ halted \in BOOLEAN
        /\ emptied \subseteq Rooms
    OBVIOUS
  <2> QED
    BY <2>1, <2>2, <2>3, <2>4 DEF TypeOK
<1>2. Types
  <2>1. handler \in [Sessions -> Handlers]
    BY DEF Handlers
  <2>2. /\ jobs \in [Queues -> Seq(Jobs)]
        /\ \A q \in Queues : \A i \in DOMAIN jobs[q] : jobs[q][i] \in JobsOf(q)
    OBVIOUS
  <2> QED
    BY <1>1, <2>1, <2>2 DEF Types
<1>3. \A q \in Queues : DOMAIN jobs[q] = {}
  OBVIOUS
<1>4. CreatesFit
  <2>1. CreatesPosted = 0
    <3>1. CreatesPosted = Cardinality({})
      BY <1>3, Ids DEF CreatesPosted
    <3> QED
      BY <3>1, FS_EmptySet
  <2> QED
    BY <2>1 DEF CreatesFit
<1>5. Fresh /\ Phases
  BY Ids DEF Fresh, Phases, Idle, InRoomKinds
<1>6. Tickets /\ HostComesFirst
  <2>1. Tickets
    BY <1>3 DEF Tickets
  <2>2. HostComesFirst
    BY <1>3, Ids DEF HostComesFirst
  <2> QED
    BY <2>1, <2>2
<1>7. NotYet /\ SessionsAgree /\ Agree
  <2>1. NotYet
    BY DEF NotYet
  <2>2. SessionsAgree
    BY DEF SessionsAgree, Idle
  <2>3. Agree
    BY Ids DEF Agree
  <2> QED
    BY <2>1, <2>2, <2>3
<1>8. Running /\ MembersAreKnown /\ ViewsAreMade
  BY DEF Running, Entering, MembersAreKnown, ViewsAreMade
<1>9. StaleViewsComeFromDisconnect /\ Deletes /\ OnlyEmptiedRoomsAreDeleted
  BY <1>3, Ids DEF StaleViewsComeFromDisconnect, Deletes,
     OnlyEmptiedRoomsAreDeleted
<1> QED
  BY <1>2, <1>4, <1>5, <1>6, <1>7, <1>8, <1>9 DEF IInv

(* Every step keeps the inductive invariant.                               *)
LEMMA NextIInv == IInv /\ [Next]_vars => IInv'
BY TypesNext, CreatesFitNext, FreshNext, PhasesNext, TicketsNext, NotYetNext,
   SessionsAgreeNext, AgreeNext, HostComesFirstNext, RunningNext,
   MembersAreKnownNext, ViewsAreMadeNext, StaleViewsNext, DeletesNext,
   OnlyEmptiedNext DEF IInv

(* The inductive invariant holds in every reachable state.                 *)
THEOREM RoomsInvariantHolds == Spec => []IInv
BY InitIInv, NextIInv, PTL DEF Spec

(* Player::room and Room::_players name each other, whichever of the       *)
(* room's job and OnDisconnected takes the player out, until the room goes *)
(* with whoever is left in it.                                             *)
THEOREM MembershipAlwaysAgrees == Spec => []MembershipAgrees
<1>1. IInv => MembershipAgrees
  <2> SUFFICES ASSUME IInv, NEW r \in Rooms, NEW p \in Players
               PROVE  p \in members[r] <=> LockRoom(p) = r
    BY DEF MembershipAgrees, IInv, Types
  <2>1. p \in members[r] <=> roomOf[p] = r /\ Alive(r)
    BY DEF IInv, Agree
  <2>2. p # None /\ r # None
    BY Ids
  <2> QED
    BY <2>1, <2>2 DEF LockRoom
<1> QED
  BY <1>1, RoomsInvariantHolds, PTL

(* The host's job comes before any other of the room, to an empty room     *)
(* that has not started: HandleEnterHostPlayer never refuses.              *)
THEOREM HostAlwaysComesFirst == Spec => []HostComesFirst
<1>1. IInv => HostComesFirst
  BY DEF IInv
<1> QED
  BY <1>1, RoomsInvariantHolds, PTL

(* Everybody in a room has been told of everybody else in it.              *)
THEOREM MembersAreAlwaysKnown == Spec => []MembersAreKnown
<1>1. IInv => MembersAreKnown
  BY DEF IInv
<1> QED
  BY <1>1, RoomsInvariantHolds, PTL

(* A client that is wrong about who is in its room is wrong about a player *)
(* whose session has begun OnDisconnected, or one that is being taken out. *)
THEOREM StaleViewsAlwaysComeFromDisconnect ==
  Spec => []StaleViewsComeFromDisconnect
<1>1. IInv => StaleViewsComeFromDisconnect
  BY DEF IInv
<1> QED
  BY <1>1, RoomsInvariantHolds, PTL

(* The RoomManager forgets only rooms that a leaving player left empty.    *)
THEOREM OnlyEmptiedRoomsAreEverDeleted == Spec => []OnlyEmptiedRoomsAreDeleted
<1>1. IInv => OnlyEmptiedRoomsAreDeleted
  BY DEF IInv
<1> QED
  BY <1>1, RoomsInvariantHolds, PTL

(* A player that OnDisconnected found in a room is in none when it is      *)
(* through, whatever jobs the room still has for it.                       *)
THEOREM DisconnectedPlayersAreAlwaysOut == Spec => []DisconnectedPlayersAreOut
<1>1. IInv => DisconnectedPlayersAreOut
  <2> SUFFICES ASSUME IInv, NEW s \in Sessions, leaving[s] = "out",
                      target[s] # None, NEW r \in Rooms
               PROVE  player[s] \notin members[r]
    BY DEF DisconnectedPlayersAreOut
  <2>1. player[s] # None /\ roomOf[player[s]] = None
    BY DEF IInv, SessionsAgree
  <2>2. player[s] \in Players /\ r # None
    BY <2>1, Ids DEF IInv, Types, TypeOK
  <2> QED
    BY <2>1, <2>2 DEF IInv, Agree
<1> QED
  BY <1>1, RoomsInvariantHolds, PTL

-----------------------------------------------------------------------------
(* A room that nobody has asked to delete, and that somebody is in, stays  *)
(* in _rooms, and nobody asks now.                                         *)
LEMMA OpenRoomsStayOpen ==
  ASSUME IInv, [Next]_vars, NEW r \in Rooms, Open(r), members[r] # {}
  PROVE  Open(r)'
<1>0. /\ r \in rooms
      /\ \A i \in DOMAIN jobs[GRoom] :
           ~(jobs[GRoom][i].kind = "delete" /\ jobs[GRoom][i].room = r)
  BY DEF Open
<1>1. r \in rooms'
  <2>1. ASSUME Forgets PROVE r \in rooms'
    <3>1. /\ rooms' = rooms \ {ManagerJob.room}
          /\ jobs[GRoom] # <<>> /\ ManagerJob.kind = "delete"
      BY <2>1 DEF Forgets, GameDelete, RunManager
    <3>2. 1 \in DOMAIN jobs[GRoom] /\ jobs[GRoom][1] = ManagerJob
      BY <3>1, ManagerRuns DEF IInv
    <3> QED
      BY <1>0, <3>1, <3>2
  <2>2. ASSUME Creates PROVE r \in rooms'
    BY <1>0, <2>2 DEF Creates, GameCreate
  <2> QED
    BY <1>0, <2>1, <2>2, RoomsMoveHolds DEF RoomsMove, managerVars
<1>2. ASSUME NEW i \in DOMAIN jobs'[GRoom], jobs'[GRoom][i].kind = "delete",
             jobs'[GRoom][i].room = r
      PROVE  FALSE
  <2>1. PICK P, Q, j : JobMove(P, Q, j)
    BY JobsMove DEF IInv
  <2>2. JobStep(P, Q, j) /\ GRoom \in Queues
    BY <2>1, Ids DEF JobMove
  <2>3. CASE GRoom \in Q /\ jobs'[GRoom][i] = j
    BY <1>2, <2>1, <2>3 DEF JobMove
  <2>4. CASE \E m \in DOMAIN jobs[GRoom] : jobs'[GRoom][i] = jobs[GRoom][m]
    BY <1>0, <1>2, <2>4
  <2> QED
    BY <2>2, <2>3, <2>4, JobsComeFrom DEF IInv
<1> QED
  BY <1>1, <1>2 DEF Open

(* A ghost stays: no job and no OnDisconnected is left that would take it  *)
(* out, nobody asks for one, and the room is not let go of.                *)
LEMMA GhostStays ==
  ASSUME IInv, [Next]_vars, NEW r \in Rooms, NEW p \in Players,
         Ghost(p, r), Open(r)
  PROVE  (Ghost(p, r) /\ Open(r))'
<1> DEFINE o == owner[p]
<1>0. /\ TypeOK /\ p <= Len(owner) /\ o \in Sessions /\ p \in members[r]
      /\ leaving[o] = "done" /\ player[o] # p /\ ~LeaveAsked(p)
      /\ p \in Nat /\ Len(owner) \in Nat
  BY MembersAreBorn, OwnersStay, Ids, Counts DEF IInv, Types, Ghost
<1>1. owner'[p] = o
  BY <1>0, OwnersStay
<1>2. ASSUME NEW s \in Sessions, player[s] = p PROVE FALSE
  <2>1. owner[p] = s
    BY <1>2, Ids DEF IInv, SessionsAgree
  <2> QED
    BY <1>0, <1>2, <2>1
<1> HIDE DEF o
<1>6. Open(r)'
  BY <1>0, OpenRoomsStayOpen
<1>3. p \in members'[r]
  <2>3. ASSUME NEW k \in Rooms, Shuts(k) PROVE p \in members'[r]
    <3>1. k # r
      BY <1>6, <2>3 DEF Open, Shuts, Alive
    <3> QED
      BY <1>0, <2>3, <3>1 DEF Shuts, TypeOK
  <2>1. ASSUME NEW k \in Rooms, NEW q \in Players, Enters(k, q)
        PROVE  p \in members'[r]
    BY <1>0, <2>1 DEF Enters, EnterPlayer, TypeOK
  <2>2. ASSUME NEW k \in Rooms, NEW q \in Players, Leaves(k, q),
               p \notin members'[r]
        PROVE  FALSE
    <3>1. k = r /\ q = p
      BY <1>0, <2>2 DEF Leaves, LeavePlayer, TypeOK
    <3>2. CASE phase[k] = "begun" /\ p = Runs(k)
            /\ Head(jobs[k]).kind = "leave"
      <4>1. jobs[r] # <<>>
        BY <3>1, <3>2 DEF IInv, Phases
      <4>2. 1 \in DOMAIN jobs[r] /\ jobs[r][1] = Head(jobs[r])
        BY <4>1, RoomRuns DEF IInv
      <4>3. LeaveAsked(p)
        BY <3>1, <3>2, <4>2 DEF LeaveAsked, Runs
      <4> QED
        BY <1>0, <4>3
    <3>3. CASE \E s \in Sessions : player[s] = q
      BY <1>2, <3>1, <3>3
    <3> QED
      BY <2>2, <3>1, <3>2, <3>3 DEF Leaves
  <2> QED
    BY <1>0, <2>1, <2>2, <2>3, MembersMoveHolds DEF MembersMove
<1>4. leaving'[o] = "done" /\ player'[o] # p
  <2> USE <1>0 DEF TypeOK
  <2>1. CASE UNCHANGED <<handler, player, owner, leaving, target>>
    BY <2>1
  <2>2. ASSUME NEW u \in Sessions, Receive(u) \/ PostToRoom(u)
        PROVE  leaving' = leaving /\ player' = player
    BY <2>2 DEF Receive, ReceiveJoin, ReceiveInRoom, PostToRoom, leaveVars
  <2>3. ASSUME NEW u \in Sessions, PostJoin(u)
        PROVE  leaving'[o] = "done" /\ player'[o] # p
    <3>1. /\ leaving' = leaving
          /\ player' = [player EXCEPT ![u] = Len(owner) + 1]
      BY <2>3 DEF PostJoin, leaveVars
    <3>2. p # Len(owner) + 1
      OBVIOUS
    <3> QED
      BY <3>1, <3>2
  <2>4. ASSUME NEW u \in Sessions, DisconnectLook(u) \/ DisconnectLeave(u)
                                     \/ DisconnectTell(u)
        PROVE  leaving'[o] = "done" /\ player'[o] # p
    <3>1. player' = player /\ leaving[u] # "done"
          /\ \E x : leaving' = [leaving EXCEPT ![u] = x]
      BY <2>4 DEF DisconnectLook, DisconnectLeave, DisconnectTell, sessionVars
    <3> QED
      BY <3>1
  <2>5. ASSUME NEW u \in Sessions, DisconnectDone(u)
        PROVE  leaving'[o] = "done" /\ player'[o] # p
    <3>1. /\ leaving' = [leaving EXCEPT ![u] = "done"]
          /\ player' = [player EXCEPT ![u] = None]
      BY <2>5 DEF DisconnectDone
    <3> QED
      BY <3>1, Ids
  <2> QED
    BY <2>1, <2>2, <2>3, <2>4, <2>5, SessionMoveHolds DEF SessionMove
<1>5. ~LeaveAsked(p)'
  <2>1. ASSUME NEW k \in Rooms, NEW i \in DOMAIN jobs'[k],
               jobs'[k][i].kind = "leave", jobs'[k][i].player = p
        PROVE  FALSE
    <3>1. PICK P, Q, j : JobMove(P, Q, j)
      BY JobsMove DEF IInv
    <3>2. JobStep(P, Q, j) /\ k \in Queues
      BY <3>1, Ids DEF JobMove
    <3>3. CASE k \in Q /\ jobs'[k][i] = j
      <4>1. \E s \in Sessions : handler[s].kind = "leave"
              /\ handler[s].player = p
        BY <2>1, <3>1, <3>3 DEF JobMove
      <4> QED
        BY <1>0, <4>1 DEF LeaveAsked
    <3>4. CASE \E m \in DOMAIN jobs[k] : jobs'[k][i] = jobs[k][m]
      BY <1>0, <2>1, <3>4 DEF LeaveAsked
    <3> QED
      BY <3>2, <3>3, <3>4, JobsComeFrom DEF IInv
  <2>2. ASSUME NEW s \in Sessions, handler'[s].kind = "leave",
               handler'[s].player = p
        PROVE  FALSE
    <3>1. handler'[s] # handler[s]
      BY <1>0, <2>2 DEF LeaveAsked
    <3>2. ASSUME NEW u \in Sessions, Receive(u) PROVE FALSE
      <4>1. handler \in [Sessions -> Handlers]
        BY DEF IInv, Types
      <4>2. CASE ReceiveJoin(u)
        BY <2>2, <3>1, <4>1, <4>2 DEF ReceiveJoin
      <4>3. CASE ReceiveInRoom(u)
        <5>1. \E k \in {"leave", "start", "end"} :
                handler' = [handler EXCEPT ![u] =
                  [kind |-> k, room |-> LockRoom(player[u]),
                   player |-> player[u]]]
          BY <4>3 DEF ReceiveInRoom
        <5>2. player[u] = p
          BY <2>2, <3>1, <4>1, <5>1
        <5> QED
          BY <1>2, <5>2
      <4> QED
        BY <3>2, <4>2, <4>3 DEF Receive
    <3>3. ASSUME NEW u \in Sessions, PostJoin(u) \/ PostToRoom(u) PROVE FALSE
      <4>1. /\ handler \in [Sessions -> Handlers]
            /\ handler' = [handler EXCEPT ![u] = Idle]
        BY <3>3 DEF PostJoin, PostToRoom, IInv, Types
      <4> QED
        BY <2>2, <3>1, <4>1 DEF Idle
    <3>4. ASSUME NEW u \in Sessions, DisconnectLook(u) \/ DisconnectLeave(u)
                                       \/ DisconnectTell(u)
                                         \/ DisconnectDone(u)
          PROVE  handler' = handler
      BY <3>4 DEF DisconnectLook, DisconnectLeave, DisconnectTell,
         DisconnectDone, sessionVars
    <3> QED
      BY <3>1, <3>2, <3>3, <3>4, SessionMoveHolds DEF SessionMove
  <2> QED
    BY <2>1, <2>2 DEF LeaveAsked
<1> QED
  BY <1>1, <1>3, <1>4, <1>5, <1>6 DEF Ghost

(* A player that came in after its session had been through OnDisconnected,*)
(* into a room that nobody has asked to delete, stays there for ever and   *)
(* keeps the room.                                                         *)
THEOREM GhostsKeepTheirRooms == Spec => GhostKeepsItsRoom
<1>1. IInv /\ [Next]_vars =>
        [\A r \in Rooms, p \in Players :
           Ghost(p, r) /\ Open(r) => (Ghost(p, r) /\ Open(r))']_vars
  BY GhostStays
<1> QED
  BY <1>1, RoomsInvariantHolds, PTL DEF Spec, GhostKeepsItsRoom

-----------------------------------------------------------------------------
(* Who is stuck stays stuck: it has no ticket left, and gets none.         *)
LEMMA StuckStays ==
  ASSUME IInv, [Next]_vars, NEW s \in Sessions, NEW p \in Players,
         player[s] = p, LockRoom(p) = None, ~Joining(p), leaving'[s] # "done"
  PROVE  player'[s] = p /\ LockRoom(p)' = None /\ ~Joining(p)'
<1>0. /\ TypeOK /\ p <= Len(owner) /\ p \in Nat /\ Len(owner) \in Nat
      /\ None \notin Players /\ None \notin Rooms
  BY Ids, Counts DEF IInv, Types, SessionsAgree
<1>1. player'[s] = p
  <2>1. ASSUME NEW u \in Sessions, PostJoin(u) PROVE player'[s] = p
    <3>1. /\ player' = [player EXCEPT ![u] = Len(owner) + 1]
          /\ handler[u].kind \in {"inside", "create"}
      BY <2>1 DEF PostJoin
    <3>2. u # s
      BY <1>0, <3>1 DEF IInv, SessionsAgree
    <3> QED
      BY <1>0, <3>1, <3>2 DEF TypeOK
  <2>2. ASSUME NEW u \in Sessions, DisconnectDone(u) PROVE player'[s] = p
    <3>1. /\ player' = [player EXCEPT ![u] = None]
          /\ leaving' = [leaving EXCEPT ![u] = "done"]
      BY <2>2 DEF DisconnectDone
    <3>2. u # s
      BY <1>0, <3>1 DEF TypeOK
    <3> QED
      BY <1>0, <3>1, <3>2 DEF TypeOK
  <2>3. ASSUME NEW u \in Sessions,
               Receive(u) \/ PostToRoom(u) \/ DisconnectLook(u)
                 \/ DisconnectLeave(u) \/ DisconnectTell(u)
        PROVE  player' = player
    BY <2>3 DEF Receive, ReceiveJoin, ReceiveInRoom, PostToRoom,
       DisconnectLook, DisconnectLeave, DisconnectTell, sessionVars
  <2> QED
    BY <2>1, <2>2, <2>3, SessionMoveHolds DEF SessionMove
<1>2. \A q, i : ~Ticket(q, i, p)
  BY DEF Joining, Ticket, JoinKinds
<1>3. ~Joining(p)'
  <2>1. PICK P, Q, j : JobMove(P, Q, j)
    BY JobsMove DEF IInv
  <2>2. ASSUME NEW q, NEW i, Ticket(q, i, p)' PROVE FALSE
    <3>1. p # Len(owner) + 1
      BY <1>0
    <3> QED
      BY <1>2, <2>1, <2>2, <3>1, TicketsComeFrom DEF IInv
  <2>3. ASSUME NEW q \in Queues, NEW i \in DOMAIN jobs'[q],
               jobs'[q][i].kind \in JoinKinds, jobs'[q][i].player = p
        PROVE  FALSE
    <3>1. Ticket(q, i, p)'
      BY <2>3 DEF Ticket
    <3> QED
      BY <2>2, <3>1
  <2> QED
    BY <2>3 DEF Joining, JoinKinds
<1>4. roomOf'[p] \in {roomOf[p], None}
  <2>1. ASSUME NEW k \in Rooms, NEW q \in Players, Enters(k, q)
        PROVE  roomOf'[p] = roomOf[p]
    <3>1. q # p
      <4>1. jobs[k] # <<>> /\ q = Runs(k)
              /\ Head(jobs[k]).kind \in {"host", "enter"}
        BY <2>1 DEF Enters
      <4>2. Ticket(k, 1, q)
        BY <4>1, RoomRuns, Ids DEF IInv, Ticket, JoinKinds, Runs
      <4> QED
        BY <1>2, <4>2
    <3> QED
      BY <1>0, <2>1, <3>1 DEF Enters, EnterPlayer, TypeOK
  <2>2. ASSUME NEW k \in Rooms, NEW q \in Players, Leaves(k, q)
        PROVE  roomOf'[p] \in {roomOf[p], None}
    BY <1>0, <2>2 DEF Leaves, LeavePlayer, TypeOK
  <2> QED
    BY <2>1, <2>2, MembersMoveHolds DEF MembersMove
<1>5. LockRoom(p)' = None
  <2>1. CASE roomOf'[p] = None
    BY <2>1 DEF LockRoom
  <2>2. CASE roomOf[p] # None /\ roomOf'[p] = roomOf[p]
    <3>1. PICK r \in Rooms : roomOf[p] = r
      BY <1>0, <2>2 DEF TypeOK
    <3>2. ~Alive(r)
      BY <1>0, <3>1 DEF LockRoom
    <3>3. r <= created
      <4>1. ~(r > created)
        BY <3>1 DEF IInv, Fresh
      <4>2. r \in Nat /\ created \in Nat
        BY Ids, Counts DEF IInv
      <4> QED
        BY <4>1, <4>2
    <3>4. ~Alive(r)'
      BY <3>2, <3>3, DeadRoomsStayDead
    <3> QED
      BY <2>2, <3>1, <3>4 DEF LockRoom
  <2> QED
    BY <1>4, <2>1, <2>2
<1> QED
  BY <1>1, <1>3, <1>5

(* A session whose player is in no room and on its way to none stays like  *)
(* that until it disconnects.                                              *)
THEOREM StuckStaysStuck == Spec => StuckUntilDisconnect
<1>1. ASSUME IInv, [Next]_vars, NEW s \in Sessions, Stuck(s)
      PROVE  Stuck(s)' \/ leaving'[s] = "done"
  <2>1. PICK p \in Players : player[s] = p
    BY <1>1 DEF IInv, Types, TypeOK, Stuck
  <2>2. LockRoom(p) = None /\ ~Joining(p)
    BY <1>1, <2>1 DEF Stuck
  <2>3. CASE leaving'[s] # "done"
    <3>1. player'[s] = p /\ LockRoom(p)' = None /\ ~Joining(p)'
      BY <1>1, <2>1, <2>2, <2>3, StuckStays
    <3>2. p # None
      BY Ids
    <3> QED
      BY <3>1, <3>2 DEF Stuck
  <2> QED
    BY <2>3
<1>2. IInv /\ [Next]_vars =>
        [\A s \in Sessions : Stuck(s)
          => Stuck(s)' \/ leaving'[s] = "done"]_vars
  BY <1>1
<1> QED
  BY <1>2, RoomsInvariantHolds, PTL DEF Spec, StuckUntilDisconnect
==============================================================================
