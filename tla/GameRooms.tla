----------------------------- MODULE GameRooms -----------------------------
(***************************************************************************)
(* The game logic of the server: sessions, players, rooms and the          *)
(* RoomManager.  Packet handlers run on the IOCP threads and post jobs to  *)
(* the RoomManager's queue and to the queues of the rooms, each of which   *)
(* runs its jobs one at a time and in order (what SerialQueue promises).   *)
(* OnDisconnected does not post: it calls Room::HandleLeavePlayer on the   *)
(* thread it runs on, beside whatever job the room is running.             *)
(***************************************************************************)
EXTENDS Integers, Sequences, FiniteSets

CONSTANTS
  Sessions,     \* connections of clients
  MaxPlayers,   \* bound: Player objects made
  MaxRooms,     \* bound: rooms created
  MaxRequests,  \* bound: packets handled
  MaxDrops,     \* bound: connections that end
  None

ASSUME BoundsAssumption ==
  /\ MaxPlayers \in Nat /\ MaxRooms \in Nat
  /\ MaxRequests \in Nat /\ MaxDrops \in Nat

Players == 1 .. MaxPlayers      \* object ids, from Utils::objectId
Rooms == 1 .. MaxRooms          \* Room objects, in the order of creation
GRoom == 0                      \* the RoomManager's queue
Queues == Rooms \cup {GRoom}

ASSUME NoneAssumption == None \notin Players \cup Rooms

VARIABLES
  requests,   \* packets handled so far
  handler,    \* the packet handler session s is in, with what it has read
  player,     \* GameSession::player
  owner,      \* Player::session
  roomOf,     \* Player::room, which may have expired
  created,    \* Rooms made so far: 1 .. created
  rooms,      \* the rooms in RoomManager::_rooms
  members,    \* Room::_players
  isStart,    \* Room::_isStart
  jobs,       \* the jobs of each queue; the head may be running
  phase,      \* how far the running job of a room is
  snapshot,   \* the S_SPAWN list HandleEnterPlayer has put together
  view,       \* who the client of a player has been told is in its room
  leaving,    \* how far OnDisconnected of session s is
  target,     \* the RoomRef OnDisconnected holds
  halted,     \* the process has died of an access violation
  emptied     \* history: rooms that a leaving player left empty

sessionVars == <<requests, handler, player, owner>>
leaveVars == <<leaving, target>>
roomVars == <<members, roomOf, isStart, view, emptied>>
managerVars == <<created, rooms>>
vars == <<sessionVars, leaveVars, roomVars, managerVars, jobs, phase, snapshot,
          halted>>

Idle == [kind |-> "none"]

Init ==
  /\ requests = 0
  /\ handler = [s \in Sessions |-> Idle]
  /\ player = [s \in Sessions |-> None]
  /\ owner = <<>>
  /\ roomOf = [p \in Players |-> None]
  /\ created = 0
  /\ rooms = {}
  /\ members = [r \in Rooms |-> {}]
  /\ isStart = [r \in Rooms |-> FALSE]
  /\ jobs = [q \in Queues |-> <<>>]
  /\ phase = [r \in Rooms |-> "idle"]
  /\ snapshot = [r \in Rooms |-> {}]
  /\ view = [p \in Players |-> {}]
  /\ leaving = [s \in Sessions |-> "no"]
  /\ target = [s \in Sessions |-> None]
  /\ halted = FALSE
  /\ emptied = {}

-----------------------------------------------------------------------------
(* Who keeps a Room alive: _rooms, its jobs, a handler or OnDisconnected   *)
(* that has locked Player::room.                                           *)
Alive(r) ==
  \/ r \in rooms
  \/ jobs[r] # <<>>
  \/ \E s \in Sessions : target[s] = r
  \/ \E s \in Sessions : handler[s].kind \in {"leave", "start", "end"}
                           /\ handler[s].room = r

Living == {r \in Rooms : Alive(r)}

(* ~Room, in the step that lets go of room r, if nobody keeps it any more: *)
(* _players.clear().  The executor's own references go with the last job.  *)
(* (Variant: the map outlives the room.)                                   *)
KeepPlayers(r) == UNCHANGED members
LetGo(r) == members' = [members EXCEPT ![r] = IF r \in Living' THEN @ ELSE {}]

(* player->room.load().lock()                                              *)
LockRoom(p) ==
  IF p # None /\ roomOf[p] # None /\ Alive(roomOf[p]) THEN roomOf[p] ELSE None

(* DoAsync: the job goes to the end of the queue.                          *)
Post(js, q, job) == [js EXCEPT ![q] = Append(@, job)]

-----------------------------------------------------------------------------
(* A session that already has a player may neither enter nor create.       *)
(* (Variant: the player is not looked at.)                                 *)
MayJoinTwice(s) == TRUE
MayJoin(s) == player[s] = None

(* Handle_ENTER_GAME and Handle_CREATE_GAME: the test of the player.       *)
ReceiveJoin(s) ==
  /\ MayJoin(s)
  /\ \/ \E r \in Rooms : handler' = [handler EXCEPT ![s] =
                                       [kind |-> "inside", room |-> r]]
     \/ handler' = [handler EXCEPT ![s] = [kind |-> "create"]]
  /\ UNCHANGED <<player, owner>>

(* Handle_LEAVE_GAME, Handle_GAME_START, Handle_GAME_END: the player's     *)
(* room is locked.                                                         *)
ReceiveInRoom(s) ==
  /\ LockRoom(player[s]) # None
  /\ \E k \in {"leave", "start", "end"} :
       handler' = [handler EXCEPT ![s] =
         [kind |-> k, room |-> LockRoom(player[s]), player |-> player[s]]]
  /\ UNCHANGED <<player, owner>>

(* A packet is handled up to what it reads.  The one outstanding recv of a *)
(* session makes its handlers follow each other; a completion that was     *)
(* already there may still be handled after OnDisconnected.                *)
Receive(s) ==
  /\ ~halted
  /\ handler[s] = Idle
  /\ requests < MaxRequests
  /\ requests' = requests + 1
  /\ ReceiveJoin(s) \/ ReceiveInRoom(s)
  /\ UNCHANGED <<leaveVars, roomVars, managerVars, jobs, phase, snapshot,
                 halted>>

(* Bound: creations that are on their way count as rooms.                  *)
CreatesPosted ==
  Cardinality({i \in DOMAIN jobs[GRoom] : jobs[GRoom][i].kind = "create"})

(* MakePlayerRef and the job for the RoomManager.                          *)
PostJoin(s) ==
  /\ ~halted
  /\ handler[s].kind \in {"inside", "create"}
  /\ Len(owner) < MaxPlayers
  /\ handler[s].kind = "create" => created + CreatesPosted < MaxRooms
  /\ LET p == Len(owner) + 1
         job == IF handler[s].kind = "inside"
                THEN [kind |-> "inside", player |-> p, room |-> handler[s].room]
                ELSE [kind |-> "create", player |-> p]
     IN  /\ player' = [player EXCEPT ![s] = p]
         /\ jobs' = Post(jobs, GRoom, job)
  /\ owner' = Append(owner, s)
  /\ handler' = [handler EXCEPT ![s] = Idle]
  /\ UNCHANGED <<requests, leaveVars, roomVars, managerVars, phase, snapshot,
                 halted>>

(* The job for the room.                                                   *)
PostToRoom(s) ==
  /\ ~halted
  /\ handler[s].kind \in {"leave", "start", "end"}
  /\ jobs' = Post(jobs, handler[s].room,
                  [kind |-> handler[s].kind, player |-> handler[s].player])
  /\ handler' = [handler EXCEPT ![s] = Idle]
  /\ UNCHANGED <<requests, player, owner, leaveVars, roomVars, managerVars,
                 phase, snapshot, halted>>

-----------------------------------------------------------------------------
(* The id of a new room is drawn until no room has it.                     *)
NewRoomId == created + 1

GameCreate(p) ==
  /\ LET r == NewRoomId
     IN  /\ rooms' = rooms \cup {r}
         /\ jobs' = Post([jobs EXCEPT ![GRoom] = Tail(@)], r,
                         [kind |-> "host", player |-> p])
  /\ created' = created + 1
  /\ UNCHANGED members

GameInside(p, r) ==
  /\ jobs' = IF r \in rooms
             THEN Post([jobs EXCEPT ![GRoom] = Tail(@)], r,
                       [kind |-> "enter", player |-> p])
             ELSE [jobs EXCEPT ![GRoom] = Tail(@)]
  /\ UNCHANGED <<managerVars, members>>

(* The room leaves _rooms, which kept it, whoever is in it by now.         *)
GameDelete(r) ==
  /\ rooms' = rooms \ {r}
  /\ jobs' = [jobs EXCEPT ![GRoom] = Tail(@)]
  /\ LetGo(r)
  /\ UNCHANGED created

(* One job of the RoomManager.                                             *)
RunManager ==
  /\ ~halted
  /\ jobs[GRoom] # <<>>
  /\ UNCHANGED <<sessionVars, leaveVars, roomOf, isStart, view, emptied, phase,
                 snapshot, halted>>
  /\ LET job == Head(jobs[GRoom])
     IN  \/ job.kind = "create" /\ GameCreate(job.player)
         \/ job.kind = "inside" /\ GameInside(job.player, job.room)
         \/ job.kind = "delete" /\ GameDelete(job.room)

-----------------------------------------------------------------------------
(* Room::EnterPlayer lets a player in unless the game has started or the   *)
(* player is in already.                                                   *)
MayEnter(r, p) == ~isStart[r] /\ p \notin members[r]

EnterPlayer(r, p) ==
  /\ members' = [members EXCEPT ![r] = @ \cup {p}]
  /\ roomOf' = [roomOf EXCEPT ![p] = r]

(* Room::LeavePlayer.  (Variant: the player is left in the map.)           *)
LeaveInMap(r, p) ==
  /\ members' = members
  /\ roomOf' = [roomOf EXCEPT ![p] = None]
LeavePlayer(r, p) ==
  /\ members' = [members EXCEPT ![r] = @ \ {p}]
  /\ roomOf' = [roomOf EXCEPT ![p] = None]

(* The end of a job, which kept the room: the next one may start.          *)
Finish(r, js) ==
  /\ jobs' = js
  /\ phase' = [phase EXCEPT ![r] = "idle"]
  /\ LetGo(r)
EndJob(r) == Finish(r, [jobs EXCEPT ![r] = Tail(@)])

GoTo(r, step) == phase' = [phase EXCEPT ![r] = step] /\ UNCHANGED jobs

(* S_DESPAWN of a player that has left goes to the others.  (Variant: no   *)
(* client is told.)                                                        *)
ToldOfNobody(r, p) == view
ToldOfLeave(r, p) ==
  [q \in Players |-> IF q \in members[r] \ {p} THEN view[q] \ {p} ELSE view[q]]

(* S_SPAWN of a player that has entered goes to the others.                *)
ToldOfEntry(r, p) ==
  [q \in Players |-> IF q \in members[r] \ {p} THEN view[q] \cup {p} ELSE view[q]]

(* An empty room asks the RoomManager to delete it.  (Variants: so does    *)
(* any room that is left; no room does.)                                   *)
DeleteAlways(r, js) == Post(js, GRoom, [kind |-> "delete", room |-> r])
DeleteNever(r, js) == js
DeleteIfEmpty(r, js) ==
  IF members[r] = {} THEN Post(js, GRoom, [kind |-> "delete", room |-> r]) ELSE js

-----------------------------------------------------------------------------
(* The executor of room r takes the next job.                              *)
BeginJob(r) ==
  /\ ~halted
  /\ phase[r] = "idle"
  /\ jobs[r] # <<>>
  /\ GoTo(r, "begun")
  /\ UNCHANGED <<sessionVars, leaveVars, roomVars, managerVars, snapshot,
                 halted>>

(* Room::HandleEnterHostPlayer: enter; a host that cannot enter takes the   *)
(* room with it ...                                                        *)
HostBegun(r, p) ==
  /\ IF MayEnter(r, p)
     THEN EnterPlayer(r, p) /\ GoTo(r, "hosting")
     ELSE /\ Finish(r, Post([jobs EXCEPT ![r] = Tail(@)], GRoom,
                            [kind |-> "delete", room |-> r]))
          /\ UNCHANGED roomOf
  /\ UNCHANGED <<isStart, view, snapshot, emptied>>

(* ... S_CREATE_GAME.  (_hostPlayer, set last, only makes a line of log.)  *)
HostTold(r, p) ==
  /\ view' = [view EXCEPT ![p] = {p}]
  /\ EndJob(r)
  /\ UNCHANGED <<roomOf, isStart, snapshot, emptied>>

(* Room::HandleEnterPlayer: enter ...                                      *)
EnterBegun(r, p) ==
  /\ IF MayEnter(r, p)
     THEN EnterPlayer(r, p) /\ GoTo(r, "entered")
     ELSE EndJob(r) /\ UNCHANGED roomOf
  /\ UNCHANGED <<isStart, view, snapshot, emptied>>

(* ... S_ENTER_GAME, S_SPAWN of the new player to the others, and the list *)
(* of everybody for the new player ...                                     *)
EnterTold(r, p) ==
  /\ view' = [ToldOfEntry(r, p) EXCEPT ![p] = {p}]
  /\ snapshot' = [snapshot EXCEPT ![r] = members[r]]
  /\ GoTo(r, "listed")
  /\ UNCHANGED <<members, roomOf, isStart, emptied>>

(* ... which is sent last.                                                 *)
EnterListed(r, p) ==
  /\ view' = [view EXCEPT ![p] = @ \cup snapshot[r]]
  /\ snapshot' = [snapshot EXCEPT ![r] = {}]
  /\ EndJob(r)
  /\ UNCHANGED <<roomOf, isStart, emptied>>

(* Room::HandleLeavePlayer: leave, ...                                     *)
LeaveBegun(r, p) ==
  /\ IF p \in members[r]
     THEN /\ LeavePlayer(r, p)
          /\ emptied' = IF members[r] = {p} THEN emptied \cup {r} ELSE emptied
          /\ GoTo(r, "left")
     ELSE EndJob(r) /\ UNCHANGED <<roomOf, emptied>>
  /\ UNCHANGED <<isStart, view, snapshot>>

(* ... S_LEAVE_GAME and S_DESPAWN, and the room goes if it is empty.       *)
LeaveTold(r, p) ==
  /\ view' = ToldOfLeave(r, p)
  /\ Finish(r, DeleteIfEmpty(r, [jobs EXCEPT ![r] = Tail(@)]))
  /\ UNCHANGED <<roomOf, isStart, snapshot, emptied>>

(* Room::StageStart closes the room to newcomers.                          *)
StageStart(r) == isStart' = [isStart EXCEPT ![r] = TRUE]

(* Room::HandleGameStart starts stage one or two; STAGE_NULL and stages it *)
(* does not know start nothing.                                            *)
GameStart(r) ==
  /\ StageStart(r) \/ UNCHANGED isStart
  /\ EndJob(r)
  /\ UNCHANGED <<roomOf, view, snapshot, emptied>>

(* Room::HandleGameEnd opens it again, with whoever is in it.              *)
GameEnd(r) ==
  /\ isStart' = [isStart EXCEPT ![r] = FALSE]
  /\ EndJob(r)
  /\ UNCHANGED <<roomOf, view, snapshot, emptied>>

RunRoom(r) ==
  /\ ~halted
  /\ phase[r] # "idle"
  /\ UNCHANGED <<sessionVars, leaveVars, managerVars, halted>>
  /\ LET kind == Head(jobs[r]).kind
         p == Head(jobs[r]).player
     IN  \/ kind = "host" /\ phase[r] = "begun" /\ HostBegun(r, p)
         \/ kind = "host" /\ phase[r] = "hosting" /\ HostTold(r, p)
         \/ kind = "enter" /\ phase[r] = "begun" /\ EnterBegun(r, p)
         \/ kind = "enter" /\ phase[r] = "entered" /\ EnterTold(r, p)
         \/ kind = "enter" /\ phase[r] = "listed" /\ EnterListed(r, p)
         \/ kind = "leave" /\ phase[r] = "begun" /\ LeaveBegun(r, p)
         \/ kind = "leave" /\ phase[r] = "left" /\ LeaveTold(r, p)
         \/ kind = "start" /\ GameStart(r)
         \/ kind = "end" /\ GameEnd(r)

-----------------------------------------------------------------------------
(* GameSession::OnDisconnected reads player and locks its room.  A session *)
(* that never made a player is a null pointer here: the process dies.      *)
DisconnectLook(s) ==
  /\ ~halted
  /\ leaving[s] = "no"
  /\ Cardinality({u \in Sessions : leaving[u] # "no"}) < MaxDrops
  /\ halted' = (player[s] = None)
  /\ target' = [target EXCEPT ![s] = LockRoom(player[s])]
  /\ leaving' = [leaving EXCEPT ![s] =
                   IF LockRoom(player[s]) = None THEN "out" ELSE "inside"]
  /\ UNCHANGED <<sessionVars, roomVars, managerVars, jobs, phase, snapshot>>

(* Room::HandleLeavePlayer on this thread, not on the room's queue.        *)
DisconnectLeave(s) ==
  /\ ~halted
  /\ leaving[s] = "inside"
  /\ LET r == target[s]
         p == player[s]
     IN  IF p \in members[r]
         THEN /\ LeavePlayer(r, p)
              /\ emptied' = IF members[r] = {p} THEN emptied \cup {r} ELSE emptied
              /\ leaving' = [leaving EXCEPT ![s] = "left"]
         ELSE /\ leaving' = [leaving EXCEPT ![s] = "out"]
              /\ UNCHANGED <<members, roomOf, emptied>>
  /\ UNCHANGED <<sessionVars, target, isStart, view, managerVars, jobs,
                 phase, snapshot, halted>>

DisconnectTell(s) ==
  /\ ~halted
  /\ leaving[s] = "left"
  /\ view' = ToldOfLeave(target[s], player[s])
  /\ jobs' = DeleteIfEmpty(target[s], jobs)
  /\ leaving' = [leaving EXCEPT ![s] = "out"]
  /\ UNCHANGED <<sessionVars, target, members, roomOf, isStart, emptied,
                 managerVars, phase, snapshot, halted>>

(* The RoomRef is let go, and player.store(nullptr).                       *)
DisconnectDone(s) ==
  /\ ~halted
  /\ leaving[s] = "out"
  /\ leaving' = [leaving EXCEPT ![s] = "done"]
  /\ target' = [target EXCEPT ![s] = None]
  /\ player' = [player EXCEPT ![s] = None]
  /\ UNCHANGED <<requests, handler, owner, roomOf, isStart, view, emptied,
                 managerVars, jobs, phase, snapshot, halted>>
  /\ IF target[s] = None THEN UNCHANGED members ELSE LetGo(target[s])

(* Two threads in the unordered_map of one room: besides what the steps    *)
(* do in some order, the build can die in it.                              *)
InRoom(s, r) == leaving[s] \in {"inside", "left"} /\ target[s] = r

Collide(r) ==
  /\ ~halted
  /\ \E s \in Sessions :
       /\ InRoom(s, r)
       /\ phase[r] # "idle" \/ \E u \in Sessions \ {s} : InRoom(u, r)
  /\ halted' = TRUE
  /\ UNCHANGED <<sessionVars, leaveVars, roomVars, managerVars, jobs, phase,
                 snapshot>>

-----------------------------------------------------------------------------
RoomStep(r) == BeginJob(r) \/ RunRoom(r)
HandlerStep(s) == PostJoin(s) \/ PostToRoom(s)
DisconnectStep(s) == DisconnectLeave(s) \/ DisconnectTell(s) \/ DisconnectDone(s)

Next ==
  \/ RunManager
  \/ \E r \in Rooms : RoomStep(r) \/ Collide(r)
  \/ \E s \in Sessions :
       Receive(s) \/ HandlerStep(s) \/ DisconnectLook(s) \/ DisconnectStep(s)

Spec == Init /\ [][Next]_vars

(* Queues run their jobs and calls that have begun end; nothing makes a    *)
(* client send or drop.                                                    *)
Fairness ==
  /\ WF_vars(RunManager)
  /\ \A r \in Rooms : WF_vars(RoomStep(r))
  /\ \A s \in Sessions : WF_vars(HandlerStep(s)) /\ WF_vars(DisconnectStep(s))

FairSpec == Spec /\ Fairness

-----------------------------------------------------------------------------
(* Jobs that will still try to bring player p into a room.                 *)
Joining(p) ==
  \E q \in Queues : \E i \in DOMAIN jobs[q] :
    /\ jobs[q][i].kind \in {"inside", "create", "host", "enter"}
    /\ jobs[q][i].player = p

(* Leaves that have been asked for and not carried out.                    *)
LeaveAsked(p) ==
  \/ \E r \in Rooms : \E i \in DOMAIN jobs[r] :
       jobs[r][i].kind = "leave" /\ jobs[r][i].player = p
  \/ \E s \in Sessions : handler[s].kind = "leave" /\ handler[s].player = p

(* A player in a room whose session has been through OnDisconnected.       *)
Ghost(p, r) ==
  /\ p \in members[r]
  /\ leaving[owner[p]] = "done"
  /\ player[owner[p]] # p
  /\ ~LeaveAsked(p)

(* A room that clients can find and that nobody has asked to delete.       *)
Open(r) ==
  /\ r \in rooms
  /\ \A i \in DOMAIN jobs[GRoom] :
       ~(jobs[GRoom][i].kind = "delete" /\ jobs[GRoom][i].room = r)

(* A session with a player that is in no room and not on its way to one.   *)
Stuck(s) ==
  /\ player[s] # None
  /\ LockRoom(player[s]) = None
  /\ ~Joining(player[s])

(* Every variable has its type.                                            *)
TypeOK ==
  /\ requests \in 0 .. MaxRequests
  /\ player \in [Sessions -> Players \cup {None}]
  /\ owner \in Seq(Sessions) /\ Len(owner) <= MaxPlayers
  /\ roomOf \in [Players -> Rooms \cup {None}]
  /\ created \in 0 .. MaxRooms
  /\ rooms \subseteq 1 .. created
  /\ members \in [Rooms -> SUBSET Players]
  /\ isStart \in [Rooms -> BOOLEAN]
  /\ phase \in [Rooms -> {"idle", "begun", "hosting", "entered", "listed",
                           "left"}]
  /\ snapshot \in [Rooms -> SUBSET Players]
  /\ view \in [Players -> SUBSET Players]
  /\ leaving \in [Sessions -> {"no", "inside", "left", "out", "done"}]
  /\ target \in [Sessions -> Rooms \cup {None}]
  /\ halted \in BOOLEAN
  /\ emptied \subseteq Rooms

(* Player::room and Room::_players name each other, although both are      *)
(* changed by two threads and rooms go when their last reference does: a   *)
(* player is in the room that locking its weak pointer gives, in no other, *)
(* and in none when the pointer is empty or has expired.                   *)
MembershipAgrees ==
  /\ TypeOK
  /\ \A r \in Rooms, p \in Players : p \in members[r] <=> LockRoom(p) = r

(* Everybody in a room has been told of everybody else in it, except of    *)
(* the player whose entry the room is still running.                       *)
MembersAreKnown ==
  \A r \in Rooms : \A p, q \in members[r] :
    \/ q \in view[p]
    \/ /\ phase[r] \in {"hosting", "entered", "listed"}
       /\ Head(jobs[r]).player \in {p, q}

(* Whoever a client wrongly believes to be in its room is the player of a  *)
(* session that OnDisconnected has begun with: as long as nobody's         *)
(* connection ends, every leave that the queue runs reaches every client.  *)
StaleViewsComeFromDisconnect ==
  \A r \in Rooms : \A p \in members[r] : \A q \in view[p] \ members[r] :
    \/ leaving[owner[q]] # "no"
    \/ phase[r] = "left" /\ Head(jobs[r]).player = q

(* A room leaves _rooms only after a leaving player left it empty.         *)
OnlyEmptiedRoomsAreDeleted ==
  \A r \in 1 .. created : r \in rooms \/ r \in emptied

(* OnDisconnected that found the player in a room gets it out for good,    *)
(* whatever jobs the room still has for it.  (Packets that move the player *)
(* are not among them here: RoomPlay has those, and what they can do to    *)
(* OnDisconnected.)                                                        *)
DisconnectedPlayersAreOut ==
  \A s \in Sessions : leaving[s] = "out" /\ target[s] # None
    => \A r \in Rooms : player[s] \notin members[r]

(* A player that came in after its session's OnDisconnected, into a room   *)
(* nobody has asked to delete, stays there for ever and keeps the room:    *)
(* nothing is left that could take it out, and no leave of another player  *)
(* finds the room empty any more.                                          *)
GhostKeepsItsRoom ==
  [][\A r \in Rooms, p \in Players :
       Ghost(p, r) /\ Open(r) => (Ghost(p, r) /\ Open(r))']_vars

(* A session whose player is in no room and on its way to none stays like  *)
(* that until it disconnects: the player is never reset by a leave or a    *)
(* failed entry, and a session with a player may not join.                 *)
StuckUntilDisconnect ==
  [][\A s \in Sessions : Stuck(s) => Stuck(s)' \/ leaving'[s] = "done"]_vars

(* A room that a leaving player left empty is taken out of _rooms, unless  *)
(* somebody has come in again meanwhile.                                   *)
EmptyRoomIsDeleted ==
  \A r \in Rooms :
    r \in emptied /\ members[r] = {} ~> r \notin rooms \/ members[r] # {} \/ halted
=============================================================================
