------------------------------ MODULE RoomPlay ------------------------------
(***************************************************************************)
(* What goes on in one room: where its players are and what their clients  *)
(* have been told of it, from the entry of the host on.  The room runs its *)
(* jobs one at a time (SerialQueue); packet handlers post them, and        *)
(* OnDisconnected works on the room beside them.  Clients are as the code  *)
(* of CapstoneMyPlayer makes them: they send their place again and again,  *)
(* and go where S_ENTER_GAME, S_GAME_START and S_GAME_END put them once    *)
(* they have received it.  Rooms that come and go are in GameRooms.        *)
(***************************************************************************)
EXTENDS Integers, Sequences, FiniteSets

CONSTANTS
  Players,      \* players, each of them with a session of its own
  Host,         \* the one that creates the room
  SpawnPoints,  \* size of _spawnPoint
  MaxJobs,      \* bound: jobs that wait in the room
  MaxRequests,  \* bound: starts and ends of the game, leaves and switches
  MaxDrops      \* bound: sessions that end

ASSUME PlayAssumption ==
  /\ IsFiniteSet(Players) /\ Host \in Players
  /\ SpawnPoints \in Nat \ {0}
  /\ MaxJobs \in Nat /\ MaxRequests \in Nat /\ MaxDrops \in Nat

(* Places are told apart as far as the room does: its start points, the    *)
(* stage (one and two are alike here), what is read outside of the table,  *)
(* and none.                                                               *)
Points == 0 .. SpawnPoints - 1
Stage == SpawnPoints
Wild == SpawnPoints + 1
Nowhere == -1
Places == Points \cup {Stage, Wild, Nowhere}

VARIABLES
  asked,     \* players that have asked to come in
  requests,  \* packets handled, C_MOVE left out
  members,   \* Room::_players
  isStart,   \* Room::_isStart
  home,      \* Player::startX, startY, startZ
  pos,       \* the place in Player::objectInfo
  jobs,      \* the jobs of the room; the head may be running
  phase,     \* how far it is
  link,      \* the session: up, closed, or gone (its weak_ptr has expired)
  told,      \* where the client of p has been told that q is
  mail,      \* places the client has been sent to and not gone to yet
  at,        \* where the client of p is
  light,     \* clients that have their light on
  lit,       \* whose light is on for the client of p
  halted,    \* the process has died
  heard,     \* history: whose light p has heard of since it came in
  welcome,   \* history: players that came in with their session up
  torn,      \* history: players that OnDisconnected did not find
  anyLeft    \* history: somebody has left the room

roomVars == <<members, isStart, home, pos>>
clientVars == <<told, mail, at, light, lit>>
historyVars == <<heard, welcome, torn, anyLeft>>
vars == <<asked, requests, roomVars, jobs, phase, link, clientVars, halted,
          historyVars>>

Job(kind, p, value) == [kind |-> kind, player |-> p, value |-> value]

Init ==
  /\ asked = {Host} /\ requests = 0
  /\ members = {} /\ isStart = FALSE
  /\ home = [p \in Players |-> Nowhere]
  /\ pos = [p \in Players |-> Nowhere]
  /\ jobs = <<Job("host", Host, 0)>> /\ phase = "idle"
  /\ link = [p \in Players |-> "up"]
  /\ told = [p \in Players |-> [q \in Players |-> Nowhere]]
  /\ mail = [p \in Players |-> <<>>]
  /\ at = [p \in Players |-> Nowhere]
  /\ light = {} /\ lit = [p \in Players |-> {}]
  /\ halted = FALSE
  /\ heard = [p \in Players |-> {}]
  /\ welcome = {} /\ torn = {} /\ anyLeft = FALSE

-----------------------------------------------------------------------------
(* DoAsync.                                                                *)
Post(job) == Len(jobs) < MaxJobs /\ jobs' = Append(jobs, job)

(* The RoomManager posts the entry of a player that has asked for the room.*)
AskIn(p) ==
  /\ p \notin asked
  /\ asked' = asked \cup {p}
  /\ Post(Job("enter", p, 0))
  /\ UNCHANGED <<requests, roomVars, phase, link, clientVars, halted,
                 historyVars>>

(* A client that has been let in is somewhere, and its packets are handled *)
(* as long as Player::room names the room.                                 *)
InGame(p) == p \in members /\ link[p] = "up" /\ at[p] # Nowhere

(* Bound: the packets that are counted.                                    *)
Count == requests < MaxRequests /\ requests' = requests + 1

(* SendSyncMove, with the place the client is at, and Handle_MOVE.         *)
SendMove(p) ==
  /\ InGame(p)
  /\ Post(Job("move", p, at[p]))
  /\ UNCHANGED <<asked, requests, roomVars, phase, link, clientVars, halted,
                 historyVars>>

(* TurnRight and Handle_ACTION_HAND_LIGHT: the packet has the new state.   *)
SwitchLight(p) ==
  /\ InGame(p)
  /\ Count
  /\ light' = IF p \in light THEN light \ {p} ELSE light \cup {p}
  /\ Post(Job("light", p, p \in light'))
  /\ UNCHANGED <<asked, roomVars, phase, link, told, mail, at, lit, halted,
                 historyVars>>

(* Handle_GAME_START; STAGE_NULL changes nothing and is left out.          *)
AskStart(p) ==
  /\ InGame(p)
  /\ Count
  /\ Post(Job("start", p, 0))
  /\ UNCHANGED <<asked, roomVars, phase, link, clientVars, halted,
                 historyVars>>

(* Handle_GAME_END.                                                        *)
AskEnd(p) ==
  /\ InGame(p)
  /\ Count
  /\ Post(Job("end", p, 0))
  /\ UNCHANGED <<asked, roomVars, phase, link, clientVars, halted,
                 historyVars>>

(* Handle_LEAVE_GAME.                                                      *)
AskLeave(p) ==
  /\ InGame(p)
  /\ Count
  /\ Post(Job("leave", p, 0))
  /\ UNCHANGED <<asked, roomVars, phase, link, clientVars, halted,
                 historyVars>>

(* The client goes where the next packet puts it.                          *)
Obey(p) ==
  /\ mail[p] # <<>>
  /\ link[p] = "up"
  /\ at' = [at EXCEPT ![p] = Head(mail[p])]
  /\ mail' = [mail EXCEPT ![p] = Tail(@)]
  /\ UNCHANGED <<asked, requests, roomVars, jobs, phase, link, told, light,
                 lit, halted, historyVars>>

-----------------------------------------------------------------------------
(* session.lock(): who a packet for these players goes to.                 *)
Receivers(group) == {p \in group : link[p] # "gone"}

(* Everybody in the group is told where q is.                              *)
TellPlace(t, group, q, place) ==
  [p \in Players |->
     IF p \in Receivers(group) /\ q \in members
     THEN [t[p] EXCEPT ![q] = place] ELSE t[p]]

(* The group is sent to places, each to its own.                           *)
SendTo(group, place) ==
  [p \in Players |->
     IF p \in Receivers(group) THEN Append(mail[p], place[p]) ELSE mail[p]]

EndJob == jobs' = Tail(jobs) /\ phase' = "idle"

(* LeavePlayer: out of _players.  (Variant: only Player::room is reset.)   *)
StayIn(p) == members
TakenOut(p) == members \ {p}

(* Leave: out of the room, S_LEAVE_GAME and S_DESPAWN; what the client of  *)
(* the player thinks matters no longer.                                    *)
Leave(p) ==
  /\ members' = TakenOut(p)
  /\ home' = [home EXCEPT ![p] = Nowhere]
  /\ pos' = [pos EXCEPT ![p] = Nowhere]
  /\ told' = [q \in Players |->
                IF q = p THEN [r \in Players |-> Nowhere]
                         ELSE [told[q] EXCEPT ![p] = Nowhere]]
  /\ mail' = [mail EXCEPT ![p] = <<>>]
  /\ at' = [at EXCEPT ![p] = Nowhere]
  /\ light' = light \ {p}
  /\ lit' = [q \in Players |-> IF q = p THEN {} ELSE lit[q] \ {p}]
  /\ heard' = [q \in Players |-> IF q = p THEN {} ELSE heard[q] \ {p}]
  /\ anyLeft' = TRUE

-----------------------------------------------------------------------------
(* HandleEnterHostPlayer and HandleEnterPlayer: EnterPlayer ...            *)
Enter(p) ==
  /\ phase = "idle"
  /\ IF ~isStart /\ p \notin members
     THEN /\ members' = members \cup {p}
          /\ welcome' = IF link[p] = "up" THEN welcome \cup {p} ELSE welcome
          /\ phase' = "entered"
          /\ UNCHANGED jobs
     ELSE EndJob /\ UNCHANGED <<members, welcome>>
  /\ UNCHANGED <<isStart, home, pos, clientVars, halted, heard, torn, anyLeft>>

(* ... the size of _players is read again, less one.  (Variants: less      *)
(* nothing; everybody gets the first point.)                               *)
CountAll == Cardinality(members)
FirstPoint == 0
StartIndex == Cardinality(members) - 1

(* A read outside of _spawnPoint ends a debug build; a release build goes  *)
(* on with what is there.                                                  *)
StartPlace == IF StartIndex \in Points THEN StartIndex ELSE Wild

EnterDies ==
  /\ phase = "entered"
  /\ StartPlace = Wild
  /\ halted' = TRUE
  /\ UNCHANGED <<roomVars, jobs, phase, clientVars, historyVars>>

(* ... the player is put there and told so (its client comes to life there *)
(* with S_ENTER_GAME, before it does anything else), the others are told   *)
(* of it, and it is told of all of them.  A player that has been taken out *)
(* meanwhile is told, too, but takes no part any more.                     *)
EnterTold(p) ==
  /\ phase = "entered"
  /\ IF p \in members
     THEN /\ home' = [home EXCEPT ![p] = StartPlace]
          /\ pos' = [pos EXCEPT ![p] = StartPlace]
          /\ told' = [TellPlace(told, members \ {p}, p, StartPlace)
                        EXCEPT ![p] = IF p \in Receivers(members)
                                      THEN [q \in Players |-> pos'[q]] ELSE @]
          /\ at' = IF link[p] = "up" THEN [at EXCEPT ![p] = StartPlace] ELSE at
     ELSE UNCHANGED <<home, pos, told, at>>
  /\ EndJob
  /\ UNCHANGED <<members, isStart, mail, light, lit, halted, historyVars>>

(* HandleLeavePlayer.                                                      *)
LeaveJob(p) ==
  /\ IF p \in members
     THEN Leave(p) /\ UNCHANGED <<welcome, torn>>
     ELSE UNCHANGED <<members, home, pos, clientVars, historyVars>>
  /\ EndJob
  /\ UNCHANGED <<isStart, halted>>

(* The group is put to places, and everybody is told of it.                *)
PutAll(group, place) ==
  /\ pos' = [p \in Players |-> IF p \in group THEN place[p] ELSE pos[p]]
  /\ told' = [p \in Players |->
                IF p \in Receivers(members)
                THEN [q \in Players |->
                        IF q \in group THEN place[q] ELSE told[p][q]]
                ELSE told[p]]

(* StageStart: everybody is put on the stage.                              *)
StageStart ==
  /\ isStart' = TRUE
  /\ PutAll(members, [p \in Players |-> Stage])
  /\ mail' = SendTo(members, [p \in Players |-> Stage])
  /\ EndJob
  /\ UNCHANGED <<members, home, at, light, lit, halted, historyVars>>

(* HandleGameEnd: whoever has a session is put back to its start point.    *)
Back == Receivers(members)

GameEnd ==
  /\ isStart' = FALSE
  /\ PutAll(Back, home)
  /\ mail' = SendTo(members, home)
  /\ EndJob
  /\ UNCHANGED <<members, home, at, light, lit, halted, historyVars>>

(* PlayerMove: SetObjectInfo copies what the client has sent; while it     *)
(* does, the object id of the player may be read as 0 ...                  *)
MoveBegun(p, place) ==
  /\ phase = "idle"
  /\ IF p \in members
     THEN pos' = [pos EXCEPT ![p] = place] /\ phase' = "copying"
            /\ UNCHANGED jobs
     ELSE EndJob /\ UNCHANGED pos
  /\ UNCHANGED <<members, isStart, home, clientVars, halted, historyVars>>

(* ... and S_MOVE goes to everybody.  (Variant: not to those that have not *)
(* gone yet where they were sent to.)                                      *)
Settled == {p \in members : mail[p] = <<>>}
MoveGroup == members

MoveTold(p, place) ==
  /\ phase = "copying"
  /\ told' = TellPlace(told, MoveGroup, p, place)
  /\ EndJob
  /\ UNCHANGED <<roomVars, mail, at, light, lit, halted, historyVars>>

(* A light is on or off as the packet says.  (Variant: it is switched.)    *)
LightSwitched(l, q, on) == IF q \in l THEN l \ {q} ELSE l \cup {q}
LightSet(l, q, on) == IF on THEN l \cup {q} ELSE l \ {q}

(* ActionRightOn: CheckPlayer, and the others are told.                    *)
RightOn(q, on) ==
  /\ LET group == IF q \in members THEN Receivers(members \ {q}) ELSE {}
     IN  /\ lit' = [p \in Players |->
                      IF p \in group THEN LightSet(lit[p], q, on) ELSE lit[p]]
         /\ heard' = [p \in Players |->
                        IF p \in group THEN heard[p] \cup {q} ELSE heard[p]]
  /\ EndJob
  /\ UNCHANGED <<roomVars, told, mail, at, light, halted, welcome, torn,
                 anyLeft>>

RunJob ==
  /\ jobs # <<>>
  /\ LET kind == Head(jobs).kind
         p == Head(jobs).player
         value == Head(jobs).value
     IN  \/ kind \in {"host", "enter"} /\ (Enter(p) \/ EnterTold(p))
         \/ kind \in {"host", "enter"} /\ EnterDies
         \/ kind = "leave" /\ LeaveJob(p)
         \/ kind = "start" /\ StageStart
         \/ kind = "end" /\ GameEnd
         \/ kind = "move" /\ (MoveBegun(p, value) \/ MoveTold(p, value))
         \/ kind = "light" /\ RightOn(p, value)
  /\ UNCHANGED <<asked, requests, link>>

-----------------------------------------------------------------------------
(* OnDisconnected on the thread of the completion: HandleLeavePlayer looks *)
(* for the player by its object id, and finds nobody when it reads the id  *)
(* while it is copied.                                                     *)
Torn(p) == phase = "copying" /\ Head(jobs).player = p

OnDisconnected(p) ==
  /\ link[p] = "up"
  /\ p \in asked
  /\ Cardinality({q \in Players : link[q] # "up"}) < MaxDrops
  /\ link' = [link EXCEPT ![p] = "closed"]
  /\ \/ /\ p \in members
        /\ Leave(p)
        /\ UNCHANGED torn
     \/ /\ p \in members => Torn(p)
        /\ torn' = IF p \in members THEN torn \cup {p} ELSE torn
        /\ UNCHANGED <<members, home, pos, clientVars, heard, anyLeft>>
  /\ UNCHANGED <<asked, requests, isStart, jobs, phase, halted, welcome>>

(* The last reference to the session is let go of.  Nobody asks for it     *)
(* when the player is out of the room.                                     *)
Expire(p) ==
  /\ link[p] = "closed"
  /\ p \in members
  /\ link' = [link EXCEPT ![p] = "gone"]
  /\ UNCHANGED <<asked, requests, roomVars, jobs, phase, clientVars, halted,
                 historyVars>>

-----------------------------------------------------------------------------
Next ==
  /\ ~halted
  /\ \/ RunJob
     \/ \E p \in Players :
          \/ AskIn(p) \/ SendMove(p) \/ SwitchLight(p) \/ AskStart(p)
          \/ AskEnd(p) \/ AskLeave(p) \/ Obey(p) \/ OnDisconnected(p) \/ Expire(p)

Spec == Init /\ [][Next]_vars

-----------------------------------------------------------------------------
(* The player that the running job is about.                               *)
Running(p) == phase # "idle" /\ Head(jobs).player = p

LightWaits(p) ==
  \E i \in DOMAIN jobs : jobs[i].kind = "light" /\ jobs[i].player = p

(* Every variable has its type.                                            *)
TypeOK ==
  /\ asked \subseteq Players /\ requests \in 0 .. MaxRequests
  /\ members \subseteq asked /\ isStart \in BOOLEAN
  /\ home \in [Players -> Points \cup {Wild, Nowhere}]
  /\ pos \in [Players -> Places]
  /\ \A i \in DOMAIN jobs : jobs[i].player \in asked
  /\ phase \in {"idle", "entered", "copying"}
  /\ link \in [Players -> {"up", "closed", "gone"}]
  /\ told \in [Players -> [Players -> Places]]
  /\ \A p \in Players : mail[p] \in Seq(Places) /\ heard[p] \subseteq Players
  /\ at \in [Players -> Places]
  /\ light \subseteq Players /\ lit \in [Players -> SUBSET Players]
  /\ halted \in BOOLEAN /\ anyLeft \in BOOLEAN
  /\ welcome \subseteq Players /\ torn \subseteq Players

(* Every client has been told the place the server has for every member,   *)
(* whatever S_SPAWN, S_MOVE, S_GAME_START and S_GAME_END it was told by    *)
(* and although members without a session are left out of the end of the   *)
(* game; only the player the room is at work on may differ.                *)
PositionsAgree ==
  /\ TypeOK
  /\ \A p, q \in members :
       p # q /\ link[p] = "up" /\ ~Running(p) /\ ~Running(q)
         => told[p][q] = pos[q]

(* Lights are told of but not kept by the server.  Whoever has heard of a  *)
(* light since it came in sees it as it is, once the room has no more news *)
(* of it; and whoever has not sees it off, also when it is on.             *)
LightsAgree ==
  \A p, q \in members :
    p # q /\ link[p] = "up" /\ link[q] = "up" /\ ~LightWaits(q) =>
      (q \in lit[p] <=> q \in light /\ q \in heard[p])

(* As long as nobody has left and there are no more players than points,   *)
(* each has a start point of its own and no read is out of the table.      *)
(* After that two may share one, the size less one may be less than zero,  *)
(* and there may be too many.                                              *)
StartPointsAreOwn ==
  /\ ~anyLeft /\ Cardinality(members) <= SpawnPoints =>
       /\ ~halted
       /\ \A p, q \in members :
            ~Running(p) => home[p] \in Points /\ (home[p] = home[q] => p = q)
  /\ halted => Cardinality(members) > SpawnPoints \/ members = {}

(* A player that came in while its session was up is out of the room once  *)
(* the session has ended, unless OnDisconnected read its object id while a *)
(* C_MOVE was being copied over it: then the player stays.                 *)
DisconnectedAreOut ==
  \A p \in welcome \ torn : link[p] # "up" => p \notin members
=============================================================================
