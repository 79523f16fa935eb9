--------------------------- MODULE RoomPlayProofs ---------------------------
(***************************************************************************)
(* The safety properties of RoomPlay for any finite set of players, any    *)
(* number of start points and any bounds.  The invariant says of a player  *)
(* that has not come in yet that it is nowhere, so that it comes in once;  *)
(* the rest follows places, lights and start points through one job after  *)
(* the other, and what OnDisconnected may do between two steps of a job.   *)
(***************************************************************************)
EXTENDS RoomPlay, FiniteSetTheorems, TLAPS

EntryKinds == {"host", "enter"}

JobSet ==
  [kind : EntryKinds \cup {"leave", "start", "end"}, player : Players,
   value : {0}]
  \cup [kind : {"move"}, player : Players, value : Places]
  \cup [kind : {"light"}, player : Players, value : BOOLEAN]

Types ==
  /\ TypeOK
  /\ jobs \in Seq(JobSet)
  /\ mail \in [Players -> Seq(Places)]
  /\ heard \in [Players -> SUBSET Players]

(* How far a job is agrees with what it is.                                *)
PhaseFits ==
  /\ phase # "idle" => jobs # <<>>
  /\ phase = "entered" => Head(jobs).kind \in EntryKinds
  /\ phase = "copying" => Head(jobs).kind = "move"

(* Jobs that bring a player in; each player has one at most.               *)
Entry(i, p) == jobs[i].kind \in EntryKinds /\ jobs[i].player = p
OneEntry ==
  \A p \in Players : \A i, k \in DOMAIN jobs : Entry(i, p) /\ Entry(k, p)
    => i = k

(* A player that has not come in yet is nowhere, and asks for nothing.     *)
Waits(i, p) == Entry(i, p) /\ ~(i = 1 /\ phase = "entered")
Unborn(p) == p \notin asked \/ \E i \in DOMAIN jobs : Waits(i, p)
NotYet ==
  \A p \in Players : Unborn(p) =>
    /\ p \notin members \cup welcome \cup light
    /\ home[p] = Nowhere
    /\ heard[p] = {} /\ lit[p] = {}
    /\ \A q \in Players : p \notin heard[q] /\ p \notin lit[q]
    /\ \A i \in DOMAIN jobs : jobs[i].player = p => Entry(i, p)

(* What clients have been told of places, the job in progress apart.       *)
Entering(p) == phase = "entered" /\ Head(jobs).player = p
PlacesAgree ==
  /\ \A p, q \in members :
       p # q /\ link[p] = "up" /\ ~Entering(p) /\ ~Running(q)
         => told[p][q] = pos[q]
  /\ phase = "copying" /\ Head(jobs).player \in members
       => pos[Head(jobs).player] = Head(jobs).value

(* The last news of a light that waits is what its client has done.        *)
LightJob(i, q) == jobs[i].kind = "light" /\ jobs[i].player = q
LastNews ==
  \A q \in members : \A i \in DOMAIN jobs :
    /\ LightJob(i, q)
    /\ \A k \in DOMAIN jobs : LightJob(k, q) => k <= i
    => (jobs[i].value = TRUE <=> q \in light)

(* As long as nobody has left, start points are given out from zero on.    *)
Placed == {p \in members : ~Entering(p)}
PointsInTurn ==
  /\ phase = "entered" => home[Head(jobs).player] = Nowhere
  /\ ~anyLeft => /\ phase = "entered" => Head(jobs).player \in members
                 /\ Cardinality(members) <= SpawnPoints =>
                      /\ ~halted
                      /\ \A p \in Placed : home[p] \in 0 .. Cardinality(Placed) - 1
                      /\ \A p, q \in Placed : home[p] = home[q] => p = q
  /\ halted => Cardinality(members) > SpawnPoints \/ members = {}

(* The inductive invariant.                                                *)
IInv ==
  /\ Types /\ PhaseFits /\ OneEntry /\ NotYet
  /\ PlacesAgree /\ LastNews /\ LightsAgree /\ PointsInTurn
  /\ DisconnectedAreOut

-----------------------------------------------------------------------------
(* Start points, the stage and the rest are places.                        *)
LEMMA PlaceFacts ==
  /\ Points \subseteq Places
  /\ Stage \in Places /\ Wild \in Places /\ Nowhere \in Places
  /\ StartPlace \in Points \cup {Wild}
BY DEF Places, StartPlace

(* A job at the end of the queue.                                          *)
LEMMA AppendFacts ==
  ASSUME jobs \in Seq(JobSet), NEW j \in JobSet, jobs' = Append(jobs, j)
  PROVE  /\ jobs' \in Seq(JobSet) /\ jobs' # <<>>
         /\ Len(jobs) \in Nat /\ DOMAIN jobs = 1 .. Len(jobs)
         /\ DOMAIN jobs' = 1 .. Len(jobs) + 1
         /\ \A i \in DOMAIN jobs : jobs'[i] = jobs[i]
         /\ jobs'[Len(jobs) + 1] = j
         /\ jobs # <<>> => Head(jobs') = Head(jobs)
OBVIOUS

(* The end of a job.                                                       *)
LEMMA TailFacts ==
  ASSUME jobs \in Seq(JobSet), jobs # <<>>, jobs' = Tail(jobs)
  PROVE  /\ jobs' \in Seq(JobSet)
         /\ Len(jobs) \in Nat \ {0} /\ DOMAIN jobs = 1 .. Len(jobs)
         /\ DOMAIN jobs' = 1 .. Len(jobs) - 1
         /\ \A i \in DOMAIN jobs' : i + 1 \in DOMAIN jobs
                                      /\ jobs'[i] = jobs[i + 1]
OBVIOUS

(* What the head of the queue is.                                          *)
Runner == Head(jobs).player
News == Head(jobs).value

(* The head of the queue, and who and what it is about.                    *)
LEMMA HeadFacts ==
  ASSUME jobs \in Seq(JobSet), jobs # <<>>
  PROVE  /\ Head(jobs) \in JobSet /\ Head(jobs) = jobs[1] /\ 1 \in DOMAIN jobs
         /\ Runner \in Players
         /\ Head(jobs).kind = "move" => News \in Places
         /\ Head(jobs).kind = "light" => News \in BOOLEAN
<1>1. Head(jobs) \in JobSet /\ Head(jobs) = jobs[1] /\ 1 \in DOMAIN jobs
  OBVIOUS
<1> QED
  BY <1>1 DEF JobSet, Runner, News, EntryKinds

(* The jobs that handlers post.                                            *)
LEMMA JobIs ==
  ASSUME NEW p \in Players
  PROVE  /\ \A k \in {"host", "enter", "leave", "start", "end"} :
              Job(k, p, 0) \in JobSet
         /\ \A v \in Places : Job("move", p, v) \in JobSet
         /\ \A v \in BOOLEAN : Job("light", p, v) \in JobSet
         /\ \A k, v : /\ Job(k, p, v).kind = k
                      /\ Job(k, p, v).player = p
                      /\ Job(k, p, v).value = v
BY DEF Job, JobSet, EntryKinds

-----------------------------------------------------------------------------
(* A step of the room's job, whichever it is.                              *)
Runs(kinds) ==
  /\ jobs # <<>>
  /\ Head(jobs).kind \in kinds
  /\ UNCHANGED <<asked, requests, link>>

(* The steps of a job by its kind.                                         *)
LEMMA RunCases ==
  ASSUME RunJob
  PROVE  \/ Runs(EntryKinds)
              /\ (Enter(Runner) \/ EnterTold(Runner) \/ EnterDies)
         \/ Runs({"leave"}) /\ LeaveJob(Runner)
         \/ Runs({"start"}) /\ StageStart
         \/ Runs({"end"}) /\ GameEnd
         \/ Runs({"move"})
           /\ (MoveBegun(Runner, News) \/ MoveTold(Runner, News))
         \/ Runs({"light"}) /\ RightOn(Runner, News)
BY DEF RunJob, Runs, EntryKinds, Runner, News

(* The forms a step can take, as far as the invariant is concerned: a      *)
(* handler posts a job of p, ...                                           *)
Posts(p, j) ==
  /\ j \in JobSet /\ j.player = p
  /\ jobs' = Append(jobs, j)
  /\ IF j.kind \in EntryKinds
     THEN p \notin asked /\ asked' = asked \cup {p}
     ELSE p \in members /\ UNCHANGED asked
  /\ IF j.kind = "light"
     THEN /\ \A q \in Players : q # p => (q \in light' <=> q \in light)
          /\ j.value = TRUE <=> p \in light'
     ELSE UNCHANGED light
  /\ UNCHANGED <<roomVars, phase, link, told, lit, halted, historyVars>>

(* ... a client obeys, a session ends that has no player in the room, or   *)
(* expires, ...                                                            *)
Quiet ==
  /\ UNCHANGED <<asked, roomVars, jobs, phase, told, light, lit, halted,
                 heard, welcome, anyLeft>>
  /\ torn \subseteq torn'
  /\ \A q \in Players :
       /\ link'[q] = "up" => link[q] = "up"
       /\ link'[q] # "up" => link[q] # "up" \/ q \notin members \/ q \in torn'

EndsJob == jobs # <<>> /\ jobs' = Tail(jobs) /\ phase' = "idle"

(* ... p leaves, by OnDisconnected or by a job, ...                        *)
Leaves(p) ==
  /\ p \in members /\ Leave(p)
  /\ UNCHANGED <<asked, isStart, halted, welcome, torn>>
  /\ \/ UNCHANGED <<jobs, phase>> /\ link' = [link EXCEPT ![p] = "closed"]
     \/ /\ EndsJob /\ phase = "idle" /\ Head(jobs).kind = "leave"
        /\ UNCHANGED link

(* ... a job ends that has nothing to do any more, ...                     *)
Drops ==
  /\ EndsJob
  /\ Head(jobs).kind # "light"
  /\ phase # "idle" => Runner \notin members
  /\ UNCHANGED <<asked, roomVars, link, told, light, lit, halted, historyVars>>

(* ... a player comes in, ...                                              *)
ComesIn ==
  /\ jobs # <<>> /\ UNCHANGED jobs
  /\ Head(jobs).kind \in EntryKinds
  /\ phase = "idle" /\ phase' = "entered"
  /\ Runner \notin members
  /\ members' = members \cup {Runner}
  /\ welcome' = IF link[Runner] = "up" THEN welcome \cup {Runner} ELSE welcome
  /\ UNCHANGED <<asked, isStart, home, pos, link, told, light, lit, halted,
                 heard, torn, anyLeft>>

(* ... a read outside of the table, ...                                    *)
Dies ==
  /\ phase = "entered" /\ StartPlace = Wild
  /\ halted' = TRUE
  /\ UNCHANGED <<asked, roomVars, jobs, phase, link, told, light, lit,
                 historyVars>>

(* ... a player is put to its start point and everybody told of it, ...    *)
IsTold ==
  /\ EndsJob /\ phase = "entered" /\ Runner \in members
  /\ home' = [home EXCEPT ![Runner] = StartPlace]
  /\ pos' = [pos EXCEPT ![Runner] = StartPlace]
  /\ told' = [TellPlace(told, members \ {Runner}, Runner, StartPlace)
                EXCEPT ![Runner] = IF Runner \in Receivers(members)
                                   THEN [q \in Players |-> pos'[q]] ELSE @]
  /\ UNCHANGED <<asked, members, isStart, link, light, lit, halted,
                 historyVars>>

(* ... the game starts or ends, ...                                        *)
Puts(group, place) ==
  /\ EndsJob /\ phase = "idle" /\ Head(jobs).kind \in {"start", "end"}
  /\ PutAll(group, place)
  /\ UNCHANGED <<asked, members, home, link, light, lit, halted, historyVars>>

(* ... a C_MOVE is copied and told of, ...                                 *)
MoveBegins ==
  /\ jobs # <<>> /\ UNCHANGED jobs
  /\ Head(jobs).kind = "move"
  /\ phase = "idle" /\ phase' = "copying"
  /\ Runner \in members
  /\ pos' = [pos EXCEPT ![Runner] = News]
  /\ UNCHANGED <<asked, members, isStart, home, link, told, light, lit, halted,
                 historyVars>>

TellsMove ==
  /\ EndsJob /\ phase = "copying" /\ Head(jobs).kind = "move"
  /\ told' = TellPlace(told, members, Runner, News)
  /\ UNCHANGED <<asked, roomVars, link, light, lit, halted, historyVars>>

(* ... or a light is told of.                                              *)
Hearers == IF Runner \in members THEN Receivers(members \ {Runner}) ELSE {}
TellsLight ==
  /\ EndsJob /\ phase = "idle" /\ Head(jobs).kind = "light"
  /\ lit' = [p \in Players |-> IF p \in Hearers
                               THEN LightSet(lit[p], Runner, News) ELSE lit[p]]
  /\ heard' = [p \in Players |-> IF p \in Hearers
                                 THEN heard[p] \cup {Runner} ELSE heard[p]]
  /\ UNCHANGED <<asked, roomVars, link, told, light, halted, welcome, torn,
                 anyLeft>>

Move ==
  \/ \E p \in Players, j \in JobSet : Posts(p, j)
  \/ Quiet
  \/ \E p \in Players : Leaves(p)
  \/ Drops \/ ComesIn \/ Dies \/ IsTold
  \/ \E group \in SUBSET members, place \in [Players -> Places] :
       Puts(group, place)
  \/ MoveBegins \/ TellsMove \/ TellsLight

(* What handlers post.                                                     *)
LEMMA Postings ==
  ASSUME Types, NEW p \in Players,
         AskIn(p) \/ SendMove(p) \/ SwitchLight(p) \/ AskStart(p)
           \/ AskEnd(p) \/ AskLeave(p)
  PROVE  \E j \in JobSet : Posts(p, j)
<1> USE JobIs DEF Posts, Post, EntryKinds
<1>1. CASE AskIn(p)
  <2> DEFINE j == Job("enter", p, 0)
  <2>1. j \in JobSet /\ Posts(p, j)
    BY <1>1 DEF AskIn, clientVars
  <2> QED  BY <2>1
<1>2. CASE SendMove(p)
  <2> DEFINE j == Job("move", p, at[p])
  <2>1. at[p] \in Places
    BY DEF Types, TypeOK
  <2>2. j \in JobSet /\ Posts(p, j)
    BY <1>2, <2>1 DEF SendMove, InGame, clientVars
  <2> QED  BY <2>2
<1>3. CASE SwitchLight(p)
  <2>0. \E v \in BOOLEAN : v = (p \in light')
    <3>1. CASE p \in light'
      <4>1. TRUE = (p \in light')
        BY <3>1
      <4> QED
        BY <4>1, Zenon
    <3>2. CASE p \notin light'
      <4>1. FALSE = (p \in light')
        BY <3>2
      <4> QED
        BY <4>1, Zenon
    <3> QED
      BY <3>1, <3>2
  <2>1. PICK v \in BOOLEAN : v = (p \in light')
    BY <2>0
  <2> DEFINE j == Job("light", p, v)
  <2>2. /\ j \in JobSet /\ j.kind = "light" /\ j.player = p /\ j.value = v
    OBVIOUS
  <2>3. \A q \in Players : q # p => (q \in light' <=> q \in light)
    BY <1>3 DEF SwitchLight
  <2>4. j.value = TRUE <=> p \in light'
    BY <2>1, <2>2
  <2>5. jobs' = Append(jobs, j)
    BY <1>3, <2>1 DEF SwitchLight
  <2>6. Posts(p, j)
    BY <1>3, <2>2, <2>3, <2>4, <2>5 DEF SwitchLight, InGame
  <2> QED  BY <2>2, <2>6
<1>4. CASE AskStart(p)
  <2> DEFINE j == Job("start", p, 0)
  <2>1. j \in JobSet /\ Posts(p, j)
    BY <1>4 DEF AskStart, InGame, clientVars
  <2> QED  BY <2>1
<1>5. CASE AskEnd(p)
  <2> DEFINE j == Job("end", p, 0)
  <2>1. j \in JobSet /\ Posts(p, j)
    BY <1>5 DEF AskEnd, InGame, clientVars
  <2> QED  BY <2>1
<1>6. CASE AskLeave(p)
  <2> DEFINE j == Job("leave", p, 0)
  <2>1. j \in JobSet /\ Posts(p, j)
    BY <1>6 DEF AskLeave, InGame, clientVars
  <2> QED  BY <2>1
<1> QED
  BY <1>1, <1>2, <1>3, <1>4, <1>5, <1>6

(* What happens beside the queue.                                          *)
LEMMA Besides ==
  ASSUME Types, NEW p \in Players, Obey(p) \/ OnDisconnected(p) \/ Expire(p)
  PROVE  Quiet \/ Leaves(p)
<1>1. CASE Obey(p)
  BY <1>1 DEF Obey, Quiet, historyVars
<1>2. CASE OnDisconnected(p)
  <2>1. CASE p \in members /\ Leave(p) /\ UNCHANGED torn
    BY <1>2, <2>1 DEF OnDisconnected, Leaves
  <2>2. CASE /\ p \in members => Torn(p)
             /\ torn' = IF p \in members THEN torn \cup {p} ELSE torn
             /\ UNCHANGED <<members, home, pos, clientVars, heard, anyLeft>>
    <3>1. \A q \in Players :
            /\ link'[q] = "up" => link[q] = "up"
            /\ link'[q] # "up" =>
                 link[q] # "up" \/ q \notin members \/ q \in torn'
      BY <1>2, <2>2 DEF OnDisconnected, Types, TypeOK
    <3> QED
      BY <1>2, <2>2, <3>1 DEF OnDisconnected, Quiet, clientVars, roomVars
  <2> QED
    BY <1>2, <2>1, <2>2 DEF OnDisconnected
<1>3. CASE Expire(p)
  <2>1. \A q \in Players :
          /\ link'[q] = "up" => link[q] = "up"
          /\ link'[q] # "up" => link[q] # "up"
    BY <1>3 DEF Expire, Types, TypeOK
  <2> QED
    BY <1>3, <2>1 DEF Expire, Quiet, historyVars, clientVars
<1> QED
  BY <1>1, <1>2, <1>3

(* What a job does.                                                        *)
LEMMA JobSteps ==
  ASSUME Types, PhaseFits, RunJob
  PROVE  Move
<1>1. jobs # <<>> /\ Runner \in Players
  BY RunCases, HeadFacts DEF Runs, Types
<1> USE DEF Runs, EndJob, EndsJob, EntryKinds, PhaseFits, roomVars, clientVars,
            historyVars
<1>2. CASE Runs(EntryKinds) /\ Enter(Runner)
  BY <1>1, <1>2 DEF Enter, Move, ComesIn, Drops
<1>3. CASE Runs(EntryKinds) /\ EnterTold(Runner)
  BY <1>1, <1>3 DEF EnterTold, Move, IsTold, Drops
<1>4. CASE Runs(EntryKinds) /\ EnterDies
  BY <1>1, <1>4 DEF EnterDies, Move, Dies
<1>5. CASE Runs({"leave"}) /\ LeaveJob(Runner)
  <2>1. phase = "idle"
    BY <1>5 DEF Types, TypeOK
  <2> QED
    BY <1>1, <1>5, <2>1 DEF LeaveJob, Move, Leaves, Drops
<1>6. CASE Runs({"start"}) /\ StageStart
  <2> DEFINE place == [p \in Players |-> Stage]
  <2>1. phase = "idle" /\ place \in [Players -> Places]
    BY <1>6, PlaceFacts DEF Types, TypeOK
  <2>2. Puts(members, place)
    BY <1>1, <1>6, <2>1 DEF StageStart, Puts
  <2> QED
    BY <2>1, <2>2 DEF Move
<1>7. CASE Runs({"end"}) /\ GameEnd
  <2>1. phase = "idle" /\ home \in [Players -> Places]
    BY <1>7, PlaceFacts DEF Types, TypeOK
  <2>2. Puts(Back, home)
    BY <1>1, <1>7, <2>1 DEF GameEnd, Puts
  <2>3. Back \in SUBSET members
    BY DEF Back, Receivers
  <2> QED
    BY <2>1, <2>2, <2>3 DEF Move
<1>8. CASE Runs({"move"}) /\ MoveBegun(Runner, News)
  BY <1>1, <1>8 DEF MoveBegun, Move, MoveBegins, Drops
<1>9. CASE Runs({"move"}) /\ MoveTold(Runner, News)
  BY <1>1, <1>9 DEF MoveTold, MoveGroup, Move, TellsMove
<1>10. CASE Runs({"light"}) /\ RightOn(Runner, News)
  <2>1. phase = "idle"
    BY <1>10 DEF Types, TypeOK
  <2>2. TellsLight
    BY <1>1, <1>10, <2>1 DEF RightOn, TellsLight, Hearers
  <2> QED
    BY <2>2 DEF Move
<1> QED
  BY RunCases, <1>2, <1>3, <1>4, <1>5, <1>6, <1>7, <1>8, <1>9, <1>10

(* Every step has one of the forms.                                        *)
LEMMA MoveNext ==
  ASSUME Types, PhaseFits, [Next]_vars
  PROVE  Move
<1>1. CASE UNCHANGED vars
  BY <1>1 DEF vars, Move, Quiet, roomVars, clientVars, historyVars
<1>2. CASE RunJob
  BY <1>2, JobSteps
<1>3. ASSUME NEW p \in Players,
             \/ AskIn(p) \/ SendMove(p) \/ SwitchLight(p) \/ AskStart(p)
             \/ AskEnd(p) \/ AskLeave(p)
      PROVE  Move
  BY <1>3, Postings DEF Move
<1>4. ASSUME NEW p \in Players, Obey(p) \/ OnDisconnected(p) \/ Expire(p)
      PROVE  Move
  BY <1>4, Besides DEF Move
<1> QED
  BY <1>1, <1>2, <1>3, <1>4 DEF Next

-----------------------------------------------------------------------------
(* A leave keeps the types.                                                *)
LEMMA LeaveTypes ==
  ASSUME Types, NEW p \in members, Leave(p)
  PROVE  /\ members' \subseteq asked
         /\ home' \in [Players -> Points \cup {Wild, Nowhere}]
         /\ pos' \in [Players -> Places]
         /\ told' \in [Players -> [Players -> Places]]
         /\ mail' \in [Players -> Seq(Places)] /\ at' \in [Players -> Places]
         /\ light' \subseteq Players /\ lit' \in [Players -> SUBSET Players]
         /\ heard' \in [Players -> SUBSET Players] /\ anyLeft' \in BOOLEAN
<1> USE PlaceFacts DEF Types, TypeOK, Leave, TakenOut
<1>1. \A q \in Players : [told[q] EXCEPT ![p] = Nowhere] \in [Players -> Places]
  OBVIOUS
<1>2. told' \in [Players -> [Players -> Places]]
  BY <1>1
<1>3. mail' \in [Players -> Seq(Places)] /\ <<>> \in Seq(Places)
  OBVIOUS
<1>4. /\ members' \subseteq asked
      /\ home' \in [Players -> Points \cup {Wild, Nowhere}]
      /\ pos' \in [Players -> Places] /\ at' \in [Players -> Places]
  OBVIOUS
<1>5. /\ light' \subseteq Players /\ lit' \in [Players -> SUBSET Players]
      /\ heard' \in [Players -> SUBSET Players] /\ anyLeft' \in BOOLEAN
  OBVIOUS
<1> QED
  BY <1>2, <1>3, <1>4, <1>5

(* So does what a group is told and sent.                                  *)
LEMMA TellTypes ==
  ASSUME Types, NEW group \in SUBSET members,
         NEW place \in [Players -> Places], NEW q \in Players, NEW v \in Places
  PROVE  /\ TellPlace(told, group, q, v) \in [Players -> [Players -> Places]]
         /\ SendTo(group, place) \in [Players -> Seq(Places)]
         /\ PutAll(group, place) => /\ pos' \in [Players -> Places]
                                    /\ told' \in [Players -> [Players -> Places]]
<1> USE DEF Types, TypeOK
<1>1. \A p \in Players : [told[p] EXCEPT ![q] = v] \in [Players -> Places]
  OBVIOUS
<1>2. TellPlace(told, group, q, v) \in [Players -> [Players -> Places]]
  BY <1>1 DEF TellPlace
<1>3. SendTo(group, place) \in [Players -> Seq(Places)]
  <2>1. \A p \in Players : Append(mail[p], place[p]) \in Seq(Places)
    OBVIOUS
  <2> QED
    BY <2>1 DEF SendTo
<1>4. ASSUME PutAll(group, place)
      PROVE  /\ pos' \in [Players -> Places]
             /\ told' \in [Players -> [Players -> Places]]
  BY <1>4 DEF PutAll
<1> QED
  BY <1>2, <1>3, <1>4

(* What waits in the room stays a sequence of jobs of players that have    *)
(* asked for it.                                                           *)
AskedJobs == jobs \in Seq(JobSet)
  /\ \A i \in DOMAIN jobs : jobs[i].player \in asked

(* Jobs, members and who has asked keep their types.                       *)
LEMMA QueueTypes ==
  ASSUME Types, PhaseFits, [Next]_vars
  PROVE  AskedJobs' /\ members' \subseteq asked' /\ asked' \subseteq Players
<1> USE DEF Types, TypeOK, AskedJobs
<1>1. ASSUME NEW p \in Players, NEW j \in JobSet, Posts(p, j)
      PROVE  AskedJobs' /\ members' \subseteq asked'
        /\ asked' \subseteq Players
  <2>1. asked \subseteq asked' /\ p \in asked' /\ asked' \subseteq Players
    BY <1>1 DEF Posts
  <2>2. AskedJobs'
    BY <1>1, <2>1, AppendFacts DEF Posts
  <2> QED
    BY <1>1, <2>1, <2>2 DEF Posts, roomVars
<1>2. CASE Quiet
  BY <1>2 DEF Quiet, roomVars
<1>3. EndsJob /\ UNCHANGED asked => AskedJobs'
  BY TailFacts DEF EndsJob
<1>4. ASSUME NEW p \in Players, Leaves(p)
      PROVE  AskedJobs' /\ members' \subseteq asked'
        /\ asked' \subseteq Players
  BY <1>3, <1>4 DEF Leaves, Leave, TakenOut
<1>5. CASE Drops
  BY <1>3, <1>5 DEF Drops, roomVars
<1>6. CASE ComesIn
  BY <1>6, HeadFacts DEF ComesIn, Runner
<1>7. CASE Dies
  BY <1>7 DEF Dies, roomVars
<1>8. CASE IsTold
  BY <1>3, <1>8 DEF IsTold
<1>9. ASSUME NEW group \in SUBSET members, NEW place \in [Players -> Places],
             Puts(group, place)
      PROVE  AskedJobs' /\ members' \subseteq asked'
        /\ asked' \subseteq Players
  BY <1>3, <1>9 DEF Puts
<1>10. CASE MoveBegins
  BY <1>10 DEF MoveBegins
<1>11. CASE TellsMove
  BY <1>3, <1>11 DEF TellsMove, roomVars
<1>12. CASE TellsLight
  BY <1>3, <1>12 DEF TellsLight, roomVars
<1> QED
  BY <1>1, <1>2, <1>4, <1>5, <1>6, <1>7, <1>8, <1>9, <1>10, <1>11, <1>12,
     MoveNext DEF Move

(* The other variables.                                                    *)
RestTypes ==
  /\ requests \in 0 .. MaxRequests /\ isStart \in BOOLEAN
  /\ home \in [Players -> Points \cup {Wild, Nowhere}]
  /\ pos \in [Players -> Places]
  /\ phase \in {"idle", "entered", "copying"}
  /\ link \in [Players -> {"up", "closed", "gone"}]
  /\ told \in [Players -> [Players -> Places]]
  /\ mail \in [Players -> Seq(Places)] /\ at \in [Players -> Places]
  /\ light \subseteq Players /\ lit \in [Players -> SUBSET Players]
  /\ halted \in BOOLEAN /\ anyLeft \in BOOLEAN
  /\ heard \in [Players -> SUBSET Players]
  /\ welcome \subseteq Players /\ torn \subseteq Players

(* The types, taken apart.                                                 *)
LEMMA TypesInParts == Types <=> /\ AskedJobs /\ members \subseteq asked
                                /\ asked \subseteq Players /\ RestTypes
<1>1. mail \in [Players -> Seq(Places)] =>
        \A p \in Players : mail[p] \in Seq(Places)
  OBVIOUS
<1>2. heard \in [Players -> SUBSET Players] =>
        \A p \in Players : heard[p] \subseteq Players
  OBVIOUS
<1> QED
  BY <1>1, <1>2 DEF Types, TypeOK, AskedJobs, RestTypes

(* A job keeps the types of the other variables.                           *)
LEMMA JobTypes ==
  ASSUME Types, PhaseFits, RunJob
  PROVE  RestTypes'
<1>1. jobs # <<>> /\ Runner \in Players
  BY RunCases, HeadFacts DEF Runs, Types
<1>2. RestTypes /\ members \subseteq Players /\ StartPlace \in Places
  BY TypesInParts, PlaceFacts
<1>0. home \in [Players -> Places]
  BY <1>2, PlaceFacts DEF RestTypes
<1> USE <1>1, <1>2 DEF RestTypes, Runs, EndJob, roomVars, clientVars,
      historyVars
<1>3. CASE Runs(EntryKinds) /\ Enter(Runner)
  BY <1>3 DEF Enter
<1>4. CASE Runs(EntryKinds) /\ EnterTold(Runner)
  <2>1. CASE Runner \in members
    <3>0. StartPlace \in Points \cup {Wild, Nowhere}
      BY PlaceFacts
    <3>a. /\ home' = [home EXCEPT ![Runner] = StartPlace]
          /\ pos' = [pos EXCEPT ![Runner] = StartPlace]
          /\ at' = at \/ at' = [at EXCEPT ![Runner] = StartPlace]
      BY <1>4, <2>1 DEF EnterTold
    <3>b. home' \in [Players -> Points \cup {Wild, Nowhere}]
      BY <3>0, <3>a
    <3>c. pos' \in [Players -> Places]
      BY <3>a
    <3>d. at' \in [Players -> Places]
      BY <3>a
    <3>1. /\ home' \in [Players -> Points \cup {Wild, Nowhere}]
          /\ pos' \in [Players -> Places] /\ at' \in [Players -> Places]
      BY <3>b, <3>c, <3>d
    <3>2. TellPlace(told, members \ {Runner}, Runner, StartPlace)
            \in [Players -> [Players -> Places]]
      <4>1. members \ {Runner} \in SUBSET members
        OBVIOUS
      <4> QED
        BY <4>1, <1>0, TellTypes
    <3>3. told' \in [Players -> [Players -> Places]]
      <4>1. [q \in Players |-> pos'[q]] \in [Players -> Places]
        BY <3>1
      <4>2. told' = [TellPlace(told, members \ {Runner}, Runner, StartPlace)
                       EXCEPT ![Runner] =
                         IF Runner \in Receivers(members)
                         THEN [q \in Players |-> pos'[q]] ELSE @]
        BY <1>4, <2>1 DEF EnterTold
      <4> HIDE DEF RestTypes
      <4> QED
        BY <3>2, <4>1, <4>2
    <3> QED
      BY <1>4, <2>1, <3>1, <3>3 DEF EnterTold
  <2>2. CASE Runner \notin members
    BY <1>4, <2>2 DEF EnterTold
  <2> QED
    BY <2>1, <2>2
<1>5. CASE Runs(EntryKinds) /\ EnterDies
  BY <1>5 DEF EnterDies
<1>6. CASE Runs({"leave"}) /\ LeaveJob(Runner)
  BY <1>6, LeaveTypes DEF LeaveJob
<1>7. CASE Runs({"start"}) /\ StageStart
  <2>1. [p \in Players |-> Stage] \in [Players -> Places]
        /\ members \in SUBSET members
    BY PlaceFacts
  <2>2. /\ pos' \in [Players -> Places]
        /\ told' \in [Players -> [Players -> Places]]
        /\ mail' \in [Players -> Seq(Places)]
    BY <1>1, <1>7, <2>1, TellTypes, PlaceFacts DEF StageStart
  <2> QED
    BY <1>7, <2>2 DEF StageStart
<1>8. CASE Runs({"end"}) /\ GameEnd
  <2>1. home \in [Players -> Places] /\ Back \in SUBSET members
        /\ members \in SUBSET members
    BY PlaceFacts DEF Back, Receivers
  <2>2. /\ pos' \in [Players -> Places]
        /\ told' \in [Players -> [Players -> Places]]
        /\ mail' \in [Players -> Seq(Places)]
    BY <1>1, <1>8, <2>1, TellTypes, PlaceFacts DEF GameEnd
  <2> QED
    BY <1>8, <2>2 DEF GameEnd
<1>9. CASE Runs({"move"}) /\ MoveBegun(Runner, News)
  <2>1. News \in Places
    BY <1>9, HeadFacts DEF Types
  <2> QED
    BY <1>9, <2>1 DEF MoveBegun
<1>10. CASE Runs({"move"}) /\ MoveTold(Runner, News)
  <2>1. News \in Places
    BY <1>10, HeadFacts DEF Types
  <2>2. MoveGroup \in SUBSET members
    BY DEF MoveGroup
  <2>3. told' \in [Players -> [Players -> Places]]
    BY <1>10, <2>1, <2>2, <1>0, TellTypes
    DEF MoveTold
  <2> QED
    BY <1>10, <2>3 DEF MoveTold
<1>11. CASE Runs({"light"}) /\ RightOn(Runner, News)
  <2>1. \A p \in Players : LightSet(lit[p], Runner, News) \in SUBSET Players
                             /\ heard[p] \cup {Runner} \in SUBSET Players
    BY DEF LightSet
  <2>2. lit' \in [Players -> SUBSET Players]
        /\ heard' \in [Players -> SUBSET Players]
    BY <1>11, <2>1 DEF RightOn
  <2> QED
    BY <1>11, <2>2 DEF RightOn
<1> QED
  BY RunCases, <1>3, <1>4, <1>5, <1>6, <1>7, <1>8, <1>9, <1>10, <1>11

(* Every step keeps the types.                                             *)
LEMMA TypesNext ==
  ASSUME Types, PhaseFits, [Next]_vars
  PROVE  Types'
<1>0. RestTypes /\ members \subseteq Players
  BY TypesInParts
<1>1. RestTypes'
  <2> USE <1>0 DEF RestTypes, roomVars, clientVars, historyVars
  <2>1. CASE UNCHANGED vars
    BY <2>1 DEF vars
  <2>2. CASE RunJob
    BY <2>2, JobTypes
  <2>3. ASSUME NEW p \in Players, AskIn(p) \/ SendMove(p) PROVE RestTypes'
    BY <2>3 DEF AskIn, SendMove
  <2>4. ASSUME NEW p \in Players,
               SwitchLight(p) \/ AskStart(p) \/ AskEnd(p) \/ AskLeave(p)
        PROVE  RestTypes'
    <3>1. requests' \in 0 .. MaxRequests
      BY <2>4, PlayAssumption DEF SwitchLight, AskStart, AskEnd, AskLeave,
        Count
    <3> QED
      BY <2>4, <3>1 DEF SwitchLight, AskStart, AskEnd, AskLeave
  <2>5. ASSUME NEW p \in Players, Obey(p) PROVE RestTypes'
    <3>1. Head(mail[p]) \in Places /\ Tail(mail[p]) \in Seq(Places)
      BY <2>5 DEF Obey
    <3> QED
      BY <2>5, <3>1 DEF Obey
  <2>6. ASSUME NEW p \in Players, OnDisconnected(p) PROVE RestTypes'
    <3>1. CASE p \in members /\ Leave(p) /\ UNCHANGED torn
      BY <2>6, <3>1, LeaveTypes DEF OnDisconnected
    <3>2. CASE /\ torn' = IF p \in members THEN torn \cup {p} ELSE torn
               /\ UNCHANGED <<members, home, pos, clientVars, heard, anyLeft>>
      BY <2>6, <3>2 DEF OnDisconnected
    <3> QED
      BY <2>6, <3>1, <3>2 DEF OnDisconnected
  <2>7. ASSUME NEW p \in Players, Expire(p) PROVE RestTypes'
    BY <2>7 DEF Expire
  <2> QED
    BY <2>1, <2>2, <2>3, <2>4, <2>5, <2>6, <2>7 DEF Next
<1> QED
  BY <1>1, QueueTypes DEF Types, TypeOK, AskedJobs, RestTypes

-----------------------------------------------------------------------------
(* Every step keeps the phase of the job that is running.                  *)
LEMMA PhaseFitsNext ==
  ASSUME Types, PhaseFits, [Next]_vars
  PROVE  PhaseFits'
<1>1. ASSUME NEW p \in Players, NEW j \in JobSet, Posts(p, j)
      PROVE  PhaseFits'
  BY <1>1, AppendFacts DEF Posts, PhaseFits, Types
<1>2. CASE UNCHANGED <<jobs, phase>>
  BY <1>2 DEF PhaseFits
<1>3. CASE EndsJob
  BY <1>3 DEF PhaseFits, EndsJob
<1>4. CASE ComesIn \/ MoveBegins
  BY <1>4 DEF ComesIn, MoveBegins, PhaseFits
<1> QED
  BY <1>1, <1>2, <1>3, <1>4, MoveNext
  DEF Move, Quiet, Leaves, Drops, Dies, IsTold, Puts, TellsMove, TellsLight

(* A player that enters has asked once.                                    *)
LEMMA OneEntryNext ==
  ASSUME Types, PhaseFits, OneEntry, [Next]_vars
  PROVE  OneEntry'
<1>1. ASSUME NEW p \in Players, NEW j \in JobSet, Posts(p, j)
      PROVE  OneEntry'
  <2>1. /\ DOMAIN jobs = 1 .. Len(jobs) /\ DOMAIN jobs' = 1 .. Len(jobs) + 1
        /\ Len(jobs) \in Nat
        /\ \A i \in DOMAIN jobs : jobs'[i] = jobs[i]
        /\ jobs'[Len(jobs) + 1] = j
    BY <1>1, AppendFacts DEF Posts, Types
  <2>2. \A i \in DOMAIN jobs : jobs[i].player \in asked
    BY DEF Types, TypeOK
  <2>3. j.kind \in EntryKinds => \A i \in DOMAIN jobs : jobs[i].player # p
    BY <1>1, <2>2 DEF Posts
  <2>4. j.player = p
    BY <1>1 DEF Posts
  <2> QED
    BY <2>1, <2>3, <2>4 DEF OneEntry, Entry
<1>2. CASE UNCHANGED jobs
  BY <1>2 DEF OneEntry, Entry
<1>3. CASE EndsJob
  <2>1. \A i \in DOMAIN jobs' : i + 1 \in DOMAIN jobs /\ jobs'[i] = jobs[i + 1]
    BY <1>3, TailFacts DEF EndsJob, Types
  <2>2. \A i \in DOMAIN jobs' : i \in Int
    BY <1>3, TailFacts DEF EndsJob, Types
  <2>3. ASSUME NEW p \in Players, NEW i \in DOMAIN jobs',
          NEW k \in DOMAIN jobs',
               Entry(i, p)', Entry(k, p)'
        PROVE  i = k
    <3>1. Entry(i + 1, p) /\ Entry(k + 1, p)
      BY <2>1, <2>3 DEF Entry
    <3>2. i + 1 = k + 1
      BY <2>1, <3>1 DEF OneEntry
    <3> QED
      BY <2>2, <3>2
  <2> QED
    BY <2>3 DEF OneEntry
<1> QED
  BY <1>1, <1>2, <1>3, MoveNext
  DEF Move, Quiet, Leaves, Drops, ComesIn, Dies, IsTold, Puts, MoveBegins,
      TellsMove, TellsLight

(* Nobody becomes unborn, and who still is asks for nothing but to come in.*)
LEMMA StillUnborn ==
  ASSUME Types, PhaseFits, NotYet, [Next]_vars, NEW p \in Players, Unborn(p)'
  PROVE  /\ Unborn(p)
         /\ \A i \in DOMAIN jobs' : jobs'[i].player = p => Entry(i, p)'
<1> DEFINE Goal ==
      /\ Unborn(p)
      /\ \A i \in DOMAIN jobs' : jobs'[i].player = p => Entry(i, p)'
<1>0. Unborn(p) => /\ p \notin members
                   /\ \A i \in DOMAIN jobs : jobs[i].player = p => Entry(i, p)
  BY DEF NotYet
<1>1. ASSUME NEW q \in Players, NEW j \in JobSet, Posts(q, j)
      PROVE  Goal
  <2>1. /\ DOMAIN jobs = 1 .. Len(jobs) /\ DOMAIN jobs' = 1 .. Len(jobs) + 1
        /\ Len(jobs) \in Nat
        /\ \A i \in DOMAIN jobs : jobs'[i] = jobs[i]
        /\ jobs'[Len(jobs) + 1] = j
    BY <1>1, AppendFacts DEF Posts, Types
  <2>2. Unborn(p)
    <3>1. CASE p \notin asked'
      BY <1>1, <3>1 DEF Unborn, Posts
    <3>2. ASSUME NEW i \in DOMAIN jobs', Waits(i, p)' PROVE Unborn(p)
      <4>1. CASE i \in DOMAIN jobs
        BY <1>1, <2>1, <3>2, <4>1 DEF Unborn, Waits, Entry, Posts
      <4>2. CASE i = Len(jobs) + 1
        BY <1>1, <2>1, <3>2, <4>2 DEF Unborn, Waits, Entry, Posts
      <4> QED
        BY <2>1, <4>1, <4>2
    <3> QED
      BY <3>1, <3>2 DEF Unborn
  <2>3. \A i \in DOMAIN jobs' : jobs'[i].player = p => Entry(i, p)'
    <3>1. \A i \in DOMAIN jobs : jobs'[i].player = p => Entry(i, p)'
      BY <1>0, <2>1, <2>2 DEF Entry
    <3>2. j.player = p => j.kind \in EntryKinds
      BY <1>0, <1>1, <2>2 DEF Posts
    <3> QED
      BY <2>1, <3>1, <3>2 DEF Entry
  <2> QED
    BY <2>2, <2>3
<1>2. CASE /\ UNCHANGED <<asked, jobs>>
           /\ phase' # phase => phase = "idle"
  BY <1>0, <1>2 DEF Unborn, Waits, Entry
<1>3. CASE EndsJob /\ UNCHANGED asked
  <2>1. \A i \in DOMAIN jobs' : /\ i + 1 \in DOMAIN jobs /\ i + 1 # 1
                                /\ jobs'[i] = jobs[i + 1]
    BY <1>3, TailFacts DEF EndsJob, Types
  <2>2. Unborn(p)
    BY <1>3, <2>1 DEF Unborn, Waits, Entry
  <2> QED
    BY <1>0, <2>1, <2>2 DEF Entry
<1> QED
  BY <1>1, <1>2, <1>3, MoveNext
  DEF Move, Quiet, Leaves, Drops, ComesIn, Dies, IsTold, Puts, MoveBegins,
      TellsMove, TellsLight

(* Who comes in was unborn and is so no longer.                            *)
LEMMA RunnerIsBorn ==
  ASSUME Types, PhaseFits, OneEntry, ComesIn
  PROVE  /\ Runner \in Players /\ Unborn(Runner)
         /\ \A p \in Players : Unborn(p)' => p # Runner
<1>1. /\ Runner \in Players /\ 1 \in DOMAIN jobs /\ Entry(1, Runner)
      /\ Runner \in asked
  BY HeadFacts DEF ComesIn, Types, TypeOK, Entry, Runner
<1>2. Waits(1, Runner)
  BY <1>1 DEF Waits, ComesIn
<1>3. ASSUME NEW p \in Players, Unborn(p)', p = Runner PROVE FALSE
  <2>1. \A i \in DOMAIN jobs : Entry(i, p) => i = 1
    BY <1>1, <1>3 DEF OneEntry
  <2>2. p \in asked'
    BY <1>1, <1>3 DEF ComesIn
  <2>3. PICK i \in DOMAIN jobs' : Waits(i, p)'
    BY <1>3, <2>2 DEF Unborn
  <2>4. i \in DOMAIN jobs /\ Entry(i, p) /\ i # 1
    BY <2>3 DEF ComesIn, Waits, Entry
  <2> QED
    BY <2>1, <2>4
<1> QED
  BY <1>1, <1>2, <1>3 DEF Unborn

(* A player that still has to come in stays nowhere.                       *)
LEMMA NotYetNext ==
  ASSUME Types, PhaseFits, OneEntry, NotYet, [Next]_vars
  PROVE  NotYet'
<1> SUFFICES ASSUME NEW p \in Players, Unborn(p)'
             PROVE  /\ p \notin members' \cup welcome' \cup light'
                    /\ home'[p] = Nowhere
                    /\ heard'[p] = {} /\ lit'[p] = {}
                    /\ \A q \in Players : p \notin heard'[q]
                         /\ p \notin lit'[q]
  BY StillUnborn DEF NotYet
<1>0. /\ Unborn(p)
      /\ p \notin members \cup welcome \cup light
      /\ home[p] = Nowhere /\ heard[p] = {} /\ lit[p] = {}
      /\ \A q \in Players : p \notin heard[q] /\ p \notin lit[q]
  BY StillUnborn DEF NotYet
<1> USE <1>0 DEF roomVars, historyVars
<1>1. ASSUME NEW q \in Players, NEW j \in JobSet, Posts(q, j)
      PROVE  p \notin light'
        /\ UNCHANGED <<members, welcome, home, heard, lit>>
  BY <1>1 DEF Posts, EntryKinds
<1>2. CASE UNCHANGED <<members, welcome, light, home, heard, lit>>
  BY <1>2
<1>3. ASSUME NEW q \in Players, Leaves(q)
      PROVE  /\ p \notin members' \cup welcome' \cup light'
             /\ home'[p] = Nowhere
             /\ heard'[p] = {} /\ lit'[p] = {}
             /\ \A r \in Players : p \notin heard'[r] /\ p \notin lit'[r]
  BY <1>3 DEF Leaves, Leave, TakenOut, Types, TypeOK
<1>4. CASE ComesIn
  BY <1>4, RunnerIsBorn DEF ComesIn
<1>5. CASE IsTold
  BY <1>5 DEF IsTold, Types, TypeOK
<1>6. CASE TellsLight
  <2>1. p # Runner \/ Hearers = {}
    BY DEF Hearers
  <2>2. p \notin Hearers
    BY DEF Hearers, Receivers
  <2>3. lit'[p] = {} /\ heard'[p] = {}
    BY <1>6, <2>2 DEF TellsLight
  <2>4. ASSUME NEW q \in Players PROVE p \notin heard'[q] /\ p \notin lit'[q]
    BY <1>6, <2>1 DEF TellsLight, LightSet
  <2> QED
    BY <1>6, <2>3, <2>4 DEF TellsLight
<1> QED
  BY <1>1, <1>2, <1>3, <1>4, <1>5, <1>6, MoveNext
  DEF Move, Quiet, Drops, Dies, Puts, MoveBegins, TellsMove

(* Every step keeps the disconnected out.                                  *)
LEMMA OutNext ==
  ASSUME Types, PhaseFits, OneEntry, NotYet, DisconnectedAreOut, [Next]_vars
  PROVE  DisconnectedAreOut'
<1> USE DEF DisconnectedAreOut, roomVars, historyVars
<1>1. CASE UNCHANGED <<welcome, torn, link, members>>
  BY <1>1
<1>2. CASE Quiet
  BY <1>2 DEF Quiet, Types, TypeOK
<1>3. ASSUME NEW q \in Players, Leaves(q) PROVE DisconnectedAreOut'
  BY <1>3 DEF Leaves, Leave, TakenOut, Types, TypeOK
<1>4. CASE ComesIn
  <2>1. Runner \notin welcome
    BY <1>4, RunnerIsBorn DEF NotYet
  <2> QED
    BY <1>4, <2>1 DEF ComesIn
<1> QED
  BY <1>1, <1>2, <1>3, <1>4, MoveNext
  DEF Move, Posts, Drops, Dies, IsTold, Puts, MoveBegins, TellsMove, TellsLight

-----------------------------------------------------------------------------
(* A posted job leaves the running one alone.                              *)
LEMMA PostKeepsHead ==
  ASSUME Types, PhaseFits, NEW p \in Players, NEW j \in JobSet, Posts(p, j)
  PROVE  /\ phase' = phase
         /\ phase # "idle" => Head(jobs') = Head(jobs)
         /\ \A q \in Players : /\ Running(q)' <=> Running(q)
                               /\ Entering(q)' <=> Entering(q)
<1>1. phase' = phase /\ (phase # "idle" => Head(jobs') = Head(jobs))
  BY AppendFacts DEF Posts, PhaseFits, Types
<1> QED
  BY <1>1 DEF Running, Entering

(* Nobody is running between two jobs.                                     *)
LEMMA NobodyRuns ==
  /\ phase = "idle" => \A q \in Players : ~Running(q) /\ ~Entering(q)
  /\ phase' = "idle" => \A q \in Players : ~Running(q)' /\ ~Entering(q)'
BY DEF Running, Entering

(* What is told of the place of q.                                         *)
LEMMA TellPlaceIs ==
  ASSUME Types, NEW group \in SUBSET members, NEW q \in Players, NEW v,
         NEW a \in Players, NEW b \in Players
  PROVE  TellPlace(told, group, q, v)[a][b] =
           IF a \in Receivers(group) /\ q \in members /\ b = q
           THEN v ELSE told[a][b]
BY DEF TellPlace, Types, TypeOK

(* Every step keeps clients told of the places the room has.               *)
LEMMA PlacesNext ==
  ASSUME Types, PhaseFits, PlacesAgree, [Next]_vars
  PROVE  PlacesAgree'
<1> DEFINE Agrees(a, b) == told[a][b] = pos[b]
           Copied == phase = "copying" /\ Runner \in members
             => pos[Runner] = News
<1>0. /\ members \subseteq Players /\ Copied
      /\ \A a, b \in members :
           /\ a # b /\ link[a] = "up" /\ ~Entering(a) /\ ~Running(b)
           => Agrees(a, b)
  BY DEF PlacesAgree, Types, TypeOK, Runner, News
<1>a. SUFFICES ASSUME NEW a \in members', NEW b \in members', a # b,
                      link'[a] = "up", ~Entering(a)', ~Running(b)'
               PROVE  Agrees(a, b)'
  <2>1. ASSUME phase' = "copying", Head(jobs').player \in members'
        PROVE  pos'[Head(jobs').player] = Head(jobs').value
    <3>1. ASSUME NEW p \in Players, NEW j \in JobSet, Posts(p, j)
          PROVE  pos'[Head(jobs').player] = Head(jobs').value
      BY <2>1, <3>1, <1>0, PostKeepsHead DEF Posts, roomVars, Runner, News
    <3>2. CASE Quiet
      BY <2>1, <3>2, <1>0 DEF Quiet, roomVars, Runner, News
    <3>3. ASSUME NEW p \in Players, Leaves(p)
          PROVE  pos'[Head(jobs').player] = Head(jobs').value
      BY <2>1, <3>3, <1>0
      DEF Leaves, Leave, TakenOut, EndsJob, Runner, News, Types, TypeOK
    <3>4. CASE MoveBegins
      BY <2>1, <3>4, <1>0 DEF MoveBegins, Runner, News, Types, TypeOK
    <3> QED
      BY <2>1, <3>1, <3>2, <3>3, <3>4, MoveNext
      DEF Move, EndsJob, Drops, ComesIn, Dies, IsTold, Puts, TellsMove,
          TellsLight
  <2> QED
    BY <2>1 DEF PlacesAgree
<1> USE DEF roomVars
<1>1. ASSUME NEW p \in Players, NEW j \in JobSet, Posts(p, j)
      PROVE  Agrees(a, b)'
  <2>1. a \in members /\ b \in members
    BY <1>1 DEF Posts
  <2>2. ~Entering(a) /\ ~Running(b)
    BY <1>1, <1>a, <1>0, <2>1, PostKeepsHead
  <2> QED
    BY <1>1, <1>a, <1>0, <2>1, <2>2 DEF Posts
<1>2. CASE Quiet
  <2>1. ~Entering(a) /\ ~Running(b)
    BY <1>2, <1>a DEF Quiet, Entering, Running
  <2> QED
    BY <1>2, <1>a, <1>0, <2>1 DEF Quiet
<1>3. ASSUME NEW p \in Players, Leaves(p) PROVE Agrees(a, b)'
  <2>1. a \in members \ {p} /\ b \in members \ {p} /\ a \in Players
        /\ b \in Players
    BY <1>3, <1>0 DEF Leaves, Leave, TakenOut
  <2>2. told'[a][b] = told[a][b] /\ pos'[b] = pos[b]
    BY <1>3, <2>1 DEF Leaves, Leave, Types, TypeOK
  <2>3. link[a] = "up"
    BY <1>3, <1>a, <2>1 DEF Leaves, Types, TypeOK
  <2>4. ~Entering(a) /\ ~Running(b)
    BY <1>3, <1>a DEF Leaves, Entering, Running
  <2> QED
    BY <1>a, <1>0, <2>1, <2>2, <2>3, <2>4
<1>4. CASE Drops
  <2>1. ~Entering(a) /\ ~Running(b)
    BY <1>4 DEF Drops, Entering, Running, Runner
  <2> QED
    BY <1>4, <1>a, <1>0, <2>1 DEF Drops
<1>5. CASE ComesIn
  <2>1. a # Runner /\ b # Runner
    BY <1>5, <1>a DEF ComesIn, Entering, Running, Runner
  <2>2. a \in members /\ b \in members
    BY <1>5, <2>1 DEF ComesIn
  <2> QED
    BY <1>5, <1>a, <1>0, <2>2, NobodyRuns DEF ComesIn
<1>6. CASE Dies
  <2>1. ~Entering(a) /\ ~Running(b)
    BY <1>6, <1>a DEF Dies, Entering, Running
  <2> QED
    BY <1>6, <1>a, <1>0, <2>1 DEF Dies
<1>7. CASE IsTold
  <2>1. /\ a \in members /\ b \in members /\ a \in Players /\ b \in Players
        /\ link[a] = "up" /\ Runner \in Players
        /\ members \ {Runner} \in SUBSET members
    BY <1>7, <1>a, <1>0 DEF IsTold
  <2>2. a \in Receivers(members) /\ (a # Runner
          => a \in Receivers(members \ {Runner}))
    BY <2>1 DEF Receivers
  <2> DEFINE t == TellPlace(told, members \ {Runner}, Runner, StartPlace)
  <2>3. /\ told'[Runner] = IF Runner \in Receivers(members)
                           THEN [q \in Players |-> pos'[q]] ELSE t[Runner]
        /\ a # Runner => told'[a] = t[a]
    <3>1. DOMAIN t = Players
      BY DEF TellPlace
    <3> HIDE DEF t
    <3>2. told' = [t EXCEPT ![Runner] = IF Runner \in Receivers(members)
                                       THEN [q \in Players |-> pos'[q]] ELSE @]
      BY <1>7 DEF IsTold, t
    <3> QED
      BY <2>1, <3>1, <3>2
  <2>4. CASE a = Runner
    BY <2>1, <2>2, <2>3, <2>4
  <2>5. CASE a # Runner
    <3>1. told'[a][b] = IF b = Runner THEN StartPlace ELSE told[a][b]
      <4>1. Runner \in members
        BY <1>7 DEF IsTold
      <4> QED
        BY <2>1, <2>2, <2>3, <2>5, <4>1, TellPlaceIs
    <3>2. pos'[b] = IF b = Runner THEN StartPlace ELSE pos[b]
      BY <2>1, <1>7 DEF IsTold, Types, TypeOK
    <3>3. b # Runner => Agrees(a, b)
      BY <1>7, <1>0, <1>a, <2>1, <2>5 DEF IsTold, Entering, Running, Runner
    <3> QED
      BY <3>1, <3>2, <3>3
  <2> QED
    BY <2>4, <2>5
<1>8. ASSUME NEW group \in SUBSET members, NEW place \in [Players -> Places],
             Puts(group, place)
      PROVE  Agrees(a, b)'
  <2>1. /\ a \in members /\ b \in members /\ a \in Players /\ b \in Players
        /\ link[a] = "up" /\ a \in Receivers(members) /\ phase = "idle"
    BY <1>8, <1>a, <1>0 DEF Puts, Receivers
  <2>2. Agrees(a, b)
    BY <1>a, <1>0, <2>1, NobodyRuns
  <2> QED
    BY <1>8, <2>1, <2>2 DEF Puts, PutAll
<1>9. CASE MoveBegins
  <2>1. b # Runner /\ b \in Players /\ a \in members /\ b \in members
    BY <1>9, <1>a, <1>0 DEF MoveBegins, Running, Runner
  <2>2. Agrees(a, b)
    BY <1>9, <1>a, <1>0, <2>1, NobodyRuns DEF MoveBegins
  <2> QED
    BY <1>9, <2>1, <2>2 DEF MoveBegins, Types, TypeOK
<1>10. CASE TellsMove
  <2>1. /\ a \in members /\ b \in members /\ a \in Players /\ b \in Players
        /\ link[a] = "up" /\ a \in Receivers(members) /\ phase = "copying"
        /\ Runner \in Players /\ members \in SUBSET members
    BY <1>10, <1>a, <1>0, HeadFacts DEF TellsMove, Receivers, EndsJob, Types
  <2>2. told'[a][b] = IF b = Runner THEN News ELSE told[a][b]
    BY <1>10, <2>1, TellPlaceIs DEF TellsMove
  <2>3. pos'[b] = pos[b] /\ (b = Runner => pos[b] = News)
    BY <1>10, <1>0, <2>1 DEF TellsMove
  <2>4. b # Runner => Agrees(a, b)
    BY <1>0, <1>a, <2>1 DEF Entering, Running, Runner
  <2> QED
    BY <2>2, <2>3, <2>4
<1>11. CASE TellsLight
  BY <1>11, <1>a, <1>0, NobodyRuns DEF TellsLight
<1> QED
  BY <1>1, <1>2, <1>3, <1>4, <1>5, <1>6, <1>7, <1>8, <1>9, <1>10, <1>11,
     MoveNext DEF Move

-----------------------------------------------------------------------------
(* The end of a job keeps the last news of those it is not about.          *)
LEMMA LastNewsAfterJob ==
  ASSUME Types, LastNews, EndsJob, members' \subseteq members,
         \A q \in members' : q \in light' <=> q \in light
  PROVE  LastNews'
<1> SUFFICES ASSUME NEW q \in members', NEW i \in DOMAIN jobs', LightJob(i,
      q)',
                    \A k \in DOMAIN jobs' : LightJob(k, q)' => k <= i
             PROVE  jobs'[i].value = TRUE <=> q \in light'
  BY DEF LastNews
<1>1. /\ Len(jobs) \in Nat \ {0} /\ DOMAIN jobs = 1 .. Len(jobs)
      /\ DOMAIN jobs' = 1 .. Len(jobs) - 1
      /\ \A k \in DOMAIN jobs' : k + 1 \in DOMAIN jobs
           /\ jobs'[k] = jobs[k + 1]
  BY TailFacts DEF EndsJob, Types
<1>2. i + 1 \in DOMAIN jobs /\ LightJob(i + 1, q)
  BY <1>1 DEF LightJob
<1>3. ASSUME NEW k \in DOMAIN jobs, LightJob(k, q) PROVE k <= i + 1
  <2>1. CASE k = 1
    BY <1>1, <2>1
  <2>2. CASE k # 1
    <3>1. k - 1 \in DOMAIN jobs' /\ jobs'[k - 1] = jobs[k]
      BY <1>1, <2>2
    <3>2. LightJob(k - 1, q)'
      BY <1>3, <3>1 DEF LightJob
    <3> QED
      BY <1>1, <3>1, <3>2
  <2> QED
    BY <2>1, <2>2
<1>4. jobs[i + 1].value = TRUE <=> q \in light
  BY <1>2, <1>3 DEF LastNews
<1> QED
  BY <1>1, <1>4

(* Every step keeps the last news of a light true.                         *)
LEMMA LastNewsNext ==
  ASSUME Types, PhaseFits, OneEntry, NotYet, LastNews, [Next]_vars
  PROVE  LastNews'
<1>0. members \subseteq Players /\ Len(jobs) \in Nat
        /\ DOMAIN jobs = 1 .. Len(jobs)
  BY DEF Types, TypeOK
<1> USE DEF roomVars, historyVars
<1>1. ASSUME NEW p \in Players, NEW j \in JobSet, Posts(p, j)
      PROVE  LastNews'
  <2>1. /\ DOMAIN jobs' = 1 .. Len(jobs) + 1
             /\ DOMAIN jobs \subseteq DOMAIN jobs'
        /\ \A i \in DOMAIN jobs : jobs'[i] = jobs[i]
        /\ jobs'[Len(jobs) + 1] = j
    BY <1>1, <1>0, AppendFacts DEF Posts, Types
  <2> SUFFICES ASSUME NEW q \in members', NEW i \in DOMAIN jobs',
                      LightJob(i, q)',
                      \A k \in DOMAIN jobs' : LightJob(k, q)' => k <= i
               PROVE  jobs'[i].value = TRUE <=> q \in light'
    BY DEF LastNews
  <2>2. q \in members /\ q \in Players
    BY <1>1, <1>0 DEF Posts
  <2>3. CASE j.kind = "light" /\ q = p
    <3>1. i = Len(jobs) + 1
      <4>1. PICK n \in Nat : n = Len(jobs) + 1
        BY <1>0
      <4>2. n \in DOMAIN jobs' /\ jobs'[n] = j
        BY <2>1, <1>0, <4>1
      <4>3. LightJob(n, q)'
        BY <1>1, <2>3, <4>2 DEF LightJob, Posts
      <4>4. n <= i
        BY <4>2, <4>3
      <4> QED
        BY <1>0, <2>1, <4>1, <4>4
    <3> QED
      BY <1>1, <2>1, <2>3, <3>1 DEF Posts
  <2>4. CASE ~(j.kind = "light" /\ q = p)
    <3>1. i \in DOMAIN jobs
      BY <1>0, <1>1, <2>1, <2>4 DEF LightJob, Posts
    <3>2. LightJob(i, q)
      BY <2>1, <3>1 DEF LightJob
    <3>3. ASSUME NEW k \in DOMAIN jobs, LightJob(k, q) PROVE k <= i
      BY <2>1, <3>3 DEF LightJob
    <3>4. jobs[i].value = TRUE <=> q \in light
      BY <2>2, <3>1, <3>2, <3>3 DEF LastNews
    <3>5. q \in light' <=> q \in light
      BY <1>1, <2>2, <2>4 DEF Posts
    <3> QED
      BY <2>1, <3>1, <3>4, <3>5
  <2> QED
    BY <2>3, <2>4
<1>2. CASE UNCHANGED <<jobs, members, light>>
  BY <1>2 DEF LastNews, LightJob
<1>3. ASSUME NEW p \in Players, Leaves(p) PROVE LastNews'
  <2>1. members' \subseteq members
          /\ \A q \in members' : q \in light' <=> q \in light
    BY <1>3 DEF Leaves, Leave, TakenOut
  <2>2. CASE UNCHANGED jobs
    BY <2>1, <2>2 DEF LastNews, LightJob
  <2> QED
    BY <1>3, <2>1, <2>2, LastNewsAfterJob DEF Leaves
<1>4. CASE EndsJob /\ UNCHANGED <<members, light>>
  BY <1>4, LastNewsAfterJob
<1>5. CASE ComesIn
  <2>1. \A i \in DOMAIN jobs : ~LightJob(i, Runner)
    BY <1>5, RunnerIsBorn DEF NotYet, LightJob, Entry, EntryKinds
  <2> QED
    BY <1>5, <2>1 DEF ComesIn, LastNews, LightJob
<1> QED
  BY <1>1, <1>2, <1>3, <1>4, <1>5, MoveNext
  DEF Move, Quiet, Drops, Dies, IsTold, Puts, MoveBegins, TellsMove, TellsLight

(* News of a light that waits goes on waiting until it is told.            *)
LEMMA NewsWaits ==
  ASSUME Types, EndsJob, Head(jobs).kind # "light", NEW q, ~LightWaits(q)'
  PROVE  ~LightWaits(q)
<1>1. /\ Len(jobs) \in Nat \ {0} /\ DOMAIN jobs = 1 .. Len(jobs)
      /\ DOMAIN jobs' = 1 .. Len(jobs) - 1
      /\ \A k \in DOMAIN jobs' : k + 1 \in DOMAIN jobs
           /\ jobs'[k] = jobs[k + 1]
  BY TailFacts DEF EndsJob, Types
<1>2. jobs[1].kind # "light"
  BY HeadFacts DEF EndsJob, Types
<1>3. ASSUME NEW i \in DOMAIN jobs, jobs[i].kind = "light", jobs[i].player = q
      PROVE  FALSE
  <2>1. i - 1 \in DOMAIN jobs' /\ jobs'[i - 1] = jobs[i]
    BY <1>1, <1>2, <1>3
  <2> QED
    BY <1>3, <2>1 DEF LightWaits
<1> QED
  BY <1>3 DEF LightWaits

(* Every step keeps what clients see of the lights.                        *)
LEMMA LightsNext ==
  ASSUME Types, PhaseFits, OneEntry, NotYet, LastNews, LightsAgree, [Next]_vars
  PROVE  LightsAgree'
<1> DEFINE Sees(p, q) == q \in lit[p] <=> q \in light /\ q \in heard[p]
<1>0. /\ members \subseteq Players
      /\ \A p, q \in members :
           /\ p # q /\ link[p] = "up" /\ link[q] = "up" /\ ~LightWaits(q)
           => Sees(p, q)
  BY DEF LightsAgree, Types, TypeOK
<1>a. SUFFICES ASSUME NEW p \in members', NEW q \in members', p # q,
                      link'[p] = "up", link'[q] = "up", ~LightWaits(q)'
               PROVE  Sees(p, q)'
  BY DEF LightsAgree
<1> USE DEF roomVars, historyVars
<1>1. ASSUME NEW r \in Players, NEW j \in JobSet, Posts(r, j)
      PROVE  Sees(p, q)'
  <2>1. /\ DOMAIN jobs' = 1 .. Len(jobs) + 1
             /\ DOMAIN jobs \subseteq DOMAIN jobs'
        /\ \A i \in DOMAIN jobs : jobs'[i] = jobs[i]
        /\ jobs'[Len(jobs) + 1] = j /\ Len(jobs) \in Nat
    BY <1>1, AppendFacts DEF Posts, Types
  <2>2. ~LightWaits(q)
    BY <1>a, <2>1 DEF LightWaits
  <2>3. j.kind = "light" => r # q
    BY <1>1, <1>a, <2>1 DEF LightWaits, Posts
  <2>4. p \in members /\ q \in members /\ q \in Players
        /\ link[p] = "up" /\ link[q] = "up"
    BY <1>1, <1>0, <1>a DEF Posts
  <2>5. q \in light' <=> q \in light
    BY <1>1, <2>3, <2>4 DEF Posts
  <2>6. Sees(p, q)
    BY <1>0, <1>a, <2>2, <2>4
  <2> QED
    BY <1>1, <2>5, <2>6 DEF Posts
<1>2. CASE Quiet
  BY <1>2, <1>a, <1>0 DEF Quiet, LightWaits
<1>3. ASSUME NEW r \in Players, Leaves(r) PROVE Sees(p, q)'
  <2>1. /\ p \in members \ {r} /\ q \in members \ {r}
        /\ p \in Players /\ q \in Players
    BY <1>3, <1>0 DEF Leaves, Leave, TakenOut
  <2>2. Sees(p, q)' <=> Sees(p, q)
    BY <1>3, <2>1 DEF Leaves, Leave
  <2>3. link[p] = "up" /\ link[q] = "up"
    BY <1>3, <1>a, <2>1 DEF Leaves, Types, TypeOK
  <2>4. ~LightWaits(q)
    <3>1. CASE UNCHANGED jobs
      BY <1>a, <3>1 DEF LightWaits
    <3>2. CASE EndsJob /\ Head(jobs).kind = "leave"
      BY <1>a, <3>2, NewsWaits
    <3> QED
      BY <1>3, <3>1, <3>2 DEF Leaves
  <2> QED
    BY <1>0, <1>a, <2>1, <2>2, <2>3, <2>4
<1>4. CASE /\ EndsJob /\ Head(jobs).kind # "light"
           /\ UNCHANGED <<members, link, light, lit, heard>>
  <2>1. ~LightWaits(q)
    BY <1>4, <1>a, NewsWaits
  <2> QED
    BY <1>4, <1>0, <1>a, <2>1
<1>5. CASE ComesIn
  <2>1. ~LightWaits(q)
    BY <1>5, <1>a DEF ComesIn, LightWaits
  <2>2. /\ heard[Runner] = {} /\ lit[Runner] = {} /\ Runner \notin light
        /\ \A r \in Players : Runner \notin heard[r] /\ Runner \notin lit[r]
    BY <1>5, RunnerIsBorn DEF NotYet
  <2>3. p \in Players /\ q \in Players
    BY <1>5, <1>0, RunnerIsBorn DEF ComesIn
  <2>4. CASE p = Runner \/ q = Runner
    BY <1>5, <2>2, <2>3, <2>4 DEF ComesIn
  <2>5. CASE p # Runner /\ q # Runner
    BY <1>5, <1>0, <1>a, <2>1, <2>5 DEF ComesIn
  <2> QED
    BY <2>4, <2>5
<1>6. CASE UNCHANGED <<jobs, members, link, light, lit, heard>>
  BY <1>6, <1>0, <1>a DEF LightWaits
<1>7. CASE TellsLight
  <2>1. /\ p \in members /\ q \in members /\ p \in Players /\ q \in Players
        /\ link[p] = "up" /\ link[q] = "up"
        /\ Head(jobs) = jobs[1] /\ 1 \in DOMAIN jobs /\ News \in BOOLEAN
    BY <1>7, <1>a, <1>0, HeadFacts DEF TellsLight, EndsJob, Types
  <2>2. /\ Len(jobs) \in Nat \ {0} /\ DOMAIN jobs = 1 .. Len(jobs)
        /\ DOMAIN jobs' = 1 .. Len(jobs) - 1
        /\ \A k \in DOMAIN jobs' : k + 1 \in DOMAIN jobs
                                     /\ jobs'[k] = jobs[k + 1]
    BY <1>7, TailFacts DEF TellsLight, EndsJob, Types
  <2>3. ASSUME NEW i \in DOMAIN jobs, LightJob(i, q) PROVE i = 1
    <3>1. i # 1 => i - 1 \in DOMAIN jobs' /\ jobs'[i - 1] = jobs[i]
      BY <2>2
    <3> QED
      BY <1>a, <2>3, <3>1 DEF LightJob, LightWaits
  <2>4. CASE q = Runner
    <3>1. LightJob(1, q)
      BY <1>7, <2>1, <2>4 DEF LightJob, TellsLight, Runner
    <3>2. News = TRUE <=> q \in light
      BY <2>1, <2>3, <3>1 DEF LastNews, News
    <3>3. p \in Hearers
      BY <2>1, <2>4, <1>a DEF Hearers, Receivers
    <3>4. lit'[p] = LightSet(lit[p], q, News) /\ heard'[p] = heard[p] \cup {q}
      BY <1>7, <2>1, <2>4, <3>3 DEF TellsLight
    <3>5. q \in lit'[p] <=> News = TRUE
      BY <2>1, <3>4 DEF LightSet
    <3> QED
      BY <1>7, <3>2, <3>4, <3>5 DEF TellsLight
  <2>5. CASE q # Runner
    <3>1. ~LightWaits(q)
      <4>1. ~LightJob(1, q)
        BY <2>1, <2>5 DEF LightJob, Runner
      <4> QED
        BY <2>3, <4>1 DEF LightWaits, LightJob
    <3>2. Sees(p, q)
      BY <1>0, <1>a, <2>1, <3>1
    <3>3. /\ q \in lit'[p] <=> q \in lit[p]
          /\ q \in heard'[p] <=> q \in heard[p]
      BY <1>7, <2>1, <2>5 DEF TellsLight, LightSet
    <3> QED
      BY <1>7, <3>2, <3>3 DEF TellsLight
  <2> QED
    BY <2>4, <2>5
<1>8. /\ phase # "idle" => Head(jobs).kind # "light"
      /\ "start" # "light" /\ "end" # "light"
  BY DEF PhaseFits, EntryKinds, Types, TypeOK
<1> QED
  BY <1>1, <1>2, <1>3, <1>4, <1>5, <1>6, <1>7, <1>8, MoveNext
  DEF Move, Drops, Dies, IsTold, Puts, MoveBegins, TellsMove

-----------------------------------------------------------------------------
(* Members can be counted.                                                 *)
LEMMA MembersFinite ==
  ASSUME Types
  PROVE  IsFiniteSet(members) /\ Cardinality(members) \in Nat
<1>1. members \subseteq Players
  BY DEF Types, TypeOK
<1> QED
  BY <1>1, PlayAssumption, FS_Subset, FS_CardinalityType

(* Who has a start point: all but the one that is coming in.               *)
LEMMA PlacedIs ==
  ASSUME Types
  PROVE  /\ phase # "entered" => Placed = members
         /\ phase = "entered" => Placed = members \ {Runner}
BY DEF Placed, Entering, Runner

(* The part of PointsInTurn that goes on until somebody leaves.            *)
InTurn ==
  /\ phase = "entered" => Head(jobs).player \in members
  /\ Cardinality(members) <= SpawnPoints =>
       /\ ~halted
       /\ \A p \in Placed : home[p] \in 0 .. Cardinality(Placed) - 1
       /\ \A p, q \in Placed : home[p] = home[q] => p = q

(* A read outside of the table has too many players, or none.              *)
LEMMA WildIs ==
  ASSUME Types
  PROVE  /\ StartPlace = Wild =>
              Cardinality(members) > SpawnPoints \/ members = {}
         /\ members # {} /\ Cardinality(members) <= SpawnPoints =>
              /\ StartPlace = Cardinality(members) - 1
              /\ StartPlace \in Points
<1>1. /\ Cardinality(members) \in Nat
      /\ Cardinality(members) = 0 => members = {}
  BY MembersFinite, FS_EmptySet
<1> QED
  BY <1>1, PlayAssumption DEF StartPlace, StartIndex, Points, Wild

(* A step that changes neither members nor homes, nor who is coming in.    *)
LEMMA SameTurn ==
  ASSUME InTurn, UNCHANGED <<members, home, halted>>, Placed' = Placed,
         phase' = "entered" => Head(jobs').player \in members
  PROVE  InTurn'
BY DEF InTurn

(* Start points go on in turn until somebody leaves.                       *)
LEMMA NextInTurn ==
  ASSUME Types, PhaseFits, InTurn, Move, ~halted, ~anyLeft'
  PROVE  ~anyLeft => InTurn'
<1> SUFFICES ASSUME ~anyLeft PROVE InTurn'
  OBVIOUS
<1>0. /\ IsFiniteSet(members) /\ Cardinality(members) \in Nat
      /\ members \subseteq Players
  BY MembersFinite DEF Types, TypeOK
<1> USE DEF roomVars, historyVars
<1>1. ASSUME NEW p \in Players, NEW j \in JobSet, Posts(p, j)
      PROVE  InTurn'
  <2>1. /\ phase' = phase /\ UNCHANGED <<members, home, halted>>
        /\ phase # "idle" => Head(jobs') = Head(jobs)
        /\ \A q \in Players : Entering(q)' <=> Entering(q)
    BY <1>1, PostKeepsHead DEF Posts
  <2>2. Placed' = Placed
    BY <1>0, <2>1 DEF Placed
  <2> QED
    BY <2>1, <2>2, SameTurn DEF InTurn
<1>2. CASE Quiet
  <2>1. Placed' = Placed
    BY <1>2 DEF Quiet, Placed, Entering
  <2> QED
    BY <1>2, <2>1, SameTurn DEF Quiet, InTurn
<1>3. CASE \E p \in Players : Leaves(p)
  BY <1>3 DEF Leaves, Leave
<1>4. CASE Drops
  <2>1. phase # "entered" /\ phase' # "entered"
    BY <1>4 DEF Drops, EndsJob, InTurn, Runner
  <2>2. Placed' = Placed
    BY <1>4, <2>1 DEF Drops, Placed, Entering
  <2> QED
    BY <1>4, <2>1, <2>2, SameTurn DEF Drops
<1>5. CASE ComesIn
  <2>1. /\ Runner' = Runner /\ phase' = "entered" /\ Runner \in members'
        /\ Runner \notin members /\ members' = members \cup {Runner}
    BY <1>5 DEF ComesIn, Runner
  <2>2. Placed = members /\ Placed' = members
    BY <1>5, <2>1, PlacedIs DEF ComesIn, Placed, Entering, Runner
  <2>3. Cardinality(members') = Cardinality(members) + 1
    BY <1>0, <2>1, FS_AddElement
  <2>4. Head(jobs').player \in members'
    BY <2>1 DEF Runner
  <2>5. Cardinality(members') <= SpawnPoints =>
          Cardinality(members) <= SpawnPoints
    BY <1>0, <2>3, PlayAssumption
  <2> QED
    BY <1>5, <2>2, <2>4, <2>5 DEF InTurn, ComesIn
<1>6. CASE Dies
  <2>1. Runner \in members
    BY <1>6 DEF Dies, InTurn, Runner
  <2>2. Cardinality(members) > SpawnPoints
    BY <1>6, <2>1, WildIs DEF Dies
  <2>3. ~(Cardinality(members) <= SpawnPoints)
    BY <1>0, <2>2, PlayAssumption
  <2>4. members' = members /\ (phase' = "entered"
          => Head(jobs').player \in members)
    BY <1>6, <2>1 DEF Dies, Runner
  <2> QED
    BY <2>3, <2>4 DEF InTurn
<1>7. CASE IsTold
  <2>1. /\ Runner \in members /\ Placed = members \ {Runner}
        /\ phase' = "idle" /\ Placed' = members /\ members' = members
    BY <1>7, PlacedIs DEF IsTold, EndsJob, Placed, Entering
  <2>2. Cardinality(Placed) = Cardinality(members) - 1
    BY <1>0, <2>1, FS_RemoveElement
  <2>3. ASSUME Cardinality(members) <= SpawnPoints
        PROVE  /\ \A p \in members : home'[p] \in 0 .. Cardinality(members) - 1
               /\ \A p, q \in members : home'[p] = home'[q] => p = q
    <3> DEFINE n == Cardinality(members)
    <3>1. /\ \A p \in Placed : home[p] \in 0 .. Cardinality(Placed) - 1
          /\ \A p, q \in Placed : home[p] = home[q] => p = q
      BY <2>3 DEF InTurn
    <3>2. StartPlace = n - 1
      BY <2>1, <2>3, WildIs
    <3>3. \A p \in members : home'[p] = IF p = Runner THEN n - 1 ELSE home[p]
      BY <1>7, <1>0, <2>1, <3>2 DEF IsTold, Types, TypeOK
    <3>4. \A p \in members \ {Runner} : home[p] \in 0 .. n - 2
      BY <1>0, <2>1, <2>2, <3>1
    <3>5. n \in Nat \ {0}
      BY <1>0, <2>1, FS_EmptySet
    <3> HIDE DEF n
    <3>6. \A p \in members : home'[p] \in 0 .. n - 1
      BY <3>3, <3>4, <3>5
    <3>7. \A p, q \in members : home'[p] = home'[q] => p = q
      BY <2>1, <3>1, <3>3, <3>4, <3>5
    <3> QED
      BY <3>6, <3>7 DEF n
  <2> QED
    BY <1>7, <2>1, <2>3 DEF InTurn, IsTold
<1>8. CASE /\ UNCHANGED <<members, home, halted>>
           /\ phase # "entered" /\ phase' # "entered"
  <2>1. Placed' = Placed
    BY <1>8 DEF Placed, Entering
  <2> QED
    BY <1>8, <2>1, SameTurn
<1> QED
  BY <1>1, <1>2, <1>3, <1>4, <1>5, <1>6, <1>7, <1>8
  DEF Move, Puts, MoveBegins, TellsMove, TellsLight, EndsJob

(* Who is coming in has no start point yet.                                *)
HomeToCome == phase = "entered" => home[Head(jobs).player] = Nowhere
(* Every step keeps that.                                                  *)
LEMMA NextHomeToCome ==
  ASSUME Types, PhaseFits, OneEntry, NotYet, HomeToCome, Move
  PROVE  HomeToCome'
<1> USE DEF HomeToCome, roomVars
<1>1. ASSUME NEW p \in Players, NEW j \in JobSet, Posts(p, j)
      PROVE  HomeToCome'
  BY <1>1, PostKeepsHead DEF Posts
<1>2. CASE Quiet
  BY <1>2 DEF Quiet
<1>3. ASSUME NEW p \in Players, Leaves(p) PROVE HomeToCome'
  <2>1. CASE phase' = "idle"
    BY <2>1
  <2>2. CASE UNCHANGED <<jobs, phase>>
    <3>1. phase = "entered" => Runner \in Players
      BY HeadFacts DEF PhaseFits, Types
    <3> QED
      BY <1>3, <2>2, <3>1 DEF Leaves, Leave, Types, TypeOK, Runner
  <2> QED
    BY <1>3, <2>1, <2>2 DEF Leaves, EndsJob
<1>4. CASE ComesIn
  <2>1. home[Runner] = Nowhere
    BY <1>4, RunnerIsBorn DEF NotYet
  <2> QED
    BY <1>4, <2>1 DEF ComesIn, Runner
<1>5. CASE Dies
  BY <1>5 DEF Dies
<1>6. CASE phase' # "entered"
  BY <1>6
<1> QED
  BY <1>1, <1>2, <1>3, <1>4, <1>5, <1>6
  DEF Move, Drops, IsTold, Puts, MoveBegins, TellsMove, TellsLight, EndsJob

(* Every step keeps what is known of the start points.                     *)
LEMMA PointsNext ==
  ASSUME Types, PhaseFits, OneEntry, NotYet, PointsInTurn, [Next]_vars
  PROVE  PointsInTurn'
<1>1. CASE UNCHANGED vars
  BY <1>1 DEF vars, roomVars, historyVars, PointsInTurn, Placed, Entering
<1>2. CASE Next
  <2>1. Move /\ ~halted
    BY <1>2, MoveNext DEF Next
  <2>2. HomeToCome'
    BY <2>1, NextHomeToCome DEF PointsInTurn, HomeToCome
  <2>3. ~anyLeft' => ~anyLeft
    BY <2>1 DEF Move, Posts, Quiet, Leaves, Leave, Drops, ComesIn, Dies,
      IsTold,
                Puts, MoveBegins, TellsMove, TellsLight, historyVars
  <2>4. ~anyLeft' => InTurn'
    BY <2>1, <2>3, NextInTurn DEF PointsInTurn, InTurn
  <2>5. halted' => Cardinality(members') > SpawnPoints \/ members' = {}
    <3>1. halted' => Dies
      BY <2>1 DEF Move, Posts, Quiet, Leaves, Drops, ComesIn, IsTold, Puts,
                  MoveBegins, TellsMove, TellsLight
    <3> QED
      BY <3>1, WildIs DEF Dies, roomVars
  <2> QED
    BY <2>2, <2>4, <2>5 DEF PointsInTurn, HomeToCome, InTurn
<1> QED
  BY <1>1, <1>2

-----------------------------------------------------------------------------
(* The invariant holds at the start, and every step keeps it.              *)
LEMMA InitIInv == Init => IInv
<1> SUFFICES ASSUME Init PROVE IInv
  OBVIOUS
<1>1. /\ jobs \in Seq(JobSet) /\ Len(jobs) = 1 /\ DOMAIN jobs = {1}
      /\ jobs[1] = Job("host", Host, 0) /\ jobs # <<>>
      /\ jobs[1].kind = "host" /\ jobs[1].player = Host
  BY JobIs, PlayAssumption DEF Init
<1>2. Types
  <2>1. /\ AskedJobs /\ members \subseteq asked /\ asked \subseteq Players
    BY <1>1, PlayAssumption DEF Init, AskedJobs
  <2>2. requests \in 0 .. MaxRequests
    BY PlayAssumption DEF Init
  <2>3. /\ home \in [Players -> Points \cup {Wild, Nowhere}]
        /\ pos \in [Players -> Places] /\ at \in [Players -> Places]
        /\ told \in [Players -> [Players -> Places]]
    BY PlaceFacts DEF Init
  <2>4. mail \in [Players -> Seq(Places)]
    BY DEF Init
  <2>5. /\ lit \in [Players -> SUBSET Players]
        /\ heard \in [Players -> SUBSET Players]
        /\ link \in [Players -> {"up", "closed", "gone"}]
    BY DEF Init
  <2>6. RestTypes
    BY <2>2, <2>3, <2>4, <2>5 DEF Init, RestTypes
  <2> QED
    BY <2>1, <2>6, TypesInParts
<1>3. PhaseFits /\ OneEntry /\ LastNews
  BY <1>1 DEF Init, PhaseFits, OneEntry, LastNews
<1>4. NotYet
  <2>1. \A p \in Players : \A i \in DOMAIN jobs :
          jobs[i].player = p => Entry(i, p)
    BY <1>1 DEF Entry, EntryKinds
  <2> QED
    BY <2>1 DEF Init, NotYet
<1>5. PlacesAgree /\ LightsAgree /\ DisconnectedAreOut
  BY DEF Init, PlacesAgree, LightsAgree, DisconnectedAreOut
<1>6. PointsInTurn
  BY DEF Init, PointsInTurn, Placed
<1> QED
  BY <1>2, <1>3, <1>4, <1>5, <1>6 DEF IInv

(* Every step keeps the inductive invariant.                               *)
LEMMA NextIInv == IInv /\ [Next]_vars => IInv'
BY TypesNext, PhaseFitsNext, OneEntryNext, NotYetNext, PlacesNext,
  LastNewsNext,
   LightsNext, PointsNext, OutNext DEF IInv

(* The invariant, for any finite set of players and any start points.      *)
THEOREM PlayInvariantHolds == Spec => []IInv
BY InitIInv, NextIInv, PTL DEF Spec

(* Clients have been told the places the server has, whatever order moves, *)
(* starts, ends, entries and disconnections come in.                       *)
THEOREM PositionsAlwaysAgree == Spec => []PositionsAgree
<1>1. IInv => PositionsAgree
  <2> SUFFICES ASSUME IInv PROVE PositionsAgree
    OBVIOUS
  <2>1. \A p \in members : ~Running(p) => ~Entering(p)
    BY DEF Running, Entering
  <2> QED
    BY <2>1 DEF IInv, Types, PlacesAgree, PositionsAgree
<1> QED
  BY <1>1, PlayInvariantHolds, PTL

(* Who has heard of a light since it came in sees it as it is; who has not *)
(* sees it off.                                                            *)
THEOREM LightsAlwaysAgree == Spec => []LightsAgree
<1>1. IInv => LightsAgree
  BY DEF IInv
<1> QED
  BY <1>1, PlayInvariantHolds, PTL

(* Start points are each one's own until somebody leaves, and the table is *)
(* left only with too many players, or with none.                          *)
THEOREM StartPointsAreAlwaysOwn == Spec => []StartPointsAreOwn
<1>1. IInv => StartPointsAreOwn
  <2> SUFFICES ASSUME IInv PROVE StartPointsAreOwn
    OBVIOUS
  <2>1. ASSUME ~anyLeft, Cardinality(members) <= SpawnPoints
        PROVE  /\ ~halted
               /\ \A p, q \in members :
                    ~Running(p) => /\ home[p] \in Points
                                   /\ home[p] = home[q] => p = q
    <3>0. IsFiniteSet(members) /\ Cardinality(members) \in Nat
      BY MembersFinite DEF IInv
    <3>1. /\ ~halted
          /\ \A p \in Placed : home[p] \in 0 .. Cardinality(Placed) - 1
          /\ \A p, q \in Placed : home[p] = home[q] => p = q
          /\ \A p \in members \ Placed : home[p] = Nowhere
      BY <2>1 DEF IInv, PointsInTurn, Placed, Entering
    <3>2. Cardinality(Placed) \in Nat /\ Cardinality(Placed) <= SpawnPoints
      <4>1. Placed \subseteq members
        BY DEF Placed
      <4>2. /\ IsFiniteSet(Placed)
            /\ Cardinality(Placed) <= Cardinality(members)
        BY <3>0, <4>1, FS_Subset
      <4>3. Cardinality(Placed) \in Nat
        BY <4>2, FS_CardinalityType
      <4> QED
        BY <2>1, <3>0, <4>2, <4>3, PlayAssumption
    <3>3. \A p \in Placed : home[p] \in Points /\ home[p] # Nowhere
      BY <3>1, <3>2, PlayAssumption DEF Points, Nowhere
    <3>4. \A p \in members : ~Running(p) => p \in Placed
      BY DEF Placed, Running, Entering
    <3> QED
      BY <3>1, <3>3, <3>4
  <2> QED
    BY <2>1 DEF StartPointsAreOwn, IInv, PointsInTurn
<1> QED
  BY <1>1, PlayInvariantHolds, PTL

(* A player that came in with its session up is out once that has ended,   *)
(* unless OnDisconnected did not find it.                                  *)
THEOREM DisconnectedAreAlwaysOut == Spec => []DisconnectedAreOut
<1>1. IInv => DisconnectedAreOut
  BY DEF IInv
<1> QED
  BY <1>1, PlayInvariantHolds, PTL
=============================================================================
