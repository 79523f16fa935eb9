--------------------------- MODULE ListenerProofs ---------------------------
(***************************************************************************)
(* Proofs about Listener, for any number of accept events, sessions,       *)
(* clients and threads.                                                    *)
(***************************************************************************)
EXTENDS Listener, TLAPS

(* An event is with the kernel, in the port, with a thread or nowhere, and *)
(* in one of these only.                                                   *)
InOnePlace(e) ==
  /\ asked[e] > 0 \/ InPort(e) \/ InHand(e) \/ e \in lost
  /\ asked[e] > 0 => ~InPort(e) /\ ~InHand(e) /\ e \notin lost
  /\ InPort(e) => ~InHand(e) /\ e \notin lost
  /\ InHand(e) => e \notin lost

(* It is there once.                                                       *)
OnceInPort == \A i, j \in DOMAIN port : port[i] = port[j] => i = j
OneThread == \A t, u \in Threads, e \in Slots : Has(t, e) /\ Has(u, e) => t = u

(* Events that StartAccept has not made yet are in none of them.           *)
NotStarted ==
  \A e \in Slots : e > started =>
    /\ asked[e] = 0 /\ ~InPort(e) /\ ~InHand(e) /\ e \notin lost
    /\ sessionRef[e] = 0

(* Those it has made have a session each.                                  *)
Started ==
  \A e \in Slots : e <= started => InOnePlace(e) /\ sessionRef[e] \in Sessions

OwnSessions ==
  \A e, f \in Slots :
    e <= started /\ f <= started /\ sessionRef[e] = sessionRef[f] => e = f

(* What a thread has of an event: the session it was accepted with, which  *)
(* is new at first and connected, or without a client, later.              *)
TasksOK ==
  \A t \in Threads : task[t] # Idle =>
    /\ task[t].session = sessionRef[task[t].event]
    /\ task[t].step = "accepted" => task[t].session \notin connected
    /\ task[t].step = "register" =>
         task[t].session \in connected \/ peer[task[t].session] = None

(* The sessions clients are going to be given have not been used; those    *)
(* that have been forgotten have no client.                                *)
Fresh ==
  \A e \in Slots :
    /\ asked[e] > 0 =>
         sessionRef[e] \notin connected /\ peer[sessionRef[e]] = None
    /\ InPort(e) => sessionRef[e] \notin connected

NobodyForgotten == \A s \in Sessions : peer[s] # None => Referenced(s)

(* The inductive invariant.                                                *)
IInv ==
  /\ TypeOK
  /\ OnceInPort /\ OneThread
  /\ NotStarted /\ Started /\ OwnSessions
  /\ TasksOK /\ Fresh /\ NobodyForgotten

-----------------------------------------------------------------------------
(* A completion goes to the end of the port.                               *)
LEMMA PortAppends ==
  ASSUME port \in Seq(Slots), NEW e \in Slots, port' = Append(port, e)
  PROVE  /\ port' \in Seq(Slots)
         /\ \A f : InPort(f)' <=> InPort(f) \/ f = e
         /\ OnceInPort /\ ~InPort(e) => OnceInPort'
<1>1. /\ port' \in Seq(Slots) /\ Len(port) \in Nat
      /\ DOMAIN port = 1 .. Len(port) /\ DOMAIN port' = 1 .. Len(port) + 1
      /\ \A i \in 1 .. Len(port) : port'[i] = port[i]
      /\ port'[Len(port) + 1] = e
  OBVIOUS
<1>2. \A i : i \in DOMAIN port' <=> i \in DOMAIN port \/ i = Len(port) + 1
  BY <1>1
<1>3. \A f : InPort(f)' <=> InPort(f) \/ f = e
  BY <1>1, <1>2 DEF InPort
<1>4. OnceInPort /\ ~InPort(e) => OnceInPort'
  BY <1>1, <1>2 DEF OnceInPort, InPort
<1> QED
  BY <1>1, <1>3, <1>4

(* It is taken from the front.                                             *)
LEMMA PortTakes ==
  ASSUME port \in Seq(Slots), port # <<>>, port' = Tail(port), OnceInPort
  PROVE  /\ port' \in Seq(Slots) /\ Head(port) \in Slots /\ InPort(Head(port))
         /\ \A f : InPort(f)' <=> InPort(f) /\ f # Head(port)
         /\ OnceInPort'
<1>1. /\ port' \in Seq(Slots) /\ Len(port) \in Nat \ {0}
      /\ DOMAIN port = 1 .. Len(port) /\ DOMAIN port' = 1 .. Len(port) - 1
      /\ \A i \in 1 .. Len(port) - 1 : port'[i] = port[i + 1]
      /\ Head(port) = port[1] /\ port[1] \in Slots
  OBVIOUS
<1>2. /\ \A i \in DOMAIN port' : i + 1 \in DOMAIN port /\ i + 1 # 1
      /\ \A i \in DOMAIN port : i = 1 \/ (i - 1 \in DOMAIN port'
           /\ i = i - 1 + 1)
      /\ 1 \in DOMAIN port
  BY <1>1
<1>3. InPort(Head(port))
  BY <1>1, <1>2 DEF InPort
<1>4. OnceInPort'
  <2>1. ASSUME NEW i \in DOMAIN port', NEW j \in DOMAIN port',
               port'[i] = port'[j]
        PROVE  i = j
    <3>1. port[i + 1] = port[j + 1] /\ i \in Int /\ j \in Int
      BY <1>1, <2>1
    <3>2. i + 1 = j + 1
      BY <1>2, <2>1, <3>1 DEF OnceInPort
    <3> QED
      BY <3>1, <3>2
  <2> QED
    BY <2>1 DEF OnceInPort
<1>5. ASSUME NEW f, InPort(f)' PROVE InPort(f) /\ f # Head(port)
  <2>1. PICK i \in DOMAIN port' : port'[i] = f
    BY <1>5 DEF InPort
  <2>2. port[i + 1] = f /\ i + 1 \in DOMAIN port /\ i + 1 # 1
    BY <1>1, <1>2, <2>1
  <2> QED
    BY <1>1, <1>2, <2>2 DEF InPort, OnceInPort
<1>6. ASSUME NEW f, InPort(f), f # Head(port) PROVE InPort(f)'
  <2>1. PICK i \in DOMAIN port : port[i] = f
    BY <1>6 DEF InPort
  <2>2. i - 1 \in DOMAIN port' /\ i = i - 1 + 1
    BY <1>1, <1>2, <1>6, <2>1
  <2>3. port'[i - 1] = f
    BY <1>1, <2>1, <2>2
  <2> QED
    BY <2>2, <2>3 DEF InPort
<1> QED
  BY <1>1, <1>3, <1>4, <1>5, <1>6

(* What a thread has is an event and a session.                            *)
LEMMA TaskTypes ==
  ASSUME TypeOK, NEW t \in Threads
  PROVE  /\ task[t] # Idle =>
              /\ task[t].step \in {"accepted", "register"}
              /\ task[t].event \in Slots /\ task[t].session \in Sessions
         /\ task[t].step \in {"accepted", "register"} => task[t] # Idle
BY DEF TypeOK, Idle

-----------------------------------------------------------------------------
(* A new session is nobody's, and has no client.                           *)
LEMMA NewIsFresh ==
  ASSUME IInv, NEW e \in Slots, NEW s \in Sessions, NewSession(e, s)
  PROVE  /\ s \notin connected /\ peer[s] = None
         /\ \A f \in Slots : sessionRef[f] # s
         /\ \A t \in Threads : task[t] # Idle => task[t].session # s
<1>1. ~Referenced(s)
  BY DEF NewSession
<1> QED
  BY <1>1 DEF Referenced, IInv, NobodyForgotten

(* RegisterAccept, of an event that is nowhere or with the thread that     *)
(* lets go of it: the event gets a place, and a session of its own.        *)
LEMMA RegisterStep ==
  ASSUME IInv, NEW e \in Slots, RegisterAccept(e),
         e > started \/ InHand(e),
         UNCHANGED <<port, peer, connected>>,
         started' \in 0 .. MaxSlots,
         \A f \in Slots : f <= started' <=> f <= started \/ f = e,
         task' \in [Threads -> {Idle} \cup [step : {"accepted", "register"},
                                            event : Slots,
                                              session : Sessions]],
         \A t \in Threads :
           \/ Has(t, e) /\ task[t].step = "register" /\ task'[t] = Idle
           \/ ~Has(t, e) /\ task'[t] = task[t],
         serving' \in BOOLEAN, backlog' \in Seq(Clients)
  PROVE  IInv'
<1> USE DEF IInv
<1>1. asked[e] = 0 /\ ~InPort(e) /\ e \notin lost
  <2>1. CASE e > started
    BY <2>1 DEF NotStarted
  <2>2. CASE e <= started
    <3>1. InHand(e)
      BY <2>2 DEF TypeOK, Slots
    <3> QED
      BY <2>2, <3>1 DEF Started, InOnePlace, TypeOK
  <2> QED
    BY <2>1, <2>2 DEF TypeOK, Slots
<1>2. PICK s \in Sessions :
        NewSession(e, s) /\ sessionRef' = [sessionRef EXCEPT ![e] = s]
  BY DEF RegisterAccept
<1>3. /\ s \notin connected /\ peer[s] = None
      /\ \A f \in Slots : sessionRef[f] # s
      /\ \A t \in Threads : task[t] # Idle => task[t].session # s
  BY <1>2, NewIsFresh
<1>4. /\ \A f \in Slots : f # e
           => asked'[f] = asked[f] /\ (f \in lost' <=> f \in lost)
      /\ \/ asked'[e] = 1 /\ e \notin lost'
         \/ asked'[e] = 0 /\ e \in lost'
      /\ asked' \in [Slots -> 0 .. 1] /\ lost' \subseteq Slots
  BY <1>1 DEF RegisterAccept, Ask, TypeOK
<1>5. /\ \A f \in Slots : f # e => sessionRef'[f] = sessionRef[f]
      /\ sessionRef'[e] = s
      /\ sessionRef' \in [Slots -> Sessions \cup {0}]
  BY <1>2 DEF TypeOK
<1>6. \A f : InPort(f)' <=> InPort(f)
  BY DEF InPort
<1>7. \A t \in Threads, f \in Slots : Has(t, f)' <=> Has(t, f) /\ f # e
  BY DEF Has
<1>8. \A f \in Slots : InHand(f)' <=> InHand(f) /\ f # e
  BY <1>7 DEF InHand
<1>9. TypeOK'
  BY <1>4, <1>5 DEF TypeOK
<1>10. OnceInPort'
  BY DEF OnceInPort
<1>11. OneThread'
  BY <1>7 DEF OneThread
<1>12. NotStarted'
  <2>1. \A f \in Slots : f > started' => f > started /\ f # e
    BY <1>9 DEF TypeOK, Slots
  <2> QED
    BY <2>1, <1>4, <1>5, <1>6, <1>8 DEF NotStarted
<1>13. Started'
  BY <1>1, <1>4, <1>5, <1>6, <1>8 DEF Started, InOnePlace
<1>14. OwnSessions'
  BY <1>3, <1>5 DEF OwnSessions
<1>15. TasksOK'
  <2>1. ASSUME NEW t \in Threads, task'[t] # Idle
        PROVE  task'[t] = task[t] /\ task[t].event # e
          /\ task[t].event \in Slots
    BY <2>1, TaskTypes DEF Has
  <2> QED
    BY <2>1, <1>5 DEF TasksOK
<1>16. Fresh'
  BY <1>1, <1>3, <1>4, <1>5, <1>6 DEF Fresh
<1>17. NobodyForgotten'
  <2>1. ASSUME NEW r \in Sessions, peer[r] # None PROVE Referenced(r)'
    <3>1. CASE r \in connected
      BY <3>1 DEF Referenced
    <3>2. CASE r \notin connected
      <4>1. r # sessionRef[e] \/ e > started
        <5>1. ASSUME NEW t \in Threads, Has(t, e)
              PROVE  r # sessionRef[e]
          BY <2>1, <3>2, <5>1 DEF TasksOK, Has
        <5> QED
          BY <5>1 DEF InHand
      <4>2. e > started => sessionRef[e] = 0 /\ 0 \notin Sessions
        BY DEF NotStarted, Sessions
      <4>3. r # sessionRef[e]
        BY <4>1, <4>2
      <4>4. CASE \E f \in Slots : sessionRef[f] = r
        BY <4>3, <4>4, <1>5 DEF Referenced
      <4>5. CASE \E t \in Threads : task[t] # Idle /\ task[t].session = r
        BY <4>3, <4>5, <1>5, TaskTypes DEF Referenced, TasksOK
      <4> QED
        BY <2>1, <3>2, <4>4, <4>5 DEF NobodyForgotten, Referenced
    <3> QED
      BY <3>1, <3>2
  <2> QED
    BY <2>1 DEF NobodyForgotten
<1> QED
  BY <1>9, <1>10, <1>11, <1>12, <1>13, <1>14, <1>15, <1>16, <1>17

(* Dispatch: the event goes from the port to a thread.                     *)
LEMMA DispatchStep ==
  ASSUME IInv, NEW t \in Threads, Dispatch(t)
  PROVE  IInv'
<1> USE DEF IInv
<1> DEFINE e == Head(port)
<1>1. /\ e \in Slots /\ InPort(e) /\ port' \in Seq(Slots) /\ OnceInPort'
      /\ \A f : InPort(f)' <=> InPort(f) /\ f # e
  BY PortTakes DEF Dispatch, TypeOK
<1>2. e <= started /\ sessionRef[e] \in Sessions /\ asked[e] = 0 /\ ~InHand(e)
        /\ e \notin lost /\ sessionRef[e] \notin connected
  BY <1>1 DEF NotStarted, Started, InOnePlace, Fresh, TypeOK, Slots
<1>3. /\ task[t] = Idle
      /\ task' = [task EXCEPT ![t] = [step |-> "accepted", event |-> e,
                                      session |-> sessionRef[e]]]
      /\ UNCHANGED <<serving, started, sessionRef, asked, peer, backlog,
                     connected, lost>>
  BY DEF Dispatch
<1> HIDE DEF e
<1>4. /\ task'[t] # Idle /\ task'[t].step = "accepted"
      /\ task'[t].event = e /\ task'[t].session = sessionRef[e]
      /\ \A u \in Threads : u # t => task'[u] = task[u]
  BY <1>3 DEF TypeOK, Idle
<1>5. TypeOK'
  BY <1>1, <1>2, <1>3 DEF TypeOK
<1>6. \A u \in Threads, f \in Slots :
        Has(u, f)' <=> Has(u, f) \/ (u = t /\ f = e)
  BY <1>3, <1>4 DEF Has
<1>7. \A f \in Slots : InHand(f)' <=> InHand(f) \/ f = e
  BY <1>6 DEF InHand
<1>8. OneThread'
  BY <1>2, <1>6 DEF OneThread, InHand
<1>9. NotStarted' /\ Started' /\ OwnSessions' /\ Fresh'
  <2>1. e > started => FALSE
    BY <1>1, <1>2 DEF TypeOK, Slots
  <2> QED
    BY <2>1, <1>1, <1>2, <1>3, <1>7
       DEF NotStarted, Started, InOnePlace, OwnSessions, Fresh
<1>10. TasksOK'
  BY <1>2, <1>3, <1>4 DEF TasksOK
<1>11. NobodyForgotten'
  <2>1. \A s \in Sessions : Referenced(s) => Referenced(s)'
    BY <1>3, <1>4 DEF Referenced
  <2> QED
    BY <2>1, <1>3 DEF NobodyForgotten
<1> QED
  BY <1>1, <1>5, <1>8, <1>9, <1>10, <1>11

(* Refuse and ProcessConnect: the thread goes on to register the event.    *)
LEMMA AcceptedStep ==
  ASSUME IInv, NEW t \in Threads, Refuse(t) \/ ProcessConnect(t)
  PROVE  IInv'
<1> USE DEF IInv
<1> DEFINE e == task[t].event  s == task[t].session
<1>1. task[t] # Idle /\ task[t].step = "accepted"
  BY TaskTypes DEF Refuse, ProcessConnect
<1>2. /\ e \in Slots /\ s \in Sessions /\ s = sessionRef[e]
      /\ s \notin connected /\ Has(t, e) /\ InHand(e)
  BY <1>1, TaskTypes DEF TasksOK, Has, InHand
<1>3. /\ e <= started /\ asked[e] = 0 /\ ~InPort(e)
  BY <1>2 DEF NotStarted, Started, InOnePlace, TypeOK, Slots
<1>4. /\ task' = [task EXCEPT ![t].step = "register"]
      /\ UNCHANGED <<serving, started, sessionRef, asked, port, peer, backlog,
                     lost>>
      /\ \/ connected' = connected /\ peer[s] = None
         \/ connected' = connected \cup {s}
  BY DEF Refuse, ProcessConnect, UseAgain, kernelVars
<1>5. /\ task'[t] = [step |-> "register", event |-> e, session |-> s]
      /\ \A u \in Threads : u # t => task'[u] = task[u]
  BY <1>1, <1>4 DEF TypeOK, Idle
<1> HIDE DEF e, s
<1>6. task'[t] # Idle /\ task'[t].event = e /\ task'[t].session = s
        /\ task'[t].step = "register"
  BY <1>5 DEF Idle
<1>7. TypeOK'
  BY <1>2, <1>4, <1>5 DEF TypeOK
<1>8. \A u \in Threads, f \in Slots : Has(u, f)' <=> Has(u, f)
  BY <1>1, <1>5, <1>6 DEF Has, e
<1>9. \A f \in Slots : (InHand(f)' <=> InHand(f)) /\ (InPort(f)' <=> InPort(f))
  BY <1>4, <1>8 DEF InHand, InPort
<1>10. OnceInPort' /\ OneThread'
  BY <1>4, <1>8 DEF OnceInPort, OneThread
<1>11. NotStarted' /\ Started' /\ OwnSessions'
  BY <1>4, <1>9 DEF NotStarted, Started, InOnePlace, OwnSessions
<1>12. \A f \in Slots : f # e /\ f <= started => sessionRef[f] # s
  BY <1>2, <1>3 DEF OwnSessions
<1>13. Fresh'
  <2>1. ASSUME NEW f \in Slots, asked[f] > 0 \/ InPort(f)
        PROVE  sessionRef[f] # s
    <3>1. f # e
      BY <2>1, <1>3
    <3>2. f <= started
      BY <2>1 DEF NotStarted, TypeOK, Slots
    <3> QED
      BY <3>1, <3>2, <1>12
  <2> QED
    BY <2>1, <1>4, <1>9 DEF Fresh
<1>14. TasksOK'
  <2>1. ASSUME NEW u \in Threads, u # t, task[u] # Idle
        PROVE  task[u].session # s
    <3>1. task[u].event \in Slots
            /\ task[u].session = sessionRef[task[u].event]
            /\ Has(u, task[u].event)
      BY <2>1, TaskTypes DEF TasksOK, Has
    <3>2. task[u].event # e
      BY <2>1, <3>1, <1>2 DEF OneThread
    <3>3. task[u].event <= started
      BY <3>1 DEF NotStarted, InHand, TypeOK, Slots
    <3> QED
      BY <3>1, <3>2, <3>3, <1>12
  <2>2. \A u \in Threads : u # t => task'[u] = task[u]
    BY <1>5
  <2> QED
    BY <2>1, <2>2, <1>2, <1>4, <1>6 DEF TasksOK
<1>15. NobodyForgotten'
  <2>1. \A r \in Sessions : Referenced(r) => Referenced(r)'
    BY <1>4, <1>5, <1>6 DEF Referenced, s
  <2> QED
    BY <2>1, <1>4 DEF NobodyForgotten
<1> QED
  BY <1>7, <1>10, <1>11, <1>13, <1>14, <1>15

(* Accept: the event goes from the kernel to the port, and its session is  *)
(* given a client, or none.                                                *)
LEMMA AcceptStep ==
  ASSUME IInv, NEW e \in Slots, Accept(e)
  PROVE  IInv'
<1> USE DEF IInv
<1>1. /\ asked[e] = 1 /\ e <= started
      /\ ~InPort(e) /\ ~InHand(e) /\ e \notin lost
      /\ sessionRef[e] \in Sessions /\ sessionRef[e] \notin connected
  BY DEF Accept, NotStarted, Started, InOnePlace, Fresh, TypeOK, Slots
<1>2. /\ port' \in Seq(Slots) /\ OnceInPort'
      /\ \A f : InPort(f)' <=> InPort(f) \/ f = e
  BY <1>1, PortAppends DEF Accept, TypeOK
<1>3. PICK c \in {Head(backlog), None} :
        peer' = [peer EXCEPT ![sessionRef[e]] = c]
  BY DEF Accept
<1>4. /\ asked' = [asked EXCEPT ![e] = 0]
      /\ UNCHANGED <<serving, started, sessionRef, task, connected, lost>>
  BY <1>1 DEF Accept, TypeOK
<1>5. c \in Clients \cup {None} /\ backlog' \in Seq(Clients)
  BY <1>3 DEF Accept, TypeOK
<1>6. TypeOK'
  <2>1. asked' \in [Slots -> 0 .. 1]
    BY <1>4 DEF TypeOK
  <2>2. peer' \in [Sessions -> Clients \cup {None}]
    BY <1>3, <1>5 DEF TypeOK
  <2> QED
    BY <2>1, <2>2, <1>2, <1>4, <1>5 DEF TypeOK
<1>7. /\ \A f \in Slots : InHand(f)' <=> InHand(f)
      /\ OneThread'
  BY <1>4 DEF InHand, Has, OneThread
<1>8. NotStarted' /\ Started' /\ OwnSessions'
  <2>1. /\ \A f \in Slots : f # e => asked'[f] = asked[f]
        /\ asked'[e] = 0
    BY <1>4 DEF TypeOK
  <2>2. ~(e > started)
    BY <1>1 DEF TypeOK, Slots
  <2> QED
    BY <2>1, <2>2, <1>1, <1>2, <1>4, <1>7
       DEF NotStarted, Started, InOnePlace, OwnSessions
<1>9. \A s \in Sessions : s # sessionRef[e] => peer'[s] = peer[s]
  BY <1>3 DEF TypeOK
<1>10. TasksOK'
  <2>1. ASSUME NEW t \in Threads, task[t] # Idle
        PROVE  task[t].session \in Sessions /\ task[t].session # sessionRef[e]
    <3>1. /\ task[t].event \in Slots /\ Has(t, task[t].event)
          /\ task[t].session = sessionRef[task[t].event]
          /\ task[t].session \in Sessions
      BY <2>1, TaskTypes DEF TasksOK, Has
    <3>2. task[t].event # e /\ task[t].event <= started
      BY <3>1, <1>1 DEF InHand, NotStarted, TypeOK, Slots
    <3> QED
      BY <3>1, <3>2, <1>1 DEF OwnSessions
  <2> QED
    BY <2>1, <1>4, <1>9 DEF TasksOK
<1>11. Fresh'
  <2>1. ASSUME NEW f \in Slots, f # e, asked[f] > 0
        PROVE  sessionRef[f] \in Sessions /\ sessionRef[f] # sessionRef[e]
    BY <2>1, <1>1 DEF NotStarted, Started, OwnSessions, TypeOK, Slots
  <2>2. \A f \in Slots : f # e => asked'[f] = asked[f]
    BY <1>4 DEF TypeOK
  <2>3. asked'[e] = 0
    BY <1>4 DEF TypeOK
  <2> QED
    BY <2>1, <2>2, <2>3, <1>1, <1>2, <1>4, <1>9 DEF Fresh
<1>12. NobodyForgotten'
  <2>1. \A s \in Sessions : Referenced(s)' <=> Referenced(s)
    BY <1>4 DEF Referenced
  <2> QED
    <3>1. ASSUME NEW s \in Sessions, peer'[s] # None PROVE Referenced(s)'
      <4>1. CASE s = sessionRef[e]
        BY <4>1, <1>4 DEF Referenced
      <4>2. CASE s # sessionRef[e]
        BY <3>1, <4>2, <2>1, <1>9 DEF NobodyForgotten
      <4> QED
        BY <4>1, <4>2
    <3> QED
      BY <3>1 DEF NobodyForgotten
<1> QED
  BY <1>2, <1>6, <1>7, <1>8, <1>10, <1>11, <1>12

(* A client that has gone leaves nobody behind it, and only sessions       *)
(* without a client are forgotten.                                         *)
LEMMA LeaveStep ==
  ASSUME IInv, NEW s \in Sessions, Leave(s) \/ EndSession(s)
  PROVE  IInv'
<1> USE DEF IInv
<1>1. /\ UNCHANGED <<serving, started, sessionRef, asked, port, backlog, task,
                     lost>>
      /\ connected' \subseteq connected
      /\ \A r \in Sessions : r \in connected /\ r \notin connected' =>
           r = s /\ peer'[r] = None
      /\ \A r \in Sessions : peer'[r] = peer[r] \/ peer'[r] = None
      /\ peer' \in [Sessions -> Clients \cup {None}]
  BY DEF Leave, EndSession, TypeOK, kernelVars
<1>2. TypeOK'
  BY <1>1 DEF TypeOK
<1>3. /\ \A f \in Slots : (InPort(f)' <=> InPort(f))
           /\ (InHand(f)' <=> InHand(f))
      /\ OnceInPort' /\ OneThread'
  BY <1>1 DEF InPort, InHand, Has, OnceInPort, OneThread
<1>4. NotStarted' /\ Started' /\ OwnSessions'
  BY <1>1, <1>3 DEF NotStarted, Started, InOnePlace, OwnSessions
<1>5. TasksOK'
  BY <1>1, TaskTypes DEF TasksOK
<1>6. Fresh'
  <2>1. \A f \in Slots : asked[f] > 0 => sessionRef[f] \in Sessions
    BY DEF NotStarted, Started, TypeOK, Slots
  <2> QED
    BY <2>1, <1>1, <1>3 DEF Fresh
<1>7. NobodyForgotten'
  <2>1. \A r \in Sessions : Referenced(r) /\ ~Referenced(r)' => peer'[r] = None
    BY <1>1 DEF Referenced
  <2> QED
    BY <2>1, <1>1 DEF NobodyForgotten
<1> QED
  BY <1>2, <1>3, <1>4, <1>5, <1>6, <1>7

(* What else goes on leaves the events and the sessions alone.             *)
LEMMA QuietStep ==
  ASSUME IInv, serving' \in BOOLEAN, backlog' \in Seq(Clients),
         UNCHANGED <<started, sessionRef, asked, port, peer, task, connected,
                     lost>>
  PROVE  IInv'
<1> USE DEF IInv
<1>1. TypeOK'
  BY DEF TypeOK
<1>2. /\ \A f \in Slots : (InPort(f)' <=> InPort(f))
           /\ (InHand(f)' <=> InHand(f))
      /\ OnceInPort' /\ OneThread'
  BY DEF InPort, InHand, Has, OnceInPort, OneThread
<1>3. NotStarted' /\ Started' /\ OwnSessions' /\ Fresh' /\ TasksOK'
  BY <1>2 DEF NotStarted, Started, InOnePlace, OwnSessions, Fresh, TasksOK
<1>4. NobodyForgotten'
  BY DEF NobodyForgotten, Referenced
<1> QED
  BY <1>1, <1>2, <1>3, <1>4

-----------------------------------------------------------------------------
(* Before the server starts the invariant holds.                           *)
LEMMA InitIInv == Init => IInv
<1> SUFFICES ASSUME Init PROVE IInv
  OBVIOUS
<1>1. TypeOK
  <2>1. started \in 0 .. MaxSlots
    BY ListenerAssumption DEF Init
  <2>2. port \in Seq(Slots) /\ backlog \in Seq(Clients)
    BY DEF Init
  <2>3. /\ sessionRef \in [Slots -> Sessions \cup {0}]
        /\ asked \in [Slots -> 0 .. 1]
    BY DEF Init
  <2>4. task \in [Threads -> {Idle} \cup [step : {"accepted", "register"},
                                         event : Slots, session : Sessions]]
    BY DEF Init
  <2>5. /\ serving \in BOOLEAN /\ connected \subseteq Sessions
        /\ peer \in [Sessions -> Clients \cup {None}] /\ lost \subseteq Slots
    BY DEF Init
  <2> QED
    BY <2>1, <2>2, <2>3, <2>4, <2>5 DEF TypeOK
<1>2. OnceInPort /\ OneThread
  BY DEF Init, OnceInPort, OneThread, Has
<1>3. NotStarted /\ Started /\ OwnSessions
  BY DEF Init, NotStarted, Started, OwnSessions, InPort, InHand, Has, Slots
<1>4. TasksOK /\ Fresh /\ NobodyForgotten
  BY DEF Init, TasksOK, Fresh, NobodyForgotten, InPort
<1> QED
  BY <1>1, <1>2, <1>3, <1>4 DEF IInv

(* No step of main, the workers, the kernel or the clients breaks it.      *)
LEMMA NextIInv == IInv /\ [Next]_vars => IInv'
<1> SUFFICES ASSUME IInv, [Next]_vars PROVE IInv'
  OBVIOUS
<1>1. TypeOK
  BY DEF IInv
<1>2. CASE StartAccept
  <2>1. /\ started + 1 \in Slots /\ started + 1 > started
        /\ started' = started + 1 /\ started' \in 0 .. MaxSlots
        /\ RegisterAccept(started + 1)
        /\ UNCHANGED <<serving, port, peer, backlog, task, connected>>
    BY <1>1, <1>2, ListenerAssumption DEF StartAccept, TypeOK, Slots
  <2>2. \A f \in Slots : f <= started' <=> f <= started \/ f = started + 1
    BY <1>1, <2>1 DEF TypeOK, Slots
  <2>3. \A t \in Threads : ~Has(t, started + 1)
    BY <2>1 DEF IInv, NotStarted, InHand
  <2> QED
    BY <1>1, <2>1, <2>2, <2>3, RegisterStep DEF TypeOK
<1>3. CASE Launch
  BY <1>1, <1>3, QuietStep DEF Launch, kernelVars, TypeOK
<1>4. ASSUME NEW t \in Threads, Dispatch(t) PROVE IInv'
  BY <1>4, DispatchStep
<1>5. ASSUME NEW t \in Threads, Refuse(t) \/ ProcessConnect(t) PROVE IInv'
  BY <1>5, AcceptedStep
<1>6. ASSUME NEW t \in Threads, Register(t) PROVE IInv'
  <2> DEFINE e == task[t].event
  <2>1. /\ task[t] # Idle /\ task[t].step = "register" /\ e \in Slots
        /\ Has(t, e) /\ InHand(e)
    BY <1>1, <1>6, TaskTypes DEF Register, Has, InHand
  <2>2. /\ RegisterAccept(e) /\ task' = [task EXCEPT ![t] = Idle]
        /\ UNCHANGED <<serving, started, port, peer, backlog, connected>>
    BY <1>6 DEF Register
  <2> HIDE DEF e
  <2>3. \A u \in Threads : u # t => ~Has(u, e)
    BY <2>1 DEF IInv, OneThread
  <2>4. \A u \in Threads :
          \/ Has(u, e) /\ task[u].step = "register" /\ task'[u] = Idle
          \/ ~Has(u, e) /\ task'[u] = task[u]
    BY <1>1, <2>1, <2>2, <2>3 DEF TypeOK
  <2>5. task' \in [Threads -> {Idle} \cup [step : {"accepted", "register"},
                                           event : Slots, session : Sessions]]
    BY <1>1, <2>2 DEF TypeOK
  <2>6. e <= started
    BY <1>1, <2>1 DEF IInv, NotStarted, TypeOK, Slots
  <2> QED
    BY <1>1, <2>1, <2>2, <2>4, <2>5, <2>6, RegisterStep DEF TypeOK
<1>7. ASSUME NEW e \in Slots, Accept(e) PROVE IInv'
  BY <1>7, AcceptStep
<1>8. ASSUME NEW c \in Clients, Connect(c) PROVE IInv'
  <2>1. backlog' \in Seq(Clients) /\ serving' \in BOOLEAN
    BY <1>1, <1>8 DEF Connect, TypeOK
  <2> QED
    BY <1>8, <2>1, QuietStep DEF Connect
<1>9. ASSUME NEW s \in Sessions, Leave(s) \/ EndSession(s) PROVE IInv'
  BY <1>9, LeaveStep
<1>10. CASE UNCHANGED vars
  BY <1>1, <1>10, QuietStep DEF vars, kernelVars, TypeOK
<1> QED
  BY <1>2, <1>3, <1>4, <1>5, <1>6, <1>7, <1>8, <1>9, <1>10
     DEF Next, ThreadStep, KernelStep

-----------------------------------------------------------------------------
(* The inductive invariant of the listener holds, for any number of        *)
(* events, sessions, clients and threads.                                  *)
THEOREM ListenerInvariantHolds == Spec => []IInv
<1> QED
  BY InitIInv, NextIInv, PTL DEF Spec

(* The four places of an event, told apart one by one.                     *)
LEMMA PlaceByPlace ==
  ASSUME NEW e, InOnePlace(e)
  PROVE  \E i \in 1 .. 4 : \A j \in 1 .. 4 : Places(e)[j] <=> i = j
<1>1. /\ Places(e)[1] <=> asked[e] > 0
      /\ Places(e)[2] <=> InPort(e)
      /\ Places(e)[3] <=> InHand(e)
      /\ Places(e)[4] <=> e \in lost
  BY DEF Places
<1>2. \A j \in 1 .. 4 : j = 1 \/ j = 2 \/ j = 3 \/ j = 4
  OBVIOUS
<1>3. CASE asked[e] > 0
  <2>1. \A j \in 1 .. 4 : Places(e)[j] <=> 1 = j
    BY <1>1, <1>2, <1>3 DEF InOnePlace
  <2> QED
    BY <2>1
<1>4. CASE InPort(e)
  <2>1. \A j \in 1 .. 4 : Places(e)[j] <=> 2 = j
    BY <1>1, <1>2, <1>4 DEF InOnePlace
  <2> QED
    BY <2>1
<1>5. CASE InHand(e)
  <2>1. \A j \in 1 .. 4 : Places(e)[j] <=> 3 = j
    BY <1>1, <1>2, <1>5 DEF InOnePlace
  <2> QED
    BY <2>1
<1>6. CASE e \in lost
  <2>1. \A j \in 1 .. 4 : Places(e)[j] <=> 4 = j
    BY <1>1, <1>2, <1>6 DEF InOnePlace
  <2> QED
    BY <2>1
<1> QED
  BY <1>3, <1>4, <1>5, <1>6 DEF InOnePlace

(* No accept event is doubled, and none is lost but by an AcceptEx that    *)
(* fails at once.                                                          *)
THEOREM SlotsStayKept == Spec => []SlotsAreKept
<1>1. IInv => SlotsAreKept
  <2> SUFFICES ASSUME IInv PROVE SlotsAreKept
    OBVIOUS
  <2>1. \A e \in 1 .. started : e \in Slots /\ e <= started
    BY ListenerAssumption DEF IInv, TypeOK, Slots
  <2>2. \A e \in 1 .. started : InOnePlace(e)
    BY <2>1 DEF IInv, Started
  <2>3. \A e \in 1 .. started :
          \E i \in 1 .. 4 : \A j \in 1 .. 4 : Places(e)[j] <=> i = j
    BY <2>2, PlaceByPlace
  <2> QED
    BY <2>1, <2>3 DEF SlotsAreKept, IInv, OnceInPort, OneThread
<1> QED
  BY <1>1, ListenerInvariantHolds, PTL

(* A client is never given a session that is in use or has been.           *)
THEOREM SessionsStayFresh == Spec => []SessionsAreFresh
<1>1. IInv => SessionsAreFresh
  <2> SUFFICES ASSUME IInv PROVE SessionsAreFresh
    OBVIOUS
  <2>1. \A t \in Threads :
          task[t].step = "accepted" => task[t].session \notin connected
    BY TaskTypes DEF IInv, TasksOK
  <2>2. \A e \in 1 .. started : e \in Slots /\ e <= started
    BY ListenerAssumption DEF IInv, TypeOK, Slots
  <2> QED
    BY <2>1, <2>2 DEF SessionsAreFresh, IInv, Fresh, OwnSessions
<1> QED
  BY <1>1, ListenerInvariantHolds, PTL
=============================================================================
