------------------------------ MODULE Listener ------------------------------
(***************************************************************************)
(* How clients get in: ServerService::Start gives the kernel one AcceptEx  *)
(* for each of a fixed number of AcceptEvents, each with a session made    *)
(* for it, and the worker that takes a completion hands the session to     *)
(* ProcessConnect and gives the event back to the kernel with a new one.   *)
(* What a session does once it is connected is in Session.                 *)
(***************************************************************************)
EXTENDS Integers, Sequences

CONSTANTS
  MaxSlots,     \* _socketCountMax: AcceptEvents (ten in main)
  MaxSessions,  \* bound: Session objects that exist at the same time
  Clients,
  Threads,      \* worker threads
  None

ASSUME ListenerAssumption ==
  /\ MaxSlots \in Nat /\ MaxSessions \in Nat
  /\ None \notin Clients

Slots == 1 .. MaxSlots
Sessions == 1 .. MaxSessions

VARIABLES
  serving,     \* main has launched the workers
  started,     \* AcceptEvents that StartAccept has made: 1 .. started
  sessionRef,  \* AcceptEvent::sessionRef, or 0
  asked,       \* AcceptEx calls the kernel has for an event
  port,        \* events that have completed, in their order
  task,        \* what thread t is doing, and for which event and session
  connected,   \* sessions that ProcessConnect has connected
  peer,        \* the client at the other end of a session's socket
  backlog,     \* clients that nobody has accepted yet
  lost         \* history: events whose AcceptEx failed at once

kernelVars == <<asked, port, peer, backlog>>
vars == <<serving, started, sessionRef, kernelVars, task, connected, lost>>

Idle == [step |-> "none"]

Init ==
  /\ serving = FALSE
  /\ started = 0
  /\ sessionRef = [e \in Slots |-> 0]
  /\ asked = [e \in Slots |-> 0]
  /\ port = <<>>
  /\ task = [t \in Threads |-> Idle]
  /\ connected = {}
  /\ peer = [s \in Sessions |-> None]
  /\ backlog = <<>>
  /\ lost = {}

-----------------------------------------------------------------------------
InPort(e) == \E i \in DOMAIN port : port[i] = e
Has(t, e) == task[t] # Idle /\ task[t].event = e
InHand(e) == \E t \in Threads : Has(t, e)
Waiting(c) == \E i \in DOMAIN backlog : backlog[i] = c
Linked(c) == \E s \in Sessions : peer[s] = c

(* Session objects that somebody holds: an event, a call of ProcessAccept  *)
(* or, once it is connected, GSESSIONS.                                    *)
Referenced(s) ==
  \/ \E e \in Slots : sessionRef[e] = s
  \/ \E t \in Threads : task[t] # Idle /\ task[t].session = s
  \/ s \in connected

(* _sessioFunction makes a session that nobody has.  (Variant: the event   *)
(* goes on with the session it has.)                                       *)
OldSession(e, s) == s = IF sessionRef[e] = 0 THEN e ELSE sessionRef[e]
NewSession(e, s) == ~Referenced(s) /\ \A u \in Sessions : u < s => Referenced(u)

(* RegisterAccept.  AcceptEx returns a BOOL, which never is SOCKET_ERROR:  *)
(* a call that fails at once is taken for one that is pending.             *)
(* (Variant: it is asked twice.)                                           *)
AskTwice(e) == asked' = [asked EXCEPT ![e] = @ + 2] /\ UNCHANGED lost
Ask(e) ==
  \/ asked' = [asked EXCEPT ![e] = @ + 1] /\ UNCHANGED lost
  \/ lost' = lost \cup {e} /\ UNCHANGED asked

RegisterAccept(e) ==
  /\ \E s \in Sessions :
       NewSession(e, s) /\ sessionRef' = [sessionRef EXCEPT ![e] = s]
  /\ Ask(e)

-----------------------------------------------------------------------------
(* StartAccept, one event after the other; the workers follow.             *)
StartAccept ==
  /\ ~serving
  /\ started < MaxSlots
  /\ RegisterAccept(started + 1)
  /\ started' = started + 1
  /\ UNCHANGED <<serving, port, peer, backlog, task, connected>>

(* They do so as well when the listener could not be registered at all:    *)
(* ASSERT_CRASH only prints.                                               *)
Launch ==
  /\ ~serving
  /\ started \in {0, MaxSlots}
  /\ serving' = TRUE
  /\ UNCHANGED <<started, sessionRef, kernelVars, task, connected, lost>>

(* Dispatch: a completion is taken by the thread that waits for it.        *)
Dispatch(t) ==
  /\ serving
  /\ task[t] = Idle
  /\ port # <<>>
  /\ task' = [task EXCEPT ![t] =
       [step |-> "accepted", event |-> Head(port),
        session |-> sessionRef[Head(port)]]]
  /\ port' = Tail(port)
  /\ UNCHANGED <<serving, started, sessionRef, asked, peer, backlog, connected,
                 lost>>

(* ProcessAccept: the socket may tell that its client has gone ...         *)
(* (Variant: then the event is not used again.)                            *)
GiveUpEvent(t) == task' = [task EXCEPT ![t] = Idle]
UseAgain(t) == task' = [task EXCEPT ![t].step = "register"]

Refuse(t) ==
  /\ task[t].step = "accepted"
  /\ peer[task[t].session] = None
  /\ UseAgain(t)
  /\ UNCHANGED <<serving, started, sessionRef, kernelVars, connected, lost>>

(* ... or not; then the session is connected, unless it is already, ...    *)
ProcessConnect(t) ==
  /\ task[t].step = "accepted"
  /\ connected' = connected \cup {task[t].session}
  /\ UseAgain(t)
  /\ UNCHANGED <<serving, started, sessionRef, kernelVars, lost>>

(* ... and in either case the event is registered again.                   *)
Register(t) ==
  /\ task[t].step = "register"
  /\ RegisterAccept(task[t].event)
  /\ task' = [task EXCEPT ![t] = Idle]
  /\ UNCHANGED <<serving, started, port, peer, backlog, connected>>

-----------------------------------------------------------------------------
(* A client connects; TCP puts it into the backlog.                        *)
Connect(c) ==
  /\ ~Waiting(c) /\ ~Linked(c)
  /\ backlog' = Append(backlog, c)
  /\ UNCHANGED <<serving, started, sessionRef, asked, port, peer, task,
                 connected, lost>>

(* The kernel gives the first one the socket of a pending AcceptEx; one    *)
(* that has gone meanwhile completes it all the same, with an error.       *)
Accept(e) ==
  /\ asked[e] > 0
  /\ backlog # <<>>
  /\ asked' = [asked EXCEPT ![e] = @ - 1]
  /\ port' = Append(port, e)
  /\ \E c \in {Head(backlog), None} :
       peer' = [peer EXCEPT ![sessionRef[e]] = c]
  /\ backlog' = Tail(backlog)
  /\ UNCHANGED <<serving, started, sessionRef, task, connected, lost>>

(* A client goes, at any time.                                             *)
Leave(s) ==
  /\ peer[s] # None
  /\ peer' = [peer EXCEPT ![s] = None]
  /\ UNCHANGED <<serving, started, sessionRef, asked, port, backlog, task,
                 connected, lost>>

(* A session whose client has gone ends, as Session says.                  *)
EndSession(s) ==
  /\ s \in connected
  /\ peer[s] = None
  /\ connected' = connected \ {s}
  /\ UNCHANGED <<serving, started, sessionRef, kernelVars, task, lost>>

-----------------------------------------------------------------------------
ThreadStep(t) == Dispatch(t) \/ Refuse(t) \/ ProcessConnect(t) \/ Register(t)
KernelStep == \E e \in Slots : Accept(e)

Next ==
  \/ StartAccept \/ Launch
  \/ \E t \in Threads : ThreadStep(t)
  \/ KernelStep
  \/ \E c \in Clients : Connect(c)
  \/ \E s \in Sessions : Leave(s) \/ EndSession(s)

Spec == Init /\ [][Next]_vars

(* main and the workers go on, the kernel accepts whom it can, and a       *)
(* session that has lost its client ends; nothing makes clients come or    *)
(* go.                                                                     *)
Fairness ==
  /\ WF_vars(StartAccept) /\ WF_vars(Launch)
  /\ \A t \in Threads : WF_vars(ThreadStep(t))
  /\ WF_vars(KernelStep)
  /\ \A s \in Sessions : WF_vars(EndSession(s))

FairSpec == Spec /\ Fairness

-----------------------------------------------------------------------------
(* Every variable has its type, and the kernel has one AcceptEx at most    *)
(* for an event.                                                           *)
TypeOK ==
  /\ serving \in BOOLEAN
  /\ started \in 0 .. MaxSlots
  /\ sessionRef \in [Slots -> Sessions \cup {0}]
  /\ asked \in [Slots -> 0 .. 1]
  /\ port \in Seq(Slots)
  /\ task \in [Threads -> {Idle} \cup [step : {"accepted", "register"},
                                       event : Slots, session : Sessions]]
  /\ connected \subseteq Sessions
  /\ peer \in [Sessions -> Clients \cup {None}]
  /\ backlog \in Seq(Clients)
  /\ lost \subseteq Slots

(* The places an event can be in: with the kernel, in the port, with a     *)
(* thread, or nowhere, after an AcceptEx that failed at once.              *)
Places(e) ==
  <<asked[e] > 0, InPort(e), InHand(e), e \in lost>>

(* Once StartAccept has made an event it is always in exactly one place,   *)
(* whichever threads take its completions and however its clients behave:  *)
(* no slot is doubled, and none is lost but by an AcceptEx that fails at   *)
(* once.                                                                   *)
SlotsAreKept ==
  /\ TypeOK
  /\ \A e \in 1 .. started :
       /\ \E i \in 1 .. 4 : \A j \in 1 .. 4 : Places(e)[j] <=> i = j
       /\ \A i, j \in DOMAIN port : port[i] = e /\ port[j] = e => i = j
       /\ \A t, u \in Threads : Has(t, e) /\ Has(u, e) => t = u

(* The session a client is going to be given has never been connected, has *)
(* no client yet and belongs to one event only, although the event kept    *)
(* the last one while that was connected and running on other threads:     *)
(* ProcessConnect never finds a session that is connected already.         *)
SessionsAreFresh ==
  /\ \A e \in Slots : asked[e] > 0 =>
       sessionRef[e] \notin connected /\ peer[sessionRef[e]] = None
  /\ \A e \in Slots : InPort(e) => sessionRef[e] \notin connected
  /\ \A t \in Threads :
       task[t].step = "accepted" => task[t].session \notin connected
  /\ \A e, f \in 1 .. started : sessionRef[e] = sessionRef[f] => e = f

(* A client in the backlog is given a session that is connected, or goes   *)
(* away, as long as one event is left that AcceptEx has not failed for.    *)
ClientsAreLetIn ==
  \A c \in Clients :
    Waiting(c) ~> \/ \E s \in connected : peer[s] = c
                  \/ ~Waiting(c) /\ ~Linked(c)
                  \/ 1 .. started \subseteq lost
=============================================================================
