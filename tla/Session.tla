------------------------------ MODULE Session ------------------------------
(***************************************************************************)
(* One Session: the flag and the queue that let any worker thread send     *)
(* while one WSASend at a time is outstanding, the chain of receives, and  *)
(* the disconnection that the end of either of them asks for.  Worker      *)
(* threads call Send and take completions out of the IOCP port; the kernel *)
(* may complete, fail at once or fail later whatever it is asked for.      *)
(* On top of it, what GameSession does when the connection comes and goes: *)
(* the list of the GameSessionManager and the player of the session.       *)
(* A step is one atomic operation of the source, or one section under      *)
(* WRITE_LOCK.                                                             *)
(***************************************************************************)
EXTENDS Integers, Sequences, FiniteSets

CONSTANTS
  Threads,    \* worker threads
  Buffers     \* SendBuffers handed to Send, each of them once

ASSUME ThreadsAssumption == Threads # {} /\ IsFiniteSet(Threads)

Events == {"recv", "send", "disconnect"}    \* the session's IocpEvents

VARIABLES
  connected,   \* _connected
  isSend,      \* _isSend
  sendQueue,   \* _sendQueue
  sendVector,  \* _sendVector
  owner,       \* whether the _owner of an event is set
  pending,     \* operations the kernel has for an event
  listed,      \* whether GSESSIONS holds the session
  managed,     \* whether GSessionManager holds it
  player,      \* whether GameSession::player points to a player
  known,       \* history: a packet has made a player that others send to
  handling,    \* what thread t is doing about the connection
  expected,    \* the value thread t has loaded from _connected, or FALSE
  sending,     \* where thread t is in Send
  fresh,       \* buffers nobody has sent yet
  posted,      \* history: the order in which buffers entered _sendQueue
  sent,        \* history: the order in which WSASend was given them
  failures,    \* history: calls that failed at once
  closes,      \* history: how often Disconnect has been called
  broken       \* how the program has left what C++ defines, or "no"

sendVars == <<isSend, sendQueue, sendVector, sent>>
callVars == <<sending, fresh, posted>>
ioVars == <<owner, pending>>
gameVars == <<managed, player, known>>
vars == <<connected, sendVars, ioVars, listed, gameVars, handling, expected,
          callVars, failures, closes, broken>>

(* Listener::ProcessAccept is about to call ProcessConnect on one thread.  *)
Init ==
  /\ connected = FALSE
  /\ isSend = FALSE
  /\ sendQueue = <<>>
  /\ sendVector = <<>>
  /\ owner = [e \in Events |-> FALSE]
  /\ pending = [e \in Events |-> 0]
  /\ listed = FALSE
  /\ managed = FALSE
  /\ player = FALSE
  /\ known = FALSE
  /\ \E t \in Threads :
       handling = [u \in Threads |-> IF u = t THEN "accepted" ELSE "none"]
  /\ expected = [t \in Threads |-> FALSE]
  /\ sending = [t \in Threads |-> "no"]
  /\ fresh = Buffers
  /\ posted = <<>>
  /\ sent = <<>>
  /\ failures = {}
  /\ closes = 0
  /\ broken = "no"

-----------------------------------------------------------------------------
Defined == broken = "no"

GoOn(t, step) == handling' = [handling EXCEPT ![t] = step]

(* An operation on event e is given to the kernel: the event owns the      *)
(* session until its completion.  (Variant: it is not made to.)            *)
StartUnowned(e) ==
  /\ owner' = owner
  /\ pending' = [pending EXCEPT ![e] = @ + 1]
Start(e) ==
  /\ owner' = [owner EXCEPT ![e] = TRUE]
  /\ pending' = [pending EXCEPT ![e] = @ + 1]

(* It fails at once: the event lets go of the session.                     *)
FailAtOnce(e) ==
  /\ owner' = [owner EXCEPT ![e] = FALSE]
  /\ UNCHANGED pending

(* IocpCore::Dispatch takes a completion of event e, follows its _owner,   *)
(* and the handler clears _owner first.  Nothing is behind a null _owner.  *)
Complete(t, e, step) ==
  /\ handling[t] = "none"
  /\ sending[t] = "no"
  /\ pending[e] > 0
  /\ pending' = [pending EXCEPT ![e] = @ - 1]
  /\ owner' = [owner EXCEPT ![e] = FALSE]
  /\ IF owner[e] THEN GoOn(t, step) /\ UNCHANGED broken
                 ELSE broken' = "owner" /\ UNCHANGED handling

-----------------------------------------------------------------------------
(* ProcessConnect: connect, ...                                            *)
ProcessConnect(t) ==
  /\ Defined
  /\ handling[t] = "accepted"
  /\ connected' = TRUE
  /\ GoOn(t, "adding")
  /\ UNCHANGED <<sendVars, ioVars, listed, gameVars, expected, callVars,
                 failures, closes, broken>>

(* ... OnConnected: the GameSessionManager's list, ...                     *)
OnConnected(t) ==
  /\ Defined
  /\ handling[t] = "adding"
  /\ managed' = TRUE
  /\ GoOn(t, "listing")
  /\ UNCHANGED <<connected, sendVars, ioVars, listed, player, known, expected,
                 callVars, failures, closes, broken>>

(* ... PushSession, RegisterRecv next.                                     *)
PushSession(t) ==
  /\ Defined
  /\ handling[t] = "listing"
  /\ listed' = TRUE
  /\ GoOn(t, "received")
  /\ UNCHANGED <<connected, sendVars, ioVars, gameVars, expected, callVars,
                 failures, closes, broken>>

(* RegisterRecv, at the end of ProcessConnect and of ProcessRecv.          *)
RegisterRecv(t) ==
  /\ Defined
  /\ handling[t] = "received"
  /\ sending[t] = "no"
  /\ \/ ~connected /\ GoOn(t, "none") /\ UNCHANGED <<ioVars, closes>>
     \/ connected /\ Start("recv") /\ GoOn(t, "none") /\ UNCHANGED closes
     \/ /\ connected
        /\ FailAtOnce("recv")
        /\ GoOn(t, "closing")
        /\ closes' = closes + 1
  /\ UNCHANGED <<connected, sendVars, listed, gameVars, expected, callVars,
                 failures, broken>>

(* ProcessRecv with data: packets are handled, and the handlers may send.  *)
(* A packet that creates or enters a game makes a player where there is    *)
(* none.                                                                   *)
RecvData(t) ==
  /\ Defined
  /\ Complete(t, "recv", "received")
  /\ player' \in {player, TRUE}
  /\ known' = (known \/ player')
  /\ UNCHANGED <<connected, sendVars, listed, managed, expected, callVars,
                 failures, closes>>

(* ProcessRecv with no bytes or more than the buffer has room for.         *)
RecvEnd(t) ==
  /\ Defined
  /\ Complete(t, "recv", "closing")
  /\ closes' = closes + 1
  /\ UNCHANGED <<connected, sendVars, listed, gameVars, expected, callVars,
                 failures>>

-----------------------------------------------------------------------------
(* Send: the buffer goes to the end of the queue, under the lock.          *)
Push(t, b) ==
  /\ Defined
  /\ known
  /\ handling[t] \in {"none", "received", "leaving"}
  /\ sending[t] = "no"
  /\ b \in fresh
  /\ fresh' = fresh \ {b}
  /\ sendQueue' = Append(sendQueue, b)
  /\ posted' = Append(posted, b)
  /\ sending' = [sending EXCEPT ![t] = "flag"]
  /\ UNCHANGED <<connected, isSend, sendVector, sent, ioVars, listed, gameVars,
                 handling, expected, failures, closes, broken>>

(* The compare-and-swap on _isSend.  (Variant: the flag is not looked at.) *)
MaySendUnseen == TRUE
MaySend == ~isSend

TakeFlag(t) ==
  /\ Defined
  /\ sending[t] = "flag"
  /\ isSend' = TRUE
  /\ sending' = [sending EXCEPT ![t] = IF MaySend THEN "register" ELSE "no"]
  /\ UNCHANGED <<connected, sendQueue, sendVector, sent, ioVars, listed,
                 gameVars, handling, expected, fresh, posted, failures, closes,
                 broken>>

(* The front buffer leaves _sendQueue for _sendVector, whose first one is  *)
(* given to WSASend.  (Variant: it stays in _sendQueue.)                   *)
PeekFront ==
  /\ sendQueue' = sendQueue
  /\ sent' = Append(sent, Head(Append(sendVector, Head(sendQueue))))
TakeFront ==
  /\ sendQueue' = Tail(sendQueue)
  /\ sent' = Append(sent, Head(Append(sendVector, Head(sendQueue))))

(* RegisterSend.  Nothing tests whether there is a front; a call that      *)
(* returns early leaves _isSend set; one that fails loses the buffer and   *)
(* leaves those behind it in the queue.                                    *)
RegisterSend ==
  \/ ~connected /\ UNCHANGED <<sendVars, ioVars, failures, broken>>
  \/ /\ connected
     /\ sendQueue = <<>>
     /\ broken' = "front"
     /\ UNCHANGED <<sendVars, ioVars, failures>>
  \/ /\ connected
     /\ sendQueue # <<>>
     /\ TakeFront
     /\ \/ /\ sendVector' = Append(sendVector, Head(sendQueue))
           /\ Start("send")
           /\ UNCHANGED <<isSend, failures>>
        \/ /\ sendVector' = <<>>
           /\ FailAtOnce("send")
           /\ isSend' = FALSE
           /\ failures' = failures \cup {"send"}
     /\ UNCHANGED broken

BeginSend(t) ==
  /\ Defined
  /\ sending[t] = "register"
  /\ RegisterSend
  /\ sending' = [sending EXCEPT ![t] = "no"]
  /\ UNCHANGED <<connected, listed, gameVars, handling, expected, fresh,
                 posted, closes>>

(* ProcessSend: the vector is cleared ...                                  *)
SendDone(t) ==
  /\ Defined
  /\ Complete(t, "send", "sent")
  /\ sendVector' = <<>>
  /\ UNCHANGED <<connected, isSend, sendQueue, sent, listed, gameVars,
                 expected, callVars, failures, closes>>

(* ... and, under the lock, the flag is given back or the next buffer      *)
(* sent.  (Variant: the flag is given back whatever is waiting.)           *)
FreeFlag == isSend' = FALSE /\ UNCHANGED <<sendQueue, sendVector, sent, ioVars,
                                           failures, broken>>
SendNext == IF sendQueue = <<>> THEN FreeFlag ELSE RegisterSend

ContinueSend(t) ==
  /\ Defined
  /\ handling[t] = "sent"
  /\ SendNext
  /\ GoOn(t, "none")
  /\ UNCHANGED <<connected, listed, gameVars, expected, callVars, closes>>

(* ProcessSend with no bytes: _isSend stays set.                           *)
FlagAfterZero == isSend

SendZero(t) ==
  /\ Defined
  /\ Complete(t, "send", "closing")
  /\ sendVector' = <<>>
  /\ isSend' = FlagAfterZero
  /\ closes' = closes + 1
  /\ UNCHANGED <<connected, sendQueue, sent, listed, gameVars, expected,
                 callVars, failures>>

-----------------------------------------------------------------------------
(* Disconnect: a session that is not connected is complained about, and    *)
(* _connected is loaded all the same; ...                                  *)
LoadConnected(t) ==
  /\ Defined
  /\ handling[t] = "closing"
  /\ expected' = [expected EXCEPT ![t] = connected]
  /\ GoOn(t, "loaded")
  /\ UNCHANGED <<connected, sendVars, ioVars, listed, gameVars, callVars,
                 failures, closes, broken>>

(* ... the compare-and-swap succeeds when _connected is what was loaded,   *)
(* false as well as true; ...                                              *)
SwapConnected(t) ==
  /\ Defined
  /\ handling[t] = "loaded"
  /\ connected' = (connected /\ ~expected[t])
  /\ expected' = [expected EXCEPT ![t] = FALSE]
  /\ GoOn(t, IF connected = expected[t] THEN "disconnecting" ELSE "none")
  /\ UNCHANGED <<sendVars, ioVars, listed, gameVars, callVars, failures, closes,
                 broken>>

(* ... RegisterDisconnect.                                                 *)
RegisterDisconnect(t) ==
  /\ Defined
  /\ handling[t] = "disconnecting"
  /\ \/ Start("disconnect") /\ UNCHANGED failures
     \/ FailAtOnce("disconnect") /\ failures' = failures \cup {"disconnect"}
  /\ GoOn(t, "none")
  /\ UNCHANGED <<connected, sendVars, listed, gameVars, expected, callVars,
                 closes, broken>>

(* ProcessDisconnect: OnDisconnected follows the player to its room.       *)
(* Nothing is behind a null player.                                        *)
DisconnectDone(t) ==
  /\ Defined
  /\ Complete(t, "disconnect", "left")
  /\ UNCHANGED <<connected, sendVars, listed, gameVars, expected, callVars,
                 failures, closes>>

LeaveRoom(t) ==
  /\ Defined
  /\ handling[t] = "left"
  /\ IF player THEN GoOn(t, "leaving") /\ UNCHANGED broken
               ELSE broken' = "player" /\ UNCHANGED handling
  /\ UNCHANGED <<connected, sendVars, ioVars, listed, gameVars, expected,
                 callVars, failures, closes>>

(* HandleLeavePlayer, which sends, has returned: player.store(nullptr) and *)
(* Remove, which is content with a session that is not there, ...          *)
(* (Variant: the session is left in the list.)                             *)
StayManaged == managed
Removed == FALSE

ForgetPlayer(t) ==
  /\ Defined
  /\ handling[t] = "leaving"
  /\ sending[t] = "no"
  /\ player' = FALSE
  /\ managed' = Removed
  /\ GoOn(t, "removed")
  /\ UNCHANGED <<connected, sendVars, ioVars, listed, known, expected,
                 callVars, failures, closes, broken>>

(* ... and PopSession, which erases end() when the session is not there.   *)
(* (Variant: the session is left in GSESSIONS.)                            *)
StayListed == UNCHANGED <<listed, broken>>
Unlist ==
  /\ listed' = FALSE
  /\ broken' = IF listed THEN broken ELSE "erase"

PopSession(t) ==
  /\ Defined
  /\ handling[t] = "removed"
  /\ Unlist
  /\ GoOn(t, "none")
  /\ UNCHANGED <<connected, sendVars, ioVars, gameVars, expected, callVars,
                 failures, closes>>

-----------------------------------------------------------------------------
(* Steps of a call that has begun.                                         *)
CallStep(t) ==
  \/ ProcessConnect(t) \/ OnConnected(t) \/ PushSession(t) \/ RegisterRecv(t)
  \/ TakeFlag(t) \/ BeginSend(t) \/ ContinueSend(t)
  \/ LoadConnected(t) \/ SwapConnected(t) \/ RegisterDisconnect(t)
  \/ LeaveRoom(t) \/ ForgetPlayer(t) \/ PopSession(t)

(* Completions of what was asked of the kernel.                            *)
SendCompletes == \E t \in Threads : SendDone(t) \/ SendZero(t)
DisconnectCompletes == \E t \in Threads : DisconnectDone(t)
RecvCompletes == \E t \in Threads : RecvData(t) \/ RecvEnd(t)

Next ==
  \/ SendCompletes
  \/ DisconnectCompletes
  \/ RecvCompletes
  \/ \E t \in Threads : CallStep(t) \/ \E b \in Buffers : Push(t, b)

Spec == Init /\ [][Next]_vars

(* Calls that have begun end.  The kernel completes sends and disconnects, *)
(* with an error if the peer does not answer, and the port hands out what  *)
(* it was given first, so that receives cannot hold a completion back for  *)
(* ever; nothing makes data arrive.                                        *)
Fairness ==
  /\ \A t \in Threads : WF_vars(CallStep(t))
  /\ SF_vars(SendCompletes)
  /\ SF_vars(DisconnectCompletes)

FairSpec == Spec /\ Fairness

-----------------------------------------------------------------------------
(* Threads that have taken something on themselves.                        *)
InHand(step) == \E t \in Threads : handling[t] = step
Sending(step) == \E t \in Threads : sending[t] = step
Disconnecting == \E t \in Threads :
                   handling[t] \in {"closing", "loaded", "disconnecting"}

(* Every variable has its type; Disconnect is called twice at most, once   *)
(* where the receives end and once where the sends do, and no event has    *)
(* more than two operations outstanding, whatever the number of threads.   *)
TypeOK ==
  /\ connected \in BOOLEAN /\ isSend \in BOOLEAN
  /\ sendQueue \in Seq(Buffers) /\ sendVector \in Seq(Buffers)
  /\ owner \in [Events -> BOOLEAN] /\ pending \in [Events -> 0 .. 2]
  /\ listed \in BOOLEAN /\ managed \in BOOLEAN
  /\ player \in BOOLEAN /\ known \in BOOLEAN
  /\ handling \in [Threads -> {"none", "accepted", "adding", "listing",
                               "received", "sent", "closing", "loaded",
                               "disconnecting", "left", "leaving", "removed"}]
  /\ expected \in [Threads -> BOOLEAN]
  /\ sending \in [Threads -> {"no", "flag", "register"}]
  /\ fresh \subseteq Buffers
  /\ posted \in Seq(Buffers) /\ sent \in Seq(Buffers)
  /\ failures \subseteq {"send", "disconnect"}
  /\ closes \in 0 .. 2
  /\ broken \in {"no", "owner", "front", "erase", "player"}

(* One WSASend and one WSARecv are outstanding at most, and until they     *)
(* complete the event owns the session and the vector holds the buffer the *)
(* kernel reads from, although Send, ProcessSend and ProcessRecv run on    *)
(* different threads.                                                      *)
OperationsStayOwned ==
  /\ TypeOK
  /\ \A e \in {"send", "recv"} : pending[e] <= 1 /\ (pending[e] = 1 => owner[e])
  /\ pending["send"] = Len(sendVector)

(* Buffers go out in the order Send put them into the queue, each once,    *)
(* whichever threads send them.                                            *)
SentInOrder == posted = sent \o sendQueue

(* RegisterSend takes the front of an empty queue only where a sender      *)
(* comes to the flag late: at least two buffers had been put into the      *)
(* queue, the thread of another one has sent them all, and the kernel has  *)
(* completed every one of them.  With one sender at a time, or from        *)
(* ProcessSend, it cannot happen.                                          *)
LateSenderBreaks ==
  broken = "front" =>
    Len(posted) >= 2 /\ sent = posted /\ pending["send"] = 0

(* No wake-up is lost: while a connection lasts, a buffer in the queue has *)
(* somebody who will send it - a sender that has still to try the flag or  *)
(* has won it, a completion, or a thread that is ending the connection.    *)
(* The one exception is a WSASend that failed at once: it gives the flag   *)
(* back whatever is waiting behind it.                                     *)
WaitingBuffersHaveASender ==
  Defined /\ connected /\ sendQueue # <<>> =>
    \/ Sending("flag") \/ Sending("register")
    \/ pending["send"] > 0 \/ InHand("sent")
    \/ Disconnecting
    \/ "send" \in failures

(* The null _owner and the erase of end() take both calls of Disconnect,   *)
(* and so does the null player, unless no packet ever made a player: as    *)
(* long as only one chain has ended and the client has asked for a game,   *)
(* OnDisconnected and the lists find what they look for.                   *)
SecondCloseBreaks ==
  /\ broken \in {"owner", "erase"} => closes = 2
  /\ broken = "player" => closes = 2 \/ ~known

(* A buffer handed to Send is given to WSASend, unless the connection ends *)
(* or a WSASend failed at once.                                            *)
BuffersAreSent ==
  \A b \in Buffers :
    (\E i \in DOMAIN posted : posted[i] = b)
      ~> \/ \E i \in DOMAIN sent : sent[i] = b
         \/ ~connected \/ "send" \in failures \/ broken # "no"

(* A session that has been told to disconnect leaves both lists, which     *)
(* nothing else takes it out of, unless DisconnectEx failed at once: then  *)
(* OnDisconnected never runs.  What the program does after it has left     *)
(* what C++ defines is not spoken of.                                      *)
ClosedSessionIsUnlisted ==
  closes > 0 ~> \/ ~listed /\ ~managed
                \/ "disconnect" \in failures \/ broken # "no"

(* What Disconnect asserts when it is called: "not connected, does not     *)
(* disconnect".                                                            *)
OnlyConnectedAreDisconnected ==
  \A t \in Threads : handling[t] = "closing" => connected
=============================================================================
