---------------------------- MODULE SessionProofs ----------------------------
(***************************************************************************)
(* Proofs about Session, for any number of threads and any buffers, and    *)
(* about the receive buffer of a session, PacketStream, for any sizes of   *)
(* packets and of the buffer and however TCP cuts the stream.              *)
(***************************************************************************)
EXTENDS Session, PacketStream, FiniteSetTheorems, SequenceTheorems, TLAPS

Steps == {"none", "accepted", "adding", "listing", "received", "sent",
          "closing", "loaded", "disconnecting", "left", "leaving", "removed"}
Starting == {"accepted", "adding", "listing"}    \* steps before the lists
Receiving == Starting \cup {"received"}          \* the chain of receives
Ending == {"closing", "loaded", "disconnecting", "left", "leaving", "removed"}

(* TypeOK without the bounds on what is counted.                           *)
Types ==
  /\ connected \in BOOLEAN /\ isSend \in BOOLEAN
  /\ sendQueue \in Seq(Buffers) /\ sendVector \in Seq(Buffers)
  /\ owner \in [Events -> BOOLEAN] /\ pending \in [Events -> Nat]
  /\ listed \in BOOLEAN /\ managed \in BOOLEAN
  /\ player \in BOOLEAN /\ known \in BOOLEAN
  /\ handling \in [Threads -> Steps]
  /\ expected \in [Threads -> BOOLEAN]
  /\ sending \in [Threads -> {"no", "flag", "register"}]
  /\ fresh \subseteq Buffers
  /\ posted \in Seq(Buffers) /\ sent \in Seq(Buffers)
  /\ failures \subseteq {"send", "disconnect"}
  /\ closes \in Nat
  /\ broken \in {"no", "owner", "front", "erase", "player"}

(* A thread that is going to call RegisterSend, and has won _isSend.       *)
Wins(t) == sending[t] = "register" \/ handling[t] = "sent"

(* The flag is won by one thread or one outstanding WSASend.               *)
SendChain ==
  /\ \A t \in Threads :
       sending[t] # "no" => handling[t] \in {"none", "received", "leaving"}
  /\ \A t, u \in Threads : Wins(t) /\ Wins(u) => t = u
  /\ \A t \in Threads : Wins(t) => isSend /\ pending["send"] = 0
  /\ pending["send"] <= 1
  /\ pending["send"] = 1 => isSend /\ owner["send"]
  /\ pending["send"] = Len(sendVector)

(* One thread or one outstanding WSARecv goes on with the receives.        *)
RecvChain ==
  /\ \A t, u \in Threads :
       handling[t] \in Receiving /\ handling[u] \in Receiving => t = u
  /\ \A t \in Threads : handling[t] \in Receiving => pending["recv"] = 0
  /\ pending["recv"] <= 1
  /\ pending["recv"] = 1 => owner["recv"]

RecvAlive ==
  \/ pending["recv"] = 1
  \/ \E t \in Threads : handling[t] \in Receiving

SendEnded == isSend /\ pending["send"] = 0 /\ \A t \in Threads : ~Wins(t)

(* Threads on their way through Disconnect and ProcessDisconnect.          *)
Enders == {t \in Threads : handling[t] \in Ending}

(* Disconnect is called once by each chain, when it ends, and every        *)
(* operation on the disconnect event and its completion comes of a call.   *)
CallsOfDisconnect ==
  /\ closes <= 2
  /\ closes = 1 /\ RecvAlive => SendEnded
  /\ closes = 2 => ~RecvAlive /\ SendEnded
  /\ Cardinality(Enders) + pending["disconnect"] <= closes

(* What a first Disconnect can rely on.                                    *)
FirstClose ==
  /\ \A t \in Threads : handling[t] \in Starting => closes = 0 /\ ~known
  /\ ~known => /\ ~player /\ ~isSend /\ sendQueue = <<>>
               /\ \A t \in Threads : sending[t] = "no"
  /\ closes = 0 => /\ listed \/ \E t \in Threads : handling[t] \in Starting
                   /\ known => player
  /\ closes = 1 =>
       /\ pending["disconnect"] > 0 => owner["disconnect"]
       /\ pending["disconnect"] > 0 \/ Enders # {} => listed
       /\ known /\ ~player =>
            /\ pending["disconnect"] = 0
            /\ \A t \in Enders : handling[t] = "removed"
  /\ SecondCloseBreaks

(* Somebody will look at the queue, and the flag is somebody's.            *)
Awake ==
  Defined /\ connected =>
    /\ sendQueue # <<>> /\ "send" \notin failures =>
         isSend \/ \E t \in Threads : sending[t] = "flag"
    /\ isSend => \/ pending["send"] = 1
                 \/ \E t \in Threads : Wins(t)
                 \/ \E t \in Threads : handling[t] \in {"closing", "loaded"}

LoadedTrue ==
  \A t \in Threads : handling[t] = "loaded" /\ connected => expected[t]

(* Nothing has been completed before something was sent; as long as one    *)
(* buffer at most has been posted, one sender at most is in Send, and only *)
(* before that buffer is sent.                                             *)
LateSenders ==
  /\ sent = <<>> =>
       pending["send"] = 0 /\ \A t \in Threads : handling[t] # "sent"
  /\ Len(posted) = 0 => \A t \in Threads : sending[t] = "no"
  /\ Len(posted) = 1 => \A t, u \in Threads :
       sending[t] # "no" => sent = <<>> /\ (sending[u] # "no" => t = u)
  /\ LateSenderBreaks

(* The inductive invariant.                                                *)
IInv ==
  /\ Types
  /\ SendChain
  /\ RecvChain
  /\ CallsOfDisconnect
  /\ FirstClose
  /\ SentInOrder
  /\ LateSenders
  /\ Awake
  /\ LoadedTrue

-----------------------------------------------------------------------------
(* What the calls and the completions of the kernel do to an event.        *)
LEMMA StartTypes ==
  ASSUME Types, NEW e \in Events, Start(e) \/ FailAtOnce(e)
  PROVE  /\ owner' \in [Events -> BOOLEAN]
         /\ pending' \in [Events -> Nat]
         /\ \A f \in Events : f # e => owner'[f] = owner[f]
                                       /\ pending'[f] = pending[f]
         /\ Start(e) => owner'[e] /\ pending'[e] = pending[e] + 1
         /\ FailAtOnce(e) => ~owner'[e] /\ pending'[e] = pending[e]
<1>1. CASE Start(e)
  <2>1. /\ owner' = [owner EXCEPT ![e] = TRUE]
        /\ pending' = [pending EXCEPT ![e] = pending[e] + 1]
        /\ pending[e] + 1 \in Nat /\ pending[e] + 1 # pending[e]
        /\ pending \in [Events -> Nat] /\ owner \in [Events -> BOOLEAN]
    BY <1>1 DEF Types, Start
  <2>2. ~FailAtOnce(e)
    BY <2>1 DEF FailAtOnce
  <2> QED
    BY <2>1, <2>2
<1>2. CASE FailAtOnce(e)
  <2>1. /\ owner' = [owner EXCEPT ![e] = FALSE]
        /\ pending' = pending
        /\ pending \in [Events -> Nat] /\ owner \in [Events -> BOOLEAN]
    BY <1>2 DEF Types, FailAtOnce
  <2>2. ~Start(e)
    BY <2>1 DEF Start
  <2> QED
    BY <2>1, <2>2
<1> QED
  BY <1>1, <1>2

(* What a thread that takes a completion finds, and what it leaves.        *)
LEMMA CompleteTypes ==
  ASSUME Types, NEW t \in Threads, NEW e \in Events, NEW step \in Steps,
         Complete(t, e, step)
  PROVE  /\ handling[t] = "none" /\ sending[t] = "no" /\ pending[e] > 0
         /\ owner' \in [Events -> BOOLEAN] /\ ~owner'[e]
         /\ pending' \in [Events -> Nat] /\ pending'[e] = pending[e] - 1
         /\ \A f \in Events : f # e => owner'[f] = owner[f]
                                       /\ pending'[f] = pending[f]
         /\ \/ owner[e] /\ handling' = [handling EXCEPT ![t] = step]
               /\ broken' = broken
            \/ ~owner[e] /\ handling' = handling /\ broken' = "owner"
         /\ handling' \in [Threads -> Steps]
<1>1. /\ owner' = [owner EXCEPT ![e] = FALSE]
      /\ pending' = [pending EXCEPT ![e] = @ - 1] /\ pending[e] > 0
      /\ handling[t] = "none" /\ sending[t] = "no"
      /\ pending \in [Events -> Nat] /\ owner \in [Events -> BOOLEAN]
  BY DEF Types, Complete
<1>2. pending[e] - 1 \in Nat
  BY <1>1
<1>3. /\ \/ owner[e] /\ handling' = [handling EXCEPT ![t] = step]
            /\ broken' = broken
         \/ ~owner[e] /\ handling' = handling /\ broken' = "owner"
      /\ handling' \in [Threads -> Steps]
  BY DEF Types, Complete, GoOn
<1> QED
  BY <1>1, <1>2, <1>3

(* RegisterSend, by its outcomes: it returns, calls front() of nothing, or *)
(* gives a buffer to WSASend, which takes it or fails.                     *)
Returns == ~connected /\ UNCHANGED <<sendVars, ioVars, failures, broken>>
CallsFront ==
  /\ connected /\ sendQueue = <<>>
  /\ broken' = "front"
  /\ UNCHANGED <<sendVars, ioVars, failures>>
Sends ==
  /\ connected /\ sendQueue # <<>> /\ TakeFront /\ UNCHANGED broken
  /\ sendVector' = Append(sendVector, Head(sendQueue))
  /\ Start("send") /\ UNCHANGED <<isSend, failures>>
FailsToSend ==
  /\ connected /\ sendQueue # <<>> /\ TakeFront /\ UNCHANGED broken
  /\ sendVector' = <<>> /\ FailAtOnce("send") /\ isSend' = FALSE
  /\ failures' = failures \cup {"send"}

(* The four ways RegisterSend can go, and what each leaves.                *)
LEMMA RegisterSendTypes ==
  ASSUME Types, RegisterSend
  PROVE  /\ Returns \/ CallsFront \/ Sends \/ FailsToSend
         /\ isSend' \in BOOLEAN /\ failures' \subseteq {"send", "disconnect"}
         /\ sendQueue' \in Seq(Buffers) /\ sendVector' \in Seq(Buffers)
         /\ sent' \in Seq(Buffers)
         /\ owner' \in [Events -> BOOLEAN] /\ pending' \in [Events -> Nat]
         /\ broken' \in {"no", "owner", "front", "erase", "player"}
<1>1. Returns \/ CallsFront \/ Sends \/ FailsToSend
  BY DEF RegisterSend, Returns, CallsFront, Sends, FailsToSend
<1>2. CASE Returns \/ CallsFront
  BY <1>1, <1>2 DEF Types, Returns, CallsFront, sendVars, ioVars
<1>3. CASE Sends \/ FailsToSend
  <2>1. /\ sendQueue \in Seq(Buffers) /\ sendQueue # <<>>
        /\ sendVector \in Seq(Buffers) /\ sent \in Seq(Buffers)
        /\ TakeFront /\ UNCHANGED broken
    BY <1>3 DEF Types, Sends, FailsToSend
  <2>2. /\ Head(sendQueue) \in Buffers /\ Tail(sendQueue) \in Seq(Buffers)
        /\ Append(sendVector, Head(sendQueue)) \in Seq(Buffers)
        /\ Append(sendVector, Head(sendQueue)) # <<>>
    BY <2>1
  <2>3. /\ sendQueue' \in Seq(Buffers) /\ sendVector' \in Seq(Buffers)
    <3>1. sendVector' = Append(sendVector, Head(sendQueue))
            \/ sendVector' = <<>>
      BY <1>3 DEF Sends, FailsToSend
    <3>2. <<>> \in Seq(Buffers)
      OBVIOUS
    <3> QED
      BY <2>1, <2>2, <3>1, <3>2 DEF TakeFront
  <2>4. sent' \in Seq(Buffers)
    <3> DEFINE v == Append(sendVector, Head(sendQueue))
    <3>1. v \in Seq(Buffers) /\ v # <<>> /\ sent' = Append(sent, Head(v))
      BY <2>1, <2>2 DEF TakeFront
    <3> HIDE DEF v
    <3>2. Head(v) \in Buffers
      BY <3>1
    <3> QED
      BY <2>1, <3>1, <3>2
  <2>5. isSend' \in BOOLEAN /\ failures' \subseteq {"send", "disconnect"}
    BY <1>3 DEF Types, Sends, FailsToSend
  <2>6. Start("send") \/ FailAtOnce("send")
    BY <1>3 DEF Sends, FailsToSend
  <2>7. owner' \in [Events -> BOOLEAN] /\ pending' \in [Events -> Nat]
    BY <2>6, StartTypes DEF Events
  <2> QED
    BY <1>1, <2>1, <2>3, <2>4, <2>5, <2>7 DEF Types
<1> QED
  BY <1>1, <1>2, <1>3

-----------------------------------------------------------------------------
(* The types are kept by every step.                                       *)
LEMMA TypesNext == Types /\ [Next]_vars => Types'
<1> SUFFICES ASSUME Types, [Next]_vars PROVE Types'
  OBVIOUS
<1> USE DEF Types, Events, Steps, sendVars, callVars, ioVars, gameVars, GoOn
<1>1. ASSUME NEW t \in Threads, ProcessConnect(t) PROVE Types'
  BY <1>1 DEF ProcessConnect
<1>2. ASSUME NEW t \in Threads, OnConnected(t) PROVE Types'
  BY <1>2 DEF OnConnected
<1>3. ASSUME NEW t \in Threads, PushSession(t) PROVE Types'
  BY <1>3 DEF PushSession
<1>4. ASSUME NEW t \in Threads, RegisterRecv(t) PROVE Types'
  <2>1. owner' \in [Events -> BOOLEAN] /\ pending' \in [Events -> Nat]
    BY <1>4, StartTypes DEF RegisterRecv
  <2>2. handling' \in [Threads -> Steps]
    BY <1>4 DEF RegisterRecv
  <2>3. closes' \in Nat
    <3>1. closes' = closes \/ closes' = closes + 1
      BY <1>4 DEF RegisterRecv
    <3> QED
      BY <3>1
  <2> QED
    BY <1>4, <2>1, <2>2, <2>3 DEF RegisterRecv
<1>5. ASSUME NEW t \in Threads, RecvData(t) PROVE Types'
  <2>1. Complete(t, "recv", "received")
    BY <1>5 DEF RecvData
  <2>2. /\ owner' \in [Events -> BOOLEAN] /\ pending' \in [Events -> Nat]
        /\ handling' \in [Threads -> Steps]
        /\ broken' \in {"no", "owner", "front", "erase", "player"}
    BY <2>1, CompleteTypes
  <2> QED
    BY <1>5, <2>2 DEF RecvData
<1>6. ASSUME NEW t \in Threads, RecvEnd(t) PROVE Types'
  <2>1. Complete(t, "recv", "closing")
    BY <1>6 DEF RecvEnd
  <2>2. /\ owner' \in [Events -> BOOLEAN] /\ pending' \in [Events -> Nat]
        /\ handling' \in [Threads -> Steps]
        /\ broken' \in {"no", "owner", "front", "erase", "player"}
    BY <2>1, CompleteTypes
  <2> QED
    BY <1>6, <2>2 DEF RecvEnd
<1>7. ASSUME NEW t \in Threads, NEW b \in Buffers, Push(t, b) PROVE Types'
  BY <1>7 DEF Push
<1>8. ASSUME NEW t \in Threads, TakeFlag(t) PROVE Types'
  BY <1>8 DEF TakeFlag, MaySend
<1>9. ASSUME NEW t \in Threads, BeginSend(t) PROVE Types'
  <2>1. RegisterSend /\ sending' = [sending EXCEPT ![t] = "no"]
    BY <1>9 DEF BeginSend
  <2> QED
    BY <1>9, <2>1, RegisterSendTypes DEF BeginSend
<1>10. ASSUME NEW t \in Threads, SendDone(t) PROVE Types'
  <2>1. Complete(t, "send", "sent")
    BY <1>10 DEF SendDone
  <2>2. /\ owner' \in [Events -> BOOLEAN] /\ pending' \in [Events -> Nat]
        /\ handling' \in [Threads -> Steps]
        /\ broken' \in {"no", "owner", "front", "erase", "player"}
    BY <2>1, CompleteTypes
  <2> QED
    BY <1>10, <2>2 DEF SendDone
<1>11. ASSUME NEW t \in Threads, ContinueSend(t) PROVE Types'
  <2>1. CASE RegisterSend
    BY <1>11, <2>1, RegisterSendTypes DEF ContinueSend
  <2>2. CASE FreeFlag
    BY <1>11, <2>2 DEF ContinueSend, FreeFlag
  <2> QED
    BY <1>11, <2>1, <2>2 DEF ContinueSend, SendNext
<1>12. ASSUME NEW t \in Threads, SendZero(t) PROVE Types'
  BY <1>12 DEF SendZero, Complete, FlagAfterZero
<1>13. ASSUME NEW t \in Threads, LoadConnected(t) PROVE Types'
  BY <1>13 DEF LoadConnected
<1>14. ASSUME NEW t \in Threads, SwapConnected(t) PROVE Types'
  BY <1>14 DEF SwapConnected
<1>15. ASSUME NEW t \in Threads, RegisterDisconnect(t) PROVE Types'
  <2>1. Start("disconnect") \/ FailAtOnce("disconnect")
    BY <1>15 DEF RegisterDisconnect
  <2>2. owner' \in [Events -> BOOLEAN] /\ pending' \in [Events -> Nat]
    BY <2>1, StartTypes
  <2> QED
    BY <1>15, <2>2 DEF RegisterDisconnect
<1>16. ASSUME NEW t \in Threads, DisconnectDone(t) PROVE Types'
  BY <1>16 DEF DisconnectDone, Complete
<1>17. ASSUME NEW t \in Threads, LeaveRoom(t) PROVE Types'
  BY <1>17 DEF LeaveRoom
<1>18. ASSUME NEW t \in Threads, ForgetPlayer(t) PROVE Types'
  BY <1>18 DEF ForgetPlayer, Removed
<1>19. ASSUME NEW t \in Threads, PopSession(t) PROVE Types'
  BY <1>19 DEF PopSession, Unlist
<1>20. CASE UNCHANGED vars
  BY <1>20 DEF vars
<1> QED
  BY <1>1, <1>2, <1>3, <1>4, <1>5, <1>6, <1>7, <1>8, <1>9, <1>10, <1>11,
     <1>12, <1>13, <1>14, <1>15, <1>16, <1>17, <1>18, <1>19, <1>20
     DEF Next, CallStep, SendCompletes, RecvCompletes, DisconnectCompletes

(* What leaves the flag and its owners alone.                              *)
LEMMA SendChainFrame ==
  ASSUME SendChain, UNCHANGED <<isSend, sendVector, sending>>,
         pending'["send"] = pending["send"], owner'["send"] = owner["send"],
         \A u \in Threads :
           /\ handling'[u] = "sent" => handling[u] = "sent"
           /\ handling'[u] # handling[u] =>
                sending[u] = "no" \/ handling'[u] \in {"none", "received",
                                                       "leaving"}
  PROVE  SendChain'
BY DEF SendChain, Wins

(* A thread that has the flag gives a buffer to WSASend.                   *)
LEMMA SendChainSends ==
  ASSUME Types, SendChain, Sends, NEW t \in Threads, Wins(t),
         \A u \in Threads :
           /\ u # t => sending'[u] = sending[u] /\ handling'[u] = handling[u]
           /\ sending'[t] = "no" /\ handling'[t] # "sent"
  PROVE  SendChain'
<1>1. /\ isSend /\ pending["send"] = 0 /\ Len(sendVector) = 0
      /\ \A u \in Threads : Wins(u) => u = t
  BY DEF SendChain
<1>2. /\ pending'["send"] = 1 /\ owner'["send"] /\ isSend'
      /\ sendVector' = Append(sendVector, Head(sendQueue))
  BY <1>1, StartTypes DEF Sends, Events
<1>3. Len(sendVector') = 1
  BY <1>1, <1>2 DEF Types
<1>4. \A u \in Threads : ~Wins(u)'
  BY <1>1 DEF Wins
<1>5. \A u \in Threads :
        sending'[u] # "no" => handling'[u] \in {"none", "received", "leaving"}
  BY DEF SendChain
<1> QED
  BY <1>2, <1>3, <1>4, <1>5 DEF SendChain

(* One thread or one WSASend has the flag, whichever thread goes on.       *)
LEMMA SendChainNext == Types /\ SendChain /\ [Next]_vars => SendChain'
<1> SUFFICES ASSUME Types, SendChain, [Next]_vars PROVE SendChain'
  OBVIOUS
<1> USE DEF SendChain, Wins, Types, Events, Steps, sendVars, callVars,
            ioVars, gameVars, GoOn
<1>1. ASSUME NEW t \in Threads, ProcessConnect(t) PROVE SendChain'
  BY <1>1 DEF ProcessConnect
<1>2. ASSUME NEW t \in Threads, OnConnected(t) PROVE SendChain'
  BY <1>2 DEF OnConnected
<1>3. ASSUME NEW t \in Threads, PushSession(t) PROVE SendChain'
  BY <1>3 DEF PushSession
<1>4. ASSUME NEW t \in Threads, RegisterRecv(t) PROVE SendChain'
  <2>1. /\ UNCHANGED <<isSend, sendVector, sending>> /\ sending[t] = "no"
        /\ handling'[t] \in {"none", "closing"}
        /\ \A u \in Threads : u # t => handling'[u] = handling[u]
    BY <1>4 DEF RegisterRecv
  <2>2. pending'["send"] = pending["send"] /\ owner'["send"] = owner["send"]
    BY <1>4, StartTypes DEF RegisterRecv
  <2> QED
    BY <2>1, <2>2, SendChainFrame
<1>5. ASSUME NEW t \in Threads, RecvData(t) PROVE SendChain'
  <2>1. Complete(t, "recv", "received")
          /\ UNCHANGED <<isSend, sendVector, sending>>
    BY <1>5 DEF RecvData
  <2>2. /\ sending[t] = "no" /\ \A u \in Threads : u # t
             => handling'[u] = handling[u]
        /\ handling'[t] \in {"none", "received"}
        /\ pending'["send"] = pending["send"] /\ owner'["send"] = owner["send"]
    BY <2>1, CompleteTypes
  <2> QED
    BY <2>1, <2>2, SendChainFrame
<1>6. ASSUME NEW t \in Threads, RecvEnd(t) PROVE SendChain'
  <2>1. Complete(t, "recv", "closing")
          /\ UNCHANGED <<isSend, sendVector, sending>>
    BY <1>6 DEF RecvEnd
  <2>2. /\ sending[t] = "no" /\ \A u \in Threads : u # t
             => handling'[u] = handling[u]
        /\ handling'[t] \in {"none", "closing"}
        /\ pending'["send"] = pending["send"] /\ owner'["send"] = owner["send"]
    BY <2>1, CompleteTypes
  <2> QED
    BY <2>1, <2>2, SendChainFrame
<1>7. ASSUME NEW t \in Threads, NEW b \in Buffers, Push(t, b) PROVE SendChain'
  BY <1>7 DEF Push
<1>8. ASSUME NEW t \in Threads, TakeFlag(t) PROVE SendChain'
  BY <1>8 DEF TakeFlag, MaySend
<1>9. ASSUME NEW t \in Threads, BeginSend(t) PROVE SendChain'
  <2>1. Returns \/ CallsFront \/ Sends \/ FailsToSend
    BY <1>9, RegisterSendTypes DEF BeginSend
  <2>2. CASE Returns
    BY <1>9, <2>2 DEF BeginSend, Returns
  <2>3. CASE CallsFront
    BY <1>9, <2>3 DEF BeginSend, CallsFront
  <2>4. CASE Sends
    BY <1>9, <2>4, SendChainSends DEF BeginSend
  <2>5. CASE FailsToSend
    BY <1>9, <2>5, StartTypes DEF BeginSend, FailsToSend
  <2> QED
    BY <2>1, <2>2, <2>3, <2>4, <2>5
<1>10. ASSUME NEW t \in Threads, SendDone(t) PROVE SendChain'
  <2>1. Complete(t, "send", "sent")
    BY <1>10 DEF SendDone
  <2> QED
    BY <1>10, <2>1, CompleteTypes DEF SendDone
<1>11. ASSUME NEW t \in Threads, ContinueSend(t) PROVE SendChain'
  <2>1. FreeFlag \/ Returns \/ CallsFront \/ Sends \/ FailsToSend
    BY <1>11, RegisterSendTypes DEF ContinueSend, SendNext
  <2>2. CASE Returns
    BY <1>11, <2>2 DEF ContinueSend, Returns
  <2>3. CASE CallsFront
    BY <1>11, <2>3 DEF ContinueSend, CallsFront
  <2>4. CASE Sends
    BY <1>11, <2>4, SendChainSends DEF ContinueSend
  <2>5. CASE FailsToSend
    BY <1>11, <2>5, StartTypes DEF ContinueSend, FailsToSend
  <2>6. CASE FreeFlag
    <3>1. /\ isSend' = FALSE /\ UNCHANGED <<sendVector, pending, owner, sending>>
          /\ handling[t] = "sent" /\ handling' = [handling EXCEPT ![t] = "none"]
      BY <1>11, <2>6 DEF ContinueSend, FreeFlag, GoOn, ioVars
    <3>2. /\ handling'[t] = "none"
          /\ \A u \in Threads : u # t => handling'[u] = handling[u]
      BY <3>1 DEF Types
    <3>3. Wins(t) /\ sending[t] = "no" /\ pending["send"] = 0
      BY <3>1 DEF Wins, SendChain
    <3>4. \A u \in Threads : ~Wins(u)'
      BY <3>1, <3>2, <3>3 DEF Wins, SendChain
    <3> QED
      BY <3>1, <3>2, <3>3, <3>4 DEF SendChain
  <2> QED
    BY <2>1, <2>2, <2>3, <2>4, <2>5, <2>6
<1>12. ASSUME NEW t \in Threads, SendZero(t) PROVE SendChain'
  <2>1. Complete(t, "send", "closing")
    BY <1>12 DEF SendZero
  <2> QED
    BY <1>12, <2>1, CompleteTypes DEF SendZero, FlagAfterZero
<1>13. ASSUME NEW t \in Threads, LoadConnected(t) PROVE SendChain'
  BY <1>13 DEF LoadConnected
<1>14. ASSUME NEW t \in Threads, SwapConnected(t) PROVE SendChain'
  BY <1>14 DEF SwapConnected
<1>15. ASSUME NEW t \in Threads, RegisterDisconnect(t) PROVE SendChain'
  BY <1>15, StartTypes DEF RegisterDisconnect
<1>16. ASSUME NEW t \in Threads, DisconnectDone(t) PROVE SendChain'
  <2>1. Complete(t, "disconnect", "left")
          /\ UNCHANGED <<isSend, sendVector, sending>>
    BY <1>16 DEF DisconnectDone
  <2>2. /\ sending[t] = "no" /\ \A u \in Threads : u # t
             => handling'[u] = handling[u]
        /\ handling'[t] \in {"none", "left"}
        /\ pending'["send"] = pending["send"] /\ owner'["send"] = owner["send"]
    BY <2>1, CompleteTypes
  <2> QED
    BY <2>1, <2>2, SendChainFrame
<1>17. ASSUME NEW t \in Threads, LeaveRoom(t) PROVE SendChain'
  BY <1>17 DEF LeaveRoom
<1>18. ASSUME NEW t \in Threads, ForgetPlayer(t) PROVE SendChain'
  BY <1>18 DEF ForgetPlayer, Removed
<1>19. ASSUME NEW t \in Threads, PopSession(t) PROVE SendChain'
  BY <1>19 DEF PopSession, Unlist
<1>20. CASE UNCHANGED vars
  BY <1>20 DEF vars
<1> QED
  BY <1>1, <1>2, <1>3, <1>4, <1>5, <1>6, <1>7, <1>8, <1>9, <1>10, <1>11,
     <1>12, <1>13, <1>14, <1>15, <1>16, <1>17, <1>18, <1>19, <1>20
     DEF Next, CallStep, SendCompletes, RecvCompletes, DisconnectCompletes

(* What adds nothing to the chain of receives.                             *)
LEMMA RecvChainFrame ==
  ASSUME RecvChain,
         pending'["recv"] = pending["recv"], owner'["recv"] = owner["recv"],
         \A u \in Threads : handling'[u] \in Receiving
           => handling[u] \in Receiving
  PROVE  RecvChain'
BY DEF RecvChain

(* One thread or one WSARecv goes on with the receives.                    *)
LEMMA RecvChainNext == Types /\ RecvChain /\ [Next]_vars => RecvChain'
<1> SUFFICES ASSUME Types, RecvChain, [Next]_vars PROVE RecvChain'
  OBVIOUS
<1> USE DEF Types, Events, Steps, Starting, Receiving, sendVars, callVars,
            ioVars, gameVars, GoOn
<1>1. ASSUME NEW t \in Threads, ProcessConnect(t) PROVE RecvChain'
  <2>1. \A u \in Threads : handling'[u] \in Receiving
          => handling[u] \in Receiving
    BY <1>1 DEF ProcessConnect
  <2>2. pending' = pending /\ owner' = owner
    BY <1>1 DEF ProcessConnect
  <2> QED
    BY <2>1, <2>2, RecvChainFrame
<1>2. ASSUME NEW t \in Threads, OnConnected(t) PROVE RecvChain'
  <2>1. \A u \in Threads : handling'[u] \in Receiving
          => handling[u] \in Receiving
    BY <1>2 DEF OnConnected
  <2>2. pending' = pending /\ owner' = owner
    BY <1>2 DEF OnConnected
  <2> QED
    BY <2>1, <2>2, RecvChainFrame
<1>3. ASSUME NEW t \in Threads, PushSession(t) PROVE RecvChain'
  <2>1. \A u \in Threads : handling'[u] \in Receiving
          => handling[u] \in Receiving
    BY <1>3 DEF PushSession
  <2>2. pending' = pending /\ owner' = owner
    BY <1>3 DEF PushSession
  <2> QED
    BY <2>1, <2>2, RecvChainFrame
<1>4. ASSUME NEW t \in Threads, RegisterRecv(t) PROVE RecvChain'
  <2>1. /\ handling[t] = "received" /\ handling'[t] \in {"none", "closing"}
        /\ \A u \in Threads : u # t => handling'[u] = handling[u]
    BY <1>4 DEF RegisterRecv
  <2>2. /\ pending["recv"] = 0
        /\ \A u \in Threads : handling'[u] \notin Receiving
    BY <2>1 DEF RecvChain
  <2>3. \/ pending'["recv"] = 0
        \/ pending'["recv"] = 1 /\ owner'["recv"]
    BY <1>4, <2>2, StartTypes DEF RegisterRecv
  <2> QED
    BY <2>2, <2>3 DEF RecvChain
<1>5. ASSUME NEW t \in Threads, RecvData(t) PROVE RecvChain'
  <2>1. Complete(t, "recv", "received")
    BY <1>5 DEF RecvData
  <2>2. /\ pending["recv"] > 0 /\ pending'["recv"] = pending["recv"] - 1
        /\ \A u \in Threads : u # t => handling'[u] = handling[u]
    BY <2>1, CompleteTypes
  <2>3. pending'["recv"] = 0 /\ \A u \in Threads : handling[u] \notin Receiving
    BY <2>2 DEF RecvChain
  <2> QED
    BY <2>2, <2>3 DEF RecvChain
<1>6. ASSUME NEW t \in Threads, RecvEnd(t) PROVE RecvChain'
  <2>1. Complete(t, "recv", "closing")
    BY <1>6 DEF RecvEnd
  <2>2. /\ pending["recv"] > 0 /\ pending'["recv"] = pending["recv"] - 1
        /\ \A u \in Threads : u # t => handling'[u] = handling[u]
    BY <2>1, CompleteTypes
  <2>3. pending'["recv"] = 0 /\ \A u \in Threads : handling[u] \notin Receiving
    BY <2>2 DEF RecvChain
  <2> QED
    BY <2>2, <2>3 DEF RecvChain
<1>7. ASSUME NEW t \in Threads, NEW b \in Buffers, Push(t, b) PROVE RecvChain'
  <2>1. \A u \in Threads : handling'[u] \in Receiving
          => handling[u] \in Receiving
    BY <1>7 DEF Push
  <2>2. pending' = pending /\ owner' = owner
    BY <1>7 DEF Push
  <2> QED
    BY <2>1, <2>2, RecvChainFrame
<1>8. ASSUME NEW t \in Threads, TakeFlag(t) PROVE RecvChain'
  <2>1. \A u \in Threads : handling'[u] \in Receiving
          => handling[u] \in Receiving
    BY <1>8 DEF TakeFlag
  <2>2. pending' = pending /\ owner' = owner
    BY <1>8 DEF TakeFlag
  <2> QED
    BY <2>1, <2>2, RecvChainFrame
<1>9. ASSUME NEW t \in Threads, BeginSend(t) PROVE RecvChain'
  <2>1. Returns \/ CallsFront \/ Sends \/ FailsToSend
    BY <1>9, RegisterSendTypes DEF BeginSend
  <2>2. pending'["recv"] = pending["recv"] /\ owner'["recv"] = owner["recv"]
    BY <1>9, <2>1, StartTypes DEF BeginSend, Returns, CallsFront, Sends,
      FailsToSend,
       FreeFlag
  <2>3. \A u \in Threads : handling'[u] \in Receiving
          => handling[u] \in Receiving
    BY <1>9 DEF BeginSend
  <2> QED
    BY <2>2, <2>3, RecvChainFrame
<1>10. ASSUME NEW t \in Threads, SendDone(t) PROVE RecvChain'
  <2>1. Complete(t, "send", "sent")
    BY <1>10 DEF SendDone
  <2>2. /\ pending'["recv"] = pending["recv"] /\ owner'["recv"] = owner["recv"]
        /\ handling'[t] \in {"none", "sent"}
        /\ \A u \in Threads : u # t => handling'[u] = handling[u]
    BY <2>1, CompleteTypes
  <2> QED
    BY <2>2, RecvChainFrame
<1>11. ASSUME NEW t \in Threads, ContinueSend(t) PROVE RecvChain'
  <2>1. FreeFlag \/ Returns \/ CallsFront \/ Sends \/ FailsToSend
    BY <1>11, RegisterSendTypes DEF ContinueSend, SendNext
  <2>2. pending'["recv"] = pending["recv"] /\ owner'["recv"] = owner["recv"]
    BY <1>11, <2>1, StartTypes DEF ContinueSend, Returns, CallsFront, Sends,
      FailsToSend,
       FreeFlag
  <2>3. \A u \in Threads : handling'[u] \in Receiving
          => handling[u] \in Receiving
    BY <1>11 DEF ContinueSend
  <2> QED
    BY <2>2, <2>3, RecvChainFrame
<1>12. ASSUME NEW t \in Threads, SendZero(t) PROVE RecvChain'
  <2>1. Complete(t, "send", "closing")
    BY <1>12 DEF SendZero
  <2>2. /\ pending'["recv"] = pending["recv"] /\ owner'["recv"] = owner["recv"]
        /\ handling'[t] \in {"none", "closing"}
        /\ \A u \in Threads : u # t => handling'[u] = handling[u]
    BY <2>1, CompleteTypes
  <2> QED
    BY <2>2, RecvChainFrame
<1>13. ASSUME NEW t \in Threads, LoadConnected(t) PROVE RecvChain'
  <2>1. \A u \in Threads : handling'[u] \in Receiving
          => handling[u] \in Receiving
    BY <1>13 DEF LoadConnected
  <2>2. pending' = pending /\ owner' = owner
    BY <1>13 DEF LoadConnected
  <2> QED
    BY <2>1, <2>2, RecvChainFrame
<1>14. ASSUME NEW t \in Threads, SwapConnected(t) PROVE RecvChain'
  <2>1. \A u \in Threads : handling'[u] \in Receiving
          => handling[u] \in Receiving
    BY <1>14 DEF SwapConnected
  <2>2. pending' = pending /\ owner' = owner
    BY <1>14 DEF SwapConnected
  <2> QED
    BY <2>1, <2>2, RecvChainFrame
<1>15. ASSUME NEW t \in Threads, RegisterDisconnect(t) PROVE RecvChain'
  <2>1. \A u \in Threads : handling'[u] \in Receiving
          => handling[u] \in Receiving
    BY <1>15 DEF RegisterDisconnect
  <2>2. pending'["recv"] = pending["recv"] /\ owner'["recv"] = owner["recv"]
    BY <1>15, StartTypes DEF RegisterDisconnect
  <2> QED
    BY <2>1, <2>2, RecvChainFrame
<1>16. ASSUME NEW t \in Threads, DisconnectDone(t) PROVE RecvChain'
  <2>1. Complete(t, "disconnect", "left")
    BY <1>16 DEF DisconnectDone
  <2>2. /\ pending'["recv"] = pending["recv"] /\ owner'["recv"] = owner["recv"]
        /\ handling'[t] \in {"none", "left"}
        /\ \A u \in Threads : u # t => handling'[u] = handling[u]
    BY <2>1, CompleteTypes
  <2> QED
    BY <2>2, RecvChainFrame
<1>17. ASSUME NEW t \in Threads, LeaveRoom(t) PROVE RecvChain'
  <2>1. \A u \in Threads : handling'[u] \in Receiving
          => handling[u] \in Receiving
    BY <1>17 DEF LeaveRoom
  <2>2. pending' = pending /\ owner' = owner
    BY <1>17 DEF LeaveRoom
  <2> QED
    BY <2>1, <2>2, RecvChainFrame
<1>18. ASSUME NEW t \in Threads, ForgetPlayer(t) PROVE RecvChain'
  <2>1. \A u \in Threads : handling'[u] \in Receiving
          => handling[u] \in Receiving
    BY <1>18 DEF ForgetPlayer
  <2>2. pending' = pending /\ owner' = owner
    BY <1>18 DEF ForgetPlayer
  <2> QED
    BY <2>1, <2>2, RecvChainFrame
<1>19. ASSUME NEW t \in Threads, PopSession(t) PROVE RecvChain'
  <2>1. \A u \in Threads : handling'[u] \in Receiving
          => handling[u] \in Receiving
    BY <1>19 DEF PopSession
  <2>2. pending' = pending /\ owner' = owner
    BY <1>19 DEF PopSession
  <2> QED
    BY <2>1, <2>2, RecvChainFrame
<1>20. CASE UNCHANGED vars
  BY <1>20 DEF vars, RecvChain
<1> QED
  BY <1>1, <1>2, <1>3, <1>4, <1>5, <1>6, <1>7, <1>8, <1>9, <1>10, <1>11,
     <1>12, <1>13, <1>14, <1>15, <1>16, <1>17, <1>18, <1>19, <1>20
     DEF Next, CallStep, SendCompletes, RecvCompletes, DisconnectCompletes

(* A chain of sends that has ended stays ended: nobody gets the flag.      *)
LEMMA SendEndedStays == Types /\ SendEnded /\ [Next]_vars => SendEnded'
<1> SUFFICES ASSUME Types, SendEnded, [Next]_vars PROVE SendEnded'
  OBVIOUS
<1> USE DEF SendEnded, Wins, Types, Events, Steps, sendVars, callVars,
            ioVars, gameVars, GoOn
<1>1. ASSUME NEW t \in Threads, ProcessConnect(t) PROVE SendEnded'
  BY <1>1 DEF ProcessConnect
<1>2. ASSUME NEW t \in Threads, OnConnected(t) PROVE SendEnded'
  BY <1>2 DEF OnConnected
<1>3. ASSUME NEW t \in Threads, PushSession(t) PROVE SendEnded'
  BY <1>3 DEF PushSession
<1>4. ASSUME NEW t \in Threads, RegisterRecv(t) PROVE SendEnded'
  <2>1. /\ UNCHANGED <<isSend, sending>>
        /\ \A u \in Threads : handling'[u] # "sent" \/ handling[u] = "sent"
    BY <1>4 DEF RegisterRecv
  <2>2. pending'["send"] = pending["send"]
    BY <1>4, StartTypes DEF RegisterRecv
  <2> QED
    BY <2>1, <2>2
<1>5. ASSUME NEW t \in Threads, RecvData(t) PROVE SendEnded'
  <2>1. Complete(t, "recv", "received") /\ UNCHANGED <<isSend, sending>>
    BY <1>5 DEF RecvData
  <2>2. /\ pending'["send"] = pending["send"] /\ handling'[t] # "sent"
        /\ \A u \in Threads : u # t => handling'[u] = handling[u]
    <3>1. /\ pending'["send"] = pending["send"] /\ handling[t] = "none"
          /\ \/ handling' = [handling EXCEPT ![t] = "received"]
             \/ handling' = handling
      BY <2>1, CompleteTypes
    <3> QED
      BY <3>1 DEF Types
  <2> QED
    BY <2>1, <2>2
<1>6. ASSUME NEW t \in Threads, RecvEnd(t) PROVE SendEnded'
  <2>1. Complete(t, "recv", "closing") /\ UNCHANGED <<isSend, sending>>
    BY <1>6 DEF RecvEnd
  <2>2. /\ pending'["send"] = pending["send"] /\ handling'[t] # "sent"
        /\ \A u \in Threads : u # t => handling'[u] = handling[u]
    <3>1. /\ pending'["send"] = pending["send"] /\ handling[t] = "none"
          /\ \/ handling' = [handling EXCEPT ![t] = "closing"]
             \/ handling' = handling
      BY <2>1, CompleteTypes
    <3> QED
      BY <3>1 DEF Types
  <2> QED
    BY <2>1, <2>2
<1>7. ASSUME NEW t \in Threads, NEW b \in Buffers, Push(t, b) PROVE SendEnded'
  BY <1>7 DEF Push
<1>8. ASSUME NEW t \in Threads, TakeFlag(t) PROVE SendEnded'
  BY <1>8 DEF TakeFlag, MaySend
<1>9. ASSUME NEW t \in Threads, BeginSend(t) PROVE SendEnded'
  BY <1>9 DEF BeginSend
<1>10. ASSUME NEW t \in Threads, SendDone(t) PROVE SendEnded'
  <2>1. Complete(t, "send", "sent")
    BY <1>10 DEF SendDone
  <2> QED
    BY <2>1, CompleteTypes
<1>11. ASSUME NEW t \in Threads, ContinueSend(t) PROVE SendEnded'
  BY <1>11 DEF ContinueSend
<1>12. ASSUME NEW t \in Threads, SendZero(t) PROVE SendEnded'
  <2>1. Complete(t, "send", "closing")
    BY <1>12 DEF SendZero
  <2> QED
    BY <2>1, CompleteTypes
<1>13. ASSUME NEW t \in Threads, LoadConnected(t) PROVE SendEnded'
  BY <1>13 DEF LoadConnected
<1>14. ASSUME NEW t \in Threads, SwapConnected(t) PROVE SendEnded'
  BY <1>14 DEF SwapConnected
<1>15. ASSUME NEW t \in Threads, RegisterDisconnect(t) PROVE SendEnded'
  <2>1. /\ UNCHANGED <<isSend, sending>>
        /\ \A u \in Threads : handling'[u] # "sent" \/ handling[u] = "sent"
    BY <1>15 DEF RegisterDisconnect
  <2>2. pending'["send"] = pending["send"]
    BY <1>15, StartTypes DEF RegisterDisconnect
  <2> QED
    BY <2>1, <2>2
<1>16. ASSUME NEW t \in Threads, DisconnectDone(t) PROVE SendEnded'
  <2>1. Complete(t, "disconnect", "left") /\ UNCHANGED <<isSend, sending>>
    BY <1>16 DEF DisconnectDone
  <2>2. /\ pending'["send"] = pending["send"] /\ handling'[t] # "sent"
        /\ \A u \in Threads : u # t => handling'[u] = handling[u]
    <3>1. /\ pending'["send"] = pending["send"] /\ handling[t] = "none"
          /\ \/ handling' = [handling EXCEPT ![t] = "left"]
             \/ handling' = handling
      BY <2>1, CompleteTypes
    <3> QED
      BY <3>1 DEF Types
  <2> QED
    BY <2>1, <2>2
<1>17. ASSUME NEW t \in Threads, LeaveRoom(t) PROVE SendEnded'
  BY <1>17 DEF LeaveRoom
<1>18. ASSUME NEW t \in Threads, ForgetPlayer(t) PROVE SendEnded'
  BY <1>18 DEF ForgetPlayer, Removed
<1>19. ASSUME NEW t \in Threads, PopSession(t) PROVE SendEnded'
  BY <1>19 DEF PopSession, Unlist
<1>20. CASE UNCHANGED vars
  BY <1>20 DEF vars
<1> QED
  BY <1>1, <1>2, <1>3, <1>4, <1>5, <1>6, <1>7, <1>8, <1>9, <1>10, <1>11,
     <1>12, <1>13, <1>14, <1>15, <1>16, <1>17, <1>18, <1>19, <1>20
     DEF Next, CallStep, SendCompletes, RecvCompletes, DisconnectCompletes

(* So does a chain of receives: nobody begins another one.                 *)
LEMMA RecvEndedStays == Types /\ RecvChain /\ ~RecvAlive /\ [Next]_vars
  => ~RecvAlive'
<1> SUFFICES ASSUME Types, RecvChain, ~RecvAlive, [Next]_vars PROVE ~RecvAlive'
  OBVIOUS
<1> USE DEF Types, Events, Steps, Starting, Receiving, sendVars, callVars,
            ioVars, gameVars, GoOn
<1>1. ASSUME NEW t \in Threads, ProcessConnect(t) PROVE ~RecvAlive'
  <2>1. \A u \in Threads : handling'[u] \in Receiving
          => handling[u] \in Receiving
    BY <1>1 DEF ProcessConnect
  <2>2. pending' = pending
    BY <1>1 DEF ProcessConnect
  <2> QED
    BY <2>1, <2>2 DEF RecvAlive
<1>2. ASSUME NEW t \in Threads, OnConnected(t) PROVE ~RecvAlive'
  <2>1. \A u \in Threads : handling'[u] \in Receiving
          => handling[u] \in Receiving
    BY <1>2 DEF OnConnected
  <2>2. pending' = pending
    BY <1>2 DEF OnConnected
  <2> QED
    BY <2>1, <2>2 DEF RecvAlive
<1>3. ASSUME NEW t \in Threads, PushSession(t) PROVE ~RecvAlive'
  <2>1. \A u \in Threads : handling'[u] \in Receiving
          => handling[u] \in Receiving
    BY <1>3 DEF PushSession
  <2>2. pending' = pending
    BY <1>3 DEF PushSession
  <2> QED
    BY <2>1, <2>2 DEF RecvAlive
<1>4. ASSUME NEW t \in Threads, RegisterRecv(t) PROVE ~RecvAlive'
  BY <1>4 DEF RegisterRecv, RecvAlive
<1>5. ASSUME NEW t \in Threads, RecvData(t) PROVE ~RecvAlive'
  <2>1. Complete(t, "recv", "received")
    BY <1>5 DEF RecvData
  <2> QED
    BY <2>1, CompleteTypes DEF RecvAlive, RecvChain
<1>6. ASSUME NEW t \in Threads, RecvEnd(t) PROVE ~RecvAlive'
  <2>1. Complete(t, "recv", "closing")
    BY <1>6 DEF RecvEnd
  <2> QED
    BY <2>1, CompleteTypes DEF RecvAlive, RecvChain
<1>7. ASSUME NEW t \in Threads, NEW b \in Buffers, Push(t, b) PROVE ~RecvAlive'
  <2>1. \A u \in Threads : handling'[u] \in Receiving
          => handling[u] \in Receiving
    BY <1>7 DEF Push
  <2>2. pending' = pending
    BY <1>7 DEF Push
  <2> QED
    BY <2>1, <2>2 DEF RecvAlive
<1>8. ASSUME NEW t \in Threads, TakeFlag(t) PROVE ~RecvAlive'
  <2>1. \A u \in Threads : handling'[u] \in Receiving
          => handling[u] \in Receiving
    BY <1>8 DEF TakeFlag
  <2>2. pending' = pending
    BY <1>8 DEF TakeFlag
  <2> QED
    BY <2>1, <2>2 DEF RecvAlive
<1>9. ASSUME NEW t \in Threads, BeginSend(t) PROVE ~RecvAlive'
  <2>1. Returns \/ CallsFront \/ Sends \/ FailsToSend
    BY <1>9, RegisterSendTypes DEF BeginSend
  <2>2. pending'["recv"] = pending["recv"]
    BY <1>9, <2>1, StartTypes DEF BeginSend, Returns, CallsFront, Sends,
      FailsToSend,
       FreeFlag
  <2>3. \A u \in Threads : handling'[u] \in Receiving
          => handling[u] \in Receiving
    BY <1>9 DEF BeginSend
  <2> QED
    BY <2>2, <2>3 DEF RecvAlive
<1>10. ASSUME NEW t \in Threads, SendDone(t) PROVE ~RecvAlive'
  <2>1. Complete(t, "send", "sent")
    BY <1>10 DEF SendDone
  <2>2. /\ pending'["recv"] = pending["recv"]
        /\ handling'[t] \in {"none", "sent"}
        /\ \A u \in Threads : u # t => handling'[u] = handling[u]
    BY <2>1, CompleteTypes
  <2> QED
    BY <2>2 DEF RecvAlive
<1>11. ASSUME NEW t \in Threads, ContinueSend(t) PROVE ~RecvAlive'
  <2>1. FreeFlag \/ Returns \/ CallsFront \/ Sends \/ FailsToSend
    BY <1>11, RegisterSendTypes DEF ContinueSend, SendNext
  <2>2. pending'["recv"] = pending["recv"]
    BY <1>11, <2>1, StartTypes DEF ContinueSend, Returns, CallsFront, Sends,
      FailsToSend,
       FreeFlag
  <2>3. \A u \in Threads : handling'[u] \in Receiving
          => handling[u] \in Receiving
    BY <1>11 DEF ContinueSend
  <2> QED
    BY <2>2, <2>3 DEF RecvAlive
<1>12. ASSUME NEW t \in Threads, SendZero(t) PROVE ~RecvAlive'
  <2>1. Complete(t, "send", "closing")
    BY <1>12 DEF SendZero
  <2>2. /\ pending'["recv"] = pending["recv"]
        /\ handling'[t] \in {"none", "closing"}
        /\ \A u \in Threads : u # t => handling'[u] = handling[u]
    BY <2>1, CompleteTypes
  <2> QED
    BY <2>2 DEF RecvAlive
<1>13. ASSUME NEW t \in Threads, LoadConnected(t) PROVE ~RecvAlive'
  <2>1. \A u \in Threads : handling'[u] \in Receiving
          => handling[u] \in Receiving
    BY <1>13 DEF LoadConnected
  <2>2. pending' = pending
    BY <1>13 DEF LoadConnected
  <2> QED
    BY <2>1, <2>2 DEF RecvAlive
<1>14. ASSUME NEW t \in Threads, SwapConnected(t) PROVE ~RecvAlive'
  <2>1. \A u \in Threads : handling'[u] \in Receiving
          => handling[u] \in Receiving
    BY <1>14 DEF SwapConnected
  <2>2. pending' = pending
    BY <1>14 DEF SwapConnected
  <2> QED
    BY <2>1, <2>2 DEF RecvAlive
<1>15. ASSUME NEW t \in Threads, RegisterDisconnect(t) PROVE ~RecvAlive'
  <2>1. \A u \in Threads : handling'[u] \in Receiving
          => handling[u] \in Receiving
    BY <1>15 DEF RegisterDisconnect
  <2>2. pending'["recv"] = pending["recv"]
    BY <1>15, StartTypes DEF RegisterDisconnect
  <2> QED
    BY <2>1, <2>2 DEF RecvAlive
<1>16. ASSUME NEW t \in Threads, DisconnectDone(t) PROVE ~RecvAlive'
  <2>1. Complete(t, "disconnect", "left")
    BY <1>16 DEF DisconnectDone
  <2>2. /\ pending'["recv"] = pending["recv"]
        /\ handling'[t] \in {"none", "left"}
        /\ \A u \in Threads : u # t => handling'[u] = handling[u]
    BY <2>1, CompleteTypes
  <2> QED
    BY <2>2 DEF RecvAlive
<1>17. ASSUME NEW t \in Threads, LeaveRoom(t) PROVE ~RecvAlive'
  <2>1. \A u \in Threads : handling'[u] \in Receiving
          => handling[u] \in Receiving
    BY <1>17 DEF LeaveRoom
  <2>2. pending' = pending
    BY <1>17 DEF LeaveRoom
  <2> QED
    BY <2>1, <2>2 DEF RecvAlive
<1>18. ASSUME NEW t \in Threads, ForgetPlayer(t) PROVE ~RecvAlive'
  <2>1. \A u \in Threads : handling'[u] \in Receiving
          => handling[u] \in Receiving
    BY <1>18 DEF ForgetPlayer
  <2>2. pending' = pending
    BY <1>18 DEF ForgetPlayer
  <2> QED
    BY <2>1, <2>2 DEF RecvAlive
<1>19. ASSUME NEW t \in Threads, PopSession(t) PROVE ~RecvAlive'
  <2>1. \A u \in Threads : handling'[u] \in Receiving
          => handling[u] \in Receiving
    BY <1>19 DEF PopSession
  <2>2. pending' = pending
    BY <1>19 DEF PopSession
  <2> QED
    BY <2>1, <2>2 DEF RecvAlive
<1>20. CASE UNCHANGED vars
  BY <1>20 DEF vars, RecvAlive
<1> QED
  BY <1>1, <1>2, <1>3, <1>4, <1>5, <1>6, <1>7, <1>8, <1>9, <1>10, <1>11,
     <1>12, <1>13, <1>14, <1>15, <1>16, <1>17, <1>18, <1>19, <1>20
     DEF Next, CallStep, SendCompletes, RecvCompletes, DisconnectCompletes

-----------------------------------------------------------------------------
(* There are finitely many threads, so those that end the session can be   *)
(* counted, one more or one less.                                          *)
LEMMA EndersFinite ==
  IsFiniteSet(Enders) /\ Cardinality(Enders) \in Nat
<1>1. Enders \in SUBSET Threads
  BY DEF Enders
<1> QED
  BY <1>1, ThreadsAssumption, FS_Subset, FS_CardinalityType

(* A thread begins to end the session: one more ender.                     *)
LEMMA OneEnderMore ==
  ASSUME NEW t \in Threads, handling[t] \notin Ending, handling'[t] \in Ending,
         \A u \in Threads : u # t => handling'[u] = handling[u]
  PROVE  /\ Enders' = Enders \cup {t}
         /\ Cardinality(Enders') = Cardinality(Enders) + 1
<1>1. Enders' = Enders \cup {t} /\ t \notin Enders
  BY DEF Enders
<1> QED
  BY <1>1, EndersFinite, FS_AddElement

(* A thread is done with it: one ender less.                               *)
LEMMA OneEnderLess ==
  ASSUME NEW t \in Threads, handling[t] \in Ending, handling'[t] \notin Ending,
         \A u \in Threads : u # t => handling'[u] = handling[u]
  PROVE  /\ Enders' = Enders \ {t} /\ Cardinality(Enders) >= 1
         /\ Cardinality(Enders') = Cardinality(Enders) - 1
<1>1. Enders' = Enders \ {t} /\ t \in Enders
  BY DEF Enders
<1>2. Cardinality(Enders \ {t}) = Cardinality(Enders) - 1
  BY <1>1, EndersFinite, FS_RemoveElement
<1>3. Cardinality(Enders) # 0
  BY <1>1, EndersFinite, FS_EmptySet
<1> QED
  BY <1>1, <1>2, <1>3, EndersFinite

(* A step that changes no thread's part in ending keeps the enders.        *)
LEMMA SameEnders ==
  ASSUME \A u \in Threads : handling'[u] \in Ending <=> handling[u] \in Ending
  PROVE  Enders' = Enders
BY DEF Enders

(* A step that calls Disconnect ends one of the chains.                    *)
LEMMA OneCallMore ==
  ASSUME Types, Types', CallsOfDisconnect, NEW t \in Threads,
         closes' = closes + 1, pending'["disconnect"] = pending["disconnect"],
         Cardinality(Enders') = Cardinality(Enders) + 1,
         \/ RecvAlive /\ ~RecvAlive' /\ (SendEnded => SendEnded')
         \/ ~SendEnded /\ SendEnded' /\ (~RecvAlive => ~RecvAlive')
  PROVE  CallsOfDisconnect'
<1>1. Cardinality(Enders) \in Nat /\ Cardinality(Enders)' \in Nat
  <2>1. Enders \in SUBSET Threads /\ Enders' \in SUBSET Threads
    BY DEF Enders
  <2> QED
    BY <2>1, ThreadsAssumption, FS_Subset, FS_CardinalityType
<1>2. /\ pending["disconnect"] \in Nat /\ closes \in Nat
      /\ Cardinality(Enders) + pending["disconnect"] <= closes
      /\ Cardinality(Enders)' = Cardinality(Enders) + 1
  BY DEF Types, Events, CallsOfDisconnect
<1>3. Cardinality(Enders)' + pending'["disconnect"] <= closes'
  BY <1>1, <1>2
<1>4. CASE RecvAlive /\ ~RecvAlive' /\ (SendEnded => SendEnded')
  <2>1. closes \in {0, 1} /\ (closes = 1 => SendEnded)
    BY <1>2, <1>4 DEF CallsOfDisconnect
  <2>2. /\ closes' <= 2 /\ (closes' = 2 => ~RecvAlive' /\ SendEnded')
        /\ (closes' = 1 /\ RecvAlive' => SendEnded')
    BY <1>4, <2>1
  <2> QED
    BY <1>3, <2>2 DEF CallsOfDisconnect
<1>5. CASE ~SendEnded /\ SendEnded' /\ (~RecvAlive => ~RecvAlive')
  <2>1. closes \in {0, 1} /\ (closes = 1 => ~RecvAlive)
    BY <1>2, <1>5 DEF CallsOfDisconnect
  <2>2. /\ closes' <= 2 /\ (closes' = 2 => ~RecvAlive' /\ SendEnded')
        /\ (closes' = 1 /\ RecvAlive' => SendEnded')
    BY <1>5, <2>1
  <2> QED
    BY <1>3, <2>2 DEF CallsOfDisconnect
<1> QED
  BY <1>4, <1>5

(* Any other step may not make more of the calls there have been.          *)
LEMMA NoCallMore ==
  ASSUME Types, Types', CallsOfDisconnect, closes' = closes,
         SendEnded => SendEnded', ~RecvAlive => ~RecvAlive',
         Cardinality(Enders') + pending'["disconnect"]
           <= Cardinality(Enders) + pending["disconnect"]
  PROVE  CallsOfDisconnect'
<1>1. Cardinality(Enders) \in Nat /\ Cardinality(Enders)' \in Nat
  <2>1. Enders \in SUBSET Threads /\ Enders' \in SUBSET Threads
    BY DEF Enders
  <2> QED
    BY <2>1, ThreadsAssumption, FS_Subset, FS_CardinalityType
<1>2. /\ pending["disconnect"] \in Nat /\ pending'["disconnect"] \in Nat
      /\ closes \in Nat
  BY DEF Types, Events
<1> QED
  BY <1>1, <1>2 DEF CallsOfDisconnect

(* A step that brings nobody closer to the end of the session.             *)
LEMMA CallsFrame ==
  ASSUME Types, Types', CallsOfDisconnect, closes' = closes,
         pending'["disconnect"] = pending["disconnect"],
         SendEnded => SendEnded', ~RecvAlive => ~RecvAlive',
         \A u \in Threads : handling'[u] \in Ending => handling[u] \in Ending
  PROVE  CallsOfDisconnect'
<1>1. Enders' \in SUBSET Enders
  BY DEF Enders
<1>2. /\ Cardinality(Enders) \in Nat /\ Cardinality(Enders') \in Nat
      /\ Cardinality(Enders') <= Cardinality(Enders)
  BY <1>1, EndersFinite, FS_Subset, FS_CardinalityType
<1>3. pending["disconnect"] \in Nat /\ pending'["disconnect"] \in Nat
  BY DEF Types, Events
<1>4. Cardinality(Enders') + pending'["disconnect"]
        <= Cardinality(Enders) + pending["disconnect"]
  BY <1>2, <1>3
<1> QED
  BY <1>4, NoCallMore

(* Disconnect is called once by each of the two chains.                     *)
LEMMA CallsNext == Types /\ SendChain /\ RecvChain /\ CallsOfDisconnect
  /\ [Next]_vars => CallsOfDisconnect'
<1> SUFFICES ASSUME Types, SendChain, RecvChain, CallsOfDisconnect,
      [Next]_vars PROVE CallsOfDisconnect'
  OBVIOUS
<1>0. Types' /\ (SendEnded => SendEnded') /\ (~RecvAlive => ~RecvAlive')
  BY TypesNext, SendEndedStays, RecvEndedStays
<1> USE DEF Types, Events, Steps, Starting, Receiving, Ending, sendVars,
            callVars, ioVars, gameVars, GoOn
<1>1. ASSUME NEW t \in Threads, ProcessConnect(t) PROVE CallsOfDisconnect'
  <2>1. /\ closes' = closes
        /\ \A u \in Threads : handling'[u] \in Ending => handling[u] \in Ending
    BY <1>1 DEF ProcessConnect
  <2>2. pending' = pending
    BY <1>1 DEF ProcessConnect
  <2> QED
    BY <1>0, <2>1, <2>2, CallsFrame
<1>2. ASSUME NEW t \in Threads, OnConnected(t) PROVE CallsOfDisconnect'
  <2>1. /\ closes' = closes
        /\ \A u \in Threads : handling'[u] \in Ending => handling[u] \in Ending
    BY <1>2 DEF OnConnected
  <2>2. pending' = pending
    BY <1>2 DEF OnConnected
  <2> QED
    BY <1>0, <2>1, <2>2, CallsFrame
<1>3. ASSUME NEW t \in Threads, PushSession(t) PROVE CallsOfDisconnect'
  <2>1. /\ closes' = closes
        /\ \A u \in Threads : handling'[u] \in Ending => handling[u] \in Ending
    BY <1>3 DEF PushSession
  <2>2. pending' = pending
    BY <1>3 DEF PushSession
  <2> QED
    BY <1>0, <2>1, <2>2, CallsFrame
<1>4. ASSUME NEW t \in Threads, RegisterRecv(t) PROVE CallsOfDisconnect'
  <2>1. /\ handling[t] = "received" /\ handling'[t] \in {"none", "closing"}
        /\ \A u \in Threads : u # t => handling'[u] = handling[u]
    BY <1>4 DEF RegisterRecv
  <2>2. pending'["disconnect"] = pending["disconnect"]
    BY <1>4, StartTypes DEF RegisterRecv
  <2>3. CASE handling'[t] = "none"
    <3>1. closes' = closes
      BY <1>4, <2>1, <2>3 DEF RegisterRecv
    <3> QED
      BY <1>0, <2>1, <2>2, <2>3, <3>1, CallsFrame
  <2>4. CASE handling'[t] = "closing"
    <3>1. closes' = closes + 1 /\ FailAtOnce("recv")
      BY <1>4, <2>1, <2>4 DEF RegisterRecv
    <3>2. Cardinality(Enders') = Cardinality(Enders) + 1
      BY <2>1, <2>4, OneEnderMore
    <3>3. RecvAlive /\ ~RecvAlive'
      <4>1. pending["recv"] = 0 /\ pending'["recv"] = 0
        BY <2>1, <3>1, StartTypes DEF RecvChain
      <4>2. \A u \in Threads : handling'[u] \notin Receiving
        BY <2>1, <2>4 DEF RecvChain
      <4> QED
        BY <2>1, <4>1, <4>2 DEF RecvAlive
    <3> QED
      BY <1>0, <2>2, <3>1, <3>2, <3>3, OneCallMore
  <2> QED
    BY <2>1, <2>3, <2>4
<1>5. ASSUME NEW t \in Threads, RecvData(t) PROVE CallsOfDisconnect'
  <2>1. Complete(t, "recv", "received") /\ closes' = closes
    BY <1>5 DEF RecvData
  <2>2. /\ pending'["disconnect"] = pending["disconnect"]
        /\ handling'[t] \in {"none", "received"}
        /\ \A u \in Threads : u # t => handling'[u] = handling[u]
    BY <2>1, CompleteTypes
  <2> QED
    BY <1>0, <2>1, <2>2, CallsFrame
<1>6. ASSUME NEW t \in Threads, RecvEnd(t) PROVE CallsOfDisconnect'
  <2>1. Complete(t, "recv", "closing") /\ closes' = closes + 1
    BY <1>6 DEF RecvEnd
  <2>2. /\ pending["recv"] > 0 /\ pending'["recv"] = pending["recv"] - 1
        /\ pending'["disconnect"] = pending["disconnect"]
        /\ handling[t] = "none"
    BY <2>1, CompleteTypes
  <2>3. pending["recv"] = 1 /\ owner["recv"]
    BY <2>2 DEF RecvChain
  <2>4. /\ handling'[t] = "closing"
        /\ \A u \in Threads : u # t => handling'[u] = handling[u]
    BY <2>1, <2>3, CompleteTypes
  <2>5. Cardinality(Enders') = Cardinality(Enders) + 1
    BY <2>2, <2>4, OneEnderMore
  <2>6. RecvAlive /\ ~RecvAlive'
    <3>1. \A u \in Threads : handling'[u] \notin Receiving
      BY <2>3, <2>4 DEF RecvChain
    <3> QED
      BY <2>2, <2>3, <3>1 DEF RecvAlive
  <2> QED
    BY <1>0, <2>1, <2>2, <2>5, <2>6, OneCallMore
<1>7. ASSUME NEW t \in Threads, NEW b \in Buffers, Push(t, b)
        PROVE CallsOfDisconnect'
  <2>1. /\ closes' = closes
        /\ \A u \in Threads : handling'[u] \in Ending => handling[u] \in Ending
    BY <1>7 DEF Push
  <2>2. pending' = pending
    BY <1>7 DEF Push
  <2> QED
    BY <1>0, <2>1, <2>2, CallsFrame
<1>8. ASSUME NEW t \in Threads, TakeFlag(t) PROVE CallsOfDisconnect'
  <2>1. /\ closes' = closes
        /\ \A u \in Threads : handling'[u] \in Ending => handling[u] \in Ending
    BY <1>8 DEF TakeFlag
  <2>2. pending' = pending
    BY <1>8 DEF TakeFlag
  <2> QED
    BY <1>0, <2>1, <2>2, CallsFrame
<1>9. ASSUME NEW t \in Threads, BeginSend(t) PROVE CallsOfDisconnect'
  <2>1. Returns \/ CallsFront \/ Sends \/ FailsToSend
    BY <1>9, RegisterSendTypes DEF BeginSend
  <2>2. pending'["disconnect"] = pending["disconnect"]
    BY <1>9, <2>1, StartTypes DEF BeginSend, Returns, CallsFront, Sends,
      FailsToSend,
       FreeFlag
  <2>3. /\ closes' = closes
        /\ \A u \in Threads : handling'[u] \in Ending => handling[u] \in Ending
    BY <1>9 DEF BeginSend
  <2> QED
    BY <1>0, <2>2, <2>3, CallsFrame
<1>10. ASSUME NEW t \in Threads, SendDone(t) PROVE CallsOfDisconnect'
  <2>1. Complete(t, "send", "sent") /\ closes' = closes
    BY <1>10 DEF SendDone
  <2>2. /\ pending'["disconnect"] = pending["disconnect"]
        /\ handling'[t] \in {"none", "sent"}
        /\ \A u \in Threads : u # t => handling'[u] = handling[u]
    BY <2>1, CompleteTypes
  <2> QED
    BY <1>0, <2>1, <2>2, CallsFrame
<1>11. ASSUME NEW t \in Threads, ContinueSend(t) PROVE CallsOfDisconnect'
  <2>1. FreeFlag \/ Returns \/ CallsFront \/ Sends \/ FailsToSend
    BY <1>11, RegisterSendTypes DEF ContinueSend, SendNext
  <2>2. pending'["disconnect"] = pending["disconnect"]
    BY <1>11, <2>1, StartTypes DEF ContinueSend, Returns, CallsFront, Sends,
      FailsToSend,
       FreeFlag
  <2>3. /\ closes' = closes
        /\ \A u \in Threads : handling'[u] \in Ending => handling[u] \in Ending
    BY <1>11 DEF ContinueSend
  <2> QED
    BY <1>0, <2>2, <2>3, CallsFrame
<1>12. ASSUME NEW t \in Threads, SendZero(t) PROVE CallsOfDisconnect'
  <2>1. /\ Complete(t, "send", "closing") /\ closes' = closes + 1
        /\ isSend' = isSend /\ sending' = sending
    BY <1>12 DEF SendZero, FlagAfterZero
  <2>2. /\ pending["send"] > 0 /\ pending'["send"] = pending["send"] - 1
        /\ pending'["disconnect"] = pending["disconnect"]
        /\ handling[t] = "none" /\ sending[t] = "no"
    BY <2>1, CompleteTypes
  <2>3. pending["send"] = 1 /\ owner["send"] /\ isSend
    BY <2>2 DEF SendChain
  <2>4. /\ handling'[t] = "closing"
        /\ \A u \in Threads : u # t => handling'[u] = handling[u]
    BY <2>1, <2>3, CompleteTypes
  <2>5. Cardinality(Enders') = Cardinality(Enders) + 1
    BY <2>2, <2>4, OneEnderMore
  <2>6. ~SendEnded /\ SendEnded'
    <3>1. \A u \in Threads : ~Wins(u)'
      BY <2>1, <2>2, <2>3, <2>4 DEF SendChain, Wins
    <3> QED
      BY <2>1, <2>2, <2>3, <3>1 DEF SendEnded
  <2> QED
    BY <1>0, <2>1, <2>2, <2>5, <2>6, OneCallMore
<1>13. ASSUME NEW t \in Threads, LoadConnected(t) PROVE CallsOfDisconnect'
  <2>1. /\ closes' = closes
        /\ \A u \in Threads : handling'[u] \in Ending => handling[u] \in Ending
    BY <1>13 DEF LoadConnected
  <2>2. pending' = pending
    BY <1>13 DEF LoadConnected
  <2> QED
    BY <1>0, <2>1, <2>2, CallsFrame
<1>14. ASSUME NEW t \in Threads, SwapConnected(t) PROVE CallsOfDisconnect'
  <2>1. /\ closes' = closes
        /\ \A u \in Threads : handling'[u] \in Ending => handling[u] \in Ending
    BY <1>14 DEF SwapConnected
  <2>2. pending' = pending
    BY <1>14 DEF SwapConnected
  <2> QED
    BY <1>0, <2>1, <2>2, CallsFrame
<1>15. ASSUME NEW t \in Threads, RegisterDisconnect(t) PROVE CallsOfDisconnect'
  <2>1. /\ handling[t] = "disconnecting" /\ handling'[t] = "none"
        /\ closes' = closes
        /\ \A u \in Threads : u # t => handling'[u] = handling[u]
    BY <1>15 DEF RegisterDisconnect
  <2>2. /\ pending'["disconnect"] \in {pending["disconnect"],
                                       pending["disconnect"] + 1}
        /\ pending["disconnect"] \in Nat
    BY <1>15, StartTypes DEF RegisterDisconnect
  <2>3. Cardinality(Enders') = Cardinality(Enders) - 1
    BY <2>1, OneEnderLess
  <2>4. Cardinality(Enders') + pending'["disconnect"]
          <= Cardinality(Enders) + pending["disconnect"]
    BY <2>2, <2>3, EndersFinite
  <2> QED
    BY <1>0, <2>1, <2>4, NoCallMore
<1>16. ASSUME NEW t \in Threads, DisconnectDone(t) PROVE CallsOfDisconnect'
  <2>1. Complete(t, "disconnect", "left") /\ closes' = closes
    BY <1>16 DEF DisconnectDone
  <2>2. /\ pending["disconnect"] \in Nat /\ handling[t] = "none"
        /\ pending'["disconnect"] = pending["disconnect"] - 1
        /\ \A u \in Threads : u # t => handling'[u] = handling[u]
        /\ handling'[t] \in {"none", "left"}
    BY <2>1, CompleteTypes
  <2>3. CASE handling'[t] = "none"
    <3>1. Enders' = Enders
      BY <2>2, <2>3 DEF Enders
    <3>2. Cardinality(Enders') + pending'["disconnect"]
            <= Cardinality(Enders) + pending["disconnect"]
      BY <2>2, <3>1, EndersFinite
    <3> QED
      BY <1>0, <2>1, <3>2, NoCallMore
  <2>4. CASE handling'[t] = "left"
    <3>1. Cardinality(Enders') = Cardinality(Enders) + 1
      BY <2>2, <2>4, OneEnderMore
    <3>2. Cardinality(Enders') + pending'["disconnect"]
            <= Cardinality(Enders) + pending["disconnect"]
      BY <2>2, <3>1, EndersFinite
    <3> QED
      BY <1>0, <2>1, <3>2, NoCallMore
  <2> QED
    BY <2>2, <2>3, <2>4
<1>17. ASSUME NEW t \in Threads, LeaveRoom(t) PROVE CallsOfDisconnect'
  <2>1. /\ closes' = closes
        /\ \A u \in Threads : handling'[u] \in Ending => handling[u] \in Ending
    BY <1>17 DEF LeaveRoom
  <2>2. pending' = pending
    BY <1>17 DEF LeaveRoom
  <2> QED
    BY <1>0, <2>1, <2>2, CallsFrame
<1>18. ASSUME NEW t \in Threads, ForgetPlayer(t) PROVE CallsOfDisconnect'
  <2>1. /\ closes' = closes
        /\ \A u \in Threads : handling'[u] \in Ending => handling[u] \in Ending
    BY <1>18 DEF ForgetPlayer
  <2>2. pending' = pending
    BY <1>18 DEF ForgetPlayer
  <2> QED
    BY <1>0, <2>1, <2>2, CallsFrame
<1>19. ASSUME NEW t \in Threads, PopSession(t) PROVE CallsOfDisconnect'
  <2>1. /\ closes' = closes
        /\ \A u \in Threads : handling'[u] \in Ending => handling[u] \in Ending
    BY <1>19 DEF PopSession
  <2>2. pending' = pending
    BY <1>19 DEF PopSession
  <2> QED
    BY <1>0, <2>1, <2>2, CallsFrame
<1>20. CASE UNCHANGED vars
  <2>1. closes' = closes /\ pending' = pending /\ handling' = handling
    BY <1>20 DEF vars
  <2> QED
    BY <1>0, <2>1, CallsFrame
<1> QED
  BY <1>1, <1>2, <1>3, <1>4, <1>5, <1>6, <1>7, <1>8, <1>9, <1>10, <1>11,
     <1>12, <1>13, <1>14, <1>15, <1>16, <1>17, <1>18, <1>19, <1>20
     DEF Next, CallStep, SendCompletes, RecvCompletes, DisconnectCompletes

-----------------------------------------------------------------------------
(* The order of the buffers: one at the end of the queue is one at the end *)
(* of the whole, and the front may change sides.                           *)
LEMMA AppendLast ==
  ASSUME NEW s \in Seq(Buffers), NEW q \in Seq(Buffers), NEW b \in Buffers
  PROVE  Append(s \o q, b) = s \o Append(q, b)
OBVIOUS

(* A buffer that moves from the queue to the batch keeps the order.        *)
LEMMA FrontMoves ==
  ASSUME NEW s \in Seq(Buffers), NEW q \in Seq(Buffers), q # <<>>
  PROVE  Append(s, Head(q)) \o Tail(q) = s \o q
OBVIOUS

(* What has gone out and what waits is what was posted.                    *)
LEMMA FrontGoesOut ==
  ASSUME Types, SentInOrder, Len(sendVector) = 0, sendQueue # <<>>, TakeFront,
         posted' = posted
  PROVE  SentInOrder'
<1>1. /\ sent \in Seq(Buffers) /\ sendQueue \in Seq(Buffers)
      /\ Head(sendQueue) \in Buffers /\ sendVector = <<>>
  BY DEF Types
<1>2. Head(Append(<<>>, Head(sendQueue))) = Head(sendQueue)
  OBVIOUS
<1>3. sent' = Append(sent, Head(sendQueue)) /\ sendQueue' = Tail(sendQueue)
  BY <1>1, <1>2 DEF TakeFront
<1> QED
  BY <1>1, <1>3, FrontMoves DEF SentInOrder

(* Buffers go out in the order in which they were posted.                  *)
LEMMA OrderNext == Types /\ SendChain /\ SentInOrder /\ [Next]_vars
  => SentInOrder'
<1> SUFFICES ASSUME Types, SendChain, SentInOrder, [Next]_vars
      PROVE SentInOrder'
  OBVIOUS
<1> USE DEF Types, SentInOrder, sendVars, callVars, ioVars, gameVars
<1>1. ASSUME NEW t \in Threads, ProcessConnect(t) PROVE SentInOrder'
  BY <1>1 DEF ProcessConnect
<1>2. ASSUME NEW t \in Threads, OnConnected(t) PROVE SentInOrder'
  BY <1>2 DEF OnConnected
<1>3. ASSUME NEW t \in Threads, PushSession(t) PROVE SentInOrder'
  BY <1>3 DEF PushSession
<1>4. ASSUME NEW t \in Threads, RegisterRecv(t) PROVE SentInOrder'
  BY <1>4 DEF RegisterRecv
<1>5. ASSUME NEW t \in Threads, RecvData(t) PROVE SentInOrder'
  BY <1>5 DEF RecvData
<1>6. ASSUME NEW t \in Threads, RecvEnd(t) PROVE SentInOrder'
  BY <1>6 DEF RecvEnd
<1>7. ASSUME NEW t \in Threads, NEW b \in Buffers, Push(t, b)
        PROVE SentInOrder'
  <2>1. /\ posted' = Append(posted, b) /\ sent' = sent
        /\ sendQueue' = Append(sendQueue, b)
    BY <1>7 DEF Push
  <2>2. Append(sent \o sendQueue, b) = sent \o Append(sendQueue, b)
    BY AppendLast
  <2> QED
    BY <2>1, <2>2
<1>8. ASSUME NEW t \in Threads, TakeFlag(t) PROVE SentInOrder'
  BY <1>8 DEF TakeFlag
<1>9. ASSUME NEW t \in Threads, BeginSend(t) PROVE SentInOrder'
  <2>1. Returns \/ CallsFront \/ Sends \/ FailsToSend
    BY <1>9, RegisterSendTypes DEF BeginSend
  <2>2. CASE Returns \/ CallsFront
    BY <1>9, <2>2 DEF BeginSend, Returns, CallsFront
  <2>3. CASE Sends \/ FailsToSend
    <3>1. Len(sendVector) = 0
      BY <1>9 DEF BeginSend, SendChain, Wins
    <3>2. sendQueue # <<>> /\ TakeFront /\ posted' = posted
      BY <1>9, <2>3 DEF BeginSend, Sends, FailsToSend
    <3> QED
      BY <3>1, <3>2, FrontGoesOut
  <2> QED
    BY <2>1, <2>2, <2>3
<1>10. ASSUME NEW t \in Threads, SendDone(t) PROVE SentInOrder'
  BY <1>10 DEF SendDone
<1>11. ASSUME NEW t \in Threads, ContinueSend(t) PROVE SentInOrder'
  <2>1. FreeFlag \/ Returns \/ CallsFront \/ Sends \/ FailsToSend
    BY <1>11, RegisterSendTypes DEF ContinueSend, SendNext
  <2>2. CASE Returns \/ CallsFront
    BY <1>11, <2>2 DEF ContinueSend, Returns, CallsFront
  <2>3. CASE Sends \/ FailsToSend
    <3>1. Len(sendVector) = 0
      BY <1>11 DEF ContinueSend, SendChain, Wins
    <3>2. sendQueue # <<>> /\ TakeFront /\ posted' = posted
      BY <1>11, <2>3 DEF ContinueSend, Sends, FailsToSend
    <3> QED
      BY <3>1, <3>2, FrontGoesOut
  <2>4. CASE FreeFlag
    BY <1>11, <2>4 DEF ContinueSend, FreeFlag
  <2> QED
    BY <2>1, <2>2, <2>3, <2>4
<1>12. ASSUME NEW t \in Threads, SendZero(t) PROVE SentInOrder'
  BY <1>12 DEF SendZero
<1>13. ASSUME NEW t \in Threads, LoadConnected(t) PROVE SentInOrder'
  BY <1>13 DEF LoadConnected
<1>14. ASSUME NEW t \in Threads, SwapConnected(t) PROVE SentInOrder'
  BY <1>14 DEF SwapConnected
<1>15. ASSUME NEW t \in Threads, RegisterDisconnect(t) PROVE SentInOrder'
  BY <1>15 DEF RegisterDisconnect
<1>16. ASSUME NEW t \in Threads, DisconnectDone(t) PROVE SentInOrder'
  BY <1>16 DEF DisconnectDone
<1>17. ASSUME NEW t \in Threads, LeaveRoom(t) PROVE SentInOrder'
  BY <1>17 DEF LeaveRoom
<1>18. ASSUME NEW t \in Threads, ForgetPlayer(t) PROVE SentInOrder'
  BY <1>18 DEF ForgetPlayer
<1>19. ASSUME NEW t \in Threads, PopSession(t) PROVE SentInOrder'
  BY <1>19 DEF PopSession
<1>20. CASE UNCHANGED vars
  BY <1>20 DEF vars
<1> QED
  BY <1>1, <1>2, <1>3, <1>4, <1>5, <1>6, <1>7, <1>8, <1>9, <1>10, <1>11,
     <1>12, <1>13, <1>14, <1>15, <1>16, <1>17, <1>18, <1>19, <1>20
     DEF Next, CallStep, SendCompletes, RecvCompletes, DisconnectCompletes

-----------------------------------------------------------------------------
(* A sequence of neither no element nor one has two.                       *)
LEMMA AtLeastTwo ==
  ASSUME NEW s \in Seq(Buffers), Len(s) \notin {0, 1}
  PROVE  Len(s) >= 2
<1>1. Len(s) \in Nat
  OBVIOUS
<1>2. \A n \in Nat : n \notin {0, 1} => n >= 2
  OBVIOUS
<1> QED
  BY <1>1, <1>2

(* What sends nothing, posts nothing and makes nobody a sender.            *)
LEMMA LateSendersFrame ==
  ASSUME Types, LateSenders, Defined, broken' # "front",
         UNCHANGED <<sent, posted>>, pending'["send"] <= pending["send"],
         pending'["send"] \in Nat,
         \A u \in Threads :
           /\ handling'[u] = "sent" =>
                handling[u] = "sent" \/ pending["send"] > 0
           /\ sending'[u] # "no" => sending[u] # "no"
  PROVE  LateSenders'
<1>1. pending["send"] \in Nat
  BY DEF Types, Events
<1>2. LateSenderBreaks'
  BY DEF LateSenderBreaks
<1>3. sent' = <<>> =>
        pending'["send"] = 0 /\ \A t \in Threads : handling'[t] # "sent"
  BY <1>1 DEF LateSenders
<1> QED
  BY <1>2, <1>3 DEF LateSenders

(* A thread that has the flag has given a buffer to WSASend.               *)
LEMMA LateSendersSend ==
  ASSUME Types, SendChain, SentInOrder, LateSenders, Defined,
         Sends \/ FailsToSend, posted' = posted, NEW t \in Threads, Wins(t),
         \A u \in Threads :
           /\ u # t => sending'[u] = sending[u] /\ handling'[u] = handling[u]
           /\ sending'[t] = "no" /\ handling'[t] # "sent"
  PROVE  LateSenders'
<1>1. sent' # <<>> /\ sendQueue # <<>> /\ broken' # "front"
  BY DEF Sends, FailsToSend, TakeFront, Types, Defined
<1>2. LateSenderBreaks'
  BY <1>1 DEF LateSenderBreaks
<1>3. Len(posted) # 0
  <2>1. /\ sent \in Seq(Buffers) /\ sendQueue \in Seq(Buffers)
        /\ posted = sent \o sendQueue
    BY DEF Types, SentInOrder
  <2> QED
    BY <1>1, <2>1
<1>4. ASSUME Len(posted) = 1 PROVE \A u \in Threads : sending'[u] = "no"
  <2>1. CASE sending[t] = "register"
    BY <1>4, <2>1 DEF LateSenders
  <2>2. CASE handling[t] = "sent"
    <3>1. sent # <<>>
      BY <2>2 DEF LateSenders
    <3> QED
      BY <1>4, <3>1 DEF LateSenders
  <2> QED
    BY <2>1, <2>2 DEF Wins
<1> QED
  BY <1>1, <1>2, <1>3, <1>4 DEF LateSenders

(* An empty queue has no front for a sender that comes late only.          *)
LEMMA LateSendersNext == Types /\ SendChain /\ SentInOrder /\ LateSenders
  /\ [Next]_vars => LateSenders'
<1> SUFFICES ASSUME Types, SendChain, SentInOrder, LateSenders, [Next]_vars
      PROVE LateSenders'
  OBVIOUS
<1> DEFINE Quiet == /\ Defined /\ broken' # "front"
                    /\ UNCHANGED <<sent, posted>>
                    /\ pending'["send"] <= pending["send"]
                    /\ pending'["send"] \in Nat
                    /\ \A u \in Threads :
                         /\ handling'[u] = "sent" =>
                              handling[u] = "sent" \/ pending["send"] > 0
                         /\ sending'[u] # "no" => sending[u] # "no"
<1>a. Quiet => LateSenders'
  BY LateSendersFrame
<1>b. pending["send"] \in Nat
  BY DEF Types, Events
<1> USE <1>b DEF Types, Events, Steps, sendVars, callVars, ioVars, gameVars,
                 GoOn, Defined
<1>1. ASSUME NEW t \in Threads, ProcessConnect(t) PROVE LateSenders'
  BY <1>1, <1>a DEF ProcessConnect
<1>2. ASSUME NEW t \in Threads, OnConnected(t) PROVE LateSenders'
  BY <1>2, <1>a DEF OnConnected
<1>3. ASSUME NEW t \in Threads, PushSession(t) PROVE LateSenders'
  BY <1>3, <1>a DEF PushSession
<1>4. ASSUME NEW t \in Threads, RegisterRecv(t) PROVE LateSenders'
  BY <1>4, <1>a DEF RegisterRecv, Start, FailAtOnce
<1>5. ASSUME NEW t \in Threads, RecvData(t) PROVE LateSenders'
  BY <1>5, <1>a DEF RecvData, Complete
<1>6. ASSUME NEW t \in Threads, RecvEnd(t) PROVE LateSenders'
  BY <1>6, <1>a DEF RecvEnd, Complete
<1>7. ASSUME NEW t \in Threads, NEW b \in Buffers, Push(t, b)
        PROVE LateSenders'
  <2>1. /\ posted' = Append(posted, b) /\ sent' = sent /\ broken' # "front"
        /\ pending' = pending /\ handling' = handling
        /\ \A u \in Threads : u # t => sending'[u] = sending[u]
    BY <1>7 DEF Push
  <2>2. Len(posted') = Len(posted) + 1 /\ Len(posted) \in Nat
    BY <2>1
  <2>3. Len(posted) = 0 => sent = <<>>
    <3>1. /\ sent \in Seq(Buffers) /\ sendQueue \in Seq(Buffers)
          /\ posted = sent \o sendQueue
      BY DEF SentInOrder
    <3> QED
      BY <3>1
  <2>4. LateSenderBreaks'
    BY <2>1 DEF LateSenderBreaks
  <2> QED
    BY <2>1, <2>2, <2>3, <2>4 DEF LateSenders
<1>8. ASSUME NEW t \in Threads, TakeFlag(t) PROVE LateSenders'
  BY <1>8, <1>a DEF TakeFlag
<1>9. ASSUME NEW t \in Threads, BeginSend(t) PROVE LateSenders'
  <2>1. /\ Returns \/ CallsFront \/ Sends \/ FailsToSend
        /\ posted' = posted /\ handling' = handling /\ Wins(t) /\ Defined
        /\ handling[t] # "sent" /\ sending'[t] = "no"
        /\ \A u \in Threads : u # t => sending'[u] = sending[u]
    BY <1>9, RegisterSendTypes DEF BeginSend, Wins, SendChain
  <2>2. CASE Returns
    BY <2>1, <2>2, <1>a DEF Returns
  <2>3. CASE CallsFront
    <3>1. posted = sent /\ sent' = sent /\ pending' = pending
      <4>1. sent \o <<>> = sent
        OBVIOUS
      <4>2. sendQueue = <<>> /\ sent' = sent /\ pending' = pending
        BY <2>3 DEF CallsFront
      <4> QED
        BY <4>1, <4>2 DEF SentInOrder
    <3>2. pending["send"] = 0
      BY <2>1 DEF SendChain
    <3>3. Len(posted) \notin {0, 1}
      BY <1>9, <3>1 DEF BeginSend, LateSenders
    <3>4. LateSenderBreaks'
      <4>1. posted \in Seq(Buffers)
        OBVIOUS
      <4>2. Len(posted) >= 2
        BY <3>3, <4>1, AtLeastTwo
      <4>3. posted' = posted /\ sent' = posted
            /\ pending'["send"] = 0
        BY <2>1, <3>1, <3>2
      <4> QED
        BY <4>2, <4>3 DEF LateSenderBreaks
    <3> QED
      BY <2>1, <3>1, <3>4 DEF LateSenders
  <2>4. CASE Sends \/ FailsToSend
    BY <2>1, <2>4, LateSendersSend
  <2> QED
    BY <2>1, <2>2, <2>3, <2>4
<1>10. ASSUME NEW t \in Threads, SendDone(t) PROVE LateSenders'
  BY <1>10, <1>a DEF SendDone, Complete
<1>11. ASSUME NEW t \in Threads, ContinueSend(t) PROVE LateSenders'
  <2>1. /\ FreeFlag \/ (RegisterSend /\ sendQueue # <<>>)
        /\ posted' = posted /\ sending' = sending /\ Wins(t) /\ Defined
        /\ sending[t] = "no" /\ handling'[t] # "sent"
        /\ \A u \in Threads : u # t => handling'[u] = handling[u]
    BY <1>11 DEF ContinueSend, SendNext, Wins, SendChain
  <2>2. CASE FreeFlag
    BY <2>1, <2>2, <1>a DEF FreeFlag
  <2>3. CASE Returns
    BY <2>1, <2>3, <1>a DEF Returns
  <2>4. CASE Sends \/ FailsToSend
    BY <2>1, <2>4, LateSendersSend
  <2> QED
    BY <2>1, <2>2, <2>3, <2>4, RegisterSendTypes DEF CallsFront
<1>12. ASSUME NEW t \in Threads, SendZero(t) PROVE LateSenders'
  BY <1>12, <1>a DEF SendZero, Complete
<1>13. ASSUME NEW t \in Threads, LoadConnected(t) PROVE LateSenders'
  BY <1>13, <1>a DEF LoadConnected
<1>14. ASSUME NEW t \in Threads, SwapConnected(t) PROVE LateSenders'
  BY <1>14, <1>a DEF SwapConnected
<1>15. ASSUME NEW t \in Threads, RegisterDisconnect(t) PROVE LateSenders'
  BY <1>15, <1>a DEF RegisterDisconnect, Start, FailAtOnce
<1>16. ASSUME NEW t \in Threads, DisconnectDone(t) PROVE LateSenders'
  BY <1>16, <1>a DEF DisconnectDone, Complete
<1>17. ASSUME NEW t \in Threads, LeaveRoom(t) PROVE LateSenders'
  BY <1>17, <1>a DEF LeaveRoom
<1>18. ASSUME NEW t \in Threads, ForgetPlayer(t) PROVE LateSenders'
  BY <1>18, <1>a DEF ForgetPlayer
<1>19. ASSUME NEW t \in Threads, PopSession(t) PROVE LateSenders'
  BY <1>19, <1>a DEF PopSession, Unlist
<1>20. CASE UNCHANGED vars
  BY <1>20 DEF vars, LateSenders, LateSenderBreaks
<1> QED
  BY <1>1, <1>2, <1>3, <1>4, <1>5, <1>6, <1>7, <1>8, <1>9, <1>10, <1>11,
     <1>12, <1>13, <1>14, <1>15, <1>16, <1>17, <1>18, <1>19, <1>20
     DEF Next, CallStep, SendCompletes, RecvCompletes, DisconnectCompletes

-----------------------------------------------------------------------------
(* Before the first call nobody ends the session; after one, one does.     *)
LEMMA FewEnders ==
  ASSUME Types, CallsOfDisconnect
  PROVE  /\ closes = 0 => Enders = {} /\ pending["disconnect"] = 0
         /\ closes = 1 /\ pending["disconnect"] > 0 =>
              Enders = {} /\ pending["disconnect"] = 1
         /\ closes = 1 => \A t \in Enders : Enders = {t}
                                             /\ pending["disconnect"] = 0
<1> DEFINE n == Cardinality(Enders)
           p == pending["disconnect"]
<1>1. n \in Nat /\ p \in Nat /\ closes \in Nat /\ n + p <= closes
  BY EndersFinite DEF Types, Events, CallsOfDisconnect
<1>2. n = 0 => Enders = {}
  BY EndersFinite, FS_EmptySet
<1>3. \A t \in Enders : n # 0
  BY EndersFinite, FS_EmptySet
<1>4. n = 1 => \A t \in Enders : Enders = {t}
  BY EndersFinite, FS_Singleton
<1> HIDE DEF n
<1> QED
  BY <1>1, <1>2, <1>3, <1>4

(* What brings nobody closer to the end and keeps to what a first          *)
(* Disconnect relies on.                                                   *)
LEMMA FirstCloseFrame ==
  ASSUME FirstClose, Defined, broken' \in {"no", "front"}, closes' = closes,
         listed' = listed, known' = known, player' = player,
         pending'["disconnect"] = pending["disconnect"],
         owner'["disconnect"] = owner["disconnect"],
         known \/ UNCHANGED <<isSend, sendQueue, sending>>,
         \A u \in Threads :
           /\ handling'[u] \in Starting <=> handling[u] \in Starting
           /\ handling'[u] \in Ending =>
                handling[u] \in Ending
                /\ (handling[u] = "removed" => handling'[u] = "removed")
  PROVE  FirstClose'
<1>1. \A u \in Enders' :
        u \in Enders /\ (handling[u] = "removed" => handling'[u] = "removed")
  BY DEF Enders
<1>2. SecondCloseBreaks'
  BY DEF SecondCloseBreaks
<1> QED
  BY <1>1, <1>2 DEF FirstClose

(* The first call of Disconnect finds the session in the lists.            *)
LEMMA FirstCall ==
  ASSUME Types, CallsOfDisconnect, FirstClose, Defined, broken' = broken,
         closes' = closes + 1, pending'["disconnect"] = pending["disconnect"],
         UNCHANGED <<listed, known, player, isSend, sendQueue, sending>>,
         NEW t \in Threads, handling'[t] = "closing",
         \A u \in Threads : u # t => handling'[u] = handling[u],
         \A u \in Threads : handling[u] \notin Starting
  PROVE  FirstClose'
<1>1. /\ closes \in Nat
      /\ \A u \in Threads : handling'[u] \notin Starting
  BY DEF Types, Starting
<1>2. closes' = 1 => /\ listed /\ (known => player)
                     /\ pending["disconnect"] = 0
  BY <1>1, FewEnders DEF FirstClose
<1>3. SecondCloseBreaks'
  BY DEF Defined, SecondCloseBreaks
<1> QED
  BY <1>1, <1>2, <1>3 DEF FirstClose

(* What a first Disconnect relies on is kept by every step.                *)
LEMMA FirstCloseNext == Types /\ SendChain /\ RecvChain
  /\ CallsOfDisconnect /\ FirstClose /\ [Next]_vars => FirstClose'
<1> SUFFICES ASSUME Types, SendChain, RecvChain, CallsOfDisconnect,
      FirstClose, [Next]_vars PROVE FirstClose'
  OBVIOUS
<1> USE DEF Types, Events, Steps, Starting, Receiving, Ending, sendVars,
            callVars, ioVars, gameVars, GoOn
<1>1. ASSUME NEW t \in Threads, ProcessConnect(t) PROVE FirstClose'
  <2>1. /\ Defined /\ UNCHANGED <<closes, listed, known, player, ioVars>>
        /\ broken' = broken
    BY <1>1 DEF ProcessConnect
  <2>2. /\ known \/ UNCHANGED <<isSend, sendQueue, sending>>
        /\ \A u \in Threads :
             /\ handling'[u] \in Starting <=> handling[u] \in Starting
             /\ handling'[u] \in Ending =>
                  handling[u] \in Ending
                  /\ (handling[u] = "removed" => handling'[u] = "removed")
    BY <1>1 DEF ProcessConnect, FirstClose
  <2> QED
    BY <2>1, <2>2, FirstCloseFrame DEF Defined
<1>2. ASSUME NEW t \in Threads, OnConnected(t) PROVE FirstClose'
  <2>1. /\ Defined /\ UNCHANGED <<closes, listed, known, player, ioVars>>
        /\ broken' = broken
    BY <1>2 DEF OnConnected
  <2>2. /\ known \/ UNCHANGED <<isSend, sendQueue, sending>>
        /\ \A u \in Threads :
             /\ handling'[u] \in Starting <=> handling[u] \in Starting
             /\ handling'[u] \in Ending =>
                  handling[u] \in Ending
                  /\ (handling[u] = "removed" => handling'[u] = "removed")
    BY <1>2 DEF OnConnected, FirstClose
  <2> QED
    BY <2>1, <2>2, FirstCloseFrame DEF Defined
<1>3. ASSUME NEW t \in Threads, PushSession(t) PROVE FirstClose'
  <2>1. /\ Defined /\ broken' = broken /\ closes' = closes /\ listed' = TRUE
        /\ UNCHANGED <<known, player, isSend, sendQueue, sending>>
        /\ closes = 0 /\ ~known
        /\ \A u \in Threads : handling'[u] \in Starting
             => handling[u] \in Starting
    BY <1>3 DEF PushSession, FirstClose
  <2>2. SecondCloseBreaks'
    BY <2>1 DEF Defined, SecondCloseBreaks
  <2> QED
    BY <2>1, <2>2 DEF FirstClose
<1>4. ASSUME NEW t \in Threads, RegisterRecv(t) PROVE FirstClose'
  <2>1. /\ handling[t] = "received" /\ handling'[t] \in {"none", "closing"}
        /\ \A u \in Threads : u # t => handling'[u] = handling[u]
        /\ Defined /\ broken' = broken
        /\ UNCHANGED <<listed, known, player, isSend, sendQueue, sending>>
    BY <1>4 DEF RegisterRecv
  <2>2. /\ pending'["disconnect"] = pending["disconnect"]
        /\ owner'["disconnect"] = owner["disconnect"]
    BY <1>4, StartTypes DEF RegisterRecv
  <2>3. CASE handling'[t] = "none"
    <3>1. closes' = closes
      BY <1>4, <2>1, <2>3 DEF RegisterRecv
    <3> QED
      BY <2>1, <2>2, <2>3, <3>1, FirstCloseFrame DEF Defined
  <2>4. CASE handling'[t] = "closing"
    <3>1. closes' = closes + 1
      BY <1>4, <2>1, <2>4 DEF RegisterRecv
    <3>2. \A u \in Threads : handling[u] \notin Starting
      BY <2>1 DEF RecvChain
    <3> QED
      BY <2>1, <2>2, <2>4, <3>1, <3>2, FirstCall
  <2> QED
    BY <2>1, <2>3, <2>4
<1>5. ASSUME NEW t \in Threads, RecvData(t) PROVE FirstClose'
  <2>1. /\ Complete(t, "recv", "received") /\ Defined
        /\ player' \in {player, TRUE} /\ known' = (known \/ player')
        /\ UNCHANGED <<closes, listed, isSend, sendQueue, sending>>
    BY <1>5 DEF RecvData
  <2>2. /\ pending["recv"] > 0 /\ handling[t] = "none"
        /\ pending'["disconnect"] = pending["disconnect"]
        /\ owner'["disconnect"] = owner["disconnect"]
    BY <2>1, CompleteTypes
  <2>3. pending["recv"] = 1 /\ owner["recv"]
    BY <2>2 DEF RecvChain
  <2>4. /\ handling'[t] = "received" /\ broken' = broken
        /\ \A u \in Threads : u # t => handling'[u] = handling[u]
    BY <2>1, <2>3, CompleteTypes
  <2>5. /\ \A u \in Threads : handling[u] \notin Starting
        /\ \A u \in Threads : handling'[u] \notin Starting
        /\ Enders' = Enders
        /\ \A u \in Enders : handling'[u] = handling[u]
    BY <2>2, <2>3, <2>4 DEF RecvChain, Enders
  <2>6. SecondCloseBreaks'
    BY <2>1, <2>4 DEF Defined, SecondCloseBreaks
  <2>7. /\ known => known' /\ (player => player')
        /\ known' /\ ~player' => known /\ ~player
        /\ ~known' => ~known /\ ~player'
    <3>1. CASE player' = player
      BY <2>1, <3>1, Zenon
    <3>2. CASE player' = TRUE
      BY <2>1, <3>2, Zenon
    <3> QED
      BY <2>1, <3>1, <3>2
  <2> QED
    BY <2>1, <2>2, <2>5, <2>6, <2>7 DEF FirstClose
<1>6. ASSUME NEW t \in Threads, RecvEnd(t) PROVE FirstClose'
  <2>1. /\ Complete(t, "recv", "closing") /\ closes' = closes + 1
        /\ UNCHANGED <<listed, known, player, isSend, sendQueue, sending>>
        /\ Defined
    BY <1>6 DEF RecvEnd
  <2>2. /\ pending["recv"] > 0
        /\ pending'["disconnect"] = pending["disconnect"]
    BY <2>1, CompleteTypes
  <2>3. pending["recv"] = 1 /\ owner["recv"]
    BY <2>2 DEF RecvChain
  <2>4. /\ handling'[t] = "closing" /\ broken' = broken
        /\ \A u \in Threads : u # t => handling'[u] = handling[u]
    BY <2>1, <2>3, CompleteTypes
  <2>5. \A u \in Threads : handling[u] \notin Starting
    BY <2>3 DEF RecvChain
  <2> QED
    BY <2>1, <2>2, <2>4, <2>5, FirstCall
<1>7. ASSUME NEW t \in Threads, NEW b \in Buffers, Push(t, b) PROVE FirstClose'
  <2>1. /\ Defined /\ UNCHANGED <<closes, listed, known, player, ioVars>>
        /\ broken' = broken
    BY <1>7 DEF Push
  <2>2. /\ known \/ UNCHANGED <<isSend, sendQueue, sending>>
        /\ \A u \in Threads :
             /\ handling'[u] \in Starting <=> handling[u] \in Starting
             /\ handling'[u] \in Ending =>
                  handling[u] \in Ending
                  /\ (handling[u] = "removed" => handling'[u] = "removed")
    BY <1>7 DEF Push, FirstClose
  <2> QED
    BY <2>1, <2>2, FirstCloseFrame DEF Defined
<1>8. ASSUME NEW t \in Threads, TakeFlag(t) PROVE FirstClose'
  <2>1. /\ Defined /\ UNCHANGED <<closes, listed, known, player, ioVars>>
        /\ broken' = broken
    BY <1>8 DEF TakeFlag
  <2>2. /\ known \/ UNCHANGED <<isSend, sendQueue, sending>>
        /\ \A u \in Threads :
             /\ handling'[u] \in Starting <=> handling[u] \in Starting
             /\ handling'[u] \in Ending =>
                  handling[u] \in Ending
                  /\ (handling[u] = "removed" => handling'[u] = "removed")
    BY <1>8 DEF TakeFlag, FirstClose
  <2> QED
    BY <2>1, <2>2, FirstCloseFrame DEF Defined
<1>9. ASSUME NEW t \in Threads, BeginSend(t) PROVE FirstClose'
  <2>1. Returns \/ CallsFront \/ Sends \/ FailsToSend
    BY <1>9, RegisterSendTypes DEF BeginSend
  <2>2. /\ pending'["disconnect"] = pending["disconnect"]
        /\ owner'["disconnect"] = owner["disconnect"]
    BY <1>9, <2>1, StartTypes DEF BeginSend, Returns, CallsFront, Sends,
      FailsToSend,
       FreeFlag
  <2>3. Defined /\ broken' \in {"no", "front"}
    BY <1>9, <2>1 DEF BeginSend, Returns, CallsFront, Sends, FailsToSend,
      FreeFlag,
       Defined
  <2>4. known
    BY <1>9 DEF BeginSend, FirstClose, SendChain, Wins
  <2>5. /\ UNCHANGED <<closes, listed, known, player>>
        /\ \A u \in Threads :
             /\ handling'[u] \in Starting <=> handling[u] \in Starting
             /\ handling'[u] \in Ending => handling'[u] = handling[u]
    BY <1>9 DEF BeginSend
  <2> QED
    BY <2>2, <2>3, <2>4, <2>5, FirstCloseFrame
<1>10. ASSUME NEW t \in Threads, SendDone(t) PROVE FirstClose'
  <2>1. /\ Complete(t, "send", "sent") /\ Defined
        /\ UNCHANGED <<closes, listed, known, player, isSend, sendQueue,
             sending>>
    BY <1>10 DEF SendDone
  <2>2. /\ pending["send"] > 0 /\ handling[t] = "none"
        /\ pending'["disconnect"] = pending["disconnect"]
        /\ owner'["disconnect"] = owner["disconnect"]
    BY <2>1, CompleteTypes
  <2>3. pending["send"] = 1 /\ owner["send"]
    BY <2>2 DEF SendChain
  <2>4. /\ handling'[t] = "sent" /\ broken' = broken
        /\ \A u \in Threads : u # t => handling'[u] = handling[u]
    BY <2>1, <2>3, CompleteTypes
  <2> QED
    BY <2>1, <2>2, <2>4, FirstCloseFrame DEF Defined
<1>11. ASSUME NEW t \in Threads, ContinueSend(t) PROVE FirstClose'
  <2>1. FreeFlag \/ Returns \/ CallsFront \/ Sends \/ FailsToSend
    BY <1>11, RegisterSendTypes DEF ContinueSend, SendNext
  <2>2. /\ pending'["disconnect"] = pending["disconnect"]
        /\ owner'["disconnect"] = owner["disconnect"]
    BY <1>11, <2>1, StartTypes DEF ContinueSend, Returns, CallsFront, Sends,
      FailsToSend,
       FreeFlag
  <2>3. Defined /\ broken' \in {"no", "front"}
    BY <1>11, <2>1 DEF ContinueSend, Returns, CallsFront, Sends, FailsToSend,
      FreeFlag,
       Defined
  <2>4. known
    BY <1>11 DEF ContinueSend, FirstClose, SendChain, Wins
  <2>5. /\ UNCHANGED <<closes, listed, known, player>>
        /\ \A u \in Threads :
             /\ handling'[u] \in Starting <=> handling[u] \in Starting
             /\ handling'[u] \in Ending => handling'[u] = handling[u]
    BY <1>11 DEF ContinueSend
  <2> QED
    BY <2>2, <2>3, <2>4, <2>5, FirstCloseFrame
<1>12. ASSUME NEW t \in Threads, SendZero(t) PROVE FirstClose'
  <2>1. /\ Complete(t, "send", "closing") /\ closes' = closes + 1
        /\ UNCHANGED <<listed, known, player, isSend, sendQueue, sending>>
        /\ Defined
    BY <1>12 DEF SendZero, FlagAfterZero
  <2>2. /\ pending["send"] > 0
        /\ pending'["disconnect"] = pending["disconnect"]
    BY <2>1, CompleteTypes
  <2>3. pending["send"] = 1 /\ owner["send"] /\ isSend
    BY <2>2 DEF SendChain
  <2>4. /\ handling'[t] = "closing" /\ broken' = broken
        /\ \A u \in Threads : u # t => handling'[u] = handling[u]
    BY <2>1, <2>3, CompleteTypes
  <2>5. \A u \in Threads : handling[u] \notin Starting
    BY <2>3 DEF FirstClose
  <2> QED
    BY <2>1, <2>2, <2>4, <2>5, FirstCall
<1>13. ASSUME NEW t \in Threads, LoadConnected(t) PROVE FirstClose'
  <2>1. /\ Defined /\ UNCHANGED <<closes, listed, known, player, ioVars>>
        /\ broken' = broken
    BY <1>13 DEF LoadConnected
  <2>2. /\ known \/ UNCHANGED <<isSend, sendQueue, sending>>
        /\ \A u \in Threads :
             /\ handling'[u] \in Starting <=> handling[u] \in Starting
             /\ handling'[u] \in Ending =>
                  handling[u] \in Ending
                  /\ (handling[u] = "removed" => handling'[u] = "removed")
    BY <1>13 DEF LoadConnected, FirstClose
  <2> QED
    BY <2>1, <2>2, FirstCloseFrame DEF Defined
<1>14. ASSUME NEW t \in Threads, SwapConnected(t) PROVE FirstClose'
  <2>1. /\ Defined /\ UNCHANGED <<closes, listed, known, player, ioVars>>
        /\ broken' = broken
    BY <1>14 DEF SwapConnected
  <2>2. /\ known \/ UNCHANGED <<isSend, sendQueue, sending>>
        /\ \A u \in Threads :
             /\ handling'[u] \in Starting <=> handling[u] \in Starting
             /\ handling'[u] \in Ending =>
                  handling[u] \in Ending
                  /\ (handling[u] = "removed" => handling'[u] = "removed")
    BY <1>14 DEF SwapConnected, FirstClose
  <2> QED
    BY <2>1, <2>2, FirstCloseFrame DEF Defined
<1>15. ASSUME NEW t \in Threads, RegisterDisconnect(t) PROVE FirstClose'
  <2>1. /\ t \in Enders /\ handling[t] = "disconnecting" /\ Defined
        /\ closes' = closes
        /\ \A u \in Threads : u # t => handling'[u] = handling[u]
        /\ UNCHANGED <<listed, known, player, isSend, sendQueue, sending,
             broken>>
        /\ handling'[t] = "none"
    BY <1>15 DEF RegisterDisconnect, Enders
  <2>2. closes # 0 /\ (closes = 1 => Enders = {t} /\ pending["disconnect"] = 0)
    BY <2>1, FewEnders
  <2>3. /\ \A u \in Threads : handling'[u] \in Starting
             => handling[u] \in Starting
        /\ closes = 1 => Enders' = {}
    BY <2>1, <2>2 DEF Enders
  <2>4. pending["disconnect"] = 0 /\ pending'["disconnect"] > 0
          => owner'["disconnect"]
    BY <1>15, StartTypes DEF RegisterDisconnect
  <2>5. closes = 1 => listed /\ (known => player)
    BY <2>1 DEF FirstClose
  <2>6. SecondCloseBreaks'
    BY <2>1 DEF Defined, SecondCloseBreaks
  <2> QED
    BY <2>1, <2>2, <2>3, <2>4, <2>5, <2>6 DEF FirstClose
<1>16. ASSUME NEW t \in Threads, DisconnectDone(t) PROVE FirstClose'
  <2>1. /\ Complete(t, "disconnect", "left") /\ Defined
        /\ UNCHANGED <<closes, listed, known, player, isSend, sendQueue,
             sending>>
    BY <1>16 DEF DisconnectDone
  <2>2. /\ pending["disconnect"] > 0 /\ handling[t] = "none"
        /\ pending'["disconnect"] = pending["disconnect"] - 1
        /\ \A u \in Threads : u # t => handling'[u] = handling[u]
        /\ handling'[t] \in {"none", "left"}
        /\ owner["disconnect"] => broken' = broken
        /\ broken' \in {broken, "owner"}
    BY <2>1, CompleteTypes
  <2>3. closes # 0 /\ (closes = 1 => pending["disconnect"] = 1 /\ Enders = {})
    BY <2>2, FewEnders
  <2>4. closes = 1 => /\ owner["disconnect"] /\ listed /\ (known => player)
                      /\ pending'["disconnect"] = 0
    BY <2>2, <2>3 DEF FirstClose
  <2>5. closes \in {1, 2}
    BY <2>3 DEF CallsOfDisconnect
  <2>6. SecondCloseBreaks'
    BY <2>1, <2>2, <2>4, <2>5 DEF Defined, SecondCloseBreaks
  <2>7. \A u \in Threads : handling'[u] \in Starting
          => handling[u] \in Starting
    BY <2>2
  <2> QED
    BY <2>1, <2>3, <2>4, <2>6, <2>7 DEF FirstClose
<1>17. ASSUME NEW t \in Threads, LeaveRoom(t) PROVE FirstClose'
  <2>1. /\ t \in Enders /\ handling[t] = "left" /\ Defined
        /\ closes' = closes
        /\ \A u \in Threads : u # t => handling'[u] = handling[u]
        /\ UNCHANGED <<listed, known, player, isSend, sendQueue, sending,
             ioVars>>
        /\ handling'[t] \in {"left", "leaving"}
        /\ player => broken' = broken
        /\ broken' \in {broken, "player"}
    BY <1>17 DEF LeaveRoom, Enders
  <2>2. closes # 0 /\ (closes = 1 => Enders = {t} /\ pending["disconnect"] = 0)
    BY <2>1, FewEnders
  <2>3. /\ \A u \in Threads : handling'[u] \in Starting
             => handling[u] \in Starting
        /\ closes \in {1, 2}
    BY <2>1, <2>2 DEF CallsOfDisconnect
  <2>4. closes = 1 => listed /\ (known => player)
    BY <2>1 DEF FirstClose
  <2>5. SecondCloseBreaks'
    BY <2>1, <2>3, <2>4 DEF Defined, SecondCloseBreaks
  <2> QED
    BY <2>1, <2>2, <2>3, <2>4, <2>5 DEF FirstClose
<1>18. ASSUME NEW t \in Threads, ForgetPlayer(t) PROVE FirstClose'
  <2>1. /\ t \in Enders /\ handling[t] = "leaving" /\ Defined
        /\ closes' = closes
        /\ \A u \in Threads : u # t => handling'[u] = handling[u]
        /\ UNCHANGED <<listed, known, isSend, sendQueue, sending, ioVars,
             broken>>
        /\ handling'[t] = "removed" /\ player' = FALSE
    BY <1>18 DEF ForgetPlayer, Removed, Enders
  <2>2. closes # 0 /\ (closes = 1 => Enders = {t} /\ pending["disconnect"] = 0)
    BY <2>1, FewEnders
  <2>3. /\ \A u \in Threads : handling'[u] \in Starting
             => handling[u] \in Starting
        /\ closes = 1 => \A u \in Enders' : handling'[u] = "removed"
    <3>1. \A u \in Threads : handling'[u] \in Starting
            => handling[u] \in Starting
      BY <2>1
    <3>2. \A u \in Enders' : u = t \/ u \in Enders
      BY <2>1 DEF Enders
    <3>3. ASSUME closes = 1, NEW u \in Enders' PROVE handling'[u] = "removed"
      <4>1. u = t
        BY <2>2, <3>2, <3>3
      <4> QED
        BY <2>1, <4>1
    <3> QED
      BY <3>1, <3>3
  <2>4. closes = 1 => listed
    BY <2>1 DEF FirstClose
  <2>5. SecondCloseBreaks'
    BY <2>1 DEF Defined, SecondCloseBreaks
  <2> QED
    BY <2>1, <2>2, <2>3, <2>4, <2>5 DEF FirstClose
<1>19. ASSUME NEW t \in Threads, PopSession(t) PROVE FirstClose'
  <2>1. /\ t \in Enders /\ handling[t] = "removed" /\ Defined
        /\ closes' = closes
        /\ \A u \in Threads : u # t => handling'[u] = handling[u]
        /\ UNCHANGED <<known, player, isSend, sendQueue, sending, ioVars>>
        /\ handling'[t] = "none" /\ listed' = FALSE
        /\ broken' = IF listed THEN broken ELSE "erase"
    BY <1>19 DEF PopSession, Unlist, Enders
  <2>2. closes # 0 /\ (closes = 1 => Enders = {t} /\ pending["disconnect"] = 0)
    BY <2>1, FewEnders
  <2>3. /\ \A u \in Threads : handling'[u] \in Starting
             => handling[u] \in Starting
        /\ closes = 1 => Enders' = {}
        /\ closes \in {1, 2}
    BY <2>1, <2>2 DEF Enders, CallsOfDisconnect
  <2>4. closes = 1 => listed
    BY <2>1 DEF FirstClose
  <2>5. SecondCloseBreaks'
    BY <2>1, <2>3, <2>4 DEF Defined, SecondCloseBreaks
  <2> QED
    BY <2>1, <2>2, <2>3, <2>4, <2>5 DEF FirstClose
<1>20. CASE UNCHANGED vars
  BY <1>20 DEF vars, FirstClose, SecondCloseBreaks, Enders
<1> QED
  BY <1>1, <1>2, <1>3, <1>4, <1>5, <1>6, <1>7, <1>8, <1>9, <1>10, <1>11,
     <1>12, <1>13, <1>14, <1>15, <1>16, <1>17, <1>18, <1>19, <1>20
     DEF Next, CallStep, SendCompletes, RecvCompletes, DisconnectCompletes

-----------------------------------------------------------------------------
(* What leaves the queue and the flag alone, and whoever is to look.       *)
LEMMA AwakeFrame ==
  ASSUME Awake, broken' = "no" => broken = "no", connected' => connected,
         UNCHANGED <<isSend, sendQueue, sending, failures>>,
         pending'["send"] = pending["send"],
         \A u \in Threads :
           handling[u] \in {"sent", "closing"} => handling'[u] = handling[u],
         \A u \in Threads :
           handling[u] = "loaded" => handling'[u] = "loaded" \/ ~connected'
  PROVE  Awake'
<1> SUFFICES ASSUME Defined', connected' PROVE Awake'
  BY DEF Awake
<1>1. Defined /\ connected
  BY DEF Defined
<1>2. isSend => \/ pending["send"] = 1
                \/ \E t \in Threads : Wins(t)
                \/ \E t \in Threads : handling[t] \in {"closing", "loaded"}
  BY <1>1 DEF Awake
<1>3. \A t \in Threads : Wins(t) => Wins(t)'
  BY DEF Wins
<1>4. isSend' => \/ pending'["send"] = 1
                 \/ \E t \in Threads : Wins(t)'
                 \/ \E t \in Threads : handling'[t] \in {"closing", "loaded"}
  BY <1>2, <1>3
<1> QED
  BY <1>1, <1>4 DEF Awake

(* Whoever is to look at the queue is there after every step.              *)
LEMMA AwakeNext == Types /\ SendChain /\ FirstClose /\ Awake /\ LoadedTrue
  /\ [Next]_vars => Awake'
<1> SUFFICES ASSUME Types, SendChain, FirstClose, Awake, LoadedTrue,
      [Next]_vars PROVE Awake'
  OBVIOUS
<1> USE DEF Types, Events, Steps, Starting, sendVars, callVars, ioVars,
            gameVars, GoOn
<1>1. ASSUME NEW t \in Threads, ProcessConnect(t) PROVE Awake'
  <2>1. ~known
    BY <1>1 DEF ProcessConnect, FirstClose
  <2> QED
    BY <1>1, <2>1 DEF ProcessConnect, FirstClose, Awake
<1>2. ASSUME NEW t \in Threads, OnConnected(t) PROVE Awake'
  <2>1. /\ UNCHANGED <<connected, isSend, sendQueue, sending, failures,
             ioVars>>
        /\ broken' = "no" => broken = "no"
        /\ \A u \in Threads :
             handling[u] \in {"sent", "closing", "loaded"}
               => handling'[u] = handling[u]
    BY <1>2 DEF OnConnected, Defined
  <2> QED
    BY <2>1, AwakeFrame
<1>3. ASSUME NEW t \in Threads, PushSession(t) PROVE Awake'
  <2>1. /\ UNCHANGED <<connected, isSend, sendQueue, sending, failures,
             ioVars>>
        /\ broken' = "no" => broken = "no"
        /\ \A u \in Threads :
             handling[u] \in {"sent", "closing", "loaded"}
               => handling'[u] = handling[u]
    BY <1>3 DEF PushSession, Defined
  <2> QED
    BY <2>1, AwakeFrame
<1>4. ASSUME NEW t \in Threads, RegisterRecv(t) PROVE Awake'
  <2>1. /\ UNCHANGED <<connected, isSend, sendQueue, sending, failures,
             broken>>
        /\ \A u \in Threads :
             handling[u] \in {"sent", "closing", "loaded"}
               => handling'[u] = handling[u]
    BY <1>4 DEF RegisterRecv
  <2>2. pending'["send"] = pending["send"]
    BY <1>4, StartTypes DEF RegisterRecv
  <2> QED
    BY <2>1, <2>2, AwakeFrame
<1>5. ASSUME NEW t \in Threads, RecvData(t) PROVE Awake'
  <2>1. /\ Complete(t, "recv", "received") /\ Defined
        /\ UNCHANGED <<connected, isSend, sendQueue, sending, failures>>
    BY <1>5 DEF RecvData
  <2>2. /\ pending'["send"] = pending["send"]
        /\ handling[t] = "none"
        /\ \A u \in Threads : u # t => handling'[u] = handling[u]
    BY <2>1, CompleteTypes
  <2> QED
    BY <2>1, <2>2, AwakeFrame DEF Defined
<1>6. ASSUME NEW t \in Threads, RecvEnd(t) PROVE Awake'
  <2>1. /\ Complete(t, "recv", "closing") /\ Defined
        /\ UNCHANGED <<connected, isSend, sendQueue, sending, failures>>
    BY <1>6 DEF RecvEnd
  <2>2. /\ pending'["send"] = pending["send"]
        /\ handling[t] = "none"
        /\ \A u \in Threads : u # t => handling'[u] = handling[u]
    BY <2>1, CompleteTypes
  <2> QED
    BY <2>1, <2>2, AwakeFrame DEF Defined
<1>7. ASSUME NEW t \in Threads, NEW b \in Buffers, Push(t, b) PROVE Awake'
  <2>1. /\ UNCHANGED <<connected, isSend, handling, failures, ioVars, broken>>
        /\ sending' = [sending EXCEPT ![t] = "flag"] /\ sending[t] = "no"
    BY <1>7 DEF Push
  <2>2. sending'[t] = "flag" /\ \A u \in Threads : Wins(u) => Wins(u)'
    BY <2>1 DEF Wins
  <2> QED
    BY <2>1, <2>2 DEF Awake, Defined
<1>8. ASSUME NEW t \in Threads, TakeFlag(t) PROVE Awake'
  <2>1. /\ UNCHANGED <<connected, handling, failures, ioVars, broken>>
        /\ isSend' = TRUE /\ sending[t] = "flag"
        /\ sending' = [sending EXCEPT ![t] = IF ~isSend THEN "register" ELSE "no"]
    BY <1>8 DEF TakeFlag, MaySend
  <2>2. CASE ~isSend
    <3>1. Wins(t)'
      BY <2>1, <2>2 DEF Wins
    <3> QED
      BY <2>1, <3>1 DEF Awake
  <2>3. CASE isSend
    <3>1. \A u \in Threads : Wins(u) => Wins(u)'
      BY <2>1 DEF Wins
    <3> QED
      BY <2>1, <2>3, <3>1 DEF Awake, Defined
  <2> QED
    BY <2>2, <2>3
<1>9. ASSUME NEW t \in Threads, BeginSend(t) PROVE Awake'
  <2>1. /\ Returns \/ CallsFront \/ Sends \/ FailsToSend
        /\ connected' = connected
    BY <1>9, RegisterSendTypes DEF BeginSend
  <2>2. CASE Returns \/ CallsFront
    BY <2>1, <2>2 DEF Returns, CallsFront, Awake, Defined
  <2>3. CASE Sends
    <3>1. pending["send"] = 0 /\ isSend
      BY <1>9 DEF BeginSend, SendChain, Wins
    <3>2. pending'["send"] = 1 /\ isSend'
      BY <2>3, <3>1, StartTypes DEF Sends
    <3> QED
      BY <3>2 DEF Awake
  <2>4. CASE FailsToSend
    BY <2>4 DEF FailsToSend, Awake
  <2> QED
    BY <2>1, <2>2, <2>3, <2>4
<1>10. ASSUME NEW t \in Threads, SendDone(t) PROVE Awake'
  <2>1. /\ Complete(t, "send", "sent")
        /\ UNCHANGED <<connected, isSend, sendQueue, sending, failures>>
    BY <1>10 DEF SendDone
  <2>2. pending["send"] > 0
    BY <2>1, CompleteTypes
  <2>3. isSend /\ owner["send"]
    BY <2>2 DEF SendChain
  <2>4. handling'[t] = "sent"
    BY <2>1, <2>3, CompleteTypes
  <2> QED
    BY <2>1, <2>3, <2>4 DEF Awake, Wins
<1>11. ASSUME NEW t \in Threads, ContinueSend(t) PROVE Awake'
  <2>1. /\ (sendQueue = <<>>
             /\ FreeFlag) \/ Returns \/ CallsFront \/ Sends \/ FailsToSend
        /\ connected' = connected
    BY <1>11, RegisterSendTypes DEF ContinueSend, SendNext
  <2>2. CASE Returns \/ CallsFront
    BY <2>1, <2>2 DEF Returns, CallsFront, Awake, Defined
  <2>3. CASE Sends
    <3>1. pending["send"] = 0 /\ isSend
      BY <1>11 DEF ContinueSend, SendChain, Wins
    <3>2. pending'["send"] = 1 /\ isSend'
      BY <2>3, <3>1, StartTypes DEF Sends
    <3> QED
      BY <3>2 DEF Awake
  <2>4. CASE FailsToSend
    BY <2>4 DEF FailsToSend, Awake
  <2>5. CASE sendQueue = <<>> /\ FreeFlag
    BY <2>5 DEF FreeFlag, Awake
  <2> QED
    BY <2>1, <2>2, <2>3, <2>4, <2>5
<1>12. ASSUME NEW t \in Threads, SendZero(t) PROVE Awake'
  <2>1. /\ Complete(t, "send", "closing") /\ isSend' = isSend
    BY <1>12 DEF SendZero, FlagAfterZero
  <2>2. pending["send"] > 0
    BY <2>1, CompleteTypes
  <2>3. isSend /\ owner["send"]
    BY <2>2 DEF SendChain
  <2>4. handling'[t] = "closing"
    BY <2>1, <2>3, CompleteTypes
  <2> QED
    BY <2>1, <2>3, <2>4 DEF Awake
<1>13. ASSUME NEW t \in Threads, LoadConnected(t) PROVE Awake'
  <2>1. /\ UNCHANGED <<connected, isSend, sendQueue, sending, failures, ioVars,
                       broken>>
        /\ handling'[t] = "loaded" /\ handling[t] = "closing"
        /\ \A u \in Threads : u # t => handling'[u] = handling[u]
    BY <1>13 DEF LoadConnected
  <2>2. isSend => \E u \in Threads : handling'[u] \in {"closing", "loaded"}
    BY <2>1
  <2> QED
    BY <2>1, <2>2 DEF Awake, Defined
<1>14. ASSUME NEW t \in Threads, SwapConnected(t) PROVE Awake'
  <2>1. ~connected'
    BY <1>14 DEF SwapConnected, LoadedTrue
  <2> QED
    BY <2>1 DEF Awake
<1>15. ASSUME NEW t \in Threads, RegisterDisconnect(t) PROVE Awake'
  <2>1. /\ UNCHANGED <<connected, isSend, sendQueue, sending, broken>>
        /\ failures \subseteq failures'
        /\ "send" \in failures' => "send" \in failures
        /\ \A u \in Threads :
             handling[u] \in {"sent", "closing", "loaded"}
               => handling'[u] = handling[u]
    BY <1>15 DEF RegisterDisconnect
  <2>2. pending'["send"] = pending["send"]
    BY <1>15, StartTypes DEF RegisterDisconnect
  <2>3. \A u \in Threads : Wins(u) => Wins(u)'
    BY <2>1 DEF Wins
  <2> QED
    BY <2>1, <2>2, <2>3 DEF Awake, Defined
<1>16. ASSUME NEW t \in Threads, DisconnectDone(t) PROVE Awake'
  <2>1. /\ Complete(t, "disconnect", "left") /\ Defined
        /\ UNCHANGED <<connected, isSend, sendQueue, sending, failures>>
    BY <1>16 DEF DisconnectDone
  <2>2. /\ pending'["send"] = pending["send"]
        /\ handling[t] = "none"
        /\ \A u \in Threads : u # t => handling'[u] = handling[u]
    BY <2>1, CompleteTypes
  <2> QED
    BY <2>1, <2>2, AwakeFrame DEF Defined
<1>17. ASSUME NEW t \in Threads, LeaveRoom(t) PROVE Awake'
  <2>1. /\ UNCHANGED <<connected, isSend, sendQueue, sending, failures,
             ioVars>>
        /\ broken' = "no" => broken = "no"
        /\ \A u \in Threads :
             handling[u] \in {"sent", "closing", "loaded"}
               => handling'[u] = handling[u]
    BY <1>17 DEF LeaveRoom, Defined
  <2> QED
    BY <2>1, AwakeFrame
<1>18. ASSUME NEW t \in Threads, ForgetPlayer(t) PROVE Awake'
  <2>1. /\ UNCHANGED <<connected, isSend, sendQueue, sending, failures,
             ioVars>>
        /\ broken' = "no" => broken = "no"
        /\ \A u \in Threads :
             handling[u] \in {"sent", "closing", "loaded"}
               => handling'[u] = handling[u]
    BY <1>18 DEF ForgetPlayer, Defined
  <2> QED
    BY <2>1, AwakeFrame
<1>19. ASSUME NEW t \in Threads, PopSession(t) PROVE Awake'
  <2>1. /\ UNCHANGED <<connected, isSend, sendQueue, sending, failures,
             ioVars>>
        /\ broken' = "no" => broken = "no"
        /\ \A u \in Threads :
             handling[u] \in {"sent", "closing", "loaded"}
               => handling'[u] = handling[u]
    BY <1>19 DEF PopSession, Defined
  <2> QED
    BY <2>1, AwakeFrame
<1>20. CASE UNCHANGED vars
  <2>1. UNCHANGED <<connected, isSend, sendQueue, sending, failures, ioVars,
                    broken, handling>>
    BY <1>20 DEF vars
  <2> QED
    BY <2>1, AwakeFrame
<1> QED
  BY <1>1, <1>2, <1>3, <1>4, <1>5, <1>6, <1>7, <1>8, <1>9, <1>10, <1>11,
     <1>12, <1>13, <1>14, <1>15, <1>16, <1>17, <1>18, <1>19, <1>20
     DEF Next, CallStep, SendCompletes, RecvCompletes, DisconnectCompletes

(* Nobody who has loaded _connected finds it set again after it was reset. *)
LEMMA LoadedTrueNext == Types /\ CallsOfDisconnect /\ FirstClose
  /\ LoadedTrue /\ [Next]_vars => LoadedTrue'
<1> SUFFICES ASSUME Types, CallsOfDisconnect, FirstClose, LoadedTrue,
      [Next]_vars PROVE LoadedTrue'
  OBVIOUS
<1> USE DEF Types, Events, Steps, sendVars, callVars, ioVars, gameVars, GoOn
<1>1. ASSUME NEW t \in Threads, ProcessConnect(t) PROVE LoadedTrue'
  <2>1. Enders = {}
    BY <1>1, FewEnders DEF ProcessConnect, FirstClose, Starting
  <2>2. \A u \in Threads : handling[u] # "loaded"
    BY <2>1 DEF Enders, Ending
  <2> QED
    BY <1>1, <2>2 DEF ProcessConnect, LoadedTrue
<1>2. ASSUME NEW t \in Threads, OnConnected(t) PROVE LoadedTrue'
  BY <1>2 DEF OnConnected, LoadedTrue
<1>3. ASSUME NEW t \in Threads, PushSession(t) PROVE LoadedTrue'
  BY <1>3 DEF PushSession, LoadedTrue
<1>4. ASSUME NEW t \in Threads, RegisterRecv(t) PROVE LoadedTrue'
  BY <1>4 DEF RegisterRecv, LoadedTrue
<1>5. ASSUME NEW t \in Threads, RecvData(t) PROVE LoadedTrue'
  <2>1. Complete(t, "recv", "received") /\ UNCHANGED <<connected, expected>>
    BY <1>5 DEF RecvData
  <2>2. /\ handling'[t] # "loaded"
        /\ \A u \in Threads : u # t => handling'[u] = handling[u]
    BY <2>1, CompleteTypes
  <2> QED
    BY <2>1, <2>2 DEF LoadedTrue
<1>6. ASSUME NEW t \in Threads, RecvEnd(t) PROVE LoadedTrue'
  <2>1. Complete(t, "recv", "closing") /\ UNCHANGED <<connected, expected>>
    BY <1>6 DEF RecvEnd
  <2>2. /\ handling'[t] # "loaded"
        /\ \A u \in Threads : u # t => handling'[u] = handling[u]
    BY <2>1, CompleteTypes
  <2> QED
    BY <2>1, <2>2 DEF LoadedTrue
<1>7. ASSUME NEW t \in Threads, NEW b \in Buffers, Push(t, b) PROVE LoadedTrue'
  BY <1>7 DEF Push, LoadedTrue
<1>8. ASSUME NEW t \in Threads, TakeFlag(t) PROVE LoadedTrue'
  BY <1>8 DEF TakeFlag, LoadedTrue
<1>9. ASSUME NEW t \in Threads, BeginSend(t) PROVE LoadedTrue'
  BY <1>9 DEF BeginSend, LoadedTrue
<1>10. ASSUME NEW t \in Threads, SendDone(t) PROVE LoadedTrue'
  <2>1. Complete(t, "send", "sent") /\ UNCHANGED <<connected, expected>>
    BY <1>10 DEF SendDone
  <2>2. /\ handling'[t] # "loaded"
        /\ \A u \in Threads : u # t => handling'[u] = handling[u]
    BY <2>1, CompleteTypes
  <2> QED
    BY <2>1, <2>2 DEF LoadedTrue
<1>11. ASSUME NEW t \in Threads, ContinueSend(t) PROVE LoadedTrue'
  BY <1>11 DEF ContinueSend, LoadedTrue
<1>12. ASSUME NEW t \in Threads, SendZero(t) PROVE LoadedTrue'
  <2>1. Complete(t, "send", "closing") /\ UNCHANGED <<connected, expected>>
    BY <1>12 DEF SendZero
  <2>2. /\ handling'[t] # "loaded"
        /\ \A u \in Threads : u # t => handling'[u] = handling[u]
    BY <2>1, CompleteTypes
  <2> QED
    BY <2>1, <2>2 DEF LoadedTrue
<1>13. ASSUME NEW t \in Threads, LoadConnected(t) PROVE LoadedTrue'
  BY <1>13 DEF LoadConnected, LoadedTrue
<1>14. ASSUME NEW t \in Threads, SwapConnected(t) PROVE LoadedTrue'
  BY <1>14 DEF SwapConnected, LoadedTrue
<1>15. ASSUME NEW t \in Threads, RegisterDisconnect(t) PROVE LoadedTrue'
  BY <1>15 DEF RegisterDisconnect, LoadedTrue
<1>16. ASSUME NEW t \in Threads, DisconnectDone(t) PROVE LoadedTrue'
  <2>1. Complete(t, "disconnect", "left") /\ UNCHANGED <<connected, expected>>
    BY <1>16 DEF DisconnectDone
  <2>2. /\ handling'[t] # "loaded"
        /\ \A u \in Threads : u # t => handling'[u] = handling[u]
    BY <2>1, CompleteTypes
  <2> QED
    BY <2>1, <2>2 DEF LoadedTrue
<1>17. ASSUME NEW t \in Threads, LeaveRoom(t) PROVE LoadedTrue'
  BY <1>17 DEF LeaveRoom, LoadedTrue
<1>18. ASSUME NEW t \in Threads, ForgetPlayer(t) PROVE LoadedTrue'
  BY <1>18 DEF ForgetPlayer, LoadedTrue
<1>19. ASSUME NEW t \in Threads, PopSession(t) PROVE LoadedTrue'
  BY <1>19 DEF PopSession, LoadedTrue
<1>20. CASE UNCHANGED vars
  BY <1>20 DEF vars, LoadedTrue
<1> QED
  BY <1>1, <1>2, <1>3, <1>4, <1>5, <1>6, <1>7, <1>8, <1>9, <1>10, <1>11,
     <1>12, <1>13, <1>14, <1>15, <1>16, <1>17, <1>18, <1>19, <1>20
     DEF Next, CallStep, SendCompletes, RecvCompletes, DisconnectCompletes

-----------------------------------------------------------------------------
(* The invariant holds in the beginning, and every step keeps it.          *)
LEMMA InitIInv == Init => IInv
<1> SUFFICES ASSUME Init PROVE IInv
  OBVIOUS
<1>1. PICK t \in Threads :
        handling = [u \in Threads |-> IF u = t THEN "accepted" ELSE "none"]
  BY DEF Init
<1>2. Types
  <2>1. handling \in [Threads -> Steps]
    BY <1>1 DEF Steps
  <2>2. sendQueue \in Seq(Buffers) /\ sendVector \in Seq(Buffers)
    BY DEF Init
  <2>3. posted \in Seq(Buffers) /\ sent \in Seq(Buffers)
    BY DEF Init
  <2>4. owner \in [Events -> BOOLEAN] /\ pending \in [Events -> Nat]
    BY DEF Init
  <2>5. expected \in [Threads -> BOOLEAN]
    BY DEF Init
  <2>6. sending \in [Threads -> {"no", "flag", "register"}]
    BY DEF Init
  <2> QED
    BY <2>1, <2>2, <2>3, <2>4, <2>5, <2>6 DEF Init, Types
<1>3. /\ \A u \in Threads : handling[u] \in {"accepted", "none"}
      /\ \A u \in Threads : handling[u] = "accepted" => u = t
      /\ handling[t] = "accepted"
  BY <1>1
<1>4. SendChain
  BY <1>3 DEF Init, SendChain, Wins, Events
<1>5. RecvChain
  BY <1>3 DEF Init, RecvChain, Receiving, Starting, Events
<1>6. Enders = {}
  BY <1>3 DEF Enders, Ending
<1>7. CallsOfDisconnect
  <2>1. Cardinality(Enders) = 0
    BY <1>6, FS_EmptySet
  <2> QED
    BY <2>1 DEF Init, CallsOfDisconnect, Events
<1>8. FirstClose
  BY <1>3 DEF Init, FirstClose, SecondCloseBreaks, Starting, Events
<1>9. SentInOrder
  BY DEF Init, SentInOrder
<1>10. Awake
  BY DEF Init, Awake
<1>11. LoadedTrue
  BY DEF Init, LoadedTrue
<1>12. LateSenders
  BY <1>3 DEF Init, LateSenders, LateSenderBreaks, Events
<1> QED
  BY <1>2, <1>4, <1>5, <1>7, <1>8, <1>9, <1>10, <1>11, <1>12 DEF IInv

(* Every step keeps the inductive invariant.                               *)
LEMMA NextIInv == IInv /\ [Next]_vars => IInv'
BY TypesNext, SendChainNext, RecvChainNext, CallsNext, FirstCloseNext,
   OrderNext, LateSendersNext, AwakeNext, LoadedTrueNext DEF IInv

(* The two chains end once each, and until then somebody has the flag and  *)
(* somebody the receives, whatever the number of threads and buffers.      *)
THEOREM SessionInvariantHolds == Spec => []IInv
BY InitIInv, NextIInv, PTL DEF Spec

(* One WSASend and one WSARecv are outstanding at most, and the event owns *)
(* the session until they complete: each has a chain of its own, with one  *)
(* thread or one operation at a time.                                      *)
THEOREM OperationsAreOwned == Spec => []OperationsStayOwned
<1>1. IInv => OperationsStayOwned
  <2> SUFFICES ASSUME IInv PROVE OperationsStayOwned
    OBVIOUS
  <2>1. /\ pending \in [Events -> Nat]
        /\ pending["send"] <= 1 /\ pending["recv"] <= 1
    BY DEF IInv, Types, SendChain, RecvChain
  <2>2. pending["disconnect"] <= 2 /\ closes \in 0 .. 2
    <3>1. /\ Cardinality(Enders) \in Nat /\ closes \in Nat /\ closes <= 2
          /\ Cardinality(Enders) + pending["disconnect"] <= closes
      BY EndersFinite DEF IInv, Types, CallsOfDisconnect
    <3> QED
      BY <2>1, <3>1 DEF Events
  <2>3. pending \in [Events -> 0 .. 2]
    BY <2>1, <2>2 DEF Events
  <2>4. TypeOK
    BY <2>2, <2>3 DEF IInv, Types, TypeOK, Steps
  <2> QED
    BY <2>1, <2>4 DEF IInv, SendChain, RecvChain, OperationsStayOwned, Events
<1> QED
  BY <1>1, SessionInvariantHolds, PTL

(* Buffers go out in the order in which Send queued them, each once: the   *)
(* front is taken by whoever has the flag, into a vector that is empty.    *)
THEOREM BuffersGoOutInOrder == Spec => []SentInOrder
<1>1. IInv => SentInOrder
  BY DEF IInv
<1> QED
  BY <1>1, SessionInvariantHolds, PTL

(* front() of an empty queue takes a second sender that comes late: the    *)
(* first one's buffer and its own had been sent and completed before it    *)
(* had the flag.                                                           *)
THEOREM OnlyLateSendersBreak == Spec => []LateSenderBreaks
<1>1. IInv => LateSenderBreaks
  BY DEF IInv, LateSenders
<1> QED
  BY <1>1, SessionInvariantHolds, PTL

(* No wake-up is lost: the flag is set only while a WSASend is outstanding *)
(* or a thread is going to look at the queue, and it is given back under   *)
(* the lock when the queue is empty.                                       *)
THEOREM NoWakeUpIsLost == Spec => []WaitingBuffersHaveASender
<1>1. IInv => WaitingBuffersHaveASender
  BY DEF IInv, Awake, WaitingBuffersHaveASender, Wins, Sending, InHand,
         Disconnecting
<1> QED
  BY <1>1, SessionInvariantHolds, PTL

(* The null _owner and the erase of end() take a second call of            *)
(* Disconnect, and the null player one too, or a client that never asked   *)
(* for a game.                                                             *)
THEOREM OneCloseIsSafe == Spec => []SecondCloseBreaks
<1>1. IInv => SecondCloseBreaks
  BY DEF IInv, FirstClose
<1> QED
  BY <1>1, SessionInvariantHolds, PTL

-----------------------------------------------------------------------------
(***************************************************************************)
(* The receive buffer of a session.                                        *)
(***************************************************************************)
(* What is to be read are bytes of packets that have been sent.            *)
BytesKnown ==
  /\ Len(received) <= Len(sizes)
  /\ \A i \in 1 .. Len(Unread) : Unread[i][1] \in 1 .. Len(sizes)

(* OnRecv is given what has come in, and what was left before lags.  If no *)
(* portion has ended inside a packet the data does not either.             *)
LoopOK ==
  IF state = "parse"
  THEN /\ len > 0 /\ processLen <= len /\ len + lag = DataSize
       /\ ~split => lag = 0
       /\ ~split /\ First <= writePos =>
            buffer[writePos][2] = sizes[buffer[writePos][1]]
  ELSE len = 0 /\ processLen = 0 /\ lag = DataSize

StreamInv == StreamIsKept /\ LoopOK /\ (state # "garbled" => BytesKnown)

-----------------------------------------------------------------------------
(* n bytes, after the first f.                                             *)
LEMMA Slice ==
  ASSUME NEW b, NEW f \in Nat, NEW n \in Nat,
         \A i \in f + 1 .. f + n : b[i] \in Nat \X Nat
  PROVE  LET s == SubSeq(b, f + 1, f + n)
         IN  s \in Seq(Nat \X Nat) /\ Len(s) = n /\ \A i \in 1 .. n : s[i] = b[f + i]
<1> DEFINE s == SubSeq(b, f + 1, f + n)
<1>1. f + 1 \in Int /\ f + n \in Int
  OBVIOUS
<1>2. /\ s \in Seq(Nat \X Nat)
      /\ Len(s) = IF f + 1 <= f + n THEN f + n - (f + 1) + 1 ELSE 0
      /\ \A i \in 1 .. f + n - (f + 1) + 1 : s[i] = b[f + 1 + i - 1]
  BY <1>1, SubSeqProperties
<1>3. f + n - (f + 1) + 1 = n /\ (~(f + 1 <= f + n) => n = 0)
  OBVIOUS
<1>4. \A i \in 1 .. n : f + 1 + i - 1 = f + i
  OBVIOUS
<1> HIDE DEF s
<1>5. s \in Seq(Nat \X Nat) /\ Len(s) = n /\ \A i \in 1 .. n : s[i] = b[f + i]
  BY <1>2, <1>3, <1>4
<1> QED
  BY <1>5 DEF s

(* A sequence of bytes is n of the buffer, after the first f, and then     *)
(* those of r.                                                             *)
IsJoined(u, b, f, n, r) ==
  /\ u \in Seq(Nat \X Nat) /\ Len(r) \in Nat /\ Len(u) = n + Len(r)
  /\ \A i \in 1 .. n : u[i] = b[f + i]
  /\ \A i \in 1 .. Len(r) : u[n + i] = r[i]

LEMMA Joined ==
  ASSUME NEW b, NEW f \in Nat, NEW n \in Nat, NEW r \in Seq(Nat \X Nat),
         \A i \in 1 .. f + n : b[i] \in Nat \X Nat
  PROVE  IsJoined(SubSeq(b, f + 1, f + n) \o r, b, f, n, r)
<1> DEFINE s == SubSeq(b, f + 1, f + n)
<1>1. s \in Seq(Nat \X Nat) /\ Len(s) = n /\ \A i \in 1 .. n : s[i] = b[f + i]
  <2>1. \A i \in f + 1 .. f + n : b[i] \in Nat \X Nat
    OBVIOUS
  <2> QED
    BY <2>1, Slice
<1> HIDE DEF s
<1>3. /\ s \o r \in Seq(Nat \X Nat) /\ Len(s \o r) = Len(s) + Len(r)
      /\ \A i \in 1 .. Len(s) + Len(r) :
           (s \o r)[i] = IF i <= Len(s) THEN s[i] ELSE r[i - Len(s)]
  BY <1>1, ConcatProperties
<1>4. Len(r) \in Nat
  BY LenProperties
<1>5. ASSUME NEW i \in 1 .. n
      PROVE  (s \o r)[i] = b[f + i]
  <2>1. i \in 1 .. n + Len(r) /\ i <= n
    BY <1>4
  <2> QED
    BY <1>1, <1>3, <2>1
<1>6. ASSUME NEW i \in 1 .. Len(r)
      PROVE  (s \o r)[n + i] = r[i]
  <2>1. n + i \in 1 .. n + Len(r) /\ ~(n + i <= n) /\ (n + i) - n = i
    BY <1>4
  <2> QED
    BY <1>1, <1>3, <2>1
<1>7. Len(s \o r) = n + Len(r)
  BY <1>1, <1>3
<1>8. IsJoined(s \o r, b, f, n, r)
  BY <1>3, <1>4, <1>5, <1>6, <1>7 DEF IsJoined
<1> QED
  BY <1>8 DEF s

LEMMA CapacityIsNat == Capacity \in Nat
BY SizesAssumption DEF Capacity

(* What is to be read, byte for byte; now and in the next state.           *)
LEMMA UnreadIs ==
  ASSUME StreamTypes, processLen <= DataSize
  PROVE  \E f, n \in Nat :
           /\ f = readPos + processLen /\ writePos = f + n
           /\ f + n <= Capacity
           /\ IsJoined(Unread, buffer, f, n, inFlight)
<1>1. /\ Capacity \in Nat /\ buffer \in [1 .. Capacity -> Nat \X Nat]
      /\ writePos \in 0 .. Capacity /\ readPos \in 0 .. writePos
      /\ processLen \in Nat /\ processLen <= writePos - readPos
      /\ inFlight \in Seq(Nat \X Nat)
  BY CapacityIsNat DEF StreamTypes, DataSize
<1>2. PICK f \in Nat : f = readPos + processLen
  BY <1>1
<1>3. PICK n \in Nat : n = writePos - f
  BY <1>1, <1>2
<1>4. f + n = writePos /\ f + n <= Capacity
  BY <1>1, <1>2, <1>3
<1>5. \A i \in 1 .. f + n : buffer[i] \in Nat \X Nat
  BY <1>1, <1>4
<1>6. Unread = SubSeq(buffer, f + 1, f + n) \o inFlight
  BY <1>2, <1>4 DEF Unread, Data, First
<1>7. IsJoined(Unread, buffer, f, n, inFlight)
  BY <1>1, <1>5, <1>6, Joined
<1> QED
  BY <1>2, <1>4, <1>7

LEMMA UnreadIsNext ==
  ASSUME NEW f \in Nat, NEW n \in Nat, readPos' + processLen' = f, writePos' = f + n,
         \A i \in 1 .. f + n : buffer'[i] \in Nat \X Nat,
         inFlight' \in Seq(Nat \X Nat)
  PROVE  IsJoined(Unread', buffer', f, n, inFlight')
<1>1. Unread' = SubSeq(buffer', f + 1, f + n) \o inFlight'
  BY DEF Unread, Data, First
<1> QED
  BY <1>1, Joined

(* A set of natural numbers has a least one: the sets 0 .. n are ordered   *)
(* by inclusion, which is well founded on finite sets.                     *)
LEMMA LeastNumber ==
  ASSUME NEW S \in SUBSET Nat, S # {}
  PROVE  \E n \in S : \A m \in S : n <= m
<1>1. PICK k \in S : TRUE
  OBVIOUS
<1> DEFINE R == StrictSubsetOrdering(0 .. k)
           Below == {i \in S : i <= k}
           U == {0 .. m : m \in Below}
<1>2. IsWellFoundedOn(R, FiniteSubsetsOf(0 .. k))
  BY FS_StrictSubsetOrderingWellFounded
<1>3. U \subseteq FiniteSubsetsOf(0 .. k)
  <2>1. \A m \in Below : IsFiniteSet(0 .. m) /\ 0 .. m \subseteq 0 .. k
    <3>1. \A m \in Below : IsFiniteSet(0 .. m)
      BY FS_Interval
    <3> QED
      BY <3>1
  <2> QED
    BY <2>1 DEF FiniteSubsetsOf
<1>4. U # {}
  BY <1>1
<1>5. \E x \in U : \A y \in U : <<y, x>> \notin R
  <2> HIDE DEF R, U
  <2> QED
    BY <1>2, <1>3, <1>4, WFMin
<1>6. PICK n \in Below : \A y \in U : <<y, 0 .. n>> \notin R
  BY <1>5
<1>7. ASSUME NEW m \in S, ~(n <= m) PROVE FALSE
  <2>1. m \in Below
    BY <1>7
  <2>2. 0 .. m \subseteq 0 .. n /\ 0 .. m # 0 .. n
    <3>1. n \in 0 .. n /\ n \notin 0 .. m
      BY <1>7
    <3> QED
      BY <1>7, <3>1
  <2>3. 0 .. m \in SUBSET (0 .. k) /\ 0 .. n \in SUBSET (0 .. k)
    BY <2>1
  <2>4. <<0 .. m, 0 .. n>> \in R
    BY <2>2, <2>3 DEF StrictSubsetOrdering
  <2> QED
    BY <2>1, <2>4, <1>6
<1> QED
  BY <1>6, <1>7

(* What is to be read begins with the bytes of its first packet.           *)
Begins(u, k, m) == \A i \in 1 .. m : u[i] = <<k, i>>

LEMMA FrontBytes ==
  ASSUME NEW u \in Seq(Nat \X Nat), NEW k \in Nat, NEW m \in Nat,
         sizes[k] \in Nat, m <= Len(u), m <= sizes[k], u[1] = <<k, 1>>,
         \A i \in 1 .. Len(u) - 1 : u[i + 1] = ByteAfter(u[i])
  PROVE  Begins(u, k, m)
<1> DEFINE Other == {i \in 1 .. m : u[i] # <<k, i>>}
<1>0. Len(u) \in Nat
  BY LenProperties
<1>1. ASSUME Other # {}
      PROVE  FALSE
  <2>1. Other \in SUBSET Nat
    OBVIOUS
  <2>2. PICK i \in Other : \A j \in Other : i <= j
    <3> HIDE DEF Other
    <3> QED
      BY <1>1, <2>1, LeastNumber
  <2>3. i \in 1 .. m /\ u[i] # <<k, i>> /\ i # 1
    BY <2>2
  <2>4. PICK j \in 1 .. m : i = j + 1
    BY <2>3
  <2>5. u[j] = <<k, j>>
    <3>1. ~(i <= j)
      BY <2>4
    <3>2. j \notin Other
      <4> HIDE DEF Other
      <4> QED
        BY <2>2, <3>1
    <3> QED
      BY <3>2
  <2>6. j \in 1 .. Len(u) - 1 /\ j # sizes[k]
    <3>1. PICK l \in Nat, z \in Nat : l = Len(u) /\ z = sizes[k]
      BY <1>0
    <3>2. m <= l /\ m <= z
      BY <3>1
    <3>3. j \in 1 .. l - 1 /\ j # z
      BY <2>3, <2>4, <3>2
    <3> QED
      BY <3>1, <3>3
  <2>7. u[j + 1] = ByteAfter(<<k, j>>)
    BY <2>5, <2>6
  <2>8. ByteAfter(<<k, j>>) = <<k, j + 1>>
    BY <2>6 DEF ByteAfter
  <2> QED
    BY <2>3, <2>4, <2>7, <2>8
<1> QED
  BY <1>1 DEF Begins

-----------------------------------------------------------------------------
(* What the steps need to know of the stream.                              *)
LEMMA StreamFacts ==
  ASSUME StreamInv
  PROVE  /\ StreamTypes /\ processLen <= len /\ len <= DataSize
         /\ processLen <= DataSize
         /\ Len(sizes) \in Nat /\ Len(received) \in Nat /\ Len(inFlight) \in Nat
         /\ \A k \in 1 .. Len(sizes) :
              sizes[k] \in PacketSizes /\ sizes[k] \in Nat /\ sizes[k] >= HeaderSize
         /\ HeaderSize \in Nat \ {0} /\ Capacity \in Nat
         /\ DataSize \in Nat
<1>1. /\ StreamTypes /\ processLen <= len /\ len <= DataSize
  BY DEF StreamInv, StreamIsKept
<1>2. Capacity \in Nat /\ HeaderSize \in Nat \ {0}
  BY SizesAssumption, CapacityIsNat
<1>3. /\ writePos \in 0 .. Capacity /\ readPos \in 0 .. writePos
      /\ processLen \in Nat /\ len \in Nat
  BY <1>1 DEF StreamTypes
<1>4. DataSize \in Nat
  BY <1>2, <1>3 DEF DataSize
<1>5. processLen <= DataSize
  BY <1>1, <1>3, <1>4
<1>6. Len(sizes) \in Nat /\ Len(received) \in Nat /\ Len(inFlight) \in Nat
  BY <1>1, LenProperties DEF StreamTypes
<1>7. \A k \in 1 .. Len(sizes) : sizes[k] \in PacketSizes
  BY <1>1, ElementOfSeq DEF StreamTypes
<1>8. \A size \in PacketSizes : size \in Nat /\ size >= HeaderSize
  BY SizesAssumption
<1> QED
  BY <1>1, <1>2, <1>4, <1>5, <1>6, <1>7, <1>8

LEMMA ClientSendStep ==
  ASSUME StreamInv, NEW size \in PacketSizes, ClientSend(size)
  PROVE  StreamInv'
<1>1. /\ Len(sizes) < MaxPackets /\ sizes' = Append(sizes, size)
      /\ inFlight' = inFlight \o Bytes(Len(sizes) + 1, size)
      /\ UNCHANGED <<buffer, readPos, writePos, len, processLen, received, lag,
                     split, state>>
  BY DEF ClientSend
<1>2. PICK m \in Nat : m = Len(sizes)
  BY StreamFacts
<1>3. size \in Nat \ {0}
  BY SizesAssumption
<1>4. /\ sizes' \in Seq(PacketSizes) /\ Len(sizes') = m + 1 /\ sizes'[m + 1] = size
      /\ \A k \in 1 .. m : sizes'[k] = sizes[k]
  <2>1. sizes \in Seq(PacketSizes)
    BY StreamFacts DEF StreamTypes
  <2> QED
    BY <1>1, <1>2, <2>1, AppendProperties
<1>5. PICK b \in Seq(Nat \X Nat) :
        /\ b = Bytes(m + 1, size)
        /\ Len(b) = size /\ \A j \in 1 .. size : b[j] = <<m + 1, j>>
  <2>1. Bytes(m + 1, size) = [j \in 1 .. size |-> <<m + 1, j>>]
    BY DEF Bytes
  <2>2. \A j \in 1 .. size : <<m + 1, j>> \in Nat \X Nat
    OBVIOUS
  <2>3. [j \in 1 .. size |-> <<m + 1, j>>] \in Seq(Nat \X Nat)
    BY <1>3, <2>2, IsASeq
  <2>4. Len([j \in 1 .. size |-> <<m + 1, j>>]) = size
    BY <1>3
  <2> QED
    BY <2>1, <2>3, <2>4
<1>6. PICK h \in Nat : h = Len(inFlight)
  BY StreamFacts
<1>7. /\ inFlight' \in Seq(Nat \X Nat) /\ Len(inFlight') = h + size
      /\ \A i \in 1 .. h : inFlight'[i] = inFlight[i]
      /\ \A j \in 1 .. size : inFlight'[h + j] = <<m + 1, j>>
  <2>1. inFlight \in Seq(Nat \X Nat)
    BY StreamFacts DEF StreamTypes
  <2>2. inFlight' = inFlight \o b
    BY <1>1, <1>2, <1>5
  <2>6. /\ inFlight \o b \in Seq(Nat \X Nat)
        /\ Len(inFlight \o b) = Len(inFlight) + Len(b)
        /\ \A i \in 1 .. Len(inFlight) + Len(b) :
             (inFlight \o b)[i] =
               IF i <= Len(inFlight) THEN inFlight[i] ELSE b[i - Len(inFlight)]
    BY <2>1, ConcatProperties
  <2>3. /\ inFlight \o b \in Seq(Nat \X Nat) /\ Len(inFlight \o b) = h + size
        /\ \A i \in 1 .. h + size :
             (inFlight \o b)[i] = IF i <= h THEN inFlight[i] ELSE b[i - h]
    BY <1>5, <1>6, <2>6
  <2>4. \A i \in 1 .. h : i \in 1 .. h + size /\ i <= h
    BY <1>3
  <2>5. \A j \in 1 .. size : h + j \in 1 .. h + size /\ ~(h + j <= h) /\ (h + j) - h = j
    BY <1>3
  <2> QED
    BY <1>5, <2>2, <2>3, <2>4, <2>5
<1>8. StreamTypes'
  <2>1. Len(sizes') <= MaxPackets
    BY SizesAssumption, <1>1, <1>2, <1>4
  <2> QED
    BY <1>1, <1>4, <1>7, <2>1, StreamFacts DEF StreamTypes, Capacity
<1>9. PICK f \in Nat, n \in Nat :
        /\ f = readPos + processLen /\ writePos = f + n /\ f + n <= Capacity
        /\ IsJoined(Unread, buffer, f, n, inFlight)
  BY StreamFacts, UnreadIs
<1>10. IsJoined(Unread', buffer, f, n, inFlight')
  <2>1. \A i \in 1 .. f + n : buffer[i] \in Nat \X Nat
    <3>1. buffer \in [1 .. Capacity -> Nat \X Nat] /\ Capacity \in Nat
      BY StreamFacts DEF StreamTypes
    <3>2. \A i \in 1 .. f + n : i \in 1 .. Capacity
      BY <1>9, <3>1
    <3> QED
      BY <3>1, <3>2
  <2>2. readPos' + processLen' = f /\ writePos' = f + n /\ buffer' = buffer
    BY <1>1, <1>9
  <2> QED
    BY <1>7, <2>1, <2>2, UnreadIsNext
<1>11. PICK u \in Seq(Nat \X Nat) : u = Unread
  BY <1>9 DEF IsJoined
<1>12. PICK v \in Seq(Nat \X Nat) : v = Unread'
  BY <1>10 DEF IsJoined
<1>13. PICK l \in Nat : l = Len(u) /\ l = n + h
  BY <1>6, <1>9, <1>11 DEF IsJoined
<1>14. Len(v) = l + size
  BY <1>3, <1>7, <1>10, <1>12, <1>13 DEF IsJoined
<1>15. \A i \in 1 .. l : v[i] = u[i]
  <2> SUFFICES ASSUME NEW i \in 1 .. l PROVE v[i] = u[i]
    OBVIOUS
  <2>1. CASE i \in 1 .. n
    BY <1>9, <1>10, <1>11, <1>12, <2>1 DEF IsJoined
  <2>2. CASE i \notin 1 .. n
    <3>1. PICK j \in 1 .. h : i = n + j
      <4>1. i - n \in 1 .. h /\ i = n + (i - n)
        BY <1>13, <2>2
      <4> QED
        BY <4>1
    <3>2. j \in 1 .. h + size
      BY <1>3
    <3>3. u[n + j] = inFlight[j] /\ v[n + j] = inFlight'[j]
      BY <1>6, <1>7, <1>9, <1>10, <1>11, <1>12, <3>1, <3>2 DEF IsJoined
    <3> QED
      BY <1>7, <3>1, <3>3
  <2> QED
    BY <2>1, <2>2
<1>16. \A j \in 1 .. size : v[l + j] = <<m + 1, j>>
  <2> SUFFICES ASSUME NEW j \in 1 .. size PROVE v[l + j] = <<m + 1, j>>
    OBVIOUS
  <2>1. h + j \in 1 .. h + size /\ n + (h + j) = l + j
    BY <1>3, <1>13
  <2>2. v[n + (h + j)] = inFlight'[h + j]
    BY <1>7, <1>10, <1>12, <2>1 DEF IsJoined
  <2> QED
    BY <1>7, <2>1, <2>2
<1>17. ASSUME state # "garbled"
       PROVE  InOrder' /\ BytesKnown'
  <2>1. /\ u = <<>> <=> Len(received) = m
        /\ u # <<>> => u[1] = <<Len(received) + 1, 1>> /\ u[l] = <<m, sizes[m]>>
        /\ \A i \in 1 .. l - 1 : u[i + 1] = ByteAfter(u[i])
        /\ Len(received) <= m /\ Len(received) \in Nat
        /\ \A i \in 1 .. l : u[i][1] \in 1 .. m
    BY <1>2, <1>11, <1>13, <1>17, StreamFacts
       DEF StreamInv, StreamIsKept, InOrder, BytesKnown
  <2>2. u = <<>> <=> l = 0
    BY <1>13, EmptySeq
  <2>3. v # <<>> /\ Len(received) # m + 1
    <3>1. Len(v) # 0
      BY <1>3, <1>14
    <3> QED
      BY <2>1, <3>1, EmptySeq
  <2>4. v[1] = <<Len(received) + 1, 1>>
    <3>1. CASE l = 0
      <4>1. 1 \in 1 .. size /\ l + 1 = 1
        BY <1>3, <3>1
      <4> QED
        BY <1>16, <2>1, <2>2, <3>1, <4>1
    <3>2. CASE l # 0
      <4>1. 1 \in 1 .. l
        BY <3>2
      <4> QED
        BY <1>15, <2>1, <2>2, <3>2, <4>1
    <3> QED
      BY <3>1, <3>2
  <2>5. v[l + size] = <<m + 1, sizes'[m + 1]>>
    <3>1. size \in 1 .. size
      BY <1>3
    <3> QED
      BY <1>4, <1>16, <3>1
  <2>6. ASSUME NEW i \in 1 .. l + size - 1
        PROVE  v[i + 1] = ByteAfter(v[i])'
    <3>1. CASE i < l
      <4>1. i \in 1 .. l /\ i + 1 \in 1 .. l /\ i \in 1 .. l - 1
        BY <3>1
      <4>2. v[i] = u[i] /\ v[i + 1] = u[i + 1] /\ u[i][1] \in 1 .. m
        BY <1>15, <2>1, <4>1
      <4>3. sizes'[u[i][1]] = sizes[u[i][1]]
        BY <1>4, <4>2
      <4>4. ByteAfter(v[i])' = ByteAfter(u[i])
        BY <1>12, <4>2, <4>3 DEF ByteAfter
      <4> QED
        BY <2>1, <4>1, <4>2, <4>4
    <3>2. CASE i = l
      <4>1. l \in 1 .. l /\ l # 0 /\ 1 \in 1 .. size
        BY <1>3, <3>2
      <4>2. v[l] = <<m, sizes[m]>> /\ v[l + 1] = <<m + 1, 1>>
        BY <1>15, <1>16, <2>1, <2>2, <4>1
      <4>3. m \in 1 .. m
        <5>1. u[l] = <<m, sizes[m]>> /\ u[l][1] \in 1 .. m
          BY <2>1, <2>2, <4>1
        <5> QED
          BY <5>1
      <4>4. sizes'[m] = sizes[m]
        BY <1>4, <4>3
      <4> QED
        BY <1>12, <3>2, <4>2, <4>4 DEF ByteAfter
    <3>3. CASE i > l
      <4>1. PICK j \in 1 .. size - 1 : i = l + j
        <5>1. i - l \in 1 .. size - 1 /\ i = l + (i - l)
          BY <1>3, <3>3
        <5> QED
          BY <5>1
      <4>2. j \in 1 .. size /\ j + 1 \in 1 .. size /\ j # size /\ i + 1 = l + (j + 1)
        BY <1>3, <4>1
      <4>3. v[i] = <<m + 1, j>> /\ v[i + 1] = <<m + 1, j + 1>>
        BY <1>16, <4>1, <4>2
      <4>4. ByteAfter(v[i])' =
              IF v[i][2] = sizes'[v[i][1]] THEN <<v[i][1] + 1, 1>>
              ELSE <<v[i][1], v[i][2] + 1>>
        BY DEF ByteAfter
      <4>5. v[i][1] = m + 1 /\ v[i][2] = j
        BY <4>3
      <4>6. sizes'[m + 1] # j
        BY <1>4, <4>2
      <4> QED
        BY <4>3, <4>4, <4>5, <4>6
    <3> QED
      BY <3>1, <3>2, <3>3
  <2>7. ASSUME NEW i \in 1 .. l + size
        PROVE  v[i][1] \in 1 .. m + 1
    <3>1. CASE i \in 1 .. l
      <4>1. v[i] = u[i] /\ u[i][1] \in 1 .. m
        BY <1>15, <2>1, <3>1
      <4>2. 1 .. m \subseteq 1 .. m + 1
        OBVIOUS
      <4> QED
        BY <4>1, <4>2, Zenon
    <3>2. CASE i \notin 1 .. l
      <4>1. i - l \in 1 .. size /\ i = l + (i - l)
        BY <1>3, <3>2
      <4>2. v[i] = <<m + 1, i - l>>
        BY <1>16, <4>1
      <4> QED
        BY <4>2
    <3> QED
      BY <3>1, <3>2
  <2>8. received' = received /\ Len(received) <= m + 1
    BY <1>1, <2>1
  <2>9. InOrder'
    <3>1. /\ Len(received') = Len(received) /\ Len(sizes') = m + 1
          /\ Len(v) = l + size
      BY <1>4, <1>14, <2>8
    <3>2. ~(v = <<>>) /\ ~(Len(received') = Len(sizes'))
      BY <2>3, <3>1
    <3>3. /\ v[1] = <<Len(received') + 1, 1>>
          /\ v[Len(v)] = <<Len(sizes'), sizes'[Len(sizes')]>>
      BY <2>4, <2>5, <3>1
    <3>4. \A i \in 1 .. l + size - 1 : v[i + 1] = ByteAfter(v[i])'
      BY <2>6
    <3>5. 1 .. Len(v) - 1 = 1 .. l + size - 1
      BY <1>3, <1>14
    <3> QED
      BY <1>12, <3>2, <3>3, <3>4, <3>5 DEF InOrder, ByteAfter
  <2>10. BytesKnown'
    BY <1>4, <1>12, <1>14, <2>7, <2>8 DEF BytesKnown
  <2> QED
    BY <2>9, <2>10
<1>18. LoopOK'
  <2>1. ASSUME state = "parse", ~split, First <= writePos
        PROVE  buffer[writePos][2] = sizes'[buffer[writePos][1]]
    <3>1. n \in 1 .. n /\ n \in 1 .. l
      BY <1>9, <1>13, <2>1 DEF First
    <3>2. u[n] = buffer[writePos]
      BY <1>9, <1>11, <3>1 DEF IsJoined
    <3>3. u[n][1] \in 1 .. m
      BY <1>2, <1>11, <1>13, <2>1, <3>1 DEF StreamInv, BytesKnown
    <3> QED
      BY <1>4, <2>1, <3>2, <3>3 DEF StreamInv, LoopOK
  <2>2. /\ state' = state /\ split' = split /\ len' = len /\ processLen' = processLen
        /\ lag' = lag /\ DataSize' = DataSize
        /\ First' = First /\ buffer' = buffer /\ writePos' = writePos
    BY <1>1 DEF DataSize, First
  <2>3. CASE state = "parse"
    BY <2>1, <2>2, <2>3 DEF StreamInv, LoopOK
  <2>4. CASE state # "parse"
    BY <2>2, <2>4 DEF StreamInv, LoopOK
  <2> QED
    BY <2>3, <2>4
<1> QED
  BY <1>1, <1>8, <1>17, <1>18 DEF StreamInv, StreamIsKept, DataSize

LEMMA StreamStays ==
  ASSUME StreamInv, state # "garbled", Unread' = Unread,
         UNCHANGED <<sizes, received>>
  PROVE  InOrder' /\ BytesKnown'
<1>1. InOrder /\ BytesKnown
  BY DEF StreamInv, StreamIsKept
<1>2. InOrder'
  <2>1. \A i \in 1 .. Len(Unread) - 1 :
          ByteAfter(Unread[i])' = ByteAfter(Unread[i])
    BY DEF ByteAfter
  <2> QED
    BY <1>1, <2>1 DEF InOrder
<1>3. BytesKnown'
  BY <1>1 DEF BytesKnown
<1> QED
  BY <1>2, <1>3

LEMMA OnWriteStep ==
  ASSUME StreamInv, NEW k \in 1 .. Len(inFlight), OnWrite(k)
  PROVE  StreamInv'
<1>1. /\ state = "recv" /\ k <= FreeSize
      /\ buffer' = Written(k) /\ writePos' = writePos + k
      /\ inFlight' = SubSeq(inFlight, k + 1, Len(inFlight))
      /\ len' = k /\ split' = (split \/ inFlight[k][2] # sizes[inFlight[k][1]])
      /\ state' = "parse"
      /\ UNCHANGED <<sizes, readPos, processLen, received, lag>>
  BY DEF OnWrite, Given
<1>2. /\ processLen = 0 /\ len = 0 /\ lag = DataSize /\ DataSize \in Nat
      /\ (~split => lag = 0) /\ StreamTypes
  BY <1>1, StreamFacts DEF StreamInv, LoopOK, StreamIsKept
<1>3. PICK c \in Nat : c = Capacity
  BY StreamFacts
<1>4. PICK f \in Nat, n \in Nat :
        /\ f = readPos + processLen /\ writePos = f + n /\ f + n <= c
        /\ IsJoined(Unread, buffer, f, n, inFlight)
  BY <1>3, StreamFacts, UnreadIs
<1>5. f = readPos /\ DataSize = n
  BY <1>2, <1>4 DEF DataSize, StreamTypes
<1>6. PICK h \in Nat : h = Len(inFlight) /\ k \in 1 .. h /\ f + (n + k) <= c
  <2>1. k \in Nat /\ k <= c - (f + n)
    BY <1>1, <1>3, <1>4, StreamFacts DEF FreeSize
  <2>2. f + (n + k) <= c
    BY <2>1, <1>3
  <2> QED
    BY <2>2, StreamFacts
<1>7. /\ inFlight \in Seq(Nat \X Nat) /\ inFlight' \in Seq(Nat \X Nat)
      /\ Len(inFlight') = h - k
      /\ \A i \in 1 .. h - k : inFlight'[i] = inFlight[k + i]
  <2>1. inFlight \in Seq(Nat \X Nat)
    BY <1>2 DEF StreamTypes
  <2>2. \A i \in k + 1 .. h : inFlight[i] \in Nat \X Nat
    <3>1. \A i \in k + 1 .. h : i \in 1 .. h
      BY <1>6
    <3> QED
      BY <1>6, <2>1, <3>1, ElementOfSeq
  <2>3. /\ SubSeq(inFlight, k + 1, h) \in Seq(Nat \X Nat)
        /\ Len(SubSeq(inFlight, k + 1, h)) = IF k + 1 <= h THEN h - (k + 1) + 1 ELSE 0
        /\ \A i \in 1 .. h - (k + 1) + 1 :
             SubSeq(inFlight, k + 1, h)[i] = inFlight[k + 1 + i - 1]
    BY <1>6, <2>2, SubSeqProperties
  <2>4. h - (k + 1) + 1 = h - k /\ (~(k + 1 <= h) => h - k = 0)
    BY <1>6
  <2>5. \A i \in 1 .. h - k : k + 1 + i - 1 = k + i
    BY <1>6
  <2>6. inFlight' = SubSeq(inFlight, k + 1, h)
    BY <1>1, <1>6
  <2> QED
    BY <2>1, <2>3, <2>4, <2>5, <2>6
<1>8. /\ buffer' = [i \in 1 .. c |-> IF i \in f + n + 1 .. f + n + k
                                    THEN inFlight[i - (f + n)] ELSE buffer[i]]
      /\ buffer \in [1 .. c -> Nat \X Nat]
  BY <1>1, <1>2, <1>3, <1>4 DEF Written, StreamTypes
<1>9. buffer' \in [1 .. c -> Nat \X Nat]
  <2> SUFFICES ASSUME NEW i \in 1 .. c
               PROVE  (IF i \in f + n + 1 .. f + n + k
                       THEN inFlight[i - (f + n)] ELSE buffer[i]) \in Nat \X Nat
    BY <1>8
  <2>1. CASE i \in f + n + 1 .. f + n + k
    <3>1. i - (f + n) \in 1 .. h
      BY <1>6, <2>1
    <3> QED
      BY <1>6, <1>7, <2>1, <3>1, ElementOfSeq
  <2>2. CASE i \notin f + n + 1 .. f + n + k
    BY <1>8, <2>2
  <2> QED
    BY <2>1, <2>2
<1>10. /\ \A i \in 1 .. n : buffer'[f + i] = buffer[f + i]
       /\ \A j \in 1 .. k : buffer'[f + n + j] = inFlight[j]
  <2>1. \A i \in 1 .. n : f + i \in 1 .. c /\ f + i \notin f + n + 1 .. f + n + k
    BY <1>4, <1>6
  <2>2. \A j \in 1 .. k : /\ f + n + j \in 1 .. c /\ f + n + j \in f + n + 1 .. f + n + k
                         /\ (f + n + j) - (f + n) = j
    <3> SUFFICES ASSUME NEW j \in 1 .. k
                 PROVE  /\ f + n + j \in 1 .. c /\ f + n + j \in f + n + 1 .. f + n + k
                        /\ (f + n + j) - (f + n) = j
      OBVIOUS
    <3>1. k \in Nat /\ j \in Nat /\ j >= 1 /\ j <= k
      BY <1>6
    <3>2. f + n + j <= c
      BY <1>6, <3>1
    <3> QED
      BY <3>1, <3>2
  <2> QED
    BY <1>8, <2>1, <2>2
<1>11. IsJoined(Unread', buffer', f, n + k, inFlight')
  <2>1. \A i \in 1 .. f + (n + k) : buffer'[i] \in Nat \X Nat
    <3>1. \A i \in 1 .. f + (n + k) : i \in 1 .. c
      BY <1>6
    <3> QED
      BY <1>9, <3>1
  <2>2. n + k \in Nat /\ readPos' + processLen' = f /\ writePos' = f + (n + k)
    BY <1>1, <1>4, <1>6
  <2> QED
    BY <1>7, <2>1, <2>2, UnreadIsNext
<1>12. Unread' = Unread
  <2>1. PICK u \in Seq(Nat \X Nat) : u = Unread
    BY <1>4 DEF IsJoined
  <2>2. PICK v \in Seq(Nat \X Nat) : v = Unread'
    BY <1>11 DEF IsJoined
  <2>3. Len(u) = n + h /\ Len(v) = n + k + (h - k)
    BY <1>4, <1>6, <1>7, <1>11, <2>1, <2>2 DEF IsJoined
  <2>4. Len(v) = n + h
    BY <1>6, <2>3
  <2>5. ASSUME NEW i \in 1 .. n + h
        PROVE  u[i] = v[i]
    <3>1. CASE i \in 1 .. n
      <4>1. i \in 1 .. n + k
        BY <1>6, <3>1
      <4>2. u[i] = buffer[f + i] /\ v[i] = buffer'[f + i]
        BY <1>4, <1>11, <2>1, <2>2, <3>1, <4>1 DEF IsJoined
      <4> QED
        BY <1>10, <3>1, <4>2
    <3>2. CASE i \in n + 1 .. n + k
      <4>1. PICK j \in 1 .. k : i = n + j
        <5>1. i - n \in 1 .. k /\ i = n + (i - n)
          BY <1>6, <3>2
        <5> QED
          BY <5>1
      <4>2. j \in 1 .. h /\ n + j \in 1 .. n + k /\ f + (n + j) = f + n + j
        BY <1>6, <4>1
      <4>3. u[n + j] = inFlight[j] /\ v[n + j] = buffer'[f + (n + j)]
        BY <1>4, <1>6, <1>11, <2>1, <2>2, <4>2 DEF IsJoined
      <4> QED
        BY <1>10, <4>1, <4>2, <4>3
    <3>3. CASE i \in n + k + 1 .. n + h
      <4>1. PICK j \in 1 .. h - k : i = n + k + j
        <5>1. i - (n + k) \in 1 .. h - k /\ i = n + k + (i - (n + k))
          BY <1>6, <3>3
        <5> QED
          BY <5>1
      <4>2. k + j \in 1 .. h /\ n + (k + j) = i
        BY <1>6, <4>1
      <4>3. u[n + (k + j)] = inFlight[k + j]
        BY <1>4, <1>6, <2>1, <4>2 DEF IsJoined
      <4>4. v[n + k + j] = inFlight'[j]
        BY <1>7, <1>11, <2>2 DEF IsJoined
      <4> QED
        BY <1>7, <4>1, <4>2, <4>3, <4>4
    <3> QED
      BY <1>6, <3>1, <3>2, <3>3
  <2>6. u = v
    BY <2>3, <2>4, <2>5, SeqEqual
  <2> QED
    BY <2>1, <2>2, <2>6
<1>13. StreamTypes'
  <2>1. writePos' \in 0 .. c /\ readPos' \in 0 .. writePos' /\ k \in Nat
    <3>1. writePos' = f + (n + k) /\ f \in 0 .. f + (n + k) /\ f + (n + k) \in 0 .. c
      BY <1>1, <1>4, <1>6
    <3> QED
      BY <1>1, <1>5, <1>6, <3>1
  <2> QED
    BY <1>1, <1>2, <1>3, <1>7, <1>9, <2>1 DEF StreamTypes, Capacity
<1>14. InOrder' /\ BytesKnown'
  BY <1>1, <1>12, StreamStays
<1>15. DataSize' = n + k
  <2>1. writePos' = f + n + k /\ readPos' = f
    BY <1>1, <1>4, <1>5
  <2> QED
    BY <1>6, <2>1 DEF DataSize
<1>16. LoopOK'
  <2>1. ~split' => lag' = 0 /\ buffer'[writePos'][2] = sizes'[buffer'[writePos'][1]]
    <3>1. k \in 1 .. k /\ writePos' = f + n + k
      BY <1>1, <1>4, <1>6
    <3>2. buffer'[writePos'] = inFlight[k]
      BY <1>10, <3>1
    <3> QED
      BY <1>1, <1>2, <3>2
  <2>2. k > 0 /\ 0 <= k /\ k + n = n + k
    BY <1>6
  <2> QED
    BY <1>1, <1>2, <1>5, <1>15, <2>1, <2>2 DEF LoopOK
<1>17. processLen' <= len' /\ len' <= DataSize' /\ (~split' => lag' = 0)
  <2>1. 0 <= k /\ k <= n + k
    BY <1>6
  <2> QED
    BY <1>1, <1>2, <1>15, <2>1
<1> QED
  BY <1>13, <1>14, <1>16, <1>17 DEF StreamInv, StreamIsKept

(* What the loop of OnRecv sees: the first of the bytes left is the first  *)
(* byte of the next packet, and they begin with the bytes of it.           *)
LEMMA NextPacket ==
  ASSUME StreamInv, state = "parse",
         NEW f \in Nat, NEW n \in Nat \ {0}, NEW m \in 1 .. n,
         f = readPos + processLen, writePos = f + n,
         IsJoined(Unread, buffer, f, n, inFlight)
  PROVE  LET k == Len(received) + 1
         IN  /\ k \in 1 .. Len(sizes) /\ Unread # <<>>
             /\ SizeAt(First) = sizes[k]
             /\ m <= sizes[k] => \A i \in 1 .. m : /\ Unread[i] = <<k, i>>
                                                  /\ buffer[f + i] = <<k, i>>
<1>1. PICK u \in Seq(Nat \X Nat) : u = Unread
  BY DEF IsJoined
<1>2. PICK l \in Nat : l = Len(u) /\ n <= l
  <2>1. Len(u) = n + Len(inFlight) /\ Len(inFlight) \in Nat
    BY <1>1 DEF IsJoined
  <2> QED
    BY <2>1
<1>3. u # <<>>
  BY <1>2, EmptySeq
<1>4. PICK k \in Nat : k = Len(received) + 1
  BY StreamFacts
<1>5. /\ u[1] = <<k, 1>> /\ \A i \in 1 .. l : u[i][1] \in 1 .. Len(sizes)
      /\ \A i \in 1 .. Len(u) - 1 : u[i + 1] = ByteAfter(u[i])
  BY <1>1, <1>2, <1>3, <1>4
     DEF StreamInv, StreamIsKept, InOrder, BytesKnown
<1>6. k \in 1 .. Len(sizes)
  <2>1. 1 \in 1 .. l /\ u[1][1] = k
    BY <1>2, <1>5
  <2> QED
    BY <1>5, <2>1
<1>7. \A i \in 1 .. n : u[i] = buffer[f + i]
  BY <1>1 DEF IsJoined
<1>8. SizeAt(First) = sizes[k]
  <2>1. First = f + 1
    BY DEF First
  <2>2. buffer[f + 1] = <<k, 1>>
    BY <1>5, <1>7
  <2> QED
    BY <2>1, <2>2 DEF SizeAt
<1>9. ASSUME m <= sizes[k]
      PROVE  \A i \in 1 .. m : u[i] = <<k, i>> /\ buffer[f + i] = <<k, i>>
  <2>1. m \in Nat /\ m <= Len(u) /\ sizes[k] \in Nat
    <3>1. m \in Nat /\ m <= n
      OBVIOUS
    <3>2. m <= l
      BY <1>2, <3>1
    <3>3. sizes[k] \in Nat
      BY <1>6, StreamFacts, Zenon
    <3> QED
      BY <1>2, <3>1, <3>2, <3>3
  <2>4. Begins(u, k, m)
    BY <1>5, <1>9, <2>1, FrontBytes
  <2>2. \A i \in 1 .. m : u[i] = <<k, i>>
    BY <2>4 DEF Begins
  <2>3. \A i \in 1 .. m : i \in 1 .. n
    OBVIOUS
  <2> QED
    BY <1>7, <2>2, <2>3
<1> QED
  BY <1>1, <1>3, <1>4, <1>6, <1>8, <1>9

(* OnRecvPacket is called with the bytes of the next packet.               *)
LEMMA PacketAtFront ==
  ASSUME StreamInv, HandlePacket
  PROVE  \E f, n, k, z \in Nat :
           /\ f = readPos + processLen /\ writePos = f + n /\ f + n <= Capacity
           /\ IsJoined(Unread, buffer, f, n, inFlight)
           /\ k = Len(received) + 1 /\ k \in 1 .. Len(sizes)
           /\ z = sizes[k] /\ z \in 1 .. n /\ processLen + z <= len
           /\ processLen' = processLen + z
           /\ received' = Append(received, [i \in 1 .. z |-> <<k, i>>])
           /\ \A i \in 1 .. z : Unread[i] = <<k, i>>
           /\ [i \in 1 .. z |-> <<k, i>>] \in Seq(Nat \X Nat)
           /\ Unread # <<>>
<1>1. /\ state = "parse" /\ PacketIsWhole
      /\ received' = Append(received, SubSeq(buffer, First,
                                             First + SizeAt(First) - 1))
      /\ processLen' = processLen + SizeAt(First)
  BY DEF HandlePacket
<1>2. PICK f \in Nat, n \in Nat :
        /\ f = readPos + processLen /\ writePos = f + n /\ f + n <= Capacity
        /\ IsJoined(Unread, buffer, f, n, inFlight)
  BY StreamFacts, UnreadIs
<1>3. PICK p \in Nat, q \in Nat : p = processLen /\ q = len /\ q - p <= n
  <2>1. processLen \in Nat /\ len \in Nat /\ readPos \in Nat /\ len <= writePos - readPos
    BY StreamFacts DEF StreamTypes, DataSize
  <2>2. len - processLen <= n
    BY <1>2, <2>1
  <2> QED
    BY <2>1, <2>2
<1>4. n \in Nat \ {0} /\ n \in 1 .. n
  <2>1. HeaderSize <= q - p /\ HeaderSize \in Nat \ {0}
    BY <1>1, <1>3, StreamFacts DEF PacketIsWhole
  <2> QED
    BY <1>3, <2>1
<1>5. PICK k \in Nat : k = Len(received) + 1
  BY StreamFacts
<1>6. /\ k \in 1 .. Len(sizes) /\ SizeAt(First) = sizes[k]
      /\ Unread # <<>>
  BY <1>1, <1>2, <1>4, <1>5, NextPacket
<1>7. PICK z \in Nat : z = sizes[k] /\ z >= HeaderSize
  BY <1>6, StreamFacts
<1>8. z \in 1 .. n /\ p + z <= q
  <2>1. z <= q - p /\ HeaderSize \in Nat \ {0}
    BY <1>1, <1>3, <1>6, <1>7, StreamFacts DEF PacketIsWhole
  <2> QED
    BY <1>3, <1>7, <2>1
<1>9. \A i \in 1 .. z : Unread[i] = <<k, i>> /\ buffer[f + i] = <<k, i>>
  <2>1. z <= sizes[k]
    BY <1>7
  <2> QED
    BY <1>1, <1>2, <1>4, <1>5, <1>8, <2>1, NextPacket
<1>10. SubSeq(buffer, f + 1, f + z) = [i \in 1 .. z |-> <<k, i>>]
       /\ [i \in 1 .. z |-> <<k, i>>] \in Seq(Nat \X Nat)
  <2>1. \A i \in 1 .. z : <<k, i>> \in Nat \X Nat
    OBVIOUS
  <2>10. [i \in 1 .. z |-> <<k, i>>] \in Seq(Nat \X Nat)
    BY <2>1, IsASeq
  <2>2. PICK b \in Seq(Nat \X Nat) : b = [i \in 1 .. z |-> <<k, i>>]
    BY <2>10
  <2>3. Len(b) = z /\ \A i \in 1 .. z : b[i] = <<k, i>>
    BY <2>2
  <2>4. \A i \in f + 1 .. f + z : buffer[i] \in Nat \X Nat
    <3> SUFFICES ASSUME NEW i \in f + 1 .. f + z PROVE buffer[i] \in Nat \X Nat
      OBVIOUS
    <3>1. PICK j \in 1 .. z : i = f + j
      <4>1. i - f \in 1 .. z /\ i = f + (i - f)
        OBVIOUS
      <4> QED
        BY <4>1
    <3>2. buffer[f + j] = <<k, j>>
      BY <1>9
    <3> QED
      BY <2>1, <3>1, <3>2
  <2> DEFINE d == SubSeq(buffer, f + 1, f + z)
  <2>5. d \in Seq(Nat \X Nat) /\ Len(d) = z /\ \A i \in 1 .. z : d[i] = buffer[f + i]
    BY <2>4, Slice
  <2> HIDE DEF d
  <2>8. \A i \in 1 .. z : d[i] = b[i]
    BY <1>9, <2>3, <2>5
  <2>9. d = b
    BY <2>3, <2>5, <2>8, SeqEqual
  <2> QED
    BY <2>2, <2>9, <2>10 DEF d
<1>11. received' = Append(received, [i \in 1 .. z |-> <<k, i>>])
  <2>1. First = f + 1 /\ First + SizeAt(First) - 1 = f + z
    <3>1. First = f + 1
      BY <1>2 DEF First
    <3>2. f + 1 + z - 1 = f + z
      OBVIOUS
    <3> QED
      BY <1>6, <1>7, <3>1, <3>2
  <2> QED
    BY <1>1, <1>10, <2>1
<1>12. z \in 1 .. n /\ processLen + z <= len /\ processLen' = processLen + z
  BY <1>1, <1>3, <1>6, <1>7, <1>8
<1> WITNESS f \in Nat, n \in Nat, k \in Nat, z \in Nat
<1> QED
  BY <1>2, <1>5, <1>6, <1>7, <1>9, <1>10, <1>11, <1>12

LEMMA HandlePacketStep ==
  ASSUME StreamInv, HandlePacket
  PROVE  StreamInv'
<1>1. /\ state = "parse"
      /\ UNCHANGED <<sizes, inFlight, buffer, readPos, writePos, len, lag, split, state>>
  BY DEF HandlePacket
<1>2. PICK f \in Nat, n \in Nat, k \in Nat, z \in Nat :
        /\ f = readPos + processLen /\ writePos = f + n /\ f + n <= Capacity
        /\ IsJoined(Unread, buffer, f, n, inFlight)
        /\ k = Len(received) + 1 /\ k \in 1 .. Len(sizes)
        /\ z = sizes[k] /\ z \in 1 .. n /\ processLen + z <= len
        /\ processLen' = processLen + z
        /\ received' = Append(received, [i \in 1 .. z |-> <<k, i>>])
        /\ \A i \in 1 .. z : Unread[i] = <<k, i>>
        /\ [i \in 1 .. z |-> <<k, i>>] \in Seq(Nat \X Nat)
        /\ Unread # <<>>
  BY PacketAtFront
<1>21. z \in 1 .. n
  BY <1>2
<1>22. 1 <= z /\ z <= n
  BY <1>21
<1>3. PICK h \in Nat, m \in Nat : h = Len(inFlight) /\ m = Len(sizes)
  BY StreamFacts
<1>4. received' \in Seq(Seq(Nat \X Nat)) /\ Len(received') = k
  <2>1. received \in Seq(Seq(Nat \X Nat))
    BY StreamFacts DEF StreamTypes
  <2> QED
    BY <1>2, <2>1, AppendProperties
<1>5. StreamTypes'
  <2>1. PICK p \in Nat : p = processLen
    BY StreamFacts DEF StreamTypes
  <2>2. processLen' = p + z
    BY <1>2, <2>1
  <2>3. processLen' \in Nat
    BY <2>2
  <2> QED
    BY <1>1, <1>4, <2>3, StreamFacts DEF StreamTypes, Capacity
<1>6. PICK u \in Seq(Nat \X Nat) : u = Unread
  BY <1>2 DEF IsJoined
<1>7. PICK l \in Nat : l = n + h /\ Len(u) = l /\ z <= l
  <2>1. Len(u) = n + h
    BY <1>2, <1>3, <1>6 DEF IsJoined
  <2> QED
    BY <1>22, <2>1
<1>8. IsJoined(Unread', buffer, f + z, n - z, inFlight)
  <2>1. f + z \in Nat /\ n - z \in Nat /\ f + z + (n - z) = f + n
    BY <1>22
  <2>2. readPos' + processLen' = f + z /\ writePos' = f + z + (n - z)
    <3>1. PICK p \in Nat, q \in Nat : p = readPos /\ q = processLen
      BY StreamFacts DEF StreamTypes
    <3>2. f = p + q /\ readPos' = p /\ processLen' = q + z /\ writePos' = f + n
      BY <1>1, <1>2, <3>1
    <3>3. p + (q + z) = f + z
      BY <1>22, <3>2
    <3> QED
      BY <2>1, <3>2, <3>3
  <2>3. \A i \in 1 .. f + z + (n - z) : buffer[i] \in Nat \X Nat
    <3>1. buffer \in [1 .. Capacity -> Nat \X Nat] /\ Capacity \in Nat
      BY StreamFacts DEF StreamTypes
    <3>2. \A i \in 1 .. f + n : i \in 1 .. Capacity
      BY <1>2, <3>1
    <3> QED
      BY <2>1, <3>1, <3>2
  <2>4. inFlight \in Seq(Nat \X Nat)
    BY StreamFacts DEF StreamTypes
  <2>5. buffer' = buffer /\ inFlight' = inFlight
    BY <1>1
  <2> QED
    BY <2>1, <2>2, <2>3, <2>4, <2>5, UnreadIsNext
<1>9. PICK v \in Seq(Nat \X Nat) : v = Unread'
  BY <1>8 DEF IsJoined
<1>10. Len(v) = l - z
  <2>1. Len(v) = n - z + h
    BY <1>3, <1>8, <1>9 DEF IsJoined
  <2> QED
    BY <1>7, <1>22, <2>1
<1>11. \A i \in 1 .. l - z : v[i] = u[z + i]
  <2> SUFFICES ASSUME NEW i \in 1 .. l - z PROVE v[i] = u[z + i]
    OBVIOUS
  <2>1. CASE i <= n - z
    <3>1. i \in 1 .. n - z /\ z + i \in 1 .. n /\ f + z + i = f + (z + i)
      BY <1>22, <2>1
    <3>2. v[i] = buffer[f + z + i] /\ u[z + i] = buffer[f + (z + i)]
      BY <1>2, <1>6, <1>8, <1>9, <3>1 DEF IsJoined
    <3> QED
      BY <3>1, <3>2
  <2>2. CASE ~(i <= n - z)
    <3>1. PICK j \in 1 .. h : i = n - z + j /\ z + i = n + j
      <4>1. /\ i - (n - z) \in 1 .. h /\ i = n - z + (i - (n - z))
            /\ z + i = n + (i - (n - z))
        BY <1>7, <1>22, <2>2
      <4> QED
        BY <4>1
    <3>2. v[n - z + j] = inFlight[j] /\ u[n + j] = inFlight[j]
      BY <1>2, <1>3, <1>6, <1>8, <1>9 DEF IsJoined
    <3> QED
      BY <3>1, <3>2
  <2> QED
    BY <2>1, <2>2
<1>12. /\ u[l] = <<m, sizes[m]>> /\ u[z] = <<k, z>>
       /\ \A i \in 1 .. l - 1 : u[i + 1] = ByteAfter(u[i])
       /\ \A i \in 1 .. l : u[i][1] \in 1 .. m
  <2>1. z \in 1 .. z
    BY <1>2
  <2> QED
    BY <1>1, <1>2, <1>3, <1>6, <1>7, <2>1
       DEF StreamInv, StreamIsKept, InOrder, BytesKnown
<1>13. ASSUME l # z
       PROVE  z + 1 \in 1 .. l /\ u[z + 1] = <<k + 1, 1>> /\ k + 1 \in 1 .. m
  <2>1. z \in 1 .. l - 1 /\ z + 1 \in 1 .. l
    BY <1>7, <1>13, <1>22
  <2>2. u[z + 1] = ByteAfter(<<k, z>>)
    BY <1>12, <2>1
  <2>3. u[z + 1] = <<k + 1, 1>>
    BY <1>2, <2>2 DEF ByteAfter
  <2> QED
    BY <1>12, <2>1, <2>3
<1>14. v = <<>> <=> k = m
  <2>1. v = <<>> <=> l = z
    <3>1. v = <<>> <=> Len(v) = 0
      BY EmptySeq
    <3> QED
      BY <1>7, <1>10, <1>22, <3>1
  <2>2. ASSUME l = z
        PROVE  k = m
    BY <1>12, <2>2
  <2>3. ASSUME l # z
        PROVE  k # m
    BY <1>3, <1>13, <2>3
  <2> QED
    BY <2>1, <2>2, <2>3
<1>15. ASSUME v # <<>>
       PROVE  v[1] = <<k + 1, 1>> /\ v[l - z] = <<m, sizes[m]>>
  <2>1. l # z
    <3>1. Len(v) # 0
      BY <1>15, EmptySeq
    <3> QED
      BY <1>7, <1>10, <3>1
  <2>2. 1 \in 1 .. l - z /\ l - z \in 1 .. l - z /\ z + (l - z) = l
    BY <1>7, <1>22, <2>1
  <2> QED
    BY <1>11, <1>12, <1>13, <2>1, <2>2
<1>16. \A i \in 1 .. l - z - 1 : v[i + 1] = ByteAfter(v[i])'
  <2> SUFFICES ASSUME NEW i \in 1 .. l - z - 1
               PROVE  v[i + 1] = ByteAfter(v[i])'
    OBVIOUS
  <2>1. /\ i \in 1 .. l - z /\ i + 1 \in 1 .. l - z
        /\ z + i \in 1 .. l - 1 /\ z + (i + 1) = z + i + 1
    BY <1>7, <1>22
  <2>2. v[i] = u[z + i] /\ v[i + 1] = u[z + (i + 1)]
    BY <1>11, <2>1
  <2>3. u[z + i + 1] = ByteAfter(u[z + i])
    BY <1>12, <2>1
  <2>4. sizes' = sizes
    BY <1>1
  <2> QED
    BY <2>1, <2>2, <2>3, <2>4 DEF ByteAfter
<1>17. InOrder'
  <2>1. Len(received') = k /\ Len(sizes') = m /\ sizes' = sizes /\ Len(v) = l - z
    BY <1>1, <1>3, <1>4, <1>10
  <2>2. \A i \in 1 .. Len(v) - 1 : v[i + 1] = ByteAfter(v[i])'
    BY <1>16, <2>1
  <2>3. v = <<>> <=> Len(received') = Len(sizes')
    BY <1>14, <2>1
  <2>4. v # <<>> => /\ v[1] = <<Len(received') + 1, 1>>
                    /\ v[Len(v)] = <<Len(sizes'), sizes'[Len(sizes')]>>
    BY <1>15, <2>1
  <2> QED
    BY <1>9, <2>2, <2>3, <2>4 DEF InOrder, ByteAfter
<1>18. BytesKnown'
  <2>1. ASSUME NEW i \in 1 .. l - z
        PROVE  v[i][1] \in 1 .. m
    <3>1. z + i \in 1 .. l
      BY <1>7, <1>22
    <3> QED
      BY <1>11, <1>12, <3>1
  <2> QED
    BY <1>1, <1>2, <1>3, <1>4, <1>9, <1>10, <2>1 DEF BytesKnown
<1>19. processLen' <= len' /\ len' <= DataSize' /\ DataSize' = DataSize
  BY <1>1, <1>2, StreamFacts DEF DataSize
<1>20. LoopOK'
  <2>1. /\ len > 0 /\ len + lag = DataSize /\ (~split => lag = 0)
        /\ ~split /\ First <= writePos =>
             buffer[writePos][2] = sizes[buffer[writePos][1]]
    BY <1>1 DEF StreamInv, LoopOK
  <2>2. First <= writePos
    BY <1>2 DEF First
  <2> QED
    BY <1>1, <1>19, <2>1, <2>2 DEF LoopOK
<1> QED
  BY <1>1, <1>5, <1>17, <1>18, <1>19, <1>20 DEF StreamInv, StreamIsKept, LoopOK

(* Clean changes where the data lies and not what it is.                   *)
LEMMA SameJoined ==
  ASSUME NEW u, NEW v, NEW b, NEW c, NEW f, NEW g, NEW n \in Nat, NEW r,
         IsJoined(u, b, f, n, r), IsJoined(v, c, g, n, r),
         \A i \in 1 .. n : c[g + i] = b[f + i]
  PROVE  v = u
<1>1. PICK h \in Nat : h = Len(r)
  BY DEF IsJoined
<1>2. /\ u \in Seq(Nat \X Nat) /\ v \in Seq(Nat \X Nat)
      /\ Len(u) = n + h /\ Len(v) = n + h
  BY <1>1 DEF IsJoined
<1>3. ASSUME NEW i \in 1 .. n + h
      PROVE  v[i] = u[i]
  <2>1. CASE i \in 1 .. n
    BY <2>1 DEF IsJoined
  <2>2. CASE i \notin 1 .. n
    <3>1. PICK j \in 1 .. h : i = n + j
      <4>1. i - n \in 1 .. h /\ i = n + (i - n)
        BY <2>2
      <4> QED
        BY <4>1
    <3> QED
      BY <1>1, <3>1 DEF IsJoined
  <2> QED
    BY <2>1, <2>2
<1> QED
  BY <1>2, <1>3, SeqEqual

(* What is left when no packet is whole: if no portion has ended inside a  *)
(* packet, nothing.                                                        *)
LEMMA NothingLeft ==
  ASSUME StreamInv, state = "parse",
         ~PacketIsWhole, ~split,
         NEW f \in Nat, NEW n \in Nat, f = readPos + processLen, writePos = f + n,
         n = len - processLen, IsJoined(Unread, buffer, f, n, inFlight)
  PROVE  n = 0
<1> SUFFICES ASSUME n # 0 PROVE FALSE
  OBVIOUS
<1>1. n \in Nat \ {0} /\ n \in 1 .. n
  OBVIOUS
<1>2. PICK k \in Nat : k = Len(received) + 1
  BY StreamFacts
<1>3. k \in 1 .. Len(sizes) /\ SizeAt(First) = sizes[k]
  BY <1>1, <1>2, NextPacket
<1>4. PICK z \in Nat : z = sizes[k] /\ z >= HeaderSize
  BY <1>3, StreamFacts
<1>5. n < z
  <2>1. HeaderSize \in Nat /\ ~(n >= HeaderSize /\ z <= n)
    BY <1>3, <1>4, StreamFacts DEF PacketIsWhole
  <2> QED
    BY <1>4, <2>1
<1>6. buffer[f + n] = <<k, n>>
  <2>1. n <= sizes[k]
    BY <1>4, <1>5
  <2> QED
    BY <1>1, <1>2, <2>1, NextPacket
<1>7. buffer[writePos][2] = sizes[buffer[writePos][1]]
  <2>1. First <= writePos
    <3>1. f + 1 <= f + n /\ First = f + 1
      BY <1>1 DEF First
    <3> QED
      BY <3>1
  <2> QED
    BY <2>1 DEF StreamInv, LoopOK
<1> QED
  BY <1>4, <1>5, <1>6, <1>7

(* The bytes the loop has not been through, before and after OnRead.       *)
LEMMA LeftBehind ==
  ASSUME StreamInv, OnRead
  PROVE  \E f, n \in Nat :
           /\ f = readPos + processLen /\ writePos = f + n /\ f + n <= Capacity
           /\ IsJoined(Unread, buffer, f, n, inFlight)
           /\ lag' = n /\ lag <= n /\ (~split => n = 0)
<1>1. /\ state = "parse" /\ ~PacketIsWhole
      /\ lag' = writePos - (readPos + processLen)
  BY DEF OnRead, ReadTo
<1>2. PICK f \in Nat, n \in Nat :
        /\ f = readPos + processLen /\ writePos = f + n /\ f + n <= Capacity
        /\ IsJoined(Unread, buffer, f, n, inFlight)
  BY StreamFacts, UnreadIs
<1>3. PICK p \in Nat, q \in Nat, g \in Nat, r \in Nat :
        p = processLen /\ q = len /\ g = lag /\ r = readPos
  BY StreamFacts DEF StreamTypes
<1>4. p <= q /\ q + g = f + n - r /\ f = r + p /\ (~split => g = 0)
  BY <1>1, <1>2, <1>3 DEF StreamInv, LoopOK, DataSize
<1>5. lag' = n
  BY <1>1, <1>2
<1>6. lag <= n /\ (lag = 0 => n = len - processLen)
  <2>1. g <= n /\ (g = 0 => n = q - p)
    BY <1>4
  <2> QED
    BY <1>3, <2>1
<1>7. ~split => n = 0
  BY <1>1, <1>2, <1>3, <1>4, <1>6, NothingLeft
<1> WITNESS f \in Nat, n \in Nat
<1> QED
  BY <1>2, <1>5, <1>6, <1>7

(* Clean keeps the data.                                                   *)
LEMMA Cleaned ==
  ASSUME StreamInv, OnRead,
         NEW f \in Nat, NEW n \in Nat, NEW c \in Nat,
         f = readPos + processLen, writePos = f + n, f + n <= c, c = Capacity
  PROVE  \E g \in Nat :
           /\ readPos' = g /\ writePos' = g + n /\ g + n <= c
           /\ buffer' \in [1 .. c -> Nat \X Nat]
           /\ \A i \in 1 .. n : buffer'[g + i] = buffer[f + i]
           /\ state' \in {"recv", "garbled"}
<1>1. Clean(f)
  BY DEF OnRead, ReadTo
<1>2. buffer \in [1 .. c -> Nat \X Nat]
  BY StreamFacts DEF StreamTypes
<1>3. CASE f = writePos /\ readPos' = 0 /\ writePos' = 0 /\ state' = "recv" /\ buffer' = buffer
  <2>1. n = 0
    BY <1>3
  <2>2. /\ readPos' = 0 /\ writePos' = 0 + n /\ 0 + n <= c
        /\ \A i \in 1 .. n : buffer'[0 + i] = buffer[f + i]
    BY <1>3, <2>1
  <2> QED
    BY <1>2, <1>3, <2>2
<1>4. CASE readPos' = f /\ state' = "recv" /\ UNCHANGED <<writePos, buffer>>
  <2>1. \A i \in 1 .. n : buffer'[f + i] = buffer[f + i]
    BY <1>4
  <2> QED
    BY <1>2, <1>4, <2>1
<1>5. CASE /\ readPos' = 0 /\ writePos' = writePos - f
           /\ buffer' = Moved(f, writePos - f)
           /\ state' \in IF writePos - f > f THEN {"recv", "garbled"} ELSE {"recv"}
  <2>1. writePos - f = n /\ 0 + n = n /\ n <= c
    OBVIOUS
  <2>2. buffer' = [i \in 1 .. c |-> IF i <= n THEN buffer[f + i] ELSE buffer[i]]
    BY <1>5, <2>1 DEF Moved
  <2>3. \A i \in 1 .. n : i \in 1 .. c /\ f + i \in 1 .. c /\ i <= n /\ 0 + i = i
    OBVIOUS
  <2>4. buffer' \in [1 .. c -> Nat \X Nat]
    <3> SUFFICES ASSUME NEW i \in 1 .. c
                 PROVE  (IF i <= n THEN buffer[f + i] ELSE buffer[i]) \in Nat \X Nat
      BY <2>2
    <3>1. CASE i <= n
      <4>1. f + i \in 1 .. c
        BY <3>1
      <4> QED
        BY <1>2, <3>1, <4>1
    <3>2. CASE ~(i <= n)
      BY <1>2, <3>2
    <3> QED
      BY <3>1, <3>2
  <2>5. \A i \in 1 .. n : buffer'[0 + i] = buffer[f + i]
    BY <2>2, <2>3
  <2>6. readPos' = 0 /\ writePos' = 0 + n /\ 0 + n <= c /\ state' \in {"recv", "garbled"}
    BY <1>5, <2>1
  <2> QED
    BY <2>4, <2>5, <2>6
<1> QED
  BY <1>1, <1>3, <1>4, <1>5 DEF Clean

LEMMA OnReadStep ==
  ASSUME StreamInv, OnRead
  PROVE  StreamInv'
<1>1. /\ state = "parse" /\ len' = 0 /\ processLen' = 0
      /\ UNCHANGED <<sizes, inFlight, received, split>>
  BY DEF OnRead
<1>2. PICK f \in Nat, n \in Nat :
        /\ f = readPos + processLen /\ writePos = f + n /\ f + n <= Capacity
        /\ IsJoined(Unread, buffer, f, n, inFlight)
        /\ lag' = n /\ lag <= n /\ (~split => n = 0)
  BY LeftBehind
<1>3. PICK c \in Nat : c = Capacity
  BY StreamFacts
<1>4. PICK g \in Nat :
        /\ readPos' = g /\ writePos' = g + n /\ g + n <= c
        /\ buffer' \in [1 .. c -> Nat \X Nat]
        /\ \A i \in 1 .. n : buffer'[g + i] = buffer[f + i]
        /\ state' \in {"recv", "garbled"}
  BY <1>2, <1>3, Cleaned
<1>5. StreamTypes'
  <2>1. g \in 0 .. g + n /\ g + n \in 0 .. c
    BY <1>4
  <2> QED
    BY <1>1, <1>2, <1>3, <1>4, <2>1, StreamFacts DEF StreamTypes, Capacity
<1>6. IsJoined(Unread', buffer', g, n, inFlight)
  <2>1. \A i \in 1 .. g + n : buffer'[i] \in Nat \X Nat
    <3>1. \A i \in 1 .. g + n : i \in 1 .. c
      BY <1>4
    <3> QED
      BY <1>4, <3>1
  <2>2. readPos' + processLen' = g /\ writePos' = g + n /\ inFlight' = inFlight
    BY <1>1, <1>4
  <2>3. inFlight \in Seq(Nat \X Nat)
    BY StreamFacts DEF StreamTypes
  <2> QED
    BY <2>1, <2>2, <2>3, UnreadIsNext
<1>7. Unread' = Unread
  BY <1>2, <1>4, <1>6, SameJoined
<1>8. InOrder' /\ BytesKnown'
  BY <1>1, <1>7, StreamStays
<1>9. DataSize' = n
  BY <1>4 DEF DataSize
<1>10. LoopOK'
  BY <1>1, <1>2, <1>4, <1>9 DEF LoopOK
<1> QED
  BY <1>1, <1>2, <1>5, <1>8, <1>9, <1>10 DEF StreamInv, StreamIsKept

LEMMA RecvNothingStep ==
  ASSUME StreamInv, RecvNothing
  PROVE  StreamInv'
<1>1. /\ state = "recv" /\ state' = "full"
      /\ UNCHANGED <<sizes, inFlight, buffer, readPos, writePos, len, processLen,
                     received, lag, split>>
  BY DEF RecvNothing
<1>2. /\ Unread' = Unread /\ DataSize' = DataSize
  BY <1>1 DEF Unread, Data, First, DataSize
<1>3. InOrder' /\ BytesKnown'
  BY <1>1, <1>2, StreamStays
<1>4. StreamTypes'
  BY <1>1 DEF StreamInv, StreamIsKept, StreamTypes, Capacity
<1> QED
  BY <1>1, <1>2, <1>3, <1>4 DEF StreamInv, StreamIsKept, LoopOK

LEMMA StreamStutter ==
  ASSUME StreamInv, UNCHANGED streamVars
  PROVE  StreamInv'
<1>1. UNCHANGED <<sizes, inFlight, buffer, readPos, writePos, len, processLen,
                  received, lag, split, state>>
  BY DEF streamVars
<1>2. /\ Unread' = Unread /\ DataSize' = DataSize
      /\ First' = First
  BY <1>1 DEF Unread, Data, First, DataSize
<1>3. state # "garbled" => InOrder' /\ BytesKnown'
  BY <1>1, <1>2, StreamStays
<1>4. StreamTypes'
  BY <1>1 DEF StreamInv, StreamIsKept, StreamTypes, Capacity
<1> QED
  BY <1>1, <1>2, <1>3, <1>4 DEF StreamInv, StreamIsKept, LoopOK

LEMMA StreamInvInit ==
  ASSUME StreamInit
  PROVE  StreamInv
<1> USE DEF StreamInit
<1>1. PICK c \in Nat : c = Capacity
  BY CapacityIsNat
<1>2. <<>> \in Seq(PacketSizes) /\ <<>> \in Seq(Nat \X Nat) /\ <<>> \in Seq(Seq(Nat \X Nat))
      /\ Len(<<>>) = 0
  OBVIOUS
<1>3. buffer \in [1 .. c -> Nat \X Nat]
  BY <1>1 DEF NoByte
<1>4. StreamTypes
  <2>1. 0 <= MaxPackets
    BY SizesAssumption
  <2>2. sizes \in Seq(PacketSizes) /\ Len(sizes) <= MaxPackets
    BY <1>2, <2>1
  <2>3. inFlight \in Seq(Nat \X Nat) /\ received \in Seq(Seq(Nat \X Nat))
    BY <1>2
  <2>4. writePos \in 0 .. c /\ readPos \in 0 .. writePos /\ state = "recv"
    OBVIOUS
  <2> QED
    BY <1>1, <1>3, <2>2, <2>3, <2>4 DEF StreamTypes
<1>5. IsJoined(Unread, buffer, 0, 0, inFlight)
  <2>1. DataSize = 0 /\ processLen <= DataSize
    BY DEF DataSize
  <2>2. PICK f \in Nat, n \in Nat :
          /\ f = readPos + processLen /\ writePos = f + n
          /\ IsJoined(Unread, buffer, f, n, inFlight)
    BY <1>4, <2>1, UnreadIs
  <2>3. f = 0 /\ n = 0
    BY <2>2
  <2> QED
    BY <2>2, <2>3
<1>6. Unread = <<>>
  <2>1. PICK u \in Seq(Nat \X Nat) : u = Unread
    BY <1>5 DEF IsJoined
  <2>2. Len(u) = 0
    BY <1>2, <1>5, <2>1 DEF IsJoined
  <2> QED
    BY <2>1, <2>2, EmptySeq
<1>7. InOrder
  BY <1>2, <1>6 DEF InOrder
<1>8. BytesKnown
  BY <1>2, <1>6 DEF BytesKnown
<1>9. DataSize = 0
  BY DEF DataSize
<1> QED
  BY <1>4, <1>7, <1>8, <1>9 DEF StreamInv, StreamIsKept, LoopOK

LEMMA StreamInvStep ==
  ASSUME StreamInv, [StreamNext]_streamVars
  PROVE  StreamInv'
<1>1. CASE \E size \in PacketSizes : ClientSend(size)
  BY <1>1, ClientSendStep
<1>2. CASE \E n \in 1 .. Len(inFlight) : OnWrite(n)
  BY <1>2, OnWriteStep
<1>3. CASE HandlePacket
  BY <1>3, HandlePacketStep
<1>4. CASE OnRead
  BY <1>4, OnReadStep
<1>5. CASE RecvNothing
  BY <1>5, RecvNothingStep
<1>6. CASE UNCHANGED streamVars
  BY <1>6, StreamStutter
<1> QED
  BY <1>1, <1>2, <1>3, <1>4, <1>5, <1>6 DEF StreamNext

(* The receive buffer's stream: every reachable state satisfies the        *)
(* inductive invariant, which is StreamIsKept with what len, lag and split *)
(* say of the bytes left in the buffer (ProcessRecv, OnRecv).              *)
THEOREM StreamInvariantHolds == StreamSpec => []StreamInv
<1>1. StreamInit => StreamInv
  BY StreamInvInit
<1>2. StreamInv /\ [StreamNext]_streamVars => StreamInv'
  BY StreamInvStep
<1> QED
  BY <1>1, <1>2, PTL DEF StreamSpec

(* However TCP cuts the stream, RecvBuffer keeps it in order, the loop of  *)
(* OnRecv stays inside what is there, and as long as no portion has ended  *)
(* inside a packet nothing is left behind.                                 *)
THEOREM StreamIsAlwaysKept == StreamSpec => []StreamIsKept
<1>1. StreamInv => StreamIsKept
  BY DEF StreamInv
<1> QED
  BY <1>1, StreamInvariantHolds, PTL

(* OnRecv is given only what has just come in: what a completion leaves in *)
(* the buffer never gets less.                                             *)
THEOREM LagOnlyGrows == StreamSpec => LagNeverShrinks
<1>1. StreamInv /\ [StreamNext]_streamVars => [lag' >= lag]_streamVars
  <2> SUFFICES ASSUME StreamInv, StreamNext PROVE lag' >= lag
    OBVIOUS
  <2>1. lag \in Nat
    BY DEF StreamInv, StreamIsKept, StreamTypes
  <2>2. CASE OnRead
    <3>1. PICK n \in Nat : lag' = n /\ lag <= n
      BY <2>2, LeftBehind
    <3> QED
      BY <2>1, <3>1
  <2>3. CASE ~OnRead
    <3>1. lag' = lag
      BY <2>3 DEF StreamNext, ClientSend, OnWrite, HandlePacket,
                  RecvNothing
    <3> QED
      BY <2>1, <3>1
  <2> QED
    BY <2>2, <2>3
<1> QED
  BY <1>1, StreamInvariantHolds, PTL DEF StreamSpec, LagNeverShrinks

(* OnRecvPacket is called with every packet the client sends, whole, once  *)
(* and in order: a step of the receive buffer is a step of PacketChannel   *)
(* or leaves what that sees as it is.                                      *)
THEOREM StreamImplementsPacketChannel == StreamSpec => ImplementsPacketChannel
<1>1. StreamInit => Channel!Init
  BY DEF StreamInit, Channel!Init
<1>2. StreamInv /\ [StreamNext]_streamVars => [Channel!Next]_(Channel!vars)
  <2> SUFFICES ASSUME StreamInv, [StreamNext]_streamVars
               PROVE  Channel!Next \/ UNCHANGED <<sizes, received>>
    BY DEF Channel!vars
  <2>1. CASE \E size \in PacketSizes : ClientSend(size)
    BY <2>1 DEF ClientSend, Channel!Next, Channel!Send
  <2>2. CASE HandlePacket
    <3>1. PICK k \in Nat, z \in Nat :
            /\ k = Len(received) + 1 /\ k \in 1 .. Len(sizes) /\ z = sizes[k]
            /\ received' = Append(received, [i \in 1 .. z |-> <<k, i>>])
      BY <2>2, PacketAtFront
    <3>2. sizes' = sizes
      BY <2>2 DEF HandlePacket
    <3>3. Len(received) < Len(sizes)
      BY <3>1, StreamFacts
    <3> QED
      BY <3>1, <3>2, <3>3
         DEF Channel!Next, Channel!Receive, Channel!Bytes
  <2>3. CASE ~HandlePacket /\ ~(\E size \in PacketSizes : ClientSend(size))
    BY <2>3 DEF StreamNext, OnWrite, OnRead, RecvNothing, streamVars
  <2> QED
    BY <2>1, <2>2, <2>3
<1> QED
  BY <1>1, <1>2, StreamInvariantHolds, PTL
     DEF StreamSpec, ImplementsPacketChannel, Channel!Spec
==============================================================================
