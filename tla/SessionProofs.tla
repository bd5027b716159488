---------------------------- MODULE SessionProofs ----------------------------
(***************************************************************************)
(* Proofs about the life of a session (module Session): the order of its   *)
(* shutdown, what the handlers keep to while it is going on, and that the  *)
(* session as a whole still implements the room of module ChatRoom.        *)
(***************************************************************************)
EXTENDS Session, RoomProofs, DeliveryProofs

\* The message loop, the shutdown goroutine and Run leave in this order.
THEOREM ShutdownOrdered == SessionSpec => []ShutdownInOrder
<1>1. SessionInit => ShutdownInOrder
  BY DEF SessionInit, ShutdownInOrder
<1>2. ShutdownInOrder /\ [SessionNext]_sessionVars => ShutdownInOrder'
  <2>. SUFFICES ASSUME ShutdownInOrder, [SessionNext]_sessionVars
                PROVE  ShutdownInOrder'
    OBVIOUS
  <2>. USE DEF ShutdownInOrder
  <2>1. CASE UNCHANGED <<acceptor, loop, closer>>
    BY <2>1
  <2>2. ASSUME NEW c \in Conns, AcceptConn(c)
        PROVE  ShutdownInOrder'
    BY <2>2 DEF AcceptConn, Running
  <2>3. ASSUME NEW c \in Conns, LoopServes(c) \/ HandlerStep(c) \/ OtherStep(c)
        PROVE  UNCHANGED <<acceptor, loop, closer>>
    BY <2>3 DEF LoopServes, HandlerStep, OtherStep, lifeVars
  <2>4. CASE StopTimer
    BY <2>4 DEF StopTimer, Running
  <2>5. CASE AcceptFails
    BY <2>5 DEF AcceptFails, Running
  <2>6. CASE TimerFires
    BY <2>6 DEF TimerFires
  <2>7. CASE ReceiveTick
    BY <2>7 DEF ReceiveTick
  <2>8. CASE TriggerShutdown
    BY <2>8 DEF TriggerShutdown
  <2>9. CASE CloseListener
    BY <2>9 DEF CloseListener
  <2>10. CASE SendSignal
    BY <2>10 DEF SendSignal, Running
  <2>11. CASE UNCHANGED sessionVars
    BY <2>1, <2>11 DEF sessionVars, lifeVars
  <2>. QED
    BY <2>1, <2>2, <2>3, <2>4, <2>5, <2>6, <2>7, <2>8, <2>9, <2>10, <2>11 DEF SessionNext
<1>. QED BY <1>1, <1>2, PTL DEF SessionSpec

-----------------------------------------------------------------------------
\* The handlers in a session.

\* The parts of the handlers' invariant that hold whatever ends the process: Run may
\* panic, too.
SessionInv ==
  /\ SessionTypeOK
  /\ HandlerInv
  /\ CheckedInv
  /\ AccountInv
  /\ SelectionIsValid
  /\ SendersAreRegistered
  /\ HistoryPanicExplained
  /\ OnlyBackendPanics \/ panic = "Run"

\* Before it does, this is the invariant of the handlers.
LEMMA SessionInvAlive ==
  ASSUME SessionInv, panic = NoPanic
  PROVE  IInv
BY DEF SessionInv, SessionTypeOK, OnlyBackendPanics, IInv

\* A step of a session is a step of a handler, one of the session's own goroutines, or
\* Run dereferencing a connection that is nil.
LEMMA SessionSteps ==
  ASSUME [SessionNext]_sessionVars
  PROVE  \/ UNCHANGED vars
         \/ panic = NoPanic /\ Next
         \/ /\ panic = NoPanic /\ panic' = "Run"
            /\ UNCHANGED <<backendVars, connVars, readerVars>>
<1>1. ASSUME NEW c \in Conns, AcceptConn(c) \/ LoopServes(c) \/ HandlerStep(c)
                                \/ OtherStep(c)
      PROVE  panic = NoPanic /\ Next
  <2>1. Step(c)
    BY <1>1 DEF AcceptConn, LoopServes, HandlerStep, OtherStep, Step
  <2>. QED BY <2>1, NoStepAfterPanic DEF Next
<1>2. CASE AcceptFails
  BY <1>2 DEF AcceptFails, Panic, Running, vars
<1>3. CASE \/ StopTimer \/ TimerFires \/ ReceiveTick \/ TriggerShutdown \/ SendSignal
           \/ CloseListener
  BY <1>3 DEF StopTimer, TimerFires, ReceiveTick, TriggerShutdown, SendSignal,
     CloseListener
<1>4. CASE UNCHANGED sessionVars
  BY <1>4 DEF sessionVars
<1>. QED BY <1>1, <1>2, <1>3, <1>4 DEF SessionNext

\* The session's own variables keep their types.
LEMMA LifeType ==
  ASSUME SessionTypeOK, [SessionNext]_sessionVars
  PROVE  /\ acceptor' \in {"accept", "stopTimer", "returned"}
         /\ timer' \in {"armed", "stopped"}
         /\ tick' \in BOOLEAN
         /\ loop' \in {"select", "trigger", "exited"}
         /\ closer' \in {"wait", "triggered", "sending", "close", "done"}
<1>. USE DEF SessionTypeOK
<1>1. ASSUME NEW c \in Conns, AcceptConn(c)
      PROVE  acceptor' = "stopTimer" /\ UNCHANGED <<timer, tick, loop, closer>>
  BY <1>1 DEF AcceptConn
<1>2. ASSUME NEW c \in Conns, LoopServes(c) \/ HandlerStep(c) \/ OtherStep(c)
      PROVE  timer' \in {"armed", timer} /\ UNCHANGED <<acceptor, tick, loop, closer>>
  BY <1>2 DEF LoopServes, HandlerStep, OtherStep, lifeVars
<1>3. CASE \/ StopTimer \/ TimerFires \/ ReceiveTick \/ TriggerShutdown \/ SendSignal
           \/ CloseListener
  BY <1>3 DEF StopTimer, TimerFires, ReceiveTick, TriggerShutdown, SendSignal,
     CloseListener
<1>4. CASE AcceptFails
  BY <1>4 DEF AcceptFails
<1>5. CASE UNCHANGED sessionVars
  BY <1>5 DEF sessionVars, lifeVars
<1>. QED BY <1>1, <1>2, <1>3, <1>4, <1>5 DEF SessionNext

\* The invariant holds at the start.
LEMMA SessionInvInit == SessionInit => SessionInv
BY InitIInv DEF SessionInit, SessionInv, SessionTypeOK, IInv

\* Every step of a session keeps it.
LEMMA SessionInvNext == SessionInv /\ [SessionNext]_sessionVars => SessionInv'
<1>. SUFFICES ASSUME SessionInv, [SessionNext]_sessionVars PROVE SessionInv'
  OBVIOUS
<1>0. ASSUME TypeOK' PROVE SessionTypeOK'
  BY <1>0, LifeType DEF SessionInv, SessionTypeOK
<1>1. CASE panic = NoPanic /\ [Next]_vars
  <2>1. IInv'
    BY <1>1, SessionInvAlive, NextIInv
  <2>. QED BY <1>0, <2>1 DEF IInv, SessionInv
<1>2. CASE /\ panic' \in {panic, "Run"}
           /\ panic' # panic => panic = NoPanic /\ panic' = "Run"
           /\ UNCHANGED <<backendVars, connVars, readerVars>>
  <2>. USE DEF SessionInv, SessionTypeOK
  <2>1. TypeOK'
    BY <1>2, BackendFrame, ConnFrame
       DEF TypeOK, HandlerTypeOK, readerVars, Panics
  <2>2. HandlerInv'
    BY <1>2 DEF HandlerInv, Placed, InLogin, IsConnected, connVars, readerVars
  <2>3. AccountInv' /\ SendersAreRegistered'
    BY <1>2 DEF AccountInv, SendersAreRegistered, Enrolled, IsConnected,
       HasParticipant, backendVars, connVars, readerVars
  <2>4. SelectionIsValid' /\ CheckedInv'
    BY <1>2 DEF SelectionIsValid, CheckedInv, Prepared, HasChannel, IsConnected,
       backendVars, connVars, readerVars
  <2>5. HistoryPanicExplained' /\ (OnlyBackendPanics \/ panic = "Run")'
    BY <1>2 DEF HistoryPanicExplained, OnlyBackendPanics, HasChannel, backendVars,
       readerVars
  <2>. QED BY <1>0, <2>1, <2>2, <2>3, <2>4, <2>5
<1>. QED BY <1>1, <1>2, SessionSteps DEF vars

\* So it holds throughout.
THEOREM SessionInvariant == SessionSpec => []SessionInv
BY SessionInvInit, SessionInvNext, PTL DEF SessionSpec

\* Every variable of a session, its handlers', its timer's and its goroutines', keeps
\* its type.
THEOREM SessionTypes == SessionSpec => []SessionTypeOK
<1>1. SessionInv => SessionTypeOK
  BY DEF SessionInv
<1>. QED BY <1>1, SessionInvariant, PTL

\* Whoever blocks in sendMsg stays blocked until the message loop receives: no step of
\* any handler, client or timer takes the message back.
LEMMA SendersWait ==
  ASSUME TypeOK, NEW c \in Conns,
         Accept(c) \/ Client(c) \/ Handler(c) \/ IdleProceeds(c),
         NEW d \in Conns, outbox[d] # NoMsg
  PROVE  outbox'[d] = outbox[d]
<1>. DEFINE Sends == outbox[c] = NoMsg /\ \E message : Send(c, message)
<1>1. outbox \in [Conns -> Outgoing]
  BY DEF TypeOK, HandlerTypeOK
<1>2. CASE Accept(c)
  BY <1>1, <1>2 DEF Accept, At, Send
<1>3. CASE Client(c) \/ IdleProceeds(c)
  <2>1. UNCHANGED outbox \/ Sends
    BY <1>3 DEF Client, ReadLine, ReadEOF, ReadReset, ReadFails, NextIteration,
       IdleExpires, IdleProceeds, At, readerVars
  <2>. QED BY <1>1, <2>1 DEF Send
<1>4. CASE Handler(c)
  <2>1. outbox[c] = NoMsg
    BY <1>4 DEF Handler, ReadClosed, ProcessCommand, OnJoining, Callback,
       OnRegisterParticipant, OnAuthParticipant, SubmitPassword, Register,
       DisplayHistory, Mark, OnCreateChannelName, OnCreateChannelDesc, CreateChannel,
       OnSelectChannel, ShowChannelHistory, OnAcceptMessages, OnDisconnect,
       CheckEmpty, ResetShutdownTimer, At
  <2>2. UNCHANGED outbox \/ \E message : Send(c, message)
    BY <1>4 DEF Handler, ReadClosed, ReadFails, ProcessCommand, OnJoining, ReadField,
       OnRegisterParticipant, OnAuthParticipant, SubmitPassword, Register,
       DisplayHistory, Mark, OnCreateChannelName, OnCreateChannelDesc, CreateChannel,
       OnSelectChannel, ShowChannelHistory, OnAcceptMessages, SendChat, OnDisconnect,
       CheckEmpty, ResetShutdownTimer, NextIteration, readerVars
  <2>. QED BY <1>1, <2>1, <2>2 DEF Send
<1>. QED BY <1>2, <1>3, <1>4

\* A handler gets as far as the mark only by reading the history, and sends it first.
LEMMA MarkAfterHistory ==
  ASSUME TypeOK, NEW c \in Conns, Handler(c), pc[c] # "mark", pc'[c] = "mark"
  PROVE  outbox'[c] # NoMsg
<1>1. pc \in [Conns -> Points] /\ outbox \in [Conns -> Outgoing]
  BY DEF TypeOK, HandlerTypeOK
<1>2. CASE DisplayHistory(c)
  BY <1>1, <1>2 DEF DisplayHistory, Send, HistoryMsg, NoMsg
<1>3. CASE ~DisplayHistory(c)
  <2>1. UNCHANGED pc \/ \E point : Continue(c, point) /\ point # "mark"
    BY <1>3 DEF Handler, ReadClosed, ReadFails, ProcessCommand, OnJoining, ReadField,
       OnRegisterParticipant, OnAuthParticipant, SubmitPassword, Register, Mark,
       OnCreateChannelName, OnCreateChannelDesc, CreateChannel, OnSelectChannel,
       ShowChannelHistory, OnAcceptMessages, OnDisconnect, CheckEmpty,
       ResetShutdownTimer, NextIteration, readerVars
  <2>. QED BY <1>1, <2>1 DEF Continue
<1>. QED BY <1>2, <1>3

\* Without the message loop, whoever has not been sent the history is not let in.
LEMMA OutsideStays ==
  ASSUME TypeOK, NEW c \in Conns,
         Accept(c) \/ Client(c) \/ Handler(c) \/ IdleProceeds(c),
         NEW d \in Conns, Outside(d)
  PROVE  Outside(d)'
<1>1. Step(c)
  BY DEF Step
<1>2. pc \in [Conns -> Points]
  BY DEF TypeOK, HandlerTypeOK
<1>3. ~IsConnected(d)'
  <2>1. CASE d = c
    <3>1. ~Mark(c)
      BY <2>1 DEF Mark, At, Outside
    <3>. QED BY <1>1, <2>1, <3>1, ConnectedByMark DEF Outside
  <2>2. CASE d # c
    <3>1. ~IsConnected(d)
      BY DEF Outside
    <3>. QED BY <1>1, <2>2, <3>1, ConnStateFrame DEF IsConnected
  <2>. QED BY <2>1, <2>2
<1>4. CASE pc[d] = "mark"
  <2>1. outbox[d] # NoMsg
    BY <1>4 DEF Outside
  <2>. QED BY <1>3, <2>1, SendersWait DEF Outside
<1>5. CASE pc[d] # "mark"
  <2>1. CASE d # c
    BY <1>1, <1>3, <1>5, <2>1, PcFrame DEF Outside
  <2>2. CASE d = c /\ Handler(c)
    BY <1>3, <1>5, <2>2, MarkAfterHistory DEF Outside
  <2>3. CASE d = c /\ ~Handler(c)
    <3>1. \/ UNCHANGED pc
          \/ \E point \in {"read", "process", "disconnect"} : Continue(c, point)
      BY <2>3 DEF Accept, Client, ReadLine, ReadEOF, ReadReset, ReadFails, NextIteration,
         IdleExpires, IdleProceeds, readerVars
    <3>. QED BY <1>2, <1>3, <1>5, <2>3, <3>1 DEF Outside, Continue
  <2>. QED BY <2>1, <2>2, <2>3
<1>. QED BY <1>4, <1>5

\* From the tick of the shutdown timer on, nobody is let into the chat who has not been
\* sent the history yet: the loop that would receive it is gone.
THEOREM NobodyEnters == SessionSpec => NobodyEntersInShutdown
<1>. DEFINE Closed == loop # "select" => \A c \in Conns : Outside(c) => Outside(c)'
<1>1. ASSUME SessionInv, [SessionNext]_sessionVars PROVE Closed
  <2>. SUFFICES ASSUME loop # "select", NEW d \in Conns, Outside(d)
                PROVE  Outside(d)'
    OBVIOUS
  <2>1. TypeOK
    BY <1>1 DEF SessionInv, SessionTypeOK
  <2>2. ASSUME NEW c \in Conns, LoopServes(c) PROVE FALSE
    BY <2>2 DEF LoopServes
  <2>3. ASSUME NEW c \in Conns, AcceptConn(c) \/ HandlerStep(c) \/ OtherStep(c)
        PROVE  Outside(d)'
    BY <2>1, <2>3, OutsideStays DEF AcceptConn, HandlerStep, OtherStep
  <2>4. CASE \/ AcceptFails \/ StopTimer \/ TimerFires \/ ReceiveTick
             \/ TriggerShutdown \/ SendSignal \/ CloseListener \/ UNCHANGED sessionVars
    BY <2>4 DEF AcceptFails, StopTimer, TimerFires, ReceiveTick, TriggerShutdown,
       SendSignal, CloseListener, sessionVars, vars, connVars, readerVars, Outside,
       IsConnected
  <2>. QED BY <1>1, <2>2, <2>3, <2>4 DEF SessionNext
<1>. QED BY <1>1, SessionInvariant, PTL DEF NobodyEntersInShutdown, SessionSpec

\* A session as a whole implements the room: that Run may panic, time out or return
\* brings the room down or to rest, and changes nothing in it.
THEOREM SessionImplementsRoom == SessionSpec => ImplementsChatRoom
<1>1. SessionInit => Room!Init
  BY RoomInit DEF SessionInit
<1>2. SessionInv /\ [SessionNext]_sessionVars => [Room!Next]_(Room!vars)
  <2>. SUFFICES ASSUME SessionInv, [SessionNext]_sessionVars
                PROVE  [Room!Next]_(Room!vars)
    OBVIOUS
  <2>1. CASE UNCHANGED vars
    BY <2>1 DEF vars, backendVars, connVars, readerVars, Room!vars, Place, NameInRoom,
       Inside, IsConnected
  <2>2. CASE panic = NoPanic /\ Next
    BY <2>2, SessionInvAlive, RoomStep
  <2>3. CASE /\ panic = NoPanic /\ panic' = "Run"
             /\ UNCHANGED <<backendVars, connVars, readerVars>>
    <3>1. UNCHANGED <<participants, chatHistory, [d \in Conns |-> Place(d)],
                      [d \in Conns |-> NameInRoom(d)]>>
      BY <2>3 DEF backendVars, connVars, readerVars, Place, NameInRoom, Inside,
         IsConnected
    <3>. QED BY <2>3, <3>1 DEF Room!Crash, Room!Next, NoPanic
  <2>. QED BY <2>1, <2>2, <2>3, SessionSteps
<1>. QED BY <1>1, <1>2, SessionInvariant, PTL
        DEF SessionSpec, ImplementsChatRoom, Room!Spec

-----------------------------------------------------------------------------
\* What one handler that hangs does to the session.

\* A handler is about to reset the timer only if it has found the map empty.
LEMMA ResetIfEmpty ==
  ASSUME TypeOK, NEW c \in Conns, Step(c), NEW d \in Conns, pc'[d] = "resetTimer"
  PROVE  pc[d] = "resetTimer" \/ connMap = {}
<1>1. pc \in [Conns -> Points]
  BY DEF TypeOK, HandlerTypeOK
<1>2. CASE CheckEmpty(c)
  BY <1>1, <1>2 DEF CheckEmpty, Continue
<1>3. CASE ~CheckEmpty(c)
  <2>1. UNCHANGED pc \/ \E point : Continue(c, point) /\ point # "resetTimer"
    BY <1>3 DEF Step, Accept, Client, ReadLine, ReadEOF, ReadReset, IdleExpires,
       Handler, ReadClosed, ReadFails, ProcessCommand, OnJoining, OnRegisterParticipant,
       OnAuthParticipant, SubmitPassword, ReadField, Register, DisplayHistory, Mark,
       OnCreateChannelName, OnCreateChannelDesc, CreateChannel, OnSelectChannel,
       ShowChannelHistory, OnAcceptMessages, OnDisconnect, ResetShutdownTimer,
       ProcessMessages, Receive, Broadcast, IdleProceeds, NextIteration, readerVars
  <2>. QED BY <1>1, <2>1 DEF Continue
<1>. QED BY <1>2, <1>3

\* With the timer stopped and nobody about to reset it, it stays stopped, and the
\* message loop where it is.
LEMMA TimerStays ==
  ASSUME [SessionNext]_sessionVars, timer = "stopped", ~tick, loop = "select",
         \A c \in Conns : pc[c] # "resetTimer"
  PROVE  UNCHANGED <<timer, tick, loop>>
<1>1. ASSUME NEW c \in Conns, AcceptConn(c) \/ LoopServes(c) \/ HandlerStep(c)
                                \/ OtherStep(c)
      PROVE  UNCHANGED <<timer, tick, loop>>
  BY <1>1 DEF AcceptConn, LoopServes, HandlerStep, OtherStep, lifeVars
<1>2. CASE \/ StopTimer \/ AcceptFails \/ TimerFires \/ ReceiveTick \/ TriggerShutdown
           \/ SendSignal \/ CloseListener \/ UNCHANGED sessionVars
  BY <1>2 DEF StopTimer, AcceptFails, TimerFires, ReceiveTick, TriggerShutdown,
     SendSignal, CloseListener, sessionVars, lifeVars
<1>. QED BY <1>1, <1>2 DEF SessionNext

\* One handler that hangs in a session whose timer is stopped keeps it up for good.
THEOREM HeldUpByOne == SessionSpec => HeldUpForGood
<1>1. ASSUME SessionInv, [SessionNext]_sessionVars, HeldUp PROVE HeldUp'
  <2>1. TypeOK /\ HandlerInv
    BY <1>1 DEF SessionInv, SessionTypeOK
  <2>2. PICK c \in Conns : Hung(c)
    BY <1>1 DEF HeldUp
  <2>3. c \in connMap
    BY <2>1, <2>2 DEF HandlerInv, Placed, Hung
  <2>4. Hung(c)' /\ \A d \in Conns : pc'[d] # "resetTimer"
    <3>1. CASE panic = NoPanic /\ Next
      BY <1>1, <2>1, <2>2, <2>3, <3>1, HungStep, ResetIfEmpty DEF Next, HeldUp
    <3>2. CASE UNCHANGED <<connVars, readerVars>>
      BY <1>1, <2>2, <3>2 DEF Hung, HeldUp, connVars, readerVars
    <3>. QED BY <1>1, <3>1, <3>2, SessionSteps DEF vars
  <2>5. UNCHANGED <<timer, tick, loop>>
    BY <1>1, TimerStays DEF HeldUp
  <2>. QED BY <1>1, <2>4, <2>5 DEF HeldUp
<1>. QED BY <1>1, SessionInvariant, PTL DEF HeldUpForGood, SessionSpec

-----------------------------------------------------------------------------
\* What the participants of a session can rely on, until Run returns or panics.

\* The name other goroutines read stays as it is: the end of a session touches nobody.
THEOREM SessionNamesAreFixed ==
  SessionSpec => [][\A c \in Conns : IsConnected(c) =>
                      IsConnected(c)' /\ participant[c]' = participant[c]]_sessionVars
<1>. DEFINE Fixed == \A c \in Conns :
              IsConnected(c) => IsConnected(c)' /\ participant[c]' = participant[c]
<1>1. ASSUME SessionInv, [SessionNext]_sessionVars PROVE Fixed
  <2>1. CASE panic = NoPanic /\ Next
    <3>1. TypeOK /\ HandlerInv
      BY <1>1 DEF SessionInv, SessionTypeOK
    <3>. QED BY <2>1, <3>1, ConnectedStays DEF Next
  <2>2. CASE UNCHANGED connVars
    BY <2>2 DEF connVars, IsConnected
  <2>. QED BY <1>1, <2>1, <2>2, SessionSteps DEF vars
<1>. QED BY <1>1, SessionInvariant, PTL DEF SessionSpec

\* The end of a session delivers nothing, and loses nothing but what is on its way.
LEMMA SessionDelivery ==
  SessionInv /\ DeliveryInv /\ AirInv /\ [SessionNext]_sessionVars
    => DeliveryInv' /\ AirInv'
<1>. SUFFICES ASSUME SessionInv, DeliveryInv, AirInv, [SessionNext]_sessionVars
              PROVE  DeliveryInv' /\ AirInv'
  OBVIOUS
<1>1. CASE panic = NoPanic /\ Next
  BY <1>1, SessionInvAlive, NextDelivery, NextAir
<1>2. CASE UNCHANGED <<backendVars, connVars, readerVars>>
  <2>1. SpeakerInv' /\ OneInHand' /\ ReceivedInv'
    BY <1>2 DEF DeliveryInv, SpeakerInv, OneInHand, ReceivedInv, Speaking, Heard,
       InFlight, InHistory, Following, InOrder, IsConnected, backendVars, connVars,
       deliveryVars, readerVars
  <2>2. HeardInv'
    BY <1>2, HeardKept DEF DeliveryInv, Speaking, IsConnected, backendVars, connVars,
       deliveryVars, readerVars
  <2>3. ShownInv'
    BY <1>2 DEF DeliveryInv, ShownInv, BeginsHistory, Overlap, backendVars, connVars,
       deliveryVars, readerVars
  <2>4. AirInv'
    BY <1>2 DEF AirInv, MissesNothing, Owed, NamesApart, OnAir, Speaking, Heard,
       InFlight, IsConnected, backendVars, connVars, deliveryVars, readerVars
  <2>. QED BY <2>1, <2>2, <2>3, <2>4 DEF DeliveryInv
<1>. QED BY <1>1, <1>2, SessionSteps DEF vars

\* The invariants of what is read hold throughout a session.
THEOREM SessionReads == SessionSpec => [](DeliveryInv /\ AirInv)
<1>1. SessionInit => DeliveryInv /\ AirInv
  BY InitDelivery, InitAir DEF SessionInit
<1>. QED BY <1>1, SessionDelivery, SessionInvariant, PTL DEF SessionSpec

\* Whatever timer, tick or error of Accept interferes, a participant misses nothing that
\* others store after it was marked but what is on its way (for good, once the message
\* loop is gone), and reads at most one message of each sender twice.
THEOREM SessionDelivers == SessionSpec => [](LiveDelivery /\ AtMostOneRepeated)
<1>1. SessionInv /\ DeliveryInv /\ AirInv => LiveDelivery /\ AtMostOneRepeated
  BY FollowsAlike, ShownOnce DEF SessionInv, SessionTypeOK
<1>. QED BY <1>1, SessionInvariant, SessionReads, PTL

\* Nor can any of that connect two clients under one name, or one without an account.
THEOREM SessionParticipants == SessionSpec => [](ConnectedIsRegistered /\ UniqueUsernames)
<1>1. SessionInv => ConnectedIsRegistered /\ UniqueUsernames
  BY DEF SessionInv, HandlerInv, Placed, AccountInv, Enrolled, ConnectedIsRegistered,
     UniqueUsernames
<1>. QED BY <1>1, SessionInvariant, PTL

=============================================================================
