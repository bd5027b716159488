----------------------------- MODULE RoomProofs -----------------------------
(***************************************************************************)
(* The handlers of module Reader implement the room of module ChatRoom:    *)
(* the initial states are the room's, and every step of a handler, an idle *)
(* timer or the message loop is a step of the room or changes nothing in   *)
(* it.                                                                     *)
(***************************************************************************)
EXTENDS ReaderProofs

\* The steps that the room sees: a registration, a mark, a message and a
\* disconnection.
Visible(c) == Register(c) \/ Mark(c) \/ OnAcceptMessages(c) \/ OnDisconnect(c)

\* A step of one handler moves no other client in the room, nor renames it.
LEMMA OthersStay ==
  ASSUME TypeOK, NEW c \in Conns, Step(c), NEW d \in Conns, d # c
  PROVE  Place(d)' = Place(d) /\ NameInRoom(d)' = NameInRoom(d)
<1>1. /\ pc'[d] = pc[d]
      /\ connState'[d] = connState[d]
      /\ d \in connMap' <=> d \in connMap
      /\ participant'[d] = participant[d]
  BY PcFrame, ConnStateFrame, ConnMapFrame, ParticipantFrame
<1>. QED BY <1>1 DEF Place, NameInRoom, Inside, IsConnected

\* What the program counter of a handler does in a step the room does not see.
LEMMA InvisiblePc ==
  ASSUME TypeOK, NEW c \in Conns, Step(c), ~Visible(c)
  PROVE  \/ pc'[c] = pc[c]
         \/ /\ pc[c] \notin {"history", "mark", "checkEmpty", "resetTimer", "done"}
            /\ pc'[c] \notin {"history", "mark", "checkEmpty", "resetTimer", "done"}
         \/ pc[c] = "history" /\ pc'[c] = "mark"
         \/ pc[c] \in {"checkEmpty", "resetTimer"} /\ pc'[c] \in {"resetTimer", "done"}
<1>0. pc \in [Conns -> Points]
  BY DEF TypeOK, HandlerTypeOK
<1>1. CASE DisplayHistory(c)
  BY <1>0, <1>1 DEF DisplayHistory, At, Continue
<1>2. CASE CheckEmpty(c) \/ ResetShutdownTimer(c)
  BY <1>0, <1>2 DEF CheckEmpty, ResetShutdownTimer, At, Continue
<1>3. CASE SubmitPassword(c)
  <2>1. pc[c] = "process" /\ state[c] \in {"Registration", "Authentication"}
    BY <1>3 DEF SubmitPassword, Callback, At
  <2>2. \/ Continue(c, "register")
        \/ \E s, t, r : NextIteration(c, s, t, r)
    BY <1>3, <2>1, NobodyAuthenticates DEF SubmitPassword, CredentialsValid
  <2>. QED BY <1>0, <2>1, <2>2, IterationOwn DEF Continue
<1>4. CASE ~(DisplayHistory(c) \/ CheckEmpty(c) \/ ResetShutdownTimer(c)
             \/ SubmitPassword(c))
  <2>. DEFINE hidden == {"history", "mark", "checkEmpty", "resetTimer", "done"}
  <2>1. \/ UNCHANGED pc
        \/ pc[c] \notin hidden /\ \E point : point \notin hidden /\ Continue(c, point)
    BY <1>4 DEF Visible, Step, Accept, Client, ReadLine, ReadEOF, ReadReset,
       IdleExpires, Handler, ReadClosed, ReadFails, ProcessCommand, OnJoining,
       ReadField, OnRegisterParticipant, OnAuthParticipant, OnCreateChannelName,
       OnCreateChannelDesc, CreateChannel, OnSelectChannel, ShowChannelHistory,
       ProcessMessages, Receive, Broadcast, IdleProceeds, NextIteration, Callback, At,
       readerVars
  <2>. QED BY <1>0, <2>1 DEF Continue
<1>. QED BY <1>1, <1>2, <1>3, <1>4

\* In a step the room does not see, the client stays where it is, under its name, and
\* neither accounts nor log change.
LEMMA InvisibleStep ==
  ASSUME IInv, NEW c \in Conns, Step(c), ~Visible(c)
  PROVE  /\ Place(c)' = Place(c) /\ NameInRoom(c)' = NameInRoom(c)
         /\ UNCHANGED <<participants, chatHistory>>
<1>1. TypeOK /\ Placed(c) /\ Placed(c)'
  BY OwnPlaced DEF IInv, HandlerInv
<1>2. UNCHANGED connState
  BY DEF Visible, Step, Accept, Client, ReadLine, ReadEOF, ReadReset, IdleExpires,
     Handler, ReadClosed, ReadFails, ProcessCommand, OnJoining, ReadField,
     OnRegisterParticipant, OnAuthParticipant, SubmitPassword, DisplayHistory,
     OnCreateChannelName, OnCreateChannelDesc, CreateChannel, OnSelectChannel,
     ShowChannelHistory, CheckEmpty, ResetShutdownTimer, ProcessMessages, Receive,
     Broadcast, IdleProceeds, IdleTimeout, IdleCancel, IdleReturn, connVars
<1>3. Place(c)' = Place(c)
  BY <1>1, <1>2, InvisiblePc DEF Place, Inside, IsConnected, Placed, InLogin
<1>4. NameInRoom(c)' = NameInRoom(c)
  <2>1. CASE participant'[c] = participant[c]
    BY <1>3, <2>1 DEF NameInRoom
  <2>2. CASE ~Enrolled(c)'
    <3>1. Place(c)' \notin {"entering", "inside"}
      BY <2>2 DEF Enrolled, Place, Inside, IsConnected
    <3>. QED BY <1>3, <3>1 DEF NameInRoom
  <2>. QED BY <1>1, <2>1, <2>2, ParticipantWriters
<1>5. UNCHANGED participants
  BY AccountFrame DEF Visible
<1>6. UNCHANGED chatHistory
  <2>1. CASE OnCreateChannelName(c)
    BY <2>1 DEF OnCreateChannelName
  <2>2. CASE CreateChannel(c)
    BY <2>2 DEF CreateChannel, RegisterChannel, backendVars
  <2>3. CASE ~(OnCreateChannelName(c) \/ CreateChannel(c))
    BY <2>3, BackendReaders DEF Visible, backendVars
  <2>. QED BY <2>1, <2>2, <2>3
<1>. QED BY <1>3, <1>4, <1>5, <1>6

-----------------------------------------------------------------------------
\* Every step is a step of the room.

\* A registration that finds the name free is a client signing up, and one that
\* does not brings the server down.
LEMMA RegisterInRoom ==
  ASSUME IInv, NEW c \in Conns, Register(c)
  PROVE  Room!SignUp(c) \/ Room!Crash
<1>1. Step(c)
  BY DEF Step, Handler
<1>2. TypeOK /\ Placed(c) /\ Prepared(c) /\ pc[c] = "register" /\ panic = NoPanic
  BY DEF IInv, HandlerInv, CheckedInv, Register, At
<1>3. pc \in [Conns -> Points] /\ UNCHANGED <<connVars, chatHistory>>
  BY <1>2 DEF TypeOK, HandlerTypeOK, Register, RegisterParticipant, backendVars
<1>4. Place(c) = "outside"
  BY <1>2 DEF Place, Inside, Placed, InLogin
<1>5. CASE HasParticipant(participant[c].Username)
  <2>1. panic' # NoPanic /\ UNCHANGED <<participants, pc>>
    BY <1>5 DEF Register, RegisterParticipant, Panic, NoPanic, backendVars
  <2>2. UNCHANGED <<[d \in Conns |-> Place(d)], [d \in Conns |-> NameInRoom(d)]>>
    BY <1>3, <2>1 DEF Place, NameInRoom, Inside, IsConnected, connVars
  <2>. QED BY <1>3, <2>1, <2>2 DEF Room!Crash
<1>6. CASE ~HasParticipant(participant[c].Username)
  <2>. DEFINE n == participant[c].Username
              credential == Sha256Checksum(participant[c].Password)
  <2>1. /\ participants' = Store(participants, n, credential)
        /\ panic' = NoPanic
        /\ pc'[c] = "history"
    BY <1>2, <1>3, <1>6 DEF Register, RegisterParticipant, Continue
  <2>2. Place(c)' = "entering" /\ NameInRoom(c)' = n
    BY <1>2, <1>3, <2>1 DEF Place, NameInRoom, Inside, IsConnected, Placed, InLogin,
       connVars
  <2>3. \A d \in Conns \ {c} :
          Place(d)' = Place(d) /\ NameInRoom(d)' = NameInRoom(d)
    BY <1>1, <1>2, OthersStay
  <2>4. n \in ValidNames \ DOMAIN participants
        /\ credential \in {Sha256Checksum(p) : p \in ValidPasswords}
    BY <1>2, <1>6 DEF Prepared, HasParticipant
  <2>5. participants' = [m \in DOMAIN participants \cup {n} |->
                           IF m = n THEN credential ELSE participants[m]]
    BY <2>1 DEF Store
  <2>6. [d \in Conns |-> Place(d)]' =
          [[d \in Conns |-> Place(d)] EXCEPT ![c] = "entering"]
    BY <2>2, <2>3
  <2>7. [d \in Conns |-> NameInRoom(d)]' =
          [[d \in Conns |-> NameInRoom(d)] EXCEPT ![c] = n]
    BY <2>2, <2>3
  <2>. HIDE DEF n, credential
  <2>. QED BY <1>2, <1>3, <1>4, <2>1, <2>4, <2>5, <2>6, <2>7 DEF Room!SignUp
<1>. QED BY <1>5, <1>6

\* The mark in the connection map is a client entering.
LEMMA MarkInRoom ==
  ASSUME IInv, NEW c \in Conns, Mark(c)
  PROVE  Room!Enter(c)
<1>1. Step(c)
  BY DEF Step, Handler
<1>2. TypeOK /\ Placed(c) /\ pc[c] = "mark" /\ panic = NoPanic
  BY DEF IInv, HandlerInv, Mark, At
<1>3. /\ connState' = [connState EXCEPT ![c] = "connected"]
      /\ c \in connMap
      /\ UNCHANGED <<panic, participants, chatHistory, participant, connMap>>
  BY <1>2 DEF Placed, Mark, MarkAsConnected, backendVars
<1>4. Place(c) = "entering"
  BY <1>2 DEF Place, Inside, Placed, InLogin
<1>5. Place(c)' = "inside" /\ NameInRoom(c)' = NameInRoom(c)
  <2>1. connState'[c] = "connected" /\ c \in connMap'
    BY <1>2, <1>3 DEF TypeOK, ConnTypeOK
  <2>2. Place(c)' = "inside"
    BY <2>1 DEF Place, Inside, IsConnected
  <2>. QED BY <1>3, <1>4, <2>2 DEF NameInRoom
<1>6. \A d \in Conns \ {c} : Place(d)' = Place(d) /\ NameInRoom(d)' = NameInRoom(d)
  BY <1>1, <1>2, OthersStay
<1>7. [d \in Conns |-> Place(d)]' = [[d \in Conns |-> Place(d)] EXCEPT ![c] = "inside"]
  BY <1>5, <1>6
<1>8. UNCHANGED [d \in Conns |-> NameInRoom(d)]
  BY <1>5, <1>6
<1>. QED BY <1>3, <1>4, <1>7, <1>8 DEF Room!Enter

\* A line typed in the chat is its sender speaking.
LEMMA SpeakInRoom ==
  ASSUME IInv, NEW c \in Conns, OnAcceptMessages(c)
  PROVE  Room!Speak(c)
<1>. DEFINE m == BuildChatMsg(Len(chatHistory) + 1, participant[c].Username,
                              ChannelName(c))
<1>1. /\ TypeOK /\ Placed(c)
      /\ pc[c] = "process" /\ state[c] = "AcceptingMessages" /\ idle[c] = "waiting"
  BY DEF IInv, HandlerInv, OnAcceptMessages, Callback, At, AbortConnectionTimeout
<1>2. Place(c) = "inside" /\ NameInRoom(c) = participant[c].Username
  BY <1>1 DEF Place, NameInRoom, Inside, Placed, InLogin
<1>3. /\ UNCHANGED <<panic, participants, connMap, connState, participant>>
      /\ chatHistory' = Append(chatHistory, m)
      /\ Continue(c, "read")
  BY DEF OnAcceptMessages, StoreMessage, BuildChatMsg
<1>4. m.Sender = NameInRoom(c)
  BY <1>2 DEF BuildChatMsg
<1>5. pc \in [Conns -> Points] /\ chatHistory \in Seq(ChatMessage) /\ m \in ChatMessage
  BY <1>1 DEF TypeOK, HandlerTypeOK, ConnTypeOK, BackendTypeOK, BuildChatMsg,
     Participant,
     ChatMessage, String
<1>. HIDE DEF m
<1>6. chatHistory' # <<>> /\ chatHistory'[Len(chatHistory')] = m
  BY <1>3, <1>5
<1>7. \A d \in Conns : Place(d)' = Place(d) /\ NameInRoom(d)' = NameInRoom(d)
  <2>. TAKE d \in Conns
  <2>1. d # c => pc'[d] = pc[d]
    BY <1>3, <1>5 DEF Continue
  <2>2. pc[c] = "process" /\ pc'[c] = "read"
    BY <1>1, <1>3, <1>5 DEF Continue
  <2>. QED BY <1>3, <2>1, <2>2 DEF Place, NameInRoom, Inside, IsConnected
<1>8. UNCHANGED <<[d \in Conns |-> Place(d)], [d \in Conns |-> NameInRoom(d)]>>
  BY <1>7
<1>. QED BY <1>2, <1>3, <1>4, <1>6, <1>8 DEF Room!Speak

\* A disconnection is a client leaving, from inside or from outside.
LEMMA LeaveInRoom ==
  ASSUME IInv, NEW c \in Conns, OnDisconnect(c)
  PROVE  Room!Leave(c)
<1>1. Step(c)
  BY DEF Step, Handler
<1>2. TypeOK /\ Placed(c) /\ pc[c] = "disconnect" /\ panic = NoPanic
  BY DEF IInv, HandlerInv, OnDisconnect, At
<1>3. /\ connMap' = connMap \ {c}
      /\ UNCHANGED <<panic, participants, chatHistory, connState>>
      /\ Continue(c, "checkEmpty")
  BY <1>2 DEF Placed, OnDisconnect, RemoveConn, backendVars
<1>4. Place(c) \in {"outside", "inside"}
  BY <1>2 DEF Place
<1>5. Place(c)' = "gone" /\ NameInRoom(c)' = NoText
  BY <1>2, <1>3 DEF Place, NameInRoom, Inside, Continue, TypeOK, HandlerTypeOK
<1>6. \A d \in Conns \ {c} : Place(d)' = Place(d) /\ NameInRoom(d)' = NameInRoom(d)
  BY <1>1, <1>2, OthersStay
<1>7. [d \in Conns |-> Place(d)]' = [[d \in Conns |-> Place(d)] EXCEPT ![c] = "gone"]
  BY <1>5, <1>6
<1>8. [d \in Conns |-> NameInRoom(d)]' =
        [[d \in Conns |-> NameInRoom(d)] EXCEPT ![c] = NoText]
  BY <1>5, <1>6
<1>. QED BY <1>3, <1>4, <1>7, <1>8 DEF Room!Leave

\* A step that is none of these is no step of the room, unless it brings it down.
LEMMA InvisibleInRoom ==
  ASSUME IInv, NEW c \in Conns, Step(c), ~Visible(c)
  PROVE  UNCHANGED Room!vars \/ Room!Crash
<1>1. TypeOK
  BY DEF IInv
<1>2. \A d \in Conns : Place(d)' = Place(d) /\ NameInRoom(d)' = NameInRoom(d)
  BY <1>1, InvisibleStep, OthersStay
<1>3. UNCHANGED <<[d \in Conns |-> Place(d)], [d \in Conns |-> NameInRoom(d)]>>
  BY <1>2
<1>4. UNCHANGED <<participants, chatHistory>> /\ panic = NoPanic
  BY InvisibleStep, NoStepAfterPanic
<1>5. CASE panic' = NoPanic
  BY <1>3, <1>4, <1>5 DEF Room!vars
<1>6. CASE panic' # NoPanic
  BY <1>3, <1>4, <1>6 DEF Room!Crash
<1>. QED BY <1>5, <1>6

\* Together: from a state that satisfies the invariant, every step is one of the room.
LEMMA RoomStep ==
  ASSUME IInv, [Next]_vars
  PROVE  [Room!Next]_(Room!vars)
<1>1. CASE UNCHANGED vars
  BY <1>1 DEF vars, backendVars, connVars, readerVars, Room!vars, Place, NameInRoom,
     Inside, IsConnected
<1>2. CASE Next
  <2>1. PICK c \in Conns : Step(c)
    BY <1>2 DEF Next
  <2>2. panic = NoPanic
    BY <2>1, NoStepAfterPanic
  <2>3. \/ UNCHANGED Room!vars
        \/ Room!Crash
        \/ Room!SignUp(c) \/ Room!Enter(c) \/ Room!Speak(c) \/ Room!Leave(c)
    BY <2>1, RegisterInRoom, MarkInRoom, SpeakInRoom, LeaveInRoom, InvisibleInRoom
       DEF Visible
  <2>. QED BY <2>2, <2>3 DEF Room!Next
<1>. QED BY <1>1, <1>2

\* At the start everybody is outside and nothing has been said.
LEMMA RoomInit == Init => Room!Init
<1>. SUFFICES ASSUME Init PROVE Room!Init
  OBVIOUS
<1>1. \A c \in Conns : Place(c) = "outside" /\ NameInRoom(c) = NoText
  BY DEF Init, NewConnections, Place, NameInRoom, Inside, IsConnected
<1>2. participants = [n \in {} |-> NoText]
  BY DEF Init, NewMemoryBackend
<1>. QED BY <1>1, <1>2 DEF Init, NewMemoryBackend, Room!Init

\* The handlers, however many and however they interleave, implement the room.
THEOREM HandlersImplementRoom == Spec => ImplementsChatRoom
<1>1. IInv /\ [Next]_vars => [Room!Next]_(Room!vars)
  BY RoomStep
<1>. QED BY <1>1, RoomInit, Invariant, PTL DEF Spec, ImplementsChatRoom, Room!Spec

=============================================================================
