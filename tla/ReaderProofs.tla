---------------------------- MODULE ReaderProofs ----------------------------
(***************************************************************************)
(* Proofs about the handlers of module Reader, for any number of           *)
(* connections and any input: IInv is inductive, and with it type          *)
(* correctness and the properties of accounts and of channels hold of      *)
(* every behaviour of Spec.                                                *)
(***************************************************************************)
EXTENDS Reader, TLAPS

-----------------------------------------------------------------------------
\* Types, variable by variable.  That the backend is typed needs the pointers into it
\* to be good (SelectionIsValid).

\* What a step leaves alone keeps its type.
LEMMA BackendFrame ==
  ASSUME BackendTypeOK, UNCHANGED backendVars
  PROVE  BackendTypeOK'
BY DEF BackendTypeOK, backendVars

\* The same of the connections.
LEMMA ConnFrame ==
  ASSUME ConnTypeOK, UNCHANGED connVars
  PROVE  ConnTypeOK'
BY DEF ConnTypeOK, connVars, deliveryVars

\* The storage is written by four steps of a handler.
LEMMA BackendReaders ==
  ASSUME NEW c \in Conns, Step(c),
         ~Register(c), ~OnCreateChannelName(c), ~CreateChannel(c),
         ~OnAcceptMessages(c)
  PROVE  UNCHANGED backendVars
BY DEF Step, Accept, Client, ReadLine, ReadEOF, ReadReset, IdleExpires, Handler,
       ReadClosed, ReadFails, ProcessCommand, OnJoining, OnRegisterParticipant,
       OnAuthParticipant, SubmitPassword, ReadField, DisplayHistory, Mark,
       OnCreateChannelDesc, OnSelectChannel, ShowChannelHistory, OnDisconnect,
       CheckEmpty, ResetShutdownTimer, ProcessMessages, Receive, Broadcast,
       IdleProceeds, backendVars

\* conn.channel.Name is a string, whichever object conn.channel points to.
LEMMA ChannelNameType ==
  ASSUME TypeOK, SelectionIsValid, NEW c \in Conns
  PROVE  ChannelName(c) \in String
BY DEF TypeOK, BackendTypeOK, HandlerTypeOK, SelectionIsValid, HasChannel,
       ChannelName, ChannelRef, Channel

\* Every step keeps the storage well typed: what handlers write are accounts, names
\* and messages.
LEMMA BackendType ==
  ASSUME TypeOK, SelectionIsValid, NEW c \in Conns, Step(c)
  PROVE  BackendTypeOK'
<1>1. CASE Register(c)
  <2>1. participant[c] \in Participant
    BY DEF TypeOK, ConnTypeOK
  <2>. QED
    BY <1>1, <2>1 DEF Register, RegisterParticipant, Store, TypeOK, BackendTypeOK,
       Participant, Hash, Sha256Checksum, backendVars
<1>2. CASE OnCreateChannelName(c)
  <2>1. buffer[c].text \in String
    BY DEF TypeOK, HandlerTypeOK, Line
  <2>2. /\ UNCHANGED <<participants, chatHistory>>
        /\ \/ UNCHANGED channels
           \/ channels' = [channels EXCEPT ![channel[c].alias].Name = buffer[c].text]
    BY <1>2 DEF OnCreateChannelName, WriteChannelName
  <2>. QED BY <2>1, <2>2 DEF TypeOK, BackendTypeOK, Channel
<1>3. CASE CreateChannel(c)
  <2>. DEFINE new == [Name |-> ChannelName(c), ChatHistory |-> <<>>]
  <2>1. ChannelName(c) \in String /\ new \in Channel
    BY ChannelNameType DEF Channel
  <2>2. CASE UNCHANGED backendVars
    BY <2>2, BackendFrame DEF TypeOK
  <2>3. CASE /\ channels' = Store(channels, ChannelName(c), new)
             /\ UNCHANGED <<participants, chatHistory>>
    <3>. HIDE DEF new
    <3>. QED BY <2>1, <2>3 DEF Store, TypeOK, BackendTypeOK
  <2>. QED BY <1>3, <2>2, <2>3 DEF CreateChannel, RegisterChannel
<1>4. CASE OnAcceptMessages(c)
  <2>. DEFINE message ==
         BuildChatMsg(Len(chatHistory) + 1, participant[c].Username, ChannelName(c))
  <2>1. message \in ChatMessage /\ message.Channel = NoText
    BY DEF BuildChatMsg, ChatMessage, TypeOK, BackendTypeOK, ConnTypeOK, Participant,
       String
  <2>2. StoreMessage(message)
    BY <1>4 DEF OnAcceptMessages
  <2>. HIDE DEF message
  <2>. QED BY <2>1, <2>2 DEF StoreMessage, TypeOK, BackendTypeOK
<1>5. CASE ~(Register(c) \/ OnCreateChannelName(c) \/ CreateChannel(c)
             \/ OnAcceptMessages(c))
  BY <1>5, BackendReaders, BackendFrame DEF TypeOK
<1>. QED BY <1>1, <1>2, <1>3, <1>4, <1>5

\* System messages are messages, and no chat messages.
LEMMA SystemMessages ==
  /\ NoMsg \in Outgoing /\ NoMsg.kind # "chat"
  /\ SysMsg \in Outgoing /\ SysMsg.kind # "chat"
  /\ IdleMsg \in Outgoing /\ IdleMsg.kind # "chat"
  /\ LeftMsg \in Outgoing /\ LeftMsg.kind # "chat"
BY DEF Outgoing, NoMsg, SysMsg, IdleMsg, LeftMsg

\* Every step keeps the connections and what their clients read well typed.
LEMMA ConnType ==
  ASSUME TypeOK, NEW c \in Conns, Step(c)
  PROVE  ConnTypeOK'
<1>1. CASE Accept(c)
  BY <1>1 DEF TypeOK, ConnTypeOK, Accept, AddConn, deliveryVars
<1>2. CASE ReadReset(c) \/ ReadClosed(c)
  BY <1>2 DEF TypeOK, ConnTypeOK, ReadReset, ReadClosed, ReadFails, Cancel, deliveryVars
<1>3. CASE OnRegisterParticipant(c) \/ OnAuthParticipant(c)
  <2>1. participant[c] \in Participant /\ buffer[c].text \in String
    BY DEF TypeOK, ConnTypeOK, HandlerTypeOK, Line
  <2>2. \E p \in Participant, next \in Substates : ReadField(c, p, next)
    BY <1>3, <2>1 DEF OnRegisterParticipant, OnAuthParticipant, Participant, Substates
  <2>. QED
    BY <2>2 DEF TypeOK, ConnTypeOK, ReadField, deliveryVars
<1>4. CASE SubmitPassword(c)
  <2>1. participant[c] \in Participant /\ buffer[c].text \in String
    BY DEF TypeOK, ConnTypeOK, HandlerTypeOK, Line
  <2>. QED
    BY <1>4, <2>1 DEF TypeOK, ConnTypeOK, SubmitPassword, StartIdleTimer, IdleStates,
       Participant, deliveryVars
<1>5. CASE Mark(c)
  <2>1. Len(chatHistory) \in Nat
    BY DEF TypeOK, BackendTypeOK
  <2>. QED BY <1>5, <2>1 DEF TypeOK, ConnTypeOK, Mark, MarkAsConnected, deliveryVars
<1>6. CASE OnAcceptMessages(c)
  BY <1>6 DEF TypeOK, ConnTypeOK, OnAcceptMessages, AbortConnectionTimeout, deliveryVars
<1>7. CASE OnDisconnect(c)
  BY <1>7 DEF TypeOK, ConnTypeOK, OnDisconnect, Cancel, RemoveConn, deliveryVars
<1>8. CASE ProcessMessages(c)
  <2>1. CASE Receive(c)
    <3>1. outbox[c] \in Outgoing /\ (outbox[c].kind = "chat" => Len(outbox[c].chats) = 1)
      BY DEF TypeOK, HandlerTypeOK
    <3>. QED BY <2>1, <3>1 DEF TypeOK, ConnTypeOK, Receive
  <2>2. CASE Broadcast(c)
    <3>1. inHand' = [inHand EXCEPT ![c] = NoMsg]
      BY <2>2 DEF Broadcast
    <3>2. inHand' \in [Conns -> Outgoing]
          /\ \A d \in Conns : inHand'[d].kind = "chat" => Len(inHand'[d].chats) = 1
      BY <3>1, SystemMessages DEF TypeOK, ConnTypeOK
    <3>3. CASE inHand[c].kind = "chat"
      <4>1. inHand[c].chats[1] \in ChatMessage
        BY <3>3 DEF TypeOK, ConnTypeOK, Outgoing
      <4>2. /\ \E recipients : BroadcastTo(recipients, inHand[c].chats[1])
            /\ UNCHANGED shown
        BY <2>2, <3>3 DEF Broadcast, BroadcastChatMessage
      <4>3. received' \in [Conns -> Seq(ChatMessage)]
        BY <4>1, <4>2 DEF BroadcastTo, TypeOK, ConnTypeOK
      <4>. QED BY <2>2, <3>2, <4>2, <4>3 DEF TypeOK, ConnTypeOK, Broadcast
    <3>4. CASE inHand[c].kind # "chat"
      <4>1. inHand[c].chats \in Seq(ChatMessage)
        BY DEF TypeOK, ConnTypeOK, Outgoing
      <4>. QED
        BY <2>2, <3>2, <3>4, <4>1 DEF TypeOK, ConnTypeOK, Broadcast, ShowHistory
    <3>. QED BY <3>3, <3>4
  <2>. QED BY <1>8, <2>1, <2>2 DEF ProcessMessages
<1>9. CASE IdleExpires(c) \/ IdleProceeds(c)
  BY <1>9 DEF TypeOK, ConnTypeOK, IdleExpires, IdleProceeds, IdleTimeout, IdleCancel,
     IdleReturn, Cancel, IdleStates, deliveryVars
<1>10. CASE (\E line \in Input[c] : ReadLine(c, line)) \/ ReadEOF(c)
            \/ ProcessCommand(c) \/ OnJoining(c) \/ Register(c) \/ DisplayHistory(c)
            \/ OnCreateChannelName(c) \/ OnCreateChannelDesc(c) \/ CreateChannel(c)
            \/ OnSelectChannel(c) \/ ShowChannelHistory(c) \/ CheckEmpty(c)
            \/ ResetShutdownTimer(c)
  <2>1. UNCHANGED connVars
    BY <1>10 DEF ReadLine, ReadEOF, ProcessCommand, OnJoining, Register,
       DisplayHistory, OnCreateChannelName, OnCreateChannelDesc, CreateChannel,
       OnSelectChannel, ShowChannelHistory, CheckEmpty, ResetShutdownTimer
  <2>. QED BY <2>1, ConnFrame DEF TypeOK
<1>. QED
  BY <1>1, <1>2, <1>3, <1>4, <1>5, <1>6, <1>7, <1>8, <1>9, <1>10
     DEF Step, Client, Handler

\* Going on at a point keeps the program counters typed.
LEMMA PcType ==
  ASSUME HandlerTypeOK, NEW c \in Conns, NEW point \in Points, Continue(c, point)
  PROVE  pc' \in [Conns -> Points]
BY DEF HandlerTypeOK, Continue

\* So does sending a message, if a chat message carries one message.
LEMMA OutboxType ==
  ASSUME HandlerTypeOK, NEW c \in Conns, NEW message \in Outgoing,
         message.kind = "chat" => Len(message.chats) = 1, Send(c, message)
  PROVE  /\ outbox' \in [Conns -> Outgoing]
         /\ \A d \in Conns : outbox'[d].kind = "chat" => Len(outbox'[d].chats) = 1
BY DEF HandlerTypeOK, Send

\* Clearing a buffer leaves a line in it.
LEMMA BufferType ==
  ASSUME HandlerTypeOK, NEW c \in Conns, ClearBuffer(c)
  PROVE  buffer' \in [Conns -> Line]
BY DEF HandlerTypeOK, ClearBuffer, Line, NoLine, String

\* updateState keeps the state machine typed.
LEMMA StateType ==
  ASSUME HandlerTypeOK, NEW c \in Conns, NEW s \in States, NEW t \in Substates,
         UpdateState(c, s, t)
  PROVE  state' \in [Conns -> States] /\ substate' \in [Conns -> Substates]
BY DEF HandlerTypeOK, UpdateState

\* The end of an iteration of handleConnection keeps the handler typed.
LEMMA IterationType ==
  ASSUME HandlerTypeOK, NEW c \in Conns, NEW s \in States, NEW t \in Substates, NEW r,
         NextIteration(c, s, t, r), UNCHANGED channel
  PROVE  HandlerTypeOK'
BY DEF HandlerTypeOK, NextIteration, UpdateState, Continue, Send, ClearBuffer, Points,
       Outgoing, SysMsg, NoMsg, Line, NoLine, String

\* The option leads to a state and a substate.
LEMMA OptionTargetType ==
  ASSUME HandlerTypeOK, NEW c \in Conns, NEW op
  PROVE  OptionTarget(c, op)[1] \in States /\ OptionTarget(c, op)[2] \in Substates
BY DEF HandlerTypeOK, OptionTarget, States, Substates

\* Every step keeps the handlers well typed.
LEMMA HandlerType ==
  ASSUME TypeOK, NEW c \in Conns, Step(c)
  PROVE  HandlerTypeOK'
<1>. USE DEF TypeOK
<1>1. CASE Accept(c)
  BY <1>1 DEF Accept, HandlerTypeOK, Continue, Send, Points, Outgoing, SysMsg
<1>2. CASE \E line \in Input[c] : ReadLine(c, line)
  <2>. PICK line \in Input[c] : ReadLine(c, line) BY <1>2
  <2>1. line \in Line
    BY InputAssumption
  <2>. QED BY <2>1 DEF ReadLine, HandlerTypeOK, Continue, Points
<1>3. CASE ReadEOF(c)
  BY <1>3, IterationType DEF ReadEOF, States, Substates
<1>4. CASE ReadReset(c) \/ ReadClosed(c)
  <2>1. /\ UpdateState(c, "Disconnecting", "Null")
        /\ Continue(c, "disconnect")
        /\ \E message \in {NoMsg, IdleMsg} : Send(c, message)
        /\ ClearBuffer(c)
        /\ UNCHANGED channel
    BY <1>4 DEF ReadReset, ReadClosed, ReadFails
  <2>2. "disconnect" \in Points /\ "Disconnecting" \in States /\ "Null" \in Substates
    BY DEF Points, States, Substates
  <2>. QED
    BY <2>1, <2>2, PcType, OutboxType, SystemMessages, BufferType, StateType
       DEF HandlerTypeOK
<1>5. CASE ProcessCommand(c)
  <2>1. state[c] \in States /\ substate[c] \in Substates
    BY DEF HandlerTypeOK
  <2>2. UNCHANGED channel
          /\ \/ UNCHANGED readerVars
             \/ \E s \in States, t \in Substates, r \in BOOLEAN :
                  NextIteration(c, s, t, r)
    BY <1>5, <2>1 DEF ProcessCommand, States, Substates
  <2>. QED BY <2>2, IterationType DEF HandlerTypeOK, readerVars
<1>6. CASE OnJoining(c)
  BY <1>6, IterationType, OptionTargetType DEF OnJoining
<1>7. CASE OnRegisterParticipant(c) \/ OnAuthParticipant(c)
  <2>1. state[c] \in States
    BY DEF HandlerTypeOK
  <2>2. UNCHANGED channel
          /\ \E t \in Substates : NextIteration(c, state[c], t, TRUE)
    BY <1>7 DEF OnRegisterParticipant, OnAuthParticipant, ReadField, Substates
  <2>. QED BY <2>1, <2>2, IterationType
<1>8. CASE SubmitPassword(c)
  <2>1. CASE NextIteration(c, "Joining", "Null", TRUE)
    BY <1>8, <2>1, IterationType DEF SubmitPassword, States, Substates
  <2>2. CASE ~NextIteration(c, "Joining", "Null", TRUE)
    <3>1. /\ \E point \in {"register", "history"} : Continue(c, point)
          /\ ClearBuffer(c)
          /\ UNCHANGED <<state, substate, outbox, channel>>
      BY <1>8, <2>2 DEF SubmitPassword
    <3>. QED
      BY <3>1 DEF HandlerTypeOK, Continue, ClearBuffer, Points, Line, NoLine, String
  <2>. QED BY <2>1, <2>2
<1>9. CASE Register(c) \/ DisplayHistory(c)
  <2>1. /\ UNCHANGED pc \/ \E point \in Points : Continue(c, point)
        /\ UNCHANGED <<state, substate, buffer, channel>>
        /\ UNCHANGED outbox \/ Send(c, HistoryMsg(chatHistory))
    BY <1>9 DEF Register, DisplayHistory, Points
  <2>2. HistoryMsg(chatHistory) \in Outgoing /\ HistoryMsg(chatHistory).kind # "chat"
    BY DEF HistoryMsg, Outgoing, BackendTypeOK
  <2>. QED BY <2>1, <2>2, PcType, OutboxType DEF HandlerTypeOK
<1>10. CASE Mark(c) \/ CreateChannel(c) \/ ShowChannelHistory(c)
  <2>1. UNCHANGED channel
          /\ \/ UNCHANGED readerVars
             \/ \E r \in BOOLEAN : NextIteration(c, "AcceptingMessages", "Null", r)
    BY <1>10 DEF Mark, CreateChannel, ShowChannelHistory, readerVars
  <2>. QED
    BY <2>1, IterationType DEF HandlerTypeOK, States, Substates, readerVars
<1>11. CASE OnCreateChannelName(c)
  <2>1. buffer[c].text \in String
    BY DEF HandlerTypeOK, Line
  <2>2. channel' \in [Conns -> ChannelRef]
    BY <1>11, <2>1 DEF OnCreateChannelName, WriteChannelName, HandlerTypeOK, ChannelRef
  <2>3. /\ UpdateState(c, "CreatingChannel", "ReadingChannelDesc")
        /\ Continue(c, "read")
        /\ Send(c, SysMsg)
        /\ ClearBuffer(c)
    BY <1>11 DEF OnCreateChannelName, NextIteration
  <2>4. /\ "read" \in Points /\ "CreatingChannel" \in States
        /\ "ReadingChannelDesc" \in Substates
    BY DEF Points, States, Substates
  <2>. QED
    BY <2>2, <2>3, <2>4, PcType, OutboxType, SystemMessages, BufferType, StateType
       DEF HandlerTypeOK
<1>12. CASE OnCreateChannelDesc(c)
  <2>1. CASE NextIteration(c, "ProcessingMenu", "Null", TRUE)
    BY <1>12, <2>1, IterationType DEF OnCreateChannelDesc, States, Substates
  <2>2. CASE ~NextIteration(c, "ProcessingMenu", "Null", TRUE)
    <3>1. /\ Continue(c, "registerChannel")
          /\ ClearBuffer(c)
          /\ UNCHANGED <<state, substate, outbox, channel>>
      BY <1>12, <2>2 DEF OnCreateChannelDesc
    <3>. QED BY <3>1, PcType, BufferType DEF HandlerTypeOK, Points
  <2>. QED BY <2>1, <2>2
<1>13. CASE OnSelectChannel(c)
  <2>1. CASE NextIteration(c, "ProcessingMenu", "Null", TRUE) /\ UNCHANGED channel
    BY <2>1, IterationType DEF States, Substates
  <2>2. CASE /\ \E key \in GetChannels :
                  channel' = [channel EXCEPT ![c] =
                                [stored |-> TRUE, alias |-> key, Name |-> NoText]]
             /\ Continue(c, "channelHistory")
             /\ ClearBuffer(c)
             /\ UNCHANGED <<state, substate, outbox>>
    BY <2>2 DEF HandlerTypeOK, BackendTypeOK, GetChannels, Continue, ClearBuffer,
       Points,
       ChannelRef, Line, NoLine, String
  <2>. QED BY <1>13, <2>1, <2>2 DEF OnSelectChannel
<1>14. CASE OnAcceptMessages(c)
  <2>1. \E message \in ChatMessage : SendChat(c, message)
    <3>. DEFINE message ==
           BuildChatMsg(Len(chatHistory) + 1, participant[c].Username, ChannelName(c))
    <3>1. message \in ChatMessage /\ SendChat(c, message)
      BY <1>14 DEF OnAcceptMessages, BuildChatMsg, ChatMessage, BackendTypeOK,
         ConnTypeOK, Participant, String
    <3>. QED BY <3>1
  <2>2. outbox' \in [Conns -> Outgoing]
          /\ \A d \in Conns : outbox'[d].kind = "chat" => Len(outbox'[d].chats) = 1
    BY <2>1 DEF SendChat, Send, ChatMsg, HandlerTypeOK, Outgoing
  <2>3. /\ Continue(c, "read")
        /\ ClearBuffer(c)
        /\ UNCHANGED <<state, substate, channel>>
    BY <1>14 DEF OnAcceptMessages
  <2>. QED BY <2>2, <2>3, PcType, BufferType DEF HandlerTypeOK, Points
<1>15. CASE OnDisconnect(c) \/ CheckEmpty(c) \/ ResetShutdownTimer(c)
  <2>1. /\ UNCHANGED pc \/ \E point \in Points : Continue(c, point)
        /\ UNCHANGED outbox \/ Send(c, LeftMsg)
        /\ UNCHANGED <<state, substate, buffer, channel>>
    BY <1>15 DEF OnDisconnect, CheckEmpty, ResetShutdownTimer, Points
  <2>. QED BY <2>1, PcType, OutboxType, SystemMessages DEF HandlerTypeOK
<1>16. CASE ProcessMessages(c)
  <2>1. /\ UNCHANGED outbox \/ Send(c, NoMsg)
        /\ UNCHANGED <<pc, state, substate, buffer, channel>>
    BY <1>16 DEF ProcessMessages, Receive, Broadcast, readerVars
  <2>. QED BY <2>1, OutboxType, SystemMessages DEF HandlerTypeOK
<1>17. CASE IdleExpires(c) \/ IdleProceeds(c)
  BY <1>17 DEF IdleExpires, IdleProceeds, HandlerTypeOK, readerVars
<1>. QED
  BY <1>1, <1>2, <1>3, <1>4, <1>5, <1>6, <1>7, <1>8, <1>9, <1>10, <1>11, <1>12, <1>13,
     <1>14, <1>15, <1>16, <1>17 DEF Step, Client, Handler

-----------------------------------------------------------------------------
\* Frames: what a step of one handler leaves alone.

\* A step moves the handler of its own connection only.
LEMMA PcFrame ==
  ASSUME TypeOK, NEW c \in Conns, Step(c), NEW d \in Conns, d # c
  PROVE  pc'[d] = pc[d]
<1>1. pc \in [Conns -> Points]
  BY DEF TypeOK, HandlerTypeOK
<1>2. UNCHANGED pc \/ \E point : Continue(c, point)
  BY DEF Step, Accept, Client, ReadLine, ReadEOF, ReadReset, IdleExpires, Handler,
       ReadClosed, ReadFails, ProcessCommand, OnJoining, OnRegisterParticipant,
       OnAuthParticipant, SubmitPassword, ReadField, Register, DisplayHistory, Mark,
       OnCreateChannelName, OnCreateChannelDesc, CreateChannel, OnSelectChannel,
       ShowChannelHistory, OnAcceptMessages, OnDisconnect, CheckEmpty,
       ResetShutdownTimer, ProcessMessages, Receive, Broadcast, IdleProceeds,
       NextIteration, readerVars
<1>. QED BY <1>1, <1>2 DEF Continue

\* Nor does it touch the state machine of another connection.
LEMMA StateFrame ==
  ASSUME TypeOK, NEW c \in Conns, Step(c), NEW d \in Conns, d # c
  PROVE  state'[d] = state[d]
<1>1. state \in [Conns -> States]
  BY DEF TypeOK, HandlerTypeOK
<1>2. UNCHANGED state \/ \E s, t : UpdateState(c, s, t)
  BY DEF Step, Accept, Client, ReadLine, ReadEOF, ReadReset, IdleExpires, Handler,
       ReadClosed, ReadFails, ProcessCommand, OnJoining, OnRegisterParticipant,
       OnAuthParticipant, SubmitPassword, ReadField, Register, DisplayHistory, Mark,
       OnCreateChannelName, OnCreateChannelDesc, CreateChannel, OnSelectChannel,
       ShowChannelHistory, OnAcceptMessages, OnDisconnect, CheckEmpty,
       ResetShutdownTimer, ProcessMessages, Receive, Broadcast, IdleProceeds,
       NextIteration, readerVars
<1>. QED BY <1>1, <1>2 DEF UpdateState

\* A step puts no message in the outbox of another handler, and takes none from it.
LEMMA OutboxFrame ==
  ASSUME TypeOK, NEW c \in Conns, Step(c), NEW d \in Conns, d # c
  PROVE  outbox'[d] = outbox[d]
<1>1. outbox \in [Conns -> Outgoing]
  BY DEF TypeOK, HandlerTypeOK
<1>2. UNCHANGED outbox \/ \E message : Send(c, message)
  BY DEF Step, Accept, Client, ReadLine, ReadEOF, ReadReset, IdleExpires, Handler,
     ReadClosed, ReadFails, ProcessCommand, OnJoining, OnRegisterParticipant,
     OnAuthParticipant, SubmitPassword, ReadField, Register, DisplayHistory, Mark,
     OnCreateChannelName, OnCreateChannelDesc, CreateChannel, OnSelectChannel,
     ShowChannelHistory, OnAcceptMessages, SendChat, OnDisconnect, CheckEmpty,
     ResetShutdownTimer, ProcessMessages, Receive, Broadcast, IdleProceeds,
     NextIteration, readerVars
<1>. QED BY <1>1, <1>2 DEF Send

\* Nor does it read into the buffer of another handler.
LEMMA BufferFrame ==
  ASSUME TypeOK, NEW c \in Conns, Step(c), NEW d \in Conns, d # c
  PROVE  buffer'[d] = buffer[d]
<1>1. buffer \in [Conns -> Line]
  BY DEF TypeOK, HandlerTypeOK
<1>2. UNCHANGED buffer \/ \E line : buffer' = [buffer EXCEPT ![c] = line]
  BY DEF Step, Accept, Client, ReadLine, ReadEOF, ReadReset, IdleExpires, Handler,
     ReadClosed, ReadFails, ProcessCommand, OnJoining, OnRegisterParticipant,
     OnAuthParticipant, SubmitPassword, ReadField, Register, DisplayHistory, Mark,
     OnCreateChannelName, OnCreateChannelDesc, CreateChannel, OnSelectChannel,
     ShowChannelHistory, OnAcceptMessages, OnDisconnect, CheckEmpty, ResetShutdownTimer,
     ProcessMessages, Receive, Broadcast, IdleProceeds, NextIteration, ClearBuffer,
     readerVars
<1>. QED BY <1>1, <1>2

\* Nor does it add another connection to the map, or remove one.
LEMMA ConnMapFrame ==
  ASSUME NEW c \in Conns, Step(c), NEW d \in Conns, d # c
  PROVE  d \in connMap' <=> d \in connMap
<1>1. UNCHANGED connMap \/ AddConn(c) \/ connMap' = connMap \ {c}
  BY DEF Step, Accept, Client, ReadLine, ReadEOF, ReadReset, IdleExpires, Handler,
       ReadClosed, ReadFails, ProcessCommand, OnJoining, OnRegisterParticipant,
       OnAuthParticipant, SubmitPassword, ReadField, Register, DisplayHistory, Mark,
       OnCreateChannelName, OnCreateChannelDesc, CreateChannel, OnSelectChannel,
       ShowChannelHistory, OnAcceptMessages, OnDisconnect, CheckEmpty,
       ResetShutdownTimer, ProcessMessages, Receive, Broadcast, IdleProceeds,
       IdleTimeout, IdleCancel, IdleReturn, connVars, deliveryVars, RemoveConn
<1>. QED BY <1>1 DEF AddConn

\* Once connected a connection is connected for good, and a step connects its own
\* connection only.
LEMMA ConnStateFrame ==
  ASSUME TypeOK, NEW c \in Conns, Step(c), NEW d \in Conns
  PROVE  /\ IsConnected(d) => IsConnected(d)'
         /\ d # c => connState'[d] = connState[d]
<1>1. connState \in [Conns -> {"pending", "connected"}]
  BY DEF TypeOK, ConnTypeOK
<1>2. UNCHANGED connState \/ connState' = [connState EXCEPT ![c] = "connected"]
  BY DEF Step, Accept, Client, ReadLine, ReadEOF, ReadReset, IdleExpires, Handler,
       ReadClosed, ReadFails, ProcessCommand, OnJoining, OnRegisterParticipant,
       OnAuthParticipant, SubmitPassword, ReadField, Register, DisplayHistory, Mark,
       OnCreateChannelName, OnCreateChannelDesc, CreateChannel, OnSelectChannel,
       ShowChannelHistory, OnAcceptMessages, OnDisconnect, CheckEmpty,
       ResetShutdownTimer, ProcessMessages, Receive, Broadcast, IdleProceeds,
       IdleTimeout, IdleCancel, IdleReturn, connVars, deliveryVars, MarkAsConnected
<1>. QED BY <1>1, <1>2 DEF IsConnected

\* The idle goroutine of another connection does not move.
LEMMA IdleFrame ==
  ASSUME TypeOK, NEW c \in Conns, Step(c), NEW d \in Conns, d # c
  PROVE  idle'[d] = idle[d]
<1>1. idle \in [Conns -> IdleStates]
  BY DEF TypeOK, ConnTypeOK
<1>2. UNCHANGED idle \/ \E i : idle' = [idle EXCEPT ![c] = i]
  BY DEF Step, Accept, Client, ReadLine, ReadEOF, ReadReset, IdleExpires, Handler,
       ReadClosed, ReadFails, ProcessCommand, OnJoining, OnRegisterParticipant,
       OnAuthParticipant, SubmitPassword, ReadField, Register, DisplayHistory, Mark,
       OnCreateChannelName, OnCreateChannelDesc, CreateChannel, OnSelectChannel,
       ShowChannelHistory, OnAcceptMessages, OnDisconnect, CheckEmpty,
       ResetShutdownTimer, ProcessMessages, Receive, Broadcast, IdleProceeds,
       IdleTimeout, IdleCancel, IdleReturn, connVars, deliveryVars, StartIdleTimer,
       AbortConnectionTimeout
<1>. QED BY <1>1, <1>2

\* What another client has typed stays.
LEMMA ParticipantFrame ==
  ASSUME TypeOK, NEW c \in Conns, Step(c), NEW d \in Conns, d # c
  PROVE  participant'[d] = participant[d]
<1>1. participant \in [Conns -> Participant]
  BY DEF TypeOK, ConnTypeOK
<1>2. UNCHANGED participant \/ \E p : participant' = [participant EXCEPT ![c] = p]
  BY DEF Step, Accept, Client, ReadLine, ReadEOF, ReadReset, IdleExpires, Handler,
       ReadClosed, ReadFails, ProcessCommand, OnJoining, OnRegisterParticipant,
       OnAuthParticipant, SubmitPassword, ReadField, Register, DisplayHistory, Mark,
       OnCreateChannelName, OnCreateChannelDesc, CreateChannel, OnSelectChannel,
       ShowChannelHistory, OnAcceptMessages, OnDisconnect, CheckEmpty,
       ResetShutdownTimer, ProcessMessages, Receive, Broadcast, IdleProceeds,
       IdleTimeout, IdleCancel, IdleReturn, connVars, deliveryVars, MarkAsConnected
<1>. QED BY <1>1, <1>2

-----------------------------------------------------------------------------
\* Where a handler can be.

\* A step of one handler leaves every other one placed.
LEMMA OthersPlaced ==
  ASSUME TypeOK, NEW c \in Conns, Step(c), NEW d \in Conns, d # c, Placed(d)
  PROVE  Placed(d)'
<1>1. /\ pc'[d] = pc[d]
      /\ state'[d] = state[d]
      /\ d \in connMap' <=> d \in connMap
      /\ connState'[d] = connState[d]
      /\ idle'[d] = idle[d]
  BY PcFrame, StateFrame, ConnMapFrame, ConnStateFrame, IdleFrame
<1>. QED BY <1>1 DEF Placed, InLogin, IsConnected

\* The end of an iteration leaves the handler reading or disconnecting.
LEMMA IterationOwn ==
  ASSUME TypeOK, NEW c \in Conns, NEW s, NEW t, NEW r, NextIteration(c, s, t, r)
  PROVE  /\ state'[c] = s
         /\ pc'[c] = IF s = "Disconnecting" THEN "disconnect" ELSE "read"
BY DEF TypeOK, HandlerTypeOK, NextIteration, UpdateState, Continue

\* An iteration of a handler that is in the map, and goes on to a state that suits
\* its connection, leaves it placed.
LEMMA IterationPlaced ==
  ASSUME TypeOK, NEW c \in Conns, NEW s, NEW t, NEW r, NextIteration(c, s, t, r),
         Placed(c), UNCHANGED <<connMap, connState, idle>>,
         pc[c] \in {"read", "process", "registerChannel", "channelHistory"},
         s = "SelectingChannel" => IsConnected(c),
         IsConnected(c) => s \notin {"Joining", "Registration", "Authentication"}
  PROVE  Placed(c)'
<1>1. /\ state'[c] = s
      /\ pc'[c] = IF s = "Disconnecting" THEN "disconnect" ELSE "read"
  BY IterationOwn
<1>. QED BY <1>1 DEF Placed, InLogin, IsConnected

\* The password of an account never satisfies AuthParticipant, since a hash that is
\* hashed again is another one.
LEMMA NobodyAuthenticates ==
  ASSUME TypeOK, NEW p
  PROVE  ~AuthParticipant(p)
<1>. SUFFICES ASSUME p.Username \in DOMAIN participants
              PROVE  HashAgain(participants[p.Username]) # participants[p.Username]
  BY DEF AuthParticipant, HasParticipant
<1>. DEFINE h == participants[p.Username]
<1>1. h \in Hash
  BY DEF TypeOK, BackendTypeOK
<1>2. h.times \in Nat /\ HashAgain(h).times = h.times + 1
  BY <1>1 DEF Hash, HashAgain
<1>. QED BY <1>2

\* A step leaves the handler that makes it placed.
LEMMA OwnPlaced ==
  ASSUME TypeOK, NEW c \in Conns, Step(c), Placed(c)
  PROVE  Placed(c)'
<1>. USE DEF At
<1>0. /\ pc \in [Conns -> Points]
      /\ state \in [Conns -> States]
      /\ connState \in [Conns -> {"pending", "connected"}]
      /\ idle \in [Conns -> IdleStates]
  BY DEF TypeOK, HandlerTypeOK, ConnTypeOK
<1>1. CASE Accept(c)
  BY <1>0, <1>1 DEF Accept, AddConn, Continue, Placed, InLogin, IsConnected
<1>2. CASE \E line \in Input[c] : ReadLine(c, line)
  BY <1>0, <1>2 DEF ReadLine, Continue, Placed, InLogin, IsConnected, connVars
<1>3. CASE ReadEOF(c)
  BY <1>3, IterationPlaced DEF ReadEOF, connVars
<1>4. CASE ReadReset(c) \/ ReadClosed(c)
  <2>1. /\ pc[c] = "read"
        /\ UpdateState(c, "Disconnecting", "Null")
        /\ Continue(c, "disconnect")
        /\ UNCHANGED <<connMap, connState, idle>>
    BY <1>4 DEF ReadReset, ReadClosed, ReadFails
  <2>. QED
    BY <1>0, <2>1 DEF UpdateState, Continue, Placed, InLogin, IsConnected
<1>5. CASE ProcessCommand(c)
  <2>1. /\ pc[c] = "process"
        /\ UNCHANGED <<connMap, connState, idle>>
        /\ \/ UNCHANGED readerVars
           \/ NextIteration(c, "ProcessingMenu", "Null", FALSE)
           \/ NextIteration(c, state[c], substate[c], TRUE)
    BY <1>5 DEF ProcessCommand, connVars
  <2>2. CASE UNCHANGED readerVars
    BY <2>1, <2>2 DEF readerVars, Placed, InLogin, IsConnected
  <2>3. CASE NextIteration(c, "ProcessingMenu", "Null", FALSE)
    BY <2>1, <2>3, IterationPlaced
  <2>4. CASE NextIteration(c, state[c], substate[c], TRUE)
    BY <2>1, <2>4, IterationPlaced DEF Placed
  <2>. QED BY <2>1, <2>2, <2>3, <2>4
<1>6. CASE OnJoining(c)
  <2>. DEFINE target == OptionTarget(c, OptionOf(buffer[c]))
  <2>1. /\ pc[c] = "process"
        /\ UNCHANGED <<connMap, connState, idle>>
        /\ state[c] \in MenuStates
        /\ \E r : NextIteration(c, target[1], target[2], r)
    BY <1>6 DEF OnJoining, Callback, connVars
  <2>2. /\ target[1] = "SelectingChannel" => IsConnected(c)
        /\ IsConnected(c) =>
             target[1] \notin {"Joining", "Registration", "Authentication"}
    BY <2>1 DEF OptionTarget, Placed, MenuStates
  <2>. HIDE DEF target
  <2>. QED BY <2>1, <2>2, IterationPlaced
<1>7. CASE OnRegisterParticipant(c) \/ OnAuthParticipant(c)
  <2>1. /\ pc[c] = "process"
        /\ UNCHANGED <<connMap, connState, idle>>
        /\ \E t, r : NextIteration(c, state[c], t, r)
    BY <1>7 DEF OnRegisterParticipant, OnAuthParticipant, Callback, ReadField
  <2>. QED BY <2>1, IterationPlaced DEF Placed
<1>8. CASE SubmitPassword(c)
  <2>1. /\ pc[c] = "process"
        /\ state[c] \in {"Registration", "Authentication"}
        /\ UNCHANGED <<connMap, connState>>
    BY <1>8 DEF SubmitPassword, Callback
  <2>2. ~IsConnected(c)
    BY <2>1 DEF Placed
  <2>3. CASE NextIteration(c, "Joining", "Null", TRUE) /\ UNCHANGED idle
    BY <2>1, <2>2, <2>3, IterationPlaced
  <2>4. CASE ~(NextIteration(c, "Joining", "Null", TRUE) /\ UNCHANGED idle)
    <3>1. /\ state[c] = "Registration"
          /\ StartIdleTimer(c)
          /\ Continue(c, "register")
          /\ UNCHANGED state
      BY <1>8, <2>1, <2>4, NobodyAuthenticates DEF SubmitPassword, CredentialsValid
    <3>. QED
      BY <1>0, <2>1, <2>2, <3>1
         DEF StartIdleTimer, Continue, Placed, InLogin, IsConnected
  <2>. QED BY <2>3, <2>4
<1>9. CASE Register(c) \/ DisplayHistory(c)
  <2>1. /\ pc[c] \in {"register", "history"}
        /\ UNCHANGED <<connMap, connState, idle, state>>
        /\ \/ UNCHANGED pc
           \/ \E point \in {"history", "mark"} : Continue(c, point)
    BY <1>9 DEF Register, DisplayHistory, connVars
  <2>. QED BY <1>0, <2>1 DEF Continue, Placed, InLogin, IsConnected
<1>10. CASE Mark(c)
  <2>1. c \in connMap
    BY <1>10 DEF Mark, Placed
  <2>2. /\ connState' = [connState EXCEPT ![c] = "connected"]
        /\ UNCHANGED <<connMap, idle>>
    BY <1>10, <2>1 DEF Mark, MarkAsConnected
  <2>3. \E r : NextIteration(c, "AcceptingMessages", "Null", r)
    BY <1>10, <2>1 DEF Mark, MarkAsConnected
  <2>4. state'[c] = "AcceptingMessages" /\ pc'[c] = "read"
    BY <2>3, IterationOwn
  <2>. QED BY <1>0, <1>10, <2>1, <2>2, <2>4 DEF Mark, Placed, InLogin, IsConnected
<1>11. CASE OnCreateChannelName(c)
  BY <1>11, IterationPlaced DEF OnCreateChannelName, Callback, connVars
<1>12. CASE OnCreateChannelDesc(c)
  <2>1. /\ pc[c] = "process"
        /\ UNCHANGED <<connMap, connState, idle>>
        /\ \/ NextIteration(c, "ProcessingMenu", "Null", TRUE)
           \/ Continue(c, "registerChannel") /\ UNCHANGED state
    BY <1>12 DEF OnCreateChannelDesc, Callback, connVars
  <2>2. CASE NextIteration(c, "ProcessingMenu", "Null", TRUE)
    BY <2>1, <2>2, IterationPlaced
  <2>3. CASE Continue(c, "registerChannel") /\ UNCHANGED state
    BY <1>0, <2>1, <2>3 DEF Continue, Placed, InLogin, IsConnected
  <2>. QED BY <2>1, <2>2, <2>3
<1>13. CASE CreateChannel(c) \/ ShowChannelHistory(c)
  <2>1. /\ pc[c] \in {"registerChannel", "channelHistory"}
        /\ UNCHANGED <<connMap, connState, idle>>
        /\ \/ UNCHANGED readerVars
           \/ \E r : NextIteration(c, "AcceptingMessages", "Null", r)
    BY <1>13 DEF CreateChannel, ShowChannelHistory, connVars
  <2>2. CASE UNCHANGED readerVars
    BY <2>1, <2>2 DEF readerVars, Placed, InLogin, IsConnected
  <2>3. CASE \E r : NextIteration(c, "AcceptingMessages", "Null", r)
    BY <2>1, <2>3, IterationPlaced
  <2>. QED BY <2>1, <2>2, <2>3
<1>14. CASE OnSelectChannel(c)
  <2>1. /\ pc[c] = "process"
        /\ state[c] = "SelectingChannel"
        /\ UNCHANGED <<connMap, connState, idle>>
        /\ \/ NextIteration(c, "ProcessingMenu", "Null", TRUE)
           \/ Continue(c, "channelHistory") /\ UNCHANGED state
    BY <1>14 DEF OnSelectChannel, Callback, connVars
  <2>2. CASE NextIteration(c, "ProcessingMenu", "Null", TRUE)
    BY <2>1, <2>2, IterationPlaced
  <2>3. CASE Continue(c, "channelHistory") /\ UNCHANGED state
    BY <1>0, <2>1, <2>3 DEF Continue, Placed, InLogin, IsConnected
  <2>. QED BY <2>1, <2>2, <2>3
<1>15. CASE OnAcceptMessages(c)
  <2>1. /\ pc[c] = "process"
        /\ Continue(c, "read")
        /\ UNCHANGED <<connMap, connState, idle, state>>
    BY <1>15 DEF OnAcceptMessages, Callback, AbortConnectionTimeout
  <2>. QED BY <1>0, <2>1 DEF Continue, Placed, InLogin, IsConnected
<1>16. CASE OnDisconnect(c)
  <2>1. c \in connMap
    BY <1>16 DEF OnDisconnect, Placed
  <2>2. /\ pc[c] = "disconnect"
        /\ connMap' = connMap \ {c}
        /\ Continue(c, "checkEmpty")
        /\ UNCHANGED <<connState, idle, state>>
    BY <1>16, <2>1 DEF OnDisconnect, RemoveConn
  <2>. QED BY <1>0, <2>2 DEF Continue, Placed, InLogin, IsConnected
<1>17. CASE CheckEmpty(c) \/ ResetShutdownTimer(c)
  <2>1. /\ pc[c] \in {"checkEmpty", "resetTimer"}
        /\ \E point \in {"resetTimer", "done"} : Continue(c, point)
        /\ UNCHANGED <<connMap, connState, idle, state>>
    BY <1>17 DEF CheckEmpty, ResetShutdownTimer, connVars
  <2>. QED BY <1>0, <2>1 DEF Continue, Placed, InLogin, IsConnected
<1>18. CASE ProcessMessages(c)
  <2>1. UNCHANGED <<connMap, connState, idle, state, pc>>
    BY <1>18 DEF ProcessMessages, Receive, Broadcast, readerVars
  <2>. QED BY <2>1 DEF Placed, InLogin, IsConnected
<1>19. CASE IdleExpires(c) \/ IdleProceeds(c)
  <2>1. /\ idle[c] # "off"
        /\ \E i \in {"closing", "done"} : idle' = [idle EXCEPT ![c] = i]
        /\ UNCHANGED <<connMap, connState, state, pc>>
    BY <1>19 DEF IdleExpires, IdleProceeds, IdleTimeout, IdleCancel, IdleReturn,
       readerVars
  <2>. QED BY <1>0, <2>1 DEF Placed, InLogin, IsConnected
<1>. QED
  BY <1>1, <1>2, <1>3, <1>4, <1>5, <1>6, <1>7, <1>8, <1>9, <1>10, <1>11, <1>12, <1>13,
     <1>14, <1>15, <1>16, <1>17, <1>18, <1>19 DEF Step, Client, Handler

-----------------------------------------------------------------------------
\* Accounts.

\* Registration is the only step that writes an account, and it adds one under a name
\* that was free.
LEMMA AccountFrame ==
  ASSUME NEW c \in Conns, Step(c)
  PROVE  \/ UNCHANGED participants
         \/ /\ Register(c)
            /\ pc[c] = "register"
            /\ ~HasParticipant(participant[c].Username)
            /\ participants' = Store(participants, participant[c].Username,
                                     Sha256Checksum(participant[c].Password))
            /\ Continue(c, "history")
            /\ UNCHANGED connVars
<1>1. CASE Register(c)
  <2>1. CASE HasParticipant(participant[c].Username)
    BY <1>1, <2>1 DEF Register, RegisterParticipant, backendVars
  <2>2. CASE ~HasParticipant(participant[c].Username)
    BY <1>1, <2>2 DEF Register, RegisterParticipant, At
  <2>. QED BY <2>1, <2>2
<1>2. CASE ~Register(c)
  <2>1. CASE OnCreateChannelName(c)
    BY <2>1 DEF OnCreateChannelName
  <2>2. CASE CreateChannel(c)
    BY <2>2 DEF CreateChannel, RegisterChannel, backendVars
  <2>3. CASE OnAcceptMessages(c)
    BY <2>3 DEF OnAcceptMessages, StoreMessage, backendVars
  <2>4. CASE ~(OnCreateChannelName(c) \/ CreateChannel(c) \/ OnAcceptMessages(c))
    BY <1>2, <2>4, BackendReaders DEF backendVars
  <2>. QED BY <2>1, <2>2, <2>3, <2>4
<1>. QED BY <1>1, <1>2

\* An account, once there, stays as it is.
LEMMA AccountsStay ==
  ASSUME NEW c \in Conns, Step(c), NEW name \in DOMAIN participants
  PROVE  name \in DOMAIN participants' /\ participants'[name] = participants[name]
BY AccountFrame DEF Store, HasParticipant

\* What a client has typed changes in the login dialogue only, before registration.
LEMMA ParticipantWriters ==
  ASSUME TypeOK, NEW c \in Conns, Step(c), Placed(c)
  PROVE  \/ participant'[c] = participant[c]
         \/ ~Enrolled(c)'
<1>1. CASE OnRegisterParticipant(c) \/ OnAuthParticipant(c) \/ SubmitPassword(c)
  <2>1. /\ pc[c] = "process"
        /\ state[c] \in {"Registration", "Authentication"}
        /\ UNCHANGED connState
    BY <1>1 DEF OnRegisterParticipant, OnAuthParticipant, SubmitPassword, ReadField,
       Callback, At
  <2>2. ~IsConnected(c)'
    BY <2>1 DEF Placed, IsConnected
  <2>3. pc'[c] \notin {"history", "mark"}
    <3>1. \/ \E s, t, r : NextIteration(c, s, t, r)
          \/ Continue(c, "register")
      BY <1>1, <2>1, NobodyAuthenticates DEF OnRegisterParticipant, OnAuthParticipant,
         SubmitPassword, ReadField, CredentialsValid
    <3>2. CASE \E s, t, r : NextIteration(c, s, t, r)
      BY <3>2, IterationOwn
    <3>3. CASE Continue(c, "register")
      BY <3>3 DEF Continue, TypeOK, HandlerTypeOK
    <3>. QED BY <3>1, <3>2, <3>3
  <2>. QED BY <2>2, <2>3 DEF Enrolled
<1>2. CASE ~(OnRegisterParticipant(c) \/ OnAuthParticipant(c) \/ SubmitPassword(c))
  <2>1. UNCHANGED participant
    BY <1>2 DEF Step, Accept, Client, ReadLine, ReadEOF, ReadReset, IdleExpires,
       Handler, ReadClosed, ReadFails, ProcessCommand, OnJoining, Register,
       DisplayHistory, Mark, OnCreateChannelName, OnCreateChannelDesc, CreateChannel,
       OnSelectChannel, ShowChannelHistory, OnAcceptMessages, OnDisconnect, CheckEmpty,
       ResetShutdownTimer, ProcessMessages, Receive, Broadcast, IdleProceeds,
       IdleTimeout, IdleCancel, IdleReturn, connVars
  <2>. QED BY <2>1
<1>. QED BY <1>1, <1>2

\* A connection becomes enrolled by registering, and by nothing else.
LEMMA EnrolledBefore ==
  ASSUME TypeOK, NEW c \in Conns, Step(c), Placed(c), UNCHANGED participants,
         Enrolled(c)'
  PROVE  Enrolled(c)
<1>0. /\ pc \in [Conns -> Points]
      /\ connState \in [Conns -> {"pending", "connected"}]
  BY DEF TypeOK, HandlerTypeOK, ConnTypeOK
<1>1. CASE Mark(c)
  BY <1>1 DEF Mark, At, Enrolled
<1>2. CASE Register(c)
  <2>1. UNCHANGED connState
    BY <1>2 DEF Register, connVars
  <2>2. CASE HasParticipant(participant[c].Username)
    <3>1. UNCHANGED pc
      BY <1>2, <2>2 DEF Register, RegisterParticipant, Panic, NoPanic
    <3>. QED BY <2>1, <3>1 DEF Enrolled, IsConnected
  <2>3. CASE ~HasParticipant(participant[c].Username)
    BY <1>2, <2>3 DEF Register, RegisterParticipant, HasParticipant, Store
  <2>. QED BY <2>2, <2>3
<1>3. CASE SubmitPassword(c)
  <2>1. /\ state[c] \in {"Registration", "Authentication"}
        /\ UNCHANGED connState
    BY <1>3 DEF SubmitPassword, Callback
  <2>2. \/ Continue(c, "register")
        \/ \E s, t, r : NextIteration(c, s, t, r)
    BY <1>3, <2>1, NobodyAuthenticates DEF SubmitPassword, CredentialsValid
  <2>3. pc'[c] \notin {"history", "mark"}
    BY <1>0, <2>2, IterationOwn DEF Continue
  <2>. QED BY <2>1, <2>3 DEF Enrolled, IsConnected
<1>4. CASE DisplayHistory(c)
  BY <1>4 DEF DisplayHistory, At, Enrolled
<1>5. CASE ~(Mark(c) \/ Register(c) \/ SubmitPassword(c) \/ DisplayHistory(c))
  <2>1. UNCHANGED connState
    BY <1>5 DEF Step, Accept, Client, ReadLine, ReadEOF, ReadReset, IdleExpires,
       Handler, ReadClosed, ReadFails, ProcessCommand, OnJoining, ReadField,
       OnRegisterParticipant, OnAuthParticipant, OnCreateChannelName,
       OnCreateChannelDesc, CreateChannel, OnSelectChannel, ShowChannelHistory,
       OnAcceptMessages, OnDisconnect, CheckEmpty, ResetShutdownTimer, ProcessMessages,
       Receive, Broadcast, IdleProceeds, IdleTimeout, IdleCancel, IdleReturn, connVars
  <2>2. \/ UNCHANGED pc
        \/ \E point : point \notin {"history", "mark"} /\ Continue(c, point)
    BY <1>5 DEF Step, Accept, Client, ReadLine, ReadEOF, ReadReset, IdleExpires,
       Handler, ReadClosed, ReadFails, ProcessCommand, OnJoining, ReadField,
       OnRegisterParticipant, OnAuthParticipant, OnCreateChannelName,
       OnCreateChannelDesc, CreateChannel, OnSelectChannel, ShowChannelHistory,
       OnAcceptMessages, OnDisconnect, CheckEmpty, ResetShutdownTimer, ProcessMessages,
       Receive, Broadcast, IdleProceeds, NextIteration, readerVars
  <2>. QED BY <1>0, <2>1, <2>2 DEF Continue, Enrolled, IsConnected
<1>. QED BY <1>1, <1>2, <1>3, <1>4, <1>5

\* Every enrolled connection keeps an account with its name and password, and no two
\* share one: what was free when it was asked may be taken when it is registered, but
\* then RegisterParticipant panics and nobody is enrolled.
LEMMA AccountStep ==
  ASSUME TypeOK, HandlerInv, AccountInv, NEW c \in Conns, Step(c)
  PROVE  AccountInv'
<1>1. ASSUME NEW d \in Conns, Enrolled(d)', Enrolled(d)
      PROVE  /\ participant'[d] = participant[d]
             /\ HasParticipant(participant[d].Username)'
             /\ participants'[participant[d].Username] =
                  Sha256Checksum(participant[d].Password)
  <2>1. participant'[d] = participant[d]
    BY <1>1, ParticipantFrame, ParticipantWriters DEF HandlerInv
  <2>2. /\ participant[d].Username \in DOMAIN participants
        /\ participants[participant[d].Username] =
             Sha256Checksum(participant[d].Password)
    BY <1>1 DEF AccountInv, HasParticipant
  <2>. QED BY <2>1, <2>2, AccountsStay DEF HasParticipant
<1>2. ASSUME NEW d \in Conns, Enrolled(d)', ~Enrolled(d)
      PROVE  /\ d = c
             /\ participant'[c] = participant[c]
             /\ ~HasParticipant(participant[c].Username)
             /\ HasParticipant(participant[c].Username)'
             /\ participants'[participant[c].Username] =
                  Sha256Checksum(participant[c].Password)
  <2>1. d = c
    BY <1>2, PcFrame, ConnStateFrame DEF Enrolled, IsConnected
  <2>2. ~UNCHANGED participants
    BY <1>2, <2>1, EnrolledBefore DEF HandlerInv
  <2>3. /\ ~HasParticipant(participant[c].Username)
        /\ participants' = Store(participants, participant[c].Username,
                                 Sha256Checksum(participant[c].Password))
        /\ UNCHANGED connVars
    BY <2>2, AccountFrame
  <2>. QED BY <2>1, <2>3 DEF Store, HasParticipant, connVars
<1>3. ASSUME NEW d \in Conns, Enrolled(d)'
      PROVE  /\ HasParticipant(participant[d].Username)'
             /\ participants'[participant'[d].Username] =
                  Sha256Checksum(participant'[d].Password)
  BY <1>1, <1>2, <1>3 DEF HasParticipant
<1>4. ASSUME NEW d \in Conns, NEW e \in Conns, d # e, Enrolled(d)', Enrolled(e)'
      PROVE  participant'[d].Username # participant'[e].Username
  <2>1. CASE Enrolled(d) /\ Enrolled(e)
    BY <1>1, <1>4, <2>1 DEF AccountInv
  <2>2. CASE ~Enrolled(d) /\ Enrolled(e)
    BY <1>1, <1>2, <1>4, <2>2 DEF AccountInv
  <2>3. CASE Enrolled(d) /\ ~Enrolled(e)
    BY <1>1, <1>2, <1>4, <2>3 DEF AccountInv
  <2>4. CASE ~Enrolled(d) /\ ~Enrolled(e)
    BY <1>2, <1>4, <2>4
  <2>. QED BY <2>1, <2>2, <2>3, <2>4
<1>. QED BY <1>3, <1>4 DEF AccountInv

-----------------------------------------------------------------------------
\* Channels and senders.

\* No handler deletes a channel.
LEMMA ChannelsStay ==
  ASSUME TypeOK, NEW c \in Conns, Step(c), NEW key \in DOMAIN channels
  PROVE  key \in DOMAIN channels'
<1>1. CASE OnCreateChannelName(c)
  BY <1>1 DEF OnCreateChannelName, WriteChannelName
<1>2. CASE CreateChannel(c)
  BY <1>2 DEF CreateChannel, RegisterChannel, Store, backendVars
<1>3. CASE OnAcceptMessages(c)
  BY <1>3 DEF OnAcceptMessages, StoreMessage, backendVars
<1>4. CASE Register(c)
  BY <1>4 DEF Register, RegisterParticipant, backendVars
<1>5. CASE ~(Register(c) \/ OnCreateChannelName(c) \/ CreateChannel(c)
             \/ OnAcceptMessages(c))
  BY <1>5, BackendReaders DEF backendVars
<1>. QED BY <1>1, <1>2, <1>3, <1>4, <1>5

\* A pointer into the storage is set by a participant, to a channel that is there.
LEMMA AliasWriters ==
  ASSUME TypeOK, NEW c \in Conns, Step(c), Placed(c), NEW d \in Conns
  PROVE  \/ /\ channel'[d].alias = channel[d].alias
            /\ channel'[d].stored = channel[d].stored
         \/ d = c /\ IsConnected(c) /\ HasChannel(channel'[c].alias)
<1>0. channel \in [Conns -> ChannelRef]
  BY DEF TypeOK, HandlerTypeOK
<1>1. CASE OnCreateChannelName(c)
  <2>1. \/ UNCHANGED channel
        \/ \E name : channel' = [channel EXCEPT ![c].Name = name]
    BY <1>1 DEF OnCreateChannelName, WriteChannelName
  <2>. QED BY <1>0, <2>1 DEF ChannelRef
<1>2. CASE OnSelectChannel(c)
  <2>1. \/ UNCHANGED channel
        \/ \E k \in GetChannels :
             channel' = [channel EXCEPT ![c] =
                           [stored |-> TRUE, alias |-> k, Name |-> NoText]]
    BY <1>2 DEF OnSelectChannel
  <2>2. IsConnected(c)
    BY <1>2 DEF OnSelectChannel, Callback, Placed
  <2>. QED BY <1>0, <2>1, <2>2 DEF GetChannels, HasChannel
<1>3. CASE ~(OnCreateChannelName(c) \/ OnSelectChannel(c))
  <2>1. UNCHANGED channel
    BY <1>3 DEF Step, Accept, Client, ReadLine, ReadEOF, ReadReset, IdleExpires,
       Handler, ReadClosed, ReadFails, ProcessCommand, OnJoining, ReadField,
       OnRegisterParticipant, OnAuthParticipant, SubmitPassword, Register,
       DisplayHistory, Mark, OnCreateChannelDesc, CreateChannel, ShowChannelHistory,
       OnAcceptMessages, OnDisconnect, CheckEmpty, ResetShutdownTimer, ProcessMessages,
       Receive, Broadcast, IdleProceeds, readerVars
  <2>. QED BY <2>1
<1>. QED BY <1>1, <1>2, <1>3

\* Pointers into the storage stay good.
LEMMA SelectionStep ==
  ASSUME TypeOK, HandlerInv, SelectionIsValid, NEW c \in Conns, Step(c)
  PROVE  SelectionIsValid'
<1>. SUFFICES ASSUME NEW d \in Conns, channel'[d].stored
              PROVE  IsConnected(d)' /\ channel'[d].alias \in DOMAIN channels'
  BY DEF SelectionIsValid, HasChannel
<1>1. CASE /\ channel'[d].alias = channel[d].alias
           /\ channel'[d].stored = channel[d].stored
  BY <1>1, ConnStateFrame, ChannelsStay DEF SelectionIsValid, HasChannel
<1>2. CASE d = c /\ IsConnected(c) /\ HasChannel(channel'[c].alias)
  BY <1>2, ConnStateFrame, ChannelsStay DEF HasChannel
<1>. QED BY <1>1, <1>2, AliasWriters DEF HandlerInv

\* The sender of a message has an account: the idle goroutine it synchronised with runs
\* for participants only.
LEMMA SendersStep ==
  ASSUME TypeOK, HandlerInv, AccountInv, SendersAreRegistered,
         NEW c \in Conns, Step(c)
  PROVE  SendersAreRegistered'
<1>1. CASE UNCHANGED chatHistory
  BY <1>1, AccountsStay DEF SendersAreRegistered, HasParticipant
<1>2. CASE OnAcceptMessages(c)
  <2>1. IsConnected(c)
    BY <1>2 DEF OnAcceptMessages, Callback, At, AbortConnectionTimeout, HandlerInv,
       Placed, InLogin
  <2>2. HasParticipant(participant[c].Username)
    BY <2>1 DEF AccountInv, Enrolled
  <2>. DEFINE m == BuildChatMsg(Len(chatHistory) + 1, participant[c].Username,
                                ChannelName(c))
  <2>3. m.Channel = NoText /\ m.Sender = participant[c].Username
    BY DEF BuildChatMsg
  <2>4. StoreMessage(m)
    BY <1>2 DEF OnAcceptMessages
  <2>. HIDE DEF m
  <2>5. chatHistory' = Append(chatHistory, m) /\ UNCHANGED participants
    BY <2>3, <2>4 DEF StoreMessage
  <2>6. chatHistory \in Seq(ChatMessage)
    BY DEF TypeOK, BackendTypeOK
  <2>7. ASSUME NEW i \in DOMAIN chatHistory'
        PROVE  HasParticipant(chatHistory'[i].Sender)
    <3>1. CASE i \in DOMAIN chatHistory
      BY <2>5, <2>6, <3>1 DEF SendersAreRegistered
    <3>2. CASE i \notin DOMAIN chatHistory
      BY <2>2, <2>3, <2>5, <2>6, <2>7, <3>2
    <3>. QED BY <3>1, <3>2
  <2>. QED BY <2>5, <2>7 DEF SendersAreRegistered, HasParticipant
<1>3. CASE ~OnAcceptMessages(c)
  <2>1. CASE Register(c)
    BY <1>1, <2>1 DEF Register, RegisterParticipant, backendVars
  <2>2. CASE OnCreateChannelName(c)
    BY <1>1, <2>2 DEF OnCreateChannelName
  <2>3. CASE CreateChannel(c)
    BY <1>1, <2>3 DEF CreateChannel, RegisterChannel, backendVars
  <2>4. CASE ~(Register(c) \/ OnCreateChannelName(c) \/ CreateChannel(c))
    BY <1>1, <1>3, <2>4, BackendReaders DEF backendVars
  <2>. QED BY <2>1, <2>2, <2>3, <2>4
<1>. QED BY <1>2, <1>3

-----------------------------------------------------------------------------
\* What a handler has checked before it calls the storage.

\* A handler comes to the registration by submitting a password, and to the history
\* of a channel by selecting one.
LEMMA PreparedBy ==
  ASSUME TypeOK, NEW c \in Conns, Step(c),
         pc'[c] \in {"register", "channelHistory"}
  PROVE  SubmitPassword(c) \/ OnSelectChannel(c) \/ UNCHANGED pc
<1>. SUFFICES ASSUME ~SubmitPassword(c), ~OnSelectChannel(c)
              PROVE  UNCHANGED pc
  OBVIOUS
<1>1. pc \in [Conns -> Points]
  BY DEF TypeOK, HandlerTypeOK
<1>2. \/ UNCHANGED pc
      \/ \E point : point \notin {"register", "channelHistory"} /\ Continue(c, point)
  BY DEF Step, Accept, Client, ReadLine, ReadEOF, ReadReset, IdleExpires, Handler,
     ReadClosed, ReadFails, ProcessCommand, OnJoining, ReadField, OnRegisterParticipant,
     OnAuthParticipant, Register, DisplayHistory, Mark, OnCreateChannelName,
     OnCreateChannelDesc, CreateChannel, ShowChannelHistory, OnAcceptMessages,
     OnDisconnect, CheckEmpty, ResetShutdownTimer, ProcessMessages, Receive, Broadcast,
     IdleProceeds, NextIteration, readerVars
<1>. QED BY <1>1, <1>2 DEF Continue

\* A step of a handler leaves it prepared for what it is about to call.
LEMMA OwnPrepared ==
  ASSUME TypeOK, NEW c \in Conns, Step(c), Placed(c), Prepared(c)
  PROVE  Prepared(c)'
<1>0. /\ pc \in [Conns -> Points]
      /\ participant \in [Conns -> Participant]
      /\ channel \in [Conns -> ChannelRef]
  BY DEF TypeOK, HandlerTypeOK, ConnTypeOK
<1>1. CASE pc'[c] \notin {"register", "channelHistory"}
  BY <1>1 DEF Prepared
<1>2. CASE SubmitPassword(c)
  <2>. DEFINE p == [participant[c] EXCEPT !.Password = buffer[c].text]
  <2>1. participant'[c] = p
    BY <1>0, <1>2 DEF SubmitPassword
  <2>2. CASE CredentialsValid(c, p)
    <3>1. p.Username \in ValidNames /\ p.Password \in ValidPasswords
      BY <2>2 DEF CredentialsValid
    <3>2. pc'[c] \in {"register", "history"}
      BY <1>0, <1>2, <2>2 DEF SubmitPassword, Continue
    <3>. QED BY <2>1, <3>1, <3>2 DEF Prepared
  <2>3. CASE ~CredentialsValid(c, p)
    <3>1. NextIteration(c, "Joining", "Null", TRUE)
      BY <1>2, <2>3 DEF SubmitPassword
    <3>. QED BY <1>1, <3>1, IterationOwn
  <2>. QED BY <2>2, <2>3
<1>3. CASE OnSelectChannel(c)
  <2>1. CASE NextIteration(c, "ProcessingMenu", "Null", TRUE)
    BY <1>1, <2>1, IterationOwn
  <2>2. CASE ~NextIteration(c, "ProcessingMenu", "Null", TRUE)
    <3>1. \E k \in GetChannels :
            channel' = [channel EXCEPT ![c] =
                          [stored |-> TRUE, alias |-> k, Name |-> NoText]]
      BY <1>3, <2>2 DEF OnSelectChannel
    <3>2. pc'[c] = "channelHistory"
      BY <1>0, <1>3, <2>2 DEF OnSelectChannel, Continue
    <3>. QED BY <1>0, <3>1, <3>2 DEF Prepared
  <2>. QED BY <2>1, <2>2
<1>4. CASE UNCHANGED pc /\ ~SubmitPassword(c) /\ ~OnSelectChannel(c)
  <2>1. CASE OnRegisterParticipant(c) \/ OnAuthParticipant(c) \/ OnCreateChannelName(c)
    <3>1. pc[c] = "process"
      BY <2>1 DEF OnRegisterParticipant, OnAuthParticipant, OnCreateChannelName,
         Callback, At
    <3>. QED BY <1>4, <3>1 DEF Prepared
  <2>2. CASE ~(OnRegisterParticipant(c) \/ OnAuthParticipant(c)
               \/ OnCreateChannelName(c))
    <3>1. UNCHANGED <<participant, channel>>
      BY <1>4, <2>2 DEF Step, Accept, Client, ReadLine, ReadEOF, ReadReset, IdleExpires,
         Handler, ReadClosed, ReadFails, ProcessCommand, OnJoining, Register,
         DisplayHistory, Mark, OnCreateChannelDesc, CreateChannel, ShowChannelHistory,
         OnAcceptMessages, OnDisconnect, CheckEmpty, ResetShutdownTimer,
         ProcessMessages, Receive, Broadcast, IdleProceeds, IdleTimeout, IdleCancel,
         IdleReturn, connVars, readerVars
    <3>. QED BY <1>4, <3>1 DEF Prepared
  <2>. QED BY <2>1, <2>2
<1>. QED BY <1>1, <1>2, <1>3, <1>4, PreparedBy

\* So does the step of another handler, which writes neither its participant nor its
\* pointer.
LEMMA PreparedStep ==
  ASSUME TypeOK, HandlerInv, CheckedInv, NEW c \in Conns, Step(c)
  PROVE  CheckedInv'
<1>. SUFFICES ASSUME NEW d \in Conns PROVE Prepared(d)'
  BY DEF CheckedInv
<1>1. CASE d = c
  BY <1>1, OwnPrepared DEF CheckedInv, HandlerInv
<1>2. CASE d # c
  <2>1. pc'[d] = pc[d] /\ participant'[d] = participant[d]
    BY <1>2, PcFrame, ParticipantFrame
  <2>2. channel'[d].stored = channel[d].stored
    BY <1>2, AliasWriters DEF HandlerInv
  <2>. QED BY <2>1, <2>2 DEF CheckedInv, Prepared
<1>. QED BY <1>1, <1>2

-----------------------------------------------------------------------------
\* Panics.

\* A step is made by a process that has not panicked.
LEMMA NoStepAfterPanic ==
  ASSUME NEW c \in Conns, Step(c)
  PROVE  panic = NoPanic
BY DEF Step, Accept, Client, ReadLine, ReadEOF, ReadReset, IdleExpires, Handler,
   ReadClosed, ReadFails, ProcessCommand, OnJoining, Callback, OnRegisterParticipant,
   OnAuthParticipant, SubmitPassword, Register, DisplayHistory, Mark,
   OnCreateChannelName, OnCreateChannelDesc, CreateChannel, OnSelectChannel,
   ShowChannelHistory, OnAcceptMessages, OnDisconnect, CheckEmpty, ResetShutdownTimer,
   ProcessMessages, Receive, Broadcast, IdleProceeds, At

\* A call of GetChatHistory that panics names a channel that does not exist, either
\* as typed or as it stands in a stored channel whose key is another name.
LEMMA HistoryPanicStep ==
  ASSUME TypeOK, HandlerInv, CheckedInv, OnlyBackendPanics, SelectionIsValid,
         NEW c \in Conns, Step(c)
  PROVE  HistoryPanicExplained'
<1>0. panic = NoPanic
  BY NoStepAfterPanic
<1>1. CASE ProcessCommand(c)
  <2>1. CASE panic' = NoPanic
    BY <2>1 DEF HistoryPanicExplained, NoPanic
  <2>2. CASE panic' # NoPanic
    <3>1. HistoryPanics(c) /\ UNCHANGED <<buffer, channels>>
      BY <1>0, <1>1, <2>2 DEF ProcessCommand, readerVars, backendVars
    <3>. QED
      BY <3>1 DEF HistoryPanics, GetChatHistoryPanics, HistoryPanicExplained, HasChannel
  <2>. QED BY <2>1, <2>2
<1>2. CASE ShowChannelHistory(c)
  <2>1. CASE panic' = NoPanic
    BY <2>1 DEF HistoryPanicExplained, NoPanic
  <2>2. CASE panic' # NoPanic
    <3>. DEFINE key == channel[c].alias
    <3>1. /\ GetChatHistoryPanics(ChannelName(c))
          /\ UNCHANGED <<channels, channel, pc>>
      BY <1>0, <1>2, <2>2 DEF ShowChannelHistory, backendVars, readerVars
    <3>2. channel[c].stored
      BY <1>2 DEF ShowChannelHistory, At, CheckedInv, Prepared
    <3>3. key \in DOMAIN channels /\ ChannelName(c) = channels[key].Name
      BY <3>2 DEF SelectionIsValid, HasChannel, ChannelName
    <3>4. channels[key].Name # key
      BY <3>1, <3>3 DEF GetChatHistoryPanics, HasChannel
    <3>. QED BY <1>2, <3>1, <3>4 DEF ShowChannelHistory, At, HistoryPanicExplained
  <2>. QED BY <2>1, <2>2
<1>3. CASE ~(ProcessCommand(c) \/ ShowChannelHistory(c))
  <2>1. panic' # "GetChatHistory"
    <3>1. CASE Register(c)
      BY <1>0, <3>1 DEF Register, RegisterParticipant, Panic, NoPanic
    <3>2. CASE CreateChannel(c)
      BY <1>0, <3>2 DEF CreateChannel, RegisterChannel, Panic, NoPanic
    <3>3. CASE OnAcceptMessages(c)
      BY <1>0, <3>3 DEF OnAcceptMessages, StoreMessage, BuildChatMsg, Panic, NoPanic
    <3>4. CASE Mark(c) \/ OnDisconnect(c)
      BY <1>0, <3>4 DEF Mark, MarkAsConnected, OnDisconnect, RemoveConn, Panic, NoPanic
    <3>5. CASE ~(Register(c) \/ CreateChannel(c) \/ OnAcceptMessages(c) \/ Mark(c)
                 \/ OnDisconnect(c))
      <4>1. UNCHANGED panic
        BY <1>3, <3>5 DEF Step, Accept, Client, ReadLine, ReadEOF, ReadReset,
           IdleExpires, Handler, ReadClosed, ReadFails, OnJoining, ReadField,
           OnRegisterParticipant, OnAuthParticipant, SubmitPassword, DisplayHistory,
           OnCreateChannelName, OnCreateChannelDesc, OnSelectChannel, CheckEmpty,
           ResetShutdownTimer, ProcessMessages, Receive, Broadcast, IdleProceeds
      <4>. QED BY <1>0, <4>1 DEF NoPanic
    <3>. QED BY <3>1, <3>2, <3>3, <3>4, <3>5
  <2>. QED BY <2>1 DEF HistoryPanicExplained
<1>. QED BY <1>1, <1>2, <1>3

\* A step that panics does so in one of three methods of the storage: a handler that
\* marks or removes its connection finds it in the map, and every message is for the
\* general chat.
LEMMA PanicStep ==
  ASSUME HandlerInv, OnlyBackendPanics, NEW c \in Conns, Step(c)
  PROVE  OnlyBackendPanics'
<1>1. CASE ProcessCommand(c) \/ ShowChannelHistory(c)
  BY <1>1 DEF ProcessCommand, ShowChannelHistory, Panic, OnlyBackendPanics
<1>2. CASE Register(c)
  BY <1>2 DEF Register, RegisterParticipant, Panic, OnlyBackendPanics
<1>3. CASE Mark(c)
  <2>1. c \in connMap
    BY <1>3 DEF Mark, At, HandlerInv, Placed
  <2>. QED BY <1>3, <2>1 DEF Mark, MarkAsConnected, OnlyBackendPanics
<1>4. CASE CreateChannel(c)
  BY <1>4 DEF CreateChannel, RegisterChannel, Panic, OnlyBackendPanics
<1>5. CASE OnAcceptMessages(c)
  <2>1. UNCHANGED panic
    BY <1>5 DEF OnAcceptMessages, StoreMessage, BuildChatMsg
  <2>. QED BY <2>1 DEF OnlyBackendPanics
<1>6. CASE OnDisconnect(c)
  <2>1. c \in connMap
    BY <1>6 DEF OnDisconnect, At, HandlerInv, Placed
  <2>. QED BY <1>6, <2>1 DEF OnDisconnect, RemoveConn, OnlyBackendPanics
<1>7. CASE ~(ProcessCommand(c) \/ ShowChannelHistory(c) \/ Register(c) \/ Mark(c)
             \/ CreateChannel(c) \/ OnAcceptMessages(c) \/ OnDisconnect(c))
  <2>1. UNCHANGED panic
    BY <1>7 DEF Step, Accept, Client, ReadLine, ReadEOF, ReadReset, IdleExpires,
       Handler, ReadClosed, ReadFails, OnJoining, ReadField, OnRegisterParticipant,
       OnAuthParticipant, SubmitPassword, DisplayHistory, OnCreateChannelName,
       OnCreateChannelDesc, OnSelectChannel, CheckEmpty, ResetShutdownTimer,
       ProcessMessages, Receive, Broadcast, IdleProceeds
  <2>. QED BY <2>1 DEF OnlyBackendPanics
<1>. QED BY <1>1, <1>2, <1>3, <1>4, <1>5, <1>6, <1>7

-----------------------------------------------------------------------------
\* The inductive invariant.

\* It holds when the session starts.
LEMMA InitIInv == Init => IInv
<1>. SUFFICES ASSUME Init PROVE IInv
  OBVIOUS
<1>1. BackendTypeOK
  BY DEF Init, NewMemoryBackend, BackendTypeOK
<1>2. ConnTypeOK
  BY SystemMessages DEF Init, NewConnections, ConnTypeOK, NoParticipant, Participant,
     String, IdleStates
<1>3. HandlerTypeOK
  <2>1. "new" \in Points /\ "Joining" \in States /\ "Null" \in Substates
    BY DEF Points, States, Substates
  <2>2. NoLine \in Line /\ NoText \in String
    BY DEF NoLine, Line, String
  <2>. QED BY <2>1, <2>2, SystemMessages DEF Init, HandlerTypeOK, ChannelRef, OwnChannel
<1>4. TypeOK
  BY <1>1, <1>2, <1>3 DEF Init, TypeOK, Panics
<1>5. HandlerInv
  BY DEF Init, NewConnections, HandlerInv, Placed, InLogin, IsConnected
<1>6. AccountInv
  BY DEF Init, NewConnections, AccountInv, Enrolled, IsConnected
<1>7. SelectionIsValid /\ OnlyBackendPanics /\ HistoryPanicExplained
  BY DEF Init, SelectionIsValid, OnlyBackendPanics, HistoryPanicExplained, OwnChannel,
     NoPanic
<1>8. SendersAreRegistered
  BY DEF Init, NewMemoryBackend, SendersAreRegistered
<1>9. CheckedInv
  BY DEF Init, CheckedInv, Prepared
<1>. QED BY <1>4, <1>5, <1>6, <1>7, <1>8, <1>9 DEF IInv

\* Every step of every handler, timer and message loop keeps it.
LEMMA NextIInv == IInv /\ [Next]_vars => IInv'
<1>. SUFFICES ASSUME IInv, [Next]_vars PROVE IInv'
  OBVIOUS
<1>1. CASE Next
  <2>1. PICK c \in Conns : Step(c)
    BY <1>1 DEF Next
  <2>2. TypeOK /\ HandlerInv /\ CheckedInv /\ AccountInv /\ SelectionIsValid
          /\ OnlyBackendPanics /\ SendersAreRegistered
    BY DEF IInv
  <2>3. OnlyBackendPanics'
    BY <2>1, <2>2, PanicStep
  <2>4. panic' \in Panics
    BY <2>3 DEF OnlyBackendPanics, Panics
  <2>5. TypeOK'
    BY <2>1, <2>2, <2>4, BackendType, ConnType, HandlerType DEF TypeOK
  <2>6. HandlerInv'
    BY <2>1, <2>2, OthersPlaced, OwnPlaced DEF HandlerInv
  <2>7. AccountInv'
    BY <2>1, <2>2, AccountStep
  <2>8. SelectionIsValid' /\ SendersAreRegistered'
    BY <2>1, <2>2, SelectionStep, SendersStep
  <2>9. CheckedInv' /\ HistoryPanicExplained'
    BY <2>1, <2>2, PreparedStep, HistoryPanicStep
  <2>. QED BY <2>3, <2>5, <2>6, <2>7, <2>8, <2>9 DEF IInv
<1>2. CASE UNCHANGED vars
  <2>1. TypeOK'
    BY <1>2, BackendFrame, ConnFrame
       DEF IInv, TypeOK, HandlerTypeOK, vars, readerVars
  <2>2. HandlerInv'
    BY <1>2 DEF IInv, HandlerInv, Placed, InLogin, IsConnected, vars, connVars,
       readerVars
  <2>3. AccountInv'
    BY <1>2 DEF IInv, AccountInv, Enrolled, IsConnected, HasParticipant, vars,
       backendVars, connVars, readerVars
  <2>4. SelectionIsValid' /\ OnlyBackendPanics'
    BY <1>2 DEF IInv, SelectionIsValid, OnlyBackendPanics, HasChannel, IsConnected,
       vars, backendVars, connVars, readerVars
  <2>5. SendersAreRegistered'
    BY <1>2 DEF IInv, SendersAreRegistered, HasParticipant, vars, backendVars
  <2>6. CheckedInv' /\ HistoryPanicExplained'
    BY <1>2 DEF IInv, CheckedInv, Prepared, HistoryPanicExplained, HasChannel, vars,
       backendVars, connVars, readerVars
  <2>. QED BY <2>1, <2>2, <2>3, <2>4, <2>5, <2>6 DEF IInv
<1>. QED BY <1>1, <1>2

\* So it holds in every state of every behaviour.
THEOREM Invariant == Spec => []IInv
BY InitIInv, NextIInv, PTL DEF Spec

\* Every variable of the handlers, the connections and the storage keeps its type.
THEOREM TypeCorrect == Spec => []TypeOK
<1>1. IInv => TypeOK
  BY DEF IInv
<1>. QED BY <1>1, Invariant, PTL

\* Whoever is connected has an account, under the name and password typed.
THEOREM ConnectedRegistered == Spec => []ConnectedIsRegistered
<1>1. IInv => ConnectedIsRegistered
  BY DEF IInv, HandlerInv, Placed, AccountInv, Enrolled, ConnectedIsRegistered
<1>. QED BY <1>1, Invariant, PTL

\* A connection is a one-to-one mapping to a participant, although a name is tested
\* in one call of the storage and taken in another.
THEOREM OneConnectionPerName == Spec => []UniqueUsernames
<1>1. IInv => UniqueUsernames
  BY DEF IInv, AccountInv, Enrolled, UniqueUsernames
<1>. QED BY <1>1, Invariant, PTL

\* removeConn, markAsConnected and StoreMessage never panic: what can end the process
\* are three methods of the storage.
THEOREM PanicsOfTheStorage == Spec => []OnlyBackendPanics
<1>1. IInv => OnlyBackendPanics
  BY DEF IInv
<1>. QED BY <1>1, Invariant, PTL

\* GetChatHistory panics on a name that was typed after :history, or that a stored
\* channel has got although its key is another one.
THEOREM HistoryPanicsHaveTwoCauses == Spec => []HistoryPanicExplained
<1>1. IInv => HistoryPanicExplained
  BY DEF IInv
<1>. QED BY <1>1, Invariant, PTL

\* A pointer of a connection into the storage belongs to a participant, and the
\* channel it points to is stored.
THEOREM SelectionsStayValid == Spec => []SelectionIsValid
<1>1. IInv => SelectionIsValid
  BY DEF IInv
<1>. QED BY <1>1, Invariant, PTL

\* Whoever has a message in the chat history has an account.
THEOREM OnlyParticipantsSpeak == Spec => []SendersAreRegistered
<1>1. IInv => SendersAreRegistered
  BY DEF IInv
<1>. QED BY <1>1, Invariant, PTL

\* Every message is in the general chat, and addressed to it.
GeneralChatOnly ==
  /\ \A i \in DOMAIN chatHistory : chatHistory[i].Channel = NoText
  /\ \A key \in DOMAIN channels : channels[key].ChatHistory = <<>>

\* A message is built without a channel, and channels are created empty.
LEMMA GeneralChatStep ==
  ASSUME TypeOK, GeneralChatOnly, NEW c \in Conns, Step(c)
  PROVE  GeneralChatOnly'
<1>. USE DEF GeneralChatOnly
<1>1. CASE OnAcceptMessages(c)
  <2>. DEFINE m == BuildChatMsg(Len(chatHistory) + 1, participant[c].Username,
                                ChannelName(c))
  <2>1. m.Channel = NoText /\ StoreMessage(m)
    BY <1>1 DEF BuildChatMsg, OnAcceptMessages
  <2>. HIDE DEF m
  <2>2. chatHistory' = Append(chatHistory, m) /\ UNCHANGED channels
    BY <2>1 DEF StoreMessage
  <2>3. chatHistory \in Seq(ChatMessage)
    BY DEF TypeOK, BackendTypeOK
  <2>4. \A i \in DOMAIN chatHistory' : chatHistory'[i].Channel = NoText
    BY <2>1, <2>2, <2>3
  <2>. QED BY <2>2, <2>4
<1>2. CASE CreateChannel(c)
  BY <1>2 DEF CreateChannel, RegisterChannel, Store, backendVars
<1>3. CASE OnCreateChannelName(c)
  <2>1. /\ UNCHANGED chatHistory
        /\ \/ UNCHANGED channels
           \/ channels' = [channels EXCEPT ![channel[c].alias].Name = buffer[c].text]
    BY <1>3 DEF OnCreateChannelName, WriteChannelName
  <2>2. \A key \in DOMAIN channels : channels[key] \in Channel
    BY DEF TypeOK, BackendTypeOK
  <2>. QED BY <2>1, <2>2 DEF Channel
<1>4. CASE ~(OnAcceptMessages(c) \/ CreateChannel(c) \/ OnCreateChannelName(c))
  BY <1>4, BackendReaders DEF Register, RegisterParticipant, backendVars
<1>. QED BY <1>1, <1>2, <1>3, <1>4

\* Nothing that is typed is ever stored under a channel, whatever was selected: the
\* histories of all channels stay empty.
THEOREM ChannelsStayEmpty == Spec => []GeneralChatOnly
<1>1. Init => GeneralChatOnly
  BY DEF Init, NewMemoryBackend, GeneralChatOnly
<1>2. TypeOK /\ GeneralChatOnly /\ [Next]_vars => GeneralChatOnly'
  BY GeneralChatStep DEF Next, vars, backendVars, GeneralChatOnly
<1>. QED BY <1>1, <1>2, TypeCorrect, PTL DEF Spec

-----------------------------------------------------------------------------
\* Action properties.

\* A handler is in the login dialogue only if it was there before.
LEMMA LoginIsNotReentered ==
  ASSUME TypeOK, NEW c \in Conns, Step(c),
         state'[c] \in {"Joining", "Registration", "Authentication"}
  PROVE  state[c] \in {"Joining", "Registration", "Authentication"}
<1>1. CASE OnJoining(c)
  <2>. DEFINE target == OptionTarget(c, OptionOf(buffer[c]))
  <2>1. \E r : NextIteration(c, target[1], target[2], r)
    BY <1>1 DEF OnJoining
  <2>2. state'[c] = target[1]
    BY <2>1, IterationOwn
  <2>3. \/ target[1] \notin {"Joining", "Registration", "Authentication"}
        \/ target[1] = state[c]
        \/ state[c] = "Joining"
    BY DEF OptionTarget
  <2>. QED BY <2>2, <2>3
<1>2. CASE SubmitPassword(c)
  BY <1>2 DEF SubmitPassword, Callback
<1>3. CASE OnRegisterParticipant(c) \/ OnAuthParticipant(c)
  BY <1>3 DEF OnRegisterParticipant, OnAuthParticipant, Callback
<1>4. CASE ReadEOF(c) \/ ProcessCommand(c) \/ Mark(c) \/ OnCreateChannelName(c)
           \/ OnCreateChannelDesc(c) \/ CreateChannel(c) \/ OnSelectChannel(c)
           \/ ShowChannelHistory(c)
  <2>1. \/ UNCHANGED state
        \/ \E t, r : \/ NextIteration(c, "Disconnecting", t, r)
                     \/ NextIteration(c, "ProcessingMenu", t, r)
                     \/ NextIteration(c, "AcceptingMessages", t, r)
                     \/ NextIteration(c, "CreatingChannel", t, r)
                     \/ NextIteration(c, state[c], t, r)
    BY <1>4 DEF ReadEOF, ProcessCommand, Mark, OnCreateChannelName,
       OnCreateChannelDesc, CreateChannel, OnSelectChannel, ShowChannelHistory,
       readerVars
  <2>2. \/ UNCHANGED state
        \/ state'[c] \in {"Disconnecting", "ProcessingMenu", "AcceptingMessages",
                          "CreatingChannel", state[c]}
    BY <2>1, IterationOwn
  <2>. QED BY <2>2
<1>5. CASE ReadReset(c) \/ ReadClosed(c)
  <2>1. UpdateState(c, "Disconnecting", "Null")
    BY <1>5 DEF ReadReset, ReadClosed, ReadFails
  <2>. QED BY <2>1 DEF UpdateState, TypeOK, HandlerTypeOK
<1>6. CASE Accept(c) \/ (\E line \in Input[c] : ReadLine(c, line)) \/ Register(c)
           \/ DisplayHistory(c) \/ OnAcceptMessages(c) \/ OnDisconnect(c)
           \/ CheckEmpty(c) \/ ResetShutdownTimer(c) \/ ProcessMessages(c)
           \/ IdleExpires(c) \/ IdleProceeds(c)
  BY <1>6 DEF Accept, ReadLine, Register, DisplayHistory, OnAcceptMessages,
     OnDisconnect, CheckEmpty, ResetShutdownTimer, ProcessMessages, Receive, Broadcast,
     IdleExpires, IdleProceeds, readerVars
<1>. QED BY <1>1, <1>2, <1>3, <1>4, <1>5, <1>6 DEF Step, Client, Handler

\* A connection becomes connected by the mark at the end of a registration.
LEMMA ConnectedByMark ==
  ASSUME TypeOK, NEW c \in Conns, Step(c), IsConnected(c)', ~IsConnected(c)
  PROVE  Mark(c)
<1>1. CASE Mark(c)
  BY <1>1
<1>2. CASE ~Mark(c)
  <2>1. UNCHANGED connState
    BY <1>2 DEF Step, Accept, Client, ReadLine, ReadEOF, ReadReset, IdleExpires,
       Handler, ReadClosed, ReadFails, ProcessCommand, OnJoining, ReadField,
       OnRegisterParticipant, OnAuthParticipant, SubmitPassword, Register,
       DisplayHistory, OnCreateChannelName, OnCreateChannelDesc, CreateChannel,
       OnSelectChannel, ShowChannelHistory, OnAcceptMessages, OnDisconnect, CheckEmpty,
       ResetShutdownTimer, ProcessMessages, Receive, Broadcast, IdleProceeds,
       IdleTimeout, IdleCancel, IdleReturn, connVars
  <2>. QED BY <2>1 DEF IsConnected
<1>. QED BY <1>1, <1>2

\* The name that other goroutines read without the reader's knowledge never changes
\* once they may read it.
THEOREM NamesAreFixed == Spec => ConnectedNameIsFixed
<1>. DEFINE Fixed == \A c \in Conns :
              IsConnected(c) => IsConnected(c)' /\ participant[c]' = participant[c]
<1>1. ASSUME IInv, [Next]_vars PROVE Fixed
  <2>. SUFFICES ASSUME NEW d \in Conns, IsConnected(d)
                PROVE  IsConnected(d)' /\ participant[d]' = participant[d]
    OBVIOUS
  <2>1. CASE UNCHANGED vars
    BY <2>1 DEF IsConnected, vars, connVars
  <2>2. CASE Next
    <3>1. PICK c \in Conns : Step(c)
      BY <2>2 DEF Next
    <3>2. TypeOK /\ Placed(c)
      BY <1>1 DEF IInv, HandlerInv
    <3>3. IsConnected(d)'
      BY <3>1, <3>2, ConnStateFrame
    <3>4. CASE d = c
      BY <3>1, <3>2, <3>3, <3>4, ParticipantWriters DEF Enrolled
    <3>5. CASE d # c
      BY <3>1, <3>2, <3>3, <3>5, ParticipantFrame
    <3>. QED BY <3>3, <3>4, <3>5
  <2>. QED BY <1>1, <2>1, <2>2
<1>. QED BY <1>1, Invariant, PTL DEF ConnectedNameIsFixed, Spec

\* A client who has left the login dialogue without being connected never gets in.
THEOREM LockedOut == Spec => LockedOutForGood
<1>1. ASSUME IInv, [Next]_vars PROVE \A c \in Conns : Locked(c) => Locked(c)'
  <2>. SUFFICES ASSUME NEW d \in Conns, Locked(d) PROVE Locked(d)'
    OBVIOUS
  <2>1. CASE UNCHANGED vars
    BY <2>1 DEF Locked, IsConnected, vars, connVars, readerVars
  <2>2. CASE Next
    <3>1. PICK c \in Conns : Step(c)
      BY <2>2 DEF Next
    <3>2. TypeOK /\ Placed(d)
      BY <1>1 DEF IInv, HandlerInv
    <3>3. CASE d # c
      BY <3>1, <3>2, <3>3, StateFrame, ConnStateFrame DEF Locked, IsConnected
    <3>4. CASE d = c
      <4>1. ~Mark(d)
        BY <3>2 DEF Mark, At, Placed, InLogin, Locked
      <4>. QED
        BY <3>1, <3>2, <3>4, <4>1, ConnectedByMark, LoginIsNotReentered DEF Locked
    <3>. QED BY <3>3, <3>4
  <2>. QED BY <1>1, <2>1, <2>2
<1>. QED BY <1>1, Invariant, PTL DEF LockedOutForGood, Spec

\* A handler that hangs makes no step.  Its last message may still be broadcast, and
\* of its idle goroutine, which is in no select, there is at most the end to come.
LEMMA HungSteps ==
  ASSUME NEW c \in Conns, Step(c), Hung(c)
  PROVE  Broadcast(c) \/ (IdleCancel(c) /\ UNCHANGED readerVars)
<1>1. ~Accept(c) /\ ~Client(c) /\ ~Receive(c)
  BY DEF Hung, Accept, Client, ReadLine, ReadEOF, ReadReset, IdleExpires, IdleTimeout,
     Receive, At
<1>2. ~Handler(c)
  BY DEF Hung, Handler, ReadClosed, ProcessCommand, OnJoining, OnRegisterParticipant,
     OnAuthParticipant, SubmitPassword, Register, DisplayHistory, Mark,
     OnCreateChannelName, OnCreateChannelDesc, CreateChannel, OnSelectChannel,
     ShowChannelHistory, OnAcceptMessages, AbortConnectionTimeout, OnDisconnect,
     CheckEmpty, ResetShutdownTimer, Callback, At, MenuStates
<1>. QED BY <1>1, <1>2 DEF Step, ProcessMessages, IdleProceeds, IdleReturn, Hung

\* Nor does a step of another handler, or of the message loop, set it free.
LEMMA HungStep ==
  ASSUME TypeOK, HandlerInv, NEW c \in Conns, Step(c), NEW d \in Conns, Hung(d)
  PROVE  Hung(d)' /\ d \in connMap'
<1>1. d \in connMap
  BY DEF HandlerInv, Placed, Hung
<1>2. CASE d # c
  BY <1>1, <1>2, PcFrame, OutboxFrame, StateFrame, BufferFrame, IdleFrame, ConnMapFrame
     DEF Hung
<1>3. CASE d = c
  <2>1. Broadcast(d) \/ (IdleCancel(d) /\ UNCHANGED readerVars)
    BY <1>3, HungSteps
  <2>2. connMap' = connMap /\ idle'[d] # "waiting" /\ UNCHANGED readerVars
    BY <2>1 DEF IdleCancel, Broadcast, TypeOK, ConnTypeOK, Hung
  <2>. QED BY <1>1, <2>2 DEF Hung, readerVars
<1>. QED BY <1>2, <1>3

\* A message read when nobody receives from abortConnectionTimeout is the last thing
\* a handler does, and its connection is never removed.
THEOREM HandlersHang == Spec => HungForGood
<1>1. ASSUME IInv, [Next]_vars
      PROVE  \A c \in Conns : Hung(c) => Hung(c)' /\ c \in connMap'
  <2>. SUFFICES ASSUME NEW d \in Conns, Hung(d) PROVE Hung(d)' /\ d \in connMap'
    OBVIOUS
  <2>1. CASE UNCHANGED vars
    BY <1>1, <2>1 DEF Hung, IInv, HandlerInv, Placed, vars, connVars, readerVars
  <2>2. CASE Next
    BY <1>1, <2>2, HungStep DEF Next, IInv
  <2>. QED BY <1>1, <2>1, <2>2
<1>. QED BY <1>1, Invariant, PTL DEF HungForGood, Spec

=============================================================================
