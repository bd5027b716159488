---------------------------- MODULE DeliveryProofs ----------------------------
(***************************************************************************)
(* Proofs about what the participants read, for any number of connections  *)
(* and messages: DeliveryInv and AirInv hold throughout, and with them     *)
(* nothing that others store after a client was marked as connected is     *)
(* lost, repeated or, of one sender, reordered.                            *)
(***************************************************************************)
EXTENDS ReaderProofs

-----------------------------------------------------------------------------
\* Frames.

\* A handler with a message in its outbox moves for no step but the loop's, and its
\* program counter for none at all.
LEMMA BlockedSteps ==
  ASSUME NEW c \in Conns, Step(c), outbox[c] # NoMsg
  PROVE  /\ Receive(c) \/ Broadcast(c) \/ IdleExpires(c) \/ IdleProceeds(c)
         /\ UNCHANGED pc
<1>1. Receive(c) \/ Broadcast(c) \/ IdleExpires(c) \/ IdleProceeds(c)
  BY DEF Step, Accept, Client, ReadLine, ReadEOF, ReadReset, Handler, ReadClosed,
     ProcessCommand, OnJoining, OnRegisterParticipant, OnAuthParticipant,
     SubmitPassword, Register, DisplayHistory, Mark, OnCreateChannelName,
     OnCreateChannelDesc, CreateChannel, OnSelectChannel, ShowChannelHistory,
     OnAcceptMessages, OnDisconnect, CheckEmpty, ResetShutdownTimer, Callback, At,
     ProcessMessages
<1>. QED BY <1>1 DEF Receive, Broadcast, IdleExpires, IdleProceeds, readerVars

\* Whoever is connected stays so, under its name.
LEMMA ConnectedStays ==
  ASSUME TypeOK, HandlerInv, NEW c \in Conns, Step(c), NEW d \in Conns, IsConnected(d)
  PROVE  IsConnected(d)' /\ participant'[d] = participant[d]
<1>1. IsConnected(d)'
  BY ConnStateFrame
<1>2. CASE d = c
  BY <1>1, <1>2, ParticipantWriters DEF HandlerInv, Enrolled
<1>3. CASE d # c
  BY <1>1, <1>3, ParticipantFrame
<1>. QED BY <1>1, <1>2, <1>3

\* Nobody comes on the air but by being connected: no socket is opened again, and who
\* is added to the map is not connected.
LEMMA OnAirBefore ==
  ASSUME TypeOK, HandlerInv, NEW c \in Conns, Step(c), NEW d \in Conns,
         IsConnected(d), OnAir(d)'
  PROVE  OnAir(d)
<1>1. \/ UNCHANGED netConn
      \/ \E e \in Conns : netConn' = [netConn EXCEPT ![e] = "closed"]
  BY DEF Step, Accept, Client, ReadLine, ReadEOF, ReadReset, IdleExpires, Handler,
     ReadClosed, ReadFails, ProcessCommand, OnJoining, OnRegisterParticipant,
     OnAuthParticipant, SubmitPassword, ReadField, Register, DisplayHistory, Mark,
     OnCreateChannelName, OnCreateChannelDesc, CreateChannel, OnSelectChannel,
     ShowChannelHistory, OnAcceptMessages, OnDisconnect, CheckEmpty, ResetShutdownTimer,
     ProcessMessages, Receive, Broadcast, IdleProceeds, IdleTimeout, IdleCancel,
     IdleReturn, connVars, deliveryVars
<1>2. netConn[d] = "open"
  BY <1>1 DEF OnAir, TypeOK, ConnTypeOK
<1>3. d \in connMap
  <2>1. CASE d # c
    BY <2>1, ConnMapFrame DEF OnAir
  <2>2. CASE Accept(c) /\ d = c
    BY <2>2 DEF Accept, At, HandlerInv, Placed
  <2>3. CASE ~Accept(c)
    <3>1. UNCHANGED connMap \/ connMap' = connMap \ {c}
      BY <2>3 DEF Step, Client, ReadLine, ReadEOF, ReadReset, IdleExpires, Handler,
         ReadClosed, ReadFails, ProcessCommand, OnJoining, OnRegisterParticipant,
         OnAuthParticipant, SubmitPassword, ReadField, Register, DisplayHistory, Mark,
         OnCreateChannelName, OnCreateChannelDesc, CreateChannel, OnSelectChannel,
         ShowChannelHistory, OnAcceptMessages, OnDisconnect, CheckEmpty,
         ResetShutdownTimer, ProcessMessages, Receive, Broadcast, IdleProceeds,
         IdleTimeout, IdleCancel, IdleReturn, connVars, deliveryVars, RemoveConn
    <3>. QED BY <3>1 DEF OnAir
  <2>. QED BY <2>1, <2>2, <2>3
<1>. QED BY <1>2, <1>3 DEF OnAir

\* How much was stored when a client was marked as connected is set then, and stays.
LEMMA EnteredStays ==
  ASSUME TypeOK, HandlerInv, NEW c \in Conns, Step(c), NEW d \in Conns, IsConnected(d)
  PROVE  entered'[d] = entered[d]
<1>1. CASE Mark(c)
  <2>1. d # c
    BY <1>1 DEF Mark, At, HandlerInv, Placed, InLogin
  <2>. QED BY <1>1, <2>1 DEF Mark, TypeOK, ConnTypeOK
<1>2. CASE ~Mark(c)
  BY <1>2 DEF Step, Accept, Client, ReadLine, ReadEOF, ReadReset, IdleExpires, Handler,
     ReadClosed, ReadFails, ProcessCommand, OnJoining, OnRegisterParticipant,
     OnAuthParticipant, SubmitPassword, ReadField, Register, DisplayHistory,
     OnCreateChannelName, OnCreateChannelDesc, CreateChannel, OnSelectChannel,
     ShowChannelHistory, OnAcceptMessages, OnDisconnect, CheckEmpty, ResetShutdownTimer,
     ProcessMessages, Receive, Broadcast, IdleProceeds, IdleTimeout, IdleCancel,
     IdleReturn, connVars, deliveryVars
<1>. QED BY <1>1, <1>2

-----------------------------------------------------------------------------
\* What messages a step concerns.

\* The loop takes a chat message, or the history, from a handler.
Takes(c) == Receive(c) /\ Carries(outbox[c])

\* Whatever is neither the storing of a message nor the reading of the history nor a
\* step of the loop that has to do with either touches no message: the handlers that
\* send one stay where they are.
Silent(c) == ~OnAcceptMessages(c) /\ ~DisplayHistory(c) /\ ~Takes(c) /\ ~Broadcast(c)

\* Such a step leaves the history, what the clients have read and what they are about
\* to read alone.
LEMMA SilentStep ==
  ASSUME TypeOK, NEW c \in Conns, Step(c), Silent(c)
  PROVE  /\ UNCHANGED <<chatHistory, shown, received, inHand>>
         /\ \A d \in Conns : Carries(outbox[d]) \/ Carries(outbox'[d]) =>
              outbox'[d] = outbox[d] /\ pc'[d] = pc[d]
<1>1. UNCHANGED chatHistory
  BY BackendReaders DEF Silent, Register, RegisterParticipant, OnCreateChannelName,
     CreateChannel, RegisterChannel, backendVars
<1>2. UNCHANGED <<shown, received, inHand>>
  BY DEF Silent, Takes, Step, Accept, Client, ReadLine, ReadEOF, ReadReset, IdleExpires,
     Handler, ReadClosed, ReadFails, ProcessCommand, OnJoining, OnRegisterParticipant,
     OnAuthParticipant, SubmitPassword, ReadField, Register, Mark, OnCreateChannelName,
     OnCreateChannelDesc, CreateChannel, OnSelectChannel, ShowChannelHistory,
     OnDisconnect, CheckEmpty, ResetShutdownTimer, ProcessMessages, Receive,
     IdleProceeds, IdleTimeout, IdleCancel, IdleReturn, connVars, deliveryVars
<1>3. ASSUME NEW d \in Conns, d # c
      PROVE  outbox'[d] = outbox[d] /\ pc'[d] = pc[d]
  BY <1>3, OutboxFrame, PcFrame
<1>4. CASE Carries(outbox[c])
  <2>1. outbox[c] # NoMsg
    BY <1>4 DEF Carries, NoMsg
  <2>2. IdleExpires(c) \/ IdleProceeds(c)
    BY <1>4, <2>1, BlockedSteps DEF Silent, Takes
  <2>. QED BY <1>1, <1>2, <1>3, <2>2 DEF IdleExpires, IdleProceeds, readerVars
<1>5. CASE ~Carries(outbox[c])
  <2>1. \/ UNCHANGED outbox
        \/ \E message \in {NoMsg, SysMsg, IdleMsg, LeftMsg} : Send(c, message)
    BY DEF Silent, Step, Accept, Client, ReadLine, ReadEOF, ReadReset, IdleExpires,
       Handler, ReadClosed, ReadFails, ProcessCommand, OnJoining, ReadField,
       OnRegisterParticipant, OnAuthParticipant, SubmitPassword, Register, Mark,
       OnCreateChannelName, OnCreateChannelDesc, CreateChannel, OnSelectChannel,
       ShowChannelHistory, OnDisconnect, CheckEmpty, ResetShutdownTimer,
       ProcessMessages, Receive, IdleProceeds, NextIteration, readerVars
  <2>2. ~Carries(outbox'[c])
    BY <1>5, <2>1 DEF Send, Carries, NoMsg, SysMsg, IdleMsg, LeftMsg, TypeOK,
       HandlerTypeOK
  <2>. QED BY <1>1, <1>2, <1>3, <1>5, <2>2
<1>. QED BY <1>4, <1>5

\* A participant who sends a message has stored it at the end of the history.
LEMMA StoringStep ==
  ASSUME TypeOK, HandlerInv, NEW c \in Conns, OnAcceptMessages(c)
  PROVE  \E message \in ChatMessage :
           /\ message.Contents = Len(chatHistory) + 1
           /\ message.Sender = participant[c].Username
           /\ chatHistory' = Append(chatHistory, message)
           /\ outbox[c] = NoMsg
           /\ outbox' = [outbox EXCEPT ![c] = ChatMsg(message)]
           /\ pc'[c] = "read"
           /\ IsConnected(c)
           /\ UNCHANGED <<connMap, connState, participant, netConn, inHand, shown, received>>
<1>. DEFINE message == BuildChatMsg(Len(chatHistory) + 1, participant[c].Username,
                                    ChannelName(c))
<1>1. /\ message \in ChatMessage
      /\ message.Contents = Len(chatHistory) + 1
      /\ message.Sender = participant[c].Username
      /\ message.Channel = NoText
  BY DEF BuildChatMsg, ChatMessage, TypeOK, BackendTypeOK, ConnTypeOK, Participant,
     String
<1>2. StoreMessage(message) /\ SendChat(c, message)
  BY DEF OnAcceptMessages
<1>3. pc'[c] = "read"
  BY DEF OnAcceptMessages, Continue, TypeOK, HandlerTypeOK
<1>4. IsConnected(c)
  BY DEF OnAcceptMessages, Callback, At, AbortConnectionTimeout, HandlerInv, Placed,
     InLogin
<1>5. /\ outbox[c] = NoMsg
      /\ UNCHANGED <<connMap, connState, participant, netConn, inHand, shown, received>>
  BY DEF OnAcceptMessages, Callback, At, deliveryVars
<1>. HIDE DEF message
<1>6. chatHistory' = Append(chatHistory, message)
  BY <1>1, <1>2 DEF StoreMessage
<1>7. outbox' = [outbox EXCEPT ![c] = ChatMsg(message)]
  BY <1>2 DEF SendChat, Send
<1>. QED BY <1>1, <1>3, <1>4, <1>5, <1>6, <1>7

\* What the loop takes from a handler it has in its hand instead, and nothing else.
LEMMA TakingStep ==
  ASSUME TypeOK, NEW c \in Conns, Takes(c)
  PROVE  /\ outbox'[c] = NoMsg /\ inHand'[c] = outbox[c]
         /\ \A d \in Conns : d # c => outbox'[d] = outbox[d] /\ inHand'[d] = NoMsg
         /\ \A d \in Conns : inHand[d] = NoMsg
         /\ UNCHANGED <<chatHistory, connMap, connState, participant, netConn, shown,
                        received, pc>>
BY DEF Takes, Receive, LoopInSelect, Send, TypeOK, ConnTypeOK, HandlerTypeOK, backendVars

\* The loop delivers a chat message to some of those who are online, at the end of what
\* they have received.
LEMMA DeliveryStep ==
  ASSUME TypeOK, NEW c \in Conns, Broadcast(c), inHand[c].kind = "chat"
  PROVE  /\ inHand' = [inHand EXCEPT ![c] = NoMsg]
         /\ \A d \in Conns :
              \/ received'[d] = received[d]
              \/ /\ d \in Online
                 /\ received'[d] = Append(received[d], inHand[c].chats[1])
         /\ UNCHANGED <<chatHistory, connMap, connState, participant, netConn, shown, pc,
                        outbox>>
<1>. DEFINE message == inHand[c].chats[1]
<1>1. \E recipients \in SUBSET Online : BroadcastTo(recipients, message)
  BY DEF Broadcast, BroadcastChatMessage
<1>2. /\ inHand' = [inHand EXCEPT ![c] = NoMsg]
      /\ UNCHANGED <<chatHistory, connMap, connState, participant, netConn, shown, pc,
                     outbox>>
  BY DEF Broadcast, backendVars, readerVars
<1>. HIDE DEF message
<1>3. \A d \in Conns :
         \/ received'[d] = received[d]
         \/ d \in Online /\ received'[d] = Append(received[d], message)
  BY <1>1 DEF BroadcastTo
<1>. QED BY <1>2, <1>3 DEF message

-----------------------------------------------------------------------------
\* Messages in the history.

\* A history that grows keeps its messages, and one that is new is at its end.
LEMMA Appended ==
  ASSUME NEW S, NEW s \in Seq(S), NEW e \in S
  PROVE  /\ Append(s, e) \in Seq(S)
         /\ DOMAIN Append(s, e) = DOMAIN s \cup {Len(s) + 1}
         /\ Len(s) + 1 \notin DOMAIN s
         /\ \A i \in DOMAIN s : Append(s, e)[i] = s[i]
         /\ Append(s, e)[Len(s) + 1] = e
         /\ DOMAIN s \subseteq Nat
         /\ \A i \in DOMAIN s : i < Len(s) + 1
OBVIOUS

\* Nothing follows a message if no later one has the same sender.
LEMMA NothingFollows ==
  ASSUME NEW messages, NEW i
  PROVE  Following(messages, i) = {}
           <=> \A k \in DOMAIN messages :
                 k > i => messages[k].Sender # messages[i].Sender
BY DEF Following

\* What the sender of the message in the loop's hand has stored later is on its way, too.
LEMMA Later ==
  ASSUME HeardInv, NEW c \in Heard, NEW n \in DOMAIN chatHistory,
         n > inHand[c].chats[1].Contents,
         chatHistory[n].Sender = inHand[c].chats[1].Sender
  PROVE  c \in Speaking /\ chatHistory[n] = outbox[c].chats[1] /\ chatHistory[n] \in InFlight
<1>. DEFINE m == inHand[c].chats[1]
<1>1. m.Contents \in DOMAIN chatHistory /\ chatHistory[m.Contents] = m
  BY DEF HeardInv, InHistory
<1>2. chatHistory[n] \in Following(chatHistory, m.Contents)
  BY <1>1 DEF Following
<1>3. c \in Speaking /\ chatHistory[n] = outbox[c].chats[1]
  BY <1>2 DEF HeardInv
<1>. QED BY <1>3 DEF InFlight

-----------------------------------------------------------------------------
\* DeliveryInv is inductive.

\* What has been shown and received is as it was if neither it nor the history changes.
LEMMA ShownKept ==
  ASSUME ShownInv, UNCHANGED <<chatHistory, shown, received>>, NEW d \in Conns
  PROVE  BeginsHistory(shown[d])' /\ Overlap(d)'
<1>1. BeginsHistory(shown[d]) /\ Overlap(d)
  BY DEF ShownInv
<1>2. BeginsHistory(shown[d])'
  BY <1>1 DEF BeginsHistory
<1>3. Overlap(d)'
  BY <1>1 DEF Overlap
<1>. QED BY <1>2, <1>3

\* What is known of the message in the loop's hand stays true where no message moves.
LEMMA HeardKept ==
  ASSUME OneInHand, HeardInv, UNCHANGED <<chatHistory, shown, inHand>>,
         Speaking' = Speaking, \A d \in Speaking : outbox'[d] = outbox[d],
         \A d \in Conns : IsConnected(d) => IsConnected(d)' /\ participant'[d] = participant[d]
  PROVE  OneInHand' /\ HeardInv'
<1>1. OneInHand' /\ Heard' = Heard
  BY DEF OneInHand, Heard
<1>2. ASSUME NEW c \in Heard, NEW message, message = inHand[c].chats[1]
      PROVE  /\ IsConnected(c)' /\ InHistory(message)'
             /\ message.Sender = participant'[c].Username
             /\ c \in Speaking' => outbox'[c].chats[1] # message
             /\ \A x \in Following(chatHistory', message.Contents) :
                  c \in Speaking' /\ x = outbox'[c].chats[1]
             /\ \A d \in Conns : \A i \in DOMAIN shown'[d] :
                  shown'[d][i].Sender = message.Sender => i <= message.Contents
  <2>1. /\ IsConnected(c) /\ InHistory(message)
        /\ message.Sender = participant[c].Username
        /\ c \in Speaking => outbox[c].chats[1] # message
        /\ \A x \in Following(chatHistory, message.Contents) :
             c \in Speaking /\ x = outbox[c].chats[1]
        /\ \A d \in Conns : \A i \in DOMAIN shown[d] :
             shown[d][i].Sender = message.Sender => i <= message.Contents
    BY <1>2 DEF HeardInv
  <2>2. c \in Conns
    BY DEF Heard
  <2>3. IsConnected(c)' /\ message.Sender = participant'[c].Username
    BY <2>1, <2>2
  <2>4. InHistory(message)'
    BY <1>2, <2>1 DEF InHistory
  <2>5. Following(chatHistory', message.Contents) = Following(chatHistory, message.Contents)
    OBVIOUS
  <2>. QED BY <2>1, <2>3, <2>4, <2>5
<1>3. \A c \in Heard : inHand'[c] = inHand[c]
  OBVIOUS
<1>4. HeardInv'
  <2>. SUFFICES ASSUME NEW c \in Heard'
                PROVE  LET message == inHand'[c].chats[1]
                       IN  /\ IsConnected(c)' /\ message.Contents \in DOMAIN chatHistory'
                           /\ chatHistory'[message.Contents] = message
                           /\ message.Sender = participant'[c].Username
                           /\ c \in Speaking' => outbox'[c].chats[1] # message
                           /\ \A x \in Following(chatHistory', message.Contents) :
                                c \in Speaking' /\ x = outbox'[c].chats[1]
                           /\ \A d \in Conns : \A i \in DOMAIN shown'[d] :
                                shown'[d][i].Sender = message.Sender
                                  => i <= message.Contents
    BY DEF HeardInv, InHistory, Following
  <2>1. c \in Heard /\ inHand'[c] = inHand[c]
    BY <1>1, <1>3
  <2>. QED BY <1>2, <2>1 DEF InHistory
<1>. QED BY <1>1, <1>4

\* It holds where nothing has been said or shown.
LEMMA InitDelivery == Init => DeliveryInv
<1>. SUFFICES ASSUME Init PROVE DeliveryInv
  OBVIOUS
<1>1. chatHistory = <<>> /\ \A c \in Conns : shown[c] = <<>> /\ received[c] = <<>>
  BY DEF Init, NewMemoryBackend, NewConnections
<1>2. \A c \in Conns : outbox[c].kind = "none"
  BY DEF Init, NoMsg
<1>3. SpeakerInv
  BY <1>1, <1>2 DEF SpeakerInv, Speaking
<1>6. \A c \in Conns : inHand[c].kind = "none"
  BY DEF Init, NewConnections, NoMsg
<1>7. OneInHand /\ HeardInv
  BY <1>6 DEF OneInHand, HeardInv, Heard
<1>4. ReceivedInv
  BY <1>1 DEF ReceivedInv, InOrder
<1>5. ShownInv
  BY <1>1, <1>2, <1>6 DEF ShownInv, BeginsHistory, Overlap
<1>. QED BY <1>3, <1>4, <1>5, <1>7 DEF DeliveryInv

\* A step that concerns no message.
LEMMA SilentDelivery ==
  ASSUME TypeOK, HandlerInv, DeliveryInv, NEW c \in Conns, Step(c), Silent(c)
  PROVE  DeliveryInv' /\ InFlight' = InFlight
<1>1. /\ UNCHANGED <<chatHistory, shown, received, inHand>>
      /\ \A d \in Conns : Carries(outbox[d]) \/ Carries(outbox'[d]) =>
           outbox'[d] = outbox[d] /\ pc'[d] = pc[d]
  BY SilentStep
<1>2. Speaking' = Speaking /\ \A d \in Speaking : outbox'[d] = outbox[d] /\ pc'[d] = pc[d]
  BY <1>1 DEF Speaking, Carries
<1>3. InFlight' = InFlight
  BY <1>1, <1>2 DEF InFlight, Heard
<1>4. \A d \in Conns : IsConnected(d) => IsConnected(d)' /\ participant'[d] = participant[d]
  BY ConnectedStays
<1>5. SpeakerInv'
  BY <1>1, <1>2, <1>4 DEF DeliveryInv, SpeakerInv, Speaking, InHistory, Following
<1>6. ReceivedInv'
  BY <1>1, <1>3, <1>4 DEF DeliveryInv, ReceivedInv, InHistory, InOrder
<1>7. ShownInv'
  <2>1. \A d \in Conns : outbox'[d].kind = "history" =>
           outbox'[d] = outbox[d] /\ pc'[d] = pc[d]
    BY <1>1 DEF Carries
  <2>2. \A d \in Conns : BeginsHistory(shown[d])' /\ Overlap(d)'
    BY <1>1, ShownKept DEF DeliveryInv
  <2>3. ASSUME NEW d \in Conns, outbox'[d].kind = "history"
        PROVE  pc'[d] = "mark" /\ BeginsHistory(outbox[d].chats)'
    <3>1. pc[d] = "mark" /\ BeginsHistory(outbox[d].chats)
      BY <2>1, <2>3 DEF DeliveryInv, ShownInv
    <3>. QED BY <1>1, <2>1, <2>3, <3>1 DEF BeginsHistory
  <2>4. ASSUME NEW d \in Conns, inHand'[d].kind = "history"
        PROVE  received'[d] = <<>> /\ BeginsHistory(inHand[d].chats)'
    <3>1. received[d] = <<>> /\ BeginsHistory(inHand[d].chats)
      BY <1>1, <2>4 DEF DeliveryInv, ShownInv
    <3>. QED BY <1>1, <3>1 DEF BeginsHistory
  <2>. QED BY <2>2, <2>3, <2>4 DEF ShownInv
<1>8. OneInHand' /\ HeardInv'
  BY <1>1, <1>2, <1>4, HeardKept DEF DeliveryInv
<1>. QED BY <1>3, <1>5, <1>6, <1>7, <1>8 DEF DeliveryInv

\* The step that reads the history: what is about to be shown is all of it.
LEMMA DisplayDelivery ==
  ASSUME TypeOK, DeliveryInv, NEW c \in Conns, DisplayHistory(c)
  PROVE  DeliveryInv' /\ InFlight' = InFlight
<1>1. /\ outbox[c] = NoMsg
      /\ outbox' = [outbox EXCEPT ![c] = HistoryMsg(chatHistory)]
      /\ pc' = [pc EXCEPT ![c] = "mark"]
      /\ UNCHANGED <<backendVars, connVars>>
  BY DEF DisplayHistory, At, Send, Continue
<1>2. /\ outbox \in [Conns -> Outgoing]
      /\ pc \in [Conns -> Points]
  BY DEF TypeOK, HandlerTypeOK
<1>3. /\ outbox'[c] = HistoryMsg(chatHistory) /\ pc'[c] = "mark"
      /\ \A d \in Conns : d # c => outbox'[d] = outbox[d] /\ pc'[d] = pc[d]
  BY <1>1, <1>2
<1>4. /\ outbox[c].kind = "none" /\ outbox'[c].kind = "history"
      /\ outbox'[c].chats = chatHistory
  BY <1>1, <1>3 DEF NoMsg, HistoryMsg
<1>5. Speaking' = Speaking /\ c \notin Speaking
  BY <1>3, <1>4 DEF Speaking
<1>6. InFlight' = InFlight
  BY <1>1, <1>3, <1>5 DEF InFlight, Speaking, Heard, connVars, deliveryVars
<1>7. SpeakerInv'
  BY <1>1, <1>3, <1>5
     DEF DeliveryInv, SpeakerInv, Speaking, InHistory, Following, IsConnected, connVars,
         backendVars
<1>8. ReceivedInv'
  BY <1>1, <1>6
     DEF DeliveryInv, ReceivedInv, InHistory, InOrder, IsConnected, connVars, deliveryVars,
         backendVars
<1>9. ShownInv'
  <2>1. UNCHANGED <<chatHistory, inHand, shown, received>>
    BY <1>1 DEF connVars, deliveryVars, backendVars
  <2>2. \A d \in Conns : outbox'[d].kind = "history" =>
           pc'[d] = "mark" /\ BeginsHistory(outbox[d].chats)'
    BY <1>3, <1>4, <2>1 DEF DeliveryInv, ShownInv, BeginsHistory
  <2>3. \A d \in Conns : BeginsHistory(shown[d])' /\ Overlap(d)'
    BY <2>1, ShownKept DEF DeliveryInv
  <2>4. ASSUME NEW d \in Conns, inHand'[d].kind = "history"
        PROVE  received'[d] = <<>> /\ BeginsHistory(inHand[d].chats)'
    <3>1. received[d] = <<>> /\ BeginsHistory(inHand[d].chats)
      BY <2>1, <2>4 DEF DeliveryInv, ShownInv
    <3>. QED BY <2>1, <3>1 DEF BeginsHistory
  <2>. QED BY <2>2, <2>3, <2>4 DEF ShownInv
<1>10. OneInHand' /\ HeardInv'
  <2>1. \A d \in Speaking : outbox'[d] = outbox[d]
    BY <1>3, <1>5 DEF Speaking
  <2>2. UNCHANGED <<chatHistory, shown, inHand, connState, participant>>
    BY <1>1 DEF connVars, deliveryVars, backendVars
  <2>. QED BY <1>5, <2>1, <2>2, HeardKept DEF DeliveryInv, IsConnected
<1>. QED BY <1>6, <1>7, <1>8, <1>9, <1>10 DEF DeliveryInv

\* The step that shows it: who is shown the history has received nothing yet.
LEMMA ShowDelivery ==
  ASSUME TypeOK, DeliveryInv, NEW c \in Conns, Broadcast(c), inHand[c].kind = "history"
  PROVE  DeliveryInv' /\ UNCHANGED <<chatHistory, received>> /\ InFlight' = InFlight
<1>1. /\ inHand' = [inHand EXCEPT ![c] = NoMsg]
      /\ UNCHANGED <<chatHistory, connState, participant, received, pc, outbox>>
      /\ shown' = shown \/ shown' = [shown EXCEPT ![c] = inHand[c].chats]
  BY DEF Broadcast, ShowHistory, backendVars, readerVars
<1>2. /\ inHand \in [Conns -> Outgoing]
      /\ shown \in [Conns -> Seq(ChatMessage)]
  BY DEF TypeOK, ConnTypeOK
<1>3. /\ inHand'[c].kind = "none"
      /\ \A d \in Conns : d # c => shown'[d] = shown[d]
      /\ shown'[c] = shown[c] \/ shown'[c] = inHand[c].chats
      /\ \A d \in Conns : d # c => inHand'[d].kind = "none" /\ inHand[d].kind = "none"
  BY <1>1, <1>2 DEF NoMsg, DeliveryInv, OneInHand
<1>4. received[c] = <<>>
  BY DEF DeliveryInv, ShownInv
<1>5. Speaking' = Speaking /\ Heard = {} /\ Heard' = {}
  BY <1>1, <1>3 DEF Speaking, Heard
<1>6. InFlight' = InFlight
  BY <1>1, <1>5 DEF InFlight
<1>7. SpeakerInv'
  BY <1>1, <1>5
     DEF DeliveryInv, SpeakerInv, Speaking, InHistory, Following, IsConnected
<1>8. ReceivedInv'
  BY <1>1, <1>6 DEF DeliveryInv, ReceivedInv, InHistory, InOrder, IsConnected
<1>9. ShownInv'
  <2>1. \A d \in Conns : BeginsHistory(shown[d])
    BY DEF DeliveryInv, ShownInv
  <2>2. BeginsHistory(inHand[c].chats)
    BY DEF DeliveryInv, ShownInv
  <2>3. \A d \in Conns : BeginsHistory(shown[d])'
    BY <1>1, <1>3, <2>1, <2>2 DEF BeginsHistory
  <2>4. \A d \in Conns : Overlap(d)'
    BY <1>1, <1>3, <1>4 DEF DeliveryInv, ShownInv, Overlap
  <2>5. \A d \in Conns : outbox'[d].kind = "history" =>
           pc'[d] = "mark" /\ BeginsHistory(outbox[d].chats)'
    BY <1>1 DEF DeliveryInv, ShownInv, BeginsHistory
  <2>6. \A d \in Conns : inHand'[d].kind # "history"
    BY <1>3
  <2>. QED BY <2>3, <2>4, <2>5, <2>6 DEF ShownInv
<1>10. OneInHand' /\ HeardInv'
  BY <1>3, <1>5 DEF OneInHand, HeardInv
<1>. QED BY <1>1, <1>6, <1>7, <1>8, <1>9, <1>10 DEF DeliveryInv

\* The step that takes it from the handler, which has not marked its connection yet.
LEMMA TakingHistory ==
  ASSUME TypeOK, HandlerInv, DeliveryInv, NEW c \in Conns, Takes(c),
         outbox[c].kind = "history"
  PROVE  DeliveryInv' /\ InFlight' = InFlight
<1>1. /\ outbox'[c] = NoMsg /\ inHand'[c] = outbox[c]
      /\ \A d \in Conns : d # c => outbox'[d] = outbox[d] /\ inHand'[d] = NoMsg
      /\ \A d \in Conns : inHand[d] = NoMsg
      /\ UNCHANGED <<chatHistory, connState, participant, shown, received, pc>>
  BY TakingStep
<1>2. NoMsg.kind = "none"
  BY DEF NoMsg
<1>3. received[c] = <<>> /\ BeginsHistory(outbox[c].chats)
  <2>1. pc[c] = "mark" /\ BeginsHistory(outbox[c].chats)
    BY DEF DeliveryInv, ShownInv
  <2>2. ~IsConnected(c)
    BY <2>1 DEF HandlerInv, Placed, InLogin
  <2>. QED BY <2>1, <2>2 DEF DeliveryInv, ReceivedInv
<1>4. Speaking' = Speaking /\ c \notin Speaking /\ Heard = {} /\ Heard' = {}
  <2>1. \A d \in Conns : inHand[d].kind # "chat" /\ inHand'[d].kind # "chat"
    BY <1>1, <1>2
  <2>2. \A d \in Conns : outbox'[d].kind = "chat" <=> outbox[d].kind = "chat"
    BY <1>1, <1>2
  <2>. QED BY <2>1, <2>2 DEF Speaking, Heard
<1>5. InFlight' = InFlight
  <2>1. \A d \in Speaking : outbox'[d] = outbox[d]
    BY <1>1, <1>4 DEF Speaking
  <2>. QED BY <1>4, <2>1 DEF InFlight
<1>6. SpeakerInv'
  BY <1>1, <1>4
     DEF DeliveryInv, SpeakerInv, Speaking, InHistory, Following, IsConnected
<1>7. OneInHand' /\ HeardInv'
  BY <1>1, <1>2, <1>4 DEF OneInHand, HeardInv
<1>8. ReceivedInv'
  BY <1>1, <1>5 DEF DeliveryInv, ReceivedInv, InHistory, InOrder, IsConnected
<1>9. ShownInv'
  <2>1. \A d \in Conns : BeginsHistory(shown[d])' /\ Overlap(d)'
    BY <1>1, ShownKept DEF DeliveryInv
  <2>2. ASSUME NEW d \in Conns, outbox'[d].kind = "history"
        PROVE  pc'[d] = "mark" /\ BeginsHistory(outbox[d].chats)'
    <3>1. outbox'[d] = outbox[d]
      BY <1>1, <1>2, <2>2
    <3>2. pc[d] = "mark" /\ BeginsHistory(outbox[d].chats)
      BY <2>2, <3>1 DEF DeliveryInv, ShownInv
    <3>. QED BY <1>1, <3>1, <3>2 DEF BeginsHistory
  <2>3. ASSUME NEW d \in Conns, inHand'[d].kind = "history"
        PROVE  received'[d] = <<>> /\ BeginsHistory(inHand[d].chats)'
    <3>1. d = c
      BY <1>1, <1>2, <2>3
    <3>. QED BY <1>1, <1>3, <3>1 DEF BeginsHistory
  <2>. QED BY <2>1, <2>2, <2>3 DEF ShownInv
<1>. QED BY <1>5, <1>6, <1>7, <1>8, <1>9 DEF DeliveryInv

\* The step that takes a chat message: it stays on its way, and it is the last of its
\* sender's, so nobody has been shown a later one.
LEMMA TakingChat ==
  ASSUME TypeOK, DeliveryInv, NEW c \in Conns, Takes(c), outbox[c].kind = "chat"
  PROVE  DeliveryInv' /\ InFlight' = InFlight
<1>. DEFINE message == outbox[c].chats[1]
<1>1. /\ outbox'[c] = NoMsg /\ inHand'[c] = outbox[c]
      /\ \A d \in Conns : d # c => outbox'[d] = outbox[d] /\ inHand'[d] = NoMsg
      /\ \A d \in Conns : inHand[d] = NoMsg
      /\ UNCHANGED <<chatHistory, connState, participant, shown, received, pc>>
  BY TakingStep
<1>2. NoMsg.kind = "none"
  BY DEF NoMsg
<1>3. Speaking' = Speaking \ {c} /\ c \in Speaking /\ Heard = {} /\ Heard' = {c}
  BY <1>1, <1>2 DEF Speaking, Heard
<1>4. \A d \in Speaking' : outbox'[d] = outbox[d]
  BY <1>1, <1>3 DEF Speaking
<1>5. InFlight' = InFlight
  <2>1. InFlight = {outbox[d].chats[1] : d \in Speaking}
    BY <1>3 DEF InFlight
  <2>2. InFlight' = {outbox[d].chats[1] : d \in Speaking \ {c}} \cup {message}
    BY <1>1, <1>3, <1>4 DEF InFlight
  <2>. QED BY <1>3, <2>1, <2>2
<1>6. SpeakerInv'
  BY <1>1, <1>3, <1>4
     DEF DeliveryInv, SpeakerInv, Speaking, InHistory, Following, IsConnected
<1>7. OneInHand'
  BY <1>1, <1>2 DEF OneInHand
<1>8. HeardInv'
  <2>1. /\ IsConnected(c) /\ InHistory(message) /\ message.Sender = participant[c].Username
        /\ Following(chatHistory, message.Contents) = {}
    BY <1>3 DEF DeliveryInv, SpeakerInv
  <2>2. ASSUME NEW d \in Conns, NEW i \in DOMAIN shown[d],
               shown[d][i].Sender = message.Sender
        PROVE  i <= message.Contents
    <3>1. i \in DOMAIN chatHistory /\ shown[d][i] = chatHistory[i]
      BY DEF DeliveryInv, ShownInv, BeginsHistory
    <3>2. message.Contents \in DOMAIN chatHistory /\ chatHistory[message.Contents] = message
      BY <2>1 DEF InHistory
    <3>3. ~(i > message.Contents)
      BY <2>1, <2>2, <3>1, <3>2, NothingFollows
    <3>4. DOMAIN chatHistory \subseteq Nat
      BY DEF TypeOK, BackendTypeOK
    <3>. QED BY <3>1, <3>2, <3>3, <3>4
  <2>3. c \notin Speaking'
    BY <1>3
  <2>. QED
    BY <1>1, <1>3, <2>1, <2>2, <2>3 DEF HeardInv, IsConnected, InHistory, Following
<1>9. ReceivedInv'
  BY <1>1, <1>5 DEF DeliveryInv, ReceivedInv, InHistory, InOrder, IsConnected
<1>10. ShownInv'
  BY <1>1, <1>2 DEF DeliveryInv, ShownInv, BeginsHistory, Overlap
<1>. QED BY <1>5, <1>6, <1>7, <1>8, <1>9, <1>10 DEF DeliveryInv

\* The step that stores a message and begins to send it: it is new, and nobody else who
\* speaks has the name of its sender.
LEMMA StoringDelivery ==
  ASSUME TypeOK, HandlerInv, AccountInv, DeliveryInv, NEW c \in Conns,
         OnAcceptMessages(c), Step(c)
  PROVE  /\ DeliveryInv'
         /\ chatHistory'[Len(chatHistory) + 1] \in InFlight'
         /\ InFlight \subseteq InFlight'
<1>. PICK message \in ChatMessage :
            /\ message.Contents = Len(chatHistory) + 1
            /\ message.Sender = participant[c].Username
            /\ chatHistory' = Append(chatHistory, message)
            /\ outbox[c] = NoMsg
            /\ outbox' = [outbox EXCEPT ![c] = ChatMsg(message)]
            /\ pc'[c] = "read"
            /\ IsConnected(c)
            /\ UNCHANGED <<connMap, connState, participant, netConn, inHand, shown,
                           received>>
  BY StoringStep
<1>1. chatHistory \in Seq(ChatMessage) /\ outbox \in [Conns -> Outgoing]
  BY DEF TypeOK, BackendTypeOK, HandlerTypeOK
<1>2. /\ DOMAIN chatHistory' = DOMAIN chatHistory \cup {message.Contents}
      /\ message.Contents \notin DOMAIN chatHistory
      /\ \A n \in DOMAIN chatHistory : chatHistory'[n] = chatHistory[n]
      /\ chatHistory'[message.Contents] = message
      /\ \A n \in DOMAIN chatHistory : ~(n > message.Contents)
      /\ message.Contents \in Nat
  <2>1. chatHistory' = Append(chatHistory, message)
    OBVIOUS
  <2>. QED BY <1>1, <2>1, Appended DEF ChatMessage
<1>3. /\ outbox[c].kind = "none" /\ outbox'[c].kind = "chat"
      /\ outbox'[c].chats[1] = message
      /\ \A d \in Conns : d # c => outbox'[d] = outbox[d] /\ pc'[d] = pc[d]
  BY <1>1, PcFrame DEF NoMsg, ChatMsg
<1>4. Speaking' = Speaking \cup {c} /\ c \notin Speaking /\ Heard' = Heard
  BY <1>3 DEF Speaking, Heard
<1>5. InFlight' = InFlight \cup {message}
  BY <1>3, <1>4 DEF InFlight, Speaking
<1>6. \A x : InHistory(x) => InHistory(x)' /\ x # message
  BY <1>2 DEF InHistory
<1>7. SpeakerInv'
  <2>1. \A n \in DOMAIN chatHistory' : chatHistory'[n].Contents = n
    BY <1>2 DEF DeliveryInv, SpeakerInv
  <2>2. ASSUME NEW d \in Speaking
        PROVE  /\ IsConnected(d)' /\ pc'[d] = "read"
               /\ InHistory(outbox[d].chats[1])'
               /\ outbox'[d].chats[1].Sender = participant'[d].Username
               /\ (Following(chatHistory, outbox[d].chats[1].Contents) = {})'
    <3>. DEFINE m == outbox[d].chats[1]
    <3>1. /\ d \in Conns /\ IsConnected(d) /\ pc[d] = "read"
          /\ InHistory(m) /\ m.Sender = participant[d].Username
          /\ Following(chatHistory, m.Contents) = {}
      BY DEF DeliveryInv, SpeakerInv, Speaking
    <3>2. d # c /\ outbox'[d] = outbox[d] /\ pc'[d] = pc[d]
      BY <1>3, <1>4, <3>1
    <3>3. InHistory(m)'
      BY <1>6, <3>1, <3>2
    <3>4. m.Sender # message.Sender
      BY <3>1, <3>2 DEF AccountInv, Enrolled
    <3>5. /\ m.Contents \in DOMAIN chatHistory
          /\ chatHistory[m.Contents] = m
          /\ chatHistory'[m.Contents] = m
      BY <1>2, <3>1 DEF InHistory
    <3>6. \A k \in DOMAIN chatHistory : k > m.Contents => chatHistory[k].Sender # m.Sender
      BY <3>1, <3>5, NothingFollows
    <3>7. \A k \in DOMAIN chatHistory' :
             k > m.Contents => chatHistory'[k].Sender # m.Sender
      BY <1>2, <3>4, <3>6
    <3>8. Following(chatHistory', m.Contents) = {}
      <4>. HIDE DEF m
      <4>. QED BY <3>5, <3>7, NothingFollows
    <3>. QED BY <3>1, <3>2, <3>3, <3>8 DEF IsConnected
  <2>3. /\ IsConnected(c)' /\ pc'[c] = "read"
        /\ InHistory(outbox[c].chats[1])'
        /\ outbox'[c].chats[1].Sender = participant'[c].Username
        /\ (Following(chatHistory, outbox[c].chats[1].Contents) = {})'
    <3>1. InHistory(message)'
      BY <1>2 DEF InHistory
    <3>2. \A k \in DOMAIN chatHistory' : ~(k > message.Contents)
      BY <1>2
    <3>3. Following(chatHistory', message.Contents) = {}
      BY <3>2, NothingFollows
    <3>. QED BY <1>3, <3>1, <3>3 DEF IsConnected, InHistory
  <2>. QED BY <1>4, <2>1, <2>2, <2>3 DEF SpeakerInv
<1>8. ReceivedInv'
  <2>1. \A d \in Conns : received[d] # <<>> => IsConnected(d)'
    BY DEF DeliveryInv, ReceivedInv, IsConnected
  <2>2. \A d \in Conns : \A i \in DOMAIN received[d] :
           InHistory(received[d][i])' /\ received[d][i] \notin InFlight'
    BY <1>5, <1>6 DEF DeliveryInv, ReceivedInv, InHistory
  <2>. QED BY <2>1, <2>2 DEF DeliveryInv, ReceivedInv, InOrder, InHistory
<1>9. ShownInv'
  <2>1. ASSUME NEW messages, BeginsHistory(messages)
        PROVE  \A i \in DOMAIN messages :
                 i \in DOMAIN chatHistory' /\ messages[i] = chatHistory'[i]
    BY <1>2, <2>1 DEF BeginsHistory
  <2>2. ASSUME NEW d \in Conns PROVE BeginsHistory(shown[d])' /\ Overlap(d)'
    BY <2>1 DEF BeginsHistory, DeliveryInv, ShownInv, Overlap
  <2>3. ASSUME NEW d \in Conns, outbox'[d].kind = "history"
        PROVE  pc'[d] = "mark" /\ BeginsHistory(outbox[d].chats)'
    <3>1. outbox'[d] = outbox[d] /\ pc'[d] = pc[d]
      BY <1>3, <2>3
    <3>. QED BY <2>1, <2>3, <3>1 DEF BeginsHistory, DeliveryInv, ShownInv
  <2>4. ASSUME NEW d \in Conns, inHand'[d].kind = "history"
        PROVE  received'[d] = <<>> /\ BeginsHistory(inHand[d].chats)'
    BY <2>1, <2>4 DEF BeginsHistory, DeliveryInv, ShownInv
  <2>. QED BY <2>2, <2>3, <2>4 DEF ShownInv
<1>10. chatHistory'[Len(chatHistory) + 1] = message
  BY <1>2
<1>11. HeardInv'
  <2>. SUFFICES ASSUME NEW d \in Heard
                PROVE  /\ IsConnected(d)'
                       /\ InHistory(inHand[d].chats[1])'
                       /\ inHand[d].chats[1].Sender = participant'[d].Username
                       /\ d \in Speaking' => outbox'[d].chats[1] # inHand[d].chats[1]
                       /\ \A x \in Following(chatHistory', inHand[d].chats[1].Contents) :
                            d \in Speaking' /\ x = outbox'[d].chats[1]
                       /\ \A e \in Conns : \A i \in DOMAIN shown[e] :
                            shown[e][i].Sender = inHand[d].chats[1].Sender =>
                              i <= inHand[d].chats[1].Contents
    BY <1>4 DEF HeardInv
  <2>. DEFINE m == inHand[d].chats[1]
  <2>1. /\ d \in Conns /\ IsConnected(d) /\ InHistory(m)
        /\ m.Sender = participant[d].Username
        /\ d \in Speaking => outbox[d].chats[1] # m
        /\ \A x \in Following(chatHistory, m.Contents) :
             d \in Speaking /\ x = outbox[d].chats[1]
        /\ \A e \in Conns : \A i \in DOMAIN shown[e] :
             shown[e][i].Sender = m.Sender => i <= m.Contents
    BY DEF DeliveryInv, HeardInv, Heard
  <2>2. InHistory(m)' /\ m # message
    BY <1>6, <2>1 DEF InHistory
  <2>3. m.Contents \in DOMAIN chatHistory /\ chatHistory[m.Contents] = m
    BY <2>1 DEF InHistory
  <2>. HIDE DEF m
  <2>4. d \in Speaking' => outbox'[d].chats[1] # m
    BY <1>3, <1>4, <2>1, <2>2
  <2>5. ASSUME NEW x \in Following(chatHistory', m.Contents)
        PROVE  d \in Speaking' /\ x = outbox'[d].chats[1]
    <3>1. PICK n \in DOMAIN chatHistory' : /\ n > m.Contents /\ x = chatHistory'[n]
                                           /\ x.Sender = m.Sender
      BY <1>2, <2>3, <2>5 DEF Following
    <3>2. CASE n = message.Contents
      <4>1. x = message
        BY <1>2, <3>1, <3>2
      <4>2. d = c
        BY <2>1, <3>1, <4>1 DEF AccountInv, Enrolled
      <4>. QED BY <1>3, <1>4, <4>1, <4>2
    <3>3. CASE n # message.Contents
      <4>1. x \in Following(chatHistory, m.Contents)
        BY <1>2, <2>3, <3>1, <3>3 DEF Following
      <4>2. d \in Speaking /\ x = outbox[d].chats[1]
        BY <2>1, <4>1
      <4>. QED BY <1>3, <1>4, <2>1, <4>2
    <3>. QED BY <3>2, <3>3
  <2>. QED BY <2>1, <2>2, <2>4, <2>5 DEF IsConnected, m
<1>12. OneInHand'
  BY DEF DeliveryInv, OneInHand
<1>. QED BY <1>5, <1>7, <1>8, <1>9, <1>10, <1>11, <1>12 DEF DeliveryInv

\* The loop takes one message off the air, and no other.
LEMMA LandingStep ==
  ASSUME TypeOK, AccountInv, DeliveryInv, NEW c \in Conns, Broadcast(c),
         inHand[c].kind = "chat"
  PROVE  /\ Heard = {c} /\ Heard' = {} /\ Speaking' = Speaking
         /\ InFlight' = InFlight \ {inHand[c].chats[1]}
<1>. DEFINE message == inHand[c].chats[1]
<1>1. /\ inHand' = [inHand EXCEPT ![c] = NoMsg] /\ inHand \in [Conns -> Outgoing]
      /\ UNCHANGED outbox
  BY DeliveryStep DEF TypeOK, ConnTypeOK
<1>2. \A d \in Conns : inHand'[d].kind = "none" /\ (d # c => inHand[d].kind = "none")
  BY <1>1 DEF NoMsg, DeliveryInv, OneInHand
<1>3. Heard = {c} /\ Heard' = {} /\ Speaking' = Speaking
  BY <1>1, <1>2 DEF Heard, Speaking
<1>4. /\ IsConnected(c) /\ message.Sender = participant[c].Username
      /\ c \in Speaking => outbox[c].chats[1] # message
  BY <1>3 DEF DeliveryInv, HeardInv
<1>5. ASSUME NEW d \in Speaking PROVE outbox[d].chats[1] # message
  <2>1. CASE d = c
    BY <1>4, <2>1
  <2>2. CASE d # c
    <3>1. IsConnected(d) /\ outbox[d].chats[1].Sender = participant[d].Username
      BY DEF DeliveryInv, SpeakerInv
    <3>. QED BY <1>4, <2>2, <3>1 DEF AccountInv, Enrolled, Speaking
  <2>. QED BY <2>1, <2>2
<1>6. InFlight = {outbox[d].chats[1] : d \in Speaking} \cup {message}
  BY <1>3 DEF InFlight
<1>7. InFlight' = {outbox[d].chats[1] : d \in Speaking}
  BY <1>1, <1>3 DEF InFlight
<1>. QED BY <1>3, <1>5, <1>6, <1>7

\* The step that delivers a chat message: all of its sender's that are later are on their
\* way still, so it is later than all that anybody has received of it.
LEMMA ChatDelivery ==
  ASSUME TypeOK, HandlerInv, AccountInv, DeliveryInv, NEW c \in Conns,
         Broadcast(c), inHand[c].kind = "chat"
  PROVE  DeliveryInv'
<1>. DEFINE message == inHand[c].chats[1]
<1>1. /\ inHand' = [inHand EXCEPT ![c] = NoMsg]
      /\ \A d \in Conns :
           \/ received'[d] = received[d]
           \/ d \in Online /\ received'[d] = Append(received[d], message)
      /\ UNCHANGED <<chatHistory, connMap, connState, participant, netConn, shown, pc, outbox>>
  BY DeliveryStep
<1>2. /\ inHand \in [Conns -> Outgoing]
      /\ \A d \in Conns : received[d] \in Seq(ChatMessage)
      /\ message \in ChatMessage
  BY DEF TypeOK, ConnTypeOK, Outgoing
<1>3. /\ Heard = {c} /\ Heard' = {} /\ Speaking' = Speaking
      /\ InFlight' = InFlight \ {message} /\ message \in InFlight
  BY LandingStep DEF InFlight
<1>4. \A d \in Conns : inHand'[d].kind = "none"
  BY <1>1, <1>2 DEF NoMsg, DeliveryInv, OneInHand
<1>5. /\ \A n \in DOMAIN chatHistory : chatHistory[n].Contents = n
      /\ InHistory(message)
      /\ \A n \in DOMAIN chatHistory :
           n > message.Contents /\ chatHistory[n].Sender = message.Sender =>
             chatHistory[n] \in InFlight
      /\ \A d \in Conns : \A i \in DOMAIN shown[d] :
           shown[d][i].Sender = message.Sender => i <= message.Contents
  BY <1>3, Later DEF DeliveryInv, SpeakerInv, HeardInv
<1>6. DOMAIN chatHistory \subseteq Nat
  BY DEF TypeOK, BackendTypeOK
<1>. HIDE DEF message
<1>7. SpeakerInv'
  BY <1>1, <1>3 DEF DeliveryInv, SpeakerInv, InHistory, Following, IsConnected
<1>8. ReceivedInv'
  <2>. SUFFICES ASSUME NEW d \in Conns
                PROVE  /\ received'[d] # <<>> => IsConnected(d)'
                       /\ \A i \in DOMAIN received'[d] :
                            InHistory(received[d][i])' /\ received'[d][i] \notin InFlight'
                       /\ InOrder(received[d])'
    BY DEF ReceivedInv
  <2>1. /\ received[d] # <<>> => IsConnected(d)
        /\ \A i \in DOMAIN received[d] :
             InHistory(received[d][i]) /\ received[d][i] \notin InFlight
        /\ InOrder(received[d])
    BY DEF DeliveryInv, ReceivedInv
  <2>2. CASE received'[d] = received[d]
    BY <1>1, <1>3, <2>1, <2>2 DEF IsConnected, InHistory, InOrder
  <2>3. CASE d \in Online /\ received'[d] = Append(received[d], message)
    <3>. DEFINE last == Len(received[d]) + 1
    <3>1. /\ DOMAIN received'[d] = DOMAIN received[d] \cup {last}
          /\ \A i \in DOMAIN received[d] : received'[d][i] = received[d][i]
          /\ received'[d][last] = message
          /\ \A i \in DOMAIN received[d] : i < last
          /\ DOMAIN received[d] \subseteq Nat /\ last \in Nat
      BY <1>2, <2>3, Appended
    <3>. HIDE DEF last
    <3>2. IsConnected(d)'
      BY <1>1, <2>3 DEF Online, IsConnected
    <3>3. \A i \in DOMAIN received'[d] :
             InHistory(received'[d][i]) /\ received'[d][i] \notin InFlight'
      BY <1>3, <1>5, <2>1, <3>1
    <3>4. ASSUME NEW i \in DOMAIN received[d], received[d][i].Sender = message.Sender
          PROVE  received[d][i].Contents < message.Contents
      <4>. DEFINE m == received[d][i]
      <4>1. InHistory(m) /\ m # message /\ m \notin InFlight
        BY <1>3, <2>1
      <4>2. /\ m.Contents \in DOMAIN chatHistory /\ chatHistory[m.Contents] = m
            /\ message.Contents \in DOMAIN chatHistory
            /\ chatHistory[message.Contents] = message
        BY <1>5, <4>1 DEF InHistory
      <4>3. ~(m.Contents > message.Contents)
        BY <1>5, <3>4, <4>1, <4>2
      <4>4. m.Contents # message.Contents
        BY <4>1, <4>2
      <4>. QED BY <1>6, <4>2, <4>3, <4>4
    <3>5. InOrder(received'[d])
      <4>. SUFFICES ASSUME NEW i \in DOMAIN received'[d], NEW j \in DOMAIN received'[d],
                           i < j, received'[d][i].Sender = received'[d][j].Sender
                    PROVE  received'[d][i].Contents < received'[d][j].Contents
        BY DEF InOrder
      <4>1. i \in DOMAIN received[d]
        BY <3>1
      <4>2. CASE j \in DOMAIN received[d]
        BY <2>1, <3>1, <4>1, <4>2 DEF InOrder
      <4>3. CASE j = last
        BY <3>1, <3>4, <4>1, <4>3
      <4>. QED BY <3>1, <4>2, <4>3
    <3>. QED BY <1>1, <3>2, <3>3, <3>5 DEF InHistory, InOrder
  <2>. QED BY <1>1, <2>2, <2>3
<1>9. ShownInv'
  <2>1. ASSUME NEW d \in Conns PROVE Overlap(d)'
    <3>. SUFFICES ASSUME NEW i \in DOMAIN shown'[d], NEW j \in DOMAIN received'[d],
                         shown'[d][i].Sender = received'[d][j].Sender
                  PROVE  \/ received'[d][j].Contents \notin DOMAIN shown'[d]
                         \/ i <= received'[d][j].Contents
      BY DEF Overlap
    <3>1. shown' = shown
      BY <1>1
    <3>2. CASE j \in DOMAIN received[d] /\ received'[d][j] = received[d][j]
      BY <3>1, <3>2 DEF DeliveryInv, ShownInv, Overlap
    <3>3. CASE received'[d][j] = message
      BY <1>5, <3>1, <3>3
    <3>4. \/ j \in DOMAIN received[d] /\ received'[d][j] = received[d][j]
          \/ received'[d][j] = message
      BY <1>1, <1>2, Appended
    <3>. QED BY <3>2, <3>3, <3>4
  <2>2. \A d \in Conns :
           /\ BeginsHistory(shown[d])'
           /\ outbox'[d].kind = "history" => pc'[d] = "mark" /\ BeginsHistory(outbox[d].chats)'
    BY <1>1 DEF DeliveryInv, ShownInv, BeginsHistory
  <2>. QED BY <1>4, <2>1, <2>2 DEF ShownInv
<1>10. OneInHand' /\ HeardInv'
  BY <1>3, <1>4 DEF OneInHand, HeardInv
<1>. QED BY <1>7, <1>8, <1>9, <1>10 DEF DeliveryInv

\* Every step is one of the seven.
LEMMA NextDelivery == IInv /\ DeliveryInv /\ [Next]_vars => DeliveryInv'
<1>. SUFFICES ASSUME IInv, DeliveryInv, [Next]_vars PROVE DeliveryInv'
  OBVIOUS
<1>. USE DEF IInv
<1>1. CASE Next
  <2>. PICK c \in Conns : Step(c) BY <1>1 DEF Next
  <2>1. CASE Silent(c)
    BY <2>1, SilentDelivery
  <2>2. CASE OnAcceptMessages(c)
    BY <2>2, StoringDelivery
  <2>3. CASE DisplayHistory(c)
    BY <2>3, DisplayDelivery
  <2>4. CASE Takes(c)
    BY <2>4, TakingChat, TakingHistory DEF Takes, Carries
  <2>5. CASE Broadcast(c)
    BY <2>5, ShowDelivery, ChatDelivery DEF Broadcast
  <2>. QED BY <2>1, <2>2, <2>3, <2>4, <2>5 DEF Silent
<1>2. CASE UNCHANGED vars
  BY <1>2 DEF DeliveryInv, SpeakerInv, OneInHand, HeardInv, ReceivedInv, ShownInv,
     Speaking, Heard, InFlight, InHistory, Following, InOrder, BeginsHistory, Overlap, IsConnected,
     vars, backendVars, connVars, deliveryVars, readerVars
<1>. QED BY <1>1, <1>2

\* So it holds in every state of every behaviour.
THEOREM Delivery == Spec => []DeliveryInv
<1>1. Spec => []IInv
  BY Invariant
<1>. QED BY <1>1, InitDelivery, NextDelivery, PTL DEF Spec

\* A message that is shown and received is where it was in the history.
LEMMA ShownAndReceived ==
  ASSUME DeliveryInv, NEW c \in Conns, NEW i \in DOMAIN shown[c],
         NEW j \in DOMAIN received[c], shown[c][i] = received[c][j]
  PROVE  received[c][j].Contents = i
BY DEF DeliveryInv, SpeakerInv, ShownInv, BeginsHistory

\* What a client is shown and receives again is the last its sender has shown, and the
\* first received.
LEMMA ShownOnce ==
  ASSUME TypeOK, DeliveryInv
  PROVE  AtMostOneRepeated
<1>. SUFFICES ASSUME NEW c \in Conns, NEW i \in DOMAIN shown[c],
                     NEW j \in DOMAIN received[c], shown[c][i] = received[c][j]
              PROVE  /\ Following(shown[c], i) = {}
                     /\ \A k \in 1 .. j - 1 :
                          received[c][k].Sender # received[c][j].Sender
  BY DEF AtMostOneRepeated
<1>0. shown[c] \in Seq(ChatMessage) /\ received[c] \in Seq(ChatMessage)
  BY DEF TypeOK, ConnTypeOK
<1>1. received[c][j].Contents = i
  BY ShownAndReceived
<1>2. Overlap(c) /\ InOrder(received[c])
  BY DEF DeliveryInv, ShownInv, ReceivedInv
<1>3. \A k \in DOMAIN shown[c] : k > i => shown[c][k].Sender # shown[c][i].Sender
  BY <1>0, <1>1, <1>2 DEF Overlap
<1>4. ASSUME NEW k \in 1 .. j - 1, received[c][k].Sender = received[c][j].Sender
      PROVE  FALSE
  <2>1. k \in DOMAIN received[c] /\ k < j
    BY <1>0
  <2>2. received[c][k].Contents < i
    BY <1>1, <1>2, <1>4, <2>1 DEF InOrder
  <2>3. received[c][k].Contents \notin DOMAIN shown[c]
          \/ i <= received[c][k].Contents
    BY <1>2, <1>4, <2>1 DEF Overlap
  <2>4. received[c][k].Contents \in DOMAIN chatHistory
    BY <2>1 DEF DeliveryInv, ReceivedInv, InHistory
  <2>5. DOMAIN chatHistory \subseteq Nat \ {0}
    BY DEF TypeOK, BackendTypeOK
  <2>. QED BY <1>0, <2>2, <2>3, <2>4, <2>5
<1>. QED BY <1>3, <1>4, NothingFollows

\* The history read on entering and the broadcasts from then on have one message of each
\* sender in common at most.
THEOREM RepeatedOnce == Spec => []AtMostOneRepeated
<1>1. TypeOK /\ DeliveryInv => AtMostOneRepeated
  BY ShownOnce
<1>. QED BY <1>1, TypeCorrect, Delivery, PTL

-----------------------------------------------------------------------------
\* AirInv is inductive.

\* Accounts stay, so names that are apart now have been so before.
LEMMA ApartBefore ==
  ASSUME NEW c \in Conns, Step(c), NamesApart'
  PROVE  NamesApart
BY AccountsStay DEF NamesApart, EqualFold

\* Whoever has just come on the air has received nothing, and is owed nothing that is
\* stored already.
LEMMA NewOnAir ==
  ASSUME TypeOK, HandlerInv, DeliveryInv, NEW c \in Conns, Step(c), NEW d \in Conns,
         OnAir(d)', ~OnAir(d)
  PROVE  MissesNothing(d)'
<1>1. ~IsConnected(d) /\ IsConnected(d)'
  BY OnAirBefore DEF OnAir
<1>2. Mark(c) /\ d = c
  <2>1. d = c
    BY <1>1, ConnStateFrame DEF IsConnected
  <2>. QED BY <1>1, <2>1, ConnectedByMark
<1>3. received'[d] = <<>>
  BY <1>1, <1>2 DEF Mark, DeliveryInv, ReceivedInv
<1>4. entered'[d] = Len(chatHistory) /\ UNCHANGED chatHistory
  <2>1. panic' = NoPanic
    BY <1>1, <1>2 DEF Mark, MarkAsConnected, At, Panic, IsConnected
  <2>. QED BY <1>2, <2>1 DEF Mark, TypeOK, ConnTypeOK, backendVars
<1>5. \A n \in DOMAIN chatHistory : ~(n > Len(chatHistory))
  BY DEF TypeOK, BackendTypeOK
<1>. QED BY <1>3, <1>4, <1>5 DEF MissesNothing, Owed

\* Nobody on the air misses anything by a step that delivers no chat message.
LEMMA MissesNothingSilently ==
  ASSUME TypeOK, HandlerInv, AccountInv, DeliveryInv, NEW c \in Conns, Step(c),
         ~(Broadcast(c) /\ inHand[c].kind = "chat"),
         NEW d \in Conns, OnAir(d), MissesNothing(d)
  PROVE  MissesNothing(d)'
<1>1. participant'[d] = participant[d] /\ entered'[d] = entered[d]
  BY ConnectedStays, EnteredStays DEF OnAir
<1>2. CASE OnAcceptMessages(c)
  <2>. PICK message \in ChatMessage :
              /\ message.Contents = Len(chatHistory) + 1
              /\ chatHistory' = Append(chatHistory, message)
              /\ UNCHANGED received
    BY <1>2, StoringStep
  <2>1. /\ DOMAIN chatHistory' = DOMAIN chatHistory \cup {Len(chatHistory) + 1}
        /\ \A n \in DOMAIN chatHistory : chatHistory'[n] = chatHistory[n]
    BY Appended DEF TypeOK, BackendTypeOK
  <2>2. chatHistory'[Len(chatHistory) + 1] \in InFlight' /\ InFlight \subseteq InFlight'
    BY <1>2, StoringDelivery
  <2>3. \A n \in DOMAIN chatHistory : Owed(d, n)' => Owed(d, n)
    BY <1>1, <2>1 DEF Owed
  <2>. QED BY <1>1, <2>1, <2>2, <2>3 DEF MissesNothing
<1>3. CASE ~OnAcceptMessages(c)
  <2>1. UNCHANGED <<chatHistory, received>> /\ InFlight' = InFlight
    <3>1. CASE Silent(c)
      BY <3>1, SilentStep, SilentDelivery
    <3>2. CASE DisplayHistory(c)
      BY <3>2, DisplayDelivery DEF DisplayHistory, backendVars, connVars, deliveryVars
    <3>3. CASE Takes(c)
      BY <3>3, TakingStep, TakingChat, TakingHistory DEF Takes, Carries
    <3>4. CASE Broadcast(c) /\ inHand[c].kind = "history"
      BY <3>4, ShowDelivery
    <3>. QED BY <1>3, <3>1, <3>2, <3>3, <3>4 DEF Silent, Broadcast
  <2>. QED BY <1>1, <2>1 DEF MissesNothing, Owed
<1>. QED BY <1>2, <1>3

\* The broadcast leaves out the sender and nobody else.
LEMMA OnlySenderSkipped ==
  ASSUME TypeOK, AccountInv, DeliveryInv, NamesApart,
         NEW c \in Conns, Broadcast(c), inHand[c].kind = "chat",
         NEW d \in Conns, OnAir(d)
  PROVE  received'[d] = IF d = c THEN received[d]
                                 ELSE Append(received[d], inHand[c].chats[1])
<1>. DEFINE message == inHand[c].chats[1]
<1>1. IsConnected(c) /\ message.Sender = participant[c].Username
  BY DEF DeliveryInv, HeardInv, Heard
<1>2. BroadcastChatMessage(message)
  BY DEF Broadcast
<1>. HIDE DEF message
<1>3. ASSUME NEW e \in Skippable(message)
      PROVE  e = c
  <2>1. /\ e \in Conns /\ IsConnected(e)
        /\ EqualFold(participant[e].Username, participant[c].Username)
    BY <1>1, <1>3 DEF Skippable, Online, TypeOK, ConnTypeOK
  <2>2. /\ participant[e].Username \in DOMAIN participants
        /\ participant[c].Username \in DOMAIN participants
    BY <1>1, <2>1 DEF AccountInv, Enrolled, HasParticipant
  <2>3. participant[e].Username = participant[c].Username
    BY <2>1, <2>2 DEF NamesApart
  <2>. QED BY <1>1, <2>1, <2>3 DEF AccountInv, Enrolled
<1>4. c \in Online => c \in Skippable(message)
  BY <1>1 DEF Skippable, EqualFold
<1>5. BroadcastTo(Online \ {c}, message)
  BY <1>2, <1>3, <1>4 DEF BroadcastChatMessage
<1>6. d \in Online /\ netConn[d] = "open"
  BY DEF OnAir, Online
<1>. QED BY <1>5, <1>6 DEF BroadcastTo, message

\* Nobody on the air misses anything by the delivery of a message.
LEMMA MissesNothingDelivered ==
  ASSUME TypeOK, HandlerInv, AccountInv, DeliveryInv, NamesApart, NEW c \in Conns,
         Step(c), Broadcast(c), inHand[c].kind = "chat",
         NEW d \in Conns, OnAir(d), MissesNothing(d)
  PROVE  MissesNothing(d)'
<1>. DEFINE message == inHand[c].chats[1]
<1>1. /\ IsConnected(c) /\ message.Sender = participant[c].Username
      /\ \A n \in DOMAIN chatHistory :
           n > message.Contents /\ chatHistory[n].Sender = message.Sender =>
             chatHistory[n] \in InFlight
  BY Later DEF DeliveryInv, HeardInv, Heard
<1>2. /\ InFlight' = InFlight \ {message}
      /\ UNCHANGED <<chatHistory, participant>>
      /\ received'[d] = IF d = c THEN received[d] ELSE Append(received[d], message)
      /\ received[d] \in Seq(ChatMessage) /\ message \in ChatMessage
  BY LandingStep, DeliveryStep, OnlySenderSkipped
     DEF DeliveryInv, TypeOK, ConnTypeOK, Outgoing
<1>3. entered'[d] = entered[d]
  BY EnteredStays DEF OnAir
<1>. HIDE DEF message
<1>4. CASE d = c
  BY <1>1, <1>2, <1>3, <1>4 DEF MissesNothing, Owed
<1>5. CASE d # c
  <2>. DEFINE last == Len(received[d]) + 1
  <2>1. /\ DOMAIN received'[d] = DOMAIN received[d] \cup {last}
        /\ \A i \in DOMAIN received[d] : received'[d][i] = received[d][i]
        /\ received'[d][last] = message
    BY <1>2, <1>5, Appended
  <2>. HIDE DEF last
  <2>2. message.Sender # participant[d].Username
    BY <1>1, <1>5 DEF AccountInv, Enrolled, OnAir
  <2>3. \A i \in DOMAIN received'[d] : received'[d][i].Sender # participant'[d].Username
    BY <1>2, <2>1, <2>2 DEF MissesNothing
  <2>4. ASSUME NEW n \in DOMAIN chatHistory, Owed(d, n)', chatHistory[n] \notin InFlight'
        PROVE  \E j \in DOMAIN received'[d] : received'[d][j] = chatHistory[n]
    <3>1. CASE chatHistory[n] = message
      BY <2>1, <3>1
    <3>2. CASE chatHistory[n] # message /\ Owed(d, n)
      <4>1. \E j \in DOMAIN received[d] : received[d][j] = chatHistory[n]
        BY <1>2, <2>4, <3>2 DEF MissesNothing
      <4>. QED BY <2>1, <4>1
    <3>3. CASE n > message.Contents /\ chatHistory[n].Sender = message.Sender
      BY <1>1, <1>2, <2>1, <2>4, <3>3
    <3>4. Owed(d, n) \/ (n > message.Contents /\ chatHistory[n].Sender = message.Sender)
      BY <1>2, <1>3, <2>1, <2>4 DEF Owed
    <3>. QED BY <3>1, <3>2, <3>3, <3>4
  <2>. QED BY <1>2, <2>3, <2>4 DEF MissesNothing
<1>. QED BY <1>4, <1>5

\* It holds where nobody is connected.
LEMMA InitAir == Init => AirInv
BY DEF Init, NewConnections, AirInv, OnAir, IsConnected

\* Every step keeps it: a delivery reaches all it should, and no other step concerns it.
LEMMA NextAir == IInv /\ DeliveryInv /\ AirInv /\ [Next]_vars => AirInv'
<1>. SUFFICES ASSUME IInv, DeliveryInv, AirInv, [Next]_vars PROVE AirInv'
  OBVIOUS
<1>. USE DEF IInv
<1>1. CASE Next
  <2>. PICK c \in Conns : Step(c) BY <1>1 DEF Next
  <2>. SUFFICES ASSUME NamesApart', NEW d \in Conns, OnAir(d)'
                PROVE  MissesNothing(d)'
    BY DEF AirInv
  <2>1. NamesApart
    BY ApartBefore
  <2>2. CASE ~OnAir(d)
    BY <2>2, NewOnAir
  <2>3. CASE OnAir(d) /\ Broadcast(c) /\ inHand[c].kind = "chat"
    BY <2>1, <2>3, MissesNothingDelivered DEF AirInv
  <2>4. CASE OnAir(d) /\ ~(Broadcast(c) /\ inHand[c].kind = "chat")
    BY <2>1, <2>4, MissesNothingSilently DEF AirInv
  <2>. QED BY <2>2, <2>3, <2>4
<1>2. CASE UNCHANGED vars
  BY <1>2 DEF AirInv, NamesApart, MissesNothing, Owed, OnAir, IsConnected, InFlight,
     Speaking, Heard, vars, backendVars, connVars, deliveryVars, readerVars
<1>. QED BY <1>1, <1>2

\* Whatever somebody else stores after a client was marked as connected, or after a
\* message the client has received of the same sender, has reached it or is on its way:
\* in sendMsg, or in the hand of the message loop.  What is stored between the reading of
\* the history and the mark it may well miss.
THEOREM NothingLaterIsMissed == Spec => []AirInv
BY InitAir, NextAir, Invariant, Delivery, PTL DEF Spec

\* What follows a message that a client has received follows it in the history, and what
\* follows it in the history is received, or on its way.
LEMMA FollowsAlike ==
  ASSUME TypeOK, DeliveryInv, AirInv
  PROVE  LiveDelivery
<1>0. ASSUME NamesApart, NEW c \in Conns, OnAir(c), NEW n \in DOMAIN chatHistory,
             n > entered[c], chatHistory[n].Sender # participant[c].Username
      PROVE  \/ chatHistory[n] \in InFlight
             \/ \E i \in DOMAIN received[c] : received[c][i] = chatHistory[n]
  BY <1>0 DEF AirInv, MissesNothing, Owed
<1>. SUFFICES ASSUME NamesApart, NEW c \in Conns, OnAir(c), NEW i \in DOMAIN received[c]
              PROVE  \E n \in DOMAIN chatHistory :
                       /\ chatHistory[n] = received[c][i]
                       /\ received[c][i] \notin InFlight
                       /\ Following(received[c], i) =
                            Following(chatHistory, n) \ InFlight
  BY <1>0 DEF LiveDelivery
<1>. DEFINE n == received[c][i].Contents
<1>1. /\ n \in DOMAIN chatHistory
      /\ chatHistory[n] = received[c][i]
      /\ received[c][i] \notin InFlight
  BY DEF DeliveryInv, ReceivedInv, InHistory
<1>2. /\ \A k \in DOMAIN received[c] :
           InHistory(received[c][k]) /\ received[c][k] \notin InFlight
      /\ InOrder(received[c])
      /\ \A k \in DOMAIN chatHistory : chatHistory[k].Contents = k
      /\ MissesNothing(c)
  BY DEF DeliveryInv, ReceivedInv, SpeakerInv, AirInv
<1>3. DOMAIN received[c] \subseteq Int /\ DOMAIN chatHistory \subseteq Int
  BY DEF TypeOK, ConnTypeOK, BackendTypeOK
<1>4. ASSUME NEW x \in Following(received[c], i)
      PROVE  x \in Following(chatHistory, n) \ InFlight
  <2>1. PICK j \in DOMAIN received[c] :
               x = received[c][j] /\ j > i /\ x.Sender = received[c][i].Sender
    BY <1>4 DEF Following
  <2>2. n < x.Contents
    BY <1>2, <1>3, <2>1 DEF InOrder
  <2>3. x.Contents \in DOMAIN chatHistory /\ chatHistory[x.Contents] = x
    BY <1>2, <2>1 DEF InHistory
  <2>. QED BY <1>1, <1>2, <1>3, <2>1, <2>2, <2>3 DEF Following
<1>5. ASSUME NEW x \in Following(chatHistory, n) \ InFlight
      PROVE  x \in Following(received[c], i)
  <2>1. PICK k \in DOMAIN chatHistory :
               x = chatHistory[k] /\ k > n /\ x.Sender = chatHistory[n].Sender
    BY <1>5 DEF Following
  <2>2. PICK j \in DOMAIN received[c] : received[c][j] = x
    BY <1>1, <1>2, <1>5, <2>1 DEF MissesNothing, Owed
  <2>3. x.Contents = k
    BY <1>2, <2>1
  <2>4. j > i
    <3>1. j # i
      BY <1>3, <2>1, <2>2, <2>3
    <3>2. ~(j < i)
      BY <1>1, <1>2, <1>3, <2>1, <2>2, <2>3 DEF InOrder
    <3>. QED BY <1>3, <3>1, <3>2
  <2>. QED BY <1>1, <2>1, <2>2, <2>4 DEF Following
<1>. QED BY <1>1, <1>4, <1>5

\* A client receives what the others store after it was marked, and from the first
\* message it has received of a sender's on it receives all of them, once and in order,
\* unless letter case tells two accounts apart.
THEOREM LiveMessagesArrive == Spec => []LiveDelivery
<1>1. TypeOK /\ DeliveryInv /\ AirInv => LiveDelivery
  BY FollowsAlike
<1>. QED BY <1>1, TypeCorrect, Delivery, NothingLaterIsMissed, PTL

=============================================================================
