-------------------------------- MODULE Reader --------------------------------
(***************************************************************************)
(* The goroutine that serves one connection (session.handleConnection and  *)
(* pkg/session/reader.go), one per accepted connection, together with the  *)
(* loop that delivers messages (session.processMessages), the idle timers  *)
(* of module Connections and the storage of module MemoryBackend.          *)
(*                                                                         *)
(* A handler is split where another goroutine can see or change what it    *)
(* works on: before every call of the storage or of the connection map     *)
(* that follows an earlier one, and at every sendMsg, which blocks until   *)
(* the message loop receives.  System messages sent to the client one      *)
(* after another, with nothing shared touched in between, are one message. *)
(* The message loop receives in one step and broadcasts in another: the    *)
(* handler it has freed goes on in between.                                *)
(* The flag _DEBUG_SkipUserdataProcessing is never set and not modelled.   *)
(***************************************************************************)
EXTENDS MemoryBackend, Connections

CONSTANT Input  \* the lines each client may type

VARIABLES
  pc,        \* where the handler of a connection is
  state,     \* readerFSM.state
  substate,  \* readerFSM.substate
  buffer,    \* readerFSM.buffer, the line last read
  channel,   \* connection.channel, a pointer
  outbox     \* the message the handler is blocked on in sendMsg

readerVars == <<pc, state, substate, buffer, channel, outbox>>

vars == <<panic, backendVars, connVars, readerVars>>

-----------------------------------------------------------------------------
(***************************************************************************)
(* Lines.  A line is a number (strconv.Atoi succeeds), a command of        *)
(* pkg/commands, "error" for a command ParseCommand rejects, or a text.    *)
(* `text` is what the line reads as where a name is expected, and the      *)
(* -channel argument of :history (NoText if there is none).                *)
(***************************************************************************)
Commands == {"menu", "history", "members", "channels", "commands", "error"}

Line == [kind : Commands \cup {"text", "number"}, text : String, num : Int]

NoLine == [kind |-> "text", text |-> NoText, num |-> 0]

IsCommand(line) == line.kind \in Commands

ASSUME InputAssumption == Input \in [Conns -> SUBSET Line]

States == {"Joining", "Registration", "Authentication", "AcceptingMessages",
           "CreatingChannel", "SelectingChannel", "ProcessingMenu",
           "Disconnecting"}

MenuStates == {"Joining", "ProcessingMenu"}

Substates == {"Null", "ReadingName", "ReadingPassword",
              "ReadingEmailAddress", "ReadingChannelDesc"}

\* The points at which a handler is between two steps, in program order.
Points == {"new", "read", "process", "register", "history", "mark",
           "registerChannel", "channelHistory", "disconnect", "checkEmpty",
           "resetTimer", "done"}

(***************************************************************************)
(* connection.channel points to the connection's own Channel, with a Name, *)
(* until a channel is selected, and from then on to the object that is     *)
(* stored under the key `alias`.                                           *)
(***************************************************************************)
ChannelRef == [stored : BOOLEAN, alias : String, Name : String]

OwnChannel == [stored |-> FALSE, alias |-> NoText, Name |-> NoText]

HandlerTypeOK ==
  /\ pc \in [Conns -> Points]
  /\ state \in [Conns -> States]
  /\ substate \in [Conns -> Substates]
  /\ buffer \in [Conns -> Line]
  /\ channel \in [Conns -> ChannelRef]
  /\ outbox \in [Conns -> Outgoing]
  /\ \A c \in Conns : outbox[c].kind = "chat" => Len(outbox[c].chats) = 1

TypeOK ==
  /\ panic \in Panics
  /\ BackendTypeOK
  /\ ConnTypeOK
  /\ HandlerTypeOK

Init ==
  /\ panic = NoPanic
  /\ NewMemoryBackend
  /\ NewConnections
  /\ pc = [c \in Conns |-> "new"]
  /\ state = [c \in Conns |-> "Joining"]
  /\ substate = [c \in Conns |-> "Null"]
  /\ buffer = [c \in Conns |-> NoLine]
  /\ channel = [c \in Conns |-> OwnChannel]
  /\ outbox = [c \in Conns |-> NoMsg]

-----------------------------------------------------------------------------
\* Control flow of a handler.

\* The handler of c is at a point, not blocked in sendMsg, and the process runs.
At(c, point) ==
  /\ panic = NoPanic
  /\ pc[c] = point
  /\ outbox[c] = NoMsg

Send(c, message) == outbox' = [outbox EXCEPT ![c] = message]

Continue(c, point) == pc' = [pc EXCEPT ![c] = point]

\* The buffer is dead once a line is processed; it is cleared to save states.
ClearBuffer(c) == buffer' = [buffer EXCEPT ![c] = NoLine]

UpdateState(c, newState, newSubstate) ==
  /\ state' = [state EXCEPT ![c] = newState]
  /\ substate' = [substate EXCEPT ![c] = newSubstate]

(***************************************************************************)
(* The end of one iteration of handleConnection and the head of the next:  *)
(* the menu is sent in the joining and menu states, on top of what the     *)
(* callback replied.                                                       *)
(***************************************************************************)
NextIteration(c, newState, newSubstate, replied) ==
  /\ UpdateState(c, newState, newSubstate)
  /\ Continue(c, IF newState = "Disconnecting" THEN "disconnect" ELSE "read")
  /\ Send(c, IF replied \/ newState \in MenuStates THEN SysMsg ELSE NoMsg)
  /\ ClearBuffer(c)

-----------------------------------------------------------------------------
\* Accepting and reading.

\* session.Run accepts a connection, adds it to the map and starts its handler.
Accept(c) ==
  /\ At(c, "new")
  /\ AddConn(c)
  /\ Continue(c, "read")
  /\ Send(c, SysMsg)
  /\ UNCHANGED <<panic, backendVars, connState, participant, netConn, ctxDone,
                 idle, deliveryVars, state, substate, buffer, channel>>

\* Bounds the messages sent: counts those whose handler has yet to store them.
MessageBudget ==
  Len(chatHistory) + Cardinality({c \in Conns : pc[c] = "process"
                                    /\ state[c] = "AcceptingMessages"})
    < MaxMessages

\* reader.read returns a line.
ReadLine(c, line) ==
  /\ At(c, "read") /\ netConn[c] = "open"
  /\ state[c] = "AcceptingMessages" /\ ~IsCommand(line) => MessageBudget
  /\ buffer' = [buffer EXCEPT ![c] = line]
  /\ Continue(c, "process")
  /\ UNCHANGED <<panic, backendVars, connVars, state, substate, channel, outbox>>

\* The client closed its end: zero bytes, no error.  Every later test of this
\* iteration fails on the empty buffer and the disconnecting state.
ReadEOF(c) ==
  /\ At(c, "read") /\ netConn[c] = "open"
  /\ NextIteration(c, "Disconnecting", "Null", FALSE)
  /\ UNCHANGED <<panic, backendVars, connVars, channel>>

(***************************************************************************)
(* reader.read fails.  If the context is cancelled the client is told that *)
(* it was idle (and the handler sleeps two seconds); otherwise the handler *)
(* cancels it itself.                                                      *)
(***************************************************************************)
ReadFails(c) ==
  /\ UpdateState(c, "Disconnecting", "Null")
  /\ Continue(c, "disconnect")
  /\ Send(c, IF ctxDone[c] THEN IdleMsg ELSE NoMsg)
  /\ ClearBuffer(c)
  /\ Cancel(c)
  /\ UNCHANGED <<panic, backendVars, connMap, connState, participant, netConn,
                 idle, deliveryVars, channel>>

ReadClosed(c) == At(c, "read") /\ netConn[c] = "closed" /\ ReadFails(c)

ReadReset(c) == At(c, "read") /\ netConn[c] = "open" /\ ReadFails(c)

-----------------------------------------------------------------------------
\* processCommand.

\* Faulty: every callback waits for the idle goroutine to restart its timer.
CallbackAborting(c, states) ==
  /\ At(c, "process")
  /\ state[c] \in states
  /\ state[c] \notin MenuStates => ~IsCommand(buffer[c])
  /\ idle[c] = "waiting"

\* The line in c's buffer is for the callback of one of these states.
Callback(c, states) ==
  /\ At(c, "process")
  /\ state[c] \in states
  /\ state[c] \notin MenuStates => ~IsCommand(buffer[c])

HistoryPanics(c) ==
  /\ buffer[c].kind = "history"
  /\ IsConnected(c)
  /\ GetChatHistoryPanics(buffer[c].text)

(***************************************************************************)
(* Only :menu changes the state, and it does so whether or not the client  *)
(* has logged in.  The other commands read the storage, if the client has, *)
(* and reply; an unknown channel makes :history panic.                     *)
(***************************************************************************)
ProcessCommand(c) ==
  /\ At(c, "process")
  /\ state[c] \notin MenuStates
  /\ IsCommand(buffer[c])
  /\ \/ /\ buffer[c].kind = "menu"
        /\ NextIteration(c, "ProcessingMenu", "Null", FALSE)
        /\ UNCHANGED panic
     \/ /\ HistoryPanics(c)
        /\ Panic("GetChatHistory")
        /\ UNCHANGED readerVars
     \/ /\ buffer[c].kind # "menu" /\ ~HistoryPanics(c)
        /\ NextIteration(c, state[c], substate[c], TRUE)
        /\ UNCHANGED panic
  /\ UNCHANGED <<backendVars, connVars, channel>>

-----------------------------------------------------------------------------
\* onJoiningState: the menu, before and after logging in.

opRegister == 0
opAuthenticate == 1
opCreateChannel == 2
opSelectChannel == 3
opListMembers == 4
opDisplayChat == 5
opExit == 6

\* option(op) converts an int to an int8.
Int8(n) == ((n + 128) % 256) - 128

\* Options are numbered from 1; after a failed Atoi op is 0 - 1 (or as unsupported,
\* for a number that is out of range).
OptionOf(line) == IF line.kind = "number" THEN Int8(line.num - 1) ELSE -1

\* Faulty: one may register or log in from any menu.
OptionTargetAnywhere(c, op) ==
  CASE op = opRegister -> <<"Registration", "ReadingName">>
    [] op = opAuthenticate -> <<"Authentication", "ReadingName">>
    [] op = opExit -> <<"Disconnecting", "Null">>
    [] OTHER -> <<state[c], substate[c]>>

\* The state and substate an option leads to; other options only get a reply.
OptionTarget(c, op) ==
  CASE op = opRegister /\ state[c] = "Joining" ->
         <<"Registration", "ReadingName">>
    [] op = opAuthenticate /\ state[c] = "Joining" ->
         <<"Authentication", "ReadingName">>
    [] op = opCreateChannel /\ state[c] # "Joining" ->
         <<"CreatingChannel", "ReadingName">>
    [] op = opSelectChannel /\ IsConnected(c) /\ GetChannels # {} ->
         <<"SelectingChannel", "Null">>
    [] op = opListMembers /\ IsConnected(c) -> <<"AcceptingMessages", "Null">>
    [] op = opExit -> <<"Disconnecting", "Null">>
    [] OTHER -> <<state[c], substate[c]>>

OnJoining(c) ==
  /\ Callback(c, MenuStates)
  /\ LET op == OptionOf(buffer[c])
         target == OptionTarget(c, op)
     IN NextIteration(c, target[1], target[2], op # opExit)
  /\ UNCHANGED <<panic, backendVars, connVars, channel>>

-----------------------------------------------------------------------------
\* onRegisterParticipantState, onAuthParticipantState and validate.

\* A line is stored in a field of the participant and the next one prompted for.
ReadField(c, newParticipant, nextSubstate) ==
  /\ participant' = [participant EXCEPT ![c] = newParticipant]
  /\ NextIteration(c, state[c], nextSubstate, TRUE)
  /\ UNCHANGED <<panic, backendVars, connMap, connState, netConn, ctxDone,
                 idle, deliveryVars, channel>>

OnRegisterParticipant(c) ==
  /\ Callback(c, {"Registration"})
  /\ \/ /\ substate[c] = "ReadingName"
        /\ ReadField(c, [participant[c] EXCEPT !.Username = buffer[c].text],
                     "ReadingEmailAddress")
     \/ /\ substate[c] = "ReadingEmailAddress"
        /\ ReadField(c, [participant[c] EXCEPT !.Email = buffer[c].text],
                     "ReadingPassword")

\* The substate after the name is the one before it.
OnAuthParticipant(c) ==
  /\ Callback(c, {"Authentication"})
  /\ substate[c] = "ReadingName"
  /\ ReadField(c, [participant[c] EXCEPT !.Username = buffer[c].text],
               "ReadingName")

CredentialsValid(c, p) ==
  /\ p.Username \in ValidNames
  /\ p.Password \in ValidPasswords
  /\ state[c] = "Registration" =>
       p.Email \in ValidEmails /\ ~HasParticipant(p.Username)
  /\ state[c] = "Authentication" => AuthParticipant(p)

(***************************************************************************)
(* The password is the last field, and validate follows.  The storage is   *)
(* asked here whether the name is free; it is registered in a later step.  *)
(* The idle timer starts before either.                                    *)
(***************************************************************************)
SubmitPassword(c) ==
  /\ Callback(c, {"Registration", "Authentication"})
  /\ substate[c] = "ReadingPassword"
  /\ LET p == [participant[c] EXCEPT !.Password = buffer[c].text]
     IN /\ participant' = [participant EXCEPT ![c] = p]
        /\ IF CredentialsValid(c, p)
           THEN /\ StartIdleTimer(c)
                /\ Continue(c, IF state[c] = "Registration" THEN "register"
                                                            ELSE "history")
                /\ ClearBuffer(c)
                /\ UNCHANGED <<state, substate, outbox>>
           ELSE /\ NextIteration(c, "Joining", "Null", TRUE)
                /\ UNCHANGED idle
  /\ UNCHANGED <<panic, backendVars, connMap, connState, netConn, ctxDone,
                 deliveryVars, channel>>

\* Faulty: the connection is marked as connected before the history is read.
RegisterAndMark(c) ==
  /\ At(c, "register")
  /\ RegisterParticipant(participant[c])
  /\ MarkAsConnected(c)
  /\ Continue(c, "history")
  /\ UNCHANGED <<connMap, participant, netConn, ctxDone, idle, deliveryVars, state,
                 substate, buffer, channel, outbox>>

\* storage.RegisterParticipant(conn.participant)
Register(c) ==
  /\ At(c, "register")
  /\ RegisterParticipant(participant[c])
  /\ IF panic' = NoPanic THEN Continue(c, "history") ELSE UNCHANGED pc
  /\ UNCHANGED <<connVars, state, substate, buffer, channel, outbox>>

\* displayChatHistory: what the storage holds now is sent to the client.
DisplayHistory(c) ==
  /\ At(c, "history")
  /\ Send(c, HistoryMsg(chatHistory))
  /\ Continue(c, "mark")
  /\ UNCHANGED <<panic, backendVars, connVars, state, substate, buffer, channel>>

\* connMap.markAsConnected: from here on broadcasts reach the client.
Mark(c) ==
  /\ At(c, "mark")
  /\ MarkAsConnected(c)
  /\ IF panic' = NoPanic
     THEN /\ entered' = [entered EXCEPT ![c] = Len(chatHistory)]
          /\ NextIteration(c, "AcceptingMessages", "Null", FALSE)
     ELSE UNCHANGED <<entered, readerVars>>
  /\ UNCHANGED <<backendVars, connMap, participant, netConn, ctxDone, idle, inHand,
                 shown, received, channel>>

-----------------------------------------------------------------------------
\* onCreateChannelState and onSelectChannelState.

\* conn.channel.Name, through the pointer.
ChannelName(c) ==
  IF channel[c].stored THEN channels[channel[c].alias].Name
                       ELSE channel[c].Name

\* Faulty: renaming a stored channel also moves it to the new key.
WriteChannelKey(c, name) ==
  /\ channel' = [channel EXCEPT ![c].Name = name]
  /\ channels' = IF ~channel[c].stored THEN channels
                 ELSE Store(Erase(channels, channel[c].alias), name,
                            [channels[channel[c].alias] EXCEPT !.Name = name])

\* The assignment to conn.channel.Name, through the same pointer.
WriteChannelName(c, name) ==
  \/ /\ ~channel[c].stored
     /\ channel' = [channel EXCEPT ![c].Name = name]
     /\ UNCHANGED channels
  \/ /\ channel[c].stored
     /\ channels' = [channels EXCEPT ![channel[c].alias].Name = name]
     /\ UNCHANGED channel

OnCreateChannelName(c) ==
  /\ Callback(c, {"CreatingChannel"}) /\ substate[c] = "ReadingName"
  /\ WriteChannelName(c, buffer[c].text)
  /\ NextIteration(c, "CreatingChannel", "ReadingChannelDesc", TRUE)
  /\ UNCHANGED <<panic, participants, chatHistory, connVars>>

\* The description ends the dialogue; validate looks at the name, and asks the
\* storage whether it is free.
OnCreateChannelDesc(c) ==
  /\ Callback(c, {"CreatingChannel"}) /\ substate[c] = "ReadingChannelDesc"
  /\ IF ChannelName(c) \in ValidNames /\ ~HasChannel(ChannelName(c))
     THEN /\ Continue(c, "registerChannel")
          /\ ClearBuffer(c)
          /\ UNCHANGED <<state, substate, outbox>>
     ELSE NextIteration(c, "ProcessingMenu", "Null", TRUE)
  /\ UNCHANGED <<panic, backendVars, connVars, channel>>

\* storage.RegisterChannel(conn.channel) reads the name again.
CreateChannel(c) ==
  /\ At(c, "registerChannel")
  /\ RegisterChannel(ChannelName(c))
  /\ IF panic' = NoPanic THEN NextIteration(c, "AcceptingMessages", "Null", FALSE)
                         ELSE UNCHANGED readerVars
  /\ UNCHANGED <<connVars, channel>>

(***************************************************************************)
(* The id indexes the slice GetChannels returns now.  Its order is that of *)
(* a map iteration, so any channel may be at any index; index 0 and        *)
(* indices outside the slice are refused.                                  *)
(***************************************************************************)
InRange(id) == 0 < id /\ id < Cardinality(GetChannels)

OnSelectChannel(c) ==
  /\ Callback(c, {"SelectingChannel"})
  /\ IF buffer[c].kind = "number" /\ InRange(buffer[c].num)
     THEN /\ \E k \in GetChannels :
               channel' = [channel EXCEPT ![c] =
                             [stored |-> TRUE, alias |-> k, Name |-> NoText]]
          /\ Continue(c, "channelHistory")
          /\ ClearBuffer(c)
          /\ UNCHANGED <<state, substate, outbox>>
     ELSE /\ NextIteration(c, "ProcessingMenu", "Null", TRUE)
          /\ UNCHANGED channel
  /\ UNCHANGED <<panic, backendVars, connVars>>

\* storage.GetChatHistory(conn.channel.Name), which panics on an unknown name.
ShowChannelHistory(c) ==
  /\ At(c, "channelHistory")
  /\ IF GetChatHistoryPanics(ChannelName(c))
     THEN Panic("GetChatHistory") /\ UNCHANGED readerVars
     ELSE NextIteration(c, "AcceptingMessages", "Null", TRUE) /\ UNCHANGED panic
  /\ UNCHANGED <<backendVars, connVars, channel>>

-----------------------------------------------------------------------------
\* onAcceptMessagesState and onDisconnectState.

\* Faulty: the message is dropped if the loop is not ready for it.
SendChatOrDrop(c, message) ==
  Send(c, ChatMsg(message)) \/ Send(c, NoMsg)

\* session.sendMsg(msg)
SendChat(c, message) == Send(c, ChatMsg(message))

(***************************************************************************)
(* The send on abortConnectionTimeout needs the idle goroutine to receive; *)
(* the handler is blocked for as long as that goroutine does not.          *)
(***************************************************************************)
OnAcceptMessages(c) ==
  /\ Callback(c, {"AcceptingMessages"})
  /\ AbortConnectionTimeout(c)
  /\ LET message == BuildChatMsg(Len(chatHistory) + 1,
                                 participant[c].Username, ChannelName(c))
     IN StoreMessage(message) /\ SendChat(c, message)
  /\ Continue(c, "read")
  /\ ClearBuffer(c)
  /\ UNCHANGED <<connMap, connState, participant, netConn, ctxDone, deliveryVars,
                 state, substate, channel>>

OnDisconnect(c) ==
  /\ At(c, "disconnect")
  /\ Cancel(c)
  /\ netConn' = [netConn EXCEPT ![c] = "closed"]
  /\ RemoveConn(c)
  /\ IF panic' = NoPanic THEN Send(c, LeftMsg) /\ Continue(c, "checkEmpty")
                         ELSE UNCHANGED <<outbox, pc>>
  /\ UNCHANGED <<backendVars, connState, participant, idle, deliveryVars, state,
                 substate, buffer, channel>>

\* Faulty: the test counts the connection that has just been removed.
CheckLast(c) ==
  /\ At(c, "checkEmpty")
  /\ Continue(c, IF connMap = {c} THEN "resetTimer" ELSE "done")
  /\ UNCHANGED <<panic, backendVars, connVars, state, substate, buffer,
                 channel, outbox>>

\* `if s.connMap.empty()`, after the message is sent.
CheckEmpty(c) ==
  /\ At(c, "checkEmpty")
  /\ Continue(c, IF connMap = {} THEN "resetTimer" ELSE "done")
  /\ UNCHANGED <<panic, backendVars, connVars, state, substate, buffer,
                 channel, outbox>>

\* `s.shutdownTimer.Reset(...)`, the handler's last statement.
ResetShutdownTimer(c) ==
  /\ At(c, "resetTimer")
  /\ Continue(c, "done")
  /\ UNCHANGED <<panic, backendVars, connVars, state, substate, buffer,
                 channel, outbox>>

-----------------------------------------------------------------------------
\* The other goroutines.

LoopInSelect == \A c \in Conns : inHand[c] = NoMsg

(***************************************************************************)
(* processMessages receives what c's handler is sending, and the handler   *)
(* goes on.  Which clients read a system message is recorded for the       *)
(* history a client is shown on entering only, so the broadcast of any     *)
(* other changes nothing and is left out.                                  *)
(***************************************************************************)
Receive(c) ==
  /\ panic = NoPanic
  /\ LoopInSelect
  /\ outbox[c] # NoMsg
  /\ Send(c, NoMsg)
  /\ inHand' = IF Carries(outbox[c]) THEN [inHand EXCEPT ![c] = outbox[c]] ELSE inHand
  /\ UNCHANGED <<panic, backendVars, connMap, connState, participant, netConn,
                 ctxDone, idle, shown, received, entered, pc, state, substate,
                 buffer, channel>>

\* It broadcasts what it has received, to those who are in the map then.
Broadcast(c) ==
  /\ panic = NoPanic
  /\ inHand[c] # NoMsg
  /\ inHand' = [inHand EXCEPT ![c] = NoMsg]
  /\ \/ /\ inHand[c].kind = "chat"
        /\ BroadcastChatMessage(inHand[c].chats[1])
        /\ UNCHANGED shown
     \/ /\ inHand[c].kind = "history"
        /\ ShowHistory(c, inHand[c].chats)
        /\ UNCHANGED received
  /\ UNCHANGED <<panic, backendVars, connMap, connState, participant, netConn,
                 ctxDone, idle, entered, readerVars>>

ProcessMessages(c) == Receive(c) \/ Broadcast(c)

\* The idle timer of c fires.
IdleExpires(c) ==
  /\ panic = NoPanic
  /\ IdleTimeout(c)
  /\ UNCHANGED <<panic, backendVars, readerVars>>

\* The idle goroutine of c goes on, or notices that c's context is cancelled.
IdleProceeds(c) ==
  /\ panic = NoPanic
  /\ IdleCancel(c) \/ IdleReturn(c)
  /\ UNCHANGED <<panic, backendVars, readerVars>>

-----------------------------------------------------------------------------
\* What the clients and the clock do, and what the server does.

Client(c) ==
  \/ \E line \in Input[c] : ReadLine(c, line)
  \/ ReadEOF(c)
  \/ ReadReset(c)
  \/ IdleExpires(c)

Handler(c) ==
  \/ ReadClosed(c)
  \/ ProcessCommand(c)
  \/ OnJoining(c)
  \/ OnRegisterParticipant(c)
  \/ OnAuthParticipant(c)
  \/ SubmitPassword(c)
  \/ Register(c)
  \/ DisplayHistory(c)
  \/ Mark(c)
  \/ OnCreateChannelName(c)
  \/ OnCreateChannelDesc(c)
  \/ CreateChannel(c)
  \/ OnSelectChannel(c)
  \/ ShowChannelHistory(c)
  \/ OnAcceptMessages(c)
  \/ OnDisconnect(c)
  \/ CheckEmpty(c)
  \/ ResetShutdownTimer(c)

Step(c) ==
  Accept(c) \/ Client(c) \/ Handler(c) \/ ProcessMessages(c) \/ IdleProceeds(c)

Next == \E c \in Conns : Step(c)

Spec == Init /\ [][Next]_vars

(***************************************************************************)
(* A runnable goroutine is eventually scheduled, the message loop finishes *)
(* every broadcast and comes to serve every blocked sender (a Go select    *)
(* picks at random and a channel queues its senders, so that the loop has  *)
(* others to serve in between keeps nobody waiting for ever), and a        *)
(* cancelled context is noticed.  Clients owe nothing but to read what is  *)
(* written to them, and no timer has to fire.                              *)
(***************************************************************************)
Fairness ==
  \A c \in Conns :
    /\ WF_vars(Handler(c))
    /\ SF_vars(ProcessMessages(c))
    /\ WF_vars(IdleProceeds(c))

FairSpec == Spec /\ Fairness

-----------------------------------------------------------------------------
\* Properties: accounts and participants.

(***************************************************************************)
(* Whoever is connected has an account, under the name and the password    *)
(* this very client typed, and has left the login dialogue for good.  The  *)
(* name is tested in one call of the storage and registered in another,    *)
(* with other handlers in between.                                         *)
(***************************************************************************)
ConnectedIsRegistered ==
  \A c \in Conns : IsConnected(c) =>
    /\ HasParticipant(participant[c].Username)
    /\ participants[participant[c].Username] =
         Sha256Checksum(participant[c].Password)
    /\ state[c] \notin {"Joining", "Registration", "Authentication"}
    /\ idle[c] # "off"

(***************************************************************************)
(* A connection is a one-to-one mapping to a participant                   *)
(* (architecture.md): no two connections are connected under one      *)
(* name, although two clients may pass the test for a free name together.  *)
(***************************************************************************)
UniqueUsernames ==
  \A c, d \in Conns :
    c # d /\ IsConnected(c) /\ IsConnected(d) =>
      participant[c].Username # participant[d].Username

(***************************************************************************)
(* The server goes down by three assertions of the storage only.  The map  *)
(* of connections never misses a connection it is asked to change          *)
(* (removeConn, markAsConnected), and no message is refused (StoreMessage).*)
(***************************************************************************)
OnlyBackendPanics ==
  panic \in {NoPanic, "RegisterParticipant", "RegisterChannel", "GetChatHistory"}

(***************************************************************************)
(* The name of a connected participant is read by other goroutines         *)
(* (hasConnectedParticipant, broadcastMessage) under the map's lock, and   *)
(* written by its reader under none: once connected it must not change.    *)
(***************************************************************************)
ConnectedNameIsFixed ==
  [][\A c \in Conns :
       IsConnected(c) => IsConnected(c)' /\ participant[c]' = participant[c]]_vars

(***************************************************************************)
(* :menu is obeyed in the middle of the login dialogue, and the menu then  *)
(* offers neither registration nor login: a client who typed it before     *)
(* being connected stays outside the chat for good.                        *)
(***************************************************************************)
Locked(c) ==
  ~IsConnected(c) /\ state[c] \notin {"Joining", "Registration", "Authentication"}

LockedOutForGood == [][\A c \in Conns : Locked(c) => Locked(c)']_vars

(***************************************************************************)
(* A message read when nobody receives from abortConnectionTimeout, as the *)
(* idle timer has fired in between or as the client never logged in, is    *)
(* the last thing its handler does: it hangs for good, and its connection  *)
(* stays in the map, whatever the other handlers and the timer do.         *)
(***************************************************************************)
Hung(c) ==
  /\ pc[c] = "process" /\ outbox[c] = NoMsg
  /\ state[c] = "AcceptingMessages" /\ ~IsCommand(buffer[c])
  /\ idle[c] # "waiting"

HungForGood == [][\A c \in Conns : Hung(c) => Hung(c)' /\ c \in connMap']_vars

-----------------------------------------------------------------------------
\* Properties: channels.

(***************************************************************************)
(* Only participants speak.  The creation of a channel takes whoever has   *)
(* typed :menu to the state that accepts messages, logged in or not; what  *)
(* keeps a stranger from speaking there is that nobody receives from its   *)
(* abortConnectionTimeout.                                                 *)
(***************************************************************************)
SendersAreRegistered ==
  \A i \in DOMAIN chatHistory : HasParticipant(chatHistory[i].Sender)

\* A connection's pointer into the storage is a participant's, and stays good:
\* the channel is still stored under the key it was selected by.
SelectionIsValid ==
  \A c \in Conns : channel[c].stored =>
    IsConnected(c) /\ HasChannel(channel[c].alias)

(***************************************************************************)
(* GetChatHistory panics for two reasons: :history was given the name of a *)
(* channel that does not exist, or a participant who had selected a        *)
(* channel has typed a new name into the stored channel, whose key remains *)
(* the old name.                                                           *)
(***************************************************************************)
HistoryPanicExplained ==
  panic = "GetChatHistory" =>
    \E c \in Conns :
      \/ /\ buffer[c].kind = "history" /\ buffer[c].text # NoText
         /\ ~HasChannel(buffer[c].text)
      \/ /\ pc[c] = "channelHistory"
         /\ channels[channel[c].alias].Name # channel[c].alias

-----------------------------------------------------------------------------
(***************************************************************************)
(* An inductive invariant that implies the properties of accounts and of   *)
(* channels above: where a handler can be with respect to the map, to the  *)
(* dialogue it is in and to its idle goroutine, and whose the accounts are *)
(* between registration and the mark in the map.                           *)
(***************************************************************************)
InLogin(c) == pc[c] \in {"register", "history", "mark"}

Enrolled(c) == IsConnected(c) \/ pc[c] \in {"history", "mark"}

Placed(c) ==
  /\ c \in connMap <=> pc[c] \notin {"new", "checkEmpty", "resetTimer", "done"}
  /\ pc[c] = "new" \/ InLogin(c) => ~IsConnected(c)
  /\ InLogin(c) => state[c] = "Registration"
  /\ IsConnected(c) => state[c] \notin {"Joining", "Registration", "Authentication"}
  /\ idle[c] # "off" <=> IsConnected(c) \/ InLogin(c)
  /\ state[c] = "SelectingChannel" \/ pc[c] = "channelHistory" => IsConnected(c)

HandlerInv == \A c \in Conns : Placed(c)

\* What a handler has checked, or set, before it calls the storage.
Prepared(c) ==
  /\ pc[c] = "register" =>
       /\ participant[c].Username \in ValidNames
       /\ participant[c].Password \in ValidPasswords
  /\ pc[c] = "channelHistory" => channel[c].stored

CheckedInv == \A c \in Conns : Prepared(c)

AccountInv ==
  /\ \A c \in Conns : Enrolled(c) =>
       /\ HasParticipant(participant[c].Username)
       /\ participants[participant[c].Username] =
            Sha256Checksum(participant[c].Password)
  /\ \A c, d \in Conns :
       c # d /\ Enrolled(c) /\ Enrolled(d) =>
         participant[c].Username # participant[d].Username

IInv ==
  /\ TypeOK
  /\ HandlerInv
  /\ CheckedInv
  /\ AccountInv
  /\ OnlyBackendPanics
  /\ HistoryPanicExplained
  /\ SelectionIsValid
  /\ SendersAreRegistered

-----------------------------------------------------------------------------
(***************************************************************************)
(* The handlers implement the room of module ChatRoom.  A client is on its *)
(* way in from the registration of its account to the mark in the          *)
(* connection map, inside from then until it is removed from the map, and  *)
(* gone afterwards.  The handler of a client that never registers leaves   *)
(* from outside.                                                           *)
(***************************************************************************)
Inside(c) == IsConnected(c) /\ c \in connMap

Place(c) ==
  IF Inside(c) THEN "inside"
  ELSE CASE pc[c] \in {"history", "mark"} -> "entering"
         [] pc[c] \in {"checkEmpty", "resetTimer", "done"} -> "gone"
         [] OTHER -> "outside"

NameInRoom(c) ==
  IF Place(c) \in {"entering", "inside"} THEN participant[c].Username ELSE NoText

Room == INSTANCE ChatRoom WITH
  Clients <- Conns,
  Names <- ValidNames,
  Credentials <- {Sha256Checksum(p) : p \in ValidPasswords},
  Nobody <- NoText,
  accounts <- participants,
  place <- [c \in Conns |-> Place(c)],
  name <- [c \in Conns |-> NameInRoom(c)],
  log <- chatHistory,
  down <- panic # NoPanic

\* Every behaviour of the handlers is one of the room: nobody gets in but by a new
\* account, nobody speaks but inside, under the name entered with, and nobody who
\* has left comes back.
ImplementsChatRoom == Room!Spec

-----------------------------------------------------------------------------
\* Properties: what the participants read.

OnAir(c) == IsConnected(c) /\ c \in connMap /\ netConn[c] = "open"

Speaking == {c \in Conns : outbox[c].kind = "chat"}

\* The message loop is broadcasting what they said (one of them at a time).
Heard == {c \in Conns : inHand[c].kind = "chat"}

InFlight == {outbox[c].chats[1] : c \in Speaking} \cup {inHand[c].chats[1] : c \in Heard}

\* Letter case tells no two accounts apart.
NamesApart == \A s, t \in DOMAIN participants : EqualFold(s, t) => s = t

\* What the sender of the i-th of some messages says after it.
Following(messages, i) ==
  {messages[j] : j \in {k \in DOMAIN messages :
                          k > i /\ messages[k].Sender = messages[i].Sender}}

(***************************************************************************)
(* The sender stores a message and sends it in two steps, and has the next *)
(* one stored and sent while the loop broadcasts the first.  Still, a      *)
(* client receives every message of the others that was stored after it    *)
(* was marked as connected, but for those on their way; and from the first *)
(* message it has received of somebody on, it receives all of that sender, *)
(* once, in order: what follows a message in the client's eyes is what     *)
(* follows it in the history.  It needs usernames of which no two differ   *)
(* in letter case only.                                                    *)
(***************************************************************************)
LiveDelivery ==
  NamesApart => \A c \in Conns : OnAir(c) =>
    /\ \A n \in DOMAIN chatHistory :
         n > entered[c] /\ chatHistory[n].Sender # participant[c].Username =>
           \/ chatHistory[n] \in InFlight
           \/ \E i \in DOMAIN received[c] : received[c][i] = chatHistory[n]
    /\ \A i \in DOMAIN received[c] : \E n \in DOMAIN chatHistory :
         /\ chatHistory[n] = received[c][i]
         /\ received[c][i] \notin InFlight
         /\ Following(received[c], i) = Following(chatHistory, n) \ InFlight

(***************************************************************************)
(* The history is read before the connection is marked as connected, so a  *)
(* message stored before the one and broadcast after the other is read     *)
(* twice.  It is one message of each sender at most: the last of that      *)
(* sender's shown, and the first received.  A sender may have two messages *)
(* on their way when the history is read, the one being broadcast and the  *)
(* one in sendMsg; but the history goes through the same loop, so the      *)
(* first has been broadcast before its reader is marked.                   *)
(***************************************************************************)
AtMostOneRepeated ==
  \A c \in Conns : \A i \in DOMAIN shown[c] : \A j \in DOMAIN received[c] :
    shown[c][i] = received[c][j] =>
      /\ Following(shown[c], i) = {}
      /\ \A k \in 1 .. j - 1 : received[c][k].Sender # received[c][j].Sender

-----------------------------------------------------------------------------
(***************************************************************************)
(* An inductive invariant that, with IInv, implies the two.  A message is  *)
(* its position in the history (the contents say so).  Whoever speaks has  *)
(* stored the message it sends, and no other since; whoever is heard has   *)
(* stored at most one more, the one it sends, and nobody has been shown    *)
(* that one; what a client has received is stored and on its way no more;  *)
(* and what it is shown, or is about to be, is the beginning of the        *)
(* history.                                                                *)
(***************************************************************************)
InHistory(message) ==
  /\ message.Contents \in DOMAIN chatHistory
  /\ chatHistory[message.Contents] = message

SpeakerInv ==
  /\ \A n \in DOMAIN chatHistory : chatHistory[n].Contents = n
  /\ \A c \in Speaking :
       LET message == outbox[c].chats[1]
       IN /\ IsConnected(c) /\ pc[c] = "read"
          /\ InHistory(message) /\ message.Sender = participant[c].Username
          /\ Following(chatHistory, message.Contents) = {}

OneInHand ==
  /\ \A c \in Conns : inHand[c].kind \in {"none", "chat", "history"}
  /\ \A c, d \in Conns :
       inHand[c].kind # "none" /\ inHand[d].kind # "none" => c = d

HeardInv ==
  \A c \in Heard :
    LET message == inHand[c].chats[1]
    IN /\ IsConnected(c)
       /\ InHistory(message) /\ message.Sender = participant[c].Username
       /\ c \in Speaking => outbox[c].chats[1] # message
       /\ \A x \in Following(chatHistory, message.Contents) :
            c \in Speaking /\ x = outbox[c].chats[1]
       /\ \A d \in Conns : \A i \in DOMAIN shown[d] :
            shown[d][i].Sender = message.Sender => i <= message.Contents

InOrder(messages) ==
  \A i, j \in DOMAIN messages :
    i < j /\ messages[i].Sender = messages[j].Sender =>
      messages[i].Contents < messages[j].Contents

ReceivedInv ==
  \A c \in Conns :
    /\ received[c] # <<>> => IsConnected(c)
    /\ \A i \in DOMAIN received[c] :
         InHistory(received[c][i]) /\ received[c][i] \notin InFlight
    /\ InOrder(received[c])

BeginsHistory(messages) ==
  \A i \in DOMAIN messages : i \in DOMAIN chatHistory /\ messages[i] = chatHistory[i]

\* What a client receives although it was shown is the last its sender has shown.
Overlap(c) ==
  \A i \in DOMAIN shown[c] : \A j \in DOMAIN received[c] :
    shown[c][i].Sender = received[c][j].Sender =>
      received[c][j].Contents \notin DOMAIN shown[c] \/ i <= received[c][j].Contents

ShownInv ==
  \A c \in Conns :
    /\ outbox[c].kind = "history" => pc[c] = "mark" /\ BeginsHistory(outbox[c].chats)
    /\ inHand[c].kind = "history" => received[c] = <<>> /\ BeginsHistory(inHand[c].chats)
    /\ BeginsHistory(shown[c])
    /\ Overlap(c)

DeliveryInv == SpeakerInv /\ OneInHand /\ HeardInv /\ ReceivedInv /\ ShownInv

(***************************************************************************)
(* As long as letter case tells no two accounts apart, whoever is on the   *)
(* air receives nothing of its own and misses nothing of the others that   *)
(* was stored after it was marked, or after a message it has received of   *)
(* the same sender.                                                        *)
(***************************************************************************)
Owed(c, n) ==
  \/ n > entered[c] /\ chatHistory[n].Sender # participant[c].Username
  \/ \E i \in DOMAIN received[c] :
       /\ n > received[c][i].Contents
       /\ chatHistory[n].Sender = received[c][i].Sender

MissesNothing(c) ==
  /\ \A i \in DOMAIN received[c] : received[c][i].Sender # participant[c].Username
  /\ \A n \in DOMAIN chatHistory :
       Owed(c, n) /\ chatHistory[n] \notin InFlight =>
         \E j \in DOMAIN received[c] : received[c][j] = chatHistory[n]

AirInv == NamesApart => \A c \in Conns : OnAir(c) => MissesNothing(c)

-----------------------------------------------------------------------------
\* Liveness, under FairSpec.  A panic ends everything.

\* Whatever a client types outside the chat proper is dealt with and answered:
\* the handler returns to reading, is done, or the process dies.
LinesAreAnswered ==
  \A c \in Conns :
    pc[c] = "process" /\ state[c] # "AcceptingMessages"
      ~> At(c, "read") \/ pc[c] = "done" \/ panic # NoPanic

\* When the last connection leaves, some handler notices that the map is empty,
\* unless a new connection arrives first.
EmptyMapIsNoticed ==
  \A c \in Conns :
    pc[c] = "checkEmpty" /\ connMap = {}
      ~> connMap # {} \/ panic # NoPanic \/ \E d \in Conns : pc[d] = "resetTimer"

\* No goroutine outlives its connection: when the handler is gone, so is,
\* eventually, the one that runs disconnectIfIdle.
IdleGoroutineEnds ==
  \A c \in Conns :
    pc[c] = "done" ~> idle[c] \in {"off", "done"} \/ panic # NoPanic

\* A connection closed for idleness while its handler is reading is removed.
IdleReaderIsDropped ==
  \A c \in Conns :
    netConn[c] = "closed" /\ pc[c] = "read" ~> c \notin connMap \/ panic # NoPanic

(***************************************************************************)
(* "When a participant disconnects, a connection is removed from the map"  *)
(* (architecture.md): a connection whose idle timer has fired leaves  *)
(* the map.  It does not when the timer fires after the handler has read a *)
(* message and before it has told the timer.                               *)
(***************************************************************************)
IdleConnectionIsDropped ==
  \A c \in Conns : idle[c] = "closing" ~> c \notin connMap \/ panic # NoPanic

=============================================================================
