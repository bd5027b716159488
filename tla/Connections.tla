----------------------------- MODULE Connections -----------------------------
(***************************************************************************)
(* The connections of a session (pkg/session/connection.go): the map that  *)
(* holds them, the broadcast over that map, and the goroutine that         *)
(* disconnects a participant who stays idle.                               *)
(*                                                                         *)
(* The methods of connectionMap run under its RWMutex and are one step     *)
(* each.  disconnectIfIdle is its own goroutine: it closes the socket and  *)
(* only then cancels the context, in two steps.                            *)
(***************************************************************************)
EXTENDS Types

VARIABLES
  connMap,      \* connections present in connectionMap.connections
  connState,    \* connection.state
  participant,  \* connection.participant, written by the connection's reader
  netConn,      \* the server's end of the socket: "open" or "closed"
  ctxDone,      \* has connection.cancel been called
  idle,         \* the goroutine running disconnectIfIdle
  inHand,       \* what the message loop has received from a handler and is to broadcast
  shown,        \* the chat history the client was shown on entering
  received,     \* the chat messages broadcast to the client, in order
  entered       \* how many messages were stored when it was marked as connected

deliveryVars == <<inHand, shown, received, entered>>

connVars == <<connMap, connState, participant, netConn, ctxDone, idle, deliveryVars>>

(***************************************************************************)
(* "off": not started.  "waiting": in its select.  "closing": its timer    *)
(* fired and the socket is closed, cancel is next.  "done": returned.      *)
(***************************************************************************)
IdleStates == {"off", "waiting", "closing", "done"}

ConnTypeOK ==
  /\ connMap \subseteq Conns
  /\ connState \in [Conns -> {"pending", "connected"}]
  /\ participant \in [Conns -> Participant]
  /\ netConn \in [Conns -> {"open", "closed"}]
  /\ ctxDone \in [Conns -> BOOLEAN]
  /\ idle \in [Conns -> IdleStates]
  /\ inHand \in [Conns -> Outgoing]
  /\ \A c \in Conns : inHand[c].kind = "chat" => Len(inHand[c].chats) = 1
  /\ shown \in [Conns -> Seq(ChatMessage)]
  /\ received \in [Conns -> Seq(ChatMessage)]
  /\ entered \in [Conns -> Nat]

\* newConnectionMap, and the fields newConn gives a connection.
NewConnections ==
  /\ connMap = {}
  /\ connState = [c \in Conns |-> "pending"]
  /\ participant = [c \in Conns |-> NoParticipant]
  /\ netConn = [c \in Conns |-> "open"]
  /\ ctxDone = [c \in Conns |-> FALSE]
  /\ idle = [c \in Conns |-> "off"]
  /\ inHand = [c \in Conns |-> NoMsg]
  /\ shown = [c \in Conns |-> <<>>]
  /\ received = [c \in Conns |-> <<>>]
  /\ entered = [c \in Conns |-> 0]

IsConnected(c) == connState[c] = "connected"

-----------------------------------------------------------------------------
\* The connection map.

AddConn(c) == connMap' = connMap \cup {c}

\* (Faulty: the map is left alone.)
RemoveNothing(c) == UNCHANGED <<connMap, panic>>

RemoveConn(c) ==
  IF c \in connMap
  THEN connMap' = connMap \ {c} /\ UNCHANGED panic
  ELSE Panic("removeConn") /\ UNCHANGED connMap

MarkAsConnected(c) ==
  IF c \in connMap
  THEN /\ connState' = [connState EXCEPT ![c] = "connected"]
       /\ UNCHANGED panic
  ELSE Panic("markAsConnected") /\ UNCHANGED connState

\* A system message with chat history in it, for one recipient.
ShowHistory(c, history) ==
  shown' = IF c \in connMap /\ netConn[c] = "open"
           THEN [shown EXCEPT ![c] = history]
           ELSE shown

Online == {c \in connMap : IsConnected(c)}

(***************************************************************************)
(* broadcastMessage leaves out one connection whose user has the sender's  *)
(* name, letter case ignored: the first it meets in a map whose iteration  *)
(* order is unspecified.  A write to a socket the server has closed fails  *)
(* and is logged.                                                          *)
(***************************************************************************)
Skippable(message) ==
  {c \in Online : EqualFold(participant[c].Username, message.Sender)}

BroadcastTo(recipients, message) ==
  received' = [c \in Conns |->
                 IF c \in recipients /\ netConn[c] = "open"
                 THEN Append(received[c], message)
                 ELSE received[c]]

BroadcastChatMessage(message) ==
  \/ /\ Skippable(message) = {}
     /\ BroadcastTo(Online, message)
  \/ \E skipped \in Skippable(message) :
       BroadcastTo(Online \ {skipped}, message)

-----------------------------------------------------------------------------
\* connection.disconnectIfIdle.

\* Faulty: the context is never cancelled.
CancelNothing(c) == UNCHANGED ctxDone

\* conn.cancel()
Cancel(c) == ctxDone' = [ctxDone EXCEPT ![c] = TRUE]

\* `go conn.disconnectIfIdle()`
StartIdleTimer(c) == idle' = [idle EXCEPT ![c] = "waiting"]

\* case <-timer.C, first half: the socket is closed.
IdleTimeout(c) ==
  /\ idle[c] = "waiting"
  /\ idle' = [idle EXCEPT ![c] = "closing"]
  /\ netConn' = [netConn EXCEPT ![c] = "closed"]
  /\ UNCHANGED <<connMap, connState, participant, ctxDone, deliveryVars>>

\* Faulty: the idle goroutine also takes the connection off the map.
IdleCancelAndRemove(c) ==
  /\ idle[c] = "closing"
  /\ idle' = [idle EXCEPT ![c] = "done"]
  /\ Cancel(c)
  /\ connMap' = connMap \ {c}
  /\ UNCHANGED <<connState, participant, netConn, deliveryVars>>

\* case <-timer.C, second half: the context is cancelled.
IdleCancel(c) ==
  /\ idle[c] = "closing"
  /\ idle' = [idle EXCEPT ![c] = "done"]
  /\ Cancel(c)
  /\ UNCHANGED <<connMap, connState, participant, netConn, deliveryVars>>

\* case <-c.ctx.Done()
IdleReturn(c) ==
  /\ idle[c] = "waiting" /\ ctxDone[c]
  /\ idle' = [idle EXCEPT ![c] = "done"]
  /\ UNCHANGED <<connMap, connState, participant, netConn, ctxDone, deliveryVars>>

\* Faulty: the sender does not wait for the goroutine (a select with a default).
AbortWithoutWaiting(c) == UNCHANGED idle

\* case <-c.abortConnectionTimeout: the sender needs this goroutine in its
\* select, and the timer starts over.
AbortConnectionTimeout(c) == idle[c] = "waiting" /\ UNCHANGED idle

=============================================================================
