------------------------------- MODULE Session -------------------------------
(***************************************************************************)
(* The session around the handlers of module Reader (session.Run): the     *)
(* loop that accepts connections, the shutdown timer, the message loop's   *)
(* exit, and the goroutine that is to unblock Accept.                      *)
(*                                                                         *)
(* go.mod asks for Go 1.21, whose timers have a buffered channel: a tick   *)
(* that was sent before Stop or Reset is still received after them.        *)
(***************************************************************************)
EXTENDS Reader

VARIABLES
  acceptor,  \* session.Run: "accept", "stopTimer" or "returned"
  timer,     \* shutdownTimer: "armed" or "stopped"
  tick,      \* is a tick waiting in shutdownTimer.C
  loop,      \* processMessages: "select", "trigger" or "exited"
  closer     \* the shutdown goroutine: "wait", "triggered", "sending", "close" or "done"

lifeVars == <<acceptor, timer, tick, loop, closer>>

sessionVars == <<vars, lifeVars>>

SessionTypeOK ==
  /\ TypeOK
  /\ acceptor \in {"accept", "stopTimer", "returned"}
  /\ timer \in {"armed", "stopped"}
  /\ tick \in BOOLEAN
  /\ loop \in {"select", "trigger", "exited"}
  /\ closer \in {"wait", "triggered", "sending", "close", "done"}

SessionInit ==
  /\ Init
  /\ acceptor = "accept"
  /\ timer = "armed"
  /\ tick = FALSE
  /\ loop = "select"
  /\ closer = "wait"

\* The process lives until something panics or Run returns to main.
Running == panic = NoPanic /\ acceptor # "returned"

-----------------------------------------------------------------------------
\* session.Run.

AcceptConn(c) ==
  /\ Running /\ acceptor = "accept"
  /\ Accept(c)
  /\ acceptor' = "stopTimer"
  /\ UNCHANGED <<timer, tick, loop, closer>>

\* s.shutdownTimer.Stop(), when the handler is already running.
StopTimer ==
  /\ Running /\ acceptor = "stopTimer"
  /\ acceptor' = "accept"
  /\ timer' = "stopped"
  /\ UNCHANGED <<vars, tick, loop, closer>>

\* Faulty: Run returns on any error.
AcceptFailsQuietly ==
  /\ Running /\ acceptor = "accept"
  /\ acceptor' = "returned"
  /\ UNCHANGED <<vars, timer, tick, loop, closer>>

(***************************************************************************)
(* Accept returns an error.  The select has a default: if the shutdown     *)
(* goroutine is blocked in its send Run returns, and otherwise the warning *)
(* dereferences the connection, which is nil.                              *)
(***************************************************************************)
AcceptFails ==
  /\ Running /\ acceptor = "accept"
  /\ \/ /\ closer = "sending"
        /\ acceptor' = "returned"
        /\ closer' = "close"
        /\ UNCHANGED panic
     \/ /\ closer # "sending"
        /\ Panic("Run")
        /\ UNCHANGED <<acceptor, closer>>
  /\ UNCHANGED <<backendVars, connVars, readerVars, timer, tick, loop>>

-----------------------------------------------------------------------------
\* The timer, the message loop and the shutdown goroutine.

TimerFires ==
  /\ Running /\ timer = "armed"
  /\ timer' = "stopped"
  /\ tick' = TRUE
  /\ UNCHANGED <<vars, acceptor, loop, closer>>

\* case <-s.shutdownTimer.C, when the loop has no message to broadcast.
ReceiveTick ==
  /\ Running /\ loop = "select" /\ LoopInSelect /\ tick
  /\ tick' = FALSE
  /\ loop' = "trigger"
  /\ UNCHANGED <<vars, acceptor, timer, closer>>

\* The loop sends on triggerShutdownProcess, the goroutine receives; the loop
\* returns.
TriggerShutdown ==
  /\ Running /\ loop = "trigger" /\ closer = "wait"
  /\ loop' = "exited"
  /\ closer' = "triggered"
  /\ UNCHANGED <<vars, acceptor, timer, tick>>

\* s.shutdownSignal <- struct{}{}: the goroutine is blocked until Run receives.
SendSignal ==
  /\ Running /\ closer = "triggered"
  /\ closer' = "sending"
  /\ UNCHANGED <<vars, acceptor, timer, tick, loop>>

\* s.listener.Close(), if main does not end the process before.
CloseListener ==
  /\ closer = "close"
  /\ closer' = "done"
  /\ UNCHANGED <<vars, acceptor, timer, tick, loop>>

\* The loop is at its select, for a message, or broadcasting one.
LoopServes(c) ==
  /\ Running /\ loop = "select"
  /\ ProcessMessages(c)
  /\ UNCHANGED lifeVars

-----------------------------------------------------------------------------
\* The handlers.  The last statement of one resets the timer.

HandlerStep(c) ==
  /\ Running
  /\ Handler(c)
  /\ timer' = IF pc[c] = "resetTimer" THEN "armed" ELSE timer
  /\ UNCHANGED <<acceptor, tick, loop, closer>>

OtherStep(c) ==
  /\ Running
  /\ Client(c) \/ IdleProceeds(c)
  /\ UNCHANGED lifeVars

SessionNext ==
  \/ \E c \in Conns :
       AcceptConn(c) \/ LoopServes(c) \/ HandlerStep(c) \/ OtherStep(c)
  \/ StopTimer \/ AcceptFails \/ TimerFires
  \/ ReceiveTick \/ TriggerShutdown \/ SendSignal \/ CloseListener

SessionSpec == SessionInit /\ [][SessionNext]_sessionVars

(***************************************************************************)
(* Every goroutine of the server goes on when it can, and the message loop *)
(* comes to serve each of its channels.  Nobody has to connect, nor does   *)
(* Accept have to fail: nothing in the program makes it, as long as the    *)
(* listener is open.                                                       *)
(***************************************************************************)
SessionFairness ==
  /\ \A c \in Conns :
       /\ WF_sessionVars(HandlerStep(c))
       /\ SF_sessionVars(LoopServes(c))
       /\ WF_sessionVars(Running /\ IdleProceeds(c) /\ UNCHANGED lifeVars)
  /\ WF_sessionVars(StopTimer)
  /\ SF_sessionVars(ReceiveTick)
  /\ WF_sessionVars(TriggerShutdown)
  /\ WF_sessionVars(SendSignal)
  /\ WF_sessionVars(CloseListener)

FairSessionSpec == SessionSpec /\ SessionFairness

-----------------------------------------------------------------------------
\* Properties.

(***************************************************************************)
(* Four goroutines shut the session down in order: the message loop is     *)
(* gone before the shutdown goroutine signals, and Run returns exactly     *)
(* when that signal is received.  No error of Accept ends it by itself.    *)
(***************************************************************************)
ShutdownInOrder ==
  /\ closer # "wait" <=> loop = "exited"
  /\ acceptor = "returned" <=> closer \in {"close", "done"}

(***************************************************************************)
(* From the tick on the message loop receives nothing.  A client has to be *)
(* sent the chat history before it is marked as connected, so nobody gets  *)
(* into the chat any more, although Run goes on accepting: only who is     *)
(* past that point, with nothing left to send, is still let in.            *)
(***************************************************************************)
Outside(c) == ~IsConnected(c) /\ (pc[c] # "mark" \/ outbox[c] # NoMsg)

NobodyEntersInShutdown ==
  [][loop # "select" => \A c \in Conns : Outside(c) => Outside(c)']_sessionVars

(***************************************************************************)
(* "Shut down the session if no paticipants joined for the specified time  *)
(* limit" (session.go): once the timer has fired Run returns, unless       *)
(* somebody connects after all.  It does not.  The shutdown goroutine      *)
(* sends its signal before it closes the listener, Run receives the signal *)
(* only after Accept has failed, and what is to make Accept fail is that   *)
(* the listener is closed.                                                 *)
(***************************************************************************)
ShutdownEnds == tick ~> acceptor = "returned" \/ panic # NoPanic \/ connMap # {}

(***************************************************************************)
(* The timer is the "time for the session to tear down if nobody           *)
(* connected" (services/session/main.go): when every handler is reading or *)
(* gone and Run is back in Accept, it is running if and only if there is   *)
(* no connection.  A handler that finds the map empty and resets the timer *)
(* after a new client was accepted breaks the one direction, and Run, when *)
(* it stops the timer after the new client has left, the other.            *)
(***************************************************************************)
Quiet ==
  /\ Running /\ acceptor = "accept"
  /\ loop = "select" /\ ~tick
  /\ \A c \in Conns : pc[c] \in {"new", "read", "done"}

CountdownIffEmpty == Quiet => (timer = "armed" <=> connMap = {})

(***************************************************************************)
(* One handler that hangs keeps a session up for good: its connection      *)
(* stays in the map, so no handler finds the map empty and resets the      *)
(* timer, however many clients come and go.                                *)
(***************************************************************************)
HeldUp ==
  /\ \E c \in Conns : Hung(c)
  /\ timer = "stopped" /\ ~tick /\ loop = "select"
  /\ \A c \in Conns : pc[c] # "resetTimer"

HeldUpForGood == [][HeldUp => HeldUp']_sessionVars

=============================================================================
