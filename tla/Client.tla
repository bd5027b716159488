-------------------------------- MODULE Client --------------------------------
(***************************************************************************)
(* The terminal client (pkg/client) at one end of a connection, with what  *)
(* it meets at the other end: the session's handler for this connection    *)
(* and its only message loop, of which Reader and Session have the rest.   *)
(* Here a write may block: each direction of the connection holds at most  *)
(* Capacity segments.                                                      *)
(*                                                                         *)
(* The client is three goroutines.  Run, the main one, receives from the   *)
(* other two over unbuffered channels and alone prints and writes; when it *)
(* returns the process ends, and the other two with it.                    *)
(***************************************************************************)
EXTENDS Naturals, Sequences

CONSTANTS
  RetriesCount,  \* Config.RetriesCount
  Capacity,      \* segments in flight in each direction
  MaxSent,       \* bound on the messages from the server
  MaxTyped       \* bound on the lines typed that are not blank

ASSUME ClientAssumption ==
  /\ RetriesCount \in Nat /\ Capacity \in Nat \ {0}
  /\ MaxSent \in Nat /\ MaxTyped \in Nat

VARIABLES
  main,       \* Run: "dial", "select", "write", "returned", "failed"
  dials,      \* calls of net.Dial
  writing,    \* the line Run is writing
  receiver,   \* handleRemoteConnection: "off", "read", "send", "ended"
  segment,    \* what it has read and not handed over
  typist,     \* processInput: "off", "check", "read", "send", "ended"
  line,       \* what it has read and not handed over
  stdin,      \* "open" or "eof"
  cancelled,  \* the context
  printed,    \* what the user has seen
  link,       \* "none", "open", "closed" by the server, "reset"
  down, up,   \* what is in flight to the client and to the server
  sent, typed,
  handler,    \* the session's handler: "read", or "send" while in sendMsg
  received,   \* the lines it has read
  loop        \* processMessages: "select", or "write" to this client

runVars == <<main, dials, writing, printed>>
receiverVars == <<receiver, segment>>
typistVars == <<typist, line, stdin, typed>>
linkVars == <<link, down, up, sent>>
serverVars == <<handler, received, loop>>
vars == <<runVars, receiverVars, typistVars, linkVars, serverVars, cancelled>>

\* A line without text: TrimWhitespaces leaves nothing of a blank line, nor
\* of the end of the input.
Blank == 0

ClientTypeOK ==
  /\ main \in {"dial", "select", "write", "returned", "failed"}
  /\ dials \in Nat
  /\ receiver \in {"off", "read", "send", "ended"}
  /\ typist \in {"off", "check", "read", "send", "ended"}
  /\ stdin \in {"open", "eof"}
  /\ cancelled \in BOOLEAN
  /\ link \in {"none", "open", "closed", "reset"}
  /\ handler \in {"read", "send"}
  /\ loop \in {"select", "write"}
  /\ {writing, line} \subseteq 0 .. MaxTyped
  /\ typed \in 0 .. MaxTyped /\ sent \in 0 .. MaxSent
  /\ {segment, printed} \subseteq Seq(1 .. MaxSent)
  /\ received \in Seq(1 .. MaxTyped)
  /\ down \in Seq(1 .. MaxSent) /\ Len(down) <= Capacity
  /\ up \in Seq(1 .. MaxTyped) /\ Len(up) <= Capacity

CreateClient ==
  /\ main = "dial" /\ dials = 0 /\ writing = Blank /\ printed = <<>>
  /\ receiver = "off" /\ segment = <<>>
  /\ typist = "off" /\ line = Blank /\ stdin = "open" /\ typed = 0
  /\ cancelled = FALSE
  /\ link = "none" /\ down = <<>> /\ up = <<>> /\ sent = 0
  /\ handler = "read" /\ received = <<>> /\ loop = "select"

-----------------------------------------------------------------------------
\* Run.

\* Faulty: the retries are compared with one more than they should be.
NoMoreRetriesOffByOne == dials > RetriesCount

\* dials is the value of retries in tryConnect's loop before the next Dial.
NoMoreRetries == dials >= RetriesCount

DialSucceeds ==
  /\ main = "dial"
  /\ dials' = dials + 1
  /\ main' = "select" /\ receiver' = "read" /\ typist' = "check"
  /\ link' = "open"
  /\ UNCHANGED <<writing, printed, segment, line, stdin, typed, cancelled,
                 down, up, sent, serverVars>>

DialFails ==
  /\ main = "dial"
  /\ dials' = dials + 1
  /\ main' = IF NoMoreRetries THEN "failed" ELSE "dial"
  /\ UNCHANGED <<writing, printed, receiverVars, typistVars, linkVars,
                 serverVars, cancelled>>

\* Faulty: what the user typed comes first.
ShowWhenNotTyping ==
  /\ main = "select" /\ receiver = "send" /\ typist # "send"
  /\ printed' = printed \o segment
  /\ receiver' = "read" /\ segment' = <<>>
  /\ UNCHANGED <<main, dials, writing, typistVars, linkVars, serverVars, cancelled>>

\* <-c.incomingMessages
Show ==
  /\ main = "select" /\ receiver = "send"
  /\ printed' = printed \o segment
  /\ receiver' = "read" /\ segment' = <<>>
  /\ UNCHANGED <<main, dials, writing, typistVars, linkVars, serverVars, cancelled>>

\* Faulty: a line is taken and stays with the goroutine that read it.
TakeAndKeep ==
  /\ main = "select" /\ typist = "send"
  /\ writing' = line /\ main' = "write"
  /\ UNCHANGED <<dials, printed, receiverVars, typist, line, stdin, typed,
                 linkVars, serverVars, cancelled>>

\* <-c.outgoingMessages
Take ==
  /\ main = "select" /\ typist = "send"
  /\ writing' = line /\ main' = "write"
  /\ typist' = "check" /\ line' = Blank
  /\ UNCHANGED <<dials, printed, receiverVars, stdin, typed, linkVars,
                 serverVars, cancelled>>

\* Faulty: a blank line is written like any other.
WriteBlankToo ==
  \/ /\ link = "open" /\ Len(up) < Capacity
     /\ up' = Append(up, writing)
     /\ UNCHANGED <<link, down, sent>>
  \/ link # "open" /\ UNCHANGED linkVars

(***************************************************************************)
(* WriteBytes, whose error nobody looks at.  A blank line is not written,  *)
(* a full connection blocks, and a write to a peer that has closed makes   *)
(* it answer with a reset, which discards what was not read.               *)
(***************************************************************************)
WriteBytes ==
  \/ writing = Blank /\ UNCHANGED linkVars
  \/ /\ writing # Blank /\ link = "open" /\ Len(up) < Capacity
     /\ up' = Append(up, writing)
     /\ UNCHANGED <<link, down, sent>>
  \/ /\ writing # Blank /\ link = "closed"
     /\ link' \in {"closed", "reset"}
     /\ UNCHANGED <<down, up, sent>>
  \/ writing # Blank /\ link = "reset" /\ UNCHANGED linkVars

Write ==
  /\ main = "write"
  /\ WriteBytes
  /\ main' = "select" /\ writing' = Blank
  /\ UNCHANGED <<dials, printed, receiverVars, typistVars, serverVars, cancelled>>

\* <-c.ctx.Done()
Return ==
  /\ main = "select" /\ cancelled
  /\ main' = "returned"
  /\ UNCHANGED <<dials, writing, printed, receiverVars, typistVars, linkVars,
                 serverVars, cancelled>>

-----------------------------------------------------------------------------
\* handleRemoteConnection.

Running == main \in {"select", "write"}

\* One Read takes one or more of the segments that have arrived.
Receive ==
  /\ Running /\ receiver = "read" /\ link # "reset"
  /\ \E n \in 1 .. Len(down) :
       /\ segment' = SubSeq(down, 1, n)
       /\ down' = SubSeq(down, n + 1, Len(down))
  /\ receiver' = "send"
  /\ UNCHANGED <<runVars, typistVars, link, up, sent, serverVars, cancelled>>

\* Faulty: the end of the connection is noticed and not told.
StopReceivingQuietly ==
  /\ Running /\ receiver = "read"
  /\ link = "reset" \/ (link = "closed" /\ down = <<>>)
  /\ receiver' = "ended"
  /\ UNCHANGED <<runVars, segment, typistVars, linkVars, serverVars, cancelled>>

\* Faulty: a closed connection ends the client before it is read out.
StopReceivingEarly ==
  /\ Running /\ receiver = "read"
  /\ link \in {"closed", "reset"}
  /\ receiver' = "ended" /\ cancelled' = TRUE
  /\ UNCHANGED <<runVars, segment, typistVars, linkVars, serverVars>>

\* A read error, or no bytes at the end of the stream.
StopReceiving ==
  /\ Running /\ receiver = "read"
  /\ link = "reset" \/ (link = "closed" /\ down = <<>>)
  /\ receiver' = "ended" /\ cancelled' = TRUE
  /\ UNCHANGED <<runVars, segment, typistVars, linkVars, serverVars>>

-----------------------------------------------------------------------------
\* processInput.

CheckContext ==
  /\ Running /\ typist = "check"
  /\ typist' = IF cancelled THEN "ended" ELSE "read"
  /\ UNCHANGED <<runVars, receiverVars, line, stdin, typed, linkVars,
                 serverVars, cancelled>>

Type ==
  /\ Running /\ typist = "read" /\ stdin = "open"
  /\ \/ typed < MaxTyped /\ typed' = typed + 1 /\ line' = typed'
     \/ line' = Blank /\ UNCHANGED typed
  /\ typist' = "send"
  /\ UNCHANGED <<runVars, receiverVars, stdin, linkVars, serverVars, cancelled>>

\* The user ends the input; every Read from then on returns io.EOF, which
\* is sent on like a blank line.
EndInput ==
  /\ stdin = "open" /\ stdin' = "eof"
  /\ UNCHANGED <<runVars, receiverVars, typist, line, typed, linkVars,
                 serverVars, cancelled>>

ReadEndOfInput ==
  /\ Running /\ typist = "read" /\ stdin = "eof"
  /\ line' = Blank /\ typist' = "send"
  /\ UNCHANGED <<runVars, receiverVars, stdin, typed, linkVars, serverVars,
                 cancelled>>

\* Another error ends this goroutine alone.
InputFails ==
  /\ Running /\ typist = "read"
  /\ typist' = "ended"
  /\ UNCHANGED <<runVars, receiverVars, line, stdin, typed, linkVars,
                 serverVars, cancelled>>

-----------------------------------------------------------------------------
\* The other end.

\* reader.read: one Read, which may find several lines and takes them for one.
HandlerReads ==
  /\ link = "open" /\ handler = "read"
  /\ \E n \in 1 .. Len(up) :
       /\ received' = received \o SubSeq(up, 1, n)
       /\ up' = SubSeq(up, n + 1, Len(up))
  /\ handler' = "send"
  /\ UNCHANGED <<runVars, receiverVars, typistVars, link, down, sent, loop,
                 cancelled>>

\* The loop receives the handler's message, a reply to this client or a
\* message for the others, or one of another handler for this client.
LoopReceives ==
  /\ link # "none" /\ loop = "select" /\ handler = "send"
  /\ handler' = "read"
  /\ \/ loop' = "write" /\ sent < MaxSent
     \/ loop' = "select"
  /\ UNCHANGED <<runVars, receiverVars, typistVars, linkVars, received, cancelled>>

LoopReceivesOther ==
  /\ link # "none" /\ loop = "select" /\ sent < MaxSent
  /\ loop' = "write"
  /\ UNCHANGED <<runVars, receiverVars, typistVars, linkVars, handler,
                 received, cancelled>>

\* Faulty: a message that does not fit is dropped.
LoopWritesOrDrops ==
  /\ loop = "write"
  /\ \/ /\ link = "open" /\ Len(down) < Capacity
        /\ sent' = sent + 1 /\ down' = Append(down, sent')
     \/ UNCHANGED <<sent, down>>
  /\ loop' = "select"
  /\ UNCHANGED <<runVars, receiverVars, typistVars, link, up, handler,
                 received, cancelled>>

\* The loop writes to this client under the lock of the connection map.
LoopWrites ==
  /\ loop = "write"
  /\ \/ /\ link = "open" /\ Len(down) < Capacity
        /\ sent' = sent + 1 /\ down' = Append(down, sent')
     \/ link # "open" /\ UNCHANGED <<sent, down>>
  /\ loop' = "select"
  /\ UNCHANGED <<runVars, receiverVars, typistVars, link, up, handler,
                 received, cancelled>>

\* The handler or the idle goroutine closes the socket; the loop gets an error.
ServerCloses ==
  /\ link = "open" /\ link' = "closed"
  /\ UNCHANGED <<runVars, receiverVars, typistVars, down, up, sent,
                 serverVars, cancelled>>

LinkBreaks ==
  /\ link \in {"open", "closed"} /\ link' = "reset"
  /\ UNCHANGED <<runVars, receiverVars, typistVars, down, up, sent,
                 serverVars, cancelled>>

-----------------------------------------------------------------------------
ClientNext ==
  \/ DialSucceeds \/ DialFails \/ Show \/ Take \/ Write \/ Return
  \/ Receive \/ StopReceiving
  \/ CheckContext \/ Type \/ EndInput \/ ReadEndOfInput \/ InputFails
  \/ HandlerReads \/ LoopReceives \/ LoopReceivesOther \/ LoopWrites
  \/ ServerCloses \/ LinkBreaks

(***************************************************************************)
(* Goroutines that can go on do.  Go's select chooses at random among the  *)
(* cases that are ready, so a case that is ready again and again is chosen *)
(* at last.  Users, the peer's close and faults owe nothing.               *)
(***************************************************************************)
ClientFairness ==
  /\ WF_vars(DialSucceeds \/ DialFails) /\ WF_vars(Write)
  /\ SF_vars(Show) /\ SF_vars(Take) /\ SF_vars(Return)
  /\ WF_vars(Receive \/ StopReceiving)
  /\ WF_vars(CheckContext) /\ WF_vars(ReadEndOfInput)
  /\ WF_vars(HandlerReads) /\ WF_vars(LoopReceives) /\ WF_vars(LoopWrites)

ClientSpec == CreateClient /\ [][ClientNext]_vars /\ ClientFairness

-----------------------------------------------------------------------------
UpTo(n) == [i \in 1 .. n |-> i]

\* A line in somebody's hand, as a sequence.
Pending(n) == IF n = Blank THEN <<>> ELSE <<n>>

(***************************************************************************)
(* What the server wrote is printed in order and in whole, wherever the    *)
(* three goroutines stand; a client that returns because the server closed *)
(* has printed all of it.  A reset loses what was not read yet, no more.   *)
(***************************************************************************)
IncomingKept ==
  /\ printed \o segment \o down = UpTo(sent)
  /\ main = "returned" /\ link = "closed" => printed = UpTo(sent)

(***************************************************************************)
(* While the connection is up, the lines typed reach the handler in order, *)
(* none lost or sent twice, though one read of the handler may find two.   *)
(***************************************************************************)
OutgoingKept ==
  link = "open" =>
    received \o up \o Pending(writing) \o Pending(line) = UpTo(typed)

(***************************************************************************)
(* tryConnect gives up after RetriesCount retries of the first attempt, no *)
(* earlier, and never dials again after that or after a success.           *)
(***************************************************************************)
DialsBounded ==
  /\ dials <= RetriesCount + 1
  /\ main = "failed" => dials = RetriesCount + 1

\* Everybody waits: the client writes to a handler that waits for the server's loop,
\* which writes to this client, whose reader waits for Run to come back from its write.
Gridlock ==
  /\ link = "open" /\ Len(down) = Capacity /\ Len(up) = Capacity
  /\ loop = "write" /\ handler = "send"
  /\ main = "write" /\ writing # Blank /\ receiver = "send"

(***************************************************************************)
(* The cycle does not dissolve: whatever the user types or the input does, *)
(* only the end of this connection lets the server's loop go on, and with  *)
(* it every other client.                                                  *)
(***************************************************************************)
GridlockStays == [][Gridlock => Gridlock' \/ link' # "open"]_vars

(***************************************************************************)
(* Short of that cycle the server's only loop, once it writes to this      *)
(* client, is free again: the client keeps reading even when its standard  *)
(* input is at its end and floods Run with blank lines.                    *)
(***************************************************************************)
LoopIsFreed == loop = "write" ~> loop = "select" \/ Gridlock

(***************************************************************************)
(* A client whose connection is gone returns, whatever its goroutines were *)
(* doing, a blocked write and a flood of blank lines included.             *)
(***************************************************************************)
ClientEnds == link \in {"closed", "reset"} ~> main = "returned"

-----------------------------------------------------------------------------
(***************************************************************************)
(* The inductive invariant: where a goroutine stands tells what it has in  *)
(* hand, the context is cancelled by the one goroutine that reads, after   *)
(* it has read everything of a connection that was closed in order, and    *)
(* nothing is in flight before the connection is.                          *)
(***************************************************************************)
Stages ==
  /\ main = "dial" =>
       /\ dials <= RetriesCount
       /\ link = "none" /\ receiver = "off" /\ typist = "off"
  /\ main # "write" => writing = Blank
  /\ receiver # "send" => segment = <<>>
  /\ typist # "send" => line = Blank
  /\ loop = "write" => sent < MaxSent
  /\ main = "returned" => cancelled
  /\ cancelled => receiver = "ended"
  /\ receiver = "ended" => link = "reset" \/ (link = "closed" /\ down = <<>>)
  /\ link = "none" =>
       received \o up \o Pending(writing) \o Pending(line) = UpTo(typed)

ClientInv ==
  /\ ClientTypeOK
  /\ Stages
  /\ IncomingKept
  /\ OutgoingKept
  /\ DialsBounded

=============================================================================
