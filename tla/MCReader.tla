------------------------------ MODULE MCReader ------------------------------
(***************************************************************************)
(* Instances of module Reader for TLC: what the clients of each run type.  *)
(* MCLogin has that of one more.                                           *)
(***************************************************************************)
EXTENDS Reader, CommandParser, TLC

CONSTANTS c1, c2, c3, u, v, w, g, k, l, none

Number(n, as) == [kind |-> "number", text |-> as, num |-> n]
Typed(t) == [kind |-> "text", text |-> t, num |-> 0]

Numbers == {"8"}

(***************************************************************************)
(* A line that starts with a colon is what ParseCommand makes of it.  Of   *)
(* the arguments only a command in capitals has another lower case, and    *)
(* only "8" is a number.                                                   *)
(***************************************************************************)
Arguments == {":menu", ":history", ":HISTORY", ":members", ":men", "-channel",
              "-period", "8", "-8", NoText} \cup Texts

Lower == [a \in Arguments |-> IF a = ":HISTORY" THEN ":history" ELSE a]

KindOf(command) ==
  CASE command = ":menu" -> "menu"
    [] command = ":history" -> "history"
    [] command = ":members" -> "members"
    [] command = ":channels" -> "channels"
    [] command = ":commands" -> "commands"
    [] OTHER -> "text"

Command(arguments) ==
  LET result == ParseCommand(arguments)
  IN [kind |-> IF result.Error # "Success" THEN "error" ELSE KindOf(result.command),
      text |-> result.Channel, num |-> 0]

\* No two texts differ in letter case only.
Distinct == [t \in Texts \cup {NoText} |-> t]

-----------------------------------------------------------------------------
(***************************************************************************)
(* Instances that start later.  The clients of `names` have all typed a    *)
(* name, an e-mail address and a password; those of `joined` have entered  *)
(* the chat, one after another, the others are about to be registered.     *)
(* The remaining clients have chosen to register and then typed :menu      *)
(* instead of a name.  Every such state is reached from Init.              *)
(***************************************************************************)
LaterInit(names, joined) ==
  LET Of(c, known, unknown) == IF c \in DOMAIN names THEN known ELSE unknown
  IN
  /\ panic = NoPanic
  /\ participants = [t \in {names[c] : c \in joined} |-> Sha256Checksum(k)]
  /\ chatHistory = <<>>
  /\ channels = [t \in {} |-> [Name |-> none, ChatHistory |-> <<>>]]
  /\ connMap = Conns
  /\ connState = [c \in Conns |-> IF c \in joined THEN "connected" ELSE "pending"]
  /\ participant = [c \in Conns |->
       IF c \in DOMAIN names
       THEN [Username |-> names[c], Email |-> k, Password |-> k]
       ELSE NoParticipant]
  /\ netConn = [c \in Conns |-> "open"]
  /\ ctxDone = [c \in Conns |-> FALSE]
  /\ idle = [c \in Conns |-> Of(c, "waiting", "off")]
  /\ inHand = [c \in Conns |-> NoMsg]
  /\ shown = [c \in Conns |-> <<>>]
  /\ received = [c \in Conns |-> <<>>]
  /\ entered = [c \in Conns |-> 0]
  /\ pc = [c \in Conns |->
       IF c \in DOMAIN names \ joined THEN "register" ELSE "read"]
  /\ state = [c \in Conns |->
       IF c \in joined THEN "AcceptingMessages"
                       ELSE Of(c, "Registration", "ProcessingMenu")]
  /\ substate = [c \in Conns |->
       IF c \in joined THEN "Null" ELSE Of(c, "ReadingPassword", "Null")]
  /\ buffer = [c \in Conns |-> NoLine]
  /\ channel = [c \in Conns |-> OwnChannel]
  /\ outbox = [c \in Conns |-> NoMsg]

-----------------------------------------------------------------------------
(***************************************************************************)
(* Channels: one participant in the chat, and one client who has reached   *)
(* the menu without logging in.  A number is a menu option or the id of a  *)
(* channel, depending on where it is typed.                                *)
(***************************************************************************)
ChannelTexts == {u, g, k}
ChannelNames == {u, g}
ChannelInput == [c \in Conns |->
  IF c = c1
  THEN {Number(1, k), Number(3, k), Number(4, k), Command(<<":menu">>),
        Command(<<":history", "-channel", g>>), Command(<<":history">>),
        Command(<<":history", "-period", "-8">>), Typed(u), Typed(g)}
  ELSE {Number(3, k), Typed(g)}]

ChannelInit == LaterInit(c1 :> u, {c1})
ChannelSpec == ChannelInit /\ [][Next]_vars

\* Five commands, one of them unknown, with up to four arguments.
AnyLines ==
  LET Rest == UNION {[1 .. n -> {"-channel", "-period", "8", "-8", NoText}] : n \in 0 .. 4}
  IN {<<command>> \o rest :
        command \in {":menu", ":history", ":HISTORY", ":members", ":men"}, rest \in Rest}

-----------------------------------------------------------------------------
\* Chatting: two participants are in the chat while a third one enters it.

ChatTexts == {u, v, w, k}
ChatNames == {u, v, w}
ChatInput == [c \in Conns |-> IF c = c3 THEN {} ELSE {Typed(k)}]

ChatInit == LaterInit(c1 :> u @@ c2 :> v @@ c3 :> w, {c1, c2})

\* Bounds the states: two of the three may leave.
OneStays == \E c \in Conns : state[c] # "Disconnecting"

\* The two are interchangeable.
ChatSymmetry == {c1 :> c2 @@ c2 :> c1 @@ u :> v @@ v :> u}

ChatSpec == ChatInit /\ [][Next]_vars

-----------------------------------------------------------------------------
\* Liveness: one client registers or tries to log in, and chats; the other leaves
\* from the first menu.  One text serves as name, e-mail address and password, the
\* digits of an option do not.

LiveTexts == {u, k}
LiveInput == [c \in Conns |->
  IF c = c1
  THEN {Number(1, k), Number(2, k), Number(3, k), Command(<<":menu">>), Typed(u)}
  ELSE {Number(7, k)}]

=============================================================================
