-------------------------------- MODULE Types --------------------------------
(***************************************************************************)
(* The data the packages of the chat server exchange (pkg/types), what the *)
(* validators accept (pkg/validation), and a process-wide panic.           *)
(*                                                                         *)
(* A text is a model value.  Which texts are acceptable names, e-mail      *)
(* addresses and passwords is a constant, since no handler looks at the    *)
(* characters.  Nothing in the server recovers from a panic, so the first  *)
(* one ends the process: `panic` names the operation that raised it.       *)
(***************************************************************************)
EXTENDS Integers, Sequences, FiniteSets

CONSTANTS
  Conns,          \* connections, identified by the client's address
  Texts,          \* what a client may type that is not a command
  NoText,         \* the empty string
  ValidNames,     \* the texts validation.ValidateName accepts
  ValidEmails,    \* the texts validation.ValidateEmail accepts
  ValidPasswords, \* the texts validation.ValidatePassword accepts
  Folded          \* the case-folded form of every text (strings.EqualFold)

ASSUME TextsAssumption ==
  /\ NoText \notin Texts
  /\ ValidNames \subseteq Texts
  /\ ValidEmails \subseteq Texts
  /\ ValidPasswords \subseteq Texts
  /\ Folded \in [Texts \cup {NoText} -> Texts \cup {NoText}]

VARIABLE panic

String == Texts \cup {NoText}

NoPanic == "none"

Panics == {NoPanic, "RegisterParticipant", "StoreMessage", "RegisterChannel",
           "DeleteChannel", "GetChatHistory", "removeConn", "markAsConnected",
           "Run"}

\* Logger.Panic: logs and panics in the calling goroutine.
Panic(operation) == panic' = operation

EqualFold(s, t) == Folded[s] = Folded[t]

Participant == [Username : String, Email : String, Password : String]

NoParticipant == [Username |-> NoText, Email |-> NoText, Password |-> NoText]

ChatMessage == [Contents : Nat, Sender : String, Channel : String]

(***************************************************************************)
(* What a handler sends and the message loop broadcasts: a system message  *)
(* for one client, told apart by what is in it, or a chat message.         *)
(***************************************************************************)
Outgoing == [kind : {"none", "sys", "idle", "left", "history", "chat"},
             chats : Seq(ChatMessage)]

NoMsg == [kind |-> "none", chats |-> <<>>]
SysMsg == [kind |-> "sys", chats |-> <<>>]    \* prompts and replies
IdleMsg == [kind |-> "idle", chats |-> <<>>]  \* "You were idle for too long"
LeftMsg == [kind |-> "left", chats |-> <<>>]  \* "Participant %s disconnected"
HistoryMsg(messages) == [kind |-> "history", chats |-> messages]
ChatMsg(message) == [kind |-> "chat", chats |-> <<message>>]

\* Has a message chat messages in it.
Carries(message) == message.kind \in {"chat", "history"}

(***************************************************************************)
(* BuildChatMsg copies the first of its variadic channels only if          *)
(* `len(channel) > 0`, where channel is the still empty local string and   *)
(* not the argument: the message is addressed to the general chat whatever *)
(* the caller passes.                                                      *)
(***************************************************************************)
BuildChatMsg(contents, sender, channel) ==
  [Contents |-> contents, Sender |-> sender, Channel |-> NoText]

=============================================================================
