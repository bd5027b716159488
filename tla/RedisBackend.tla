----------------------------- MODULE RedisBackend -----------------------------
(***************************************************************************)
(* The storage in a Redis server (pkg/backend/redis).  The backend's mutex *)
(* admits one method at a time, but a method that writes is a row of       *)
(* commands to another process: any of them may fail, and the chat server  *)
(* may end between two.  Nothing looks at the errors, and nothing is       *)
(* undone after a restart.                                                 *)
(*                                                                         *)
(* Whether Redis has executed a command whose reply was lost makes no      *)
(* difference to a write: its error is ignored either way, and so a        *)
(* command that fails is one without an effect.  A query that fails reads  *)
(* as "no" or as "empty".  The texts a call stores (contents, password,    *)
(* times) are identified with the number of the call.                      *)
(***************************************************************************)
EXTENDS Integers, Sequences, FiniteSets

CONSTANTS
  Names,       \* names of participants and of channels
  General,     \* the text in the key of the general chat: "general"
  NoChannel,   \* the empty string, the channel of a message for all
  MaxCalls,    \* bound on the calls that write
  MaxTime,     \* bound on the seconds that pass
  MaxCrashes,  \* bound on the crashes of the chat server
  MaxFailures  \* bound on the commands that fail

ASSUME RedisAssumption ==
  /\ NoChannel \notin Names \cup {General}
  /\ Names \cap (Names \X (0 .. MaxTime)) = {}  \* a name is no message id
  /\ MaxCalls \in Nat /\ MaxTime \in Nat
  /\ MaxCrashes \in Nat /\ MaxFailures \in Nat

VARIABLES
  participants,  \* the set "participants:"
  channels,      \* the set "channels:"
  messages,      \* the sets "messages/<channel>:" of message ids
  hash,          \* key -> field -> the call that wrote it, 0 if there is none
  calls,         \* the calls that write, in the order of the lock
  step,          \* the next command of the last call, 0 between calls
  disturbed,     \* calls that lost a command or were cut off
  now,           \* the clock, in seconds
  up,            \* the chat server runs
  crashes, failures

stored == <<participants, channels, messages, hash>>
vars == <<stored, calls, step, disturbed, now, up, crashes, failures>>

Methods == {"RegisterParticipant", "StoreMessage", "RegisterChannel",
            "DeleteChannel"}

\* The fields of the records, in the order reflection visits them; the
\* members and the history of a channel are not stored with it.
ParticipantFields == {"Username", "Password", "Email", "JoinTime"}
MessageFields == {"Contents", "Sender", "Channel", "SentTime"}
ChannelFields == {"Name", "Desc", "Creator", "CreationDate"}
Fields == ParticipantFields \cup MessageFields \cup ChannelFields

\* A message's id is its sender and the second it was sent.  Participants
\* and channels have the same key, the hash of the name.
Ids == Names \X (0 .. MaxTime)
Keys == Names \cup Ids

Call == [method : Methods, name : Names, channel : Names \cup {NoChannel},
         time : 0 .. MaxTime, blind : BOOLEAN]

-----------------------------------------------------------------------------
(***************************************************************************)
(* What a method that has passed its checks sends to Redis, in order: HSet *)
(* for each field, and the commands on the sets.                           *)
(***************************************************************************)
\* Faulty: a participant is listed before its record is written.
ProgramListingFirst ==
  [RegisterParticipant |-> <<"SAdd", "Username", "Password", "Email", "JoinTime">>,
   StoreMessage        |-> <<"SAdd", "Contents", "Sender", "Channel", "SentTime">>,
   RegisterChannel     |-> <<"Name", "Desc", "Creator", "CreationDate", "SAdd">>,
   DeleteChannel       |-> <<"SRem", "Del">>]

\* Faulty: a channel is unlisted after its record is gone.
ProgramDelFirst ==
  [RegisterParticipant |-> <<"Username", "Password", "Email", "JoinTime", "SAdd">>,
   StoreMessage        |-> <<"SAdd", "Contents", "Sender", "Channel", "SentTime">>,
   RegisterChannel     |-> <<"Name", "Desc", "Creator", "CreationDate", "SAdd">>,
   DeleteChannel       |-> <<"Del", "SRem">>]

Program ==
  [RegisterParticipant |-> <<"Username", "Password", "Email", "JoinTime", "SAdd">>,
   StoreMessage        |-> <<"SAdd", "Contents", "Sender", "Channel", "SentTime">>,
   RegisterChannel     |-> <<"Name", "Desc", "Creator", "CreationDate", "SAdd">>,
   DeleteChannel       |-> <<"SRem", "Del">>]

\* The call that holds the lock, and its number.
Current == Len(calls)
call == calls[Current]

\* Faulty: the id of a message is its sender.
KeyWithoutTime ==
  IF call.method = "StoreMessage" THEN <<call.name, 0>> ELSE call.name

Key == IF call.method = "StoreMessage" THEN <<call.name, call.time>> ELSE call.name

\* "messages/" + channel + ":", and "messages/general:" for no channel.
HistoryOf(channel) == IF channel = NoChannel THEN General ELSE channel

Exists(key) == \E field \in Fields : hash[key][field] # 0

RedisTypeOK ==
  /\ participants \subseteq Names
  /\ channels \subseteq Names
  /\ messages \in [Names \cup {General} -> SUBSET Ids]
  /\ hash \in [Keys -> [Fields -> 0 .. MaxCalls]]
  /\ calls \in Seq(Call) /\ Len(calls) <= MaxCalls
  /\ step \in Nat
  /\ step # 0 => up /\ calls # <<>> /\ step <= Len(Program[call.method])
  /\ disturbed \subseteq 1 .. Len(calls)
  /\ now \in 0 .. MaxTime
  /\ up \in BOOLEAN
  /\ crashes \in 0 .. MaxCrashes
  /\ failures \in 0 .. MaxFailures

NewRedisBackend ==
  /\ participants = {}
  /\ channels = {}
  /\ messages = [history \in Names \cup {General} |-> {}]
  /\ hash = [key \in Keys |-> [field \in Fields |-> 0]]
  /\ calls = <<>> /\ step = 0 /\ disturbed = {}
  /\ now = 0 /\ up = TRUE /\ crashes = 0 /\ failures = 0

-----------------------------------------------------------------------------
(***************************************************************************)
(* The methods up to their first command.  A blind call is one whose       *)
(* SIsMember fails.                                                        *)
(***************************************************************************)
Fails(so) ==
  IF so THEN failures < MaxFailures /\ failures' = failures + 1
        ELSE UNCHANGED failures

\* Logger.Panic: the chat server ends.
PanicNow == up' = FALSE /\ UNCHANGED <<calls, step>>

Begin(method, name, channel, blind) ==
  /\ calls' = Append(calls, [method |-> method, name |-> name,
                             channel |-> channel, time |-> now, blind |-> blind])
  /\ step' = 1
  /\ UNCHANGED up

\* Faulty: a participant that exists is registered again.
RegisterParticipantAnyway(name, blind) ==
  Begin("RegisterParticipant", name, NoChannel, blind)

RegisterParticipant(name, blind) ==
  IF name \in participants /\ ~blind
  THEN PanicNow
  ELSE Begin("RegisterParticipant", name, NoChannel, blind)

StoreMessage(sender, channel, blind) ==
  IF channel = NoChannel
  THEN ~blind /\ Begin("StoreMessage", sender, channel, blind)
  ELSE IF channel \in channels /\ ~blind
  THEN Begin("StoreMessage", sender, channel, blind)
  ELSE PanicNow

RegisterChannel(name, blind) ==
  IF name \in channels /\ ~blind
  THEN PanicNow
  ELSE Begin("RegisterChannel", name, NoChannel, blind)

\* Returns false for a channel it does not find.
DeleteChannel(name, blind) ==
  IF name \in channels /\ ~blind
  THEN Begin("DeleteChannel", name, NoChannel, blind)
  ELSE UNCHANGED <<calls, step, up>>

Enter ==
  /\ up /\ step = 0 /\ Len(calls) < MaxCalls
  /\ \E name \in Names, blind \in BOOLEAN :
       /\ Fails(blind)
       /\ \/ RegisterParticipant(name, blind)
          \/ RegisterChannel(name, blind)
          \/ DeleteChannel(name, blind)
          \/ \E channel \in Names \cup {NoChannel} :
               StoreMessage(name, channel, blind)
  /\ UNCHANGED <<stored, disturbed, now, crashes>>

-----------------------------------------------------------------------------
(***************************************************************************)
(* The commands of the call that holds the lock.                           *)
(***************************************************************************)
Command == Program[call.method][step]

\* Faulty: the end of the method is missed.
NextStepUnchecked == step + 1

NextStep == IF step = Len(Program[call.method]) THEN 0 ELSE step + 1

HSet ==
  /\ Command \in Fields
  /\ hash' = [hash EXCEPT ![Key][Command] = Current]
  /\ UNCHANGED <<participants, channels, messages>>

\* Faulty: every message is filed under the general chat.
SAddMessageGeneral ==
  /\ messages' = [messages EXCEPT ![General] = @ \cup {Key}]
  /\ UNCHANGED <<participants, channels, hash>>

SAddMessage ==
  /\ messages' = [messages EXCEPT ![HistoryOf(call.channel)] = @ \cup {Key}]
  /\ UNCHANGED <<participants, channels, hash>>

\* A name is listed only if HGetAll finds a field under its key, whoever
\* wrote it.
SAddName ==
  /\ participants' = IF call.method = "RegisterParticipant" /\ Exists(Key)
                     THEN participants \cup {call.name} ELSE participants
  /\ channels' = IF call.method = "RegisterChannel" /\ Exists(Key)
                 THEN channels \cup {call.name} ELSE channels
  /\ UNCHANGED <<messages, hash>>

SAdd ==
  /\ Command = "SAdd"
  /\ IF call.method = "StoreMessage" THEN SAddMessage ELSE SAddName

SRem ==
  /\ Command = "SRem"
  /\ channels' = channels \ {call.name}
  /\ UNCHANGED <<participants, messages, hash>>

Del ==
  /\ Command = "Del"
  /\ hash' = [hash EXCEPT ![Key] = [field \in Fields |-> 0]]
  /\ UNCHANGED <<participants, channels, messages>>

Issue ==
  /\ up /\ step # 0
  /\ HSet \/ SAdd \/ SRem \/ Del
  /\ step' = NextStep
  /\ UNCHANGED <<calls, disturbed, now, up, crashes, failures>>

IssueFails ==
  /\ up /\ step # 0
  /\ Fails(TRUE)
  /\ disturbed' = disturbed \cup {Current}
  /\ step' = NextStep
  /\ UNCHANGED <<stored, calls, now, up, crashes>>

-----------------------------------------------------------------------------
(***************************************************************************)
(* The methods that read panic on a listed name and on a message id        *)
(* without a record, or when HGetAll fails on one; GetChatHistory also of  *)
(* a channel that is not listed, or whose SIsMember fails.                 *)
(***************************************************************************)
GetParticipantsPanics == \E name \in participants : ~Exists(name)

GetChannelsPanics == \E name \in channels : ~Exists(name)

GetChatHistoryPanics(history) == \E id \in messages[history] : ~Exists(id)

GetPanics ==
  \/ GetParticipantsPanics
  \/ GetChannelsPanics
  \/ \E history \in channels \cup {General} : GetChatHistoryPanics(history)

ReadPanics ==
  /\ up /\ step = 0
  /\ \/ (GetPanics \/ Names # channels) /\ UNCHANGED failures
     \/ /\ \/ participants # {} \/ channels # {}
           \/ \E history \in channels \cup {General} : messages[history] # {}
        /\ Fails(TRUE)
  /\ PanicNow
  /\ UNCHANGED <<stored, disturbed, now, crashes>>

\* The password of a call that registers is the number of that call.
AuthParticipant(name, password) ==
  /\ name \in participants
  /\ hash[name]["Password"] # 0
  /\ hash[name]["Password"] = password

-----------------------------------------------------------------------------
Crash ==
  /\ up /\ crashes < MaxCrashes
  /\ up' = FALSE
  /\ crashes' = crashes + 1
  /\ disturbed' = IF step = 0 THEN disturbed ELSE disturbed \cup {Current}
  /\ step' = 0
  /\ UNCHANGED <<stored, calls, now, failures>>

\* What the server keeps in its own memory is empty; what Redis has, stays.
Restart ==
  /\ ~up
  /\ up' = TRUE
  /\ UNCHANGED <<stored, calls, step, disturbed, now, crashes, failures>>

Tick ==
  /\ now < MaxTime
  /\ now' = now + 1
  /\ UNCHANGED <<stored, calls, step, disturbed, up, crashes, failures>>

RedisNext ==
  Enter \/ Issue \/ IssueFails \/ ReadPanics \/ Crash \/ Restart \/ Tick

RedisSpec == NewRedisBackend /\ [][RedisNext]_vars

-----------------------------------------------------------------------------
Done(k) == k < Current \/ step = 0

CallsOf(method, name) ==
  {k \in 1 .. Current : calls[k].method = method /\ calls[k].name = name}

IdOf(k) == <<calls[k].name, calls[k].time>>

StoresOf(id) ==
  {k \in 1 .. Current : calls[k].method = "StoreMessage" /\ IdOf(k) = id}

(***************************************************************************)
(* Whoever was registered without a disturbance logs in with the password  *)
(* of the registration, whatever else failed or crashed before or after:   *)
(* until a channel of the same name is deleted, whose record has the same  *)
(* key, or a failing SIsMember lets somebody register over the account.    *)
(***************************************************************************)
RegisteredLogsIn ==
  \A name \in Names : \A k \in CallsOf("RegisterParticipant", name) :
    Done(k) /\ k \notin disturbed =>
      \/ AuthParticipant(name, k)
      \/ \E j \in CallsOf("DeleteChannel", name) : j > k
      \/ \E j \in CallsOf("RegisterParticipant", name) : j > k /\ calls[j].blind

(***************************************************************************)
(* However often the server crashes in the middle of a method: while Redis *)
(* answers, a listed participant has all the fields of one registration,   *)
(* unless a channel of that name was deleted, and so has a listed channel. *)
(***************************************************************************)
WholeParticipant(name) ==
  \E k \in CallsOf("RegisterParticipant", name) :
    \A field \in ParticipantFields : hash[name][field] = k

WholeChannel(name) ==
  \E k \in CallsOf("RegisterChannel", name) :
    \A field \in ChannelFields : hash[name][field] = k

ListedIsWhole ==
  failures = 0 =>
    /\ \A name \in participants :
         WholeParticipant(name) \/ CallsOf("DeleteChannel", name) # {}
    /\ \A name \in channels : WholeChannel(name)

(***************************************************************************)
(* The panics of the methods that read have three causes: a participant    *)
(* lost its record to a channel of its name that was deleted, a deletion   *)
(* whose SRem failed, and a message whose call is not over, or was cut off *)
(* after its SAdd.                                                         *)
(***************************************************************************)
UnreadableExplained ==
  /\ \A name \in participants :
       ~Exists(name) => CallsOf("DeleteChannel", name) # {}
  /\ \A name \in channels :
       ~Exists(name) => CallsOf("DeleteChannel", name) \cap disturbed # {}
  /\ \A history \in DOMAIN messages : \A id \in messages[history] :
       ~Exists(id) => \A k \in StoresOf(id) : ~Done(k) \/ k \in disturbed

(***************************************************************************)
(* A message that was stored without a disturbance is in the history of    *)
(* its channel for good, the deletion of the channel included.  Its record *)
(* is its own, or that of later messages of the same sender and second.    *)
(***************************************************************************)
MessagesKept ==
  \A id \in Ids : \A k \in StoresOf(id) :
    Done(k) /\ k \notin disturbed =>
      /\ id \in messages[HistoryOf(calls[k].channel)]
      /\ \A field \in MessageFields :
           hash[id][field] \in {j \in StoresOf(id) : j >= k}

(***************************************************************************)
(* What a history shows was sent to it, unless its sender sent a message   *)
(* to it and another one elsewhere within the same second.                 *)
(***************************************************************************)
MessagesInTheirChannel ==
  \A history \in DOMAIN messages : \A id \in messages[history] :
    LET shown == hash[id]["Contents"]
    IN shown # 0 =>
         \E k \in 1 .. Current :
           /\ calls[k].method = "StoreMessage"
           /\ HistoryOf(calls[k].channel) = history
           /\ k = shown \/ IdOf(k) = IdOf(shown)

-----------------------------------------------------------------------------
(***************************************************************************)
(* The inductive invariant.  A call that has lost no command has done what *)
(* its program says, up to its step; a call that is not blind registers a  *)
(* name that is free; and without failures no call is blind or incomplete. *)
(***************************************************************************)
InProgress ==
  step # 0 /\ Current \notin disturbed =>
    \A i \in 1 .. step - 1 :
      /\ Program[call.method][i] \in Fields =>
           hash[Key][Program[call.method][i]] = Current
      /\ Program[call.method][i] = "SAdd" =>
           Key \in messages[HistoryOf(call.channel)]
      /\ Program[call.method][i] = "SRem" => call.name \notin channels

Fresh ==
  step # 0 /\ ~call.blind =>
    /\ call.method = "RegisterParticipant" => call.name \notin participants
    /\ call.method = "RegisterChannel" => call.name \notin channels

Quiet ==
  failures = 0 =>
    /\ \A k \in 1 .. Current : ~calls[k].blind
    /\ step # 0 => Current \notin disturbed

RedisInv ==
  /\ RedisTypeOK
  /\ InProgress
  /\ Fresh
  /\ Quiet
  /\ RegisteredLogsIn
  /\ MessagesKept
  /\ ListedIsWhole
  /\ UnreadableExplained

(***************************************************************************)
(* What places messages in their channel: the record of an id was written  *)
(* by messages with that id, and an id is in a history because of one of   *)
(* them that was sent there.                                               *)
(***************************************************************************)
RecordsAttributed ==
  \A id \in Ids : \A field \in Fields :
    hash[id][field] # 0 => hash[id][field] \in StoresOf(id)

IdsFiled ==
  \A history \in DOMAIN messages : \A id \in messages[history] :
    \E k \in StoresOf(id) : HistoryOf(calls[k].channel) = history

FilingInv == RecordsAttributed /\ IdsFiled

=============================================================================
