---------------------------- MODULE MemoryBackend ----------------------------
(***************************************************************************)
(* The in-memory storage (pkg/backend/memory).  Every method runs under    *)
(* the backend's own RWMutex, so each is one action or one state function; *)
(* what callers do between two methods is in the modules that use this     *)
(* one.                                                                    *)
(*                                                                         *)
(* A hash is the text it was computed from and how often it was hashed.    *)
(***************************************************************************)
EXTENDS Types

LOCAL INSTANCE SequencesExt
LOCAL INSTANCE Functions

VARIABLES
  participants,  \* username -> password hash
  chatHistory,   \* the general chat
  channels       \* channel name -> stored channel object

backendVars == <<participants, chatHistory, channels>>

Hash == [text : String, times : Nat]

\* The stored password of a participant is a string like any other, and
\* hashing it once more gives another string.
Sha256Checksum(password) == [text |-> password, times |-> 1]
HashAgain(hash) == [hash EXCEPT !.times = @ + 1]

Channel == [Name : String, ChatHistory : Seq(ChatMessage)]

\* f with key mapped to value, as a Go map assignment does.
Store(f, key, value) ==
  [k \in DOMAIN f \cup {key} |-> IF k = key THEN value ELSE f[k]]

Erase(f, key) == [k \in DOMAIN f \ {key} |-> f[k]]

BackendTypeOK ==
  /\ DOMAIN participants \subseteq String
  /\ \A u \in DOMAIN participants : participants[u] \in Hash
  /\ chatHistory \in Seq(ChatMessage)
  /\ DOMAIN channels \subseteq String
  /\ \A k \in DOMAIN channels : channels[k] \in Channel

NewMemoryBackend ==
  /\ participants = [u \in {} |-> Sha256Checksum(NoText)]
  /\ chatHistory = <<>>
  /\ channels = [k \in {} |-> [Name |-> NoText, ChatHistory |-> <<>>]]

-----------------------------------------------------------------------------
\* Methods that only read.

HasParticipant(username) == username \in DOMAIN participants

HasChannel(channelname) == channelname \in DOMAIN channels

(***************************************************************************)
(* AuthParticipant redeclares its parameter with the stored participant,   *)
(* so it hashes the stored hash and compares the result with that hash:    *)
(* what the caller typed is never looked at.                               *)
(***************************************************************************)
AuthParticipant(participant) ==
  /\ HasParticipant(participant.Username)
  /\ LET stored == participants[participant.Username]
     IN HashAgain(stored) = stored

\* The keys a caller may see, in an order that differs from call to call.
GetChannels == DOMAIN channels

\* Faulty: the empty name is looked up like any other.
GetChatHistoryPanicsOnEmpty(channelname) == ~HasChannel(channelname)

\* The empty name stands for the general chat; an unknown name panics.
GetChatHistoryPanics(channelname) ==
  channelname # NoText /\ ~HasChannel(channelname)

-----------------------------------------------------------------------------
\* Methods that write.

\* Faulty: an account that exists is overwritten.
RegisterOverwriting(participant) ==
  /\ participants' = Store(participants, participant.Username,
                           Sha256Checksum(participant.Password))
  /\ UNCHANGED <<chatHistory, channels, panic>>

RegisterParticipant(participant) ==
  IF HasParticipant(participant.Username)
  THEN Panic("RegisterParticipant") /\ UNCHANGED backendVars
  ELSE /\ participants' = Store(participants, participant.Username,
                                Sha256Checksum(participant.Password))
       /\ UNCHANGED <<chatHistory, channels, panic>>

\* Faulty: the channel of a message is ignored.
StoreInGeneral(message) ==
  /\ chatHistory' = Append(chatHistory, message)
  /\ UNCHANGED <<participants, channels, panic>>

StoreMessage(message) ==
  \/ /\ message.Channel = NoText
     /\ chatHistory' = Append(chatHistory, message)
     /\ UNCHANGED <<participants, channels, panic>>
  \/ /\ message.Channel # NoText
     /\ IF HasChannel(message.Channel)
        THEN /\ channels' = [channels EXCEPT ![message.Channel].ChatHistory =
                               Append(@, message)]
             /\ UNCHANGED <<participants, chatHistory, panic>>
        ELSE Panic("StoreMessage") /\ UNCHANGED backendVars

\* Faulty: a channel that exists is created anew.
RegisterChannelAgain(name) ==
  /\ channels' = Store(channels, name, [Name |-> name, ChatHistory |-> <<>>])
  /\ UNCHANGED <<participants, chatHistory, panic>>

RegisterChannel(name) ==
  IF HasChannel(name)
  THEN Panic("RegisterChannel") /\ UNCHANGED backendVars
  ELSE /\ channels' = Store(channels, name,
                            [Name |-> name, ChatHistory |-> <<>>])
       /\ UNCHANGED <<participants, chatHistory, panic>>

DeleteChannel(name) ==
  IF HasChannel(name)
  THEN /\ channels' = Erase(channels, name)
       /\ UNCHANGED <<participants, chatHistory, panic>>
  ELSE Panic("DeleteChannel") /\ UNCHANGED backendVars

-----------------------------------------------------------------------------
(***************************************************************************)
(* The storage by itself, under any caller of the Backend interface.       *)
(***************************************************************************)
CONSTANT MaxMessages  \* bound on the chat messages stored

ASSUME MaxMessagesAssumption == MaxMessages \in Nat

StoredMessages ==
  Len(chatHistory) + FoldFunction(LAMBDA ch, n : Len(ch.ChatHistory) + n, 0, channels)

BackendInit == panic = NoPanic /\ NewMemoryBackend

BackendNext ==
  /\ panic = NoPanic
  /\ \/ \E name \in ValidNames, password \in ValidPasswords :
          RegisterParticipant([Username |-> name, Email |-> NoText,
                               Password |-> password])
     \/ \E sender, to \in String, n \in 1 .. MaxMessages :
          /\ n = StoredMessages + 1
          /\ StoreMessage([Contents |-> n, Sender |-> sender, Channel |-> to])
     \/ \E name \in ValidNames : RegisterChannel(name)
     \/ \E name \in ValidNames : DeleteChannel(name)

BackendSpec == BackendInit /\ [][BackendNext]_<<panic, backendVars>>

(***************************************************************************)
(* Every message is in the history it was sent to, and in no other.        *)
(***************************************************************************)
HistoriesAreSeparate ==
  /\ \A i \in DOMAIN chatHistory : chatHistory[i].Channel = NoText
  /\ \A key \in DOMAIN channels : \A i \in DOMAIN channels[key].ChatHistory :
       channels[key].ChatHistory[i].Channel = key

(***************************************************************************)
(* An account keeps its password for good, and a history only grows, for   *)
(* as long as its channel exists.                                          *)
(***************************************************************************)
AccountsPersist ==
  [][\A name \in DOMAIN participants :
       name \in DOMAIN participants' /\ participants'[name] = participants[name]
    ]_<<panic, backendVars>>

HistoriesGrow ==
  [][/\ IsPrefix(chatHistory, chatHistory')
     /\ \A key \in DOMAIN channels \cap DOMAIN channels' :
          IsPrefix(channels[key].ChatHistory, channels'[key].ChatHistory)
    ]_<<panic, backendVars>>

(***************************************************************************)
(* TestAuthnticateParticipant: whoever has registered can log in with the  *)
(* same name and password.                                                 *)
(***************************************************************************)
RegisteredCanLogIn ==
  \A name \in DOMAIN participants :
    AuthParticipant([Username |-> name, Email |-> NoText,
                     Password |-> participants[name].text])

=============================================================================
