---------------------------- MODULE BackendProofs ----------------------------
(***************************************************************************)
(* Proofs about the storage (module MemoryBackend), for any caller, any    *)
(* names and any number of messages.                                       *)
(***************************************************************************)
EXTENDS MemoryBackend, TLAPS

LOCAL INSTANCE SequencesExt

backendState == <<panic, backendVars>>

\* Every method keeps the storage well typed.
LEMMA BackendTypeStep ==
  ASSUME BackendTypeOK, [BackendNext]_backendState
  PROVE  BackendTypeOK'
<1>. USE DEF BackendTypeOK
<1>1. ASSUME NEW name \in ValidNames, NEW password \in ValidPasswords,
             RegisterParticipant([Username |-> name, Email |-> NoText,
                                  Password |-> password])
      PROVE  BackendTypeOK'
  <2>1. name \in String /\ Sha256Checksum(password) \in Hash
    BY TextsAssumption DEF String, Hash, Sha256Checksum
  <2>. QED BY <1>1, <2>1 DEF RegisterParticipant, Store, backendVars
<1>2. ASSUME NEW message \in ChatMessage, StoreMessage(message)
      PROVE  BackendTypeOK'
  <2>1. CASE UNCHANGED backendVars
    BY <2>1 DEF backendVars
  <2>2. CASE /\ chatHistory' = Append(chatHistory, message)
             /\ UNCHANGED <<participants, channels>>
    BY <2>2
  <2>3. CASE /\ HasChannel(message.Channel)
             /\ channels' = [channels EXCEPT ![message.Channel].ChatHistory =
                               Append(@, message)]
             /\ UNCHANGED <<participants, chatHistory>>
    <3>1. channels[message.Channel] \in Channel
      BY <2>3 DEF HasChannel
    <3>2. Append(channels[message.Channel].ChatHistory, message) \in Seq(ChatMessage)
      BY <3>1 DEF Channel
    <3>. QED BY <2>3, <3>1, <3>2 DEF Channel
  <2>. QED BY <1>2, <2>1, <2>2, <2>3 DEF StoreMessage
<1>3. ASSUME NEW name \in ValidNames, RegisterChannel(name)
      PROVE  BackendTypeOK'
  <2>. DEFINE new == [Name |-> name, ChatHistory |-> <<>>]
  <2>1. name \in String /\ new \in Channel
    BY TextsAssumption DEF String, Channel
  <2>. HIDE DEF new
  <2>2. \/ UNCHANGED backendVars
        \/ /\ channels' = Store(channels, name, new)
           /\ UNCHANGED <<participants, chatHistory>>
    BY <1>3 DEF RegisterChannel, new
  <2>. QED BY <2>1, <2>2 DEF Store, backendVars
<1>4. ASSUME NEW name \in ValidNames, DeleteChannel(name)
      PROVE  BackendTypeOK'
  BY <1>4 DEF DeleteChannel, Erase, backendVars
<1>5. CASE UNCHANGED backendState
  BY <1>5 DEF backendState, backendVars
<1>6. ASSUME NEW sender \in String, NEW to \in String, NEW n \in 1 .. MaxMessages
      PROVE  [Contents |-> n, Sender |-> sender, Channel |-> to] \in ChatMessage
  BY MaxMessagesAssumption DEF ChatMessage
<1>. QED BY <1>1, <1>2, <1>3, <1>4, <1>5, <1>6 DEF BackendNext

\* A message is stored where it was addressed to, and histories are never mixed.
LEMMA SeparateStep ==
  ASSUME BackendTypeOK, HistoriesAreSeparate, [BackendNext]_backendState
  PROVE  HistoriesAreSeparate'
<1>1. ASSUME NEW message, StoreMessage(message)
      PROVE  HistoriesAreSeparate'
  <2>1. CASE UNCHANGED backendVars
    BY <2>1 DEF backendVars, HistoriesAreSeparate
  <2>2. CASE /\ message.Channel = NoText
             /\ chatHistory' = Append(chatHistory, message)
             /\ UNCHANGED <<participants, channels>>
    <3>1. chatHistory \in Seq(ChatMessage)
      BY DEF BackendTypeOK
    <3>2. \A i \in DOMAIN chatHistory' : chatHistory'[i].Channel = NoText
      BY <2>2, <3>1 DEF HistoriesAreSeparate
    <3>. QED BY <2>2, <3>2 DEF HistoriesAreSeparate
  <2>3. CASE /\ HasChannel(message.Channel)
             /\ channels' = [channels EXCEPT ![message.Channel].ChatHistory =
                               Append(@, message)]
             /\ UNCHANGED <<participants, chatHistory>>
    <3>. DEFINE to == message.Channel
    <3>1. channels[to] \in Channel
      BY <2>3 DEF HasChannel, BackendTypeOK
    <3>2. /\ channels'[to].ChatHistory = Append(channels[to].ChatHistory, message)
          /\ DOMAIN channels' = DOMAIN channels
          /\ \A key \in DOMAIN channels : key # to => channels'[key] = channels[key]
      BY <2>3, <3>1 DEF HasChannel, Channel
    <3>3. \A i \in DOMAIN channels'[to].ChatHistory :
            channels'[to].ChatHistory[i].Channel = to
      <4>1. channels[to].ChatHistory \in Seq(ChatMessage)
        BY <3>1 DEF Channel
      <4>2. \A i \in DOMAIN channels[to].ChatHistory :
              channels[to].ChatHistory[i].Channel = to
        BY <2>3 DEF HistoriesAreSeparate, HasChannel
      <4>. QED BY <3>2, <4>1, <4>2
    <3>. QED BY <2>3, <3>2, <3>3 DEF HistoriesAreSeparate
  <2>. QED BY <1>1, <2>1, <2>2, <2>3 DEF StoreMessage
<1>2. ASSUME NEW name, RegisterChannel(name)
      PROVE  HistoriesAreSeparate'
  BY <1>2 DEF RegisterChannel, Store, HistoriesAreSeparate, backendVars
<1>3. ASSUME NEW name, DeleteChannel(name)
      PROVE  HistoriesAreSeparate'
  BY <1>3 DEF DeleteChannel, Erase, HistoriesAreSeparate, backendVars
<1>4. ASSUME NEW p, RegisterParticipant(p)
      PROVE  HistoriesAreSeparate'
  BY <1>4 DEF RegisterParticipant, HistoriesAreSeparate, backendVars
<1>5. CASE UNCHANGED backendState
  BY <1>5 DEF backendState, backendVars, HistoriesAreSeparate
<1>. QED BY <1>1, <1>2, <1>3, <1>4, <1>5 DEF BackendNext

\* The histories are separate in every state of the storage, and well typed.
THEOREM SeparateHistories == BackendSpec => [](BackendTypeOK /\ HistoriesAreSeparate)
<1>1. BackendInit => BackendTypeOK /\ HistoriesAreSeparate
  BY DEF BackendInit, NewMemoryBackend, BackendTypeOK, HistoriesAreSeparate
<1>2. BackendTypeOK /\ HistoriesAreSeparate /\ [BackendNext]_backendState
        => (BackendTypeOK /\ HistoriesAreSeparate)'
  BY BackendTypeStep, SeparateStep
<1>. QED BY <1>1, <1>2, PTL DEF BackendSpec, backendState

\* No method changes the password of an account or removes one.
THEOREM AccountsAreKept == BackendSpec => AccountsPersist
<1>1. ASSUME [BackendNext]_backendState
      PROVE  \A name \in DOMAIN participants :
               name \in DOMAIN participants' /\ participants'[name] = participants[name]
  <2>1. ASSUME NEW p, RegisterParticipant(p), NEW name \in DOMAIN participants
        PROVE  name \in DOMAIN participants' /\ participants'[name] = participants[name]
    BY <2>1 DEF RegisterParticipant, HasParticipant, Store, backendVars
  <2>2. ASSUME NEW m, StoreMessage(m) PROVE UNCHANGED participants
    BY <2>2 DEF StoreMessage, backendVars
  <2>3. ASSUME NEW name, RegisterChannel(name) \/ DeleteChannel(name)
        PROVE  UNCHANGED participants
    BY <2>3 DEF RegisterChannel, DeleteChannel, backendVars
  <2>4. CASE UNCHANGED backendState
    BY <2>4 DEF backendState, backendVars
  <2>. QED BY <1>1, <2>1, <2>2, <2>3, <2>4 DEF BackendNext
<1>. QED BY <1>1, PTL DEF BackendSpec, AccountsPersist, backendState

\* A history is a prefix of itself with one message more.
LEMMA PrefixOfAppend ==
  ASSUME NEW s \in Seq(ChatMessage), NEW message
  PROVE  IsPrefix(s, s) /\ IsPrefix(s, Append(s, message))
BY DEF IsPrefix

\* No method takes a message out of a history, or changes one or their order, while
\* the channel exists.
THEOREM HistoriesAreKept == BackendSpec => HistoriesGrow
<1>1. ASSUME BackendTypeOK, [BackendNext]_backendState
      PROVE  /\ IsPrefix(chatHistory, chatHistory')
             /\ \A key \in DOMAIN channels \cap DOMAIN channels' :
                  IsPrefix(channels[key].ChatHistory, channels'[key].ChatHistory)
  <2>1. /\ chatHistory \in Seq(ChatMessage)
        /\ \A key \in DOMAIN channels : channels[key] \in Channel
    BY <1>1 DEF BackendTypeOK
  <2>2. \A key \in DOMAIN channels : channels[key].ChatHistory \in Seq(ChatMessage)
    BY <2>1 DEF Channel
  <2>3. \/ UNCHANGED chatHistory
        \/ \E message : chatHistory' = Append(chatHistory, message)
    BY <1>1 DEF BackendNext, RegisterParticipant, StoreMessage, RegisterChannel,
       DeleteChannel, backendVars, backendState
  <2>4. IsPrefix(chatHistory, chatHistory')
    BY <2>1, <2>3, PrefixOfAppend
  <2>5. ASSUME NEW key \in DOMAIN channels \cap DOMAIN channels'
        PROVE  \/ channels'[key].ChatHistory = channels[key].ChatHistory
               \/ \E message : channels'[key].ChatHistory =
                                Append(channels[key].ChatHistory, message)
    <3>1. ASSUME NEW message, StoreMessage(message)
          PROVE  \/ UNCHANGED channels
                 \/ /\ HasChannel(message.Channel)
                    /\ channels' = [channels EXCEPT ![message.Channel].ChatHistory =
                                      Append(@, message)]
      BY <3>1 DEF StoreMessage, backendVars
    <3>2. ASSUME NEW message, HasChannel(message.Channel),
                 channels' = [channels EXCEPT ![message.Channel].ChatHistory =
                                Append(@, message)]
          PROVE  \/ channels'[key] = channels[key]
                 \/ channels'[key].ChatHistory = Append(channels[key].ChatHistory, message)
      BY <2>1, <3>2 DEF Channel
    <3>3. ASSUME NEW name, RegisterChannel(name) \/ DeleteChannel(name)
          PROVE  channels'[key] = channels[key]
      BY <2>5, <3>3 DEF RegisterChannel, DeleteChannel, HasChannel, Store, Erase,
         backendVars
    <3>4. ASSUME NEW p, RegisterParticipant(p)
          PROVE  UNCHANGED channels
      BY <3>4 DEF RegisterParticipant, backendVars
    <3>5. CASE UNCHANGED backendState
      BY <3>5 DEF backendState, backendVars
    <3>. QED BY <1>1, <3>1, <3>2, <3>3, <3>4, <3>5 DEF BackendNext
  <2>. QED BY <2>2, <2>4, <2>5, PrefixOfAppend
<1>. QED BY <1>1, SeparateHistories, PTL DEF BackendSpec, HistoriesGrow, backendState

\* AuthParticipant compares a hash with its own hash: what TestAuthnticateParticipant
\* expects of it fails from the first account on, for every account.
THEOREM NobodyLogsIn ==
  BackendSpec => []/\ \A p : ~AuthParticipant(p)
                   /\ RegisteredCanLogIn <=> DOMAIN participants = {}
<1>1. ASSUME BackendTypeOK, NEW p PROVE ~AuthParticipant(p)
  <2>. SUFFICES ASSUME p.Username \in DOMAIN participants
                PROVE  HashAgain(participants[p.Username]) # participants[p.Username]
    BY DEF AuthParticipant, HasParticipant
  <2>. DEFINE h == participants[p.Username]
  <2>1. h \in Hash
    BY <1>1 DEF BackendTypeOK
  <2>2. h.times \in Nat /\ HashAgain(h).times = h.times + 1
    BY <2>1 DEF Hash, HashAgain
  <2>. QED BY <2>2
<1>2. BackendTypeOK => /\ \A p : ~AuthParticipant(p)
                       /\ RegisteredCanLogIn <=> DOMAIN participants = {}
  BY <1>1 DEF RegisteredCanLogIn
<1>. QED BY <1>2, SeparateHistories, PTL

=============================================================================
