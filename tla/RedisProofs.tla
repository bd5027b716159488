----------------------------- MODULE RedisProofs -----------------------------
(***************************************************************************)
(* Proofs about the storage in Redis (module RedisBackend), for any names, *)
(* calls, crashes and failures, in any number.                             *)
(***************************************************************************)
EXTENDS RedisBackend, TLAPS

\* The record of the call that holds the lock, and where it writes.
LEMMA CallTyped ==
  ASSUME RedisTypeOK, step # 0
  PROVE  /\ Current \in 1 .. MaxCalls
         /\ call \in Call
         /\ Key \in Keys
         /\ call.method = "StoreMessage" => Key \in Ids /\ Key = IdOf(Current)
         /\ call.method # "StoreMessage" => Key \in Names /\ Key = call.name
<1>1. Current \in 1 .. MaxCalls
  BY RedisAssumption DEF RedisTypeOK, Current
<1>2. call \in Call
  BY <1>1 DEF RedisTypeOK, Current, call
<1>. QED BY <1>1, <1>2 DEF Call, Key, Keys, Ids, IdOf, call, Current

\* Which method issues which command, and what comes after it.
LEMMA CommandOf ==
  ASSUME RedisTypeOK, step # 0
  PROVE  /\ step \in 1 .. 5 /\ NextStep \in {0, step + 1}
         /\ NextStep # 0 => NextStep <= Len(Program[call.method])
         /\ Command \in Fields \cup {"SAdd", "SRem", "Del"}
         /\ Command \in ParticipantFields => call.method = "RegisterParticipant"
         /\ Command \in MessageFields => call.method = "StoreMessage"
         /\ Command \in ChannelFields => call.method = "RegisterChannel"
         /\ Command \in {"SRem", "Del"} => call.method = "DeleteChannel"
         /\ Command = "SAdd" => call.method # "DeleteChannel"
         /\ Command = "SAdd" /\ call.method # "StoreMessage" => NextStep = 0
         /\ Command = "SAdd" /\ call.method = "StoreMessage" => NextStep # 0
         /\ Command = "SRem" => NextStep # 0
         /\ Command = "Del" => NextStep = 0
         /\ NextStep = 0 /\ call.method \in {"RegisterParticipant", "RegisterChannel"}
              => Command = "SAdd"
<1>1. call.method \in Methods
  BY CallTyped DEF Call
<1>2. step \in Nat /\ step <= Len(Program[call.method])
  BY DEF RedisTypeOK
<1>3. CASE call.method = "RegisterParticipant"
  BY <1>2, <1>3 DEF Program, Command, NextStep, Fields, ParticipantFields,
                    MessageFields, ChannelFields
<1>4. CASE call.method = "StoreMessage"
  BY <1>2, <1>4 DEF Program, Command, NextStep, Fields, ParticipantFields,
                    MessageFields, ChannelFields
<1>5. CASE call.method = "RegisterChannel"
  BY <1>2, <1>5 DEF Program, Command, NextStep, Fields, ParticipantFields,
                    MessageFields, ChannelFields
<1>6. CASE call.method = "DeleteChannel"
  BY <1>2, <1>6 DEF Program, Command, NextStep, Fields, ParticipantFields,
                    MessageFields, ChannelFields
<1>. QED BY <1>1, <1>3, <1>4, <1>5, <1>6 DEF Methods

\* A call that lost nothing has done everything when its last command comes.
LEMMA Completed ==
  ASSUME RedisTypeOK, InProgress, step # 0, NextStep = 0, Current \notin disturbed
  PROVE  /\ call.method = "RegisterParticipant" =>
              \A field \in ParticipantFields : hash[Key][field] = Current
         /\ call.method = "RegisterChannel" =>
              \A field \in ChannelFields : hash[Key][field] = Current
         /\ call.method = "StoreMessage" =>
              /\ Key \in messages[HistoryOf(call.channel)]
              /\ \A field \in MessageFields :
                   field = Command \/ hash[Key][field] = Current
         /\ call.method = "DeleteChannel" => call.name \notin channels
<1>1. step = Len(Program[call.method]) /\ call.method \in Methods
  BY CallTyped DEF NextStep, RedisTypeOK, Call
<1>2. \A i \in 1 .. step - 1 :
        /\ Program[call.method][i] \in Fields =>
             hash[Key][Program[call.method][i]] = Current
        /\ Program[call.method][i] = "SAdd" =>
             Key \in messages[HistoryOf(call.channel)]
        /\ Program[call.method][i] = "SRem" => call.name \notin channels
  BY DEF InProgress
<1>3. CASE call.method = "RegisterParticipant"
  <2>1. step = 5 BY <1>1, <1>3 DEF Program
  <2>. QED BY <1>2, <1>3, <2>1, 1 \in 1 .. 4, 2 \in 1 .. 4, 3 \in 1 .. 4, 4 \in 1 .. 4
           DEF Program, Fields, ParticipantFields
<1>4. CASE call.method = "RegisterChannel"
  <2>1. step = 5 BY <1>1, <1>4 DEF Program
  <2>. QED BY <1>2, <1>4, <2>1, 1 \in 1 .. 4, 2 \in 1 .. 4, 3 \in 1 .. 4, 4 \in 1 .. 4
           DEF Program, Fields, ChannelFields
<1>5. CASE call.method = "StoreMessage"
  <2>1. step = 5 BY <1>1, <1>5 DEF Program
  <2>. QED BY <1>2, <1>5, <2>1, 1 \in 1 .. 4, 2 \in 1 .. 4, 3 \in 1 .. 4, 4 \in 1 .. 4
           DEF Program, Fields, MessageFields, Command
<1>6. CASE call.method = "DeleteChannel"
  <2>1. step = 2 BY <1>1, <1>6 DEF Program
  <2>. QED BY <1>2, <1>6, <2>1, 1 \in 1 .. 1 DEF Program
<1>. QED BY <1>1, <1>3, <1>4, <1>5, <1>6 DEF Methods

-----------------------------------------------------------------------------
\* What a method does before its first command: nothing, or it begins a call.
LEMMA EnterCases ==
  ASSUME RedisTypeOK, Enter
  PROVE  /\ up /\ step = 0 /\ UNCHANGED <<stored, disturbed, now, crashes>>
         /\ failures' \in 0 .. MaxFailures /\ (failures' = 0 => failures = 0)
         /\ \/ UNCHANGED <<calls, step>> /\ up' \in BOOLEAN
            \/ \E c \in Call :
                 /\ calls' = Append(calls, c) /\ step' = 1 /\ up' = up
                 /\ Len(calls) < MaxCalls
                 /\ c.blind => failures' # 0
                 /\ ~c.blind /\ c.method = "RegisterParticipant" =>
                      c.name \notin participants
                 /\ ~c.blind /\ c.method = "RegisterChannel" =>
                      c.name \notin channels
<1>1. /\ up /\ step = 0 /\ UNCHANGED <<stored, disturbed, now, crashes>>
      /\ Len(calls) < MaxCalls
  BY DEF Enter
<1>2. PICK name \in Names, blind \in BOOLEAN :
        /\ Fails(blind)
        /\ \/ RegisterParticipant(name, blind)
           \/ RegisterChannel(name, blind)
           \/ DeleteChannel(name, blind)
           \/ \E channel \in Names \cup {NoChannel} :
                StoreMessage(name, channel, blind)
  BY DEF Enter
<1>3. /\ failures' \in 0 .. MaxFailures /\ (failures' = 0 => failures = 0)
      /\ blind => failures' # 0
  BY <1>2, RedisAssumption DEF Fails, RedisTypeOK
<1>4. now \in 0 .. MaxTime
  BY DEF RedisTypeOK
<1>5. ASSUME NEW method \in Methods, NEW channel \in Names \cup {NoChannel},
             Begin(method, name, channel, blind)
      PROVE  \E c \in Call : /\ calls' = Append(calls, c) /\ step' = 1 /\ up' = up
                              /\ c.method = method /\ c.name = name /\ c.blind = blind
  <2>. DEFINE c == [method |-> method, name |-> name, channel |-> channel,
                    time |-> now, blind |-> blind]
  <2>1. c \in Call
    BY <1>4 DEF Call
  <2>. QED BY <1>5, <2>1 DEF Begin
<1>6. CASE PanicNow
  BY <1>1, <1>3, <1>6 DEF PanicNow
<1>7. CASE UNCHANGED <<calls, step, up>>
  BY <1>1, <1>3, <1>7
<1>8. CASE RegisterParticipant(name, blind)
  <2>1. \/ PanicNow
        \/ /\ Begin("RegisterParticipant", name, NoChannel, blind)
           /\ ~blind => name \notin participants
    BY <1>8 DEF RegisterParticipant
  <2>. QED BY <1>1, <1>3, <1>5, <1>6, <2>1 DEF Methods
<1>9. CASE RegisterChannel(name, blind)
  <2>1. \/ PanicNow
        \/ /\ Begin("RegisterChannel", name, NoChannel, blind)
           /\ ~blind => name \notin channels
    BY <1>9 DEF RegisterChannel
  <2>. QED BY <1>1, <1>3, <1>5, <1>6, <2>1 DEF Methods
<1>10. CASE DeleteChannel(name, blind)
  <2>1. \/ UNCHANGED <<calls, step, up>>
        \/ Begin("DeleteChannel", name, NoChannel, blind)
    BY <1>10 DEF DeleteChannel
  <2>. QED BY <1>1, <1>3, <1>5, <1>7, <2>1 DEF Methods
<1>11. ASSUME NEW channel \in Names \cup {NoChannel},
              StoreMessage(name, channel, blind)
       PROVE  PanicNow \/ Begin("StoreMessage", name, channel, blind)
  BY <1>11 DEF StoreMessage
<1>. QED BY <1>1, <1>2, <1>3, <1>5, <1>6, <1>8, <1>9, <1>10, <1>11 DEF Methods

\* A field is written in the record of the current call and nowhere else.
LEMMA HashAfterHSet ==
  ASSUME RedisTypeOK, step # 0, HSet, NEW key \in Keys, NEW field \in Fields
  PROVE  hash'[key][field] =
           IF key = Key /\ field = Command THEN Current ELSE hash[key][field]
<1>1. Key \in Keys
  BY CallTyped DEF Keys
<1>. QED BY <1>1 DEF HSet, RedisTypeOK

\* Every step keeps the types.
LEMMA RedisTypeStep ==
  ASSUME RedisTypeOK, [RedisNext]_vars
  PROVE  RedisTypeOK'
<1>1. CASE Enter
  <2>1. CASE UNCHANGED <<calls, step>>
    BY <1>1, <2>1, EnterCases DEF RedisTypeOK, stored, call, Current
  <2>2. ASSUME NEW c \in Call, calls' = Append(calls, c), step' = 1, up' = up,
               Len(calls) < MaxCalls
        PROVE  RedisTypeOK'
    <3>1. /\ calls' \in Seq(Call) /\ Len(calls') = Len(calls) + 1
          /\ Len(calls) \in Nat /\ calls' # <<>> /\ call' = c
      BY <2>2 DEF RedisTypeOK, call, Current
    <3>2. 1 <= Len(Program[c.method])
      BY DEF Call, Methods, Program
    <3>3. disturbed' \subseteq 1 .. Len(calls')
      <4>1. disturbed' = disturbed /\ disturbed \subseteq 1 .. Len(calls)
        BY <1>1, EnterCases DEF RedisTypeOK
      <4>. QED BY <3>1, <4>1
    <3>. QED BY <1>1, <2>2, <3>1, <3>2, <3>3, EnterCases, RedisAssumption
             DEF RedisTypeOK, stored
  <2>. QED BY <1>1, <2>1, <2>2, EnterCases
<1>2. CASE Issue
  <2>1. /\ step # 0 /\ up /\ step' = NextStep
        /\ UNCHANGED <<calls, disturbed, now, up, crashes, failures>>
    BY <1>2 DEF Issue
  <2>2. /\ step' \in Nat
        /\ step' # 0 => calls' # <<>> /\ step' <= Len(Program'[call'.method])
    <3>1. /\ step \in 1 .. 5 /\ NextStep \in {0, step + 1}
          /\ NextStep # 0 => NextStep <= Len(Program[call.method])
      BY <2>1, CommandOf
    <3>2. Program'[call'.method] = Program[call.method]
      BY <2>1 DEF call, Current, Program
    <3>3. calls' # <<>>
      BY <2>1 DEF RedisTypeOK
    <3>. QED BY <2>1, <3>1, <3>2, <3>3
  <2>3. CASE HSet
    <3>1. hash' \in [Keys -> [Fields -> 0 .. MaxCalls]]
      <4>1. Key \in Keys /\ Current \in 0 .. MaxCalls /\ Command \in Fields
        BY <2>1, <2>3, CallTyped, RedisAssumption DEF HSet
      <4>. QED BY <2>3, <4>1 DEF HSet, RedisTypeOK
    <3>. QED BY <2>1, <2>2, <2>3, <3>1 DEF RedisTypeOK, HSet
  <2>4. CASE SAdd /\ call.method = "StoreMessage"
    <3>1. messages' \in [Names \cup {General} -> SUBSET Ids]
      BY <2>1, <2>4, CallTyped DEF SAdd, SAddMessage, RedisTypeOK
    <3>. QED BY <2>1, <2>2, <2>4, <3>1 DEF RedisTypeOK, SAdd, SAddMessage
  <2>5. CASE SAdd /\ call.method # "StoreMessage"
    <3>1. call.name \in Names
      BY <2>1, CallTyped DEF Call
    <3>. QED BY <2>1, <2>2, <2>5, <3>1 DEF RedisTypeOK, SAdd, SAddName
  <2>6. CASE SRem
    BY <2>1, <2>2, <2>6 DEF RedisTypeOK, SRem
  <2>7. CASE Del
    <3>1. hash' \in [Keys -> [Fields -> 0 .. MaxCalls]]
      <4>1. [field \in Fields |-> 0] \in [Fields -> 0 .. MaxCalls]
        BY RedisAssumption
      <4>. QED BY <2>7, <4>1 DEF Del, RedisTypeOK
    <3>. QED BY <2>1, <2>2, <2>7, <3>1 DEF RedisTypeOK, Del
  <2>. QED BY <1>2, <2>3, <2>4, <2>5, <2>6, <2>7 DEF Issue
<1>3. CASE IssueFails
  <2>1. /\ step # 0 /\ up /\ step' = NextStep
        /\ UNCHANGED <<stored, calls, now, up, crashes>>
        /\ disturbed' = disturbed \cup {Current}
        /\ failures' \in 0 .. MaxFailures
    BY <1>3, RedisAssumption DEF IssueFails, Fails, RedisTypeOK
  <2>2. /\ step' \in Nat
        /\ step' # 0 => calls' # <<>> /\ step' <= Len(Program'[call'.method])
    <3>1. /\ step \in 1 .. 5 /\ NextStep \in {0, step + 1}
          /\ NextStep # 0 => NextStep <= Len(Program[call.method])
      BY <2>1, CommandOf
    <3>2. Program'[call'.method] = Program[call.method]
      BY <2>1 DEF call, Current, Program
    <3>3. calls' # <<>>
      BY <2>1 DEF RedisTypeOK
    <3>. QED BY <2>1, <3>1, <3>2, <3>3
  <2>3. disturbed' \subseteq 1 .. Len(calls')
    <3>1. disturbed \subseteq 1 .. Len(calls) /\ Len(calls) \in Nat
      BY DEF RedisTypeOK
    <3>2. Current \in 1 .. Len(calls)
      BY <2>1, <3>1, CallTyped DEF Current
    <3>. QED BY <2>1, <3>1, <3>2
  <2>. QED BY <2>1, <2>2, <2>3 DEF RedisTypeOK, stored
<1>4. CASE ReadPanics
  <2>1. /\ step = 0 /\ up' = FALSE
        /\ UNCHANGED <<stored, calls, step, disturbed, now, crashes>>
        /\ failures' \in 0 .. MaxFailures
    BY <1>4, RedisAssumption DEF ReadPanics, PanicNow, Fails, RedisTypeOK
  <2>. QED BY <2>1 DEF RedisTypeOK, stored
<1>5. CASE Crash
  <2>1. /\ step' = 0 /\ up' = FALSE
        /\ UNCHANGED <<stored, calls, now, failures>>
        /\ crashes' \in 0 .. MaxCrashes
        /\ \/ disturbed' = disturbed
           \/ step # 0 /\ disturbed' = disturbed \cup {Current}
    BY <1>5, RedisAssumption DEF Crash, RedisTypeOK
  <2>2. disturbed' \subseteq 1 .. Len(calls')
    <3>1. disturbed \subseteq 1 .. Len(calls) /\ Len(calls) \in Nat
      BY DEF RedisTypeOK
    <3>2. step # 0 => Current \in 1 .. Len(calls)
      BY <3>1, CallTyped DEF Current
    <3>. QED BY <2>1, <3>1, <3>2
  <2>. QED BY <2>1, <2>2 DEF RedisTypeOK, stored
<1>6. CASE Restart
  BY <1>6 DEF Restart, stored, RedisTypeOK, call, Current, Program
<1>7. CASE Tick
  <2>1. now' \in 0 .. MaxTime
    BY <1>7, RedisAssumption DEF Tick, RedisTypeOK
  <2>. QED BY <1>7, <2>1 DEF Tick, stored, RedisTypeOK, call, Current, Program
<1>8. CASE UNCHANGED vars
  BY <1>8 DEF vars, stored, RedisTypeOK, call, Current, Program
<1>. QED BY <1>1, <1>2, <1>3, <1>4, <1>5, <1>6, <1>7, <1>8 DEF RedisNext

-----------------------------------------------------------------------------
\* While no call begins, what is said of the calls stays the same.
LEMMA CallsFixed ==
  ASSUME UNCHANGED calls
  PROVE  /\ Current' = Current /\ call' = call /\ Key' = Key
         /\ \A method \in Methods, name \in Names :
              CallsOf(method, name)' = CallsOf(method, name)
         /\ \A id \in Ids : StoresOf(id)' = StoresOf(id)
BY DEF Current, call, Key, CallsOf, StoresOf, IdOf

\* When a call begins, those before it stay what they are.
LEMMA CallsGrow ==
  ASSUME RedisTypeOK, NEW c \in Call, calls' = Append(calls, c)
  PROVE  /\ Current \in Nat /\ Current' = Current + 1 /\ call' = c
         /\ \A k \in 1 .. Current : k \in 1 .. Current' /\ calls'[k] = calls[k]
<1>1. /\ Current \in Nat /\ Current' = Current + 1 /\ call' = c
      /\ \A k \in 1 .. Current : calls'[k] = calls[k]
  BY DEF RedisTypeOK, Current, call
<1>2. \A k \in 1 .. Current : k \in 1 .. Current'
  <2>. HIDE DEF Current
  <2>. QED BY <1>1
<1>. QED BY <1>1, <1>2

\* A name is no message id, so the records of the two never meet.
LEMMA KeysApart ==
  ASSUME NEW name \in Names, NEW id \in Ids
  PROVE  name # id
BY RedisAssumption DEF Ids

\* A message whose id has no record was disturbed, or is not stored yet.
MessagesReadable ==
  \A history \in DOMAIN messages : \A id \in messages[history] :
    ~Exists(id) => \A k \in StoresOf(id) : ~Done(k) \/ k \in disturbed

\* A message that is kept has a record.
LEMMA KeptIsReadable ==
  RedisTypeOK /\ MessagesKept => MessagesReadable
<1>. SUFFICES ASSUME RedisTypeOK, MessagesKept,
                     NEW history \in DOMAIN messages, NEW id \in messages[history],
                     NEW k \in StoresOf(id), Done(k), k \notin disturbed
              PROVE  Exists(id)
  BY DEF MessagesReadable
<1>1. id \in Ids
  BY DEF RedisTypeOK
<1>2. hash[id]["Contents"] \in {j \in StoresOf(id) : j >= k}
  BY <1>1 DEF MessagesKept, MessageFields
<1>3. hash[id]["Contents"] # 0
  BY <1>2 DEF StoresOf
<1>. QED BY <1>3 DEF Exists, Fields, MessageFields

\* The same, after a step.
LEMMA KeptIsReadableNext ==
  RedisTypeOK' /\ MessagesKept' => MessagesReadable'
BY KeptIsReadable, PTL

(***************************************************************************)
(* Steps that leave the data and the calls alone: commands that fail,      *)
(* crashes, restarts, time, and methods that do nothing.                   *)
(***************************************************************************)
LEMMA IdleStep ==
  ASSUME RedisInv, UNCHANGED <<stored, calls>>,
         failures' = 0 => failures = 0,
         \/ UNCHANGED <<step, disturbed>>
         \/ /\ step # 0 /\ disturbed' = disturbed \cup {Current}
            /\ step' = 0 \/ failures' # 0
  PROVE  /\ InProgress' /\ Fresh' /\ Quiet' /\ RegisteredLogsIn'
         /\ MessagesKept' /\ ListedIsWhole'
         /\ RedisTypeOK' => UnreadableExplained'
<1>1. /\ Current' = Current /\ call' = call /\ Key' = Key
      /\ \A method \in Methods, name \in Names :
           CallsOf(method, name)' = CallsOf(method, name)
      /\ \A id \in Ids : StoresOf(id)' = StoresOf(id)
      /\ UNCHANGED <<participants, channels, messages, hash, calls>>
  BY CallsFixed DEF stored
<1>2. Current \in Nat
  BY DEF RedisInv, RedisTypeOK, Current
<1>3. \A k \in 1 .. Current : Done(k)' /\ k \notin disturbed' => Done(k) /\ k \notin disturbed
  BY <1>1, <1>2 DEF Done
<1>4. InProgress'
  BY <1>1 DEF RedisInv, InProgress, HistoryOf, Program
<1>5. Fresh'
  BY <1>1 DEF RedisInv, Fresh
<1>6. Quiet'
  BY <1>1 DEF RedisInv, Quiet
<1>7. RegisteredLogsIn'
  BY <1>1, <1>3 DEF RedisInv, RegisteredLogsIn, AuthParticipant, CallsOf, Methods
<1>8. MessagesKept'
  BY <1>1, <1>3 DEF RedisInv, MessagesKept, HistoryOf, StoresOf
<1>9. ListedIsWhole'
  <2>. SUFFICES ASSUME failures' = 0 PROVE ListedIsWhole'
    BY DEF ListedIsWhole
  <2>1. failures = 0 OBVIOUS
  <2>2. participants \subseteq Names /\ channels \subseteq Names
    BY DEF RedisInv, RedisTypeOK
  <2>. QED BY <1>1, <2>1, <2>2 DEF RedisInv, ListedIsWhole, WholeParticipant,
                                   WholeChannel, Methods
<1>10. ASSUME RedisTypeOK' PROVE UnreadableExplained'
  <2>1. MessagesReadable'
    BY <1>8, <1>10, KeptIsReadableNext
  <2>2. participants \subseteq Names /\ channels \subseteq Names
    BY DEF RedisInv, RedisTypeOK
  <2>3. \A name \in participants' : ~Exists(name)' => CallsOf("DeleteChannel", name)' # {}
    BY <1>1, <2>2 DEF RedisInv, UnreadableExplained, Exists, Methods
  <2>4. \A name \in channels' :
          ~Exists(name)' => CallsOf("DeleteChannel", name)' \cap disturbed' # {}
    BY <1>1, <2>2 DEF RedisInv, UnreadableExplained, Exists, Methods
  <2>. QED BY <2>1, <2>3, <2>4 DEF UnreadableExplained, MessagesReadable
<1>. QED BY <1>4, <1>5, <1>6, <1>7, <1>8, <1>9, <1>10

\* A call begins: whatever is said of the earlier ones stays true.
LEMMA BeginStep ==
  ASSUME RedisInv, NEW c \in Call, calls' = Append(calls, c), step = 0, step' = 1,
         UNCHANGED <<stored, disturbed>>,
         failures' = 0 => failures = 0, c.blind => failures' # 0,
         ~c.blind /\ c.method = "RegisterParticipant" => c.name \notin participants,
         ~c.blind /\ c.method = "RegisterChannel" => c.name \notin channels
  PROVE  /\ InProgress' /\ Fresh' /\ Quiet' /\ RegisteredLogsIn'
         /\ MessagesKept' /\ ListedIsWhole'
         /\ RedisTypeOK' => UnreadableExplained'
<1>1. /\ Current \in Nat /\ Current' = Current + 1 /\ call' = c
      /\ \A k \in 1 .. Current : k \in 1 .. Current' /\ calls'[k] = calls[k]
      /\ calls'[Current'] = c
  BY CallsGrow DEF RedisInv, call
<1>2. UNCHANGED <<participants, channels, messages, hash>>
  BY DEF stored
<1>3. ASSUME NEW method \in Methods, NEW name \in Names
      PROVE  CallsOf(method, name) \subseteq CallsOf(method, name)'
  BY <1>1 DEF CallsOf
<1>4. \A id \in Ids : StoresOf(id) \subseteq StoresOf(id)'
  BY <1>1 DEF StoresOf, IdOf
<1>5. \A k \in 1 .. Current' : Done(k)' => k \in 1 .. Current /\ Done(k)
  <2>. SUFFICES ASSUME NEW k \in 1 .. Current', Done(k)'
                PROVE  k \in 1 .. Current /\ Done(k)
    OBVIOUS
  <2>1. k < Current'
    BY DEF Done
  <2>. QED BY <1>1, <2>1 DEF Done
<1>6. InProgress'
  <2>1. 1 .. step' - 1 = {}
    OBVIOUS
  <2>. QED BY <2>1 DEF InProgress
<1>7. Fresh'
  BY <1>1, <1>2 DEF Fresh
<1>8. Quiet'
  <2>. SUFFICES ASSUME failures' = 0 PROVE Quiet'
    BY DEF Quiet
  <2>1. ~c.blind /\ \A k \in 1 .. Current : ~calls[k].blind
    BY DEF RedisInv, Quiet
  <2>2. ASSUME NEW k \in 1 .. Current' PROVE ~calls'[k].blind
    <3>1. k = Current' \/ k \in 1 .. Current
      BY <1>1
    <3>. QED BY <1>1, <2>1, <3>1
  <2>3. Current' \notin disturbed'
    <3>1. disturbed \subseteq 1 .. Current
      BY DEF RedisInv, RedisTypeOK, Current
    <3>. QED BY <1>1, <3>1
  <2>. QED BY <2>2, <2>3 DEF Quiet
<1>9. RegisteredLogsIn'
  <2>. SUFFICES ASSUME NEW name \in Names, NEW k \in CallsOf("RegisterParticipant", name)',
                       Done(k)', k \notin disturbed'
                PROVE  \/ AuthParticipant(name, k)'
                       \/ \E j \in CallsOf("DeleteChannel", name)' : j > k
                       \/ \E j \in CallsOf("RegisterParticipant", name)' :
                            j > k /\ calls'[j].blind
    BY DEF RegisteredLogsIn
  <2>1. k \in CallsOf("RegisterParticipant", name) /\ Done(k) /\ k \notin disturbed
    BY <1>1, <1>5 DEF CallsOf
  <2>2. \/ AuthParticipant(name, k)
        \/ \E j \in CallsOf("DeleteChannel", name) : j > k
        \/ \E j \in CallsOf("RegisterParticipant", name) : j > k /\ calls[j].blind
    BY <2>1 DEF RedisInv, RegisteredLogsIn
  <2>3. \A j \in CallsOf("RegisterParticipant", name) : calls'[j] = calls[j]
    BY <1>1 DEF CallsOf
  <2>. QED BY <1>2, <1>3, <2>2, <2>3 DEF AuthParticipant, Methods
<1>10. MessagesKept'
  <2>. SUFFICES ASSUME NEW id \in Ids, NEW k \in StoresOf(id)', Done(k)', k \notin disturbed'
                PROVE  /\ id \in messages'[HistoryOf(calls'[k].channel)]
                       /\ \A field \in MessageFields :
                            hash'[id][field] \in {j \in StoresOf(id)' : j >= k}
    BY DEF MessagesKept, HistoryOf
  <2>1. k \in StoresOf(id) /\ Done(k) /\ k \notin disturbed /\ calls'[k] = calls[k]
    BY <1>1, <1>5 DEF StoresOf, IdOf
  <2>2. /\ id \in messages[HistoryOf(calls[k].channel)]
        /\ \A field \in MessageFields : hash[id][field] \in {j \in StoresOf(id) : j >= k}
    BY <2>1 DEF RedisInv, MessagesKept
  <2>. QED BY <1>2, <1>4, <2>1, <2>2
<1>11. ListedIsWhole'
  <2>. SUFFICES ASSUME failures' = 0 PROVE ListedIsWhole'
    BY DEF ListedIsWhole
  <2>1. participants \subseteq Names /\ channels \subseteq Names
    BY DEF RedisInv, RedisTypeOK
  <2>2. \A name \in participants :
          WholeParticipant(name) \/ CallsOf("DeleteChannel", name) # {}
    BY DEF RedisInv, ListedIsWhole
  <2>3. \A name \in channels : WholeChannel(name)
    BY DEF RedisInv, ListedIsWhole
  <2>4. \A name \in participants' :
          WholeParticipant(name)' \/ CallsOf("DeleteChannel", name)' # {}
    BY <1>2, <1>3, <2>1, <2>2 DEF WholeParticipant, Methods
  <2>5. \A name \in channels' : WholeChannel(name)'
    BY <1>2, <1>3, <2>1, <2>3 DEF WholeChannel, Methods
  <2>. QED BY <2>4, <2>5 DEF ListedIsWhole
<1>12. ASSUME RedisTypeOK' PROVE UnreadableExplained'
  <2>1. MessagesReadable'
    BY <1>10, <1>12, KeptIsReadableNext
  <2>2. participants \subseteq Names /\ channels \subseteq Names
    BY DEF RedisInv, RedisTypeOK
  <2>3. \A name \in participants' : ~Exists(name)' => CallsOf("DeleteChannel", name)' # {}
    BY <1>2, <1>3, <2>2 DEF RedisInv, UnreadableExplained, Exists, Methods
  <2>4. \A name \in channels' :
          ~Exists(name)' => CallsOf("DeleteChannel", name)' \cap disturbed' # {}
    BY <1>2, <1>3, <2>2 DEF RedisInv, UnreadableExplained, Exists, Methods
  <2>. QED BY <2>1, <2>3, <2>4 DEF UnreadableExplained, MessagesReadable
<1>. QED BY <1>6, <1>7, <1>8, <1>9, <1>10, <1>11, <1>12

-----------------------------------------------------------------------------
\* What the command of a call changes, and that it changes nothing else.
LEMMA IssueEffect ==
  ASSUME RedisTypeOK, Issue
  PROVE  /\ step # 0 /\ step' = NextStep /\ UNCHANGED <<calls, disturbed, failures>>
         /\ \A key \in Keys, field \in Fields :
              \/ hash'[key][field] = hash[key][field]
              \/ key = Key /\ field = Command /\ hash'[key][field] = Current
              \/ key = Key /\ Command = "Del"
         /\ Command \in Fields => hash'[Key][Command] = Current
         /\ participants \subseteq participants'
         /\ \A name \in participants' \ participants :
              /\ Command = "SAdd" /\ call.method = "RegisterParticipant"
              /\ name = call.name /\ Exists(Key)
         /\ Command = "SAdd" /\ call.method = "RegisterParticipant" /\ Exists(Key) =>
              call.name \in participants'
         /\ \A name \in channels' \ channels :
              /\ Command = "SAdd" /\ call.method = "RegisterChannel"
              /\ name = call.name /\ Exists(Key)
         /\ Command = "SRem" => call.name \notin channels'
         /\ DOMAIN messages' = DOMAIN messages
         /\ \A history \in DOMAIN messages : messages[history] \subseteq messages'[history]
         /\ Command = "SAdd" /\ call.method = "StoreMessage" =>
              Key \in messages'[HistoryOf(call.channel)]
<1>1. step # 0 /\ step' = NextStep /\ UNCHANGED <<calls, disturbed, failures>>
  BY DEF Issue
<1>2. /\ Command \in Fields => Command \notin {"SAdd", "SRem", "Del"}
      /\ call.method = "StoreMessage" => HistoryOf(call.channel) \in DOMAIN messages
  BY <1>1, CallTyped DEF Fields, ParticipantFields, MessageFields, ChannelFields,
                         HistoryOf, RedisTypeOK, Call
<1>3. CASE HSet
  <2>1. UNCHANGED <<participants, channels, messages>> /\ Command \in Fields
    BY <1>3 DEF HSet
  <2>2. \A key \in Keys, field \in Fields : hash'[key][field] =
          IF key = Key /\ field = Command THEN Current ELSE hash[key][field]
    BY <1>1, <1>3, HashAfterHSet
  <2>3. Key \in Keys
    BY <1>1, CallTyped
  <2>. QED BY <1>1, <1>2, <2>1, <2>2, <2>3
<1>4. CASE SAdd /\ call.method = "StoreMessage"
  BY <1>1, <1>2, <1>4 DEF SAdd, SAddMessage, RedisTypeOK
<1>5. CASE SAdd /\ call.method # "StoreMessage"
  BY <1>1, <1>2, <1>5 DEF SAdd, SAddName
<1>6. CASE SRem
  BY <1>1, <1>2, <1>6 DEF SRem
<1>7. CASE Del
  <2>1. /\ UNCHANGED <<participants, channels, messages>> /\ Command = "Del"
        /\ hash' = [hash EXCEPT ![Key] = [field \in Fields |-> 0]]
    BY <1>7 DEF Del
  <2>2. \A key \in Keys : key = Key \/ hash'[key] = hash[key]
    BY <2>1 DEF RedisTypeOK
  <2>. QED BY <1>1, <1>2, <2>1, <2>2
<1>. QED BY <1>3, <1>4, <1>5, <1>6, <1>7 DEF Issue

\* The facts about the call in progress survive its next command.
LEMMA IssueInProgress ==
  ASSUME RedisInv, Issue
  PROVE  InProgress' /\ Fresh' /\ Quiet'
<1>1. RedisTypeOK /\ step # 0 /\ step' = NextStep
  BY IssueEffect DEF RedisInv
<1>2. Current' = Current /\ call' = call /\ Key' = Key
  BY <1>1, IssueEffect, CallsFixed
<1>3. InProgress'
  <2>. SUFFICES ASSUME step' # 0, Current \notin disturbed, NEW i \in 1 .. step' - 1
                PROVE  /\ Program[call.method][i] \in Fields =>
                            hash'[Key][Program[call.method][i]] = Current
                       /\ Program[call.method][i] = "SAdd" =>
                            Key \in messages'[HistoryOf(call.channel)]
                       /\ Program[call.method][i] = "SRem" => call.name \notin channels'
    BY <1>1, <1>2, IssueEffect DEF InProgress, HistoryOf, Program
  <2>1. i \in 1 .. step - 1 \/ i = step
    BY <1>1, CommandOf
  <2>2. CASE i = step
    <3>1. Program[call.method][i] = Command
      BY <2>2 DEF Command
    <3>2. Command = "SAdd" => call.method = "StoreMessage"
      BY <1>1, CommandOf
    <3>. QED BY <1>1, <3>1, <3>2, IssueEffect
  <2>3. CASE i \in 1 .. step - 1
    <3>1. /\ Program[call.method][i] \in Fields =>
               hash[Key][Program[call.method][i]] = Current
          /\ Program[call.method][i] = "SAdd" =>
               Key \in messages[HistoryOf(call.channel)]
          /\ Program[call.method][i] = "SRem" => call.name \notin channels
      BY <1>1, <2>3 DEF RedisInv, InProgress
    <3>2. Command # "Del" /\ channels' \subseteq channels
      BY <1>1, CommandOf, IssueEffect
    <3>3. Key \in Keys /\ HistoryOf(call.channel) \in DOMAIN messages
      BY <1>1, CallTyped DEF RedisTypeOK, HistoryOf, Call
    <3>. QED BY <1>1, <3>1, <3>2, <3>3, IssueEffect
  <2>. QED BY <2>1, <2>2, <2>3
<1>4. Fresh'
  <2>. SUFFICES ASSUME step' # 0 PROVE Fresh'
    BY DEF Fresh
  <2>1. participants' \subseteq participants /\ channels' \subseteq channels
    BY <1>1, CommandOf, IssueEffect
  <2>. QED BY <1>1, <1>2, <2>1 DEF RedisInv, Fresh
<1>5. Quiet'
  BY <1>1, <1>2, IssueEffect DEF RedisInv, Quiet
<1>. QED BY <1>3, <1>4, <1>5

\* A command takes nobody's login away, but in the two ways that are named.
LEMMA IssueLogsIn ==
  ASSUME RedisInv, Issue
  PROVE  RegisteredLogsIn'
<1>1. RedisTypeOK /\ step # 0 /\ step' = NextStep /\ UNCHANGED <<calls, disturbed>>
  BY IssueEffect DEF RedisInv
<1>2. /\ Current' = Current
      /\ \A method \in Methods, name \in Names :
           CallsOf(method, name)' = CallsOf(method, name)
  BY <1>1, CallsFixed
<1>. SUFFICES ASSUME NEW name \in Names, NEW k \in CallsOf("RegisterParticipant", name),
                     k < Current \/ step' = 0, k \notin disturbed,
                     \A j \in CallsOf("DeleteChannel", name) : ~(j > k),
                     \A j \in CallsOf("RegisterParticipant", name) :
                       ~(j > k /\ calls[j].blind)
              PROVE  AuthParticipant(name, k)'
  BY <1>1, <1>2 DEF RegisteredLogsIn, Methods, Done
<1>3. k \in 1 .. Current /\ calls[k].method = "RegisterParticipant" /\ calls[k].name = name
  BY DEF CallsOf
<1>4. name \in Keys /\ "Password" \in Fields /\ Current \in 1 .. MaxCalls
  BY <1>1, CallTyped DEF Keys, Fields, ParticipantFields
<1>5. CASE k < Current
  <2>1. AuthParticipant(name, k)
    BY <1>5 DEF RedisInv, RegisteredLogsIn, Done
  <2>2. ~(Key = name /\ Command = "Del")
    <3>. SUFFICES ASSUME Key = name, Command = "Del" PROVE FALSE
      OBVIOUS
    <3>1. call.method = "DeleteChannel" /\ call.name = name
      BY <1>1, CommandOf, CallTyped
    <3>2. Current \in CallsOf("DeleteChannel", name)
      BY <1>4, <3>1 DEF CallsOf, call
    <3>. QED BY <1>5, <3>2
  <2>3. ~(Key = name /\ Command = "Password")
    <3>. SUFFICES ASSUME Key = name, Command = "Password" PROVE FALSE
      OBVIOUS
    <3>1. call.method = "RegisterParticipant"
      BY <1>1, CommandOf DEF ParticipantFields
    <3>2. call.name = name
      BY <1>1, <3>1, CallTyped
    <3>3. call.blind
      BY <1>1, <2>1, <3>1, <3>2 DEF RedisInv, Fresh, AuthParticipant
    <3>4. Current \in CallsOf("RegisterParticipant", name)
      BY <1>4, <3>1, <3>2 DEF CallsOf, call
    <3>. QED BY <1>5, <3>3, <3>4 DEF call
  <2>4. hash'[name]["Password"] = hash[name]["Password"]
    BY <1>1, <1>4, <2>2, <2>3, IssueEffect
  <2>5. name \in participants'
    BY <1>1, <2>1, IssueEffect DEF AuthParticipant
  <2>. QED BY <2>1, <2>4, <2>5 DEF AuthParticipant
<1>6. CASE k = Current /\ step' = 0
  <2>1. /\ call.method = "RegisterParticipant" /\ call.name = name
        /\ Command = "SAdd" /\ Key = name
    BY <1>1, <1>3, <1>6, CommandOf, CallTyped DEF call
  <2>2. hash[Key]["Password"] = Current
    BY <1>1, <1>6, <2>1, Completed DEF RedisInv, ParticipantFields
  <2>3. Exists(Key)
    BY <1>4, <2>2 DEF Exists
  <2>4. hash'[name]["Password"] = Current
    BY <1>1, <1>4, <2>1, <2>2, IssueEffect
  <2>5. name \in participants'
    BY <1>1, <2>1, <2>3, IssueEffect
  <2>. QED BY <1>4, <1>6, <2>4, <2>5 DEF AuthParticipant
<1>. QED BY <1>3, <1>4, <1>5, <1>6

\* A command takes no message away, and writes to a message's record only
\* for a message of the same sender and second.
LEMMA IssueKept ==
  ASSUME RedisInv, Issue
  PROVE  MessagesKept'
<1>1. RedisTypeOK /\ step # 0 /\ step' = NextStep /\ UNCHANGED <<calls, disturbed>>
  BY IssueEffect DEF RedisInv
<1>2. Current' = Current /\ \A id \in Ids : StoresOf(id)' = StoresOf(id)
  BY <1>1, CallsFixed
<1>. SUFFICES ASSUME NEW id \in Ids, NEW k \in StoresOf(id),
                     k < Current \/ step' = 0, k \notin disturbed
              PROVE  /\ id \in messages'[HistoryOf(calls[k].channel)]
                     /\ \A field \in MessageFields :
                          hash'[id][field] \in {j \in StoresOf(id) : j >= k}
  BY <1>1, <1>2 DEF MessagesKept, Done, HistoryOf
<1>3. /\ k \in 1 .. Current /\ calls[k].method = "StoreMessage" /\ IdOf(k) = id
      /\ Current \in 1 .. MaxCalls
  BY <1>1, CallTyped DEF StoresOf
<1>4. /\ calls[k] \in Call /\ HistoryOf(calls[k].channel) \in DOMAIN messages
  <2>1. calls[k] \in Call
    BY <1>1, <1>3 DEF RedisTypeOK, Current
  <2>. QED BY <1>1, <2>1 DEF RedisTypeOK, Call, HistoryOf
<1>5. id \in Keys /\ MessageFields \subseteq Fields
  BY DEF Keys, Fields
<1>6. ASSUME Key = id
      PROVE  /\ call.method = "StoreMessage" /\ Command # "Del"
             /\ Current \in {j \in StoresOf(id) : j >= k}
  <2>1. call.method = "StoreMessage"
    BY <1>1, <1>6, CallTyped, KeysApart
  <2>2. Command # "Del" /\ IdOf(Current) = id
    BY <1>1, <1>6, <2>1, CommandOf, CallTyped
  <2>. QED BY <1>3, <2>1, <2>2 DEF StoresOf, call
<1>7. CASE k < Current
  <2>1. /\ id \in messages[HistoryOf(calls[k].channel)]
        /\ \A field \in MessageFields : hash[id][field] \in {j \in StoresOf(id) : j >= k}
    BY <1>7 DEF RedisInv, MessagesKept, Done
  <2>2. id \in messages'[HistoryOf(calls[k].channel)]
    BY <1>1, <1>4, <2>1, IssueEffect
  <2>3. ASSUME NEW field \in MessageFields
        PROVE  hash'[id][field] \in {j \in StoresOf(id) : j >= k}
    <3>1. hash'[id][field] = hash[id][field] \/ (Key = id /\ hash'[id][field] = Current)
      BY <1>1, <1>5, <1>6, IssueEffect
    <3>. QED BY <1>6, <2>1, <3>1
  <2>. QED BY <2>2, <2>3
<1>8. CASE k = Current /\ step' = 0
  <2>1. call.method = "StoreMessage" /\ Key = id /\ call = calls[k]
    BY <1>1, <1>3, <1>8, CallTyped DEF call
  <2>2. /\ Key \in messages[HistoryOf(call.channel)]
        /\ \A field \in MessageFields : field = Command \/ hash[Key][field] = Current
    BY <1>1, <1>8, <2>1, Completed DEF RedisInv
  <2>3. id \in messages'[HistoryOf(calls[k].channel)]
    BY <1>1, <1>4, <2>1, <2>2, IssueEffect
  <2>4. ASSUME NEW field \in MessageFields
        PROVE  hash'[id][field] = Current
    BY <1>1, <1>5, <1>6, <2>1, <2>2, IssueEffect
  <2>. QED BY <1>6, <2>1, <2>3, <2>4
<1>. QED BY <1>3, <1>7, <1>8

\* A command leaves listed participants and channels whole, and lists only
\* whole ones, as long as Redis answers.
LEMMA IssueListed ==
  ASSUME RedisInv, Issue
  PROVE  ListedIsWhole'
<1>1. RedisTypeOK /\ step # 0 /\ step' = NextStep /\ UNCHANGED <<calls, disturbed, failures>>
  BY IssueEffect DEF RedisInv
<1>2. /\ Current' = Current
      /\ \A method \in Methods, name \in Names :
           CallsOf(method, name)' = CallsOf(method, name)
  BY <1>1, CallsFixed
<1>. SUFFICES ASSUME failures = 0
              PROVE  /\ \A name \in participants' :
                          WholeParticipant(name)' \/ CallsOf("DeleteChannel", name)' # {}
                     /\ \A name \in channels' : WholeChannel(name)'
  BY <1>1 DEF ListedIsWhole
<1>3. /\ ~call.blind /\ Current \notin disturbed
      /\ \A name \in participants :
           WholeParticipant(name) \/ CallsOf("DeleteChannel", name) # {}
      /\ \A name \in channels : WholeChannel(name)
  BY <1>1, CallTyped DEF RedisInv, Quiet, ListedIsWhole, call
<1>4. /\ Current \in 1 .. MaxCalls /\ call \in Call
      /\ ParticipantFields \subseteq Fields /\ ChannelFields \subseteq Fields
      /\ participants \subseteq Names /\ channels \subseteq Names
  BY <1>1, CallTyped DEF Fields, RedisTypeOK
<1>5. call.name \in Names /\ call.method \in Methods
  BY <1>4 DEF Call
<1>6. Current \in CallsOf(call.method, call.name)
  BY <1>4 DEF CallsOf, call
<1>7. ASSUME NEW name \in participants'
      PROVE  WholeParticipant(name)' \/ CallsOf("DeleteChannel", name)' # {}
  <2>1. CASE name \in participants
    <3>1. name \in Keys
      BY <1>4, <2>1 DEF Keys
    <3>2. CASE Key = name /\ Command = "Del"
      <4>1. call.method = "DeleteChannel" /\ call.name = name
        BY <1>1, <3>2, CommandOf, CallTyped
      <4>. QED BY <1>2, <1>5, <1>6, <4>1
    <3>3. CASE ~(Key = name /\ Command = "Del")
      <4>1. ~(Key = name /\ Command \in ParticipantFields)
        <5>1. Command \in ParticipantFields =>
                call.method = "RegisterParticipant" /\ call.name \notin participants
          BY <1>1, <1>3, CommandOf DEF RedisInv, Fresh
        <5>. QED BY <1>1, <2>1, <5>1, CallTyped
      <4>2. \A field \in ParticipantFields : hash'[name][field] = hash[name][field]
        BY <1>1, <1>4, <3>1, <3>3, <4>1, IssueEffect
      <4>. QED BY <1>2, <1>3, <1>4, <2>1, <4>2 DEF WholeParticipant, Methods
    <3>. QED BY <3>2, <3>3
  <2>2. CASE name \notin participants
    <3>1. Command = "SAdd" /\ call.method = "RegisterParticipant" /\ name = call.name
      BY <1>1, <2>2, IssueEffect
    <3>2. Key = name /\ NextStep = 0 /\ name \in Keys
      BY <1>1, <1>5, <3>1, CallTyped, CommandOf DEF Keys
    <3>3. \A field \in ParticipantFields : hash[name][field] = Current
      BY <1>1, <1>3, <3>1, <3>2, Completed DEF RedisInv
    <3>4. \A field \in ParticipantFields : hash'[name][field] = Current
      BY <1>1, <1>4, <3>1, <3>2, <3>3, IssueEffect
    <3>. QED BY <1>2, <1>5, <1>6, <3>1, <3>4 DEF WholeParticipant
  <2>. QED BY <2>1, <2>2
<1>8. ASSUME NEW name \in channels'
      PROVE  WholeChannel(name)'
  <2>1. CASE name \in channels
    <3>1. name \in Keys
      BY <1>4, <2>1 DEF Keys
    <3>2. ~(Key = name /\ Command = "Del")
      <4>1. Command = "Del" => call.method = "DeleteChannel" /\ call.name \notin channels
        BY <1>1, <1>3, CommandOf, Completed DEF RedisInv
      <4>. QED BY <1>1, <2>1, <4>1, CallTyped
    <3>3. ~(Key = name /\ Command \in ChannelFields)
      <4>1. Command \in ChannelFields =>
              call.method = "RegisterChannel" /\ call.name \notin channels
        BY <1>1, <1>3, CommandOf DEF RedisInv, Fresh
      <4>. QED BY <1>1, <2>1, <4>1, CallTyped
    <3>4. \A field \in ChannelFields : hash'[name][field] = hash[name][field]
      BY <1>1, <1>4, <3>1, <3>2, <3>3, IssueEffect
    <3>. QED BY <1>2, <1>3, <1>4, <2>1, <3>4 DEF WholeChannel, Methods
  <2>2. CASE name \notin channels
    <3>1. Command = "SAdd" /\ call.method = "RegisterChannel" /\ name = call.name
      BY <1>1, <2>2, IssueEffect
    <3>2. Key = name /\ NextStep = 0 /\ name \in Keys
      BY <1>1, <1>5, <3>1, CallTyped, CommandOf DEF Keys
    <3>3. \A field \in ChannelFields : hash[name][field] = Current
      BY <1>1, <1>3, <3>1, <3>2, Completed DEF RedisInv
    <3>4. \A field \in ChannelFields : hash'[name][field] = Current
      BY <1>1, <1>4, <3>1, <3>2, <3>3, IssueEffect
    <3>. QED BY <1>2, <1>5, <1>6, <3>1, <3>4 DEF WholeChannel
  <2>. QED BY <2>1, <2>2
<1>. QED BY <1>7, <1>8

\* A command leaves no name without a record but in the ways that are named.
LEMMA IssueUnreadable ==
  ASSUME RedisInv, Issue, RedisTypeOK', MessagesKept'
  PROVE  UnreadableExplained'
<1>1. RedisTypeOK /\ step # 0 /\ step' = NextStep /\ UNCHANGED <<calls, disturbed>>
  BY IssueEffect DEF RedisInv
<1>2. /\ Current' = Current
      /\ \A method \in Methods, name \in Names :
           CallsOf(method, name)' = CallsOf(method, name)
  BY <1>1, CallsFixed
<1>3. /\ Current \in 1 .. MaxCalls /\ call \in Call
      /\ participants \subseteq Names /\ channels \subseteq Names
  BY <1>1, CallTyped DEF RedisTypeOK
<1>4. call.name \in Names /\ call.method \in Methods
  BY <1>3 DEF Call
<1>5. Current \in CallsOf(call.method, call.name)
  BY <1>3 DEF CallsOf, call
<1>6. ASSUME NEW name \in Names, Exists(name), ~Exists(name)'
      PROVE  call.method = "DeleteChannel" /\ call.name = name /\ Command = "Del"
  <2>1. PICK field \in Fields : hash[name][field] # 0
    BY <1>6 DEF Exists
  <2>2. name \in Keys /\ hash'[name][field] = 0
    BY <1>6 DEF Exists, Keys
  <2>3. Key = name /\ Command = "Del"
    BY <1>1, <1>3, <2>1, <2>2, IssueEffect
  <2>. QED BY <1>1, <2>3, CommandOf, CallTyped
<1>7. ASSUME NEW name \in Names, ~Exists(name)', Command = "SAdd",
             call.method # "StoreMessage", name = call.name
      PROVE  ~Exists(Key)
  <2>1. Key = name
    BY <1>1, <1>7, CallTyped
  <2>2. ~Exists(name)
    BY <1>6, <1>7
  <2>. QED BY <2>1, <2>2 DEF Exists
<1>8. ASSUME NEW name \in participants', ~Exists(name)'
      PROVE  CallsOf("DeleteChannel", name)' # {}
  <2>1. name \in participants
    BY <1>1, <1>4, <1>7, <1>8, IssueEffect
  <2>2. CASE Exists(name)
    BY <1>2, <1>3, <1>5, <1>6, <1>8, <2>1, <2>2 DEF Methods
  <2>3. CASE ~Exists(name)
    BY <1>2, <1>3, <2>1, <2>3 DEF RedisInv, UnreadableExplained, Methods
  <2>. QED BY <2>2, <2>3
<1>9. ASSUME NEW name \in channels', ~Exists(name)'
      PROVE  CallsOf("DeleteChannel", name)' \cap disturbed' # {}
  <2>1. name \in channels
    BY <1>1, <1>4, <1>7, <1>9, IssueEffect
  <2>2. CASE Exists(name)
    <3>1. call.method = "DeleteChannel" /\ call.name = name /\ NextStep = 0
      BY <1>1, <1>3, <1>6, <1>9, <2>1, <2>2, CommandOf
    <3>2. Current \in disturbed
      BY <1>1, <2>1, <3>1, Completed DEF RedisInv
    <3>. QED BY <1>1, <1>2, <1>4, <1>5, <3>1, <3>2
  <2>3. CASE ~Exists(name)
    BY <1>1, <1>2, <1>3, <2>1, <2>3 DEF RedisInv, UnreadableExplained, Methods
  <2>. QED BY <2>2, <2>3
<1>10. MessagesReadable'
  BY KeptIsReadableNext
<1>. QED BY <1>8, <1>9, <1>10 DEF UnreadableExplained, MessagesReadable

-----------------------------------------------------------------------------
\* Nothing is stored, and so everything holds, when the storage is created.
LEMMA RedisInit ==
  NewRedisBackend => RedisInv
<1>. SUFFICES ASSUME NewRedisBackend PROVE RedisInv
  OBVIOUS
<1>1. Current = 0 /\ \A k \in 1 .. Current : FALSE
  BY DEF NewRedisBackend, Current
<1>2. RedisTypeOK
  BY RedisAssumption DEF NewRedisBackend, RedisTypeOK
<1>. QED BY <1>1, <1>2 DEF NewRedisBackend, RedisInv, InProgress, Fresh, Quiet,
              RegisteredLogsIn, MessagesKept, ListedIsWhole, UnreadableExplained,
              CallsOf, StoresOf

\* Every step keeps the invariant.
LEMMA RedisStep ==
  ASSUME RedisInv, [RedisNext]_vars
  PROVE  RedisInv'
<1>1. RedisTypeOK /\ RedisTypeOK'
  BY RedisTypeStep DEF RedisInv
<1>2. CASE Issue
  BY <1>1, <1>2, IssueInProgress, IssueLogsIn, IssueKept, IssueListed, IssueUnreadable
     DEF RedisInv
<1>3. CASE Enter
  <2>1. CASE UNCHANGED <<calls, step>>
    BY <1>1, <1>3, <2>1, EnterCases, IdleStep DEF RedisInv
  <2>2. ASSUME NEW c \in Call, calls' = Append(calls, c), step' = 1,
               c.blind => failures' # 0,
               ~c.blind /\ c.method = "RegisterParticipant" => c.name \notin participants,
               ~c.blind /\ c.method = "RegisterChannel" => c.name \notin channels
        PROVE  RedisInv'
    BY <1>1, <1>3, <2>2, EnterCases, BeginStep DEF RedisInv
  <2>. QED BY <1>1, <1>3, <2>1, <2>2, EnterCases
<1>4. CASE IssueFails
  <2>1. /\ UNCHANGED <<stored, calls>> /\ step # 0 /\ failures' # 0
        /\ disturbed' = disturbed \cup {Current}
    BY <1>1, <1>4 DEF IssueFails, Fails, RedisTypeOK
  <2>. QED BY <1>1, <2>1, IdleStep DEF RedisInv
<1>5. CASE ReadPanics
  <2>1. /\ UNCHANGED <<stored, calls, step, disturbed>>
        /\ failures' = 0 => failures = 0
    BY <1>1, <1>5 DEF ReadPanics, PanicNow, Fails, RedisTypeOK
  <2>. QED BY <1>1, <2>1, IdleStep DEF RedisInv
<1>6. CASE Crash
  <2>1. /\ UNCHANGED <<stored, calls, failures>>
        /\ \/ UNCHANGED <<step, disturbed>>
           \/ step # 0 /\ disturbed' = disturbed \cup {Current} /\ step' = 0
    BY <1>6 DEF Crash
  <2>. QED BY <1>1, <2>1, IdleStep DEF RedisInv
<1>7. CASE Restart \/ Tick \/ UNCHANGED vars
  <2>1. UNCHANGED <<stored, calls, step, disturbed, failures>>
    BY <1>7 DEF Restart, Tick, vars
  <2>. QED BY <1>1, <2>1, IdleStep DEF RedisInv
<1>. QED BY <1>2, <1>3, <1>4, <1>5, <1>6, <1>7 DEF RedisNext

\* The invariant of the storage in Redis, for any number of crashes and failures.
THEOREM RedisInvariant == RedisSpec => []RedisInv
<1>1. RedisInv /\ [RedisNext]_vars => RedisInv'
  BY RedisStep
<1>. QED BY RedisInit, <1>1, PTL DEF RedisSpec

\* Every variable keeps its type.
THEOREM RedisTypes == RedisSpec => []RedisTypeOK
<1>1. RedisInv => RedisTypeOK BY DEF RedisInv
<1>. QED BY RedisInvariant, <1>1, PTL

\* Who registered undisturbed logs in, whatever crashed or failed around it.
THEOREM RegisteredPeopleLogIn == RedisSpec => []RegisteredLogsIn
<1>1. RedisInv => RegisteredLogsIn BY DEF RedisInv
<1>. QED BY RedisInvariant, <1>1, PTL

\* Crashes alone never leave a listed participant or channel in half.
THEOREM CrashesLeaveListedWhole == RedisSpec => []ListedIsWhole
<1>1. RedisInv => ListedIsWhole BY DEF RedisInv
<1>. QED BY RedisInvariant, <1>1, PTL

\* A message stored undisturbed is never lost.
THEOREM MessagesAreKept == RedisSpec => []MessagesKept
<1>1. RedisInv => MessagesKept BY DEF RedisInv
<1>. QED BY RedisInvariant, <1>1, PTL

\* The panics of the reading methods have the three causes.
THEOREM ReadPanicsExplained == RedisSpec => []UnreadableExplained
<1>1. RedisInv => UnreadableExplained BY DEF RedisInv
<1>. QED BY RedisInvariant, <1>1, PTL

-----------------------------------------------------------------------------
\* In which history a message is shown.

\* Calls that are under way or over stay what they are, so a message that was
\* attributed, or filed, stays so while the data do.
LEMMA StoresGrow ==
  ASSUME RedisTypeOK,
         \/ UNCHANGED calls
         \/ \E c \in Call : calls' = Append(calls, c)
  PROVE  \A id \in Ids : \A k \in StoresOf(id) :
           k \in StoresOf(id)' /\ calls'[k] = calls[k]
<1>1. CASE UNCHANGED calls
  BY <1>1, CallsFixed
<1>2. ASSUME NEW c \in Call, calls' = Append(calls, c)
      PROVE  \A k \in 1 .. Current : k \in 1 .. Current' /\ calls'[k] = calls[k]
  BY <1>2, CallsGrow
<1>. QED BY <1>1, <1>2 DEF StoresOf, IdOf

\* A command writes in the record of its own call, and files its own id.
LEMMA IssueFiles ==
  ASSUME RedisTypeOK, FilingInv, Issue
  PROVE  FilingInv'
<1>1. step # 0 /\ UNCHANGED calls
  BY IssueEffect
<1>2. \A id \in Ids : StoresOf(id)' = StoresOf(id)
  BY <1>1, CallsFixed
<1>3. call.method = "StoreMessage" => Current \in StoresOf(Key)
  <2>1. Current \in 1 .. Current
    BY <1>1, CallTyped
  <2>. QED BY <1>1, <2>1, CallTyped DEF StoresOf, call
<1>4. call.method # "StoreMessage" => Key \notin Ids
  BY <1>1, CallTyped, KeysApart
<1>5. RecordsAttributed'
  <2>. SUFFICES ASSUME NEW id \in Ids, NEW field \in Fields, hash'[id][field] # 0
                PROVE  hash'[id][field] \in StoresOf(id)
    BY <1>2 DEF RecordsAttributed
  <2>1. id \in Keys
    BY DEF Keys
  <2>2. CASE hash'[id][field] = hash[id][field]
    BY <2>2 DEF FilingInv, RecordsAttributed
  <2>3. CASE id = Key /\ hash'[id][field] = Current
    BY <1>3, <1>4, <2>3
  <2>4. CASE id = Key /\ Command = "Del"
    BY <1>1, <1>4, <2>4, CommandOf
  <2>. QED BY <2>1, <2>2, <2>3, <2>4, IssueEffect
<1>6. \/ UNCHANGED messages
      \/ /\ call.method = "StoreMessage"
         /\ messages' = [messages EXCEPT ![HistoryOf(call.channel)] = @ \cup {Key}]
  BY DEF Issue, HSet, SAdd, SAddMessage, SAddName, SRem, Del
<1>7. IdsFiled'
  <2>0. messages' \in [Names \cup {General} -> SUBSET Ids]
    BY RedisTypeStep DEF RedisTypeOK, RedisNext
  <2>. SUFFICES ASSUME NEW history \in DOMAIN messages', NEW id \in messages'[history]
                PROVE  \E k \in StoresOf(id) : HistoryOf(calls[k].channel) = history
    BY <1>1, <1>2, <2>0 DEF IdsFiled, HistoryOf
  <2>1. messages \in [Names \cup {General} -> SUBSET Ids]
    BY DEF RedisTypeOK
  <2>2. CASE history \in DOMAIN messages /\ id \in messages[history]
    BY <2>2 DEF FilingInv, IdsFiled
  <2>3. CASE /\ call.method = "StoreMessage"
             /\ history = HistoryOf(call.channel) /\ id = Key
    BY <1>3, <2>3 DEF call
  <2>. QED BY <1>6, <2>1, <2>2, <2>3
<1>. QED BY <1>5, <1>7 DEF FilingInv

\* Every step keeps the records attributed and the ids filed.
LEMMA FilingStep ==
  ASSUME RedisTypeOK, FilingInv, [RedisNext]_vars
  PROVE  FilingInv'
<1>1. CASE Issue
  BY <1>1, IssueFiles
<1>2. CASE UNCHANGED stored /\ (UNCHANGED calls \/ \E c \in Call : calls' = Append(calls, c))
  <2>1. UNCHANGED <<hash, messages>>
    BY <1>2 DEF stored
  <2>2. messages \in [Names \cup {General} -> SUBSET Ids]
    BY DEF RedisTypeOK
  <2>3. \A id \in Ids : \A k \in StoresOf(id) :
          k \in StoresOf(id)' /\ calls'[k] = calls[k]
    BY <1>2, StoresGrow
  <2>4. RecordsAttributed'
    BY <2>1, <2>3 DEF FilingInv, RecordsAttributed
  <2>5. IdsFiled'
    <3>. SUFFICES ASSUME NEW history \in DOMAIN messages, NEW id \in messages[history]
                  PROVE  \E k \in StoresOf(id)' : HistoryOf(calls'[k].channel) = history
      BY <2>1 DEF IdsFiled, HistoryOf
    <3>1. PICK k \in StoresOf(id) : HistoryOf(calls[k].channel) = history
      BY DEF FilingInv, IdsFiled
    <3>. QED BY <2>2, <2>3, <3>1
  <2>. QED BY <2>4, <2>5 DEF FilingInv
<1>3. CASE Enter
  BY <1>2, <1>3, EnterCases
<1>4. CASE IssueFails \/ ReadPanics \/ Crash \/ Restart \/ Tick \/ UNCHANGED vars
  BY <1>2, <1>4 DEF IssueFails, ReadPanics, PanicNow, Crash, Restart, Tick, vars
<1>. QED BY <1>1, <1>3, <1>4 DEF RedisNext

\* What a history shows was sent to it, or shares its sender and second with a
\* message that was: so also with failing commands and crashes between them.
THEOREM MessagesStayInTheirChannel == RedisSpec => []MessagesInTheirChannel
<1>1. NewRedisBackend => FilingInv
  BY DEF NewRedisBackend, FilingInv, RecordsAttributed, IdsFiled, Keys
<1>2. RedisTypeOK /\ FilingInv /\ [RedisNext]_vars => FilingInv'
  BY FilingStep
<1>3. RedisTypeOK /\ FilingInv => MessagesInTheirChannel
  <2>. SUFFICES ASSUME RedisTypeOK, FilingInv,
                       NEW history \in DOMAIN messages, NEW id \in messages[history],
                       hash[id]["Contents"] # 0
                PROVE  \E k \in 1 .. Current :
                         /\ calls[k].method = "StoreMessage"
                         /\ HistoryOf(calls[k].channel) = history
                         /\ IdOf(k) = IdOf(hash[id]["Contents"])
    BY DEF MessagesInTheirChannel
  <2>1. id \in Ids
    BY DEF RedisTypeOK
  <2>2. IdOf(hash[id]["Contents"]) = id
    BY <2>1 DEF FilingInv, RecordsAttributed, StoresOf, Fields, MessageFields
  <2>3. PICK k \in StoresOf(id) : HistoryOf(calls[k].channel) = history
    BY DEF FilingInv, IdsFiled
  <2>. QED BY <2>2, <2>3 DEF StoresOf
<1>. QED BY <1>1, <1>2, <1>3, RedisTypes, PTL DEF RedisSpec

=============================================================================
