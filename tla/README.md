# mchat: a verification development

TLA+ models of the chat server in `src/`, TLC runs that check them on small
instances, and proofs, checked by TLAPS, that hold for every value of the
constants.  Paths below are relative to the repository; `reader.go` is
`pkg/session/reader.go`, and so on for the other files of a package.

## 1. The system

mchat is a line-oriented chat over TCP.  A *session* (the server) accepts
connections; each is served by its own goroutine, a *reader*, which is a state
machine fed with the lines its client types: registration, login, channel
creation, channel selection, chatting.  Whatever the server has to say to a client
goes through two unbuffered channels to one goroutine, the *message loop*, which
alone writes to sockets.  Participants, channels and messages are in a *storage*
behind an interface.  An *idle goroutine* per participant disconnects those who say
nothing, and a *shutdown timer* ends a session in which nobody is left.  The *client* is
a terminal program of three goroutines at the other end of the connection.

| component | code | state | operations | status |
|---|---|---|---|---|
| memory backend | `pkg/backend/memory/memory.go` | accounts, general history, channels with their own histories, one RWMutex | `RegisterParticipant`, `AuthParticipant`, `StoreMessage`, `RegisterChannel`, `DeleteChannel`, `Has*`, `Get*` | modelled |
| messages and records | `pkg/types/types.go` | - | `BuildChatMsg`, `BuildSysMsg` | modelled |
| connection map, idle timer | `pkg/session/connection.go` | address -> connection (socket, participant, channel pointer, context, pending/connected), one RWMutex; a timer goroutine per participant | `addConn`, `removeConn`, `markAsConnected`, `empty`, `broadcastMessage`, `disconnectIfIdle` | modelled |
| reader state machine | `pkg/session/reader.go` | state, substate, last line | `read`, `processCommand`, seven callbacks, `validate` | modelled |
| session | `pkg/session/session.go` | listener, shutdown timer, four unbuffered channels | `Run`, `handleConnection`, `sendMsg`, `processMessages` | modelled |
| redis backend | `pkg/backend/redis/redis.go` | sets of names and message ids, hashes of fields, on a server | the same interface, each method several Redis commands | modelled |
| client | `pkg/client/client.go` | three goroutines, two unbuffered channels, a context | `tryConnect`, `Run`, `handleRemoteConnection`, `processInput` | modelled |
| commands | `pkg/commands/commands.go` | command table | `ParseCommand` | modelled |
| backend interface | `pkg/backend/backend.go` | - | the ten methods | partly |
| validation | `pkg/validation/validation.go` | regular expressions | `ValidateEmail`; `ValidateName`, `ValidatePassword` as sets of texts | partly |
| utilities, logger | `pkg/utilities`, `pkg/logger` | - | hash, `WriteBytes`; `Panic` | partly |
| dynamodb backend | `pkg/backend/dynamodb` | none | a stub, every method returns a constant | left out |
| command lines, test set-up | `services/`, `pkg/testsetup` | - | flags; test data and containers | left out |

How they meet: `Run` and all readers share the connection map; all readers share
the storage; a reader blocks in `sendMsg` until the message loop receives; the
message loop reads the map and, in it, each connection's participant; a reader blocks on
`abortConnectionTimeout` until its idle goroutine receives; the idle goroutine closes
the socket under a reader blocked in `Read` and then cancels the context the
reader asks about; the last statement of a reader resets the timer that the message
loop waits on and that `Run` stops.  The message loop writes to sockets under the map's lock, and
a client that does not read holds it there; the client's reader waits for its main
goroutine, which waits in a write for the handler, which waits for the message loop.

### What is hard about it, and what must hold

* **Storage.**  One lock per method makes methods atomic, not what callers do with
  two of them.  A message must be in the history it was sent to, accounts must
  keep their passwords, histories must only grow, and who has registered must be
  able to log in.
* **Login.**  Name test and registration are two calls with other readers in
  between; `:menu` is obeyed in the middle of the dialogue.  Whoever is connected must
  own the account it claims, alone; a lost race may only cost what the code says it
  costs (a panic); the name, which other goroutines read without a lock, must be
  final.
* **Channels.**  After a selection the connection points *into* the storage; typing
  a new channel name then renames a stored object whose key stays.  Pointers must
  stay good, strangers must not speak, panics must have known causes.
* **Delivery.**  Reading the history, being marked as connected, storing a message,
  and broadcasting it are separate steps of several goroutines.  A participant
  must neither miss a message of another one nor read one twice, beyond what this window
  makes unavoidable.
* **Idle timer.**  It fires at any moment of the reader's work.  Every goroutine must
  end with its connection, and a dropped connection must leave the map.
* **Redis.**  A method is a row of commands to another process; each may fail alone, errors
  are ignored, and the server may end between two and start again on what is there.  What
  was stored undisturbed must stay, what is listed must be whole, and a later panic must
  have a known cause.
* **Client.**  Nothing read or typed may be lost or repeated between three goroutines; the
  end of the connection must end all of them; the message loop of the server must not
  depend on what the user does.
* **Commands and addresses.**  Pure functions with index arithmetic and a flag that survives
  from one turn of a loop to the next.
* **Shutdown.**  Timer, message loop, shutdown goroutine and `Run` hand over through
  unbuffered channels; the timer must run exactly while nobody is connected, and a session
  whose timer has fired must end.

`PROJECT.json` lists these hazards one by one, each at its line, with the
properties that cover it.  Some have none: what the code does there is in the model, and the note
says why no property promises anything of it.

## 2. The modules

```
Types ---------- MemoryBackend ---\
   \                               Reader ----- Session
    \----------- Connections -----/  : |          |
                                    :  |      SessionProofs (uses both below)
        ChatRoom ...................:  |          |
   (implemented by Reader, Session)  ReaderProofs -- RoomProofs, DeliveryProofs

RedisBackend - RedisProofs          MCBackend (MemoryBackend)
Client ------- ClientProofs         MCReader  (Reader, CommandParser)
MemoryBackend - BackendProofs       MCLogin   (MCReader, Validation)
Validation ----\                    MCSession (Session)
                InputProofs         MCRedis   (RedisBackend)
CommandParser -/

(Validation and CommandParser extend Types, too.)
```

**Types.**  Texts are model values; which are valid names, e-mail addresses and
passwords, and which differ in letter case only, are constants.  `BuildChatMsg` is
here, with what it does to its channel argument (it drops it).  `panic` is the
process-wide fate of `Logger.Panic`: nothing recovers, so the first panic ends
everything, and every action requires that there has been none.

**MemoryBackend.**  One operator per method.  Writers are actions over `participants`,
`chatHistory` and `channels`; readers are state functions.  A hash is the pair of
the text and how many times it was hashed, which is all that tells
`AuthParticipant`'s comparison apart.  `BackendSpec` is the storage under any caller of the
interface (that includes `DeleteChannel`, which no reader calls).

**Connections.**  The map, the broadcast and `disconnectIfIdle`.  The broadcast
leaves out one connection of the sender's name, the first in an unspecified iteration
order; a write to a socket the server has closed is lost.  Closing the socket and
cancelling the context are two steps of the idle goroutine.  `shown` and `received`
record what a client has read: the chat history on entering, then the broadcasts; `entered` is how
much was stored when it was marked as connected, and `inHand` what the message loop has received
from a handler and has yet to broadcast.

**Reader.**  `handleConnection` and `reader.go`.  `state`, `substate`, `buffer` and
`channel` are the fields of the code; `pc` is where the handler is between two
steps; `outbox` is the message it is blocked on in `sendMsg`.  The message loop
(`ProcessMessages`) takes it in one step, `Receive`, which lets the handler go on, and broadcasts it
in another, `Broadcast`, before it is back in its select (`LoopInSelect`): a handler may have stored
and sent its next message, or be gone, when its last one is broadcast.  A handler is split

* before every call of the storage or of the map that follows an earlier one
  (`SubmitPassword`, `Register`, `DisplayHistory`, `Mark`; `OnCreateChannelDesc`,
  `CreateChannel`; `OnSelectChannel`, `ShowChannelHistory`; `OnDisconnect`,
  `CheckEmpty`, `ResetShutdownTimer`), and
* at every `sendMsg`; messages to the client itself with nothing shared touched in
  between are one message, and the menu that starts the next iteration joins the
  reply before it.

A read has three outcomes: a line, the client's end of stream (`ReadEOF`), or an
error, because the peer reset the connection (`ReadReset`) or because the idle goroutine
closed the socket (`ReadClosed`); the last two share `ReadFails`, which asks whether
the context is cancelled.  In `OnAcceptMessages` the send on `abortConnectionTimeout` is
the guard: the handler is stuck for as long as the idle goroutine is not in its
select.  The following storage call is in the same action, since the
rendezvous shows nothing of the handler to anybody but the idle goroutine, which only
restarts its timer.  `connection.channel` is a reference: an alias into the
storage once a channel has been selected, so that `OnCreateChannelName` writes the
stored object's name.

**Session.**  Composes `Reader` with `Run`'s loop, the shutdown timer, the tick in
its channel, the message loop's exit and the shutdown goroutine.  That goroutine is on its way
to its send (`triggered`) before it is blocked in it (`sending`): an error of `Accept` in between
finds nobody to receive from, and `Run` dereferences the connection it did not get.  The tick is kept
apart from the timer because under Go 1.21 (`go.mod`) neither `Stop` nor `Reset`
takes back one that was already sent.

**ChatRoom.**  What the server promises, without its goroutines: a room that one
enters once, with a new account, under a name nobody else has; a log that only those inside
extend, by one message, under the name they entered with; nobody who left comes
back.  `Reader` maps its variables to it: a client is *entering* from the
registration to the mark, *inside* while it is connected and in the map, *gone* once
removed; the accounts, the log and the crash are the storage's participants, its general
history and the panic.  The step of the code that commits to each move is thus
fixed: `Register`, `Mark`, `OnAcceptMessages`, `OnDisconnect`.  There is no second way in,
because nobody passes `AuthParticipant` of the memory backend.

**RedisBackend.**  `calls` is the sequence of the calls that write, in the order of the
backend's lock; `Program` the row of commands each sends; `step` the next one.  `Issue`
executes a command, `IssueFails` loses it, `Crash` ends the server between two, `Restart`
begins again with what Redis has.  A call's contents are its number, so a field of a hash
says who wrote it last.  Participants and channels have the same hash key (the
checksum of the name), a message's id is its sender and the second, and the general
chat's key is that of a channel called "general": all three are in `Key` and `HistoryOf`.
`SAddName` lists a name only if `HGetAll` finds a field, whoever wrote it.  The methods
that only read are state functions, and `ReadPanics` is a call of one that panics.

**Client.**  `main` is `Run` (dialling, in its select, in a write), `receiver` and `typist`
the two goroutines; each direction of the connection holds at most `Capacity` segments, so a
write may block.  The other end is what the client meets of the server: the handler
that reads and then waits in `sendMsg`, the message loop that receives and then writes to
this client, the close and the break of the connection.  Reads take any number of
segments that have arrived.

**CommandParser, Validation.**  `ParseCommand` as a recursive function (`Turns`): the
result after so many turns of its loop, each of which takes an option and its value
(`ParsePair`); `ValidateEmail` over kinds of characters.  Both have a second definition, of what
a user may expect; `CommandsParsed` and `PlainEmailsValidated` say that the two agree on
`Lines` and `Addresses`, which `MCReader` and `MCLogin` enumerate and `InputProofs` leaves open.  These are the same in every state; that the process has not
panicked, `panic = NoPanic`, only makes state predicates of the two.  The command lines the
clients of the other runs type are built with `ParseCommand`.

`MCReader`, `MCLogin`, `MCBackend`, `MCSession` and `MCRedis` give the constants values; `Client` has only
numbers.  Definitions that
begin with a comment "Faulty" are plausible bugs (a dropped guard, a swapped order, a
missing wait) kept beside the definition they would replace: each property of a
passing run is violated when the definition named in `PROJECT.json` is replaced by its
faulty form, which shows that the property depends on the code.

### Abstractions

* A connection is its address; an address is not used again while it is in the map.
* In `Reader`, inputs are lines, each classified as `ParseCommand` and `Atoi` would, and a write
  to an open socket succeeds at once.  Segments that hold two lines and writes that
  block are in `Client`, which has the server's side in outline.
* In `RedisBackend` a command whose reply was lost is one that was executed or one
  that was not, since no method looks at the error of a write; a query that fails reads
  as "no" or "empty".  A name is never equal to a message id (`RedisAssumption`).
* Which clients read a system message is recorded for the history shown on entering only, so
  the broadcast of any other is no step of its own.
* An e-mail address is *plain* when its local part is not quoted, it has no comments and is ASCII;
  the characters the others need are all of kind "other", which the code accepts nowhere.
* A message's contents are its number in the history (`Len(chatHistory) + 1` when
  it is stored), so no two messages are equal and a repetition can be seen.
* Formatting, times, metrics, log output, channel descriptions and creators are left
  out, and so is the flag `_DEBUG_SkipUserdataProcessing`, which is never set.

## 3. The runs

All runs say `CHECK_DEADLOCK FALSE`: the process really stops, at a panic or when
every handler is done, some handlers really block for good (section 5), and users and
callers may do nothing more.

| run | instance | what it shows | bounds |
|---|---|---|---|
| `Storage` | `BackendSpec` | messages are where they were sent, accounts persist, histories grow | 2 names (participants and channels), 2 passwords, 3 messages |
| `StorageLogin` | same | *violated*: `RegisteredCanLogIn` | same |
| `Login` | `Spec`, two clients, all orders of their lines | connected means registered, under one's own password, alone; nothing but the storage panics; the name of a connected client is final; who leaves the dialogue by `:menu` stays out; plain e-mail addresses are validated as the comments say | 1 name to fight over, 2 passwords, menu option 1 and `:menu`, hang-ups and idle timers; no messages |
| `Channels` | from a state with one participant in the chat and one stranger in the menu | strangers never speak, selections stay valid, why `GetChatHistory` panics, a handler that nobody receives from hangs for good, the inductive invariant `IInv`; commands are parsed as expected | 2 channel names, 1 message, the menu options 1, 3 and 4, `:menu`, `:history` with and without a channel |
| `Chat` | two participants chat, a third enters | nothing stored after the mark is missed, each sender's messages arrive without gaps and in order, at most one of each is read twice | 2 messages; somebody is left who is not disconnecting (`OneStays`) |
| `Live` | `FairSpec`, from `Init` | the four liveness properties | 1 participant and 1 visitor, 1 message |
| `IdleHang` | same | *violated*: `IdleConnectionIsDropped` | same |
| `Session` | `SessionSpec`, from `Init` | the order of the shutdown, that nobody new gets into the chat during it, a session held up by one handler that hangs, the chat room implemented | 1 participant, 1 visitor, 1 message |
| `Shutdown` | `FairSessionSpec`, the same | *violated*: `ShutdownEnds` | same |
| `Countdown` | as `Session` | *violated*: `CountdownIffEmpty` | same |
| `Redis` | `RedisSpec` | who was registered undisturbed logs in; what is listed is whole; messages stay, in their channel; what a read panics on | 2 names, one of them "general"; 3 calls, 2 seconds, 1 crash, 1 lost command |
| `Client` | `ClientSpec` | nothing lost or repeated in either direction, retries, the message loop is freed, a gridlock stays, the client ends | 1 segment in flight each way, 3 messages from the server, 3 lines, 2 retries |

`ChannelInit` and `ChatInit` start where `Init` leads after the login dialogues;
`LaterInit` spells out that state, which `Init` reaches.  The dialogues themselves are the
subject of `Login`; starting after them keeps the other two instances small.

Why the bounds are enough.  Races in the login are between two clients for one name: a
third client or a second name adds no new conflict, since each step touches one account and
one connection.  A channel conflict needs two names (the key and the new name), and
selection needs two channels, because index 0 is refused.  A message can be in three places
when a client enters: before its history, between history and mark, after the mark; two
messages by one or two senders give every pair of places.  `MaxMessages` bounds messages
stored *and* lines typed that are about to be stored (`MessageBudget`), so the bound never
stops a handler half way.  `OneStays` cuts the behaviours of `Chat` off once all three
clients are on their way out, when nobody is left to read anything more.  Every counter is
bounded by `MaxMessages`; there are no other unbounded quantities.

In Redis every exception of a property needs at most three calls (register, create a channel
of the name, delete it; two messages of one second and one of another), two names tell
a channel from its namesake and "general" from the rest, and the proofs cover
the rest.  In the client one segment each way is enough to block a write; three messages
put one on the screen, one in the receiver's hand and one in flight.  The two pure functions
are compared with what they should do in `Channels` and `Login`, once for the whole run
since no state changes them: five commands with up to four
arguments, all addresses of five characters and those of dots and letters of seven, with a
bound of four on the local part in place of 64.

Symmetry.  `Login` permutes the connections (their inputs are equal) and the passwords.
`Chat` exchanges the two participants together with their names, a
permutation of the initial state.  `Storage` permutes names and passwords.  No
run with a liveness property uses symmetry; the action properties of `Login` and
`Storage` compare a step's two ends and are symmetric themselves.

### Fairness

`FairSpec` assumes, for each connection,

* weak fairness of `Handler(c)`: a runnable goroutine is scheduled;
* strong fairness of `ProcessMessages(c)`: the message loop finishes its broadcast and comes to
  take the message of a blocked sender, although it has others to serve in between.  A Go
  channel queues its senders in order and a select chooses among ready channels at
  random, so no sender is passed over for ever;
* weak fairness of `IdleProceeds(c)`: the idle goroutine, once its timer has fired or its context
  is cancelled, goes on.

The second is a condition on the clients and on the session, not on the scheduler alone: the loop
comes back from every write, so clients read what they are sent (one that does not holds the loop,
since `connection.go:157` sets no deadline; module Client looks at how far a client that does read
frees it), and the shutdown timer has not fired (after that the loop is gone).  The properties of `Live` are about
a session in which both hold.

`SessionFairness` assumes the same of the session's steps, with the loop's guard in them, weak
fairness of `Run`'s `Stop`, of the shutdown goroutine and of the loop's send to it, and strong
fairness of the loop's receipt of the tick.  `AcceptFails` has none: nothing in the program makes
`Accept` fail while the listener is open; nor has `AcceptConn`.

`ClientFairness` assumes weak fairness of each goroutine's steps, on both sides.  The branches of
`Run`'s select have strong fairness: a branch may be ready only now and then (the context
is not, but the flood of blank lines after the end of the input makes another branch
ready again and again), and Go chooses at random among those that are ready.  `Type`, `EndInput`,
`ServerCloses`, `LinkBreaks` and `InputFails` have none.  Under it `LoopIsFreed` says that the
server's only loop comes back from a write to this client, with one exception that the
model reaches and the property names: `Gridlock`, when both directions are full and the client
writes to a handler that waits for the loop that waits for the client.  `GridlockStays` says that
it is one: no step but the end of the connection leads out of it.

Clients owe nothing: no line, no hang-up is ever due, and neither is an idle
timer.  The properties therefore speak of what follows once something has begun.  Those of
`Live` say "or the process panics".

## 4. The proofs

Eight modules; all constants are arbitrary.  The assumptions are those the modules name:
`TextsAssumption` (the empty text is no member of `Texts`, valid texts are texts),
`InputAssumption` (clients type lines), `MaxMessagesAssumption`, `RedisAssumption` (bounds are
numbers, a name is no message id), `ClientAssumption` (bounds are numbers, a connection
holds at least one segment).

**ReaderProofs** proves `TypeOK` of the initial state and preserved by each
action, one lemma per component of the state, and then `Spec => []IInv` (`Invariant`).  `IInv`
is the conjunction of

* `TypeOK`;
* `HandlerInv`: for each connection, which points of the handler go with being in the
  map, with the state of the dialogue, with being connected and with an idle
  goroutine.  Being in the map at every point before `checkEmpty` is why
  `removeConn` and `markAsConnected` never panic; a handler that is being logged in is in
  the state of registration because nobody gets past `AuthParticipant`, which compares a
  hash with its own hash (lemma `NobodyAuthenticates`);
* `AccountInv`: from `Register` on - before the mark - the account under the
  connection's name is its own, and no other connection holds it.  Without the two
  points in between, uniqueness is not inductive;
* `CheckedInv`: what a handler has tested before it calls the storage still holds of its own
  connection;
* `OnlyBackendPanics`, `HistoryPanicExplained`, `SelectionIsValid`,
  `SendersAreRegistered`.  The last needs the
  idle goroutine: a stranger can reach the state that accepts messages, but only
  participants have a goroutine that receives from `abortConnectionTimeout`.

From it follow the invariants `TypeCorrect`, `ConnectedRegistered`,
`OneConnectionPerName`, `PanicsOfTheStorage`, `HistoryPanicsHaveTwoCauses`, `SelectionsStayValid`,
`OnlyParticipantsSpeak`, and the action properties `NamesAreFixed` (the lock-free reads of
a participant's name are safe), `LockedOut` and `HandlersHang` (`HungForGood`).  The last is the
general form of what the run `IdleHang` shows, and of what keeps a stranger silent: a handler
that has read a message when its idle goroutine is in no select makes no step ever again (lemma
`HungSteps`), no step of anybody else sets it free (`HungStep`), and `HandlerInv` has its
connection in the map.  The step of the proof is one lemma per
part of `IInv`, with one case per action that touches it; frame lemmas say which
actions leave what alone.  `ChannelsStayEmpty` says what `BuildChatMsg` comes to: no message ever
gets into a channel's own history, whatever channels the clients create and select.

**DeliveryProofs** proves `LiveMessagesArrive` (`LiveDelivery`) and `RepeatedOnce`
(`AtMostOneRepeated`), for any number of participants and messages.  Both speak of the order
of messages in three sequences; since a message's contents are its position in the
history, order is a comparison of numbers and needs no induction over sequences.  Neither is
inductive.  `DeliveryInv` (theorem `Delivery`) adds what they rest on:

* `SpeakerInv`: a message in `sendMsg` is in the history, under the name of the participant
  who is blocked on it, and that participant has stored nothing since;
* `OneInHand`, `HeardInv`: the loop has one message in its hand at most, stored by a participant who
  has stored at most one more since, the one it is blocked on; and nobody has been shown that
  one, since the history goes through the same loop.  Without this a client could be shown two
  messages of one sender that it then reads again;
* `ReceivedInv`: what was received is stored, no longer on its way, and in the order
  of the history for each sender.  A message that lands is the latest of its sender;
* `ShownInv`: what a client was shown, or is about to be, is a beginning of the history, and a
  message received although it was shown is the last of its sender shown.

`AirInv` (theorem `NothingLaterIsMissed`) adds that who is connected, in the map and has an open
socket has received what others stored after it was marked (`entered`), and everything a sender
stored after the first message received from that sender, but for what is on its way, in a
`sendMsg` or in the loop's hand.  What is stored between the reading of the history and the mark may
be missed.  Here the names matter: the broadcast
leaves out one connection whose name equals the sender's *ignoring case*, and only if letter case
tells no two accounts apart (`NamesApart`) is that the sender itself - by `UniqueUsernames`, and
because an account's connection stays connected while it sends (`OnlySenderSkipped`).
`NamesApart` is a condition inside the property, on the accounts of the state, not an assumption
on the constants.

**RoomProofs** proves `HandlersImplementRoom`: under the mapping above, and given `IInv`, every
action of `Reader` is one action of `ChatRoom` or a stutter.  The invariant is what makes the
steps legal in the room: `Register` finds the name free because it would have panicked
otherwise, and `OnAcceptMessages` is inside because only those inside have an idle
goroutine.

**SessionProofs** proves `ShutdownOrdered`: message loop, shutdown goroutine and `Run` leave in
this order, whatever the handlers do.  `SessionInvariant` is the types of the
session's variables and the parts of `IInv` that hold in every state, also after `Run` has
panicked (the others speak of a state without a panic of the session); the lemmas about the reader's actions are used again, since the
session adds guards and variables to them.  From it follow `SessionTypes`,
`NobodyEnters` (`NobodyEntersInShutdown`: whoever sends stays blocked without the loop,
`SendersWait`, and the mark comes after the sending of the history, `MarkAfterHistory`),
`SessionImplementsRoom` and `HeldUpByOne`
(`HeldUpForGood`): since a handler is about to reset the timer only if it has found the map empty
(`ResetIfEmpty`), one that hangs keeps the session up, whoever comes and goes.  The same lemmas carry what
participants rely on over to the whole session: `SessionDelivers` (`LiveDelivery` and
`AtMostOneRepeated`), `SessionParticipants` (`ConnectedIsRegistered` and
`UniqueUsernames`) and `SessionNamesAreFixed`.

**BackendProofs** proves, for any callers of the storage, `SeparateHistories`,
`AccountsAreKept`, `HistoriesAreKept` (`HistoriesGrow`) and `NobodyLogsIn`: `AuthParticipant`
refuses everybody in every state, so what the run `StorageLogin` refutes fails from the first
account on, for every account.

**RedisProofs** proves `RedisInvariant`, for any number of names, calls, crashes and failures.
`RedisInv` adds three facts to the properties: a call that has lost no command has done
what its program says up to its step (`InProgress`), a call that is not blind registers a
name that is free (`Fresh`), and without failures no call is blind or incomplete
(`Quiet`).  From it follow `RegisteredPeopleLogIn`, `CrashesLeaveListedWhole`,
`MessagesAreKept` and `ReadPanicsExplained`.  `MessagesStayInTheirChannel`
(`MessagesInTheirChannel`) has an invariant of its own, `FilingInv`: a record was written by
messages with its id, and an id is in a history because one of them was sent there.

**ClientProofs** proves `ClientInvariant`: `Stages` ties what each goroutine has in hand to where
it stands, the cancelled context to the end of the receiver, and that to a
connection that is broken or read out.  From it follow `NothingUnread`, `NothingUnsent` and
`RetriesAreCounted`, for any capacity of the connection.  `GridlockForGood` (`GridlockStays`)
needs no invariant: each of the other steps needs a goroutine that waits.

**InputProofs** is about what clients type.  `PlainEmailsValidate` (`PlainEmailsValidated`): for
every sequence of characters and every bound on the local part, `ValidateEmail` accepts the plain
addresses its comments allow and no local part they forbid.  The code looks at the character after a dot by
index and counts the @s; the comments speak of parts separated by single dots.  The lemmas
`SingleDots`, `OnlyAt` and `DomainPasses` relate the two.

`CommandsParse` (`CommandsParsed`): for any arguments, and lines of any length,
`ParseCommand` accepts the lines that are `WellFormed`, with the last value given for each option.
The invariant of the loop is `AfterTurn`: no error after some turns means that the line is
`Accepted` so far, that `Matched` says whether there was a turn, and that channel and period are
`LastGiven` so far.  `Matched` survives from one turn to the next, so the first option must be
known and a later one need not be; that this never accepts an unknown first option is what
`TurnStep` shows.  The library's induction theorems take an operator, which the provers cannot
instantiate; `Induct` takes a set instead and gets its least missing number from `WFMin`, whose
parameters are sets.  `TurnsExist` builds the function `Turns` with it and `TurnsUnfold` gives its
equation.

Only model-checked: the liveness properties, for which the prover has neither fairness nor
`ENABLED`.

## 5. Where the code disagrees with its documents

Four of these are runs that TLC refutes; `PROJECT.json` quotes the lines.

1. `StorageLogin`: nobody who has registered can log in; `AuthParticipant`
   overwrites its parameter with the stored participant and hashes the hash.
2. `IdleHang`: an idle timer that fires between a read and the send on
   `abortConnectionTimeout` leaves the handler blocked and its connection in the map for
   good, and with it the session up (`HeldUpForGood`).
3. `Shutdown`: a session whose timer has fired never ends.  The shutdown goroutine sends the signal
   before it closes the listener, and `Run` receives it only after `Accept` has failed, which
   is what the close is for.  Meanwhile the loop is gone, and who connects blocks in its first
   `sendMsg` (`NobodyEntersInShutdown` says that nobody new gets into the chat).
4. `Countdown`: `Run` stops the shutdown timer after it has started the handler, so a client
   that leaves at once has its reset undone, and the timer stands still with nobody
   connected.  (The opposite happens, too: a handler that found the map empty resets the timer after
   the next client's `Stop`.  The run shows the first.)

Seen while modelling, without a run of their own: `BuildChatMsg` tests the wrong variable, so
that every message goes to the general chat, whichever channel its sender has created or selected
(theorem `ChannelsStayEmpty`); the login dialogue never asks for the
password; the idle notice is written to a socket that is already closed; menu option 6
does nothing; a client who never logged in may create channels; the underscore is
no special character; the domain of an e-mail address is hardly looked at, and quoted local parts,
comments and letters outside ASCII are refused in one; the client
dials once more than told; timeouts given with a unit overflow.

Some properties hold only with exceptions that the code really has, and name them.
`RegisteredLogsIn`: deleting a channel takes the account of the participant of the same
name with it, and a failing `SIsMember` lets somebody register over an account.
`MessagesInTheirChannel`: two messages of one sender within a second are one record.
`LiveDelivery`: names that differ in letter case only are one to the broadcast.
`LoopIsFreed`: the message loop, the handler and the client may wait for each other.

## 6. Not modelled

* **dynamodb backend**: a stub, every method returns a constant.
* **Names, passwords and hashes**: regular expressions and nothing else; the models take the
  sets of valid texts as constants.
* **Command lines and test set-up**: flags, test data, containers.  The overflow of a timeout
  is a finding; a timer in the models may fire at any moment.
* **Formatting, times, metrics, log output**, among it `:history` using the history as a
  format string.
* **`deleteParticipant` and `deleteMessages`** of the Redis backend: "not a part of a public
  API yet", called by nobody.
* **An address used again** while the older connection is still in the map, and names that
  differ in letter case only: `BroadcastChatMessage` models the choice the code makes then,
  and no run has such names.
* **An abstract storage** above both backends.  They do not promise the same: one
  keeps its histories in order and lets nobody log in, the other is the reverse.

What could follow: the reader over the Redis backend instead of the one in memory, whose methods
would then be as many steps as they send commands.
