------------------------------- MODULE ChatRoom -------------------------------
(***************************************************************************)
(* What the server promises those who talk through it, without goroutines, *)
(* sockets, dialogues or locks: a room that is entered once, with a new    *)
(* account, under a name nobody else has, and a log of what was said to    *)
(* which only those inside add, under the name they entered with.          *)
(*                                                                         *)
(* There is no way in for those who have an account already: with the      *)
(* storage in memory nobody passes AuthParticipant.                        *)
(***************************************************************************)
EXTENDS Naturals, Sequences

CONSTANTS
  Clients,      \* those who may come
  Names,        \* the names one may take
  Credentials,  \* what an account may hold for its password
  Nobody        \* the name of those who have none

VARIABLES
  accounts,  \* name -> credential
  place,     \* where each client is
  name,      \* the name of each client on its way in or inside
  log,       \* what was said, in order
  down       \* the server has gone down, taking everybody with it

vars == <<accounts, place, name, log, down>>

Init ==
  /\ accounts = [n \in {} |-> Nobody]
  /\ place = [c \in Clients |-> "outside"]
  /\ name = [c \in Clients |-> Nobody]
  /\ log = <<>>
  /\ down = FALSE

SignUp(c) ==
  /\ place[c] = "outside"
  /\ \E n \in Names \ DOMAIN accounts, credential \in Credentials :
       /\ accounts' = [m \in DOMAIN accounts \cup {n} |->
                         IF m = n THEN credential ELSE accounts[m]]
       /\ name' = [name EXCEPT ![c] = n]
  /\ place' = [place EXCEPT ![c] = "entering"]
  /\ UNCHANGED <<log, down>>

Enter(c) ==
  /\ place[c] = "entering"
  /\ place' = [place EXCEPT ![c] = "inside"]
  /\ UNCHANGED <<accounts, name, log, down>>

\* Exactly one message is added, and it bears the speaker's name.
Speak(c) ==
  /\ place[c] = "inside"
  /\ log' # <<>>
  /\ LET said == log'[Len(log')]
     IN log' = Append(log, said) /\ said.Sender = name[c]
  /\ UNCHANGED <<accounts, place, name, down>>

\* For good, from outside or from inside.
Leave(c) ==
  /\ place[c] \in {"outside", "inside"}
  /\ place' = [place EXCEPT ![c] = "gone"]
  /\ name' = [name EXCEPT ![c] = Nobody]
  /\ UNCHANGED <<accounts, log, down>>

Crash ==
  /\ down' = TRUE
  /\ UNCHANGED <<accounts, place, name, log>>

Next ==
  /\ ~down
  /\ \/ \E c \in Clients : SignUp(c) \/ Enter(c) \/ Speak(c) \/ Leave(c)
     \/ Crash

Spec == Init /\ [][Next]_vars

=============================================================================
