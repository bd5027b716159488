------------------------------ MODULE MCSession ------------------------------
(***************************************************************************)
(* An instance of module Session for TLC: one client registers and chats,  *)
(* the other leaves from the first menu.                                   *)
(***************************************************************************)
EXTENDS Session, TLC

CONSTANTS c1, c2, u, k, none

SessionTexts == {u, k}
Distinct == [t \in Texts \cup {NoText} |-> t]

Number(n, as) == [kind |-> "number", text |-> as, num |-> n]
Typed(t) == [kind |-> "text", text |-> t, num |-> 0]

SessionInput == [c \in Conns |->
  IF c = c1 THEN {Number(1, k), Typed(u), Typed(k)} ELSE {Number(7, k)}]

=============================================================================
