------------------------------- MODULE MCLogin --------------------------------
(***************************************************************************)
(* The instance of module Reader for the login dialogue, and the e-mail    *)
(* addresses typed in it, of module Validation.                            *)
(***************************************************************************)
EXTENDS MCReader, Validation

\* Two clients compete for one name, with two passwords.
LoginTexts == {u, k, l}
LoginNames == {u}
LoginPasswords == {k, l}
LoginInput == [c \in Conns |->
  {Number(1, none), Command(<<":menu">>)} \cup {Typed(t) : t \in LoginTexts}]

LoginSymmetry == Permutations(Conns) \cup Permutations(LoginPasswords)

-----------------------------------------------------------------------------
(***************************************************************************)
(* Addresses of up to five characters of any kind, and of up to seven when *)
(* it comes to dots and to the length of the local part, at most four.     *)
(***************************************************************************)
AddressesOver(kinds, length) == UNION {[1 .. n -> kinds] : n \in 0 .. length}

AnyAddresses ==
  AddressesOver(EmailKinds, 5) \cup AddressesOver({"alnum", "dot", "at"}, 7)

=============================================================================
