------------------------------ MODULE Validation ------------------------------
(***************************************************************************)
(* validation.ValidateEmail.  An address is a sequence of kinds of         *)
(* characters.  What validates names and passwords is a pair of regular    *)
(* expressions each, and stays a constant of module Types.                 *)
(***************************************************************************)
EXTENDS Types

CONSTANTS
  MaxLocalPart,  \* 64
  Addresses      \* the addresses PlainEmailsValidated is about

(***************************************************************************)
(* Kinds of characters in an e-mail address.  "alnum" is a letter or a     *)
(* digit, "symbol" one of !#$%&'*+/=?^_`{|}~, "other" one the code accepts *)
(* nowhere: among them the quotation marks around a local part, the        *)
(* parentheses of a comment and letters that are not ASCII, all of which   *)
(* the comments allow.  A colon is left out: it is as good as a letter in  *)
(* the domain, and as bad as a bracket before it.                          *)
(***************************************************************************)
LocalKinds == {"alnum", "symbol", "hyphen", "dot"}
DomainKinds == {"alnum", "hyphen", "dot", "open", "close"}
EmailKinds == LocalKinds \cup DomainKinds \cup {"at", "other"}

HasPrefix(text, kind) == text # <<>> /\ text[1] = kind
HasSuffix(text, kind) == text # <<>> /\ text[Len(text)] = kind

Consists(text, kinds) == \A i \in DOMAIN text : text[i] \in kinds

\* Faulty: a dot is compared with the character after the next.
NoDoubleDotOffByOne(local) ==
  \A i \in 1 .. Len(local) - 2 : local[i] = "dot" => local[i + 2] # "dot"

NoDoubleDot(local) ==
  \A i \in 1 .. Len(local) - 1 : local[i] = "dot" => local[i + 1] # "dot"

ValidateEmail(email) ==
  LET ats == {i \in DOMAIN email : email[i] = "at"}
      at == CHOOSE i \in ats : TRUE
      local == SubSeq(email, 1, at - 1)
      domain == SubSeq(email, at + 1, Len(email))
  IN /\ Cardinality(ats) = 1
     /\ ~HasPrefix(local, "dot") /\ ~HasSuffix(local, "dot")
     /\ NoDoubleDot(local)
     /\ Len(local) \in 1 .. MaxLocalPart /\ Consists(local, LocalKinds)
     /\ ~HasPrefix(domain, "hyphen") /\ ~HasSuffix(domain, "hyphen")
     /\ domain # <<>> /\ Consists(domain, DomainKinds)
     /\ HasPrefix(domain, "open") => HasSuffix(domain, "close")

-----------------------------------------------------------------------------
(***************************************************************************)
(* What the comments promise of a plain address, one whose local part is   *)
(* not quoted and that has no comments: before the @, words separated by   *)
(* single dots; after it, labels separated by single dots, none of which   *)
(* starts or ends with a hyphen, or an address in brackets.                *)
(***************************************************************************)
Separated(text) ==
  LET cuts == {0, Len(text) + 1} \cup {i \in DOMAIN text : text[i] = "dot"}
  IN \A i, j \in cuts : i < j => j - i > 1

LocalPart(text) ==
  Separated(text) /\ Consists(text, LocalKinds) /\ Len(text) <= MaxLocalPart

Hostname(text) ==
  /\ Separated(text) /\ Consists(text, {"alnum", "hyphen", "dot"})
  /\ \A i \in DOMAIN text : text[i] = "hyphen" =>
       /\ i \in 2 .. Len(text) - 1
       /\ text[i - 1] # "dot" /\ text[i + 1] # "dot"

Literal(text) ==
  /\ Len(text) > 2 /\ text[1] = "open" /\ text[Len(text)] = "close"
  /\ Consists(SubSeq(text, 2, Len(text) - 1), {"alnum", "dot"})

\* Every plain address the comments allow is accepted.  Of what is accepted, the
\* local part is plain, too; the domain need not be.
PlainEmailAsDocumented(email) ==
  LET Splits(Ok(_)) ==
        \E i \in DOMAIN email :
          /\ email[i] = "at" /\ LocalPart(SubSeq(email, 1, i - 1))
          /\ Ok(SubSeq(email, i + 1, Len(email)))
      Allowed(domain) == Hostname(domain) \/ Literal(domain)
      Plausible(domain) == domain # <<>> /\ Consists(domain, DomainKinds)
  IN /\ Splits(Allowed) => ValidateEmail(email)
     /\ ValidateEmail(email) => Splits(Plausible)

Misvalidated == {email \in Addresses : ~PlainEmailAsDocumented(email)}

\* ValidateEmail accepts every plain address its comments allow and no local part that
\* they forbid, although it compares characters at indices of its own.  It is not what
\* they say of quoted local parts and of comments, which it rejects.  (Of a process
\* that runs; the addresses are the same in every state.)
PlainEmailsValidated == panic = NoPanic => Misvalidated = {}

=============================================================================
