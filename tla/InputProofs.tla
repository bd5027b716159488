----------------------------- MODULE InputProofs -----------------------------
(***************************************************************************)
(* What clients type, of any length: e-mail addresses are accepted as the  *)
(* comments of ValidateEmail say, and the lines of commands as the table   *)
(* of commands says, whatever the turns of ParseCommand's loop made of     *)
(* their arguments before.                                                 *)
(***************************************************************************)
EXTENDS Validation, CommandParser, FiniteSetTheorems, WellFoundedInduction, TLAPS

-----------------------------------------------------------------------------
\* ValidateEmail.

\* Positions in a part of an address.
LEMMA Parts ==
  ASSUME NEW S, NEW email \in Seq(S), NEW i \in DOMAIN email
  PROVE  LET local == SubSeq(email, 1, i - 1)
             domain == SubSeq(email, i + 1, Len(email))
         IN /\ local \in Seq(S) /\ Len(local) = i - 1
            /\ \A j \in 1 .. i - 1 : local[j] = email[j]
            /\ domain \in Seq(S) /\ Len(domain) = Len(email) - i
            /\ \A j \in 1 .. Len(email) - i : domain[j] = email[i + j]
OBVIOUS

\* An @ that is the only one is the one the code finds.
LEMMA OnlyAt ==
  ASSUME NEW email, NEW i \in DOMAIN email, email[i] = "at",
         \A j \in DOMAIN email : email[j] = "at" => j = i
  PROVE  LET ats == {j \in DOMAIN email : email[j] = "at"}
         IN Cardinality(ats) = 1 /\ (CHOOSE j \in ats : TRUE) = i
<1>. DEFINE ats == {j \in DOMAIN email : email[j] = "at"}
<1>1. ats = {i}
  OBVIOUS
<1>2. Cardinality({i}) = 1
  BY FS_Singleton
<1>. QED BY <1>1, <1>2

\* Words separated by single dots: no dot at either end, and no two in a row.
LEMMA SingleDots ==
  ASSUME NEW S, NEW text \in Seq(S)
  PROVE  Separated(text) <=>
           /\ text # <<>> /\ ~HasPrefix(text, "dot") /\ ~HasSuffix(text, "dot")
           /\ NoDoubleDot(text)
<1>. DEFINE cuts == {0, Len(text) + 1} \cup {i \in DOMAIN text : text[i] = "dot"}
<1>0. DOMAIN text = 1 .. Len(text) /\ Len(text) \in Nat
  OBVIOUS
<1>1. ASSUME Separated(text)
      PROVE  /\ text # <<>> /\ ~HasPrefix(text, "dot") /\ ~HasSuffix(text, "dot")
             /\ NoDoubleDot(text)
  <2>1. \A i, j \in cuts : i < j => j - i > 1
    BY <1>1 DEF Separated
  <2>2. text # <<>>
    BY <1>0, <2>1
  <2>3. text[1] # "dot"
    BY <1>0, <2>1, <2>2
  <2>4. text[Len(text)] # "dot"
    BY <1>0, <2>1, <2>2
  <2>5. ASSUME NEW i \in 1 .. Len(text) - 1, text[i] = "dot", text[i + 1] = "dot"
        PROVE  FALSE
    <3>1. i \in cuts /\ i + 1 \in cuts
      BY <1>0, <2>5
    <3>. QED BY <2>1, <2>5, <3>1
  <2>. QED BY <2>2, <2>3, <2>4, <2>5 DEF HasPrefix, HasSuffix, NoDoubleDot
<1>2. ASSUME text # <<>>, ~HasPrefix(text, "dot"), ~HasSuffix(text, "dot"),
             NoDoubleDot(text)
      PROVE  Separated(text)
  <2>1. Len(text) > 0
    BY <1>2
  <2>2. text[1] # "dot" /\ text[Len(text)] # "dot"
    BY <1>2 DEF HasPrefix, HasSuffix
  <2>3. ASSUME NEW i \in cuts, NEW j \in cuts, i < j
        PROVE  j - i > 1
    <3>1. i \in Int /\ j \in Int
      BY <1>0
    <3>. SUFFICES ASSUME j = i + 1 PROVE FALSE
      BY <2>3, <3>1
    <3>2. CASE i = 0
      BY <1>0, <2>1, <2>2, <3>2
    <3>3. CASE i \in DOMAIN text /\ text[i] = "dot"
      <4>1. CASE j = Len(text) + 1
        BY <1>0, <2>2, <3>3, <4>1
      <4>2. CASE j \in DOMAIN text /\ text[j] = "dot"
        BY <1>0, <1>2, <3>3, <4>2 DEF NoDoubleDot
      <4>. QED BY <1>0, <3>3, <4>1, <4>2
    <3>. QED BY <1>0, <2>3, <3>2, <3>3
  <2>. QED BY <2>3 DEF Separated
<1>. QED BY <1>1, <1>2

\* There is no @ in what the comments allow on either side of one.
LEMMA NoAtInParts ==
  ASSUME NEW S, NEW text \in Seq(S),
         LocalPart(text) \/ Hostname(text) \/ Literal(text)
  PROVE  \A j \in 1 .. Len(text) : text[j] # "at"
<1>1. CASE LocalPart(text) \/ Hostname(text)
  BY <1>1 DEF LocalPart, Hostname, Consists, LocalKinds
<1>2. CASE Literal(text)
  <2>. DEFINE inner == SubSeq(text, 2, Len(text) - 1)
  <2>1. /\ Len(text) > 2 /\ text[1] = "open" /\ text[Len(text)] = "close"
        /\ \A j \in DOMAIN inner : inner[j] \in {"alnum", "dot"}
    BY <1>2 DEF Literal, Consists
  <2>2. /\ DOMAIN inner = 1 .. Len(text) - 2
        /\ \A j \in 1 .. Len(text) - 2 : inner[j] = text[j + 1]
    BY <2>1
  <2>3. ASSUME NEW j \in 2 .. Len(text) - 1
        PROVE  text[j] \in {"alnum", "dot"}
    <3>1. j - 1 \in 1 .. Len(text) - 2 /\ (j - 1) + 1 = j
      BY <2>1
    <3>. QED BY <2>1, <2>2, <3>1
  <2>. QED BY <2>1, <2>3
<1>. QED BY <1>1, <1>2

\* What the comments allow after the @ passes the code's tests.
LEMMA DomainPasses ==
  ASSUME NEW S, NEW domain \in Seq(S), Hostname(domain) \/ Literal(domain)
  PROVE  /\ ~HasPrefix(domain, "hyphen") /\ ~HasSuffix(domain, "hyphen")
         /\ domain # <<>> /\ Consists(domain, DomainKinds)
         /\ HasPrefix(domain, "open") => HasSuffix(domain, "close")
<1>1. CASE Hostname(domain)
  <2>1. domain # <<>>
    BY <1>1, SingleDots DEF Hostname
  <2>2. domain[1] # "hyphen" /\ domain[Len(domain)] # "hyphen"
    <3>1. 1 \in DOMAIN domain /\ Len(domain) \in DOMAIN domain
      BY <2>1
    <3>2. \A j \in DOMAIN domain : domain[j] = "hyphen" => j \in 2 .. Len(domain) - 1
      BY <1>1 DEF Hostname
    <3>. QED BY <3>1, <3>2
  <2>3. \A j \in DOMAIN domain : domain[j] \in {"alnum", "hyphen", "dot"}
    BY <1>1 DEF Hostname, Consists
  <2>. QED BY <2>1, <2>2, <2>3 DEF HasPrefix, HasSuffix, Consists, DomainKinds
<1>2. CASE Literal(domain)
  <2>. DEFINE inner == SubSeq(domain, 2, Len(domain) - 1)
  <2>1. /\ Len(domain) > 2
        /\ domain[1] = "open" /\ domain[Len(domain)] = "close"
        /\ \A j \in DOMAIN inner : inner[j] \in {"alnum", "dot"}
    BY <1>2 DEF Literal, Consists
  <2>2. /\ DOMAIN inner = 1 .. Len(domain) - 2
        /\ \A j \in 1 .. Len(domain) - 2 : inner[j] = domain[j + 1]
    BY <2>1
  <2>3. ASSUME NEW j \in 2 .. Len(domain) - 1
        PROVE  domain[j] \in {"alnum", "dot"}
    <3>1. j - 1 \in 1 .. Len(domain) - 2 /\ (j - 1) + 1 = j
      BY <2>1
    <3>. QED BY <2>1, <2>2, <3>1
  <2>4. \A j \in DOMAIN domain : domain[j] \in DomainKinds
    BY <2>1, <2>3 DEF DomainKinds
  <2>. QED BY <2>1, <2>4 DEF HasPrefix, HasSuffix, Consists
<1>. QED BY <1>1, <1>2

-----------------------------------------------------------------------------
\* For every address and every limit on the length of its local part, the code accepts
\* what the comments allow, and no local part that they forbid.
LEMMA EmailValidated ==
  ASSUME MaxLocalPart \in Nat, NEW email \in Seq(EmailKinds)
  PROVE  PlainEmailAsDocumented(email)
<1>. DEFINE ats == {i \in DOMAIN email : email[i] = "at"}
            Local(i) == SubSeq(email, 1, i - 1)
            Domain(i) == SubSeq(email, i + 1, Len(email))
<1>1. ASSUME NEW i \in DOMAIN email, email[i] = "at", LocalPart(Local(i)),
             Hostname(Domain(i)) \/ Literal(Domain(i))
      PROVE  ValidateEmail(email)
  <2>1. /\ Local(i) \in Seq(EmailKinds) /\ Len(Local(i)) = i - 1
        /\ \A j \in 1 .. i - 1 : Local(i)[j] = email[j]
        /\ Domain(i) \in Seq(EmailKinds) /\ Len(Domain(i)) = Len(email) - i
        /\ \A j \in 1 .. Len(email) - i : Domain(i)[j] = email[i + j]
    BY Parts
  <2>2. ASSUME NEW j \in DOMAIN email, email[j] = "at"
        PROVE  j = i
    <3>1. /\ \A k \in 1 .. Len(Local(i)) : Local(i)[k] # "at"
          /\ \A k \in 1 .. Len(Domain(i)) : Domain(i)[k] # "at"
      <4>. HIDE DEF Local, Domain
      <4>. QED BY <1>1, <2>1, NoAtInParts
    <3>. HIDE DEF Local, Domain
    <3>2. CASE j < i
      <4>1. j \in 1 .. i - 1
        BY <3>2
      <4>. QED BY <2>1, <2>2, <3>1, <4>1
    <3>3. CASE j > i
      <4>1. j - i \in 1 .. Len(email) - i /\ i + (j - i) = j
        BY <3>3
      <4>. QED BY <2>1, <2>2, <3>1, <4>1
    <3>. QED BY <3>2, <3>3
  <2>3. Cardinality(ats) = 1 /\ (CHOOSE j \in ats : TRUE) = i
    BY <1>1, <2>2, OnlyAt
  <2>4. /\ Local(i) # <<>>
        /\ ~HasPrefix(Local(i), "dot") /\ ~HasSuffix(Local(i), "dot")
        /\ NoDoubleDot(Local(i))
        /\ Consists(Local(i), LocalKinds) /\ Len(Local(i)) <= MaxLocalPart
    BY <1>1, <2>1, SingleDots DEF LocalPart
  <2>5. Len(Local(i)) \in 1 .. MaxLocalPart
    BY <2>1, <2>4
  <2>6. /\ ~HasPrefix(Domain(i), "hyphen") /\ ~HasSuffix(Domain(i), "hyphen")
        /\ Domain(i) # <<>> /\ Consists(Domain(i), DomainKinds)
        /\ HasPrefix(Domain(i), "open") => HasSuffix(Domain(i), "close")
    BY <1>1, <2>1, DomainPasses
  <2>. QED BY <2>3, <2>4, <2>5, <2>6 DEF ValidateEmail
<1>2. ASSUME ValidateEmail(email)
      PROVE  \E i \in DOMAIN email :
               /\ email[i] = "at" /\ LocalPart(Local(i))
               /\ Domain(i) # <<>> /\ Consists(Domain(i), DomainKinds)
  <2>. DEFINE at == CHOOSE i \in ats : TRUE
  <2>1. Cardinality(ats) = 1
    BY <1>2 DEF ValidateEmail
  <2>2. /\ ~HasPrefix(Local(at), "dot") /\ ~HasSuffix(Local(at), "dot")
        /\ NoDoubleDot(Local(at))
        /\ Len(Local(at)) \in 1 .. MaxLocalPart /\ Consists(Local(at), LocalKinds)
        /\ Domain(at) # <<>> /\ Consists(Domain(at), DomainKinds)
    BY <1>2 DEF ValidateEmail
  <2>3. at \in ats
    <3>1. ASSUME ats = {} PROVE FALSE
      <4>1. Cardinality(ats) = 0
        BY <3>1, FS_EmptySet
      <4>. HIDE DEF ats
      <4>. QED BY <2>1, <4>1
    <3>. HIDE DEF ats
    <3>. QED BY <3>1
  <2>. HIDE DEF at
  <2>4. Local(at) \in Seq(EmailKinds)
    BY <2>3, Parts
  <2>5. LocalPart(Local(at))
    <3>. HIDE DEF Local
    <3>1. Local(at) # <<>> /\ Len(Local(at)) <= MaxLocalPart
      <4>1. Len(Local(at)) \in 1 .. MaxLocalPart
        BY <2>2
      <4>. QED BY <2>4, <4>1
    <3>2. Separated(Local(at))
      BY <2>2, <2>4, <3>1, SingleDots
    <3>. QED BY <2>2, <3>1, <3>2 DEF LocalPart
  <2>. QED BY <2>2, <2>3, <2>5
<1>. QED BY <1>1, <1>2 DEF PlainEmailAsDocumented

\* ValidateEmail accepts every plain address its comments allow, without quotation marks
\* and without comments, and no local part that they forbid, for addresses of every
\* length and every limit on the local part.
THEOREM PlainEmailsValidate ==
  ASSUME MaxLocalPart \in Nat, Addresses \subseteq Seq(EmailKinds)
  PROVE  PlainEmailsValidated
BY EmailValidated DEF PlainEmailsValidated, Misvalidated

-----------------------------------------------------------------------------
\* ParseCommand.  Induction and recursion are over the turns of its loop.

\* A set that has 0 and with a number its successor, up to n, has all of them.
LEMMA Induct ==
  ASSUME NEW n \in Nat, NEW T, 0 \in T, \A i \in 1 .. n : i - 1 \in T => i \in T
  PROVE  0 .. n \subseteq T
<1>. DEFINE Bad == {i \in Nat : i <= n /\ i \notin T}
            Less == OpToRel(<, Nat)
<1>. SUFFICES ASSUME Bad # {} PROVE FALSE
  OBVIOUS
<1>1. PICK x \in Bad : \A y \in Bad : <<y, x>> \notin Less
  <2>1. IsWellFoundedOn(Less, Nat)
    BY NatLessThanWellFounded
  <2>. HIDE DEF Less
  <2>2. Bad \subseteq Nat OBVIOUS
  <2>. HIDE DEF Bad
  <2>. QED BY <2>1, <2>2, WFMin
<1>2. <<x - 1, x>> \in Less /\ x - 1 \in 0 .. n
  <2>1. x \in Nat /\ x <= n /\ x # 0
    OBVIOUS
  <2>. HIDE DEF Bad
  <2>. QED BY <2>1 DEF OpToRel
<1>3. x - 1 \in T
  <2>. HIDE DEF Less
  <2>. QED BY <1>1, <1>2
<1>4. x \in 1 .. n /\ x \notin T
  <2>. HIDE DEF Less
  <2>1. x \in Nat /\ x <= n /\ x \notin T
    OBVIOUS
  <2>2. x # 0
    BY <2>1
  <2>. QED BY <2>1, <2>2
<1>. QED BY <1>3, <1>4

\* The result before the first turn.
First(arguments) == [NoResult EXCEPT !.command = ToLower[arguments[1]]]

\* Every line has a table of turns.
LEMMA TurnsExist ==
  ASSUME NEW arguments, NEW n \in Nat
  PROVE  \E g : g = [i \in 0 .. n |-> IF i = 0 THEN First(arguments)
                                               ELSE ParsePair(g[i - 1], i, arguments)]
<1>. DEFINE Unfolds(g, m) ==
       g = [i \in 0 .. m |-> IF i = 0 THEN First(arguments)
                                      ELSE ParsePair(g[i - 1], i, arguments)]
     T == {m \in 0 .. n : \E g : Unfolds(g, m)}
<1>1. 0 \in T
  <2>. DEFINE g == [i \in 0 .. 0 |-> First(arguments)]
  <2>1. Unfolds(g, 0)
    OBVIOUS
  <2>. HIDE DEF g, Unfolds
  <2>2. \E gg : Unfolds(gg, 0)
    BY <2>1
  <2>. QED BY <2>2
<1>2. ASSUME NEW m \in 1 .. n, m - 1 \in T PROVE m \in T
  <2>1. PICK g : Unfolds(g, m - 1)
    BY <1>2
  <2>. DEFINE h == [i \in 0 .. m |-> IF i = m THEN ParsePair(g[m - 1], m, arguments)
                                                ELSE g[i]]
  <2>2. \A i \in 0 .. m - 1 :
          g[i] = IF i = 0 THEN First(arguments) ELSE ParsePair(g[i - 1], i, arguments)
    BY <2>1
  <2>3. ASSUME NEW i \in 0 .. m
        PROVE  h[i] = IF i = 0 THEN First(arguments)
                               ELSE ParsePair(h[i - 1], i, arguments)
    <3>1. CASE i = m
       BY <3>1
    <3>2. CASE i # m
       BY <3>2, <2>2
    <3>. QED BY <3>1, <3>2
  <2>4. Unfolds(h, m)
    BY <2>3
  <2>. HIDE DEF h, Unfolds
  <2>. QED BY <2>4
<1>. HIDE DEF T
<1>3. n \in T
  BY <1>1, <1>2, Induct
<1>. QED BY <1>3 DEF T

\* Turns are what their recursive definition says.
LEMMA TurnsUnfold ==
  ASSUME NEW arguments, NEW n \in Nat, n = Len(arguments) \div 2
  PROVE  /\ Turns(arguments)[0] = First(arguments)
         /\ \A i \in 1 .. n :
              Turns(arguments)[i] = ParsePair(Turns(arguments)[i - 1], i, arguments)
<1>. DEFINE Unfolds(g) ==
       g = [i \in 0 .. n |-> IF i = 0 THEN First(arguments)
                                      ELSE ParsePair(g[i - 1], i, arguments)]
<1>1. \E g : Unfolds(g)
  BY TurnsExist
<1>2. Turns(arguments) = CHOOSE g : Unfolds(g)
  BY DEF Turns, First
<1>3. Unfolds(Turns(arguments))
  <2>. HIDE DEF Unfolds
  <2>. QED BY <1>1, <1>2
<1>. QED BY <1>3

\* No command has other options, nor one of them twice.
LEMMA OptionsOf ==
  ASSUME NEW command \in DOMAIN Options
  PROVE  /\ Options[command] \subseteq {"-channel", "-period"}
         /\ Cardinality(Options[command]) \in 0 .. 2
         /\ Cardinality(Options[command]) = 0 <=> Options[command] = {}
         /\ Cardinality(Options[command]) = 2 <=> "-period" \in Options[command]
         /\ "-period" \in Options[command] => "-channel" \in Options[command]
<1>1. \/ Options[command] = {}
      \/ Options[command] = {"-channel"}
      \/ Options[command] = {"-channel", "-period"}
  BY DEF Options
<1>2. /\ Cardinality({}) = 0
      /\ Cardinality({"-channel"}) = 1
  BY FS_EmptySet, FS_Singleton
<1>3. Cardinality({"-channel", "-period"}) = 2
  <2>1. /\ {"-channel", "-period"} = {"-channel"} \cup {"-period"}
        /\ "-period" \notin {"-channel"}
    OBVIOUS
  <2>2. IsFiniteSet({"-channel"})
    BY FS_Singleton
  <2>. QED BY <1>2, <2>1, <2>2, FS_AddElement
<1>. QED BY <1>1, <1>2, <1>3

\* The last value given to an option among the first so many pairs.
Given(option, arguments, i) == {j \in 1 .. i : arguments[2 * j] = option}

LastGiven(option, arguments, i) ==
  IF Given(option, arguments, i) = {} THEN NoText
  ELSE arguments[2 * (CHOOSE j \in Given(option, arguments, i) :
                        \A k \in Given(option, arguments, i) : k <= j) + 1]

\* One pair more gives its option another value, and leaves the others theirs.
LEMMA OneMoreGiven ==
  ASSUME NEW option, NEW arguments, NEW i \in Nat \ {0}
  PROVE  LastGiven(option, arguments, i) =
           IF arguments[2 * i] = option THEN arguments[2 * i + 1]
                                        ELSE LastGiven(option, arguments, i - 1)
<1>1. CASE arguments[2 * i] # option
  <2>1. Given(option, arguments, i) = Given(option, arguments, i - 1)
    BY <1>1 DEF Given
  <2>. QED BY <1>1, <2>1 DEF LastGiven
<1>2. CASE arguments[2 * i] = option
  <2>. DEFINE given == Given(option, arguments, i)
              last == CHOOSE j \in given : \A k \in given : k <= j
  <2>1. i \in given /\ \A k \in given : k \in 1 .. i
    BY <1>2 DEF Given
  <2>. HIDE DEF given
  <2>2. last \in given /\ \A k \in given : k <= last
    <3>1. \E j \in given : \A k \in given : k <= j
      BY <2>1
    <3>. QED BY <3>1
  <2>. HIDE DEF last
  <2>3. last = i
    BY <2>1, <2>2
  <2>4. LastGiven(option, arguments, i) = arguments[2 * last + 1]
    BY <2>1 DEF LastGiven, given, last
  <2>. QED BY <1>2, <2>3, <2>4
<1>. QED BY <1>1, <1>2

\* The first i pairs of the line of a command are as they should be.
Accepted(arguments, i) ==
  LET options == Options[ToLower[arguments[1]]]
  IN /\ i <= Cardinality(options)
     /\ i > 0 => 2 * i < Len(arguments) /\ arguments[2] \in options
     /\ \A j \in 1 .. i :
          arguments[2 * j] = "-period" /\ "-period" \in options =>
            arguments[2 * j + 1] \in Periods

\* The results there can be, with arguments from a set.
Results(A) ==
  [command : DOMAIN Options, Channel : A, Period : A, Matched : BOOLEAN,
   Error : {"Success", "UnexpectedArgument", "ArgumentNotSpecified", "InvalidValue",
            "UnrecognizedArgument"}]

\* What the result is after i turns.
AfterTurn(arguments, i, result) ==
  /\ result.command = ToLower[arguments[1]]
  /\ result.Error = "Success" <=> Accepted(arguments, i)
  /\ result.Error = "Success" =>
       /\ result.Matched <=> i > 0
       /\ result.Channel = LastGiven("-channel", arguments, i)
       /\ result.Period = LastGiven("-period", arguments, i)

\* Before the first turn nothing is given, and nothing wrong.
LEMMA FirstResult ==
  ASSUME NEW A, NoText \in A, NEW arguments \in Seq(A),
         ToLower[arguments[1]] \in DOMAIN Options
  PROVE  First(arguments) \in Results(A) /\ AfterTurn(arguments, 0, First(arguments))
<1>1. Accepted(arguments, 0)
  BY OptionsOf DEF Accepted
<1>2. \A option : LastGiven(option, arguments, 0) = NoText
  BY DEF LastGiven, Given
<1>. DEFINE first == First(arguments)
<1>3. first \in Results(A)
  BY DEF First, NoResult, Results
<1>4. /\ first.command = ToLower[arguments[1]] /\ first.Error = "Success"
      /\ first.Channel = NoText /\ first.Period = NoText /\ first.Matched = FALSE
  BY DEF First, NoResult
<1>. QED BY <1>1, <1>2, <1>3, <1>4 DEF AfterTurn

\* Every turn makes of the result before it the one that is due after it.
LEMMA TurnStep ==
  ASSUME NEW A, NoText \in A, NEW arguments \in Seq(A),
         ToLower[arguments[1]] \in DOMAIN Options,
         NEW i \in 1 .. Len(arguments) \div 2,
         NEW r \in Results(A), AfterTurn(arguments, i - 1, r)
  PROVE  /\ ParsePair(r, i, arguments) \in Results(A)
         /\ AfterTurn(arguments, i, ParsePair(r, i, arguments))
<1>. DEFINE options == Options[ToLower[arguments[1]]]
            option == arguments[2 * i]
            value == arguments[2 * i + 1]
            next == ParsePair(r, i, arguments)
            Fail(error) == [r EXCEPT !.Error = error]
<1>. SUFFICES next \in Results(A) /\ AfterTurn(arguments, i, next)
  OBVIOUS
<1>1. /\ Len(arguments) \in Nat /\ 2 * i <= Len(arguments)
      /\ i \in Nat \ {0} /\ i - 1 \in Nat
      /\ r.command = ToLower[arguments[1]]
  BY DEF AfterTurn
<1>2. 2 * i # Len(arguments) => value \in A
  BY <1>1
<1>3. /\ options \subseteq {"-channel", "-period"} /\ Cardinality(options) \in 0 .. 2
      /\ Cardinality(options) = 0 <=> options = {}
      /\ Cardinality(options) = 2 <=> "-period" \in options
      /\ "-period" \in options => "-channel" \in options
  BY OptionsOf
<1>4. /\ LastGiven("-channel", arguments, i) =
           IF option = "-channel" THEN value ELSE LastGiven("-channel", arguments, i - 1)
      /\ LastGiven("-period", arguments, i) =
           IF option = "-period" THEN value ELSE LastGiven("-period", arguments, i - 1)
  BY <1>1, OneMoreGiven
<1>5. Accepted(arguments, i) <=>
        /\ Accepted(arguments, i - 1)
        /\ i <= Cardinality(options) /\ 2 * i # Len(arguments)
        /\ i = 1 => option \in options
        /\ option = "-period" /\ "-period" \in options => value \in Periods
  BY <1>1, <1>3 DEF Accepted
<1>. HIDE DEF options, option, value
<1>6. CASE r.Error # "Success"
  <2>1. next = r
    BY <1>6 DEF ParsePair
  <2>. QED BY <1>5, <1>6, <2>1 DEF AfterTurn
<1>7. CASE r.Error = "Success"
  <2>1. /\ Accepted(arguments, i - 1) /\ (r.Matched <=> i > 1)
        /\ r.Channel = LastGiven("-channel", arguments, i - 1)
        /\ r.Period = LastGiven("-period", arguments, i - 1)
    BY <1>1, <1>7 DEF AfterTurn
  <2>2. ASSUME NEW error \in {"UnexpectedArgument", "ArgumentNotSpecified",
                              "InvalidValue", "UnrecognizedArgument"},
               next = Fail(error), ~Accepted(arguments, i)
        PROVE  next \in Results(A) /\ AfterTurn(arguments, i, next)
    BY <1>1, <2>2 DEF Results, AfterTurn
  <2>3. CASE i > Cardinality(options)
    <3>1. next = Fail("UnexpectedArgument")
      BY <1>1, <1>7, <2>3 DEF ParsePair, options
    <3>. QED BY <1>1, <1>3, <1>5, <2>2, <2>3, <3>1
  <2>4. CASE ~(i > Cardinality(options)) /\ 2 * i = Len(arguments)
    <3>1. next = Fail("ArgumentNotSpecified")
      BY <1>1, <1>7, <2>4 DEF ParsePair, options
    <3>. QED BY <1>5, <2>2, <2>4, <3>1
  <2>5. CASE ~(i > Cardinality(options)) /\ 2 * i # Len(arguments)
    <3>1. next =
           CASE option = "-channel" /\ option \in options ->
                  [r EXCEPT !.Channel = value, !.Matched = TRUE]
             [] option = "-period" /\ option \in options /\ value \in Periods ->
                  [r EXCEPT !.Period = value, !.Matched = TRUE]
             [] option = "-period" /\ option \in options /\ value \notin Periods ->
                  Fail("InvalidValue")
             [] NoneMatched(r, option, options) -> Fail("UnrecognizedArgument")
             [] OTHER -> r
      BY <1>1, <1>7, <2>5 DEF ParsePair, options, option, value
    <3>. HIDE DEF next
    <3>2. CASE option = "-channel" /\ option \in options
      <4>1. next = [r EXCEPT !.Channel = value, !.Matched = TRUE]
        BY <3>1, <3>2 DEF NoneMatched
      <4>2. Accepted(arguments, i)
        BY <1>1, <1>3, <1>5, <2>1, <2>5, <3>2
      <4>3. next \in Results(A)
        BY <1>2, <2>5, <4>1 DEF Results
      <4>4. /\ next.Error = "Success" /\ next.command = r.command /\ next.Matched = TRUE
            /\ next.Channel = value /\ next.Period = r.Period
        BY <1>7, <4>1 DEF Results
      <4>. QED BY <1>1, <1>4, <2>1, <3>2, <4>2, <4>3, <4>4 DEF AfterTurn
    <3>3. CASE option = "-period" /\ option \in options /\ value \in Periods
      <4>1. next = [r EXCEPT !.Period = value, !.Matched = TRUE]
        BY <3>1, <3>3 DEF NoneMatched
      <4>2. Accepted(arguments, i)
        BY <1>1, <1>3, <1>5, <2>1, <2>5, <3>3
      <4>3. next \in Results(A)
        BY <1>2, <2>5, <4>1 DEF Results
      <4>4. /\ next.Error = "Success" /\ next.command = r.command /\ next.Matched = TRUE
            /\ next.Period = value /\ next.Channel = r.Channel
        BY <1>7, <4>1 DEF Results
      <4>. QED BY <1>1, <1>4, <2>1, <3>3, <4>2, <4>3, <4>4 DEF AfterTurn
    <3>4. CASE option = "-period" /\ option \in options /\ value \notin Periods
      <4>1. next = Fail("InvalidValue")
        BY <3>1, <3>4 DEF NoneMatched
      <4>. QED BY <1>5, <2>2, <3>4, <4>1
    <3>5. CASE option \notin options /\ ~r.Matched
      <4>1. next = Fail("UnrecognizedArgument")
        BY <3>1, <3>5 DEF NoneMatched
      <4>2. ~Accepted(arguments, i)
        BY <1>1, <1>5, <2>1, <3>5
      <4>. QED BY <2>2, <4>1, <4>2
    <3>6. CASE option \notin options /\ r.Matched
      <4>1. next = r
        BY <3>1, <3>6 DEF NoneMatched
      <4>2. "-period" \in options /\ "-channel" \in options
        BY <1>1, <1>3, <2>1, <2>5, <3>6
      <4>3. option # "-channel" /\ option # "-period" /\ i > 1
        BY <2>1, <3>6, <4>2
      <4>4. Accepted(arguments, i)
        BY <1>1, <1>3, <1>5, <2>1, <2>5, <4>3
      <4>. QED BY <1>1, <1>4, <1>7, <2>1, <3>6, <4>1, <4>3, <4>4 DEF AfterTurn
    <3>. QED BY <1>3, <3>2, <3>3, <3>4, <3>5, <3>6
  <2>. QED BY <2>3, <2>4, <2>5
<1>. QED BY <1>6, <1>7

\* So it is for every line: after the last turn the loop has seen all pairs.
LEMMA LineParsed ==
  ASSUME NEW Arguments, NEW arguments \in Seq(Arguments) \ {<<>>}
  PROVE  ParsesAsExpected(arguments)
<1>. DEFINE A == Arguments \cup {NoText}
            n == Len(arguments) \div 2
            turns == Turns(arguments)
            done == turns[n]
            result == ParseCommand(arguments)
<1>. SUFFICES ASSUME ToLower[arguments[1]] \in DOMAIN Options
              PROVE  ParsesAsExpected(arguments)
  BY DEF ParsesAsExpected, ParseCommand
<1>1. /\ arguments \in Seq(A) /\ NoText \in A
      /\ Len(arguments) \in Nat \ {0} /\ n \in Nat
      /\ Len(arguments) = 2 * n \/ Len(arguments) = 2 * n + 1
      /\ Len(arguments) % 2 = 1 <=> Len(arguments) = 2 * n + 1
  OBVIOUS
<1>2. done \in Results(A) /\ AfterTurn(arguments, n, done)
  <2>. DEFINE T == {i \in 0 .. n :
                      turns[i] \in Results(A) /\ AfterTurn(arguments, i, turns[i])}
  <2>1. 0 \in T
    BY <1>1, FirstResult, TurnsUnfold
  <2>2. ASSUME NEW i \in 1 .. n, i - 1 \in T PROVE i \in T
    <3>1. turns[i] = ParsePair(turns[i - 1], i, arguments)
      BY <1>1, TurnsUnfold
    <3>. QED BY <1>1, <2>2, <3>1, TurnStep
  <2>. HIDE DEF T, n
  <2>3. n \in Nat
    BY <1>1
  <2>4. 0 .. n \subseteq T
    BY <2>1, <2>2, <2>3, Induct
  <2>5. n \in T
    BY <2>3, <2>4
  <2>. QED BY <2>5 DEF T
<1>3. Accepted(arguments, n) <=> WellFormed(arguments)
  <2>. DEFINE options == Options[ToLower[arguments[1]]]
              NumbersForPeriods == \A j \in 1 .. n :
                arguments[2 * j] = "-period" /\ "-period" \in options =>
                  arguments[2 * j + 1] \in Periods
  <2>1. Accepted(arguments, n) <=>
          /\ n <= Cardinality(options)
          /\ n > 0 => 2 * n < Len(arguments) /\ arguments[2] \in options
          /\ NumbersForPeriods
    BY DEF Accepted
  <2>2. WellFormed(arguments) <=>
          /\ Len(arguments) % 2 = 1
          /\ n <= Cardinality(options)
          /\ 1 .. n # {} => arguments[2] \in options
          /\ NumbersForPeriods
    BY DEF WellFormed
  <2>. HIDE DEF n, options, NumbersForPeriods
  <2>3. n \in Nat
    BY <1>1
  <2>4. n > 0 => n \in 1 .. n
    BY <2>3
  <2>5. n = 0 => 1 .. n = {}
    OBVIOUS
  <2>6. CASE n = 0
    BY <1>1, <2>1, <2>2, <2>5, <2>6
  <2>7. CASE n > 0
    <3>1. 1 .. n # {}
      BY <2>4, <2>7
    <3>. QED BY <1>1, <2>1, <2>2, <2>7, <3>1
  <2>. QED BY <2>3, <2>6, <2>7
<1>4. \A option : LastGiven(option, arguments, n) = ValueOf(option, arguments)
  BY DEF LastGiven, Given, ValueOf
<1>5. result = [done EXCEPT !.Matched = @ \/ done.Error = "Success"]
  BY DEF ParseCommand
<1>. HIDE DEF result, done, turns, n
<1>6. /\ result.Error = done.Error /\ result.Channel = done.Channel
      /\ result.Period = done.Period
      /\ done.Error = "Success" => result.Matched = TRUE
  BY <1>2, <1>5 DEF Results
<1>7. /\ result.Error = "Success" <=> WellFormed(arguments)
      /\ result.Error = "Success" =>
           /\ result.Matched
           /\ result.Channel = ValueOf("-channel", arguments)
           /\ result.Period = ValueOf("-period", arguments)
  BY <1>2, <1>3, <1>4, <1>6 DEF AfterTurn
<1>. QED BY <1>7 DEF ParsesAsExpected, result

\* Whatever the arguments are and however many, ParseCommand accepts the lines it
\* should, with the values it should.
THEOREM CommandsParse ==
  ASSUME NEW Arguments, Lines \subseteq Seq(Arguments) \ {<<>>}
  PROVE  CommandsParsed
BY LineParsed DEF CommandsParsed, Misparsed

=============================================================================
