---------------------------- MODULE CommandParser ----------------------------
(***************************************************************************)
(* commands.ParseCommand.  A line that starts with a colon is a sequence   *)
(* of arguments, split at single spaces: a command and pairs of an option  *)
(* and its value.                                                          *)
(***************************************************************************)
EXTENDS Types

CONSTANTS
  ToLower,   \* an argument -> the same in lower case
  Periods,   \* the arguments that strconv.Atoi reads as a number, none negative
  Lines      \* the lines CommandsParsed is about, as sequences of arguments

\* commandTable: the options of every command.
Options ==
  [command \in {":menu", ":history", ":members", ":channels", ":commands"} |->
     CASE command = ":history" -> {"-channel", "-period"}
       [] command = ":members" -> {"-channel"}
       [] OTHER -> {}]

NoResult == [command |-> NoText, Channel |-> NoText, Period |-> NoText,
             Error |-> "Success", Matched |-> FALSE]

\* Faulty: the option of every pair must be known.
NoneMatchedNow(result, option, options) == option \notin options

\* Matched says that some option was known, this one or an earlier one.
NoneMatched(result, option, options) == option \notin options /\ ~result.Matched

(***************************************************************************)
(* One turn of the loop over the pairs, for the i-th of them.              *)
(***************************************************************************)
ParsePair(result, i, arguments) ==
  LET options == Options[result.command]
      option == arguments[2 * i]
      value == arguments[2 * i + 1]
      Fail(error) == [result EXCEPT !.Error = error]
  IN IF result.Error # "Success" THEN result
     ELSE IF i > Cardinality(options) THEN Fail("UnexpectedArgument")
     ELSE IF 2 * i = Len(arguments) THEN Fail("ArgumentNotSpecified")
     ELSE CASE option = "-channel" /\ option \in options ->
                 [result EXCEPT !.Channel = value, !.Matched = TRUE]
            [] option = "-period" /\ option \in options /\ value \in Periods ->
                 [result EXCEPT !.Period = value, !.Matched = TRUE]
            [] option = "-period" /\ option \in options /\ value \notin Periods ->
                 Fail("InvalidValue")
            [] NoneMatched(result, option, options) -> Fail("UnrecognizedArgument")
            [] OTHER -> result

\* The result after so many turns.
Turns(arguments) ==
  LET parsed[i \in 0 .. Len(arguments) \div 2] ==
        IF i = 0 THEN [NoResult EXCEPT !.command = ToLower[arguments[1]]]
                 ELSE ParsePair(parsed[i - 1], i, arguments)
  IN parsed

ParseCommand(arguments) ==
  IF ToLower[arguments[1]] \notin DOMAIN Options THEN NoResult
  ELSE LET parsed == Turns(arguments)[Len(arguments) \div 2]
       IN [parsed EXCEPT !.Matched = @ \/ parsed.Error = "Success"]

-----------------------------------------------------------------------------
(***************************************************************************)
(* What a user may expect of a line: at most as many pairs as the command  *)
(* has options, the first of them known, numbers for periods, and of a     *)
(* channel given twice the last one.  That options after the first may be  *)
(* unknown is what the tests and the comment in the loop leave open.       *)
(***************************************************************************)
WellFormed(arguments) ==
  LET options == Options[ToLower[arguments[1]]]
      pairs == 1 .. Len(arguments) \div 2
  IN /\ Len(arguments) % 2 = 1
     /\ Len(arguments) \div 2 <= Cardinality(options)
     /\ pairs # {} => arguments[2] \in options
     /\ \A i \in pairs :
          arguments[2 * i] = "-period" /\ "-period" \in options =>
            arguments[2 * i + 1] \in Periods

ValueOf(option, arguments) ==
  LET given == {i \in 1 .. Len(arguments) \div 2 : arguments[2 * i] = option}
  IN IF given = {} THEN NoText
     ELSE arguments[2 * (CHOOSE i \in given : \A j \in given : j <= i) + 1]

ParsesAsExpected(arguments) ==
  LET result == ParseCommand(arguments)
  IN IF ToLower[arguments[1]] \notin DOMAIN Options
     THEN result = NoResult
     ELSE /\ result.Error = "Success" <=> WellFormed(arguments)
          /\ result.Error = "Success" =>
               /\ result.Matched
               /\ result.Channel = ValueOf("-channel", arguments)
               /\ result.Period = ValueOf("-period", arguments)

Misparsed == {arguments \in Lines : ~ParsesAsExpected(arguments)}

\* ParseCommand accepts the lines it should, with the values it should: for no line
\* does the flag Matched, which survives from one pair to the next, mislead it.  (Of a
\* process that runs; the lines are the same in every state.)
CommandsParsed == panic = NoPanic => Misparsed = {}

=============================================================================
