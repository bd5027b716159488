----------------------------- MODULE ClientProofs -----------------------------
(***************************************************************************)
(* Proofs about the terminal client (module Client), for any number of     *)
(* retries, messages and lines, and any capacity of the connection.        *)
(***************************************************************************)
EXTENDS Client, SequenceTheorems, TLAPS

\* The invariant holds before the first attempt to connect.
LEMMA CreateClientInv == CreateClient => ClientInv
<1>. SUFFICES ASSUME CreateClient PROVE ClientInv
  OBVIOUS
<1>1. ClientTypeOK
  <2>1. \A S : <<>> \in Seq(S) /\ Len(<<>>) = 0
    OBVIOUS
  <2>2. cancelled \in BOOLEAN
    BY DEF CreateClient
  <2>. QED BY <2>1, <2>2, ClientAssumption DEF CreateClient, ClientTypeOK, Blank
<1>2. UpTo(0) = <<>>
  BY DEF UpTo
<1>3. <<>> \o <<>> \o <<>> = <<>> /\ Pending(Blank) = <<>>
  BY DEF Pending
<1>4. Stages /\ IncomingKept /\ OutgoingKept /\ DialsBounded
  BY <1>2, <1>3, ClientAssumption
     DEF CreateClient, Stages, IncomingKept, OutgoingKept, DialsBounded
<1>. QED BY <1>1, <1>4 DEF ClientInv

\* A read of the first n segments loses none of a sequence.
LEMMA SplitSeq ==
  ASSUME NEW S, NEW s \in Seq(S), NEW n \in 1 .. Len(s)
  PROVE  /\ SubSeq(s, 1, n) \in Seq(S)
         /\ SubSeq(s, n + 1, Len(s)) \in Seq(S)
         /\ Len(SubSeq(s, n + 1, Len(s))) <= Len(s)
         /\ SubSeq(s, 1, n) \o SubSeq(s, n + 1, Len(s)) = s
<1>0. Len(s) \in Nat /\ \A i \in 1 .. Len(s) : s[i] \in S
  OBVIOUS
<1>1. SubSeq(s, 1, n) \in Seq(S)
  BY <1>0, SubSeqProperties
<1>2. /\ SubSeq(s, n + 1, Len(s)) \in Seq(S)
      /\ Len(SubSeq(s, n + 1, Len(s))) <= Len(s)
  BY <1>0, SubSeqProperties
<1>3. SubSeq(s, 1, n) \o SubSeq(s, n + 1, Len(s)) = s
  <2>1. SubSeq(s, 1, n) \o SubSeq(s, n + 1, Len(s)) = SubSeq(s, 1, Len(s))
    BY <1>0, ConcatAdjacentSubSeq
  <2>. QED BY <2>1, SubSeqFull
<1>. QED BY <1>1, <1>2, <1>3

\* What is read moves from one sequence to the end of the one before.
LEMMA MoveSeq ==
  ASSUME NEW S, NEW p \in Seq(S), NEW s \in Seq(S), NEW n \in 1 .. Len(s)
  PROVE  p \o SubSeq(s, 1, n) \o SubSeq(s, n + 1, Len(s)) = p \o s
<1>1. SubSeq(s, 1, n) \in Seq(S) /\ SubSeq(s, n + 1, Len(s)) \in Seq(S)
  BY SplitSeq
<1>2. PICK a \in Seq(S), b \in Seq(S) :
        a = SubSeq(s, 1, n) /\ b = SubSeq(s, n + 1, Len(s))
  BY <1>1
<1>3. a \o b = s
  BY <1>2, SplitSeq
<1>4. p \o a \o b = p \o (a \o b)
  OBVIOUS
<1>. QED BY <1>2, <1>3, <1>4

\* Appending to the last of the parts appends to the whole.
LEMMA AppendLast ==
  ASSUME NEW S, NEW s \in Seq(S), NEW t \in Seq(S), NEW e \in S
  PROVE  s \o Append(t, e) = Append(s \o t, e)
OBVIOUS

\* The first n + 1 numbers are the first n and one more.
LEMMA UpToNext ==
  ASSUME NEW n \in Nat
  PROVE  Append(UpTo(n), n + 1) = UpTo(n + 1)
BY DEF UpTo

-----------------------------------------------------------------------------
\* Until the connection is closed or broken, what was typed is on its way.
Flowing ==
  link \in {"none", "open"} =>
    received \o up \o Pending(writing) \o Pending(line) = UpTo(typed)

\* Every variable of the client and of the other end keeps its type.
LEMMA TypeStep ==
  ASSUME ClientTypeOK, Stages, [ClientNext]_vars
  PROVE  ClientTypeOK'
<1>. USE ClientAssumption DEF Blank
<1>1. CASE DialSucceeds
  BY <1>1 DEF DialSucceeds, ClientTypeOK, runVars, receiverVars, typistVars, linkVars, serverVars
<1>2. CASE DialFails
  BY <1>2 DEF DialFails, ClientTypeOK, runVars, receiverVars, typistVars, linkVars, serverVars
<1>3. CASE Show
  BY <1>3 DEF Show, ClientTypeOK, runVars, receiverVars, typistVars, linkVars, serverVars
<1>4. CASE Take
  BY <1>4 DEF Take, ClientTypeOK, runVars, receiverVars, typistVars, linkVars, serverVars
<1>5. CASE Write
  <2>1. /\ up' \in Seq(1 .. MaxTyped) /\ Len(up') <= Capacity
        /\ link' \in {"none", "open", "closed", "reset"}
        /\ UNCHANGED <<down, sent>>
    <3>1. CASE up' = Append(up, writing) /\ Len(up) < Capacity /\ writing # Blank
      <4>1. writing \in 1 .. MaxTyped
        BY <3>1 DEF ClientTypeOK
      <4>. QED BY <1>5, <3>1, <4>1, AppendProperties DEF Write, WriteBytes, ClientTypeOK, linkVars
    <3>2. CASE up' = up
      BY <1>5, <3>2 DEF Write, WriteBytes, ClientTypeOK, linkVars
    <3>. QED BY <1>5, <3>1, <3>2 DEF Write, WriteBytes, linkVars
  <2>. QED BY <1>5, <2>1 DEF Write, ClientTypeOK, runVars, receiverVars, typistVars, linkVars, serverVars
<1>6. CASE Return
  BY <1>6 DEF Return, ClientTypeOK, runVars, receiverVars, typistVars, linkVars, serverVars
<1>7. CASE Receive
  <2>1. PICK n \in 1 .. Len(down) :
          segment' = SubSeq(down, 1, n) /\ down' = SubSeq(down, n + 1, Len(down))
    BY <1>7 DEF Receive
  <2>2. /\ segment' \in Seq(1 .. MaxSent)
        /\ down' \in Seq(1 .. MaxSent) /\ Len(down') <= Capacity
    <3>1. down \in Seq(1 .. MaxSent) /\ Len(down) <= Capacity /\ Capacity \in Nat
      BY DEF ClientTypeOK
    <3>2. /\ SubSeq(down, 1, n) \in Seq(1 .. MaxSent)
          /\ SubSeq(down, n + 1, Len(down)) \in Seq(1 .. MaxSent)
          /\ Len(SubSeq(down, n + 1, Len(down))) <= Len(down)
      BY <3>1, SplitSeq
    <3>3. Len(down') \in Nat /\ Len(down) \in Nat
      BY <2>1, <3>1, <3>2
    <3>. QED BY <2>1, <3>1, <3>2, <3>3
  <2>. QED BY <1>7, <2>2 DEF Receive, ClientTypeOK, runVars, receiverVars, typistVars, linkVars, serverVars
<1>8. CASE StopReceiving
  BY <1>8 DEF StopReceiving, ClientTypeOK, runVars, receiverVars, typistVars, linkVars, serverVars
<1>9. CASE CheckContext
  BY <1>9 DEF CheckContext, ClientTypeOK, runVars, receiverVars, typistVars, linkVars, serverVars
<1>10. CASE Type
  BY <1>10 DEF Type, ClientTypeOK, runVars, receiverVars, typistVars, linkVars, serverVars
<1>11. CASE EndInput
  BY <1>11 DEF EndInput, ClientTypeOK, runVars, receiverVars, typistVars, linkVars, serverVars
<1>12. CASE ReadEndOfInput
  BY <1>12 DEF ReadEndOfInput, ClientTypeOK, runVars, receiverVars, typistVars, linkVars, serverVars
<1>13. CASE InputFails
  BY <1>13 DEF InputFails, ClientTypeOK, runVars, receiverVars, typistVars, linkVars, serverVars
<1>14. CASE HandlerReads
  <2>1. PICK n \in 1 .. Len(up) :
          /\ received' = received \o SubSeq(up, 1, n)
          /\ up' = SubSeq(up, n + 1, Len(up))
    BY <1>14 DEF HandlerReads
  <2>2. /\ received' \in Seq(1 .. MaxTyped)
        /\ up' \in Seq(1 .. MaxTyped) /\ Len(up') <= Capacity
    <3>1. /\ up \in Seq(1 .. MaxTyped) /\ Len(up) <= Capacity /\ Capacity \in Nat
          /\ received \in Seq(1 .. MaxTyped)
      BY DEF ClientTypeOK
    <3>2. /\ SubSeq(up, 1, n) \in Seq(1 .. MaxTyped)
          /\ SubSeq(up, n + 1, Len(up)) \in Seq(1 .. MaxTyped)
          /\ Len(SubSeq(up, n + 1, Len(up))) <= Len(up)
      BY <3>1, SplitSeq
    <3>3. up' = SubSeq(up, n + 1, Len(up))
      BY <2>1
    <3>4. up' \in Seq(1 .. MaxTyped) /\ Len(up') \in Nat /\ Len(up) \in Nat
      BY <3>1, <3>2, <3>3
    <3>5. Len(up') <= Capacity
      BY <3>1, <3>2, <3>3, <3>4
    <3>6. received' \in Seq(1 .. MaxTyped)
      BY <2>1, <3>1, <3>2, ConcatProperties
    <3>. QED BY <3>4, <3>5, <3>6
  <2>. QED BY <1>14, <2>2 DEF HandlerReads, ClientTypeOK, runVars, receiverVars, typistVars, linkVars, serverVars
<1>15. CASE LoopReceives
  BY <1>15 DEF LoopReceives, ClientTypeOK, runVars, receiverVars, typistVars, linkVars, serverVars
<1>16. CASE LoopReceivesOther
  BY <1>16 DEF LoopReceivesOther, ClientTypeOK, runVars, receiverVars, typistVars, linkVars, serverVars
<1>17. CASE LoopWrites
  <2>1. /\ sent' \in 0 .. MaxSent
        /\ down' \in Seq(1 .. MaxSent) /\ Len(down') <= Capacity
    <3>1. CASE sent' = sent + 1 /\ down' = Append(down, sent') /\ Len(down) < Capacity
      <4>1. sent' \in 1 .. MaxSent
        BY <1>17, <3>1 DEF LoopWrites, Stages, ClientTypeOK
      <4>. QED BY <3>1, <4>1, AppendProperties DEF ClientTypeOK
    <3>2. CASE UNCHANGED <<sent, down>>
      BY <3>2 DEF ClientTypeOK
    <3>. QED BY <1>17, <3>1, <3>2 DEF LoopWrites
  <2>. QED BY <1>17, <2>1 DEF LoopWrites, ClientTypeOK, runVars, receiverVars, typistVars, linkVars, serverVars
<1>18. CASE ServerCloses
  BY <1>18 DEF ServerCloses, ClientTypeOK, runVars, receiverVars, typistVars, linkVars, serverVars
<1>19. CASE LinkBreaks
  BY <1>19 DEF LinkBreaks, ClientTypeOK, runVars, receiverVars, typistVars, linkVars, serverVars
<1>20. CASE UNCHANGED vars
  BY <1>20 DEF ClientTypeOK, vars, runVars, receiverVars, typistVars, linkVars, serverVars
<1>. QED
  BY <1>1, <1>2, <1>3, <1>4, <1>5, <1>6, <1>7, <1>8, <1>9, <1>10, <1>11, <1>12, <1>13, <1>14, <1>15, <1>16, <1>17, <1>18, <1>19, <1>20 DEF ClientNext

-----------------------------------------------------------------------------
\* Where the goroutines stand.
LEMMA StagesStep ==
  ASSUME ClientTypeOK, Stages, Flowing', [ClientNext]_vars
  PROVE  Stages'
<1>. USE ClientAssumption DEF Blank
<1>1. CASE DialSucceeds
  BY <1>1 DEF DialSucceeds, ClientTypeOK, Stages, Flowing, runVars, receiverVars, typistVars, linkVars, serverVars
<1>2. CASE DialFails
  BY <1>2 DEF DialFails, NoMoreRetries, ClientTypeOK, Stages, Flowing, runVars, receiverVars, typistVars, linkVars, serverVars
<1>3. CASE Show
  BY <1>3 DEF Show, ClientTypeOK, Stages, Flowing, runVars, receiverVars, typistVars, linkVars, serverVars
<1>4. CASE Take
  BY <1>4 DEF Take, ClientTypeOK, Stages, Flowing, runVars, receiverVars, typistVars, linkVars, serverVars
<1>5. CASE Write
  BY <1>5 DEF Write, WriteBytes, ClientTypeOK, Stages, Flowing, runVars, receiverVars, typistVars, linkVars, serverVars
<1>6. CASE Return
  BY <1>6 DEF Return, ClientTypeOK, Stages, Flowing, runVars, receiverVars, typistVars, linkVars, serverVars
<1>7. CASE Receive
  BY <1>7 DEF Receive, ClientTypeOK, Stages, Flowing, runVars, receiverVars, typistVars, linkVars, serverVars
<1>8. CASE StopReceiving
  BY <1>8 DEF StopReceiving, ClientTypeOK, Stages, Flowing, runVars, receiverVars, typistVars, linkVars, serverVars
<1>9. CASE CheckContext
  BY <1>9 DEF CheckContext, ClientTypeOK, Stages, Flowing, runVars, receiverVars, typistVars, linkVars, serverVars
<1>10. CASE Type
  BY <1>10 DEF Type, ClientTypeOK, Stages, Flowing, runVars, receiverVars, typistVars, linkVars, serverVars
<1>11. CASE EndInput
  BY <1>11 DEF EndInput, ClientTypeOK, Stages, Flowing, runVars, receiverVars, typistVars, linkVars, serverVars
<1>12. CASE ReadEndOfInput
  BY <1>12 DEF ReadEndOfInput, ClientTypeOK, Stages, Flowing, runVars, receiverVars, typistVars, linkVars, serverVars
<1>13. CASE InputFails
  BY <1>13 DEF InputFails, ClientTypeOK, Stages, Flowing, runVars, receiverVars, typistVars, linkVars, serverVars
<1>14. CASE HandlerReads
  BY <1>14 DEF HandlerReads, ClientTypeOK, Stages, Flowing, runVars, receiverVars, typistVars, linkVars, serverVars
<1>15. CASE LoopReceives
  BY <1>15 DEF LoopReceives, ClientTypeOK, Stages, Flowing, runVars, receiverVars, typistVars, linkVars, serverVars
<1>16. CASE LoopReceivesOther
  BY <1>16 DEF LoopReceivesOther, ClientTypeOK, Stages, Flowing, runVars, receiverVars, typistVars, linkVars, serverVars
<1>17. CASE LoopWrites
  BY <1>17 DEF LoopWrites, ClientTypeOK, Stages, Flowing, runVars, receiverVars, typistVars, linkVars, serverVars
<1>18. CASE ServerCloses
  BY <1>18 DEF ServerCloses, ClientTypeOK, Stages, Flowing, runVars, receiverVars, typistVars, linkVars, serverVars
<1>19. CASE LinkBreaks
  BY <1>19 DEF LinkBreaks, ClientTypeOK, Stages, Flowing, runVars, receiverVars, typistVars, linkVars, serverVars
<1>20. CASE UNCHANGED vars
  BY <1>20 DEF ClientTypeOK, Stages, Flowing, vars, runVars, receiverVars, typistVars, linkVars, serverVars
<1>. QED
  BY <1>1, <1>2, <1>3, <1>4, <1>5, <1>6, <1>7, <1>8, <1>9, <1>10, <1>11, <1>12, <1>13, <1>14, <1>15, <1>16, <1>17, <1>18, <1>19, <1>20 DEF ClientNext

-----------------------------------------------------------------------------
\* The retries are counted, and none follows a success or the last failure.
LEMMA DialsStep ==
  ASSUME ClientTypeOK, Stages, DialsBounded, [ClientNext]_vars
  PROVE  DialsBounded'
<1>. USE ClientAssumption DEF Blank
<1>1. CASE DialSucceeds
  BY <1>1 DEF DialSucceeds, ClientTypeOK, Stages, DialsBounded, runVars, receiverVars, typistVars, linkVars, serverVars
<1>2. CASE DialFails
  BY <1>2 DEF DialFails, NoMoreRetries, ClientTypeOK, Stages, DialsBounded, runVars, receiverVars, typistVars, linkVars, serverVars
<1>3. CASE Show
  BY <1>3 DEF Show, ClientTypeOK, Stages, DialsBounded, runVars, receiverVars, typistVars, linkVars, serverVars
<1>4. CASE Take
  BY <1>4 DEF Take, ClientTypeOK, Stages, DialsBounded, runVars, receiverVars, typistVars, linkVars, serverVars
<1>5. CASE Write
  BY <1>5 DEF Write, WriteBytes, ClientTypeOK, Stages, DialsBounded, runVars, receiverVars, typistVars, linkVars, serverVars
<1>6. CASE Return
  BY <1>6 DEF Return, ClientTypeOK, Stages, DialsBounded, runVars, receiverVars, typistVars, linkVars, serverVars
<1>7. CASE Receive
  BY <1>7 DEF Receive, ClientTypeOK, Stages, DialsBounded, runVars, receiverVars, typistVars, linkVars, serverVars
<1>8. CASE StopReceiving
  BY <1>8 DEF StopReceiving, ClientTypeOK, Stages, DialsBounded, runVars, receiverVars, typistVars, linkVars, serverVars
<1>9. CASE CheckContext
  BY <1>9 DEF CheckContext, ClientTypeOK, Stages, DialsBounded, runVars, receiverVars, typistVars, linkVars, serverVars
<1>10. CASE Type
  BY <1>10 DEF Type, ClientTypeOK, Stages, DialsBounded, runVars, receiverVars, typistVars, linkVars, serverVars
<1>11. CASE EndInput
  BY <1>11 DEF EndInput, ClientTypeOK, Stages, DialsBounded, runVars, receiverVars, typistVars, linkVars, serverVars
<1>12. CASE ReadEndOfInput
  BY <1>12 DEF ReadEndOfInput, ClientTypeOK, Stages, DialsBounded, runVars, receiverVars, typistVars, linkVars, serverVars
<1>13. CASE InputFails
  BY <1>13 DEF InputFails, ClientTypeOK, Stages, DialsBounded, runVars, receiverVars, typistVars, linkVars, serverVars
<1>14. CASE HandlerReads
  BY <1>14 DEF HandlerReads, ClientTypeOK, Stages, DialsBounded, runVars, receiverVars, typistVars, linkVars, serverVars
<1>15. CASE LoopReceives
  BY <1>15 DEF LoopReceives, ClientTypeOK, Stages, DialsBounded, runVars, receiverVars, typistVars, linkVars, serverVars
<1>16. CASE LoopReceivesOther
  BY <1>16 DEF LoopReceivesOther, ClientTypeOK, Stages, DialsBounded, runVars, receiverVars, typistVars, linkVars, serverVars
<1>17. CASE LoopWrites
  BY <1>17 DEF LoopWrites, ClientTypeOK, Stages, DialsBounded, runVars, receiverVars, typistVars, linkVars, serverVars
<1>18. CASE ServerCloses
  BY <1>18 DEF ServerCloses, ClientTypeOK, Stages, DialsBounded, runVars, receiverVars, typistVars, linkVars, serverVars
<1>19. CASE LinkBreaks
  BY <1>19 DEF LinkBreaks, ClientTypeOK, Stages, DialsBounded, runVars, receiverVars, typistVars, linkVars, serverVars
<1>20. CASE UNCHANGED vars
  BY <1>20 DEF ClientTypeOK, Stages, DialsBounded, vars, runVars, receiverVars, typistVars, linkVars, serverVars
<1>. QED
  BY <1>1, <1>2, <1>3, <1>4, <1>5, <1>6, <1>7, <1>8, <1>9, <1>10, <1>11, <1>12, <1>13, <1>14, <1>15, <1>16, <1>17, <1>18, <1>19, <1>20 DEF ClientNext

-----------------------------------------------------------------------------
\* What the server wrote stays in order and in whole.
LEMMA IncomingInOrder ==
  ASSUME ClientTypeOK, Stages, IncomingKept, [ClientNext]_vars, ClientTypeOK'
  PROVE  (printed \o segment \o down = UpTo(sent))'
<1>. DEFINE S == 1 .. MaxSent
<1>1. /\ printed \in Seq(S) /\ segment \in Seq(S) /\ down \in Seq(S)
      /\ printed \o segment \in Seq(S) /\ sent \in Nat
  BY ConcatProperties DEF ClientTypeOK
<1>2. printed \o segment \o down = UpTo(sent)
  BY DEF IncomingKept
<1>3. CASE UNCHANGED <<printed, segment, down, sent>>
  BY <1>2, <1>3
<1>4. CASE Show
  <2>1. printed' \o segment' = printed \o segment
    BY <1>1, <1>4, ConcatEmptySeq DEF Show
  <2>. QED BY <1>2, <1>4, <2>1 DEF Show, linkVars
<1>5. CASE Receive
  <2>1. segment = <<>>
    BY <1>5 DEF Receive, Stages
  <2>2. PICK n \in 1 .. Len(down) :
          segment' = SubSeq(down, 1, n) /\ down' = SubSeq(down, n + 1, Len(down))
    BY <1>5 DEF Receive
  <2>4. printed \o segment' \o down' = printed \o down
    BY <1>1, <2>2, MoveSeq
  <2>5. printed \o segment = printed
    BY <1>1, <2>1, ConcatEmptySeq
  <2>. QED BY <1>2, <1>5, <2>4, <2>5 DEF Receive, runVars
<1>6. CASE LoopWrites
  <2>1. CASE sent' = sent + 1 /\ down' = Append(down, sent')
    <3>1. sent' \in S
      BY <1>1, <2>1 DEF ClientTypeOK
    <3>2. (printed \o segment) \o Append(down, sent') = Append(printed \o segment \o down, sent')
      BY <1>1, <3>1, AppendLast
    <3>3. Append(UpTo(sent), sent + 1) = UpTo(sent + 1)
      BY <1>1, UpToNext
    <3>. QED BY <1>2, <1>6, <2>1, <3>2, <3>3 DEF LoopWrites, runVars, receiverVars
  <2>2. CASE UNCHANGED <<sent, down>>
    BY <1>2, <1>6, <2>2 DEF LoopWrites, runVars, receiverVars
  <2>. QED BY <1>6, <2>1, <2>2 DEF LoopWrites
<1>. QED
  <2>1. CASE Show \/ Receive \/ LoopWrites
    BY <2>1, <1>4, <1>5, <1>6
  <2>2. CASE ~(Show \/ Receive \/ LoopWrites)
    <3>1. UNCHANGED <<printed, segment, down, sent>>
      BY <2>2 DEF ClientNext, vars, DialSucceeds, DialFails, Take, Write, Return, StopReceiving, CheckContext, Type, EndInput, ReadEndOfInput, InputFails, HandlerReads, LoopReceives, LoopReceivesOther, ServerCloses, LinkBreaks, WriteBytes,
        runVars, receiverVars, typistVars, linkVars, serverVars
    <3>. QED BY <1>3, <3>1
  <2>. QED BY <2>1, <2>2

\* So a client that returns because the connection was closed has printed it all.
LEMMA IncomingStep ==
  ASSUME ClientTypeOK, Stages, IncomingKept, [ClientNext]_vars, ClientTypeOK', Stages'
  PROVE  IncomingKept'
<1>1. (printed \o segment \o down = UpTo(sent))'
  BY IncomingInOrder
<1>2. ASSUME main' = "returned", link' = "closed" PROVE printed' = UpTo(sent')
  <2>1. segment' = <<>> /\ down' = <<>>
    BY <1>2 DEF Stages
  <2>2. printed' \o <<>> = printed'
    BY ConcatEmptySeq DEF ClientTypeOK
  <2>. QED BY <1>1, <2>1, <2>2
<1>. QED BY <1>1, <1>2 DEF IncomingKept

-----------------------------------------------------------------------------
\* What was typed stays in order and in whole, while the connection is up.
LEMMA OutgoingStep ==
  ASSUME ClientTypeOK, Stages, Flowing, [ClientNext]_vars, ClientTypeOK'
  PROVE  Flowing'
<1>. DEFINE S == 1 .. MaxTyped
<1>. SUFFICES ASSUME link' \in {"none", "open"}
              PROVE  received' \o up' \o Pending(writing') \o Pending(line') = UpTo(typed')
  BY DEF Flowing
<1>1. link \in {"none", "open"}
  BY DEF ClientNext, vars, DialSucceeds, DialFails, Show, Return, Receive, StopReceiving, CheckContext, EndInput, InputFails, LoopReceives, LoopReceivesOther, LoopWrites, ServerCloses, LinkBreaks, Take, Write, WriteBytes, Type,
     ReadEndOfInput, HandlerReads, Stages, runVars, receiverVars, typistVars, linkVars, serverVars
<1>2. received \o up \o Pending(writing) \o Pending(line) = UpTo(typed)
  BY <1>1 DEF Flowing
<1>3. /\ received \in Seq(S) /\ up \in Seq(S) /\ typed \in Nat
      /\ Pending(writing) \in Seq(S) /\ Pending(line) \in Seq(S)
  <2>1. \A n \in 0 .. MaxTyped : Pending(n) \in Seq(S)
    <3>. TAKE n \in 0 .. MaxTyped
    <3>1. CASE n = Blank
      BY <3>1 DEF Pending
    <3>2. CASE n # Blank
      BY <3>2, ClientAssumption DEF Pending, Blank
    <3>. QED BY <3>1, <3>2
  <2>2. writing \in 0 .. MaxTyped /\ line \in 0 .. MaxTyped
    BY DEF ClientTypeOK
  <2>3. Pending(writing) \in Seq(S) /\ Pending(line) \in Seq(S)
    BY <2>1, <2>2
  <2>. QED BY <2>3 DEF ClientTypeOK
<1>4. received \o up \in Seq(S) /\ received \o up \o Pending(writing) \in Seq(S)
  BY <1>3, ConcatProperties
<1>5. Pending(Blank) = <<>>
  BY DEF Pending
<1>6. CASE UNCHANGED <<received, up, writing, line, typed>>
  BY <1>2, <1>6
<1>7. CASE Take
  <2>1. writing = Blank
    BY <1>7 DEF Take, Stages
  <2>2. received \o up \o <<>> \o Pending(line) = received \o up \o Pending(line) \o <<>>
    <3>1. received \o up \o <<>> = received \o up
      BY <1>4, ConcatEmptySeq
    <3>2. received \o up \o Pending(line) \in Seq(S)
      BY <1>3, <1>4, ConcatProperties
    <3>3. received \o up \o Pending(line) \o <<>> = received \o up \o Pending(line)
      BY <3>2, ConcatEmptySeq
    <3>. QED BY <3>1, <3>3
  <2>3. /\ writing' = line /\ line' = Blank
        /\ received' = received /\ up' = up /\ typed' = typed
    BY <1>7 DEF Take, linkVars, serverVars
  <2>. QED BY <1>2, <1>5, <2>1, <2>2, <2>3
<1>8. CASE Write
  <2>1. writing' = Blank /\ received' = received /\ line' = line /\ typed' = typed
    BY <1>8 DEF Write, serverVars, typistVars
  <2>2. CASE writing = Blank
    BY <1>2, <1>8, <2>1, <2>2 DEF Write, WriteBytes, linkVars
  <2>3. CASE writing # Blank
    <3>1. up' = Append(up, writing)
      BY <1>1, <1>8, <2>3 DEF Write, WriteBytes
    <3>2. writing \in S /\ Pending(writing) = <<writing>>
      <4>1. writing \in 0 .. MaxTyped
        BY DEF ClientTypeOK
      <4>2. writing \in S
        BY <2>3, <4>1, ClientAssumption DEF Blank
      <4>. QED BY <2>3, <4>2 DEF Pending
    <3>3. received \o up' \o <<>> = received \o up \o <<writing>>
      <4>1. received \o up' = Append(received \o up, writing)
        BY <1>3, <3>1, <3>2, AppendLast
      <4>2. received \o up \o <<writing>> = Append(received \o up, writing)
        BY <1>4, <3>2, AppendIsConcat
      <4>3. received \o up' \in Seq(S)
        BY <1>3, <3>1, <3>2, AppendProperties, ConcatProperties
      <4>. QED BY <4>1, <4>2, <4>3, ConcatEmptySeq
    <3>. QED BY <1>2, <1>5, <2>1, <3>2, <3>3
  <2>. QED BY <2>2, <2>3
<1>9. CASE Type
  <2>1. line = Blank
    BY <1>9 DEF Type, Stages
  <2>2. received' = received /\ up' = up /\ writing' = writing
    BY <1>9 DEF Type, linkVars, serverVars, runVars
  <2>3. CASE typed' = typed + 1 /\ line' = typed'
    <3>1. line' # Blank /\ line' \in S
      BY <1>3, <2>3, ClientAssumption DEF Blank, ClientTypeOK
    <3>2. Pending(line') = <<typed + 1>>
      BY <2>3, <3>1 DEF Pending
    <3>3. received \o up \o Pending(writing) = UpTo(typed)
      BY <1>2, <1>4, <1>5, <2>1, ConcatEmptySeq
    <3>4. UpTo(typed) \o <<typed + 1>> = UpTo(typed + 1)
      <4>1. UpTo(typed) \in Seq(S)
        BY <1>4, <3>3
      <4>2. UpTo(typed) \o <<typed + 1>> = Append(UpTo(typed), typed + 1)
        BY <2>3, <3>1, <4>1, AppendIsConcat
      <4>. QED BY <1>3, <4>2, UpToNext
    <3>. QED BY <2>2, <2>3, <3>2, <3>3, <3>4
  <2>4. CASE line' = Blank /\ UNCHANGED typed
    BY <1>2, <2>1, <2>2, <2>4
  <2>. QED BY <1>9, <2>3, <2>4 DEF Type
<1>10. CASE ReadEndOfInput
  <2>1. line = Blank
    BY <1>10 DEF ReadEndOfInput, Stages
  <2>. QED BY <1>6, <1>10, <2>1 DEF ReadEndOfInput, linkVars, serverVars, runVars
<1>11. CASE HandlerReads
  <2>1. PICK n \in 1 .. Len(up) :
          /\ received' = received \o SubSeq(up, 1, n)
          /\ up' = SubSeq(up, n + 1, Len(up))
    BY <1>11 DEF HandlerReads
  <2>3. received' \o up' = received \o up
    BY <1>3, <2>1, MoveSeq
  <2>. QED BY <1>2, <1>11, <2>3 DEF HandlerReads, runVars, typistVars
<1>. QED
  <2>1. CASE Take \/ Write \/ Type \/ ReadEndOfInput \/ HandlerReads
    BY <2>1, <1>7, <1>8, <1>9, <1>10, <1>11
  <2>2. CASE ~(Take \/ Write \/ Type \/ ReadEndOfInput \/ HandlerReads)
    <3>1. UNCHANGED <<received, up, writing, line, typed>>
      BY <2>2 DEF ClientNext, vars, DialSucceeds, DialFails, Show, Return, Receive, StopReceiving, CheckContext, EndInput, InputFails, LoopReceives, LoopReceivesOther, LoopWrites, ServerCloses, LinkBreaks,
        runVars, receiverVars, typistVars, linkVars, serverVars
    <3>. QED BY <1>6, <3>1
  <2>. QED BY <2>1, <2>2

-----------------------------------------------------------------------------
\* No step leaves the invariant.
LEMMA ClientStep ==
  ASSUME ClientInv, [ClientNext]_vars
  PROVE  ClientInv'
<1>1. ClientTypeOK /\ Stages /\ IncomingKept /\ DialsBounded /\ Flowing
  BY DEF ClientInv, Flowing, Stages, OutgoingKept
<1>2. ClientTypeOK'
  BY <1>1, TypeStep
<1>3. Flowing'
  BY <1>1, <1>2, OutgoingStep
<1>4. Stages'
  BY <1>1, <1>3, StagesStep
<1>5. IncomingKept' /\ DialsBounded'
  BY <1>1, <1>2, <1>4, IncomingStep, DialsStep
<1>. QED BY <1>2, <1>3, <1>4, <1>5 DEF ClientInv, Flowing, OutgoingKept

\* The inductive invariant holds of every behaviour.
THEOREM ClientInvariant == ClientSpec => []ClientInv
BY CreateClientInv, ClientStep, PTL DEF ClientSpec

\* Every variable of the client and of the other end keeps its type.
THEOREM ClientTypes == ClientSpec => []ClientTypeOK
<1>1. ClientInv => ClientTypeOK BY DEF ClientInv
<1>. QED BY ClientInvariant, <1>1, PTL

\* What the server wrote is printed in order and in whole, by the time a client
\* returns because the server closed the connection.
THEOREM NothingUnread == ClientSpec => []IncomingKept
<1>1. ClientInv => IncomingKept BY DEF ClientInv
<1>. QED BY ClientInvariant, <1>1, PTL

\* Lines typed reach the handler in order, none lost or twice, while the
\* connection is up.
THEOREM NothingUnsent == ClientSpec => []OutgoingKept
<1>1. ClientInv => OutgoingKept BY DEF ClientInv
<1>. QED BY ClientInvariant, <1>1, PTL

\* tryConnect dials once more than RetriesCount before it gives up, and no more.
THEOREM RetriesAreCounted == ClientSpec => []DialsBounded
<1>1. ClientInv => DialsBounded BY DEF ClientInv
<1>. QED BY ClientInvariant, <1>1, PTL

\* When everybody waits, only the end of the connection gets anybody out.
THEOREM GridlockForGood == ClientSpec => GridlockStays
<1>1. ASSUME [ClientNext]_vars, Gridlock PROVE Gridlock' \/ link' # "open"
  <2>. USE DEF Gridlock
  <2>1. ~DialSucceeds /\ ~DialFails /\ ~Show /\ ~Take /\ ~Return /\ ~Receive
        /\ ~StopReceiving
    BY <1>1 DEF DialSucceeds, DialFails, Show, Take, Return, Receive, StopReceiving
  <2>2. ~Write /\ ~HandlerReads /\ ~LoopReceives /\ ~LoopReceivesOther /\ ~LoopWrites
    BY <1>1, ClientAssumption
       DEF Write, WriteBytes, HandlerReads, LoopReceives, LoopReceivesOther, LoopWrites
  <2>3. CASE CheckContext \/ Type \/ EndInput \/ ReadEndOfInput \/ InputFails
    BY <1>1, <2>3 DEF CheckContext, Type, EndInput, ReadEndOfInput, InputFails, runVars,
       receiverVars, linkVars, serverVars
  <2>4. CASE ServerCloses \/ LinkBreaks
    BY <2>4 DEF ServerCloses, LinkBreaks
  <2>5. CASE UNCHANGED vars
    BY <1>1, <2>5 DEF vars, runVars, receiverVars, linkVars, serverVars
  <2>. QED BY <1>1, <2>1, <2>2, <2>3, <2>4, <2>5 DEF ClientNext
<1>. QED BY <1>1, PTL DEF GridlockStays, ClientSpec

=============================================================================
