------------------------ MODULE CommandStreamProofs ------------------------
(***************************************************************************)
(* Proofs about CommandStream, for any number of calls on a connection.    *)
(***************************************************************************)
EXTENDS CommandStream, TLAPS

-----------------------------------------------------------------------------
(* Types.                                                                  *)

LEMMA InitTypes == Init => TypeOK
<1>. SUFFICES ASSUME Init
              PROVE  TypeOK
  OBVIOUS
<1>1. open \in BOOLEAN /\ pooled \in BOOLEAN /\ givenUp \in BOOLEAN
  BY DEF Init
<1>. QED
  BY <1>1, StreamAssumption DEF Init, TypeOK

\* An answer is two pieces.
LEMMA AnswerType ==
  ASSUME NEW c \in Calls
  PROVE  Answer(c) \in Seq(Piece)
BY DEF Answer, Piece

\* What is written to the stream are pieces of answers.
LEMMA WriteType ==
  ASSUME TypeOK, NEW c \in Calls, Write(c)
  PROVE  outbound' \in Seq(Piece)
BY AnswerType DEF TypeOK, Write

\* Dropping pieces from the front leaves pieces.
LEMMA DropType ==
  ASSUME NEW s \in Seq(Piece), NEW k \in 1 .. 3
  PROVE  SubSeq(s, k, Len(s)) \in Seq(Piece)
OBVIOUS

\* A call that lets the mutex go is the one that held it.
LEMMA UnlockTypes ==
  ASSUME TypeOK, NEW c \in Calls, pc[c] \in {"head", "body"},
         NEW result \in {"done", "failed"}, Unlock(c, result)
  PROVE  /\ pc' \in [Calls -> {"new", "waiting", "head", "body", "done", "failed"}]
         /\ holder' \in Calls \cup {None}
         /\ \A d \in Calls : pc'[d] \in {"head", "body"} <=> holder' = d
         /\ head' \in [Calls -> Calls \cup {None}]
BY StreamAssumption DEF TypeOK, Unlock

LEMMA NextTypes == TypeOK /\ [Next]_vars => TypeOK'
<1>. SUFFICES ASSUME TypeOK, [Next]_vars
              PROVE  TypeOK'
  OBVIOUS
<1>. USE StreamAssumption
<1>1. ASSUME NEW c \in Calls, Call(c)
      PROVE  TypeOK'
  BY <1>1 DEF TypeOK, Call, serverVars, connVars
<1>2. ASSUME NEW c \in Calls, Send(c)
      PROVE  TypeOK'
  BY <1>2 DEF TypeOK, Send, serverVars
<1>3. ASSUME NEW c \in Calls, SendFails(c)
      PROVE  TypeOK'
  BY <1>3 DEF TypeOK, SendFails, serverVars, connVars
<1>4. ASSUME NEW c \in Calls, ReadHead(c)
      PROVE  TypeOK'
  <2>1. Head(outbound) \in Piece /\ Tail(outbound) \in Seq(Piece)
    BY <1>4 DEF TypeOK, ReadHead
  <2>. QED
    BY <1>4, <2>1 DEF TypeOK, ReadHead, serverVars, Piece
<1>5. ASSUME NEW c \in Calls, ReadGarbage(c)
      PROVE  TypeOK'
  <2>1. outbound' \in Seq(Piece)
    BY <1>5, DropType DEF TypeOK, ReadGarbage
  <2>. QED
    BY <1>5, <2>1, UnlockTypes DEF TypeOK, ReadGarbage, serverVars
<1>6. ASSUME NEW c \in Calls, ReadShortHead(c)
      PROVE  TypeOK'
  BY <1>6, UnlockTypes DEF TypeOK, ReadShortHead, serverVars
<1>7. ASSUME NEW c \in Calls, ReadBody(c)
      PROVE  TypeOK'
  BY <1>7, UnlockTypes DEF TypeOK, ReadBody, serverVars
<1>8. ASSUME NEW c \in Calls, ReadShortBody(c)
      PROVE  TypeOK'
  BY <1>8, UnlockTypes DEF TypeOK, ReadShortBody, serverVars, connVars
<1>9. ASSUME NEW c \in Calls, TimeOut(c)
      PROVE  TypeOK'
  BY <1>9, UnlockTypes DEF TypeOK, TimeOut, serverVars, connVars
<1>10. ASSUME NEW c \in Calls, ReadEOF(c)
       PROVE  TypeOK'
  BY <1>10, UnlockTypes DEF TypeOK, ReadEOF, serverVars, connVars
<1>11. ASSUME NEW c \in Calls, Work(c)
       PROVE  TypeOK'
  BY <1>11, WriteType DEF TypeOK, Work, clientVars
<1>12. CASE OnTraffic
  <2>1. Head(inbound) \in Calls /\ Tail(inbound) \in Seq(Calls)
    BY <1>12 DEF TypeOK, OnTraffic
  <2>. QED
    BY <1>12, <2>1, WriteType DEF TypeOK, OnTraffic, clientVars, serverVars
<1>13. CASE OnTrafficPooled
  <2>1. Head(inbound) \in Calls /\ Tail(inbound) \in Seq(Calls)
    BY <1>13 DEF TypeOK, OnTrafficPooled
  <2>2. open' \in BOOLEAN /\ pooled' \in BOOLEAN /\ givenUp' \in BOOLEAN
    BY <1>13 DEF TypeOK, OnTrafficPooled, clientVars
  <2>3. inbound' \in Seq(Calls) /\ running' \in SUBSET Calls
    <3>1. \/ running' = running \cup {Head(inbound)} /\ inbound' = Tail(inbound)
          \/ running' = running /\ inbound' = <<>>
      BY <1>13 DEF OnTrafficPooled
    <3>2. inbound \in Seq(Calls) /\ <<>> \in Seq(Calls) /\ running \in SUBSET Calls
      BY DEF TypeOK
    <3>. QED
      BY <2>1, <3>1, <3>2
  <2>4. UNCHANGED <<pc, holder, head, got, sent, server, outbound>>
    BY <1>13 DEF OnTrafficPooled, clientVars
  <2>. QED
    BY <2>2, <2>3, <2>4 DEF TypeOK
<1>14. CASE OnPartialRequest
  <2>1. open' \in BOOLEAN /\ pooled' \in BOOLEAN /\ givenUp' \in BOOLEAN
    BY <1>14 DEF TypeOK, OnPartialRequest, clientVars
  <2>2. inbound' \in Seq(Calls) /\ running' \in SUBSET Calls /\ server' \in {"up", "down", "spinning"}
    <3>1. \/ server' = "spinning" /\ UNCHANGED <<inbound, running>>
          \/ server' = "down" /\ inbound' = <<>> /\ running' = {}
      BY <1>14 DEF OnPartialRequest
    <3>2. inbound \in Seq(Calls) /\ <<>> \in Seq(Calls) /\ running \in SUBSET Calls
      BY DEF TypeOK
    <3>. QED
      BY <3>1, <3>2
  <2>3. UNCHANGED <<pc, holder, head, got, sent, outbound>>
    BY <1>14 DEF OnPartialRequest, clientVars
  <2>. QED
    BY <2>1, <2>2, <2>3 DEF TypeOK
<1>15. CASE Stop
  <2>1. open' \in BOOLEAN /\ pooled' \in BOOLEAN /\ givenUp' \in BOOLEAN
    BY <1>15 DEF TypeOK, Stop, clientVars
  <2>. QED
    BY <1>15, <2>1 DEF TypeOK, Stop, clientVars
<1>16. CASE UNCHANGED vars
  BY <1>16 DEF TypeOK, vars, clientVars, serverVars, connVars
<1>. QED
  BY <1>1, <1>2, <1>3, <1>4, <1>5, <1>6, <1>7, <1>8, <1>9, <1>10, <1>11, <1>12, <1>13,
     <1>14, <1>15, <1>16 DEF Next, Read

\* The variables of a connection have their types, and whoever reads from it
\* holds its mutex: SendCmd locks it for all of a request and its answer.
THEOREM TypeCorrect == Spec => []TypeOK
<1>. QED
  BY InitTypes, NextTypes, PTL DEF Spec

-----------------------------------------------------------------------------
(* As long as no read is given up, the stream holds what belongs to the    *)
(* one call that has the mutex, and nothing else.                          *)

BodyOf(c) == [part |-> "body", of |-> c]

\* The server has no request of this connection; it may still work on some
\* once the connection is closed, and then writes nothing.
NothingAsked == open => inbound = <<>> /\ running = {}

OnlyAsked(c) == open => \/ inbound = <<c>> /\ running = {}
                        \/ inbound = <<>> /\ running \subseteq {c}

InStep ==
  /\ holder = None => outbound = <<>> /\ NothingAsked
  /\ \A c \in Calls :
       /\ pc[c] = "head" => \/ outbound = <<>> /\ OnlyAsked(c)
                            \/ outbound = Answer(c) /\ NothingAsked
       /\ pc[c] = "body" => outbound = <<BodyOf(c)>> /\ head[c] = c /\ NothingAsked
       /\ pc[c] = "done" => got[c] = c

MatchInv == ~givenUp => InStep

LEMMA InitMatch == Init => MatchInv
BY DEF Init, MatchInv, InStep, NothingAsked

\* One piece of an answer after the other.
LEMMA AnswerPieces ==
  ASSUME NEW c \in Calls
  PROVE  /\ Answer(c) # <<>>
         /\ Head(Answer(c)).part = "head"
         /\ Head(Answer(c)).of = c
         /\ Tail(Answer(c)) = <<BodyOf(c)>>
         /\ <<BodyOf(c)>> # <<>>
         /\ Head(<<BodyOf(c)>>).part = "body"
         /\ Tail(<<BodyOf(c)>>) = <<>>
         /\ <<>> \o Answer(c) = Answer(c)
BY DEF Answer, BodyOf

\* The only request there is.
LEMMA OneRequest ==
  ASSUME NEW c \in Calls
  PROVE  <<c>> # <<>> /\ Head(<<c>>) = c /\ Tail(<<c>>) = <<>> /\ Append(<<>>, c) = <<c>>
OBVIOUS

\* A call that lets the mutex go without an answer leaves an empty stream.
LEMMA FailsInStep ==
  ASSUME TypeOK, InStep, NEW c \in Calls, pc[c] \in {"head", "body"}, Unlock(c, "failed"),
         outbound' = <<>>, NothingAsked', UNCHANGED got
  PROVE  InStep'
BY DEF TypeOK, InStep, Unlock

LEMMA NextMatch == TypeOK /\ MatchInv /\ [Next]_vars => MatchInv'
<1>. SUFFICES ASSUME TypeOK, MatchInv, [Next]_vars, ~givenUp'
              PROVE  InStep'
  BY DEF MatchInv
<1>. USE StreamAssumption
<1>0. ASSUME ~givenUp
      PROVE  InStep
  BY <1>0 DEF MatchInv
<1>1. ASSUME NEW c \in Calls, Call(c)
      PROVE  InStep'
  <2>1. InStep /\ UNCHANGED <<holder, head, got, outbound, open, inbound, running>>
    BY <1>0, <1>1 DEF Call, serverVars, connVars
  <2>. QED
    BY <1>1, <2>1 DEF TypeOK, Call, InStep, NothingAsked, OnlyAsked
<1>2. ASSUME NEW c \in Calls, Send(c)
      PROVE  InStep'
  <2>1. InStep /\ UNCHANGED <<head, got, outbound, open, running>>
    BY <1>0, <1>2 DEF Send, serverVars
  <2>2. outbound' = <<>> /\ inbound' = <<c>> /\ running' = {} /\ holder' = c
    BY <1>2, <2>1, OneRequest DEF Send, InStep, NothingAsked
  <2>3. \A d \in Calls : /\ pc'[d] = "head" => d = c
                         /\ pc'[d] # "body"
                         /\ pc'[d] = "done" => pc[d] = "done"
    BY <1>2 DEF TypeOK, Send
  <2>. QED
    BY <2>1, <2>2, <2>3 DEF InStep, OnlyAsked
<1>3. ASSUME NEW c \in Calls, SendFails(c)
      PROVE  InStep'
  <2>1. InStep /\ UNCHANGED <<holder, head, got, outbound, open, inbound, running>>
    BY <1>0, <1>3 DEF SendFails, serverVars, connVars
  <2>. QED
    BY <1>3, <2>1 DEF TypeOK, SendFails, InStep, NothingAsked, OnlyAsked
<1>4. ASSUME NEW c \in Calls, ReadHead(c)
      PROVE  InStep'
  <2>1. InStep /\ UNCHANGED <<holder, got, open, inbound, running>>
    BY <1>0, <1>4 DEF ReadHead, serverVars
  <2>2. outbound = Answer(c) /\ NothingAsked
    BY <1>4, <2>1 DEF ReadHead, InStep
  <2>3. outbound' = <<BodyOf(c)>> /\ head' = [head EXCEPT ![c] = c] /\ NothingAsked'
    <3>1. outbound' = Tail(Answer(c)) /\ head' = [head EXCEPT ![c] = Head(Answer(c)).of]
      BY <1>4, <2>2 DEF ReadHead
    <3>2. NothingAsked'
      BY <2>1, <2>2 DEF NothingAsked
    <3>. QED
      BY <3>1, <3>2, AnswerPieces
  <2>4. \A d \in Calls : /\ pc'[d] # "head"
                         /\ pc'[d] = "body" => d = c
                         /\ pc'[d] = "done" => pc[d] = "done"
    BY <1>4 DEF TypeOK, ReadHead
  <2>5. holder' # None /\ head'[c] = c
    BY <1>4, <2>1, <2>3 DEF TypeOK, ReadHead
  <2>. QED
    BY <2>1, <2>3, <2>4, <2>5 DEF InStep
<1>5. ASSUME NEW c \in Calls, ReadGarbage(c)
      PROVE  FALSE
  <2>1. InStep
    BY <1>0, <1>5 DEF ReadGarbage
  <2>. QED
    BY <1>5, <2>1, AnswerPieces DEF ReadGarbage, InStep
<1>7. ASSUME NEW c \in Calls, ReadBody(c)
      PROVE  InStep'
  <2>1. InStep /\ UNCHANGED <<open, inbound, running>>
    BY <1>0, <1>7 DEF ReadBody, serverVars
  <2>2. outbound' = <<>> /\ head[c] = c /\ NothingAsked
    BY <1>7, <2>1, AnswerPieces DEF ReadBody, InStep
  <2>3. NothingAsked'
    BY <2>1, <2>2 DEF NothingAsked
  <2>4. \A d \in Calls : /\ pc'[d] \notin {"head", "body"}
                         /\ pc'[d] = "done" => d = c \/ pc[d] = "done"
                         /\ got'[d] = IF d = c THEN c ELSE got[d]
    BY <1>7, <2>2 DEF TypeOK, ReadBody, Unlock
  <2>. QED
    BY <2>1, <2>2, <2>3, <2>4 DEF InStep
<1>10. ASSUME NEW c \in Calls, ReadEOF(c)
       PROVE  InStep'
  <2>1. InStep /\ outbound' = <<>> /\ NothingAsked' /\ UNCHANGED got
    BY <1>0, <1>10 DEF ReadEOF, connVars, NothingAsked
  <2>. QED
    BY <1>10, <2>1, FailsInStep DEF ReadEOF
<1>11. ASSUME NEW c \in Calls, Work(c)
       PROVE  InStep'
  <2>1. InStep /\ UNCHANGED <<pc, holder, head, got, open, inbound>> /\ running' = running \ {c}
    BY <1>0, <1>11 DEF Work, clientVars
  <2>2. CASE open /\ server = "up"
    <3>1. \A d \in Calls : pc[d] = "head" => d = c
      BY <1>11, <2>1, <2>2 DEF Work, InStep, NothingAsked, OnlyAsked
    <3>2. \A d \in Calls : pc[d] # "body" /\ holder # None
      BY <1>11, <2>1, <2>2 DEF Work, InStep, NothingAsked
    <3>3. pc[c] = "head" => outbound' = Answer(c) /\ inbound' = <<>> /\ running' = {}
      <4>. SUFFICES ASSUME pc[c] = "head"
                    PROVE  outbound' = Answer(c) /\ inbound' = <<>> /\ running' = {}
        OBVIOUS
      <4>1. outbound = <<>> /\ inbound = <<>> /\ running \subseteq {c}
        BY <1>11, <2>1, <2>2 DEF Work, InStep, NothingAsked, OnlyAsked
      <4>. QED
        BY <1>11, <2>1, <2>2, <4>1, AnswerPieces DEF Work, Write
    <3>. QED
      BY <2>1, <3>1, <3>2, <3>3 DEF InStep, NothingAsked
  <2>3. CASE ~(open /\ server = "up")
    <3>1. outbound' = outbound
      BY <1>11, <2>3 DEF Work, Write
    <3>. QED
      BY <2>1, <3>1 DEF InStep, NothingAsked, OnlyAsked
  <2>. QED
    BY <2>2, <2>3
<1>12. CASE OnTraffic
  <2>1. InStep /\ UNCHANGED <<pc, holder, head, got, open, running>>
    BY <1>0, <1>12 DEF OnTraffic, clientVars, serverVars
  <2>2. open /\ inbound # <<>> /\ server = "up"
    BY <1>12 DEF OnTraffic
  <2>3. holder # None /\ \A d \in Calls : pc[d] # "body"
    BY <2>1, <2>2 DEF InStep, NothingAsked
  <2>4. ASSUME NEW d \in Calls, pc[d] = "head"
        PROVE  outbound' = Answer(d) /\ inbound' = <<>> /\ running' = {}
    <3>1. outbound = <<>> /\ inbound = <<d>> /\ running = {}
      BY <2>1, <2>2, <2>4 DEF InStep, NothingAsked, OnlyAsked
    <3>. QED
      BY <1>12, <2>1, <2>2, <3>1, OneRequest, AnswerPieces DEF OnTraffic, Write
  <2>. QED
    BY <2>1, <2>3, <2>4 DEF InStep, NothingAsked
<1>13. CASE OnTrafficPooled
  <2>1. InStep /\ UNCHANGED <<pc, holder, head, got, outbound>>
    BY <1>0, <1>13 DEF OnTrafficPooled, clientVars
  <2>2. open /\ inbound # <<>>
    BY <1>13 DEF OnTrafficPooled
  <2>3. CASE open' = FALSE
    BY <2>1, <2>3 DEF InStep, NothingAsked, OnlyAsked
  <2>4. CASE open' # FALSE
    <3>1. running' = running \cup {Head(inbound)} /\ inbound' = Tail(inbound)
      BY <1>13, <2>4 DEF OnTrafficPooled
    <3>2. holder # None /\ \A d \in Calls : pc[d] # "body"
      BY <2>1, <2>2 DEF InStep, NothingAsked
    <3>3. ASSUME NEW d \in Calls, pc[d] = "head"
          PROVE  outbound = <<>> /\ inbound' = <<>> /\ running' \subseteq {d}
      <4>1. outbound = <<>> /\ inbound = <<d>> /\ running = {}
        BY <2>1, <2>2, <3>3 DEF InStep, NothingAsked, OnlyAsked
      <4>. QED
        BY <3>1, <4>1, OneRequest
    <3>. QED
      BY <2>1, <3>2, <3>3 DEF InStep, OnlyAsked
  <2>. QED
    BY <2>3, <2>4
<1>14. CASE OnPartialRequest
  <2>1. InStep /\ UNCHANGED <<pc, holder, head, got, outbound>>
    BY <1>0, <1>14 DEF OnPartialRequest, clientVars
  <2>2. open' = FALSE \/ UNCHANGED <<open, inbound, running>>
    BY <1>14 DEF OnPartialRequest
  <2>. QED
    BY <2>1, <2>2 DEF InStep, NothingAsked, OnlyAsked
<1>15. CASE Stop
  <2>1. InStep /\ UNCHANGED <<pc, holder, head, got, outbound>> /\ open' = FALSE
    BY <1>0, <1>15 DEF Stop, clientVars
  <2>. QED
    BY <2>1 DEF InStep, NothingAsked, OnlyAsked
<1>16. CASE UNCHANGED vars
  BY <1>0, <1>16 DEF vars, clientVars, serverVars, connVars, InStep, NothingAsked, OnlyAsked
<1>17. \A c \in Calls : ReadShortHead(c) \/ ReadShortBody(c) \/ TimeOut(c) => FALSE
  BY DEF ReadShortHead, ReadShortBody, TimeOut
<1>. QED
  BY <1>1, <1>2, <1>3, <1>4, <1>5, <1>7, <1>10, <1>11, <1>12, <1>13, <1>14, <1>15, <1>16, <1>17
     DEF Next, Read

\* Nothing in the stream says whose answer is whose, and yet a call returns the
\* answer to its own command, as long as no call on the connection was given up
\* by its deadline or by a short read.
THEOREM AnswersMatch == Spec => []AnswersMatchUntilGivenUp
<1>1. TypeOK /\ MatchInv => AnswersMatchUntilGivenUp
  BY DEF MatchInv, InStep, AnswersMatchUntilGivenUp
<1>. QED
  BY InitMatch, NextMatch, TypeCorrect, <1>1, PTL DEF Spec

-----------------------------------------------------------------------------
(* Whatever is given up, a command is in one place at most: among the      *)
(* requests, with a worker, in the stream as the header of its answer, or  *)
(* taken by one call.  Bodies do not matter, as nothing is told by them.   *)

IsIn(s, x) == \E i \in 1 .. Len(s) : s[i] = x

Once(s) == \A i, j \in 1 .. Len(s) : s[i] = s[j] => i = j

HeadOf(c) == [part |-> "head", of |-> c]

HeadsOnce(s) == \A i, j \in 1 .. Len(s) : s[i].part = "head" /\ s[i] = s[j] => i = j

LEMMA AppendIsIn ==
  ASSUME NEW S, NEW s \in Seq(S), NEW x \in S
  PROVE  /\ \A y : IsIn(Append(s, x), y) <=> IsIn(s, y) \/ y = x
         /\ Once(s) /\ ~IsIn(s, x) => Once(Append(s, x))
BY DEF IsIn, Once

LEMMA TailIsIn ==
  ASSUME NEW S, NEW s \in Seq(S), s # <<>>
  PROVE  /\ IsIn(s, Head(s))
         /\ \A y : IsIn(Tail(s), y) => IsIn(s, y)
         /\ Once(s) => Once(Tail(s)) /\ ~IsIn(Tail(s), Head(s))
<1>1. /\ Len(s) \in Nat \ {0}
      /\ Head(s) = s[1]
      /\ Len(Tail(s)) = Len(s) - 1
      /\ \A i \in 1 .. Len(Tail(s)) : Tail(s)[i] = s[i + 1]
  OBVIOUS
<1>. QED
  BY <1>1 DEF IsIn, Once

\* Pieces dropped from the front leave what follows as it was.
LEMMA DropHeads ==
  ASSUME NEW s \in Seq(Piece), NEW k \in 1 .. 3, HeadsOnce(s)
  PROVE  /\ HeadsOnce(SubSeq(s, k, Len(s)))
         /\ \A y : IsIn(SubSeq(s, k, Len(s)), y) => IsIn(s, y)
<1>. DEFINE t == SubSeq(s, k, Len(s))
<1>1. /\ Len(s) \in Nat
      /\ Len(t) = IF k <= Len(s) THEN Len(s) - k + 1 ELSE 0
      /\ \A i \in 1 .. Len(t) : t[i] = s[k + i - 1]
  OBVIOUS
<1>2. \A i \in 1 .. Len(t) : k + i - 1 \in 1 .. Len(s)
  BY <1>1
<1>. HIDE DEF t
<1>3. HeadsOnce(t)
  BY <1>1, <1>2 DEF HeadsOnce
<1>4. \A y : IsIn(t, y) => IsIn(s, y)
  BY <1>1, <1>2 DEF IsIn
<1>. QED
  BY <1>3, <1>4 DEF t

\* The header that is read is gone from the stream.
LEMMA TailHeads ==
  ASSUME NEW s \in Seq(Piece), s # <<>>, HeadsOnce(s)
  PROVE  /\ HeadsOnce(Tail(s))
         /\ \A y : IsIn(Tail(s), y) => IsIn(s, y)
         /\ Head(s) \in Piece
         /\ Head(s).part = "head" => /\ Head(s) = HeadOf(Head(s).of)
                                     /\ IsIn(s, HeadOf(Head(s).of))
                                     /\ ~IsIn(Tail(s), HeadOf(Head(s).of))
<1>1. /\ Len(s) \in Nat \ {0}
      /\ Head(s) = s[1]
      /\ Len(Tail(s)) = Len(s) - 1
      /\ \A i \in 1 .. Len(Tail(s)) : Tail(s)[i] = s[i + 1]
      /\ s[1] \in Piece
  OBVIOUS
<1>2. s[1].part = "head" => s[1] = HeadOf(s[1].of)
  BY <1>1 DEF Piece, HeadOf
<1>3. HeadsOnce(Tail(s))
  BY <1>1 DEF HeadsOnce
<1>4. \A y : IsIn(Tail(s), y) => IsIn(s, y)
  BY <1>1 DEF IsIn
<1>5. s[1].part = "head" => ~IsIn(Tail(s), s[1]) /\ IsIn(s, s[1])
  BY <1>1 DEF IsIn, HeadsOnce
<1>. QED
  BY <1>1, <1>2, <1>3, <1>4, <1>5

\* An answer adds its own header to the stream.
LEMMA AnswerHeads ==
  ASSUME NEW s \in Seq(Piece), NEW c \in Calls
  PROVE  /\ \A d \in Calls : IsIn(s \o Answer(c), HeadOf(d)) <=> IsIn(s, HeadOf(d)) \/ d = c
         /\ HeadsOnce(s) /\ ~IsIn(s, HeadOf(c)) => HeadsOnce(s \o Answer(c))
<1>. DEFINE t == s \o Answer(c)
<1>1. /\ Len(s) \in Nat
      /\ Len(t) = Len(s) + 2
      /\ \A i \in 1 .. Len(s) : t[i] = s[i]
      /\ t[Len(s) + 1] = HeadOf(c)
      /\ t[Len(s) + 2] = BodyOf(c)
  BY DEF Answer, HeadOf, BodyOf
<1>2. BodyOf(c).part # "head" /\ \A d : HeadOf(d).part = "head" /\ HeadOf(d).of = d /\ BodyOf(c) # HeadOf(d)
  BY DEF HeadOf, BodyOf
<1>3. \A i \in 1 .. Len(t) : i \in 1 .. Len(s) \/ i = Len(s) + 1 \/ i = Len(s) + 2
  BY <1>1
<1>. HIDE DEF t
<1>4. \A d \in Calls : IsIn(t, HeadOf(d)) <=> IsIn(s, HeadOf(d)) \/ d = c
  BY <1>1, <1>2, <1>3 DEF IsIn
<1>5. HeadsOnce(s) /\ ~IsIn(s, HeadOf(c)) => HeadsOnce(t)
  <2>. SUFFICES ASSUME HeadsOnce(s), ~IsIn(s, HeadOf(c)),
                       NEW i \in 1 .. Len(t), NEW j \in 1 .. Len(t),
                       t[i].part = "head", t[i] = t[j]
                PROVE  i = j
    BY DEF HeadsOnce
  <2>1. i # Len(s) + 2 /\ j # Len(s) + 2
    BY <1>1, <1>2
  <2>. QED
    BY <1>1, <1>3, <2>1 DEF HeadsOnce, IsIn
<1>. QED
  BY <1>4, <1>5 DEF t

\* Where a command that is still to be answered is.
Pending(d) == IsIn(inbound, d) \/ d \in running \/ IsIn(outbound, HeadOf(d))

\* Its answer went to call c, or is about to.
TakenBy(c, d) == (pc[c] = "body" /\ head[c] = d) \/ (pc[c] = "done" /\ got[c] = d)

SentBefore(d, c) == \E i, j \in 1 .. Len(sent) : i <= j /\ sent[i] = d /\ sent[j] = c

\* A call is sent once, and who reads was sent last.
SentInv ==
  /\ Once(sent)
  /\ \A c \in Calls : pc[c] \in {"new", "waiting"} => ~IsIn(sent, c)
  /\ \A c \in Calls : pc[c] \in {"head", "body"} => sent # <<>> /\ sent[Len(sent)] = c

\* A command that the server has is in one place.
PlaceInv ==
  /\ Once(inbound)
  /\ HeadsOnce(outbound)
  /\ \A d \in Calls : IsIn(inbound, d) => d \notin running
  /\ \A d \in Calls : IsIn(outbound, HeadOf(d)) => ~IsIn(inbound, d) /\ d \notin running
  /\ \A d \in Calls : Pending(d) => IsIn(sent, d)

\* A command whose answer is taken is nowhere else.
TakenInv ==
  /\ \A c, d \in Calls : TakenBy(c, d) => ~Pending(d) /\ IsIn(sent, d)
  /\ \A c, d, e \in Calls : TakenBy(c, e) /\ TakenBy(d, e) => c = d
  /\ \A c \in Calls : pc[c] = "body" => head[c] # None
  /\ \A c \in Calls : pc[c] = "done" => got[c] # None /\ SentBefore(got[c], c)

OnceInv == SentInv /\ PlaceInv /\ TakenInv

LEMMA InitOnce == Init => OnceInv
<1>. SUFFICES ASSUME Init
              PROVE  OnceInv
  OBVIOUS
<1>1. Len(<<>>) = 0
  OBVIOUS
<1>2. /\ Once(<<>>) /\ HeadsOnce(<<>>)
      /\ \A y : ~IsIn(<<>>, y)
  BY <1>1 DEF Once, HeadsOnce, IsIn
<1>3. SentInv
  BY <1>2 DEF Init, SentInv
<1>4. PlaceInv
  BY <1>2 DEF Init, PlaceInv, Pending
<1>5. TakenInv
  BY DEF Init, TakenInv, TakenBy
<1>. QED
  BY <1>3, <1>4, <1>5 DEF OnceInv

\* A step in which nothing is sent and no call starts to read.
LEMMA SameSent ==
  ASSUME TypeOK, SentInv, UNCHANGED sent,
         \A c \in Calls : /\ pc'[c] \in {"new", "waiting"} => pc[c] \in {"new", "waiting"}
                          /\ pc'[c] \in {"head", "body"} => pc[c] \in {"head", "body"}
  PROVE  SentInv'
BY DEF SentInv, Once, IsIn

\* A step in which no answer is taken and no command is asked again.
LEMMA SameTaken ==
  ASSUME TypeOK, TakenInv, UNCHANGED <<sent, got>>,
         \A c \in Calls : pc'[c] = "body" => pc[c] = "body" /\ head'[c] = head[c],
         \A c \in Calls : pc'[c] = "done" => pc[c] = "done",
         \A d \in Calls : Pending(d)' => Pending(d)
  PROVE  TakenInv'
<1>1. \A c, d \in Calls : TakenBy(c, d)' => TakenBy(c, d)
  BY DEF TakenBy
<1>2. \A d, c \in Calls : SentBefore(d, c)' <=> SentBefore(d, c)
  BY DEF SentBefore
<1>3. \A d \in Calls : IsIn(sent, d)' <=> IsIn(sent, d)
  BY DEF IsIn
<1>4. \A c \in Calls : pc[c] = "done" => got[c] \in Calls
  BY DEF TypeOK, TakenInv
<1>. QED
  BY <1>1, <1>2, <1>3, <1>4 DEF TakenInv

\* A step that takes pieces from the stream, or none, and leaves the requests.
LEMMA FewerHeads ==
  ASSUME TypeOK, PlaceInv, UNCHANGED <<inbound, running, sent>>,
         HeadsOnce(outbound'),
         \A d \in Calls : IsIn(outbound', HeadOf(d)) => IsIn(outbound, HeadOf(d))
  PROVE  /\ PlaceInv'
         /\ \A d \in Calls : Pending(d)' => Pending(d)
BY DEF PlaceInv, Pending, Once, IsIn, HeadsOnce, HeadOf

\* A call lets the mutex go without an answer.
LEMMA FailKeeps ==
  ASSUME TypeOK, OnceInv, NEW c \in Calls, pc[c] \in {"head", "body"}, Unlock(c, "failed"),
         UNCHANGED <<got, inbound, running, sent>>,
         HeadsOnce(outbound'),
         \A d \in Calls : IsIn(outbound', HeadOf(d)) => IsIn(outbound, HeadOf(d))
  PROVE  OnceInv'
<1>1. \A d \in Calls : /\ pc'[d] = IF d = c THEN "failed" ELSE pc[d]
                       /\ d # c => head'[d] = head[d]
  BY DEF TypeOK, Unlock
<1>2. SentInv'
  BY <1>1, SameSent DEF OnceInv
<1>3. PlaceInv' /\ \A d \in Calls : Pending(d)' => Pending(d)
  BY FewerHeads DEF OnceInv
<1>4. TakenInv'
  BY <1>1, <1>3, SameTaken DEF OnceInv
<1>. QED
  BY <1>2, <1>3, <1>4 DEF OnceInv

\* Clients' variables do not change: what is left to show is where commands are.
LEMMA ServerKeeps ==
  ASSUME TypeOK, OnceInv, UNCHANGED clientVars, PlaceInv',
         \A d \in Calls : Pending(d)' => Pending(d)
  PROVE  OnceInv'
<1>1. UNCHANGED <<pc, head, got, sent>>
  BY DEF clientVars
<1>2. SentInv'
  BY <1>1, SameSent DEF OnceInv
<1>3. TakenInv'
  BY <1>1, SameTaken DEF OnceInv
<1>. QED
  BY <1>2, <1>3 DEF OnceInv

\* A command that leaves the requests or the workers is answered, or forgotten.
LEMMA AnswerKeeps ==
  ASSUME TypeOK, OnceInv, UNCHANGED clientVars, NEW c \in Calls, Write(c),
         IsIn(inbound, c) \/ c \in running,
         ~IsIn(inbound', c), c \notin running', Once(inbound'),
         \A d \in Calls : IsIn(inbound', d) => IsIn(inbound, d),
         running' \subseteq running
  PROVE  OnceInv'
<1>1. sent' = sent
  BY DEF clientVars
<1>2. Pending(c) /\ ~IsIn(outbound, HeadOf(c)) /\ IsIn(sent, c)
  BY DEF Pending, OnceInv, PlaceInv
<1>3. /\ HeadsOnce(outbound')
      /\ \A d \in Calls : IsIn(outbound', HeadOf(d)) => IsIn(outbound, HeadOf(d)) \/ d = c
  <2>1. outbound' = outbound \/ outbound' = outbound \o Answer(c)
    BY DEF Write
  <2>2. outbound \in Seq(Piece) /\ HeadsOnce(outbound)
    BY DEF TypeOK, OnceInv, PlaceInv
  <2>3. CASE outbound' = outbound
    BY <2>2, <2>3
  <2>4. CASE outbound' = outbound \o Answer(c)
    BY <1>2, <2>2, <2>4, AnswerHeads
  <2>. QED
    BY <2>1, <2>3, <2>4
<1>4. \A d \in Calls : IsIn(sent', d) <=> IsIn(sent, d)
  BY <1>1
<1>5. \A d \in Calls : /\ Pending(d)' <=> IsIn(inbound', d) \/ d \in running' \/ IsIn(outbound', HeadOf(d))
                       /\ IsIn(sent, d)' <=> IsIn(sent', d)
                       /\ IsIn(inbound, d)' <=> IsIn(inbound', d)
                       /\ IsIn(outbound, HeadOf(d))' <=> IsIn(outbound', HeadOf(d))
  BY DEF Pending, IsIn, HeadOf
<1>6. \A d \in Calls : Pending(d)' => Pending(d)
  BY <1>2, <1>3, <1>5 DEF Pending
<1>7. Once(inbound)' /\ HeadsOnce(outbound)'
  BY <1>3 DEF Once, HeadsOnce
<1>8. PlaceInv'
  BY <1>2, <1>3, <1>4, <1>5, <1>6, <1>7 DEF OnceInv, PlaceInv
<1>. QED
  BY <1>6, <1>8, ServerKeeps

LEMMA NextOnce == TypeOK /\ OnceInv /\ [Next]_vars => OnceInv'
<1>. SUFFICES ASSUME TypeOK, OnceInv, [Next]_vars
              PROVE  OnceInv'
  OBVIOUS
<1>. USE StreamAssumption
<1>0. HeadsOnce(outbound) /\ outbound \in Seq(Piece) /\ inbound \in Seq(Calls) /\ Once(inbound)
  BY DEF TypeOK, OnceInv, PlaceInv
<1>1. ASSUME NEW c \in Calls, Call(c) \/ SendFails(c)
      PROVE  OnceInv'
  <2>1. UNCHANGED <<head, got, sent, inbound, running, outbound>>
    BY <1>1 DEF Call, SendFails, serverVars, connVars
  <2>2. \A d \in Calls : pc'[d] = pc[d] \/ (pc[d] \in {"new", "waiting"} /\ pc'[d] \in {"waiting", "failed"})
    BY <1>1 DEF TypeOK, Call, SendFails
  <2>3. SentInv'
    BY <2>1, <2>2, SameSent DEF OnceInv
  <2>4. PlaceInv' /\ \A d \in Calls : Pending(d)' => Pending(d)
    BY <1>0, <2>1, FewerHeads DEF OnceInv
  <2>5. TakenInv'
    BY <2>1, <2>2, <2>4, SameTaken DEF OnceInv
  <2>. QED
    BY <2>3, <2>4, <2>5 DEF OnceInv
<1>2. ASSUME NEW c \in Calls, Send(c)
      PROVE  OnceInv'
  <2>1. UNCHANGED <<head, got, running, outbound>> /\ inbound' = Append(inbound, c) /\ sent' = Append(sent, c)
    BY <1>2 DEF Send, serverVars
  <2>2. \A d \in Calls : /\ pc'[d] = IF d = c THEN "head" ELSE pc[d]
                         /\ pc[d] \notin {"head", "body"}
    BY <1>2 DEF TypeOK, Send
  <2>3. ~IsIn(sent, c) /\ pc[c] = "waiting"
    BY <1>2 DEF Send, OnceInv, SentInv
  <2>4. ~IsIn(inbound, c) /\ c \notin running /\ ~IsIn(outbound, HeadOf(c))
    BY <2>3 DEF OnceInv, PlaceInv, Pending
  <2>5. sent \in Seq(Calls)
    BY DEF TypeOK
  <2>6. /\ \A y : IsIn(sent', y) <=> IsIn(sent, y) \/ y = c
        /\ Once(sent')
        /\ \A y : IsIn(inbound', y) <=> IsIn(inbound, y) \/ y = c
        /\ Once(inbound')
    BY <1>0, <2>1, <2>3, <2>4, <2>5, AppendIsIn DEF OnceInv, SentInv
  <2>7. sent' # <<>> /\ sent'[Len(sent')] = c
    BY <2>1, <2>5
  <2>8. \A d \in Calls : /\ Pending(d)' <=> IsIn(inbound', d) \/ d \in running \/ IsIn(outbound, HeadOf(d))
                         /\ IsIn(sent, d)' <=> IsIn(sent', d)
                         /\ IsIn(inbound, d)' <=> IsIn(inbound', d)
                         /\ IsIn(outbound, HeadOf(d))' <=> IsIn(outbound, HeadOf(d))
    BY <2>1 DEF Pending, IsIn, HeadOf
  <2>9. Once(sent)' /\ Once(inbound)' /\ HeadsOnce(outbound)'
    BY <1>0, <2>1, <2>6 DEF Once, HeadsOnce
  <2>10. SentInv'
    BY <2>2, <2>6, <2>7, <2>8, <2>9 DEF OnceInv, SentInv
  <2>11. PlaceInv'
    BY <2>1, <2>4, <2>6, <2>8, <2>9 DEF OnceInv, PlaceInv, Pending
  <2>12. \A d, e \in Calls : TakenBy(d, e)' => TakenBy(d, e) /\ e # c
    BY <2>1, <2>2, <2>3 DEF TakenBy, OnceInv, TakenInv
  <2>13. \A d, e \in Calls : SentBefore(d, e) => SentBefore(d, e)'
    BY <2>1, <2>5 DEF SentBefore
  <2>14. \A d \in Calls : pc'[d] = "done" => pc[d] = "done" /\ got'[d] = got[d] /\ got[d] \in Calls
    BY <2>1, <2>2 DEF TypeOK, OnceInv, TakenInv
  <2>15. TakenInv'
    BY <2>1, <2>2, <2>6, <2>8, <2>12, <2>13, <2>14 DEF OnceInv, TakenInv, Pending
  <2>. QED
    BY <2>10, <2>11, <2>15 DEF OnceInv
<1>4. ASSUME NEW c \in Calls, ReadHead(c)
      PROVE  OnceInv'
  <2>1. UNCHANGED <<got, sent, running, inbound>> /\ outbound' = Tail(outbound)
    BY <1>4 DEF ReadHead, serverVars
  <2>0. PICK of \in Calls : of = Head(outbound).of
    <3>1. Head(outbound) \in Piece
      BY <1>0, <1>4 DEF ReadHead
    <3>. QED
      BY <3>1 DEF Piece
  <2>2. /\ HeadsOnce(outbound')
        /\ \A y : IsIn(outbound', y) => IsIn(outbound, y)
        /\ IsIn(outbound, HeadOf(of))
        /\ ~IsIn(outbound', HeadOf(of))
    <3>1. outbound # <<>> /\ Head(outbound).part = "head"
      BY <1>4 DEF ReadHead
    <3>. QED
      BY <1>0, <2>0, <2>1, <3>1, TailHeads
  <2>3. pc[c] = "head" /\ \A d \in Calls : /\ pc'[d] = IF d = c THEN "body" ELSE pc[d]
                                           /\ head'[d] = IF d = c THEN of ELSE head[d]
    BY <1>4, <2>0 DEF TypeOK, ReadHead
  <2>4. SentInv'
    BY <2>1, <2>3, SameSent DEF OnceInv
  <2>5. PlaceInv' /\ \A d \in Calls : Pending(d)' => Pending(d)
    BY <2>1, <2>2, FewerHeads DEF OnceInv
  <2>6. Pending(of) /\ ~Pending(of)' /\ IsIn(sent, of)
    <3>1. ~IsIn(inbound, of) /\ of \notin running /\ Pending(of)
      BY <2>2 DEF OnceInv, PlaceInv, Pending
    <3>2. ~Pending(of)'
      BY <2>1, <2>2, <3>1 DEF Pending, IsIn, HeadOf
    <3>. QED
      BY <2>2, <3>1, <3>2 DEF OnceInv, PlaceInv
  <2>7. \A d, e \in Calls : TakenBy(d, e)' => TakenBy(d, e) \/ (d = c /\ e = of)
    BY <2>1, <2>3 DEF TakenBy
  <2>8. \A d \in Calls : ~TakenBy(d, of)
    BY <2>2, <2>6 DEF OnceInv, TakenInv
  <2>9. /\ \A d, e \in Calls : SentBefore(d, e)' <=> SentBefore(d, e)
        /\ \A d \in Calls : IsIn(sent, d)' <=> IsIn(sent, d)
    BY <2>1 DEF SentBefore, IsIn
  <2>10. \A d \in Calls : pc'[d] = "done" => pc[d] = "done" /\ got'[d] = got[d] /\ got[d] \in Calls
    BY <2>1, <2>3 DEF TypeOK, OnceInv, TakenInv
  <2>11. \A d \in Calls : pc'[d] = "body" => head'[d] # None
    BY <2>2, <2>3 DEF OnceInv, TakenInv
  <2>12. TakenInv'
    BY <2>2, <2>5, <2>6, <2>7, <2>8, <2>9, <2>10, <2>11 DEF OnceInv, TakenInv
  <2>. QED
    BY <2>4, <2>5, <2>12 DEF OnceInv
<1>5. ASSUME NEW c \in Calls, ReadGarbage(c)
      PROVE  OnceInv'
  <2>1. PICK k \in 1 .. 3 : outbound' = SubSeq(outbound, k, Len(outbound))
    BY <1>5 DEF ReadGarbage
  <2>2. HeadsOnce(outbound') /\ \A y : IsIn(outbound', y) => IsIn(outbound, y)
    BY <1>0, <2>1, DropHeads
  <2>. QED
    BY <1>5, <2>2, FailKeeps DEF ReadGarbage, serverVars
<1>6. ASSUME NEW c \in Calls, ReadShortHead(c)
      PROVE  OnceInv'
  <2>1. HeadsOnce(outbound') /\ \A y : IsIn(outbound', y) => IsIn(outbound, y)
    BY <1>0, <1>6, TailHeads DEF ReadShortHead
  <2>. QED
    BY <1>6, <2>1, FailKeeps DEF ReadShortHead, serverVars
<1>7. ASSUME NEW c \in Calls, ReadBody(c)
      PROVE  OnceInv'
  <2>1. UNCHANGED <<sent, running, inbound>> /\ outbound' = Tail(outbound) /\ pc[c] = "body"
    BY <1>7 DEF ReadBody, serverVars
  <2>2. HeadsOnce(outbound') /\ \A y : IsIn(outbound', y) => IsIn(outbound, y)
    BY <1>0, <1>7, <2>1, TailHeads DEF ReadBody
  <2>3. \A d \in Calls : /\ pc'[d] = IF d = c THEN "done" ELSE pc[d]
                         /\ d # c => head'[d] = head[d]
                         /\ got'[d] = IF d = c THEN head[c] ELSE got[d]
    BY <1>7 DEF TypeOK, ReadBody, Unlock
  <2>4. SentInv'
    BY <2>1, <2>3, SameSent DEF OnceInv
  <2>5. PlaceInv' /\ \A d \in Calls : Pending(d)' => Pending(d)
    BY <2>1, <2>2, FewerHeads DEF OnceInv
  <2>6. \A d, e \in Calls : TakenBy(d, e)' => TakenBy(d, e)
    BY <2>1, <2>3 DEF TakenBy
  <2>7. head[c] \in Calls /\ IsIn(sent, head[c])
    BY <2>1 DEF TypeOK, OnceInv, TakenInv, TakenBy
  <2>8. SentBefore(head[c], c)
    BY <2>1, <2>7 DEF TypeOK, OnceInv, SentInv, SentBefore, IsIn
  <2>9. /\ \A d, e \in Calls : SentBefore(d, e)' <=> SentBefore(d, e)
        /\ \A d \in Calls : IsIn(sent, d)' <=> IsIn(sent, d)
    BY <2>1 DEF SentBefore, IsIn
  <2>10. \A d \in Calls : pc'[d] = "done" => got'[d] \in Calls /\ SentBefore(got'[d], d)
    BY <2>3, <2>7, <2>8 DEF TypeOK, OnceInv, TakenInv
  <2>11. \A d \in Calls : pc'[d] = "body" => head'[d] # None
    BY <2>3 DEF OnceInv, TakenInv
  <2>12. TakenInv'
    BY <2>5, <2>6, <2>9, <2>10, <2>11 DEF OnceInv, TakenInv
  <2>. QED
    BY <2>4, <2>5, <2>12 DEF OnceInv
<1>8. ASSUME NEW c \in Calls, ReadShortBody(c) \/ TimeOut(c) \/ ReadEOF(c)
      PROVE  OnceInv'
  <2>1. UNCHANGED <<got, sent, running, inbound, outbound>>
    BY <1>8 DEF ReadShortBody, TimeOut, ReadEOF, serverVars, connVars
  <2>2. pc[c] \in {"head", "body"} /\ Unlock(c, "failed")
    BY <1>8 DEF ReadShortBody, TimeOut, ReadEOF
  <2>. QED
    BY <1>0, <2>1, <2>2, FailKeeps
<1>11. ASSUME NEW c \in Calls, Work(c)
       PROVE  OnceInv'
  <2>1. c \in running /\ ~IsIn(inbound, c)
    BY <1>11 DEF Work, OnceInv, PlaceInv
  <2>2. UNCHANGED clientVars /\ inbound' = inbound /\ running' = running \ {c} /\ Write(c)
    BY <1>11 DEF Work
  <2>. QED
    BY <1>0, <2>1, <2>2, AnswerKeeps
<1>12. CASE OnTraffic
  <2>1. Head(inbound) \in Calls /\ inbound' = Tail(inbound) /\ inbound # <<>>
    BY <1>0, <1>12 DEF OnTraffic
  <2>2. UNCHANGED clientVars /\ running' = running /\ Write(Head(inbound))
    BY <1>12 DEF OnTraffic, serverVars
  <2>3. /\ IsIn(inbound, Head(inbound))
        /\ \A y : IsIn(inbound', y) => IsIn(inbound, y)
        /\ Once(inbound') /\ ~IsIn(inbound', Head(inbound))
    BY <1>0, <2>1, TailIsIn
  <2>4. Head(inbound) \notin running
    BY <2>1, <2>3 DEF OnceInv, PlaceInv
  <2>. QED
    BY <2>1, <2>2, <2>3, <2>4, AnswerKeeps
<1>13. CASE OnTrafficPooled
  <2>. DEFINE h == Head(inbound)
  <2>1. UNCHANGED clientVars /\ outbound' = outbound
    BY <1>13 DEF OnTrafficPooled
  <2>2. \/ running' = running \cup {h} /\ inbound' = Tail(inbound)
        \/ running' = running /\ inbound' = <<>>
    BY <1>13 DEF OnTrafficPooled
  <2>3. h \in Calls /\ inbound # <<>>
    BY <1>0, <1>13 DEF OnTrafficPooled
  <2>4. /\ IsIn(inbound, h)
        /\ \A y : IsIn(Tail(inbound), y) => IsIn(inbound, y)
        /\ Once(Tail(inbound)) /\ ~IsIn(Tail(inbound), h)
    BY <1>0, <2>3, TailIsIn
  <2>. HIDE DEF h
  <2>5. Once(<<>>) /\ \A y : ~IsIn(<<>>, y)
    <3>1. Len(<<>>) = 0
      OBVIOUS
    <3>. QED
      BY <3>1 DEF Once, IsIn
  <2>6. \A d \in Calls : /\ IsIn(inbound', d) => IsIn(inbound, d) /\ d \notin running'
                         /\ d \in running' => d \in running \/ (d = h /\ IsIn(inbound, d))
    BY <2>2, <2>4, <2>5 DEF OnceInv, PlaceInv
  <2>7. sent' = sent
    BY <2>1 DEF clientVars
  <2>8. \A d \in Calls : /\ Pending(d)' <=> IsIn(inbound', d) \/ d \in running' \/ IsIn(outbound, HeadOf(d))
                         /\ IsIn(sent, d)' <=> IsIn(sent, d)
                         /\ IsIn(inbound, d)' <=> IsIn(inbound', d)
                         /\ IsIn(outbound, HeadOf(d))' <=> IsIn(outbound, HeadOf(d))
    BY <2>1, <2>7 DEF Pending, IsIn, HeadOf
  <2>9. \A d \in Calls : Pending(d)' => Pending(d)
    BY <2>6, <2>8 DEF Pending
  <2>10. Once(inbound')
    BY <2>2, <2>4, <2>5
  <2>11. Once(inbound)' /\ HeadsOnce(outbound)'
    BY <1>0, <2>1, <2>10 DEF Once, HeadsOnce
  <2>12. PlaceInv'
    BY <2>6, <2>8, <2>9, <2>11 DEF OnceInv, PlaceInv
  <2>. QED
    BY <2>1, <2>9, <2>12, ServerKeeps
<1>14. CASE OnPartialRequest \/ Stop
  <2>1. UNCHANGED clientVars /\ outbound' = outbound
    BY <1>14 DEF OnPartialRequest, Stop
  <2>2. UNCHANGED <<inbound, running>> \/ (inbound' = <<>> /\ running' = {})
    BY <1>14 DEF OnPartialRequest, Stop
  <2>3. Once(<<>>) /\ \A y : ~IsIn(<<>>, y)
    <3>1. Len(<<>>) = 0
      OBVIOUS
    <3>. QED
      BY <3>1 DEF Once, IsIn
  <2>4. sent' = sent
    BY <2>1 DEF clientVars
  <2>5. \A d \in Calls : /\ Pending(d)' <=> IsIn(inbound', d) \/ d \in running' \/ IsIn(outbound, HeadOf(d))
                         /\ IsIn(sent, d)' <=> IsIn(sent, d)
                         /\ IsIn(inbound, d)' <=> IsIn(inbound', d)
                         /\ IsIn(outbound, HeadOf(d))' <=> IsIn(outbound, HeadOf(d))
    BY <2>1, <2>4 DEF Pending, IsIn, HeadOf
  <2>6. \A d \in Calls : Pending(d)' => Pending(d)
    BY <2>2, <2>3, <2>5 DEF Pending
  <2>7. Once(inbound')
    BY <1>0, <2>2, <2>3
  <2>8. Once(inbound)' /\ HeadsOnce(outbound)'
    BY <1>0, <2>1, <2>7 DEF Once, HeadsOnce
  <2>9. PlaceInv'
    BY <2>2, <2>3, <2>5, <2>6, <2>8 DEF OnceInv, PlaceInv
  <2>. QED
    BY <2>1, <2>6, <2>9, ServerKeeps
<1>16. CASE UNCHANGED vars
  <2>1. UNCHANGED clientVars /\ UNCHANGED <<inbound, running, sent, outbound>>
    BY <1>16 DEF vars, serverVars, connVars, clientVars
  <2>2. PlaceInv' /\ \A d \in Calls : Pending(d)' => Pending(d)
    BY <1>0, <2>1, FewerHeads DEF OnceInv
  <2>. QED
    BY <2>1, <2>2, ServerKeeps
<1>. QED
  BY <1>1, <1>2, <1>4, <1>5, <1>6, <1>7, <1>8, <1>11, <1>12, <1>13, <1>14, <1>16
     DEF Next, Read

\* A call that was sent is found where it was sent.
LEMMA SentAtPlace ==
  ASSUME SentInv, NEW i \in 1 .. Len(sent), sent \in Seq(Calls)
  PROVE  SentAt(sent[i]) = i
<1>1. DOMAIN sent = 1 .. Len(sent)
  OBVIOUS
<1>2. \A j \in DOMAIN sent : sent[j] = sent[i] => j = i
  BY <1>1 DEF SentInv, Once
<1>. QED
  BY <1>1, <1>2 DEF SentAt

\* Whatever the deadlines leave in the stream, an answer is returned to one call
\* at most, and to none that was sent before the command it answers.
THEOREM AnswersUsedOnce == Spec => []AnswersAreUsedOnce
<1>1. TypeOK /\ OnceInv => AnswersAreUsedOnce
  <2>. SUFFICES ASSUME TypeOK, OnceInv, NEW c \in Calls, NEW d \in Calls
                PROVE  /\ pc[c] = "done" => SentAt(got[c]) \in 1 .. SentAt(c)
                       /\ pc[c] = "done" /\ pc[d] = "done" /\ got[c] = got[d] => c = d
    BY DEF AnswersAreUsedOnce
  <2>1. ASSUME pc[c] = "done"
        PROVE  SentAt(got[c]) \in 1 .. SentAt(c)
    <3>1. PICK i, j \in 1 .. Len(sent) : i <= j /\ sent[i] = got[c] /\ sent[j] = c
      BY <2>1 DEF OnceInv, TakenInv, SentBefore
    <3>2. SentAt(got[c]) = i /\ SentAt(c) = j
      BY <3>1, SentAtPlace DEF TypeOK, OnceInv
    <3>. QED
      BY <3>1, <3>2 DEF TypeOK
  <2>2. ASSUME pc[c] = "done", pc[d] = "done", got[c] = got[d]
        PROVE  c = d
    <3>1. got[c] \in Calls
      BY <2>2 DEF TypeOK, OnceInv, TakenInv
    <3>. QED
      BY <2>2, <3>1 DEF OnceInv, TakenInv, TakenBy
  <2>. QED
    BY <2>1, <2>2
<1>. QED
  BY InitOnce, NextOnce, TypeCorrect, <1>1, PTL DEF Spec

=============================================================================
