------------------------- MODULE DbInitProgressProofs -------------------------
(***************************************************************************)
(* Theorems about DbInit on which its liveness rests: while the lock is    *)
(* held something is due, and what is due brings the attempt closer to its *)
(* end.  With Fairness, under which what is due happens, an attempt is     *)
(* over after at most 2 * Len(Funcs) such steps; that last inference is    *)
(* temporal and left to TLC (AttemptsEnd).                                 *)
(***************************************************************************)
EXTENDS DbInitProofs

(* A step in which attempt a calls back: its pipeline goes on or is over,  *)
(* and at most the answer to its current query has come.                   *)
CallsBack(a) ==
  /\ returned[a] = "no"
  /\ step[a] \in 1..7
  /\ Advance(a) \/ \E result \in {"ok", "error"} : Over(a, result)
  /\ \A q \in Questions : q # <<a, step[a]>> => answer'[q] = answer[q]

(* A step in which no attempt calls back: a query is made or has a row.    *)
Asks ==
  /\ UNCHANGED <<step, returned>>
  /\ \A q \in Questions :
       \/ answer'[q] = answer[q]
       \/ answer[q] \in {"none", "issued"} /\ answer'[q] \in {"issued", "row"}

(* A step in which an attempt begins.                                      *)
Begins(a) ==
  /\ step[a] = 0
  /\ step' = [step EXCEPT ![a] = 1]
  /\ UNCHANGED <<returned, answer>>

-----------------------------------------------------------------------------
(* Which steps are which.                                                  *)

LEMMA TimeoutCallsBack ==
  ASSUME IInv, NEW a \in Attempts, ConnectTimeout(a)
  PROVE  CallsBack(a)
<1>1. /\ step[a] = 1 /\ returned[a] = "no" /\ UNCHANGED answer
      /\ Callback(a, "error")
  BY DEF IInv, Control, TypeOK, ConnectTimeout
<1>2. Over(a, "error")
  BY <1>1, CallbackMeans DEF IInv
<1> QED BY <1>1, <1>2 DEF CallsBack

LEMMA ConnectedCallsBack ==
  ASSUME IInv, NEW a \in Attempts, Connected(a) \/ ConnectionLost(a)
  PROVE  CallsBack(a) \/ Asks
<1>1. CASE Connected(a) /\ listening[a]
  <2>1. /\ step[a] = 1 /\ returned[a] = "no" /\ UNCHANGED answer
        /\ Callback(a, "none")
    BY <1>1 DEF IInv, Control, TypeOK, Attempts, Connected
  <2>2. Advance(a)
    BY <2>1, CallbackMeans DEF IInv
  <2> QED BY <2>1, <2>2 DEF CallsBack
<1>2. CASE (Connected(a) /\ ~listening[a]) \/ ConnectionLost(a)
  BY <1>2 DEF Connected, ConnectionLost, Asks
<1> QED BY <1>1, <1>2

(* A function that is called is skipped, or makes its query.               *)
LEMMA RunCallsBackOrAsks ==
  ASSUME IInv, NEW a \in Attempts, RunFunction(a)
  PROVE  \/ CallsBack(a)
         \/ /\ Asks
            /\ step[a] \in 2..7 /\ returned[a] = "no"
            /\ answer[<<a, step[a]>>] = "none"
            /\ answer'[<<a, step[a]>>] = "issued"
<1>1. TypeOK
  BY DEF IInv
<1>2. step[a] \in 2..7 /\ returned[a] = "no"
  BY <1>1, Pipeline DEF RunFunction, TypeOK
<1>3. <<a, step[a]>> \in Questions
  BY <1>2, AQuestion
<1>4. CASE Skipped(a)
  <2>1. Callback(a, "none") /\ UNCHANGED answer
    BY <1>4 DEF RunFunction
  <2>2. step[a] = 7 => pg_version[a] \in Versions
    <3>1. server.version \in Versions
      BY <1>1 DEF TypeOK, Servers
    <3>2. step[a] = 7 => pg_version[a] = server.version
      BY DEF IInv, Known
    <3> QED BY <3>1, <3>2
  <2>3. CASE step[a] < 7
    <3>1. Advance(a)
      BY <1>1, <1>2, <2>1, <2>3, CallbackMeans
    <3> QED BY <1>2, <2>1, <3>1 DEF CallsBack
  <2>4. CASE step[a] = 7
    <3>1. Over(a, "ok")
      BY <1>1, <2>1, <2>2, <2>4, CallbackMeans DEF Advance
    <3> QED BY <1>2, <2>1, <3>1 DEF CallsBack
  <2> QED BY <1>2, <2>3, <2>4
<1>5. CASE ~Skipped(a)
  <2>1. /\ answer[<<a, step[a]>>] = "none"
        /\ answer' = [answer EXCEPT ![<<a, step[a]>>] = "issued"]
        /\ UNCHANGED <<step, returned>>
    BY <1>5 DEF RunFunction, Question, Ask!Issue
  <2>2. \A q \in Questions :
          answer'[q] = IF q = <<a, step[a]>> THEN "issued" ELSE answer[q]
    BY <1>1, <1>3, <2>1 DEF TypeOK
  <2> QED BY <1>2, <1>3, <2>1, <2>2 DEF Asks
<1> QED BY <1>4, <1>5

LEMMA RowAsks ==
  ASSUME IInv, NEW q \in Questions, OnRow(q)
  PROVE  Asks
<1>1. /\ answer[q] = "issued" /\ answer' = [answer EXCEPT ![q] = "row"]
      /\ UNCHANGED <<step, returned>>
  BY DEF OnRow, Ask!GiveRow
<1> QED BY <1>1 DEF Asks, IInv, TypeOK

LEMMA AnswerCallsBack ==
  ASSUME IInv, NEW q \in Questions, Answered(q)
  PROVE  CallsBack(q[1])
<1> DEFINE a == q[1]
<1>1. TypeOK /\ AskedOf(q) /\ a \in Attempts /\ q[2] \in 2..7 /\ q = <<a, q[2]>>
  BY QuestionParts DEF IInv, Asked
<1>2. PICK event \in {"end", "error"} :
        /\ answer[q] \in {"issued", "row"}
        /\ answer' = [answer EXCEPT ![q] = event]
  BY <1>1, SettleMeans DEF Answered, OnEnd, OnSqlError, OnNoAnswer
<1>3. step[a] = q[2] /\ returned[a] = "no" /\ q = <<a, step[a]>>
  BY <1>1, <1>2 DEF AskedOf
<1>4. step[a] > 2 => pg_version[a] \in Versions
  BY <1>1 DEF IInv, Known, TypeOK, Servers
<1>5. PICK err \in {"none", "error", "recovery"} :
        Callback(a, err) /\ (err = "recovery" => step[a] = 3)
  BY <1>3, RunsAt DEF Answered, OnEnd, OnSqlError, OnNoAnswer
<1>6. Advance(a) \/ Over(a, "error") \/ Over(a, "ok")
  BY <1>1, <1>3, <1>4, <1>5, CallbackMeans
<1>7. \A r \in Questions : r # q => answer'[r] = answer[r]
  BY <1>1, <1>2 DEF TypeOK
<1> QED BY <1>1, <1>3, <1>6, <1>7 DEF CallsBack

LEMMA StepKinds ==
  ASSUME IInv, [Next]_vars
  PROVE  Asks \/ \E a \in Attempts : CallsBack(a) \/ Begins(a)
<1>1. CASE UNCHANGED vars
  BY <1>1 DEF vars, Asks
<1>2. CASE SetupBackend
  <2>1. attempt + 1 \in Attempts /\ attempt + 1 > attempt
    BY <1>2, AttemptsAssumption DEF SetupBackend, IInv, TypeOK, Attempts
  <2>2. step[attempt + 1] = 0
    BY <2>1 DEF IInv, Control
  <2>3. Begins(attempt + 1)
    BY <1>2, <2>2 DEF SetupBackend, Begins
  <2> QED BY <2>1, <2>3
<1>3. ASSUME NEW a \in Attempts,
             \/ Connected(a) \/ ConnectTimeout(a)
             \/ ConnectionLost(a) \/ RunFunction(a)
      PROVE  Asks \/ CallsBack(a)
  BY <1>3, TimeoutCallsBack, ConnectedCallsBack, RunCallsBackOrAsks
<1>4. ASSUME NEW q \in Questions, OnRow(q) PROVE Asks
  BY <1>4, RowAsks
<1>5. ASSUME NEW q \in Questions, Answered(q)
      PROVE  q[1] \in Attempts /\ CallsBack(q[1])
  BY <1>5, AnswerCallsBack, QuestionParts
<1>6. CASE Promote \/ \E q \in Questions : Execute(q)
  BY <1>6 DEF Promote, Execute, Asks
<1> QED BY <1>1, <1>2, <1>3, <1>4, <1>5, <1>6 DEF Next

-----------------------------------------------------------------------------
(* Something is due.                                                       *)

(* A query that has its answer has called back: the pipeline has gone on   *)
(* from its function, or is over.                                          *)
Heard ==
  \A q \in Questions :
    answer[q] \in {"end", "error"} =>
      q[2] < step[q[1]] \/ returned[q[1]] # "no"

LEMMA NextKeepsHeard == IInv /\ Heard /\ [Next]_vars => Heard'
<1> SUFFICES ASSUME IInv, Heard, [Next]_vars,
                    NEW q \in Questions, answer'[q] \in {"end", "error"}
             PROVE  q[2] < step'[q[1]] \/ returned'[q[1]] # "no"
  BY DEF Heard
<1>1. /\ TypeOK /\ q[1] \in Attempts /\ q[2] \in 2..7 /\ q = <<q[1], q[2]>>
      /\ step[q[1]] \in Nat
  BY QuestionParts DEF IInv, TypeOK
<1>2. answer[q] \in {"end", "error"} =>
        q[2] < step[q[1]] \/ returned[q[1]] # "no"
  BY DEF Heard
<1>3. CASE Asks
  BY <1>2, <1>3 DEF Asks
<1>4. ASSUME NEW a \in Attempts, Begins(a)
      PROVE  q[2] < step'[q[1]] \/ returned'[q[1]] # "no"
  BY <1>1, <1>2, <1>4 DEF Begins, TypeOK
<1>5. ASSUME NEW a \in Attempts, CallsBack(a)
      PROVE  q[2] < step'[q[1]] \/ returned'[q[1]] # "no"
  <2>1. q # <<a, step[a]>> => answer'[q] = answer[q]
    BY <1>5 DEF CallsBack
  <2>2. CASE Advance(a)
    <3>1. step'[q[1]] = IF q[1] = a THEN step[a] + 1 ELSE step[q[1]]
      BY <1>1, <2>2 DEF Advance, TypeOK
    <3>2. UNCHANGED returned /\ step[a] \in Nat
      BY <1>5, <2>2 DEF Advance, CallsBack
    <3> QED BY <1>1, <1>2, <2>1, <3>1, <3>2
  <2>3. ASSUME NEW result \in {"ok", "error"}, Over(a, result)
        PROVE  q[2] < step'[q[1]] \/ returned'[q[1]] # "no"
    <3>1. returned'[q[1]] = IF q[1] = a THEN result ELSE returned[q[1]]
      BY <1>1, <2>3 DEF Over, TypeOK
    <3>2. UNCHANGED step
      BY <2>3 DEF Over
    <3> QED BY <1>1, <1>2, <2>1, <2>3, <3>1, <3>2
  <2> QED BY <1>5, <2>2, <2>3 DEF CallsBack
<1> QED BY <1>3, <1>4, <1>5, StepKinds

(* The lock of a backend is never held for nothing: the attempt that has   *)
(* it waits for its connect timer, for its next function to be called, or  *)
(* for a query that has not called back.  No callback is lost.             *)
THEOREM LockIsNeeded == Spec => []SomethingIsDue
<1>1. Init => Heard
  BY DEF Init, Ask!Init, Heard
<1>2. IInv /\ Heard => SomethingIsDue
  <2> SUFFICES ASSUME IInv, Heard, setting_up
               PROVE  \E a \in Attempts :
                        /\ returned[a] = "no"
                        /\ \/ timer[a] = "armed"
                           \/ /\ client[a]
                              /\ answer[Question(a)] \in {"none", "issued", "row"}
    BY DEF SomethingIsDue
  <2>1. PICK a \in Attempts : a = attempt /\ returned[a] = "no"
    BY DEF IInv, Control
  <2>2. step[a] \in 0..7 /\ a \in Nat
    BY Pipeline DEF IInv, TypeOK, Attempts
  <2>3. step[a] # 0
    BY <2>1, <2>2 DEF IInv, Control
  <2>4. CASE step[a] = 1
    BY <2>1, <2>4 DEF IInv, Control
  <2>5. CASE step[a] \in 2..7
    <3>1. Question(a) \in Questions /\ Question(a) = <<a, step[a]>>
      BY <2>5, AQuestion DEF Question
    <3>2. answer[Question(a)] \notin {"end", "error"}
      BY <2>1, <2>2, <3>1 DEF Heard
    <3>3. answer[Question(a)] \in {"none", "issued", "row", "end", "error"}
      BY <3>1 DEF IInv, TypeOK
    <3>4. client[a]
      BY <2>2, <2>5 DEF IInv, Control
    <3> QED BY <2>1, <3>2, <3>3, <3>4
  <2> QED BY <2>2, <2>3, <2>4, <2>5
<1> QED BY <1>1, <1>2, NextKeepsHeard, Invariance, PTL DEF Spec

-----------------------------------------------------------------------------
(* What is left to do.                                                     *)

(* Left, by where the attempt is.                                          *)
LEMMA LeftNow ==
  ASSUME TypeOK, Control, NEW a \in Attempts
  PROVE  Left(a) = IF returned[a] # "no" THEN 0
                   ELSE IF step[a] > 1 /\ answer[<<a, step[a]>>] # "none"
                        THEN 15 - 2 * step[a] ELSE 16 - 2 * step[a]
<1>1. step[a] \in 0..7 /\ (client[a] <=> step[a] > 1)
  BY Pipeline DEF TypeOK, Control
<1> QED BY <1>1, Pipeline DEF Left, Question

LEMMA LeftNext ==
  ASSUME TypeOK', Control', NEW a \in Attempts
  PROVE  Left(a)' = IF returned'[a] # "no" THEN 0
                    ELSE IF step'[a] > 1 /\ answer'[<<a, step'[a]>>] # "none"
                         THEN 15 - 2 * step'[a] ELSE 16 - 2 * step'[a]
<1>1. step'[a] \in 0..7 /\ (client'[a] <=> step'[a] > 1)
  BY Pipeline DEF TypeOK, Control
<1> QED BY <1>1, Pipeline DEF Left, Question

(* Calling back is worth at least one.                                     *)
LEMMA CallbackCounts ==
  ASSUME IInv, IInv', NEW a \in Attempts, CallsBack(a), NEW b \in Attempts
  PROVE  Left(b)' <= Left(b) /\ (b = a => Left(b)' < Left(b))
<1>1. /\ TypeOK /\ step[b] \in 0..7 /\ step[a] \in 1..7 /\ returned[a] = "no"
  BY Pipeline DEF IInv, TypeOK, CallsBack
<1>2. /\ Left(b) = IF returned[b] # "no" THEN 0
                   ELSE IF step[b] > 1 /\ answer[<<b, step[b]>>] # "none"
                        THEN 15 - 2 * step[b] ELSE 16 - 2 * step[b]
      /\ Left(b)' = IF returned'[b] # "no" THEN 0
                    ELSE IF step'[b] > 1 /\ answer'[<<b, step'[b]>>] # "none"
                         THEN 15 - 2 * step'[b] ELSE 16 - 2 * step'[b]
  BY LeftNow, LeftNext DEF IInv
<1>3. CASE b # a
  <2>1. step'[b] = step[b] /\ returned'[b] = returned[b]
    BY <1>1, <1>3 DEF CallsBack, Advance, Over, TypeOK
  <2>2. step[b] > 1 => answer'[<<b, step[b]>>] = answer[<<b, step[b]>>]
    <3>1. step[b] > 1 => <<b, step[b]>> \in Questions
      <4>1. step[b] > 1 => step[b] \in 2..7
        BY <1>1
      <4> QED BY <4>1, AQuestion
    <3>2. <<b, step[b]>> # <<a, step[a]>>
      BY <1>3
    <3> QED BY <3>1, <3>2 DEF CallsBack
  <2> QED BY <1>1, <1>2, <1>3, <2>1, <2>2
<1>4. CASE b = a /\ Advance(a)
  <2>1. step'[a] = step[a] + 1 /\ step[a] < 7 /\ returned'[a] = "no"
    BY <1>1, <1>4 DEF Advance, TypeOK
  <2>2. answer'[<<a, step[a] + 1>>] = "none"
    <3>1. step[a] + 1 \in 2..7
      BY <1>1, <2>1
    <3>2. <<a, step[a] + 1>> \in Questions
      BY <3>1, AQuestion
    <3>3. AskedOf(<<a, step[a] + 1>>)
      BY <3>2 DEF IInv, Asked
    <3>4. answer[<<a, step[a] + 1>>] = "none"
      BY <1>1, <3>3 DEF AskedOf
    <3>5. <<a, step[a] + 1>> # <<a, step[a]>>
      BY <1>1
    <3> QED BY <3>2, <3>4, <3>5 DEF CallsBack
  <2>3. Left(b)' = 16 - 2 * (step[a] + 1)
    BY <1>2, <1>4, <2>1, <2>2
  <2> QED BY <1>1, <1>2, <1>4, <2>3
<1>5. ASSUME NEW result \in {"ok", "error"}, Over(a, result), b = a
      PROVE  Left(b)' < Left(b)
  <2>1. returned'[a] # "no"
    BY <1>1, <1>5 DEF Over, TypeOK
  <2> QED BY <1>1, <1>2, <1>5, <2>1
<1>6. Left(b) \in Int /\ Left(b)' \in Int
  <2>1. step'[b] \in 0..7
    BY Pipeline DEF IInv, TypeOK
  <2> QED BY <1>1, <1>2, <2>1
<1> QED BY <1>3, <1>4, <1>5, <1>6 DEF CallsBack

(* So is asking a query; and nothing is worth less than nothing.           *)
LEMMA AskingCounts ==
  ASSUME IInv, IInv', Asks, NEW a \in Attempts
  PROVE  /\ Left(a)' <= Left(a)
         /\ /\ step[a] \in 2..7 /\ returned[a] = "no"
            /\ answer[<<a, step[a]>>] = "none"
            /\ answer'[<<a, step[a]>>] = "issued"
            => Left(a)' < Left(a)
<1>1. /\ step[a] \in 0..7 /\ UNCHANGED <<step, returned>>
  BY Pipeline DEF IInv, TypeOK, Asks
<1>2. step[a] > 1 /\ answer[<<a, step[a]>>] # "none" =>
        answer'[<<a, step[a]>>] # "none"
  <2>1. step[a] > 1 => <<a, step[a]>> \in Questions
    <3>1. step[a] > 1 => step[a] \in 2..7
      BY <1>1
    <3> QED BY <3>1, AQuestion
  <2> QED BY <2>1 DEF Asks
<1>3. /\ Left(a) = IF returned[a] # "no" THEN 0
                   ELSE IF step[a] > 1 /\ answer[<<a, step[a]>>] # "none"
                        THEN 15 - 2 * step[a] ELSE 16 - 2 * step[a]
      /\ Left(a)' = IF returned'[a] # "no" THEN 0
                    ELSE IF step'[a] > 1 /\ answer'[<<a, step'[a]>>] # "none"
                         THEN 15 - 2 * step'[a] ELSE 16 - 2 * step'[a]
  BY LeftNow, LeftNext DEF IInv
<1> QED BY <1>1, <1>2, <1>3

LEMMA BeginningCounts ==
  ASSUME IInv, IInv', NEW a \in Attempts, Begins(a), NEW b \in Attempts
  PROVE  Left(b)' <= Left(b)
<1>1. TypeOK /\ step[b] \in 0..7
  BY Pipeline DEF IInv, TypeOK
<1>2. step'[b] = IF b = a THEN 1 ELSE step[b]
  BY <1>1 DEF Begins, TypeOK
<1>3. /\ Left(b) = IF returned[b] # "no" THEN 0
                   ELSE IF step[b] > 1 /\ answer[<<b, step[b]>>] # "none"
                        THEN 15 - 2 * step[b] ELSE 16 - 2 * step[b]
      /\ Left(b)' = IF returned'[b] # "no" THEN 0
                    ELSE IF step'[b] > 1 /\ answer'[<<b, step'[b]>>] # "none"
                         THEN 15 - 2 * step'[b] ELSE 16 - 2 * step'[b]
  BY LeftNow, LeftNext DEF IInv
<1> QED BY <1>1, <1>2, <1>3 DEF Begins

(* What an attempt was waiting for brings it closer to its end.            *)
LEMMA ProgressCounts ==
  ASSUME IInv, IInv', NEW a \in Attempts, Progress(a)
  PROVE  Left(a)' < Left(a)
<1>1. CASE ConnectTimeout(a)
  BY <1>1, TimeoutCallsBack, CallbackCounts
<1>2. CASE RunFunction(a)
  BY <1>2, RunCallsBackOrAsks, CallbackCounts, AskingCounts
<1>3. ASSUME NEW q \in Questions, q[1] = a, Answered(q)
      PROVE  Left(a)' < Left(a)
  BY <1>3, AnswerCallsBack, CallbackCounts
<1> QED BY <1>1, <1>2, <1>3 DEF Progress

(* What an attempt was waiting for brings it closer to its end, and        *)
(* nothing takes any attempt back: every function is called once and calls *)
(* back once, and neither a late answer nor a timer reaches an attempt     *)
(* that is over, or moves another one.                                     *)
THEOREM PipelineMovesOn == Spec => EveryStepCounts
<1>1. ASSUME IInv, IInv', [Next]_vars, NEW a \in Attempts
      PROVE  Left(a)' <= Left(a)
  BY <1>1, StepKinds, CallbackCounts, AskingCounts, BeginningCounts
<1>2. IInv /\ IInv' /\ [Next]_vars =>
        [\A a \in Attempts : /\ Left(a)' <= Left(a)
                             /\ Progress(a) => Left(a)' < Left(a)]_vars
  BY <1>1, ProgressCounts
<1> QED BY <1>2, Invariance, PTL DEF Spec, EveryStepCounts
=============================================================================
