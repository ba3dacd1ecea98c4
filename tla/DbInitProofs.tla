---------------------------- MODULE DbInitProofs ----------------------------
(* Theorems about DbInit, for any number of attempts, any set of versions  *)
(* and any catalogue that getQueries accepts.                              *)
EXTENDS DbInit, QueryCatalogueProofs, TLAPS

LEMMA Pipeline ==
  /\ Len(Funcs) = 7
  /\ Funcs[1] = "connect_to_database"
  /\ Funcs[2] = "get_db_version"
  /\ Funcs[3] = "stop_if_standby"
  /\ Funcs[4] = "create_user"
  /\ Funcs[5] = "create_activity_function"
  /\ Funcs[6] = "create_replication_function"
  /\ Funcs[7] = "create_progress_vacuum_function"
BY DEF Funcs

LEMMA QuestionParts ==
  ASSUME NEW q \in Questions
  PROVE  q[1] \in Attempts /\ q[2] \in 2..7 /\ q = <<q[1], q[2]>>
BY Pipeline DEF Questions

LEMMA AQuestion ==
  ASSUME NEW a \in Attempts, NEW s \in 2..7
  PROVE  <<a, s>> \in Questions
BY Pipeline DEF Questions

LEMMA RunsAt ==
  ASSUME NEW q \in Questions
  PROVE  /\ Runs(q, "get_db_version") <=> q[2] = 2
         /\ Runs(q, "stop_if_standby") <=> q[2] = 3
         /\ Runs(q, "create_user") <=> q[2] = 4
         /\ Funcs[q[2]] \in DOMAIN Creates <=> q[2] \in {5, 6, 7}
<1>1. q[2] \in {2, 3, 4, 5, 6, 7}
  BY QuestionParts
<1> QED BY <1>1, Pipeline DEF Runs, Creates

LEMMA CreatesTable ==
  /\ DOMAIN Creates = {Funcs[5], Funcs[6], Funcs[7]}
  /\ Creates[Funcs[5]] = "get_stat_activity"
  /\ Creates[Funcs[6]] = "get_stat_replication"
  /\ Creates[Funcs[7]] = "get_stat_progress_vacuum"
BY Pipeline DEF Creates

-----------------------------------------------------------------------------
(* The inductive invariant.                                                *)

(* Where an attempt is: it waits for its connection until the timer fires, *)
(* has a client from its second function on, and only the latest attempt   *)
(* may be under way.                                                       *)
Control ==
  /\ setting_up <=> \E a \in Attempts : a = attempt /\ returned[a] = "no"
  /\ \A a \in Attempts :
       /\ step[a] = 0 <=> a > attempt
       /\ a > attempt => returned[a] = "no" /\ ~listening[a]
       /\ a < attempt => returned[a] # "no"
       /\ step[a] = 1 /\ returned[a] = "no" <=> timer[a] = "armed"
       /\ listening[a] /\ socket[a] = "connecting" =>
            timer[a] = "armed"
       /\ client[a] <=> step[a] > 1
       /\ destroyed[a] <=> client[a] /\ returned[a] # "no"

(* A query that is still to be answered is that of the pipeline's current  *)
(* function, and what it finds out is known when the function is over.     *)
AskedOf(q) ==
  /\ q[2] > step[q[1]] => answer[q] = "none"
  /\ answer[q] \in {"issued", "row"} =>
       q[2] = step[q[1]] /\ returned[q[1]] = "no"
  /\ statement[q] = "standby" => q[2] = 3 /\ server.standing # "primary"
  /\ statement[q] = "exists" => q[2] = 4
  /\ q[2] = 2 /\ answer[q] \in {"row", "end"} =>
       pg_version[q[1]] = server.version
  /\ q[2] = 6 /\ answer[q] # "none" => server.version >= 90400
  /\ q[2] = 7 /\ answer[q] # "none" => server.version >= 90600

Asked == \A q \in Questions : AskedOf(q)

Known ==
  \A a \in Attempts :
    /\ step[a] > 2 => pg_version[a] = server.version
    /\ in_recovery[a] => server.standing # "primary"

(* What the server has got.                                                *)
Made ==
  /\ \A q \in Questions :
       /\ q[2] = 4 /\ statement[q] \in {"done", "exists"} => server.role
       /\ q[2] = 5 /\ statement[q] = "done" =>
            "get_stat_activity" \in server.functions
       /\ q[2] = 6 /\ statement[q] = "done" =>
            "get_stat_replication" \in server.functions
       /\ q[2] = 7 /\ statement[q] = "done" =>
            "get_stat_progress_vacuum" \in server.functions
  /\ \A a \in Attempts :
       /\ step[a] > 4 => server.role
       /\ step[a] > 5 => "get_stat_activity" \in server.functions
       /\ step[a] > 6 /\ server.version >= 90400 =>
            "get_stat_replication" \in server.functions

IInv == TypeOK /\ Control /\ Asked /\ Known /\ Made /\ NeverThrows

LEMMA InitHolds == Init => IInv
<1> SUFFICES ASSUME Init PROVE IInv
  OBVIOUS
<1>1. TypeOK
  <2>1. attempt \in 0..MaxAttempts
    BY AttemptsAssumption DEF Init
  <2>2. step \in [Attempts -> 0..Len(Funcs)]
    BY Pipeline DEF Init
  <2>3. /\ statement \in [Questions -> {"none", "sent", "done", "standby",
                                        "exists", "failed"}]
        /\ answer \in [Questions -> {"none", "issued", "row", "end", "error"}]
    BY DEF Init, Ask!Init
  <2> QED BY <2>1, <2>2, <2>3 DEF Init, TypeOK
<1>2. Control
  BY DEF Init, Control, Attempts
<1>3. Asked /\ Known /\ Made
  BY QuestionParts DEF Init, Ask!Init, Asked, AskedOf, Known, Made
<1> QED BY <1>1, <1>2, <1>3 DEF IInv, Init, NeverThrows

-----------------------------------------------------------------------------
(* Every step keeps the invariant.                                         *)

(* What the callback of a function does: the pipeline goes on, or it is    *)
(* over and getQueries, on success, has accepted the version.              *)
Advance(a) ==
  /\ step[a] < 7
  /\ step' = [step EXCEPT ![a] = step[a] + 1]
  /\ UNCHANGED <<returned, destroyed, needs_setup, setting_up, thrown>>

Over(a, result) ==
  /\ UNCHANGED <<step, thrown>>
  /\ destroyed' = [destroyed EXCEPT ![a] = destroyed[a] \/ client[a]]
  /\ returned' = [returned EXCEPT ![a] = result]
  /\ setting_up' = FALSE
  /\ needs_setup' = IF result = "ok" THEN FALSE ELSE TRUE

LEMMA CallbackMeans ==
  ASSUME TypeOK, NEW a \in Attempts, NEW err \in {"none", "error", "recovery"},
         step[a] \in 1..7, Callback(a, err),
         err = "recovery" \/ (err = "none" /\ step[a] = 7) =>
           pg_version[a] \in Versions
  PROVE  \/ err = "none" /\ Advance(a)
         \/ err = "error" /\ Over(a, "error")
         \/ /\ err = "recovery" \/ (err = "none" /\ step[a] = 7)
            /\ Over(a, "ok")
<1>1. CASE err = "none" /\ step[a] < 7
  BY <1>1, Pipeline DEF Callback, Advance, monitor
<1>2. CASE err = "error"
  <2>1. Finish(a, FALSE, pg_version[a]) /\ UNCHANGED step
    BY <1>2 DEF Callback
  <2> QED BY <1>2, <2>1 DEF Finish, Over
<1>3. CASE err = "recovery" \/ (err = "none" /\ step[a] = 7)
  <2>1. Accepts(Catalogue, pg_version[a])
    BY <1>3, CatalogueAssumption
  <2>2. Finish(a, err # "error", pg_version[a]) /\ UNCHANGED step
    BY <1>3, Pipeline DEF Callback
  <2>3. (err # "error") = TRUE
    BY <1>3
  <2> QED BY <1>3, <2>1, <2>2, <2>3 DEF Finish, ChooseQueries, Over
<1>4. err \in {"error", "recovery"} \/ (err = "none" /\ step[a] < 7)
        \/ (err = "none" /\ step[a] = 7)
  OBVIOUS
<1> QED BY <1>1, <1>2, <1>3, <1>4

LEMMA SetupKeepsInv == IInv /\ SetupBackend => IInv'
<1> SUFFICES ASSUME IInv, SetupBackend PROVE IInv'
  OBVIOUS
<1> DEFINE a == attempt + 1
<1>1. /\ attempt \in Nat /\ a \in Attempts
      /\ step' = [step EXCEPT ![a] = 1]
      /\ timer' = [timer EXCEPT ![a] = "armed"]
      /\ socket' = [socket EXCEPT ![a] = "connecting"]
      /\ listening' = [listening EXCEPT ![a] = TRUE]
      /\ attempt' = a /\ setting_up' = TRUE
      /\ UNCHANGED <<server, returned, destroyed, pg_version, in_recovery,
                     statement, answer, needs_setup, thrown, client>>
  BY AttemptsAssumption
     DEF SetupBackend, BeginConnecting, IInv, TypeOK, Attempts, knowledge
<1>2. TypeOK
  BY DEF IInv
<1>3. TypeOK'
  BY <1>1, <1>2, Pipeline DEF TypeOK, Attempts
<1>4. Control'
  BY <1>1, <1>2, <1>3 DEF IInv, Control, SetupBackend, TypeOK, Attempts
<1>6. step[a] = 0 /\ step'[a] = 1
  BY <1>1, <1>2 DEF IInv, Control, TypeOK, Attempts
<1>7. Asked'
  <2> SUFFICES ASSUME NEW q \in Questions PROVE AskedOf(q)'
    BY DEF Asked
  <2>1. AskedOf(q) /\ q[1] \in Attempts /\ q[2] \in 2..7
    BY QuestionParts DEF IInv, Asked
  <2> QED BY <1>1, <1>2, <1>6, <2>1 DEF AskedOf, TypeOK
<1>8. Known'
  BY <1>1, <1>2, <1>6 DEF IInv, Known, TypeOK
<1>9. Made'
  BY <1>1, <1>2, <1>6 DEF IInv, Made, TypeOK
<1> QED BY <1>1, <1>3, <1>4, <1>7, <1>8, <1>9 DEF IInv, NeverThrows

(* What must be so when the pipeline goes on from the function it is at.   *)
StepDone(a) ==
  /\ step[a] = 2 => pg_version[a] = server.version
  /\ step[a] = 4 => server.role
  /\ step[a] = 5 => "get_stat_activity" \in server.functions
  /\ step[a] = 6 /\ server.version >= 90400 =>
       "get_stat_replication" \in server.functions

(* A function other than the first calls back.                             *)
LEMMA CallbackKeepsInv ==
  ASSUME IInv, NEW a \in Attempts, step[a] \in 2..7, returned[a] = "no",
         UNCHANGED <<server, attempt, connection, knowledge, statement>>,
         NEW result \in {"ok", "error"},
         (Advance(a) /\ StepDone(a)) \/ Over(a, result),
         NEW event \in {"none", "end", "error"},
         answer' = [answer EXCEPT ![<<a, step[a]>>] = event],
         event = "end" /\ step[a] = 2 => pg_version[a] = server.version,
         event # "none" => answer[<<a, step[a]>>] # "none"
  PROVE  IInv'
<1>1. TypeOK /\ <<a, step[a]>> \in Questions
  BY AQuestion DEF IInv
<1>2. /\ UNCHANGED <<server, attempt, timer, socket, listening, client>>
      /\ UNCHANGED <<pg_version, in_recovery, statement, thrown>>
  BY DEF connection, knowledge, Advance, Over
<1>3. answer' \in [Questions -> {"none", "issued", "row", "end", "error"}]
  BY <1>1 DEF TypeOK
<1>4. a = attempt /\ setting_up /\ timer[a] # "armed" /\ client[a]
  BY <1>1 DEF IInv, Control, TypeOK, Attempts
<1>5. ASSUME Advance(a), StepDone(a) PROVE IInv'
  <2>1. TypeOK'
    BY <1>1, <1>2, <1>3, <1>5, Pipeline DEF TypeOK, Advance
  <2>2. Control'
    BY <1>1, <1>2, <1>4, <1>5 DEF IInv, Control, TypeOK, Attempts, Advance
  <2>3. Asked'
    <3> SUFFICES ASSUME NEW q \in Questions PROVE AskedOf(q)'
      BY DEF Asked
    <3>1. AskedOf(q) /\ q[1] \in Attempts /\ q[2] \in 2..7 /\ q = <<q[1], q[2]>>
      BY QuestionParts DEF IInv, Asked
    <3>2. answer'[q] = IF q[1] = a /\ q[2] = step[a] THEN event ELSE answer[q]
      BY <1>1, <3>1 DEF TypeOK
    <3>3. step'[q[1]] = IF q[1] = a THEN step[a] + 1 ELSE step[q[1]]
      BY <1>1, <1>5, <3>1 DEF TypeOK, Advance
    <3>4. step[q[1]] \in 0..7 /\ UNCHANGED returned
      BY <1>1, <1>5, <3>1, Pipeline DEF TypeOK, Advance
    <3>5. CASE q[1] = a /\ q[2] = step[a]
      BY <1>2, <3>1, <3>2, <3>3, <3>4, <3>5 DEF AskedOf
    <3>6. CASE ~(q[1] = a /\ q[2] = step[a])
      BY <1>2, <3>1, <3>2, <3>3, <3>4, <3>6 DEF AskedOf
    <3> QED BY <3>5, <3>6
  <2>4. Known' /\ Made'
    BY <1>1, <1>2, <1>5 DEF IInv, Known, Made, TypeOK, Advance, StepDone
  <2> QED BY <1>2, <2>1, <2>2, <2>3, <2>4 DEF IInv, NeverThrows
<1>6. ASSUME Over(a, result) PROVE IInv'
  <2>1. TypeOK'
    BY <1>1, <1>2, <1>3, <1>6 DEF TypeOK, Over
  <2>2. Control'
    BY <1>1, <1>2, <1>4, <1>6 DEF IInv, Control, TypeOK, Attempts, Over
  <2>3. Asked'
    <3> SUFFICES ASSUME NEW q \in Questions PROVE AskedOf(q)'
      BY DEF Asked
    <3>1. AskedOf(q) /\ q[1] \in Attempts /\ q[2] \in 2..7 /\ q = <<q[1], q[2]>>
      BY QuestionParts DEF IInv, Asked
    <3>2. answer'[q] = IF q[1] = a /\ q[2] = step[a] THEN event ELSE answer[q]
      BY <1>1, <3>1 DEF TypeOK
    <3>3. q[1] # a => returned'[q[1]] = returned[q[1]]
      BY <1>1, <1>6, <3>1 DEF TypeOK, Over
    <3>4. UNCHANGED step
      BY <1>6 DEF Over
    <3>5. CASE q[1] = a /\ q[2] = step[a]
      BY <1>2, <3>1, <3>2, <3>4, <3>5 DEF AskedOf
    <3>6. CASE ~(q[1] = a /\ q[2] = step[a])
      BY <1>2, <3>1, <3>2, <3>3, <3>4, <3>6 DEF AskedOf
    <3> QED BY <3>5, <3>6
  <2>4. Known' /\ Made'
    BY <1>1, <1>2, <1>6 DEF IInv, Known, Made, TypeOK, Over
  <2> QED BY <1>2, <2>1, <2>2, <2>3, <2>4 DEF IInv, NeverThrows
<1> QED BY <1>5, <1>6

(* Steps of a connection.                                                  *)
LEMMA ConnectionKeepsInv ==
  ASSUME IInv, NEW a \in Attempts,
         Connected(a) \/ ConnectTimeout(a) \/ ConnectionLost(a)
  PROVE  IInv'
<1>1. TypeOK
  BY DEF IInv
<1>2. CASE Connected(a)
  <2>1. CASE listening[a]
    <3>1. /\ timer[a] = "armed" /\ step[a] = 1 /\ returned[a] = "no"
          /\ a = attempt
      BY <1>1, <1>2, <2>1 DEF IInv, Control, TypeOK, Attempts, Connected
    <3>2. Callback(a, "none")
      BY <1>2, <2>1 DEF Connected
    <3>3. Advance(a)
      BY <1>1, <3>1, <3>2, CallbackMeans
    <3>4. /\ timer' = [timer EXCEPT ![a] = "cleared"]
          /\ client' = [client EXCEPT ![a] = TRUE]
          /\ socket' = [socket EXCEPT ![a] = "up"]
          /\ UNCHANGED <<server, attempt, listening, pg_version, in_recovery,
                         statement, answer>>
      BY <1>2, <2>1 DEF Connected, OnConnect, knowledge
    <3>5. TypeOK'
      BY <1>1, <3>3, <3>4, Pipeline DEF TypeOK, Advance
    <3>6. Control'
      BY <1>1, <3>1, <3>3, <3>4 DEF IInv, Control, TypeOK, Attempts, Advance
    <3>7. Asked'
      <4> SUFFICES ASSUME NEW q \in Questions PROVE AskedOf(q)'
        BY DEF Asked
      <4>1. AskedOf(q) /\ q[1] \in Attempts /\ q[2] \in 2..7
        BY QuestionParts DEF IInv, Asked
      <4>2. /\ step'[q[1]] = IF q[1] = a THEN 2 ELSE step[q[1]]
            /\ UNCHANGED returned
        BY <1>1, <3>1, <3>3, <4>1 DEF TypeOK, Advance
      <4> QED BY <3>1, <3>4, <4>1, <4>2 DEF AskedOf
    <3>8. Known' /\ Made'
      BY <1>1, <3>1, <3>3, <3>4 DEF IInv, Known, Made, TypeOK, Advance
    <3> QED BY <3>3, <3>5, <3>6, <3>7, <3>8 DEF IInv, NeverThrows, Advance
  <2>2. CASE ~listening[a]
    <3>1. /\ socket' = [socket EXCEPT ![a] = "up"]
          /\ UNCHANGED <<server, attempt, timer, listening, client, step,
                         returned, destroyed, pg_version, in_recovery,
                         statement, answer, needs_setup, setting_up, thrown>>
      BY <1>2, <2>2 DEF Connected, knowledge, monitor
    <3>2. TypeOK' /\ Control'
      BY <1>1, <3>1 DEF IInv, TypeOK, Control
    <3>3. Asked' /\ Known' /\ Made'
      BY <3>1 DEF IInv, Asked, AskedOf, Known, Made
    <3> QED BY <3>1, <3>2, <3>3 DEF IInv, NeverThrows
  <2> QED BY <2>1, <2>2
<1>3. CASE ConnectTimeout(a)
  <2>1. /\ timer[a] = "armed" /\ step[a] = 1 /\ returned[a] = "no"
        /\ a = attempt /\ ~client[a] /\ ~destroyed[a]
    BY <1>1, <1>3 DEF IInv, Control, TypeOK, Attempts, ConnectTimeout
  <2>2. Callback(a, "error")
    BY <1>3 DEF ConnectTimeout
  <2>3. Over(a, "error")
    BY <1>1, <2>1, <2>2, CallbackMeans
  <2>4. /\ timer' = [timer EXCEPT ![a] = "fired"]
        /\ client' = [client EXCEPT ![a] = FALSE]
        /\ listening' = [listening EXCEPT ![a] = FALSE]
        /\ UNCHANGED <<server, attempt, socket, pg_version, in_recovery,
                       statement, answer>>
    BY <1>3 DEF ConnectTimeout, knowledge
  <2>5. TypeOK'
    BY <1>1, <2>3, <2>4 DEF TypeOK, Over
  <2>6. Control'
    BY <1>1, <2>1, <2>3, <2>4 DEF IInv, Control, TypeOK, Attempts, Over
  <2>7. Asked'
    <3> SUFFICES ASSUME NEW q \in Questions PROVE AskedOf(q)'
      BY DEF Asked
    <3>1. AskedOf(q) /\ q[1] \in Attempts /\ q[2] \in 2..7
      BY QuestionParts DEF IInv, Asked
    <3>2. UNCHANGED step /\ (q[1] # a => returned'[q[1]] = returned[q[1]])
      BY <1>1, <2>3, <3>1 DEF TypeOK, Over
    <3> QED BY <2>1, <2>4, <3>1, <3>2 DEF AskedOf
  <2>8. Known' /\ Made'
    BY <1>1, <2>3, <2>4 DEF IInv, Known, Made, Over
  <2> QED BY <2>3, <2>5, <2>6, <2>7, <2>8 DEF IInv, NeverThrows, Over
<1>4. CASE ConnectionLost(a)
  <2>1. /\ socket' = [socket EXCEPT ![a] = "lost"]
        /\ UNCHANGED <<server, attempt, timer, listening, client, step,
                       returned, destroyed, pg_version, in_recovery,
                       statement, answer, needs_setup, setting_up, thrown>>
    BY <1>4 DEF ConnectionLost, knowledge, monitor
  <2>2. TypeOK' /\ Control'
    BY <1>1, <2>1 DEF IInv, TypeOK, Control
  <2>3. Asked' /\ Known' /\ Made'
    BY <2>1 DEF IInv, Asked, AskedOf, Known, Made
  <2> QED BY <2>1, <2>2, <2>3 DEF IInv, NeverThrows
<1> QED BY <1>2, <1>3, <1>4

(* Steps of the functions.                                                 *)
LEMMA RunKeepsInv ==
  ASSUME IInv, NEW a \in Attempts, RunFunction(a)
  PROVE  IInv'
<1> DEFINE q == Question(a)
<1>1. TypeOK
  BY DEF IInv
<1>2. step[a] \in 2..7 /\ returned[a] = "no" /\ client[a]
  BY <1>1, Pipeline DEF RunFunction, TypeOK
<1>3. q = <<a, step[a]>> /\ q \in Questions /\ AskedOf(q)
  BY <1>2, AQuestion DEF Question, IInv, Asked
<1>4. step[a] > 2 => pg_version[a] = server.version
  BY DEF IInv, Known
<1>5. server.version \in Nat
  BY <1>1, VersionsAssumption DEF TypeOK, Servers
<1>6. Skipped(a) <=> \/ step[a] = 6 /\ pg_version[a] < 90400
                     \/ step[a] = 7 /\ pg_version[a] < 90600
  <2>1. step[a] \in {2, 3, 4, 5, 6, 7}
    BY <1>2
  <2> QED BY <2>1, Pipeline DEF Skipped
<1>7. UNCHANGED <<server, attempt, connection, knowledge>>
  BY DEF RunFunction
<1>8. CASE Skipped(a)
  <2>1. answer[q] = "none"
    BY <1>3, <1>4, <1>5, <1>6, <1>8 DEF AskedOf
  <2>2. Callback(a, "none") /\ UNCHANGED <<statement, answer>>
    BY <1>8 DEF RunFunction
  <2>3. Advance(a) \/ Over(a, "ok")
    BY <1>1, <1>2, <1>4, <2>2, CallbackMeans
       DEF TypeOK, Servers
  <2>4. StepDone(a)
    BY <1>4, <1>6, <1>8, <1>5 DEF StepDone
  <2>5. answer' = [answer EXCEPT ![<<a, step[a]>>] = "none"]
    BY <1>1, <1>3, <2>1, <2>2 DEF TypeOK
  <2> QED BY <1>2, <1>7, <2>2, <2>3, <2>4, <2>5, CallbackKeepsInv
<1>9. CASE ~Skipped(a)
  <2>1. /\ answer[q] = "none"
        /\ answer' = [answer EXCEPT ![q] = "issued"]
        /\ \E s \in {"sent", "none"} :
             statement' = [statement EXCEPT ![q] = s]
        /\ UNCHANGED <<step, returned, destroyed, needs_setup, setting_up,
                       thrown>>
    BY <1>9 DEF RunFunction, Ask!Issue, monitor
  <2>2. /\ UNCHANGED <<server, attempt, timer, socket, listening, client>>
        /\ UNCHANGED <<pg_version, in_recovery>>
    BY <1>7 DEF connection, knowledge
  <2>3. TypeOK'
    BY <1>1, <1>3, <2>1, <2>2 DEF TypeOK
  <2>4. Control' /\ Known'
    BY <2>1, <2>2 DEF IInv, Control, Known
  <2>5. \A r \in Questions :
          /\ answer'[r] = IF r = q THEN "issued" ELSE answer[r]
          /\ statement'[r] \in {statement[r], "sent", "none"}
    BY <1>1, <1>3, <2>1 DEF TypeOK
  <2>6. Asked'
    <3> SUFFICES ASSUME NEW r \in Questions PROVE AskedOf(r)'
      BY DEF Asked
    <3>1. AskedOf(r) /\ r = <<r[1], r[2]>>
      BY QuestionParts DEF IInv, Asked
    <3>2. CASE r = q
      <4>1. r[1] = a /\ r[2] = step[a]
        BY <1>3, <3>2
      <4>2. /\ r[2] = 6 => server.version >= 90400
            /\ r[2] = 7 => server.version >= 90600
        BY <1>4, <1>5, <1>6, <1>9, <4>1
      <4> QED BY <1>2, <2>1, <2>2, <2>5, <3>1, <3>2, <4>1, <4>2 DEF AskedOf
    <3>3. CASE r # q
      BY <2>1, <2>2, <2>5, <3>1, <3>3 DEF AskedOf
    <3> QED BY <3>2, <3>3
  <2>7. Made'
    BY <2>1, <2>2, <2>5 DEF IInv, Made
  <2> QED BY <2>1, <2>3, <2>4, <2>6, <2>7 DEF IInv, NeverThrows
<1> QED BY <1>8, <1>9

LEMMA RowKeepsInv ==
  ASSUME IInv, NEW q \in Questions, OnRow(q)
  PROVE  IInv'
<1>1. TypeOK /\ AskedOf(q) /\ q[1] \in Attempts
  BY QuestionParts DEF IInv, Asked
<1>2. /\ answer[q] = "issued" /\ answer' = [answer EXCEPT ![q] = "row"]
      /\ UNCHANGED <<server, attempt, step, returned, timer, socket, listening,
                     client, destroyed, statement, needs_setup, setting_up,
                     thrown>>
  BY DEF OnRow, Ask!GiveRow, connection, monitor
<1>3. \/ /\ q[2] = 2
         /\ pg_version' = [pg_version EXCEPT ![q[1]] = server.version]
         /\ UNCHANGED in_recovery
      \/ /\ q[2] = 3
         /\ in_recovery' = [in_recovery EXCEPT ![q[1]] = statement[q] = "standby"]
         /\ UNCHANGED pg_version
  BY RunsAt DEF OnRow
<1>4. TypeOK'
  BY <1>1, <1>2, <1>3 DEF TypeOK, Servers
<1>5. Control' /\ Made'
  BY <1>2 DEF IInv, Control, Made
<1>6. Asked'
  <2> SUFFICES ASSUME NEW r \in Questions PROVE AskedOf(r)'
    BY DEF Asked
  <2>1. AskedOf(r) /\ r[1] \in Attempts
    BY QuestionParts DEF IInv, Asked
  <2>2. /\ answer'[r] = IF r = q THEN "row" ELSE answer[r]
        /\ pg_version'[r[1]] \in {pg_version[r[1]], server.version}
        /\ q[2] = 2 => pg_version'[q[1]] = server.version
    BY <1>1, <1>2, <1>3, <2>1 DEF TypeOK
  <2> QED BY <1>1, <1>2, <2>1, <2>2 DEF AskedOf
<1>7. Known'
  <2> SUFFICES ASSUME NEW b \in Attempts
               PROVE  /\ step'[b] > 2 => pg_version'[b] = server.version
                      /\ in_recovery'[b] => server.standing # "primary"
    BY <1>2 DEF Known
  <2>1. /\ step[b] > 2 => pg_version[b] = server.version
        /\ in_recovery[b] => server.standing # "primary"
    BY DEF IInv, Known
  <2>2. pg_version'[b] \in {pg_version[b], server.version}
    BY <1>1, <1>3 DEF TypeOK
  <2>3. in_recovery'[b] => in_recovery[b] \/ statement[q] = "standby"
    BY <1>1, <1>3 DEF TypeOK
  <2> QED BY <1>1, <1>2, <2>1, <2>2, <2>3 DEF AskedOf
<1> QED BY <1>2, <1>4, <1>5, <1>6, <1>7 DEF IInv, NeverThrows

(* An event with which PGClient settles a query.                           *)
LEMMA SettleMeans ==
  ASSUME TypeOK, NEW q \in Questions, Ask!Settle(q),
         NEW event \in {"end", "error"}, answer'[q] = event
  PROVE  answer[q] \in {"issued", "row"} /\ answer' = [answer EXCEPT ![q] = event]
BY DEF Ask!Settle, Ask!Open, TypeOK

LEMMA AnswerKeepsInv ==
  ASSUME IInv, NEW q \in Questions, Answered(q)
  PROVE  IInv'
<1> DEFINE a == q[1]
<1>1. TypeOK /\ AskedOf(q) /\ a \in Attempts /\ q[2] \in 2..7 /\ q = <<a, q[2]>>
  BY QuestionParts DEF IInv, Asked
<1>2. answer[q] \in {"issued", "row"}
  BY <1>1, SettleMeans DEF Answered, OnEnd, OnSqlError, OnNoAnswer
<1>3. step[a] = q[2] /\ returned[a] = "no" /\ q = <<a, step[a]>>
  BY <1>1, <1>2 DEF AskedOf
<1>4. UNCHANGED <<server, attempt, connection, knowledge, statement>>
  BY DEF Answered, OnEnd, OnSqlError, OnNoAnswer
<1>5. pg_version[a] \in Versions \/ step[a] = 2
  <2>1. server.version \in Versions
    BY <1>1 DEF TypeOK, Servers
  <2>2. step[a] > 2 => pg_version[a] = server.version
    BY <1>1 DEF IInv, Known
  <2> QED BY <1>1, <1>3, <2>1, <2>2
<1>6. CASE OnEnd(q)
  <2>1. /\ answer' = [answer EXCEPT ![<<a, step[a]>>] = "end"]
        /\ statement[q] \in {"done", "standby"}
        /\ answer[q] = IF ReturnsRows(q) THEN "row" ELSE "issued"
    BY <1>1, <1>3, <1>6, SettleMeans DEF OnEnd
  <2>2. step[a] = 2 => pg_version[a] = server.version
    BY <1>1, <1>3, <2>1, RunsAt DEF AskedOf, ReturnsRows
  <2>3. StepDone(a)
    BY <1>1, <1>3, <2>1, <2>2 DEF StepDone, IInv, Made, AskedOf
  <2>4. PICK err \in {"none", "recovery"} :
          Callback(a, err) /\ (err = "recovery" => step[a] = 3)
    BY <1>3, <1>6, RunsAt DEF OnEnd
  <2>5. Advance(a) \/ Over(a, "ok")
    BY <1>1, <1>3, <1>5, <2>4, CallbackMeans
  <2> QED BY <1>1, <1>2, <1>3, <1>4, <2>1, <2>2, <2>3, <2>5, CallbackKeepsInv
<1>7. CASE OnSqlError(q)
  <2>1. answer' = [answer EXCEPT ![<<a, step[a]>>] = "error"]
    BY <1>1, <1>3, <1>7, SettleMeans DEF OnSqlError
  <2>2. PICK err \in {"none", "error"} :
          Callback(a, err) /\ (err = "none" => statement[q] = "exists")
    BY <1>7 DEF OnSqlError
  <2>3. CASE err = "none"
    <3>1. step[a] = 4 /\ server.role
      BY <1>1, <1>3, <2>2, <2>3 DEF AskedOf, IInv, Made
    <3>2. Advance(a) /\ StepDone(a)
      BY <1>1, <1>3, <2>2, <2>3, <3>1, CallbackMeans DEF StepDone
    <3> QED BY <1>1, <1>2, <1>3, <1>4, <2>1, <3>2, CallbackKeepsInv
  <2>4. CASE err = "error"
    <3>1. Over(a, "error")
      BY <1>1, <1>3, <2>2, <2>4, CallbackMeans
    <3> QED BY <1>1, <1>2, <1>3, <1>4, <2>1, <3>1, CallbackKeepsInv
  <2> QED BY <2>3, <2>4
<1>8. CASE OnNoAnswer(q)
  <2>1. answer' = [answer EXCEPT ![<<a, step[a]>>] = "error"]
    BY <1>1, <1>3, <1>8, SettleMeans DEF OnNoAnswer
  <2>2. Callback(a, "error")
    BY <1>8 DEF OnNoAnswer
  <2>3. Over(a, "error")
    BY <1>1, <1>3, <2>2, CallbackMeans
  <2> QED BY <1>1, <1>2, <1>3, <1>4, <2>1, <2>3, CallbackKeepsInv
<1> QED BY <1>6, <1>7, <1>8 DEF Answered

(* Steps of Postgres.                                                      *)
LEMMA ServerKeepsInv ==
  ASSUME IInv, Promote \/ \E q \in Questions : Execute(q)
  PROVE  IInv'
<1>1. TypeOK
  BY DEF IInv
<1>2. UNCHANGED <<attempt, step, returned, timer, socket, listening, client,
                  destroyed, pg_version, in_recovery, answer, needs_setup,
                  setting_up, thrown>>
  BY DEF Promote, Execute, connection, knowledge, monitor
<1>3. Control'
  BY <1>2 DEF IInv, Control
<1>4. CASE Promote
  <2>1. /\ UNCHANGED statement
        /\ server' = [server EXCEPT !.standing = "promoted"]
    BY <1>4 DEF Promote
  <2>2. /\ server' \in Servers
        /\ server'.version = server.version /\ server'.role = server.role
        /\ server'.functions = server.functions
        /\ server'.standing # "primary"
    BY <1>1, <2>1 DEF TypeOK, Servers
  <2>3. TypeOK'
    BY <1>1, <1>2, <2>1, <2>2 DEF TypeOK
  <2>4. Asked' /\ Known' /\ Made'
    BY <1>2, <2>1, <2>2 DEF IInv, Asked, AskedOf, Known, Made
  <2> QED BY <1>2, <1>3, <2>3, <2>4 DEF IInv, NeverThrows
<1>5. ASSUME NEW q \in Questions, Execute(q) PROVE IInv'
  <2>1. q[2] \in {2, 3, 4, 5, 6, 7}
    BY QuestionParts
  <2>2. PICK s \in {"failed", "done", "standby", "exists"} :
          /\ statement' = [statement EXCEPT ![q] = s]
          /\ s = "standby" => q[2] = 3 /\ server.standing # "primary"
          /\ s = "exists" => q[2] = 4
    BY <1>5, RunsAt DEF Execute
  <2>3. /\ server' \in Servers
        /\ server'.version = server.version
        /\ server'.standing = server.standing
        /\ server.role => server'.role
        /\ server.functions \subseteq server'.functions
        /\ q[2] = 4 /\ statement'[q] \in {"done", "exists"} => server'.role
        /\ q[2] = 5 /\ statement'[q] = "done" =>
             "get_stat_activity" \in server'.functions
        /\ q[2] = 6 /\ statement'[q] = "done" =>
             "get_stat_replication" \in server'.functions
        /\ q[2] = 7 /\ statement'[q] = "done" =>
             "get_stat_progress_vacuum" \in server'.functions
    <3>1. \/ /\ statement' = [statement EXCEPT ![q] = "failed"]
             /\ UNCHANGED server
          \/ q[2] \in {2, 3} /\ UNCHANGED server
          \/ q[2] = 4 /\ server' = [server EXCEPT !.role = TRUE]
          \/ /\ q[2] \in {5, 6, 7}
             /\ server' = [server EXCEPT !.functions =
                                server.functions \cup {Creates[Funcs[q[2]]]}]
      BY <1>5, <2>1, RunsAt DEF Execute
    <3>2. server \in Servers /\ statement'[q] = s
      BY <1>1, <2>2 DEF TypeOK
    <3>3. CASE UNCHANGED server /\ (s = "failed" \/ q[2] \in {2, 3})
      BY <2>2, <3>2, <3>3
    <3>4. CASE q[2] = 4 /\ server' = [server EXCEPT !.role = TRUE]
      <4>1. /\ server'.version = server.version
            /\ server'.standing = server.standing
            /\ server'.functions = server.functions
            /\ server'.role
        BY <3>2, <3>4, Zenon DEF Servers
      <4>2. server' \in Servers
        BY <3>2, <3>4 DEF Servers
      <4>3. q[2] # 5 /\ q[2] # 6 /\ q[2] # 7
        BY <3>4
      <4> QED BY <4>1, <4>2, <4>3
    <3>5. CASE /\ q[2] \in {5, 6, 7}
               /\ server' = [server EXCEPT !.functions =
                                server.functions \cup {Creates[Funcs[q[2]]]}]
      <4>1. /\ q[2] = 5 => Creates[Funcs[q[2]]] = "get_stat_activity"
            /\ q[2] = 6 => Creates[Funcs[q[2]]] = "get_stat_replication"
            /\ q[2] = 7 => Creates[Funcs[q[2]]] = "get_stat_progress_vacuum"
        BY CreatesTable
      <4>2. Creates[Funcs[q[2]]] \in Functions
        BY <3>5, <4>1 DEF Functions
      <4>3. /\ server'.version = server.version
            /\ server'.standing = server.standing
            /\ server'.role = server.role
            /\ server'.functions =
                 server.functions \cup {Creates[Funcs[q[2]]]}
        BY <3>2, <3>5, Zenon DEF Servers
      <4>4. server' \in Servers
        BY <3>2, <3>5, <4>2 DEF Servers
      <4>5. q[2] # 4
        BY <3>5
      <4> QED BY <4>1, <4>3, <4>4, <4>5
    <3>6. statement' = [statement EXCEPT ![q] = "failed"] => s = "failed"
      BY <1>1, <2>2 DEF TypeOK
    <3> QED BY <3>1, <3>3, <3>4, <3>5, <3>6
  <2>4. TypeOK'
    BY <1>1, <1>2, <2>2, <2>3 DEF TypeOK
  <2>5. \A r \in Questions : statement'[r] = IF r = q THEN s ELSE statement[r]
    BY <1>1, <2>2 DEF TypeOK
  <2>6. Asked' /\ Known'
    BY <1>2, <2>2, <2>3, <2>5 DEF IInv, Asked, AskedOf, Known
  <2>7. Made'
    BY <1>2, <2>3, <2>5 DEF IInv, Made
  <2> QED BY <1>2, <1>3, <2>4, <2>6, <2>7 DEF IInv, NeverThrows
<1> QED BY <1>4, <1>5

LEMMA NextKeepsInv == IInv /\ [Next]_vars => IInv'
<1> SUFFICES ASSUME IInv, [Next]_vars PROVE IInv'
  OBVIOUS
<1>1. CASE UNCHANGED vars
  BY <1>1 DEF IInv, TypeOK, Control, Asked, AskedOf, Known, Made, NeverThrows,
              vars, connection, knowledge, monitor
<1>2. CASE SetupBackend
  BY <1>2, SetupKeepsInv
<1>3. ASSUME NEW a \in Attempts,
             \/ Connected(a) \/ ConnectTimeout(a)
             \/ ConnectionLost(a) \/ RunFunction(a)
      PROVE  IInv'
  BY <1>3, ConnectionKeepsInv, RunKeepsInv
<1>4. ASSUME NEW q \in Questions, OnRow(q) \/ Answered(q) PROVE IInv'
  BY <1>4, RowKeepsInv, AnswerKeepsInv
<1>5. CASE Promote \/ \E q \in Questions : Execute(q)
  BY <1>5, ServerKeepsInv
<1> QED BY <1>1, <1>2, <1>3, <1>4, <1>5 DEF Next

THEOREM Invariance == Spec => []IInv
BY InitHolds, NextKeepsInv, PTL DEF Spec

(* The variables have their types.                                         *)
THEOREM TypeCorrect == Spec => []TypeOK
<1>1. IInv => TypeOK
  BY DEF IInv
<1> QED BY <1>1, Invariance, PTL

(* A superuser's client that an attempt has got is destroyed exactly when  *)
(* the attempt is over: the callback of the pipeline finds it on every way *)
(* out, and no function is left to use it.                                 *)
THEOREM ClientIsDestroyed == Spec => []ClientDestroyed
<1>1. IInv => ClientDestroyed
  BY DEF IInv, Control, ClientDestroyed, TypeOK
<1> QED BY <1>1, Invariance, PTL

(* The version is known whenever the setup succeeds, so that no assertion  *)
(* of getQueries ends the process, if the catalogue is good for it.        *)
THEOREM ProcessGoesOn == Spec => []NeverThrows
<1>1. IInv => NeverThrows
  BY DEF IInv
<1> QED BY <1>1, Invariance, PTL

-----------------------------------------------------------------------------
(* The refinement of BackendSetup.                                         *)

(* All that the pipeline creates for the server's version is there.        *)
Ready == server.role /\ Created(server.version) \subseteq server.functions

LEMMA ReadyMeansPrepared == TypeOK /\ Ready => Prepared
<1> SUFFICES ASSUME TypeOK, Ready PROVE Prepared
  OBVIOUS
<1>1. server.version \in Versions
  BY DEF TypeOK, Servers
<1> QED BY <1>1, CallsAssumption DEF Prepared, Ready

(* The steps of an attempt that is under way either leave the two flags of *)
(* the monitor alone or are its end.                                       *)
Ends ==
  \/ UNCHANGED <<needs_setup, setting_up>>
  \/ setting_up /\ setting_up' = FALSE /\ needs_setup' = TRUE
  \/ /\ setting_up /\ setting_up' = FALSE /\ needs_setup' = FALSE
     /\ Ready \/ server.standing # "primary"

LEMMA OverEnds ==
  ASSUME IInv, NEW a \in Attempts, step[a] \in 1..7, returned[a] = "no",
         \/ Advance(a)
         \/ Over(a, "error")
         \/ Over(a, "ok") /\ (Ready \/ server.standing # "primary")
  PROVE  Ends
<1>1. CASE Advance(a)
  BY <1>1 DEF Advance, Ends
<1>2. CASE ~Advance(a)
  <2>1. setting_up
    BY DEF IInv, Control, TypeOK, Attempts
  <2> QED BY <1>2, <2>1 DEF Over, Ends
<1> QED BY <1>1, <1>2

LEMMA ConnectionEnds ==
  ASSUME IInv, NEW a \in Attempts,
         Connected(a) \/ ConnectTimeout(a) \/ ConnectionLost(a)
  PROVE  UNCHANGED server /\ Ends
<1>1. TypeOK
  BY DEF IInv
<1>2. CASE Connected(a) /\ listening[a]
  <2>1. /\ step[a] = 1 /\ returned[a] = "no" /\ UNCHANGED server
        /\ Callback(a, "none")
    BY <1>1, <1>2 DEF IInv, Control, TypeOK, Attempts, Connected
  <2>2. Advance(a)
    BY <1>1, <2>1, CallbackMeans
  <2> QED BY <2>1, <2>2, OverEnds
<1>3. CASE ConnectTimeout(a)
  <2>1. /\ step[a] = 1 /\ returned[a] = "no" /\ UNCHANGED server
        /\ Callback(a, "error")
    BY <1>1, <1>3 DEF IInv, Control, TypeOK, ConnectTimeout
  <2>2. Over(a, "error")
    BY <1>1, <2>1, CallbackMeans
  <2> QED BY <2>1, <2>2, OverEnds
<1>4. CASE (Connected(a) /\ ~listening[a]) \/ ConnectionLost(a)
  BY <1>4 DEF Connected, ConnectionLost, monitor, Ends
<1> QED BY <1>2, <1>3, <1>4

LEMMA RunEnds ==
  ASSUME IInv, NEW a \in Attempts, RunFunction(a)
  PROVE  UNCHANGED server /\ Ends
<1>1. TypeOK /\ UNCHANGED server
  BY DEF IInv, RunFunction
<1>2. step[a] \in 2..7 /\ returned[a] = "no"
  BY <1>1, Pipeline DEF RunFunction, TypeOK
<1>3. step[a] > 2 => pg_version[a] = server.version
  BY DEF IInv, Known
<1>4. CASE ~Skipped(a)
  BY <1>1, <1>4 DEF RunFunction, monitor, Ends
<1>5. CASE Skipped(a)
  <2>1. step[a] \in {6, 7}
    <3>1. step[a] \in {2, 3, 4, 5, 6, 7}
      BY <1>2
    <3> QED BY <1>5, <3>1, Pipeline DEF Skipped
  <2>2. Callback(a, "none")
    BY <1>5 DEF RunFunction
  <2>3. server.version \in Nat /\ server.version \in Versions
    BY <1>1, VersionsAssumption DEF TypeOK, Servers
  <2>4. Advance(a) \/ (step[a] = 7 /\ Over(a, "ok"))
    BY <1>1, <1>2, <1>3, <2>1, <2>2, <2>3, CallbackMeans
  <2>5. step[a] = 7 => Ready
    <3> SUFFICES ASSUME step[a] = 7 PROVE Ready
      OBVIOUS
    <3>1. server.version < 90600
      BY <1>3, <1>5, Pipeline DEF Skipped
    <3> QED BY <2>3, <3>1 DEF Ready, Created, IInv, Made
  <2> QED BY <1>1, <1>2, <2>4, <2>5, OverEnds
<1> QED BY <1>4, <1>5

LEMMA AnswerEnds ==
  ASSUME IInv, NEW q \in Questions, OnRow(q) \/ Answered(q)
  PROVE  UNCHANGED server /\ Ends
<1> DEFINE a == q[1]
<1>1. TypeOK /\ AskedOf(q) /\ a \in Attempts /\ q[2] \in 2..7
  BY QuestionParts DEF IInv, Asked
<1>2. CASE OnRow(q)
  BY <1>2 DEF OnRow, monitor, Ends
<1>3. CASE Answered(q)
  <2>1. answer[q] \in {"issued", "row"} /\ UNCHANGED server
    BY <1>1, <1>3, SettleMeans DEF Answered, OnEnd, OnSqlError, OnNoAnswer
  <2>2. step[a] = q[2] /\ returned[a] = "no"
    BY <1>1, <2>1 DEF AskedOf
  <2>3. server.version \in Nat /\ server.version \in Versions
    BY <1>1, VersionsAssumption DEF TypeOK, Servers
  <2>4. step[a] > 2 => pg_version[a] = server.version
    BY <1>1 DEF IInv, Known
  <2>5. PICK err \in {"none", "error", "recovery"} :
          /\ Callback(a, err)
          /\ err = "recovery" => step[a] = 3 /\ in_recovery[a]
          /\ err = "none" /\ step[a] = 7 => statement[q] = "done"
    <3>1. CASE OnEnd(q)
      BY <1>1, <2>2, <3>1, RunsAt DEF OnEnd, AskedOf
    <3>2. CASE OnSqlError(q)
      BY <1>1, <2>2, <3>2 DEF OnSqlError, AskedOf
    <3>3. CASE OnNoAnswer(q)
      BY <3>3 DEF OnNoAnswer
    <3> QED BY <1>3, <3>1, <3>2, <3>3 DEF Answered
  <2>6. \/ Advance(a)
        \/ Over(a, "error")
        \/ (err = "recovery" \/ (err = "none" /\ step[a] = 7)) /\ Over(a, "ok")
    BY <1>1, <2>2, <2>3, <2>4, <2>5, CallbackMeans
  <2>7. err = "recovery" => server.standing # "primary"
    BY <1>1, <2>5 DEF IInv, Known
  <2>8. ASSUME err = "none", step[a] = 7 PROVE Ready
    <3>1. /\ server.role
          /\ "get_stat_activity" \in server.functions
          /\ server.version >= 90400 =>
               "get_stat_replication" \in server.functions
          /\ "get_stat_progress_vacuum" \in server.functions
      <4>1. q[2] = 7 /\ statement[q] = "done" /\ Made
        BY <2>2, <2>5, <2>8 DEF IInv
      <4>2. "get_stat_progress_vacuum" \in server.functions
        <5>1. \A r \in Questions : r[2] = 7 /\ statement[r] = "done" =>
                "get_stat_progress_vacuum" \in server.functions
          BY <4>1 DEF Made
        <5> HIDE DEF a
        <5> QED BY <4>1, <5>1
      <4>3. step[a] > 4 /\ step[a] > 5 /\ step[a] > 6
        BY <2>8
      <4> QED BY <1>1, <4>1, <4>2, <4>3 DEF Made
    <3> QED BY <2>3, <3>1 DEF Ready, Created
  <2> QED BY <1>1, <2>1, <2>2, <2>6, <2>7, <2>8, OverEnds
<1> QED BY <1>2, <1>3

LEMMA VersionStays ==
  ASSUME IInv, Promote \/ \E q \in Questions : Execute(q)
  PROVE  server'.version = server.version
<1>1. server \in Servers
  BY DEF IInv, TypeOK
<1>2. CASE Promote
  BY <1>1, <1>2 DEF Promote, Servers
<1>3. ASSUME NEW q \in Questions, Execute(q)
      PROVE  server'.version = server.version
  <2>1. \/ UNCHANGED server
        \/ server' = [server EXCEPT !.role = TRUE]
        \/ server' = [server EXCEPT !.functions =
                        server.functions \cup {Creates[Funcs[q[2]]]}]
    BY <1>3 DEF Execute
  <2> QED BY <1>1, <2>1, Zenon DEF Servers
<1> QED BY <1>2, <1>3

LEMMA PreparedStays ==
  ASSUME IInv, Promote \/ \E q \in Questions : Execute(q)
  PROVE  /\ Prepared => Prepared'
         /\ (server.standing # "primary") <=> (server'.standing # "primary")
<1>1. server \in Servers
  BY DEF IInv, TypeOK
<1>2. /\ server'.version = server.version
      /\ server.role => server'.role
      /\ server.functions \subseteq server'.functions
      /\ server'.standing = server.standing
           \/ (server.standing = "standby" /\ server'.standing = "promoted")
  <2>1. CASE Promote
    BY <1>1, <2>1 DEF Promote, Servers
  <2>2. ASSUME NEW q \in Questions, Execute(q) PROVE <1>2
    <3>1. \/ UNCHANGED server
          \/ server' = [server EXCEPT !.role = TRUE]
          \/ server' = [server EXCEPT !.functions =
                          server.functions \cup {Creates[Funcs[q[2]]]}]
      BY <2>2 DEF Execute
    <3>2. CASE server' = [server EXCEPT !.role = TRUE]
      BY <1>1, <3>2, Zenon DEF Servers
    <3>3. CASE server' = [server EXCEPT !.functions =
                            server.functions \cup {Creates[Funcs[q[2]]]}]
      <4>1. server'.functions = server.functions \cup {Creates[Funcs[q[2]]]}
        BY <1>1, <3>3, Zenon DEF Servers
      <4>2. /\ server'.version = server.version
            /\ server'.role = server.role
            /\ server'.standing = server.standing
        BY <1>1, <3>3, Zenon DEF Servers
      <4> QED BY <4>1, <4>2
    <3> QED BY <3>1, <3>2, <3>3
  <2> QED BY <2>1, <2>2
<1> QED BY <1>2 DEF Prepared

(* A step of the detailed specification is one of the abstract one, or     *)
(* leaves its variables alone.                                             *)
LEMMA StepRefines == IInv /\ [Next]_vars => [Promise!Next]_Promise!vars
<1> SUFFICES ASSUME IInv, [Next]_vars PROVE Promise!Next
  OBVIOUS
<1>1. /\ setting_up \in BOOLEAN /\ needs_setup \in BOOLEAN
  BY DEF IInv, TypeOK
<1>2. ASSUME UNCHANGED server, SetupBackend \/ Ends PROVE Promise!Next
  <2>1. Prepared' = Prepared
    BY <1>2 DEF Prepared
  <2>2. UNCHANGED (server.standing # "primary")
    BY <1>2
  <2>3. Promise!Begin \/ Promise!Fail \/ Promise!Succeed \/ UNCHANGED Status
    <3>1. CASE SetupBackend
      BY <3>1 DEF SetupBackend, Promise!Begin, Status
    <3>2. CASE Ends
      BY <1>1, <3>2, ReadyMeansPrepared
         DEF Ends, Status, Promise!Fail, Promise!Succeed, IInv
    <3> QED BY <1>2, <3>1, <3>2
  <2> QED BY <2>1, <2>2, <2>3 DEF Promise!Next
<1>3. CASE UNCHANGED vars
  BY <1>2, <1>3 DEF vars, monitor, Ends
<1>4. CASE SetupBackend
  BY <1>2, <1>4 DEF SetupBackend
<1>5. ASSUME NEW a \in Attempts,
             \/ Connected(a) \/ ConnectTimeout(a)
             \/ ConnectionLost(a) \/ RunFunction(a)
      PROVE  Promise!Next
  BY <1>2, <1>5, ConnectionEnds, RunEnds
<1>6. ASSUME NEW q \in Questions, OnRow(q) \/ Answered(q) PROVE Promise!Next
  BY <1>2, <1>6, AnswerEnds
<1>7. CASE Promote \/ \E q \in Questions : Execute(q)
  <2>1. UNCHANGED <<needs_setup, setting_up>>
    BY <1>7 DEF Promote, Execute, monitor
  <2>2. UNCHANGED Status
    BY <2>1 DEF Status
  <2>3. Prepared' \in {TRUE, Prepared}
    <3>1. Prepared => Prepared'
      BY <1>7, PreparedStays
    <3>2. CASE Prepared'
      <4>1. Prepared' = TRUE
        BY <3>2 DEF Prepared
      <4> QED BY <4>1
    <3>3. CASE ~Prepared'
      <4>1. Prepared' = Prepared
        BY <3>1, <3>3 DEF Prepared
      <4> QED BY <4>1
    <3> QED BY <3>2, <3>3
  <2>4. UNCHANGED (server.standing # "primary")
    BY <1>7, PreparedStays
  <2> QED BY <2>2, <2>3, <2>4 DEF Promise!Next
<1> QED BY <1>3, <1>4, <1>5, <1>6, <1>7 DEF Next

(* The detailed setup keeps the promise of BackendSetup: it is tried until *)
(* it succeeds once, and then the server has the role and the functions    *)
(* that the backend's queries use, or was a standby; whatever is lost,     *)
(* late, refused or executed twice.                                        *)
THEOREM SetupKeepsItsPromise == Spec => SetupKeepsPromise
<1>1. Init => Promise!Init
  BY DEF Init, Promise!Init, Status, Prepared
<1> QED BY <1>1, StepRefines, Invariance, PTL
           DEF Spec, SetupKeepsPromise, Promise!Spec

-----------------------------------------------------------------------------
(* The choice of the queries.                                              *)

(* What the backend runs was chosen for the version of its server.         *)
Chosen == ~needs_setup => queries = getQueries(Catalogue, server.version)

LEMMA CallbackChooses ==
  ASSUME NEW a \in Attempts, NEW err \in {"none", "error", "recovery"},
         step[a] \in 1..7, Callback(a, err)
  PROVE  \/ UNCHANGED <<needs_setup, queries>>
         \/ needs_setup' = TRUE
         \/ /\ err = "recovery" \/ (err = "none" /\ step[a] = 7)
            /\ queries' = getQueries(Catalogue, pg_version[a])
BY Pipeline DEF Callback, Finish, ChooseQueries, monitor

LEMMA ChoiceStays ==
  ASSUME Chosen, UNCHANGED <<needs_setup, queries>>,
         server'.version = server.version
  PROVE  Chosen'
BY DEF Chosen

(* A callback chooses for the version that is known.                       *)
LEMMA CallbackKeepsChosen ==
  ASSUME IInv, Chosen, UNCHANGED server,
         NEW a \in Attempts, NEW err \in {"none", "error", "recovery"},
         step[a] \in 1..7, Callback(a, err),
         err = "recovery" => step[a] > 2
  PROVE  Chosen'
<1>1. step[a] > 2 => pg_version[a] = server.version
  BY DEF IInv, Known
<1>2. CASE UNCHANGED <<needs_setup, queries>> \/ needs_setup' = TRUE
  BY <1>2 DEF Chosen
<1>3. CASE /\ err = "recovery" \/ (err = "none" /\ step[a] = 7)
           /\ queries' = getQueries(Catalogue, pg_version[a])
  <2>1. pg_version[a] = server'.version
    BY <1>1, <1>3
  <2> QED BY <1>3, <2>1 DEF Chosen
<1> QED BY <1>2, <1>3, CallbackChooses

LEMMA NextKeepsChosen == IInv /\ Chosen /\ [Next]_vars => Chosen'
<1> SUFFICES ASSUME IInv, Chosen, [Next]_vars PROVE Chosen'
  OBVIOUS
<1>0. TypeOK
  BY DEF IInv
<1>1. CASE UNCHANGED vars \/ SetupBackend
  BY <1>1, ChoiceStays DEF vars, monitor, SetupBackend
<1>2. ASSUME NEW a \in Attempts, Connected(a) \/ ConnectionLost(a)
      PROVE  Chosen'
  <2>1. CASE Connected(a) /\ listening[a]
    <3>1. step[a] = 1 /\ UNCHANGED server /\ Callback(a, "none")
      BY <1>0, <2>1 DEF IInv, Control, TypeOK, Connected
    <3> QED BY <3>1, CallbackKeepsChosen
  <2>2. CASE (Connected(a) /\ ~listening[a]) \/ ConnectionLost(a)
    BY <2>2, ChoiceStays DEF Connected, ConnectionLost, monitor
  <2> QED BY <1>2, <2>1, <2>2
<1>3. ASSUME NEW a \in Attempts, ConnectTimeout(a) PROVE Chosen'
  <2>1. step[a] = 1 /\ UNCHANGED server /\ Callback(a, "error")
    BY <1>0, <1>3 DEF IInv, Control, TypeOK, ConnectTimeout
  <2> QED BY <2>1, CallbackKeepsChosen
<1>4. ASSUME NEW a \in Attempts, RunFunction(a) PROVE Chosen'
  <2>1. CASE Skipped(a)
    <3>1. step[a] \in 1..7 /\ UNCHANGED server /\ Callback(a, "none")
      BY <1>0, <1>4, <2>1, Pipeline DEF RunFunction, TypeOK
    <3> QED BY <3>1, CallbackKeepsChosen
  <2>2. CASE ~Skipped(a)
    BY <1>4, <2>2, ChoiceStays DEF RunFunction, monitor
  <2> QED BY <2>1, <2>2
<1>5. ASSUME NEW q \in Questions, OnRow(q) PROVE Chosen'
  BY <1>5, ChoiceStays DEF OnRow, monitor
<1>6. ASSUME NEW q \in Questions, Answered(q) PROVE Chosen'
  <2>1. q[1] \in Attempts /\ q[2] \in 2..7 /\ AskedOf(q)
    BY QuestionParts DEF IInv, Asked
  <2>2. answer[q] \in {"issued", "row"} /\ UNCHANGED server
    BY <1>0, <1>6, <2>1, SettleMeans DEF Answered, OnEnd, OnSqlError, OnNoAnswer
  <2>3. step[q[1]] = q[2]
    BY <2>1, <2>2 DEF AskedOf
  <2>4. PICK err \in {"none", "error", "recovery"} :
          Callback(q[1], err) /\ (err = "recovery" => q[2] = 3)
    BY <1>6, RunsAt DEF Answered, OnEnd, OnSqlError, OnNoAnswer
  <2>5. step[q[1]] \in 1..7 /\ (err = "recovery" => step[q[1]] > 2)
    BY <2>1, <2>3, <2>4
  <2> QED BY <2>1, <2>2, <2>4, <2>5, CallbackKeepsChosen
<1>7. CASE Promote \/ \E q \in Questions : Execute(q)
  <2>1. UNCHANGED <<needs_setup, queries>>
    BY <1>7 DEF Promote, Execute, monitor
  <2>2. server'.version = server.version
    BY <1>7, VersionStays
  <2> QED BY <2>1, <2>2, ChoiceStays
<1> QED BY <1>1, <1>2, <1>3, <1>4, <1>5, <1>6, <1>7 DEF Next

(* A backend that is set up runs, of every query, the SQL of the highest   *)
(* version its server reaches, and no query it has no SQL for: the version *)
(* that getQueries is given is the server's, also on the way out of a      *)
(* standby's pipeline, and its choice is the best.                         *)
THEOREM QueriesFit == Spec => []QueriesFitServer
<1>1. Init => Chosen
  BY DEF Init, Chosen
<1>2. IInv /\ Chosen => QueriesFitServer
  <2> SUFFICES ASSUME IInv, Chosen PROVE QueriesFitServer
    OBVIOUS
  <2>1. server.version \in Versions /\ server.version \in Nat
    BY VersionsAssumption DEF IInv, TypeOK, Servers
  <2>2. SchemaValid(Catalogue)
    BY <2>1, CatalogueAssumption DEF Accepts
  <2> QED BY <2>1, <2>2, ChoosesBest DEF Chosen, QueriesFitServer
<1> QED BY <1>1, <1>2, NextKeepsChosen, Invariance, PTL DEF Spec

(* What getQueries has chosen a primary can run: the setup succeeded after *)
(* all of its functions, and nothing is removed from the server.           *)
Runnable ==
  /\ setting_up => needs_setup
  /\ ~needs_setup => Prepared \/ server.standing # "primary"

LEMMA NextKeepsRunnable == IInv /\ Runnable /\ [Next]_vars => Runnable'
<1> SUFFICES ASSUME IInv, Runnable, [Next]_vars PROVE Runnable'
  OBVIOUS
<1>1. /\ setting_up \in BOOLEAN /\ needs_setup \in BOOLEAN /\ TypeOK
  BY DEF IInv, TypeOK
<1>2. ASSUME UNCHANGED server, SetupBackend \/ Ends PROVE Runnable'
  <2>1. Prepared' = Prepared
    BY <1>2 DEF Prepared
  <2>2. CASE SetupBackend
    BY <1>2, <2>1, <2>2 DEF SetupBackend, Runnable
  <2>3. CASE Ends
    BY <1>1, <1>2, <2>1, <2>3, ReadyMeansPrepared DEF Ends, Runnable
  <2> QED BY <1>2, <2>2, <2>3
<1>3. CASE UNCHANGED vars
  BY <1>2, <1>3 DEF vars, monitor, Ends
<1>4. CASE SetupBackend
  BY <1>2, <1>4 DEF SetupBackend
<1>5. ASSUME NEW a \in Attempts,
             \/ Connected(a) \/ ConnectTimeout(a)
             \/ ConnectionLost(a) \/ RunFunction(a)
      PROVE  Runnable'
  BY <1>2, <1>5, ConnectionEnds, RunEnds
<1>6. ASSUME NEW q \in Questions, OnRow(q) \/ Answered(q) PROVE Runnable'
  BY <1>2, <1>6, AnswerEnds
<1>7. CASE Promote \/ \E q \in Questions : Execute(q)
  <2>1. UNCHANGED <<needs_setup, setting_up>>
    BY <1>7 DEF Promote, Execute, monitor
  <2>2. /\ Prepared => Prepared'
        /\ (server.standing # "primary") <=> (server'.standing # "primary")
    BY <1>7, PreparedStays
  <2> QED BY <2>1, <2>2 DEF Runnable
<1> QED BY <1>3, <1>4, <1>5, <1>6, <1>7 DEF Next

(* A backend that is set up against a primary has the role and each        *)
(* function that a query chosen for it calls, from then on for ever:       *)
(* getQueries and the pipeline go by the same version, and statements of   *)
(* earlier attempts, executed late, take nothing away.                     *)
THEOREM QueriesRun == Spec => []QueriesCanRun
<1>1. Init => Runnable
  BY DEF Init, Runnable
<1>2. Runnable /\ QueriesFitServer => QueriesCanRun
  BY DEF Runnable, QueriesFitServer, BestQueries, Prepared, QueriesCanRun
<1> QED
  BY <1>1, <1>2, NextKeepsRunnable, QueriesFit, Invariance, PTL DEF Spec

(* The two files agree for every version there may be: what the queries of *)
(* lib/queries.js call when a server runs them, the pipeline of            *)
(* lib/dbinit.js has created for its version.                              *)
THEOREM CallsAreCreated ==
  ASSUME NEW query \in QUERIES, NEW version \in Nat,
         Reached(query.versionToSql, version) # {}
  PROVE  query.calls \subseteq Created(version)
<1>1. \/ query.calls = {}
      \/ query.calls = {"get_stat_activity"}
      \/ /\ query.calls = {"get_stat_replication"}
         /\ query.versionToSql = {90400, 100000}
      \/ /\ query.calls = {"get_stat_progress_vacuum"}
         /\ query.versionToSql = {90600}
  BY DEF QUERIES, TableQueries, WalQueries, DatabaseQueries, SizeQueries,
         VacuumQueries, PlainQuery
<1> QED BY <1>1 DEF Created, Reached
=============================================================================
