------------------------------- MODULE DbInit --------------------------------
(***************************************************************************)
(* setup_monitoring_user of lib/dbinit.js for one backend, together with   *)
(* its caller setup_backend and with getQueries: a superuser's client is   *)
(* created, a pipeline of functions runs on it, and at the end the client  *)
(* is destroyed and the backend's queries are chosen.                      *)
(*                                                                         *)
(* An attempt that fails is repeated at a later tick.  Statements of the   *)
(* attempts before may still be on their way: a query that timed out has   *)
(* its answer, but the server may execute it when it likes.  The answers   *)
(* of PGClient are those that QueryAnswer promises.                        *)
(***************************************************************************)
EXTENDS QueryCatalogue

CONSTANTS
  MaxAttempts,     (* a bound: how often the setup is tried                 *)
  Versions,        (* the values of server_version_num                      *)
  Catalogue        (* QUERIES                                               *)

ASSUME AttemptsAssumption == MaxAttempts \in Nat
ASSUME VersionsAssumption == Versions \subseteq Nat

(* getQueries accepts the catalogue for every version.                     *)
ASSUME CatalogueAssumption ==
  \A version \in Versions : Accepts(Catalogue, version)

Attempts == 1..MaxAttempts

(* Mutant: the order in which docs/overview.md lists the steps.            *)
DocumentedFuncs ==
  <<"connect_to_database", "stop_if_standby", "get_db_version", "create_user",
    "create_activity_function", "create_replication_function",
    "create_progress_vacuum_function">>

(* The pipeline.                                                           *)
Funcs ==
  <<"connect_to_database", "get_db_version", "stop_if_standby", "create_user",
    "create_activity_function", "create_replication_function",
    "create_progress_vacuum_function">>

Functions ==
  {"get_stat_activity", "get_stat_replication", "get_stat_progress_vacuum"}

(* What the pipeline creates for a version.  The catalogue's queries call  *)
(* nothing else: the two files repeat each other's version numbers.        *)
Created(version) ==
  {"get_stat_activity"}
    \cup (IF version >= 90400 THEN {"get_stat_replication"} ELSE {})
    \cup (IF version >= 90600 THEN {"get_stat_progress_vacuum"} ELSE {})

ASSUME CallsAssumption ==
  \A query \in Catalogue, version \in Versions :
    Reached(query.versionToSql, version) # {} =>
      query.calls \subseteq Created(version)

(* The query of an attempt's step; connect_to_database makes none.         *)
Questions == Attempts \X (2..Len(Funcs))

NoVersion == -1     \* pg_version is null, which is less than every number

VARIABLES
  server,       (* Postgres: [version, standing, role, functions]           *)
  attempt,      (* how many attempts were begun                             *)
  step,         (* per attempt: where its pipeline is; 0 before it begins   *)
  returned,     (* per attempt: its callback's result, or "no"              *)
  timer,        (* per attempt: the connect timer                           *)
  socket,       (* per attempt: the TCP connection of its client            *)
  listening,    (* per attempt: the client has its 'connect' listener       *)
  client,       (* per attempt: args.client is set                          *)
  destroyed,    (* per attempt: client.destroy() was called                 *)
  pg_version,   (* per attempt: args.pg_version                             *)
  in_recovery,  (* per attempt: is_in_recovery of stop_if_standby           *)
  statement,    (* per question: "none", "sent", or what came of it         *)
  answer,       (* per question: the last event PGClient has emitted        *)
  needs_setup, setting_up,    (* pm_pools[pi] of the monitor                *)
  queries,      (* pm_pgs[pi].queries: what getQueries returned             *)
  thrown        (* getQueries has raised an assertion: the process is gone  *)

connection == <<timer, socket, listening, client>>
knowledge == <<pg_version, in_recovery>>
monitor == <<needs_setup, setting_up, queries, thrown>>
vars == <<server, attempt, step, returned, connection, destroyed, knowledge,
          statement, answer, monitor>>

Ask == INSTANCE QueryAnswer WITH Queries <- Questions

-----------------------------------------------------------------------------
(* The end of an attempt: the pipeline's callback and the callback of      *)
(* setup_backend.                                                          *)

ChooseQueries(version) ==
  IF Accepts(Catalogue, version)
  THEN /\ needs_setup' = FALSE
       /\ queries' = getQueries(Catalogue, version)
       /\ UNCHANGED thrown
  ELSE /\ thrown' = TRUE
       /\ UNCHANGED <<needs_setup, queries>>

(* Mutant: the client is only destroyed when all went well.                *)
FinishDestroysOnSuccess(a, ok, version) ==
  /\ destroyed' = [destroyed EXCEPT ![a] = @ \/ (ok /\ client[a])]
  /\ returned' = [returned EXCEPT ![a] = IF ok THEN "ok" ELSE "error"]
  /\ setting_up' = FALSE
  /\ IF ok THEN ChooseQueries(version)
           ELSE needs_setup' = TRUE /\ UNCHANGED <<queries, thrown>>

Finish(a, ok, version) ==
  /\ destroyed' = [destroyed EXCEPT ![a] = @ \/ client[a]]
  /\ returned' = [returned EXCEPT ![a] = IF ok THEN "ok" ELSE "error"]
  /\ setting_up' = FALSE
  /\ IF ok THEN ChooseQueries(version)
           ELSE needs_setup' = TRUE /\ UNCHANGED <<queries, thrown>>

(* Mutant: the pipeline's end is found one function too late.              *)
CallbackPastEnd(a, err) ==
  IF err = "none" /\ step[a] <= Len(Funcs)
  THEN /\ step' = [step EXCEPT ![a] = @ + 1]
       /\ UNCHANGED <<returned, destroyed, monitor>>
  ELSE /\ Finish(a, err # "error", pg_version[a])
       /\ UNCHANGED step

(* The callback of the pipeline's current function.  "recovery", the error *)
(* of stop_if_standby, ends the pipeline but not as a failure.             *)
Callback(a, err) ==
  IF err = "none" /\ step[a] < Len(Funcs)
  THEN /\ step' = [step EXCEPT ![a] = @ + 1]
       /\ UNCHANGED <<returned, destroyed, monitor>>
  ELSE /\ Finish(a, err # "error", pg_version[a])
       /\ UNCHANGED step

-----------------------------------------------------------------------------
(* connect_to_database.                                                    *)

(* Mutant: no timer is started.                                            *)
BeginWithoutTimer(a) ==
  /\ socket' = [socket EXCEPT ![a] = "connecting"]
  /\ listening' = [listening EXCEPT ![a] = TRUE]
  /\ UNCHANGED <<timer, client>>

BeginConnecting(a) ==
  /\ timer' = [timer EXCEPT ![a] = "armed"]
  /\ socket' = [socket EXCEPT ![a] = "connecting"]
  /\ listening' = [listening EXCEPT ![a] = TRUE]
  /\ UNCHANGED client

(* setup_backend is called by discovery and by every tick.                 *)
SetupBackend ==
  /\ ~thrown
  /\ needs_setup
  /\ ~setting_up
  /\ attempt < MaxAttempts
  /\ attempt' = attempt + 1
  /\ setting_up' = TRUE
  /\ step' = [step EXCEPT ![attempt + 1] = 1]
  /\ BeginConnecting(attempt + 1)
  /\ UNCHANGED <<server, returned, destroyed, knowledge, statement, answer,
                 needs_setup, queries, thrown>>

(* Mutant: the timer goes on.                                              *)
OnConnectKeepsTimer(a) ==
  /\ client' = [client EXCEPT ![a] = TRUE]
  /\ UNCHANGED timer

(* The listener of dbinit.                                                 *)
OnConnect(a) ==
  /\ timer' = [timer EXCEPT ![a] = "cleared"]
  /\ client' = [client EXCEPT ![a] = TRUE]

Connected(a) ==
  /\ ~thrown
  /\ socket[a] = "connecting"
  /\ socket' = [socket EXCEPT ![a] = "up"]
  /\ IF listening[a]
     THEN OnConnect(a) /\ Callback(a, "none")
     ELSE UNCHANGED <<timer, client, step, returned, destroyed, monitor>>
  /\ UNCHANGED <<server, attempt, listening, knowledge, statement, answer>>

(* The connect timer.  PGClient has no "connection" (node-postgres' client *)
(* has), so that the stream is not destroyed and goes on connecting.       *)
ConnectTimeout(a) ==
  /\ ~thrown
  /\ timer[a] = "armed"
  /\ timer' = [timer EXCEPT ![a] = "fired"]
  /\ listening' = [listening EXCEPT ![a] = FALSE]
  /\ client' = [client EXCEPT ![a] = FALSE]
  /\ Callback(a, "error")
  /\ UNCHANGED <<server, attempt, socket, knowledge, statement, answer>>

(* The connection is refused or lost, or closed after destroy().           *)
ConnectionLost(a) ==
  /\ socket[a] \in {"connecting", "up"}
  /\ socket' = [socket EXCEPT ![a] = "lost"]
  /\ UNCHANGED <<server, attempt, step, returned, timer, listening, client,
                 destroyed, knowledge, statement, answer, monitor>>

-----------------------------------------------------------------------------
(* The functions that make a query.                                        *)

Question(a) == <<a, step[a]>>
Runs(q, func) == Funcs[q[2]] = func

(* Mutant: the skipping is out of step with the catalogue.                 *)
SkippedBelow10(a) ==
  \/ /\ Funcs[step[a]] = "create_replication_function"
     /\ pg_version[a] < 90400
  \/ /\ Funcs[step[a]] = "create_progress_vacuum_function"
     /\ pg_version[a] < 100000

(* The server's version is too low for what the function creates.          *)
Skipped(a) ==
  \/ /\ Funcs[step[a]] = "create_replication_function"
     /\ pg_version[a] < 90400
  \/ /\ Funcs[step[a]] = "create_progress_vacuum_function"
     /\ pg_version[a] < 90600

(* A function is called.  On a lost connection nothing reaches the server. *)
RunFunction(a) ==
  /\ ~thrown
  /\ client[a]
  /\ returned[a] = "no"
  /\ step[a] > 1
  /\ \/ /\ Skipped(a)
        /\ Callback(a, "none")
        /\ UNCHANGED <<statement, answer>>
     \/ /\ ~Skipped(a)
        /\ Ask!Issue(Question(a))
        /\ statement' = [statement EXCEPT ![Question(a)] =
                           IF socket[a] = "up" THEN "sent" ELSE "none"]
        /\ UNCHANGED <<step, returned, destroyed, monitor>>
  /\ UNCHANGED <<server, attempt, connection, knowledge>>

(* PGClient emits a row, of a query that has one.                          *)
OnRow(q) ==
  /\ ~thrown
  /\ socket[q[1]] = "up"
  /\ answer[q] = "issued"
  /\ Ask!GiveRow(q)
  /\ \/ /\ Runs(q, "get_db_version")
        /\ statement[q] = "done"
        /\ pg_version' = [pg_version EXCEPT ![q[1]] = server.version]
        /\ UNCHANGED in_recovery
     \/ /\ Runs(q, "stop_if_standby")
        /\ statement[q] \in {"done", "standby"}
        /\ in_recovery' = [in_recovery EXCEPT ![q[1]] = statement[q] = "standby"]
        /\ UNCHANGED pg_version
  /\ UNCHANGED <<server, attempt, step, returned, connection, destroyed,
                 statement, monitor>>

ReturnsRows(q) == Runs(q, "get_db_version") \/ Runs(q, "stop_if_standby")

OnEnd(q) ==
  /\ ~thrown
  /\ socket[q[1]] = "up"
  /\ statement[q] \in {"done", "standby"}
  /\ answer[q] = IF ReturnsRows(q) THEN "row" ELSE "issued"
  /\ Ask!Settle(q)
  /\ answer'[q] = "end"
  /\ Callback(q[1], IF Runs(q, "stop_if_standby") /\ in_recovery[q[1]]
                    THEN "recovery" ELSE "none")
  /\ UNCHANGED <<server, attempt, connection, knowledge, statement>>

(* The server reports an error.  create_user takes one of them as success. *)
OnSqlError(q) ==
  /\ ~thrown
  /\ socket[q[1]] = "up"
  /\ statement[q] \in {"failed", "exists"}
  /\ Ask!Settle(q)
  /\ answer'[q] = "error"
  /\ Callback(q[1], IF statement[q] = "exists" THEN "none" ELSE "error")
  /\ UNCHANGED <<server, attempt, connection, knowledge, statement>>

(* query_timeout, which a row has cleared, or the end of the connection.   *)
OnNoAnswer(q) ==
  /\ ~thrown
  /\ answer[q] = "issued" \/ socket[q[1]] = "lost"
  /\ Ask!Settle(q)
  /\ answer'[q] = "error"
  /\ Callback(q[1], "error")
  /\ UNCHANGED <<server, attempt, connection, knowledge, statement>>

-----------------------------------------------------------------------------
(* Postgres.                                                               *)

Creates ==
  [func \in {"create_activity_function", "create_replication_function",
             "create_progress_vacuum_function"} |->
     CASE func = "create_activity_function" -> "get_stat_activity"
       [] func = "create_replication_function" -> "get_stat_replication"
       [] func = "create_progress_vacuum_function" ->
            "get_stat_progress_vacuum"]

(* A statement that was sent is executed, however late.  The two commands  *)
(* of create_progress_vacuum_function are one message, so one transaction. *)
Execute(q) ==
  /\ statement[q] = "sent"
  /\ \/ /\ statement' = [statement EXCEPT ![q] = "failed"]
        /\ UNCHANGED server
     \/ /\ Runs(q, "get_db_version")
        /\ statement' = [statement EXCEPT ![q] = "done"]
        /\ UNCHANGED server
     \/ /\ Runs(q, "stop_if_standby")
        /\ statement' = [statement EXCEPT ![q] =
             IF server.standing = "standby" THEN "standby" ELSE "done"]
        /\ UNCHANGED server
     \/ /\ Runs(q, "create_user")
        /\ statement' = [statement EXCEPT ![q] =
             IF server.role THEN "exists" ELSE "done"]
        /\ server' = [server EXCEPT !.role = TRUE]
     \/ /\ Funcs[q[2]] \in DOMAIN Creates
        /\ statement' = [statement EXCEPT ![q] = "done"]
        /\ server' = [server EXCEPT !.functions = @ \cup {Creates[Funcs[q[2]]]}]
  /\ UNCHANGED <<attempt, step, returned, connection, destroyed, knowledge,
                 answer, monitor>>

Promote ==
  /\ server.standing = "standby"
  /\ server' = [server EXCEPT !.standing = "promoted"]
  /\ UNCHANGED <<attempt, step, returned, connection, destroyed, knowledge,
                 statement, answer, monitor>>

-----------------------------------------------------------------------------
Servers ==
  [version : Versions, standing : {"primary", "standby", "promoted"},
   role : BOOLEAN, functions : SUBSET Functions]

(* pgstatsmon may have been here before, and may have been interrupted.    *)
Init ==
  /\ server \in Servers
  /\ server.standing # "promoted"
  /\ server.functions # {} => server.role
  /\ attempt = 0
  /\ step = [a \in Attempts |-> 0]
  /\ returned = [a \in Attempts |-> "no"]
  /\ timer = [a \in Attempts |-> "none"]
  /\ socket = [a \in Attempts |-> "none"]
  /\ listening = [a \in Attempts |-> FALSE]
  /\ client = [a \in Attempts |-> FALSE]
  /\ destroyed = [a \in Attempts |-> FALSE]
  /\ pg_version = [a \in Attempts |-> NoVersion]
  /\ in_recovery = [a \in Attempts |-> FALSE]
  /\ statement = [q \in Questions |-> "none"]
  /\ Ask!Init
  /\ needs_setup = TRUE
  /\ setting_up = FALSE
  /\ queries = {}
  /\ thrown = FALSE

Answered(q) == OnEnd(q) \/ OnSqlError(q) \/ OnNoAnswer(q)

Next ==
  \/ SetupBackend
  \/ \E a \in Attempts : \/ Connected(a) \/ ConnectTimeout(a)
                         \/ ConnectionLost(a) \/ RunFunction(a)
  \/ \E q \in Questions : OnRow(q) \/ Answered(q) \/ Execute(q)
  \/ Promote

Spec == Init /\ [][Next]_vars

(* An attempt does one thing at a time, and what it waits for happens: its *)
(* timers fire when they are due, and a query that has its row also ends,  *)
(* the assumption about servers that client_hang is about.                 *)
Progress(a) ==
  \/ ConnectTimeout(a)
  \/ RunFunction(a)
  \/ \E q \in Questions : q[1] = a /\ Answered(q)

Fairness == \A a \in Attempts : WF_vars(Progress(a))

FairSpec == Spec /\ Fairness

-----------------------------------------------------------------------------
(* Properties.                                                             *)

(* The variables have their types.                                         *)
TypeOK ==
  /\ server \in Servers
  /\ attempt \in 0..MaxAttempts
  /\ step \in [Attempts -> 0..Len(Funcs)]
  /\ returned \in [Attempts -> {"no", "ok", "error"}]
  /\ timer \in [Attempts -> {"none", "armed", "cleared", "fired"}]
  /\ socket \in [Attempts -> {"none", "connecting", "up", "lost"}]
  /\ listening \in [Attempts -> BOOLEAN]
  /\ client \in [Attempts -> BOOLEAN]
  /\ destroyed \in [Attempts -> BOOLEAN]
  /\ pg_version \in [Attempts -> Versions \cup {NoVersion}]
  /\ in_recovery \in [Attempts -> BOOLEAN]
  /\ statement \in [Questions -> {"none", "sent", "done", "standby", "exists",
                                  "failed"}]
  /\ answer \in [Questions -> {"none", "issued", "row", "end", "error"}]
  /\ needs_setup \in BOOLEAN
  /\ setting_up \in BOOLEAN
  /\ thrown \in BOOLEAN

(* The superuser's client that an attempt has got is destroyed exactly     *)
(* when the attempt is over: on every way out of the pipeline, and never   *)
(* under a function that still uses it.                                    *)
ClientDestroyed ==
  \A a \in Attempts :
    client[a] => (destroyed[a] <=> returned[a] # "no")

(* Whenever the setup succeeds a version is known, also for a standby, and *)
(* getQueries accepts it: the process is not aborted by an assertion.      *)
NeverThrows == ~thrown

(* A backend that is set up runs, of every query, the SQL of the highest   *)
(* version its server reaches, and no query it has no SQL for.             *)
QueriesFitServer ==
  ~needs_setup => queries = BestQueries(Catalogue, server.version)

(* A backend that is set up against a primary can run what was chosen for  *)
(* it, and keeps being able to: the role is there, and so is each function *)
(* that one of its queries calls.                                          *)
QueriesCanRun ==
  ~needs_setup /\ server.standing = "primary" =>
    /\ server.role
    /\ \A choice \in queries : choice.query.calls \subseteq server.functions

(* The whole implements what the monitor relies on, although attempts fail *)
(* half-way, timers race answers and old statements are executed late.     *)
Prepared ==
  /\ server.role
  /\ \A query \in Catalogue :
       Reached(query.versionToSql, server.version) # {} =>
         query.calls \subseteq server.functions

Status ==
  IF setting_up THEN "setting_up"
  ELSE IF needs_setup THEN "needs_setup" ELSE "set_up"

Promise == INSTANCE BackendSetup WITH
  status <- Status,
  prepared <- Prepared,
  standby <- server.standing # "primary"

SetupKeepsPromise == Promise!Spec

(* The lock of a backend is never held for nothing.  While it is held, an  *)
(* attempt has its connect timer running, or its client and the next       *)
(* function to call, or a query whose callback has not been called.        *)
SomethingIsDue ==
  setting_up =>
    \E a \in Attempts :
      /\ returned[a] = "no"
      /\ \/ timer[a] = "armed"
         \/ /\ client[a]
            /\ answer[Question(a)] \in {"none", "issued", "row"}

(* How much an attempt has left to do: calls of functions, and answers.    *)
Left(a) ==
  IF returned[a] # "no" THEN 0
  ELSE 2 * (Len(Funcs) + 1 - step[a]) -
         (IF client[a] /\ answer[Question(a)] # "none" THEN 1 ELSE 0)

(* What an attempt was waiting for brings it closer to its end, and        *)
(* nothing takes it back: no function is called again, none calls back     *)
(* twice, and no late answer or timer reaches an attempt that is over.     *)
EveryStepCounts ==
  [][\A a \in Attempts : /\ Left(a)' <= Left(a)
                         /\ Progress(a) => Left(a)' < Left(a)]_vars

(* Every attempt comes to an end, and gives up the lock.                   *)
AttemptsEnd == setting_up ~> ~setting_up

(* When an attempt is over, its superuser connection does not stay open.   *)
SuperuserDisconnects ==
  \A a \in Attempts :
    returned[a] # "no" /\ socket[a] = "up" => destroyed[a]
=============================================================================
