------------------------------ MODULE PgClient -------------------------------
(***************************************************************************)
(* PGClient of lib/pgclient.js: one Postgres connection and the queries    *)
(* made on it.  Each query has a timer, which races the answers of the     *)
(* server and the loss of the connection; errors are emitted one turn of   *)
(* the event loop late.                                                    *)
(*                                                                         *)
(* node-postgres is the environment: it sends one query at a time, in the  *)
(* order of the calls, and the timers of the waiting ones run already.     *)
(* query_timeout is positive, as in every configuration of the repository. *)
(***************************************************************************)
EXTENDS SequencesExt

CONSTANT Queries      (* the queries of one claim of the connection         *)

ASSUME QueriesAssumption == IsFiniteSet(Queries)

VARIABLES
  connection,       (* "connecting", "up" or "lost"                         *)
  destroyed,        (* this.destroyed                                       *)
  client_had_err,   (* this.client_had_err is set                           *)
  queue,            (* node-postgres: the queries the server may reply to   *)
  timer,            (* per query: "none", "armed", "cleared" or "fired"     *)
  aborted,          (* per query: "aborted" of clientQuery                  *)
  deferred,         (* the queries with a setImmediate(done, 'error') due   *)
  answer            (* the last event the caller of the query has seen      *)

vars == <<connection, destroyed, client_had_err, queue, timer, aborted,
          deferred, answer>>
client == <<connection, destroyed, client_had_err>>

Promise == INSTANCE QueryAnswer

Emit(q, event) == answer' = [answer EXCEPT ![q] = event]
ClearTimeout(q) ==
  timer' = [timer EXCEPT ![q] = IF @ = "armed" THEN "cleared" ELSE @]

Active(q) == connection = "up" /\ queue # <<>> /\ Head(queue) = q

-----------------------------------------------------------------------------
(* The connection.                                                         *)

Connect ==
  /\ connection = "connecting"
  /\ connection' = "up"
  /\ UNCHANGED <<destroyed, client_had_err, queue, timer, aborted, deferred,
                 answer>>

(* The connection ends.  The active query fails, and the queries behind it *)
(* fail with it or never get a reply; _handleClientError marks the client, *)
(* unless the end was asked for.                                           *)
ConnectionEnds ==
  /\ connection # "lost"
  /\ connection' = "lost"
  /\ client_had_err' = (client_had_err \/ ~destroyed)
  /\ \E failed \in SUBSET ToSet(queue) :
       /\ queue # <<>> => Head(queue) \in failed
       /\ deferred' = deferred \cup failed
  /\ queue' = <<>>
  /\ UNCHANGED <<destroyed, timer, aborted, answer>>

Destroy ==
  /\ ~destroyed
  /\ destroyed' = TRUE
  /\ UNCHANGED <<connection, client_had_err, queue, timer, aborted, deferred,
                 answer>>

-----------------------------------------------------------------------------
(* A query.                                                                *)

(* Mutant: no timer is started.                                            *)
QueryWithoutTimer(q) ==
  /\ ~destroyed
  /\ connection # "connecting"
  /\ answer[q] = "none"
  /\ Emit(q, "issued")
  /\ queue' = Append(queue, q)
  /\ UNCHANGED <<client, timer, aborted, deferred>>

(* query(): on a dead connection node-postgres reports the error at once,  *)
(* or lets the query wait for ever.                                        *)
Query(q) ==
  /\ ~destroyed
  /\ connection # "connecting"
  /\ answer[q] = "none"
  /\ Emit(q, "issued")
  /\ timer' = [timer EXCEPT ![q] = "armed"]
  /\ \/ connection = "up" /\ queue' = Append(queue, q) /\ UNCHANGED deferred
     \/ /\ connection = "lost"
        /\ deferred' \in {deferred, deferred \cup {q}}
        /\ UNCHANGED queue
  /\ UNCHANGED <<client, aborted>>

(* Mutants: done() answers after the timeout too; leaves the timer running. *)
DoneAlways(q, event) == Emit(q, event) /\ ClearTimeout(q)
DoneKeepsTimer(q, event) ==
  /\ IF aborted[q] THEN UNCHANGED answer ELSE Emit(q, event)
  /\ UNCHANGED timer

(* done(): nothing once the query has timed out.                           *)
Done(q, event) ==
  IF aborted[q] THEN UNCHANGED <<answer, timer>>
                ELSE Emit(q, event) /\ ClearTimeout(q)

OnRow(q) ==
  /\ Active(q)
  /\ IF aborted[q] THEN UNCHANGED <<answer, timer>>
                   ELSE ClearTimeout(q) /\ Emit(q, "row")
  /\ UNCHANGED <<client, queue, aborted, deferred>>

OnQueryEnd(q) ==
  /\ Active(q)
  /\ queue' = Tail(queue)
  /\ Done(q, "end")
  /\ UNCHANGED <<client, aborted, deferred>>

OnQueryError(q) ==
  /\ Active(q)
  /\ queue' = Tail(queue)
  /\ deferred' = deferred \cup {q}
  /\ UNCHANGED <<client, timer, aborted, answer>>

DeferredError(q) ==
  /\ q \in deferred
  /\ deferred' = deferred \ {q}
  /\ Done(q, "error")
  /\ UNCHANGED <<client, queue, aborted>>

(* Mutant: the caller sees an event of its own for a timeout.              *)
TimeoutEvent(q) ==
  /\ timer[q] = "armed"
  /\ timer' = [timer EXCEPT ![q] = "fired"]
  /\ client_had_err' = TRUE
  /\ aborted' = [aborted EXCEPT ![q] = TRUE]
  /\ Emit(q, "timeout")
  /\ UNCHANGED <<connection, destroyed, queue, deferred>>

OnRowTimeout(q) ==
  /\ timer[q] = "armed"
  /\ timer' = [timer EXCEPT ![q] = "fired"]
  /\ client_had_err' = TRUE
  /\ aborted' = [aborted EXCEPT ![q] = TRUE]
  /\ Emit(q, "error")
  /\ UNCHANGED <<connection, destroyed, queue, deferred>>

-----------------------------------------------------------------------------
Init ==
  /\ connection = "connecting"
  /\ destroyed = FALSE
  /\ client_had_err = FALSE
  /\ queue = <<>>
  /\ timer = [q \in Queries |-> "none"]
  /\ aborted = [q \in Queries |-> FALSE]
  /\ deferred = {}
  /\ answer = [q \in Queries |-> "none"]

Next ==
  \/ Connect \/ ConnectionEnds \/ Destroy
  \/ \E q \in Queries : \/ Query(q) \/ OnRow(q) \/ OnQueryEnd(q)
                        \/ OnQueryError(q) \/ DeferredError(q) \/ OnRowTimeout(q)

Spec == Init /\ [][Next]_vars

(* Timers and immediates run when they are due, and destroy() ends the     *)
(* connection.  Nothing is assumed of the server.                          *)
Fairness ==
  /\ \A q \in Queries : WF_vars(OnRowTimeout(q)) /\ WF_vars(DeferredError(q))
  /\ WF_vars(destroyed /\ ConnectionEnds)

FairSpec == Spec /\ Fairness

(* A server that finishes a result it has begun, or whose connection ends. *)
ServerFinishes ==
  \A q \in Queries :
    WF_vars(/\ answer[q] = "row"
            /\ OnQueryEnd(q) \/ OnQueryError(q) \/ ConnectionEnds)

FinishingSpec == FairSpec /\ ServerFinishes

-----------------------------------------------------------------------------
(* Properties.                                                             *)

(* The variables have their types.                                         *)
TypeOK ==
  /\ connection \in {"connecting", "up", "lost"}
  /\ destroyed \in BOOLEAN
  /\ client_had_err \in BOOLEAN
  /\ queue \in Seq(Queries)
  /\ timer \in [Queries -> {"none", "armed", "cleared", "fired"}]
  /\ aborted \in [Queries -> BOOLEAN]
  /\ deferred \subseteq Queries
  /\ answer \in [Queries -> {"none", "issued", "row", "end", "error"}]

(* When the caller has its answer, either the query was aborted, and all   *)
(* that follows is dropped, or its timer is off and nothing more of it is  *)
(* to come: neither a reply of the server nor a deferred error.            *)
AnsweredIsSettled ==
  \A q \in Queries :
    answer[q] \in {"end", "error"} =>
      \/ aborted[q]
      \/ /\ timer[q] # "armed"
         /\ q \notin deferred
         /\ q \notin ToSet(queue)

(* A caller who waits has not been forgotten: until the first row the      *)
(* timer of the query runs, and from then on the server is still answering *)
(* it, or its error is deferred, also after the connection was lost.       *)
WaitingIsDue ==
  \A q \in Queries :
    /\ answer[q] = "issued" => timer[q] = "armed"
    /\ answer[q] = "row" => Active(q) \/ q \in deferred

(* The caller sees rows and then one answer, whichever of the timer, the   *)
(* server, the deferred error and the loss of the connection comes first.  *)
AnswersOnce == Promise!Spec

(* Every query is answered.                                                *)
EveryQueryAnswered ==
  \A q \in Queries : answer[q] = "issued" ~> answer[q] \in {"end", "error"}
=============================================================================
