-------------------------------- MODULE PgMon --------------------------------
(***************************************************************************)
(* The monitor object of lib/pgstatsmon.js: discovery of backends, setup,  *)
(* the periodic tick that queries every backend, and removal.              *)
(*                                                                         *)
(* The program is one event loop.  An action is one callback, run to       *)
(* completion; what interleaves is the order of the callbacks.  Every      *)
(* callback keeps the array INDEX "pi" of its backend, while the arrays    *)
(* pm_pgs, pm_pools, pm_state and pm_data are spliced when a backend goes  *)
(* away.  A callback that would raise a TypeError, or call a method of a   *)
(* claim handle it no longer owns, aborts the process: "thrown" records    *)
(* where, and nothing happens afterwards.                                  *)
(*                                                                         *)
(* Arrays are 1-based sequences here; index i stands for pi = i - 1.       *)
(***************************************************************************)
EXTENDS Integers, FiniteSets, SequencesExt

CONSTANTS
  Backends,      (* keys the resolver can announce                          *)
  Queries,       (* the queries getQueries returns for a backend            *)
  Ticks,         (* ids of the ticks that may overlap; reused.  A bound     *)
  MaxInFlight,   (* max_backends_in_flight, ten in the code                 *)
  None,          (* null                                                    *)
  Closed         (* a claim handle that was released or closed              *)

ASSUME BackendsAssumption ==
  /\ IsFiniteSet(Backends)
  /\ None \notin Backends
  /\ Closed \notin Backends
  /\ None # Closed
ASSUME QueriesAssumption == Queries # {}
ASSUME InFlightAssumption == MaxInFlight \in Nat \ {0}

NumBackoffs == 2    \* num_backoffs of wait_and_remove
LastAdded == 0      \* a deferred setup_backend that reads "ind" when it runs
Hole == <<>>        \* a sparse array's element before it is assigned

VARIABLES
  pm_pgs,       (* [key, handle, queries] per slot; "queries" is None or    *)
                (* the backend whose version selected the list              *)
  pm_pools,     (* [key, needs_setup, setting_up] per slot                  *)
  pm_state,     (* per slot: which queries have a timestamp; or a Hole      *)
  pm_data,      (* per slot: whose rows are the last data points; or a Hole *)
  ind,          (* "ind" of connect(), shared by all 'added' handlers       *)
  immediates,   (* deferred setup_backend calls, in order: an index each    *)
  setups,       (* setup_monitoring_user calls under way: [pi, backend]     *)
  ticks,        (* "idle", "first" (has start()'s callback) or "open"       *)
  workers,      (* the entries of the ticks' work queues                    *)
  removals,     (* wait_and_remove calls that back off: [key, pi, backoffs] *)
  discovered,   (* what the resolver announced of each backend              *)
  pools,        (* the cueball pool of each backend                         *)
  interval,     (* pm_interval_object: "null", "armed" or "cleared"         *)
  phase,        (* "starting", "running" or "stopped"                       *)
  thrown        (* the uncaught exception that ended the process, or "no"   *)

slots == <<pm_pgs, pm_pools, pm_state, pm_data>>
vars == <<pm_pgs, pm_pools, pm_state, pm_data, ind, immediates, setups,
          ticks, workers, removals, discovered, pools, interval, phase, thrown>>

-----------------------------------------------------------------------------
(* Types.                                                                  *)

Index == Nat \ {0}
PoolState == {"none", "empty", "idle", "claimed", "stopping", "stopped"}
ThrowSite == {"setup_backend", "setup callback", "is_running",
              "enqueue_queries", "claim callback", "query error", "query end",
              "barrier_drain"}
ErrorKind == {"timeout", "query", "connect"}

Pg == [key : Backends,
       handle : Backends \cup {None, Closed},
       queries : Backends \cup {None}]
Pool == [key : Backends, needs_setup : BOOLEAN, setting_up : BOOLEAN]
QueryStates == [Queries -> BOOLEAN]
DataPoints == [Queries -> Backends \cup {None}]

(* One entry of a tick's queue: the closure of enqueue_queries.  "pool" is *)
(* the pool it claims from, "errors" the errors its barrier has collected, *)
(* "gone" that the client it claimed has been destroyed under it.          *)
Worker == [tick : Ticks, pi : Index, stage : {"queued", "claiming", "querying"},
           pool : Backends \cup {None}, running : SUBSET Queries,
           errors : Seq(ErrorKind), gone : BOOLEAN]

QueuedWorker(t, i) ==
  [tick |-> t, pi |-> i, stage |-> "queued", pool |-> None,
   running |-> {}, errors |-> <<>>, gone |-> FALSE]

(* The slot exists: an index out of range reads undefined in the code.     *)
InRange(i) == i \in 1..Len(pm_pgs)
HasQueries(i) == InRange(i) /\ pm_pgs[i].queries # None

(* An uncaught exception aborts the process: smf/ runs node with           *)
(* --abort-on-uncaught-exception, and no handler is installed.             *)
Alive == thrown = "no"

Throw(site) ==
  /\ thrown' = site
  /\ UNCHANGED <<slots, ind, immediates, setups, ticks, workers, removals,
                 discovered, pools, interval, phase>>

UpdateWorker(w, v) == workers' = (workers \ {w}) \cup {v}

(* verror's errorFromList wraps several errors in a MultiError whose cause *)
(* is the first of them, and hasCauseWithName follows causes only.         *)
HasCauseWithName(errors, kind) == errors # <<>> /\ Head(errors) = kind

-----------------------------------------------------------------------------
(* The claim handles and pools of cueball, as the code uses them.          *)

StopPool(p) ==
  IF p \in {"claimed", "stopping"} THEN "stopping" ELSE "stopped"

AfterClaim(p, connection) == IF p = "stopping" THEN "stopped" ELSE connection

(* Slots after the handle of backend h is given up.                        *)
Expire(pgs, h) ==
  [i \in 1..Len(pgs) |->
     IF pgs[i].handle = h THEN [pgs[i] EXCEPT !.handle = Closed] ELSE pgs[i]]

(* The clients of h's claimed connection are destroyed with it.            *)
Disconnect(ws, h) ==
  {IF v.pool = h /\ v.stage = "querying" THEN [v EXCEPT !.gone = TRUE] ELSE v :
     v \in ws}

(* cueball opens the pool's one connection.  It does not learn when an idle *)
(* one dies: PGClient keeps the error, and the next queries run into it.    *)
Connected(b) ==
  /\ Alive
  /\ phase # "starting"
  /\ pools[b] = "empty"
  /\ pools' = [pools EXCEPT ![b] = "idle"]
  /\ UNCHANGED <<slots, ind, immediates, setups, ticks, workers, removals,
                 discovered, interval, phase, thrown>>

(* A stopping pool destroys the client that is still claimed.              *)
DestroyClient(b) ==
  /\ Alive
  /\ pools[b] = "stopping"
  /\ \E v \in workers : v.pool = b /\ v.stage = "querying" /\ ~v.gone
  /\ workers' = Disconnect(workers, b)
  /\ UNCHANGED <<slots, ind, immediates, setups, ticks, removals, discovered,
                 pools, interval, phase, thrown>>

-----------------------------------------------------------------------------
(* Discovery and setup.                                                    *)

(* The slot add_connection_data appends, and the pool entry beside it.     *)
NewPg(b) == [key |-> b, handle |-> None, queries |-> None]
NewPool(b) == [key |-> b, needs_setup |-> TRUE, setting_up |-> FALSE]

(* A bound: a backend is announced again only when nothing is left of its  *)
(* life before.  Its removal takes seconds, the resolver polls in minutes. *)
Forgotten(b) ==
  /\ discovered[b] # "present"
  /\ pools[b] \in {"none", "stopped"}
  /\ \A i \in DOMAIN pm_pgs : pm_pgs[i].key # b
  /\ \A w \in workers : w.pool # b
  /\ \A s \in setups : s.backend # b
  /\ \A r \in removals : r.key # b

Added(b) ==
  /\ Alive
  /\ phase # "stopped"
  /\ Forgotten(b)
  /\ discovered' = [discovered EXCEPT ![b] = "present"]
  /\ pools' = [pools EXCEPT ![b] = "empty"]
  /\ pm_pools' = Append(pm_pools, NewPool(b))
  /\ ind' = Len(pm_pools) + 1
  /\ pm_pgs' = Append(pm_pgs, NewPg(b))
  /\ pm_state' = Append(pm_state, Hole)
  /\ pm_data' = Append(pm_data, Hole)
  /\ immediates' = Append(immediates, LastAdded)
  /\ UNCHANGED <<setups, ticks, workers, removals, interval, phase, thrown>>

(* Mutant: a backend that is set up is set up again.                       *)
SetupAgain ==
  /\ Alive
  /\ phase # "starting"
  /\ immediates # <<>>
  /\ LET pi == IF Head(immediates) = LastAdded THEN ind ELSE Head(immediates)
     IN  /\ InRange(pi)
         /\ immediates' = Tail(immediates)
         /\ IF ~pm_pools[pi].setting_up
            THEN /\ pm_pools' = [pm_pools EXCEPT ![pi].setting_up = TRUE]
                 /\ setups' = setups \cup
                      {[pi |-> pi, backend |-> pm_pools[pi].key]}
            ELSE UNCHANGED <<pm_pools, setups>>
  /\ UNCHANGED <<pm_pgs, pm_state, pm_data, ind, ticks, workers, removals,
                 discovered, pools, interval, phase, thrown>>

(* The oldest deferred setup_backend call runs.                            *)
SetupBackend ==
  /\ Alive
  /\ phase # "starting"
  /\ immediates # <<>>
  /\ LET pi == IF Head(immediates) = LastAdded THEN ind ELSE Head(immediates)
     IN  \/ /\ ~InRange(pi)
            /\ Throw("setup_backend")
         \/ /\ InRange(pi)
            /\ immediates' = Tail(immediates)
            /\ IF pm_pools[pi].needs_setup /\ ~pm_pools[pi].setting_up
               THEN /\ pm_pools' = [pm_pools EXCEPT ![pi].setting_up = TRUE]
                    /\ setups' = setups \cup
                         {[pi |-> pi, backend |-> pm_pools[pi].key]}
               ELSE UNCHANGED <<pm_pools, setups>>
            /\ UNCHANGED <<pm_pgs, pm_state, pm_data, ind, ticks, workers,
                           removals, discovered, pools, interval, phase, thrown>>

(* Mutant: add_query_data does not allocate the data points.               *)
AddQueryDataNoPoints(s) ==
  /\ pm_pgs' = [pm_pgs EXCEPT ![s.pi].queries = s.backend]
  /\ pm_state' = [pm_state EXCEPT ![s.pi] = [q \in Queries |-> FALSE]]
  /\ UNCHANGED pm_data

(* add_query_data: the slot gets s's query list and forgets what it knew.  *)
AddQueryData(s) ==
  /\ pm_pgs' = [pm_pgs EXCEPT ![s.pi].queries = s.backend]
  /\ pm_state' = [pm_state EXCEPT ![s.pi] = [q \in Queries |-> FALSE]]
  /\ pm_data' = [pm_data EXCEPT ![s.pi] = [q \in Queries |-> None]]

(* Mutant: the lock is only given up when the setup succeeded.             *)
SetupKeepsLock(s, ok) ==
  /\ Alive
  /\ \A w \in workers : ticks[w.tick] # "first"
  /\ InRange(s.pi)
  /\ setups' = setups \ {s}
  /\ pm_pools' = IF ok THEN [pm_pools EXCEPT ![s.pi].setting_up = FALSE,
                                             ![s.pi].needs_setup = FALSE]
                       ELSE pm_pools
  /\ IF ok THEN AddQueryData(s) ELSE UNCHANGED <<pm_pgs, pm_state, pm_data>>
  /\ UNCHANGED <<ind, immediates, ticks, workers, removals, discovered,
                 pools, interval, phase, thrown>>

(* setup_monitoring_user of s calls back, with an error or with a version. *)
(* It has asked a server meanwhile, while the entries of the first tick    *)
(* call back in the turns right after start(): they find no slot set up.   *)
SetupReturns(s, ok) ==
  /\ Alive
  /\ \A w \in workers : ticks[w.tick] # "first"
  /\ \/ /\ ~InRange(s.pi)
        /\ Throw("setup callback")
     \/ /\ InRange(s.pi)
        /\ setups' = setups \ {s}
        /\ pm_pools' = [pm_pools EXCEPT ![s.pi].setting_up = FALSE,
                                        ![s.pi].needs_setup = ~ok]
        /\ IF ok THEN AddQueryData(s) ELSE UNCHANGED <<pm_pgs, pm_state, pm_data>>
        /\ UNCHANGED <<ind, immediates, ticks, workers, removals, discovered,
                       pools, interval, phase, thrown>>

-----------------------------------------------------------------------------
(* Removal.                                                                *)

(* Mutants: the last slot goes instead of this one; one array is forgotten. *)
RemoveLastSlot(pi) ==
  /\ pm_pgs' = Front(pm_pgs)
  /\ pm_pools' = Front(pm_pools)
  /\ pm_state' = Front(pm_state)
  /\ pm_data' = Front(pm_data)
ForgetToSpliceData(pi) ==
  /\ pm_pgs' = RemoveAt(pm_pgs, pi)
  /\ pm_pools' = RemoveAt(pm_pools, pi)
  /\ pm_state' = RemoveAt(pm_state, pi)
  /\ UNCHANGED pm_data
ForgetToSplicePools(pi) ==
  /\ pm_pgs' = RemoveAt(pm_pgs, pi)
  /\ UNCHANGED pm_pools
  /\ pm_state' = RemoveAt(pm_state, pi)
  /\ pm_data' = RemoveAt(pm_data, pi)

RemoveConnectionData(pi) ==
  /\ pm_pgs' = RemoveAt(pm_pgs, pi)
  /\ pm_pools' = RemoveAt(pm_pools, pi)
  /\ pm_state' = RemoveAt(pm_state, pi)
  /\ pm_data' = RemoveAt(pm_data, pi)

IsRunning(pi) == \E q \in Queries : pm_state[pi][q]

(* The resolver's 'removed' handler: the pool is stopped, and the first    *)
(* is_running call of wait_and_remove happens in the same callback.        *)
Removed(b) ==
  /\ Alive
  /\ phase = "running"
  /\ discovered[b] = "present"
  /\ \/ /\ \A i \in DOMAIN pm_pools : pm_pools[i].key # b
        /\ discovered' = [discovered EXCEPT ![b] = "removed"]
        /\ UNCHANGED <<slots, ind, immediates, setups, ticks, workers,
                       removals, pools, interval, phase, thrown>>
     \/ \E pi \in DOMAIN pm_pools :
          /\ pm_pools[pi].key = b
          /\ \/ /\ pm_state[pi] = Hole
                /\ Throw("is_running")
             \/ /\ pm_state[pi] # Hole
                /\ discovered' = [discovered EXCEPT ![b] = "removed"]
                /\ pools' = [pools EXCEPT ![b] = StopPool(@)]
                /\ IF IsRunning(pi)
                   THEN /\ removals' = removals \cup
                             {[key |-> b, pi |-> pi, backoffs |-> 1]}
                        /\ UNCHANGED slots
                   ELSE /\ RemoveConnectionData(pi)
                        /\ UNCHANGED removals
                /\ UNCHANGED <<ind, immediates, setups, ticks, workers,
                               interval, phase, thrown>>

(* Mutant: it gives up one backoff too late.                               *)
RetryOnceMore(r) ==
  /\ Alive
  /\ HasQueries(r.pi)
  /\ IF IsRunning(r.pi) /\ r.backoffs <= NumBackoffs
     THEN /\ removals' = (removals \ {r}) \cup {[r EXCEPT !.backoffs = @ + 1]}
          /\ UNCHANGED slots
     ELSE /\ removals' = removals \ {r}
          /\ RemoveConnectionData(r.pi)
  /\ UNCHANGED <<ind, immediates, setups, ticks, workers, discovered, pools,
                 interval, phase, thrown>>

(* A backoff of wait_and_remove expires.  After NumBackoffs of them the    *)
(* data goes whether queries are still running or not.                     *)
RetryRemoval(r) ==
  /\ Alive
  /\ \/ /\ ~HasQueries(r.pi)
        /\ Throw("is_running")
     \/ /\ HasQueries(r.pi)
        /\ IF IsRunning(r.pi) /\ r.backoffs < NumBackoffs
           THEN /\ removals' = (removals \ {r}) \cup
                                 {[r EXCEPT !.backoffs = @ + 1]}
                /\ UNCHANGED slots
           ELSE /\ removals' = removals \ {r}
                /\ RemoveConnectionData(r.pi)
        /\ UNCHANGED <<ind, immediates, setups, ticks, workers, discovered,
                       pools, interval, phase, thrown>>

-----------------------------------------------------------------------------
(* The tick.                                                               *)

BeginTick(t, kind) ==
  /\ ticks[t] = "idle"
  /\ ticks' = [ticks EXCEPT ![t] = kind]
  /\ workers' = workers \cup {QueuedWorker(t, i) : i \in DOMAIN pm_pgs}

(* start() calls tick() in the turn of connect(), in which the static      *)
(* resolver may have announced backends and nothing else has run.          *)
FirstTick(t) ==
  /\ Alive
  /\ phase = "starting"
  /\ phase' = "running"
  /\ BeginTick(t, "first")
  /\ UNCHANGED <<slots, ind, immediates, setups, removals, discovered, pools,
                 interval, thrown>>

(* The interval fires.  Immediates run first: beginning a tick commutes    *)
(* with them, the tick's own callbacks being queued behind them.           *)
IntervalFires(t) ==
  /\ Alive
  /\ interval = "armed"
  /\ immediates = <<>>
  /\ BeginTick(t, "open")
  /\ UNCHANGED <<slots, ind, immediates, setups, removals, discovered, pools,
                 interval, phase, thrown>>

(* Mutant: a backend that is not set up is queried.                        *)
StartUnlessMissing(w) ==
  /\ Alive
  /\ w.stage = "queued"
  /\ InRange(w.pi)
  /\ UpdateWorker(w, [w EXCEPT !.stage = "claiming",
                               !.pool = pm_pools[w.pi].key])
  /\ UNCHANGED <<slots, ind, immediates, setups, ticks, removals, discovered,
                 pools, interval, phase, thrown>>

(* The queue's next entry starts, at most MaxInFlight of a tick at once.   *)
StartWorker(w) ==
  /\ Alive
  /\ w.stage = "queued"
  /\ \A v \in workers :
       v.tick = w.tick /\ v.stage = "queued" => w.pi <= v.pi
  /\ Cardinality({v \in workers : v.tick = w.tick /\ v.stage # "queued"})
       < MaxInFlight
  /\ \/ /\ ~InRange(w.pi)
        /\ Throw("enqueue_queries")
     \/ /\ InRange(w.pi)
        /\ IF pm_pools[w.pi].needs_setup
           THEN /\ immediates' = Append(immediates, w.pi)
                /\ workers' = workers \ {w}
           ELSE /\ UpdateWorker(w, [w EXCEPT !.stage = "claiming",
                                             !.pool = pm_pools[w.pi].key])
                /\ UNCHANGED immediates
        /\ UNCHANGED <<slots, ind, setups, ticks, removals, discovered, pools,
                       interval, phase, thrown>>

(* Mutant: a backend whose claim failed goes back to the queue.            *)
ClaimFailsAndRetries(w) ==
  /\ Alive
  /\ w.stage = "claiming"
  /\ UpdateWorker(w, [w EXCEPT !.stage = "queued"])
  /\ UNCHANGED <<slots, ind, immediates, setups, ticks, removals, discovered,
                 pools, interval, phase, thrown>>

(* The claim times out, or the pool has failed or is stopping.             *)
ClaimFails(w) ==
  /\ Alive
  /\ w.stage = "claiming"
  /\ UpdateWorker(w, [w EXCEPT !.stage = "querying", !.errors = <<"connect">>])
  /\ UNCHANGED <<slots, ind, immediates, setups, ticks, removals, discovered,
                 pools, interval, phase, thrown>>

(* The claim's callback: remember the handle, and kick off every query     *)
(* that has no timestamp in pm_state.                                      *)
ClaimGranted(w) ==
  /\ Alive
  /\ w.stage = "claiming"
  /\ pools[w.pool] = "idle"
  /\ \/ /\ ~HasQueries(w.pi)
        /\ Throw("claim callback")
     \/ /\ HasQueries(w.pi)
        /\ pools' = [pools EXCEPT ![w.pool] = "claimed"]
        /\ pm_pgs' = [pm_pgs EXCEPT ![w.pi].handle = w.pool]
        /\ UpdateWorker(w, [w EXCEPT !.stage = "querying",
                                     !.running = {q \in Queries : ~pm_state[w.pi][q]}])
        /\ pm_state' = [pm_state EXCEPT ![w.pi] = [q \in Queries |-> TRUE]]
        /\ UNCHANGED <<pm_pools, pm_data, ind, immediates, setups, ticks,
                       removals, discovered, interval, phase, thrown>>

(* Mutant: the error leaves the timestamp behind.                          *)
ErrorKeepsTimestamp(w, q, kind) ==
  /\ Alive
  /\ q \in w.running
  /\ UpdateWorker(w, [w EXCEPT !.running = @ \ {q}, !.errors = Append(@, kind)])
  /\ UNCHANGED <<slots, ind, immediates, setups, ticks, removals, discovered,
                 pools, interval, phase, thrown>>

(* tickPgQuery's 'error' listener.                                         *)
QueryError(w, q, kind) ==
  /\ Alive
  /\ q \in w.running
  /\ \/ /\ ~HasQueries(w.pi)
        /\ Throw("query error")
     \/ /\ HasQueries(w.pi)
        /\ pm_state' = [pm_state EXCEPT ![w.pi][q] = FALSE]
        /\ UpdateWorker(w, [w EXCEPT !.running = @ \ {q},
                                     !.errors = Append(@, kind)])
        /\ UNCHANGED <<pm_pgs, pm_pools, pm_data, ind, immediates, setups,
                       ticks, removals, discovered, pools, interval, phase,
                       thrown>>

(* tickPgQuery's 'end' listener, record() included.  A destroyed client    *)
(* leaves at once, with the timestamp still in pm_state.                   *)
QueryEnd(w, q, rows) ==
  /\ Alive
  /\ q \in w.running
  /\ \/ /\ ~w.gone
        /\ ~HasQueries(w.pi)
        /\ Throw("query end")
     \/ /\ w.gone \/ HasQueries(w.pi)
        /\ UpdateWorker(w, [w EXCEPT !.running = @ \ {q}])
        /\ IF w.gone
           THEN UNCHANGED <<pm_state, pm_data>>
           ELSE /\ pm_state' = [pm_state EXCEPT ![w.pi][q] = FALSE]
                /\ pm_data' = IF rows
                              THEN [pm_data EXCEPT ![w.pi][q] = w.pool]
                              ELSE pm_data
        /\ UNCHANGED <<pm_pgs, pm_pools, ind, immediates, setups, ticks,
                       removals, discovered, pools, interval, phase, thrown>>

(* Mutant: after a timeout the connection is kept.                         *)
DrainKeepsConnection(w) ==
  /\ workers' = workers \ {w}
  /\ UNCHANGED <<pm_pgs, pools>>

(* barrier_drain: all queries of w have called back.                       *)
DrainTimeout(w) ==
  \E h \in Backends :
    /\ pm_pgs[w.pi].handle = h
    /\ pm_pgs' = Expire(pm_pgs, h)
    /\ pools' = [pools EXCEPT ![h] = AfterClaim(@, "empty")]
    /\ workers' = Disconnect(workers \ {w}, h)

(* Mutant: without a connection the queue's callback is forgotten.         *)
DrainForgetsCallback(w) == UNCHANGED <<pm_pgs, pools, workers>>

DrainNoConnection(w) ==
  /\ workers' = workers \ {w}
  /\ UNCHANGED <<pm_pgs, pools>>

(* Mutant: the released handle stays in its slot.                          *)
DrainDoneKeepsHandle(w) ==
  \E h \in Backends :
    /\ pm_pgs[w.pi].handle = h
    /\ pools' = [pools EXCEPT ![h] = AfterClaim(@, "idle")]
    /\ workers' = workers \ {w}
    /\ UNCHANGED pm_pgs

DrainDone(w) ==
  \E h \in Backends :
    /\ pm_pgs[w.pi].handle = h
    /\ pm_pgs' = [Expire(pm_pgs, h) EXCEPT ![w.pi].handle = None]
    /\ pools' = [pools EXCEPT ![h] = AfterClaim(@, "idle")]
    /\ workers' = workers \ {w}

OwnsHandle(w) == InRange(w.pi) /\ pm_pgs[w.pi].handle \in Backends

Drain(w) ==
  /\ Alive
  /\ w.stage = "querying"
  /\ w.running = {}
  /\ LET timeout == HasCauseWithName(w.errors, "timeout")
         connect == ~timeout /\ HasCauseWithName(w.errors, "connect")
     IN  \/ /\ ~connect /\ ~OwnsHandle(w)
            /\ Throw("barrier_drain")
         \/ /\ \/ timeout /\ OwnsHandle(w) /\ DrainTimeout(w)
               \/ connect /\ DrainNoConnection(w)
               \/ ~timeout /\ ~connect /\ OwnsHandle(w) /\ DrainDone(w)
            /\ UNCHANGED <<pm_pools, pm_state, pm_data, ind, immediates,
                           setups, ticks, removals, discovered, interval,
                           phase, thrown>>

(* Mutant: the end of the first tick does not arm the interval.            *)
EndWithoutInterval(t) ==
  /\ Alive
  /\ ticks[t] # "idle"
  /\ \A w \in workers : w.tick # t
  /\ ticks' = [ticks EXCEPT ![t] = "idle"]
  /\ UNCHANGED <<slots, ind, immediates, setups, workers, removals,
                 discovered, pools, interval, phase, thrown>>

(* The queue's 'end'; that of the first tick runs start()'s callback.      *)
QueueEnd(t) ==
  /\ Alive
  /\ ticks[t] # "idle"
  /\ \A w \in workers : w.tick # t
  /\ ticks' = [ticks EXCEPT ![t] = "idle"]
  /\ interval' = IF ticks[t] = "first" THEN "armed" ELSE interval
  /\ UNCHANGED <<slots, ind, immediates, setups, workers, removals,
                 discovered, pools, phase, thrown>>

-----------------------------------------------------------------------------
(* stop(): forEach over pm_pools, whose body splices the element it is at. *)
(* The iteration so visits, stops and removes the 1st, 3rd, 5th ... slot.  *)

Odd(i) == i % 2 = 1
KeepEven(s) == [i \in 1..(Len(s) \div 2) |-> s[2 * i]]

Stop ==
  /\ Alive
  /\ phase = "running"
  /\ phase' = "stopped"
  /\ interval' = IF interval = "armed" THEN "cleared" ELSE interval
  /\ pools' = [b \in Backends |->
                 IF \E i \in DOMAIN pm_pools : Odd(i) /\ pm_pools[i].key = b
                 THEN StopPool(pools[b]) ELSE pools[b]]
  /\ pm_pgs' = KeepEven(pm_pgs)
  /\ pm_pools' = KeepEven(pm_pools)
  /\ pm_state' = KeepEven(pm_state)
  /\ pm_data' = KeepEven(pm_data)
  /\ UNCHANGED <<ind, immediates, setups, ticks, workers, removals,
                 discovered, thrown>>

-----------------------------------------------------------------------------
Init ==
  /\ pm_pgs = <<>> /\ pm_pools = <<>> /\ pm_state = <<>> /\ pm_data = <<>>
  /\ ind = 0
  /\ immediates = <<>>
  /\ setups = {}
  /\ ticks = [t \in Ticks |-> "idle"]
  /\ workers = {}
  /\ removals = {}
  /\ discovered = [b \in Backends |-> "unseen"]
  /\ pools = [b \in Backends |-> "none"]
  /\ interval = "null"
  /\ phase = "starting"
  /\ thrown = "no"

WorkerStep(w) ==
  \/ StartWorker(w)
  \/ ClaimFails(w)
  \/ ClaimGranted(w)
  \/ \E q \in Queries : \/ \E kind \in {"timeout", "query"} : QueryError(w, q, kind)
                        \/ \E rows \in BOOLEAN : QueryEnd(w, q, rows)
  \/ Drain(w)

(* What the monitor does of its own accord.                                *)
MonitorStep ==
  \/ SetupBackend
  \/ \E s \in setups, ok \in BOOLEAN : SetupReturns(s, ok)
  \/ \E t \in Ticks : FirstTick(t) \/ IntervalFires(t) \/ QueueEnd(t)
  \/ \E w \in workers : WorkerStep(w)
  \/ \E b \in Backends : Added(b) \/ Connected(b)

(* The moments at which b can leave without disturbing an index: no        *)
(* callback that holds one is outstanding, and b has been set up.          *)
Quiet(b) ==
  /\ workers = {} /\ setups = {} /\ immediates = <<>> /\ removals = {}
  /\ \A i \in DOMAIN pm_pools : pm_pools[i].key = b => ~pm_pools[i].needs_setup

QuietNext ==
  \/ MonitorStep
  \/ \E b \in Backends : Quiet(b) /\ Removed(b)

DiscoveryNext ==
  \/ MonitorStep
  \/ \E b \in Backends : Removed(b) \/ DestroyClient(b)
  \/ \E r \in removals : RetryRemoval(r)

Next == DiscoveryNext \/ Stop

QuietSpec == Init /\ [][QuietNext]_vars
DiscoverySpec == Init /\ [][DiscoveryNext]_vars
Spec == Init /\ [][Next]_vars

(***************************************************************************)
(* Fairness.  Callbacks that are due run; a claim calls back by its        *)
(* timeout and a query by query_timeout (PgClient), so a worker always     *)
(* gets on.  The interval fires however often other backends come and go,  *)
(* although their immediates hold it back within a turn.  A backend that   *)
(* stays reachable is eventually set up and claimed, whatever failed       *)
(* before: strong fairness, as all three are tried again.                  *)
(***************************************************************************)
Fairness ==
  /\ WF_vars(SetupBackend)
  /\ WF_vars(\E t \in Ticks : FirstTick(t))
  /\ SF_vars(\E t \in Ticks : IntervalFires(t))
  /\ \A t \in Ticks : WF_vars(QueueEnd(t))
  /\ \A t \in Ticks, i \in 1..Cardinality(Backends) :
       WF_vars(\E w \in workers : w.tick = t /\ w.pi = i /\ WorkerStep(w))
  /\ \A b \in Backends :
       /\ WF_vars(\E s \in setups, ok \in BOOLEAN :
                    s.backend = b /\ SetupReturns(s, ok))
       /\ SF_vars(\E s \in setups : s.backend = b /\ SetupReturns(s, TRUE))
       /\ WF_vars(Connected(b))
       /\ SF_vars(\E w \in workers : w.pool = b /\ ClaimGranted(w))

FairQuietSpec == QuietSpec /\ Fairness

-----------------------------------------------------------------------------
(* Properties.                                                             *)

(* The variables have their types.                                         *)
SlotsTypeOK ==
  /\ pm_pgs \in Seq(Pg)
  /\ pm_pools \in Seq(Pool)
  /\ pm_state \in Seq(QueryStates \cup {Hole})
  /\ pm_data \in Seq(DataPoints \cup {Hole})

TypeOK ==
  /\ SlotsTypeOK
  /\ ind \in Nat
  /\ immediates \in Seq(Index \cup {LastAdded})
  /\ setups \subseteq [pi : Index, backend : Backends]
  /\ ticks \in [Ticks -> {"idle", "first", "open"}]
  /\ workers \subseteq Worker
  /\ removals \subseteq [key : Backends, pi : Index, backoffs : 1..NumBackoffs]
  /\ discovered \in [Backends -> {"unseen", "present", "removed"}]
  /\ pools \in [Backends -> PoolState]
  /\ interval \in {"null", "armed", "cleared"}
  /\ phase \in {"starting", "running", "stopped"}
  /\ thrown \in ThrowSite \cup {"no"}

(* The four arrays that are pushed to and spliced separately describe the  *)
(* same backends in the same order, however removals, setups and stop()    *)
(* interleave.                                                             *)
SlotsAligned ==
  /\ Len(pm_pools) = Len(pm_pgs)
  /\ Len(pm_state) = Len(pm_pgs)
  /\ Len(pm_data) = Len(pm_pgs)
  /\ \A i \in DOMAIN pm_pgs : pm_pools[i].key = pm_pgs[i].key

(* A slot whose needs_setup is off has its query list, state and data, and *)
(* these come together: tick() relies on it when it indexes them.          *)
SetupComplete ==
  \A i \in DOMAIN pm_pgs :
    /\ pm_pgs[i].queries # None <=> pm_state[i] # Hole
    /\ pm_pgs[i].queries # None <=> pm_data[i] # Hole
    /\ ~pm_pools[i].needs_setup => pm_pgs[i].queries # None

(* No callback indexes a slot that is gone or not set up, and none uses a  *)
(* claim handle it does not own: the process is never aborted.             *)
NeverThrows == thrown = "no"

(* Every backend the resolver has announced and not withdrawn has exactly  *)
(* one slot, and a withdrawn one has none.                                 *)
TrackedIsDiscovered ==
  /\ {pm_pgs[i].key : i \in DOMAIN pm_pgs} =
       {b \in Backends : discovered[b] = "present"}
  /\ \A i, j \in DOMAIN pm_pgs : pm_pgs[i].key = pm_pgs[j].key => i = j

(* The rows kept for a slot, against which record() takes differences,     *)
(* come from the backend the slot is named after: record() emits no metric *)
(* under another backend's name.                                           *)
RowsBelongToBackend ==
  \A i \in DOMAIN pm_pgs :
    pm_data[i] # Hole =>
      \A q \in Queries : pm_data[i][q] \in {None, pm_pgs[i].key}

(* So do the rows and the query list of a slot, through all that moves and *)
(* refills slots.                                                          *)
SamplesBelongToBackend ==
  /\ \A i \in DOMAIN pm_pgs : pm_pgs[i].queries \in {None, pm_pgs[i].key}
  /\ RowsBelongToBackend

(* The monitor implements what BackendMetrics promises of each backend,    *)
(* although its data move between the slots of shared arrays: it is set up *)
(* once a life, and its rows are its own and are never wiped or mixed up.  *)
SlotOf(b) == CHOOSE i \in DOMAIN pm_pgs : pm_pgs[i].key = b

Known(b) ==
  IF \A i \in DOMAIN pm_pgs : pm_pgs[i].key # b THEN "absent"
  ELSE IF pm_pgs[SlotOf(b)].queries = None THEN "waiting" ELSE "polled"

Samples(b) ==
  IF Known(b) = "polled" THEN pm_data[SlotOf(b)] ELSE [q \in Queries |-> None]

Metrics == INSTANCE BackendMetrics WITH
  known <- [b \in Backends |-> Known(b)],
  samples <- [b \in Backends |-> Samples(b)]

KeepsMetrics == Metrics!Spec

(* A claimed connection is in the hands of exactly one worker, and that    *)
(* worker finds its handle in its slot when its barrier drains.            *)
HoldsClaim(w) ==
  w.stage = "querying" /\ w.errors # <<"connect">>
ClaimsHaveOneHolder ==
  /\ \A b \in Backends :
       Cardinality({w \in workers : HoldsClaim(w) /\ w.pool = b}) =
         IF pools[b] \in {"claimed", "stopping"} THEN 1 ELSE 0
  /\ \A w \in workers :
       HoldsClaim(w) => InRange(w.pi) /\ pm_pgs[w.pi].handle = w.pool

(* A live handle in a slot is the claim of a pool that is claimed, and no  *)
(* two slots share one: barrier_drain never releases a connection twice,   *)
(* even where an index has gone stale.                                     *)
HandlesAreLive ==
  /\ \A i \in DOMAIN pm_pgs :
       pm_pgs[i].handle \in Backends =>
         pools[pm_pgs[i].handle] \in {"claimed", "stopping"}
  /\ \A i, j \in DOMAIN pm_pgs :
       pm_pgs[i].handle \in Backends /\ pm_pgs[i].handle = pm_pgs[j].handle
         => i = j

(* A query has a timestamp in pm_state exactly while some worker waits for *)
(* it: no query is skipped for ever as still pending, and none is sent     *)
(* twice at once to one backend.                                           *)
PendingStateIsAccurate ==
  /\ \A i \in DOMAIN pm_state :
       pm_state[i] # Hole =>
         \A q \in Queries :
           pm_state[i][q] <=> \E w \in workers : w.pi = i /\ q \in w.running
  /\ \A v, w \in workers : v # w /\ v.pi = w.pi => v.running \cap w.running = {}

(* A slot is locked exactly while a setup of that slot's backend is under  *)
(* way: the lock is never left behind, and never taken twice.              *)
SetupLockHeld ==
  \A i \in DOMAIN pm_pools :
    pm_pools[i].setting_up <=>
      \E s \in setups : s.pi = i /\ s.backend = pm_pools[i].key

(* When a query of a worker has timed out, the worker's connection is      *)
(* closed and not handed back to the pool for the next tick.               *)
Drained(w) ==
  /\ w.stage = "querying" /\ w.running = {}
  /\ ~\E v \in workers' : v.tick = w.tick /\ v.pi = w.pi
TimeoutClosesConnection ==
  [][\A w \in workers :
       Drained(w) /\ (\E i \in DOMAIN w.errors : w.errors[i] = "timeout")
         => pools'[w.pool] # "idle"]_vars

SameEntry(v, w) == v.tick = w.tick /\ v.pi = w.pi

(* A tick that is open gets no new entries, and the callbacks of an entry  *)
(* only take it on: from the queue to its claim, to its queries, to fewer  *)
(* of them, to its end.  No failed claim, timeout, removal or other tick   *)
(* sends it back, so a tick with callbacks that come is finite.            *)
Rank(w) == CASE w.stage = "queued" -> 2 [] w.stage = "claiming" -> 1
             [] w.stage = "querying" -> 0
Further(v, w) ==
  \/ Rank(v) < Rank(w)
  \/ Rank(v) = Rank(w) /\ v.running \subseteq w.running /\ v.running # w.running
EntriesMoveOn ==
  [][/\ \A v \in workers' \ workers : ticks[v.tick] # "idle" =>
          \E w \in workers : /\ SameEntry(v, w)
                             /\ v = [w EXCEPT !.gone = TRUE] \/ Further(v, w)
     /\ \A w \in workers :
          \/ \A v \in workers' : SameEntry(v, w) => Further(v, w)
          \/ ~(Alive' /\ WorkerStep(w))]_vars

(* Every tick ends, so the ids of overlapping ticks do not run out.        *)
TicksEnd == \A t \in Ticks : ticks[t] # "idle" ~> ticks[t] = "idle"

(* A backend that was announced is eventually set up, or is withdrawn.     *)
EventuallySetUp ==
  \A b \in Backends :
    discovered[b] = "present" ~>
      \/ discovered[b] = "removed"
      \/ \E i \in DOMAIN pm_pools :
           pm_pools[i].key = b /\ ~pm_pools[i].needs_setup

(* A backend that stays is claimed again and again: no schedule of ticks,  *)
(* failed claims, timed-out queries or removals of other backends starves  *)
(* it.                                                                     *)
PolledForever ==
  \A b \in Backends :
    \/ []<>(discovered[b] # "present")
    \/ []<>(pools[b] = "claimed")
=============================================================================
