----------------------------- MODULE TickProofs -----------------------------
(* What is provable of the liveness of the ticks: an entry of a tick never *)
(* comes back and only moves on.  Everything is about Spec, that is with   *)
(* removals at any moment, stale indices and stop().                       *)
EXTENDS PgMonProofs

(* A new entry is that of w, further on.                                   *)
Replaces(v, w) == SameEntry(v, w) /\ Further(v, w)

(* What a callback of an entry leaves of it: nothing, one that is further, *)
(* or, as it throws, the entry and a dead process.                         *)
CallbackOf(w) ==
  /\ UNCHANGED ticks
  /\ \/ workers' = workers /\ ~Alive'
     \/ workers' = workers \ {w}
     \/ \E v : Replaces(v, w) /\ UpdateWorker(w, v)
     \/ \E h : workers' = Disconnect(workers \ {w}, h)

LEMMA StartIsACallback ==
  ASSUME IInv, NEW w \in workers, StartWorker(w)
  PROVE  CallbackOf(w)
<1> DEFINE v == [w EXCEPT !.stage = "claiming", !.pool = pm_pools[w.pi].key]
<1>1. w \in Worker /\ w.stage = "queued"
  BY WorkerTypes DEF StartWorker
<1>2. Replaces(v, w)
  BY <1>1 DEF Replaces, SameEntry, Further, Rank, Worker
<1>3. \/ Throw("enqueue_queries")
      \/ /\ workers' = workers \ {w} \/ UpdateWorker(w, v)
         /\ UNCHANGED ticks
  BY DEF StartWorker
<1> HIDE DEF v
<1> QED BY <1>2, <1>3 DEF CallbackOf, Throw, Alive

LEMMA ClaimIsACallback ==
  ASSUME IInv, NEW w \in workers, ClaimFails(w) \/ ClaimGranted(w)
  PROVE  CallbackOf(w)
<1> DEFINE failed == [w EXCEPT !.stage = "querying", !.errors = <<"connect">>]
           granted == [w EXCEPT !.stage = "querying",
                                !.running = {q \in Queries : ~pm_state[w.pi][q]}]
<1>1. w \in Worker /\ w.stage = "claiming"
  BY WorkerTypes DEF ClaimFails, ClaimGranted
<1>2. Replaces(failed, w) /\ Replaces(granted, w)
  BY <1>1 DEF Replaces, SameEntry, Further, Rank, Worker
<1>3. \/ Throw("claim callback")
      \/ /\ UpdateWorker(w, failed) \/ UpdateWorker(w, granted)
         /\ UNCHANGED ticks
  BY DEF ClaimFails, ClaimGranted
<1> HIDE DEF failed, granted
<1> QED BY <1>2, <1>3 DEF CallbackOf, Throw, Alive

LEMMA QueryIsACallback ==
  ASSUME IInv, NEW w \in workers, NEW q \in Queries,
         \/ \E kind \in {"timeout", "query"} : QueryError(w, q, kind)
         \/ \E rows \in BOOLEAN : QueryEnd(w, q, rows)
  PROVE  CallbackOf(w)
<1>1. w \in Worker /\ w.stage = "querying" /\ q \in w.running
  BY WorkerTypes DEF QueryError, QueryEnd
<1>2. ASSUME NEW kind \in {"timeout", "query"}, QueryError(w, q, kind)
      PROVE  CallbackOf(w)
  <2> DEFINE v == [w EXCEPT !.running = @ \ {q}, !.errors = Append(@, kind)]
  <2>1. Replaces(v, w)
    BY <1>1 DEF Replaces, SameEntry, Further, Rank, Worker
  <2>2. \/ Throw("query error")
        \/ UpdateWorker(w, v) /\ UNCHANGED ticks
    BY <1>2 DEF QueryError
  <2> HIDE DEF v
  <2> QED BY <2>1, <2>2 DEF CallbackOf, Throw, Alive
<1>3. ASSUME NEW rows \in BOOLEAN, QueryEnd(w, q, rows)
      PROVE  CallbackOf(w)
  <2> DEFINE v == [w EXCEPT !.running = @ \ {q}]
  <2>1. Replaces(v, w)
    BY <1>1 DEF Replaces, SameEntry, Further, Rank, Worker
  <2>2. \/ Throw("query end")
        \/ UpdateWorker(w, v) /\ UNCHANGED ticks
    BY <1>3 DEF QueryEnd
  <2> HIDE DEF v
  <2> QED BY <2>1, <2>2 DEF CallbackOf, Throw, Alive
<1> QED BY <1>2, <1>3

LEMMA DrainIsACallback ==
  ASSUME NEW w \in workers, Drain(w)
  PROVE  CallbackOf(w)
<1>1. \/ Throw("barrier_drain")
      \/ /\ DrainTimeout(w) \/ DrainNoConnection(w) \/ DrainDone(w)
         /\ UNCHANGED ticks
  BY DEF Drain
<1> QED BY <1>1 DEF CallbackOf, Throw, Alive, DrainTimeout, DrainNoConnection,
                    DrainDone

LEMMA StepIsACallback ==
  ASSUME IInv, NEW w \in workers, WorkerStep(w)
  PROVE  CallbackOf(w)
BY StartIsACallback, ClaimIsACallback, QueryIsACallback, DrainIsACallback
   DEF WorkerStep

(* What any step does to the ticks and their entries.                      *)
LEMMA StepKinds ==
  ASSUME IInv, [Next]_vars
  PROVE  \/ UNCHANGED <<workers, ticks>>
         \/ \E w \in workers : CallbackOf(w)
         \/ \E t \in Ticks : \/ \E kind \in {"first", "open"} : BeginTick(t, kind)
                             \/ QueueEnd(t)
         \/ \E b : workers' = Disconnect(workers, b)
                   /\ UNCHANGED ticks
<1>1. CASE UNCHANGED vars
  BY <1>1 DEF vars
<1>2. CASE MonitorStep
  <2>1. SetupBackend => UNCHANGED <<workers, ticks>>
    BY DEF SetupBackend, Throw
  <2>2. \A s \in setups, ok \in BOOLEAN :
          SetupReturns(s, ok) => UNCHANGED <<workers, ticks>>
    BY DEF SetupReturns, Throw
  <2>3. \A b \in Backends : Added(b) \/ Connected(b)
          => UNCHANGED <<workers, ticks>>
    BY DEF Added, Connected
  <2>4. \A t \in Ticks : /\ FirstTick(t) => BeginTick(t, "first")
                         /\ IntervalFires(t) => BeginTick(t, "open")
    BY DEF FirstTick, IntervalFires
  <2> QED BY <1>2, <2>1, <2>2, <2>3, <2>4, StepIsACallback DEF MonitorStep
<1>3. CASE \E b \in Backends : Removed(b) \/ DestroyClient(b)
  <2>1. \A b \in Backends :
          Removed(b) => UNCHANGED <<workers, ticks>>
    BY DEF Removed, Throw
  <2> QED BY <1>3, <2>1 DEF DestroyClient
<1>4. CASE \E r \in removals : RetryRemoval(r)
  BY <1>4 DEF RetryRemoval, Throw
<1>5. CASE Stop
  BY <1>5 DEF Stop
<1> QED BY <1>1, <1>2, <1>3, <1>4, <1>5 DEF Next, DiscoveryNext

-----------------------------------------------------------------------------
(* The entries.                                                            *)

(* A tick's queue has at most one entry for an index, and its 'end' comes  *)
(* after the callback of every entry: without this the callback of one     *)
(* entry could be undone by its twin.                                      *)
OneEntryEach ==
  /\ \A w \in workers : ticks[w.tick] # "idle"
  /\ \A v, w \in workers : SameEntry(v, w) => v = w

(* Destroying a client leaves each entry what it was, with "gone" at most. *)
LEMMA DisconnectEntries ==
  ASSUME NEW ws, ws \subseteq Worker, NEW h, NEW v \in Disconnect(ws, h)
  PROVE  \E w \in ws : SameEntry(v, w) /\ v \in {w, [w EXCEPT !.gone = TRUE]}
                       /\ v = IF w.pool = h /\ w.stage = "querying"
                              THEN [w EXCEPT !.gone = TRUE] ELSE w
<1>1. PICK w \in ws : v = IF w.pool = h /\ w.stage = "querying"
                          THEN [w EXCEPT !.gone = TRUE] ELSE w
  BY DEF Disconnect
<1> QED BY <1>1 DEF SameEntry, Worker

LEMMA NextKeepsEntries == IInv /\ OneEntryEach /\ [Next]_vars => OneEntryEach'
<1> SUFFICES ASSUME IInv, OneEntryEach, [Next]_vars PROVE OneEntryEach'
  OBVIOUS
<1>1. /\ ticks \in [Ticks -> {"idle", "first", "open"}]
      /\ workers \subseteq Worker
      /\ \A w \in workers : w.tick \in Ticks
  BY WorkerTypes DEF IInv, RestTypeOK
<1>2. CASE UNCHANGED <<workers, ticks>>
  BY <1>2 DEF OneEntryEach, SameEntry
<1>3. ASSUME NEW ws \in SUBSET workers, NEW h, workers' = Disconnect(ws, h),
             UNCHANGED ticks
      PROVE  OneEntryEach'
  <2> DEFINE Left(w) == IF w.pool = h /\ w.stage = "querying"
                        THEN [w EXCEPT !.gone = TRUE] ELSE w
  <2>1. ws \subseteq Worker
    BY <1>1
  <2>2. ASSUME NEW v \in workers'
        PROVE  \E w \in workers : SameEntry(v, w) /\ v = Left(w)
    <3>1. v \in Disconnect(ws, h)
      BY <1>3
    <3>2. PICK w \in ws : SameEntry(v, w) /\ v = Left(w)
      BY <2>1, <3>1, DisconnectEntries
    <3> QED BY <3>2
  <2> HIDE DEF Left
  <2>3. \A w \in workers' : ticks'[w.tick] # "idle"
    BY <1>3, <2>2 DEF OneEntryEach, SameEntry
  <2>4. ASSUME NEW v \in workers', NEW w \in workers', SameEntry(v, w)
        PROVE  v = w
    <3>1. PICK x \in workers : SameEntry(v, x) /\ v = Left(x)
      BY <2>2
    <3>2. PICK y \in workers : SameEntry(w, y) /\ w = Left(y)
      BY <2>2
    <3>3. SameEntry(x, y)
      BY <2>4, <3>1, <3>2 DEF SameEntry
    <3> QED BY <3>1, <3>2, <3>3 DEF OneEntryEach
  <2> QED BY <2>3, <2>4 DEF OneEntryEach
<1>4. ASSUME NEW w \in workers, CallbackOf(w) PROVE OneEntryEach'
  <2>1. CASE workers' = workers \/ workers' = workers \ {w}
    BY <1>4, <2>1 DEF CallbackOf, OneEntryEach, SameEntry
  <2>2. ASSUME NEW v, Replaces(v, w), UpdateWorker(w, v)
        PROVE  OneEntryEach'
    BY <1>4, <2>2 DEF CallbackOf, Replaces, UpdateWorker, OneEntryEach, SameEntry
  <2>3. ASSUME NEW h, workers' = Disconnect(workers \ {w}, h)
        PROVE  OneEntryEach'
    BY <1>3, <1>4, <2>3 DEF CallbackOf
  <2> QED BY <1>4, <2>1, <2>2, <2>3 DEF CallbackOf
<1>5. ASSUME NEW t \in Ticks, NEW kind \in {"first", "open"}, BeginTick(t, kind)
      PROVE  OneEntryEach'
  <2>1. /\ \A w \in workers : w.tick # t
        /\ ticks' = [ticks EXCEPT ![t] = kind]
        /\ workers' = workers \cup {QueuedWorker(t, i) : i \in DOMAIN pm_pgs}
    BY <1>5 DEF BeginTick, OneEntryEach
  <2>2. \A i \in DOMAIN pm_pgs : /\ QueuedWorker(t, i).tick = t
                                 /\ QueuedWorker(t, i).pi = i
    BY DEF QueuedWorker
  <2>3. \A w \in workers' : ticks'[w.tick] # "idle"
    BY <1>1, <2>1, <2>2 DEF OneEntryEach
  <2>4. \A v, w \in workers' : SameEntry(v, w) => v = w
    BY <2>1, <2>2 DEF OneEntryEach, SameEntry
  <2> QED BY <2>3, <2>4 DEF OneEntryEach
<1>6. ASSUME NEW t \in Ticks, QueueEnd(t) PROVE OneEntryEach'
  <2>1. /\ \A w \in workers : w.tick # t
        /\ ticks' = [ticks EXCEPT ![t] = "idle"] /\ workers' = workers
    BY <1>6 DEF QueueEnd
  <2> QED BY <1>1, <2>1 DEF OneEntryEach, SameEntry
<1> QED BY <1>2, <1>3, <1>4, <1>5, <1>6, StepKinds

LEMMA EntriesAreUnique == Spec => []OneEntryEach
<1>1. Init => OneEntryEach
  BY DEF Init, OneEntryEach
<1> QED BY <1>1, NextKeepsEntries, Invariance, PTL DEF Spec

(* After a callback of w, what is left of w's entry is further on.         *)
LEMMA CallbackTakesFurther ==
  ASSUME IInv, OneEntryEach, NEW w \in workers, WorkerStep(w), Alive',
         NEW v \in workers', SameEntry(v, w)
  PROVE  Further(v, w)
<1>1. \A u \in workers \ {w} : ~SameEntry(u, w)
  BY DEF OneEntryEach
<1>2. CASE workers' = workers \ {w}
  BY <1>1, <1>2
<1>3. ASSUME NEW x, Replaces(x, w), UpdateWorker(w, x)
      PROVE  Further(v, w)
  BY <1>1, <1>3 DEF Replaces, UpdateWorker
<1>4. ASSUME NEW h, workers' = Disconnect(workers \ {w}, h)
      PROVE  FALSE
  <2>1. PICK u \in workers \ {w} : SameEntry(v, u)
    BY <1>4, DisconnectEntries DEF IInv, RestTypeOK
  <2> QED BY <1>1, <2>1 DEF SameEntry
<1> QED BY <1>2, <1>3, <1>4, StepIsACallback DEF CallbackOf

(* An entry that is new while its tick is open is one that moved on.       *)
LEMMA NoEntryIsAdded ==
  ASSUME IInv, [Next]_vars, NEW v \in workers' \ workers, ticks[v.tick] # "idle"
  PROVE  \E w \in workers : /\ SameEntry(v, w)
                            /\ v = [w EXCEPT !.gone = TRUE] \/ Further(v, w)
<1>1. workers \subseteq Worker
  BY DEF IInv, RestTypeOK
<1>2. ASSUME NEW ws \in SUBSET workers, NEW h, workers' = Disconnect(ws, h)
      PROVE  \E w \in workers : /\ SameEntry(v, w)
                                /\ v = [w EXCEPT !.gone = TRUE] \/ Further(v, w)
  <2>1. PICK w \in ws : SameEntry(v, w) /\ v \in {w, [w EXCEPT !.gone = TRUE]}
    BY <1>1, <1>2, DisconnectEntries
  <2> QED BY <2>1
<1>3. ASSUME NEW w \in workers, CallbackOf(w)
      PROVE  \E u \in workers : /\ SameEntry(v, u)
                                /\ v = [u EXCEPT !.gone = TRUE] \/ Further(v, u)
  <2>1. ASSUME NEW x, Replaces(x, w), UpdateWorker(w, x)
        PROVE  SameEntry(v, w) /\ Further(v, w)
    BY <2>1 DEF Replaces, UpdateWorker
  <2> QED BY <1>2, <1>3, <2>1 DEF CallbackOf
<1>4. ASSUME NEW t \in Ticks, NEW kind, BeginTick(t, kind) PROVE FALSE
  <2>1. PICK i \in DOMAIN pm_pgs : v = QueuedWorker(t, i)
    BY <1>4 DEF BeginTick
  <2> QED BY <1>4, <2>1 DEF BeginTick, QueuedWorker
<1>5. ASSUME NEW t \in Ticks, QueueEnd(t) PROVE FALSE
  BY <1>5 DEF QueueEnd
<1> QED BY <1>2, <1>3, <1>4, <1>5, StepKinds

(* The callbacks of a tick's entries only take them on, and nothing adds   *)
(* to an open tick or sends an entry back: with the fairness of the event  *)
(* loop, which is for TLC, every tick ends.                                *)
THEOREM EntriesOnlyMoveOn == Spec => EntriesMoveOn
<1>1. ASSUME IInv, OneEntryEach, Next
      PROVE  /\ \A v \in workers' \ workers : ticks[v.tick] # "idle" =>
                  \E w \in workers :
                    /\ SameEntry(v, w)
                    /\ v = [w EXCEPT !.gone = TRUE] \/ Further(v, w)
             /\ \A w \in workers :
                  \/ \A v \in workers' : SameEntry(v, w) => Further(v, w)
                  \/ ~(Alive' /\ WorkerStep(w))
  BY <1>1, NoEntryIsAdded, CallbackTakesFurther
<1>2. IInv /\ OneEntryEach /\ [Next]_vars =>
        [/\ \A v \in workers' \ workers : ticks[v.tick] # "idle" =>
              \E w \in workers :
                /\ SameEntry(v, w)
                /\ v = [w EXCEPT !.gone = TRUE] \/ Further(v, w)
         /\ \A w \in workers :
              \/ \A v \in workers' : SameEntry(v, w) => Further(v, w)
              \/ ~(Alive' /\ WorkerStep(w))]_vars
  BY <1>1
<1> QED BY <1>2, Invariance, EntriesAreUnique, PTL DEF Spec, EntriesMoveOn
=============================================================================
