----------------------------- MODULE QuietProofs -----------------------------
(* Theorems about QuietSpec of PgMon: while backends leave only at quiet   *)
(* moments, no callback ever uses an index that has gone stale.            *)
EXTENDS PgMonProofs, FiniteSetTheorems

-----------------------------------------------------------------------------
(* The invariant.                                                          *)

Slots == 1..Len(pm_pgs)

(* A deferred setup_backend call finds its slot.                           *)
ImmediatesInRange ==
  \A k \in 1..Len(immediates) :
    (IF immediates[k] = LastAdded THEN ind ELSE immediates[k]) \in Slots

(* A setup under way has the lock of its slot, and nothing else has it.    *)
SetupsHoldLock ==
  \A s \in setups :
    /\ s.pi \in Slots
    /\ pm_pools[s.pi].key = s.backend
    /\ pm_pools[s.pi].needs_setup /\ pm_pools[s.pi].setting_up

LocksAreHeld ==
  \A i \in Slots : pm_pools[i].setting_up => \E s \in setups : s.pi = i

(* A worker's slot is still that of its backend, and was set up before it  *)
(* left the queue.                                                         *)
WorkersInPlace ==
  \A w \in workers :
    /\ w.pi \in Slots
    /\ w.stage # "queued" => /\ ~pm_pools[w.pi].needs_setup
                             /\ w.pool = pm_pools[w.pi].key

(* A claim that failed is the only error of its worker, which has no       *)
(* queries; only such a worker can have a client that is gone.             *)
Unclaimed(w) ==
  w.errors = <<"connect">> /\ w.stage = "querying" /\ w.running = {}
ErrorsAreTold ==
  \A w \in workers :
    Unclaimed(w) \/ (w.errors \in Seq({"timeout", "query"}) /\ ~w.gone)

(* Claimed connections and the workers that hold them.                     *)
HoldersOwnHandle ==
  \A w \in workers :
    HoldsClaim(w) => /\ pm_pgs[w.pi].handle = w.pool
                     /\ pools[w.pool] = "claimed"
HoldersAreUnique ==
  \A v, w \in workers :
    HoldsClaim(v) /\ HoldsClaim(w) /\ v.pool = w.pool => v = w
ClaimsAreHeld ==
  \A b \in Backends :
    /\ pools[b] # "stopping"
    /\ pools[b] = "claimed" => \E w \in workers : HoldsClaim(w) /\ w.pool = b

(* Timestamps and the workers that wait.                                   *)
StampsAreAwaited ==
  \A i \in Slots : pm_state[i] # Hole =>
    \A q \in Queries :
      pm_state[i][q] <=> \E w \in workers : w.pi = i /\ q \in w.running
WaitersAreDisjoint ==
  \A v, w \in workers : v # w /\ v.pi = w.pi => v.running \cap w.running = {}

SlotsAreTracked ==
  /\ \A i \in Slots : discovered[pm_pgs[i].key] = "present"
  /\ \A b \in Backends :
       discovered[b] = "present" => \E i \in Slots : pm_pgs[i].key = b
  /\ \A i, j \in Slots : pm_pgs[i].key = pm_pgs[j].key => i = j

SamplesAreOwn ==
  \A i \in Slots :
    /\ pm_pgs[i].queries \in {None, pm_pgs[i].key}
    /\ pm_data[i] # Hole =>
         \A q \in Queries : pm_data[i][q] \in {None, pm_pgs[i].key}

Calm == thrown = "no" /\ removals = {}

CallbacksInv == ImmediatesInRange /\ SetupsHoldLock /\ LocksAreHeld
WorkersInv == WorkersInPlace /\ ErrorsAreTold
ClaimsInv == HoldersOwnHandle /\ HoldersAreUnique /\ ClaimsAreHeld
StampsInv == StampsAreAwaited /\ WaitersAreDisjoint

QuietInv == /\ CallbacksInv /\ WorkersInv /\ ClaimsInv /\ StampsInv
            /\ SlotsAreTracked /\ SamplesAreOwn /\ Calm

QInv == HInv /\ QuietInv

-----------------------------------------------------------------------------
(* What the steps below need to know of the arrays.                        *)

LEMMA Arrays ==
  ASSUME QInv
  PROVE  /\ pm_pgs \in Seq(Pg) /\ pm_pools \in Seq(Pool)
         /\ pm_state \in Seq(QueryStates \cup {Hole})
         /\ pm_data \in Seq(DataPoints \cup {Hole})
         /\ Len(pm_pgs) \in Nat /\ Len(pm_pools) = Len(pm_pgs)
         /\ Len(pm_state) = Len(pm_pgs) /\ Len(pm_data) = Len(pm_pgs)
         /\ DOMAIN pm_pgs = Slots /\ DOMAIN pm_pools = Slots
         /\ DOMAIN pm_state = Slots /\ DOMAIN pm_data = Slots
         /\ \A i : InRange(i) <=> i \in Slots
<1>1. SlotsTypeOK /\ SlotsAligned
  BY DEF QInv, HInv, IInv, SlotsInv
<1> QED BY <1>1, LenProperties DEF SlotsTypeOK, SlotsAligned, Slots, InRange

LEMMA OneSlot ==
  ASSUME QInv, NEW i \in Slots
  PROVE  /\ pm_pgs[i] \in Pg /\ pm_pools[i] \in Pool
         /\ pm_state[i] \in QueryStates \cup {Hole}
         /\ pm_data[i] \in DataPoints \cup {Hole}
         /\ pm_pgs[i].key \in Backends
         /\ pm_pools[i].key = pm_pgs[i].key
         /\ pm_pgs[i].queries # None <=> pm_state[i] # Hole
         /\ pm_pgs[i].queries # None <=> pm_data[i] # Hole
         /\ ~pm_pools[i].needs_setup => HasQueries(i)
BY SlotTypes DEF QInv, HInv, IInv, Slots, SlotOK, Pg, HasQueries, InRange

LEMMA OneWorker ==
  ASSUME QInv, NEW w \in workers
  PROVE  /\ w \in Worker /\ w.tick \in Ticks /\ w.pi \in Slots
         /\ w.stage \in {"queued", "claiming", "querying"}
         /\ w.errors \in Seq(ErrorKind) /\ w.running \subseteq Queries
         /\ w.stage # "queued" => /\ w.pool \in Backends /\ HasQueries(w.pi)
                                  /\ ~pm_pools[w.pi].needs_setup
                                  /\ w.pool = pm_pgs[w.pi].key
         /\ w.running # {} => w.stage = "querying" /\ HoldsClaim(w) /\ ~w.gone
<1>1. w \in Worker
  BY DEF QInv, HInv, IInv, RestTypeOK
<1>2. /\ w.tick \in Ticks /\ w.stage \in {"queued", "claiming", "querying"}
      /\ w.errors \in Seq(ErrorKind) /\ w.running \subseteq Queries
      /\ w.stage # "queued" => w.pool \in Backends
      /\ w.running # {} => w.stage = "querying"
  BY <1>1 DEF Worker, QInv, HInv, IInv, WorkersKnowPool
<1>3. /\ w.pi \in Slots
      /\ w.stage # "queued" => /\ ~pm_pools[w.pi].needs_setup
                               /\ w.pool = pm_pools[w.pi].key
  BY DEF QInv, QuietInv, WorkersInv, WorkersInPlace
<1>4. w.stage # "queued" => HasQueries(w.pi) /\ w.pool = pm_pgs[w.pi].key
  BY <1>3, OneSlot
<1>5. Unclaimed(w) \/ (w.errors \in Seq({"timeout", "query"}) /\ ~w.gone)
  BY DEF QInv, QuietInv, WorkersInv, ErrorsAreTold
<1>6. ASSUME w.running # {} PROVE HoldsClaim(w) /\ ~w.gone
  <2>1. w.errors \in Seq({"timeout", "query"}) /\ ~w.gone
    BY <1>5, <1>6 DEF Unclaimed
  <2>2. w.errors # <<"connect">>
    <3>1. ASSUME w.errors = <<"connect">> PROVE FALSE
      <4>1. w.errors[1] \in {"timeout", "query"}
        <5>1. Len(w.errors) = 1
          BY <3>1
        <5> QED BY <2>1, <5>1, ElementOfSeq
      <4> QED BY <3>1, <4>1
    <3> QED BY <3>1
  <2> QED BY <1>2, <1>6, <2>1, <2>2 DEF HoldsClaim
<1> QED BY <1>1, <1>2, <1>3, <1>4, <1>6

LEMMA PlainErrors ==
  ASSUME NEW e \in Seq({"timeout", "query"})
  PROVE  e # <<"connect">> /\ ~HasCauseWithName(e, "connect")
<1>1. ASSUME e = <<"connect">> PROVE FALSE
  <2>1. Len(e) = 1 /\ e[1] = "connect"
    BY <1>1
  <2>2. e[1] \in {"timeout", "query"}
    BY <2>1, ElementOfSeq
  <2> QED BY <2>1, <2>2
<1>2. e # <<>> => Head(e) \in {"timeout", "query"}
  BY HeadTailProperties
<1> QED BY <1>1, <1>2 DEF HasCauseWithName

(* The parts of the invariant and what each of them reads.                 *)
LEMMA Frames ==
  ASSUME QInv
  PROVE  /\ UNCHANGED <<immediates, ind, setups, pm_pools, pm_pgs>> =>
              CallbacksInv'
         /\ UNCHANGED <<workers, pm_pools, pm_pgs>> => WorkersInv'
         /\ UNCHANGED <<workers, pools, pm_pgs>> => ClaimsInv'
         /\ UNCHANGED <<workers, pm_state, pm_pgs>> => StampsInv'
         /\ UNCHANGED <<discovered, pm_pgs>> => SlotsAreTracked'
         /\ UNCHANGED <<pm_data, pm_pgs>> => SamplesAreOwn'
         /\ UNCHANGED <<thrown, removals>> => Calm'
<1> USE DEF QInv, QuietInv, Slots
<1>1. UNCHANGED <<immediates, ind, setups, pm_pools, pm_pgs>> => CallbacksInv'
  BY DEF CallbacksInv, ImmediatesInRange, SetupsHoldLock, LocksAreHeld
<1>2. UNCHANGED <<workers, pm_pools, pm_pgs>> => WorkersInv'
  BY DEF WorkersInv, WorkersInPlace, ErrorsAreTold, Unclaimed
<1>3. UNCHANGED <<workers, pools, pm_pgs>> => ClaimsInv'
  BY DEF ClaimsInv, HoldersOwnHandle, HoldersAreUnique, ClaimsAreHeld, HoldsClaim
<1>4. UNCHANGED <<workers, pm_state, pm_pgs>> => StampsInv'
  BY DEF StampsInv, StampsAreAwaited, WaitersAreDisjoint
<1>5. UNCHANGED <<discovered, pm_pgs>> => SlotsAreTracked'
  BY DEF SlotsAreTracked
<1>6. UNCHANGED <<pm_data, pm_pgs>> => SamplesAreOwn'
  BY DEF SamplesAreOwn
<1>7. UNCHANGED <<thrown, removals>> => Calm'
  BY DEF Calm
<1> QED BY <1>1, <1>2, <1>3, <1>4, <1>5, <1>6, <1>7

-----------------------------------------------------------------------------
(* One lemma per action.                                                   *)

LEMMA PoolStepKeepsQuiet ==
  ASSUME QInv, NEW b \in Backends, Connected(b)
  PROVE  QuietInv'
<1>1. /\ pools[b] \in {"empty", "idle"} /\ pools \in [Backends -> PoolState]
      /\ \/ pools' = [pools EXCEPT ![b] = "idle"]
         \/ pools' = [pools EXCEPT ![b] = "empty"]
      /\ UNCHANGED <<slots, ind, immediates, setups, workers, removals,
                     discovered, thrown>>
  BY DEF Connected, QInv, HInv, IInv, RestTypeOK
<1>2. \A c \in Backends : pools[c] = "claimed" <=> pools'[c] = "claimed"
  BY <1>1
<1>3. ClaimsInv'
  <2>1. \A w \in workers : HoldsClaim(w) => w.pool \in Backends
    BY OneWorker DEF HoldsClaim
  <2>2. HoldersOwnHandle' /\ HoldersAreUnique'
    BY <1>1, <1>2, <2>1
       DEF QInv, QuietInv, ClaimsInv, HoldersOwnHandle, HoldersAreUnique,
           HoldsClaim, slots
  <2>3. ClaimsAreHeld'
    BY <1>1, <1>2 DEF QInv, QuietInv, ClaimsInv, ClaimsAreHeld, HoldsClaim
  <2> QED BY <2>2, <2>3 DEF ClaimsInv
<1> QED BY <1>1, <1>3, Frames DEF QuietInv, slots

LEMMA TickKeepsQuiet ==
  ASSUME QInv, NEW t \in Ticks, FirstTick(t) \/ IntervalFires(t)
  PROVE  QuietInv'
<1> DEFINE new == {QueuedWorker(t, i) : i \in DOMAIN pm_pgs}
<1>1. /\ workers' = workers \cup new
      /\ UNCHANGED <<slots, ind, immediates, setups, removals, discovered,
                     pools, thrown>>
  BY DEF FirstTick, IntervalFires, BeginTick
<1>2. \A v \in new : /\ v.pi \in Slots /\ v.stage = "queued" /\ v.running = {}
                     /\ v.errors = <<>> /\ ~v.gone
  BY Arrays DEF QueuedWorker
<1> HIDE DEF new
<1>3. <<>> \in Seq({"timeout", "query"})
  BY EmptySeq
<1>4. WorkersInv'
  BY <1>1, <1>2, <1>3
     DEF QInv, QuietInv, WorkersInv, WorkersInPlace, ErrorsAreTold, Unclaimed,
         Slots, slots
<1>5. ClaimsInv'
  BY <1>1, <1>2
     DEF QInv, QuietInv, ClaimsInv, HoldersOwnHandle, HoldersAreUnique,
         ClaimsAreHeld, HoldsClaim, slots
<1>6. StampsInv'
  BY <1>1, <1>2
     DEF QInv, QuietInv, StampsInv, StampsAreAwaited, WaitersAreDisjoint,
         Slots, slots
<1> QED BY <1>1, <1>4, <1>5, <1>6, Frames DEF QuietInv, slots

LEMMA SetupBackendKeepsQuiet ==
  ASSUME QInv, SetupBackend
  PROVE  QuietInv'
<1> DEFINE pi == IF Head(immediates) = LastAdded THEN ind ELSE Head(immediates)
           pool == [pm_pools[pi] EXCEPT !.setting_up = TRUE]
           s == [pi |-> pi, backend |-> pm_pools[pi].key]
<1>1. /\ immediates # <<>> /\ immediates \in Seq(Index \cup {LastAdded})
      /\ Len(immediates) \in Nat /\ Len(immediates) >= 1
      /\ Head(immediates) = immediates[1]
      /\ Len(Tail(immediates)) = Len(immediates) - 1
      /\ \A k \in 1..(Len(immediates) - 1) :
           Tail(immediates)[k] = immediates[k + 1]
  <2>1. immediates # <<>> /\ immediates \in Seq(Index \cup {LastAdded})
    BY DEF SetupBackend, QInv, HInv, IInv, RestTypeOK
  <2>2. Len(immediates) \in Nat /\ Len(immediates) >= 1
    BY <2>1, EmptySeq, LenProperties
  <2> QED BY <2>1, <2>2, HeadTailProperties
<1>2. pi \in Slots
  BY <1>1 DEF QInv, QuietInv, CallbacksInv, ImmediatesInRange
<1>3. pm_pools[pi] \in Pool
  BY <1>2, OneSlot
<1>4. pool \in Pool /\ pool.key = pm_pools[pi].key /\ pool.setting_up
      /\ pool.needs_setup = pm_pools[pi].needs_setup
  BY <1>3 DEF Pool
<1>5. /\ immediates' = Tail(immediates)
      /\ \/ /\ pm_pools[pi].needs_setup /\ ~pm_pools[pi].setting_up
            /\ pm_pools' = [pm_pools EXCEPT ![pi] = pool]
            /\ setups' = setups \cup {s}
         \/ UNCHANGED <<pm_pools, setups>>
      /\ UNCHANGED <<pm_pgs, pm_state, pm_data, ind, ticks, workers, removals,
                     discovered, pools, interval, phase, thrown>>
  <2>1. InRange(pi)
    BY <1>2, Arrays
  <2> QED BY <2>1 DEF SetupBackend
<1>6. s.pi = pi /\ s.backend = pm_pools[pi].key
  OBVIOUS
<1> HIDE DEF pi, pool, s
<1>7. \/ /\ pm_pools[pi].needs_setup
         /\ Len(pm_pools') = Len(pm_pools)
         /\ \A i \in Slots : pm_pools'[i] = IF i = pi THEN pool ELSE pm_pools[i]
         /\ setups' = setups \cup {s}
      \/ UNCHANGED <<pm_pools, setups>>
  BY <1>2, <1>4, <1>5, Arrays, ExceptSeq DEF Slots
<1>8. Slots' = Slots
  BY <1>5 DEF Slots
<1>9. ImmediatesInRange'
  <2> SUFFICES ASSUME NEW k \in 1..Len(immediates')
               PROVE  (IF immediates'[k] = LastAdded THEN ind
                       ELSE immediates'[k]) \in Slots
    BY <1>5, <1>8 DEF ImmediatesInRange
  <2>1. k + 1 \in 1..Len(immediates) /\ immediates'[k] = immediates[k + 1]
    BY <1>1, <1>5
  <2> QED BY <2>1 DEF QInv, QuietInv, CallbacksInv, ImmediatesInRange
<1>10. SetupsHoldLock'
  BY <1>2, <1>4, <1>6, <1>7, <1>8
     DEF QInv, QuietInv, CallbacksInv, SetupsHoldLock
<1>11. LocksAreHeld'
  BY <1>2, <1>4, <1>6, <1>7, <1>8
     DEF QInv, QuietInv, CallbacksInv, LocksAreHeld
<1>12. WorkersInv'
  BY <1>2, <1>4, <1>5, <1>7, <1>8
     DEF QInv, QuietInv, WorkersInv, WorkersInPlace, ErrorsAreTold, Unclaimed
<1> QED BY <1>5, <1>9, <1>10, <1>11, <1>12, Frames DEF QuietInv, CallbacksInv

LEMMA SetupReturnsKeepsQuiet ==
  ASSUME QInv, NEW s \in setups, NEW ok \in BOOLEAN, SetupReturns(s, ok)
  PROVE  QuietInv'
<1> DEFINE pi == s.pi
           pool == [pm_pools[pi] EXCEPT !.setting_up = FALSE,
                                        !.needs_setup = ~ok]
           pg == [pm_pgs[pi] EXCEPT !.queries = s.backend]
           noState == [q \in Queries |-> FALSE]
           noData == [q \in Queries |-> None]
<1>1. /\ pi \in Slots /\ pm_pools[pi].key = s.backend
      /\ pm_pools[pi].needs_setup
      /\ s = [pi |-> pi, backend |-> s.backend]
  BY DEF QInv, QuietInv, CallbacksInv, SetupsHoldLock, HInv, IInv, RestTypeOK
<1>2. /\ pm_pgs[pi] \in Pg /\ pm_pools[pi] \in Pool
      /\ pm_pgs[pi].key = s.backend /\ s.backend \in Backends
  BY <1>1, OneSlot
<1>3. /\ pool \in Pool /\ pool.key = s.backend /\ ~pool.setting_up
      /\ pg \in Pg /\ pg.key = pm_pgs[pi].key /\ pg.handle = pm_pgs[pi].handle
      /\ pg.queries = s.backend
  <2>1. pool \in Pool /\ pool.key = pm_pools[pi].key /\ ~pool.setting_up
    BY <1>2 DEF Pool
  <2>2. /\ pg \in Pg /\ pg.key = pm_pgs[pi].key /\ pg.handle = pm_pgs[pi].handle
        /\ pg.queries = s.backend
    BY <1>2 DEF Pg
  <2> QED BY <1>1, <2>1, <2>2
<1>4. noState \in QueryStates \cup {Hole} /\ noData \in DataPoints \cup {Hole}
  BY DEF QueryStates, DataPoints
<1>5. \A v \in setups : v.pi = pi => v = s
  <2> SUFFICES ASSUME NEW v \in setups, v.pi = pi PROVE v = s
    OBVIOUS
  <2>1. v \in [pi : Index, backend : Backends] /\ s \in [pi : Index, backend : Backends]
    BY DEF QInv, HInv, IInv, RestTypeOK
  <2>2. pm_pools[pi].key = v.backend
    BY DEF QInv, QuietInv, CallbacksInv, SetupsHoldLock
  <2> QED BY <1>1, <2>1, <2>2
<1>6. /\ setups' = setups \ {s}
      /\ pm_pools' = [pm_pools EXCEPT ![pi] = pool]
      /\ \/ /\ pm_pgs' = [pm_pgs EXCEPT ![pi] = pg]
            /\ pm_state' = [pm_state EXCEPT ![pi] = noState]
            /\ pm_data' = [pm_data EXCEPT ![pi] = noData]
         \/ UNCHANGED <<pm_pgs, pm_state, pm_data>>
      /\ UNCHANGED <<ind, immediates, ticks, workers, removals, discovered,
                     pools, interval, phase, thrown>>
  <2>1. InRange(pi)
    BY <1>1, Arrays
  <2> QED BY <2>1 DEF SetupReturns, AddQueryData
<1>7. /\ \A q \in Queries : ~noState[q] /\ noData[q] = None
  OBVIOUS
<1> HIDE DEF pi, pool, pg, noState, noData
<1>8. /\ \A i \in Slots : pm_pools'[i] = IF i = pi THEN pool ELSE pm_pools[i]
      /\ Len(pm_pgs') = Len(pm_pgs) /\ Slots' = Slots
      /\ \/ \A i \in Slots :
              /\ pm_pgs'[i] = IF i = pi THEN pg ELSE pm_pgs[i]
              /\ pm_state'[i] = IF i = pi THEN noState ELSE pm_state[i]
              /\ pm_data'[i] = IF i = pi THEN noData ELSE pm_data[i]
         \/ UNCHANGED <<pm_pgs, pm_state, pm_data>>
  <2>1. \A i \in Slots : pm_pools'[i] = IF i = pi THEN pool ELSE pm_pools[i]
    BY <1>1, <1>3, <1>6, Arrays, ExceptSeq DEF Slots
  <2>2. CASE UNCHANGED <<pm_pgs, pm_state, pm_data>>
    BY <2>1, <2>2 DEF Slots
  <2>3. CASE /\ pm_pgs' = [pm_pgs EXCEPT ![pi] = pg]
             /\ pm_state' = [pm_state EXCEPT ![pi] = noState]
             /\ pm_data' = [pm_data EXCEPT ![pi] = noData]
    <3>1. /\ Len(pm_pgs') = Len(pm_pgs)
          /\ \A i \in Slots : pm_pgs'[i] = IF i = pi THEN pg ELSE pm_pgs[i]
      BY <1>1, <1>3, <2>3, Arrays, ExceptSeq DEF Slots
    <3>2. \A i \in Slots : pm_state'[i] = IF i = pi THEN noState ELSE pm_state[i]
      BY <1>1, <1>4, <2>3, Arrays, ExceptSeq DEF Slots
    <3>3. \A i \in Slots : pm_data'[i] = IF i = pi THEN noData ELSE pm_data[i]
      BY <1>1, <1>4, <2>3, Arrays, ExceptSeq DEF Slots
    <3> QED BY <2>1, <3>1, <3>2, <3>3 DEF Slots
  <2> QED BY <1>6, <2>2, <2>3
<1>9. \A i \in Slots : /\ pm_pgs'[i].key = pm_pgs[i].key
                       /\ pm_pgs'[i].handle = pm_pgs[i].handle
                       /\ pm_pools'[i].key = pm_pools[i].key
  BY <1>1, <1>2, <1>3, <1>8
<1>10. CallbacksInv'
  BY <1>1, <1>3, <1>5, <1>6, <1>8, <1>9
     DEF QInv, QuietInv, CallbacksInv, ImmediatesInRange, SetupsHoldLock,
         LocksAreHeld, pi
<1>11. \A w \in workers : w.pi = pi => w.stage = "queued" /\ w.running = {}
  BY <1>1, OneWorker
<1>12. WorkersInv'
  BY <1>6, <1>8, <1>9, <1>11
     DEF QInv, QuietInv, WorkersInv, WorkersInPlace, ErrorsAreTold, Unclaimed
<1>13. ClaimsInv'
  <2>1. \A w \in workers : w.pi \in Slots
    BY OneWorker
  <2> QED BY <1>6, <1>8, <1>9, <2>1
        DEF QInv, QuietInv, ClaimsInv, HoldersOwnHandle, HoldersAreUnique,
            ClaimsAreHeld, HoldsClaim
<1>14. StampsInv'
  BY <1>6, <1>7, <1>8, <1>11
     DEF QInv, QuietInv, StampsInv, StampsAreAwaited, WaitersAreDisjoint
<1>15. SlotsAreTracked'
  BY <1>6, <1>8, <1>9 DEF QInv, QuietInv, SlotsAreTracked
<1>16. SamplesAreOwn'
  BY <1>2, <1>3, <1>7, <1>8, <1>9 DEF QInv, QuietInv, SamplesAreOwn
<1> QED BY <1>6, <1>10, <1>12, <1>13, <1>14, <1>15, <1>16, Frames DEF QuietInv

LEMMA AddedKeepsQuiet ==
  ASSUME QInv, NEW b \in Backends, Added(b)
  PROVE  QuietInv'
<1> DEFINE n == Len(pm_pgs) + 1
<1>1. /\ NewPg(b) \in Pg /\ NewPool(b) \in Pool
      /\ NewPg(b).key = b /\ NewPg(b).queries = None
      /\ ~NewPool(b).setting_up
  BY DEF NewPg, NewPool, Pg, Pool
<1>2. /\ discovered[b] # "present" /\ pools[b] \in {"none", "stopped"}
      /\ discovered' = [discovered EXCEPT ![b] = "present"]
      /\ pools' = [pools EXCEPT ![b] = "empty"]
      /\ pools \in [Backends -> PoolState]
      /\ discovered \in [Backends -> {"unseen", "present", "removed"}]
      /\ pm_pgs' = Append(pm_pgs, NewPg(b))
      /\ pm_pools' = Append(pm_pools, NewPool(b))
      /\ pm_state' = Append(pm_state, Hole)
      /\ pm_data' = Append(pm_data, Hole)
      /\ ind' = n
      /\ immediates' = Append(immediates, LastAdded)
      /\ UNCHANGED <<setups, ticks, workers, removals, interval, phase, thrown>>
  BY Arrays DEF Added, Forgotten, QInv, HInv, IInv, RestTypeOK
<1>3. /\ Len(pm_pgs') = n /\ n \in Nat
      /\ \A i \in Slots : /\ pm_pgs'[i] = pm_pgs[i]
                          /\ pm_pools'[i] = pm_pools[i]
                          /\ pm_state'[i] = pm_state[i]
                          /\ pm_data'[i] = pm_data[i]
      /\ pm_pgs'[n] = NewPg(b) /\ pm_pools'[n] = NewPool(b)
      /\ pm_state'[n] = Hole /\ pm_data'[n] = Hole
  BY <1>1, <1>2, Arrays, AppendProperties DEF Slots
<1>4. Slots' = Slots \cup {n} /\ n \notin Slots
  BY <1>3, Arrays DEF Slots
<1> HIDE DEF n
<1>5. ImmediatesInRange'
  <2> SUFFICES ASSUME NEW k \in 1..Len(immediates')
               PROVE  (IF immediates'[k] = LastAdded THEN ind'
                       ELSE immediates'[k]) \in Slots'
    BY DEF ImmediatesInRange
  <2>1. /\ Len(immediates) \in Nat /\ Len(immediates') = Len(immediates) + 1
        /\ \A j \in 1..Len(immediates) : immediates'[j] = immediates[j]
        /\ immediates'[Len(immediates) + 1] = LastAdded
    <3>1. /\ immediates \in Seq(Index \cup {LastAdded})
          /\ LastAdded \in Index \cup {LastAdded}
      BY DEF QInv, HInv, IInv, RestTypeOK
    <3> QED BY <1>2, <3>1, AppendProperties, LenProperties
  <2>2. CASE immediates'[k] = LastAdded
    BY <1>2, <1>4, <2>2
  <2>3. CASE immediates'[k] # LastAdded
    <3>1. k \in 1..Len(immediates) /\ immediates'[k] = immediates[k]
      BY <2>1, <2>3
    <3>2. immediates[k] \in Slots
      BY <2>3, <3>1 DEF QInv, QuietInv, CallbacksInv, ImmediatesInRange
    <3> QED BY <1>4, <2>3, <3>1, <3>2
  <2> QED BY <2>2, <2>3
<1>6. SetupsHoldLock' /\ LocksAreHeld'
  BY <1>1, <1>2, <1>3, <1>4
     DEF QInv, QuietInv, CallbacksInv, SetupsHoldLock, LocksAreHeld
<1>7. WorkersInv'
  BY <1>2, <1>3, <1>4
     DEF QInv, QuietInv, WorkersInv, WorkersInPlace, ErrorsAreTold, Unclaimed
<1>8. ClaimsInv'
  <2>1. \A w \in workers : w.pi \in Slots /\ (HoldsClaim(w) => w.pool \in Backends)
    BY OneWorker DEF HoldsClaim
  <2>2. HoldersOwnHandle' /\ HoldersAreUnique'
    BY <1>2, <1>3, <2>1
       DEF QInv, QuietInv, ClaimsInv, HoldersOwnHandle, HoldersAreUnique,
           HoldsClaim
  <2>3. ClaimsAreHeld'
    BY <1>2 DEF QInv, QuietInv, ClaimsInv, ClaimsAreHeld, HoldsClaim
  <2> QED BY <2>2, <2>3 DEF ClaimsInv
<1>9. StampsInv'
  <2>1. StampsAreAwaited'
    <3> SUFFICES ASSUME NEW i \in Slots', pm_state'[i] # Hole, NEW q \in Queries
                 PROVE  pm_state'[i][q] <=>
                          \E w \in workers : w.pi = i /\ q \in w.running
      BY <1>2 DEF StampsAreAwaited
    <3>1. i \in Slots /\ pm_state'[i] = pm_state[i]
      BY <1>3, <1>4
    <3> QED BY <3>1 DEF QInv, QuietInv, StampsInv, StampsAreAwaited
  <2>2. WaitersAreDisjoint'
    BY <1>2 DEF QInv, QuietInv, StampsInv, WaitersAreDisjoint
  <2> QED BY <2>1, <2>2 DEF StampsInv
<1>10. SlotsAreTracked'
  <2>1. \A i \in Slots : pm_pgs[i].key # b /\ pm_pgs[i].key \in Backends
    BY <1>2, OneSlot DEF QInv, QuietInv, SlotsAreTracked
  <2>2. \A i \in Slots' : (i \in Slots /\ pm_pgs'[i] = pm_pgs[i])
                          \/ (i = n /\ pm_pgs'[i].key = b)
    BY <1>1, <1>3, <1>4
  <2>3. \A i \in Slots : discovered[pm_pgs[i].key] = "present"
    BY DEF QInv, QuietInv, SlotsAreTracked
  <2>4. \A i \in Slots' : discovered'[pm_pgs'[i].key] = "present"
    BY <1>2, <2>1, <2>2, <2>3
  <2>5. ASSUME NEW c \in Backends, discovered'[c] = "present"
        PROVE  \E i \in Slots' : pm_pgs'[i].key = c
    <3>1. CASE c = b
      BY <1>1, <1>3, <1>4, <3>1
    <3>2. CASE c # b
      <4>1. discovered[c] = "present"
        BY <1>2, <2>5, <3>2
      <4>2. PICK i \in Slots : pm_pgs[i].key = c
        BY <4>1 DEF QInv, QuietInv, SlotsAreTracked
      <4> QED BY <1>3, <1>4, <4>2
    <3> QED BY <3>1, <3>2
  <2>6. \A i, j \in Slots' : pm_pgs'[i].key = pm_pgs'[j].key => i = j
    BY <2>1, <2>2 DEF QInv, QuietInv, SlotsAreTracked
  <2> QED BY <2>4, <2>5, <2>6 DEF SlotsAreTracked
<1>11. SamplesAreOwn'
  BY <1>1, <1>3, <1>4 DEF QInv, QuietInv, SamplesAreOwn
<1> QED BY <1>2, <1>5, <1>6, <1>7, <1>8, <1>9, <1>10, <1>11, Frames
        DEF QuietInv, CallbacksInv

(* Where the slots were before slot pi was spliced out.                    *)
Old(pi, j) == IF j < pi THEN j ELSE j + 1

LEMMA RemovalMoves ==
  ASSUME QInv, NEW pi \in Slots, RemoveConnectionData(pi)
  PROVE  /\ \A j \in Slots' : /\ Old(pi, j) \in Slots \ {pi}
                              /\ pm_pgs'[j] = pm_pgs[Old(pi, j)]
                              /\ pm_pools'[j] = pm_pools[Old(pi, j)]
                              /\ pm_state'[j] = pm_state[Old(pi, j)]
                              /\ pm_data'[j] = pm_data[Old(pi, j)]
         /\ \A j, k \in Slots' : Old(pi, j) = Old(pi, k) => j = k
         /\ \A k \in Slots \ {pi} : \E j \in Slots' : Old(pi, j) = k
<1> DEFINE Spliced(s) == \A j \in 1..(Len(s) - 1) :
             RemoveAt(s, pi)[j] = IF j < pi THEN s[j] ELSE s[j + 1]
<1>1. ASSUME NEW S, NEW s \in Seq(S), Len(s) = Len(pm_pgs)
      PROVE  Len(RemoveAt(s, pi)) = Len(pm_pgs) - 1 /\ Spliced(s)
  BY <1>1, RemoveAtProperties DEF Slots
<1> HIDE DEF Spliced
<1>2. Spliced(pm_pgs) /\ Len(RemoveAt(pm_pgs, pi)) = Len(pm_pgs) - 1
  BY <1>1, Arrays
<1>3. Spliced(pm_pools) /\ Spliced(pm_state) /\ Spliced(pm_data)
  BY <1>1, Arrays
<1>4. /\ Len(pm_pgs) \in Nat /\ pi \in 1..Len(pm_pgs)
      /\ Len(pm_pools) = Len(pm_pgs) /\ Len(pm_state) = Len(pm_pgs)
      /\ Len(pm_data) = Len(pm_pgs)
      /\ Slots = 1..Len(pm_pgs) /\ Slots' = 1..(Len(pm_pgs) - 1)
  BY <1>2, Arrays DEF Slots, RemoveConnectionData
<1>5. \A j \in Slots' : /\ pm_pgs'[j] = pm_pgs[Old(pi, j)]
                        /\ pm_pools'[j] = pm_pools[Old(pi, j)]
                        /\ pm_state'[j] = pm_state[Old(pi, j)]
                        /\ pm_data'[j] = pm_data[Old(pi, j)]
  BY <1>2, <1>3, <1>4 DEF RemoveConnectionData, Spliced, Old
<1>6. /\ \A j \in Slots' : Old(pi, j) \in Slots \ {pi}
      /\ \A j, k \in Slots' : Old(pi, j) = Old(pi, k) => j = k
  BY <1>4 DEF Old
<1>7. ASSUME NEW k \in Slots \ {pi} PROVE \E j \in Slots' : Old(pi, j) = k
  <2>1. CASE k < pi
    BY <1>4, <2>1 DEF Old
  <2>2. CASE k > pi
    <3>1. k - 1 \in Slots' /\ Old(pi, k - 1) = k
      BY <1>4, <2>2 DEF Old
    <3> QED BY <3>1
  <2> QED BY <1>4, <2>1, <2>2
<1> QED BY <1>5, <1>6, <1>7

(* At a quiet moment nothing is left that could read an index later, and   *)
(* no query of the backend is running: its data go in the same callback.   *)
LEMMA RemovedKeepsQuiet ==
  ASSUME QInv, NEW b \in Backends, Quiet(b), Removed(b)
  PROVE  QuietInv'
<1>1. workers = {} /\ setups = {} /\ immediates = <<>> /\ removals = {}
  BY DEF Quiet
<1>2. PICK i \in Slots : pm_pgs[i].key = b
  BY DEF Removed, QInv, QuietInv, SlotsAreTracked
<1>3. i \in DOMAIN pm_pools /\ pm_pools[i].key = b
  BY <1>2, Arrays, OneSlot
<1>4. PICK pi \in DOMAIN pm_pools :
        /\ pm_pools[pi].key = b
        /\ \/ /\ pm_state[pi] = Hole
              /\ Throw("is_running")
           \/ /\ pm_state[pi] # Hole
              /\ discovered' = [discovered EXCEPT ![b] = "removed"]
              /\ pools' = [pools EXCEPT ![b] = StopPool(@)]
              /\ IF IsRunning(pi)
                 THEN /\ removals' = removals \cup
                           {[key |-> b, pi |-> pi, backoffs |-> 1]}
                      /\ UNCHANGED slots
                 ELSE /\ RemoveConnectionData(pi)
                      /\ UNCHANGED removals
              /\ UNCHANGED <<ind, immediates, setups, ticks, workers,
                             interval, phase, thrown>>
  BY <1>3 DEF Removed
<1>5. pi \in Slots /\ pm_state[pi] # Hole
  <2>1. pi \in Slots
    BY Arrays
  <2>2. ~pm_pools[pi].needs_setup
    BY <1>4, <2>1, Arrays DEF Quiet
  <2> QED BY <2>1, <2>2, OneSlot DEF HasQueries
<1>6. ~IsRunning(pi)
  BY <1>1, <1>5 DEF IsRunning, QInv, QuietInv, StampsInv, StampsAreAwaited
<1>7. /\ discovered' = [discovered EXCEPT ![b] = "removed"]
      /\ discovered \in [Backends -> {"unseen", "present", "removed"}]
      /\ pools' = [pools EXCEPT ![b] = StopPool(@)]
      /\ pools \in [Backends -> PoolState]
      /\ RemoveConnectionData(pi)
      /\ UNCHANGED <<ind, immediates, setups, ticks, workers, removals,
                     interval, phase, thrown>>
  BY <1>4, <1>5, <1>6 DEF QInv, HInv, IInv, RestTypeOK
<1>8. /\ \A j \in Slots' : /\ Old(pi, j) \in Slots \ {pi}
                           /\ pm_pgs'[j] = pm_pgs[Old(pi, j)]
                           /\ pm_pools'[j] = pm_pools[Old(pi, j)]
                           /\ pm_state'[j] = pm_state[Old(pi, j)]
                           /\ pm_data'[j] = pm_data[Old(pi, j)]
      /\ \A j, k \in Slots' : Old(pi, j) = Old(pi, k) => j = k
      /\ \A k \in Slots \ {pi} : \E j \in Slots' : Old(pi, j) = k
  BY <1>5, <1>7, RemovalMoves
<1>9. CallbacksInv'
  <2>1. Len(immediates') = 0
    BY <1>1, <1>7, EmptySeq
  <2> QED BY <1>1, <1>7, <1>8, <2>1
        DEF QInv, QuietInv, CallbacksInv, ImmediatesInRange, SetupsHoldLock,
            LocksAreHeld
<1>10. WorkersInv'
  BY <1>1, <1>7 DEF WorkersInv, WorkersInPlace, ErrorsAreTold
<1>11. ClaimsInv'
  <2>1. \A c \in Backends : pools[c] \notin {"claimed", "stopping"}
    BY <1>1 DEF QInv, QuietInv, ClaimsInv, ClaimsAreHeld
  <2>2. \A c \in Backends : pools'[c] \notin {"claimed", "stopping"}
    BY <1>7, <2>1 DEF StopPool
  <2> QED BY <1>1, <1>7, <2>2
        DEF ClaimsInv, ClaimsAreHeld, HoldersOwnHandle, HoldersAreUnique
<1>12. StampsInv'
  BY <1>1, <1>7, <1>8
     DEF QInv, QuietInv, StampsInv, StampsAreAwaited, WaitersAreDisjoint
<1>13. SlotsAreTracked'
  <2>1. \A k \in Slots \ {pi} : pm_pgs[k].key \in Backends \ {b}
    BY <1>4, <1>5, OneSlot DEF QInv, QuietInv, SlotsAreTracked
  <2>2. pm_pgs[pi].key = b
    BY <1>4, <1>5, OneSlot
  <2>3. \A j \in Slots' : discovered'[pm_pgs'[j].key] = "present"
    BY <1>7, <1>8, <2>1 DEF QInv, QuietInv, SlotsAreTracked
  <2>4. ASSUME NEW c \in Backends, discovered'[c] = "present"
        PROVE  \E j \in Slots' : pm_pgs'[j].key = c
    <3>1. c # b /\ discovered[c] = "present"
      BY <1>7, <2>4
    <3>2. PICK k \in Slots : pm_pgs[k].key = c
      BY <3>1 DEF QInv, QuietInv, SlotsAreTracked
    <3> QED BY <1>8, <2>2, <3>1, <3>2
  <2>5. \A j, k \in Slots' : pm_pgs'[j].key = pm_pgs'[k].key => j = k
    BY <1>8 DEF QInv, QuietInv, SlotsAreTracked
  <2> QED BY <2>3, <2>4, <2>5 DEF SlotsAreTracked
<1>14. SamplesAreOwn'
  BY <1>8 DEF QInv, QuietInv, SamplesAreOwn
<1> QED BY <1>7, <1>9, <1>10, <1>11, <1>12, <1>13, <1>14, Frames DEF QuietInv

(* A worker without a claim or queries goes, or changes into such a one.   *)
LEMMA IdleWorkerKeepsQuiet ==
  ASSUME QInv, NEW w \in workers, w.running = {}, ~HoldsClaim(w),
         NEW v, v.pi = w.pi, v.running = {}, ~HoldsClaim(v),
         workers' \subseteq (workers \ {w}) \cup {v}, workers \ {w} \subseteq workers',
         UNCHANGED <<slots, pools>>
  PROVE  ClaimsInv' /\ StampsInv'
<1>1. \A u \in workers' : HoldsClaim(u) => u \in workers
  OBVIOUS
<1>2. \A u \in workers : HoldsClaim(u) => u \in workers'
  OBVIOUS
<1>3. ClaimsInv'
  BY <1>1, <1>2
     DEF QInv, QuietInv, ClaimsInv, HoldersOwnHandle, HoldersAreUnique,
         ClaimsAreHeld, HoldsClaim, slots
<1>4. \A q : \A u \in workers' : q \in u.running => u \in workers
  OBVIOUS
<1>5. \A q : \A u \in workers : q \in u.running => u \in workers'
  OBVIOUS
<1>6. StampsAreAwaited'
  BY <1>4, <1>5 DEF QInv, QuietInv, StampsInv, StampsAreAwaited, Slots, slots
<1>7. WaitersAreDisjoint'
  BY DEF QInv, QuietInv, StampsInv, WaitersAreDisjoint
<1> QED BY <1>3, <1>6, <1>7 DEF StampsInv

LEMMA StartKeepsQuiet ==
  ASSUME QInv, NEW w \in workers, StartWorker(w)
  PROVE  QuietInv'
<1> DEFINE v == [w EXCEPT !.stage = "claiming", !.pool = pm_pools[w.pi].key]
<1>1. /\ w.stage = "queued" /\ w.running = {} /\ w.pi \in Slots /\ w \in Worker
      /\ ~HoldsClaim(w) /\ w.errors \in Seq({"timeout", "query"}) /\ ~w.gone
  <2>1. w.stage = "queued" /\ w.pi \in Slots /\ w \in Worker /\ w.running = {}
    BY OneWorker DEF StartWorker
  <2> QED BY <2>1 DEF QInv, QuietInv, WorkersInv, ErrorsAreTold, Unclaimed,
                      HoldsClaim
<1>2. /\ v.stage = "claiming" /\ v.pool = pm_pools[w.pi].key /\ v.pi = w.pi
      /\ v.running = {} /\ v.errors = w.errors /\ v.gone = w.gone
      /\ ~HoldsClaim(v)
  BY <1>1 DEF Worker, HoldsClaim
<1>3. /\ \/ /\ immediates' = Append(immediates, w.pi)
            /\ workers' = workers \ {w}
         \/ /\ ~pm_pools[w.pi].needs_setup
            /\ UNCHANGED immediates
            /\ workers' = (workers \ {w}) \cup {v}
      /\ UNCHANGED <<slots, ind, setups, ticks, removals, discovered, pools,
                     interval, phase, thrown>>
  <2>1. InRange(w.pi)
    BY <1>1, Arrays
  <2> QED BY <2>1 DEF StartWorker, UpdateWorker
<1> HIDE DEF v
<1>4. ClaimsInv' /\ StampsInv'
  BY <1>1, <1>2, <1>3, IdleWorkerKeepsQuiet
<1>5. WorkersInv'
  BY <1>1, <1>2, <1>3
     DEF QInv, QuietInv, WorkersInv, WorkersInPlace, ErrorsAreTold, Unclaimed,
         Slots, slots
<1>6. CallbacksInv'
  <2>1. CASE UNCHANGED immediates
    BY <1>3, <2>1, Frames DEF slots
  <2>2. CASE immediates' = Append(immediates, w.pi)
    <3>1. immediates \in Seq(Index \cup {LastAdded}) /\ w.pi \in Index \cup {LastAdded}
      BY <1>1 DEF QInv, HInv, IInv, RestTypeOK, Worker
    <3>2. /\ Len(immediates') = Len(immediates) + 1 /\ Len(immediates) \in Nat
          /\ \A k \in 1..Len(immediates) : immediates'[k] = immediates[k]
          /\ immediates'[Len(immediates) + 1] = w.pi
      BY <2>2, <3>1, AppendProperties, LenProperties
    <3>3. w.pi # LastAdded
      BY <1>1, Arrays DEF Slots, LastAdded
    <3>4. \A k \in 1..Len(immediates') : k \in 1..Len(immediates) \/ k = Len(immediates) + 1
      BY <3>2
    <3>5. Slots' = Slots /\ ind' = ind
      BY <1>3 DEF Slots, slots
    <3>6. ImmediatesInRange'
      BY <1>1, <3>2, <3>3, <3>4, <3>5
         DEF QInv, QuietInv, CallbacksInv, ImmediatesInRange
    <3>7. SetupsHoldLock' /\ LocksAreHeld'
      BY <1>3, <3>5
         DEF QInv, QuietInv, CallbacksInv, SetupsHoldLock, LocksAreHeld, slots
    <3> QED BY <3>6, <3>7 DEF CallbacksInv
  <2> QED BY <1>3, <2>1, <2>2
<1> QED BY <1>3, <1>4, <1>5, <1>6, Frames DEF QuietInv, slots

LEMMA ClaimFailsKeepsQuiet ==
  ASSUME QInv, NEW w \in workers, ClaimFails(w)
  PROVE  QuietInv'
<1> DEFINE v == [w EXCEPT !.stage = "querying", !.errors = <<"connect">>]
<1>1. w.stage = "claiming" /\ w.running = {} /\ w \in Worker /\ ~HoldsClaim(w)
  BY OneWorker DEF ClaimFails, HoldsClaim
<1>2. /\ v.pi = w.pi /\ v.running = {} /\ ~HoldsClaim(v) /\ Unclaimed(v)
      /\ v.pool = w.pool
  BY <1>1 DEF Worker, HoldsClaim, Unclaimed
<1>3. /\ workers' = (workers \ {w}) \cup {v}
      /\ UNCHANGED <<slots, ind, immediates, setups, ticks, removals,
                     discovered, pools, interval, phase, thrown>>
  BY DEF ClaimFails, UpdateWorker
<1> HIDE DEF v
<1>4. ClaimsInv' /\ StampsInv'
  BY <1>1, <1>2, <1>3, IdleWorkerKeepsQuiet
<1>5. WorkersInv'
  BY <1>1, <1>2, <1>3
     DEF QInv, QuietInv, WorkersInv, WorkersInPlace, ErrorsAreTold, Unclaimed,
         Slots, slots
<1> QED BY <1>3, <1>4, <1>5, Frames DEF QuietInv, slots

LEMMA ClaimGrantedKeepsQuiet ==
  ASSUME QInv, NEW w \in workers, ClaimGranted(w)
  PROVE  QuietInv'
<1> DEFINE pi == w.pi
           pg == [pm_pgs[pi] EXCEPT !.handle = w.pool]
           state == [q \in Queries |-> TRUE]
           v == [w EXCEPT !.stage = "querying",
                          !.running = {q \in Queries : ~pm_state[pi][q]}]
<1>1. /\ w.stage = "claiming" /\ w.running = {} /\ w \in Worker
      /\ pi \in Slots /\ HasQueries(pi) /\ w.pool \in Backends
      /\ w.pool = pm_pgs[pi].key /\ pools[w.pool] = "idle"
      /\ w.errors \in Seq({"timeout", "query"}) /\ ~w.gone /\ ~HoldsClaim(w)
      /\ ~pm_pools[pi].needs_setup
  <2>1. w.stage = "claiming" /\ pools[w.pool] = "idle"
    BY DEF ClaimGranted
  <2> QED BY <2>1, OneWorker
          DEF QInv, QuietInv, WorkersInv, ErrorsAreTold, Unclaimed, HoldsClaim
<1>2. /\ v.stage = "querying" /\ v.pi = pi /\ v.pool = w.pool
      /\ v.running = {q \in Queries : ~pm_state[pi][q]}
      /\ v.errors = w.errors /\ ~v.gone
  BY <1>1 DEF Worker
<1>3. HoldsClaim(v)
  BY <1>1, <1>2, PlainErrors DEF HoldsClaim
<1>4. /\ pools' = [pools EXCEPT ![w.pool] = "claimed"]
      /\ pools \in [Backends -> PoolState]
      /\ pm_pgs' = [pm_pgs EXCEPT ![pi] = pg]
      /\ workers' = (workers \ {w}) \cup {v}
      /\ pm_state' = [pm_state EXCEPT ![pi] = state]
      /\ UNCHANGED <<pm_pools, pm_data, ind, immediates, setups, ticks,
                     removals, discovered, interval, phase, thrown>>
  BY <1>1 DEF ClaimGranted, UpdateWorker, QInv, HInv, IInv, RestTypeOK
<1>5. /\ pg \in Pg /\ pg.key = pm_pgs[pi].key /\ pg.handle = w.pool
      /\ pg.queries = pm_pgs[pi].queries
  <2>1. pm_pgs[pi] \in Pg
    BY <1>1, OneSlot
  <2> QED BY <1>1, <2>1 DEF Pg
<1>6. state \in QueryStates \cup {Hole} /\ \A q \in Queries : state[q]
  BY DEF QueryStates
<1> HIDE DEF pi, pg, state, v
<1>7. /\ Len(pm_pgs') = Len(pm_pgs) /\ Slots' = Slots
      /\ \A i \in Slots : pm_pgs'[i] = IF i = pi THEN pg ELSE pm_pgs[i]
      /\ \A i \in Slots : pm_state'[i] = IF i = pi THEN state ELSE pm_state[i]
  <2>1. /\ Len(pm_pgs') = Len(pm_pgs)
        /\ \A i \in Slots : pm_pgs'[i] = IF i = pi THEN pg ELSE pm_pgs[i]
    BY <1>1, <1>4, <1>5, Arrays, ExceptSeq DEF Slots
  <2>2. \A i \in Slots : pm_state'[i] = IF i = pi THEN state ELSE pm_state[i]
    BY <1>1, <1>4, <1>6, Arrays, ExceptSeq DEF Slots
  <2> QED BY <2>1, <2>2 DEF Slots
<1>8. /\ \A i \in Slots : /\ pm_pgs'[i].key = pm_pgs[i].key
                          /\ pm_pgs'[i].queries = pm_pgs[i].queries
  BY <1>5, <1>7
<1>9. CallbacksInv'
  BY <1>4, <1>7
     DEF QInv, QuietInv, CallbacksInv, ImmediatesInRange, SetupsHoldLock,
         LocksAreHeld
<1>10. WorkersInv'
  <2>1. WorkersInPlace'
    BY <1>1, <1>2, <1>4, <1>7, OneSlot
       DEF QInv, QuietInv, WorkersInv, WorkersInPlace
  <2>2. ErrorsAreTold'
    BY <1>1, <1>2, <1>4
       DEF QInv, QuietInv, WorkersInv, ErrorsAreTold, Unclaimed
  <2> QED BY <2>1, <2>2 DEF WorkersInv
<1>11. ClaimsInv'
  <2>1. ASSUME NEW u \in workers, HoldsClaim(u)
        PROVE  /\ u.pool # w.pool /\ u.pi # pi /\ u.pi \in Slots
               /\ u.pool \in Backends /\ pools[u.pool] = "claimed"
               /\ pm_pgs[u.pi].handle = u.pool
    <3>1. pools[u.pool] = "claimed" /\ pm_pgs[u.pi].handle = u.pool
      BY <2>1 DEF QInv, QuietInv, ClaimsInv, HoldersOwnHandle
    <3>2. u.pool = pm_pgs[u.pi].key /\ u.pi \in Slots /\ u.pool \in Backends
      BY <2>1, OneWorker DEF HoldsClaim
    <3> QED BY <1>1, <3>1, <3>2 DEF pi
  <2>2. \A u \in workers' : HoldsClaim(u) => u = v \/ u \in workers
    BY <1>4
  <2>3. HoldersOwnHandle'
    BY <1>1, <1>2, <1>4, <1>5, <1>7, <2>1, <2>2 DEF HoldersOwnHandle, HoldsClaim
  <2>4. HoldersAreUnique'
    BY <1>2, <2>1, <2>2
       DEF QInv, QuietInv, ClaimsInv, HoldersAreUnique, HoldsClaim
  <2>5. ASSUME NEW b \in Backends
        PROVE  /\ pools'[b] # "stopping"
               /\ pools'[b] = "claimed" =>
                    \E u \in workers' : HoldsClaim(u) /\ u.pool = b
    <3>1. CASE b = w.pool
      BY <1>2, <1>3, <1>4, <3>1
    <3>2. CASE b # w.pool
      <4>1. pools'[b] = pools[b]
        BY <1>4, <3>2
      <4>2. /\ pools[b] # "stopping"
            /\ pools[b] = "claimed" =>
                 \E u \in workers : HoldsClaim(u) /\ u.pool = b
        BY DEF QInv, QuietInv, ClaimsInv, ClaimsAreHeld
      <4> QED BY <1>1, <1>4, <4>1, <4>2
    <3> QED BY <3>1, <3>2
  <2>6. ClaimsAreHeld'
    BY <2>5 DEF ClaimsAreHeld, HoldsClaim
  <2> QED BY <2>3, <2>4, <2>6 DEF ClaimsInv
<1>12. StampsInv'
  <2>1. pm_state[pi] # Hole
    BY <1>1, OneSlot DEF HasQueries
  <2>2. \A q \in Queries :
          pm_state[pi][q] <=> \E u \in workers : u.pi = pi /\ q \in u.running
    BY <1>1, <2>1 DEF QInv, QuietInv, StampsInv, StampsAreAwaited
  <2>3. ASSUME NEW i \in Slots, pm_state'[i] # Hole, NEW q \in Queries
        PROVE  pm_state'[i][q] <=> \E u \in workers' : u.pi = i /\ q \in u.running
    <3>1. CASE i = pi
      <4>1. pm_state'[i][q]
        BY <1>6, <1>7, <3>1
      <4>2. \E u \in workers' : u.pi = pi /\ q \in u.running
        <5>1. CASE pm_state[pi][q]
          BY <1>1, <1>4, <2>2, <5>1
        <5>2. CASE ~pm_state[pi][q]
          BY <1>2, <1>4, <5>2
        <5> QED BY <5>1, <5>2
      <4> QED BY <3>1, <4>1, <4>2
    <3>2. CASE i # pi
      <4>1. pm_state'[i] = pm_state[i]
        BY <1>7, <3>2
      <4>2. pm_state[i][q] <=> \E u \in workers : u.pi = i /\ q \in u.running
        BY <2>3, <4>1 DEF QInv, QuietInv, StampsInv, StampsAreAwaited
      <4> QED BY <1>1, <1>2, <1>4, <3>2, <4>1, <4>2
    <3> QED BY <3>1, <3>2
  <2>4. \A u \in workers : u.pi = pi => v.running \cap u.running = {}
    <3> SUFFICES ASSUME NEW u \in workers, u.pi = pi, NEW q \in u.running
                 PROVE  q \notin v.running
      OBVIOUS
    <3>1. q \in Queries
      BY OneWorker
    <3> QED BY <1>2, <2>2, <3>1
  <2>5. WaitersAreDisjoint'
    BY <1>2, <1>4, <2>4 DEF QInv, QuietInv, StampsInv, WaitersAreDisjoint
  <2> QED BY <1>7, <2>3, <2>5 DEF StampsInv, StampsAreAwaited
<1>13. SlotsAreTracked'
  BY <1>4, <1>7, <1>8 DEF QInv, QuietInv, SlotsAreTracked
<1>14. SamplesAreOwn'
  BY <1>4, <1>7, <1>8 DEF QInv, QuietInv, SamplesAreOwn
<1> QED BY <1>4, <1>9, <1>10, <1>11, <1>12, <1>13, <1>14, Frames DEF QuietInv

(* What the two query listeners have in common: w no longer waits for q.   *)
LEMMA QueryLeavesKeepsQuiet ==
  ASSUME QInv, NEW w \in workers, NEW q \in w.running,
         NEW v, v.stage = "querying", v.pi = w.pi, v.pool = w.pool,
         v.running = w.running \ {q}, ~v.gone,
         v.errors \in Seq({"timeout", "query"}),
         workers' = (workers \ {w}) \cup {v},
         pm_state' = [pm_state EXCEPT ![w.pi][q] = FALSE],
         UNCHANGED <<pm_pgs, pm_pools, pools>>
  PROVE  WorkersInv' /\ ClaimsInv' /\ StampsInv'
<1> DEFINE pi == w.pi
           state == [pm_state[pi] EXCEPT ![q] = FALSE]
<1>1. /\ w.stage = "querying" /\ HoldsClaim(w) /\ HoldsClaim(v) /\ pi \in Slots
      /\ pm_state[pi] # Hole /\ q \in Queries
  BY OneWorker, OneSlot, PlainErrors DEF HoldsClaim, HasQueries
<1>2. pm_state[pi] \in QueryStates
  BY <1>1, OneSlot
<1>3. /\ state \in QueryStates \cup {Hole} /\ ~state[q]
      /\ \A p \in Queries \ {q} : state[p] = pm_state[pi][p]
  BY <1>1, <1>2 DEF QueryStates
<1>4. pm_state' = [pm_state EXCEPT ![pi] = state]
  OBVIOUS
<1> HIDE DEF pi, state
<1>5. /\ Slots' = Slots
      /\ \A i \in Slots : pm_state'[i] = IF i = pi THEN state ELSE pm_state[i]
  BY <1>1, <1>3, <1>4, Arrays, ExceptSeq DEF Slots
<1>6. WorkersInv'
  BY <1>1, <1>5
     DEF QInv, QuietInv, WorkersInv, WorkersInPlace, ErrorsAreTold, Unclaimed
<1>7. ClaimsInv'
  <2>1. HoldersOwnHandle' /\ HoldersAreUnique'
    BY <1>1 DEF QInv, QuietInv, ClaimsInv, HoldersOwnHandle, HoldersAreUnique,
                HoldsClaim
  <2>2. ClaimsAreHeld'
    <3> SUFFICES ASSUME NEW b \in Backends
                 PROVE  /\ pools[b] # "stopping"
                        /\ pools[b] = "claimed" =>
                             \E u \in workers' : HoldsClaim(u) /\ u.pool = b
      BY DEF ClaimsAreHeld, HoldsClaim
    <3> QED BY <1>1 DEF QInv, QuietInv, ClaimsInv, ClaimsAreHeld
  <2> QED BY <2>1, <2>2 DEF ClaimsInv
<1>8. \A u \in workers : u # w /\ u.pi = pi => u.running \cap w.running = {}
  BY DEF QInv, QuietInv, StampsInv, WaitersAreDisjoint, pi
<1>9. ASSUME NEW i \in Slots, pm_state'[i] # Hole, NEW p \in Queries
      PROVE  pm_state'[i][p] <=> \E u \in workers' : u.pi = i /\ p \in u.running
  <2>1. pm_state[i] # Hole
    BY <1>1, <1>5, <1>9
  <2>2. pm_state[i][p] <=> \E u \in workers : u.pi = i /\ p \in u.running
    BY <2>1 DEF QInv, QuietInv, StampsInv, StampsAreAwaited
  <2>3. CASE i = pi /\ p = q
    <3>1. ~pm_state'[i][p]
      BY <1>3, <1>5, <2>3
    <3> QED BY <1>8, <2>3, <3>1
  <2>4. CASE i # pi \/ p # q
    <3>1. pm_state'[i][p] = pm_state[i][p]
      BY <1>3, <1>5, <2>4
    <3>2. \A u \in {w, v} : u.pi = i /\ p \in u.running => i = pi
      BY DEF pi
    <3> QED BY <2>2, <2>4, <3>1, <3>2
  <2> QED BY <2>3, <2>4
<1>10. WaitersAreDisjoint'
  BY <1>8 DEF QInv, QuietInv, StampsInv, WaitersAreDisjoint, pi
<1> QED BY <1>5, <1>6, <1>7, <1>9, <1>10 DEF StampsInv, StampsAreAwaited

LEMMA QueryErrorKeepsQuiet ==
  ASSUME QInv, NEW w \in workers, NEW q \in Queries,
         NEW kind \in {"timeout", "query"}, QueryError(w, q, kind)
  PROVE  QuietInv'
<1> DEFINE v == [w EXCEPT !.running = @ \ {q}, !.errors = Append(@, kind)]
<1>1. /\ q \in w.running /\ w \in Worker /\ w.stage = "querying"
      /\ HasQueries(w.pi) /\ ~w.gone
      /\ w.errors \in Seq({"timeout", "query"})
  <2>1. q \in w.running
    BY DEF QueryError
  <2> QED BY <2>1, OneWorker
          DEF QInv, QuietInv, WorkersInv, ErrorsAreTold, Unclaimed
<1>2. /\ v.stage = "querying" /\ v.pi = w.pi /\ v.pool = w.pool
      /\ v.running = w.running \ {q} /\ ~v.gone
      /\ v.errors = Append(w.errors, kind)
  BY <1>1 DEF Worker
<1>3. v.errors \in Seq({"timeout", "query"})
  BY <1>1, <1>2, AppendProperties
<1>4. /\ pm_state' = [pm_state EXCEPT ![w.pi][q] = FALSE]
      /\ workers' = (workers \ {w}) \cup {v}
      /\ UNCHANGED <<pm_pgs, pm_pools, pm_data, ind, immediates, setups, ticks,
                     removals, discovered, pools, interval, phase, thrown>>
  BY <1>1 DEF QueryError, UpdateWorker
<1> HIDE DEF v
<1>5. WorkersInv' /\ ClaimsInv' /\ StampsInv'
  BY <1>1, <1>2, <1>3, <1>4, QueryLeavesKeepsQuiet
<1> QED BY <1>4, <1>5, Frames DEF QuietInv

(* The rows that are kept come from the claimed backend, whose slot it is. *)
LEMMA QueryEndKeepsQuiet ==
  ASSUME QInv, NEW w \in workers, NEW q \in Queries, NEW rows \in BOOLEAN,
         QueryEnd(w, q, rows)
  PROVE  QuietInv'
<1> DEFINE v == [w EXCEPT !.running = @ \ {q}]
           data == [pm_data[w.pi] EXCEPT ![q] = w.pool]
<1>1. /\ q \in w.running /\ w \in Worker /\ w.stage = "querying"
      /\ HasQueries(w.pi) /\ ~w.gone /\ w.pi \in Slots
      /\ w.pool \in Backends /\ w.pool = pm_pgs[w.pi].key
      /\ w.errors \in Seq({"timeout", "query"})
  <2>1. q \in w.running
    BY DEF QueryEnd
  <2> QED BY <2>1, OneWorker
          DEF QInv, QuietInv, WorkersInv, ErrorsAreTold, Unclaimed
<1>2. /\ v.stage = "querying" /\ v.pi = w.pi /\ v.pool = w.pool
      /\ v.running = w.running \ {q} /\ ~v.gone /\ v.errors = w.errors
  BY <1>1 DEF Worker
<1>3. /\ pm_state' = [pm_state EXCEPT ![w.pi][q] = FALSE]
      /\ workers' = (workers \ {w}) \cup {v}
      /\ \/ pm_data' = [pm_data EXCEPT ![w.pi] = data]
         \/ UNCHANGED pm_data
      /\ UNCHANGED <<pm_pgs, pm_pools, ind, immediates, setups, ticks,
                     removals, discovered, pools, interval, phase, thrown>>
  BY <1>1 DEF QueryEnd, UpdateWorker
<1>4. pm_data[w.pi] \in DataPoints /\ pm_data[w.pi] # Hole
  BY <1>1, OneSlot DEF HasQueries
<1>5. /\ data \in DataPoints \cup {Hole}
      /\ \A p \in Queries : data[p] = IF p = q THEN w.pool ELSE pm_data[w.pi][p]
  BY <1>1, <1>4 DEF DataPoints
<1> HIDE DEF v, data
<1>6. WorkersInv' /\ ClaimsInv' /\ StampsInv'
  BY <1>1, <1>2, <1>3, QueryLeavesKeepsQuiet
<1>7. SamplesAreOwn'
  <2>1. CASE UNCHANGED pm_data
    BY <1>3, <2>1, Frames
  <2>2. CASE pm_data' = [pm_data EXCEPT ![w.pi] = data]
    <3>1. \A i \in Slots : pm_data'[i] = IF i = w.pi THEN data ELSE pm_data[i]
      BY <1>1, <1>5, <2>2, Arrays, ExceptSeq DEF Slots
    <3>2. Slots' = Slots
      BY <1>3 DEF Slots
    <3> QED BY <1>1, <1>3, <1>4, <1>5, <3>1, <3>2
            DEF QInv, QuietInv, SamplesAreOwn
  <2> QED BY <1>3, <2>1, <2>2
<1> QED BY <1>3, <1>6, <1>7, Frames DEF QuietInv

(* u is what has become of v when connection h was given up.               *)
Outlives(u, v, h) ==
  \/ u = v
  \/ /\ v.pool = h /\ v.stage = "querying"
     /\ u = [v EXCEPT !.gone = TRUE]

(* The holder w of connection h is done, by closing or by releasing h.     *)
LEMMA GiveUpKeepsQuiet ==
  ASSUME QInv, NEW w \in workers, HoldsClaim(w), w.running = {},
         NEW h, h = w.pool, NEW connection \in {"empty", "idle"},
         pools' = [pools EXCEPT ![h] = connection],
         Len(pm_pgs') = Len(pm_pgs),
         \A i \in Slots :
           /\ pm_pgs'[i].key = pm_pgs[i].key
           /\ pm_pgs'[i].queries = pm_pgs[i].queries
           /\ pm_pgs[i].handle # h => pm_pgs'[i].handle = pm_pgs[i].handle,
         \A u \in workers' : \E v \in workers \ {w} : Outlives(u, v, h),
         \A v \in workers \ {w} : \E u \in workers' : Outlives(u, v, h),
         UNCHANGED <<pm_pools, pm_state, pm_data, ind, immediates, setups,
                     removals, discovered, thrown>>
  PROVE  QuietInv'
<1>1. /\ pools[h] = "claimed" /\ h \in Backends
      /\ pools \in [Backends -> PoolState] /\ Slots' = Slots
  BY OneWorker
     DEF QInv, QuietInv, ClaimsInv, HoldersOwnHandle, HoldsClaim, HInv, IInv,
         RestTypeOK, Slots
<1>2. ASSUME NEW u \in workers', NEW v \in workers \ {w}, Outlives(u, v, h)
      PROVE  /\ u.pi = v.pi /\ u.pool = v.pool /\ u.stage = v.stage
             /\ u.running = v.running /\ u.errors = v.errors
             /\ u = v \/ (~HoldsClaim(v) /\ Unclaimed(v))
  <2>1. v \in Worker
    BY OneWorker
  <2>2. v.pool = h /\ v.stage = "querying" => ~HoldsClaim(v) /\ Unclaimed(v)
    <3>1. v.pool = h => ~HoldsClaim(v)
      BY DEF QInv, QuietInv, ClaimsInv, HoldersAreUnique
    <3>2. Unclaimed(v) \/ v.errors \in Seq({"timeout", "query"})
      BY DEF QInv, QuietInv, WorkersInv, ErrorsAreTold
    <3> QED BY <3>1, <3>2, PlainErrors DEF HoldsClaim
  <2> QED BY <1>2, <2>1, <2>2 DEF Outlives, Worker
<1>3. ASSUME NEW u \in workers', HoldsClaim(u)
      PROVE  u \in workers \ {w} /\ u.pool # h
  <2>1. PICK v \in workers \ {w} : Outlives(u, v, h)
    OBVIOUS
  <2>2. u = v
    BY <1>2, <1>3, <2>1 DEF HoldsClaim
  <2> QED BY <1>3, <2>2 DEF QInv, QuietInv, ClaimsInv, HoldersAreUnique
<1>4. ASSUME NEW v \in workers, HoldsClaim(v), v.pool # h
      PROVE  v \in workers'
  <2>1. PICK u \in workers' : Outlives(u, v, h)
    BY <1>4
  <2> QED BY <1>4, <2>1 DEF Outlives
<1>5. WorkersInv'
  <2> SUFFICES ASSUME NEW u \in workers'
               PROVE  /\ u.pi \in Slots
                      /\ u.stage # "queued" => /\ ~pm_pools[u.pi].needs_setup
                                               /\ u.pool = pm_pools[u.pi].key
                      /\ \/ Unclaimed(u)
                         \/ u.errors \in Seq({"timeout", "query"}) /\ ~u.gone
    BY <1>1 DEF WorkersInv, WorkersInPlace, ErrorsAreTold, Unclaimed
  <2>1. PICK v \in workers \ {w} : Outlives(u, v, h)
    OBVIOUS
  <2>2. /\ v.pi \in Slots
        /\ v.stage # "queued" => /\ ~pm_pools[v.pi].needs_setup
                                 /\ v.pool = pm_pools[v.pi].key
        /\ Unclaimed(v) \/ (v.errors \in Seq({"timeout", "query"}) /\ ~v.gone)
    BY DEF QInv, QuietInv, WorkersInv, WorkersInPlace, ErrorsAreTold
  <2> QED BY <1>2, <2>1, <2>2 DEF Unclaimed
<1>6. ClaimsInv'
  <2>1. HoldersOwnHandle'
    <3> SUFFICES ASSUME NEW u \in workers', HoldsClaim(u)
                 PROVE  pm_pgs'[u.pi].handle = u.pool /\ pools'[u.pool] = "claimed"
      BY DEF HoldersOwnHandle, HoldsClaim
    <3>1. u \in workers /\ u.pool # h
      BY <1>3
    <3>2. u.pi \in Slots /\ u.pool \in Backends
      BY <3>1, OneWorker DEF HoldsClaim
    <3>3. pm_pgs[u.pi].handle = u.pool /\ pools[u.pool] = "claimed"
      BY <3>1 DEF QInv, QuietInv, ClaimsInv, HoldersOwnHandle
    <3> QED BY <1>1, <3>1, <3>2, <3>3
  <2>2. HoldersAreUnique'
    BY <1>3 DEF QInv, QuietInv, ClaimsInv, HoldersAreUnique, HoldsClaim
  <2>3. ClaimsAreHeld'
    <3> SUFFICES ASSUME NEW b \in Backends
                 PROVE  /\ pools'[b] # "stopping"
                        /\ pools'[b] = "claimed" =>
                             \E u \in workers' : HoldsClaim(u) /\ u.pool = b
      BY DEF ClaimsAreHeld, HoldsClaim
    <3>1. CASE b = h
      BY <1>1, <3>1
    <3>2. CASE b # h
      <4>1. pools'[b] = pools[b]
        BY <1>1, <3>2
      <4> QED BY <1>4, <3>2, <4>1 DEF QInv, QuietInv, ClaimsInv, ClaimsAreHeld
    <3> QED BY <3>1, <3>2
  <2> QED BY <2>1, <2>2, <2>3 DEF ClaimsInv
<1>7. StampsInv'
  <2>1. \A i : \A q :
          (\E v \in workers : v.pi = i /\ q \in v.running)
            <=> (\E u \in workers' : u.pi = i /\ q \in u.running)
    <3> SUFFICES ASSUME NEW i, NEW q
                 PROVE  (\E v \in workers : v.pi = i /\ q \in v.running)
                          <=> (\E u \in workers' : u.pi = i /\ q \in u.running)
      OBVIOUS
    <3>1. ASSUME NEW v \in workers, v.pi = i, q \in v.running
          PROVE  \E u \in workers' : u.pi = i /\ q \in u.running
      <4>1. v \in workers \ {w}
        BY <3>1
      <4>2. PICK u \in workers' : Outlives(u, v, h)
        BY <4>1
      <4> QED BY <1>2, <3>1, <4>1, <4>2
    <3>2. ASSUME NEW u \in workers', u.pi = i, q \in u.running
          PROVE  \E v \in workers : v.pi = i /\ q \in v.running
      <4>1. PICK v \in workers \ {w} : Outlives(u, v, h)
        OBVIOUS
      <4> QED BY <1>2, <3>2, <4>1
    <3> QED BY <3>1, <3>2
  <2>2. StampsAreAwaited'
    <3> SUFFICES ASSUME NEW i \in Slots, pm_state[i] # Hole, NEW q \in Queries
                 PROVE  pm_state[i][q] <=>
                          \E u \in workers' : u.pi = i /\ q \in u.running
      BY <1>1 DEF StampsAreAwaited
    <3>1. pm_state[i][q] <=> \E v \in workers : v.pi = i /\ q \in v.running
      BY DEF QInv, QuietInv, StampsInv, StampsAreAwaited
    <3>2. (\E v \in workers : v.pi = i /\ q \in v.running)
            <=> (\E u \in workers' : u.pi = i /\ q \in u.running)
      BY <2>1
    <3> QED BY <3>1, <3>2
  <2>3. WaitersAreDisjoint'
    <3> SUFFICES ASSUME NEW t \in workers', NEW u \in workers', t # u, t.pi = u.pi
                 PROVE  t.running \cap u.running = {}
      BY DEF WaitersAreDisjoint
    <3>1. PICK p \in workers \ {w} : Outlives(t, p, h)
      OBVIOUS
    <3>2. PICK v \in workers \ {w} : Outlives(u, v, h)
      OBVIOUS
    <3>3. CASE p # v
      BY <1>2, <3>1, <3>2, <3>3 DEF QInv, QuietInv, StampsInv, WaitersAreDisjoint
    <3>4. CASE p = v
      BY <1>2, <3>1, <3>2, <3>4 DEF Unclaimed
    <3> QED BY <3>3, <3>4
  <2> QED BY <2>2, <2>3 DEF StampsInv
<1>8. CallbacksInv'
  BY <1>1
     DEF QInv, QuietInv, CallbacksInv, ImmediatesInRange, SetupsHoldLock,
         LocksAreHeld
<1>9. SlotsAreTracked' /\ SamplesAreOwn'
  BY <1>1 DEF QInv, QuietInv, SlotsAreTracked, SamplesAreOwn
<1> QED BY <1>5, <1>6, <1>7, <1>8, <1>9, Frames DEF QuietInv

LEMMA DrainKeepsQuiet ==
  ASSUME QInv, NEW w \in workers, Drain(w)
  PROVE  QuietInv'
<1>1. /\ w.stage = "querying" /\ w.running = {} /\ w.pi \in Slots /\ w \in Worker
      /\ Unclaimed(w) \/ w.errors \in Seq({"timeout", "query"})
  BY OneWorker DEF Drain, QInv, QuietInv, WorkersInv, ErrorsAreTold
<1>2. CASE Unclaimed(w)
  <2>1. /\ ~HasCauseWithName(w.errors, "timeout")
        /\ HasCauseWithName(w.errors, "connect")
    <3>1. w.errors = <<"connect">>
      BY <1>2 DEF Unclaimed
    <3> QED BY <3>1 DEF HasCauseWithName
  <2>2. /\ workers' = workers \ {w}
        /\ UNCHANGED <<slots, ind, immediates, setups, ticks, removals,
                       discovered, pools, interval, phase, thrown>>
    BY <2>1 DEF Drain, DrainNoConnection, slots
  <2>3. ~HoldsClaim(w)
    BY <1>2 DEF Unclaimed, HoldsClaim
  <2>4. ClaimsInv' /\ StampsInv'
    BY <1>1, <2>2, <2>3, IdleWorkerKeepsQuiet
  <2>5. WorkersInv'
    BY <2>2 DEF QInv, QuietInv, WorkersInv, WorkersInPlace, ErrorsAreTold,
                Unclaimed, Slots, slots
  <2> QED BY <2>2, <2>4, <2>5, Frames DEF QuietInv, slots
<1>3. CASE w.errors \in Seq({"timeout", "query"})
  <2>1. ~HasCauseWithName(w.errors, "connect") /\ HoldsClaim(w)
    BY <1>1, <1>3, PlainErrors DEF HoldsClaim
  <2>2. /\ pm_pgs[w.pi].handle = w.pool /\ w.pool \in Backends
        /\ pools[w.pool] = "claimed"
    BY <2>1, OneWorker
       DEF HoldsClaim, QInv, QuietInv, ClaimsInv, HoldersOwnHandle
  <2>3. /\ DrainTimeout(w) \/ DrainDone(w)
        /\ UNCHANGED <<pm_pools, pm_state, pm_data, ind, immediates, setups,
                       removals, discovered, thrown>>
    <3>1. OwnsHandle(w)
      BY <1>1, <2>2, Arrays DEF OwnsHandle
    <3> QED BY <2>1, <3>1 DEF Drain
  <2> DEFINE h == w.pool
  <2>4. SlotsTypeOK
    BY DEF QInv, HInv, IInv, SlotsInv
  <2>5. CASE DrainTimeout(w)
    <3>1. /\ pm_pgs' = Expire(pm_pgs, h)
          /\ pools' = [pools EXCEPT ![h] = AfterClaim(@, "empty")]
          /\ workers' = Disconnect(workers \ {w}, h)
      BY <2>2, <2>5 DEF DrainTimeout
    <3>2. pools' = [pools EXCEPT ![h] = "empty"]
      BY <2>2, <3>1 DEF AfterClaim
    <3>3. /\ Len(pm_pgs') = Len(pm_pgs)
          /\ \A i \in Slots :
               /\ pm_pgs'[i].key = pm_pgs[i].key
               /\ pm_pgs'[i].queries = pm_pgs[i].queries
               /\ pm_pgs[i].handle # h => pm_pgs'[i].handle = pm_pgs[i].handle
      BY <2>2, <2>4, <3>1, ExpireProperties DEF Slots
    <3>4. /\ \A u \in workers' : \E v \in workers \ {w} : Outlives(u, v, h)
          /\ \A v \in workers \ {w} : \E u \in workers' : Outlives(u, v, h)
      BY <3>1 DEF Disconnect, Outlives
    <3> QED BY <1>1, <2>1, <2>3, <3>2, <3>3, <3>4, GiveUpKeepsQuiet
  <2>6. CASE DrainDone(w)
    <3>1. /\ pm_pgs' = Release(h, w.pi)
          /\ pools' = [pools EXCEPT ![h] = AfterClaim(@, "idle")]
          /\ workers' = workers \ {w}
      BY <2>2, <2>6 DEF DrainDone, Release
    <3>2. pools' = [pools EXCEPT ![h] = "idle"]
      BY <2>2, <3>1 DEF AfterClaim
    <3>3. /\ Len(pm_pgs') = Len(pm_pgs)
          /\ \A i \in Slots :
               /\ pm_pgs'[i].key = pm_pgs[i].key
               /\ pm_pgs'[i].queries = pm_pgs[i].queries
               /\ pm_pgs[i].handle # h => pm_pgs'[i].handle = pm_pgs[i].handle
      BY <1>1, <2>2, <2>4, <3>1, ReleaseProperties DEF Slots
    <3>4. /\ \A u \in workers' : \E v \in workers \ {w} : Outlives(u, v, h)
          /\ \A v \in workers \ {w} : \E u \in workers' : Outlives(u, v, h)
      BY <3>1 DEF Outlives
    <3> QED BY <1>1, <2>1, <2>3, <3>2, <3>3, <3>4, GiveUpKeepsQuiet
  <2> QED BY <2>3, <2>5, <2>6
<1> QED BY <1>1, <1>2, <1>3

LEMMA QueueEndKeepsQuiet ==
  ASSUME QInv, NEW t \in Ticks, QueueEnd(t)
  PROVE  QuietInv'
BY Frames DEF QueueEnd, QuietInv, slots

LEMMA InitIsQuiet == Init => QInv
<1> SUFFICES ASSUME Init PROVE QInv
  OBVIOUS
<1>1. Len(pm_pgs) = 0 /\ Len(immediates) = 0
  BY EmptySeq DEF Init
<1>2. Slots = {} /\ 1..Len(immediates) = {}
  BY <1>1 DEF Slots
<1>3. HInv
  BY <1>1, InitHolds DEF HInv, PoolsKnown, HandleInv, Init
<1>4. CallbacksInv /\ WorkersInv
  BY <1>2 DEF Init, CallbacksInv, WorkersInv, ImmediatesInRange, SetupsHoldLock,
              LocksAreHeld, WorkersInPlace, ErrorsAreTold
<1>5. ClaimsInv /\ StampsInv
  BY <1>2 DEF Init, ClaimsInv, StampsInv, HoldersOwnHandle, HoldersAreUnique,
              ClaimsAreHeld, StampsAreAwaited, WaitersAreDisjoint
<1>6. SlotsAreTracked /\ SamplesAreOwn /\ Calm
  BY <1>2 DEF Init, SlotsAreTracked, SamplesAreOwn, Calm
<1> QED BY <1>3, <1>4, <1>5, <1>6 DEF QInv, QuietInv

LEMMA QuietStepIsStep == QuietNext => Next
BY DEF QuietNext, Next, DiscoveryNext

LEMMA NextKeepsQuiet == QInv /\ [QuietNext]_vars => QInv'
<1> SUFFICES ASSUME QInv, [QuietNext]_vars PROVE QuietInv'
  BY QuietStepIsStep, NextKeepsHandles DEF QInv
<1>1. CASE UNCHANGED vars
  BY <1>1, Frames DEF QuietInv, vars, slots
<1>2. ASSUME NEW w \in workers, WorkerStep(w) PROVE QuietInv'
  <2>1. CASE StartWorker(w) \/ ClaimFails(w)
    BY <2>1, StartKeepsQuiet, ClaimFailsKeepsQuiet
  <2>2. CASE ClaimGranted(w) \/ Drain(w)
    BY <2>2, ClaimGrantedKeepsQuiet, DrainKeepsQuiet
  <2>3. CASE \E q \in Queries :
               \/ \E kind \in {"timeout", "query"} : QueryError(w, q, kind)
               \/ \E rows \in BOOLEAN : QueryEnd(w, q, rows)
    BY <2>3, QueryErrorKeepsQuiet, QueryEndKeepsQuiet
  <2> QED BY <1>2, <2>1, <2>2, <2>3 DEF WorkerStep
<1>3. CASE MonitorStep
  <2>1. CASE SetupBackend
    BY <2>1, SetupBackendKeepsQuiet
  <2>2. CASE \E s \in setups, ok \in BOOLEAN : SetupReturns(s, ok)
    BY <2>2, SetupReturnsKeepsQuiet
  <2>3. CASE \E t \in Ticks : FirstTick(t) \/ IntervalFires(t) \/ QueueEnd(t)
    BY <2>3, TickKeepsQuiet, QueueEndKeepsQuiet
  <2>4. CASE \E b \in Backends : Added(b) \/ Connected(b)
    BY <2>4, AddedKeepsQuiet, PoolStepKeepsQuiet
  <2> QED BY <1>2, <1>3, <2>1, <2>2, <2>3, <2>4 DEF MonitorStep
<1>4. CASE \E b \in Backends : Quiet(b) /\ Removed(b)
  BY <1>4, RemovedKeepsQuiet
<1> QED BY <1>1, <1>3, <1>4 DEF QuietNext

(* While backends leave at quiet moments only: every index a callback      *)
(* holds still names the slot of its backend, and what it assumes of the   *)
(* slot still holds.                                                       *)
THEOREM QuietInvariance == QuietSpec => []QInv
BY InitIsQuiet, NextKeepsQuiet, PTL DEF QuietSpec

(* The process is never aborted: no callback indexes a slot that is gone   *)
(* or not set up, none uses a claim handle it does not own.                *)
THEOREM NothingThrows == QuietSpec => []NeverThrows
<1>1. QInv => NeverThrows
  BY DEF QInv, QuietInv, Calm, NeverThrows
<1> QED BY <1>1, QuietInvariance, PTL

(* Every announced backend has exactly one slot, a withdrawn one has none. *)
THEOREM TrackingIsExact == QuietSpec => []TrackedIsDiscovered
<1>1. QInv => TrackedIsDiscovered
  <2> SUFFICES ASSUME QInv PROVE TrackedIsDiscovered
    OBVIOUS
  <2>1. /\ DOMAIN pm_pgs = Slots
        /\ \A i \in Slots : pm_pgs[i].key \in Backends
    BY Arrays, OneSlot
  <2> QED BY <2>1 DEF QInv, QuietInv, SlotsAreTracked, TrackedIsDiscovered
<1> QED BY <1>1, QuietInvariance, PTL

(* Rows and queries of a slot are those of the backend it is named after.  *)
THEOREM SamplesStayOwn == QuietSpec => []SamplesBelongToBackend
<1>1. QInv => SamplesBelongToBackend
  BY Arrays DEF QInv, QuietInv, SamplesAreOwn, SamplesBelongToBackend,
                   RowsBelongToBackend
<1> QED BY <1>1, QuietInvariance, PTL

(* A claimed connection is in the hands of exactly one worker, which finds *)
(* its handle in its slot.                                                 *)
THEOREM ClaimsStayHeld == QuietSpec => []ClaimsHaveOneHolder
<1>1. QInv => ClaimsHaveOneHolder
  <2> SUFFICES ASSUME QInv PROVE ClaimsHaveOneHolder
    OBVIOUS
  <2>1. ASSUME NEW b \in Backends
        PROVE  Cardinality({w \in workers : HoldsClaim(w) /\ w.pool = b}) =
                 IF pools[b] \in {"claimed", "stopping"} THEN 1 ELSE 0
    <3> DEFINE holders == {w \in workers : HoldsClaim(w) /\ w.pool = b}
    <3>1. CASE pools[b] = "claimed"
      <4>1. PICK w \in workers : HoldsClaim(w) /\ w.pool = b
        BY <3>1 DEF QInv, QuietInv, ClaimsInv, ClaimsAreHeld
      <4>2. holders = {w}
        BY <4>1 DEF QInv, QuietInv, ClaimsInv, HoldersAreUnique
      <4>3. Cardinality(holders) = 1
        BY <4>2, FS_Singleton
      <4> QED BY <3>1, <4>3
    <3>2. CASE pools[b] # "claimed"
      <4>1. holders = {} /\ pools[b] # "stopping"
        BY <3>2 DEF QInv, QuietInv, ClaimsInv, ClaimsAreHeld, HoldersOwnHandle
      <4>2. Cardinality(holders) = 0
        BY <4>1, FS_EmptySet
      <4> QED BY <3>2, <4>1, <4>2
    <3> QED BY <3>1, <3>2
  <2>2. \A w \in workers :
          HoldsClaim(w) => InRange(w.pi) /\ pm_pgs[w.pi].handle = w.pool
    BY Arrays, OneWorker DEF QInv, QuietInv, ClaimsInv, HoldersOwnHandle
  <2> QED BY <2>1, <2>2 DEF ClaimsHaveOneHolder
<1> QED BY <1>1, QuietInvariance, PTL

(* A query is marked as pending exactly while some worker waits for it,    *)
(* and only one does.                                                      *)
THEOREM PendingStaysAccurate == QuietSpec => []PendingStateIsAccurate
<1>1. QInv => PendingStateIsAccurate
  BY Arrays DEF QInv, QuietInv, StampsInv, StampsAreAwaited, WaitersAreDisjoint,
                PendingStateIsAccurate
<1> QED BY <1>1, QuietInvariance, PTL

(* A slot is locked exactly while a setup of its backend is under way.     *)
THEOREM LockIsASetup == QuietSpec => []SetupLockHeld
<1>1. QInv => SetupLockHeld
  <2> SUFFICES ASSUME QInv, NEW i \in Slots
               PROVE  pm_pools[i].setting_up <=>
                        \E s \in setups : s.pi = i /\ s.backend = pm_pools[i].key
    BY Arrays DEF SetupLockHeld
  <2> QED BY DEF QInv, QuietInv, CallbacksInv, SetupsHoldLock, LocksAreHeld
<1> QED BY <1>1, QuietInvariance, PTL

-----------------------------------------------------------------------------
(* The monitor implements BackendMetrics.                                  *)

(* A slot that waits for its setup has no queries yet: a setup that        *)
(* succeeds is the first of the backend's life.                            *)
WaitingHasNoQueries ==
  \A i \in Slots : pm_pools[i].needs_setup => pm_pgs[i].queries = None

MInv == QInv /\ WaitingHasNoQueries

(* What the refinement mapping says of a backend that has slot i, and of   *)
(* one that has none.                                                      *)
LEMMA Seen ==
  ASSUME QInv, NEW i \in Slots, NEW b, pm_pgs[i].key = b
  PROVE  /\ Known(b) = IF pm_pgs[i].queries = None THEN "waiting" ELSE "polled"
         /\ Samples(b) = IF pm_pgs[i].queries = None
                         THEN [q \in Queries |-> None] ELSE pm_data[i]
<1>1. DOMAIN pm_pgs = Slots
  BY Arrays
<1>2. SlotOf(b) = i
  BY <1>1 DEF SlotOf, QInv, QuietInv, SlotsAreTracked
<1> QED BY <1>1, <1>2 DEF Known, Samples

LEMMA SeenPrime ==
  ASSUME QInv', NEW i \in Slots', NEW b, pm_pgs'[i].key = b
  PROVE  /\ Known(b)' = IF pm_pgs'[i].queries = None THEN "waiting" ELSE "polled"
         /\ Samples(b)' = IF pm_pgs'[i].queries = None
                          THEN [q \in Queries |-> None] ELSE pm_data'[i]
<1>1. DOMAIN pm_pgs' = Slots'
  BY LenProperties DEF QInv, HInv, IInv, SlotsInv, SlotsTypeOK, Slots
<1>2. SlotOf(b)' = i
  BY <1>1 DEF SlotOf, QInv, QuietInv, SlotsAreTracked
<1> QED BY <1>1, <1>2 DEF Known, Samples

LEMMA Unseen ==
  ASSUME QInv, NEW b, \A i \in Slots : pm_pgs[i].key # b
  PROVE  Known(b) = "absent" /\ Samples(b) = [q \in Queries |-> None]
BY Arrays DEF Known, Samples

LEMMA UnseenPrime ==
  ASSUME QInv', NEW b, \A i \in Slots' : pm_pgs'[i].key # b
  PROVE  Known(b)' = "absent" /\ Samples(b)' = [q \in Queries |-> None]
<1>1. DOMAIN pm_pgs' = Slots'
  BY LenProperties DEF QInv, HInv, IInv, SlotsInv, SlotsTypeOK, Slots
<1> QED BY <1>1 DEF Known, Samples

(* A backend whose slot at most moves stutters.                            *)
LEMMA MovedIsKept ==
  ASSUME QInv, QInv', NEW b,
         \A i \in Slots : pm_pgs[i].key = b =>
           \E j \in Slots' : /\ pm_pgs'[j].key = b
                             /\ pm_pgs'[j].queries = pm_pgs[i].queries
                             /\ pm_data'[j] = pm_data[i],
         \A j \in Slots' : pm_pgs'[j].key = b => \E i \in Slots : pm_pgs[i].key = b
  PROVE  Known(b)' = Known(b) /\ Samples(b)' = Samples(b)
<1>1. CASE \E i \in Slots : pm_pgs[i].key = b
  <2>1. PICK i \in Slots : pm_pgs[i].key = b
    BY <1>1
  <2>2. PICK j \in Slots' : /\ pm_pgs'[j].key = b
                            /\ pm_pgs'[j].queries = pm_pgs[i].queries
                            /\ pm_data'[j] = pm_data[i]
    BY <2>1
  <2> QED BY <2>1, <2>2, Seen, SeenPrime
<1>2. CASE \A i \in Slots : pm_pgs[i].key # b
  BY <1>2, Unseen, UnseenPrime
<1> QED BY <1>1, <1>2

(* Steps that touch no key, no queries and no rows.                        *)
LEMMA SameDataStutters ==
  ASSUME QInv, QInv', Len(pm_pgs') = Len(pm_pgs), UNCHANGED pm_data,
         \A i \in Slots : /\ pm_pgs'[i].key = pm_pgs[i].key
                          /\ pm_pgs'[i].queries = pm_pgs[i].queries
  PROVE  UNCHANGED Metrics!vars
<1>1. Slots' = Slots
  BY DEF Slots
<1>2. \A b \in Backends : Known(b)' = Known(b) /\ Samples(b)' = Samples(b)
  BY <1>1, MovedIsKept
<1> QED BY <1>2 DEF Metrics!vars

(* Steps that change what is known of one backend only.                    *)
LEMMA OneBackendSteps ==
  ASSUME NEW b \in Backends,
         \A c \in Backends \ {b} : Known(c)' = Known(c) /\ Samples(c)' = Samples(c)
  PROVE  /\ Known(b) = "absent" /\ Known(b)' = "waiting"
           /\ Samples(b)' = Samples(b) => Metrics!Announce(b)
         /\ Known(b) = "waiting" /\ Known(b)' = "polled"
           /\ Samples(b)' = Samples(b) => Metrics!Prepare(b)
         /\ \A q \in Queries :
              Known(b) = "polled" /\ Known(b)' = "polled"
                /\ Samples(b)' = [Samples(b) EXCEPT ![q] = b] => Metrics!Keep(b, q)
         /\ Known(b) # "absent" /\ Known(b)' = "absent"
           /\ Samples(b)' = [q \in Queries |-> None] => Metrics!Withdraw(b)
<1> DEFINE known == [c \in Backends |-> Known(c)]
           samples == [c \in Backends |-> Samples(c)]
<1>1. known' = [known EXCEPT ![b] = Known(b)']
  OBVIOUS
<1>2. samples' = [samples EXCEPT ![b] = Samples(b)']
  OBVIOUS
<1>3. known[b] = Known(b) /\ samples[b] = Samples(b)
  OBVIOUS
<1>4. /\ Known(b)' = Known(b) => known' = known
      /\ Samples(b)' = Samples(b) => samples' = samples
  OBVIOUS
<1> QED BY <1>1, <1>2, <1>3, <1>4
        DEF Metrics!Announce, Metrics!Prepare, Metrics!Keep, Metrics!Withdraw,
            Metrics!NoSamples

(* What a monitor's step is to the metrics, and the invariant behind it.   *)
Refines == WaitingHasNoQueries' /\ [Metrics!Next]_(Metrics!vars)

LEMMA StutterRefines ==
  ASSUME MInv, QInv', Len(pm_pgs') = Len(pm_pgs), UNCHANGED <<pm_data>>,
         \A i \in Slots :
           /\ pm_pgs'[i].key = pm_pgs[i].key
           /\ pm_pgs'[i].queries = pm_pgs[i].queries
           /\ pm_pools'[i].needs_setup => pm_pools[i].needs_setup
  PROVE  Refines
<1>1. UNCHANGED Metrics!vars
  BY SameDataStutters DEF MInv
<1>2. WaitingHasNoQueries'
  BY DEF MInv, WaitingHasNoQueries, Slots
<1> QED BY <1>1, <1>2 DEF Refines

LEMMA AddedRefines ==
  ASSUME MInv, QInv', NEW b \in Backends, Added(b)
  PROVE  Refines
<1> DEFINE n == Len(pm_pgs) + 1
<1>1. /\ NewPg(b) \in Pg /\ NewPg(b).key = b /\ NewPg(b).queries = None
      /\ NewPool(b) \in Pool
  BY DEF NewPg, NewPool, Pg, Pool
<1>2. QInv /\ discovered[b] # "present"
  BY DEF MInv, Added, Forgotten
<1>3. /\ Len(pm_pgs') = n
      /\ \A i \in Slots : /\ pm_pgs'[i] = pm_pgs[i]
                          /\ pm_pools'[i] = pm_pools[i]
                          /\ pm_data'[i] = pm_data[i]
      /\ pm_pgs'[n] = NewPg(b)
  BY <1>1, <1>2, Arrays, AppendProperties DEF Slots, Added
<1>4. Slots' = Slots \cup {n}
  BY <1>2, <1>3, Arrays DEF Slots
<1> HIDE DEF n
<1>5. WaitingHasNoQueries'
  BY <1>1, <1>3, <1>4 DEF MInv, WaitingHasNoQueries
<1>6. \A i \in Slots : pm_pgs[i].key # b
  BY <1>2 DEF QInv, QuietInv, SlotsAreTracked
<1>7. Known(b) = "absent" /\ Samples(b) = [q \in Queries |-> None]
  BY <1>2, <1>6, Unseen
<1>8. Known(b)' = "waiting" /\ Samples(b)' = [q \in Queries |-> None]
  BY <1>1, <1>3, <1>4, SeenPrime
<1>9. \A c \in Backends \ {b} : Known(c)' = Known(c) /\ Samples(c)' = Samples(c)
  <2> SUFFICES ASSUME NEW c \in Backends \ {b}
               PROVE  Known(c)' = Known(c) /\ Samples(c)' = Samples(c)
    OBVIOUS
  <2>1. \A j \in Slots' : pm_pgs'[j].key = c => \E i \in Slots : pm_pgs[i].key = c
    BY <1>1, <1>3, <1>4
  <2>2. \A i \in Slots : pm_pgs[i].key = c =>
          \E j \in Slots' : /\ pm_pgs'[j].key = c
                            /\ pm_pgs'[j].queries = pm_pgs[i].queries
                            /\ pm_data'[j] = pm_data[i]
    BY <1>3, <1>4
  <2> QED BY <1>2, <2>1, <2>2, MovedIsKept
<1>10. Metrics!Announce(b)
  BY <1>7, <1>8, <1>9, OneBackendSteps
<1> QED BY <1>5, <1>10 DEF Refines, Metrics!Next

(* A step that assigns to slot i only, and changes no key.                 *)
LEMMA OthersKept ==
  ASSUME QInv, QInv', NEW i \in Slots, Len(pm_pgs') = Len(pm_pgs),
         \A j \in Slots : pm_pgs'[j].key = pm_pgs[j].key,
         \A j \in Slots \ {i} : /\ pm_pgs'[j].queries = pm_pgs[j].queries
                                /\ pm_data'[j] = pm_data[j]
  PROVE  \A c \in Backends \ {pm_pgs[i].key} :
           Known(c)' = Known(c) /\ Samples(c)' = Samples(c)
<1> SUFFICES ASSUME NEW c \in Backends \ {pm_pgs[i].key}
             PROVE  Known(c)' = Known(c) /\ Samples(c)' = Samples(c)
  OBVIOUS
<1>1. Slots' = Slots
  BY DEF Slots
<1>2. \A j \in Slots' : pm_pgs'[j].key = c => \E k \in Slots : pm_pgs[k].key = c
  BY <1>1
<1>3. \A j \in Slots : pm_pgs[j].key = c =>
        \E k \in Slots' : /\ pm_pgs'[k].key = c
                          /\ pm_pgs'[k].queries = pm_pgs[j].queries
                          /\ pm_data'[k] = pm_data[j]
  BY <1>1
<1> QED BY <1>2, <1>3, MovedIsKept

(* A setup that succeeds is the first of the life of the backend.          *)
LEMMA SetupReturnsRefines ==
  ASSUME MInv, QInv', NEW s \in setups, NEW ok \in BOOLEAN, SetupReturns(s, ok)
  PROVE  Refines
<1> DEFINE pi == s.pi
           pool == [pm_pools[pi] EXCEPT !.setting_up = FALSE,
                                        !.needs_setup = ~ok]
           pg == [pm_pgs[pi] EXCEPT !.queries = s.backend]
           noData == [q \in Queries |-> None]
<1>1. /\ QInv /\ pi \in Slots /\ pm_pools[pi].key = s.backend
      /\ pm_pools[pi].needs_setup /\ pm_pgs[pi].queries = None
  BY DEF MInv, WaitingHasNoQueries, QInv, QuietInv, CallbacksInv, SetupsHoldLock
<1>2. /\ pm_pgs[pi] \in Pg /\ pm_pools[pi] \in Pool
      /\ pm_pgs[pi].key = s.backend /\ s.backend \in Backends
  BY <1>1, OneSlot
<1>3. pool \in Pool /\ pool.needs_setup = ~ok
  BY <1>2 DEF Pool
<1>4. /\ pg \in Pg /\ pg.key = pm_pgs[pi].key /\ pg.queries = s.backend
  BY <1>2 DEF Pg
<1>5. noData \in DataPoints \cup {Hole}
  BY DEF DataPoints
<1>6. /\ pm_pools' = [pm_pools EXCEPT ![pi] = pool]
      /\ IF ok THEN /\ pm_pgs' = [pm_pgs EXCEPT ![pi] = pg]
                    /\ pm_data' = [pm_data EXCEPT ![pi] = noData]
               ELSE UNCHANGED <<pm_pgs, pm_data>>
  <2>1. InRange(pi)
    BY <1>1, Arrays
  <2> QED BY <2>1 DEF SetupReturns, AddQueryData
<1> HIDE DEF pi, pool, pg
<1>7. \A i \in Slots : pm_pools'[i] = IF i = pi THEN pool ELSE pm_pools[i]
  BY <1>1, <1>3, <1>6, Arrays, ExceptSeq DEF Slots
<1>8. CASE ~ok
  <2>1. UNCHANGED <<pm_pgs, pm_data>>
    BY <1>6, <1>8
  <2>2. \A i \in Slots : pm_pools'[i].needs_setup => pm_pools[i].needs_setup
    BY <1>1, <1>7
  <2> QED BY <2>1, <2>2, StutterRefines
<1>9. CASE ok
  <2>1. /\ Len(pm_pgs') = Len(pm_pgs) /\ Slots' = Slots
        /\ \A i \in Slots : pm_pgs'[i] = IF i = pi THEN pg ELSE pm_pgs[i]
    <3>1. pm_pgs' = [pm_pgs EXCEPT ![pi] = pg]
      BY <1>6, <1>9
    <3>2. pm_pgs \in Seq(Pg) /\ pi \in 1..Len(pm_pgs) /\ pg \in Pg
      BY <1>1, <1>4, Arrays DEF Slots
    <3> HIDE DEF noData
    <3> QED BY <3>1, <3>2, ExceptSeq DEF Slots
  <2>2. \A i \in Slots : pm_data'[i] = IF i = pi THEN noData ELSE pm_data[i]
    BY <1>1, <1>5, <1>6, <1>9, Arrays, ExceptSeq DEF Slots
  <2>3. WaitingHasNoQueries'
    BY <1>3, <1>7, <1>9, <2>1 DEF MInv, WaitingHasNoQueries
  <2>4. s.backend # None
    BY <1>2, BackendsAssumption
  <2>5. Known(s.backend) = "waiting" /\ Samples(s.backend) = noData
    BY <1>1, <1>2, Seen
  <2>6. /\ pm_pgs'[pi].key = s.backend /\ pm_pgs'[pi].queries = s.backend
        /\ pm_data'[pi] = noData /\ pi \in Slots'
    BY <1>1, <1>2, <1>4, <2>1, <2>2
  <2>7. Known(s.backend)' = "polled" /\ Samples(s.backend)' = noData
    BY <2>4, <2>6, SeenPrime
  <2>8. \A c \in Backends \ {s.backend} :
          Known(c)' = Known(c) /\ Samples(c)' = Samples(c)
    BY <1>1, <1>2, <1>4, <2>1, <2>2, OthersKept
  <2>9. Metrics!Prepare(s.backend)
    BY <1>2, <2>5, <2>7, <2>8, OneBackendSteps
  <2> QED BY <1>2, <2>3, <2>9 DEF Refines, Metrics!Next
<1> QED BY <1>8, <1>9

LEMMA QueryEndRefines ==
  ASSUME MInv, QInv', NEW w \in workers, NEW q \in Queries, NEW rows \in BOOLEAN,
         QueryEnd(w, q, rows)
  PROVE  Refines
<1> DEFINE pi == w.pi
           b == w.pool
           data == [pm_data[pi] EXCEPT ![q] = b]
<1>1. /\ QInv /\ q \in w.running /\ HasQueries(pi) /\ ~w.gone /\ pi \in Slots
      /\ b \in Backends /\ b = pm_pgs[pi].key
  BY OneWorker DEF MInv, QueryEnd
<1>2. pm_data[pi] \in DataPoints /\ pm_pgs[pi].queries # None
  BY <1>1, OneSlot DEF HasQueries
<1>3. /\ \/ pm_data' = [pm_data EXCEPT ![pi] = data]
         \/ UNCHANGED pm_data
      /\ UNCHANGED <<pm_pgs, pm_pools>>
  BY <1>1 DEF QueryEnd
<1>4. data \in DataPoints \cup {Hole}
  BY <1>1, <1>2 DEF DataPoints
<1> HIDE DEF pi, b
<1>5. CASE UNCHANGED pm_data
  BY <1>3, <1>5, StutterRefines
<1>6. CASE pm_data' = [pm_data EXCEPT ![pi] = data]
  <2>1. \A i \in Slots : pm_data'[i] = IF i = pi THEN data ELSE pm_data[i]
    BY <1>1, <1>4, <1>6, Arrays, ExceptSeq DEF Slots
  <2>2. WaitingHasNoQueries' /\ Slots' = Slots
    BY <1>3 DEF MInv, WaitingHasNoQueries, Slots
  <2>3. Known(b) = "polled" /\ Samples(b) = pm_data[pi]
    BY <1>1, <1>2, Seen
  <2>4. Known(b)' = "polled" /\ Samples(b)' = data
    <3>1. /\ pm_pgs'[pi].key = b /\ pm_pgs'[pi].queries # None
          /\ pm_data'[pi] = data /\ pi \in Slots'
      BY <1>1, <1>2, <1>3, <2>1, <2>2
    <3> HIDE DEF data
    <3> QED BY <3>1, SeenPrime
  <2>5. \A c \in Backends \ {b} : Known(c)' = Known(c) /\ Samples(c)' = Samples(c)
    BY <1>1, <1>3, <2>1, OthersKept
  <2>6. Samples(b)' = [Samples(b) EXCEPT ![q] = b]
    BY <2>3, <2>4
  <2>7. Metrics!Keep(b, q)
    BY <1>1, <2>3, <2>4, <2>5, <2>6, OneBackendSteps
  <2> QED BY <1>1, <2>2, <2>7 DEF Refines, Metrics!Next
<1> QED BY <1>3, <1>5, <1>6

LEMMA RemovedRefines ==
  ASSUME MInv, QInv', NEW b \in Backends, Quiet(b), Removed(b)
  PROVE  Refines
<1>1. QInv /\ workers = {} /\ removals = {}
  BY DEF MInv, Quiet
<1>2. PICK i \in Slots : pm_pgs[i].key = b
  BY <1>1 DEF Removed, QInv, QuietInv, SlotsAreTracked
<1>3. i \in DOMAIN pm_pools /\ pm_pools[i].key = b
  BY <1>1, <1>2, Arrays, OneSlot
<1>4. thrown' = "no" /\ removals' = {}
  BY <1>1 DEF QInv, QuietInv, Calm
<1>5. PICK pi \in DOMAIN pm_pools :
        pm_pools[pi].key = b /\ RemoveConnectionData(pi)
  BY <1>1, <1>3, <1>4 DEF Removed, Throw
<1>6. pi \in Slots /\ pm_pgs[pi].key = b
  BY <1>1, <1>5, Arrays, OneSlot
<1>7. /\ \A j \in Slots' : /\ Old(pi, j) \in Slots \ {pi}
                           /\ pm_pgs'[j] = pm_pgs[Old(pi, j)]
                           /\ pm_pools'[j] = pm_pools[Old(pi, j)]
                           /\ pm_data'[j] = pm_data[Old(pi, j)]
      /\ \A k \in Slots \ {pi} : \E j \in Slots' : Old(pi, j) = k
  BY <1>1, <1>5, <1>6, RemovalMoves
<1>8. \A k \in Slots \ {pi} : pm_pgs[k].key # b
  BY <1>1, <1>6 DEF QInv, QuietInv, SlotsAreTracked
<1>9. WaitingHasNoQueries'
  BY <1>7 DEF MInv, WaitingHasNoQueries
<1>10. Known(b) # "absent"
  BY <1>1, <1>6, Seen
<1>11. Known(b)' = "absent" /\ Samples(b)' = [q \in Queries |-> None]
  <2>1. \A j \in Slots' : pm_pgs'[j].key # b
    BY <1>7, <1>8
  <2> QED BY <2>1, UnseenPrime
<1>12. \A c \in Backends \ {b} : Known(c)' = Known(c) /\ Samples(c)' = Samples(c)
  <2> SUFFICES ASSUME NEW c \in Backends \ {b}
               PROVE  Known(c)' = Known(c) /\ Samples(c)' = Samples(c)
    OBVIOUS
  <2>1. \A j \in Slots' : pm_pgs'[j].key = c => \E k \in Slots : pm_pgs[k].key = c
    BY <1>7
  <2>2. \A k \in Slots : pm_pgs[k].key = c =>
          \E j \in Slots' : /\ pm_pgs'[j].key = c
                            /\ pm_pgs'[j].queries = pm_pgs[k].queries
                            /\ pm_data'[j] = pm_data[k]
    BY <1>6, <1>7
  <2> QED BY <1>1, <2>1, <2>2, MovedIsKept
<1>13. Metrics!Withdraw(b)
  BY <1>10, <1>11, <1>12, OneBackendSteps
<1> QED BY <1>9, <1>13 DEF Refines, Metrics!Next

(* Steps that change flags of a setup, or claim handles, are stutters.     *)
LEMMA SetupBackendRefines ==
  ASSUME MInv, QInv', SetupBackend
  PROVE  Refines
<1>1. UNCHANGED <<pm_pgs, pm_data>>
  BY DEF SetupBackend, Throw, slots
<1>2. \A i \in Slots : pm_pools'[i].needs_setup => pm_pools[i].needs_setup
  <2> SUFFICES ASSUME NEW i \in Slots
               PROVE  pm_pools'[i].needs_setup = pm_pools[i].needs_setup
    OBVIOUS
  <2>1. /\ pm_pools \in Seq(Pool) /\ pm_pools[i] \in Pool
        /\ DOMAIN pm_pools = Slots
    BY Arrays, OneSlot DEF MInv
  <2>2. \/ UNCHANGED pm_pools
        \/ \E j : pm_pools' = [pm_pools EXCEPT ![j].setting_up = TRUE]
    BY DEF SetupBackend, Throw, slots
  <2>3. ASSUME NEW j, pm_pools' = [pm_pools EXCEPT ![j].setting_up = TRUE]
        PROVE  pm_pools'[i].needs_setup = pm_pools[i].needs_setup
    <3>1. pm_pools'[i] = IF i = j THEN [pm_pools[i] EXCEPT !.setting_up = TRUE]
                         ELSE pm_pools[i]
      BY <2>1, <2>3
    <3> QED BY <2>1, <3>1 DEF Pool
  <2> QED BY <2>2, <2>3
<1> QED BY <1>1, <1>2, StutterRefines

LEMMA ClaimGrantedRefines ==
  ASSUME MInv, QInv', NEW w \in workers, ClaimGranted(w)
  PROVE  Refines
<1> DEFINE pi == w.pi
           pg == [pm_pgs[pi] EXCEPT !.handle = w.pool]
<1>1. /\ QInv /\ w.stage = "claiming" /\ pi \in Slots /\ HasQueries(pi)
      /\ w.pool \in Backends
  BY OneWorker DEF MInv, ClaimGranted
<1>2. /\ pm_pgs' = [pm_pgs EXCEPT ![pi] = pg]
      /\ UNCHANGED <<pm_pools, pm_data>>
  BY <1>1 DEF ClaimGranted
<1>3. pg \in Pg /\ pg.key = pm_pgs[pi].key /\ pg.queries = pm_pgs[pi].queries
  <2>1. pm_pgs[pi] \in Pg
    BY <1>1, OneSlot
  <2> QED BY <1>1, <2>1 DEF Pg
<1> HIDE DEF pi, pg
<1>4. /\ Len(pm_pgs') = Len(pm_pgs)
      /\ \A i \in Slots : pm_pgs'[i] = IF i = pi THEN pg ELSE pm_pgs[i]
  BY <1>1, <1>2, <1>3, Arrays, ExceptSeq DEF Slots
<1> QED BY <1>2, <1>3, <1>4, StutterRefines

LEMMA DrainRefines ==
  ASSUME MInv, QInv', NEW w \in workers, Drain(w)
  PROVE  Refines
<1>1. QInv /\ SlotsTypeOK /\ w.pi \in Slots
  BY OneWorker DEF MInv, QInv, HInv, IInv, SlotsInv
<1>2. UNCHANGED <<pm_pools, pm_data>>
  BY DEF Drain, Throw, slots
<1>3. CASE UNCHANGED pm_pgs
  BY <1>2, <1>3, StutterRefines
<1>4. CASE \E h \in Backends : pm_pgs' = Expire(pm_pgs, h)
  BY <1>1, <1>2, <1>4, ExpireProperties, StutterRefines DEF Slots
<1>5. CASE \E h \in Backends : pm_pgs' = Release(h, w.pi)
  BY <1>1, <1>2, <1>5, ReleaseProperties, StutterRefines DEF Slots
<1> QED BY <1>3, <1>4, <1>5
        DEF Drain, DrainTimeout, DrainDone, DrainNoConnection, Release, Throw,
            slots

LEMMA StepRefines ==
  ASSUME MInv, QInv', [QuietNext]_vars
  PROVE  Refines
<1>1. CASE UNCHANGED <<pm_pgs, pm_pools, pm_data>>
  BY <1>1, StutterRefines
<1>2. ASSUME NEW w \in workers, WorkerStep(w) PROVE Refines
  <2>1. CASE StartWorker(w) \/ ClaimFails(w)
    BY <1>1, <2>1 DEF StartWorker, ClaimFails, Throw, slots
  <2>2. CASE ClaimGranted(w) \/ Drain(w)
    BY <2>2, ClaimGrantedRefines, DrainRefines
  <2>3. CASE \E q \in Queries : \E kind \in {"timeout", "query"} :
               QueryError(w, q, kind)
    BY <1>1, <2>3 DEF QueryError, Throw, slots
  <2>4. CASE \E q \in Queries : \E rows \in BOOLEAN : QueryEnd(w, q, rows)
    BY <2>4, QueryEndRefines
  <2> QED BY <1>2, <2>1, <2>2, <2>3, <2>4 DEF WorkerStep
<1>3. CASE MonitorStep
  <2>1. CASE SetupBackend
    BY <2>1, SetupBackendRefines
  <2>2. CASE \E s \in setups, ok \in BOOLEAN : SetupReturns(s, ok)
    BY <2>2, SetupReturnsRefines
  <2>3. CASE \E t \in Ticks : FirstTick(t) \/ IntervalFires(t) \/ QueueEnd(t)
    BY <1>1, <2>3 DEF FirstTick, IntervalFires, QueueEnd, slots
  <2>4. CASE \E b \in Backends : Added(b)
    BY <2>4, AddedRefines
  <2>5. CASE \E b \in Backends : Connected(b)
    BY <1>1, <2>5 DEF Connected, slots
  <2> QED BY <1>2, <1>3, <2>1, <2>2, <2>3, <2>4, <2>5 DEF MonitorStep
<1>4. CASE \E b \in Backends : Quiet(b) /\ Removed(b)
  BY <1>4, RemovedRefines
<1> QED BY <1>1, <1>3, <1>4 DEF QuietNext, vars, slots

(* What the monitor keeps of a backend is what BackendMetrics promises:    *)
(* set up once a life, and rows that are its own and are never wiped or    *)
(* mixed up while other backends come and go.                              *)
THEOREM MetricsAreKept == QuietSpec => KeepsMetrics
<1>1. Init => MInv /\ Metrics!Init
  <2> SUFFICES ASSUME Init PROVE MInv /\ Metrics!Init
    OBVIOUS
  <2>1. QInv /\ Slots = {}
    BY InitIsQuiet, EmptySeq DEF Init, Slots
  <2>2. WaitingHasNoQueries
    BY <2>1 DEF WaitingHasNoQueries
  <2>3. \A b \in Backends : Known(b) = "absent"
                            /\ Samples(b) = [q \in Queries |-> None]
    BY <2>1, Unseen
  <2> QED BY <2>1, <2>2, <2>3 DEF MInv, Metrics!Init, Metrics!NoSamples
<1>2. MInv /\ [QuietNext]_vars => MInv' /\ [Metrics!Next]_(Metrics!vars)
  BY NextKeepsQuiet, StepRefines DEF MInv, Refines
<1> QED BY <1>1, <1>2, PTL DEF QuietSpec, KeepsMetrics, Metrics!Spec
=============================================================================
