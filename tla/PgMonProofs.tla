---------------------------- MODULE PgMonProofs ----------------------------
(* Theorems about PgMon, for every value of its constants.                 *)
EXTENDS PgMon, SequenceTheorems, TLAPS

(* Array.prototype.splice(i, 1).                                           *)
LEMMA RemoveAtProperties ==
  ASSUME NEW S, NEW s \in Seq(S), NEW i \in 1..Len(s)
  PROVE  /\ RemoveAt(s, i) \in Seq(S)
         /\ Len(RemoveAt(s, i)) = Len(s) - 1
         /\ \A j \in 1..(Len(s) - 1) :
              RemoveAt(s, i)[j] = IF j < i THEN s[j] ELSE s[j + 1]
<1> DEFINE front == SubSeq(s, 1, i - 1)
           back == SubSeq(s, i + 1, Len(s))
<1>1. Len(s) \in Nat /\ \A j \in 1..Len(s) : s[j] \in S
  BY LenProperties, ElementOfSeq
<1>2. /\ front \in Seq(S) /\ Len(front) = i - 1
      /\ \A j \in 1..(i - 1) : front[j] = s[j]
  BY <1>1, SubSeqProperties
<1>3. /\ back \in Seq(S) /\ Len(back) = Len(s) - i
      /\ \A j \in 1..(Len(s) - i) : back[j] = s[i + j]
  BY <1>1, SubSeqProperties
<1> HIDE DEF front, back
<1>4. /\ front \o back \in Seq(S)
      /\ Len(front \o back) = Len(s) - 1
      /\ \A j \in 1..(Len(s) - 1) :
           (front \o back)[j] = IF j <= i - 1 THEN front[j] ELSE back[j - (i - 1)]
  <2>1. Len(front) + Len(back) = Len(s) - 1
    BY <1>1, <1>2, <1>3
  <2>2. /\ front \o back \in Seq(S)
        /\ Len(front \o back) = Len(front) + Len(back)
        /\ \A j \in 1..(Len(front) + Len(back)) :
             (front \o back)[j] =
               IF j <= Len(front) THEN front[j] ELSE back[j - Len(front)]
    BY <1>2, <1>3, ConcatProperties
  <2>3. Len(front) = i - 1
    BY <1>2
  <2> QED BY ONLY <2>1, <2>2, <2>3, SMT
<1>5. RemoveAt(s, i) = front \o back
  BY DEF RemoveAt, front, back
<1>6. \A j \in 1..(Len(s) - 1) :
        (front \o back)[j] = IF j < i THEN s[j] ELSE s[j + 1]
  <2> SUFFICES ASSUME NEW j \in 1..(Len(s) - 1)
               PROVE  (front \o back)[j] = IF j < i THEN s[j] ELSE s[j + 1]
    OBVIOUS
  <2>1. CASE j < i
    BY <1>1, <1>2, <1>4, <2>1
  <2>2. CASE ~(j < i)
    <3>1. j - (i - 1) \in 1..(Len(s) - i) /\ i + (j - (i - 1)) = j + 1
      BY <1>1, <2>2
    <3>2. back[j - (i - 1)] = s[j + 1]
      BY <1>3, <3>1
    <3> QED BY <1>1, <1>4, <2>2, <3>2
  <2> QED BY <2>1, <2>2
<1> QED BY <1>4, <1>5, <1>6
-----------------------------------------------------------------------------
(* The slots.  Each lemma is one of the ways the four arrays change.       *)

SlotsInv == SlotsTypeOK /\ SlotsAligned /\ SetupComplete

(* What SlotsInv says of one slot.                                         *)
SlotOK(pg, pool, state, data) ==
  /\ pool.key = pg.key
  /\ pg.queries # None <=> state # Hole
  /\ pg.queries # None <=> data # Hole
  /\ ~pool.needs_setup => pg.queries # None

LEMMA SlotsPointwise ==
  ASSUME SlotsTypeOK
  PROVE  SlotsInv <=>
           /\ Len(pm_pools) = Len(pm_pgs)
           /\ Len(pm_state) = Len(pm_pgs)
           /\ Len(pm_data) = Len(pm_pgs)
           /\ \A i \in 1..Len(pm_pgs) :
                SlotOK(pm_pgs[i], pm_pools[i], pm_state[i], pm_data[i])
<1>1. DOMAIN pm_pgs = 1..Len(pm_pgs)
  BY LenProperties DEF SlotsTypeOK
<1> QED BY <1>1 DEF SlotsInv, SlotsAligned, SetupComplete, SlotOK

LEMMA SlotsPointwisePrime ==
  ASSUME SlotsTypeOK'
  PROVE  SlotsInv' <=>
           /\ Len(pm_pools') = Len(pm_pgs')
           /\ Len(pm_state') = Len(pm_pgs')
           /\ Len(pm_data') = Len(pm_pgs')
           /\ \A i \in 1..Len(pm_pgs') :
                SlotOK(pm_pgs'[i], pm_pools'[i], pm_state'[i], pm_data'[i])
<1>1. DOMAIN pm_pgs' = 1..Len(pm_pgs')
  BY LenProperties DEF SlotsTypeOK
<1> QED BY <1>1 DEF SlotsInv, SlotsAligned, SetupComplete, SlotOK

LEMMA SlotTypes ==
  ASSUME SlotsInv, NEW i \in 1..Len(pm_pgs)
  PROVE  /\ pm_pgs[i] \in Pg
         /\ pm_pools[i] \in Pool
         /\ pm_state[i] \in QueryStates \cup {Hole}
         /\ pm_data[i] \in DataPoints \cup {Hole}
         /\ SlotOK(pm_pgs[i], pm_pools[i], pm_state[i], pm_data[i])
<1>1. SlotsTypeOK
  BY DEF SlotsInv
<1>2. Len(pm_pools) = Len(pm_pgs) /\ Len(pm_state) = Len(pm_pgs)
        /\ Len(pm_data) = Len(pm_pgs)
  BY DEF SlotsInv, SlotsAligned
<1>3. SlotOK(pm_pgs[i], pm_pools[i], pm_state[i], pm_data[i])
  BY <1>1, SlotsPointwise
<1> QED BY <1>1, <1>2, <1>3, ElementOfSeq DEF SlotsTypeOK

(* A function of the queries is never a hole: there is a query.            *)
LEMMA NotAHole ==
  ASSUME NEW T, NEW f \in [Queries -> T]
  PROVE  f # Hole
<1>1. DOMAIN f = Queries /\ DOMAIN Hole = {}
  BY DEF Hole
<1> QED BY <1>1, QueriesAssumption

LEMMA AddedKeepsSlots ==
  ASSUME SlotsInv, NEW b \in Backends, Added(b)
  PROVE  SlotsInv'
<1> USE DEF SlotsTypeOK
<1>1. /\ NewPg(b) \in Pg /\ NewPool(b) \in Pool
      /\ SlotOK(NewPg(b), NewPool(b), Hole, Hole)
  BY DEF NewPg, NewPool, Pg, Pool, SlotOK
<1>2. /\ pm_pgs' = Append(pm_pgs, NewPg(b))
      /\ pm_pools' = Append(pm_pools, NewPool(b))
      /\ pm_state' = Append(pm_state, Hole)
      /\ pm_data' = Append(pm_data, Hole)
  BY DEF Added
<1>3. SlotsTypeOK'
  BY <1>1, <1>2, AppendProperties DEF SlotsInv
<1>4. SlotsTypeOK /\ \A i \in 1..Len(pm_pgs) :
        SlotOK(pm_pgs[i], pm_pools[i], pm_state[i], pm_data[i])
  BY SlotTypes DEF SlotsInv
<1>5. /\ Len(pm_pools) = Len(pm_pgs) /\ Len(pm_state) = Len(pm_pgs)
      /\ Len(pm_data) = Len(pm_pgs) /\ Len(pm_pgs) \in Nat
  BY <1>4, LenProperties DEF SlotsInv, SlotsAligned
<1>6. \A i \in 1..Len(pm_pgs') :
        SlotOK(pm_pgs'[i], pm_pools'[i], pm_state'[i], pm_data'[i])
  BY <1>1, <1>2, <1>4, <1>5
<1> QED BY <1>2, <1>3, <1>4, <1>5, <1>6, SlotsPointwisePrime

LEMMA RemoveKeepsSlots ==
  ASSUME SlotsInv, NEW pi \in 1..Len(pm_pgs), RemoveConnectionData(pi)
  PROVE  SlotsInv'
<1>1. SlotsTypeOK /\ \A i \in 1..Len(pm_pgs) :
        SlotOK(pm_pgs[i], pm_pools[i], pm_state[i], pm_data[i])
  BY SlotTypes DEF SlotsInv
<1>2. /\ Len(pm_pools) = Len(pm_pgs) /\ Len(pm_state) = Len(pm_pgs)
      /\ Len(pm_data) = Len(pm_pgs) /\ Len(pm_pgs) \in Nat
  BY <1>1, LenProperties DEF SlotsInv, SlotsAligned, SlotsTypeOK
<1>3. /\ pm_pgs' \in Seq(Pg) /\ Len(pm_pgs') = Len(pm_pgs) - 1
      /\ \A j \in 1..(Len(pm_pgs) - 1) :
           pm_pgs'[j] = IF j < pi THEN pm_pgs[j] ELSE pm_pgs[j + 1]
  <2>1. pm_pgs \in Seq(Pg) /\ pi \in 1..Len(pm_pgs)
    BY <1>1, <1>2 DEF SlotsTypeOK
  <2>2. /\ RemoveAt(pm_pgs, pi) \in Seq(Pg)
        /\ Len(RemoveAt(pm_pgs, pi)) = Len(pm_pgs) - 1
        /\ \A j \in 1..(Len(pm_pgs) - 1) :
             RemoveAt(pm_pgs, pi)[j] = IF j < pi THEN pm_pgs[j] ELSE pm_pgs[j + 1]
    BY <2>1, RemoveAtProperties
  <2> QED BY <1>2, <2>2 DEF RemoveConnectionData
<1>4. /\ pm_pools' \in Seq(Pool) /\ Len(pm_pools') = Len(pm_pgs) - 1
      /\ \A j \in 1..(Len(pm_pgs) - 1) :
           pm_pools'[j] = IF j < pi THEN pm_pools[j] ELSE pm_pools[j + 1]
  <2>1. pm_pools \in Seq(Pool) /\ pi \in 1..Len(pm_pools)
    BY <1>1, <1>2 DEF SlotsTypeOK
  <2>2. /\ RemoveAt(pm_pools, pi) \in Seq(Pool)
        /\ Len(RemoveAt(pm_pools, pi)) = Len(pm_pools) - 1
        /\ \A j \in 1..(Len(pm_pools) - 1) :
             RemoveAt(pm_pools, pi)[j] = IF j < pi THEN pm_pools[j] ELSE pm_pools[j + 1]
    BY <2>1, RemoveAtProperties
  <2> QED BY <1>2, <2>2 DEF RemoveConnectionData
<1>5. /\ pm_state' \in Seq(QueryStates \cup {Hole})
      /\ Len(pm_state') = Len(pm_pgs) - 1
      /\ \A j \in 1..(Len(pm_pgs) - 1) :
           pm_state'[j] = IF j < pi THEN pm_state[j] ELSE pm_state[j + 1]
  <2>1. pm_state \in Seq(QueryStates \cup {Hole}) /\ pi \in 1..Len(pm_state)
    BY <1>1, <1>2 DEF SlotsTypeOK
  <2>2. /\ RemoveAt(pm_state, pi) \in Seq(QueryStates \cup {Hole})
        /\ Len(RemoveAt(pm_state, pi)) = Len(pm_state) - 1
        /\ \A j \in 1..(Len(pm_state) - 1) :
             RemoveAt(pm_state, pi)[j] = IF j < pi THEN pm_state[j] ELSE pm_state[j + 1]
    BY <2>1, RemoveAtProperties
  <2> QED BY <1>2, <2>2 DEF RemoveConnectionData
<1>6. /\ pm_data' \in Seq(DataPoints \cup {Hole})
      /\ Len(pm_data') = Len(pm_pgs) - 1
      /\ \A j \in 1..(Len(pm_pgs) - 1) :
           pm_data'[j] = IF j < pi THEN pm_data[j] ELSE pm_data[j + 1]
  <2>1. pm_data \in Seq(DataPoints \cup {Hole}) /\ pi \in 1..Len(pm_data)
    BY <1>1, <1>2 DEF SlotsTypeOK
  <2>2. /\ RemoveAt(pm_data, pi) \in Seq(DataPoints \cup {Hole})
        /\ Len(RemoveAt(pm_data, pi)) = Len(pm_data) - 1
        /\ \A j \in 1..(Len(pm_data) - 1) :
             RemoveAt(pm_data, pi)[j] = IF j < pi THEN pm_data[j] ELSE pm_data[j + 1]
    BY <2>1, RemoveAtProperties
  <2> QED BY <1>2, <2>2 DEF RemoveConnectionData
<1>7. \A j \in 1..Len(pm_pgs') :
        SlotOK(pm_pgs'[j], pm_pools'[j], pm_state'[j], pm_data'[j])
  <2> SUFFICES ASSUME NEW j \in 1..(Len(pm_pgs) - 1)
               PROVE  SlotOK(pm_pgs'[j], pm_pools'[j], pm_state'[j], pm_data'[j])
    BY <1>3
  <2>1. j \in 1..Len(pm_pgs) /\ j + 1 \in 1..Len(pm_pgs)
    BY <1>2
  <2>2. CASE j < pi
    BY <1>1, <1>3, <1>4, <1>5, <1>6, <2>1, <2>2
  <2>3. CASE ~(j < pi)
    BY <1>1, <1>3, <1>4, <1>5, <1>6, <2>1, <2>3
  <2> QED BY <2>2, <2>3
<1>8. SlotsTypeOK'
  BY <1>3, <1>4, <1>5, <1>6 DEF SlotsTypeOK
<1> QED BY <1>3, <1>4, <1>5, <1>6, <1>7, <1>8, SlotsPointwisePrime

LEMMA KeepEvenProperties ==
  ASSUME NEW S, NEW s \in Seq(S)
  PROVE  /\ KeepEven(s) \in Seq(S)
         /\ Len(KeepEven(s)) = Len(s) \div 2
         /\ \A i \in 1..(Len(s) \div 2) :
              2 * i \in 1..Len(s) /\ KeepEven(s)[i] = s[2 * i]
<1>1. Len(s) \in Nat
  BY LenProperties
<1>2. Len(s) \div 2 \in Nat /\ \A i \in 1..(Len(s) \div 2) : 2 * i \in 1..Len(s)
  BY <1>1
<1>3. \A i \in 1..(Len(s) \div 2) : s[2 * i] \in S
  BY <1>2, ElementOfSeq
<1>4. KeepEven(s) \in Seq(S)
  BY <1>2, <1>3, IsASeq DEF KeepEven
<1>5. DOMAIN KeepEven(s) = 1..(Len(s) \div 2)
  BY DEF KeepEven
<1>6. Len(KeepEven(s)) = Len(s) \div 2
  BY <1>2, <1>4, <1>5, LenProperties
<1> QED BY <1>2, <1>4, <1>6 DEF KeepEven

LEMMA StopKeepsSlots ==
  ASSUME SlotsInv, Stop
  PROVE  SlotsInv'
<1>1. SlotsTypeOK /\ \A i \in 1..Len(pm_pgs) :
        SlotOK(pm_pgs[i], pm_pools[i], pm_state[i], pm_data[i])
  BY SlotTypes DEF SlotsInv
<1>2. /\ Len(pm_pools) = Len(pm_pgs) /\ Len(pm_state) = Len(pm_pgs)
      /\ Len(pm_data) = Len(pm_pgs)
  BY DEF SlotsInv, SlotsAligned
<1>3. /\ pm_pgs' = KeepEven(pm_pgs) /\ pm_pools' = KeepEven(pm_pools)
      /\ pm_state' = KeepEven(pm_state) /\ pm_data' = KeepEven(pm_data)
  BY DEF Stop
<1>4. SlotsTypeOK'
  BY <1>1, <1>3, KeepEvenProperties DEF SlotsTypeOK
<1>5. /\ Len(pm_pgs') = Len(pm_pgs) \div 2 /\ Len(pm_pools') = Len(pm_pgs')
      /\ Len(pm_state') = Len(pm_pgs') /\ Len(pm_data') = Len(pm_pgs')
  BY <1>1, <1>2, <1>3, KeepEvenProperties DEF SlotsTypeOK
<1>6. ASSUME NEW i \in 1..Len(pm_pgs')
      PROVE  SlotOK(pm_pgs'[i], pm_pools'[i], pm_state'[i], pm_data'[i])
  <2>1. /\ 2 * i \in 1..Len(pm_pgs)
        /\ pm_pgs'[i] = pm_pgs[2 * i] /\ pm_pools'[i] = pm_pools[2 * i]
        /\ pm_state'[i] = pm_state[2 * i] /\ pm_data'[i] = pm_data[2 * i]
    BY <1>1, <1>2, <1>3, <1>5, KeepEvenProperties DEF SlotsTypeOK
  <2> QED BY <1>1, <2>1
<1> QED BY <1>4, <1>5, <1>6, SlotsPointwisePrime

(* A callback that assigns to one slot.                                    *)
LEMMA UpdateKeepsSlots ==
  ASSUME SlotsInv, NEW pi \in 1..Len(pm_pgs),
         NEW pg \in Pg, NEW pool \in Pool,
         NEW state \in QueryStates \cup {Hole}, NEW data \in DataPoints \cup {Hole},
         SlotOK(pg, pool, state, data),
         pm_pgs' = [pm_pgs EXCEPT ![pi] = pg],
         pm_pools' = [pm_pools EXCEPT ![pi] = pool],
         pm_state' = [pm_state EXCEPT ![pi] = state],
         pm_data' = [pm_data EXCEPT ![pi] = data]
  PROVE  SlotsInv'
<1>1. SlotsTypeOK /\ \A i \in 1..Len(pm_pgs) :
        SlotOK(pm_pgs[i], pm_pools[i], pm_state[i], pm_data[i])
  BY SlotTypes DEF SlotsInv
<1>2. /\ Len(pm_pools) = Len(pm_pgs) /\ Len(pm_state) = Len(pm_pgs)
      /\ Len(pm_data) = Len(pm_pgs)
  BY DEF SlotsInv, SlotsAligned
<1>3. /\ pm_pgs' \in Seq(Pg) /\ Len(pm_pgs') = Len(pm_pgs)
      /\ \A i \in 1..Len(pm_pgs) : pm_pgs'[i] = IF i = pi THEN pg ELSE pm_pgs[i]
  BY <1>1, ExceptSeq DEF SlotsTypeOK
<1>4. /\ pm_pools' \in Seq(Pool) /\ Len(pm_pools') = Len(pm_pgs)
      /\ \A i \in 1..Len(pm_pgs) :
           pm_pools'[i] = IF i = pi THEN pool ELSE pm_pools[i]
  BY <1>1, <1>2, ExceptSeq DEF SlotsTypeOK
<1>5. /\ pm_state' \in Seq(QueryStates \cup {Hole}) /\ Len(pm_state') = Len(pm_pgs)
      /\ \A i \in 1..Len(pm_pgs) :
           pm_state'[i] = IF i = pi THEN state ELSE pm_state[i]
  BY <1>1, <1>2, ExceptSeq DEF SlotsTypeOK
<1>6. /\ pm_data' \in Seq(DataPoints \cup {Hole}) /\ Len(pm_data') = Len(pm_pgs)
      /\ \A i \in 1..Len(pm_pgs) :
           pm_data'[i] = IF i = pi THEN data ELSE pm_data[i]
  BY <1>1, <1>2, ExceptSeq DEF SlotsTypeOK
<1>7. SlotsTypeOK'
  BY <1>3, <1>4, <1>5, <1>6 DEF SlotsTypeOK
<1>8. \A i \in 1..Len(pm_pgs') :
        SlotOK(pm_pgs'[i], pm_pools'[i], pm_state'[i], pm_data'[i])
  BY <1>1, <1>3, <1>4, <1>5, <1>6
<1> QED BY <1>3, <1>4, <1>5, <1>6, <1>7, <1>8, SlotsPointwisePrime

(* Assigning an element its own value changes nothing.                     *)
LEMMA SameElement ==
  ASSUME NEW S, NEW s \in Seq(S), NEW i \in 1..Len(s)
  PROVE  s = [s EXCEPT ![i] = s[i]]
<1>1. s \in [1..Len(s) -> S]
  BY LenProperties
<1> QED BY <1>1

LEMMA SameSlot ==
  ASSUME SlotsInv, NEW pi \in 1..Len(pm_pgs)
  PROVE  /\ pm_pgs = [pm_pgs EXCEPT ![pi] = pm_pgs[pi]]
         /\ pm_pools = [pm_pools EXCEPT ![pi] = pm_pools[pi]]
         /\ pm_state = [pm_state EXCEPT ![pi] = pm_state[pi]]
         /\ pm_data = [pm_data EXCEPT ![pi] = pm_data[pi]]
<1>1. /\ Len(pm_pools) = Len(pm_pgs) /\ Len(pm_state) = Len(pm_pgs)
      /\ Len(pm_data) = Len(pm_pgs)
  BY DEF SlotsInv, SlotsAligned
<1> QED BY <1>1, SameElement DEF SlotsInv, SlotsTypeOK

(* Giving up a handle touches no other field of a slot.                    *)
LEMMA ExpireProperties ==
  ASSUME SlotsTypeOK, NEW h \in Backends
  PROVE  /\ Expire(pm_pgs, h) \in Seq(Pg)
         /\ Len(Expire(pm_pgs, h)) = Len(pm_pgs)
         /\ \A i \in 1..Len(pm_pgs) :
              /\ Expire(pm_pgs, h)[i].key = pm_pgs[i].key
              /\ Expire(pm_pgs, h)[i].queries = pm_pgs[i].queries
              /\ Expire(pm_pgs, h)[i].handle =
                   IF pm_pgs[i].handle = h THEN Closed ELSE pm_pgs[i].handle
<1>1. Len(pm_pgs) \in Nat /\ \A i \in 1..Len(pm_pgs) : pm_pgs[i] \in Pg
  BY LenProperties, ElementOfSeq DEF SlotsTypeOK
<1>2. ASSUME NEW i \in 1..Len(pm_pgs)
      PROVE  /\ Expire(pm_pgs, h)[i] \in Pg
             /\ Expire(pm_pgs, h)[i].key = pm_pgs[i].key
             /\ Expire(pm_pgs, h)[i].queries = pm_pgs[i].queries
             /\ Expire(pm_pgs, h)[i].handle =
                  IF pm_pgs[i].handle = h THEN Closed ELSE pm_pgs[i].handle
  <2>1. Expire(pm_pgs, h)[i] =
          IF pm_pgs[i].handle = h THEN [pm_pgs[i] EXCEPT !.handle = Closed]
          ELSE pm_pgs[i]
    BY DEF Expire
  <2> QED BY <1>1, <2>1 DEF Pg
<1>3. /\ Expire(pm_pgs, h) \in [1..Len(pm_pgs) -> Pg]
  BY <1>2 DEF Expire
<1>4. Expire(pm_pgs, h) \in Seq(Pg)
  BY <1>1, <1>3, SeqDef
<1>5. Len(Expire(pm_pgs, h)) = Len(pm_pgs)
  BY <1>1, <1>3, <1>4, LenProperties
<1> QED BY <1>2, <1>4, <1>5
-----------------------------------------------------------------------------
(* SlotsInv is inductive on its own: one lemma per action that assigns to  *)
(* the arrays.                                                             *)

LEMMA ThrowKeepsSlots ==
  ASSUME SlotsInv, UNCHANGED slots
  PROVE  SlotsInv'
<1>1. /\ pm_pgs' = pm_pgs /\ pm_pools' = pm_pools
      /\ pm_state' = pm_state /\ pm_data' = pm_data
  BY DEF slots
<1> QED BY <1>1 DEF SlotsInv, SlotsTypeOK, SlotsAligned, SetupComplete

LEMMA SetupBackendKeepsSlots ==
  ASSUME SlotsInv, SetupBackend
  PROVE  SlotsInv'
<1> DEFINE pi == IF Head(immediates) = LastAdded THEN ind ELSE Head(immediates)
<1>1. CASE UNCHANGED slots
  BY <1>1, ThrowKeepsSlots
<1>2. CASE /\ InRange(pi)
           /\ pm_pools' = [pm_pools EXCEPT ![pi].setting_up = TRUE]
           /\ UNCHANGED <<pm_pgs, pm_state, pm_data>>
  <2>1. pi \in 1..Len(pm_pgs)
    BY <1>2 DEF InRange
  <2> DEFINE pool == [pm_pools[pi] EXCEPT !.setting_up = TRUE]
  <2>2. /\ pool \in Pool
        /\ SlotOK(pm_pgs[pi], pool, pm_state[pi], pm_data[pi])
    BY <2>1, SlotTypes DEF Pool, SlotOK
  <2>3. /\ pm_pgs' = [pm_pgs EXCEPT ![pi] = pm_pgs[pi]]
        /\ pm_pools' = [pm_pools EXCEPT ![pi] = pool]
        /\ pm_state' = [pm_state EXCEPT ![pi] = pm_state[pi]]
        /\ pm_data' = [pm_data EXCEPT ![pi] = pm_data[pi]]
    BY <1>2, <2>1, SameSlot
  <2> HIDE DEF pool, pi
  <2> QED BY <2>1, <2>2, <2>3, SlotTypes, UpdateKeepsSlots
<1> QED BY <1>1, <1>2 DEF SetupBackend, Throw, slots

LEMMA SetupReturnsKeepsSlots ==
  ASSUME SlotsInv, setups \subseteq [pi : Index, backend : Backends],
         NEW s \in setups, NEW ok \in BOOLEAN, SetupReturns(s, ok)
  PROVE  SlotsInv'
<1> DEFINE pi == s.pi
<1>1. CASE UNCHANGED slots
  BY <1>1, ThrowKeepsSlots
<1>2. CASE InRange(pi) /\ ~UNCHANGED slots
  <2>1. pi \in 1..Len(pm_pgs) /\ s.backend \in Backends
    BY <1>2 DEF InRange
  <2> DEFINE pool == [pm_pools[pi] EXCEPT !.setting_up = FALSE,
                                          !.needs_setup = ~ok]
             pg == [pm_pgs[pi] EXCEPT !.queries = s.backend]
             noState == [q \in Queries |-> FALSE]
             noData == [q \in Queries |-> None]
  <2>2. /\ pm_pgs[pi] \in Pg /\ pm_pools[pi] \in Pool
        /\ pm_state[pi] \in QueryStates \cup {Hole}
        /\ pm_data[pi] \in DataPoints \cup {Hole}
        /\ SlotOK(pm_pgs[pi], pm_pools[pi], pm_state[pi], pm_data[pi])
    BY <2>1, SlotTypes
  <2>3. pool \in Pool /\ pool.key = pm_pools[pi].key /\ pool.needs_setup = ~ok
    BY <2>2 DEF Pool
  <2>4. pm_pools' = [pm_pools EXCEPT ![pi] = pool]
    BY <1>2 DEF SetupReturns, Throw
  <2>5. CASE ok
    <3>1. /\ noState \in QueryStates /\ noState # Hole
          /\ noData \in DataPoints /\ noData # Hole
      <4>1. noState \in [Queries -> BOOLEAN]
            /\ noData \in [Queries -> Backends \cup {None}]
        OBVIOUS
      <4> QED BY <4>1, NotAHole DEF QueryStates, DataPoints
    <3>2. pg \in Pg /\ pg.key = pm_pgs[pi].key /\ pg.queries # None
      BY <2>1, <2>2, BackendsAssumption DEF Pg
    <3>3. SlotOK(pg, pool, noState, noData)
      BY <2>2, <2>3, <3>1, <3>2 DEF SlotOK
    <3>4. /\ pm_pgs' = [pm_pgs EXCEPT ![pi] = pg]
          /\ pm_state' = [pm_state EXCEPT ![pi] = noState]
          /\ pm_data' = [pm_data EXCEPT ![pi] = noData]
      BY <1>2, <2>5 DEF SetupReturns, Throw, AddQueryData
    <3> HIDE DEF pi, pool, pg, noState, noData
    <3> QED BY <2>1, <2>3, <2>4, <3>1, <3>2, <3>3, <3>4, UpdateKeepsSlots
  <2>6. CASE ~ok
    <3>1. SlotOK(pm_pgs[pi], pool, pm_state[pi], pm_data[pi])
      BY <2>2, <2>3, <2>6 DEF SlotOK
    <3>2. /\ pm_pgs' = [pm_pgs EXCEPT ![pi] = pm_pgs[pi]]
          /\ pm_state' = [pm_state EXCEPT ![pi] = pm_state[pi]]
          /\ pm_data' = [pm_data EXCEPT ![pi] = pm_data[pi]]
      <4>1. UNCHANGED <<pm_pgs, pm_state, pm_data>>
        BY <1>2, <2>6 DEF SetupReturns, Throw
      <4> QED BY <2>1, <4>1, SameSlot
    <3> HIDE DEF pi, pool
    <3> QED BY <2>1, <2>2, <2>3, <2>4, <3>1, <3>2, UpdateKeepsSlots
  <2> QED BY <2>5, <2>6
<1> QED BY <1>1, <1>2 DEF SetupReturns, Throw

LEMMA RemovedKeepsSlots ==
  ASSUME SlotsInv, NEW b \in Backends, Removed(b)
  PROVE  SlotsInv'
<1>1. CASE UNCHANGED slots
  BY <1>1, ThrowKeepsSlots
<1>2. ASSUME NEW pi \in DOMAIN pm_pools, RemoveConnectionData(pi)
      PROVE  SlotsInv'
  <2>1. pi \in 1..Len(pm_pgs)
    BY LenProperties DEF SlotsInv, SlotsTypeOK, SlotsAligned
  <2> QED BY <1>2, <2>1, RemoveKeepsSlots
<1> QED BY <1>1, <1>2 DEF Removed, Throw, slots

LEMMA RetryRemovalKeepsSlots ==
  ASSUME SlotsInv, NEW r \in removals, RetryRemoval(r)
  PROVE  SlotsInv'
<1>1. CASE UNCHANGED slots
  BY <1>1, ThrowKeepsSlots
<1>2. CASE HasQueries(r.pi) /\ RemoveConnectionData(r.pi)
  BY <1>2, RemoveKeepsSlots DEF HasQueries, InRange
<1> QED BY <1>1, <1>2 DEF RetryRemoval, Throw

(* A slot with queries has the arrays that go with them.                   *)
LEMMA QueriesMeanArrays ==
  ASSUME SlotsInv, NEW pi, HasQueries(pi)
  PROVE  /\ pi \in 1..Len(pm_pgs)
         /\ pm_state[pi] \in QueryStates
         /\ pm_data[pi] \in DataPoints
         /\ \A f \in QueryStates \cup DataPoints : f # Hole
<1>1. pi \in 1..Len(pm_pgs) /\ pm_pgs[pi].queries # None
  BY DEF HasQueries, InRange
<1>2. pm_state[pi] # Hole /\ pm_data[pi] # Hole
  BY <1>1, SlotTypes DEF SlotOK
<1>3. \A f \in QueryStates \cup DataPoints : f # Hole
  BY NotAHole DEF QueryStates, DataPoints
<1> QED BY <1>1, <1>2, <1>3, SlotTypes

LEMMA ClaimGrantedKeepsSlots ==
  ASSUME SlotsInv, workers \subseteq Worker, pools \in [Backends -> PoolState],
         NEW w \in workers, ClaimGranted(w), w.pool \in Backends
  PROVE  SlotsInv'
<1> DEFINE pi == w.pi
           pg == [pm_pgs[pi] EXCEPT !.handle = w.pool]
           state == [q \in Queries |-> TRUE]
<1>1. CASE UNCHANGED slots
  BY <1>1, ThrowKeepsSlots
<1>2. CASE /\ HasQueries(pi)
           /\ pm_pgs' = [pm_pgs EXCEPT ![pi] = pg]
           /\ pm_state' = [pm_state EXCEPT ![pi] = state]
           /\ UNCHANGED <<pm_pools, pm_data>>
  <2>1. /\ pi \in 1..Len(pm_pgs)
        /\ \A f \in QueryStates \cup DataPoints : f # Hole
    BY <1>2, QueriesMeanArrays
  <2>2. /\ pm_pgs[pi] \in Pg /\ pm_pools[pi] \in Pool
        /\ pm_data[pi] \in DataPoints \cup {Hole}
        /\ SlotOK(pm_pgs[pi], pm_pools[pi], pm_state[pi], pm_data[pi])
    BY <2>1, SlotTypes
  <2>3. pg \in Pg /\ pg.key = pm_pgs[pi].key /\ pg.queries = pm_pgs[pi].queries
    BY <2>2 DEF Pg
  <2>4. state \in QueryStates /\ state # Hole
    <3>1. state \in QueryStates
      BY DEF QueryStates
    <3> QED BY <2>1, <3>1
  <2>5. SlotOK(pg, pm_pools[pi], state, pm_data[pi])
    BY <1>2, <2>2, <2>3, <2>4 DEF SlotOK, HasQueries
  <2>6. /\ pm_pools' = [pm_pools EXCEPT ![pi] = pm_pools[pi]]
        /\ pm_data' = [pm_data EXCEPT ![pi] = pm_data[pi]]
    BY <1>2, <2>1, SameSlot
  <2> HIDE DEF pi, pg, state
  <2> QED BY <1>2, <2>1, <2>2, <2>3, <2>4, <2>5, <2>6, UpdateKeepsSlots
<1> QED BY <1>1, <1>2 DEF ClaimGranted, Throw

(* What the two query listeners assign: the slot's timestamp of q is       *)
(* cleared, and its data points may be replaced.                           *)
LEMMA QueryResultKeepsSlots ==
  ASSUME SlotsInv, NEW pi, HasQueries(pi), NEW q \in Queries,
         NEW data \in DataPoints,
         pm_state' = [pm_state EXCEPT ![pi][q] = FALSE],
         pm_data' = [pm_data EXCEPT ![pi] = data],
         UNCHANGED <<pm_pgs, pm_pools>>
  PROVE  SlotsInv'
<1> DEFINE state == [pm_state[pi] EXCEPT ![q] = FALSE]
<1>1. /\ pi \in 1..Len(pm_pgs) /\ pm_state[pi] \in QueryStates
      /\ \A f \in QueryStates \cup DataPoints : f # Hole
  BY QueriesMeanArrays
<1>2. /\ pm_pgs[pi] \in Pg /\ pm_pools[pi] \in Pool
      /\ SlotOK(pm_pgs[pi], pm_pools[pi], pm_state[pi], pm_data[pi])
  BY <1>1, SlotTypes
<1>3. state \in QueryStates /\ state # Hole
  <2>1. state \in QueryStates
    BY <1>1 DEF QueryStates
  <2> QED BY <1>1, <2>1
<1>4. SlotOK(pm_pgs[pi], pm_pools[pi], state, data)
  BY <1>1, <1>2, <1>3 DEF SlotOK, HasQueries
<1>5. /\ pm_pgs' = [pm_pgs EXCEPT ![pi] = pm_pgs[pi]]
      /\ pm_pools' = [pm_pools EXCEPT ![pi] = pm_pools[pi]]
      /\ pm_state' = [pm_state EXCEPT ![pi] = state]
  BY <1>1, SameSlot
<1> HIDE DEF state
<1> QED BY <1>1, <1>2, <1>3, <1>4, <1>5, UpdateKeepsSlots

LEMMA QueryErrorKeepsSlots ==
  ASSUME SlotsInv, NEW w \in workers, NEW q \in Queries, NEW kind,
         QueryError(w, q, kind)
  PROVE  SlotsInv'
<1>1. CASE UNCHANGED slots
  BY <1>1, ThrowKeepsSlots
<1>2. CASE /\ HasQueries(w.pi)
           /\ pm_state' = [pm_state EXCEPT ![w.pi][q] = FALSE]
           /\ UNCHANGED <<pm_pgs, pm_pools, pm_data>>
  <2>1. w.pi \in 1..Len(pm_pgs) /\ pm_data[w.pi] \in DataPoints
    BY <1>2, QueriesMeanArrays
  <2>2. pm_data' = [pm_data EXCEPT ![w.pi] = pm_data[w.pi]]
    BY <1>2, <2>1, SameSlot
  <2> QED BY <1>2, <2>1, <2>2, QueryResultKeepsSlots
<1> QED BY <1>1, <1>2 DEF QueryError, Throw

LEMMA QueryEndKeepsSlots ==
  ASSUME SlotsInv, NEW w \in workers, NEW q \in Queries, NEW rows \in BOOLEAN,
         QueryEnd(w, q, rows), w.pool \in Backends
  PROVE  SlotsInv'
<1>1. CASE UNCHANGED slots
  BY <1>1, ThrowKeepsSlots
<1>2. CASE /\ HasQueries(w.pi)
           /\ pm_state' = [pm_state EXCEPT ![w.pi][q] = FALSE]
           /\ pm_data' = IF rows THEN [pm_data EXCEPT ![w.pi][q] = w.pool]
                         ELSE pm_data
           /\ UNCHANGED <<pm_pgs, pm_pools>>
  <2>1. w.pi \in 1..Len(pm_pgs) /\ pm_data[w.pi] \in DataPoints
    BY <1>2, QueriesMeanArrays
  <2> DEFINE data == IF rows THEN [pm_data[w.pi] EXCEPT ![q] = w.pool]
                     ELSE pm_data[w.pi]
  <2>2. data \in DataPoints
    BY <2>1 DEF DataPoints
  <2>3. pm_data' = [pm_data EXCEPT ![w.pi] = data]
    <3>1. CASE rows
      BY <1>2, <3>1
    <3>2. CASE ~rows
      BY <1>2, <2>1, <3>2, SameSlot
    <3> QED BY <3>1, <3>2
  <2> HIDE DEF data
  <2> QED BY <1>2, <2>2, <2>3, QueryResultKeepsSlots
<1> QED BY <1>1, <1>2 DEF QueryEnd, Throw, slots

(* New slots that differ from the old ones in their handles only.          *)
LEMMA HandlesKeepSlots ==
  ASSUME SlotsInv, pm_pgs' \in Seq(Pg), Len(pm_pgs') = Len(pm_pgs),
         \A i \in 1..Len(pm_pgs) : /\ pm_pgs'[i].key = pm_pgs[i].key
                                   /\ pm_pgs'[i].queries = pm_pgs[i].queries,
         UNCHANGED <<pm_pools, pm_state, pm_data>>
  PROVE  SlotsInv'
<1>1. SlotsTypeOK'
  BY DEF SlotsInv, SlotsTypeOK
<1>2. \A i \in 1..Len(pm_pgs) :
        SlotOK(pm_pgs[i], pm_pools[i], pm_state[i], pm_data[i])
  BY SlotTypes
<1>3. \A i \in 1..Len(pm_pgs') :
        SlotOK(pm_pgs'[i], pm_pools'[i], pm_state'[i], pm_data'[i])
  BY <1>2 DEF SlotOK
<1>4. /\ Len(pm_pools') = Len(pm_pgs') /\ Len(pm_state') = Len(pm_pgs')
      /\ Len(pm_data') = Len(pm_pgs')
  BY DEF SlotsInv, SlotsAligned
<1> QED BY <1>1, <1>3, <1>4, SlotsPointwisePrime

(* The slots after DrainDone: h is given up, and slot pi forgets it.       *)
Release(h, pi) == [Expire(pm_pgs, h) EXCEPT ![pi].handle = None]

LEMMA ReleaseProperties ==
  ASSUME SlotsTypeOK, NEW h \in Backends, NEW pi \in 1..Len(pm_pgs)
  PROVE  /\ Release(h, pi) \in Seq(Pg) /\ Len(Release(h, pi)) = Len(pm_pgs)
         /\ \A i \in 1..Len(pm_pgs) :
              /\ Release(h, pi)[i].key = pm_pgs[i].key
              /\ Release(h, pi)[i].queries = pm_pgs[i].queries
              /\ Release(h, pi)[i].handle =
                   IF i = pi THEN None
                   ELSE IF pm_pgs[i].handle = h THEN Closed
                   ELSE pm_pgs[i].handle
<1> DEFINE expired == Expire(pm_pgs, h)
           pg == [expired[pi] EXCEPT !.handle = None]
<1>1. /\ expired \in Seq(Pg) /\ Len(expired) = Len(pm_pgs)
      /\ \A i \in 1..Len(pm_pgs) :
           /\ expired[i].key = pm_pgs[i].key
           /\ expired[i].queries = pm_pgs[i].queries
           /\ expired[i].handle =
                IF pm_pgs[i].handle = h THEN Closed ELSE pm_pgs[i].handle
  BY ExpireProperties
<1>2. expired[pi] \in Pg
  BY <1>1, ElementOfSeq
<1>3. /\ pg \in Pg /\ pg.handle = None
      /\ pg.key = expired[pi].key /\ pg.queries = expired[pi].queries
  BY <1>2 DEF Pg
<1>4. Release(h, pi) = [expired EXCEPT ![pi] = pg]
  BY DEF Release
<1> HIDE DEF expired, pg
<1>5. /\ Release(h, pi) \in Seq(Pg) /\ Len(Release(h, pi)) = Len(expired)
      /\ \A i \in 1..Len(expired) :
           Release(h, pi)[i] = IF i = pi THEN pg ELSE expired[i]
  BY <1>1, <1>3, <1>4, ExceptSeq
<1> QED BY <1>1, <1>3, <1>5

LEMMA DrainKeepsSlots ==
  ASSUME SlotsInv, NEW w \in workers, Drain(w)
  PROVE  SlotsInv'
<1>1. CASE UNCHANGED slots
  BY <1>1, ThrowKeepsSlots
<1>2. SlotsTypeOK
  BY DEF SlotsInv
<1>3. CASE DrainTimeout(w) /\ UNCHANGED <<pm_pools, pm_state, pm_data>>
  BY <1>2, <1>3, ExpireProperties, HandlesKeepSlots DEF DrainTimeout
<1>4. CASE /\ InRange(w.pi) /\ DrainDone(w)
           /\ UNCHANGED <<pm_pools, pm_state, pm_data>>
  <2>1. PICK h \in Backends : pm_pgs' = Release(h, w.pi)
    BY <1>4 DEF DrainDone, Release
  <2>2. w.pi \in 1..Len(pm_pgs)
    BY <1>4 DEF InRange
  <2>3. /\ pm_pgs' \in Seq(Pg) /\ Len(pm_pgs') = Len(pm_pgs)
        /\ \A i \in 1..Len(pm_pgs) : /\ pm_pgs'[i].key = pm_pgs[i].key
                                     /\ pm_pgs'[i].queries = pm_pgs[i].queries
    BY <1>2, <2>1, <2>2, ReleaseProperties
  <2> QED BY <1>4, <2>3, HandlesKeepSlots
<1>5. CASE UNCHANGED <<pm_pools, pm_state, pm_data>> /\ DrainNoConnection(w)
  BY <1>5, ThrowKeepsSlots DEF DrainNoConnection, slots
<1> QED BY <1>1, <1>3, <1>4, <1>5 DEF Drain, Throw, OwnsHandle

-----------------------------------------------------------------------------
(* Type correctness of the rest of the state.                              *)

RestTypeOK ==
  /\ ind \in Nat
  /\ immediates \in Seq(Index \cup {LastAdded})
  /\ setups \subseteq [pi : Index, backend : Backends]
  /\ ticks \in [Ticks -> {"idle", "first", "open"}]
  /\ workers \subseteq Worker
  /\ removals \subseteq [key : Backends, pi : Index, backoffs : 1..NumBackoffs]
  /\ discovered \in [Backends -> {"unseen", "present", "removed"}]
  /\ pools \in [Backends -> PoolState]
  /\ interval \in {"null", "armed", "cleared"}
  /\ phase \in {"starting", "running", "stopped"}
  /\ thrown \in ThrowSite \cup {"no"}

(* A worker that has left the queue knows its pool, and only one that has  *)
(* its connection waits for queries.                                       *)
WorkersKnowPool ==
  \A w \in workers : /\ w.stage # "queued" => w.pool \in Backends
                     /\ w.running # {} => w.stage = "querying"

IInv == SlotsInv /\ RestTypeOK /\ WorkersKnowPool

LEMMA InvariantParts == IInv <=> TypeOK /\ SlotsAligned /\ SetupComplete
                                        /\ WorkersKnowPool
BY DEF IInv, SlotsInv, RestTypeOK, TypeOK

LEMMA ThrowKeepsInv ==
  ASSUME IInv, thrown' \in ThrowSite,
         UNCHANGED <<slots, ind, immediates, setups, ticks, workers, removals,
                     discovered, pools, interval, phase>>
  PROVE  IInv'
<1>1. SlotsInv'
  BY ThrowKeepsSlots DEF IInv
<1> QED BY <1>1 DEF IInv, RestTypeOK, WorkersKnowPool

(* Replacing or dropping one worker.                                       *)
LEMMA UpdateWorkerTypes ==
  ASSUME workers \subseteq Worker, WorkersKnowPool, NEW w \in workers,
         NEW v \in Worker, v.stage # "queued" => v.pool \in Backends,
         v.running # {} => v.stage = "querying", UpdateWorker(w, v)
  PROVE  workers' \subseteq Worker /\ WorkersKnowPool'
BY DEF UpdateWorker, WorkersKnowPool

LEMMA DisconnectTypes ==
  ASSUME NEW ws, ws \subseteq workers, workers \subseteq Worker,
         WorkersKnowPool, NEW h, workers' = Disconnect(ws, h)
  PROVE  workers' \subseteq Worker /\ WorkersKnowPool'
<1>1. ASSUME NEW v \in ws
      PROVE  /\ [v EXCEPT !.gone = TRUE] \in Worker
             /\ [v EXCEPT !.gone = TRUE].stage = v.stage
             /\ [v EXCEPT !.gone = TRUE].pool = v.pool
             /\ [v EXCEPT !.gone = TRUE].running = v.running
  BY <1>1 DEF Worker
<1>2. ASSUME NEW u \in workers'
      PROVE  /\ u \in Worker
             /\ u.stage # "queued" => u.pool \in Backends
             /\ u.running # {} => u.stage = "querying"
  <2>1. PICK v \in ws : u = IF v.pool = h /\ v.stage = "querying"
                            THEN [v EXCEPT !.gone = TRUE] ELSE v
    BY <1>2 DEF Disconnect
  <2> QED BY <1>1, <2>1 DEF WorkersKnowPool
<1> QED BY <1>2 DEF WorkersKnowPool

LEMMA AppendImmediate ==
  ASSUME immediates \in Seq(Index \cup {LastAdded}),
         NEW pi \in Index \cup {LastAdded}
  PROVE  Append(immediates, pi) \in Seq(Index \cup {LastAdded})
BY AppendProperties

LEMMA InitHolds == Init => IInv
<1> SUFFICES ASSUME Init PROVE IInv
  OBVIOUS
<1> USE DEF Init
<1>1. SlotsTypeOK
  BY EmptySeq DEF SlotsTypeOK
<1>2. Len(pm_pgs) = 0 /\ Len(pm_pools) = 0 /\ Len(pm_state) = 0 /\ Len(pm_data) = 0
  BY EmptySeq
<1>3. SlotsInv
  BY <1>1, <1>2, SlotsPointwise
<1>4. RestTypeOK
  BY EmptySeq DEF RestTypeOK, PoolState
<1>5. WorkersKnowPool
  BY DEF WorkersKnowPool
<1> QED BY <1>3, <1>4, <1>5 DEF IInv

LEMMA EnvironmentKeepsInv ==
  ASSUME IInv, NEW b \in Backends
  PROVE  /\ Connected(b) => IInv'
         /\ DestroyClient(b) => IInv'
         /\ Added(b) => IInv'
<1>1. ASSUME Connected(b) PROVE IInv'
  <2>1. SlotsInv'
    BY <1>1, ThrowKeepsSlots DEF IInv, Connected
  <2>2. RestTypeOK' /\ WorkersKnowPool'
    BY <1>1 DEF IInv, RestTypeOK, WorkersKnowPool, PoolState, Connected
  <2> QED BY <2>1, <2>2 DEF IInv
<1>2. ASSUME DestroyClient(b) PROVE IInv'
  <2>1. SlotsInv'
    BY <1>2, ThrowKeepsSlots DEF IInv, DestroyClient
  <2>2. workers' \subseteq Worker /\ WorkersKnowPool'
    BY <1>2, DisconnectTypes DEF IInv, RestTypeOK, DestroyClient
  <2>3. RestTypeOK'
    BY <1>2, <2>2 DEF IInv, RestTypeOK, DestroyClient
  <2> QED BY <2>1, <2>2, <2>3 DEF IInv
<1>3. ASSUME Added(b) PROVE IInv'
  <2>1. SlotsInv'
    BY <1>3, AddedKeepsSlots DEF IInv
  <2>2. ind' \in Nat
    BY <1>3, LenProperties DEF IInv, SlotsInv, SlotsTypeOK, Added
  <2>3. immediates' \in Seq(Index \cup {LastAdded})
    BY <1>3, AppendImmediate DEF IInv, RestTypeOK, Added
  <2>4. RestTypeOK' /\ WorkersKnowPool'
    BY <1>3, <2>2, <2>3
       DEF IInv, RestTypeOK, WorkersKnowPool, PoolState, Added
  <2> QED BY <2>1, <2>4 DEF IInv
<1> QED BY <1>1, <1>2, <1>3

LEMMA SetupKeepsInv ==
  ASSUME IInv
  PROVE  /\ SetupBackend => IInv'
         /\ \A s \in setups, ok \in BOOLEAN : SetupReturns(s, ok) => IInv'
<1>1. ASSUME SetupBackend PROVE IInv'
  <2> DEFINE pi == IF Head(immediates) = LastAdded THEN ind ELSE Head(immediates)
  <2>1. CASE Throw("setup_backend")
    BY <2>1, ThrowKeepsInv DEF Throw, ThrowSite
  <2>2. CASE ~Throw("setup_backend")
    <3>1. SlotsInv'
      BY <1>1, SetupBackendKeepsSlots DEF IInv
    <3>2. immediates' \in Seq(Index \cup {LastAdded})
      <4>1. immediates # <<>> /\ immediates' = Tail(immediates)
        BY <1>1, <2>2 DEF SetupBackend
      <4> QED BY <4>1, HeadTailProperties DEF IInv, RestTypeOK
    <3>3. pi \in 1..Len(pm_pgs) => pi \in Index /\ pm_pools[pi].key \in Backends
      BY SlotTypes DEF IInv, Index, Pool
    <3> HIDE DEF pi
    <3>4. setups' \subseteq [pi : Index, backend : Backends]
      BY <1>1, <2>2, <3>3
         DEF IInv, RestTypeOK, SetupBackend, InRange, pi
    <3>5. RestTypeOK' /\ WorkersKnowPool'
      BY <1>1, <2>2, <3>2, <3>4
         DEF IInv, RestTypeOK, WorkersKnowPool, SetupBackend
    <3> QED BY <3>1, <3>5 DEF IInv
  <2> QED BY <2>1, <2>2
<1>2. ASSUME NEW s \in setups, NEW ok \in BOOLEAN, SetupReturns(s, ok)
      PROVE  IInv'
  <2>1. CASE Throw("setup callback")
    BY <2>1, ThrowKeepsInv DEF Throw, ThrowSite
  <2>2. CASE ~Throw("setup callback")
    <3>1. SlotsInv'
      BY <1>2, SetupReturnsKeepsSlots DEF IInv, RestTypeOK
    <3>2. RestTypeOK' /\ WorkersKnowPool'
      BY <1>2, <2>2 DEF IInv, RestTypeOK, WorkersKnowPool, SetupReturns
    <3> QED BY <3>1, <3>2 DEF IInv
  <2> QED BY <2>1, <2>2
<1> QED BY <1>1, <1>2

LEMMA RemovalKeepsInv ==
  ASSUME IInv
  PROVE  /\ \A b \in Backends : Removed(b) => IInv'
         /\ \A r \in removals : RetryRemoval(r) => IInv'
<1>1. ASSUME NEW b \in Backends, Removed(b) PROVE IInv'
  <2>1. CASE Throw("is_running")
    BY <2>1, ThrowKeepsInv DEF Throw, ThrowSite
  <2>2. CASE ~Throw("is_running")
    <3>1. SlotsInv'
      BY <1>1, RemovedKeepsSlots DEF IInv
    <3>2. DOMAIN pm_pools \subseteq Index
      BY LenProperties DEF IInv, SlotsInv, SlotsTypeOK, Index
    <3>3. \A p \in PoolState : StopPool(p) \in PoolState
      BY DEF StopPool, PoolState
    <3>4. RestTypeOK' /\ WorkersKnowPool'
      BY <1>1, <2>2, <3>2, <3>3
         DEF IInv, RestTypeOK, WorkersKnowPool, Removed, NumBackoffs
    <3> QED BY <3>1, <3>4 DEF IInv
  <2> QED BY <2>1, <2>2
<1>2. ASSUME NEW r \in removals, RetryRemoval(r) PROVE IInv'
  <2>1. CASE Throw("is_running")
    BY <2>1, ThrowKeepsInv DEF Throw, ThrowSite
  <2>2. CASE ~Throw("is_running")
    <3>1. SlotsInv'
      BY <1>2, RetryRemovalKeepsSlots DEF IInv
    <3>2. removals' \subseteq [key : Backends, pi : Index,
                               backoffs : 1..NumBackoffs]
      BY <1>2, <2>2 DEF IInv, RestTypeOK, RetryRemoval, NumBackoffs
    <3>3. RestTypeOK' /\ WorkersKnowPool'
      BY <1>2, <2>2, <3>2 DEF IInv, RestTypeOK, WorkersKnowPool, RetryRemoval
    <3> QED BY <3>1, <3>3 DEF IInv
  <2> QED BY <2>1, <2>2
<1> QED BY <1>1, <1>2

LEMMA TickKeepsInv ==
  ASSUME IInv, NEW t \in Ticks
  PROVE  /\ FirstTick(t) => IInv'
         /\ IntervalFires(t) => IInv'
         /\ QueueEnd(t) => IInv'
<1>1. ASSUME FirstTick(t) \/ IntervalFires(t) PROVE IInv'
  <2>1. SlotsInv'
    BY <1>1, ThrowKeepsSlots DEF IInv, FirstTick, IntervalFires
  <2>2. \A i \in DOMAIN pm_pgs : /\ QueuedWorker(t, i) \in Worker
                                 /\ QueuedWorker(t, i).stage = "queued"
                                 /\ QueuedWorker(t, i).running = {}
    <3>1. DOMAIN pm_pgs \subseteq Index
      BY LenProperties DEF IInv, SlotsInv, SlotsTypeOK, Index
    <3>2. <<>> \in Seq(ErrorKind)
      BY EmptySeq
    <3> QED BY <3>1, <3>2 DEF QueuedWorker, Worker
  <2>3. workers' = workers \cup {QueuedWorker(t, i) : i \in DOMAIN pm_pgs}
    BY <1>1 DEF FirstTick, IntervalFires, BeginTick
  <2>4. workers' \subseteq Worker /\ WorkersKnowPool'
    BY <2>2, <2>3 DEF IInv, RestTypeOK, WorkersKnowPool
  <2>5. RestTypeOK'
    BY <1>1, <2>4 DEF IInv, RestTypeOK, FirstTick, IntervalFires, BeginTick
  <2> QED BY <2>1, <2>4, <2>5 DEF IInv
<1>2. ASSUME QueueEnd(t) PROVE IInv'
  <2>1. SlotsInv'
    BY <1>2, ThrowKeepsSlots DEF IInv, QueueEnd
  <2>2. RestTypeOK' /\ WorkersKnowPool'
    BY <1>2 DEF IInv, RestTypeOK, WorkersKnowPool, QueueEnd
  <2> QED BY <2>1, <2>2 DEF IInv
<1> QED BY <1>1, <1>2

LEMMA WorkerTypes ==
  ASSUME IInv, NEW w \in workers
  PROVE  /\ w.tick \in Ticks /\ w.pi \in Index /\ w.pi # 0
         /\ w.stage \in {"queued", "claiming", "querying"}
         /\ w.stage # "queued" => w.pool \in Backends
         /\ w.running # {} => w.stage = "querying"
         /\ w.errors \in Seq(ErrorKind)
         /\ w \in Worker
BY DEF IInv, RestTypeOK, WorkersKnowPool, Worker, Index

LEMMA StartKeepsInv ==
  ASSUME IInv, NEW w \in workers, StartWorker(w)
  PROVE  IInv'
<1>1. CASE Throw("enqueue_queries")
  BY <1>1, ThrowKeepsInv DEF Throw, ThrowSite
<1>2. CASE ~Throw("enqueue_queries") /\ pm_pools[w.pi].needs_setup
  <2>1. SlotsInv'
    BY <1>2, ThrowKeepsSlots DEF IInv, StartWorker
  <2>2. immediates' \in Seq(Index \cup {LastAdded})
    <3>1. immediates' = Append(immediates, w.pi)
      BY <1>2 DEF StartWorker
    <3> QED BY <3>1, WorkerTypes, AppendImmediate DEF IInv, RestTypeOK
  <2>3. RestTypeOK' /\ WorkersKnowPool'
    BY <1>2, <2>2 DEF IInv, RestTypeOK, WorkersKnowPool, StartWorker
  <2> QED BY <2>1, <2>3 DEF IInv
<1>3. CASE ~Throw("enqueue_queries") /\ ~pm_pools[w.pi].needs_setup
  <2> DEFINE v == [w EXCEPT !.stage = "claiming", !.pool = pm_pools[w.pi].key]
  <2>1. SlotsInv'
    BY <1>3, ThrowKeepsSlots DEF IInv, StartWorker
  <2>2. pm_pools[w.pi].key \in Backends
    BY <1>3, SlotTypes DEF IInv, StartWorker, InRange, Pool
  <2>4. v \in Worker /\ v.pool \in Backends /\ v.running = {}
    BY <1>3, <2>2, WorkerTypes DEF Worker, StartWorker
  <2>5. UpdateWorker(w, v)
    BY <1>3 DEF StartWorker
  <2>6. workers' \subseteq Worker /\ WorkersKnowPool'
    BY <2>4, <2>5, UpdateWorkerTypes DEF IInv, RestTypeOK
  <2>7. RestTypeOK'
    BY <1>3, <2>6 DEF IInv, RestTypeOK, StartWorker
  <2> QED BY <2>1, <2>6, <2>7 DEF IInv
<1> QED BY <1>1, <1>2, <1>3

LEMMA ClaimKeepsInv ==
  ASSUME IInv, NEW w \in workers
  PROVE  /\ ClaimFails(w) => IInv'
         /\ ClaimGranted(w) => IInv'
<1>1. ASSUME ClaimFails(w) PROVE IInv'
  <2> DEFINE v == [w EXCEPT !.stage = "querying", !.errors = <<"connect">>]
  <2>1. SlotsInv'
    BY <1>1, ThrowKeepsSlots DEF IInv, ClaimFails
  <2>2. <<"connect">> \in Seq(ErrorKind)
    BY DEF ErrorKind
  <2>3. v \in Worker /\ v.pool \in Backends /\ v.stage = "querying"
    BY <1>1, <2>2, WorkerTypes DEF Worker, ClaimFails
  <2>4. UpdateWorker(w, v)
    BY <1>1 DEF ClaimFails
  <2>5. workers' \subseteq Worker /\ WorkersKnowPool'
    BY <2>3, <2>4, UpdateWorkerTypes DEF IInv, RestTypeOK
  <2>6. RestTypeOK'
    BY <1>1, <2>5 DEF IInv, RestTypeOK, ClaimFails
  <2> QED BY <2>1, <2>5, <2>6 DEF IInv
<1>2. ASSUME ClaimGranted(w) PROVE IInv'
  <2>1. CASE Throw("claim callback")
    BY <2>1, ThrowKeepsInv DEF Throw, ThrowSite
  <2>2. CASE ~Throw("claim callback")
    <3> DEFINE started == {q \in Queries : ~pm_state[w.pi][q]}
               v == [w EXCEPT !.stage = "querying", !.running = started]
    <3>1. w.pool \in Backends
      BY <1>2, WorkerTypes DEF ClaimGranted
    <3>2. SlotsInv'
      BY <1>2, <3>1, ClaimGrantedKeepsSlots DEF IInv, RestTypeOK
    <3>3. v \in Worker /\ v.pool \in Backends /\ v.stage = "querying"
      BY <3>1, WorkerTypes DEF Worker
    <3>4. UpdateWorker(w, v)
      BY <1>2, <2>2 DEF ClaimGranted
    <3>5. workers' \subseteq Worker /\ WorkersKnowPool'
      BY <3>3, <3>4, UpdateWorkerTypes DEF IInv, RestTypeOK
    <3>6. RestTypeOK'
      BY <1>2, <2>2, <3>1, <3>5 DEF IInv, RestTypeOK, ClaimGranted, PoolState
    <3> QED BY <3>2, <3>5, <3>6 DEF IInv
  <2> QED BY <2>1, <2>2
<1> QED BY <1>1, <1>2

LEMMA QueryKeepsInv ==
  ASSUME IInv, NEW w \in workers, NEW q \in Queries
  PROVE  /\ \A kind \in {"timeout", "query"} : QueryError(w, q, kind) => IInv'
         /\ \A rows \in BOOLEAN : QueryEnd(w, q, rows) => IInv'
<1>1. ASSUME NEW kind \in {"timeout", "query"}, QueryError(w, q, kind)
      PROVE  IInv'
  <2>1. CASE Throw("query error")
    BY <2>1, ThrowKeepsInv DEF Throw, ThrowSite
  <2>2. CASE ~Throw("query error")
    <3> DEFINE v == [w EXCEPT !.running = @ \ {q}, !.errors = Append(@, kind)]
    <3>1. SlotsInv'
      BY <1>1, QueryErrorKeepsSlots DEF IInv
    <3>2. Append(w.errors, kind) \in Seq(ErrorKind)
      BY WorkerTypes, AppendProperties DEF ErrorKind
    <3>3. v \in Worker /\ v.pool \in Backends /\ v.stage = "querying"
      BY <1>1, <3>2, WorkerTypes DEF Worker, QueryError
    <3>4. UpdateWorker(w, v)
      BY <1>1, <2>2 DEF QueryError
    <3>5. workers' \subseteq Worker /\ WorkersKnowPool'
      BY <3>3, <3>4, UpdateWorkerTypes DEF IInv, RestTypeOK
    <3>6. RestTypeOK'
      BY <1>1, <2>2, <3>5 DEF IInv, RestTypeOK, QueryError
    <3> QED BY <3>1, <3>5, <3>6 DEF IInv
  <2> QED BY <2>1, <2>2
<1>2. ASSUME NEW rows \in BOOLEAN, QueryEnd(w, q, rows)
      PROVE  IInv'
  <2>1. CASE Throw("query end")
    BY <2>1, ThrowKeepsInv DEF Throw, ThrowSite
  <2>2. CASE ~Throw("query end")
    <3> DEFINE v == [w EXCEPT !.running = @ \ {q}]
    <3>1. w.pool \in Backends /\ w.stage = "querying"
      BY <1>2, WorkerTypes DEF QueryEnd
    <3>2. SlotsInv'
      BY <1>2, <3>1, QueryEndKeepsSlots DEF IInv
    <3>3. v \in Worker /\ v.pool \in Backends /\ v.stage = "querying"
      BY <3>1, WorkerTypes DEF Worker
    <3>4. UpdateWorker(w, v)
      BY <1>2, <2>2 DEF QueryEnd
    <3>5. workers' \subseteq Worker /\ WorkersKnowPool'
      BY <3>3, <3>4, UpdateWorkerTypes DEF IInv, RestTypeOK
    <3>6. RestTypeOK'
      BY <1>2, <2>2, <3>5 DEF IInv, RestTypeOK, QueryEnd
    <3> QED BY <3>2, <3>5, <3>6 DEF IInv
  <2> QED BY <2>1, <2>2
<1> QED BY <1>1, <1>2

LEMMA DrainKeepsInv ==
  ASSUME IInv, NEW w \in workers, Drain(w)
  PROVE  IInv'
<1>1. CASE Throw("barrier_drain")
  BY <1>1, ThrowKeepsInv DEF Throw, ThrowSite
<1>2. CASE ~Throw("barrier_drain")
  <2>1. SlotsInv'
    BY DrainKeepsSlots DEF IInv
  <2>2. workers \ {w} \subseteq workers /\ workers \subseteq Worker
    BY DEF IInv, RestTypeOK
  <2>3. \A p \in PoolState : /\ AfterClaim(p, "empty") \in PoolState
                             /\ AfterClaim(p, "idle") \in PoolState
    BY DEF AfterClaim, PoolState
  <2>4. CASE DrainTimeout(w)
    <3>1. workers' \subseteq Worker /\ WorkersKnowPool'
      BY <2>2, <2>4, DisconnectTypes DEF IInv, DrainTimeout
    <3>2. pools' \in [Backends -> PoolState]
      BY <2>3, <2>4 DEF IInv, RestTypeOK, DrainTimeout
    <3> QED BY <1>2, <2>1, <3>1, <3>2 DEF IInv, RestTypeOK, Drain
  <2>5. CASE DrainNoConnection(w) \/ DrainDone(w)
    <3>1. workers' \subseteq Worker /\ WorkersKnowPool'
      BY <2>2, <2>5 DEF IInv, WorkersKnowPool, DrainNoConnection, DrainDone
    <3>2. pools' \in [Backends -> PoolState]
      <4>1. CASE DrainNoConnection(w)
        BY <4>1 DEF IInv, RestTypeOK, DrainNoConnection
      <4>2. CASE DrainDone(w)
        BY <2>3, <4>2 DEF IInv, RestTypeOK, DrainDone
      <4> QED BY <2>5, <4>1, <4>2
    <3> QED BY <1>2, <2>1, <3>1, <3>2 DEF IInv, RestTypeOK, Drain
  <2> QED BY <1>2, <2>4, <2>5 DEF Drain
<1> QED BY <1>1, <1>2

LEMMA StopKeepsInv == IInv /\ Stop => IInv'
<1> SUFFICES ASSUME IInv, Stop PROVE IInv'
  OBVIOUS
<1>1. SlotsInv'
  BY StopKeepsSlots DEF IInv
<1>2. \A p \in PoolState : StopPool(p) \in PoolState
  BY DEF StopPool, PoolState
<1>3. RestTypeOK' /\ WorkersKnowPool'
  BY <1>2 DEF IInv, RestTypeOK, WorkersKnowPool, Stop
<1> QED BY <1>1, <1>3 DEF IInv

LEMMA NextKeepsInv == IInv /\ [Next]_vars => IInv'
<1> SUFFICES ASSUME IInv, [Next]_vars PROVE IInv'
  OBVIOUS
<1>1. CASE UNCHANGED vars
  <2>1. SlotsInv'
    BY <1>1, ThrowKeepsSlots DEF IInv, vars, slots
  <2> QED BY <1>1, <2>1 DEF IInv, RestTypeOK, WorkersKnowPool, vars
<1>2. ASSUME NEW w \in workers, WorkerStep(w) PROVE IInv'
  BY <1>2, StartKeepsInv, ClaimKeepsInv, QueryKeepsInv, DrainKeepsInv
     DEF WorkerStep
<1>3. CASE MonitorStep
  BY <1>2, <1>3, SetupKeepsInv, TickKeepsInv, EnvironmentKeepsInv
     DEF MonitorStep
<1>4. CASE \/ \E b \in Backends : Removed(b) \/ DestroyClient(b)
           \/ \E r \in removals : RetryRemoval(r)
  BY <1>4, RemovalKeepsInv, EnvironmentKeepsInv
<1>5. CASE Stop
  BY <1>5, StopKeepsInv
<1> QED BY <1>1, <1>3, <1>4, <1>5 DEF Next, DiscoveryNext

(* The inductive invariant holds of every behaviour of the monitor,        *)
(* whatever the resolver does and whenever stop() is called.               *)
THEOREM Invariance == Spec => []IInv
<1> QED BY InitHolds, NextKeepsInv, PTL DEF Spec

(* Every variable keeps its type: no callback leaves an array, a worker or *)
(* a removal in a form the code does not expect.                           *)
THEOREM TypeCorrect == Spec => []TypeOK
<1>1. IInv => TypeOK
  BY InvariantParts
<1> QED BY <1>1, Invariance, PTL

(* The arrays that connect(), add_query_data, remove_connection_data and   *)
(* stop() change one by one keep describing the same backends.             *)
THEOREM SlotsStayAligned == Spec => []SlotsAligned
<1>1. IInv => SlotsAligned
  BY InvariantParts
<1> QED BY <1>1, Invariance, PTL

(* tick() never finds a slot that is past its setup without its queries.   *)
THEOREM SetupIsComplete == Spec => []SetupComplete
<1>1. IInv => SetupComplete
  BY InvariantParts
<1> QED BY <1>1, Invariance, PTL
-----------------------------------------------------------------------------
(* Handles.                                                                *)

(* A backend has a pool exactly once it has been announced, and a slot     *)
(* only then; what makes a fresh pool free of old handles.                 *)
PoolsKnown ==
  /\ \A b \in Backends : discovered[b] = "unseen" <=> pools[b] = "none"
  /\ \A i \in 1..Len(pm_pgs) : discovered[pm_pgs[i].key] # "unseen"

HandleInv ==
  /\ \A i \in 1..Len(pm_pgs) :
       pm_pgs[i].handle \in Backends =>
         pools[pm_pgs[i].handle] \in {"claimed", "stopping"}
  /\ \A i, j \in 1..Len(pm_pgs) :
       pm_pgs[i].handle \in Backends /\ pm_pgs[i].handle = pm_pgs[j].handle
         => i = j

HInv == IInv /\ PoolsKnown /\ HandleInv

(* The step of one backend's life that a pool may take while it is claimed. *)
ClaimsKept ==
  \A b \in Backends :
    /\ pools[b] \in {"claimed", "stopping"} => pools'[b] \in {"claimed", "stopping"}
    /\ discovered'[b] = "unseen" <=> pools'[b] = "none"
    /\ discovered[b] # "unseen" => discovered'[b] # "unseen"

(* Slots that are dropped, or stay with their handles, keep HandleInv: f   *)
(* says which slot the i-th one was.                                       *)
LEMMA FewerSlotsKeepHandles ==
  ASSUME HInv, ClaimsKept, Len(pm_pgs') \in Nat,
         NEW f \in [1..Len(pm_pgs') -> 1..Len(pm_pgs)],
         \A i, j \in 1..Len(pm_pgs') : f[i] = f[j] => i = j,
         \A i \in 1..Len(pm_pgs') : /\ pm_pgs'[i].handle = pm_pgs[f[i]].handle
                                    /\ pm_pgs'[i].key = pm_pgs[f[i]].key
  PROVE  PoolsKnown' /\ HandleInv'
<1>1. \A i \in 1..Len(pm_pgs) : pm_pgs[i].key \in Backends
  BY SlotTypes DEF HInv, IInv, Pg
<1>2. PoolsKnown'
  <2>1. \A b \in Backends : discovered'[b] = "unseen" <=> pools'[b] = "none"
    BY DEF ClaimsKept
  <2>2. ASSUME NEW i \in 1..Len(pm_pgs')
        PROVE  discovered'[pm_pgs'[i].key] # "unseen"
    <3>1. f[i] \in 1..Len(pm_pgs) /\ pm_pgs'[i].key = pm_pgs[f[i]].key
      BY <2>2
    <3>2. discovered[pm_pgs[f[i]].key] # "unseen" /\ pm_pgs[f[i]].key \in Backends
      BY <1>1, <3>1 DEF HInv, PoolsKnown
    <3> QED BY <3>1, <3>2 DEF ClaimsKept
  <2> QED BY <2>1, <2>2 DEF PoolsKnown
<1>3. \A i \in 1..Len(pm_pgs') :
        pm_pgs'[i].handle \in Backends =>
          pools'[pm_pgs'[i].handle] \in {"claimed", "stopping"}
  BY DEF HInv, HandleInv, ClaimsKept
<1>4. \A i, j \in 1..Len(pm_pgs') :
        pm_pgs'[i].handle \in Backends /\ pm_pgs'[i].handle = pm_pgs'[j].handle
          => i = j
  BY DEF HInv, HandleInv
<1> QED BY <1>2, <1>3, <1>4 DEF HandleInv

LEMMA SameSlotsKeepHandles ==
  ASSUME HInv, ClaimsKept, Len(pm_pgs') = Len(pm_pgs),
         \A i \in 1..Len(pm_pgs) : /\ pm_pgs'[i].handle = pm_pgs[i].handle
                                   /\ pm_pgs'[i].key = pm_pgs[i].key
  PROVE  PoolsKnown' /\ HandleInv'
<1> DEFINE f == [i \in 1..Len(pm_pgs') |-> i]
<1>1. /\ Len(pm_pgs') \in Nat
      /\ f \in [1..Len(pm_pgs') -> 1..Len(pm_pgs)]
      /\ \A i \in 1..Len(pm_pgs') : f[i] = i
  BY LenProperties DEF HInv, IInv, SlotsInv, SlotsTypeOK
<1> HIDE DEF f
<1> QED BY <1>1, FewerSlotsKeepHandles

LEMMA RemoveKeepsHandles ==
  ASSUME HInv, ClaimsKept, NEW pi \in 1..Len(pm_pgs), RemoveConnectionData(pi)
  PROVE  PoolsKnown' /\ HandleInv'
<1> DEFINE f == [i \in 1..Len(pm_pgs') |-> IF i < pi THEN i ELSE i + 1]
<1>1. /\ Len(pm_pgs) \in Nat /\ Len(pm_pgs') = Len(pm_pgs) - 1
      /\ \A i \in 1..(Len(pm_pgs) - 1) :
           pm_pgs'[i] = IF i < pi THEN pm_pgs[i] ELSE pm_pgs[i + 1]
  <2>1. pm_pgs \in Seq(Pg)
    BY DEF HInv, IInv, SlotsInv, SlotsTypeOK
  <2> QED BY <2>1, LenProperties, RemoveAtProperties DEF RemoveConnectionData
<1>2. /\ f \in [1..Len(pm_pgs') -> 1..Len(pm_pgs)]
      /\ \A i \in 1..Len(pm_pgs') : f[i] = IF i < pi THEN i ELSE i + 1
  BY <1>1
<1> HIDE DEF f
<1>3. \A i, j \in 1..Len(pm_pgs') : f[i] = f[j] => i = j
  BY <1>1, <1>2
<1>4. \A i \in 1..Len(pm_pgs') : pm_pgs'[i] = pm_pgs[f[i]]
  BY <1>1, <1>2
<1> QED BY <1>1, <1>2, <1>3, <1>4, FewerSlotsKeepHandles

LEMMA StopKeepsHandles ==
  ASSUME HInv, Stop
  PROVE  PoolsKnown' /\ HandleInv'
<1> DEFINE f == [i \in 1..Len(pm_pgs') |-> 2 * i]
<1>1. pm_pgs \in Seq(Pg)
  BY DEF HInv, IInv, SlotsInv, SlotsTypeOK
<1>2. /\ Len(pm_pgs) \in Nat /\ Len(pm_pgs') = Len(pm_pgs) \div 2
      /\ \A i \in 1..(Len(pm_pgs) \div 2) :
           2 * i \in 1..Len(pm_pgs) /\ pm_pgs'[i] = pm_pgs[2 * i]
  BY <1>1, LenProperties, KeepEvenProperties DEF Stop
<1>3. /\ f \in [1..Len(pm_pgs') -> 1..Len(pm_pgs)]
      /\ \A i \in 1..Len(pm_pgs') : f[i] = 2 * i
  BY <1>2
<1> HIDE DEF f
<1>4. Len(pm_pgs') \in Nat
  BY <1>2
<1>5. \A i, j \in 1..Len(pm_pgs') : f[i] = f[j] => i = j
  BY <1>3, <1>4
<1>6. \A i \in 1..Len(pm_pgs') : pm_pgs'[i] = pm_pgs[f[i]]
  BY <1>2, <1>3
<1>7. ClaimsKept
  <2> SUFFICES ASSUME NEW b \in Backends
               PROVE  /\ pools[b] \in {"claimed", "stopping"} =>
                           pools'[b] \in {"claimed", "stopping"}
                      /\ discovered'[b] = "unseen" <=> pools'[b] = "none"
                      /\ discovered[b] # "unseen" => discovered'[b] # "unseen"
    BY DEF ClaimsKept
  <2>1. pools'[b] = IF \E i \in DOMAIN pm_pools : Odd(i) /\ pm_pools[i].key = b
                    THEN StopPool(pools[b]) ELSE pools[b]
    BY DEF Stop
  <2>2. (\E i \in DOMAIN pm_pools : pm_pools[i].key = b) => pools[b] # "none"
    <3> SUFFICES ASSUME NEW i \in DOMAIN pm_pools, pm_pools[i].key = b
                 PROVE  pools[b] # "none"
      OBVIOUS
    <3>1. i \in 1..Len(pm_pgs)
      BY LenProperties DEF HInv, IInv, SlotsInv, SlotsTypeOK, SlotsAligned
    <3>2. pm_pgs[i].key = b
      BY <3>1, SlotTypes DEF HInv, IInv, SlotOK
    <3> QED BY <3>1, <3>2 DEF HInv, PoolsKnown
  <2>3. discovered' = discovered
    BY DEF Stop
  <2> QED BY <2>1, <2>2, <2>3 DEF HInv, PoolsKnown, StopPool
<1> QED BY <1>3, <1>4, <1>5, <1>6, <1>7, FewerSlotsKeepHandles

LEMMA UnchangedKeepsHandles ==
  ASSUME HInv, UNCHANGED <<pm_pgs, pools, discovered>>
  PROVE  PoolsKnown' /\ HandleInv'
BY DEF HInv, PoolsKnown, HandleInv

LEMMA PoolStepKeepsHandles ==
  ASSUME HInv, NEW b \in Backends, Connected(b)
  PROVE  PoolsKnown' /\ HandleInv'
<1>1. ClaimsKept
  BY DEF HInv, IInv, RestTypeOK, PoolsKnown, ClaimsKept, Connected
<1>2. pm_pgs' = pm_pgs
  BY DEF Connected, slots
<1> QED BY <1>1, <1>2, SameSlotsKeepHandles

LEMMA AddedKeepsHandles ==
  ASSUME HInv, NEW b \in Backends, Added(b)
  PROVE  PoolsKnown' /\ HandleInv'
<1>1. /\ pm_pgs \in Seq(Pg) /\ NewPg(b) \in Pg
      /\ pm_pgs' = Append(pm_pgs, NewPg(b))
      /\ NewPg(b).handle = None /\ NewPg(b).key = b
  BY DEF HInv, IInv, SlotsInv, SlotsTypeOK, Added, NewPg, Pg
<1>2. /\ Len(pm_pgs) \in Nat /\ Len(pm_pgs') = Len(pm_pgs) + 1
      /\ \A i \in 1..Len(pm_pgs) : pm_pgs'[i] = pm_pgs[i]
      /\ pm_pgs'[Len(pm_pgs) + 1] = NewPg(b)
  BY <1>1, LenProperties, AppendProperties
<1>3. \A i \in 1..Len(pm_pgs') : i \in 1..Len(pm_pgs) \/ pm_pgs'[i] = NewPg(b)
  BY <1>2
<1>4. /\ pools[b] \in {"none", "stopped"}
      /\ discovered' = [discovered EXCEPT ![b] = "present"]
      /\ pools' = [pools EXCEPT ![b] = "empty"]
      /\ discovered \in [Backends -> {"unseen", "present", "removed"}]
      /\ pools \in [Backends -> PoolState]
  BY DEF HInv, IInv, RestTypeOK, PoolsKnown, Added, Forgotten
<1>5. \A i \in 1..Len(pm_pgs) :
        /\ pm_pgs[i].key \in Backends
        /\ pm_pgs[i].handle # b
  <2>1. \A i \in 1..Len(pm_pgs) : pm_pgs[i].key \in Backends
    BY SlotTypes DEF HInv, IInv, Pg
  <2> QED BY <1>4, <2>1 DEF HInv, PoolsKnown, HandleInv
<1>6. PoolsKnown'
  BY <1>1, <1>2, <1>3, <1>4, <1>5 DEF HInv, PoolsKnown
<1>7. HandleInv'
  <2>1. None \notin Backends
    BY BackendsAssumption
  <2>2. \A i \in 1..Len(pm_pgs') :
          pm_pgs'[i].handle \in Backends =>
            i \in 1..Len(pm_pgs) /\ pm_pgs'[i].handle = pm_pgs[i].handle
    BY <1>1, <1>2, <1>3, <2>1
  <2>3. \A i, j \in 1..Len(pm_pgs') :
          pm_pgs'[i].handle \in Backends /\ pm_pgs'[i].handle = pm_pgs'[j].handle
            => i = j
    BY <2>2 DEF HInv, HandleInv
  <2>4. \A i \in 1..Len(pm_pgs') :
          pm_pgs'[i].handle \in Backends =>
            pools'[pm_pgs'[i].handle] \in {"claimed", "stopping"}
    BY <1>4, <1>5, <2>2 DEF HInv, HandleInv
  <2> QED BY <2>3, <2>4 DEF HandleInv
<1> QED BY <1>6, <1>7

LEMMA SetupReturnsKeepsHandles ==
  ASSUME HInv, NEW s \in setups, NEW ok \in BOOLEAN, SetupReturns(s, ok)
  PROVE  PoolsKnown' /\ HandleInv'
<1>1. CASE UNCHANGED <<pm_pgs, pools, discovered>>
  BY <1>1, UnchangedKeepsHandles
<1>2. CASE InRange(s.pi) /\ AddQueryData(s) /\ UNCHANGED <<pools, discovered>>
  <2> DEFINE pg == [pm_pgs[s.pi] EXCEPT !.queries = s.backend]
  <2>1. pm_pgs \in Seq(Pg) /\ s.pi \in 1..Len(pm_pgs) /\ s.backend \in Backends
    BY <1>2 DEF HInv, IInv, RestTypeOK, SlotsInv, SlotsTypeOK, InRange
  <2>2. /\ pg \in Pg /\ pg.handle = pm_pgs[s.pi].handle
        /\ pg.key = pm_pgs[s.pi].key
    <3>1. pm_pgs[s.pi] \in Pg
      BY <2>1, ElementOfSeq
    <3> QED BY <2>1, <3>1 DEF Pg
  <2>3. pm_pgs' = [pm_pgs EXCEPT ![s.pi] = pg]
    BY <1>2 DEF AddQueryData
  <2> HIDE DEF pg
  <2>4. /\ Len(pm_pgs') = Len(pm_pgs)
        /\ \A i \in 1..Len(pm_pgs) :
             pm_pgs'[i] = IF i = s.pi THEN pg ELSE pm_pgs[i]
    BY <2>1, <2>2, <2>3, ExceptSeq
  <2>5. ClaimsKept
    BY <1>2 DEF HInv, PoolsKnown, ClaimsKept
  <2> QED BY <2>2, <2>4, <2>5, SameSlotsKeepHandles
<1> QED BY <1>1, <1>2 DEF SetupReturns, Throw, slots

LEMMA RemovalKeepsHandles ==
  ASSUME HInv
  PROVE  /\ \A b \in Backends : Removed(b) => PoolsKnown' /\ HandleInv'
         /\ \A r \in removals : RetryRemoval(r) => PoolsKnown' /\ HandleInv'
<1>1. ASSUME NEW b \in Backends, Removed(b)
      PROVE  PoolsKnown' /\ HandleInv'
  <2>1. CASE UNCHANGED <<pm_pgs, pools, discovered>>
    BY <2>1, UnchangedKeepsHandles
  <2>2. CASE /\ discovered' = [discovered EXCEPT ![b] = "removed"]
             /\ UNCHANGED <<slots, pools>>
    <3>1. ClaimsKept
      BY <1>1, <2>2 DEF HInv, IInv, RestTypeOK, PoolsKnown, ClaimsKept, Removed
    <3> QED BY <2>2, <3>1, SameSlotsKeepHandles DEF slots
  <2>3. CASE /\ discovered' = [discovered EXCEPT ![b] = "removed"]
             /\ pools' = [pools EXCEPT ![b] = StopPool(@)]
    <3>1. ClaimsKept
      BY <1>1, <2>3
         DEF HInv, IInv, RestTypeOK, PoolsKnown, ClaimsKept, Removed, StopPool
    <3>2. CASE UNCHANGED slots
      BY <3>1, <3>2, SameSlotsKeepHandles DEF slots
    <3>3. ASSUME NEW pi \in DOMAIN pm_pools, RemoveConnectionData(pi)
          PROVE  PoolsKnown' /\ HandleInv'
      <4>1. pi \in 1..Len(pm_pgs)
        BY LenProperties DEF HInv, IInv, SlotsInv, SlotsTypeOK, SlotsAligned
      <4> QED BY <3>1, <3>3, <4>1, RemoveKeepsHandles
    <3>4. \/ UNCHANGED slots
          \/ \E pi \in DOMAIN pm_pools : RemoveConnectionData(pi)
      BY <1>1 DEF Removed, Throw, slots
    <3> QED BY <3>2, <3>3, <3>4
  <2> QED BY <1>1, <2>1, <2>2, <2>3 DEF Removed, Throw, slots
<1>2. ASSUME NEW r \in removals, RetryRemoval(r)
      PROVE  PoolsKnown' /\ HandleInv'
  <2>1. CASE UNCHANGED <<pm_pgs, pools, discovered>>
    BY <2>1, UnchangedKeepsHandles
  <2>2. CASE /\ HasQueries(r.pi) /\ RemoveConnectionData(r.pi)
             /\ UNCHANGED <<pools, discovered>>
    <3>1. ClaimsKept
      BY <2>2 DEF HInv, PoolsKnown, ClaimsKept
    <3> QED BY <2>2, <3>1, RemoveKeepsHandles DEF HasQueries, InRange
  <2> QED BY <1>2, <2>1, <2>2 DEF RetryRemoval, Throw, slots
<1> QED BY <1>1, <1>2

LEMMA ClaimGrantedKeepsHandles ==
  ASSUME HInv, NEW w \in workers, ClaimGranted(w)
  PROVE  PoolsKnown' /\ HandleInv'
<1>1. CASE UNCHANGED <<pm_pgs, pools, discovered>>
  BY <1>1, UnchangedKeepsHandles
<1>2. CASE /\ InRange(w.pi)
           /\ pm_pgs' = [pm_pgs EXCEPT ![w.pi].handle = w.pool]
           /\ pools' = [pools EXCEPT ![w.pool] = "claimed"]
           /\ UNCHANGED discovered
  <2> DEFINE pg == [pm_pgs[w.pi] EXCEPT !.handle = w.pool]
  <2>1. /\ w.pi \in 1..Len(pm_pgs) /\ w.pool \in Backends
        /\ pools[w.pool] = "idle" /\ pools \in [Backends -> PoolState]
        /\ pm_pgs \in Seq(Pg)
    BY <1>2, WorkerTypes
       DEF HInv, IInv, SlotsInv, SlotsTypeOK, RestTypeOK, ClaimGranted, InRange
  <2>2. pg \in Pg /\ pg.handle = w.pool /\ pg.key = pm_pgs[w.pi].key
    <3>1. pm_pgs[w.pi] \in Pg
      BY <2>1, ElementOfSeq
    <3> QED BY <2>1, <3>1 DEF Pg
  <2>3. pm_pgs' = [pm_pgs EXCEPT ![w.pi] = pg]
    BY <1>2
  <2> HIDE DEF pg
  <2>4. /\ Len(pm_pgs') = Len(pm_pgs)
        /\ \A i \in 1..Len(pm_pgs) :
             pm_pgs'[i] = IF i = w.pi THEN pg ELSE pm_pgs[i]
    BY <2>1, <2>2, <2>3, ExceptSeq
  <2>5. \A i \in 1..Len(pm_pgs) : pm_pgs[i].handle # w.pool
    BY <2>1 DEF HInv, HandleInv
  <2>6. PoolsKnown'
    BY <1>2, <2>1, <2>2, <2>4 DEF HInv, PoolsKnown
  <2>7. \A i \in 1..Len(pm_pgs') :
          pm_pgs'[i].handle \in Backends =>
            pools'[pm_pgs'[i].handle] \in {"claimed", "stopping"}
    BY <1>2, <2>1, <2>2, <2>4, <2>5 DEF HInv, HandleInv
  <2>8. \A i, j \in 1..Len(pm_pgs') :
          pm_pgs'[i].handle \in Backends /\ pm_pgs'[i].handle = pm_pgs'[j].handle
            => i = j
    BY <2>2, <2>4, <2>5 DEF HInv, HandleInv
  <2> QED BY <2>6, <2>7, <2>8 DEF HandleInv
<1> QED BY <1>1, <1>2 DEF ClaimGranted, HasQueries, Throw, slots

(* The common part of the two ways a barrier gives up handle h.            *)
LEMMA GiveUpKeepsHandles ==
  ASSUME HInv, NEW h \in Backends, pools[h] \in {"claimed", "stopping"},
         NEW connection \in {"empty", "idle"},
         pools' = [pools EXCEPT ![h] = AfterClaim(@, connection)],
         UNCHANGED discovered, Len(pm_pgs') = Len(pm_pgs),
         \A i \in 1..Len(pm_pgs) :
           /\ pm_pgs'[i].key = pm_pgs[i].key
           /\ \/ pm_pgs'[i].handle \in {None, Closed}
              \/ /\ pm_pgs'[i].handle = pm_pgs[i].handle
                 /\ pm_pgs[i].handle # h
  PROVE  PoolsKnown' /\ HandleInv'
<1>1. pools \in [Backends -> PoolState]
  BY DEF HInv, IInv, RestTypeOK
<1>2. pools'[h] # "none" /\ \A b \in Backends \ {h} : pools'[b] = pools[b]
  BY <1>1 DEF AfterClaim
<1>3. PoolsKnown'
  BY <1>2 DEF HInv, PoolsKnown
<1>4. None \notin Backends /\ Closed \notin Backends
  BY BackendsAssumption
<1>5. \A i \in 1..Len(pm_pgs') :
        pm_pgs'[i].handle \in Backends =>
          /\ i \in 1..Len(pm_pgs) /\ pm_pgs'[i].handle = pm_pgs[i].handle
          /\ pm_pgs[i].handle \in Backends \ {h}
  BY <1>4
<1>6. \A i \in 1..Len(pm_pgs') :
        pm_pgs'[i].handle \in Backends =>
          pools'[pm_pgs'[i].handle] \in {"claimed", "stopping"}
  BY <1>2, <1>5 DEF HInv, HandleInv
<1>7. \A i, j \in 1..Len(pm_pgs') :
        pm_pgs'[i].handle \in Backends /\ pm_pgs'[i].handle = pm_pgs'[j].handle
          => i = j
  BY <1>5 DEF HInv, HandleInv
<1> QED BY <1>3, <1>6, <1>7 DEF HandleInv

LEMMA DrainKeepsHandles ==
  ASSUME HInv, NEW w \in workers, Drain(w)
  PROVE  PoolsKnown' /\ HandleInv'
<1>1. CASE UNCHANGED <<pm_pgs, pools, discovered>>
  BY <1>1, UnchangedKeepsHandles
<1>2. SlotsTypeOK
  BY DEF HInv, IInv, SlotsInv
<1>3. CASE DrainTimeout(w) /\ InRange(w.pi) /\ UNCHANGED discovered
  <2>1. PICK h \in Backends :
          /\ pm_pgs[w.pi].handle = h /\ pm_pgs' = Expire(pm_pgs, h)
          /\ pools' = [pools EXCEPT ![h] = AfterClaim(@, "empty")]
    BY <1>3 DEF DrainTimeout
  <2>2. pools[h] \in {"claimed", "stopping"}
    BY <1>3, <2>1 DEF HInv, HandleInv, InRange
  <2>3. /\ Len(pm_pgs') = Len(pm_pgs)
        /\ \A i \in 1..Len(pm_pgs) :
             /\ pm_pgs'[i].key = pm_pgs[i].key
             /\ pm_pgs'[i].handle = IF pm_pgs[i].handle = h THEN Closed
                                    ELSE pm_pgs[i].handle
    BY <1>2, <2>1, ExpireProperties
  <2> QED BY <1>3, <2>1, <2>2, <2>3, GiveUpKeepsHandles
<1>4. CASE DrainDone(w) /\ InRange(w.pi) /\ UNCHANGED discovered
  <2>1. PICK h \in Backends :
          /\ pm_pgs[w.pi].handle = h /\ pm_pgs' = Release(h, w.pi)
          /\ pools' = [pools EXCEPT ![h] = AfterClaim(@, "idle")]
    BY <1>4 DEF DrainDone, Release
  <2>2. pools[h] \in {"claimed", "stopping"} /\ w.pi \in 1..Len(pm_pgs)
    BY <1>4, <2>1 DEF HInv, HandleInv, InRange
  <2>3. /\ Len(pm_pgs') = Len(pm_pgs)
        /\ \A i \in 1..Len(pm_pgs) :
             /\ pm_pgs'[i].key = pm_pgs[i].key
             /\ pm_pgs'[i].handle = IF i = w.pi THEN None
                                    ELSE IF pm_pgs[i].handle = h THEN Closed
                                    ELSE pm_pgs[i].handle
    BY <1>2, <2>1, <2>2, ReleaseProperties
  <2> QED BY <1>4, <2>1, <2>2, <2>3, GiveUpKeepsHandles
<1> QED BY <1>1, <1>3, <1>4
        DEF Drain, DrainNoConnection, OwnsHandle, Throw, slots

LEMMA NextKeepsHandles == HInv /\ [Next]_vars => HInv'
<1> SUFFICES ASSUME HInv, [Next]_vars PROVE PoolsKnown' /\ HandleInv'
  BY NextKeepsInv DEF HInv
<1>1. CASE UNCHANGED vars
  BY <1>1, UnchangedKeepsHandles DEF vars
<1>2. ASSUME NEW w \in workers, WorkerStep(w)
      PROVE  PoolsKnown' /\ HandleInv'
  <2>1. CASE ClaimGranted(w)
    BY <2>1, ClaimGrantedKeepsHandles
  <2>2. CASE Drain(w)
    BY <2>2, DrainKeepsHandles
  <2>3. CASE StartWorker(w) \/ ClaimFails(w)
    <3>1. UNCHANGED <<pm_pgs, pools, discovered>>
      BY <2>3 DEF StartWorker, ClaimFails, Throw, slots
    <3> QED BY <3>1, UnchangedKeepsHandles
  <2>4. ASSUME NEW q \in Queries, NEW kind, QueryError(w, q, kind)
        PROVE  PoolsKnown' /\ HandleInv'
    <3>1. UNCHANGED <<pm_pgs, pools, discovered>>
      BY <2>4 DEF QueryError, Throw, slots
    <3> QED BY <3>1, UnchangedKeepsHandles
  <2>5. ASSUME NEW q \in Queries, NEW rows \in BOOLEAN, QueryEnd(w, q, rows)
        PROVE  PoolsKnown' /\ HandleInv'
    <3>1. UNCHANGED <<pm_pgs, pools, discovered>>
      BY <2>5 DEF QueryEnd, Throw, slots
    <3> QED BY <3>1, UnchangedKeepsHandles
  <2> QED BY <1>2, <2>1, <2>2, <2>3, <2>4, <2>5 DEF WorkerStep
<1>3. CASE SetupBackend
  <2>1. UNCHANGED <<pm_pgs, pools, discovered>>
    BY <1>3 DEF SetupBackend, Throw, slots
  <2> QED BY <2>1, UnchangedKeepsHandles
<1>4. ASSUME NEW t \in Ticks, FirstTick(t) \/ IntervalFires(t) \/ QueueEnd(t)
      PROVE  PoolsKnown' /\ HandleInv'
  <2>1. UNCHANGED <<pm_pgs, pools, discovered>>
    BY <1>4 DEF FirstTick, IntervalFires, QueueEnd, slots
  <2> QED BY <2>1, UnchangedKeepsHandles
<1>5. ASSUME NEW b \in Backends, DestroyClient(b)
      PROVE  PoolsKnown' /\ HandleInv'
  <2>1. UNCHANGED <<pm_pgs, pools, discovered>>
    BY <1>5 DEF DestroyClient, slots
  <2> QED BY <2>1, UnchangedKeepsHandles
<1>6. CASE MonitorStep
  BY <1>2, <1>3, <1>4, <1>6, SetupReturnsKeepsHandles, AddedKeepsHandles,
     PoolStepKeepsHandles
     DEF MonitorStep
<1>7. CASE \/ \E b \in Backends : Removed(b) \/ DestroyClient(b)
           \/ \E r \in removals : RetryRemoval(r)
  BY <1>5, <1>7, RemovalKeepsHandles
<1>8. CASE Stop
  BY <1>8, StopKeepsHandles
<1> QED BY <1>1, <1>6, <1>7, <1>8 DEF Next, DiscoveryNext

(* barrier_drain never gives up the same connection twice, whatever slot   *)
(* its index has come to mean: a live handle is in one slot only, and its  *)
(* pool is claimed.                                                        *)
THEOREM LiveHandlesAreClaims == Spec => []HandlesAreLive
<1>1. Init => HInv
  <2>1. Init => Len(pm_pgs) = 0
    BY EmptySeq DEF Init
  <2> QED BY <2>1, InitHolds DEF HInv, PoolsKnown, HandleInv, Init
<1>2. HInv => HandlesAreLive
  <2> SUFFICES ASSUME HInv PROVE HandlesAreLive
    OBVIOUS
  <2>1. DOMAIN pm_pgs = 1..Len(pm_pgs)
    BY LenProperties DEF HInv, IInv, SlotsInv, SlotsTypeOK
  <2> QED BY <2>1 DEF HInv, HandleInv, HandlesAreLive
<1> QED BY <1>1, <1>2, NextKeepsHandles, PTL DEF Spec
=============================================================================
