----------------------------- MODULE RecordProofs -----------------------------
(***************************************************************************)
(* Proofs about Record.  The types are inductive for every assignment of   *)
(* statkeys and every bad value.  The rest is for queries whose rows have  *)
(* statkeys of their own.  That a counter stays below the true growth is   *)
(* not inductive: it needs to know that what the next poll would add, the  *)
(* value in Postgres less the value kept, is still covered, and that a     *)
(* value that was kept of an unspoiled row is a number.                    *)
(***************************************************************************)
EXTENDS Record, TLAPS

-----------------------------------------------------------------------------
(* The types, whatever the statkeys and the values read.                   *)

LEMMA BadValuesDiffer == NaN \notin Int /\ Null \notin Nat /\ Null # NaN
BY IrregularAssumption

LEMMA CounterAfterType ==
  ASSUME NEW total \in Int \cup {NaN}, NEW row \in DataRow,
         NEW oldrow \in DataRow \cup {NoRow}
  PROVE  CounterAfter(total, row, oldrow) \in Int \cup {NaN}
<1>1. CASE ~(/\ Recorded(row, oldrow) /\ Usable(row.value)
             /\ ~JsGreater(oldrow.value, row.value))
  BY <1>1 DEF CounterAfter
<1>2. CASE /\ Recorded(row, oldrow) /\ Usable(row.value)
           /\ ~JsGreater(oldrow.value, row.value)
  <2>1. oldrow.value \in Value /\ row.value \in Nat
    BY <1>2 DEF Recorded, Usable, DataRow, Value
  <2>2. JsMinus(row.value, oldrow.value) \in Int \cup {NaN}
    BY <2>1 DEF JsMinus, Value
  <2>3. JsAdd(total, JsMinus(row.value, oldrow.value)) \in Int \cup {NaN}
    BY <2>2, BadValuesDiffer DEF JsAdd
  <2>. QED  BY <1>2, <2>3 DEF CounterAfter
<1>. QED  BY <1>1, <1>2

(* A poll reads the rows that are there, as they are or with a bad value.  *)
LEMMA PollReads ==
  ASSUME TypeOK,
         NEW datum \in [Present -> UNION {Readings(r) : r \in Present}],
         \A r \in Present : datum[r] \in Readings(r)
  PROVE  /\ DOMAIN datum = Present /\ Present \subseteq Rows
         /\ \A r \in Present :
              /\ source[r] \in SourceRow /\ datum[r] \in DataRow
              /\ datum[r].reset = source[r].reset
              /\ Usable(datum[r].value) => datum[r] = source[r]
<1>1. Present \subseteq Rows /\ DOMAIN datum = Present
  BY DEF Present
<1>2. ASSUME NEW r \in Present
      PROVE  /\ source[r] \in SourceRow /\ datum[r] \in DataRow
             /\ datum[r].reset = source[r].reset
             /\ Usable(datum[r].value) => datum[r] = source[r]
  <2>1. source[r] \in SourceRow
    BY <1>1 DEF Present, TypeOK
  <2>2. CASE datum[r] = source[r]
    BY <2>1, <2>2 DEF SourceRow, DataRow, Value
  <2>3. ASSUME NEW v \in Irregular, datum[r] = [source[r] EXCEPT !.value = v]
        PROVE  /\ datum[r] \in DataRow /\ datum[r].reset = source[r].reset
               /\ ~Usable(datum[r].value)
    BY <2>1, <2>3, IrregularAssumption DEF SourceRow, DataRow, Value, Usable
  <2>4. \/ datum[r] = source[r]
        \/ \E v \in Irregular : datum[r] = [source[r] EXCEPT !.value = v]
    BY DEF Readings
  <2>. QED  BY <2>1, <2>2, <2>3, <2>4
<1>. QED  BY <1>1, <1>2

LEMMA PollKeepsTypes ==
  ASSUME TypeOK, Poll
  PROVE  TypeOK'
<1>1. PICK datum \in [Present -> UNION {Readings(r) : r \in Present}] :
        /\ \A r \in Present : datum[r] \in Readings(r)
        /\ IF Present = {} THEN UNCHANGED <<pm_data, counter, gauge>>
                           ELSE RecordDatum(datum)
        /\ spoiled' = [r \in Rows |-> IF r \in Present /\ ~Usable(datum[r].value)
                                      THEN spoiled[r] + 1 ELSE spoiled[r]]
  BY DEF Poll
<1>2. /\ DOMAIN datum = Present /\ Present \subseteq Rows
      /\ \A r \in Present : datum[r] \in DataRow
  BY <1>1, PollReads
<1>3. UNCHANGED <<source, grown, disturbed>>
  BY DEF Poll
<1>4. first_row' \in [Rows -> BOOLEAN]
  <2>1. first_row' = [r \in Rows |-> first_row[r] /\ r \notin Present]
    BY DEF Poll
  <2>2. \A r \in Rows : (first_row[r] /\ r \notin Present) \in BOOLEAN
    OBVIOUS
  <2>. QED  BY Zenon, <2>1, <2>2
<1>5. spoiled' \in [Rows -> Nat]
  BY <1>1 DEF TypeOK
<1>6. CASE Present = {}
  <2>1. UNCHANGED <<pm_data, counter, gauge>>
    BY <1>1, <1>6
  <2>. QED  BY <1>3, <1>4, <1>5, <2>1 DEF TypeOK
<1>7. CASE Present # {}
  <2>1. RecordDatum(datum)
    BY <1>1, <1>7
  <2>2. pm_data' \in [Keys -> DataRow \cup {NoRow}]
    <3>1. PICK last \in [Keys -> Rows \cup {NoRow}] :
            LastOfKey(datum, last) /\ pm_data' = Kept(datum, last)
      BY <2>1 DEF RecordDatum
    <3>2. \A k \in Keys : last[k] = NoRow \/ last[k] \in Present
      BY <1>2, <3>1 DEF LastOfKey
    <3>3. pm_data' =
            [k \in Keys |-> IF last[k] = NoRow THEN NoRow ELSE datum[last[k]]]
      BY <3>1 DEF Kept
    <3>4. \A k \in Keys :
            (IF last[k] = NoRow THEN NoRow ELSE datum[last[k]])
              \in DataRow \cup {NoRow}
      BY <1>2, <3>2
    <3>. QED  BY <3>3, <3>4
  <2>3. ASSUME NEW r \in Rows
        PROVE  counter'[r] \in Int \cup {NaN} /\ gauge'[r] \in Nat \cup {Null}
    <3>1. /\ counter[r] \in Int \cup {NaN} /\ gauge[r] \in Nat \cup {Null}
          /\ pm_data[StatKey[r]] \in DataRow \cup {NoRow}
      BY RowsAssumption DEF TypeOK
    <3>2. CASE r \in Present
      <4>1. /\ counter'[r] = CounterAfter(counter[r], datum[r], pm_data[StatKey[r]])
            /\ gauge'[r] = GaugeAfter(gauge[r], datum[r], pm_data[StatKey[r]])
        BY <1>2, <2>1, <3>2 DEF RecordDatum
      <4>2. datum[r] \in DataRow
        BY <1>2, <3>2
      <4>3. gauge'[r] \in Nat \cup {Null}
        BY <3>1, <4>1, <4>2 DEF GaugeAfter, DataRow, Value, Usable
      <4>. QED  BY <3>1, <4>1, <4>2, <4>3, CounterAfterType
    <3>3. CASE r \notin Present
      BY <1>2, <2>1, <3>1, <3>3 DEF RecordDatum
    <3>. QED  BY <3>2, <3>3
  <2>4. counter' \in [Rows -> Int \cup {NaN}] /\ gauge' \in [Rows -> Nat \cup {Null}]
    BY <2>1, <2>3 DEF RecordDatum
  <2>. QED  BY <1>3, <1>4, <1>5, <2>2, <2>4 DEF TypeOK
<1>. QED  BY <1>6, <1>7

LEMMA SourceKeepsTypes ==
  ASSUME TypeOK, NEW r \in Rows,
         \/ \E n \in Increments : Grow(r, n)
         \/ \E later \in {0, 1} : ResetStats(r, later)
         \/ Vanish(r) \/ Appear(r)
  PROVE  TypeOK'
<1>1. ASSUME NEW n \in Increments, Grow(r, n) PROVE TypeOK'
  <2>1. n \in Nat
    BY GrowthAssumption
  <2>2. source[r] \in SourceRow
    BY <1>1 DEF Grow, Present, TypeOK
  <2>3. [source[r] EXCEPT !.value = @ + n] \in SourceRow
    BY <2>1, <2>2 DEF SourceRow
  <2>. QED  BY <1>1, <2>1, <2>3 DEF Grow, TypeOK
<1>2. ASSUME NEW later \in {0, 1}, ResetStats(r, later) PROVE TypeOK'
  <2>1. source[r] \in SourceRow
    BY <1>2 DEF ResetStats, Present, TypeOK
  <2>2. [value |-> 0, reset |-> source[r].reset + later] \in SourceRow
    BY <2>1 DEF SourceRow
  <2>3. disturbed' \in [Rows -> BOOLEAN]
    BY <1>2 DEF ResetStats, Disturb, TypeOK
  <2>. QED  BY <1>2, <2>2, <2>3 DEF ResetStats, TypeOK
<1>3. CASE Vanish(r)
  <2>1. disturbed' \in [Rows -> BOOLEAN]
    BY <1>3 DEF Vanish, Disturb, TypeOK
  <2>. QED  BY <1>3, <2>1 DEF Vanish, TypeOK
<1>4. CASE Appear(r)
  BY <1>4 DEF Appear, TypeOK, SourceRow
<1>. QED  BY <1>1, <1>2, <1>3, <1>4

(* Whatever the statkeys are and whatever a poll reads, a counter is a     *)
(* number or NaN, and a gauge never shows a bad value.                     *)
THEOREM TypeCorrect == Spec => []TypeOK
<1>1. Init => TypeOK
  <2>. SUFFICES ASSUME Init PROVE TypeOK
    OBVIOUS
  <2>1. first_row \in [Rows -> BOOLEAN] /\ disturbed \in [Rows -> BOOLEAN]
    BY Zenon DEF Init
  <2>. QED  BY <2>1 DEF Init, TypeOK, SourceRow
<1>2. TypeOK /\ [Next]_vars => TypeOK'
  <2>1. ASSUME TypeOK, UNCHANGED vars PROVE TypeOK'
    BY <2>1 DEF TypeOK, vars
  <2>. QED  BY <2>1, PollKeepsTypes, SourceKeepsTypes DEF Next
<1>. QED  BY <1>1, <1>2, PTL DEF Spec

-----------------------------------------------------------------------------
(* Rows with statkeys of their own.                                        *)

(* Two rows never share a statkey.                                         *)
UniqueKeys == \A r, s \in Rows : StatKey[r] = StatKey[s] => r = s

(* Of a row that was first read nothing is counted before, and what the    *)
(* next poll would add to the counter of an unspoiled row is covered.      *)
Covered ==
  \A r \in Rows :
    /\ first_row[r] => grown[r] = 0
    /\ pm_data[StatKey[r]] # NoRow => ~first_row[r]
    /\ spoiled[r] = 0 =>
         /\ counter[r] \in Int /\ counter[r] <= grown[r]
         /\ pm_data[StatKey[r]] # NoRow =>
              /\ pm_data[StatKey[r]].value \in Nat
              /\ source[r] # NoRow =>
                   counter[r] + (source[r].value - pm_data[StatKey[r]].value) <= grown[r]

IInv == TypeOK /\ Covered

(* record() keeps, under the statkey of a row, just what was read of it.   *)
LEMMA KeptRow ==
  ASSUME UniqueKeys, NEW datum, DOMAIN datum = Present, RecordDatum(datum),
         NEW r \in Rows
  PROVE  pm_data'[StatKey[r]] = IF r \in Present THEN datum[r] ELSE NoRow
<1>1. PICK last \in [Keys -> Rows \cup {NoRow}] :
        LastOfKey(datum, last) /\ pm_data' = Kept(datum, last)
  BY DEF RecordDatum
<1>2. StatKey[r] \in Keys /\ r # NoRow
  BY RowsAssumption, NoRowAssumption
<1>3. pm_data'[StatKey[r]] =
        IF last[StatKey[r]] = NoRow THEN NoRow ELSE datum[last[StatKey[r]]]
  BY <1>1, <1>2 DEF Kept
<1>4. CASE r \in Present
  <2>1. last[StatKey[r]] \in Present /\ StatKey[last[StatKey[r]]] = StatKey[r]
    BY <1>1, <1>2, <1>4 DEF LastOfKey
  <2>2. last[StatKey[r]] = r
    BY <2>1 DEF UniqueKeys, Present
  <2>. QED  BY <1>2, <1>3, <1>4, <2>2
<1>5. CASE r \notin Present
  <2>1. {s \in DOMAIN datum : StatKey[s] = StatKey[r]} = {}
    BY <1>5 DEF UniqueKeys, Present
  <2>2. last[StatKey[r]] = NoRow
    BY <1>1, <1>2, <2>1 DEF LastOfKey
  <2>. QED  BY <1>3, <1>5, <2>2
<1>. QED  BY <1>4, <1>5

(* What a poll does, row by row.                                           *)
LEMMA PollRowByRow ==
  ASSUME UniqueKeys, TypeOK, Poll
  PROVE  \E datum \in [Present -> DataRow] :
           /\ \A r \in Present :
                /\ datum[r].reset = source[r].reset
                /\ Usable(datum[r].value) => datum[r] = source[r]
           /\ \A r \in Rows :
                /\ spoiled'[r] = IF r \in Present /\ ~Usable(datum[r].value)
                                 THEN spoiled[r] + 1 ELSE spoiled[r]
                /\ counter'[r] =
                     IF r \in Present
                     THEN CounterAfter(counter[r], datum[r], pm_data[StatKey[r]])
                     ELSE counter[r]
                /\ r \in Present => pm_data'[StatKey[r]] = datum[r]
                /\ r \notin Present =>
                     pm_data'[StatKey[r]] \in {NoRow, pm_data[StatKey[r]]}
<1>1. PICK datum \in [Present -> UNION {Readings(r) : r \in Present}] :
        /\ \A r \in Present : datum[r] \in Readings(r)
        /\ IF Present = {} THEN UNCHANGED <<pm_data, counter, gauge>>
                           ELSE RecordDatum(datum)
        /\ spoiled' = [r \in Rows |-> IF r \in Present /\ ~Usable(datum[r].value)
                                      THEN spoiled[r] + 1 ELSE spoiled[r]]
  BY DEF Poll
<1>2. /\ DOMAIN datum = Present /\ Present \subseteq Rows
      /\ \A r \in Present :
           /\ datum[r] \in DataRow /\ datum[r].reset = source[r].reset
           /\ Usable(datum[r].value) => datum[r] = source[r]
  BY <1>1, PollReads
<1>3. datum \in [Present -> DataRow]
  BY <1>2
<1>4. ASSUME NEW r \in Rows
      PROVE  /\ counter'[r] =
                  IF r \in Present
                  THEN CounterAfter(counter[r], datum[r], pm_data[StatKey[r]])
                  ELSE counter[r]
             /\ r \in Present => pm_data'[StatKey[r]] = datum[r]
             /\ r \notin Present =>
                  pm_data'[StatKey[r]] \in {NoRow, pm_data[StatKey[r]]}
  <2>1. CASE Present = {}
    BY <1>1, <2>1
  <2>2. CASE Present # {}
    <3>1. RecordDatum(datum)
      BY <1>1, <2>2
    <3>2. pm_data'[StatKey[r]] = IF r \in Present THEN datum[r] ELSE NoRow
      BY <1>2, <3>1, KeptRow
    <3>3. counter'[r] =
            IF r \in Present
            THEN CounterAfter(counter[r], datum[r], pm_data[StatKey[r]])
            ELSE counter[r]
      BY <1>2, <3>1 DEF RecordDatum
    <3>. QED  BY <3>2, <3>3
  <2>. QED  BY <2>1, <2>2
<1>5. \A r \in Rows :
        spoiled'[r] = IF r \in Present /\ ~Usable(datum[r].value)
                      THEN spoiled[r] + 1 ELSE spoiled[r]
  BY <1>1
<1>. QED  BY <1>2, <1>3, <1>4, <1>5

(* What record() makes of one counter, where the values are plain numbers. *)
LEMMA CounterOfNumbers ==
  ASSUME NEW total \in Int, NEW row \in SourceRow,
         NEW oldrow \in DataRow \cup {NoRow},
         oldrow # NoRow => oldrow.value \in Nat
  PROVE  /\ CounterAfter(total, row, oldrow) =
              IF Recorded(row, oldrow) /\ ~JsGreater(oldrow.value, row.value)
              THEN total + (row.value - oldrow.value) ELSE total
         /\ Recorded(row, oldrow) => oldrow # NoRow
<1>1. row.value \in Nat /\ Usable(row.value)
  BY BadValuesDiffer DEF SourceRow, Usable
<1>2. ASSUME Recorded(row, oldrow)
      PROVE  JsAdd(total, JsMinus(row.value, oldrow.value)) =
               total + (row.value - oldrow.value)
  <2>1. oldrow.value \in Nat
    BY <1>2 DEF Recorded
  <2>2. JsMinus(row.value, oldrow.value) = row.value - oldrow.value
    BY <1>1, <2>1, BadValuesDiffer DEF JsMinus
  <2>. QED  BY <1>1, <2>1, <2>2, BadValuesDiffer DEF JsAdd
<1>. QED  BY <1>1, <1>2 DEF CounterAfter, Recorded

-----------------------------------------------------------------------------
LEMMA InitCovers == Init => Covered
BY RowsAssumption DEF Init, Covered

(* A poll, which moves the counters by what it reads.                      *)
LEMMA PollKeepsCovered ==
  ASSUME UniqueKeys, IInv, Poll
  PROVE  Covered'
<1>1. PICK datum \in [Present -> DataRow] :
        /\ \A r \in Present :
             /\ datum[r].reset = source[r].reset
             /\ Usable(datum[r].value) => datum[r] = source[r]
        /\ \A r \in Rows :
             /\ spoiled'[r] = IF r \in Present /\ ~Usable(datum[r].value)
                              THEN spoiled[r] + 1 ELSE spoiled[r]
             /\ counter'[r] =
                  IF r \in Present
                  THEN CounterAfter(counter[r], datum[r], pm_data[StatKey[r]])
                  ELSE counter[r]
             /\ r \in Present => pm_data'[StatKey[r]] = datum[r]
             /\ r \notin Present =>
                  pm_data'[StatKey[r]] \in {NoRow, pm_data[StatKey[r]]}
  BY PollRowByRow DEF IInv
<1>2. UNCHANGED <<source, grown>>
  BY DEF Poll
<1>3. \A r \in Rows : first_row'[r] <=> first_row[r] /\ r \notin Present
  BY DEF Poll
<1>. SUFFICES ASSUME NEW r \in Rows
              PROVE  /\ first_row'[r] => grown'[r] = 0
                     /\ pm_data'[StatKey[r]] # NoRow => ~first_row'[r]
                     /\ spoiled'[r] = 0 =>
                          /\ counter'[r] \in Int /\ counter'[r] <= grown'[r]
                          /\ pm_data'[StatKey[r]] # NoRow =>
                               /\ pm_data'[StatKey[r]].value \in Nat
                               /\ source'[r] # NoRow =>
                                    counter'[r] + (source'[r].value -
                                      pm_data'[StatKey[r]].value) <= grown'[r]
  BY DEF Covered
<1>4. CASE r \notin Present
  BY <1>1, <1>2, <1>3, <1>4 DEF Covered, IInv, Present
<1>5. CASE r \in Present
  <2>1. /\ first_row'[r] => grown'[r] = 0
        /\ ~first_row'[r]
    BY <1>3, <1>5
  <2>2. ASSUME spoiled'[r] = 0
        PROVE  /\ counter'[r] \in Int /\ counter'[r] <= grown[r]
               /\ pm_data'[StatKey[r]] = source[r]
    <3>1. spoiled[r] \in Nat
      BY DEF IInv, TypeOK
    <3>2. Usable(datum[r].value) /\ spoiled[r] = 0
      BY <1>1, <1>5, <2>2, <3>1
    <3>3. datum[r] = source[r]
      BY <1>1, <1>5, <3>2
    <3>4. /\ source[r] # NoRow /\ source[r] \in SourceRow
          /\ pm_data[StatKey[r]] \in DataRow \cup {NoRow} /\ grown[r] \in Nat
      BY <1>5, RowsAssumption DEF IInv, TypeOK, Present
    <3>5. /\ counter[r] \in Int /\ counter[r] <= grown[r]
          /\ pm_data[StatKey[r]] # NoRow =>
               /\ pm_data[StatKey[r]].value \in Nat
               /\ counter[r] + (source[r].value - pm_data[StatKey[r]].value) <= grown[r]
      BY <3>2, <3>4 DEF IInv, Covered
    <3>6. counter'[r] = CounterAfter(counter[r], source[r], pm_data[StatKey[r]])
      BY <1>1, <1>5, <3>3
    <3>7. \/ counter'[r] = counter[r]
          \/ /\ pm_data[StatKey[r]] # NoRow
             /\ counter'[r] =
                  counter[r] + (source[r].value - pm_data[StatKey[r]].value)
      BY <3>4, <3>5, <3>6, CounterOfNumbers
    <3>8. source[r].value \in Nat
      BY <3>4 DEF SourceRow
    <3>9. counter'[r] \in Int /\ counter'[r] <= grown[r]
      BY <3>5, <3>7, <3>8
    <3>10. pm_data'[StatKey[r]] = source[r]
      BY <1>1, <1>5, <3>3
    <3>. QED  BY <3>9, <3>10
  <2>3. source[r].value \in Nat /\ grown[r] \in Nat
    BY <1>5 DEF IInv, TypeOK, Present, SourceRow
  <2>. QED  BY <1>2, <2>1, <2>2, <2>3
<1>. QED  BY <1>4, <1>5

(* What Postgres does: a statistic grows, is reset, vanishes or appears.   *)
LEMMA SourceKeepsCovered ==
  ASSUME IInv, NEW r \in Rows,
         \/ \E n \in Increments : Grow(r, n)
         \/ \E later \in {0, 1} : ResetStats(r, later)
         \/ Vanish(r) \/ Appear(r)
  PROVE  Covered'
<1>0. \A s \in Rows : StatKey[s] \in Keys
  BY RowsAssumption
<1>1. /\ \A s \in Rows : source[s] # NoRow => source[s].value \in Nat
      /\ \A s \in Rows : grown[s] \in Nat /\ spoiled[s] \in Nat
  BY DEF IInv, TypeOK, SourceRow
<1>2. ASSUME NEW n \in Increments, Grow(r, n) PROVE Covered'
  <2>1. n \in Nat /\ source[r] # NoRow /\ source[r] \in SourceRow
    BY <1>2, GrowthAssumption DEF Grow, Present, IInv, TypeOK
  <2>2. /\ source' = [source EXCEPT ![r] = [source[r] EXCEPT !.value = @ + n]]
        /\ grown' = [grown EXCEPT ![r] = IF first_row[r] THEN 0 ELSE grown[r] + n]
        /\ UNCHANGED <<pm_data, counter, first_row, spoiled>>
    BY <1>2 DEF Grow
  <2>3. /\ source'[r].value = source[r].value + n
        /\ grown'[r] = IF first_row[r] THEN 0 ELSE grown[r] + n
        /\ \A s \in Rows \ {r} : source'[s] = source[s] /\ grown'[s] = grown[s]
    BY <2>1, <2>2 DEF IInv, TypeOK, SourceRow
  <2>. QED  BY <1>0, <1>1, <2>1, <2>2, <2>3 DEF Covered, IInv
<1>3. ASSUME UNCHANGED <<pm_data, counter, first_row, grown, spoiled>>,
             source'[r] = NoRow \/ source'[r].value = 0,
             \A s \in Rows \ {r} : source'[s] = source[s]
      PROVE  Covered'
  BY <1>0, <1>1, <1>3 DEF Covered, IInv
<1>4. ASSUME NEW later \in {0, 1}, ResetStats(r, later) PROVE Covered'
  BY <1>3, <1>4 DEF ResetStats, IInv, TypeOK
<1>5. CASE Vanish(r)
  BY <1>3, <1>5 DEF Vanish, Present, IInv, TypeOK
<1>6. CASE Appear(r)
  BY <1>3, <1>6 DEF Appear, IInv, TypeOK
<1>. QED  BY <1>2, <1>4, <1>5, <1>6

(* The inductive invariant holds in every run.                             *)
THEOREM Invariance == UniqueKeys => (Spec => []IInv)
<1>. SUFFICES ASSUME UniqueKeys PROVE Spec => []IInv
  OBVIOUS
<1>1. TypeOK /\ Covered /\ [Next]_vars => Covered'
  <2>1. ASSUME Covered, UNCHANGED vars PROVE Covered'
    BY <2>1 DEF Covered, vars
  <2>. QED  BY <2>1, PollKeepsCovered, SourceKeepsCovered DEF Next, IInv
<1>. QED  BY InitCovers, TypeCorrect, <1>1, PTL DEF Spec, IInv

(* The counter of a row in which no null or NaN was read is a number and   *)
(* never ahead of what happened in Postgres, whatever resets, lost rows    *)
(* and bad values in other rows fall between two polls; this holds for     *)
(* textual columns too, whose comparison can only lose growth.             *)
THEOREM CountersNeverOvercount == UniqueKeys => (Spec => []NeverOvercounts)
<1>. SUFFICES ASSUME UniqueKeys PROVE Spec => []NeverOvercounts
  OBVIOUS
<1>1. IInv => NeverOvercounts
  BY BadValuesDiffer DEF IInv, Covered, NeverOvercounts
<1>. QED  BY Invariance, <1>1, PTL

-----------------------------------------------------------------------------
(* Nothing is lost.  As long as a row is undisturbed and unspoiled, the    *)
(* row that was kept and the row in Postgres belong together: no reset     *)
(* lies between them, and the statistic has only grown.  A row that was    *)
(* not read has left no trace.                                             *)
Exact ==
  \A r \in Rows :
    /\ first_row[r] => counter[r] = 0 /\ ~disturbed[r] /\ spoiled[r] = 0
    /\ ~first_row[r] /\ ~disturbed[r] /\ spoiled[r] = 0 =>
         /\ source[r] # NoRow /\ pm_data[StatKey[r]] # NoRow
         /\ pm_data[StatKey[r]].reset = source[r].reset
         /\ pm_data[StatKey[r]].value <= source[r].value
         /\ ~Textual =>
              counter[r] + (source[r].value - pm_data[StatKey[r]].value)
                = grown[r]

LEMMA PollKeepsExact ==
  ASSUME UniqueKeys, IInv, Exact, Poll
  PROVE  Exact'
<1>1. PICK datum \in [Present -> DataRow] :
        /\ \A r \in Present :
             /\ datum[r].reset = source[r].reset
             /\ Usable(datum[r].value) => datum[r] = source[r]
        /\ \A r \in Rows :
             /\ spoiled'[r] = IF r \in Present /\ ~Usable(datum[r].value)
                              THEN spoiled[r] + 1 ELSE spoiled[r]
             /\ counter'[r] =
                  IF r \in Present
                  THEN CounterAfter(counter[r], datum[r], pm_data[StatKey[r]])
                  ELSE counter[r]
             /\ r \in Present => pm_data'[StatKey[r]] = datum[r]
             /\ r \notin Present =>
                  pm_data'[StatKey[r]] \in {NoRow, pm_data[StatKey[r]]}
  BY PollRowByRow DEF IInv
<1>2. UNCHANGED <<source, grown, disturbed>>
  BY DEF Poll
<1>3. \A r \in Rows : first_row'[r] <=> first_row[r] /\ r \notin Present
  BY DEF Poll
<1>. SUFFICES ASSUME NEW r \in Rows
              PROVE  /\ first_row'[r] => /\ counter'[r] = 0 /\ ~disturbed'[r]
                                         /\ spoiled'[r] = 0
                     /\ ~first_row'[r] /\ ~disturbed'[r] /\ spoiled'[r] = 0 =>
                          /\ source'[r] # NoRow /\ pm_data'[StatKey[r]] # NoRow
                          /\ pm_data'[StatKey[r]].reset = source'[r].reset
                          /\ pm_data'[StatKey[r]].value <= source'[r].value
                          /\ ~Textual =>
                               counter'[r] + (source'[r].value -
                                 pm_data'[StatKey[r]].value) = grown'[r]
  BY DEF Exact
<1>4. CASE r \notin Present
  <2>1. first_row[r] \/ disturbed[r] \/ spoiled[r] # 0
    BY <1>4 DEF Exact, Present
  <2>. QED  BY <1>1, <1>2, <1>3, <1>4, <2>1 DEF Exact
<1>5. CASE r \in Present
  <2>1. ~first_row'[r]
    BY <1>3, <1>5
  <2>2. ASSUME ~disturbed[r], spoiled'[r] = 0
        PROVE  /\ pm_data'[StatKey[r]] = source[r]
               /\ ~Textual => counter'[r] = grown[r]
    <3>1. spoiled[r] \in Nat
      BY DEF IInv, TypeOK
    <3>2. Usable(datum[r].value) /\ spoiled[r] = 0
      BY <1>1, <1>5, <2>2, <3>1
    <3>3. datum[r] = source[r] /\ pm_data'[StatKey[r]] = source[r]
      BY <1>1, <1>5, <3>2
    <3> DEFINE old == pm_data[StatKey[r]]
    <3>4. /\ source[r] \in SourceRow /\ source[r].value \in Nat
          /\ old \in DataRow \cup {NoRow} /\ counter[r] \in Int
          /\ old # NoRow => old.value \in Nat
      BY <1>5, <3>2, RowsAssumption
      DEF IInv, TypeOK, Covered, Present, SourceRow
    <3>5. counter'[r] =
            IF Recorded(source[r], old) /\ ~JsGreater(old.value, source[r].value)
            THEN counter[r] + (source[r].value - old.value) ELSE counter[r]
      BY <1>1, <1>5, <3>3, <3>4, CounterOfNumbers
    <3>6. CASE first_row[r]
      <4>1. old = NoRow /\ grown[r] = 0 /\ counter[r] = 0
        BY <1>5, <3>6 DEF IInv, Covered, Exact, Present
      <4>. QED  BY <3>3, <3>5, <4>1 DEF Recorded
    <3>7. CASE ~first_row[r]
      <4>1. /\ old # NoRow /\ old.reset = source[r].reset
            /\ old.value <= source[r].value
            /\ ~Textual => counter[r] + (source[r].value - old.value) = grown[r]
        BY <1>5, <2>2, <3>2, <3>7 DEF Exact, Present
      <4>2. Recorded(source[r], old)
        BY <3>4, <4>1 DEF Recorded, ResetDetected, SourceRow
      <4>3. ~Textual => ~JsGreater(old.value, source[r].value)
        BY <3>4, <4>1 DEF JsGreater
      <4>. QED  BY <3>3, <3>5, <4>1, <4>2, <4>3
    <3>. QED  BY <3>6, <3>7
  <2>3. source[r] # NoRow /\ source[r].value \in Nat /\ grown[r] \in Nat
    BY <1>5 DEF IInv, TypeOK, Present, SourceRow
  <2>. QED  BY <1>2, <2>1, <2>2, <2>3
<1>. QED  BY <1>4, <1>5

LEMMA SourceKeepsExact ==
  ASSUME IInv, Exact, NEW r \in Rows,
         \/ \E n \in Increments : Grow(r, n)
         \/ \E later \in {0, 1} : ResetStats(r, later)
         \/ Vanish(r) \/ Appear(r)
  PROVE  Exact'
<1>0. \A s \in Rows : StatKey[s] \in Keys
  BY RowsAssumption
<1>1. ASSUME NEW n \in Increments, Grow(r, n) PROVE Exact'
  <2>1. n \in Nat /\ source[r] # NoRow /\ source[r] \in SourceRow
    BY <1>1, GrowthAssumption DEF Grow, Present, IInv, TypeOK
  <2>2. /\ source' = [source EXCEPT ![r] = [source[r] EXCEPT !.value = @ + n]]
        /\ grown' = [grown EXCEPT ![r] =
                        IF first_row[r] THEN 0 ELSE grown[r] + n]
        /\ UNCHANGED <<pm_data, counter, first_row, disturbed, spoiled>>
    BY <1>1 DEF Grow
  <2>3. /\ source'[r].value = source[r].value + n
        /\ source'[r].reset = source[r].reset
        /\ source'[r] \in SourceRow
        /\ grown'[r] = IF first_row[r] THEN 0 ELSE grown[r] + n
        /\ \A s \in Rows \ {r} : source'[s] = source[s] /\ grown'[s] = grown[s]
    BY <2>1, <2>2 DEF IInv, TypeOK, SourceRow
  <2>4. /\ NoRow \notin SourceRow /\ source[r].value \in Nat
        /\ grown[r] \in Nat
        /\ spoiled[r] = 0 => counter[r] \in Int
        /\ spoiled[r] = 0 /\ pm_data[StatKey[r]] # NoRow =>
             pm_data[StatKey[r]].value \in Nat
    BY <2>1, NoRowAssumption DEF IInv, TypeOK, Covered, SourceRow
  <2> QED BY <1>0, <2>1, <2>2, <2>3, <2>4 DEF Exact
<1>2. ASSUME UNCHANGED <<pm_data, counter, first_row, grown, spoiled>>,
             disturbed' = [disturbed EXCEPT ![r] = ~first_row[r]],
             \A s \in Rows \ {r} : source'[s] = source[s]
      PROVE  Exact'
  <2>1. /\ disturbed'[r] = ~first_row[r]
        /\ \A s \in Rows \ {r} : disturbed'[s] = disturbed[s]
    BY <1>2 DEF IInv, TypeOK
  <2> QED BY <1>2, <2>1 DEF Exact
<1>3. ASSUME NEW later \in {0, 1}, ResetStats(r, later) PROVE Exact'
  BY <1>2, <1>3 DEF ResetStats, Disturb, IInv, TypeOK
<1>4. CASE Vanish(r)
  BY <1>2, <1>4 DEF Vanish, Disturb, IInv, TypeOK
<1>5. CASE Appear(r)
  <2>1. /\ source[r] = NoRow
        /\ \A s \in Rows \ {r} : source'[s] = source[s]
        /\ UNCHANGED <<pm_data, counter, first_row, grown, disturbed, spoiled>>
    BY <1>5 DEF Appear, IInv, TypeOK
  <2> QED BY <2>1 DEF Exact
<1> QED BY <1>1, <1>3, <1>4, <1>5

LEMMA ExactInvariance == UniqueKeys => (Spec => [](IInv /\ Exact))
<1> SUFFICES ASSUME UniqueKeys PROVE Spec => [](IInv /\ Exact)
  OBVIOUS
<1>1. Init => Exact
  BY DEF Init, Exact
<1>2. IInv /\ Exact /\ [Next]_vars => Exact'
  <2>1. ASSUME Exact, UNCHANGED vars PROVE Exact'
    BY <2>1 DEF Exact, vars
  <2>. QED  BY <2>1, PollKeepsExact, SourceKeepsExact DEF Next
<1> QED BY <1>1, <1>2, Invariance, PTL DEF Spec

(* While a row is neither reset nor gone nor badly read, counted and not   *)
(* yet counted growth are all the growth there is, for every column that   *)
(* arrives as a number.                                                    *)
THEOREM NothingIsLost == UniqueKeys => (Spec => []NothingLost)
<1> SUFFICES ASSUME UniqueKeys PROVE Spec => []NothingLost
  OBVIOUS
<1>1. Exact => NothingLost
  BY DEF Exact, NothingLost
<1> QED BY <1>1, ExactInvariance, PTL
=============================================================================
