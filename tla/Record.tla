------------------------------- MODULE Record --------------------------------
(***************************************************************************)
(* record() of lib/pgstatsmon.js for one backend and one query: successive *)
(* results of the query are turned into increments of Prometheus counters. *)
(*                                                                         *)
(* Postgres is the environment.  It keeps a cumulative statistic for every *)
(* row of the relation, which grows, is reset, vanishes with its table or  *)
(* replica and comes back.  A poll reads it at moments Postgres does not   *)
(* choose, so resets and growth between two polls are seen as one change.  *)
(* The rows kept from the last poll are found again by the query's statkey *)
(* alone.  A poll may also read a null or a NaN in place of the value.     *)
(* The query has one counter and one gauge, both of the same column; the   *)
(* columns of a query are recorded independently.                          *)
(***************************************************************************)
EXTENDS Integers, Sequences, FiniteSets

CONSTANTS
  Rows,         (* what the relation has a row for, and a metric's labels   *)
  Keys,         (* the values of the statkey attribute                      *)
  StatKey,      (* the statkey of each row                                  *)
  Textual,      (* the column is numeric, which pg returns as a string      *)
  Irregular,    (* what a poll may read in place of the value: Null, NaN    *)
  Null, NaN,
  NoRow,        (* undefined: no row is kept under a key, or none is there  *)
  Increments,   (* by how much a statistic grows at a time                  *)
  MaxValue,     (* a bound: where a statistic stops growing                 *)
  MaxGrowth,    (* a bound: how much it grows in all since it was first read *)
  MaxEpoch,     (* a bound: how many resets carry a later reset time        *)
  MaxSpoiled    (* a bound: how many irregular values are read in a row     *)

ASSUME RowsAssumption == IsFiniteSet(Rows) /\ StatKey \in [Rows -> Keys]
ASSUME TextualAssumption == Textual \in BOOLEAN
ASSUME IrregularAssumption ==
  /\ Irregular \subseteq {Null, NaN}
  /\ Null \notin Nat /\ NaN \notin Int /\ Null # NaN
ASSUME NoRowAssumption ==
  NoRow \notin Rows \cup [value : Nat \cup {Null, NaN}, reset : Nat]
ASSUME GrowthAssumption ==
  /\ Increments \subseteq Nat \ {0}
  /\ {MaxValue, MaxGrowth, MaxEpoch, MaxSpoiled} \subseteq Nat

VARIABLES
  source,     (* Postgres: [value, reset] of each row that exists           *)
  pm_data,    (* the rows of the last poll, by statkey: pm_data[pi][qi]     *)
  counter,    (* what the targets' counter adds up to, by label             *)
  gauge,      (* what the targets' gauge shows, or Null                     *)
  first_row,  (* no poll has read the row yet                               *)
  grown,      (* the true growth of the statistic since a poll first read it *)
  disturbed,  (* the row was reset or has vanished since then               *)
  spoiled     (* how many polls have read a null or a NaN in the row        *)

vars == <<source, pm_data, counter, gauge, first_row, grown, disturbed, spoiled>>

-----------------------------------------------------------------------------
(* JavaScript's view of the values.                                        *)

(* The decimal digits of n, which is how a textual column is compared.     *)
Digits[n \in Nat] ==
  IF n < 10 THEN <<n>> ELSE Append(Digits[n \div 10], n % 10)

LexGreater(s, t) ==
  \E i \in 1..Len(s) :
    /\ \A j \in 1..(i - 1) : j <= Len(t) /\ s[j] = t[j]
    /\ i \in DOMAIN t => s[i] > t[i]

(* "old > new" where new is a value: null counts as 0, and NaN compares    *)
(* false, except that its text sorts behind all digits.                    *)
JsGreater(old, new) ==
  \/ old = NaN /\ Textual
  \/ /\ old \in Nat
     /\ IF Textual THEN LexGreater(Digits[old], Digits[new]) ELSE old > new

(* "new - old" and what adding it makes of a counter: NaN is contagious.   *)
JsMinus(new, old) ==
  IF old = NaN THEN NaN ELSE new - (IF old = Null THEN 0 ELSE old)
JsAdd(total, delta) == IF NaN \in {total, delta} THEN NaN ELSE total + delta

-----------------------------------------------------------------------------
(* record().                                                               *)

(* Mutant: a reset time that stays the same counts as a reset.             *)
ResetNotEarlier(row, oldrow) ==
  /\ row.reset # 0
  /\ oldrow.reset # 0
  /\ row.reset >= oldrow.reset

(* The row carries a later stats_reset.  0 is no stats_reset, null until   *)
(* the first reset: Date.parse(null) is NaN and compares false.            *)
ResetDetected(row, oldrow) ==
  /\ row.reset # 0
  /\ oldrow.reset # 0
  /\ row.reset > oldrow.reset

(* A row that was read before, outside a detected reset, is recorded.      *)
Recorded(row, oldrow) == oldrow # NoRow /\ ~ResetDetected(row, oldrow)

Usable(value) == value \notin {Null, NaN}

(* Mutant: a row that is new counts from zero.                             *)
CountsNewRows(total, row, oldrow) ==
  IF ~Usable(row.value) THEN total
  ELSE IF oldrow = NoRow THEN JsAdd(total, row.value)
  ELSE IF Recorded(row, oldrow) /\ ~JsGreater(oldrow.value, row.value)
       THEN JsAdd(total, JsMinus(row.value, oldrow.value))
       ELSE total

(* emit_counters.                                                          *)
CounterAfter(total, row, oldrow) ==
  IF /\ Recorded(row, oldrow)
     /\ Usable(row.value)
     /\ ~JsGreater(oldrow.value, row.value)
  THEN JsAdd(total, JsMinus(row.value, oldrow.value))
  ELSE total

(* Mutant: the gauge shows the change, as the counter does.                *)
GaugeOfChange(shown, row, oldrow) ==
  IF Recorded(row, oldrow) /\ Usable(row.value)
  THEN JsMinus(row.value, oldrow.value) ELSE shown

(* emit_gauges.                                                            *)
GaugeAfter(shown, row, oldrow) ==
  IF Recorded(row, oldrow) /\ Usable(row.value) THEN row.value ELSE shown

(* The new data: of rows that share a key the last one is kept, whichever  *)
(* Postgres returned last.                                                 *)
Kept(datum, last) ==
  [k \in Keys |-> IF last[k] = NoRow THEN NoRow ELSE datum[last[k]]]

LastOfKey(datum, last) ==
  \A k \in Keys :
    LET rows == {r \in DOMAIN datum : StatKey[r] = k}
    IN  IF rows = {} THEN last[k] = NoRow ELSE last[k] \in rows

(* record() for the rows of "datum".  Old rows are looked up in the object *)
(* of the previous poll, which the loop does not touch.                    *)
RecordDatum(datum) ==
  /\ \E last \in [Keys -> Rows \cup {NoRow}] :
       LastOfKey(datum, last) /\ pm_data' = Kept(datum, last)
  /\ counter' = [r \in Rows |->
                   IF r \in DOMAIN datum
                   THEN CounterAfter(counter[r], datum[r], pm_data[StatKey[r]])
                   ELSE counter[r]]
  /\ gauge' = [r \in Rows |->
                 IF r \in DOMAIN datum
                 THEN GaugeAfter(gauge[r], datum[r], pm_data[StatKey[r]])
                 ELSE gauge[r]]

-----------------------------------------------------------------------------
(* The environment and the 'end' listener that calls record().             *)

Present == {r \in Rows : source[r] # NoRow}

(* What a poll may read: each row as it is, or an irregular value in it.   *)
Readings(r) ==
  {source[r]} \cup
  {[source[r] EXCEPT !.value = v] : v \in {i \in Irregular : spoiled[r] < MaxSpoiled}}

(* A query ends.  Without a row in its result record() is not called, and  *)
(* pm_data stays as it is.                                                 *)
Poll ==
  \E datum \in [Present -> UNION {Readings(r) : r \in Present}] :
    /\ \A r \in Present : datum[r] \in Readings(r)
    /\ IF Present = {} THEN UNCHANGED <<pm_data, counter, gauge>>
                       ELSE RecordDatum(datum)
    /\ first_row' = [r \in Rows |-> first_row[r] /\ r \notin Present]
    /\ spoiled' = [r \in Rows |-> IF r \in Present /\ ~Usable(datum[r].value)
                                 THEN spoiled[r] + 1 ELSE spoiled[r]]
    /\ UNCHANGED <<source, grown, disturbed>>

Disturb(r) == disturbed' = [disturbed EXCEPT ![r] = ~first_row[r]]

Grow(r, n) ==
  /\ r \in Present
  /\ source[r].value + n <= MaxValue
  /\ grown[r] + n <= MaxGrowth
  /\ source' = [source EXCEPT ![r].value = @ + n]
  /\ grown' = [grown EXCEPT ![r] = IF first_row[r] THEN 0 ELSE @ + n]
  /\ UNCHANGED <<pm_data, counter, gauge, first_row, disturbed, spoiled>>

(* Statistics are reset.  The reset time is not advertised by the relation *)
(* or is within the same second, or it is later.                           *)
ResetStats(r, later) ==
  /\ r \in Present
  /\ source[r].reset + later <= MaxEpoch
  /\ source' = [source EXCEPT ![r] = [value |-> 0, reset |-> @.reset + later]]
  /\ Disturb(r)
  /\ UNCHANGED <<pm_data, counter, gauge, first_row, grown, spoiled>>

Vanish(r) ==
  /\ r \in Present
  /\ source' = [source EXCEPT ![r] = NoRow]
  /\ Disturb(r)
  /\ UNCHANGED <<pm_data, counter, gauge, first_row, grown, spoiled>>

Appear(r) ==
  /\ source[r] = NoRow
  /\ source' = [source EXCEPT ![r] = [value |-> 0, reset |-> 0]]
  /\ UNCHANGED <<pm_data, counter, gauge, first_row, grown, disturbed, spoiled>>

-----------------------------------------------------------------------------
Init ==
  /\ source \in [Rows -> {NoRow, [value |-> 0, reset |-> 0]}]
  /\ pm_data = [k \in Keys |-> NoRow]
  /\ counter = [r \in Rows |-> 0]
  /\ gauge = [r \in Rows |-> Null]
  /\ first_row = [r \in Rows |-> TRUE]
  /\ grown = [r \in Rows |-> 0]
  /\ disturbed = [r \in Rows |-> FALSE]
  /\ spoiled = [r \in Rows |-> 0]

Next ==
  \/ Poll
  \/ \E r \in Rows :
       \/ \E n \in Increments : Grow(r, n)
       \/ \E later \in {0, 1} : ResetStats(r, later)
       \/ Vanish(r)
       \/ Appear(r)

Spec == Init /\ [][Next]_vars

-----------------------------------------------------------------------------
(* Properties.                                                             *)

Value == Nat \cup {Null, NaN}
SourceRow == [value : Nat, reset : Nat]
DataRow == [value : Value, reset : Nat]

(* The variables have their types.                                         *)
TypeOK ==
  /\ source \in [Rows -> SourceRow \cup {NoRow}]
  /\ pm_data \in [Keys -> DataRow \cup {NoRow}]
  /\ counter \in [Rows -> Int \cup {NaN}]
  /\ gauge \in [Rows -> Nat \cup {Null}]
  /\ first_row \in [Rows -> BOOLEAN]
  /\ grown \in [Rows -> Nat]
  /\ disturbed \in [Rows -> BOOLEAN]
  /\ spoiled \in [Rows -> Nat]

(* The counter of a row in which no bad value was read is a number, and it *)
(* never claims more than what happened in Postgres since the row was      *)
(* first read, whatever resets, lost rows, empty results and bad values in *)
(* other rows fall between two polls.                                      *)
NeverOvercounts ==
  \A r \in Rows : spoiled[r] = 0 => counter[r] # NaN /\ counter[r] <= grown[r]

(* While a row is neither reset nor gone nor badly read, nothing is lost   *)
(* of a column that arrives as a number: what is counted and what the next *)
(* poll will add make up all the growth.                                   *)
NothingLost ==
  \A r \in Rows :
    ~Textual /\ ~first_row[r] /\ ~disturbed[r] /\ spoiled[r] = 0 =>
      counter[r] + (source[r].value - pm_data[StatKey[r]].value) = grown[r]
=============================================================================
