--------------------------- MODULE QueryCatalogue ----------------------------
(***************************************************************************)
(* lib/queries.js: the queries pgstatsmon knows, and getQueries(), which   *)
(* picks for a server's version the queries it can run and one SQL text    *)
(* for each.                                                               *)
(*                                                                         *)
(* versionToSql maps a least version to a SQL text.  The text is stood for *)
(* by its key; of the text itself only the functions it calls are kept,    *)
(* which are those that dbinit creates.                                    *)
(***************************************************************************)
EXTENDS Integers, SequencesExt

(* The key "all".  It is the only key of its query, and every version      *)
(* reaches it, so that it is in order before every other.                  *)
All == 0

NoSql == -1     \* applicableSql is null

-----------------------------------------------------------------------------
(* The catalogue.                                                          *)

PlainQuery(name) == [name |-> name, versionToSql |-> {All}, calls |-> {}]

TableQueries ==
  {PlainQuery("pg_stat_user_tables"),
   PlainQuery("pg_statio_user_tables"),
   PlainQuery("pg_statio_user_indexes")}

(* Their columns have other names from version 10 on.                      *)
WalQueries ==
  {[name |-> "pg_stat_replication", versionToSql |-> {90400, 100000},
    calls |-> {"get_stat_replication"}],
   [name |-> "pg_recovery", versionToSql |-> {90400, 100000}, calls |-> {}]}

DatabaseQueries ==
  {[name |-> "pg_stat_activity", versionToSql |-> {All},
    calls |-> {"get_stat_activity"}],
   PlainQuery("pg_stat_database")}

SizeQueries ==
  {PlainQuery("pg_relation_size"), PlainQuery("pg_stat_bgwriter")}

VacuumQueries ==
  {PlainQuery("pg_vacuum"),
   [name |-> "pg_stat_progress_vacuum", versionToSql |-> {90600},
    calls |-> {"get_stat_progress_vacuum"}]}

QUERIES ==
  TableQueries \cup WalQueries \cup DatabaseQueries \cup SizeQueries
    \cup VacuumQueries

(* QUERY_SCHEMA, checked at every call: numbers, or "all" and nothing else. *)
SchemaValid(catalogue) ==
  \A query \in catalogue :
    /\ IsFiniteSet(query.versionToSql)
    /\ query.versionToSql # {}
    /\ query.versionToSql \subseteq Nat
    /\ All \in query.versionToSql => query.versionToSql = {All}

-----------------------------------------------------------------------------
(* getQueries().                                                           *)

(* Mutant: the keys come in the opposite order.                            *)
NewestFirst(keys) ==
  CHOOSE order \in SetToSeqs(keys) :
    \A i, j \in DOMAIN order : i < j => order[i] > order[j]

(* The keys are digits without leading zeros, which JavaScript enumerates  *)
(* in the order of the numbers, wherever the literal has them.             *)
KeyOrder(keys) ==
  CHOOSE order \in SetToSeqs(keys) :
    \A i, j \in DOMAIN order : i < j => order[i] < order[j]

(* The last key whose version the server reaches.                          *)
ApplicableSql(keys, pg_version) ==
  FoldLeft(LAMBDA sql, key : IF pg_version >= key THEN key ELSE sql,
           NoSql, KeyOrder(keys))

getQueries(catalogue, pg_version) ==
  {[query |-> query, sql |-> ApplicableSql(query.versionToSql, pg_version)] :
     query \in {q \in catalogue :
                  ApplicableSql(q.versionToSql, pg_version) # NoSql}}

(* What getQueries asserts: a version that is a number and a result.       *)
Accepts(catalogue, pg_version) ==
  /\ pg_version \in Nat
  /\ SchemaValid(catalogue)
  /\ getQueries(catalogue, pg_version) # {}

-----------------------------------------------------------------------------
(* The reference: of a query's SQL texts the one with the highest version  *)
(* that the server reaches, and no query without such a text.              *)
Reached(keys, pg_version) == {key \in keys : key <= pg_version}

BestQueries(catalogue, pg_version) ==
  {[query |-> query,
    sql |-> CHOOSE key \in Reached(query.versionToSql, pg_version) :
              \A other \in Reached(query.versionToSql, pg_version) :
                other <= key] :
     query \in {q \in catalogue :
                  Reached(q.versionToSql, pg_version) # {}}}
=============================================================================
