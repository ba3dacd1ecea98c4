----------------------------- MODULE MCPgClient ------------------------------
(* An instance of PgClient for TLC.                                        *)
EXTENDS PgClient

CONSTANTS q1, q2, q3
=============================================================================
