------------------------------ MODULE MCDbInit -------------------------------
(* An instance of DbInit for TLC.  The versions lie on both sides of every  *)
(* key of the catalogue.                                                    *)
EXTENDS DbInit
=============================================================================
