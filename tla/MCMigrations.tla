---------------------------- MODULE MCMigrations ----------------------------
(***************************************************************************)
(* An instance of Migrations for TLC: the first three migrations, the last *)
(* of which refers to the table of the second, as kyt_alerts does to       *)
(* kyt_screens.                                                            *)
(***************************************************************************)
EXTENDS Migrations

MCNeeds == <<{}, {}, {2}>>
=============================================================================
