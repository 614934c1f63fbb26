---------------------------- MODULE MCMigrations ----------------------------
(***************************************************************************)
(* Two appliers with any checkouts of up to three migrations, original or  *)
(* edited, that run at once or one after the other, and one of which may   *)
(* be lost.                                                                *)
(***************************************************************************)
EXTENDS MigrationLedger

CONSTANTS a1, a2

MCAppliers == {a1, a2}

=============================================================================
