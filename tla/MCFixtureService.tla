-------------------------- MODULE MCFixtureService --------------------------
(* One fixture through at most MaxVersion versions. *)
EXTENDS FixtureService, MCFixtureTables

CONSTANT MaxVersion

BoundedNext == row # NoRow /\ row.version < MaxVersion /\ Next

BoundedSpec == Init /\ [][BoundedNext]_vars
=============================================================================
