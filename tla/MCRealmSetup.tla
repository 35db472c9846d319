---------------------------- MODULE MCRealmSetup ----------------------------
(***************************************************************************)
(* A small instance of RealmSetup for TLC.                                 *)
(***************************************************************************)
EXTENDS RealmSetup

CONSTANTS r1, r2

TwoRuns == {r1, r2}
=============================================================================
