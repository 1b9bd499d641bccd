----------------------------- MODULE MCEntities -----------------------------
(* Small instances of the entities for TLC: a saving from February to the    *)
(* end of March with any day of the month, an execution over four instants   *)
(* with one failure more than it may be retried for, a group of three.       *)
EXTENDS Entities

CONSTANTS a1, a2, a3

ThreeMembers == {a1, a2, a3}
FromFebruary == <<28, 31, 30, 31>>
EndOfMarch   == Date(2, 31)
=============================================================================
