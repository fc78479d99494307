-------------------------- MODULE MCStackLifecycle --------------------------
(* A small instance of StackLifecycle: a pool limited to one server that is created
   with two, so that an update and the autoscaler want different sizes, and a
   schedule that sets a size and changes it. *)
EXTENDS StackLifecycle

AllSpells   == {"workload", "oke", "vcn"}
OneStep     == {1, -1}
DayAndNight == {[action |-> "CHANGE_COUNT_TO", value |-> 1], [action |-> "CHANGE_COUNT_BY", value |-> 1]}

(* A clash puts a deployment on each backend: their product is explored for the
   smallest spell. *)
Clashes == [s \in Spells |-> IF s = "vcn" THEN 1 ELSE 0]
=============================================================================
