---------------------------- MODULE PoolCapacity ----------------------------
(***************************************************************************)
(* The capacity that a ScalableWorkload gives to the autoscaler of its     *)
(* instance pool (providers/oci/autoscale.py).                             *)
(***************************************************************************)
EXTENDS Integers

CONSTANTS
  MinInstances, MaxInstances, InitialInstances,
  ScaleSteps,  \* scale_out_value and scale_in_value of a MetricScalingPolicy
  Schedules    \* entries of a ScheduleScalingPolicy: [action, value]

(* The constructor compares none of these: the minimum may be over the maximum and
   the initial size outside both.  OCI has no negative number of instances. *)
ASSUME CapacityAssumption ==
  /\ {MinInstances, MaxInstances, InitialInstances} \subseteq Nat
  /\ ScaleSteps \subseteq Int

ScalingAction == {"CHANGE_COUNT_BY", "CHANGE_COUNT_TO"}
ScheduleEntry == [action : ScalingAction, value : Int]

ASSUME SchedulesAssumption ==
  /\ Schedules \subseteq ScheduleEntry
  /\ \A e \in Schedules : e.action = "CHANGE_COUNT_TO" => e.value \in Nat

Lesser(a, b)  == IF a <= b THEN a ELSE b
Greater(a, b) == IF a >= b THEN a ELSE b

Clamp(n) == Greater(MinInstances, Lesser(MaxInstances, n))

(* Fault: the change is not clamped. *)
ScheduledCapacityUnclamped(e) ==
  IF e.action = "CHANGE_COUNT_TO"
  THEN [initial |-> e.value, min |-> Lesser(e.value, MinInstances), max |-> Greater(e.value, MaxInstances)]
  ELSE [initial |-> InitialInstances + e.value, min |-> MinInstances, max |-> MaxInstances]

(* The capacity of one policy of the schedule: an absolute count widens the
   limits to it, a change is clamped and counts from the initial size, whatever
   the size is when the time comes. *)
ScheduledCapacity(e) ==
  IF e.action = "CHANGE_COUNT_TO"
  THEN [initial |-> e.value, min |-> Lesser(e.value, MinInstances), max |-> Greater(e.value, MaxInstances)]
  ELSE [initial |-> Clamp(InitialInstances + e.value), min |-> MinInstances, max |-> MaxInstances]

(* What a threshold rule of the metric policy makes of a size. *)
MetricSize(n, step) == Clamp(n + step)

(* The sizes that the arguments of a workload declare.  Where the minimum is over the
   maximum, clamping gives the minimum. *)
DeclaredSizes ==
  MinInstances..Greater(MinInstances, MaxInstances)
    \cup {InitialInstances}
    \cup {e.value : e \in {s \in Schedules : s.action = "CHANGE_COUNT_TO"}}
=============================================================================
