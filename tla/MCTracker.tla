------------------------------ MODULE MCTracker ------------------------------
(* Source-row shapes for the runs of Tracker. *)
EXTENDS Tracker

CONSTANTS A, B   \* order keys

Ev(k, s, n) == [key |-> k, state |-> s, stepTo |-> n, stepFrom |-> NoStep]
Flt(k, s, type) == [key |-> k, state |-> s, type |-> type]
Tog(k, s, i, from, to) ==
  [key |-> k, state |-> s, input |-> i, from |-> from, to |-> to]
Run(k, s, n, f, l) ==
  [key |-> k, state |-> s, step |-> n, fault |-> f, len |-> l]

NoRows == {}
OneOrder == {[key |-> A]}

(* A drink of order A, the tilter beside it, the stretches around it, and  *)
(* a door opened in one stretch and closed in another.                     *)
CycleEvents ==
  {Ev(A, "AutoCycle", 1), Ev(A, "AutoCycle", 19), Ev(A, "Tilter", 2),
   Ev("", "HomeIdle", NoStep), Ev("", "Maintenance", 1)}
CycleFaults == {Flt(A, "AutoCycle", "E_STOP"), Flt("", "Error", "DOOR_OPEN")}
CycleToggles ==
  {Tog(A, "AutoCycle", "X0.0", 1, 0), Tog("", "Error", "X0.7", 0, 1),
   Tog("", "Error", "X0.0", 0, 1)}

(* Every handler sees times only relative to one another, so it is enough   *)
(* to follow the behaviours whose first row comes at time 0.               *)
StartsAtZero == fed # <<>> => fed[1].at = 0

(* A controller with fsm_step_runs: steps of order A, of idling, of errors. *)
StepFaults == {Flt(A, "AutoCycle", "E_STOP"), Flt("", "Error", "DOOR_OPEN")}
StepEvents == {Ev(A, "AutoCycle", 19), Ev("", "HomeIdle", NoStep)}
StepShapes ==
  {Run(A, "AutoCycle", 1, "", 1), Run(A, "AutoCycle", 19, "", 1),
   Run(A, "AutoCycle", 1, "E_STOP", 2), Run(A, "Tilter", 2, "", 1),
   Run("", "HomeIdle", 0, "", 1), Run("", "Error", 1, "DOOR_OPEN", 1)}

(* One drink. *)
DrinkEvents == {Ev(A, "AutoCycle", 1), Ev(A, "AutoCycle", 19)}
=============================================================================
