----------------------------- MODULE RunOutcome -----------------------------
(***************************************************************************)
(* What one planning run does to its trip's status: at most one write,     *)
(* with the plan it saves or without one, and then nothing more of either. *)
(* It is all that TripRuns supposes of the graph.                          *)
(***************************************************************************)

VARIABLES
  status,   \* the trip's status, "planning" as the run begins
  plan,     \* has the run saved a plan?
  over      \* has the run returned or crashed?

vars == <<status, plan, over>>

Init == status = "planning" /\ plan = FALSE /\ over = FALSE

Save == ~over /\ status = "planning" /\ status' = "completed" /\ plan' = TRUE /\ UNCHANGED over
GraphFails == ~over /\ status = "planning" /\ status' = "failed" /\ UNCHANGED <<plan, over>>
EndRun == ~over /\ over' = TRUE /\ UNCHANGED <<status, plan>>

Next == Save \/ GraphFails \/ EndRun
Spec == Init /\ [][Next]_vars
=============================================================================
