--------------------------- MODULE TripLifecycle ---------------------------
(***************************************************************************)
(* What a traveller is promised of a trip (src/backend/app/api/routes/     *)
(* trips.py, _run_orchestrator): one run at a time; a run that makes a     *)
(* plan completes the trip; one that does not leaves a standing plan       *)
(* standing and fails a trip that had none.  Only a server that stopped    *)
(* may end a run otherwise.                                                *)
(***************************************************************************)
EXTENDS Naturals

VARIABLES
  shown,        \* the status the traveller is shown
  plans,        \* how many plans have been made
  standing,     \* was the trip completed when the run under way began?
  interrupted   \* has the server ever stopped or been killed?

vars == <<shown, plans, standing, interrupted>>

Init == shown = "pending" /\ plans = 0 /\ standing = FALSE /\ interrupted = FALSE

Begin ==
  /\ shown # "planning" /\ shown' = "planning"
  /\ standing' = (shown = "completed")
  /\ UNCHANGED <<plans, interrupted>>

\* A run that ends forgets what stood before it.
Ends == shown = "planning" /\ standing' = FALSE /\ UNCHANGED interrupted

MakePlan == Ends /\ shown' = "completed" /\ plans' = plans + 1
FallBack == Ends /\ standing /\ shown' = "completed" /\ UNCHANGED plans
Fail == Ends /\ ~standing /\ shown' = "failed" /\ UNCHANGED plans

\* The server stops, and takes the run with it or not.
Interrupt == interrupted' = TRUE /\ standing' \in {standing, FALSE} /\ UNCHANGED <<shown, plans>>

\* What a run leaves that was cut short: "completed" only if there is a plan to show.
CutShort ==
  /\ shown = "planning" /\ standing' = FALSE /\ interrupted' = TRUE
  /\ shown' \in {"failed"} \cup (IF plans > 0 THEN {"completed"} ELSE {})
  /\ UNCHANGED plans

Next == Begin \/ MakePlan \/ FallBack \/ Fail \/ Interrupt \/ CutShort

Spec == Init /\ [][Next]_vars
=============================================================================
