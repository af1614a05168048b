------------------------ MODULE PlanningGraph_proofs ------------------------
(***************************************************************************)
(* What TLAPS proves of PlanningGraph, for any cap on re-plans and         *)
(* retries: that a plan is saved only if its very draft passed, that a     *)
(* search with an error has nothing in hand, that nothing is built past a  *)
(* conflict or on nothing, that the page is told what was written, that a  *)
(* run does no more to its trip than RunOutcome says, and how long it can  *)
(* get.                                                                    *)
(***************************************************************************)
EXTENDS PlanningGraph, Integers, TLAPS

\* One step of the run, with the counters it may turn.
THEOREM TypeCorrect == Spec => []TypeOK
<1>1. Init => TypeOK
  <2> SUFFICES ASSUME Init PROVE TypeOK
    OBVIOUS
  <2>1. /\ retry_of \in BOOLEAN /\ hotels \in BOOLEAN /\ attractions \in BOOLEAN
        /\ hotel_error \in BOOLEAN /\ activities_error \in BOOLEAN
    BY Zenon DEF Init
  <2>2. flights \in Fares /\ flight_error \in FlightErrors
    BY DEF Init, Fares, FlightErrors
  <2>3. node \in Nodes /\ told \in SUBSET {"planning_complete", "planning_failed"}
    BY DEF Init, Nodes, Reading
  <2>4. replan_attempts \in Nat
    <3>1. replan_attempts \in {0, 1} \/ replan_attempts \in 0..MAX_REPLAN_ATTEMPTS
      BY Zenon DEF Init
    <3> QED BY <3>1, LimitsAssumption
  <2> QED BY <2>1, <2>2, <2>3, <2>4, Zenon DEF Init, TypeOK
<1>2. TypeOK /\ [Next]_vars => TypeOK'
  <2> SUFFICES ASSUME TypeOK, [Next]_vars PROVE TypeOK'
    OBVIOUS
  <2> USE LimitsAssumption
      DEF TypeOK, Nodes, Reading, Refusing, Go, searches, counters, build, outcome
  <2>1. CASE ReadRequest
    BY <2>1 DEF ReadRequest
  <2>2. CASE RunFlight
    BY <2>2 DEF RunFlight, FlightsFound
  <2>3. CASE BudgetDecision
    <3>1. budget_decision' \in {"continue", "replan", "escalate"}
      BY <2>3 DEF BudgetDecision, DecideBudget, Settled, make_budget_decision
    <3>2. replan_attempts' \in Nat
      BY <2>3 DEF BudgetDecision, DecideBudget
    <3>3. node' \in {"escalate", "build_itinerary", "run_flight", "hotel_activities"}
      BY <2>3 DEF BudgetDecision, AfterBudget, Stops
    <3> QED BY <2>3, <3>1, <3>2, <3>3 DEF BudgetDecision
  <2>4. CASE HotelActivities
    <3>1. /\ hotels' \in BOOLEAN /\ attractions' \in BOOLEAN
          /\ hotel_error' \in BOOLEAN /\ activities_error' \in BOOLEAN
      BY <2>4, Zenon DEF HotelActivities
    <3>2. node' \in {"build_itinerary", "nothing_found"}
      BY <2>4, Zenon DEF HotelActivities
    <3> QED BY <2>4, <3>1, <3>2 DEF HotelActivities
  <2>5. CASE SearchAgain
    <3>1. CASE SearchFlightsAgain
      BY <2>5, <3>1 DEF SearchFlightsAgain, FoundAgain, FlightsFound, Cheaper, Fares, FlightErrors
    <3>2. CASE SearchHotelsAgain
      BY <2>5, <3>2 DEF SearchHotelsAgain, FoundAgain
    <3>3. CASE SearchActivitiesAgain
      BY <2>5, <3>3 DEF SearchActivitiesAgain, FoundAgain
    <3> QED BY <2>5, <3>1, <3>2, <3>3 DEF SearchAgain
  <2>6. CASE BuildItinerary
    BY <2>6 DEF BuildItinerary
  <2>7. CASE Evaluate
    BY <2>7 DEF Evaluate, RouteAfterEvaluator, FailedNode
  <2>8. CASE RetryDispatch
    <3>1. attractions' \in BOOLEAN /\ activities_error' \in BOOLEAN
      BY <2>8, Zenon DEF RetryDispatch, ActivitiesRetried
    <3>2. flights' \in Fares /\ flight_error' \in FlightErrors
      BY <2>8 DEF RetryDispatch, FlightsRetried, FlightErrors
    <3> QED BY <2>8, <3>1, <3>2 DEF RetryDispatch, RetryCounted
  <2>9. CASE Localise
    BY <2>9 DEF Localise
  <2>10. CASE Persist
    BY <2>10 DEF Persist
  <2>11. CASE Merge
    BY <2>11 DEF Merge, StatusMerged
  <2>12. CASE ExtractPreferences
    BY <2>12 DEF ExtractPreferences
  <2>13. CASE Refuse
    BY <2>13 DEF Refuse, StatusRefused
  <2>14. CASE TellWhy
    BY <2>14 DEF TellWhy
  <2>15. CASE Crash
    BY <2>15 DEF Crash
  <2>16. CASE UNCHANGED vars
    BY <2>16 DEF vars
  <2> QED
    BY <2>1, <2>2, <2>3, <2>4, <2>5, <2>6, <2>7, <2>8, <2>9, <2>10, <2>11, <2>12, <2>13, <2>14, <2>15, <2>16
    DEF Next, Proceed
<1> QED BY <1>1, <1>2, PTL DEF Spec

-----------------------------------------------------------------------------
(* A search with an error has nothing in hand                              *)

\* Whatever is searched again, and whichever result is kept, errors and results never mix.
THEOREM ErrorsAreHonest == Spec => []ErrorMeansEmpty
<1>1. Init => ErrorMeansEmpty
  BY DEF Init, ErrorMeansEmpty
<1>2. TypeOK /\ ErrorMeansEmpty /\ [Next]_vars => ErrorMeansEmpty'
  <2> SUFFICES ASSUME TypeOK, ErrorMeansEmpty, [Next]_vars PROVE ErrorMeansEmpty'
    OBVIOUS
  <2> USE DEF ErrorMeansEmpty
  <2>1. CASE RunFlight
    BY <2>1 DEF RunFlight, FlightsFound
  <2>2. CASE HotelActivities
    BY <2>2 DEF HotelActivities
  <2>3. CASE SearchAgain
    <3>1. CASE SearchFlightsAgain
      <4>1. PICK fare \in Fares, error \in FlightErrors :
              /\ flights' = Cheaper(fare, flights)
              /\ flight_error' = IF fare # "none" THEN "none" ELSE flight_error
        BY <3>1 DEF SearchFlightsAgain
      <4>2. fare = "none" /\ flights = "none" => flights' = "none"
        BY <4>1 DEF Cheaper
      <4> QED BY <3>1, <4>1, <4>2 DEF SearchFlightsAgain
    <3>2. CASE SearchHotelsAgain
      BY <3>2 DEF SearchHotelsAgain
    <3>3. CASE SearchActivitiesAgain
      BY <3>3 DEF SearchActivitiesAgain
    <3> QED BY <2>3, <3>1, <3>2, <3>3 DEF SearchAgain
  <2>4. CASE RetryDispatch
    BY <2>4 DEF RetryDispatch, FlightsRetried, ActivitiesRetried
  <2>5. CASE UNCHANGED searches
    BY <2>5 DEF searches
  <2> QED
    BY <2>1, <2>2, <2>3, <2>4, <2>5
    DEF Next, Proceed, ReadRequest, BudgetDecision, BuildItinerary, Evaluate, Localise, Persist, Merge,
        ExtractPreferences, Refuse, TellWhy, Crash, vars
<1> QED BY <1>1, <1>2, TypeCorrect, PTL DEF Spec

-----------------------------------------------------------------------------
(* A plan is saved only if it passed                                       *)

\* Where a draft that passed is on its way to be saved.
Saving == {"localise", "persist", "merge"}
\* The draft a retry has built is a new one, and the one judged is the one that is saved.
PassedInv ==
  /\ node = "evaluate" => draft_itinerary \in {0, evaluator_retry_count + 1}
  /\ node \in Saving \/ saved # 0
       => verdict = "passed" /\ judged = draft_itinerary /\ draft_itinerary = evaluator_retry_count + 1
  /\ saved \in {0, draft_itinerary}
  /\ saved # 0 => node \in {"merge", "extract_preferences", "END", "crashed"}
  /\ node = "merge" => saved # 0

\* From the retry that builds a draft to the end of the run, the draft, its verdict and what is saved agree.
LEMMA PassedKept == Spec => []PassedInv
<1>1. Init => PassedInv
  BY DEF Init, PassedInv, Saving
<1>2. TypeOK /\ PassedInv /\ [Next]_vars => PassedInv'
  <2> SUFFICES ASSUME TypeOK, PassedInv, [Next]_vars PROVE PassedInv'
    OBVIOUS
  <2> USE DEF PassedInv, Saving, TypeOK, Go
  <2>1. CASE ReadRequest
    BY <2>1 DEF ReadRequest, Reading, counters, build, outcome
  <2>2. CASE RunFlight
    BY <2>2 DEF RunFlight, counters, build, outcome
  <2>3. CASE BudgetDecision
    <3>1. node' \in {"escalate", "build_itinerary", "run_flight", "hotel_activities"}
      BY <2>3 DEF BudgetDecision, AfterBudget, Stops
    <3> QED BY <2>3, <3>1 DEF BudgetDecision, build, outcome
  <2>4. CASE HotelActivities
    BY <2>4 DEF HotelActivities, counters, build, outcome
  <2>5. CASE SearchAgain
    <3>1. node = "search" /\ node' \in {"budget_decision", "build_itinerary", "refused"}
      BY <2>5 DEF SearchAgain, SearchFlightsAgain, SearchHotelsAgain, SearchActivitiesAgain, FoundAgain
    <3>2. UNCHANGED <<evaluator_retry_count, build, outcome>>
      BY <2>5 DEF SearchAgain, SearchFlightsAgain, SearchHotelsAgain, SearchActivitiesAgain, counters
    <3> QED BY <3>1, <3>2 DEF build, outcome
  <2>6. CASE BuildItinerary
    BY <2>6 DEF BuildItinerary, counters, outcome
  <2>7. CASE Evaluate
    <3>1. draft_itinerary = 0 => verdict' = "other"
      BY <2>7 DEF Evaluate
    <3>2. /\ node' \in {"builder_failed", "localise", "retry_dispatch"}
          /\ node' = "localise" => verdict' = "passed"
      BY <2>7 DEF Evaluate, RouteAfterEvaluator, FailedNode, Passed
    <3> QED BY <2>7, <3>1, <3>2 DEF Evaluate, counters, outcome
  <2>8. CASE RetryDispatch
    BY <2>8 DEF RetryDispatch, build, outcome
  <2>9. CASE Localise
    BY <2>9 DEF Localise, counters, build, outcome
  <2>10. CASE Persist
    BY <2>10 DEF Persist, counters, build
  <2>11. CASE Merge
    BY <2>11 DEF Merge, counters, build
  <2>12. CASE ExtractPreferences
    BY <2>12 DEF ExtractPreferences, counters, build, outcome
  <2>13. CASE Refuse
    BY <2>13 DEF Refuse, Refusing, counters, build
  <2>14. CASE TellWhy
    BY <2>14 DEF TellWhy, counters, build
  <2>15. CASE Crash
    BY <2>15 DEF Crash, counters, build, outcome
  <2>16. CASE UNCHANGED vars
    BY <2>16 DEF vars, counters, build, outcome
  <2> QED
    BY <2>1, <2>2, <2>3, <2>4, <2>5, <2>6, <2>7, <2>8, <2>9, <2>10, <2>11, <2>12, <2>13, <2>14, <2>15, <2>16
    DEF Next, Proceed
<1> QED BY <1>1, <1>2, TypeCorrect, PTL DEF Spec

\* What is saved is the draft built last, and the one the evaluator passed.
THEOREM OnlyPassedPlansAreSaved == Spec => []SavedPlanPassed
<1>1. PassedInv => SavedPlanPassed
  BY DEF PassedInv, SavedPlanPassed, Saving
<1> QED BY <1>1, PassedKept, PTL

-----------------------------------------------------------------------------
(* What a run has done by the time it reaches a node                       *)

\* The nodes before the first draft, those that may have one, and the first of what is written.
Searching == Reading \cup {"search", "run_flight", "budget_decision", "hotel_activities"}
Drafting == {"build_itinerary", "evaluate", "retry_dispatch", "localise", "persist"}
Unwritten == Searching \cup Drafting \cup Refusing

InHand == flights # "none" \/ hotels \/ attractions
\* A targeted pass starts with something in hand and loses none of it; a full run builds only from something.
InHandInv ==
  /\ kind # "full" \/ node \in Drafting => InHand
  /\ node \in {"run_flight", "hotel_activities"} => kind = "full"

\* A conflict ends the run before anything is built.
ConflictInv ==
  /\ node \in Searching => draft_itinerary = 0
  /\ budget_decision = "escalate"
       => node \in {"escalate", "refused", "END", "crashed"} /\ draft_itinerary = 0

\* The one write of the status, the plan that goes with it and what the page has been told, at each node.
OutcomeInv ==
  /\ node \in Unwritten => saved = 0 /\ status = "planning" /\ told = {}
  /\ node = "merge" => told = {}
  /\ node \in {"merge", "extract_preferences"} => saved # 0
  /\ saved # 0 <=> status = "completed"
  /\ node = "refused" => saved = 0 /\ told = {} /\ (status = "failed" \/ retry_of)
  /\ node = "extract_preferences" => told = {"planning_complete"}
  /\ "planning_complete" \in told => saved # 0 /\ "planning_failed" \notin told
  /\ "planning_failed" \in told => saved = 0 /\ (status = "failed" \/ (retry_of /\ status = "planning"))
  /\ node = "END" => told # {}


\* What a search of a targeted pass does to the rest of the run.
LEMMA SearchedAgain ==
  TypeOK /\ SearchAgain
    => /\ node = "search" /\ kind # "full"
       /\ node' \in {"budget_decision", "build_itinerary"} \/ (node' = "refused" /\ retry_of)
       /\ InHand => InHand'
       /\ UNCHANGED <<kind, retry_of, evaluator_retry_count, budget_decision, build, outcome>>
<1> SUFFICES ASSUME TypeOK, SearchAgain
             PROVE  /\ node = "search" /\ kind # "full"
                    /\ node' \in {"budget_decision", "build_itinerary"} \/ (node' = "refused" /\ retry_of)
                    /\ InHand => InHand'
                    /\ UNCHANGED <<kind, retry_of, evaluator_retry_count, budget_decision, build, outcome>>
  OBVIOUS
<1>1. CASE SearchFlightsAgain
  <2>1. PICK fare \in Fares, error \in FlightErrors :
          FoundAgain(fare # "none", "budget_decision") /\ flights' = Cheaper(fare, flights)
    BY <1>1 DEF SearchFlightsAgain
  <2>2. flights # "none" => flights' # "none"
    BY <2>1 DEF TypeOK, Fares, Cheaper
  <2>3. InHand => InHand'
    BY <1>1, <2>2 DEF InHand, SearchFlightsAgain
  <2> QED BY <1>1, <2>1, <2>3 DEF SearchFlightsAgain, FoundAgain, Go
<1>2. CASE SearchHotelsAgain
  <2>1. PICK found \in BOOLEAN : FoundAgain(found, "build_itinerary") /\ hotels' = (found \/ hotels)
    BY <1>2 DEF SearchHotelsAgain
  <2>2. InHand => InHand'
    BY <1>2, <2>1, Zenon DEF InHand, SearchHotelsAgain
  <2> QED BY <1>2, <2>1, <2>2 DEF SearchHotelsAgain, FoundAgain, Go, counters
<1>3. CASE SearchActivitiesAgain
  <2>1. PICK found \in BOOLEAN : FoundAgain(found, "build_itinerary") /\ attractions' = (found \/ attractions)
    BY <1>3 DEF SearchActivitiesAgain
  <2>2. InHand => InHand'
    BY <1>3, <2>1, Zenon DEF InHand, SearchActivitiesAgain
  <2> QED BY <1>3, <2>1, <2>2 DEF SearchActivitiesAgain, FoundAgain, Go, counters
<1> QED BY <1>1, <1>2, <1>3 DEF SearchAgain

\* A search that is run again loses nothing of what was in hand, whichever result is kept.
LEMMA InHandKept == Spec => []InHandInv
<1>1. Init => InHandInv
  BY Zenon DEF Init, InHandInv, InHand, Drafting
<1>2. TypeOK /\ InHandInv /\ [Next]_vars => InHandInv'
  <2> SUFFICES ASSUME TypeOK, InHandInv, [Next]_vars PROVE InHandInv'
    OBVIOUS
  <2> USE DEF InHandInv, Drafting, Go
  <2>1. CASE ReadRequest
    BY <2>1 DEF ReadRequest, InHand, searches
  <2>2. CASE RunFlight
    BY <2>2 DEF RunFlight, InHand
  <2>3. CASE BudgetDecision
    BY <2>3 DEF BudgetDecision, AfterBudget, InHand, searches
  <2>4. CASE HotelActivities
    <3>1. node' = "build_itinerary" => InHand'
      BY <2>4, Zenon DEF HotelActivities, InHand
    <3>2. node' \in {"build_itinerary", "nothing_found"}
      BY <2>4, Zenon DEF HotelActivities
    <3>3. UNCHANGED kind /\ node = "hotel_activities"
      BY <2>4 DEF HotelActivities
    <3> QED BY <3>1, <3>2, <3>3
  <2>5. CASE SearchAgain
    BY <2>5, SearchedAgain
  <2>6. CASE BuildItinerary
    BY <2>6 DEF BuildItinerary, InHand, searches
  <2>7. CASE Evaluate
    BY <2>7 DEF Evaluate, RouteAfterEvaluator, FailedNode, InHand, searches
  <2>8. CASE RetryDispatch
    <3>1. UNCHANGED <<flights, attractions>> \/ flights' # "none" \/ attractions' = TRUE
      BY <2>8 DEF RetryDispatch, FlightsRetried, ActivitiesRetried
    <3>2. UNCHANGED hotels /\ InHand /\ node' = "build_itinerary"
      BY <2>8 DEF RetryDispatch
    <3> QED BY <3>1, <3>2 DEF InHand
  <2>9. ASSUME UNCHANGED <<searches, kind>>, node' \in Drafting \cup {"run_flight", "hotel_activities"} => UNCHANGED node
        PROVE  InHandInv'
    BY <2>9 DEF searches, InHand
  <2>10. CASE Localise
    BY <2>10 DEF Localise, searches, InHand
  <2>11. CASE Persist \/ Merge \/ ExtractPreferences \/ Refuse \/ TellWhy \/ Crash
    BY <2>9, <2>11 DEF Persist, Merge, ExtractPreferences, Refuse, TellWhy, Crash
  <2>12. CASE UNCHANGED vars
    BY <2>9, <2>12 DEF vars
  <2> QED
    BY <2>1, <2>2, <2>3, <2>4, <2>5, <2>6, <2>7, <2>8, <2>10, <2>11, <2>12 DEF Next, Proceed
<1> QED BY <1>1, <1>2, TypeCorrect, PTL DEF Spec


\* Whatever is refused stops the run where no draft has been built yet.
LEMMA ConflictKept == Spec => []ConflictInv
<1>1. Init => ConflictInv
  BY Zenon DEF Init, ConflictInv
<1>2. TypeOK /\ ConflictInv /\ [Next]_vars => ConflictInv'
  <2> SUFFICES ASSUME TypeOK, ConflictInv, [Next]_vars PROVE ConflictInv'
    OBVIOUS
  <2> USE DEF ConflictInv, Searching, Reading, Go, build
  <2>1. CASE ReadRequest
    BY <2>1 DEF ReadRequest
  <2>2. CASE RunFlight
    BY <2>2 DEF RunFlight
  <2>3. CASE BudgetDecision
    <3>1. budget_decision' = "escalate" <=> node' = "escalate"
      BY <2>3 DEF BudgetDecision, AfterBudget, Stops
    <3> QED BY <2>3, <3>1 DEF BudgetDecision
  <2>4. CASE HotelActivities
    <3>1. node = "hotel_activities" /\ node' \in {"build_itinerary", "nothing_found"}
      BY <2>4, Zenon DEF HotelActivities
    <3> QED BY <2>4, <3>1 DEF HotelActivities
  <2>5. CASE SearchAgain
    BY <2>5, SearchedAgain
  <2>6. CASE BuildItinerary
    BY <2>6 DEF BuildItinerary
  <2>7. CASE Evaluate
    BY <2>7 DEF Evaluate, RouteAfterEvaluator, FailedNode
  <2>8. CASE RetryDispatch
    BY <2>8 DEF RetryDispatch
  <2>9. CASE Localise \/ Persist \/ Merge \/ ExtractPreferences
    BY <2>9 DEF Localise, Persist, Merge, ExtractPreferences
  <2>10. CASE Refuse \/ TellWhy \/ Crash
    BY <2>10 DEF Refuse, Refusing, TellWhy, Crash, Over
  <2>11. CASE UNCHANGED vars
    BY <2>11 DEF vars
  <2> QED
    BY <2>1, <2>2, <2>3, <2>4, <2>5, <2>6, <2>7, <2>8, <2>9, <2>10, <2>11 DEF Next, Proceed
<1> QED BY <1>1, <1>2, TypeCorrect, PTL DEF Spec

\* The status is written once, with the plan or without it, and the page told afterwards.
LEMMA OutcomeKept == Spec => []OutcomeInv
<1>1. Init => OutcomeInv
  BY Zenon DEF Init, OutcomeInv
<1>2. TypeOK /\ PassedInv /\ OutcomeInv /\ [Next]_vars => OutcomeInv'
  <2> SUFFICES ASSUME TypeOK, PassedInv, OutcomeInv, [Next]_vars PROVE OutcomeInv'
    OBVIOUS
  <2> USE DEF OutcomeInv, Unwritten, Searching, Drafting, Reading, Refusing, Go, outcome
  <2>1. ASSUME UNCHANGED outcome, node \in Unwritten, node' \in Unwritten
        PROVE  OutcomeInv'
    BY <2>1
  <2>2. CASE ReadRequest
    BY <2>1, <2>2 DEF ReadRequest
  <2>3. CASE RunFlight
    BY <2>1, <2>3 DEF RunFlight
  <2>4. CASE BudgetDecision
    BY <2>1, <2>4 DEF BudgetDecision, AfterBudget
  <2>5. CASE HotelActivities
    <3>1. node' \in {"build_itinerary", "nothing_found"}
      BY <2>5, Zenon DEF HotelActivities
    <3> QED BY <2>1, <2>5, <3>1 DEF HotelActivities
  <2>6. CASE SearchAgain
    BY <2>6, SearchedAgain
  <2>7. CASE BuildItinerary
    BY <2>1, <2>7 DEF BuildItinerary
  <2>8. CASE Evaluate
    BY <2>1, <2>8 DEF Evaluate, RouteAfterEvaluator, FailedNode
  <2>9. CASE RetryDispatch
    BY <2>1, <2>9 DEF RetryDispatch
  <2>10. CASE Localise
    BY <2>1, <2>10 DEF Localise
  <2>11. CASE Persist
    <3>1. draft_itinerary # 0
      BY <2>11 DEF Persist, PassedInv, Saving, TypeOK
    <3> QED BY <2>11, <3>1 DEF Persist
  <2>12. CASE Merge
    <3>1. UNCHANGED <<saved, status, retry_of>> /\ told' = told \cup {"planning_complete"} /\ node = "merge"
      BY <2>12 DEF Merge, StatusMerged
    <3>2. node' \in {"extract_preferences", "END"}
      BY <2>12 DEF Merge
    <3> QED BY <3>1, <3>2
  <2>13. CASE ExtractPreferences
    BY <2>13 DEF ExtractPreferences
  <2>14. CASE Refuse
    BY <2>14 DEF Refuse, StatusRefused
  <2>15. CASE TellWhy
    BY <2>15 DEF TellWhy, TypeOK
  <2>16. CASE Crash
    BY <2>16 DEF Crash
  <2>17. CASE UNCHANGED vars
    BY <2>17 DEF vars
  <2> QED
    BY <2>2, <2>3, <2>4, <2>5, <2>6, <2>7, <2>8, <2>9, <2>10, <2>11, <2>12, <2>13, <2>14, <2>15, <2>16, <2>17
    DEF Next, Proceed
<1> QED BY <1>1, <1>2, TypeCorrect, PassedKept, PTL DEF Spec

\* A conflict stops the run before a draft, and a builder that is asked has something to build from.
THEOREM BuiltOnlyOnWhatStands == Spec => []BuiltOnWhatStands
<1>1. InHandInv /\ ConflictInv /\ PassedInv /\ TypeOK /\ OutcomeInv => BuiltOnWhatStands
  <2> SUFFICES ASSUME InHandInv, ConflictInv, PassedInv, TypeOK, OutcomeInv PROVE BuiltOnWhatStands
    OBVIOUS
  <2>1. budget_decision = "escalate" => draft_itinerary = 0 /\ saved = 0
    BY DEF ConflictInv, PassedInv
  <2>2. node = "build_itinerary" => InHand
    BY DEF InHandInv, Drafting
  <2> QED BY <2>1, <2>2 DEF OutcomeInv, InHand, BuiltOnWhatStands
<1> QED BY <1>1, InHandKept, ConflictKept, PassedKept, OutcomeKept, TypeCorrect, PTL

\* What the page is told at the end is what the trip's status says.
THEOREM PageToldTheTruth == Spec => []ToldTheTruth
<1>1. TypeOK /\ OutcomeInv => ToldTheTruth
  BY DEF TypeOK, OutcomeInv, ToldTheTruth
<1> QED BY <1>1, TypeCorrect, OutcomeKept, PTL

-----------------------------------------------------------------------------
(* A run is one write of the status                                        *)

\* Persist is the write with the plan, a refusal the one without; the nodes that lead to END, and a
\* crash anywhere, end the run; no other step is seen from outside.
THEOREM RunImplementsOutcome == Spec => WritesStatusOnce
<1>1. Init => Outcome!Init
  <2>1. Init => node = "language" /\ saved = 0 /\ status = "planning"
    BY Zenon DEF Init
  <2> QED BY <2>1 DEF Outcome!Init, Over
<1>2. TypeOK /\ PassedInv /\ OutcomeInv /\ [Next]_vars => [Outcome!Next]_(Outcome!vars)
  <2> SUFFICES ASSUME TypeOK, PassedInv, OutcomeInv, [Next]_vars PROVE [Outcome!Next]_(Outcome!vars)
    OBVIOUS
  <2> DEFINE plan == saved # 0
             over == node \in Over
  <2>1. ASSUME UNCHANGED <<status, saved>>, over' = over
        PROVE  [Outcome!Next]_(Outcome!vars)
    BY <2>1 DEF Outcome!vars
  <2>2. ASSUME UNCHANGED <<status, saved>>, ~over, over'
        PROVE  [Outcome!Next]_(Outcome!vars)
    BY <2>2 DEF Outcome!Next, Outcome!EndRun
  <2> USE DEF Over, Go, outcome
  <2>3. CASE ReadRequest
    BY <2>1, <2>3 DEF ReadRequest, Reading
  <2>4. CASE RunFlight
    BY <2>1, <2>4 DEF RunFlight
  <2>5. CASE BudgetDecision
    BY <2>1, <2>5 DEF BudgetDecision, AfterBudget
  <2>6. CASE HotelActivities
    <3>1. node' \in {"build_itinerary", "nothing_found"}
      BY <2>6, Zenon DEF HotelActivities
    <3> QED BY <2>1, <2>6, <3>1 DEF HotelActivities
  <2>7. CASE SearchAgain
    BY <2>1, <2>7, SearchedAgain
  <2>8. CASE BuildItinerary
    BY <2>1, <2>8 DEF BuildItinerary
  <2>9. CASE Evaluate
    BY <2>1, <2>9 DEF Evaluate, RouteAfterEvaluator, FailedNode
  <2>10. CASE RetryDispatch
    BY <2>1, <2>10 DEF RetryDispatch
  <2>11. CASE Localise
    BY <2>1, <2>11 DEF Localise
  <2>12. CASE Persist
    <3>1. draft_itinerary # 0
      BY <2>12 DEF Persist, PassedInv, Saving, TypeOK
    <3>2. status = "planning" /\ status' = "completed" /\ saved' # 0 /\ ~over /\ ~over'
      BY <2>12, <3>1 DEF Persist, OutcomeInv, Unwritten, Drafting
    <3>3. Outcome!Save
      BY <3>2 DEF Outcome!Save
    <3> QED BY <3>3 DEF Outcome!Next
  <2>13. CASE Merge
    <3>1. UNCHANGED <<status, saved>> /\ node = "merge" /\ node' \in {"extract_preferences", "END"}
      BY <2>13 DEF Merge, StatusMerged
    <3> QED BY <2>1, <2>2, <3>1
  <2>14. CASE ExtractPreferences
    BY <2>2, <2>14 DEF ExtractPreferences
  <2>15. CASE Refuse
    <3>1. status = "planning" /\ status' = "failed" /\ UNCHANGED saved /\ ~over /\ ~over'
      BY <2>15 DEF Refuse, StatusRefused, Refusing, OutcomeInv, Unwritten
    <3>2. Outcome!GraphFails
      BY <3>1 DEF Outcome!GraphFails
    <3> QED BY <3>2 DEF Outcome!Next
  <2>16. CASE TellWhy
    BY <2>2, <2>16 DEF TellWhy
  <2>17. CASE Crash
    BY <2>2, <2>17 DEF Crash
  <2>18. CASE UNCHANGED vars
    BY <2>1, <2>18 DEF vars
  <2> QED
    BY <2>3, <2>4, <2>5, <2>6, <2>7, <2>8, <2>9, <2>10, <2>11, <2>12, <2>13, <2>14, <2>15, <2>16, <2>17, <2>18
    DEF Next, Proceed
<1> QED
  BY <1>1, <1>2, TypeCorrect, PassedKept, OutcomeKept, PTL DEF Spec, WritesStatusOnce, Outcome!Spec

-----------------------------------------------------------------------------
(* How long a run can get                                                  *)

\* The nodes still to run, at most, this one included.
ForRetries == 3 * (MAX_EVALUATOR_RETRIES - evaluator_retry_count)
ForReplans == IF kind = "full" THEN 2 * (MAX_REPLAN_ATTEMPTS - replan_attempts) ELSE 0
NodesLeft ==
  CASE node = "language" -> 12 + ForRetries + ForReplans
    [] node = "intent_parsing" -> 11 + ForRetries + ForReplans
    [] node = "apply_preferences" -> 10 + ForRetries + ForReplans
    [] node \in {"run_flight", "search"} -> 9 + ForRetries + ForReplans
    [] node = "budget_decision" -> 8 + ForRetries + ForReplans
    [] node = "hotel_activities" -> 7 + ForRetries
    [] node = "build_itinerary" -> 6 + ForRetries
    [] node = "evaluate" -> 5 + ForRetries
    [] node = "retry_dispatch" -> 4 + ForRetries
    [] node = "localise" -> 4
    [] node = "persist" -> 3
    [] node = "merge" -> 2
    [] node \in {"extract_preferences"} \cup Refusing -> 1
    [] OTHER -> 0

CountersInv ==
  /\ replan_attempts <= MAX_REPLAN_ATTEMPTS /\ evaluator_retry_count <= MAX_EVALUATOR_RETRIES
  /\ node = "retry_dispatch" => evaluator_retry_count < MAX_EVALUATOR_RETRIES
StepsInv == CountersInv /\ steps + NodesLeft <= MaxSteps

\* Re-plans and retries stay within their caps, and each is used only where it is counted.
LEMMA CountersKept == TypeOK /\ CountersInv /\ [Next]_vars => CountersInv'
<1> SUFFICES ASSUME TypeOK, CountersInv, [Next]_vars PROVE CountersInv'
  OBVIOUS
<1> USE LimitsAssumption DEF TypeOK, CountersInv, Go, counters
<1>1. CASE ReadRequest
  BY <1>1 DEF ReadRequest
<1>2. CASE RunFlight
  BY <1>2 DEF RunFlight
<1>3. CASE BudgetDecision
  <2>1. budget_decision' = "replan" => replan_attempts < MAX_REPLAN_ATTEMPTS
    <3> DEFINE asked == make_budget_decision(flights, replan_attempts, flight_error)
    <3>1. asked = "replan" => replan_attempts < MAX_REPLAN_ATTEMPTS
      BY DEF make_budget_decision
    <3>2. budget_decision' \in Settled(flights, replan_attempts, flight_error, asked)
      BY <1>3 DEF BudgetDecision, DecideBudget
    <3> HIDE DEF asked
    <3>3. budget_decision' \in {asked, "continue", "escalate"}
      BY <3>2 DEF Settled
    <3> QED BY <3>1, <3>3
  <2>2. replan_attempts' <= MAX_REPLAN_ATTEMPTS
    BY <1>3, <2>1 DEF BudgetDecision, DecideBudget
  <2>3. node' # "retry_dispatch"
    BY <1>3 DEF BudgetDecision, AfterBudget
  <2> QED BY <1>3, <2>2, <2>3 DEF BudgetDecision
<1>4. CASE HotelActivities
  <2>1. node' # "retry_dispatch"
    BY <1>4, Zenon DEF HotelActivities
  <2> QED BY <1>4, <2>1 DEF HotelActivities
<1>5. CASE SearchAgain
  <2>1. /\ node' # "retry_dispatch" /\ UNCHANGED evaluator_retry_count
        /\ replan_attempts' \in {0, replan_attempts}
    BY <1>5 DEF SearchAgain, SearchFlightsAgain, SearchHotelsAgain, SearchActivitiesAgain, FoundAgain
  <2> QED BY <2>1
<1>6. CASE BuildItinerary
  BY <1>6 DEF BuildItinerary
<1>7. CASE Evaluate
  <2>1. node' = "retry_dispatch" => RetriesLeft
    BY <1>7 DEF Evaluate, RouteAfterEvaluator, FailedNode
  <2> QED BY <1>7, <2>1 DEF Evaluate, RetriesLeft
<1>8. CASE RetryDispatch
  BY <1>8 DEF RetryDispatch, RetryCounted
<1>9. CASE Localise
  BY <1>9 DEF Localise
<1>10. CASE Persist
  BY <1>10 DEF Persist
<1>11. CASE Merge
  BY <1>11 DEF Merge
<1>12. CASE ExtractPreferences
  BY <1>12 DEF ExtractPreferences
<1>13. CASE Refuse
  BY <1>13 DEF Refuse
<1>14. CASE TellWhy
  BY <1>14 DEF TellWhy
<1>15. CASE Crash
  BY <1>15 DEF Crash
<1>16. CASE UNCHANGED vars
  BY <1>16 DEF vars
<1> QED
  BY <1>1, <1>2, <1>3, <1>4, <1>5, <1>6, <1>7, <1>8, <1>9, <1>10, <1>11, <1>12, <1>13, <1>14, <1>15, <1>16
  DEF Next, Proceed

\* Every node counted brings the end nearer by one, at least: a re-plan and a retry too, each of which
\* takes the run back but uses up its allowance.
THEOREM RunsAreBounded == Spec => []StepsBounded
<1>1. Init => StepsInv
  <2> SUFFICES ASSUME Init PROVE StepsInv
    OBVIOUS
  <2>1. node = "language" /\ steps = 0 /\ evaluator_retry_count = 0
    BY Zenon DEF Init
  <2>2. replan_attempts \in {0, 1} \/ replan_attempts \in 0..MAX_REPLAN_ATTEMPTS
    BY Zenon DEF Init
  <2> QED
    BY <2>1, <2>2, LimitsAssumption DEF StepsInv, CountersInv, NodesLeft, ForRetries, ForReplans, MaxSteps
<1>2. TypeOK /\ StepsInv /\ [Next]_vars => StepsInv'
  <2> SUFFICES ASSUME TypeOK, StepsInv, [Next]_vars PROVE StepsInv'
    OBVIOUS
  <2>1. CountersInv'
    BY CountersKept DEF StepsInv
  <2> USE LimitsAssumption, <2>1
      DEF TypeOK, StepsInv, CountersInv, NodesLeft, ForRetries, ForReplans, MaxSteps, Refusing, Go, counters
  <2>2. CASE ReadRequest
    BY <2>2 DEF ReadRequest, Reading
  <2>3. CASE RunFlight
    BY <2>3 DEF RunFlight
  <2>4. CASE BudgetDecision
    <3>1. /\ node = "budget_decision" /\ UNCHANGED <<kind, evaluator_retry_count>>
          /\ steps' <= steps + 1 /\ steps' \in Nat
      BY <2>4 DEF BudgetDecision
    <3>2. \/ node' \in {"escalate", "build_itinerary", "hotel_activities"}
          \/ kind = "full" /\ node' = "run_flight" /\ budget_decision' = "replan"
      BY <2>4 DEF BudgetDecision, AfterBudget
    <3>3. replan_attempts' = replan_attempts + (IF budget_decision' = "replan" THEN 1 ELSE 0)
      BY <2>4 DEF BudgetDecision, DecideBudget
    <3>4. CASE node' \in {"escalate", "build_itinerary", "hotel_activities"}
      BY <3>1, <3>4
    <3>5. CASE kind = "full" /\ node' = "run_flight" /\ budget_decision' = "replan"
      <4>1. ForRetries' = ForRetries /\ ForReplans' = ForReplans - 2
        BY <3>1, <3>3, <3>5
      <4>2. /\ NodesLeft = 8 + ForRetries + ForReplans /\ NodesLeft' = 9 + ForRetries' + ForReplans'
            /\ ForRetries \in Int /\ ForReplans \in Int
        BY <3>1, <3>5
      <4> QED BY <3>1, <4>1, <4>2
    <3> QED BY <3>2, <3>4, <3>5
  <2>5. CASE HotelActivities
    <3>1. /\ node = "hotel_activities" /\ node' \in {"build_itinerary", "nothing_found"}
          /\ UNCHANGED <<kind, counters>>
      BY <2>5, Zenon DEF HotelActivities
    <3>2. steps' <= steps + 1 /\ steps' \in Nat
      BY <2>5 DEF HotelActivities
    <3> QED BY <3>1, <3>2
  <2>6. CASE SearchAgain
    <3>1. /\ node = "search" /\ node' \in {"budget_decision", "build_itinerary", "refused"}
          /\ kind # "full" /\ UNCHANGED <<kind, evaluator_retry_count>>
      BY <2>6 DEF SearchAgain, SearchFlightsAgain, SearchHotelsAgain, SearchActivitiesAgain, FoundAgain
    <3>2. steps' <= steps + 1 /\ steps' \in Nat
      BY <2>6 DEF SearchAgain, SearchFlightsAgain, SearchHotelsAgain, SearchActivitiesAgain, FoundAgain
    <3> QED BY <3>1, <3>2
  <2>7. CASE BuildItinerary
    BY <2>7 DEF BuildItinerary
  <2>8. CASE Evaluate
    <3>1. node' \in {"builder_failed", "localise", "retry_dispatch"}
      BY <2>8 DEF Evaluate, RouteAfterEvaluator, FailedNode
    <3> QED BY <2>8, <3>1 DEF Evaluate
  <2>9. CASE RetryDispatch
    BY <2>9 DEF RetryDispatch, RetryCounted
  <2>10. CASE Localise
    BY <2>10 DEF Localise
  <2>11. CASE Persist
    BY <2>11 DEF Persist
  <2>12. CASE Merge
    BY <2>12 DEF Merge
  <2>13. CASE ExtractPreferences
    BY <2>13 DEF ExtractPreferences
  <2>14. CASE Refuse
    BY <2>14 DEF Refuse
  <2>15. CASE TellWhy
    BY <2>15 DEF TellWhy
  <2>16. CASE Crash
    <3>1. NodesLeft' = 0
      BY <2>16 DEF Crash
    <3>2. NodesLeft >= 0
      OBVIOUS
    <3> QED BY <2>16, <3>1, <3>2 DEF Crash
  <2>17. CASE UNCHANGED vars
    BY <2>17 DEF vars
  <2> QED
    BY <2>2, <2>3, <2>4, <2>5, <2>6, <2>7, <2>8, <2>9, <2>10, <2>11, <2>12, <2>13, <2>14, <2>15, <2>16, <2>17
    DEF Next, Proceed
<1>3. TypeOK /\ StepsInv => StepsBounded
  BY LimitsAssumption
  DEF TypeOK, StepsInv, CountersInv, StepsBounded, NodesLeft, ForRetries, ForReplans, MaxSteps
<1> QED BY <1>1, <1>2, <1>3, TypeCorrect, PTL DEF Spec
=============================================================================
