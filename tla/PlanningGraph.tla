---------------------------- MODULE PlanningGraph ----------------------------
(***************************************************************************)
(* One planning run, from the request read to the plan saved or refused:   *)
(* the LangGraph graph of src/ai/orchestrator/orchestrator.py, and the     *)
(* targeted pass beside it (_rerun_search) that a refinement of one search *)
(* and POST /retry take.  Nodes run one after another, so a node is a      *)
(* step; a node that writes the status and then tells the page is two.     *)
(*                                                                         *)
(* What a search finds, what the builder writes and what the evaluator     *)
(* thinks of it are chosen by the environment.  Fares are told apart by    *)
(* what the budget check does with the cheapest (budget_decision.py).      *)
(***************************************************************************)
EXTENDS Naturals

CONSTANTS
  MAX_REPLAN_ATTEMPTS,     \* budget_decision.py
  MAX_EVALUATOR_RETRIES,   \* evaluator.py
  StepCap                  \* bound: steps are counted no further than this

ASSUME LimitsAssumption ==
  /\ MAX_REPLAN_ATTEMPTS \in Nat \ {0} /\ MAX_EVALUATOR_RETRIES \in Nat /\ StepCap \in Nat

VARIABLES
  kind,           \* "full" graph, or the one search a targeted pass repeats
  retry_of,       \* is it POST /retry's, with no word of the traveller's?
  node,
  steps,          \* nodes run so far
  flights,        \* the cheapest fare of the flights in hand
  flight_error,
  hotels, attractions, hotel_error, activities_error,
  replan_attempts,
  evaluator_retry_count,
  budget_decision,
  draft_itinerary,   \* the draft in hand, named by the round that built it; 0 is none
  builder_error,
  verdict, judged,   \* the evaluator's last verdict, and on which draft
  saved,             \* the draft that was persisted
  status,            \* the trip's
  told               \* the closing events published

searches == <<flights, flight_error, hotels, attractions, hotel_error, activities_error>>
counters == <<replan_attempts, evaluator_retry_count>>
build == <<draft_itinerary, builder_error, verdict, judged>>
outcome == <<saved, status, told>>
vars == <<kind, retry_of, node, steps, searches, counters, budget_decision, build, outcome>>

Reading == {"language", "intent_parsing", "apply_preferences"}
Refusing == {"escalate", "nothing_found", "builder_failed"}
Nodes ==
  Reading \cup Refusing
    \cup {"search", "run_flight", "budget_decision", "hotel_activities", "build_itinerary", "evaluate",
          "retry_dispatch", "localise", "persist", "merge", "extract_preferences",
          "refused", "END", "crashed"}
Over == {"END", "crashed"}

Fares == {"none", "ample", "tight", "dear"}   \* at least 50%, at least 35%, less of the budget is left
FlightErrors == {"none", "budget", "other"}   \* "budget": NO_RESULTS or BUDGET_TOO_LOW

TypeOK ==
  /\ kind \in {"full", "flights", "hotel", "activities"} /\ retry_of \in BOOLEAN
  /\ node \in Nodes /\ steps \in Nat
  /\ flights \in Fares /\ flight_error \in FlightErrors
  /\ hotels \in BOOLEAN /\ hotel_error \in BOOLEAN
  /\ attractions \in BOOLEAN /\ activities_error \in BOOLEAN
  /\ replan_attempts \in Nat /\ evaluator_retry_count \in Nat
  /\ budget_decision \in {"none", "continue", "replan", "escalate"}
  /\ draft_itinerary \in Nat /\ builder_error \in {"none", "LLM_TIMEOUT", "other"}
  /\ verdict \in {"none", "passed", "budget_mismatch", "other"} /\ judged \in Nat
  /\ saved \in Nat /\ status \in {"planning", "completed", "failed"}
  /\ told \in SUBSET {"planning_complete", "planning_failed"}

\* What a pass starts from: nothing, or what the last successful one left in Redis - of which a plan
\* was made, so it holds something.
Init ==
  /\ kind \in {"full", "flights", "hotel", "activities"}
  /\ retry_of \in (IF kind = "full" THEN {FALSE} ELSE BOOLEAN)
  /\ node = "language" /\ steps = 0
  /\ \/ /\ kind = "full"
        /\ flights = "none" /\ flight_error = "none"
        /\ hotels = FALSE /\ attractions = FALSE /\ hotel_error = FALSE /\ activities_error = FALSE
        /\ budget_decision = "none"
        /\ replan_attempts \in {0, 1}    \* 1: POST /replan with "cheaper_flights"
     \/ /\ kind # "full"
        /\ flights \in Fares /\ flight_error \in (IF flights = "none" THEN FlightErrors ELSE {"none"})
        /\ hotels \in BOOLEAN /\ hotel_error \in (IF hotels THEN {FALSE} ELSE BOOLEAN)
        /\ attractions \in BOOLEAN /\ activities_error \in (IF attractions THEN {FALSE} ELSE BOOLEAN)
        /\ flights # "none" \/ hotels \/ attractions
        /\ budget_decision \in {"continue", "replan"} /\ replan_attempts \in 0..MAX_REPLAN_ATTEMPTS
  /\ evaluator_retry_count = 0
  /\ draft_itinerary = 0 /\ builder_error = "none" /\ verdict = "none" /\ judged = 0
  /\ saved = 0 /\ status = "planning" /\ told = {}

\* The node at hand runs and the next one is chosen.
Go(from, to) ==
  /\ node \in from /\ node' = to
  /\ steps' = IF steps < StepCap THEN steps + 1 ELSE steps
  /\ UNCHANGED <<kind, retry_of>>

-----------------------------------------------------------------------------
(* The searches                                                            *)

\* What _search_flights returns: an error empties the list.
FlightsFound(fare, error) ==
  /\ fare \in Fares /\ error \in FlightErrors /\ (error # "none" => fare = "none")

\* Of two lists joined, the cheapest fare.
Cheaper(a, b) ==
  IF "ample" \in {a, b} THEN "ample"
  ELSE IF "tight" \in {a, b} THEN "tight"
  ELSE IF "dear" \in {a, b} THEN "dear" ELSE "none"

\* language, intent_parsing and apply_preferences change the request, and never end the run.
ReadRequest ==
  /\ \/ /\ kind = "full"
        /\ Go(Reading, CASE node = "language" -> "intent_parsing"
                         [] node = "intent_parsing" -> "apply_preferences"
                         [] OTHER -> "run_flight")
     \/ kind # "full" /\ Go(Reading, "search")
  /\ UNCHANGED <<searches, counters, budget_decision, build, outcome>>

\* A first search or a re-plan: its result replaces the one before.
RunFlight ==
  /\ Go({"run_flight"}, "budget_decision")
  /\ FlightsFound(flights', flight_error')
  /\ UNCHANGED <<hotels, attractions, hotel_error, activities_error, counters, budget_decision, build, outcome>>

\* make_budget_decision
make_budget_decision(fare, attempts, error) ==
  IF error = "other" THEN "continue"
  ELSE IF fare \in {"none", "dear"} \/ attempts >= MAX_REPLAN_ATTEMPTS THEN "escalate"
  ELSE IF fare = "tight" THEN "replan" ELSE "continue"

\* A fare to price the rest of the trip from: that of the flights in hand, or the cheapest a re-plan's
\* search found above its lowered cap, with no flights in hand.  A first search's cap is the whole
\* budget, and what is above it leaves nothing for the rest.
Priced(fare, attempts, error) == fare # "none" \/ (error = "budget" /\ attempts > 0)

\* _settle_conflict: with a fare to price the rest of the trip from, it may go ahead after all.
Settled(fare, attempts, error, decision) ==
  IF decision = "escalate" /\ Priced(fare, attempts, error) THEN {"continue", "escalate"} ELSE {decision}

DecideBudget ==
  /\ budget_decision' \in Settled(flights, replan_attempts, flight_error,
                                   make_budget_decision(flights, replan_attempts, flight_error))
  /\ replan_attempts' = replan_attempts + (IF budget_decision' = "replan" THEN 1 ELSE 0)

Stops(decision) == decision = "escalate"

\* route_after_budget_decision; in a targeted pass "replan" goes on as "continue" does.
AfterBudget(decision) ==
  IF Stops(decision) THEN "escalate"
  ELSE IF kind # "full" THEN "build_itinerary"
  ELSE IF decision = "replan" THEN "run_flight" ELSE "hotel_activities"

BudgetDecision ==
  /\ DecideBudget
  /\ Go({"budget_decision"}, AfterBudget(budget_decision'))
  /\ UNCHANGED <<searches, evaluator_retry_count, build, outcome>>

\* Two searches at once, and route_after_search.
HotelActivities ==
  /\ hotels' \in BOOLEAN /\ hotel_error' \in (IF hotels' THEN {FALSE} ELSE BOOLEAN)
  /\ attractions' \in BOOLEAN /\ activities_error' \in (IF attractions' THEN {FALSE} ELSE BOOLEAN)
  /\ Go({"hotel_activities"},
        IF flights # "none" \/ hotels' \/ attractions' THEN "build_itinerary" ELSE "nothing_found")
  /\ UNCHANGED <<flights, flight_error, counters, budget_decision, build, outcome>>

-----------------------------------------------------------------------------
(* The search of a targeted pass: what it finds joins, or for hotels       *)
(* replaces, what was found before; a search that finds nothing changes    *)
(* nothing, and ends a retry.                                              *)

FoundAgain(found, to) ==
  \/ found /\ Go({"search"}, to)
  \/ ~found /\ ~retry_of /\ Go({"search"}, "build_itinerary")
  \/ ~found /\ retry_of /\ Go({"search"}, "refused")

SearchFlightsAgain ==
  /\ kind = "flights"
  /\ \E fare \in Fares, error \in FlightErrors :
       /\ FlightsFound(fare, error)
       /\ FoundAgain(fare # "none", "budget_decision")
       /\ flights' = Cheaper(fare, flights)
       /\ flight_error' = IF fare # "none" THEN "none" ELSE flight_error
       /\ replan_attempts' = IF fare # "none" THEN 0 ELSE replan_attempts
  /\ UNCHANGED <<hotels, attractions, hotel_error, activities_error, evaluator_retry_count,
                 budget_decision, build, outcome>>

SearchHotelsAgain ==
  /\ kind = "hotel"
  /\ \E found \in BOOLEAN :
       /\ FoundAgain(found, "build_itinerary")
       /\ hotels' = (found \/ hotels) /\ hotel_error' = (~found /\ hotel_error)
  /\ UNCHANGED <<flights, flight_error, attractions, activities_error, counters, budget_decision, build, outcome>>

SearchActivitiesAgain ==
  /\ kind = "activities"
  /\ \E found \in BOOLEAN :
       /\ FoundAgain(found, "build_itinerary")
       /\ attractions' = (found \/ attractions) /\ activities_error' = (~found /\ activities_error)
  /\ UNCHANGED <<flights, flight_error, hotels, hotel_error, counters, budget_decision, build, outcome>>

-----------------------------------------------------------------------------
(* Build, evaluate, and once more                                          *)

BuildItinerary ==
  /\ Go({"build_itinerary"}, "evaluate")
  /\ \/ draft_itinerary' = evaluator_retry_count + 1 /\ builder_error' = "none"
     \/ draft_itinerary' = 0 /\ builder_error' \in {"LLM_TIMEOUT", "other"}
  /\ UNCHANGED <<searches, counters, budget_decision, verdict, judged, outcome>>

RetriesLeft == evaluator_retry_count < MAX_EVALUATOR_RETRIES

\* Mutation: a plan that has been sent back as often as it may be is saved as it is.
GoodEnough(v) == v = "passed" \/ ~RetriesLeft
Passed(v) == v = "passed"

\* Mutation: the edge's label, where the graph wants the node's name.
FailedLabel == "failed"
FailedNode == "builder_failed"

\* route_after_evaluator: a model that did not answer is not waited for a second time.
RouteAfterEvaluator(v) ==
  IF builder_error = "LLM_TIMEOUT" THEN FailedNode
  ELSE IF Passed(v) THEN "localise"
  ELSE IF RetriesLeft THEN "retry_dispatch" ELSE FailedNode

Evaluate ==
  /\ verdict' \in (IF draft_itinerary = 0 THEN {"other"} ELSE {"passed", "budget_mismatch", "other"})
  /\ judged' = draft_itinerary
  /\ Go({"evaluate"}, RouteAfterEvaluator(verdict'))
  /\ UNCHANGED <<searches, counters, budget_decision, draft_itinerary, builder_error, outcome>>

\* Mutation: the error of a retry that failed is kept, with the flights of the search before it.
FlightsRetriedMixed == flight_error' \in FlightErrors /\ UNCHANGED flights
\* Mutation: whatever a retry finds takes the place of what was found before.
FlightsRetriedAnew == FlightsFound(flights', flight_error')
\* A retry that fails keeps the previous results.
FlightsRetried ==
  \/ UNCHANGED <<flights, flight_error>>
  \/ flights' \in Fares \ {"none"} /\ flight_error' = "none"

ActivitiesRetried ==
  \/ UNCHANGED <<attractions, activities_error>>
  \/ attractions' = TRUE /\ activities_error' = FALSE

\* Mutation: a retry is not counted.
RetryUncounted == UNCHANGED evaluator_retry_count
RetryCounted == evaluator_retry_count' = evaluator_retry_count + 1

\* The one search the evaluator's failures point at (next_agent_for_failures), again.
RetryDispatch ==
  /\ Go({"retry_dispatch"}, "build_itinerary")
  /\ RetryCounted
  /\ IF verdict = "budget_mismatch"
     THEN FlightsRetried /\ UNCHANGED <<attractions, activities_error>>
     ELSE ActivitiesRetried /\ UNCHANGED <<flights, flight_error>>
  /\ UNCHANGED <<hotels, hotel_error, replan_attempts, budget_decision, build, outcome>>

-----------------------------------------------------------------------------
(* How a run ends                                                          *)

\* It never fails the plan.
Localise ==
  /\ Go({"localise"}, "persist")
  /\ UNCHANGED <<searches, counters, budget_decision, build, outcome>>

\* The itinerary, the status, and the row that says its embeddings are owed: one commit.
Persist ==
  /\ Go({"persist"}, "merge")
  /\ saved' = draft_itinerary /\ status' = "completed"
  /\ UNCHANGED <<searches, counters, budget_decision, build, told>>

\* Mutation: a state that Redis did not take for a refinement fails the trip.
StatusMergedOrFailed == {status, "failed"}
StatusMerged == {status}

\* on_complete, whose failure is logged and no more, and planning_complete.
Merge ==
  /\ Go({"merge"}, IF kind = "full" THEN "extract_preferences" ELSE "END")
  /\ told' = told \cup {"planning_complete"} /\ status' \in StatusMerged
  /\ UNCHANGED <<searches, counters, budget_decision, build, saved>>

ExtractPreferences ==
  /\ Go({"extract_preferences"}, "END")
  /\ UNCHANGED <<searches, counters, budget_decision, build, outcome>>

\* Mutation: a plan refused by the builder's retries leaves the trip as it was.
StatusRefusedEarly == IF node = "builder_failed" THEN status ELSE "failed"
StatusRefused == "failed"

\* escalate_node, nothing_found_node and builder_failed_node: the status first ...
Refuse ==
  /\ Go(Refusing, "refused")
  /\ status' = StatusRefused
  /\ UNCHANGED <<searches, counters, budget_decision, build, saved, told>>

\* ... then, in the same node, the page - as a retry tells it that found nothing again.
TellWhy ==
  /\ node = "refused" /\ node' = "END"
  /\ told' = told \cup {"planning_failed"}
  /\ UNCHANGED <<kind, retry_of, steps, searches, counters, budget_decision, build, saved, status>>

\* An exception, a cancellation or the run's deadline, in any node.
Crash ==
  /\ node \notin Over /\ node' = "crashed"
  /\ UNCHANGED <<kind, retry_of, steps, searches, counters, budget_decision, build, outcome>>

SearchAgain == SearchFlightsAgain \/ SearchHotelsAgain \/ SearchActivitiesAgain
Proceed ==
  \/ ReadRequest \/ RunFlight \/ BudgetDecision \/ HotelActivities \/ SearchAgain
  \/ BuildItinerary \/ Evaluate \/ RetryDispatch
  \/ Localise \/ Persist \/ Merge \/ ExtractPreferences \/ Refuse \/ TellWhy

Next == Proceed \/ Crash

\* The run's task goes on: every wait in a node has a deadline of its own.
Spec == Init /\ [][Next]_vars /\ WF_vars(Proceed)

-----------------------------------------------------------------------------
\* A plan is saved only if it is the draft last built and the evaluator passed that very draft.
SavedPlanPassed ==
  saved # 0 \/ node \in {"localise", "persist", "merge"}
    => /\ verdict = "passed" /\ judged = draft_itinerary /\ draft_itinerary = evaluator_retry_count + 1
       /\ saved \in {0, draft_itinerary}

\* missing_searches names the searches a plan is made without by their errors: a search that has one
\* has nothing in hand, however often each was run and whichever result was kept.
ErrorMeansEmpty ==
  /\ flight_error # "none" => flights = "none"
  /\ hotel_error => ~hotels
  /\ activities_error => ~attractions

\* A plan is made of something and of nothing refused: a budget conflict stops the run, so that
\* nothing is built on a fare the check refused, and there is something to build from whenever the
\* builder is asked - also when the check goes ahead on a fare that no flights in hand have -
\* whatever searches were run again and whichever results were kept.
BuiltOnWhatStands ==
  /\ budget_decision = "escalate" => draft_itinerary = 0 /\ status # "completed"
  /\ node = "build_itinerary" => flights # "none" \/ hotels \/ attractions

\* The page is told what the trip's status says, once, after it says so: "complete" with the plan saved,
\* "failed" with the trip marked - or, for a retry that found nothing again, left to be put right.
ToldTheTruth ==
  /\ "planning_complete" \in told => saved # 0 /\ status = "completed" /\ "planning_failed" \notin told
  /\ "planning_failed" \in told => saved = 0 /\ (status = "failed" \/ (retry_of /\ status = "planning"))
  /\ node = "END" => told # {}

\* The longest way through the graph: seven nodes to the first draft, its verdict and four more to the
\* end; two for each re-plan and three for each retry.
MaxSteps == 12 + 2 * MAX_REPLAN_ATTEMPTS + 3 * MAX_EVALUATOR_RETRIES
StepsBounded ==
  /\ steps <= MaxSteps
  /\ replan_attempts <= MAX_REPLAN_ATTEMPTS /\ evaluator_retry_count <= MAX_EVALUATOR_RETRIES

\* Every run comes to an end.
Ends == <>(node \in Over)

\* To the runs of a trip, all this is one write of the status at most.
Outcome == INSTANCE RunOutcome WITH plan <- saved # 0, over <- node \in Over
WritesStatusOnce == Outcome!Spec
=============================================================================
