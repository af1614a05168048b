----------------------------- MODULE Itinerary -----------------------------
(***************************************************************************)
(* How a plan is written: the places it is made from (activities_agent.py),*)
(* the model's draft and everything code does to it (builder.py: the       *)
(* checks, the group's balance, the rainy days, the clock), and the        *)
(* evaluator's judgement of the result.  One pass; PlanningGraph has the   *)
(* retries around it.                                                      *)
(*                                                                         *)
(* A trip is a record of what the pass is given:                           *)
(*   n, members, found (each member's search), kept (the places a plan that*)
(*   is being changed uses), fares, hotels, forecast, landing, asked (the  *)
(*   travel-time tool), volatility                                         *)
(* and of what the model may reply: `open`, the slots it fills freely (the *)
(* others hold `rest`), its dates, the hotel and price it writes, how far  *)
(* off its total is, and whether it copies whom a place suits.             *)
(***************************************************************************)
EXTENDS GroupBalance, Prices, Days

(* The checks a finished draft has to pass.  The trip's days are 1..n; a   *)
(* day's date is the one the model wrote, inside the trip or not.          *)
(* `hotels` gives each hotel the search found its nightly price; `fares`   *)
(* are the flights' prices.                                                *)

check_activity_dates(days, n) == \A d \in DOMAIN days : days[d].date \in 1..n
check_day_coverage(days, n) ==
  /\ 1..n \subseteq {days[d].date : d \in DOMAIN days}
  /\ \A d, e \in DOMAIN days : days[d].date = days[e].date => d = e

\* The plan as it should cost: every night at the price the search found, stops as drafted.
cheapest(fares) == IF fares = {} THEN 0 ELSE Min(fares)
nightly_found(day, hotels) == IF day.hotel \in DOMAIN hotels THEN hotels[day.hotel] ELSE day.nightly
itinerary_estimate(draft, fares, hotels, volatility) ==
  estimate_of(100 * cheapest(fares),
              100 * MapThenSumSet(LAMBDA d : nightly_found(draft.days[d], hotels), Nights(draft.days)),
              100 * StopCosts(draft.days), volatility)

check_budget_consistency(draft, expected) ==
  \/ expected.total = 0
  \/ 100 * draft.total_cost \in expected.total_min..expected.total_max

\* Within 50 rupees of the price found, or within a hundredth of it.
check_source_prices(days, hotels) ==
  \A d \in Nights(days) :
    days[d].hotel \in DOMAIN hotels =>
      LET off == days[d].nightly - hotels[days[d].hotel]
      IN 100 * (IF off < 0 THEN -off ELSE off) <= Max({5000, hotels[days[d].hotel]})

check_duplicate_activities(days) ==
  \A d \in DOMAIN days : \A a, b \in Stops(days, {d}) :
    StopAt(days, a).activity = StopAt(days, b).activity => a = b
check_hallucinated_activities(days, attractions) == InPlan(days) \subseteq Known(attractions)
check_group_balance(days, attractions, members) ==
  is_group(members) => fixable_gaps(days, attractions, members) = {}

\* The checks in their order; what each failure is called.
evaluate_itinerary(draft, n, attractions, fares, hotels, members, volatility) ==
  LET days == draft.days
      verdicts ==
        << <<"date_out_of_range", check_activity_dates(days, n)>>,
           <<"missing_days", check_day_coverage(days, n)>>,
           <<"budget_mismatch", check_budget_consistency(draft,
                                  itinerary_estimate(draft, fares, hotels, volatility))>>,
           <<"budget_mismatch", check_source_prices(days, hotels)>>,
           <<"duplicate_activity", check_duplicate_activities(days)>>,
           <<"hallucinated_activity", check_hallucinated_activities(days, attractions)>>,
           <<"unbalanced_group", check_group_balance(days, attractions, members)>> >>
      failed == SelectSeq(verdicts, LAMBDA v : ~v[2])
  IN [i \in DOMAIN failed |-> failed[i][1]]

----------------------------------------------------------------------------
CONSTANTS
  Trips,
  StopCost       \* what the model says a stop costs

VARIABLES
  trip,
  reply,         \* what the model will write
  stage,         \* "search", "write", "balance", "rain", "attach", "judge", "done"
  attractions,   \* the places found, best first
  draft,         \* [days, total_cost]
  written,       \* the draft as it came from the model, free time said once
  turn,          \* rebalance's loops: the turn of a pass, or the day of weather.repair
  progress,      \* the pass has moved something
  swapped,       \* the days on which rain replaced a stop
  clock,         \* what schedule.add_times said of the draft
  outcome        \* the builder's error code, or the evaluator's failures

vars == <<trip, reply, stage, attractions, draft, written, turn, progress, swapped, clock, outcome>>

NoDraft == [days |-> <<>>, total_cost |-> 0]
Invented == "a place nobody found"
BuilderErrors ==
  {"NO_SOURCE_DATA", "LLM_TIMEOUT", "LLM_ERROR", "JSON_PARSE_ERROR", "SCHEMA_INVALID",
   "DATA_SCOPE_VIOLATION", "BUDGET_MATH_INCONSISTENT"}

\* What the model may write for a trip: places found, one it made up, free time or nothing.
Replies(t) ==
  LET names == Known(t.kept) \cup UNION {Known(t.found[i]) : i \in DOMAIN t.found}
  IN [fill : [t.open -> names \cup {Invented, FREE_TIME, NONE}], dates : t.dates, quote : t.quotes,
      off : t.offs]

Init ==
  /\ trip \in Trips /\ reply \in Replies(trip)
  /\ stage = "search" /\ attractions = <<>> /\ draft = NoDraft /\ written = NoDraft
  /\ turn = 1 /\ progress = FALSE /\ swapped = {} /\ clock = <<>> /\ outcome = <<>>

Ends(code) == stage' = "done" /\ outcome' = <<code>>

----------------------------------------------------------------------------
(* The search for places.                                                  *)

MIN_GROUP_ATTRACTIONS == 10
MAX_GROUP_ATTRACTIONS == 20

PlacesFor(group) ==
  pick_for_group(merge_for_group(trip.found, group), group,
                 attraction_count(group, trip.n, MIN_GROUP_ATTRACTIONS, MAX_GROUP_ATTRACTIONS))

Tagged(places) == [i \in DOMAIN places |-> tag_for_group(places[i], trip.members)]
\* A request for other things to do is one search for the whole group: what it finds joins the
\* places the standing plan uses, and may be for nobody in particular.
JoinedTo(kept, places) ==
  Tagged(places) \o SelectSeq(Tagged(kept), LAMBDA p : p.name \notin Known(places))

\* Any member's search that fails fails the whole: the plan is then made of what there was.
SearchPlaces ==
  /\ stage = "search" /\ stage' = "write"
  /\ attractions' \in
       {Tagged(trip.kept),
        IF is_group(trip.members) /\ trip.kept = <<>> THEN PlacesFor(trip.members)
        ELSE JoinedTo(trip.kept, trip.found[1])}
  /\ UNCHANGED <<trip, reply, draft, written, turn, progress, swapped, clock, outcome>>

----------------------------------------------------------------------------
(* The model's reply.                                                      *)

\* What it writes under a name; it may copy whom the place suits, never who it does not.
Written(name) ==
  IF name \in {NONE, FREE_TIME} THEN [Empty EXCEPT !.activity = name]
  ELSE [activity |-> name, cost |-> StopCost,
        suits |-> IF trip.copies THEN Suited(Stop(name), attractions) ELSE {}]

Reply ==
  LET stop(d, s) == Written(IF <<d, s>> \in trip.open THEN reply.fill[<<d, s>>] ELSE trip.rest[s])
      day(d) ==
        [date |-> reply.dates[d], morning |-> stop(d, 1), afternoon |-> stop(d, 2), evening |-> stop(d, 3),
         hotel |-> IF d < trip.n THEN reply.quote[1] ELSE NONE,
         nightly |-> IF d < trip.n THEN reply.quote[2] ELSE 0, hotel_km |-> NOWHERE, landed |-> NoTime,
         weather |-> NONE, weather_note |-> FALSE]
      days == [d \in DOMAIN reply.dates |-> day(d)]
  IN [days |-> days, total_cost |-> cheapest(trip.fares) + StopCosts(days) + StayCost(days) + reply.off]

\* Free time is said once a day, and only on a day with nothing else; what it cost is gone.
normalise_free_time(plan) ==
  LET kept(stop) == IF IsReal(stop) THEN stop ELSE Empty
      day(d) == [d EXCEPT !.morning = IF \E s \in DOMAIN SLOTS : IsReal(d[SLOTS[s]])
                                      THEN kept(@) ELSE FreeTime,
                          !.afternoon = kept(@), !.evening = kept(@)]
  IN [plan EXCEPT !.days = [d \in DOMAIN @ |-> day(@[d])]]

\* Mutation: only the hotels are looked up.
OnlyHotelsKnown(plan) == \A d \in Nights(plan.days) : plan.days[d].hotel \in DOMAIN trip.hotels
validate_data_scope(plan) ==
  /\ InPlan(plan.days) \subseteq Known(attractions)
  /\ \A d \in Nights(plan.days) : plan.days[d].hotel \in DOMAIN trip.hotels

NoSourceData ==
  /\ stage = "write" /\ trip.fares = {} /\ DOMAIN trip.hotels = {} /\ attractions = <<>>
  /\ Ends("NO_SOURCE_DATA")
  /\ UNCHANGED <<trip, reply, attractions, draft, written, turn, progress, swapped, clock>>

ModelFails ==
  /\ stage = "write" /\ (trip.fares # {} \/ DOMAIN trip.hotels # {} \/ attractions # <<>>)
  /\ \E code \in {"LLM_TIMEOUT", "LLM_ERROR", "JSON_PARSE_ERROR", "SCHEMA_INVALID"} : Ends(code)
  /\ UNCHANGED <<trip, reply, attractions, draft, written, turn, progress, swapped, clock>>

ModelWrites ==
  /\ stage = "write" /\ (trip.fares # {} \/ DOMAIN trip.hotels # {} \/ attractions # <<>>)
  /\ LET plan == normalise_free_time(Reply)
     IN IF validate_data_scope(plan)
        THEN /\ draft' = plan /\ written' = plan /\ UNCHANGED outcome
             /\ stage' = IF is_group(trip.members) THEN "balance" ELSE "rain"
        ELSE Ends("DATA_SCOPE_VIOLATION") /\ UNCHANGED <<draft, written>>
  /\ UNCHANGED <<trip, reply, attractions, turn, progress, swapped, clock>>

----------------------------------------------------------------------------
(* The repairs.                                                            *)

InTurns == Len(windows(Len(draft.days))) * Len(trip.members)
WindowOf(t) == ((t - 1) \div Len(trip.members)) + 1
MemberOf(t) == trip.members[((t - 1) % Len(trip.members)) + 1]

\* group.rebalance, one member in one window.
RebalanceOne ==
  LET move == Move(draft.days, WindowOf(turn), MemberOf(turn).name, attractions)
  IN /\ stage = "balance" /\ turn <= InTurns
     /\ turn' = turn + 1
     /\ progress' = (progress \/ move # NoMove)
     /\ draft' = IF move = NoMove THEN draft ELSE Apply(draft, move)
     /\ UNCHANGED <<trip, reply, stage, attractions, written, swapped, clock, outcome>>

\* After a pass that moved something there is another: a stop given up in one window can be
\* the one another window was missing.
PassEnds ==
  /\ stage = "balance" /\ turn > InTurns
  /\ turn' = 1 /\ progress' = FALSE
  /\ IF progress THEN UNCHANGED <<stage, draft>>
     ELSE stage' = "rain" /\ draft' = normalise_free_time(draft)
  /\ UNCHANGED <<trip, reply, attractions, written, swapped, clock, outcome>>

\* weather.repair, one day.
RepairDay ==
  LET wet == NeedsRepair(draft, turn, attractions, trip.forecast)
      after == RainyDay(draft, turn, attractions, trip.forecast)
      real(plan) == Cardinality(Stops(plan.days, {turn}))
  IN /\ stage = "rain" /\ turn <= Len(draft.days)
     /\ turn' = turn + 1
     /\ draft' = IF wet THEN after ELSE draft
     /\ swapped' = IF wet /\ ~after.days[turn].weather_note /\ real(after) = real(draft)
                   THEN swapped \cup {turn} ELSE swapped
     /\ UNCHANGED <<trip, reply, stage, attractions, written, progress, clock, outcome>>

BUDGET_MATH_TOLERANCE_INR == 500
Off(plan) == plan.total_cost - (cheapest(trip.fares) + StopCosts(plan.days) + StayCost(plan.days))
validate_budget_math(plan) == Off(plan) \in (-BUDGET_MATH_TOLERANCE_INR)..BUDGET_MATH_TOLERANCE_INR

\* _attach_source_data: whom a stop suits, where the hotel is, and the flight on the first day.
attach_source_data(plan) ==
  LET sourced(stop) == [stop EXCEPT !.suits = Suited(stop, attractions)]
      day(d) == [plan.days[d] EXCEPT
                   !.morning = sourced(@), !.afternoon = sourced(@), !.evening = sourced(@),
                   !.hotel_km = IF plan.days[d].hotel = NONE THEN NOWHERE ELSE trip.hotel_at,
                   !.landed = IF d = 1 /\ plan.days[1].date = 1 THEN trip.landing ELSE NoTime]
  IN [plan EXCEPT !.days = [d \in DOMAIN @ |-> day(d)]]

RepairsEnd ==
  /\ stage = "rain" /\ turn > Len(draft.days) /\ turn' = 1
  /\ LET plan == normalise_free_time(draft)
     IN IF validate_budget_math(plan)
        THEN draft' = attach_source_data(plan) /\ stage' = "attach" /\ UNCHANGED outcome
        ELSE Ends("BUDGET_MATH_INCONSISTENT") /\ UNCHANGED draft
  /\ UNCHANGED <<trip, reply, attractions, written, progress, swapped, clock>>

\* The clock once the draft has passed every check, and each day its weather.
AddTimes ==
  /\ stage = "attach" /\ stage' = "judge"
  /\ clock' = add_times(draft.days, attractions, trip.asked)
  /\ draft' = [draft EXCEPT !.days = attach(@, trip.forecast)]
  /\ UNCHANGED <<trip, reply, attractions, written, turn, progress, swapped, outcome>>

Evaluate ==
  /\ stage = "judge" /\ stage' = "done"
  /\ outcome' = evaluate_itinerary(draft, trip.n, attractions, trip.fares, trip.hotels, trip.members,
                                   trip.volatility)
  /\ UNCHANGED <<trip, reply, attractions, draft, written, turn, progress, swapped, clock>>

Next ==
  \/ SearchPlaces \/ NoSourceData \/ ModelFails \/ ModelWrites
  \/ RebalanceOne \/ PassEnds \/ RepairDay \/ RepairsEnd \/ AddTimes \/ Evaluate

Spec == Init /\ [][Next]_vars
----------------------------------------------------------------------------
(* Properties.                                                             *)

Times(plan, name) == Cardinality({at \in Stops(plan.days, AllDays(plan.days)) :
                                    StopAt(plan.days, at).activity = name})
ServedNow == Served(draft.days, attractions, trip.members)
Built == clock # <<>>

Checks == {"date_out_of_range", "missing_days", "budget_mismatch", "duplicate_activity",
           "hallucinated_activity", "unbalanced_group"}
StopOK(stop) ==
  /\ stop.activity \in Known(attractions) \cup {NONE, FREE_TIME} /\ stop.cost \in {0, StopCost}
  /\ stop.suits \subseteq Names(trip.members)

\* A draft is one the checks let through: its stops are places found, its cost is a number.
PassTypeOK ==
  /\ trip \in Trips
  /\ stage \in {"search", "write", "balance", "rain", "attach", "judge", "done"}
  /\ draft.total_cost \in Int
  /\ \A d \in DOMAIN draft.days, s \in DOMAIN SLOTS : StopOK(draft.days[d][SLOTS[s]])
  /\ turn \in 1..(1 + Max({InTurns, Len(draft.days)})) /\ progress \in BOOLEAN
  /\ swapped \subseteq DOMAIN draft.days
  /\ DOMAIN clock \in {{}, DOMAIN draft.days}
  /\ ToSet(outcome) \subseteq (IF Built THEN Checks ELSE BuilderErrors)

\* The repairs keep the plan's money and its places straight: what the total says beside the
\* sum of its parts is what the model left there (builder.py's check compares the two after the
\* repairs), and no place is in the plan more often than the model put it there.
MoneyFollowsStops == stage \in {"balance", "rain", "attach", "judge"} => Off(draft) = Off(written)
NoPlaceTwice == \A name \in InPlan(draft.days) : Times(draft, name) <= Max({1, Times(written, name)})

\* "Every change gives a member a window they did not have and takes no window from anyone, so it
\* ends" (group.rebalance): there are only so many windows to give.  Nor does a rainy day take
\* one, when the draft says whom its stops suit and no place is for nobody.
ForSomebody == \A place \in Places(attractions) : place.suits # {}
TakesNoWindow ==
  /\ stage = "balance" /\ stage' = "balance" =>
       /\ ServedNow \subseteq ServedNow'
       /\ draft' # draft => ServedNow # ServedNow'
  /\ stage = "rain" /\ stage' = "rain" /\ trip.copies /\ ForSomebody => ServedNow \subseteq ServedNow'

RepairsHurtNobody == [](MoneyFollowsStops /\ NoPlaceTwice) /\ [][TakesNoWindow]_vars

\* What the builder hands over, the evaluator sends back only for what no repair could mend:
\* "a failure here means the repair was bypassed" (evaluator.py) holds of the group's balance
\* unless rain took a stop's place after the balance was made.  A rainy day has an indoor stop
\* or the note that says there is none.
BuiltPlanStands ==
  stage = "done" /\ Built =>
    /\ "hallucinated_activity" \notin ToSet(outcome)
    /\ "unbalanced_group" \in ToSet(outcome) => swapped # {}
    /\ "duplicate_activity" \in ToSet(outcome) => ~check_duplicate_activities(written.days)
    /\ \A d \in DOMAIN draft.days :
         draft.days[d].weather = "rainy" =>
           \/ draft.days[d].weather_note
           \/ \E at \in Stops(draft.days, {d}) : Indoors(StopAt(draft.days, at), attractions)

\* The clock is one a traveller can keep: every stop inside the day, half an hour at least, not
\* before they have landed, and not before they have come from the stop before.  A stop the day
\* has no time for is the exception: the next one's way is measured from it, though nobody went.
CanBeKept(d, s) ==
  LET at == clock[d][s]
      stop == draft.days[d][SLOTS[s]]
      kept == {r \in 1..(s - 1) : clock[d][r].end # NoTime /\ draft.days[d][SLOTS[r]].activity # FREE_TIME}
      missed == {r \in 1..(s - 1) : clock[d][r].no_time_left}
      placed == {r \in kept : KmOf(draft.days[d][SLOTS[r]], attractions) # NOWHERE}
      from == IF placed = {} THEN sets_out_from(draft.days, d)
              ELSE KmOf(draft.days[d][SLOTS[Max(placed)]], attractions)
      to == KmOf(stop, attractions)
      way == IF from = NOWHERE \/ to = NOWHERE \/ missed # {} THEN 0
             ELSE way_minutes(trip.asked, Km(from, to))
      landed == landing(draft.days[d])
      ready == IF kept # {} THEN clock[d][Max(kept)].end
               ELSE IF landed = NoTime THEN DAY_START ELSE Max({DAY_START, landed + LANDING_MINUTES})
  IN at.start # NoTime /\ IsReal(stop) =>
       /\ at.start >= opens[SLOTS[s]] /\ at.end <= DAY_END /\ at.end - at.start >= MIN_VISIT
       /\ at.start >= ready + way
ClockHolds == \A d \in DOMAIN clock, s \in DOMAIN SLOTS : CanBeKept(d, s)

============================================================================
