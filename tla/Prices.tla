------------------------------- MODULE Prices -------------------------------
(***************************************************************************)
(* What a trip costs (src/ai/pricing.py), when a fare is too much of a     *)
(* budget (budget_decision.py), and the ways out of that, each with its    *)
(* price (budget_alternatives.py).  Fares and budgets are whole rupees;    *)
(* what is computed from a season's multiplier is in paise.  Years have    *)
(* 365 days.                                                               *)
(***************************************************************************)
EXTENDS Plan

\* Twelve multipliers in hundredths, January first, against the cheapest month.
SEASON_PROFILES ==
  [coast    |-> <<130, 120, 110, 105, 110, 100, 100, 100, 100, 115, 125, 140>>,
   heritage |-> <<130, 120, 110, 100, 100, 100, 105, 105, 105, 120, 130, 135>>,
   hills    |-> <<115, 100, 105, 120, 140, 135, 100, 100, 105, 120, 105, 125>>,
   himalaya |-> <<100, 100, 100, 100, 120, 140, 140, 135, 120, 105, 100, 100>>,
   india    |-> <<110, 105, 100, 100, 110, 100, 100, 100, 100, 115, 115, 125>>]

MonthLengths == <<31, 28, 31, 30, 31, 30, 31, 31, 30, 31, 30, 31>>

season_for(profile, month) ==
  LET multipliers == SEASON_PROFILES[profile]
      lowest == Min(Range(multipliers))
      label == CASE multipliers[month] <= lowest -> "off-peak"
                 [] multipliers[month] >= 125 -> "peak"
                 [] OTHER -> "shoulder"
  IN [multiplier |-> multipliers[month], label |-> label,
      volatility |-> [peak |-> 20, shoulder |-> 15] @@ ("off-peak" :> 10),
      off_peak_months |-> {m \in 1..12 : multipliers[m] <= lowest}]
Volatility(profile, month) ==
  season_for(profile, month).volatility[season_for(profile, month).label]

\* A date is [month, day] with months counted on from January of the first year.
MonthOf(m) == ((m - 1) % 12) + 1
Ordinal(at) ==
  365 * ((at.month - 1) \div 12) + at.day
    + SumFunctionOnSet(MonthLengths, 1..(MonthOf(at.month) - 1))

\* The same day of the nearest off-peak month at least thirty days away: NoDate when the trip
\* is in the off-season already.
NoDate == [month |-> 0, day |-> 0]
nearest_off_peak(profile, start, today) ==
  LET season == season_for(profile, MonthOf(start.month))
      moved(m) == [month |-> m, day |-> Min({start.day, MonthLengths[MonthOf(m)]})]
      far_enough == {m \in today.month..(today.month + 24) :
                       /\ MonthOf(m) \in season.off_peak_months
                       /\ Ordinal(moved(m)) >= Ordinal(today) + 30}
  IN IF season.label = "off-peak" \/ far_enough = {} THEN NoDate ELSE moved(Min(far_enough))

STAY_PER_ROOM_NIGHT == ("budget" :> 1200) @@ ("standard" :> 2500) @@ ("mid-range" :> 4500)
rooms_for(travellers) == (travellers + 1) \div 2
typical_nightly(season, tier, travellers) ==
  STAY_PER_ROOM_NIGHT[tier] * rooms_for(travellers) * season.multiplier
typical_daily(season, travellers) == 500 * travellers * season.multiplier

\* In paise: flights + nightly * nights + daily * days, with the range it may land in.
estimate_of(flights, stay, activities, volatility) ==
  LET total == flights + stay + activities
  IN [total |-> total, total_min |-> (total * (100 - volatility)) \div 100,
      total_max |-> (total * (100 + volatility)) \div 100]

typical_trip(flights, days, travellers, profile, month, tier) ==
  LET season == season_for(profile, month)
  IN estimate_of(flights, typical_nightly(season, tier, travellers) * Max({0, days - 1}),
                 typical_daily(season, travellers) * days, Volatility(profile, month))

\* To the nearest 100 rupees, from paise, a half to the even hundred.
round_inr(paise) ==
  LET down == paise \div 10000
      over == paise % 10000
  IN 100 * (IF over > 5000 \/ (over = 5000 /\ down % 2 = 1) THEN down + 1 ELSE down)

----------------------------------------------------------------------------
(* Is the fare too much of the budget?                                     *)

\* A flight search is [fares, error, cheapest]: an error beside money is a provider's trouble,
\* and one about money may still name the cheapest fare there was.
BUDGET_ERRORS == {"NO_RESULTS", "BUDGET_TOO_LOW"}
Unavailable(search) == search.error \notin BUDGET_ERRORS \cup {NONE}
flight_cost(search) ==
  IF Unavailable(search) THEN 0
  ELSE IF search.fares = {} THEN search.cheapest ELSE Min(search.fares)
remaining_budget(search, budget) ==
  IF search.fares = {} /\ ~Unavailable(search) THEN 0 ELSE budget - flight_cost(search)

make_budget_decision(search, budget, attempts) ==
  LET left == budget - Min(search.fares)
  IN IF Unavailable(search) THEN "continue"
     ELSE IF search.fares = {} \/ attempts >= 2 \/ 100 * left < 35 * budget THEN "escalate"
     ELSE IF 2 * left < budget THEN "replan" ELSE "continue"

\* The smallest budget, in steps of 500 rupees, that this fare passes outright.
\* Mutation: the budget at which the check no longer escalates, not the one it passes outright.
NotYetViable(fare) == 500 * (-((-((20 * fare) \div 13)) \div 500))
viable_budget(fare) == 500 * (-((-(2 * fare)) \div 500))

replan_flight_budget(budget, attempt) ==
  (budget * (CASE attempt = 1 -> 65 [] attempt = 2 -> 55 [] OTHER -> 60)) \div 100

----------------------------------------------------------------------------
(* The ways out of a conflict.  ask: [fare, budget, start, days,           *)
(* travellers, profile, attempts, today].                                  *)

Option(choice, total) == [choice |-> choice, total |-> total, days |-> 0, start |-> NoDate, budget |-> 0]
priced(ask, fare, days, month, tier) ==
  round_inr(typical_trip(fare, days, ask.travellers, ask.profile, month, tier).total)

AsAsked(ask) == priced(ask, 100 * ask.fare, ask.days, MonthOf(ask.start.month), "mid-range")

\* A 3-star hotel, or a budget one when only that fits (or nothing does).
cheaper_hotel(ask) ==
  LET total(tier) == priced(ask, 100 * ask.fare, ask.days, MonthOf(ask.start.month), tier)
  IN {Option("cheaper_hotel",
             IF total("standard") <= ask.budget THEN total("standard") ELSE total("budget"))}

\* The longest shorter trip, of two days at least, that fits.
reduce_days(ask) ==
  LET total(n) == priced(ask, 100 * ask.fare, n, MonthOf(ask.start.month), "mid-range")
      fitting == {n \in 2..(ask.days - 1) : total(n) <= ask.budget}
  IN {[Option("reduce_days", total(n)) EXCEPT !.days = n] :
        n \in {n \in fitting : \A m \in fitting : m <= n}}

\* The same trip in the cheapest season, the fare moved by the two seasons.
off_peak(ask) ==
  LET moved == nearest_off_peak(ask.profile, ask.start, ask.today)
      season(m) == season_for(ask.profile, MonthOf(m)).multiplier
      fare(m) == (100 * ask.fare * season(m)) \div season(ask.start.month)
  IN {[Option("off_peak", priced(ask, fare(to.month), ask.days, MonthOf(to.month), "mid-range"))
         EXCEPT !.start = to] : to \in {moved} \ {NoDate}}

\* Other flights, unless a re-plan searched them already; or a budget these flights pass with.
plain_options(ask) ==
  (IF ask.attempts = 0 THEN {Option("cheaper_flights", 0)} ELSE {})
    \cup {[Option("increase_budget", 0) EXCEPT
             !.budget = Max({(5 * ask.budget) \div 4, viable_budget(ask.fare)})]}

conflict_alternatives(ask) ==
  cheaper_hotel(ask) \cup reduce_days(ask) \cup off_peak(ask) \cup plain_options(ask)
=============================================================================
