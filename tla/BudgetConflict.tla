--------------------------- MODULE BudgetConflict ---------------------------
(***************************************************************************)
(* A trip whose flights are too much of its budget: the flight searches of *)
(* a run and its budget check (orchestrator.py, budget_decision_node and   *)
(* _settle_conflict), the conflict with its ways out, and the way out the  *)
(* traveller picks (trips.py, POST /replan), until a run goes ahead.       *)
(* A fare depends on the stops allowed: on_offer[n] is the cheapest with n *)
(* stops (0: none).  Rounds and days are bounded.                          *)
(***************************************************************************)
EXTENDS Prices

CONSTANTS
  ConflictTrips,   \* the trips asked for: [start, days, budget, travellers, profile]
  Offers,          \* what the flights may cost: functions from 1..MAX_FLIGHT_STOPS
  MaxRounds,       \* (bound) runs of one trip
  LastDay          \* (bound) days that pass

VARIABLES
  asked,      \* the trip as it stands
  on_offer,   \* the fares there are
  run,        \* "search", "check", "conflict", "ahead"
  found,      \* the run's last flight search
  attempts,   \* replan_attempts
  choice,     \* what the traveller picked for this run
  level,      \* the fares are as the conflict before this run saw them, at any number of stops
  options,    \* the ways out the conflict offers
  today,
  rounds

conflict_vars == <<asked, on_offer, run, found, attempts, choice, level, options, today, rounds>>

MAX_FLIGHT_STOPS == 2
GOING_AHEAD == {"reduce_days", "cheaper_hotel"}
NoSearch == [fares |-> {}, error |-> NONE, cheapest |-> 0]

ConflictInit ==
  /\ asked \in ConflictTrips /\ on_offer \in Offers
  /\ run = "search" /\ found = NoSearch /\ attempts = 0 /\ choice = NONE /\ level = FALSE
  /\ options = {} /\ today = [month |-> 1, day |-> 1] /\ rounds = 1

\* flight_search_input and search_flights: a re-plan searches under a lower cap, with one more
\* stop; an answer with nothing under the cap says what the cheapest would have been.
search_flights(budget, attempt) ==
  LET cap == IF attempt = 0 THEN budget ELSE replan_flight_budget(budget, attempt)
      fare == on_offer[Min({MAX_FLIGHT_STOPS, 1 + attempt})]
  IN IF cap < 2000 THEN [NoSearch EXCEPT !.error = "BUDGET_TOO_LOW"]
     ELSE IF fare = 0 \/ fare > cap THEN [NoSearch EXCEPT !.error = "NO_RESULTS", !.cheapest = fare]
     ELSE [NoSearch EXCEPT !.fares = {fare}]

SearchFlights ==
  /\ run = "search"
  /\ found' \in {search_flights(asked.budget, attempts), [NoSearch EXCEPT !.error = "DUFFEL_ERROR"]}
  /\ run' = "check"
  /\ UNCHANGED <<asked, on_offer, attempts, choice, level, options, today, rounds>>

Ask ==
  [fare |-> flight_cost(found), budget |-> asked.budget, start |-> asked.start, days |-> asked.days,
   travellers |-> asked.travellers, profile |-> asked.profile, attempts |-> attempts, today |-> today]

\* _settle_conflict: a way out the traveller picked is gone ahead with while anything is left
\* after the flights; a trip that fits at typical prices goes ahead after all.
GoesAheadAfterAll ==
  /\ Ask.fare > 0
  /\ \/ choice \in GOING_AHEAD /\ remaining_budget(found, asked.budget) > 0
     \/ AsAsked(Ask) <= asked.budget

CheckBudget ==
  LET decision == make_budget_decision(found, asked.budget, attempts)
  IN /\ run = "check"
     /\ CASE decision = "continue" -> run' = "ahead" /\ UNCHANGED <<attempts, options>>
          [] decision = "replan" -> run' = "search" /\ attempts' = attempts + 1 /\ UNCHANGED options
          [] decision = "escalate" /\ GoesAheadAfterAll -> run' = "ahead" /\ UNCHANGED <<attempts, options>>
          [] OTHER -> /\ run' = "conflict" /\ UNCHANGED attempts
                      /\ options' = IF Ask.fare = 0 THEN plain_options(Ask) ELSE conflict_alternatives(Ask)
     /\ UNCHANGED <<asked, on_offer, found, choice, level, today, rounds>>

\* A new run of the trip.  Fares may have moved; another season's certainly have.
StartOver(trip, attempt, picked) ==
  /\ rounds < MaxRounds /\ rounds' = rounds + 1
  /\ asked' = trip /\ attempts' = attempt /\ choice' = picked
  /\ on_offer' \in Offers
  /\ level' = /\ on_offer' = on_offer /\ picked # "off_peak"
              /\ \A n \in DOMAIN on_offer : on_offer[n] = on_offer[1]
  /\ run' = "search" /\ found' = NoSearch /\ options' = {}

\* POST /replan: only what the conflict offered, applied as it was offered.
Replan ==
  /\ run = "conflict"
  /\ \E option \in options :
       /\ option.choice = "off_peak" => Ordinal(option.start) > Ordinal(today)
       /\ StartOver(CASE option.choice = "reduce_days" -> [asked EXCEPT !.days = option.days]
                      [] option.choice = "off_peak" -> [asked EXCEPT !.start = option.start]
                      [] option.choice = "increase_budget" -> [asked EXCEPT !.budget = option.budget]
                      [] OTHER -> asked,
                    IF option.choice = "cheaper_flights" THEN 1 ELSE 0, option.choice)
  /\ UNCHANGED today

\* POST /plan, or the whole trip tried again: nothing of the last conflict is carried over.
PlanAgain ==
  /\ run \in {"conflict", "ahead"}
  /\ StartOver(asked, 0, NONE)
  /\ UNCHANGED today

MonthPasses ==
  /\ run = "conflict" /\ today.month < LastDay
  /\ today' = [today EXCEPT !.month = @ + 1]
  /\ UNCHANGED <<asked, on_offer, run, found, attempts, choice, level, options, rounds>>

ConflictNext == SearchFlights \/ CheckBudget \/ Replan \/ PlanAgain \/ MonthPasses

----------------------------------------------------------------------------
(* Properties.                                                             *)

\* "so the option is never a dead end" (replan_trip), and "the budget check goes ahead with it
\* instead of stopping the traveller again on the same flights": with fares that have not moved
\* and are the same at any number of stops, more budget or fewer days never meets the conflict
\* again.  The cheaper stay may: after two re-plans that found nothing under their cap the check
\* takes nothing to be left, and what the traveller picked is passed over.
NoDeadEnd ==
  run = "conflict" /\ level /\ flight_cost(found) > 0 =>
    /\ choice \notin {"increase_budget", "reduce_days"}
    /\ choice = "cheaper_hotel" => remaining_budget(found, asked.budget) = 0
    /\ choice = "cheaper_flights" => \A option \in options : option.choice # "cheaper_flights"

\* What is offered is worth picking: a shorter trip is one that fits and no longer one does, the
\* off-season is cheaper and far enough ahead to be booked when it is offered.
WorthPicking ==
  \A option \in options :
    /\ option.choice = "reduce_days" =>
         /\ option.total <= asked.budget /\ option.days \in 2..(asked.days - 1)
         /\ \A n \in (option.days + 1)..asked.days : AsAsked([Ask EXCEPT !.days = n]) > asked.budget
    /\ option.choice = "off_peak" =>
         /\ option.total <= AsAsked(Ask)
         /\ season_for(asked.profile, MonthOf(option.start.month)).label = "off-peak"
    /\ option.choice = "cheaper_hotel" => option.total < AsAsked(Ask)

WaysOutHold == NoDeadEnd /\ WorthPicking
============================================================================
