-------------------------------- MODULE Days --------------------------------
(***************************************************************************)
(* What a day means for the plan of it: its weather (src/ai/weather.py)    *)
(* and its clock (src/ai/schedule.py).                                     *)
(***************************************************************************)
EXTENDS Plan

CONSTANT AIRPORT     \* where the plan's flight lands, in km

-----------------------------------------------------------------------------
(* The weather.  `forecast` is a function from the dates the weather tool  *)
(* answered for to the condition's kind: "rainy", "sunny", "snowy",        *)
(* "cloudy" (by_date, kind).  repair's loop is RainyDay, one day of it;    *)
(* Itinerary.tla runs it.                                                  *)

INDOOR == {"museum", "food", "shopping", "culture", "nightlife", "spiritual"}
setting(category) == IF category \in INDOOR THEN "indoor" ELSE "outdoor"

kind(condition) ==
  CASE condition \in {"rain", "rainy", "drizzle", "thunderstorm", "showers"} -> "rainy"
    [] condition \in {"clear", "sunny"} -> "sunny"
    [] condition \in {"snow", "snowy"} -> "snowy"
    [] OTHER -> "cloudy"

\* The category the draft's stop goes by is the attraction's: the model's reply has none.
Indoors(stop, attractions) ==
  /\ stop.activity \in Known(attractions)
  /\ setting(ByName(attractions, stop.activity).category) = "indoor"

IsRainy(day, forecast) == day.date \in DOMAIN forecast /\ kind(forecast[day.date]) = "rainy"

\* Mutation: a day is looked at only when nothing at all is in it.
NeedsRepairWhenEmpty(draft, d, attractions, forecast) ==
  IsRainy(draft.days[d], forecast) /\ Stops(draft.days, {d}) = {}
NeedsRepair(draft, d, attractions, forecast) ==
  /\ IsRainy(draft.days[d], forecast)
  /\ \A at \in Stops(draft.days, {d}) : ~Indoors(StopAt(draft.days, at), attractions)

\* The first empty slot for the first unused indoor place; else, from the evening back, the
\* first stop for which an unused place suits all that `stop.suits` lists.  That field is
\* what the draft's slot says, and a slot has it from the model's reply: code writes it only
\* in _attach_source_data, which comes later.  A place for nobody suits everybody.
RainyDay(draft, d, attractions, forecast) ==
  LET day == draft.days[d]
      unused == SelectSeq(attractions, LAMBDA a :
                  a.name \notin InPlan(draft.days) /\ setting(a.category) = "indoor")
      free == {s \in DOMAIN SLOTS : ~IsReal(day[SLOTS[s]])}
      fitting(s) == SelectSeq(unused, LAMBDA a :
                      a.suits = {} \/ day[SLOTS[s]].suits \subseteq a.suits)
      swaps == {s \in DOMAIN SLOTS \ free : fitting(s) # <<>>}
      target == IF free # {} /\ unused # <<>> THEN Min(free) ELSE Max(swaps)
      place == IF free # {} /\ unused # <<>> THEN unused[1] ELSE fitting(target)[1]
      replaced == day[SLOTS[target]]
  IN IF unused = <<>> \/ (free = {} /\ swaps = {})
     THEN [draft EXCEPT !.days[d].weather_note = TRUE]
     ELSE [draft EXCEPT !.days[d][SLOTS[target]] = Stop(place.name),
                        !.total_cost = @ - (IF IsReal(replaced) THEN replaced.cost ELSE 0)]

\* Each day of the plan its weather; a day without a forecast has none.
attach(days, forecast) ==
  [d \in DOMAIN days |->
     [days[d] EXCEPT !.weather = IF days[d].date \in DOMAIN forecast
                                 THEN kind(forecast[days[d].date]) ELSE NONE]]

-----------------------------------------------------------------------------
(* The clock: when each stop starts and ends, and how long the way to it   *)
(* takes.  Minutes after midnight.  The map is a line: a place is its km   *)
(* on it, NOWHERE has no coordinates.  `asked` is the travel-time tool:    *)
(* the minutes it answers for a distance, or NoAnswer, and then the way is *)
(* estimated.                                                              *)

opens == [morning |-> 480, afternoon |-> 780, evening |-> 1080]
closes == [morning |-> 720, afternoon |-> 1020, evening |-> 1320]
DAY_START == 480
DAY_END == 1320
FAR_KM == 10
MIN_VISIT == 30
LANDING_MINUTES == 60
NoAnswer == -1
NoTime == -1

usual(category) ==
  CASE category \in {"beach", "nature", "adventure", "nightlife"} -> 150
    [] category \in {"history", "museum", "culture", "shopping", "sports"} -> 120
    [] category \in {"food", "sightseeing"} -> 90
    [] category = "spiritual" -> 75
    [] OTHER -> 105

Km(a, b) == IF a > b THEN a - b ELSE b - a
mode_for(km) == IF km <= 1 THEN "walk" ELSE IF km <= FAR_KM THEN "auto-rickshaw" ELSE "taxi"

\* 1.6 km of road for one of straight line; a walk is 4.5 km/h, a ride 50 km/h and five minutes.
CeilDiv(n, k) == -((-n) \div k)
estimate(km) ==
  IF mode_for(km) = "walk" THEN Max({1, CeilDiv(64 * km, 3)}) ELSE CeilDiv(192 * km, 100) + 5

way_minutes(asked, km) == IF asked[km] = NoAnswer THEN estimate(km) ELSE asked[km]

\* When the plan's flight lands on the day (NoTime: on another, or there is none).
landing(day) == day.landed

\* Where the traveller sets out from on a day: the airport they landed at, or the hotel they
\* woke up in, or the day's own hotel.
slept_at(days, d) ==
  LET before == {e \in Nights(days) : e < d}
  IN IF before = {} THEN NOWHERE ELSE days[Max(before)].hotel_km
sets_out_from(days, d) ==
  IF landing(days[d]) # NoTime /\ AIRPORT # NOWHERE THEN AIRPORT
  ELSE IF slept_at(days, d) # NOWHERE THEN slept_at(days, d) ELSE days[d].hotel_km

KmOf(stop, attractions) ==
  IF stop.activity \in Known(attractions) THEN ByName(attractions, stop.activity).km ELSE NOWHERE

\* Where the way to part s of day d starts: the last stop before it on the map, whether or not
\* that stop was given a time.
here(days, d, s, attractions) ==
  LET placed == {r \in 1..(s - 1) : /\ IsReal(days[d][SLOTS[r]])
                                    /\ KmOf(days[d][SLOTS[r]], attractions) # NOWHERE}
  IN IF placed = {} THEN sets_out_from(days, d)
     ELSE KmOf(days[d][SLOTS[Max(placed)]], attractions)

\* <<minutes>> of the way to a stop, or <<>>: nothing to measure from or to.
leg(days, d, s, attractions, asked) ==
  LET from == here(days, d, s, attractions)
      to == KmOf(days[d][SLOTS[s]], attractions)
  IN IF from = NOWHERE \/ to = NOWHERE THEN <<>>
     ELSE <<way_minutes(asked, Km(from, to))>>

\* Times are rounded up to five minutes.
RoundUp(m) == 5 * CeilDiv(m, 5)
NoClock == [start |-> NoTime, end |-> NoTime, travel |-> <<>>, far |-> FALSE,
            short_visit |-> FALSE, no_time_left |-> FALSE]

\* A day's parts in turn: clock[s] is the clock of part s and the cursor after it.
day_clock(days, d, attractions, asked) ==
  LET first == IF landing(days[d]) = NoTime THEN DAY_START
               ELSE Max({DAY_START, landing(days[d]) + LANDING_MINUTES})
      timed(s, cursor) ==
        LET stop == days[d][SLOTS[s]]
            free == stop.activity = FREE_TIME
            way == IF free THEN <<>> ELSE leg(days, d, s, attractions, asked)
            minutes == IF way = <<>> THEN 0 ELSE way[1]
            start == Max({opens[SLOTS[s]], RoundUp(cursor + minutes)})
            stays == IF stop.activity \in Known(attractions)
                     THEN usual(ByName(attractions, stop.activity).category) ELSE 105
            leaves == IF free THEN IF start < closes[SLOTS[s]] THEN closes[SLOTS[s]] ELSE DAY_END
                      ELSE Min({start + stays, Max({closes[SLOTS[s]], start + MIN_VISIT}), DAY_END})
            far == /\ way # <<>>
                   /\ Km(here(days, d, s, attractions), KmOf(stop, attractions)) > FAR_KM
        IN CASE stop.activity = NONE -> [stop |-> NoClock, cursor |-> cursor]
             [] stop.activity # NONE /\ start > DAY_END - MIN_VISIT ->
                  [stop |-> [NoClock EXCEPT !.travel = way, !.far = far, !.no_time_left = TRUE],
                   cursor |-> cursor]
             [] OTHER ->
                  [stop |-> [NoClock EXCEPT !.start = start, !.end = leaves, !.travel = way, !.far = far,
                             !.short_visit = ~free /\ 2 * (leaves - start) < stays],
                   cursor |-> IF free THEN cursor ELSE leaves]
      clock[s \in DOMAIN SLOTS] == timed(s, IF s = 1 THEN first ELSE clock[s - 1].cursor)
  IN [s \in DOMAIN SLOTS |-> clock[s].stop]

add_times(days, attractions, asked) ==
  [d \in DOMAIN days |-> day_clock(days, d, attractions, asked)]
=============================================================================
