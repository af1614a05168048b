----------------------------- MODULE PlanExport -----------------------------
(***************************************************************************)
(* The saved plan as a PDF (backend/app/pdf), beside the plan as the trip  *)
(* page shows it.  Both work the same figures out of the same rows, each   *)
(* with its own code ("so paper and screen agree", plan.py:4), and each    *)
(* reads the trip and its latest itinerary in two requests of its own,     *)
(* between which another run may save its plan.                            *)
(*                                                                         *)
(* Days are PlanView's: their stops by slot, NONE where there is none; a   *)
(* flight also has its airports, [code, located], from and to.  A total    *)
(* includes the flights' price also when the plan does not name it.        *)
(***************************************************************************)
EXTENDS Integers, Sequences, FiniteSets, SequencesExt, TLC

CONSTANTS
  FirstSaves, LaterSaves, \* what may be saved: [days, total, budget, size, nights, members]
  Fee,                    \* what each stop costs
  OnTheGlobe,             \* the stops and hotels whose coordinates are known
  MaxSaves                \* bound: plans saved

NONE == "none"
FREE_TIME == "free time"
SLOTS == <<"morning", "afternoon", "evening">>
NoPrice == -1
Nothing == <<>>

VARIABLES
  stored,        \* the trip row and its latest itinerary: one commit writes both
  on_screen,    \* what the page has read: [trip, plan], each a saved one or Nothing
  exporting,    \* the export under way: what it has read of the trip, or Nothing
  paper,        \* the last PDF: [trip, plan, doc, map], or Nothing
  crossed       \* (for the properties) a plan was saved between the export's two reads

export_vars == <<stored, on_screen, exporting, paper, crossed>>

----------------------------------------------------------------------------
(* What the builder adds to a finished plan: each traveller's share.       *)

travellersOf(save) == Max({1, save.size, Len(save.members)})
per_person(total, travellers) ==
  [each |-> <<total, travellers>>,
   shares |-> [n \in 1..travellers |-> total \div travellers + (IF n <= total % travellers THEN 1 ELSE 0)]]
Saved(save, version) == [version |-> version, save |-> save, split |-> per_person(save.total, travellersOf(save))]

----------------------------------------------------------------------------
(* The trip page: ItineraryView, CostSummary, DayCard and ItineraryMap.    *)

Screen ==
  INSTANCE PlanView
    WITH ViewPlans <- FirstSaves, Destinations <- {}, Located <- OnTheGlobe, itinerary <- stored, where_to <- stored,
         earlier <- stored, from <- stored, changed <- stored, said <- stored

OnScreen(day) == Screen!dayStops(day)
FeesOf(names) == FoldLeft(LAMBDA sum, name : sum + Fee[name], 0, names)
Nightly(day) == IF day.hotel = Nothing THEN 0 ELSE day.hotel[1].price
Total(days, cost(_)) == FoldLeft(LAMBDA sum, day : sum + cost(day), 0, days)

dayCost(day) == FeesOf([i \in DOMAIN OnScreen(day) |-> OnScreen(day)[i].name]) + Nightly(day)
screenActivities(days) ==
  Total(days, LAMBDA day : FeesOf([i \in DOMAIN SLOTS |-> day.stops[SLOTS[i]]]))
screenFlights(plan) ==
  LET first == plan.days[1].flight
      rest == plan.total - Screen!stayCost(plan.days) - screenActivities(plan.days)
  IN IF first # Nothing /\ first[1].price # NoPrice THEN first[1].price ELSE Max({0, rest})
screenNights(plan, trip) ==
  LET with_hotel == SelectSeq(plan.days, LAMBDA day : day.hotel # Nothing)
  IN IF with_hotel # Nothing THEN Len(with_hotel) ELSE Max({0, trip.nights})
perPersonCost(total, travellers) == IF travellers < 2 \/ total <= 0 THEN Nothing ELSE <<total, travellers>>
budgetState(total, budget) ==
  IF budget = 0 THEN Nothing
  ELSE IF 10 * total < 9 * budget THEN <<"under">> ELSE IF total <= budget THEN <<"tight">> ELSE <<"over">>
\* What the three tiles say: whose flights, how many nights, whether anything is paid.
Stats(plan, trip) ==
  [flights |-> IF screenFlights(plan) > 0 THEN trip.size ELSE 0,
   stay |-> IF Screen!stayCost(plan.days) > 0 THEN screenNights(plan, trip) ELSE 0,
   activities |-> screenActivities(plan.days) > 0]
\* The card with "Book hotel": the first night of each stay.
firstNight(days) ==
  {d \in DOMAIN days : days[d].hotel # Nothing
     /\ (d = 1 \/ days[d - 1].hotel = Nothing \/ days[d - 1].hotel[1].name # days[d].hotel[1].name)}

AirportsNamed(days) ==
  FlattenSeq([d \in DOMAIN days |->
    IF days[d].flight = Nothing THEN Nothing
    ELSE <<[role |-> "origin", at |-> days[d].flight[1].from], [role |-> "destination", at |-> days[d].flight[1].to]>>])
screenAirports(days) ==
  LET named == SelectSeq(AirportsNamed(days), LAMBDA airport : airport.at.located)
  IN {[code |-> named[i].at.code, role |-> named[i].role] :
        i \in {j \in DOMAIN named : \A k \in 1..(j - 1) : named[k].at.code # named[j].at.code}}
\* The page has a map when anything of the plan can be found.
everything(days) ==
  LET drawn == Screen!buildMapData(days)
  IN drawn.activities # {} \/ drawn.hotels # {} \/ screenAirports(days) # {}

----------------------------------------------------------------------------
(* The PDF: plan.py's reading of the two rows, document.py's tables.       *)

\* Stops of the day in order, each with the number on its pin.
read_stops(day) ==
  LET slots == SelectSeq(SLOTS, LAMBDA slot : day.stops[slot] # NONE)
      real == SelectSeq(slots, LAMBDA slot : day.stops[slot] # FREE_TIME)
      shown == IF real = Nothing THEN SubSeq(slots, 1, Min({1, Len(slots)})) ELSE real
      read(stops, slot) ==
        LET name == day.stops[slot]
            order == Len(SelectSeq(stops, LAMBDA stop : stop.order # 0)) + 1
        IN Append(stops, [slot |-> slot, name |-> name,
                          order |-> IF name # FREE_TIME /\ name \in OnTheGlobe THEN order ELSE 0])
  IN FoldLeft(read, Nothing, shown)
read_day(day) ==
  [number |-> day.day, stops |-> read_stops(day), stay |-> day.hotel, flight |-> day.flight,
   activities_cost |-> FeesOf([i \in DOMAIN SLOTS |-> day.stops[SLOTS[i]]])]
stay_cost(day) == IF day.stay = Nothing THEN 0 ELSE day.stay[1].price

\* A stay's link on its first night only.
WithLinks(days) ==
  [d \in DOMAIN days |->
    LET repeated == d > 1 /\ days[d].stay # Nothing /\ days[d - 1].stay # Nothing
                    /\ days[d - 1].stay[1].name = days[d].stay[1].name
    IN days[d] @@ [link |-> days[d].stay # Nothing /\ ~repeated]]

costsOf(days, total) ==
  LET stay == Total(days, stay_cost)
      activities == Total(days, LAMBDA day : day.activities_cost)
      price == IF days[1].flight = Nothing THEN NoPrice ELSE days[1].flight[1].price
      flights == IF price # NoPrice THEN price ELSE Max({0, total - stay - activities})
  IN [flights |-> flights, stay |-> stay, activities |-> activities, total |-> total,
      unexplained |-> total - (flights + stay + activities)]

stay_totals(days) ==
  LET nights(name, price) == Cardinality({d \in DOMAIN days : days[d].stay # Nothing
                                            /\ days[d].stay[1].name = name /\ days[d].stay[1].price = price})
  IN {[name |-> stay.name, price |-> stay.price, nights |-> nights(stay.name, stay.price)] :
        stay \in {days[d].stay[1] : d \in {e \in DOMAIN days : days[e].stay # Nothing}}}
nights_stayed(days, trip) ==
  LET stayed == Cardinality({d \in DOMAIN days : days[d].stay # Nothing})
  IN IF stayed > 0 THEN stayed ELSE Max({0, trip.nights})

map_features(days) ==
  LET pins(day) == {stop \in ToSet(day.stops) : stop.order # 0}
      has(day) == pins(day) # {}
      \* by code, the first that is found (setdefault)
      noted(known, airport) ==
        IF airport.at.located THEN known @@ (airport.at.code :> airport.role) ELSE known
      airports == FoldLeft(noted, [code \in {} |-> ""], AirportsNamed(days))
      hotels == {days[d].stay[1].name : d \in {e \in DOMAIN days : days[e].stay # Nothing}} \cap OnTheGlobe
  IN [activities |-> UNION {{[day |-> days[d].number, slot |-> stop.slot, name |-> stop.name, order |-> stop.order] :
                               stop \in pins(days[d])} : d \in DOMAIN days},
      hotels |-> hotels,
      airports |-> {[code |-> code, role |-> airports[code]] : code \in DOMAIN airports},
      days |-> [i \in DOMAIN SelectSeq(days, has) |-> SelectSeq(days, has)[i].number],
      routes |-> {days[d].number : d \in {e \in DOMAIN days : Cardinality(pins(days[e])) > 1}},
      unmapped |-> UNION {{<<days[d].number, stop.slot, stop.name>> :
                             stop \in {s \in ToSet(days[d].stops) : s.order = 0 /\ s.name # FREE_TIME}} : d \in DOMAIN days}]
\* The picture is of the destination: every pin but the departure airport.
framed(features) ==
  \/ features.activities # {} \/ features.hotels # {}
  \/ \E airport \in features.airports : airport.role = "destination"

\* export_itinerary: the picture may be left out, the file is made all the same.
MapStatus(features) == IF framed(features) THEN {"included", "unavailable"} ELSE {"none"}

\* A plan takes its figures from the itinerary, its budget and travellers from the trip.
build_plan(trip, plan) ==
  LET days == WithLinks([d \in DOMAIN plan.days |-> read_day(plan.days[d])])
  IN [days |-> days, costs |-> costsOf(days, plan.total), features |-> map_features(days),
      nights |-> nights_stayed(days, trip), travellers |-> Max({trip.size, 1}), budget |-> trip.budget]
per_traveller(doc) ==
  IF doc.travellers < 2 \/ doc.costs.total <= 0 THEN Nothing ELSE <<doc.costs.total, doc.travellers>>
budget_note(total, budget) ==
  IF budget = 0 THEN Nothing
  ELSE IF 10 * total < 9 * budget THEN <<"under">> ELSE IF total <= budget THEN <<"tight">> ELSE <<"over">>
cost_tiles(doc) ==
  [flights |-> IF doc.costs.flights > 0 THEN doc.travellers ELSE 0,
   stay |-> IF doc.costs.stay > 0 THEN doc.nights ELSE 0, activities |-> doc.costs.activities > 0]
\* The cover's outline: how many places there are to see.
at_a_glance(doc) ==
  FoldLeft(LAMBDA places, day : places + Len(SelectSeq(day.stops, LAMBDA stop : stop.name # FREE_TIME)), 0, doc.days)

\* The two tables of the cost page: the figures above each one's total.
Other(costs) == IF costs.unexplained = 0 THEN Nothing ELSE <<costs.unexplained>>
ledger(doc) == <<doc.costs.flights, doc.costs.stay, doc.costs.activities>> \o Other(doc.costs)
daily_costs(doc) ==
  [d \in DOMAIN doc.days |-> stay_cost(doc.days[d]) + doc.days[d].activities_cost]
  \o (IF doc.costs.flights > 0 THEN <<doc.costs.flights>> ELSE Nothing) \o Other(doc.costs)

----------------------------------------------------------------------------
ExportInit ==
  /\ stored \in {Saved(save, 1) : save \in FirstSaves}
  /\ on_screen = [trip |-> Nothing, plan |-> Nothing] /\ exporting = Nothing /\ paper = Nothing /\ crossed = FALSE

\* Another run ends: persist's commit writes the plan and moves the trip's row.
PlanSaved ==
  /\ stored.version < MaxSaves
  /\ stored' \in {Saved(save, stored.version + 1) : save \in LaterSaves}
  /\ crossed' = (crossed \/ exporting # Nothing)
  /\ UNCHANGED <<on_screen, exporting, paper>>

\* Its load and a run's end: the trip and the itinerary, each in a request, in any order.
PageReads(what) ==
  /\ on_screen[what] # <<stored>> /\ on_screen' = [on_screen EXCEPT ![what] = <<stored>>]
  /\ UNCHANGED <<stored, exporting, paper, crossed>>

\* GET /trips/{id}/export/pdf: the trip, then the latest itinerary; both go before the map is drawn.
ReadTrip ==
  /\ on_screen.plan # Nothing /\ exporting = Nothing /\ exporting' = <<stored>> /\ crossed' = FALSE
  /\ UNCHANGED <<stored, on_screen, paper>>
export_trip_pdf ==
  /\ exporting # Nothing /\ exporting' = Nothing
  /\ \E doc \in {build_plan(exporting[1].save, stored.save)} :
       \E map \in MapStatus(doc.features) : paper' = <<[trip |-> exporting[1].version, plan |-> stored.version, doc |-> doc, map |-> map]>>
  /\ UNCHANGED <<stored, on_screen, crossed>>

ExportNext == PlanSaved \/ PageReads("trip") \/ PageReads("plan") \/ ReadTrip \/ export_trip_pdf

----------------------------------------------------------------------------
Compared ==
  /\ paper # Nothing /\ on_screen.trip # Nothing /\ on_screen.plan # Nothing
  /\ paper[1].trip = on_screen.trip[1].version /\ paper[1].plan = on_screen.plan[1].version

\* A PDF of the trip and the plan that are on the page has the page's stops with the page's numbers, its
\* hotels and airports on the map, its figures for every day and part, its share for each traveller, its verdict
\* on the budget, and the link to book each stay on the same days.
PaperAgreesWithScreen ==
  Compared =>
    LET trip == on_screen.trip[1].save
        plan == on_screen.plan[1].save
        doc == paper[1].doc
        drawn == Screen!buildMapData(plan.days)
    IN /\ [d \in DOMAIN doc.days |-> doc.days[d].stops] = [d \in DOMAIN plan.days |-> OnScreen(plan.days[d])]
       /\ \A d \in DOMAIN doc.days :
            /\ doc.days[d].activities_cost + stay_cost(doc.days[d]) = dayCost(plan.days[d])
            /\ doc.days[d].link <=> d \in firstNight(plan.days)
       /\ <<doc.costs.stay, doc.costs.activities, doc.costs.flights, doc.nights>>
          = <<Screen!stayCost(plan.days), screenActivities(plan.days), screenFlights(plan), screenNights(plan, trip)>>
       /\ cost_tiles(doc) = Stats(plan, trip)
       /\ per_traveller(doc) = perPersonCost(plan.total, trip.size)
       /\ budget_note(doc.costs.total, doc.budget) = budgetState(plan.total, trip.budget)
       /\ doc.features.activities = drawn.activities /\ doc.features.hotels = drawn.hotels
       /\ doc.features.days = drawn.days /\ doc.features.routes = drawn.routes /\ doc.features.unmapped = drawn.unmapped
       /\ doc.features.airports = screenAirports(plan.days)
       \* the page also has a map of nothing but the airport that is left from
       /\ paper[1].map = "none" <=>
            everything(plan.days) => /\ drawn.activities = {} /\ drawn.hotels = {}
                                     /\ \A airport \in screenAirports(plan.days) : airport.role = "origin"

\* The PDF's tables add up to the total they print, its hotels' lines to the stay; a place to see is on the
\* map or named as not on it.
TablesAddUp ==
  paper # Nothing =>
    LET doc == paper[1].doc
        SumOf(figures) == FoldLeft(LAMBDA sum, figure : sum + figure, 0, figures)
    IN /\ SumOf(ledger(doc)) = doc.costs.total
       /\ SumOf(daily_costs(doc)) = doc.costs.total
       /\ FoldSet(LAMBDA stay, sum : sum + stay.nights * stay.price, 0, stay_totals(doc.days)) = doc.costs.stay
       /\ at_a_glance(doc) = Cardinality(doc.features.activities) + Cardinality(doc.features.unmapped)

\* A PDF is of one plan, unless another was saved between its two reads.
PaperOfOnePlan == paper # Nothing /\ exporting = Nothing /\ ~crossed => paper[1].trip = paper[1].plan

\* The shares saved with a plan add up to it and differ by a rupee at most; a traveller's is what the page
\* works out, unless the trip was left with a smaller size than the travellers it names.
SharesHold ==
  /\ LET shares == stored.split.shares
     IN /\ FoldLeft(LAMBDA sum, share : sum + share, 0, shares) = stored.save.total
        /\ \A one, other \in DOMAIN shares : one < other => shares[one] - shares[other] \in {0, 1}
  /\ on_screen.trip # Nothing /\ on_screen.plan = on_screen.trip =>
       LET save == on_screen.plan[1].save
           split == on_screen.plan[1].split
       IN save.size >= Len(save.members) =>
            perPersonCost(save.total, save.size) = IF split.each[2] > 1 /\ save.total > 0 THEN split.each ELSE Nothing

PaperHolds == PaperAgreesWithScreen /\ TablesAddUp /\ PaperOfOnePlan /\ SharesHold
=============================================================================
