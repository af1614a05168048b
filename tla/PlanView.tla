------------------------------ MODULE PlanView ------------------------------
(***************************************************************************)
(* The plan on the trip page: what a change is said to have changed, which *)
(* parts of the plan are marked for it (changes.ts), and what the map      *)
(* draws (map.ts).  Two comparisons of the same two plans, made apart, and *)
(* a numbering that the day's card and the map's pins must share.          *)
(*                                                                         *)
(* A day is [day, date, stops, hotel, flight]: its stops by slot, NONE     *)
(* where there is none; its hotel and its flight, if it has them, are      *)
(* one-element sequences of [name, price].                                 *)
(***************************************************************************)
EXTENDS Integers, Sequences, FiniteSets, SequencesExt, TLC

CONSTANTS
  ViewPlans,        \* the plans that may be saved: [days, total, tips]
  Destinations,     \* where the trip may be to
  Located           \* the places and hotels whose coordinates are known

NONE == "none"
FREE_TIME == "free time"
SLOTS == <<"morning", "afternoon", "evening">>
NoPlan == [days |-> <<>>, total |-> 0, tips |-> FALSE]
NothingSaid == [changed |-> FALSE, points |-> {}, difference |-> 0]

VARIABLES
  itinerary, where_to,     \* what the page shows: the plan, and the trip's destination
  earlier, from,           \* (for the properties) what it showed before the change
  changed, said            \* the marked parts, and the summary of the change

view_vars == <<itinerary, where_to, earlier, from, changed, said>>

ViewInit ==
  /\ itinerary \in ViewPlans /\ where_to \in Destinations
  /\ earlier = NoPlan /\ from = NONE /\ changed = {} /\ said = NothingSaid

----------------------------------------------------------------------------
(* describeChanges: in the traveller's words.                              *)

IsStop(name) == name \notin {NONE, FREE_TIME}
\* Where each stop is: of one that is there twice, the first.
Slots(days) == {<<d, s>> : d \in DOMAIN days, s \in DOMAIN SLOTS}
Before(one, other) == one[1] < other[1] \/ (one[1] = other[1] /\ one[2] < other[2])
At(days, slot) == days[slot[1]].stops[SLOTS[slot[2]]]
Names(days) == {At(days, slot) : slot \in {t \in Slots(days) : IsStop(At(days, t))}}
FirstSlot(days, name) ==
  CHOOSE slot \in Slots(days) : At(days, slot) = name /\ \A other \in Slots(days) : Before(other, slot) => At(days, other) # name
placements(days) ==
  [name \in Names(days) |-> LET slot == FirstSlot(days, name) IN [day |-> days[slot[1]].day, slot |-> SLOTS[slot[2]]]]

FirstOf(days, what) ==
  LET having == SelectSeq(days, LAMBDA day : day[what] # <<>>)
  IN IF having = <<>> THEN <<>> ELSE having[1][what]

\* Added, removed, another one, or the same at another price.
Differ(what, before, after) ==
  IF before = after THEN {}
  ELSE IF before = <<>> THEN {<<what, "added">>} ELSE IF after = <<>> THEN {<<what, "removed">>}
  ELSE IF before[1].name # after[1].name THEN {<<what, "another">>}
  ELSE {<<what, "price">>}
flightChange(before, after) == Differ("flight", FirstOf(before, "flight"), FirstOf(after, "flight"))
stayChange(before, after) == Differ("stay", FirstOf(before, "hotel"), FirstOf(after, "hotel"))

placeChanges(before, after) ==
  LET was == placements(before)
      now == placements(after)
  IN {<<"added", name>> : name \in DOMAIN now \ DOMAIN was} \cup {<<"removed", name>> : name \in DOMAIN was \ DOMAIN now}
     \cup {<<"moved", name>> : name \in {n \in DOMAIN now \cap DOMAIN was : was[n] # now[n]}}

Span(days) == <<days[1].date, Last(days).date>>
dateChange(before, after) ==
  IF before = <<>> \/ after = <<>> THEN {}
  ELSE IF Len(before) # Len(after) THEN {<<"days", "length">>}
  ELSE IF Span(before) # Span(after) THEN {<<"days", "dates">>} ELSE {}

describeChanges(before, after, was_to, is_to) ==
  LET points == (IF was_to # is_to THEN {<<"destination", is_to>>} ELSE {})
                \cup dateChange(before.days, after.days) \cup flightChange(before.days, after.days)
                \cup stayChange(before.days, after.days) \cup placeChanges(before.days, after.days)
                \cup (IF after.tips /\ ~before.tips THEN {<<"tips", "added">>} ELSE {})
      difference == after.total - before.total
  IN [changed |-> points # {} \/ difference # 0, points |-> points, difference |-> difference]

----------------------------------------------------------------------------
(* changedParts: what is marked on the plan itself.  A day is compared     *)
(* with the day of the same number.                                        *)

Sum(days, cost(_)) == FoldLeft(LAMBDA total, day : total + cost(day), 0, days)
Nightly(day) == IF day.hotel = <<>> THEN 0 ELSE day.hotel[1].price
stayCost(days) == Sum(days, Nightly)
activitiesCost(days) == Cardinality({slot \in Slots(days) : IsStop(At(days, slot))})

TheDay(days, number) == SelectSeq(days, LAMBDA day : day.day = number)
\* What a day of that number had, once one is found.
WasAt(days, number, slot) == {day.stops[slot] : day \in ToSet(TheDay(days, number))}
HotelOn(days, number) == {day.hotel : day \in ToSet(TheDay(days, number))}

flightPart == <<"flight">>
tilePart(section) == <<"tile", section>>
totalPart == <<"total">>
StayParts(before, after) ==
  {<<"stay", after[d].day>> : d \in {e \in DOMAIN after :
     after[e].hotel # <<>> /\ HotelOn(before, after[e].day) # {after[e].hotel}}}
StopParts(before, after) ==
  {<<"stop", after[slot[1]].day, SLOTS[slot[2]]>> : slot \in {t \in Slots(after) :
     IsStop(At(after, t)) /\ At(after, t) \notin WasAt(before, after[t[1]].day, SLOTS[t[2]])}}

changedParts(before, after) ==
  LET b == before.days
      a == after.days
      stays == StayParts(b, a)
  IN (IF flightChange(b, a) # {} THEN {flightPart, tilePart("flights")} ELSE {})
     \cup stays \cup StopParts(b, a)
     \cup (IF stayCost(b) # stayCost(a) \/ stays # {} THEN {tilePart("stay")} ELSE {})
     \cup (IF activitiesCost(b) # activitiesCost(a) \/ placements(b) # placements(a) THEN {tilePart("activities")} ELSE {})
     \cup (IF before.total # after.total THEN {totalPart} ELSE {})

----------------------------------------------------------------------------
(* finishRun shows the plan that came back; the marks go after a while.    *)

ChangeArrives ==
  /\ itinerary' \in ViewPlans /\ where_to' \in Destinations
  /\ LET summary == describeChanges(itinerary, itinerary', where_to, where_to')
     IN /\ said' = summary
        /\ changed' = IF summary.changed THEN changedParts(itinerary, itinerary') ELSE {}
  /\ earlier' = itinerary /\ from' = where_to
MarksFade ==
  /\ changed # {} /\ changed' = {} /\ said' = NothingSaid /\ earlier' = NoPlan /\ from' = NONE
  /\ UNCHANGED <<itinerary, where_to>>

\* A change is looked at before the next one comes back.
ViewNext == (earlier = NoPlan /\ ChangeArrives) \/ MarksFade

----------------------------------------------------------------------------
(* buildMapData: a pin for each stop that can be found, numbered within    *)
(* its day as its card numbers it.                                         *)

Filled(day) == SelectSeq(SLOTS, LAMBDA slot : day.stops[slot] # NONE)
dayStops(day) ==
  LET real == SelectSeq(Filled(day), LAMBDA slot : IsStop(day.stops[slot]))
      shown == IF real # <<>> THEN real ELSE SubSeq(Filled(day), 1, IF Filled(day) = <<>> THEN 0 ELSE 1)
      pinned(i) == day.stops[shown[i]] \in Located
  IN [i \in DOMAIN shown |->
        [slot |-> shown[i], name |-> day.stops[shown[i]],
         order |-> IF pinned(i) THEN Cardinality({j \in 1..i : pinned(j)}) ELSE 0]]

buildMapData(days) ==
  LET stops(d) == ToSet(dayStops(days[d]))
      pins == UNION {{[day |-> days[d].day, slot |-> stop.slot, name |-> stop.name, order |-> stop.order] :
                        stop \in {s \in stops(d) : IsStop(s.name) /\ s.order # 0}} : d \in DOMAIN days}
  IN [activities |-> pins,
      hotels |-> {days[d].hotel[1].name : d \in {e \in DOMAIN days : days[e].hotel # <<>>}} \cap Located,
      days |-> SelectSeq([d \in DOMAIN days |-> days[d].day], LAMBDA number : \E pin \in pins : pin.day = number),
      routes |-> {number \in {pin.day : pin \in pins} : Cardinality({pin \in pins : pin.day = number}) > 1},
      unmapped |-> UNION {{<<days[d].day, stop.slot, stop.name>> :
                             stop \in {s \in stops(d) : IsStop(s.name) /\ s.order = 0}} : d \in DOMAIN days}]

----------------------------------------------------------------------------
\* Something differs that a traveller would notice.
Noticed(before, after) ==
  \/ before.total # after.total \/ (after.tips /\ ~before.tips)
  \/ [d \in DOMAIN before.days |-> [before.days[d] EXCEPT !.stops = [s \in ToSet(SLOTS) |-> IF IsStop(@[s]) THEN @[s] ELSE NONE]]]
     # [d \in DOMAIN after.days |-> [after.days[d] EXCEPT !.stops = [s \in ToSet(SLOTS) |-> IF IsStop(@[s]) THEN @[s] ELSE NONE]]]

\* The page says that a plan came out the same only when it did, and that something changed only when
\* it did - but for a stay or a flight after the plan's first, which the words leave out; whatever is marked is in
\* the words or in the total, and stops that the words say came, went or moved are marked as such.
SaysWhatChanged ==
  earlier # NoPlan =>
    LET later_only == /\ FirstOf(earlier.days, "hotel") = FirstOf(itinerary.days, "hotel")
                      /\ FirstOf(earlier.days, "flight") = FirstOf(itinerary.days, "flight")
                      /\ earlier.total = itinerary.total
    IN /\ said.changed => Noticed(earlier, itinerary) \/ from # where_to
       /\ Noticed(earlier, itinerary) => said.changed \/ later_only
       /\ changed # {} => said.points # {} \/ said.difference # 0
       /\ (\E point \in said.points : point[1] \in {"added", "removed", "moved"}) <=> tilePart("activities") \in changed
       /\ \A point \in said.points : point[1] \in {"added", "moved"} => \E d \in DOMAIN itinerary.days, s \in ToSet(SLOTS) :
            itinerary.days[d].stops[s] = point[2] /\ <<"stop", itinerary.days[d].day, s>> \in changed

\* Every stop of the plan is on the map or named as not on it, never both; the pins of a day are
\* numbered from one up in the order of its slots.
EveryStopOnTheMap ==
  LET drawn == buildMapData(itinerary.days)
  IN /\ \A d \in DOMAIN itinerary.days, slot \in ToSet(SLOTS) :
          LET day == itinerary.days[d]
              name == day.stops[slot]
              pins == {pin \in drawn.activities : pin.day = day.day /\ pin.slot = slot}
          IN IF IsStop(name)
             THEN (\E pin \in pins : pin.name = name) # (<<day.day, slot, name>> \in drawn.unmapped)
             ELSE pins = {}
     /\ \A number \in ToSet(drawn.days) :
          LET pins == {pin \in drawn.activities : pin.day = number}
          IN {pin.order : pin \in pins} = 1..Cardinality(pins)
     /\ \A pin, other \in drawn.activities : pin.day = other.day /\ pin.order < other.order =>
          \E i, j \in DOMAIN SLOTS : i < j /\ SLOTS[i] = pin.slot /\ SLOTS[j] = other.slot

PlanShownTrue == SaysWhatChanged /\ EveryStopOnTheMap
=============================================================================
