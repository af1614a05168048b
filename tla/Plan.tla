------------------------------- MODULE Plan -------------------------------
(***************************************************************************)
(* The vocabulary of a plan (src/ai/itinerary.py and the draft schema of   *)
(* src/ai/builder/builder.py): its days, their three parts, and the stops  *)
(* in them.  A draft is [days, total_cost]; a day is a record with a stop  *)
(* under each of SLOTS, its date, its hotel and what code adds to it.  A   *)
(* place found by the search is [name, suits, category, km]: whom it is    *)
(* for, what it is, and where on the map (a line, in km; no coordinates:   *)
(* NOWHERE).  Names stand for themselves.                                  *)
(***************************************************************************)
EXTENDS Integers, Sequences, FiniteSets, FiniteSetsExt, SequencesExt

SLOTS == <<"morning", "afternoon", "evening">>
FREE_TIME == "Explore the area"
NONE == "null"
NOWHERE == -1

\* A slot with nothing in it; the stop code writes for free time; a stop code moves in.
Empty == [activity |-> NONE, cost |-> 0, suits |-> {}]
FreeTime == [Empty EXCEPT !.activity = FREE_TIME]
Stop(name) == [Empty EXCEPT !.activity = name]

Places(attractions) == ToSet(attractions)
ByName(attractions, name) == CHOOSE a \in Places(attractions) : a.name = name
Known(attractions) == {a.name : a \in Places(attractions)}

\* What the attraction, never the plan's writer, says of whom a stop is for.
Suited(stop, attractions) ==
  IF stop.activity \in Known(attractions) THEN ByName(attractions, stop.activity).suits ELSE {}

IsReal(stop) == stop.activity \notin {NONE, FREE_TIME}

\* <<day, part of the day>> of every real stop of some days, in order.
Stops(days, window) ==
  {<<d, s>> \in window \X DOMAIN SLOTS : IsReal(days[d][SLOTS[s]])}

StopAt(days, at) == days[at[1]][SLOTS[at[2]]]
AllDays(days) == DOMAIN days
InPlan(days) == {StopAt(days, at).activity : at \in Stops(days, AllDays(days))}

\* Every night's and every stop's cost, and the cheapest flight's, counted once.
StopCosts(days) ==
  MapThenSumSet(LAMBDA at : StopAt(days, at).cost, AllDays(days) \X DOMAIN SLOTS)
Nights(days) == {d \in DOMAIN days : days[d].hotel # NONE}
StayCost(days) == MapThenSumSet(LAMBDA d : days[d].nightly, Nights(days))

\* Pairs in dictionary order.
Before(a, b) == a[1] < b[1] \/ (a[1] = b[1] /\ a[2] <= b[2])
===========================================================================
