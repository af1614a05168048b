----------------------------- MODULE TripSearch -----------------------------
(***************************************************************************)
(* Searching one's trips (GET /trips/search and the box on the trips page) *)
(* and the trips like the one on screen (GET /trips/{id}/similar and its   *)
(* panel), while plans are being made and changed: a plan is found by its  *)
(* summary's embedding (search.py), which is made some time after it.      *)
(*                                                                         *)
(* How close two summaries are is a number of hundredths.                  *)
(***************************************************************************)
EXTENDS Integers, Sequences, FiniteSets, SequencesExt

CONSTANTS
  Mine, Theirs,        \* the traveller's trips, and another's
  Queries,             \* what is typed
  Plans,               \* what plans may be of: [wanted, stops], a stop being [name, category, rating]
  Close(_, _),         \* how close a query, or another summary, is to a summary
  SEARCH_LIMIT, SEARCH_FLOOR, SEARCH_WINDOW, SIMILAR_FLOOR, SHOWN, RETRIES,
  MaxChanges           \* (bound) plans saved

FREE_TIME == "free time"
SUMMARY_PLACES == 6
SUMMARY_KINDS == 3

VARIABLES
  page,          \* the page that is open: "trips" or the "trip"
  trips,         \* each trip: [status, plan, embedded], its latest plan and whether that is embedded
  known,         \* the queries whose vector is cached
  box, sought, found_trips, search_error,    \* the page: its box, the search in flight, what it shows
  panel, showing, tries, pending,            \* the panel: its trip's plan, the trips in it, and its questions
  changes, strayed                           \* (for the properties) plans saved; the box has changed under a search

search_page_vars ==
  <<page, trips, known, box, sought, found_trips, search_error, panel, showing, tries, pending, changes, strayed>>

NoPlanYet == <<>>
Everyones == Mine \cup Theirs
NoTrip == [status |-> "pending", plan |-> NoPlanYet, embedded |-> FALSE]
THIS == CHOOSE trip \in Mine : TRUE

SearchPageInit ==
  /\ page \in {"trips", "trip"}
  /\ trips \in [Everyones -> {NoTrip} \cup {[status |-> "completed", plan |-> <<plan>>, embedded |-> TRUE] : plan \in Plans}]
  /\ \A trip \in Theirs : trips[trip].plan = <<CHOOSE plan \in Plans : TRUE>>
  /\ known = {} /\ box = "" /\ sought = "" /\ found_trips = <<>> /\ search_error = FALSE
  /\ panel = NoPlanYet /\ showing = <<>> /\ tries = 0 /\ pending = FALSE /\ changes = 0 /\ strayed = FALSE

----------------------------------------------------------------------------
(* What a plan is found by.                                                *)

Visited(plan) == SelectSeq(plan.stops, LAMBDA stop : stop.name # FREE_TIME)
EachOnce(names) == FoldLeft(LAMBDA kept, name : IF name \in ToSet(kept) THEN kept ELSE Append(kept, name), <<>>, names)
\* places_and_kinds: each place once, a kind counted for each of its places.
Places(plan) == EachOnce([i \in DOMAIN Visited(plan) |-> Visited(plan)[i].name])
KindOfPlace(plan, name) ==
  LET all == Visited(plan) IN all[CHOOSE i \in DOMAIN all : all[i].name = name /\ \A j \in 1..(i - 1) : all[j].name # name].category
Kinds(plan) ==
  LET kinds == [i \in DOMAIN Places(plan) |-> KindOfPlace(plan, Places(plan)[i])]
      Count(kind) == Cardinality({i \in DOMAIN kinds : kinds[i] = kind})
      named == SelectSeq(EachOnce(kinds), LAMBDA kind : kind # "sightseeing")
      Sooner(a, b) == Count(a) > Count(b)
  IN SortSeq(named, Sooner)
FirstOf(list, n) == SubSeq(list, 1, IF Len(list) > n THEN n ELSE Len(list))
\* build_summary_text
Summary(plan) == [wanted |-> plan.wanted, kinds |-> FirstOf(Kinds(plan), SUMMARY_KINDS), places |-> FirstOf(Places(plan), SUMMARY_PLACES)]
\* highlight: the most popular stop, the first of several.
Highlight(plan) ==
  LET all == Visited(plan)
  IN IF all = <<>> THEN "none"
     ELSE all[CHOOSE i \in DOMAIN all : \A j \in DOMAIN all : all[j].rating < all[i].rating \/ (all[j].rating = all[i].rating /\ i <= j)].name

\* What was typed, as something to compare a summary with.
Typed(query) == [wanted |-> query, kinds |-> <<>>, places |-> <<>>]

\* Only the latest plan's summary counts, and only of a trip whose plan stands.
Embedded(trip) == trips[trip].embedded /\ trips[trip].status \in {"completed", "planning"}
Similarity(what, trip) == Close(what, Summary(trips[trip].plan[1]))
\* nearest_trips: of one's own, those no further than the floor, the nearest first.
NearestTrips(what, limit, floor, except) ==
  LET near == {trip \in Mine \ except : Embedded(trip) /\ Similarity(what, trip) >= floor}
      Nearer(a, b) == Similarity(what, a) > Similarity(what, b)
  IN FirstOf(SortSeq(SetToSeq(near), Nearer), limit)
\* best_matches: those close to the best, and none below the floor.
BestMatches(what, nearest) ==
  SelectSeq(nearest, LAMBDA trip : /\ Similarity(what, trip) >= SEARCH_FLOOR
                                   /\ Similarity(what, trip) >= Similarity(what, nearest[1]) - SEARCH_WINDOW)
AsMatches(what, list) ==
  [i \in DOMAIN list |-> [trip |-> list[i], plan |-> trips[list[i]].plan[1], similarity |-> Similarity(what, list[i]),
                          highlight |-> Highlight(trips[list[i]].plan[1])]]

----------------------------------------------------------------------------
(* Plans come and change.                                                  *)

PlanStarts ==
  \E trip \in Mine :
    /\ trips[trip].status # "planning" /\ changes < MaxChanges
    /\ trips' = [trips EXCEPT ![trip].status = "planning"]
    /\ UNCHANGED <<page, known, box, sought, found_trips, search_error, panel, showing, tries, pending, changes, strayed>>
PlanEnds ==
  \E trip \in Mine :
    /\ trips[trip].status = "planning" /\ changes < MaxChanges /\ changes' = changes + 1
    /\ \/ \E plan \in Plans : trips' = [trips EXCEPT ![trip] = [status |-> "completed", plan |-> <<plan>>, embedded |-> FALSE]]
       \/ trips' = [trips EXCEPT ![trip].status = IF trips[trip].plan = NoPlanYet THEN "failed" ELSE "completed"]
    /\ UNCHANGED <<page, known, box, sought, found_trips, search_error, panel, showing, tries, pending, strayed>>
Embed ==
  \E trip \in Mine :
    /\ trips[trip].plan # NoPlanYet /\ ~trips[trip].embedded
    /\ trips' = [trips EXCEPT ![trip].embedded = TRUE]
    /\ UNCHANGED <<page, known, box, sought, found_trips, search_error, panel, showing, tries, pending, changes, strayed>>

----------------------------------------------------------------------------
(* The box.                                                                *)

ShowAllTrips == box' = "" /\ found_trips' = <<>> /\ search_error' = FALSE
Type ==
  /\ page = "trips"
  /\ \/ \E query \in Queries : query # box /\ box' = query /\ UNCHANGED <<found_trips, search_error>>
     \/ box # "" /\ ShowAllTrips
  /\ strayed' = (sought # "" \/ strayed)
  /\ UNCHANGED <<page, trips, known, sought, panel, showing, tries, pending, changes>>

\* handleSearch: one at a time.
Search ==
  /\ page = "trips" /\ sought = "" /\ box # "" /\ sought' = box /\ search_error' = FALSE /\ strayed' = FALSE
  /\ UNCHANGED <<page, trips, known, box, found_trips, panel, showing, tries, pending, changes>>

\* search_my_trips: a query is embedded once a day; one that cannot be is no answer.
Answer ==
  /\ sought # "" /\ sought' = ""
  /\ \/ /\ found_trips' = <<[query |-> sought, matches |-> AsMatches(Typed(sought), BestMatches(Typed(sought), NearestTrips(Typed(sought), SEARCH_LIMIT, 0, {})))]>>
        /\ known' \in {known, known \cup {sought}} /\ UNCHANGED search_error
     \/ sought \notin known /\ search_error' = TRUE /\ UNCHANGED <<found_trips, known>>
  /\ UNCHANGED <<page, trips, box, panel, showing, tries, pending, changes, strayed>>

----------------------------------------------------------------------------
(* The panel of similar trips.                                             *)

\* The page shows the trip's latest plan: the panel asks for what is like it.
PlanShown ==
  /\ page = "trip" /\ trips[THIS].plan # NoPlanYet /\ panel # trips[THIS].plan
  /\ panel' = trips[THIS].plan /\ tries' = 0 /\ pending' = TRUE
  /\ UNCHANGED <<page, trips, known, box, sought, found_trips, search_error, showing, changes, strayed>>

\* get_similar_trips: pending while the plan's own summary is not there; asked again a few times.
Similar ==
  /\ pending
  /\ \/ /\ trips[THIS].embedded /\ pending' = FALSE /\ UNCHANGED tries
        /\ showing' = FirstOf(AsMatches(Summary(trips[THIS].plan[1]), NearestTrips(Summary(trips[THIS].plan[1]), 5, SIMILAR_FLOOR, {THIS})), SHOWN)
     \/ ~trips[THIS].embedded /\ tries < RETRIES /\ tries' = tries + 1 /\ UNCHANGED <<showing, pending>>
     \/ ~trips[THIS].embedded /\ tries = RETRIES /\ showing' = <<>> /\ pending' = FALSE /\ UNCHANGED tries
     \/ showing' = <<>> /\ pending' = FALSE /\ UNCHANGED tries
  /\ UNCHANGED <<page, trips, known, box, sought, found_trips, search_error, panel, changes, strayed>>

SearchPageNext == PlanStarts \/ PlanEnds \/ Embed \/ Type \/ Search \/ Answer \/ PlanShown \/ Similar

----------------------------------------------------------------------------
Descending(matches) == \A i, j \in DOMAIN matches : i < j => matches[i].similarity >= matches[j].similarity
\* What is found is one's own, each trip once, by the plan it has (had, if it was changed since); the
\* nearest first, close to the best of them, and nothing nearer is left out; what the page shows is
\* what its box was searched for, unless the box was changed while the search was on its way.
FoundTrue ==
  /\ \A found \in ToSet(found_trips) :
       /\ Descending(found.matches)
       /\ \A i, j \in DOMAIN found.matches : i # j => found.matches[i].trip # found.matches[j].trip
       /\ \A match \in ToSet(found.matches) :
            /\ match.trip \in Mine /\ match.similarity >= SEARCH_FLOOR
            /\ match.similarity >= found.matches[1].similarity - SEARCH_WINDOW
            /\ match.highlight = "none" \/ \E stop \in ToSet(match.plan.stops) :
                 /\ stop.name = match.highlight /\ stop.name # FREE_TIME
                 /\ \A other \in ToSet(match.plan.stops) : other.name # FREE_TIME => other.rating <= stop.rating
       /\ changes = 0 =>
            \A trip \in Mine : (Embedded(trip) /\ trip \notin {match.trip : match \in ToSet(found.matches)}) =>
              \/ Similarity(Typed(found.query), trip) < SEARCH_FLOOR
              \/ Len(found.matches) = SEARCH_LIMIT
              \/ found.matches # <<>> /\ Similarity(Typed(found.query), trip) < found.matches[1].similarity - SEARCH_WINDOW
  /\ box = "" /\ ~strayed => found_trips = <<>> /\ ~search_error

\* The panel shows other trips than its own, alike enough and the most alike first, of the plan on
\* screen or, while that plan's summary is still to come, of the one before.
SimilarTrue ==
  /\ Descending(showing) /\ Len(showing) <= SHOWN
  /\ \A match \in ToSet(showing) :
       /\ match.trip \in Mine \ {THIS} /\ match.similarity >= SIMILAR_FLOOR
       /\ ~pending /\ panel = trips[THIS].plan => match.similarity = Close(Summary(panel[1]), Summary(match.plan))
=============================================================================
