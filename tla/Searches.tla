------------------------------ MODULE Searches ------------------------------
(***************************************************************************)
(* What the tool server makes of the providers' answers (tools.py), and    *)
(* what travellers after each other get of the one it keeps: the cheapest  *)
(* flights and hotels within a budget, the places to see of several        *)
(* interests, and a trip's weather.  How threads meet at the cache is      *)
(* ToolServer's: here one search follows the other.                        *)
(*                                                                         *)
(* Everything is about one destination, its days and its guests.  What is  *)
(* asked for is "direct" or "connecting" flights, a "stay", or, by its     *)
(* interests and limit, the places to see.                                 *)
(***************************************************************************)
EXTENDS Integers, Sequences, FiniteSets, SequencesExt, TLC

CONSTANTS
  MAX_RESULTS,        \* MAX_FLIGHT_RESULTS and MAX_HOTEL_RESULTS
  Markets,            \* what the providers may have: of each kind a sequence of [airline, price]
  Budgets, Airlines,  \* what travellers may have to spend, and the airlines they may prefer
  PlaceNames,         \* what the map may know by the destination's name: [home, world], best first
  Sights,             \* what there is to see: for each kind of place a sequence of [name, rate], nearest first
  KindOf, Wishes,     \* an interest's kind of place; the searches for places: [interests, limit]
  Skies, TripDays     \* forecasts: sequences of [day, daytime, main]; the trips, by their days from today

NoPrice == -1         \* a currency with no rate
Unnamed == ""
NoKind == "no kind"   \* the provider lists no places of this kind
WET_CONDITIONS == <<"Thunderstorm", "Rain", "Drizzle">>
WET_READINGS == 2
FORECAST_REACHES == 4 \* days_until_start <= 4
WELL_KNOWN == 2
ANY_RATED == 1

VARIABLES
  market, name, sights, sky,  \* what the providers have
  shelf,     \* Redis: [key, kept, from], from what the provider had when it answered
  served,    \* the latest search, and what it was answered
  wasted     \* (for the property) a provider was asked for what was kept

search_vars == <<market, name, sights, sky, shelf, served, wasted>>

Nothing == [what |-> "nothing"]
SearchInit ==
  /\ market \in Markets /\ name \in PlaceNames /\ sights \in Sights /\ sky \in Skies
  /\ shelf = {} /\ served = Nothing /\ wasted = FALSE

----------------------------------------------------------------------------
(* Flights and hotels: the cheapest of all are kept, whatever the budget.  *)

First(n, list) == SubSeq(list, 1, IF n < Len(list) THEN n ELSE Len(list))
CheapestFirst(offers) ==
  LET dearer(i, j) == offers[i].price < offers[j].price \/ (offers[i].price = offers[j].price /\ i < j)
      order == SortSeq([i \in DOMAIN offers |-> i], dearer)
  IN [i \in DOMAIN offers |-> offers[order[i]]]
Priced(offers) == SelectSeq(offers, LAMBDA offer : offer.price # NoPrice)
Within(offers, budget) == SelectSeq(offers, LAMBDA offer : offer.price <= budget)
Cheapest(offers) == IF offers = <<>> THEN NoPrice ELSE CheapestFirst(offers)[1].price

\* Mutation: what is kept is what the first traveller could pay.
OnlyAffordable(offers, budget) == First(MAX_RESULTS, CheapestFirst(Within(Priced(offers), budget)))
offers_kept(offers, budget) == First(MAX_RESULTS, CheapestFirst(Priced(offers)))

\* What a search is kept under: what the provider is asked, and not the budget.
cache_key(what, budget) == <<what>>
Held(key) == {entry \in shelf : entry.key = key}
HeldFor(what) == {entry \in shelf : entry.key[1] = what}

FromShelf(what, budget, Serve(_, _)) ==
  /\ \E entry \in Held(cache_key(what, budget)) : served' = Serve(entry.kept, entry.from)
  /\ UNCHANGED <<shelf, wasted>>

\* What the provider answers is kept if there is anything in it and the cache takes it; a cache that
\* cannot be read is asked in vain.
FromProvider(what, budget, offers, Serve(_, _)) ==
  LET key == cache_key(what, budget)
      fresh == offers_kept(offers, budget)
  IN \E unread \in BOOLEAN, stored \in BOOLEAN :
       /\ ~unread => Held(key) = {}
       /\ served' = Serve(fresh, offers)
       /\ wasted' = (wasted \/ (~unread /\ HeldFor(what) # {}))
       /\ shelf' = IF stored /\ fresh # <<>>
                   THEN (shelf \ Held(key)) \cup {[key |-> key, kept |-> fresh, from |-> offers]} ELSE shelf

\* A soft preference: the preferred airlines first, in order of price among themselves.
Preferring(offers, airlines) ==
  SelectSeq(offers, LAMBDA offer : offer.airline \in airlines) \o SelectSeq(offers, LAMBDA offer : offer.airline \notin airlines)

Failed(what, code) == [what |-> what, code |-> code]
ProviderFails(what) ==
  /\ \E code \in {"RATE_LIMITED", "PROVIDER_ERROR"} : served' = Failed(what, code)
  /\ UNCHANGED <<shelf, wasted>>

OfferFlights(what, budget, airlines) ==
  /\ LET serve(kept, from) ==
           [what |-> what, budget |-> budget, airlines |-> airlines, from |-> from, cheapest |-> Cheapest(kept),
            offers |-> Preferring(Within(kept, budget), airlines)]
     IN FromShelf(what, budget, serve) \/ FromProvider(what, budget, market[what], serve) \/ ProviderFails(what)
  /\ UNCHANGED <<market, name, sights, sky>>

----------------------------------------------------------------------------
(* Which place a name means.  A match is [settled, natural, fame, home].   *)

best_place(matches) ==
  LET settled == SelectSeq(matches, LAMBDA match : match.settled)
      natural == SelectSeq(matches, LAMBDA match : match.natural)
  IN First(1, settled \o natural)
fame(place) == IF place = <<>> THEN 0 ELSE place[1].fame

lookup_place ==
  LET local == best_place(name.home)
      best == best_place(name.world)
      abroad == best # <<>> /\ ~best[1].home
  IN IF fame(local) >= 3 THEN "here"
     ELSE IF abroad /\ fame(best) >= fame(local) + 2 THEN "outside"
     ELSE IF local # <<>> \/ (best # <<>> /\ ~abroad) \/ name.home # <<>> THEN "here"
     ELSE "unknown"

\* The hotels of the city; of a name that is no city's those around the place it means.
OfferHotels(budget) ==
  /\ LET serve(kept, from) ==
           [what |-> "stay", budget |-> budget, airlines |-> {}, from |-> from, cheapest |-> Cheapest(kept),
            offers |-> Within(kept, budget)]
         in_the_city == Priced(market["stay"]) # <<>>
     IN \/ FromShelf("stay", budget, serve) \/ ProviderFails("stay")
        \/ in_the_city /\ FromProvider("stay", budget, market["stay"], serve)
        \/ ~in_the_city /\ lookup_place = "here" /\ FromProvider("stay", budget, market["around"], serve)
        \/ /\ ~in_the_city /\ lookup_place # "here"
           /\ served' = Failed("stay", IF lookup_place = "outside" THEN "OUTSIDE_COVERAGE" ELSE "NOT_FOUND")
           /\ UNCHANGED <<shelf, wasted>>
  /\ UNCHANGED <<market, name, sights, sky>>

----------------------------------------------------------------------------
(* The places to see: one search for each kind of place asked for.         *)

kinds(wish) ==
  FoldLeft(LAMBDA known, interest : IF KindOf[interest] \in ToSet(known) \cup {NoKind} THEN known
                                    ELSE Append(known, KindOf[interest]), <<>>, wish.interests)

places_near(kind, limit, rate) ==
  LET answer == First(limit, SelectSeq(sights[kind], LAMBDA place : place.rate >= rate))
  IN FoldLeft(LAMBDA seen, place : IF place.name \in ToSet(seen) \cup {Unnamed} THEN seen
                                   ELSE Append(seen, place.name), <<>>, answer)

\* The well-known ones, filled up with the lesser-known.
Found(kind, per_search) ==
  LET places == places_near(kind, per_search, WELL_KNOWN)
      more == places_near(kind, per_search + Len(places), ANY_RATED)
      others == SelectSeq(more, LAMBDA place : place \notin ToSet(places))
  IN places \o First(per_search - Len(places), others)

per_search(wish) == LET n == Len(kinds(wish)) IN (wish.limit + n - 1) \div n
AllFound(wish) == [k \in DOMAIN kinds(wish) |-> Found(kinds(wish)[k], per_search(wish))]
\* What each search added: a place is in the column of the first that found it.
columns(found) ==
  [k \in DOMAIN found |-> SelectSeq(found[k], LAMBDA place : \A j \in 1..(k - 1) : place \notin ToSet(found[j]))]
in_turns(cols) ==
  LET longest == CHOOSE n \in {Len(cols[k]) : k \in DOMAIN cols} : \A k \in DOMAIN cols : Len(cols[k]) <= n
      row(r) == FlattenSeq([k \in DOMAIN cols |-> IF Len(cols[k]) >= r THEN <<cols[k][r]>> ELSE <<>>])
  IN FlattenSeq([r \in 1..longest |-> row(r)])

GetAttractions(wish) ==
  /\ LET found == AllFound(wish)
         suits(place) == {interest \in ToSet(wish.interests) :
                            \E k \in DOMAIN found : KindOf[interest] = kinds(wish)[k] /\ place \in ToSet(found[k])}
         places == First(wish.limit, in_turns(columns(found)))
     IN served' =
          IF kinds(wish) = <<>> \/ (lookup_place = "here" /\ places = <<>>) THEN Failed("sights", "NO_RESULTS")
          ELSE IF lookup_place # "here"
          THEN Failed("sights", IF lookup_place = "outside" THEN "OUTSIDE_COVERAGE" ELSE "NOT_FOUND")
          ELSE [what |-> "sights", wish |-> wish, found |-> found, code |-> "found",
                places |-> [i \in DOMAIN places |-> [name |-> places[i], suits |-> suits(places[i])]]]
  /\ UNCHANGED <<market, name, sights, sky, shelf, wasted>>

----------------------------------------------------------------------------
(* The weather: the forecast for the days it reaches, the climate for the  *)
(* rest, if the destination's is known.                                    *)

owm_day(readings) ==
  LET byday == SelectSeq(readings, LAMBDA r : r.daytime)
      daytime == IF byday # <<>> THEN byday ELSE readings
      count(main) == Len(SelectSeq(daytime, LAMBDA r : r.main = main))
      wet == SelectSeq(daytime, LAMBDA r : r.main \in ToSet(WET_CONDITIONS))
      \* the commonest, the earliest of a tie
      commonest == CHOOSE i \in DOMAIN daytime :
                     /\ \A j \in DOMAIN daytime : count(daytime[j].main) <= count(daytime[i].main)
                     /\ \A j \in 1..(i - 1) : count(daytime[j].main) < count(daytime[i].main)
  IN IF Len(wet) >= WET_READINGS
     THEN SelectSeq(WET_CONDITIONS, LAMBDA main : count(main) > 0)[1] ELSE daytime[commonest].main

get_weather(days, climate) ==
  LET reached == IF days[1] <= FORECAST_REACHES THEN {sky[i].day : i \in DOMAIN sky} ELSE {}
      entry(day) ==
        IF day \in reached
        THEN <<[day |-> day, main |-> owm_day(SelectSeq(sky, LAMBDA r : r.day = day)), source |-> "forecast"]>>
        ELSE IF climate THEN <<[day |-> day, main |-> "climate", source |-> "climate"]>> ELSE <<>>
  IN FlattenSeq([i \in DOMAIN days |-> entry(days[i])])

GetWeather(days, climate) ==
  /\ served' = [what |-> "weather", days |-> days, climate |-> climate, entries |-> get_weather(days, climate)]
  /\ UNCHANGED <<market, name, sights, sky, shelf, wasted>>

----------------------------------------------------------------------------
MarketMoves == market' \in Markets \ {market} /\ UNCHANGED <<name, sights, sky, shelf, served, wasted>>
KeptExpires == \E entry \in shelf : shelf' = shelf \ {entry} /\ UNCHANGED <<market, name, sights, sky, served, wasted>>

\* Flights and hotels, one traveller after another.
OffersNext ==
  \/ \E what \in {"direct", "connecting"}, budget \in Budgets, airlines \in SUBSET Airlines :
       OfferFlights(what, budget, airlines)
  \/ \E budget \in Budgets : OfferHotels(budget)
  \/ MarketMoves \/ KeptExpires
\* What is answered to these depends on no search before them: the first step of a behaviour will do.
SearchNext ==
  \/ OffersNext
  \/ /\ served = Nothing
     /\ \/ \E wish \in Wishes : GetAttractions(wish)
        \/ \E days \in TripDays, climate \in BOOLEAN : GetWeather(days, climate)

----------------------------------------------------------------------------
SearchTypeOK ==
  /\ market \in Markets /\ name \in PlaceNames /\ sights \in Sights /\ sky \in Skies /\ wasted \in BOOLEAN
  /\ \A entry \in shelf : entry.key[1] \in {"direct", "connecting", "stay"} /\ Len(entry.kept) \in 1..MAX_RESULTS
  /\ \A one, other \in shelf : one.key = other.key => one = other

\* Whoever asked before and with whatever budget, a traveller is shown the cheapest of what the
\* provider had within this budget, the preferred airlines first and each group by price; and is
\* told that there is nothing only when there is not, with the price of the cheapest there is.  The
\* provider is asked once for all budgets.
CheapestWithinBudget ==
  /\ ~wasted
  /\ served.what \in {"direct", "connecting", "stay"} /\ "offers" \in DOMAIN served =>
       LET affordable == Within(Priced(served.from), served.budget)
           shown == served.offers
           preferred(offer) == offer.airline \in served.airlines
       IN /\ Len(shown) = IF Len(affordable) < MAX_RESULTS THEN Len(affordable) ELSE MAX_RESULTS
          /\ ToSet(shown) \subseteq ToSet(affordable)
          /\ \A offer \in ToSet(affordable) \ ToSet(shown) : \A i \in DOMAIN shown : shown[i].price <= offer.price
          /\ \A i, j \in DOMAIN shown : i < j =>
               IF preferred(shown[i]) = preferred(shown[j]) THEN shown[i].price <= shown[j].price ELSE preferred(shown[i])
          /\ shown = <<>> => served.cheapest = Cheapest(Priced(served.from))

\* The places to see are as many as were found, up to the limit, none of them twice; the cut falls on
\* all searches alike, so that none gives two more than another that had more to give; and each says
\* every interest it was found under, whichever search found it first.
CutFallsOnAllAlike ==
  served.what = "sights" /\ served.code = "found" =>
    LET found == served.found
        shown == {served.places[i].name : i \in DOMAIN served.places}
        everything == UNION {ToSet(found[k]) : k \in DOMAIN found}
        column(k) == ToSet(found[k]) \ UNION {ToSet(found[j]) : j \in 1..(k - 1)}
        given(k) == Cardinality(column(k) \cap shown)
    IN /\ Cardinality(shown) = Len(served.places) /\ shown \subseteq everything
       /\ Len(served.places) = LET n == Cardinality(everything) IN IF n < served.wish.limit THEN n ELSE served.wish.limit
       /\ \A k, j \in DOMAIN found : given(k) > given(j) + 1 => column(j) \subseteq shown
       /\ \A i \in DOMAIN served.places, k \in DOMAIN found :
            served.places[i].name \in ToSet(found[k]) =>
              \E interest \in served.places[i].suits : KindOf[interest] = kinds(served.wish)[k]

\* The weather has an entry for each of the trip's days and for no other, in order, and the forecast's
\* wherever it reaches: only the days of a place whose climate nobody knows are left out.  A day with
\* two wet readings by daylight is a wet one.
WeatherOfTheTrip ==
  served.what = "weather" =>
    LET entries == served.entries
        reached == {sky[i].day : i \in DOMAIN sky}
        wet(day) == {i \in DOMAIN sky : sky[i].day = day /\ sky[i].daytime /\ sky[i].main \in ToSet(WET_CONDITIONS)}
    IN /\ \A i, j \in DOMAIN entries : i < j => entries[i].day < entries[j].day
       /\ {entries[i].day : i \in DOMAIN entries} \subseteq ToSet(served.days)
       /\ served.climate => Len(entries) = Len(served.days)
       /\ \A i \in DOMAIN entries : entries[i].source = "forecast" =>
            /\ entries[i].day \in reached
            /\ Cardinality(wet(entries[i].day)) >= 2 => entries[i].main \in ToSet(WET_CONDITIONS)
       /\ served.days[1] <= FORECAST_REACHES => \A day \in ToSet(served.days) \cap reached :
            \E i \in DOMAIN entries : entries[i].day = day /\ entries[i].source = "forecast"

SearchesHold == CheapestWithinBudget /\ CutFallsOnAllAlike /\ WeatherOfTheTrip
=============================================================================
