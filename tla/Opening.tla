------------------------------ MODULE Opening ------------------------------
(***************************************************************************)
(* What a trip's searches are asked with: the cache is warmed with them    *)
(* while the trip is being created (warming.py), and planning makes them   *)
(* from what it has read: the trip in English, the fields found in the     *)
(* request (intent_parsing_node), the saved preferences                    *)
(* (apply_preferences_node), the budget left.  A second pass, a change to  *)
(* the plan, starts from what the first one kept, local tips among it      *)
(* (destination_intelligence.py).                                          *)
(*                                                                         *)
(* Words are model values, days are numbers; "" and 0 are fields not set.  *)
(***************************************************************************)
EXTENDS Integers, Sequences, FiniteSets, SequencesExt

CONSTANTS
  OpenTrips,        \* trips as they are created: [destination, start, finish, size, budget, interests, members]
  English,          \* for each word in another language, its English
  Sentences,        \* the destinations of more than three words
  IntentReplies,    \* what the model may answer of a request: every field, as it comes
  PreferenceSets,   \* what may be saved: [home, style, diet]
  TipReplies,       \* what the model may answer of a place: [is, transport, norms, best]
  LineOf, Folded,   \* a text as one short line ("" for none), and a line without its case
  MAX_TIPS, MAX_BEST_TIMES, MaxStops, MaxPasses

DEFAULT_ORIGIN == "DEL"
DEFAULT_INTERESTS == <<"sightseeing">>
MEMBER_LIMIT == 10
ATTRACTIONS_LIMIT == 10
StyleInterests(style) == IF style = "budget" THEN <<"nature">> ELSE IF style = "luxury" THEN <<"wellness">> ELSE <<>>

WORDS == {"destination", "origin"}
FIELDS == WORDS \cup {"start", "finish", "budget", "size", "interests"}
Asked == [flights : {{}}, hotels : {{}}, attractions : {{}}, weather : {{}}]
NothingAsked == CHOOSE nothing \in Asked : TRUE

VARIABLES
  open_trip,               \* the trip's row
  saved,                   \* the traveller's preferences: one-element sequence, or none
  warmed, warming,         \* the cache entries made, and whether that is still to be done
  pass, node, request,     \* the run: its kind, where it is, whether there is something to read
  trip_state,              \* the orchestrator's state, kept from one run to the next
  asked_for, attempt,      \* the cache entries planning has asked for, its re-plans
  passes, meant            \* (for the properties) runs so far; what has come between the two, and the pass's start

open_vars == <<open_trip, saved, warmed, warming, pass, node, request, trip_state, asked_for, attempt, passes, meant>>

TripState(of) ==
  [destination |-> of.destination, origin |-> "", start |-> of.start, finish |-> of.finish, budget |-> of.budget,
   size |-> of.size, interests |-> of.interests, members |-> of.members,
   prefs |-> <<>>, tips |-> <<>>, unknown |-> FALSE, weather |-> <<>>, remaining |-> of.budget, hotels |-> "skipped"]

Straight(state) == [foreign |-> FALSE, origin |-> FALSE, prefs |-> FALSE, from |-> state, told |-> {}]

OpenInit ==
  /\ open_trip \in OpenTrips /\ saved \in {<<>>} \cup {<<p>> : p \in PreferenceSets}
  /\ warmed = NothingAsked /\ warming = TRUE
  /\ pass = "none" /\ node = "idle" /\ request = FALSE /\ trip_state = TripState(open_trip)
  /\ asked_for = NothingAsked /\ attempt = 0 /\ passes = 0 /\ meant = Straight(trip_state)

----------------------------------------------------------------------------
(* The searches, as functions of the state.                                *)

Nights(state) == IF state.finish > state.start THEN state.finish - state.start ELSE 1
IsFreeText(destination) == destination \in Sentences
Profiles(members) == SelectSeq(members, LAMBDA interests : interests # <<>>)
IsGroup(members) == Len(Profiles(members)) >= 2

FlightKey(state, again) ==
  [origin |-> IF state.origin = "" THEN DEFAULT_ORIGIN ELSE state.origin, destination |-> state.destination,
   start |-> state.start, finish |-> state.finish, size |-> state.size,
   stops |-> IF 1 + again > MaxStops THEN MaxStops ELSE 1 + again]
HotelKey(state) ==
  [destination |-> state.destination, start |-> state.start, finish |-> state.finish, size |-> state.size]
Attractions(state) ==
  IF IsGroup(state.members)
  THEN {[destination |-> state.destination, interests |-> interests, limit |-> MEMBER_LIMIT] :
          interests \in ToSet(Profiles(state.members))}
  ELSE {[destination |-> state.destination, limit |-> ATTRACTIONS_LIMIT,
         interests |-> IF state.interests = <<>> THEN DEFAULT_INTERESTS ELSE state.interests]}
WeatherKey(state) == [destination |-> state.destination, start |-> state.start, finish |-> state.finish]

\* build_preference_updates
Joined(known, new) == FoldLeft(LAMBDA all, one : IF one \in ToSet(all) THEN all ELSE Append(all, one), known, new)
WithPreferences(state, prefs) ==
  LET wanted == IF state.interests = <<>> THEN StyleInterests(prefs.style) ELSE <<>>
  IN [state EXCEPT !.prefs = <<prefs>>,
                   !.origin = IF @ = "" THEN prefs.home ELSE @,
                   !.interests = Joined(@, wanted \o prefs.diet)]
Prepared(state, read) == IF read = <<>> THEN state ELSE WithPreferences(state, read[1])

\* What the traveller has saved, as load_preferences reads it: or nothing, when it cannot be read.
MayRead == {saved, <<>>}

----------------------------------------------------------------------------
(* warm_trip_caches, in the background of POST /trips.                     *)

WarmedWith(read) ==
  LET state == Prepared(TripState(open_trip), read)
  IN [flights |-> {FlightKey(state, 0)}, hotels |-> {HotelKey(state)}, weather |-> {WeatherKey(state)},
      attractions |-> IF open_trip.interests # <<>> \/ IsGroup(open_trip.members) THEN Attractions(state) ELSE {}]
Warm ==
  /\ warming /\ warming' = FALSE
  /\ \E read \in MayRead :
       /\ warmed' = IF IsFreeText(open_trip.destination) THEN NothingAsked ELSE WarmedWith(read)
       /\ meant' = [meant EXCEPT !.prefs = @ \/ read # saved]
  /\ UNCHANGED <<open_trip, saved, pass, node, request, trip_state, asked_for, attempt, passes>>

SavePreferences ==
  /\ passes < 2 /\ saved = <<>>
  /\ \E prefs \in PreferenceSets : saved' = <<prefs>>
  /\ meant' = [meant EXCEPT !.prefs = TRUE]
  /\ UNCHANGED <<open_trip, warmed, warming, pass, node, request, trip_state, asked_for, attempt, passes>>

----------------------------------------------------------------------------
(* A run: POST /plan, /clarify and /refine.                                *)

Ask(kind, state, written) ==
  /\ node = "idle" /\ passes < MaxPasses /\ (passes > 0 => ~warming)
  /\ pass' = kind /\ node' = "language" /\ request' = written /\ passes' = passes + 1 /\ attempt' = 0
  /\ trip_state' = state
  /\ meant' = IF passes = 0 THEN [meant EXCEPT !.from = state] ELSE Straight(state)
  /\ asked_for' = NothingAsked
  /\ warmed' = IF passes = 0 THEN warmed ELSE NothingAsked    \* they have expired by then
  /\ UNCHANGED <<open_trip, saved, warming>>

\* Nothing written and no interests to plan from: the traveller is asked instead.
AskPlan ==
  \E written \in BOOLEAN :
    /\ passes = 0 /\ (written \/ open_trip.interests # <<>>)
    /\ Ask("plan", TripState(open_trip), written)

\* The fields an earlier run resolved come before the trip's own.
Fields(state) ==
  [TripState(state) EXCEPT !.origin = state.origin]
AskClarify == passes > 0 /\ Ask("clarify", Fields(trip_state), TRUE)

LongerBy(state) == [Fields(state) EXCEPT !.finish = @ + 1, !.tips = state.tips, !.unknown = state.unknown]
AskRefine ==
  /\ passes > 0
  /\ \/ Ask("full_replan", Fields(trip_state), TRUE)
     \/ Ask("add_day", LongerBy(trip_state), FALSE)
     \/ Ask("targeted", trip_state, TRUE)

InEnglish(text) == IF text \in DOMAIN English THEN English[text] ELSE text
AllInEnglish(texts) == [i \in DOMAIN texts |-> InEnglish(texts[i])]
Foreign(state) ==
  \E text \in {state.destination} \cup ToSet(state.interests) \cup UNION {ToSet(m) : m \in ToSet(state.members)} :
    text \in DOMAIN English

\* language_node; a translation that fails leaves the text as it was typed.
ReadInEnglish ==
  /\ node = "language" /\ node' = IF pass = "targeted" THEN "change" ELSE "intent"
  /\ \E translated \in BOOLEAN :
       /\ translated => Foreign(trip_state)
       /\ trip_state' = IF ~translated THEN trip_state
                        ELSE [trip_state EXCEPT !.destination = InEnglish(@), !.interests = AllInEnglish(@),
                                                !.members = [m \in DOMAIN @ |-> AllInEnglish(@[m])]]
       /\ meant' = [meant EXCEPT !.foreign = @ \/ translated, !.from = trip_state']
  /\ UNCHANGED <<open_trip, saved, warmed, warming, pass, request, asked_for, attempt, passes>>

\* _clean_intent: a field of another type, a blank word, a number that is not positive is not there.
Wordings(interests) == SelectSeq(interests, LAMBDA interest : interest # "")
Unset(of, field) ==
  CASE field = "interests" -> Wordings(of.interests) = <<>>
    [] field \in WORDS -> of[field] = ""
    [] OTHER -> of[field] <= 0

Extracted(reply) ==
  {field \in FIELDS :
     /\ ~Unset(reply, field)
     /\ \/ pass = "full_replan" \/ Unset(trip_state, field)
        \/ field = "destination" /\ IsFreeText(trip_state.destination)}
\* A start that moves takes the end with it.
WithIntent(state, reply, got) ==
  LET Of(field) == IF field \in got THEN reply[field] ELSE state[field]
  IN [state EXCEPT !.destination = Of("destination"), !.origin = Of("origin"), !.start = Of("start"),
                   !.budget = Of("budget"), !.size = Of("size"),
                   !.interests = IF "interests" \in got THEN Wordings(reply.interests) ELSE @,
                   !.finish = IF "finish" \in got THEN reply.finish
                              ELSE IF "start" \in got THEN @ + reply.start - state.start ELSE @]

\* intent_parsing_node: the request, and a destination that is one; a model that fails is no matter.
ParseIntent ==
  /\ node = "intent" /\ node' = "preferences"
  /\ \/ /\ request \/ IsFreeText(trip_state.destination)
        /\ \E reply \in IntentReplies :
             \E got \in {Extracted(reply)} :
               /\ trip_state' = WithIntent(trip_state, reply, got)
               /\ meant' = [meant EXCEPT !.origin = @ \/ "origin" \in got,
                                         !.told = {field \in FIELDS : ~Unset(reply, field)}]
     \/ UNCHANGED <<trip_state, meant>>
  /\ UNCHANGED <<open_trip, saved, warmed, warming, pass, request, asked_for, attempt, passes>>

ApplyPreferences ==
  /\ node = "preferences" /\ node' = "flights"
  /\ \E read \in MayRead :
       /\ trip_state' = Prepared(trip_state, read)
       /\ meant' = [meant EXCEPT !.prefs = @ \/ read # saved]
  /\ UNCHANGED <<open_trip, saved, warmed, warming, pass, request, asked_for, attempt, passes>>

\* run_flight_node, and the budget check after it: search again, go on with what is left, or stop.
SearchFlights ==
  /\ node = "flights"
  /\ asked_for' = [asked_for EXCEPT !.flights = @ \cup {FlightKey(trip_state, attempt)}]
  /\ \/ attempt < 2 /\ attempt' = attempt + 1 /\ UNCHANGED <<node, trip_state>>
     \/ /\ node' = "rest" /\ UNCHANGED attempt
        /\ \E left \in {0, trip_state.budget \div 2} : trip_state' = [trip_state EXCEPT !.remaining = left]
     \/ node' = "idle" /\ UNCHANGED <<attempt, trip_state>>
  /\ UNCHANGED <<open_trip, saved, warmed, warming, pass, request, passes, meant>>

----------------------------------------------------------------------------
(* Local tips: the model's reply, made safe.                               *)

TipsOf(value) ==
  LET Known(kept, line) == \E other \in ToSet(kept) : Folded[other] = Folded[line]
      all == FoldLeft(LAMBDA kept, raw : IF LineOf[raw] = "" \/ Known(kept, LineOf[raw]) THEN kept
                                         ELSE Append(kept, LineOf[raw]), <<>>, value)
  IN SubSeq(all, 1, IF Len(all) > MAX_TIPS THEN MAX_TIPS ELSE Len(all))
BestTimes(pairs) ==
  LET Names(kept) == {one[1] : one \in ToSet(kept)}
      Keep(kept, pair) ==
        LET name == LineOf[pair[1]]
            advice == LineOf[pair[2]]
        IN IF name = "" \/ advice = "" \/ Len(kept) >= MAX_BEST_TIMES \/ name \in Names(kept) THEN kept
           ELSE Append(kept, <<name, advice>>)
  IN FoldLeft(Keep, <<>>, pairs)
\* coerce_intelligence: none when nothing usable is left.
Coerced(reply, place) ==
  LET made == [place |-> place, transport |-> LineOf[reply.transport], norms |-> TipsOf(reply.norms), best |-> BestTimes(reply.best)]
  IN IF made.transport = "" /\ made.norms = <<>> /\ made.best = <<>> THEN <<>> ELSE <<made>>
\* gather_intelligence: a reply in JSON, that the place is not known, or no usable reply at all.
Gathered(state, reply) ==
  CASE reply.is = "json" -> [state EXCEPT !.tips = Coerced(reply, state.destination), !.unknown = FALSE]
    [] reply.is = "unknown" -> [state EXCEPT !.tips = <<>>, !.unknown = TRUE]
    [] OTHER -> [state EXCEPT !.tips = <<>>, !.unknown = FALSE]
WantsLocalTips(state) == state.tips = <<>> /\ ~state.unknown
LocalTips(state) == IF WantsLocalTips(state) THEN {Gathered(state, reply) : reply \in TipReplies} ELSE {state}

----------------------------------------------------------------------------
(* The other searches.                                                     *)

\* HotelAgent: without a nightly budget it asks for one, which here is a search that failed for good.
HotelsAsked(state) == IF state.remaining \div Nights(state) = 0 THEN {} ELSE {HotelKey(state)}
HotelStatus(state) == IF HotelsAsked(state) = {} THEN {"MISSING_INPUT"} ELSE {"completed", "RATE_LIMITED"}
Weathers(state) == IF state.weather # <<>> THEN {state.weather} ELSE {<<>>, <<WeatherKey(state)>>}

\* hotel_activities_node: the hotels, the places, the tips and the weather at once; then the plan.
SearchRest ==
  /\ node = "rest" /\ node' = "idle"
  /\ asked_for' = [asked_for EXCEPT !.hotels = @ \cup HotelsAsked(trip_state), !.attractions = @ \cup Attractions(trip_state),
                                    !.weather = @ \cup IF trip_state.weather = <<>> THEN {WeatherKey(trip_state)} ELSE {}]
  /\ \E tipped \in LocalTips(trip_state), weather \in Weathers(trip_state), status \in HotelStatus(trip_state) :
       trip_state' = [tipped EXCEPT !.weather = weather, !.hotels = status]
  /\ UNCHANGED <<open_trip, saved, warmed, warming, pass, request, attempt, passes, meant>>

\* _rerun_search: one search, and the tips of a plan that has none.
SearchAgain ==
  /\ node = "change" /\ node' = "idle"
  /\ \E tipped \in LocalTips(trip_state) :
       \/ /\ trip_state' = tipped
          /\ asked_for' = [asked_for EXCEPT !.flights = @ \cup {FlightKey(trip_state, 0)}]
       \/ \E status \in HotelStatus(trip_state) :
            /\ trip_state' = [tipped EXCEPT !.hotels = status]
            /\ asked_for' = [asked_for EXCEPT !.hotels = @ \cup HotelsAsked(trip_state)]
       \/ \E wish \in {trip_state.interests} \cup ({Wordings(reply.interests) : reply \in IntentReplies} \ {<<>>}) :
            \E state \in {[tipped EXCEPT !.interests = wish]} :
              /\ trip_state' = state
              /\ asked_for' = [asked_for EXCEPT !.attractions =
                                 @ \cup IF wish = trip_state.interests THEN Attractions(state)
                                        ELSE Attractions([state EXCEPT !.members = <<>>])]
  /\ UNCHANGED <<open_trip, saved, warmed, warming, pass, request, attempt, passes, meant>>

OpenNext ==
  \/ Warm \/ SavePreferences \/ AskPlan \/ AskClarify \/ AskRefine
  \/ ReadInEnglish \/ ParseIntent \/ ApplyPreferences \/ SearchFlights \/ SearchRest \/ SearchAgain

----------------------------------------------------------------------------
\* What is warmed is what planning asks for, and nothing else: unless what was typed had to be put
\* into English first, the request says where the trip starts from, or the preferences that were read
\* are not the same ones; a destination that is a request is not warmed at all.
WarmedIsAsked ==
  (passes = 1 /\ node \in {"idle", "rest"} /\ ~warming) =>
    LET settled == ~meant.foreign /\ ~meant.prefs
        planned == node = "idle" /\ asked_for.weather # {}
    IN IF IsFreeText(open_trip.destination) THEN warmed = NothingAsked
       ELSE /\ settled /\ ~meant.origin => warmed.flights \subseteq asked_for.flights
            /\ ~meant.foreign /\ planned =>
                 /\ asked_for.hotels \subseteq warmed.hotels /\ asked_for.weather = warmed.weather
                 /\ asked_for.hotels = {} => trip_state.hotels = "MISSING_INPUT"
            /\ settled /\ planned /\ warmed.attractions # {} => asked_for.attractions = warmed.attractions

\* A plan is made of what the traveller set: a request fills in only what is not set, unless it is a
\* change to the whole plan or the destination was a request itself; a trip that is moved keeps its
\* length; preferences add to what was asked for and take nothing from it.
SetFieldsStand ==
  (node \in {"preferences", "flights", "rest"} /\ pass # "targeted") =>
    LET before == meant.from
        kept == pass # "full_replan"
    IN /\ kept => /\ trip_state.start = before.start /\ trip_state.finish = before.finish
                  /\ trip_state.budget = before.budget /\ trip_state.size = before.size
                  /\ IsFreeText(before.destination) \/ trip_state.destination = before.destination
                  /\ before.origin # "" => trip_state.origin = before.origin
                  /\ IsPrefix(before.interests, trip_state.interests)
       /\ "finish" \notin meant.told => trip_state.finish - trip_state.start = before.finish - before.start

\* A place, its name as it was typed, and a request that is read again for the place in it.
SamePlace(one, other) == InEnglish(one) = InEnglish(other) \/ IsFreeText(one)
\* Tips and weather are of the trip's own place and days, whatever was changed since they were had;
\* tips are few, and none is there twice.
TipsAndWeatherOfTheTrip ==
  /\ \A tips \in ToSet(trip_state.tips) :
       /\ Len(tips.norms) <= MAX_TIPS /\ Len(tips.best) <= MAX_BEST_TIMES
       /\ \A i, j \in DOMAIN tips.norms : i # j => Folded[tips.norms[i]] # Folded[tips.norms[j]]
       /\ \A i, j \in DOMAIN tips.best : i # j => tips.best[i][1] # tips.best[j][1]
       /\ node \in {"rest", "idle"} => SamePlace(tips.place, trip_state.destination)
  /\ \A weather \in ToSet(trip_state.weather) :
       node \in {"rest", "idle"} =>
         /\ SamePlace(weather.destination, trip_state.destination)
         /\ weather.start = trip_state.start /\ weather.finish = trip_state.finish
=============================================================================
