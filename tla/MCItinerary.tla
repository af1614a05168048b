---------------------------- MODULE MCItinerary ----------------------------
(***************************************************************************)
(* What is found for a trip (Searches), how its budget conflict is settled *)
(* (BudgetConflict), how its plan is written (Itinerary) and in which      *)
(* language (Language), how a trip begins and what the trip page makes of  *)
(* it (MCPages), over the trips, offers and requests below.  A             *)
(* behaviour is of one of them: a pass begins with what was found and a    *)
(* settled budget leaves, and its own trips say what that is.              *)
(***************************************************************************)
EXTENDS Itinerary, BudgetConflict, Searches, MCPages

Place(called, category, km, popularity, interests) ==
  [name |-> called, category |-> category, km |-> km, popularity |-> popularity, interests |-> interests]
fort   == Place("fort", "history", 3, 7, {"history"})
museum == Place("museum", "museum", 5, 3, {"history"})
beach  == Place("beach", "beach", 30, 3, {"beach"})
cove   == Place("cove", "nature", 12, 2, {"beach"})
bazaar == Place("market", "shopping", NOWHERE, 2, {"beach", "history"})
park   == Place("park", "nature", 4, 2, {"history"})
aquarium == Place("aquarium", "museum", 6, 2, {"fish"})
temple == Place("temple", "spiritual", 9, 1, {"faith"})

\* Minutes the travel-time tool answers: for the beach's distances only.
Answered == [km \in 0..60 |-> IF km \in {10, 25, 30} THEN 2 * km ELSE NoAnswer]

ATrip ==
  [n |-> 4, members |-> <<>>, found |-> <<<<fort>>>>, kept |-> <<>>, fares |-> {9000}, hotels |-> ("inn" :> 2000),
   hotel_at |-> 0, forecast |-> (0 :> "sunny"), landing |-> NoTime, asked |-> Answered,
   volatility |-> 20, copies |-> FALSE, open |-> {}, rest |-> <<NONE, NONE, NONE>>,
   dates |-> {<<1, 2, 3, 4>>}, quotes |-> {<<"inn", 2000>>}, offs |-> {0}]

Asha == [name |-> "Asha", interests |-> {"history"}]
Ben  == [name |-> "Ben", interests |-> {"beach"}]
Chitra == [name |-> "Chitra", interests |-> {"faith", "history"}]

\* Two windows with room in them: places are brought in, or over from the other window.
Pair == [ATrip EXCEPT !.members = <<Asha, Ben>>, !.found = <<<<fort, museum>>, <<beach>>>>,
                      !.open = {<<1, 1>>, <<2, 2>>, <<3, 1>>, <<4, 3>>}, !.offs = {0, 450}]
\* Both windows full: a stop has to give way to another.
FullPair == [Pair EXCEPT !.found = <<<<fort, museum>>, <<beach, cove>>>>, !.offs = {0},
                         !.rest = <<"fort", "museum", "fort">>, !.copies = TRUE]
\* Rain on a full day whose last stop is the only one for Ben, with and without the stops
\* saying whom they suit.
WetPair(copies) ==
  [ATrip EXCEPT !.n = 2, !.members = <<Asha, Ben>>, !.found = <<<<fort, park, museum>>, <<beach>>>>,
                !.forecast = (1 :> "rain" @@ 2 :> "clear"), !.open = {<<1, 1>>, <<1, 2>>, <<1, 3>>, <<2, 2>>},
                !.copies = copies, !.dates = {<<1, 2>>}]
\* The group asks for something else: what is found is for none of its members.
Changed == [WetPair(TRUE) EXCEPT !.found = <<<<aquarium>>>>, !.kept = <<fort, beach>>]
Three == [ATrip EXCEPT !.n = 3, !.members = <<Asha, Ben, Chitra>>, !.dates = {<<1, 2, 3>>},
                       !.found = <<<<fort, bazaar>>, <<beach, bazaar>>, <<temple, fort>>>>,
                       !.forecast = (3 :> "rain"), !.open = {<<1, 2>>, <<2, 1>>, <<3, 2>>},
                       !.rest = <<NONE, NONE, "fort">>]
\* One traveller who lands late, a plan that may be wrong in every way the evaluator looks for.
Late == [ATrip EXCEPT !.n = 2, !.found = <<<<fort, cove, bazaar>>>>, !.landing = 1200,
                      !.open = {<<1, 2>>, <<1, 3>>, <<2, 2>>}, !.rest = <<"cove", NONE, FREE_TIME>>,
                      !.dates = {<<1, 2>>, <<1, 1>>, <<2, 3>>},
                      !.quotes = {<<"inn", 2000>>, <<"inn", 2051>>, <<"lodge", 2000>>},
                      !.offs = {0, 450, 501}]
\* No flights and no hotels: nothing is left when the search for places fails too.
Bare == [ATrip EXCEPT !.fares = {}, !.hotels = [h \in {} |-> 0], !.open = {<<1, 1>>}]

TheTrips == {Pair, FullPair, WetPair(TRUE), WetPair(FALSE), Changed, Three, Late, Bare}

Beach == [start |-> [month |-> 12, day |-> 20], days |-> 4, budget |-> 40000, travellers |-> 2,
          profile |-> "coast"]
Hills == [start |-> [month |-> 5, day |-> 31], days |-> 3, budget |-> 30000, travellers |-> 3,
          profile |-> "hills"]
TheConflictTrips == {Beach, Hills}
\* From within half the budget to more than all of it, dearer without a stop, or none at all.
TheOffers ==
  {<<12000, 12000>>, <<20000, 20000>>, <<22000, 22000>>, <<24000, 24000>>, <<24000, 20000>>,
   <<30000, 24000>>, <<45000, 45000>>, <<0, 0>>}

\* What the providers have at one time and at another: flights of one price, one with no rate, a city
\* with hotels and one with only the hotels around it.
Offered(airline, price) == [airline |-> airline, price |-> price]
TheMarkets ==
  {[direct |-> <<Offered("AI", 9), Offered("6E", 4), Offered("AI", 4), Offered("UK", NoPrice)>>,
    connecting |-> <<Offered("6E", 3), Offered("AI", 9), Offered("6E", 6)>>,
    stay |-> <<>>, around |-> <<Offered("", 5), Offered("", 2)>>],
   [direct |-> <<>>, connecting |-> <<Offered("AI", 8)>>,
    stay |-> <<Offered("", 4), Offered("", 1), Offered("", 7)>>, around |-> <<>>]}
\* A city, a hamlet with a famous namesake abroad, a park, and a name known only abroad.
Match(is_settled, is_natural, renown, at_home) ==
  [settled |-> is_settled, natural |-> is_natural, fame |-> renown, home |-> at_home]
Abroad(renown) == Match(TRUE, FALSE, renown, FALSE)
ThePlaceNames ==
  {[home |-> <<Match(TRUE, FALSE, 4, TRUE)>>, world |-> <<Abroad(9)>>],
   [home |-> <<Match(FALSE, FALSE, 1, TRUE)>>, world |-> <<Abroad(9)>>],
   [home |-> <<Match(FALSE, TRUE, 1, TRUE)>>, world |-> <<>>],
   [home |-> <<>>, world |-> <<Abroad(1)>>]}
\* Places of several kinds, some with no name.
Seen(its_name, rate) == [name |-> its_name, rate |-> rate]
TheSights ==
  {[historic |-> <<Seen("a", 3), Seen("", 2), Seen("b", 1), Seen("c", 2)>>,
    beaches |-> <<Seen("d", 1), Seen("a", 3), Seen("e", 1), Seen("f", 2)>>, natural |-> <<Seen("g", 1)>>],
   [historic |-> <<Seen("h", 3), Seen("i", 2), Seen("j", 1)>>,
    beaches |-> <<Seen("b", 1), Seen("c", 2), Seen("d", 2)>>, natural |-> <<Seen("m", 1), Seen("n", 1)>>]}
TheKinds ==
  [history |-> "historic", monuments |-> "historic", beach |-> "beaches", nature |-> "natural", food |-> NoKind]
TheWishes ==
  [interests : {<<"food">>, <<"history", "beach">>, <<"beach", "history", "nature">>, <<"monuments", "food", "history">>},
   limit : {1, 3, 4, 5}]
\* A wet day, a night with no daylight reading left, a day with one wet reading of three.
Reading(day, daytime, main) == [day |-> day, daytime |-> daytime, main |-> main]
TheSkies ==
  {<<Reading(0, TRUE, "Clear"), Reading(0, TRUE, "Rain"), Reading(0, TRUE, "Drizzle"), Reading(0, FALSE, "Clear"),
     Reading(1, FALSE, "Rain"), Reading(1, FALSE, "Clear"),
     Reading(2, TRUE, "Rain"), Reading(2, TRUE, "Clouds"), Reading(2, TRUE, "Clouds")>>}
TheDays == {<<0, 1, 2>>, <<2, 3>>, <<5, 6>>}

----------------------------------------------------------------------------
\* What travellers write, by what can be seen of it: a place name of a few letters, a request in each script,
\* in a language that shares one, and one in Latin letters that langdetect takes for Hindi.
VARIABLES step, typed, read_as, language, words_draft, tips, words_before, words_written, plans
language_vars == <<step, typed, read_as, language, words_draft, tips, words_before, words_written, plans>>

Letters(script, n) == <<[script |-> script, count |-> n]>>
Typed(says, letters, guess, own) == [says |-> says, letters |-> letters, assamese |-> FALSE, guess |-> guess, own |-> own]
Goa == Typed("goa", Letters("DEVANAGARI", 4), "mr", {})
AHindiTrip == Typed("a trip", Letters("DEVANAGARI", 30), "mr", {})
AMarathiTrip == Typed("a trip", Letters("DEVANAGARI", 30), "mr", {"mr"})
ANepaliTrip == Typed("a trip", Letters("DEVANAGARI", 30), "mr", {"ne"})
ATamilTrip ==
  Typed("a trip", <<[script |-> "LATIN", count |-> 9], [script |-> "TAMIL", count |-> 30]>>, "en", {})
AnAssameseTrip == [Typed("a trip", Letters("BENGALI", 30), "bn", {}) EXCEPT !.assamese = TRUE]
ALatinTrip == Typed("a trip", Letters("LATIN", 30), "hi", {})
WhereTo(words) == [where |-> "destination", text |-> words]
Liking(n, words) == [where |-> <<"interests", n>>, text |-> words]
Asking(words) == [where |-> "request", text |-> words]
TheRequests ==
  {<<Asking(AHindiTrip), WhereTo(Goa)>>, <<Asking(AMarathiTrip)>>, <<Asking(ANepaliTrip), WhereTo(Goa)>>,
   <<Asking(ATamilTrip), WhereTo(Goa)>>, <<Asking(ALatinTrip)>>, <<Asking(AnAssameseTrip)>>,
   <<WhereTo(Goa), Liking(1, ATamilTrip), Liking(2, Goa)>>}
TheDrafts == {<<"fort", FREE_TIME>>, <<"beach", "fort", "fort">>}

Words ==
  INSTANCE Language
    WITH FEW_LETTERS <- 12, MAX_PER_CALL <- 2, Requests <- TheRequests, Saved <- {"none", "en", "hi", "ta"},
         Drafts <- TheDrafts, Described <- {"beach"}, Tips <- <<"bargain", "tip">>, MaxPlans <- 2,
         draft <- words_draft, before <- words_before, written <- words_written
WordsIdle ==
  /\ step = Idle /\ typed = Idle /\ read_as = Idle /\ language = Idle /\ words_draft = Idle /\ tips = Idle
  /\ words_before = Idle /\ words_written = Idle /\ plans = Idle

----------------------------------------------------------------------------
PassIdle ==
  /\ trip = Bare /\ reply = [fill |-> <<>>, dates |-> <<>>, quote |-> <<>>, off |-> 0] /\ stage = "done" /\ attractions = <<>> /\ draft = NoDraft /\ written = NoDraft
  /\ turn = 1 /\ progress = FALSE /\ swapped = {} /\ clock = <<>> /\ outcome = <<>>
ConflictIdle ==
  /\ asked = Beach /\ on_offer = <<0, 0>> /\ run = "idle" /\ found = NoSearch /\ attempts = 0
  /\ choice = NONE /\ level = FALSE /\ options = {} /\ today = NoDate /\ rounds = 1

SearchIdle ==
  /\ market = CHOOSE m \in Markets : TRUE
  /\ name = (CHOOSE n \in PlaceNames : TRUE) /\ sights = (CHOOSE s \in Sights : TRUE) /\ sky = (CHOOSE s \in Skies : TRUE)
  /\ shelf = {} /\ served = Nothing /\ wasted = FALSE

VARIABLE part     \* the part this behaviour is of

core_vars == <<vars, conflict_vars, search_vars>>
around_vars == <<language_vars, page_parts, entry_parts>>
MCInit ==
  \/ part = "plan" /\ Init /\ ConflictIdle /\ SearchIdle /\ WordsIdle /\ PagesIdle /\ EntryIdle
  \/ part = "conflict" /\ ConflictInit /\ PassIdle /\ SearchIdle /\ WordsIdle /\ PagesIdle /\ EntryIdle
  \/ part = "searches" /\ SearchInit /\ PassIdle /\ ConflictIdle /\ WordsIdle /\ PagesIdle /\ EntryIdle
  \/ part = "words" /\ Words!LanguageInit /\ PassIdle /\ ConflictIdle /\ SearchIdle /\ PagesIdle /\ EntryIdle
  \/ PagesInit(part) /\ PassIdle /\ ConflictIdle /\ SearchIdle /\ WordsIdle /\ EntryIdle
  \/ EntryInit(part) /\ PassIdle /\ ConflictIdle /\ SearchIdle /\ WordsIdle /\ PagesIdle

MCNext ==
  /\ UNCHANGED part
  /\ \/ part = "plan" /\ Next /\ UNCHANGED <<conflict_vars, search_vars, around_vars>>
     \/ part = "conflict" /\ ConflictNext /\ UNCHANGED <<vars, search_vars, around_vars>>
     \/ part = "searches" /\ SearchNext /\ UNCHANGED <<vars, conflict_vars, around_vars>>
     \/ part = "words" /\ Words!LanguageNext /\ UNCHANGED <<core_vars, page_parts, entry_parts>>
     \/ PagesNext(part) /\ UNCHANGED <<core_vars, language_vars, entry_parts>>
     \/ EntryNext(part) /\ UNCHANGED <<core_vars, language_vars, page_parts>>
MCSpec == MCInit /\ [][MCNext]_<<core_vars, around_vars, part>>

TypeOK ==
  /\ part = "plan" => PassTypeOK
  /\ part = "searches" => SearchTypeOK
  /\ PagesTypeOK(part)
  /\ part = "words" => Words!LanguageTypeOK
  /\ part = "session" => Session!SessionTypeOK

\* The finished plan: complete, within its budget, its times as they were kept, and in its language.
PlanStands ==
  /\ part = "plan" => BuiltPlanStands /\ ClockHolds
  /\ part = "words" => Words!WordsHold
\* A search is asked with what its trip needs, and answers with what was found for that.
AskedAndFound ==
  /\ part = "searches" => SearchesHold
  /\ AskedAsMeant(part)
\* What the page shows of a plan, of its draft and of its searches is so.
PageShowsTrue == PagesTrue(part) /\ EntryTrue(part)
=============================================================================
