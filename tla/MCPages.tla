------------------------------ MODULE MCPages ------------------------------
(***************************************************************************)
(* The traveller's pages, each part by itself.  What the trip page makes   *)
(* of what it is told: the plan and what a change did to it (PlanView),    *)
(* the same plan on paper (PlanExport) with its map (MapTiles), the        *)
(* itinerary while it is being written (DraftReading), and the searches    *)
(* (AgentPanel).  How a trip begins: the form it is made with (TripForm),  *)
(* what its searches are asked with (Opening), the trips page's search     *)
(* (TripSearch), and staying signed in (SignedIn).  They are over the      *)
(* plans, replies and runs below; the parts a behaviour is not of are idle.*)
(***************************************************************************)
EXTENDS Integers, Sequences, FiniteSets, SequencesExt, TLC

VARIABLES
  itinerary, where_to, earlier, from, changed, said,
  stored, on_screen, exporting, paper, crossed,
  frame, tile_cache, task, in_hand, fresh, render, renders,
  text, arrived, shown, before,
  latest, at_work, arriving, view, asking, missed, confused

view_vars == <<itinerary, where_to, earlier, from, changed, said>>
paper_vars == <<stored, on_screen, exporting, paper, crossed>>
tile_vars == <<frame, tile_cache, task, in_hand, fresh, render, renders>>
reading_vars == <<text, arrived, shown, before>>
panel_vars == <<latest, at_work, arriving, view, asking, missed, confused>>
page_parts == <<view_vars, paper_vars, tile_vars, reading_vars, panel_vars>>

----------------------------------------------------------------------------
\* Plans of one day and of two: places that come, go and move, another hotel or a dearer one.
Inn == <<[name |-> "inn", price |-> 2]>>
DearInn == <<[name |-> "inn", price |-> 3]>>
Lodge == <<[name |-> "lodge", price |-> 2]>>
Flown == <<[name |-> "6E1", price |-> 9]>>
NoPlace == "none"
StopsOf(m, a, e) == [morning |-> m, afternoon |-> a, evening |-> e]
ADay(n, date, stops, hotel, flight) == [day |-> n, date |-> date, stops |-> stops, hotel |-> hotel, flight |-> flight]
FirstDays ==
  {ADay(1, date, stops, hotel, flight) :
     date \in {1, 2}, hotel \in {<<>>, Inn, DearInn}, flight \in {<<>>, Flown},
     stops \in {StopsOf("fort", "beach", NoPlace), StopsOf("fort", "free time", NoPlace), StopsOf("free time", NoPlace, "free time")}}
SecondDays ==
  {ADay(2, date, stops, hotel, <<>>) :
     date \in {2, 3}, hotel \in {Inn, Lodge}, stops \in {StopsOf(NoPlace, "cave", "beach"), StopsOf("beach", NoPlace, NoPlace)}}
Visited(day) == {day.stops[slot] : slot \in DOMAIN day.stops} \ {NoPlace, "free time"}
Follows(one, two) == two.date = one.date + 1 /\ Visited(one) \cap Visited(two) = {}
SomeDays == {<<one>> : one \in FirstDays} \cup {<<one, two>> : one \in FirstDays, two \in SecondDays}
Cost(day) == Cardinality(Visited(day)) + (IF day.hotel = <<>> THEN 0 ELSE day.hotel[1].price)
             + (IF day.flight = <<>> THEN 0 ELSE day.flight[1].price)
ThePlans ==
  {[days |-> days, total |-> FoldLeft(LAMBDA total, day : total + Cost(day), 0, days), tips |-> FALSE] :
     days \in {some \in SomeDays : Len(some) = 1 \/ Follows(some[1], some[2])}}

View == INSTANCE PlanView WITH ViewPlans <- ThePlans, Destinations <- {"goa"}, Located <- {"fort", "cave", "inn"}

----------------------------------------------------------------------------
\* Plans to print: with a flight and without, or without its price; a stay that is left and come back to, or
\* gets dearer; free time in every slot; nothing on the map but where the flight leaves from; a total that is
\* more or less than its parts.
Airport(code, is_located) == [code |-> code, located |-> is_located]
Flight(price, from_is, to_is) ==
  <<[name |-> "6E1", price |-> price, from |-> Airport("DEL", from_is), to |-> Airport("GOI", to_is)]>>
Printed(days, total, budget, size, members) ==
  [days |-> days, total |-> total, budget |-> budget, size |-> size, nights |-> Len(days) - 1, members |-> members]
FreeDay == StopsOf("free time", "free time", "free time")
OfAPair ==
  Printed(<<ADay(1, 1, StopsOf("fort", "beach", "cave"), Inn, Flight(9, TRUE, TRUE)), ADay(2, 2, FreeDay, Inn, <<>>),
            ADay(3, 3, StopsOf(NoPlace, "free time", "beach"), <<>>, <<>>)>>, 17, 18, 2, <<"asha", "ben">>)
ComingBack ==
  Printed(<<ADay(1, 1, StopsOf("beach", NoPlace, "fort"), Inn, <<>>), ADay(2, 2, StopsOf("cave", NoPlace, NoPlace), <<>>, <<>>),
            ADay(3, 3, FreeDay, DearInn, <<>>), ADay(4, 4, FreeDay, Inn, <<>>)>>, 20, 0, 1, <<>>)
NoStay ==
  Printed(<<ADay(1, 1, StopsOf("beach", NoPlace, NoPlace), <<>>, Flight(-1, TRUE, FALSE)), ADay(2, 2, FreeDay, <<>>, <<>>)>>, 1, 1, 3, <<>>)
MoreThanItsParts ==
  Printed(<<ADay(1, 1, StopsOf("fort", NoPlace, NoPlace), Lodge, Flight(9, FALSE, TRUE))>>, 16, 20, 2, <<"asha", "ben", "chitra">>)
LessThanItsParts == [MoreThanItsParts EXCEPT !.total = 10, !.budget = 9, !.size = 4, !.members = <<"asha">>]
Pdf ==
  INSTANCE PlanExport
    WITH FirstSaves <- {OfAPair, ComingBack, NoStay, MoreThanItsParts, LessThanItsParts},
         LaterSaves <- {ComingBack, NoStay, [OfAPair EXCEPT !.size = 1]}, MaxSaves <- 2, OnTheGlobe <- {"fort", "cave", "inn"},
         Fee <- [fort |-> 1, beach |-> 1, cave |-> 2] @@ ("free time" :> 0) @@ (NoPlace :> 0)

----------------------------------------------------------------------------
\* One place to frame or two, near and far, on a world of eight tiles a side; those of one are loaded.
Spots == {0, 1, 5, 9, 14, 22, 31} \X {0, 3, 8, 17, 30}
Map ==
  INSTANCE MapTiles
    WITH Frames <- {{one, other} : one \in Spots, other \in Spots}, LoadedFrames <- {{<<0, 0>>}}, SIZE <- <<6, 3>>, TILE_SIZE <- 4,
         PADDING <- 1, MIN_ZOOM <- 1, MAX_ZOOM <- 3, SINGLE_POINT_ZOOM <- 2, DOWNLOADS_AT_ONCE <- 1, MaxRenders <- 2

----------------------------------------------------------------------------
\* Replies as the model writes them: a fence before, escapes, free time and a name that starts like it,
\* a date in pieces, a number of two digits, a day of nothing, no days at all.
Tick == "'"
Space == " "
Quoted(pieces) == <<Tick>> \o pieces \o <<Tick>>
Between(items, gap) == FlattenSeq([i \in DOMAIN items |-> IF i = 1 THEN items[i] ELSE gap \o items[i]])
Field(key, value) == Quoted(<<key>>) \o <<":">> \o value
Braced(fields) == <<"{">> \o Between(fields, <<",">>) \o <<"}">>
Listed(items) == <<"[">> \o Between(items, <<",", Space>>) \o <<"]">>
FreeTimeWords == <<"Explore", "the", "area">>
\* a name as it is written, and as it is read
Fort == [written |-> <<"F", "ort">>, name |-> <<"F", "ort">>]
Caves == [written |-> <<"Explore", "the", "caves">>, name |-> <<"Explore", "the", "caves">>]
Cafe == [written |-> <<"Caf", "\\", "u", "e", "9">>, name |-> <<"Caf", "e-acute">>]
Bar == [written |-> <<"\\", "quote", "Bar">>, name |-> <<"quote", "Bar">>]
FreeTimeStop == [written |-> FreeTimeWords, name |-> FreeTimeWords]
StopField(slot, place) == Field(slot, Braced(<<Field("activity", Quoted(place.written))>>))
NoStop(slot) == Field(slot, <<"null">>)
HotelField(place) == Field("hotel", Braced(<<Field("name", Quoted(place.written)), Field("cost", <<"1", "2">>)>>))
TheDate == <<"2026-", "12-", "20">>
DayText(number, fields) == Braced(<<Field("day", number), Field("date", Quoted(TheDate))>> \o fields)
Whole(opening, texts, days) ==
  [text |-> opening \o Braced(<<Field("days", Listed(texts)), Field("total", <<"1">>)>>), days |-> days]
DayRead(number, lines) == [day |-> number, date |-> TheDate, lines |-> lines]
LineRead(label, words) == [label |-> label, text |-> words]
TheReplies ==
  {Whole(<<"json", Space>>,
         <<DayText(<<"1">>, <<StopField("morning", FreeTimeStop), StopField("afternoon", Caves), NoStop("evening"), HotelField(Bar)>>),
           DayText(<<"2">>, <<StopField("morning", FreeTimeStop), NoStop("afternoon"), StopField("evening", FreeTimeStop)>>)>>,
         <<DayRead(<<"1">>, <<LineRead("afternoon", Caves.name), LineRead("Stay", Bar.name)>>),
           DayRead(<<"2">>, <<LineRead("All day", <<"Free", "time">>)>>)>>),
   Whole(<<>>, <<DayText(<<"3", "1">>, <<StopField("morning", Cafe), StopField("afternoon", FreeTimeStop), StopField("evening", Fort)>>)>>,
         <<DayRead(<<"3", "1">>, <<LineRead("morning", Cafe.name), LineRead("evening", Fort.name)>>)>>),
   Whole(<<>>, <<>>, <<>>)}

Draft == INSTANCE DraftReading WITH Replies <- TheReplies, reply <- text

----------------------------------------------------------------------------
\* Two searches, a run that has been followed or loaded, one after it, one event or answer lost.
Panel == INSTANCE AgentPanel WITH PanelAgents <- {"flight_agent", "hotel_agent"}, MaxRunsShown <- 2, MaxMissed <- 1

----------------------------------------------------------------------------
Idle == "idle"
ViewIdle ==
  /\ itinerary = Idle /\ where_to = Idle /\ earlier = Idle /\ from = Idle /\ changed = Idle /\ said = Idle
PaperIdle == stored = Idle /\ on_screen = Idle /\ exporting = Idle /\ paper = Idle /\ crossed = Idle
TilesIdle ==
  /\ frame = Idle /\ tile_cache = Idle /\ task = Idle /\ in_hand = Idle /\ fresh = Idle /\ render = Idle /\ renders = Idle
ReadingIdle == text = Idle /\ arrived = Idle /\ shown = Idle /\ before = Idle
PanelIdle ==
  /\ latest = Idle /\ at_work = Idle /\ arriving = Idle /\ view = Idle /\ asking = Idle /\ missed = Idle /\ confused = Idle
PagesIdle == ViewIdle /\ PaperIdle /\ TilesIdle /\ ReadingIdle /\ PanelIdle

PagesInit(part) ==
  \/ part = "view" /\ View!ViewInit /\ PaperIdle /\ TilesIdle /\ ReadingIdle /\ PanelIdle
  \/ part = "paper" /\ Pdf!ExportInit /\ ViewIdle /\ TilesIdle /\ ReadingIdle /\ PanelIdle
  \/ part = "map" /\ Map!TilesInit /\ ViewIdle /\ PaperIdle /\ ReadingIdle /\ PanelIdle
  \/ part = "draft" /\ Draft!ReadingInit /\ ViewIdle /\ PaperIdle /\ TilesIdle /\ PanelIdle
  \/ part = "panel" /\ Panel!PanelInit /\ ViewIdle /\ PaperIdle /\ TilesIdle /\ ReadingIdle

ViewPart(part) == part = "view" /\ View!ViewNext /\ UNCHANGED <<paper_vars, tile_vars, reading_vars, panel_vars>>
PaperPart(part) == part = "paper" /\ Pdf!ExportNext /\ UNCHANGED <<view_vars, tile_vars, reading_vars, panel_vars>>
MapPart(part) == part = "map" /\ Map!TilesNext /\ UNCHANGED <<view_vars, paper_vars, reading_vars, panel_vars>>
DraftPart(part) == part = "draft" /\ Draft!PieceArrives /\ UNCHANGED <<view_vars, paper_vars, tile_vars, panel_vars>>
PanelPart(part) == part = "panel" /\ Panel!PanelNext /\ UNCHANGED <<view_vars, paper_vars, tile_vars, reading_vars>>
PagesNext(part) == ViewPart(part) \/ PaperPart(part) \/ MapPart(part) \/ DraftPart(part) \/ PanelPart(part)

PagesTypeOK(part) ==
  /\ part = "map" => Map!TilesTypeOK
  /\ part = "draft" => Draft!ReadingTypeOK
  /\ part = "panel" => Panel!PanelTypeOK
PagesTrue(part) ==
  /\ part = "view" => View!PlanShownTrue
  /\ part = "paper" => Pdf!PaperHolds
  /\ part = "map" => Map!MapDrawnWell
  /\ part = "draft" => Draft!DraftReadTrue
  /\ part = "panel" => Panel!PanelShowsTrue

----------------------------------------------------------------------------
(* How a trip begins                                                       *)

VARIABLES
  open_trip, saved, warmed, warming, pass, node, request, trip_state, asked_for, attempt, passes, meant,
  fields, server_day, creating, form_error, posted, made, newest, refused, lost, posts,
  page, trips, known, box, sought, found_trips, search_error, panel, showing, tries, pending, changes, strayed,
  refresh_tokens, over, good, cookie, local_storage, memory, tab, refreshing, leaving, befell

open_vars == <<open_trip, saved, warmed, warming, pass, node, request, trip_state, asked_for, attempt, passes, meant>>
form_vars == <<fields, server_day, creating, form_error, posted, made, newest, refused, lost, posts>>
search_page_vars ==
  <<page, trips, known, box, sought, found_trips, search_error, panel, showing, tries, pending, changes, strayed>>
session_vars ==
  <<refresh_tokens, over, good, cookie, local_storage, memory, tab, refreshing, leaving, befell>>
entry_parts == <<open_vars, form_vars, search_page_vars, session_vars>>

----------------------------------------------------------------------------
\* Trips for one kind of traveller and for a group, in English and not, to a place and to a wish.
Opened(destination, interests, members) ==
  [destination |-> destination, start |-> 5, finish |-> 7, size |-> 2, budget |-> 8,
   interests |-> interests, members |-> members]
TheOpenTrips ==
  {Opened("goa", <<"beach">>, <<>>), Opened("goa", <<>>, <<>>), Opened("goa-hi", <<"fort-ta">>, <<>>),
   Opened("a week in goa", <<"beach">>, <<>>),
   Opened("goa", <<"beach", "history">>, <<<<"beach">>, <<"history">>, <<>>>>)}
TheEnglish == ("goa-hi" :> "goa" @@ "fort-ta" :> "fort")
\* What the model makes of a request: nothing, another place and end, a move by a day with a blank wish.
NothingRead == [destination |-> "", origin |-> "", start |-> 0, finish |-> 0, budget |-> 0, size |-> 0, interests |-> <<>>]
TheIntents ==
  {NothingRead,
   [NothingRead EXCEPT !.destination = "delhi", !.origin = "BOM", !.interests = <<"", "food">>, !.finish = 9, !.budget = 4],
   [NothingRead EXCEPT !.start = 6, !.size = 3, !.budget = -1, !.interests = <<"">>]}
ThePreferences ==
  {[home |-> "DEL", style |-> "budget", diet |-> <<>>], [home |-> "BOM", style |-> "luxury", diet |-> <<"vegan">>]}
\* Tips with a repeat, a blank, two that are cut to the same line, one place twice.
Advised(norms, best) == [is |-> "json", transport |-> "-", norms |-> norms, best |-> best]
TheTipReplies ==
  {Advised(<<"bow", "Bow", "shoes", "-", "long", "longer">>,
           <<<<"fort", "am">>, <<"-", "am">>, <<"fort", "pm">>, <<"sea", "-">>, <<"sea", "pm">>, <<"cave", "am">>>>),
   [is |-> "unknown"], [is |-> "timeout"]}
Scribbled == {"bow", "Bow", "shoes", "-", "long", "longer", "fort", "sea", "cave", "am", "pm"}
TheLines == [text_written \in Scribbled |-> CASE text_written = "-" -> "" [] text_written \in {"long", "longer"} -> "lo..." [] OTHER -> text_written]
TheFolds == [line \in Scribbled \cup {"lo..."} |-> IF line = "Bow" THEN "bow" ELSE line]

Open ==
  INSTANCE Opening
    WITH OpenTrips <- TheOpenTrips, English <- TheEnglish, Sentences <- {"a week in goa"}, IntentReplies <- TheIntents,
         PreferenceSets <- ThePreferences, TipReplies <- TheTipReplies, LineOf <- TheLines, Folded <- TheFolds,
         MAX_TIPS <- 3, MAX_BEST_TIMES <- 2, MaxStops <- 2, MaxPasses <- 2

----------------------------------------------------------------------------
\* A trip that starts today, and one to a blank place; travellers whose names differ for a page only.
TheBasics ==
  {[destination |-> "goa", start |-> 1, finish |-> 3, budget |-> 1000],
   [destination |-> "", start |-> 2, finish |-> 3, budget |-> 1000]}
Row(called, likes) == [name |-> called, interests |-> likes]
TheRows == {Row("", {"food"}), Row("STRASSE", {"food"}), Row("strasze", {"beach", "food"})}
TheNames == {"", "STRASSE", "strasze"}
TheLowers == [one \in TheNames |-> IF one = "STRASSE" THEN "strasse" ELSE one]
TheCaseFolds == [one \in TheNames |-> IF one \in {"STRASSE", "strasze"} THEN "strasse" ELSE one]

Form ==
  INSTANCE TripForm
    WITH Basics <- TheBasics, Rows <- TheRows, Ideas <- {"beach", "food"}, Lower <- TheLowers, CaseFold <- TheCaseFolds,
         Offsets <- {0, 1}, MAX_TRIP_NIGHTS <- 2, MAX_MEMBERS <- 3, MAX_TRIP_INTERESTS <- 1, MAX_INTERESTS <- 1, MaxPosts <- 2

----------------------------------------------------------------------------
\* Three trips of one's own, of three kinds, two of them alike; another's; a search that finds two.
AStop(its_name, category, rating) == [name |-> its_name, category |-> category, rating |-> rating]
TheSearchPlans ==
  {[wanted |-> "beach", stops |-> <<AStop("cove", "beach", 2), AStop("free time", "sightseeing", 9), AStop("fort", "history", 2)>>],
   [wanted |-> "history", stops |-> <<AStop("fort", "history", 3), AStop("museum", "history", 5), AStop("fort", "history", 3)>>],
   [wanted |-> "shore", stops |-> <<AStop("free time", "sightseeing", 0)>>]}
HowClose ==
  ("beach" :> ("beach" :> 90 @@ "history" :> 50 @@ "shore" :> 87) @@
   "history" :> ("beach" :> 50 @@ "history" :> 95 @@ "shore" :> 40) @@
   "shore" :> ("beach" :> 87 @@ "history" :> 40 @@ "shore" :> 88))
CloseTo(a, b) == HowClose[a.wanted][b.wanted]

Find ==
  INSTANCE TripSearch
    WITH Mine <- {"first", "second", "third"}, Theirs <- {"another"}, Queries <- {"beach"}, Plans <- TheSearchPlans,
         Close <- CloseTo, SEARCH_LIMIT <- 2, SEARCH_FLOOR <- 58, SEARCH_WINDOW <- 4, SIMILAR_FLOOR <- 84, SHOWN <- 1,
         RETRIES <- 1, MaxChanges <- 1

\* One browser's two tabs.
Session == INSTANCE SignedIn WITH Tabs <- {"one", "two"}, MaxTokens <- 3

----------------------------------------------------------------------------
OpenIdle ==
  /\ open_trip = Idle /\ saved = Idle /\ warmed = Idle /\ warming = Idle /\ pass = Idle /\ node = Idle /\ request = Idle
  /\ trip_state = Idle /\ asked_for = Idle /\ attempt = Idle /\ passes = Idle /\ meant = Idle
FormIdle ==
  /\ fields = Idle /\ server_day = Idle /\ creating = Idle /\ form_error = Idle /\ posted = Idle /\ made = Idle
  /\ newest = Idle /\ refused = Idle /\ lost = Idle /\ posts = Idle
FindIdle ==
  /\ page = Idle /\ trips = Idle /\ known = Idle /\ box = Idle /\ sought = Idle /\ found_trips = Idle /\ search_error = Idle
  /\ panel = Idle /\ showing = Idle /\ tries = Idle /\ pending = Idle /\ changes = Idle /\ strayed = Idle
SessionIdle ==
  /\ refresh_tokens = Idle /\ over = Idle /\ good = Idle /\ cookie = Idle /\ local_storage = Idle /\ memory = Idle
  /\ tab = Idle /\ refreshing = Idle /\ leaving = Idle /\ befell = Idle
EntryIdle == OpenIdle /\ FormIdle /\ FindIdle /\ SessionIdle

EntryInit(part) ==
  \/ part = "opening" /\ Open!OpenInit /\ FormIdle /\ FindIdle /\ SessionIdle
  \/ part = "form" /\ Form!FormInit /\ OpenIdle /\ FindIdle /\ SessionIdle
  \/ part = "find" /\ Find!SearchPageInit /\ OpenIdle /\ FormIdle /\ SessionIdle
  \/ part = "session" /\ Session!SessionInit /\ OpenIdle /\ FormIdle /\ FindIdle

OpenPart(part) == part = "opening" /\ Open!OpenNext /\ UNCHANGED <<form_vars, search_page_vars, session_vars>>
FormPart(part) == part = "form" /\ Form!FormNext /\ UNCHANGED <<open_vars, search_page_vars, session_vars>>
FindPart(part) == part = "find" /\ Find!SearchPageNext /\ UNCHANGED <<open_vars, form_vars, session_vars>>
SessionPart(part) == part = "session" /\ Session!SessionNext /\ UNCHANGED <<open_vars, form_vars, search_page_vars>>
EntryNext(part) == OpenPart(part) \/ FormPart(part) \/ FindPart(part) \/ SessionPart(part)

\* What was asked for a trip is what it needs, and what was set for it stands.
AskedAsMeant(part) ==
  part = "opening" => Open!WarmedIsAsked /\ Open!SetFieldsStand /\ Open!TipsAndWeatherOfTheTrip
\* The trips page says what the server holds.
EntryTrue(part) ==
  /\ part = "form" => Form!FormAndServerAgree
  /\ part = "find" => Find!FoundTrue /\ Find!SimilarTrue
  /\ part = "session" => Session!SessionHolds
=============================================================================
