--------------------------- MODULE Services_proofs ---------------------------
(***************************************************************************)
(* What the changes to a plan, the saved preferences, what is told of a    *)
(* trip's cost, the health reports and the count of runs promise, for any  *)
(* number of turns, places, fares, writers, preferences, sessions,         *)
(* answers, seconds and runs.                                              *)
(*                                                                         *)
(* A change keeps the rest of a plan because of what is saved with it: the *)
(* state in Redis holds, in its lists, all that its plan uses              *)
(* (HoldsItsPlan), so that a targeted run starts from lists narrowed to    *)
(* the plan alone (FromThePlan).  What a writer of the preferences read is *)
(* what is there until somebody else writes them (ReadStands).  A work's   *)
(* own meter is the innermost wherever it works (Metered), and whoever has *)
(* the rows to add up finds only its own row to be warned of (Warned).     *)
(* A health check says what it was told within its deadline (CheckHolds),  *)
(* and a count of the metrics is the number of the runs of a kind          *)
(* (CountsHold).                                                           *)
(***************************************************************************)
EXTENDS MCServices, SequenceTheorems, FiniteSetTheorems, TLAPS

----------------------------------------------------------------------------
(* The parts are each by themselves.                                       *)

\* A step of the parts together is a step of the saved preferences or leaves them alone.
LEMMA PreferencesByThemselves == [MCNext]_all => [PrefNext]_pref_vars
<1>1. MCNext => [PrefNext]_pref_vars
  BY DEF MCNext, PagePart, DraftPart, EmbeddingsPart, ChangesPart, LogPart, UsagePart, PreferencesPart, MetersPart,
         TracePart, HealthPart, TalkPart, around_run, run_parts
<1>2. UNCHANGED all => UNCHANGED pref_vars
  BY DEF all, around_run, run_parts
<1> QED BY <1>1, <1>2

\* A step of the parts together is a step of the changes to a plan or leaves them alone.
LEMMA ChangesByThemselves == [MCNext]_all => [ChangesNext]_changes_vars
<1>1. MCNext => [ChangesNext]_changes_vars
  BY DEF MCNext, PagePart, DraftPart, EmbeddingsPart, ChangesPart, LogPart, UsagePart, PreferencesPart, MetersPart,
         TracePart, HealthPart, TalkPart, around_run, run_parts
<1>2. UNCHANGED all => UNCHANGED changes_vars
  BY DEF all, around_run, run_parts
<1> QED BY <1>1, <1>2

\* A step of the parts together is a step of the trip's model calls and their cost or leaves them alone.
LEMMA UsageByItself == [MCNext]_all => [UsageNext]_usage_vars
<1>1. MCNext => [UsageNext]_usage_vars
  BY DEF MCNext, PagePart, DraftPart, EmbeddingsPart, ChangesPart, LogPart, UsagePart, PreferencesPart, MetersPart,
         TracePart, HealthPart, TalkPart, around_run, run_parts
<1>2. UNCHANGED all => UNCHANGED usage_vars
  BY DEF all, around_run, run_parts
<1> QED BY <1>1, <1>2

----------------------------------------------------------------------------
(* The saved preferences.                                                  *)

CityOrNone == Homes \cup {Unset}
Rows == [exists : BOOLEAN, diet : SUBSET Diets, home : CityOrNone]
WriterStates ==
  [kind : {"none", "form", "run"}, at : {"idle", "read", "done", "failed"}, read : Rows, body : Rows]
PrefTyped == prefs \in Rows /\ writer \in [Writers -> WriterStates] /\ overtaken \subseteq Writers

\* A writer under way knows what it writes, and, unless it was overtaken, what is in the row.
ReadStands ==
  \A w \in Writers : writer[w].at = "read" =>
    /\ writer[w].kind \in {"form", "run"} /\ writer[w].body.exists
    /\ w \notin overtaken => writer[w].read = prefs
PrefInv == PrefTyped /\ ReadStands

\* merge_unique and merge_extracted take nothing away, and make lists of what may be in them.
LEMMA MergeKeeps ==
  ASSUME NEW existing \in Rows, NEW learnt \in Rows, NEW result \in merge_extracted(existing, learnt)
  PROVE  /\ existing.diet \subseteq result.diet
         /\ existing.home # Unset => result.home = existing.home
         /\ result \in [diet : SUBSET Diets, home : CityOrNone]
<1>1. PICK diet \in merge_unique(existing.diet, learnt.diet) :
        result = [diet |-> diet, home |-> IF existing.home = Unset THEN learnt.home ELSE existing.home]
  BY DEF merge_extracted
<1>2. PICK joined \in SUBSET (learnt.diet \ existing.diet) : diet = existing.diet \cup joined
  BY DEF merge_unique
<1>3. existing.diet \subseteq Diets /\ learnt.diet \subseteq Diets /\ learnt.home \in CityOrNone /\ existing.home \in CityOrNone
  BY DEF Rows
<1> QED BY <1>1, <1>2, <1>3

\* What a writer may write.
Results(w) ==
  IF writer[w].kind = "form" THEN {[diet |-> writer[w].body.diet, home |-> writer[w].body.home]}
  ELSE merge_extracted(writer[w].read, writer[w].body)
ToldNothing(w, result) ==
  writer[w].kind = "run" /\ result.diet = writer[w].read.diet /\ result.home = writer[w].read.home

LEMMA PrefStart == PrefInit => PrefInv
<1> SUFFICES ASSUME PrefInit PROVE PrefInv
  OBVIOUS
<1>1. Absent \in Rows
  BY DEF Absent, Rows, CityOrNone
<1>2. ASSUME NEW diet \in Lists, NEW home \in Homes \cup {Unset} PROVE Saved(diet, home) \in Rows
  BY DEF Lists, Saved, Rows, CityOrNone
<1>3. prefs \in Rows
  BY <1>1, <1>2 DEF PrefInit
<1>4. Unread \in WriterStates
  BY <1>1 DEF Unread, WriterStates
<1>5. PrefTyped
  BY <1>3, <1>4 DEF PrefTyped, PrefInit
<1>6. ReadStands
  BY DEF ReadStands, PrefInit, Unread
<1> QED BY <1>5, <1>6 DEF PrefInv

LEMMA Reading ==
  ASSUME PrefInv, NEW w \in Writers, NEW kind \in {"form", "run"}, NEW diet \in Lists, NEW home \in Homes \cup {Unset},
         ReadRow(w, kind, Saved(diet, home))
  PROVE  PrefInv'
<1> DEFINE now == [kind |-> kind, at |-> "read", read |-> prefs, body |-> Saved(diet, home)]
<1>1. Saved(diet, home) \in Rows /\ Saved(diet, home).exists
  BY DEF Lists, Saved, Rows, CityOrNone
<1>2. now \in WriterStates
  BY <1>1 DEF PrefInv, PrefTyped, WriterStates
<1>3. writer' = [writer EXCEPT ![w] = now] /\ prefs' = prefs /\ overtaken' = overtaken
  BY DEF ReadRow
<1>4. PrefTyped'
  BY <1>2, <1>3 DEF PrefInv, PrefTyped
<1>5. ASSUME NEW v \in Writers, writer'[v].at = "read"
      PROVE  /\ writer'[v].kind \in {"form", "run"} /\ writer'[v].body.exists
             /\ v \notin overtaken' => writer'[v].read = prefs'
  <2>1. CASE v = w
    <3>1. writer'[v] = now
      BY <1>3, <2>1 DEF PrefInv, PrefTyped
    <3> QED BY <3>1, <1>1, <1>3
  <2>2. CASE v # w
    <3>1. writer'[v] = writer[v]
      BY <1>3, <2>2 DEF PrefInv, PrefTyped
    <3> QED BY <3>1, <1>3, <1>5 DEF PrefInv, ReadStands
  <2> QED BY <2>1, <2>2
<1> QED BY <1>4, <1>5 DEF PrefInv, ReadStands

\* What a write leaves: the row, which is as it was or what the writer flushed; the writer, done or
\* failed; and everybody still to write overtaken, if anything was written.
LEMMA Writing ==
  ASSUME PrefInv, NEW w \in Writers, WriteRow(w)
  PROVE  /\ writer[w].at = "read" /\ asks' = asks
         /\ \E result \in Results(w), last \in WriterStates :
              /\ prefs' = IF ToldNothing(w, result) \/ Refused(w) THEN prefs ELSE Flushed(w, result.diet, result.home)
              /\ writer' = [writer EXCEPT ![w] = last]
              /\ last.at = IF ~ToldNothing(w, result) /\ Refused(w) THEN "failed" ELSE "done"
         /\ overtaken' = IF prefs' = prefs THEN overtaken
                         ELSE overtaken \cup {v \in Writers \ {w} : writer[v].at = "read"}
<1>1. writer[w].at = "read" /\ asks' = asks
  BY DEF WriteRow
<1>2. PICK result \in Results(w) :
        /\ prefs' = IF ToldNothing(w, result) \/ Refused(w) THEN prefs ELSE Flushed(w, result.diet, result.home)
        /\ writer' = [writer EXCEPT ![w] = [Unread EXCEPT !.at = IF ~ToldNothing(w, result) /\ Refused(w)
                                                               THEN "failed" ELSE "done"]]
        /\ overtaken' = IF prefs' = prefs THEN overtaken
                        ELSE overtaken \cup {v \in Writers \ {w} : writer[v].at = "read"}
  BY DEF WriteRow, Results, ToldNothing
<1>3. ASSUME NEW at \in {"failed", "done"}
      PROVE  [Unread EXCEPT !.at = at] \in WriterStates /\ [Unread EXCEPT !.at = at].at = at
  BY DEF Unread, WriterStates, Absent, Rows, CityOrNone
<1> QED BY <1>1, <1>2, <1>3

\* What a writer may write is a list and a city.
LEMMA ResultsAreRows ==
  ASSUME PrefInv, NEW w \in Writers, NEW result \in Results(w)
  PROVE  result \in [diet : SUBSET Diets, home : CityOrNone]
<1>1. writer[w] \in WriterStates
  BY DEF PrefInv, PrefTyped
<1>2. writer[w].read \in Rows /\ writer[w].body \in Rows
  BY <1>1 DEF WriterStates
<1>3. CASE writer[w].kind = "form"
  BY <1>2, <1>3 DEF Results, Rows
<1>4. CASE writer[w].kind # "form"
  <2>1. result \in merge_extracted(writer[w].read, writer[w].body)
    BY <1>4 DEF Results
  <2> QED BY <2>1, <1>2, MergeKeeps
<1> QED BY <1>3, <1>4

LEMMA WritingKeeps == ASSUME PrefInv, NEW w \in Writers, WriteRow(w) PROVE PrefInv'
<1>1. PICK result \in Results(w), last \in WriterStates :
        /\ prefs' = IF ToldNothing(w, result) \/ Refused(w) THEN prefs ELSE Flushed(w, result.diet, result.home)
        /\ writer' = [writer EXCEPT ![w] = last]
        /\ last.at = IF ~ToldNothing(w, result) /\ Refused(w) THEN "failed" ELSE "done"
  BY Writing
<1>2. overtaken' = IF prefs' = prefs THEN overtaken
                   ELSE overtaken \cup {v \in Writers \ {w} : writer[v].at = "read"}
  BY Writing
<1>3. result.diet \in SUBSET Diets /\ result.home \in CityOrNone
  BY ResultsAreRows
<1>4. prefs.diet \in SUBSET Diets /\ prefs.home \in CityOrNone /\ prefs \in Rows
  BY DEF PrefInv, PrefTyped, Rows
<1>5. Flushed(w, result.diet, result.home) \in Rows
  BY <1>3, <1>4 DEF Flushed, Saved, Rows
<1>6. PrefTyped'
  BY <1>1, <1>2, <1>4, <1>5 DEF PrefInv, PrefTyped
<1>7. ASSUME NEW v \in Writers, writer'[v].at = "read"
      PROVE  /\ writer'[v].kind \in {"form", "run"} /\ writer'[v].body.exists
             /\ v \notin overtaken' => writer'[v].read = prefs'
  <2>1. v # w /\ writer'[v] = writer[v]
    BY <1>1, <1>7 DEF PrefInv, PrefTyped
  <2>2. v \notin overtaken' => prefs' = prefs /\ v \notin overtaken
    BY <1>2, <1>7, <2>1
  <2> QED BY <1>7, <2>1, <2>2 DEF PrefInv, ReadStands
<1> QED BY <1>6, <1>7 DEF PrefInv, ReadStands

LEMMA PrefStep == PrefInv /\ [PrefNext]_pref_vars => PrefInv'
<1> SUFFICES ASSUME PrefInv, [PrefNext]_pref_vars PROVE PrefInv'
  OBVIOUS
<1>1. ASSUME NEW w \in Writers, NEW diet \in Lists, NEW home \in Homes \cup {Unset},
             ReadRow(w, "form", Saved(diet, home)) \/ ReadRow(w, "run", Saved(diet, home))
      PROVE  PrefInv'
  BY <1>1, Reading
<1>2. ASSUME NEW w \in Writers, WriteRow(w) PROVE PrefInv'
  BY <1>2, WritingKeeps
<1>3. ASSUME UNCHANGED <<prefs, writer, overtaken>> PROVE PrefInv'
  BY <1>3 DEF PrefInv, PrefTyped, ReadStands
<1>4. CASE \E origin \in Homes \cup {Unset}, interests \in {{}, {"beach"}} : AskTrip(origin, interests)
  BY <1>3, <1>4 DEF AskTrip
<1>5. CASE ApplyPreferences
  BY <1>3, <1>5 DEF ApplyPreferences
<1>6. CASE UNCHANGED pref_vars
  BY <1>3, <1>6 DEF pref_vars
<1> QED BY <1>1, <1>2, <1>4, <1>5, <1>6 DEF PrefNext

\* What a step may do to the row, in the words of PreferencesKept.
RowKept ==
  \A w \in Writers \ overtaken : Writes(w) =>
    CASE writer[w].kind = "run" -> prefs.diet \subseteq prefs'.diet /\ (prefs.home # Unset => prefs'.home = prefs.home)
      [] OTHER -> prefs' = writer[w].body

LEMMA RowKeptByWriting ==
  ASSUME PrefInv, NEW w \in Writers \ overtaken, WriteRow(w), Writes(w)
  PROVE  CASE writer[w].kind = "run" ->
                prefs.diet \subseteq prefs'.diet /\ (prefs.home # Unset => prefs'.home = prefs.home)
           [] OTHER -> prefs' = writer[w].body
<1>1. PICK result \in Results(w), last \in WriterStates :
        /\ prefs' = IF ToldNothing(w, result) \/ Refused(w) THEN prefs ELSE Flushed(w, result.diet, result.home)
        /\ writer' = [writer EXCEPT ![w] = last]
        /\ last.at = IF ~ToldNothing(w, result) /\ Refused(w) THEN "failed" ELSE "done"
  BY Writing
<1>2. writer[w].at = "read" /\ writer'[w].at = "done"
  BY DEF Writes
<1>3. ~(~ToldNothing(w, result) /\ Refused(w))
  BY <1>1, <1>2 DEF PrefInv, PrefTyped
<1>4. /\ writer[w].read = prefs /\ writer[w].body.exists /\ writer[w].kind \in {"form", "run"}
      /\ prefs \in Rows /\ writer[w].body \in Rows
  BY <1>2 DEF PrefInv, PrefTyped, ReadStands, WriterStates
<1>5. CASE ToldNothing(w, result)
  <2>1. prefs' = prefs /\ writer[w].kind = "run"
    BY <1>1, <1>5 DEF ToldNothing
  <2> QED BY <2>1
<1>6. CASE ~ToldNothing(w, result)
  <2>1. prefs' = Saved(result.diet, result.home)
    BY <1>1, <1>3, <1>4, <1>6 DEF Flushed, Saved
  <2>2. CASE writer[w].kind = "run"
    <3>1. result \in merge_extracted(prefs, writer[w].body)
      BY <1>4, <2>2 DEF Results
    <3>2. prefs.diet \subseteq result.diet /\ (prefs.home # Unset => result.home = prefs.home)
      BY <3>1, <1>4, MergeKeeps
    <3> QED BY <2>1, <2>2, <3>2 DEF Saved
  <2>3. CASE writer[w].kind = "form"
    <3>1. result = [diet |-> writer[w].body.diet, home |-> writer[w].body.home]
      BY <2>3 DEF Results
    <3> QED BY <2>1, <2>3, <3>1, <1>4 DEF Saved, Rows
  <2> QED BY <1>4, <2>2, <2>3
<1> QED BY <1>5, <1>6

LEMMA RowKeptByAll == PrefInv /\ [PrefNext]_pref_vars => [RowKept]_pref_vars
<1> SUFFICES ASSUME PrefInv, PrefNext, NEW w \in Writers \ overtaken, Writes(w)
             PROVE  CASE writer[w].kind = "run" ->
                           prefs.diet \subseteq prefs'.diet /\ (prefs.home # Unset => prefs'.home = prefs.home)
                      [] OTHER -> prefs' = writer[w].body
  BY DEF RowKept
<1>1. writer \in [Writers -> WriterStates] /\ writer[w].at = "read" /\ writer'[w].at = "done"
  BY DEF PrefInv, PrefTyped, Writes
<1>2. ASSUME NEW v \in Writers, NEW kind, NEW body, ReadRow(v, kind, body) PROVE FALSE
  BY <1>1, <1>2 DEF ReadRow
<1>3. ASSUME NEW v \in Writers, WriteRow(v) PROVE v = w
  <2>1. PICK last \in WriterStates : writer' = [writer EXCEPT ![v] = last]
    BY <1>3, Writing
  <2> QED BY <2>1, <1>1
<1>4. ASSUME writer' = writer PROVE FALSE
  BY <1>1, <1>4
<1>5. WriteRow(w)
  BY <1>2, <1>3, <1>4 DEF PrefNext, AskTrip, ApplyPreferences
<1> QED BY <1>5, RowKeptByWriting

\* What a run learns never takes from the preferences that were saved, and a form replaces them whole:
\* unless somebody wrote the row between the writer's read and its write.
THEOREM PreferencesAreKept == MCSpec => PreferencesKept
<1>1. MCSpec => [][MCNext]_all /\ MCInit
  BY DEF MCSpec
<1>2. MCInit => PrefInv
  BY PrefStart DEF MCInit
<1>3. [][RowKept]_pref_vars => PreferencesKept
  BY DEF PreferencesKept, RowKept
<1> QED BY <1>1, <1>2, <1>3, PreferencesByThemselves, PrefStep, RowKeptByAll, PTL

----------------------------------------------------------------------------
(* A trip's preferences: what was asked for comes first.                   *)

Interests == {"beach"} \cup StyleInterests \cup Diets
AskTyped ==
  asks \in [origin : CityOrNone, interests : SUBSET Interests, first : SUBSET Interests, from : CityOrNone, passes : Nat]
AskInv == PrefInv /\ AskTyped /\ AskedComesFirst

LEMMA AskStart == PrefInit => AskInv
<1> SUFFICES ASSUME PrefInit PROVE AskInv
  OBVIOUS
<1>1. asks = NoAsk
  BY DEF PrefInit
<1>2. AskTyped
  BY <1>1 DEF AskTyped, NoAsk, CityOrNone
<1>3. AskedComesFirst
  BY <1>1 DEF AskedComesFirst, NoAsk
<1> QED BY <1>2, <1>3, PrefStart DEF AskInv

\* build_preference_updates leaves what was asked for, and adds what a style or the row says.
LEMMA Applying == ASSUME AskInv, ApplyPreferences PROVE AskTyped' /\ AskedComesFirst'
<1>1. PICK origin, interests :
        /\ origin = IF asks.origin = Unset THEN prefs.home ELSE asks.origin
        /\ interests = asks.interests \cup (IF asks.interests = {} THEN StyleInterests ELSE {}) \cup prefs.diet
  OBVIOUS
<1>2. prefs.diet \in SUBSET Diets /\ prefs.home \in CityOrNone
  BY DEF AskInv, PrefInv, PrefTyped, Rows
<1>3. asks' = [asks EXCEPT !.origin = origin, !.interests = interests, !.passes = asks.passes + 1]
  BY <1>1 DEF ApplyPreferences, build_preference_updates, AskInv, AskTyped
<1>4. asks.passes \in 1..2 /\ asks.passes + 1 \in Nat
  BY DEF ApplyPreferences
<1>5. origin \in CityOrNone /\ interests \in SUBSET Interests
  BY <1>1, <1>2 DEF AskInv, AskTyped, Interests
<1>6. AskTyped'
  BY <1>3, <1>4, <1>5 DEF AskInv, AskTyped
<1>7. /\ asks'.first = asks.first /\ asks'.from = asks.from
      /\ asks'.origin = origin /\ asks'.interests = interests
  BY <1>3 DEF AskInv, AskTyped
<1>8. /\ asks.first \subseteq asks.interests
      /\ asks.from # Unset => asks.origin = asks.from
      /\ asks.first # {} => asks.interests \cap (StyleInterests \ Diets) \subseteq asks.first
  BY <1>4 DEF AskInv, AskedComesFirst
<1>9. asks.first \subseteq interests /\ (asks.from # Unset => origin = asks.from)
  BY <1>1, <1>8
<1>10. ASSUME asks.first # {} PROVE interests \cap (StyleInterests \ Diets) \subseteq asks.first
  <2>1. interests = asks.interests \cup prefs.diet
    BY <1>1, <1>8, <1>10
  <2> QED BY <2>1, <1>2, <1>8, <1>10
<1> QED BY <1>6, <1>7, <1>9, <1>10 DEF AskedComesFirst

LEMMA AskStep == AskInv /\ [PrefNext]_pref_vars => AskInv'
<1> SUFFICES ASSUME AskInv, [PrefNext]_pref_vars PROVE AskTyped' /\ AskedComesFirst'
  BY PrefStep DEF AskInv
<1>1. CASE ApplyPreferences
  BY <1>1, Applying
<1>2. ASSUME NEW origin \in Homes \cup {Unset}, NEW interests \in {{}, {"beach"}}, AskTrip(origin, interests)
      PROVE  AskTyped' /\ AskedComesFirst'
  <2>1. asks' = [origin |-> origin, interests |-> interests, first |-> interests, from |-> origin, passes |-> 1]
    BY <1>2 DEF AskTrip
  <2> QED BY <2>1 DEF AskTyped, AskedComesFirst, CityOrNone, Interests
<1>3. ASSUME asks' = asks PROVE AskTyped' /\ AskedComesFirst'
  BY <1>3 DEF AskInv, AskTyped, AskedComesFirst
<1>4. ASSUME NEW w \in Writers, WriteRow(w) PROVE asks' = asks
  BY <1>4 DEF WriteRow
<1>5. ASSUME NEW w \in Writers, NEW kind, NEW body, ReadRow(w, kind, body) PROVE asks' = asks
  BY <1>5 DEF ReadRow
<1>6. CASE UNCHANGED pref_vars
  BY <1>3, <1>6 DEF pref_vars
<1> QED BY <1>1, <1>2, <1>3, <1>4, <1>5, <1>6 DEF PrefNext

\* Preferences are applied to a trip without taking anything it asked for, however often it is
\* planned, and the style adds interests only to a trip that named none.
THEOREM WhatIsAskedComesFirst == MCSpec => []AskedComesFirst
<1>1. MCSpec => [][MCNext]_all /\ MCInit
  BY DEF MCSpec
<1>2. MCInit => AskInv
  BY AskStart DEF MCInit
<1>3. AskInv => AskedComesFirst
  BY DEF AskInv
<1> QED BY <1>1, <1>2, <1>3, PreferencesByThemselves, AskStep, PTL

----------------------------------------------------------------------------
(* Changes to a plan: the states there are.                                *)

PlaceNames == Places \cup {"none", FIRST}
AFind == [place : PlaceNames, turn : Nat, n : Nat]
APlan == [turn : Nat, place : PlaceNames, days : Int, fare : Nat, hotel : AFind, stops : SUBSET AFind]
AState ==
  [place : PlaceNames, days : Int, flights : SUBSET AFind, hotels : SUBSET AFind, attractions : SUBSET AFind, plan : APlan]
Kinds == {"none", "plan", "full_replan", "add_day"} \cup TARGETED
Statuses == {"pending", "planning", "completed", "failed"}
AJob == [turn : Nat, kind : Kinds, retry : BOOLEAN, state : AState]
ChangesTyped ==
  /\ row \in [status : Statuses, place : PlaceNames, days : Int]
  /\ plan \in APlan /\ kept \in AState /\ saving \in AState /\ job \in AJob
  /\ turns \in Nat /\ offered \in BOOLEAN /\ strayed \in BOOLEAN

\* Of flights that were found one is the cheapest, and its fare is one there is.
Least(flights, flight) == flight.n \in Fares /\ \A other \in flights : flight.n <= other.n
Priced(flights) == flights # {} => \E flight \in flights : Least(flights, flight)

\* What a state found is of its place.
OfItsPlace(state) == \A find \in state.hotels \cup state.attractions : find.place = state.place

\* A state that was saved holds what its plan is made of.
HoldsItsPlan(state) ==
  /\ state.plan.place = state.place /\ state.plan.days = state.days
  /\ state.plan.hotel # None => state.plan.hotel \in state.hotels
  /\ state.plan.stops \subseteq state.attractions
  /\ state.plan.fare = Cheapest(state.flights)

\* A run that repeats one search starts from the plan's own hotel, stops and flights.
FromThePlan(kind, state) ==
  /\ state.plan.place = state.place /\ state.plan.days = state.days
  /\ kind # "targeted_hotel" /\ state.plan.hotel # None => state.hotels = {state.plan.hotel}
  /\ state.plan.stops # {} => state.attractions = state.plan.stops
  /\ state.plan.fare = Cheapest(state.flights)

ChangesInv ==
  /\ ChangesTyped
  /\ \A state \in {kept, saving, job.state} : Priced(state.flights) /\ OfItsPlace(state)
  /\ HoldsItsPlan(kept) /\ HoldsItsPlan(saving)
  /\ job.kind \in TARGETED => FromThePlan(job.kind, job.state)
  /\ plan.turn # 0 => \A find \in plan.stops \cup ({plan.hotel} \ {None}) : find.place = plan.place
  /\ plan.turn # 0 /\ ~strayed => row.place = plan.place /\ row.days = plan.days

LEMMA EmptyStates ==
  /\ None \in AFind /\ NoPlan \in APlan /\ Nowhere \in AState /\ Idle \in AJob
  /\ Priced(Nowhere.flights) /\ OfItsPlace(Nowhere) /\ HoldsItsPlan(Nowhere)
<1>1. None \in AFind
  BY DEF None, AFind, PlaceNames
<1>2. NoPlan \in APlan
  BY <1>1 DEF NoPlan, APlan, PlaceNames
<1>3. Nowhere \in AState
  BY <1>2 DEF Nowhere, AState, PlaceNames
<1>4. Idle \in AJob
  BY <1>3 DEF Idle, AJob, Kinds
<1>5. Priced(Nowhere.flights) /\ OfItsPlace(Nowhere)
  BY DEF Priced, Nowhere, OfItsPlace
<1>6. HoldsItsPlan(Nowhere)
  BY DEF HoldsItsPlan, Nowhere, NoPlan, Cheapest, None
<1> QED BY <1>1, <1>2, <1>3, <1>4, <1>5, <1>6

LEMMA ChangesStart == ChangesInit => ChangesInv
<1> SUFFICES ASSUME ChangesInit PROVE ChangesInv
  OBVIOUS
<1>1. ChangesTyped
  <2>1. row \in [status : Statuses, place : PlaceNames, days : Int]
    BY DEF ChangesInit, PlaceNames, Statuses
  <2>2. offered \in BOOLEAN /\ strayed \in BOOLEAN /\ turns \in Nat
    BY DEF ChangesInit
  <2>3. plan = NoPlan /\ kept = Nowhere /\ saving = Nowhere /\ job = Idle
    BY DEF ChangesInit
  <2> QED BY <2>1, <2>2, <2>3, EmptyStates DEF ChangesTyped
<1>2. job.state = Nowhere /\ job.kind \notin TARGETED /\ plan.turn = 0
  BY DEF ChangesInit, Idle, TARGETED, NoPlan
<1> QED BY <1>1, <1>2, EmptyStates DEF ChangesInit, ChangesInv

----------------------------------------------------------------------------
(* The cheapest flight.                                                    *)

LEMMA OneIsCheapest ==
  ASSUME NEW flights \in SUBSET AFind, NEW flight \in flights, Least(flights, flight)
  PROVE  Cheapest(flights) = flight.n
<1>1. \E f \in flights : f.n = flight.n
  OBVIOUS
<1>2. ASSUME NEW fare \in Fares, \E f \in flights : f.n = fare, \A f \in flights : fare <= f.n
      PROVE  fare = flight.n
  <2>1. PICK f \in flights : f.n = fare
    BY <1>2
  <2>2. fare <= flight.n /\ flight.n <= fare
    BY <1>2, <2>1 DEF Least
  <2>3. fare \in Nat /\ flight.n \in Nat
    BY <2>1 DEF AFind
  <2> QED BY <2>2, <2>3
<1> QED BY <1>1, <1>2 DEF Cheapest, Least

\* With another flight to choose from the cheapest is no dearer.
LEMMA CheaperWithAnother ==
  ASSUME NEW flights \in SUBSET AFind, NEW another \in AFind, another.n \in Fares, Priced(flights)
  PROVE  /\ Priced(flights \cup {another})
         /\ flights # {} => Cheapest(flights \cup {another}) \in 1..Cheapest(flights)
<1> DEFINE more == flights \cup {another}
<1>1. \A f \in more : f.n \in Nat
  BY DEF AFind
<1>2. CASE \A f \in flights : another.n <= f.n
  <2>1. Least(more, another)
    BY <1>1, <1>2 DEF Least
  <2>2. Cheapest(more) = another.n
    BY <2>1, OneIsCheapest
  <2>3. ASSUME flights # {} PROVE another.n \in 1..Cheapest(flights)
    <3>1. PICK flight \in flights : Least(flights, flight)
      BY <2>3 DEF Priced
    <3>2. Cheapest(flights) = flight.n
      BY <3>1, OneIsCheapest
    <3> QED BY <3>2, <1>1, <1>2, FaresAreMoney
  <2> QED BY <2>1, <2>2, <2>3 DEF Priced
<1>3. CASE \E f \in flights : ~(another.n <= f.n)
  <2>1. PICK flight \in flights : Least(flights, flight)
    BY <1>3 DEF Priced
  <2>2. Least(more, flight)
    BY <1>1, <1>3, <2>1 DEF Least
  <2>3. Cheapest(more) = flight.n /\ Cheapest(flights) = flight.n
    BY <2>1, <2>2, OneIsCheapest
  <2>4. flight.n \in 1..flight.n
    BY <1>1, <2>1, FaresAreMoney DEF Least
  <2> QED BY <2>2, <2>3, <2>4 DEF Priced
<1> QED BY <1>2, <1>3

LEMMA CheapestIsMoney ==
  ASSUME NEW flights \in SUBSET AFind, Priced(flights)
  PROVE  Cheapest(flights) \in Nat /\ (Cheapest(flights) # 0 => flights # {})
<1>1. CASE flights = {}
  BY <1>1 DEF Cheapest
<1>2. CASE flights # {}
  <2>1. PICK flight \in flights : Least(flights, flight)
    BY <1>2 DEF Priced
  <2> QED BY <2>1, <1>2, OneIsCheapest DEF AFind
<1> QED BY <1>1, <1>2

----------------------------------------------------------------------------
(* Asking: a run starts from the fields of a trip, or from the plan there  *)
(* is.                                                                     *)

\* What a state holds whether or not a plan was made of it.
Sound(state) == state \in AState /\ Priced(state.flights) /\ OfItsPlace(state)

LEMMA FieldsAreSound ==
  ASSUME NEW place \in PlaceNames, NEW days \in Int
  PROVE  /\ Sound(Fields(place, days))
         /\ \A elsewhere : [Fields(place, days) EXCEPT !.place = elsewhere] = Fields(elsewhere, days)
         /\ [Fields(place, days) EXCEPT !.days = @ + 1] = Fields(place, days + 1)
<1>1. Fields(place, days) \in AState
  BY EmptyStates DEF Fields, AState
<1>2. Fields(place, days).flights = {} /\ Fields(place, days).hotels = {} /\ Fields(place, days).attractions = {}
  BY DEF Fields, Nowhere
<1>3. Priced(Fields(place, days).flights) /\ OfItsPlace(Fields(place, days))
  BY <1>2 DEF Priced, OfItsPlace
<1>4. \A elsewhere : [Fields(place, days) EXCEPT !.place = elsewhere] = Fields(elsewhere, days)
  BY DEF Fields, Nowhere
<1>5. [Fields(place, days) EXCEPT !.days = @ + 1] = Fields(place, days + 1)
  BY DEF Fields, Nowhere
<1> QED BY <1>1, <1>3, <1>4, <1>5 DEF Sound

\* _keep_what_the_plan_uses leaves of a list what the plan uses of it.
LEMMA NarrowedToThePlan ==
  ASSUME NEW list, NEW used
  PROVE  /\ Narrowed(list, used) \subseteq list
         /\ used \subseteq list /\ used # {} => Narrowed(list, used) = used
BY DEF Narrowed

\* What a targeted run starts from is the saved plan's own.
LEMMA PriorIsThePlans ==
  ASSUME ChangesInv, NEW kind \in TARGETED
  PROVE  Sound(Prior(kind)) /\ FromThePlan(kind, Prior(kind))
<1>1. kept \in AState /\ Priced(kept.flights) /\ OfItsPlace(kept) /\ HoldsItsPlan(kept)
  BY DEF ChangesInv, ChangesTyped
<1>2. PICK hotels, attractions :
        /\ hotels = IF kind = "targeted_hotel" THEN kept.hotels ELSE Narrowed(kept.hotels, {kept.plan.hotel})
        /\ attractions = Narrowed(kept.attractions, kept.plan.stops)
  OBVIOUS
<1>3. hotels \subseteq kept.hotels /\ attractions \subseteq kept.attractions
  BY <1>2, NarrowedToThePlan
<1>4. Prior(kind) = [kept EXCEPT !.hotels = hotels, !.attractions = attractions]
  BY <1>1, <1>2 DEF Prior, AState
<1>5. /\ Prior(kind).place = kept.place /\ Prior(kind).days = kept.days /\ Prior(kind).flights = kept.flights
      /\ Prior(kind).plan = kept.plan /\ Prior(kind).hotels = hotels /\ Prior(kind).attractions = attractions
  BY <1>1, <1>4 DEF AState
<1>6. Prior(kind) \in AState
  BY <1>1, <1>3, <1>4 DEF AState
<1>7. Sound(Prior(kind))
  BY <1>1, <1>3, <1>5, <1>6 DEF Sound, OfItsPlace
<1>8. ASSUME kind # "targeted_hotel", kept.plan.hotel # None PROVE hotels = {kept.plan.hotel}
  <2>1. {kept.plan.hotel} \subseteq kept.hotels
    BY <1>1, <1>8 DEF HoldsItsPlan
  <2> QED BY <1>2, <1>8, <2>1, NarrowedToThePlan
<1>9. ASSUME kept.plan.stops # {} PROVE attractions = kept.plan.stops
  <2>1. kept.plan.stops \subseteq kept.attractions
    BY <1>1 DEF HoldsItsPlan
  <2> QED BY <1>2, <1>9, <2>1, NarrowedToThePlan
<1> QED BY <1>1, <1>5, <1>7, <1>8, <1>9 DEF FromThePlan, HoldsItsPlan

\* A run that starts so keeps what holds, as long as the row is left as it was or is known to have
\* strayed from the plan.
LEMMA Starting ==
  ASSUME ChangesInv, NEW kind \in Kinds, NEW retry \in BOOLEAN, NEW state, Sound(state),
         kind \in TARGETED => FromThePlan(kind, state), Start(kind, retry, state),
         row' \in [status : Statuses, place : PlaceNames, days : Int],
         strayed' \in BOOLEAN, offered' \in BOOLEAN,
         ~strayed' => ~strayed /\ row'.place = row.place /\ row'.days = row.days
  PROVE  ChangesInv'
<1>1. /\ job' = [turn |-> turns + 1, kind |-> kind, retry |-> retry, state |-> state]
      /\ turns' = turns + 1 /\ plan' = plan /\ kept' = kept /\ saving' = saving
  BY DEF Start
<1>2. turns + 1 \in Nat /\ state \in AState
  BY DEF ChangesInv, ChangesTyped, Sound
<1>3. job' \in AJob
  BY <1>1, <1>2 DEF AJob
<1>4. ChangesTyped'
  BY <1>1, <1>2, <1>3 DEF ChangesInv, ChangesTyped
<1>5. job'.kind = kind /\ job'.state = state
  BY <1>1
<1>6. \A s \in {kept', saving', job'.state} : Priced(s.flights) /\ OfItsPlace(s)
  BY <1>1, <1>5 DEF ChangesInv, Sound
<1>7. HoldsItsPlan(kept') /\ HoldsItsPlan(saving')
  BY <1>1 DEF ChangesInv
<1>8. plan'.turn # 0 => \A find \in plan'.stops \cup ({plan'.hotel} \ {None}) : find.place = plan'.place
  BY <1>1 DEF ChangesInv
<1>9. plan'.turn # 0 /\ ~strayed' => row'.place = plan'.place /\ row'.days = plan'.days
  BY <1>1 DEF ChangesInv
<1> QED BY <1>4, <1>5, <1>6, <1>7, <1>8, <1>9 DEF ChangesInv

LEMMA Marking ==
  ASSUME ChangesInv, MarkPlanning
  PROVE  /\ row' \in [status : Statuses, place : PlaceNames, days : Int]
         /\ strayed' = strayed /\ offered' = offered /\ row'.place = row.place /\ row'.days = row.days
         /\ strayed \in BOOLEAN /\ offered \in BOOLEAN
BY DEF ChangesInv, ChangesTyped, MarkPlanning, Statuses

LEMMA Asking ==
  ASSUME ChangesInv, AskPlan \/ AskClarify \/ AskReplan \/ AskRefine \/ AskRetry
  PROVE  ChangesInv'
<1>1. row.place \in PlaceNames /\ row.days \in Int /\ kept.place \in PlaceNames /\ kept.days \in Int
  BY DEF ChangesInv, ChangesTyped, AState
<1>2. {"plan", "full_replan", "add_day"} \subseteq Kinds \ TARGETED /\ TARGETED \subseteq Kinds
  BY DEF Kinds, TARGETED
<1>3. ASSUME NEW kind \in Kinds \ TARGETED, NEW place \in PlaceNames, NEW days \in Int,
             Start(kind, FALSE, Fields(place, days)), MarkPlanning
      PROVE  ChangesInv'
  <2>1. Sound(Fields(place, days)) /\ kind \in Kinds /\ kind \notin TARGETED
    BY FieldsAreSound
  <2>2. /\ row' \in [status : Statuses, place : PlaceNames, days : Int] /\ strayed' \in BOOLEAN /\ offered' \in BOOLEAN
        /\ strayed' = strayed /\ row'.place = row.place /\ row'.days = row.days
    BY <1>3, Marking
  <2> QED BY <1>3, <2>1, <2>2, Starting
<1>4. ASSUME NEW kind \in TARGETED, NEW retry \in BOOLEAN, Start(kind, retry, Prior(kind)), MarkPlanning
      PROVE  ChangesInv'
  BY <1>2, <1>4, PriorIsThePlans, Marking, Starting
<1>5. CASE AskPlan
  BY <1>1, <1>2, <1>3, <1>5 DEF AskPlan, TripState
<1>6. CASE AskClarify
  BY <1>1, <1>2, <1>3, <1>6 DEF AskClarify
<1>7. CASE AskReplan
  <2>1. row' = [row EXCEPT !.status = "planning", !.days = @ - 1] /\ strayed' = TRUE /\ offered' = offered
    BY <1>7 DEF AskReplan
  <2>2. row' \in [status : Statuses, place : PlaceNames, days : Int] /\ offered' \in BOOLEAN /\ row.days - 1 \in Int
    <3>1. row.days - 1 \in Int
      BY <1>1
    <3>2. row' = [row EXCEPT !.status = "planning", !.days = row.days - 1]
      BY <2>1 DEF ChangesInv, ChangesTyped
    <3> QED BY <2>1, <3>1, <3>2 DEF ChangesInv, ChangesTyped, Statuses
  <2>3. Start("plan", FALSE, Fields(row.place, row.days - 1))
    BY <1>7 DEF AskReplan
  <2>4. Sound(Fields(row.place, row.days - 1)) /\ "plan" \in Kinds /\ "plan" \notin TARGETED
    BY <1>1, <1>2, <2>2, FieldsAreSound
  <2> QED BY <2>1, <2>2, <2>3, <2>4, Starting
<1>8. CASE AskRefine
  <2>1. PICK place \in PlaceNames, days \in Int :
          (IF kept = Nowhere THEN TripState ELSE Fields(kept.place, kept.days)) = Fields(place, days)
    BY <1>1 DEF TripState
  <2>2. MarkPlanning
    BY <1>8 DEF AskRefine
  <2>3. ASSUME NEW elsewhere \in Places, Start("full_replan", FALSE, [Fields(place, days) EXCEPT !.place = elsewhere])
        PROVE  ChangesInv'
    <3>1. Start("full_replan", FALSE, Fields(elsewhere, days)) /\ elsewhere \in PlaceNames
      BY <2>3, FieldsAreSound DEF PlaceNames
    <3> QED BY <1>2, <1>3, <2>2, <3>1
  <2>4. ASSUME Start("add_day", FALSE, [Fields(place, days) EXCEPT !.days = @ + 1]) PROVE ChangesInv'
    <3>1. Start("add_day", FALSE, Fields(place, days + 1))
      BY <2>4, FieldsAreSound
    <3>2. days + 1 \in Int
      OBVIOUS
    <3> QED BY <1>2, <1>3, <2>2, <3>1, <3>2
  <2>5. ASSUME NEW kind \in TARGETED, Start(kind, FALSE, Prior(kind)) PROVE ChangesInv'
    BY <1>4, <2>2, <2>5
  <2> QED BY <1>8, <2>1, <2>3, <2>4, <2>5 DEF AskRefine
<1>9. CASE AskRetry
  BY <1>4, <1>9 DEF AskRetry
<1> QED BY <1>5, <1>6, <1>7, <1>8, <1>9

----------------------------------------------------------------------------
(* The run: what is searched, sent back and built.                         *)

\* A state of the run under way: of the place and the days it was started for.
OfTheRun(state) == Sound(state) /\ state.place = job.state.place /\ state.days = job.state.days

LEMMA FindsAreOfTheRun ==
  ASSUME ChangesInv
  PROVE  /\ \A n \in Nat : Find(n) \in AFind
         /\ \A flights \in FlightsFound :
              /\ flights \in SUBSET AFind /\ Priced(flights)
              /\ flights = {} \/ \E fare \in Fares : flights = {Find(fare)} /\ Find(fare).n = fare
              /\ \A find \in flights : find.turn = job.turn
         /\ \A finds \in HotelsFound \cup PlacesFound :
              /\ finds \in SUBSET AFind
              /\ \A find \in finds : find.place = job.state.place /\ find.turn = job.turn
<1>1. job.state.place \in PlaceNames /\ job.turn \in Nat
  BY DEF ChangesInv, ChangesTyped, AJob, AState
<1>2. ASSUME NEW n \in Nat
      PROVE  Find(n) \in AFind /\ Find(n).n = n /\ Find(n).place = job.state.place /\ Find(n).turn = job.turn
  BY <1>1 DEF Find, AFind
<1>3. ASSUME NEW flights \in FlightsFound
      PROVE  /\ flights \in SUBSET AFind /\ Priced(flights)
             /\ flights = {} \/ \E fare \in Fares : flights = {Find(fare)} /\ Find(fare).n = fare
             /\ \A find \in flights : find.turn = job.turn
  <2>1. CASE flights = {}
    BY <2>1 DEF Priced
  <2>2. CASE flights # {}
    <3>1. PICK fare \in Fares : flights = {Find(fare)}
      BY <1>3, <2>2 DEF FlightsFound
    <3>2. fare \in Nat
      BY FaresAreMoney
    <3>3. Find(fare) \in AFind /\ Find(fare).n = fare /\ Find(fare).turn = job.turn
      BY <1>2, <3>2
    <3>4. Least(flights, Find(fare))
      BY <3>1, <3>2, <3>3 DEF Least
    <3> QED BY <3>1, <3>3, <3>4 DEF Priced
  <2> QED BY <2>1, <2>2
<1>4. ASSUME NEW finds \in HotelsFound \cup PlacesFound
      PROVE  /\ finds \in SUBSET AFind
             /\ \A find \in finds : find.place = job.state.place /\ find.turn = job.turn
  BY <1>2, <1>4 DEF HotelsFound, PlacesFound
<1> QED BY <1>2, <1>3, <1>4

\* A state that holds other finds of the run is a state of the run.
LEMMA NewFinds ==
  ASSUME NEW state, OfTheRun(state),
         NEW f \in SUBSET AFind, Priced(f), NEW h \in SUBSET AFind, NEW a \in SUBSET AFind,
         \A find \in h \cup a : find.place = job.state.place
  PROVE  /\ OfTheRun(Holding(state, f, h, a))
         /\ Holding(state, f, h, a).flights = f /\ Holding(state, f, h, a).hotels = h /\ Holding(state, f, h, a).attractions = a
<1>1. state \in AState /\ state.place = job.state.place /\ state.days = job.state.days
  BY DEF OfTheRun, Sound
<1>2. Holding(state, f, h, a) \in AState
  BY <1>1 DEF AState, Holding
<1>3. /\ Holding(state, f, h, a).place = state.place /\ Holding(state, f, h, a).days = state.days
      /\ Holding(state, f, h, a).flights = f /\ Holding(state, f, h, a).hotels = h /\ Holding(state, f, h, a).attractions = a
  BY <1>1 DEF AState, Holding
<1> QED BY <1>1, <1>2, <1>3 DEF OfTheRun, Sound, OfItsPlace

LEMMA WhatIsThere ==
  ASSUME NEW state, OfTheRun(state)
  PROVE  /\ state.flights \in SUBSET AFind /\ Priced(state.flights)
         /\ state.hotels \in SUBSET AFind /\ state.attractions \in SUBSET AFind
         /\ \A find \in state.hotels \cup state.attractions : find.place = job.state.place
         /\ \A f : [state EXCEPT !.flights = f] = Holding(state, f, state.hotels, state.attractions)
         /\ \A h : [state EXCEPT !.hotels = h] = Holding(state, state.flights, h, state.attractions)
         /\ \A a : [state EXCEPT !.attractions = a] = Holding(state, state.flights, state.hotels, a)
<1>1. state \in AState
  BY DEF OfTheRun, Sound
<1>2. /\ state.flights \in SUBSET AFind /\ Priced(state.flights)
      /\ state.hotels \in SUBSET AFind /\ state.attractions \in SUBSET AFind
      /\ \A find \in state.hotels \cup state.attractions : find.place = job.state.place
  BY <1>1 DEF OfTheRun, Sound, OfItsPlace, AState
<1>3. \A f : [state EXCEPT !.flights = f] = Holding(state, f, state.hotels, state.attractions)
  BY <1>1 DEF AState, Holding
<1>4. \A h : [state EXCEPT !.hotels = h] = Holding(state, state.flights, h, state.attractions)
  BY <1>1 DEF AState, Holding
<1>5. \A a : [state EXCEPT !.attractions = a] = Holding(state, state.flights, state.hotels, a)
  BY <1>1 DEF AState, Holding
<1> QED BY <1>2, <1>3, <1>4, <1>5

\* Whatever is searched, the run stays in its place; one search leaves what the others found, and adds
\* at most one flight to those there are.
LEMMA WhatIsSearched ==
  ASSUME ChangesInv, NEW first \in Searched
  PROVE  /\ OfTheRun(first)
         /\ job.kind \in TARGETED =>
              /\ job.kind # "targeted_hotel" => first.hotels = job.state.hotels
              /\ job.kind # "targeted_activities" => first.attractions = job.state.attractions
              /\ \/ first.flights = job.state.flights
                 \/ \E fare \in Fares : Find(fare).n = fare /\ first.flights = job.state.flights \cup {Find(fare)}
<1> DEFINE state == job.state
<1>1. OfTheRun(state)
  BY DEF OfTheRun, Sound, ChangesInv, ChangesTyped, AJob
<1>2. CASE job.kind \notin TARGETED
  <2>1. PICK f \in FlightsFound, h \in HotelsFound, a \in PlacesFound :
          first = Holding(state, f, h, a)
    <3>1. first \in FullSearch(state)
      BY <1>2 DEF Searched
    <3> QED BY <3>1 DEF FullSearch
  <2>2. /\ f \in SUBSET AFind /\ Priced(f) /\ h \in SUBSET AFind /\ a \in SUBSET AFind
        /\ \A find \in h \cup a : find.place = job.state.place
    BY FindsAreOfTheRun
  <2>3. OfTheRun(first)
    BY <1>1, <2>1, <2>2, NewFinds
  <2> QED BY <1>2, <2>3
<1>3. CASE job.kind \in TARGETED
  <2>1. first \in OneSearch(state)
    BY <1>3 DEF Searched
  <2>2. CASE first = state
    BY <1>1, <2>2
  <2>3. CASE job.kind = "targeted_flights" /\ first # state
    <3>1. PICK f \in FlightsFound \ {{}} : first = [state EXCEPT !.flights = Joined(state.flights, f)]
      BY <2>1, <2>3 DEF OneSearch
    <3>2. PICK fare \in Fares : f = {Find(fare)} /\ Find(fare).n = fare
      BY FindsAreOfTheRun
    <3>3. Find(fare) \in AFind
      BY FaresAreMoney, FindsAreOfTheRun
    <3>4. PICK more : more = state.flights \cup {Find(fare)}
      OBVIOUS
    <3>5. more \in SUBSET AFind /\ Priced(more)
      BY <1>1, <3>2, <3>3, <3>4, WhatIsThere, CheaperWithAnother
    <3>6. first = Holding(state, more, state.hotels, state.attractions)
      BY <1>1, <3>1, <3>2, <3>4, WhatIsThere DEF Joined
    <3>7. OfTheRun(first) /\ first.flights = more /\ first.hotels = state.hotels /\ first.attractions = state.attractions
      BY <1>1, <3>5, <3>6, WhatIsThere, NewFinds
    <3> QED BY <3>2, <3>4, <3>7
  <2>4. CASE job.kind = "targeted_hotel" /\ first # state
    <3>1. PICK h \in HotelsFound \ {{}} : first = [state EXCEPT !.hotels = h]
      BY <2>1, <2>4 DEF OneSearch
    <3>2. h \in SUBSET AFind /\ \A find \in h : find.place = job.state.place
      BY FindsAreOfTheRun
    <3>3. first = Holding(state, state.flights, h, state.attractions)
      BY <1>1, <3>1, WhatIsThere
    <3>4. OfTheRun(first) /\ first.flights = state.flights /\ first.attractions = state.attractions
      BY <1>1, <3>2, <3>3, WhatIsThere, NewFinds
    <3> QED BY <2>4, <3>4
  <2>5. CASE job.kind = "targeted_activities" /\ first # state
    <3>1. PICK found \in PlacesFound \ {{}} : first = [state EXCEPT !.attractions = @ \cup found]
      BY <2>1, <2>5 DEF OneSearch
    <3>2. PICK a : a = state.attractions \cup found
      OBVIOUS
    <3>3. a \in SUBSET AFind /\ \A find \in a : find.place = job.state.place
      <4>1. found \in SUBSET AFind /\ \A find \in found : find.place = job.state.place
        BY FindsAreOfTheRun
      <4>2. /\ state.attractions \in SUBSET AFind
            /\ \A find \in state.attractions : find.place = job.state.place
        BY <1>1, WhatIsThere
      <4> QED BY <3>2, <4>1, <4>2
    <3>4. first = Holding(state, state.flights, state.hotels, a)
      BY <1>1, <3>1, <3>2, WhatIsThere
    <3>5. OfTheRun(first) /\ first.flights = state.flights /\ first.hotels = state.hotels
      BY <1>1, <3>3, <3>4, WhatIsThere, NewFinds
    <3> QED BY <2>5, <3>5
  <2> QED BY <1>3, <2>2, <2>3, <2>4, <2>5 DEF TARGETED
<1> QED BY <1>2, <1>3

\* The evaluator has either the flights or the places searched again, and leaves the rest.
LEMMA WhatIsSentBack ==
  ASSUME ChangesInv, NEW first, OfTheRun(first), NEW state \in SentBack(first)
  PROVE  /\ OfTheRun(state) /\ state.hotels = first.hotels
         /\ \/ /\ state.attractions = first.attractions
               /\ \A find \in state.flights : find.turn = job.turn
            \/ /\ state.flights = first.flights
               /\ \A find \in state.attractions : find.turn = job.turn
<1>1. CASE \E f \in FlightsFound \ {{}} : state = [first EXCEPT !.flights = f]
  <2>1. PICK f \in FlightsFound \ {{}} : state = [first EXCEPT !.flights = f]
    BY <1>1
  <2>2. f \in SUBSET AFind /\ Priced(f) /\ \A find \in f : find.turn = job.turn
    BY FindsAreOfTheRun
  <2>3. state = Holding(first, f, first.hotels, first.attractions)
    BY <2>1, WhatIsThere
  <2>4. OfTheRun(state) /\ state.flights = f /\ state.hotels = first.hotels /\ state.attractions = first.attractions
    BY <2>2, <2>3, WhatIsThere, NewFinds
  <2> QED BY <2>2, <2>4
<1>2. CASE \E a \in PlacesFound \ {{}} : state = [first EXCEPT !.attractions = a]
  <2>1. PICK a \in PlacesFound \ {{}} : state = [first EXCEPT !.attractions = a]
    BY <1>2
  <2>2. a \in SUBSET AFind /\ \A find \in a : find.place = job.state.place /\ find.turn = job.turn
    BY FindsAreOfTheRun
  <2>3. state = Holding(first, first.flights, first.hotels, a)
    BY <2>1, WhatIsThere
  <2>4. OfTheRun(state) /\ state.flights = first.flights /\ state.hotels = first.hotels /\ state.attractions = a
    BY <2>2, <2>3, WhatIsThere, NewFinds
  <2> QED BY <2>2, <2>4
<1> QED BY <1>1, <1>2 DEF SentBack

\* A plan is built of what its state holds.
LEMMA WhatIsBuilt ==
  ASSUME ChangesInv, NEW state, OfTheRun(state), NEW built \in Builds(state)
  PROVE  /\ built \in APlan /\ built.place = state.place /\ built.days = state.days
         /\ built.fare = Cheapest(state.flights) /\ built.stops \subseteq state.attractions
         /\ IF state.hotels = {} THEN built.hotel = None ELSE built.hotel \in state.hotels
<1>1. PICK hotel \in IF state.hotels = {} THEN {None} ELSE state.hotels, stops \in SUBSET state.attractions :
        built = [turn |-> job.turn, place |-> state.place, days |-> state.days, fare |-> Cheapest(state.flights),
                 hotel |-> hotel, stops |-> stops]
  BY DEF Builds
<1>2. state \in AState /\ Priced(state.flights) /\ job.turn \in Nat
  BY DEF OfTheRun, Sound, ChangesInv, ChangesTyped, AJob
<1>3. Cheapest(state.flights) \in Nat
  BY <1>2, CheapestIsMoney DEF AState
<1>4. hotel \in AFind /\ stops \in SUBSET AFind /\ state.place \in PlaceNames /\ state.days \in Int
  BY <1>2, EmptyStates DEF AState
<1>5. built \in APlan
  BY <1>1, <1>2, <1>3, <1>4 DEF APlan
<1>6. /\ built.place = state.place /\ built.days = state.days /\ built.fare = Cheapest(state.flights)
      /\ built.stops = stops /\ built.hotel = hotel
  BY <1>1
<1> QED BY <1>5, <1>6

----------------------------------------------------------------------------
(* What a step keeps.                                                      *)

\* What a delivery leaves, of a state of the run: in its first pass, or sent back once.
LEMMA WhatIsDelivered ==
  ASSUME ChangesInv, NEW again \in BOOLEAN, Deliver(again)
  PROVE  /\ \E first \in Searched :
              \E state \in IF again THEN SentBack(first) ELSE {first} :
                \E built \in Builds(state) :
                  /\ OfTheRun(first) /\ OfTheRun(state)
                  /\ plan' = built /\ saving' = [state EXCEPT !.plan = built]
                  /\ row' = [status |-> "completed", place |-> state.place, days |-> state.days]
         /\ job' = Idle /\ strayed' = FALSE /\ offered' = FALSE /\ kept' = kept /\ turns' = turns
<1>1. PICK first \in Searched : \E state \in IF again THEN SentBack(first) ELSE {first} :
        \E built \in Builds(state) :
          /\ plan' = built /\ saving' = [state EXCEPT !.plan = built]
          /\ row' = [status |-> "completed", place |-> state.place, days |-> state.days]
  BY DEF Deliver, SyncTrip
<1>2. OfTheRun(first)
  BY WhatIsSearched
<1>3. \A state \in IF again THEN SentBack(first) ELSE {first} : OfTheRun(state)
  BY <1>2, WhatIsSentBack
<1>4. job' = Idle /\ strayed' = FALSE /\ offered' = FALSE /\ kept' = kept /\ turns' = turns
  BY DEF Deliver
<1> QED BY <1>1, <1>2, <1>3, <1>4

\* The state of a run with the plan that was built of it: it holds what its plan is made of.
LEMMA SavedWithItsPlan ==
  ASSUME ChangesInv, NEW state, OfTheRun(state), NEW built \in Builds(state),
         NEW now, now = [state EXCEPT !.plan = built]
  PROVE  /\ Sound(now) /\ HoldsItsPlan(now)
         /\ now.flights = state.flights /\ now.attractions = state.attractions
<1>1. state \in AState /\ Priced(state.flights) /\ OfItsPlace(state)
  BY DEF OfTheRun, Sound
<1>2. /\ built \in APlan /\ built.place = state.place /\ built.days = state.days
      /\ built.fare = Cheapest(state.flights) /\ built.stops \subseteq state.attractions
      /\ IF state.hotels = {} THEN built.hotel = None ELSE built.hotel \in state.hotels
  BY WhatIsBuilt
<1>3. now \in AState
  BY <1>1, <1>2 DEF AState
<1>4. /\ now.place = state.place /\ now.days = state.days /\ now.plan = built
      /\ now.flights = state.flights /\ now.hotels = state.hotels /\ now.attractions = state.attractions
  BY <1>1 DEF AState
<1> QED BY <1>1, <1>2, <1>3, <1>4 DEF Sound, HoldsItsPlan, OfItsPlace

LEMMA Delivering == ASSUME ChangesInv, NEW again \in BOOLEAN, Deliver(again) PROVE ChangesInv'
<1>1. PICK state : \E built \in Builds(state) :
        /\ OfTheRun(state)
        /\ plan' = built /\ saving' = [state EXCEPT !.plan = built]
        /\ row' = [status |-> "completed", place |-> state.place, days |-> state.days]
  BY WhatIsDelivered
<1>2. PICK built \in Builds(state) :
        /\ plan' = built /\ saving' = [state EXCEPT !.plan = built]
        /\ row' = [status |-> "completed", place |-> state.place, days |-> state.days]
  BY <1>1
<1>3. job' = Idle /\ strayed' = FALSE /\ offered' = FALSE /\ kept' = kept /\ turns' = turns
  BY WhatIsDelivered
<1>4. Sound(saving') /\ HoldsItsPlan(saving')
  BY <1>1, <1>2, SavedWithItsPlan
<1>5. /\ built \in APlan /\ built.place = state.place /\ built.days = state.days
      /\ built.stops \subseteq state.attractions
      /\ IF state.hotels = {} THEN built.hotel = None ELSE built.hotel \in state.hotels
  BY <1>1, WhatIsBuilt
<1>6. state \in AState /\ OfItsPlace(state)
  BY <1>1 DEF OfTheRun, Sound
<1>7. row' \in [status : Statuses, place : PlaceNames, days : Int]
  BY <1>2, <1>6 DEF Statuses, AState
<1>8. ChangesTyped'
  BY <1>2, <1>3, <1>4, <1>5, <1>7, EmptyStates DEF ChangesInv, ChangesTyped, Sound
<1>9. job'.state = Nowhere /\ job'.kind \notin TARGETED
  BY <1>3 DEF Idle, TARGETED
<1>10. \A s \in {kept', saving', job'.state} : Priced(s.flights) /\ OfItsPlace(s)
  BY <1>3, <1>4, <1>9, EmptyStates DEF ChangesInv, Sound
<1>11. HoldsItsPlan(kept') /\ HoldsItsPlan(saving')
  BY <1>3, <1>4 DEF ChangesInv
<1>12. \A find \in plan'.stops \cup ({plan'.hotel} \ {None}) : find.place = plan'.place
  BY <1>2, <1>5, <1>6 DEF OfItsPlace
<1>13. row'.place = plan'.place /\ row'.days = plan'.days
  BY <1>2, <1>5
<1> QED BY <1>8, <1>9, <1>10, <1>11, <1>12, <1>13 DEF ChangesInv

LEMMA Failing == ASSUME ChangesInv, Fail PROVE ChangesInv'
<1>1. PICK synced, conflict \in BOOLEAN : \E status \in {"completed", "failed"} :
        /\ row' = IF synced THEN [status |-> status, place |-> job.state.place, days |-> job.state.days]
                  ELSE [row EXCEPT !.status = status]
        /\ offered' = conflict /\ strayed' = (strayed \/ synced)
  BY DEF Fail
<1>2. PICK status \in {"completed", "failed"} :
        row' = IF synced THEN [status |-> status, place |-> job.state.place, days |-> job.state.days]
               ELSE [row EXCEPT !.status = status]
  BY <1>1
<1>3. job' = Idle /\ plan' = plan /\ kept' = kept /\ saving' = saving /\ turns' = turns
  BY DEF Fail
<1>4. job.state.place \in PlaceNames /\ job.state.days \in Int
  BY DEF ChangesInv, ChangesTyped, AJob, AState
<1>5. row' \in [status : Statuses, place : PlaceNames, days : Int] /\ (~synced => row'.place = row.place /\ row'.days = row.days)
  BY <1>2, <1>4 DEF ChangesInv, ChangesTyped, Statuses
<1>6. offered' \in BOOLEAN /\ strayed' \in BOOLEAN /\ (~strayed' => ~strayed /\ ~synced)
  BY <1>1 DEF ChangesInv, ChangesTyped
<1>7. ChangesTyped'
  BY <1>3, <1>5, <1>6, EmptyStates DEF ChangesInv, ChangesTyped
<1>8. job'.state = Nowhere /\ job'.kind \notin TARGETED
  BY <1>3 DEF Idle, TARGETED
<1> QED BY <1>3, <1>5, <1>6, <1>7, <1>8, EmptyStates DEF ChangesInv

LEMMA Saving == ASSUME ChangesInv, SaveState \/ StateExpires PROVE ChangesInv'
<1>1. /\ row' = row /\ plan' = plan /\ job' = job /\ turns' = turns /\ offered' = offered /\ strayed' = strayed
      /\ kept' \in {kept, saving, Nowhere} /\ saving' \in {saving, Nowhere}
  BY DEF SaveState, StateExpires
<1>2. ChangesTyped'
  BY <1>1, EmptyStates DEF ChangesInv, ChangesTyped
<1>3. \A s \in {kept', saving', job'.state} : Priced(s.flights) /\ OfItsPlace(s)
  BY <1>1, EmptyStates DEF ChangesInv
<1>4. HoldsItsPlan(kept') /\ HoldsItsPlan(saving')
  BY <1>1, EmptyStates DEF ChangesInv
<1>5. /\ job'.kind \in TARGETED => FromThePlan(job'.kind, job'.state)
      /\ plan'.turn # 0 => \A find \in plan'.stops \cup ({plan'.hotel} \ {None}) : find.place = plan'.place
      /\ plan'.turn # 0 /\ ~strayed' => row'.place = plan'.place /\ row'.days = plan'.days
  BY <1>1 DEF ChangesInv
<1> QED BY <1>2, <1>3, <1>4, <1>5 DEF ChangesInv

LEMMA ChangesStep == ChangesInv /\ [ChangesNext]_changes_vars => ChangesInv'
<1> SUFFICES ASSUME ChangesInv, [ChangesNext]_changes_vars PROVE ChangesInv'
  OBVIOUS
<1>1. CASE AskPlan \/ AskClarify \/ AskReplan \/ AskRefine \/ AskRetry
  BY <1>1, Asking
<1>2. CASE Deliver(FALSE) \/ Deliver(TRUE)
  BY <1>2, Delivering
<1>3. CASE Fail
  BY <1>3, Failing
<1>4. CASE SaveState \/ StateExpires
  BY <1>4, Saving
<1>5. CASE UNCHANGED changes_vars
  <2>1. /\ row' = row /\ plan' = plan /\ kept' = kept /\ saving' = saving /\ job' = job /\ turns' = turns
        /\ offered' = offered /\ strayed' = strayed
    BY <1>5 DEF changes_vars
  <2> QED BY <2>1 DEF ChangesInv, ChangesTyped
<1> QED BY <1>1, <1>2, <1>3, <1>4, <1>5 DEF ChangesNext

\* A plan is of one place, and while no run has left its own place or dates on the trip's row without
\* making a plan of them, the row tells the place and the days of the plan the traveller sees.
THEOREM PlanIsOfTheTrip == MCSpec => []PlanIsOfItsTrip
<1>1. MCSpec => [][MCNext]_all /\ MCInit
  BY DEF MCSpec
<1>2. MCInit => ChangesInv
  BY ChangesStart DEF MCInit
<1>3. ChangesInv => PlanIsOfItsTrip
  BY DEF ChangesInv, PlanIsOfItsTrip
<1> QED BY <1>1, <1>2, <1>3, ChangesByThemselves, ChangesStep, PTL

----------------------------------------------------------------------------
(* A change keeps the rest.                                                *)

\* What a step may do to the plan, in the words of KeepsTheRest.
HotelKept == job.kind # "targeted_hotel" /\ plan.hotel # None => plan'.hotel = plan.hotel
StopsKept ==
  \/ ~(job.kind # "targeted_activities" /\ plan.stops # {}) \/ plan'.stops \subseteq plan.stops
  \/ \A find \in saving'.attractions : find.turn = job.turn
FareKept ==
  \/ plan.fare # 0 => plan'.fare \in 1..plan.fare
  \/ \A find \in saving'.flights : find.turn = job.turn
RestKept ==
  (OnTheLatest /\ plan' # plan) =>
    /\ HotelKept
    /\ StopsKept
    /\ FareKept
    /\ plan'.place = plan.place /\ plan'.days = plan.days

LEMMA RestKeptByDelivery == ASSUME ChangesInv, NEW again \in BOOLEAN, Deliver(again), OnTheLatest PROVE RestKept
<1>1. PICK first \in Searched : \E state \in IF again THEN SentBack(first) ELSE {first} :
        \E built \in Builds(state) :
          /\ OfTheRun(first) /\ OfTheRun(state)
          /\ plan' = built /\ saving' = [state EXCEPT !.plan = built]
          /\ row' = [status |-> "completed", place |-> state.place, days |-> state.days]
  BY WhatIsDelivered
<1>2. PICK state \in IF again THEN SentBack(first) ELSE {first} :
        \E built \in Builds(state) :
          OfTheRun(first) /\ OfTheRun(state) /\ plan' = built /\ saving' = [state EXCEPT !.plan = built]
  BY <1>1
<1>3. PICK built \in Builds(state) :
        OfTheRun(first) /\ OfTheRun(state) /\ plan' = built /\ saving' = [state EXCEPT !.plan = built]
  BY <1>2
<1>4. job.kind \in TARGETED /\ job.state.plan = plan /\ FromThePlan(job.kind, job.state)
  BY DEF OnTheLatest, ChangesInv
<1>5. /\ job.kind # "targeted_hotel" => first.hotels = job.state.hotels
      /\ job.kind # "targeted_activities" => first.attractions = job.state.attractions
      /\ \/ first.flights = job.state.flights
         \/ \E fare \in Fares : Find(fare).n = fare /\ first.flights = job.state.flights \cup {Find(fare)}
  BY <1>4, WhatIsSearched
<1>6. /\ state.hotels = first.hotels
      /\ \/ state.attractions = first.attractions
         \/ \A find \in state.attractions : find.turn = job.turn
      /\ \/ state.flights = first.flights
         \/ \A find \in state.flights : find.turn = job.turn
  <2>1. CASE again
    BY <1>2, <1>3, <2>1, WhatIsSentBack
  <2>2. CASE ~again
    BY <1>2, <2>2
  <2> QED BY <2>1, <2>2
<1>7. /\ built.place = state.place /\ built.days = state.days
      /\ built.fare = Cheapest(state.flights) /\ built.stops \subseteq state.attractions
      /\ IF state.hotels = {} THEN built.hotel = None ELSE built.hotel \in state.hotels
  BY <1>3, WhatIsBuilt
<1>8. saving'.flights = state.flights /\ saving'.attractions = state.attractions
  BY <1>3, SavedWithItsPlan
<1>9. plan'.place = plan.place /\ plan'.days = plan.days
  BY <1>3, <1>4, <1>7 DEF FromThePlan, OfTheRun
<1>10. HotelKept
  <2>1. ASSUME job.kind # "targeted_hotel", plan.hotel # None PROVE built.hotel = plan.hotel
    <3>1. state.hotels = {plan.hotel}
      BY <1>4, <1>5, <1>6, <2>1 DEF FromThePlan
    <3> QED BY <3>1, <1>7
  <2> QED BY <1>3, <2>1 DEF HotelKept
<1>11. StopsKept
  <2>1. CASE \A find \in state.attractions : find.turn = job.turn
    BY <1>8, <2>1 DEF StopsKept
  <2>2. CASE state.attractions = first.attractions
    <3>1. ASSUME job.kind # "targeted_activities", plan.stops # {} PROVE built.stops \subseteq plan.stops
      BY <1>4, <1>5, <1>7, <2>2, <3>1 DEF FromThePlan
    <3> QED BY <1>3, <3>1 DEF StopsKept
  <2> QED BY <1>6, <2>1, <2>2
<1>12. FareKept
  <2>1. CASE \A find \in state.flights : find.turn = job.turn
    BY <1>8, <2>1 DEF FareKept
  <2>2. CASE state.flights = first.flights
    <3>1. plan.fare = Cheapest(job.state.flights)
      BY <1>4 DEF FromThePlan
    <3>2. job.state.flights \in SUBSET AFind /\ Priced(job.state.flights)
      BY DEF ChangesInv, ChangesTyped, AJob, AState
    <3>3. ASSUME plan.fare # 0 PROVE built.fare \in 1..plan.fare
      <4>1. plan.fare \in Nat /\ job.state.flights # {}
        BY <3>1, <3>2, <3>3, CheapestIsMoney
      <4>2. CASE first.flights = job.state.flights
        BY <1>7, <2>2, <3>1, <3>3, <4>1, <4>2
      <4>3. CASE \E fare \in Fares : Find(fare).n = fare /\ first.flights = job.state.flights \cup {Find(fare)}
        <5>1. PICK fare \in Fares : Find(fare).n = fare /\ first.flights = job.state.flights \cup {Find(fare)}
          BY <4>3
        <5>2. Find(fare) \in AFind
          BY FaresAreMoney, FindsAreOfTheRun
        <5>3. Cheapest(first.flights) \in 1..Cheapest(job.state.flights)
          BY <3>2, <4>1, <5>1, <5>2, CheaperWithAnother
        <5> QED BY <1>7, <2>2, <3>1, <5>3
      <4> QED BY <1>5, <4>2, <4>3
    <3> QED BY <1>3, <3>3 DEF FareKept
  <2> QED BY <1>6, <2>1, <2>2
<1> QED BY <1>9, <1>10, <1>11, <1>12 DEF RestKept

LEMMA RestKeptByAll == ChangesInv /\ [ChangesNext]_changes_vars => [RestKept]_changes_vars
<1> SUFFICES ASSUME ChangesInv, ChangesNext, OnTheLatest, plan' # plan PROVE RestKept
  BY DEF RestKept
<1>1. ASSUME AskPlan \/ AskClarify \/ AskReplan \/ AskRefine \/ AskRetry PROVE plan' = plan
  BY <1>1 DEF AskPlan, AskClarify, AskReplan, AskRefine, AskRetry, Start
<1>2. ASSUME Fail \/ SaveState \/ StateExpires PROVE plan' = plan
  BY <1>2 DEF Fail, SaveState, StateExpires
<1>3. Deliver(FALSE) \/ Deliver(TRUE)
  BY <1>1, <1>2 DEF ChangesNext
<1> QED BY <1>3, RestKeptByDelivery

\* A change of one thing keeps the rest of the plan the traveller sees: its hotel, its stops, its place
\* and its days, and a fare that never rises.
LEMMA RestIsKept == MCSpec => KeepsTheRest
<1>1. MCSpec => [][MCNext]_all /\ MCInit
  BY DEF MCSpec
<1>2. MCInit => ChangesInv
  BY ChangesStart DEF MCInit
<1>3. [][RestKept]_changes_vars => KeepsTheRest
  BY DEF KeepsTheRest, RestKept, HotelKept, StopsKept, FareKept
<1> QED BY <1>1, <1>2, <1>3, ChangesByThemselves, ChangesStep, RestKeptByAll, PTL

\* A change keeps the rest of a plan, and what was saved of a traveller's preferences is not taken away.
THEOREM NothingIsTakenAway == MCSpec => NothingTakenAway
<1>1. NothingTakenAway <=> KeepsTheRest /\ PreferencesKept
  BY DEF NothingTakenAway
<1> QED BY <1>1, RestIsKept, PreferencesAreKept, PTL

----------------------------------------------------------------------------
(* What a trip costs.                                                      *)

\* A value of each piece of work of each session.
Table(f, T) == f = [s \in Sessions |-> f[s]] /\ \A s \in Sessions : f[s] \in [Works(s) -> T]
Phases == {"idle", "open", "closed", "written", "logged"}
Answers == [cost : Nat, calls : Nat]
Contexts == {<<>>, <<RUN>>} \cup {<<RUN, agent>> : agent \in UNION {Agents[s] : s \in Sessions}}
UsageTyped ==
  /\ Table(phase, Phases) /\ Table(tally, Nat) /\ Table(asking, BOOLEAN) /\ Table(spent, Answers)
  /\ Table(context, Contexts)
  /\ adding = [s \in Sessions |-> adding[s]] /\ \A s \in Sessions : adding[s] \in Works(s) \cup {NoOne}
  /\ billed \in Nat /\ alerts \in Nat /\ apart \in BOOLEAN

\* The meters that are open where a piece of work goes on: its own the innermost, and only while it goes on.
OpenMeters(s, w) ==
  IF w = RUN THEN (IF phase[s][w] = "open" THEN <<RUN>> ELSE <<>>)
  ELSE CASE phase[s][w] = "idle" -> <<>> [] phase[s][w] = "open" -> <<RUN, w>> [] OTHER -> <<RUN>>
Metered ==
  \A s \in Sessions : \A w \in Works(s) :
    /\ context[s][w] = OpenMeters(s, w)
    /\ asking[s][w] => phase[s][w] = "open"
    /\ tally[s][w] = spent[s][w].cost
    /\ phase[s][w] = "written" <=> adding[s] = w

\* While the rows can be added up and only one of them is being: whoever is to add them up will find what
\* has been warned of, and its own row.
Over(cost) == IF cost > CostLimit THEN 1 ELSE 0
Warned ==
  apart =>
    /\ \A s, t \in Sessions : adding[s] # NoOne /\ adding[t] # NoOne => s = t
    /\ \A s \in Sessions : adding[s] # NoOne => alerts = Over(billed - tally[s][adding[s]])
    /\ (\A s \in Sessions : adding[s] = NoOne) => alerts = Over(billed)

UsageInv == UsageTyped /\ Metered /\ Warned

LEMMA TableKept ==
  ASSUME NEW f, NEW T, Table(f, T), NEW s \in Sessions, NEW w \in Works(s), NEW x \in T
  PROVE  /\ Table([f EXCEPT ![s][w] = x], T)
         /\ \A t \in Sessions : \A v \in Works(t) :
              [f EXCEPT ![s][w] = x][t][v] = IF t = s /\ v = w THEN x ELSE f[t][v]
BY DEF Table

LEMMA NoOneWorks == ASSUME NEW s \in Sessions PROVE NoOne \notin Works(s) /\ RUN \in Works(s) /\ NoOne # RUN
BY UsageAssumption DEF Works, RUN, NoOne

LEMMA UsageStart == UsageInit => UsageInv
<1> SUFFICES ASSUME UsageInit PROVE UsageInv
  OBVIOUS
<1>1. ASSUME NEW x, NEW T, x \in T
      PROVE  Table(ForEach(x), T) /\ \A s \in Sessions : \A w \in Works(s) : ForEach(x)[s][w] = x
  BY <1>1 DEF Table, ForEach
<1>2. /\ phase = ForEach("idle") /\ context = ForEach(<<>>) /\ tally = ForEach(0) /\ asking = ForEach(FALSE)
      /\ spent = ForEach([cost |-> 0, calls |-> 0]) /\ adding = [s \in Sessions |-> NoOne]
      /\ billed = 0 /\ alerts = 0 /\ apart = TRUE
  BY DEF UsageInit
<1>3. "idle" \in Phases /\ <<>> \in Contexts /\ [cost |-> 0, calls |-> 0] \in Answers
  BY DEF Phases, Contexts, Answers
<1>4. UsageTyped
  BY <1>1, <1>2, <1>3 DEF UsageTyped
<1>5. ASSUME NEW s \in Sessions, NEW w \in Works(s)
      PROVE  /\ phase[s][w] = "idle" /\ context[s][w] = <<>> /\ tally[s][w] = 0 /\ asking[s][w] = FALSE
             /\ spent[s][w].cost = 0 /\ adding[s] = NoOne /\ adding[s] # w
  <2>1. phase[s][w] = "idle" /\ context[s][w] = <<>> /\ asking[s][w] = FALSE
    BY <1>1, <1>2
  <2>2. tally[s][w] = 0 /\ spent[s][w] = [cost |-> 0, calls |-> 0]
    BY <1>1, <1>2
  <2>3. adding[s] = NoOne /\ adding[s] # w
    BY <1>2, NoOneWorks
  <2> QED BY <2>1, <2>2, <2>3
<1>6. Metered
  <2>1. ASSUME NEW s \in Sessions, NEW w \in Works(s) PROVE OpenMeters(s, w) = <<>>
    BY <1>5 DEF OpenMeters
  <2>2. ASSUME NEW s \in Sessions, NEW w \in Works(s)
        PROVE  /\ context[s][w] = OpenMeters(s, w) /\ ~asking[s][w] /\ tally[s][w] = spent[s][w].cost
               /\ phase[s][w] # "written" /\ adding[s] # w
    BY <1>5, <2>1
  <2> QED BY <2>2 DEF Metered
<1>7. Warned
  <2>1. Over(billed) = 0
    BY <1>2, UsageAssumption DEF Over
  <2> QED BY <1>2, <2>1 DEF Warned
<1> QED BY <1>4, <1>6, <1>7 DEF UsageInv

\* What is Metered of one piece of work; the rest of it.
MeteredOf(s, w) ==
  /\ context[s][w] = OpenMeters(s, w)
  /\ asking[s][w] => phase[s][w] = "open"
  /\ tally[s][w] = spent[s][w].cost
  /\ phase[s][w] = "written" <=> adding[s] = w

\* A second joins a first, and leaves it again.
LEMMA Pairs ==
  ASSUME NEW a, NEW b
  PROVE  Append(<<a>>, b) = <<a, b>> /\ SubSeq(<<a, b>>, 1, Len(<<a, b>>) - 1) = <<a>>
<1>1. <<a>> \in Seq({a, b}) /\ <<a, b>> \in Seq({a, b}) /\ b \in {a, b}
  OBVIOUS
<1>2. Len(<<a>>) = 1 /\ Len(<<a, b>>) = 2 /\ <<a>>[1] = a /\ <<a, b>>[1] = a /\ <<a, b>>[2] = b
  OBVIOUS
<1>3. Append(<<a>>, b) = <<a, b>>
  <2>1. Append(<<a>>, b) \in Seq({a, b}) /\ Len(Append(<<a>>, b)) = 2
    BY <1>1, <1>2
  <2>2. Append(<<a>>, b)[1] = a /\ Append(<<a>>, b)[2] = b
    BY <1>1, <1>2
  <2>3. \A i \in 1..2 : Append(<<a>>, b)[i] = <<a, b>>[i]
    BY <2>2, <1>2
  <2> QED BY <1>1, <1>2, <2>1, <2>3, SeqEqual
<1>4. SubSeq(<<a, b>>, 1, 1) = <<a>>
  <2>1. \A i \in 1..1 : <<a, b>>[i] \in {a, b}
    BY <1>2
  <2>2. /\ SubSeq(<<a, b>>, 1, 1) \in Seq({a, b}) /\ Len(SubSeq(<<a, b>>, 1, 1)) = 1
        /\ SubSeq(<<a, b>>, 1, 1)[1] = <<a, b>>[1]
    BY <2>1, SubSeqProperties
  <2>3. \A i \in 1..1 : SubSeq(<<a, b>>, 1, 1)[i] = <<a>>[i]
    BY <2>2, <1>2
  <2> QED BY <1>1, <1>2, <2>2, <2>3, SeqEqual
<1> QED BY <1>2, <1>3, <1>4

\* A work's meter is opened inside the run's, closed again, and counts what the work is answered, alone.
LEMMA MetersOpenAndClose ==
  ASSUME UsageInv, NEW s \in Sessions, NEW w \in Works(s)
  PROVE  /\ phase[s][w] = "idle" /\ (w # RUN => phase[s][RUN] = "open") =>
              Append(Around(s, w), w) = (IF w = RUN THEN <<RUN>> ELSE <<RUN, w>>)
         /\ phase[s][w] = "open" =>
              /\ SubSeq(context[s][w], 1, Len(context[s][w]) - 1) = (IF w = RUN THEN <<>> ELSE <<RUN>>)
              /\ credited(context[s][w]) = {w}
<1>1. RUN \in Works(s) /\ context[s][w] = OpenMeters(s, w) /\ context[s][RUN] = OpenMeters(s, RUN)
  BY NoOneWorks DEF UsageInv, Metered
<1>2. ASSUME phase[s][w] = "idle", w # RUN => phase[s][RUN] = "open"
      PROVE  Append(Around(s, w), w) = (IF w = RUN THEN <<RUN>> ELSE <<RUN, w>>)
  <2>1. Around(s, w) = IF w = RUN THEN <<>> ELSE <<RUN>>
    BY <1>1, <1>2 DEF Around, OpenMeters
  <2>2. CASE w = RUN
    BY <2>1, <2>2
  <2>3. CASE w # RUN
    BY <2>1, <2>3, Pairs
  <2> QED BY <2>2, <2>3
<1>3. ASSUME phase[s][w] = "open"
      PROVE  /\ SubSeq(context[s][w], 1, Len(context[s][w]) - 1) = (IF w = RUN THEN <<>> ELSE <<RUN>>)
             /\ credited(context[s][w]) = {w}
  <2>1. context[s][w] = IF w = RUN THEN <<RUN>> ELSE <<RUN, w>>
    BY <1>1, <1>3 DEF OpenMeters
  <2>2. CASE w = RUN
    BY <2>1, <2>2 DEF credited, Last
  <2>3. CASE w # RUN
    <3>1. context[s][w] = <<RUN, w>>
      BY <2>1, <2>3
    <3>2. SubSeq(<<RUN, w>>, 1, Len(<<RUN, w>>) - 1) = <<RUN>>
      BY Pairs
    <3>3. credited(<<RUN, w>>) = {w}
      BY DEF credited, Last
    <3> QED BY <2>3, <3>1, <3>2, <3>3
  <2> QED BY <2>2, <2>3
<1> QED BY <1>2, <1>3

\* Steps of one piece of work: what they leave alone.
LEMMA TablesApart ==
  ASSUME UsageTyped, NEW s \in Sessions, NEW w \in Works(s), NEW t \in Sessions, NEW v \in Works(t), ~(t = s /\ v = w)
  PROVE  /\ \A x \in Phases : [phase EXCEPT ![s][w] = x][t][v] = phase[t][v]
         /\ \A x \in Contexts : [context EXCEPT ![s][w] = x][t][v] = context[t][v]
         /\ \A x \in BOOLEAN : [asking EXCEPT ![s][w] = x][t][v] = asking[t][v]
         /\ \A x \in Answers : [spent EXCEPT ![s][w] = x][t][v] = spent[t][v]
BY TableKept DEF UsageTyped

LEMMA OpenMetersAreContexts ==
  ASSUME NEW s \in Sessions, NEW w \in Works(s)
  PROVE  (IF w = RUN THEN <<RUN>> ELSE <<RUN, w>>) \in Contexts /\ (IF w = RUN THEN <<>> ELSE <<RUN>>) \in Contexts
BY DEF Contexts, Works

LEMMA OpeningAMeter == ASSUME UsageInv, NEW s \in Sessions, NEW w \in Works(s), metered(s, w) PROVE UsageInv'
<1>1. PICK opened : opened = IF w = RUN THEN <<RUN>> ELSE <<RUN, w>>
  OBVIOUS
<1>2. phase[s][w] = "idle" /\ (w # RUN => phase[s][RUN] = "open")
  BY DEF metered
<1>3. opened \in Contexts /\ context' = [context EXCEPT ![s][w] = opened]
  BY <1>1, <1>2, MetersOpenAndClose, OpenMetersAreContexts DEF metered
<1>4. /\ phase' = [phase EXCEPT ![s][w] = "open"] /\ tally' = tally /\ asking' = asking /\ billed' = billed
      /\ adding' = adding /\ alerts' = alerts /\ spent' = spent /\ apart' = apart /\ "open" \in Phases
  BY DEF metered, Phases
<1>5. UsageTyped'
  BY <1>3, <1>4, TableKept DEF UsageInv, UsageTyped
<1>6. phase'[s][w] = "open" /\ context'[s][w] = opened
  <2>1. phase'[s][w] = "open"
    BY <1>4, TableKept DEF UsageInv, UsageTyped
  <2>2. context'[s][w] = opened
    BY <1>3, TableKept DEF UsageInv, UsageTyped
  <2> QED BY <2>1, <2>2
<1>7. ASSUME NEW t \in Sessions, NEW v \in Works(t) PROVE MeteredOf(t, v)'
  <2>1. MeteredOf(t, v)
    BY DEF UsageInv, Metered, MeteredOf
  <2>2. CASE t = s /\ v = w
    BY <1>1, <1>2, <1>4, <1>6, <2>1, <2>2 DEF MeteredOf, OpenMeters
  <2>3. CASE ~(t = s /\ v = w)
    <3>1. phase'[t][v] = phase[t][v] /\ context'[t][v] = context[t][v]
      BY <1>3, <1>4, <2>3, TablesApart DEF UsageInv
    <3> QED BY <1>4, <2>1, <3>1 DEF MeteredOf, OpenMeters
  <2> QED BY <2>2, <2>3
<1>8. Warned'
  BY <1>4 DEF UsageInv, Warned
<1> QED BY <1>5, <1>7, <1>8 DEF UsageInv, Metered, MeteredOf

LEMMA AskingAModel == ASSUME UsageInv, NEW s \in Sessions, NEW w \in Works(s), AskModel(s, w) PROVE UsageInv'
<1>1. /\ asking' = [asking EXCEPT ![s][w] = TRUE] /\ phase' = phase /\ context' = context /\ tally' = tally
      /\ billed' = billed /\ adding' = adding /\ alerts' = alerts /\ spent' = spent /\ apart' = apart
      /\ phase[s][w] = "open"
  BY DEF AskModel, ItsTurn
<1>2. UsageTyped'
  BY <1>1, TableKept DEF UsageInv, UsageTyped
<1>3. ASSUME NEW t \in Sessions, NEW v \in Works(t) PROVE MeteredOf(t, v)'
  <2>1. MeteredOf(t, v)
    BY DEF UsageInv, Metered, MeteredOf
  <2>2. asking'[t][v] => asking[t][v] \/ (t = s /\ v = w)
    BY <1>1, TablesApart DEF UsageInv
  <2> QED BY <1>1, <2>1, <2>2 DEF MeteredOf, OpenMeters
<1>4. Warned'
  BY <1>1 DEF UsageInv, Warned
<1> QED BY <1>2, <1>3, <1>4 DEF UsageInv, Metered, MeteredOf

\* An answer is counted by the meter of the work that asked, and by no other.
LEMMA Answering ==
  ASSUME UsageInv, NEW s \in Sessions, NEW w \in Works(s), NEW cost \in AnswerCosts, on_llm_end(s, w, cost)
  PROVE  UsageInv'
<1>1. cost \in Nat
  BY UsageAssumption
<1>2. asking[s][w] /\ phase[s][w] = "open"
  BY DEF on_llm_end, UsageInv, Metered
<1>3. credited(context[s][w]) = {w}
  BY <1>2, MetersOpenAndClose
<1>4. PICK counted_ : counted_ = tally[s][w] + cost
  OBVIOUS
<1>5. tally[s] \in [Works(s) -> Nat] /\ tally[s][w] \in Nat /\ counted_ \in Nat
  BY <1>1, <1>4 DEF UsageInv, UsageTyped, Table
<1>6. [m \in Works(s) |-> IF m \in credited(context[s][w]) THEN tally[s][m] + cost ELSE tally[s][m]]
      = [tally[s] EXCEPT ![w] = counted_]
  BY <1>3, <1>4, <1>5
<1>7. tally' = [tally EXCEPT ![s][w] = counted_]
  <2>1. tally' = [tally EXCEPT ![s] = [m \in Works(s) |-> IF m \in credited(context[s][w]) THEN tally[s][m] + cost
                                                         ELSE tally[s][m]]]
    BY DEF on_llm_end, UsageInv, UsageTyped, Table
  <2>2. tally' = [tally EXCEPT ![s] = [tally[s] EXCEPT ![w] = counted_]]
    BY <1>6, <2>1
  <2> QED BY <2>2 DEF UsageInv, UsageTyped, Table
<1>8. PICK now : now = [cost |-> spent[s][w].cost + cost, calls |-> spent[s][w].calls + 1]
  OBVIOUS
<1>9. spent[s][w] \in Answers
  BY DEF UsageInv, UsageTyped, Table
<1>10. now \in Answers /\ now.cost = spent[s][w].cost + cost
  BY <1>1, <1>8, <1>9 DEF Answers
<1>11. spent' = [spent EXCEPT ![s][w] = now]
  BY <1>8 DEF on_llm_end, UsageInv, UsageTyped, Table
<1>12. /\ asking' = [asking EXCEPT ![s][w] = FALSE] /\ phase' = phase /\ context' = context
       /\ billed' = billed /\ adding' = adding /\ alerts' = alerts /\ apart' = apart
  BY DEF on_llm_end
<1>13. UsageTyped'
  BY <1>5, <1>7, <1>10, <1>11, <1>12, TableKept DEF UsageInv, UsageTyped
<1>14. \A t \in Sessions : \A v \in Works(t) : tally'[t][v] = IF t = s /\ v = w THEN counted_ ELSE tally[t][v]
  <2>1. Table(tally, Nat)
    BY DEF UsageInv, UsageTyped
  <2> QED BY <1>5, <1>7, <2>1, TableKept
<1>15. ASSUME NEW t \in Sessions, NEW v \in Works(t) PROVE MeteredOf(t, v)'
  <2>1. MeteredOf(t, v)
    BY DEF UsageInv, Metered, MeteredOf
  <2>2. asking'[t][v] => asking[t][v]
    <3>1. CASE t = s /\ v = w
      BY <1>2, <3>1
    <3>2. CASE ~(t = s /\ v = w)
      BY <1>12, <3>2, TablesApart DEF UsageInv
    <3> QED BY <3>1, <3>2
  <2>3. tally'[t][v] = spent'[t][v].cost
    <3>1. CASE t = s /\ v = w
      <4>1. spent'[t][v] = now
        BY <1>10, <1>11, <3>1, TableKept DEF UsageInv, UsageTyped
      <4> QED BY <1>4, <1>10, <1>14, <2>1, <3>1, <4>1 DEF MeteredOf
    <3>2. CASE ~(t = s /\ v = w)
      <4>1. spent'[t][v] = spent[t][v]
        BY <1>10, <1>11, <3>2, TablesApart DEF UsageInv
      <4> QED BY <1>14, <2>1, <3>2, <4>1 DEF MeteredOf
    <3> QED BY <3>1, <3>2
  <2> QED BY <1>12, <2>1, <2>2, <2>3 DEF MeteredOf, OpenMeters
<1>16. Warned'
  <2>1. ASSUME NEW t \in Sessions, adding[t] # NoOne PROVE tally'[t][adding[t]] = tally[t][adding[t]]
    <3>1. adding[t] \in Works(t)
      BY <2>1 DEF UsageInv, UsageTyped
    <3>2. phase[t][adding[t]] = "written"
      BY <3>1 DEF UsageInv, Metered
    <3>3. ~(t = s /\ adding[t] = w)
      BY <1>2, <3>2
    <3> QED BY <1>14, <3>1, <3>3
  <2> QED BY <1>12, <2>1 DEF UsageInv, Warned
<1> QED BY <1>13, <1>15, <1>16 DEF UsageInv, Metered, MeteredOf

LEMMA NotAnswering ==
  ASSUME UsageInv, NEW s \in Sessions, NEW w \in Works(s), on_llm_error(s, w)
  PROVE  UsageInv'
<1>1. PICK now : now = [spent[s][w] EXCEPT !.calls = @ + 1]
  OBVIOUS
<1>2. spent[s][w] \in Answers
  BY DEF UsageInv, UsageTyped, Table
<1>3. now \in Answers /\ now.cost = spent[s][w].cost
  BY <1>1, <1>2 DEF Answers
<1>4. spent' = [spent EXCEPT ![s][w] = now]
  BY <1>1 DEF on_llm_error, UsageInv, UsageTyped, Table
<1>5. /\ asking' = [asking EXCEPT ![s][w] = FALSE] /\ phase' = phase /\ context' = context /\ tally' = tally
      /\ billed' = billed /\ adding' = adding /\ alerts' = alerts /\ apart' = apart /\ asking[s][w]
  BY DEF on_llm_error
<1>6. UsageTyped'
  BY <1>3, <1>4, <1>5, TableKept DEF UsageInv, UsageTyped
<1>7. ASSUME NEW t \in Sessions, NEW v \in Works(t) PROVE MeteredOf(t, v)'
  <2>1. MeteredOf(t, v)
    BY DEF UsageInv, Metered, MeteredOf
  <2>2. CASE t = s /\ v = w
    <3>1. spent'[t][v] = now
      BY <1>3, <1>4, <2>2, TableKept DEF UsageInv, UsageTyped
    <3> QED BY <1>3, <1>5, <2>1, <2>2, <3>1 DEF MeteredOf, OpenMeters
  <2>3. CASE ~(t = s /\ v = w)
    <3>1. spent'[t][v] = spent[t][v]
      BY <1>3, <1>4, <2>3, TablesApart DEF UsageInv
    <3>2. asking'[t][v] => asking[t][v]
      BY <1>5, <2>3, TablesApart DEF UsageInv
    <3> QED BY <1>5, <2>1, <3>1, <3>2 DEF MeteredOf, OpenMeters
  <2> QED BY <2>2, <2>3
<1>8. Warned'
  BY <1>5 DEF UsageInv, Warned
<1> QED BY <1>6, <1>7, <1>8 DEF UsageInv, Metered, MeteredOf

LEMMA ClosingAMeter == ASSUME UsageInv, NEW s \in Sessions, NEW w \in Works(s), CloseMeter(s, w) PROVE UsageInv'
<1>1. PICK left_ : left_ = IF w = RUN THEN <<>> ELSE <<RUN>>
  OBVIOUS
<1>2. phase[s][w] = "open" /\ ~asking[s][w]
  BY DEF CloseMeter, ItsTurn
<1>3. left_ \in Contexts /\ context' = [context EXCEPT ![s][w] = left_]
  <2>1. context' = [context EXCEPT ![s][w] = SubSeq(context[s][w], 1, Len(context[s][w]) - 1)]
    BY DEF CloseMeter, UsageInv, UsageTyped, Table
  <2> QED BY <1>1, <1>2, <2>1, MetersOpenAndClose, OpenMetersAreContexts
<1>4. /\ phase' = [phase EXCEPT ![s][w] = "closed"] /\ tally' = tally /\ asking' = asking /\ billed' = billed
      /\ adding' = adding /\ alerts' = alerts /\ spent' = spent /\ apart' = apart /\ "closed" \in Phases
  BY DEF CloseMeter, Phases
<1>5. UsageTyped'
  BY <1>3, <1>4, TableKept DEF UsageInv, UsageTyped
<1>6. phase'[s][w] = "closed"
  BY <1>4, TableKept DEF UsageInv, UsageTyped
<1>7. context'[s][w] = left_
  BY <1>3, TableKept DEF UsageInv, UsageTyped
<1>8. ASSUME NEW t \in Sessions, NEW v \in Works(t) PROVE MeteredOf(t, v)'
  <2>1. MeteredOf(t, v)
    BY DEF UsageInv, Metered, MeteredOf
  <2>2. CASE t = s /\ v = w
    BY <1>1, <1>2, <1>4, <1>6, <1>7, <2>1, <2>2 DEF MeteredOf, OpenMeters
  <2>3. CASE ~(t = s /\ v = w)
    <3>1. phase'[t][v] = phase[t][v] /\ context'[t][v] = context[t][v]
      BY <1>3, <1>4, <2>3, TablesApart DEF UsageInv
    <3> QED BY <1>4, <2>1, <3>1 DEF MeteredOf, OpenMeters
  <2> QED BY <2>2, <2>3
<1>9. Warned'
  BY <1>4 DEF UsageInv, Warned
<1> QED BY <1>5, <1>8, <1>9 DEF UsageInv, Metered, MeteredOf

LEMMA WritingARow == ASSUME UsageInv, NEW s \in Sessions, NEW w \in Works(s), log_agent_run(s, w) PROVE UsageInv'
<1>1. PICK cost : cost = tally[s][w]
  OBVIOUS
<1>2. cost \in Nat
  BY <1>1 DEF UsageInv, UsageTyped, Table
<1>3. PICK after : after = IF cost > 0 THEN "written" ELSE "logged"
  OBVIOUS
<1>4. /\ phase[s][w] = "closed" /\ adding[s] = NoOne
      /\ phase' = [phase EXCEPT ![s][w] = after] /\ billed' = billed + cost
      /\ adding' = IF cost > 0 THEN [adding EXCEPT ![s] = w] ELSE adding
      /\ context' = context /\ tally' = tally /\ asking' = asking /\ alerts' = alerts /\ spent' = spent
  BY <1>1, <1>3 DEF log_agent_run, LockIsFree
<1>5. apart' = (apart /\ (cost > 0 => \A t \in Sessions \ {s} : adding[t] = NoOne))
  BY <1>1 DEF log_agent_run
<1>6. after \in Phases
  BY <1>3 DEF Phases
<1>7. \A t \in Sessions : adding'[t] = IF t = s /\ cost > 0 THEN w ELSE adding[t]
  BY <1>4 DEF UsageInv, UsageTyped
<1>8. UsageTyped'
  <2>1. Table(phase', Phases)
    BY <1>4, <1>6, TableKept DEF UsageInv, UsageTyped
  <2>2. adding' = [t \in Sessions |-> adding'[t]] /\ \A t \in Sessions : adding'[t] \in Works(t) \cup {NoOne}
    BY <1>4, <1>7 DEF UsageInv, UsageTyped
  <2>3. billed' \in Nat
    BY <1>2, <1>4 DEF UsageInv, UsageTyped
  <2>4. apart' \in BOOLEAN
    BY <1>5
  <2> QED BY <1>4, <2>1, <2>2, <2>3, <2>4 DEF UsageInv, UsageTyped
<1>9. phase'[s][w] = after
  BY <1>4, <1>6, TableKept DEF UsageInv, UsageTyped
<1>10. ASSUME NEW t \in Sessions, NEW v \in Works(t) PROVE MeteredOf(t, v)'
  <2>1. MeteredOf(t, v)
    BY DEF UsageInv, Metered, MeteredOf
  <2>2. CASE t = s /\ v = w
    <3>1. phase'[t][v] = "written" <=> adding'[t] = v
      BY <1>3, <1>4, <1>7, <1>9, <2>2, NoOneWorks
    <3>2. context'[t][v] = OpenMeters(t, v)'
      BY <1>3, <1>4, <1>9, <2>1, <2>2 DEF MeteredOf, OpenMeters
    <3> QED BY <1>4, <2>1, <2>2, <3>1, <3>2 DEF MeteredOf
  <2>3. CASE ~(t = s /\ v = w)
    <3>1. phase'[t][v] = phase[t][v]
      BY <1>4, <1>6, <2>3, TablesApart DEF UsageInv
    <3>2. adding'[t] = v <=> adding[t] = v
      BY <1>4, <1>7, <2>3, NoOneWorks
    <3> QED BY <1>4, <2>1, <3>1, <3>2 DEF MeteredOf, OpenMeters
  <2> QED BY <2>2, <2>3
<1>11. Warned'
  <2>1. CASE cost = 0
    <3>1. /\ billed' = billed /\ tally' = tally /\ alerts' = alerts /\ apart' = apart
          /\ \A t \in Sessions : adding'[t] = adding[t]
      BY <1>4, <1>5, <1>7, <2>1 DEF UsageInv, UsageTyped
    <3> QED BY <3>1 DEF UsageInv, Warned
  <2>2. CASE cost > 0 /\ apart'
    <3>1. apart /\ \A t \in Sessions : adding[t] = NoOne
      BY <1>4, <1>5, <2>2
    <3>2. alerts = Over(billed)
      BY <3>1 DEF UsageInv, Warned
    <3>3. \A t \in Sessions : adding'[t] # NoOne <=> t = s
      BY <1>7, <2>2, <3>1, NoOneWorks
    <3>4. adding'[s] = w /\ tally'[s][w] = cost
      BY <1>1, <1>4, <1>7, <2>2
    <3>5. billed' - cost = billed
      BY <1>2, <1>4 DEF UsageInv, UsageTyped
    <3>6. alerts' = Over(billed' - tally'[s][adding'[s]])
      BY <1>4, <3>2, <3>4, <3>5
    <3>7. ASSUME NEW t \in Sessions, adding'[t] # NoOne PROVE alerts' = Over(billed' - tally'[t][adding'[t]])
      BY <3>3, <3>6, <3>7
    <3> QED BY <3>3, <3>7 DEF Warned
  <2>3. CASE ~apart'
    BY <2>3 DEF Warned
  <2> QED BY <1>2, <2>1, <2>2, <2>3
<1> QED BY <1>8, <1>10, <1>11 DEF UsageInv, Metered, MeteredOf

\* The one who has the rows to add up warns if it was its own that took the trip over.
LEMMA Warning == ASSUME UsageInv, NEW s \in Sessions, NEW w \in Works(s), warn_if_over(s, w) PROVE UsageInv'
<1>1. /\ phase[s][w] = "written" /\ phase' = [phase EXCEPT ![s][w] = "logged"] /\ "logged" \in Phases
      /\ adding' = [adding EXCEPT ![s] = NoOne]
      /\ context' = context /\ tally' = tally /\ asking' = asking /\ billed' = billed /\ spent' = spent
  BY DEF warn_if_over, Phases
<1>2. \/ /\ alerts' = IF billed > CostLimit /\ billed - tally[s][w] <= CostLimit THEN alerts + 1 ELSE alerts
         /\ apart' = apart
      \/ apart' = FALSE /\ alerts' = alerts
  BY DEF warn_if_over
<1>3. adding[s] = w
  BY <1>1 DEF UsageInv, Metered
<1>4. \A t \in Sessions : adding'[t] = IF t = s THEN NoOne ELSE adding[t]
  BY <1>1 DEF UsageInv, UsageTyped
<1>5. UsageTyped'
  <2>1. Table(phase', Phases)
    BY <1>1, TableKept DEF UsageInv, UsageTyped
  <2>2. adding' = [t \in Sessions |-> adding'[t]] /\ \A t \in Sessions : adding'[t] \in Works(t) \cup {NoOne}
    BY <1>1, <1>4 DEF UsageInv, UsageTyped
  <2>3. alerts \in Nat /\ apart \in BOOLEAN
    BY DEF UsageInv, UsageTyped
  <2>4. alerts' \in Nat
    BY <1>2, <2>3
  <2>5. apart' \in BOOLEAN
    BY <1>2, <2>3
  <2> QED BY <1>1, <2>1, <2>2, <2>4, <2>5 DEF UsageInv, UsageTyped
<1>6. phase'[s][w] = "logged"
  BY <1>1, TableKept DEF UsageInv, UsageTyped
<1>7. ASSUME NEW t \in Sessions, NEW v \in Works(t) PROVE MeteredOf(t, v)'
  <2>1. MeteredOf(t, v)
    BY DEF UsageInv, Metered, MeteredOf
  <2>2. CASE t = s /\ v = w
    <3>1. phase'[t][v] # "written" /\ adding'[t] # v
      BY <1>4, <1>6, <2>2, NoOneWorks
    <3>2. context'[t][v] = OpenMeters(t, v)'
      BY <1>1, <1>6, <2>1, <2>2 DEF MeteredOf, OpenMeters
    <3> QED BY <1>1, <2>1, <2>2, <3>1, <3>2 DEF MeteredOf
  <2>3. CASE ~(t = s /\ v = w)
    <3>1. phase'[t][v] = phase[t][v]
      BY <1>1, <2>3, TablesApart DEF UsageInv
    <3>2. adding'[t] = v <=> adding[t] = v
      BY <1>3, <1>4, <2>3, NoOneWorks
    <3> QED BY <1>1, <2>1, <3>1, <3>2 DEF MeteredOf, OpenMeters
  <2> QED BY <2>2, <2>3
<1>8. Warned'
  <2>1. CASE apart'
    <3>1. /\ apart
          /\ alerts' = IF billed > CostLimit /\ billed - tally[s][w] <= CostLimit THEN alerts + 1 ELSE alerts
      BY <1>2, <2>1
    <3>2. adding[s] # NoOne
      BY <1>3, NoOneWorks
    <3>3. alerts = Over(billed - tally[s][w])
      BY <1>3, <3>1, <3>2 DEF UsageInv, Warned
    <3>4. billed \in Nat /\ tally[s][w] \in Nat /\ CostLimit \in Nat
      BY UsageAssumption DEF UsageInv, UsageTyped, Table
    <3>5. alerts' = Over(billed')
      BY <1>1, <3>1, <3>3, <3>4 DEF Over
    <3>6. \A t \in Sessions : adding'[t] = NoOne
      BY <1>4, <3>1, <3>2 DEF UsageInv, Warned
    <3> QED BY <3>5, <3>6 DEF Warned
  <2>2. CASE ~apart'
    BY <2>2 DEF Warned
  <2> QED BY <2>1, <2>2
<1> QED BY <1>5, <1>7, <1>8 DEF UsageInv, Metered, MeteredOf

LEMMA UsageStep == UsageInv /\ [UsageNext]_usage_vars => UsageInv'
<1> SUFFICES ASSUME UsageInv, [UsageNext]_usage_vars PROVE UsageInv'
  OBVIOUS
<1>1. ASSUME NEW s \in Sessions, NEW w \in Works(s),
             \/ metered(s, w) \/ AskModel(s, w) \/ on_llm_error(s, w) \/ CloseMeter(s, w)
             \/ \E cost \in AnswerCosts : on_llm_end(s, w, cost)
             \/ log_agent_run(s, w) \/ warn_if_over(s, w)
      PROVE  UsageInv'
  BY <1>1, OpeningAMeter, AskingAModel, NotAnswering, ClosingAMeter, Answering, WritingARow, Warning
<1>2. CASE UNCHANGED usage_vars
  <2>1. /\ phase' = phase /\ context' = context /\ tally' = tally /\ asking' = asking /\ billed' = billed
        /\ adding' = adding /\ alerts' = alerts /\ spent' = spent /\ apart' = apart
    BY <1>2 DEF usage_vars
  <2> QED BY <2>1 DEF UsageInv, UsageTyped, Metered, OpenMeters, Warned
<1> QED BY <1>1, <1>2 DEF UsageNext

\* Each row carries what its own work was answered, whatever goes on around it and beside it; and the
\* warning is given once, by the row that takes the trip over its limit, as long as the rows could be
\* added up and no other run of the trip wrote one in between.
THEOREM CostIsToldOnce == MCSpec => []CostIsTold
<1>1. MCSpec => [][MCNext]_all /\ MCInit
  BY DEF MCSpec
<1>2. MCInit => UsageInv
  BY UsageStart DEF MCInit
<1>3. UsageInv => CostIsTold
  BY DEF UsageInv, Metered, Warned, CostIsTold, CountedOnce, WarnedOnce, Over
<1> QED BY <1>1, <1>2, <1>3, UsageByItself, UsageStep, PTL

----------------------------------------------------------------------------
(* Is the app well?                                                        *)

Dependencies == {"postgres", "redis", "tool_server", "langsmith"}
Needed == {"postgres", "redis", "tool_server"}
CheckStates == {"asked", "hanging", "ok", "off", "failing"}
Pings ==
  [at : {"unasked", "postgres", "redis", "ready", "answered"},
   postgres : {"unsaid", "ok", "error"}, redis : {"unsaid", "ok", "error"}, status : {0, 200, 503}]
Heard(d) == IF well[d].says = "error" THEN "error" ELSE "ok"
Told(d) == IF well[d].says = "error" THEN "failing" ELSE well[d].says

HealthTyped ==
  /\ well \in [Dependencies -> Healthy!Answers] /\ second \in Nat /\ second <= Horizon
  /\ checking \in [Dependencies -> CheckStates] /\ told_at \in [Dependencies -> Nat]
  /\ deep \in {"unasked", "asked", "ok", "degraded", "failing"} /\ ping \in Pings
  /\ owed \in Int /\ gauge \in Int /\ counted_at \in Nat
  /\ \A d \in Needed : well[d].says # "off"
\* A dependency's check, from where it is: within its deadline while it is asked, held up past it where what is asked does
\* not let go, and done with what it was told in time.
CheckHolds(d) ==
  /\ checking[d] = "asked" => second <= Healthy!At(d) /\ second <= Deadlines[d]
  /\ checking[d] = "hanging" => ~well[d].lets_go /\ second >= Deadlines[d]
  /\ checking[d] = "ok" => Healthy!At(d) <= Deadlines[d] /\ well[d].says = "ok"
  /\ checking[d] = "off" /\ deep # "unasked" => well[d].says = "off"
  /\ deep # "unasked" /\ Healthy!Resting(d) /\ well[d].says = "error" => checking[d] = "failing"
  /\ deep # "unasked" /\ Healthy!Resting(d) /\ Healthy!At(d) < Deadlines[d] =>
       told_at[d] = Healthy!At(d) /\ checking[d] = Told(d)
\* The whole report: it waits past the longest deadline only for a check that does not let go.
DeepHolds ==
  /\ deep = "asked" /\ second > Healthy!Longest =>
       \E d \in Dependencies : Healthy!At(d) > Deadlines[d] /\ ~well[d].lets_go
  /\ deep \in {"ok", "degraded", "failing"} =>
       /\ \A d \in Dependencies : Healthy!Resting(d)
       /\ deep = "failing" <=> \E d \in Needed : checking[d] = "failing"
\* The readiness probe: each store in turn.
PingHolds ==
  /\ ping.at \in {"redis", "ready", "answered"} => ping.postgres = Heard("postgres")
  /\ ping.at \in {"ready", "answered"} => ping.redis = Heard("redis")
  /\ ping.at = "answered" => ping.status = IF "error" \in {ping.postgres, ping.redis} THEN 503 ELSE 200
\* The queue's gauge.
GaugeHolds == Healthy!GaugeKnown /\ (deep = "unasked" => counted_at <= second)
HealthInv == HealthTyped /\ (\A d \in Dependencies : CheckHolds(d)) /\ DeepHolds /\ PingHolds /\ GaugeHolds

\* The deadlines are of the four dependencies, and the longest of them is no shorter than any.
LEMMA AllDependencies == Healthy!Dependencies = Dependencies
BY HealthBounds DEF Healthy!Dependencies, Dependencies

LEMMA LongestKnown ==
  Healthy!Longest \in Int /\ \A d \in Dependencies : Deadlines[d] <= Healthy!Longest
<1> DEFINE p == Deadlines["postgres"]  r == Deadlines["redis"]  t == Deadlines["tool_server"]  l == Deadlines["langsmith"]
           All == {p, r, t, l}
<1>1. p \in Int /\ r \in Int /\ t \in Int /\ l \in Int
  BY HealthBounds
<1>2. {Deadlines[d] : d \in Dependencies} = All
  BY DEF Dependencies
<1>3. \E x \in All : \A y \in All : x >= y
  <2> HIDE DEF p, r, t, l
  <2> QED BY <1>1
<1>4. Healthy!Max(All) \in All /\ \A y \in All : Healthy!Max(All) >= y
  <2> HIDE DEF All
  <2> QED BY <1>3 DEF Healthy!Max
<1>5. Healthy!Longest = Healthy!Max(All)
  BY <1>2, AllDependencies DEF Healthy!Longest
<1> QED BY <1>1, <1>4, <1>5 DEF Dependencies

\* When a dependency answers.
LEMMA AnswersKnown ==
  ASSUME HealthTyped, NEW d \in Dependencies
  PROVE  /\ Healthy!At(d) \in Int /\ Healthy!At(d) >= 0 /\ Deadlines[d] \in Int /\ Deadlines[d] > 0
         /\ well[d].says \in {"ok", "error", "off"} /\ well[d].lets_go \in BOOLEAN
         /\ ~well[d].lets_go => Healthy!At(d) = Horizon + 1
         /\ well[d].says = "off" => Healthy!At(d) = 0
<1>1. well[d] \in Healthy!Answers
  BY DEF HealthTyped
<1>2. Deadlines[d] \in Int /\ Deadlines[d] > 0 /\ Horizon \in Nat
  BY HealthBounds DEF Dependencies
<1>3. /\ well[d].at \in {"once", "deadline", "never"} /\ well[d].says \in {"ok", "error", "off"}
      /\ well[d].lets_go \in BOOLEAN
      /\ ~well[d].lets_go => well[d].at = "never"
      /\ well[d].says = "off" => well[d].at = "once"
  BY <1>1 DEF Healthy!Answers
<1>4. Healthy!At(d) = IF well[d].at = "once" THEN 0 ELSE IF well[d].at = "deadline" THEN Deadlines[d] ELSE Horizon + 1
  <2>1. CASE well[d].at = "once"
    BY <2>1 DEF Healthy!At
  <2>2. CASE well[d].at = "deadline"
    BY <2>2 DEF Healthy!At
  <2>3. CASE well[d].at = "never"
    BY <2>3 DEF Healthy!At, Healthy!Never
  <2> QED BY <1>3, <2>1, <2>2, <2>3
<1>5. ~well[d].lets_go => Healthy!At(d) = Horizon + 1
  BY <1>3, <1>4
<1>6. /\ Healthy!At(d) \in Int /\ Healthy!At(d) >= 0
      /\ well[d].says = "off" => Healthy!At(d) = 0
  <2>1. /\ well[d].at \in {"once", "deadline", "never"}
        /\ well[d].says = "off" => well[d].at = "once"
    BY <1>3
  <2> QED BY <1>2, <1>4, <2>1
<1> QED BY <1>2, <1>3, <1>5, <1>6

\* The invariant tells what the reports say.
LEMMA HealthTells == HealthInv => Healthy!HealthTold
<1> SUFFICES ASSUME HealthInv PROVE Healthy!HealthTold
  OBVIOUS
<1> USE AllDependencies
<1>1. HealthTyped /\ (\A d \in Dependencies : CheckHolds(d)) /\ DeepHolds /\ PingHolds /\ GaugeHolds
  BY DEF HealthInv
<1>2. Healthy!ToldInTime
  BY <1>1 DEF Healthy!ToldInTime, DeepHolds, CheckHolds, Told
<1>3. ASSUME ping.at = "answered", deep \in {"ok", "degraded", "failing"}
      PROVE  /\ deep \in {"ok", "degraded"} => ping.status = 200
             /\ ping.status = 503 => deep = "failing"
             /\ deep = "failing" /\ checking["tool_server"] = "ok" /\ (\A d \in Dependencies : Healthy!At(d) = 0)
                => ping.status = 503
  <2>1. /\ \A d \in Dependencies : Healthy!Resting(d)
        /\ deep = "failing" <=> \E d \in Needed : checking[d] = "failing"
    BY <1>3, <1>1 DEF DeepHolds
  <2>2. ping.status = IF "error" \in {Heard("postgres"), Heard("redis")} THEN 503 ELSE 200
    BY <1>3, <1>1 DEF PingHolds
  <2>3. Needed \subseteq Dependencies
    BY DEF Needed, Dependencies
  <2>4. \A d \in {"postgres", "redis"} : Heard(d) = "error" => checking[d] = "failing"
    BY <1>3, <1>1, <2>1, <2>3 DEF Heard, CheckHolds, Needed
  <2>5. ASSUME deep = "failing", checking["tool_server"] = "ok", \A d \in Dependencies : Healthy!At(d) = 0
        PROVE  "error" \in {Heard("postgres"), Heard("redis")}
    <3>1. PICK d \in {"postgres", "redis"} : checking[d] = "failing"
      BY <2>1, <2>5 DEF Needed
    <3>2. Healthy!At(d) < Deadlines[d]
      BY <1>1, <2>5, AnswersKnown DEF Dependencies
    <3>3. Told(d) = "failing" /\ well[d].says \in {"ok", "error", "off"}
      BY <1>3, <1>1, <2>1, <2>3, <3>1, <3>2, AnswersKnown DEF CheckHolds, Needed
    <3> QED BY <3>3 DEF Told, Heard
  <2>6. "error" \in {Heard("postgres"), Heard("redis")} => deep = "failing"
    BY <2>1, <2>4 DEF Needed
  <2> QED BY <2>2, <2>5, <2>6
<1>4. Healthy!ReportsAgree
  BY <1>3 DEF Healthy!ReportsAgree
<1>5. Healthy!GaugeKnown
  BY <1>1 DEF GaugeHolds
<1> QED BY <1>2, <1>4, <1>5 DEF Healthy!HealthTold

\* It holds at the start.
LEMMA HealthStart == Healthy!HealthInit => HealthInv
<1> SUFFICES ASSUME Healthy!HealthInit PROVE HealthInv
  OBVIOUS
<1> USE AllDependencies
<1>1. well \in Healthy!Wells /\ second = 0 /\ told_at = [d \in Dependencies |-> 0] /\ owed = 0 /\ gauge = -1
  BY DEF Healthy!HealthInit, Healthy!NaN
<1>2. \/ /\ checking = [d \in Dependencies |-> "asked"] /\ deep = "asked" /\ counted_at = Horizon
         /\ ping = [at |-> "postgres", postgres |-> "unsaid", redis |-> "unsaid", status |-> 0]
      \/ /\ checking = [d \in Dependencies |-> "off"] /\ deep = "unasked" /\ counted_at = 0
         /\ ping = [at |-> "unasked", postgres |-> "unsaid", redis |-> "unsaid", status |-> 0]
  BY DEF Healthy!HealthInit
<1>3. ping \in Pings
  BY <1>1, <1>2 DEF Pings
<1>4. well \in [Dependencies -> Healthy!Answers] /\ \A d \in Needed : well[d].says # "off"
  BY <1>1, <1>2 DEF Healthy!Wells, Needed
<1>5. HealthTyped
  BY <1>1, <1>2, <1>3, <1>4, HealthBounds DEF HealthTyped, CheckStates
<1>6. ASSUME NEW d \in Dependencies PROVE CheckHolds(d)
  BY <1>1, <1>2, <1>5, AnswersKnown DEF CheckHolds, Healthy!Resting
<1>7. DeepHolds
  <2>1. ~(second > Healthy!Longest)
    BY <1>1, <1>2, <1>5, LongestKnown, AnswersKnown DEF Dependencies
  <2> QED BY <1>1, <1>2, <2>1 DEF DeepHolds
<1>8. PingHolds
  BY <1>1, <1>2 DEF PingHolds
<1>9. GaugeHolds
  BY <1>1, <1>2 DEF GaugeHolds, Healthy!GaugeKnown, Healthy!NaN
<1> QED BY <1>5, <1>6, <1>7, <1>8, <1>9 DEF HealthInv

\* A dependency's check comes to an end, or is let go.
LEMMA ChecksSay ==
  ASSUME HealthInv, NEW d \in Dependencies, NEW status \in CheckStates \ {"asked"},
         checking' = [checking EXCEPT ![d] = status], told_at' \in [Dependencies -> Nat],
         \A e \in Dependencies \ {d} : told_at'[e] = told_at[e],
         Healthy!Elsewhere, CheckHolds(d)', checking[d] \in {"asked", "hanging"}
  PROVE  HealthInv'
<1>1. /\ well' = well /\ second' = second /\ deep' = deep /\ ping' = ping /\ owed' = owed /\ gauge' = gauge
      /\ counted_at' = counted_at
  BY DEF Healthy!Elsewhere
<1>2. HealthTyped /\ (\A e \in Dependencies : CheckHolds(e)) /\ DeepHolds /\ PingHolds /\ GaugeHolds
  BY DEF HealthInv
<1>3. HealthTyped'
  BY <1>1, <1>2 DEF HealthTyped
<1>4. ASSUME NEW e \in Dependencies PROVE CheckHolds(e)'
  <2>1. CASE e = d
    BY <2>1
  <2>2. CASE e # d
    <3>1. checking'[e] = checking[e] /\ told_at'[e] = told_at[e]
      BY <2>2, <1>2 DEF HealthTyped
    <3>2. Healthy!At(e)' = Healthy!At(e)
      BY <1>1 DEF Healthy!At
    <3> QED BY <1>1, <1>2, <3>1, <3>2 DEF CheckHolds, Healthy!Resting, Told
  <2> QED BY <2>1, <2>2
<1>5. DeepHolds'
  <2>1. deep \notin {"ok", "degraded", "failing"}
    BY <1>2 DEF DeepHolds, Healthy!Resting
  <2>2. \A e : Healthy!At(e)' = Healthy!At(e)
    BY <1>1 DEF Healthy!At
  <2>3. Healthy!Longest' = Healthy!Longest
    BY DEF Healthy!Longest, Healthy!Dependencies, Healthy!Max
  <2> QED BY <1>1, <1>2, <2>1, <2>2, <2>3 DEF DeepHolds
<1>6. PingHolds'
  BY <1>1, <1>2 DEF PingHolds, Heard
<1>7. GaugeHolds'
  BY <1>1, <1>2 DEF GaugeHolds, Healthy!GaugeKnown, Healthy!Countable, Healthy!At
<1> QED BY <1>3, <1>4, <1>5, <1>6, <1>7 DEF HealthInv
\* The steps of the checks, one by one.
LEMMA CheckEnds ==
  ASSUME HealthInv, NEW d \in Dependencies,
         Healthy!CheckAnswers(d) \/ Healthy!CheckTimesOut(d) \/ Healthy!LetsGo(d)
  PROVE  HealthInv'
<1>1. HealthTyped /\ CheckHolds(d)
  BY DEF HealthInv
<1>2. /\ Healthy!At(d) \in Int /\ Deadlines[d] \in Int /\ second \in Nat
      /\ well[d].says \in {"ok", "error", "off"} /\ (well[d].says = "off" => Healthy!At(d) = 0) /\ Deadlines[d] > 0
  BY <1>1, AnswersKnown DEF HealthTyped
<1>3. checking \in [Dependencies -> CheckStates] /\ told_at \in [Dependencies -> Nat]
  BY <1>1 DEF HealthTyped
<1>4. ASSUME Healthy!CheckAnswers(d) PROVE HealthInv'
  <2>1. /\ checking[d] = "asked" /\ Healthy!At(d) <= second /\ Healthy!Elsewhere
        /\ checking' = [checking EXCEPT ![d] = Told(d)] /\ told_at' = [told_at EXCEPT ![d] = second]
    BY <1>4 DEF Healthy!CheckAnswers, Healthy!Says, Told
  <2>2. Told(d) \in CheckStates \ {"asked"}
    BY <1>2 DEF Told, CheckStates
  <2>3. /\ told_at' \in [Dependencies -> Nat] /\ checking'[d] = Told(d) /\ told_at'[d] = second
        /\ \A e \in Dependencies \ {d} : told_at'[e] = told_at[e]
    BY <1>3, <1>2, <2>1
  <2>4. second = Healthy!At(d) /\ second <= Deadlines[d]
    BY <1>1, <1>2, <2>1 DEF CheckHolds
  <2>5. well' = well /\ second' = second /\ deep' = deep /\ Healthy!At(d)' = Healthy!At(d)
    BY <2>1 DEF Healthy!Elsewhere, Healthy!At
  <2>6. CheckHolds(d)'
    BY <1>2, <2>3, <2>4, <2>5 DEF CheckHolds, Told, Healthy!Resting
  <2> QED BY <2>1, <2>2, <2>3, <2>6, ChecksSay
<1>5. ASSUME Healthy!CheckTimesOut(d) PROVE HealthInv'
  <2>1. /\ checking[d] = "asked" /\ second >= Deadlines[d] /\ Healthy!Elsewhere
        /\ \/ checking' = [checking EXCEPT ![d] = "failing"] /\ told_at' = [told_at EXCEPT ![d] = second]
           \/ ~well[d].lets_go /\ checking' = [checking EXCEPT ![d] = "hanging"] /\ told_at' = told_at
    BY <1>5 DEF Healthy!CheckTimesOut, Healthy!Says
  <2>2. /\ told_at' \in [Dependencies -> Nat]
        /\ \A e \in Dependencies \ {d} : told_at'[e] = told_at[e]
    BY <1>3, <1>2, <2>1
  <2>3. ~(Healthy!At(d) < Deadlines[d])
    BY <1>1, <1>2, <2>1 DEF CheckHolds
  <2>4. well' = well /\ second' = second /\ deep' = deep /\ Healthy!At(d)' = Healthy!At(d)
    BY <2>1 DEF Healthy!Elsewhere, Healthy!At
  <2>5. CASE checking' = [checking EXCEPT ![d] = "failing"]
    <3>1. checking'[d] = "failing"
      BY <1>3, <2>5
    <3>2. CheckHolds(d)'
      BY <1>2, <2>3, <2>4, <3>1 DEF CheckHolds, Healthy!Resting
    <3> QED BY <2>1, <2>2, <2>5, <3>2, ChecksSay DEF CheckStates
  <2>6. CASE ~well[d].lets_go /\ checking' = [checking EXCEPT ![d] = "hanging"]
    <3>1. checking'[d] = "hanging"
      BY <1>3, <2>6
    <3>2. CheckHolds(d)'
      BY <1>2, <2>1, <2>4, <2>6, <3>1 DEF CheckHolds, Healthy!Resting
    <3> QED BY <2>1, <2>2, <2>6, <3>2, ChecksSay DEF CheckStates
  <2> QED BY <2>1, <2>5, <2>6
<1>6. ASSUME Healthy!LetsGo(d) PROVE HealthInv'
  <2>1. /\ checking[d] = "hanging" /\ Healthy!Elsewhere
        /\ checking' = [checking EXCEPT ![d] = "failing"] /\ told_at' = [told_at EXCEPT ![d] = second]
    BY <1>6 DEF Healthy!LetsGo, Healthy!Says
  <2>2. /\ told_at' \in [Dependencies -> Nat] /\ checking'[d] = "failing"
        /\ \A e \in Dependencies \ {d} : told_at'[e] = told_at[e]
    BY <1>3, <1>2, <2>1
  <2>3. ~(Healthy!At(d) < Deadlines[d])
    BY <1>1, <1>2, <2>1, AnswersKnown, HealthBounds DEF CheckHolds, HealthTyped
  <2>4. well' = well /\ second' = second /\ deep' = deep /\ Healthy!At(d)' = Healthy!At(d)
    BY <2>1 DEF Healthy!Elsewhere, Healthy!At
  <2>5. CheckHolds(d)'
    BY <1>2, <2>2, <2>3, <2>4 DEF CheckHolds, Healthy!Resting
  <2> QED BY <2>1, <2>2, <2>5, ChecksSay DEF CheckStates
<1> QED BY <1>4, <1>5, <1>6

\* The report is put together from what the checks said.
LEMMA Reports ==
  ASSUME HealthInv, Healthy!report
  PROVE  HealthInv'
<1> USE AllDependencies
<1>1. /\ deep = "asked" /\ (\A d \in Dependencies : Healthy!Resting(d)) /\ deep' = Healthy!overall
      /\ well' = well /\ second' = second /\ checking' = checking /\ told_at' = told_at /\ ping' = ping
      /\ owed' = owed
      /\ gauge' = gauge /\ counted_at' = counted_at
  BY DEF Healthy!report
<1>2. HealthTyped /\ (\A d \in Dependencies : CheckHolds(d)) /\ DeepHolds /\ PingHolds /\ GaugeHolds
  BY DEF HealthInv
<1>3. deep' \in {"ok", "degraded", "failing"} /\ (deep' = "failing" <=> \E d \in Needed : checking[d] = "failing")
  <2>1. {d \in Dependencies : checking[d] = "failing"} \cap Needed # {} <=> \E d \in Needed : checking[d] = "failing"
    BY DEF Needed, Dependencies
  <2>2. Needed = {"postgres", "redis", "tool_server"}
    BY DEF Needed
  <2> QED BY <1>1, <2>1, <2>2 DEF Healthy!overall
<1>4. HealthTyped'
  BY <1>1, <1>3, <1>2 DEF HealthTyped
<1>5. \A d : Healthy!At(d)' = Healthy!At(d) /\ Told(d)' = Told(d) /\ Healthy!Resting(d)' = Healthy!Resting(d)
  BY <1>1 DEF Healthy!At, Told, Healthy!Resting
<1>6. ASSUME NEW d \in Dependencies PROVE CheckHolds(d)'
  BY <1>1, <1>3, <1>2, <1>5 DEF CheckHolds
<1>7. DeepHolds'
  BY <1>1, <1>3, <1>5 DEF DeepHolds
<1>8. PingHolds'
  BY <1>1, <1>2 DEF PingHolds, Heard
<1>9. GaugeHolds'
  BY <1>1, <1>3, <1>2 DEF GaugeHolds, Healthy!GaugeKnown, Healthy!Countable, Healthy!At
<1> QED BY <1>4, <1>6, <1>7, <1>8, <1>9 DEF HealthInv

\* What changes none of the checks leaves their part of the invariant as it is.
LEMMA ChecksStand ==
  ASSUME HealthInv, UNCHANGED <<well, second, checking, told_at, deep>>, HealthTyped', PingHolds', GaugeHolds'
  PROVE  HealthInv'
<1>1. \A d : Healthy!At(d)' = Healthy!At(d) /\ Told(d)' = Told(d) /\ Healthy!Resting(d)' = Healthy!Resting(d)
  BY DEF Healthy!At, Told, Healthy!Resting
<1>2. Healthy!Longest' = Healthy!Longest
  BY DEF Healthy!Longest, Healthy!Dependencies, Healthy!Max
<1>3. ASSUME NEW d \in Dependencies PROVE CheckHolds(d)'
  BY <1>1 DEF CheckHolds, HealthInv
<1>4. DeepHolds'
  BY <1>1, <1>2 DEF DeepHolds, HealthInv
<1> QED BY <1>3, <1>4 DEF HealthInv

\* A probe as what it is made of.
LEMMA PingApart ==
  ASSUME ping \in Pings
  PROVE  \E at \in {"unasked", "postgres", "redis", "ready", "answered"}, database, cache \in {"unsaid", "ok", "error"},
            status \in {0, 200, 503} :
           ping = [at |-> at, postgres |-> database, redis |-> cache, status |-> status]
  BY DEF Pings

\* The readiness probe goes on to its next store.
LEMMA StoreAnswers ==
  ASSUME HealthInv, NEW d \in {"postgres", "redis"}, NEW next \in {"redis", "ready"},
         d = "postgres" <=> next = "redis", Healthy!PingHears(d, next)
  PROVE  HealthInv'
<1>1. /\ ping.at = d /\ ping' = [ping EXCEPT !.at = next, ![d] = Heard(d)]
      /\ UNCHANGED <<well, second, checking, told_at, deep>> /\ owed' = owed /\ gauge' = gauge
      /\ counted_at' = counted_at
  BY DEF Healthy!PingHears, Heard
<1>2. HealthTyped /\ PingHolds /\ GaugeHolds
  BY DEF HealthInv
<1>3. Heard(d) \in {"ok", "error"} /\ ping \in Pings
  BY <1>2 DEF Heard, HealthTyped
<1>4. PICK at \in {"unasked", "postgres", "redis", "ready", "answered"}, database \in {"unsaid", "ok", "error"},
           cache \in {"unsaid", "ok", "error"}, status \in {0, 200, 503} :
        ping = [at |-> at, postgres |-> database, redis |-> cache, status |-> status]
  BY <1>3, PingApart
<1>5. ping' \in Pings
  <2>1. CASE d = "postgres"
    <3>1. next = "redis" /\ ping' = [ping EXCEPT !.at = "redis", !.postgres = Heard("postgres")]
      BY <1>1, <2>1
    <3>2. Heard("postgres") \in {"unsaid", "ok", "error"}
      BY DEF Heard
    <3>3. ping' = [at |-> "redis", postgres |-> Heard("postgres"), redis |-> cache, status |-> status]
      BY <1>4, <3>1, ZenonT(30)
    <3> QED BY <3>2, <3>3 DEF Pings
  <2>2. CASE d = "redis"
    <3>1. next = "ready" /\ ping' = [ping EXCEPT !.at = "ready", !.redis = Heard("redis")]
      BY <1>1, <2>2
    <3>2. Heard("redis") \in {"unsaid", "ok", "error"}
      BY DEF Heard
    <3>3. ping' = [at |-> "ready", postgres |-> database, redis |-> Heard("redis"), status |-> status]
      BY <1>4, <3>1, ZenonT(30)
    <3> QED BY <3>2, <3>3 DEF Pings
  <2> QED BY <2>1, <2>2
<1>6. HealthTyped'
  BY <1>1, <1>2, <1>5 DEF HealthTyped
<1>7. PingHolds'
  <2>1. \A e : Heard(e)' = Heard(e)
    BY <1>1 DEF Heard
  <2>2. CASE d = "postgres"
    <3>1. ping' = [ping EXCEPT !.at = "redis", !.postgres = Heard("postgres")]
      BY <1>1, <2>2
    <3>2. ping'.at = "redis" /\ ping'.postgres = Heard("postgres")
      BY <1>3, <3>1 DEF Pings
    <3> QED BY <2>1, <3>2 DEF PingHolds
  <2>3. CASE d = "redis"
    <3>1. ping' = [ping EXCEPT !.at = "ready", !.redis = Heard("redis")] /\ ping.at = "redis"
      BY <1>1, <2>3
    <3>2. ping'.at = "ready" /\ ping'.postgres = ping.postgres /\ ping'.redis = Heard("redis") /\ ping.at = "redis"
      BY <1>3, <3>1 DEF Pings
    <3> QED BY <1>2, <2>1, <3>2 DEF PingHolds
  <2> QED BY <2>2, <2>3
<1>8. GaugeHolds'
  BY <1>1, <1>2 DEF GaugeHolds, Healthy!GaugeKnown, Healthy!Countable, Healthy!At
<1> QED BY <1>1, <1>6, <1>7, <1>8, ChecksStand

\* The readiness probe answers.
LEMMA Readies ==
  ASSUME HealthInv, Healthy!ready
  PROVE  HealthInv'
<1> DEFINE answer == IF "error" \in {ping.postgres, ping.redis} THEN 503 ELSE 200
<1>1. /\ ping.at = "ready" /\ ping' = [ping EXCEPT !.at = "answered", !.status = answer]
      /\ UNCHANGED <<well, second, checking, told_at, deep>> /\ owed' = owed /\ gauge' = gauge
      /\ counted_at' = counted_at
  BY DEF Healthy!ready
<1>2. HealthTyped /\ PingHolds /\ GaugeHolds
  BY DEF HealthInv
<1>3. ping \in Pings
  BY <1>2 DEF HealthTyped
<1>4. PICK at \in {"unasked", "postgres", "redis", "ready", "answered"}, database \in {"unsaid", "ok", "error"},
           cache \in {"unsaid", "ok", "error"}, status \in {0, 200, 503} :
        ping = [at |-> at, postgres |-> database, redis |-> cache, status |-> status]
  BY <1>3, PingApart
<1>5. ping' \in Pings /\ ping'.postgres = ping.postgres /\ ping'.redis = ping.redis /\ ping'.status = answer
  <2>1. answer \in {0, 200, 503}
    OBVIOUS
  <2> HIDE DEF answer
  <2>2. ping' = [at |-> "answered", postgres |-> database, redis |-> cache, status |-> answer]
    BY <1>1, <1>4, ZenonT(30)
  <2> QED BY <1>4, <2>1, <2>2 DEF Pings
<1>6. HealthTyped'
  BY <1>1, <1>2, <1>5 DEF HealthTyped
<1>7. PingHolds'
  <2>1. \A e : Heard(e)' = Heard(e)
    BY <1>1 DEF Heard
  <2> QED BY <1>1, <1>5, <1>2, <2>1 DEF PingHolds
<1>8. GaugeHolds'
  BY <1>1, <1>2 DEF GaugeHolds, Healthy!GaugeKnown, Healthy!Countable, Healthy!At
<1> QED BY <1>1, <1>6, <1>7, <1>8, ChecksStand

\* The queue is counted.
LEMMA QueueCounted ==
  ASSUME HealthInv, Healthy!embedding_backlog \/ Healthy!Owes
  PROVE  HealthInv'
<1>1. UNCHANGED <<well, second, checking, told_at, deep>> /\ ping' = ping
  BY DEF Healthy!embedding_backlog, Healthy!Owes
<1>2. HealthTyped /\ PingHolds /\ GaugeHolds
  BY DEF HealthInv
<1>3. Healthy!Countable' = Healthy!Countable
  BY <1>1 DEF Healthy!Countable, Healthy!At
<1>4. owed \in Int /\ gauge \in Int /\ second \in Nat /\ counted_at \in Nat /\ Healthy!NaN = -1
  BY <1>2 DEF HealthTyped, Healthy!NaN
<1>5. owed' \in Int /\ gauge' \in Int /\ counted_at' \in Nat /\ GaugeHolds'
  <2>1. CASE Healthy!embedding_backlog
    <3>1. gauge' = (IF Healthy!Countable THEN owed ELSE Healthy!NaN) /\ counted_at' = second /\ owed' = owed
      BY <2>1 DEF Healthy!embedding_backlog
    <3>2. (gauge' # Healthy!NaN => Healthy!Countable) /\ gauge' \in {owed, Healthy!NaN}
      BY <3>1
    <3> QED BY <1>1, <1>3, <1>4, <3>1, <3>2 DEF GaugeHolds, Healthy!GaugeKnown
  <2>2. CASE Healthy!Owes
    <3>1. second = 1 /\ deep = "unasked" /\ owed' = 1 /\ gauge' = gauge /\ counted_at' = counted_at
      BY <2>2 DEF Healthy!Owes
    <3>2. counted_at <= 1
      BY <1>2, <3>1 DEF GaugeHolds
    <3> QED BY <1>1, <1>3, <1>4, <1>2, <3>1, <3>2 DEF GaugeHolds, Healthy!GaugeKnown
  <2> QED BY <2>1, <2>2
<1>6. HealthTyped'
  BY <1>1, <1>5, <1>2 DEF HealthTyped
<1>7. PingHolds'
  BY <1>1, <1>2 DEF PingHolds, Heard
<1> QED BY <1>1, <1>5, <1>6, <1>7, ChecksStand

\* A second passes: only where nothing due is left undone.
LEMMA SecondPasses ==
  ASSUME HealthInv, Healthy!Passes
  PROVE  HealthInv'
<1> USE AllDependencies
<1>1. /\ second < Horizon /\ (\A d \in Dependencies : ~Healthy!Due(d)) /\ second' = second + 1
      /\ ~(deep = "asked" /\ \A d \in Dependencies : Healthy!Resting(d))
      /\ well' = well /\ checking' = checking /\ told_at' = told_at /\ deep' = deep /\ ping' = ping /\ owed' = owed
      /\ gauge' = gauge /\ counted_at' = counted_at
  BY DEF Healthy!Passes
<1>2. HealthTyped /\ (\A d \in Dependencies : CheckHolds(d)) /\ DeepHolds /\ PingHolds /\ GaugeHolds
  BY DEF HealthInv
<1>3. HealthTyped'
  BY <1>1, <1>2, HealthBounds DEF HealthTyped
<1>4. \A d : Healthy!At(d)' = Healthy!At(d) /\ Told(d)' = Told(d) /\ Healthy!Resting(d)' = Healthy!Resting(d)
  BY <1>1 DEF Healthy!At, Told, Healthy!Resting
<1>5. second \in Nat /\ second' \in Int /\ counted_at \in Nat
  BY <1>1, <1>2 DEF HealthTyped
<1>6. ASSUME NEW d \in Dependencies PROVE CheckHolds(d)'
  <2>1. /\ Healthy!At(d) \in Int /\ Deadlines[d] \in Int
    BY <1>2, AnswersKnown
  <2>2. checking[d] = "asked" => second + 1 <= Healthy!At(d) /\ second + 1 <= Deadlines[d]
    BY <1>1, <1>5, <2>1 DEF Healthy!Due
  <2>3. CheckHolds(d)
    BY <1>2
  <2> QED BY <1>1, <1>4, <1>5, <2>1, <2>2, <2>3 DEF CheckHolds
<1>7. DeepHolds'
  <2>1. Healthy!Longest' = Healthy!Longest
    BY DEF Healthy!Longest, Healthy!Dependencies, Healthy!Max
  <2>2. ASSUME deep = "asked", second + 1 > Healthy!Longest
        PROVE  \E d \in Dependencies : Healthy!At(d) > Deadlines[d] /\ ~well[d].lets_go
    <3>1. PICK d \in Dependencies : ~Healthy!Resting(d)
      BY <1>1, <2>2
    <3>2. checking[d] \in {"asked", "hanging"}
      BY <1>2, <3>1 DEF HealthTyped, CheckStates, Healthy!Resting
    <3>3. /\ Healthy!At(d) \in Int /\ Deadlines[d] \in Int /\ Healthy!Longest \in Int
          /\ Deadlines[d] <= Healthy!Longest
          /\ ~well[d].lets_go => Healthy!At(d) = Horizon + 1
      BY <1>2, AnswersKnown, LongestKnown
    <3>4. checking[d] # "asked"
      BY <1>1, <1>5, <2>2, <3>3 DEF Healthy!Due
    <3>5. ~well[d].lets_go /\ second >= Deadlines[d]
      BY <1>2, <3>2, <3>4 DEF CheckHolds
    <3> QED BY <1>1, <1>5, <3>3, <3>5, HealthBounds
  <2>3. deep \in {"ok", "degraded", "failing"} =>
          /\ \A d \in Dependencies : Healthy!Resting(d)
          /\ deep = "failing" <=> \E d \in Needed : checking[d] = "failing"
    BY <1>2 DEF DeepHolds
  <2> QED BY <1>1, <1>4, <2>1, <2>2, <2>3 DEF DeepHolds
<1>8. PingHolds'
  BY <1>1, <1>2 DEF PingHolds, Heard
<1>9. GaugeHolds'
  BY <1>1, <1>5, <1>2 DEF GaugeHolds, Healthy!GaugeKnown, Healthy!Countable, Healthy!At
<1> QED BY <1>3, <1>6, <1>7, <1>8, <1>9 DEF HealthInv

\* Nothing of the health checks changes.
LEMMA HealthStands ==
  ASSUME HealthInv, UNCHANGED healths
  PROVE  HealthInv'
<1>1. UNCHANGED <<well, second, checking, told_at, deep>> /\ ping' = ping /\ owed' = owed /\ gauge' = gauge
      /\ counted_at' = counted_at
  BY DEF healths
<1>2. HealthTyped' /\ PingHolds' /\ GaugeHolds'
  BY <1>1 DEF HealthInv, HealthTyped, PingHolds, Heard, GaugeHolds, Healthy!GaugeKnown, Healthy!Countable, Healthy!At
<1> QED BY <1>1, <1>2, ChecksStand

\* Every step of them.
LEMMA HealthKeeps ==
  ASSUME HealthInv, Healthy!HealthNext
  PROVE  HealthInv'
BY AllDependencies, CheckEnds, Reports, StoreAnswers, Readies, QueueCounted, SecondPasses DEF Healthy!HealthNext

\* The deep report is there within the longest deadline unless something that is asked no longer does not let go; what
\* answered in time is told as it answered and when it did, whatever hangs beside it; it agrees with the readiness probe
\* where both speak; and the queue's gauge is a number that was counted.
THEOREM HealthIsTold == MCSpec => [](part = "health" => Healthy!HealthTold)
<1> DEFINE Inv == part = "health" => HealthInv
<1>1. MCInit => Inv
  BY HealthStart DEF MCInit
<1>2. ASSUME Inv, [MCNext]_all PROVE Inv'
  <2>1. CASE part # "health"
    BY <1>2, <2>1 DEF MCNext, all
  <2>2. CASE HealthPart /\ part' = part
    BY <1>2, <2>2, HealthKeeps DEF HealthPart
  <2>3. CASE UNCHANGED <<healths, part>>
    BY <1>2, <2>3, HealthStands
  <2>4. CASE part = "health" /\ MCNext /\ ~HealthPart
    BY <2>4 DEF MCNext, PagePart, DraftPart, EmbeddingsPart, ChangesPart, LogPart, UsagePart, PreferencesPart,
        MetersPart, TracePart, TalkPart
  <2> QED BY <1>2, <2>1, <2>2, <2>3, <2>4 DEF MCNext, all, around_run, services
<1>3. Inv => (part = "health" => Healthy!HealthTold)
  BY HealthTells
<1> QED BY <1>1, <1>2, <1>3, PTL DEF MCSpec

----------------------------------------------------------------------------
(* What the metrics count of the runs.                                     *)

Outcomes == {"completed", "no_plan", "crashed", "interrupted"}
DoingSteps == {"off", "planning", "saved", "built", "gave_up", "settling", "clearing", "done"}
DoingStates == [step : DoingSteps, outcome : Outcomes, sent_back : Nat, plan : BOOLEAN]
MeterTyped ==
  /\ doing \in [MeteredRuns -> DoingStates] /\ IN_PROGRESS \in Int
  /\ SECONDS \in [Outcomes -> Int] /\ BUILDS \in [{"success", "failure", "retry"} -> Int]

\* A run's plan and outcome, from where it stands.
DoingHolds(x) ==
  /\ x.step \in {"off", "planning", "gave_up"} => ~x.plan
  /\ x.step \in {"saved", "built"} => x.plan
  /\ x.step \in {"off", "planning", "gave_up", "saved", "built"} => x.outcome = "completed"
  /\ x.outcome = "completed" /\ x.step \in {"settling", "clearing", "done"} => x.plan
  /\ x.outcome = "no_plan" => ~x.plan

\* What each count counts.
StillOn(x) == x.step \notin {"off", "done"}
DoneAs(x, outcome) == x.step = "done" /\ x.outcome = outcome
SafelyBuilt(x) == x.plan /\ x.step # "saved" /\ x.outcome \notin {"crashed", "interrupted"}
PerhapsBuilt(x) == x.plan /\ x.step # "saved"
Fruitless(x) == ~x.plan /\ x.step \notin {"off", "planning"}
CountsHold ==
  /\ IN_PROGRESS = Cardinality({r \in MeteredRuns : StillOn(doing[r])})
  /\ \A outcome \in Outcomes : SECONDS[outcome] = Cardinality({r \in MeteredRuns : DoneAs(doing[r], outcome)})
  /\ Cardinality({r \in MeteredRuns : SafelyBuilt(doing[r])}) <= BUILDS["success"]
  /\ BUILDS["success"] <= Cardinality({r \in MeteredRuns : PerhapsBuilt(doing[r])})
  /\ BUILDS["failure"] <= Cardinality({r \in MeteredRuns : Fruitless(doing[r])})
MetersInv == MeterTyped /\ (\A r \in MeteredRuns : DoingHolds(doing[r])) /\ CountsHold

One(b) == IF b THEN 1 ELSE 0
\* Two sets of runs that differ in one run at most.
LEMMA OneRunDiffers ==
  ASSUME NEW S \in SUBSET MeteredRuns, NEW T \in SUBSET MeteredRuns, NEW r \in MeteredRuns,
         \A q \in MeteredRuns \ {r} : q \in S <=> q \in T
  PROVE  /\ Cardinality(S) \in Nat /\ Cardinality(T) \in Nat
         /\ Cardinality(T) = Cardinality(S) + One(r \in T) - One(r \in S)
<1>1. IsFiniteSet(S) /\ IsFiniteSet(T) /\ Cardinality(S) \in Nat /\ Cardinality(T) \in Nat
  BY SomeRunsAreMetered, FS_Subset, FS_CardinalityType
<1>2. CASE r \in S /\ r \in T
  <2>1. S = T
    BY <1>2
  <2> QED BY <1>1, <1>2, <2>1 DEF One
<1>3. CASE r \notin S /\ r \notin T
  <2>1. S = T
    BY <1>3
  <2> QED BY <1>1, <1>3, <2>1 DEF One
<1>4. CASE r \notin S /\ r \in T
  <2>1. T = S \cup {r}
    BY <1>4
  <2>2. Cardinality(T) = Cardinality(S) + 1
    BY <1>1, <1>4, <2>1, FS_AddElement
  <2> QED BY <1>1, <1>4, <2>2 DEF One
<1>5. CASE r \in S /\ r \notin T
  <2>1. T = S \ {r}
    BY <1>5
  <2>2. Cardinality(T) = Cardinality(S) - 1
    BY <1>1, <1>5, <2>1, FS_RemoveElement
  <2> QED BY <1>1, <1>5, <2>2 DEF One
<1> QED BY <1>2, <1>3, <1>4, <1>5

\* One run goes on, and every count with it.
LEMMA CountsGoOn ==
  ASSUME MetersInv, NEW r \in MeteredRuns, NEW y \in DoingStates, DoingHolds(y), doing' = [doing EXCEPT ![r] = y],
         IN_PROGRESS' = IN_PROGRESS + One(StillOn(y)) - One(StillOn(doing[r])),
         SECONDS' \in [Outcomes -> Int], BUILDS' \in [{"success", "failure", "retry"} -> Int],
         \A outcome \in Outcomes : SECONDS'[outcome] = SECONDS[outcome] + One(DoneAs(y,
           outcome)) - One(DoneAs(doing[r], outcome)),
         BUILDS'["success"] >= BUILDS["success"] + One(SafelyBuilt(y)) - One(SafelyBuilt(doing[r])),
         BUILDS'["success"] <= BUILDS["success"] + One(PerhapsBuilt(y)) - One(PerhapsBuilt(doing[r])),
         BUILDS'["failure"] <= BUILDS["failure"] + One(Fruitless(y)) - One(Fruitless(doing[r]))
  PROVE  MetersInv'
<1>1. doing \in [MeteredRuns -> DoingStates] /\ IN_PROGRESS \in Int /\ SECONDS \in [Outcomes -> Int]
  BY DEF MetersInv, MeterTyped
<1>2. doing' \in [MeteredRuns -> DoingStates] /\ doing'[r] = y /\ \A q \in MeteredRuns \ {r} : doing'[q] = doing[q]
  BY <1>1
<1>3. IN_PROGRESS' \in Int
  BY <1>1 DEF One
<1>4. MeterTyped'
  BY <1>2, <1>3 DEF MeterTyped
<1>5. \A q \in MeteredRuns : DoingHolds(doing'[q])
  BY <1>2 DEF MetersInv
<1>6. /\ IN_PROGRESS = Cardinality({q \in MeteredRuns : StillOn(doing[q])})
      /\ \A outcome \in Outcomes : SECONDS[outcome] = Cardinality({q \in MeteredRuns : DoneAs(doing[q], outcome)})
      /\ Cardinality({q \in MeteredRuns : SafelyBuilt(doing[q])}) <= BUILDS["success"]
      /\ BUILDS["success"] <= Cardinality({q \in MeteredRuns : PerhapsBuilt(doing[q])})
      /\ BUILDS["failure"] <= Cardinality({q \in MeteredRuns : Fruitless(doing[q])})
  BY DEF MetersInv, CountsHold
<1>7. IN_PROGRESS' = Cardinality({q \in MeteredRuns : StillOn(doing'[q])})
  <2> DEFINE S == {q \in MeteredRuns : StillOn(doing[q])}
             T == {q \in MeteredRuns : StillOn(doing'[q])}
  <2>1. /\ S \in SUBSET MeteredRuns /\ T \in SUBSET MeteredRuns /\ (\A q \in MeteredRuns \ {r} : q \in S <=> q \in T)
        /\ (r \in S <=> StillOn(doing[r])) /\ (r \in T <=> StillOn(y))
    BY <1>2
  <2>2. IN_PROGRESS = Cardinality(S)
    BY <1>6
  <2> HIDE DEF S, T
  <2>3. Cardinality(T) = Cardinality(S) + One(r \in T) - One(r \in S)
    BY <2>1, OneRunDiffers
  <2>4. One(r \in T) = One(StillOn(y)) /\ One(r \in S) = One(StillOn(doing[r]))
    BY <2>1 DEF One
  <2>5. IN_PROGRESS' = Cardinality(T)
    BY <2>2, <2>3, <2>4
  <2> QED BY <2>5 DEF T
<1>8. ASSUME NEW outcome \in Outcomes
      PROVE  SECONDS'[outcome] = Cardinality({q \in MeteredRuns : DoneAs(doing'[q], outcome)})
  <2> DEFINE S == {q \in MeteredRuns : DoneAs(doing[q], outcome)}
             T == {q \in MeteredRuns : DoneAs(doing'[q], outcome)}
  <2>1. /\ S \in SUBSET MeteredRuns /\ T \in SUBSET MeteredRuns /\ (\A q \in MeteredRuns \ {r} : q \in S <=> q \in T)
        /\ (r \in S <=> DoneAs(doing[r], outcome)) /\ (r \in T <=> DoneAs(y, outcome))
    BY <1>2
  <2>2. SECONDS[outcome] = Cardinality(S)
    BY <1>6
  <2> HIDE DEF S, T
  <2>3. Cardinality(T) = Cardinality(S) + One(r \in T) - One(r \in S)
    BY <2>1, OneRunDiffers
  <2>4. One(r \in T) = One(DoneAs(y, outcome)) /\ One(r \in S) = One(DoneAs(doing[r], outcome))
    BY <2>1 DEF One
  <2>5. SECONDS'[outcome] = Cardinality(T)
    BY <2>2, <2>3, <2>4
  <2> QED BY <2>5 DEF T
<1>9. Cardinality({q \in MeteredRuns : SafelyBuilt(doing'[q])}) <= BUILDS'["success"]
  <2> DEFINE S == {q \in MeteredRuns : SafelyBuilt(doing[q])}
             T == {q \in MeteredRuns : SafelyBuilt(doing'[q])}
  <2>1. /\ S \in SUBSET MeteredRuns /\ T \in SUBSET MeteredRuns /\ (\A q \in MeteredRuns \ {r} : q \in S <=> q \in T)
        /\ (r \in S <=> SafelyBuilt(doing[r])) /\ (r \in T <=> SafelyBuilt(y))
    BY <1>2
  <2>2. Cardinality(S) <= BUILDS["success"]
    BY <1>6
  <2> HIDE DEF S, T
  <2>3. Cardinality(T) = Cardinality(S) + One(r \in T) - One(r \in S) /\ Cardinality(S) \in Nat
        /\ Cardinality(T) \in Nat
    BY <2>1, OneRunDiffers
  <2>4. One(r \in T) = One(SafelyBuilt(y)) /\ One(r \in S) = One(SafelyBuilt(doing[r]))
    BY <2>1 DEF One
  <2>5. BUILDS["success"] \in Int /\ BUILDS'["success"] \in Int /\ One(r \in T) \in Int /\ One(r \in S) \in Int
    BY DEF MetersInv, MeterTyped, One
  <2>6. Cardinality(T) <= BUILDS'["success"]
    BY <2>2, <2>3, <2>4, <2>5
  <2> QED BY <2>6 DEF T
<1>10. BUILDS'["success"] <= Cardinality({q \in MeteredRuns : PerhapsBuilt(doing'[q])})
  <2> DEFINE S == {q \in MeteredRuns : PerhapsBuilt(doing[q])}
             T == {q \in MeteredRuns : PerhapsBuilt(doing'[q])}
  <2>1. /\ S \in SUBSET MeteredRuns /\ T \in SUBSET MeteredRuns /\ (\A q \in MeteredRuns \ {r} : q \in S <=> q \in T)
        /\ (r \in S <=> PerhapsBuilt(doing[r])) /\ (r \in T <=> PerhapsBuilt(y))
    BY <1>2
  <2>2. BUILDS["success"] <= Cardinality(S)
    BY <1>6
  <2> HIDE DEF S, T
  <2>3. Cardinality(T) = Cardinality(S) + One(r \in T) - One(r \in S) /\ Cardinality(S) \in Nat
        /\ Cardinality(T) \in Nat
    BY <2>1, OneRunDiffers
  <2>4. One(r \in T) = One(PerhapsBuilt(y)) /\ One(r \in S) = One(PerhapsBuilt(doing[r]))
    BY <2>1 DEF One
  <2>5. BUILDS["success"] \in Int /\ BUILDS'["success"] \in Int /\ One(r \in T) \in Int /\ One(r \in S) \in Int
    BY DEF MetersInv, MeterTyped, One
  <2>6. BUILDS'["success"] <= Cardinality(T)
    BY <2>2, <2>3, <2>4, <2>5
  <2> QED BY <2>6 DEF T
<1>11. BUILDS'["failure"] <= Cardinality({q \in MeteredRuns : Fruitless(doing'[q])})
  <2> DEFINE S == {q \in MeteredRuns : Fruitless(doing[q])}
             T == {q \in MeteredRuns : Fruitless(doing'[q])}
  <2>1. /\ S \in SUBSET MeteredRuns /\ T \in SUBSET MeteredRuns /\ (\A q \in MeteredRuns \ {r} : q \in S <=> q \in T)
        /\ (r \in S <=> Fruitless(doing[r])) /\ (r \in T <=> Fruitless(y))
    BY <1>2
  <2>2. BUILDS["failure"] <= Cardinality(S)
    BY <1>6
  <2> HIDE DEF S, T
  <2>3. Cardinality(T) = Cardinality(S) + One(r \in T) - One(r \in S) /\ Cardinality(S) \in Nat
        /\ Cardinality(T) \in Nat
    BY <2>1, OneRunDiffers
  <2>4. One(r \in T) = One(Fruitless(y)) /\ One(r \in S) = One(Fruitless(doing[r]))
    BY <2>1 DEF One
  <2>5. BUILDS["failure"] \in Int /\ BUILDS'["failure"] \in Int /\ One(r \in T) \in Int /\ One(r \in S) \in Int
    BY DEF MetersInv, MeterTyped, One
  <2>6. BUILDS'["failure"] <= Cardinality(T)
    BY <2>2, <2>3, <2>4, <2>5
  <2> QED BY <2>6 DEF T
<1>12. CountsHold'
  BY <1>7, <1>8, <1>9, <1>10, <1>11 DEF CountsHold
<1> QED BY <1>4, <1>5, <1>12 DEF MetersInv

\* The meters' count of a set is the library's.
LEMMA MeterCounts == ASSUME NEW S PROVE Meter!Cardinality(S) = Cardinality(S)
BY Zenon DEF Meter!Cardinality, Cardinality

\* What each count counts is what the metrics are asked.
LEMMA RunsCounted == MetersInv => Meter!RunsCountedRight
<1> SUFFICES ASSUME MetersInv PROVE Meter!RunsCountedRight
  OBVIOUS
<1> DEFINE saved_runs == {r \in MeteredRuns : doing[r].plan}
           torn_runs == {r \in saved_runs : doing[r].step = "saved"
             \/ doing[r].outcome \in {"crashed", "interrupted"}}
           safe_runs == {r \in MeteredRuns : SafelyBuilt(doing[r])}
           perhaps_runs == {r \in MeteredRuns : PerhapsBuilt(doing[r])}
           fruitless_runs == {r \in MeteredRuns : Fruitless(doing[r])}
           begun_runs == {r \in MeteredRuns : doing[r].step # "off"}
<1>1. CountsHold /\ (\A r \in MeteredRuns : DoingHolds(doing[r])) /\ BUILDS["success"] \in Int
      /\ BUILDS["failure"] \in Int
  BY DEF MetersInv, MeterTyped
<1>2. /\ IsFiniteSet(saved_runs) /\ IsFiniteSet(torn_runs) /\ IsFiniteSet(perhaps_runs) /\ IsFiniteSet(fruitless_runs)
      /\ IsFiniteSet(begun_runs)
  <2>1. /\ saved_runs \in SUBSET MeteredRuns /\ torn_runs \in SUBSET MeteredRuns
        /\ perhaps_runs \in SUBSET MeteredRuns
        /\ fruitless_runs \in SUBSET MeteredRuns /\ begun_runs \in SUBSET MeteredRuns
    OBVIOUS
  <2> HIDE DEF saved_runs, torn_runs, perhaps_runs, fruitless_runs, begun_runs
  <2> QED BY <2>1, SomeRunsAreMetered, FS_Subset
<1>3. \A outcome \in Meter!RUN_OUTCOMES : SECONDS[outcome] = Cardinality(Meter!Ended({outcome}))
  <2> SUFFICES ASSUME NEW outcome \in Outcomes PROVE SECONDS[outcome] = Cardinality(Meter!Ended({outcome}))
    BY DEF Meter!RUN_OUTCOMES, Outcomes
  <2>1. Meter!Ended({outcome}) = {r \in MeteredRuns : DoneAs(doing[r], outcome)}
    BY DEF Meter!Ended, DoneAs
  <2> QED BY <1>1, <2>1 DEF CountsHold
<1>4. IN_PROGRESS = Cardinality({r \in MeteredRuns : doing[r].step \notin {"off", "done"}})
  BY <1>1 DEF CountsHold, StillOn
<1>5. Meter!Ended({"completed"}) \subseteq saved_runs /\ Meter!Ended({"no_plan"}) \cap saved_runs = {}
  BY <1>1 DEF Meter!Ended, DoingHolds
<1>6. Cardinality(saved_runs) - Cardinality(torn_runs) <= BUILDS["success"]
  <2>1. safe_runs = saved_runs \ torn_runs /\ saved_runs \cap torn_runs = torn_runs
    BY DEF SafelyBuilt
  <2>2. Cardinality(safe_runs) <= BUILDS["success"]
    BY <1>1 DEF CountsHold
  <2> HIDE DEF saved_runs, torn_runs, safe_runs
  <2>3. Cardinality(safe_runs) = Cardinality(saved_runs) - Cardinality(torn_runs)
    BY <1>2, <2>1, FS_Difference
  <2> QED BY <2>2, <2>3
<1>7. BUILDS["success"] <= Cardinality(saved_runs)
  <2>1. perhaps_runs \in SUBSET saved_runs
    BY DEF PerhapsBuilt
  <2>2. BUILDS["success"] <= Cardinality(perhaps_runs)
    BY <1>1 DEF CountsHold
  <2> HIDE DEF saved_runs, perhaps_runs
  <2>3. Cardinality(perhaps_runs) <= Cardinality(saved_runs) /\ Cardinality(perhaps_runs) \in Nat
        /\ Cardinality(saved_runs) \in Nat
    BY <1>2, <2>1, FS_Subset, FS_CardinalityType
  <2> QED BY <1>1, <2>2, <2>3
<1>8. BUILDS["failure"] + BUILDS["success"] <= Cardinality(begun_runs)
  <2>1. fruitless_runs \cap perhaps_runs = {} /\ (fruitless_runs \cup perhaps_runs) \in SUBSET begun_runs
    BY <1>1 DEF Fruitless, PerhapsBuilt, DoingHolds
  <2>2. BUILDS["success"] <= Cardinality(perhaps_runs) /\ BUILDS["failure"] <= Cardinality(fruitless_runs)
    BY <1>1 DEF CountsHold
  <2> HIDE DEF fruitless_runs, perhaps_runs, begun_runs
  <2>3. Cardinality(fruitless_runs \cup perhaps_runs) = Cardinality(fruitless_runs) + Cardinality(perhaps_runs)
    <3>1. Cardinality(fruitless_runs
          \cup perhaps_runs) = Cardinality(fruitless_runs) + Cardinality(perhaps_runs) - Cardinality({})
      BY <1>2, <2>1, FS_Union
    <3> QED BY <1>2, <3>1, FS_EmptySet, FS_CardinalityType
  <2>4. Cardinality(fruitless_runs \cup perhaps_runs) <= Cardinality(begun_runs)
    BY <1>2, <2>1, FS_Subset
  <2>5. Cardinality(fruitless_runs) \in Nat /\ Cardinality(perhaps_runs) \in Nat /\ Cardinality(begun_runs) \in Nat
    BY <1>2, FS_CardinalityType
  <2> QED BY <1>1, <2>2, <2>3, <2>4, <2>5
<1> QED BY <1>3, <1>4, <1>5, <1>6, <1>7, <1>8, MeterCounts DEF Meter!RunsCountedRight

\* Nothing is counted at the start.
LEMMA MetersStart == Meter!MetersInit => MetersInv
<1> SUFFICES ASSUME Meter!MetersInit PROVE MetersInv
  OBVIOUS
<1>1. /\ doing = [r \in MeteredRuns |-> [step |-> "off", outcome |-> "completed", sent_back |-> 0, plan |-> FALSE]]
      /\ IN_PROGRESS = 0 /\ SECONDS = [outcome \in Outcomes |-> 0]
      /\ BUILDS = [status \in {"success", "failure", "retry"} |-> 0]
  BY DEF Meter!MetersInit, Meter!NotBegun, Meter!None, Meter!RUN_OUTCOMES, Meter!BUILD_STATUSES, Outcomes
<1>2. MeterTyped
  BY <1>1 DEF MeterTyped, DoingStates, DoingSteps, Outcomes
<1>3. \A r \in MeteredRuns : DoingHolds(doing[r])
  BY <1>1 DEF DoingHolds
<1>4. /\ {r \in MeteredRuns : StillOn(doing[r])} = {} /\ {r \in MeteredRuns : SafelyBuilt(doing[r])} = {}
      /\ {r \in MeteredRuns : PerhapsBuilt(doing[r])} = {} /\ {r \in MeteredRuns : Fruitless(doing[r])} = {}
      /\ \A outcome \in Outcomes : {r \in MeteredRuns : DoneAs(doing[r], outcome)} = {}
  BY <1>1 DEF StillOn, SafelyBuilt, PerhapsBuilt, Fruitless, DoneAs
<1>5. CountsHold
  <2>1. Cardinality({}) = 0 /\ BUILDS["success"] = 0 /\ BUILDS["failure"] = 0
        /\ \A outcome \in Outcomes : SECONDS[outcome] = 0
    BY <1>1, FS_EmptySet
  <2>2. /\ Cardinality({r \in MeteredRuns : StillOn(doing[r])}) = 0
        /\ Cardinality({r \in MeteredRuns : SafelyBuilt(doing[r])}) = 0
        /\ Cardinality({r \in MeteredRuns : PerhapsBuilt(doing[r])}) = 0
        /\ Cardinality({r \in MeteredRuns : Fruitless(doing[r])}) = 0
    BY <1>4, <2>1
  <2>3. \A outcome \in Outcomes : Cardinality({r \in MeteredRuns : DoneAs(doing[r], outcome)}) = 0
    BY <1>4, <2>1
  <2>4. IN_PROGRESS = Cardinality({r \in MeteredRuns : StillOn(doing[r])})
    BY <1>1, <2>2
  <2>5. \A outcome \in Outcomes : SECONDS[outcome] = Cardinality({r \in MeteredRuns : DoneAs(doing[r], outcome)})
    BY <2>1, <2>3
  <2>6. Cardinality({r \in MeteredRuns : SafelyBuilt(doing[r])}) <= BUILDS["success"]
    BY <2>1, <2>2
  <2>7. BUILDS["success"] <= Cardinality({r \in MeteredRuns : PerhapsBuilt(doing[r])})
    BY <2>1, <2>2
  <2>8. BUILDS["failure"] <= Cardinality({r \in MeteredRuns : Fruitless(doing[r])})
    BY <2>1, <2>2
  <2> QED BY <2>4, <2>5, <2>6, <2>7, <2>8 DEF CountsHold
<1> QED BY <1>2, <1>3, <1>5 DEF MetersInv

\* The steps of a run, one by one.
LEMMA RunBeginning == ASSUME MetersInv, NEW r \in MeteredRuns, Meter!Begins(r) PROVE MetersInv'
<1> DEFINE y == [doing[r] EXCEPT !.step = "planning"]
<1>1. doing \in [MeteredRuns -> DoingStates] /\ doing[r] \in DoingStates /\ DoingHolds(doing[r])
  BY DEF MetersInv, MeterTyped
<1>2. y \in DoingStates
  BY <1>1 DEF DoingStates, DoingSteps, Outcomes, Meter!Begins, Meter!Goes
<1>3. doing' = [doing EXCEPT ![r] = y]
  BY <1>1 DEF Meter!Begins, Meter!Goes
<1>4. DoingHolds(y)
  BY <1>1 DEF DoingStates, DoingHolds, Meter!Begins, Meter!Goes
<1>5. IN_PROGRESS' = IN_PROGRESS + One(StillOn(y)) - One(StillOn(doing[r])) /\ IN_PROGRESS \in Int
  BY <1>1 DEF MetersInv, MeterTyped, DoingStates, StillOn, One, Meter!Begins, Meter!Goes
<1>6. SECONDS' \in [Outcomes -> Int]
  BY DEF MetersInv, MeterTyped, Meter!Begins, Meter!Goes
<1>7. \A outcome \in Outcomes :
        SECONDS'[outcome] = SECONDS[outcome] + One(DoneAs(y, outcome)) - One(DoneAs(doing[r], outcome))
  BY <1>1 DEF MetersInv, MeterTyped, DoingStates, DoneAs, One, Meter!Begins, Meter!Goes
<1>8. BUILDS' \in [{"success", "failure", "retry"} -> Int]
  BY DEF MetersInv, MeterTyped, Meter!Begins, Meter!Goes
<1>9. /\ BUILDS'["success"] >= BUILDS["success"] + One(SafelyBuilt(y)) - One(SafelyBuilt(doing[r]))
      /\ BUILDS'["success"] <= BUILDS["success"] + One(PerhapsBuilt(y)) - One(PerhapsBuilt(doing[r]))
  BY <1>1 DEF MetersInv, MeterTyped, DoingStates, DoingHolds, SafelyBuilt, PerhapsBuilt, One, Meter!Begins, Meter!Goes
<1>10. BUILDS'["failure"] <= BUILDS["failure"] + One(Fruitless(y)) - One(Fruitless(doing[r]))
  BY <1>1 DEF MetersInv, MeterTyped, DoingStates, DoingHolds, Fruitless, One, Meter!Begins, Meter!Goes
<1> HIDE DEF y
<1> QED BY <1>2, <1>3, <1>4, <1>5, <1>6, <1>7, <1>8, <1>9, <1>10, CountsGoOn

LEMMA SendingBack == ASSUME MetersInv, NEW r \in MeteredRuns, Meter!retry_dispatch_node(r) PROVE MetersInv'
<1> DEFINE y == [doing[r] EXCEPT !.sent_back = @ + 1]
<1>1. doing \in [MeteredRuns -> DoingStates] /\ doing[r] \in DoingStates /\ DoingHolds(doing[r])
  BY DEF MetersInv, MeterTyped
<1>2. y \in DoingStates
  BY <1>1 DEF DoingStates, DoingSteps, Outcomes, Meter!retry_dispatch_node, Meter!inc
<1>3. doing' = [doing EXCEPT ![r] = y]
  BY <1>1 DEF Meter!retry_dispatch_node, Meter!inc
<1>4. DoingHolds(y)
  BY <1>1 DEF DoingStates, DoingHolds, Meter!retry_dispatch_node, Meter!inc
<1>5. IN_PROGRESS' = IN_PROGRESS + One(StillOn(y)) - One(StillOn(doing[r])) /\ IN_PROGRESS \in Int
  BY <1>1 DEF MetersInv, MeterTyped, DoingStates, StillOn, One, Meter!retry_dispatch_node, Meter!inc
<1>6. SECONDS' \in [Outcomes -> Int]
  BY DEF MetersInv, MeterTyped, Meter!retry_dispatch_node, Meter!inc
<1>7. \A outcome \in Outcomes :
        SECONDS'[outcome] = SECONDS[outcome] + One(DoneAs(y, outcome)) - One(DoneAs(doing[r], outcome))
  BY <1>1 DEF MetersInv, MeterTyped, DoingStates, DoneAs, One, Meter!retry_dispatch_node, Meter!inc
<1>8. BUILDS' \in [{"success", "failure", "retry"} -> Int]
  BY DEF MetersInv, MeterTyped, Meter!retry_dispatch_node, Meter!inc
<1>9. /\ BUILDS'["success"] >= BUILDS["success"] + One(SafelyBuilt(y)) - One(SafelyBuilt(doing[r]))
      /\ BUILDS'["success"] <= BUILDS["success"] + One(PerhapsBuilt(y)) - One(PerhapsBuilt(doing[r]))
  BY <1>1 DEF MetersInv, MeterTyped, DoingStates, DoingHolds, SafelyBuilt, PerhapsBuilt, One,
      Meter!retry_dispatch_node, Meter!inc
<1>10. BUILDS'["failure"] <= BUILDS["failure"] + One(Fruitless(y)) - One(Fruitless(doing[r]))
  BY <1>1 DEF MetersInv, MeterTyped, DoingStates, DoingHolds, Fruitless, One, Meter!retry_dispatch_node, Meter!inc
<1> HIDE DEF y
<1> QED BY <1>2, <1>3, <1>4, <1>5, <1>6, <1>7, <1>8, <1>9, <1>10, CountsGoOn

LEMMA SavingThePlan == ASSUME MetersInv, NEW r \in MeteredRuns, Meter!PersistCommits(r) PROVE MetersInv'
<1> DEFINE y == [doing[r] EXCEPT !.step = "saved", !.plan = TRUE]
<1>1. doing \in [MeteredRuns -> DoingStates] /\ doing[r] \in DoingStates /\ DoingHolds(doing[r])
  BY DEF MetersInv, MeterTyped
<1>2. y \in DoingStates
  BY <1>1 DEF DoingStates, DoingSteps, Outcomes, Meter!PersistCommits, Meter!Uncounted
<1>3. doing' = [doing EXCEPT ![r] = y]
  BY <1>1 DEF Meter!PersistCommits, Meter!Uncounted
<1>4. DoingHolds(y)
  BY <1>1 DEF DoingStates, DoingHolds, Meter!PersistCommits, Meter!Uncounted
<1>5. IN_PROGRESS' = IN_PROGRESS + One(StillOn(y)) - One(StillOn(doing[r])) /\ IN_PROGRESS \in Int
  BY <1>1 DEF MetersInv, MeterTyped, DoingStates, StillOn, One, Meter!PersistCommits, Meter!Uncounted
<1>6. SECONDS' \in [Outcomes -> Int]
  BY DEF MetersInv, MeterTyped, Meter!PersistCommits, Meter!Uncounted
<1>7. \A outcome \in Outcomes :
        SECONDS'[outcome] = SECONDS[outcome] + One(DoneAs(y, outcome)) - One(DoneAs(doing[r], outcome))
  BY <1>1 DEF MetersInv, MeterTyped, DoingStates, DoneAs, One, Meter!PersistCommits, Meter!Uncounted
<1>8. BUILDS' \in [{"success", "failure", "retry"} -> Int]
  BY DEF MetersInv, MeterTyped, Meter!PersistCommits, Meter!Uncounted
<1>9. /\ BUILDS'["success"] >= BUILDS["success"] + One(SafelyBuilt(y)) - One(SafelyBuilt(doing[r]))
      /\ BUILDS'["success"] <= BUILDS["success"] + One(PerhapsBuilt(y)) - One(PerhapsBuilt(doing[r]))
  BY <1>1 DEF MetersInv, MeterTyped, DoingStates, DoingHolds, SafelyBuilt, PerhapsBuilt, One, Meter!PersistCommits,
      Meter!Uncounted
<1>10. BUILDS'["failure"] <= BUILDS["failure"] + One(Fruitless(y)) - One(Fruitless(doing[r]))
  BY <1>1 DEF MetersInv, MeterTyped, DoingStates, DoingHolds, Fruitless, One, Meter!PersistCommits, Meter!Uncounted
<1> HIDE DEF y
<1> QED BY <1>2, <1>3, <1>4, <1>5, <1>6, <1>7, <1>8, <1>9, <1>10, CountsGoOn

LEMMA CountingThePlan == ASSUME MetersInv, NEW r \in MeteredRuns, Meter!PersistCounts(r) PROVE MetersInv'
<1> DEFINE y == [doing[r] EXCEPT !.step = "built"]
<1>1. doing \in [MeteredRuns -> DoingStates] /\ doing[r] \in DoingStates /\ DoingHolds(doing[r])
  BY DEF MetersInv, MeterTyped
<1>2. y \in DoingStates
  BY <1>1 DEF DoingStates, DoingSteps, Outcomes, Meter!PersistCounts, Meter!Goes, Meter!inc
<1>3. doing' = [doing EXCEPT ![r] = y]
  BY <1>1 DEF Meter!PersistCounts, Meter!Goes, Meter!inc
<1>4. DoingHolds(y)
  BY <1>1 DEF DoingStates, DoingHolds, Meter!PersistCounts, Meter!Goes, Meter!inc
<1>5. IN_PROGRESS' = IN_PROGRESS + One(StillOn(y)) - One(StillOn(doing[r])) /\ IN_PROGRESS \in Int
  BY <1>1 DEF MetersInv, MeterTyped, DoingStates, StillOn, One, Meter!PersistCounts, Meter!Goes, Meter!inc
<1>6. SECONDS' \in [Outcomes -> Int]
  BY DEF MetersInv, MeterTyped, Meter!PersistCounts, Meter!Goes, Meter!inc
<1>7. \A outcome \in Outcomes :
        SECONDS'[outcome] = SECONDS[outcome] + One(DoneAs(y, outcome)) - One(DoneAs(doing[r], outcome))
  BY <1>1 DEF MetersInv, MeterTyped, DoingStates, DoneAs, One, Meter!PersistCounts, Meter!Goes, Meter!inc
<1>8. BUILDS' \in [{"success", "failure", "retry"} -> Int]
  BY DEF MetersInv, MeterTyped, Meter!PersistCounts, Meter!Goes, Meter!inc
<1>9. /\ BUILDS'["success"] >= BUILDS["success"] + One(SafelyBuilt(y)) - One(SafelyBuilt(doing[r]))
      /\ BUILDS'["success"] <= BUILDS["success"] + One(PerhapsBuilt(y)) - One(PerhapsBuilt(doing[r]))
  BY <1>1 DEF MetersInv, MeterTyped, DoingStates, DoingHolds, SafelyBuilt, PerhapsBuilt, One, Meter!PersistCounts,
      Meter!Goes, Meter!inc
<1>10. BUILDS'["failure"] <= BUILDS["failure"] + One(Fruitless(y)) - One(Fruitless(doing[r]))
  BY <1>1 DEF MetersInv, MeterTyped, DoingStates, DoingHolds, Fruitless, One, Meter!PersistCounts, Meter!Goes,
      Meter!inc
<1> HIDE DEF y
<1> QED BY <1>2, <1>3, <1>4, <1>5, <1>6, <1>7, <1>8, <1>9, <1>10, CountsGoOn

LEMMA GivingUp == ASSUME MetersInv, NEW r \in MeteredRuns, Meter!builder_failed_node(r) PROVE MetersInv'
<1> DEFINE y == [doing[r] EXCEPT !.step = "gave_up"]
<1>1. doing \in [MeteredRuns -> DoingStates] /\ doing[r] \in DoingStates /\ DoingHolds(doing[r])
  BY DEF MetersInv, MeterTyped
<1>2. y \in DoingStates
  BY <1>1 DEF DoingStates, DoingSteps, Outcomes, Meter!builder_failed_node, Meter!Goes, Meter!inc
<1>3. doing' = [doing EXCEPT ![r] = y]
  BY <1>1 DEF Meter!builder_failed_node, Meter!Goes, Meter!inc
<1>4. DoingHolds(y)
  BY <1>1 DEF DoingStates, DoingHolds, Meter!builder_failed_node, Meter!Goes, Meter!inc
<1>5. IN_PROGRESS' = IN_PROGRESS + One(StillOn(y)) - One(StillOn(doing[r])) /\ IN_PROGRESS \in Int
  BY <1>1 DEF MetersInv, MeterTyped, DoingStates, StillOn, One, Meter!builder_failed_node, Meter!Goes, Meter!inc
<1>6. SECONDS' \in [Outcomes -> Int]
  BY DEF MetersInv, MeterTyped, Meter!builder_failed_node, Meter!Goes, Meter!inc
<1>7. \A outcome \in Outcomes :
        SECONDS'[outcome] = SECONDS[outcome] + One(DoneAs(y, outcome)) - One(DoneAs(doing[r], outcome))
  BY <1>1 DEF MetersInv, MeterTyped, DoingStates, DoneAs, One, Meter!builder_failed_node, Meter!Goes, Meter!inc
<1>8. BUILDS' \in [{"success", "failure", "retry"} -> Int]
  BY DEF MetersInv, MeterTyped, Meter!builder_failed_node, Meter!Goes, Meter!inc
<1>9. /\ BUILDS'["success"] >= BUILDS["success"] + One(SafelyBuilt(y)) - One(SafelyBuilt(doing[r]))
      /\ BUILDS'["success"] <= BUILDS["success"] + One(PerhapsBuilt(y)) - One(PerhapsBuilt(doing[r]))
  BY <1>1 DEF MetersInv, MeterTyped, DoingStates, DoingHolds, SafelyBuilt, PerhapsBuilt, One,
      Meter!builder_failed_node, Meter!Goes, Meter!inc
<1>10. BUILDS'["failure"] <= BUILDS["failure"] + One(Fruitless(y)) - One(Fruitless(doing[r]))
  BY <1>1 DEF MetersInv, MeterTyped, DoingStates, DoingHolds, Fruitless, One, Meter!builder_failed_node, Meter!Goes,
      Meter!inc
<1> HIDE DEF y
<1> QED BY <1>2, <1>3, <1>4, <1>5, <1>6, <1>7, <1>8, <1>9, <1>10, CountsGoOn

LEMMA EndingWithThePlan == ASSUME MetersInv, NEW r \in MeteredRuns, Meter!EndsWithPlan(r) PROVE MetersInv'
<1> DEFINE y == [doing[r] EXCEPT !.step = "clearing"]
<1>1. doing \in [MeteredRuns -> DoingStates] /\ doing[r] \in DoingStates /\ DoingHolds(doing[r])
  BY DEF MetersInv, MeterTyped
<1>2. y \in DoingStates
  BY <1>1 DEF DoingStates, DoingSteps, Outcomes, Meter!EndsWithPlan, Meter!Goes, Meter!Uncounted
<1>3. doing' = [doing EXCEPT ![r] = y]
  BY <1>1 DEF Meter!EndsWithPlan, Meter!Goes, Meter!Uncounted
<1>4. DoingHolds(y)
  BY <1>1 DEF DoingStates, DoingHolds, Meter!EndsWithPlan, Meter!Goes, Meter!Uncounted
<1>5. IN_PROGRESS' = IN_PROGRESS + One(StillOn(y)) - One(StillOn(doing[r])) /\ IN_PROGRESS \in Int
  BY <1>1 DEF MetersInv, MeterTyped, DoingStates, StillOn, One, Meter!EndsWithPlan, Meter!Goes, Meter!Uncounted
<1>6. SECONDS' \in [Outcomes -> Int]
  BY DEF MetersInv, MeterTyped, Meter!EndsWithPlan, Meter!Goes, Meter!Uncounted
<1>7. \A outcome \in Outcomes :
        SECONDS'[outcome] = SECONDS[outcome] + One(DoneAs(y, outcome)) - One(DoneAs(doing[r], outcome))
  BY <1>1 DEF MetersInv, MeterTyped, DoingStates, DoneAs, One, Meter!EndsWithPlan, Meter!Goes, Meter!Uncounted
<1>8. BUILDS' \in [{"success", "failure", "retry"} -> Int]
  BY DEF MetersInv, MeterTyped, Meter!EndsWithPlan, Meter!Goes, Meter!Uncounted
<1>9. /\ BUILDS'["success"] >= BUILDS["success"] + One(SafelyBuilt(y)) - One(SafelyBuilt(doing[r]))
      /\ BUILDS'["success"] <= BUILDS["success"] + One(PerhapsBuilt(y)) - One(PerhapsBuilt(doing[r]))
  BY <1>1 DEF MetersInv, MeterTyped, DoingStates, DoingHolds, SafelyBuilt, PerhapsBuilt, One, Meter!EndsWithPlan,
      Meter!Goes, Meter!Uncounted
<1>10. BUILDS'["failure"] <= BUILDS["failure"] + One(Fruitless(y)) - One(Fruitless(doing[r]))
  BY <1>1 DEF MetersInv, MeterTyped, DoingStates, DoingHolds, Fruitless, One, Meter!EndsWithPlan, Meter!Goes,
      Meter!Uncounted
<1> HIDE DEF y
<1> QED BY <1>2, <1>3, <1>4, <1>5, <1>6, <1>7, <1>8, <1>9, <1>10, CountsGoOn

LEMMA SettlingTheTrip == ASSUME MetersInv, NEW r \in MeteredRuns, Meter!Settles(r) PROVE MetersInv'
<1> DEFINE y == [doing[r] EXCEPT !.step = "clearing"]
<1>1. doing \in [MeteredRuns -> DoingStates] /\ doing[r] \in DoingStates /\ DoingHolds(doing[r])
  BY DEF MetersInv, MeterTyped
<1>2. y \in DoingStates
  BY <1>1 DEF DoingStates, DoingSteps, Outcomes, Meter!Settles, Meter!Goes, Meter!Uncounted
<1>3. doing' = [doing EXCEPT ![r] = y]
  BY <1>1 DEF Meter!Settles, Meter!Goes, Meter!Uncounted
<1>4. DoingHolds(y)
  BY <1>1 DEF DoingStates, DoingHolds, Meter!Settles, Meter!Goes, Meter!Uncounted
<1>5. IN_PROGRESS' = IN_PROGRESS + One(StillOn(y)) - One(StillOn(doing[r])) /\ IN_PROGRESS \in Int
  BY <1>1 DEF MetersInv, MeterTyped, DoingStates, StillOn, One, Meter!Settles, Meter!Goes, Meter!Uncounted
<1>6. SECONDS' \in [Outcomes -> Int]
  BY DEF MetersInv, MeterTyped, Meter!Settles, Meter!Goes, Meter!Uncounted
<1>7. \A outcome \in Outcomes :
        SECONDS'[outcome] = SECONDS[outcome] + One(DoneAs(y, outcome)) - One(DoneAs(doing[r], outcome))
  BY <1>1 DEF MetersInv, MeterTyped, DoingStates, DoneAs, One, Meter!Settles, Meter!Goes, Meter!Uncounted
<1>8. BUILDS' \in [{"success", "failure", "retry"} -> Int]
  BY DEF MetersInv, MeterTyped, Meter!Settles, Meter!Goes, Meter!Uncounted
<1>9. /\ BUILDS'["success"] >= BUILDS["success"] + One(SafelyBuilt(y)) - One(SafelyBuilt(doing[r]))
      /\ BUILDS'["success"] <= BUILDS["success"] + One(PerhapsBuilt(y)) - One(PerhapsBuilt(doing[r]))
  BY <1>1 DEF MetersInv, MeterTyped, DoingStates, DoingHolds, SafelyBuilt, PerhapsBuilt, One, Meter!Settles,
      Meter!Goes, Meter!Uncounted
<1>10. BUILDS'["failure"] <= BUILDS["failure"] + One(Fruitless(y)) - One(Fruitless(doing[r]))
  BY <1>1 DEF MetersInv, MeterTyped, DoingStates, DoingHolds, Fruitless, One, Meter!Settles, Meter!Goes,
      Meter!Uncounted
<1> HIDE DEF y
<1> QED BY <1>2, <1>3, <1>4, <1>5, <1>6, <1>7, <1>8, <1>9, <1>10, CountsGoOn

LEMMA RunFailing == ASSUME MetersInv, NEW r \in MeteredRuns, Meter!Crashes(r) PROVE MetersInv'
<1> DEFINE y == [doing[r] EXCEPT !.step = "settling", !.outcome = "crashed"]
<1>1. doing \in [MeteredRuns -> DoingStates] /\ doing[r] \in DoingStates /\ DoingHolds(doing[r])
  BY DEF MetersInv, MeterTyped
<1>2. y \in DoingStates
  BY <1>1 DEF DoingStates, DoingSteps, Outcomes, Meter!Crashes, Meter!EndsAs, Meter!Uncounted
<1>3. doing' = [doing EXCEPT ![r] = y]
  BY <1>1 DEF Meter!Crashes, Meter!EndsAs, Meter!Uncounted
<1>4. DoingHolds(y)
  BY <1>1 DEF DoingStates, DoingHolds, Meter!Crashes, Meter!EndsAs, Meter!Uncounted
<1>5. IN_PROGRESS' = IN_PROGRESS + One(StillOn(y)) - One(StillOn(doing[r])) /\ IN_PROGRESS \in Int
  BY <1>1 DEF MetersInv, MeterTyped, DoingStates, StillOn, One, Meter!Crashes, Meter!EndsAs, Meter!Uncounted
<1>6. SECONDS' \in [Outcomes -> Int]
  BY DEF MetersInv, MeterTyped, Meter!Crashes, Meter!EndsAs, Meter!Uncounted
<1>7. \A outcome \in Outcomes :
        SECONDS'[outcome] = SECONDS[outcome] + One(DoneAs(y, outcome)) - One(DoneAs(doing[r], outcome))
  BY <1>1 DEF MetersInv, MeterTyped, DoingStates, DoneAs, One, Meter!Crashes, Meter!EndsAs, Meter!Uncounted
<1>8. BUILDS' \in [{"success", "failure", "retry"} -> Int]
  BY DEF MetersInv, MeterTyped, Meter!Crashes, Meter!EndsAs, Meter!Uncounted
<1>9. /\ BUILDS'["success"] >= BUILDS["success"] + One(SafelyBuilt(y)) - One(SafelyBuilt(doing[r]))
      /\ BUILDS'["success"] <= BUILDS["success"] + One(PerhapsBuilt(y)) - One(PerhapsBuilt(doing[r]))
  BY <1>1 DEF MetersInv, MeterTyped, DoingStates, DoingHolds, SafelyBuilt, PerhapsBuilt, One, Meter!Crashes,
      Meter!EndsAs, Meter!Uncounted
<1>10. BUILDS'["failure"] <= BUILDS["failure"] + One(Fruitless(y)) - One(Fruitless(doing[r]))
  BY <1>1 DEF MetersInv, MeterTyped, DoingStates, DoingHolds, Fruitless, One, Meter!Crashes, Meter!EndsAs,
      Meter!Uncounted
<1> HIDE DEF y
<1> QED BY <1>2, <1>3, <1>4, <1>5, <1>6, <1>7, <1>8, <1>9, <1>10, CountsGoOn

\* The graph is through without a plan: the trip is settled first, or not.
LEMMA EndingWithoutOne == ASSUME MetersInv, NEW r \in MeteredRuns, Meter!EndsWithout(r) PROVE MetersInv'
<1>1. PICK step \in {"settling", "clearing"} : Meter!EndsAs(r, step, "no_plan")
  BY DEF Meter!EndsWithout
<1> DEFINE y == [doing[r] EXCEPT !.step = step, !.outcome = "no_plan"]
<1>2. doing \in [MeteredRuns -> DoingStates] /\ doing[r] \in DoingStates /\ DoingHolds(doing[r])
  BY DEF MetersInv, MeterTyped
<1>3. y \in DoingStates
  BY <1>2, <1>1 DEF DoingStates, DoingSteps, Outcomes, Meter!EndsWithout, Meter!EndsAs, Meter!Uncounted
<1>4. doing' = [doing EXCEPT ![r] = y]
  BY <1>2, <1>1 DEF Meter!EndsWithout, Meter!EndsAs, Meter!Uncounted
<1>5. DoingHolds(y)
  BY <1>2, <1>1 DEF DoingStates, DoingHolds, Meter!EndsWithout, Meter!EndsAs, Meter!Uncounted
<1>6. IN_PROGRESS' = IN_PROGRESS + One(StillOn(y)) - One(StillOn(doing[r])) /\ IN_PROGRESS \in Int
  BY <1>2, <1>1 DEF MetersInv, MeterTyped, DoingStates, StillOn, One, Meter!EndsWithout, Meter!EndsAs, Meter!Uncounted
<1>7. SECONDS' \in [Outcomes -> Int]
  BY <1>2, <1>1 DEF MetersInv, MeterTyped, DoingStates, Meter!EndsWithout, Meter!EndsAs, Meter!Uncounted
<1>8. \A outcome \in Outcomes :
        SECONDS'[outcome] = SECONDS[outcome] + One(DoneAs(y, outcome)) - One(DoneAs(doing[r], outcome))
  BY <1>2, <1>1 DEF MetersInv, MeterTyped, DoingStates, DoneAs, One, Meter!EndsWithout, Meter!EndsAs, Meter!Uncounted
<1>9. BUILDS' \in [{"success", "failure", "retry"} -> Int]
  BY <1>2, <1>1 DEF MetersInv, MeterTyped, Meter!EndsWithout, Meter!EndsAs, Meter!Uncounted
<1>10. /\ BUILDS'["success"] >= BUILDS["success"] + One(SafelyBuilt(y)) - One(SafelyBuilt(doing[r]))
      /\ BUILDS'["success"] <= BUILDS["success"] + One(PerhapsBuilt(y)) - One(PerhapsBuilt(doing[r]))
  BY <1>2, <1>1 DEF MetersInv, MeterTyped, DoingStates, DoingHolds, SafelyBuilt, PerhapsBuilt, One,
      Meter!EndsWithout, Meter!EndsAs, Meter!Uncounted
<1>11. BUILDS'["failure"] <= BUILDS["failure"] + One(Fruitless(y)) - One(Fruitless(doing[r]))
  BY <1>2, <1>1 DEF MetersInv, MeterTyped, DoingStates, DoingHolds, Fruitless, One, Meter!EndsWithout, Meter!EndsAs,
      Meter!Uncounted
<1> HIDE DEF y
<1> QED BY <1>3, <1>4, <1>5, <1>6, <1>7, <1>8, <1>9, <1>10, <1>11, CountsGoOn

\* A run measured: off the gauge, and counted as what it ended as.
LEMMA Measuring == ASSUME MetersInv, NEW r \in MeteredRuns, NEW outcome \in Outcomes, Meter!Measured(r, outcome),
         StillOn(doing[r]), DoingHolds([doing[r] EXCEPT !.step = "done", !.outcome = outcome]),
         SafelyBuilt([doing[r] EXCEPT !.step = "done", !.outcome = outcome]) => SafelyBuilt(doing[r]) PROVE MetersInv'
<1> DEFINE y == [doing[r] EXCEPT !.step = "done", !.outcome = outcome]
<1>1. doing \in [MeteredRuns -> DoingStates] /\ doing[r] \in DoingStates /\ DoingHolds(doing[r])
  BY DEF MetersInv, MeterTyped
<1>2. y \in DoingStates
  BY <1>1 DEF DoingStates, DoingSteps, Outcomes, Meter!Measured, Meter!EndsAs, Meter!inc, StillOn
<1>3. doing' = [doing EXCEPT ![r] = y]
  BY <1>1 DEF Meter!Measured, Meter!EndsAs, Meter!inc, StillOn
<1>4. DoingHolds(y)
  BY <1>1 DEF DoingStates, DoingHolds, Meter!Measured, Meter!EndsAs, Meter!inc, StillOn
<1>5. IN_PROGRESS' = IN_PROGRESS + One(StillOn(y)) - One(StillOn(doing[r])) /\ IN_PROGRESS \in Int
  BY <1>1 DEF MetersInv, MeterTyped, DoingStates, StillOn, One, Meter!Measured, Meter!EndsAs, Meter!inc, StillOn
<1>6. SECONDS' \in [Outcomes -> Int]
  BY <1>1 DEF MetersInv, MeterTyped, DoingStates, Meter!Measured, Meter!EndsAs, Meter!inc, StillOn
<1>7. \A other \in Outcomes :
        SECONDS'[other] = SECONDS[other] + One(DoneAs(y, other)) - One(DoneAs(doing[r], other))
  BY <1>1 DEF MetersInv, MeterTyped, DoingStates, DoneAs, One, Meter!Measured, Meter!EndsAs, Meter!inc, StillOn
<1>8. BUILDS' \in [{"success", "failure", "retry"} -> Int]
  BY <1>1 DEF MetersInv, MeterTyped, Meter!Measured, Meter!EndsAs, Meter!inc, StillOn
<1>9. /\ BUILDS'["success"] >= BUILDS["success"] + One(SafelyBuilt(y)) - One(SafelyBuilt(doing[r]))
      /\ BUILDS'["success"] <= BUILDS["success"] + One(PerhapsBuilt(y)) - One(PerhapsBuilt(doing[r]))
  BY <1>1 DEF MetersInv, MeterTyped, DoingStates, DoingHolds, SafelyBuilt, PerhapsBuilt, One, Meter!Measured,
      Meter!EndsAs, Meter!inc, StillOn
<1>10. BUILDS'["failure"] <= BUILDS["failure"] + One(Fruitless(y)) - One(Fruitless(doing[r]))
  BY <1>1 DEF MetersInv, MeterTyped, DoingStates, DoingHolds, Fruitless, One, Meter!Measured, Meter!EndsAs,
      Meter!inc, StillOn
<1> HIDE DEF y
<1> QED BY <1>2, <1>3, <1>4, <1>5, <1>6, <1>7, <1>8, <1>9, <1>10, CountsGoOn

\* Measured at its end, or where the server stops it.
LEMMA Clearing == ASSUME MetersInv, NEW r \in MeteredRuns, Meter!Cleared(r) PROVE MetersInv'
<1>1. doing[r] \in DoingStates /\ DoingHolds(doing[r]) /\ doing[r].step = "clearing"
      /\ Meter!Measured(r, doing[r].outcome)
  BY DEF MetersInv, MeterTyped, Meter!Cleared
<1>2. doing[r].outcome \in Outcomes /\ StillOn(doing[r])
  BY <1>1 DEF DoingStates, StillOn
<1>3. DoingHolds([doing[r] EXCEPT !.step = "done", !.outcome = doing[r].outcome])
  BY <1>1 DEF DoingStates, DoingHolds
<1>4. SafelyBuilt([doing[r] EXCEPT !.step = "done", !.outcome = doing[r].outcome]) => SafelyBuilt(doing[r])
  BY <1>1 DEF DoingStates, SafelyBuilt
<1> QED BY <1>1, <1>2, <1>3, <1>4, Measuring

LEMMA CuttingShort == ASSUME MetersInv, NEW r \in MeteredRuns, Meter!CutShort(r) PROVE MetersInv'
<1>1. doing[r] \in DoingStates /\ StillOn(doing[r]) /\ Meter!Measured(r, "interrupted") /\ "interrupted" \in Outcomes
  BY DEF MetersInv, MeterTyped, Meter!CutShort, StillOn, Outcomes
<1>2. DoingHolds([doing[r] EXCEPT !.step = "done", !.outcome = "interrupted"])
  BY <1>1 DEF DoingStates, DoingHolds
<1>3. SafelyBuilt([doing[r] EXCEPT !.step = "done", !.outcome = "interrupted"]) => SafelyBuilt(doing[r])
  BY <1>1 DEF DoingStates, SafelyBuilt
<1> QED BY <1>1, <1>2, <1>3, Measuring

meters_watched == <<doing, IN_PROGRESS, SECONDS, BUILDS>>
\* Every step of the runs counted.
LEMMA MetersIdle == ASSUME MetersInv, UNCHANGED meters_watched PROVE MetersInv'
BY DEF MetersInv, MeterTyped, CountsHold, meters_watched

LEMMA MeterStep == ASSUME MetersInv, Meter!RunMeterNext PROVE MetersInv'
<1>1. PICK r \in MeteredRuns :
        \/ Meter!Begins(r) \/ Meter!retry_dispatch_node(r) \/ Meter!PersistCommits(r) \/ Meter!PersistCounts(r)
        \/ Meter!builder_failed_node(r) \/ Meter!EndsWithPlan(r) \/ Meter!EndsWithout(r) \/ Meter!Crashes(r)
        \/ Meter!Settles(r) \/ Meter!Cleared(r) \/ Meter!CutShort(r)
  BY DEF Meter!RunMeterNext
<1> QED BY <1>1, RunBeginning, SendingBack, SavingThePlan, CountingThePlan, GivingUp, EndingWithThePlan,
           EndingWithoutOne,
           RunFailing, SettlingTheTrip, Clearing, CuttingShort

LEMMA RunMeterGoesOn == ASSUME MetersInv, MetersPart PROVE MetersInv'
<1>1. Meter!RunMeterNext \/ UNCHANGED meters_watched
  BY DEF MetersPart, Meter!MetersNext, Meter!run_meter, meters_watched
<1> QED BY <1>1, MeterStep, MetersIdle

\* Every run is in progress or is counted once, as what it ended as; "completed" is a plan somebody has and "no_plan" is
\* none; and a plan saved was counted as built, but for a run that was stopped or failed in between.
THEOREM RunsAreCounted == MCSpec => [](part = "meters" => Meter!RunsCountedRight)
<1> DEFINE Inv == part = "meters" => MetersInv
<1>1. MCInit => Inv
  BY MetersStart DEF MCInit
<1>2. ASSUME Inv, [MCNext]_all PROVE Inv'
  <2>1. CASE part # "meters"
    BY <1>2, <2>1 DEF MCNext, all
  <2>2. CASE MetersPart /\ part' = part
    BY <1>2, <2>2, RunMeterGoesOn DEF MetersPart
  <2>3. CASE UNCHANGED <<meters, part>>
    BY <1>2, <2>3, MetersIdle DEF meters, meters_watched
  <2>4. CASE part = "meters" /\ MCNext /\ ~MetersPart
    BY <2>4 DEF MCNext, PagePart, DraftPart, EmbeddingsPart, ChangesPart, LogPart, UsagePart, PreferencesPart,
                HealthPart, TracePart, TalkPart
  <2> QED BY <1>2, <2>1, <2>2, <2>3, <2>4 DEF MCNext, all, around_run, services
<1>3. Inv => (part = "meters" => Meter!RunsCountedRight)
  BY RunsCounted
<1> QED BY <1>1, <1>2, <1>3, PTL DEF MCSpec
=============================================================================
