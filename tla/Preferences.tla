----------------------------- MODULE Preferences -----------------------------
(***************************************************************************)
(* A traveller's saved preferences: the form that replaces them (PUT       *)
(* /users/preferences), what a finished run learns and adds to them        *)
(* (PreferenceExtractor, merge_extracted), and what a run takes from them  *)
(* (build_preference_updates).  All of them read the one row and write it  *)
(* back later, each in a session of its own, with nothing held meanwhile.  *)
(*                                                                         *)
(* Of the two lists and the scalar fields, which are treated alike, one    *)
(* each is modelled: the dietary list and the home city.                   *)
(***************************************************************************)
EXTENDS Integers, FiniteSets

CONSTANTS
  Writers,       \* requests and runs that write the row
  Diets, Homes,  \* what may be in the list; what the city may be
  ListLimit,     \* MAX_LIST_ITEMS
  StyleInterests \* what a style adds to a trip that names no interest

Unset == "unset"
Absent == [exists |-> FALSE, diet |-> {}, home |-> Unset]
Saved(diet, home) == [exists |-> TRUE, diet |-> diet, home |-> home]
Lists == {diet \in SUBSET Diets : Cardinality(diet) <= ListLimit}

VARIABLES
  prefs,      \* the row
  writer,     \* each writer: [kind, at, read, body], body what it would save or has learnt
  overtaken,  \* (for the properties) writers that somebody has written between their read and their write
  asks        \* a trip's run: [origin, interests], as asked and as the preferences left it, and how often

pref_vars == <<prefs, writer, overtaken, asks>>

Unread == [kind |-> "none", at |-> "idle", read |-> Absent, body |-> Absent]
NoAsk == [origin |-> Unset, interests |-> {}, first |-> {}, from |-> Unset, passes |-> 0]

PrefInit ==
  /\ prefs \in {Absent} \cup {Saved(diet, home) : diet \in Lists, home \in Homes \cup {Unset}}
  /\ overtaken = {} /\ asks = NoAsk
  /\ writer = [w \in Writers |-> Unread]

----------------------------------------------------------------------------
(* merge_unique: what there is stays; what is new joins it, in whatever    *)
(* order it was learnt, until the list is full.                            *)
merge_unique(existing, new) ==
  {existing \cup joined : joined \in
     {some \in SUBSET (new \ existing) :
        LET room == ListLimit - Cardinality(existing)
        IN Cardinality(some) = IF Cardinality(new \ existing) <= room THEN Cardinality(new \ existing)
                               ELSE IF room < 0 THEN 0 ELSE room}}

\* merge_extracted: a scalar is filled only where there is none.
merge_extracted(existing, learnt) ==
  {[diet |-> diet, home |-> IF existing.home = Unset THEN learnt.home ELSE existing.home] :
     diet \in merge_unique(existing.diet, learnt.diet)}

----------------------------------------------------------------------------
(* Writing.  A session sends only the columns that are not as it read      *)
(* them; a first row is inserted whole, and fails if there is one by then. *)

ReadRow(w, kind, body) ==
  /\ writer[w].at = "idle"
  /\ writer' = [writer EXCEPT ![w] = [kind |-> kind, at |-> "read", read |-> prefs, body |-> body]]
  /\ UNCHANGED <<prefs, overtaken, asks>>

Flushed(w, diet, home) ==
  LET read == writer[w].read
  IN IF ~read.exists THEN Saved(diet, home)
     ELSE Saved(IF diet = read.diet THEN prefs.diet ELSE diet, IF home = read.home THEN prefs.home ELSE home)

Refused(w) == ~writer[w].read.exists /\ prefs.exists

WriteRow(w) ==
  LET read == writer[w].read
      body == writer[w].body
      results == IF writer[w].kind = "form" THEN {[diet |-> body.diet, home |-> body.home]}
                 ELSE merge_extracted(read, body)
  IN /\ writer[w].at = "read"
     /\ \E result \in results :
          LET nothing == writer[w].kind = "run" /\ result.diet = read.diet /\ result.home = read.home
          IN /\ prefs' = IF nothing \/ Refused(w) THEN prefs ELSE Flushed(w, result.diet, result.home)
             /\ writer' = [writer EXCEPT ![w] = [Unread EXCEPT !.at = IF ~nothing /\ Refused(w) THEN "failed" ELSE "done"]]
             /\ overtaken' = IF prefs' = prefs THEN overtaken
                             ELSE overtaken \cup {v \in Writers \ {w} : writer[v].at = "read"}
  /\ UNCHANGED asks

----------------------------------------------------------------------------
(* build_preference_updates, once in every pass of a run, on what the pass *)
(* before it left.                                                         *)
build_preference_updates(ask, saved) ==
  [ask EXCEPT !.origin = IF @ = Unset THEN saved.home ELSE @,
              !.interests = @ \cup (IF @ = {} THEN StyleInterests ELSE {}) \cup saved.diet]

AskTrip(origin, interests) ==
  /\ asks = NoAsk
  /\ asks' = [origin |-> origin, interests |-> interests, first |-> interests, from |-> origin, passes |-> 1]
  /\ UNCHANGED <<prefs, writer, overtaken>>
ApplyPreferences ==
  /\ asks.passes \in 1..2 /\ prefs.exists
  /\ asks' = [build_preference_updates(asks, prefs) EXCEPT !.passes = @ + 1]
  /\ UNCHANGED <<prefs, writer, overtaken>>

PrefNext ==
  \/ \E w \in Writers :
       \/ \E diet \in Lists, home \in Homes \cup {Unset} :
            ReadRow(w, "form", Saved(diet, home)) \/ ReadRow(w, "run", Saved(diet, home))
       \/ WriteRow(w)
  \/ \E origin \in Homes \cup {Unset}, interests \in {{}, {"beach"}} : AskTrip(origin, interests)
  \/ ApplyPreferences

----------------------------------------------------------------------------
PrefTypeOK ==
  /\ prefs.diet \in Lists /\ prefs.home \in Homes \cup {Unset} /\ (~prefs.exists => prefs = Absent)
  /\ \A w \in Writers : writer[w].at \in {"idle", "read", "done", "failed"} /\ writer[w].kind \in {"none", "form", "run"}
  /\ overtaken \subseteq Writers

\* Preferences are applied without taking anything a trip asked for, and the style speaks only for a
\* trip that asked for nothing.
AskedComesFirst ==
  asks.passes > 0 =>
    /\ asks.first \subseteq asks.interests
    /\ asks.from # Unset => asks.origin = asks.from
    /\ asks.first # {} => asks.interests \cap (StyleInterests \ Diets) \subseteq asks.first

\* What a run learns never takes from what was saved, and a form replaces it whole: unless somebody
\* wrote the row between a writer's read and its write.
Writes(w) == writer[w].at = "read" /\ writer'[w].at = "done"
PreferencesKept ==
  [][\A w \in Writers \ overtaken : Writes(w) =>
       CASE writer[w].kind = "run" -> prefs.diet \subseteq prefs'.diet /\ (prefs.home # Unset => prefs'.home = prefs.home)
         [] OTHER -> prefs' = writer[w].body]_pref_vars
=============================================================================
