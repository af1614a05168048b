------------------------------ MODULE Changes ------------------------------
(***************************************************************************)
(* Planning a trip and changing the plan, turn by turn: POST /plan,        *)
(* /clarify, /replan, /refine and /retry (trips.py), the full and the      *)
(* targeted pass of OrchestratorAgent (run, refine, retry_search), and     *)
(* what is carried from one to the next: the trip's row, the itineraries,  *)
(* and the planning state in Redis, which is saved after the plan is, may  *)
(* fail to be saved, and may be lost.                                      *)
(*                                                                         *)
(* What a search finds is [place, turn, n], n telling the finds of one     *)
(* search apart, and for a flight its fare.  A plan takes the cheapest     *)
(* flight there is, one of the hotels and some of the places to see.       *)
(***************************************************************************)
EXTENDS Integers, FiniteSets

CONSTANTS
  Places,
  MaxTurns,      \* (bound) runs started
  Fares          \* (bound) what a flight may cost

\* A flight costs something: a plan whose fare is 0 has no flight.
ASSUME FaresAreMoney == Fares \subseteq Nat \ {0}

VARIABLES
  row,       \* the trip: [status, place, days]
  plan,      \* its latest itinerary: [place, days, fare, hotel, stops]; turn 0 for none
  kept,      \* the planning state in Redis
  saving,    \* the state a run that has saved its plan has still to save
  job,       \* the run in flight: [turn, kind, retry, state, again]
  turns,
  offered,   \* the last budget check ended in ways out
  strayed    \* (for a property) a run has left its own place or dates on the trip, and made no plan of it

changes_vars == <<row, plan, kept, saving, job, turns, offered, strayed>>

None == [place |-> "none", turn |-> 0, n |-> 0]
NoPlan == [turn |-> 0, place |-> "none", days |-> 0, fare |-> 0, hotel |-> None, stops |-> {}]
Nowhere == [place |-> "none", days |-> 0, flights |-> {}, hotels |-> {}, attractions |-> {}, plan |-> NoPlan]
Idle == [turn |-> 0, kind |-> "none", retry |-> FALSE, state |-> Nowhere]

FIRST == CHOOSE place \in Places : TRUE

ChangesInit ==
  /\ row = [status |-> "pending", place |-> FIRST, days |-> 2]
  /\ plan = NoPlan /\ kept = Nowhere /\ saving = Nowhere /\ job = Idle /\ turns = 0
  /\ offered = FALSE /\ strayed = FALSE

----------------------------------------------------------------------------
(* Asking.  Any request is refused while the trip is being planned.        *)

\* _start_run
Start(kind, retry, state) ==
  /\ row.status # "planning" /\ job = Idle /\ turns < MaxTurns
  /\ turns' = turns + 1
  /\ job' = [turn |-> turns + 1, kind |-> kind, retry |-> retry, state |-> state]
  /\ UNCHANGED <<plan, kept, saving>>
MarkPlanning == row' = [row EXCEPT !.status = "planning"] /\ UNCHANGED <<offered, strayed>>

Fields(place, days) == [Nowhere EXCEPT !.place = place, !.days = days]
TripState == Fields(row.place, row.days)

AskPlan == Start("plan", FALSE, TripState) /\ MarkPlanning

\* The fields an earlier turn resolved come before the trip's own.
AskClarify ==
  /\ kept # Nowhere
  /\ Start("plan", FALSE, Fields(kept.place, kept.days)) /\ MarkPlanning

\* The way out that was picked is saved on the trip: here, a shorter one.
AskReplan ==
  /\ offered /\ row.days > 1
  /\ Start("plan", FALSE, Fields(row.place, row.days - 1))
  /\ row' = [row EXCEPT !.status = "planning", !.days = @ - 1]
  /\ strayed' = TRUE /\ UNCHANGED offered

\* _keep_what_the_plan_uses: only what the plan uses, unless it uses none of it.
\* Mutation: the builder is given the full lists.
KeepAll(list, used) == list
Narrowed(list, used) == IF list \cap used # {} THEN list \cap used ELSE list
Prior(kind) ==
  [kept EXCEPT !.hotels = IF kind = "targeted_hotel" THEN @ ELSE Narrowed(@, {kept.plan.hotel}),
               !.attractions = Narrowed(@, kept.plan.stops)]

TARGETED == {"targeted_flights", "targeted_hotel", "targeted_activities"}

\* A change needs a plan; one search can be repeated only on what the searches before it found, and
\* without that every change is a full re-plan, from the trip's row.
AskRefine ==
  /\ plan.turn # 0 \/ kept # Nowhere
  /\ LET known == IF kept = Nowhere THEN TripState ELSE Fields(kept.place, kept.days)
     IN \/ \E place \in Places : Start("full_replan", FALSE, [known EXCEPT !.place = place])
        \/ Start("add_day", FALSE, [known EXCEPT !.days = @ + 1])
        \/ /\ kept # Nowhere
           /\ \E kind \in TARGETED : Start(kind, FALSE, Prior(kind))
  /\ MarkPlanning

AskRetry ==
  /\ row.status = "completed" /\ kept # Nowhere
  /\ \E kind \in TARGETED : Start(kind, TRUE, Prior(kind))
  /\ MarkPlanning

----------------------------------------------------------------------------
(* The run.                                                                *)

Find(n) == [place |-> job.state.place, turn |-> job.turn, n |-> n]
FlightsFound == {{}} \cup {{Find(fare)} : fare \in Fares}
HotelsFound == {{}, {Find(1)}}
PlacesFound == {{}, {Find(1), Find(2)}}

\* A full pass: three searches, from nothing.
Holding(state, f, h, a) == [state EXCEPT !.flights = f, !.hotels = h, !.attractions = a]
FullSearch(state) ==
  {Holding(state, f, h, a) : f \in FlightsFound, h \in HotelsFound, a \in PlacesFound} \ {Holding(state, {}, {}, {})}

\* A targeted pass: one search; what it finds joins the flights or the places there are, and takes
\* the place of the hotels; a search that finds nothing leaves what there was, and ends a retry.
Joined(known, fresh) == known \cup fresh
OneSearch(state) ==
  LET found ==
        CASE job.kind = "targeted_flights" ->
               {[state EXCEPT !.flights = Joined(@, f)] : f \in FlightsFound \ {{}}}
          [] job.kind = "targeted_hotel" -> {[state EXCEPT !.hotels = h] : h \in HotelsFound \ {{}}}
          [] OTHER -> {[state EXCEPT !.attractions = @ \cup a] : a \in PlacesFound \ {{}}}
  IN IF job.retry THEN found ELSE found \cup {state}

Searched == IF job.kind \in TARGETED THEN OneSearch(job.state) ELSE FullSearch(job.state)

\* The evaluator sends a plan back: the flights or the places are searched again, and what is found
\* takes the place of what there was.
SentBack(state) ==
  {[state EXCEPT !.flights = f] : f \in FlightsFound \ {{}}}
    \cup {[state EXCEPT !.attractions = a] : a \in PlacesFound \ {{}}}

Cheapest(flights) ==
  IF flights = {} THEN 0 ELSE CHOOSE fare \in Fares : /\ \E f \in flights : f.n = fare
                                                      /\ \A f \in flights : fare <= f.n
Builds(state) ==
  {[turn |-> job.turn, place |-> state.place, days |-> state.days, fare |-> Cheapest(state.flights),
    hotel |-> hotel, stops |-> stops] :
     hotel \in IF state.hotels = {} THEN {None} ELSE state.hotels, stops \in SUBSET state.attractions}

\* Mutation: the trip's own fields are left as they were.
NotSynced(state) == [row EXCEPT !.status = "completed"]
SyncTrip(state) == [status |-> "completed", place |-> state.place, days |-> state.days]

\* persist_node, with _sync_trip: the plan and the trip in one commit; the state is saved after it.
Deliver(again) ==
  /\ job # Idle /\ saving = Nowhere
  /\ \E first \in Searched :
       \E state \in IF again THEN SentBack(first) ELSE {first} :
         \E built \in Builds(state) :
           /\ plan' = built /\ saving' = [state EXCEPT !.plan = built]
           /\ row' = SyncTrip(state)
  /\ job' = Idle /\ offered' = FALSE /\ strayed' = FALSE
  /\ UNCHANGED <<kept, turns>>

\* The end of a run without a plan: the graph's failing nodes keep on the trip what the run was for
\* (_set_trip_status, _sync_trip), a crash or a retry that finds nothing does not; an earlier plan
\* stands.
Fail ==
  /\ job # Idle /\ job' = Idle
  /\ \E synced, conflict \in BOOLEAN :
       LET status == IF plan.turn # 0 THEN "completed" ELSE "failed"
       IN /\ conflict => synced
          /\ row' = IF synced THEN [status |-> status, place |-> job.state.place, days |-> job.state.days]
                    ELSE [row EXCEPT !.status = status]
          /\ offered' = conflict /\ strayed' = (strayed \/ synced)
  /\ UNCHANGED <<plan, kept, saving, turns>>

\* save_state, from merge_node; or Redis is away, or the process is killed.
SaveState ==
  /\ saving # Nowhere /\ saving' = Nowhere
  /\ kept' \in {saving, kept}
  /\ UNCHANGED <<row, plan, job, turns, offered, strayed>>

\* The day is over, or Redis comes back empty.
StateExpires ==
  /\ kept # Nowhere /\ kept' = Nowhere
  /\ UNCHANGED <<row, plan, saving, job, turns, offered, strayed>>

ChangesNext ==
  \/ AskPlan \/ AskClarify \/ AskReplan \/ AskRefine \/ AskRetry
  \/ Deliver(FALSE) \/ Deliver(TRUE) \/ Fail \/ SaveState \/ StateExpires

----------------------------------------------------------------------------
Finds == [place : Places, turn : 1..MaxTurns, n : 1..2]
ChangesTypeOK ==
  /\ row.place \in Places /\ row.status \in {"pending", "planning", "completed", "failed"}
  /\ plan.hotel \in Finds \cup {None} /\ plan.stops \subseteq Finds
  /\ \A state \in {kept, saving, job.state} : state.flights \cup state.hotels \cup state.attractions \subseteq Finds
  /\ turns \in 0..MaxTurns

\* A plan is of one place, and the trip's row says which and for how long: but for the change that
\* is being made, or one that failed and left its own place or dates on the row.
PlanIsOfItsTrip ==
  plan.turn # 0 =>
    /\ \A find \in plan.stops \cup ({plan.hotel} \ {None}) : find.place = plan.place
    /\ row.status = "completed" /\ ~strayed => row.place = plan.place /\ row.days = plan.days

\* A change of one thing keeps the rest: the hotel, the stops, the fare, which never rises.  It does
\* as long as what is in Redis is the state of the plan the traveller sees, and the evaluator does
\* not have places or flights searched again.
OnTheLatest == job.kind \in TARGETED /\ job.state.plan = plan
KeepsTheRest ==
  [][(OnTheLatest /\ plan' # plan) =>
       /\ job.kind # "targeted_hotel" /\ plan.hotel # None => plan'.hotel = plan.hotel
       /\ \/ ~(job.kind # "targeted_activities" /\ plan.stops # {}) \/ plan'.stops \subseteq plan.stops
          \/ \A find \in saving'.attractions : find.turn = job.turn
       /\ \/ plan.fare # 0 => plan'.fare \in 1..plan.fare
          \/ \A find \in saving'.flights : find.turn = job.turn
       /\ plan'.place = plan.place /\ plan'.days = plan.days]_changes_vars
=============================================================================
