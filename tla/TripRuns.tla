------------------------------ MODULE TripRuns ------------------------------
(***************************************************************************)
(* The life of one trip's planning runs: the handlers that start them      *)
(* (src/backend/app/api/routes/trips.py), the background tasks that carry  *)
(* them out, the note in Redis that says a run is alive (src/ai/utils/     *)
(* conversation.py), and the start-up recovery and shutdown of every       *)
(* server instance (src/backend/app/main.py).                              *)
(*                                                                         *)
(* Trips share no row and no Redis key, so one trip is modelled.  A        *)
(* request starts at most one run, so a run is named by its request.  What *)
(* the graph does between "planning" and its outcome is PlanningGraph's.   *)
(*                                                                         *)
(* Every await is a step boundary: the database is read in one step and    *)
(* written in a later one, and another handler, run or instance may act    *)
(* between the two.                                                        *)
(***************************************************************************)
EXTENDS Naturals, FiniteSets

CONSTANTS
  Requests,      \* POSTs to /plan, /clarify, /replan, /refine or /retry
  Instances,     \* processes of the backend
  NoNote,        \* the run note's key is absent
  LongOutage,    \* may a database outage outlast SETTLE_FOR_S and RECOVER_TIMES?
  MaxStops,      \* bound: how many times an instance stops or is killed
  MaxOutages     \* bound: how many times the database or Redis goes away

ASSUME ConstantsAssumption ==
  /\ NoNote \notin Requests
  /\ LongOutage \in BOOLEAN
  /\ MaxStops \in Nat /\ MaxOutages \in Nat

VARIABLES
  status,        \* trips.status
  itineraries,   \* how many rows of itineraries the trip has
  note,          \* the run note in Redis: whose it is, or NoNote
  dbUp, redisUp, \* can the database, can Redis be reached?
  outages,
  inst,          \* each process: up, stopping (SIGTERM received), down
  recovery,      \* each process: which pass of start-up recovery it is in
  looking,       \* ... and how far that pass has come
  stops,
  pc,            \* where each request's handler, and then its run, has come to
  seen,          \* the status the handler read
  host,          \* the instance the request went to
  patient        \* does the traveller wait for an answer, and a run's end, before asking again?

trip == <<status, itineraries, note>>
services == <<dbUp, redisUp, outages>>
fleet == <<inst, recovery, looking, stops>>
given == <<host, patient>>   \* chosen at the start, never changed
runs == <<pc, seen, given>>
vars == <<trip, services, fleet, runs>>

Statuses == {"pending", "planning", "completed", "failed"}

Handling == {"checked", "marked"}
InGraph == {"planning", "saved", "unmade"}
Settling == {"settling", "settleWrite"}
GivingUp == {"givingUp", "giveUpWrite"}
Alive == InGraph \cup Settling \cup GivingUp   \* _keep_noted is renewing the note
Active == Handling \cup Alive \cup {"ending"}  \* a handler or a task of its process
\* The run has marked its trip, or is about to, but is not done.
Tail == {"saved", "unmade", "ending"} \cup Settling \cup GivingUp
PCs == Active \cup {"idle", "refused", "done", "dead"}

TypeOK ==
  /\ status \in Statuses
  /\ itineraries \in Nat
  /\ note \in Requests \cup {NoNote}
  /\ dbUp \in BOOLEAN /\ redisUp \in BOOLEAN
  /\ outages \in 0..MaxOutages
  /\ inst \in [Instances -> {"up", "stopping", "down"}]
  /\ recovery \in [Instances -> {"none", "startup", "later", "watching"}]
  /\ looking \in [Instances -> {"read", "ask", "mark"}]
  /\ stops \in 0..MaxStops
  /\ pc \in [Requests -> PCs]
  /\ seen \in [Requests -> Statuses]
  /\ host \in [Requests -> Instances] /\ patient \in BOOLEAN

\* Mutation: a trip that was planned before, with or without success, counts as having a plan.
HasItineraryOnceFailed(r) == seen[r] \in {"completed", "failed"}
\* has_itinerary: taken from the status as it was read, not from the table of itineraries.
HasItinerary(r) == seen[r] = "completed"
\* Mutation: the run of a trip without a plan is settled with its `fallback`, None.
FallbackOfNone(r) == IF HasItinerary(r) THEN "completed" ELSE "None"
Fallback(r) == IF HasItinerary(r) THEN "completed" ELSE "failed"

At(r, from, to) == pc[r] \in from /\ pc' = [pc EXCEPT ![r] = to]

Init ==
  /\ status = "pending" /\ itineraries = 0 /\ note = NoNote
  /\ dbUp = TRUE /\ redisUp = TRUE /\ outages = 0
  /\ inst \in [Instances -> {"up", "down"}]
  /\ recovery = [i \in Instances |-> "none"]
  /\ looking = [i \in Instances |-> "read"]
  /\ stops = 0
  /\ pc = [r \in Requests |-> "idle"]
  /\ seen = [r \in Requests |-> "pending"]
  /\ host \in [Requests -> Instances] /\ patient \in BOOLEAN

-----------------------------------------------------------------------------
(* The handler of a request                                                *)

\* Nothing else is happening to the trip, but perhaps a run that is still in the graph.
Undisturbed ==
  /\ \A q \in Requests : pc[q] \notin Handling \cup Tail
  /\ \A i \in Instances : recovery[i] = "none"

\* An instance that is starting serves nobody until its first recovery pass is over (lifespan).
Serving(i) == inst[i] = "up" /\ recovery[i] # "startup"

\* Mutation: it is not called.
TurnsNobodyAway == FALSE
\* _ensure_not_planning
TurnsAway == status = "planning"

\* _get_trip_or_404 and _ensure_not_planning.
Receive(r) ==
  /\ pc[r] = "idle" /\ Serving(host[r]) /\ dbUp
  /\ patient => Undisturbed
  /\ seen' = [seen EXCEPT ![r] = status]
  /\ pc' = [pc EXCEPT ![r] = IF TurnsAway THEN "refused" ELSE "checked"]
  /\ UNCHANGED <<trip, services, fleet, given>>

\* A question back, 409, 422, or a database or Redis error: the request ends and no run was started.
TurnBack(r) ==
  /\ At(r, {"checked"}, "refused")
  /\ UNCHANGED <<trip, services, fleet, seen, given>>

\* /refine: its log could not be written, so the trip was rolled back and read again.
Reread(r) ==
  /\ pc[r] = "checked" /\ dbUp
  /\ seen' = [seen EXCEPT ![r] = status]
  /\ UNCHANGED <<trip, services, fleet, pc, given>>

\* _start_run, as far as its commit.
StartRun(r) ==
  /\ dbUp
  /\ At(r, {"checked"}, "marked")
  /\ status' = "planning"
  /\ UNCHANGED <<itineraries, note, services, fleet, seen, given>>

AfterNote == "planning"

\* ... the note, and the task spawned whether or not Redis took it.
NoteRun(r) ==
  /\ At(r, {"marked"}, AfterNote)
  /\ note' = IF redisUp THEN r ELSE note
  /\ UNCHANGED <<status, itineraries, services, fleet, seen, given>>

-----------------------------------------------------------------------------
(* The run: _run_orchestrator, and the graph's two writes of the status    *)

\* _keep_noted
Beat(r) ==
  /\ pc[r] \in Alive /\ redisUp /\ note # r
  /\ note' = r
  /\ UNCHANGED <<status, itineraries, services, fleet, runs>>

\* persist_node: the itinerary and the status in one commit.
Save(r) ==
  /\ dbUp
  /\ At(r, {"planning"}, "saved")
  /\ status' = "completed" /\ itineraries' = itineraries + 1
  /\ UNCHANGED <<note, services, fleet, seen, given>>

\* escalate_node, nothing_found_node, builder_failed_node
GraphFails(r) ==
  /\ dbUp
  /\ At(r, {"planning"}, "unmade")
  /\ status' = "failed"
  /\ UNCHANGED <<itineraries, note, services, fleet, seen, given>>

\* The graph's result: an itinerary_id and the run returns; none and the earlier plan, if any, is settled.
GraphReturns(r) ==
  /\ \/ At(r, {"saved"}, "ending")
     \/ At(r, {"unmade"}, IF HasItinerary(r) THEN "settling" ELSE "ending")
     \/ HasItinerary(r) /\ At(r, {"planning"}, "settling")   \* retry_search found nothing again
  /\ UNCHANGED <<trip, services, fleet, seen, given>>

\* Mutation: the note is cleared as the run crashes, before it is settled.
NoteClearedEarly == IF redisUp THEN NoNote ELSE note
NoteAfterCrash == note

\* Any exception, RUN_DEADLINE_S included, at any point of the graph.
RunCrashes(r) ==
  /\ At(r, InGraph, "settling")
  /\ note' = NoteAfterCrash
  /\ UNCHANGED <<status, itineraries, services, fleet, seen, given>>

\* Mutation: only a trip that still says "planning" is settled.
OnlyIfPlanning(r) == {"planning"}
AsThisRunLeftIt(r) == {"planning"} \cup (IF HasItinerary(r) THEN {"failed"} ELSE {})

\* _settle reads the trip ...
SettleRead(r) ==
  /\ dbUp
  /\ At(r, {"settling"}, IF status \in AsThisRunLeftIt(r) THEN "settleWrite" ELSE "ending")
  /\ UNCHANGED <<trip, services, fleet, seen, given>>

\* ... and writes it.
SettleWrite(r) ==
  /\ dbUp
  /\ At(r, {"settleWrite"}, "ending")
  /\ status' = Fallback(r)
  /\ UNCHANGED <<itineraries, note, services, fleet, seen, given>>

\* Mutation: a database that is away is not waited for.
GivesUpAtOnce == TRUE
GivesUp == LongOutage

\* The database went away in between: it starts over SETTLE_EVERY_S later, for SETTLE_FOR_S in all.
SettleAgain(r) ==
  /\ ~dbUp
  /\ \/ At(r, {"settleWrite"}, "settling")
     \/ GivesUp /\ At(r, {"settling"}, "ending")
  /\ UNCHANGED <<trip, services, fleet, seen, given>>

\* _give_up reads the trip, and writes it if it is still "planning"; an error ends it.
GiveUpRead(r) ==
  /\ At(r, {"givingUp"}, IF dbUp /\ status = "planning" THEN "giveUpWrite" ELSE "ending")
  /\ UNCHANGED <<trip, services, fleet, seen, given>>

GiveUpWrite(r) ==
  /\ At(r, {"giveUpWrite"}, "ending")
  /\ status' = IF dbUp THEN Fallback(r) ELSE status
  /\ UNCHANGED <<itineraries, note, services, fleet, seen, given>>

\* The finally block: the trip's note is cleared, whichever run it is of.
End(r) ==
  /\ At(r, {"ending"}, "done")
  /\ note' = IF redisUp THEN NoNote ELSE note
  /\ UNCHANGED <<status, itineraries, services, fleet, seen, given>>

-----------------------------------------------------------------------------
(* An instance stops, dies and starts                                      *)

TasksOf(i) == {r \in Requests : host[r] = i /\ pc[r] \in Active}

\* SIGTERM: no request is taken any more; recovery's background passes end with the process.
Stop(i) ==
  /\ stops < MaxStops /\ Serving(i)
  /\ inst' = [inst EXCEPT ![i] = "stopping"]
  /\ stops' = stops + 1
  /\ UNCHANGED <<trip, services, recovery, looking, runs>>

\* A handler that outlasts --timeout-graceful-shutdown is cancelled where it is.
CutHandler(r) ==
  /\ inst[host[r]] = "stopping"
  /\ At(r, Handling, "dead")
  /\ UNCHANGED <<trip, services, fleet, seen, given>>

\* finish_runs: the grace period is over and the run is cancelled.
Cancel(r) ==
  /\ inst[host[r]] = "stopping"
  /\ \A q \in TasksOf(host[r]) : pc[q] \notin Handling
  /\ At(r, InGraph, "givingUp") \/ At(r, Settling, "ending")
  /\ UNCHANGED <<trip, services, fleet, seen, given>>

Exit(i) ==
  /\ inst[i] = "stopping" /\ TasksOf(i) = {}
  /\ inst' = [inst EXCEPT ![i] = "down"]
  /\ recovery' = [recovery EXCEPT ![i] = "none"]
  /\ looking' = [looking EXCEPT ![i] = "read"]
  /\ UNCHANGED <<trip, services, stops, runs>>

\* The process is killed, whatever it was doing.
Crash(i) ==
  /\ stops < MaxStops /\ inst[i] # "down"
  /\ inst' = [inst EXCEPT ![i] = "down"]
  /\ recovery' = [recovery EXCEPT ![i] = "none"]
  /\ looking' = [looking EXCEPT ![i] = "read"]
  /\ stops' = stops + 1
  /\ pc' = [r \in Requests |-> IF r \in TasksOf(i) THEN "dead" ELSE pc[r]]
  /\ UNCHANGED <<trip, services, seen, given>>

\* lifespan, as far as _recover_after_restart
Start(i) ==
  /\ inst[i] = "down"
  /\ inst' = [inst EXCEPT ![i] = "up"]
  /\ recovery' = [recovery EXCEPT ![i] = "startup"]
  /\ UNCHANGED <<trip, services, looking, stops, runs>>

-----------------------------------------------------------------------------
(* Start-up recovery: _recover_after_restart (startup), _recover_later     *)
(* (later) and _look_again (watching) read the trips that are "planning",  *)
(* ask Redis for their notes, and mark those that have none.               *)

Recovers(i, pass, step) ==
  /\ recovery' = [recovery EXCEPT ![i] = pass]
  /\ looking' = [looking EXCEPT ![i] = step]
  /\ UNCHANGED <<itineraries, note, services, inst, stops, runs>>

\* The pass comes to nothing for want of the database: tried again later, or RECOVER_TIMES are over.
Deferred(i) ==
  /\ \/ recovery[i] = "watching" /\ Recovers(i, "watching", "read")
     \/ recovery[i] # "watching" /\ Recovers(i, "later", "read")
     \/ LongOutage /\ Recovers(i, "none", "read")
  /\ UNCHANGED status

LookAtTrips(i) ==
  /\ recovery[i] # "none" /\ looking[i] = "read"
  /\ \/ /\ dbUp /\ UNCHANGED status
        /\ IF status = "planning" THEN Recovers(i, recovery[i], "ask") ELSE Recovers(i, "none", "read")
     \/ ~dbUp /\ Deferred(i)

\* Mutation: a trip whose run has a note is left alone, and not looked at again.
WhenNotedForget == "none"
WhenNoted == "watching"

\* _being_planned_elsewhere: a Redis that cannot be asked knows of no run.
AskForNotes(i) ==
  /\ recovery[i] # "none" /\ looking[i] = "ask"
  /\ IF redisUp /\ note # NoNote THEN Recovers(i, WhenNoted, "read") ELSE Recovers(i, recovery[i], "mark")
  /\ UNCHANGED status

\* _mark_interrupted: two conditional UPDATEs in one transaction.
MarkInterrupted(i) ==
  /\ recovery[i] # "none" /\ looking[i] = "mark"
  /\ \/ /\ dbUp /\ Recovers(i, "none", "read")
        /\ status' = IF status # "planning" THEN status
                     ELSE IF itineraries > 0 THEN "completed" ELSE "failed"
     \/ ~dbUp /\ Deferred(i)

-----------------------------------------------------------------------------
(* Redis and the database                                                  *)

\* RUN_TTL_S without a renewal: three beats missed, so no run of a reachable process is alive.
NoteExpires ==
  /\ note # NoNote
  /\ ~redisUp \/ \A r \in Requests : pc[r] \notin Alive
  /\ note' = NoNote
  /\ UNCHANGED <<status, itineraries, services, fleet, runs>>

ServiceGoes ==
  /\ outages < MaxOutages /\ outages' = outages + 1
  /\ \/ dbUp /\ dbUp' = FALSE /\ UNCHANGED redisUp
     \/ redisUp /\ redisUp' = FALSE /\ UNCHANGED dbUp
  /\ UNCHANGED <<trip, fleet, runs>>

DatabaseReturns ==
  /\ ~dbUp /\ dbUp' = TRUE
  /\ UNCHANGED <<trip, redisUp, outages, fleet, runs>>

\* It may have lost what it held.
RedisReturns ==
  /\ ~redisUp /\ redisUp' = TRUE
  /\ note' \in {note, NoNote}
  /\ UNCHANGED <<status, itineraries, dbUp, outages, fleet, runs>>

-----------------------------------------------------------------------------
HandlerStep(r) == TurnBack(r) \/ StartRun(r) \/ NoteRun(r)
GraphStep(r) == Save(r) \/ GraphFails(r) \/ GraphReturns(r) \/ RunCrashes(r)
EndStep(r) ==
  SettleRead(r) \/ SettleWrite(r) \/ SettleAgain(r) \/ GiveUpRead(r) \/ GiveUpWrite(r) \/ End(r)
RecoveryStep(i) == LookAtTrips(i) \/ AskForNotes(i) \/ MarkInterrupted(i)

Next ==
  \/ \E r \in Requests : Receive(r) \/ Reread(r) \/ HandlerStep(r) \/ Beat(r) \/ GraphStep(r)
                         \/ EndStep(r) \/ CutHandler(r) \/ Cancel(r)
  \/ \E i \in Instances : Stop(i) \/ Exit(i) \/ Crash(i) \/ Start(i) \/ RecoveryStep(i)
  \/ NoteExpires \/ ServiceGoes \/ DatabaseReturns \/ RedisReturns

\* Every task of a live process goes on (RUN_DEADLINE_S, the grace period, the note's TTL and the
\* retry timers all run out), and an outage ends.  Travellers, stops and kills are under no obligation.
TasksGoOn ==
  /\ \A r \in Requests :
       /\ WF_vars(HandlerStep(r)) /\ WF_vars(GraphStep(r)) /\ WF_vars(EndStep(r))
       /\ WF_vars(Beat(r)) /\ WF_vars(Cancel(r))
  /\ \A i \in Instances : WF_vars(RecoveryStep(i)) /\ WF_vars(Exit(i))
  /\ WF_vars(NoteExpires) /\ WF_vars(DatabaseReturns) /\ WF_vars(RedisReturns)

\* A process that is gone is replaced.
Replaced == \A i \in Instances : WF_vars(Start(i))

SafetySpec == Init /\ [][Next]_vars
Spec == SafetySpec /\ TasksGoOn /\ Replaced
\* The last of a deploy: what was stopped or killed never comes back.
SpecWithoutReplacement == SafetySpec /\ TasksGoOn

-----------------------------------------------------------------------------
(* What holds whoever overlaps                                             *)

\* A trip is only ever shown as "completed" when it has an itinerary to show, although a run takes
\* "it had one" from the status it read and the recovery from the table.
PlanBehindCompleted == status = "completed" => itineraries > 0
PlanBehindSeen == \A r \in Requests : HasItinerary(r) => itineraries > 0

Responsible(r) == pc[r] \in {"marked", "planning"} \cup Settling \cup GivingUp

\* A trip that says "planning" has somebody who will take it out of that: a run that has not had
\* its say, or the process such a run was in - stopped, to recover as it starts, or recovering now.
Answered(r) ==
  \/ Responsible(r)
  \/ pc[r] # "idle" /\ (inst[host[r]] # "up" \/ recovery[host[r]] # "none")
NeverAbandoned == status = "planning" => \E r \in Requests : Answered(r)

\* A run is given up only by a process that is stopping, and that waits for it.
GivenUpByStopping == \A r \in Requests : pc[r] \in GivingUp => inst[host[r]] = "stopping"

\* trips.py, _run_orchestrator: "Whatever happens, the trip never stays stuck in 'planning'".
PlanningEnds == status = "planning" ~> status # "planning"

-----------------------------------------------------------------------------
(* What holds for a traveller who waits for one run to end before asking   *)
(* for the next                                                            *)

\* trips.py: "Only one run per trip at a time; planning, replanning or refining while one is in
\* flight returns 409".
OneRunAtATime == \A r, q \in Requests : pc[r] \in Alive /\ pc[q] \in Alive => r = q
OneRunForThePatient == patient => OneRunAtATime

\* conversation.py: "A note that is gone while the trip still says 'planning' is a run that died":
\* only Redis itself loses the note of a run that is alive.
NoteOutlivesItsRun ==
  [][patient /\ note # NoNote /\ note' = NoNote /\ redisUp
       => \A r \in Requests : pc'[r] \notin Alive]_vars

\* A refinement whose graph has said "failed" while its earlier plan stands is not over yet.
BeingPutRight ==
  status = "failed" /\ \E r \in Requests : HasItinerary(r) /\ pc[r] \in {"unmade"} \cup Settling
Shown == IF BeingPutRight THEN "planning" ELSE status
Standing ==
  /\ Shown = "planning"
  /\ \E r \in Requests : HasItinerary(r) /\ (Responsible(r) \/ pc[r] = "unmade")

\* The impatient traveller is shown to the abstract specification as one who never asks.
Lifecycle == INSTANCE TripLifecycle WITH
  shown <- IF patient THEN Shown ELSE "pending",
  plans <- IF patient THEN itineraries ELSE 0,
  standing <- patient /\ Standing,
  interrupted <- patient /\ stops > 0

\* The runs of one server, with outages and restarts, keep the promise of TripLifecycle.
KeepsThePromise == Lifecycle!Spec

-----------------------------------------------------------------------------
(* What the code says of itself, and does not always keep                  *)

\* _settle: "a write that comes late cannot undo what the traveller has started since" - here, a run
\* begun on the trip that the graph had already marked failed.
Undoes(r) ==
  /\ pc[r] = "settleWrite" /\ pc'[r] = "ending" /\ status = "planning" /\ status' # "planning"
  /\ \E q \in Requests : q # r /\ seen[q] = "failed" /\ pc[q] \in {"marked", "planning"}
LateWriteHarmless == [][\A r \in Requests : ~Undoes(r)]_vars

\* _run_orchestrator: a trip that already has an itinerary falls back to "completed", because the
\* previous itinerary still stands; and the same holds when the run is cut short.
StandingPlanKept ==
  (status = "failed" /\ \A r \in Requests : pc[r] \notin Active)
    => \A r \in Requests : pc[r] \in {"done", "dead"} => ~HasItinerary(r)

\* main.py, _recover_after_restart: the old instance is still making plans, and "this startup must
\* not fail them under it".
RecoverySparesTheLiving ==
  [][\A i \in Instances :
       looking[i] = "mark" /\ looking'[i] = "read" /\ status = "planning" /\ status' # "planning"
         => \A r \in Requests : pc[r] \notin {"marked", "planning"}]_vars
=============================================================================
