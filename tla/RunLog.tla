------------------------------- MODULE RunLog -------------------------------
(***************************************************************************)
(* The rows a trip's runs leave in agent_runs, one run after another, and  *)
(* what GET /status (trips.py) makes of them: which searches the run in    *)
(* flight has done, why the last run failed, and the ways out of a budget  *)
(* conflict.  There is no other record: a run's rows are told from those   *)
(* of the run before it by the row that ends a run.                        *)
(*                                                                         *)
(* A row is [agent, run]; `run` is not in the table, it is here to say     *)
(* whose the row is.  How runs overlap is TripRuns', what a run does is    *)
(* PlanningGraph's: here one follows the other.                            *)
(***************************************************************************)
EXTENDS Integers, Sequences

CONSTANT MaxLogged      \* (bound) runs begun

VARIABLES
  log,       \* the trip's rows, in order
  state_of,  \* trips.status, and whether the trip has an itinerary: [status, planned]
  work,      \* the latest run: [n, kind, had, at, why, left, again]
  note_of,   \* the note of the run in flight, as GET /status reads it: its kind, or "none"
  unended    \* (for the property) an earlier run left rows and no row that ends it

log_vars == <<log, state_of, work, note_of, unended>>

SUB_AGENTS == {"flight_agent", "hotel_agent", "activities_agent"}
Logged(agent) == log' = Append(log, [agent |-> agent, run |-> work.n])

LogInit ==
  /\ log = <<>> /\ state_of = [status |-> "pending", planned |-> FALSE]
  /\ work = [n |-> 0, kind |-> "full", had |-> FALSE, at |-> "over", why |-> "none", left |-> {}, again |-> FALSE]
  /\ note_of = "none" /\ unended = FALSE

----------------------------------------------------------------------------
(* What GET /status makes of the rows.                                     *)

ENDS_OF_RUNS == {"orchestrator", "interrupted"}
run_ends == {i \in DOMAIN log : log[i].agent \in ENDS_OF_RUNS}
LastOf(S) == CHOOSE i \in S : \A j \in S : j <= i
last_end == IF run_ends = {} THEN 0 ELSE LastOf(run_ends)
previous_end == LET before == run_ends \ {last_end} IN IF before = {} THEN 0 ELSE LastOf(before)
since_last_end == (last_end + 1)..Len(log)

latest_run == IF since_last_end # {} THEN since_last_end ELSE (previous_end + 1)..Len(log)
Has(rows_, agent) == \E i \in rows_ : log[i].agent = agent
TheRow(rows_, agent) == log[LastOf({i \in rows_ : log[i].agent = agent})]

\* "none", or the row that says why: the conflict's first.
told ==
  LET says(agent) == Has(latest_run, agent)
  IN IF state_of.status # "failed" THEN "none"
     ELSE IF says("escalate") THEN "escalate"
     ELSE IF says("nothing_found") THEN "nothing_found"
     ELSE IF says("interrupted") THEN "interrupted"
     ELSE IF says("builder_failed") THEN "builder_failed" ELSE "none"

\* The rows that count of each search: a full run starts from nothing; one that repeats a search
\* leaves the others as they were.
counted(agent) ==
  LET all_rows == DOMAIN log
  IN CASE state_of.status # "planning" -> all_rows
       [] state_of.status = "planning" /\ note_of \in SUB_AGENTS ->
            IF note_of = agent \/ Has(since_last_end, agent) THEN since_last_end ELSE all_rows
       [] OTHER -> since_last_end
progress == [agent \in SUB_AGENTS |->
               IF Has(counted(agent), agent) THEN TheRow(counted(agent), agent) ELSE [agent |-> agent, run |-> 0]]

----------------------------------------------------------------------------
(* A run, from the request that starts it.                                 *)

\* A repeated search needs a plan.  The note may fail to be written.
BeginRun(kind) ==
  /\ state_of.status # "planning" /\ work.at = "over" /\ work.n < MaxLogged
  /\ kind = "full" \/ state_of.planned
  /\ work' = [n |-> work.n + 1, kind |-> kind, had |-> state_of.status = "completed", at |-> "searching", why |-> "none",
              left |-> IF kind = "full" THEN SUB_AGENTS ELSE {kind}, again |-> FALSE]
  /\ state_of' = [state_of EXCEPT !.status = "planning"]
  /\ note_of' \in {kind, "none"}
  /\ unended' = (unended \/ last_end # Len(log)) /\ UNCHANGED log

\* The flights come before the hotels and the places to see.
LogSearch(agent) ==
  /\ work.at = "searching" /\ agent \in work.left
  /\ agent # "flight_agent" => "flight_agent" \notin work.left
  /\ Logged(agent)
  /\ \/ work' = [work EXCEPT !.left = @ \ {agent}]
     \* a search repeated for a plan that lacked it, and nothing found again
     \/ work.kind # "full" /\ work' = [work EXCEPT !.left = {}, !.at = "logged"]
  /\ UNCHANGED <<state_of, note_of, unended>>

\* retry_dispatch: the evaluator has the flights or the places searched once more.
LogAgain ==
  /\ work.at = "searching" /\ work.left = {} /\ ~work.again
  /\ \E agent \in SUB_AGENTS \ {"hotel_agent"} : Logged(agent)
  /\ work' = [work EXCEPT !.again = TRUE]
  /\ UNCHANGED <<state_of, note_of, unended>>

\* escalate_node, nothing_found_node, builder_failed_node: the status, and then the row.
MarkRun(why) ==
  /\ work.at = "searching"
  /\ why = "escalate" => "flight_agent" \notin work.left /\ work.kind \in {"full", "flight_agent"}
  /\ why = "nothing_found" => work.left = {} /\ work.kind = "full"
  /\ why = "builder_failed" => work.left = {}
  /\ state_of' = [state_of EXCEPT !.status = "failed"]
  /\ work' = [work EXCEPT !.at = "marked", !.why = why]
  /\ UNCHANGED <<log, note_of, unended>>
LogReason ==
  /\ work.at = "marked" /\ Logged(work.why)
  /\ work' = [work EXCEPT !.at = "logged"]
  /\ UNCHANGED <<state_of, note_of, unended>>

DeliverPlan ==
  /\ work.at = "searching" /\ work.left = {}
  /\ state_of' = [status |-> "completed", planned |-> TRUE]
  /\ work' = [work EXCEPT !.at = "saved"]
  /\ UNCHANGED <<log, note_of, unended>>

\* Every run that comes to its own end writes a row last.
LogEnd ==
  /\ work.at \in {"logged", "saved"} /\ Logged("orchestrator")
  /\ work' = [work EXCEPT !.at = IF work.at = "saved" THEN "over" ELSE "settling"]
  /\ note_of' = IF work.at = "saved" THEN "none" ELSE note_of
  /\ UNCHANGED <<state_of, unended>>

\* It raises, or its deadline passes.
RunCrashes ==
  /\ work.at \in {"searching", "marked", "logged", "saved"}
  /\ work' = [work EXCEPT !.at = "crashed"]
  /\ UNCHANGED <<log, state_of, note_of, unended>>

Fallen(status) == state_of' = [state_of EXCEPT !.status = status]

\* _settle: a standing plan comes back, and nothing is written of the run; a crashed run that had no
\* plan behind it says why.
RunSettles ==
  /\ work.at \in {"settling", "crashed"} /\ work' = [work EXCEPT !.at = "over"] /\ note_of' = "none"
  /\ \/ /\ work.had /\ state_of.status \in {"planning", "failed"}
        /\ Fallen("completed") /\ UNCHANGED log
     \/ /\ ~work.had /\ work.at = "crashed" /\ state_of.status = "planning"
        /\ Fallen("failed") /\ Logged("interrupted")
     \/ /\ IF work.had THEN state_of.status = "completed" ELSE work.at = "settling" \/ state_of.status # "planning"
        /\ UNCHANGED <<state_of, log>>
  /\ UNCHANGED unended

\* _give_up: the server is stopping, and has the time to say so.
ServerStops ==
  /\ work.at \in {"searching", "marked", "logged", "saved"}
  /\ work' = [work EXCEPT !.at = "over"] /\ note_of' = "none"
  /\ IF state_of.status = "planning"
     THEN Fallen(IF work.had THEN "completed" ELSE "failed") /\ Logged("interrupted")
     ELSE UNCHANGED <<state_of, log>>
  /\ UNCHANGED unended

\* _mark_interrupted: the process died, and the next one found the trip still planning.
ServerDies ==
  /\ work.at # "over" /\ work' = [work EXCEPT !.at = "over"] /\ note_of' = "none"
  /\ CASE state_of.status # "planning" -> UNCHANGED <<state_of, log>>
       [] state_of.status = "planning" /\ state_of.planned -> Fallen("completed") /\ UNCHANGED log
       [] OTHER -> Fallen("failed") /\ Logged("interrupted")
  /\ UNCHANGED unended

LogNext ==
  \/ \E kind \in SUB_AGENTS \cup {"full"} : BeginRun(kind)
  \/ \E agent \in SUB_AGENTS : LogSearch(agent)
  \/ \E why \in {"escalate", "nothing_found", "builder_failed"} : MarkRun(why)
  \/ LogAgain \/ LogReason \/ DeliverPlan \/ LogEnd \/ RunCrashes \/ RunSettles \/ ServerStops \/ ServerDies

----------------------------------------------------------------------------
LogTypeOK ==
  /\ \A i \in DOMAIN log : log[i].agent \in SUB_AGENTS \cup ENDS_OF_RUNS \cup {"escalate", "nothing_found", "builder_failed"}
                           /\ log[i].run \in 1..work.n
  /\ state_of \in [status : {"pending", "planning", "completed", "failed"}, planned : BOOLEAN]
  /\ work.n \in 0..MaxLogged /\ work.left \subseteq SUB_AGENTS
  /\ note_of \in SUB_AGENTS \cup {"full", "none"}

\* GET /status tells of the latest run: why that one failed, and never why an earlier one did; of the
\* run in flight the searches it has done itself, but for those a repeated search leaves alone.  It
\* does as long as every earlier run left a row that ends it: one that crashed with a plan behind it,
\* or died after it had marked the trip, leaves none, and its rows count as the next run's.
StatusTellsTheLatest ==
  ~unended =>
    /\ state_of.status = "failed" =>
         /\ told # "none" => TheRow(latest_run, told).run = work.n
         /\ work.at \in {"logged", "settling"} => told = work.why
         /\ work.at = "marked" => told = "none"
    /\ state_of.status = "planning" =>
         \A agent \in SUB_AGENTS :
           LET shown == progress[agent].run
           IN CASE note_of \in SUB_AGENTS /\ agent # note_of -> Has(DOMAIN log, agent) => shown # 0
                [] OTHER -> shown \in {0, work.n}
=============================================================================
