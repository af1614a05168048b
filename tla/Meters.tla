------------------------------- MODULE Meters -------------------------------
(***************************************************************************)
(* What the metrics count (src/telemetry/metrics.py): how this process's   *)
(* planning runs ended and what became of what they built, and how often   *)
(* the tool server's cache had what it was asked for - lookups made in     *)
(* another process, told beside each answer (mcp_server/server.py), summed *)
(* over the last five minutes.  The two meters share nothing: a behaviour  *)
(* is of one of them.                                                      *)
(***************************************************************************)
EXTENDS Integers, Sequences, FiniteSets, SequencesExt, FiniteSetsExt

CONSTANTS
  MeteredRuns, MAX_SENT_BACK,
  ToolCalls, CACHE_WINDOW,     \* the window, in ticks of the clock
  MaxLookups, MaxTicks         \* bounds: lookups of a call, ticks

VARIABLES
  meter,        \* "runs" or "lookups"
  doing,        \* each run: [step, outcome, sent_back, plan]; plan: there is an itinerary of it
  IN_PROGRESS, SECONDS, BUILDS,    \* the gauge, and the counters by outcome and by status
  clock, called,                   \* the time; each tool call: [step, tally]
  reports,      \* sent and not here yet
  seen,         \* the window's entries, oldest first: <<when, hits, lookups>>
  LOOKUPS,      \* the counter, by result
  looked_up,    \* (for the properties) lookups made, by how each ended
  dropped       \* (for the properties) a call or a report was lost

run_meter == <<doing, IN_PROGRESS, SECONDS, BUILDS>>
cache_meter == <<clock, called, reports, seen, LOOKUPS, looked_up, dropped>>
meter_vars == <<meter, run_meter, cache_meter>>

RUN_OUTCOMES == {"completed", "no_plan", "crashed", "interrupted"}
BUILD_STATUSES == {"success", "failure", "retry"}
CACHE_RESULTS == {"hit", "miss", "error"}
None(labels) == [label \in labels |-> 0]
inc(counts, label) == [counts EXCEPT ![label] = @ + 1]
NotBegun == [step |-> "off", outcome |-> "completed", sent_back |-> 0, plan |-> FALSE]
NotCalled == [step |-> "off", tally |-> None(CACHE_RESULTS)]

MetersInit ==
  /\ meter \in {"runs", "lookups"}
  /\ doing = [r \in MeteredRuns |-> NotBegun] /\ IN_PROGRESS = 0 /\ SECONDS = None(RUN_OUTCOMES) /\ BUILDS = None(BUILD_STATUSES)
  /\ clock = 0 /\ called = [c \in ToolCalls |-> NotCalled] /\ reports = {} /\ seen = <<>>
  /\ LOOKUPS = None(CACHE_RESULTS) /\ looked_up = None(CACHE_RESULTS \cup {"unreadable"}) /\ dropped = FALSE

----------------------------------------------------------------------------
(* A planning run being timed, inside metrics.planning_run.                *)

Goes(r, step) == doing' = [doing EXCEPT ![r].step = step]
EndsAs(r, step, outcome) == doing' = [doing EXCEPT ![r].step = step, ![r].outcome = outcome]
Uncounted == UNCHANGED <<IN_PROGRESS, SECONDS, BUILDS>>

Begins(r) ==
  /\ doing[r].step = "off" /\ Goes(r, "planning") /\ IN_PROGRESS' = IN_PROGRESS + 1 /\ UNCHANGED <<SECONDS, BUILDS>>
retry_dispatch_node(r) ==
  /\ doing[r].step = "planning" /\ doing[r].sent_back < MAX_SENT_BACK
  /\ doing' = [doing EXCEPT ![r].sent_back = @ + 1] /\ BUILDS' = inc(BUILDS, "retry") /\ UNCHANGED <<IN_PROGRESS, SECONDS>>
\* Saved in one commit; counted when the row has been read back.
PersistCommits(r) ==
  /\ doing[r].step = "planning" /\ doing' = [doing EXCEPT ![r].step = "saved", ![r].plan = TRUE] /\ Uncounted
PersistCounts(r) ==
  /\ doing[r].step = "saved" /\ Goes(r, "built") /\ BUILDS' = inc(BUILDS, "success") /\ UNCHANGED <<IN_PROGRESS, SECONDS>>
builder_failed_node(r) ==
  /\ doing[r].step = "planning" /\ Goes(r, "gave_up") /\ BUILDS' = inc(BUILDS, "failure") /\ UNCHANGED <<IN_PROGRESS, SECONDS>>
\* The graph is through: with a plan; or without - a question, nothing found, a budget's conflict, given up -
\* and then the trip is settled first where an earlier plan stands.
EndsWithPlan(r) == doing[r].step = "built" /\ Goes(r, "clearing") /\ Uncounted
EndsWithout(r) ==
  /\ doing[r].step \in {"planning", "gave_up"} /\ \E next \in {"settling", "clearing"} : EndsAs(r, next, "no_plan")
  /\ Uncounted
\* An error, or the run's deadline, wherever it is.
Crashes(r) ==
  /\ doing[r].step \in {"planning", "saved", "built", "gave_up"} /\ EndsAs(r, "settling", "crashed") /\ Uncounted
Settles(r) == doing[r].step = "settling" /\ Goes(r, "clearing") /\ Uncounted
Measured(r, outcome) ==
  /\ EndsAs(r, "done", outcome) /\ IN_PROGRESS' = IN_PROGRESS - 1 /\ SECONDS' = inc(SECONDS, outcome) /\ UNCHANGED BUILDS
Cleared(r) == doing[r].step = "clearing" /\ Measured(r, doing[r].outcome)
\* The server stops: cancelled wherever it waits, whatever the block had said.
CutShort(r) == doing[r].step \notin {"off", "done"} /\ Measured(r, "interrupted")

RunMeterNext ==
  \E r \in MeteredRuns :
    \/ Begins(r) \/ retry_dispatch_node(r) \/ PersistCommits(r) \/ PersistCounts(r) \/ builder_failed_node(r)
    \/ EndsWithPlan(r) \/ EndsWithout(r) \/ Crashes(r) \/ Settles(r) \/ Cleared(r) \/ CutShort(r)

----------------------------------------------------------------------------
(* The cache's lookups.                                                    *)

CallBegins(c) ==
  /\ called[c].step = "off" /\ called' = [called EXCEPT ![c].step = "running"]
  /\ UNCHANGED <<clock, reports, seen, LOOKUPS, looked_up, dropped>>
Tallied(tally, results) == [result \in CACHE_RESULTS |-> IF result \in results THEN tally[result] + 1 ELSE tally[result]]
\* An entry that is there and cannot be read is a hit, and then an error.
get_cached_sync(c) ==
  /\ called[c].step = "running"
  /\ MapThenSumSet(LAMBDA result : called[c].tally[result], CACHE_RESULTS) < MaxLookups
  /\ \E ended \in DOMAIN looked_up :
       /\ looked_up' = inc(looked_up, ended)
       /\ called' = [called EXCEPT ![c].tally = Tallied(@, IF ended = "unreadable" THEN {"hit", "error"} ELSE {ended})]
  /\ UNCHANGED <<clock, reports, seen, LOOKUPS, dropped>>
\* The tool has its answer: the tally goes first, if there is one.
Report(c) ==
  /\ called[c].step = "running" /\ called' = [called EXCEPT ![c] = [NotCalled EXCEPT !.step = "answered"]]
  /\ reports' = IF called[c].tally = None(CACHE_RESULTS) THEN reports ELSE reports \cup {<<c, called[c].tally>>}
  /\ UNCHANGED <<clock, seen, LOOKUPS, looked_up, dropped>>
\* _on_server_log: each result's count into the counter, and into the window.
Entry(tally, result) == <<clock, IF result = "hit" THEN tally[result] ELSE 0, tally[result]>>
Entries(tally) ==
  LET counted == SelectSeq(<<"hit", "miss", "error">>, LAMBDA result : tally[result] > 0)
  IN [n \in DOMAIN counted |-> Entry(tally, counted[n])]
ReportArrives ==
  \E report \in reports :
    /\ reports' = reports \ {report} /\ LOOKUPS' = [result \in CACHE_RESULTS |-> LOOKUPS[result] + report[2][result]]
    /\ seen' = seen \o Entries(report[2])
    /\ UNCHANGED <<clock, called, looked_up, dropped>>
\* The tool server dies: what it had tallied and not told is gone.
ServerDies ==
  /\ ~dropped /\ dropped' = TRUE
  /\ called' = [c \in ToolCalls |-> IF called[c].step = "running" THEN [NotCalled EXCEPT !.step = "lost"] ELSE called[c]]
  /\ \E arrive \in SUBSET reports : reports' = arrive
  /\ UNCHANGED <<clock, seen, LOOKUPS, looked_up>>
TimePasses ==
  /\ clock < MaxTicks /\ clock' = clock + 1 /\ UNCHANGED <<called, reports, seen, LOOKUPS, looked_up, dropped>>

\* A scrape: entries too old go, from the front, until one is not.
Trimmed(entries) ==
  LET Kept == {n \in DOMAIN entries : entries[n][1] >= clock - CACHE_WINDOW}
  IN IF Kept = {} THEN <<>> ELSE SubSeq(entries, Min(Kept), Len(entries))
SumOf(entries, at) == FoldSeq(LAMBDA entry, sum : entry[at] + sum, 0, entries)
Scraped ==
  /\ Trimmed(seen) # seen /\ seen' = Trimmed(seen)
  /\ UNCHANGED <<clock, called, reports, LOOKUPS, looked_up, dropped>>

CacheMeterNext ==
  \/ \E c \in ToolCalls : CallBegins(c) \/ get_cached_sync(c) \/ Report(c)
  \/ ReportArrives \/ ServerDies \/ TimePasses \/ Scraped

MetersNext ==
  /\ UNCHANGED meter
  /\ \/ meter = "runs" /\ RunMeterNext /\ UNCHANGED cache_meter
     \/ meter = "lookups" /\ CacheMeterNext /\ UNCHANGED run_meter

----------------------------------------------------------------------------
MetersTypeOK ==
  /\ IN_PROGRESS \in 0..Cardinality(MeteredRuns) /\ SECONDS \in [RUN_OUTCOMES -> Nat] /\ BUILDS \in [BUILD_STATUSES -> Nat]
  /\ clock \in 0..MaxTicks /\ LOOKUPS \in [CACHE_RESULTS -> Nat]

Total(counts) == MapThenSumSet(LAMBDA label : counts[label], DOMAIN counts)
Ended(runs) == {r \in MeteredRuns : doing[r].step = "done" /\ doing[r].outcome \in runs}
\* Every run is in progress or is counted once, as what it ended as; "completed" is a plan somebody has and
\* "no_plan" is none; a plan saved was counted as built, but for a run that was stopped or failed in between.
RunsCountedRight ==
  LET saved == {r \in MeteredRuns : doing[r].plan}
      torn == {r \in saved : doing[r].step = "saved" \/ doing[r].outcome \in {"crashed", "interrupted"}}
  IN /\ \A outcome \in RUN_OUTCOMES : SECONDS[outcome] = Cardinality(Ended({outcome}))
     /\ IN_PROGRESS = Cardinality({r \in MeteredRuns : doing[r].step \notin {"off", "done"}})
     /\ Ended({"completed"}) \subseteq saved /\ Ended({"no_plan"}) \cap saved = {}
     /\ Cardinality(saved) - Cardinality(torn) <= BUILDS["success"] /\ BUILDS["success"] <= Cardinality(saved)
     /\ BUILDS["failure"] + BUILDS["success"] <= Cardinality({r \in MeteredRuns : doing[r].step # "off"})

\* What the window is asked: the hits among the last lookups told of, and how many those were - never more
\* hits than lookups, none told of twice, and all of them once the calls are answered, an unreadable entry
\* counted twice.
Told == Total(LOOKUPS)
InWindow == SelectSeq(seen, LAMBDA entry : clock - entry[1] <= CACHE_WINDOW)
Made == Total(looked_up) + looked_up["unreadable"]
HitRatioTold ==
  /\ SumOf(Trimmed(seen), 2) = SumOf(InWindow, 2) /\ SumOf(Trimmed(seen), 3) = SumOf(InWindow, 3)
  /\ SumOf(Trimmed(seen), 2) <= SumOf(Trimmed(seen), 3) /\ SumOf(seen, 3) <= Told
  /\ clock <= CACHE_WINDOW => SumOf(seen, 2) = LOOKUPS["hit"] /\ SumOf(seen, 3) = Told
  /\ Told <= Made
  /\ ~dropped /\ reports = {} /\ (\A c \in ToolCalls : called[c].step # "running") => Told = Made

MetersTold == RunsCountedRight /\ HitRatioTold
=============================================================================
