----------------------------- MODULE MCServices -----------------------------
(***************************************************************************)
(* What goes on around a trip's runs, each part by itself: the page that   *)
(* follows a run, the builder's text on its way to it, the embeddings of   *)
(* what was planned, the changes made to a plan, the rows its runs leave,  *)
(* what they cost, the preferences they read and add to, what is said on   *)
(* the way, and what the metrics, the traces and the health reports tell   *)
(* of them all.  The parts share nothing but the event stream; a behaviour *)
(* is of one of them, and the others stay as they were.                    *)
(***************************************************************************)
EXTENDS TripPage, Embeddings, Changes, RunLog, Usage, Preferences

VARIABLES
  part,     \* the part this behaviour is of
  meter, doing, IN_PROGRESS, SECONDS, BUILDS, clock, called, reports, seen, LOOKUPS, looked_up, dropped,
  tracing_on, span, begun_spans, unsent, batches, merged, taken, mishap,
  well, second, checking, told_at, deep, ping, owed, gauge, counted_at,
  talk, standing, remembered, outlives, call, had, begun_calls, unheard, latest

CONSTANTS
  Unknown,
  Deadlines,             \* seconds each of the app's dependencies has to answer a check
  MaxSlow, Horizon,      \* bounds: how many of them do not answer at once; seconds followed
  MaxCalls,              \* bound: requests of a conversation, three or more
  MeteredRuns, MAX_SENT_BACK   \* the runs the metrics count, and how often one may build again
ASSUME SomeRunsAreMetered == IsFiniteSet(MeteredRuns)
ASSUME CallsBound == MaxCalls \in Nat /\ MaxCalls >= 3
ASSUME HealthBounds ==
  /\ Deadlines \in [{"postgres", "redis", "tool_server", "langsmith"} -> Nat \ {0}]
  /\ MaxSlow \in Nat /\ Horizon \in Nat

\* Two tool calls of two lookups, over two ticks.
Meter ==
  INSTANCE Meters
    WITH ToolCalls <- {"flights", "stays"}, CACHE_WINDOW <- 1, MaxLookups <- 2, MaxTicks <- 2
\* A plan of two searches beside one another, one with a tool call; and a call that warms a cache.
Trace ==
  INSTANCE TraceTree
    WITH Spans <- {"plan", "hotel_agent", "search_hotels", "activities_agent", "warming"}, NoParent <- "none",
         Inside <- ("plan" :> "none" @@ "hotel_agent" :> "plan" @@ "search_hotels" :> "hotel_agent" @@
                    "activities_agent" :> "plan" @@ "warming" :> "none"),
         NeedParent <- {"search_hotels", "warming"}, ModelCalls <- {"hotel_agent", "activities_agent"},
         CanFail <- {"search_hotels"}, MinBatch <- 3, MaxBatches <- 2
traces == <<tracing_on, span, begun_spans, unsent, batches, merged, taken, mishap>>
Healthy == INSTANCE Health WITH Deadline <- Deadlines, NeededForAPlan <- {"postgres", "redis", "tool_server"}
healths == <<well, second, checking, told_at, deep, ping, owed, gauge, counted_at>>
\* A trip's requests, of which the first plans and the third asks for a change or another try.
Talk == INSTANCE Conversation
talks == <<talk, standing, remembered, outlives, call, had, begun_calls, unheard, latest>>
meters == <<meter, doing, IN_PROGRESS, SECONDS, BUILDS, clock, called, reports, seen, LOOKUPS, looked_up, dropped>>

idle_page == <<trip, run, page, post, poll, fetching, reloads, strays, misled, hidden>>
idle_draft == <<builder, draft, started>>
the_page == <<page_vars, idle_draft>>

MCInit ==
  /\ part \in {"page", "draft", "embeddings", "changes", "log", "usage", "preferences", "meters", "trace", "health", "talk"}
  /\ PageInit /\ DraftInit /\ EmbeddingsInit /\ ChangesInit /\ LogInit /\ UsageInit
  /\ PrefInit /\ (part # "preferences" => prefs = Absent)
  /\ Meter!MetersInit /\ (part # "meters" => meter = "runs")
  /\ Trace!TraceInit /\ (part # "trace" => tracing_on = FALSE)
  /\ IF part = "health" THEN Healthy!HealthInit
     ELSE /\ well = <<>> /\ second = 0 /\ checking = <<>> /\ told_at = <<>> /\ deep = "asked" /\ ping = <<>>
          /\ owed = 0 /\ gauge = 0 /\ counted_at = 0
  /\ Talk!ConversationInit

run_parts == <<embedding_vars, changes_vars, log_vars, usage_vars, pref_vars>>
services == <<meters, traces, healths, talks>>
around_run == <<run_parts, services>>
PagePart == part = "page" /\ PageNext /\ UNCHANGED <<idle_draft, around_run>>
DraftPart == part = "draft" /\ DraftNext /\ UNCHANGED <<idle_page, around_run>>
EmbeddingsPart ==
  part = "embeddings" /\ EmbeddingsNext /\ UNCHANGED <<the_page, changes_vars, log_vars, usage_vars, pref_vars, services>>
ChangesPart ==
  part = "changes" /\ ChangesNext /\ UNCHANGED <<the_page, embedding_vars, log_vars, usage_vars, pref_vars, services>>
LogPart ==
  part = "log" /\ LogNext /\ UNCHANGED <<the_page, embedding_vars, changes_vars, usage_vars, pref_vars, services>>
UsagePart ==
  part = "usage" /\ UsageNext /\ UNCHANGED <<the_page, embedding_vars, changes_vars, log_vars, pref_vars, services>>
PreferencesPart ==
  part = "preferences" /\ PrefNext /\ UNCHANGED <<the_page, embedding_vars, changes_vars, log_vars, usage_vars, services>>

MetersPart == part = "meters" /\ Meter!MetersNext /\ UNCHANGED <<the_page, run_parts, traces, healths, talks>>
TracePart == part = "trace" /\ Trace!TraceNext /\ UNCHANGED <<the_page, run_parts, meters, healths, talks>>
HealthPart == part = "health" /\ Healthy!HealthNext /\ UNCHANGED <<the_page, run_parts, meters, traces, talks>>
TalkPart ==
  /\ part = "talk" /\ Talk!ConversationNext /\ UNCHANGED <<the_page, run_parts, meters, traces, healths>>
  /\ call'[1].kind \in {"none", "plan", "question"} /\ call'[3].kind \in {"none", "refine", "search", "retry"}

MCNext ==
  /\ \/ PagePart \/ DraftPart \/ EmbeddingsPart \/ ChangesPart \/ LogPart \/ UsagePart \/ PreferencesPart
     \/ MetersPart \/ TracePart \/ HealthPart \/ TalkPart
  /\ UNCHANGED part
all == <<the_page, around_run, part>>
MCSpec == MCInit /\ [][MCNext]_all /\ PageFairness

\* Two runs of a trip at once: a plan in the making, and a search tried again.
TheAgents == "run1" :> {"hotel_agent", "activities_agent"} @@ "run2" :> {}
\* Deadlines in the order the code's have, of which one runs out while another dependency's has time left.
TheDeadlines == "postgres" :> 2 @@ "redis" :> 1 @@ "tool_server" :> 3 @@ "langsmith" :> 2

TypeOK ==
  /\ part = "page" => PageTypeOK
  /\ part = "draft" => DraftTypeOK
  /\ part = "embeddings" => EmbeddingsTypeOK
  /\ part = "changes" => ChangesTypeOK
  /\ part = "log" => LogTypeOK
  /\ part = "usage" => UsageTypeOK
  /\ part = "preferences" => PrefTypeOK
  /\ part = "meters" => Meter!MetersTypeOK
  /\ part = "trace" => Trace!TraceTypeOK
  /\ part = "health" => Healthy!HealthTypeOK
  /\ part = "talk" => Talk!ConversationTypeOK
\* What the page shows of a run, and of the plan as it is being written, is so.
PageReadsTrue ==
  /\ part = "page" => PageShowsWhatIs
  /\ part = "draft" => DraftReadsTrue
\* A trip's plan is its own, its progress is its latest run's, what it cost is told once, and what was
\* asked for comes before what is preferred, what was said is kept for the next run; and the metrics, the traces and
\* the health reports say what is so.
TripKeptTrue ==
  /\ part = "changes" => PlanIsOfItsTrip
  /\ part = "log" => StatusTellsTheLatest
  /\ part = "usage" => CostIsTold
  /\ part = "preferences" => AskedComesFirst
  /\ part = "meters" => Meter!MetersTold
  /\ part = "trace" => Trace!TraceHolds
  /\ part = "health" => Healthy!HealthTold
  /\ part = "talk" => Talk!ConversationHolds
\* A change keeps the rest of a plan, and preferences that were set.
NothingTakenAway == KeepsTheRest /\ PreferencesKept
=============================================================================
