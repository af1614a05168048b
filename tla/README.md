# Trip planner: TLA+ models, model checking and proofs

This directory keeps formal models of the trip planner beside its code: TLA+ modules translated
from the source, TLC configurations that check them on small instances, and theorems that TLAPS
proves for every value of the constants. Short names of files below: `trips.py` is
`src/backend/app/api/routes/trips.py`, `main.py` is `src/backend/app/main.py`, `orchestrator.py` is
`src/ai/orchestrator/orchestrator.py`, `client.py` is `src/ai/mcp_client/client.py`; the tool server
is `src/ai/mcp_server/`. `PROJECT.json` holds the machine-readable side: for every definition the
lines of code it stands for, the runs, the mutants that show each property can fail, and the hazards.

## 1. The system

A traveller asks for a trip in words. The backend (FastAPI) starts a *run*: a background task that
takes the request through a graph of nodes (LangGraph), which search for flights, hotels and
activities, check the budget, have a language model build an itinerary, have another judge it, and
save it. The searches go through one child process, the *tool server* (MCP over stdin and stdout),
which asks the providers under their rate limits and keeps answers in Redis. Progress is published
through Redis to the page that watches; the trip's status is in Postgres. The page (Next.js) shows the
plan, lets the traveller change it, and gives it as a PDF.

| Part | State it keeps | Operations | Meets the others by |
|---|---|---|---|
| Trip runs (`trips.py`, `utils/conversation.py`) | the trip's status, its itineraries, the run note in Redis, tasks in the process | POST /plan, /clarify, /replan, /refine, /retry; `_start_run`, `_run_orchestrator`, `_keep_noted`, `_settle`, `_give_up` | Postgres and Redis shared with every instance; runs the graph |
| Start-up recovery and shutdown (`main.py`) | which pass it is in | `_recover_after_restart`, `_recover_later`, `_look_again`, `finish_runs` | reads the status and the notes other instances keep |
| Planning graph (`orchestrator.py`, `agents/budget_decision.py`, `agents/evaluator.py`) | one run's state: lists found, errors, counters, draft, verdict | the nodes and edges; the targeted pass of a refinement or a retry | writes the status once; calls the MCP client; publishes events |
| MCP client (`client.py`) | the session, its owner task, a lock | `call_tool`, `get_session`, `_forget`, `_ask`, `close_session`, `_ToolServer` | many calls share one session; the server's process dies by itself |
| Tool server (`server.py`, `tools.py`, `cache.py`) | `_in_flight` keys and their counts; the cache in Redis | the searches in worker threads, `single_flight`, `get_cached_sync`, `set_cached_sync` | threads share keys, the cache and the limits |
| Outbound requests (`outbound.py`, `rate_limiter.py`) | each provider's `_moments` | `RateLimiter.acquire`, `send` with its retries | threads queue for one provider's turns |
| What a search answers (`tools.py`) | what is kept under a key | flights, hotels, attractions, places, weather: filtered, cut, kept | a cached answer serves another's budget |
| The beginning of a trip (`warming.py`, the graph's first nodes, the agents) | the trip row, the state of the first pass | `warm_trip_caches`, `parse_intent`, `apply_preferences`, the searches' inputs, tips | warms what the plan will ask for |
| Itinerary builder (`builder.py`, `group.py`, `weather.py`, `schedule.py`) | the draft | the checks, the group's balance, the rainy days, the clock | judged by the evaluator |
| Budget check and its ways out (`budget_decision.py`, `budget_alternatives.py`, `pricing.py`) | the conflict with its options | `make_budget_decision`, `conflict_alternatives`, POST /replan | a run asks, the traveller picks, the next run goes on |
| Language (`language.py`) | the language of a plan | reading what was typed, `localise` | a translation model that may fail |
| Changes to a plan (`trips.py`, `orchestrator.py`) | the row, the itineraries, the planning state in Redis | plan, clarify, replan, refine, retry | what one run leaves the next starts from |
| Conversation (`utils/conversation.py`) | the history with its turns | `start_history`, `append_history`, `get_current_turn` | a run's end and the next request both write it |
| Event stream and page (`trips.py`, `lib/sse.ts`, `app/trips/[id]/page.tsx`) | events in flight, the numbered pieces, the page's phase | `_Publisher`, `_TokenStream`, GET /stream, GET /status, `launch`, `finishRun` | Redis pub/sub, which keeps nothing |
| What the page shows (`changes.ts`, `map.ts`, `draft.ts`, `AgentProgressPanel.tsx`) | the plan before and after, the text so far, each search's state | `changedParts`, `buildMapData`, `readDraft`, `deriveAgentStates` | events and GET /status, either of them late |
| The trips page (`app/trips/page.tsx`, `search.py`) | the form, the list, the box | POST /trips, GET /trips/search, similar trips | embeddings |
| PDF export (`backend/app/pdf`) | nothing; the tiles it keeps | `build_plan`, `render_static_map` | reads trip and plan once more |
| Embeddings (`embedder.py`, `main.py`) | rows of an itinerary: pending or two vectors | `generate_embeddings`, recovery of pending rows | a live job, and the recovery of a starting instance |
| Run log, usage (`run_logger.py`, `usage.py`) | `agent_runs`, open meters | `log_agent_run`, `metered`, GET /status | rows of one run beside another's |
| Preferences (`utils/preferences.py`, `preference_extractor.py`) | a user's row | PUT, the extractor, `apply_preferences` | two writers of one row |
| Sign-in (`core/sessions.py`, `lib/api.ts`) | refresh tokens, the browser's copies | `start`, `rotate`, `end`; `refreshAccessToken` in each tab | two tabs, one cookie |
| Metrics, traces, health (`metrics.py`, `tracing.py`, `trace_tree.py`, `deep_health.py`) | counters, batches, a gauge | `planning_run`, `root`/`span`, `report` | another process's log, another service's upload |
| The rest | | registration and passwords, log formatting, migrations, deployment, scripts | see section 8 |

What is hard in it:

- **Interleaving.** A handler reads the status before an await and writes it after one; two handlers,
  a run, its settling, another instance's recovery and the end of a process write the same column.
- **Deploys and crashes.** Two instances live at once; the new one must fail the dead one's runs and
  spare the living one's, on the word of a note with a time to live.
- **Outages.** Postgres or Redis goes away at any moment of all that.
- **One session for many calls.** The tool server may die at any await of any call; the calls that
  find out start another between them, once.
- **Loops that must end.** The graph goes back for a re-plan or a retry; `send` retries; the recovery
  looks again.
- **Threads.** Searches that wait for a key, a rate limit or the place inside another key, each
  keeping one of a limited number of threads.

- **Events that are lost, and answers that are late.** Pub/sub keeps nothing; the page has GET /status
  beside it, and either may tell it of an earlier run.
- **Read, wait, write.** The history and the preferences are read and set again whole by a later command; the
  trip's row is read, a model is asked for seconds, and only then does the trip say `planning`.
- **Two programs for one rule.** The page and the PDF, the form and the server, the warming and the
  plan work the same thing out, each with its own code.
- **Repairs after repairs.** The draft is balanced, then made fit for rain, then given a clock, and only
  then judged.

What makes each part correct, in a sentence: a trip never stays `planning` and is `completed` only
with a plan (trip runs); only the draft the evaluator passed is saved, the page is told the truth and
every run ends (graph); one server between all calls, nobody is turned away by a single death (MCP
client); one search per key and every call answered (tool server); the provider's limit is kept and
every send ends (outbound); a repair takes nothing from anybody (builder); a way out leads on (budget);
a change keeps the rest (changes); what the page shows is so once all has come to rest (page, panel,
draft, paper); nothing planned is forgotten and nothing is told twice (embeddings, log, usage).

## 2. The modules

```
TripLifecycle                    what a traveller is promised of a trip (abstract)
   ^ implemented by
TripRuns  --- TripRuns_proofs
   . supposes of the graph no more than
RunOutcome                       one write of the status at most (abstract)
   ^ implemented by
PlanningGraph --- PlanningGraph_proofs
   . its searches call through
McpClient --- McpClient_proofs
   . to
ToolServer --- ToolServer_proofs  one stay's searches, keys and cache
   . whose requests leave by
Outbound --- Outbound_proofs      rate limiter and retries

Plan                             the vocabulary of a plan
 +- GroupBalance, Days (rain and clock), Prices
     +- Itinerary                one pass: places, draft, repairs, clock, judgement
     +- BudgetConflict           a conflict, the way out picked, the next run
MCItinerary = Itinerary, BudgetConflict, Searches, Language
 +- MCPages = Opening, TripForm, TripSearch, SignedIn,
              PlanView, PlanExport, MapTiles, DraftReading, AgentPanel

EventStream                      publisher, Redis, EventSource, the text in pieces
 +- TripPage                     the page that follows a run
MCServices = TripPage, Embeddings, Changes, RunLog, Usage, Preferences,
             Conversation, Meters, TraceTree, Health
                  (--- Embeddings_proofs, Services_proofs, Traveller_proofs)
```

The dots are contracts, not INSTANCEs: each module leaves the other's outcome open (a search finds
anything or nothing, a request ends in any way) and relies on the one property named there. TripRuns
lets the graph save, fail or crash, which RunOutcome states and PlanningGraph is checked to implement;
ToolServer supposes that a request ends, which is Outbound's `EverySendEnds`; PlanningGraph supposes
that a search returns, which is McpClient's `EveryCallReturns`. Changes, RunLog, Usage and Conversation
suppose what PlanningGraph and TripRuns say of a run and follow what it leaves.

The modules of the second group are checked in two runs. Their parts share few variables, so a
behaviour is of one part (`part`) and leaves the others as they are: the state space is the sum of the
parts, never their product. Modules whose names would collide are taken with INSTANCE, and their
variables declared in the MC module.

### TripRuns (`trips.py`, `main.py`, `utils/conversation.py`)

One trip: trips share no row and no key. Every await that touches the database or Redis is a step.
`pc[r]` says where request `r`, and then its run, has come to:

| `pc` | code |
|---|---|
| `checked` | the handler is past `_ensure_not_planning`; `seen` is the status it read |
| `marked` | `_start_run` has committed `planning` |
| `planning`, `saved`, `unmade` | in the graph, before it has written the status, after it wrote `completed`, after `failed` |
| `settling`, `settleWrite` | `_settle`, between its read and its write |
| `givingUp`, `giveUpWrite` | `_give_up`, on cancellation at shutdown |
| `ending`, `done` | the `finally` that clears the note; over |

`note` is the run note (whose it is), renewed by `Beat` and lost by expiry only when no reachable run
renews it. `inst`, `recovery` and `looking` are the processes and how far each one's recovery has
come: read the trips that say `planning`, ask Redis for their notes, mark those that have none.
`patient` chooses, once, between a traveller who waits for one run to end before asking for the next
and one who does not: some promises the code keeps only for the first (section 7).

### PlanningGraph (`orchestrator.py`)

A node is a step; `node`, `steps` and the run's own state as the code names it. Flights are known by
what the budget's check does with the cheapest (`ample`, `tight`, `dear`, `none`), or when nothing was found
within a re-plan's cap by the fare its error quotes (`Priced`: the check may go on with no flights in hand), drafts by the round
that built them. `kind` is the whole graph, or the one search a targeted pass repeats
(`_rerun_search`). `Crash` is an exception, cancellation or the run's deadline in any node.

### McpClient (`client.py`)

Servers are numbered as they are started. Of each, `process` says whether it lives, `owner` how far
the task that opened its pipe is (`_own`), and `pipe` what the session has noticed of its death: it
fails what was waiting (`quiet`), and later the event `gone` is set; a request sent between the two is
left without an answer. Of each call, `pc` is the await it is at, `held` the session it was given,
`request` what became of what it sent, and `met` (history) the servers it found gone.
Cancelling a call at any await (a run's deadline, a shutdown) is an action; so is `close_session`.

### ToolServer (`cache.py`, `tools.py`, `server.py`)

Calls about one stay, in a limited number of worker threads. `inFlight`, `users` and `holder` are
`_in_flight`, the count and the lock of an entry; an entry is named after the call that made it, so
that a second one under the same key is another lock, as it is in the code. A Redis command may fail
at any time and a key may go at any time. Searches differ in when they need the place: the
attractions search always, the hotel search when the provider knows no such city.

### Outbound (`outbound.py`, `rate_limiter.py`)

One provider. Times are relative to now, so the clock needs no bound. `moments` is the limiter's
record; `reached` says of each attempt how long ago it reached the *provider*, which the limiter never
sees: the property is about that one.

### The making of a plan: Plan, GroupBalance, Days, Prices, Itinerary

A draft is `[days, total_cost]`, a day its three slots, its hotel and its date, a place whom it suits,
what it is and where on a line. The algorithms are operators translated from the functions of the same
name (`fixable_gaps`, `spare_stops`, `NeedsRepair`, `travel_minutes`, `estimate_of`, `viable_budget`);
the two repairs are loops of steps, one turn of one member or one day each. Itinerary is one pass of
`build_itinerary` in its order: places, the model's reply (what it fills, what it misquotes, whether it
copies whom a place suits), the checks, the balance, the rain, the attached data, the clock, the
evaluator's seven checks. Prices does money in paise and rupees as the code rounds it; a year has 365 days.

### BudgetConflict, Searches, Opening, Language

BudgetConflict follows a conflict through the ways out the traveller may pick and the runs that follow,
with fares by the stops allowed and the calendar going on. Searches is what a cached answer gives to
another traveller with another budget, which of several interests' places fall to the cut, which place a
name is, and which day's weather is known. Opening is what the first searches are asked with - from a form,
a request in any language, a model's reading of it, the saved preferences - beside what was warmed while the
trip was being made; a second pass starts from what the first kept. Language is what is read of what
was typed, and what of a plan is translated, kept or left.

### Changes, Conversation, RunLog, Usage, Preferences, Embeddings

The rows and keys that outlive a run. Changes holds the row, the plans, and the planning state that is
saved *after* the plan, may fail to be saved, and may be lost; every endpoint that starts a run is an
action, and each targeted pass. Conversation is the history, where each append is a read and a write
apart; a run's state may be saved and the append after it fail, and each of the two keys expires by itself, the
one that was set first before the other (`outlives`). RunLog has the rows in their order and `state_of`, which is GET /status. Usage has the meters open
in each task and the sum that warns once. Preferences has writers whose read and commit are steps apart: the
extractor, with its model's answer in hand before it reads, and the traveller's form (two in the run, any
number in the proof).
Embeddings has two processes' jobs, the recovery of a starting one, and the killing of either between any two steps.

### EventStream, TripPage, and what the page shows

EventStream is the transport: the publisher's quiet period after a failed try, a subscription that comes
late or breaks, a queue; and the numbered pieces of the builder's reply, joined as they come. TripPage is the
page as it follows runs: load, launch, event, poll, `finishRun`, reload, with every request able to fail. The page
may be reloaded, or give up, while its request is under way: such a request (`strays`) is taken by the server
whenever it comes to it, or never (`TakeStray`), and what begins is a run like any other (`PlanningBegins`).
`Offered` is what the page lets the traveller ask for and `Takes` what the server takes of it. DraftReading reads the joined text, token
by token, as `readPartialJson` does. PlanView compares two plans as `describeChanges` and `changedParts`
do, and numbers the stops as the map does; AgentPanel puts each search's state together from events,
GET /status and what is carried over. PlanExport is the same plan on paper beside the page's figures;
MapTiles the view, the tiles and their loading under a deadline.

### TripForm, TripSearch, SignedIn, Meters, TraceTree, Health

TripForm is the form's own limits beside the schema's. TripSearch is the search box with its answers on
the way, and what a search finds of plans that are being made. SignedIn is two tabs of one browser that
keep up one sign-in. Meters is what is counted of runs and look-ups, TraceTree what is told of a run's
spans by batches that are lost, late or repeated, Health what is said of dependencies that answer,
hang, or do not let go.

## 3. The runs

| Run | Instance | What it shows |
|---|---|---|
| `trip_deploy` | 2 overlapping requests, 2 instances, 1 stop or kill | `NeverAbandoned`: whoever is in the middle of what, a trip that says `planning` has a run or a recovery that will take it out. `PlanBehindCompleted`: no completed trip without an itinerary |
| `trip_outages` | 2 requests, 1 instance, 1 stop or kill, 1 outage of Postgres or Redis | `PlanningEnds`: a trip is taken out of `planning`; and for the patient traveller one run at a time, a note as long as the run, and `KeepsThePromise`: the refinement of TripLifecycle |
| `one_run_at_a_time`, `late_write_harmless`, `standing_plan_kept` | as above | disagreements between a comment and the code, section 7 |
| `planning_graph` | the code's caps: 2 re-plans, 3 evaluator retries | only a passed draft is saved, an error means nothing in hand, what is built on is what stands, the page is told the truth, every run ends, and `WritesStatusOnce`: the refinement of RunOutcome |
| `mcp_client` | 2 calls, 3 deaths, 1 cancelled call | one server between the calls; nobody told `SERVER_GONE` by one death; every call returns |
| `tool_server` | 2 hotel, 1 attractions, 1 flight search, 2 threads | one search per key, no provider asked for what is in the cache, entries neither leaked nor lost, no deadlock through the place's key or the threads |
| `outbound` | 3 sends, 2 attempts each, 2 requests in 2 ticks | the provider never counts more than its limit |
| `outbound_per_minute` | the proportions of a per-minute provider | a disagreement, section 7 |
| `itinerary` | MCItinerary: the trips, replies, offers and plans written there | see below |
| `services` | MCServices: two runs, pieces, plans, jobs; three requests of a conversation | see below |

`itinerary` asks six things. `PlanStands`: what the builder hands over the evaluator sends back only for
what no repair could mend, the clock can be kept, and the words of a plan are its stops'. `RepairsHurtNobody`
(an action property): no repair changes the money, doubles a place or takes a member's window.
`WaysOutHold`: a way out that was picked leads on and is priced as it was offered. `AskedAndFound`: a
search is asked with what the trip needs, what was warmed is what is asked, and a search shows the
cheapest within *this* budget whoever asked before. `PageShowsTrue`: the change a page tells of, its
map, its draft, its panel, its form, its search, its sign-in and its PDF say what is so. `TypeOK`.

`services` asks: `PageReadsTrue` and `PageComesToRest`: whatever is lost on the stream, a page that waits
stops waiting and then shows what is, and the text in the making has no hole. `EmbeddingsKept`: an
itinerary is embedded or on record as owed, whenever a process dies, and found once. `TripKeptTrue`: the
plan is of its trip, GET /status tells of the latest run, costs are counted once, what was asked for comes
before what is preferred, a change has a turn of its own, and metrics, traces and health reports say what is
so. `NothingTakenAway` (an action property): a change keeps the rest, and a saved preference stays.

Several of these name an exception in their statement. Each exception is one the code has, is kept by a
history variable (`misled`, `unheard`, `doubled`, `confused`, `strayed`, `befell`, `drifted`), and
is told in section 7; without it TLC gives the trace.

Every property of a passing run has a mutant in `PROJECT.json`: a definition replaced by what a
plausible bug would make of it (they stand in the modules, each before its target and marked
"Mutant" or "Mutation"), under which TLC finds the property violated. They are not part of the model.

### Bounds, and why they are enough

- **Trips.** Two requests are the least that can overlap, and every race found here is of two; with
  one trip and one status a third adds no new pair. Two instances are a deploy, which overlaps one
  old with one new process. One stop (`MaxStops`) and one outage (`MaxOutages`) at any point of the
  run cover each hazard by itself; the safety theorems carry no bound on either.
- **Graph.** No bound cuts anything: the caps are the code's. `StepCap` (30) is above the longest way
  (25 nodes).
- **MCP client.** Three deaths are what two calls need to find a server dead, start another, lose it
  and find a third; the theorems hold for any number of calls and deaths.
- **Tool server.** Two threads are the least with contention, and let a third call reach a key whose
  entry two others are leaving; four calls keep a queue for the threads.
- **Outbound.** Three senders with two attempts are six requests for two turns a window, enough to
  fill the queue to the point of a refusal. `PERIOD` 2, `HEADROOM` 1 make an arrival late by the whole
  headroom the tightest case there is. `MAX_WAIT` equals the window, as for the providers that count by the
  second it is more than that (60 s and 1.1 s).
- **Plans.** A trip of one to three days, two or three members and up to two places a search has every
  case of the repairs: a window with room, a full one where a stop gives way, a day of rain on the only
  stop of a member, a place nobody asked for, nothing found at all. What the model leaves free is named
  trip by trip (`open`, `rest`), which keeps the drafts to some hundreds. The limits of lists (`MAX_RESULTS`,
  `MAX_TIPS`, `SEARCH_LIMIT`, `SHOWN`) are made small so that a cut happens.
- **Budget conflicts.** `MaxRounds` 3 runs, so a way out can be picked on top of another; `LastDay` lets
  the calendar pass a departure.
- **Page and stream.** `MaxLost` 1 lost event, `MaxAsked` 2 and `MaxReloads` 1: each exception needs one loss
  and two runs. Two runs that overlap are TripRuns': the page is not reloaded once a second one has begun beside
  the first, since what the first may yet do to the second's row is not in this module. Two builds of two pieces have a piece of a later build that fits the earlier one's text.
- **Embeddings.** Two processes, two plans, two jobs, three starts: a deploy over a job in flight, and a start
  after that. Two jobs are an itinerary's own and a recovery's of it, or those of two itineraries; the theorem is
  for any number.
- **Changes, run log, conversation.** Two or three turns: a plan, a change, a change to that. The first
  request of a conversation plans and the third asks for a change or another try; a request comes when
  the one before is answered (those that overlap are TripRuns').
- **Usage.** Two runs of a trip at once, of which one has two agents; costs 0 to 2 against a limit of 2.
- **Sign-in, tiles, spans, health.** Two tabs and three tokens; a grid with fewer downloads than tiles; five
  spans in two batches; four dependencies of which one is slow, over a horizon longer than its deadline.

Configurations whose system really stops say `CHECK_DEADLOCK FALSE`, and then a liveness property
says that it stops where it should.

## 4. Fairness

Only what the code's own scheduling gives is assumed, never that a user acts or that something fails.

- `TasksGoOn` (TripRuns): an asyncio task that can go on does; a run leaves the graph because
  `RUN_DEADLINE_S` cancels it (`trips.py:370`); a stopping process exits because its grace period ends;
  a note nobody renews expires (`RUN_TTL_S`); the retry timers of `_settle` and the recovery fire; a
  database or Redis that is away comes back (`LongOutage` FALSE: within `SETTLE_FOR_S` and
  `RECOVER_TIMES`).
- `Replaced`: an instance that stopped or died is started again. It is the platform's work, not the
  code's, and needed: after the last of a deploy (`SpecWithoutReplacement`) a trip killed in planning
  stays in planning, since nothing else looks.
- PlanningGraph: `WF(Proceed)`: every wait in a node has a deadline of its own.
- McpClient: the event loop runs tasks that are ready; a living server answers, comes up, or dies.
- ToolServer: threads run; a request to a provider ends (Outbound); a freed lock is taken by someone
  waiting, by nobody in particular: calls are finite in number, so no order is needed.
- Outbound: the clock runs; a thread whose wait is over goes on. A request that has its turn arrives
  within `HEADROOM`, which is the module's docstring's own assumption (`rate_limiter.py:22-24`).
- MCServices: `PageFairness` (TripPage): the run's own steps go on; a request of the page is taken and is
  answered or fails; the page asks GET /status every few seconds while it waits, and asks again when that
  failed. Nothing is assumed of the traveller, of an event being delivered, of a broken stream connecting
  again, or of any other part.

## 5. What is proved

All proofs are in modules named `*_proofs` and hold for every value of the constants that their named
assumptions allow.

**TripRuns_proofs.** `TypeCorrect`: types. `CompletedHasPlan`: a completed trip has an itinerary. The
invariant alone is not inductive, since a run that settles writes `completed` on the strength of a
status it read long ago; it is strengthened by `PlanBehindSeen`: whoever read `completed` still has an
itinerary behind it, because itineraries are never removed. `AlwaysAnswered`: a trip that says
`planning` has a run or a recovery answerable for it, unless an outage outlasts every retry
(`~LongOutage` is a hypothesis of the theorem). Strengthened by `GivenUpByStopping`: a run is only
given up by a process that is stopping and waits for it. The argument follows the one who is
answerable through each action: a run hands over to its settling, a dying process to its own next
start, a recovery to its next pass.

With one server (`OneServer`), for the traveller who waits: `OnlyOneRun` (one run at a time) and the
action property `NoteStandsForItsRun` (while Redis is up the note goes only when no run is alive). Both
rest on `PatientInv`: one handler or run at a time, no recovery beside it, and `Knows`, what each `pc`
may rely on when nobody else writes the status - the run that is planning reads `planning`, the one
that saved `completed`, the one that settles a status that it left itself. `FleetInv` says that a
process that is down runs nothing. The theorems need the hypothesis: with two servers, whose overlap a
deploy brings, one that starts between another's commit of `planning` and its note marks the trip of a
run that lives (section 7, 6); the traveller sees `failed`, asks again, and two runs are alive.

`RunsImplementLifecycle`: with one server and outages within the retries, TripRuns implements
TripLifecycle. The initial states map, and each of TripRuns' actions maps to a `Begin`, `MakePlan`, `FallBack`,
`Fail`, `Interrupt` or `CutShort` of the abstract specification or to a stutter: a lemma for each way that a step can look
from outside (`BeginsRun`, `EndsRun`, `StopsRun`, `CutsRunShort`), each from the conjunction of all the
invariants above. The refinement holds a `failed` that a settling is about to put right for `planning`,
so that the argument is mostly about who stands for a plan while nobody has said so yet (`StandsFor`,
`PutRightBy`); `~LongOutage` is needed,
because a run that gives up settling leaves its trip as it is, and nobody stands for the earlier plan.

**PlanningGraph_proofs.** `TypeCorrect`. `ErrorsAreHonest`: a search with an error has nothing in
hand, inductive by itself. `OnlyPassedPlansAreSaved`: with `PassedInv`, which ties the verdict to the
draft it was given on for every node from the evaluator to the end. `RunsAreBounded`: no run takes
more than `MaxSteps` nodes for any caps, by the measure `NodesLeft` (an upper bound on the nodes still
to come, from the node at hand and the counters left), which falls at every node.
`BuiltOnlyOnWhatStands` rests on `InHandInv` (a targeted pass has something in hand throughout, a whole run from
its first draft on) and `ConflictInv` (a conflict goes to its refusal and nowhere else).
`PageToldTheTruth` rests on `OutcomeInv`, which says of each node whether the status has been written,
with what, and what the page has been told. `RunImplementsOutcome` follows from the same invariant: before
the write a run is in a node of `Unwritten`, after it in none that writes, so that every step is a `Save`, a
`GraphFails`, an `EndRun` or a stutter of RunOutcome. It is the contract TripRuns relies on, for any caps.

**McpClient_proofs.** An invariant in five parts: `TypeOK`; `Pipes` (what a server's pipe, its
owner task and its process say of one another); `Lock` (whoever is starting a server holds the lock,
and that server is nobody else's yet); `Evidence` (what a call holds against a server is true of it:
the servers in `met` are dead); `Strangers` (a call that asks again has met one server and is not
given that one again; told of a second, it has met two). From it `TwoServersFailIt` and the action property `LivingSessionsStay`. `OneServerForAll` counts
the living servers that nobody answers for (`Orphans`): with `KeptIsUp` (a free lock starts nothing, and what is
kept has been opened) no step adds to them but the cancelling of a call that starts one, which is
counted in `cancels`.

**Outbound_proofs.** For any number of senders, attempts and calls, any window and headroom: `SendsTyped`;
`LimitIsKept`, that the provider never counts more than it allows; `RefusedOnlyWhenFull`, under `MAX_WAIT >=
Window`. The limit is a pigeonhole and needs no induction over the window. Each attempt belongs to the place in
the deque that its turn has, or that a turn a multiple of `CALLS` later has now. `Fits` says that an attempt's
turn is no later than what its place holds (`Placed`) and that two attempts of one place are a window of
the limiter apart, and so, however late within the headroom each arrives, a period of the provider apart
(`Apart`). Two that the provider counts then have two places, of which there are `CALLS`. The places are
not in the state: `LimitInv` says there is a way to assign them, and each action's lemma gives the next
one (`FitsInTurn`: the new turn takes the place of the oldest, the others move one to the front). The
refusal rests on `InOrder`: the turns on record are in order and none later than the next, so that when the
oldest is ahead of now all of them are. Its hypothesis is false of the providers that count by the minute,
where the run `outbound_per_minute` shows the refusal.

**ToolServer_proofs.** For any number of calls and threads: `OnlyOneSearch` (one search per key),
`EntriesRight` (`_in_flight` holds exactly the keys somebody holds or waits for, with the right
count), `NeverTwice` (nobody asks a provider for what was stored since it looked), `TypeCorrect` (which
says of a count that it never falls below zero). None of the first three is inductive. That two calls
are not inside one key rests on `Holding` (who is inside holds the lock of *its* entry) and on
`OneEntry` (all who have one have the same); `OneEntry` on an entry going only when its count says
that nobody has it, and so on `Counted` (a cardinality, by the theorems about finite sets); `Counted`
on `Places` (which keys a call has in hand at each of its steps). `Fresh` adds that a call that was
told there is nothing under a key is inside it until it has stored its own answer, so that nobody else
stores one meanwhile.

**Embeddings_proofs.** For any number of processes and any bounds: `EmbeddingsTyped` and
`EmbeddingsAreKept`, whose four parts are that no itinerary is forgotten, a trip is found once, what is
embedded is no longer owed, and the count of jobs is right. The second and third hold but for the
itineraries that a recovery met in the making (`doubled`), and rest on that very exception: any
other itinerary is in one hand at most - the process that saved it, a recovery's queue or a job (`OneHand`) -
and in none once it is embedded (`Settled`); its job has seen all that is owed of it, so that deleting
what it saw leaves nothing (`Seen`). `Counted` ties the count to the cardinality of the jobs.

**Services_proofs.** What the system keeps and counts, for any number of turns, places, fares, writers,
sessions, answers, seconds, requests and runs; a step of the whole is a step of one part or leaves it alone.
- `NothingIsTakenAway`, the action property `NothingTakenAway`. That a change keeps the rest of a plan is
  not a fact of one step: the run was started from what an earlier run saved. So what is saved holds, in
  its lists, all that its plan uses, at the plan's fare (`HoldsItsPlan`); narrowed to the plan they are
  the plan's own (`FromThePlan`); one search leaves the other lists, and another flight to choose from makes
  the fare no dearer (`CheaperWithAnother`). That preferences are kept rests on a writer's copy being the
  row until somebody else writes it (`ReadStands`).
- `PlanIsOfTheTrip` and `WhatIsAskedComesFirst`: the trip's row, and what was asked for.
- `CostIsToldOnce`: `CostIsTold`. An answer is counted by the meter of the work that asked because that
  meter is the innermost in its context (`Metered`); the warning is given once because, while the rows
  can be added up, whoever has yet to add them up knows of everything but its own row (`Warned`).
- `HealthIsTold`: each check by itself is within its deadline, held up past it, or done with what it was told
  (`CheckHolds`), whatever the others do; the report waits past the longest deadline only for a check that
  does not let go.
- `RunsAreCounted`: what the metrics count of runs. The gauge and each counter are the number of
  runs of a kind (`CountsHold`), and one run that goes on changes each by what it was and what it is
  (`CountsGoOn`), by the theorems about finite sets.

**Traveller_proofs.** What a traveller is shown, told and heard of, for any number of lost messages,
reloads, runs, builds, rows and requests.
- `PageReadsTheTruth`, the invariant `PageReadsTrue`: what the page shows at rest, and the text of a plan
  in the making.
  For the page the invariant `PageInv` is about everything on its way to it. `RowOfTheRun` says
  what the trip's row can be from where its latest run stands; `NewsOfTheRun` and `AnswersOfTheRun`, that no
  message and no answer of GET /status says more than the run has done; `PageAway`, how old what a
  page has loaded of the trip can be when it opens; `PageWaits`, that a page waits exactly while it shows a
  plan in the making, and that a conflict announced is then known to it or in its inbox. A request of a page
  that was reloaded begins its run beside a page that may have read the trip already: `BegunAstray` says
  that this one is `misled`, or has nothing of the trip yet. From these
  `PageStands`, which is the property before everything has come to rest: it has to speak of a page
  that shows a failure while its run is still writing why. The exceptions (`misled`, `hidden`) are in the
  premises, as in the property. For the text (`DraftInv`), builds have an order, and the pieces that wait are
  in it (`PiecesInOrder`): so a piece of a build whose first piece was read never comes after another's.
- `StatusIsTheLatest`: GET /status tells of the latest run. The rows of that run are those after some row `b`
  that ends a run (`RowsHold`), which the code finds without knowing the run: by the last row that ends one. The
  invariant (`LogInv`) says what those rows are from where the run stands, and what a run may still write.
- `WhatWasSaidIsKept`: a change's turn comes after those of the runs begun before it, and a trip planned again
  is planned from the words written last. The invariant (`TalkInv`) speaks of the history and of every
  copy of it that a request has read and will write back. A turn that a later change has to be above is in
  the history, or the history and the state are gone together with everybody who could count on them
  (`Gone`), or it went with the history while a state set later was left (`unheard`, the exception), or all that is there and all that is to be written has a later one (`Above`). `TalkKeeps` is about
  `ConversationNext` itself: what MCServices lets the first and third request be is not used.

`PlanIsOfTheTrip`, `WhatIsAskedComesFirst`, `CostIsToldOnce`, `HealthIsTold`, `RunsAreCounted`,
`StatusIsTheLatest` and `WhatWasSaidIsKept` are seven of the nine things `TripKeptTrue` says. The invariants
of the page, the run log, the conversation, the health checks and the metrics were checked by TLC on the run's
instance before they were proved. Two attempts told something about the model. With five requests or more
a conversation that was opened anew still counted the runs of the one before, whose turns are gone with
its history: `Opens` now lets them go, as the code begins the history again. And the metrics count each run
once only if there are finitely many of them, which `SomeRunsAreMetered` now says.

The theorems stand on the ASSUMEs in the modules (`ConstantsAssumption`, `LimitsAssumption`, ...),
which say no more than that bounds are naturals, that deadlines are positive, that the metered runs are
finitely many, that a conversation has at least the three requests the run tells apart, that a model value
is not one of the others, and that a fare, and a limit that is one, is more than nothing.

## 6. What is only model-checked

- **Liveness** (`PlanningEnds`, `Ends`, `EveryCallReturns`, `EveryCallAnswered`, `EverySendEnds`,
  `PageComesToRest`): TLAPS does not reason about fairness and ENABLED.
- **The run `itinerary`** (`PlanStands`, `WaysOutHold`, `PageShowsTrue`, `AskedAndFound`): the algorithms are
  folds and choices over a plan's data, and what they leave would be proved by induction over that data,
  for which the library's theorems take an operator as a parameter.
- **The run `services`**: seven of the things `TripKeptTrue` says are theorems and two are not. `HitRatioTold` is
  about sums over the window's entries, and a fold over a sequence is a recursive definition, which could only
  be proved about by induction over the data; `TraceHolds` is about a tree of spans given by the bounds, of
  which TLC sees all orders. `TripKeptTrue` as a whole is therefore checked. The `TypeOK`s of the two composed
  runs collect those of their parts.
- **Two servers**: what TripRuns promises of overlapping instances beyond `TypeCorrect`, `CompletedHasPlan`
  and `AlwaysAnswered` is either false (section 7) or only checked by `trip_deploy`.

## 7. Where the code does not do what it says

The first four have a run that shows them. From 9 on the model holds them as the exceptions its
properties name: take the exception out and TLC gives the trace.

1. **Two runs at a time** (`trips.py:462`, run `one_run_at_a_time`). `_ensure_not_planning` reads the
   status and `_start_run` writes it in a later await, without a lock or a condition in the UPDATE. Two
   requests in between start two runs of one trip, against "only one run per trip at a time"
   (`trips.py:24`). The safety theorems above hold all the same.
2. **A late settling** (`trips.py:193`, run `late_write_harmless`). The status a run may have left is
   also the status a newer run writes; a late `_settle` ends the newer one, against the comment at 179-182.
3. **A standing plan lost** (`trips.py:286`, run `standing_plan_kept`). A refinement cut short after the
   graph wrote `failed` and before it is settled leaves the trip failed though its plan stands.
4. **Refused without a queue** (`rate_limiter.py:126`, run `outbound_per_minute`). `MAX_WAIT_S` is 60 s
   and a per-minute provider's window with its headroom 66 s: in the first six seconds after a burst of
   exactly the limit the next request is refused, though nobody waits.
5. **Somebody else's note** (`trips.py:406`). The `finally` of an old run clears a newer run's note, so a
   starting instance may take the newer one for dead. A consequence of 1; `NoteOutlivesItsRun` is stated
   and checked for the patient traveller.
6. **Between the commit and the note** (`trips.py:424` and 441). An instance that starts in that moment
   fails a run that is alive: `RecoverySparesTheLiving` in TripRuns states it; it has no run, since the
   window is a few milliseconds and the run's own `completed` overwrites it later. Until it does, even a
   traveller who waits can start a second run, which is why `OnlyOneRun` is about one server.
7. **A tool server left behind** (`client.py:227`). A call cancelled while `start()` waits abandons the
   owner it made; the server comes up and nobody refers to it, against "with nothing left behind"
   (`client.py:223`). McpClient counts these, and `OneServerBetweenThem` allows for them.
8. **StillLimited** (`outbound.py:141`). Raised when the *last* attempt was answered 429, whatever the
   others were; its docstring says every one was.

9. **Rain before whom it suits** (`builder.py:596`, `weather.py:116`). `weather.repair` runs before
   `_attach_source_data` and reads the draft's own `suits`, which is empty unless the model copied it: it
   may replace a member's only stop, against `weather.py:92-93`, and the evaluator sends the plan back
   (`evaluator.py:21-25`). `a.get("suits") or suits` lets a place for nobody replace anyone's.
10. **A way from where nobody went** (`schedule.py:134-141` and 194-197). After a stop the day has no time
    for, the next way is still measured from it, against the docstring's lines 6-8.
11. **Ways out** (`budget_decision.py:84`, `orchestrator.py:858`). A re-plan's capped search that finds
    nothing escalates with nothing left and the reason "more than the whole budget"; `_settle_conflict`
    passes over a picked cheaper hotel, against `trips.py:696-702`; and "increase the budget" leads to the
    same conflict when connecting fares are cheaper than the first search's.
12. **The page** (`page.tsx`, `trips.py:238`, `orchestrator.py:989`). (a) GET /status answered between the
    commit of `failed` and the escalation's row gives a failure without the ways out until a reload. (b)
    `budget_conflict` is not among the events a quiet publisher lets through: the same. (c) A piece of a later
    build with the expected number joins the earlier build's text when its own first pieces were lost.
    (d) A poll's answer, or a late event, of an earlier run claims the outcome of the run just launched. (e)
    A POST that fails sends the page back to what it was. (f) A run that fails between its save's
    commit and its end publishes `planning_failed`; a page that has not yet heard shows that, though the
    plan was saved. (g) `announcedConflict` (`page.tsx:308-325`) is only let go of by `planning_started`: when
    that event of a later run is lost and the run fails for another reason, the earlier run's ways out are
    shown, which POST /replan refuses or takes against the earlier check. (h) A page reloaded, or one that
    gave up, while its POST is under way - POST /refine asks a model before it marks the trip (`trips.py:815-847`) -
    reads the old status, waits for nothing (`page.tsx:199-206`), and passes over the end of the run that begins
    (`page.tsx:240`): it keeps the earlier plan on screen until it is loaded again. (i) The retry of one search
    is offered for as long as a plan is shown (`page.tsx:527`) and refused with 409 once the saved state is gone
    (`trips.py:898-904`).
13. **Embeddings** (`embedder.py:195`, `search.py:13`). "Never produces duplicate rows" and "one result per
    trip" fail when a starting process finds an itinerary owed while its own job has still to end: both
    write. The count of jobs in flight is reset by a starting process under another's.
14. **An earlier plan changed** (`trips.py:839`). When the latest plan's state was not saved or was lost to
    an older one, a targeted change is made to the *earlier* plan and undoes the later one, and `_sync_trip`
    moves the trip's place and dates back. A failed run's place and dates stay on the row though the earlier plan
    stands; /clarify takes the saved state's fields before the trip's own. When the evaluator has
    flights or places searched again, the joined lists are another choice: "keeps the rest" ends there.
15. **Whose rows** (`trips.py:1034`). A run that left no end row (a crash with a plan behind it, a process
    killed after the trip was marked) has its rows counted as the next run's by GET /status.
16. **Preferences overwritten** (`preference_extractor.py:236`). "Can never remove or replace something the
    user already set" and "PUT is a REPLACE" fail when two writers overlap between read (231) and commit (240).
17. **The cost alert** (`run_logger.py:13`). "Logged once": two overlapping runs whose rows are both
    committed before either is added up both warn or neither does; a sum that fails loses it.
18. **Words in two languages** (`language.py:342`). Words kept from an earlier plan stay in that plan's language.
19. **What a change changed** (`changes.ts:164`). `describeChanges` looks at the first stay and flight,
    `changedParts` at every day's: a later day's stay exchanged at the same total is told as no change.
20. **The panel** (`page.tsx:395`, `sse.ts:204`). On a change, polled results are not reset, so a repeated
    search shows its old result until its event or the first poll; a change's POST whose answer is lost
    leaves all three searches carried; a search the evaluator had repeated keeps its carried state; a repeated
    search whose later event is lost shows the earlier; and a poll answered before the run's end and
    arriving after it, or a `refreshProgress` that fails, leaves the panel as it was (`confused`).
21. **The emptied box** (`trips/page.tsx:548`). A search in flight shows its results for the emptied box (`strayed`).
22. **Warmed for nothing** (`warming.py:10-13`). A place or interests typed in another language are warmed
    as typed and planned in English; likewise when preferences change in between or cannot be read.
23. **What a clarification carries** (`trips.py:673`). The saved state's interests include those preferences
    put there, so that an answer naming interests is not read for them; tips made for a sentence that was not
    parsed are kept by a later change; with nothing left for a stay, the hotel search's failure is a
    question for a budget that was given.
24. **The form** (`trips/page.tsx:243`). POST /trips is not idempotent: an answer lost makes the trip twice.
    Names that differ for `toLowerCase` and not for `casefold`, more interests than the trip's limit, a blank
    destination and a day that is over at the server are refused by the server alone.
25. **A traveller's share** (`group.ts:44`, `plan.py:187`, `builder.py:612`). Saved shares divide by the larger
    of the group's size and its members, page and PDF by the size: different when a refinement left the size
    below the members named. A plan whose only located thing is the departure airport has a map on the page
    and none on paper (`map_features`).
26. **The map's tiles** (`static_map.py`). `tile_grid` misses the last pixel column or row when the view's
    corner is in the second half of a pixel; a cut-short tile that `verify()` lets through is kept for a
    week and fails every map of that view; and the cache is written inside the render's deadline.
27. **Sign-in** (`sessions.py`, `api.ts`). A refresh whose answer is lost signs the page out though the
    sign-in is alive; one in flight at a sign-out stores its tokens again; one that overlaps the sign-out on
    the server leaves a token of the ended sign-in; one that takes longer than the grace ends the sign-in.
28. **Counts** (`metrics.py`, `cache.py:141`). A plan saved by a run stopped before it is counted is not
    counted as built; a stop while a run is settled overrides the outcome that was said; an
    unreadable cache entry is a hit and an error; what a dying tool server had not told is lost. A lost
    batch makes a span's children roots of the same trip.
29. **The deep report's deadline** (`admin.py:75-77`, `deep_health.py:137`). "Within ten seconds" rests on
    `asyncio.wait_for`, which waits for what it cancels to let go.
30. **What was said** (`conversation.py:70`, `trips.py:891` and 930). A request right after a plan was
    committed and the run's own last append write over one another: the traveller's words and their turn
    are lost, and the next change has the same turn. A state that was saved though the append after it failed
    (`trips.py:350-352`) outlives the history: a change made on it counts its turn from an empty history and takes
    an earlier run's, since the rows are only asked when the state is gone too (`trips.py:811-814`). A retry of the whole trip takes "Retry the ... search."
    for what the traveller last wrote.

Two facts about limits that are not in a model: `_look_again` looks twenty times, 45 s apart, fifteen
minutes in all, so a run that lives longer than that and then dies is not found until the next start;
and the graph's longest way is 25 nodes, which is also the recursion limit LangGraph long had by
default. The code sets none of its own (`requirements.txt` allows `langgraph>=0.2.0`,
`constraints.txt` pins a version), so whether the longest way fits depends on the library, whose code
is not here.

## 8. Not modelled, and why

- **Registration, passwords, the request limit; log formatting and error reporting; preflight and the admin
  listings; endpoints that only read a row; schema and migrations; deployment, scripts, evaluations, load
  tests**: single statements, pure output, or not part of the running program.
- **Prompts, wording, layout, fonts, the providers' formats**: data the properties do not tell apart; what a
  model replies or a provider answers is one of a few answers that differ in what the code does with them.
- **Travel times and the estimate tool** of the tool server: the flights' pattern once more.
- **Similarity** of embeddings is a given number; **the LangSmith client** is external, as is the map's tile server.
- **Times** in TripRuns and McpClient: deadlines are choices, never durations, except in Outbound. `_look_again`
  is modelled without its limit of twenty times (see the facts above).

## 9. What is left

1. Theorems about what is left of `services`, the traces (TraceTree) and the window of cache look-ups
   (Meters); lemmas about GroupBalance's and Prices' operators.
2. TripRuns composed with TripPage: overlapping runs seen by one page.
3. Travel times in Searches; a day that crosses midnight in Days, should the code allow one.
