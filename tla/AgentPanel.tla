----------------------------- MODULE AgentPanel -----------------------------
(***************************************************************************)
(* The searches as the trip page shows them (deriveAgentStates and its     *)
(* siblings in lib/sse.ts, AgentProgressPanel.tsx): each waiting, running, *)
(* completed or failed, with the reason, and a Retry where one could help. *)
(* Two sources say it, the stream's events and GET /status, and a change   *)
(* that repeats one search carries the others' states forward.             *)
(*                                                                         *)
(* A result is [status, retry]: whether a failed search may be run again.  *)
(* A page that may have been misled asks for nothing more here.            *)
(***************************************************************************)
EXTENDS Integers, Sequences, FiniteSets, SequencesExt

CONSTANTS
  PanelAgents,       \* the searches
  MaxRunsShown,      \* (bounds) runs,
  MaxMissed          \* events and answers lost

VARIABLES
  latest,      \* the latest row of each search
  at_work,     \* the run in flight: [n, kind, left, own, on]; `own` the searches it has done
  arriving,    \* what has been published and the browser has not handled
  view,        \* the page: [phase, sending, events, since, carried, polled]
  asking,      \* its GET /status: [at, over, agents], `at` "no", "asked" or "told"
  missed,      \* searches an event of which was lost, and how many things were lost
  confused     \* (for the property) why the page may not know: see the actions

panel_vars == <<latest, at_work, arriving, view, asking, missed, confused>>

NoResult == [status |-> "pending", retry |-> TRUE]
Ended(status) == status \in {"completed", "failed"}
Results == {[status |-> "completed", retry |-> TRUE]} \cup [status : {"failed"}, retry : BOOLEAN]
AllPending == [agent \in PanelAgents |-> NoResult]
NotAsked == [at |-> "no", over |-> FALSE, agents |-> AllPending]
Asked == [NotAsked EXCEPT !.at = "asked"]
NoneCarried == [agent \in {} |-> "pending"]

OfSearch(agent, result) == [agent |-> agent, result |-> result]

\* A page that shows a plan, which it has followed in the making or has loaded.
PanelInit ==
  /\ latest \in [PanelAgents -> Results]
  /\ at_work = [n |-> 1, kind |-> "full", left |-> {}, own |-> {}, on |-> FALSE]
  /\ arriving = <<>> /\ asking = NotAsked /\ missed = [of |-> {}, count |-> 0] /\ confused = FALSE
  /\ \E followed \in {<<>>, SetToSeq({OfSearch(agent, latest[agent]) : agent \in PanelAgents})} :
       view = [phase |-> "complete", sending |-> "no", events |-> followed, since |-> 0, carried |-> NoneCarried,
               polled |-> latest]

----------------------------------------------------------------------------
(* What the panel shows.                                                   *)

\* latestAgentEvents: of this run, or of a search it leaves alone.
latestAgentEvents(agent) ==
  LET its == {i \in DOMAIN view.events : view.events[i].agent = agent /\ (i > view.since \/ agent \in DOMAIN view.carried)}
  IN IF its = {} THEN NoResult ELSE view.events[CHOOSE i \in its : \A j \in its : j <= i].result

Active == view.phase \in {"planning", "refining"}
deriveAgentStates ==
  [agent \in PanelAgents |->
     IF agent \in DOMAIN view.carried THEN view.carried[agent]
     ELSE IF Ended(latestAgentEvents(agent).status) THEN latestAgentEvents(agent).status
     ELSE IF Ended(view.polled[agent].status) THEN view.polled[agent].status
     ELSE IF Active THEN "running" ELSE "pending"]

\* agentFailures, lastingFailures: the live event says why, else GET /status.
WhyFailed(agent) == IF latestAgentEvents(agent).status = "failed" THEN latestAgentEvents(agent) ELSE view.polled[agent]
agentFailures == {agent \in PanelAgents : deriveAgentStates[agent] = "failed"}
lastingFailures == {agent \in agentFailures : ~WhyFailed(agent).retry}
OffersRetry == IF view.phase = "complete" THEN agentFailures \ lastingFailures ELSE {}

----------------------------------------------------------------------------
(* A run and its searches.                                                 *)

Lose(agents) == missed.count < MaxMissed /\ missed' = [of |-> missed.of \cup agents, count |-> missed.count + 1]
Published(event) ==
  \/ arriving' = Append(arriving, event) /\ UNCHANGED missed
  \/ Lose({event.agent} \cap PanelAgents) /\ UNCHANGED arriving
TheEnd == [agent |-> "run", result |-> NoResult]

SearchEnds(agent) ==
  /\ at_work.on /\ agent \in at_work.left
  /\ \E result \in Results : latest' = [latest EXCEPT ![agent] = result] /\ Published(OfSearch(agent, result))
  /\ at_work' = [at_work EXCEPT !.left = @ \ {agent}, !.own = @ \cup {agent}]
  /\ UNCHANGED <<view, asking, confused>>

\* The evaluator sends the plan back for other flights or places, whatever the run was to repeat.
SearchedAgain(agent) ==
  /\ at_work.on /\ at_work.left = {} /\ at_work.n > 1 /\ agent # "hotel_agent" /\ latest[agent].status = "completed"
  /\ LET result == [latest[agent] EXCEPT !.status = "failed"]
     IN latest' = [latest EXCEPT ![agent] = result] /\ Published(OfSearch(agent, result))
  /\ at_work' = [at_work EXCEPT !.own = @ \cup {agent}]
  /\ confused' = (confused \/ at_work.kind \notin {"full", agent})
  /\ UNCHANGED <<view, asking>>

\* It may end, or crash, with searches left.
RunEnds ==
  /\ at_work.on /\ at_work' = [at_work EXCEPT !.on = FALSE, !.left = {}]
  /\ Published(TheEnd)
  /\ UNCHANGED <<latest, view, asking, confused>>

\* GET /status: of a run in flight what it has done; one that repeats a search leaves the others as they were.
progress ==
  [agent \in PanelAgents |->
     IF at_work.on /\ (at_work.kind \in {"full", agent}) /\ agent \notin at_work.own THEN NoResult ELSE latest[agent]]

----------------------------------------------------------------------------
(* The page.                                                               *)

\* launch: a new plan starts every search again; a change keeps what is shown until it is known
\* which search it repeats.
Unfinished == arriving # <<>> \/ asking # NotAsked \/ at_work.on \/ view.sending # "no"
Launch(next) ==
  /\ view.phase = "complete" /\ view.sending = "no" /\ at_work.n < MaxRunsShown /\ ~confused
  /\ view' = IF next = "planning"
             THEN [view EXCEPT !.phase = next, !.sending = "sent", !.events = <<>>, !.since = 0,
                               !.carried = NoneCarried, !.polled = AllPending]
             ELSE [view EXCEPT !.phase = next, !.sending = "sent", !.since = Len(view.events), !.carried = deriveAgentStates]
  \* news of the run before may still come, or the page has not all of it
  /\ confused' = (confused \/ Unfinished)
  /\ missed' = IF next = "planning" THEN [missed EXCEPT !.of = {}] ELSE missed
  /\ UNCHANGED <<latest, at_work, arriving, asking>>

\* The request starts a run: a plan's is of every search, a change's of one or of all.
PostTaken ==
  /\ view.sending = "sent" /\ ~at_work.on /\ view' = [view EXCEPT !.sending = "begun"]
  /\ \E kind \in IF view.phase = "planning" THEN {"full"} ELSE PanelAgents \cup {"full"} :
       at_work' = [n |-> at_work.n + 1, kind |-> kind, on |-> TRUE, own |-> {},
                   left |-> IF kind = "full" THEN PanelAgents ELSE {kind}]
  /\ UNCHANGED <<latest, arriving, asking, missed, confused>>

Without(carried, agent) == [other \in DOMAIN carried \ {agent} |-> carried[other]]
CarriesAll(kind) == IF kind = "full" THEN NoneCarried ELSE view.carried     \* a mutant
repeatOnly(kind) == IF kind = "full" THEN NoneCarried ELSE Without(view.carried, kind)

PostAnswered ==
  /\ view.sending = "begun"
  /\ view' = [view EXCEPT !.sending = "no", !.carried = IF view.phase = "planning" THEN @ ELSE repeatOnly(at_work.kind)]
  /\ UNCHANGED <<latest, at_work, arriving, asking, missed, confused>>
\* It fails on the way back: the page goes on waiting, and never hears which search is repeated.
AnswerLost ==
  /\ view.sending = "begun" /\ at_work.on /\ missed.count < MaxMissed
  /\ missed' = [missed EXCEPT !.count = @ + 1] /\ view' = [view EXCEPT !.sending = "no"]
  /\ confused' = (confused \/ view.phase = "refining")
  /\ UNCHANGED <<latest, at_work, arriving, asking>>

\* finishRun: the panel settles on what GET /status says once the run is over.
Finished == [view EXCEPT !.phase = "complete"]
EventHandled ==
  /\ arriving # <<>> /\ arriving' = Tail(arriving)
  /\ IF Head(arriving) = TheEnd
     THEN /\ view' = IF Active THEN Finished ELSE view
          /\ asking' = IF Active THEN Asked ELSE asking
          \* an answer of before the end that comes after this one is taken for the latest
          /\ confused' = (confused \/ (Active /\ asking # NotAsked))
     ELSE view' = [view EXCEPT !.events = Append(@, Head(arriving))] /\ UNCHANGED <<asking, confused>>
  /\ UNCHANGED <<latest, at_work, missed>>

PollAsked ==
  /\ Active /\ view.sending = "no" /\ asking = NotAsked /\ asking' = Asked
  /\ UNCHANGED <<latest, at_work, arriving, view, missed, confused>>
StatusTold ==
  /\ asking = Asked /\ asking' = [at |-> "told", over |-> ~at_work.on, agents |-> progress]
  /\ UNCHANGED <<latest, at_work, arriving, view, missed, confused>>
\* applyProgress, and the run's end if that is what it says.
ProgressApplied ==
  /\ asking.at = "told"
  /\ LET known == [view EXCEPT !.polled = asking.agents]
         ends == Active /\ asking.over
     IN view' = (IF ends THEN [known EXCEPT !.phase = "complete"] ELSE known) /\ asking' = IF ends THEN Asked ELSE NotAsked
  /\ UNCHANGED <<latest, at_work, arriving, missed, confused>>
AskFails ==
  /\ asking = Asked /\ Lose({}) /\ asking' = NotAsked /\ confused' = (confused \/ ~Active)
  /\ UNCHANGED <<latest, at_work, arriving, view>>

PanelNext ==
  \/ \E agent \in PanelAgents : SearchEnds(agent) \/ SearchedAgain(agent)
  \/ RunEnds \/ Launch("planning") \/ Launch("refining") \/ PostTaken \/ PostAnswered \/ AnswerLost
  \/ EventHandled \/ PollAsked \/ StatusTold \/ ProgressApplied \/ AskFails

----------------------------------------------------------------------------
PanelTypeOK ==
  /\ \A agent \in PanelAgents : latest[agent] \in Results
  /\ at_work.n \in 1..MaxRunsShown /\ view.phase \in {"planning", "refining", "complete"}
  /\ view.since \in 0..Len(view.events) /\ DOMAIN view.carried \subseteq PanelAgents
  /\ missed.count \in 0..MaxMissed

\* Once everything has come in the panel shows each search as it last ended, and a Retry beside just the
\* failed ones it could mend; a search done again of which the later event was lost may show the earlier.
PanelSettles ==
  view.phase = "complete" /\ ~Unfinished /\ ~confused =>
    \A agent \in PanelAgents :
      \/ /\ deriveAgentStates[agent] = latest[agent].status
         /\ agent \in OffersRetry <=> (latest[agent].status = "failed" /\ latest[agent].retry)
      \/ agent \in missed.of /\ \E i \in DOMAIN view.events : i > view.since /\ view.events[i].agent = agent

\* While a run is in flight a search it leaves alone shows what it showed, and a plan made anew shows
\* of no search what an earlier run found.
PanelFollows ==
  Active /\ view.sending = "no" /\ ~confused /\ at_work.on =>
    \A agent \in PanelAgents :
      /\ view.phase = "planning" /\ Ended(deriveAgentStates[agent]) => agent \in at_work.own
      /\ at_work.kind \notin {"full", agent} => deriveAgentStates[agent] \in {latest[agent].status} \/ agent \in missed.of

PanelShowsTrue == PanelSettles /\ PanelFollows
=============================================================================
