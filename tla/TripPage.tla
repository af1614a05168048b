------------------------------ MODULE TripPage ------------------------------
(***************************************************************************)
(* The page of one trip (frontend/src/app/trips/[id]/page.tsx) and what it *)
(* follows: the trip's row and its runs, as the graph's last nodes and     *)
(* _run_orchestrator leave them, step by step; the events of EventStream;  *)
(* and GET /status, which the page asks while it waits.  Either may tell   *)
(* it how a run ended, and neither of the two is sure to be in time.       *)
(*                                                                         *)
(* A plan is the number of the run that saved it, 0 for none.  A request   *)
(* is taken by the server whether its page still waits for it or not.      *)
(* Runs and reloads are bounded.                                           *)
(***************************************************************************)
EXTENDS EventStream

CONSTANTS MaxAsked, MaxReloads    \* (bounds) runs asked for, reloads of the page
ASSUME PageBounds == MaxAsked \in Nat /\ MaxReloads \in Nat

VARIABLES
  trip,     \* the row: [status, plan]
  run,      \* the latest run: [n, step, conflict]
  page,     \* [phase, awaiting, shown, offers, announced, before, loaded]; announced: the run whose conflict
            \* the page was last told of, 0 for none (announcedConflict)
  post,     \* the page's POST: "none", "sent", "begun", "asked", "refused", "failed"
  poll,     \* GET /status: "none", "asked", or what it answered [status, conflict]
  fetching, \* the page has claimed a plan and is loading it
  reloads,
  strays,   \* requests nobody waits for any more, which the server may still take: their page was reloaded,
            \* or has given up on them
  \* for the properties only
  misled,   \* since the page was loaded news of an earlier run was under way when the latest one was asked for,
            \* a request failed on its way, a stray one was taken, or a run failed after it had saved its plan
  hidden    \* the conflict's event was lost, or GET /status answered before its row was there

page_vars == <<stream_vars, trip, run, page, post, poll, fetching, reloads, strays, misled, hidden>>
visits == <<reloads, strays>>
watch == <<misled, hidden>>
\* It is of no interest when the page is misled in any case.
Hides(reason) == hidden \/ (reason /\ ~misled)

Blank == [phase |-> "loading", awaiting |-> FALSE, shown |-> 0, offers |-> FALSE, announced |-> 0,
          before |-> "idle", loaded |-> "none"]
Closed == [Blank EXCEPT !.phase = "closed"]
NoRun == [n |-> 0, step |-> "over", conflict |-> FALSE]
Nothing == [status |-> "none", conflict |-> FALSE]
Asked == [Nothing EXCEPT !.status = "asked"]

PageInit ==
  /\ StreamInit
  /\ trip = [status |-> "pending", plan |-> 0] /\ run = NoRun /\ page = Closed /\ post = "none"
  /\ poll = Nothing /\ fetching = FALSE /\ reloads = 0 /\ strays = 0
  /\ misled = FALSE /\ hidden = FALSE

Running == page.phase \in {"planning", "refining"}
Event(name) == [event |-> name]

----------------------------------------------------------------------------
(* The server.                                                             *)

\* Mutation: a crashed run's trip is left in planning.
NotSettled == trip.status
Fallback == IF trip.plan # 0 THEN "completed" ELSE "failed"
Unseen == UNCHANGED <<page, post, poll, fetching, visits>>
ServerOnly == Unseen /\ UNCHANGED misled

\* GET /status: a conflict is known by its row, and only of a trip that failed.
Answer ==
  [status |-> trip.status,
   conflict |-> trip.status = "failed" /\ run.conflict /\ run.step # "marked"]

\* What the server makes of a request: nothing while the trip is planned; a change of a plan there is; one search
\* tried again while the state of the plan's run is remembered; a way out of the conflict the last run left.
Takes(request, remembered) ==
  /\ trip.status # "planning"
  /\ request = "refine" => trip.plan # 0
  /\ request = "search" => (trip.status = "completed" => remembered)
  /\ request = "replan" => Answer.conflict

\* The trip says planning before anything else happens.  What an earlier run may still do to it is TripRuns':
\* (bound) a page is not reloaded once two have overlapped.
PlanningBegins ==
  /\ trip.status # "planning" /\ run.n < MaxAsked
  /\ trip' = [trip EXCEPT !.status = "planning"]
  /\ run' = [NoRun EXCEPT !.n = run.n + 1, !.step = "works"]
  /\ reloads' = IF run.step # "over" THEN MaxReloads ELSE reloads
  /\ PublishStart(Event("planning_started"))

\* A request is turned away, answered with a question, or begins a run.
TakePost ==
  /\ post = "sent" /\ UNCHANGED <<page, poll, fetching, strays, misled, hidden>>
  /\ \/ /\ trip.status = "planning" \/ (page.before = "complete" /\ ~Takes("search", FALSE))
        /\ post' = "refused"
        /\ UNCHANGED <<trip, run, stream_vars, reloads>>
     \/ /\ trip.status # "planning" /\ trip.plan = 0 /\ post' = "asked"
        /\ UNCHANGED <<trip, run, stream_vars, reloads>>
     \/ PlanningBegins /\ post' = "begun"

\* So may one whose page does not wait for it: only a page that has yet to ask for the trip will know of the run.
TakeStray ==
  /\ strays > 0 /\ strays' = strays - 1 /\ PlanningBegins /\ hidden' = FALSE
  /\ misled' = (misled \/ run.step # "over" \/ page.phase # "loading" \/ page.loaded # "none")
  /\ UNCHANGED <<page, post, poll, fetching>>

\* persist_node: the plan and the status in one commit; merge_node tells the page.
Save ==
  /\ run.step = "works"
  /\ run' = [run EXCEPT !.step = "saved"] /\ trip' = [status |-> "completed", plan |-> run.n]
  /\ UNCHANGED <<hidden, stream_vars>> /\ ServerOnly
TellComplete ==
  /\ run.step = "saved" /\ run' = [run EXCEPT !.step = "learns"]
  /\ Publish(Event("planning_complete"))
  /\ UNCHANGED <<trip, hidden>> /\ ServerOnly

\* extract_preferences_node comes after the page has been told.
Learn ==
  /\ run.step = "learns" /\ run' = [run EXCEPT !.step = "over"]
  /\ UNCHANGED <<trip, hidden, stream_vars>> /\ ServerOnly

\* escalate_node, nothing_found_node, builder_failed_node: the status, then the row that says why,
\* then the events.
MarkFailed ==
  /\ run.step = "works" /\ trip' = [trip EXCEPT !.status = "failed"]
  /\ \E conflict \in BOOLEAN : run' = [run EXCEPT !.step = "marked", !.conflict = conflict]
  /\ UNCHANGED <<hidden, stream_vars>> /\ ServerOnly
LogWhy ==
  /\ run.step = "marked" /\ run' = [run EXCEPT !.step = IF run.conflict THEN "logged" ELSE "announced"]
  /\ UNCHANGED <<trip, hidden, stream_vars>> /\ ServerOnly
TellConflict ==
  /\ run.step = "logged" /\ run' = [run EXCEPT !.step = "announced"]
  /\ Publish([event |-> "budget_conflict", run |-> run.n])
  /\ hidden' = Hides(Len(inbox') = Len(inbox))
  /\ UNCHANGED trip /\ ServerOnly
TellFailed ==
  /\ run.step = "announced" /\ run' = [run EXCEPT !.step = "told"]
  /\ Publish(Event("planning_failed"))
  /\ UNCHANGED <<trip, hidden>> /\ ServerOnly

\* A run that crashed, or is past its deadline, tells the page before anything is written.
Crash ==
  /\ run.step \notin {"told", "over"} /\ run' = [run EXCEPT !.step = "told"]
  /\ Publish(Event("planning_failed"))
  /\ hidden' = Hides(run.step \in {"marked", "logged"})
  /\ misled' = (misled \/ run.step \in {"saved", "learns"})
  /\ UNCHANGED trip /\ Unseen

\* _settle: a standing plan comes back, and a crashed run's trip leaves planning.
Settle ==
  /\ run.step = "told" /\ run' = [run EXCEPT !.step = "over"]
  /\ trip' = [trip EXCEPT !.status = Fallback]
  /\ UNCHANGED <<hidden, stream_vars>> /\ ServerOnly

\* The process is killed: no event, and a trip left in planning is settled by the next one.
Killed ==
  /\ run.step # "over" /\ run' = [run EXCEPT !.step = "over"]
  /\ trip' = [trip EXCEPT !.status = IF @ = "planning" THEN Fallback ELSE @]
  /\ hidden' = Hides(run.step \in {"marked", "logged", "announced"})
  /\ UNCHANGED stream_vars /\ ServerOnly

----------------------------------------------------------------------------
(* The page.                                                               *)

PageOnly == UNCHANGED <<trip, run>>

\* Opening it: the trip first, the plan and the progress after.
LoadTrip ==
  /\ page.phase = "loading" /\ page.loaded = "none" /\ page' = [page EXCEPT !.loaded = trip.status]
  /\ UNCHANGED <<stream_vars, post, poll, fetching, visits, watch>> /\ PageOnly
LoadRest ==
  LET plan == IF page.loaded = "pending" THEN 0 ELSE trip.plan
  IN /\ page.phase = "loading" /\ page.loaded # "none"
     /\ page' = [page EXCEPT
          !.loaded = "none", !.shown = plan, !.awaiting = (page.loaded = "planning"),
          !.phase = CASE page.loaded = "planning" -> IF plan # 0 THEN "refining" ELSE "planning"
                      [] page.loaded # "planning" /\ plan # 0 -> "complete"
                      [] page.loaded = "failed" /\ plan = 0 -> "failed"
                      [] OTHER -> "idle",
          !.offers = page.loaded = "failed" /\ plan = 0 /\ Answer.conflict]
     /\ hidden' = Hides(run.step = "marked")
     /\ UNCHANGED <<stream_vars, post, poll, fetching, visits, misled>> /\ PageOnly

Open ==
  /\ page.phase = "closed" /\ page' = Blank
  /\ UNCHANGED <<stream_vars, post, poll, fetching, visits, watch>> /\ PageOnly

\* Nobody waits for the request any more: it is turned away or never comes, or the server will have it yet.
LeaveRequest == strays' = strays \/ (post = "sent" /\ strays' = strays + 1)

\* The page is left and opened again, with a request of its under way or not: of that it knows no more.
Reload ==
  /\ page.phase \notin {"loading", "closed"} /\ reloads < MaxReloads /\ reloads' = reloads + 1
  /\ LeaveRequest /\ post' = "none"
  /\ page' = Blank /\ poll' = Nothing /\ fetching' = FALSE
  /\ listening' = FALSE /\ inbox' = <<>>
  /\ misled' = FALSE /\ hidden' = FALSE
  /\ UNCHANGED <<quiet, lost>> /\ PageOnly

\* The stage on screen, and what it and the assistant beside it let the traveller ask for.
Stage == IF page.phase = "failed" /\ page.offers THEN "options" ELSE page.phase
Offered ==
  CASE Stage = "idle" -> {"plan"}
    [] Stage = "clarifying" -> {"clarify"}
    [] Stage = "options" -> {"replan", "plan"}
    [] Stage = "failed" -> {"retry", "plan"}
    [] Stage = "complete" -> {"refine", "search"}
    [] OTHER -> {}
\* launch: the outcome is owed from before the POST is sent.
Launch ==
  /\ Offered # {} /\ post = "none" /\ run.n + strays < MaxAsked
  /\ page' = [page EXCEPT !.phase = IF @ = "complete" THEN "refining" ELSE "planning",
                          !.before = page.phase, !.awaiting = TRUE, !.offers = FALSE]
  /\ post' = "sent"
  /\ misled' = (misled \/ inbox # <<>> \/ poll # Nothing \/ run.step # "over") /\ hidden' = FALSE
  /\ UNCHANGED <<quiet, listening, inbox, lost, poll, fetching, visits>> /\ PageOnly

\* It fails on the way there, before the server has taken it, or on the way back after the run has begun.
PostFails ==
  /\ post \in {"sent", "begun"} /\ lost < MaxLost
  /\ post' = "failed" /\ lost' = lost + 1 /\ misled' = TRUE
  /\ LeaveRequest
  /\ UNCHANGED <<quiet, listening, inbox, page, poll, fetching, reloads, hidden>> /\ PageOnly

PostReturns ==
  /\ post \in {"begun", "asked", "refused", "failed"} /\ post' = "none"
  /\ LET launched == [page EXCEPT !.before = "idle"]
     IN page' = CASE post = "begun" -> launched
                  [] post = "asked" -> [launched EXCEPT !.awaiting = FALSE, !.phase = "clarifying"]
                  [] OTHER -> IF trip.status = "planning" THEN launched
                              ELSE [launched EXCEPT !.awaiting = FALSE, !.phase = page.before]
  /\ UNCHANGED <<stream_vars, poll, fetching, visits, watch>> /\ PageOnly

\* finishRun: whoever reports it first, once.
Claimed(p) == [p EXCEPT !.awaiting = FALSE]
FinishWell ==
  IF page.awaiting THEN page' = Claimed(page) /\ fetching' = TRUE ELSE UNCHANGED <<page, fetching>>
FinishBadly(conflict) ==
  /\ UNCHANGED fetching
  /\ page' = IF page.awaiting
             THEN [Claimed(page) EXCEPT !.phase = IF page.shown # 0 THEN "complete" ELSE "failed",
                                        !.offers = IF page.shown = 0 THEN conflict ELSE @]
             ELSE page

HandleEvent ==
  /\ inbox # <<>>
  /\ LET message == Head(inbox)
     IN CASE message.event = "planning_started" ->
                  page' = [page EXCEPT !.announced = 0] /\ UNCHANGED fetching
             [] message.event = "budget_conflict" ->
                  page' = [page EXCEPT !.announced = message.run] /\ UNCHANGED fetching
             [] message.event = "planning_complete" -> FinishWell
             [] message.event = "planning_failed" -> FinishBadly(page.announced # 0)
             [] OTHER -> UNCHANGED <<page, fetching>>
  /\ inbox' = Tail(inbox)
  /\ UNCHANGED <<quiet, listening, lost, post, poll, visits, misled, hidden>> /\ PageOnly

\* The plan is loaded, or cannot be.
PlanLoads ==
  /\ fetching /\ fetching' = FALSE
  /\ \/ page' = [page EXCEPT !.shown = trip.plan, !.phase = "complete"] /\ UNCHANGED <<lost, misled>>
     \/ /\ lost < MaxLost /\ lost' = lost + 1 /\ misled' = TRUE
        /\ page' = [page EXCEPT !.phase = IF page.shown # 0 THEN "complete" ELSE "failed"]
  /\ UNCHANGED <<quiet, listening, inbox, post, poll, visits, hidden>> /\ PageOnly

\* GET /status every three seconds while a run is waited for and no POST is in flight.
PollAsks ==
  /\ Running /\ post = "none" /\ poll = Nothing /\ poll' = Asked
  /\ UNCHANGED <<stream_vars, page, post, fetching, visits, watch>> /\ PageOnly
PollAnswered ==
  /\ poll = Asked /\ poll' = Answer
  /\ hidden' = Hides(run.step = "marked")
  /\ UNCHANGED <<stream_vars, page, post, fetching, visits, misled>> /\ PageOnly
PollReturns ==
  /\ poll \notin {Nothing, Asked} /\ poll' = Nothing
  /\ CASE poll.status = "completed" -> FinishWell
       [] poll.status = "failed" -> FinishBadly(poll.conflict)
       [] OTHER -> UNCHANGED <<page, fetching>>
  /\ UNCHANGED <<stream_vars, post, visits, watch>> /\ PageOnly

StreamAlone ==
  /\ QuietTimePasses \/ StreamBreaks \/ (page.phase \notin {"loading", "closed"} /\ Subscribe)
  /\ UNCHANGED <<trip, run, page, post, poll, fetching, visits, watch>>

RunStep ==
  \/ Save \/ TellComplete \/ Learn \/ MarkFailed \/ LogWhy \/ TellConflict
  \/ TellFailed \/ Crash \/ Settle \/ Killed
PageStep ==
  \/ LoadTrip \/ LoadRest \/ PostReturns \/ HandleEvent \/ PlanLoads
  \/ PollAsks \/ PollAnswered \/ PollReturns
PageNext == TakePost \/ TakeStray \/ RunStep \/ PageStep \/ StreamAlone \/ Launch \/ Open \/ Reload \/ PostFails

\* A run ends (its deadline, its process's death), a request is answered, the browser goes on.
\* Nobody has to ask for anything, and nothing has to be lost.
PageFairness ==
  /\ WF_page_vars(TakePost) /\ WF_page_vars(RunStep) /\ WF_page_vars(LoadTrip) /\ WF_page_vars(LoadRest)
  /\ WF_page_vars(PostReturns) /\ WF_page_vars(PlanLoads)
  /\ WF_page_vars(PollAsks) /\ WF_page_vars(PollAnswered) /\ WF_page_vars(PollReturns)

----------------------------------------------------------------------------
(* Properties.                                                             *)

PageTypeOK ==
  /\ StreamTypeOK
  /\ trip.status \in {"pending", "planning", "completed", "failed"} /\ trip.plan \in 0..run.n
  /\ run.n \in 0..MaxAsked /\ run.conflict \in BOOLEAN
  /\ run.step \in {"works", "saved", "learns", "marked", "logged", "announced", "told", "over"}
  /\ page.phase \in {"closed", "loading", "idle", "planning", "refining", "clarifying", "complete", "failed"}
  /\ page.shown \in 0..run.n
  /\ post \in {"none", "sent", "begun", "asked", "refused", "failed"}
  /\ {fetching, misled, hidden} \subseteq BOOLEAN /\ reloads \in 0..MaxReloads
  /\ run.n + strays \in 0..MaxAsked

AtRest ==
  /\ ~Running /\ page.phase \notin {"loading", "closed"} /\ post = "none" /\ poll = Nothing /\ inbox = <<>>
  /\ ~fetching /\ run.step = "over"

\* When everything has come to rest the page shows what is: the plan there is, or that there is
\* none, and of a budget conflict the ways out.  It may be wrong when the traveller asked for a
\* run while news of an earlier one was under way, or a request failed on its way, or one sent before the page was
\* reloaded was taken after the page had read the trip again, which it then does not follow; and without
\* the ways out when the event that carries them was lost or GET /status answered before their
\* row was written.  And what it lets the traveller ask for is something the server takes, but for
\* the ways out of an earlier run's conflict, which the page forgets by an event that may be lost, and for one search
\* of a plan whose state is no longer remembered, which the page cannot know.
PageShowsWhatIs ==
  AtRest /\ ~misled =>
    /\ page.shown = trip.plan
    /\ page.phase = "complete" <=> trip.plan # 0
    /\ page.phase = "failed" => trip.status = "failed"
    /\ page.phase = "failed" /\ Answer.conflict /\ ~hidden => page.offers
    /\ \A request \in Offered : Takes(request, TRUE) \/ page.announced \notin {0, run.n}

\* Whatever is lost on the stream, a page that waits for a run stops waiting.
PageComesToRest == Running ~> ~Running
=============================================================================
