-------------------------- MODULE Traveller_proofs --------------------------
(***************************************************************************)
(* What a traveller is shown, told and heard of, for any number of lost    *)
(* messages, reloads, runs, builds, rows and requests: the page that       *)
(* follows a run and the text of a plan in the making, GET /status, and    *)
(* the conversation.                                                       *)
(*                                                                         *)
(* The page shows what is because what is on its way to it - messages,     *)
(* answers, what it loads - never says more than the run has done          *)
(* (PageInv); the text, because pieces wait in the order they were written *)
(* (DraftInv).  The rows of the latest run are those after the last row    *)
(* that ends a run (LogInv).  A turn that a later change has to be above   *)
(* is in the history, or the history is gone with everybody who could      *)
(* count on it, or is of later turns only (TalkInv).                       *)
(***************************************************************************)
EXTENDS MCServices, SequenceTheorems, WellFoundedInduction, TLAPS

----------------------------------------------------------------------------
(* The event stream: what is sent along it and what is taken from it.      *)

\* What is put at the end of a sequence leaves the rest of it where it was.
LEMMA OneMore ==
  ASSUME NEW Elements, NEW s \in Seq(Elements), NEW one \in Elements, NEW more, more = Append(s, one)
  PROVE  /\ more \in Seq(Elements) /\ Len(more) = Len(s) + 1 /\ Len(s) \in Nat /\ more[Len(more)] = one
         /\ \A i \in DOMAIN s : i \in DOMAIN more /\ more[i] = s[i] /\ i # Len(more) /\ i <= Len(s)
         /\ \A i \in DOMAIN more : i \in Nat /\ (i \in DOMAIN s \/ i = Len(more))
  OBVIOUS

\* What follows the first element moves up by one.
LEMMA OneLess ==
  ASSUME NEW Elements, NEW s \in Seq(Elements), s # <<>>, NEW less, less = Tail(s)
  PROVE  /\ less \in Seq(Elements) /\ Head(s) = s[1] /\ 1 \in DOMAIN s /\ s[1] \in Elements
         /\ Len(s) \in Nat /\ Len(less) = Len(s) - 1 /\ (Len(s) = 1 => less = <<>>)
         /\ \A i \in DOMAIN less : i \in Nat /\ i # 0 /\ i + 1 \in DOMAIN s /\ less[i] = s[i + 1]
         /\ \A i \in DOMAIN s : i = 1 \/ (i - 1 \in DOMAIN less /\ less[i - 1] = s[i])
<1>1. /\ less \in Seq(Elements) /\ Head(s) = s[1] /\ 1 \in DOMAIN s /\ s[1] \in Elements
      /\ Len(s) \in Nat /\ Len(less) = Len(s) - 1 /\ DOMAIN s = 1..Len(s) /\ DOMAIN less = 1..Len(less)
      /\ \A i \in DOMAIN less : less[i] = s[i + 1]
  OBVIOUS
<1>2. Len(s) = 1 => less = <<>>
  BY <1>1
<1>3. \A i \in DOMAIN less : i \in Nat /\ i # 0 /\ i + 1 \in DOMAIN s /\ less[i] = s[i + 1]
  BY <1>1
<1>4. ASSUME NEW i \in DOMAIN s, i # 1 PROVE i - 1 \in DOMAIN less /\ less[i - 1] = s[i]
  <2>1. i \in Nat /\ i - 1 \in DOMAIN less /\ (i - 1) + 1 = i
    BY <1>1, <1>4
  <2> QED BY <2>1, <1>1
<1> QED BY <1>1, <1>2, <1>3, <1>4

\* A message sent reaches the inbox at its end or not at all: nobody listens, or it is lost.
LEMMA Sending ==
  ASSUME NEW Elements, inbox \in Seq(Elements), quiet \in BOOLEAN, lost \in 0..MaxLost,
         NEW message \in Elements, Publish(message) \/ PublishStart(message)
  PROVE  /\ listening' = listening /\ quiet' \in BOOLEAN /\ lost' \in 0..MaxLost
         /\ inbox' \in Seq(Elements)
         /\ \/ inbox' = inbox
            \/ /\ listening /\ Len(inbox') = Len(inbox) + 1 /\ Len(inbox) \in Nat /\ inbox'[Len(inbox')] = message
               /\ \A i \in DOMAIN inbox : i \in DOMAIN inbox' /\ inbox'[i] = inbox[i] /\ i # Len(inbox')
                  /\ i <= Len(inbox)
               /\ \A i \in DOMAIN inbox' : i \in Nat /\ (i \in DOMAIN inbox \/ i = Len(inbox'))
<1>1. inbox' = inbox \/ (listening /\ inbox' = Append(inbox, message))
  BY DEF Publish, PublishStart, Delivered
<1>2. /\ listening' = listening /\ (quiet' = quiet \/ quiet' = TRUE \/ quiet' = FALSE)
      /\ lost' = lost \/ (lost < MaxLost /\ lost' = lost + 1)
  BY DEF Publish, PublishStart
<1>3. quiet' \in BOOLEAN
  BY <1>2
<1>4. lost' \in 0..MaxLost
  BY <1>2, StreamBounds
<1>5. CASE inbox' = inbox
  BY <1>2, <1>3, <1>4, <1>5
<1>6. CASE listening /\ inbox' = Append(inbox, message)
  BY <1>2, <1>3, <1>4, <1>6, OneMore
<1> QED BY <1>1, <1>5, <1>6

----------------------------------------------------------------------------
(* The page of a trip, the trip's row and its latest run.                  *)

Messages ==
  [event : {"planning_started", "planning_complete", "planning_failed"}] \cup [event : {"budget_conflict"}, run : Nat]
FailingSteps == {"marked", "logged", "announced"}
PagePhases == {"closed", "loading", "idle", "planning", "refining", "clarifying", "complete", "failed"}
TripRows == [status : {"pending", "planning", "completed", "failed"}, plan : Nat]
RunStates == [n : Nat, step : {"works", "saved", "learns", "told", "over"} \cup FailingSteps, conflict : BOOLEAN]
PageStates ==
  [phase : PagePhases, awaiting : BOOLEAN, shown : Nat, offers : BOOLEAN, announced : Nat,
    before : PagePhases \ {"closed", "loading"},
   loaded : {"none", "pending", "planning", "completed", "failed"}]
PollStates == [status : {"none", "asked", "pending", "planning", "completed", "failed"}, conflict : BOOLEAN]
PageTyped ==
  /\ trip \in TripRows /\ run \in RunStates /\ page \in PageStates /\ poll \in PollStates
  /\ post \in {"none", "sent", "begun", "asked", "refused", "failed"}
  /\ fetching \in BOOLEAN /\ misled \in BOOLEAN /\ hidden \in BOOLEAN
  /\ reloads \in 0..MaxReloads /\ strays \in Nat
  /\ inbox \in Seq(Messages) /\ listening \in BOOLEAN /\ quiet \in BOOLEAN /\ lost \in 0..MaxLost

\* What the trip's row says, from where its latest run stands: a plan there is one it saved or an earlier one; it is
\* marked failed before the reason is written and before anybody is told.
RowOfTheRun ==
  /\ trip.plan <= run.n
  /\ trip.status = "pending" <=> run.n = 0
  /\ run.n = 0 => run.step = "over" /\ trip.plan = 0
  /\ trip.status = "planning" => run.step \in {"works", "told"}
  /\ trip.status = "completed" => trip.plan # 0 /\ run.step \in {"saved", "learns", "told", "over"}
  /\ trip.status = "failed" => trip.plan # run.n /\ run.step \in FailingSteps \cup {"told", "over"}
  /\ run.step = "works" => trip.status = "planning" /\ ~run.conflict
  /\ trip.status = "planning" => trip.plan # run.n /\ ~run.conflict
  /\ run.step \in {"saved", "learns"} => trip.plan = run.n
  /\ run.step \in FailingSteps => trip.status = "failed"
  /\ run.step = "logged" => run.conflict
  /\ run.conflict => trip.plan # run.n /\ (trip.status = "failed" \/ trip.plan # 0)

Away == page.phase \in {"closed", "loading"}
\* A page that is closed or loads the trip waits for nothing; what it has loaded of the trip may be stale, but only as
\* far as the run has gone on since, unless a request of before has begun another.
PageAway ==
  Away =>
    /\ post = "none" /\ poll = Nothing /\ ~fetching /\ ~page.awaiting /\ ~page.offers
    /\ inbox = <<>> /\ ~listening /\ page.announced = 0
    /\ page.phase = "closed" => run.n = 0 /\ strays = 0 /\ page.loaded = "none"
    /\ ~misled =>
         /\ page.loaded = "pending" => trip.status = "pending"
         /\ page.loaded = "planning" =>
              run.n # 0 /\ (run.conflict /\ ~hidden => run.step \notin {"announced", "told", "over"})
         /\ page.loaded = "completed" => trip.plan # 0 /\ run.step \in {"saved", "learns", "told", "over"}
         /\ page.loaded = "failed" =>
              run.n # 0 /\ run.step \in FailingSteps \cup {"told", "over"} /\ (trip.status = "failed" \/ trip.plan # 0)

Straight == ~misled /\ ~Away
\* A page that was not misled awaits the run, or fetches its plan, exactly while it shows a plan in the making; its
\* request was not yet begun, or what it shows is the plan before, and a conflict announced is on its way to it.
PageWaits ==
  Straight =>
    /\ post \in {"none", "sent", "begun", "asked", "refused"}
    /\ Running <=> (page.awaiting \/ fetching)
    /\ ~(page.awaiting /\ fetching)
    /\ post \in {"sent", "asked", "refused"} =>
         page.awaiting /\ inbox = <<>> /\ poll = Nothing /\ run.step = "over" /\ page.shown = trip.plan
    /\ post = "asked" => trip.plan = 0
    /\ post \in {"sent", "refused"} => (page.before = "complete" <=> trip.plan # 0)
    /\ post = "refused" => page.before = "complete"
    /\ page.awaiting /\ post \in {"none", "begun"} =>
         /\ run.n # 0 /\ (page.shown = trip.plan \/ trip.plan = run.n)
         /\ run.conflict /\ ~hidden /\ run.step \in {"announced", "told", "over"} =>
              page.announced = run.n \/ \E i \in DOMAIN inbox : inbox[i].event = "budget_conflict"
    /\ fetching => trip.plan # 0 /\ run.step # "works"

\* Messages not handled yet are of the latest run, and say no more than it has done.
NewsOfTheRun ==
  Straight =>
    /\ page.announced <= run.n
    /\ page.announced = run.n /\ run.n # 0 => run.conflict /\ run.step \in {"announced", "told", "over"}
    /\ \A i \in DOMAIN inbox :
         /\ inbox[i].event = "planning_started" => i = 1 /\ page.announced # run.n
         /\ inbox[i].event = "planning_complete" => run.n # 0 /\ trip.plan = run.n /\ run.step # "works"
         /\ inbox[i].event = "planning_failed" =>
              run.n # 0 /\ trip.plan # run.n /\ run.step \in {"told", "over"} /\ i = Len(inbox)
         /\ inbox[i].event = "budget_conflict" =>
              inbox[i].run = run.n /\ run.n # 0 /\ run.conflict /\ run.step \in {"announced", "told", "over"}

\* An answer of GET /status says no more than the run has done when it was given.
AnswersOfTheRun ==
  Straight =>
    /\ poll.status = "completed" => trip.plan # 0 /\ run.step # "works"
    /\ poll.status = "failed" =>
         /\ run.n # 0 /\ trip.plan # run.n /\ run.step \in FailingSteps \cup {"told", "over"}
         /\ trip.status = "failed" \/ trip.plan # 0
         /\ poll.conflict => run.conflict /\ run.step # "marked"
         /\ run.conflict /\ ~hidden => poll.conflict

\* At rest: what the page shows, and what it offers after a failure, is what the trip's row and its run say.
PageStands ==
  Straight /\ ~Running =>
    /\ run.step # "works" /\ page.shown = trip.plan
    /\ page.phase = "complete" <=> trip.plan # 0
    /\ page.phase = "idle" => trip.status = "pending"
    /\ page.phase = "failed" =>
         /\ run.n # 0 /\ run.step \in FailingSteps \cup {"told", "over"}
         /\ (trip.status = "failed" \/ run.step = "told")
         /\ run.conflict /\ ~hidden => page.offers
         /\ page.offers =>
              \/ run.conflict /\ run.step # "marked"
              \/ page.announced \notin {0, run.n} /\ inbox = <<>> /\ run.step \in {"told", "over"}

PageInv == PageTyped /\ RowOfTheRun /\ PageAway /\ PageWaits /\ NewsOfTheRun /\ AnswersOfTheRun /\ PageStands

\* What is sent to the page.
LEMMA NewsSent ==
  ASSUME PageTyped, NEW message \in Messages, Publish(message) \/ PublishStart(message)
  PROVE  /\ listening' = listening /\ quiet' \in BOOLEAN /\ lost' \in 0..MaxLost
         /\ inbox' \in Seq(Messages)
         /\ \/ inbox' = inbox
            \/ /\ listening /\ Len(inbox') = Len(inbox) + 1 /\ Len(inbox) \in Nat /\ inbox'[Len(inbox')] = message
               /\ \A i \in DOMAIN inbox : i \in DOMAIN inbox' /\ inbox'[i] = inbox[i]
               /\ \A i \in DOMAIN inbox' : i \in DOMAIN inbox \/ i = Len(inbox')
               /\ \A i \in DOMAIN inbox : i # Len(inbox')
  BY Sending DEF PageTyped

\* What the page handles.
LEMMA NewsHandled ==
  ASSUME PageTyped, inbox # <<>>, inbox' = Tail(inbox)
  PROVE  /\ inbox' \in Seq(Messages) /\ Head(inbox) = inbox[1] /\ 1 \in DOMAIN inbox /\ inbox[1] \in Messages
         /\ Len(inbox) \in Nat /\ Len(inbox') = Len(inbox) - 1 /\ (Len(inbox) = 1 => inbox' = <<>>)
         /\ \A i \in DOMAIN inbox' : i \in Nat /\ i # 0 /\ i + 1 \in DOMAIN inbox /\ inbox'[i] = inbox[i + 1]
         /\ \A i \in DOMAIN inbox : i = 1 \/ (i - 1 \in DOMAIN inbox' /\ inbox'[i - 1] = inbox[i])
  BY OneLess DEF PageTyped

\* A page told of a plan leaves off waiting and fetches it, if it waited.
LEMMA FinishingWell ==
  ASSUME page \in PageStates, fetching \in BOOLEAN, FinishWell
  PROVE  /\ page' \in PageStates /\ fetching' \in BOOLEAN
         /\ page'.phase = page.phase /\ page'.shown = page.shown /\ page'.offers = page.offers
         /\ page'.announced = page.announced /\ page'.loaded = page.loaded
         /\ ~page'.awaiting /\ (fetching' <=> fetching \/ page.awaiting)
<1>1. CASE page.awaiting
  BY <1>1 DEF FinishWell, Claimed, PageStates
<1>2. CASE ~page.awaiting
  BY <1>2 DEF FinishWell
<1> QED BY <1>1, <1>2

\* A page told of a failure leaves off waiting, and shows the plan it has or the failure, if it waited.
LEMMA FinishingBadly ==
  ASSUME page \in PageStates, NEW conflict \in BOOLEAN, FinishBadly(conflict)
  PROVE  /\ page' \in PageStates /\ fetching' = fetching
         /\ page'.shown = page.shown /\ page'.announced = page.announced /\ page'.loaded = page.loaded
         /\ ~page'.awaiting
         /\ page.awaiting => /\ page'.phase = (IF page.shown # 0 THEN "complete" ELSE "failed")
                             /\ page.shown = 0 => page'.offers = conflict
         /\ ~page.awaiting => page' = page
<1>1. CASE page.awaiting
  <2>1. page' = [page EXCEPT !.awaiting = FALSE, !.phase = IF page.shown # 0 THEN "complete" ELSE "failed",
                             !.offers = IF page.shown = 0 THEN conflict ELSE @]
    BY <1>1 DEF FinishBadly, Claimed
  <2> QED BY <2>1, <1>1 DEF FinishBadly, PageStates, PagePhases
<1>2. CASE ~page.awaiting
  BY <1>2 DEF FinishBadly
<1> QED BY <1>1, <1>2

\* The steps of the run, one by one.
LEMMA Saves == ASSUME PageInv, Save PROVE PageInv'
<1>1. /\ run.step = "works" /\ run' = [run EXCEPT !.step = "saved"]
      /\ trip' = [status |-> "completed", plan |-> run.n]
      /\ UNCHANGED <<page, post, poll, fetching, reloads, strays, hidden, misled, quiet, listening, inbox, lost>>
  BY DEF Save, ServerOnly, Unseen, visits, stream_vars
<1>2. trip' \in TripRows
  BY <1>1 DEF PageInv, PageTyped, TripRows, RunStates
<1>3. run' \in RunStates
  BY <1>1 DEF PageInv, PageTyped, RunStates
<1>4. PageTyped'
  BY <1>1, <1>2, <1>3 DEF PageInv, PageTyped
<1>5. RowOfTheRun'
  BY <1>1 DEF PageInv, PageTyped, RunStates, FailingSteps, RowOfTheRun
<1>6. PageAway'
  BY <1>1 DEF PageInv, RowOfTheRun, PageAway, Away
<1>7. PageWaits'
  BY <1>1 DEF PageInv, PageWaits, Straight, Away, Running
<1>8. NewsOfTheRun'
  BY <1>1 DEF PageInv, Straight, Away, NewsOfTheRun
<1>9. AnswersOfTheRun'
  BY <1>1 DEF PageInv, FailingSteps, AnswersOfTheRun, Straight, Away
<1>10. PageStands'
  BY <1>1 DEF PageInv, PageStands, Straight, Away, Running
<1> QED BY <1>4, <1>5, <1>6, <1>7, <1>8, <1>9, <1>10 DEF PageInv

LEMMA TellsComplete == ASSUME PageInv, TellComplete PROVE PageInv'
<1>1. /\ run.step = "saved" /\ run' = [run EXCEPT !.step = "learns"] /\ trip' = trip
      /\ Publish([event |-> "planning_complete"])
      /\ UNCHANGED <<page, post, poll, fetching, reloads, strays, misled, hidden>>
  BY DEF TellComplete, ServerOnly, Unseen, visits, stream_vars, Event
<1>2. Messages = [event : {"planning_started", "planning_complete", "planning_failed"}]
      \cup [event : {"budget_conflict"}, run : Nat]
  BY DEF Messages
<1>3. [event |-> "planning_complete"] \in Messages
  BY <1>2
<1>4. /\ listening' = listening /\ quiet' \in BOOLEAN /\ lost' \in 0..MaxLost
      /\ inbox' \in Seq(Messages)
      /\ \/ inbox' = inbox
         \/ /\ listening /\ Len(inbox') = Len(inbox) + 1 /\ Len(inbox) \in Nat
            /\ inbox'[Len(inbox')] = [event |-> "planning_complete"]
            /\ \A i \in DOMAIN inbox : i \in DOMAIN inbox' /\ inbox'[i] = inbox[i]
            /\ \A i \in DOMAIN inbox' : i \in DOMAIN inbox \/ i = Len(inbox')
            /\ \A i \in DOMAIN inbox : i # Len(inbox')
  BY <1>1, <1>3, NewsSent DEF PageInv
<1>5. run' \in RunStates
  BY <1>1, <1>4 DEF PageInv, PageTyped, RunStates
<1>6. PageTyped'
  BY <1>1, <1>4, <1>5 DEF PageInv, PageTyped
<1>7. RowOfTheRun'
  BY <1>1, <1>4 DEF PageInv, FailingSteps, RowOfTheRun
<1>8. PageAway'
  BY <1>1, <1>4 DEF PageInv, FailingSteps, PageAway, Away
<1>9. PageWaits'
  BY <1>1, <1>4 DEF PageInv, PageWaits, Straight, Away, Running
<1>10. NewsOfTheRun'
  BY <1>1, <1>4 DEF PageInv, RowOfTheRun, Straight, Away, NewsOfTheRun
<1>11. AnswersOfTheRun'
  BY <1>1, <1>4 DEF PageInv, FailingSteps, AnswersOfTheRun, Straight, Away
<1>12. PageStands'
  BY <1>1, <1>4 DEF PageInv, FailingSteps, PageStands, Straight, Away, Running
<1> QED BY <1>6, <1>7, <1>8, <1>9, <1>10, <1>11, <1>12 DEF PageInv

LEMMA Learns == ASSUME PageInv, Learn PROVE PageInv'
<1>1. /\ run.step = "learns" /\ run' = [run EXCEPT !.step = "over"] /\ trip' = trip
      /\ UNCHANGED <<page, post, poll, fetching, reloads, strays, hidden, misled, quiet, listening, inbox, lost>>
  BY DEF Learn, ServerOnly, Unseen, visits, stream_vars
<1>2. run' \in RunStates
  BY <1>1 DEF PageInv, PageTyped, RunStates
<1>3. PageTyped'
  BY <1>1, <1>2 DEF PageInv, PageTyped
<1>4. RowOfTheRun'
  BY <1>1 DEF PageInv, FailingSteps, RowOfTheRun
<1>5. PageAway'
  BY <1>1 DEF PageInv, RowOfTheRun, PageAway, Away
<1>6. PageWaits'
  BY <1>1 DEF PageInv, RowOfTheRun, PageWaits, Straight, Away, Running
<1>7. NewsOfTheRun'
  BY <1>1 DEF PageInv, Straight, Away, NewsOfTheRun
<1>8. AnswersOfTheRun'
  BY <1>1 DEF PageInv, AnswersOfTheRun, Straight, Away
<1>9. PageStands'
  BY <1>1 DEF PageInv, PageStands, Straight, Away, Running
<1> QED BY <1>3, <1>4, <1>5, <1>6, <1>7, <1>8, <1>9 DEF PageInv

LEMMA MarksFailed == ASSUME PageInv, MarkFailed PROVE PageInv'
<1>1. /\ run.step = "works" /\ trip' = [trip EXCEPT !.status = "failed"]
      /\ \E conflict \in BOOLEAN : run' = [run EXCEPT !.step = "marked", !.conflict = conflict]
      /\ UNCHANGED <<page, post, poll, fetching, reloads, strays, hidden, misled, quiet, listening, inbox, lost>>
  BY DEF MarkFailed, ServerOnly, Unseen, visits, stream_vars
<1>2. run' \in [n : {run.n}, step : {"marked"}, conflict : BOOLEAN]
  BY <1>1 DEF PageInv, PageTyped, RunStates
<1>3. trip' \in TripRows
  BY <1>1, <1>2 DEF PageInv, PageTyped, TripRows
<1>4. run' \in RunStates
  BY <1>1, <1>2 DEF PageInv, PageTyped, RunStates, FailingSteps
<1>5. PageTyped'
  BY <1>1, <1>2, <1>3, <1>4 DEF PageInv, PageTyped
<1>6. RowOfTheRun'
  BY <1>1, <1>2 DEF PageInv, FailingSteps, RowOfTheRun
<1>7. PageAway'
  BY <1>1, <1>2 DEF PageInv, RowOfTheRun, PageAway, Away
<1>8. PageWaits'
  BY <1>1, <1>2 DEF PageInv, PageWaits, Straight, Away, Running
<1>9. NewsOfTheRun'
  BY <1>1, <1>2 DEF PageInv, Straight, Away, NewsOfTheRun
<1>10. AnswersOfTheRun'
  BY <1>1, <1>2 DEF PageInv, FailingSteps, AnswersOfTheRun, Straight, Away
<1>11. PageStands'
  BY <1>1, <1>2 DEF PageInv, PageStands, Straight, Away, Running
<1> QED BY <1>5, <1>6, <1>7, <1>8, <1>9, <1>10, <1>11 DEF PageInv

LEMMA LogsWhy == ASSUME PageInv, LogWhy PROVE PageInv'
<1>1. /\ run.step = "marked" /\ trip' = trip
      /\ run' = [run EXCEPT !.step = IF run.conflict THEN "logged" ELSE "announced"]
      /\ UNCHANGED <<page, post, poll, fetching, reloads, strays, hidden, misled, quiet, listening, inbox, lost>>
  BY DEF LogWhy, ServerOnly, Unseen, visits, stream_vars
<1>2. run' \in RunStates
  BY <1>1 DEF PageInv, PageTyped, RunStates, FailingSteps
<1>3. PageTyped'
  BY <1>1, <1>2 DEF PageInv, PageTyped
<1>4. RowOfTheRun'
  BY <1>1 DEF PageInv, FailingSteps, RowOfTheRun
<1>5. PageAway'
  BY <1>1 DEF PageInv, FailingSteps, PageAway, Away
<1>6. PageWaits'
  BY <1>1 DEF PageInv, PageWaits, Straight, Away, Running
<1>7. NewsOfTheRun'
  BY <1>1 DEF PageInv, Straight, Away, NewsOfTheRun
<1>8. AnswersOfTheRun'
  BY <1>1 DEF PageInv, FailingSteps, AnswersOfTheRun, Straight, Away
<1>9. PageStands'
  BY <1>1 DEF PageInv, FailingSteps, PageStands, Straight, Away, Running
<1> QED BY <1>3, <1>4, <1>5, <1>6, <1>7, <1>8, <1>9 DEF PageInv

LEMMA TellsConflict == ASSUME PageInv, TellConflict PROVE PageInv'
<1>1. /\ run.step = "logged" /\ run' = [run EXCEPT !.step = "announced"] /\ trip' = trip
      /\ hidden' = (hidden \/ (Len(inbox') = Len(inbox) /\ ~misled))
      /\ Publish([event |-> "budget_conflict", run |-> run.n])
      /\ UNCHANGED <<page, post, poll, fetching, reloads, strays, misled>>
  BY DEF TellConflict, ServerOnly, Unseen, visits, stream_vars, Hides
<1>2. Messages = [event : {"planning_started", "planning_complete", "planning_failed"}]
      \cup [event : {"budget_conflict"}, run : Nat]
  BY DEF Messages
<1>3. [event |-> "budget_conflict", run |-> run.n] \in Messages
  BY <1>2 DEF PageInv, PageTyped, RunStates
<1>4. /\ listening' = listening /\ quiet' \in BOOLEAN /\ lost' \in 0..MaxLost
      /\ inbox' \in Seq(Messages)
      /\ \/ inbox' = inbox
         \/ /\ listening /\ Len(inbox') = Len(inbox) + 1 /\ Len(inbox) \in Nat
            /\ inbox'[Len(inbox')] = [event |-> "budget_conflict", run |-> run.n]
            /\ \A i \in DOMAIN inbox : i \in DOMAIN inbox' /\ inbox'[i] = inbox[i]
            /\ \A i \in DOMAIN inbox' : i \in DOMAIN inbox \/ i = Len(inbox')
            /\ \A i \in DOMAIN inbox : i # Len(inbox')
  BY <1>1, <1>3, NewsSent DEF PageInv
<1>5. inbox' = inbox \/ inbox'[Len(inbox')].run = run.n
  BY <1>4
<1>6. run' \in RunStates
  BY <1>1, <1>4 DEF PageInv, PageTyped, RunStates, FailingSteps
<1>7. PageTyped'
  BY <1>1, <1>4, <1>6 DEF PageInv, PageTyped
<1>8. RowOfTheRun'
  BY <1>1, <1>4 DEF PageInv, FailingSteps, RowOfTheRun
<1>9. PageAway'
  BY <1>1, <1>4 DEF PageInv, PageTyped, RunStates, FailingSteps, PageAway, Away
<1>10. PageWaits'
  BY <1>1, <1>4 DEF PageInv, PageTyped, RunStates, PageWaits, Straight, Away, Running
<1>11. NewsOfTheRun'
  BY <1>1, <1>4, <1>5 DEF PageInv, RowOfTheRun, Straight, Away, NewsOfTheRun
<1>12. AnswersOfTheRun'
  BY <1>1, <1>4 DEF PageInv, PageTyped, FailingSteps, AnswersOfTheRun, Straight, Away
<1>13. PageStands'
  BY <1>1, <1>4 DEF PageInv, PageTyped, FailingSteps, PageStands, Straight, Away, Running
<1> QED BY <1>7, <1>8, <1>9, <1>10, <1>11, <1>12, <1>13 DEF PageInv

LEMMA TellsFailed == ASSUME PageInv, TellFailed PROVE PageInv'
<1>1. /\ run.step = "announced" /\ run' = [run EXCEPT !.step = "told"] /\ trip' = trip
      /\ Publish([event |-> "planning_failed"])
      /\ UNCHANGED <<page, post, poll, fetching, reloads, strays, misled, hidden>>
  BY DEF TellFailed, ServerOnly, Unseen, visits, stream_vars, Event
<1>2. Messages = [event : {"planning_started", "planning_complete", "planning_failed"}]
      \cup [event : {"budget_conflict"}, run : Nat]
  BY DEF Messages
<1>3. [event |-> "planning_failed"] \in Messages
  BY <1>2
<1>4. /\ listening' = listening /\ quiet' \in BOOLEAN /\ lost' \in 0..MaxLost
      /\ inbox' \in Seq(Messages)
      /\ \/ inbox' = inbox
         \/ /\ listening /\ Len(inbox') = Len(inbox) + 1 /\ Len(inbox) \in Nat
            /\ inbox'[Len(inbox')] = [event |-> "planning_failed"]
            /\ \A i \in DOMAIN inbox : i \in DOMAIN inbox' /\ inbox'[i] = inbox[i]
            /\ \A i \in DOMAIN inbox' : i \in DOMAIN inbox \/ i = Len(inbox')
            /\ \A i \in DOMAIN inbox : i # Len(inbox')
  BY <1>1, <1>3, NewsSent DEF PageInv
<1>5. run' \in RunStates
  BY <1>1, <1>4 DEF PageInv, PageTyped, RunStates
<1>6. PageTyped'
  BY <1>1, <1>4, <1>5 DEF PageInv, PageTyped
<1>7. RowOfTheRun'
  BY <1>1, <1>4 DEF PageInv, FailingSteps, RowOfTheRun
<1>8. PageAway'
  BY <1>1, <1>4 DEF PageInv, PageAway, Away
<1>9. PageWaits'
  BY <1>1, <1>4 DEF PageInv, PageWaits, Straight, Away, Running
<1>10. NewsOfTheRun'
  BY <1>1, <1>4 DEF PageInv, FailingSteps, RowOfTheRun, Straight, Away, NewsOfTheRun
<1>11. AnswersOfTheRun'
  BY <1>1, <1>4 DEF PageInv, AnswersOfTheRun, Straight, Away
<1>12. PageStands'
  BY <1>1, <1>4 DEF PageInv, PageStands, Straight, Away, Running
<1> QED BY <1>6, <1>7, <1>8, <1>9, <1>10, <1>11, <1>12 DEF PageInv

LEMMA Crashes == ASSUME PageInv, Crash PROVE PageInv'
<1>1. /\ run.step \notin {"told", "over"} /\ run' = [run EXCEPT !.step = "told"] /\ trip' = trip
      /\ hidden' = (hidden \/ (run.step \in {"marked", "logged"} /\ ~misled))
      /\ misled' = (misled \/ run.step \in {"saved", "learns"})
      /\ Publish([event |-> "planning_failed"]) /\ UNCHANGED <<page, post, poll, fetching, reloads, strays>>
  BY DEF Crash, ServerOnly, Unseen, visits, stream_vars, Event, Hides
<1>2. Messages = [event : {"planning_started", "planning_complete", "planning_failed"}]
      \cup [event : {"budget_conflict"}, run : Nat]
  BY DEF Messages
<1>3. [event |-> "planning_failed"] \in Messages
  BY <1>2
<1>4. /\ listening' = listening /\ quiet' \in BOOLEAN /\ lost' \in 0..MaxLost
      /\ inbox' \in Seq(Messages)
      /\ \/ inbox' = inbox
         \/ /\ listening /\ Len(inbox') = Len(inbox) + 1 /\ Len(inbox) \in Nat
            /\ inbox'[Len(inbox')] = [event |-> "planning_failed"]
            /\ \A i \in DOMAIN inbox : i \in DOMAIN inbox' /\ inbox'[i] = inbox[i]
            /\ \A i \in DOMAIN inbox' : i \in DOMAIN inbox \/ i = Len(inbox')
            /\ \A i \in DOMAIN inbox : i # Len(inbox')
  BY <1>1, <1>3, NewsSent DEF PageInv
<1>5. run' \in RunStates
  BY <1>1, <1>4 DEF PageInv, PageTyped, RunStates
<1>6. PageTyped'
  BY <1>1, <1>4, <1>5 DEF PageInv, PageTyped
<1>7. RowOfTheRun'
  BY <1>1, <1>4 DEF PageInv, FailingSteps, RowOfTheRun
<1>8. PageAway'
  BY <1>1, <1>4 DEF PageInv, PageTyped, RunStates, FailingSteps, RowOfTheRun, PageAway, Away
<1>9. PageWaits'
  BY <1>1, <1>4 DEF PageInv, PageTyped, RunStates, FailingSteps, RowOfTheRun, PageWaits, Straight, Away, Running
<1>10. NewsOfTheRun'
  BY <1>1, <1>4 DEF PageInv, PageTyped, RunStates, RowOfTheRun, Straight, Away, NewsOfTheRun
<1>11. AnswersOfTheRun'
  BY <1>1, <1>4 DEF PageInv, PageTyped, AnswersOfTheRun, Straight, Away
<1>12. PageStands'
  BY <1>1, <1>4 DEF PageInv, PageTyped, PageStands, Straight, Away, Running
<1> QED BY <1>6, <1>7, <1>8, <1>9, <1>10, <1>11, <1>12 DEF PageInv

LEMMA Settles == ASSUME PageInv, Settle PROVE PageInv'
<1>1. /\ run.step = "told" /\ run' = [run EXCEPT !.step = "over"]
      /\ trip' = [trip EXCEPT !.status = IF trip.plan # 0 THEN "completed" ELSE "failed"]
      /\ UNCHANGED <<page, post, poll, fetching, reloads, strays, hidden, misled, quiet, listening, inbox, lost>>
  BY DEF Settle, ServerOnly, Unseen, visits, stream_vars, Fallback
<1>2. trip' \in TripRows
  BY <1>1 DEF PageInv, PageTyped, TripRows
<1>3. run' \in RunStates
  BY <1>1 DEF PageInv, PageTyped, RunStates
<1>4. PageTyped'
  BY <1>1, <1>2, <1>3 DEF PageInv, PageTyped
<1>5. RowOfTheRun'
  BY <1>1 DEF PageInv, FailingSteps, RowOfTheRun
<1>6. PageAway'
  BY <1>1 DEF PageInv, RowOfTheRun, PageAway, Away
<1>7. PageWaits'
  BY <1>1 DEF PageInv, PageWaits, Straight, Away, Running
<1>8. NewsOfTheRun'
  BY <1>1 DEF PageInv, Straight, Away, NewsOfTheRun
<1>9. AnswersOfTheRun'
  BY <1>1 DEF PageInv, AnswersOfTheRun, Straight, Away
<1>10. PageStands'
  BY <1>1 DEF PageInv, RowOfTheRun, PageStands, Straight, Away, Running
<1> QED BY <1>4, <1>5, <1>6, <1>7, <1>8, <1>9, <1>10 DEF PageInv

LEMMA Dies == ASSUME PageInv, Killed PROVE PageInv'
<1>1. /\ run.step # "over" /\ run' = [run EXCEPT !.step = "over"]
      /\ trip' = [trip EXCEPT !.status = IF @ = "planning" THEN IF trip.plan # 0 THEN "completed" ELSE "failed" ELSE @]
      /\ hidden' = (hidden \/ (run.step \in {"marked", "logged", "announced"} /\ ~misled))
      /\ UNCHANGED <<page, post, poll, fetching, reloads, strays, misled, quiet, listening, inbox, lost>>
  BY DEF Killed, ServerOnly, Unseen, visits, stream_vars, Fallback, Hides
<1>2. trip' \in TripRows
  BY <1>1 DEF PageInv, PageTyped, TripRows
<1>3. run' \in RunStates
  BY <1>1 DEF PageInv, PageTyped, RunStates
<1>4. PageTyped'
  BY <1>1, <1>2, <1>3 DEF PageInv, PageTyped
<1>5. RowOfTheRun'
  BY <1>1 DEF PageInv, FailingSteps, RowOfTheRun
<1>6. PageAway'
  BY <1>1 DEF PageInv, PageTyped, RunStates, FailingSteps, RowOfTheRun, PageAway, Away
<1>7. PageWaits'
  BY <1>1 DEF PageInv, PageTyped, RunStates, FailingSteps, RowOfTheRun, PageWaits, Straight, Away, Running
<1>8. NewsOfTheRun'
  BY <1>1 DEF PageInv, Straight, Away, NewsOfTheRun
<1>9. AnswersOfTheRun'
  BY <1>1 DEF PageInv, PageTyped, AnswersOfTheRun, Straight, Away
<1>10. PageStands'
  BY <1>1 DEF PageInv, PageTyped, TripRows, RowOfTheRun, PageStands, Straight, Away, Running
<1> QED BY <1>4, <1>5, <1>6, <1>7, <1>8, <1>9, <1>10 DEF PageInv

\* The steps of the page, one by one.
LEMMA LoadsTrip == ASSUME PageInv, LoadTrip PROVE PageInv'
<1>1. /\ page.phase = "loading" /\ page.loaded = "none" /\ page' = [page EXCEPT !.loaded = trip.status]
      /\ UNCHANGED <<trip, run, post, poll, fetching, reloads, strays, misled, hidden, quiet, listening, inbox, lost>>
  BY DEF LoadTrip, PageOnly, watch, visits, stream_vars
<1>2. page' \in PageStates
  BY <1>1 DEF PageInv, PageTyped, TripRows, PageStates
<1>3. PageTyped'
  BY <1>1, <1>2 DEF PageInv, PageTyped
<1>4. RowOfTheRun'
  BY <1>1 DEF PageInv, RowOfTheRun
<1>5. PageAway'
  BY <1>1 DEF PageInv, RowOfTheRun, PageAway, Away
<1>6. PageWaits'
  BY <1>1 DEF PageInv, PageWaits, Straight, Away
<1>7. NewsOfTheRun'
  BY <1>1 DEF PageInv, Straight, Away, NewsOfTheRun
<1>8. AnswersOfTheRun'
  BY <1>1 DEF PageInv, AnswersOfTheRun, Straight, Away
<1>9. PageStands'
  BY <1>1 DEF PageInv, PageStands, Straight, Away
<1> QED BY <1>3, <1>4, <1>5, <1>6, <1>7, <1>8, <1>9 DEF PageInv

LEMMA Opens == ASSUME PageInv, Open PROVE PageInv'
<1>1. /\ page.phase = "closed" /\ page' = Blank
      /\ UNCHANGED <<trip, run, post, poll, fetching, reloads, strays, misled, hidden, quiet, listening, inbox, lost>>
  BY DEF Open, PageOnly, watch, visits, stream_vars
<1>2. page' \in PageStates
  BY <1>1 DEF PageInv, PageStates, PagePhases, Blank
<1>3. PageTyped'
  BY <1>1, <1>2 DEF PageInv, PageTyped
<1>4. RowOfTheRun'
  BY <1>1 DEF PageInv, RowOfTheRun, Blank
<1>5. PageAway'
  BY <1>1 DEF PageInv, PageAway, Away, Blank
<1>6. PageWaits'
  BY <1>1 DEF PageInv, PageWaits, Straight, Away, Blank
<1>7. NewsOfTheRun'
  BY <1>1 DEF PageInv, Straight, Away, Blank, NewsOfTheRun
<1>8. AnswersOfTheRun'
  BY <1>1 DEF PageInv, AnswersOfTheRun, Straight, Away, Blank
<1>9. PageStands'
  BY <1>1 DEF PageInv, PageStands, Straight, Away, Blank
<1> QED BY <1>3, <1>4, <1>5, <1>6, <1>7, <1>8, <1>9 DEF PageInv

LEMMA Reloading == ASSUME PageInv, Reload PROVE PageInv'
<1>1. /\ page.phase \notin {"loading", "closed"} /\ post' = "none"
      /\ page' = Blank /\ poll' = Nothing /\ fetching' = FALSE /\ listening' = FALSE /\ inbox' = <<>>
      /\ misled' = FALSE /\ hidden' = FALSE
      /\ UNCHANGED <<trip, run, quiet, lost>>
  BY DEF Reload, PageOnly
<1>2. reloads' \in 0..MaxReloads /\ strays' \in Nat
  BY PageBounds DEF PageInv, PageTyped, Reload, LeaveRequest
<1>3. inbox' \in Seq(Messages)
  BY <1>1
<1>4. page' \in PageStates
  BY <1>1 DEF PageInv, PageStates, PagePhases, Blank
<1>5. poll' \in PollStates
  BY <1>1 DEF PageInv, PollStates, Blank, Nothing
<1>6. PageTyped'
  BY <1>1, <1>4, <1>5, <1>2, <1>3 DEF PageInv, PageTyped
<1>7. RowOfTheRun'
  BY <1>1 DEF PageInv, RowOfTheRun, Blank
<1>8. PageAway'
  BY <1>1 DEF PageInv, PageAway, Blank
<1>9. PageWaits'
  BY <1>1 DEF PageInv, PageWaits, Running, Blank
<1>10. NewsOfTheRun'
  BY <1>1 DEF PageInv, PageTyped, RunStates, Blank, NewsOfTheRun
<1>11. AnswersOfTheRun'
  BY <1>1 DEF PageInv, AnswersOfTheRun, Straight, Away, Blank
<1>12. PageStands'
  BY <1>1 DEF PageInv, PageStands, Straight, Away, Blank
<1> QED BY <1>6, <1>7, <1>8, <1>9, <1>10, <1>11, <1>12 DEF PageInv

LEMMA Launching == ASSUME PageInv, Launch PROVE PageInv'
<1>1. /\ ~Running /\ ~Away /\ post = "none"
      /\ page' = [page EXCEPT !.phase = IF @ = "complete" THEN "refining" ELSE "planning", !.before = page.phase,
                               !.awaiting = TRUE, !.offers = FALSE]
      /\ post' = "sent" /\ hidden' = FALSE
      /\ misled' = (misled \/ inbox # <<>> \/ poll # Nothing \/ run.step # "over")
      /\ UNCHANGED <<trip, run, poll, fetching, reloads, strays, quiet, listening, inbox, lost>>
  BY DEF Launch, PageOnly, watch, visits, stream_vars, Offered, Stage, Running, Away
<1>2. /\ page'.phase \in {"planning", "refining"} /\ page'.awaiting = TRUE /\ page'.offers = FALSE
      /\ page'.shown = page.shown
      /\ page'.announced = page.announced /\ page'.loaded = page.loaded /\ page'.before = page.phase
      /\ page' \in [phase : {"planning", "refining"}, awaiting : {TRUE}, shown : {page.shown}, offers : {FALSE},
         announced : {page.announced}, before : {page.phase}, loaded : {page.loaded}]
  BY <1>1 DEF PageInv, PageTyped, PageStates
<1>3. page' \in PageStates
  BY <1>1, <1>2 DEF PageInv, PageTyped, PageStates, PagePhases, Away
<1>4. PageTyped'
  BY <1>1, <1>2, <1>3 DEF PageInv, PageTyped
<1>5. RowOfTheRun'
  BY <1>1, <1>2 DEF PageInv, RowOfTheRun
<1>6. PageAway'
  BY <1>1, <1>2 DEF PageInv, PageAway, Away
<1>7. PageWaits'
  BY <1>1, <1>2 DEF PageInv, PageWaits, Straight, Running, PageStands
<1>8. NewsOfTheRun'
  BY <1>1, <1>2 DEF PageInv, PageTyped, Straight, NewsOfTheRun
<1>9. AnswersOfTheRun'
  BY <1>1, <1>2 DEF PageInv, PageTyped, AnswersOfTheRun, Straight, Nothing
<1>10. PageStands'
  BY <1>1, <1>2 DEF PageInv, PageStands, Running
<1> QED BY <1>4, <1>5, <1>6, <1>7, <1>8, <1>9, <1>10 DEF PageInv

LEMMA PostFailing == ASSUME PageInv, PostFails PROVE PageInv'
<1>1. /\ post \in {"sent", "begun"} /\ lost < MaxLost /\ post' = "failed" /\ lost' = lost + 1 /\ misled' = TRUE
      /\ UNCHANGED <<trip, run, page, poll, fetching, reloads, hidden, quiet, listening, inbox>>
      /\ strays' = strays \/ strays' = strays + 1
  BY DEF PostFails, PageOnly, LeaveRequest
<1>2. PageTyped'
  BY <1>1, StreamBounds DEF PageInv, PageTyped
<1>3. RowOfTheRun'
  BY <1>1, StreamBounds DEF PageInv, RowOfTheRun
<1>4. PageAway'
  BY <1>1, StreamBounds DEF PageInv, PageAway, Away
<1>5. PageWaits'
  BY <1>1, StreamBounds DEF PageInv, PageWaits, Straight
<1>6. NewsOfTheRun'
  BY <1>1, StreamBounds DEF PageInv, Straight, NewsOfTheRun
<1>7. AnswersOfTheRun'
  BY <1>1, StreamBounds DEF PageInv, AnswersOfTheRun, Straight
<1>8. PageStands'
  BY <1>1, StreamBounds DEF PageInv, PageStands, Straight
<1> QED BY <1>2, <1>3, <1>4, <1>5, <1>6, <1>7, <1>8 DEF PageInv

LEMMA PollAsking == ASSUME PageInv, PollAsks PROVE PageInv'
<1>1. /\ Running /\ post = "none" /\ poll = Nothing /\ poll' = Asked
      /\ UNCHANGED <<trip, run, page, post, fetching, reloads, strays, misled, hidden, quiet, listening, inbox, lost>>
  BY DEF PollAsks, PageOnly, watch, visits, stream_vars
<1>2. poll' = [status |-> "asked", conflict |-> FALSE]
  BY <1>1 DEF Asked, Nothing
<1>3. poll' \in PollStates
  BY <1>1, <1>2 DEF PageInv, PollStates
<1>4. PageTyped'
  BY <1>1, <1>2, <1>3 DEF PageInv, PageTyped
<1>5. RowOfTheRun'
  BY <1>1, <1>2 DEF PageInv, RowOfTheRun, Asked
<1>6. PageAway'
  BY <1>1, <1>2 DEF PageInv, PageAway, Away, Asked, Running
<1>7. PageWaits'
  BY <1>1, <1>2 DEF PageInv, PageWaits, Straight, Away, Running, Asked
<1>8. NewsOfTheRun'
  BY <1>1, <1>2 DEF PageInv, Straight, Away, Asked, NewsOfTheRun
<1>9. AnswersOfTheRun'
  BY <1>1, <1>2 DEF PageInv, AnswersOfTheRun, Asked
<1>10. PageStands'
  BY <1>1, <1>2 DEF PageInv, PageStands, Running, Asked
<1> QED BY <1>4, <1>5, <1>6, <1>7, <1>8, <1>9, <1>10 DEF PageInv

LEMMA PollAnswering == ASSUME PageInv, PollAnswered PROVE PageInv'
<1>1. /\ poll = Asked
      /\ poll' = [status |-> trip.status, conflict |-> trip.status = "failed" /\ run.conflict /\ run.step # "marked"]
      /\ hidden' = (hidden \/ (run.step = "marked" /\ ~misled))
      /\ UNCHANGED <<trip, run, page, post, fetching, reloads, strays, misled, quiet, listening, inbox, lost>>
  BY DEF PollAnswered, PageOnly, watch, visits, stream_vars, Answer, Hides
<1>2. poll' \in PollStates
  BY <1>1 DEF PageInv, PageTyped, TripRows, PollStates
<1>3. PageTyped'
  BY <1>1, <1>2 DEF PageInv, PageTyped, Asked
<1>4. RowOfTheRun'
  BY <1>1 DEF PageInv, RowOfTheRun, Asked
<1>5. PageAway'
  BY <1>1 DEF PageInv, PageAway, Away, Nothing, Asked
<1>6. PageWaits'
  BY <1>1 DEF PageInv, PageWaits, Straight, Away, Running, Nothing, Asked
<1>7. NewsOfTheRun'
  BY <1>1 DEF PageInv, Straight, Away, Asked, NewsOfTheRun
<1>8. AnswersOfTheRun'
  BY <1>1 DEF PageInv, RowOfTheRun, AnswersOfTheRun, Straight, Asked
<1>9. PageStands'
  BY <1>1 DEF PageInv, PageStands, Straight, Away, Running, Asked
<1> QED BY <1>3, <1>4, <1>5, <1>6, <1>7, <1>8, <1>9 DEF PageInv

LEMMA LoadsRest == ASSUME PageInv, LoadRest PROVE PageInv'
<1>1. /\ page.phase = "loading" /\ page.loaded # "none"
      /\ \E there \in {0, trip.plan} :
           /\ there = IF page.loaded = "pending" THEN 0 ELSE trip.plan
           /\ page' = [page EXCEPT
                !.loaded = "none", !.shown = there, !.awaiting = (page.loaded = "planning"),
                !.phase = IF page.loaded = "planning" THEN IF there # 0 THEN "refining" ELSE "planning"
                          ELSE IF there # 0 THEN "complete" ELSE IF page.loaded = "failed" THEN "failed" ELSE "idle",
                !.offers = page.loaded = "failed" /\ there = 0 /\ trip.status = "failed" /\ run.conflict
                  /\ run.step # "marked"]
      /\ hidden' = (hidden \/ (run.step = "marked" /\ ~misled))
      /\ UNCHANGED <<trip, run, post, poll, fetching, reloads, strays, misled, quiet, listening, inbox, lost>>
  BY DEF LoadRest, PageOnly, watch, visits, stream_vars, Answer, Hides
<1>2. PICK there \in {0, trip.plan} :
       /\ there = IF page.loaded = "pending" THEN 0 ELSE trip.plan
       /\ page' = [page EXCEPT
            !.loaded = "none", !.shown = there, !.awaiting = (page.loaded = "planning"),
            !.phase = IF page.loaded = "planning" THEN IF there # 0 THEN "refining" ELSE "planning"
                      ELSE IF there # 0 THEN "complete" ELSE IF page.loaded = "failed" THEN "failed" ELSE "idle",
            !.offers = page.loaded = "failed" /\ there = 0 /\ trip.status = "failed" /\ run.conflict
              /\ run.step # "marked"]
  BY <1>1
<1>3. /\ page' \in [phase : {"refining", "planning", "complete", "failed", "idle"}, awaiting : BOOLEAN, shown : {0,
         trip.plan}, offers : BOOLEAN, announced : {page.announced}, before : {page.before}, loaded : {"none"}]
      /\ page'.shown = IF page.loaded = "pending" THEN 0 ELSE trip.plan
      /\ page'.awaiting <=> page.loaded = "planning"
      /\ page'.phase = IF page.loaded = "planning" THEN IF page'.shown # 0 THEN "refining" ELSE "planning"
                       ELSE IF page'.shown # 0 THEN "complete" ELSE IF page.loaded = "failed" THEN "failed" ELSE "idle"
      /\ page'.offers <=> page.loaded = "failed" /\ page'.shown = 0 /\ trip.status = "failed" /\ run.conflict
         /\ run.step # "marked"
  BY <1>2 DEF PageInv, PageTyped, PageStates
<1>4. page' \in PageStates
  BY <1>1, <1>3 DEF PageInv, PageTyped, TripRows, PageStates, PagePhases
<1>5. PageTyped'
  BY <1>1, <1>3, <1>4 DEF PageInv, PageTyped
<1>6. RowOfTheRun'
  BY <1>1, <1>3 DEF PageInv, RowOfTheRun
<1>7. PageAway'
  BY <1>1, <1>3 DEF PageInv, PageAway, Away
<1>8. PageWaits'
  BY <1>1, <1>3 DEF PageInv, PageWaits, Straight, Away, Running, PageAway
<1>9. NewsOfTheRun'
  BY <1>1, <1>3 DEF PageInv, PageTyped, RunStates, Straight, PageAway, NewsOfTheRun
<1>10. AnswersOfTheRun'
  BY <1>1, <1>3 DEF PageInv, PageTyped, AnswersOfTheRun, Straight, PageAway, Nothing
<1>11. PageStands'
  <2> SUFFICES ASSUME Straight', ~Running' PROVE PageStands'
    BY DEF PageStands
  <2>1. /\ page.loaded \in {"pending", "completed", "failed"} /\ ~misled
        /\ UNCHANGED <<trip, run>> /\ (~hidden' => run.step # "marked")
    BY <1>1, <1>3 DEF PageInv, PageTyped, PageStates, Straight, Running
  <2>2. /\ page.loaded = "pending" => trip.status = "pending"
        /\ page.loaded = "completed" => trip.plan # 0 /\ run.step \in {"saved", "learns", "told", "over"}
        /\ page.loaded = "failed" =>
             run.n # 0 /\ run.step \in FailingSteps \cup {"told", "over"} /\ (trip.status = "failed" \/ trip.plan # 0)
    BY <1>1, <2>1 DEF PageInv, PageAway, Away
  <2>3. run.step # "works" /\ page'.shown = trip.plan
    BY <1>3, <2>1, <2>2 DEF PageInv, RowOfTheRun, FailingSteps
  <2>4. page'.phase = IF trip.plan # 0 THEN "complete" ELSE IF page.loaded = "failed" THEN "failed" ELSE "idle"
    BY <1>3, <2>1, <2>3
  <2>5. page'.phase = "idle" => trip.status = "pending"
    BY <2>1, <2>2, <2>4
  <2>6. page'.phase = "failed" => page.loaded = "failed" /\ trip.plan = 0 /\ trip.status = "failed"
    BY <2>2, <2>4
  <2>7. page'.phase = "failed" /\ run.conflict /\ ~hidden' => page'.offers
    BY <1>1, <1>3, <2>1, <2>3, <2>6
  <2>8. page'.offers => run.conflict /\ run.step # "marked"
    BY <1>3
  <2> QED BY <2>1, <2>2, <2>3, <2>4, <2>5, <2>6, <2>7, <2>8 DEF PageStands
<1> QED BY <1>5, <1>6, <1>7, <1>8, <1>9, <1>10, <1>11 DEF PageInv

\* A request that is refused, or answered by a question, leaves the trip as it was.
LEMMA NotBeginning ==
  ASSUME PageInv, post = "sent", ((trip.status = "planning" \/ page.before = "complete") /\ post' = "refused")
    \/ (trip.plan = 0 /\ post' = "asked"),
         UNCHANGED <<trip, run, stream_vars, page, poll, fetching, reloads, strays, misled, hidden>>
  PROVE  PageInv'
<1>1. /\ \/ (trip.status = "planning" \/ page.before = "complete") /\ post' = "refused"
         \/ trip.plan = 0 /\ post' = "asked"
      /\ post = "sent"
      /\ UNCHANGED <<trip, run, page, poll, fetching, reloads, strays, misled, hidden, quiet, listening, inbox, lost>>
  BY DEF stream_vars
<1>2. PageTyped'
  BY <1>1 DEF PageInv, PageTyped
<1>3. RowOfTheRun'
  BY <1>1 DEF PageInv, RowOfTheRun
<1>4. PageAway'
  BY <1>1 DEF PageInv, PageAway, Away
<1>5. PageWaits'
  BY <1>1 DEF PageInv, RowOfTheRun, PageWaits, Straight, Away, Running
<1>6. NewsOfTheRun'
  BY <1>1 DEF PageInv, Straight, Away, NewsOfTheRun
<1>7. AnswersOfTheRun'
  BY <1>1 DEF PageInv, AnswersOfTheRun, Straight, Away
<1>8. PageStands'
  BY <1>1 DEF PageInv, PageStands, Straight, Away, Running
<1> QED BY <1>2, <1>3, <1>4, <1>5, <1>6, <1>7, <1>8 DEF PageInv

\* A run that is begun: what becomes of the trip, the run and the stream.
LEMMA BegunRun ==
  ASSUME PageInv, PlanningBegins
  PROVE  /\ trip' \in TripRows /\ trip'.status = "planning" /\ trip'.plan = trip.plan /\ trip.status # "planning"
         /\ run' \in RunStates /\ run'.n = run.n + 1 /\ run'.step = "works" /\ run'.conflict = FALSE /\ run.n \in Nat
         /\ reloads' \in 0..MaxReloads
         /\ listening' = listening /\ quiet' \in BOOLEAN /\ lost' \in 0..MaxLost
         /\ inbox' \in Seq(Messages)
         /\ \/ inbox' = inbox
            \/ /\ listening /\ Len(inbox') = Len(inbox) + 1 /\ Len(inbox) \in Nat
               /\ inbox'[Len(inbox')] = [event |-> "planning_started"]
               /\ \A i \in DOMAIN inbox : i \in DOMAIN inbox' /\ inbox'[i] = inbox[i]
               /\ \A i \in DOMAIN inbox' : i \in DOMAIN inbox \/ i = Len(inbox')
               /\ \A i \in DOMAIN inbox : i # Len(inbox')
<1>1. PublishStart([event |-> "planning_started"])
  BY DEF PlanningBegins, Event
<1>2. Messages = [event : {"planning_started", "planning_complete", "planning_failed"}]
      \cup [event : {"budget_conflict"}, run : Nat]
  BY DEF Messages
<1>3. [event |-> "planning_started"] \in Messages
  BY <1>2
<1>4. /\ listening' = listening /\ quiet' \in BOOLEAN /\ lost' \in 0..MaxLost
      /\ inbox' \in Seq(Messages)
      /\ \/ inbox' = inbox
         \/ /\ listening /\ Len(inbox') = Len(inbox) + 1 /\ Len(inbox) \in Nat
            /\ inbox'[Len(inbox')] = [event |-> "planning_started"]
            /\ \A i \in DOMAIN inbox : i \in DOMAIN inbox' /\ inbox'[i] = inbox[i]
            /\ \A i \in DOMAIN inbox' : i \in DOMAIN inbox \/ i = Len(inbox')
            /\ \A i \in DOMAIN inbox : i # Len(inbox')
  BY <1>1, <1>3, NewsSent DEF PageInv
<1>5. run' = [n |-> run.n + 1, step |-> "works", conflict |-> FALSE]
  BY DEF PlanningBegins, NoRun
<1>6. run.n \in Nat
  BY DEF PageInv, PageTyped, RunStates
<1>7. trip' \in TripRows /\ trip'.status = "planning" /\ trip'.plan = trip.plan /\ trip.status # "planning"
  BY DEF PlanningBegins, PageInv, PageTyped, TripRows
<1>8. run'.n = run.n + 1 /\ run'.step = "works" /\ run'.conflict = FALSE
  BY <1>5
<1>9. run' \in RunStates
  BY <1>5, <1>6 DEF RunStates
<1>10. reloads' \in 0..MaxReloads
  BY PageBounds DEF PlanningBegins, PageInv, PageTyped
<1> QED BY <1>4, <1>6, <1>7, <1>8, <1>9, <1>10

\* A request that begins a run while its page waits for it.
LEMMA Beginning ==
  ASSUME PageInv, TakePost, post' = "begun"
  PROVE  PageInv'
<1>1. post = "sent" /\ post' = "begun" /\ PlanningBegins
      /\ UNCHANGED <<page, poll, fetching, strays, misled, hidden>>
  BY DEF TakePost
<1>2. /\ trip' \in TripRows /\ trip'.status = "planning" /\ trip'.plan = trip.plan /\ trip.status # "planning"
      /\ run' \in RunStates /\ run'.n = run.n + 1 /\ run'.step = "works" /\ run'.conflict = FALSE /\ run.n \in Nat
      /\ reloads' \in 0..MaxReloads
      /\ listening' = listening /\ quiet' \in BOOLEAN /\ lost' \in 0..MaxLost
      /\ inbox' \in Seq(Messages)
      /\ \/ inbox' = inbox
         \/ /\ listening /\ Len(inbox') = Len(inbox) + 1 /\ Len(inbox) \in Nat
            /\ inbox'[Len(inbox')] = [event |-> "planning_started"]
            /\ \A i \in DOMAIN inbox : i \in DOMAIN inbox' /\ inbox'[i] = inbox[i]
            /\ \A i \in DOMAIN inbox' : i \in DOMAIN inbox \/ i = Len(inbox')
            /\ \A i \in DOMAIN inbox : i # Len(inbox')
  BY <1>1, BegunRun
<1>3. PageTyped'
  BY <1>1, <1>2 DEF PageInv, PageTyped
<1>4. RowOfTheRun'
  BY <1>1, <1>2 DEF PageInv, TripRows, FailingSteps, RowOfTheRun
<1>5. PageAway'
  BY <1>1, <1>2 DEF PageInv, PageAway, Away
<1>6. PageWaits'
  BY <1>1, <1>2 DEF PageInv, PageWaits, Straight, Away, Running
<1>7. NewsOfTheRun'
  BY <1>1, <1>2 DEF PageInv, PageTyped, PageStates, Straight, Away, PageWaits, NewsOfTheRun
<1>8. AnswersOfTheRun'
  BY <1>1, <1>2 DEF PageInv, AnswersOfTheRun, Straight, Away, PageWaits, Nothing
<1>9. PageStands'
  BY <1>1, <1>2 DEF PageInv, PageStands, Straight, Away, Running, PageWaits
<1> QED BY <1>3, <1>4, <1>5, <1>6, <1>7, <1>8, <1>9 DEF PageInv

\* One that no page waits for: the page has yet to ask for the trip, or is misled.
LEMMA BegunAstray ==
  ASSUME PageInv, TakeStray
  PROVE  PageInv'
<1>1. /\ strays > 0 /\ strays' = strays - 1 /\ PlanningBegins /\ hidden' = FALSE
      /\ misled' = (misled \/ run.step # "over" \/ page.phase # "loading" \/ page.loaded # "none")
      /\ UNCHANGED <<page, post, poll, fetching>>
  BY DEF TakeStray
<1>2. /\ trip' \in TripRows /\ run' \in RunStates /\ reloads' \in 0..MaxReloads
      /\ quiet' \in BOOLEAN /\ lost' \in 0..MaxLost /\ inbox' \in Seq(Messages) /\ listening' = listening
      /\ trip'.status = "planning" /\ trip'.plan = trip.plan /\ trip.status # "planning"
      /\ run'.n = run.n + 1 /\ run'.step = "works" /\ run'.conflict = FALSE /\ run.n \in Nat
      /\ inbox' = inbox \/ listening
  BY <1>1, BegunRun
<1>3. strays' \in Nat /\ strays # 0
  BY <1>1 DEF PageInv, PageTyped
<1>4. PageTyped'
  BY <1>1, <1>2, <1>3 DEF PageInv, PageTyped
<1>5. RowOfTheRun'
  BY <1>1, <1>2 DEF PageInv, TripRows, FailingSteps, RowOfTheRun
<1>6. PageAway'
  BY <1>1, <1>2, <1>3 DEF PageInv, PageTyped, PageStates, PageAway, Away
<1>7. ~Straight'
  BY <1>1 DEF Straight, Away
<1>8. PageWaits' /\ NewsOfTheRun' /\ AnswersOfTheRun' /\ PageStands'
  BY <1>7 DEF PageWaits, NewsOfTheRun, AnswersOfTheRun, PageStands
<1> QED BY <1>4, <1>5, <1>6, <1>8 DEF PageInv

\* Its answer.
LEMMA PostReturning ==
  ASSUME PageInv, PostReturns
  PROVE  PageInv'
<1>1. post' = "none"
      /\ UNCHANGED <<trip, run, poll, fetching, reloads, strays, misled, hidden, quiet, listening, inbox, lost>>
  BY DEF PostReturns, PageOnly, watch, visits, stream_vars
<1>2. /\ page' \in PageStates /\ page'.shown = page.shown /\ page'.offers = page.offers
      /\ page'.announced = page.announced /\ page'.loaded = page.loaded
      /\ \/ post = "begun" /\ page'.awaiting = page.awaiting /\ page'.phase = page.phase
         \/ post = "asked" /\ page'.awaiting = FALSE /\ page'.phase = "clarifying"
         \/ /\ post \in {"refused", "failed"} /\ page'.phase \in {page.phase, page.before}
            /\ trip.status # "planning" => page'.phase = page.before /\ page'.awaiting = FALSE
  <2>1. CASE post = "begun"
    BY <2>1 DEF PostReturns, PageInv, PageTyped, PageStates, PagePhases
  <2>2. CASE post = "asked"
    BY <2>2 DEF PostReturns, PageInv, PageTyped, PageStates, PagePhases
  <2>3. CASE post \in {"refused", "failed"}
    BY <2>3 DEF PostReturns, PageInv, PageTyped, PageStates, PagePhases
  <2> QED BY <2>1, <2>2, <2>3 DEF PostReturns
<1>3. PageTyped'
  BY <1>1, <1>2 DEF PageInv, PageTyped
<1>4. RowOfTheRun'
  BY <1>1, <1>2 DEF PageInv, RowOfTheRun
<1>5. PageAway'
  BY <1>1, <1>2 DEF PageInv, PageTyped, PageStates, PageAway, Away
<1>6. PageWaits'
  BY <1>1, <1>2 DEF PageInv, RowOfTheRun, PageWaits, Straight, Running, PageAway
<1>7. NewsOfTheRun'
  BY <1>1, <1>2 DEF PageInv, Straight, PageAway, NewsOfTheRun
<1>8. AnswersOfTheRun'
  BY <1>1, <1>2 DEF PageInv, AnswersOfTheRun, Straight, PageAway
<1>9. PageStands'
  BY <1>1, <1>2 DEF PageInv, RowOfTheRun, PageStands, Straight, Running, PageWaits, PageAway
<1> QED BY <1>3, <1>4, <1>5, <1>6, <1>7, <1>8, <1>9 DEF PageInv

\* The messages of the stream, each by its kind.
LEMMA HearingTheStart ==
  ASSUME PageInv, HandleEvent, Head(inbox).event = "planning_started"
  PROVE  PageInv'
<1>1. /\ inbox # <<>> /\ inbox' = Tail(inbox) /\ Head(inbox).event = "planning_started"
      /\ UNCHANGED <<trip, run, post, poll, reloads, strays, misled, hidden, quiet, listening, lost>>
  BY DEF HandleEvent, PageOnly, visits
<1>2. /\ inbox' \in Seq(Messages) /\ Head(inbox) = inbox[1] /\ 1 \in DOMAIN inbox /\ inbox[1] \in Messages
      /\ Len(inbox) \in Nat /\ Len(inbox') = Len(inbox) - 1 /\ (Len(inbox) = 1 => inbox' = <<>>)
      /\ \A i \in DOMAIN inbox' : i \in Nat /\ i # 0 /\ i + 1 \in DOMAIN inbox /\ inbox'[i] = inbox[i + 1]
      /\ \A i \in DOMAIN inbox : i = 1 \/ (i - 1 \in DOMAIN inbox' /\ inbox'[i - 1] = inbox[i])
  BY <1>1, NewsHandled DEF PageInv
<1>3. page' = [page EXCEPT !.announced = 0] /\ fetching' = fetching
  BY <1>1 DEF HandleEvent
<1>4. /\ page' \in PageStates /\ fetching' = fetching /\ page'.announced = 0
      /\ page'.phase = page.phase /\ page'.awaiting = page.awaiting /\ page'.shown = page.shown
      /\ page'.offers = page.offers
      /\ page'.loaded = page.loaded
  BY <1>3 DEF PageInv, PageTyped, PageStates
<1>5. (\E i \in DOMAIN inbox : inbox[i].event = "budget_conflict")
      => \E i \in DOMAIN inbox' : inbox'[i].event = "budget_conflict"
  BY <1>1, <1>2
<1>6. Straight => page.announced # run.n
  BY <1>1, <1>2 DEF PageInv, NewsOfTheRun
<1>7. PageTyped'
  BY <1>1, <1>2, <1>4 DEF PageInv, PageTyped
<1>8. RowOfTheRun'
  BY <1>1, <1>2, <1>4 DEF PageInv, RowOfTheRun
<1>9. PageAway'
  BY <1>1, <1>2, <1>4 DEF PageInv, PageAway, Away
<1>10. PageWaits'
  BY <1>1, <1>4, <1>5, <1>6 DEF PageInv, PageWaits, Straight, Away, Running
<1>11. NewsOfTheRun'
  BY <1>1, <1>2, <1>4 DEF PageInv, PageTyped, RunStates, Straight, Away, NewsOfTheRun
<1>12. AnswersOfTheRun'
  BY <1>1, <1>2, <1>4 DEF PageInv, AnswersOfTheRun, Straight, Away
<1>13. PageStands'
  BY <1>1, <1>2, <1>4 DEF PageInv, PageStands, Straight, Away, Running
<1> QED BY <1>7, <1>8, <1>9, <1>10, <1>11, <1>12, <1>13 DEF PageInv

LEMMA HearingOfTheConflict ==
  ASSUME PageInv, HandleEvent, Head(inbox).event = "budget_conflict"
  PROVE  PageInv'
<1>1. /\ inbox # <<>> /\ inbox' = Tail(inbox) /\ Head(inbox).event = "budget_conflict"
      /\ UNCHANGED <<trip, run, post, poll, reloads, strays, misled, hidden, quiet, listening, lost>>
  BY DEF HandleEvent, PageOnly, visits
<1>2. /\ inbox' \in Seq(Messages) /\ Head(inbox) = inbox[1] /\ 1 \in DOMAIN inbox /\ inbox[1] \in Messages
      /\ Len(inbox) \in Nat /\ Len(inbox') = Len(inbox) - 1 /\ (Len(inbox) = 1 => inbox' = <<>>)
      /\ \A i \in DOMAIN inbox' : i \in Nat /\ i # 0 /\ i + 1 \in DOMAIN inbox /\ inbox'[i] = inbox[i + 1]
      /\ \A i \in DOMAIN inbox : i = 1 \/ (i - 1 \in DOMAIN inbox' /\ inbox'[i - 1] = inbox[i])
  BY <1>1, NewsHandled DEF PageInv
<1>3. page' = [page EXCEPT !.announced = inbox[1].run] /\ fetching' = fetching
  BY <1>2 DEF HandleEvent
<1>4. inbox[1].run \in Nat
  BY <1>1, <1>2 DEF Messages
<1>5. /\ page' \in PageStates /\ fetching' = fetching /\ page'.announced = inbox[1].run
      /\ page'.phase = page.phase /\ page'.awaiting = page.awaiting /\ page'.shown = page.shown
      /\ page'.offers = page.offers
      /\ page'.loaded = page.loaded
  BY <1>3, <1>4 DEF PageInv, PageTyped, PageStates
<1>6. PageTyped'
  BY <1>1, <1>2, <1>5 DEF PageInv, PageTyped
<1>7. RowOfTheRun'
  BY <1>1, <1>2, <1>5 DEF PageInv, RowOfTheRun
<1>8. PageAway'
  BY <1>1, <1>2, <1>5 DEF PageInv, PageAway, Away
<1>9. PageWaits'
  BY <1>1, <1>2, <1>5 DEF PageInv, PagePhases, PageWaits, Straight, Away, Running, NewsOfTheRun
<1>10. NewsOfTheRun'
  BY <1>1, <1>2, <1>5 DEF PageInv, PageTyped, RunStates, Straight, Away, NewsOfTheRun
<1>11. AnswersOfTheRun'
  BY <1>1, <1>2, <1>5 DEF PageInv, AnswersOfTheRun, Straight, Away
<1>12. PageStands'
  BY <1>1, <1>2, <1>5 DEF PageInv, PageStands, Straight, Away, Running
<1> QED BY <1>6, <1>7, <1>8, <1>9, <1>10, <1>11, <1>12 DEF PageInv

LEMMA HearingOfThePlan ==
  ASSUME PageInv, HandleEvent, Head(inbox).event = "planning_complete"
  PROVE  PageInv'
<1>1. /\ inbox # <<>> /\ inbox' = Tail(inbox) /\ Head(inbox).event = "planning_complete"
      /\ UNCHANGED <<trip, run, post, poll, reloads, strays, misled, hidden, quiet, listening, lost>>
  BY DEF HandleEvent, PageOnly, visits
<1>2. /\ inbox' \in Seq(Messages) /\ Head(inbox) = inbox[1] /\ 1 \in DOMAIN inbox /\ inbox[1] \in Messages
      /\ Len(inbox) \in Nat /\ Len(inbox') = Len(inbox) - 1 /\ (Len(inbox) = 1 => inbox' = <<>>)
      /\ \A i \in DOMAIN inbox' : i \in Nat /\ i # 0 /\ i + 1 \in DOMAIN inbox /\ inbox'[i] = inbox[i + 1]
      /\ \A i \in DOMAIN inbox : i = 1 \/ (i - 1 \in DOMAIN inbox' /\ inbox'[i - 1] = inbox[i])
  BY <1>1, NewsHandled DEF PageInv
<1>3. /\ page' \in PageStates /\ fetching' \in BOOLEAN
      /\ page'.phase = page.phase /\ page'.shown = page.shown /\ page'.offers = page.offers
      /\ page'.announced = page.announced /\ page'.loaded = page.loaded
      /\ ~page'.awaiting /\ (fetching' <=> fetching \/ page.awaiting)
  BY <1>1, FinishingWell DEF HandleEvent, PageInv, PageTyped
<1>4. Straight => run.n # 0 /\ trip.plan = run.n /\ run.step # "works"
  BY <1>1, <1>2 DEF PageInv, NewsOfTheRun
<1>5. PageTyped'
  BY <1>1, <1>2, <1>3 DEF PageInv, PageTyped
<1>6. RowOfTheRun'
  BY <1>1, <1>2, <1>3 DEF PageInv, RowOfTheRun
<1>7. PageAway'
  BY <1>1, <1>2, <1>3 DEF PageInv, PageAway, Away
<1>8. PageWaits'
  BY <1>1, <1>2, <1>3, <1>4 DEF PageInv, PageWaits, Straight, Running, PageAway
<1>9. NewsOfTheRun'
  BY <1>1, <1>2, <1>3 DEF PageInv, PagePhases, Straight, PageAway, NewsOfTheRun
<1>10. AnswersOfTheRun'
  BY <1>1, <1>2, <1>3 DEF PageInv, AnswersOfTheRun, Straight, Away
<1>11. PageStands'
  BY <1>1, <1>2, <1>3 DEF PageInv, PageStands, Straight, Away, Running
<1> QED BY <1>5, <1>6, <1>7, <1>8, <1>9, <1>10, <1>11 DEF PageInv

LEMMA HearingOfTheFailure ==
  ASSUME PageInv, HandleEvent, Head(inbox).event = "planning_failed"
  PROVE  PageInv'
<1>1. /\ inbox # <<>> /\ inbox' = Tail(inbox) /\ Head(inbox).event = "planning_failed"
      /\ UNCHANGED <<trip, run, post, poll, reloads, strays, misled, hidden, quiet, listening, lost>>
  BY DEF HandleEvent, PageOnly, visits
<1>2. /\ inbox' \in Seq(Messages) /\ Head(inbox) = inbox[1] /\ 1 \in DOMAIN inbox /\ inbox[1] \in Messages
      /\ Len(inbox) \in Nat /\ Len(inbox') = Len(inbox) - 1 /\ (Len(inbox) = 1 => inbox' = <<>>)
      /\ \A i \in DOMAIN inbox' : i \in Nat /\ i # 0 /\ i + 1 \in DOMAIN inbox /\ inbox'[i] = inbox[i + 1]
      /\ \A i \in DOMAIN inbox : i = 1 \/ (i - 1 \in DOMAIN inbox' /\ inbox'[i - 1] = inbox[i])
  BY <1>1, NewsHandled DEF PageInv
<1>3. FinishBadly(page.announced # 0)
  BY DEF HandleEvent
<1>4. /\ page' \in PageStates /\ fetching' = fetching
      /\ page'.shown = page.shown /\ page'.announced = page.announced /\ page'.loaded = page.loaded /\ ~page'.awaiting
      /\ page.awaiting => /\ page'.phase = (IF page.shown # 0 THEN "complete" ELSE "failed")
                          /\ page.shown = 0 => page'.offers = (page.announced # 0)
      /\ ~page.awaiting => page' = page
  BY <1>3, FinishingBadly DEF PageInv, PageTyped
<1>5. PageTyped'
  BY <1>1, <1>2, <1>4 DEF PageInv, PageTyped
<1>6. RowOfTheRun'
  BY <1>1, <1>2, <1>4 DEF PageInv, RowOfTheRun
<1>7. PageAway'
  BY <1>1, <1>2, <1>4 DEF PageInv, PageAway, Away
<1>8. PageWaits'
  BY <1>1, <1>2, <1>4 DEF PageInv, PageWaits, Straight, Running, PageAway
<1>9. NewsOfTheRun'
  BY <1>1, <1>2, <1>4 DEF PageInv, Straight, PageAway, NewsOfTheRun
<1>10. AnswersOfTheRun'
  BY <1>1, <1>2, <1>4 DEF PageInv, AnswersOfTheRun, Straight, PageAway
<1>11. PageStands'
  BY <1>1, <1>2, <1>4 DEF PageInv, PageTyped, TripRows, PageStates, RowOfTheRun, PageStands, Straight, Running,
      PageWaits, PageAway, NewsOfTheRun
<1> QED BY <1>5, <1>6, <1>7, <1>8, <1>9, <1>10, <1>11 DEF PageInv

\* The plan fetched; and what a poll was answered.
LEMMA PlanLoading ==
  ASSUME PageInv, PlanLoads
  PROVE  PageInv'
<1>1. /\ fetching /\ ~fetching' /\ fetching' \in BOOLEAN
      /\ UNCHANGED <<trip, run, post, poll, reloads, strays, hidden, quiet, listening, inbox>>
  BY DEF PlanLoads, PageOnly, visits
<1>2. misled' \in BOOLEAN
  BY DEF PlanLoads, PageInv, PageTyped
<1>3. lost' \in 0..MaxLost
  BY StreamBounds DEF PlanLoads, PageInv, PageTyped
<1>4. /\ page' \in PageStates /\ page'.awaiting = page.awaiting /\ page'.announced = page.announced
      /\ page'.offers = page.offers
      /\ page'.loaded = page.loaded /\ page'.phase \in {"complete", "failed"}
      /\ misled' \/ (misled' = misled /\ page'.phase = "complete" /\ page'.shown = trip.plan)
  <2>1. page \in PageStates /\ trip.plan \in Nat /\ misled \in BOOLEAN
    BY DEF PageInv, PageTyped, TripRows
  <2>2. CASE page' = [page EXCEPT !.shown = trip.plan, !.phase = "complete"] /\ misled' = misled
    BY <2>1, <2>2 DEF PageStates, PagePhases
  <2>3. CASE page' = [page EXCEPT !.phase = IF page.shown # 0 THEN "complete" ELSE "failed"] /\ misled'
    <3>1. CASE page.shown # 0
      BY <2>1, <2>3, <3>1 DEF PageStates, PagePhases
    <3>2. CASE page.shown = 0
      BY <2>1, <2>3, <3>2 DEF PageStates, PagePhases
    <3> QED BY <3>1, <3>2
  <2> QED BY <2>2, <2>3 DEF PlanLoads
<1>5. PageTyped'
  BY <1>1, <1>4, <1>3, <1>2 DEF PageInv, PageTyped
<1>6. RowOfTheRun'
  BY <1>1, <1>4 DEF PageInv, RowOfTheRun
<1>7. PageAway'
  BY <1>1, <1>4 DEF PageInv, PageAway, Away
<1>8. PageWaits'
  BY <1>1, <1>4 DEF PageInv, PageWaits, Straight, Running, PageAway
<1>9. NewsOfTheRun'
  BY <1>1, <1>4 DEF PageInv, Straight, PageAway, NewsOfTheRun
<1>10. AnswersOfTheRun'
  BY <1>1, <1>4 DEF PageInv, AnswersOfTheRun, Straight, PageAway
<1>11. PageStands'
  BY <1>1, <1>4 DEF PageInv, PageStands, Straight, PageWaits, PageAway
<1> QED BY <1>5, <1>6, <1>7, <1>8, <1>9, <1>10, <1>11 DEF PageInv

LEMMA PollToldOfThePlan ==
  ASSUME PageInv, PollReturns, poll.status = "completed"
  PROVE  PageInv'
<1>1. /\ poll \notin {Nothing, Asked} /\ poll' = Nothing
      /\ UNCHANGED <<trip, run, post, reloads, strays, misled, hidden, quiet, listening, inbox, lost>>
  BY DEF PollReturns, PageOnly, watch, visits, stream_vars
<1>2. poll' \in PollStates
  BY <1>1 DEF Nothing, PollStates
<1>3. /\ page' \in PageStates /\ fetching' \in BOOLEAN
      /\ page'.phase = page.phase /\ page'.shown = page.shown /\ page'.offers = page.offers
      /\ page'.announced = page.announced /\ page'.loaded = page.loaded
      /\ ~page'.awaiting /\ (fetching' <=> fetching \/ page.awaiting)
  BY FinishingWell DEF PollReturns, PageInv, PageTyped
<1>4. PageTyped'
  BY <1>1, <1>3, <1>2 DEF PageInv, PageTyped
<1>5. RowOfTheRun'
  BY <1>1, <1>3 DEF PageInv, RowOfTheRun
<1>6. PageAway'
  BY <1>1, <1>3 DEF PageInv, PageAway, Away
<1>7. PageWaits'
  BY <1>1, <1>3 DEF PageInv, PageWaits, Straight, Away, Running, AnswersOfTheRun
<1>8. NewsOfTheRun'
  BY <1>1, <1>3 DEF PageInv, Straight, Away, NewsOfTheRun
<1>9. AnswersOfTheRun'
  BY <1>1, <1>3 DEF PageInv, AnswersOfTheRun, Nothing
<1>10. PageStands'
  BY <1>1, <1>3 DEF PageInv, PageStands, Straight, Away, Running
<1> QED BY <1>4, <1>5, <1>6, <1>7, <1>8, <1>9, <1>10 DEF PageInv

LEMMA PollToldOfTheFailure ==
  ASSUME PageInv, PollReturns, poll.status = "failed"
  PROVE  PageInv'
<1>1. /\ poll \notin {Nothing, Asked} /\ poll' = Nothing
      /\ UNCHANGED <<trip, run, post, reloads, strays, misled, hidden, quiet, listening, inbox, lost>>
  BY DEF PollReturns, PageOnly, watch, visits, stream_vars
<1>2. poll' \in PollStates
  BY <1>1 DEF Nothing, PollStates
<1>3. FinishBadly(poll.conflict) /\ poll.conflict \in BOOLEAN
  BY DEF PollReturns, PageInv, PageTyped, PollStates
<1>4. /\ page' \in PageStates /\ fetching' = fetching
      /\ page'.shown = page.shown /\ page'.announced = page.announced /\ page'.loaded = page.loaded /\ ~page'.awaiting
      /\ page.awaiting => /\ page'.phase = (IF page.shown # 0 THEN "complete" ELSE "failed")
                          /\ page.shown = 0 => page'.offers = poll.conflict
      /\ ~page.awaiting => page' = page
  BY <1>3, FinishingBadly DEF PageInv, PageTyped
<1>5. PageTyped'
  BY <1>1, <1>4, <1>2 DEF PageInv, PageTyped
<1>6. RowOfTheRun'
  BY <1>1, <1>4 DEF PageInv, RowOfTheRun
<1>7. PageAway'
  BY <1>1, <1>4 DEF PageInv, PageAway, Away
<1>8. PageWaits'
  BY <1>1, <1>4 DEF PageInv, PageWaits, Straight, Running, PageAway
<1>9. NewsOfTheRun'
  BY <1>1, <1>4 DEF PageInv, Straight, PageAway, NewsOfTheRun
<1>10. AnswersOfTheRun'
  BY <1>1, <1>4 DEF PageInv, AnswersOfTheRun, Nothing
<1>11. PageStands'
  BY <1>1, <1>4 DEF PageInv, FailingSteps, PageStands, Straight, Running, AnswersOfTheRun, PageWaits, PageAway
<1> QED BY <1>5, <1>6, <1>7, <1>8, <1>9, <1>10, <1>11 DEF PageInv

LEMMA PollToldNothing ==
  ASSUME PageInv, PollReturns, poll.status \notin {"completed", "failed"}
  PROVE  PageInv'
<1>1. /\ poll \notin {Nothing, Asked} /\ poll' = Nothing
      /\ UNCHANGED <<trip, run, post, reloads, strays, misled, hidden, quiet, listening, inbox, lost>>
  BY DEF PollReturns, PageOnly, watch, visits, stream_vars
<1>2. poll' \in PollStates
  BY <1>1 DEF Nothing, PollStates
<1>3. page' = page /\ fetching' = fetching
  BY DEF PollReturns
<1>4. PageTyped'
  BY <1>1, <1>3, <1>2 DEF PageInv, PageTyped
<1>5. RowOfTheRun'
  BY <1>1, <1>3 DEF PageInv, RowOfTheRun
<1>6. PageAway'
  BY <1>1, <1>3 DEF PageInv, PageAway, Away
<1>7. PageWaits'
  BY <1>1, <1>3 DEF PageInv, PageWaits, Straight, Away, Running
<1>8. NewsOfTheRun'
  BY <1>1, <1>3 DEF PageInv, Straight, Away, NewsOfTheRun
<1>9. AnswersOfTheRun'
  BY <1>1, <1>3 DEF PageInv, AnswersOfTheRun, Nothing
<1>10. PageStands'
  BY <1>1, <1>3 DEF PageInv, PageStands, Straight, Away, Running
<1> QED BY <1>4, <1>5, <1>6, <1>7, <1>8, <1>9, <1>10 DEF PageInv

LEMMA StreamGoesOn ==
  ASSUME PageInv, StreamAlone
  PROVE  PageInv'
<1>1. /\ UNCHANGED <<trip, run, page, post, poll, fetching, reloads, strays, misled, hidden, inbox>>
      /\ quiet' \in BOOLEAN /\ listening' \in BOOLEAN /\ (Away => listening' = FALSE \/ listening' = listening)
  BY DEF StreamAlone, QuietTimePasses, StreamBreaks, Subscribe, watch, visits, PageInv, PageTyped, Away
<1>2. lost' \in 0..MaxLost
  BY StreamBounds DEF StreamAlone, QuietTimePasses, StreamBreaks, Subscribe, PageInv, PageTyped
<1>3. PageTyped'
  BY <1>1, <1>2 DEF PageInv, PageTyped
<1>4. RowOfTheRun'
  BY <1>1 DEF PageInv, RowOfTheRun
<1>5. PageAway'
  BY <1>1 DEF PageInv, PageAway, Away
<1>6. PageWaits'
  BY <1>1 DEF PageInv, PageWaits, Straight, Away, Running
<1>7. NewsOfTheRun'
  BY <1>1 DEF PageInv, Straight, Away, NewsOfTheRun
<1>8. AnswersOfTheRun'
  BY <1>1 DEF PageInv, AnswersOfTheRun, Straight, Away
<1>9. PageStands'
  BY <1>1 DEF PageInv, PageStands, Straight, Away, Running
<1> QED BY <1>3, <1>4, <1>5, <1>6, <1>7, <1>8, <1>9 DEF PageInv

LEMMA PageIdles ==
  ASSUME PageInv, UNCHANGED page_vars
  PROVE  PageInv'
<1>1. UNCHANGED <<trip, run, page, post, poll, fetching, reloads, strays, misled, hidden>>
      /\ UNCHANGED <<quiet, listening, inbox, lost>>
  BY DEF page_vars, stream_vars
<1>2. PageTyped'
  BY <1>1 DEF PageInv, PageTyped
<1>3. RowOfTheRun'
  BY <1>1 DEF PageInv, RowOfTheRun
<1>4. PageAway'
  BY <1>1 DEF PageInv, PageAway, Away
<1>5. PageWaits'
  BY <1>1 DEF PageInv, PageWaits, Straight, Away, Running
<1>6. NewsOfTheRun'
  BY <1>1 DEF PageInv, Straight, Away, NewsOfTheRun
<1>7. AnswersOfTheRun'
  BY <1>1 DEF PageInv, AnswersOfTheRun, Straight, Away
<1>8. PageStands'
  BY <1>1 DEF PageInv, PageStands, Straight, Away, Running
<1> QED BY <1>2, <1>3, <1>4, <1>5, <1>6, <1>7, <1>8 DEF PageInv

\* The invariant of the page, and what it says at rest.
LEMMA PageStart == PageInit => PageInv
<1> SUFFICES ASSUME PageInit PROVE PageInv
  OBVIOUS
<1>1. /\ trip = [status |-> "pending", plan |-> 0] /\ run = NoRun /\ page = Closed /\ post = "none" /\ poll = Nothing
      /\ ~fetching /\ reloads = 0 /\ strays = 0 /\ ~misled /\ ~hidden /\ ~quiet /\ ~listening
      /\ inbox = <<>> /\ lost = 0
      /\ fetching \in BOOLEAN /\ misled \in BOOLEAN /\ hidden \in BOOLEAN /\ quiet \in BOOLEAN
      /\ listening \in BOOLEAN
  BY DEF PageInit, StreamInit
<1>2. trip \in TripRows /\ run \in RunStates /\ page \in PageStates /\ poll \in PollStates /\ inbox \in Seq(Messages)
  <2>1. trip \in TripRows
    BY <1>1 DEF TripRows
  <2>2. run \in RunStates
    BY <1>1 DEF RunStates, NoRun
  <2>3. page \in PageStates
    BY <1>1 DEF PageStates, PagePhases, Closed, Blank
  <2>4. poll \in PollStates
    BY <1>1 DEF PollStates, Nothing
  <2>5. inbox \in Seq(Messages)
    BY <1>1
  <2> QED BY <2>1, <2>2, <2>3, <2>4, <2>5
<1>3. PageTyped
  BY <1>1, <1>2, PageBounds, StreamBounds DEF PageTyped
<1>4. RowOfTheRun
  BY <1>1 DEF RowOfTheRun, NoRun, FailingSteps
<1>5. PageAway
  BY <1>1 DEF PageAway, NoRun, Closed, Blank
<1>6. PageWaits /\ NewsOfTheRun /\ AnswersOfTheRun /\ PageStands
  BY <1>1 DEF PageWaits, AnswersOfTheRun, PageStands, Straight, Away, Closed, Blank, NewsOfTheRun
<1> QED BY <1>3, <1>4, <1>5, <1>6 DEF PageInv

LEMMA PageKeeps == PageInv /\ [PageNext]_page_vars => PageInv'
<1> SUFFICES ASSUME PageInv, [PageNext]_page_vars PROVE PageInv'
  OBVIOUS
<1>1. CASE TakePost
  <2>1. CASE post' = "begun"
    BY <1>1, <2>1, Beginning DEF TakePost
  <2>2. CASE post' # "begun"
    BY <1>1, <2>2, NotBeginning DEF TakePost, visits
  <2> QED BY <2>1, <2>2
<1>2. CASE RunStep
  BY <1>2, Saves, TellsComplete, Learns, MarksFailed, LogsWhy, TellsConflict, TellsFailed, Crashes, Settles, Dies
      DEF RunStep
<1>3. CASE HandleEvent
  <2>1. inbox \in Seq(Messages) /\ inbox # <<>>
    BY <1>3 DEF HandleEvent, PageInv, PageTyped
  <2>2. Head(inbox) \in Messages
    BY <2>1
  <2>3. Head(inbox).event \in {"planning_started", "planning_complete", "planning_failed", "budget_conflict"}
    BY <2>2 DEF Messages
  <2> QED BY <1>3, <2>3, HearingTheStart, HearingOfTheConflict, HearingOfThePlan, HearingOfTheFailure
<1>4. CASE PollReturns
  BY <1>4, PollToldOfThePlan, PollToldOfTheFailure, PollToldNothing
<1>5. CASE LoadTrip \/ LoadRest \/ PostReturns \/ PlanLoads \/ PollAsks \/ PollAnswered
  BY <1>5, LoadsTrip, LoadsRest, PostReturning, PlanLoading, PollAsking, PollAnswering
<1>6. CASE TakeStray \/ StreamAlone \/ Launch \/ Open \/ Reload \/ PostFails \/ UNCHANGED page_vars
  BY <1>6, BegunAstray, StreamGoesOn, Launching, Opens, Reloading, PostFailing, PageIdles
<1> QED BY <1>1, <1>2, <1>3, <1>4, <1>5, <1>6 DEF PageNext, PageStep

LEMMA PageShows == PageInv => PageShowsWhatIs
<1> SUFFICES ASSUME PageInv, AtRest, ~misled
             PROVE  /\ page.shown = trip.plan
                    /\ page.phase = "complete" <=> trip.plan # 0
                    /\ page.phase = "failed" => trip.status = "failed"
                    /\ page.phase = "failed" /\ Answer.conflict /\ ~hidden => page.offers
                    /\ \A request \in Offered : Takes(request, TRUE) \/ page.announced \notin {0, run.n}
  BY DEF PageShowsWhatIs
<1>1. /\ ~Running /\ ~Away /\ Straight /\ run.step = "over" /\ page \in PageStates /\ trip \in TripRows
  BY DEF AtRest, Away, Straight, PageInv, PageTyped
<1>2. Answer.conflict <=> trip.status = "failed" /\ run.conflict
  BY <1>1 DEF Answer
<1>3. /\ page.shown = trip.plan
      /\ page.phase = "complete" <=> trip.plan # 0
      /\ page.phase = "failed" => trip.status = "failed"
      /\ page.phase = "failed" /\ run.conflict /\ ~hidden => page.offers
      /\ page.phase = "failed" /\ page.offers => run.conflict \/ page.announced \notin {0, run.n}
      /\ trip.status # "planning"
  BY <1>1 DEF PageInv, PageStands, RowOfTheRun
<1>4. ASSUME NEW request \in Offered PROVE Takes(request, TRUE) \/ page.announced \notin {0, run.n}
  <2>1. /\ request = "refine" => page.phase = "complete"
        /\ request = "replan" => page.phase = "failed" /\ page.offers
    <3>1. CASE page.phase = "failed" /\ page.offers
      <4>1. Stage = "options"
        BY <3>1 DEF Stage
      <4> QED BY <1>4, <3>1, <4>1 DEF Offered
    <3>2. CASE ~(page.phase = "failed" /\ page.offers)
      <4>1. Stage = page.phase
        BY <3>2 DEF Stage
      <4>2. page.phase \in PagePhases
        BY <1>1 DEF PageStates
      <4> QED BY <1>4, <1>1, <3>2, <4>1, <4>2 DEF Offered, PagePhases
    <3> QED BY <3>1, <3>2
  <2> QED BY <2>1, <1>2, <1>3 DEF Takes
<1> QED BY <1>2, <1>3, <1>4

----------------------------------------------------------------------------
(* The plan as it is written.                                              *)

BuildNumbers == Nat \X Nat
Pieces == [event : {"builder_token"}, build : BuildNumbers, seq : Nat]
DraftMessages == Pieces \cup [event : {"planning_started"}]
Texts == [pieces : Seq(Pieces), next : Nat, readable : BOOLEAN]
\* Builds in turn: by the run, and within it by how often the plan was built.
NoLater(a, b) == a[1] < b[1] \/ (a[1] = b[1] /\ a[2] <= b[2])
ThisBuild == <<builder.run, builder.build>>
DraftTyped ==
  /\ builder \in [run : Nat, build : Nat, seq : Nat] /\ draft \in Texts /\ started \subseteq BuildNumbers
  /\ inbox \in Seq(DraftMessages) /\ quiet \in BOOLEAN /\ lost \in 0..MaxLost
\* The pieces that wait are in the order they were written, after every build that has begun to be read.
PiecesInOrder ==
  /\ \A b \in started : NoLater(b, ThisBuild)
  /\ \A i \in DOMAIN inbox : inbox[i].event = "builder_token" =>
       /\ NoLater(inbox[i].build, ThisBuild)
       /\ \A b \in started : NoLater(b, inbox[i].build)
       /\ \A j \in DOMAIN inbox : inbox[j].event = "builder_token" /\ i <= j
          => NoLater(inbox[i].build, inbox[j].build)
\* A readable text has no gap from its first piece on; whatever build begins is told by its first piece, so that a piece
\* of another build in the text is of one whose first piece was lost.
TextStands ==
  /\ draft.next = Len(draft.pieces)
  /\ draft.readable =>
       /\ draft.pieces # <<>> /\ draft.pieces[1].build \in started
       /\ \A b \in started : NoLater(b, draft.pieces[1].build)
       /\ \A i \in DOMAIN draft.pieces :
            /\ draft.pieces[i].seq = i - 1
            /\ draft.pieces[i].build = draft.pieces[1].build \/ draft.pieces[i].build \notin started
DraftInv == DraftTyped /\ PiecesInOrder /\ TextStands

\* Builds have an order.
LEMMA InTurn ==
  ASSUME NEW a \in BuildNumbers, NEW b \in BuildNumbers, NEW c \in BuildNumbers
  PROVE  /\ NoLater(a, a)
         /\ NoLater(a, b) /\ NoLater(b, c) => NoLater(a, c)
         /\ NoLater(a, b) /\ NoLater(b, a) => a = b
  BY DEF BuildNumbers, NoLater

\* The invariant of the text.
LEMMA DraftStart == DraftInit => DraftInv
<1> SUFFICES ASSUME DraftInit PROVE DraftInv
  OBVIOUS
<1>1. draft = [pieces |-> <<>>, next |-> 0, readable |-> FALSE] /\ inbox = <<>> /\ started = {}
  BY DEF DraftInit, StreamInit, NoText
<1>2. DraftTyped
  <2>1. draft \in Texts
    BY <1>1 DEF Texts
  <2>2. inbox \in Seq(DraftMessages)
    BY <1>1
  <2>3. builder \in [run : Nat, build : Nat, seq : Nat]
    BY DEF DraftInit
  <2>4. quiet \in BOOLEAN
    BY DEF DraftInit, StreamInit
  <2>5. lost \in 0..MaxLost
    BY StreamBounds DEF DraftInit, StreamInit
  <2> QED BY <1>1, <2>1, <2>2, <2>3, <2>4, <2>5 DEF DraftTyped
<1>3. PiecesInOrder /\ TextStands
  BY <1>1 DEF PiecesInOrder, TextStands
<1> QED BY <1>2, <1>3 DEF DraftInv

\* A run that begins, and a build, come after those there were.
LEMMA LaterBuilds ==
  ASSUME DraftInv, builder' \in [run : Nat, build : Nat, seq : Nat], NoLater(ThisBuild, ThisBuild'), draft' = draft,
         started' = started, inbox' = inbox
  PROVE  PiecesInOrder' /\ TextStands'
<1>1. ThisBuild \in BuildNumbers /\ ThisBuild' \in BuildNumbers
  BY DEF DraftInv, DraftTyped, ThisBuild, BuildNumbers
<1>2. \A i \in DOMAIN inbox : inbox[i].event = "builder_token" => inbox[i].build \in BuildNumbers
  BY DEF DraftInv, DraftTyped, DraftMessages, Pieces
<1>3. started \subseteq BuildNumbers
  BY DEF DraftInv, DraftTyped
<1>4. PiecesInOrder'
  BY <1>1, <1>2, <1>3, InTurn DEF DraftInv, PiecesInOrder
<1>5. TextStands'
  BY DEF DraftInv, TextStands
<1> QED BY <1>4, <1>5

\* A message that arrives comes after those that wait, and is of the build under way.
LEMMA PieceArrives ==
  ASSUME DraftInv, NEW message \in DraftMessages, Publish(message) \/ PublishStart(message),
         message.event = "builder_token" => message.build = ThisBuild,
         builder' \in [run : Nat, build : Nat, seq : Nat], NoLater(ThisBuild, ThisBuild'), draft' = draft,
           started' = started
  PROVE  DraftInv'
<1>1. inbox \in Seq(DraftMessages) /\ quiet \in BOOLEAN /\ lost \in 0..MaxLost
  BY DEF DraftInv, DraftTyped
<1>2. /\ quiet' \in BOOLEAN /\ lost' \in 0..MaxLost /\ inbox' \in Seq(DraftMessages)
      /\ \/ inbox' = inbox
         \/ /\ inbox'[Len(inbox')] = message /\ Len(inbox') = Len(inbox) + 1 /\ Len(inbox) \in Nat
            /\ \A i \in DOMAIN inbox : i \in DOMAIN inbox' /\ inbox'[i] = inbox[i] /\ i # Len(inbox')
               /\ i <= Len(inbox)
            /\ \A i \in DOMAIN inbox' : i \in Nat /\ (i \in DOMAIN inbox \/ i = Len(inbox'))
  BY <1>1, Sending
<1>3. DraftTyped'
  BY <1>2 DEF DraftInv, DraftTyped
<1>4. ThisBuild \in BuildNumbers /\ ThisBuild' \in BuildNumbers
  BY DEF DraftInv, DraftTyped, ThisBuild, BuildNumbers
<1>5. \A i \in DOMAIN inbox : inbox[i].event = "builder_token" => inbox[i].build \in BuildNumbers
  BY DEF DraftInv, DraftTyped, DraftMessages, Pieces
<1>6. started \subseteq BuildNumbers
  BY DEF DraftInv, DraftTyped
<1>7. \A b \in started : NoLater(b, ThisBuild) /\ NoLater(b, ThisBuild')
  BY <1>4, <1>6, InTurn DEF DraftInv, PiecesInOrder
<1>8. \A i \in DOMAIN inbox : inbox[i].event = "builder_token" =>
        /\ NoLater(inbox[i].build, ThisBuild) /\ NoLater(inbox[i].build, ThisBuild')
        /\ \A b \in started : NoLater(b, inbox[i].build)
        /\ \A j \in DOMAIN inbox : inbox[j].event = "builder_token" /\ i <= j
           => NoLater(inbox[i].build, inbox[j].build)
  BY <1>4, <1>5, InTurn DEF DraftInv, PiecesInOrder
<1>9. CASE inbox' = inbox
  BY <1>3, <1>7, <1>8, <1>9 DEF DraftInv, PiecesInOrder, TextStands
<1>10. CASE inbox' # inbox
  <2>1. ASSUME NEW i \in DOMAIN inbox', inbox'[i].event = "builder_token"
        PROVE  /\ NoLater(inbox'[i].build, ThisBuild')
               /\ \A b \in started : NoLater(b, inbox'[i].build)
               /\ \A j \in DOMAIN inbox' : inbox'[j].event = "builder_token" /\ i <= j
                  => NoLater(inbox'[i].build, inbox'[j].build)
    <3>1. CASE i \in DOMAIN inbox
      BY <1>2, <1>8, <1>10, <2>1, <3>1
    <3>2. CASE i = Len(inbox')
      <4>1. inbox'[i].build = ThisBuild
        BY <1>2, <1>10, <2>1, <3>2
      <4>2. \A j \in DOMAIN inbox' : i <= j => j = i
        BY <1>2, <1>10, <3>2
      <4> QED BY <1>4, <1>7, <4>1, <4>2, InTurn
    <3> QED BY <1>2, <1>10, <3>1, <3>2
  <2>2. PiecesInOrder'
    BY <1>7, <2>1 DEF PiecesInOrder
  <2> QED BY <1>3, <2>2 DEF DraftInv, TextStands
<1> QED BY <1>9, <1>10

\* The first piece of a build: the text begins with it, and whatever waits is not of a build before.
LEMMA ReadingAFirst ==
  ASSUME DraftInv, ReadEvent, Head(inbox).event = "builder_token", Head(inbox).seq = 0
  PROVE  DraftInv'
<1> DEFINE message == Head(inbox)
<1>1. inbox \in Seq(DraftMessages) /\ inbox # <<>> /\ inbox' = Tail(inbox)
  BY DEF DraftInv, DraftTyped, ReadEvent
<1>2. /\ inbox' \in Seq(DraftMessages) /\ message = inbox[1] /\ 1 \in DOMAIN inbox /\ message \in DraftMessages
      /\ \A i \in DOMAIN inbox' : i \in Nat /\ i # 0 /\ i + 1 \in DOMAIN inbox /\ inbox'[i] = inbox[i + 1]
  BY <1>1, OneLess
<1>3. message \in Pieces /\ message.build \in BuildNumbers
  BY <1>2 DEF DraftMessages, Pieces
<1>4. started' = started \cup {message.build} /\ builder' = builder /\ quiet' = quiet /\ lost' = lost
  BY DEF ReadEvent
<1>5. /\ draft' \in Texts /\ draft'.pieces = <<message>> /\ <<message>> \in Seq(Pieces) /\ Len(<<message>>) = 1
      /\ <<message>>[1] = message /\ draft'.next = 1 /\ draft'.readable
  <2> DEFINE text == [NoText EXCEPT !.readable = TRUE]
  <2>1. NoText \in Texts
    <3>1. <<>> \in Seq(Pieces)
      OBVIOUS
    <3> QED BY <3>1 DEF NoText, Texts
  <2>2. NoText.pieces = <<>> /\ NoText.next = 0
    BY DEF NoText
  <2>3. text \in Texts /\ text.pieces = NoText.pieces /\ text.next = NoText.next /\ text.readable
    BY <2>1 DEF Texts
  <2> HIDE DEF text
  <2>4. draft' = [text EXCEPT !.pieces = Append(text.pieces, message), !.next = text.next + 1]
    BY <2>2, <2>3 DEF ReadEvent, JoinNext, text
  <2>5. Append(text.pieces, message) = <<message>>
    BY <2>2, <2>3
  <2>6. text.next + 1 = 1
    BY <2>2, <2>3
  <2>7. <<message>> \in Seq(Pieces) /\ Len(<<message>>) = 1 /\ <<message>>[1] = message
    BY <1>3
  <2>8. draft' = [text EXCEPT !.pieces = <<message>>, !.next = 1]
    BY <2>4, <2>5, <2>6
  <2>9. draft' \in Texts /\ draft'.pieces = <<message>> /\ draft'.next = 1 /\ draft'.readable
    BY <2>3, <2>7, <2>8 DEF Texts
  <2> QED BY <2>7, <2>9
<1>6. DraftTyped'
  <2>1. started' \subseteq BuildNumbers
    BY <1>3, <1>4 DEF DraftInv, DraftTyped
  <2> QED BY <1>2, <1>4, <1>5, <2>1 DEF DraftInv, DraftTyped
<1>7. /\ NoLater(message.build, ThisBuild)
      /\ \A b \in started : NoLater(b, message.build) /\ NoLater(b, ThisBuild)
      /\ \A j \in DOMAIN inbox : inbox[j].event = "builder_token" => NoLater(message.build, inbox[j].build)
  <2>1. \A j \in DOMAIN inbox : 1 <= j
    BY <1>1
  <2> QED BY <1>2, <2>1 DEF DraftInv, PiecesInOrder
<1>8. \A b \in started' : NoLater(b, ThisBuild') /\ NoLater(b, message.build)
  BY <1>3, <1>4, <1>7, InTurn DEF ThisBuild
<1>9. ASSUME NEW i \in DOMAIN inbox', inbox'[i].event = "builder_token"
      PROVE  /\ NoLater(inbox'[i].build, ThisBuild')
             /\ \A b \in started' : NoLater(b, inbox'[i].build)
             /\ \A j \in DOMAIN inbox' : inbox'[j].event = "builder_token" /\ i <= j
                => NoLater(inbox'[i].build, inbox'[j].build)
  <2>1. i + 1 \in DOMAIN inbox /\ inbox'[i] = inbox[i + 1] /\ i \in Nat
    BY <1>2
  <2>2. ASSUME NEW j \in DOMAIN inbox', inbox'[j].event = "builder_token", i <= j
        PROVE  NoLater(inbox'[i].build, inbox'[j].build)
    <3>1. j + 1 \in DOMAIN inbox /\ inbox'[j] = inbox[j + 1] /\ j \in Nat /\ i + 1 <= j + 1
      BY <1>2, <2>1, <2>2
    <3> QED BY <1>9, <2>1, <2>2, <3>1 DEF DraftInv, PiecesInOrder
  <2>3. /\ NoLater(inbox'[i].build, ThisBuild) /\ \A b \in started : NoLater(b, inbox'[i].build)
        /\ NoLater(message.build, inbox'[i].build)
    BY <1>7, <1>9, <2>1 DEF DraftInv, PiecesInOrder
  <2> QED BY <1>4, <2>2, <2>3 DEF ThisBuild
<1>10. PiecesInOrder'
  BY <1>8, <1>9 DEF PiecesInOrder
<1>11. TextStands'
  <2>1. \A i \in DOMAIN <<message>> : i = 1
    OBVIOUS
  <2> QED BY <1>4, <1>5, <1>8, <2>1 DEF TextStands
<1> QED BY <1>6, <1>10, <1>11 DEF DraftInv

\* Anything else that is read: the text goes on with it, or is read no more, or is forgotten.
LEMMA ReadingOn ==
  ASSUME DraftInv, ReadEvent, ~(Head(inbox).event = "builder_token" /\ Head(inbox).seq = 0)
  PROVE  DraftInv'
<1> DEFINE message == Head(inbox)
<1>1. inbox \in Seq(DraftMessages) /\ inbox # <<>> /\ inbox' = Tail(inbox)
  BY DEF DraftInv, DraftTyped, ReadEvent
<1>2. /\ inbox' \in Seq(DraftMessages) /\ message = inbox[1] /\ 1 \in DOMAIN inbox /\ message \in DraftMessages
      /\ \A i \in DOMAIN inbox' : i \in Nat /\ i # 0 /\ i + 1 \in DOMAIN inbox /\ inbox'[i] = inbox[i + 1]
  BY <1>1, OneLess
<1>3. started' = started /\ builder' = builder /\ quiet' = quiet /\ lost' = lost
  BY DEF ReadEvent
<1>4. PiecesInOrder'
  <2>1. ASSUME NEW i \in DOMAIN inbox', inbox'[i].event = "builder_token"
        PROVE  /\ NoLater(inbox'[i].build, ThisBuild)
               /\ \A b \in started : NoLater(b, inbox'[i].build)
               /\ \A j \in DOMAIN inbox' : inbox'[j].event = "builder_token" /\ i <= j
                  => NoLater(inbox'[i].build, inbox'[j].build)
    <3>1. i + 1 \in DOMAIN inbox /\ inbox'[i] = inbox[i + 1] /\ i \in Nat
      BY <1>2
    <3>2. ASSUME NEW j \in DOMAIN inbox', inbox'[j].event = "builder_token", i <= j
          PROVE  NoLater(inbox'[i].build, inbox'[j].build)
      <4>1. j + 1 \in DOMAIN inbox /\ inbox'[j] = inbox[j + 1] /\ j \in Nat /\ i + 1 <= j + 1
        BY <1>2, <3>1, <3>2
      <4> QED BY <2>1, <3>1, <3>2, <4>1 DEF DraftInv, PiecesInOrder
    <3> QED BY <2>1, <3>1, <3>2 DEF DraftInv, PiecesInOrder
  <2> QED BY <1>3, <2>1 DEF DraftInv, PiecesInOrder, ThisBuild
<1>5. CASE message.event = "planning_started"
  <2>1. draft' = [pieces |-> <<>>, next |-> 0, readable |-> FALSE]
    BY <1>5 DEF ReadEvent, NoText
  <2>2. draft' \in Texts
    BY <2>1 DEF Texts
  <2>3. TextStands'
    BY <2>1 DEF TextStands
  <2> QED BY <1>2, <1>3, <1>4, <2>2, <2>3 DEF DraftInv, DraftTyped
<1>6. CASE message.event # "planning_started"
  <2>1. message \in Pieces /\ message.event = "builder_token" /\ message.build \in BuildNumbers
    BY <1>2, <1>6 DEF DraftMessages, Pieces
  <2>2. draft' = JoinNext(draft, message)
    BY <1>6, <2>1 DEF ReadEvent
  <2>3. CASE ~(draft.readable /\ message.seq = draft.next)
    <3>1. draft' \in Texts /\ ~draft'.readable /\ draft'.next = draft.next /\ draft'.pieces = draft.pieces
      BY <2>2, <2>3 DEF JoinNext, DraftInv, DraftTyped, Texts
    <3> QED BY <1>2, <1>3, <1>4, <3>1 DEF DraftInv, DraftTyped, TextStands
  <2>4. CASE draft.readable /\ message.seq = draft.next
    <3>1. draft.pieces \in Seq(Pieces) /\ draft.next \in Nat /\ draft.next = Len(draft.pieces) /\ draft.pieces # <<>>
      BY <2>4 DEF DraftInv, DraftTyped, Texts, TextStands
    <3>2. draft' = [draft EXCEPT !.pieces = Append(draft.pieces, message), !.next = draft.next + 1]
      BY <2>2, <2>4 DEF JoinNext
    <3> DEFINE more == Append(draft.pieces, message)
    <3>3. draft'.pieces = more /\ draft'.next = draft.next + 1 /\ draft'.readable = draft.readable
      BY <3>2 DEF DraftInv, DraftTyped, Texts
    <3>4. /\ more \in Seq(Pieces) /\ Len(more) = Len(draft.pieces) + 1 /\ Len(draft.pieces) \in Nat
          /\ more[Len(more)] = message
          /\ \A i \in DOMAIN draft.pieces : i \in DOMAIN more /\ more[i] = draft.pieces[i]
          /\ \A i \in DOMAIN more : i \in DOMAIN draft.pieces \/ i = Len(more)
      BY <2>1, <3>1, OneMore
    <3>5. draft' \in Texts
      <4>1. draft.next + 1 \in Nat /\ draft \in Texts
        BY <3>1 DEF DraftInv, DraftTyped
      <4> QED BY <3>2, <3>4, <4>1 DEF Texts
    <3>6. 1 \in DOMAIN draft.pieces /\ more[1] = draft.pieces[1] /\ more # <<>>
      BY <3>1, <3>4
    <3>7. message.build = more[1].build \/ message.build \notin started
      <4>1. more[1].build \in started /\ \A b \in started : NoLater(b, more[1].build)
        BY <2>4, <3>6 DEF DraftInv, TextStands
      <4>2. NoLater(more[1].build, message.build)
        BY <1>2, <2>1, <4>1 DEF DraftInv, PiecesInOrder
      <4>3. more[1].build \in BuildNumbers
        BY <4>1 DEF DraftInv, DraftTyped
      <4> QED BY <2>1, <4>1, <4>2, <4>3, InTurn
    <3>8. \A i \in DOMAIN more : more[i].seq = i - 1
          /\ (more[i].build = more[1].build \/ more[i].build \notin started)
      <4>1. \A i \in DOMAIN draft.pieces :
              draft.pieces[i].seq = i - 1
                /\ (draft.pieces[i].build = draft.pieces[1].build \/ draft.pieces[i].build \notin started)
        BY <2>4 DEF DraftInv, TextStands
      <4>2. message.seq = Len(more) - 1
        BY <2>4, <3>1, <3>4
      <4> QED BY <3>4, <3>6, <3>7, <4>1, <4>2
    <3>9. TextStands'
      BY <1>3, <2>4, <3>1, <3>3, <3>4, <3>6, <3>8 DEF DraftInv, TextStands
    <3> QED BY <1>2, <1>3, <1>4, <3>5, <3>9 DEF DraftInv, DraftTyped
  <2> QED BY <2>3, <2>4
<1> QED BY <1>5, <1>6

\* Every step of it.
LEMMA DraftKeeps == DraftInv /\ [DraftNext]_draft_vars => DraftInv'
<1> SUFFICES ASSUME DraftInv, [DraftNext]_draft_vars PROVE DraftInv'
  OBVIOUS
<1>1. builder \in [run : Nat, build : Nat, seq : Nat] /\ DraftTyped
  BY DEF DraftInv, DraftTyped
<1>2. [event |-> "planning_started"] \in DraftMessages
  BY DEF DraftMessages
<1>3. CASE StartRun
  <2>1. builder' = [run |-> builder.run + 1, build |-> 0, seq |-> 0] /\ draft' = draft /\ started' = started
    BY <1>3 DEF StartRun
  <2>2. builder' \in [run : Nat, build : Nat, seq : Nat] /\ NoLater(ThisBuild, ThisBuild')
    BY <1>1, <2>1 DEF ThisBuild, NoLater
  <2> QED BY <1>2, <1>3, <2>1, <2>2, PieceArrives DEF StartRun
<1>4. CASE WritePiece
  <2>1. /\ builder' = [builder EXCEPT !.seq = builder.seq + 1] /\ draft' = draft /\ started' = started
        /\ Publish([event |-> "builder_token", build |-> ThisBuild, seq |-> builder.seq])
    BY <1>4 DEF WritePiece, ThisBuild
  <2>2. builder' \in [run : Nat, build : Nat, seq : Nat] /\ ThisBuild' = ThisBuild
    BY <1>1, <2>1 DEF ThisBuild
  <2>3. ThisBuild \in BuildNumbers
    BY <1>1 DEF ThisBuild, BuildNumbers
  <2>4. [event |-> "builder_token", build |-> ThisBuild, seq |-> builder.seq] \in DraftMessages
    BY <1>1, <2>3 DEF DraftMessages, Pieces
  <2> QED BY <2>1, <2>2, <2>3, <2>4, InTurn, PieceArrives
<1>5. CASE BuildAgain
  <2>1. /\ builder' = [builder EXCEPT !.build = builder.build + 1, !.seq = 0] /\ draft' = draft /\ started' = started
        /\ inbox' = inbox /\ quiet' = quiet /\ lost' = lost
    BY <1>5 DEF BuildAgain, stream_vars
  <2>2. builder' \in [run : Nat, build : Nat, seq : Nat] /\ builder'.run = builder.run
        /\ builder'.build = builder.build + 1
    <3>1. builder.build + 1 \in Nat
      BY <1>1
    <3> QED BY <1>1, <2>1, <3>1
  <2>3. NoLater(ThisBuild, ThisBuild')
    BY <1>1, <2>2 DEF ThisBuild, NoLater
  <2> QED BY <1>1, <2>1, <2>2, <2>3, LaterBuilds DEF DraftInv, DraftTyped
<1>6. CASE ReadEvent
  BY <1>6, ReadingAFirst, ReadingOn
<1>7. CASE ResetEvents
  <2>1. draft' = [pieces |-> <<>>, next |-> 0, readable |-> FALSE]
        /\ UNCHANGED <<inbox, quiet, lost, builder, started>>
    BY <1>7 DEF ResetEvents, NoText, stream_vars
  <2>2. draft' \in Texts
    BY <2>1 DEF Texts
  <2> QED BY <1>1, <2>1, <2>2 DEF DraftInv, DraftTyped, PiecesInOrder, TextStands, ThisBuild
<1>8. CASE DraftStream \/ UNCHANGED draft_vars
  <2>1. UNCHANGED <<inbox, builder, draft, started>> /\ quiet' \in BOOLEAN
    BY <1>1, <1>8 DEF DraftStream, QuietTimePasses, StreamBreaks, Subscribe, draft_vars, stream_vars, DraftTyped
  <2>2. lost' = lost \/ (lost < MaxLost /\ lost' = lost + 1)
    BY <1>8 DEF DraftStream, QuietTimePasses, StreamBreaks, Subscribe, draft_vars, stream_vars
  <2>3. lost' \in 0..MaxLost
    BY <1>1, <2>2, StreamBounds DEF DraftTyped
  <2> QED BY <1>1, <2>1, <2>3 DEF DraftInv, DraftTyped, PiecesInOrder, TextStands, ThisBuild
<1> QED BY <1>3, <1>4, <1>5, <1>6, <1>7, <1>8 DEF DraftNext

LEMMA DraftReads == DraftInv => DraftReadsTrue
<1> SUFFICES ASSUME DraftInv, NEW i \in DOMAIN Shown
             PROVE  Shown[i].seq = i - 1 /\ (Shown[i].build = Shown[1].build \/ Shown[i].build \notin started)
  BY DEF DraftReadsTrue
<1>1. CASE draft.readable
  BY <1>1 DEF DraftInv, TextStands, Shown
<1>2. CASE ~draft.readable
  <2>1. Shown = <<>>
    BY <1>2 DEF Shown
  <2> QED BY <2>1
<1> QED BY <1>1, <1>2

----------------------------------------------------------------------------
(* What the page shows.                                                    *)

\* At rest the page shows the trip's plan, and a failure of the last run with what may be done about it, unless
\* something it was told had been overtaken; and the text of a plan being written is read from its first piece on,
\* without one left out.
THEOREM PageReadsTheTruth == MCSpec => []PageReadsTrue
<1> DEFINE Inv == (part = "page" => PageInv) /\ (part = "draft" => DraftInv)
<1>1. MCInit => Inv
  BY PageStart, DraftStart DEF MCInit
<1>2. ASSUME Inv, [MCNext]_all PROVE Inv'
  <2>1. CASE part \notin {"page", "draft"}
    BY <1>2, <2>1 DEF MCNext, all
  <2>2. CASE PagePart /\ part' = part
    BY <1>2, <2>2, PageKeeps DEF PagePart
  <2>3. CASE DraftPart /\ part' = part
    BY <1>2, <2>3, DraftKeeps DEF DraftPart
  <2>4. CASE UNCHANGED <<the_page, part>>
    <3>1. UNCHANGED page_vars /\ UNCHANGED draft_vars /\ part' = part
      BY <2>4 DEF the_page, idle_draft, page_vars, draft_vars
    <3> QED BY <1>2, <3>1, PageKeeps, DraftKeeps
  <2>5. CASE part \in {"page", "draft"} /\ MCNext /\ ~PagePart /\ ~DraftPart
    BY <2>5 DEF MCNext, EmbeddingsPart, ChangesPart, LogPart, UsagePart, PreferencesPart, MetersPart, TracePart,
                HealthPart, TalkPart
  <2> QED BY <1>2, <2>1, <2>2, <2>3, <2>4, <2>5 DEF MCNext, all
<1>3. Inv => PageReadsTrue
  BY PageShows, DraftReads DEF PageReadsTrue
<1> QED BY <1>1, <1>2, <1>3, PTL DEF MCSpec

----------------------------------------------------------------------------
(* The rows of a trip's runs.                                              *)

EndReasons == {"escalate", "nothing_found", "builder_failed"}
RunKinds == SUB_AGENTS \cup {"full"}
LogRows == [agent : SUB_AGENTS \cup ENDS_OF_RUNS \cup EndReasons, run : Nat \ {0}]
TripStates == [status : {"pending", "planning", "completed", "failed"}, planned : BOOLEAN]
WorkStates ==
  [n : Nat, kind : RunKinds, had : BOOLEAN, at : {"searching", "marked", "logged", "saved", "settling", "crashed",
    "over"},
   why : {"none"} \cup EndReasons, left : SUBSET SUB_AGENTS, again : BOOLEAN]
LogTyped ==
  /\ log \in Seq(LogRows) /\ state_of \in TripStates /\ work \in WorkStates
  /\ note_of \in RunKinds \cup {"none"} /\ unended \in BOOLEAN

\* What a run under way has the trip's status say, and what it is there for.
WorkHolds(w, s) ==
  /\ w.n = 0 => s.status = "pending" /\ w.at = "over"
  /\ w.at # "over" /\ w.kind # "full" => s.planned
  /\ w.at = "searching" => s.status = "planning"
  /\ w.at = "marked" => s.status = "failed" /\ w.why \in EndReasons
  /\ w.at \in {"logged", "settling"} =>
       \/ s.status = "failed" /\ w.why \in EndReasons
       \/ s.status = "planning" /\ w.kind # "full"
  /\ w.at = "saved" => s.status = "completed"

\* The rows after row b are run n's, and those before end with the end of a run: if run n wrote one, it is its last.
OwnRows(b, rows_, n) ==
  /\ b \in 0..Len(rows_) /\ (b # 0 => rows_[b].agent \in ENDS_OF_RUNS)
  /\ \A i \in DOMAIN rows_ :
       /\ i <= b => rows_[i].run < n
       /\ i > b => rows_[i].run = n
       /\ b < i /\ i < Len(rows_) => rows_[i].agent \notin ENDS_OF_RUNS
\* What those rows are, from where the run stands.
Whole(kind) == IF kind = "full" THEN SUB_AGENTS ELSE {kind}
OwnSteps(b, rows_, w, s) ==
  /\ w.at \notin {"settling", "over"} => \A i \in DOMAIN rows_ : i > b => rows_[i].agent \notin ENDS_OF_RUNS
  /\ w.at \in {"searching", "marked"} => \A i \in DOMAIN rows_ : i > b => rows_[i].agent \in SUB_AGENTS
  /\ w.at \in {"logged", "settling"} /\ s.status = "failed" =>
       /\ \E i \in DOMAIN rows_ : i > b /\ rows_[i].agent = w.why
       /\ \A i \in DOMAIN rows_ : i > b => rows_[i].agent \in SUB_AGENTS \cup {w.why, "orchestrator"}
  /\ s.status = "failed" \/ (w.at = "searching" /\ w.left # Whole(w.kind)) => b < Len(rows_)
RowsHold(b) == OwnRows(b, log, work.n) /\ OwnSteps(b, log, work, state_of)
LogInv == LogTyped /\ WorkHolds(work, state_of) /\ (~unended => \E b \in Nat : RowsHold(b))

\* Of some rows there is a last one.
LEMMA LastIsThere ==
  ASSUME NEW S, NEW m \in Nat, S \subseteq 1..m, S # {}
  PROVE  LastOf(S) \in S /\ \A j \in S : j <= LastOf(S)
<1> DEFINE T == {k \in Nat : \A j \in S : j <= k}
<1>1. m \in T
  OBVIOUS
<1>2. PICK k \in T : \A y \in T : ~(<<y, k>> \in OpToRel(<, Nat))
  <2>1. T \subseteq Nat /\ T # {}
    BY <1>1
  <2> HIDE DEF T
  <2> QED BY <2>1, NatLessThanWellFounded, WFMin
<1>3. \A y \in T : ~(y < k)
  BY <1>2 DEF OpToRel
<1>4. k \in S
  <2> SUFFICES ASSUME k \notin S PROVE FALSE
    OBVIOUS
  <2>1. PICK j \in S : TRUE
    OBVIOUS
  <2>2. k \in Nat /\ j <= k /\ j \in 1..m
    OBVIOUS
  <2>3. k - 1 \in Nat /\ \A i \in S : i <= k - 1
    <3>1. \A i \in S : i \in Nat /\ i <= k /\ i # k
      OBVIOUS
    <3> QED BY <2>2, <3>1
  <2>4. k - 1 \in T /\ k - 1 < k
    BY <2>2, <2>3
  <2> QED BY <1>3, <2>4
<1>5. \E i \in S : \A j \in S : j <= i
  BY <1>4
<1> QED BY <1>5 DEF LastOf

\* While a run's rows are some, they are what is told of; before it has any, nothing of theirs is.
LEMMA LatestIsOwn ==
  ASSUME LogTyped, NEW b \in Nat, OwnRows(b, log, work.n)
  PROVE  /\ \A i \in DOMAIN log : i > last_end => i > b
         /\ b < Len(log) => latest_run = (b + 1)..Len(log)
<1> DEFINE k == Len(log)
<1>1. k \in Nat /\ DOMAIN log = 1..k /\ b \in 0..k /\ run_ends \subseteq 1..k
  BY DEF LogTyped, OwnRows, run_ends
<1>2. b # 0 => b \in run_ends
  BY <1>1 DEF OwnRows, run_ends
<1>3. run_ends # {} => last_end \in run_ends /\ \A j \in run_ends : j <= last_end
  BY <1>1, LastIsThere DEF last_end
<1>4. run_ends = {} => last_end = 0
  BY DEF last_end
<1> HIDE DEF k
<1>5. last_end \in 0..k /\ b <= last_end
  <2>1. CASE run_ends = {}
    <3>1. b = 0 /\ last_end = 0
      BY <1>2, <1>4, <2>1
    <3> QED BY <1>1, <3>1
  <2>2. CASE run_ends # {}
    <3>1. last_end \in 1..k
      BY <1>1, <1>3, <2>2
    <3>2. b # 0 => b <= last_end
      BY <1>2, <1>3, <2>2
    <3> QED BY <1>1, <3>1, <3>2
  <2> QED BY <2>1, <2>2
<1>6. ASSUME b < k PROVE latest_run = (b + 1)..k
  <2>1. \A i \in run_ends : i <= b \/ i = k
    BY <1>1 DEF OwnRows, run_ends
  <2>2. CASE k \in run_ends
    <3>1. last_end = k /\ since_last_end = {}
      <4>1. last_end \in Int /\ last_end <= k /\ k <= last_end /\ k \in Int
        BY <1>1, <1>3, <1>5, <2>2
      <4>2. last_end = k
        BY <4>1
      <4> QED BY <1>1, <4>2 DEF since_last_end, k
    <3>2. \A i \in run_ends \ {last_end} : i <= b
      BY <2>1, <3>1
    <3>3. previous_end = b
      <4> DEFINE before == run_ends \ {last_end}
      <4>1. before \subseteq 1..k
        BY <1>1
      <4>2. CASE before = {}
        BY <1>1, <1>2, <1>6, <3>1, <4>2 DEF previous_end
      <4>3. CASE before # {}
        <5>1. LastOf(before) \in before /\ \A j \in before : j <= LastOf(before)
          <6> HIDE DEF before
          <6> QED BY <1>1, <4>1, <4>3, LastIsThere
        <5>2. b # 0 /\ b \in before
          <6>1. PICK i \in before : i \in Nat /\ i # 0 /\ i <= b
            <7>1. PICK i \in before : TRUE
              BY <4>3
            <7>2. i \in 1..k /\ i <= b
              BY <3>2, <4>1, <7>1
            <7>3. i \in Nat /\ i # 0
              BY <1>1, <7>2
            <7> QED BY <7>1, <7>2, <7>3
          <6>2. b # 0 /\ b # last_end
            BY <1>1, <1>6, <3>1, <6>1
          <6> QED BY <1>2, <6>2
        <5>3. LastOf(before) = b
          <6>1. LastOf(before) \in Int /\ LastOf(before) <= b /\ b <= LastOf(before) /\ b \in Int
            <7> HIDE DEF before
            <7>1. LastOf(before) \in Int /\ b \in Int
              <8>1. LastOf(before) \in 1..k
                BY <4>1, <5>1
              <8> QED BY <1>1, <8>1
            <7>2. LastOf(before) <= b
              BY <3>2, <5>1 DEF before
            <7> QED BY <5>1, <5>2, <7>1, <7>2
          <6> QED BY <6>1
        <5> QED BY <4>3, <5>3 DEF previous_end
      <4> QED BY <4>2, <4>3
    <3> QED BY <3>1, <3>3 DEF latest_run, k
  <2>3. CASE k \notin run_ends
    <3>1. last_end = b
      <4>1. CASE run_ends = {}
        BY <1>2, <1>4, <4>1
      <4>2. CASE run_ends # {}
        <5>1. last_end <= b /\ b <= last_end /\ last_end \in Int /\ b \in Int
          BY <1>1, <1>3, <1>5, <2>1, <2>3, <4>2
        <5> QED BY <5>1
      <4> QED BY <4>1, <4>2
    <3>2. since_last_end = (b + 1)..k
      BY <3>1 DEF since_last_end, k
    <3>3. k \in (b + 1)..k
      BY <1>1, <1>6
    <3> QED BY <3>2, <3>3 DEF latest_run
  <2> QED BY <2>2, <2>3
<1> QED BY <1>1, <1>5, <1>6 DEF k

\* A row of an agent is among those told of.
LEMMA RowIsThere ==
  ASSUME LogTyped, NEW S, S \subseteq DOMAIN log, NEW agent, Has(S, agent)
  PROVE  \E i \in S : log[i].agent = agent /\ TheRow(S, agent) = log[i]
<1> DEFINE its == {i \in S : log[i].agent = agent}
<1>1. Len(log) \in Nat /\ its \subseteq 1..Len(log) /\ its # {}
  BY DEF LogTyped, Has
<1>2. LastOf(its) \in its
  <2> HIDE DEF its
  <2> QED BY <1>1, LastIsThere
<1> QED BY <1>2 DEF TheRow

\* A row has a run.
LEMMA RowKnown == ASSUME LogTyped, NEW i \in DOMAIN log PROVE log[i].run \in Nat \ {0} /\ i \in Nat
<1>1. log[i] \in LogRows /\ i \in Nat
  BY DEF LogTyped
<1> QED BY <1>1 DEF LogRows

\* What the rows of the latest run say is what GET /status tells.
LEMMA LogTells == LogInv => StatusTellsTheLatest
<1> SUFFICES ASSUME LogInv, ~unended, NEW b \in Nat, RowsHold(b)
             PROVE  /\ state_of.status = "failed" =>
                         /\ told # "none" => TheRow(latest_run, told).run = work.n
                         /\ work.at \in {"logged", "settling"} => told = work.why
                         /\ work.at = "marked" => told = "none"
                    /\ state_of.status = "planning" =>
                         \A agent \in SUB_AGENTS :
                           LET shown == progress[agent].run
                           IN CASE note_of \in SUB_AGENTS /\ agent # note_of -> Has(DOMAIN log, agent) => shown # 0
                                [] OTHER -> shown \in {0, work.n}
  BY DEF LogInv, StatusTellsTheLatest
<1>1. LogTyped /\ WorkHolds(work, state_of) /\ OwnRows(b, log, work.n) /\ OwnSteps(b, log, work, state_of)
  BY DEF LogInv, RowsHold
<1>2. Len(log) \in Nat /\ DOMAIN log = 1..Len(log)
  BY <1>1 DEF LogTyped
<1>3. ASSUME state_of.status = "failed"
      PROVE  /\ told # "none" => TheRow(latest_run, told).run = work.n
             /\ work.at \in {"logged", "settling"} => told = work.why
             /\ work.at = "marked" => told = "none"
  <2>1. b < Len(log)
    BY <1>1, <1>3 DEF OwnSteps
  <2>2. latest_run \subseteq DOMAIN log /\ \A i \in DOMAIN log : i \in latest_run <=> i > b
    <3>1. latest_run = (b + 1)..Len(log)
      BY <1>1, <2>1, LatestIsOwn
    <3> QED BY <1>2, <3>1
  <2>3. told # "none" => Has(latest_run, told)
    BY DEF told
  <2>4. told # "none" => TheRow(latest_run, told).run = work.n
    <3> SUFFICES ASSUME told # "none" PROVE TheRow(latest_run, told).run = work.n
      OBVIOUS
    <3>1. PICK i \in latest_run : TheRow(latest_run, told) = log[i]
      BY <1>1, <2>2, <2>3, RowIsThere
    <3>2. i \in DOMAIN log /\ i > b
      BY <2>2
    <3> QED BY <1>1, <3>1, <3>2 DEF OwnRows
  <2>5. ASSUME work.at \in {"logged", "settling"} PROVE told = work.why
    <3>1. Has(latest_run, work.why)
      BY <1>1, <1>3, <2>2, <2>5 DEF OwnSteps, Has
    <3>2. \A agent \in {"escalate", "nothing_found", "interrupted", "builder_failed"} :
            Has(latest_run, agent) => agent = work.why
      BY <1>1, <1>3, <2>2, <2>5 DEF OwnSteps, Has, SUB_AGENTS
    <3>3. work.why \in EndReasons
      BY <1>1, <1>3, <2>5 DEF WorkHolds
    <3> QED BY <1>3, <3>1, <3>2, <3>3 DEF told, EndReasons
  <2>6. ASSUME work.at = "marked" PROVE told = "none"
    <3>1. \A agent \in {"escalate", "nothing_found", "interrupted", "builder_failed"} : ~Has(latest_run, agent)
      BY <1>1, <2>2, <2>6 DEF OwnSteps, Has, SUB_AGENTS
    <3> QED BY <3>1 DEF told
  <2> QED BY <2>4, <2>5, <2>6
<1>4. ASSUME state_of.status = "planning", NEW agent \in SUB_AGENTS
      PROVE  CASE note_of \in SUB_AGENTS /\ agent # note_of -> Has(DOMAIN log, agent) => progress[agent].run # 0
               [] OTHER -> progress[agent].run \in {0, work.n}
  <2>1. counted(agent) \subseteq DOMAIN log
    <3>1. since_last_end \subseteq DOMAIN log
      <4>1. last_end \in Nat
        <5>1. run_ends # {} => last_end \in run_ends
          <6>1. run_ends \subseteq 1..Len(log)
            BY <1>2 DEF run_ends
          <6> QED BY <1>2, <6>1, LastIsThere DEF last_end
        <5>2. run_ends = {} => last_end = 0
          BY DEF last_end
        <5> QED BY <1>2, <5>1, <5>2 DEF run_ends
      <4> QED BY <1>2, <4>1 DEF since_last_end
    <3> QED BY <3>1 DEF counted
  <2>2. progress[agent].run = IF Has(counted(agent), agent) THEN TheRow(counted(agent), agent).run ELSE 0
    BY DEF progress
  <2>3. CASE note_of \in SUB_AGENTS /\ agent # note_of
    <3> SUFFICES ASSUME Has(DOMAIN log, agent) PROVE progress[agent].run # 0
      BY <2>3
    <3>1. Has(counted(agent), agent)
      BY <1>4, <2>3 DEF counted
    <3>2. PICK i \in counted(agent) : TheRow(counted(agent), agent) = log[i]
      BY <1>1, <2>1, <3>1, RowIsThere
    <3>3. log[i].run # 0
      BY <1>1, <2>1, RowKnown
    <3> QED BY <2>2, <3>1, <3>2, <3>3
  <2>4. CASE ~(note_of \in SUB_AGENTS /\ agent # note_of)
    <3>1. counted(agent) = since_last_end
      BY <1>4, <2>4 DEF counted
    <3>2. ASSUME Has(counted(agent), agent) PROVE TheRow(counted(agent), agent).run = work.n
      <4>1. PICK i \in counted(agent) : TheRow(counted(agent), agent) = log[i]
        BY <1>1, <2>1, <3>2, RowIsThere
      <4>2. i \in DOMAIN log /\ i > last_end
        <5>1. i \in DOMAIN log /\ i \in since_last_end
          BY <2>1, <3>1
        <5>2. last_end \in Nat
          <6>1. run_ends # {} => last_end \in run_ends
            <7>1. run_ends \subseteq 1..Len(log)
              BY <1>2 DEF run_ends
            <7> QED BY <1>2, <7>1, LastIsThere DEF last_end
          <6>2. run_ends = {} => last_end = 0
            BY DEF last_end
          <6> QED BY <1>2, <6>1, <6>2 DEF run_ends
        <5> QED BY <1>2, <5>1, <5>2 DEF since_last_end
      <4>3. i > b
        BY <1>1, <4>2, LatestIsOwn
      <4> QED BY <1>1, <4>1, <4>2, <4>3 DEF OwnRows
    <3> QED BY <2>2, <2>4, <3>2
  <2> QED BY <2>3, <2>4
<1> QED BY <1>3, <1>4

\* The invariant of the rows.
LEMMA LogStart == LogInit => LogInv
<1> SUFFICES ASSUME LogInit PROVE LogInv
  OBVIOUS
<1>1. /\ log = <<>> /\ state_of = [status |-> "pending", planned |-> FALSE] /\ note_of = "none" /\ unended \in BOOLEAN
      /\ work = [n |-> 0, kind |-> "full", had |-> FALSE, at |-> "over", why |-> "none", left |-> {}, again |-> FALSE]
  BY DEF LogInit
<1>2. LogTyped
  <2>1. work \in WorkStates
    BY <1>1 DEF WorkStates, RunKinds
  <2>2. state_of \in TripStates
    BY <1>1 DEF TripStates
  <2> QED BY <1>1, <2>1, <2>2 DEF LogTyped
<1>3. WorkHolds(work, state_of)
  BY <1>1 DEF WorkHolds
<1>4. RowsHold(0)
  BY <1>1 DEF RowsHold, OwnRows, OwnSteps
<1> QED BY <1>2, <1>3, <1>4 DEF LogInv

\* A step that writes no row.
LEMMA NothingLogged ==
  ASSUME LogInv, log' = log, work'.n = work.n, unended' = unended,
         work' \in WorkStates, state_of' \in TripStates, note_of' \in RunKinds \cup {"none"},
         WorkHolds(work', state_of'), \A b \in Nat : RowsHold(b) => OwnSteps(b, log, work', state_of')
  PROVE  LogInv'
<1>1. LogTyped'
  BY DEF LogInv, LogTyped
<1>2. WorkHolds(work, state_of)'
  OBVIOUS
<1>3. ASSUME NEW b \in Nat, RowsHold(b) PROVE RowsHold(b)'
  BY <1>3 DEF RowsHold
<1> QED BY <1>1, <1>2, <1>3 DEF LogInv

\* A step that writes one.
Grown(b, agent, more) ==
  /\ b < Len(more) /\ more[Len(more)].agent = agent /\ Len(more) \in DOMAIN more /\ Len(more) > b
  /\ \A i \in DOMAIN log : i \in DOMAIN more /\ more[i] = log[i]
  /\ \A i \in DOMAIN more : i \in DOMAIN log \/ i = Len(more)
\* A row of the run under way comes after what there was.
LEMMA RowLogged ==
  ASSUME LogInv, NEW agent \in SUB_AGENTS \cup ENDS_OF_RUNS \cup EndReasons, Logged(agent), work.n # 0,
         work'.n = work.n, unended' = unended,
         work' \in WorkStates, state_of' \in TripStates, note_of' \in RunKinds \cup {"none"},
         WorkHolds(work', state_of'),
         \A b \in Nat : RowsHold(b) => \A i \in DOMAIN log : i > b => log[i].agent \notin ENDS_OF_RUNS,
         \A b \in Nat : RowsHold(b) /\ Grown(b, agent, log') => OwnSteps(b, log', work', state_of')
  PROVE  LogInv'
<1> DEFINE row_ == [agent |-> agent, run |-> work.n]
<1>1. row_ \in LogRows /\ log \in Seq(LogRows)
  BY DEF LogInv, LogTyped, WorkStates, LogRows
<1>2. log' = Append(log, row_)
  BY DEF Logged
<1>3. /\ log' \in Seq(LogRows) /\ Len(log') = Len(log) + 1 /\ Len(log) \in Nat /\ log'[Len(log')] = row_
      /\ \A i \in DOMAIN log : i \in DOMAIN log' /\ log'[i] = log[i] /\ i # Len(log') /\ i <= Len(log)
      /\ \A i \in DOMAIN log' : i \in Nat /\ (i \in DOMAIN log \/ i = Len(log'))
  <2> HIDE DEF row_
  <2> QED BY <1>1, <1>2, OneMore
<1>4. LogTyped'
  BY <1>3 DEF LogInv, LogTyped
<1>5. WorkHolds(work, state_of)'
  OBVIOUS
<1>6. ASSUME NEW b \in Nat, RowsHold(b) PROVE RowsHold(b)'
  <2>1. OwnRows(b, log, work.n)
    BY <1>6 DEF RowsHold
  <2>2. b \in 0..Len(log) /\ b < Len(log') /\ Len(log') \in DOMAIN log' /\ Len(log') > b
    BY <1>3, <2>1 DEF OwnRows
  <2>3. OwnSteps(b, log', work', state_of')
    <3>1. Grown(b, agent, log')
      BY <1>3, <2>2 DEF Grown
    <3> QED BY <1>6, <3>1
  <2>4. OwnRows(b, log', work.n)
    <3>1. b # 0 => log'[b].agent \in ENDS_OF_RUNS
      <4>1. b # 0 => b \in DOMAIN log
        BY <2>2, <1>1
      <4> QED BY <1>3, <2>1, <4>1 DEF OwnRows
    <3>2. ASSUME NEW i \in DOMAIN log'
          PROVE  /\ i <= b => log'[i].run < work.n
                 /\ i > b => log'[i].run = work.n
                 /\ b < i /\ i < Len(log') => log'[i].agent \notin ENDS_OF_RUNS
      <4>1. CASE i \in DOMAIN log
        BY <1>3, <1>6, <2>1, <4>1 DEF OwnRows
      <4>2. CASE i = Len(log')
        BY <1>3, <2>2, <4>2
      <4> QED BY <1>3, <3>2, <4>1, <4>2
    <3> QED BY <1>3, <2>2, <3>1, <3>2 DEF OwnRows
  <2> QED BY <2>3, <2>4 DEF RowsHold
<1> QED BY <1>4, <1>5, <1>6 DEF LogInv

\* The steps of a run, one by one.
LEMMA RunBegins == ASSUME LogInv, NEW kind \in RunKinds, BeginRun(kind) PROVE LogInv'
<1> DEFINE next == [n |-> work.n + 1, kind |-> kind, had |-> state_of.status = "completed", at |-> "searching",
                    why |-> "none", left |-> IF kind = "full" THEN SUB_AGENTS ELSE {kind}, again |-> FALSE]
<1>1. /\ kind = "full" \/ state_of.planned
      /\ work' = next /\ state_of' = [state_of EXCEPT !.status = "planning"] /\ note_of' \in {kind, "none"}
      /\ unended' = (unended \/ last_end # Len(log)) /\ log' = log
  BY DEF BeginRun
<1>2. LogTyped /\ work.n \in Nat /\ (state_of.status = "completed") \in BOOLEAN /\ state_of \in TripStates
  BY DEF LogInv, LogTyped, WorkStates
<1>3. work' \in WorkStates
  BY <1>1, <1>2 DEF WorkStates, RunKinds
<1>4. state_of' \in TripStates /\ state_of'.planned = state_of.planned /\ state_of'.status = "planning"
  BY <1>1, <1>2 DEF TripStates
<1>5. LogTyped'
  BY <1>1, <1>2, <1>3, <1>4 DEF LogTyped
<1>6. WorkHolds(work', state_of')
  BY <1>1, <1>2, <1>4 DEF WorkHolds
<1>7. ASSUME ~unended' PROVE RowsHold(Len(log))'
  <2>1. ~unended /\ last_end = Len(log)
    <3>1. unended' = (unended \/ last_end # Len(log))
      BY <1>1
    <3> QED BY <1>7, <3>1, Zenon
  <2>2. ~unended /\ last_end = Len(log) /\ Len(log) \in Nat /\ DOMAIN log = 1..Len(log)
    BY <1>2, <2>1 DEF LogTyped
  <2>3. Len(log) # 0 => log[Len(log)].agent \in ENDS_OF_RUNS
    <3>1. run_ends = {} => last_end = 0
      BY DEF last_end
    <3>2. run_ends \subseteq 1..Len(log)
      BY <2>2 DEF run_ends
    <3>3. run_ends # {} => last_end \in run_ends
      BY <2>2, <3>2, LastIsThere DEF last_end
    <3> QED BY <2>2, <3>1, <3>3 DEF run_ends
  <2>4. PICK b \in Nat : RowsHold(b)
    BY <2>2 DEF LogInv
  <2>5. \A i \in DOMAIN log : log[i].run < work.n + 1
    <3> SUFFICES ASSUME NEW i \in DOMAIN log PROVE log[i].run < work.n + 1
      OBVIOUS
    <3>1. log[i].run \in Nat /\ i \in Nat
      BY <1>2, RowKnown
    <3>2. log[i].run < work.n \/ log[i].run = work.n
      BY <2>4, <3>1 DEF RowsHold, OwnRows
    <3> QED BY <1>2, <3>1, <3>2
  <2>6. OwnRows(Len(log), log, work.n + 1)
    BY <2>2, <2>3, <2>5 DEF OwnRows
  <2>7. OwnSteps(Len(log), log, work', state_of')
    BY <1>1, <1>4, <2>2 DEF OwnSteps, Whole
  <2> QED BY <1>1, <2>6, <2>7 DEF RowsHold
<1>8. Len(log)' \in Nat
  BY <1>1, <1>2 DEF LogTyped
<1> QED BY <1>1, <1>5, <1>6, <1>7, <1>8 DEF LogInv

\* The kinds of values a run keeps.
LEMMA WorkKnown ==
  ASSUME LogInv
  PROVE  /\ work \in WorkStates /\ state_of \in TripStates /\ note_of \in RunKinds \cup {"none"}
         /\ log \in Seq(LogRows)
         /\ work.n \in Nat /\ work.kind \in RunKinds /\ work.had \in BOOLEAN /\ work.left \subseteq SUB_AGENTS
         /\ work.why \in {"none"} \cup EndReasons /\ state_of.planned \in BOOLEAN /\ WorkHolds(work, state_of)
         /\ work.at # "over" => work.n # 0
<1>1. work \in WorkStates /\ state_of \in TripStates /\ note_of \in RunKinds \cup {"none"} /\ log \in Seq(LogRows)
  BY DEF LogInv, LogTyped
<1>2. WorkHolds(work, state_of)
  BY DEF LogInv
<1> QED BY <1>1, <1>2 DEF WorkStates, TripStates, WorkHolds

LEMMA SearchLogged == ASSUME LogInv, NEW agent \in SUB_AGENTS, LogSearch(agent) PROVE LogInv'
<1>1. /\ work.at = "searching" /\ Logged(agent) /\ UNCHANGED <<state_of, note_of, unended>>
      /\ \/ work' = [work EXCEPT !.left = @ \ {agent}]
         \/ work.kind # "full" /\ work' = [work EXCEPT !.left = {}, !.at = "logged"]
  BY DEF LogSearch
<1>2. /\ work \in WorkStates /\ state_of \in TripStates /\ note_of \in RunKinds \cup {"none"} /\ work.n # 0
      /\ work.left \subseteq SUB_AGENTS /\ WorkHolds(work, state_of)
  BY <1>1, WorkKnown
<1>3. work' \in WorkStates
  BY <1>1, <1>2 DEF WorkStates
<1>4. /\ work'.n = work.n /\ work'.kind = work.kind
      /\ work'.at = "searching" \/ (work.kind # "full" /\ work'.at = "logged")
  BY <1>1, <1>2 DEF WorkStates
<1>5. WorkHolds(work', state_of')
  BY <1>1, <1>2, <1>4 DEF WorkHolds
<1>6. state_of.status = "planning"
  BY <1>1, <1>2 DEF WorkHolds
<1>7. ASSUME NEW b \in Nat, RowsHold(b)
      PROVE  \A i \in DOMAIN log : i > b => log[i].agent \in SUB_AGENTS /\ log[i].agent \notin ENDS_OF_RUNS
  BY <1>1, <1>7 DEF RowsHold, OwnSteps
<1>8. ASSUME NEW b \in Nat, RowsHold(b), Grown(b, agent, log')
      PROVE  OwnSteps(b, log', work', state_of')
  <2>1. \A i \in DOMAIN log' : i > b => log'[i].agent \in SUB_AGENTS
    BY <1>7, <1>8 DEF Grown
  <2>2. \A one \in SUB_AGENTS : one \notin ENDS_OF_RUNS
    BY DEF SUB_AGENTS, ENDS_OF_RUNS
  <2>3. state_of'.status = "planning" /\ work'.at \in {"searching", "logged"} /\ b < Len(log')
    BY <1>1, <1>4, <1>6, <1>8 DEF Grown
  <2> QED BY <2>1, <2>2, <2>3 DEF OwnSteps
<1> QED BY <1>1, <1>2, <1>3, <1>4, <1>5, <1>7, <1>8, RowLogged

LEMMA SearchLoggedAgain == ASSUME LogInv, LogAgain PROVE LogInv'
<1>1. PICK agent \in SUB_AGENTS \ {"hotel_agent"} : Logged(agent)
  BY DEF LogAgain
<1>2. /\ work.at = "searching" /\ work' = [work EXCEPT !.again = TRUE] /\ UNCHANGED <<state_of, note_of, unended>>
  BY DEF LogAgain
<1>3. /\ work \in WorkStates /\ state_of \in TripStates /\ note_of \in RunKinds \cup {"none"} /\ work.n # 0
      /\ WorkHolds(work, state_of)
  BY <1>2, WorkKnown
<1>4. work' \in WorkStates /\ work'.n = work.n /\ work'.kind = work.kind /\ work'.at = "searching"
  BY <1>2, <1>3 DEF WorkStates
<1>5. WorkHolds(work', state_of')
  BY <1>2, <1>3, <1>4 DEF WorkHolds
<1>6. state_of.status = "planning"
  BY <1>2, <1>3 DEF WorkHolds
<1>7. ASSUME NEW b \in Nat, RowsHold(b)
      PROVE  \A i \in DOMAIN log : i > b => log[i].agent \in SUB_AGENTS /\ log[i].agent \notin ENDS_OF_RUNS
  BY <1>2, <1>7 DEF RowsHold, OwnSteps
<1>8. ASSUME NEW b \in Nat, RowsHold(b), Grown(b, agent, log')
      PROVE  OwnSteps(b, log', work', state_of')
  <2>1. \A i \in DOMAIN log' : i > b => log'[i].agent \in SUB_AGENTS
    BY <1>7, <1>8 DEF Grown
  <2>2. \A one \in SUB_AGENTS : one \notin ENDS_OF_RUNS
    BY DEF SUB_AGENTS, ENDS_OF_RUNS
  <2>3. state_of'.status = "planning" /\ work'.at = "searching" /\ b < Len(log')
    BY <1>2, <1>4, <1>6, <1>8 DEF Grown
  <2> QED BY <2>1, <2>2, <2>3 DEF OwnSteps
<1> QED BY <1>1, <1>2, <1>3, <1>4, <1>5, <1>7, <1>8, RowLogged

LEMMA MarkingTheRun == ASSUME LogInv, NEW why \in EndReasons, MarkRun(why) PROVE LogInv'
<1>1. /\ work.at = "searching" /\ log' = log /\ note_of' = note_of /\ unended' = unended
      /\ state_of' = [state_of EXCEPT !.status = "failed"] /\ work' = [work EXCEPT !.at = "marked", !.why = why]
      /\ why = "escalate" => "flight_agent" \notin work.left /\ work.kind \in {"full", "flight_agent"}
      /\ why # "escalate" => work.left = {}
  BY DEF MarkRun, EndReasons
<1>2. /\ work \in WorkStates /\ state_of \in TripStates /\ note_of \in RunKinds \cup {"none"} /\ work.n # 0
      /\ work.kind \in RunKinds /\ WorkHolds(work, state_of)
  BY <1>1, WorkKnown
<1>3. /\ work' \in WorkStates /\ work'.n = work.n /\ work'.kind = work.kind /\ work'.at = "marked" /\ work'.why = why
      /\ state_of' \in TripStates /\ state_of'.status = "failed" /\ state_of'.planned = state_of.planned
  BY <1>1, <1>2 DEF WorkStates, TripStates
<1>4. WorkHolds(work', state_of')
  BY <1>1, <1>2, <1>3 DEF WorkHolds
<1>5. work.left # Whole(work.kind)
  BY <1>1, <1>2 DEF Whole, RunKinds, SUB_AGENTS
<1>6. ASSUME NEW b \in Nat, RowsHold(b) PROVE OwnSteps(b, log, work', state_of')
  BY <1>1, <1>3, <1>5, <1>6 DEF RowsHold, OwnSteps
<1> QED BY <1>1, <1>2, <1>3, <1>4, <1>6, NothingLogged

LEMMA ReasonLogged == ASSUME LogInv, LogReason PROVE LogInv'
<1>1. work.at = "marked" /\ Logged(work.why) /\ work' = [work EXCEPT !.at = "logged"]
      /\ UNCHANGED <<state_of, note_of, unended>>
  BY DEF LogReason
<1>2. /\ work \in WorkStates /\ state_of \in TripStates /\ note_of \in RunKinds \cup {"none"} /\ work.n # 0
      /\ WorkHolds(work, state_of)
  BY <1>1, WorkKnown
<1>3. work' \in WorkStates /\ work'.n = work.n /\ work'.kind = work.kind /\ work'.at = "logged"
      /\ work'.why = work.why
  BY <1>1, <1>2 DEF WorkStates
<1>4. state_of.status = "failed" /\ work.why \in EndReasons
  BY <1>1, <1>2 DEF WorkHolds
<1>5. WorkHolds(work', state_of')
  BY <1>1, <1>2, <1>3, <1>4 DEF WorkHolds
<1>6. work.why \notin ENDS_OF_RUNS
  BY <1>4 DEF EndReasons, ENDS_OF_RUNS
<1>7. ASSUME NEW b \in Nat, RowsHold(b)
      PROVE  \A i \in DOMAIN log : i > b => log[i].agent \in SUB_AGENTS /\ log[i].agent \notin ENDS_OF_RUNS
  BY <1>1, <1>7 DEF RowsHold, OwnSteps
<1>8. ASSUME NEW b \in Nat, RowsHold(b), Grown(b, work.why, log')
      PROVE  OwnSteps(b, log', work', state_of')
  <2>1. \A i \in DOMAIN log' : i > b => log'[i].agent \in SUB_AGENTS \cup {work.why}
    BY <1>7, <1>8 DEF Grown
  <2>2. \A i \in DOMAIN log' : i > b => log'[i].agent \notin ENDS_OF_RUNS
    BY <1>6, <1>7, <1>8 DEF Grown
  <2>3. \E i \in DOMAIN log' : i > b /\ log'[i].agent = work.why
    BY <1>8 DEF Grown
  <2>4. work'.at = "logged" /\ work'.why = work.why /\ b < Len(log')
    BY <1>3, <1>8 DEF Grown
  <2> QED BY <2>1, <2>2, <2>3, <2>4 DEF OwnSteps
<1> QED BY <1>1, <1>2, <1>3, <1>4, <1>5, <1>7, <1>8, RowLogged

LEMMA DeliveringThePlan == ASSUME LogInv, DeliverPlan PROVE LogInv'
<1>1. /\ work.at = "searching" /\ log' = log /\ note_of' = note_of /\ unended' = unended
      /\ state_of' = [status |-> "completed", planned |-> TRUE] /\ work' = [work EXCEPT !.at = "saved"]
  BY DEF DeliverPlan
<1>2. work \in WorkStates /\ note_of \in RunKinds \cup {"none"} /\ work.n # 0
  BY <1>1, WorkKnown
<1>3. /\ work' \in WorkStates /\ work'.n = work.n /\ work'.at = "saved" /\ state_of' \in TripStates
      /\ state_of'.status = "completed" /\ state_of'.planned
  BY <1>1, <1>2 DEF WorkStates, TripStates
<1>4. WorkHolds(work', state_of')
  BY <1>2, <1>3 DEF WorkHolds
<1>5. ASSUME NEW b \in Nat, RowsHold(b) PROVE OwnSteps(b, log, work', state_of')
  BY <1>1, <1>3, <1>5 DEF RowsHold, OwnSteps
<1> QED BY <1>1, <1>2, <1>3, <1>4, <1>5, NothingLogged

LEMMA EndingTheRun == ASSUME LogInv, LogEnd PROVE LogInv'
<1>1. /\ work.at \in {"logged", "saved"} /\ Logged("orchestrator") /\ UNCHANGED <<state_of, unended>>
      /\ work' = [work EXCEPT !.at = IF work.at = "saved" THEN "over" ELSE "settling"]
      /\ note_of' = note_of \/ note_of' = "none"
  BY DEF LogEnd
<1>2. /\ work \in WorkStates /\ state_of \in TripStates /\ note_of \in RunKinds \cup {"none"} /\ work.n # 0
      /\ WorkHolds(work, state_of)
  BY <1>1, WorkKnown
<1>3. /\ work' \in WorkStates /\ work'.n = work.n /\ work'.kind = work.kind /\ work'.why = work.why
      /\ \/ work.at = "saved" /\ work'.at = "over"
         \/ work.at = "logged" /\ work'.at = "settling"
  BY <1>1, <1>2 DEF WorkStates
<1>4. WorkHolds(work', state_of')
  BY <1>1, <1>2, <1>3 DEF WorkHolds
<1>5. ASSUME NEW b \in Nat, RowsHold(b) PROVE \A i \in DOMAIN log : i > b => log[i].agent \notin ENDS_OF_RUNS
  BY <1>1, <1>5 DEF RowsHold, OwnSteps
<1>6. ASSUME NEW b \in Nat, RowsHold(b), Grown(b, "orchestrator", log') PROVE OwnSteps(b, log', work', state_of')
  <2>1. b < Len(log')
    BY <1>6 DEF Grown
  <2>2. ASSUME work'.at = "settling", state_of'.status = "failed"
        PROVE  /\ \E i \in DOMAIN log' : i > b /\ log'[i].agent = work'.why
               /\ \A i \in DOMAIN log' : i > b => log'[i].agent \in SUB_AGENTS \cup {work'.why, "orchestrator"}
    <3>1. /\ \E i \in DOMAIN log : i > b /\ log[i].agent = work.why
          /\ \A i \in DOMAIN log : i > b => log[i].agent \in SUB_AGENTS \cup {work.why, "orchestrator"}
      BY <1>1, <1>3, <1>6, <2>2 DEF RowsHold, OwnSteps
    <3> QED BY <1>3, <1>6, <3>1 DEF Grown
  <2>3. work'.at \in {"settling", "over"}
    BY <1>3
  <2> QED BY <2>1, <2>2, <2>3 DEF OwnSteps
<1>7. "orchestrator" \in ENDS_OF_RUNS
  BY DEF ENDS_OF_RUNS
<1> QED BY <1>1, <1>2, <1>3, <1>4, <1>5, <1>6, <1>7, RowLogged

LEMMA CrashingTheRun == ASSUME LogInv, RunCrashes PROVE LogInv'
<1>1. /\ work.at \in {"searching", "marked", "logged", "saved"} /\ work' = [work EXCEPT !.at = "crashed"]
      /\ log' = log /\ state_of' = state_of /\ note_of' = note_of /\ unended' = unended
  BY DEF RunCrashes
<1>2. /\ work \in WorkStates /\ state_of \in TripStates /\ note_of \in RunKinds \cup {"none"} /\ work.n # 0
      /\ WorkHolds(work, state_of)
  BY <1>1, WorkKnown
<1>3. work' \in WorkStates /\ work'.n = work.n /\ work'.kind = work.kind /\ work'.at = "crashed"
  BY <1>1, <1>2 DEF WorkStates
<1>4. WorkHolds(work', state_of')
  BY <1>1, <1>2, <1>3 DEF WorkHolds
<1>5. ASSUME NEW b \in Nat, RowsHold(b) PROVE OwnSteps(b, log, work', state_of')
  BY <1>1, <1>3, <1>5 DEF RowsHold, OwnSteps
<1> QED BY <1>1, <1>2, <1>3, <1>4, <1>5, NothingLogged

\* However a run is over: its status falls back or stands, and a trip that failed has a row of the run that says so.
LEMMA RunIsOver ==
  ASSUME LogInv, work.at # "over", work' = [work EXCEPT !.at = "over"], note_of' = "none", unended' = unended,
         \/ UNCHANGED <<state_of, log>>
         \/ state_of' = [state_of EXCEPT !.status = "completed"] /\ log' = log
         \/ /\ state_of.status = "planning" /\ (work.at # "settling" \/ ~state_of.planned)
            /\ state_of' = [state_of EXCEPT !.status = "completed"]
               \/ state_of' = [state_of EXCEPT !.status = "failed"]
            /\ Logged("interrupted")
  PROVE  LogInv'
<1>1. /\ work \in WorkStates /\ state_of \in TripStates /\ work.n # 0 /\ WorkHolds(work, state_of)
  BY WorkKnown
<1>2. work' \in WorkStates /\ work'.n = work.n /\ work'.at = "over"
  BY <1>1 DEF WorkStates
<1>3. state_of' \in TripStates
  BY <1>1 DEF TripStates
<1>4. WorkHolds(work', state_of')
  BY <1>1, <1>2 DEF WorkHolds
<1>5. CASE log' = log /\ (state_of' = state_of \/ state_of' = [state_of EXCEPT !.status = "completed"])
  <2>1. state_of'.status = "failed" => state_of.status = "failed"
    BY <1>1, <1>5 DEF TripStates
  <2>2. ASSUME NEW b \in Nat, RowsHold(b) PROVE OwnSteps(b, log, work', state_of')
    BY <1>2, <2>1, <2>2 DEF RowsHold, OwnSteps
  <2> QED BY <1>2, <1>3, <1>4, <1>5, <2>2, NothingLogged
<1>6. CASE Logged("interrupted") /\ state_of.status = "planning" /\ (work.at # "settling" \/ ~state_of.planned)
  <2>1. work.at # "settling"
    BY <1>1, <1>6 DEF WorkHolds
  <2>2. ASSUME NEW b \in Nat, RowsHold(b) PROVE \A i \in DOMAIN log : i > b => log[i].agent \notin ENDS_OF_RUNS
    BY <2>1, <2>2 DEF RowsHold, OwnSteps
  <2>3. ASSUME NEW b \in Nat, RowsHold(b), Grown(b, "interrupted", log') PROVE OwnSteps(b, log', work', state_of')
    BY <1>2, <2>3 DEF OwnSteps, Grown
  <2>4. "interrupted" \in ENDS_OF_RUNS
    BY DEF ENDS_OF_RUNS
  <2> QED BY <1>1, <1>2, <1>3, <1>4, <1>6, <2>2, <2>3, <2>4, RowLogged
<1> QED BY <1>5, <1>6

LEMMA SettlingTheRun == ASSUME LogInv, RunSettles PROVE LogInv'
<1>1. work.at \in {"settling", "crashed"} /\ work' = [work EXCEPT !.at = "over"] /\ note_of' = "none"
      /\ unended' = unended
  BY DEF RunSettles
<1>2. \/ state_of' = [state_of EXCEPT !.status = "completed"] /\ log' = log
      \/ /\ work.at = "crashed" /\ state_of.status = "planning"
         /\ state_of' = [state_of EXCEPT !.status = "failed"] /\ Logged("interrupted")
      \/ UNCHANGED <<state_of, log>>
  BY DEF RunSettles, Fallen
<1> QED BY <1>1, <1>2, RunIsOver

LEMMA StoppingTheRun == ASSUME LogInv, ServerStops PROVE LogInv'
<1>1. /\ work.at \in {"searching", "marked", "logged", "saved"} /\ work' = [work EXCEPT !.at = "over"]
      /\ note_of' = "none"
      /\ unended' = unended
  BY DEF ServerStops
<1>2. \/ /\ state_of.status = "planning" /\ Logged("interrupted")
         /\ state_of' = [state_of EXCEPT !.status = "completed"] \/ state_of' = [state_of EXCEPT !.status = "failed"]
      \/ UNCHANGED <<state_of, log>>
  BY DEF ServerStops, Fallen
<1> QED BY <1>1, <1>2, RunIsOver

LEMMA DyingWithTheRun == ASSUME LogInv, ServerDies PROVE LogInv'
<1>1. work.at # "over" /\ work' = [work EXCEPT !.at = "over"] /\ note_of' = "none" /\ unended' = unended
  BY DEF ServerDies
<1>2. \/ UNCHANGED <<state_of, log>>
      \/ state_of' = [state_of EXCEPT !.status = "completed"] /\ log' = log
      \/ /\ state_of.status = "planning" /\ ~state_of.planned
         /\ state_of' = [state_of EXCEPT !.status = "failed"] /\ Logged("interrupted")
  BY DEF ServerDies, Fallen
<1> QED BY <1>1, <1>2, RunIsOver

\* Every step of it.
LEMMA LogKeeps == LogInv /\ [LogNext]_log_vars => LogInv'
<1> SUFFICES ASSUME LogInv, [LogNext]_log_vars PROVE LogInv'
  OBVIOUS
<1>1. CASE UNCHANGED log_vars
  <2>1. log' = log /\ state_of' = state_of /\ work' = work /\ note_of' = note_of /\ unended' = unended
    BY <1>1 DEF log_vars
  <2> QED BY <2>1 DEF LogInv, LogTyped, RowsHold
<1>2. CASE \E kind \in SUB_AGENTS \cup {"full"} : BeginRun(kind)
  BY <1>2, RunBegins DEF RunKinds
<1>3. CASE \E why \in {"escalate", "nothing_found", "builder_failed"} : MarkRun(why)
  BY <1>3, MarkingTheRun DEF EndReasons
<1> QED
  BY <1>1, <1>2, <1>3, SearchLogged, SearchLoggedAgain, ReasonLogged, DeliveringThePlan, EndingTheRun,
      CrashingTheRun, SettlingTheRun, StoppingTheRun, DyingWithTheRun DEF LogNext

\* What GET /status tells of a trip is of its latest run: why that one failed, as soon as its reason is written, and
\* never why an earlier one did; and of a run in flight the searches it has done itself, but for those a search tried
\* again leaves alone - as long as every earlier run left a row that ends it.
THEOREM StatusIsTheLatest == MCSpec => [](part = "log" => StatusTellsTheLatest)
<1> DEFINE Inv == part = "log" => LogInv
<1>1. MCInit => Inv
  BY LogStart DEF MCInit
<1>2. ASSUME Inv, [MCNext]_all PROVE Inv'
  <2>1. CASE part # "log"
    BY <1>2, <2>1 DEF MCNext, all
  <2>2. CASE LogPart /\ part' = part
    BY <1>2, <2>2, LogKeeps DEF LogPart
  <2>3. CASE UNCHANGED <<log_vars, part>>
    BY <1>2, <2>3, LogKeeps
  <2>4. CASE part = "log" /\ MCNext /\ ~LogPart
    BY <2>4 DEF MCNext, PagePart, DraftPart, EmbeddingsPart, ChangesPart, UsagePart, PreferencesPart, MetersPart,
        TracePart,
                HealthPart, TalkPart
  <2> QED BY <1>2, <2>1, <2>2, <2>3, <2>4 DEF MCNext, all, around_run, run_parts
<1>3. Inv => (part = "log" => StatusTellsTheLatest)
  BY LogTells
<1> QED BY <1>1, <1>2, <1>3, PTL DEF MCSpec

----------------------------------------------------------------------------
(* What is said on the way.                                                *)

CallNumbers == 1..MaxCalls
Sayings == [by : CallNumbers, turn : Nat, words : Int]
CallKinds == {"none", "plan", "clarify", "replan", "refine", "search", "retry", "question"}
CallSteps == {"off", "opens", "reading", "counts", "says", "saying", "starts", "runs", "saved", "over"}
Requests ==
  [kind : CallKinds, step : CallSteps, turn : Nat, words : Int, seen : Seq(Sayings), stood : BOOLEAN, made : BOOLEAN,
   after : SUBSET (0..MaxCalls)]
TalkTyped ==
  /\ talk \in Seq(Sayings) /\ remembered \in BOOLEAN /\ call \in [CallNumbers -> Requests] /\ had \in Nat
  /\ begun_calls \subseteq CallNumbers /\ unheard \subseteq CallNumbers /\ latest \in 0..MaxCalls

\* Of a request, as it goes on: it is on its way to a run of its own; it asks for a change; its turn is settled; the
\* traveller's words are in the history.
Live(c) == c.step \in {"opens", "reading", "counts", "says", "saying", "starts"} /\ ~c.made
Changing(c) == c.kind \in {"refine", "search"}
Turned(c) == c.step \notin {"off", "reading", "counts"}
Recorded(c) == c.step \in {"starts", "runs", "saved", "over"} \/ c.made \/ c.kind = "question"
Afresh(c) == Live(c) /\ ~Changing(c)

\* What a request is about, from where it stands.
CallHolds(c) ==
  /\ c.made => c.step \in {"saved", "says", "saying", "over"}
  /\ c.step = "saved" => c.made
  /\ c.made \/ c.step = "over" => c.kind = "none"
  /\ c.step \in {"opens", "reading"} => ~Changing(c) /\ c.kind # "question"
  /\ c.step = "counts" => Changing(c)
  /\ Afresh(c) => c.turn = 1
  /\ c.kind = "question" => c.step \in {"says", "saying"}
  /\ c.step = "off" => c.turn = 1 /\ c.after = {}
  /\ c.kind = "retry" => c.step \in {"reading", "opens", "starts", "runs"}
  /\ c.kind = "replan" => c.turn = 1
  /\ c.words # Talk!Other
\* Requests are one after another: each begins when those before were answered, and one run is under way.
CallsHold ==
  \A n \in CallNumbers :
    /\ CallHolds(call[n]) /\ (call[n].kind = "question" => begun_calls = {})
    /\ call[n].step # "off" => \A m \in 1..(n - 1) : Talk!Answered(call[m])
    /\ call[n].step = "runs" =>
         /\ standing = "planning"
         /\ \A m \in CallNumbers : (m > n => call[m].step = "off") /\ (m < n => call[m].step # "runs")
         /\ call[n].kind = "replan" => begun_calls = {n}

\* A history is of what the requests said, each under its turn; of the traveller's words, the last are those of the
\* request that wrote last or a repeated search's.
EntriesHold(h, c) ==
  /\ \A i \in DOMAIN h :
       /\ Turned(c[h[i].by]) /\ h[i].turn = c[h[i].by].turn
       /\ h[i].words # Talk!Other => Recorded(c[h[i].by]) /\ h[i].words = c[h[i].by].words
  /\ h # <<>> => \E i \in DOMAIN h : \A j \in DOMAIN h : h[j].turn <= h[i].turn
LastHolds(h, l) ==
  /\ l = Talk!Nobody => \A i \in Talk!Users(h) : h[i].words = Talk!SearchAgain
  /\ Talk!Users(h) # {} => \E j \in Talk!Users(h) : \A i \in Talk!Users(h) : i <= j
  /\ l \in Talk!Heard(h) =>
       \E j \in Talk!Users(h) : (\A i \in Talk!Users(h) : i <= j) /\ (h[j].by = l \/ h[j].words = Talk!SearchAgain)
HistoryHolds(h, c, l) == EntriesHold(h, c) /\ LastHolds(h, l)
HistoriesHold ==
  /\ HistoryHolds(talk, call, latest)
  /\ \A n \in CallNumbers : call[n].step = "saying" => HistoryHolds(call[n].seen, call, latest)
  /\ latest \in Talk!Heard(talk) \cup unheard \cup {Talk!Nobody}

\* The turn of a run that has begun is one a later change counts on: it is in the history; or the history is gone and
\* with it the state, nothing was said since, and no search is about to be tried again; or what was said since has a
\* later one.
Gone(p, h, c, known) ==
  /\ ~known /\ h = <<>>
  /\ \A n \in CallNumbers :
       /\ c[n].step \in {"off", "over", "counts", "says", "saying"} /\ (c[n].made => c[n].step = "over")
       /\ c[n].step = "counts" => c[n].kind # "search"
       /\ c[n].step = "saying" => c[n].seen = <<>>
       /\ c[n].step \in {"says", "saying"} => c[n].turn > c[p].turn
AllLater(h, t) == h # <<>> /\ \A i \in DOMAIN h : h[i].turn > t
Above(p, h, c) ==
  /\ AllLater(h, c[p].turn)
  /\ \A n \in CallNumbers :
       /\ c[n].step = "saying" => AllLater(c[n].seen, c[p].turn)
       /\ c[n].step \in {"says", "saying", "starts", "runs", "saved"} => c[n].turn > c[p].turn
CountedOn(p) == call[p].turn = 1 \/ p \in Talk!Heard(talk) \/ Gone(p, talk, call, remembered) \/ Above(p, talk, call)
TurnsHold ==
  /\ \A p \in begun_calls : Talk!Answered(call[p]) /\ call[p].turn <= had
  /\ \A n \in CallNumbers : Live(call[n]) /\ call[n].step = "starts" /\ Changing(call[n])
     => n \in Talk!Heard(talk) \cup unheard
  /\ (\E n \in CallNumbers : Afresh(call[n])) \/ \A p \in begun_calls \ unheard : CountedOn(p)
\* A change's turn is later than those of what had begun before it.
ApartHolds ==
  \A n \in CallNumbers : Changing(call[n]) =>
    \A m \in call[n].after : m \in CallNumbers /\ Talk!Answered(call[m]) /\ call[m].turn < call[n].turn
\* A trip planned again is planned from the words written last, or from those a search tried again left.
PlansHold ==
  \A n \in CallNumbers : call[n].kind = "retry" /\ call[n].step \in {"opens", "starts"} =>
    \A m \in call[n].after :
      /\ m \in CallNumbers => Recorded(call[m])
      /\ call[n].words \in {Talk!SearchAgain, IF m = Talk!Nobody THEN Talk!StandIn ELSE call[m].words}
TalkInv == TalkTyped /\ CallsHold /\ HistoriesHold /\ TurnsHold /\ ApartHolds /\ PlansHold

\* The invariant tells what the conversation promises.
LEMMA TalkTells == TalkInv => Talk!ConversationHolds
<1> SUFFICES ASSUME TalkInv PROVE Talk!ConversationHolds
  OBVIOUS
<1>1. Talk!TurnsApart
  BY DEF TalkInv, ApartHolds, Talk!TurnsApart, Talk!Calls, CallNumbers, Changing
<1>2. Talk!PlansWhatWasWritten
  BY DEF TalkInv, PlansHold, Talk!PlansWhatWasWritten, Talk!Calls, CallNumbers
<1> QED BY <1>1, <1>2 DEF Talk!ConversationHolds

\* It holds at the start.
LEMMA TalkStart == Talk!ConversationInit => TalkInv
<1> SUFFICES ASSUME Talk!ConversationInit PROVE TalkInv
  OBVIOUS
<1>1. /\ talk = <<>> /\ standing = "pending" /\ remembered = FALSE /\ call = [n \in CallNumbers |-> Talk!Quiet]
      /\ had = 0
      /\ begun_calls = {} /\ unheard = {} /\ latest = 0
  BY DEF Talk!ConversationInit, CallNumbers, Talk!Calls, Talk!Nobody
<1>2. Talk!Quiet = [kind |-> "none", step |-> "off", turn |-> 1, words |-> 0, seen |-> <<>>, stood |-> FALSE,
      made |-> FALSE, after |-> {}]
  BY DEF Talk!Quiet, Talk!Nobody
<1>3. Talk!Quiet \in Requests
  BY <1>2 DEF Requests, CallKinds, CallSteps
<1>4. ASSUME NEW n \in CallNumbers
      PROVE  /\ call[n].kind = "none" /\ call[n].step = "off" /\ call[n].turn = 1 /\ call[n].made = FALSE
             /\ call[n].after = {}
             /\ call[n].words = 0
  BY <1>1, <1>2
<1>5. TalkTyped
  <2>1. call \in [CallNumbers -> Requests] /\ talk \in Seq(Sayings)
    BY <1>1, <1>3
  <2>2. latest \in 0..MaxCalls /\ had \in Nat
    BY <1>1, CallsBound
  <2>3. remembered \in BOOLEAN /\ begun_calls \subseteq CallNumbers /\ unheard \subseteq CallNumbers
    BY <1>1
  <2> QED BY <2>1, <2>2, <2>3 DEF TalkTyped
<1>6. CallsHold
  <2>1. 0 # Talk!Other
    BY DEF Talk!Other
  <2> QED BY <1>4, <2>1 DEF CallsHold, CallHolds, Changing, Afresh, Live
<1>7. HistoriesHold
  <2>1. Talk!Users(talk) = {} /\ Talk!Heard(talk) = {}
    BY <1>1 DEF Talk!Users, Talk!Heard
  <2>2. EntriesHold(talk, call)
    BY <1>1 DEF EntriesHold
  <2>3. LastHolds(talk, latest)
    BY <2>1 DEF LastHolds
  <2> QED BY <1>1, <1>4, <2>2, <2>3 DEF HistoriesHold, HistoryHolds, Talk!Nobody
<1>8. TurnsHold /\ ApartHolds /\ PlansHold
  BY <1>1, <1>4 DEF TurnsHold, ApartHolds, PlansHold, Changing
<1> QED BY <1>5, <1>6, <1>7, <1>8 DEF TalkInv

\* What a request has said, begun or been answered stays so.
Onward(c, d) ==
  \A m \in CallNumbers :
    /\ Turned(c[m]) => Turned(d[m]) /\ d[m].turn = c[m].turn
    /\ Recorded(c[m]) => Recorded(d[m]) /\ d[m].words = c[m].words
    /\ Talk!Answered(c[m]) => Talk!Answered(d[m])

\* What an entry of a history is.
LEMMA Entry ==
  ASSUME NEW h \in Seq(Sayings), NEW i \in DOMAIN h
  PROVE  h[i] \in Sayings /\ h[i].by \in CallNumbers /\ h[i].turn \in Nat /\ h[i].words \in Int
<1>1. h[i] \in Sayings
  OBVIOUS
<1> QED BY <1>1 DEF Sayings

\* A history still is of what was said when requests go on.
LEMMA HistoryStays ==
  ASSUME NEW h \in Seq(Sayings), NEW c, NEW d, Onward(c, d), EntriesHold(h, c)
  PROVE  EntriesHold(h, d)
<1>1. \A i \in DOMAIN h : h[i].by \in CallNumbers
  BY Entry
<1> QED BY <1>1 DEF EntriesHold, Onward

\* A request whose words were not written is none of those the history has.
LEMMA NotHeardYet ==
  ASSUME NEW h \in Seq(Sayings), NEW c, NEW l, EntriesHold(h, c), LastHolds(h, l), NEW n \in CallNumbers,
    ~Recorded(c[n])
  PROVE  n \notin Talk!Heard(h) /\ LastHolds(h, n)
<1>1. n \notin Talk!Heard(h)
  BY DEF Talk!Heard, Talk!Users, EntriesHold
<1>2. n # Talk!Nobody
  BY CallsBound DEF CallNumbers, Talk!Nobody
<1> QED BY <1>1, <1>2 DEF LastHolds

\* What is put at the end of a history, and who wrote last in it.
LEMMA HistoryGrows ==
  ASSUME NEW h \in Seq(Sayings), NEW c, NEW l, NEW e \in Sayings, NEW g, g = Append(h, e), EntriesHold(h, c),
    LastHolds(h, l),
         Turned(c[e.by]), e.turn = c[e.by].turn, e.words # Talk!Other => Recorded(c[e.by]) /\ e.words = c[e.by].words,
         NEW k, \/ e.words \in {Talk!Other, Talk!SearchAgain} /\ k = l
                \/ e.words # Talk!Other /\ k = e.by
  PROVE  HistoryHolds(g, c, k) /\ g \in Seq(Sayings)
<1> DEFINE last == Len(g)
<1>1. /\ g \in Seq(Sayings) /\ last = Len(h) + 1 /\ Len(h) \in Nat /\ g[last] = e /\ last \in DOMAIN g
      /\ \A i \in DOMAIN h : i \in DOMAIN g /\ g[i] = h[i] /\ i # last /\ i <= Len(h)
      /\ \A i \in DOMAIN g : i \in Nat /\ (i \in DOMAIN h \/ i = last)
  BY OneMore
<1> HIDE DEF last
<1>2. EntriesHold(g, c)
  <2>1. \A i \in DOMAIN g :
          /\ Turned(c[g[i].by]) /\ g[i].turn = c[g[i].by].turn
          /\ g[i].words # Talk!Other => Recorded(c[g[i].by]) /\ g[i].words = c[g[i].by].words
    BY <1>1 DEF EntriesHold
  <2>2. \E i \in DOMAIN g : \A j \in DOMAIN g : g[j].turn <= g[i].turn
    <3>1. e.turn \in Nat /\ \A i \in DOMAIN h : h[i].turn \in Nat
      BY Entry DEF Sayings
    <3>2. CASE h = <<>>
      BY <1>1, <3>1, <3>2
    <3>3. CASE h # <<>>
      <4>1. PICK i \in DOMAIN h : \A j \in DOMAIN h : h[j].turn <= h[i].turn
        BY <3>3 DEF EntriesHold
      <4>2. CASE e.turn <= h[i].turn
        BY <1>1, <3>1, <4>1, <4>2
      <4>3. CASE h[i].turn < e.turn
        <5>1. \A j \in DOMAIN h : h[j].turn <= e.turn
          BY <3>1, <4>1, <4>3
        <5>2. \A j \in DOMAIN g : g[j].turn <= g[last].turn
          BY <1>1, <3>1, <5>1
        <5> QED BY <1>1, <5>2
      <4>4. e.turn <= h[i].turn \/ h[i].turn < e.turn
        BY <3>1
      <4> QED BY <4>2, <4>3, <4>4
    <3> QED BY <3>2, <3>3
  <2> QED BY <2>1, <2>2 DEF EntriesHold
<1>3. CASE e.words = Talk!Other
  <2>1. Talk!Users(g) = Talk!Users(h) /\ \A i \in Talk!Users(h) : g[i] = h[i]
    BY <1>1, <1>3 DEF Talk!Users
  <2>2. Talk!Heard(g) = Talk!Heard(h)
    BY <2>1 DEF Talk!Heard
  <2>3. k = l
    BY <1>3
  <2>4. LastHolds(g, l)
    BY <2>1, <2>2 DEF LastHolds
  <2> QED BY <1>1, <1>2, <2>3, <2>4 DEF HistoryHolds
<1>4. CASE e.words # Talk!Other
  <2>1. /\ last \in Talk!Users(g) /\ Talk!Users(h) \subseteq Talk!Users(g)
        /\ \A i \in Talk!Users(g) : i <= last /\ (i = last \/ i \in Talk!Users(h))
           /\ (i \in Talk!Users(h) => g[i] = h[i])
    BY <1>1, <1>4 DEF Talk!Users
  <2>2. k = Talk!Nobody => \A i \in Talk!Users(g) : g[i].words = Talk!SearchAgain
    <3>1. e.by # Talk!Nobody
      BY CallsBound DEF Sayings, CallNumbers, Talk!Nobody
    <3> QED BY <1>1, <1>4, <2>1, <3>1 DEF LastHolds
  <2> QED BY <1>1, <1>2, <1>4, <2>1, <2>2 DEF HistoryHolds, LastHolds
<1> QED BY <1>1, <1>3, <1>4

----------------------------------------------------------------------------
(* The requests of a trip, one after another.                             *)

\* While a request is on its way, those before it were answered and those after it have not come.
LEMMA OneAtATime ==
  ASSUME TalkTyped, CallsHold, NEW n \in CallNumbers, ~Talk!Answered(call[n]), call[n].step # "off"
  PROVE  \A m \in CallNumbers \ {n} :
           /\ m < n => Talk!Answered(call[m])
           /\ m > n => call[m].step = "off"
           /\ ~Live(call[m]) /\ call[m].step # "runs"
<1> SUFFICES ASSUME NEW m \in CallNumbers \ {n}
    PROVE  /\ m < n => Talk!Answered(call[m])
           /\ m > n => call[m].step = "off"
           /\ ~Live(call[m]) /\ call[m].step # "runs"
  OBVIOUS
<1>1. m \in Nat /\ n \in Nat /\ (m < n => m \in 1..(n - 1)) /\ (m > n => n \in 1..(m - 1)) /\ (m < n \/ m > n)
  BY CallsBound DEF CallNumbers
<1>2. m < n => Talk!Answered(call[m])
  BY <1>1 DEF CallsHold
<1>3. m > n => call[m].step = "off"
  BY <1>1 DEF CallsHold
<1>4. ~Live(call[m])
  BY <1>1, <1>2, <1>3 DEF Talk!Answered, Live
<1>5. call[m].step # "runs"
  BY <1>1, <1>3 DEF CallsHold
<1> QED BY <1>2, <1>3, <1>4, <1>5

\* One request goes on, and the others stay.
LEMMA GoesOnward ==
  ASSUME NEW n \in CallNumbers, NEW c, NEW d, \A m \in CallNumbers \ {n} : d[m] = c[m],
         Turned(c[n]) => Turned(d[n]) /\ d[n].turn = c[n].turn,
         Recorded(c[n]) => Recorded(d[n]) /\ d[n].words = c[n].words,
         Talk!Answered(c[n]) => Talk!Answered(d[n])
  PROVE  Onward(c, d)
  BY DEF Onward

\* Requests stay one after another.
LEMMA CallsGoOn ==
  ASSUME TalkTyped, CallsHold, NEW n \in CallNumbers, \A m \in CallNumbers \ {n} : call'[m] = call[m],
         CallHolds(call'[n]), Onward(call, call'), \A m \in CallNumbers : call'[m].kind = "question"
           => begun_calls' = {},
         call[n].step # "off" \/ \A m \in 1..(n - 1) : Talk!Answered(call[m]), call'[n].step # "off",
         \/ call'[n].step # "runs"
            /\ ((standing' = standing /\ call[n].step # "off") \/ \A m \in CallNumbers \ {n} : call[m].step # "runs")
         \/ standing' = "planning" /\ call[n].step = "starts" /\ ~Talk!Answered(call[n]),
         begun_calls' = begun_calls \/ (call[n].step \in {"opens", "starts"} /\ ~Talk!Answered(call[n])),
         call'[n].step = "runs" /\ call'[n].kind = "replan" => begun_calls' = {n}
  PROVE  CallsHold'
<1>1. ASSUME NEW m \in CallNumbers PROVE CallHolds(call'[m]) /\ (call'[m].kind = "question" => begun_calls' = {})
  BY DEF CallsHold
<1>2. ASSUME NEW m \in CallNumbers, call'[m].step # "off" PROVE \A k \in 1..(m - 1) : Talk!Answered(call'[k])
  <2>1. \A k \in 1..(m - 1) : k \in CallNumbers
    BY CallsBound DEF CallNumbers
  <2>2. \A k \in 1..(m - 1) : Talk!Answered(call[k])
    BY <1>2 DEF CallsHold
  <2> QED BY <2>1, <2>2 DEF Onward
<1>3. ASSUME NEW m \in CallNumbers, call'[m].step = "runs"
      PROVE  /\ standing' = "planning"
             /\ \A k \in CallNumbers : (k > m => call'[k].step = "off") /\ (k < m => call'[k].step # "runs")
             /\ call'[m].kind = "replan" => begun_calls' = {m}
  <2>1. CASE m = n
    <3>1. standing' = "planning" /\ call[n].step = "starts" /\ ~Talk!Answered(call[n])
      BY <1>3, <2>1
    <3>2. \A k \in CallNumbers \ {n} : (k > n => call[k].step = "off") /\ call[k].step # "runs"
      BY <3>1, OneAtATime
    <3>3. n \in Nat
      BY DEF CallNumbers
    <3>4. call'[n].kind = "replan" => begun_calls' = {n}
      BY <1>3, <2>1
    <3> QED BY <2>1, <3>1, <3>2, <3>3, <3>4
  <2>2. CASE m # n
    <3>1. call[m].step = "runs"
      BY <1>3, <2>2
    <3>2. /\ standing = "planning"
          /\ \A k \in CallNumbers : (k > m => call[k].step = "off") /\ (k < m => call[k].step # "runs")
          /\ call[m].kind = "replan" => begun_calls = {m}
      BY <3>1 DEF CallsHold
    <3>3. call[n].step \notin {"opens", "starts"} \/ Talk!Answered(call[n])
      BY <2>2, <3>1, OneAtATime
    <3>4. /\ call'[n].step # "runs" /\ standing' = standing /\ call[n].step # "off"
          /\ begun_calls' = begun_calls
      BY <2>2, <3>1, <3>3
    <3>5. call'[m] = call[m]
      BY <2>2
    <3> QED BY <3>1, <3>2, <3>4, <3>5
  <2> QED BY <2>1, <2>2
<1> QED BY <1>1, <1>2, <1>3 DEF CallsHold

\* What was written stays what was said.
LEMMA HistoriesStay ==
  ASSUME TalkTyped, HistoriesHold, Onward(call, call'), talk' = talk, latest' = latest, unheard' = unheard,
         \A m \in CallNumbers : call'[m].step = "saying" =>
           \/ call[m].step = "saying" /\ call'[m].seen = call[m].seen
           \/ call'[m].seen = talk
  PROVE  HistoriesHold'
<1>1. \A m \in CallNumbers : call[m].seen \in Seq(Sayings)
  BY DEF TalkTyped, Requests
<1>2. HistoryHolds(talk, call', latest)
  BY HistoryStays DEF TalkTyped, HistoriesHold, HistoryHolds
<1>3. ASSUME NEW m \in CallNumbers, call'[m].step = "saying" PROVE HistoryHolds(call'[m].seen, call', latest)
  <2>1. CASE call[m].step = "saying" /\ call'[m].seen = call[m].seen
    BY <1>1, <2>1, HistoryStays DEF HistoriesHold, HistoryHolds
  <2>2. CASE call'[m].seen = talk
    BY <1>2, <2>2
  <2> QED BY <1>3, <2>1, <2>2
<1> QED BY <1>2, <1>3 DEF HistoriesHold

\* The steps at which a request can be while the history is gone; and those at which its turn is a later one than
\* those of what was said before.
Early == {"off", "over", "counts", "says", "saying"}
Late == {"says", "saying", "starts", "runs", "saved"}

\* A turn a later change counts on stays one.
LEMMA CountedOnStays ==
  ASSUME TalkTyped, NEW n \in CallNumbers, \A m \in CallNumbers \ {n} : call'[m] = call[m], talk' = talk,
         NEW p \in CallNumbers, CountedOn(p), call'[p].turn = call[p].turn,
         call'[n].step \in Late => call[n].step \in Late /\ call'[n].turn = call[n].turn,
         call'[n].step = "saying" => call'[n].seen = talk
           \/ (call[n].step = "saying" /\ call'[n].seen = call[n].seen),
         \/ call[n].step \notin Early
         \/ call[n].made /\ call[n].step # "over"
         \/ remembered
         \/ /\ call'[n].step = "counts" => call'[n].kind # "search"
            /\ remembered' = remembered /\ call'[n].step \in Early /\ (call'[n].made => call'[n].step = "over")
            /\ call'[n].step \in {"says", "saying"} => call[n].step \in {"says", "saying"}
  PROVE  CountedOn(p)'
<1>1. CASE call[p].turn = 1 \/ p \in Talk!Heard(talk)
  BY <1>1 DEF CountedOn
<1>2. CASE Gone(p, talk, call, remembered)
  <2>1. /\ remembered' = remembered /\ call'[n].step \in Early /\ (call'[n].made => call'[n].step = "over")
        /\ call'[n].step \in {"says", "saying"} => call[n].step \in {"says", "saying"}
        /\ call'[n].step = "counts" => call'[n].kind # "search"
    BY <1>2 DEF Gone, Early
  <2>2. talk = <<>> /\ ~remembered
    BY <1>2 DEF Gone
  <2>3. ASSUME NEW m \in CallNumbers
        PROVE  /\ call'[m].step \in Early /\ (call'[m].made => call'[m].step = "over")
               /\ call'[m].step = "counts" => call'[m].kind # "search"
               /\ call'[m].step = "saying" => call'[m].seen = <<>>
               /\ call'[m].step \in {"says", "saying"} => call'[m].turn > call[p].turn
    <3>1. CASE m = n
      BY <1>2, <2>1, <2>2, <3>1 DEF Gone, Late
    <3>2. CASE m # n
      BY <1>2, <3>2 DEF Gone, Early
    <3> QED BY <3>1, <3>2
  <2>4. Gone(p, talk', call', remembered')
    BY <2>1, <2>2, <2>3 DEF Gone, Early
  <2> QED BY <2>4 DEF CountedOn
<1>3. CASE Above(p, talk, call)
  <2>1. ASSUME NEW m \in CallNumbers
        PROVE  /\ call'[m].step = "saying" => AllLater(call'[m].seen, call[p].turn)
               /\ call'[m].step \in Late => call'[m].turn > call[p].turn
    <3>1. CASE m = n
      BY <1>3, <3>1 DEF Above, Late
    <3>2. CASE m # n
      BY <1>3, <3>2 DEF Above, Late
    <3> QED BY <3>1, <3>2
  <2>2. Above(p, talk', call')
    BY <1>3, <2>1 DEF Above, Late
  <2> QED BY <2>2 DEF CountedOn
<1> QED BY <1>1, <1>2, <1>3 DEF CountedOn

\* A request that does not go from a turn of its own to another is as far from the others as it was.
LEMMA ApartStays ==
  ASSUME TalkTyped, CallsHold, ApartHolds, PlansHold, NEW n \in CallNumbers,
    \A m \in CallNumbers \ {n} : call'[m] = call[m], Onward(call, call'),
         \/ ~Changing(call'[n]) \/ call'[n].after = {}
         \/ Changing(call[n]) /\ call'[n].after = call[n].after /\ call'[n].turn = call[n].turn,
         \/ ~(call'[n].kind = "retry" /\ call'[n].step \in {"opens", "starts"})
         \/ call[n].kind = "retry" /\ call[n].step \in {"opens", "starts"} /\ call'[n].after = call[n].after
            /\ call'[n].words = call[n].words
  PROVE  ApartHolds' /\ PlansHold'
<1>1. ASSUME NEW k \in CallNumbers, Changing(call'[k]), NEW m \in call'[k].after
      PROVE  m \in CallNumbers /\ Talk!Answered(call'[m]) /\ call'[m].turn < call'[k].turn
  <2>1. Changing(call[k]) /\ m \in call[k].after /\ call'[k].turn = call[k].turn
    BY <1>1
  <2>2. m \in CallNumbers /\ Talk!Answered(call[m]) /\ call[m].turn < call[k].turn
    BY <2>1 DEF ApartHolds
  <2>3. Turned(call[m])
    <3>1. CallHolds(call[m])
      BY <2>2 DEF CallsHold
    <3> QED BY <2>2, <3>1 DEF CallHolds, Talk!Answered, Turned
  <2> QED BY <2>1, <2>2, <2>3 DEF Onward
<1>2. ASSUME NEW k \in CallNumbers, call'[k].kind = "retry", call'[k].step \in {"opens", "starts"},
      NEW m \in call'[k].after
      PROVE  /\ m \in CallNumbers => Recorded(call'[m])
             /\ call'[k].words \in {Talk!SearchAgain, IF m = Talk!Nobody THEN Talk!StandIn ELSE call'[m].words}
  <2>1. call[k].kind = "retry" /\ call[k].step \in {"opens", "starts"} /\ m \in call[k].after
        /\ call'[k].words = call[k].words
    BY <1>2
  <2>2. /\ m \in CallNumbers => Recorded(call[m])
        /\ call[k].words \in {Talk!SearchAgain, IF m = Talk!Nobody THEN Talk!StandIn ELSE call[m].words}
    BY <2>1 DEF PlansHold
  <2>3. m \in CallNumbers \/ m = Talk!Nobody
    <3>1. call[k].after \subseteq 0..MaxCalls
      BY DEF TalkTyped, Requests
    <3> QED BY <2>1, <3>1, CallsBound DEF CallNumbers, Talk!Nobody
  <2> QED BY <2>1, <2>2, <2>3 DEF Onward
<1>3. ApartHolds'
  BY <1>1 DEF ApartHolds
<1>4. PlansHold'
  BY <1>2 DEF PlansHold
<1> QED BY <1>3, <1>4

\* One request changes.
LEMMA OneRequest ==
  ASSUME TalkTyped, NEW n \in CallNumbers, NEW r \in Requests, call' = [call EXCEPT ![n] = r]
  PROVE  call' \in [CallNumbers -> Requests] /\ call'[n] = r /\ \A m \in CallNumbers \ {n} : call'[m] = call[m]
  BY DEF TalkTyped

\* The kinds of values a request keeps.
LEMMA RequestKnown ==
  ASSUME TalkInv, NEW n \in CallNumbers
  PROVE  /\ call[n] \in Requests /\ call[n].turn \in Nat /\ call[n].words \in Int /\ call[n].seen \in Seq(Sayings)
         /\ call[n].made \in BOOLEAN /\ call[n].after \subseteq 0..MaxCalls /\ CallHolds(call[n])
<1>1. call[n] \in Requests
  BY DEF TalkInv, TalkTyped
<1>2. CallHolds(call[n])
  BY DEF TalkInv, CallsHold
<1> QED BY <1>1, <1>2 DEF Requests

\* The steps of a request, one by one: it is asked for.
LEMMA TalkAsked ==
  ASSUME TalkInv, NEW n \in CallNumbers,
         NEW kind \in {"plan", "clarify", "replan", "refine", "search", "retry"}, Talk!Asks(n, kind)
  PROVE  TalkInv'
<1>1. PICK words \in {n, Talk!StandIn, Talk!SearchAgain}, step \in {"opens", "says", "starts", "reading", "counts"} :
        /\ call' = [call EXCEPT ![n].kind = kind, ![n].words = words, ![n].step = step]
        /\ kind \in {"refine", "search"} <=> step = "counts"
        /\ step \in {"opens", "reading"} <=> kind \in {"plan", "retry"}
        /\ kind = "retry" <=> step = "reading"
  BY DEF Talk!Asks
<1>2. /\ call[n].step = "off" /\ (\A m \in 1..(n - 1) : Talk!Answered(call[m])) /\ standing # "planning"
      /\ talk' = talk /\ standing' = standing /\ remembered' = remembered /\ had' = had /\ begun_calls' = begun_calls
      /\ unheard' = unheard /\ latest' = latest /\ (kind = "search" => remembered)
  BY DEF Talk!Asks
<1> DEFINE r == [call[n] EXCEPT !.kind = kind, !.words = words, !.step = step]
<1>3. TalkTyped /\ CallsHold /\ HistoriesHold /\ TurnsHold /\ ApartHolds /\ PlansHold
  BY DEF TalkInv
<1>4. /\ call[n] \in Requests /\ CallHolds(call[n])
  BY RequestKnown
<1>5. r \in Requests
  <2>1. words \in Int
    BY DEF CallNumbers, Talk!StandIn, Talk!SearchAgain
  <2> QED BY <1>4, <2>1 DEF Requests, CallKinds, CallSteps
<1>6. r.kind = kind /\ r.words = words /\ r.step = step /\ r.turn = 1 /\ r.made = FALSE /\ r.after = {}
  <2>1. call[n].turn = 1 /\ call[n].made = FALSE /\ call[n].after = {}
    BY <1>2, <1>4 DEF CallHolds, Requests
  <2> QED BY <1>4, <2>1 DEF Requests
<1>7. call' = [call EXCEPT ![n] = r]
  BY <1>1, <1>3 DEF TalkTyped
<1> HIDE DEF r
<1>8. call' \in [CallNumbers -> Requests] /\ call'[n] = r /\ \A m \in CallNumbers \ {n} : call'[m] = call[m]
  BY <1>5, <1>7, <1>3, OneRequest
<1>9. Onward(call, call')
  <2>1. ~Turned(call[n]) /\ ~Talk!Answered(call[n]) /\ ~Recorded(call[n])
    BY <1>2, <1>4 DEF Turned, Talk!Answered, Recorded, CallHolds
  <2> QED BY <1>8, <2>1, GoesOnward
<1>10. TalkTyped'
  BY <1>2, <1>8, <1>3 DEF TalkTyped
<1>11. CallsHold'
  <2>1. CallHolds(call'[n])
    <3>1. words # Talk!Other
      BY DEF CallNumbers, Talk!StandIn, Talk!SearchAgain, Talk!Other
    <3> QED BY <1>1, <1>6, <1>8, <3>1 DEF CallHolds, Afresh, Live, Changing
  <2>2. \A m \in CallNumbers : call'[m].kind = "question" => begun_calls' = {}
    BY <1>2, <1>6, <1>8, <1>3 DEF CallsHold
  <2>3. \A m \in CallNumbers \ {n} : call[m].step # "runs"
    BY <1>2, <1>3 DEF CallsHold
  <2>4. call'[n].step \notin {"off", "runs"}
    BY <1>6, <1>8
  <2> QED BY <1>2, <1>8, <1>9, <1>3, <2>1, <2>2, <2>3, <2>4, CallsGoOn
<1>12. HistoriesHold'
  BY <1>2, <1>6, <1>8, <1>9, <1>3, HistoriesStay
<1>13. TurnsHold'
  <2>1. \A p \in begun_calls' : Talk!Answered(call'[p]) /\ call'[p].turn <= had'
    BY <1>2, <1>8, <1>3 DEF TurnsHold, TalkTyped, Talk!Answered, CallHolds, CallsHold
  <2>2. \A m \in CallNumbers : Live(call'[m]) /\ call'[m].step = "starts" /\ Changing(call'[m])
        => m \in Talk!Heard(talk') \cup unheard'
    BY <1>1, <1>2, <1>6, <1>8, <1>3 DEF TurnsHold, Changing
  <2>3. (\E m \in CallNumbers : Afresh(call'[m])) \/ \A p \in begun_calls' \ unheard' : CountedOn(p)'
    <3>1. CASE step # "counts"
      BY <1>1, <1>6, <1>8, <3>1 DEF Afresh, Live, Changing
    <3>2. CASE step = "counts"
      <4>1. ASSUME NEW m \in CallNumbers PROVE ~Afresh(call[m])
        <5>1. m \in Nat /\ n \in Nat /\ (m < n => m \in 1..(n - 1)) /\ (m > n => n \in 1..(m - 1))
              /\ (m < n \/ m > n \/ m = n)
          BY CallsBound DEF CallNumbers
        <5>2. m > n => call[m].step = "off"
          BY <1>2, <1>4, <1>3, <5>1 DEF CallsHold, Talk!Answered, CallHolds
        <5>3. m < n => Talk!Answered(call[m])
          BY <1>2, <5>1
        <5> QED BY <1>2, <5>1, <5>2, <5>3 DEF Afresh, Live, Talk!Answered
      <4>2. ASSUME NEW p \in begun_calls \ unheard PROVE CountedOn(p)'
        <5>1. p \in CallNumbers /\ CountedOn(p) /\ Talk!Answered(call[p])
          BY <1>3, <4>1 DEF TurnsHold, TalkTyped
        <5>2. call'[p].turn = call[p].turn
          BY <1>2, <1>4, <1>8, <5>1 DEF Talk!Answered, CallHolds
        <5>3. call'[n].step = "counts" /\ call'[n].made = FALSE /\ (call'[n].kind # "search" \/ remembered)
          BY <1>2, <1>6, <1>8, <3>2
        <5> QED BY <1>2, <1>8, <1>3, <5>1, <5>2, <5>3, CountedOnStays DEF Late, Early
      <4> QED BY <1>2, <4>2
    <3> QED BY <3>1, <3>2
  <2> QED BY <2>1, <2>2, <2>3 DEF TurnsHold
<1>14. ApartHolds' /\ PlansHold'
  BY <1>1, <1>6, <1>8, <1>9, <1>3, ApartStays
<1> QED BY <1>10, <1>11, <1>12, <1>13, <1>14 DEF TalkInv

\* The history begun anew.
LEMMA HistorySet ==
  ASSUME TalkTyped, NEW h \in Seq(Sayings), Talk!Set(h)
  PROVE  /\ talk' = h /\ unheard' \subseteq CallNumbers
         /\ \A p : p \in Talk!Heard(talk) \/ p \in unheard => p \in Talk!Heard(h) \/ p \in unheard'
         /\ \A p : p \in Talk!Heard(h) => p \notin unheard'
<1>1. talk' = h /\ unheard' = (unheard \cup Talk!Heard(talk)) \ Talk!Heard(h)
  BY DEF Talk!Set
<1>2. Talk!Heard(talk) \subseteq CallNumbers
  BY Entry DEF TalkTyped, Talk!Heard, Talk!Users
<1> QED BY <1>1, <1>2 DEF TalkTyped

\* A run of its own begins the history anew.
LEMMA TalkOpens ==
  ASSUME TalkInv, NEW n \in CallNumbers, Talk!Opens(n)
  PROVE  TalkInv'
<1> DEFINE e == [by |-> n, turn |-> 1, words |-> call[n].words]
           g == Append(<<>>, e)
<1>1. /\ call[n].step = "opens" /\ Talk!Set(g) /\ latest' = n
      /\ begun_calls' = {} /\ standing' = standing /\ remembered' = remembered /\ had' = had
      /\ \/ call' = [call EXCEPT ![n].step = "starts"]
         \/ call' = [call EXCEPT ![n].step = "says", ![n].kind = "question"]
  <2>1. g = <<Talk!Said(n, 1, call[n].words)>>
    BY DEF Talk!Said
  <2> QED BY <2>1 DEF Talk!Opens, Talk!Goes
<1>2. TalkTyped /\ CallsHold /\ HistoriesHold /\ TurnsHold /\ ApartHolds /\ PlansHold
  BY DEF TalkInv
<1>3. /\ call[n] \in Requests /\ CallHolds(call[n]) /\ call[n].words \in Int /\ call[n].made \in BOOLEAN
  BY RequestKnown
<1>4. PICK r \in {[call[n] EXCEPT !.step = "starts"], [call[n] EXCEPT !.step = "says", !.kind = "question"]} :
        call' = [call EXCEPT ![n] = r]
  BY <1>1, <1>2 DEF TalkTyped
<1>5. ~call[n].made /\ ~Changing(call[n]) /\ call[n].kind # "question" /\ call[n].turn = 1
      /\ call[n].words # Talk!Other
  BY <1>1, <1>3 DEF CallHolds, Afresh, Live
<1>6. /\ r \in Requests /\ r.words = call[n].words /\ r.turn = 1 /\ r.made = FALSE /\ r.after = call[n].after
      /\ \/ r.step = "starts" /\ r.kind = call[n].kind
         \/ r.step = "says" /\ r.kind = "question"
  BY <1>3, <1>5 DEF Requests, CallKinds, CallSteps
<1>7. call' \in [CallNumbers -> Requests] /\ call'[n] = r /\ \A m \in CallNumbers \ {n} : call'[m] = call[m]
  BY <1>4, <1>6, <1>2, OneRequest
<1>8. Onward(call, call')
  <2>1. ~Talk!Answered(call[n]) /\ ~Recorded(call[n])
    BY <1>1, <1>5 DEF Talk!Answered, Recorded
  <2>2. Turned(call'[n]) /\ call'[n].turn = call[n].turn
    BY <1>5, <1>6, <1>7 DEF Turned
  <2> QED BY <1>7, <2>1, <2>2, GoesOnward
<1>9. e \in Sayings /\ e.by = n /\ e.turn = 1 /\ e.words = call[n].words
  BY <1>3 DEF Sayings
<1> HIDE DEF e
<1>10. HistoryHolds(g, call', n) /\ g \in Seq(Sayings)
  <2> DEFINE none == <<>>
  <2>1. none \in Seq(Sayings) /\ EntriesHold(none, call') /\ LastHolds(none, n)
    BY DEF EntriesHold, LastHolds, Talk!Users, Talk!Heard
  <2>2. Turned(call'[n]) /\ Recorded(call'[n])
    BY <1>6, <1>7 DEF Turned, Recorded
  <2>3. g = Append(none, e)
    OBVIOUS
  <2> HIDE DEF none, g
  <2>4. /\ Turned(call'[e.by]) /\ e.turn = call'[e.by].turn /\ e.words # Talk!Other /\ n = e.by
        /\ Recorded(call'[e.by]) /\ e.words = call'[e.by].words
    BY <1>5, <1>6, <1>7, <1>9, <2>2
  <2> QED BY <1>9, <2>1, <2>3, <2>4, HistoryGrows
<1>11. n \in Talk!Heard(g)
  <2>1. 1 \in DOMAIN g /\ g[1] = e
    BY <1>9
  <2> QED BY <1>5, <1>9, <2>1 DEF Talk!Heard, Talk!Users
<1> HIDE DEF g
<1>12. /\ talk' = g /\ unheard' \subseteq CallNumbers
      /\ \A p : p \in Talk!Heard(talk) \/ p \in unheard => p \in Talk!Heard(g) \/ p \in unheard'
  BY <1>1, <1>10, <1>2, HistorySet
<1>13. TalkTyped'
  <2>1. n \in 0..MaxCalls
    BY CallsBound DEF CallNumbers
  <2> QED BY <1>1, <1>7, <1>10, <1>12, <1>2, <2>1 DEF TalkTyped
<1>14. CallsHold'
  <2>1. CallHolds(call'[n])
    BY <1>5, <1>6, <1>7 DEF CallHolds, Afresh, Live, Changing
  <2>2. call[n].step \notin {"off", "starts"} /\ call'[n].step \notin {"off", "runs"}
    BY <1>1, <1>6, <1>7
  <2>3. call[n].step = "opens" /\ ~Talk!Answered(call[n])
    BY <1>1, <1>5 DEF Talk!Answered
  <2> QED BY <1>1, <1>7, <1>8, <1>2, <2>1, <2>2, <2>3, CallsGoOn
<1>15. HistoriesHold'
  <2>1. ASSUME NEW m \in CallNumbers, call'[m].step = "saying" PROVE HistoryHolds(call'[m].seen, call', n)
    <3>1. m # n /\ call[m].step = "saying" /\ call'[m].seen = call[m].seen
      BY <1>6, <1>7, <2>1
    <3>2. HistoryHolds(call[m].seen, call, latest) /\ call[m].seen \in Seq(Sayings)
      BY <1>2, <3>1, RequestKnown DEF HistoriesHold
    <3>3. ~Recorded(call[n])
      BY <1>1, <1>5 DEF Recorded
    <3> QED BY <1>8, <3>1, <3>2, <3>3, HistoryStays, NotHeardYet DEF HistoryHolds
  <2> QED BY <1>1, <1>10, <1>11, <1>12, <2>1 DEF HistoriesHold
<1>16. TurnsHold'
  <2>1. \A m \in CallNumbers : Live(call'[m]) /\ call'[m].step = "starts" /\ Changing(call'[m])
        => m \in Talk!Heard(talk') \cup unheard'
    <3>1. ~Changing(call'[n])
      BY <1>5, <1>6, <1>7 DEF Changing
    <3> QED BY <1>7, <1>12, <1>2, <3>1 DEF TurnsHold
  <2> QED BY <1>1, <2>1 DEF TurnsHold
<1>17. ApartHolds' /\ PlansHold'
  <2>1. ~Changing(call'[n])
    BY <1>5, <1>6, <1>7 DEF Changing
  <2> QED BY <1>1, <1>6, <1>7, <1>8, <1>2, <2>1, ApartStays
<1> QED BY <1>13, <1>14, <1>15, <1>16, <1>17 DEF TalkInv

\* The later of two turns.
LEMMA LargerOfTwo ==
  ASSUME NEW a \in Int, NEW b \in Int
  PROVE  Talk!Max({a, b}) \in {a, b} /\ Talk!Max({a, b}) >= a /\ Talk!Max({a, b}) >= b
<1>1. \E x \in {a, b} : \A y \in {a, b} : x >= y
  OBVIOUS
<1> QED BY <1>1 DEF Talk!Max

\* A change's turn comes after every turn of the history, and after the last that the state had.
LEMMA TurnCounted ==
  ASSUME TalkTyped, HistoriesHold
  PROVE  /\ Talk!get_current_turn \in Nat
         /\ \A i \in DOMAIN talk : talk[i].turn <= Talk!get_current_turn
<1>1. CASE talk = <<>>
  BY <1>1 DEF Talk!get_current_turn
<1>2. CASE talk # <<>>
  <2> DEFINE said == {talk[i].turn : i \in DOMAIN talk}
  <2>1. \A i \in DOMAIN talk : talk[i].turn \in Nat
    BY Entry DEF TalkTyped
  <2>2. PICK i \in DOMAIN talk : \A j \in DOMAIN talk : talk[j].turn <= talk[i].turn
    BY <1>2 DEF HistoriesHold, HistoryHolds, EntriesHold
  <2>3. \E x \in said : \A y \in said : x >= y
    BY <2>1, <2>2
  <2>4. Talk!get_current_turn = Talk!Max(said)
    BY <1>2 DEF Talk!get_current_turn
  <2>5. Talk!Max(said) \in said /\ \A y \in said : Talk!Max(said) >= y
    <3> HIDE DEF said
    <3> QED BY <2>3 DEF Talk!Max
  <2> QED BY <2>1, <2>4, <2>5
<1> QED BY <1>1, <1>2

\* A change counts its turn.
LEMMA TalkCounts ==
  ASSUME TalkInv, NEW n \in CallNumbers, Talk!Counts(n)
  PROVE  TalkInv'
<1> DEFINE current == Talk!get_current_turn
           next == Talk!Max({current, 1}) + 1
           with_state == remembered \/ call[n].kind = "search"
           turn == IF with_state THEN next ELSE Talk!Max({next, Talk!Max({had, 1}) + 1})
           heard_of == IF with_state THEN begun_calls \ unheard ELSE begun_calls
<1>1. /\ call[n].step = "counts"
      /\ call' = [call EXCEPT ![n].turn = turn, ![n].after = heard_of, ![n].step = "says"]
      /\ had' = had \/ had' = Talk!Max({had, turn})
      /\ talk' = talk /\ standing' = standing /\ remembered' = remembered /\ begun_calls' = begun_calls
      /\ unheard' = unheard
      /\ latest' = latest
  BY DEF Talk!Counts
<1>2. TalkTyped /\ CallsHold /\ HistoriesHold /\ TurnsHold /\ ApartHolds /\ PlansHold
  BY DEF TalkInv
<1>3. /\ call[n] \in Requests /\ CallHolds(call[n]) /\ call[n].made \in BOOLEAN
  BY RequestKnown
<1>4. /\ turn \in Nat /\ turn > 1 /\ turn > current /\ current \in Nat /\ (~with_state => turn > had)
  <2>1. current \in Nat /\ had \in Nat
    BY <1>2, TurnCounted DEF TalkTyped
  <2> HIDE DEF current
  <2>2. current \in Int /\ had \in Int /\ 1 \in Int
    BY <2>1
  <2>3. /\ Talk!Max({current, 1}) \in {current, 1}
        /\ Talk!Max({current, 1}) >= current /\ Talk!Max({current, 1}) >= 1
    BY <2>2, LargerOfTwo
  <2>4. /\ Talk!Max({had, 1}) \in {had, 1}
        /\ Talk!Max({had, 1}) >= had /\ Talk!Max({had, 1}) >= 1
    BY <2>2, LargerOfTwo
  <2>5. next \in Int /\ next > 1 /\ next > current
    BY <2>1, <2>3
  <2> DEFINE other == Talk!Max({had, 1}) + 1
  <2>6. other \in Int /\ other > had
    BY <2>1, <2>4
  <2> HIDE DEF next, other
  <2>7. /\ Talk!Max({next, other}) \in {next, other}
        /\ Talk!Max({next, other}) >= next /\ Talk!Max({next, other}) >= other
    BY <2>5, <2>6, LargerOfTwo
  <2>8. /\ with_state => turn = next
        /\ ~with_state => turn = Talk!Max({next, other})
    BY DEF other
  <2> HIDE DEF turn
  <2> QED BY <2>1, <2>5, <2>6, <2>7, <2>8
<1>19. heard_of \subseteq begun_calls
  OBVIOUS
<1>20. remembered \/ call[n].kind = "search" => heard_of = begun_calls \ unheard
  OBVIOUS
<1>21. ~remembered /\ call[n].kind # "search" => turn > had
  BY <1>4
<1> HIDE DEF current, turn, with_state, heard_of
<1>5. had' \in Nat /\ had' >= had
  BY <1>1, <1>4, <1>2, LargerOfTwo DEF TalkTyped
<1> DEFINE r == [call[n] EXCEPT !.turn = turn, !.after = heard_of, !.step = "says"]
<1>6. call' = [call EXCEPT ![n] = r]
  BY <1>1, <1>2 DEF TalkTyped
<1>7. ~call[n].made /\ Changing(call[n]) /\ call[n].words # Talk!Other
  BY <1>1, <1>3 DEF CallHolds
<1>8. /\ r \in Requests /\ r.words = call[n].words /\ r.turn = turn /\ r.made = FALSE
      /\ r.after = heard_of
      /\ r.step = "says" /\ r.kind = call[n].kind
  <2>1. begun_calls \subseteq 0..MaxCalls
    BY <1>2, CallsBound DEF TalkTyped, CallNumbers
  <2>2. heard_of \in SUBSET (0..MaxCalls)
    BY <1>19, <2>1, Zenon
  <2> HIDE DEF CallNumbers
  <2> QED BY <1>3, <1>7, <1>4, <2>2 DEF Requests, CallSteps
<1> HIDE DEF r
<1>9. call' \in [CallNumbers -> Requests] /\ call'[n] = r /\ \A m \in CallNumbers \ {n} : call'[m] = call[m]
  BY <1>6, <1>8, <1>2, OneRequest
<1>10. ~Turned(call[n]) /\ ~Talk!Answered(call[n]) /\ ~Recorded(call[n])
  BY <1>1, <1>7 DEF Turned, Talk!Answered, Recorded, Changing
<1>11. Onward(call, call')
  BY <1>9, <1>10, GoesOnward
<1>12. TalkTyped'
  BY <1>1, <1>9, <1>5, <1>2 DEF TalkTyped
<1>13. CallsHold'
  <2>1. CallHolds(call'[n])
    BY <1>7, <1>8, <1>9 DEF CallHolds, Afresh, Live, Changing
  <2>2. \A m \in CallNumbers : call'[m].kind = "question" => begun_calls' = {}
    BY <1>1, <1>8, <1>9, <1>2 DEF CallsHold
  <2>3. call[n].step # "off" /\ call'[n].step \notin {"off", "runs"}
    BY <1>1, <1>8, <1>9
  <2> QED BY <1>1, <1>9, <1>11, <1>2, <2>1, <2>2, <2>3, CallsGoOn
<1>14. HistoriesHold'
  BY <1>1, <1>8, <1>9, <1>11, <1>2, HistoriesStay
<1>15. ASSUME NEW p \in begun_calls
      PROVE  p \in CallNumbers /\ p # n /\ Talk!Answered(call[p]) /\ call'[p] = call[p] /\ call[p].turn \in Nat
             /\ call[p].turn <= had
  <2>1. p \in CallNumbers /\ Talk!Answered(call[p]) /\ call[p].turn <= had
    BY <1>2 DEF TurnsHold, TalkTyped
  <2> QED BY <1>9, <1>10, <2>1, RequestKnown
<1>16. ASSUME NEW p \in begun_calls \ unheard
      PROVE  call[p].turn < turn /\ CountedOn(p)'
  <2>1. CountedOn(p)
    <3>1. \A m \in CallNumbers : ~Afresh(call[m])
      BY <1>1, <1>7, <1>2, <1>10, OneAtATime DEF Afresh
    <3> QED BY <1>2, <3>1 DEF TurnsHold
  <2>2. CASE call[p].turn = 1
    BY <1>4, <1>15, <2>2 DEF CountedOn
  <2>3. CASE p \in Talk!Heard(talk)
    <3>1. PICK i \in DOMAIN talk : talk[i].by = p
      BY <2>3 DEF Talk!Heard, Talk!Users
    <3>2. talk[i].turn = call[p].turn /\ talk[i].turn <= current
      BY <1>2, <3>1, TurnCounted DEF HistoriesHold, HistoryHolds, EntriesHold, current
    <3>3. call[p].turn < turn
      BY <1>4, <1>15, <3>2
    <3> QED BY <1>1, <2>3, <3>3 DEF CountedOn
  <2>4. CASE Gone(p, talk, call, remembered)
    <3>1. call[p].turn < turn
      BY <1>1, <1>21, <1>4, <1>15, <1>2, <2>4 DEF Gone, TalkTyped
    <3>2. Gone(p, talk', call', remembered')
      BY <1>1, <1>8, <1>9, <1>15, <2>4, <3>1 DEF Gone
    <3> QED BY <3>1, <3>2 DEF CountedOn
  <2>5. CASE Above(p, talk, call)
    <3>1. PICK i \in DOMAIN talk : talk[i].turn > call[p].turn
      <4>1. talk # <<>> /\ talk \in Seq(Sayings)
        BY <1>2, <2>5 DEF Above, AllLater, TalkTyped
      <4>2. 1 \in DOMAIN talk
        BY <4>1
      <4> QED BY <2>5, <4>2 DEF Above, AllLater
    <3>2. talk[i].turn \in Nat /\ talk[i].turn <= current
      BY <1>2, TurnCounted, Entry DEF current, TalkTyped
    <3>3. call[p].turn < turn
      BY <1>4, <1>15, <3>1, <3>2
    <3>4. Above(p, talk', call')
      BY <1>1, <1>8, <1>9, <1>15, <2>5, <3>3 DEF Above
    <3> QED BY <3>3, <3>4 DEF CountedOn
  <2> QED BY <2>1, <2>2, <2>3, <2>4, <2>5 DEF CountedOn
<1>17. TurnsHold'
  <2>1. \A p \in begun_calls' : Talk!Answered(call'[p]) /\ call'[p].turn <= had'
    BY <1>1, <1>5, <1>15, <1>2 DEF TalkTyped
  <2>2. \A m \in CallNumbers : Live(call'[m]) /\ call'[m].step = "starts" /\ Changing(call'[m])
        => m \in Talk!Heard(talk') \cup unheard'
    BY <1>1, <1>8, <1>9, <1>2 DEF TurnsHold
  <2>3. \A p \in begun_calls' \ unheard' : CountedOn(p)'
    BY <1>1, <1>16
  <2> QED BY <2>1, <2>2, <2>3 DEF TurnsHold
<1>18. ApartHolds' /\ PlansHold'
  <2>1. ASSUME NEW k \in CallNumbers, Changing(call'[k]), NEW m \in call'[k].after
        PROVE  m \in CallNumbers /\ Talk!Answered(call'[m]) /\ call'[m].turn < call'[k].turn
    <3>1. CASE k = n
      <4>1. m \in begun_calls /\ call[m].turn < turn
        <5>1. m \in heard_of
          BY <1>8, <1>9, <2>1, <3>1
        <5>2. CASE remembered \/ call[n].kind = "search"
          BY <1>16, <1>20, <5>1, <5>2
        <5>3. CASE ~remembered /\ call[n].kind # "search"
          <6>1. m \in begun_calls /\ call[m].turn \in Nat /\ call[m].turn <= had
            BY <1>15, <1>19, <5>1
          <6> QED BY <1>2, <1>4, <1>21, <5>3, <6>1 DEF TalkTyped
        <5> QED BY <5>2, <5>3
      <4> QED BY <1>8, <1>9, <1>15, <3>1, <4>1
    <3>2. CASE k # n
      <4>1. m \in CallNumbers /\ Talk!Answered(call[m]) /\ call[m].turn < call[k].turn
        BY <1>9, <1>2, <2>1, <3>2 DEF ApartHolds
      <4> QED BY <1>9, <1>10, <3>2, <4>1
    <3> QED BY <3>1, <3>2
  <2>2. ASSUME NEW k \in CallNumbers, call'[k].kind = "retry", call'[k].step \in {"opens", "starts"},
        NEW m \in call'[k].after
        PROVE  /\ m \in CallNumbers => Recorded(call'[m])
               /\ call'[k].words \in {Talk!SearchAgain, IF m = Talk!Nobody THEN Talk!StandIn ELSE call'[m].words}
    <3>1. call'[k] = call[k]
      BY <1>8, <1>9, <2>2
    <3>2. /\ m \in CallNumbers => Recorded(call[m])
          /\ call[k].words \in {Talk!SearchAgain, IF m = Talk!Nobody THEN Talk!StandIn ELSE call[m].words}
      BY <1>2, <2>2, <3>1 DEF PlansHold
    <3>3. m \in CallNumbers \/ m = Talk!Nobody
      <4>1. call[k].after \subseteq 0..MaxCalls
        BY RequestKnown
      <4> QED BY <2>2, <3>1, <4>1, CallsBound DEF CallNumbers, Talk!Nobody
    <3> QED BY <1>11, <3>1, <3>2, <3>3 DEF Onward
  <2> QED BY <2>1, <2>2 DEF ApartHolds, PlansHold
<1> QED BY <1>12, <1>13, <1>14, <1>17, <1>18 DEF TalkInv

\* A trip planned again reads what was written.
LEMMA TalkReads ==
  ASSUME TalkInv, NEW n \in CallNumbers, Talk!AppendReads(n)
  PROVE  TalkInv'
<1> DEFINE r == [call[n] EXCEPT !.seen = talk, !.step = "saying"]
<1>1. /\ call[n].step = "says" /\ call' = [call EXCEPT ![n].seen = talk, ![n].step = "saying"]
      /\ talk' = talk /\ standing' = standing /\ remembered' = remembered /\ had' = had /\ begun_calls' = begun_calls
      /\ unheard' = unheard /\ latest' = latest
  BY DEF Talk!AppendReads
<1>2. TalkTyped /\ CallsHold /\ HistoriesHold /\ TurnsHold /\ ApartHolds /\ PlansHold
  BY DEF TalkInv
<1>3. /\ call[n] \in Requests /\ CallHolds(call[n]) /\ call[n].made \in BOOLEAN
  BY RequestKnown
<1>4. call' = [call EXCEPT ![n] = r]
  BY <1>1, <1>2 DEF TalkTyped
<1>5. /\ r \in Requests /\ r.words = call[n].words /\ r.turn = call[n].turn /\ r.made = call[n].made
      /\ r.after = call[n].after
      /\ r.step = "saying" /\ r.kind = call[n].kind /\ r.seen = talk
  BY <1>3, <1>2 DEF Requests, CallSteps, TalkTyped
<1> HIDE DEF r
<1>6. call' \in [CallNumbers -> Requests] /\ call'[n] = r /\ \A m \in CallNumbers \ {n} : call'[m] = call[m]
  BY <1>4, <1>5, <1>2, OneRequest
<1>7. Onward(call, call')
  <2>1. Turned(call'[n]) /\ (Recorded(call[n]) => Recorded(call'[n]))
        /\ (Talk!Answered(call[n]) => Talk!Answered(call'[n]))
    BY <1>1, <1>5, <1>6 DEF Turned, Recorded, Talk!Answered
  <2> QED BY <1>5, <1>6, <2>1, GoesOnward
<1>8. TalkTyped'
  BY <1>1, <1>6, <1>2 DEF TalkTyped
<1>9. CallsHold'
  <2>1. CallHolds(call'[n])
    BY <1>1, <1>5, <1>6, <1>3 DEF CallHolds, Afresh, Live, Changing
  <2>2. \A m \in CallNumbers : call'[m].kind = "question" => begun_calls' = {}
    BY <1>1, <1>5, <1>6, <1>2 DEF CallsHold
  <2>3. call[n].step # "off" /\ call'[n].step \notin {"off", "runs"}
    BY <1>1, <1>5, <1>6
  <2> QED BY <1>1, <1>6, <1>7, <1>2, <2>1, <2>2, <2>3, CallsGoOn
<1>10. HistoriesHold'
  BY <1>1, <1>5, <1>6, <1>7, <1>2, HistoriesStay
<1>11. TurnsHold'
  <2>1. \A p \in begun_calls' : Talk!Answered(call'[p]) /\ call'[p].turn <= had'
    BY <1>1, <1>5, <1>6, <1>7, <1>2 DEF TurnsHold, TalkTyped, Onward
  <2>2. \A m \in CallNumbers : Live(call'[m]) /\ call'[m].step = "starts" /\ Changing(call'[m])
        => m \in Talk!Heard(talk') \cup unheard'
    BY <1>1, <1>5, <1>6, <1>2 DEF TurnsHold
  <2>3. (\E m \in CallNumbers : Afresh(call'[m])) \/ \A p \in begun_calls' \ unheard' : CountedOn(p)'
    <3>1. ASSUME NEW m \in CallNumbers, Afresh(call[m]) PROVE Afresh(call'[m])
      BY <1>1, <1>5, <1>6, <3>1 DEF Afresh, Live, Changing
    <3>2. ASSUME NEW p \in begun_calls \ unheard, CountedOn(p) PROVE CountedOn(p)'
      <4>1. p \in CallNumbers /\ call'[p].turn = call[p].turn
        BY <1>5, <1>6, <1>2 DEF TalkTyped
      <4> QED BY <1>1, <1>5, <1>6, <1>3, <1>2, <3>2, <4>1, CountedOnStays DEF Late, Early
    <3> QED BY <1>1, <1>2, <3>1, <3>2 DEF TurnsHold
  <2> QED BY <2>1, <2>2, <2>3 DEF TurnsHold
<1>12. ApartHolds' /\ PlansHold'
  <2>1. Changing(call'[n]) => Changing(call[n])
    BY <1>5, <1>6 DEF Changing
  <2> QED BY <1>5, <1>6, <1>7, <1>2, <2>1, ApartStays
<1> QED BY <1>8, <1>9, <1>10, <1>11, <1>12 DEF TalkInv

\* Turns that are all later stay so with one more that is.
LEMMA LaterGrows ==
  ASSUME NEW h \in Seq(Sayings), NEW e \in Sayings, NEW t \in Nat, AllLater(h, t) \/ h = <<>>, e.turn > t
  PROVE  AllLater(Append(h, e), t)
<1> DEFINE g == Append(h, e)
<1>1. /\ g[Len(g)] = e /\ Len(g) = Len(h) + 1 /\ Len(h) \in Nat
      /\ \A i \in DOMAIN h : g[i] = h[i]
      /\ \A i \in DOMAIN g : i \in DOMAIN h \/ i = Len(g)
  BY OneMore
<1>2. g # <<>>
  BY <1>1
<1> QED BY <1>1, <1>2 DEF AllLater

\* What was said is written: read, added to, and written back.
LEMMA TalkWrites ==
  ASSUME TalkInv, NEW n \in CallNumbers, Talk!AppendWrites(n), ~call[n].made, call[n].kind # "question"
  PROVE  TalkInv'
<1> DEFINE e == [by |-> n, turn |-> call[n].turn, words |-> call[n].words]
           g == Append(call[n].seen, e)
           r == [call[n] EXCEPT !.seen = <<>>, !.step = "starts"]
<1>1. /\ call[n].step = "saying" /\ Talk!Set(g) /\ latest' = (IF call[n].words # Talk!SearchAgain THEN n ELSE latest)
      /\ call' = [call EXCEPT ![n].seen = <<>>, ![n].step = "starts"]
      /\ begun_calls' = begun_calls /\ standing' = standing /\ remembered' = remembered /\ had' = had
  BY DEF Talk!AppendWrites, Talk!Said
<1>2. TalkTyped /\ CallsHold /\ HistoriesHold /\ TurnsHold /\ ApartHolds /\ PlansHold
  BY DEF TalkInv
<1>3. /\ call[n] \in Requests /\ CallHolds(call[n]) /\ call[n].words \in Int /\ call[n].turn \in Nat
      /\ call[n].seen \in Seq(Sayings)
  BY RequestKnown
<1>4. call' = [call EXCEPT ![n] = r]
  BY <1>1, <1>2 DEF TalkTyped
<1>5. call[n].words # Talk!Other /\ call[n].kind # "retry" /\ call[n].kind \in CallKinds
  BY <1>1, <1>3 DEF CallHolds, Requests
<1>6. /\ r \in Requests /\ r.words = call[n].words /\ r.turn = call[n].turn /\ r.made = call[n].made
      /\ r.after = call[n].after
      /\ r.step = "starts" /\ r.kind = call[n].kind
  <2>1. <<>> \in Seq(Sayings)
    OBVIOUS
  <2> QED BY <1>3, <2>1 DEF Requests, CallSteps
<1> HIDE DEF r
<1>7. call' \in [CallNumbers -> Requests] /\ call'[n] = r /\ \A m \in CallNumbers \ {n} : call'[m] = call[m]
  BY <1>4, <1>6, <1>2, OneRequest
<1>8. ~Talk!Answered(call[n]) /\ ~Recorded(call[n]) /\ Turned(call[n]) /\ Turned(call'[n]) /\ Recorded(call'[n])
  BY <1>1, <1>6, <1>7 DEF Talk!Answered, Recorded, Turned
<1>9. Onward(call, call')
  BY <1>6, <1>7, <1>8, GoesOnward
<1>10. e \in Sayings /\ e.by = n /\ e.turn = call[n].turn /\ e.words = call[n].words
  BY <1>3 DEF Sayings
<1> HIDE DEF e
<1>11. HistoryHolds(g, call', latest') /\ g \in Seq(Sayings)
  <2>1. EntriesHold(call[n].seen, call') /\ LastHolds(call[n].seen, latest)
    BY <1>1, <1>9, <1>3, <1>2, HistoryStays DEF HistoriesHold, HistoryHolds
  <2>2. /\ Turned(call'[e.by]) /\ e.turn = call'[e.by].turn /\ e.words # Talk!Other
        /\ Recorded(call'[e.by]) /\ e.words = call'[e.by].words
    BY <1>5, <1>6, <1>7, <1>10, <1>8
  <2>3. (e.words \in {Talk!Other, Talk!SearchAgain} /\ latest' = latest) \/ latest' = e.by
    BY <1>1, <1>10
  <2> HIDE DEF g
  <2>4. g = Append(call[n].seen, e)
    BY DEF g
  <2> QED BY <1>10, <1>3, <2>1, <2>2, <2>3, <2>4, HistoryGrows
<1>12. n \in Talk!Heard(g)
  <2>1. Len(g) \in DOMAIN g /\ g[Len(g)] = e
    BY <1>10, <1>3, OneMore
  <2> QED BY <1>5, <1>10, <2>1 DEF Talk!Heard, Talk!Users
<1>13. \A p \in CallNumbers : call[p].turn \in Nat
  BY RequestKnown
<1>14. \A p \in CallNumbers : (AllLater(call[n].seen, call[p].turn) \/ call[n].seen = <<>>)
       /\ call[n].turn > call[p].turn =>
        AllLater(g, call[p].turn)
  BY <1>10, <1>3, <1>13, LaterGrows
<1> HIDE DEF g
<1>15. /\ talk' = g /\ unheard' \subseteq CallNumbers
      /\ \A p : p \in Talk!Heard(talk) \/ p \in unheard => p \in Talk!Heard(g) \/ p \in unheard'
  BY <1>1, <1>11, <1>2, HistorySet
<1>16. TalkTyped'
  <2>1. latest' \in 0..MaxCalls
    BY <1>1, <1>2, CallsBound DEF CallNumbers, TalkTyped
  <2> QED BY <1>1, <1>7, <1>11, <1>15, <1>2, <2>1 DEF TalkTyped
<1>17. CallsHold'
  <2>1. CallHolds(call'[n])
    BY <1>1, <1>5, <1>6, <1>7, <1>3 DEF CallHolds, Afresh, Live, Changing
  <2>2. \A m \in CallNumbers : call'[m].kind = "question" => begun_calls' = {}
    BY <1>1, <1>6, <1>7, <1>2 DEF CallsHold
  <2>3. call[n].step # "off" /\ call'[n].step \notin {"off", "runs"}
    BY <1>1, <1>6, <1>7
  <2> QED BY <1>1, <1>7, <1>9, <1>2, <2>1, <2>2, <2>3, CallsGoOn
<1>18. HistoriesHold'
  <2>1. ASSUME NEW m \in CallNumbers, call'[m].step = "saying" PROVE HistoryHolds(call'[m].seen, call', latest')
    <3>1. m # n /\ call[m].step = "saying" /\ call'[m].seen = call[m].seen
      BY <1>6, <1>7, <2>1
    <3>2. HistoryHolds(call[m].seen, call, latest) /\ call[m].seen \in Seq(Sayings)
      BY <1>2, <3>1, RequestKnown DEF HistoriesHold
    <3>3. EntriesHold(call[m].seen, call')
      BY <1>9, <3>2, HistoryStays DEF HistoryHolds
    <3>4. LastHolds(call[m].seen, latest')
      BY <1>1, <1>8, <3>2, NotHeardYet DEF HistoryHolds
    <3> QED BY <3>1, <3>3, <3>4 DEF HistoryHolds
  <2>2. latest' \in Talk!Heard(talk') \cup unheard' \cup {Talk!Nobody}
    BY <1>1, <1>12, <1>15, <1>2 DEF HistoriesHold
  <2> QED BY <1>11, <1>15, <2>1, <2>2 DEF HistoriesHold
<1>19. TurnsHold'
  <2>1. \A p \in begun_calls' : Talk!Answered(call'[p]) /\ call'[p].turn <= had'
    BY <1>1, <1>6, <1>7, <1>9, <1>2 DEF TurnsHold, TalkTyped, Onward
  <2>2. \A m \in CallNumbers : Live(call'[m]) /\ call'[m].step = "starts" /\ Changing(call'[m])
        => m \in Talk!Heard(talk') \cup unheard'
    BY <1>7, <1>12, <1>15, <1>2 DEF TurnsHold
  <2>3. (\E m \in CallNumbers : Afresh(call'[m])) \/ \A p \in begun_calls' \ unheard' : CountedOn(p)'
    <3>1. CASE ~Changing(call[n])
      BY <1>6, <1>7, <3>1 DEF Afresh, Live, Changing
    <3>2. CASE Changing(call[n])
      <4>1. \A m \in CallNumbers \ {n} : ~Live(call[m]) /\ (Talk!Answered(call[m]) \/ call[m].step = "off")
        <5>1. \A m \in CallNumbers \ {n} : m < n \/ m > n
          BY DEF CallNumbers
        <5> QED BY <1>1, <1>2, <1>8, <5>1, OneAtATime
      <4>2. ASSUME NEW p \in begun_calls, p \notin unheard' PROVE CountedOn(p)'
        <5>1. p \in CallNumbers /\ call'[p].turn = call[p].turn
          BY <1>6, <1>7, <1>2 DEF TalkTyped
        <5>2. CASE p \in Talk!Heard(g)
          BY <1>15, <5>2 DEF CountedOn
        <5>3. CASE p \notin Talk!Heard(g)
          <6>1. p \notin unheard /\ p \notin Talk!Heard(talk)
            BY <1>15, <4>2, <5>3
          <6>2. CountedOn(p)
            BY <1>2, <3>2, <4>1, <6>1 DEF TurnsHold, Afresh
          <6>3. CASE call[p].turn = 1
            BY <5>1, <6>3 DEF CountedOn
          <6>4. CASE Gone(p, talk, call, remembered)
            <7>1. AllLater(g, call[p].turn)
              BY <1>1, <1>14, <5>1, <6>4 DEF Gone
            <7>2. ASSUME NEW m \in CallNumbers
                  PROVE  call'[m].step # "saying" /\ (call'[m].step \in Late => call'[m].turn > call[p].turn)
              <8>1. CASE m = n
                BY <1>1, <1>6, <1>7, <6>4, <8>1 DEF Gone
              <8>2. CASE m # n
                BY <1>7, <4>1, <6>4, <8>2 DEF Gone, Late, Talk!Answered
              <8> QED BY <8>1, <8>2
            <7>3. Above(p, talk', call')
              BY <1>15, <5>1, <7>1, <7>2 DEF Above, Late
            <7> QED BY <7>3 DEF CountedOn
          <6>5. CASE Above(p, talk, call)
            <7>1. AllLater(call[n].seen, call[p].turn) /\ call[n].turn > call[p].turn
              BY <1>1, <6>5 DEF Above
            <7>2. AllLater(g, call[p].turn)
              BY <1>14, <5>1, <7>1
            <7>3. Above(p, talk', call')
              BY <1>6, <1>7, <1>15, <5>1, <6>5, <7>1, <7>2 DEF Above
            <7> QED BY <7>3 DEF CountedOn
          <6> QED BY <6>1, <6>2, <6>3, <6>4, <6>5 DEF CountedOn
        <5> QED BY <5>2, <5>3
      <4> QED BY <1>1, <4>2
    <3> QED BY <3>1, <3>2
  <2> QED BY <2>1, <2>2, <2>3 DEF TurnsHold
<1>20. ApartHolds' /\ PlansHold'
  <2>1. (Changing(call'[n]) => Changing(call[n])) /\ call'[n].kind # "retry"
    BY <1>5, <1>6, <1>7 DEF Changing
  <2> QED BY <1>6, <1>7, <1>9, <1>2, <2>1, ApartStays
<1> QED BY <1>16, <1>17, <1>18, <1>19, <1>20 DEF TalkInv

\* The answer is given.
LEMMA TalkAnswers ==
  ASSUME TalkInv, NEW n \in CallNumbers, Talk!AppendWrites(n), call[n].made \/ call[n].kind = "question"
  PROVE  TalkInv'
<1> DEFINE e == [by |-> n, turn |-> call[n].turn, words |-> Talk!Other]
           g == Append(call[n].seen, e)
           r == [call[n] EXCEPT !.step = "over", !.kind = "none", !.seen = <<>>, !.stood = FALSE]
<1>1. /\ call[n].step = "saying" /\ Talk!Set(g) /\ latest' = latest
      /\ call' = [call EXCEPT ![n].step = "over", ![n].kind = "none", ![n].seen = <<>>, ![n].stood = FALSE]
      /\ begun_calls' = begun_calls /\ standing' = standing /\ remembered' = remembered /\ had' = had
  BY DEF Talk!AppendWrites, Talk!Said, Talk!Over
<1>2. TalkTyped /\ CallsHold /\ HistoriesHold /\ TurnsHold /\ ApartHolds /\ PlansHold
  BY DEF TalkInv
<1>3. /\ call[n] \in Requests /\ CallHolds(call[n]) /\ call[n].turn \in Nat /\ call[n].seen \in Seq(Sayings)
      /\ call[n].made \in BOOLEAN
  BY RequestKnown
<1>4. call' = [call EXCEPT ![n] = r]
  BY <1>1, <1>2 DEF TalkTyped
<1>5. /\ r \in Requests /\ r.words = call[n].words /\ r.turn = call[n].turn /\ r.made = call[n].made
      /\ r.after = call[n].after
      /\ r.step = "over" /\ r.kind = "none"
  <2>1. <<>> \in Seq(Sayings)
    OBVIOUS
  <2> QED BY <1>3, <2>1 DEF Requests, CallSteps, CallKinds
<1> HIDE DEF r
<1>6. call' \in [CallNumbers -> Requests] /\ call'[n] = r /\ \A m \in CallNumbers \ {n} : call'[m] = call[m]
  BY <1>4, <1>5, <1>2, OneRequest
<1>7. Recorded(call'[n]) /\ Turned(call'[n]) /\ Talk!Answered(call'[n])
  BY <1>5, <1>6 DEF Talk!Answered, Recorded, Turned
<1>8. Onward(call, call')
  BY <1>5, <1>6, <1>7, GoesOnward
<1>9. e \in Sayings /\ e.by = n /\ e.turn = call[n].turn /\ e.words = Talk!Other
  BY <1>3 DEF Sayings, Talk!Other
<1> HIDE DEF e
<1>10. HistoryHolds(g, call', latest) /\ g \in Seq(Sayings)
  <2>1. EntriesHold(call[n].seen, call') /\ LastHolds(call[n].seen, latest)
    BY <1>1, <1>8, <1>3, <1>2, HistoryStays DEF HistoriesHold, HistoryHolds
  <2>2. Turned(call'[e.by]) /\ e.turn = call'[e.by].turn
    BY <1>5, <1>6, <1>9, <1>7
  <2>3. g = Append(call[n].seen, e)
    OBVIOUS
  <2> HIDE DEF g
  <2> QED BY <1>9, <1>3, <2>1, <2>2, <2>3, HistoryGrows
<1>11. \A p \in CallNumbers : call[p].turn \in Nat
  BY RequestKnown
<1>12. \A p \in CallNumbers : AllLater(call[n].seen, call[p].turn) /\ call[n].turn > call[p].turn
       => AllLater(g, call[p].turn)
  BY <1>9, <1>3, <1>11, LaterGrows
<1> HIDE DEF g
<1>13. /\ talk' = g /\ unheard' \subseteq CallNumbers
      /\ \A p : p \in Talk!Heard(talk) \/ p \in unheard => p \in Talk!Heard(g) \/ p \in unheard'
  BY <1>1, <1>10, <1>2, HistorySet
<1>14. TalkTyped'
  BY <1>1, <1>6, <1>10, <1>13, <1>2 DEF TalkTyped
<1>15. CallsHold'
  <2>1. CallHolds(call'[n])
    BY <1>5, <1>6, <1>3 DEF CallHolds, Afresh, Live, Changing
  <2>2. \A m \in CallNumbers : call'[m].kind = "question" => begun_calls' = {}
    BY <1>1, <1>5, <1>6, <1>2 DEF CallsHold
  <2>3. call[n].step # "off" /\ call'[n].step \notin {"off", "runs"}
    BY <1>1, <1>5, <1>6
  <2> QED BY <1>1, <1>6, <1>8, <1>2, <2>1, <2>2, <2>3, CallsGoOn
<1>16. HistoriesHold'
  <2>1. ASSUME NEW m \in CallNumbers, call'[m].step = "saying" PROVE HistoryHolds(call'[m].seen, call', latest)
    <3>1. m # n /\ call[m].step = "saying" /\ call'[m].seen = call[m].seen
      BY <1>5, <1>6, <2>1
    <3>2. HistoryHolds(call[m].seen, call, latest) /\ call[m].seen \in Seq(Sayings)
      BY <1>2, <3>1, RequestKnown DEF HistoriesHold
    <3> QED BY <1>8, <3>1, <3>2, HistoryStays DEF HistoryHolds
  <2>2. latest \in Talk!Heard(talk') \cup unheard' \cup {Talk!Nobody}
    BY <1>13, <1>2 DEF HistoriesHold
  <2> QED BY <1>1, <1>10, <1>13, <2>1, <2>2 DEF HistoriesHold
<1>17. TurnsHold'
  <2>1. \A p \in begun_calls' : Talk!Answered(call'[p]) /\ call'[p].turn <= had'
    BY <1>1, <1>5, <1>6, <1>8, <1>2 DEF TurnsHold, TalkTyped, Onward
  <2>2. \A m \in CallNumbers : Live(call'[m]) /\ call'[m].step = "starts" /\ Changing(call'[m])
        => m \in Talk!Heard(talk') \cup unheard'
    BY <1>5, <1>6, <1>13, <1>2 DEF TurnsHold
  <2>3. (\E m \in CallNumbers : Afresh(call'[m])) \/ \A p \in begun_calls' \ unheard' : CountedOn(p)'
    <3>1. CASE call[n].kind = "question"
      BY <1>1, <1>2, <3>1 DEF CallsHold
    <3>2. CASE call[n].made
      <4>1. ASSUME NEW m \in CallNumbers, Afresh(call[m]) PROVE Afresh(call'[m])
        BY <1>6, <3>2, <4>1 DEF Afresh, Live
      <4>2. ASSUME NEW p \in begun_calls, p \notin unheard', p \notin unheard => CountedOn(p) PROVE CountedOn(p)'
        <5>1. p \in CallNumbers /\ call'[p].turn = call[p].turn
          BY <1>5, <1>6, <1>2 DEF TalkTyped
        <5>2. CASE p \in Talk!Heard(g)
          BY <1>13, <5>2 DEF CountedOn
        <5>3. CASE p \notin Talk!Heard(g)
          <6>1. CountedOn(p) /\ p \notin Talk!Heard(talk)
            BY <1>13, <4>2, <5>3
          <6>2. CASE call[p].turn = 1
            BY <5>1, <6>2 DEF CountedOn
          <6>3. ~Gone(p, talk, call, remembered)
            BY <1>1, <3>2 DEF Gone
          <6>4. CASE Above(p, talk, call)
            <7>1. AllLater(call[n].seen, call[p].turn) /\ call[n].turn > call[p].turn
              BY <1>1, <6>4 DEF Above
            <7>2. AllLater(g, call[p].turn)
              BY <1>12, <5>1, <7>1
            <7>3. Above(p, talk', call')
              BY <1>5, <1>6, <1>13, <5>1, <6>4, <7>1, <7>2 DEF Above
            <7> QED BY <7>3 DEF CountedOn
          <6> QED BY <6>1, <6>2, <6>3, <6>4 DEF CountedOn
        <5> QED BY <5>2, <5>3
      <4>3. (\E m \in CallNumbers : Afresh(call[m])) \/ \A p \in begun_calls \ unheard : CountedOn(p)
        BY <1>2 DEF TurnsHold
      <4> QED BY <1>1, <4>1, <4>2, <4>3
    <3> QED BY <3>1, <3>2
  <2> QED BY <2>1, <2>2, <2>3 DEF TurnsHold
<1>18. ApartHolds' /\ PlansHold'
  <2>1. ~Changing(call'[n]) /\ call'[n].kind # "retry"
    BY <1>5, <1>6 DEF Changing
  <2> QED BY <1>6, <1>8, <1>2, <2>1, ApartStays
<1> QED BY <1>14, <1>15, <1>16, <1>17, <1>18 DEF TalkInv

\* The writer reads the history it adds to.
LEMMA TalkReadsBack ==
  ASSUME TalkInv, NEW n \in CallNumbers, Talk!ReadsBack(n)
  PROVE  TalkInv'
<1> DEFINE written == IF Talk!Users(talk) = {} THEN Talk!StandIn ELSE talk[Talk!Max(Talk!Users(talk))].words
           r == [call[n] EXCEPT !.words = written, !.after = {latest} \ unheard, !.step = "opens"]
<1>1. /\ call[n].step = "reading"
      /\ call' = [call EXCEPT ![n].words = written, ![n].after = {latest} \ unheard, ![n].step = "opens"]
      /\ talk' = talk /\ standing' = standing /\ remembered' = remembered /\ had' = had /\ begun_calls' = begun_calls
      /\ unheard' = unheard /\ latest' = latest
  BY DEF Talk!ReadsBack
<1>2. TalkTyped /\ CallsHold /\ HistoriesHold /\ TurnsHold /\ ApartHolds /\ PlansHold
  BY DEF TalkInv
<1>3. /\ call[n] \in Requests /\ CallHolds(call[n]) /\ call[n].made \in BOOLEAN
  BY RequestKnown
<1>4. /\ written \in Int /\ written # Talk!Other
      /\ latest \notin unheard =>
           written \in {Talk!SearchAgain, IF latest = Talk!Nobody THEN Talk!StandIn ELSE call[latest].words}
      /\ latest \notin unheard /\ latest # Talk!Nobody => Recorded(call[latest])
  <2>1. EntriesHold(talk, call) /\ LastHolds(talk, latest)
        /\ (latest \in Talk!Heard(talk) \cup unheard \cup {Talk!Nobody})
    BY <1>2 DEF HistoriesHold, HistoryHolds
  <2>2. latest \notin unheard /\ latest # Talk!Nobody => latest \in Talk!Heard(talk) /\ Recorded(call[latest])
    <3>1. ASSUME latest \in Talk!Heard(talk) PROVE Recorded(call[latest])
      BY <2>1, <3>1 DEF Talk!Heard, Talk!Users, EntriesHold
    <3> QED BY <2>1, <3>1
  <2>3. CASE Talk!Users(talk) = {}
    <3>1. written = Talk!StandIn /\ latest \notin Talk!Heard(talk)
      BY <2>3 DEF Talk!Heard
    <3>2. Talk!StandIn \in Int /\ Talk!StandIn # Talk!Other
      BY DEF Talk!StandIn, Talk!Other
    <3> QED BY <2>2, <3>1, <3>2
  <2>4. CASE Talk!Users(talk) # {}
    <3>1. Talk!Users(talk) \subseteq Int
      BY <1>2 DEF Talk!Users, TalkTyped
    <3>2. \E j \in Talk!Users(talk) : \A i \in Talk!Users(talk) : j >= i
      BY <2>1, <2>4, <3>1 DEF LastHolds
    <3> DEFINE j == Talk!Max(Talk!Users(talk))
    <3>3. j \in Talk!Users(talk) /\ \A i \in Talk!Users(talk) : j >= i
      BY <3>2 DEF Talk!Max
    <3>4. written = talk[j].words
      BY <2>4
    <3> HIDE DEF j, written
    <3>5. /\ j \in DOMAIN talk /\ talk[j].words # Talk!Other /\ talk[j].words \in Int
          /\ talk[j].words = call[talk[j].by].words
      BY <1>2, <2>1, <3>3, Entry DEF Talk!Users, TalkTyped, EntriesHold
    <3>6. CASE latest = Talk!Nobody
      BY <2>1, <2>2, <3>3, <3>4, <3>5, <3>6 DEF LastHolds
    <3>7. CASE latest # Talk!Nobody /\ latest \notin unheard
      <4>1. PICK l \in Talk!Users(talk) :
              (\A i \in Talk!Users(talk) : i <= l) /\ (talk[l].by = latest \/ talk[l].words = Talk!SearchAgain)
        BY <2>1, <2>2, <3>7 DEF LastHolds
      <4>2. l = j
        BY <3>1, <3>3, <4>1
      <4> QED BY <2>2, <3>4, <3>5, <3>7, <4>1, <4>2
    <3>8. CASE latest \in unheard
      BY <3>4, <3>5, <3>8
    <3> QED BY <3>6, <3>7, <3>8
  <2> QED BY <2>3, <2>4
<1> HIDE DEF written
<1>5. call' = [call EXCEPT ![n] = r]
  BY <1>1, <1>2 DEF TalkTyped
<1>6. ~call[n].made /\ ~Changing(call[n]) /\ call[n].kind # "question" /\ call[n].turn = 1
  BY <1>1, <1>3 DEF CallHolds, Afresh, Live
<1>7. /\ r \in Requests /\ r.words = written /\ r.turn = 1 /\ r.made = FALSE /\ r.after = {latest} \ unheard
      /\ r.step = "opens" /\ r.kind = call[n].kind
  <2>1. {latest} \ unheard \in SUBSET (0..MaxCalls)
    BY <1>2 DEF TalkTyped
  <2> QED BY <1>3, <1>6, <1>4, <2>1 DEF Requests, CallSteps
<1> HIDE DEF r
<1>8. call' \in [CallNumbers -> Requests] /\ call'[n] = r /\ \A m \in CallNumbers \ {n} : call'[m] = call[m]
  BY <1>5, <1>7, <1>2, OneRequest
<1>9. Onward(call, call')
  <2>1. ~Turned(call[n]) /\ ~Talk!Answered(call[n]) /\ ~Recorded(call[n])
    BY <1>1, <1>6 DEF Turned, Talk!Answered, Recorded
  <2> QED BY <1>8, <2>1, GoesOnward
<1>10. TalkTyped'
  BY <1>1, <1>8, <1>2 DEF TalkTyped
<1>11. CallsHold'
  <2>1. CallHolds(call'[n])
    BY <1>6, <1>7, <1>8, <1>4 DEF CallHolds, Afresh, Live, Changing
  <2>2. \A m \in CallNumbers : call'[m].kind = "question" => begun_calls' = {}
    BY <1>1, <1>7, <1>8, <1>2 DEF CallsHold
  <2>3. call[n].step # "off" /\ call'[n].step \notin {"off", "runs"}
    BY <1>1, <1>7, <1>8
  <2> QED BY <1>1, <1>8, <1>9, <1>2, <2>1, <2>2, <2>3, CallsGoOn
<1>12. HistoriesHold'
  BY <1>1, <1>7, <1>8, <1>9, <1>2, HistoriesStay
<1>13. TurnsHold'
  <2>1. \A p \in begun_calls' : Talk!Answered(call'[p]) /\ call'[p].turn <= had'
    <3>1. ~Talk!Answered(call[n])
      BY <1>1, <1>6 DEF Talk!Answered
    <3> QED BY <1>1, <1>8, <1>2, <3>1 DEF TurnsHold, TalkTyped
  <2>2. \A m \in CallNumbers : Live(call'[m]) /\ call'[m].step = "starts" /\ Changing(call'[m])
        => m \in Talk!Heard(talk') \cup unheard'
    BY <1>1, <1>7, <1>8, <1>2 DEF TurnsHold
  <2>3. Afresh(call'[n])
    BY <1>6, <1>7, <1>8 DEF Afresh, Live, Changing
  <2> QED BY <2>1, <2>2, <2>3 DEF TurnsHold
<1>14. ApartHolds' /\ PlansHold'
  <2>1. ~Changing(call'[n])
    BY <1>6, <1>7, <1>8 DEF Changing
  <2>2. ASSUME NEW k \in CallNumbers, Changing(call'[k]), NEW m \in call'[k].after
        PROVE  m \in CallNumbers /\ Talk!Answered(call'[m]) /\ call'[m].turn < call'[k].turn
    <3>1. k # n /\ call'[k] = call[k]
      BY <1>8, <2>1, <2>2
    <3>2. m \in CallNumbers /\ Talk!Answered(call[m]) /\ call[m].turn < call[k].turn
      BY <1>2, <2>2, <3>1 DEF ApartHolds
    <3>3. m # n
      BY <1>1, <1>6, <3>2 DEF Talk!Answered
    <3> QED BY <1>8, <3>1, <3>2, <3>3
  <2>3. ASSUME NEW k \in CallNumbers, call'[k].kind = "retry", call'[k].step \in {"opens", "starts"},
        NEW m \in call'[k].after
        PROVE  /\ m \in CallNumbers => Recorded(call'[m])
               /\ call'[k].words \in {Talk!SearchAgain, IF m = Talk!Nobody THEN Talk!StandIn ELSE call'[m].words}
    <3>1. CASE k = n
      <4>1. m = latest /\ latest \notin unheard /\ (m \in CallNumbers \/ m = Talk!Nobody)
        BY <1>7, <1>8, <1>2, <2>3, <3>1, CallsBound DEF TalkTyped, CallNumbers, Talk!Nobody
      <4>2. m \in CallNumbers => m # Talk!Nobody
        BY CallsBound DEF CallNumbers, Talk!Nobody
      <4>3. /\ written \in {Talk!SearchAgain, IF m = Talk!Nobody THEN Talk!StandIn ELSE call[m].words}
            /\ m \in CallNumbers => Recorded(call[m])
        BY <1>4, <4>1, <4>2
      <4>4. call'[k].words = written
        BY <1>7, <1>8, <3>1
      <4> QED BY <1>9, <4>1, <4>3, <4>4 DEF Onward
    <3>2. CASE k # n
      <4>1. call'[k] = call[k]
        BY <1>8, <3>2
      <4>2. /\ m \in CallNumbers => Recorded(call[m])
            /\ call[k].words \in {Talk!SearchAgain, IF m = Talk!Nobody THEN Talk!StandIn ELSE call[m].words}
        BY <1>2, <2>3, <4>1 DEF PlansHold
      <4>3. m \in CallNumbers \/ m = Talk!Nobody
        <5>1. call[k].after \subseteq 0..MaxCalls
          BY RequestKnown
        <5> QED BY <2>3, <4>1, <5>1, CallsBound DEF CallNumbers, Talk!Nobody
      <4> QED BY <1>9, <4>1, <4>2, <4>3 DEF Onward
    <3> QED BY <3>1, <3>2
  <2> QED BY <2>2, <2>3 DEF ApartHolds, PlansHold
<1> QED BY <1>10, <1>11, <1>12, <1>13, <1>14 DEF TalkInv

\* The run begins.
LEMMA TalkStarts ==
  ASSUME TalkInv, NEW n \in CallNumbers, Talk!Starts(n)
  PROVE  TalkInv'
<1> DEFINE stood == standing = "completed"
           r == [call[n] EXCEPT !.step = "runs", !.after = {}, !.stood = stood]
<1>1. /\ call[n].step = "starts" /\ standing' = "planning"
      /\ call' = [call EXCEPT ![n].step = "runs", ![n].after = {}, ![n].stood = stood]
      /\ begun_calls' = (IF call[n].turn = 1 THEN {n} ELSE begun_calls \cup {n})
      /\ had' = Talk!Max({had, call[n].turn})
      /\ talk' = talk /\ remembered' = remembered /\ unheard' = unheard /\ latest' = latest
  BY DEF Talk!Starts
<1>2. TalkTyped /\ CallsHold /\ HistoriesHold /\ TurnsHold /\ ApartHolds /\ PlansHold
  BY DEF TalkInv
<1>3. /\ call[n] \in Requests /\ CallHolds(call[n]) /\ call[n].made \in BOOLEAN /\ call[n].turn \in Nat
  BY RequestKnown
<1>4. stood \in BOOLEAN
  OBVIOUS
<1> HIDE DEF stood
<1>5. call' = [call EXCEPT ![n] = r]
  BY <1>1, <1>2 DEF TalkTyped
<1>6. ~call[n].made /\ call[n].kind # "question" /\ (~Changing(call[n]) => call[n].turn = 1)
      /\ call[n].words # Talk!Other
  BY <1>1, <1>3 DEF CallHolds, Afresh, Live
<1>7. /\ r \in Requests /\ r.words = call[n].words /\ r.turn = call[n].turn /\ r.made = FALSE /\ r.after = {}
      /\ r.step = "runs" /\ r.kind = call[n].kind
  BY <1>3, <1>4, <1>6 DEF Requests, CallSteps
<1> HIDE DEF r
<1>8. call' \in [CallNumbers -> Requests] /\ call'[n] = r /\ \A m \in CallNumbers \ {n} : call'[m] = call[m]
  BY <1>5, <1>7, <1>2, OneRequest
<1>9. ~Talk!Answered(call[n]) /\ Talk!Answered(call'[n]) /\ Turned(call'[n]) /\ Recorded(call'[n])
  BY <1>1, <1>6, <1>7, <1>8 DEF Talk!Answered, Turned, Recorded
<1>10. Onward(call, call')
  BY <1>7, <1>8, <1>9, GoesOnward
<1>11. had' \in Nat /\ had' >= had /\ had' >= call[n].turn
  <2>1. had \in Int /\ call[n].turn \in Int
    BY <1>2, <1>3 DEF TalkTyped
  <2>2. /\ Talk!Max({had, call[n].turn}) \in {had, call[n].turn}
        /\ Talk!Max({had, call[n].turn}) >= had /\ Talk!Max({had, call[n].turn}) >= call[n].turn
    BY <2>1, LargerOfTwo
  <2> QED BY <1>1, <1>2, <1>3, <2>2 DEF TalkTyped
<1>12. \A m \in CallNumbers \ {n} : ~Live(call[m])
  BY <1>1, <1>2, <1>9, OneAtATime
<1>13. TalkTyped'
  BY <1>1, <1>8, <1>11, <1>2 DEF TalkTyped
<1>14. CallsHold'
  <2>1. CallHolds(call'[n])
    BY <1>6, <1>7, <1>8 DEF CallHolds, Afresh, Live, Changing
  <2>2. \A m \in CallNumbers : call'[m].kind # "question"
    <3>1. ASSUME NEW m \in CallNumbers, m # n PROVE call[m].kind # "question"
      <4>1. CallHolds(call[m])
        BY RequestKnown
      <4> QED BY <1>12, <3>1, <4>1 DEF CallHolds, Live
    <3> QED BY <1>6, <1>7, <1>8, <3>1
  <2>3. call[n].step # "off" /\ call'[n].step # "off"
    BY <1>1, <1>7, <1>8
  <2>4. call'[n].kind = "replan" => begun_calls' = {n}
    BY <1>1, <1>6, <1>7, <1>8 DEF Changing
  <2> QED BY <1>1, <1>8, <1>10, <1>2, <1>9, <2>1, <2>2, <2>3, <2>4, CallsGoOn
<1>15. HistoriesHold'
  BY <1>1, <1>7, <1>8, <1>10, <1>2, HistoriesStay
<1>16. TurnsHold'
  <2>1. ASSUME NEW p \in begun_calls' PROVE Talk!Answered(call'[p]) /\ call'[p].turn <= had'
    <3>1. CASE p = n
      BY <1>7, <1>8, <1>11, <1>9, <3>1
    <3>2. CASE p # n
      <4>1. p \in begun_calls /\ p \in CallNumbers
        BY <1>1, <1>2, <3>2 DEF TalkTyped
      <4>2. Talk!Answered(call[p]) /\ call[p].turn <= had /\ call[p].turn \in Nat /\ had \in Nat
        BY <1>2, <4>1, RequestKnown DEF TurnsHold, TalkTyped
      <4> QED BY <1>8, <1>11, <3>2, <4>1, <4>2
    <3> QED BY <3>1, <3>2
  <2>2. \A m \in CallNumbers : Live(call'[m]) /\ call'[m].step = "starts" /\ Changing(call'[m])
        => m \in Talk!Heard(talk') \cup unheard'
    BY <1>1, <1>7, <1>8, <1>2 DEF TurnsHold
  <2>3. ASSUME NEW p \in begun_calls', p \notin unheard' PROVE CountedOn(p)'
    <3>1. CASE call[n].turn = 1
      <4>1. p = n /\ call'[n].turn = 1
        BY <1>1, <1>7, <1>8, <2>3, <3>1
      <4> QED BY <4>1 DEF CountedOn
    <3>2. CASE call[n].turn # 1 /\ p = n
      <4>1. Live(call[n]) /\ Changing(call[n])
        BY <1>1, <1>6, <3>2 DEF Live
      <4>2. n \in Talk!Heard(talk)
        BY <1>1, <1>2, <2>3, <3>2, <4>1 DEF TurnsHold
      <4> QED BY <1>1, <3>2, <4>2 DEF CountedOn
    <3>3. CASE call[n].turn # 1 /\ p # n
      <4>1. p \in begun_calls /\ p \in CallNumbers /\ p \notin unheard
        BY <1>1, <1>2, <2>3, <3>3 DEF TalkTyped
      <4>2. \A m \in CallNumbers : ~Afresh(call[m])
        BY <1>6, <1>12, <3>3 DEF Afresh
      <4>3. CountedOn(p)
        BY <1>2, <4>1, <4>2 DEF TurnsHold
      <4>4. call'[p].turn = call[p].turn
        BY <1>8, <3>3, <4>1
      <4>5. call[n].step \notin Early /\ call[n].step \in Late
        BY <1>1 DEF Early, Late
      <4> QED BY <1>1, <1>7, <1>8, <1>2, <4>1, <4>3, <4>4, <4>5, CountedOnStays
    <3> QED BY <3>1, <3>2, <3>3
  <2> QED BY <2>1, <2>2, <2>3 DEF TurnsHold
<1>17. ApartHolds' /\ PlansHold'
  <2>1. call'[n].after = {} /\ call'[n].step = "runs"
    BY <1>7, <1>8
  <2> QED BY <1>8, <1>10, <1>2, <2>1, ApartStays
<1> QED BY <1>13, <1>14, <1>15, <1>16, <1>17 DEF TalkInv

\* What a request's run comes to, and what it leaves behind.
LEMMA TalkRunGoesOn ==
  ASSUME TalkInv, NEW n \in CallNumbers, call[n].step \in {"runs", "saved"}, NEW r \in Requests,
    call' = [call EXCEPT ![n] = r],
         r.step \in {"over", "saved", "says"}, r.kind = "none", r.turn = call[n].turn, r.words = call[n].words,
         r.made = call[n].made \/ r.made = TRUE, r.made \/ r.step = "over",
         standing' = standing \/ call[n].step = "runs", remembered' \in BOOLEAN,
         talk' = talk, had' = had, begun_calls' = begun_calls, unheard' = unheard, latest' = latest
  PROVE  TalkInv'
<1>1. TalkTyped /\ CallsHold /\ HistoriesHold /\ TurnsHold /\ ApartHolds /\ PlansHold
  BY DEF TalkInv
<1>2. /\ call[n] \in Requests /\ CallHolds(call[n]) /\ call[n].made \in BOOLEAN /\ call[n].turn \in Nat
  BY RequestKnown
<1>3. call' \in [CallNumbers -> Requests] /\ call'[n] = r /\ \A m \in CallNumbers \ {n} : call'[m] = call[m]
  BY <1>1, OneRequest
<1>4. Talk!Answered(call'[n]) /\ Turned(call'[n]) /\ Recorded(call'[n])
  BY <1>3 DEF Talk!Answered, Turned, Recorded
<1>5. Onward(call, call')
  <2>1. call'[n].turn = call[n].turn /\ call'[n].words = call[n].words
    BY <1>3
  <2>2. ASSUME NEW m \in CallNumbers
        PROVE  /\ Turned(call[m]) => Turned(call'[m]) /\ call'[m].turn = call[m].turn
               /\ Recorded(call[m]) => Recorded(call'[m]) /\ call'[m].words = call[m].words
               /\ Talk!Answered(call[m]) => Talk!Answered(call'[m])
    <3>1. CASE m = n
      BY <1>4, <2>1, <3>1
    <3>2. CASE m # n
      <4>1. call'[m] = call[m]
        BY <1>3, <3>2
      <4> QED BY <4>1
    <3> QED BY <3>1, <3>2
  <2> QED BY <2>2 DEF Onward
<1>6. TalkTyped'
  BY <1>3, <1>1 DEF TalkTyped
<1>7. CallsHold'
  <2>1. CallHolds(call'[n])
    BY <1>3, <1>2 DEF CallHolds, Afresh, Live, Changing
  <2>2. \A m \in CallNumbers : call'[m].kind = "question" => begun_calls' = {}
    BY <1>3, <1>1 DEF CallsHold
  <2>3. call[n].step # "off" /\ call'[n].step \notin {"off", "runs"}
    BY <1>3
  <2>4. call[n].step = "runs" => \A m \in CallNumbers \ {n} : call[m].step # "runs"
    <3>1. \A m \in CallNumbers \ {n} : m < n \/ m > n
      BY DEF CallNumbers
    <3> QED BY <1>1, <3>1 DEF CallsHold
  <2> QED BY <1>3, <1>5, <1>1, <2>1, <2>2, <2>3, <2>4, CallsGoOn
<1>8. HistoriesHold'
  BY <1>3, <1>5, <1>1, HistoriesStay
<1>9. TurnsHold'
  <2>1. \A p \in begun_calls' : Talk!Answered(call'[p]) /\ call'[p].turn <= had'
    BY <1>3, <1>5, <1>1 DEF TurnsHold, TalkTyped, Onward
  <2>2. \A m \in CallNumbers : Live(call'[m]) /\ call'[m].step = "starts" /\ Changing(call'[m])
        => m \in Talk!Heard(talk') \cup unheard'
    BY <1>3, <1>1 DEF TurnsHold
  <2>3. (\E m \in CallNumbers : Afresh(call'[m])) \/ \A p \in begun_calls' \ unheard' : CountedOn(p)'
    <3>1. ASSUME NEW m \in CallNumbers, Afresh(call[m]) PROVE Afresh(call'[m])
      BY <1>3, <3>1 DEF Afresh, Live
    <3>2. ASSUME NEW p \in begun_calls \ unheard, CountedOn(p) PROVE CountedOn(p)'
      <4>1. p \in CallNumbers /\ call'[p].turn = call[p].turn
        BY <1>3, <1>1 DEF TalkTyped
      <4>2. call[n].step \notin Early /\ call[n].step \in Late /\ call'[n].step # "saying"
        BY <1>3 DEF Early, Late
      <4> QED BY <1>3, <1>1, <3>2, <4>1, <4>2, CountedOnStays
    <3> QED BY <1>1, <3>1, <3>2 DEF TurnsHold
  <2> QED BY <2>1, <2>2, <2>3 DEF TurnsHold
<1>10. ApartHolds' /\ PlansHold'
  <2>1. ~Changing(call'[n]) /\ call'[n].kind # "retry"
    BY <1>3 DEF Changing
  <2> QED BY <1>3, <1>5, <1>1, <2>1, ApartStays
<1> QED BY <1>6, <1>7, <1>8, <1>9, <1>10 DEF TalkInv

\* The run comes to its end.
LEMMA TalkRuns ==
  ASSUME TalkInv, NEW n \in CallNumbers, Talk!RunFails(n) \/ Talk!RunSaves(n) \/ Talk!SaveState(n)
  PROVE  TalkInv'
<1>1. /\ call[n] \in Requests /\ CallHolds(call[n]) /\ call \in [CallNumbers -> Requests] /\ remembered \in BOOLEAN
  BY RequestKnown DEF TalkInv, TalkTyped
<1> DEFINE over == [call[n] EXCEPT !.step = "over", !.kind = "none", !.seen = <<>>, !.stood = FALSE]
           saves == [call[n] EXCEPT !.step = "saved", !.kind = "none", !.stood = FALSE, !.made = TRUE]
           says == [call[n] EXCEPT !.step = "says"]
<1>2. <<>> \in Seq(Sayings)
  OBVIOUS
<1>3. /\ over \in Requests /\ over.step = "over" /\ over.kind = "none" /\ over.turn = call[n].turn
      /\ over.words = call[n].words /\ over.made = call[n].made
  BY <1>1, <1>2 DEF Requests, CallSteps, CallKinds
<1>4. /\ saves \in Requests /\ saves.step = "saved" /\ saves.kind = "none" /\ saves.turn = call[n].turn
      /\ saves.words = call[n].words /\ saves.made = TRUE
  BY <1>1 DEF Requests, CallSteps, CallKinds
<1>5. /\ says \in Requests /\ says.step = "says" /\ says.kind = call[n].kind /\ says.turn = call[n].turn
      /\ says.words = call[n].words /\ says.made = call[n].made
  BY <1>1 DEF Requests, CallSteps, CallKinds
<1>6. Talk!Over(n) => call' = [call EXCEPT ![n] = over]
  BY <1>1 DEF Talk!Over
<1>7. CASE Talk!RunFails(n)
  <2>1. /\ call[n].step = "runs" /\ call' = [call EXCEPT ![n] = over] /\ remembered' = remembered
        /\ talk' = talk /\ had' = had /\ begun_calls' = begun_calls /\ unheard' = unheard /\ latest' = latest
    BY <1>6, <1>7 DEF Talk!RunFails
  <2> HIDE DEF over
  <2> QED BY <1>3, <1>1, <2>1, TalkRunGoesOn
<1>8. CASE Talk!RunSaves(n)
  <2>1. /\ call[n].step = "runs" /\ call' = [call EXCEPT ![n] = saves] /\ remembered' = remembered
        /\ talk' = talk /\ had' = had /\ begun_calls' = begun_calls /\ unheard' = unheard /\ latest' = latest
    BY <1>1, <1>8 DEF Talk!RunSaves
  <2> HIDE DEF saves
  <2> QED BY <1>4, <1>1, <2>1, TalkRunGoesOn
<1>9. CASE Talk!SaveState(n)
  <2>1. /\ call[n].step = "saved" /\ standing' = standing
        /\ talk' = talk /\ had' = had /\ begun_calls' = begun_calls /\ unheard' = unheard /\ latest' = latest
        /\ remembered' \in {remembered, TRUE} /\ (Talk!Goes(n, "says") \/ Talk!Over(n))
    BY <1>9 DEF Talk!SaveState
  <2>2. call[n].made /\ call[n].kind = "none"
    BY <1>1, <2>1 DEF CallHolds
  <2>3. remembered' \in BOOLEAN /\ (call' = [call EXCEPT ![n] = says] \/ call' = [call EXCEPT ![n] = over])
    BY <1>6, <1>1, <2>1 DEF Talk!Goes
  <2> HIDE DEF over, says
  <2> QED BY <1>3, <1>5, <1>1, <2>1, <2>2, <2>3, TalkRunGoesOn
<1> QED BY <1>7, <1>8, <1>9

\* The state expires.
LEMMA TalkForgets ==
  ASSUME TalkInv, Talk!StateExpires
  PROVE  TalkInv'
<1>1. /\ remembered /\ remembered' = FALSE /\ standing' = standing /\ call' = call /\ had' = had
      /\ begun_calls' = begun_calls /\ unheard' = unheard /\ talk' = talk /\ latest' = latest
  BY DEF Talk!StateExpires
<1>2. TalkTyped /\ CallsHold /\ HistoriesHold /\ TurnsHold /\ ApartHolds /\ PlansHold
  BY DEF TalkInv
<1>3. TalkTyped' /\ CallsHold' /\ ApartHolds' /\ PlansHold' /\ HistoriesHold'
  BY <1>1, <1>2 DEF TalkTyped, CallsHold, ApartHolds, PlansHold, HistoriesHold
<1>4. TurnsHold'
  <2>1. ASSUME NEW p \in begun_calls \ unheard, CountedOn(p) PROVE CountedOn(p)'
    BY <1>1, <2>1 DEF CountedOn, Gone
  <2> QED BY <1>1, <1>2, <2>1 DEF TurnsHold
<1> QED BY <1>3, <1>4 DEF TalkInv

\* The history expires: with the state gone before it, the rows still tell of the turns there were; with the state
\* there, nothing does.
LEMMA TalkFallsSilent ==
  ASSUME TalkInv, Talk!HistoryExpires
  PROVE  TalkInv'
<1>1. /\ standing' = standing /\ call' = call /\ had' = had /\ begun_calls' = begun_calls /\ remembered' = remembered
      /\ talk' = <<>> /\ latest' = 0
      /\ \A n \in CallNumbers :
           call[n].step \in {"off", "over"} \/ (call[n].step = "runs" /\ call[n].kind = "replan")
      /\ unheard' = (IF remembered THEN unheard \cup Talk!Heard(talk) \cup begun_calls ELSE unheard)
  BY DEF Talk!HistoryExpires, Talk!Idle, Talk!Calls, CallNumbers, Talk!Nobody
<1>2. TalkTyped /\ CallsHold /\ HistoriesHold /\ TurnsHold /\ ApartHolds /\ PlansHold
  BY DEF TalkInv
<1>3. TalkTyped'
  <2>1. <<>> \in Seq(Sayings) /\ 0 \in 0..MaxCalls
    BY CallsBound
  <2>2. Talk!Heard(talk) \subseteq CallNumbers
    BY <1>2, Entry DEF TalkTyped, Talk!Heard, Talk!Users
  <2> QED BY <1>1, <1>2, <2>1, <2>2 DEF TalkTyped
<1>4. CallsHold' /\ ApartHolds' /\ PlansHold'
  BY <1>1, <1>2 DEF CallsHold, ApartHolds, PlansHold
<1>5. HistoriesHold'
  <2>1. EntriesHold(talk', call') /\ LastHolds(talk', latest')
    BY <1>1 DEF EntriesHold, LastHolds, Talk!Users, Talk!Heard
  <2>2. \A n \in CallNumbers : call'[n].step # "saying"
    BY <1>1
  <2> QED BY <1>1, <2>1, <2>2 DEF HistoriesHold, HistoryHolds, Talk!Nobody
<1>6. TurnsHold'
  <2>1. \A m \in CallNumbers : call'[m].step # "starts"
    BY <1>1
  <2>2. ASSUME NEW p \in begun_calls, p \notin unheard' PROVE CountedOn(p)'
    <3>1. ~remembered /\ p \in CallNumbers
      BY <1>1, <1>2, <2>2 DEF TalkTyped
    <3>2. CASE \A n \in CallNumbers : call[n].step \in {"off", "over"}
      <4>1. \A n \in CallNumbers : call[n].made => call[n].step = "over"
        BY <3>2, RequestKnown DEF CallHolds
      <4>2. Gone(p, talk', call', remembered')
        BY <1>1, <1>2, <3>1, <3>2, <4>1 DEF Gone, TalkTyped
      <4> QED BY <4>2 DEF CountedOn
    <3>3. ASSUME NEW n \in CallNumbers, call[n].step = "runs", call[n].kind = "replan" PROVE CountedOn(p)'
      <4>1. p = n
        BY <1>2, <2>2, <3>3 DEF CallsHold
      <4>2. call[n].turn = 1
        BY <3>3, RequestKnown DEF CallHolds
      <4> QED BY <1>1, <4>1, <4>2 DEF CountedOn
    <3> QED BY <1>1, <3>2, <3>3
  <2> QED BY <1>1, <1>2, <2>1, <2>2 DEF TurnsHold
<1> QED BY <1>3, <1>4, <1>5, <1>6 DEF TalkInv

\* Nothing of the conversation changes.
LEMMA TalkIdles == TalkInv /\ UNCHANGED talks => TalkInv'
<1> SUFFICES ASSUME TalkInv, UNCHANGED talks PROVE TalkInv'
  OBVIOUS
<1>1. /\ talk' = talk /\ standing' = standing /\ remembered' = remembered /\ call' = call /\ had' = had
      /\ begun_calls' = begun_calls /\ unheard' = unheard /\ latest' = latest
  BY DEF talks
<1>2. TalkTyped' /\ CallsHold' /\ ApartHolds' /\ PlansHold'
  BY <1>1 DEF TalkInv, TalkTyped, CallsHold, ApartHolds, PlansHold
<1>3. HistoriesHold' /\ TurnsHold'
  BY <1>1 DEF TalkInv, HistoriesHold, TurnsHold, CountedOn
<1> QED BY <1>2, <1>3 DEF TalkInv

\* Every step of it.
LEMMA TalkKeeps == TalkInv /\ Talk!ConversationNext => TalkInv'
<1> SUFFICES ASSUME TalkInv, Talk!ConversationNext PROVE TalkInv'
  OBVIOUS
<1>1. CASE Talk!StateExpires \/ Talk!HistoryExpires
  BY <1>1, TalkForgets, TalkFallsSilent
<1>2. ASSUME NEW n \in CallNumbers, NEW kind \in {"plan", "clarify", "replan", "refine", "search", "retry"},
      Talk!Asks(n, kind)
      PROVE  TalkInv'
  BY <1>2, TalkAsked
<1>3. ASSUME NEW n \in CallNumbers,
             \/ Talk!Opens(n) \/ Talk!Counts(n) \/ Talk!AppendReads(n) \/ Talk!AppendWrites(n) \/ Talk!ReadsBack(n)
             \/ Talk!Starts(n) \/ Talk!RunFails(n) \/ Talk!RunSaves(n) \/ Talk!SaveState(n)
      PROVE  TalkInv'
  <2>1. CASE Talk!AppendWrites(n)
    <3>1. call[n].made \in BOOLEAN
      BY <1>3, RequestKnown
    <3> QED BY <1>3, <2>1, <3>1, TalkWrites, TalkAnswers
  <2>2. CASE ~Talk!AppendWrites(n)
    BY <1>3, <2>2, TalkOpens, TalkCounts, TalkReads, TalkReadsBack, TalkStarts, TalkRuns
  <2> QED BY <2>1, <2>2
<1> QED BY <1>1, <1>2, <1>3 DEF Talk!ConversationNext, Talk!Calls, CallNumbers

\* A change has a later turn than every run begun before it was counted, and a trip planned again is planned from what
\* the traveller wrote last - whichever run failed or was cut off, and whatever expired in between: the state before the
\* history or, where the line after the state could not be written, the history before the state.  Left out are words
\* written over by a request that read the history before them and, for a change counted with the state at hand, the
\* turns of a history that went before that state.
THEOREM WhatWasSaidIsKept == MCSpec => [](part = "talk" => Talk!ConversationHolds)
<1> DEFINE Inv == part = "talk" => TalkInv
<1>1. MCInit => Inv
  BY TalkStart DEF MCInit
<1>2. ASSUME Inv, [MCNext]_all PROVE Inv'
  <2>1. CASE part # "talk"
    BY <1>2, <2>1 DEF MCNext, all
  <2>2. CASE TalkPart /\ part' = part
    BY <1>2, <2>2, TalkKeeps DEF TalkPart
  <2>3. CASE UNCHANGED <<talks, part>>
    BY <1>2, <2>3, TalkIdles
  <2>4. CASE part = "talk" /\ MCNext /\ ~TalkPart
    BY <2>4 DEF MCNext, PagePart, DraftPart, EmbeddingsPart, ChangesPart, LogPart, UsagePart, PreferencesPart,
        MetersPart, TracePart, HealthPart
  <2> QED BY <1>2, <2>1, <2>2, <2>3, <2>4 DEF MCNext, all, around_run, services
<1>3. Inv => (part = "talk" => Talk!ConversationHolds)
  BY TalkTells
<1> QED BY <1>1, <1>2, <1>3, PTL DEF MCSpec
=============================================================================
