---------------------------- MODULE Conversation ----------------------------
(***************************************************************************)
(* A trip's conversation (utils/conversation.py) and the turns counted by  *)
(* it: the requests that start a run (trips.py) write what the traveller   *)
(* asked, the run's end writes that the plan is ready, each by reading the *)
(* whole history and setting it again.  A trip that has its plan may be    *)
(* asked for the next change before the run that made it has written its   *)
(* last.  Both keys of Redis live for a day after they were set: the one   *)
(* that was set first goes first.                                          *)
(***************************************************************************)
EXTENDS Integers, Sequences, FiniteSets, SequencesExt, FiniteSetsExt

CONSTANT MaxCalls     \* (bound) requests

VARIABLES
  talk,         \* the history: what was said, [by, turn, words]: by a request or, in its run's name, by the assistant
  standing,     \* trips.status
  remembered,   \* there is a planning state in Redis
  outlives,     \* it was set after the history was, and will be there when the history is gone
  call,         \* each request, and then its run: [kind, step, turn, words, seen, stood, made, after]; words: its own number, or one below
  had,          \* the largest turn of a row of agent_runs
  \* for the properties only
  begun_calls,  \* those whose run has begun, since the last one of turn 1 and since the history last began afresh
  unheard,      \* the requests whose words a write left out, or were gone before the state they belong to
  latest        \* the request with which the traveller wrote last

conversation_vars == <<talk, standing, remembered, outlives, call, had, begun_calls, unheard, latest>>
Calls == 1..MaxCalls
Nobody == 0
StandIn == -1        \* "Plan a trip to ...": nothing was typed
SearchAgain == -2    \* "Retry the ... search."
Other == -3          \* the assistant's own: a question, or that the plan is ready
Quiet == [kind |-> "none", step |-> "off", turn |-> 1, words |-> Nobody, seen |-> <<>>, stood |-> FALSE, made |-> FALSE, after |-> {}]
Said(n, turn, words) == [by |-> n, turn |-> turn, words |-> words]

ConversationInit ==
  /\ talk = <<>> /\ standing = "pending" /\ remembered = FALSE /\ outlives = FALSE
  /\ call = [n \in Calls |-> Quiet] /\ had = 0 /\ begun_calls = {} /\ unheard = {} /\ latest = Nobody

get_current_turn == IF talk = <<>> THEN 0 ELSE Max({talk[i].turn : i \in DOMAIN talk})
Users(history) == {i \in DOMAIN history : history[i].words # Other}
Heard(history) == {history[i].by : i \in Users(history)}
Planned == \E n \in Calls : call[n].made
\* A request sets the history as it comes, all but one that picks a way out of a conflict.
Idle == \A n \in Calls : call[n].step \in {"off", "over"} \/ (call[n].step = "runs" /\ call[n].kind = "replan")

Goes(n, step) == call' = [call EXCEPT ![n].step = step]
Over(n) == call' = [call EXCEPT ![n].step = "over", ![n].kind = "none", ![n].seen = <<>>, ![n].stood = FALSE]
\* Redis: the whole history is set.
Set(history) ==
  talk' = history /\ outlives' = FALSE /\ unheard' = (unheard \cup Heard(talk)) \ Heard(history)

----------------------------------------------------------------------------
(* A request.                                                              *)

\* _ensure_not_planning, and what else it needs; (bound) a request comes once the one before is answered (TripRuns
\* has those that overlap), which is not to say that its run has ended.
Answered(c) == c.step \in {"runs", "saved", "over"} \/ c.made
Asks(n, kind) ==
  /\ call[n].step = "off" /\ \A m \in 1..(n - 1) : Answered(call[m])
  /\ standing # "planning"
  /\ kind = "refine" => remembered \/ Planned
  /\ kind = "search" => standing = "completed" /\ remembered
  /\ \E words \in (IF kind = "plan" THEN {n, StandIn} ELSE {n}) :
       call' = [call EXCEPT ![n].kind = kind, ![n].words = IF kind = "search" THEN SearchAgain ELSE words,
                            ![n].step = CASE kind = "plan" -> "opens" [] kind = "clarify" -> "says"
                                          [] kind = "replan" -> "starts" [] kind = "retry" -> "reading"
                                          [] OTHER -> "counts"]
  /\ UNCHANGED <<talk, standing, remembered, outlives, had, begun_calls, unheard, latest>>

\* start_history: a fresh plan is turn 1.  With nothing typed it may be answered with a question.
Opens(n) ==
  /\ call[n].step = "opens" /\ Set(<<Said(n, 1, call[n].words)>>) /\ latest' = n
  /\ \/ Goes(n, "starts")
     \/ call[n].words = StandIn /\ call' = [call EXCEPT ![n].step = "says", ![n].kind = "question"]
  /\ begun_calls' = {} /\ UNCHANGED <<standing, remembered, had>>

\* A change's turn: the one after the latest; with the state gone, after those the rows tell of too - but for a search
\* tried again, which was refused without the state.
Counts(n) ==
  /\ call[n].step = "counts"
  /\ LET next == Max({get_current_turn, 1}) + 1
         with_state == remembered \/ call[n].kind = "search"
         turn == IF with_state THEN next ELSE Max({next, Max({had, 1}) + 1})
         counted == IF with_state THEN begun_calls \ unheard ELSE begun_calls
     IN /\ call' = [call EXCEPT ![n].turn = turn, ![n].after = counted, ![n].step = "says"]
        /\ had' = IF call[n].kind = "refine" THEN Max({had, turn}) ELSE had     \* the row of its classification
  /\ UNCHANGED <<talk, standing, remembered, outlives, begun_calls, unheard, latest>>

\* append_history, of a request and of a run: the history is read, and set with one more.
AppendReads(n) ==
  /\ call[n].step = "says" /\ call' = [call EXCEPT ![n].seen = talk, ![n].step = "saying"]
  /\ UNCHANGED <<talk, standing, remembered, outlives, had, begun_calls, unheard, latest>>
AppendWrites(n) ==
  /\ call[n].step = "saying"
  /\ LET mine == ~call[n].made /\ call[n].kind # "question"
     IN /\ Set(Append(call[n].seen, Said(n, call[n].turn, IF mine THEN call[n].words ELSE Other)))
        /\ latest' = IF mine /\ call[n].words # SearchAgain THEN n ELSE latest
        /\ IF mine THEN call' = [call EXCEPT ![n].seen = <<>>, ![n].step = "starts"] ELSE Over(n)
  /\ UNCHANGED <<standing, remembered, had, begun_calls>>

\* A retry without a search: the whole trip, from what was last written.
ReadsBack(n) ==
  /\ call[n].step = "reading"
  /\ LET written == IF Users(talk) = {} THEN StandIn ELSE talk[Max(Users(talk))].words
     IN call' = [call EXCEPT ![n].words = written, ![n].after = {latest} \ unheard, ![n].step = "opens"]
  /\ UNCHANGED <<talk, standing, remembered, outlives, had, begun_calls, unheard, latest>>

\* _start_run; (bound) every run leaves a row of its own turn.
Starts(n) ==
  /\ call[n].step = "starts" /\ standing' = "planning"
  /\ call' = [call EXCEPT ![n].step = "runs", ![n].after = {}, ![n].stood = standing = "completed"]
  /\ begun_calls' = IF call[n].turn = 1 THEN {n} ELSE begun_calls \cup {n}
  /\ had' = Max({had, call[n].turn}) /\ UNCHANGED <<talk, remembered, outlives, unheard, latest>>

----------------------------------------------------------------------------
(* Its run.                                                                *)

RunFails(n) ==
  /\ call[n].step = "runs" /\ Over(n) /\ standing' = IF call[n].stood THEN "completed" ELSE "failed"
  /\ UNCHANGED <<talk, remembered, outlives, had, begun_calls, unheard, latest>>
RunSaves(n) ==
  /\ call[n].step = "runs" /\ standing' = "completed"
  /\ call' = [call EXCEPT ![n].step = "saved", ![n].kind = "none", ![n].stood = FALSE, ![n].made = TRUE]
  /\ UNCHANGED <<talk, remembered, outlives, had, begun_calls, unheard, latest>>
\* save_state: the state is set, and then that the plan is ready is said; either may fail by itself, and nobody is told.
SaveState(n) ==
  /\ call[n].step = "saved"
  /\ \/ remembered' = TRUE /\ outlives' = TRUE /\ (Goes(n, "says") \/ Over(n))
     \/ Over(n) /\ UNCHANGED <<remembered, outlives>>
  /\ UNCHANGED <<talk, standing, had, begun_calls, unheard, latest>>

\* A day after it was set, the state goes ...
StateExpires ==
  /\ remembered /\ (outlives => talk = <<>>) /\ remembered' = FALSE /\ outlives' = FALSE
  /\ UNCHANGED <<talk, standing, call, had, begun_calls, unheard, latest>>
\* ... and so does the history, when nobody has set it since.  Where it goes before the state, nothing tells any
\* more of the turns there were.
HistoryExpires ==
  /\ talk # <<>> /\ (remembered => outlives) /\ Idle /\ talk' = <<>> /\ latest' = Nobody
  /\ unheard' = IF remembered THEN unheard \cup Heard(talk) \cup begun_calls ELSE unheard
  /\ UNCHANGED <<standing, remembered, outlives, call, had, begun_calls>>

ConversationNext ==
  \/ \E n \in Calls :
       \/ \E kind \in {"plan", "clarify", "replan", "refine", "search", "retry"} : Asks(n, kind)
       \/ Opens(n) \/ Counts(n) \/ AppendReads(n) \/ AppendWrites(n) \/ ReadsBack(n) \/ Starts(n)
       \/ RunFails(n) \/ RunSaves(n) \/ SaveState(n)
  \/ StateExpires \/ HistoryExpires

----------------------------------------------------------------------------
ConversationTypeOK ==
  /\ standing \in {"pending", "planning", "completed", "failed"} /\ had \in 0..(MaxCalls + 1)
  /\ \A i \in DOMAIN talk : talk[i].by \in Calls /\ talk[i].turn \in 1..(MaxCalls + 1)
  /\ latest \in Calls \cup {Nobody} /\ outlives \in BOOLEAN /\ unheard \subseteq Calls /\ begun_calls \subseteq Calls

\* A change has a turn of its own: a later one than every run begun before it was counted - whichever of them failed,
\* was cut off or wrote last, and whatever has expired since.  With the state gone that is so without exception; with
\* the state there, but for a run whose words were written over by one that read the history before it, and for all
\* there were when the history expired before the state: "the conversation went with the state" (trips.py) is taken
\* for granted, and a state that was saved when the line that follows it could not be is there a little longer.
TurnsApart ==
  \A n \in Calls : call[n].kind \in {"refine", "search"} =>
    \A m \in call[n].after : call[m].turn < call[n].turn

\* A trip that is planned again is planned from what the traveller wrote last, with the same exception, and another:
\* the words a search tried again leaves are taken for the traveller's.
PlansWhatWasWritten ==
  \A n \in Calls : call[n].kind = "retry" /\ call[n].step \in {"opens", "starts"} =>
    \A m \in call[n].after :
      call[n].words \in {SearchAgain, IF m = Nobody THEN StandIn ELSE call[m].words}

ConversationHolds == TurnsApart /\ PlansWhatWasWritten
=============================================================================
