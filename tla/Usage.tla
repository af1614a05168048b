------------------------------- MODULE Usage -------------------------------
(***************************************************************************)
(* What a trip's runs ask of the models, and what is said of its cost:     *)
(* the meters that are open where a model is asked (ai/usage.py), the rows *)
(* that carry what they counted, and the one warning as the trip's cost   *)
(* passes its limit (utils/run_logger.py).                                 *)
(*                                                                         *)
(* A run is one database session.  It times itself, and in it two agents   *)
(* at once, each in a task of its own with a copy of the run's context;    *)
(* tokens and their price are one number.                                  *)
(***************************************************************************)
EXTENDS Integers, Sequences, SequencesExt

CONSTANTS
  Agents,             \* of each of the trip's runs, the agents that work in it at the same time
  AnswerCosts,        \* what an answer may cost, zero for a provider that does not say
  CostLimit,          \* LLM_COST_ALERT_USD
  MaxAnswers          \* (bound) model calls of one piece of work

RUN == "orchestrator"
Sessions == DOMAIN Agents
Works(s) == Agents[s] \cup {RUN}

NoOne == "no one"

\* The run's own work is none of its agents'; an answer costs nothing or something; a limit of 0 would
\* be no limit.
ASSUME UsageAssumption ==
  /\ AnswerCosts \subseteq Nat /\ CostLimit \in Nat \ {0}
  /\ \A s \in Sessions : RUN \notin Agents[s] /\ NoOne \notin Agents[s]

VARIABLES
  phase,     \* of each piece of work: "idle", "open", "closed", "written", "logged"
  context,   \* _meter where it works: the meters open there, the innermost last
  tally,     \* what each meter has counted
  asking,    \* a model is being asked
  billed,    \* the cost on the trip's rows
  adding,    \* of each session who holds its lock, and has yet to add up the rows
  alerts,    \* times the warning was given
  spent,     \* (for the properties) what each piece of work was answered, and how often
  apart      \* (for the properties) the rows could be added up, with no other session's row come between

usage_vars == <<phase, context, tally, asking, billed, adding, alerts, spent, apart>>

ForEach(x) == [s \in Sessions |-> [w \in Works(s) |-> x]]

UsageInit ==
  /\ phase = ForEach("idle") /\ context = ForEach(<<>>) /\ tally = ForEach(0) /\ asking = ForEach(FALSE)
  /\ billed = 0 /\ adding = [s \in Sessions |-> NoOne] /\ alerts = 0
  /\ spent = ForEach([cost |-> 0, calls |-> 0]) /\ apart = TRUE

----------------------------------------------------------------------------
(* The meters.                                                             *)

\* An agent's task starts with a copy of the run's context.
Around(s, w) == IF w = RUN THEN context[s][w] ELSE context[s][RUN]
metered(s, w) ==
  /\ phase[s][w] = "idle" /\ (w # RUN => phase[s][RUN] = "open")
  /\ phase' = [phase EXCEPT ![s][w] = "open"]
  /\ context' = [context EXCEPT ![s][w] = Append(Around(s, w), w)]
  /\ UNCHANGED <<tally, asking, billed, adding, alerts, spent, apart>>

\* Nothing of the run goes on while its agents work.
ItsTurn(s, w) == phase[s][w] = "open" /\ (w = RUN => \A agent \in Agents[s] : phase[s][agent] \in {"idle", "logged"})

AskModel(s, w) ==
  /\ ItsTurn(s, w) /\ ~asking[s][w] /\ spent[s][w].calls < MaxAnswers
  /\ asking' = [asking EXCEPT ![s][w] = TRUE]
  /\ UNCHANGED <<phase, context, tally, billed, adding, alerts, spent, apart>>

credited(ctx) == IF ctx = <<>> THEN {} ELSE {Last(ctx)}

on_llm_end(s, w, cost) ==
  /\ asking[s][w] /\ asking' = [asking EXCEPT ![s][w] = FALSE]
  /\ tally' = [tally EXCEPT ![s] = [m \in Works(s) |-> IF m \in credited(context[s][w]) THEN @[m] + cost ELSE @[m]]]
  /\ spent' = [spent EXCEPT ![s][w] = [cost |-> @.cost + cost, calls |-> @.calls + 1]]
  /\ UNCHANGED <<phase, context, billed, adding, alerts, apart>>
on_llm_error(s, w) ==
  /\ asking[s][w] /\ asking' = [asking EXCEPT ![s][w] = FALSE]
  /\ spent' = [spent EXCEPT ![s][w].calls = @ + 1]
  /\ UNCHANGED <<phase, context, tally, billed, adding, alerts, apart>>

CloseMeter(s, w) ==
  /\ ItsTurn(s, w) /\ ~asking[s][w]
  /\ phase' = [phase EXCEPT ![s][w] = "closed"]
  /\ context' = [context EXCEPT ![s][w] = SubSeq(@, 1, Len(@) - 1)]
  /\ UNCHANGED <<tally, asking, billed, adding, alerts, spent, apart>>

----------------------------------------------------------------------------
(* The rows.  One that cost something is followed by adding them all up,   *)
(* with the session's lock still held.                                     *)

LockIsFree(s) == adding[s] = NoOne

log_agent_run(s, w) ==
  LET cost == tally[s][w]
  IN /\ phase[s][w] = "closed" /\ LockIsFree(s)
     /\ billed' = billed + cost
     /\ phase' = [phase EXCEPT ![s][w] = IF cost > 0 THEN "written" ELSE "logged"]
     /\ adding' = IF cost > 0 THEN [adding EXCEPT ![s] = w] ELSE adding
     /\ apart' = (apart /\ (cost > 0 => \A t \in Sessions \ {s} : adding[t] = NoOne))
  /\ UNCHANGED <<context, tally, asking, alerts, spent>>

warn_if_over(s, w) ==
  /\ phase[s][w] = "written"
  /\ phase' = [phase EXCEPT ![s][w] = "logged"] /\ adding' = [adding EXCEPT ![s] = NoOne]
  /\ \/ /\ alerts' = IF billed > CostLimit /\ billed - tally[s][w] <= CostLimit THEN alerts + 1 ELSE alerts
        /\ UNCHANGED apart
     \/ apart' = FALSE /\ UNCHANGED alerts     \* the rows cannot be added up
  /\ UNCHANGED <<context, tally, asking, billed, spent>>

UsageNext ==
  \E s \in Sessions : \E w \in Works(s) :
    \/ metered(s, w) \/ AskModel(s, w) \/ on_llm_error(s, w) \/ CloseMeter(s, w)
    \/ \E cost \in AnswerCosts : on_llm_end(s, w, cost)
    \/ log_agent_run(s, w) \/ warn_if_over(s, w)

----------------------------------------------------------------------------
UsageTypeOK ==
  /\ \A s \in Sessions : \A w \in Works(s) :
       /\ phase[s][w] \in {"idle", "open", "closed", "written", "logged"}
       /\ ToSet(context[s][w]) \subseteq Works(s) /\ tally[s][w] \in Nat
  /\ billed \in Nat /\ alerts \in Nat /\ \A s \in Sessions : adding[s] \in Works(s) \cup {NoOne}

\* Each row carries exactly what its own work was answered, whichever other works were going on around
\* it and beside it; and so the rows add up to all that the models were paid.
CountedOnce == \A s \in Sessions : \A w \in Works(s) : tally[s][w] = spent[s][w].cost

\* The warning is given once, by the row that takes the trip over its limit, and never before: as long
\* as the rows could be added up, and no other run of the same trip wrote one in between.
WarnedOnce ==
  apart /\ (\A s \in Sessions : adding[s] = NoOne) => alerts = (IF billed > CostLimit THEN 1 ELSE 0)

CostIsTold == CountedOnce /\ WarnedOnce
=============================================================================
