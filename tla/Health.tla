------------------------------- MODULE Health -------------------------------
(***************************************************************************)
(* Is the app well?  GET /ping and /ready ask Postgres and then Redis      *)
(* (routes/health.py); GET /admin/health-deep asks every dependency to do  *)
(* its work once, side by side, each with a deadline of its own            *)
(* (core/deep_health.py); and every so often the embeddings owed are       *)
(* counted for a gauge (routes/admin.py, metrics.py).  A dependency is     *)
(* given by when it answers and what; one that is asked no longer may take *)
(* until then to let go.                                                   *)
(***************************************************************************)
EXTENDS Integers, FiniteSets, FiniteSetsExt

CONSTANTS
  Deadline,      \* seconds, by dependency
  NeededForAPlan,
  MaxSlow,       \* bound: how many do not answer at once
  Horizon        \* bound: seconds followed; an answer after that is none

VARIABLES
  well,          \* what each dependency is: [at, says, lets_go]
  second,
  checking,        \* each check: "asked", "hanging" past its deadline, or its status
  told_at,
  deep,          \* GET /admin/health-deep: "asked", or what it answered
  ping,          \* GET /ready: [at, postgres, redis, status]
  owed, gauge, counted_at    \* the embeddings owed; the gauge, and when it was set

health_vars == <<well, second, checking, told_at, deep, ping, owed, gauge, counted_at>>
Dependencies == DOMAIN Deadline
Never == Horizon + 1
NaN == -1
Longest == Max({Deadline[d] : d \in Dependencies})
At(d) == CASE well[d].at = "once" -> 0 [] well[d].at = "deadline" -> Deadline[d] [] OTHER -> Never
Answers ==
  [at : {"once", "deadline"}, says : {"ok", "error"}, lets_go : {TRUE}]
    \cup [at : {"never"}, says : {"ok"}, lets_go : BOOLEAN]
    \cup [at : {"once"}, says : {"off"}, lets_go : {TRUE}]
Wells ==
  {w \in [Dependencies -> Answers] :
     /\ Cardinality({d \in Dependencies : w[d].at # "once"}) <= MaxSlow
     /\ \A d \in NeededForAPlan : w[d].says # "off"}

\* Somebody asks both endpoints, between two counts of the queue; or nobody does, and the queue is counted.
HealthInit ==
  /\ well \in Wells
  /\ second = 0 /\ told_at = [d \in Dependencies |-> 0] /\ owed = 0 /\ gauge = NaN
  /\ \/ /\ checking = [d \in Dependencies |-> "asked"] /\ deep = "asked"
        /\ ping = [at |-> "postgres", postgres |-> "unsaid", redis |-> "unsaid", status |-> 0] /\ counted_at = Horizon
     \/ /\ checking = [d \in Dependencies |-> "off"] /\ deep = "unasked"
        /\ ping = [at |-> "unasked", postgres |-> "unsaid", redis |-> "unsaid", status |-> 0] /\ counted_at = 0

----------------------------------------------------------------------------
(* deep_health.py                                                          *)

Resting(d) == checking[d] \in {"ok", "off", "failing"}
Says(d, status) == checking' = [checking EXCEPT ![d] = status] /\ told_at' = [told_at EXCEPT ![d] = second]
Elsewhere == UNCHANGED <<well, second, deep, ping, owed, gauge, counted_at>>
\* _one: an answer, an error, not set up; or none within the deadline - and then the asking ends when it lets go.
CheckAnswers(d) ==
  /\ checking[d] = "asked" /\ At(d) <= second
  /\ Says(d, IF well[d].says = "error" THEN "failing" ELSE well[d].says) /\ Elsewhere
CheckTimesOut(d) ==
  /\ checking[d] = "asked" /\ second >= Deadline[d]
  /\ IF well[d].lets_go THEN Says(d, "failing") ELSE checking' = [checking EXCEPT ![d] = "hanging"] /\ UNCHANGED told_at
  /\ Elsewhere
LetsGo(d) == checking[d] = "hanging" /\ second >= Horizon /\ Says(d, "failing") /\ Elsewhere

overall ==
  LET failing == {d \in Dependencies : checking[d] = "failing"}
  IN IF failing \cap NeededForAPlan # {} THEN "failing" ELSE IF failing # {} THEN "degraded" ELSE "ok"
report ==
  /\ deep = "asked" /\ (\A d \in Dependencies : Resting(d)) /\ deep' = overall
  /\ UNCHANGED <<well, second, checking, told_at, ping, owed, gauge, counted_at>>

----------------------------------------------------------------------------
(* health.py: Postgres, and then Redis, for as long as it takes.           *)

PingHears(d, next) ==
  /\ ping.at = d /\ At(d) <= second
  /\ ping' = [ping EXCEPT !.at = next, ![d] = IF well[d].says = "error" THEN "error" ELSE "ok"]
  /\ UNCHANGED <<well, second, checking, told_at, deep, owed, gauge, counted_at>>
ready ==
  /\ ping.at = "ready" /\ ping' = [ping EXCEPT !.at = "answered", !.status = IF "error" \in {ping.postgres, ping.redis} THEN 503 ELSE 200]
  /\ UNCHANGED <<well, second, checking, told_at, deep, owed, gauge, counted_at>>

----------------------------------------------------------------------------
(* watch_embedding_queue, every so often: what is owed, or that it is not known. *)

Countable == \A d \in {"postgres", "redis"} : At(d) = 0 /\ well[d].says = "ok"
Hanging == \E d \in {"postgres", "redis"} : At(d) > second
embedding_backlog ==
  /\ counted_at < second /\ ~Hanging /\ gauge' = (IF Countable THEN owed ELSE NaN) /\ counted_at' = second
  /\ UNCHANGED <<well, second, checking, told_at, deep, ping, owed>>
Owes ==
  /\ second = 1 /\ deep = "unasked" /\ owed = 0 /\ owed' = 1 /\ UNCHANGED <<well, second, checking, told_at, deep, ping, gauge, counted_at>>

\* A second passes when what was due in it is done.
Due(d) == checking[d] = "asked" /\ (At(d) <= second \/ second >= Deadline[d])
Passes ==
  /\ second < Horizon /\ (\A d \in Dependencies : ~Due(d)) /\ (ping.at \in Dependencies => At(ping.at) > second)
  /\ ping.at # "ready" /\ ~(deep = "asked" /\ \A d \in Dependencies : Resting(d)) /\ second' = second + 1
  /\ UNCHANGED <<well, checking, told_at, deep, ping, owed, gauge, counted_at>>

HealthNext ==
  \/ \E d \in Dependencies : CheckAnswers(d) \/ CheckTimesOut(d) \/ LetsGo(d)
  \/ report \/ PingHears("postgres", "redis") \/ PingHears("redis", "ready") \/ ready
  \/ embedding_backlog \/ Owes \/ Passes

----------------------------------------------------------------------------
HealthTypeOK ==
  /\ second \in 0..Horizon /\ \A d \in Dependencies : checking[d] \in {"asked", "hanging", "ok", "off", "failing"}
  /\ deep \in {"unasked", "asked", "ok", "degraded", "failing"} /\ ping.status \in {0, 200, 503} /\ gauge \in {NaN, 0, 1}

\* The deep report is there within the longest deadline unless something asked no longer would not let go, and is
\* about each dependency alone: what answered before its deadline is told as it answered, at the moment it did,
\* whatever hangs beside it.
ToldInTime ==
  /\ deep = "asked" /\ second > Longest => \E d \in Dependencies : At(d) > Deadline[d] /\ ~well[d].lets_go
  /\ deep # "unasked" => \A d \in Dependencies : Resting(d) /\ At(d) < Deadline[d] =>
       told_at[d] = At(d) /\ checking[d] = (IF well[d].says = "error" THEN "failing" ELSE well[d].says)
  /\ \A d \in Dependencies : checking[d] = "ok" => At(d) <= Deadline[d] /\ well[d].says = "ok"

\* The two agree where both speak: a deployment the report lets live is one /ready does, one that /ready
\* turns down cannot make a plan, and one the report fails for a store that answers is turned down.
ReportsAgree ==
  ping.at = "answered" /\ deep \in {"ok", "degraded", "failing"} =>
    /\ deep \in {"ok", "degraded"} => ping.status = 200
    /\ ping.status = 503 => deep = "failing"
    /\ deep = "failing" /\ checking["tool_server"] = "ok" /\ (\A d \in Dependencies : At(d) = 0) => ping.status = 503

\* The gauge is never a number that nobody counted, nor zero for what is not known to be empty.
GaugeKnown == gauge # NaN => Countable /\ (gauge = owed \/ counted_at <= 1)

HealthTold == ToldInTime /\ ReportsAgree /\ GaugeKnown
=============================================================================
