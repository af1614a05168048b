----------------------------- MODULE Embeddings -----------------------------
(***************************************************************************)
(* The embedding rows of one trip's itineraries: saved as owed together    *)
(* with the plan (persist_node), made by a job of the process that saved   *)
(* it (generate_embeddings, write_embedding_rows), and made again by the   *)
(* start-up recovery of a later process (main.py) when they are still      *)
(* owed.  Processes start, overlap as a deploy has them do, and are killed *)
(* between any two steps.  The searches (search.py) read the rows.         *)
(*                                                                         *)
(* A row is [of, kind, by]: its itinerary, what it holds, and the job that *)
(* wrote it (0: the save).                                                 *)
(***************************************************************************)
EXTENDS Integers, FiniteSets, Sequences

CONSTANTS
  Processes,
  MaxPlans, MaxJobs, MaxBoots      \* (bounds) itineraries saved, jobs begun, processes started

ASSUME BoundsAssumption == MaxPlans \in Nat /\ MaxJobs \in Nat /\ MaxBoots \in Nat

VARIABLES
  rows,      \* the table
  plans,     \* itineraries saved; the last is the trip's latest
  up,        \* processes that run
  recovers,  \* processes whose start-up recovery has still to read the table
  saved,     \* process -> the itinerary it has saved and not yet begun a job for, or 0
  queue,     \* process -> itineraries its recovery has still to make, in order
  jobs,      \* jobs that run: [id, by, of, recovery, read, stale], stale the owed rows it read
  begun, boots,
  count,     \* the counter of running jobs in Redis
  \* for the properties only
  doubled,   \* itineraries a recovery found owed while their own job had still to end
  drifted    \* a process died with jobs, or another started while they ran

embedding_vars == <<rows, plans, up, recovers, saved, queue, jobs, begun, boots, count, doubled, drifted>>

PENDING_RETRY == "pending_retry"
Owed(of) == {row \in rows : row.of = of /\ row.kind = PENDING_RETRY}

EmbeddingsInit ==
  /\ rows = {} /\ plans = 0 /\ up = {} /\ recovers = {} /\ jobs = {} /\ begun = 0 /\ boots = 0 /\ count = 0
  /\ saved = [p \in Processes |-> 0] /\ queue = [p \in Processes |-> <<>>]
  /\ doubled = {} /\ drifted = FALSE

\* lifespan: the counter is reset, then the recovery reads what is owed: at once, or, when the
\* database is away, later, with the process serving already.
Boot(p) ==
  /\ p \notin up /\ boots < MaxBoots /\ boots' = boots + 1
  /\ up' = up \cup {p} /\ recovers' = recovers \cup {p}
  /\ count' = 0 /\ drifted' = (jobs # {})
  /\ UNCHANGED <<rows, plans, saved, queue, jobs, begun, doubled>>

\* Itineraries somebody is making, or is about to.
InHand == {job.of : job \in jobs} \cup {saved[p] : p \in Processes}
            \cup UNION {{queue[p][k] : k \in DOMAIN queue[p]} : p \in Processes}
Orders(S) == {s \in [1..Cardinality(S) -> S] : \A i, j \in DOMAIN s : s[i] = s[j] => i = j}

Recover(p) ==
  LET owed == {row.of : row \in {r \in rows : r.kind = PENDING_RETRY}}
  IN /\ p \in recovers /\ recovers' = recovers \ {p}
     /\ \E order \in Orders(owed) : queue' = [queue EXCEPT ![p] = order]
     /\ doubled' = doubled \cup (owed \cap InHand)
     /\ UNCHANGED <<rows, plans, up, saved, jobs, begun, boots, count, drifted>>

\* persist_node: the itinerary and the row that says its embeddings are owed, in one commit.
OwedAtOnce(of) == {[of |-> of, kind |-> PENDING_RETRY, by |-> 0]}
Persist(p) ==
  /\ p \in up /\ saved[p] = 0 /\ plans < MaxPlans
  /\ plans' = plans + 1 /\ rows' = rows \cup OwedAtOnce(plans + 1)
  /\ saved' = [saved EXCEPT ![p] = plans + 1]
  /\ UNCHANGED <<up, recovers, queue, jobs, begun, boots, count, doubled, drifted>>

Begin(p, of, recovery) ==
  /\ begun < MaxJobs /\ begun' = begun + 1 /\ count' = count + 1
  /\ jobs' = jobs \cup {[id |-> begun + 1, by |-> p, of |-> of, recovery |-> recovery,
                         read |-> FALSE, stale |-> {}]}

\* The job is spawned after the save has been logged.
SpawnJob(p) ==
  /\ saved[p] # 0 /\ Begin(p, saved[p], FALSE)
  /\ saved' = [saved EXCEPT ![p] = 0]
  /\ UNCHANGED <<rows, plans, up, recovers, queue, boots, doubled, drifted>>

\* _regenerate_embeddings: one itinerary after another.
Regenerate(p) ==
  /\ queue[p] # <<>> /\ ~ \E job \in jobs : job.by = p /\ job.recovery
  /\ Begin(p, Head(queue[p]), TRUE)
  /\ queue' = [queue EXCEPT ![p] = Tail(@)]
  /\ UNCHANGED <<rows, plans, up, recovers, saved, boots, doubled, drifted>>

\* write_embedding_rows: the model is asked with no transaction open; then, in one, the rows that
\* say "owed" are read and deleted and the new ones written.
ReadStale(job) ==
  /\ job \in jobs /\ ~job.read
  /\ jobs' = (jobs \ {job}) \cup {[job EXCEPT !.read = TRUE, !.stale = Owed(job.of)]}
  /\ UNCHANGED <<rows, plans, up, recovers, saved, queue, begun, boots, count, doubled, drifted>>

\* Mutation: what was owed is left there.
KeptStale(job) == {}
Cleared(job) == job.stale
Written(job, vectors) ==
  {[of |-> job.of, kind |-> kind, by |-> job.id] :
     kind \in IF vectors THEN {"summary", "full_text"} ELSE {PENDING_RETRY}}
Write(job) ==
  /\ job \in jobs /\ job.read
  /\ \/ \E vectors \in BOOLEAN : rows' = (rows \ Cleared(job)) \cup Written(job, vectors)
     \/ UNCHANGED rows        \* the transaction failed and was rolled back
  /\ jobs' = jobs \ {job} /\ count' = count - 1
  /\ UNCHANGED <<plans, up, recovers, saved, queue, begun, boots, doubled, drifted>>

Kill(p) ==
  /\ p \in up /\ up' = up \ {p} /\ recovers' = recovers \ {p}
  /\ saved' = [saved EXCEPT ![p] = 0] /\ queue' = [queue EXCEPT ![p] = <<>>]
  /\ jobs' = {job \in jobs : job.by # p}
  /\ drifted' = (drifted \/ jobs' # jobs)
  /\ UNCHANGED <<rows, plans, begun, boots, count, doubled>>

EmbeddingsNext ==
  \/ \E p \in Processes : Boot(p) \/ Recover(p) \/ Persist(p) \/ SpawnJob(p) \/ Regenerate(p) \/ Kill(p)
  \/ \E job \in jobs : ReadStale(job) \/ Write(job)

EmbeddingsSpec == EmbeddingsInit /\ [][EmbeddingsNext]_embedding_vars

----------------------------------------------------------------------------
(* The searches: a trip is found by the summary of its latest itinerary.   *)
Found == {row \in rows : row.of = plans /\ row.kind = "summary"}

EmbeddingsTypeOK ==
  /\ rows \subseteq [of : 1..MaxPlans, kind : {"summary", "full_text", PENDING_RETRY}, by : 0..MaxJobs]
  /\ plans \in 0..MaxPlans /\ recovers \subseteq up /\ up \subseteq Processes
  /\ saved \in [Processes -> 0..MaxPlans]
  /\ \A job \in jobs : job.by \in up /\ job.of \in 1..plans
  /\ count \in -MaxJobs..MaxJobs

\* No itinerary is neither embedded nor on record as waiting to be, whenever a process is killed
\* and whatever fails.
NeverForgotten == \A of \in 1..plans : \E row \in rows : row.of = of /\ row.kind \in {"summary", PENDING_RETRY}

\* A search finds a trip once, unless a start-up recovery found its latest itinerary owed while
\* the job that was to make it had still to end: then both write.
FoundOnce == plans \notin doubled => Cardinality(Found) <= 1

\* What is embedded is no longer on record as owed, with the same exception.
OwedNoMore ==
  \A of \in (1..plans) \ doubled : ~ \E a, b \in rows : a.of = of /\ b.of = of /\ a.kind = "summary" /\ b.kind = PENDING_RETRY

\* The health page's count of running jobs is right until a process dies with jobs or starts while
\* another has some; a later start puts it right again.
CountsItsJobs == ~drifted => count = Cardinality(jobs)

EmbeddingsKept == NeverForgotten /\ FoundOnce /\ OwedNoMore /\ CountsItsJobs
=============================================================================
