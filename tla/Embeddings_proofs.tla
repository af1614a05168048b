-------------------------- MODULE Embeddings_proofs --------------------------
(***************************************************************************)
(* What TLAPS proves of Embeddings, for any number of processes and any    *)
(* bounds: the rows of an itinerary are owed or there, a trip is found     *)
(* once, and the count of running jobs is right - whichever processes      *)
(* start, overlap and are killed.                                          *)
(*                                                                         *)
(* What holds "but for the doubled" rests on one invariant: an itinerary   *)
(* that no recovery met in the making is in one hand at most - a process   *)
(* that saved it, the queue of a recovery, or a job - and in none once it  *)
(* is embedded (OneHand, Settled); the job that has it has seen all that   *)
(* is owed (Seen).                                                         *)
(***************************************************************************)
EXTENDS Embeddings, FiniteSetTheorems, SequenceTheorems, TLAPS

Rows == [of : 1..MaxPlans, kind : {"summary", "full_text", PENDING_RETRY}, by : 0..MaxJobs]
Jobs == [id : 1..MaxJobs, by : Processes, of : 1..MaxPlans, recovery : BOOLEAN, read : BOOLEAN,
         stale : SUBSET Rows]

\* The types, as they are kept: nothing is of an itinerary that is still to be saved, and what a
\* process has in hand goes with it.
Shape ==
  /\ plans \in 0..MaxPlans /\ begun \in 0..MaxJobs
  /\ rows \subseteq Rows /\ \A row \in rows : row.of <= plans
  /\ up \subseteq Processes /\ recovers \subseteq up
  /\ saved \in [Processes -> 0..MaxPlans] /\ \A p \in Processes : saved[p] <= plans
  /\ queue \in [Processes -> Seq(1..MaxPlans)]
  /\ \A p \in Processes : \A k \in DOMAIN queue[p] : queue[p][k] <= plans
  /\ \A p \in Processes \ up : saved[p] = 0 /\ queue[p] = <<>>
  /\ jobs \subseteq Jobs /\ \A job \in jobs : job.by \in up /\ job.of <= plans /\ job.id <= begun
  /\ \A a, b \in jobs : a.id = b.id => a = b

Counted ==
  /\ IsFiniteSet(jobs) /\ count \in Int
  /\ Cardinality(jobs) <= begun /\ Cardinality(jobs) - begun <= count /\ count <= begun
  /\ CountsItsJobs

\* At most one job, process or place in a queue has the itinerary.
OneHand(of) ==
  /\ \A a, b \in jobs : a.of = of /\ b.of = of => a = b
  /\ \A p, q \in Processes : saved[p] = of /\ saved[q] = of => p = q
  /\ \A p, q \in Processes : \A k \in DOMAIN queue[p], l \in DOMAIN queue[q] :
       queue[p][k] = of /\ queue[q][l] = of => p = q /\ k = l
  /\ \A job \in jobs, p \in Processes :
       job.of = of => saved[p] # of /\ \A k \in DOMAIN queue[p] : queue[p][k] # of
  /\ \A p, q \in Processes : saved[p] = of => \A k \in DOMAIN queue[q] : queue[q][k] # of

\* Nobody is making it.
InNoHand(of) ==
  /\ \A job \in jobs : job.of # of
  /\ \A p \in Processes : saved[p] # of /\ \A k \in DOMAIN queue[p] : queue[p][k] # of

\* An itinerary that is embedded is embedded once, and is done with.
Settled(of) ==
  \A a \in rows : a.of = of /\ a.kind = "summary" =>
    /\ \A b \in rows : b.of = of => b.kind # PENDING_RETRY
    /\ \A b \in rows : b.of = of /\ b.kind = "summary" => b = a
    /\ InNoHand(of)

Single == \A of \in (1..plans) \ doubled : OneHand(of) /\ Settled(of)

\* A job deletes nothing but what is owed of its own itinerary, and has seen all of that when no
\* other makes it.
Seen ==
  \A job \in jobs :
    /\ \A row \in job.stale : row.of = job.of /\ row.kind = PENDING_RETRY
    /\ job.read /\ job.of \notin doubled => Owed(job.of) \subseteq job.stale

EmbeddingsInv == Shape /\ Counted /\ Single /\ Seen /\ NeverForgotten

-----------------------------------------------------------------------------
(* Types                                                                   *)

\* A job that begins is a new one.
NewJob(p, of, recovery) ==
  [id |-> begun + 1, by |-> p, of |-> of, recovery |-> recovery, read |-> FALSE, stale |-> {}]

LEMMA BeginIsNew ==
  ASSUME Shape, NEW p \in Processes, NEW of \in 1..MaxPlans, NEW recovery \in BOOLEAN, Begin(p, of, recovery)
  PROVE  /\ jobs' = jobs \cup {NewJob(p, of, recovery)} /\ NewJob(p, of, recovery) \in Jobs
         /\ begun' = begun + 1 /\ begun' \in 0..MaxJobs /\ count' = count + 1
         /\ \A job \in jobs : job.id # NewJob(p, of, recovery).id
BY BoundsAssumption DEF Shape, Begin, NewJob, Jobs

\* Reading what is owed makes another record of the same job.
ReadJob(job) == [job EXCEPT !.read = TRUE, !.stale = Owed(job.of)]

LEMMA ReadIsTheSame ==
  ASSUME Shape, NEW job \in jobs, ReadStale(job)
  PROVE  /\ jobs' = (jobs \ {job}) \cup {ReadJob(job)} /\ ReadJob(job) \in Jobs
         /\ ReadJob(job).id = job.id /\ ReadJob(job).by = job.by /\ ReadJob(job).of = job.of
         /\ ReadJob(job).read /\ ReadJob(job).stale = Owed(job.of)
BY DEF Shape, ReadStale, ReadJob, Jobs, Owed

\* What a job writes.
LEMMA WrittenRows ==
  ASSUME Shape, NEW job \in jobs, NEW vectors \in BOOLEAN
  PROVE  /\ Written(job, vectors) \subseteq Rows
         /\ \A row \in Written(job, vectors) : row.of = job.of
BY DEF Shape, Written, Rows, Jobs

\* Recovery takes on every itinerary that is owed, one after another.
LEMMA OrdersOfOwed ==
  ASSUME Shape, NEW p \in Processes, Recover(p)
  PROVE  /\ p \in up
         /\ \E order : /\ queue' = [queue EXCEPT ![p] = order]
                       /\ order \in Seq(1..MaxPlans)
                       /\ \A k \in DOMAIN order : \E row \in rows : row.kind = PENDING_RETRY /\ order[k] = row.of
                       /\ \A k, l \in DOMAIN order : order[k] = order[l] => k = l
<1> DEFINE owed == {row.of : row \in {r \in rows : r.kind = PENDING_RETRY}}
<1>1. PICK order \in Orders(owed) : queue' = [queue EXCEPT ![p] = order]
  BY DEF Recover
<1>2. owed \subseteq 1..MaxPlans
  BY DEF Shape, Rows
<1>3. Cardinality(owed) \in Nat
  <2>1. IsFiniteSet(1..MaxPlans)
    BY FS_Interval, BoundsAssumption
  <2>2. IsFiniteSet(owed)
    BY <1>2, <2>1, FS_Subset
  <2> HIDE DEF owed
  <2> QED BY <2>2, FS_CardinalityType
<1>4. /\ order \in [1..Cardinality(owed) -> owed]
      /\ \A k, l \in DOMAIN order : order[k] = order[l] => k = l
  BY <1>1 DEF Orders
<1>5. order \in Seq(1..MaxPlans)
  <2>1. order \in [1..Cardinality(owed) -> 1..MaxPlans]
    <3> HIDE DEF owed
    <3> QED BY <1>2, <1>4
  <2> QED BY <1>3, <2>1, SeqDef
<1>6. ASSUME NEW k \in DOMAIN order PROVE \E row \in rows : row.kind = PENDING_RETRY /\ order[k] = row.of
  BY <1>4, <1>6
<1>7. p \in up
  BY DEF Shape, Recover
<1> QED BY <1>1, <1>4, <1>5, <1>6, <1>7

\* A queue's first itinerary is taken from it.
LEMMA QueueHead ==
  ASSUME Shape, NEW p \in Processes, queue[p] # <<>>
  PROVE  /\ p \in up /\ 1 \in DOMAIN queue[p] /\ Head(queue[p]) = queue[p][1]
         /\ Head(queue[p]) \in 1..MaxPlans /\ Head(queue[p]) <= plans
         /\ Tail(queue[p]) \in Seq(1..MaxPlans)
         /\ \A k \in DOMAIN Tail(queue[p]) : k + 1 \in DOMAIN queue[p] /\ Tail(queue[p])[k] = queue[p][k + 1]
         /\ \A k \in DOMAIN Tail(queue[p]) : k + 1 # 1 /\ k \in Int
<1>1. queue[p] \in Seq(1..MaxPlans) /\ p \in up /\ \A k \in DOMAIN queue[p] : queue[p][k] <= plans
  BY DEF Shape
<1>2. 1 \in DOMAIN queue[p] /\ Head(queue[p]) = queue[p][1]
  BY <1>1
<1>3. Head(queue[p]) \in 1..MaxPlans /\ Head(queue[p]) <= plans
  BY <1>1, <1>2, HeadTailProperties
<1>4. Tail(queue[p]) \in Seq(1..MaxPlans)
  BY <1>1, HeadTailProperties
<1>5. \A k \in DOMAIN Tail(queue[p]) :
        k \in Int /\ k + 1 # 1 /\ k + 1 \in DOMAIN queue[p] /\ Tail(queue[p])[k] = queue[p][k + 1]
  BY <1>1
<1> QED BY <1>1, <1>2, <1>3, <1>4, <1>5

\* Types are kept by every step.
LEMMA ShapeKept == ASSUME Shape, [EmbeddingsNext]_embedding_vars PROVE Shape'
<1> USE BoundsAssumption
<1>1. ASSUME NEW p \in Processes, Boot(p) PROVE Shape'
  BY <1>1 DEF Boot, Shape
<1>2. ASSUME NEW p \in Processes, Recover(p) PROVE Shape'
  <2>1. PICK order \in Seq(1..MaxPlans) :
          /\ queue' = [queue EXCEPT ![p] = order] /\ p \in up
          /\ \A k \in DOMAIN order : \E row \in rows : row.kind = PENDING_RETRY /\ order[k] = row.of
    BY <1>2, OrdersOfOwed
  <2>2. \A k \in DOMAIN order : order[k] <= plans
    BY <2>1 DEF Shape
  <2>3. UNCHANGED <<rows, plans, up, saved, jobs, begun>> /\ recovers' = recovers \ {p}
    BY <1>2 DEF Recover
  <2> QED BY <2>1, <2>2, <2>3 DEF Shape
<1>3. ASSUME NEW p \in Processes, Persist(p) PROVE Shape'
  <2>1. /\ plans' = plans + 1 /\ plans' \in 0..MaxPlans /\ p \in up
        /\ rows' = rows \cup {[of |-> plans + 1, kind |-> PENDING_RETRY, by |-> 0]}
        /\ saved' = [saved EXCEPT ![p] = plans + 1]
        /\ UNCHANGED <<up, recovers, queue, jobs, begun>>
    BY <1>3 DEF Persist, OwedAtOnce, Shape
  <2>2. [of |-> plans + 1, kind |-> PENDING_RETRY, by |-> 0] \in Rows
    BY <2>1 DEF Rows, Shape
  <2>3. rows' \subseteq Rows /\ \A row \in rows' : row.of <= plans'
    BY <2>1, <2>2 DEF Shape, Rows
  <2>4. saved' \in [Processes -> 0..MaxPlans] /\ \A q \in Processes : saved'[q] <= plans'
    BY <2>1 DEF Shape
  <2>5. \A q \in Processes : \A k \in DOMAIN queue[q] : queue[q][k] <= plans'
    BY <2>1 DEF Shape
  <2>6. \A job \in jobs : job.of <= plans'
    BY <2>1 DEF Shape, Jobs
  <2>7. \A q \in Processes \ up : saved'[q] = 0
    BY <2>1 DEF Shape
  <2> QED BY <2>1, <2>3, <2>4, <2>5, <2>6, <2>7 DEF Shape
<1>4. ASSUME NEW p \in Processes, SpawnJob(p) PROVE Shape'
  <2>1. saved[p] \in 1..MaxPlans /\ saved[p] <= plans /\ p \in up
    BY <1>4 DEF SpawnJob, Shape
  <2>2. Begin(p, saved[p], FALSE) /\ saved' = [saved EXCEPT ![p] = 0] /\ UNCHANGED <<rows, plans, up, recovers, queue>>
    BY <1>4 DEF SpawnJob
  <2> DEFINE new == NewJob(p, saved[p], FALSE)
  <2>3. /\ jobs' = jobs \cup {new} /\ new \in Jobs /\ begun' = begun + 1 /\ begun' \in 0..MaxJobs
        /\ \A job \in jobs : job.id # new.id
    BY <2>1, <2>2, BeginIsNew
  <2>4. new.by = p /\ new.of = saved[p] /\ new.id = begun + 1
    BY DEF NewJob
  <2> HIDE DEF new
  <2>5. /\ jobs' \subseteq Jobs /\ \A job \in jobs' : job.by \in up /\ job.of <= plans /\ job.id <= begun'
        /\ \A a, b \in jobs' : a.id = b.id => a = b
    BY <2>1, <2>3, <2>4 DEF Shape, Jobs
  <2>6. /\ saved' \in [Processes -> 0..MaxPlans] /\ \A q \in Processes : saved'[q] <= plans
        /\ \A q \in Processes \ up : saved'[q] = 0
    BY <2>2 DEF Shape
  <2> QED BY <2>2, <2>3, <2>5, <2>6 DEF Shape
<1>5. ASSUME NEW p \in Processes, Regenerate(p) PROVE Shape'
  <2>1. queue[p] # <<>>
    BY <1>5 DEF Regenerate
  <2>2. /\ p \in up /\ Head(queue[p]) \in 1..MaxPlans /\ Head(queue[p]) <= plans
        /\ Tail(queue[p]) \in Seq(1..MaxPlans)
        /\ \A k \in DOMAIN Tail(queue[p]) : k + 1 \in DOMAIN queue[p] /\ Tail(queue[p])[k] = queue[p][k + 1]
    BY <2>1, QueueHead
  <2>3. /\ Begin(p, Head(queue[p]), TRUE) /\ queue' = [queue EXCEPT ![p] = Tail(queue[p])]
        /\ UNCHANGED <<rows, plans, up, recovers, saved>>
    BY <1>5 DEF Regenerate
  <2> DEFINE new == NewJob(p, Head(queue[p]), TRUE)
  <2>4. /\ jobs' = jobs \cup {new} /\ new \in Jobs /\ begun' = begun + 1 /\ begun' \in 0..MaxJobs
        /\ \A job \in jobs : job.id # new.id
    BY <2>2, <2>3, BeginIsNew
  <2>5. new.by = p /\ new.of = Head(queue[p]) /\ new.id = begun + 1
    BY DEF NewJob
  <2> HIDE DEF new
  <2>6. /\ jobs' \subseteq Jobs /\ \A job \in jobs' : job.by \in up /\ job.of <= plans /\ job.id <= begun'
        /\ \A a, b \in jobs' : a.id = b.id => a = b
    BY <2>1, <2>2, <2>4, <2>5 DEF Shape, Jobs
  <2>7. \A k \in DOMAIN Tail(queue[p]) : Tail(queue[p])[k] <= plans
    BY <2>2 DEF Shape
  <2>8. /\ queue' \in [Processes -> Seq(1..MaxPlans)]
        /\ \A q \in Processes : \A k \in DOMAIN queue'[q] : queue'[q][k] <= plans
        /\ \A q \in Processes \ up : queue'[q] = <<>>
    BY <2>2, <2>3, <2>7 DEF Shape
  <2> QED BY <2>3, <2>4, <2>6, <2>8 DEF Shape
<1>6. ASSUME NEW p \in Processes, Kill(p) PROVE Shape'
  BY <1>6 DEF Kill, Shape
<1>7. ASSUME NEW job \in jobs, ReadStale(job) PROVE Shape'
  <2>1. UNCHANGED <<rows, plans, up, recovers, saved, queue, begun>>
    BY <1>7 DEF ReadStale
  <2> DEFINE read == ReadJob(job)
  <2>2. /\ jobs' = (jobs \ {job}) \cup {read} /\ read \in Jobs
        /\ read.id = job.id /\ read.by = job.by /\ read.of = job.of
    BY <1>7, ReadIsTheSame
  <2> HIDE DEF read
  <2>3. /\ jobs' \subseteq Jobs /\ \A j \in jobs' : j.by \in up /\ j.of <= plans /\ j.id <= begun
        /\ \A a, b \in jobs' : a.id = b.id => a = b
    BY <2>2 DEF Shape
  <2> QED BY <2>1, <2>3 DEF Shape
<1>8. ASSUME NEW job \in jobs, Write(job) PROVE Shape'
  <2>1. UNCHANGED <<plans, up, recovers, saved, queue, begun>> /\ jobs' = jobs \ {job}
    BY <1>8 DEF Write
  <2>2. rows' \subseteq Rows /\ \A row \in rows' : row.of <= plans
    BY <1>8, WrittenRows DEF Write, Shape
  <2> QED BY <2>1, <2>2 DEF Shape
<1>9. ASSUME UNCHANGED embedding_vars PROVE Shape'
  BY <1>9 DEF embedding_vars, Shape
<1> QED BY <1>1, <1>2, <1>3, <1>4, <1>5, <1>6, <1>7, <1>8, <1>9 DEF EmbeddingsNext

-----------------------------------------------------------------------------
(* The count of running jobs                                               *)

\* Nothing is counted wrongly while no process has died with jobs or started over them.
LEMMA CountedKept == ASSUME Shape, Counted, [EmbeddingsNext]_embedding_vars PROVE Counted'
<1> USE DEF CountsItsJobs
<1>0. begun \in Nat /\ IsFiniteSet(jobs) /\ Cardinality(jobs) \in Nat /\ count \in Int
  BY FS_CardinalityType, BoundsAssumption DEF Shape, Counted
<1>1. ASSUME NEW p \in Processes, Boot(p) PROVE Counted'
  <2>1. count' = 0 /\ drifted' = (jobs # {}) /\ UNCHANGED <<jobs, begun>>
    BY <1>1 DEF Boot
  <2>2. jobs = {} => Cardinality(jobs) = 0
    BY FS_EmptySet
  <2>3. ~drifted' => jobs = {}
    BY <2>1
  <2> QED BY <1>0, <2>1, <2>2, <2>3 DEF Counted
<1>2. ASSUME NEW p \in Processes, NEW of \in 1..MaxPlans, NEW recovery \in BOOLEAN, Begin(p, of, recovery),
             UNCHANGED drifted
      PROVE  Counted'
  <2> DEFINE new == NewJob(p, of, recovery)
  <2>1. /\ jobs' = jobs \cup {new} /\ begun' = begun + 1 /\ count' = count + 1
        /\ \A job \in jobs : job.id # new.id
    BY <1>2, BeginIsNew
  <2>2. new \notin jobs
    BY <2>1
  <2> HIDE DEF new
  <2>3. IsFiniteSet(jobs') /\ Cardinality(jobs') = Cardinality(jobs) + 1
    BY <1>0, <2>1, <2>2, FS_AddElement
  <2> QED BY <1>0, <1>2, <2>1, <2>3 DEF Counted
<1>3. ASSUME NEW p \in Processes, SpawnJob(p) PROVE Counted'
  <2>1. saved[p] \in 1..MaxPlans
    BY <1>3 DEF SpawnJob, Shape
  <2> QED BY <1>2, <1>3, <2>1 DEF SpawnJob
<1>4. ASSUME NEW p \in Processes, Regenerate(p) PROVE Counted'
  <2>1. queue[p] # <<>>
    BY <1>4 DEF Regenerate
  <2>2. Head(queue[p]) \in 1..MaxPlans
    BY <2>1, QueueHead
  <2> QED BY <1>2, <1>4, <2>2 DEF Regenerate
<1>5. ASSUME NEW p \in Processes, Kill(p) PROVE Counted'
  <2>1. jobs' \subseteq jobs /\ (~drifted' => ~drifted /\ jobs' = jobs) /\ UNCHANGED <<begun, count>>
    BY <1>5 DEF Kill
  <2>2. IsFiniteSet(jobs') /\ Cardinality(jobs') <= Cardinality(jobs)
    BY <1>0, <2>1, FS_Subset
  <2>3. Cardinality(jobs') \in Nat
    BY <2>2, FS_CardinalityType
  <2> QED BY <1>0, <2>1, <2>2, <2>3 DEF Counted
<1>6. ASSUME NEW job \in jobs, ReadStale(job) PROVE Counted'
  <2> DEFINE read == ReadJob(job)
             others == jobs \ {job}
  <2>1. jobs' = others \cup {read} /\ read.id = job.id
    BY <1>6, ReadIsTheSame
  <2>2. read \notin others
    BY <2>1 DEF Shape
  <2>3. IsFiniteSet(others) /\ Cardinality(others) = Cardinality(jobs) - 1
    BY <1>0, FS_RemoveElement
  <2> HIDE DEF read, others
  <2>4. IsFiniteSet(jobs') /\ Cardinality(jobs') = Cardinality(others) + 1
    BY <2>1, <2>2, <2>3, FS_AddElement
  <2>5. Cardinality(jobs') = Cardinality(jobs)
    BY <1>0, <2>3, <2>4
  <2>6. UNCHANGED <<begun, count, drifted>>
    BY <1>6 DEF ReadStale
  <2> QED BY <1>0, <2>4, <2>5, <2>6 DEF Counted
<1>7. ASSUME NEW job \in jobs, Write(job) PROVE Counted'
  <2>1. jobs' = jobs \ {job} /\ count' = count - 1 /\ UNCHANGED <<begun, drifted>>
    BY <1>7 DEF Write
  <2>2. IsFiniteSet(jobs') /\ Cardinality(jobs') = Cardinality(jobs) - 1
    BY <1>0, <2>1, FS_RemoveElement
  <2> QED BY <1>0, <2>1, <2>2 DEF Counted
<1>8. ASSUME NEW p \in Processes, Recover(p) \/ Persist(p) PROVE Counted'
  BY <1>8 DEF Recover, Persist, Counted
<1>9. ASSUME UNCHANGED embedding_vars PROVE Counted'
  BY <1>9 DEF embedding_vars, Counted
<1> QED BY <1>1, <1>3, <1>4, <1>5, <1>6, <1>7, <1>8, <1>9 DEF EmbeddingsNext

-----------------------------------------------------------------------------
(* One hand, and what it has seen                                          *)

\* A step after which nothing new has an itinerary, and its rows are the same, keeps it in one hand.
LEMMA FewerHands ==
  ASSUME NEW of, OneHand(of), Settled(of),
         \A a \in jobs' : a.of = of => \E b \in jobs : b.of = of /\ b.id = a.id,
         \A a, b \in jobs' : a.id = b.id => a = b,
         \A p \in Processes : saved'[p] = of => saved[p] = of,
         \A p \in Processes : \A k \in DOMAIN queue'[p] :
           queue'[p][k] = of => k \in DOMAIN queue[p] /\ queue[p][k] = of,
         \A row : row.of = of => (row \in rows' <=> row \in rows)
  PROVE  OneHand(of)' /\ Settled(of)'
<1>1. OneHand(of)'
  BY DEF OneHand
<1>2. InNoHand(of) => InNoHand(of)'
  BY DEF InNoHand
<1>3. Settled(of)'
  BY <1>2 DEF Settled
<1> QED BY <1>1, <1>3

\* What is in hand is not embedded.
LEMMA InHandNotEmbedded ==
  ASSUME NEW of, Settled(of), ~InNoHand(of)
  PROVE  \A row \in rows : row.of = of => row.kind # "summary"
BY DEF Settled

\* An itinerary that no recovery met in the making is in one hand at most.
LEMMA SingleKept == ASSUME Shape, Single, Seen, [EmbeddingsNext]_embedding_vars PROVE Single'
<1>0. plans \in Nat /\ \A a, b \in jobs : a.id = b.id => a = b
  BY BoundsAssumption DEF Shape
<1>1. ASSUME NEW p \in Processes, Boot(p) \/ Kill(p) PROVE Single'
  <2> SUFFICES ASSUME NEW of \in (1..plans) \ doubled PROVE OneHand(of)' /\ Settled(of)'
    BY <1>1 DEF Single, Boot, Kill
  <2>1. OneHand(of) /\ Settled(of) /\ of # 0
    BY DEF Single
  <2>2. /\ UNCHANGED rows /\ jobs' \subseteq jobs
        /\ \A q \in Processes : saved'[q] \in {saved[q], 0} /\ queue'[q] \in {queue[q], <<>>}
    BY <1>1 DEF Boot, Kill, Shape
  <2> QED BY <1>0, <2>1, <2>2, FewerHands
<1>2. ASSUME NEW p \in Processes, Recover(p) PROVE Single'
  <2> SUFFICES ASSUME NEW of \in (1..plans) \ doubled' PROVE OneHand(of)' /\ Settled(of)'
    BY <1>2 DEF Single, Recover
  <2>1. UNCHANGED <<rows, saved, jobs>> /\ of \notin doubled
    BY <1>2 DEF Recover
  <2>2. OneHand(of) /\ Settled(of)
    BY <2>1 DEF Single
  <2>3. PICK order \in Seq(1..MaxPlans) :
          /\ queue' = [queue EXCEPT ![p] = order]
          /\ \A k \in DOMAIN order : \E row \in rows : row.kind = PENDING_RETRY /\ order[k] = row.of
          /\ \A k, l \in DOMAIN order : order[k] = order[l] => k = l
    BY <1>2, OrdersOfOwed
  <2>4. \A q \in Processes : queue'[q] = IF q = p THEN order ELSE queue[q]
    BY <2>3 DEF Shape
  <2>5. CASE \A row \in rows : row.of = of => row.kind # PENDING_RETRY
    <3>1. \A k \in DOMAIN order : order[k] # of
      BY <2>3, <2>5
    <3> QED BY <1>0, <2>1, <2>2, <2>4, <3>1, FewerHands
  <2>6. CASE \E row \in rows : row.of = of /\ row.kind = PENDING_RETRY
    <3>1. of \notin InHand
      BY <1>2, <2>6 DEF Recover
    <3>2. InNoHand(of)
      BY <3>1 DEF InHand, InNoHand
    <3>3. OneHand(of)'
      BY <2>1, <2>3, <2>4, <3>2 DEF OneHand, InNoHand
    <3>4. Settled(of)'
      BY <2>1, <2>2, <2>6 DEF Settled
    <3> QED BY <3>3, <3>4
  <2> QED BY <2>5, <2>6
<1>3. ASSUME NEW p \in Processes, Persist(p) PROVE Single'
  <2>1. /\ plans' = plans + 1 /\ saved' = [saved EXCEPT ![p] = plans + 1] /\ UNCHANGED <<queue, jobs, doubled>>
        /\ rows' = rows \cup {[of |-> plans + 1, kind |-> PENDING_RETRY, by |-> 0]}
    BY <1>3 DEF Persist, OwedAtOnce
  <2>2. \A q \in Processes : saved'[q] = IF q = p THEN plans + 1 ELSE saved[q]
    BY <2>1 DEF Shape
  <2>3. ASSUME NEW of \in (1..plans) \ doubled PROVE OneHand(of)' /\ Settled(of)'
    <3>1. OneHand(of) /\ Settled(of) /\ of # plans + 1
      BY <1>0 DEF Single
    <3> QED BY <1>0, <2>1, <2>2, <3>1, FewerHands
  <2>4. ASSUME NEW of, of = plans + 1 PROVE OneHand(of)' /\ Settled(of)'
    <3>1. /\ \A job \in jobs : job.of # of
          /\ \A q \in Processes : saved[q] # of
          /\ \A q \in Processes : \A k \in DOMAIN queue[q] : queue[q][k] # of
      BY <1>0, <2>4, BoundsAssumption DEF Shape, Jobs
    <3>2. \A row \in rows : row.of # of
      BY <1>0, <2>4, BoundsAssumption DEF Shape, Rows
    <3>3. OneHand(of)'
      BY <2>1, <2>2, <3>1 DEF OneHand
    <3>4. Settled(of)'
      BY <2>1, <3>2 DEF Settled, PENDING_RETRY
    <3> QED BY <3>3, <3>4
  <2>5. 1..plans' = (1..plans) \cup {plans + 1}
    BY <1>0, <2>1
  <2> QED BY <2>1, <2>3, <2>4, <2>5 DEF Single
<1>4. ASSUME NEW p \in Processes, SpawnJob(p) PROVE Single'
  <2> SUFFICES ASSUME NEW of \in (1..plans) \ doubled PROVE OneHand(of)' /\ Settled(of)'
    BY <1>4 DEF Single, SpawnJob
  <2> DEFINE new == NewJob(p, saved[p], FALSE)
  <2>1. saved[p] \in 1..MaxPlans /\ of # 0
    BY <1>4 DEF SpawnJob, Shape
  <2>2. /\ jobs' = jobs \cup {new} /\ saved' = [saved EXCEPT ![p] = 0] /\ UNCHANGED <<rows, queue>>
        /\ \A job \in jobs : job.id # new.id
    BY <1>4, <2>1, BeginIsNew DEF SpawnJob
  <2>3. new.of = saved[p]
    BY DEF NewJob
  <2> HIDE DEF new
  <2>4. \A q \in Processes : saved'[q] = IF q = p THEN 0 ELSE saved[q]
    BY <2>2 DEF Shape
  <2>5. OneHand(of) /\ Settled(of)
    BY DEF Single
  <2>6. CASE of # saved[p]
    BY <1>0, <2>1, <2>2, <2>3, <2>4, <2>5, <2>6, FewerHands
  <2>7. CASE of = saved[p]
    <3>1. OneHand(of)'
      BY <2>1, <2>2, <2>4, <2>5, <2>7 DEF OneHand
    <3>2. \A row \in rows : row.of = of => row.kind # "summary"
      BY <2>5, <2>7, InHandNotEmbedded DEF InNoHand
    <3>3. Settled(of)'
      BY <2>2, <3>2 DEF Settled
    <3> QED BY <3>1, <3>3
  <2> QED BY <2>6, <2>7
<1>5. ASSUME NEW p \in Processes, Regenerate(p) PROVE Single'
  <2> SUFFICES ASSUME NEW of \in (1..plans) \ doubled PROVE OneHand(of)' /\ Settled(of)'
    BY <1>5 DEF Single, Regenerate
  <2> DEFINE new == NewJob(p, Head(queue[p]), TRUE)
             rest == Tail(queue[p])
  <2>1. /\ 1 \in DOMAIN queue[p] /\ Head(queue[p]) = queue[p][1] /\ Head(queue[p]) \in 1..MaxPlans
        /\ \A k \in DOMAIN rest :
             k \in Int /\ k + 1 # 1 /\ k + 1 \in DOMAIN queue[p] /\ rest[k] = queue[p][k + 1]
    BY <1>5, QueueHead DEF Regenerate
  <2>2. /\ jobs' = jobs \cup {new} /\ queue' = [queue EXCEPT ![p] = rest] /\ UNCHANGED <<rows, saved>>
        /\ \A job \in jobs : job.id # new.id
    BY <1>5, <2>1, BeginIsNew DEF Regenerate
  <2>3. new.of = queue[p][1]
    BY <2>1 DEF NewJob
  <2>4. \A q \in Processes : queue'[q] = IF q = p THEN rest ELSE queue[q]
    BY <2>2 DEF Shape
  <2> HIDE DEF new, rest
  <2>5. OneHand(of) /\ Settled(of)
    BY DEF Single
  <2>6. /\ \A k, l \in DOMAIN rest : k + 1 = l + 1 => k = l
        /\ \A q \in Processes : \A k \in DOMAIN queue'[q] : queue'[q][k] = of =>
             \E l \in DOMAIN queue[q] : queue[q][l] = of /\ l = IF q = p THEN k + 1 ELSE k
    BY <2>1, <2>4
  <2>7. CASE of # queue[p][1]
    <3>1. OneHand(of)'
      <4>1. \A q, r \in Processes : \A k \in DOMAIN queue'[q], l \in DOMAIN queue'[r] :
              queue'[q][k] = of /\ queue'[r][l] = of => q = r /\ k = l
        BY <2>1, <2>4, <2>5, <2>6 DEF OneHand
      <4>2. \A a \in jobs' : a.of = of => a \in jobs
        BY <2>2, <2>3, <2>7
      <4> QED BY <2>2, <2>5, <2>6, <4>1, <4>2 DEF OneHand
    <3>2. InNoHand(of) => InNoHand(of)'
      BY <2>2, <2>3, <2>6, <2>7 DEF InNoHand
    <3>3. Settled(of)'
      BY <2>2, <2>5, <3>2 DEF Settled
    <3> QED BY <3>1, <3>3
  <2>8. CASE of = queue[p][1]
    <3>1. \A q \in Processes : \A k \in DOMAIN queue'[q] : queue'[q][k] # of
      BY <2>1, <2>4, <2>5, <2>8 DEF OneHand
    <3>2. (\A job \in jobs : job.of # of) /\ \A q \in Processes : saved[q] # of
      BY <2>1, <2>5, <2>8 DEF OneHand
    <3>3. OneHand(of)'
      BY <2>2, <3>1, <3>2 DEF OneHand
    <3>4. \A row \in rows : row.of = of => row.kind # "summary"
      BY <2>1, <2>5, <2>8, InHandNotEmbedded DEF InNoHand
    <3>5. Settled(of)'
      BY <2>2, <3>4 DEF Settled
    <3> QED BY <3>3, <3>5
  <2> QED BY <2>7, <2>8
<1>6. ASSUME NEW job \in jobs, ReadStale(job) PROVE Single'
  <2> SUFFICES ASSUME NEW of \in (1..plans) \ doubled PROVE OneHand(of)' /\ Settled(of)'
    BY <1>6 DEF Single, ReadStale
  <2> DEFINE read == ReadJob(job)
  <2>1. jobs' = (jobs \ {job}) \cup {read} /\ read.id = job.id /\ read.of = job.of
    BY <1>6, ReadIsTheSame
  <2> HIDE DEF read
  <2>2. \A a \in jobs' : \E b \in jobs : b.id = a.id /\ b.of = a.of
    BY <2>1
  <2>3. \A a, b \in jobs' : a.id = b.id => a = b
    BY <1>0, <2>1
  <2>4. OneHand(of) /\ Settled(of)
    BY DEF Single
  <2>5. UNCHANGED <<rows, saved, queue>>
    BY <1>6 DEF ReadStale
  <2> QED BY <2>2, <2>3, <2>4, <2>5, FewerHands
<1>7. ASSUME NEW job \in jobs, Write(job) PROVE Single'
  <2> SUFFICES ASSUME NEW of \in (1..plans) \ doubled PROVE OneHand(of)' /\ Settled(of)'
    BY <1>7 DEF Single, Write
  <2>1. OneHand(of) /\ Settled(of)
    BY DEF Single
  <2>2. /\ UNCHANGED <<saved, queue>> /\ jobs' = jobs \ {job} /\ job.read
        /\ \/ \E vectors \in BOOLEAN : rows' = (rows \ job.stale) \cup Written(job, vectors)
           \/ rows' = rows
    BY <1>7 DEF Write, Cleared
  <2>3. CASE of # job.of
    <3>1. \A row : row.of = of => (row \in rows' <=> row \in rows)
      BY <2>2, <2>3, WrittenRows DEF Seen
    <3> QED BY <1>0, <2>1, <2>2, <3>1, FewerHands
  <2>4. CASE of = job.of
    <3>1. InNoHand(of)'
      BY <2>1, <2>2, <2>4 DEF OneHand, InNoHand
    <3>2. OneHand(of)'
      BY <3>1 DEF OneHand, InNoHand
    <3>3. \A row \in rows : row.of = of => row.kind # "summary"
      BY <2>1, <2>4, InHandNotEmbedded DEF InNoHand
    <3>4. \A row \in rows : row.of = of /\ row.kind = PENDING_RETRY => row \in job.stale
      BY <2>2, <2>4 DEF Seen, Owed
    <3>5. ASSUME NEW vectors \in BOOLEAN, rows' = (rows \ job.stale) \cup Written(job, vectors)
          PROVE  Settled(of)'
      BY <3>1, <3>3, <3>4, <3>5 DEF Settled, Written, PENDING_RETRY
    <3>6. rows' = rows => Settled(of)'
      BY <3>3 DEF Settled
    <3> QED BY <2>2, <3>2, <3>5, <3>6
  <2> QED BY <2>3, <2>4
<1>8. ASSUME UNCHANGED embedding_vars PROVE Single'
  BY <1>8 DEF embedding_vars, Single, OneHand, Settled, InNoHand
<1> QED BY <1>1, <1>2, <1>3, <1>4, <1>5, <1>6, <1>7, <1>8 DEF EmbeddingsNext

\* A job has seen what is owed of its itinerary, unless another makes that too.
LEMMA SeenKept == ASSUME Shape, Single, Seen, [EmbeddingsNext]_embedding_vars PROVE Seen'
<1>1. ASSUME NEW p \in Processes, Boot(p) \/ Recover(p) \/ Kill(p) PROVE Seen'
  BY <1>1 DEF Boot, Recover, Kill, Seen, Owed
<1>2. ASSUME NEW p \in Processes, Persist(p) PROVE Seen'
  <2>1. /\ UNCHANGED <<jobs, doubled>>
        /\ rows' = rows \cup {[of |-> plans + 1, kind |-> PENDING_RETRY, by |-> 0]}
    BY <1>2 DEF Persist, OwedAtOnce
  <2>2. \A job \in jobs : job.of # plans + 1
    BY BoundsAssumption DEF Shape, Jobs
  <2>3. \A job \in jobs : Owed(job.of)' = Owed(job.of)
    <3> SUFFICES ASSUME NEW job \in jobs PROVE Owed(job.of)' = Owed(job.of)
      OBVIOUS
    <3>1. job.of # plans + 1
      BY <2>2
    <3> QED BY <2>1, <3>1 DEF Owed
  <2> QED BY <2>1, <2>3 DEF Seen
<1>3. ASSUME NEW p \in Processes, NEW of \in 1..MaxPlans, NEW recovery \in BOOLEAN, Begin(p, of, recovery),
             UNCHANGED <<rows, doubled>>
      PROVE  Seen'
  <2>1. jobs' = jobs \cup {NewJob(p, of, recovery)}
    BY <1>3, BeginIsNew
  <2>2. NewJob(p, of, recovery).stale = {} /\ NewJob(p, of, recovery).read = FALSE
    BY DEF NewJob
  <2>3. \A job : Owed(job.of)' = Owed(job.of)
    BY <1>3 DEF Owed
  <2> QED BY <1>3, <2>1, <2>2, <2>3 DEF Seen
<1>4. ASSUME NEW p \in Processes, SpawnJob(p) PROVE Seen'
  <2>1. saved[p] \in 1..MaxPlans
    BY <1>4 DEF SpawnJob, Shape
  <2> QED BY <1>3, <1>4, <2>1 DEF SpawnJob
<1>5. ASSUME NEW p \in Processes, Regenerate(p) PROVE Seen'
  <2>1. Head(queue[p]) \in 1..MaxPlans
    BY <1>5, QueueHead DEF Regenerate
  <2> QED BY <1>3, <1>5, <2>1 DEF Regenerate
<1>6. ASSUME NEW job \in jobs, ReadStale(job) PROVE Seen'
  <2> DEFINE read == ReadJob(job)
  <2>1. jobs' = (jobs \ {job}) \cup {read} /\ read.of = job.of /\ read.stale = Owed(job.of)
    BY <1>6, ReadIsTheSame
  <2> HIDE DEF read
  <2>2. UNCHANGED <<rows, doubled>>
    BY <1>6 DEF ReadStale
  <2>3. \A j : Owed(j.of)' = Owed(j.of)
    BY <2>2 DEF Owed
  <2>4. \A row \in Owed(job.of) : row.of = job.of /\ row.kind = PENDING_RETRY
    BY DEF Owed
  <2> QED BY <2>1, <2>2, <2>3, <2>4 DEF Seen
<1>7. ASSUME NEW job \in jobs, Write(job) PROVE Seen'
  <2>1. /\ UNCHANGED doubled /\ jobs' = jobs \ {job}
        /\ \/ \E vectors \in BOOLEAN : rows' = (rows \ job.stale) \cup Written(job, vectors)
           \/ rows' = rows
    BY <1>7 DEF Write, Cleared
  <2>2. ASSUME NEW other \in jobs \ {job}, other.of \notin doubled PROVE Owed(other.of)' = Owed(other.of)
    <3>1. other.of \in 1..plans
      BY <2>2, BoundsAssumption DEF Shape, Jobs
    <3>2. other.of # job.of
      BY <2>2, <3>1 DEF Single, OneHand
    <3>3. \A row : row.of = other.of => (row \in rows' <=> row \in rows)
      BY <2>1, <3>2, WrittenRows DEF Seen
    <3> QED BY <3>3 DEF Owed
  <2> QED BY <2>1, <2>2 DEF Seen
<1>8. ASSUME UNCHANGED embedding_vars PROVE Seen'
  BY <1>8 DEF embedding_vars, Seen, Owed
<1> QED BY <1>1, <1>2, <1>4, <1>5, <1>6, <1>7, <1>8 DEF EmbeddingsNext

-----------------------------------------------------------------------------
(* The theorems                                                            *)

\* An itinerary is embedded, or on record as waiting to be: a job deletes what was owed in the
\* transaction that writes what comes instead of it.
LEMMA NeverForgottenKept ==
  ASSUME Shape, Seen, NeverForgotten, [EmbeddingsNext]_embedding_vars
  PROVE  NeverForgotten'
<1>1. ASSUME NEW p \in Processes, Persist(p) PROVE NeverForgotten'
  <2>1. plans \in Nat /\ plans' = plans + 1 /\ 1..plans' = (1..plans) \cup {plans + 1}
    BY <1>1, BoundsAssumption DEF Persist, Shape
  <2>2. rows' = rows \cup {[of |-> plans + 1, kind |-> PENDING_RETRY, by |-> 0]}
    BY <1>1 DEF Persist, OwedAtOnce
  <2>3. ASSUME NEW of \in 1..plans
        PROVE  \E row \in rows' : row.of = of /\ row.kind \in {"summary", PENDING_RETRY}
    BY <2>2 DEF NeverForgotten
  <2>4. \E row \in rows' : row.of = plans + 1 /\ row.kind \in {"summary", PENDING_RETRY}
    <3> DEFINE owed == [of |-> plans + 1, kind |-> PENDING_RETRY, by |-> 0]
    <3>1. owed \in rows' /\ owed.of = plans + 1 /\ owed.kind = PENDING_RETRY
      BY <2>2
    <3> QED BY <3>1
  <2> QED BY <2>1, <2>3, <2>4 DEF NeverForgotten
<1>2. ASSUME NEW job \in jobs, Write(job) PROVE NeverForgotten'
  <2> SUFFICES ASSUME NEW of \in 1..plans
               PROVE  \E row \in rows' : row.of = of /\ row.kind \in {"summary", PENDING_RETRY}
    BY <1>2 DEF NeverForgotten, Write
  <2>1. PICK row \in rows : row.of = of /\ row.kind \in {"summary", PENDING_RETRY}
    BY DEF NeverForgotten
  <2>2. CASE rows' = rows
    BY <2>1, <2>2
  <2>3. ASSUME NEW vectors \in BOOLEAN, rows' = (rows \ job.stale) \cup Written(job, vectors)
        PROVE  \E written \in rows' : written.of = of /\ written.kind \in {"summary", PENDING_RETRY}
    <3>1. CASE of = job.of
      <4>1. \E written \in Written(job, vectors) :
              written.of = job.of /\ written.kind \in {"summary", PENDING_RETRY}
        <5> DEFINE newRow(kind) == [of |-> job.of, kind |-> kind, by |-> job.id]
        <5>1. IF vectors THEN newRow("summary") \in Written(job, vectors)
                         ELSE newRow(PENDING_RETRY) \in Written(job, vectors)
          BY DEF Written
        <5> QED BY <5>1
      <4> QED BY <2>3, <3>1, <4>1
    <3>2. CASE of # job.of
      BY <2>1, <2>3, <3>2 DEF Seen
    <3> QED BY <3>1, <3>2
  <2> QED BY <1>2, <2>2, <2>3 DEF Write, Cleared
<1>3. ASSUME NEW p \in Processes, Boot(p) \/ Recover(p) \/ SpawnJob(p) \/ Regenerate(p) \/ Kill(p)
      PROVE  NeverForgotten'
  BY <1>3 DEF Boot, Recover, SpawnJob, Regenerate, Kill, NeverForgotten
<1>4. ASSUME NEW job \in jobs, ReadStale(job) PROVE NeverForgotten'
  BY <1>4 DEF ReadStale, NeverForgotten
<1>5. ASSUME UNCHANGED embedding_vars PROVE NeverForgotten'
  BY <1>5 DEF embedding_vars, NeverForgotten
<1> QED BY <1>1, <1>2, <1>3, <1>4, <1>5 DEF EmbeddingsNext

\* The invariant holds of the start and is kept.
LEMMA EmbeddingsInvKept == EmbeddingsSpec => []EmbeddingsInv
<1>1. EmbeddingsInit => EmbeddingsInv
  <2> SUFFICES ASSUME EmbeddingsInit PROVE EmbeddingsInv
    OBVIOUS
  <2>1. Shape
    BY BoundsAssumption DEF EmbeddingsInit, Shape
  <2>2. Counted
    BY FS_EmptySet DEF EmbeddingsInit, Counted, CountsItsJobs
  <2>3. Single /\ Seen /\ NeverForgotten
    BY DEF EmbeddingsInit, Single, Seen, NeverForgotten
  <2> QED BY <2>1, <2>2, <2>3 DEF EmbeddingsInv
<1>2. EmbeddingsInv /\ [EmbeddingsNext]_embedding_vars => EmbeddingsInv'
  BY ShapeKept, CountedKept, SingleKept, SeenKept, NeverForgottenKept DEF EmbeddingsInv
<1> QED BY <1>1, <1>2, PTL DEF EmbeddingsSpec

\* The state keeps its types.
THEOREM EmbeddingsTyped == EmbeddingsSpec => []EmbeddingsTypeOK
<1>1. EmbeddingsInv => EmbeddingsTypeOK
  <2> SUFFICES ASSUME EmbeddingsInv PROVE EmbeddingsTypeOK
    OBVIOUS
  <2>1. Cardinality(jobs) \in Nat
    BY FS_CardinalityType DEF EmbeddingsInv, Counted
  <2>2. count \in -MaxJobs..MaxJobs
    BY <2>1, BoundsAssumption DEF EmbeddingsInv, Counted, Shape
  <2>3. /\ rows \subseteq Rows /\ plans \in 0..MaxPlans /\ recovers \subseteq up /\ up \subseteq Processes
        /\ saved \in [Processes -> 0..MaxPlans]
    BY DEF EmbeddingsInv, Shape
  <2>4. \A job \in jobs : job.by \in up /\ job.of \in 1..plans
    BY BoundsAssumption DEF EmbeddingsInv, Shape, Jobs
  <2> QED BY <2>2, <2>3, <2>4 DEF EmbeddingsTypeOK, Rows
<1> QED BY <1>1, EmbeddingsInvKept, PTL

\* Whichever processes start, overlap and are killed: no itinerary is forgotten, and one that no
\* start-up recovery met in the making is found once and no longer owed once it is embedded; and the
\* count of running jobs is right until a process dies with some or starts over them.
THEOREM EmbeddingsAreKept == EmbeddingsSpec => []EmbeddingsKept
<1>1. EmbeddingsInv => EmbeddingsKept
  <2> SUFFICES ASSUME EmbeddingsInv PROVE EmbeddingsKept
    OBVIOUS
  <2>1. NeverForgotten /\ CountsItsJobs
    BY DEF EmbeddingsInv, Counted
  <2>2. FoundOnce
    <3> SUFFICES ASSUME plans \notin doubled PROVE Cardinality(Found) <= 1
      BY DEF FoundOnce
    <3>1. \A a, b \in Found : a = b
      <4> SUFFICES ASSUME NEW a \in Found, NEW b \in Found PROVE a = b
        OBVIOUS
      <4>1. plans \in 1..plans
        BY BoundsAssumption DEF Found, EmbeddingsInv, Shape, Rows
      <4> QED BY <4>1 DEF Found, EmbeddingsInv, Single, Settled
    <3>2. Found = {} \/ \E a : Found = {a}
      BY <3>1
    <3> HIDE DEF Found
    <3> QED BY <3>2, FS_EmptySet, FS_Singleton
  <2>3. OwedNoMore
    BY DEF EmbeddingsInv, Single, Settled, OwedNoMore
  <2> QED BY <2>1, <2>2, <2>3 DEF EmbeddingsKept
<1> QED BY <1>1, EmbeddingsInvKept, PTL

=============================================================================
