--------------------------- MODULE TripRuns_proofs ---------------------------
(***************************************************************************)
(* What TLAPS proves of TripRuns, for any number of requests, instances,   *)
(* stops and outages, and whoever overlaps: type correctness, that a       *)
(* "completed" trip has an itinerary, and that a trip that says "planning" *)
(* always has somebody to take it out of that.                             *)
(*                                                                         *)
(* With one server, and a traveller who waits for a run to end before      *)
(* asking for the next: one run at a time, whose note nobody takes from    *)
(* it, and the lifecycle the traveller is promised, step by step.  With    *)
(* two servers one that starts between another's commit of "planning" and  *)
(* its note marks the trip of a run that lives; with an outage longer than *)
(* every retry a run may never be settled.  Both hypotheses are needed.    *)
(***************************************************************************)
EXTENDS TripRuns, TLAPS

\* A handler or a run moves to a known place, and nobody else moves.
LEMMA MovesWithinPCs ==
  ASSUME pc \in [Requests -> PCs], NEW r \in Requests, NEW from, NEW to \in PCs, At(r, from, to)
  PROVE  pc' \in [Requests -> PCs]
BY DEF At

\* Every place named in the module is one of PCs.
LEMMA AllPCs ==
  {"idle", "checked", "refused", "marked", "planning", "saved", "unmade", "settling", "settleWrite",
   "givingUp", "giveUpWrite", "ending", "done", "dead"} \subseteq PCs
BY DEF PCs, Active, Handling, Alive, InGraph, Settling, GivingUp

\* A move of one request leaves the rest of the state's types alone, whatever status and note it writes.
LEMMA TypeOKAfterMove ==
  ASSUME TypeOK, NEW r \in Requests, NEW from, NEW to \in PCs, At(r, from, to),
         status' \in Statuses, itineraries' \in Nat, note' \in Requests \cup {NoNote},
         UNCHANGED <<services, fleet, seen, given>>
  PROVE  TypeOK'
BY MovesWithinPCs DEF TypeOK, services, fleet, given

\* The state keeps its types.
THEOREM TypeCorrect == Spec => []TypeOK
<1>1. Init => TypeOK
  BY ConstantsAssumption DEF Init, TypeOK, Statuses, PCs
<1>2. TypeOK /\ [Next]_vars => TypeOK'
  <2> SUFFICES ASSUME TypeOK, [Next]_vars PROVE TypeOK'
    OBVIOUS
  <2> USE AllPCs
  <2>1. ASSUME NEW r \in Requests, Receive(r) PROVE TypeOK'
    BY <2>1 DEF TypeOK, Receive, trip, services, fleet, given
  <2>2. ASSUME NEW r \in Requests, Reread(r) PROVE TypeOK'
    BY <2>2 DEF TypeOK, Reread, trip, services, fleet, given
  <2>3. ASSUME NEW r \in Requests, Beat(r) PROVE TypeOK'
    BY <2>3 DEF TypeOK, Beat, services, fleet, runs, given
  <2>4. ASSUME NEW r \in Requests, HandlerStep(r) PROVE TypeOK'
    <3>1. CASE TurnBack(r)
      BY <3>1, TypeOKAfterMove DEF TurnBack, TypeOK, trip
    <3>2. CASE StartRun(r)
      BY <3>2, TypeOKAfterMove DEF StartRun, TypeOK, Statuses
    <3>3. CASE NoteRun(r)
      BY <3>3, TypeOKAfterMove DEF NoteRun, AfterNote, TypeOK
    <3> QED BY <2>4, <3>1, <3>2, <3>3 DEF HandlerStep
  <2>5. ASSUME NEW r \in Requests, GraphStep(r) PROVE TypeOK'
    <3>1. CASE Save(r)
      BY <3>1, TypeOKAfterMove DEF Save, TypeOK, Statuses
    <3>2. CASE GraphFails(r)
      BY <3>2, TypeOKAfterMove DEF GraphFails, TypeOK, Statuses
    <3>3. CASE GraphReturns(r)
      BY <3>3, TypeOKAfterMove DEF GraphReturns, TypeOK, trip
    <3>4. CASE RunCrashes(r)
      BY <3>4, TypeOKAfterMove DEF RunCrashes, NoteAfterCrash, TypeOK
    <3> QED BY <2>5, <3>1, <3>2, <3>3, <3>4 DEF GraphStep
  <2>6. ASSUME NEW r \in Requests, EndStep(r) PROVE TypeOK'
    <3>1. CASE SettleRead(r)
      BY <3>1, TypeOKAfterMove DEF SettleRead, TypeOK, trip
    <3>2. CASE SettleWrite(r)
      BY <3>2, TypeOKAfterMove DEF SettleWrite, Fallback, TypeOK, Statuses
    <3>3. CASE SettleAgain(r)
      BY <3>3, TypeOKAfterMove DEF SettleAgain, TypeOK, trip
    <3>4. CASE GiveUpRead(r)
      BY <3>4, TypeOKAfterMove DEF GiveUpRead, TypeOK, trip
    <3>5. CASE GiveUpWrite(r)
      BY <3>5, TypeOKAfterMove DEF GiveUpWrite, Fallback, TypeOK, Statuses
    <3>6. CASE End(r)
      BY <3>6, TypeOKAfterMove DEF End, TypeOK
    <3> QED BY <2>6, <3>1, <3>2, <3>3, <3>4, <3>5, <3>6 DEF EndStep
  <2>7. ASSUME NEW r \in Requests, CutHandler(r) \/ Cancel(r) PROVE TypeOK'
    BY <2>7, TypeOKAfterMove DEF CutHandler, Cancel, TypeOK, trip
  <2>8. ASSUME NEW i \in Instances, Stop(i) \/ Exit(i) \/ Start(i) PROVE TypeOK'
    BY <2>8, ConstantsAssumption DEF Stop, Exit, Start, TypeOK, trip, services, runs, given
  <2>9. ASSUME NEW i \in Instances, Crash(i) PROVE TypeOK'
    BY <2>9, ConstantsAssumption DEF Crash, TypeOK, trip, services, given
  <2>10. ASSUME NEW i \in Instances, RecoveryStep(i) PROVE TypeOK'
    BY <2>10 DEF RecoveryStep, LookAtTrips, AskForNotes, WhenNoted, MarkInterrupted, Deferred, Recovers,
                 TypeOK, Statuses, services, runs, given
  <2>11. ASSUME NoteExpires \/ ServiceGoes \/ DatabaseReturns \/ RedisReturns PROVE TypeOK'
    <3>1. CASE NoteExpires
      BY <3>1 DEF NoteExpires, TypeOK, services, fleet, runs, given
    <3>2. CASE ServiceGoes
      <4>1. outages' \in 0..MaxOutages
        BY <3>2, ConstantsAssumption DEF ServiceGoes, TypeOK
      <4>2. dbUp' \in BOOLEAN /\ redisUp' \in BOOLEAN
        BY <3>2 DEF ServiceGoes, TypeOK
      <4> QED BY <3>2, <4>1, <4>2 DEF ServiceGoes, TypeOK, trip, fleet, runs, given
    <3>3. CASE DatabaseReturns
      BY <3>3 DEF DatabaseReturns, TypeOK, trip, fleet, runs, given
    <3>4. CASE RedisReturns
      BY <3>4 DEF RedisReturns, TypeOK, fleet, runs, given
    <3> QED BY <2>11, <3>1, <3>2, <3>3, <3>4
  <2>12. ASSUME UNCHANGED vars PROVE TypeOK'
    BY <2>12 DEF TypeOK, vars, trip, services, fleet, runs, given
  <2> QED
    BY <2>1, <2>2, <2>3, <2>4, <2>5, <2>6, <2>7, <2>8, <2>9, <2>10, <2>11, <2>12 DEF Next
<1> QED BY <1>1, <1>2, PTL DEF Spec, SafetySpec

-----------------------------------------------------------------------------
(* Completed trips have plans                                              *)

PlanInv == PlanBehindCompleted /\ PlanBehindSeen

\* A step whose run marks its trip relies on what the handler saw.
LEMMA FallbackHasPlan ==
  ASSUME PlanInv, NEW r \in Requests, Fallback(r) = "completed"
  PROVE  itineraries > 0
BY DEF PlanInv, PlanBehindSeen, Fallback

\* Nothing about plans changes where the trip and what was seen of it do not.
LEMMA PlanInvStutter ==
  ASSUME PlanInv, UNCHANGED <<status, itineraries, seen>>
  PROVE  PlanInv'
BY DEF PlanInv, PlanBehindCompleted, PlanBehindSeen, HasItinerary

\* Whatever overlaps, a trip shown as completed, and one that a handler saw completed, has an itinerary.
LEMMA PlansKept == Spec => []PlanInv
<1>1. Init => PlanInv
  BY DEF Init, PlanInv, PlanBehindCompleted, PlanBehindSeen, HasItinerary
<1>2. TypeOK /\ PlanInv /\ [Next]_vars => PlanInv'
  <2> SUFFICES ASSUME TypeOK, PlanInv, [Next]_vars PROVE PlanInv'
    OBVIOUS
  <2>1. ASSUME NEW r \in Requests, Receive(r) \/ Reread(r) PROVE PlanInv'
    <3>1. UNCHANGED <<status, itineraries>> /\ seen' = [seen EXCEPT ![r] = status]
      BY <2>1 DEF Receive, Reread, trip
    <3> QED
      BY <3>1 DEF TypeOK, PlanInv, PlanBehindCompleted, PlanBehindSeen, HasItinerary
  <2>2. ASSUME NEW r \in Requests, HandlerStep(r) PROVE PlanInv'
    <3>1. CASE TurnBack(r) \/ NoteRun(r)
      BY <3>1, PlanInvStutter DEF TurnBack, NoteRun, trip
    <3>2. CASE StartRun(r)
      BY <3>2 DEF StartRun, PlanInv, PlanBehindCompleted, PlanBehindSeen, HasItinerary
    <3> QED BY <2>2, <3>1, <3>2 DEF HandlerStep
  <2>3. ASSUME NEW r \in Requests, GraphStep(r) PROVE PlanInv'
    <3>1. CASE Save(r)
      BY <3>1 DEF Save, TypeOK, PlanInv, PlanBehindCompleted, PlanBehindSeen, HasItinerary
    <3>2. CASE GraphFails(r)
      BY <3>2 DEF GraphFails, PlanInv, PlanBehindCompleted, PlanBehindSeen, HasItinerary
    <3>3. CASE GraphReturns(r) \/ RunCrashes(r)
      BY <3>3, PlanInvStutter DEF GraphReturns, RunCrashes, trip
    <3> QED BY <2>3, <3>1, <3>2, <3>3 DEF GraphStep
  <2>4. ASSUME NEW r \in Requests, EndStep(r) PROVE PlanInv'
    <3>1. CASE SettleWrite(r) \/ GiveUpWrite(r)
      <4>1. UNCHANGED <<itineraries, seen>> /\ status' \in {status, Fallback(r)}
        BY <3>1 DEF SettleWrite, GiveUpWrite
      <4> QED
        BY <4>1, FallbackHasPlan DEF PlanInv, PlanBehindCompleted, PlanBehindSeen, HasItinerary
    <3>2. CASE SettleRead(r) \/ SettleAgain(r) \/ GiveUpRead(r) \/ End(r)
      BY <3>2, PlanInvStutter DEF SettleRead, SettleAgain, GiveUpRead, End, trip
    <3> QED BY <2>4, <3>1, <3>2 DEF EndStep
  <2>5. ASSUME NEW i \in Instances, RecoveryStep(i) PROVE PlanInv'
    <3>1. CASE LookAtTrips(i) \/ AskForNotes(i)
      BY <3>1, PlanInvStutter DEF LookAtTrips, AskForNotes, Deferred, Recovers, runs
    <3>2. CASE MarkInterrupted(i)
      <4>1. UNCHANGED <<itineraries, seen>>
        BY <3>2 DEF MarkInterrupted, Deferred, Recovers, runs
      <4>2. status' = status \/ status' = "failed" \/ itineraries > 0
        BY <3>2 DEF MarkInterrupted, Deferred, Recovers
      <4> QED BY <4>1, <4>2 DEF PlanInv, PlanBehindCompleted, PlanBehindSeen, HasItinerary
    <3> QED BY <2>5, <3>1, <3>2 DEF RecoveryStep
  <2>6. ASSUME NEW r \in Requests, Beat(r) \/ CutHandler(r) \/ Cancel(r) PROVE PlanInv'
    BY <2>6, PlanInvStutter DEF Beat, CutHandler, Cancel, trip, runs
  <2>7. ASSUME NEW i \in Instances, Stop(i) \/ Exit(i) \/ Crash(i) \/ Start(i) PROVE PlanInv'
    BY <2>7, PlanInvStutter DEF Stop, Exit, Crash, Start, trip, runs
  <2>8. ASSUME NoteExpires \/ ServiceGoes \/ DatabaseReturns \/ RedisReturns PROVE PlanInv'
    BY <2>8, PlanInvStutter DEF NoteExpires, ServiceGoes, DatabaseReturns, RedisReturns, trip, runs
  <2>9. ASSUME UNCHANGED vars PROVE PlanInv'
    BY <2>9, PlanInvStutter DEF vars, trip, runs
  <2> QED
    BY <2>1, <2>2, <2>3, <2>4, <2>5, <2>6, <2>7, <2>8, <2>9 DEF Next
<1> QED BY <1>1, <1>2, TypeCorrect, PTL DEF Spec, SafetySpec

\* Whatever overlaps, a trip shown as completed has an itinerary.
THEOREM CompletedHasPlan == Spec => []PlanBehindCompleted
<1>1. PlanInv => PlanBehindCompleted
  BY DEF PlanInv
<1> QED BY <1>1, PlansKept, PTL

-----------------------------------------------------------------------------
(* A trip that is "planning" has somebody to answer for it                 *)

AnswerInv == NeverAbandoned /\ GivenUpByStopping

\* A move of one request, which leaves the processes alone, keeps the invariant if the request had no
\* answer to give, still has one, or is in a process that is stopping - and says so if it is given up.
LEMMA MoveKeepsAnswers ==
  ASSUME TypeOK, AnswerInv, NEW r \in Requests, NEW from, NEW to \in PCs \ {"idle"}, At(r, from, to),
         UNCHANGED <<inst, recovery, host>>,
         status' = "planning" => status = "planning",
         Responsible(r) => Responsible(r)' \/ inst[host[r]] # "up" \/ status' # "planning",
         to \in GivingUp => inst[host[r]] = "stopping"
  PROVE  AnswerInv'
<1>1. pc' = [pc EXCEPT ![r] = to] /\ pc \in [Requests -> PCs]
  BY DEF At, TypeOK
<1>2. \A q \in Requests : q # r => pc'[q] = pc[q]
  BY <1>1
<1>3. pc'[r] = to /\ to # "idle"
  BY <1>1
<1>4. NeverAbandoned'
  <2> SUFFICES ASSUME status' = "planning" PROVE \E q \in Requests : Answered(q)'
    BY DEF NeverAbandoned
  <2>1. PICK q \in Requests : Answered(q)
    BY DEF AnswerInv, NeverAbandoned
  <2>2. CASE q = r
    BY <2>1, <2>2, <1>3 DEF Answered
  <2>3. CASE q # r
    BY <2>1, <2>3, <1>2 DEF Answered, Responsible
  <2> QED BY <2>2, <2>3
<1>5. GivenUpByStopping'
  BY <1>2, <1>3 DEF AnswerInv, GivenUpByStopping
<1> QED BY <1>4, <1>5 DEF AnswerInv

\* A step of recovery, or of what is around the runs, keeps the invariant if it leaves a process whose
\* recovery is not over in recovery for as long as the trip says "planning".
LEMMA RecoveryKeepsAnswers ==
  ASSUME AnswerInv, UNCHANGED <<inst, pc, host>>,
         status' = "planning" => status = "planning",
         status' = "planning" => \A i \in Instances : recovery[i] # "none" => recovery'[i] # "none",
         host \in [Requests -> Instances]
  PROVE  AnswerInv'
BY DEF AnswerInv, NeverAbandoned, GivenUpByStopping, Answered, Responsible

\* No run, process or recovery lets go of a trip that says "planning", and no run is given up by a
\* process that goes on, as long as no database outage outlasts the time they give it.
LEMMA AnswersKept == ~LongOutage => (Spec => []AnswerInv)
<1> SUFFICES ASSUME ~LongOutage PROVE Spec => []AnswerInv
  OBVIOUS
<1>1. Init => AnswerInv
  BY DEF Init, AnswerInv, NeverAbandoned, GivenUpByStopping, GivingUp
<1>2. TypeOK /\ AnswerInv /\ [Next]_vars => AnswerInv'
  <2> SUFFICES ASSUME TypeOK, AnswerInv, [Next]_vars PROVE AnswerInv'
    OBVIOUS
  <2> USE AllPCs DEF fleet, given
  <2>1. ASSUME NEW r \in Requests, Receive(r) PROVE AnswerInv'
    <3>1. PICK to \in {"refused", "checked"} : At(r, {"idle"}, to)
      BY <2>1 DEF Receive, At
    <3> QED
      BY <2>1, <3>1, MoveKeepsAnswers DEF Receive, Responsible, Settling, GivingUp, trip
  <2>2. ASSUME NEW r \in Requests, HandlerStep(r) PROVE AnswerInv'
    <3>1. CASE TurnBack(r)
      BY <3>1, MoveKeepsAnswers DEF TurnBack, At, Responsible, Settling, GivingUp, trip
    <3>2. CASE StartRun(r)
      <4>1. pc' = [pc EXCEPT ![r] = "marked"] /\ pc \in [Requests -> PCs]
        BY <3>2 DEF StartRun, At, TypeOK
      <4>2. Answered(r)'
        BY <4>1 DEF Answered, Responsible
      <4>3. GivenUpByStopping'
        BY <3>2, <4>1 DEF StartRun, AnswerInv, GivenUpByStopping, GivingUp
      <4> QED BY <4>2, <4>3 DEF AnswerInv, NeverAbandoned
    <3>3. CASE NoteRun(r)
      <4>1. Responsible(r)'
        BY <3>3 DEF NoteRun, AfterNote, At, TypeOK, Responsible
      <4> QED BY <3>3, <4>1, MoveKeepsAnswers DEF NoteRun, AfterNote, GivingUp
    <3> QED BY <2>2, <3>1, <3>2, <3>3 DEF HandlerStep
  <2>3. ASSUME NEW r \in Requests, GraphStep(r) PROVE AnswerInv'
    <3>1. CASE Save(r)
      BY <3>1, MoveKeepsAnswers DEF Save, GivingUp
    <3>2. CASE GraphFails(r)
      BY <3>2, MoveKeepsAnswers DEF GraphFails, GivingUp
    <3>3. CASE GraphReturns(r)
      <4>1. CASE At(r, {"saved"}, "ending")
        BY <3>3, <4>1, MoveKeepsAnswers DEF GraphReturns, At, Responsible, Settling, GivingUp, trip
      <4>2. CASE At(r, {"unmade"}, IF HasItinerary(r) THEN "settling" ELSE "ending")
        <5>1. PICK to \in {"settling", "ending"} : At(r, {"unmade"}, to)
          BY <4>2
        <5> QED
          BY <3>3, <5>1, MoveKeepsAnswers DEF GraphReturns, At, Responsible, Settling, GivingUp, trip
      <4>3. CASE At(r, {"planning"}, "settling")
        <5>1. Responsible(r)'
          BY <4>3 DEF At, TypeOK, Responsible, Settling
        <5> QED BY <3>3, <4>3, <5>1, MoveKeepsAnswers DEF GraphReturns, GivingUp, trip
      <4> QED BY <3>3, <4>1, <4>2, <4>3 DEF GraphReturns
    <3>4. CASE RunCrashes(r)
      <4>1. Responsible(r)'
        BY <3>4 DEF RunCrashes, At, TypeOK, Responsible, Settling
      <4> QED BY <3>4, <4>1, MoveKeepsAnswers DEF RunCrashes, GivingUp, trip
    <3> QED BY <2>3, <3>1, <3>2, <3>3, <3>4 DEF GraphStep
  <2>4. ASSUME NEW r \in Requests, EndStep(r) PROVE AnswerInv'
    <3>1. CASE SettleRead(r)
      <4>1. PICK to \in {"settleWrite", "ending"} :
              At(r, {"settling"}, to) /\ (status = "planning" => to = "settleWrite")
        BY <3>1 DEF SettleRead, AsThisRunLeftIt
      <4>2. to = "settleWrite" => Responsible(r)'
        BY <4>1 DEF At, TypeOK, Responsible, Settling
      <4> QED BY <3>1, <4>1, <4>2, MoveKeepsAnswers DEF SettleRead, GivingUp, trip
    <3>2. CASE SettleWrite(r)
      BY <3>2, MoveKeepsAnswers DEF SettleWrite, Fallback, GivingUp
    <3>3. CASE SettleAgain(r)
      <4>1. At(r, {"settleWrite"}, "settling")
        BY <3>3 DEF SettleAgain, GivesUp
      <4>2. Responsible(r)'
        BY <4>1 DEF At, TypeOK, Responsible, Settling
      <4> QED BY <3>3, <4>1, <4>2, MoveKeepsAnswers DEF SettleAgain, GivingUp, trip
    <3>4. CASE GiveUpRead(r)
      <4>1. PICK to \in {"giveUpWrite", "ending"} : At(r, {"givingUp"}, to)
        BY <3>4 DEF GiveUpRead
      <4>2. inst[host[r]] = "stopping"
        BY <4>1 DEF At, AnswerInv, GivenUpByStopping, GivingUp
      <4> QED BY <3>4, <4>1, <4>2, MoveKeepsAnswers DEF GiveUpRead, trip
    <3>5. CASE GiveUpWrite(r)
      <4>1. inst[host[r]] = "stopping"
        BY <3>5 DEF GiveUpWrite, At, AnswerInv, GivenUpByStopping, GivingUp
      <4> QED BY <3>5, <4>1, MoveKeepsAnswers DEF GiveUpWrite, Fallback
    <3>6. CASE End(r)
      BY <3>6, MoveKeepsAnswers DEF End, At, Responsible, Settling, GivingUp
    <3> QED BY <2>4, <3>1, <3>2, <3>3, <3>4, <3>5, <3>6 DEF EndStep
  <2>5. ASSUME NEW r \in Requests, CutHandler(r) PROVE AnswerInv'
    BY <2>5, MoveKeepsAnswers DEF CutHandler, GivingUp, trip
  <2>6. ASSUME NEW r \in Requests, Cancel(r) PROVE AnswerInv'
    <3>1. CASE At(r, InGraph, "givingUp")
      BY <2>6, <3>1, MoveKeepsAnswers DEF Cancel, trip
    <3>2. CASE At(r, Settling, "ending")
      BY <2>6, <3>2, MoveKeepsAnswers DEF Cancel, trip
    <3> QED BY <2>6, <3>1, <3>2 DEF Cancel
  <2>7. ASSUME NEW i \in Instances, Stop(i) \/ Exit(i) \/ Start(i) PROVE AnswerInv'
    <3>1. UNCHANGED <<status, pc, host>> /\ host \in [Requests -> Instances]
      BY <2>7 DEF Stop, Exit, Start, TypeOK, trip, runs
    <3>2. \A j \in Instances :
            inst[j] # "up" \/ recovery[j] # "none" => inst'[j] # "up" \/ recovery'[j] # "none"
      BY <2>7 DEF Stop, Exit, Start, TypeOK
    <3>3. NeverAbandoned'
      BY <3>1, <3>2 DEF AnswerInv, NeverAbandoned, Answered, Responsible
    <3>4. \A r \in Requests : pc[r] \in GivingUp => inst'[host[r]] = "stopping"
      <4> SUFFICES ASSUME NEW r \in Requests, pc[r] \in GivingUp PROVE inst'[host[r]] = "stopping"
        OBVIOUS
      <4>1. inst[host[r]] = "stopping" /\ r \in TasksOf(host[r])
        BY <3>1 DEF AnswerInv, GivenUpByStopping, TasksOf, Active, Alive
      <4> QED BY <2>7, <3>1, <4>1 DEF Stop, Exit, Start, Serving, TypeOK
    <3> QED BY <3>1, <3>3, <3>4 DEF AnswerInv, GivenUpByStopping
  <2>8. ASSUME NEW i \in Instances, Crash(i) PROVE AnswerInv'
    <3>1. /\ UNCHANGED <<status, host>> /\ host \in [Requests -> Instances]
          /\ inst'[i] = "down"
          /\ \A j \in Instances \ {i} : inst'[j] = inst[j] /\ recovery'[j] = recovery[j]
          /\ \A r \in Requests : pc'[r] = IF r \in TasksOf(i) THEN "dead" ELSE pc[r]
      BY <2>8 DEF Crash, TypeOK, trip
    <3>2. NeverAbandoned'
      <4> SUFFICES ASSUME status = "planning" PROVE \E q \in Requests : Answered(q)'
        BY <3>1 DEF NeverAbandoned
      <4>1. PICK q \in Requests : Answered(q)
        BY DEF AnswerInv, NeverAbandoned
      <4>2. CASE host[q] = i
        <5>1. pc'[q] # "idle"
          BY <3>1, <4>1 DEF Answered, Responsible, Settling, GivingUp
        <5> QED BY <3>1, <4>2, <5>1 DEF Answered
      <4>3. CASE host[q] # i
        BY <3>1, <4>1, <4>3 DEF Answered, Responsible, TasksOf
      <4> QED BY <4>2, <4>3
    <3>3. GivenUpByStopping'
      BY <3>1 DEF AnswerInv, GivenUpByStopping, TasksOf, Active, Alive, GivingUp
    <3> QED BY <3>2, <3>3 DEF AnswerInv
  <2>9. ASSUME NEW i \in Instances, RecoveryStep(i) PROVE AnswerInv'
    <3>1. UNCHANGED <<inst, pc, host>> /\ host \in [Requests -> Instances]
      BY <2>9 DEF RecoveryStep, LookAtTrips, AskForNotes, MarkInterrupted, Deferred, Recovers,
                  TypeOK, runs
    <3>2. status' = "planning" => status = "planning"
      BY <2>9 DEF RecoveryStep, LookAtTrips, AskForNotes, MarkInterrupted, Deferred
    <3>3. \/ recovery' = [recovery EXCEPT ![i] = "none"] /\ status' # "planning"
          \/ \E pass \in {"later", "watching", recovery[i]} :
               pass # "none" /\ recovery' = [recovery EXCEPT ![i] = pass]
      <4>1. CASE LookAtTrips(i)
        BY <4>1 DEF LookAtTrips, Deferred, Recovers
      <4>2. CASE AskForNotes(i)
        BY <4>2 DEF AskForNotes, WhenNoted, Recovers
      <4>3. CASE MarkInterrupted(i)
        BY <4>3 DEF MarkInterrupted, Deferred, Recovers
      <4> QED BY <2>9, <4>1, <4>2, <4>3 DEF RecoveryStep
    <3>4. status' = "planning" => \A j \in Instances : recovery[j] # "none" => recovery'[j] # "none"
      BY <3>3 DEF TypeOK
    <3> QED BY <3>1, <3>2, <3>4, RecoveryKeepsAnswers
  <2>10. ASSUME NEW r \in Requests, Reread(r) \/ Beat(r) PROVE AnswerInv'
    BY <2>10, RecoveryKeepsAnswers DEF Reread, Beat, TypeOK, trip, runs
  <2>11. ASSUME NoteExpires \/ ServiceGoes \/ DatabaseReturns \/ RedisReturns PROVE AnswerInv'
    BY <2>11, RecoveryKeepsAnswers
       DEF NoteExpires, ServiceGoes, DatabaseReturns, RedisReturns, TypeOK, trip, runs
  <2>12. ASSUME UNCHANGED vars PROVE AnswerInv'
    BY <2>12, RecoveryKeepsAnswers DEF vars, TypeOK, trip, runs
  <2> QED
    BY <2>1, <2>2, <2>3, <2>4, <2>5, <2>6, <2>7, <2>8, <2>9, <2>10, <2>11, <2>12 DEF Next
<1> QED BY <1>1, <1>2, TypeCorrect, PTL DEF Spec, SafetySpec

\* A trip that says "planning" always has a run, or a process that will recover it, to take it out of
\* that, as long as no database outage outlasts the time they give it.
THEOREM AlwaysAnswered == ~LongOutage => (Spec => []NeverAbandoned)
<1>1. AnswerInv => NeverAbandoned
  BY DEF AnswerInv
<1> QED BY <1>1, AnswersKept, PTL

-----------------------------------------------------------------------------
(* One server and a traveller who waits: one run at a time                 *)

\* There is one process of the backend, which comes and goes.
OneServer == \A i, j \in Instances : i = j

\* A process that is down runs nothing; one that is stopping was stopped.
FleetInv ==
  /\ \A r \in Requests : inst[host[r]] = "down" => pc[r] \notin Active
  /\ \A i \in Instances : inst[i] = "stopping" => stops > 0

\* What a handler or a run may rely on when nobody else writes the status.
Knows(r) ==
  /\ pc[r] = "checked" => status = seen[r] /\ status # "planning"
  /\ pc[r] \in {"marked", "planning", "giveUpWrite"} => status = "planning"
  /\ pc[r] = "saved" => status = "completed"
  /\ pc[r] = "unmade" => status = "failed"
  /\ pc[r] = "settleWrite" => status \in AsThisRunLeftIt(r)

\* One handler or run at a time, and no recovery beside it; a server that has yet to start for the first
\* time, or is looking at what there was before it, finds no trip that is "planning".
PatientInv ==
  patient =>
    /\ \A r, q \in Requests : pc[r] \in Active /\ pc[q] \in Active => r = q
    /\ \A r \in Requests : pc[r] \in Active => recovery[host[r]] = "none"
    /\ \A r \in Requests : Knows(r)
    /\ \A i \in Instances : stops = 0 /\ (inst[i] = "down" \/ recovery[i] # "none") => status = "pending"

\* A step of the one handler or run there is: the others are not there to be disturbed.
LEMMA OneMoves ==
  ASSUME OneServer, TypeOK, FleetInv, PatientInv, NEW r \in Requests, NEW from, from \subseteq Active, NEW to \in PCs,
         At(r, from, to), UNCHANGED <<inst, recovery, stops, host, patient, seen>>, patient => Knows(r)'
  PROVE  FleetInv' /\ PatientInv'
<1>1. /\ pc' = [pc EXCEPT ![r] = to] /\ pc[r] \in Active
      /\ pc \in [Requests -> PCs] /\ host \in [Requests -> Instances]
  BY DEF At, TypeOK
<1>2. FleetInv'
  BY <1>1 DEF FleetInv
<1>3. ASSUME patient PROVE PatientInv'
  <2>1. \A q \in Requests : q # r => pc[q] \notin Active /\ pc'[q] = pc[q]
    BY <1>1, <1>3 DEF PatientInv
  <2>2. \A i \in Instances : recovery[i] = "none" /\ inst[i] # "down"
    BY <1>1, <1>3 DEF PatientInv, FleetInv, OneServer
  <2>3. \A q \in Requests : Knows(q)'
    <3> SUFFICES ASSUME NEW q \in Requests, q # r PROVE Knows(q)'
      BY <1>3
    <3>1. pc'[q] \notin Active
      BY <2>1
    <3> QED BY <3>1 DEF Knows, Active, Handling, Alive, InGraph, Settling, GivingUp
  <2> QED BY <1>1, <2>1, <2>2, <2>3 DEF PatientInv
<1> QED BY <1>2, <1>3 DEF PatientInv

\* A step of the services, or of nobody.
LEMMA NobodyMoves ==
  ASSUME FleetInv, PatientInv, UNCHANGED <<status, fleet, runs>>
  PROVE  FleetInv' /\ PatientInv'
BY DEF FleetInv, PatientInv, Knows, AsThisRunLeftIt, HasItinerary, fleet, runs, given

\* The runs of a traveller who waits never overlap, nor does recovery overlap them.
LEMMA PatientKept == OneServer => (Spec => [](FleetInv /\ PatientInv))
<1> SUFFICES ASSUME OneServer PROVE Spec => [](FleetInv /\ PatientInv)
  OBVIOUS
<1>1. Init => FleetInv /\ PatientInv
  BY DEF Init, FleetInv, PatientInv, Knows, Active, Handling, Alive, InGraph, Settling, GivingUp
<1>2. TypeOK /\ FleetInv /\ PatientInv /\ [Next]_vars => FleetInv' /\ PatientInv'
  <2> SUFFICES ASSUME TypeOK, FleetInv, PatientInv, [Next]_vars PROVE FleetInv' /\ PatientInv'
    OBVIOUS
  <2>k. \A r \in Requests : pc[r] \in Active => (patient => Knows(r))
    BY DEF PatientInv
  <2>0. /\ InGraph \subseteq Active /\ Settling \subseteq Active /\ Handling \subseteq Active
        /\ {"checked", "marked", "planning", "saved", "unmade", "settling", "settleWrite", "givingUp",
            "giveUpWrite", "ending"} \subseteq Active
    BY DEF Active, Handling, Alive, InGraph, Settling, GivingUp
  <2>1. ASSUME NEW r \in Requests, Receive(r) PROVE FleetInv' /\ PatientInv'
    <3>1. PICK to \in {"refused", "checked"} : pc' = [pc EXCEPT ![r] = to] /\ (status = "planning" => to = "refused")
      BY <2>1 DEF Receive, TurnsAway
    <3>2. /\ pc[r] = "idle" /\ inst[host[r]] = "up" /\ (patient => Undisturbed)
          /\ UNCHANGED <<status, inst, recovery, stops, host, patient>>
          /\ seen' = [seen EXCEPT ![r] = status]
      BY <2>1 DEF Receive, Serving, trip, fleet, given
    <3>3. \A q \in Requests : pc'[q] = IF q = r THEN to ELSE pc[q]
      BY <3>1 DEF TypeOK
    <3>4. FleetInv'
      BY <3>2, <3>3 DEF FleetInv
    <3>5. ASSUME patient PROVE PatientInv'
      <4>1. \A q \in Requests : pc[q] \in Active => pc[q] = "planning" /\ status = "planning"
        BY <3>2, <3>5 DEF Undisturbed, Active, Handling, Tail, Alive, InGraph, Settling, GivingUp, PatientInv, Knows
      <4>2. "refused" \notin Active /\ "idle" \notin Active
        BY DEF Active, Handling, Alive, InGraph, Settling, GivingUp
      <4>3. \A q, p \in Requests : pc'[q] \in Active /\ pc'[p] \in Active => q = p
        BY <3>1, <3>3, <3>5, <4>1, <4>2 DEF PatientInv
      <4>4. \A q \in Requests : pc'[q] \in Active => recovery'[host'[q]] = "none"
        BY <3>2, <3>5 DEF Undisturbed, TypeOK
      <4>5. \A q \in Requests : Knows(q)'
        <5>1. Knows(r)'
          BY <3>1, <3>2, <3>3 DEF Knows, TypeOK
        <5>2. ASSUME NEW q \in Requests, q # r, pc[q] \in Active PROVE Knows(q)'
          BY <3>2, <3>3, <4>1, <5>2 DEF Knows
        <5>3. ASSUME NEW q \in Requests, q # r, pc[q] \notin Active PROVE Knows(q)'
          <6>1. pc'[q] \notin Active
            BY <3>3, <5>3
          <6> QED BY <6>1 DEF Knows, Active, Handling, Alive, InGraph, Settling, GivingUp
        <5> QED BY <5>1, <5>2, <5>3
      <4> QED BY <3>2, <3>5, <4>3, <4>4, <4>5 DEF PatientInv
    <3> QED BY <3>2, <3>4, <3>5 DEF PatientInv
  <2>2. ASSUME NEW r \in Requests, Reread(r) PROVE FleetInv' /\ PatientInv'
    <3>1. /\ UNCHANGED <<status, fleet, pc, given>> /\ seen' = [seen EXCEPT ![r] = status]
          /\ pc[r] = "checked" /\ pc[r] \in Active
      BY <2>2, <2>0 DEF Reread, trip
    <3>2. FleetInv'
      BY <3>1 DEF FleetInv, fleet, given
    <3>3. ASSUME patient PROVE \A q \in Requests : Knows(q)'
      <4>1. Knows(r)'
        BY <3>1, <3>3 DEF Knows, PatientInv, TypeOK
      <4>2. ASSUME NEW q \in Requests, q # r PROVE Knows(q)'
        <5>1. pc[q] \notin Active /\ pc'[q] = pc[q]
          BY <3>1, <3>3, <4>2 DEF PatientInv
        <5> QED BY <5>1 DEF Knows, Active, Handling, Alive, InGraph, Settling, GivingUp
      <4> QED BY <4>1, <4>2
    <3> QED BY <3>1, <3>2, <3>3 DEF PatientInv, fleet, given
  <2>3. ASSUME NEW r \in Requests, HandlerStep(r) PROVE FleetInv' /\ PatientInv'
    <3> USE <2>0, AllPCs DEF fleet, given
    <3>1. CASE TurnBack(r)
      <4>1. Knows(r)'
        BY <3>1 DEF TurnBack, At, TypeOK, Knows
      <4> QED BY <3>1, <4>1, OneMoves DEF TurnBack
    <3>2. CASE StartRun(r)
      <4>1. Knows(r)'
        BY <3>2 DEF StartRun, At, TypeOK, Knows
      <4> QED BY <3>2, <4>1, OneMoves DEF StartRun
    <3>3. CASE NoteRun(r)
      <4>1. patient => Knows(r)'
        BY <3>3, <2>k DEF NoteRun, AfterNote, At, TypeOK, Knows
      <4> QED BY <3>3, <4>1, OneMoves DEF NoteRun, AfterNote
    <3> QED BY <2>3, <3>1, <3>2, <3>3 DEF HandlerStep
  <2>4. ASSUME NEW r \in Requests, GraphStep(r) PROVE FleetInv' /\ PatientInv'
    <3> USE <2>0, AllPCs DEF fleet, given
    <3>1. CASE Save(r)
      <4>1. Knows(r)'
        BY <3>1 DEF Save, At, TypeOK, Knows
      <4> QED BY <3>1, <4>1, OneMoves DEF Save
    <3>2. CASE GraphFails(r)
      <4>1. Knows(r)'
        BY <3>2 DEF GraphFails, At, TypeOK, Knows
      <4> QED BY <3>2, <4>1, OneMoves DEF GraphFails
    <3>3. CASE GraphReturns(r)
      <4>1. PICK to \in {"settling", "ending"} : At(r, InGraph, to)
        BY <3>3 DEF GraphReturns, At, InGraph
      <4>2. Knows(r)'
        BY <4>1 DEF At, TypeOK, Knows
      <4> QED BY <3>3, <4>1, <4>2, OneMoves DEF GraphReturns
    <3>4. CASE RunCrashes(r)
      <4>1. Knows(r)'
        BY <3>4 DEF RunCrashes, At, TypeOK, Knows
      <4> QED BY <3>4, <4>1, OneMoves DEF RunCrashes
    <3> QED BY <2>4, <3>1, <3>2, <3>3, <3>4 DEF GraphStep
  <2>5. ASSUME NEW r \in Requests, EndStep(r) PROVE FleetInv' /\ PatientInv'
    <3> USE <2>0, AllPCs DEF fleet, given
    <3>1. CASE SettleRead(r)
      <4>1. PICK to \in {"settleWrite", "ending"} :
              At(r, {"settling"}, to) /\ (to = "settleWrite" => status \in AsThisRunLeftIt(r))
        BY <3>1 DEF SettleRead
      <4>2. Knows(r)'
        BY <3>1, <4>1 DEF SettleRead, At, TypeOK, Knows, AsThisRunLeftIt, HasItinerary, trip
      <4> QED BY <3>1, <4>1, <4>2, OneMoves DEF SettleRead
    <3>2. CASE SettleWrite(r) \/ End(r) \/ SettleAgain(r) \/ GiveUpWrite(r)
      <4>1. PICK to \in {"settling", "ending", "done"}, from \in SUBSET Active : At(r, from, to)
        BY <3>2 DEF SettleWrite, End, SettleAgain, GiveUpWrite
      <4>2. Knows(r)'
        BY <4>1 DEF At, TypeOK, Knows
      <4>3. UNCHANGED <<fleet, given, seen>>
        BY <3>2 DEF SettleWrite, End, SettleAgain, GiveUpWrite
      <4> QED BY <4>1, <4>2, <4>3, OneMoves
    <3>3. CASE GiveUpRead(r)
      <4>1. PICK to \in {"giveUpWrite", "ending"} :
              At(r, {"givingUp"}, to) /\ (to = "giveUpWrite" => status = "planning")
        BY <3>3 DEF GiveUpRead
      <4>2. Knows(r)'
        BY <3>3, <4>1 DEF GiveUpRead, At, TypeOK, Knows, trip
      <4> QED BY <3>3, <4>1, <4>2, OneMoves DEF GiveUpRead
    <3> QED BY <2>5, <3>1, <3>2, <3>3 DEF EndStep
  <2>6. ASSUME NEW r \in Requests, CutHandler(r) \/ Cancel(r) PROVE FleetInv' /\ PatientInv'
    <3>1. PICK to \in {"dead", "givingUp", "ending"}, from \in SUBSET Active : At(r, from, to)
      BY <2>6, <2>0 DEF CutHandler, Cancel
    <3>2. Knows(r)'
      BY <3>1 DEF At, TypeOK, Knows
    <3> QED BY <2>6, <3>1, <3>2, OneMoves, AllPCs DEF CutHandler, Cancel, fleet, given
  <2>7. ASSUME NEW i \in Instances, Stop(i) PROVE FleetInv' /\ PatientInv'
    <3>1. /\ UNCHANGED <<status, recovery, pc, seen, host, patient>>
          /\ inst' = [inst EXCEPT ![i] = "stopping"] /\ inst[i] = "up" /\ stops' > 0
      BY <2>7 DEF Stop, Serving, TypeOK, trip, runs, given
    <3>2. FleetInv'
      BY <3>1 DEF FleetInv, TypeOK
    <3>3. PatientInv'
      BY <3>1 DEF PatientInv, Knows, AsThisRunLeftIt, HasItinerary, TypeOK
    <3> QED BY <3>2, <3>3
  <2>8. ASSUME NEW i \in Instances, Exit(i) \/ Crash(i) PROVE FleetInv' /\ PatientInv'
    <3>1. /\ \A r \in Requests : host[r] = i /\ pc'[r] \notin Active
          /\ \A j \in Instances : inst'[j] = "down"
          /\ stops' > 0
      <4>1. \A r \in Requests : host[r] = i
        BY DEF OneServer, TypeOK
      <4>2. CASE Exit(i)
        BY <4>1, <4>2 DEF Exit, TasksOf, runs, FleetInv, OneServer, TypeOK
      <4>3. CASE Crash(i)
        <5>1. "dead" \notin Active
          BY DEF Active, Handling, Alive, InGraph, Settling, GivingUp
        <5> QED BY <4>1, <4>3, <5>1 DEF Crash, TasksOf, OneServer, TypeOK
      <4> QED BY <2>8, <4>2, <4>3
    <3>2. FleetInv'
      BY <3>1 DEF FleetInv
    <3>3. \A r \in Requests : Knows(r)'
      BY <3>1 DEF Knows, Active, Handling, Alive, InGraph, Settling, GivingUp
    <3> QED BY <3>1, <3>2, <3>3 DEF PatientInv
  <2>9. ASSUME NEW i \in Instances, Start(i) PROVE FleetInv' /\ PatientInv'
    <3>1. /\ UNCHANGED <<status, stops, pc, seen, host, patient>>
          /\ inst[i] = "down" /\ \A j \in Instances : inst'[j] = "up"
      BY <2>9 DEF Start, OneServer, TypeOK, trip, runs, given
    <3>2. \A r \in Requests : pc'[r] \notin Active
      BY <3>1 DEF FleetInv, OneServer, TypeOK
    <3>3. \A r \in Requests : Knows(r)'
      BY <3>2 DEF Knows, Active, Handling, Alive, InGraph, Settling, GivingUp
    <3>4. patient => (stops' = 0 => status' = "pending")
      BY <3>1 DEF PatientInv
    <3> QED BY <3>1, <3>2, <3>3, <3>4 DEF FleetInv, PatientInv
  <2>10. ASSUME NEW i \in Instances, RecoveryStep(i) PROVE FleetInv' /\ PatientInv'
    <3>1. recovery[i] # "none" /\ UNCHANGED <<inst, stops, pc, seen, host, patient>>
      BY <2>10 DEF RecoveryStep, LookAtTrips, AskForNotes, MarkInterrupted, Deferred, Recovers, runs, given
    <3>2. FleetInv'
      BY <3>1 DEF FleetInv
    <3>3. ASSUME patient PROVE PatientInv'
      <4>1. \A r \in Requests : pc'[r] \notin Active
        BY <3>1, <3>3 DEF PatientInv, OneServer, TypeOK
      <4>2. \A r \in Requests : Knows(r)'
        BY <4>1 DEF Knows, Active, Handling, Alive, InGraph, Settling, GivingUp
      <4>3. status # "planning" => status' = status
        BY <2>10 DEF RecoveryStep, LookAtTrips, AskForNotes, MarkInterrupted, Deferred
      <4>4. stops = 0 => status' = "pending"
        BY <3>1, <3>3, <4>3 DEF PatientInv
      <4> QED BY <3>1, <4>1, <4>2, <4>4 DEF PatientInv
    <3> QED BY <3>1, <3>2, <3>3 DEF PatientInv
  <2>11. ASSUME NEW r \in Requests, Beat(r) PROVE FleetInv' /\ PatientInv'
    BY <2>11, NobodyMoves DEF Beat
  <2>12. ASSUME NoteExpires \/ ServiceGoes \/ DatabaseReturns \/ RedisReturns PROVE FleetInv' /\ PatientInv'
    BY <2>12, NobodyMoves DEF NoteExpires, ServiceGoes, DatabaseReturns, RedisReturns, trip
  <2>13. ASSUME UNCHANGED vars PROVE FleetInv' /\ PatientInv'
    BY <2>13, NobodyMoves DEF vars, trip
  <2> QED
    BY <2>1, <2>2, <2>3, <2>4, <2>5, <2>6, <2>7, <2>8, <2>9, <2>10, <2>11, <2>12, <2>13 DEF Next
<1> QED BY <1>1, <1>2, TypeCorrect, PTL DEF Spec, SafetySpec

\* On one server, the runs of a traveller who waits for an answer never overlap: restarts, outages
\* and runs that are cut short included, _ensure_not_planning's 409 is enough.
THEOREM OnlyOneRun == OneServer => (Spec => []OneRunForThePatient)
<1>1. PatientInv => OneRunForThePatient
  BY DEF PatientInv, OneRunForThePatient, OneRunAtATime, Active
<1> QED BY <1>1, PatientKept, PTL

\* Only these steps let go of the note: the end of a run, the end of its time, and a Redis that forgets.
LEMMA WhoForgetsTheNote ==
  ASSUME [Next]_vars, note # NoNote, note' = NoNote
  PROVE  (\E r \in Requests : End(r)) \/ NoteExpires \/ RedisReturns
<1>1. ASSUME NEW r \in Requests, Receive(r) \/ Reread(r) \/ HandlerStep(r) \/ Beat(r) \/ GraphStep(r)
                                 \/ CutHandler(r) \/ Cancel(r)
      PROVE  note' # NoNote
  BY <1>1, ConstantsAssumption
     DEF Receive, Reread, HandlerStep, TurnBack, StartRun, NoteRun, Beat, GraphStep, Save, GraphFails,
         GraphReturns, RunCrashes, NoteAfterCrash, CutHandler, Cancel, trip
<1>2. ASSUME NEW r \in Requests, EndStep(r) PROVE note' # NoNote \/ End(r)
  BY <1>2 DEF EndStep, SettleRead, SettleWrite, SettleAgain, GiveUpRead, GiveUpWrite, trip
<1>3. ASSUME NEW i \in Instances, Stop(i) \/ Exit(i) \/ Crash(i) \/ Start(i) \/ RecoveryStep(i) PROVE note' # NoNote
  BY <1>3 DEF Stop, Exit, Crash, Start, RecoveryStep, LookAtTrips, AskForNotes, MarkInterrupted, Deferred,
              Recovers, trip
<1>4. ASSUME ServiceGoes \/ DatabaseReturns \/ UNCHANGED vars PROVE note' # NoNote
  BY <1>4 DEF ServiceGoes, DatabaseReturns, vars, trip
<1> QED BY <1>1, <1>2, <1>3, <1>4 DEF Next

\* On one server, and for a traveller who waits, a note is gone only when no run is alive that it could
\* have stood for, or when Redis itself lost it: what start-up recovery makes of a note is right.
THEOREM NoteStandsForItsRun == OneServer => (Spec => NoteOutlivesItsRun)
<1> SUFFICES ASSUME OneServer PROVE Spec => NoteOutlivesItsRun
  OBVIOUS
<1> DEFINE Forgotten == patient /\ note # NoNote /\ note' = NoNote /\ redisUp
<1>1. ASSUME TypeOK, PatientInv, [Next]_vars, Forgotten PROVE \A r \in Requests : pc'[r] \notin Alive
  <2>1. ASSUME NEW r \in Requests, End(r) PROVE \A q \in Requests : pc'[q] \notin Alive
    <3>1. pc' = [pc EXCEPT ![r] = "done"] /\ pc[r] \in Active
      BY <2>1 DEF End, At, Active
    <3>2. \A q \in Requests : q # r => pc[q] \notin Active
      BY <1>1, <3>1 DEF PatientInv
    <3>3. "done" \notin Alive
      BY DEF Alive, InGraph, Settling, GivingUp
    <3> QED BY <1>1, <3>1, <3>2, <3>3 DEF TypeOK, Active
  <2>2. NoteExpires => \A q \in Requests : pc'[q] \notin Alive
    BY <1>1 DEF NoteExpires, runs
  <2>3. ~RedisReturns
    BY <1>1 DEF RedisReturns
  <2> QED BY <1>1, <2>1, <2>2, <2>3, WhoForgetsTheNote
<1>2. TypeOK /\ PatientInv /\ [Next]_vars => [Forgotten => \A r \in Requests : pc'[r] \notin Alive]_vars
  BY <1>1
<1> QED BY <1>2, TypeCorrect, PatientKept, PTL DEF Spec, SafetySpec, NoteOutlivesItsRun

-----------------------------------------------------------------------------
(* The runs of one server implement TripLifecycle                          *)

\* The one run r is putting right a trip that its graph has marked as failed; r's end is still to come,
\* and it has an earlier plan to fall back on.
PutRightBy(r) == status = "failed" /\ HasItinerary(r) /\ pc[r] \in {"unmade"} \cup Settling
StandsFor(r) == HasItinerary(r) /\ (Responsible(r) \/ pc[r] = "unmade")

\* A step that the traveller does not see.
LEMMA Unseen ==
  ASSUME patient, patient' = patient, Shown' = Shown, itineraries' = itineraries,
         Standing' <=> Standing, stops' = stops
  PROVE  [Lifecycle!Next]_(Lifecycle!vars)
<1>1. (patient' /\ Standing') = (patient /\ Standing)
  OBVIOUS
<1> QED BY <1>1 DEF Lifecycle!vars

\* A run begins.
LEMMA BeginsRun ==
  ASSUME patient, patient' = patient, Shown # "planning", Shown' = "planning", itineraries' = itineraries,
         Standing' <=> Shown = "completed", stops' = stops
  PROVE  [Lifecycle!Next]_(Lifecycle!vars)
<1>1. (patient' /\ Standing') = (Shown = "completed")
  OBVIOUS
<1> QED BY <1>1 DEF Lifecycle!Next, Lifecycle!Begin

\* A run ends with a plan made, with the earlier plan standing, or with none.
LEMMA EndsRun ==
  ASSUME patient, patient' = patient, Shown = "planning", ~Standing', stops' = stops,
         \/ Shown' = "completed" /\ itineraries' = itineraries + 1
         \/ Standing /\ Shown' = "completed" /\ itineraries' = itineraries
         \/ ~Standing /\ Shown' = "failed" /\ itineraries' = itineraries
  PROVE  [Lifecycle!Next]_(Lifecycle!vars)
<1>1. (patient' /\ Standing') = FALSE /\ (patient' /\ stops' > 0) = (patient /\ stops > 0)
  OBVIOUS
<1>2. Lifecycle!Ends
  BY <1>1 DEF Lifecycle!Ends
<1>3. Lifecycle!MakePlan \/ Lifecycle!FallBack \/ Lifecycle!Fail
  BY <1>2 DEF Lifecycle!MakePlan, Lifecycle!FallBack, Lifecycle!Fail
<1> QED BY <1>3 DEF Lifecycle!Next

\* A server that stops, or stopped, takes a run with it and the trip is shown as before.
LEMMA StopsRun ==
  ASSUME patient, patient' = patient, Shown' = Shown, itineraries' = itineraries,
         ~Standing' \/ (Standing' <=> Standing), stops' > 0
  PROVE  [Lifecycle!Next]_(Lifecycle!vars)
<1>1. (patient' /\ stops' > 0) = TRUE
  OBVIOUS
<1>2. (patient' /\ Standing') \in {patient /\ Standing, FALSE}
  OBVIOUS
<1> QED BY <1>1, <1>2 DEF Lifecycle!Next, Lifecycle!Interrupt

\* ... or shows what is left of it.
LEMMA CutsRunShort ==
  ASSUME patient, patient' = patient, Shown = "planning", itineraries' = itineraries, ~Standing', stops' > 0,
         Shown' = "failed" \/ (Shown' = "completed" /\ itineraries > 0)
  PROVE  [Lifecycle!Next]_(Lifecycle!vars)
<1>1. (patient' /\ stops' > 0) = TRUE /\ (patient' /\ Standing') = FALSE
  OBVIOUS
<1> QED BY <1>1 DEF Lifecycle!Next, Lifecycle!CutShort

\* Where r is the only run, what the traveller is shown is up to r, before and after its step.
LEMMA UpToOne ==
  ASSUME TypeOK, PatientInv, patient, NEW r \in Requests, pc[r] \in Active,
         NEW to, pc' = [pc EXCEPT ![r] = to], UNCHANGED seen
  PROVE  /\ Shown = IF PutRightBy(r) THEN "planning" ELSE status
         /\ Shown' = IF PutRightBy(r)' THEN "planning" ELSE status'
         /\ Standing <=> Shown = "planning" /\ StandsFor(r)
         /\ Standing' <=> Shown' = "planning" /\ StandsFor(r)'
<1>1. \A q \in Requests : q # r => pc[q] \notin Active /\ pc'[q] = pc[q]
  BY DEF PatientInv, TypeOK
<1>2. \A q \in Requests : q # r => pc[q] \notin {"marked", "planning", "unmade"} \cup Settling \cup GivingUp
  BY <1>1 DEF Active, Handling, Alive, InGraph
<1>3. BeingPutRight <=> PutRightBy(r)
  BY <1>2 DEF BeingPutRight, PutRightBy
<1>4. BeingPutRight' <=> PutRightBy(r)'
  BY <1>1, <1>2 DEF BeingPutRight, PutRightBy
<1>5. (\E q \in Requests : HasItinerary(q) /\ (Responsible(q) \/ pc[q] = "unmade")) <=> StandsFor(r)
  BY <1>2 DEF StandsFor, Responsible
<1>6. (\E q \in Requests : HasItinerary(q) /\ (Responsible(q) \/ pc[q] = "unmade"))' <=> StandsFor(r)'
  BY <1>1, <1>2 DEF StandsFor, Responsible
<1> QED BY <1>3, <1>4, <1>5, <1>6 DEF Shown, Standing

\* A step of nobody's run leaves what is shown alone.
LEMMA ShownStands ==
  ASSUME UNCHANGED <<status, pc, seen>>
  PROVE  Shown' = Shown /\ (Standing' <=> Standing)
BY DEF Shown, Standing, BeingPutRight, Responsible, HasItinerary

Invariants == TypeOK /\ PlanInv /\ AnswerInv /\ FleetInv /\ PatientInv

\* Every step of the handler, the graph and the end of a run is a step of the abstract specification.
LEMMA RunStepsKeepThePromise ==
  ASSUME ~LongOutage, Invariants, patient, NEW r \in Requests,
         Reread(r) \/ HandlerStep(r) \/ GraphStep(r) \/ EndStep(r) \/ CutHandler(r) \/ Cancel(r)
  PROVE  [Lifecycle!Next]_(Lifecycle!vars)
<1> DEFINE Promised == [Lifecycle!Next]_(Lifecycle!vars)
<1>0. /\ TypeOK /\ PatientInv /\ Knows(r) /\ stops \in Nat /\ itineraries \in Nat
      /\ inst[host[r]] = "stopping" => stops > 0
      /\ HasItinerary(r) => itineraries > 0
      /\ pc[r] \in GivingUp => stops > 0
  BY ConstantsAssumption
     DEF Invariants, PatientInv, FleetInv, PlanInv, PlanBehindSeen, AnswerInv, GivenUpByStopping, TypeOK
<1>1. ASSUME NEW from, from \subseteq Active, NEW to, At(r, from, to), UNCHANGED seen
      PROVE  /\ Shown = IF PutRightBy(r) THEN "planning" ELSE status
             /\ Shown' = IF PutRightBy(r)' THEN "planning" ELSE status'
             /\ Standing <=> Shown = "planning" /\ StandsFor(r)
             /\ Standing' <=> Shown' = "planning" /\ StandsFor(r)'
             /\ pc[r] \in from /\ pc'[r] = to /\ (HasItinerary(r)' <=> HasItinerary(r))
  <2>1. pc[r] \in Active /\ pc' = [pc EXCEPT ![r] = to] /\ pc \in [Requests -> PCs]
    BY <1>0, <1>1 DEF At, TypeOK
  <2>2. HasItinerary(r)' <=> HasItinerary(r)
    BY <1>1 DEF HasItinerary
  <2>3. /\ Shown = IF PutRightBy(r) THEN "planning" ELSE status
        /\ Shown' = IF PutRightBy(r)' THEN "planning" ELSE status'
        /\ Standing <=> Shown = "planning" /\ StandsFor(r)
        /\ Standing' <=> Shown' = "planning" /\ StandsFor(r)'
    BY <1>0, <1>1, <2>1, UpToOne
  <2>4. pc[r] \in from /\ pc'[r] = to
    BY <1>1, <2>1 DEF At
  <2> QED BY <2>2, <2>3, <2>4
<1>2. {"checked", "marked", "planning", "saved", "unmade", "settling", "settleWrite", "givingUp",
       "giveUpWrite", "ending"} \subseteq Active
      /\ InGraph \subseteq Active /\ Settling \subseteq Active /\ Handling \subseteq Active
  BY DEF Active, Handling, Alive, InGraph, Settling, GivingUp
<1> USE DEF PutRightBy, StandsFor, Responsible, Settling, GivingUp, fleet, given
<1>3. ASSUME Reread(r) PROVE Promised
  <2>1. \A q \in Requests : q # r => pc[q] \notin Active
    BY <1>0, <1>2, <1>3 DEF Reread, PatientInv
  <2>2. \A q \in Requests : pc[q] \notin {"marked", "planning", "unmade"} \cup Settling \cup GivingUp
    BY <1>3, <2>1 DEF Reread, Active, Handling, Alive, InGraph
  <2>3. Shown = status /\ Shown' = status' /\ ~Standing /\ ~Standing'
    BY <1>3, <2>2 DEF Reread, Shown, Standing, BeingPutRight
  <2> QED BY <1>3, <2>3, Unseen DEF Reread, trip
<1>4. ASSUME TurnBack(r) PROVE Promised
  <2>1. At(r, {"checked"}, "refused") /\ UNCHANGED <<trip, stops, seen, patient>>
    BY <1>4 DEF TurnBack
  <2> QED BY <1>1, <1>2, <2>1, Unseen DEF trip
<1>5. ASSUME StartRun(r) PROVE Promised
  <2>1. At(r, {"checked"}, "marked") /\ status' = "planning" /\ UNCHANGED <<itineraries, stops, seen, patient>>
    BY <1>5 DEF StartRun
  <2>2. pc[r] = "checked" /\ status = seen[r] /\ status # "planning"
    BY <1>0, <2>1 DEF At, Knows
  <2>3. Shown = status /\ Shown' = "planning" /\ (Standing' <=> HasItinerary(r))
    BY <1>1, <1>2, <2>1, <2>2
  <2>4. HasItinerary(r) <=> Shown = "completed"
    BY <2>2, <2>3 DEF HasItinerary
  <2> QED BY <2>1, <2>2, <2>3, <2>4, BeginsRun
<1>6. ASSUME NoteRun(r) PROVE Promised
  <2>1. At(r, {"marked"}, "planning") /\ UNCHANGED <<status, itineraries, stops, seen, patient>>
    BY <1>6 DEF NoteRun, AfterNote
  <2> QED BY <1>1, <1>2, <2>1, Unseen
<1>7. ASSUME Save(r) PROVE Promised
  <2>1. /\ At(r, {"planning"}, "saved") /\ status' = "completed" /\ itineraries' = itineraries + 1
        /\ UNCHANGED <<stops, seen, patient>>
    BY <1>7 DEF Save
  <2>2. status = "planning"
    BY <1>0, <2>1 DEF At, Knows
  <2> QED BY <1>1, <1>2, <2>1, <2>2, EndsRun
<1>8. ASSUME GraphFails(r) PROVE Promised
  <2>1. /\ At(r, {"planning"}, "unmade") /\ status' = "failed"
        /\ UNCHANGED <<itineraries, stops, seen, patient>>
    BY <1>8 DEF GraphFails
  <2>2. status = "planning"
    BY <1>0, <2>1 DEF At, Knows
  <2>3. CASE HasItinerary(r)
    BY <1>1, <1>2, <2>1, <2>2, <2>3, Unseen
  <2>4. CASE ~HasItinerary(r)
    BY <1>1, <1>2, <2>1, <2>2, <2>4, EndsRun
  <2> QED BY <2>3, <2>4
<1>9. ASSUME GraphReturns(r) PROVE Promised
  <2>1. UNCHANGED <<status, itineraries, stops, seen, patient>>
    BY <1>9 DEF GraphReturns, trip
  <2>2. CASE At(r, {"saved"}, "ending")
    <3>1. status = "completed"
      BY <1>0, <2>2 DEF At, Knows
    <3> QED BY <1>1, <1>2, <2>1, <2>2, <3>1, Unseen
  <2>3. CASE At(r, {"unmade"}, IF HasItinerary(r) THEN "settling" ELSE "ending")
    <3>1. status = "failed"
      BY <1>0, <2>3 DEF At, Knows
    <3>2. CASE HasItinerary(r)
      BY <1>1, <1>2, <2>1, <2>3, <3>1, <3>2, Unseen
    <3>3. CASE ~HasItinerary(r)
      BY <1>1, <1>2, <2>1, <2>3, <3>1, <3>3, Unseen
    <3> QED BY <3>2, <3>3
  <2>4. CASE At(r, {"planning"}, "settling")
    <3>1. status = "planning"
      BY <1>0, <2>4 DEF At, Knows
    <3> QED BY <1>1, <1>2, <2>1, <2>4, <3>1, Unseen
  <2> QED BY <1>9, <2>2, <2>3, <2>4 DEF GraphReturns
<1>10. ASSUME RunCrashes(r) PROVE Promised
  <2>1. At(r, InGraph, "settling") /\ UNCHANGED <<status, itineraries, stops, seen, patient>>
    BY <1>10 DEF RunCrashes
  <2>2. \/ pc[r] = "planning" /\ status = "planning"
        \/ pc[r] = "saved" /\ status = "completed"
        \/ pc[r] = "unmade" /\ status = "failed"
    BY <1>0, <2>1 DEF At, Knows, InGraph
  <2> QED BY <1>1, <1>2, <2>1, <2>2, Unseen
<1>11. ASSUME SettleRead(r) PROVE Promised
  <2>1. /\ At(r, {"settling"}, IF status \in AsThisRunLeftIt(r) THEN "settleWrite" ELSE "ending")
        /\ UNCHANGED <<status, itineraries, stops, seen, patient>>
    BY <1>11 DEF SettleRead, trip
  <2>2. CASE status \in AsThisRunLeftIt(r)
    BY <1>1, <1>2, <2>1, <2>2, Unseen
  <2>3. CASE status \notin AsThisRunLeftIt(r)
    <3>1. status # "planning" /\ ~(status = "failed" /\ HasItinerary(r))
      BY <2>3 DEF AsThisRunLeftIt
    <3>2. At(r, {"settling"}, "ending")
      BY <2>1, <2>3
    <3>3. Shown = status /\ Shown' = status /\ ~Standing /\ ~Standing'
      BY <1>1, <1>2, <2>1, <3>1, <3>2
    <3> QED BY <2>1, <3>3, Unseen
  <2> QED BY <2>2, <2>3
<1>12. ASSUME SettleWrite(r) PROVE Promised
  <2>1. /\ At(r, {"settleWrite"}, "ending") /\ status' = Fallback(r)
        /\ UNCHANGED <<itineraries, stops, seen, patient>>
    BY <1>12 DEF SettleWrite
  <2>2. status = "planning" \/ (status = "failed" /\ HasItinerary(r))
    BY <1>0, <2>1 DEF At, Knows, AsThisRunLeftIt
  <2>3. CASE HasItinerary(r)
    BY <1>1, <1>2, <2>1, <2>2, <2>3, EndsRun DEF Fallback
  <2>4. CASE ~HasItinerary(r)
    BY <1>1, <1>2, <2>1, <2>2, <2>4, EndsRun DEF Fallback
  <2> QED BY <2>3, <2>4
<1>13. ASSUME SettleAgain(r) PROVE Promised
  <2>1. At(r, {"settleWrite"}, "settling") /\ UNCHANGED <<status, itineraries, stops, seen, patient>>
    BY <1>13 DEF SettleAgain, GivesUp, trip
  <2> QED BY <1>1, <1>2, <2>1, Unseen
<1>14. ASSUME GiveUpRead(r) PROVE Promised
  <2>1. PICK to \in {"giveUpWrite", "ending"} : At(r, {"givingUp"}, to)
    BY <1>14 DEF GiveUpRead
  <2>2. UNCHANGED <<status, itineraries, stops, seen, patient>>
    BY <1>14 DEF GiveUpRead, trip
  <2>3. stops > 0
    BY <1>0, <2>1 DEF At
  <2>4. CASE to = "giveUpWrite"
    BY <1>1, <1>2, <2>1, <2>2, <2>3, <2>4, StopsRun
  <2>5. CASE to = "ending"
    <3>1. At(r, {"givingUp"}, "ending")
      BY <2>1, <2>5
    <3>2. pc[r] = "givingUp" /\ pc'[r] = "ending"
      BY <1>0, <3>1 DEF At, TypeOK
    <3>3. ~PutRightBy(r) /\ ~PutRightBy(r)' /\ ~StandsFor(r)'
      BY <3>2
    <3>4. ~Standing' /\ Shown' = Shown
      BY <1>1, <1>2, <2>2, <3>1, <3>3
    <3> QED BY <2>2, <2>3, <3>4, StopsRun
  <2> QED BY <2>1, <2>4, <2>5
<1>15. ASSUME GiveUpWrite(r) PROVE Promised
  <2>1. /\ At(r, {"giveUpWrite"}, "ending") /\ status' = IF dbUp THEN Fallback(r) ELSE status
        /\ UNCHANGED <<itineraries, stops, seen, patient>>
    BY <1>15 DEF GiveUpWrite
  <2>2. stops > 0 /\ status = "planning"
    BY <1>0, <2>1 DEF At, Knows
  <2>3. CASE dbUp
    <3>1. status' = "failed" \/ (status' = "completed" /\ itineraries > 0)
      BY <1>0, <2>1, <2>3 DEF Fallback
    <3>2. pc[r] = "giveUpWrite" /\ pc'[r] = "ending"
      BY <1>0, <2>1 DEF At, TypeOK
    <3>3. ~PutRightBy(r) /\ ~PutRightBy(r)' /\ ~StandsFor(r)'
      BY <3>2
    <3>4. Shown = "planning" /\ Shown' = status' /\ ~Standing'
      BY <1>1, <1>2, <2>1, <2>2, <3>3
    <3> QED BY <2>1, <2>2, <3>1, <3>4, CutsRunShort
  <2>4. CASE ~dbUp
    BY <1>1, <1>2, <2>1, <2>2, <2>4, StopsRun
  <2> QED BY <2>3, <2>4
<1>16. ASSUME End(r) PROVE Promised
  <2>1. At(r, {"ending"}, "done") /\ UNCHANGED <<status, itineraries, stops, seen, patient>>
    BY <1>16 DEF End
  <2> QED BY <1>1, <1>2, <2>1, Unseen
<1>17. ASSUME CutHandler(r) PROVE Promised
  <2>1. At(r, Handling, "dead") /\ UNCHANGED <<status, itineraries, stops, seen, patient>> /\ stops > 0
    BY <1>0, <1>17 DEF CutHandler, trip
  <2> QED BY <1>1, <1>2, <2>1, StopsRun DEF Handling
<1>18. ASSUME Cancel(r) PROVE Promised
  <2>1. UNCHANGED <<status, itineraries, stops, seen, patient>> /\ stops > 0
    BY <1>0, <1>18 DEF Cancel, trip
  <2>2. CASE At(r, InGraph, "givingUp")
    <3>1. CASE PutRightBy(r)
      BY <1>1, <1>2, <2>1, <2>2, <3>1, CutsRunShort
    <3>2. CASE ~PutRightBy(r)
      <4>1. \/ pc[r] = "planning" /\ status = "planning"
            \/ pc[r] = "saved" /\ status = "completed"
            \/ pc[r] = "unmade" /\ status = "failed"
        BY <1>0, <2>2 DEF At, Knows, InGraph
      <4> QED BY <1>1, <1>2, <2>1, <2>2, <3>2, <4>1, StopsRun
    <3> QED BY <3>1, <3>2
  <2>3. CASE At(r, Settling, "ending")
    <3>1. CASE PutRightBy(r)
      BY <1>1, <1>2, <2>1, <2>3, <3>1, CutsRunShort
    <3>2. CASE ~PutRightBy(r)
      BY <1>1, <1>2, <2>1, <2>3, <3>2, StopsRun
    <3> QED BY <3>1, <3>2
  <2> QED BY <1>18, <2>2, <2>3 DEF Cancel
<1> QED
  <2>1. HandlerStep(r) => Promised
    BY <1>4, <1>5, <1>6 DEF HandlerStep
  <2>2. GraphStep(r) => Promised
    BY <1>7, <1>8, <1>9, <1>10 DEF GraphStep
  <2>3. EndStep(r) => Promised
    BY <1>11, <1>12, <1>13, <1>14, <1>15, <1>16 DEF EndStep
  <2> QED BY <1>3, <1>17, <1>18, <2>1, <2>2, <2>3

\* The runs of one server are the runs TripLifecycle promises a traveller who waits for an answer: one at
\* a time, a plan that stands is never lost to a run that makes none, and only a server that stopped
\* ends a run otherwise.  Every step is one of the abstract specification's, or is not seen.
THEOREM RunsImplementLifecycle == OneServer /\ ~LongOutage => (Spec => KeepsThePromise)
<1> SUFFICES ASSUME OneServer, ~LongOutage PROVE Spec => KeepsThePromise
  OBVIOUS
<1>1. Init => Lifecycle!Init
  <2>1. Init => BeingPutRight = FALSE /\ status = "pending"
    BY DEF Init, BeingPutRight
  <2>2. Init => (IF patient THEN Shown ELSE "pending") = "pending" /\ (patient /\ Standing) = FALSE
    BY <2>1 DEF Shown, Standing
  <2>3. Init => (IF patient THEN itineraries ELSE 0) = 0 /\ (patient /\ stops > 0) = FALSE
    BY DEF Init
  <2> QED BY <2>2, <2>3 DEF Lifecycle!Init
<1>2. Invariants /\ [Next]_vars => [Lifecycle!Next]_(Lifecycle!vars)
  <2> SUFFICES ASSUME Invariants, [Next]_vars PROVE [Lifecycle!Next]_(Lifecycle!vars)
    OBVIOUS
  <2> DEFINE Promised == [Lifecycle!Next]_(Lifecycle!vars)
  <2>0. TypeOK /\ FleetInv /\ PatientInv /\ stops \in Nat /\ patient' = patient
    <3>1. stops \in Nat
      BY ConstantsAssumption DEF Invariants, TypeOK
    <3>2. patient' = patient
      <4>1. ASSUME NEW r \in Requests, Receive(r) \/ Reread(r) \/ HandlerStep(r) \/ Beat(r) \/ GraphStep(r)
                                       \/ EndStep(r) \/ CutHandler(r) \/ Cancel(r)
            PROVE  patient' = patient
        BY <4>1 DEF Receive, Reread, HandlerStep, TurnBack, StartRun, NoteRun, Beat, GraphStep, Save, GraphFails,
             GraphReturns, RunCrashes, EndStep, SettleRead, SettleWrite, SettleAgain, GiveUpRead, GiveUpWrite,
             End, CutHandler, Cancel, runs, given
      <4>2. ASSUME NEW i \in Instances, Stop(i) \/ Exit(i) \/ Crash(i) \/ Start(i) \/ RecoveryStep(i)
            PROVE  patient' = patient
        BY <4>2 DEF Stop, Exit, Crash, Start, RecoveryStep, LookAtTrips, AskForNotes, MarkInterrupted, Deferred,
             Recovers, runs, given
      <4>3. NoteExpires \/ ServiceGoes \/ DatabaseReturns \/ RedisReturns \/ UNCHANGED vars => patient' = patient
        BY DEF NoteExpires, ServiceGoes, DatabaseReturns, RedisReturns, vars, runs, given
      <4> QED BY <4>1, <4>2, <4>3 DEF Next
    <3> QED BY <3>1, <3>2 DEF Invariants
  <2>1. CASE ~patient
    BY <2>0, <2>1 DEF Lifecycle!vars
  <2>2. CASE patient
    <3>1. ASSUME NEW r \in Requests, Receive(r) PROVE Promised
      <4>1. /\ UNCHANGED <<status, itineraries, stops>> /\ Undisturbed /\ pc[r] = "idle"
            /\ seen' = [seen EXCEPT ![r] = status]
            /\ \E to \in {"refused", "checked"} : pc' = [pc EXCEPT ![r] = to]
        BY <2>2, <3>1 DEF Receive, trip, fleet
      <4>2. /\ pc[r] = "idle" /\ pc'[r] \in {"refused", "checked"}
            /\ \A q \in Requests \ {r} : pc'[q] = pc[q] /\ (HasItinerary(q)' <=> HasItinerary(q))
        BY <2>0, <4>1 DEF TypeOK, HasItinerary
      <4>3. ~BeingPutRight /\ ~BeingPutRight'
        BY <4>1, <4>2 DEF BeingPutRight, Undisturbed, Tail, Settling
      <4>4. (\E q \in Requests : HasItinerary(q) /\ (Responsible(q) \/ pc[q] = "unmade"))'
              <=> \E q \in Requests : HasItinerary(q) /\ (Responsible(q) \/ pc[q] = "unmade")
        BY <4>2 DEF Responsible, Settling, GivingUp
      <4>5. Shown' = Shown /\ (Standing' <=> Standing)
        BY <4>1, <4>3, <4>4 DEF Shown, Standing
      <4> QED BY <2>0, <2>2, <4>1, <4>5, Unseen
    <3>2. ASSUME NEW r \in Requests,
                 Reread(r) \/ HandlerStep(r) \/ GraphStep(r) \/ EndStep(r) \/ CutHandler(r) \/ Cancel(r)
          PROVE  Promised
      BY <2>2, <3>2, RunStepsKeepThePromise
    <3>3. ASSUME NEW r \in Requests, Beat(r) PROVE Promised
      BY <2>0, <2>2, <3>3, ShownStands, Unseen DEF Beat, fleet, runs
    <3>4. ASSUME NEW i \in Instances, Stop(i) PROVE Promised
      <4>1. UNCHANGED <<status, itineraries, pc, seen>> /\ stops' > 0
        BY <2>0, <3>4 DEF Stop, trip, runs
      <4> QED BY <2>0, <2>2, <4>1, ShownStands, StopsRun
    <3>5. ASSUME NEW i \in Instances, Exit(i) \/ Start(i) PROVE Promised
      <4>1. UNCHANGED <<status, itineraries, pc, seen, stops>>
        BY <3>5 DEF Exit, Start, trip, runs
      <4> QED BY <2>0, <2>2, <4>1, ShownStands, Unseen
    <3>6. ASSUME NEW i \in Instances, Crash(i) PROVE Promised
      <4>1. /\ UNCHANGED <<status, itineraries, seen>> /\ stops' > 0
            /\ \A r \in Requests : pc'[r] \notin {"marked", "planning", "unmade"} \cup Settling \cup GivingUp
        <5>1. \A r \in Requests : pc'[r] = IF pc[r] \in Active THEN "dead" ELSE pc[r]
          BY <2>0, <3>6 DEF Crash, TasksOf, OneServer, TypeOK
        <5> QED BY <2>0, <3>6, <5>1 DEF Crash, trip, Active, Handling, Alive, InGraph, Settling, GivingUp
      <4>2. Shown' = status /\ ~Standing'
        BY <4>1 DEF Shown, Standing, BeingPutRight, Responsible
      <4>3. CASE BeingPutRight
        BY <2>0, <2>2, <4>1, <4>2, <4>3, CutsRunShort DEF BeingPutRight, Shown
      <4>4. CASE ~BeingPutRight
        BY <2>0, <2>2, <4>1, <4>2, <4>4, StopsRun DEF Shown
      <4> QED BY <4>3, <4>4
    <3>7. ASSUME NEW i \in Instances, RecoveryStep(i) PROVE Promised
      <4>1. recovery[i] # "none" /\ UNCHANGED <<itineraries, stops, pc, seen>>
        BY <3>7 DEF RecoveryStep, LookAtTrips, AskForNotes, MarkInterrupted, Deferred, Recovers, runs
      <4>2. \A r \in Requests : pc[r] \notin Active
        BY <2>0, <2>2, <4>1 DEF PatientInv, OneServer, TypeOK
      <4>3. CASE status' = status
        BY <2>0, <2>2, <4>1, <4>3, ShownStands, Unseen
      <4>4. CASE status' # status
        <5>1. status = "planning" /\ (status' = "failed" \/ (status' = "completed" /\ itineraries > 0))
          BY <3>7, <4>4 DEF RecoveryStep, LookAtTrips, AskForNotes, MarkInterrupted, Deferred
        <5>2. stops' > 0
          BY <2>0, <2>2, <4>1, <5>1 DEF PatientInv
        <5>3. Shown = "planning" /\ Shown' = status' /\ ~Standing'
          BY <4>1, <4>2, <5>1
             DEF Shown, Standing, BeingPutRight, Responsible, Active, Handling, Alive, InGraph
        <5> QED BY <2>0, <2>2, <4>1, <5>1, <5>2, <5>3, CutsRunShort
      <4> QED BY <4>3, <4>4
    <3>8. ASSUME NoteExpires \/ ServiceGoes \/ DatabaseReturns \/ RedisReturns \/ UNCHANGED vars PROVE Promised
      <4>1. UNCHANGED <<status, itineraries, pc, seen, stops>>
        BY <3>8 DEF NoteExpires, ServiceGoes, DatabaseReturns, RedisReturns, vars, trip, fleet, runs
      <4> QED BY <2>0, <2>2, <4>1, ShownStands, Unseen
    <3> QED BY <3>1, <3>2, <3>3, <3>4, <3>5, <3>6, <3>7, <3>8 DEF Next
  <2> QED BY <2>1, <2>2
<1>3. Spec => []PlanInv
  BY PlansKept
<1> QED
  BY <1>1, <1>2, <1>3, TypeCorrect, AnswersKept, PatientKept, PTL
     DEF Spec, SafetySpec, KeepsThePromise, Lifecycle!Spec, Invariants

=============================================================================
