-------------------------- MODULE McpClient_proofs --------------------------
(***************************************************************************)
(* What the tool server's client promises, for any number of calls, deaths *)
(* and cancellations.                                                      *)
(*                                                                         *)
(* A call is told SERVER_GONE only after two different servers failed it,  *)
(* and no session in use is let go of while its server lives.  Neither is  *)
(* inductive.  The first rests on servers being new when they are started, *)
(* so that a call asking again can only be given one it has not met        *)
(* (Strangers); both rest on a call never holding anything against a       *)
(* living server (Evidence).  That the calls start one server between them *)
(* is a count of the processes nobody answers for: no step but a cancelled *)
(* start adds to them (OneMoreForACancel).                                 *)
(***************************************************************************)
EXTENDS McpClient, FiniteSetTheorems, TLAPS

\* What the pipe, the owning task and the process say of one another.
Pipes ==
  \A s \in Servers :
    /\ process[s] = "unborn" => owner[s] = "none" /\ pipe[s] = "open"
    /\ pipe[s] # "open" => process[s] = "dead"
    /\ owner[s] = "ended" => pipe[s] = "gone"

\* The lock is held across an await by the call that starts a server, and by no other.  The server it
\* is starting is nobody else's yet.
Lock ==
  /\ kept # None => process[kept] # "unborn"
  /\ making # None => process[making] # "unborn" /\ kept = None
  /\ \A c \in Calls : pc[c] = "starting" => lock = c /\ making # None
  /\ \A c \in Calls : making # None => making # held[c] /\ making \notin met[c]

\* What a call holds against a server is true of it.
Evidence ==
  \A c \in Calls :
    /\ \A s \in met[c] : process[s] = "dead"
    /\ held[c] # None => process[held[c]] # "unborn"
    /\ pc[c] = "asks" => held[c] # None
    /\ pc[c] = "asks" /\ request[c] = "failed" => process[held[c]] = "dead"
    /\ pc[c] = "letting_go" /\ held[c] # None => held[c] \in met[c]

\* A call asking for the first time has met no server; asking again it has met one, and is not given
\* that one; told of a second, it has met two.
Strangers ==
  \A c \in Calls :
    /\ asking[c] = "first" /\ pc[c] \in {"idle", "getting", "queueing", "starting", "asks"} => met[c] = {}
    /\ asking[c] = "first" /\ pc[c] = "letting_go" => met[c] # {} /\ (kept \in met[c] => kept = held[c])
    /\ asking[c] = "first" /\ pc[c] = "putting_away" => met[c] # {} /\ kept \notin met[c]
    /\ asking[c] = "again" /\ pc[c] \in {"idle", "getting", "queueing", "starting", "asks"} =>
         met[c] # {} /\ kept \notin met[c]
    /\ asking[c] = "again" /\ pc[c] = "asks" => held[c] \notin met[c]
    /\ asking[c] = "again" /\ pc[c] \in {"letting_go", "putting_away"} => \E s, t \in met[c] : s # t
    /\ answer[c] = "SERVER_GONE" => \E s, t \in met[c] : s # t

IInv == TypeOK /\ Pipes /\ Lock /\ Evidence /\ Strangers

\* What asking server s does, in the words the proofs below use: the request is on its way, or the call
\* has found s gone, and then s is dead.
FoundGone(c, s) ==
  /\ pc' = [pc EXCEPT ![c] = "letting_go"]
  /\ held' = [held EXCEPT ![c] = s]
  /\ met' = [met EXCEPT ![c] = @ \cup {s}]
  /\ request' = [request EXCEPT ![c] = "none"]
  /\ process[s] = "dead"
  /\ UNCHANGED <<asking, answer>>

OnItsWay(c, s, outcome) ==
  /\ pc' = [pc EXCEPT ![c] = "asks"]
  /\ held' = [held EXCEPT ![c] = s]
  /\ request' = [request EXCEPT ![c] = outcome]
  /\ outcome \in {"sent", "unheard", "failed"}
  /\ outcome = "failed" => process[s] = "dead"
  /\ UNCHANGED <<asking, answer, met>>

LEMMA AskEffects ==
  ASSUME TypeOK, Pipes, NEW c \in Calls, NEW s \in Servers, _ask(c, s)
  PROVE  FoundGone(c, s) \/ \E outcome : OnItsWay(c, s, outcome)
<1> USE DEF FoundGone, OnItsWay
<1>1. CASE KnownGone(s)
  <2>1. process[s] = "dead"
    BY <1>1 DEF KnownGone, Pipes, TypeOK
  <2> QED BY <1>1, <2>1 DEF _ask, FindsGone
<1>2. CASE ~KnownGone(s)
  <2>1. PICK outcome \in Sent(s) : request' = [request EXCEPT ![c] = outcome]
    BY <1>2 DEF _ask
  <2>2. outcome \in {"sent", "unheard", "failed"} /\ (outcome = "failed" => process[s] = "dead")
    BY <2>1 DEF Sent, Pipes
  <2> QED BY <1>2, <2>1, <2>2 DEF _ask
<1> QED BY <1>1, <1>2

\* Where a call goes once it has let go of a server, and what it takes along.
LEMMA AfterForgetTyped ==
  ASSUME TypeOK, NEW c \in Calls, AfterForget(c)
  PROVE  /\ pc' \in [Calls -> {"idle", "getting", "queueing", "starting", "asks",
                              "letting_go", "putting_away", "done"}]
         /\ asking' \in [Calls -> {"first", "again"}]
         /\ held' \in [Calls -> Servers \cup {None}]
         /\ answer' \in [Calls -> {"none", "answered", "SERVER_GONE", "cancelled"}]
<1>1. CASE asking[c] = "first"
  BY <1>1 DEF TypeOK, AfterForget
<1>2. CASE asking[c] = "again"
  BY <1>2 DEF TypeOK, AfterForget
<1> QED BY <1>1, <1>2 DEF AfterForget

\* Every action keeps the variables' types: what a call met, and what is kept, are servers because of
\* Evidence and Lock.
LEMMA TypeKept == IInv /\ [Next]_vars => TypeOK'
<1> SUFFICES ASSUME IInv, [Next]_vars PROVE TypeOK'
  OBVIOUS
<1>a. TypeOK /\ Pipes /\ Lock /\ Evidence
  BY DEF IInv
<1> USE BoundsAssumption DEF TypeOK, serverVars, callVars, None, Servers
<1>1. ASSUME NEW c \in Calls, CallTool(c) PROVE TypeOK'
  BY <1>a, <1>1 DEF CallTool
<1>2. ASSUME NEW c \in Calls, GetSession(c) PROVE TypeOK'
  <2>1. CASE kept = None
    BY <1>a, <1>2, <2>1 DEF GetSession
  <2>2. CASE kept # None
    <3>1. kept \in Servers /\ (FoundGone(c, kept) \/ \E outcome : OnItsWay(c, kept, outcome))
      BY <1>a, <1>2, <2>2, AskEffects DEF GetSession
    <3>2. pc[c] = "getting" /\ UNCHANGED <<kept, lock, making, serverVars, closed, deaths, cancels>>
      BY <1>2 DEF GetSession
    <3>3. CASE FoundGone(c, kept)
      BY <1>a, <2>2, <3>1, <3>2, <3>3 DEF FoundGone
    <3>4. ASSUME NEW outcome, OnItsWay(c, kept, outcome) PROVE TypeOK'
      BY <1>a, <2>2, <3>1, <3>2, <3>4 DEF OnItsWay
    <3> QED BY <3>1, <3>3, <3>4
  <2> QED BY <2>1, <2>2
<1>3. ASSUME NEW c \in Calls, TakeLock(c) PROVE TypeOK'
  <2>1. CASE MadeMeanwhile
    <3>1. kept \in Servers /\ (FoundGone(c, kept) \/ \E outcome : OnItsWay(c, kept, outcome))
      BY <1>a, <1>3, <2>1, AskEffects DEF TakeLock, MadeMeanwhile
    <3>2. pc[c] = "queueing" /\ UNCHANGED <<kept, lock, making, serverVars, closed, deaths, cancels>>
      BY <1>3, <2>1 DEF TakeLock, MadeMeanwhile
    <3>3. CASE FoundGone(c, kept)
      BY <1>a, <2>1, <3>1, <3>2, <3>3 DEF FoundGone, MadeMeanwhile
    <3>4. ASSUME NEW outcome, OnItsWay(c, kept, outcome) PROVE TypeOK'
      BY <1>a, <2>1, <3>1, <3>2, <3>4 DEF OnItsWay, MadeMeanwhile
    <3> QED BY <3>1, <3>3, <3>4
  <2>2. CASE ~MadeMeanwhile
    <3>1. PICK s \in Servers : /\ process[s] = "unborn" /\ making' = s
                              /\ process' = [process EXCEPT ![s] = "alive"]
                              /\ owner' = [owner EXCEPT ![s] = "opening"]
      BY <1>3, <2>2 DEF TakeLock, MadeMeanwhile, IsNext
    <3>2. /\ pc[c] = "queueing" /\ lock' = c /\ pc' = [pc EXCEPT ![c] = "starting"] /\ kept = None
          /\ UNCHANGED <<kept, pipe, asking, held, request, answer, met, closed, deaths, cancels>>
      BY <1>3, <2>2 DEF TakeLock, MadeMeanwhile
    <3>3. \A d \in Calls : pc[d] # "starting"
      BY <1>a, <1>3, CallsAssumption DEF TakeLock, Lock
    <3> QED BY <1>a, <3>1, <3>2, <3>3
  <2> QED BY <2>1, <2>2
<1>4. ASSUME NEW c \in Calls, Started(c) PROVE TypeOK'
  <2>1. making \in Servers
    BY <1>a, <1>4 DEF Started, Lock
  <2>2. FoundGone(c, making) \/ \E outcome : OnItsWay(c, making, outcome)
    BY <1>a, <1>4, <2>1, AskEffects DEF Started
  <2>3. /\ kept' = making /\ making' = None /\ lock' = "nobody"
        /\ UNCHANGED <<serverVars, closed, deaths, cancels>>
    BY <1>4 DEF Started
  <2>4. CASE FoundGone(c, making)
    BY <1>a, <1>4, <2>1, <2>3, <2>4 DEF FoundGone, Started
  <2>5. ASSUME NEW outcome, OnItsWay(c, making, outcome) PROVE TypeOK'
    BY <1>a, <1>4, <2>1, <2>3, <2>5 DEF OnItsWay, Started
  <2> QED BY <2>2, <2>4, <2>5
<1>5. ASSUME NEW c \in Calls, StartFailed(c) PROVE TypeOK'
  BY <1>a, <1>5 DEF StartFailed, FindsGone, Lock, Evidence
<1>6. ASSUME NEW c \in Calls, ServerAnswers(c) PROVE TypeOK'
  BY <1>a, <1>6 DEF ServerAnswers
<1>7. ASSUME NEW c \in Calls, Answered(c) PROVE TypeOK'
  BY <1>a, <1>7 DEF Answered
<1>8. ASSUME NEW c \in Calls, Lost(c) PROVE TypeOK'
  BY <1>a, <1>8 DEF Lost, LostIt, FindsGone, Lock, Evidence
<1>9. ASSUME NEW c \in Calls, Forget(c) PROVE TypeOK'
  <2>1. CASE StillKept(c)
    <3>1. owner' \in [Servers -> {"none", "opening", "holding", "leaving", "ended"}]
      BY <1>a, <1>9, <2>1 DEF Forget, ToldToLeave
    <3>2. /\ kept' = None /\ pc' = [pc EXCEPT ![c] = "putting_away"]
          /\ UNCHANGED <<lock, making, process, pipe, asking, held, request, answer, met, closed, deaths, cancels>>
      BY <1>9, <2>1 DEF Forget
    <3> QED BY <1>a, <3>1, <3>2
  <2>2. CASE ~StillKept(c)
    <3>1. /\ pc[c] = "letting_go"
          /\ UNCHANGED <<kept, owner, lock, making, process, pipe, request, met, closed, deaths, cancels>>
      BY <1>9, <2>2 DEF Forget
    <3>2. AfterForget(c)
      BY <1>9, <2>2 DEF Forget
    <3> QED BY <1>a, <3>1, <3>2, AfterForgetTyped
  <2> QED BY <2>1, <2>2
<1>10. ASSUME NEW c \in Calls, PutAway(c) PROVE TypeOK'
  <2>1. AfterForget(c) /\ UNCHANGED <<kept, lock, making, serverVars, request, met, closed, deaths, cancels>>
    BY <1>10 DEF PutAway
  <2> QED BY <1>a, <2>1, AfterForgetTyped
<1>11. ASSUME NEW c \in Calls, Cancel(c) PROVE TypeOK'
  BY <1>a, <1>11 DEF Cancel
<1>12. ASSUME NEW s \in Servers, Die(s) PROVE TypeOK'
  BY <1>a, <1>12 DEF Die
<1>13. ASSUME NEW s \in Servers, Opens(s) PROVE TypeOK'
  BY <1>a, <1>13 DEF Opens
<1>14. ASSUME NEW s \in Servers, OwnerEnds(s) PROVE TypeOK'
  BY <1>a, <1>14 DEF OwnerEnds
<1>15. ASSUME NEW s \in Servers, SessionStops(s) PROVE TypeOK'
  BY <1>a, <1>15 DEF SessionStops
<1>16. ASSUME NEW s \in Servers, GoneIsSet(s) PROVE TypeOK'
  BY <1>a, <1>16 DEF GoneIsSet
<1>17. CASE CloseSession
  BY <1>a, <1>17 DEF CloseSession, ToldToLeave
<1>18. CASE UNCHANGED vars
  BY <1>a, <1>18 DEF vars
<1> QED
  BY <1>1, <1>2, <1>3, <1>4, <1>5, <1>6, <1>7, <1>8, <1>9, <1>10, <1>11, <1>12, <1>13, <1>14, <1>15, <1>16, <1>17, <1>18 DEF Next

\* Every action keeps each part of the invariant, given the parts before it.
LEMMA PipesKept == IInv /\ [Next]_vars => Pipes'
<1> SUFFICES ASSUME IInv, [Next]_vars PROVE Pipes'
  OBVIOUS
<1>a. TypeOK /\ Pipes /\ Lock /\ Evidence
  BY DEF IInv
<1> USE DEF TypeOK, Pipes, serverVars, callVars, None, Servers
<1>1. ASSUME NEW c \in Calls, CallTool(c) PROVE Pipes'
  BY <1>a, <1>1 DEF CallTool
<1>2. ASSUME NEW c \in Calls, GetSession(c) PROVE Pipes'
  <2>1. CASE kept = None
    BY <1>a, <1>2, <2>1 DEF GetSession
  <2>2. CASE kept # None
    <3>1. kept \in Servers /\ (FoundGone(c, kept) \/ \E outcome : OnItsWay(c, kept, outcome))
      BY <1>a, <1>2, <2>2, AskEffects DEF GetSession
    <3>2. pc[c] = "getting" /\ UNCHANGED <<kept, lock, making, serverVars, closed, deaths, cancels>>
      BY <1>2 DEF GetSession
    <3>3. CASE FoundGone(c, kept)
      BY <1>a, <2>2, <3>1, <3>2, <3>3 DEF FoundGone
    <3>4. ASSUME NEW outcome, OnItsWay(c, kept, outcome) PROVE Pipes'
      BY <1>a, <2>2, <3>1, <3>2, <3>4 DEF OnItsWay
    <3> QED BY <3>1, <3>3, <3>4
  <2> QED BY <2>1, <2>2
<1>3. ASSUME NEW c \in Calls, TakeLock(c) PROVE Pipes'
  <2>1. CASE MadeMeanwhile
    <3>1. UNCHANGED serverVars
      BY <1>3, <2>1 DEF TakeLock
    <3> QED BY <1>a, <3>1
  <2>2. CASE ~MadeMeanwhile
    <3>1. PICK s \in Servers : /\ process' = [process EXCEPT ![s] = "alive"]
                              /\ owner' = [owner EXCEPT ![s] = "opening"]
                              /\ process[s] = "unborn"
      BY <1>3, <2>2 DEF TakeLock, MadeMeanwhile, IsNext
    <3>2. UNCHANGED pipe
      BY <1>3, <2>2 DEF TakeLock, MadeMeanwhile
    <3> QED BY <1>a, <3>1, <3>2
  <2> QED BY <2>1, <2>2
<1>4. ASSUME NEW c \in Calls, Started(c) PROVE Pipes'
  <2>1. making \in Servers
    BY <1>a, <1>4 DEF Started, Lock
  <2>2. FoundGone(c, making) \/ \E outcome : OnItsWay(c, making, outcome)
    BY <1>a, <1>4, <2>1, AskEffects DEF Started
  <2>3. /\ kept' = making /\ making' = None /\ lock' = "nobody"
        /\ UNCHANGED <<serverVars, closed, deaths, cancels>>
    BY <1>4 DEF Started
  <2>4. CASE FoundGone(c, making)
    BY <1>a, <1>4, <2>1, <2>3, <2>4 DEF FoundGone, Started
  <2>5. ASSUME NEW outcome, OnItsWay(c, making, outcome) PROVE Pipes'
    BY <1>a, <1>4, <2>1, <2>3, <2>5 DEF OnItsWay, Started
  <2> QED BY <2>2, <2>4, <2>5
<1>5. ASSUME NEW c \in Calls, StartFailed(c) PROVE Pipes'
  BY <1>a, <1>5 DEF StartFailed, FindsGone
<1>6. ASSUME NEW c \in Calls, ServerAnswers(c) PROVE Pipes'
  BY <1>a, <1>6 DEF ServerAnswers
<1>7. ASSUME NEW c \in Calls, Answered(c) PROVE Pipes'
  BY <1>a, <1>7 DEF Answered
<1>8. ASSUME NEW c \in Calls, Lost(c) PROVE Pipes'
  BY <1>a, <1>8 DEF Lost, LostIt, FindsGone
<1>9. ASSUME NEW c \in Calls, Forget(c) PROVE Pipes'
  <2>1. UNCHANGED <<process, pipe>>
    BY <1>9 DEF Forget
  <2>2. CASE UNCHANGED owner
    BY <1>a, <2>1, <2>2
  <2>3. CASE owner' = ToldToLeave(kept)
    BY <1>a, <2>1, <2>3 DEF ToldToLeave
  <2> QED BY <1>9, <2>2, <2>3 DEF Forget
<1>10. ASSUME NEW c \in Calls, PutAway(c) PROVE Pipes'
  BY <1>a, <1>10 DEF PutAway, AfterForget
<1>11. ASSUME NEW c \in Calls, Cancel(c) PROVE Pipes'
  BY <1>a, <1>11 DEF Cancel
<1>12. ASSUME NEW s \in Servers, Die(s) PROVE Pipes'
  BY <1>a, <1>12 DEF Die
<1>13. ASSUME NEW s \in Servers, Opens(s) PROVE Pipes'
  BY <1>a, <1>13 DEF Opens
<1>14. ASSUME NEW s \in Servers, OwnerEnds(s) PROVE Pipes'
  BY <1>a, <1>14 DEF OwnerEnds
<1>15. ASSUME NEW s \in Servers, SessionStops(s) PROVE Pipes'
  BY <1>a, <1>15 DEF SessionStops
<1>16. ASSUME NEW s \in Servers, GoneIsSet(s) PROVE Pipes'
  BY <1>a, <1>16 DEF GoneIsSet
<1>17. CASE CloseSession
  BY <1>a, <1>17 DEF CloseSession, ToldToLeave
<1>18. CASE UNCHANGED vars
  BY <1>a, <1>18 DEF vars
<1> QED
  BY <1>1, <1>2, <1>3, <1>4, <1>5, <1>6, <1>7, <1>8, <1>9, <1>10, <1>11, <1>12, <1>13, <1>14, <1>15, <1>16, <1>17, <1>18 DEF Next

LEMMA LockKept == IInv /\ [Next]_vars => Lock'
<1> SUFFICES ASSUME IInv, [Next]_vars PROVE Lock'
  OBVIOUS
<1>a. TypeOK /\ Pipes /\ Lock /\ Evidence
  BY DEF IInv
<1> USE DEF TypeOK, Pipes, Lock, Evidence, serverVars, callVars, None, Servers
<1>1. ASSUME NEW c \in Calls, CallTool(c) PROVE Lock'
  BY <1>a, <1>1 DEF CallTool
<1>2. ASSUME NEW c \in Calls, GetSession(c) PROVE Lock'
  <2>1. CASE kept = None
    BY <1>a, <1>2, <2>1 DEF GetSession
  <2>2. CASE kept # None
    <3>1. kept \in Servers /\ (FoundGone(c, kept) \/ \E outcome : OnItsWay(c, kept, outcome))
      BY <1>a, <1>2, <2>2, AskEffects DEF GetSession
    <3>2. pc[c] = "getting" /\ UNCHANGED <<kept, lock, making, serverVars, closed, deaths, cancels>>
      BY <1>2 DEF GetSession
    <3>3. CASE FoundGone(c, kept)
      BY <1>a, <2>2, <3>1, <3>2, <3>3 DEF FoundGone
    <3>4. ASSUME NEW outcome, OnItsWay(c, kept, outcome) PROVE Lock'
      BY <1>a, <2>2, <3>1, <3>2, <3>4 DEF OnItsWay
    <3> QED BY <3>1, <3>3, <3>4
  <2> QED BY <2>1, <2>2
<1>3. ASSUME NEW c \in Calls, TakeLock(c) PROVE Lock'
  <2>1. CASE MadeMeanwhile
    <3>1. kept \in Servers /\ (FoundGone(c, kept) \/ \E outcome : OnItsWay(c, kept, outcome))
      BY <1>a, <1>3, <2>1, AskEffects DEF TakeLock, MadeMeanwhile
    <3>2. pc[c] = "queueing" /\ UNCHANGED <<kept, lock, making, serverVars, closed, deaths, cancels>>
      BY <1>3, <2>1 DEF TakeLock, MadeMeanwhile
    <3>3. CASE FoundGone(c, kept)
      BY <1>a, <2>1, <3>1, <3>2, <3>3 DEF FoundGone, MadeMeanwhile
    <3>4. ASSUME NEW outcome, OnItsWay(c, kept, outcome) PROVE Lock'
      BY <1>a, <2>1, <3>1, <3>2, <3>4 DEF OnItsWay, MadeMeanwhile
    <3> QED BY <3>1, <3>3, <3>4
  <2>2. CASE ~MadeMeanwhile
    <3>1. PICK s \in Servers : /\ process[s] = "unborn" /\ making' = s
                              /\ process' = [process EXCEPT ![s] = "alive"]
                              /\ owner' = [owner EXCEPT ![s] = "opening"]
      BY <1>3, <2>2 DEF TakeLock, MadeMeanwhile, IsNext
    <3>2. /\ pc[c] = "queueing" /\ lock' = c /\ pc' = [pc EXCEPT ![c] = "starting"] /\ kept = None
          /\ UNCHANGED <<kept, pipe, asking, held, request, answer, met, closed, deaths, cancels>>
      BY <1>3, <2>2 DEF TakeLock, MadeMeanwhile
    <3>3. \A d \in Calls : pc[d] # "starting"
      BY <1>a, <1>3, CallsAssumption DEF TakeLock, Lock
    <3>4. \A d \in Calls : s # held[d] /\ s \notin met[d]
      BY <1>a, <3>1
    <3>5. \A d \in Calls : pc'[d] = "starting" => d = c
      BY <1>a, <3>2, <3>3
    <3> QED BY <1>a, <3>1, <3>2, <3>4, <3>5
  <2> QED BY <2>1, <2>2
<1>4. ASSUME NEW c \in Calls, Started(c) PROVE Lock'
  <2>1. making \in Servers
    BY <1>a, <1>4 DEF Started, Lock
  <2>2. FoundGone(c, making) \/ \E outcome : OnItsWay(c, making, outcome)
    BY <1>a, <1>4, <2>1, AskEffects DEF Started
  <2>3. /\ kept' = making /\ making' = None /\ lock' = "nobody"
        /\ UNCHANGED <<serverVars, closed, deaths, cancels>>
    BY <1>4 DEF Started
  <2>4. CASE FoundGone(c, making)
    BY <1>a, <1>4, <2>1, <2>3, <2>4 DEF FoundGone, Started
  <2>5. ASSUME NEW outcome, OnItsWay(c, making, outcome) PROVE Lock'
    BY <1>a, <1>4, <2>1, <2>3, <2>5 DEF OnItsWay, Started
  <2> QED BY <2>2, <2>4, <2>5
<1>5. ASSUME NEW c \in Calls, StartFailed(c) PROVE Lock'
  BY <1>a, <1>5 DEF StartFailed, FindsGone
<1>6. ASSUME NEW c \in Calls, ServerAnswers(c) PROVE Lock'
  BY <1>a, <1>6 DEF ServerAnswers
<1>7. ASSUME NEW c \in Calls, Answered(c) PROVE Lock'
  BY <1>a, <1>7 DEF Answered
<1>8. ASSUME NEW c \in Calls, Lost(c) PROVE Lock'
  BY <1>a, <1>8 DEF Lost, LostIt, FindsGone
<1>9. ASSUME NEW c \in Calls, Forget(c) PROVE Lock'
  BY <1>a, <1>9 DEF Forget, StillKept, ToldToLeave, AfterForget
<1>10. ASSUME NEW c \in Calls, PutAway(c) PROVE Lock'
  BY <1>a, <1>10 DEF PutAway, AfterForget
<1>11. ASSUME NEW c \in Calls, Cancel(c) PROVE Lock'
  BY <1>a, <1>11 DEF Cancel
<1>12. ASSUME NEW s \in Servers, Die(s) PROVE Lock'
  BY <1>a, <1>12 DEF Die
<1>13. ASSUME NEW s \in Servers, Opens(s) PROVE Lock'
  BY <1>a, <1>13 DEF Opens
<1>14. ASSUME NEW s \in Servers, OwnerEnds(s) PROVE Lock'
  BY <1>a, <1>14 DEF OwnerEnds
<1>15. ASSUME NEW s \in Servers, SessionStops(s) PROVE Lock'
  BY <1>a, <1>15 DEF SessionStops
<1>16. ASSUME NEW s \in Servers, GoneIsSet(s) PROVE Lock'
  BY <1>a, <1>16 DEF GoneIsSet
<1>17. CASE CloseSession
  BY <1>a, <1>17 DEF CloseSession, ToldToLeave
<1>18. CASE UNCHANGED vars
  BY <1>a, <1>18 DEF vars
<1> QED
  BY <1>1, <1>2, <1>3, <1>4, <1>5, <1>6, <1>7, <1>8, <1>9, <1>10, <1>11, <1>12, <1>13, <1>14, <1>15, <1>16, <1>17, <1>18 DEF Next

LEMMA EvidenceKept == IInv /\ [Next]_vars => Evidence'
<1> SUFFICES ASSUME IInv, [Next]_vars PROVE Evidence'
  OBVIOUS
<1>a. TypeOK /\ Pipes /\ Lock /\ Evidence
  BY DEF IInv
<1> USE DEF TypeOK, Pipes, Lock, Evidence, serverVars, callVars, None, Servers
<1>1. ASSUME NEW c \in Calls, CallTool(c) PROVE Evidence'
  BY <1>a, <1>1 DEF CallTool
<1>2. ASSUME NEW c \in Calls, GetSession(c) PROVE Evidence'
  <2>1. CASE kept = None
    BY <1>a, <1>2, <2>1 DEF GetSession
  <2>2. CASE kept # None
    <3>1. kept \in Servers /\ (FoundGone(c, kept) \/ \E outcome : OnItsWay(c, kept, outcome))
      BY <1>a, <1>2, <2>2, AskEffects DEF GetSession
    <3>2. pc[c] = "getting" /\ UNCHANGED <<kept, lock, making, serverVars, closed, deaths, cancels>>
      BY <1>2 DEF GetSession
    <3>3. CASE FoundGone(c, kept)
      BY <1>a, <2>2, <3>1, <3>2, <3>3 DEF FoundGone
    <3>4. ASSUME NEW outcome, OnItsWay(c, kept, outcome) PROVE Evidence'
      BY <1>a, <2>2, <3>1, <3>2, <3>4 DEF OnItsWay
    <3> QED BY <3>1, <3>3, <3>4
  <2> QED BY <2>1, <2>2
<1>3. ASSUME NEW c \in Calls, TakeLock(c) PROVE Evidence'
  <2>1. CASE MadeMeanwhile
    <3>1. kept \in Servers /\ (FoundGone(c, kept) \/ \E outcome : OnItsWay(c, kept, outcome))
      BY <1>a, <1>3, <2>1, AskEffects DEF TakeLock, MadeMeanwhile
    <3>2. pc[c] = "queueing" /\ UNCHANGED <<kept, lock, making, serverVars, closed, deaths, cancels>>
      BY <1>3, <2>1 DEF TakeLock, MadeMeanwhile
    <3>3. CASE FoundGone(c, kept)
      BY <1>a, <2>1, <3>1, <3>2, <3>3 DEF FoundGone, MadeMeanwhile
    <3>4. ASSUME NEW outcome, OnItsWay(c, kept, outcome) PROVE Evidence'
      BY <1>a, <2>1, <3>1, <3>2, <3>4 DEF OnItsWay, MadeMeanwhile
    <3> QED BY <3>1, <3>3, <3>4
  <2>2. CASE ~MadeMeanwhile
    <3>1. PICK s \in Servers : /\ process[s] = "unborn" /\ making' = s
                              /\ process' = [process EXCEPT ![s] = "alive"]
                              /\ owner' = [owner EXCEPT ![s] = "opening"]
      BY <1>3, <2>2 DEF TakeLock, MadeMeanwhile, IsNext
    <3>2. /\ pc[c] = "queueing" /\ lock' = c /\ pc' = [pc EXCEPT ![c] = "starting"] /\ kept = None
          /\ UNCHANGED <<kept, pipe, asking, held, request, answer, met, closed, deaths, cancels>>
      BY <1>3, <2>2 DEF TakeLock, MadeMeanwhile
    <3>3. \A d \in Calls : pc[d] # "starting"
      BY <1>a, <1>3, CallsAssumption DEF TakeLock, Lock
    <3> QED BY <1>a, <3>1, <3>2, <3>3
  <2> QED BY <2>1, <2>2
<1>4. ASSUME NEW c \in Calls, Started(c) PROVE Evidence'
  <2>1. making \in Servers
    BY <1>a, <1>4 DEF Started, Lock
  <2>2. FoundGone(c, making) \/ \E outcome : OnItsWay(c, making, outcome)
    BY <1>a, <1>4, <2>1, AskEffects DEF Started
  <2>3. /\ kept' = making /\ making' = None /\ lock' = "nobody"
        /\ UNCHANGED <<serverVars, closed, deaths, cancels>>
    BY <1>4 DEF Started
  <2>4. CASE FoundGone(c, making)
    BY <1>a, <1>4, <2>1, <2>3, <2>4 DEF FoundGone, Started
  <2>5. ASSUME NEW outcome, OnItsWay(c, making, outcome) PROVE Evidence'
    BY <1>a, <1>4, <2>1, <2>3, <2>5 DEF OnItsWay, Started
  <2> QED BY <2>2, <2>4, <2>5
<1>5. ASSUME NEW c \in Calls, StartFailed(c) PROVE Evidence'
  BY <1>a, <1>5 DEF StartFailed, FindsGone
<1>6. ASSUME NEW c \in Calls, ServerAnswers(c) PROVE Evidence'
  BY <1>a, <1>6 DEF ServerAnswers
<1>7. ASSUME NEW c \in Calls, Answered(c) PROVE Evidence'
  BY <1>a, <1>7 DEF Answered
<1>8. ASSUME NEW c \in Calls, Lost(c) PROVE Evidence'
  BY <1>a, <1>8 DEF Lost, LostIt, FindsGone
<1>9. ASSUME NEW c \in Calls, Forget(c) PROVE Evidence'
  BY <1>a, <1>9 DEF Forget, StillKept, ToldToLeave, AfterForget
<1>10. ASSUME NEW c \in Calls, PutAway(c) PROVE Evidence'
  BY <1>a, <1>10 DEF PutAway, AfterForget
<1>11. ASSUME NEW c \in Calls, Cancel(c) PROVE Evidence'
  BY <1>a, <1>11 DEF Cancel
<1>12. ASSUME NEW s \in Servers, Die(s) PROVE Evidence'
  BY <1>a, <1>12 DEF Die
<1>13. ASSUME NEW s \in Servers, Opens(s) PROVE Evidence'
  BY <1>a, <1>13 DEF Opens
<1>14. ASSUME NEW s \in Servers, OwnerEnds(s) PROVE Evidence'
  BY <1>a, <1>14 DEF OwnerEnds
<1>15. ASSUME NEW s \in Servers, SessionStops(s) PROVE Evidence'
  BY <1>a, <1>15 DEF SessionStops
<1>16. ASSUME NEW s \in Servers, GoneIsSet(s) PROVE Evidence'
  BY <1>a, <1>16 DEF GoneIsSet
<1>17. CASE CloseSession
  BY <1>a, <1>17 DEF CloseSession, ToldToLeave
<1>18. CASE UNCHANGED vars
  BY <1>a, <1>18 DEF vars
<1> QED
  BY <1>1, <1>2, <1>3, <1>4, <1>5, <1>6, <1>7, <1>8, <1>9, <1>10, <1>11, <1>12, <1>13, <1>14, <1>15, <1>16, <1>17, <1>18 DEF Next

LEMMA StrangersKept == IInv /\ [Next]_vars => Strangers'
<1> SUFFICES ASSUME IInv, [Next]_vars PROVE Strangers'
  OBVIOUS
<1>a. TypeOK /\ Pipes /\ Lock /\ Evidence
  BY DEF IInv
<1>b. Strangers
  BY DEF IInv
<1> USE DEF TypeOK, Pipes, Lock, Evidence, Strangers, serverVars, callVars, None, Servers
<1>1. ASSUME NEW c \in Calls, CallTool(c) PROVE Strangers'
  BY <1>a, <1>b, <1>1 DEF CallTool
<1>2. ASSUME NEW c \in Calls, GetSession(c) PROVE Strangers'
  <2>1. CASE kept = None
    BY <1>a, <1>b, <1>2, <2>1 DEF GetSession
  <2>2. CASE kept # None
    <3>1. kept \in Servers /\ (FoundGone(c, kept) \/ \E outcome : OnItsWay(c, kept, outcome))
      BY <1>a, <1>2, <2>2, AskEffects DEF GetSession
    <3>2. pc[c] = "getting" /\ UNCHANGED <<kept, lock, making, serverVars, closed, deaths, cancels>>
      BY <1>2 DEF GetSession
    <3>3. CASE FoundGone(c, kept)
      BY <1>a, <1>b, <2>2, <3>1, <3>2, <3>3 DEF FoundGone
    <3>4. ASSUME NEW outcome, OnItsWay(c, kept, outcome) PROVE Strangers'
      BY <1>a, <1>b, <2>2, <3>1, <3>2, <3>4 DEF OnItsWay
    <3> QED BY <3>1, <3>3, <3>4
  <2> QED BY <2>1, <2>2
<1>3. ASSUME NEW c \in Calls, TakeLock(c) PROVE Strangers'
  <2>1. CASE MadeMeanwhile
    <3>1. kept \in Servers /\ (FoundGone(c, kept) \/ \E outcome : OnItsWay(c, kept, outcome))
      BY <1>a, <1>3, <2>1, AskEffects DEF TakeLock, MadeMeanwhile
    <3>2. pc[c] = "queueing" /\ UNCHANGED <<kept, lock, making, serverVars, closed, deaths, cancels>>
      BY <1>3, <2>1 DEF TakeLock, MadeMeanwhile
    <3>3. CASE FoundGone(c, kept)
      BY <1>a, <1>b, <2>1, <3>1, <3>2, <3>3 DEF FoundGone, MadeMeanwhile
    <3>4. ASSUME NEW outcome, OnItsWay(c, kept, outcome) PROVE Strangers'
      BY <1>a, <1>b, <2>1, <3>1, <3>2, <3>4 DEF OnItsWay, MadeMeanwhile
    <3> QED BY <3>1, <3>3, <3>4
  <2>2. CASE ~MadeMeanwhile
    <3>1. PICK s \in Servers : /\ process[s] = "unborn" /\ making' = s
                              /\ process' = [process EXCEPT ![s] = "alive"]
                              /\ owner' = [owner EXCEPT ![s] = "opening"]
      BY <1>3, <2>2 DEF TakeLock, MadeMeanwhile, IsNext
    <3>2. /\ pc[c] = "queueing" /\ lock' = c /\ pc' = [pc EXCEPT ![c] = "starting"] /\ kept = None
          /\ UNCHANGED <<kept, pipe, asking, held, request, answer, met, closed, deaths, cancels>>
      BY <1>3, <2>2 DEF TakeLock, MadeMeanwhile
    <3>3. \A d \in Calls : pc[d] # "starting"
      BY <1>a, <1>3, CallsAssumption DEF TakeLock, Lock
    <3> QED BY <1>a, <1>b, <3>1, <3>2, <3>3
  <2> QED BY <2>1, <2>2
<1>4. ASSUME NEW c \in Calls, Started(c) PROVE Strangers'
  <2>1. making \in Servers
    BY <1>a, <1>4 DEF Started, Lock
  <2>2. FoundGone(c, making) \/ \E outcome : OnItsWay(c, making, outcome)
    BY <1>a, <1>4, <2>1, AskEffects DEF Started
  <2>3. /\ kept' = making /\ making' = None /\ lock' = "nobody"
        /\ UNCHANGED <<serverVars, closed, deaths, cancels>>
    BY <1>4 DEF Started
  <2>4. CASE FoundGone(c, making)
    BY <1>a, <1>b, <1>4, <2>1, <2>3, <2>4 DEF FoundGone, Started
  <2>5. ASSUME NEW outcome, OnItsWay(c, making, outcome) PROVE Strangers'
    BY <1>a, <1>b, <1>4, <2>1, <2>3, <2>5 DEF OnItsWay, Started
  <2> QED BY <2>2, <2>4, <2>5
<1>5. ASSUME NEW c \in Calls, StartFailed(c) PROVE Strangers'
  BY <1>a, <1>b, <1>5 DEF StartFailed, FindsGone
<1>6. ASSUME NEW c \in Calls, ServerAnswers(c) PROVE Strangers'
  BY <1>a, <1>b, <1>6 DEF ServerAnswers
<1>7. ASSUME NEW c \in Calls, Answered(c) PROVE Strangers'
  BY <1>a, <1>b, <1>7 DEF Answered
<1>8. ASSUME NEW c \in Calls, Lost(c) PROVE Strangers'
  BY <1>a, <1>b, <1>8 DEF Lost, LostIt, FindsGone
<1>9. ASSUME NEW c \in Calls, Forget(c) PROVE Strangers'
  <2>1. CASE StillKept(c)
    BY <1>a, <1>b, <1>9, <2>1 DEF Forget, StillKept
  <2>2. CASE ~StillKept(c) /\ asking[c] = "first"
    BY <1>a, <1>b, <1>9, <2>2 DEF Forget, StillKept, AfterForget
  <2>3. CASE ~StillKept(c) /\ asking[c] = "again"
    BY <1>a, <1>b, <1>9, <2>3 DEF Forget, StillKept, AfterForget
  <2> QED BY <1>a, <2>1, <2>2, <2>3
<1>10. ASSUME NEW c \in Calls, PutAway(c) PROVE Strangers'
  <2>1. CASE asking[c] = "first"
    BY <1>a, <1>b, <1>10, <2>1 DEF PutAway, AfterForget
  <2>2. CASE asking[c] = "again"
    BY <1>a, <1>b, <1>10, <2>2 DEF PutAway, AfterForget
  <2> QED BY <1>a, <2>1, <2>2
<1>11. ASSUME NEW c \in Calls, Cancel(c) PROVE Strangers'
  BY <1>a, <1>b, <1>11 DEF Cancel
<1>12. ASSUME NEW s \in Servers, Die(s) PROVE Strangers'
  BY <1>a, <1>b, <1>12 DEF Die
<1>13. ASSUME NEW s \in Servers, Opens(s) PROVE Strangers'
  BY <1>a, <1>b, <1>13 DEF Opens
<1>14. ASSUME NEW s \in Servers, OwnerEnds(s) PROVE Strangers'
  BY <1>a, <1>b, <1>14 DEF OwnerEnds
<1>15. ASSUME NEW s \in Servers, SessionStops(s) PROVE Strangers'
  BY <1>a, <1>b, <1>15 DEF SessionStops
<1>16. ASSUME NEW s \in Servers, GoneIsSet(s) PROVE Strangers'
  BY <1>a, <1>b, <1>16 DEF GoneIsSet
<1>17. CASE CloseSession
  BY <1>a, <1>b, <1>17 DEF CloseSession, ToldToLeave
<1>18. CASE UNCHANGED vars
  BY <1>a, <1>b, <1>18 DEF vars
<1> QED
  BY <1>1, <1>2, <1>3, <1>4, <1>5, <1>6, <1>7, <1>8, <1>9, <1>10, <1>11, <1>12, <1>13, <1>14, <1>15, <1>16, <1>17, <1>18 DEF Next

LEMMA Inductive == Spec => []IInv
<1>1. Init => IInv
  <2> SUFFICES ASSUME Init PROVE IInv
    OBVIOUS
  <2> USE BoundsAssumption DEF Init, None, Servers
  <2>1. TypeOK
    <3>1. deaths \in 0 .. MaxDeaths /\ cancels \in 0 .. MaxCancels
      OBVIOUS
    <3> QED BY <3>1 DEF TypeOK
  <2>2. Pipes /\ Lock
    BY DEF Pipes, Lock
  <2>3. Evidence /\ Strangers
    BY DEF Evidence, Strangers
  <2> QED BY <2>1, <2>2, <2>3 DEF IInv
<1>2. IInv /\ [Next]_vars => IInv'
  BY TypeKept, PipesKept, LockKept, EvidenceKept, StrangersKept DEF IInv
<1> QED BY <1>1, <1>2, PTL DEF Spec

\* The variables hold what they are meant to hold.
THEOREM TypeCorrect == Spec => []TypeOK
<1>1. IInv => TypeOK
  BY DEF IInv
<1> QED BY <1>1, Inductive, PTL

\* Nobody is told SERVER_GONE on account of one death, or of a server that lives: whatever the number of
\* calls and of deaths, two different servers failed the call, and both are dead.
THEOREM TwoServersFailIt == Spec => []GoneMeansTwoServersGone
<1>1. IInv => GoneMeansTwoServersGone
  BY DEF IInv, Evidence, Strangers, GoneMeansTwoServersGone
<1> QED BY <1>1, Inductive, PTL

\* No step takes the session away from its users while its server lives, the shutdown's apart.
THEOREM LivingSessionsStay == Spec => OnlyTheDeadAreForgotten
<1>1. IInv /\ [Next]_vars => [kept # None /\ kept' # kept =>
                              kept' = None /\ (process[kept] = "dead" \/ closed' # closed)]_vars
  <2> SUFFICES ASSUME IInv, Next, kept # None, kept' # kept
               PROVE kept' = None /\ (process[kept] = "dead" \/ closed' # closed)
    BY DEF vars
  <2> USE DEF IInv, TypeOK, None, Servers, serverVars, callVars
  <2>1. ASSUME NEW c \in Calls, Started(c) PROVE FALSE
    BY <2>1 DEF Started, Lock
  <2>2. ASSUME NEW c \in Calls, Forget(c) PROVE kept' = None /\ process[kept] = "dead"
    BY <2>2 DEF Forget, StillKept, Evidence
  <2>3. CASE CloseSession
    BY <2>3 DEF CloseSession
  <2> QED
    BY <2>1, <2>2, <2>3
    DEF Next, CallTool, GetSession, TakeLock, StartFailed, ServerAnswers, Answered, Lost, PutAway, Cancel,
        Die, Opens, OwnerEnds, SessionStops, GoneIsSet
<1> QED BY <1>1, Inductive, PTL DEF Spec, OnlyTheDeadAreForgotten

-----------------------------------------------------------------------------
(* One server between them                                                 *)

\* The processes that nobody answers for.
Orphans == {s \in Servers : process[s] = "alive"} \ AnsweredFor

\* A free lock starts nothing, and the session that is kept is one whose owning task has opened it.
KeptIsUp ==
  /\ lock = "nobody" => making = None
  /\ kept # None => owner[kept] \in {"holding", "leaving", "ended"}

\* The lock and the start it is held for begin and end together; what is kept has been opened.
LEMMA KeptIsUpKept == Spec => []KeptIsUp
<1>1. Init => KeptIsUp
  BY DEF Init, KeptIsUp
<1>2. IInv /\ KeptIsUp /\ [Next]_vars => KeptIsUp'
  <2> SUFFICES ASSUME IInv, KeptIsUp, [Next]_vars PROVE KeptIsUp'
    OBVIOUS
  <2>a. TypeOK /\ Lock
    BY DEF IInv
  <2> USE DEF KeptIsUp, TypeOK, serverVars, callVars, None, Servers
  <2>1. ASSUME NEW c \in Calls, TakeLock(c) PROVE KeptIsUp'
    <3>1. lock' \in {"nobody", c} /\ UNCHANGED kept /\ (lock' = "nobody" => UNCHANGED <<lock, making>>)
      BY <2>1, CallsAssumption DEF TakeLock
    <3>2. kept # None => UNCHANGED owner
      BY <2>1 DEF TakeLock, MadeMeanwhile
    <3> QED BY <3>1, <3>2
  <2>2. ASSUME NEW c \in Calls, Started(c) PROVE KeptIsUp'
    BY <2>a, <2>2 DEF Started
  <2>3. ASSUME NEW c \in Calls, StartFailed(c) PROVE KeptIsUp'
    BY <2>3 DEF StartFailed
  <2>4. ASSUME NEW c \in Calls, Forget(c) PROVE KeptIsUp'
    BY <2>4 DEF Forget
  <2>5. ASSUME NEW c \in Calls, Cancel(c) PROVE KeptIsUp'
    BY <2>5 DEF Cancel
  <2>6. ASSUME NEW s \in Servers, Opens(s) \/ OwnerEnds(s) PROVE KeptIsUp'
    <3>1. UNCHANGED <<lock, making, kept>>
      BY <2>6 DEF Opens, OwnerEnds
    <3>2. owner' = [owner EXCEPT ![s] = "holding"] \/ owner' = [owner EXCEPT ![s] = "ended"]
      BY <2>6 DEF Opens, OwnerEnds
    <3>3. kept # None => owner'[kept] \in {owner[kept], "holding", "ended"}
      BY <2>a, <3>2
    <3> QED BY <3>1, <3>3
  <2>7. CASE CloseSession
    BY <2>7 DEF CloseSession
  <2>8. ASSUME UNCHANGED <<lock, making, kept, owner>> PROVE KeptIsUp'
    BY <2>8
  <2> QED
    BY <2>1, <2>2, <2>3, <2>4, <2>5, <2>6, <2>7, <2>8
    DEF Next, CallTool, GetSession, ServerAnswers, Answered, Lost, PutAway, Die, SessionStops, GoneIsSet, vars
<1> QED BY <1>1, <1>2, Inductive, PTL DEF Spec

\* A step leaves no living server behind, but for the cancellation of a call that waits for a start.
LEMMA OneMoreForACancel ==
  ASSUME IInv, KeptIsUp, [Next]_vars
  PROVE  \/ Orphans' \subseteq Orphans /\ UNCHANGED cancels
         \/ Orphans' \subseteq Orphans \cup {making} /\ cancels' = cancels + 1
<1> DEFINE Kept == Orphans' \subseteq Orphans /\ UNCHANGED cancels
<1>a. TypeOK /\ Lock /\ Pipes
  BY DEF IInv
<1> USE DEF Orphans, AnsweredFor, TypeOK, serverVars, callVars, None, Servers
<1>1. ASSUME NEW c \in Calls, TakeLock(c) PROVE Kept
  <2>1. CASE MadeMeanwhile
    BY <1>1, <2>1 DEF TakeLock, MadeMeanwhile
  <2>2. CASE ~MadeMeanwhile
    <3>1. PICK s \in Servers : /\ making' = s
                              /\ process' = [process EXCEPT ![s] = "alive"]
                              /\ owner' = [owner EXCEPT ![s] = "opening"]
                              /\ process[s] = "unborn"
      BY <1>1, <2>2 DEF TakeLock, MadeMeanwhile, IsNext
    <3>2. making = None /\ kept = None /\ kept' = None /\ UNCHANGED cancels
      BY <1>1, <2>2 DEF TakeLock, MadeMeanwhile, KeptIsUp
    <3> QED BY <1>a, <3>1, <3>2 DEF Pipes
  <2> QED BY <2>1, <2>2
<1>2. ASSUME NEW c \in Calls, Started(c) PROVE Kept
  BY <1>a, <1>2 DEF Started, Lock
<1>3. ASSUME NEW c \in Calls, StartFailed(c) PROVE Kept
  BY <1>a, <1>3 DEF StartFailed, Lock, Pipes
<1>4. ASSUME NEW c \in Calls, Forget(c) PROVE Kept
  <2>1. CASE StillKept(c)
    <3>1. kept # None /\ owner' = ToldToLeave(kept) /\ kept' = None /\ UNCHANGED <<making, process, pipe, cancels>>
      BY <1>4, <2>1 DEF Forget, StillKept
    <3>2. owner[kept] = "ended" => process[kept] = "dead"
      BY <1>a, <3>1 DEF Pipes
    <3> QED BY <1>a, <3>1, <3>2 DEF ToldToLeave, KeptIsUp
  <2>2. CASE ~StillKept(c)
    BY <1>4, <2>2 DEF Forget
  <2> QED BY <2>1, <2>2
<1>5. ASSUME NEW c \in Calls, Cancel(c)
      PROVE  Orphans' \subseteq Orphans \cup {making} /\ cancels' = cancels + 1
  BY <1>a, <1>5 DEF Cancel
<1>6. ASSUME NEW s \in Servers, Die(s) \/ Opens(s) \/ OwnerEnds(s) PROVE Kept
  <2>1. CASE Die(s)
    BY <1>a, <2>1 DEF Die
  <2>2. CASE Opens(s)
    BY <1>a, <2>2 DEF Opens
  <2>3. CASE OwnerEnds(s)
    BY <1>a, <2>3 DEF OwnerEnds
  <2> QED BY <1>6, <2>1, <2>2, <2>3
<1>7. CASE CloseSession
  <2>1. CASE kept = None
    BY <1>7, <2>1 DEF CloseSession
  <2>2. CASE kept # None
    <3>1. owner' = ToldToLeave(kept) /\ kept' = None /\ UNCHANGED <<making, process, pipe, cancels>>
      BY <1>7, <2>2 DEF CloseSession
    <3>2. owner[kept] = "ended" => process[kept] = "dead"
      BY <1>a, <2>2 DEF Pipes
    <3> QED BY <1>a, <2>2, <3>1, <3>2 DEF ToldToLeave, KeptIsUp
  <2> QED BY <2>1, <2>2
<1>8. ASSUME UNCHANGED <<process, owner, kept, making, cancels>> PROVE Kept
  BY <1>8
<1> QED
  BY <1>1, <1>2, <1>3, <1>4, <1>5, <1>6, <1>7, <1>8
  DEF Next, CallTool, GetSession, ServerAnswers, Answered, Lost, PutAway, SessionStops, GoneIsSet, vars

\* Whatever dies, however many calls notice and in whichever order: one server is started between them,
\* and no living one is left behind, except one at most for each call cancelled.
THEOREM OneServerForAll == Spec => []OneServerBetweenThem
<1>1. Init => OneServerBetweenThem
  <2> SUFFICES ASSUME Init PROVE OneServerBetweenThem
    OBVIOUS
  <2>1. {s \in Servers : process[s] = "alive"} \ AnsweredFor = {}
    BY DEF Init
  <2> QED BY <2>1, FS_EmptySet DEF Init, OneServerBetweenThem
<1>2. IInv /\ KeptIsUp /\ OneServerBetweenThem /\ [Next]_vars => OneServerBetweenThem'
  <2> SUFFICES ASSUME IInv, KeptIsUp, OneServerBetweenThem, [Next]_vars PROVE OneServerBetweenThem'
    OBVIOUS
  <2>1. IsFiniteSet(Servers)
    BY BoundsAssumption, FS_Interval DEF Servers
  <2>2. IsFiniteSet(Orphans)
    BY <2>1, FS_Subset DEF Orphans
  <2>3. /\ IsFiniteSet(Orphans \cup {making})
        /\ Cardinality(Orphans \cup {making}) <= Cardinality(Orphans) + 1
        /\ Cardinality(Orphans) \in Nat
    <3>1. Cardinality(Orphans) \in Nat
      BY <2>2, FS_CardinalityType
    <3>2. /\ IsFiniteSet(Orphans \cup {making})
          /\ Cardinality(Orphans \cup {making})
               = IF making \in Orphans THEN Cardinality(Orphans) ELSE Cardinality(Orphans) + 1
      BY <2>2, FS_AddElement
    <3> QED BY <3>1, <3>2
  <2>4. Cardinality(Orphans) <= cancels /\ cancels \in Nat
    BY BoundsAssumption DEF OneServerBetweenThem, Orphans, IInv, TypeOK
  <2>5. Cardinality(Orphans') <= cancels'
    <3>1. CASE Orphans' \subseteq Orphans /\ UNCHANGED cancels
      <4>1. Cardinality(Orphans') <= Cardinality(Orphans) /\ Cardinality(Orphans') \in Nat
        BY <2>2, <3>1, FS_Subset, FS_CardinalityType
      <4> QED BY <2>3, <2>4, <3>1, <4>1
    <3>2. CASE Orphans' \subseteq Orphans \cup {making} /\ cancels' = cancels + 1
      <4>1. Cardinality(Orphans') <= Cardinality(Orphans \cup {making}) /\ Cardinality(Orphans') \in Nat
        BY <2>3, <3>2, FS_Subset, FS_CardinalityType
      <4>2. Cardinality(Orphans \cup {making}) \in Nat
        BY <2>3, FS_CardinalityType
      <4> QED BY <2>3, <2>4, <3>2, <4>1, <4>2
    <3> QED BY <3>1, <3>2, OneMoreForACancel
  <2> QED BY <2>5 DEF OneServerBetweenThem, Orphans
<1> QED BY <1>1, <1>2, Inductive, KeptIsUpKept, PTL DEF Spec

=============================================================================
