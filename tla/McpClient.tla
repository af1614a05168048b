------------------------------ MODULE McpClient ------------------------------
(***************************************************************************)
(* The backend's one session to its tool server                            *)
(* (src/ai/mcp_client/client.py).  Every search a plan makes is a call of  *)
(* a tool in another process.  The session to that process is made by the  *)
(* first call that needs it and shared by all; the process can die at any  *)
(* moment, and then the calls that notice let go of the session, start     *)
(* another server between them, and ask once more.                         *)
(*                                                                         *)
(* Everything here runs on one event loop, so a step is what the code does *)
(* between two awaits.  The library's own tasks (the one that reads a      *)
(* server's answers, the scope that cancels its host) are modelled by what *)
(* the code's comments and its use of them say they do.                    *)
(*                                                                         *)
(* What a tool answers, an error included, is abstracted to "answered".    *)
(* A call that wants the lock queues for it as a step of its own, also     *)
(* when it is free: one more place to be overtaken than the code has.      *)
(***************************************************************************)
EXTENDS Naturals, FiniteSets

CONSTANTS
  Calls,       \* the tool calls made while the backend runs
  MaxDeaths,   \* bound: how often a tool server's process dies
  MaxCancels   \* bound: how many calls are cancelled (a run's deadline, a shutdown)

ASSUME CallsAssumption == IsFiniteSet(Calls) /\ "nobody" \notin Calls
ASSUME BoundsAssumption == MaxDeaths \in Nat /\ MaxCancels \in Nat

\* A server is started only when no session is kept: at first, and after a death, a cancelled
\* start or the shutdown's close_session.  So these are enough for every start there can be.
Servers == 1 .. (MaxDeaths + MaxCancels + 2)
None == 0

VARIABLES
  kept,     \* the server of _session and _client_context; None when there is none
  lock,     \* who holds _get_lock() across an await: the call that is starting a server
  making,   \* the _ToolServer that call is waiting for
  process,  \* the tool servers' processes
  owner,    \* how far each _ToolServer's own task (_own) is
  pipe,     \* per server: "open"; "quiet", the session has failed what it was waiting for;
            \* "gone", the event of that name is set
  pc,       \* where each call is
  asking,   \* the loop variable of _call_tool
  held,     \* the session each call got; None when it got none
  request,  \* what became of the request it sent
  answer,   \* what the call returned
  met,      \* history: the servers it found gone or could not start
  closed,   \* close_session has run
  deaths, cancels

serverVars == <<process, owner, pipe>>
callVars == <<pc, asking, held, request, answer, met>>
vars == <<kept, lock, making, serverVars, callVars, closed, deaths, cancels>>

TypeOK ==
  /\ kept \in Servers \cup {None}
  /\ lock \in Calls \cup {"nobody"}
  /\ making \in Servers \cup {None}
  /\ process \in [Servers -> {"unborn", "alive", "dead"}]
  /\ owner \in [Servers -> {"none", "opening", "holding", "leaving", "ended"}]
  /\ pipe \in [Servers -> {"open", "quiet", "gone"}]
  /\ pc \in [Calls -> {"idle", "getting", "queueing", "starting", "asks",
                       "letting_go", "putting_away", "done"}]
  /\ asking \in [Calls -> {"first", "again"}]
  /\ held \in [Calls -> Servers \cup {None}]
  /\ request \in [Calls -> {"none", "sent", "unheard", "answered", "failed"}]
  /\ answer \in [Calls -> {"none", "answered", "SERVER_GONE", "cancelled"}]
  /\ met \in [Calls -> SUBSET Servers]
  /\ closed \in BOOLEAN
  /\ deaths \in 0 .. MaxDeaths
  /\ cancels \in 0 .. MaxCancels

Init ==
  /\ kept = None /\ lock = "nobody" /\ making = None
  /\ process = [s \in Servers |-> "unborn"]
  /\ owner = [s \in Servers |-> "none"]
  /\ pipe = [s \in Servers |-> "open"]
  /\ pc = [c \in Calls |-> "idle"]
  /\ asking = [c \in Calls |-> "first"]
  /\ held = [c \in Calls |-> None]
  /\ request = [c \in Calls |-> "none"]
  /\ answer = [c \in Calls |-> "none"]
  /\ met = [c \in Calls |-> {}]
  /\ closed = FALSE /\ deaths = 0 /\ cancels = 0

(* ---------------------------------------------------------------------- *)
(* Asking, and being answered                                             *)
(* ---------------------------------------------------------------------- *)

\* The call goes on to _forget what it found gone: `session` is None when there was none to get.
FindsGone(c, session, server) ==
  /\ pc' = [pc EXCEPT ![c] = "letting_go"]
  /\ held' = [held EXCEPT ![c] = session]
  /\ request' = [request EXCEPT ![c] = "none"]
  /\ met' = [met EXCEPT ![c] = @ \cup {server}]
  /\ UNCHANGED <<asking, answer>>

\* What becomes of a request that is sent: the session may already have stopped listening.
Sent(s) == IF pipe[s] = "open" THEN {"sent"} ELSE {"unheard", "failed"}

\* The server behind the session is known to be gone before the request is sent: its event is set, or
\* its task has ended, and then the library refuses the request at once.
KnownGone(s) == pipe[s] = "gone" \/ owner[s] = "ended"

\* get_session returned server s's session and _ask runs to its first await, all in one step.
_ask(c, s) ==
  \/ /\ KnownGone(s)
     /\ FindsGone(c, s, s)
  \/ /\ ~KnownGone(s)
     /\ \E outcome \in Sent(s) : request' = [request EXCEPT ![c] = outcome]
     /\ pc' = [pc EXCEPT ![c] = "asks"]
     /\ held' = [held EXCEPT ![c] = s]
     /\ UNCHANGED <<asking, answer, met>>

\* A call of a tool begins.
CallTool(c) ==
  /\ pc[c] = "idle"
  /\ pc' = [pc EXCEPT ![c] = "getting"]
  /\ UNCHANGED <<kept, lock, making, serverVars, asking, held, request, answer, met, closed, deaths, cancels>>

\* get_session's fast path; without a session the call queues for the lock.
GetSession(c) ==
  /\ pc[c] = "getting"
  /\ \/ kept # None /\ _ask(c, kept)
     \/ /\ kept = None
        /\ pc' = [pc EXCEPT ![c] = "queueing"]
        /\ UNCHANGED <<asking, held, request, answer, met>>
  /\ UNCHANGED <<kept, lock, making, serverVars, closed, deaths, cancels>>

\* A second start that does not look again at what the lock was waited for.
NotLookedAgain == FALSE

\* With the lock taken, get_session looks again whether a session was made meanwhile.
MadeMeanwhile == kept # None

\* The next server: they are numbered as they are started.
IsNext(s) == process[s] = "unborn" /\ \A t \in Servers : t < s => process[t] # "unborn"

\* The call has the lock: it uses what another made meanwhile, or starts a server.
TakeLock(c) ==
  /\ pc[c] = "queueing"
  /\ lock = "nobody"
  /\ \/ /\ MadeMeanwhile
        /\ _ask(c, kept)
        /\ UNCHANGED <<lock, making, serverVars>>
     \/ /\ ~MadeMeanwhile
        /\ \E s \in Servers :
             /\ IsNext(s)
             /\ making' = s
             /\ process' = [process EXCEPT ![s] = "alive"]
             /\ owner' = [owner EXCEPT ![s] = "opening"]
        /\ lock' = c
        /\ pc' = [pc EXCEPT ![c] = "starting"]
        /\ UNCHANGED <<pipe, asking, held, request, answer, met>>
  /\ UNCHANGED <<kept, closed, deaths, cancels>>

\* The server answered `initialize`: only now is it kept; the call asks it.
Started(c) ==
  /\ pc[c] = "starting"
  /\ owner[making] = "holding"
  /\ kept' = making /\ making' = None /\ lock' = "nobody"
  /\ _ask(c, making)
  /\ UNCHANGED <<serverVars, closed, deaths, cancels>>

\* It would not start: nothing is kept, and the call has no session to forget.
StartFailed(c) ==
  /\ pc[c] = "starting"
  /\ owner[making] = "ended"
  /\ making' = None /\ lock' = "nobody"
  /\ FindsGone(c, None, making)
  /\ UNCHANGED <<kept, serverVars, closed, deaths, cancels>>

\* The tool server answers a request it was sent.
ServerAnswers(c) ==
  /\ pc[c] = "asks" /\ request[c] = "sent"
  /\ process[held[c]] = "alive" /\ pipe[held[c]] = "open"
  /\ request' = [request EXCEPT ![c] = "answered"]
  /\ UNCHANGED <<kept, lock, making, serverVars, pc, asking, held, answer, met, closed, deaths, cancels>>

\* _ask returns what came back.  An answer that arrived is taken even if the pipe has closed since.
Answered(c) ==
  /\ pc[c] = "asks" /\ request[c] = "answered"
  /\ pc' = [pc EXCEPT ![c] = "done"]
  /\ answer' = [answer EXCEPT ![c] = "answered"]
  /\ UNCHANGED <<kept, lock, making, serverVars, asking, held, request, met, closed, deaths, cancels>>

\* The wait as it was before the pipe was watched: only the library can end it.
OnlyTheLibrary(c) == request[c] = "failed"

\* What ends the wait for an answer other than the answer: the library failed the request, or the
\* event beside it says the pipe is gone.
LostIt(c) == request[c] = "failed" \/ pipe[held[c]] = "gone"

Lost(c) ==
  /\ pc[c] = "asks" /\ request[c] # "answered"
  /\ LostIt(c)
  /\ FindsGone(c, held[c], held[c])
  /\ UNCHANGED <<kept, lock, making, serverVars, closed, deaths, cancels>>

(* ---------------------------------------------------------------------- *)
(* Letting go of a dead server                                            *)
(* ---------------------------------------------------------------------- *)

\* A _forget that lets go of whatever is kept, and one that never lets go.
WhateverIsKept(c) == kept # None
NeverLetsGo(c) == FALSE

\* _forget's check: the session is still the one this call found gone.
StillKept(c) == held[c] # None /\ kept = held[c]

\* _ToolServer.stop: the owning task is told to leave.
ToldToLeave(s) == [owner EXCEPT ![s] = IF @ = "holding" THEN "leaving" ELSE @]

\* One asking too many.
AsksAThirdTime(c) ==
  /\ asking' = [asking EXCEPT ![c] = IF @ = "first" THEN "again" ELSE "third"]
  /\ pc' = [pc EXCEPT ![c] = "getting"]
  /\ held' = [held EXCEPT ![c] = None]
  /\ UNCHANGED answer

\* After _forget: asked once already, the call asks again; asked twice, it says what it found.
AfterForget(c) ==
  \/ /\ asking[c] = "first"
     /\ asking' = [asking EXCEPT ![c] = "again"]
     /\ pc' = [pc EXCEPT ![c] = "getting"]
     /\ held' = [held EXCEPT ![c] = None]
     /\ UNCHANGED answer
  \/ /\ asking[c] = "again"
     /\ answer' = [answer EXCEPT ![c] = "SERVER_GONE"]
     /\ pc' = [pc EXCEPT ![c] = "done"]
     /\ UNCHANGED <<asking, held>>

\* _forget, once it has the lock.
Forget(c) ==
  /\ pc[c] = "letting_go"
  /\ lock = "nobody"
  /\ \/ /\ StillKept(c)
        /\ owner' = ToldToLeave(kept)
        /\ kept' = None
        /\ pc' = [pc EXCEPT ![c] = "putting_away"]
        /\ UNCHANGED <<asking, held, answer>>
     \/ /\ ~StillKept(c)
        /\ AfterForget(c)
        /\ UNCHANGED <<kept, owner>>
  /\ UNCHANGED <<lock, making, process, pipe, request, met, closed, deaths, cancels>>

\* stop() is done: the owning task has ended, or CLEANUP_S has passed and it is cancelled.
PutAway(c) ==
  /\ pc[c] = "putting_away"
  /\ AfterForget(c)
  /\ UNCHANGED <<kept, lock, making, serverVars, request, met, closed, deaths, cancels>>

\* The run the call belongs to is cancelled: whatever the call was waiting for, it is not any more.
\* Waiting for a start it lets the lock go, and the server it was starting is nobody's.
Cancel(c) ==
  /\ pc[c] \notin {"idle", "getting", "done"}
  /\ cancels < MaxCancels
  /\ cancels' = cancels + 1
  /\ pc' = [pc EXCEPT ![c] = "done"]
  /\ answer' = [answer EXCEPT ![c] = "cancelled"]
  /\ \/ pc[c] = "starting" /\ lock' = "nobody" /\ making' = None
     \/ pc[c] # "starting" /\ UNCHANGED <<lock, making>>
  /\ UNCHANGED <<kept, serverVars, asking, held, request, met, closed, deaths>>

\* close_session, at shutdown.  Searches that belong to no run can outlive it, and start a server again.
CloseSession ==
  /\ ~closed /\ lock = "nobody"
  /\ closed' = TRUE
  /\ kept' = None
  /\ owner' = IF kept = None THEN owner ELSE ToldToLeave(kept)
  /\ UNCHANGED <<lock, making, process, pipe, callVars, deaths, cancels>>

(* ---------------------------------------------------------------------- *)
(* The tool server's process, and the task that owns it                   *)
(* ---------------------------------------------------------------------- *)

Die(s) ==
  /\ process[s] = "alive" /\ deaths < MaxDeaths
  /\ deaths' = deaths + 1
  /\ process' = [process EXCEPT ![s] = "dead"]
  /\ UNCHANGED <<kept, lock, making, owner, pipe, callVars, closed, cancels>>

\* _own: the server answered `initialize`.
Opens(s) ==
  /\ owner[s] = "opening" /\ process[s] = "alive"
  /\ owner' = [owner EXCEPT ![s] = "holding"]
  /\ UNCHANGED <<kept, lock, making, process, pipe, callVars, closed, deaths, cancels>>

\* _own ends: the server died before it was up; the library cancelled the task when a request could
\* not be written to a dead process; or the task was told to leave, and takes the process with it.
OwnerEnds(s) ==
  /\ \/ owner[s] = "opening" /\ process[s] = "dead"
     \/ owner[s] = "holding" /\ process[s] = "dead" /\ \E c \in Calls : pc[c] = "asks" /\ held[c] = s
     \/ owner[s] = "leaving"
  /\ owner' = [owner EXCEPT ![s] = "ended"]
  /\ pipe' = [pipe EXCEPT ![s] = "gone"]
  /\ process' = [process EXCEPT ![s] = "dead"]
  /\ UNCHANGED <<kept, lock, making, callVars, closed, deaths, cancels>>

\* The library's reading task sees the pipe close: it fails the requests it knows of and stops.
\* One that is on its way at that moment is neither answered nor failed.
SessionStops(s) ==
  /\ process[s] = "dead" /\ owner[s] \in {"holding", "leaving"} /\ pipe[s] = "open"
  /\ pipe' = [pipe EXCEPT ![s] = "quiet"]
  /\ LET waiting == {c \in Calls : pc[c] = "asks" /\ held[c] = s /\ request[c] = "sent"} IN
     \E unheard \in SUBSET waiting :
       request' = [c \in Calls |-> IF c \in unheard THEN "unheard"
                                   ELSE IF c \in waiting THEN "failed" ELSE request[c]]
  /\ UNCHANGED <<kept, lock, making, process, owner, pc, asking, held, answer, met, closed, deaths, cancels>>

\* _pass_on, which hands the server's answers on, sees it too and sets the event.
GoneIsSet(s) ==
  /\ process[s] = "dead" /\ owner[s] \in {"holding", "leaving"} /\ pipe[s] # "gone"
  /\ pipe' = [pipe EXCEPT ![s] = "gone"]
  /\ UNCHANGED <<kept, lock, making, process, owner, callVars, closed, deaths, cancels>>

(* ---------------------------------------------------------------------- *)

CallStep(c) ==
  \/ GetSession(c) \/ TakeLock(c) \/ Started(c) \/ StartFailed(c)
  \/ Answered(c) \/ Lost(c) \/ Forget(c) \/ PutAway(c)

ServerStep(s) == Opens(s) \/ OwnerEnds(s) \/ GoneIsSet(s)


Next ==
  \/ \E c \in Calls :
       \/ CallTool(c) \/ GetSession(c) \/ TakeLock(c) \/ Started(c) \/ StartFailed(c)
       \/ ServerAnswers(c) \/ Answered(c) \/ Lost(c) \/ Forget(c) \/ PutAway(c) \/ Cancel(c)
  \/ \E s \in Servers : Die(s) \/ Opens(s) \/ OwnerEnds(s) \/ SessionStops(s) \/ GoneIsSet(s)
  \/ CloseSession

\* The event loop runs every task that can run.  A living server answers what it is asked (each of its
\* tools bounds its own waits) and comes up or dies; nothing forces a death, a cancellation or a shutdown.
Fairness ==
  /\ \A c \in Calls : WF_vars(CallStep(c)) /\ WF_vars(ServerAnswers(c))
  /\ \A s \in Servers : WF_vars(ServerStep(s))

Spec == Init /\ [][Next]_vars /\ Fairness

(* ---------------------------------------------------------------------- *)
(* What the client promises                                               *)
(* ---------------------------------------------------------------------- *)

\* The server processes somebody answers for: the one that is kept, the one the holder of the lock is
\* starting, and those told to leave.
AnsweredFor == {s \in Servers : s \in {kept, making} \/ owner[s] = "leaving"}

\* However many calls find the server dead together, they start one other between them, and no living
\* server process is left behind (client.py:10-15, 223-224, 254-265): except by a call that is
\* cancelled while it waits for a start, for which start() has no clean-up.  One each, and no more.
OneServerBetweenThem ==
  Cardinality({s \in Servers : process[s] = "alive"} \ AnsweredFor) <= cancels

\* A session in use is let go of only when its server is dead, or by the shutdown: no call that comes
\* late to a death takes the new server away from those already asking it (_forget, client.py:281-283).
OnlyTheDeadAreForgotten ==
  [][kept # None /\ kept' # kept => kept' = None /\ (process[kept] = "dead" \/ closed' # closed)]_vars

\* A caller that is told the tool server could not be reached had two different servers fail it, and
\* both are dead: nobody is turned away by one death, or asks the dead server a second time
\* (_call_tool, client.py:376-393).
GoneMeansTwoServersGone ==
  \A c \in Calls : answer[c] = "SERVER_GONE" =>
    /\ \E s, t \in met[c] : s # t
    /\ \A s \in met[c] : process[s] = "dead"

\* Every call returns, though a request sent as the pipe closes is never answered and never failed
\* (_pass_on, client.py:169-173; _ask, 294-313), and though calls queue behind one that starts a server.
EveryCallReturns == \A c \in Calls : pc[c] # "idle" ~> pc[c] = "done"

=============================================================================
