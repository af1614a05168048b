------------------------------ MODULE Outbound ------------------------------
(***************************************************************************)
(* The one way a request leaves for a provider                             *)
(* (src/ai/mcp_server/outbound.py and rate_limiter.py): up to ATTEMPTS     *)
(* attempts, each in its turn of the provider's rate limit, with a wait    *)
(* between them.  Searches call send from threads of their own, several at *)
(* once; all of them share the provider's one RateLimiter.                 *)
(*                                                                         *)
(* A monotonic clock has no zero, so every moment is written as what it is *)
(* ahead of now (behind, when negative), and the tick of the clock moves   *)
(* them all.  A moment a whole window or more behind is no different from  *)
(* one exactly a window behind, which keeps the model finite without a     *)
(* bound on time.                                                          *)
(***************************************************************************)
EXTENDS Integers, Sequences, FiniteSets

CONSTANTS
  Senders,      \* the threads in which searches call send, once each
  CALLS,        \* Limit.calls of the provider
  PERIOD,       \* Limit.period: the provider's own window, in ticks
  HEADROOM,     \* how many ticks longer the limiter's window is
  MAX_WAIT,     \* MAX_WAIT_S
  ATTEMPTS,
  MAX_BACKOFF

ASSUME LimitAssumption ==
  /\ CALLS \in Nat \ {0} /\ PERIOD \in Nat \ {0} /\ HEADROOM \in Nat /\ MAX_WAIT \in Nat
ASSUME RetryAssumption == ATTEMPTS \in Nat \ {0} /\ MAX_BACKOFF \in Nat \ {0}

VARIABLES
  moments,   \* RateLimiter._moments: when the last CALLS requests went or will go, oldest first
  at,        \* where each send is
  due,       \* how far ahead the moment is it waits for: its turn, or the end of its backoff
  attempts,
  outcome,   \* what send returned or raised
  reached    \* how many ticks ago each attempt reached the provider; PERIOD: longer ago, or never

vars == <<moments, at, due, attempts, outcome, reached>>

Window == PERIOD + HEADROOM
Later(m, n) == IF m >= n THEN m ELSE n
Earlier(m, n) == IF m <= n THEN m ELSE n

\* Every attempt there can be: whose, and which of its sender's.
Sends == Senders \X (1 .. ATTEMPTS)

\* What can come of an attempt.  "unsent" is a connection that was never made.
Answers == {"ok", "429", "5xx", "other", "unsent", "timeout"}

TypeOK ==
  /\ moments \in Seq(-Window .. MAX_WAIT) /\ Len(moments) <= CALLS
  /\ at \in [Senders -> {"idle", "asking", "waiting", "backing_off", "over"}]
  /\ due \in [Senders -> -HEADROOM .. Later(MAX_WAIT, MAX_BACKOFF)]
  /\ attempts \in [Senders -> 0 .. ATTEMPTS]
  /\ outcome \in [Senders -> {"none", "response", "error", "QueueFull", "StillLimited"}]
  /\ reached \in [Sends -> 0 .. PERIOD]

Init ==
  /\ moments = <<>>
  /\ at = [s \in Senders |-> "idle"]
  /\ due = [s \in Senders |-> 0]
  /\ attempts = [s \in Senders |-> 0]
  /\ outcome = [s \in Senders |-> "none"]
  /\ reached = [x \in Sends |-> PERIOD]

(* ---------------------------------------------------------------------- *)
(* RateLimiter                                                            *)
(* ---------------------------------------------------------------------- *)

\* Mutant: a window as long as the provider's own.
NoLonger == PERIOD

\* The limiter's own window: a tenth longer than the provider's.
Kept == Window

\* Mutant: a window after the newest request on record, not after the oldest.
BehindTheNewest ==
  IF Len(moments) = CALLS THEN Later(0, moments[CALLS] + Kept) ELSE 0

\* The earliest moment that keeps the limit.
NextMoment ==
  IF Len(moments) = CALLS THEN Later(0, Head(moments) + Kept) ELSE 0

\* deque(maxlen=calls).append
Handed(m) == IF Len(moments) = CALLS THEN Append(Tail(moments), m) ELSE Append(moments, m)

(* ---------------------------------------------------------------------- *)
(* send                                                                   *)
(* ---------------------------------------------------------------------- *)

Ends(s, how) ==
  /\ at' = [at EXCEPT ![s] = "over"]
  /\ outcome' = [outcome EXCEPT ![s] = how]

\* Mutant: every attempt is the first.
Afresh(tried) == 1

\* attempts += 1
OneMore(tried) == tried + 1

Send(s) ==
  /\ at[s] = "idle"
  /\ at' = [at EXCEPT ![s] = "asking"]
  /\ UNCHANGED <<moments, due, attempts, outcome, reached>>

\* One attempt begins with acquire: under its lock, a turn is taken or the queue is too long to join.
Acquire(s) ==
  /\ at[s] = "asking"
  /\ attempts' = [attempts EXCEPT ![s] = OneMore(@)]
  /\ \/ /\ NextMoment > MAX_WAIT
        /\ Ends(s, "QueueFull")
        /\ UNCHANGED <<moments, due>>
     \/ /\ NextMoment <= MAX_WAIT
        /\ moments' = Handed(NextMoment)
        /\ due' = [due EXCEPT ![s] = NextMoment]
        /\ at' = [at EXCEPT ![s] = "waiting"]
        /\ UNCHANGED outcome
  /\ UNCHANGED reached

\* An answer a second try can change.
_worth_retrying(answer) == answer \in {"429", "5xx", "unsent"}

\* Mutant: whatever failed is tried again, the last attempt's failure as well.
NeverGivesUp(tried) == TRUE

\* stop_after_attempt(ATTEMPTS)
MoreToCome(tried) == tried < ATTEMPTS

\* What send makes of its last answer.
LastWord(answer) ==
  CASE answer = "ok" -> "response"
    [] answer = "429" -> "StillLimited"
    [] OTHER -> "error"

\* Once its turn has come the request leaves, and arrives within HEADROOM ticks of it; one that was
\* never sent is not counted by the provider.
Attempt(s) ==
  /\ at[s] = "waiting" /\ due[s] <= 0
  /\ \E answer \in Answers :
       /\ reached' = IF answer = "unsent" THEN reached
                     ELSE [reached EXCEPT ![<<s, attempts[s]>>] = 0]
       /\ \/ /\ _worth_retrying(answer) /\ MoreToCome(attempts[s])
             /\ at' = [at EXCEPT ![s] = "backing_off"]
             /\ \E wait \in 1 .. MAX_BACKOFF : due' = [due EXCEPT ![s] = wait]
             /\ UNCHANGED outcome
          \/ /\ ~(_worth_retrying(answer) /\ MoreToCome(attempts[s]))
             /\ Ends(s, LastWord(answer))
             /\ UNCHANGED due
  /\ UNCHANGED <<moments, attempts>>

\* Mutant: the retry leaves at once, in no turn of its own.
InNoTurn == "waiting"

\* After the wait each attempt takes its turn anew.
AfterBackoff == "asking"

TryAgain(s) ==
  /\ at[s] = "backing_off" /\ due[s] <= 0
  /\ at' = [at EXCEPT ![s] = AfterBackoff]
  /\ UNCHANGED <<moments, due, attempts, outcome, reached>>

(* ---------------------------------------------------------------------- *)

\* A request that has had its turn is on its way for HEADROOM ticks at the most.
NobodyIsLate == \A s \in Senders : at[s] = "waiting" => due[s] > -HEADROOM

Tick ==
  /\ NobodyIsLate
  /\ moments' = [i \in 1 .. Len(moments) |-> Later(moments[i] - 1, -Window)]
  /\ due' = [s \in Senders |-> IF at[s] \in {"waiting", "backing_off"}
                               THEN Later(due[s] - 1, -HEADROOM) ELSE 0]
  /\ reached' = [x \in Sends |-> Earlier(reached[x] + 1, PERIOD)]
  /\ UNCHANGED <<at, attempts, outcome>>

Next ==
  \/ \E s \in Senders : Send(s) \/ Acquire(s) \/ Attempt(s) \/ TryAgain(s)
  \/ Tick

\* The clock runs, and a thread that can go on does.
Fairness ==
  /\ WF_vars(Tick)
  /\ \A s \in Senders : WF_vars(Acquire(s) \/ Attempt(s) \/ TryAgain(s))

Spec == Init /\ [][Next]_vars /\ Fairness

(* ---------------------------------------------------------------------- *)
(* Properties                                                             *)
(* ---------------------------------------------------------------------- *)

\* What the limiter is for: in no stretch of the provider's own window do more requests reach it than
\* it allows, whoever sent them, first attempts and retries together, however late within the headroom
\* each of them arrives (rate_limiter.py:20-24).
ProviderLimitKept == Cardinality({x \in Sends : reached[x] < PERIOD}) <= CALLS

\* A request is refused only when the queue is "already a full window deep" (rate_limiter.py:48-50):
\* every turn of the window has somebody waiting for it.  So it is for a provider that counts by the
\* second; Limit(30, 60) and Limit(60, 60) have a window of 66 seconds and a MAX_WAIT_S of 60.
RefusedBehindAFullWindow ==
  [][\A s \in Senders : outcome'[s] = "QueueFull" /\ outcome[s] # "QueueFull"
       => Len(moments) = CALLS /\ \A i \in 1 .. CALLS : moments[i] > 0]_vars

\* Every send ends, in a response or in an error: the waits for turns and the retries do not go on for
\* ever, whatever the provider answers and however many others wait for it (stop_after_attempt).
EverySendEnds == \A s \in Senders : at[s] # "idle" ~> at[s] = "over"

=============================================================================
