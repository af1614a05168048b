--------------------------- MODULE Outbound_proofs ---------------------------
(***************************************************************************)
(* The rate limiter and the retries, for any number of senders, attempts   *)
(* and calls and any length of the window: the provider's limit is kept,   *)
(* and with a longest wait of at least a window nobody is refused without  *)
(* a full queue.                                                           *)
(*                                                                         *)
(* The argument for the limit is a pigeonhole.  Each attempt belongs to    *)
(* the place in the deque that its turn has, or that the turn CALLS later, *)
(* or twice CALLS later, has now.  Two attempts of one place have their    *)
(* turns a window of the limiter apart, so that, however late within the   *)
(* headroom each arrives, they arrive a period of the provider apart; of   *)
(* those that arrived within its period, then, no two have one place, and  *)
(* there are CALLS places.  The places are nowhere in the state: the       *)
(* invariant says there is a way to assign them.                           *)
(***************************************************************************)
EXTENDS Outbound, FiniteSetTheorems, SequenceTheorems, TLAPS

(* ---------------------------------------------------------------------- *)
(* The inductive invariants                                               *)
(* ---------------------------------------------------------------------- *)

\* Where a send is says how many attempts it has had.
Tried ==
  \A s \in Senders :
    /\ at[s] = "idle" => attempts[s] = 0
    /\ at[s] \in {"asking", "backing_off"} => attempts[s] < ATTEMPTS
    /\ at[s] = "waiting" => attempts[s] \in 1 .. ATTEMPTS

Shape == TypeOK /\ Tried

\* The turns on record are in order, none of them ahead of now until all CALLS are taken, and then
\* none later than the next.
InOrder ==
  /\ \A i, j \in 1 .. Len(moments) : i <= j => moments[i] <= moments[j]
  /\ Len(moments) < CALLS => \A i \in 1 .. Len(moments) : moments[i] <= 0
  /\ Len(moments) = CALLS => \A i \in 1 .. Len(moments) : moments[i] <= NextMoment

\* An attempt that has a turn and waits for it, and one that the provider still counts.
HasTurn(x) == at[x[1]] = "waiting" /\ attempts[x[1]] = x[2]
Counts(x) == reached[x] < PERIOD
TurnOf(x) == due[x[1]]

\* An attempt that has not begun has not arrived.
NotBefore == \A s \in Senders : \A n \in 1 .. ATTEMPTS : n > attempts[s] => ~Counts(<<s, n>>)

\* Each attempt's turn is no later than what its place holds.
Placed(place) ==
  \A x \in Sends :
    /\ HasTurn(x) => place[x] <= Len(moments) /\ TurnOf(x) <= moments[place[x]]
    /\ Counts(x) => place[x] <= Len(moments) /\ -reached[x] <= moments[place[x]] + HEADROOM

\* Two attempts of one place are apart.
Apart(place) ==
  \A x, y \in Sends : x # y /\ place[x] = place[y] =>
    /\ ~(Counts(x) /\ Counts(y))
    /\ Counts(x) /\ HasTurn(y) => TurnOf(y) >= PERIOD - reached[x]
    /\ HasTurn(x) /\ HasTurn(y) =>
         TurnOf(x) + Window <= TurnOf(y) \/ TurnOf(y) + Window <= TurnOf(x)

Fits(place) == Placed(place) /\ Apart(place)

LimitInv == NotBefore /\ \E place \in [Sends -> 1 .. CALLS] : Fits(place)


(* ---------------------------------------------------------------------- *)
(* The deque                                                              *)
(* ---------------------------------------------------------------------- *)

\* The next turn is not in the past and, once the deque is full, a window of the limiter or more after
\* the oldest on record.
LEMMA ATurnIsAWindowLater ==
  ASSUME TypeOK
  PROVE  /\ NextMoment \in Nat
         /\ Len(moments) = CALLS => NextMoment >= moments[1] + Window
         /\ Len(moments) = CALLS => NextMoment = 0 \/ NextMoment = moments[1] + Window
         /\ Len(moments) # CALLS => NextMoment = 0
BY LimitAssumption DEF TypeOK, NextMoment, Kept, Later, Window

\* What the deque holds once a turn is handed out: the new one last, and where it was full the others
\* a place further to the front.
LEMMA TheDequeMovesOn ==
  ASSUME TypeOK, NextMoment <= MAX_WAIT
  PROVE  /\ Handed(NextMoment) \in Seq(-Window .. MAX_WAIT)
         /\ Len(moments) < CALLS =>
              /\ Len(Handed(NextMoment)) = Len(moments) + 1
              /\ \A i \in 1 .. Len(moments) : Handed(NextMoment)[i] = moments[i]
              /\ Handed(NextMoment)[Len(moments) + 1] = NextMoment
         /\ Len(moments) = CALLS =>
              /\ Len(Handed(NextMoment)) = CALLS
              /\ \A i \in 1 .. CALLS - 1 : Handed(NextMoment)[i] = moments[i + 1]
              /\ Handed(NextMoment)[CALLS] = NextMoment
<1> DEFINE M == -Window .. MAX_WAIT
<1>1. moments \in Seq(M) /\ Len(moments) \in 0 .. CALLS
  BY LimitAssumption DEF TypeOK
<1>2. NextMoment \in M
  BY ATurnIsAWindowLater, LimitAssumption DEF Window
<1>3. CASE Len(moments) = CALLS
  <2>1. moments # <<>>
    BY <1>1, <1>3, LimitAssumption
  <2>2. /\ Tail(moments) \in Seq(M) /\ Len(Tail(moments)) = CALLS - 1
        /\ \A i \in 1 .. CALLS - 1 : Tail(moments)[i] = moments[i + 1]
    BY <1>1, <1>3, <2>1, HeadTailProperties
  <2>3. Handed(NextMoment) = Append(Tail(moments), NextMoment)
    BY <1>3 DEF Handed
  <2> HIDE DEF M
  <2>4. /\ Append(Tail(moments), NextMoment) \in Seq(M)
        /\ Len(Append(Tail(moments), NextMoment)) = Len(Tail(moments)) + 1
        /\ \A i \in 1 .. Len(Tail(moments)) : Append(Tail(moments), NextMoment)[i] = Tail(moments)[i]
        /\ Append(Tail(moments), NextMoment)[Len(Tail(moments)) + 1] = NextMoment
    BY <1>2, <2>2, AppendProperties
  <2>5. \A i \in 1 .. CALLS - 1 : Handed(NextMoment)[i] = moments[i + 1]
    BY <2>2, <2>3, <2>4
  <2>6. CALLS - 1 + 1 = CALLS
    BY LimitAssumption
  <2>7. Handed(NextMoment)[CALLS] = NextMoment /\ Len(Handed(NextMoment)) = CALLS
    BY <2>2, <2>3, <2>4, <2>6
  <2> QED
    BY <1>3, <2>3, <2>4, <2>5, <2>7 DEF M
<1>4. CASE Len(moments) < CALLS
  <2>1. Handed(NextMoment) = Append(moments, NextMoment)
    BY <1>1, <1>4 DEF Handed
  <2> HIDE DEF M
  <2>2. /\ Append(moments, NextMoment) \in Seq(M)
        /\ Len(Append(moments, NextMoment)) = Len(moments) + 1
        /\ \A i \in 1 .. Len(moments) : Append(moments, NextMoment)[i] = moments[i]
        /\ Append(moments, NextMoment)[Len(moments) + 1] = NextMoment
    BY <1>1, <1>2, AppendProperties
  <2> QED
    BY <1>4, <2>1, <2>2, <1>1 DEF M
<1> QED
  BY <1>1, <1>3, <1>4, LimitAssumption

\* A tick brings every turn on record one nearer, and none further than a window behind.
LEMMA TheDequeComesNearer ==
  ASSUME TypeOK, Tick
  PROVE  /\ moments' \in Seq(-Window .. MAX_WAIT) /\ Len(moments') = Len(moments)
         /\ \A i \in 1 .. Len(moments) : moments'[i] = Later(moments[i] - 1, -Window)
<1> DEFINE M == -Window .. MAX_WAIT
           n == Len(moments)
           f(i) == Later(moments[i] - 1, -Window)
<1>1. moments \in Seq(M) /\ n \in Nat
  BY DEF TypeOK
<1>2. \A i \in 1 .. n : moments[i] \in M
  <2> HIDE DEF M
  <2> QED
    BY <1>1, ElementOfSeq DEF n
<1>3. \A i \in 1 .. n : f(i) \in M
  <2> TAKE i \in 1 .. n
  <2>1. moments[i] \in Int /\ moments[i] <= MAX_WAIT /\ Window \in Int /\ Window > 0
    BY <1>2, LimitAssumption DEF Window
  <2> QED
    BY <2>1, LimitAssumption DEF Later
<1>4. moments' = [i \in 1 .. n |-> f(i)]
  BY DEF Tick
<1> HIDE DEF M, n, f
<1>5. [i \in 1 .. n |-> f(i)] \in Seq(M)
  BY <1>1, <1>3, SeqDef
<1>6. Len([i \in 1 .. n |-> f(i)]) = n
  BY <1>1, <1>5
<1>7. \A i \in 1 .. n : moments'[i] = f(i)
  BY <1>4
<1> QED
  BY <1>4, <1>5, <1>6, <1>7 DEF M, n, f

(* ---------------------------------------------------------------------- *)
(* Types                                                                  *)
(* ---------------------------------------------------------------------- *)

\* What the constants make of the numbers in the state.
LEMMA Numbers ==
  /\ CALLS \in Nat /\ CALLS >= 1 /\ PERIOD \in Nat /\ PERIOD >= 1 /\ HEADROOM \in Nat
  /\ MAX_WAIT \in Nat /\ ATTEMPTS \in Nat /\ ATTEMPTS >= 1 /\ MAX_BACKOFF \in Nat
  /\ Window \in Nat /\ Window = PERIOD + HEADROOM
  /\ Later(MAX_WAIT, MAX_BACKOFF) \in Nat
  /\ Later(MAX_WAIT, MAX_BACKOFF) >= MAX_WAIT /\ Later(MAX_WAIT, MAX_BACKOFF) >= MAX_BACKOFF
BY LimitAssumption, RetryAssumption DEF Window, Later

\* Init and every step give the variables values of their types, and leave each send as many attempts
\* as where it is allows.
LEMMA ShapeBegins == Init => Shape
<1> SUFFICES ASSUME Init PROVE Shape
  OBVIOUS
<1>1. moments \in Seq(-Window .. MAX_WAIT) /\ Len(moments) = 0
  BY EmptySeq DEF Init
<1> QED
  BY <1>1, Numbers DEF Init, Shape, TypeOK, Tried

LEMMA ShapeStays == Shape /\ [Next]_vars => Shape'
<1> SUFFICES ASSUME Shape, [Next]_vars PROVE Shape'
  OBVIOUS
<1> USE DEF Shape
<1>0. ASSUME NEW s \in Senders, Send(s) PROVE Shape'
  BY <1>0, Numbers DEF Send, TypeOK, Tried
<1>1. ASSUME NEW s \in Senders, Acquire(s) PROVE Shape'
  <2>1. attempts[s] + 1 \in 1 .. ATTEMPTS
    BY <1>1, Numbers DEF Acquire, TypeOK, Tried
  <2>2. attempts' \in [Senders -> 0 .. ATTEMPTS] /\ attempts' = [attempts EXCEPT ![s] = attempts[s] + 1]
    BY <1>1, <2>1 DEF Acquire, OneMore, TypeOK
  <2>3. CASE moments' = moments /\ due' = due /\ Ends(s, "QueueFull")
    BY <1>1, <2>2, <2>3 DEF Acquire, Ends, TypeOK, Tried
  <2>4. CASE /\ NextMoment <= MAX_WAIT /\ moments' = Handed(NextMoment) /\ outcome' = outcome
             /\ due' = [due EXCEPT ![s] = NextMoment] /\ at' = [at EXCEPT ![s] = "waiting"]
    <3>1. moments' \in Seq(-Window .. MAX_WAIT) /\ Len(moments') <= CALLS
      <4>1. /\ moments' \in Seq(-Window .. MAX_WAIT)
            /\ Len(moments) < CALLS => Len(moments') = Len(moments) + 1
            /\ Len(moments) = CALLS => Len(moments') = CALLS
        BY <2>4, TheDequeMovesOn
      <4>2. Len(moments) \in Nat /\ Len(moments) <= CALLS /\ CALLS \in Nat
        BY Numbers DEF TypeOK
      <4> QED
        BY <4>1, <4>2
    <3>2. due' \in [Senders -> -HEADROOM .. Later(MAX_WAIT, MAX_BACKOFF)]
      <4> DEFINE M == -HEADROOM .. Later(MAX_WAIT, MAX_BACKOFF)
      <4>1. NextMoment \in M
        BY <2>4, ATurnIsAWindowLater, Numbers
      <4>2. due \in [Senders -> M]
        BY DEF TypeOK
      <4> HIDE DEF M
      <4>3. [due EXCEPT ![s] = NextMoment] \in [Senders -> M]
        BY <4>1, <4>2
      <4> QED
        BY <2>4, <4>3 DEF M
    <3> QED
      BY <1>1, <2>1, <2>2, <2>4, <3>1, <3>2 DEF Acquire, TypeOK, Tried
  <2> QED
    BY <1>1, <2>3, <2>4 DEF Acquire
<1>2. ASSUME NEW s \in Senders, Attempt(s) PROVE Shape'
  <2>1. PICK answer \in Answers :
          /\ reached' = IF answer = "unsent" THEN reached
                        ELSE [reached EXCEPT ![<<s, attempts[s]>>] = 0]
          /\ \/ /\ _worth_retrying(answer) /\ MoreToCome(attempts[s])
                /\ at' = [at EXCEPT ![s] = "backing_off"]
                /\ \E wait \in 1 .. MAX_BACKOFF : due' = [due EXCEPT ![s] = wait]
                /\ UNCHANGED outcome
             \/ /\ ~(_worth_retrying(answer) /\ MoreToCome(attempts[s]))
                /\ Ends(s, LastWord(answer))
                /\ UNCHANGED due
    BY <1>2 DEF Attempt
  <2>2. moments' = moments /\ attempts' = attempts /\ at[s] = "waiting"
    BY <1>2 DEF Attempt
  <2>3. reached' \in [Sends -> 0 .. PERIOD]
    <3>1. reached \in [Sends -> 0 .. PERIOD] /\ 0 \in 0 .. PERIOD
      BY Numbers DEF TypeOK
    <3>2. reached' = reached \/ reached' = [reached EXCEPT ![<<s, attempts[s]>>] = 0]
      BY <2>1
    <3> QED
      BY <3>1, <3>2
  <2>4. CASE /\ MoreToCome(attempts[s]) /\ at' = [at EXCEPT ![s] = "backing_off"] /\ outcome' = outcome
             /\ \E wait \in 1 .. MAX_BACKOFF : due' = [due EXCEPT ![s] = wait]
    <3>1. due' \in [Senders -> -HEADROOM .. Later(MAX_WAIT, MAX_BACKOFF)]
      BY <2>4, Numbers DEF TypeOK
    <3> QED
      BY <2>2, <2>3, <2>4, <3>1 DEF MoreToCome, TypeOK, Tried
  <2>5. CASE Ends(s, LastWord(answer)) /\ due' = due
    <3>1. LastWord(answer) \in {"response", "error", "StillLimited"}
      BY DEF LastWord
    <3> QED
      BY <2>2, <2>3, <2>5, <3>1 DEF Ends, TypeOK, Tried
  <2> QED
    BY <2>1, <2>4, <2>5
<1>3. ASSUME NEW s \in Senders, TryAgain(s) PROVE Shape'
  BY <1>3, Numbers DEF TryAgain, AfterBackoff, TypeOK, Tried
<1>4. ASSUME Tick PROVE Shape'
  <2>1. moments' \in Seq(-Window .. MAX_WAIT) /\ Len(moments') <= CALLS
    BY <1>4, TheDequeComesNearer DEF TypeOK
  <2>2. \A s \in Senders : Later(due[s] - 1, -HEADROOM) \in -HEADROOM .. Later(MAX_WAIT, MAX_BACKOFF)
    <3> TAKE s \in Senders
    <3>1. due[s] \in Int /\ due[s] <= Later(MAX_WAIT, MAX_BACKOFF)
      BY Numbers DEF TypeOK
    <3> DEFINE top == Later(MAX_WAIT, MAX_BACKOFF)
    <3>2. top \in Nat /\ due[s] <= top
      BY <3>1, Numbers
    <3> HIDE DEF top
    <3>3. Later(due[s] - 1, -HEADROOM) \in -HEADROOM .. top
      BY <3>1, <3>2, Numbers DEF Later
    <3> QED
      BY <3>3 DEF top
  <2>3. due' \in [Senders -> -HEADROOM .. Later(MAX_WAIT, MAX_BACKOFF)]
    BY <1>4, <2>2, Numbers DEF Tick
  <2>4. reached' \in [Sends -> 0 .. PERIOD]
    BY <1>4, Numbers DEF Tick, Earlier, TypeOK
  <2> QED
    BY <1>4, <2>1, <2>3, <2>4 DEF Tick, TypeOK, Tried
<1>5. CASE UNCHANGED vars
  BY <1>5 DEF vars, TypeOK, Tried
<1> QED
  BY <1>0, <1>1, <1>2, <1>3, <1>4, <1>5 DEF Next

LEMMA ShapeKept == Spec => []Shape
BY ShapeBegins, ShapeStays, PTL DEF Spec

\* Every value the limiter, the sends and the provider's count take is of its type: no send has more
\* attempts than ATTEMPTS, no turn is further ahead than the longest wait (outbound.py:126-145,
\* rate_limiter.py:118-139).
THEOREM SendsTyped == Spec => []TypeOK
BY ShapeKept, PTL DEF Shape

(* ---------------------------------------------------------------------- *)
(* The turns are in order                                                 *)
(* ---------------------------------------------------------------------- *)

\* A turn handed out comes last, and leaves the turns in order.
LEMMA OrderHandedOn ==
  ASSUME TypeOK, TypeOK', InOrder, NextMoment <= MAX_WAIT, moments' = Handed(NextMoment)
  PROVE  InOrder'
<1> DEFINE new == NextMoment
<1>1. Len(moments) \in 0 .. CALLS /\ \A i \in 1 .. Len(moments) : moments[i] \in Int
  BY Numbers DEF TypeOK
<1>2. CASE Len(moments) < CALLS
  <2>1. new = 0
    BY <1>2, ATurnIsAWindowLater
  <2>2. /\ Len(moments') = Len(moments) + 1 /\ moments'[Len(moments) + 1] = 0
        /\ \A i \in 1 .. Len(moments) : moments'[i] = moments[i] /\ moments[i] <= 0
    BY <1>2, <2>1, TheDequeMovesOn DEF InOrder
  <2>3. \A i, j \in 1 .. Len(moments) : i <= j => moments[i] <= moments[j]
    BY DEF InOrder
  <2>4. \A i, j \in 1 .. Len(moments') : i <= j => moments'[i] <= moments'[j]
    BY <1>1, <2>2, <2>3
  <2>5. \A i \in 1 .. Len(moments') : moments'[i] <= 0
    BY <1>1, <2>2
  <2>6. Len(moments') = CALLS => NextMoment' \in Nat
    BY Numbers, <2>2, <1>1 DEF NextMoment, Kept, Later, TypeOK
  <2>7. \A i \in 1 .. Len(moments') : moments'[i] \in Int
    BY <1>1, <2>2
  <2> QED
    BY <2>4, <2>5, <2>6, <2>7 DEF InOrder
<1>3. CASE Len(moments) = CALLS
  <2>1. /\ Len(moments') = CALLS /\ moments'[CALLS] = new
        /\ \A i \in 1 .. CALLS - 1 : moments'[i] = moments[i + 1]
    BY <1>3, TheDequeMovesOn
  <2>2. /\ new \in Nat /\ new >= moments[1] + Window
        /\ new = 0 \/ new = moments[1] + Window
    BY <1>3, ATurnIsAWindowLater
  <2>3. \A i \in 1 .. CALLS : moments[i] <= new
    BY <1>3 DEF InOrder
  <2>4. \A i, j \in 1 .. CALLS : i <= j => moments[i] <= moments[j]
    BY <1>3 DEF InOrder
  <2> HIDE DEF new
  <2>5. \A i \in 1 .. CALLS : moments'[i] \in Int /\ moments'[i] <= new
    <3> TAKE i \in 1 .. CALLS
    <3>1. CASE i = CALLS
      BY <2>1, <2>2, <3>1
    <3>2. CASE i # CALLS
      <4>1. i \in 1 .. CALLS - 1 /\ i + 1 \in 1 .. CALLS
        BY <3>2, Numbers
      <4>2. moments'[i] = moments[i + 1] /\ moments[i + 1] \in Int /\ moments[i + 1] <= new
        BY <1>1, <1>3, <2>1, <2>3, <4>1
      <4> QED
        BY <4>2
    <3> QED
      BY <3>1, <3>2
  <2>6. \A i, j \in 1 .. CALLS : i <= j => moments'[i] <= moments'[j]
    <3> SUFFICES ASSUME NEW i \in 1 .. CALLS, NEW j \in 1 .. CALLS, i <= j
                 PROVE  moments'[i] <= moments'[j]
      OBVIOUS
    <3>1. CASE j = CALLS
      BY <2>1, <2>5, <3>1, Numbers
    <3>2. CASE j # CALLS
      <4>1. i + 1 \in 1 .. CALLS /\ j + 1 \in 1 .. CALLS /\ i + 1 <= j + 1
        BY <3>2, Numbers
      <4>2. moments'[i] = moments[i + 1] /\ moments'[j] = moments[j + 1]
        BY <2>1, <3>2, Numbers
      <4> QED
        BY <2>4, <4>1, <4>2
    <3> QED
      BY <3>1, <3>2
  <2>7. moments'[1] >= moments[1]
    <3>1. CASE CALLS = 1
      BY <1>1, <1>3, <2>1, <2>3, <3>1
    <3>2. CASE CALLS # 1
      BY <1>1, <1>3, <2>1, <2>4, <3>2, Numbers
    <3> QED
      BY <3>1, <3>2
  <2>8. NextMoment' \in Nat /\ NextMoment' >= moments'[1] + Window
    BY <2>1, Numbers DEF NextMoment, Kept, Later, TypeOK
  <2>9. new <= NextMoment'
    BY <1>1, <1>3, <2>2, <2>5, <2>7, <2>8, Numbers
  <2>10. \A i \in 1 .. CALLS : moments'[i] <= NextMoment'
    BY <2>2, <2>5, <2>8, <2>9
  <2> QED
    BY <2>1, <2>6, <2>10, Numbers DEF InOrder
<1> QED
  BY <1>1, <1>2, <1>3, Numbers

\* So does a tick of the clock.
LEMMA OrderComesNearer ==
  ASSUME TypeOK, TypeOK', InOrder, Tick
  PROVE  InOrder'
<1>1. /\ Len(moments') = Len(moments)
      /\ \A i \in 1 .. Len(moments) : moments'[i] = Later(moments[i] - 1, -Window)
  BY TheDequeComesNearer
<1>2. Len(moments) \in 0 .. CALLS /\ \A i \in 1 .. Len(moments) : moments[i] \in Int /\ moments[i] >= -Window
  BY Numbers DEF TypeOK
<1>3. \A i \in 1 .. Len(moments) :
        /\ moments'[i] \in Int /\ moments'[i] >= moments[i] - 1 /\ moments'[i] >= -Window
        /\ moments'[i] = moments[i] - 1 \/ moments'[i] = -Window
  BY <1>1, <1>2, Numbers DEF Later
<1>4. \A i, j \in 1 .. Len(moments') : i <= j => moments'[i] <= moments'[j]
  <2> SUFFICES ASSUME NEW i \in 1 .. Len(moments), NEW j \in 1 .. Len(moments), i <= j
               PROVE  moments'[i] <= moments'[j]
    BY <1>1
  <2>1. moments[i] <= moments[j]
    BY DEF InOrder
  <2>2. moments[i] \in Int /\ moments[j] \in Int
    BY <1>2
  <2>3. /\ moments'[i] = moments[i] - 1 \/ moments'[i] = -Window
        /\ moments'[j] \in Int /\ moments'[j] >= moments[j] - 1 /\ moments'[j] >= -Window
    BY <1>3
  <2>4. Window \in Nat
    BY Numbers
  <2> QED
    BY <2>1, <2>2, <2>3, <2>4
<1>5. ASSUME Len(moments') < CALLS, NEW i \in 1 .. Len(moments') PROVE moments'[i] <= 0
  <2>1. i \in 1 .. Len(moments) /\ moments[i] <= 0 /\ moments[i] \in Int
    BY <1>1, <1>2, <1>5 DEF InOrder
  <2>2. moments'[i] = moments[i] - 1 \/ moments'[i] = -Window
    BY <1>3, <2>1
  <2>3. Window \in Nat
    BY Numbers
  <2> QED
    BY <2>1, <2>2, <2>3
<1>6. ASSUME Len(moments') = CALLS, NEW i \in 1 .. Len(moments')
      PROVE  moments'[i] <= NextMoment'
  <2>1. NextMoment' \in Nat /\ NextMoment' >= moments'[1] + Window
    BY <1>6, Numbers DEF NextMoment, Kept, Later, TypeOK
  <2>2. Len(moments) = CALLS /\ i \in 1 .. Len(moments) /\ 1 \in 1 .. Len(moments)
    BY <1>1, <1>6, Numbers
  <2>3. moments[i] <= NextMoment /\ (NextMoment = 0 \/ NextMoment = moments[1] + Window)
    BY <2>2, ATurnIsAWindowLater DEF InOrder
  <2>4. moments'[1] >= moments[1] - 1 /\ moments'[1] \in Int /\ moments[1] \in Int
    BY <1>2, <1>3, <2>2
  <2>5. moments'[i] = moments[i] - 1 \/ moments'[i] = -Window
    BY <1>3, <2>2
  <2>6. moments[i] \in Int
    BY <1>2, <2>2
  <2>7. moments[i] <= 0 \/ moments[i] <= moments[1] + Window
    BY <2>3
  <2>8. Window \in Nat /\ NextMoment' \in Nat /\ NextMoment' >= moments'[1] + Window
    BY <2>1, Numbers
  <2>9. CASE moments'[i] = -Window \/ moments[i] <= 0
    BY <2>5, <2>6, <2>8, <2>9
  <2>10. CASE moments'[i] = moments[i] - 1 /\ moments[i] <= moments[1] + Window
    BY <2>4, <2>6, <2>8, <2>10
  <2> QED
    BY <2>5, <2>7, <2>9, <2>10
<1> QED
  BY <1>4, <1>5, <1>6 DEF InOrder

\* The turns on record stay in order for ever.
LEMMA OrderKept == Spec => []InOrder
<1>1. Init => InOrder
  BY Numbers DEF Init, InOrder
<1>2. Shape /\ Shape' /\ InOrder /\ [Next]_vars => InOrder'
  <2> SUFFICES ASSUME Shape, Shape', InOrder, [Next]_vars PROVE InOrder'
    OBVIOUS
  <2>1. CASE moments' = moments
    BY <2>1 DEF InOrder, NextMoment, Kept, Later, Window
  <2>2. CASE NextMoment <= MAX_WAIT /\ moments' = Handed(NextMoment)
    BY <2>2, OrderHandedOn DEF Shape
  <2>3. CASE Tick
    BY <2>3, OrderComesNearer DEF Shape
  <2> QED
    BY <2>1, <2>2, <2>3 DEF Next, vars, Send, Acquire, Attempt, TryAgain
<1> QED
  BY ShapeKept, <1>1, <1>2, PTL DEF Spec

\* Where the longest wait is a window of the limiter or more, as for the providers that count by the
\* second, a request is refused only behind a full window: every turn on record is still ahead, so
\* somebody waits for each of them (rate_limiter.py:48-50, 118-139).  The hypothesis is needed: for
\* Limit(30, 60) and Limit(60, 60) it is false, and a run shows the refusal.
THEOREM RefusedOnlyWhenFull == MAX_WAIT >= Window => (Spec => RefusedBehindAFullWindow)
<1> SUFFICES ASSUME MAX_WAIT >= Window PROVE Spec => RefusedBehindAFullWindow
  OBVIOUS
<1>1. ASSUME Shape, InOrder, [Next]_vars, NEW s \in Senders, outcome'[s] = "QueueFull", outcome[s] # "QueueFull"
      PROVE  Len(moments) = CALLS /\ \A i \in 1 .. CALLS : moments[i] > 0
  <2>1. PICK t \in Senders : Acquire(t) /\ NextMoment > MAX_WAIT
    <3>1. ASSUME NEW t \in Senders, Attempt(t) PROVE FALSE
      <4>1. PICK answer \in Answers : outcome' = outcome \/ Ends(t, LastWord(answer))
        BY <3>1 DEF Attempt
      <4>2. LastWord(answer) # "QueueFull"
        BY DEF LastWord
      <4> QED
        BY <1>1, <4>1, <4>2 DEF Ends, Shape, TypeOK
    <3>2. ~Tick /\ outcome' # outcome /\ \A t \in Senders : ~Send(t) /\ ~TryAgain(t)
      BY <1>1 DEF Tick, Send, TryAgain
    <3>3. PICK t \in Senders : Acquire(t)
      BY <1>1, <3>1, <3>2 DEF Next, vars
    <3> QED
      BY <3>2, <3>3 DEF Acquire
  <2>2. NextMoment > 0 /\ Len(moments) = CALLS /\ NextMoment = moments[1] + Window
    BY <1>1, <2>1, ATurnIsAWindowLater, Numbers DEF Shape
  <2>3. \A i \in 1 .. CALLS : moments[i] \in Int
    <3>1. moments \in Seq(-Window .. MAX_WAIT)
      BY <1>1 DEF Shape, TypeOK
    <3>2. \A i \in 1 .. Len(moments) : moments[i] \in -Window .. MAX_WAIT
      BY <3>1, ElementOfSeq
    <3> QED
      BY <2>2, <3>2
  <2>4. moments[1] > 0
    BY <2>1, <2>2, <2>3, Numbers
  <2>5. \A i \in 1 .. CALLS : moments[1] <= moments[i]
    BY <1>1, <2>2, Numbers DEF InOrder
  <2> QED
    BY <2>2, <2>3, <2>4, <2>5, Numbers
<1>2. Shape /\ InOrder /\ [Next]_vars =>
        [\A s \in Senders : outcome'[s] = "QueueFull" /\ outcome[s] # "QueueFull"
           => Len(moments) = CALLS /\ \A i \in 1 .. CALLS : moments[i] > 0]_vars
  BY <1>1
<1> QED
  BY ShapeKept, OrderKept, <1>2, PTL DEF Spec, RefusedBehindAFullWindow

(* ---------------------------------------------------------------------- *)
(* The limit                                                              *)
(* ---------------------------------------------------------------------- *)

\* What the variables hold of one attempt, and of one place.
LEMMA OfOneAttempt ==
  ASSUME TypeOK, NEW x \in Sends
  PROVE  /\ x[1] \in Senders /\ x[2] \in 1 .. ATTEMPTS /\ x = <<x[1], x[2]>>
         /\ reached[x] \in 0 .. PERIOD /\ TurnOf(x) \in Int /\ TurnOf(x) >= -HEADROOM
BY Numbers DEF TypeOK, Sends, TurnOf

LEMMA OfOnePlace ==
  ASSUME TypeOK, NEW i \in 1 .. Len(moments)
  PROVE  moments[i] \in Int
<1>1. moments \in Seq(-Window .. MAX_WAIT)
  BY DEF TypeOK
<1>2. moments[i] \in -Window .. MAX_WAIT
  BY <1>1, ElementOfSeq
<1> QED
  BY <1>2

\* A turn is taken: what changes for the attempts.
LEMMA ATurnIsTaken ==
  ASSUME Shape, NotBefore, NEW s \in Senders, Acquire(s), NextMoment <= MAX_WAIT,
         NEW x, x = <<s, attempts[s] + 1>>
  PROVE  /\ x \in Sends /\ ~Counts(x) /\ reached' = reached /\ moments' = Handed(NextMoment)
         /\ due'[x[1]] = NextMoment
         /\ \A y \in Sends : y # x /\ at'[y[1]] = "waiting" /\ attempts'[y[1]] = y[2]
              => HasTurn(y) /\ due'[y[1]] = TurnOf(y)
<1>1. attempts[s] + 1 \in 1 .. ATTEMPTS /\ attempts[s] \in Nat /\ at[s] = "asking"
  BY Numbers DEF Acquire, Shape, TypeOK, Tried
<1>2. /\ moments' = Handed(NextMoment) /\ due' = [due EXCEPT ![s] = NextMoment]
      /\ at' = [at EXCEPT ![s] = "waiting"] /\ attempts' = [attempts EXCEPT ![s] = attempts[s] + 1]
      /\ reached' = reached
  <2>1. NextMoment \in Nat
    BY ATurnIsAWindowLater DEF Shape
  <2> QED
    BY <2>1, Numbers DEF Acquire, OneMore
<1>3. x \in Sends /\ ~Counts(x)
  BY <1>1 DEF Sends, NotBefore
<1>4. ASSUME NEW y \in Sends, y # x, at'[y[1]] = "waiting", attempts'[y[1]] = y[2]
      PROVE  HasTurn(y) /\ due'[y[1]] = TurnOf(y)
  <2>1. y[1] \in Senders /\ y = <<y[1], y[2]>>
    BY OfOneAttempt DEF Shape
  <2>2. y[1] # s
    BY <1>2, <1>4, <2>1 DEF Shape, TypeOK
  <2> QED
    BY <1>2, <1>4, <2>1, <2>2 DEF HasTurn, TurnOf, Shape, TypeOK
<1> QED
  BY <1>2, <1>3, <1>4 DEF Shape, TypeOK

\* The deque has room: the new turn has a place of its own.
LEMMA FitsWithRoom ==
  ASSUME Shape, NotBefore, NEW s \in Senders, Acquire(s), NextMoment <= MAX_WAIT,
         Len(moments) < CALLS,
         NEW place \in [Sends -> 1 .. CALLS], Fits(place)
  PROVE  \E after \in [Sends -> 1 .. CALLS] : Fits(after)'
<1>0. PICK x : x = <<s, attempts[s] + 1>>
  OBVIOUS
<1>1. /\ x \in Sends /\ ~Counts(x) /\ reached' = reached /\ moments' = Handed(NextMoment)
      /\ due'[x[1]] = NextMoment
      /\ \A y \in Sends : y # x /\ at'[y[1]] = "waiting" /\ attempts'[y[1]] = y[2]
           => HasTurn(y) /\ due'[y[1]] = TurnOf(y)
  BY <1>0, ATurnIsTaken
<1>2. /\ Len(moments') = Len(moments) + 1 /\ moments'[Len(moments) + 1] = 0 /\ NextMoment = 0
      /\ \A i \in 1 .. Len(moments) : moments'[i] = moments[i]
      /\ Len(moments) \in Nat /\ Len(moments) + 1 \in 1 .. CALLS
  <2>1. Len(moments) \in Nat /\ Len(moments) + 1 \in 1 .. CALLS
    BY Numbers DEF Shape, TypeOK
  <2>2. NextMoment = 0
    BY ATurnIsAWindowLater DEF Shape
  <2> QED
    BY <1>1, <2>1, <2>2, TheDequeMovesOn DEF Shape
<1>3. PICK after \in [Sends -> 1 .. CALLS] : after = [place EXCEPT ![x] = Len(moments) + 1]
  <2> DEFINE n == Len(moments) + 1
  <2>1. n \in 1 .. CALLS
    BY <1>2
  <2> HIDE DEF n
  <2>2. [place EXCEPT ![x] = n] \in [Sends -> 1 .. CALLS]
    BY <2>1
  <2> QED
    BY <2>2 DEF n
<1>4. /\ after[x] = Len(moments) + 1
      /\ \A y \in Sends : y # x => after[y] = place[y]
      /\ \A y \in Sends : place[y] \in 1 .. CALLS
  BY <1>1, <1>3
<1>5. \A y \in Sends : HasTurn(y) \/ Counts(y) => place[y] \in 1 .. Len(moments)
  BY <1>2, <1>4 DEF Fits, Placed
<1>6. Placed(after)'
  <2> SUFFICES ASSUME NEW y \in Sends
               PROVE  /\ at'[y[1]] = "waiting" /\ attempts'[y[1]] = y[2] =>
                           after[y] <= Len(moments') /\ due'[y[1]] <= moments'[after[y]]
                      /\ reached'[y] < PERIOD =>
                           after[y] <= Len(moments') /\ -reached'[y] <= moments'[after[y]] + HEADROOM
    BY DEF Placed, HasTurn, Counts, TurnOf
  <2>1. CASE y = x
    BY <1>1, <1>2, <1>4, <2>1 DEF Counts
  <2>2. CASE y # x
    BY <1>1, <1>2, <1>4, <1>5, <2>2 DEF Fits, Placed, Counts
  <2> QED
    BY <2>1, <2>2
<1>7. Apart(after)'
  <2> SUFFICES ASSUME NEW y \in Sends, NEW z \in Sends, y # z, after[y] = after[z]
               PROVE  /\ ~(reached'[y] < PERIOD /\ reached'[z] < PERIOD)
                      /\ reached'[y] < PERIOD /\ at'[z[1]] = "waiting" /\ attempts'[z[1]] = z[2] =>
                           due'[z[1]] >= PERIOD - reached'[y]
                      /\ at'[y[1]] = "waiting" /\ attempts'[y[1]] = y[2]
                           /\ at'[z[1]] = "waiting" /\ attempts'[z[1]] = z[2] =>
                           due'[y[1]] + Window <= due'[z[1]] \/ due'[z[1]] + Window <= due'[y[1]]
    BY DEF Apart, HasTurn, Counts, TurnOf
  <2>1. CASE y = x
    <3>1. z # x /\ place[z] = Len(moments) + 1
      BY <1>4, <2>1
    <3>2. ~HasTurn(z) /\ ~Counts(z)
      BY <1>2, <1>5, <3>1
    <3> QED
      BY <1>1, <2>1, <3>1, <3>2 DEF Counts
  <2>2. CASE z = x
    <3>1. y # x /\ place[y] = Len(moments) + 1
      BY <1>4, <2>2
    <3>2. ~HasTurn(y) /\ ~Counts(y)
      BY <1>2, <1>5, <3>1
    <3> QED
      BY <1>1, <2>2, <3>1, <3>2 DEF Counts
  <2>3. CASE y # x /\ z # x
    <3>1. place[y] = place[z]
      BY <1>4, <2>3
    <3> QED
      BY <1>1, <2>3, <3>1 DEF Fits, Apart, Counts
  <2> QED
    BY <2>1, <2>2, <2>3
<1> QED
  BY <1>6, <1>7 DEF Fits

\* The deque is full: the new turn takes the place of the oldest, a window of the limiter later.
LEMMA FitsInTurn ==
  ASSUME Shape, NotBefore, NEW s \in Senders, Acquire(s), NextMoment <= MAX_WAIT,
         Len(moments) = CALLS,
         NEW place \in [Sends -> 1 .. CALLS], Fits(place)
  PROVE  \E after \in [Sends -> 1 .. CALLS] : Fits(after)'
<1>0. PICK x : x = <<s, attempts[s] + 1>>
  OBVIOUS
<1>1. /\ x \in Sends /\ ~Counts(x) /\ reached' = reached /\ moments' = Handed(NextMoment)
      /\ due'[x[1]] = NextMoment
      /\ \A y \in Sends : y # x /\ at'[y[1]] = "waiting" /\ attempts'[y[1]] = y[2]
           => HasTurn(y) /\ due'[y[1]] = TurnOf(y)
  BY <1>0, ATurnIsTaken
<1>2. /\ Len(moments') = CALLS /\ moments'[CALLS] = NextMoment
      /\ \A i \in 1 .. CALLS - 1 : moments'[i] = moments[i + 1]
  BY <1>1, TheDequeMovesOn DEF Shape
<1>3. NextMoment \in Nat /\ NextMoment >= moments[1] + Window /\ moments[1] \in Int
  BY ATurnIsAWindowLater, OfOnePlace, Numbers DEF Shape
<1>4. PICK after \in [Sends -> 1 .. CALLS] :
        after = [y \in Sends |-> IF y = x \/ place[y] = 1 THEN CALLS ELSE place[y] - 1]
  <2>1. \A y \in Sends : (IF y = x \/ place[y] = 1 THEN CALLS ELSE place[y] - 1) \in 1 .. CALLS
    BY Numbers
  <2> QED
    BY <2>1
<1>5. /\ after[x] = CALLS
      /\ \A y \in Sends : y # x /\ place[y] = 1 => after[y] = CALLS
      /\ \A y \in Sends : y # x /\ place[y] # 1 => after[y] = place[y] - 1
      /\ \A y \in Sends : place[y] \in 1 .. CALLS
  BY <1>1, <1>4
<1>6. \A y \in Sends : y # x /\ place[y] # 1
        => after[y] \in 1 .. CALLS - 1 /\ moments'[after[y]] = moments[place[y]]
  <2> SUFFICES ASSUME NEW y \in Sends, y # x, place[y] # 1
               PROVE  after[y] \in 1 .. CALLS - 1 /\ moments'[after[y]] = moments[place[y]]
    OBVIOUS
  <2>1. after[y] = place[y] - 1 /\ after[y] \in 1 .. CALLS - 1 /\ after[y] + 1 = place[y]
    BY <1>5, Numbers
  <2> QED
    BY <1>2, <2>1
<1>7. Placed(after)'
  <2> SUFFICES ASSUME NEW y \in Sends
               PROVE  /\ at'[y[1]] = "waiting" /\ attempts'[y[1]] = y[2] =>
                           after[y] <= Len(moments') /\ due'[y[1]] <= moments'[after[y]]
                      /\ reached'[y] < PERIOD =>
                           after[y] <= Len(moments') /\ -reached'[y] <= moments'[after[y]] + HEADROOM
    BY DEF Placed, HasTurn, Counts, TurnOf
  <2>0. after[y] <= Len(moments') /\ TurnOf(y) \in Int /\ reached[y] \in Nat
    BY <1>2, OfOneAttempt, Numbers DEF Shape
  <2>1. CASE y = x
    BY <1>1, <1>2, <1>3, <1>5, <2>0, <2>1 DEF Counts
  <2>2. CASE y # x /\ place[y] = 1
    <3>0. Window \in Nat /\ HEADROOM \in Nat
      BY Numbers
    <3>1. /\ HasTurn(y) => TurnOf(y) <= moments[1]
          /\ Counts(y) => -reached[y] <= moments[1] + HEADROOM
      BY <2>2 DEF Fits, Placed
    <3>2. moments'[after[y]] = NextMoment
      BY <1>2, <1>5, <2>2
    <3>3. HasTurn(y) => TurnOf(y) <= NextMoment
      BY <1>3, <2>0, <3>0, <3>1
    <3>4. ASSUME Counts(y) PROVE -reached[y] <= NextMoment + HEADROOM
      <4>1. -reached[y] <= moments[1] + HEADROOM
        BY <3>1, <3>4
      <4>2. moments[1] <= NextMoment /\ moments[1] \in Int /\ NextMoment \in Nat
        BY <1>3, <3>0
      <4>3. reached[y] \in Nat /\ HEADROOM \in Nat
        BY <2>0, <3>0
      <4> QED
        BY <4>1, <4>2, <4>3
    <3> QED
      BY <1>1, <2>0, <2>2, <3>2, <3>3, <3>4 DEF Counts
  <2>3. CASE y # x /\ place[y] # 1
    <3>1. /\ HasTurn(y) => TurnOf(y) <= moments[place[y]]
          /\ Counts(y) => -reached[y] <= moments[place[y]] + HEADROOM
      BY DEF Fits, Placed
    <3> QED
      BY <1>1, <1>6, <2>0, <2>3, <3>1 DEF Counts
  <2> QED
    BY <2>1, <2>2, <2>3
\* Who shares the place of the oldest turn is a window of the limiter before the new one.
<1>8. \A y \in Sends : y # x /\ after[y] = CALLS =>
        /\ Counts(y) => NextMoment >= PERIOD - reached[y]
        /\ HasTurn(y) => TurnOf(y) + Window <= NextMoment
  <2> SUFFICES ASSUME NEW y \in Sends, y # x, after[y] = CALLS
               PROVE  /\ Counts(y) => NextMoment >= PERIOD - reached[y]
                      /\ HasTurn(y) => TurnOf(y) + Window <= NextMoment
    OBVIOUS
  <2>1. place[y] = 1
    BY <1>5, <1>6, Numbers
  <2>2. /\ HasTurn(y) => TurnOf(y) <= moments[1]
        /\ Counts(y) => -reached[y] <= moments[1] + HEADROOM
    BY <2>1 DEF Fits, Placed
  <2>3. TurnOf(y) \in Int /\ reached[y] \in Nat
    BY OfOneAttempt, Numbers DEF Shape
  <2>4. Window = PERIOD + HEADROOM /\ PERIOD \in Nat /\ HEADROOM \in Nat
    BY Numbers
  <2>5. ASSUME Counts(y) PROVE NextMoment >= PERIOD - reached[y]
    BY <1>3, <2>2, <2>3, <2>4, <2>5
  <2>6. ASSUME HasTurn(y) PROVE TurnOf(y) + Window <= NextMoment
    BY <1>3, <2>2, <2>3, <2>4, <2>6
  <2> QED
    BY <2>5, <2>6
<1>9. Apart(after)'
  <2> SUFFICES ASSUME NEW y \in Sends, NEW z \in Sends, y # z, after[y] = after[z]
               PROVE  /\ ~(reached'[y] < PERIOD /\ reached'[z] < PERIOD)
                      /\ reached'[y] < PERIOD /\ at'[z[1]] = "waiting" /\ attempts'[z[1]] = z[2] =>
                           due'[z[1]] >= PERIOD - reached'[y]
                      /\ at'[y[1]] = "waiting" /\ attempts'[y[1]] = y[2]
                           /\ at'[z[1]] = "waiting" /\ attempts'[z[1]] = z[2] =>
                           due'[y[1]] + Window <= due'[z[1]] \/ due'[z[1]] + Window <= due'[y[1]]
    BY DEF Apart, HasTurn, Counts, TurnOf
  <2>1. CASE y = x
    <3>1. z # x /\ after[z] = CALLS
      BY <1>5, <2>1
    <3> QED
      BY <1>1, <1>8, <2>1, <3>1 DEF Counts
  <2>2. CASE z = x
    <3>1. y # x /\ after[y] = CALLS
      BY <1>5, <2>2
    <3> QED
      BY <1>1, <1>8, <2>2, <3>1 DEF Counts
  <2>3. CASE y # x /\ z # x
    <3>1. place[y] = place[z]
      BY <1>5, <2>3, Numbers
    <3> QED
      BY <1>1, <2>3, <3>1 DEF Fits, Apart, Counts
  <2> QED
    BY <2>1, <2>2, <2>3
<1> QED
  BY <1>7, <1>9 DEF Fits

\* A step that hands out no turn, brings no attempt to the provider and lets no time pass leaves
\* every attempt in its place.
LEMMA FitsStill ==
  ASSUME moments' = moments, reached' = reached,
         \A y \in Sends : at'[y[1]] = "waiting" /\ attempts'[y[1]] = y[2]
           => HasTurn(y) /\ due'[y[1]] = TurnOf(y),
         NEW place \in [Sends -> 1 .. CALLS], Fits(place)
  PROVE  Fits(place)'
<1>1. Placed(place)'
  <2> SUFFICES ASSUME NEW y \in Sends
               PROVE  /\ at'[y[1]] = "waiting" /\ attempts'[y[1]] = y[2] =>
                           place[y] <= Len(moments') /\ due'[y[1]] <= moments'[place[y]]
                      /\ reached'[y] < PERIOD =>
                           place[y] <= Len(moments') /\ -reached'[y] <= moments'[place[y]] + HEADROOM
    BY DEF Placed, HasTurn, Counts, TurnOf
  <2> QED
    BY DEF Fits, Placed, Counts
<1>2. Apart(place)'
  <2> SUFFICES ASSUME NEW y \in Sends, NEW z \in Sends, y # z, place[y] = place[z]
               PROVE  /\ ~(reached'[y] < PERIOD /\ reached'[z] < PERIOD)
                      /\ reached'[y] < PERIOD /\ at'[z[1]] = "waiting" /\ attempts'[z[1]] = z[2] =>
                           due'[z[1]] >= PERIOD - reached'[y]
                      /\ at'[y[1]] = "waiting" /\ attempts'[y[1]] = y[2]
                           /\ at'[z[1]] = "waiting" /\ attempts'[z[1]] = z[2] =>
                           due'[y[1]] + Window <= due'[z[1]] \/ due'[z[1]] + Window <= due'[y[1]]
    BY DEF Apart, HasTurn, Counts, TurnOf
  <2> QED
    BY DEF Fits, Apart, Counts
<1> QED
  BY <1>1, <1>2 DEF Fits

\* An attempt reaches the provider: whoever shares its place came a period before it, or comes a
\* period after.
LEMMA FitsOnArrival ==
  ASSUME Shape, NEW x \in Sends, HasTurn(x), TurnOf(x) <= 0, moments' = moments,
         reached' = [reached EXCEPT ![x] = 0],
         \A y \in Sends : at'[y[1]] = "waiting" /\ attempts'[y[1]] = y[2]
           => y # x /\ HasTurn(y) /\ due'[y[1]] = TurnOf(y),
         NEW place \in [Sends -> 1 .. CALLS], Fits(place)
  PROVE  Fits(place)'
<1>1. reached'[x] = 0 /\ \A y \in Sends : y # x => reached'[y] = reached[y]
  BY DEF Shape, TypeOK
<1>2. TurnOf(x) \in Int /\ TurnOf(x) >= -HEADROOM
  BY OfOneAttempt DEF Shape
<1>3. Placed(place)'
  <2> SUFFICES ASSUME NEW y \in Sends
               PROVE  /\ at'[y[1]] = "waiting" /\ attempts'[y[1]] = y[2] =>
                           place[y] <= Len(moments') /\ due'[y[1]] <= moments'[place[y]]
                      /\ reached'[y] < PERIOD =>
                           place[y] <= Len(moments') /\ -reached'[y] <= moments'[place[y]] + HEADROOM
    BY DEF Placed, HasTurn, Counts, TurnOf
  <2>1. CASE y = x
    <3>1. place[x] \in 1 .. Len(moments) /\ TurnOf(x) <= moments[place[x]]
      <4>1. place[x] \in 1 .. CALLS
        OBVIOUS
      <4>2. Len(moments) \in Nat
        BY DEF Shape, TypeOK
      <4>3. place[x] <= Len(moments) /\ TurnOf(x) <= moments[place[x]]
        BY DEF Fits, Placed
      <4> QED
        BY <4>1, <4>2, <4>3, Numbers
    <3>2. moments[place[x]] \in Int
      BY <3>1, OfOnePlace DEF Shape
    <3>3. -0 <= moments[place[x]] + HEADROOM
      BY <1>2, <3>1, <3>2, Numbers
    <3> QED
      BY <1>1, <2>1, <3>1, <3>3
  <2>2. CASE y # x
    BY <1>1, <2>2 DEF Fits, Placed, Counts
  <2> QED
    BY <2>1, <2>2
\* Whoever shares the place of x is no longer counted, or has its turn a period from now.
<1>4. ASSUME NEW y \in Sends, y # x, place[y] = place[x]
      PROVE  ~Counts(y) /\ (HasTurn(y) => TurnOf(y) >= PERIOD)
  <2>1. TurnOf(y) \in Int /\ TurnOf(y) >= -HEADROOM /\ reached[y] \in Nat
    BY OfOneAttempt, Numbers DEF Shape
  <2>2. Counts(y) => TurnOf(x) >= PERIOD - reached[y]
    BY <1>4 DEF Fits, Apart
  <2>3. HasTurn(y) => TurnOf(x) + Window <= TurnOf(y) \/ TurnOf(y) + Window <= TurnOf(x)
    BY <1>4 DEF Fits, Apart
  <2>4. Window = PERIOD + HEADROOM /\ PERIOD \in Nat /\ PERIOD >= 1 /\ HEADROOM \in Nat
    BY Numbers
  <2>5. ~Counts(y)
    BY <1>2, <2>1, <2>2, <2>4 DEF Counts
  <2>6. ASSUME HasTurn(y) PROVE TurnOf(y) >= PERIOD
    <3>1. TurnOf(x) + Window <= TurnOf(y) \/ TurnOf(y) + Window <= TurnOf(x)
      BY <2>3, <2>6
    <3> QED
      BY <1>2, <2>1, <2>4, <3>1
  <2> QED
    BY <2>5, <2>6
<1>5. Apart(place)'
  <2> SUFFICES ASSUME NEW y \in Sends, NEW z \in Sends, y # z, place[y] = place[z]
               PROVE  /\ ~(reached'[y] < PERIOD /\ reached'[z] < PERIOD)
                      /\ reached'[y] < PERIOD /\ at'[z[1]] = "waiting" /\ attempts'[z[1]] = z[2] =>
                           due'[z[1]] >= PERIOD - reached'[y]
                      /\ at'[y[1]] = "waiting" /\ attempts'[y[1]] = y[2]
                           /\ at'[z[1]] = "waiting" /\ attempts'[z[1]] = z[2] =>
                           due'[y[1]] + Window <= due'[z[1]] \/ due'[z[1]] + Window <= due'[y[1]]
    BY DEF Apart, HasTurn, Counts, TurnOf
  <2>1. CASE y = x
    <3>1. ~Counts(z) /\ (HasTurn(z) => TurnOf(z) >= PERIOD)
      BY <1>4, <2>1
    <3>2. ~(reached'[z] < PERIOD) /\ PERIOD - reached'[y] = PERIOD
      BY <1>1, <2>1, <3>1, Numbers DEF Counts
    <3> QED
      BY <2>1, <3>1, <3>2
  <2>2. CASE z = x
    <3>1. ~Counts(y) /\ y # x
      BY <1>4, <2>2
    <3>2. ~(reached'[y] < PERIOD)
      BY <1>1, <3>1 DEF Counts
    <3> QED
      BY <2>2, <3>2
  <2>3. CASE y # x /\ z # x
    BY <1>1, <2>3 DEF Fits, Apart, Counts
  <2> QED
    BY <2>1, <2>2, <2>3
<1> QED
  BY <1>3, <1>5 DEF Fits

\* The clock ticks: turns and arrivals move together, and what is apart stays apart.
LEMMA FitsNearer ==
  ASSUME Shape, Tick, NEW place \in [Sends -> 1 .. CALLS], Fits(place)
  PROVE  Fits(place)'
<1>1. /\ Len(moments') = Len(moments)
      /\ \A i \in 1 .. Len(moments) :
           moments[i] \in Int /\ moments'[i] \in Int /\ moments'[i] >= moments[i] - 1
  <2>1. /\ Len(moments') = Len(moments)
        /\ \A i \in 1 .. Len(moments) : moments'[i] = Later(moments[i] - 1, -Window)
    BY TheDequeComesNearer DEF Shape
  <2>2. \A i \in 1 .. Len(moments) : moments[i] \in Int
    BY OfOnePlace DEF Shape
  <2>3. Window \in Nat
    BY Numbers
  <2> QED
    BY <2>1, <2>2, <2>3 DEF Later
<1>2. ASSUME NEW y \in Sends, at'[y[1]] = "waiting", attempts'[y[1]] = y[2]
      PROVE  HasTurn(y) /\ due'[y[1]] = TurnOf(y) - 1
  <2>1. y[1] \in Senders /\ TurnOf(y) \in Int
    BY OfOneAttempt DEF Shape
  <2>2. HasTurn(y) /\ TurnOf(y) > -HEADROOM
    BY <1>2, <2>1 DEF Tick, NobodyIsLate, HasTurn, TurnOf
  <2>3. due'[y[1]] = Later(due[y[1]] - 1, -HEADROOM)
    BY <2>1, <2>2 DEF Tick, HasTurn
  <2> QED
    BY <2>1, <2>2, <2>3, Numbers DEF Later, TurnOf
<1>3. ASSUME NEW y \in Sends, reached'[y] < PERIOD
      PROVE  Counts(y) /\ reached'[y] = reached[y] + 1
  <2>1. reached'[y] = Earlier(reached[y] + 1, PERIOD) /\ reached[y] \in Nat
    BY OfOneAttempt, Numbers DEF Tick, Shape
  <2> QED
    BY <1>3, <2>1, Numbers DEF Earlier, Counts
<1>4. \A y \in Sends : TurnOf(y) \in Int /\ reached[y] \in Nat /\ place[y] \in 1 .. CALLS
  BY OfOneAttempt, Numbers DEF Shape
<1>5. Placed(place)'
  <2> SUFFICES ASSUME NEW y \in Sends
               PROVE  /\ at'[y[1]] = "waiting" /\ attempts'[y[1]] = y[2] =>
                           place[y] <= Len(moments') /\ due'[y[1]] <= moments'[place[y]]
                      /\ reached'[y] < PERIOD =>
                           place[y] <= Len(moments') /\ -reached'[y] <= moments'[place[y]] + HEADROOM
    BY DEF Placed, HasTurn, Counts, TurnOf
  <2>1. Len(moments) \in Nat
    BY DEF Shape, TypeOK
  <2>2. ASSUME at'[y[1]] = "waiting", attempts'[y[1]] = y[2]
        PROVE  place[y] <= Len(moments') /\ due'[y[1]] <= moments'[place[y]]
    <3>1. HasTurn(y) /\ due'[y[1]] = TurnOf(y) - 1
      BY <1>2, <2>2
    <3>2. place[y] \in 1 .. Len(moments) /\ TurnOf(y) <= moments[place[y]]
      BY <1>4, <2>1, <3>1 DEF Fits, Placed
    <3> QED
      BY <1>1, <1>4, <3>1, <3>2
  <2>3. ASSUME reached'[y] < PERIOD
        PROVE  place[y] <= Len(moments') /\ -reached'[y] <= moments'[place[y]] + HEADROOM
    <3>1. Counts(y) /\ reached'[y] = reached[y] + 1
      BY <1>3, <2>3
    <3>2. place[y] \in 1 .. Len(moments) /\ -reached[y] <= moments[place[y]] + HEADROOM
      BY <1>4, <2>1, <3>1 DEF Fits, Placed
    <3> DEFINE m == moments[place[y]]
               now == moments'[place[y]]
    <3>3. m \in Int /\ now \in Int /\ now >= m - 1 /\ -reached[y] <= m + HEADROOM
      BY <1>1, <3>2
    <3>4. -reached'[y] = -reached[y] - 1 /\ reached[y] \in Nat
      BY <1>4, <3>1
    <3>5. HEADROOM \in Nat
      BY Numbers
    <3> HIDE DEF m, now
    <3>6. -reached'[y] <= now + HEADROOM
      BY <3>3, <3>4, <3>5
    <3> QED
      BY <1>1, <3>2, <3>6 DEF now
  <2> QED
    BY <2>2, <2>3
<1>6. Apart(place)'
  <2> SUFFICES ASSUME NEW y \in Sends, NEW z \in Sends, y # z, place[y] = place[z]
               PROVE  /\ ~(reached'[y] < PERIOD /\ reached'[z] < PERIOD)
                      /\ reached'[y] < PERIOD /\ at'[z[1]] = "waiting" /\ attempts'[z[1]] = z[2] =>
                           due'[z[1]] >= PERIOD - reached'[y]
                      /\ at'[y[1]] = "waiting" /\ attempts'[y[1]] = y[2]
                           /\ at'[z[1]] = "waiting" /\ attempts'[z[1]] = z[2] =>
                           due'[y[1]] + Window <= due'[z[1]] \/ due'[z[1]] + Window <= due'[y[1]]
    BY DEF Apart, HasTurn, Counts, TurnOf
  <2>1. /\ ~(Counts(y) /\ Counts(z))
        /\ Counts(y) /\ HasTurn(z) => TurnOf(z) >= PERIOD - reached[y]
        /\ HasTurn(y) /\ HasTurn(z) =>
             TurnOf(y) + Window <= TurnOf(z) \/ TurnOf(z) + Window <= TurnOf(y)
    BY DEF Fits, Apart
  <2>2. ~(reached'[y] < PERIOD /\ reached'[z] < PERIOD)
    BY <1>3, <2>1
  <2>3. ASSUME reached'[y] < PERIOD, at'[z[1]] = "waiting", attempts'[z[1]] = z[2]
        PROVE  due'[z[1]] >= PERIOD - reached'[y]
    <3>1. Counts(y) /\ reached'[y] = reached[y] + 1
      BY <1>3, <2>3
    <3>2. HasTurn(z) /\ due'[z[1]] = TurnOf(z) - 1
      BY <1>2, <2>3
    <3> QED
      BY <1>4, <2>1, <3>1, <3>2, Numbers
  <2>4. ASSUME at'[y[1]] = "waiting", attempts'[y[1]] = y[2],
               at'[z[1]] = "waiting", attempts'[z[1]] = z[2]
        PROVE  due'[y[1]] + Window <= due'[z[1]] \/ due'[z[1]] + Window <= due'[y[1]]
    <3>1. HasTurn(y) /\ due'[y[1]] = TurnOf(y) - 1
      BY <1>2, <2>4
    <3>2. HasTurn(z) /\ due'[z[1]] = TurnOf(z) - 1
      BY <1>2, <2>4
    <3>3. Window \in Nat
      BY Numbers
    <3> QED
      BY <1>4, <2>1, <3>1, <3>2, <3>3
  <2> QED
    BY <2>2, <2>3, <2>4
<1> QED
  BY <1>5, <1>6 DEF Fits

\* An attempt that has not begun has not arrived: nothing arrives but an attempt that has its turn.
LEMMA NotBeforeStays ==
  ASSUME Shape, NotBefore, [Next]_vars
  PROVE  NotBefore'
<1> SUFFICES ASSUME NEW t \in Senders, NEW n \in 1 .. ATTEMPTS, n > attempts'[t]
             PROVE  ~(reached'[<<t, n>>] < PERIOD)
  BY DEF NotBefore, Counts
<1> DEFINE x == <<t, n>>
<1>1. x \in Sends /\ attempts[t] \in Nat /\ reached[x] \in 0 .. PERIOD
  <2>1. x \in Sends
    BY DEF Sends
  <2>2. attempts[t] \in 0 .. ATTEMPTS
    BY DEF Shape, TypeOK
  <2>3. attempts[t] \in Nat
    BY <2>2, Numbers
  <2>4. reached[x] \in 0 .. PERIOD
    BY <2>1, OfOneAttempt DEF Shape
  <2> QED
    BY <2>1, <2>3, <2>4
<1>2. CASE attempts' = attempts /\ reached' = reached
  BY <1>2 DEF NotBefore, Counts
<1>3. ASSUME NEW s \in Senders, Acquire(s) PROVE ~(reached'[x] < PERIOD)
  <2>1. reached' = reached /\ attempts' = [attempts EXCEPT ![s] = attempts[s] + 1]
    BY <1>3 DEF Acquire, OneMore
  <2>2. n > attempts[t]
    BY <1>1, <2>1, Numbers DEF Shape, TypeOK
  <2> QED
    BY <2>1, <2>2 DEF NotBefore, Counts
<1>4. ASSUME NEW s \in Senders, Attempt(s) PROVE ~(reached'[x] < PERIOD)
  <2>1. /\ attempts' = attempts
        /\ reached' = reached \/ reached' = [reached EXCEPT ![<<s, attempts[s]>>] = 0]
    BY <1>4 DEF Attempt
  <2>2. x # <<s, attempts[s]>>
    BY <1>1, <2>1
  <2>3. reached'[x] = reached[x]
    BY <1>1, <2>1, <2>2 DEF Shape, TypeOK
  <2> QED
    BY <2>1, <2>3 DEF NotBefore, Counts
<1>5. CASE Tick
  <2>1. attempts' = attempts /\ reached'[x] = Earlier(reached[x] + 1, PERIOD)
    BY <1>1, <1>5 DEF Tick
  <2>2. ~(reached[x] < PERIOD)
    BY <2>1 DEF NotBefore, Counts
  <2> QED
    BY <1>1, <2>1, <2>2, Numbers DEF Earlier
<1> QED
  BY <1>2, <1>3, <1>4, <1>5 DEF Next, vars, Send, TryAgain

\* Whatever step is taken, the attempts can be given places again.
LEMMA FitsAgain ==
  ASSUME Shape, NotBefore, [Next]_vars, NEW place \in [Sends -> 1 .. CALLS], Fits(place)
  PROVE  \E after \in [Sends -> 1 .. CALLS] : Fits(after)'
<1> DEFINE Quiet == \A y \in Sends : at'[y[1]] = "waiting" /\ attempts'[y[1]] = y[2]
                                       => HasTurn(y) /\ due'[y[1]] = TurnOf(y)
<1>1. CASE moments' = moments /\ reached' = reached /\ Quiet
  BY <1>1, FitsStill
<1>2. CASE UNCHANGED vars
  BY <1>1, <1>2 DEF vars, HasTurn, TurnOf
<1>3. ASSUME NEW s \in Senders, Send(s) \/ TryAgain(s)
      PROVE  \E after \in [Sends -> 1 .. CALLS] : Fits(after)'
  <2>1. /\ moments' = moments /\ reached' = reached /\ due' = due /\ attempts' = attempts
        /\ at' = [at EXCEPT ![s] = "asking"]
    BY <1>3 DEF Send, TryAgain, AfterBackoff
  <2>2. \A t \in Senders : at'[t] = "waiting" => at[t] = "waiting"
    BY <2>1 DEF Shape, TypeOK
  <2>3. Quiet
    BY <2>1, <2>2, OfOneAttempt DEF HasTurn, TurnOf, Shape
  <2> QED
    BY <1>1, <2>1, <2>3
<1>4. ASSUME NEW s \in Senders, Acquire(s)
      PROVE  \E after \in [Sends -> 1 .. CALLS] : Fits(after)'
  <2>1. CASE NextMoment <= MAX_WAIT
    <3>1. CASE Len(moments) < CALLS
      BY <1>4, <2>1, <3>1, FitsWithRoom
    <3>2. CASE Len(moments) = CALLS
      BY <1>4, <2>1, <3>2, FitsInTurn
    <3> QED
      BY <3>1, <3>2, Numbers DEF Shape, TypeOK
  <2>2. CASE ~(NextMoment <= MAX_WAIT)
    <3>1. /\ moments' = moments /\ reached' = reached /\ due' = due
          /\ at' = [at EXCEPT ![s] = "over"]
          /\ attempts' = [attempts EXCEPT ![s] = attempts[s] + 1]
      BY <1>4, <2>2 DEF Acquire, Ends, OneMore
    <3>2. \A t \in Senders : at'[t] = "waiting" => at[t] = "waiting" /\ attempts'[t] = attempts[t]
      BY <3>1 DEF Shape, TypeOK
    <3>3. Quiet
      BY <3>1, <3>2, OfOneAttempt DEF HasTurn, TurnOf, Shape
    <3> QED
      BY <1>1, <3>1, <3>3
  <2> QED
    BY <2>1, <2>2
<1>5. ASSUME NEW s \in Senders, Attempt(s)
      PROVE  \E after \in [Sends -> 1 .. CALLS] : Fits(after)'
  <2>1. PICK x : x = <<s, attempts[s]>>
    OBVIOUS
  <2>2. /\ moments' = moments /\ attempts' = attempts /\ at[s] = "waiting" /\ due[s] <= 0
        /\ reached' = reached \/ reached' = [reached EXCEPT ![x] = 0]
        /\ at' = [at EXCEPT ![s] = "backing_off"] \/ at' = [at EXCEPT ![s] = "over"]
        /\ due' = due \/ \E wait \in 1 .. MAX_BACKOFF : due' = [due EXCEPT ![s] = wait]
    BY <1>5, <2>1 DEF Attempt, Ends
  <2>3. \A t \in Senders : at'[t] = "waiting" => t # s /\ at[t] = "waiting" /\ due'[t] = due[t]
    BY <2>2 DEF Shape, TypeOK
  <2>4. x \in Sends /\ HasTurn(x) /\ TurnOf(x) <= 0
    BY <2>1, <2>2, Numbers DEF Sends, HasTurn, TurnOf, Shape, TypeOK, Tried
  <2>5. \A y \in Sends : at'[y[1]] = "waiting" /\ attempts'[y[1]] = y[2]
          => y # x /\ HasTurn(y) /\ due'[y[1]] = TurnOf(y)
    BY <2>1, <2>2, <2>3, OfOneAttempt DEF HasTurn, TurnOf, Shape
  <2>6. CASE reached' = reached
    BY <1>1, <2>2, <2>5, <2>6
  <2>7. CASE reached' = [reached EXCEPT ![x] = 0]
    BY <2>2, <2>4, <2>5, <2>7, FitsOnArrival
  <2> QED
    BY <2>2, <2>6, <2>7
<1>6. CASE Tick
  BY <1>6, FitsNearer
<1> QED
  BY <1>2, <1>3, <1>4, <1>5, <1>6 DEF Next

\* The attempts can always be given places.
LEMMA LimitInvKept == Spec => []LimitInv
<1>1. Init => LimitInv
  <2> SUFFICES ASSUME Init PROVE LimitInv
    OBVIOUS
  <2>1. PICK place \in [Sends -> 1 .. CALLS] : place = [x \in Sends |-> 1]
    <3>1. 1 \in 1 .. CALLS
      BY Numbers
    <3>2. [x \in Sends |-> 1] \in [Sends -> 1 .. CALLS]
      BY <3>1
    <3> QED
      BY <3>2
  <2>2. \A x \in Sends : ~HasTurn(x) /\ ~Counts(x)
    BY Numbers DEF Init, Sends, HasTurn, Counts
  <2>3. Fits(place)
    BY <2>2 DEF Fits, Placed, Apart
  <2>4. NotBefore
    BY Numbers DEF Init, NotBefore, Counts, Sends
  <2> QED
    BY <2>3, <2>4 DEF LimitInv
<1>2. Shape /\ LimitInv /\ [Next]_vars => LimitInv'
  <2> SUFFICES ASSUME Shape, LimitInv, [Next]_vars PROVE LimitInv'
    OBVIOUS
  <2>1. PICK place \in [Sends -> 1 .. CALLS] : Fits(place)
    BY DEF LimitInv
  <2>2. \E after \in [Sends -> 1 .. CALLS] : Fits(after)'
    BY <2>1, FitsAgain DEF LimitInv
  <2>3. NotBefore'
    BY NotBeforeStays DEF LimitInv
  <2> QED
    BY <2>2, <2>3 DEF LimitInv, Sends
<1> QED
  BY ShapeKept, <1>1, <1>2, PTL DEF Spec

\* The limiter keeps the provider's limit (rate_limiter.py:20-24, 118-139): in no stretch of its window
\* do more than CALLS requests reach the provider, for any number of threads, attempts and calls, any
\* answers, and however late within the headroom each request arrives.
THEOREM LimitIsKept == Spec => []ProviderLimitKept
<1>1. LimitInv => ProviderLimitKept
  <2> SUFFICES ASSUME LimitInv PROVE ProviderLimitKept
    OBVIOUS
  <2> DEFINE Arrived == {x \in Sends : reached[x] < PERIOD}
  <2>1. PICK place \in [Sends -> 1 .. CALLS] : Fits(place)
    BY DEF LimitInv
  <2>2. \A x, y \in Arrived : x # y => place[x] # place[y]
    BY <2>1 DEF Fits, Apart, Counts
  <2>3. PICK f \in [Arrived -> 1 .. CALLS] : f = [x \in Arrived |-> place[x]]
    BY <2>1
  <2>4. f \in Injection(Arrived, 1 .. CALLS)
    BY <2>2, <2>3 DEF Injection, IsInjective
  <2>5. IsFiniteSet(1 .. CALLS) /\ Cardinality(1 .. CALLS) = CALLS
    <3>1. CALLS \in Int /\ 1 \in Int /\ ~(1 > CALLS) /\ CALLS - 1 + 1 = CALLS
      BY Numbers
    <3> QED
      BY <3>1, FS_Interval
  <2> HIDE DEF Arrived
  <2>6. Cardinality(Arrived) <= CALLS
    BY <2>4, <2>5, FS_Injection
  <2> QED
    BY <2>6 DEF ProviderLimitKept, Arrived
<1> QED
  BY LimitInvKept, <1>1, PTL

=============================================================================
