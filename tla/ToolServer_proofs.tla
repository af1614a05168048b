-------------------------- MODULE ToolServer_proofs --------------------------
(***************************************************************************)
(* What single_flight promises, for any number of calls and of threads.    *)
(*                                                                         *)
(* That no two calls are inside one key rests on their having the same     *)
(* entry, whose lock one of them holds (Holding); that they have the same  *)
(* entry rests on its being taken away only when its count says that       *)
(* nobody has it (Joined), and on the count being right (Counted).         *)
(***************************************************************************)
EXTENDS ToolServer, FiniteSetTheorems, TLAPS

\* Who has an entry in hand.
Having(k, e) == {c \in Calls : mine[c][k] = e}

\* The steps between joining a key and giving it up.
Joined == {"waiting", "looking", "asking", "asking_near", "storing", "releasing", "leaving"}

\* The keys each call has in hand, by where it is: its own from the first step to the last, and the
\* place's from joining that until it goes back to its own.
Places ==
  \A c \in Calls :
    /\ on[c] \in {KeyOf(c), "geocode"}
    /\ at[c] \in {"queued", "answered"} => on[c] = KeyOf(c)
    /\ at[c] = "entering" => on[c] = "geocode"
    /\ \A k \in Keys : mine[c][k] # NoCall <=>
         \/ k = on[c] /\ at[c] \in Joined
         \/ k = KeyOf(c) /\ on[c] = "geocode"

\* What is stored is an answer.
Known == \A c \in Calls : at[c] = "storing" => found[c] \in Answers

\* The entry of a key is the one that those who want it have, and its count is theirs.
Counted == \A k \in Keys, e \in Calls : users[k][e] = Cardinality(Having(k, e))
OneEntry ==
  \A k \in Keys :
    /\ \A c \in Calls : mine[c][k] # NoCall => mine[c][k] = inFlight[k]
    /\ inFlight[k] # NoCall => Having(k, inFlight[k]) # {}

\* Whoever is inside a key holds the lock of the entry it has.
Holding == \A k \in Keys : \A c \in Inside(k) : holder[k][mine[c][k]] = c

\* A call that was told there is nothing under a key is inside it, or just out of it; and until it has
\* stored what it found there is nothing there.
Fresh ==
  \A c \in Calls : \A k \in missed[c] :
    /\ \/ on[c] = k /\ at[c] \in {"asking", "asking_near", "storing", "releasing", "leaving"}
       \/ on[c] = "geocode" /\ k = KeyOf(c)
    /\ (on[c] = k /\ at[c] \in {"releasing", "leaving"}) \/ cached[k] = "none"

IInv == TypeOK /\ Known /\ Places /\ Counted /\ OneEntry /\ Holding /\ Fresh

-----------------------------------------------------------------------------
(* Keys and counts                                                         *)

LEMMA OwnKey ==
  ASSUME NEW c \in Calls
  PROVE KeyOf(c) \in Keys /\ KeyOf(c) # "geocode" /\ "geocode" \in Keys
  BY CallsAssumption DEF KeyOf, Calls, Keys

LEMMA HavingFinite ==
  ASSUME NEW k \in Keys, NEW e
  PROVE IsFiniteSet(Having(k, e)) /\ Cardinality(Having(k, e)) \in Nat
<1>1. Having(k, e) \in SUBSET Calls
  BY DEF Having
<1> QED BY <1>1, CallsAssumption, FS_Subset, FS_CardinalityType

\* A call that comes to a key has nothing in hand there.
LEMMA ComesEmptyHanded ==
  ASSUME TypeOK, Places, NEW c \in Calls, Call(c) \/ Enter(c)
  PROVE Joins(c) /\ mine[c][on[c]] = NoCall /\ on[c] \in Keys /\ EntryFor(c) \in Calls
<1>1. Joins(c) /\ at[c] \in {"queued", "entering"}
  BY DEF Call, Enter
<1>2. on[c] \in Keys /\ EntryFor(c) \in Calls
  BY DEF TypeOK, EntryFor
<1>3. mine[c][on[c]] = NoCall
  BY <1>1, <1>2, OwnKey DEF Places, Joined
<1> QED BY <1>1, <1>2, <1>3

\* A call that leaves a key has its entry in hand, and is counted there.
LEMMA LeavesWithItsEntry ==
  ASSUME TypeOK, Places, Counted, NEW c \in Calls, Leave(c)
  PROVE /\ on[c] \in Keys /\ mine[c][on[c]] \in Calls
        /\ users[on[c]][mine[c][on[c]]] - 1 = Cardinality(Having(on[c], mine[c][on[c]]) \ {c})
        /\ users[on[c]][mine[c][on[c]]] - 1 \in Nat
<1> DEFINE k == on[c]  e == mine[c][k]
<1>1. k \in Keys /\ at[c] = "leaving"
  BY DEF TypeOK, Leave
<1>2. e \in Calls
  BY <1>1 DEF TypeOK, Places, Joined
<1>3. c \in Having(k, e)
  BY <1>1, <1>2 DEF Having
<1>4. /\ Cardinality(Having(k, e) \ {c}) = Cardinality(Having(k, e)) - 1
      /\ Cardinality(Having(k, e) \ {c}) \in Nat
  BY <1>1, <1>3, HavingFinite, FS_RemoveElement, FS_CardinalityType
<1>5. users[k][e] = Cardinality(Having(k, e))
  BY <1>1, <1>2 DEF Counted
<1> QED BY <1>1, <1>2, <1>4, <1>5

\* Every other step leaves the keys' entries alone.
InHand == <<inFlight, users, mine>>

LEMMA OtherSteps ==
  ASSUME [Next]_vars
  PROVE (\E c \in Calls : Call(c) \/ Enter(c) \/ Leave(c)) \/ UNCHANGED InHand
  BY DEF Next, GoesOn, Acquire, Look, Ask, AskNear, Store, Release, Expire, vars, flight, InHand

LEMMA CountedKept == TypeOK /\ Places /\ Counted /\ [Next]_vars => Counted'
<1> SUFFICES ASSUME TypeOK, Places, Counted, [Next]_vars, NEW k \in Keys, NEW e \in Calls
             PROVE users'[k][e] = Cardinality(Having(k, e)')
  BY DEF Counted
<1> USE DEF Having
<1>1. users[k][e] = Cardinality(Having(k, e))
  BY DEF Counted
<1>2. CASE UNCHANGED InHand
  BY <1>1, <1>2 DEF InHand
<1>3. ASSUME NEW c \in Calls, Call(c) \/ Enter(c) PROVE users'[k][e] = Cardinality(Having(k, e)')
  <2>1. /\ mine' = [mine EXCEPT ![c][on[c]] = EntryFor(c)]
        /\ users' = [users EXCEPT ![on[c]][EntryFor(c)] = @ + 1]
        /\ mine[c][on[c]] = NoCall /\ on[c] \in Keys /\ EntryFor(c) \in Calls
    BY <1>3, ComesEmptyHanded DEF Joins, OneMore
  <2>2. CASE k = on[c] /\ e = EntryFor(c)
    <3>1. Having(k, e)' = Having(k, e) \cup {c}
      BY <2>1, <2>2 DEF TypeOK
    <3>2. c \notin Having(k, e)
      BY <2>1, <2>2, CallsAssumption
    <3>3. Cardinality(Having(k, e) \cup {c}) = Cardinality(Having(k, e)) + 1
      <4> HIDE DEF Having
      <4>1. IsFiniteSet(Having(k, e))
        BY HavingFinite
      <4> QED BY <3>2, <4>1, FS_AddElement
    <3>4. users'[k][e] = users[k][e] + 1
      BY <2>1, <2>2 DEF TypeOK
    <3> QED BY <1>1, <3>1, <3>3, <3>4
  <2>3. CASE ~(k = on[c] /\ e = EntryFor(c))
    <3>1. Having(k, e)' = Having(k, e)
      BY <2>1, <2>3, CallsAssumption DEF TypeOK
    <3>2. users'[k][e] = users[k][e]
      BY <2>1, <2>3 DEF TypeOK
    <3> QED BY <1>1, <3>1, <3>2
  <2> QED BY <2>2, <2>3
<1>4. ASSUME NEW c \in Calls, Leave(c) PROVE users'[k][e] = Cardinality(Having(k, e)')
  <2> DEFINE l == mine[c][on[c]]
  <2>1. /\ mine' = [mine EXCEPT ![c][on[c]] = NoCall]
        /\ users' = [users EXCEPT ![on[c]][l] = users[on[c]][l] - 1]
    BY <1>4 DEF Leave, CountedOut
  <2>2. /\ on[c] \in Keys /\ l \in Calls
        /\ users[on[c]][l] - 1 = Cardinality(Having(on[c], l) \ {c})
    BY <1>4, LeavesWithItsEntry
  <2>3. CASE k = on[c] /\ e = l
    <3>1. Having(k, e)' = Having(k, e) \ {c}
      BY <2>1, <2>2, <2>3, CallsAssumption DEF TypeOK
    <3>2. users'[k][e] = users[k][e] - 1
      BY <2>1, <2>2, <2>3 DEF TypeOK
    <3> QED BY <2>2, <2>3, <3>1, <3>2
  <2>4. CASE ~(k = on[c] /\ e = l)
    <3>1. Having(k, e)' = Having(k, e)
      BY <2>1, <2>2, <2>4, CallsAssumption DEF TypeOK
    <3>2. users'[k][e] = users[k][e]
      BY <2>1, <2>2, <2>4 DEF TypeOK
    <3> QED BY <1>1, <3>1, <3>2
  <2> QED BY <2>3, <2>4
<1> QED BY <1>2, <1>3, <1>4, OtherSteps

LEMMA OneEntryKept == TypeOK /\ Places /\ Counted /\ OneEntry /\ [Next]_vars => OneEntry'
<1> SUFFICES ASSUME TypeOK, Places, Counted, OneEntry, [Next]_vars PROVE OneEntry'
  OBVIOUS
<1> USE DEF OneEntry
<1>1. CASE UNCHANGED InHand
  BY <1>1 DEF InHand, Having
<1>2. ASSUME NEW c \in Calls, Call(c) \/ Enter(c) PROVE OneEntry'
  <2>1. /\ mine' = [mine EXCEPT ![c][on[c]] = EntryFor(c)]
        /\ inFlight' = [inFlight EXCEPT ![on[c]] = EntryFor(c)]
        /\ mine[c][on[c]] = NoCall /\ on[c] \in Keys /\ EntryFor(c) \in Calls
    BY <1>2, ComesEmptyHanded DEF Joins
  <2> SUFFICES ASSUME NEW k \in Keys
               PROVE /\ \A d \in Calls : mine'[d][k] # NoCall => mine'[d][k] = inFlight'[k]
                     /\ inFlight'[k] # NoCall => Having(k, inFlight[k])' # {}
    OBVIOUS
  <2>2. CASE k = on[c]
    <3>1. inFlight'[k] = EntryFor(c) /\ mine'[c][k] = EntryFor(c)
      BY <2>1, <2>2 DEF TypeOK
    <3>2. ASSUME NEW d \in Calls, d # c, mine'[d][k] # NoCall PROVE mine'[d][k] = inFlight'[k]
      <4>1. mine'[d][k] = mine[d][k]
        BY <2>1, <3>2 DEF TypeOK
      <4> QED BY <2>2, <3>1, <3>2, <4>1 DEF EntryFor
    <3> QED BY <3>1, <3>2 DEF Having
  <2>3. CASE k # on[c]
    <3>1. inFlight'[k] = inFlight[k] /\ \A d \in Calls : mine'[d][k] = mine[d][k]
      BY <2>1, <2>3 DEF TypeOK
    <3> QED BY <3>1 DEF Having
  <2> QED BY <2>2, <2>3
<1>3. ASSUME NEW c \in Calls, Leave(c) PROVE OneEntry'
  <2> DEFINE l == mine[c][on[c]]  left == users[on[c]][l] - 1
  <2>1. /\ mine' = [mine EXCEPT ![c][on[c]] = NoCall]
        /\ inFlight' = [inFlight EXCEPT ![on[c]] = IF left = 0 THEN NoCall ELSE @]
    BY <1>3 DEF Leave, CountedOut, NobodyLeft
  <2>2. on[c] \in Keys /\ l \in Calls /\ left = Cardinality(Having(on[c], l) \ {c})
    BY <1>3, LeavesWithItsEntry
  <2>3. l # NoCall /\ l = inFlight[on[c]]
    BY <2>2, CallsAssumption
  <2>4. left = 0 <=> Having(on[c], l) \ {c} = {}
    <3>1. IsFiniteSet(Having(on[c], l) \ {c})
      BY <2>2, HavingFinite, FS_RemoveElement
    <3> HIDE DEF l, left
    <3> QED BY <2>2, <3>1, FS_EmptySet
  <2> HIDE DEF left
  <2> SUFFICES ASSUME NEW k \in Keys
               PROVE /\ \A d \in Calls : mine'[d][k] # NoCall => mine'[d][k] = inFlight'[k]
                     /\ inFlight'[k] # NoCall => Having(k, inFlight[k])' # {}
    OBVIOUS
  <2>5. CASE k = on[c]
    <3>1. mine'[c][k] = NoCall /\ \A d \in Calls \ {c} : mine'[d][k] = mine[d][k]
      BY <2>1, <2>5 DEF TypeOK
    <3>2. inFlight'[k] = IF left = 0 THEN NoCall ELSE inFlight[k]
      BY <2>1, <2>5 DEF TypeOK
    <3>3. CASE left = 0
      BY <2>3, <2>4, <2>5, <3>1, <3>2, <3>3 DEF Having
    <3>4. CASE left # 0
      BY <2>3, <2>4, <2>5, <3>1, <3>2, <3>4 DEF Having
    <3> QED BY <3>3, <3>4
  <2>6. CASE k # on[c]
    <3>1. inFlight'[k] = inFlight[k] /\ \A d \in Calls : mine'[d][k] = mine[d][k]
      BY <2>1, <2>6 DEF TypeOK
    <3> QED BY <3>1 DEF Having
  <2> QED BY <2>5, <2>6
<1> QED BY <1>1, <1>2, <1>3, OtherSteps

-----------------------------------------------------------------------------
(* Where the calls are                                                     *)

LEMMA TypeKept == TypeOK /\ Known /\ Places /\ Counted /\ [Next]_vars => TypeOK'
<1> SUFFICES ASSUME TypeOK, Known, Places, Counted, [Next]_vars PROVE TypeOK'
  OBVIOUS
<1> USE DEF TypeOK, Answers, GoesTo, EndsWith
<1>1. ASSUME NEW c \in Calls, Call(c) \/ Enter(c) PROVE TypeOK'
  <2>1. Joins(c) /\ on[c] \in Keys /\ EntryFor(c) \in Calls
    BY <1>1, ComesEmptyHanded
  <2> QED BY <2>1 DEF Joins, OneMore
<1>2. ASSUME NEW c \in Calls, Acquire(c) PROVE TypeOK'
  BY <1>2 DEF Acquire
<1>3. ASSUME NEW c \in Calls, Look(c) PROVE TypeOK'
  <2>1. UNCHANGED <<inFlight, users, holder, mine, cached>>
    BY <1>3 DEF Look, flight
  <2>2. \/ AsksForIt(c) \/ (cached[on[c]] # "none" /\ EndsWith(c, cached[on[c]]))
    BY <1>3 DEF Look
  <2>3. /\ at' \in {[at EXCEPT ![c] = "asking"], [at EXCEPT ![c] = "entering"], [at EXCEPT ![c] = "releasing"]}
        /\ on' \in {on, [on EXCEPT ![c] = "geocode"]}
        /\ found' \in {found, [found EXCEPT ![c] = "nothing"], [found EXCEPT ![c] = cached[on[c]]]}
    BY <2>2 DEF AsksForIt, NeedsThePlace
  <2>4. missed' = missed \/ missed' = [missed EXCEPT ![c] = missed[c] \cup {on[c]}]
    BY <1>3 DEF Look
  <2>5. cached[on[c]] \in Answers \cup {"none"} /\ on[c] \in Keys
    OBVIOUS
  <2>6. at' \in [Calls -> {"queued", "entering", "waiting", "looking", "asking", "asking_near",
                           "storing", "releasing", "leaving", "answered"}]
    BY <2>3
  <2>7. on' \in [Calls -> Keys]
    BY <2>3, OwnKey
  <2>8. found' \in [Calls -> Answers \cup {"none", "error"}]
    BY <2>3, <2>5
  <2>9. missed' \in [Calls -> SUBSET Keys]
    <3>1. missed[c] \cup {on[c]} \in SUBSET Keys
      BY <2>5
    <3> QED BY <2>4, <3>1
  <2> QED BY <2>1, <2>6, <2>7, <2>8, <2>9
<1>4. ASSUME NEW c \in Calls, Ask(c) \/ AskNear(c) PROVE TypeOK'
  <2>1. UNCHANGED <<inFlight, users, holder, mine, cached, missed>>
    BY <1>4 DEF Ask, AskNear, flight
  <2>2. (NeedsThePlace(c) /\ UNCHANGED found) \/ (\E answer \in Answers \cup {"error"} : Hears(c, answer))
    BY <1>4 DEF Ask, AskNear
  <2>3. CASE NeedsThePlace(c) /\ UNCHANGED found
    BY <2>1, <2>3 DEF NeedsThePlace, Keys
  <2>4. ASSUME NEW answer \in Answers \cup {"error"}, Hears(c, answer) PROVE TypeOK'
    <3>1. /\ at' \in {[at EXCEPT ![c] = "storing"], [at EXCEPT ![c] = "releasing"]}
          /\ found' = [found EXCEPT ![c] = answer] /\ UNCHANGED on
      BY <2>4 DEF Hears
    <3>2. at' \in [Calls -> {"queued", "entering", "waiting", "looking", "asking", "asking_near",
                             "storing", "releasing", "leaving", "answered"}]
      BY <3>1
    <3>3. found' \in [Calls -> Answers \cup {"none", "error"}]
      BY <3>1
    <3> QED BY <2>1, <3>1, <3>2, <3>3
  <2> QED BY <2>2, <2>3, <2>4
<1>5. ASSUME NEW c \in Calls, Store(c) PROVE TypeOK'
  <2>1. found[c] \in Answers /\ on[c] \in Keys
    BY <1>5 DEF Store, Known
  <2>2. cached' \in [Keys -> Answers \cup {"none"}]
    BY <1>5, <2>1 DEF Store
  <2>3. at' \in [Calls -> {"queued", "entering", "waiting", "looking", "asking", "asking_near",
                           "storing", "releasing", "leaving", "answered"}]
    BY <1>5 DEF Store
  <2>4. UNCHANGED <<on, inFlight, users, holder, mine, found, missed>>
    BY <1>5 DEF Store, flight
  <2> QED BY <2>2, <2>3, <2>4
<1>6. ASSUME NEW c \in Calls, Release(c) PROVE TypeOK'
  BY <1>6 DEF Release, Freed
<1>7. ASSUME NEW c \in Calls, Leave(c) PROVE TypeOK'
  <2> DEFINE k == on[c]  e == mine[c][k]
  <2>1. k \in Keys /\ e \in Calls /\ users[k][e] - 1 \in Nat
    BY <1>7, LeavesWithItsEntry
  <2>2. users' = [users EXCEPT ![k][e] = users[k][e] - 1]
    BY <1>7 DEF Leave, CountedOut
  <2>3. inFlight' \in {inFlight, [inFlight EXCEPT ![k] = NoCall]}
    BY <1>7, <2>1 DEF Leave, CountedOut, NobodyLeft
  <2>4. mine' = [mine EXCEPT ![c][k] = NoCall] /\ missed' = [missed EXCEPT ![c] = @ \ {k}]
    BY <1>7 DEF Leave
  <2>5. /\ at' \in {[at EXCEPT ![c] = "answered"], [at EXCEPT ![c] = "asking_near"], [at EXCEPT ![c] = "releasing"]}
        /\ on' = [on EXCEPT ![c] = KeyOf(c)]
        /\ found' \in {found, [found EXCEPT ![c] = "none"]}
        /\ UNCHANGED <<holder, cached>>
    BY <1>7 DEF Leave
  <2>6. users' \in [Keys -> [Calls -> Nat]]
    <3> HIDE DEF k, e
    <3> QED BY <2>1, <2>2
  <2>7. inFlight' \in [Keys -> Calls \cup {NoCall}]
    BY <2>1, <2>3
  <2>8. mine' \in [Calls -> [Keys -> Calls \cup {NoCall}]] /\ missed' \in [Calls -> SUBSET Keys]
    BY <2>4
  <2>9. /\ at' \in [Calls -> {"queued", "entering", "waiting", "looking", "asking", "asking_near",
                              "storing", "releasing", "leaving", "answered"}]
        /\ on' \in [Calls -> Keys]
        /\ found' \in [Calls -> Answers \cup {"none", "error"}]
    BY <2>5, OwnKey
  <2> QED BY <2>5, <2>6, <2>7, <2>8, <2>9
<1>8. ASSUME NEW k \in Keys, Expire(k) PROVE TypeOK'
  BY <1>8 DEF Expire, flight
<1>9. CASE UNCHANGED vars
  BY <1>9 DEF vars
<1> QED BY <1>1, <1>2, <1>3, <1>4, <1>5, <1>6, <1>7, <1>8, <1>9 DEF Next, GoesOn

LEMMA KnownKept == TypeOK /\ Known /\ [Next]_vars => Known'
<1> SUFFICES ASSUME TypeOK, Known, [Next]_vars, NEW d \in Calls, at'[d] = "storing"
             PROVE found'[d] \in Answers
  BY DEF Known
<1> USE DEF TypeOK, Known, GoesTo, EndsWith
<1>1. ASSUME NEW c \in Calls, Call(c) \/ Enter(c) \/ Acquire(c) \/ Release(c) PROVE found'[d] \in Answers
  BY <1>1 DEF Call, Enter, Joins, Acquire, Release
<1>2. ASSUME NEW c \in Calls, Look(c) PROVE found'[d] \in Answers
  BY <1>2 DEF Look, AsksForIt, NeedsThePlace
<1>3. ASSUME NEW c \in Calls, Ask(c) \/ AskNear(c) PROVE found'[d] \in Answers
  BY <1>3 DEF Ask, AskNear, Hears, WorthKeeping, NeedsThePlace, Answers
<1>4. ASSUME NEW c \in Calls, Store(c) PROVE found'[d] \in Answers
  BY <1>4 DEF Store
<1>5. ASSUME NEW c \in Calls, Leave(c) PROVE found'[d] \in Answers
  <2>1. d # c
    BY <1>5 DEF Leave
  <2> QED BY <1>5, <2>1 DEF Leave
<1>6. ASSUME NEW k \in Keys, Expire(k) PROVE found'[d] \in Answers
  BY <1>6 DEF Expire
<1>7. CASE UNCHANGED vars
  BY <1>7 DEF vars
<1> QED BY <1>1, <1>2, <1>3, <1>4, <1>5, <1>6, <1>7 DEF Next, GoesOn

\* A call changes nothing but its own place, key and hands.
LEMMA Alone ==
  ASSUME TypeOK, NEW c \in Calls, Call(c) \/ GoesOn(c), NEW d \in Calls, d # c
  PROVE at'[d] = at[d] /\ on'[d] = on[d] /\ mine'[d] = mine[d] /\ missed'[d] = missed[d]
<1> USE DEF TypeOK, GoesTo, EndsWith, flight
<1>1. CASE Call(c) \/ Enter(c)
  BY <1>1 DEF Call, Enter, Joins
<1>2. CASE Acquire(c) \/ Release(c) \/ Store(c) \/ Leave(c)
  BY <1>2 DEF Acquire, Release, Store, Leave
<1>3. CASE Look(c)
  BY <1>3 DEF Look, AsksForIt, NeedsThePlace
<1>4. CASE Ask(c) \/ AskNear(c)
  BY <1>4 DEF Ask, AskNear, Hears, NeedsThePlace
<1> QED BY <1>1, <1>2, <1>3, <1>4 DEF GoesOn

\* What a search does while it holds its key leaves its hands as they are, and takes it from one step
\* between the lock and its release to another, or on to the place.
Busy == {"looking", "asking", "asking_near", "storing", "releasing"}

LEMMA Works ==
  ASSUME TypeOK, Places, NEW c \in Calls, Look(c) \/ Ask(c) \/ AskNear(c) \/ Store(c)
  PROVE /\ UNCHANGED <<inFlight, users, holder, mine>>
        /\ at[c] \in Busy \ {"releasing"}
        /\ \/ on'[c] = on[c] /\ at'[c] \in Busy \ {"looking"}
           \/ on[c] = KeyOf(c) /\ on'[c] = "geocode" /\ at'[c] = "entering"
<1> USE DEF TypeOK, GoesTo, EndsWith, flight, Busy
<1>1. CASE Look(c)
  <2>1. UNCHANGED <<inFlight, users, holder, mine>> /\ at[c] = "looking"
    BY <1>1 DEF Look
  <2>2. CASE EndsWith(c, cached[on[c]])
    BY <2>1, <2>2
  <2>3. CASE AsksForIt(c)
    BY <2>1, <2>3 DEF AsksForIt, NeedsThePlace, Places
  <2> QED BY <1>1, <2>2, <2>3, <2>1 DEF Look
<1>2. CASE Ask(c)
  <2>1. UNCHANGED <<inFlight, users, holder, mine>> /\ at[c] = "asking"
    BY <1>2 DEF Ask
  <2>2. CASE on[c] = "hotels" /\ NeedsThePlace(c)
    BY <2>1, <2>2 DEF NeedsThePlace, Places
  <2>3. ASSUME NEW answer, Hears(c, answer) PROVE on'[c] = on[c] /\ at'[c] \in Busy \ {"looking"}
    BY <2>3 DEF Hears
  <2> QED BY <1>2, <2>1, <2>2, <2>3 DEF Ask
<1>3. CASE AskNear(c)
  BY <1>3 DEF AskNear, Hears
<1>4. CASE Store(c)
  BY <1>4 DEF Store
<1> QED BY <1>1, <1>2, <1>3, <1>4

LEMMA PlacesKept == TypeOK /\ Places /\ Counted /\ [Next]_vars => Places'
<1> DEFINE P(d) ==
      /\ on[d] \in {KeyOf(d), "geocode"}
      /\ at[d] \in {"queued", "answered"} => on[d] = KeyOf(d)
      /\ at[d] = "entering" => on[d] = "geocode"
      /\ \A k \in Keys : mine[d][k] # NoCall <=>
           \/ k = on[d] /\ at[d] \in Joined
           \/ k = KeyOf(d) /\ on[d] = "geocode"
<1> SUFFICES ASSUME TypeOK, Places, Counted, [Next]_vars, NEW d \in Calls PROVE P(d)'
  BY DEF Places
<1>1. P(d) /\ KeyOf(d)' = KeyOf(d)
  BY DEF Places, KeyOf
<1>2. ASSUME NEW c \in Calls, c # d, Call(c) \/ GoesOn(c) PROVE P(d)'
  BY <1>1, <1>2, Alone
<1>3. CASE Call(d) \/ Enter(d)
  <2>1. Joins(d) /\ on[d] \in Keys /\ EntryFor(d) \in Calls
    BY <1>3, ComesEmptyHanded
  <2>2. at'[d] = "waiting" /\ on'[d] = on[d]
    BY <2>1 DEF Joins, GoesTo, TypeOK
  <2>3. \A k \in Keys : mine'[d][k] = IF k = on[d] THEN EntryFor(d) ELSE mine[d][k]
    BY <2>1 DEF Joins, TypeOK
  <2>4. on[d] = "geocode" \/ at[d] = "queued"
    BY <1>1, <1>3 DEF Call, Enter
  <2>5. ASSUME NEW k \in Keys
        PROVE mine'[d][k] # NoCall <=> (k = on[d] \/ (k = KeyOf(d) /\ on[d] = "geocode"))
    <3>1. k # on[d] => (mine[d][k] # NoCall <=> (k = KeyOf(d) /\ on[d] = "geocode"))
      BY <1>1
    <3> QED BY <2>1, <2>3, <3>1, CallsAssumption
  <2> QED BY <1>1, <2>2, <2>5 DEF Joined
<1>4. CASE Acquire(d) \/ Release(d)
  <2>1. UNCHANGED <<on, mine>> /\ at[d] \in Joined /\ at'[d] \in Joined
    BY <1>4 DEF Acquire, Release, GoesTo, TypeOK, Joined
  <2>2. at'[d] \notin {"queued", "answered", "entering"}
    BY <2>1 DEF Joined
  <2> QED BY <1>1, <2>1, <2>2
<1>5. CASE Look(d) \/ Ask(d) \/ AskNear(d) \/ Store(d)
  <2>1. /\ mine' = mine /\ at[d] \in Busy
        /\ \/ on'[d] = on[d] /\ at'[d] \in Busy
           \/ on[d] = KeyOf(d) /\ on'[d] = "geocode" /\ at'[d] = "entering"
    BY <1>5, Works
  <2>2. CASE on'[d] = on[d] /\ at'[d] \in Busy
    BY <1>1, <2>1, <2>2 DEF Busy, Joined
  <2>3. CASE on[d] = KeyOf(d) /\ on'[d] = "geocode" /\ at'[d] = "entering"
    BY <1>1, <2>1, <2>3, OwnKey DEF Busy, Joined
  <2> QED BY <2>1, <2>2, <2>3
<1>6. CASE Leave(d)
  <2>1. /\ at[d] = "leaving" /\ on'[d] = KeyOf(d) /\ on[d] \in Keys
        /\ \/ on[d] # "geocode" /\ at'[d] = "answered"
           \/ on[d] = "geocode" /\ at'[d] \in {"asking_near", "releasing"}
    BY <1>6 DEF Leave, GoesTo, TypeOK
  <2>2. \A k \in Keys : mine'[d][k] = IF k = on[d] THEN NoCall ELSE mine[d][k]
    BY <1>6 DEF Leave, TypeOK
  <2>3. CASE on[d] # "geocode" /\ at'[d] = "answered"
    BY <1>1, <2>1, <2>2, <2>3, OwnKey DEF Joined
  <2>4. CASE on[d] = "geocode" /\ at'[d] \in {"asking_near", "releasing"}
    BY <1>1, <2>1, <2>2, <2>4, OwnKey DEF Joined
  <2> QED BY <2>1, <2>3, <2>4
<1>7. ASSUME NEW k \in Keys, Expire(k) PROVE P(d)'
  BY <1>1, <1>7 DEF Expire, flight
<1>8. CASE UNCHANGED vars
  BY <1>1, <1>8 DEF vars
<1> QED BY <1>2, <1>3, <1>4, <1>5, <1>6, <1>7, <1>8 DEF Next, GoesOn

-----------------------------------------------------------------------------
(* One search per key                                                      *)

LEMMA HoldingKept == TypeOK /\ Places /\ Counted /\ Holding /\ [Next]_vars => Holding'
<1> DEFINE In(d, k) == (on[d] = k /\ at[d] \in Busy) \/ (on[d] = "geocode" /\ KeyOf(d) = k)
<1>1. \A k \in Keys, d \in Calls : (d \in Inside(k) <=> In(d, k)) /\ (d \in Inside(k)' <=> In(d, k)')
  BY DEF Inside, Busy
<1> SUFFICES ASSUME TypeOK, Places, Counted, Holding, [Next]_vars PROVE Holding'
  OBVIOUS
<1> SUFFICES ASSUME NEW k \in Keys, NEW d \in Calls, In(d, k)' PROVE holder'[k][mine'[d][k]] = d
  <2>1. \A k \in Keys : Inside(k)' \subseteq Calls
    BY DEF Inside
  <2> HIDE DEF In
  <2> QED BY <1>1, <2>1 DEF Holding
<1>2. /\ KeyOf(d)' = KeyOf(d) /\ KeyOf(d) # "geocode"
      /\ \A j \in Keys, c \in Calls : In(c, j) => holder[j][mine[c][j]] = c
  BY <1>1, OwnKey DEF KeyOf, Holding
<1>3. ASSUME NEW c \in Calls, Call(c) \/ Enter(c) PROVE holder'[k][mine'[d][k]] = d
  <2>1. Joins(c)
    BY <1>3, ComesEmptyHanded
  <2>2. holder' = holder /\ (c # d => at'[d] = at[d] /\ on'[d] = on[d] /\ mine'[d] = mine[d])
    BY <1>3, <2>1, Alone DEF Joins, GoesOn
  <2>3. CASE c = d
    <3>1. on[d] = "geocode" /\ KeyOf(d) = k
      BY <1>2, <2>1, <2>3 DEF Joins, GoesTo, Busy, TypeOK
    <3>2. mine'[d][k] = mine[d][k]
      BY <1>2, <2>1, <2>3, <3>1 DEF Joins, TypeOK
    <3> QED BY <1>2, <2>2, <3>1, <3>2
  <2> QED BY <1>2, <2>2, <2>3
<1>4. ASSUME NEW c \in Calls, Acquire(c) PROVE holder'[k][mine'[d][k]] = d
  <2> DEFINE j == on[c]  e == mine[c][j]
  <2>1. /\ UNCHANGED <<on, mine>> /\ at[c] = "waiting" /\ at'[c] = "looking"
        /\ holder[j][e] = NoCall /\ holder' = [holder EXCEPT ![j][e] = c] /\ j \in Keys
    BY <1>4 DEF Acquire, GoesTo, TypeOK
  <2>2. e \in Calls
    BY <2>1 DEF TypeOK, Places, Joined
  <2>3. CASE c = d /\ k = j
    BY <2>1, <2>2, <2>3 DEF TypeOK
  <2>4. CASE ~(c = d /\ k = j)
    <3>1. In(d, k)
      BY <1>2, <1>4, <2>1, <2>4, Alone DEF GoesOn
    <3>2. holder[k][mine[d][k]] = d /\ d # NoCall
      BY <1>2, <3>1, CallsAssumption
    <3>3. ~(k = j /\ mine[d][k] = e)
      BY <2>1, <3>2
    <3> HIDE DEF j, e
    <3> QED BY <2>1, <2>2, <3>2, <3>3 DEF TypeOK
  <2> QED BY <2>3, <2>4
<1>5. ASSUME NEW c \in Calls, Look(c) \/ Ask(c) \/ AskNear(c) \/ Store(c)
      PROVE holder'[k][mine'[d][k]] = d
  <2>1. /\ holder' = holder /\ mine' = mine /\ at[c] \in Busy
        /\ \/ on'[c] = on[c] /\ at'[c] \in Busy
           \/ on[c] = KeyOf(c) /\ on'[c] = "geocode" /\ at'[c] = "entering"
    BY <1>5, Works
  <2>2. c # d => at'[d] = at[d] /\ on'[d] = on[d]
    BY <1>5, Alone DEF GoesOn
  <2>3. In(d, k)
    BY <1>2, <2>1, <2>2 DEF Busy
  <2> QED BY <1>2, <2>1, <2>3
<1>6. ASSUME NEW c \in Calls, Release(c) PROVE holder'[k][mine'[d][k]] = d
  <2> DEFINE j == on[c]  e == mine[c][j]
  <2>1. /\ UNCHANGED <<on, mine>> /\ at[c] = "releasing" /\ at'[c] = "leaving"
        /\ holder' = [holder EXCEPT ![j][e] = NoCall] /\ j \in Keys
    BY <1>6 DEF Release, Freed, GoesTo, TypeOK
  <2>2. holder[j][e] = c
    BY <1>2, <2>1 DEF Busy
  <2>3. In(d, k) /\ ~(c = d /\ k = j)
    BY <1>2, <1>6, <2>1, Alone DEF GoesOn, Busy
  <2>4. holder[k][mine[d][k]] = d
    BY <1>2, <2>3
  <2>5. ~(k = j /\ mine[d][k] = e)
    BY <2>2, <2>3, <2>4
  <2>6. mine[d][k] \in Calls /\ e \in Calls
    BY <1>2, <2>1, <2>3 DEF Places, Joined, Busy, TypeOK
  <2> HIDE DEF j, e
  <2> QED BY <2>1, <2>4, <2>5, <2>6 DEF TypeOK
<1>7. ASSUME NEW c \in Calls, Leave(c) PROVE holder'[k][mine'[d][k]] = d
  <2>1. holder' = holder /\ (c # d => at'[d] = at[d] /\ on'[d] = on[d] /\ mine'[d] = mine[d])
    BY <1>7, Alone DEF Leave, GoesOn
  <2>2. CASE c = d
    <3>1. /\ on'[d] = KeyOf(d) /\ mine' = [mine EXCEPT ![d][on[d]] = NoCall]
          /\ on[d] # "geocode" => at'[d] = "answered"
      BY <1>7, <2>2 DEF Leave, GoesTo, TypeOK
    <3>2. on[d] = "geocode" /\ KeyOf(d) = k
      BY <1>2, <3>1 DEF Busy
    <3>3. mine'[d][k] = mine[d][k]
      BY <1>2, <3>1, <3>2 DEF TypeOK
    <3> QED BY <1>2, <2>1, <3>2, <3>3
  <2> QED BY <1>2, <2>1, <2>2
<1>8. ASSUME NEW j \in Keys, Expire(j) PROVE holder'[k][mine'[d][k]] = d
  BY <1>2, <1>8 DEF Expire, flight
<1>9. CASE UNCHANGED vars
  BY <1>2, <1>9 DEF vars
<1> QED BY <1>3, <1>4, <1>5, <1>6, <1>7, <1>8, <1>9 DEF Next, GoesOn

\* Those inside one key have the same entry, and only one of them its lock.
LEMMA Alike == TypeOK /\ Places /\ OneEntry /\ Holding => OneSearchPerKey
<1> SUFFICES ASSUME TypeOK, Places, OneEntry, Holding, NEW k \in Keys, NEW c \in Inside(k), NEW d \in Inside(k)
             PROVE c = d
  BY DEF OneSearchPerKey
<1>1. \A x \in Inside(k) : x \in Calls /\ mine[x][k] # NoCall
  BY DEF Inside, Places, Joined
<1>2. mine[c][k] = inFlight[k] /\ mine[d][k] = inFlight[k]
  BY <1>1 DEF OneEntry
<1> QED BY <1>2 DEF Holding

LEMMA FreshKept == TypeOK /\ Places /\ Counted /\ OneEntry /\ Holding /\ Fresh /\ [Next]_vars => Fresh'
<1> DEFINE Near(c, k) == \/ on[c] = k /\ at[c] \in {"asking", "asking_near", "storing", "releasing", "leaving"}
                         \/ on[c] = "geocode" /\ k = KeyOf(c)
           Past(c, k) == on[c] = k /\ at[c] \in {"releasing", "leaving"}
<1> SUFFICES ASSUME TypeOK, Places, Counted, OneEntry, Holding, Fresh, [Next]_vars,
                    NEW d \in Calls, NEW k \in missed'[d]
             PROVE Near(d, k)' /\ (Past(d, k)' \/ cached'[k] = "none")
  BY DEF Fresh
<1> DEFINE Goal == Near(d, k)' /\ (Past(d, k)' \/ cached'[k] = "none")
<1>1. KeyOf(d)' = KeyOf(d) /\ KeyOf(d) # "geocode" /\ KeyOf(d) \in Keys
  BY OwnKey DEF KeyOf
<1>2. k \in missed[d] => Near(d, k) /\ (Past(d, k) \/ cached[k] = "none")
  BY DEF Fresh
<1>3. ASSUME NEW c \in Calls, c # d, Call(c) \/ GoesOn(c) PROVE Goal
  <2>1. at'[d] = at[d] /\ on'[d] = on[d] /\ missed'[d] = missed[d]
    BY <1>3, Alone
  <2>2. cached' = cached \/ (at[c] = "storing" /\ cached' = [cached EXCEPT ![on[c]] = found[c]])
    BY <1>3 DEF Call, Joins, GoesOn, Enter, Acquire, Look, Ask, AskNear, Store, Release, Leave
  <2>3. CASE at[c] = "storing" /\ cached' = [cached EXCEPT ![on[c]] = found[c]] /\ k = on[c]
    <3>1. c \in Inside(k) /\ k \in Keys
      BY <2>3 DEF Inside, TypeOK
    <3>2. d \notin Inside(k)
      BY <1>3, <3>1, Alike DEF OneSearchPerKey
    <3>3. Past(d, k)
      BY <1>2, <2>1, <3>2 DEF Inside
    <3> QED BY <1>1, <2>1, <3>3, <1>2
  <2>4. CASE cached' = cached \/ (cached' = [cached EXCEPT ![on[c]] = found[c]] /\ k # on[c])
    <3>1. k \in Keys
      BY <2>1 DEF TypeOK
    <3>2. cached'[k] = cached[k]
      BY <2>4, <3>1 DEF TypeOK
    <3> QED BY <1>1, <1>2, <2>1, <3>2
  <2> QED BY <2>2, <2>3, <2>4
<1>4. CASE Call(d) \/ Enter(d) \/ Acquire(d)
  <2>1. UNCHANGED <<on, cached, missed>> /\ at[d] \in {"queued", "entering", "waiting"}
    BY <1>4 DEF Call, Enter, Joins, Acquire
  <2> QED BY <1>1, <1>2, <2>1
<1>5. CASE Look(d)
  <2>1. /\ at[d] = "looking" /\ cached' = cached
        /\ \/ on'[d] = on[d] /\ at'[d] \in Busy \ {"looking"}
           \/ on[d] = KeyOf(d) /\ on'[d] = "geocode" /\ at'[d] = "entering"
    BY <1>5, Works DEF Look
  <2>2. CASE k \in missed[d]
    BY <1>1, <1>2, <2>1, <2>2
  <2>3. CASE k \notin missed[d]
    <3>1. k = on[d] /\ cached[k] = "none"
      BY <1>5, <2>3 DEF Look, TypeOK
    <3> QED BY <1>1, <2>1, <3>1 DEF Busy
  <2> QED BY <2>2, <2>3
<1>6. CASE Ask(d) \/ AskNear(d)
  <2>1. /\ UNCHANGED <<cached, missed>> /\ at[d] \in {"asking", "asking_near"}
        /\ \/ on'[d] = on[d] /\ at'[d] \in Busy \ {"looking"}
           \/ on[d] = KeyOf(d) /\ on'[d] = "geocode" /\ at'[d] = "entering"
    BY <1>6, Works DEF Ask, AskNear
  <2> QED BY <1>1, <1>2, <2>1 DEF Busy
<1>7. CASE Store(d)
  <2>1. /\ UNCHANGED <<on, missed>> /\ at[d] = "storing" /\ at'[d] = "releasing"
        /\ cached' \in {[cached EXCEPT ![on[d]] = found[d]], cached} /\ k \in Keys
    BY <1>7 DEF Store, GoesTo, TypeOK
  <2>2. CASE k = on[d]
    BY <2>1, <2>2
  <2>3. CASE k # on[d]
    <3>1. cached'[k] = cached[k]
      BY <2>1, <2>3 DEF TypeOK
    <3> QED BY <1>1, <1>2, <2>1, <2>3, <3>1
  <2> QED BY <2>2, <2>3
<1>8. CASE Release(d)
  <2>1. UNCHANGED <<on, missed, cached>> /\ at[d] = "releasing" /\ at'[d] = "leaving"
    BY <1>8 DEF Release, GoesTo, TypeOK
  <2> QED BY <1>1, <1>2, <2>1
<1>9. CASE Leave(d)
  <2>1. /\ at[d] = "leaving" /\ on'[d] = KeyOf(d) /\ cached' = cached
        /\ on[d] = "geocode" => at'[d] \in {"asking_near", "releasing"}
    BY <1>9 DEF Leave, GoesTo, TypeOK
  <2>2. k \in missed[d] /\ k # on[d]
    BY <1>9 DEF Leave, TypeOK
  <2> QED BY <1>1, <1>2, <2>1, <2>2
<1>10. ASSUME NEW j \in Keys, Expire(j) PROVE Goal
  <2>1. UNCHANGED <<at, on, missed>> /\ cached' = [cached EXCEPT ![j] = "none"]
    BY <1>10 DEF Expire
  <2>2. cached'[k] = cached[k] \/ cached'[k] = "none"
    BY <2>1 DEF TypeOK
  <2> QED BY <1>1, <1>2, <2>1, <2>2
<1>11. CASE UNCHANGED vars
  BY <1>1, <1>2, <1>11 DEF vars
<1> QED BY <1>3, <1>4, <1>5, <1>6, <1>7, <1>8, <1>9, <1>10, <1>11 DEF Next, GoesOn

-----------------------------------------------------------------------------
(* The theorems                                                            *)

LEMMA Inductive == Spec => []IInv
<1>1. Init => IInv
  <2> SUFFICES ASSUME Init PROVE IInv
    OBVIOUS
  <2>1. TypeOK
    BY OwnKey DEF Init, TypeOK, Answers
  <2>2. \A k \in Keys, e \in Calls : users[k][e] = Cardinality(Having(k, e))
    <3> SUFFICES ASSUME NEW k \in Keys, NEW e \in Calls PROVE users[k][e] = Cardinality(Having(k, e))
      OBVIOUS
    <3>1. Having(k, e) = {}
      BY CallsAssumption DEF Init, Having
    <3>2. users[k][e] = 0
      BY DEF Init
    <3> QED BY <3>1, <3>2, FS_EmptySet
  <2>3. Known /\ OneEntry /\ Fresh
    BY DEF Init, Known, OneEntry, Fresh
  <2>4. Places
    BY OwnKey DEF Init, Places, Joined
  <2>5. Holding
    BY OwnKey DEF Init, Holding, Inside
  <2> QED BY <2>1, <2>2, <2>3, <2>4, <2>5 DEF IInv, Counted
<1>2. IInv /\ [Next]_vars => IInv'
  BY TypeKept, KnownKept, PlacesKept, CountedKept, OneEntryKept, HoldingKept, FreshKept DEF IInv
<1> QED BY <1>1, <1>2, PTL DEF Spec

\* The model's variables keep their types; of the count of an entry that it never falls below zero.
THEOREM TypeCorrect == Spec => []TypeOK
BY Inductive, PTL DEF IInv

\* single_flight lets one search into a key at a time, for any calls in any number of threads.
THEOREM OnlyOneSearch == Spec => []OneSearchPerKey
<1>1. IInv => OneSearchPerKey
  BY Alike DEF IInv
<1> QED BY <1>1, Inductive, PTL

\* No search asks a provider for what another one has stored since it looked.
THEOREM NeverTwice == Spec => []NeverAsksForWhatItHas
<1>1. IInv => NeverAsksForWhatItHas
  BY DEF IInv, Fresh, NeverAsksForWhatItHas
<1> QED BY <1>1, Inductive, PTL

\* _in_flight has an entry exactly for the keys somebody holds or waits for, and its count is right.
THEOREM EntriesRight == Spec => []EntriesAreCounted
<1>1. IInv => EntriesAreCounted
  <2> SUFFICES ASSUME IInv, NEW k \in Keys
               PROVE LET having == {c \in Calls : mine[c][k] # NoCall} IN
                       /\ inFlight[k] = NoCall <=> having = {}
                       /\ \A c \in having : mine[c][k] = inFlight[k]
                       /\ inFlight[k] # NoCall => users[k][inFlight[k]] = Cardinality(having)
    BY DEF EntriesAreCounted
  <2> DEFINE having == {c \in Calls : mine[c][k] # NoCall}
  <2>1. \A c \in having : mine[c][k] = inFlight[k]
    BY DEF IInv, OneEntry
  <2>2. inFlight[k] # NoCall => having = Having(k, inFlight[k]) /\ having # {}
    BY <2>1 DEF IInv, OneEntry, Having
  <2>3. inFlight[k] # NoCall => users[k][inFlight[k]] = Cardinality(having)
    BY <2>2 DEF IInv, TypeOK, Counted
  <2> QED BY <2>1, <2>2, <2>3
<1> QED BY <1>1, Inductive, PTL

=============================================================================
