----------------------------- MODULE ToolServer -----------------------------
(***************************************************************************)
(* The searches inside the tool server (src/ai/mcp_server): each call runs *)
(* in a worker thread (server.threaded), holds its cache key while it      *)
(* looks the answer up or asks the provider for it (cache.single_flight),  *)
(* and keeps what it found in Redis (get_cached_sync, set_cached_sync).    *)
(*                                                                         *)
(* All calls are about one stay, which is when they meet: its caches being *)
(* warmed, its planning, and another traveller's.  There are searches of   *)
(* three kinds, each with one key, and the place they share has the key    *)
(* "geocode": the attractions search needs it before it can ask, and the   *)
(* hotel search when the provider knows no city of that name.  How one     *)
(* request reaches a provider is module Outbound; here it ends, in         *)
(* whatever way, as Outbound's EverySendEnds says.                         *)
(***************************************************************************)
EXTENDS Integers, FiniteSets

CONSTANTS
  Flights, Hotels, Attractions,   \* the calls, by what they search for
  Threads,                        \* how many worker threads there are
  NoCall

Calls == Flights \cup Hotels \cup Attractions
Keys == {"flights", "hotels", "attractions", "geocode"}

ASSUME CallsAssumption ==
  /\ IsFiniteSet(Calls) /\ NoCall \notin Calls
  /\ Flights \cap Hotels = {} /\ Flights \cap Attractions = {} /\ Hotels \cap Attractions = {}
ASSUME ThreadsAssumption == Threads \in Nat \ {0}

VARIABLES
  at,         \* what each call's thread does next
  on,         \* the key it does it for
  inFlight,   \* _in_flight: the key's entry, named after the call that made it
  users,      \* entry[1]: how many hold or wait for it
  holder,     \* entry[0]: who holds its lock
  mine,       \* the entries each call has in hand, by key
  cached,     \* what Redis has under each key
  found,      \* what the call has learnt under the key it works for, until it leaves that
  missed      \* history: the keys in its hands it was told there is nothing under

vars == <<at, on, inFlight, users, holder, mine, cached, found, missed>>
flight == <<inFlight, users, holder, mine>>

\* "nothing" is an answer only for a place: there is no such place, or it is in another country.
Answers == {"something", "nothing"}

TypeOK ==
  /\ at \in [Calls -> {"queued", "entering", "waiting", "looking", "asking", "asking_near",
                       "storing", "releasing", "leaving", "answered"}]
  /\ on \in [Calls -> Keys]
  /\ inFlight \in [Keys -> Calls \cup {NoCall}]
  /\ users \in [Keys -> [Calls -> Nat]]
  /\ holder \in [Keys -> [Calls -> Calls \cup {NoCall}]]
  /\ mine \in [Calls -> [Keys -> Calls \cup {NoCall}]]
  /\ cached \in [Keys -> Answers \cup {"none"}]
  /\ found \in [Calls -> Answers \cup {"none", "error"}]
  /\ missed \in [Calls -> SUBSET Keys]

KeyOf(c) == CASE c \in Flights -> "flights"
              [] c \in Hotels -> "hotels"
              [] c \in Attractions -> "attractions"

Init ==
  /\ at = [c \in Calls |-> "queued"]
  /\ on = [c \in Calls |-> KeyOf(c)]
  /\ inFlight = [k \in Keys |-> NoCall]
  /\ users = [k \in Keys |-> [e \in Calls |-> 0]]
  /\ holder = [k \in Keys |-> [e \in Calls |-> NoCall]]
  /\ mine = [c \in Calls |-> [k \in Keys |-> NoCall]]
  /\ cached = [k \in Keys |-> "none"]
  /\ found = [c \in Calls |-> "none"]
  /\ missed = [c \in Calls |-> {}]

GoesTo(c, step) == at' = [at EXCEPT ![c] = step]

(* ---------------------------------------------------------------------- *)
(* A worker thread, and single_flight around what it does                 *)
(* ---------------------------------------------------------------------- *)

Working == {c \in Calls : at[c] \notin {"queued", "answered"}}

\* Mutant: a lock of one's own.
OneOfItsOwn(c) == c

\* The entry single_flight joins: the one there is, else a new one.
EntryFor(c) == IF inFlight[on[c]] = NoCall THEN c ELSE inFlight[on[c]]

\* Mutant: the entry is counted when it is made and not when it is joined.
TheFirst(n) == 1

\* entry[1] += 1
OneMore(n) == n + 1

Joins(c) ==
  /\ LET k == on[c]  e == EntryFor(c) IN
       /\ inFlight' = [inFlight EXCEPT ![k] = e]
       /\ users' = [users EXCEPT ![k][e] = OneMore(@)]
       /\ mine' = [mine EXCEPT ![c][k] = e]
  /\ GoesTo(c, "waiting")
  /\ UNCHANGED <<on, holder, cached, found, missed>>

\* A call waits for a worker thread, and keeps it until it is answered, through every lock and wait.
Call(c) ==
  /\ at[c] = "queued"
  /\ Cardinality(Working) < Threads
  /\ Joins(c)

Enter(c) ==
  /\ at[c] = "entering"
  /\ Joins(c)

Acquire(c) ==
  /\ at[c] = "waiting"
  /\ LET k == on[c]  e == mine[c][k] IN
       /\ holder[k][e] = NoCall
       /\ holder' = [holder EXCEPT ![k][e] = c]
  /\ GoesTo(c, "looking")
  /\ UNCHANGED <<on, inFlight, users, mine, cached, found, missed>>

\* Mutant: the lock is freed after a search that came to its end, not after one that raised.
FreedBySuccess(c) == IF found[c] = "error" THEN c ELSE NoCall

\* `with entry[0]` frees the lock however the search ended.
Freed(c) == NoCall

Release(c) ==
  /\ at[c] = "releasing"
  /\ holder' = [holder EXCEPT ![on[c]][mine[c][on[c]]] = Freed(c)]
  /\ GoesTo(c, "leaving")
  /\ UNCHANGED <<on, inFlight, users, mine, cached, found, missed>>

\* Mutant: whoever leaves takes the entry away.
TakenAway(left) == TRUE

\* if not entry[1]: del _in_flight[key]
NobodyLeft(left) == left = 0

\* Mutant: an entry is not given up when the search failed (no `finally`).
OnSuccess(c) == found[c] # "error"

\* The `finally` counts the call out however its search ended.
CountedOut(c) == TRUE

\* Then the call is done, or goes on with the search it needed the place for.
Leave(c) ==
  /\ at[c] = "leaving"
  /\ LET k == on[c]  e == mine[c][k]  left == users[k][e] - 1 IN
       /\ IF CountedOut(c)
          THEN /\ users' = [users EXCEPT ![k][e] = left]
               /\ inFlight' = [inFlight EXCEPT ![k] = IF NobodyLeft(left) THEN NoCall ELSE @]
          ELSE UNCHANGED <<users, inFlight>>
       /\ mine' = [mine EXCEPT ![c][k] = NoCall]
  /\ missed' = [missed EXCEPT ![c] = @ \ {on[c]}]
  /\ on' = [on EXCEPT ![c] = KeyOf(c)]
  /\ \/ /\ on[c] # "geocode"
        /\ GoesTo(c, "answered")
        /\ found' = [found EXCEPT ![c] = "none"]
     \/ /\ on[c] = "geocode" /\ found[c] = "something"
        /\ GoesTo(c, "asking_near")
        /\ found' = [found EXCEPT ![c] = "none"]
     \/ /\ on[c] = "geocode" /\ found[c] # "something"
        /\ GoesTo(c, "releasing")
        /\ UNCHANGED found
  /\ UNCHANGED <<holder, cached>>

(* ---------------------------------------------------------------------- *)
(* What a search does while it holds its key                              *)
(* ---------------------------------------------------------------------- *)

\* _geocode is entered with the search's own key still held.
NeedsThePlace(c) ==
  /\ on' = [on EXCEPT ![c] = "geocode"]
  /\ GoesTo(c, "entering")

EndsWith(c, what) ==
  /\ found' = [found EXCEPT ![c] = what]
  /\ GoesTo(c, "releasing")
  /\ UNCHANGED on

\* What a search does that found nothing in the cache.  An attractions search whose interests are all
\* ones the provider has no places for ends here.
AsksForIt(c) ==
  \/ /\ on[c] # "attractions" /\ GoesTo(c, "asking") /\ UNCHANGED <<on, found>>
  \/ /\ on[c] = "attractions" /\ NeedsThePlace(c) /\ UNCHANGED found
  \/ /\ on[c] = "attractions" /\ EndsWith(c, "nothing")

\* get_cached_sync.  Redis may be out of reach at any command: what cannot be read is not there, and
\* that is no miss.
Look(c) ==
  /\ at[c] = "looking"
  /\ LET k == on[c] IN
       \/ /\ cached[k] # "none"
          /\ EndsWith(c, cached[k])
          /\ UNCHANGED missed
       \/ /\ cached[k] = "none"
          /\ missed' = [missed EXCEPT ![c] = @ \cup {k}]
          /\ AsksForIt(c)
       \/ /\ AsksForIt(c)
          /\ UNCHANGED missed
  /\ UNCHANGED <<flight, cached>>

\* Kept for the next one: what there is; of a place also that there is none.
WorthKeeping(c, answer) == answer = "something" \/ (on[c] = "geocode" /\ answer = "nothing")

\* The provider's answer, after however many attempts.
Hears(c, answer) ==
  \/ /\ WorthKeeping(c, answer)
     /\ found' = [found EXCEPT ![c] = answer]
     /\ GoesTo(c, "storing")
     /\ UNCHANGED on
  \/ /\ ~WorthKeeping(c, answer)
     /\ EndsWith(c, answer)

\* A stay in what is no city to the provider is looked for around the place's own coordinates.
Ask(c) ==
  /\ at[c] = "asking"
  /\ \E answer \in Answers \cup {"error"} :
       IF on[c] = "hotels" /\ answer = "nothing" THEN NeedsThePlace(c) /\ UNCHANGED found
       ELSE Hears(c, answer)
  /\ UNCHANGED <<flight, cached, missed>>

AskNear(c) ==
  /\ at[c] = "asking_near"
  /\ \E answer \in Answers \cup {"error"} : Hears(c, answer)
  /\ UNCHANGED <<flight, cached, missed>>

\* set_cached_sync: what cannot be written is not.
Store(c) ==
  /\ at[c] = "storing"
  /\ cached' \in {[cached EXCEPT ![on[c]] = found[c]], cached}
  /\ GoesTo(c, "releasing")
  /\ UNCHANGED <<on, flight, found, missed>>

\* A key's time in Redis ends, or Redis starts again with less than it had.
Expire(k) ==
  /\ cached[k] # "none"
  /\ cached' = [cached EXCEPT ![k] = "none"]
  /\ UNCHANGED <<at, on, flight, found, missed>>

GoesOn(c) ==
  Enter(c) \/ Acquire(c) \/ Look(c) \/ Ask(c) \/ AskNear(c) \/ Store(c) \/ Release(c) \/ Leave(c)

Next ==
  \/ \E c \in Calls : Call(c) \/ GoesOn(c)
  \/ \E k \in Keys : Expire(k)

\* Threads run, a lock that is free is taken by one of those that wait for it, and a request to a
\* provider ends.
Fairness == \A c \in Calls : WF_vars(Call(c)) /\ WF_vars(GoesOn(c))

Spec == Init /\ [][Next]_vars /\ Fairness

(* ---------------------------------------------------------------------- *)
(* Properties                                                             *)
(* ---------------------------------------------------------------------- *)

\* The calls between single_flight's `yield` of the key and its return, those looking its place up included.
Inside(k) ==
  {c \in Calls :
     \/ on[c] = k /\ at[c] \in {"looking", "asking", "asking_near", "storing", "releasing"}
     \/ on[c] = "geocode" /\ KeyOf(c) = k}

\* "One search per key at a time" (cache.py:171): whatever the order in which calls come, find the
\* entry, leave and take it away, no two are inside one key.
OneSearchPerKey ==
  \A k \in Keys : \A c, d \in Inside(k) : c = d

\* "The second caller finds what the first one stored" (cache.py:174): nobody asks a provider for what
\* has been put into the cache since it looked.
NeverAsksForWhatItHas ==
  \A c \in Calls : at[c] \in {"asking", "asking_near"} /\ on[c] \in missed[c] => cached[on[c]] = "none"

\* "An entry lives only while someone does" (cache.py:164), and all who want a key have the same one:
\* the count is of the calls that hold or wait for it, after failed searches too.
EntriesAreCounted ==
  \A k \in Keys :
    LET having == {c \in Calls : mine[c][k] # NoCall} IN
      /\ inFlight[k] = NoCall <=> having = {}
      /\ \A c \in having : mine[c][k] = inFlight[k]
      /\ inFlight[k] # NoCall => users[k][inFlight[k]] = Cardinality(having)

\* Every call is answered: however few the threads, the calls that keep one while they wait for a key
\* or for the place inside it never hold up the one they wait for.
EveryCallAnswered == <>(\A c \in Calls : at[c] = "answered")

=============================================================================
