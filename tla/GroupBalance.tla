--------------------------- MODULE GroupBalance ---------------------------
(***************************************************************************)
(* A group trip (src/ai/group.py): whose interests a place answers, the    *)
(* places a group's plan is made from, and the repair that gives every     *)
(* member a stop in every two days.  The repair's loop is RebalanceOne,    *)
(* one turn of one member in one window; Itinerary.tla runs it.            *)
(*                                                                         *)
(* `members` is the sequence of those who said what they enjoy (profiles), *)
(* each [name, interests]; an interest and its plural are one value here   *)
(* (_forms makes them meet).                                               *)
(***************************************************************************)
EXTENDS Plan

Names(members) == {m.name : m \in ToSet(members)}
is_group(members) == Len(members) >= 2

----------------------------------------------------------------------------
(* The places a plan is made from.                                         *)

suits(place, member) == place.interests \cap member.interests # {}
tag_for_group(place, members) ==
  [name |-> place.name, category |-> place.category, km |-> place.km,
   popularity |-> place.popularity,
   suits |-> {m.name : m \in {m \in ToSet(members) : suits(place, m)}}]

\* Every member's own search as one list: a place kept once, with everything it was found
\* under, ranked by the share of the group it is for, then by popularity, then as found.
merge_for_group(found, members) ==
  LET order == FlattenSeq([i \in DOMAIN members |-> found[i]])
      firsts == SelectSeq([i \in DOMAIN order |-> i],
                          LAMBDA i : \A j \in 1..(i - 1) : order[j].name # order[i].name)
      under(name) == UNION {p.interests : p \in {p \in ToSet(order) : p.name = name}}
      kept(i) == tag_for_group([order[i] EXCEPT !.interests = under(order[i].name)], members)
      share(i) == Cardinality(kept(i).suits)
      ahead(i, j) ==
        \/ share(i) > share(j)
        \/ share(i) = share(j) /\ order[i].popularity > order[j].popularity
        \/ share(i) = share(j) /\ order[i].popularity = order[j].popularity /\ i < j
      ranked == SortSeq(firsts, ahead)
  IN [k \in DOMAIN ranked |-> kept(ranked[k])]

\* The days of a trip in twos; an odd last day joins the two before it.
windows(n) ==
  LET count == IF n > 1 THEN n \div 2 ELSE n
  IN [w \in 1..count |-> IF w = count THEN (2 * w - 1)..n ELSE (2 * w - 1)..(2 * w)]

attraction_count(members, n, least, most) ==
  Max({least, Min({most, Len(members) * (Len(windows(n)) + 1)})})

\* Taken in turns, each time for the member who has the fewest so far: the best-ranked
\* place left that suits them.  picks[k] is the choice after k turns.
pick_for_group(pool, members, count) ==
  LET have(chosen, i) ==
        Cardinality({k \in DOMAIN chosen : members[i].name \in chosen[k].suits})
      left(chosen) == SelectSeq(pool, LAMBDA p : p \notin ToSet(chosen))
      waiting(chosen) ==
        {i \in DOMAIN members : \E p \in ToSet(left(chosen)) : members[i].name \in p.suits}
      served(chosen) ==
        CHOOSE i \in waiting(chosen) : \A j \in waiting(chosen) :
            Before(<<have(chosen, i), i>>, <<have(chosen, j), j>>)
      \* with nobody waiting, what is left is for nobody in particular: as ranked
      next(chosen) ==
        IF waiting(chosen) = {} THEN Head(left(chosen))
        ELSE SelectSeq(left(chosen), LAMBDA p : members[served(chosen)].name \in p.suits)[1]
      more(chosen) == Append(chosen, next(chosen))
      picks[k \in 0..Len(pool)] == IF k = 0 THEN <<>> ELSE more(picks[k - 1])
  IN picks[Min({count, Len(pool)})]

----------------------------------------------------------------------------
(* A plan with something for everyone.                                     *)

HasStop(days, window, name, attractions) ==
  \E at \in Stops(days, window) : name \in Suited(StopAt(days, at), attractions)

CountOf(days, window, name, attractions) ==
  Cardinality({at \in Stops(days, window) : name \in Suited(StopAt(days, at), attractions)})

\* An empty slot in the window: on its emptiest day, the earliest in the day.  None: <<>>.
free_slot(days, window) ==
  LET free(d) == {s \in DOMAIN SLOTS : ~IsReal(days[d][SLOTS[s]])}
      filled(d) == Len(SLOTS) - Cardinality(free(d))
      open == {d \in window : free(d) # {}}
      day == CHOOSE d \in open : \A e \in open : Before(<<filled(d), d>>, <<filled(e), e>>)
  IN IF open = {} THEN <<>> ELSE <<day, Min(free(day))>>

Rank(name, attractions) ==
  IF name \in Known(attractions)
  THEN CHOOSE i \in DOMAIN attractions : attractions[i].name = name
  ELSE Len(attractions) + 1

\* The stops a window can lose without leaving anyone with none; the easiest of some of them:
\* the one whose travellers have the most others, then the worst-ranked place.
\* Mutation: a stop counts as spare while it is somebody's only one.
SpareUntilGone(days, window, attractions) == Stops(days, window)
spare_stops(days, window, attractions) ==
  LET has == [n \in UNION {a.suits : a \in Places(attractions)} |->
                CountOf(days, window, n, attractions)]
  IN {at \in Stops(days, window) : \A n \in Suited(StopAt(days, at), attractions) : has[n] > 1}

easiest(spare, days, window, attractions) ==
  LET others(at) ==
        LET who == Suited(StopAt(days, at), attractions)
        IN IF who = {} THEN Cardinality(Stops(days, window)) + 1
           ELSE Min({CountOf(days, window, n, attractions) : n \in who})
      grade == [at \in spare |-> <<others(at), Rank(StopAt(days, at).activity, attractions)>>]
  IN CHOOSE a \in spare : \A b \in spare :
       \/ grade[a] # grade[b] /\ Before(grade[b], grade[a])
       \/ grade[a] = grade[b] /\ Before(a, b)

FirstSpare(days, window, attractions) ==
  LET spare == spare_stops(days, window, attractions)
  IN IF spare = {} THEN <<>> ELSE easiest(spare, days, window, attractions)

\* A stop of this member's in other days that those days can spare.
a_stop_to_bring(days, elsewhere, name, attractions) ==
  LET theirs(w) == {at \in spare_stops(days, elsewhere[w], attractions) :
                      name \in Suited(StopAt(days, at), attractions)}
      able == {w \in DOMAIN elsewhere : theirs(w) # {}}
  IN IF able = {} THEN <<>>
     ELSE easiest(theirs(Min(able)), days, elsewhere[Min(able)], attractions)

\* What one member's turn in one window would do: the stop put in, where, and the stop it is
\* brought from (<<>>: a place not in the plan yet).  NoMove when nothing can be done or need be.
NoMove == [place |-> NONE, where |-> <<>>, from |-> <<>>]
Move(days, w, name, attractions) ==
  LET window == windows(Len(days))[w]
      elsewhere == SelectSeq(windows(Len(days)), LAMBDA v : v # window)
      unused == SelectSeq(attractions, LAMBDA a : name \in a.suits /\ a.name \notin InPlan(days))
      brought == IF unused # <<>> THEN <<>>
                 ELSE a_stop_to_bring(days, elsewhere, name, attractions)
      free == free_slot(days, window)
      where == IF free # <<>> THEN free ELSE FirstSpare(days, window, attractions)
  IN IF \/ HasStop(days, window, name, attractions)
        \/ unused = <<>> /\ brought = <<>>
        \/ where = <<>>
     THEN NoMove
     ELSE [place |-> IF unused # <<>> THEN unused[1].name ELSE StopAt(days, brought).activity,
           where |-> where, from |-> brought]

\* Put a stop in; the one it replaces takes its cost out of the total.
PutIn(draft, at, stop) ==
  [draft EXCEPT !.days[at[1]][SLOTS[at[2]]] = stop,
                !.total_cost = @ - (IF IsReal(StopAt(draft.days, at))
                                    THEN StopAt(draft.days, at).cost ELSE 0)]

Apply(draft, move) ==
  IF move.from = <<>> THEN PutIn(draft, move.where, Stop(move.place))
  ELSE [PutIn(draft, move.where, StopAt(draft.days, move.from))
          EXCEPT !.days[move.from[1]][SLOTS[move.from[2]]] = Empty]

Turns(days, members) == (DOMAIN windows(Len(days))) \X (DOMAIN members)

\* rebalance on a copy changes something exactly when some turn has a move: until the first
\* one the copy is the plan itself.
fixable_gaps(days, attractions, members) ==
  {t \in Turns(days, members) : Move(days, t[1], members[t[2]].name, attractions) # NoMove}

\* Who has something in which days.
Served(days, attractions, members) ==
  {t \in Turns(days, members) :
     HasStop(days, windows(Len(days))[t[1]], members[t[2]].name, attractions)}
===========================================================================
