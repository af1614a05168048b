------------------------------ MODULE TripForm ------------------------------
(***************************************************************************)
(* A trip is created: the form on the trips page (app/trips/page.tsx),     *)
(* what the browser and the page let through, and what POST /trips makes   *)
(* of it (schemas/trip.py, create_trip).  The two hold a trip to the same  *)
(* limits, each in its own way and on its own day.                         *)
(*                                                                         *)
(* A row of the form is [name, interests], a text that is blank is "".     *)
(***************************************************************************)
EXTENDS Integers, Sequences, FiniteSets, SequencesExt

CONSTANTS
  Basics,             \* what is typed of a trip: [destination, start, finish, budget]
  Rows, Ideas,        \* the rows that may be typed, and the interests
  Lower, CaseFold,    \* names compared by the page, and by the server
  Offsets,            \* how many days the server's day is from the browser's
  MAX_TRIP_NIGHTS, MAX_MEMBERS, MAX_TRIP_INTERESTS, MAX_INTERESTS,
  MaxPosts            \* (bound) times the form is sent

MIN_MEMBERS == 2
MIN_BUDGET == 1000
TODAY == 1

VARIABLES
  fields,        \* the form: [basics, size, interests, members]
  server_day,
  creating, form_error,
  posted,        \* the request on its way: a one-element sequence, or none
  made,          \* trips created
  newest, refused,        \* the trip that was made, or the request that was refused, of the form as it stands
  lost, posts    \* (for the properties) answers lost; requests sent

form_vars == <<fields, server_day, creating, form_error, posted, made, newest, refused, lost, posts>>

FormInit ==
  /\ \E basics \in Basics : fields = [basics |-> basics, size |-> 2, interests |-> {}, members |-> <<>>]
  /\ \E offset \in Offsets : server_day = TODAY + offset
  /\ creating = FALSE /\ form_error = "none" /\ posted = <<>> /\ made = 0 /\ newest = <<>> /\ refused = <<>> /\ lost = 0 /\ posts = 0

----------------------------------------------------------------------------
(* Filling it in.                                                          *)

Larger(a, b) == IF a > b THEN a ELSE b
Blank == [name |-> "", interests |-> {}]
Edit(form) ==
  /\ ~creating /\ fields' = form /\ newest' = <<>> /\ refused' = <<>>
  /\ UNCHANGED <<server_day, creating, form_error, posted, made, lost, posts>>

ChangeSize == \E n \in {fields.size - 1, fields.size + 1} \cap (1..MAX_MEMBERS) : Edit([fields EXCEPT !.size = n])
ToggleInterest ==
  /\ fields.members = <<>>
  /\ \E idea \in Ideas :
       Edit([fields EXCEPT !.interests = IF idea \in @ THEN @ \ {idea} ELSE @ \cup {idea}])
StartGroup ==
  /\ fields.members = <<>> /\ fields.size >= MIN_MEMBERS
  /\ Edit([fields EXCEPT !.members = [i \in 1..Larger(MIN_MEMBERS, fields.size) |-> Blank]])
ChangeMember ==
  \E i \in DOMAIN fields.members, row \in Rows : Edit([fields EXCEPT !.members[i] = row])
AddMember ==
  /\ fields.members # <<>> /\ Len(fields.members) < MAX_MEMBERS
  /\ Edit([fields EXCEPT !.members = Append(@, Blank), !.size = Larger(@, Len(fields.members) + 1)])
RemoveMember ==
  /\ Len(fields.members) > MIN_MEMBERS
  /\ \E i \in DOMAIN fields.members : Edit([fields EXCEPT !.members = RemoveAt(@, i)])
SharedAgain == fields.members # <<>> /\ Edit([fields EXCEPT !.members = <<>>])

----------------------------------------------------------------------------
(* Sending it.                                                             *)

\* The limits of the fields themselves: the browser sends no form that breaks one.
BrowserLets(basics) ==
  /\ basics.start >= TODAY /\ basics.budget >= MIN_BUDGET
  /\ basics.finish \in (basics.start + 1)..(basics.start + MAX_TRIP_NIGHTS)

Filled(rows) == SelectSeq(rows, LAMBDA row : row # Blank)
NamesTwice(rows, same) == \E i, j \in DOMAIN rows : i # j /\ same[rows[i].name] = same[rows[j].name]
\* readMembers: why the rows cannot be read as a group, or "none".
ReadMembers(rows) ==
  IF \E i \in DOMAIN Filled(rows) : Filled(rows)[i].name = "" THEN "unnamed"
  ELSE IF Len(Filled(rows)) < MIN_MEMBERS THEN "too few"
  ELSE IF NamesTwice(Filled(rows), Lower) THEN "same name" ELSE "none"

\* What is sent: a group's interests are its travellers' own.
Body ==
  LET group == Filled(fields.members)
  IN [basics |-> fields.basics, members |-> group,
      size |-> Larger(fields.size, Len(group)),
      interests |-> IF fields.members = <<>> THEN fields.interests ELSE {}]

\* handleCreate
Submit ==
  /\ ~creating /\ posts < MaxPosts /\ BrowserLets(fields.basics)
  /\ LET why == IF fields.members = <<>> THEN "none" ELSE ReadMembers(fields.members)
     IN /\ form_error' = why /\ creating' = (why = "none")
        /\ posted' = IF why = "none" THEN <<Body>> ELSE posted
        /\ posts' = IF why = "none" THEN posts + 1 ELSE posts
  /\ UNCHANGED <<fields, server_day, made, newest, refused, lost>>

\* TripCreate's validators.
EveryonesInterests(body) == body.interests \cup UNION {body.members[i].interests : i \in DOMAIN body.members}
Faults(body) ==
  LET basics == body.basics
  IN {fault \in {"destination", "past", "dates", "long", "budget", "size", "group", "interests", "member interests", "names"} :
        CASE fault = "destination" -> basics.destination = ""
          [] fault = "past" -> basics.start < server_day
          [] fault = "dates" -> basics.finish <= basics.start
          [] fault = "long" -> basics.finish - basics.start > MAX_TRIP_NIGHTS
          [] fault = "budget" -> basics.budget <= 0
          [] fault = "size" -> body.size \notin 1..MAX_MEMBERS \/ body.size < Len(body.members)
          [] fault = "group" -> body.members # <<>> /\ Len(body.members) \notin MIN_MEMBERS..MAX_MEMBERS
          [] fault = "interests" -> Cardinality(body.interests) > MAX_TRIP_INTERESTS
          [] fault = "member interests" -> \E i \in DOMAIN body.members : Cardinality(body.members[i].interests) > MAX_INTERESTS
          [] OTHER -> NamesTwice(body.members, CaseFold)}

\* create_trip: the trip, with what its travellers enjoy put together; or 422.  The answer may be lost.
ServerAnswers ==
  /\ posted # <<>> /\ posted' = <<>>
  /\ \E arrives \in BOOLEAN :
       /\ lost' = IF arrives THEN lost ELSE lost + 1
       /\ IF Faults(posted[1]) = {}
          THEN /\ made' = made + 1 /\ refused' = <<>>
               /\ newest' = <<[posted[1] EXCEPT !.interests = EveryonesInterests(posted[1])]>>
               /\ form_error' = IF arrives THEN "none" ELSE "lost"
               /\ creating' = arrives        \* the page is left for the trip's own
          ELSE /\ refused' = posted /\ UNCHANGED <<made, newest>>
               /\ form_error' = IF arrives THEN "refused" ELSE "lost"
               /\ creating' = FALSE
  /\ UNCHANGED <<fields, server_day, posts>>

FormNext ==
  \/ ChangeSize \/ ToggleInterest \/ StartGroup \/ ChangeMember \/ AddMember \/ RemoveMember \/ SharedAgain
  \/ Submit \/ ServerAnswers

----------------------------------------------------------------------------
\* What the form lets through the server takes: it refuses only a day that is over where it is, a
\* blank place, more interests than it takes, and names that differ for the page alone.  A trip is as
\* it was filled in: every row but the empty ones, at least as many travellers as are named, and what
\* they all enjoy; and it is made once, unless the answer that it was made was lost.
FormAndServerAgree ==
  /\ \A body \in ToSet(refused) :
       /\ Faults(body) \subseteq {"destination", "past", "interests", "member interests", "names"}
       /\ "past" \in Faults(body) => server_day > TODAY
       /\ "names" \in Faults(body) =>
            \E i, j \in DOMAIN body.members : /\ CaseFold[body.members[i].name] = CaseFold[body.members[j].name]
                                              /\ Lower[body.members[i].name] # Lower[body.members[j].name]
  /\ made <= 1 + lost
  /\ \A trip \in ToSet(newest) :
       /\ trip.size >= Len(trip.members) /\ Len(trip.members) # 1
       /\ \A i \in DOMAIN trip.members : trip.members[i].name # "" /\ trip.members[i].interests \subseteq trip.interests
  /\ creating /\ posted = <<>> /\ fields.members # <<>> => newest[1].members = Filled(fields.members)
  /\ form_error \in {"refused", "lost"} => ~creating /\ posted = <<>>
=============================================================================
