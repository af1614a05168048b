---------------------------- MODULE EventStream ----------------------------
(***************************************************************************)
(* How a run's events reach the page: _Publisher (trips.py), Redis pub/sub,*)
(* the streaming endpoint and the browser's EventSource (lib/sse.ts).      *)
(* Nothing keeps an event: what is published while Redis is away, while    *)
(* the publisher is quiet after a failed try, or while the page is not     *)
(* subscribed is gone.  Losses are bounded by MaxLost.                     *)
(*                                                                         *)
(* TripPage is what the page makes of a run's events; here is what it      *)
(* makes of the itinerary as it is written: the builder's reply travels in *)
(* pieces, numbered from 0 within one build (_TokenStream), and the page   *)
(* joins them to a text it shows.  A run may build more than once.         *)
(***************************************************************************)
EXTENDS Integers, Sequences

CONSTANTS
  MaxLost,                          \* (bound) publishes that fail and subscriptions that break
  MaxRuns, MaxBuilds, MaxPieces     \* (bounds) of the text
ASSUME StreamBounds == MaxLost \in Nat

VARIABLES
  quiet,       \* the run's publisher tries nothing but the events that end a run
  listening,   \* the page's stream is subscribed
  inbox,       \* what has reached the browser and is not handled yet
  lost,        \* losses so far
  builder,     \* what writes the text: [run, build, seq]
  draft,       \* the reply as the page reads it: [pieces, next, readable]
  started      \* (for the property) the builds whose first piece the page has read

stream_vars == <<quiet, listening, inbox, lost>>
draft_vars == <<stream_vars, builder, draft, started>>

ENDS == {"planning_complete", "planning_failed"}

StreamInit == quiet = FALSE /\ listening = FALSE /\ inbox = <<>> /\ lost = 0

Delivered(message) == inbox' = IF listening THEN Append(inbox, message) ELSE inbox

\* _Publisher: after a publish fails none is tried for a while, but for those that end a run.
AlwaysTried == ENDS
Publish(message) ==
  /\ IF quiet /\ message.event \notin AlwaysTried THEN UNCHANGED <<quiet, inbox, lost>>
     ELSE \/ Delivered(message) /\ UNCHANGED <<quiet, lost>>
          \/ lost < MaxLost /\ lost' = lost + 1 /\ quiet' = TRUE /\ UNCHANGED inbox
  /\ UNCHANGED listening

\* planning_started is the request's own, before the run has a publisher.
PublishStart(message) ==
  /\ quiet' = FALSE
  /\ \/ Delivered(message) /\ UNCHANGED lost
     \/ lost < MaxLost /\ lost' = lost + 1 /\ UNCHANGED inbox
  /\ UNCHANGED listening

QuietTimePasses ==
  /\ quiet /\ quiet' = FALSE
  /\ UNCHANGED <<listening, inbox, lost>>

\* The stream breaks (Redis, a proxy, the network) and is opened again, by either side's retry.
StreamBreaks ==
  /\ listening /\ lost < MaxLost
  /\ listening' = FALSE /\ lost' = lost + 1
  /\ UNCHANGED <<quiet, inbox>>
Subscribe ==
  /\ ~listening /\ listening' = TRUE
  /\ UNCHANGED <<quiet, inbox, lost>>

----------------------------------------------------------------------------
(* The itinerary as it is written.                                        *)

NoText == [pieces |-> <<>>, next |-> 0, readable |-> FALSE]

DraftInit ==
  /\ StreamInit
  /\ builder = [run |-> 0, build |-> 0, seq |-> 0] /\ draft = NoText /\ started = {}

StartRun ==
  /\ builder.run < MaxRuns
  /\ builder' = [run |-> builder.run + 1, build |-> 0, seq |-> 0]
  /\ PublishStart([event |-> "planning_started"])
  /\ UNCHANGED <<draft, started>>

\* _TokenStream: a piece has its number whether or not it arrives.
WritePiece ==
  /\ builder.run > 0 /\ builder.seq < MaxPieces
  /\ builder' = [builder EXCEPT !.seq = @ + 1]
  /\ Publish([event |-> "builder_token", build |-> <<builder.run, builder.build>>, seq |-> builder.seq])
  /\ UNCHANGED <<draft, started>>

\* The same run builds again: a reply that could not be read, a plan the evaluator sends back.
BuildAgain ==
  /\ builder.seq > 0 /\ builder.build + 1 < MaxBuilds
  /\ builder' = [builder EXCEPT !.build = @ + 1, !.seq = 0]
  /\ UNCHANGED <<stream_vars, draft, started>>

\* lib/sse.ts: a piece is joined to the text when it is the next one of a text that began at 0.
\* Mutation: a text with a hole goes on being read.
ReadPastHoles(text, message) == [text EXCEPT !.pieces = Append(@, message), !.next = message.seq + 1]
JoinNext(text, message) ==
  IF text.readable /\ message.seq = text.next
  THEN [text EXCEPT !.pieces = Append(@, message), !.next = @ + 1]
  ELSE [text EXCEPT !.readable = FALSE]

ReadEvent ==
  /\ inbox # <<>> /\ inbox' = Tail(inbox)
  /\ LET message == Head(inbox)
         first == message.event = "builder_token" /\ message.seq = 0
     IN /\ draft' = IF message.event = "planning_started" THEN NoText
                    ELSE JoinNext(IF first THEN [NoText EXCEPT !.readable = TRUE] ELSE draft, message)
        /\ started' = IF first THEN started \cup {message.build} ELSE started
  /\ UNCHANGED <<quiet, listening, lost, builder>>

\* resetEvents: the page forgets the text when it asks for a plan.
ResetEvents ==
  /\ draft # NoText /\ draft' = NoText
  /\ UNCHANGED <<stream_vars, builder, started>>

DraftStream ==
  /\ QuietTimePasses \/ StreamBreaks \/ Subscribe
  /\ UNCHANGED <<builder, draft, started>>

DraftNext == StartRun \/ WritePiece \/ BuildAgain \/ ReadEvent \/ ResetEvents \/ DraftStream

----------------------------------------------------------------------------
(* The text the page shows has no hole in it, whatever was lost.  It is of *)
(* one build but for pieces of builds whose own first piece was lost: the  *)
(* pieces of every build are numbered alike, and one that happens to be    *)
(* the next is joined to the text of another.                              *)
Shown == IF draft.readable THEN draft.pieces ELSE <<>>
DraftReadsTrue ==
  \A i \in DOMAIN Shown :
    /\ Shown[i].seq = i - 1
    /\ Shown[i].build = Shown[1].build \/ Shown[i].build \notin started

StreamTypeOK ==
  /\ quiet \in BOOLEAN /\ listening \in BOOLEAN /\ lost \in 0..MaxLost
  /\ \A i \in DOMAIN inbox : "event" \in DOMAIN inbox[i]
DraftTypeOK ==
  /\ StreamTypeOK
  /\ builder \in [run : 0..MaxRuns, build : 0..MaxBuilds, seq : 0..MaxPieces]
  /\ draft.next = Len(draft.pieces) /\ draft.readable \in BOOLEAN
  /\ started \subseteq (1..MaxRuns) \X (0..MaxBuilds)
=============================================================================
