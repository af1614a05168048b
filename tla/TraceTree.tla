----------------------------- MODULE TraceTree -----------------------------
(***************************************************************************)
(* A run's trace: spans opened and closed inside one another as the run    *)
(* goes (src/ai/tracing.py), uploaded by a thread of the library's as flat *)
(* records, a run when it starts and again when it ends, in batches that   *)
(* are late, lost, or sent again; and put back together as the tree it was *)
(* (src/ai/trace_tree.py).                                                 *)
(***************************************************************************)
EXTENDS Integers, Sequences, FiniteSets, SequencesExt, FiniteSetsExt

CONSTANTS
  Spans,        \* what a run is made of, and calls that are of no run
  Inside,       \* each one's parent; NoParent of a root, and of a call made outside every run
  NoParent,
  NeedParent,   \* recorded only inside a trace
  ModelCalls,   \* spans that ask a model, for one token each
  CanFail,      \* spans that may fail
  MinBatch, MaxBatches,   \* bounds: a batch's records while a run is on, batches on their way at once
  Unknown

VARIABLES
  tracing_on,   \* there is a client
  span,         \* each one: "not yet", "open", "ended" or "failed"
  begun_spans,      \* the recorded ones, in the order they started
  unsent,        \* records the library's thread has not taken
  batches,      \* on their way: the records of each
  merged,         \* Runs._runs: what the records of each span say
  taken,        \* (for the properties) every record that came
  mishap        \* (for the properties) records were "lost", or came twice ("again"): one of them

trace_vars == <<tracing_on, span, begun_spans, unsent, batches, merged, taken, mishap>>
Children(s) == {c \in Spans : Inside[c] = s}
Running == {s \in Spans : span[s] = "open"}

TraceInit ==
  /\ tracing_on \in BOOLEAN /\ span = [s \in Spans |-> "not yet"] /\ begun_spans = <<>>
  /\ unsent = <<>> /\ batches = {} /\ merged = <<>> /\ taken = {} /\ mishap = "no"

----------------------------------------------------------------------------
(* tracing.py                                                              *)

\* Where it began among the recorded ones, its ancestors' places before its own: dotted_order.
PlaceOf(s, all) == CHOOSE n \in DOMAIN all : all[n] = s
Path[s \in Spans] == IF Inside[s] = NoParent THEN <<s>> ELSE Append(Path[Inside[s]], s)
DottedOrder(s, all) == [n \in DOMAIN Path[s] |-> PlaceOf(Path[s][n], all)]

Posted(s, all) ==
  [id |-> s, parent |-> Inside[s], order |-> DottedOrder(s, all), trip |-> Path[s][1], ended |-> Unknown, tokens |-> Unknown]
Patched(s, how) ==
  [id |-> s, parent |-> Inside[s], order |-> DottedOrder(s, begun_spans), trip |-> Unknown, ended |-> how,
   tokens |-> IF s \in ModelCalls /\ how = "ended" THEN 1 ELSE 0]

\* root, span, step: recorded where tracing is on and, for one that needs a trace, inside one.  (Bound: one root at a time.)
Recorded(s) == tracing_on /\ (s \in NeedParent => Inside[s] # NoParent)
Opens(s) ==
  /\ span[s] = "not yet" /\ (IF Inside[s] = NoParent THEN Running = {} ELSE span[Inside[s]] = "open")
  /\ span' = [span EXCEPT ![s] = "open"]
  /\ IF Recorded(s) THEN begun_spans' = Append(begun_spans, s) /\ unsent' = Append(unsent, Posted(s, begun_spans'))
     ELSE UNCHANGED <<begun_spans, unsent>>
  /\ UNCHANGED <<tracing_on, batches, merged, taken, mishap>>
Closes(s) ==
  /\ span[s] = "open" /\ Children(s) \cap Running = {}
  /\ \E how \in {"ended"} \cup (IF s \in CanFail THEN {"failed"} ELSE {}) :
       /\ span' = [span EXCEPT ![s] = how]
       /\ unsent' = IF Recorded(s) THEN Append(unsent, Patched(s, how)) ELSE unsent
  /\ UNCHANGED <<tracing_on, begun_spans, batches, merged, taken, mishap>>

----------------------------------------------------------------------------
(* The library's thread, and the way to the server.                        *)

Uploads ==
  /\ Len(unsent) >= (IF Running = {} THEN 1 ELSE MinBatch) /\ Cardinality(batches) < MaxBatches
  /\ batches' = batches \cup {unsent} /\ unsent' = <<>>
  /\ UNCHANGED <<tracing_on, span, begun_spans, merged, taken, mishap>>
\* shutdown waits FLUSH_SECONDS for what is queued, and no longer.
NotSent ==
  /\ unsent # <<>> /\ mishap = "no" /\ Running = {} /\ unsent' = <<>> /\ mishap' = "lost"
  /\ UNCHANGED <<tracing_on, span, begun_spans, batches, merged, taken>>
BatchLost ==
  /\ mishap = "no" /\ \E batch \in batches : batches' = batches \ {batch}
  /\ mishap' = "lost" /\ UNCHANGED <<tracing_on, span, begun_spans, unsent, merged, taken>>

----------------------------------------------------------------------------
(* trace_tree.py                                                           *)

\* One record: what it says is added to what is kept, and nothing is taken away.
Merged(record, into) ==
  IF record.id \in DOMAIN into
  THEN [into EXCEPT ![record.id] =
          [field \in DOMAIN @ |-> IF record[field] # Unknown THEN record[field] ELSE @[field]]]
  ELSE [s \in DOMAIN into \cup {record.id} |-> IF s = record.id THEN record ELSE into[s]]
\* A batch: the runs started before the runs ended.
Sorted(records) ==
  LET Started(record) == record.ended = Unknown
      Over(record) == record.ended # Unknown
  IN SelectSeq(records, Started) \o SelectSeq(records, Over)
take ==
  \E batch \in batches :
    /\ merged' = FoldLeft(LAMBDA into, record : Merged(record, into), merged, Sorted(batch))
    /\ taken' = taken \cup ToSet(batch)
    /\ \/ batches' = batches \ {batch} /\ UNCHANGED mishap
       \/ mishap = "no" /\ mishap' = "again" /\ UNCHANGED batches       \* its answer is lost: it is sent again
    /\ UNCHANGED <<tracing_on, span, begun_spans, unsent>>

Known == DOMAIN merged
Before(a, b) ==
  LET x == merged[a].order y == merged[b].order
      Apart == {n \in 1..Min({Len(x), Len(y)}) : x[n] # y[n]}
  IN IF Apart = {} THEN Len(x) < Len(y) ELSE x[Min(Apart)] < y[Min(Apart)]
InOrder(spans) == SetToSortSeq(spans, Before)
\* traces: every span under its parent where that is known, and a root where it is not.
ChildrenIn(s) == {c \in Known : merged[c].parent = s}
Roots == {s \in Known : merged[s].parent \notin Known}
TracesOf(trip) == {s \in Roots : merged[s].trip = trip}
walk[s \in Spans] == <<s>> \o FlattenSeq([n \in DOMAIN InOrder(ChildrenIn(s)) |-> walk[InOrder(ChildrenIn(s))[n]]])
tokens[s \in Spans] ==
  (IF merged[s].tokens = Unknown THEN 0 ELSE merged[s].tokens) + MapThenSumSet(LAMBDA c : tokens[c], ChildrenIn(s))

TraceNext ==
  \/ \E s \in Spans : Opens(s) \/ Closes(s)
  \/ Uploads \/ NotSent \/ BatchLost \/ take

----------------------------------------------------------------------------
TraceTypeOK ==
  /\ span \in [Spans -> {"not yet", "open", "ended", "failed"}] /\ ToSet(begun_spans) \subseteq Spans
  /\ Known \subseteq Spans /\ \A s \in Known : merged[s].ended \in {Unknown, "ended", "failed"}

\* However its records come, a trace is never told otherwise than it was: every span that is known is in one
\* tree and once, below the parent it was made in if that is known too, parents first, and what began earlier
\* earlier; what was once said of it is still said; and the tokens of the trees are those that were told.
TreeAsMade ==
  LET InTrees == FlattenSeq([n \in DOMAIN InOrder(Roots) |-> walk[InOrder(Roots)[n]]])
      Began(s) == PlaceOf(s, begun_spans)
  IN /\ ToSet(InTrees) = Known /\ Len(InTrees) = Cardinality(Known)
     /\ \A s \in Known : merged[s].parent = Inside[s]
     /\ \A i, j \in DOMAIN InTrees : i < j /\ Inside[InTrees[i]] = Inside[InTrees[j]] => Began(InTrees[i]) < Began(InTrees[j])
     /\ \A record \in taken : \A field \in DOMAIN record : record[field] # Unknown => merged[record.id][field] = record[field]
     /\ MapThenSumSet(LAMBDA s : tokens[s], Roots) = MapThenSumSet(LAMBDA record : record.tokens, {r \in taken : r.tokens # Unknown})

\* Nothing is told of a call outside every run, or with tracing off; and with nothing lost, the records of a run
\* that has ended are one trace, of its trip, with an end to every span.
WholeTraceTold ==
  /\ Known # {} => tracing_on
  /\ \A s \in Known : Path[s][1] \notin NeedParent
  /\ \A trip \in {s \in Spans : Recorded(s) /\ Inside[s] = NoParent} :
       LET made == {s \in ToSet(begun_spans) : Path[s][1] = trip}
       IN mishap # "lost" /\ unsent = <<>> /\ batches = {} /\ span[trip] \in {"ended", "failed"} =>
            TracesOf(trip) = {trip} /\ ToSet(walk[trip]) = made /\ \A s \in made : merged[s].ended = span[s]

TraceHolds == TreeAsMade /\ WholeTraceTold
=============================================================================
