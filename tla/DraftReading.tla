---------------------------- MODULE DraftReading ----------------------------
(***************************************************************************)
(* The itinerary while it is being written (frontend/src/lib/draft.ts):    *)
(* the builder's reply is JSON that arrives a few tokens at a time.        *)
(* readPartialJson reads as much as has arrived, readDraft makes of it the *)
(* days, with the places named so far.                                     *)
(*                                                                         *)
(* The text is a sequence of tokens: brackets, quotes, commas and colons,  *)
(* the letters of a string in a few pieces, a number's digits in pieces,   *)
(* space.  Only what is inside quotes is a piece of a string.              *)
(***************************************************************************)
EXTENDS Integers, Sequences, FiniteSets, SequencesExt, TLC

CONSTANT Replies     \* the replies: sequences of tokens, with the days they stand for: [text, days]

SLOTS == <<"morning", "afternoon", "evening">>
FREE_TIME == <<"Explore", "the", "area">>
SPACE == " "
QUOTE == "'"
Digits == {"1", "2", "3"}
LITERALS == {"null", "true", "false"}
\* An escape is the backslash and the letter after it, or u and four digits, here in two pieces.
ESCAPED == [n |-> "newline", quote |-> "quote"]
HEX == [e9 |-> "e-acute"]
HexHalves == {"e", "9"}

VARIABLES
  reply, arrived,      \* the reply, and how much of it is here
  shown, before        \* what the page makes of it, and (for the property) what it showed before

reading_vars == <<reply, arrived, shown, before>>

----------------------------------------------------------------------------
(* readPartialJson.  A value is [kind, value]; each reader goes from a     *)
(* place in the text and gives what it read, where it stopped, and the     *)
(* string it was cut in, if it was.                                        *)

MISSING == [kind |-> "missing", value |-> <<>>]
NotCut == <<>>
Read(value, at) == [value |-> value, at |-> at, complete |-> TRUE, cut |-> NotCut]
Stopped(value, cut) == [value |-> value, at |-> 0, complete |-> FALSE, cut |-> cut]
Of(kind, result) == [result EXCEPT !.value = [kind |-> kind, value |-> @]]
First(item, rest) == [rest EXCEPT !.value = <<item>> \o @]

skipSpace(text, from) ==
  LET others == {i \in from..Len(text) : text[i] # SPACE}
  IN IF others = {} THEN Len(text) + 1 ELSE CHOOSE i \in others : \A j \in others : i <= j

\* A cut string is kept as far as it goes; an escape that is cut is not part of it.
readString(text, from) ==
  LET scan[at \in from..(Len(text) + 1)] ==
        IF at > Len(text) THEN Stopped(<<>>, NotCut)
        ELSE IF text[at] = QUOTE THEN Read(<<>>, at + 1)
        ELSE IF text[at] # "\\" THEN First(text[at], scan[at + 1])
        ELSE IF at = Len(text) THEN Stopped(<<>>, NotCut)
        ELSE IF text[at + 1] # "u" THEN First(ESCAPED[text[at + 1]], scan[at + 2])
        ELSE IF at + 3 > Len(text) THEN Stopped(<<>>, NotCut)
        ELSE First(HEX[text[at + 2] \o text[at + 3]], scan[at + 4])
      its == scan[from]
  IN [Of("string", its) EXCEPT !.cut = IF its.complete THEN NotCut ELSE <<its.value>>]

\* `parse` reads a value, the rest of an array or the rest of an object, from a place on.
readItems(text, from, parse) ==
  LET at == skipSpace(text, from)
      item == parse[<<"value", at>>]
  IN IF at > Len(text) THEN Stopped(<<>>, NotCut)
     ELSE IF text[at] = "]" THEN Read(<<>>, at + 1)
     ELSE IF text[at] = "," THEN parse[<<"items", at + 1>>]
     ELSE IF ~item.complete THEN Stopped(IF item.value = MISSING THEN <<>> ELSE <<item.value>>, item.cut)
     ELSE First(item.value, parse[<<"items", item.at>>])

\* A key that is cut names nothing yet; a value that is missing has no field; of one key's values the last holds.
NoFields == [f \in {} |-> MISSING]
readFields(text, from, parse) ==
  LET at == skipSpace(text, from)
      key == readString(text, at + 1)
      colon == skipSpace(text, key.at)
      value == parse[<<"value", colon + 1>>]
      named == key.value.value[1] :> value.value
      rest == parse[<<"fields", value.at>>]
  IN IF at > Len(text) THEN Stopped(NoFields, NotCut)
     ELSE IF text[at] = "}" THEN Read(NoFields, at + 1)
     ELSE IF text[at] = "," THEN parse[<<"fields", at + 1>>]
     ELSE IF text[at] # QUOTE THEN Stopped(NoFields, NotCut)
     ELSE IF ~key.complete THEN Stopped(NoFields, key.cut)
     ELSE IF colon > Len(text) \/ text[colon] # ":" THEN Stopped(NoFields, NotCut)
     ELSE IF ~value.complete THEN Stopped(IF value.value = MISSING THEN NoFields ELSE named, value.cut)
     ELSE [rest EXCEPT !.value = @ @@ named]

\* A number that runs up to the end may have more digits coming.
DigitsFrom(text, at) ==
  LET beyond == {i \in at..Len(text) : text[i] \notin Digits}
  IN SubSeq(text, at, IF beyond = {} THEN Len(text) ELSE (CHOOSE i \in beyond : \A j \in beyond : i <= j) - 1)
readValue(text, from, parse) ==
  LET at == skipSpace(text, from)
      digits == DigitsFrom(text, at)
  IN IF at > Len(text) THEN Stopped(MISSING, NotCut)
     ELSE IF text[at] = QUOTE THEN readString(text, at + 1)
     ELSE IF text[at] = "{" THEN Of("object", parse[<<"fields", at + 1>>])
     ELSE IF text[at] = "[" THEN Of("array", parse[<<"items", at + 1>>])
     ELSE IF text[at] \in LITERALS THEN Read([kind |-> "literal", value |-> <<text[at]>>], at + 1)
     ELSE IF digits = <<>> \/ at + Len(digits) > Len(text) THEN Stopped(MISSING, NotCut)
     ELSE Read([kind |-> "number", value |-> digits], at + Len(digits))

readFrom(text, start) ==
  LET parse[what \in {"value", "items", "fields"} \X (1..(Len(text) + 1))] ==
        IF what[1] = "items" THEN readItems(text, what[2], parse)
        ELSE IF what[1] = "fields" THEN readFields(text, what[2], parse)
        ELSE readValue(text, what[2], parse)
  IN parse[<<"value", start>>]

\* From the first brace: a model may open with a fence or a word.
Nothing == Of("object", Stopped(NoFields, NotCut))
readPartialJson(text) ==
  LET braces == {i \in DOMAIN text : text[i] = "{"}
  IN IF braces = {} THEN Nothing ELSE readFrom(text, CHOOSE i \in braces : \A j \in braces : i <= j)

----------------------------------------------------------------------------
(* readDraft.                                                              *)

Has(record, field, kind) ==
  record.kind = "object" /\ field \in DOMAIN record.value /\ record.value[field].kind = kind
Line(label, its_text) == [label |-> label, text |-> its_text]
ALL_DAY == Line("All day", <<"Free", "time">>)

\* A stop whose name is still arriving and may yet be free time is left out.
linesOf(day, pending) ==
  LET named(slot) == /\ Has(day, slot, "object") /\ Has(day.value[slot], "activity", "string")
                     /\ <<day.value[slot].value["activity"].value>> # pending
      line(slot) == Line(slot, day.value[slot].value["activity"].value)
      slots == SelectSeq(SLOTS, named)
      stops == [i \in DOMAIN slots |-> line(slots[i])]
      real == SelectSeq(stops, LAMBDA stop : stop.text # FREE_TIME)
      stay == IF Has(day, "hotel", "object") /\ Has(day.value["hotel"], "name", "string")
              THEN <<Line("Stay", day.value["hotel"].value["name"].value)>> ELSE <<>>
  IN (IF real # <<>> THEN real ELSE IF stops # <<>> THEN <<ALL_DAY>> ELSE <<>>) \o stay

\* A date is shown once it is all here: a year, a month and a day.
DATE_PIECES == 3
NoDate == <<>>

Pending(cut) == IF cut # NotCut /\ cut[1] # FREE_TIME /\ IsPrefix(cut[1], FREE_TIME) THEN cut ELSE NotCut

Written(root) ==
  IF Has(root, "days", "array") THEN SelectSeq(root.value["days"].value, LAMBDA day : day.kind = "object") ELSE <<>>
dayOf(day, place, pending) ==
  [day |-> IF Has(day, "day", "number") THEN day.value["day"].value ELSE <<ToString(place)>>,
   date |-> IF Has(day, "date", "string") /\ Len(day.value["date"].value) = DATE_PIECES
            THEN day.value["date"].value ELSE NoDate,
   lines |-> linesOf(day, pending)]
readDraft(parsed, written) ==
  [days |-> [i \in DOMAIN written |-> dayOf(written[i], i, IF i = Len(written) THEN Pending(parsed.cut) ELSE NotCut)],
   complete |-> parsed.complete]

----------------------------------------------------------------------------
NothingShown == [days |-> <<>>, complete |-> FALSE]
ReadingInit == reply \in Replies /\ arrived = 0 /\ shown = NothingShown /\ before = NothingShown

\* A builder_token event; the stream may end anywhere.
PieceArrives ==
  /\ arrived < Len(reply.text) /\ arrived' = arrived + 1
  /\ \E parsed \in {readPartialJson(SubSeq(reply.text, 1, arrived + 1))} :
       \E written \in {Written(parsed.value)} : shown' = readDraft(parsed, written)
  /\ before' = shown /\ UNCHANGED reply

----------------------------------------------------------------------------
ReadingTypeOK == reply \in Replies /\ arrived \in 0..Len(reply.text) /\ shown.complete \in BOOLEAN

\* What is shown of a reply while it arrives is the start of the plan it stands for: its days in their
\* order, each under its own number or its place, each line one of the day's or, the last, the start of
\* one; no stop has the start of "free time" for its name; and a line once shown stays, or goes on, but for
\* the "all day" that a later stop replaces.  The whole reply is read as the plan it is, and only then as whole.
DraftReadTrue ==
  LET whole == reply.days
      goes_on(one, other) == one.label = other.label /\ IsPrefix(one.text, other.text)
  IN /\ arrived = Len(reply.text) => shown.days = whole /\ shown.complete
     /\ shown.complete => shown.days = whole
     /\ Len(shown.days) <= Len(whole)
     /\ \A d \in DOMAIN shown.days :
          LET day == shown.days[d]
          IN /\ day.day \in {whole[d].day, <<ToString(d)>>} /\ day.date \in {NoDate, whole[d].date}
             /\ \A i \in DOMAIN day.lines :
                  LET line == day.lines[i]
                      last == d = Len(shown.days) /\ i = Len(day.lines)
                  IN \/ line = ALL_DAY
                     \/ \E final \in ToSet(whole[d].lines) :
                          /\ goes_on(line, final) /\ (last \/ line = final)
                          /\ line.label # "Stay" => ~IsPrefix(line.text, FREE_TIME)
     /\ \A d \in DOMAIN before.days :
          /\ d \in DOMAIN shown.days
          /\ \A line \in ToSet(before.days[d].lines) \ {ALL_DAY} :
               \E other \in ToSet(shown.days[d].lines) : goes_on(line, other)
=============================================================================
