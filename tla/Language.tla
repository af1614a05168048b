------------------------------ MODULE Language ------------------------------
(***************************************************************************)
(* The language a plan is written in (language.py, language_node and       *)
(* localise_node): what the traveller wrote is read and put into English,  *)
(* the model writes a draft, and what it did not write of it is translated *)
(* or taken from the plan before.  A translation may fail as a whole, in   *)
(* one of its calls or for one string.                                     *)
(*                                                                         *)
(* A text is what it says and what can be seen of it: its letters, as a    *)
(* sequence of [script, count] by their first, langdetect's guess, and the *)
(* languages that have a word of their own in it.                          *)
(***************************************************************************)
EXTENDS Integers, Sequences, FiniteSets, SequencesExt

CONSTANTS
  FEW_LETTERS, MAX_PER_CALL,
  Requests,      \* what travellers write: sequences of [where, text], the request first
  Saved,         \* the preferred languages they may have saved
  Drafts,        \* the stops of the plans the model may write: sequences of their names
  Described,     \* the attractions that came with a description
  Tips,          \* what the local tips say, in their places: a text may be there twice
  MaxPlans       \* a plan, and the changes made to it

None == "none"
FREE_TIME == "free time"
ScriptOf == [hi |-> "DEVANAGARI", ta |-> "TAMIL", bn |-> "BENGALI"]
SUPPORTED == DOMAIN ScriptOf
ENGLISH == "en"
AlsoInScript(script) == IF script = "DEVANAGARI" THEN {"mr", "ne"} ELSE {}

VARIABLES
  step,        \* what the run does next
  typed,       \* what was written, and
  read_as,     \* what intent parsing reads instead
  language,    \* the state's: of the plan, none for English
  draft,       \* stops [name, local_name, description]
  tips,        \* the sentences of the local tips
  before,      \* the plan before: [language, draft]
  written,     \* (for the properties) the draft as the builder handed it on
  plans

language_vars == <<step, typed, read_as, language, draft, tips, before, written, plans>>

NoPlan == [language |-> None, draft |-> <<>>]
LanguageInit ==
  /\ step = "asked" /\ typed \in Requests /\ read_as = <<>> /\ language = None
  /\ draft = <<>> /\ tips = <<>> /\ before = NoPlan /\ written = <<>> /\ plans = 1

----------------------------------------------------------------------------
(* read: which language a text is in.                                      *)

Reading(lang, script) == [language |-> lang, script |-> script]
Commonest(letters) ==
  letters[CHOOSE i \in DOMAIN letters :
            /\ \A j \in DOMAIN letters : letters[j].count <= letters[i].count
            /\ \A j \in 1..(i - 1) : letters[j].count < letters[i].count]
LanguageOf(script) == IF \E code \in SUPPORTED : ScriptOf[code] = script
                      THEN CHOOSE code \in SUPPORTED : ScriptOf[code] = script ELSE None

Guessed(guess, own, main) == IF guess \in own THEN {guess} ELSE IF own # {} THEN own ELSE {main}

\* The readings of a text: of two languages with words of their own in it either may be taken.
read(text) ==
  IF text.letters = <<>> \/ Commonest(text.letters).script = "LATIN" THEN {Reading(None, None)}
  ELSE LET script == Commonest(text.letters).script
           main == LanguageOf(script)
       IN IF script = "BENGALI" /\ text.assamese THEN {Reading("as", script)}
          ELSE IF Commonest(text.letters).count < FEW_LETTERS \/ text.guess = None THEN {Reading(main, script)}
          ELSE IF text.guess \in AlsoInScript(script)
               THEN {Reading(code, script) : code \in Guessed(text.guess, text.own, main)}
          ELSE IF main \in {text.guess, None} THEN {Reading(text.guess, script)} ELSE {Reading(main, script)}

InEnglish(text) ==
  [text EXCEPT !.letters = <<[script |-> "LATIN", count |-> FEW_LETTERS]>>, !.guess = ENGLISH, !.own = {}, !.assamese = FALSE]

----------------------------------------------------------------------------
(* translate: each string once, in calls of a few; the answers of a call   *)
(* are for its own strings.                                                *)

Unique(texts) == FoldLeft(LAMBDA seen, text : IF text \in ToSet(seen) THEN seen ELSE Append(seen, text), <<>>, texts)
Batches(unique) ==
  [b \in 1..((Len(unique) + MAX_PER_CALL - 1) \div MAX_PER_CALL) |->
     {unique[i] : i \in {j \in DOMAIN unique : (j - 1) \div MAX_PER_CALL = b - 1}}]

\* What may come back: of each call nothing that can be read, or some of its strings translated.
Unreadable == <<>>
Answers(texts) ==
  LET batches == Batches(Unique(texts))
  IN {answer \in [DOMAIN batches -> {Unreadable} \cup {<<done>> : done \in SUBSET ToSet(texts)}] :
        \A b \in DOMAIN batches : answer[b] # Unreadable => answer[b][1] \subseteq batches[b]}
Done(answer) == UNION {answer[b][1] : b \in {c \in DOMAIN answer : answer[c] # Unreadable}}

----------------------------------------------------------------------------
(* language_node: what decides the plan's language, and the request in     *)
(* English.                                                                *)

Refusing(saved) == saved \notin SUPPORTED \cup {ENGLISH}
Chosen(saved, reading) ==
  IF ~Refusing(saved) THEN saved
  ELSE IF reading.language \in SUPPORTED THEN reading.language
  ELSE IF language # None THEN language ELSE ENGLISH

\* The request, or with none everything that was written; langdetect may take the whole for any of its parts.
Written(pieces) ==
  LET request == SelectSeq(pieces, LAMBDA piece : piece.where = "request")
      parts == IF request # <<>> THEN request ELSE pieces
      all == ToSet(parts)
      together(script) == FoldLeft(LAMBDA n, part : n + FoldLeft(LAMBDA k, l : k + IF l.script = script THEN l.count ELSE 0,
                                                                 0, part.text.letters), 0, parts)
      scripts == Unique(FlattenSeq([i \in DOMAIN parts |-> [j \in DOMAIN parts[i].text.letters |-> parts[i].text.letters[j].script]]))
  IN {[says |-> "all of it", letters |-> [i \in DOMAIN scripts |-> [script |-> scripts[i], count |-> together(scripts[i])]],
       assamese |-> \E piece \in all : piece.text.assamese, guess |-> guess, own |-> UNION {piece.text.own : piece \in all}] :
       guess \in {piece.text.guess : piece \in all}}

ReadRequest ==
  /\ step = "asked" /\ step' = "build"
  /\ \E saved \in Saved, whole \in Written(typed), readings \in [DOMAIN typed -> UNION {read(typed[i].text) : i \in DOMAIN typed}] :
       \E reading \in read(whole) :
         LET chosen == Chosen(saved, reading)
             plan_language == IF chosen = ENGLISH THEN None ELSE chosen
             foreign == {i \in DOMAIN typed : readings[i].language \in SUPPORTED}
             \* each language of what was written is put into English by itself
             texts(source) == [k \in DOMAIN typed |-> IF k \in foreign /\ readings[k].language = source
                                                      THEN <<typed[k].text>> ELSE <<>>]
         IN /\ \A i \in DOMAIN typed : readings[i] \in read(typed[i].text)
            /\ language' = plan_language
            /\ \E done \in [SUPPORTED -> SUBSET {typed[i].text : i \in foreign}] :
                 /\ \A source \in SUPPORTED :
                      \E answer \in Answers(FlattenSeq(texts(source))) : done[source] = Done(answer)
                 /\ read_as' = [i \in DOMAIN typed |->
                      IF i \in foreign /\ typed[i].text \in done[readings[i].language]
                      THEN [typed[i] EXCEPT !.text = InEnglish(@)] ELSE typed[i]]
  /\ UNCHANGED <<typed, draft, tips, before, written, plans>>

----------------------------------------------------------------------------
(* The builder writes each stop's words in the plan's language, or not;    *)
(* what is in another script is let go (_keep_local_text).                 *)

NoWords == [of |-> None, in |-> None, by |-> None]
Words(of, in, by) == [of |-> of, in |-> in, by |-> by]
\* local_text: words in the script of the language asked for.
InScript(words, lang) == IF words.in = lang THEN words ELSE NoWords
Kept(name, words) == IF language = None \/ name = FREE_TIME THEN NoWords ELSE InScript(words, language)

Build ==
  /\ step = "build" /\ step' = "localise"
  /\ \E names \in Drafts, named \in {ENGLISH, language}, described \in SUBSET {1, 2} :
       LET by_model(name, in) == Kept(name, Words(name, in, "builder"))
           stop(i) == [name |-> names[i], local_name |-> by_model(names[i], named),
                       description |-> by_model(names[i], IF i \in described THEN language ELSE ENGLISH)]
       IN draft' = [i \in DOMAIN names |-> stop(i)]
  /\ written' = draft' /\ tips' = [i \in DOMAIN Tips |-> Words(Tips[i], ENGLISH, "agent")]
  /\ typed' = <<>> /\ read_as' = <<>> /\ UNCHANGED <<language, before, plans>>

----------------------------------------------------------------------------
(* localise: earlier words for what the builder left out, then a           *)
(* translation of what is known of the place, and of the tips.             *)

\* local_text_of: of a name that is there twice the first stop that has words, in the earlier plan's language.
Earlier(name) ==
  LET has(i) == /\ before.draft[i].name = name /\ name # FREE_TIME
                /\ \E key \in {"local_name", "description"} : InScript(before.draft[i][key], before.language) # NoWords
      first == {i \in DOMAIN before.draft : has(i) /\ \A j \in 1..(i - 1) : ~has(j)}
      words(key) == UNION {{InScript(before.draft[i][key], before.language)} : i \in first} \ {NoWords}
  IN [local_name |-> words("local_name"), description |-> words("description")]

OwnFirst(own, earlier) == IF own # NoWords \/ earlier = {} THEN own ELSE CHOOSE words \in earlier : TRUE

WithEarlier(stop) ==
  [stop EXCEPT !.local_name = OwnFirst(@, Earlier(stop.name).local_name),
               !.description = OwnFirst(@, Earlier(stop.name).description)]

About(name) == IF name \in Described \cup {FREE_TIME} THEN <<Words(name, ENGLISH, "agent")>> ELSE <<>>

Localise ==
  /\ step = "localise" /\ step' = "planned"
  /\ IF language = None THEN UNCHANGED <<draft, tips>>
     ELSE LET filled == [i \in DOMAIN draft |-> WithEarlier(draft[i])]
              wanted(i) == IF filled[i].description = NoWords THEN About(filled[i].name) ELSE <<>>
              texts == FlattenSeq([i \in DOMAIN filled |-> wanted(i)]) \o tips
              put(words) == [words EXCEPT !.in = language, !.by = "translation"]
          IN \E answer \in Answers(texts) :
               LET done == Done(answer)
               IN /\ draft' = [i \in DOMAIN filled |->
                       IF wanted(i) # <<>> /\ wanted(i)[1] \in done
                       THEN [filled[i] EXCEPT !.description = put(wanted(i)[1])] ELSE filled[i]]
                  /\ tips' = [i \in DOMAIN tips |-> IF tips[i] \in done THEN put(tips[i]) ELSE tips[i]]
  /\ UNCHANGED <<typed, read_as, language, before, written, plans>>

\* A change: refine and replan go on in the plan's language, with what the plan said of each stop.
Change ==
  /\ step = "planned" /\ plans < MaxPlans /\ plans' = plans + 1
  /\ step' = "asked" /\ typed' \in Requests /\ read_as' = <<>>
  /\ before' = [language |-> language, draft |-> draft]
  /\ draft' = <<>> /\ tips' = <<>> /\ written' = <<>> /\ UNCHANGED language

LanguageNext == ReadRequest \/ Build \/ Localise \/ Change

----------------------------------------------------------------------------
LanguageTypeOK ==
  /\ step \in {"asked", "build", "localise", "planned"} /\ typed \in Requests \cup {<<>>}
  /\ language \in SUPPORTED \cup {None} /\ plans \in 1..MaxPlans
  /\ \A i \in DOMAIN draft : draft[i].local_name.in \in SUPPORTED \cup {None} /\ draft[i].description.in \in SUPPORTED \cup {None}

\* What was written is read where it was written, as it was typed or in English, whatever failed of its
\* translation; what is not in one of the three languages is never sent to be translated.
ReadWhereItWasWritten ==
  read_as # <<>> =>
    /\ Len(read_as) = Len(typed)
    /\ \A i \in DOMAIN typed :
         /\ read_as[i].where = typed[i].where
         /\ read_as[i].text # typed[i].text =>
              /\ read_as[i].text = InEnglish(typed[i].text)
              /\ \E reading \in read(typed[i].text) : reading.language \in SUPPORTED
    \* Devanagari is taken for Hindi unless a word of the text is another language's
    /\ \A i \in DOMAIN typed : \A reading \in read(typed[i].text) :
         reading.language \in {"mr", "ne"} => reading.language \in typed[i].text.own

\* A finished plan has the stops the evaluator passed, in their places; each is described as what it is;
\* what the builder wrote of it stands, and else what the plan before said of it, if it said anything;
\* what is not in the plan's language is in English - but for words kept from a plan in another one.
SaysWhatItIs ==
  step = "planned" =>
    /\ Len(draft) = Len(written)
    /\ \A i \in DOMAIN draft, key \in {"local_name", "description"} :
         LET words == draft[i][key]
             kept == {before.draft[j] : j \in {k \in DOMAIN before.draft : before.draft[k].name = draft[i].name}}
         IN /\ draft[i].name = written[i].name
            /\ words # NoWords => words.of = draft[i].name /\ language # None
            /\ written[i][key] # NoWords => words = written[i][key]
            /\ words.in \notin {None, language} => \E stop \in kept : stop[key] = words /\ before.language # language
            /\ words = NoWords /\ language # None /\ draft[i].name # FREE_TIME
                 => \A stop \in kept : stop[key] = NoWords \/ \E other \in kept : other[key] = NoWords
    /\ \A i \in DOMAIN tips : tips[i].of = Tips[i] /\ tips[i].in \in {ENGLISH, language}
    /\ language = None => draft = written

WordsHold == ReadWhereItWasWritten /\ SaysWhatItIs
=============================================================================
