------------------------------ MODULE TextRules ------------------------------
(***************************************************************************)
(* How the AI service reads a text without its language model:             *)
(* _extract_with_rules of Ai-Service/Server.py.  A text is a sequence of   *)
(* words; the words the expressions look for are the constants below, one  *)
(* for each group of spellings, and every other word is part of a name.    *)
(***************************************************************************)
EXTENDS Naturals, Sequences, SequencesExt, FiniteSetsExt

CONSTANTS
  Word,      \* words
  Alias      \* LOCATION_ALIASES: a function from names to names

WANT == "want"          \* the words for wanting, but the next
WANT_F == "want+a"      \* the feminine of the first of them, which it begins with
ENDING == "+a"          \* what is left of it then
GO == "go"
ASK == "how do I"       \* the openings that only a candidate is cleaned of, but the
                        \* one that begins with wanting
HOW == "how"
AND_I == "and I am"
AT == "in"
HOME == "home"          \* someone's place, work, area, ...
PLEASE == "if you allow" \* one way to say please; the other is
KINDLY == "your kindness" \* this word, after the word for from
FROM == "from"
TO == "to"              \* to_sep
FROM_E == "from (English)"
TO_E == "to (English)"

Openings == {WANT, WANT_F, GO, ASK, HOW}
Keywords == Openings \cup {AND_I, AT, HOME, PLEASE, KINDLY, FROM, TO, FROM_E, TO_E}

ASSUME WordAssumption == Keywords \cup {ENDING} \subseteq Word

NoName == << >>
NoReading == [from |-> NoName, to |-> NoName]

Places(text, word) == {k \in DOMAIN text : text[k] = word}
Between(text, i, j) == SubSeq(text, i + 1, j - 1)
After(text, k) == SubSeq(text, k + 1, Len(text))
Inside(text, word) == {k \in Places(text, word) : k > 1 /\ k < Len(text)}

ApplyAlias(name) == IF name \in DOMAIN Alias THEN Alias[name] ELSE name

Reading(from, to) == [from |-> ApplyAlias(from), to |-> ApplyAlias(to)]

\* text without its first word, if that is one of words and not the only one.
DropFirst(text, words) == IF Len(text) > 1 /\ Head(text) \in words THEN Tail(text) ELSE text

\* Whose place, or which area, it is in, is dropped.
DropHome(text) ==
  LET ins == Inside(text, AT) IN
  IF ins # {} /\ \E k \in Places(text, HOME) : k < Max(ins) THEN After(text, Max(ins)) ELSE text

\* The words for please that end text, after another word.
Politeness(text) ==
  CASE Len(text) > 1 /\ Last(text) = PLEASE -> 1
    [] Len(text) > 2 /\ Last(text) = KINDLY /\ text[Len(text) - 1] = FROM -> 2
    [] OTHER -> 0

DropPlease(text) == SubSeq(text, 1, Len(text) - Politeness(text))

\* Mutant of Clean: the word for going is not dropped after another opening.
CleanOnce(text) == DropPlease(DropHome(DropFirst(text, Openings \cup {PLEASE})))

\* At most one opening goes, and then at most one word for going.
Clean(text) ==
  DropPlease(DropFirst(DropHome(DropFirst(text, Openings \cup {PLEASE})), {GO}))

-----------------------------------------------------------------------------
(* The expressions, in the order they are tried.                           *)

\* The masculine spelling matches at the start of the feminine one.
DropWant(text) ==
  CASE text # << >> /\ Head(text) = WANT -> Tail(text)
    [] text # << >> /\ Head(text) = WANT_F -> <<ENDING>> \o Tail(text)
    [] OTHER -> text

DropGo(text) == IF text # << >> /\ Head(text) = GO THEN Tail(text) ELSE text

\* What the optional openings leave, the longest match first.
Rests(text) == <<DropGo(DropWant(text)), DropWant(text), DropGo(text), text>>

\* What comes before and after the first sep inside text.
Halves(text, sep) ==
  LET k == Min(Inside(text, sep)) IN [before |-> SubSeq(text, 1, k - 1), after |-> After(text, k)]

\* "[want] [go] <before> sep <after>"
OpenedHalves(text, sep) ==
  LET fits == {k \in 1..4 : Inside(Rests(text)[k], sep) # {}}
  IN  IF fits = {} THEN {} ELSE {Halves(Rests(text)[Min(fits)], sep)}

\* "<first> <before> sep <after>"
HalvesAfter(text, first, sep) ==
  IF text # << >> /\ Head(text) = first /\ Inside(Tail(text), sep) # {}
  THEN {Halves(Tail(text), sep)} ELSE {}

FromFirst(halves) == {Reading(Clean(h.before), Clean(h.after)) : h \in halves}
ToFirst(halves) == {Reading(Clean(h.after), Clean(h.before)) : h \in halves}

\* "... go [how] <to> and I am in <from>"
Conversation(text) ==
  LET rest == After(text, Min(Places(text, GO)))
      told == IF rest # << >> /\ Head(rest) = HOW /\ Inside(Tail(rest), AND_I) # {}
              THEN Tail(rest) ELSE rest
      ands == {k \in Inside(told, AND_I) : k + 1 < Len(told) /\ told[k + 1] = AT}
  IN  IF Places(text, GO) = {} \/ ands = {} THEN {}
      ELSE {Reading(Clean(After(told, Min(ands) + 1)), Clean(SubSeq(told, 1, Min(ands) - 1)))}

\* "... go <to>", up to a word about oneself
DestinationOnly(text) ==
  LET goes == {k \in Places(text, GO) : k < Len(text)}
      to == Clean(After(text, Min(goes)))
      ands == {k \in Places(to, AND_I) : k > 1}
  IN  IF goes = {} THEN {}
      ELSE {Reading(NoName, IF ands = {} THEN to ELSE SubSeq(to, 1, Min(ands) - 1))}

\* The readings each expression finds: none or one.  Last comes the text itself.
Patterns(text) ==
  <<FromFirst(HalvesAfter(text, FROM, TO)), ToFirst(OpenedHalves(text, TO)),
    ToFirst(OpenedHalves(text, FROM)), FromFirst(HalvesAfter(text, FROM_E, TO_E)),
    ToFirst(HalvesAfter(text, TO_E, FROM_E)), Conversation(text), DestinationOnly(text),
    {Reading(NoName, text)}>>

ExtractWithRules(text) ==
  IF text = << >> THEN NoReading
  ELSE LET found == {k \in DOMAIN Patterns(text) : Patterns(text)[k] # {}}
       IN  CHOOSE reading \in Patterns(text)[Min(found)] : TRUE

-----------------------------------------------------------------------------
(* What texts mean, whatever expression reads them.                        *)

IsName(words) == words # << >> /\ ToSet(words) \cap Keywords = {}

\* What may come before "go": every opening that is cleaned but the feminine of
\* wanting, of which the expressions leave the end.
Asides == {ASK, HOW, PLEASE}

\* "[<opening>] go <to> from <from> [please]", and "... and I am in <from>":
\* please is said after this in the words without "from" only.
MeantByGoing(text) ==
  LET To(e) == Between(text, e[1], IF text[e[2]] = FROM THEN e[2] ELSE e[2] - 1)
      From(e) == DropPlease(After(text, e[2]))
      ends == {e \in Places(text, GO) \X (Places(text, FROM) \cup Places(text, AT)) :
                 /\ e[1] = 1 \/ (e[1] = 2 /\ Head(text) \in {WANT} \cup Asides)
                 /\ e[1] < e[2]
                 /\ text[e[2]] = AT => text[e[2] - 1] = AND_I /\ Last(text) # KINDLY
                 /\ IsName(To(e)) /\ IsName(From(e))}
  IN  {Reading(From(e), To(e)) : e \in ends}

\* "<opening> from <from> to <to> [please]"
MeantFromTo(text, openings) ==
  LET From(e) == Between(text, e[1], e[2])
      To(e) == DropPlease(After(text, e[2]))
      ends == {e \in Places(text, FROM) \X Places(text, TO) :
                 /\ ToSet(SubSeq(text, 1, e[1] - 1)) \subseteq openings
                 /\ IsName(From(e)) /\ IsName(To(e))}
  IN  {Reading(From(e), To(e)) : e \in ends}

=============================================================================
