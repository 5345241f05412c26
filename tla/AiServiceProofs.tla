--------------------------- MODULE AiServiceProofs ---------------------------
(***************************************************************************)
(* Proofs about the AI service and the way to it, for any pool of threads, *)
(* any texts, whatever the model labels in them, any tables, and whatever  *)
(* the services outside answer: what the rules read, which places replies  *)
(* and the cache hold, that the service behind the gateway is the service  *)
(* of AiService, and that all callers of a process hear one verdict.       *)
(***************************************************************************)
EXTENDS AiGateway, SequenceTheorems, WellFoundedInduction, TLAPS

-----------------------------------------------------------------------------
(* Least and greatest.                                                     *)

\* A set of naturals that is not empty has a least element, and Min is it.
LEMMA LeastIsIn ==
  ASSUME NEW S, S \subseteq Nat, S # {}
  PROVE  Min(S) \in S /\ \A k \in S : Min(S) <= k
<1> DEFINE R == OpToRel(<, Nat)
<1>1. IsWellFoundedOn(R, Nat)
  BY NatLessThanWellFounded
<1> HIDE DEF R
<1>2. PICK x \in S : \A y \in S : ~(<<y, x>> \in R)
  BY <1>1, WFMin, Zenon
<1>3. ASSUME NEW y \in S PROVE x <= y
  <2>1. <<y, x>> \notin R /\ x \in Nat /\ y \in Nat
    BY <1>2
  <2>2. ~(y < x)
    BY <2>1, SMT DEF R, OpToRel
  <2> QED  BY <2>1, <2>2
<1> QED  BY <1>3, Zenon DEF Min

\* A bounded one that is not empty has a greatest, and Max is in it.
LEMMA GreatestIsIn ==
  ASSUME NEW n \in Nat, NEW S, S \subseteq 0..n, S # {}
  PROVE  Max(S) \in S
<1> DEFINE T == {n - k : k \in S}
<1>1. \A k \in S : k \in 0..n /\ n - k \in Nat
  OBVIOUS
<1>2. T \subseteq Nat /\ T # {}
  BY <1>1
<1> HIDE DEF T
<1>3. Min(T) \in T /\ \A k \in T : Min(T) <= k
  BY <1>2, LeastIsIn
<1>4. PICK x \in S : Min(T) = n - x
  BY <1>3 DEF T
<1>5. ASSUME NEW y \in S PROVE x >= y
  <2>1. Min(T) <= n - y
    BY <1>3 DEF T
  <2> QED  BY <1>1, <1>4, <2>1
<1> QED  BY <1>4, <1>5, Zenon DEF Max

-----------------------------------------------------------------------------
(* What the rules read.                                                    *)

\* Names with a word.
Named == AnyName \ {NoName}

\* Readings with a destination.
Destined == [from : AnyName, to : Named]

\* What is before a word that is not the first, or after one that is not the
\* last, has a word.
LEMMA PartsNamed ==
  ASSUME NEW text \in AnyName
  PROVE  /\ \A k \in 2..(Len(text) + 1) : SubSeq(text, 1, k - 1) \in Named
         /\ \A k \in 1..(Len(text) - 1) : After(text, k) \in Named
<1> USE DEF AnyName, Named, NoName
<1>1. ASSUME NEW k \in 2..(Len(text) + 1) PROVE SubSeq(text, 1, k - 1) \in Named
  <2>1. SubSeq(text, 1, k - 1) \in Seq(Word) /\ Len(SubSeq(text, 1, k - 1)) = k - 1
    OBVIOUS
  <2> QED  BY <2>1
<1>2. ASSUME NEW k \in 1..(Len(text) - 1) PROVE After(text, k) \in Named
  <2>1. After(text, k) \in Seq(Word) /\ Len(After(text, k)) = Len(text) - k
    BY DEF After
  <2> QED  BY <2>1
<1> QED  BY <1>1, <1>2

LEMMA InsideWithin ==
  ASSUME NEW text \in AnyName, NEW word
  PROVE  /\ Places(text, word) \subseteq 1..Len(text)
         /\ Inside(text, word) \subseteq 2..(Len(text) - 1)
  BY DEF AnyName, Inside, Places

LEMMA TailNamed ==
  ASSUME NEW text \in AnyName
  PROVE  /\ text # << >> => Tail(text) \in AnyName
         /\ Len(text) > 1 => Tail(text) \in Named
<1>1. ASSUME text # << >>
      PROVE  Tail(text) \in Seq(Word) /\ Len(Tail(text)) = Len(text) - 1
  BY <1>1 DEF AnyName
<1>2. Len(text) \in Nat /\ (text = << >> => Len(text) = 0) /\ Len(<< >>) = 0
  BY DEF AnyName
<1>3. ASSUME Len(text) > 1 PROVE Tail(text) \in Seq(Word) /\ Tail(text) # << >>
  <2>1. text # << >>
    BY <1>2, <1>3
  <2> DEFINE rest == Tail(text)
  <2>2. rest \in Seq(Word) /\ Len(rest) = Len(text) - 1
    BY <1>1, <2>1
  <2> HIDE DEF rest
  <2>3. Len(rest) # 0
    BY <1>2, <1>3, <2>2
  <2>4. rest # << >>
    BY <1>2, <2>3
  <2> QED  BY <2>2, <2>4 DEF rest
<1> QED  BY <1>1, <1>3 DEF AnyName, Named, NoName

\* Cleaning leaves a word.
LEMMA CleanNamed ==
  ASSUME NEW text \in Named
  PROVE  Clean(text) \in Named
<1>1. ASSUME NEW t \in Named, NEW words PROVE DropFirst(t, words) \in Named
  BY TailNamed DEF DropFirst, Named
<1>2. ASSUME NEW t \in Named PROVE DropHome(t) \in Named
  <2> DEFINE ins == Inside(t, AT)
  <2>1. t \in AnyName /\ Len(t) \in Nat
    BY DEF Named, AnyName
  <2>2. ins \subseteq 2..(Len(t) - 1)
    BY <2>1, InsideWithin
  <2> HIDE DEF ins
  <2>3. CASE ins = {}
    BY <2>3 DEF DropHome, ins
  <2>4. CASE ins # {}
    <3>1. ins \subseteq 0..Len(t)
      BY <2>1, <2>2
    <3>2. Max(ins) \in ins
      BY <2>1, <2>4, <3>1, GreatestIsIn
    <3>3. Max(ins) \in 1..(Len(t) - 1)
      <4>1. \A k \in ins : k \in 1..(Len(t) - 1)
        BY <2>1, <2>2
      <4> QED  BY <3>2, <4>1, Zenon
    <3>4. After(t, Max(ins)) \in Named
      BY <2>1, <3>3, PartsNamed
    <3> QED  BY <3>4 DEF DropHome, ins
  <2> QED  BY <2>3, <2>4
<1>3. ASSUME NEW t \in Named PROVE DropPlease(t) \in Named
  <2>1. t \in AnyName /\ Len(t) \in Nat
    BY DEF Named, AnyName
  <2>2. Len(t) # 0
    BY DEF Named, AnyName, NoName
  <2>3. Politeness(t) \in Nat /\ Politeness(t) < Len(t)
    BY <2>1, <2>2 DEF Politeness
  <2>4. PICK k \in 2..(Len(t) + 1) : k - 1 = Len(t) - Politeness(t)
    <3>1. Len(t) - Politeness(t) + 1 \in 2..(Len(t) + 1)
      BY <2>1, <2>3
    <3>2. (Len(t) - Politeness(t) + 1) - 1 = Len(t) - Politeness(t)
      BY <2>1, <2>3
    <3> QED  BY <3>1, <3>2
  <2> QED  BY <2>1, <2>4, PartsNamed DEF DropPlease
<1> QED  BY <1>1, <1>2, <1>3 DEF Clean

LEMMA ReadingDestined ==
  ASSUME NEW from \in AnyName, NEW to \in Named
  PROVE  Reading(from, to) \in Destined
<1>1. ApplyAlias(from) \in AnyName /\ ApplyAlias(to) \in Named
  BY TableAssumption DEF ApplyAlias, Named
<1> QED  BY <1>1 DEF Reading, Destined

\* Both halves of a text have a word.
Halved == [before : Named, after : Named]

LEMMA HalvesNamed ==
  ASSUME NEW text \in AnyName, NEW sep, Inside(text, sep) # {}
  PROVE  Halves(text, sep) \in Halved
<1> DEFINE k == Min(Inside(text, sep))
<1>1. Len(text) \in Nat
  BY DEF AnyName
<1>2. Inside(text, sep) \subseteq 2..(Len(text) - 1)
  BY InsideWithin
<1>3. Inside(text, sep) \subseteq Nat
  BY <1>1, <1>2
<1>4. k \in Inside(text, sep)
  BY <1>3, LeastIsIn
<1> HIDE DEF k
<1>5. k \in 2..(Len(text) + 1) /\ k \in 1..(Len(text) - 1)
  BY <1>1, <1>2, <1>4
<1>6. SubSeq(text, 1, k - 1) \in Named /\ After(text, k) \in Named
  BY <1>5, PartsNamed
<1> QED  BY <1>6 DEF Halves, Halved, k

\* The readings of halves.
LEMMA HalvesRead ==
  ASSUME NEW halves, halves \subseteq Halved
  PROVE  FromFirst(halves) \subseteq Destined /\ ToFirst(halves) \subseteq Destined
<1>1. ASSUME NEW h \in halves
      PROVE  /\ Reading(Clean(h.before), Clean(h.after)) \in Destined
             /\ Reading(Clean(h.after), Clean(h.before)) \in Destined
  <2>1. h.before \in Named /\ h.after \in Named
    BY DEF Halved
  <2>2. Clean(h.before) \in Named /\ Clean(h.after) \in Named
    BY <2>1, CleanNamed
  <2> QED  BY <2>2, ReadingDestined DEF Named
<1> QED  BY <1>1 DEF FromFirst, ToFirst

LEMMA RestsNamed ==
  ASSUME NEW text \in AnyName, NEW k \in 1..4
  PROVE  Rests(text)[k] \in AnyName
<1>1. ASSUME NEW t \in AnyName PROVE DropGo(t) \in AnyName
  BY TailNamed DEF DropGo
<1>2. DropWant(text) \in AnyName
  <2>1. <<ENDING>> \in Seq(Word)
    <3>1. ENDING \in Word
      BY WordAssumption
    <3> QED  BY <3>1
  <2>2. text # << >> => <<ENDING>> \o Tail(text) \in AnyName
    BY <2>1, TailNamed DEF AnyName
  <2> QED  BY <2>2, TailNamed DEF DropWant
<1>3. DropGo(DropWant(text)) \in AnyName /\ DropGo(text) \in AnyName
  BY <1>1, <1>2
<1> QED  BY <1>2, <1>3 DEF Rests

LEMMA OpenedHalved ==
  ASSUME NEW text \in AnyName, NEW sep
  PROVE  OpenedHalves(text, sep) \subseteq Halved
<1> DEFINE fits == {k \in 1..4 : Inside(Rests(text)[k], sep) # {}}
<1>1. CASE fits = {}
  BY <1>1 DEF OpenedHalves
<1>2. CASE fits # {}
  <2> HIDE DEF fits
  <2>1. Min(fits) \in fits
    <3>1. fits \subseteq Nat
      BY DEF fits
    <3> QED  BY <1>2, <3>1, LeastIsIn
  <2>2. Halves(Rests(text)[Min(fits)], sep) \in Halved
    BY <2>1, RestsNamed, HalvesNamed DEF fits
  <2> QED  BY <2>2 DEF OpenedHalves, fits
<1> QED  BY <1>1, <1>2

LEMMA HalvedAfter ==
  ASSUME NEW text \in AnyName, NEW first, NEW sep
  PROVE  HalvesAfter(text, first, sep) \subseteq Halved
  BY TailNamed, HalvesNamed DEF HalvesAfter

\* What follows the first word for going, if anything does.
LEMMA AfterGoing ==
  ASSUME NEW text \in AnyName, NEW k \in Places(text, GO)
  PROVE  After(text, k) \in AnyName
<1>1. k \in 1..Len(text)
  BY InsideWithin
<1> QED  BY <1>1 DEF After, AnyName

LEMMA ConversationRead ==
  ASSUME NEW text \in AnyName
  PROVE  Conversation(text) \subseteq Destined
<1> DEFINE rest == After(text, Min(Places(text, GO)))
           told == IF rest # << >> /\ Head(rest) = HOW /\ Inside(Tail(rest), AND_I) # {}
                   THEN Tail(rest) ELSE rest
           ands == {k \in Inside(told, AND_I) : k + 1 < Len(told) /\ told[k + 1] = AT}
<1>1. CASE Places(text, GO) = {} \/ ands = {}
  BY <1>1 DEF Conversation
<1>2. CASE ~(Places(text, GO) = {} \/ ands = {})
  <2>1. Places(text, GO) \subseteq Nat
    BY InsideWithin
  <2>2. Min(Places(text, GO)) \in Places(text, GO)
    BY <1>2, <2>1, LeastIsIn
  <2>3. rest \in AnyName
    BY <2>2, AfterGoing
  <2>4. told \in AnyName
    BY <2>3, TailNamed
  <2> HIDE DEF told
  <2>5. Len(told) \in Nat /\ Inside(told, AND_I) \subseteq 2..(Len(told) - 1)
    BY <2>4, InsideWithin DEF AnyName
  <2>6. ands \subseteq Nat
    BY <2>5
  <2>7. Min(ands) \in ands
    BY <1>2, <2>6, LeastIsIn
  <2> DEFINE k == Min(ands)
  <2>8. k \in ands
    BY <2>7
  <2> HIDE DEF k
  <2>9. k \in 2..(Len(told) + 1) /\ k + 1 \in 1..(Len(told) - 1)
    BY <2>5, <2>8
  <2>10. SubSeq(told, 1, k - 1) \in Named /\ After(told, k + 1) \in Named
    BY <2>4, <2>9, PartsNamed
  <2>11. Clean(SubSeq(told, 1, k - 1)) \in Named /\ Clean(After(told, k + 1)) \in Named
    BY <2>10, CleanNamed
  <2>12. Reading(Clean(After(told, k + 1)), Clean(SubSeq(told, 1, k - 1))) \in Destined
    BY <2>11, ReadingDestined DEF Named
  <2> QED  BY <1>2, <2>12 DEF Conversation, told, k
<1> QED  BY <1>1, <1>2

LEMMA DestinationRead ==
  ASSUME NEW text \in AnyName
  PROVE  DestinationOnly(text) \subseteq Destined
<1> DEFINE goes == {k \in Places(text, GO) : k < Len(text)}
           to == Clean(After(text, Min(goes)))
           ands == {k \in Places(to, AND_I) : k > 1}
           end == IF ands = {} THEN to ELSE SubSeq(to, 1, Min(ands) - 1)
<1>1. CASE goes = {}
  BY <1>1 DEF DestinationOnly
<1>2. CASE goes # {}
  <2>1. Len(text) \in Nat /\ Places(text, GO) \subseteq 1..Len(text)
    BY InsideWithin DEF AnyName
  <2>2. goes \subseteq Nat
    BY <2>1
  <2>3. Min(goes) \in goes
    BY <1>2, <2>2, LeastIsIn
  <2>4. \A k \in goes : k \in 1..(Len(text) - 1)
    BY <2>1
  <2>5. Min(goes) \in 1..(Len(text) - 1)
    BY <2>3, <2>4, Zenon
  <2>6. After(text, Min(goes)) \in Named
    BY <2>5, PartsNamed
  <2>7. to \in Named
    BY <2>6, CleanNamed
  <2> HIDE DEF to
  <2>8. to \in AnyName /\ Len(to) \in Nat /\ Places(to, AND_I) \subseteq 1..Len(to)
    BY <2>7, InsideWithin DEF Named, AnyName
  <2>9. end \in Named
    <3>1. CASE ands = {}
      BY <2>7, <3>1
    <3>2. CASE ands # {}
      <4>1. ands \subseteq Nat /\ \A k \in ands : k \in 2..(Len(to) + 1)
        BY <2>8
      <4>2. Min(ands) \in ands
        BY <3>2, <4>1, LeastIsIn
      <4>3. Min(ands) \in 2..(Len(to) + 1)
        BY <4>1, <4>2, Zenon
      <4>4. SubSeq(to, 1, Min(ands) - 1) \in Named
        BY <2>8, <4>3, PartsNamed
      <4> QED  BY <3>2, <4>4
    <3> QED  BY <3>1, <3>2
  <2>10. NoName \in AnyName
    BY DEF NoName, AnyName
  <2>11. Reading(NoName, end) \in Destined
    BY <2>9, <2>10, ReadingDestined
  <2>12. DestinationOnly(text) = {Reading(NoName, end)}
    BY <1>2 DEF DestinationOnly, to
  <2> QED  BY <2>11, <2>12
<1> QED  BY <1>1, <1>2

\* Whatever the words of a text, the rules read a destination in it.
THEOREM RulesFindADestination ==
  ASSUME NEW text \in Named
  PROVE  ExtractWithRules(text) \in Destined
<1> DEFINE P == Patterns(text)
           found == {k \in DOMAIN P : P[k] # {}}
<1>0. text \in AnyName /\ NoName \in AnyName /\ text # << >>
  BY DEF Named, NoName, AnyName
<1>1. /\ FromFirst(HalvesAfter(text, FROM, TO)) \subseteq Destined
      /\ ToFirst(OpenedHalves(text, TO)) \subseteq Destined
      /\ ToFirst(OpenedHalves(text, FROM)) \subseteq Destined
      /\ FromFirst(HalvesAfter(text, FROM_E, TO_E)) \subseteq Destined
      /\ ToFirst(HalvesAfter(text, TO_E, FROM_E)) \subseteq Destined
  BY <1>0, HalvedAfter, OpenedHalved, HalvesRead
<1>2. /\ Conversation(text) \subseteq Destined
      /\ DestinationOnly(text) \subseteq Destined
      /\ Reading(NoName, text) \in Destined
  BY <1>0, ConversationRead, DestinationRead, ReadingDestined
<1>3. DOMAIN P = 1..8 /\ P[8] # {} /\ \A k \in 1..8 : P[k] \subseteq Destined
  BY <1>1, <1>2 DEF Patterns
<1> HIDE DEF P
<1>4. found \subseteq Nat /\ found # {}
  BY <1>3
<1>5. Min(found) \in found
  BY <1>4, LeastIsIn
<1>6. P[Min(found)] # {} /\ P[Min(found)] \subseteq Destined
  BY <1>3, <1>5
<1>7. ExtractWithRules(text) = CHOOSE reading \in P[Min(found)] : TRUE
  BY <1>0 DEF ExtractWithRules, P
<1> QED  BY <1>6, <1>7

\* Only a text without words may be without a destination.
LEMMA DestinationOfText ==
  ASSUME NEW t \in Text
  PROVE  ExtractLocations(t) \in Destined \cup {NoReading}
<1>1. t \in AnyName /\ ModelReads[t] \in ReadingRecord
  BY TextAssumption DEF AnyName
<1>2. t # << >> => ExtractWithRules(t) \in Destined
  BY <1>1, RulesFindADestination DEF Named, NoName
<1>3. t = << >> => ExtractWithRules(t) = NoReading
  BY DEF ExtractWithRules
<1>4. ModelReads[t].to # NoName => Reading(ModelReads[t].from, ModelReads[t].to) \in Destined
  BY <1>1, ReadingDestined DEF ReadingRecord, Named
<1> QED  BY <1>2, <1>3, <1>4 DEF ExtractLocations

-----------------------------------------------------------------------------
(* What the texts of MeantByGoing and MeantFromTo are read as.              *)

\* The words of a part of a text.
LEMMA WordsOfPart ==
  ASSUME NEW text \in AnyName, NEW i \in 1..(Len(text) + 1), NEW j \in 0..Len(text), i <= j + 1
  PROVE  /\ SubSeq(text, i, j) \in AnyName /\ Len(SubSeq(text, i, j)) = j + 1 - i
         /\ \A k \in 1..(j + 1 - i) : SubSeq(text, i, j)[k] = text[i + k - 1]
  BY DEF AnyName

LEMMA SameText ==
  ASSUME NEW s \in AnyName, NEW t \in AnyName, Len(s) = Len(t), \A i \in 1..Len(s) : s[i] = t[i]
  PROVE  s = t
  BY SeqEqual DEF AnyName

LEMMA WordsAfter ==
  ASSUME NEW text \in AnyName, NEW j \in 0..Len(text)
  PROVE  /\ After(text, j) \in AnyName /\ Len(After(text, j)) = Len(text) - j
         /\ \A k \in 1..(Len(text) - j) : After(text, j)[k] = text[j + k]
<1>1. Len(text) \in Nat
  BY DEF AnyName
<1>2. /\ SubSeq(text, j + 1, Len(text)) \in AnyName
      /\ Len(SubSeq(text, j + 1, Len(text))) = Len(text) + 1 - (j + 1)
      /\ \A k \in 1..(Len(text) + 1 - (j + 1)) : SubSeq(text, j + 1, Len(text))[k] = text[j + 1 + k - 1]
  BY <1>1, WordsOfPart
<1>3. Len(text) + 1 - (j + 1) = Len(text) - j /\ \A k \in 1..(Len(text) - j) : j + 1 + k - 1 = j + k
  BY <1>1
<1> QED  BY <1>2, <1>3 DEF After

\* Parts of what is left of a text after its first words are parts of the text.
LEMMA PartOfPart ==
  ASSUME NEW text \in AnyName, NEW j \in 0..Len(text), NEW b \in 0..(Len(text) - j)
  PROVE  /\ SubSeq(After(text, j), 1, b) = SubSeq(text, j + 1, j + b)
         /\ After(After(text, j), b) = After(text, j + b)
<1>1. Len(text) \in Nat /\ j + b \in 0..Len(text)
  BY DEF AnyName
<1>2. /\ After(text, j) \in AnyName /\ Len(After(text, j)) = Len(text) - j
      /\ \A k \in 1..(Len(text) - j) : After(text, j)[k] = text[j + k]
  BY <1>1, WordsAfter
<1>3. /\ SubSeq(After(text, j), 1, b) \in AnyName /\ Len(SubSeq(After(text, j), 1, b)) = b
      /\ \A k \in 1..b : SubSeq(After(text, j), 1, b)[k] = text[j + k]
  <2> DEFINE rest == After(text, j)
  <2>1. rest \in AnyName /\ Len(rest) = Len(text) - j
    BY <1>2
  <2> HIDE DEF rest
  <2>2. /\ SubSeq(rest, 1, b) \in AnyName /\ Len(SubSeq(rest, 1, b)) = b
        /\ \A k \in 1..b : SubSeq(rest, 1, b)[k] = rest[k]
    BY <1>1, <2>1, WordsOfPart
  <2> QED  BY <1>1, <1>2, <2>2 DEF rest
<1>4. /\ SubSeq(text, j + 1, j + b) \in AnyName /\ Len(SubSeq(text, j + 1, j + b)) = b
      /\ \A k \in 1..b : SubSeq(text, j + 1, j + b)[k] = text[j + k]
  BY <1>1, WordsOfPart
<1>5. /\ After(After(text, j), b) \in AnyName /\ Len(After(After(text, j), b)) = Len(text) - (j + b)
      /\ \A k \in 1..(Len(text) - (j + b)) : After(After(text, j), b)[k] = text[j + b + k]
  <2>1. /\ After(After(text, j), b) \in AnyName
        /\ Len(After(After(text, j), b)) = Len(After(text, j)) - b
        /\ \A k \in 1..(Len(After(text, j)) - b) : After(After(text, j), b)[k] = After(text, j)[b + k]
    BY <1>1, <1>2, WordsAfter
  <2> QED  BY <1>1, <1>2, <2>1
<1>6. /\ After(text, j + b) \in AnyName /\ Len(After(text, j + b)) = Len(text) - (j + b)
      /\ \A k \in 1..(Len(text) - (j + b)) : After(text, j + b)[k] = text[j + b + k]
  BY <1>1, WordsAfter
<1>7. SubSeq(After(text, j), 1, b) = SubSeq(text, j + 1, j + b)
  BY <1>3, <1>4, SameText
<1>8. After(After(text, j), b) = After(text, j + b)
  BY <1>5, <1>6, SameText
<1> QED  BY <1>7, <1>8

LEMMA TailIsAfter ==
  ASSUME NEW text \in AnyName
  PROVE  /\ text # << >> => Len(text) > 0 /\ Tail(text) = After(text, 1) /\ Head(text) = text[1]
         /\ After(text, 0) = text
  BY DEF After, AnyName

\* The first occurrence of a separator, after the first word of a part, splits
\* the part there.
LEMMA FirstSeparator ==
  ASSUME NEW text \in AnyName, NEW sep, NEW s \in 1..Len(text), text[s] = sep,
         \A k \in 1..(s - 1) : text[k] # sep, NEW j \in 0..(s - 2), s < Len(text)
  PROVE  /\ Inside(After(text, j), sep) # {}
         /\ Halves(After(text, j), sep) = [before |-> SubSeq(text, j + 1, s - 1), after |-> After(text, s)]
<1> DEFINE rest == After(text, j)
           ins == Inside(rest, sep)
<1>1. Len(text) \in Nat /\ s \in 1..Len(text) /\ j \in 0..Len(text)
  BY DEF AnyName
<1>2. /\ rest \in AnyName /\ Len(rest) = Len(text) - j /\ DOMAIN rest = 1..(Len(text) - j)
      /\ \A k \in 1..(Len(text) - j) : rest[k] = text[j + k]
  <2>1. rest \in AnyName /\ Len(rest) = Len(text) - j
    BY <1>1, WordsOfPart DEF After
  <2>2. \A k \in 1..(Len(text) - j) : rest[k] = text[j + k]
    BY <1>1, WordsOfPart DEF After
  <2> QED  BY <2>1, <2>2 DEF AnyName
<1> HIDE DEF rest
<1>3. s - j \in ins
  <2>1. s - j \in 1..(Len(text) - j) /\ j + (s - j) = s /\ s - j > 1 /\ s - j < Len(text) - j
    BY <1>1
  <2> QED  BY <1>2, <2>1 DEF Inside, Places
<1>4. \A k \in ins : k \in Nat /\ k >= s - j
  <2> SUFFICES ASSUME NEW k \in ins, k < s - j PROVE FALSE
    BY <1>1, <1>2 DEF Inside, Places
  <2>1. k \in 1..(Len(text) - j) /\ rest[k] = sep
    BY <1>2 DEF Inside, Places
  <2>2. j + k \in 1..(s - 1) /\ text[j + k] = sep
    BY <1>1, <1>2, <2>1
  <2> QED  BY <2>2
<1>5. Min(ins) = s - j
  <2> HIDE DEF ins
  <2>1. ins \subseteq Nat /\ ins # {}
    BY <1>3, <1>4
  <2>2. Min(ins) \in ins /\ Min(ins) <= s - j
    BY <1>3, <2>1, LeastIsIn
  <2> QED  BY <1>1, <1>4, <2>2
<1>6. Halves(rest, sep) = [before |-> SubSeq(rest, 1, s - j - 1), after |-> After(rest, s - j)]
  BY <1>5 DEF Halves
<1>7. s - j - 1 \in 0..(Len(text) - j) /\ s - j \in 0..(Len(text) - j) /\ j + (s - j - 1) = s - 1
      /\ j + (s - j) = s
  BY <1>1
<1>8. SubSeq(rest, 1, s - j - 1) = SubSeq(text, j + 1, s - 1) /\ After(rest, s - j) = After(text, s)
  BY <1>1, <1>7, PartOfPart DEF rest
<1> QED  BY <1>3, <1>6, <1>8 DEF rest

\* One that occurs once is found once.
LEMMA OneSeparator ==
  ASSUME NEW text \in AnyName, NEW sep, NEW s \in 1..Len(text), Places(text, sep) = {s},
         NEW j \in 0..(s - 2), s < Len(text)
  PROVE  Inside(After(text, j), sep) = {s - j}
<1> DEFINE rest == After(text, j)
<1>1. Len(text) \in Nat /\ s \in 1..Len(text) /\ j \in 0..Len(text)
      /\ \A k \in 1..Len(text) : text[k] = sep <=> k = s
  BY DEF AnyName, Places
<1>2. /\ rest \in AnyName /\ Len(rest) = Len(text) - j /\ DOMAIN rest = 1..(Len(text) - j)
      /\ \A k \in 1..(Len(text) - j) : rest[k] = text[j + k]
  <2>1. rest \in AnyName /\ Len(rest) = Len(text) - j
    BY <1>1, WordsOfPart DEF After
  <2>2. \A k \in 1..(Len(text) - j) : rest[k] = text[j + k]
    BY <1>1, WordsOfPart DEF After
  <2> QED  BY <2>1, <2>2 DEF AnyName
<1> HIDE DEF rest
<1>3. Inside(rest, sep) = {s - j}
  BY <1>1, <1>2 DEF Inside, Places
<1> QED  BY <1>3 DEF rest

LEMMA NoSeparator ==
  ASSUME NEW text \in AnyName, NEW sep, Places(text, sep) = {}
  PROVE  /\ \A j \in 0..Len(text) : Places(After(text, j), sep) = {} /\ Inside(After(text, j), sep) = {}
<1> SUFFICES ASSUME NEW j \in 0..Len(text) PROVE Places(After(text, j), sep) = {}
  BY DEF Inside
<1>1. Len(text) \in Nat /\ \A k \in 1..Len(text) : text[k] # sep
  BY DEF AnyName, Places
<1>2. After(text, j) \in AnyName /\ Len(After(text, j)) = Len(text) - j
  BY <1>1, WordsOfPart DEF After
<1>3. \A k \in 1..(Len(text) - j) : After(text, j)[k] = text[j + k]
  BY <1>1, WordsOfPart DEF After
<1>4. DOMAIN After(text, j) = 1..(Len(text) - j)
  BY <1>2 DEF AnyName
<1> QED  BY <1>1, <1>3, <1>4 DEF Places

\* What is dropped for please, and what is left.
LEMMA PoliteEnd ==
  ASSUME NEW t \in AnyName
  PROVE  LET n == Politeness(t) IN
         /\ n \in Nat /\ n <= Len(t) /\ (t # << >> => n < Len(t))
         /\ DropPlease(t) \in AnyName /\ Len(DropPlease(t)) = Len(t) - n
         /\ \A k \in 1..(Len(t) - n) : DropPlease(t)[k] = t[k]
         /\ \A k \in (Len(t) - n + 1)..Len(t) :
              /\ t[k] \in {PLEASE, FROM, KINDLY}
              /\ t[Len(t)] # KINDLY => t[k] = PLEASE
<1> DEFINE n == Politeness(t)
<1>1. Len(t) \in Nat /\ (t # << >> => Len(t) > 0) /\ Last(t) = t[Len(t)]
  BY TailIsAfter DEF AnyName, Last
<1>2. /\ n \in 0..2 /\ n <= Len(t) /\ (Len(t) > 0 => n < Len(t))
      /\ n = 1 => t[Len(t)] = PLEASE
      /\ n = 2 => t[Len(t)] = KINDLY /\ t[Len(t) - 1] = FROM
  BY <1>1 DEF Politeness
<1> HIDE DEF n
<1>3. \A k \in (Len(t) - n + 1)..Len(t) :
        (n = 1 /\ k = Len(t)) \/ (n = 2 /\ (k = Len(t) \/ k = Len(t) - 1))
  BY <1>1, <1>2
<1>4. \A k \in (Len(t) - n + 1)..Len(t) :
        /\ t[k] \in {PLEASE, FROM, KINDLY}
        /\ t[Len(t)] # KINDLY => t[k] = PLEASE
  BY <1>2, <1>3
<1>5. /\ SubSeq(t, 1, Len(t) - n) \in AnyName /\ Len(SubSeq(t, 1, Len(t) - n)) = Len(t) - n
      /\ \A k \in 1..(Len(t) - n) : SubSeq(t, 1, Len(t) - n)[k] = t[k]
  <2> DEFINE m == Len(t) - n
  <2>1. 1 \in 1..(Len(t) + 1) /\ m \in 0..Len(t) /\ 1 <= m + 1
    BY <1>1, <1>2
  <2> HIDE DEF m
  <2>2. /\ SubSeq(t, 1, m) \in AnyName /\ Len(SubSeq(t, 1, m)) = m + 1 - 1
        /\ \A k \in 1..(m + 1 - 1) : SubSeq(t, 1, m)[k] = t[1 + k - 1]
    BY <2>1, WordsOfPart
  <2>3. m + 1 - 1 = m /\ \A k \in 1..m : 1 + k - 1 = k
    BY <1>1, <2>1
  <2>4. /\ SubSeq(t, 1, m) \in AnyName /\ Len(SubSeq(t, 1, m)) = m
        /\ \A k \in 1..m : SubSeq(t, 1, m)[k] = t[k]
    BY <2>2, <2>3
  <2> QED  BY <2>4 DEF m
<1>6. DropPlease(t) = SubSeq(t, 1, Len(t) - n)
  BY DEF DropPlease, n
<1>7. n \in Nat
  BY <1>2
<1> QED  BY <1>1, <1>2, <1>4, <1>5, <1>6, <1>7 DEF n

LEMMA NameWords ==
  ASSUME NEW t \in AnyName, IsName(t)
  PROVE  Len(t) > 0 /\ \A k \in 1..Len(t) : t[k] \notin Keywords
  BY DEF AnyName, IsName, ToSet

\* The words of a name that may be followed by please.
LEMMA PoliteWords ==
  ASSUME NEW t \in AnyName, IsName(DropPlease(t))
  PROVE  /\ Len(t) > 0 /\ t[1] \notin Keywords
         /\ \A k \in 1..Len(t) :
              /\ t[k] \notin Keywords \ {PLEASE, FROM, KINDLY}
              /\ t[Len(t)] # KINDLY => t[k] \notin Keywords \ {PLEASE}
<1> DEFINE n == Politeness(t)
           u == DropPlease(t)
<1>1. /\ Len(t) \in Nat /\ n \in Nat /\ n <= Len(t)
      /\ u \in AnyName /\ Len(u) = Len(t) - n
      /\ \A k \in 1..(Len(t) - n) : u[k] = t[k]
      /\ \A k \in (Len(t) - n + 1)..Len(t) :
           t[k] \in {PLEASE, FROM, KINDLY} /\ (t[Len(t)] # KINDLY => t[k] = PLEASE)
  <2>1. Len(t) \in Nat
    BY DEF AnyName
  <2> QED  BY <2>1, PoliteEnd
<1>2. Len(u) > 0 /\ \A k \in 1..Len(u) : u[k] \notin Keywords
  <2> HIDE DEF u
  <2>1. u \in AnyName /\ IsName(u)
    BY <1>1 DEF u
  <2> QED  BY <2>1, NameWords
<1> HIDE DEF n, u
<1>3. \A k \in 1..(Len(t) - n) : t[k] \notin Keywords
  BY <1>1, <1>2
<1>4. \A k \in 1..Len(t) : k \in 1..(Len(t) - n) \/ k \in (Len(t) - n + 1)..Len(t)
  BY <1>1
<1>5. Len(t) > 0 /\ 1 \in 1..(Len(t) - n)
  BY <1>1, <1>2
<1> QED  BY <1>1, <1>3, <1>4, <1>5

\* A name, with or without words for please at its end, is cleaned of those
\* and of nothing else.
LEMMA CleanPolite ==
  ASSUME NEW t \in AnyName, IsName(DropPlease(t))
  PROVE  Clean(t) = DropPlease(t)
<1>1. /\ Len(t) > 0 /\ t[1] \notin Keywords
      /\ \A k \in 1..Len(t) : t[k] \notin Keywords \ {PLEASE, FROM, KINDLY}
  BY PoliteWords
<1>2. Head(t) = t[1] /\ DOMAIN t = 1..Len(t)
  <2>1. t # << >>
    BY <1>1
  <2> QED  BY <2>1, TailIsAfter DEF AnyName
<1>3. \A words : words \subseteq Openings \cup {PLEASE} => DropFirst(t, words) = t
  BY <1>1, <1>2 DEF DropFirst, Keywords
<1>4. DropHome(t) = t
  <2>1. \A k \in 1..Len(t) : t[k] # HOME
    BY <1>1 DEF Keywords, HOME, PLEASE, FROM, KINDLY
  <2> QED  BY <1>2, <2>1 DEF DropHome, Places
<1> QED  BY <1>3, <1>4 DEF Clean, Openings

LEMMA CleanName ==
  ASSUME NEW t \in AnyName, IsName(t)
  PROVE  Clean(t) = t /\ DropPlease(t) = t
<1>1. Len(t) \in Nat /\ Len(t) > 0 /\ t[Len(t)] \notin Keywords
  <2>1. Len(t) \in Nat /\ Len(t) > 0 /\ \A k \in 1..Len(t) : t[k] \notin Keywords
    BY NameWords DEF AnyName
  <2> QED  BY <2>1
<1>2. Politeness(t) = 0
  BY <1>1 DEF Politeness, Last, Keywords
<1>3. DropPlease(t) = t
  <2>1. /\ DropPlease(t) \in AnyName /\ Len(DropPlease(t)) = Len(t)
        /\ \A k \in 1..Len(t) : DropPlease(t)[k] = t[k]
    <3>1. Len(t) - 0 = Len(t)
      BY <1>1
    <3> QED  BY <1>2, <3>1, PoliteEnd
  <2> QED  BY <2>1, SameText
<1> QED  BY <1>3, CleanPolite

\* What the openings leave of a text that begins with one word of them.
LEMMA RestsKept ==
  ASSUME NEW text \in AnyName, text # << >>, text[1] \in {GO, WANT} \cup Asides
  PROVE  /\ \A k \in 1..4 : \E j \in 0..Len(text) : Rests(text)[k] = After(text, j)
         /\ text[1] \in Asides => Rests(text)[1] = After(text, 0)
         /\ text[1] = GO => Rests(text)[1] = After(text, 1)
         /\ text[1] = WANT /\ Len(text) > 1 /\ text[2] = GO => Rests(text)[1] = After(text, 2)
<1>1. Len(text) \in Nat /\ Len(text) > 0 /\ Tail(text) = After(text, 1) /\ Head(text) = text[1]
      /\ After(text, 0) = text
  BY TailIsAfter DEF AnyName
<1>2. /\ text[1] = WANT => DropWant(text) = After(text, 1)
      /\ text[1] # WANT => DropWant(text) = After(text, 0)
  BY <1>1 DEF DropWant, Asides, GO, WANT, WANT_F, ASK, HOW, PLEASE
<1>3. ASSUME NEW i \in 0..1
      PROVE  /\ \E j \in 0..Len(text) : DropGo(After(text, i)) = After(text, j)
             /\ i < Len(text) /\ text[i + 1] = GO => DropGo(After(text, i)) = After(text, i + 1)
             /\ i < Len(text) /\ text[i + 1] # GO => DropGo(After(text, i)) = After(text, i)
  <2> DEFINE rest == After(text, i)
  <2>0. i \in 0..Len(text)
    BY <1>1
  <2>1. /\ rest \in AnyName /\ Len(rest) = Len(text) - i
        /\ \A k \in 1..(Len(text) - i) : rest[k] = text[i + k]
    BY <2>0, WordsAfter
  <2>2. rest # << >> => Len(rest) > 0 /\ Tail(rest) = After(rest, 1) /\ Head(rest) = rest[1]
    BY <2>1, TailIsAfter
  <2>3. i < Len(text) => After(rest, 1) = After(text, i + 1)
    <3>1. ASSUME i < Len(text) PROVE 1 \in 0..(Len(text) - i)
      BY <1>1, <3>1
    <3> QED  BY <2>0, <3>1, PartOfPart
  <2> HIDE DEF rest
  <2>4. i < Len(text) => rest # << >> /\ rest[1] = text[i + 1]
    BY <1>1, <2>1
  <2>5. i = Len(text) => rest = << >>
    BY <2>1 DEF AnyName
  <2>6. /\ i < Len(text) /\ text[i + 1] = GO => DropGo(rest) = After(text, i + 1)
        /\ i < Len(text) /\ text[i + 1] # GO => DropGo(rest) = rest
        /\ i = Len(text) => DropGo(rest) = rest
    BY <2>2, <2>3, <2>4, <2>5 DEF DropGo
  <2>7. i < Len(text) \/ i = Len(text)
    BY <2>0, <1>1
  <2>8. i < Len(text) => i + 1 \in 0..Len(text)
    BY <1>1
  <2> QED  BY <2>0, <2>6, <2>7, <2>8 DEF rest
<1>4. /\ Rests(text)[1] = DropGo(DropWant(text)) /\ Rests(text)[2] = DropWant(text)
      /\ Rests(text)[3] = DropGo(text) /\ Rests(text)[4] = text
  BY DEF Rests
<1>5. \E i \in 0..1 : DropWant(text) = After(text, i)
  BY <1>2
<1>6. text = After(text, 0) /\ 0 \in 0..1 /\ 1 \in 0..1 /\ 0 \in 0..Len(text) /\ 1 \in 0..Len(text)
  BY <1>1
<1>7. \A k \in 1..4 : \E j \in 0..Len(text) : Rests(text)[k] = After(text, j)
  <2>1. \E j \in 0..Len(text) : DropGo(DropWant(text)) = After(text, j)
    BY <1>3, <1>5
  <2>2. \E j \in 0..Len(text) : DropGo(text) = After(text, j)
    BY <1>3, <1>6
  <2>3. \E j \in 0..Len(text) : DropWant(text) = After(text, j)
    BY <1>2, <1>6
  <2>4. \A k \in 1..4 : k = 1 \/ k = 2 \/ k = 3 \/ k = 4
    OBVIOUS
  <2> QED  BY <1>4, <1>6, <2>1, <2>2, <2>3, <2>4
<1>8. DropGo(After(text, 0)) = IF text[1] = GO THEN After(text, 1) ELSE After(text, 0)
  <2>1. 0 < Len(text) /\ 0 + 1 = 1
    BY <1>1
  <2> QED  BY <1>3, <1>6, <2>1
<1>9. Len(text) > 1 /\ text[2] = GO => DropGo(After(text, 1)) = After(text, 2)
  <2>1. Len(text) > 1 => 1 < Len(text) /\ 1 + 1 = 2
    BY <1>1
  <2> QED  BY <1>3, <1>6, <2>1
<1> QED  BY <1>2, <1>4, <1>7, <1>8, <1>9 DEF GO, WANT, Asides, ASK, HOW, PLEASE

LEMMA NothingAround ==
  ASSUME NEW text \in AnyName, text # << >>, text[1] \in {GO, WANT} \cup Asides,
         NEW sep, Places(text, sep) = {}
  PROVE  OpenedHalves(text, sep) = {}
<1>1. ASSUME NEW k \in 1..4 PROVE Inside(Rests(text)[k], sep) = {}
  BY RestsKept, NoSeparator
<1> QED  BY <1>1 DEF OpenedHalves

\* The expressions that begin with a separator find nothing in a text that
\* begins with an opening.
LEMMA NothingAfter ==
  ASSUME NEW text \in AnyName, text # << >>, text[1] \in {GO, WANT} \cup Asides
  PROVE  /\ HalvesAfter(text, FROM, TO) = {} /\ HalvesAfter(text, FROM_E, TO_E) = {}
         /\ HalvesAfter(text, TO_E, FROM_E) = {}
<1>1. Head(text) = text[1]
  BY TailIsAfter
<1> QED  BY <1>1 DEF HalvesAfter, GO, WANT, Asides, ASK, HOW, PLEASE, FROM, FROM_E, TO_E

\* The first expression that finds a reading gives the reading.
LEMMA FirstDecides ==
  ASSUME NEW text, text # << >>, NEW k \in 1..8, NEW reading,
         \A i \in 1..8 : i < k => Patterns(text)[i] = {}, Patterns(text)[k] = {reading}
  PROVE  ExtractWithRules(text) = reading
<1> DEFINE P == Patterns(text)
           found == {i \in DOMAIN P : P[i] # {}}
<1>1. DOMAIN P = 1..8
  BY DEF Patterns
<1> HIDE DEF P
<1>2. k \in found /\ \A i \in found : i \in 1..8 /\ ~(i < k)
  BY <1>1 DEF P
<1>3. found \subseteq Nat /\ found # {}
  BY <1>2
<1>4. Min(found) \in found /\ Min(found) <= k
  BY <1>2, <1>3, LeastIsIn
<1> DEFINE m == Min(found)
<1>5. m \in found /\ m <= k
  BY <1>4
<1> HIDE DEF found
<1> HIDE DEF m
<1>6. m = k
  BY <1>2, <1>5
<1>7. ExtractWithRules(text) = CHOOSE r \in {reading} : TRUE
  BY <1>6 DEF ExtractWithRules, P, found, m
<1>8. (CHOOSE r \in {reading} : TRUE) = reading
  OBVIOUS
<1> QED  BY <1>7, <1>8

LEMMA WordsBetween ==
  ASSUME NEW text \in AnyName, NEW i \in 0..Len(text), NEW j \in 1..(Len(text) + 1), i < j,
         IsName(Between(text, i, j))
  PROVE  /\ i + 1 < j /\ Between(text, i, j) \in AnyName
         /\ \A k \in (i + 1)..(j - 1) : text[k] \notin Keywords
<1>1. Len(text) \in Nat
  BY DEF AnyName
<1> DEFINE t == SubSeq(text, i + 1, j - 1)
<1>2. t \in AnyName /\ Len(t) = j - 1 - i /\ \A k \in 1..(j - 1 - i) : t[k] = text[i + k]
  <2>1. i + 1 \in 1..(Len(text) + 1) /\ j - 1 \in 0..Len(text) /\ i + 1 <= j - 1 + 1
    BY <1>1
  <2>2. /\ t \in AnyName /\ Len(t) = j - 1 + 1 - (i + 1)
        /\ \A k \in 1..(j - 1 + 1 - (i + 1)) : t[k] = text[i + 1 + k - 1]
    BY <2>1, WordsOfPart
  <2>3. j - 1 + 1 - (i + 1) = j - 1 - i /\ \A k \in 1..(j - 1 - i) : i + 1 + k - 1 = i + k
    BY <1>1
  <2> QED  BY <2>2, <2>3
<1>3. Between(text, i, j) = t
  BY DEF Between
<1> HIDE DEF t
<1>4. Len(t) > 0 /\ \A k \in 1..Len(t) : t[k] \notin Keywords
  BY <1>2, <1>3, NameWords
<1>5. ASSUME NEW k \in (i + 1)..(j - 1) PROVE text[k] \notin Keywords
  <2>1. k - i \in 1..(j - 1 - i) /\ i + (k - i) = k
    BY <1>1
  <2> QED  BY <1>2, <1>4, <2>1
<1> QED  BY <1>1, <1>2, <1>3, <1>4, <1>5

LEMMA WordsBehind ==
  ASSUME NEW text \in AnyName, NEW s \in 1..Len(text), IsName(DropPlease(After(text, s)))
  PROVE  /\ s < Len(text) /\ After(text, s) \in AnyName
         /\ \A k \in (s + 1)..Len(text) :
              /\ text[k] \notin Keywords \ {PLEASE, FROM, KINDLY}
              /\ text[Len(text)] # KINDLY => text[k] \notin Keywords \ {PLEASE}
<1> DEFINE rest == After(text, s)
<1>1. Len(text) \in Nat /\ s \in 0..Len(text)
  BY DEF AnyName
<1>2. /\ rest \in AnyName /\ Len(rest) = Len(text) - s
      /\ \A k \in 1..(Len(text) - s) : rest[k] = text[s + k]
  BY <1>1, WordsAfter
<1>3. IsName(DropPlease(rest))
  OBVIOUS
<1> HIDE DEF rest
<1>4. /\ Len(rest) > 0
      /\ \A k \in 1..Len(rest) :
           /\ rest[k] \notin Keywords \ {PLEASE, FROM, KINDLY}
           /\ rest[Len(rest)] # KINDLY => rest[k] \notin Keywords \ {PLEASE}
  BY <1>2, <1>3, PoliteWords
<1>5. rest[Len(rest)] = text[Len(text)]
  <2>1. Len(text) - s \in 1..(Len(text) - s) /\ s + (Len(text) - s) = Len(text)
    BY <1>1, <1>2, <1>4
  <2> QED  BY <1>2, <2>1
<1>6. ASSUME NEW k \in (s + 1)..Len(text)
      PROVE  /\ text[k] \notin Keywords \ {PLEASE, FROM, KINDLY}
             /\ text[Len(text)] # KINDLY => text[k] \notin Keywords \ {PLEASE}
  <2>1. k - s \in 1..(Len(text) - s) /\ s + (k - s) = k
    BY <1>1
  <2> QED  BY <1>2, <1>4, <1>5, <2>1
<1>7. s < Len(text)
  BY <1>1, <1>2, <1>4
<1> QED  BY <1>2, <1>6, <1>7 DEF rest

LEMMA OpenedFirst ==
  ASSUME NEW text, NEW sep, Inside(Rests(text)[1], sep) # {}
  PROVE  OpenedHalves(text, sep) = {Halves(Rests(text)[1], sep)}
<1> DEFINE fits == {k \in 1..4 : Inside(Rests(text)[k], sep) # {}}
<1>1. 1 \in fits /\ fits \subseteq Nat /\ \A k \in fits : k >= 1
  OBVIOUS
<1> HIDE DEF fits
<1>2. Min(fits) \in fits /\ Min(fits) <= 1
  BY <1>1, LeastIsIn
<1> DEFINE m == Min(fits)
<1>3. m \in fits /\ m <= 1
  BY <1>2
<1> HIDE DEF m
<1>4. m = 1
  BY <1>1, <1>3
<1> QED  BY <1>1, <1>4 DEF OpenedHalves, fits, m

\* An opening and the word for going are cleaned away before a name.
LEMMA CleanAsked ==
  ASSUME NEW text \in AnyName, NEW s \in 3..Len(text), text[1] \in Asides, text[2] = GO,
         IsName(Between(text, 2, s))
  PROVE  Clean(SubSeq(text, 1, s - 1)) = Between(text, 2, s)
<1> DEFINE t == SubSeq(text, 1, s - 1)
           u == After(t, 1)
           v == After(u, 1)
           name == Between(text, 2, s)
<1>1. Len(text) \in Nat
  BY DEF AnyName
<1>2. s > 3 /\ name \in AnyName /\ \A k \in 3..(s - 1) : text[k] \notin Keywords
  BY <1>1, WordsBetween
<1>3. t \in AnyName /\ Len(t) = s - 1 /\ \A k \in 1..(s - 1) : t[k] = text[k]
  <2>1. 1 \in 1..(Len(text) + 1) /\ s - 1 \in 0..Len(text)
    BY <1>1
  <2>2. /\ t \in AnyName /\ Len(t) = s - 1 + 1 - 1
        /\ \A k \in 1..(s - 1 + 1 - 1) : t[k] = text[1 + k - 1]
    BY <2>1, WordsOfPart
  <2> QED  BY <2>2
<1> HIDE DEF t
<1>4. u \in AnyName /\ Len(u) = s - 2 /\ \A k \in 1..(s - 2) : u[k] = text[1 + k]
  <2>1. 1 \in 0..Len(t)
    BY <1>2, <1>3
  <2>2. u \in AnyName /\ Len(u) = Len(t) - 1 /\ \A k \in 1..(Len(t) - 1) : u[k] = t[1 + k]
    BY <1>3, <2>1, WordsAfter
  <2> QED  BY <1>2, <1>3, <2>2
<1>5. Tail(t) = u /\ Head(t) \in Asides /\ Len(t) > 1
  <2>1. t # << >>
    BY <1>2, <1>3
  <2>2. Tail(t) = After(t, 1) /\ Head(t) = t[1]
    BY <1>3, <2>1, TailIsAfter
  <2> QED  BY <1>2, <1>3, <2>2
<1> HIDE DEF u
<1>6. v \in AnyName /\ Len(v) = s - 3 /\ \A k \in 1..(s - 3) : v[k] = text[2 + k]
  <2>1. 1 \in 0..Len(u)
    BY <1>2, <1>4
  <2>2. v \in AnyName /\ Len(v) = Len(u) - 1 /\ \A k \in 1..(Len(u) - 1) : v[k] = u[1 + k]
    BY <1>4, <2>1, WordsAfter
  <2> QED  BY <1>2, <1>4, <2>2
<1>7. Tail(u) = v /\ Head(u) = GO /\ Len(u) > 1
  <2>1. u # << >>
    BY <1>2, <1>4
  <2>2. Tail(u) = After(u, 1) /\ Head(u) = u[1]
    BY <1>4, <2>1, TailIsAfter
  <2> QED  BY <1>2, <1>4, <2>2
<1> HIDE DEF v
<1>8. v = name
  <2>1. /\ 3 \in 1..(Len(text) + 1) /\ s - 1 \in 0..Len(text) /\ 2 + 1 = 3 /\ 3 <= s - 1 + 1
    BY <1>1
  <2>2. /\ Len(SubSeq(text, 3, s - 1)) = s - 1 + 1 - 3
        /\ \A k \in 1..(s - 1 + 1 - 3) : SubSeq(text, 3, s - 1)[k] = text[3 + k - 1]
    BY <2>1, WordsOfPart
  <2>3. name = SubSeq(text, 3, s - 1)
    BY <2>1 DEF Between
  <2> HIDE DEF name
  <2>4. Len(name) = s - 3 /\ \A k \in 1..(s - 3) : name[k] = text[2 + k]
    BY <1>2, <2>2, <2>3
  <2> QED  BY <1>2, <1>6, <2>4, SameText
<1>9. DropFirst(t, Openings \cup {PLEASE}) = u
  BY <1>5 DEF DropFirst, Openings, Asides
<1>10. DropHome(u) = u
  <2>1. ASSUME NEW k \in 1..(s - 2) PROVE u[k] # HOME
    <3>1. CASE k = 1
      BY <1>4, <3>1 DEF GO, HOME
    <3>2. CASE k > 1
      BY <1>2, <1>4, <3>2 DEF Keywords
    <3> QED  BY <3>1, <3>2
  <2>2. DOMAIN u = 1..(s - 2)
    BY <1>4 DEF AnyName
  <2> QED  BY <2>1, <2>2 DEF DropHome, Places
<1>11. DropFirst(u, {GO}) = v
  BY <1>7 DEF DropFirst
<1>12. DropPlease(v) = v
  BY <1>2, <1>8, CleanName
<1> QED  BY <1>8, <1>9, <1>10, <1>11, <1>12 DEF Clean, t

\* The position of the word for going, after at most one opening.
IsOpening(text, g) ==
  /\ g \in 1..2 /\ g <= Len(text) /\ text[g] = GO
  /\ g = 2 => text[1] \in {WANT} \cup Asides

LEMMA ReadHalves ==
  ASSUME NEW before, NEW after
  PROVE  /\ ToFirst({[before |-> before, after |-> after]}) = {Reading(Clean(after), Clean(before))}
         /\ FromFirst({[before |-> before, after |-> after]}) = {Reading(Clean(before), Clean(after))}
<1> DEFINE h == [before |-> before, after |-> after]
<1>1. h.before = before /\ h.after = after
  OBVIOUS
<1> HIDE DEF h
<1>2. /\ ToFirst({h}) = {Reading(Clean(h.after), Clean(h.before))}
      /\ FromFirst({h}) = {Reading(Clean(h.before), Clean(h.after))}
  BY Zenon DEF ToFirst, FromFirst
<1> QED  BY <1>1, <1>2 DEF h

\* "[<opening>] go <to> from <from> [please]"
LEMMA GoingFromRead ==
  ASSUME NEW text \in AnyName, NEW g, IsOpening(text, g),
         NEW s \in 1..Len(text), text[s] = FROM, g < s,
         IsName(Between(text, g, s)), IsName(DropPlease(After(text, s)))
  PROVE  ExtractWithRules(text) = Reading(DropPlease(After(text, s)), Between(text, g, s))
<1> DEFINE j == IF text[1] \in Asides THEN 0 ELSE g
<1>1. Len(text) \in Nat /\ text # << >> /\ g \in 0..Len(text) /\ g \in 1..2 /\ s \in 1..(Len(text) + 1)
  BY DEF AnyName, IsOpening
<1>2. /\ g + 1 < s /\ Between(text, g, s) \in AnyName
      /\ \A k \in (g + 1)..(s - 1) : text[k] \notin Keywords
  BY <1>1, WordsBetween
<1>3. /\ s < Len(text) /\ After(text, s) \in AnyName
      /\ \A k \in (s + 1)..Len(text) : text[k] \notin Keywords \ {PLEASE, FROM, KINDLY}
  BY WordsBehind
<1>4. \A k \in 1..g : text[k] \in {GO, WANT} \cup Asides
  BY <1>1 DEF IsOpening
<1>5. /\ \A k \in 1..Len(text) : k # s => text[k] # TO
      /\ \A k \in 1..(s - 1) : text[k] # FROM
  <2>1. \A k \in 1..Len(text) : k # s =>
          k \in 1..g \/ k \in (g + 1)..(s - 1) \/ (k > s /\ k \in (s + 1)..Len(text))
    BY <1>1
  <2>2. \A k \in 1..(s - 1) : k \in 1..g \/ k \in (g + 1)..(s - 1)
    BY <1>1
  <2>3. TO \in Keywords \ {PLEASE, FROM, KINDLY} /\ FROM \in Keywords
        /\ {TO, FROM} \cap ({GO, WANT} \cup Asides) = {}
    BY DEF Keywords, Asides, TO, FROM, PLEASE, KINDLY, GO, WANT, ASK, HOW
  <2> QED  BY <1>2, <1>3, <1>4, <2>1, <2>2, <2>3
<1>6. Places(text, TO) = {}
  BY <1>5 DEF Places, AnyName, FROM, TO
<1>7. text[1] \in {GO, WANT} \cup Asides
  BY <1>1, <1>4
<1>8. Rests(text)[1] = After(text, j)
  <2>1. (g = 1 /\ text[1] = GO) \/ (g = 2 /\ text[2] = GO /\ text[1] \in {WANT} \cup Asides)
    BY <1>1 DEF IsOpening
  <2>2. /\ text[1] \in Asides => Rests(text)[1] = After(text, 0)
        /\ text[1] = GO => Rests(text)[1] = After(text, 1)
        /\ text[1] = WANT /\ Len(text) > 1 /\ text[2] = GO => Rests(text)[1] = After(text, 2)
    BY <1>1, <1>7, RestsKept
  <2>3. GO \notin Asides /\ WANT \notin Asides
    BY DEF GO, WANT, Asides, ASK, HOW, PLEASE
  <2>4. Len(text) > 1
    BY <1>1, <1>3
  <2> QED  BY <2>1, <2>2, <2>3, <2>4
<1>9. j \in 0..(s - 2) /\ (j = g \/ (j = 0 /\ text[1] \in Asides))
  BY <1>1, <1>2
<1> HIDE DEF j
<1>10. /\ Inside(After(text, j), FROM) # {}
       /\ Halves(After(text, j), FROM) = [before |-> SubSeq(text, j + 1, s - 1), after |-> After(text, s)]
  BY <1>3, <1>5, <1>9, FirstSeparator
<1>11. OpenedHalves(text, FROM) = {[before |-> SubSeq(text, j + 1, s - 1), after |-> After(text, s)]}
  BY <1>8, <1>10, OpenedFirst
<1>12. Clean(SubSeq(text, j + 1, s - 1)) = Between(text, g, s)
  <2>1. CASE j = g
    <3>1. SubSeq(text, j + 1, s - 1) = Between(text, g, s)
      BY <2>1 DEF Between
    <3> QED  BY <1>2, <3>1, CleanName
  <2>2. CASE j = 0 /\ text[1] \in Asides
    <3>1. g = 2 /\ text[2] = GO
      <4>1. (g = 1 /\ text[1] = GO) \/ (g = 2 /\ text[2] = GO)
        BY <1>1 DEF IsOpening
      <4>2. GO \notin Asides
        BY DEF GO, Asides, ASK, HOW, PLEASE
      <4> QED  BY <2>2, <4>1, <4>2
    <3>2. s \in 3..Len(text) /\ 0 + 1 = 1
      BY <1>1, <1>2, <3>1
    <3> QED  BY <2>2, <3>1, <3>2, CleanAsked
  <2> QED  BY <1>9, <2>1, <2>2
<1>13. Clean(After(text, s)) = DropPlease(After(text, s))
  BY <1>3, CleanPolite
<1>14. ToFirst(OpenedHalves(text, FROM)) = {Reading(DropPlease(After(text, s)), Between(text, g, s))}
  BY <1>11, <1>12, <1>13, ReadHalves
<1>15. FromFirst(HalvesAfter(text, FROM, TO)) = {} /\ ToFirst(OpenedHalves(text, TO)) = {}
  <2>1. HalvesAfter(text, FROM, TO) = {} /\ OpenedHalves(text, TO) = {}
    BY <1>1, <1>6, <1>7, NothingAfter, NothingAround
  <2> QED  BY <2>1 DEF FromFirst, ToFirst
<1>16. /\ Patterns(text)[1] = {} /\ Patterns(text)[2] = {}
       /\ Patterns(text)[3] = {Reading(DropPlease(After(text, s)), Between(text, g, s))}
  BY <1>14, <1>15 DEF Patterns
<1>17. 3 \in 1..8 /\ \A i \in 1..8 : i < 3 => Patterns(text)[i] = {}
  <2>1. \A i \in 1..8 : i < 3 => i = 1 \/ i = 2
    OBVIOUS
  <2> QED  BY <1>16, <2>1
<1> QED  BY <1>1, <1>16, <1>17, FirstDecides

LEMMA SplitBefore ==
  ASSUME NEW text \in AnyName, NEW sep, NEW g \in Int, NEW s \in Int, Places(text, sep) = {s - 1},
         g \in 0..(s - 1 - 2), s - 1 \in 1..Len(text), s - 1 < Len(text)
  PROVE  Inside(After(text, g), sep) = {s - 1 - g}
<1>1. ASSUME NEW q \in 1..Len(text), NEW j \in 0..(q - 2), Places(text, sep) = {q}, q < Len(text)
      PROVE  Inside(After(text, j), sep) = {q - j}
  BY <1>1, OneSeparator
<1>2. PICK q \in Int : q = s - 1
  OBVIOUS
<1> QED  BY <1>1, <1>2

\* "[<opening>] go <to> and I am in <from> [please]"
LEMMA ConversationIsRead ==
  ASSUME NEW text \in AnyName, NEW g, IsOpening(text, g),
         NEW s \in 1..Len(text), text[s] = AT, text[s - 1] = AND_I, g < s,
         IsName(Between(text, g, s - 1)), IsName(DropPlease(After(text, s))),
         Last(text) # KINDLY
  PROVE  ExtractWithRules(text) = Reading(DropPlease(After(text, s)), Between(text, g, s - 1))
<1> DEFINE rest == After(text, g)
           k == s - 1 - g
<1>1. Len(text) \in Nat /\ text # << >> /\ g \in 0..Len(text) /\ g \in 1..2
      /\ ((g = 1 /\ text[1] = GO) \/ (g = 2 /\ text[2] = GO /\ text[1] \in {WANT} \cup Asides))
  BY DEF AnyName, IsOpening
<1>2. s - 1 \in 1..(Len(text) + 1) /\ g < s - 1
  <2>1. GO # AND_I
    BY DEF GO, AND_I
  <2>2. s - 1 # g
    BY <1>1, <2>1
  <2> QED  BY <1>1, <2>2
<1>3. /\ g + 1 < s - 1 /\ Between(text, g, s - 1) \in AnyName
      /\ \A i \in (g + 1)..(s - 1 - 1) : text[i] \notin Keywords
  BY <1>1, <1>2, WordsBetween
<1>4. /\ s < Len(text) /\ After(text, s) \in AnyName
      /\ \A i \in (s + 1)..Len(text) : text[i] \notin Keywords \ {PLEASE}
  BY WordsBehind DEF Last
<1>5. \A i \in 1..Len(text) :
        \/ i = g \/ (i < g /\ text[i] \in {WANT} \cup Asides) \/ i \in (g + 1)..(s - 1 - 1)
        \/ i = s - 1 \/ i = s \/ i \in (s + 1)..Len(text)
  BY <1>1
<1>6. \A i \in 1..Len(text) :
        /\ text[i] \notin {TO, FROM}
        /\ text[i] = GO <=> i = g
        /\ text[i] = AND_I <=> i = s - 1
  <2>1. /\ {TO, FROM, GO, AND_I} \subseteq Keywords \ {PLEASE} /\ GO \notin {TO, FROM, AND_I}
        /\ AT \notin {TO, FROM, GO, AND_I} /\ AND_I \notin {TO, FROM, GO}
        /\ ({WANT} \cup Asides) \cap {TO, FROM, GO, AND_I} = {}
    BY DEF Keywords, Openings, Asides, TO, FROM, PLEASE, GO, WANT, ASK, HOW, AT, AND_I
  <2>2. text[g] = GO /\ text[s] = AT /\ text[s - 1] = AND_I
    BY <1>1
  <2> QED  BY <1>2, <1>3, <1>4, <1>5, <2>1, <2>2
<1>7. /\ Places(text, GO) = {g} /\ Places(text, FROM) = {} /\ Places(text, TO) = {}
      /\ Places(text, AND_I) = {s - 1}
  <2>1. DOMAIN text = 1..Len(text) /\ s - 1 \in 1..Len(text)
    BY <1>1, <1>2 DEF AnyName
  <2> QED  BY <1>1, <1>6, <2>1 DEF Places
<1>8. text[1] \in {GO, WANT} \cup Asides
  BY <1>1
<1>9. /\ rest \in AnyName /\ Len(rest) = Len(text) - g
      /\ \A i \in 1..(Len(text) - g) : rest[i] = text[g + i]
  BY <1>1, WordsAfter
<1>10. rest # << >> /\ Head(rest) # HOW
  <2>1. Len(rest) > 0
    BY <1>1, <1>2, <1>9
  <2>2. rest # << >>
    BY <2>1
  <2>3. Head(rest) = rest[1]
    BY <1>9, <2>2, TailIsAfter
  <2>4. rest[1] = text[g + 1] /\ text[g + 1] \notin Keywords
    BY <1>1, <1>3, <1>9
  <2> QED  BY <2>2, <2>3, <2>4 DEF Keywords, Openings
<1>11. g \in 0..(s - 1 - 2) /\ s - 1 < Len(text)
  BY <1>1, <1>3, <1>4
<1>12. Inside(rest, AND_I) = {k}
  <2>1. s - 1 \in 1..Len(text)
    BY <1>1, <1>2, <1>4
  <2>2. s \in Int /\ g \in Int
    BY <1>1
  <2> QED  BY <1>7, <1>11, <2>1, <2>2, SplitBefore
<1>13. /\ k + 1 < Len(rest) /\ rest[k + 1] = AT /\ k \in 1..(Len(text) - g) /\ k + 1 = s - g
       /\ k - 1 \in 0..(Len(text) - g) /\ s - g \in 0..(Len(text) - g) /\ g + (k - 1) = s - 2
       /\ g + (s - g) = s
  <2>1. k + 1 \in 1..(Len(text) - g) /\ g + (k + 1) = s
    BY <1>1, <1>3, <1>4
  <2> QED  BY <1>1, <1>3, <1>4, <1>9, <2>1
<1> DEFINE ands == {i \in Inside(rest, AND_I) : i + 1 < Len(rest) /\ rest[i + 1] = AT}
<1>14. ands = {k}
  BY <1>12, <1>13
<1>15. Min({k}) = k /\ Min({g}) = g
  <2>1. {k} \subseteq Nat /\ {g} \subseteq Nat
    BY <1>1, <1>13
  <2> HIDE DEF k
  <2>2. Min({k}) \in {k} /\ Min({g}) \in {g}
    BY <2>1, LeastIsIn
  <2> QED  BY <2>2
<1>16. SubSeq(rest, 1, k - 1) = Between(text, g, s - 1)
  <2>1. SubSeq(rest, 1, k - 1) = SubSeq(text, g + 1, s - 2)
    BY <1>1, <1>13, PartOfPart
  <2>2. s - 1 - 1 = s - 2
    OBVIOUS
  <2> QED  BY <2>1, <2>2 DEF Between
<1>17. After(rest, k + 1) = After(text, s)
  BY <1>1, <1>13, PartOfPart
<1>18. Clean(After(text, s)) = DropPlease(After(text, s))
       /\ Clean(Between(text, g, s - 1)) = Between(text, g, s - 1)
  BY <1>3, <1>4, CleanPolite, CleanName
<1> HIDE DEF k, rest, ands
<1>19. Conversation(text) = {Reading(DropPlease(After(text, s)), Between(text, g, s - 1))}
  <2>1. Conversation(text) = {Reading(Clean(After(rest, k + 1)), Clean(SubSeq(rest, 1, k - 1)))}
    <3> DEFINE left == After(text, Min(Places(text, GO)))
               told == IF left # << >> /\ Head(left) = HOW /\ Inside(Tail(left), AND_I) # {}
                       THEN Tail(left) ELSE left
               these == {i \in Inside(told, AND_I) : i + 1 < Len(told) /\ told[i + 1] = AT}
    <3>1. left = rest
      BY <1>7, <1>15 DEF rest
    <3>2. told = rest
      BY <1>10, <3>1
    <3> HIDE DEF told
    <3>3. these = {k}
      BY <1>14, <3>2 DEF ands
    <3>4. Places(text, GO) # {} /\ these # {}
      BY <1>7, <3>3
    <3>5. Conversation(text) =
            {Reading(Clean(After(told, Min(these) + 1)), Clean(SubSeq(told, 1, Min(these) - 1)))}
      BY <3>4 DEF Conversation, told
    <3> QED  BY <1>15, <3>2, <3>3, <3>5
  <2> QED  BY <1>16, <1>17, <1>18, <2>1
<1>20. /\ FromFirst(HalvesAfter(text, FROM, TO)) = {} /\ ToFirst(OpenedHalves(text, TO)) = {}
       /\ ToFirst(OpenedHalves(text, FROM)) = {}
       /\ FromFirst(HalvesAfter(text, FROM_E, TO_E)) = {} /\ ToFirst(HalvesAfter(text, TO_E, FROM_E)) = {}
  <2>1. /\ HalvesAfter(text, FROM, TO) = {} /\ OpenedHalves(text, TO) = {} /\ OpenedHalves(text, FROM) = {}
        /\ HalvesAfter(text, FROM_E, TO_E) = {} /\ HalvesAfter(text, TO_E, FROM_E) = {}
    BY <1>1, <1>7, <1>8, NothingAfter, NothingAround
  <2> QED  BY <2>1 DEF FromFirst, ToFirst
<1>21. /\ Patterns(text)[1] = {} /\ Patterns(text)[2] = {} /\ Patterns(text)[3] = {}
       /\ Patterns(text)[4] = {} /\ Patterns(text)[5] = {}
       /\ Patterns(text)[6] = {Reading(DropPlease(After(text, s)), Between(text, g, s - 1))}
  BY <1>19, <1>20 DEF Patterns
<1>22. 6 \in 1..8 /\ \A i \in 1..8 : i < 6 => Patterns(text)[i] = {}
  <2>1. \A i \in 1..8 : i < 6 => i = 1 \/ i = 2 \/ i = 3 \/ i = 4 \/ i = 5
    OBVIOUS
  <2> QED  BY <1>21, <2>1
<1> DEFINE r == Reading(DropPlease(After(text, s)), Between(text, g, s - 1))
<1>23. Patterns(text)[6] = {r}
  BY <1>21
<1> HIDE DEF r
<1>24. ExtractWithRules(text) = r
  <2>1. text # << >> /\ 6 \in 1..8
    BY <1>1
  <2> QED  BY <1>22, <1>23, <2>1, FirstDecides, Zenon
<1> QED  BY <1>24 DEF r

\* "from <from> to <to> [please]"
LEMMA FromToRead ==
  ASSUME NEW text \in AnyName, text # << >>, text[1] = FROM, NEW s \in 1..Len(text), text[s] = TO, 1 < s,
         IsName(Between(text, 1, s)), IsName(DropPlease(After(text, s)))
  PROVE  ExtractWithRules(text) = Reading(Between(text, 1, s), DropPlease(After(text, s)))
<1>1. Len(text) \in Nat /\ 1 \in 0..Len(text) /\ s \in 1..(Len(text) + 1)
  BY DEF AnyName
<1>2. /\ 2 < s /\ Between(text, 1, s) \in AnyName
      /\ \A k \in 2..(s - 1) : text[k] \notin Keywords
  BY <1>1, WordsBetween
<1>3. s \in 0..Len(text)
  BY <1>1
<1>4. After(text, s) \in AnyName
  BY <1>3, WordsAfter
<1>5. /\ Clean(After(text, s)) = DropPlease(After(text, s))
      /\ Clean(Between(text, 1, s)) = Between(text, 1, s)
  BY <1>2, <1>4, CleanName, CleanPolite
<1>6. s < Len(text)
  BY WordsBehind
<1>7. \A k \in 1..(s - 1) : text[k] # TO
  <2>1. \A k \in 1..(s - 1) : k = 1 \/ k \in 2..(s - 1)
    BY <1>1
  <2>2. TO \in Keywords /\ FROM # TO
    BY DEF Keywords, TO, FROM
  <2> QED  BY <1>2, <2>1, <2>2
<1>9. 1 \in 0..(s - 2) /\ 1 + 1 = 2
  BY <1>2
<1>10. /\ Inside(After(text, 1), TO) # {}
       /\ Halves(After(text, 1), TO) = [before |-> SubSeq(text, 2, s - 1), after |-> After(text, s)]
  BY <1>6, <1>7, <1>9, FirstSeparator
<1>11. Tail(text) = After(text, 1) /\ Head(text) = FROM
  BY TailIsAfter
<1>12. HalvesAfter(text, FROM, TO) = {[before |-> SubSeq(text, 2, s - 1), after |-> After(text, s)]}
  BY <1>10, <1>11 DEF HalvesAfter
<1>13. SubSeq(text, 2, s - 1) = Between(text, 1, s)
  BY <1>9 DEF Between
<1>14. FromFirst(HalvesAfter(text, FROM, TO)) = {Reading(Between(text, 1, s), DropPlease(After(text, s)))}
  <2> DEFINE h == [before |-> SubSeq(text, 2, s - 1), after |-> After(text, s)]
  <2>1. FromFirst({h}) = {Reading(Clean(SubSeq(text, 2, s - 1)), Clean(After(text, s)))}
    BY ReadHalves
  <2>2. HalvesAfter(text, FROM, TO) = {h}
    BY <1>12
  <2> HIDE DEF h
  <2> QED  BY <1>5, <1>13, <2>1, <2>2
<1>15. Patterns(text)[1] = {Reading(Between(text, 1, s), DropPlease(After(text, s)))}
  BY <1>14 DEF Patterns
<1>16. 1 \in 1..8 /\ \A i \in 1..8 : ~(i < 1)
  OBVIOUS
<1> QED  BY <1>15, <1>16, FirstDecides

\* Texts of the three patterns of MeantByGoing and MeantFromTo, with any of
\* their openings and words for please, of names of any words that are not
\* among those the expressions look for, are read as they are meant.
\* (_extract_with_rules and _clean_location_candidate)
THEOREM RulesReadAsMeant ==
  ASSUME NEW text \in AnyName, MeantByGoing(text) \cup MeantFromTo(text, {}) # {}
  PROVE  ExtractWithRules(text) \in MeantByGoing(text) \cup MeantFromTo(text, {})
<1>0. Len(text) \in Nat /\ DOMAIN text = 1..Len(text)
  BY DEF AnyName
<1>1. CASE MeantByGoing(text) # {}
  <2> DEFINE To(e) == Between(text, e[1], IF text[e[2]] = FROM THEN e[2] ELSE e[2] - 1)
             From(e) == DropPlease(After(text, e[2]))
             ends == {e \in Places(text, GO) \X (Places(text, FROM) \cup Places(text, AT)) :
                        /\ e[1] = 1 \/ (e[1] = 2 /\ Head(text) \in {WANT} \cup Asides)
                        /\ e[1] < e[2]
                        /\ text[e[2]] = AT => text[e[2] - 1] = AND_I /\ Last(text) # KINDLY
                        /\ IsName(To(e)) /\ IsName(From(e))}
  <2>1. MeantByGoing(text) = {Reading(From(e), To(e)) : e \in ends}
    BY DEF MeantByGoing
  <2>2. PICK e \in ends : TRUE
    BY <1>1, <2>1
  <2> DEFINE g == e[1]
             s == e[2]
  <2>3. /\ g \in Places(text, GO) /\ s \in Places(text, FROM) \cup Places(text, AT)
        /\ g = 1 \/ (g = 2 /\ Head(text) \in {WANT} \cup Asides)
        /\ g < s /\ (text[s] = AT => text[s - 1] = AND_I /\ Last(text) # KINDLY)
        /\ IsName(To(e)) /\ IsName(From(e))
    BY <2>2
  <2>4. Reading(From(e), To(e)) \in MeantByGoing(text)
    BY <2>1, <2>2
  <2>5. text # << >> /\ g \in 1..Len(text) /\ text[g] = GO /\ s \in 1..Len(text)
        /\ text[s] \in {FROM, AT}
    BY <1>0, <2>3 DEF Places
  <2>6. Head(text) = text[1]
    BY <2>5, TailIsAfter
  <2> HIDE DEF g, s, ends
  <2>7. IsOpening(text, g)
    BY <1>0, <2>3, <2>5, <2>6 DEF IsOpening
  <2>8. CASE text[s] = FROM
    <3>1. To(e) = Between(text, g, s) /\ From(e) = DropPlease(After(text, s))
      BY <2>8 DEF g, s
    <3> HIDE DEF To, From
    <3>2. IsName(Between(text, g, s)) /\ IsName(DropPlease(After(text, s)))
      BY <2>3, <3>1
    <3>3. ExtractWithRules(text) = Reading(From(e), To(e))
      BY <2>3, <2>5, <2>7, <2>8, <3>1, <3>2, GoingFromRead
    <3> QED  BY <2>4, <3>3
  <2>9. CASE text[s] = AT
    <3>1. To(e) = Between(text, g, s - 1) /\ From(e) = DropPlease(After(text, s))
      BY <2>9 DEF g, s, AT, FROM
    <3> HIDE DEF To, From
    <3>2. IsName(Between(text, g, s - 1)) /\ IsName(DropPlease(After(text, s)))
      BY <2>3, <3>1
    <3>3. ExtractWithRules(text) = Reading(From(e), To(e))
      BY <2>3, <2>5, <2>7, <2>9, <3>1, <3>2, ConversationIsRead
    <3> QED  BY <2>4, <3>3
  <2> QED  BY <2>5, <2>8, <2>9
<1>2. CASE MeantFromTo(text, {}) # {}
  <2> DEFINE From(e) == Between(text, e[1], e[2])
             To(e) == DropPlease(After(text, e[2]))
             ends == {e \in Places(text, FROM) \X Places(text, TO) :
                        /\ ToSet(SubSeq(text, 1, e[1] - 1)) \subseteq {}
                        /\ IsName(From(e)) /\ IsName(To(e))}
  <2>1. MeantFromTo(text, {}) = {Reading(From(e), To(e)) : e \in ends}
    BY DEF MeantFromTo
  <2>2. PICK e \in ends : TRUE
    BY <1>2, <2>1
  <2> DEFINE g == e[1]
             s == e[2]
  <2>3. /\ g \in 1..Len(text) /\ text[g] = FROM /\ s \in 1..Len(text) /\ text[s] = TO
        /\ ToSet(SubSeq(text, 1, g - 1)) \subseteq {}
        /\ IsName(Between(text, g, s)) /\ IsName(DropPlease(After(text, s)))
    BY <1>0, <2>2 DEF Places
  <2>4. Reading(Between(text, g, s), DropPlease(After(text, s))) \in MeantFromTo(text, {})
    BY <2>1, <2>2
  <2> HIDE DEF g, s, ends
  <2>5. g = 1
    <3> SUFFICES ASSUME g > 1 PROVE FALSE
      BY <2>3
    <3>1. g - 1 \in 0..Len(text) /\ 1 \in 1..(Len(text) + 1) /\ 1 <= g - 1 + 1
      BY <1>0, <2>3
    <3>2. SubSeq(text, 1, g - 1) \in AnyName /\ Len(SubSeq(text, 1, g - 1)) = g - 1 + 1 - 1
      BY <3>1, WordsOfPart
    <3>3. 1 \in DOMAIN SubSeq(text, 1, g - 1)
      BY <2>3, <3>2 DEF AnyName
    <3> QED  BY <2>3, <3>3 DEF ToSet
  <2>6. 1 < s
    <3> SUFFICES ASSUME ~(1 < s) PROVE FALSE
      OBVIOUS
    <3>1. s = 1
      BY <2>3
    <3> QED  BY <2>3, <2>5, <3>1 DEF FROM, TO
  <2>7. ExtractWithRules(text) = Reading(Between(text, 1, s), DropPlease(After(text, s)))
    <3>1. text # << >>
      BY <1>0, <2>3
    <3> QED  BY <2>3, <2>5, <2>6, <3>1, FromToRead
  <2> QED  BY <2>4, <2>5, <2>7
<1> QED  BY <1>1, <1>2

-----------------------------------------------------------------------------
(* Places.                                                                 *)

\* p may be answered for n: some source gave it for n, and it is in Cairo if
\* n surely is.
Good(n, p) ==
  /\ n # NoName /\ p \in Place /\ p \in Said(n)
  /\ SurelyInCairo(n) => p \in InCairo

\* The best result is one of the results, and in Cairo if any of them is.
LEMMA BestIsListed ==
  ASSUME NEW results \in Seq(Place), results # << >>
  PROVE  /\ \E k \in DOMAIN results : PickBestResult(results) = results[k]
         /\ (\E k \in DOMAIN results : results[k] \in InCairo) => PickBestResult(results) \in InCairo
<1> DEFINE inside == {k \in DOMAIN results : results[k] \in InCairo}
<1>1. inside \subseteq Nat /\ 1 \in DOMAIN results
  OBVIOUS
<1>2. CASE inside = {}
  <2>1. PickBestResult(results) = results[1]
    BY <1>2 DEF PickBestResult
  <2> QED  BY <1>1, <1>2, <2>1
<1>3. CASE inside # {}
  <2>1. Min(inside) \in inside
    BY <1>1, <1>3, LeastIsIn
  <2>2. PickBestResult(results) = results[Min(inside)]
    BY <1>3 DEF PickBestResult
  <2> QED  BY <2>1, <2>2
<1> QED  BY <1>2, <1>3

\* The name that task t locates.
NameOf(t) == IF t.side = "from" THEN t.reads.from ELSE t.reads.to

\* What the services list for a name that a text is read to hold.
LEMMA ListsOfPlaces ==
  ASSUME NEW t \in Text, NEW n \in {ExtractLocations(t).from, ExtractLocations(t).to}
  PROVE  GoogleReply(n) \subseteq Seq(Place) /\ CairoReply(n) \subseteq Seq(Place)
         /\ NominatimReply(n) \subseteq Seq(Place)
  BY ReplyAssumption

\* The best of what a service lists for a name that is not in the table.
LEMMA BestIsSaid ==
  ASSUME NEW n, n \notin DOMAIN KnownPlace,
         NEW results \in GoogleReply(n) \cup CairoReply(n) \cup NominatimReply(n),
         results \in Seq(Place), results # << >>
  PROVE  PickBestResult(results) \in Place /\ PickBestResult(results) \in Said(n)
<1>1. PICK k \in DOMAIN results : PickBestResult(results) = results[k]
  BY BestIsListed
<1>2. results[k] \in Place
  OBVIOUS
<1>3. results[k] \in PlacesIn(GoogleReply(n)) \cup PlacesIn(CairoReply(n)) \cup PlacesIn(NominatimReply(n))
  BY DEF PlacesIn
<1> QED  BY <1>1, <1>2, <1>3 DEF Said

-----------------------------------------------------------------------------
(* The service.                                                            *)

Busy == {"look", "google", "cairo", "nominatim"}

\* What holds of what a thread does, when the names in the cache are names.
TaskGood(t, names) ==
  /\ t \in Task
  /\ t.pc # "idle" => t.text \in Text
  /\ t.pc \notin {"idle", "raised"} => t.reads = ExtractLocations(t.text)
  /\ t.pc = "raised" => t.from = NoPlace /\ t.to = NoPlace
  /\ t.pc \in Busy =>
       /\ t.reads.to # NoName /\ t.to = NoPlace
       /\ t.side = "from" => t.reads.from # NoName /\ t.from = NoPlace
  /\ t.pc \in Busy \ {"look"} => NameOf(t) \notin DOMAIN KnownPlace /\ NameOf(t) \notin t.remembered
  /\ t.pc = "cairo" => t.best \in Place /\ t.best \in Said(NameOf(t))
  /\ t.pc = "reply" => t.side = "to"
  /\ t.from # NoPlace => Good(t.reads.from, t.from)
  /\ t.to # NoPlace => Good(t.reads.to, t.to)
  /\ t.remembered \subseteq names
  /\ t.pc \notin {"idle", "raised"} /\ t.side = "to" /\ t.reads.from \in t.remembered => t.from # NoPlace
  /\ t.pc = "reply" /\ t.reads.to \in t.remembered => t.to # NoPlace

ReplyGood(r) ==
  /\ r \in ReplyRecord /\ (r.code # "UNKNOWN" => r.reads = ExtractLocations(r.text))
  /\ r.from # NoPlace => Good(r.reads.from, r.from)
  /\ r.to # NoPlace => Good(r.reads.to, r.to)

CacheGood == DOMAIN cache \subseteq Named /\ \A n \in DOMAIN cache : Good(n, cache[n])

\* The inductive invariant.  What is answered follows from what is cached and
\* from what each thread has found so far; that a remembered name is located
\* needs, besides, that nothing leaves the cache, that no empty name enters
\* it, and that a text without a destination has no origin either.
AiInv ==
  /\ CacheGood
  /\ task \in [Thread -> Task] /\ \A w \in Thread : TaskGood(task[w], DOMAIN cache)
  /\ received \in 0..MAX_REQUESTS
  /\ \A r \in replies : ReplyGood(r)

LEMMA IdleGood == ASSUME NEW names PROVE TaskGood(Idle, names)
<1>1. << >> \in AnyName
  BY DEF AnyName
<1> QED  BY <1>1 DEF TaskGood, Idle, Task, NoReading, NoName, ReadingRecord, Busy

LEMMA MoreNames ==
  ASSUME NEW t, NEW names, NEW more, TaskGood(t, names), names \subseteq more
  PROVE  TaskGood(t, more)
  BY DEF TaskGood

\* The task of a thread that goes on with p for the name it wanted.
GoesOn(t, p) ==
  IF t.side = "from" THEN [t EXCEPT !.from = p, !.pc = "look", !.side = "to", !.best = NoPlace]
  ELSE [t EXCEPT !.to = p, !.pc = "reply", !.best = NoPlace]

LEMMA WithPlaceIs ==
  ASSUME task \in [Thread -> Task], NEW w \in Thread, NEW p
  PROVE  WithPlace(w, p) = [task EXCEPT ![w] = GoesOn(task[w], p)] /\ Wanted(w) = NameOf(task[w])
  BY DEF WithPlace, GoesOn, Wanted, NameOf

LEMMA GoesOnGood ==
  ASSUME NEW t, NEW names, TaskGood(t, names), t.pc \in Busy,
         NEW p \in Place \cup {NoPlace},
         p # NoPlace => Good(NameOf(t), p),
         p = NoPlace => NameOf(t) \notin t.remembered
  PROVE  TaskGood(GoesOn(t, p), names)
<1>1. CASE t.side = "from"
  <2> DEFINE u == [t EXCEPT !.from = p, !.pc = "look", !.side = "to", !.best = NoPlace]
  <2>1. /\ u \in Task /\ u.pc = "look" /\ u.side = "to" /\ u.from = p /\ u.to = NoPlace
        /\ u.reads = t.reads /\ u.text = t.text /\ u.remembered = t.remembered
    BY DEF TaskGood, Task, Busy
  <2> HIDE DEF u
  <2>2. TaskGood(u, names)
    BY <1>1, <2>1 DEF TaskGood, Busy, NameOf
  <2> QED  BY <1>1, <2>2 DEF GoesOn, u
<1>2. CASE t.side = "to"
  <2> DEFINE u == [t EXCEPT !.to = p, !.pc = "reply", !.best = NoPlace]
  <2>1. /\ u \in Task /\ u.pc = "reply" /\ u.side = "to" /\ u.from = t.from /\ u.to = p
        /\ u.reads = t.reads /\ u.text = t.text /\ u.remembered = t.remembered
    BY <1>2 DEF TaskGood, Task, Busy
  <2> HIDE DEF u
  <2>2. TaskGood(u, names)
    BY <1>2, <2>1 DEF TaskGood, Busy, NameOf
  <2> QED  BY <1>2, <2>2 DEF GoesOn, u
<1> QED  BY <1>1, <1>2 DEF TaskGood, Task

\* A thread that asks the next service.
LEMMA AsksGood ==
  ASSUME NEW t, NEW names, TaskGood(t, names), t.pc \in Busy,
         NameOf(t) \notin DOMAIN KnownPlace, NameOf(t) \notin t.remembered,
         NEW pc \in {"google", "nominatim"}
  PROVE  TaskGood([t EXCEPT !.pc = pc], names)
<1> DEFINE u == [t EXCEPT !.pc = pc]
<1>1. /\ u \in Task /\ u.pc = pc /\ u.side = t.side /\ u.from = t.from /\ u.to = t.to
      /\ u.reads = t.reads /\ u.text = t.text /\ u.remembered = t.remembered
  BY DEF TaskGood, Task, Busy
<1> HIDE DEF u
<1>2. TaskGood(u, names)
  BY <1>1 DEF TaskGood, Busy, NameOf
<1> QED  BY <1>2 DEF u

\* One thread's task changes, the cache may gain a name.
LEMMA TaskStep ==
  ASSUME AiInv, NEW w \in Thread, NEW u, TaskGood(u, DOMAIN cache'),
         task' = [task EXCEPT ![w] = u],
         CacheGood', DOMAIN cache \subseteq DOMAIN cache',
         received' \in 0..MAX_REQUESTS, replies' = replies
  PROVE  AiInv'
<1>1. u \in Task
  BY DEF TaskGood
<1>2. task' \in [Thread -> Task]
  BY <1>1 DEF AiInv
<1>3. ASSUME NEW v \in Thread PROVE TaskGood(task'[v], DOMAIN cache')
  <2>1. CASE v = w
    BY <2>1 DEF AiInv
  <2>2. CASE v # w
    <3>1. task'[v] = task[v]
      BY <2>2 DEF AiInv
    <3> QED  BY <3>1, MoreNames DEF AiInv
  <2> QED  BY <2>1, <2>2
<1> QED  BY <1>2, <1>3 DEF AiInv

LEMMA LocateStep ==
  ASSUME AiInv, NEW w \in Thread, task[w].pc \in Busy, NEW p \in Place \cup {NoPlace},
         p # NoPlace => Good(Wanted(w), p),
         p = NoPlace => Wanted(w) \notin task[w].remembered,
         Locate(w, p), UNCHANGED <<received, replies>>
  PROVE  AiInv'
<1>1. /\ WithPlace(w, p) = [task EXCEPT ![w] = GoesOn(task[w], p)]
      /\ Wanted(w) = NameOf(task[w]) /\ TaskGood(task[w], DOMAIN cache)
  BY WithPlaceIs DEF AiInv
<1>2. TaskGood(GoesOn(task[w], p), DOMAIN cache)
  BY <1>1, GoesOnGood
<1>3. /\ task' = [task EXCEPT ![w] = GoesOn(task[w], p)] /\ cache' = cache
      /\ received' \in 0..MAX_REQUESTS /\ replies' = replies
  BY <1>1 DEF Locate, AiInv
<1>4. CacheGood'
  BY <1>3 DEF AiInv, CacheGood
<1> QED  BY <1>2, <1>3, <1>4, TaskStep

LEMMA RememberStep ==
  ASSUME AiInv, NEW w \in Thread, task[w].pc \in Busy, NEW p, Good(Wanted(w), p),
         Wanted(w) \in AnyName,
         Remember(w, p), UNCHANGED <<received, replies>>
  PROVE  AiInv'
<1>1. /\ WithPlace(w, p) = [task EXCEPT ![w] = GoesOn(task[w], p)]
      /\ Wanted(w) = NameOf(task[w]) /\ TaskGood(task[w], DOMAIN cache)
  BY WithPlaceIs DEF AiInv
<1> DEFINE n == Wanted(w)
<1>2. cache' = [m \in DOMAIN cache \cup {n} |-> IF m \in {n} THEN p ELSE cache[m]]
  BY DEF Remember, Keep
<1>3. n \in Named
  BY DEF Good, Named
<1> HIDE DEF n
<1>4. /\ DOMAIN cache' = DOMAIN cache \cup {n} /\ cache'[n] = p
      /\ \A m \in DOMAIN cache \ {n} : cache'[m] = cache[m]
  BY <1>2
<1>5. Good(n, p)
  BY DEF n
<1>6. CacheGood'
  <2>1. DOMAIN cache \subseteq Named /\ \A m \in DOMAIN cache : Good(m, cache[m])
    BY DEF AiInv, CacheGood
  <2>2. DOMAIN cache' \subseteq Named
    BY <1>3, <1>4, <2>1
  <2>3. ASSUME NEW m \in DOMAIN cache' PROVE Good(m, cache'[m])
    <3>1. CASE m = n
      BY <1>4, <1>5, <3>1, Zenon
    <3>2. CASE m # n
      <4>1. m \in DOMAIN cache /\ cache'[m] = cache[m]
        BY <1>4, <3>2
      <4> QED  BY <2>1, <4>1, Zenon
    <3> QED  BY <3>1, <3>2
  <2> QED  BY <2>2, <2>3 DEF CacheGood, Good, Said, SurelyInCairo, PlacesIn
<1>7. TaskGood(GoesOn(task[w], p), DOMAIN cache)
  <2>1. p \in Place /\ p # NoPlace
    BY PlaceAssumption DEF Good
  <2> QED  BY <1>1, <2>1, GoesOnGood
<1>8. TaskGood(GoesOn(task[w], p), DOMAIN cache')
  BY <1>4, <1>7, MoreNames
<1>9. /\ task' = [task EXCEPT ![w] = GoesOn(task[w], p)]
      /\ received' \in 0..MAX_REQUESTS /\ replies' = replies
  BY <1>1 DEF Remember, AiInv
<1> QED  BY <1>4, <1>6, <1>8, <1>9, TaskStep

\* What is known of the name that a busy thread locates.
LEMMA WantedIs ==
  ASSUME AiInv, NEW w \in Thread, task[w].pc \in Busy
  PROVE  /\ TaskGood(task[w], DOMAIN cache) /\ task[w] \in Task /\ Wanted(w) = NameOf(task[w])
         /\ Wanted(w) \in Named
         /\ GoogleReply(Wanted(w)) \subseteq Seq(Place) /\ CairoReply(Wanted(w)) \subseteq Seq(Place)
         /\ NominatimReply(Wanted(w)) \subseteq Seq(Place)
<1> DEFINE t == task[w]
<1>1. TaskGood(t, DOMAIN cache) /\ t \in Task /\ Wanted(w) = NameOf(t) /\ t.pc \in Busy
  BY DEF AiInv, Wanted, NameOf
<1> HIDE DEF t
<1>2. t.text \in Text /\ t.reads = ExtractLocations(t.text)
  BY <1>1 DEF TaskGood, Busy
<1>3. t.reads \in ReadingRecord
  BY <1>1 DEF Task
<1>4. NameOf(t) \in {ExtractLocations(t.text).from, ExtractLocations(t.text).to}
  BY <1>2 DEF NameOf
<1>5. NameOf(t) \in Named
  BY <1>1, <1>3 DEF TaskGood, Busy, NameOf, ReadingRecord, Named
<1> QED  BY <1>1, <1>2, <1>4, <1>5, ListsOfPlaces DEF t

LEMMA AskStep ==
  ASSUME AiInv, NEW w \in Thread, task[w].pc \in Busy,
         Wanted(w) \notin DOMAIN KnownPlace, Wanted(w) \notin task[w].remembered,
         NEW pc \in {"google", "nominatim"},
         Ask(w, pc), UNCHANGED <<received, replies>>
  PROVE  AiInv'
<1>1. TaskGood(task[w], DOMAIN cache) /\ Wanted(w) = NameOf(task[w])
  BY WantedIs
<1>2. TaskGood([task[w] EXCEPT !.pc = pc], DOMAIN cache)
  BY <1>1, AsksGood
<1>3. /\ task' = [task EXCEPT ![w] = [task[w] EXCEPT !.pc = pc]] /\ cache' = cache
      /\ received' \in 0..MAX_REQUESTS /\ replies' = replies
  BY DEF Ask, AiInv
<1>4. CacheGood'
  BY <1>3 DEF AiInv, CacheGood
<1> QED  BY <1>2, <1>3, <1>4, TaskStep

LEMMA ReceiveStep ==
  ASSUME AiInv, NEW w \in Thread, NEW t \in Text, Receive(w, t)
  PROVE  AiInv'
<1> DEFINE reads == ExtractLocations(t)
           pc == IF reads.to = NoName THEN "reply" ELSE "look"
           side == IF reads.from = NoName THEN "to" ELSE "from"
           u == [Idle EXCEPT !.pc = pc, !.text = t, !.reads = reads, !.side = side,
                             !.remembered = DOMAIN cache]
<1>1. reads \in Destined \cup {NoReading}
  BY DestinationOfText
<1>2. reads \in ReadingRecord
  <2>1. NoName \in AnyName
    BY DEF NoName, AnyName
  <2> QED  BY <1>1, <2>1 DEF Destined, NoReading, ReadingRecord, Named
<1>3. /\ DOMAIN cache \subseteq AnyName /\ NoName \notin DOMAIN cache
      /\ received' = received + 1 /\ received < MAX_REQUESTS /\ received \in Nat
      /\ cache' = cache /\ replies' = replies
  BY BoundAssumption DEF AiInv, CacheGood, Receive, Named
<1> DEFINE raised == [Idle EXCEPT !.pc = "raised", !.text = t]
<1>4. task' = [task EXCEPT ![w] = u] \/ task' = [task EXCEPT ![w] = raised]
  BY DEF Receive
<1>5. /\ u.pc = pc /\ u.text = t /\ u.reads = reads /\ u.side = side /\ u.best = NoPlace
      /\ u.from = NoPlace /\ u.to = NoPlace /\ u.remembered = DOMAIN cache /\ u \in Task
  BY <1>2, <1>3 DEF Idle, Task
<1>6. /\ reads.to = NoName => reads.from = NoName
      /\ pc \in {"reply", "look"} /\ side \in {"to", "from"}
      /\ pc = "reply" => reads.to = NoName /\ side = "to"
      /\ pc = "look" => reads.to # NoName
      /\ side = "to" => reads.from = NoName
      /\ side = "from" => reads.from # NoName
  BY <1>1 DEF Destined, NoReading, Named
<1>7. TaskGood(raised, DOMAIN cache)
  <2>1. /\ raised.pc = "raised" /\ raised.text = t /\ raised.remembered = {}
        /\ raised.from = NoPlace /\ raised.to = NoPlace
    BY DEF Idle
  <2>2. raised \in Task
    <3>1. Idle \in Task
      BY IdleGood DEF TaskGood
    <3> QED  BY <3>1 DEF Task
  <2> HIDE DEF raised
  <2> QED  BY <2>1, <2>2 DEF TaskGood, Busy
<1> HIDE DEF u, pc, side, raised
<1>8. TaskGood(u, DOMAIN cache)
  BY <1>3, <1>5, <1>6 DEF TaskGood, Busy, NameOf
<1>9. /\ CacheGood' /\ received' \in 0..MAX_REQUESTS
      /\ TaskGood(u, DOMAIN cache') /\ TaskGood(raised, DOMAIN cache')
  BY <1>3, <1>7, <1>8, BoundAssumption DEF AiInv, CacheGood
<1> QED  BY <1>3, <1>4, <1>9, TaskStep

LEMMA LookStep ==
  ASSUME AiInv, NEW w \in Thread, Look(w)
  PROVE  AiInv'
<1> DEFINE n == Wanted(w)
<1>1. task[w].pc \in Busy /\ UNCHANGED <<received, replies>>
  BY DEF Look, Busy
<1>2. n \in Named /\ TaskGood(task[w], DOMAIN cache)
  BY <1>1, WantedIs
<1>3. CASE n \in DOMAIN KnownPlace /\ Locate(w, KnownPlace[n])
  <2>1. KnownPlace[n] \in Place /\ KnownPlace[n] # NoPlace
    BY <1>3, TableAssumption, PlaceAssumption
  <2>2. Good(n, KnownPlace[n])
    BY <1>2, <1>3, <2>1 DEF Good, Named, Said, SurelyInCairo
  <2> QED  BY <1>1, <1>3, <2>1, <2>2, LocateStep
<1>4. CASE n \notin DOMAIN KnownPlace /\ n \in DOMAIN cache /\ Locate(w, cache[n])
  <2>1. Good(n, cache[n])
    BY <1>4 DEF AiInv, CacheGood
  <2>2. cache[n] \in Place /\ cache[n] # NoPlace
    BY <2>1, PlaceAssumption DEF Good
  <2> QED  BY <1>1, <1>4, <2>1, <2>2, LocateStep
<1>5. CASE /\ n \notin DOMAIN KnownPlace /\ n \notin DOMAIN cache
           /\ Ask(w, IF GOOGLE THEN "google" ELSE "nominatim")
  <2>1. n \notin task[w].remembered
    BY <1>2, <1>5 DEF TaskGood
  <2> DEFINE pc == IF GOOGLE THEN "google" ELSE "nominatim"
  <2>2. pc \in {"google", "nominatim"} /\ Ask(w, pc)
    BY <1>5
  <2> HIDE DEF pc
  <2> QED  BY <1>1, <1>5, <2>1, <2>2, AskStep
<1> QED  BY <1>3, <1>4, <1>5 DEF Look

\* A result that Google, or Nominatim, gives for the name that w locates.
LEMMA FoundStep ==
  ASSUME AiInv, NEW w \in Thread, task[w].pc \in Busy \ {"look"},
         NEW results \in GoogleReply(Wanted(w)) \cup CairoReply(Wanted(w)) \cup NominatimReply(Wanted(w)),
         results # << >>,
         SurelyInCairo(Wanted(w)) => PickBestResult(results) \in InCairo,
         Remember(w, PickBestResult(results)), UNCHANGED <<received, replies>>
  PROVE  AiInv'
<1> DEFINE n == Wanted(w)
<1>1. /\ task[w].pc \in Busy /\ n \in Named /\ n = NameOf(task[w]) /\ results \in Seq(Place)
      /\ TaskGood(task[w], DOMAIN cache)
  BY WantedIs
<1>2. n \notin DOMAIN KnownPlace
  BY <1>1 DEF TaskGood
<1>3. PickBestResult(results) \in Place /\ PickBestResult(results) \in Said(n)
  BY <1>1, <1>2, BestIsSaid
<1>4. Good(n, PickBestResult(results)) /\ n \in AnyName
  BY <1>1, <1>3 DEF Good, Named
<1> QED  BY <1>1, <1>4, RememberStep

LEMMA AskGoogleStep ==
  ASSUME AiInv, NEW w \in Thread, AskGoogle(w)
  PROVE  AiInv'
<1> DEFINE n == Wanted(w)
<1>1. task[w].pc \in Busy \ {"look"} /\ task[w].pc \in Busy /\ UNCHANGED <<received, replies>>
  BY DEF AskGoogle, Busy
<1>2. /\ n \in Named /\ TaskGood(task[w], DOMAIN cache) /\ n = NameOf(task[w]) /\ task[w] \in Task
      /\ GoogleReply(n) \subseteq Seq(Place)
  BY <1>1, WantedIs
<1>3. n \notin DOMAIN KnownPlace /\ n \notin task[w].remembered
  BY <1>1, <1>2 DEF TaskGood
<1>4. CASE Ask(w, "nominatim")
  BY <1>1, <1>3, <1>4, AskStep
<1>5. ASSUME NEW results \in GoogleReply(n), results # << >>, PickBestResult(results) \in InCairo,
             Remember(w, PickBestResult(results))
      PROVE  AiInv'
  BY <1>1, <1>5, FoundStep
<1>6. ASSUME NEW results \in GoogleReply(n), results # << >>,
             task' = [task EXCEPT ![w].pc = "cairo", ![w].best = PickBestResult(results)],
             UNCHANGED cache
      PROVE  AiInv'
  <2> DEFINE p == PickBestResult(results)
             t == task[w]
             u == [t EXCEPT !.pc = "cairo", !.best = p]
  <2>1. p \in Place /\ p \in Said(n)
    BY <1>2, <1>3, <1>6, BestIsSaid
  <2>2. t \in Task /\ TaskGood(t, DOMAIN cache) /\ t.pc \in Busy \ {"look"} /\ t.pc # "reply" /\ n = NameOf(t)
    BY <1>1, <1>2 DEF Busy
  <2>3. task' = [task EXCEPT ![w] = u]
    BY <1>6 DEF AiInv
  <2> HIDE DEF t, p
  <2>4. /\ u \in Task /\ u.pc = "cairo" /\ u.best = p /\ u.side = t.side /\ u.from = t.from
        /\ u.to = t.to /\ u.reads = t.reads /\ u.text = t.text /\ u.remembered = t.remembered
    BY <2>1, <2>2 DEF Task
  <2> HIDE DEF u
  <2>5. NameOf(u) = NameOf(t)
    BY <2>4 DEF NameOf
  <2>6. TaskGood(u, DOMAIN cache)
    BY <2>1, <2>2, <2>4, <2>5 DEF TaskGood, Busy
  <2>7. CacheGood' /\ received' \in 0..MAX_REQUESTS /\ TaskGood(u, DOMAIN cache')
    BY <1>1, <1>6, <2>6 DEF AiInv, CacheGood
  <2> QED  BY <1>1, <1>6, <2>3, <2>7, TaskStep
<1> QED  BY <1>4, <1>5, <1>6 DEF AskGoogle

LEMMA AskGoogleInCairoStep ==
  ASSUME AiInv, NEW w \in Thread, AskGoogleInCairo(w)
  PROVE  AiInv'
<1> DEFINE n == Wanted(w)
<1>1. /\ task[w].pc \in Busy \ {"look"} /\ task[w].pc \in Busy /\ task[w].pc = "cairo"
      /\ UNCHANGED <<received, replies>>
  BY DEF AskGoogleInCairo, Busy
<1>2. /\ n \in Named /\ TaskGood(task[w], DOMAIN cache) /\ n = NameOf(task[w])
      /\ CairoReply(n) \subseteq Seq(Place)
  BY <1>1, WantedIs
<1>3. /\ n \notin DOMAIN KnownPlace /\ n \notin task[w].remembered
      /\ task[w].best \in Place /\ task[w].best \in Said(n)
  BY <1>1, <1>2 DEF TaskGood
<1>4. CASE Ask(w, "nominatim")
  BY <1>1, <1>3, <1>4, AskStep
<1>5. ASSUME NEW results \in CairoReply(n),
             Remember(w, IF results = << >> THEN task[w].best ELSE PickBestResult(results))
      PROVE  AiInv'
  <2>1. SurelyInCairo(n) => \E k \in DOMAIN results : results[k] \in InCairo
    BY <1>5 DEF SurelyInCairo
  <2>2. CASE results = << >>
    <3>1. ~SurelyInCairo(n)
      BY <2>1, <2>2
    <3>2. Good(n, task[w].best) /\ n \in AnyName
      BY <1>2, <1>3, <3>1 DEF Good, Named
    <3> QED  BY <1>1, <1>5, <2>2, <3>2, RememberStep
  <2>3. CASE results # << >>
    <3>1. results \in Seq(Place)
      BY <1>2, <1>5
    <3>2. SurelyInCairo(n) => PickBestResult(results) \in InCairo
      BY <2>1, <2>3, <3>1, BestIsListed
    <3> QED  BY <1>1, <1>5, <2>3, <3>2, FoundStep
  <2> QED  BY <2>2, <2>3
<1> QED  BY <1>4, <1>5 DEF AskGoogleInCairo

LEMMA AskNominatimStep ==
  ASSUME AiInv, NEW w \in Thread, AskNominatim(w)
  PROVE  AiInv'
<1> DEFINE n == Wanted(w)
<1>1. task[w].pc \in Busy \ {"look"} /\ task[w].pc \in Busy /\ UNCHANGED <<received, replies>>
  BY DEF AskNominatim, Busy
<1>2. /\ n \in Named /\ TaskGood(task[w], DOMAIN cache) /\ n = NameOf(task[w])
      /\ NominatimReply(n) \subseteq Seq(Place)
  BY <1>1, WantedIs
<1>3. n \notin task[w].remembered
  BY <1>1, <1>2 DEF TaskGood
<1>4. CASE Fail(w)
  BY <1>1, <1>3, <1>4, LocateStep DEF Fail
<1>5. ASSUME NEW results \in NominatimReply(n), results # << >>, Remember(w, PickBestResult(results))
      PROVE  AiInv'
  <2>1. results \in Seq(Place)
    BY <1>2, <1>5
  <2>2. SurelyInCairo(n) => PickBestResult(results) \in InCairo
    BY <1>5, <2>1, BestIsListed DEF SurelyInCairo
  <2> QED  BY <1>1, <1>5, <2>2, FoundStep
<1> QED  BY <1>4, <1>5 DEF AskNominatim

\* The reply to a finished task.
LEMMA ResponseGood ==
  ASSUME NEW t, NEW names, TaskGood(t, names), t.pc \in {"reply", "raised"}
  PROVE  ReplyGood(Response(t))
<1>1. /\ t.text \in Text /\ t.reads \in ReadingRecord
      /\ t.from \in Place \cup {NoPlace} /\ t.to \in Place \cup {NoPlace}
  BY DEF TaskGood, Task
<1>2. t.pc = "reply" => t.reads = ExtractLocations(t.text)
  BY DEF TaskGood
<1>3. CASE Code(t) = "OK"
  <2>1. t.pc = "reply" /\ t.reads.to # NoName /\ t.to # NoPlace
    BY <1>3 DEF Code
  <2>2. t.reads \in [from : AnyName, to : AnyName \ {NoName}] /\ t.to \in Place
    BY <1>1, <2>1 DEF ReadingRecord
  <2>3. Response(t) = [code |-> "OK", text |-> t.text, reads |-> t.reads, from |-> t.from, to |-> t.to]
    BY <1>3 DEF Response
  <2> DEFINE r == [code |-> "OK", text |-> t.text, reads |-> t.reads, from |-> t.from, to |-> t.to]
  <2>4. r \in ReplyRecord
    BY <1>1, <2>2 DEF ReplyRecord
  <2>5. r.text = t.text /\ r.reads = t.reads /\ r.from = t.from /\ r.to = t.to
    OBVIOUS
  <2> HIDE DEF r
  <2>6. ReplyGood(r)
    BY <1>2, <2>1, <2>4, <2>5 DEF ReplyGood, TaskGood
  <2> QED  BY <2>3, <2>6 DEF r
<1>4. CASE Code(t) # "OK"
  <2>1. /\ Code(t) \in {"INVALID_ARGUMENT", "NOT_FOUND", "UNKNOWN"}
        /\ t.pc = "raised" => Code(t) = "UNKNOWN"
    BY <1>4 DEF Code
  <2> DEFINE r == [code |-> Code(t), text |-> t.text, reads |-> t.reads, from |-> NoPlace, to |-> NoPlace]
  <2>2. Response(t) = r
    BY <1>4 DEF Response
  <2>3. r \in ReplyRecord /\ r.from = NoPlace /\ r.to = NoPlace
    BY <1>1, <2>1 DEF ReplyRecord
  <2>4. r.text = t.text /\ r.reads = t.reads /\ r.code = Code(t)
    OBVIOUS
  <2> HIDE DEF r
  <2>5. ReplyGood(r)
    BY <1>2, <2>1, <2>3, <2>4 DEF ReplyGood
  <2> QED  BY <2>2, <2>5
<1> QED  BY <1>3, <1>4

LEMMA ReplyStep ==
  ASSUME AiInv, NEW w \in Thread, Reply(w)
  PROVE  AiInv'
<1>1. ReplyGood(Response(task[w]))
  <2>1. TaskGood(task[w], DOMAIN cache) /\ task[w].pc \in {"reply", "raised"}
    BY DEF AiInv, Reply
  <2> QED  BY <2>1, ResponseGood
<1>2. replies' = {Response(task[w])} /\ task' = [task EXCEPT ![w] = Idle] /\ cache' = cache /\ received' = received
  BY DEF Reply
<1>3. \A r \in replies' : ReplyGood(r)
  BY <1>1, <1>2
<1>4. Idle \in Task
  BY IdleGood DEF TaskGood
<1>5. ASSUME NEW v \in Thread PROVE TaskGood(task'[v], DOMAIN cache)
  <2>1. CASE v = w
    <3>1. task'[v] = Idle
      BY <1>2, <2>1 DEF AiInv
    <3> QED  BY <3>1, IdleGood
  <2>2. CASE v # w
    <3>1. task'[v] = task[v]
      BY <1>2, <2>2 DEF AiInv
    <3> QED  BY <3>1 DEF AiInv
  <2> QED  BY <2>1, <2>2
<1>6. task' \in [Thread -> Task] /\ CacheGood'
  BY <1>2, <1>4 DEF AiInv, CacheGood
<1> QED  BY <1>2, <1>3, <1>5, <1>6 DEF AiInv

\* Nothing cached and every thread idle.
LEMMA FreshGood ==
  ASSUME NEW tasks, tasks = [w \in Thread |-> Idle]
  PROVE  /\ tasks \in [Thread -> Task]
         /\ \A w \in Thread : TaskGood(tasks[w], DOMAIN NothingCached)
         /\ DOMAIN NothingCached = {}
<1>1. Idle \in Task /\ TaskGood(Idle, DOMAIN NothingCached)
  BY IdleGood DEF TaskGood
<1> QED  BY <1>1 DEF NothingCached

LEMMA RestartStep == AiInv /\ Restart => AiInv'
  BY FreshGood DEF AiInv, CacheGood, Restart

LEMMA AiInitial == Init => AiInv
  BY FreshGood, BoundAssumption DEF AiInv, CacheGood, Init

LEMMA AiStep == AiInv /\ [Next]_vars => AiInv'
<1> SUFFICES ASSUME AiInv, [Next]_vars PROVE AiInv'
  OBVIOUS
<1>1. CASE UNCHANGED vars
  BY <1>1 DEF vars, AiInv, CacheGood
<1>2. CASE Restart
  BY <1>2, RestartStep
<1>3. ASSUME NEW w \in Thread, NEW t \in Text, Receive(w, t) PROVE AiInv'
  BY <1>3, ReceiveStep
<1>4. ASSUME NEW w \in Thread, Look(w) \/ AskGoogle(w) \/ AskGoogleInCairo(w) \/ AskNominatim(w) \/ Reply(w)
      PROVE  AiInv'
  BY <1>4, LookStep, AskGoogleStep, AskGoogleInCairoStep, AskNominatimStep, ReplyStep
<1> QED  BY <1>1, <1>2, <1>3, <1>4 DEF Next

THEOREM AiInvariant == Spec => []AiInv
  BY AiInitial, AiStep, PTL DEF Spec

LEMMA AiImplied ==
  AiInv => /\ TypeOK /\ PlacesAreOfTheirNames /\ CairoPreferred /\ RememberedIsLocated
           /\ TextsReadAsMeant
<1> SUFFICES ASSUME AiInv
             PROVE  /\ TypeOK /\ PlacesAreOfTheirNames /\ CairoPreferred /\ RememberedIsLocated
                    /\ TextsReadAsMeant
  OBVIOUS
<1>1. TypeOK
  <2>1. DOMAIN cache \subseteq AnyName /\ \A n \in DOMAIN cache : cache[n] \in Place \cup {NoPlace}
    BY DEF AiInv, CacheGood, Good, Named
  <2>2. replies \subseteq ReplyRecord
    BY DEF AiInv, ReplyGood
  <2> QED  BY <2>1, <2>2 DEF TypeOK, AiInv
<1>2. PlacesAreOfTheirNames
  BY DEF AiInv, CacheGood, ReplyGood, Good, PlacesAreOfTheirNames
<1>3. CairoPreferred
  BY DEF AiInv, ReplyGood, Good, CairoPreferred
<1>4. RememberedIsLocated
  <2>1. ASSUME NEW w \in Thread, task[w].pc = "reply"
        PROVE  /\ task[w].reads.from \in task[w].remembered => task[w].from # NoPlace
               /\ task[w].reads.to \in task[w].remembered => task[w].to # NoPlace
    BY <2>1 DEF AiInv, TaskGood
  <2> QED  BY <2>1 DEF RememberedIsLocated
<1>5. TextsReadAsMeant
  <2> SUFFICES ASSUME NEW r \in ByRules,
                      MeantByGoing(r.text) \cup MeantFromTo(r.text, {}) # {}
               PROVE  r.reads \in MeantByGoing(r.text) \cup MeantFromTo(r.text, {})
    BY DEF TextsReadAsMeant
  <2>1. ReplyGood(r)
    BY DEF ByRules, AiInv
  <2>2. r.text \in Text /\ r.reads = ExtractLocations(r.text)
    BY <2>1 DEF ReplyGood, ReplyRecord, ByRules
  <2>3. r.text \in AnyName
    BY <2>2, TextAssumption DEF AnyName
  <2>4. r.reads = ExtractWithRules(r.text)
    BY <2>2 DEF ByRules, ExtractLocations
  <2> QED  BY <2>3, <2>4, RulesReadAsMeant
<1> QED  BY <1>1, <1>2, <1>3, <1>4, <1>5

-----------------------------------------------------------------------------
(* The way to the service.                                                 *)

CallRecord(texts) ==
  [pc : {"none", "ask", "make", "sent", "served", "done"}, asks : texts \cup {Health},
   end : {"none", "boot error", "healthy", "reply", "grpc error"}]

\* What holds of a call, when requests ask about texts and the client is verdict.
CallGood(c, texts, verdict) ==
  /\ c \in CallRecord(texts)
  /\ c.pc # "done" => c.end = "none"
  /\ c.pc \in {"sent", "served"} => c.asks \in texts /\ verdict = Ready
  /\ c.pc = "make" => verdict = NoClient
  /\ c.pc = "done" => verdict # NoClient /\ (c.end = "boot error" <=> verdict = Failed)

\* The inductive invariant of the gateway: the lock is held by the one call
\* that makes the client, and only until there is one; a call past the lock
\* was told the verdict that stands.
GatewayInv ==
  /\ AiInv
  /\ asked \in Asked
  /\ client \in {NoClient, Ready, Failed} /\ opened = (IF client = NoClient THEN 0 ELSE 1)
  /\ opened \in 0..MAX_CALLS
  /\ lock \in 0..MAX_CALLS /\ (lock # 0 => client = NoClient)
  /\ \A k \in Calls : call[k].pc = "make" <=> lock = k
  /\ call \in [Calls -> CallRecord(asked)] /\ \A k \in Calls : CallGood(call[k], asked, client)
  /\ serving \in [Thread -> 0..MAX_CALLS]

LEMMA CallIs == ASSUME NEW k \in Calls PROVE k \in Nat /\ k # 0 /\ k <= MAX_CALLS /\ 1 <= MAX_CALLS
  BY CallsAssumption DEF Calls

\* One call changes to c, which is not making the client, and nothing else does.
LEMMA CallStep ==
  ASSUME GatewayInv, AiInv', NEW k \in Calls, NEW c, CallGood(c, asked, client),
         c.pc # "make", call[k].pc # "make",
         call' = [call EXCEPT ![k] = c],
         UNCHANGED <<asked, client, opened, lock>>, serving' \in [Thread -> 0..MAX_CALLS]
  PROVE  GatewayInv'
<1>1. c \in CallRecord(asked)
  BY DEF CallGood
<1>2. call' \in [Calls -> CallRecord(asked)]
  BY <1>1 DEF GatewayInv
<1>3. ASSUME NEW j \in Calls
      PROVE  CallGood(call'[j], asked, client) /\ (call'[j].pc = "make" <=> lock = j)
  <2>1. CASE j = k
    <3>1. call'[j] = c
      BY <2>1 DEF GatewayInv
    <3> QED  BY <2>1, <3>1 DEF GatewayInv
  <2>2. CASE j # k
    <3>1. call'[j] = call[j]
      BY <2>2 DEF GatewayInv
    <3> QED  BY <3>1 DEF GatewayInv
  <2> QED  BY <2>1, <2>2
<1> QED  BY <1>2, <1>3 DEF GatewayInv

\* A call that ends.
LEMMA Ended ==
  ASSUME GatewayInv, NEW k \in Calls, call[k].pc \in {"sent", "served"},
         NEW end \in {"reply", "grpc error"}
  PROVE  CallGood([call[k] EXCEPT !.pc = "done", !.end = end], asked, client)
<1> DEFINE c == call[k]
           d == [c EXCEPT !.pc = "done", !.end = end]
<1>1. c \in CallRecord(asked) /\ CallGood(c, asked, client) /\ c.pc \in {"sent", "served"}
  BY DEF GatewayInv
<1> HIDE DEF c
<1>2. d \in CallRecord(asked) /\ d.pc = "done" /\ d.end = end
  BY <1>1 DEF CallRecord
<1>3. client = Ready /\ Ready # Failed /\ Ready # NoClient
  BY <1>1 DEF CallGood, Ready, Failed, NoClient
<1> HIDE DEF d
<1>4. CallGood(d, asked, client)
  BY <1>2, <1>3 DEF CallGood
<1> QED  BY <1>4 DEF d, c

\* A call that learns the verdict that stands.
LEMMA ToldGood ==
  ASSUME NEW c, NEW texts, c \in CallRecord(texts), Health \notin texts,
         NEW verdict \in {Ready, Failed},
         NEW pc, NEW end,
         \/ verdict = Failed /\ pc = "done" /\ end = "boot error"
         \/ verdict # Failed /\ c.asks = Health /\ pc = "done" /\ end = "healthy"
         \/ verdict # Failed /\ c.asks # Health /\ pc = "sent" /\ end = "none"
  PROVE  CallGood([c EXCEPT !.pc = pc, !.end = end], texts, verdict) /\ pc # "make"
<1> DEFINE d == [c EXCEPT !.pc = pc, !.end = end]
<1>1. d \in CallRecord(texts) /\ d.pc = pc /\ d.end = end /\ d.asks = c.asks /\ c.asks \in texts \cup {Health}
  BY DEF CallRecord
<1> HIDE DEF d
<1>2. CallGood(d, texts, verdict) /\ pc # "make"
  BY <1>1 DEF CallGood, Ready, Failed, NoClient
<1> QED  BY <1>2 DEF d

LEMMA ToldIs ==
  ASSUME call \in [Calls -> CallRecord(asked)], NEW k \in Calls, NEW verdict, Told(k, verdict)
  PROVE  \E pc, end :
           /\ call' = [call EXCEPT ![k] = [call[k] EXCEPT !.pc = pc, !.end = end]]
           /\ \/ verdict = Failed /\ pc = "done" /\ end = "boot error"
              \/ verdict # Failed /\ call[k].asks = Health /\ pc = "done" /\ end = "healthy"
              \/ verdict # Failed /\ call[k].asks # Health /\ pc = "sent" /\ end = "none"
<1>1. ASSUME NEW pc, NEW end, Set(k, pc, end)
      PROVE  call' = [call EXCEPT ![k] = [call[k] EXCEPT !.pc = pc, !.end = end]]
  BY <1>1 DEF Set
<1> QED  BY <1>1, Zenon DEF Told

LEMMA BeginStep ==
  ASSUME GatewayInv, AiInv', NEW k \in Calls, Begin(k)
  PROVE  GatewayInv'
<1>1. PICK asks \in asked \cup {Health} : call' = [call EXCEPT ![k] = [NoCall EXCEPT !.pc = "ask", !.asks = asks]]
  BY DEF Begin
<1> DEFINE c == [NoCall EXCEPT !.pc = "ask", !.asks = asks]
<1>2. c \in CallRecord(asked) /\ c.pc = "ask" /\ c.end = "none"
  BY DEF NoCall, CallRecord
<1>3. call' = [call EXCEPT ![k] = c]
  BY <1>1
<1> HIDE DEF c
<1>4. CallGood(c, asked, client)
  BY <1>2 DEF CallGood
<1> QED  BY <1>2, <1>3, <1>4, CallStep DEF Begin, GatewayInv

LEMMA HealthIsNoText == GatewayInv => asked \subseteq Text /\ Health \notin asked
  BY AskedAssumption DEF GatewayInv

LEMMA EnterStep ==
  ASSUME GatewayInv, AiInv', NEW k \in Calls, Enter(k)
  PROVE  GatewayInv'
<1>1. /\ call[k].pc = "ask" /\ lock = 0 /\ CallGood(call[k], asked, client)
      /\ call[k] \in CallRecord(asked) /\ UNCHANGED <<asked, client, opened, serving>>
  BY DEF Enter, GatewayInv
<1>2. CASE client # NoClient /\ Told(k, client) /\ lock' = lock
  <2>1. client \in {Ready, Failed}
    BY <1>2 DEF GatewayInv
  <2>2. PICK pc, end :
           /\ call' = [call EXCEPT ![k] = [call[k] EXCEPT !.pc = pc, !.end = end]]
           /\ \/ client = Failed /\ pc = "done" /\ end = "boot error"
              \/ client # Failed /\ call[k].asks = Health /\ pc = "done" /\ end = "healthy"
              \/ client # Failed /\ call[k].asks # Health /\ pc = "sent" /\ end = "none"
    BY <1>2, ToldIs DEF GatewayInv
  <2> DEFINE c == [call[k] EXCEPT !.pc = pc, !.end = end]
  <2>3. CallGood(c, asked, client) /\ pc # "make"
    BY <1>1, <2>1, <2>2, HealthIsNoText, ToldGood
  <2>4. c.pc = pc
    BY <1>1 DEF CallRecord
  <2>5. call' = [call EXCEPT ![k] = c]
    BY <2>2
  <2> HIDE DEF c
  <2> QED  BY <1>1, <1>2, <2>3, <2>4, <2>5, CallStep DEF GatewayInv
<1>3. CASE client = NoClient /\ Set(k, "make", "none") /\ lock' = k
  <2> DEFINE c == [call[k] EXCEPT !.pc = "make", !.end = "none"]
  <2>1. call' = [call EXCEPT ![k] = c]
    BY <1>3 DEF Set, GatewayInv
  <2>2. c \in CallRecord(asked) /\ c.pc = "make" /\ c.end = "none"
    BY <1>1 DEF CallRecord
  <2> HIDE DEF c
  <2>3. CallGood(c, asked, client)
    BY <1>3, <2>2 DEF CallGood
  <2>4. call' \in [Calls -> CallRecord(asked)]
    BY <2>1, <2>2 DEF GatewayInv
  <2>5. ASSUME NEW j \in Calls
        PROVE  CallGood(call'[j], asked, client) /\ (call'[j].pc = "make" <=> j = k)
    <3>1. CASE j = k
      <4>1. call'[j] = c
        BY <2>1, <3>1 DEF GatewayInv
      <4> QED  BY <2>2, <2>3, <3>1, <4>1
    <3>2. CASE j # k
      <4>1. call'[j] = call[j]
        BY <2>1, <3>2 DEF GatewayInv
      <4>2. call[j].pc # "make"
        BY <1>1, CallIs DEF GatewayInv
      <4> QED  BY <3>2, <4>1, <4>2 DEF GatewayInv
    <3> QED  BY <3>1, <3>2
  <2>6. lock' \in 0..MAX_CALLS
    BY <1>3, CallIs, CallsAssumption
  <2> QED  BY <1>1, <1>3, <2>4, <2>5, <2>6 DEF GatewayInv
<1> QED  BY <1>2, <1>3 DEF Enter

\* The verdict falls: every other call still has to ask.
LEMMA MakeStep ==
  ASSUME GatewayInv, AiInv', NEW k \in Calls, Make(k)
  PROVE  GatewayInv'
<1>1. /\ call[k].pc = "make" /\ lock = k /\ client = NoClient /\ opened = 0
      /\ call[k] \in CallRecord(asked) /\ UNCHANGED <<asked, serving>>
  BY DEF Make, GatewayInv, CallGood
<1>2. client' \in {Ready, Failed} /\ client' # NoClient /\ opened' = 1 /\ lock' = 0
  BY <1>1 DEF Make, Ready, Failed, NoClient
<1>3. PICK pc, end :
         /\ call' = [call EXCEPT ![k] = [call[k] EXCEPT !.pc = pc, !.end = end]]
         /\ \/ client' = Failed /\ pc = "done" /\ end = "boot error"
            \/ client' # Failed /\ call[k].asks = Health /\ pc = "done" /\ end = "healthy"
            \/ client' # Failed /\ call[k].asks # Health /\ pc = "sent" /\ end = "none"
  BY ToldIs DEF GatewayInv, Make
<1> DEFINE c == [call[k] EXCEPT !.pc = pc, !.end = end]
<1>4. CallGood(c, asked, client') /\ pc # "make"
  BY <1>1, <1>2, <1>3, HealthIsNoText, ToldGood
<1>5. c.pc = pc
  BY <1>1 DEF CallRecord
<1>6. call' = [call EXCEPT ![k] = c]
  BY <1>3
<1> HIDE DEF c
<1>7. call' \in [Calls -> CallRecord(asked)]
  BY <1>4, <1>6 DEF GatewayInv, CallGood
<1>8. ASSUME NEW j \in Calls
      PROVE  CallGood(call'[j], asked, client') /\ call'[j].pc # "make"
  <2>1. CASE j = k
    <3>1. call'[j] = c
      BY <1>6, <2>1 DEF GatewayInv
    <3> QED  BY <1>4, <1>5, <3>1
  <2>2. CASE j # k
    <3>1. call'[j] = call[j] /\ CallGood(call[j], asked, client) /\ call[j].pc # "make"
      BY <1>1, <1>6, <2>2 DEF GatewayInv
    <3>2. Ready # NoClient
      BY DEF Ready, NoClient
    <3> QED  BY <1>1, <3>1, <3>2 DEF CallGood
  <2> QED  BY <2>1, <2>2
<1>9. \A j \in Calls : j # 0
  BY CallIs
<1> QED  BY <1>1, <1>2, <1>7, <1>8, <1>9, CallsAssumption DEF GatewayInv

\* The calls are untouched.
LEMMA CallsRest ==
  ASSUME GatewayInv, AiInv', UNCHANGED <<asked, client, opened, lock, call>>,
         serving' \in [Thread -> 0..MAX_CALLS]
  PROVE  GatewayInv'
  BY DEF GatewayInv

LEMMA ServeStep ==
  ASSUME GatewayInv, AiInv', NEW w \in Thread, NEW k \in Calls, Serve(w, k)
  PROVE  GatewayInv'
<1> DEFINE c == [call[k] EXCEPT !.pc = "served"]
<1>1. /\ call[k].pc = "sent" /\ CallGood(call[k], asked, client) /\ call[k] \in CallRecord(asked)
      /\ call' = [call EXCEPT ![k] = c] /\ UNCHANGED <<asked, client, opened, lock>>
  BY DEF Serve, GatewayInv
<1>2. /\ c \in CallRecord(asked) /\ c.pc = "served" /\ c.asks = call[k].asks /\ c.end = call[k].end
  BY <1>1 DEF CallRecord
<1> HIDE DEF c
<1>3. CallGood(c, asked, client)
  BY <1>1, <1>2 DEF CallGood
<1>4. serving' \in [Thread -> 0..MAX_CALLS]
  BY CallIs, CallsAssumption DEF Serve, GatewayInv
<1> QED  BY <1>1, <1>2, <1>3, <1>4, CallStep

LEMMA EndStep ==
  ASSUME GatewayInv, AiInv', NEW k \in Calls, call[k].pc \in {"sent", "served"},
         NEW end \in {"reply", "grpc error"}, Set(k, "done", end),
         UNCHANGED <<asked, client, opened, lock>>, serving' \in [Thread -> 0..MAX_CALLS]
  PROVE  GatewayInv'
<1> DEFINE c == [call[k] EXCEPT !.pc = "done", !.end = end]
<1>1. CallGood(c, asked, client)
  BY Ended
<1>2. c.pc = "done"
  BY DEF GatewayInv, CallRecord
<1>3. call' = [call EXCEPT ![k] = c]
  BY DEF Set, GatewayInv
<1> HIDE DEF c
<1> QED  BY <1>1, <1>2, <1>3, CallStep

LEMMA FinishStep ==
  ASSUME GatewayInv, AiInv', NEW w \in Thread, Finish(w)
  PROVE  GatewayInv'
<1>1. serving' \in [Thread -> 0..MAX_CALLS] /\ UNCHANGED <<asked, client, opened, lock>>
  BY CallsAssumption DEF Finish, GatewayInv
<1>2. CASE serving[w] # 0 /\ call[serving[w]].pc = "served"
  <2>1. serving[w] \in Calls /\ Set(serving[w], "done", "reply")
    BY <1>2, CallsAssumption DEF Finish, GatewayInv, Calls
  <2> QED  BY <1>1, <1>2, <2>1, EndStep
<1>3. CASE ~(serving[w] # 0 /\ call[serving[w]].pc = "served")
  BY <1>1, <1>3, CallsRest DEF Finish
<1> QED  BY <1>2, <1>3

LEMMA ServiceRestartsStep ==
  ASSUME GatewayInv, AiInv', ServiceRestarts
  PROVE  GatewayInv'
<1>1. /\ call' = [k \in Calls |-> IF call[k].pc = "served"
                                  THEN [call[k] EXCEPT !.pc = "done", !.end = "grpc error"] ELSE call[k]]
      /\ serving' = [w \in Thread |-> 0] /\ UNCHANGED <<asked, client, opened, lock>>
  BY DEF ServiceRestarts
<1>2. ASSUME NEW k \in Calls
      PROVE  /\ CallGood(call'[k], asked, client) /\ call'[k] \in CallRecord(asked)
             /\ call'[k].pc = "make" <=> lock = k
  <2>1. CASE call[k].pc = "served"
    <3> DEFINE c == [call[k] EXCEPT !.pc = "done", !.end = "grpc error"]
    <3>1. CallGood(c, asked, client)
      BY <2>1, Ended
    <3>2. call'[k] = c
      BY <1>1, <2>1
    <3>3. c.pc = "done"
      BY DEF GatewayInv, CallRecord
    <3> HIDE DEF c
    <3> QED  BY <2>1, <3>1, <3>2, <3>3 DEF GatewayInv, CallGood
  <2>2. CASE call[k].pc # "served"
    <3>1. call'[k] = call[k]
      BY <1>1, <2>2
    <3> QED  BY <3>1 DEF GatewayInv
  <2> QED  BY <2>1, <2>2
<1>3. call' \in [Calls -> CallRecord(asked)]
  BY <1>1, <1>2
<1>4. 0 \in 0..MAX_CALLS
  BY CallsAssumption
<1>5. serving' \in [Thread -> 0..MAX_CALLS]
  BY <1>1, <1>4
<1> QED  BY <1>1, <1>2, <1>3, <1>5 DEF GatewayInv

\* What the gateway does to the service is a step of the service, or nothing.
LEMMA ServiceSteps == GatewayInv /\ [GatewayNext]_gatewayVars => [Next]_vars
<1> SUFFICES ASSUME GatewayInv, [GatewayNext]_gatewayVars PROVE [Next]_vars
  OBVIOUS
<1>1. asked \subseteq Text
  BY HealthIsNoText
<1>2. CASE UNCHANGED gatewayVars
  BY <1>2 DEF gatewayVars
<1>3. ASSUME NEW k \in Calls, Begin(k) \/ Enter(k) \/ Make(k) \/ Expire(k) \/ Unreachable(k)
      PROVE  [Next]_vars
  BY <1>3 DEF Begin, Enter, Make, Expire, Unreachable
<1>4. ASSUME NEW w \in Thread, NEW k \in Calls, Serve(w, k) PROVE [Next]_vars
  <2>1. call[k].pc = "sent" /\ CallGood(call[k], asked, client)
    BY <1>4 DEF Serve, GatewayInv
  <2>2. call[k].asks \in Text
    BY <1>1, <2>1 DEF CallGood
  <2>3. Receive(w, call[k].asks)
    BY <1>4 DEF Serve, Takes
  <2> QED  BY <2>2, <2>3 DEF Next
<1>5. ASSUME NEW w \in Thread, ServeOther(w) PROVE [Next]_vars
  BY <1>1, <1>5 DEF ServeOther, Takes, Next
<1>6. ASSUME NEW w \in Thread, Locating(w) \/ Finish(w) PROVE [Next]_vars
  BY <1>6 DEF Locating, Finish, Next
<1>7. CASE ServiceRestarts
  BY <1>7 DEF ServiceRestarts, Next
<1> QED  BY <1>2, <1>3, <1>4, <1>5, <1>6, <1>7 DEF GatewayNext

LEMMA GatewayStep == GatewayInv /\ [GatewayNext]_gatewayVars => GatewayInv'
<1> SUFFICES ASSUME GatewayInv, [GatewayNext]_gatewayVars PROVE GatewayInv'
  OBVIOUS
<1>1. AiInv'
  BY ServiceSteps, AiStep DEF GatewayInv
<1>2. CASE UNCHANGED gatewayVars
  BY <1>1, <1>2 DEF gatewayVars, GatewayInv
<1>3. ASSUME NEW k \in Calls, Begin(k) \/ Enter(k) \/ Make(k) \/ Expire(k) \/ Unreachable(k)
      PROVE  GatewayInv'
  <2>1. CASE Begin(k) \/ Enter(k) \/ Make(k)
    BY <1>1, <2>1, BeginStep, EnterStep, MakeStep
  <2>2. CASE Expire(k) \/ Unreachable(k)
    BY <1>1, <2>2, EndStep DEF Expire, Unreachable, GatewayInv
  <2> QED  BY <1>3, <2>1, <2>2
<1>4. ASSUME NEW w \in Thread, NEW k \in Calls, Serve(w, k) PROVE GatewayInv'
  BY <1>1, <1>4, ServeStep
<1>5. ASSUME NEW w \in Thread, ServeOther(w) \/ Locating(w) PROVE GatewayInv'
  <2>1. UNCHANGED <<asked, client, opened, lock, call, serving>>
    BY <1>5 DEF ServeOther, Locating
  <2>2. serving' \in [Thread -> 0..MAX_CALLS]
    BY <2>1 DEF GatewayInv
  <2> QED  BY <1>1, <2>1, <2>2, CallsRest
<1>6. ASSUME NEW w \in Thread, Finish(w) PROVE GatewayInv'
  BY <1>1, <1>6, FinishStep
<1>7. CASE ServiceRestarts
  BY <1>1, <1>7, ServiceRestartsStep
<1> QED  BY <1>2, <1>3, <1>4, <1>5, <1>6, <1>7 DEF GatewayNext

LEMMA GatewayInitial == GatewayInit => GatewayInv
<1> SUFFICES ASSUME GatewayInit PROVE GatewayInv
  OBVIOUS
<1>1. AiInv /\ asked \in Asked /\ client = NoClient /\ opened = 0 /\ lock = 0 /\ lock \in 0..MAX_CALLS
  BY AiInitial, CallsAssumption DEF GatewayInit
<1>2. NoCall \in CallRecord(asked) /\ NoCall.pc = "none" /\ NoCall.end = "none"
  BY DEF NoCall, CallRecord
<1>3. CallGood(NoCall, asked, client)
  BY <1>2 DEF CallGood
<1>4. call \in [Calls -> CallRecord(asked)] /\ \A k \in Calls : call[k] = NoCall
  BY <1>2 DEF GatewayInit
<1>5. \A k \in Calls : CallGood(call[k], asked, client) /\ (call[k].pc = "make" <=> lock = k)
  BY <1>1, <1>2, <1>3, <1>4, CallIs
<1>6. serving \in [Thread -> 0..MAX_CALLS]
  BY CallsAssumption DEF GatewayInit
<1> QED  BY <1>1, <1>4, <1>5, <1>6 DEF GatewayInv

LEMMA GatewayImplied == GatewayInv => GatewayTypeOK /\ OneVerdict
<1> SUFFICES ASSUME GatewayInv PROVE GatewayTypeOK /\ OneVerdict
  OBVIOUS
<1>1. TypeOK /\ opened \in 0..1
  BY AiImplied DEF GatewayInv
<1>2. ASSUME NEW j \in Calls, NEW k \in Calls, call[j].end = "boot error"
      PROVE  call[k].pc \in {"none", "ask"} \/ call[k].end = "boot error"
  <2>1. CallGood(call[j], asked, client) /\ CallGood(call[k], asked, client)
    BY DEF GatewayInv
  <2>2. client = Failed
    BY <1>2, <2>1 DEF CallGood
  <2>3. call[k].pc \in {"none", "ask", "make", "sent", "served", "done"}
    BY <2>1 DEF CallGood, CallRecord
  <2> QED  BY <2>1, <2>2, <2>3 DEF CallGood, Failed, Ready, NoClient
<1>3. OneVerdict
  <2>1. opened <= 1
    BY <1>1
  <2> QED  BY <1>2, <2>1, Zenon DEF OneVerdict
<1> QED  BY <1>1, <1>3 DEF GatewayTypeOK, GatewayInv, CallRecord

THEOREM GatewayInvariant == GatewaySpec => []GatewayInv
  BY GatewayInitial, GatewayStep, PTL DEF GatewaySpec

\* The threads behind the gateway, whatever callers come, leave or never
\* call, behave as AiService says, so what holds of the service holds here.
THEOREM ServiceBehindGateway == GatewaySpec => Spec
  BY GatewayInvariant, ServiceSteps, PTL DEF GatewaySpec, GatewayInit, Spec

\* Variables of the service and of the gateway hold what they should: a
\* success, above all, has a located destination with a name.
THEOREM GatewayTyped == GatewaySpec => []GatewayTypeOK
  BY GatewayInvariant, GatewayImplied, PTL

\* Places answered and cached are those given for the very name, for any
\* number of threads that share the cache.  (get_coordinates, ExtractRoute)
THEOREM PlacesStayOfTheirNames == GatewaySpec => []PlacesAreOfTheirNames
  BY ServiceBehindGateway, AiInvariant, AiImplied, PTL

\* A name located in Cairo whenever Cairo is asked for is never answered with
\* a place elsewhere.  (_pick_best_result, get_coordinates)
THEOREM CairoStaysPreferred == GatewaySpec => []CairoPreferred
  BY ServiceBehindGateway, AiInvariant, AiImplied, PTL

\* What the cache held when a request came is located for it.
\* (get_coordinates)
THEOREM RememberedStaysLocated == GatewaySpec => []RememberedIsLocated
  BY ServiceBehindGateway, AiInvariant, AiImplied, PTL

\* What the service answers to a text of one of the patterns of MeantByGoing and
\* MeantFromTo is what the text means, if the model does not label both of its
\* ends.  (extract_locations)
THEOREM TextsStayReadAsMeant == GatewaySpec => []TextsReadAsMeant
  BY ServiceBehindGateway, AiInvariant, AiImplied, PTL

\* One channel is opened, and one verdict told, for any number of requests
\* and health checks.  (get_ai_client)
THEOREM OneVerdictForAll == GatewaySpec => []OneVerdict
  BY GatewayInvariant, GatewayImplied, PTL
=============================================================================
