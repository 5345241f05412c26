------------------------------ MODULE AiService ------------------------------
(***************************************************************************)
(* The AI service: ExtractRoute of Ai-Service/Server.py reads an origin    *)
(* and a destination out of a text and locates both, through the geocoder  *)
(* of Ai-Service/geocoder.py, whose cache the threads of the server share. *)
(*                                                                         *)
(* Outside are the language model, Google Maps and Nominatim, which may    *)
(* each raise at any call.  A step runs up to the next call of one of      *)
(* them, and a look at the cache is a step of its own.                     *)
(***************************************************************************)
EXTENDS TextRules

CONSTANTS
  Thread,             \* the server's pool of workers
  Place,              \* coordinates
  InCairo,            \* those within CAIRO_BOUNDS
  Text,               \* texts of requests
  ModelReads,         \* ModelReads[t]: what the model labels in t
  KnownPlace,         \* KNOWN_LOCATION_COORDINATES: a function from names to places
  GOOGLE,             \* a Google Maps client could be made
  GoogleReply(_),     \* GoogleReply(n): the lists of results Google may give for n,
  CairoReply(_),      \* for n in Cairo,
  NominatimReply(_),  \* and the lists Nominatim may give
  MAX_REQUESTS        \* bound: requests in a behaviour

NoPlace == "nowhere"
AnyName == Seq(Word)
ReadingRecord == [from : AnyName, to : AnyName]

ASSUME PlaceAssumption == NoPlace \notin Place /\ InCairo \subseteq Place
ASSUME TextAssumption == Text \subseteq Seq(Word) /\ ModelReads \in [Text -> ReadingRecord]
ASSUME TableAssumption ==
  /\ DOMAIN Alias \subseteq AnyName /\ \A n \in DOMAIN Alias : Alias[n] \in AnyName \ {NoName}
  /\ DOMAIN KnownPlace \subseteq AnyName /\ \A n \in DOMAIN KnownPlace : KnownPlace[n] \in Place
ASSUME BoundAssumption == GOOGLE \in BOOLEAN /\ MAX_REQUESTS \in Nat

VARIABLES
  cache,      \* the places remembered: a function from some names
  task,       \* what each thread is doing
  received,   \* requests taken
  replies     \* the reply sent last

vars == <<cache, task, received, replies>>

NothingCached == [n \in {} |-> NoPlace]
Idle == [pc |-> "idle", text |-> << >>, reads |-> NoReading, side |-> "from", best |-> NoPlace,
         from |-> NoPlace, to |-> NoPlace, remembered |-> {}]

\* Both ends labelled by the model, or else what the rules read: extract_locations.
ExtractLocations(t) ==
  LET labels == ModelReads[t]
  IN  IF labels.from # NoName /\ labels.to # NoName THEN Reading(labels.from, labels.to)
      ELSE ExtractWithRules(t)

\* What a service lists for a name that is read in some text are places.
ASSUME ReplyAssumption ==
  \A t \in Text : \A n \in {ExtractLocations(t).from, ExtractLocations(t).to} :
    GoogleReply(n) \cup CairoReply(n) \cup NominatimReply(n) \subseteq Seq(Place)

-----------------------------------------------------------------------------
(* Locating a name: get_coordinates.                                       *)

\* Mutant of PickBestResult: the first result is taken.
PickFirstResult(results) == results[1]

\* The first result within Cairo, else the first.
PickBestResult(results) ==
  LET inside == {k \in DOMAIN results : results[k] \in InCairo}
  IN  results[IF inside = {} THEN 1 ELSE Min(inside)]

Init ==
  /\ cache = NothingCached
  /\ task = [w \in Thread |-> Idle]
  /\ received = 0
  /\ replies = {}

\* The name that thread w is locating.
Wanted(w) == IF task[w].side = "from" THEN task[w].reads.from ELSE task[w].reads.to

\* w goes on with p for the name it wanted: to the destination, or to reply.
WithPlace(w, p) ==
  IF task[w].side = "from"
  THEN [task EXCEPT ![w].from = p, ![w].pc = "look", ![w].side = "to", ![w].best = NoPlace]
  ELSE [task EXCEPT ![w].to = p, ![w].pc = "reply", ![w].best = NoPlace]

Ask(w, pc) == task' = [task EXCEPT ![w].pc = pc] /\ UNCHANGED cache

Locate(w, p) == task' = WithPlace(w, p) /\ UNCHANGED cache

Keep(names, p) == cache' = [n \in DOMAIN cache \cup names |-> IF n \in names THEN p ELSE cache[n]]

\* Mutant of Remember: the name of the other end is remembered too.
RememberBoth(w, p) ==
  /\ task' = WithPlace(w, p)
  /\ Keep({task[w].reads.to, Wanted(w)}, p)

Remember(w, p) == task' = WithPlace(w, p) /\ Keep({Wanted(w)}, p)

\* Mutant of Fail: the failure is remembered.
FailAndRemember(w) == Remember(w, NoPlace)

\* No service located the name: nothing is remembered.
Fail(w) == Locate(w, NoPlace)

\* Nothing catches what the language model raises.
Receive(w, t) ==
  /\ task[w].pc = "idle" /\ received < MAX_REQUESTS
  /\ received' = received + 1
  /\ \/ t # << >> /\ task' = [task EXCEPT ![w] = [Idle EXCEPT !.pc = "raised", !.text = t]]
     \/ LET reads == ExtractLocations(t) IN
        task' = [task EXCEPT ![w] = [Idle EXCEPT
                   !.pc = IF reads.to = NoName THEN "reply" ELSE "look",
                   !.text = t, !.reads = reads,
                   !.side = IF reads.from = NoName THEN "to" ELSE "from",
                   !.remembered = DOMAIN cache]]
  /\ UNCHANGED <<cache, replies>>

\* The table of known places, the cache, then the services.
Look(w) ==
  /\ task[w].pc = "look"
  /\ \/ Wanted(w) \in DOMAIN KnownPlace /\ Locate(w, KnownPlace[Wanted(w)])
     \/ /\ Wanted(w) \notin DOMAIN KnownPlace /\ Wanted(w) \in DOMAIN cache
        /\ Locate(w, cache[Wanted(w)])
     \/ /\ Wanted(w) \notin DOMAIN KnownPlace /\ Wanted(w) \notin DOMAIN cache
        /\ Ask(w, IF GOOGLE THEN "google" ELSE "nominatim")
  /\ UNCHANGED <<received, replies>>

\* A best result outside Cairo makes for a second query, for the name in
\* Cairo; a query that raises, or finds nothing at all, leaves it to Nominatim.
AskGoogle(w) ==
  /\ task[w].pc = "google"
  /\ \/ Ask(w, "nominatim")
     \/ \E results \in GoogleReply(Wanted(w)) :
          \/ results = << >> /\ Ask(w, "nominatim")
          \/ results # << >> /\ PickBestResult(results) \in InCairo /\ Remember(w, PickBestResult(results))
          \/ /\ results # << >> /\ PickBestResult(results) \notin InCairo
             /\ task' = [task EXCEPT ![w].pc = "cairo", ![w].best = PickBestResult(results)]
             /\ UNCHANGED cache
  /\ UNCHANGED <<received, replies>>

AskGoogleInCairo(w) ==
  /\ task[w].pc = "cairo"
  /\ \/ Ask(w, "nominatim")
     \/ \E results \in CairoReply(Wanted(w)) :
          Remember(w, IF results = << >> THEN task[w].best ELSE PickBestResult(results))
  /\ UNCHANGED <<received, replies>>

AskNominatim(w) ==
  /\ task[w].pc = "nominatim"
  /\ \/ Fail(w)
     \/ \E results \in NominatimReply(Wanted(w)) :
          \/ results = << >> /\ Fail(w)
          \/ results # << >> /\ Remember(w, PickBestResult(results))
  /\ UNCHANGED <<received, replies>>

Code(t) ==
  CASE t.pc = "raised" -> "UNKNOWN"
    [] t.pc # "raised" /\ t.reads.to = NoName -> "INVALID_ARGUMENT"
    [] t.pc # "raised" /\ t.reads.to # NoName /\ t.to = NoPlace -> "NOT_FOUND"
    [] OTHER -> "OK"

\* Mutant of Response: a destination that was not located is no failure.
ResponseAnyway(t) ==
  [code |-> IF Code(t) = "NOT_FOUND" THEN "OK" ELSE Code(t),
   text |-> t.text, reads |-> t.reads, from |-> t.from, to |-> t.to]

\* An error carries no coordinates.
Response(t) ==
  [code |-> Code(t), text |-> t.text, reads |-> t.reads,
   from |-> IF Code(t) = "OK" THEN t.from ELSE NoPlace,
   to |-> IF Code(t) = "OK" THEN t.to ELSE NoPlace]

Reply(w) ==
  /\ task[w].pc \in {"reply", "raised"}
  /\ replies' = {Response(task[w])}
  /\ task' = [task EXCEPT ![w] = Idle]
  /\ UNCHANGED <<cache, received>>

\* The cache lives as long as the process.
Restart ==
  /\ cache' = NothingCached
  /\ task' = [w \in Thread |-> Idle]
  /\ UNCHANGED <<received, replies>>

Next ==
  \/ \E w \in Thread, t \in Text : Receive(w, t)
  \/ \E w \in Thread : \/ Look(w) \/ AskGoogle(w) \/ AskGoogleInCairo(w) \/ AskNominatim(w)
                       \/ Reply(w)
  \/ Restart

Spec == Init /\ [][Next]_vars

-----------------------------------------------------------------------------
(* Properties.                                                             *)

Task == [pc : {"idle", "look", "google", "cairo", "nominatim", "reply", "raised"},
         text : Text \cup {<< >>}, reads : ReadingRecord, side : {"from", "to"}, best : Place \cup {NoPlace},
         from : Place \cup {NoPlace}, to : Place \cup {NoPlace}, remembered : SUBSET AnyName]

\* A success has a located destination with a name: the API counts on it, and
\* its answer to an empty result (AI_EMPTY_RESULT) is never needed.
ReplyRecord ==
  [code : {"OK"}, text : Text, reads : [from : AnyName, to : AnyName \ {NoName}],
   from : Place \cup {NoPlace}, to : Place]
  \cup [code : {"INVALID_ARGUMENT", "NOT_FOUND", "UNKNOWN"}, text : Text, reads : ReadingRecord,
        from : {NoPlace}, to : {NoPlace}]

TypeOK ==
  /\ DOMAIN cache \subseteq AnyName /\ \A n \in DOMAIN cache : cache[n] \in Place \cup {NoPlace}
  /\ task \in [Thread -> Task]
  /\ received \in 0..MAX_REQUESTS
  /\ replies \subseteq ReplyRecord

PlacesIn(lists) == UNION {{results[k] : k \in DOMAIN results} : results \in lists}

\* The places that the table or some service gives for n.
Said(n) ==
  IF n \in DOMAIN KnownPlace THEN {KnownPlace[n]}
  ELSE PlacesIn(GoogleReply(n)) \cup PlacesIn(CairoReply(n)) \cup PlacesIn(NominatimReply(n))

\* Threads share one geocoder and one cache, and one request locates two
\* names through them: still every place answered, or remembered, for a name
\* is one that was given for that very name.
\* (ExtractRoute, get_coordinates)
PlacesAreOfTheirNames ==
  /\ \A n \in DOMAIN cache : cache[n] # NoPlace => cache[n] \in Said(n)
  /\ \A r \in replies :
       /\ r.from # NoPlace => r.reads.from # NoName /\ r.from \in Said(r.reads.from)
       /\ r.to # NoPlace => r.to \in Said(r.reads.to)

\* Names that every service locates in Cairo whenever it is asked about Cairo.
SurelyInCairo(n) ==
  /\ n \notin DOMAIN KnownPlace
  /\ \A results \in CairoReply(n) \cup NominatimReply(n) :
       \E k \in DOMAIN results : results[k] \in InCairo

\* Such a name is never located elsewhere, whatever Google lists first for
\* the name alone and whichever of the calls raises.
\* (_pick_best_result and the second query of get_coordinates)
CairoPreferred ==
  \A r \in replies :
    /\ r.from # NoPlace /\ SurelyInCairo(r.reads.from) => r.from \in InCairo
    /\ r.to # NoPlace /\ SurelyInCairo(r.reads.to) => r.to \in InCairo

\* A name that was in the cache when a request came is located for it: no
\* failure of another request, started earlier and ending later, takes the
\* name back.  (the cache of get_coordinates)
RememberedIsLocated ==
  \A w \in Thread :
    task[w].pc = "reply" =>
      /\ task[w].reads.from \in task[w].remembered => task[w].from # NoPlace
      /\ task[w].reads.to \in task[w].remembered => task[w].to # NoPlace

ByRules ==
  {r \in replies : /\ r.code # "UNKNOWN"
                   /\ ModelReads[r.text].from = NoName \/ ModelReads[r.text].to = NoName}

\* Three ways of naming both ends are read as they are meant, spelled as the
\* expressions have them: "go D from O", also after one opening and followed
\* by either way of saying please; "go D and I am in O" likewise, but for the
\* please that holds the word for from; and "from O to D [please]" at the
\* start of a text.  The openings are those of Asides and of wanting, but for
\* its feminine.  Several expressions match such a text, and the first
\* decides.  (_extract_with_rules)
TextsReadAsMeant ==
  \A r \in ByRules :
    LET meant == MeantByGoing(r.text) \cup MeantFromTo(r.text, {})
    IN  meant # {} => r.reads \in meant

\* The words of to_sep "are all valid Egyptian-Arabic ways of expressing
\* "to"" (Server.py:106-107): what follows one is the destination, also when
\* the text opens with "I want to go".
ToMeansTo ==
  \A r \in ByRules :
    LET meant == MeantFromTo(r.text, Openings)
    IN  meant # {} => r.reads \in meant

=============================================================================
