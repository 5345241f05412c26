------------------------- MODULE RouteOrchestrator -------------------------
(***************************************************************************)
(* The route views of API/Wslny/src/Presentation/views/orchestrator.py:    *)
(* a route by text or by pins, the search for a destination, and the       *)
(* confirmation of a suggested one.  Worker threads of several processes   *)
(* serve them at once and share one table, RouteHistory, which is also     *)
(* where suggestions come from.  A step runs up to the next call of a      *)
(* service or of the database.                                             *)
(*                                                                         *)
(* Outside: the AI service and the routing engine, which answer or fail    *)
(* within their deadline; an insert may be refused (a name longer than its *)
(* column, a lost connection); and a deployment restarts all workers,      *)
(* dropping what they were doing.                                          *)
(***************************************************************************)
EXTENDS Naturals, Sequences, FiniteSets, RouteOptions

CONSTANTS
  Worker,          \* threads of the web processes
  Place,           \* coordinates
  Phrase,          \* texts and names, normalised
  Request,         \* requests that clients send
  AiReply,         \* what the AI service may make of a text
  Found,           \* the sets of options the engine may find
  AiFailure,       \* gRPC statuses a call of the AI service may end with
  RoutingFailure,  \* the same of the routing engine
  Resemblance,     \* Resemblance[t][n]: similarity of two phrases in percent,
                   \* raised by 20 when one contains the other
  WINDOW,          \* rows that suggestions are drawn from (300)
  MAX_REQUESTS     \* bound: requests received in a behaviour

NoPhrase == ""
NoPlace == "nowhere"

GrpcStatus == {"INVALID_ARGUMENT", "NOT_FOUND", "DEADLINE_EXCEEDED", "UNAVAILABLE", "UNKNOWN"}

Spot == [name : Phrase \cup {NoPhrase}, at : Place \cup {NoPlace}]
NoSpot == [name |-> NoPhrase, at |-> NoPlace]
Unnamed(p) == [name |-> NoPhrase, at |-> p]

\* pins tells whether a request holds coordinates (origin and destination of a
\* route request, the destination of a confirmation), and whether they parse.
RequestRecord ==
  [view : {"route", "search", "confirm"}, filter : Filter,
   text : Phrase \cup {NoPhrase}, current : Place \cup {NoPlace},
   pins : {"absent", "unreadable", "given"}, from : Place \cup {NoPlace}, to : Spot]
AiReplyRecord == [text : Phrase, from : Spot, to : [name : Phrase, at : Place]]

ASSUME PhraseAssumption == NoPhrase \notin Phrase /\ {"current_location", "Destination"} \subseteq Phrase
ASSUME PlaceAssumption == NoPlace \notin Place
ASSUME RequestAssumption ==
  /\ Request \subseteq RequestRecord
  /\ \A r \in Request : r.pins = "given" => r.to.at \in Place
ASSUME AiReplyAssumption == AiReply \subseteq AiReplyRecord
ASSUME FoundAssumption == Found \subseteq (SUBSET Option) \ {{}}
ASSUME FailureAssumption == AiFailure \cup RoutingFailure \subseteq GrpcStatus
ASSUME ResemblanceAssumption == Resemblance \in [Phrase -> [Phrase -> Nat]]
ASSUME BoundAssumption == WINDOW \in Nat /\ MAX_REQUESTS \in Nat

VARIABLES
  up,         \* both gRPC clients could be made (no client_boot_error)
  received,   \* requests received so far; numbers stand for the request_ids
  job,        \* what each worker is doing
  history,    \* the rows of RouteHistory, oldest first
  answers     \* the responses sent

vars == <<up, received, job, history, answers>>

NoError == "none"
NoOption == "none"

NoAi == [text |-> NoPhrase, from |-> NoSpot, to |-> NoSpot]
NoRequest == [view |-> "route", filter |-> "optimal", text |-> NoPhrase, current |-> NoPlace,
              pins |-> "absent", from |-> NoPlace, to |-> NoSpot]
Idle == [pc |-> "idle", id |-> 0, req |-> NoRequest, ai |-> NoAi, from |-> NoSpot, to |-> NoSpot,
         code |-> NoError, selected |-> NoOption]

MapAiError(code) ==
  CASE code = "INVALID_ARGUMENT" -> "AI_INVALID_INPUT"
    [] code = "NOT_FOUND" -> "AI_LOCATION_NOT_FOUND"
    [] code = "DEADLINE_EXCEEDED" -> "AI_TIMEOUT"
    [] code = "UNAVAILABLE" -> "AI_UNAVAILABLE"
    [] OTHER -> "AI_UPSTREAM_ERROR"

\* Mutant of MapRoutingError: the status is passed on to the client.
PassOn(code) == code

MapRoutingError(code) ==
  CASE code = "INVALID_ARGUMENT" -> "ROUTING_INVALID_INPUT"
    [] code = "NOT_FOUND" -> "ROUTING_NO_PATH"
    [] code = "DEADLINE_EXCEEDED" -> "ROUTING_TIMEOUT"
    [] code = "UNAVAILABLE" -> "ROUTING_UNAVAILABLE"
    [] OTHER -> "ROUTING_UPSTREAM_ERROR"

Confirm == "DESTINATION_CONFIRMATION_REQUIRED"

-----------------------------------------------------------------------------
Init ==
  /\ up \in BOOLEAN
  /\ received = 0
  /\ job = [w \in Worker |-> Idle]
  /\ history = << >> /\ answers = {}

\* An idle worker takes request r and goes on to pc.
Take(w, r, pc, code, from, to) ==
  /\ job[w].pc = "idle"
  /\ received < MAX_REQUESTS
  /\ received' = received + 1
  /\ job' = [job EXCEPT ![w] = [Idle EXCEPT !.pc = pc, !.id = received + 1, !.req = r,
                                            !.code = code, !.from = from, !.to = to]]
  /\ UNCHANGED <<up, history, answers>>

RecordError(w, r, code) == Take(w, r, "record", code, NoSpot, NoSpot)
AnswerError(w, r, code) == Take(w, r, "answer", code, NoSpot, NoSpot)

HasText(r) == r.text # NoPhrase
HasCoordinates(r) == r.pins # "absent"
Here(r) == [name |-> "current_location", at |-> r.current]

\* RouteOrchestratorView.post, up to its first call.
ReceiveRoute(w, r) ==
  /\ r.view = "route"
  /\ \/ ~up /\ RecordError(w, r, "API_CLIENT_BOOT_ERROR")
     \/ up /\ HasText(r) /\ HasCoordinates(r) /\ RecordError(w, r, "INVALID_REQUEST_MODE")
     \/ up /\ ~HasText(r) /\ r.pins = "unreadable" /\ RecordError(w, r, "INVALID_COORDINATES")
     \/ up /\ ~HasText(r) /\ r.pins = "given"
           /\ Take(w, r, "routing", NoError, Unnamed(r.from), Unnamed(r.to.at))
     \/ up /\ HasText(r) /\ ~HasCoordinates(r) /\ Take(w, r, "ai", NoError, NoSpot, NoSpot)
     \/ up /\ ~HasText(r) /\ ~HasCoordinates(r) /\ RecordError(w, r, "INVALID_REQUEST_BODY")

\* RouteSearchView.post, up to its first call: nothing it refuses is recorded.
ReceiveSearch(w, r) ==
  /\ r.view = "search"
  /\ \/ ~up /\ AnswerError(w, r, "SERVICE_CONFIGURATION_ERROR")
     \/ up /\ ~HasText(r) /\ AnswerError(w, r, "DESTINATION_TEXT_REQUIRED")
     \/ up /\ HasText(r) /\ r.current = NoPlace /\ AnswerError(w, r, "CURRENT_LOCATION_REQUIRED")
     \/ up /\ HasText(r) /\ r.current # NoPlace /\ Take(w, r, "ai", NoError, Here(r), NoSpot)

\* RouteSearchConfirmView.post, up to its call: a destination without a name
\* is called "Destination".
ReceiveConfirm(w, r) ==
  /\ r.view = "confirm"
  /\ \/ ~up /\ AnswerError(w, r, "SERVICE_CONFIGURATION_ERROR")
     \/ up /\ r.current = NoPlace /\ AnswerError(w, r, "CURRENT_LOCATION_REQUIRED")
     \/ up /\ r.current # NoPlace /\ r.pins = "absent" /\ AnswerError(w, r, "DESTINATION_REQUIRED")
     \/ up /\ r.current # NoPlace /\ r.pins = "unreadable"
           /\ AnswerError(w, r, "INVALID_DESTINATION_COORDINATES")
     \/ up /\ r.current # NoPlace /\ r.pins = "given"
           /\ LET name == IF r.to.name = NoPhrase THEN "Destination" ELSE r.to.name
              IN  Take(w, r, "routing", NoError, Here(r), [name |-> name, at |-> r.to.at])

-----------------------------------------------------------------------------
(* The answers of the AI service.                                          *)

\* The AI service failed.  A search takes a text it could not make out for an
\* unknown destination, and answers other failures without recording them.
AiFails(w) ==
  /\ job[w].pc = "ai"
  /\ \E status \in AiFailure :
       LET code == MapAiError(status) IN
       \/ /\ job[w].req.view = "route"
          /\ job' = [job EXCEPT ![w].pc = "record", ![w].code = code]
       \/ /\ job[w].req.view = "search" /\ code \in {"AI_INVALID_INPUT", "AI_LOCATION_NOT_FOUND"}
          /\ job' = [job EXCEPT ![w].pc = "suggest"]
       \/ /\ job[w].req.view = "search" /\ code \notin {"AI_INVALID_INPUT", "AI_LOCATION_NOT_FOUND"}
          /\ job' = [job EXCEPT ![w].pc = "answer", ![w].code = code]
  /\ UNCHANGED <<up, received, history, answers>>

\* A route starts where the reply locates its origin, else where the client
\* is; a search always starts where the client is.
AiAnswers(w) ==
  /\ job[w].pc = "ai"
  /\ \E reply \in AiReply :
       LET r == job[w].req
           locatesOrigin == reply.from.at # NoPlace
           goOn(from) == job' = [job EXCEPT ![w].pc = "routing", ![w].ai = reply,
                                            ![w].from = from, ![w].to = reply.to]
       IN  /\ reply.text = r.text
           /\ \/ r.view = "route" /\ locatesOrigin /\ goOn(reply.from)
              \/ r.view = "route" /\ ~locatesOrigin /\ r.current # NoPlace /\ goOn(Here(r))
              \/ /\ r.view = "route" /\ ~locatesOrigin /\ r.current = NoPlace
                 /\ job' = [job EXCEPT ![w].pc = "record", ![w].ai = reply,
                                       ![w].code = "SOURCE_REQUIRED_OR_CURRENT_LOCATION"]
              \/ r.view = "search" /\ goOn(Here(r))
  /\ UNCHANGED <<up, received, history, answers>>

-----------------------------------------------------------------------------
(* Suggestions: _suggest_destination.                                      *)

Known == {i \in DOMAIN history : history[i].to.name # NoPhrase /\ history[i].to.at # NoPlace}
Window == {i \in Known : Cardinality({j \in Known : j > i}) < WINDOW}
Likeness(text, i) == Resemblance[text][history[i].to.name]

\* The most similar row of the window, the newest of equals; none below 35 %.
Suggestion(text) ==
  {i \in Window : /\ Likeness(text, i) >= 35
                  /\ \A j \in Window : \/ Likeness(text, j) < Likeness(text, i)
                                       \/ (Likeness(text, j) = Likeness(text, i) /\ j <= i)}

\* Mutant of Suggest: the coordinates are those of the newest row.
SuggestNewestPlace(w) ==
  /\ job[w].pc = "suggest"
  /\ \/ \E i \in Suggestion(job[w].req.text) :
          job' = [job EXCEPT ![w].pc = "record", ![w].code = Confirm,
                             ![w].to = [name |-> history[i].to.name, at |-> history[Len(history)].to.at]]
     \/ /\ Suggestion(job[w].req.text) = {}
        /\ job' = [job EXCEPT ![w].pc = "answer", ![w].code = "DESTINATION_NOT_FOUND"]
  /\ UNCHANGED <<up, received, history, answers>>

Suggest(w) ==
  /\ job[w].pc = "suggest"
  /\ \/ \E i \in Suggestion(job[w].req.text) :
          job' = [job EXCEPT ![w].pc = "record", ![w].code = Confirm, ![w].to = history[i].to]
     \/ /\ Suggestion(job[w].req.text) = {}
        /\ job' = [job EXCEPT ![w].pc = "answer", ![w].code = "DESTINATION_NOT_FOUND"]
  /\ UNCHANGED <<up, received, history, answers>>

-----------------------------------------------------------------------------
(* The answers of the routing engine, and the end of a request.            *)

RoutingFails(w) ==
  /\ job[w].pc = "routing"
  /\ \E status \in RoutingFailure :
       job' = [job EXCEPT ![w].pc = "record", ![w].code = MapRoutingError(status)]
  /\ UNCHANGED <<up, received, history, answers>>

\* Mutant of RoutingAnswers: a filter nothing matches is answered at once.
AnswerNoMatchUnrecorded(w) ==
  /\ job[w].pc = "routing"
  /\ \E found \in Found :
       LET eligible == Eligible(found, job[w].req.filter) IN
       \/ \E option \in eligible : job' = [job EXCEPT ![w].pc = "record", ![w].selected = option]
       \/ /\ eligible = {}
          /\ job' = [job EXCEPT ![w].pc = "answer", ![w].code = "ROUTING_NO_MATCHING_FILTER"]
  /\ UNCHANGED <<up, received, history, answers>>

RoutingAnswers(w) ==
  /\ job[w].pc = "routing"
  /\ \E found \in Found :
       LET eligible == Eligible(found, job[w].req.filter) IN
       \/ \E option \in eligible : job' = [job EXCEPT ![w].pc = "record", ![w].selected = option]
       \/ /\ eligible = {}
          /\ job' = [job EXCEPT ![w].pc = "record", ![w].code = "ROUTING_NO_MATCHING_FILTER"]
  /\ UNCHANGED <<up, received, history, answers>>

\* _record_history.  A row is a success exactly when it has no error code.
ByPins(r) == r.view = "confirm" \/ (r.view = "route" /\ ~HasText(r) /\ HasCoordinates(r))

Row(j) ==
  [id |-> j.id,
   source_type |-> IF ByPins(j.req) /\ j.code # "API_CLIENT_BOOT_ERROR" THEN "map" ELSE "text",
   preference |-> IF j.code = "API_CLIENT_BOOT_ERROR" THEN "optimal" ELSE j.req.filter,
   from |-> j.from, to |-> j.to, code |-> j.code, selected |-> j.selected]

Record(w) ==
  /\ job[w].pc = "record"
  /\ history' = Append(history, Row(job[w]))
  /\ job' = [job EXCEPT ![w].pc = "answer"]
  /\ UNCHANGED <<up, received, answers>>

\* Mutant of RecordRefused: the exception is swallowed.
RefusedUnnoticed(w) ==
  /\ job[w].pc = "record"
  /\ job' = [job EXCEPT ![w].pc = "answer"]
  /\ UNCHANGED <<up, received, history, answers>>

\* The insert raises, and the framework answers 500 in the view's place.
RecordRefused(w) ==
  /\ job[w].pc = "record"
  /\ job' = [job EXCEPT ![w].pc = "answer", ![w].code = "SERVER_ERROR"]
  /\ UNCHANGED <<up, received, history, answers>>

\* _success_response, the suggestion of a search, or _error_response.
Response(j) ==
  [id |-> j.id, view |-> j.req.view, code |-> j.code,
   selected |-> IF j.code = NoError THEN j.selected ELSE NoOption,
   from |-> IF j.code = NoError THEN j.from ELSE NoSpot,
   to |-> IF j.code \in {NoError, Confirm} THEN j.to ELSE NoSpot]

\* Mutant of Answer: the worker is not given back.
AnswerAndWait(w) ==
  /\ job[w].pc = "answer"
  /\ answers' = answers \cup {Response(job[w])}
  /\ UNCHANGED <<up, received, job, history>>

Answer(w) ==
  /\ job[w].pc = "answer"
  /\ answers' = answers \cup {Response(job[w])}
  /\ job' = [job EXCEPT ![w] = Idle]
  /\ UNCHANGED <<up, received, history>>

\* A deployment replaces the processes; clients are made anew.
Restart ==
  /\ \E w \in Worker : job[w].pc # "idle"
  /\ up' \in BOOLEAN
  /\ job' = [w \in Worker |-> Idle]
  /\ UNCHANGED <<received, history, answers>>

Work(w) ==
  \/ AiFails(w) \/ AiAnswers(w) \/ Suggest(w) \/ RoutingFails(w) \/ RoutingAnswers(w)
  \/ Record(w) \/ RecordRefused(w) \/ Answer(w)

Next ==
  \/ \E w \in Worker, r \in Request : ReceiveRoute(w, r) \/ ReceiveSearch(w, r) \/ ReceiveConfirm(w, r)
  \/ \E w \in Worker : Work(w)
  \/ Restart

Spec == Init /\ [][Next]_vars

\* Calls of the services end by their deadline, and threads are scheduled.
FairSpec == Spec /\ \A w \in Worker : WF_vars(Work(w))

-----------------------------------------------------------------------------
(* Properties.                                                             *)

Pc == {"idle", "ai", "suggest", "routing", "record", "answer"}

\* Error codes: refused at once and never recorded, failures of a service,
\* and the others.
Invalid == {"SERVICE_CONFIGURATION_ERROR", "DESTINATION_TEXT_REQUIRED", "CURRENT_LOCATION_REQUIRED",
            "DESTINATION_REQUIRED", "INVALID_DESTINATION_COORDINATES"}
AiCode == {"AI_INVALID_INPUT", "AI_LOCATION_NOT_FOUND", "AI_TIMEOUT", "AI_UNAVAILABLE",
           "AI_UPSTREAM_ERROR"}
RoutingCode == {"ROUTING_INVALID_INPUT", "ROUTING_NO_PATH", "ROUTING_TIMEOUT", "ROUTING_UNAVAILABLE",
                "ROUTING_UPSTREAM_ERROR"}
Code == {NoError, Confirm, "SERVER_ERROR", "DESTINATION_NOT_FOUND", "ROUTING_NO_MATCHING_FILTER",
         "SOURCE_REQUIRED_OR_CURRENT_LOCATION", "API_CLIENT_BOOT_ERROR", "INVALID_REQUEST_MODE",
         "INVALID_COORDINATES", "INVALID_REQUEST_BODY"} \cup Invalid \cup AiCode \cup RoutingCode

Job == [pc : Pc, id : Nat, req : RequestRecord, ai : AiReplyRecord \cup {NoAi},
        from : Spot, to : Spot, code : Code, selected : Option \cup {NoOption}]
RowRecord == [id : Nat, source_type : {"text", "map"}, preference : Filter, from : Spot, to : Spot,
              code : Code, selected : Option \cup {NoOption}]
ResponseRecord == [id : Nat, view : {"route", "search", "confirm"}, code : Code,
                   selected : Option \cup {NoOption}, from : Spot, to : Spot]

TypeOK ==
  /\ up \in BOOLEAN /\ received \in 0..MAX_REQUESTS
  /\ job \in [Worker -> Job]
  /\ history \in Seq(RowRecord)
  /\ answers \subseteq ResponseRecord

\* Answered without a row: a refused insert, and what a search or a
\* confirmation refuses at once or cannot resolve.
Unrecorded(a) ==
  \/ a.code = "SERVER_ERROR"
  \/ a.view # "route" /\ a.code \in Invalid \cup {"DESTINATION_NOT_FOUND", "AI_TIMEOUT",
                                                  "AI_UNAVAILABLE", "AI_UPSTREAM_ERROR"}

Agrees(row, a) ==
  /\ row.id = a.id /\ row.code = a.code
  /\ a.code = NoError => row.selected = a.selected /\ row.from = a.from
  /\ a.code \in {NoError, Confirm} => row.to = a.to

\* Whatever the interleaving, a failed insert or a restart in between: a
\* request has at most one row; an answer that should be recorded has its row,
\* written before it, with the same outcome, places and option; and an answer
\* that is not has none.  Analytics and feedback join on it.
\* (_record_history before every response of the views)
AnswersRecorded ==
  /\ \A i, j \in DOMAIN history : history[i].id = history[j].id => i = j
  /\ \A a \in answers :
       IF Unrecorded(a) THEN \A i \in DOMAIN history : history[i].id # a.id
       ELSE \E i \in DOMAIN history : Agrees(history[i], a)

\* A suggestion names a place as some earlier request that was really routed,
\* or tried to be, named it: rows that only record suggestions feed later
\* suggestions, yet no name is ever attached to other coordinates that way.
\* (_suggest_destination and its row)
SuggestionsTraceable ==
  \A i \in DOMAIN history : history[i].code = Confirm =>
    \E j \in 1..(i - 1) : history[j].code # Confirm /\ history[j].to = history[i].to

\* Every request a worker took is answered, or lost to a restart: no failure
\* of a service leaves a worker waiting.
\* (the except clauses of the views)
Served == \A w \in Worker : job[w].pc # "idle" ~> job[w].pc = "idle"

-----------------------------------------------------------------------------
(* The promise this implements.                                            *)

\* What a row has to tell the client, beside the destination it was about.
Entry(row) ==
  [id |-> row.id, code |-> row.code,
   selected |-> IF row.code = NoError THEN row.selected ELSE NoOption,
   from |-> IF row.code = NoError THEN row.from ELSE NoSpot,
   to |-> IF row.code \in {NoError, Confirm} THEN row.to ELSE NoSpot,
   goal |-> row.to]

Service == INSTANCE RouteService WITH
  Routed <- NoError, Suggested <- Confirm,
  taken <- received,
  open <- {job[w].id : w \in {v \in Worker : job[v].pc # "idle"}},
  ledger <- {Entry(history[i]) : i \in DOMAIN history},
  sent <- answers

\* The views keep the promise of RouteService: whatever the interleaving of
\* workers, failed inserts and restarts, a request is booked at most once and
\* only while it is open, is answered at most once, and its answer tells what
\* was booked, or shows nothing when nothing was; nothing is booked or sent
\* for a request that a restart dropped.
\* (request_id, _record_history and the responses of the three views)
ServiceKept == Service!Spec

=============================================================================
