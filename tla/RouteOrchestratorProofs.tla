---------------------- MODULE RouteOrchestratorProofs ----------------------
(***************************************************************************)
(* The table RouteHistory tells the truth about the answers, and what is   *)
(* read from it while workers write it is right, for any number of         *)
(* workers, any requests, queries and limits, and any window.              *)
(*                                                                         *)
(* The argument follows one request: while a worker has it, its id is the  *)
(* worker's alone, no answer bears it, and no row does until the insert;   *)
(* the outcome held at the insert is one that is recorded, and the outcome *)
(* held at the answer is the row's.  A suggestion held is backed by a row. *)
(*                                                                         *)
(* Rows are only ever added, so what the first statement of a report       *)
(* counted can be counted again in the first rows of any later table.      *)
(***************************************************************************)
EXTENDS RouteReports, FiniteSums

-----------------------------------------------------------------------------
(***************************************************************************)
(* The rows and the answers.                                               *)
(***************************************************************************)

-----------------------------------------------------------------------------
(* The inductive invariant.                                                *)

NoRow(n, h) == \A i \in DOMAIN h : h[i].id # n

\* What holds of a worker's job j, given the table, the answers and the count.
JobInv(j, h, a, r) ==
  /\ j.pc # "idle" => j.id \in 1..r /\ \A x \in a : x.id # j.id
  /\ j.pc \in {"ai", "suggest", "routing"} => j.code = NoError
  /\ j.pc = "suggest" => j.req.view # "route"
  /\ j.pc \in {"ai", "suggest", "routing", "record"} => NoRow(j.id, h)
  /\ j.pc = "record" => ~Unrecorded(Response(j))
  /\ j.pc = "answer" =>
       IF Unrecorded(Response(j)) THEN NoRow(j.id, h)
       ELSE \E i \in DOMAIN h : Agrees(h[i], Response(j))
  /\ j.pc \in {"record", "answer"} /\ j.code = Confirm =>
       \E i \in DOMAIN h : h[i].code # Confirm /\ h[i].to = j.to

OneWorker ==
  \A v, w \in Worker : v # w /\ job[v].pc # "idle" /\ job[w].pc # "idle" => job[v].id # job[w].id

Numbered ==
  /\ \A i \in DOMAIN history : history[i].id \in 1..received
  /\ \A x \in answers : x.id \in 1..received

RecordInv ==
  /\ TypeOK
  /\ \A w \in Worker : JobInv(job[w], history, answers, received)
  /\ OneWorker /\ Numbered
  /\ AnswersRecorded /\ SuggestionsTraceable

-----------------------------------------------------------------------------
(* Types.                                                                  *)

LEMMA SpotFacts ==
  /\ NoSpot \in Spot
  /\ \A p \in Place \cup {NoPlace} : Unnamed(p) \in Spot
  /\ \A r \in RequestRecord : Here(r) \in Spot
BY PhraseAssumption DEF NoSpot, Spot, Unnamed, Here, RequestRecord

LEMMA IdleType == Idle \in Job /\ Idle.pc = "idle"
<1>1. NoRequest \in RequestRecord
  <2>1. /\ "route" \in {"route", "search", "confirm"} /\ "optimal" \in Filter
        /\ NoPhrase \in Phrase \cup {NoPhrase} /\ NoPlace \in Place \cup {NoPlace}
        /\ "absent" \in {"absent", "unreadable", "given"} /\ NoSpot \in Spot
    BY SpotFacts DEF Filter, Option
  <2> QED
    BY <2>1 DEF NoRequest, RequestRecord
<1>2. /\ "idle" \in Pc /\ NoAi \in AiReplyRecord \cup {NoAi} /\ NoSpot \in Spot
      /\ NoError \in Code /\ NoOption \in Option \cup {NoOption}
  BY SpotFacts DEF Pc, Code
<1> QED
  BY <1>1, <1>2 DEF Idle, Job

-----------------------------------------------------------------------------
(* The three ways a job changes: taken, carried on, finished.              *)

LEMMA TakeKeeps ==
  ASSUME RecordInv, NEW w \in Worker, NEW r \in Request, NEW pc \in Pc, NEW code \in Code,
         NEW from \in Spot, NEW to \in Spot, Take(w, r, pc, code, from, to),
         pc # "idle", code # Confirm,
         pc \in {"ai", "suggest", "routing"} => code = NoError,
         pc # "suggest",
         pc = "record" => r.view = "route" /\ code # "SERVER_ERROR",
         pc = "answer" => r.view # "route" /\ code \in Invalid
  PROVE  RecordInv'
<1> DEFINE n == [Idle EXCEPT !.pc = pc, !.id = received + 1, !.req = r, !.code = code, !.from = from, !.to = to]
<1>1. r \in RequestRecord
  BY RequestAssumption
<1>2. received \in Nat /\ received' = received + 1 /\ received' \in 0..MAX_REQUESTS
  BY BoundAssumption DEF RecordInv, TypeOK, Take
<1>3. /\ n \in Job
      /\ n.pc = pc /\ n.id = received + 1 /\ n.req = r /\ n.code = code /\ n.from = from /\ n.to = to
  <2>1. received + 1 \in Nat
    BY <1>2
  <2>2. n \in Job
    BY <1>1, <2>1, IdleType DEF Job
  <2>3. n.pc = pc /\ n.id = received + 1 /\ n.req = r
    BY IdleType DEF Job
  <2>4. n.code = code /\ n.from = from /\ n.to = to
    BY IdleType DEF Job
  <2> QED
    BY <2>2, <2>3, <2>4
<1>4. /\ job' = [job EXCEPT ![w] = n]
      /\ history' = history /\ answers' = answers /\ up' = up
  BY DEF Take
<1> HIDE DEF n
<1>5. TypeOK'
  BY <1>2, <1>3, <1>4 DEF RecordInv, TypeOK
<1>6. \A v \in Worker : job'[v] = IF v = w THEN n ELSE job[v]
  BY <1>4 DEF RecordInv, TypeOK
<1>7. NoRow(n.id, history) /\ \A x \in answers : x.id # n.id
  BY <1>2, <1>3 DEF RecordInv, Numbered, NoRow
<1>8. JobInv(n, history, answers, received')
  <2>1. n.id \in 1..received'
    BY <1>2, <1>3
  <2>2. /\ Response(n).code = code /\ Response(n).view = r.view
    BY <1>3 DEF Response
  <2>3. pc = "record" => ~Unrecorded(Response(n))
    BY <2>2 DEF Unrecorded
  <2>4. pc = "answer" => Unrecorded(Response(n))
    BY <2>2 DEF Unrecorded
  <2> QED
    BY <1>3, <1>7, <2>1, <2>3, <2>4 DEF JobInv
<1>9. \A v \in Worker : JobInv(job[v], history, answers, received')
  BY <1>2 DEF RecordInv, JobInv
<1>10. \A v \in Worker : JobInv(job'[v], history', answers', received')
  BY <1>4, <1>6, <1>8, <1>9
<1>11. OneWorker'
  <2>1. \A v \in Worker : job[v].pc # "idle" => job[v].id # n.id
    BY <1>2, <1>3 DEF RecordInv, JobInv
  <2> QED
    BY <1>6, <2>1 DEF RecordInv, OneWorker
<1>12. Numbered'
  BY <1>2, <1>4 DEF RecordInv, Numbered
<1>13. AnswersRecorded' /\ SuggestionsTraceable'
  BY <1>4 DEF RecordInv, AnswersRecorded, SuggestionsTraceable
<1> QED
  BY <1>5, <1>10, <1>11, <1>12, <1>13 DEF RecordInv

\* A worker goes on with its request.
LEMMA MoveKeeps ==
  ASSUME RecordInv, NEW w \in Worker, NEW STATE n, n \in Job,
         job[w].pc # "idle", n.pc # "idle", n.id = job[w].id,
         job' = [job EXCEPT ![w] = n], UNCHANGED <<up, received, history, answers>>,
         JobInv(n, history, answers, received)
  PROVE  RecordInv'
<1>1. TypeOK'
  BY DEF RecordInv, TypeOK
<1>2. \A v \in Worker : job'[v] = IF v = w THEN n ELSE job[v]
  BY DEF RecordInv, TypeOK
<1>3. \A v \in Worker : JobInv(job'[v], history', answers', received')
  BY <1>2 DEF RecordInv
<1>4. OneWorker'
  BY <1>2 DEF RecordInv, OneWorker
<1>5. Numbered' /\ AnswersRecorded' /\ SuggestionsTraceable'
  BY DEF RecordInv, Numbered, AnswersRecorded, SuggestionsTraceable
<1> QED
  BY <1>1, <1>3, <1>4, <1>5 DEF RecordInv

-----------------------------------------------------------------------------
(* The actions.                                                            *)

LEMMA ReceiveRouteKeeps ==
  ASSUME RecordInv, NEW w \in Worker, NEW r \in Request, ReceiveRoute(w, r)
  PROVE  RecordInv'
<1>1. r \in RequestRecord /\ r.view = "route"
  BY RequestAssumption DEF ReceiveRoute
<1>2. NoSpot \in Spot /\ Unnamed(r.from) \in Spot /\ Unnamed(r.to.at) \in Spot
  BY <1>1, SpotFacts DEF RequestRecord, Spot
<1>3. "ai" \in Pc /\ "routing" \in Pc /\ "record" \in Pc /\ NoError \in Code /\ NoError # Confirm
  BY DEF Pc, Code, NoError, Confirm
<1>4. ASSUME NEW code \in {"API_CLIENT_BOOT_ERROR", "INVALID_REQUEST_MODE", "INVALID_COORDINATES",
                           "INVALID_REQUEST_BODY"}, RecordError(w, r, code)
      PROVE  RecordInv'
  <2>1. code \in Code /\ code # Confirm /\ code # "SERVER_ERROR"
    BY <1>4 DEF Code, Confirm
  <2> QED
    BY <1>1, <1>2, <1>3, <1>4, <2>1, TakeKeeps DEF RecordError
<1>5. ASSUME Take(w, r, "routing", NoError, Unnamed(r.from), Unnamed(r.to.at))
      PROVE  RecordInv'
  BY <1>2, <1>3, <1>5, TakeKeeps
<1>6. ASSUME Take(w, r, "ai", NoError, NoSpot, NoSpot)
      PROVE  RecordInv'
  BY <1>2, <1>3, <1>6, TakeKeeps
<1> QED
  BY <1>4, <1>5, <1>6 DEF ReceiveRoute

LEMMA AnswerErrorKeeps ==
  ASSUME RecordInv, NEW w \in Worker, NEW r \in Request, NEW code \in Invalid,
         r.view # "route", AnswerError(w, r, code)
  PROVE  RecordInv'
<1>1. code \in Code /\ code # Confirm
  BY DEF Code, Invalid, Confirm
<1>2. "answer" \in Pc /\ NoSpot \in Spot
  BY SpotFacts DEF Pc
<1> QED
  BY <1>1, <1>2, TakeKeeps DEF AnswerError

LEMMA ReceiveSearchKeeps ==
  ASSUME RecordInv, NEW w \in Worker, NEW r \in Request, ReceiveSearch(w, r)
  PROVE  RecordInv'
<1>1. r \in RequestRecord /\ r.view # "route"
  BY RequestAssumption DEF ReceiveSearch
<1>2. NoSpot \in Spot /\ Here(r) \in Spot
  BY <1>1, SpotFacts
<1>3. "ai" \in Pc /\ NoError \in Code /\ NoError # Confirm
  BY DEF Pc, Code, NoError, Confirm
<1>4. ASSUME NEW code \in Invalid, AnswerError(w, r, code)
      PROVE  RecordInv'
  BY <1>1, <1>4, AnswerErrorKeeps
<1>5. ASSUME Take(w, r, "ai", NoError, Here(r), NoSpot)
      PROVE  RecordInv'
  BY <1>2, <1>3, <1>5, TakeKeeps
<1> QED
  BY <1>4, <1>5 DEF ReceiveSearch, Invalid

LEMMA ReceiveConfirmKeeps ==
  ASSUME RecordInv, NEW w \in Worker, NEW r \in Request, ReceiveConfirm(w, r)
  PROVE  RecordInv'
<1> DEFINE name == IF r.to.name = NoPhrase THEN "Destination" ELSE r.to.name
<1>1. r \in RequestRecord /\ r.view # "route"
  BY RequestAssumption DEF ReceiveConfirm
<1>2. Here(r) \in Spot
  BY <1>1, SpotFacts
<1>3. [name |-> name, at |-> r.to.at] \in Spot
  <2>1. r.to \in Spot
    BY <1>1 DEF RequestRecord
  <2> QED
    BY <2>1, PhraseAssumption DEF Spot
<1>4. "routing" \in Pc /\ NoError \in Code /\ NoError # Confirm
  BY DEF Pc, Code, NoError, Confirm
<1>5. ASSUME NEW code \in Invalid, AnswerError(w, r, code)
      PROVE  RecordInv'
  BY <1>1, <1>5, AnswerErrorKeeps
<1> HIDE DEF name
<1>6. ASSUME Take(w, r, "routing", NoError, Here(r), [name |-> name, at |-> r.to.at])
      PROVE  RecordInv'
  BY <1>2, <1>3, <1>4, <1>6, TakeKeeps
<1> USE DEF name
<1> QED
  BY <1>5, <1>6 DEF ReceiveConfirm, Invalid

\* A call came back: what the worker holds next keeps its invariant.
LEMMA CarryOn ==
  ASSUME RecordInv, NEW w \in Worker, NEW STATE n, n \in Job,
         job[w].pc \in {"ai", "suggest", "routing"}, n.id = job[w].id,
         job' = [job EXCEPT ![w] = n], UNCHANGED <<up, received, history, answers>>,
         \/ n.pc = "routing" /\ n.code = NoError
         \/ n.pc = "suggest" /\ n.code = NoError /\ n.req.view # "route"
         \/ /\ n.pc = "record" /\ ~Unrecorded(Response(n))
            /\ n.code = Confirm => \E i \in DOMAIN history : history[i].code # Confirm /\ history[i].to = n.to
         \/ n.pc = "answer" /\ Unrecorded(Response(n)) /\ n.code # Confirm
  PROVE  RecordInv'
<1>1. JobInv(job[w], history, answers, received)
  BY DEF RecordInv
<1>2. JobInv(n, history, answers, received)
  BY <1>1 DEF JobInv, NoError, Confirm
<1>3. n.pc # "idle" /\ job[w].pc # "idle"
  OBVIOUS
<1> QED
  BY <1>2, <1>3, MoveKeeps

\* Fields of a response that decide whether it is recorded.
LEMMA ResponseFields ==
  ASSUME NEW j
  PROVE  Response(j).code = j.code /\ Response(j).view = j.req.view /\ Response(j).id = j.id
BY DEF Response

LEMMA AiCodes ==
  ASSUME NEW status \in GrpcStatus
  PROVE  /\ MapAiError(status) \in Code /\ MapAiError(status) \notin {NoError, Confirm, "SERVER_ERROR"}
         /\ MapAiError(status) \in {"AI_INVALID_INPUT", "AI_LOCATION_NOT_FOUND", "AI_TIMEOUT",
                                    "AI_UNAVAILABLE", "AI_UPSTREAM_ERROR"}
<1>1. MapAiError(status) \in {"AI_INVALID_INPUT", "AI_LOCATION_NOT_FOUND", "AI_TIMEOUT",
                              "AI_UNAVAILABLE", "AI_UPSTREAM_ERROR"}
  BY DEF MapAiError
<1>2. MapAiError(status) \in Code
  BY <1>1 DEF Code, AiCode
<1> QED
  BY <1>1, <1>2 DEF NoError, Confirm

LEMMA RoutingCodes ==
  ASSUME NEW status \in GrpcStatus
  PROVE  /\ MapRoutingError(status) \in Code
         /\ MapRoutingError(status) \in {"ROUTING_INVALID_INPUT", "ROUTING_NO_PATH", "ROUTING_TIMEOUT",
                                         "ROUTING_UNAVAILABLE", "ROUTING_UPSTREAM_ERROR"}
<1>1. MapRoutingError(status) \in {"ROUTING_INVALID_INPUT", "ROUTING_NO_PATH", "ROUTING_TIMEOUT",
                                   "ROUTING_UNAVAILABLE", "ROUTING_UPSTREAM_ERROR"}
  BY DEF MapRoutingError
<1> QED
  BY <1>1 DEF Code, RoutingCode

LEMMA AiFailsKeeps ==
  ASSUME RecordInv, NEW w \in Worker, AiFails(w)
  PROVE  RecordInv'
<1>1. PICK status \in AiFailure :
        LET code == MapAiError(status) IN
        \/ /\ job[w].req.view = "route"
           /\ job' = [job EXCEPT ![w].pc = "record", ![w].code = code]
        \/ /\ job[w].req.view = "search" /\ code \in {"AI_INVALID_INPUT", "AI_LOCATION_NOT_FOUND"}
           /\ job' = [job EXCEPT ![w].pc = "suggest"]
        \/ /\ job[w].req.view = "search" /\ code \notin {"AI_INVALID_INPUT", "AI_LOCATION_NOT_FOUND"}
           /\ job' = [job EXCEPT ![w].pc = "answer", ![w].code = code]
  BY DEF AiFails
<1> DEFINE code == MapAiError(status)
<1>2. /\ code \in Code /\ code \notin {NoError, Confirm, "SERVER_ERROR"}
      /\ code \in {"AI_INVALID_INPUT", "AI_LOCATION_NOT_FOUND", "AI_TIMEOUT", "AI_UNAVAILABLE",
                   "AI_UPSTREAM_ERROR"}
  BY FailureAssumption, AiCodes
<1>3. /\ job[w] \in Job /\ job[w].pc = "ai" /\ job[w].code = NoError
      /\ UNCHANGED <<up, received, history, answers>>
  BY DEF AiFails, RecordInv, TypeOK, JobInv
<1>4. {"record", "suggest", "answer"} \subseteq Pc
  BY DEF Pc
<1> HIDE DEF code
<1>5. CASE job[w].req.view = "route" /\ job' = [job EXCEPT ![w].pc = "record", ![w].code = code]
  <2> DEFINE n == [job[w] EXCEPT !.pc = "record", !.code = code]
  <2>1. n \in Job /\ n.pc = "record" /\ n.code = code /\ n.id = job[w].id /\ n.req = job[w].req
    BY <1>2, <1>3, <1>4 DEF Job
  <2>2. job' = [job EXCEPT ![w] = n]
    BY <1>5
  <2>3. ~Unrecorded(Response(n))
    BY <1>2, <1>5, <2>1, ResponseFields DEF Unrecorded
  <2> HIDE DEF n
  <2> QED
    BY <1>2, <1>3, <2>1, <2>2, <2>3, CarryOn
<1>6. CASE job[w].req.view = "search" /\ job' = [job EXCEPT ![w].pc = "suggest"]
  <2> DEFINE n == [job[w] EXCEPT !.pc = "suggest"]
  <2>1. n \in Job /\ n.pc = "suggest" /\ n.code = NoError /\ n.id = job[w].id /\ n.req.view # "route"
    BY <1>6, <1>3, <1>4 DEF Job
  <2>2. job' = [job EXCEPT ![w] = n]
    BY <1>6
  <2> HIDE DEF n
  <2> QED
    BY <1>3, <2>1, <2>2, CarryOn
<1>7. CASE /\ job[w].req.view = "search" /\ code \notin {"AI_INVALID_INPUT", "AI_LOCATION_NOT_FOUND"}
           /\ job' = [job EXCEPT ![w].pc = "answer", ![w].code = code]
  <2> DEFINE n == [job[w] EXCEPT !.pc = "answer", !.code = code]
  <2>1. n \in Job /\ n.pc = "answer" /\ n.code = code /\ n.id = job[w].id /\ n.req = job[w].req
    BY <1>2, <1>3, <1>4 DEF Job
  <2>2. job' = [job EXCEPT ![w] = n]
    BY <1>7
  <2>3. Unrecorded(Response(n))
    BY <1>2, <1>7, <2>1, ResponseFields DEF Unrecorded
  <2> HIDE DEF n
  <2> QED
    BY <1>2, <1>3, <2>1, <2>2, <2>3, CarryOn
<1> QED
  BY <1>1, <1>5, <1>6, <1>7 DEF code

LEMMA AiAnswersKeeps ==
  ASSUME RecordInv, NEW w \in Worker, AiAnswers(w)
  PROVE  RecordInv'
<1>0. PICK reply \in AiReply : \E from \in {reply.from, Here(job[w].req)} :
        \/ job' = [job EXCEPT ![w].pc = "routing", ![w].ai = reply, ![w].from = from, ![w].to = reply.to]
        \/ /\ job[w].req.view = "route"
           /\ job' = [job EXCEPT ![w].pc = "record", ![w].ai = reply,
                                 ![w].code = "SOURCE_REQUIRED_OR_CURRENT_LOCATION"]
  BY DEF AiAnswers
<1>1. PICK from \in {reply.from, Here(job[w].req)} :
        \/ job' = [job EXCEPT ![w].pc = "routing", ![w].ai = reply, ![w].from = from, ![w].to = reply.to]
        \/ /\ job[w].req.view = "route"
           /\ job' = [job EXCEPT ![w].pc = "record", ![w].ai = reply,
                                 ![w].code = "SOURCE_REQUIRED_OR_CURRENT_LOCATION"]
  BY <1>0
<1>2. /\ job[w] \in Job /\ job[w].pc = "ai" /\ job[w].code = NoError
      /\ UNCHANGED <<up, received, history, answers>>
  BY DEF AiAnswers, RecordInv, TypeOK, JobInv
<1>3. {"routing", "record"} \subseteq Pc /\ "SOURCE_REQUIRED_OR_CURRENT_LOCATION" \in Code
  BY DEF Pc, Code
<1>4. reply \in AiReplyRecord
  BY AiReplyAssumption
<1>5. from \in Spot /\ reply.to \in Spot
  <2>1. reply.from \in Spot
    BY <1>4 DEF AiReplyRecord
  <2>2. reply.to \in [name : Phrase, at : Place]
    BY <1>4 DEF AiReplyRecord
  <2>3. Here(job[w].req) \in Spot
    BY <1>2, SpotFacts DEF Job
  <2> QED
    BY <2>1, <2>2, <2>3 DEF Spot
<1>6. CASE job' = [job EXCEPT ![w].pc = "routing", ![w].ai = reply, ![w].from = from, ![w].to = reply.to]
  <2> DEFINE n == [job[w] EXCEPT !.pc = "routing", !.ai = reply, !.from = from, !.to = reply.to]
  <2>1. n \in Job /\ n.pc = "routing" /\ n.code = NoError /\ n.id = job[w].id
    BY <1>2, <1>3, <1>4, <1>5 DEF Job
  <2>2. job' = [job EXCEPT ![w] = n]
    BY <1>6
  <2> HIDE DEF n
  <2> QED
    BY <1>2, <2>1, <2>2, CarryOn
<1>7. CASE /\ job[w].req.view = "route"
           /\ job' = [job EXCEPT ![w].pc = "record", ![w].ai = reply,
                                 ![w].code = "SOURCE_REQUIRED_OR_CURRENT_LOCATION"]
  <2> DEFINE n == [job[w] EXCEPT !.pc = "record", !.ai = reply, !.code = "SOURCE_REQUIRED_OR_CURRENT_LOCATION"]
  <2>1. n \in Job /\ n.pc = "record" /\ n.id = job[w].id
    BY <1>2, <1>3, <1>4 DEF Job
  <2>2. n.code = "SOURCE_REQUIRED_OR_CURRENT_LOCATION" /\ n.req = job[w].req
    BY <1>2 DEF Job
  <2>3. job' = [job EXCEPT ![w] = n]
    BY <1>7
  <2>4. ~Unrecorded(Response(n)) /\ n.code # Confirm
    BY <1>7, <2>2, ResponseFields DEF Unrecorded, Confirm
  <2> HIDE DEF n
  <2> QED
    BY <1>2, <2>1, <2>3, <2>4, CarryOn
<1> QED
  BY <1>1, <1>6, <1>7

\* The row a suggestion is taken from traces to one that is no suggestion.
LEMMA SuggestKeeps ==
  ASSUME RecordInv, NEW w \in Worker, Suggest(w)
  PROVE  RecordInv'
<1>1. /\ job[w] \in Job /\ job[w].pc = "suggest" /\ job[w].code = NoError
      /\ UNCHANGED <<up, received, history, answers>>
  BY DEF Suggest, RecordInv, TypeOK, JobInv
<1>2. {"record", "answer"} \subseteq Pc /\ Confirm \in Code /\ "DESTINATION_NOT_FOUND" \in Code
  BY DEF Pc, Code
<1>3. ASSUME NEW i \in Suggestion(job[w].req.text),
             job' = [job EXCEPT ![w].pc = "record", ![w].code = Confirm, ![w].to = history[i].to]
      PROVE  RecordInv'
  <2>1. i \in DOMAIN history /\ history \in Seq(RowRecord)
    <3>1. i \in Window
      BY DEF Suggestion
    <3>2. i \in Known
      BY <3>1 DEF Window
    <3>3. i \in DOMAIN history
      BY <3>2 DEF Known
    <3>4. history \in Seq(RowRecord)
      BY DEF RecordInv, TypeOK
    <3> QED
      BY <3>3, <3>4
  <2>2. history[i].to \in Spot
    <3>1. history[i] \in RowRecord
      BY <2>1
    <3> QED
      BY <3>1 DEF RowRecord
  <2>3. \E j \in DOMAIN history : history[j].code # Confirm /\ history[j].to = history[i].to
    BY <2>1 DEF RecordInv, SuggestionsTraceable
  <2> DEFINE n == [job[w] EXCEPT !.pc = "record", !.code = Confirm, !.to = history[i].to]
  <2>4. n \in Job /\ n.pc = "record" /\ n.id = job[w].id
    BY <1>1, <1>2, <2>2 DEF Job
  <2>5. n.code = Confirm /\ n.to = history[i].to
    BY <1>1 DEF Job
  <2>6. job' = [job EXCEPT ![w] = n]
    BY <1>3
  <2>7. ~Unrecorded(Response(n))
    BY <2>5, ResponseFields DEF Unrecorded, Confirm, Invalid
  <2> HIDE DEF n
  <2> QED
    BY <1>1, <2>3, <2>4, <2>5, <2>6, <2>7, CarryOn
<1>4. ASSUME job' = [job EXCEPT ![w].pc = "answer", ![w].code = "DESTINATION_NOT_FOUND"],
             job[w].req.view # "route"
      PROVE  RecordInv'
  <2> DEFINE n == [job[w] EXCEPT !.pc = "answer", !.code = "DESTINATION_NOT_FOUND"]
  <2>1. n \in Job /\ n.pc = "answer" /\ n.id = job[w].id
    BY <1>1, <1>2 DEF Job
  <2>2. n.code = "DESTINATION_NOT_FOUND" /\ n.req = job[w].req
    BY <1>1 DEF Job
  <2>3. job' = [job EXCEPT ![w] = n]
    BY <1>4
  <2>4. Unrecorded(Response(n)) /\ n.code # Confirm
    BY <1>4, <2>2, ResponseFields DEF Unrecorded, Confirm
  <2> HIDE DEF n
  <2> QED
    BY <1>1, <2>1, <2>3, <2>4, CarryOn
<1>5. job[w].req.view # "route"
  BY <1>1 DEF RecordInv, JobInv
<1>6. \/ \E i \in Suggestion(job[w].req.text) :
           job' = [job EXCEPT ![w].pc = "record", ![w].code = Confirm, ![w].to = history[i].to]
      \/ job' = [job EXCEPT ![w].pc = "answer", ![w].code = "DESTINATION_NOT_FOUND"]
  BY DEF Suggest
<1> QED
  BY <1>3, <1>4, <1>5, <1>6

LEMMA RoutingFailsKeeps ==
  ASSUME RecordInv, NEW w \in Worker, RoutingFails(w)
  PROVE  RecordInv'
<1>1. PICK status \in RoutingFailure :
        job' = [job EXCEPT ![w].pc = "record", ![w].code = MapRoutingError(status)]
  BY DEF RoutingFails
<1>2. /\ job[w] \in Job /\ job[w].pc = "routing"
      /\ UNCHANGED <<up, received, history, answers>>
  BY DEF RoutingFails, RecordInv, TypeOK
<1> DEFINE code == MapRoutingError(status)
           n == [job[w] EXCEPT !.pc = "record", !.code = code]
<1>3. /\ code \in Code
      /\ code \in {"ROUTING_INVALID_INPUT", "ROUTING_NO_PATH", "ROUTING_TIMEOUT",
                   "ROUTING_UNAVAILABLE", "ROUTING_UPSTREAM_ERROR"}
  BY FailureAssumption, RoutingCodes
<1> HIDE DEF code
<1>4. n \in Job /\ n.pc = "record" /\ n.id = job[w].id /\ n.code = code
  BY <1>2, <1>3 DEF Job, Pc
<1>5. job' = [job EXCEPT ![w] = n]
  BY <1>1 DEF code
<1>6. ~Unrecorded(Response(n)) /\ n.code # Confirm
  BY <1>3, <1>4, ResponseFields DEF Unrecorded, Confirm, Invalid
<1> HIDE DEF n
<1> QED
  BY <1>2, <1>4, <1>5, <1>6, CarryOn

LEMMA RoutingAnswersKeeps ==
  ASSUME RecordInv, NEW w \in Worker, RoutingAnswers(w)
  PROVE  RecordInv'
<1>1. /\ job[w] \in Job /\ job[w].pc = "routing" /\ job[w].code = NoError
      /\ UNCHANGED <<up, received, history, answers>>
  BY DEF RoutingAnswers, RecordInv, TypeOK, JobInv
<1>2. PICK found \in Found :
        \/ \E option \in Eligible(found, job[w].req.filter) :
             job' = [job EXCEPT ![w].pc = "record", ![w].selected = option]
        \/ job' = [job EXCEPT ![w].pc = "record", ![w].code = "ROUTING_NO_MATCHING_FILTER"]
  BY DEF RoutingAnswers
<1>3. ASSUME NEW option \in Eligible(found, job[w].req.filter),
             job' = [job EXCEPT ![w].pc = "record", ![w].selected = option]
      PROVE  RecordInv'
  <2>1. option \in Option
    BY FoundAssumption DEF Eligible
  <2> DEFINE n == [job[w] EXCEPT !.pc = "record", !.selected = option]
  <2>2. n \in Job /\ n.pc = "record" /\ n.id = job[w].id /\ n.code = NoError
    BY <1>1, <2>1 DEF Job, Pc
  <2>3. job' = [job EXCEPT ![w] = n]
    BY <1>3
  <2>4. ~Unrecorded(Response(n)) /\ n.code # Confirm
    BY <2>2, ResponseFields DEF Unrecorded, NoError, Confirm, Invalid
  <2> HIDE DEF n
  <2> QED
    BY <1>1, <2>2, <2>3, <2>4, CarryOn
<1>4. ASSUME job' = [job EXCEPT ![w].pc = "record", ![w].code = "ROUTING_NO_MATCHING_FILTER"]
      PROVE  RecordInv'
  <2> DEFINE n == [job[w] EXCEPT !.pc = "record", !.code = "ROUTING_NO_MATCHING_FILTER"]
  <2>1. n \in Job /\ n.pc = "record" /\ n.id = job[w].id /\ n.code = "ROUTING_NO_MATCHING_FILTER"
    BY <1>1 DEF Job, Pc, Code
  <2>2. job' = [job EXCEPT ![w] = n]
    BY <1>4
  <2>3. ~Unrecorded(Response(n)) /\ n.code # Confirm
    BY <2>1, ResponseFields DEF Unrecorded, Confirm, Invalid
  <2> HIDE DEF n
  <2> QED
    BY <1>1, <2>1, <2>2, <2>3, CarryOn
<1> QED
  BY <1>2, <1>3, <1>4

\* The insert: the row has the worker's id, which no row had, and its outcome.
LEMMA RecordKeeps ==
  ASSUME RecordInv, NEW w \in Worker, Record(w)
  PROVE  RecordInv'
<1> DEFINE n == [job[w] EXCEPT !.pc = "answer"]
           row == Row(job[w])
<1>1. /\ job[w] \in Job /\ job[w].pc = "record" /\ history \in Seq(RowRecord)
      /\ history' = Append(history, row) /\ UNCHANGED <<up, received, answers>>
      /\ job' = [job EXCEPT ![w] = n]
  BY DEF Record, RecordInv, TypeOK
<1>2. /\ n \in Job /\ n.pc = "answer" /\ n.id = job[w].id /\ n.code = job[w].code
      /\ n.to = job[w].to /\ n.from = job[w].from /\ n.selected = job[w].selected /\ n.req = job[w].req
  BY <1>1 DEF Job, Pc
<1>3. /\ row.id = job[w].id /\ row.code = job[w].code /\ row.to = job[w].to
      /\ row.from = job[w].from /\ row.selected = job[w].selected
  BY DEF Row
<1>4. row \in RowRecord
  <2>1. job[w].req.filter \in Filter
    BY <1>1 DEF Job, RequestRecord
  <2>2. /\ job[w].id \in Nat /\ job[w].from \in Spot /\ job[w].to \in Spot
        /\ job[w].code \in Code /\ job[w].selected \in Option \cup {NoOption}
    BY <1>1 DEF Job
  <2>3. "optimal" \in Filter
    BY DEF Filter, Option
  <2> QED
    BY <2>1, <2>2, <2>3 DEF Row, RowRecord
<1>5. Response(n) = Response(job[w])
  BY <1>2 DEF Response
<1> DEFINE k == Len(history) + 1
<1>6. /\ Len(history) \in Nat /\ DOMAIN history = 1..Len(history)
      /\ DOMAIN history' = 1..k /\ history'[k] = row
      /\ \A i \in DOMAIN history : i \in DOMAIN history' /\ i # k /\ history'[i] = history[i]
      /\ \A i \in DOMAIN history' : i # k => i \in DOMAIN history
  BY <1>1
<1>7. k \in DOMAIN history'
  BY <1>6
<1> HIDE DEF n, row, k
<1>8. TypeOK'
  <2>1. history' \in Seq(RowRecord)
    BY <1>1, <1>4
  <2>2. job' \in [Worker -> Job]
    BY <1>1, <1>2 DEF RecordInv, TypeOK
  <2> QED
    BY <1>1, <2>1, <2>2 DEF RecordInv, TypeOK
<1>9. \A v \in Worker : job'[v] = IF v = w THEN n ELSE job[v]
  BY <1>1 DEF RecordInv, TypeOK
<1>10. /\ JobInv(job[w], history, answers, received)
       /\ NoRow(job[w].id, history) /\ ~Unrecorded(Response(job[w]))
       /\ job[w].id \in 1..received /\ \A x \in answers : x.id # job[w].id
  BY <1>1 DEF RecordInv, JobInv
<1>11. Agrees(row, Response(job[w]))
  BY <1>3 DEF Agrees, Response, NoError, Confirm
<1>12. JobInv(n, history', answers', received')
  <2>1. n.code = Confirm => \E i \in DOMAIN history' : history'[i].code # Confirm /\ history'[i].to = n.to
    BY <1>1, <1>2, <1>6, <1>10 DEF JobInv
  <2>2. \E i \in DOMAIN history' : Agrees(history'[i], Response(n))
    BY <1>5, <1>6, <1>7, <1>11
  <2> QED
    BY <1>1, <1>2, <1>5, <1>10, <2>1, <2>2 DEF JobInv
<1>13. ASSUME NEW v \in Worker, v # w
       PROVE  JobInv(job'[v], history', answers', received')
  <2>1. job'[v] = job[v] /\ JobInv(job[v], history, answers, received)
    BY <1>9, <1>13 DEF RecordInv
  <2>2. job[v].pc # "idle" => job[v].id # row.id
    BY <1>1, <1>3, <1>13 DEF RecordInv, OneWorker
  <2>3. job[v].pc # "idle" /\ NoRow(job[v].id, history) => NoRow(job[v].id, history')
    BY <1>6, <2>2 DEF NoRow
  <2>4. (\E i \in DOMAIN history : Agrees(history[i], Response(job[v])))
          => \E i \in DOMAIN history' : Agrees(history'[i], Response(job[v]))
    BY <1>6
  <2>5. (\E i \in DOMAIN history : history[i].code # Confirm /\ history[i].to = job[v].to)
          => \E i \in DOMAIN history' : history'[i].code # Confirm /\ history'[i].to = job[v].to
    BY <1>6
  <2> QED
    BY <1>1, <2>1, <2>3, <2>4, <2>5 DEF JobInv
<1>14. \A v \in Worker : JobInv(job'[v], history', answers', received')
  BY <1>9, <1>12, <1>13
<1>15. OneWorker'
  BY <1>1, <1>2, <1>9 DEF RecordInv, OneWorker
<1>16. Numbered'
  BY <1>1, <1>3, <1>6, <1>10 DEF RecordInv, Numbered
<1>17. AnswersRecorded'
  <2>1. \A i, j \in DOMAIN history' : history'[i].id = history'[j].id => i = j
    BY <1>3, <1>6, <1>10 DEF RecordInv, AnswersRecorded, NoRow
  <2>2. ASSUME NEW a \in answers
        PROVE  IF Unrecorded(a) THEN \A i \in DOMAIN history' : history'[i].id # a.id
               ELSE \E i \in DOMAIN history' : Agrees(history'[i], a)
    <3>1. IF Unrecorded(a) THEN \A i \in DOMAIN history : history[i].id # a.id
          ELSE \E i \in DOMAIN history : Agrees(history[i], a)
      BY DEF RecordInv, AnswersRecorded
    <3>2. a.id # row.id
      BY <1>3, <1>10
    <3> QED
      BY <1>6, <3>1, <3>2
  <2> QED
    BY <1>1, <2>1, <2>2 DEF AnswersRecorded
<1>18. SuggestionsTraceable'
  <2> SUFFICES ASSUME NEW i \in DOMAIN history', history'[i].code = Confirm
               PROVE  \E j \in 1..(i - 1) : history'[j].code # Confirm /\ history'[j].to = history'[i].to
    BY DEF SuggestionsTraceable
  <2>1. CASE i # k
    <3>1. i \in DOMAIN history /\ history'[i] = history[i]
      BY <1>6, <2>1
    <3>2. PICK j \in 1..(i - 1) : history[j].code # Confirm /\ history[j].to = history[i].to
      BY <3>1 DEF RecordInv, SuggestionsTraceable
    <3>3. j \in DOMAIN history
      BY <1>6, <3>1, <3>2
    <3> QED
      BY <1>6, <3>1, <3>2, <3>3
  <2>2. CASE i = k
    <3>1. PICK j \in DOMAIN history : history[j].code # Confirm /\ history[j].to = job[w].to
      BY <1>1, <1>3, <1>6, <1>10, <2>2 DEF JobInv
    <3>2. j \in 1..(i - 1)
      BY <1>6, <2>2 DEF k
    <3> QED
      BY <1>3, <1>6, <2>2, <3>1, <3>2
  <2> QED
    BY <2>1, <2>2
<1> QED
  BY <1>8, <1>14, <1>15, <1>16, <1>17, <1>18 DEF RecordInv

LEMMA RecordRefusedKeeps ==
  ASSUME RecordInv, NEW w \in Worker, RecordRefused(w)
  PROVE  RecordInv'
<1> DEFINE n == [job[w] EXCEPT !.pc = "answer", !.code = "SERVER_ERROR"]
<1>1. /\ job[w] \in Job /\ job[w].pc = "record" /\ UNCHANGED <<up, received, history, answers>>
      /\ job' = [job EXCEPT ![w] = n]
  BY DEF RecordRefused, RecordInv, TypeOK
<1>2. n \in Job /\ n.pc = "answer" /\ n.id = job[w].id /\ n.code = "SERVER_ERROR"
  BY <1>1 DEF Job, Pc, Code
<1>3. Unrecorded(Response(n)) /\ n.code # Confirm
  BY <1>2, ResponseFields DEF Unrecorded, Confirm
<1> HIDE DEF n
<1>4. JobInv(job[w], history, answers, received)
  BY DEF RecordInv
<1>5. JobInv(n, history, answers, received)
  BY <1>1, <1>2, <1>3, <1>4 DEF JobInv
<1> QED
  BY <1>1, <1>2, <1>5, MoveKeeps

\* The answer: its id is the worker's, no longer held by any.
LEMMA AnswerKeeps ==
  ASSUME RecordInv, NEW w \in Worker, Answer(w)
  PROVE  RecordInv'
<1> DEFINE a == Response(job[w])
<1>1. /\ job[w] \in Job /\ job[w].pc = "answer" /\ UNCHANGED <<up, received, history>>
      /\ job' = [job EXCEPT ![w] = Idle] /\ answers' = answers \cup {a}
  BY DEF Answer, RecordInv, TypeOK
<1>2. a.id = job[w].id /\ a.id \in 1..received
  BY <1>1, ResponseFields DEF RecordInv, JobInv
<1>3. a \in ResponseRecord
  <2>1. /\ job[w].req.view \in {"route", "search", "confirm"} /\ job[w].id \in Nat
        /\ job[w].code \in Code /\ job[w].selected \in Option \cup {NoOption}
        /\ job[w].from \in Spot /\ job[w].to \in Spot
    BY <1>1 DEF Job, RequestRecord
  <2>2. NoSpot \in Spot /\ NoOption \in Option \cup {NoOption}
    BY SpotFacts
  <2>3. /\ a.selected \in Option \cup {NoOption} /\ a.from \in Spot /\ a.to \in Spot
    BY <2>1, <2>2 DEF Response
  <2> QED
    BY <2>1, <2>3 DEF Response, ResponseRecord
<1> HIDE DEF a
<1>4. TypeOK'
  BY <1>1, <1>3, IdleType DEF RecordInv, TypeOK
<1>5. \A v \in Worker : job'[v] = IF v = w THEN Idle ELSE job[v]
  BY <1>1 DEF RecordInv, TypeOK
<1>6. JobInv(Idle, history', answers', received')
  BY IdleType DEF JobInv
<1>7. ASSUME NEW v \in Worker, v # w
      PROVE  JobInv(job'[v], history', answers', received')
  <2>1. job'[v] = job[v] /\ JobInv(job[v], history, answers, received)
    BY <1>5, <1>7 DEF RecordInv
  <2>2. job[v].pc # "idle" => job[v].id # a.id
    BY <1>1, <1>2, <1>7 DEF RecordInv, OneWorker
  <2> QED
    BY <1>1, <2>1, <2>2 DEF JobInv
<1>8. OneWorker'
  BY <1>5, IdleType DEF RecordInv, OneWorker
<1>9. Numbered'
  BY <1>1, <1>2 DEF RecordInv, Numbered
<1>10. IF Unrecorded(a) THEN \A i \in DOMAIN history : history[i].id # a.id
       ELSE \E i \in DOMAIN history : Agrees(history[i], a)
  BY <1>1, <1>2 DEF RecordInv, JobInv, NoRow, a
<1>11. AnswersRecorded' /\ SuggestionsTraceable'
  BY <1>1, <1>10 DEF RecordInv, AnswersRecorded, SuggestionsTraceable
<1>12. \A v \in Worker : JobInv(job'[v], history', answers', received')
  BY <1>5, <1>6, <1>7
<1> QED
  BY <1>4, <1>8, <1>9, <1>11, <1>12 DEF RecordInv

LEMMA RestartKeeps ==
  ASSUME RecordInv, Restart
  PROVE  RecordInv'
<1>1. /\ UNCHANGED <<received, history, answers>> /\ up' \in BOOLEAN
      /\ job' = [w \in Worker |-> Idle]
  BY DEF Restart
<1>2. TypeOK'
  BY <1>1, IdleType DEF RecordInv, TypeOK
<1>3. \A w \in Worker : job'[w] = Idle
  BY <1>1
<1>4. \A w \in Worker : JobInv(job'[w], history', answers', received')
  BY <1>3, IdleType DEF JobInv
<1>5. OneWorker' /\ Numbered' /\ AnswersRecorded' /\ SuggestionsTraceable'
  BY <1>1, <1>3, IdleType DEF RecordInv, OneWorker, Numbered, AnswersRecorded, SuggestionsTraceable
<1> QED
  BY <1>2, <1>4, <1>5 DEF RecordInv

-----------------------------------------------------------------------------
(* The theorems.                                                           *)

LEMMA RecordInitially == Init => RecordInv
<1> SUFFICES ASSUME Init PROVE RecordInv
  OBVIOUS
<1>1. \A w \in Worker : job[w] = Idle
  BY DEF Init
<1>2. TypeOK
  BY IdleType, BoundAssumption DEF Init, TypeOK
<1>3. history = << >> /\ answers = {}
  BY DEF Init
<1>4. \A w \in Worker : JobInv(job[w], history, answers, received)
  BY <1>1, IdleType DEF JobInv
<1>5. OneWorker
  BY <1>1, IdleType DEF OneWorker
<1>6. Numbered /\ AnswersRecorded /\ SuggestionsTraceable
  BY <1>3 DEF Numbered, AnswersRecorded, SuggestionsTraceable
<1> QED
  BY <1>2, <1>4, <1>5, <1>6 DEF RecordInv

LEMMA RecordStep == RecordInv /\ [Next]_vars => RecordInv'
<1> SUFFICES ASSUME RecordInv, [Next]_vars PROVE RecordInv'
  OBVIOUS
<1>1. ASSUME NEW w \in Worker, NEW r \in Request,
             ReceiveRoute(w, r) \/ ReceiveSearch(w, r) \/ ReceiveConfirm(w, r)
      PROVE  RecordInv'
  BY <1>1, ReceiveRouteKeeps, ReceiveSearchKeeps, ReceiveConfirmKeeps
<1>2. ASSUME NEW w \in Worker, Work(w)
      PROVE  RecordInv'
  BY <1>2, AiFailsKeeps, AiAnswersKeeps, SuggestKeeps, RoutingFailsKeeps, RoutingAnswersKeeps,
     RecordKeeps, RecordRefusedKeeps, AnswerKeeps DEF Work
<1>3. CASE UNCHANGED vars
  BY <1>3 DEF vars, RecordInv, TypeOK, OneWorker, Numbered, AnswersRecorded, SuggestionsTraceable
<1> QED
  BY <1>1, <1>2, <1>3, RestartKeeps DEF Next

\* The invariant behind the theorems below holds in every behaviour.
THEOREM RecordInvariant == Spec => []RecordInv
BY RecordInitially, RecordStep, PTL DEF Spec

\* The views keep their variables in their types.
THEOREM TypeCorrect == Spec => []TypeOK
BY RecordInvariant, PTL DEF RecordInv

\* For every number of workers and requests: one row per request, written
\* before the answer and agreeing with it, and none for what is answered
\* without a row.
THEOREM RowsMatchAnswers == Spec => []AnswersRecorded
BY RecordInvariant, PTL DEF RecordInv

\* For every window and resemblance: a suggestion recorded names a place as an
\* earlier request that was no suggestion named it.
THEOREM SuggestionsAreReal == Spec => []SuggestionsTraceable
BY RecordInvariant, PTL DEF RecordInv

-----------------------------------------------------------------------------
(* The views implement RouteService: under RecordInv every step of a       *)
(* worker is a step of the promise, or changes nothing of it.  This is     *)
(* what the promise sees of the state.                                     *)

\* The requests being served, and what is booked.
Serving == {job[w].id : w \in {v \in Worker : job[v].pc # "idle"}}
Ledger == {Entry(history[i]) : i \in DOMAIN history}

LEMMA ServingIs ==
  /\ \A id : id \in Serving <=> \E w \in Worker : job[w].pc # "idle" /\ job[w].id = id
  /\ \A id : id \in Serving' <=> \E w \in Worker : job'[w].pc # "idle" /\ job'[w].id = id
BY DEF Serving

LEMMA LedgerIs ==
  /\ \A e : e \in Ledger <=> \E i \in DOMAIN history : e = Entry(history[i])
  /\ \A e : e \in Ledger' <=> \E i \in DOMAIN history' : e = Entry(history'[i])
BY DEF Ledger

LEMMA BookedIs == \A id : Service!Booked(id) <=> ~NoRow(id, history)
<1>1. \A row : Entry(row).id = row.id
  BY DEF Entry
<1> QED
  BY <1>1 DEF Service!Booked, NoRow

LEMMA EntryFields ==
  ASSUME NEW row
  PROVE  /\ Entry(row).id = row.id /\ Entry(row).code = row.code /\ Entry(row).goal = row.to
         /\ row.code = NoError => Entry(row).selected = row.selected /\ Entry(row).from = row.from
         /\ row.code # NoError => Entry(row).selected = NoOption /\ Entry(row).from = NoSpot
         /\ row.code \in {NoError, Confirm} => Entry(row).to = row.to
         /\ row.code \notin {NoError, Confirm} => Entry(row).to = NoSpot
BY DEF Entry

-----------------------------------------------------------------------------
(* The steps.                                                              *)

LEMMA TakeArrives ==
  ASSUME RecordInv, NEW w \in Worker, NEW r, NEW pc, pc # "idle", NEW code, NEW from, NEW to,
         Take(w, r, pc, code, from, to)
  PROVE  Service!Arrive
<1> DEFINE n == [Idle EXCEPT !.pc = pc, !.id = received + 1, !.req = r, !.code = code, !.from = from, !.to = to]
<1>1. n.pc = pc /\ n.id = received + 1
  BY IdleType DEF Job
<1>2. /\ job' = [job EXCEPT ![w] = n] /\ job[w].pc = "idle" /\ received' = received + 1
      /\ history' = history /\ answers' = answers
  BY DEF Take
<1> HIDE DEF n
<1>3. \A v \in Worker : job'[v] = IF v = w THEN n ELSE job[v]
  BY <1>2 DEF RecordInv, TypeOK
<1>4. Serving' = Serving \cup {received'}
  <2>1. \A id : id \in Serving' <=> id \in Serving \/ id = received'
    BY <1>1, <1>2, <1>3, ServingIs
  <2> QED
    BY <2>1
<1> QED
  BY <1>2, <1>4 DEF Service!Arrive, Serving

\* Whoever holds the same request before and after changes nothing of it.
LEMMA MoveStutters ==
  ASSUME RecordInv, NEW w \in Worker, NEW STATE n,
         job[w].pc # "idle", n.pc # "idle", n.id = job[w].id,
         job' = [job EXCEPT ![w] = n], UNCHANGED <<up, received, history, answers>>
  PROVE  UNCHANGED Service!vars
<1>1. \A v \in Worker : job'[v] = IF v = w THEN n ELSE job[v]
  BY DEF RecordInv, TypeOK
<1>2. Serving' = Serving
  <2>1. \A id : id \in Serving' <=> id \in Serving
    BY <1>1, ServingIs
  <2> QED
    BY <2>1
<1> QED
  BY <1>2 DEF Service!vars, Serving

LEMMA RecordBooks ==
  ASSUME RecordInv, NEW w \in Worker, Record(w)
  PROVE  Service!Book
<1> DEFINE row == Row(job[w])
           n == [job[w] EXCEPT !.pc = "answer"]
<1>1. /\ job[w] \in Job /\ job[w].pc = "record" /\ history \in Seq(RowRecord)
      /\ history' = Append(history, row) /\ UNCHANGED <<up, received, answers>>
      /\ job' = [job EXCEPT ![w] = n]
  BY DEF Record, RecordInv, TypeOK
<1>2. n.pc = "answer" /\ n.id = job[w].id
  BY <1>1 DEF Job
<1>3. row.id = job[w].id /\ row.code = job[w].code /\ row.to = job[w].to
  BY DEF Row
<1> HIDE DEF row, n
<1>4. \A v \in Worker : job'[v] = IF v = w THEN n ELSE job[v]
  BY <1>1 DEF RecordInv, TypeOK
<1>5. Serving' = Serving /\ row.id \in Serving
  <2>1. \A id : id \in Serving' <=> id \in Serving
    BY <1>1, <1>2, <1>4, ServingIs
  <2> QED
    BY <2>1, <1>1, <1>3, ServingIs
<1>6. Ledger' = Ledger \cup {Entry(row)}
  <2> DEFINE k == Len(history) + 1
  <2>1. /\ DOMAIN history' = DOMAIN history \cup {k} /\ history'[k] = row
        /\ \A i \in DOMAIN history : history'[i] = history[i]
    BY <1>1
  <2> QED
    BY <2>1, LedgerIs
<1>7. /\ NoRow(row.id, history)
      /\ row.code = Confirm => \E i \in DOMAIN history : history[i].code # Confirm /\ history[i].to = row.to
  BY <1>1, <1>3 DEF RecordInv, JobInv
<1>8. Entry(row) \in Ledger' \ Ledger /\ ~Service!Booked(Entry(row).id)
  BY <1>6, <1>7, LedgerIs, BookedIs, EntryFields DEF NoRow
<1>9. Entry(row).code = Confirm =>
        \E earlier \in Ledger : earlier.code # Confirm /\ earlier.goal = Entry(row).to
  BY <1>7, LedgerIs, EntryFields
<1> QED
  BY <1>1, <1>5, <1>6, <1>8, <1>9, EntryFields DEF Service!Book, Serving, Ledger

LEMMA AnswerSends ==
  ASSUME RecordInv, NEW w \in Worker, Answer(w)
  PROVE  Service!Send
<1> DEFINE a == Response(job[w])
<1>1. /\ job[w].pc = "answer" /\ UNCHANGED <<up, received, history>>
      /\ job' = [job EXCEPT ![w] = Idle] /\ answers' = answers \cup {a}
  BY DEF Answer
<1>2. a.id = job[w].id /\ a.code = job[w].code
  BY ResponseFields
<1>3. /\ a.code = NoError => a.selected = job[w].selected
      /\ a.code # NoError => a.selected = NoOption /\ a.from = NoSpot
      /\ a.code \notin {NoError, Confirm} => a.to = NoSpot
  BY DEF Response
<1>4. /\ \A x \in answers : x.id # a.id
      /\ IF Unrecorded(a) THEN NoRow(a.id, history) ELSE \E i \in DOMAIN history : Agrees(history[i], a)
  BY <1>1, <1>2 DEF RecordInv, JobInv
<1> HIDE DEF a
<1>5. \A v \in Worker : job'[v] = IF v = w THEN Idle ELSE job[v]
  BY <1>1 DEF RecordInv, TypeOK
<1>6. Serving' = Serving \ {a.id} /\ a.id \in Serving
  <2>1. \A id : id \in Serving' <=> id \in Serving /\ id # a.id
    BY <1>1, <1>2, <1>5, IdleType, ServingIs DEF RecordInv, OneWorker
  <2> QED
    BY <2>1, <1>1, <1>2, ServingIs
<1>7. CASE Unrecorded(a)
  <2>1. ~Service!Booked(a.id)
    BY <1>4, <1>7, BookedIs
  <2>2. Service!Refusal(a)
    BY <1>3, <1>7 DEF Service!Refusal, Unrecorded, NoError, Confirm, Invalid
  <2> QED
    BY <1>1, <1>4, <1>6, <2>1, <2>2 DEF Service!Send, Serving
<1>8. CASE ~Unrecorded(a)
  <2>1. PICK i \in DOMAIN history : Agrees(history[i], a)
    BY <1>4, <1>8
  <2>2. Service!Booked(a.id)
    BY <2>1, BookedIs DEF Agrees, NoRow
  <2>3. ASSUME NEW entry \in Ledger, entry.id = a.id
        PROVE  Service!Tells(entry, a)
    <3>1. entry = Entry(history[i])
      BY <2>1, <2>3, LedgerIs, EntryFields DEF Agrees, RecordInv, AnswersRecorded
    <3> QED
      BY <1>3, <2>1, <3>1, EntryFields DEF Service!Tells, Agrees
  <2> QED
    BY <1>1, <1>4, <1>6, <2>2, <2>3 DEF Service!Send, Serving, Ledger
<1> QED
  BY <1>7, <1>8

LEMMA RestartLoses ==
  ASSUME RecordInv, Restart
  PROVE  Service!Lose
<1>1. \A w \in Worker : job'[w].pc = "idle"
  BY IdleType DEF Restart
<1>2. Serving' = {} /\ Serving # {}
  BY <1>1, ServingIs DEF Restart
<1> QED
  BY <1>2 DEF Service!Lose, Restart, Serving

-----------------------------------------------------------------------------
(* The actions of a worker, one by one.                                    *)

LEMMA ReceiveArrives ==
  ASSUME RecordInv, NEW w \in Worker, NEW r \in Request,
         ReceiveRoute(w, r) \/ ReceiveSearch(w, r) \/ ReceiveConfirm(w, r)
  PROVE  Service!Arrive
<1>1. \E pc \in {"record", "answer", "routing", "ai"} : \E code, from, to : Take(w, r, pc, code, from, to)
  BY DEF ReceiveRoute, ReceiveSearch, ReceiveConfirm, RecordError, AnswerError
<1> QED
  BY <1>1, TakeArrives

LEMMA CallsStutter ==
  ASSUME RecordInv, NEW w \in Worker,
         AiFails(w) \/ AiAnswers(w) \/ Suggest(w) \/ RoutingFails(w) \/ RoutingAnswers(w) \/ RecordRefused(w)
  PROVE  UNCHANGED Service!vars
<1>1. job[w] \in Job /\ job[w].pc # "idle" /\ UNCHANGED <<up, received, history, answers>>
  BY DEF RecordInv, TypeOK, AiFails, AiAnswers, Suggest, RoutingFails, RoutingAnswers, RecordRefused
<1>2. ASSUME NEW n, n.pc # "idle", n.id = job[w].id, job' = [job EXCEPT ![w] = n]
      PROVE  UNCHANGED Service!vars
  BY <1>1, <1>2, MoveStutters
<1>3. ASSUME NEW pc \in Pc \ {"idle"}, job' = [job EXCEPT ![w].pc = pc]
      PROVE  UNCHANGED Service!vars
  BY <1>1, <1>2, <1>3 DEF Job
<1>4. ASSUME NEW pc \in Pc \ {"idle"}, NEW code, job' = [job EXCEPT ![w].pc = pc, ![w].code = code]
      PROVE  UNCHANGED Service!vars
  BY <1>1, <1>2, <1>4 DEF Job
<1>5. ASSUME NEW selected, job' = [job EXCEPT ![w].pc = "record", ![w].selected = selected]
      PROVE  UNCHANGED Service!vars
  BY <1>1, <1>2, <1>5 DEF Job
<1>6. ASSUME NEW to, job' = [job EXCEPT ![w].pc = "record", ![w].code = Confirm, ![w].to = to]
      PROVE  UNCHANGED Service!vars
  BY <1>1, <1>2, <1>6 DEF Job
<1>7. ASSUME NEW reply, NEW from,
             job' = [job EXCEPT ![w].pc = "routing", ![w].ai = reply, ![w].from = from, ![w].to = reply.to]
      PROVE  UNCHANGED Service!vars
  BY <1>1, <1>2, <1>7 DEF Job
<1>8. ASSUME NEW reply, job' = [job EXCEPT ![w].pc = "record", ![w].ai = reply,
                                           ![w].code = "SOURCE_REQUIRED_OR_CURRENT_LOCATION"]
      PROVE  UNCHANGED Service!vars
  BY <1>1, <1>2, <1>8 DEF Job
<1>9. {"record", "suggest", "answer", "routing"} \subseteq Pc \ {"idle"}
  BY DEF Pc
<1>10. CASE AiFails(w)
  BY <1>3, <1>4, <1>9, <1>10 DEF AiFails
<1>11. CASE AiAnswers(w)
  BY <1>7, <1>8, <1>11 DEF AiAnswers
<1>12. CASE Suggest(w)
  BY <1>4, <1>6, <1>9, <1>12 DEF Suggest
<1>13. CASE RoutingFails(w)
  BY <1>4, <1>9, <1>13 DEF RoutingFails
<1>14. CASE RoutingAnswers(w)
  BY <1>4, <1>5, <1>9, <1>14 DEF RoutingAnswers
<1>15. CASE RecordRefused(w)
  BY <1>4, <1>9, <1>15 DEF RecordRefused
<1> QED
  BY <1>10, <1>11, <1>12, <1>13, <1>14, <1>15

LEMMA PromiseStep == RecordInv /\ [Next]_vars => [Service!Next]_(Service!vars)
<1> SUFFICES ASSUME RecordInv, [Next]_vars PROVE [Service!Next]_(Service!vars)
  OBVIOUS
<1>1. ASSUME NEW w \in Worker, NEW r \in Request,
             ReceiveRoute(w, r) \/ ReceiveSearch(w, r) \/ ReceiveConfirm(w, r)
      PROVE  Service!Next
  BY <1>1, ReceiveArrives DEF Service!Next
<1>2. ASSUME NEW w \in Worker, Work(w)
      PROVE  Service!Next \/ UNCHANGED Service!vars
  BY <1>2, CallsStutter, RecordBooks, AnswerSends DEF Work, Service!Next
<1>3. CASE Restart
  BY <1>3, RestartLoses DEF Service!Next
<1>4. CASE UNCHANGED vars
  BY <1>4 DEF vars, Service!vars
<1> QED
  BY <1>1, <1>2, <1>3, <1>4 DEF Next

LEMMA PromiseInitially == Init => Service!Init
<1> SUFFICES ASSUME Init PROVE Service!Init
  OBVIOUS
<1>1. \A w \in Worker : job[w].pc = "idle"
  BY IdleType DEF Init
<1>2. {job[w].id : w \in {v \in Worker : job[v].pc # "idle"}} = {}
  BY <1>1
<1>3. {Entry(history[i]) : i \in DOMAIN history} = {}
  BY DEF Init
<1> QED
  BY <1>2, <1>3 DEF Init, Service!Init

-----------------------------------------------------------------------------
\* Whatever the workers do, and however often a deployment drops what they
\* are doing: requests are booked and answered as RouteService promises.
THEOREM ViewsImplementService == Spec => ServiceKept
BY RecordInvariant, PromiseInitially, PromiseStep, PTL DEF Spec, ServiceKept, Service!Spec

-----------------------------------------------------------------------------
(***************************************************************************)
(* What is read from the rows.                                             *)
(***************************************************************************)

-----------------------------------------------------------------------------
(* A row has a result exactly when it is a success, a success names both   *)
(* ends or not its origin, a failure tells why, and a request has one      *)
(* answer.                                                                 *)

\* The codes of failures that are recorded.
FailureCode == {Confirm, "ROUTING_NO_MATCHING_FILTER", "SOURCE_REQUIRED_OR_CURRENT_LOCATION",
                "API_CLIENT_BOOT_ERROR", "INVALID_REQUEST_MODE", "INVALID_COORDINATES",
                "INVALID_REQUEST_BODY"} \cup AiCode \cup RoutingCode

NamesBoth(x) == x.from.name # NoPhrase => x.to.name # NoPhrase

\* A worker has selected an option exactly when it is about to record one.
Selects(j) ==
  /\ j.pc \in {"ai", "suggest", "routing"} => j.selected = NoOption
  /\ j.pc = "record" => (j.code = NoError <=> j.selected # NoOption)
  /\ j.pc = "record" => j.code \in FailureCode \cup {NoError}
  /\ j.pc = "routing" \/ (j.pc = "record" /\ j.code = NoError) => NamesBoth(j)

OneAnswer == \A a, b \in answers : a.id = b.id => a = b

ResultInv ==
  /\ RecordInv /\ OneAnswer
  /\ \A w \in Worker : Selects(job[w])
  /\ \A i \in DOMAIN history :
       /\ history[i].code = NoError <=> HasResult(history[i])
       /\ history[i].code \in FailureCode \cup {NoError}
       /\ history[i].code = NoError => NamesBoth(history[i])

Grows == history' = history \/ \E row : history' = Append(history, row)

\* What a worker may do without touching table and answers.
LEMMA JobSelects ==
  ASSUME ResultInv, RecordInv', NEW w \in Worker, NEW n, Selects(n),
         job' = [job EXCEPT ![w] = n], UNCHANGED <<history, answers>>
  PROVE  ResultInv' /\ Grows
<1>1. \A v \in Worker : job'[v] = IF v = w THEN n ELSE job[v]
  BY DEF ResultInv, RecordInv, TypeOK
<1>2. \A v \in Worker : Selects(job'[v])
  BY <1>1 DEF ResultInv
<1> QED  BY <1>2 DEF ResultInv, OneAnswer, HasResult, NamesBoth, Grows

LEMMA IdleSelects == Selects(Idle)
BY IdleType DEF Selects

LEMMA NoFailure == NoError \notin FailureCode
BY DEF NoError, Confirm, FailureCode, AiCode, RoutingCode

LEMMA TakeSelects ==
  ASSUME ResultInv, RecordInv', NEW w \in Worker, NEW r, NEW pc, NEW code, NEW from, NEW to,
         Take(w, r, pc, code, from, to), pc = "record" => code \in FailureCode,
         pc = "routing" => (from.name # NoPhrase => to.name # NoPhrase)
  PROVE  ResultInv' /\ Grows
<1> DEFINE n == [Idle EXCEPT !.pc = pc, !.id = received + 1, !.req = r, !.code = code, !.from = from, !.to = to]
<1>1. n.pc = pc /\ n.code = code /\ n.selected = NoOption /\ n.from = from /\ n.to = to
  BY DEF Idle
<1>2. job' = [job EXCEPT ![w] = n] /\ UNCHANGED <<history, answers>>
  BY DEF Take
<1> HIDE DEF n
<1>3. Selects(n)
  BY <1>1, NoFailure DEF Selects, NamesBoth
<1> QED  BY <1>2, <1>3, JobSelects

LEMMA ReceiveSelects ==
  ASSUME ResultInv, RecordInv', NEW w \in Worker, NEW r \in Request,
         ReceiveRoute(w, r) \/ ReceiveSearch(w, r) \/ ReceiveConfirm(w, r)
  PROVE  ResultInv' /\ Grows
<1>1. ASSUME NEW code \in {"API_CLIENT_BOOT_ERROR", "INVALID_REQUEST_MODE", "INVALID_COORDINATES",
                           "INVALID_REQUEST_BODY"}, RecordError(w, r, code)
      PROVE  ResultInv' /\ Grows
  <2>1. code \in FailureCode
    BY DEF FailureCode
  <2> QED  BY <1>1, <2>1, TakeSelects DEF RecordError
<1>2. ASSUME NEW code, AnswerError(w, r, code) PROVE ResultInv' /\ Grows
  BY <1>2, TakeSelects DEF AnswerError
<1>3. ASSUME NEW from, Take(w, r, "ai", NoError, from, NoSpot) PROVE ResultInv' /\ Grows
  BY <1>3, TakeSelects
<1>4. ASSUME Take(w, r, "routing", NoError, Unnamed(r.from), Unnamed(r.to.at))
      PROVE  ResultInv' /\ Grows
  <2>1. Unnamed(r.from).name = NoPhrase
    BY DEF Unnamed
  <2> QED  BY <1>4, <2>1, TakeSelects
<1>5. ASSUME NEW name, name # NoPhrase,
             Take(w, r, "routing", NoError, Here(r), [name |-> name, at |-> r.to.at])
      PROVE  ResultInv' /\ Grows
  <2>1. [name |-> name, at |-> r.to.at].name # NoPhrase
    BY <1>5
  <2> QED  BY <1>5, <2>1, TakeSelects
<1>6. (IF r.to.name = NoPhrase THEN "Destination" ELSE r.to.name) # NoPhrase
  BY PhraseAssumption
<1>7. CASE ReceiveRoute(w, r)
  BY <1>1, <1>3, <1>4, <1>7 DEF ReceiveRoute
<1>8. CASE ReceiveSearch(w, r)
  BY <1>2, <1>3, <1>8 DEF ReceiveSearch
<1>9. CASE ReceiveConfirm(w, r)
  BY <1>2, <1>5, <1>6, <1>9 DEF ReceiveConfirm
<1> QED  BY <1>7, <1>8, <1>9

LEMMA CallSelects ==
  ASSUME ResultInv, RecordInv', NEW w \in Worker,
         AiFails(w) \/ AiAnswers(w) \/ Suggest(w) \/ RoutingFails(w) \/ RoutingAnswers(w) \/ RecordRefused(w)
  PROVE  ResultInv' /\ Grows
<1>1. /\ job[w] \in Job /\ UNCHANGED <<history, answers>>
      /\ job[w].pc \in {"ai", "suggest", "routing", "record"}
      /\ job[w].pc # "record" => job[w].code = NoError /\ job[w].selected = NoOption
  BY DEF ResultInv, RecordInv, TypeOK, JobInv, Selects, AiFails, AiAnswers, Suggest, RoutingFails, RoutingAnswers,
         RecordRefused
<1>2. ASSUME NEW n, Selects(n), job' = [job EXCEPT ![w] = n]
      PROVE  ResultInv' /\ Grows
  BY <1>1, <1>2, JobSelects
<1>3. ASSUME NEW code \in FailureCode, job[w].pc # "record", job' = [job EXCEPT ![w].pc = "record", ![w].code = code]
      PROVE  ResultInv' /\ Grows
  <2> DEFINE n == [job[w] EXCEPT !.pc = "record", !.code = code]
  <2>1. n.pc = "record" /\ n.code = code /\ n.selected = NoOption
    BY <1>1, <1>3 DEF Job
  <2>2. job' = [job EXCEPT ![w] = n]
    BY <1>3
  <2> HIDE DEF n
  <2>3. Selects(n)
    BY <1>3, <2>1, NoFailure DEF Selects
  <2> QED  BY <1>2, <2>2, <2>3
<1>4. ASSUME NEW code, job' = [job EXCEPT ![w].pc = "answer", ![w].code = code]
      PROVE  ResultInv' /\ Grows
  <2> DEFINE n == [job[w] EXCEPT !.pc = "answer", !.code = code]
  <2>1. n.pc = "answer"
    BY <1>1 DEF Job
  <2>2. job' = [job EXCEPT ![w] = n]
    BY <1>4
  <2> HIDE DEF n
  <2>3. Selects(n)
    BY <2>1 DEF Selects
  <2> QED  BY <1>2, <2>2, <2>3
<1>5. ASSUME NEW option \in Option, job[w].pc = "routing",
             job' = [job EXCEPT ![w].pc = "record", ![w].selected = option]
      PROVE  ResultInv' /\ Grows
  <2> DEFINE n == [job[w] EXCEPT !.pc = "record", !.selected = option]
  <2>1. n.pc = "record" /\ n.code = NoError /\ n.selected = option /\ n.from = job[w].from /\ n.to = job[w].to
    BY <1>1, <1>5 DEF Job
  <2>2. job' = [job EXCEPT ![w] = n]
    BY <1>5
  <2> HIDE DEF n
  <2>3. option # NoOption
    BY DEF Option, ModeFilter, NoOption
  <2>4. NamesBoth(job[w])
    BY <1>5 DEF ResultInv, Selects
  <2>5. Selects(n)
    BY <2>1, <2>3, <2>4 DEF Selects, NamesBoth
  <2> QED  BY <1>2, <2>2, <2>5
<1>6. ASSUME AiFails(w) PROVE ResultInv' /\ Grows
  <2>1. PICK status \in AiFailure :
          \/ job' = [job EXCEPT ![w].pc = "record", ![w].code = MapAiError(status)]
          \/ job' = [job EXCEPT ![w].pc = "suggest"]
          \/ job' = [job EXCEPT ![w].pc = "answer", ![w].code = MapAiError(status)]
    BY <1>6 DEF AiFails
  <2>2. job[w].pc # "record" /\ MapAiError(status) \in FailureCode
    BY <1>6, FailureAssumption, AiCodes DEF AiFails, AiCode, FailureCode
  <2>3. ASSUME job' = [job EXCEPT ![w].pc = "suggest"] PROVE ResultInv' /\ Grows
    <3> DEFINE n == [job[w] EXCEPT !.pc = "suggest"]
    <3>1. n.pc = "suggest" /\ n.selected = NoOption
      BY <1>1, <2>2 DEF Job
    <3>2. job' = [job EXCEPT ![w] = n]
      BY <2>3
    <3> HIDE DEF n
    <3>3. Selects(n)
      BY <3>1 DEF Selects
    <3> QED  BY <1>2, <3>2, <3>3
  <2> QED  BY <1>3, <1>4, <2>1, <2>2, <2>3
<1>7. ASSUME AiAnswers(w) PROVE ResultInv' /\ Grows
  <2>1. job[w].pc = "ai"
    BY <1>7 DEF AiAnswers
  <2>2. PICK reply \in AiReply :
          \/ \E from :
               job' = [job EXCEPT ![w].pc = "routing", ![w].ai = reply, ![w].from = from, ![w].to = reply.to]
          \/ job' = [job EXCEPT ![w].pc = "record", ![w].ai = reply,
                                ![w].code = "SOURCE_REQUIRED_OR_CURRENT_LOCATION"]
    BY <1>7 DEF AiAnswers
  <2>3. ASSUME NEW from,
               job' = [job EXCEPT ![w].pc = "routing", ![w].ai = reply, ![w].from = from, ![w].to = reply.to]
        PROVE  ResultInv' /\ Grows
    <3> DEFINE n == [job[w] EXCEPT !.pc = "routing", !.ai = reply, !.from = from, !.to = reply.to]
    <3>0. reply.to.name # NoPhrase
      BY AiReplyAssumption, PhraseAssumption DEF AiReplyRecord
    <3>1. n.pc = "routing" /\ n.selected = NoOption /\ n.to = reply.to
      BY <1>1, <2>1 DEF Job
    <3>2. job' = [job EXCEPT ![w] = n]
      BY <2>3
    <3> HIDE DEF n
    <3>3. Selects(n)
      BY <3>0, <3>1 DEF Selects, NamesBoth
    <3> QED  BY <1>2, <3>2, <3>3
  <2>4. ASSUME job' = [job EXCEPT ![w].pc = "record", ![w].ai = reply,
                                  ![w].code = "SOURCE_REQUIRED_OR_CURRENT_LOCATION"]
        PROVE  ResultInv' /\ Grows
    <3> DEFINE n == [job[w] EXCEPT !.pc = "record", !.ai = reply, !.code = "SOURCE_REQUIRED_OR_CURRENT_LOCATION"]
    <3>1. n.pc = "record" /\ n.selected = NoOption /\ n.code = "SOURCE_REQUIRED_OR_CURRENT_LOCATION"
      BY <1>1, <2>1 DEF Job
    <3>2. job' = [job EXCEPT ![w] = n]
      BY <2>4
    <3> HIDE DEF n
    <3>3. Selects(n)
      BY <3>1 DEF Selects, NoError, FailureCode
    <3> QED  BY <1>2, <3>2, <3>3
  <2> QED  BY <2>2, <2>3, <2>4
<1>8. ASSUME Suggest(w) PROVE ResultInv' /\ Grows
  <2>1. job[w].pc = "suggest"
    BY <1>8 DEF Suggest
  <2>2. ASSUME NEW to, job' = [job EXCEPT ![w].pc = "record", ![w].code = Confirm, ![w].to = to]
        PROVE  ResultInv' /\ Grows
    <3> DEFINE n == [job[w] EXCEPT !.pc = "record", !.code = Confirm, !.to = to]
    <3>1. n.pc = "record" /\ n.selected = NoOption /\ n.code = Confirm
      BY <1>1, <2>1 DEF Job
    <3>2. job' = [job EXCEPT ![w] = n]
      BY <2>2
    <3> HIDE DEF n
    <3>3. Selects(n)
      BY <3>1 DEF Selects, NoError, Confirm, FailureCode
    <3> QED  BY <1>2, <3>2, <3>3
  <2> QED  BY <1>4, <1>8, <2>2 DEF Suggest
<1>9. ASSUME RoutingFails(w) PROVE ResultInv' /\ Grows
  <2>1. \A status \in RoutingFailure : MapRoutingError(status) \in FailureCode
    BY FailureAssumption, RoutingCodes DEF RoutingCode, FailureCode
  <2> QED  BY <1>3, <1>9, <2>1 DEF RoutingFails
<1>10. ASSUME RoutingAnswers(w) PROVE ResultInv' /\ Grows
  <2>1. \A found \in Found : Eligible(found, job[w].req.filter) \subseteq Option
    BY FoundAssumption DEF Eligible
  <2>2. "ROUTING_NO_MATCHING_FILTER" \in FailureCode
    BY DEF FailureCode
  <2> QED  BY <1>3, <1>5, <1>10, <2>1, <2>2 DEF RoutingAnswers
<1>11. ASSUME RecordRefused(w) PROVE ResultInv' /\ Grows
  BY <1>4, <1>11 DEF RecordRefused
<1> QED  BY <1>6, <1>7, <1>8, <1>9, <1>10, <1>11

LEMMA RecordSelects ==
  ASSUME ResultInv, RecordInv', NEW w \in Worker, Record(w)
  PROVE  ResultInv' /\ Grows
<1> DEFINE row == Row(job[w])
           n == [job[w] EXCEPT !.pc = "answer"]
<1>1. /\ job[w] \in Job /\ job[w].pc = "record" /\ history \in Seq(RowRecord)
      /\ history' = Append(history, row) /\ answers' = answers /\ job' = [job EXCEPT ![w] = n]
      /\ \A v \in Worker : job'[v] = IF v = w THEN n ELSE job[v]
  BY DEF Record, ResultInv, RecordInv, TypeOK
<1>2. n.pc = "answer"
  BY <1>1 DEF Job
<1>3. /\ row.code = NoError <=> HasResult(row)
      /\ row.code \in FailureCode \cup {NoError}
      /\ row.code = NoError => NamesBoth(row)
  <2>1. row.code = job[w].code /\ row.selected = job[w].selected /\ row.from = job[w].from /\ row.to = job[w].to
    BY DEF Row
  <2>2. Selects(job[w])
    BY DEF ResultInv
  <2> HIDE DEF row
  <2> QED  BY <1>1, <2>1, <2>2 DEF HasResult, Selects, NamesBoth
<1> HIDE DEF n, row
<1>4. \A v \in Worker : Selects(job'[v])
  BY <1>1, <1>2 DEF ResultInv, Selects
<1>5. \A i \in DOMAIN history' : history'[i] = row \/ (i \in DOMAIN history /\ history'[i] = history[i])
  BY <1>1
<1>6. \A i \in DOMAIN history' :
        /\ history'[i].code = NoError <=> HasResult(history'[i])
        /\ history'[i].code \in FailureCode \cup {NoError}
        /\ history'[i].code = NoError => NamesBoth(history'[i])
  BY <1>3, <1>5 DEF ResultInv
<1> QED  BY <1>1, <1>4, <1>6 DEF ResultInv, OneAnswer, HasResult, NamesBoth, Grows

LEMMA AnswerSelects ==
  ASSUME ResultInv, RecordInv', NEW w \in Worker, Answer(w)
  PROVE  ResultInv' /\ Grows
<1> DEFINE a == Response(job[w])
<1>1. /\ job[w].pc = "answer" /\ history' = history /\ answers' = answers \cup {a}
      /\ \A v \in Worker : job'[v] = IF v = w THEN Idle ELSE job[v]
  BY DEF Answer, ResultInv, RecordInv, TypeOK
<1>2. \A x \in answers : x.id # a.id
  BY <1>1, ResponseFields DEF ResultInv, RecordInv, JobInv
<1> HIDE DEF a
<1>3. OneAnswer'
  BY <1>1, <1>2 DEF ResultInv, OneAnswer
<1>4. \A v \in Worker : Selects(job'[v])
  BY <1>1, IdleSelects DEF ResultInv
<1> QED  BY <1>1, <1>3, <1>4 DEF ResultInv, HasResult, Grows

LEMMA ResultStep == ResultInv /\ [Next]_vars => ResultInv' /\ Grows
<1> SUFFICES ASSUME ResultInv, [Next]_vars PROVE ResultInv' /\ Grows
  OBVIOUS
<1>1. RecordInv'
  BY RecordStep DEF ResultInv
<1>2. ASSUME NEW w \in Worker, NEW r \in Request,
             ReceiveRoute(w, r) \/ ReceiveSearch(w, r) \/ ReceiveConfirm(w, r)
      PROVE  ResultInv' /\ Grows
  BY <1>1, <1>2, ReceiveSelects
<1>3. ASSUME NEW w \in Worker, Work(w) PROVE ResultInv' /\ Grows
  BY <1>1, <1>3, CallSelects, RecordSelects, AnswerSelects DEF Work
<1>4. CASE Restart
  <2>1. \A v \in Worker : Selects(job'[v])
    BY <1>4, IdleSelects DEF Restart
  <2> QED  BY <1>1, <1>4, <2>1 DEF Restart, ResultInv, OneAnswer, HasResult, NamesBoth, Grows
<1>5. CASE UNCHANGED vars
  BY <1>1, <1>5 DEF vars, ResultInv, OneAnswer, HasResult, NamesBoth, Grows, Selects
<1> QED  BY <1>2, <1>3, <1>4, <1>5 DEF Next

LEMMA ResultInitially == Init => ResultInv
BY RecordInitially, IdleSelects DEF Init, ResultInv, OneAnswer

-----------------------------------------------------------------------------
(* Counting.                                                               *)

LEMMA TwoParts ==
  ASSUME NEW S, IsFiniteSet(S), NEW A, NEW B, A \cup B = S, A \cap B = {}
  PROVE  /\ Cardinality(A) \in Nat /\ Cardinality(B) \in Nat
         /\ Cardinality(A) + Cardinality(B) = Cardinality(S)
<1>1. A \in SUBSET S /\ B \in SUBSET S
  OBVIOUS
<1>2. IsFiniteSet(A) /\ IsFiniteSet(B)
  BY <1>1, FS_Subset
<1>3. Cardinality(A) \in Nat /\ Cardinality(B) \in Nat
  BY <1>2, FS_CardinalityType
<1>4. Cardinality(A \cup B) = Cardinality(A) + Cardinality(B) - Cardinality(A \cap B)
  BY <1>2, FS_Union
<1>5. Cardinality(A \cap B) = 0
  BY FS_EmptySet
<1> QED  BY <1>3, <1>4, <1>5

LEMMA OneForEach ==
  ASSUME NEW S, NEW T, IsFiniteSet(T), NEW f \in [S -> T],
         \A a, b \in S : f[a] = f[b] => a = b
  PROVE  Cardinality(S) <= Cardinality(T)
<1>1. f \in Injection(S, T)
  BY Zenon DEF Injection, IsInjective
<1> QED  BY <1>1, FS_Injection

\* The rows a query asks for among the first n of a table.
Among(table, q, n) == {i \in 1..n : Matches(table[i], q)}

LEMMA AmongFinite ==
  ASSUME NEW table, NEW q, NEW n \in Nat
  PROVE  IsFiniteSet(Among(table, q, n)) /\ Cardinality(Among(table, q, n)) \in Nat
<1>1. IsFiniteSet(1..n)
  BY FS_Interval
<1>2. Among(table, q, n) \in SUBSET (1..n)
  BY DEF Among
<1>3. IsFiniteSet(Among(table, q, n))
  BY <1>1, <1>2, FS_Subset
<1> QED  BY <1>3, FS_CardinalityType

\* Up to another row m there are more, by at most one a row.
LEMMA AmongMore ==
  ASSUME NEW table, NEW q, NEW n \in Nat, NEW m \in Nat, n <= m
  PROVE  Cardinality(Among(table, q, m)) \in
           Cardinality(Among(table, q, n))..(Cardinality(Among(table, q, n)) + (m - n))
<1> DEFINE A == Among(table, q, n)
           B == {i \in (n + 1)..m : Matches(table[i], q)}
<1>1. A \cup B = Among(table, q, m) /\ A \cap B = {}
  BY DEF Among
<1>2. IsFiniteSet(Among(table, q, m)) /\ Cardinality(A) \in Nat
  BY AmongFinite
<1>3. Cardinality(A) + Cardinality(B) = Cardinality(Among(table, q, m)) /\ Cardinality(B) \in Nat
  <2> HIDE DEF A, B
  <2> QED  BY <1>1, <1>2, TwoParts
<1>4. IsFiniteSet((n + 1)..m) /\ Cardinality((n + 1)..m) = m - n
  <2>1. /\ IsFiniteSet((n + 1)..m)
        /\ Cardinality((n + 1)..m) = IF n + 1 > m THEN 0 ELSE m - (n + 1) + 1
    BY FS_Interval
  <2> QED  BY <2>1
<1>5. Cardinality(B) <= m - n
  <2>1. B \in SUBSET ((n + 1)..m)
    OBVIOUS
  <2> HIDE DEF B
  <2> QED  BY <1>4, <2>1, FS_Subset
<1> HIDE DEF A, B
<1> QED  BY <1>2, <1>3, <1>5 DEF A

LEMMA RowsAmong ==
  ASSUME history \in Seq(RowRecord), NEW q
  PROVE  RowsOf(q) = Among(history, q, Len(history))
BY DEF RowsOf, Among

\* Rows that are added do not change what is counted in those before.
LEMMA AmongStays ==
  ASSUME history \in Seq(RowRecord), Grows, NEW q, NEW n \in 0..Len(history)
  PROVE  Among(history', q, n) = Among(history, q, n) /\ n \in 0..Len(history')
<1>1. \A i \in 1..n : history'[i] = history[i]
  BY DEF Grows
<1>2. Len(history') >= Len(history) /\ Len(history') \in Nat
  BY DEF Grows
<1> QED  BY <1>1, <1>2 DEF Among

-----------------------------------------------------------------------------
(* The overview.                                                           *)

All == [source |-> Whatever, status |-> Whatever, filter |-> Whatever]

\* The totals t of an overview with query q, when n rows match it and owed
\* routes were answered.
Totals(t, q, n, owed) ==
  /\ t.requests = n
  /\ t.success_count + t.failed_count = t.requests
  /\ t.failed_count = t.unresolved_count
  /\ q = All => owed <= t.success_count

LEMMA MetricsAddUp ==
  ASSUME ResultInv, NEW q
  PROVE  LET t == Metrics(RowsOf(q)) IN
         /\ t.requests = Cardinality(RowsOf(q))
         /\ t.success_count + t.failed_count = t.requests
         /\ t.failed_count = t.unresolved_count
<1> DEFINE S == RowsOf(q)
           A == {i \in S : Status(history[i]) = "success"}
           B == {i \in S : Status(history[i]) = "failed"}
           C == {i \in S : ~HasResult(history[i])}
<1>1. S \subseteq DOMAIN history /\ IsFiniteSet(S)
  <2>1. history \in Seq(RowRecord)
    BY DEF ResultInv, RecordInv, TypeOK
  <2>2. Len(history) \in Nat
    BY <2>1
  <2>3. S = Among(history, q, Len(history))
    BY <2>1, RowsAmong
  <2>4. IsFiniteSet(S)
    BY <2>2, <2>3, AmongFinite
  <2> QED  BY <2>4 DEF RowsOf
<1>2. A \cup B = S /\ A \cap B = {}
  BY DEF Status
<1>3. B = C
  BY <1>1 DEF Status, ResultInv
<1>4. Cardinality(A) + Cardinality(B) = Cardinality(S)
  <2> HIDE DEF S, A, B
  <2> QED  BY <1>1, <1>2, TwoParts
<1> DEFINE t == Metrics(RowsOf(q))
<1>5. t.requests = Cardinality(S) /\ t.success_count = Cardinality(A)
  BY DEF Metrics
<1>6. t.failed_count = Cardinality(B) /\ t.unresolved_count = Cardinality(C)
  BY DEF Metrics
<1> HIDE DEF t, A, B, C
<1>7. /\ t.requests = Cardinality(RowsOf(q))
      /\ t.success_count + t.failed_count = t.requests
      /\ t.failed_count = t.unresolved_count
  BY <1>3, <1>4, <1>5, <1>6
<1> QED  BY <1>7 DEF t

\* Every route answered has a success of its own among all rows.
LEMMA RoutesAreCounted ==
  ASSUME ResultInv
  PROVE  AnsweredWithRoute <= Metrics(RowsOf(All)).success_count
<1> DEFINE T == {a \in answers : a.code = NoError}
           S == {i \in RowsOf(All) : Status(history[i]) = "success"}
           f == [a \in T |-> CHOOSE i \in DOMAIN history : Agrees(history[i], a)]
<1>1. history \in Seq(RowRecord) /\ answers \subseteq ResponseRecord
  BY DEF ResultInv, RecordInv, TypeOK
<1>2. ASSUME NEW a \in T
      PROVE  f[a] \in DOMAIN history /\ Agrees(history[f[a]], a)
  <2>1. ~Unrecorded(a)
    BY <1>2 DEF Unrecorded, NoError, Invalid
  <2>2. \E i \in DOMAIN history : Agrees(history[i], a)
    BY <2>1 DEF ResultInv, RecordInv, AnswersRecorded
  <2> QED  BY <2>2
<1>3. RowsOf(All) = DOMAIN history
  BY DEF RowsOf, Matches, All
<1>4. \A a \in T : f[a] \in S
  BY <1>2, <1>3 DEF Agrees, Status
<1>5. \A a, b \in T : f[a] = f[b] => a = b
  <2> SUFFICES ASSUME NEW a \in T, NEW b \in T, f[a] = f[b] PROVE a = b
    OBVIOUS
  <2>1. history[f[a]].id = a.id /\ history[f[b]].id = b.id
    BY <1>2 DEF Agrees
  <2> HIDE DEF f
  <2>2. a.id = b.id
    BY <2>1
  <2> QED  BY <2>2 DEF ResultInv, OneAnswer
<1>6. f \in [T -> S]
  BY <1>4
<1> HIDE DEF f
<1>7. IsFiniteSet(S)
  <2>1. IsFiniteSet(DOMAIN history)
    BY <1>1, FS_Interval
  <2>2. S \in SUBSET DOMAIN history
    BY <1>3
  <2> HIDE DEF S
  <2> QED  BY <2>1, <2>2, FS_Subset
<1>8. Cardinality(T) <= Cardinality(S)
  <2> HIDE DEF T, S
  <2> QED  BY <1>5, <1>6, <1>7, OneForEach
<1> DEFINE t == Metrics(RowsOf(All))
<1>9. t.success_count = Cardinality(S) /\ AnsweredWithRoute = Cardinality(T)
  BY DEF Metrics, AnsweredWithRoute
<1> HIDE DEF t, S, T
<1>10. AnsweredWithRoute <= t.success_count
  BY <1>8, <1>9
<1> QED  BY <1>10 DEF t

\* What the worker that makes the overview holds after the first statement,
\* counted in the table of now; and what it shows after the second.
ReportInv ==
  /\ ResultInv
  /\ report.pc \in {"none", "sources", "done"}
  /\ report.pc = "sources" =>
       /\ report.rows \in 0..Len(history)
       /\ Totals(report.totals, report.query, Cardinality(Among(history, report.query, report.rows)), report.owed)
  /\ OverviewAddsUp

LEMMA ReadTotalsKeeps ==
  ASSUME ReportInv, NEW q \in Query, ReadTotals(q), UNCHANGED vars
  PROVE  ReportInv'
<1>1. /\ report' = [pc |-> "sources", query |-> q, totals |-> Metrics(RowsOf(q)),
                    owed |-> AnsweredWithRoute, rows |-> Len(history)]
      /\ history' = history
  BY DEF ReadTotals, vars
<1>2. history \in Seq(RowRecord)
  BY DEF ReportInv, ResultInv, RecordInv, TypeOK
<1>3. report'.pc = "sources" /\ report'.query = q /\ report'.rows = Len(history)
  BY <1>1
<1>4. report'.totals = Metrics(RowsOf(q)) /\ report'.owed = AnsweredWithRoute
  BY <1>1
<1>5. RowsOf(q) = Among(history, q, Len(history))
  BY <1>2, RowsAmong
<1>6. Totals(Metrics(RowsOf(q)), q, Cardinality(RowsOf(q)), AnsweredWithRoute)
  BY MetricsAddUp, RoutesAreCounted DEF ReportInv, Totals
<1>7. Len(history) \in 0..Len(history)
  BY <1>2
<1>8. ResultInv'
  BY ResultStep DEF ReportInv
<1> QED  BY <1>1, <1>3, <1>4, <1>5, <1>6, <1>7, <1>8 DEF ReportInv, OverviewAddsUp

LEMMA ReadSourcesKeeps ==
  ASSUME ReportInv, ReadSources, UNCHANGED vars
  PROVE  ReportInv'
<1> DEFINE q == report.query
           n == report.rows
           by == BySource(RowsOf(q))
           before == Cardinality(Among(history, q, n))
           now == Cardinality(Among(history, q, Len(history)))
<1>1. /\ report' = Breakdown(RowsOf(q)) /\ report.pc = "sources"
  BY DEF ReadSources
<1>2. history \in Seq(RowRecord) /\ Len(history) \in Nat
  BY DEF ReportInv, ResultInv, RecordInv, TypeOK
<1>3. /\ report'.pc = "done" /\ report'.query = q /\ report'.totals = report.totals
      /\ report'.owed = report.owed
  BY <1>1 DEF Breakdown
<1>4. report'.rows = Len(history) - n /\ report'.source_breakdown = by
  BY <1>1 DEF Breakdown
<1>5. n \in 0..Len(history) /\ Totals(report.totals, q, before, report.owed)
  BY <1>1 DEF ReportInv
<1>6. now \in before..(before + (Len(history) - n))
  BY <1>2, <1>5, AmongMore
<1>7. by["text"] + by["map"] = now
  <2> DEFINE S == RowsOf(q)
             A == {i \in S : history[i].source_type = "text"}
             B == {i \in S : history[i].source_type = "map"}
  <2>1. S = Among(history, q, Len(history))
    BY <1>2, RowsAmong
  <2>2. IsFiniteSet(S)
    BY <1>2, <2>1, AmongFinite
  <2>3. \A i \in S : history[i].source_type \in {"text", "map"}
    <3>1. \A i \in S : history[i] \in RowRecord
      BY <1>2 DEF RowsOf
    <3> HIDE DEF S
    <3> QED  BY <3>1 DEF RowRecord
  <2>4. A \cup B = S /\ A \cap B = {}
    BY <2>3
  <2>5. by["text"] = Cardinality(A) /\ by["map"] = Cardinality(B)
    <3>1. {"text", "map"} = Source
      BY DEF Source
    <3> HIDE DEF S
    <3> QED  BY <3>1, Zenon DEF BySource, S
  <2> HIDE DEF S, A, B
  <2>6. Cardinality(A) + Cardinality(B) = Cardinality(S)
    BY <2>2, <2>4, TwoParts
  <2> QED  BY <2>1, <2>5, <2>6
<1> HIDE DEF q, n, by, before, now
<1>8. OverviewAddsUp'
  BY <1>3, <1>4, <1>5, <1>6, <1>7 DEF OverviewAddsUp, Totals, All
<1>9. ResultInv'
  BY ResultStep DEF ReportInv
<1> QED  BY <1>3, <1>8, <1>9 DEF ReportInv

LEMMA ReportStep == ReportInv /\ [AnalyticsNext]_reportVars => ReportInv'
<1> SUFFICES ASSUME ReportInv, [AnalyticsNext]_reportVars PROVE ReportInv'
  OBVIOUS
<1>1. CASE [Next]_vars /\ UNCHANGED report
  <2>1. ResultInv' /\ Grows
    BY <1>1, ResultStep DEF ReportInv
  <2>2. history \in Seq(RowRecord)
    BY DEF ReportInv, ResultInv, RecordInv, TypeOK
  <2>3. report.pc = "sources" =>
          /\ report.rows \in 0..Len(history')
          /\ Among(history', report.query, report.rows) = Among(history, report.query, report.rows)
    BY <2>1, <2>2, AmongStays DEF ReportInv
  <2>4. OverviewAddsUp'
    BY <1>1 DEF ReportInv, OverviewAddsUp
  <2> QED  BY <1>1, <2>1, <2>3, <2>4 DEF ReportInv
<1>2. ASSUME NEW q \in Query, ReadTotals(q), UNCHANGED vars PROVE ReportInv'
  BY <1>2, ReadTotalsKeeps
<1>3. CASE ReadSources /\ UNCHANGED vars
  BY <1>3, ReadSourcesKeeps
<1> QED  BY <1>1, <1>2, <1>3 DEF AnalyticsNext, reportVars

LEMMA ReportInitially == AnalyticsInit => ReportInv
<1> SUFFICES ASSUME AnalyticsInit PROVE ReportInv
  OBVIOUS
<1>1. ResultInv
  BY ResultInitially DEF AnalyticsInit
<1>2. report.pc = "none"
  BY DEF AnalyticsInit, NoReport
<1> QED  BY <1>1, <1>2 DEF ReportInv, OverviewAddsUp

\* The invariant of workers and overview together.
\* (RouteAnalyticsOverviewView.get, beside _record_history)
THEOREM ReportInvariant == AnalyticsSpec => []ReportInv
BY ReportInitially, ReportStep, PTL DEF AnalyticsSpec

\* The numbers of an overview, though counted at different moments, differ by
\* no more than the rows recorded in between, successes and failures are the
\* rows with and without a result, and no route answered before is missing.
THEOREM OverviewsAddUp == AnalyticsSpec => []OverviewAddsUp
<1>1. ReportInv => OverviewAddsUp
  BY DEF ReportInv
<1> QED  BY <1>1, ReportInvariant, PTL

-----------------------------------------------------------------------------
(* The history of a client.                                                *)

LEMMA PageSizeType == ASSUME NEW limit \in Nat PROVE PageSize(limit) \in Nat
<1>1. Max({limit, 1}) \in {limit, 1}
  <2>1. \E x \in {limit, 1} : \A y \in {limit, 1} : x >= y
    <3>1. CASE limit >= 1
      BY <3>1
    <3>2. CASE ~(limit >= 1)
      BY <3>2
    <3> QED  BY <3>1, <3>2
  <2> QED  BY <2>1, Zenon DEF Max
<1> DEFINE m == Max({limit, 1})
<1>2. m \in Nat
  BY <1>1
<1> HIDE DEF m
<1>3. Min({m, HISTORY_LIMIT}) \in {m, HISTORY_LIMIT}
  <2>1. \E x \in {m, HISTORY_LIMIT} : \A y \in {m, HISTORY_LIMIT} : x <= y
    <3>1. HISTORY_LIMIT \in Nat
      BY DEF HISTORY_LIMIT
    <3>2. CASE m <= HISTORY_LIMIT
      BY <1>2, <3>1, <3>2
    <3>3. CASE ~(m <= HISTORY_LIMIT)
      BY <1>2, <3>1, <3>3
    <3> QED  BY <3>2, <3>3
  <2> QED  BY <2>1, Zenon DEF Min
<1>4. Min({m, HISTORY_LIMIT}) \in Nat
  BY <1>2, <1>3 DEF HISTORY_LIMIT
<1> QED  BY <1>4 DEF PageSize, m

LEMMA AheadFinite ==
  ASSUME NEW S, IsFiniteSet(S), NEW i
  PROVE  /\ IsFiniteSet(Ahead(S, i)) /\ Cardinality(Ahead(S, i)) \in Nat
         /\ Cardinality(Ahead(S, i)) <= Cardinality(S)
<1>1. Ahead(S, i) \in SUBSET S
  BY DEF Ahead
<1> QED  BY <1>1, FS_Subset, FS_CardinalityType

\* Of two rows more are listed before the older one.
LEMMA AheadGrows ==
  ASSUME NEW S, S \subseteq Int, IsFiniteSet(S), NEW i \in S, NEW j \in S, j < i
  PROVE  Cardinality(Ahead(S, i)) < Cardinality(Ahead(S, j))
<1>1. \A k \in S : k > i => k > j
  OBVIOUS
<1>2. i > j /\ ~(i > i)
  OBVIOUS
<1>3. Ahead(S, i) \in SUBSET Ahead(S, j) /\ i \in Ahead(S, j) /\ i \notin Ahead(S, i)
  BY <1>1, <1>2, Zenon DEF Ahead
<1>4. /\ IsFiniteSet(Ahead(S, j)) /\ Cardinality(Ahead(S, j)) \in Nat
      /\ IsFiniteSet(Ahead(S, i)) /\ Cardinality(Ahead(S, i)) \in Nat
  BY AheadFinite
<1>5. /\ Cardinality(Ahead(S, i)) <= Cardinality(Ahead(S, j))
      /\ Cardinality(Ahead(S, j)) = Cardinality(Ahead(S, i)) => Ahead(S, j) = Ahead(S, i)
  BY <1>3, <1>4, FS_Subset
<1> QED  BY <1>3, <1>4, <1>5

\* A page holds as many rows as it may, when there are so many: the numbers of
\* rows listed before a row number the rows from zero on.
LEMMA PageFills ==
  ASSUME NEW S, S \subseteq Int, IsFiniteSet(S), NEW m \in Nat, m <= Cardinality(S)
  PROVE  Cardinality({i \in S : Cardinality(Ahead(S, i)) < m}) = m
<1> DEFINE n == Cardinality(S)
           f == [i \in S |-> Cardinality(Ahead(S, i)) + 1]
           P == {i \in S : Cardinality(Ahead(S, i)) < m}
           g == [i \in P |-> f[i]]
<1>1. n \in Nat /\ IsFiniteSet(1..n) /\ Cardinality(1..n) = n
  <2>1. n \in Nat
    BY FS_CardinalityType
  <2> HIDE DEF n
  <2>2. IsFiniteSet(1..n) /\ Cardinality(1..n) = IF 1 > n THEN 0 ELSE n - 1 + 1
    BY <2>1, FS_Interval
  <2> QED  BY <2>1, <2>2
<1>2. IsFiniteSet(1..m) /\ Cardinality(1..m) = m
  <2>1. IsFiniteSet(1..m) /\ Cardinality(1..m) = IF 1 > m THEN 0 ELSE m - 1 + 1
    BY FS_Interval
  <2> QED  BY <2>1
<1>3. ASSUME NEW i \in S PROVE Cardinality(Ahead(S, i)) \in 0..(n - 1)
  <2>1. /\ Ahead(S, i) \in SUBSET S /\ i \notin Ahead(S, i)
    BY DEF Ahead
  <2>2. Cardinality(Ahead(S, i)) \in Nat /\ Cardinality(Ahead(S, i)) <= n
    BY AheadFinite
  <2>3. n = Cardinality(Ahead(S, i)) => S = Ahead(S, i)
    BY <2>1, FS_Subset
  <2> HIDE DEF n
  <2> QED  BY <1>1, <2>1, <2>2, <2>3
<1>4. f \in [S -> 1..n]
  BY <1>1, <1>3
<1>5. \A i, j \in S : f[i] = f[j] => i = j
  <2> SUFFICES ASSUME NEW i \in S, NEW j \in S, f[i] = f[j] PROVE i = j
    OBVIOUS
  <2>1. Cardinality(Ahead(S, i)) = Cardinality(Ahead(S, j))
    BY <1>3
  <2>2. i \in Int /\ j \in Int /\ Cardinality(Ahead(S, i)) \in Int
    BY <1>3
  <2> HIDE DEF f
  <2>3. j < i => Cardinality(Ahead(S, i)) < Cardinality(Ahead(S, j))
    BY AheadGrows
  <2>4. i < j => Cardinality(Ahead(S, j)) < Cardinality(Ahead(S, i))
    BY AheadGrows
  <2> QED  BY <2>1, <2>2, <2>3, <2>4
<1> HIDE DEF n
<1>6. f \in Surjection(S, 1..n)
  <2> HIDE DEF f
  <2>1. f \in Injection(S, 1..n)
    BY <1>4, <1>5, Zenon DEF Injection, IsInjective
  <2> QED  BY <1>1, <2>1, FS_Injection DEF n
<1>7. \A k \in 1..m : \E i \in P : f[i] = k
  <2> SUFFICES ASSUME NEW k \in 1..m PROVE \E i \in P : f[i] = k
    OBVIOUS
  <2>1. k \in 1..n
    BY <1>1 DEF n
  <2>2. PICK i \in S : f[i] = k
    <3> HIDE DEF f
    <3> QED  BY <1>6, <2>1 DEF Surjection
  <2>3. Cardinality(Ahead(S, i)) < m
    BY <1>3, <2>2
  <2> QED  BY <2>2, <2>3
<1>8. \A i \in P : f[i] \in 1..m
  BY <1>3
<1>9. P \subseteq S /\ IsFiniteSet(P)
  BY FS_Subset
<1> HIDE DEF f, P
<1>10. g \in [P -> 1..m] /\ \A i, j \in P : g[i] = g[j] => i = j
  BY <1>5, <1>8, <1>9
<1>11. \A k \in 1..m : \E i \in P : g[i] = k
  BY <1>7
<1> HIDE DEF g
<1>12. g \in Injection(P, 1..m)
  BY <1>10, Zenon DEF Injection, IsInjective
<1>13. g \in Surjection(P, 1..m)
  BY <1>10, <1>11, Zenon DEF Surjection
<1>14. Cardinality(P) = Cardinality(1..m)
  BY <1>2, <1>12, <1>13, FS_Injection
<1> QED  BY <1>2, <1>14 DEF P

LEMMA HistoryFollows == RecordInv => HistoryShowsAnswered
<1> SUFFICES ASSUME RecordInv, NEW mine \in SUBSET (1..received), NEW limit \in 0..MAX_REQUESTS
             PROVE  LET shown == HistoryPage(mine, limit)
                    IN  /\ \A i \in shown : history[i].id \in mine
                        /\ \A a \in answers : a.id \in mine /\ ~Unrecorded(a) =>
                             \/ \E i \in shown : Agrees(history[i], a)
                             \/ /\ Cardinality(shown) = PageSize(limit)
                                /\ \E j \in DOMAIN history :
                                     Agrees(history[j], a) /\ \A i \in shown : i > j
  BY DEF HistoryShowsAnswered
<1> DEFINE own == {i \in DOMAIN history : history[i].id \in mine}
           m == PageSize(limit)
           shown == HistoryPage(mine, limit)
<1>1. own \subseteq Int /\ IsFiniteSet(own)
  <2>1. history \in Seq(RowRecord)
    BY DEF RecordInv, TypeOK
  <2>2. own \in SUBSET (1..Len(history)) /\ 1 \in Int /\ Len(history) \in Int
    BY <2>1
  <2>3. 1..Len(history) \subseteq Int
    OBVIOUS
  <2> HIDE DEF own
  <2>4. IsFiniteSet(1..Len(history))
    BY <2>2, FS_Interval
  <2>5. IsFiniteSet(own)
    BY <2>2, <2>4, FS_Subset
  <2> QED  BY <2>2, <2>3, <2>5
<1>2. m \in Nat
  BY PageSizeType
<1>3. shown = {i \in own : Cardinality(Ahead(own, i)) < m}
  BY DEF HistoryPage
<1>4. \A i \in shown : history[i].id \in mine
  BY <1>3
<1>5. ASSUME NEW a \in answers, a.id \in mine, ~Unrecorded(a)
      PROVE  \/ \E i \in shown : Agrees(history[i], a)
             \/ /\ Cardinality(shown) = m
                /\ \E j \in DOMAIN history : Agrees(history[j], a) /\ \A i \in shown : i > j
  <2>1. PICK j \in DOMAIN history : Agrees(history[j], a)
    BY <1>5 DEF RecordInv, AnswersRecorded
  <2>2. j \in own
    BY <1>5, <2>1 DEF Agrees
  <2> HIDE DEF own, m, shown
  <2>3. CASE j \in shown
    BY <2>1, <2>3
  <2>4. CASE j \notin shown
    <3>1. /\ Cardinality(Ahead(own, j)) \in Nat /\ Cardinality(own) \in Nat
          /\ Cardinality(Ahead(own, j)) <= Cardinality(own)
      BY <1>1, AheadFinite, FS_CardinalityType
    <3>2. ~(Cardinality(Ahead(own, j)) < m)
      BY <1>3, <2>2, <2>4
    <3>3. m <= Cardinality(own)
      BY <1>2, <3>1, <3>2
    <3>4. Cardinality(shown) = m
      BY <1>1, <1>2, <1>3, <3>3, PageFills
    <3>5. ASSUME NEW i \in shown PROVE i > j
      <4>1. i \in own /\ Cardinality(Ahead(own, i)) < m /\ Cardinality(Ahead(own, i)) \in Nat
        BY <1>1, <1>3, AheadFinite
      <4>2. i \in Int /\ j \in Int /\ i # j
        BY <1>1, <2>2, <2>4, <4>1
      <4>3. Cardinality(Ahead(own, i)) < Cardinality(Ahead(own, j))
        BY <1>2, <3>1, <3>2, <4>1
      <4>4. i < j => Cardinality(Ahead(own, j)) < Cardinality(Ahead(own, i))
        BY <1>1, <2>2, <4>1, AheadGrows
      <4> QED  BY <3>1, <4>1, <4>2, <4>3, <4>4
    <3> QED  BY <2>1, <3>4, <3>5
  <2> QED  BY <2>3, <2>4
<1> QED  BY <1>4, <1>5

\* Whoever sent which requests and whatever limit is asked for, a client sees
\* its own rows only, and every recorded answer it got, with its outcome,
\* unless the page is full of newer ones.
THEOREM HistoriesShowAnswered == Spec => []HistoryShowsAnswered
BY HistoryFollows, RecordInvariant, PTL
-----------------------------------------------------------------------------
(* The pages of an admin.                                                  *)

\* The numbers of a tally make up what was tallied.
LEMMA TallySum ==
  ASSUME NEW key, key = [i \in DOMAIN key |-> key[i]], IsFiniteSet(DOMAIN key)
  PROVE  SumFunction(Tally(key)) = Cardinality(DOMAIN key)
<1> DEFINE f == Tally(key)
           S == Range(key)
           Of(s) == {i \in DOMAIN key : key[i] \in s}
           g == [s \in SUBSET S |-> Cardinality(Of(s))]
<1>1. \A s : IsFiniteSet(Of(s)) /\ Cardinality(Of(s)) \in Nat
  <2>1. \A s : Of(s) \in SUBSET DOMAIN key
    OBVIOUS
  <2> HIDE DEF Of
  <2>2. \A s : IsFiniteSet(Of(s))
    BY <2>1, FS_Subset
  <2> QED  BY <2>2, FS_CardinalityType
<1>2. \A k \in S : f[k] = Cardinality(Of({k}))
  <2>1. \A k : {i \in DOMAIN key : key[i] = k} = Of({k})
    OBVIOUS
  <2> HIDE DEF Of
  <2> QED  BY <2>1 DEF Tally
<1>3. DOMAIN f = S
  BY DEF Tally
<1>4. IsFiniteSet(S)
  <2>1. key \in Surjection(DOMAIN key, S)
    BY DEF Surjection, Range
  <2> HIDE DEF S
  <2> QED  BY <2>1, FS_Surjection
<1>5. Naturals(f, S)
  <2> HIDE DEF f, S, Of
  <2> QED  BY <1>1, <1>2 DEF Naturals
<1>6. ASSUME NEW s \in SUBSET S
      PROVE  g[s] = IF s = {} THEN 0 ELSE f[CHOOSE x \in s : TRUE] + g[s \ {CHOOSE x \in s : TRUE}]
  <2>1. CASE s = {}
    <3>1. Of(s) = {}
      BY <2>1
    <3> HIDE DEF Of
    <3> QED  BY <2>1, <3>1, FS_EmptySet
  <2>2. CASE s # {}
    <3>1. PICK x \in s : x = CHOOSE y \in s : TRUE
      BY <2>2
    <3>2. Of(s) = Of({x}) \cup Of(s \ {x}) /\ Of({x}) \cap Of(s \ {x}) = {}
      OBVIOUS
    <3>3. s \ {x} \in SUBSET S /\ x \in S
      OBVIOUS
    <3> HIDE DEF Of, S, f
    <3>4. Cardinality(Of(s)) = Cardinality(Of({x})) + Cardinality(Of(s \ {x}))
      BY <1>1, <3>2, CountApart
    <3>5. g[s] = f[x] + g[s \ {x}]
      BY <1>2, <3>3, <3>4
    <3> HIDE DEF g
    <3> QED  BY <2>2, <3>1, <3>5
  <2> QED  BY <2>1, <2>2
<1> HIDE DEF f, S
<1>7. SumsBy(f, S, g)
  <2> HIDE DEF Of
  <2> QED  BY <1>6, Zenon DEF SumsBy
<1>8. g[S] = Cardinality(Units(f, S))
  <2> HIDE DEF g
  <2> QED  BY <1>4, <1>5, <1>7, SumsByOnly
<1>9. SumFunctionOnSet(f, S) = g[S]
  <2> HIDE DEF g
  <2> QED  BY <1>4, <1>5, <1>8, SumIsUnits
<1>10. Of(S) = DOMAIN key
  BY DEF S, Range
<1>11. g[S] = Cardinality(DOMAIN key)
  <2>1. S \in SUBSET S
    OBVIOUS
  <2> HIDE DEF Of
  <2> QED  BY <1>10, <2>1
<1>12. SumFunction(f) = SumFunctionOnSet(f, S)
  BY <1>3 DEF SumFunction
<1> QED  BY <1>9, <1>11, <1>12 DEF f

\* The rows a query asks for that are successes, and those that are not.
LEMMA RowsParted ==
  ASSUME ResultInv, NEW q
  PROVE  /\ IsFiniteSet(RowsOf(q)) /\ RowsOf(q) \subseteq DOMAIN history
         /\ Metrics(RowsOf(q)).success_count = Cardinality({i \in RowsOf(q) : HasResult(history[i])})
         /\ Metrics(RowsOf(q)).failed_count = Cardinality({i \in RowsOf(q) : ~HasResult(history[i])})
<1>1. history \in Seq(RowRecord) /\ Len(history) \in Nat
  BY DEF ResultInv, RecordInv, TypeOK
<1>2. IsFiniteSet(RowsOf(q)) /\ RowsOf(q) \subseteq DOMAIN history
  BY <1>1, RowsAmong, AmongFinite DEF RowsOf
<1>3. \A i \in RowsOf(q) : (Status(history[i]) = "success" <=> HasResult(history[i]))
                           /\ (Status(history[i]) = "failed" <=> ~HasResult(history[i]))
  BY <1>2 DEF Status, ResultInv
<1> DEFINE S == RowsOf(q)
           A == {i \in S : Status(history[i]) = "success"}
           B == {i \in S : Status(history[i]) = "failed"}
<1>4. Metrics(S).success_count = Cardinality(A) /\ Metrics(S).failed_count = Cardinality(B)
  BY DEF Metrics
<1>5. /\ A = {i \in S : HasResult(history[i])} /\ B = {i \in S : ~HasResult(history[i])}
  BY <1>3
<1> HIDE DEF S, A, B
<1> QED  BY <1>2, <1>4, <1>5 DEF S

LEMMA ReasonsTold == \A code \in FailureCode : UnresolvedReason(code) # NoReason
<1> SUFFICES ASSUME NEW code \in FailureCode PROVE UnresolvedReason(code) # NoReason
  OBVIOUS
<1>1. CASE code \in AiCode
  BY <1>1 DEF UnresolvedReason, NoReason, NoError, AiCode, RoutingCode
<1>2. CASE code \in RoutingCode
  BY <1>2 DEF UnresolvedReason, NoReason, NoError, AiCode, RoutingCode
<1>3. CASE code \in FailureCode \ (AiCode \cup RoutingCode)
  BY <1>3 DEF FailureCode, UnresolvedReason, NoReason, NoError, Confirm, AiCode, RoutingCode
<1> QED  BY <1>1, <1>2, <1>3

LEMMA PagesFollow == ResultInv => PagesAgree
<1> SUFFICES ASSUME ResultInv, NEW q \in Query
             PROVE  LET totals == Metrics(RowsOf(q)) IN
                    /\ SumFunction(UnresolvedReasons(q)) = totals.failed_count
                    /\ FilterSuccesses(q) = FilterStats(q)
                    /\ SumFunction(FilterStats(q)) = totals.success_count
                    /\ SumFunction(TopRoutes(q)) =
                         Cardinality({i \in RowsOf(q) :
                                        Status(history[i]) = "success" /\ history[i].from.name # NoPhrase})
  BY DEF PagesAgree
<1> DEFINE S == RowsOf(q)
<1>1. /\ IsFiniteSet(S) /\ S \subseteq DOMAIN history
      /\ Metrics(S).success_count = Cardinality({i \in S : HasResult(history[i])})
      /\ Metrics(S).failed_count = Cardinality({i \in S : ~HasResult(history[i])})
  BY RowsParted
<1>2. \A i \in S : /\ history[i].code = NoError <=> HasResult(history[i])
                   /\ history[i].code \in FailureCode \cup {NoError}
                   /\ history[i].code = NoError => NamesBoth(history[i])
  BY <1>1 DEF ResultInv
<1> HIDE DEF S
<1>3. ASSUME NEW T, T \in SUBSET S, NEW key, DOMAIN key = T, key = [i \in T |-> key[i]]
      PROVE  SumFunction(Tally(key)) = Cardinality(T)
  BY <1>1, <1>3, FS_Subset, TallySum
<1>4. SumFunction(UnresolvedReasons(q)) = Cardinality({i \in S : ~HasResult(history[i])})
  <2> DEFINE told == {i \in S : ~HasResult(history[i]) /\ UnresolvedReason(history[i].code) # NoReason}
             key == [i \in told |-> UnresolvedReason(history[i].code)]
  <2>1. told = {i \in S : ~HasResult(history[i])}
    BY <1>2, ReasonsTold
  <2>2. told \in SUBSET S /\ DOMAIN key = told /\ key = [i \in told |-> key[i]]
    OBVIOUS
  <2>3. UnresolvedReasons(q) = Tally(key)
    BY DEF UnresolvedReasons, S
  <2> HIDE DEF told, key
  <2> QED  BY <1>3, <2>1, <2>2, <2>3
<1>5. FilterSuccesses(q) = FilterStats(q)
  <2>1. {i \in S : HasResult(history[i]) /\ Status(history[i]) = "success"} = {i \in S : HasResult(history[i])}
    BY <1>2 DEF Status
  <2> QED  BY <2>1 DEF FilterSuccesses, FilterStats, S
<1>6. SumFunction(FilterStats(q)) = Cardinality({i \in S : HasResult(history[i])})
  <2> DEFINE T == {i \in S : HasResult(history[i])}
             key == [i \in T |-> history[i].preference]
  <2>1. T \in SUBSET S /\ DOMAIN key = T /\ key = [i \in T |-> key[i]]
    OBVIOUS
  <2>2. FilterStats(q) = Tally(key)
    BY DEF FilterStats, S
  <2> HIDE DEF T, key
  <2>3. SumFunction(Tally(key)) = Cardinality(T)
    BY <1>3, <2>1
  <2> QED  BY <2>2, <2>3 DEF T
<1>7. SumFunction(TopRoutes(q))
        = Cardinality({i \in S : Status(history[i]) = "success" /\ history[i].from.name # NoPhrase})
  <2> DEFINE named == {i \in S : /\ Status(history[i]) = "success"
                                 /\ history[i].from.name # NoPhrase /\ history[i].to.name # NoPhrase}
             key == [i \in named |-> <<history[i].from.name, history[i].to.name>>]
  <2>1. named = {i \in S : Status(history[i]) = "success" /\ history[i].from.name # NoPhrase}
    BY <1>2 DEF Status, NamesBoth
  <2>2. named \in SUBSET S /\ DOMAIN key = named /\ key = [i \in named |-> key[i]]
    OBVIOUS
  <2>3. TopRoutes(q) = Tally(key)
    BY DEF TopRoutes, S
  <2> HIDE DEF named, key
  <2> QED  BY <1>3, <2>1, <2>2, <2>3
<1> QED  BY <1>1, <1>4, <1>5, <1>6, <1>7 DEF S

\* The pages of an admin agree with one another after every row that is added.
\* (RouteUnresolvedStatsView, RouteFilterStatsView, RouteAnalyticsTopRoutesView)
THEOREM PagesStayAgreed == AnalyticsSpec => []PagesAgree /\ ReportsAgree
<1>1. ReportInv => PagesAgree
  BY PagesFollow DEF ReportInv
<1> QED  BY <1>1, ReportInvariant, PTL DEF ReportsAgree

=============================================================================
