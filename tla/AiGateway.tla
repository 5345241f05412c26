------------------------------ MODULE AiGateway ------------------------------
(***************************************************************************)
(* The way from a process of the API to the AI service: the registry of    *)
(* clients of Infrastructure/GrpcClients/__init__.py, which every route    *)
(* request and every health check asks for the client, ai_client.py, which *)
(* calls with a deadline, and the threads of AiService, which know nothing *)
(* of deadlines and finish what they began for callers that have left.     *)
(*                                                                         *)
(* Outside: gRPC, which hands a call to a thread, its reply to the caller  *)
(* that still waits, and ends a call at its deadline or when the service   *)
(* cannot be reached.  The registry of the routing client is the same.     *)
(***************************************************************************)
EXTENDS AiService

CONSTANTS
  Asked,       \* bound: in a behaviour, requests ask about the texts of one of these sets
  MAX_CALLS    \* bound: requests of this process; the others are of other processes

\* In place of a text: a health check, which only asks for the client.
Health == <<"health check">>
ASSUME AskedAssumption == Asked \subseteq SUBSET Text /\ Health \notin Text
ASSUME CallsAssumption == MAX_CALLS \in Nat

Failed == "failed"      \* the client could not be made (_init_errors)
NoClient == "none"
Ready == "ready"

VARIABLES
  asked,      \* what requests ask about
  client,     \* _ai_client and _init_errors["ai"]
  opened,     \* channels opened so far
  lock,       \* the call that holds _ai_lock, or 0
  call,       \* the requests of this process, in the order they come, and how each
              \* ended: one end stands for all that the service may reply, and one
              \* for DEADLINE_EXCEEDED and UNAVAILABLE
  serving     \* the call each thread of the service works for, 0 for one of another process

gatewayVars == <<vars, asked, client, opened, lock, call, serving>>

Calls == 1..MAX_CALLS
NoCall == [pc |-> "none", asks |-> Health, end |-> "none"]

GatewayInit ==
  /\ Init /\ asked \in Asked
  /\ client = NoClient /\ opened = 0 /\ lock = 0
  /\ call = [k \in Calls |-> NoCall]
  /\ serving = [w \in Thread |-> 0]

Set(k, pc, end) == call' = [call EXCEPT ![k].pc = pc, ![k].end = end]

\* Call k learns whether there is a client, and goes on to call the service.
Told(k, verdict) ==
  IF verdict = Failed THEN Set(k, "done", "boot error")
  ELSE IF call[k].asks = Health THEN Set(k, "done", "healthy")
  ELSE Set(k, "sent", "none")

Begin(k) ==
  /\ call[k].pc = "none" /\ \A j \in 1..(k - 1) : call[j].pc # "none"
  /\ \E asks \in asked \cup {Health} : call' = [call EXCEPT ![k] = [NoCall EXCEPT !.pc = "ask", !.asks = asks]]
  /\ UNCHANGED <<vars, asked, client, opened, lock, serving>>

\* Mutant of Enter: the client is looked for before the lock is taken.
EnterUnlocked(k) ==
  /\ call[k].pc = "ask"
  /\ \/ client # NoClient /\ Told(k, client)
     \/ client = NoClient /\ Set(k, "make", "none")
  /\ UNCHANGED <<vars, asked, client, opened, lock, serving>>

\* get_ai_client: under the lock, the first to come makes the client.
Enter(k) ==
  /\ call[k].pc = "ask" /\ lock = 0
  /\ \/ client # NoClient /\ Told(k, client) /\ lock' = lock
     \/ client = NoClient /\ Set(k, "make", "none") /\ lock' = k
  /\ UNCHANGED <<vars, asked, client, opened, serving>>

\* Mutant of Make: the lock is not given back when the client cannot be made.
MakeAndHold(k) ==
  /\ call[k].pc = "make"
  /\ opened' = opened + 1
  /\ client' \in {Ready, Failed}
  /\ Told(k, client')
  /\ lock' = IF client' = Failed THEN lock ELSE 0
  /\ UNCHANGED <<vars, asked, serving>>

\* _init_ai_client: the channel is opened, and then the stubs may be missing.
Make(k) ==
  /\ call[k].pc = "make"
  /\ opened' = opened + 1
  /\ client' \in {Ready, Failed}
  /\ Told(k, client')
  /\ lock' = 0
  /\ UNCHANGED <<vars, asked, serving>>

-----------------------------------------------------------------------------
(* The call, and the thread that takes it.                                 *)

\* Idle threads are alike: which of them takes a call is all the same.
Takes(w, t) ==
  /\ task[w].pc = "idle" /\ w = CHOOSE v \in Thread : task[v].pc = "idle"
  /\ Receive(w, t)

Serve(w, k) ==
  /\ call[k].pc = "sent"
  /\ Takes(w, call[k].asks)
  /\ call' = [call EXCEPT ![k].pc = "served"]
  /\ serving' = [serving EXCEPT ![w] = k]
  /\ UNCHANGED <<asked, client, opened, lock>>

ServeOther(w) ==
  /\ \E t \in asked : Takes(w, t)
  /\ UNCHANGED <<asked, client, opened, lock, call, serving>>

Locating(w) ==
  /\ Look(w) \/ AskGoogle(w) \/ AskGoogleInCairo(w) \/ AskNominatim(w)
  /\ UNCHANGED <<asked, client, opened, lock, call, serving>>

\* A reply nobody waits for is dropped.
Finish(w) ==
  /\ Reply(w)
  /\ serving' = [serving EXCEPT ![w] = 0]
  /\ IF serving[w] # 0 /\ call[serving[w]].pc = "served"
     THEN Set(serving[w], "done", "reply") ELSE UNCHANGED call
  /\ UNCHANGED <<asked, client, opened, lock>>

\* The deadline of the stub's call passes.
Expire(k) ==
  /\ call[k].pc \in {"sent", "served"}
  /\ Set(k, "done", "grpc error")
  /\ UNCHANGED <<vars, asked, client, opened, lock, serving>>

Unreachable(k) ==
  /\ call[k].pc = "sent"
  /\ Set(k, "done", "grpc error")
  /\ UNCHANGED <<vars, asked, client, opened, lock, serving>>

\* The service restarts, and the calls its threads had taken are cut off.
ServiceRestarts ==
  /\ Restart
  /\ serving' = [w \in Thread |-> 0]
  /\ call' = [k \in Calls |-> IF call[k].pc = "served"
                              THEN [call[k] EXCEPT !.pc = "done", !.end = "grpc error"] ELSE call[k]]
  /\ UNCHANGED <<asked, client, opened, lock>>

GatewayNext ==
  \/ \E k \in Calls : Begin(k) \/ Enter(k) \/ Make(k) \/ Expire(k) \/ Unreachable(k)
  \/ \E w \in Thread, k \in Calls : Serve(w, k)
  \/ \E w \in Thread : ServeOther(w) \/ Locating(w) \/ Finish(w)
  \/ ServiceRestarts

\* Threads of the API are scheduled and deadlines pass.  Nothing is assumed of
\* the service: googlemaps sets no timeout of its own, and retries for a minute.
GatewaySpec ==
  /\ GatewayInit /\ [][GatewayNext]_gatewayVars
  /\ \A k \in Calls : WF_gatewayVars(Enter(k)) /\ WF_gatewayVars(Make(k)) /\ WF_gatewayVars(Expire(k))

-----------------------------------------------------------------------------
(* Properties.                                                             *)

GatewayTypeOK ==
  /\ TypeOK
  /\ asked \in Asked
  /\ client \in {NoClient, Ready, Failed} /\ opened \in 0..MAX_CALLS /\ lock \in 0..MAX_CALLS
  /\ call \in [Calls -> [pc : {"none", "ask", "make", "sent", "served", "done"},
                         asks : asked \cup {Health},
                         end : {"none", "boot error", "healthy", "reply", "grpc error"}]]
  /\ serving \in [Thread -> 0..MAX_CALLS]

\* However many requests and health checks race for the first use of the
\* client, one channel is opened, and all of them, then and later, are told
\* the same: no request is refused for want of a client while another is
\* served or told that all is well.  (get_ai_client)
OneVerdict ==
  /\ opened <= 1
  /\ \A j, k \in Calls :
       call[j].end = "boot error" => call[k].pc \in {"none", "ask"} \/ call[k].end = "boot error"

\* Every request that asks the service goes on, with a reply or without one:
\* not even threads that all hang in a call of Google, on behalf of callers
\* that have long left, keep a request of the API waiting.
\* (the timeout of extract_route, the lock of get_ai_client)
CallersGoOn == \A k \in Calls : call[k].pc # "none" ~> call[k].pc = "done"

=============================================================================
