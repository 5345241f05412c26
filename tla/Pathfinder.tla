----------------------------- MODULE Pathfinder -----------------------------
(***************************************************************************)
(* Pathfinder::FindAllRoutes of RoutingEngine/src/pathfinder.cpp: four A*  *)
(* searches in a row, one per mode mask, each a call of FindPath.  A step  *)
(* is one pop of the priority queue, one outgoing edge looked at, or one   *)
(* parent followed while the route is read back.                           *)
(*                                                                         *)
(* Every stop has ONE label (cost, parent, trip it was reached by), while  *)
(* the price of leaving it depends on that trip: a change of vehicle costs *)
(* TRANSFER_PENALTY.                                                       *)
(*                                                                         *)
(* Equal priorities, and the order of a stop's edges, are left open: the   *)
(* code's order depends on the file and on the heap.                       *)
(***************************************************************************)
EXTENDS TransitGraph, Sequences

CONSTANTS
  Request,     \* the origins and destinations asked for
  INF          \* numeric_limits::max, a cost above that of every walk offered as a route

ASSUME RequestAssumption == Request \subseteq [origin : Point, destination : Point]
ASSUME InfAssumption == INF \in Nat /\ MAX_WALK_DISTANCE * 2 * TimePerUnit(WALK) < INF

VARIABLES
  request,         \* the request being served
  results,         \* one result per finished FindPath
  pc,              \* "call", "search", "trace" or "done"
  ends,            \* endNodes
  info,            \* the label of every stop
  pq,              \* the priority queue
  top,             \* the state last expanded
  todo,            \* edges of top.u not looked at yet
  best_total,
  best_end_node,
  path,            \* the route read back so far
  curr             \* the next stop to read back, -1 at its beginning

search == <<ends, info, pq, top, todo, best_total, best_end_node>>
trace == <<path, curr>>
vars == <<request, results, pc, search, trace>>

\* Mutant of Searches: the masks of the metro and of the microbus are exchanged.
SearchesExchanged == << [type |-> "bus_only",      mask |-> {BUS, WALK}],
                        [type |-> "metro_only",    mask |-> {MICROBUS, WALK}],
                        [type |-> "microbus_only", mask |-> {METRO, WALK}],
                        [type |-> "optimal",       mask |-> ANY \cup {WALK}] >>

Searches == << [type |-> "bus_only",      mask |-> {BUS, WALK}],
               [type |-> "metro_only",    mask |-> {METRO, WALK}],
               [type |-> "microbus_only", mask |-> {MICROBUS, WALK}],
               [type |-> "optimal",       mask |-> ANY \cup {WALK}] >>

Call == Searches[Len(results) + 1]
mask == Call.mask

NodeRef == Stop \cup {-1, -2}
TripRef == Trip \cup {WALK_TRIP, ""}
PathInfo == [g : Nat, parent : NodeRef, trip : TripRef]
State == [u : NodeRef, g : Nat, f : Nat, trip : TripRef]

Unlabelled == [g |-> INF, parent |-> -1, trip |-> ""]
NoState == [u |-> -1, g |-> 0, f |-> 0, trip |-> ""]

-----------------------------------------------------------------------------
(* The candidates: stops around both ends, in the first radius that gives  *)
(* some at both, else in the last.                                         *)

candidateRadii == {MAX_WALK_DISTANCE, 25, 40, 60}

Candidates(p, radius, m) == NodesOfModeWithinRadius(p, radius, m)

FirstRadius(r, m) ==
  LET found == {radius \in candidateRadii :
                  Candidates(r.origin, radius, m) # {} /\ Candidates(r.destination, radius, m) # {}}
  IN  IF found = {} THEN 60
      ELSE CHOOSE radius \in found : \A other \in found : radius <= other

StartNodes(r, m) == Candidates(r.origin, FirstRadius(r, m), m)
EndNodes(r, m) == Candidates(r.destination, FirstRadius(r, m), m)

CanDirectWalk(r) == haversine(r.origin, r.destination) <= MAX_WALK_DISTANCE * 2

\* Mutant of heuristic: a constant of the wrong speed, the walker's.
heuristicAtWalkingSpeed(u) == haversine(At[u], request.destination) * TimePerUnit(WALK)

heuristic(u) == haversine(At[u], request.destination) * MAX_SPEED_TIME

FromOrigin(v) == WalkTime(request.origin, At[v])
ToDestination(v) == WalkTime(At[v], request.destination)

\* Taking edge e after arriving by trip arrival: changing from one vehicle to
\* another is penalised, walking on either side is not.
StepCost(arrival, e) ==
  e.weight + IF arrival # "" /\ arrival # e.trip /\ e.trip # WALK_TRIP /\ arrival # WALK_TRIP
             THEN TRANSFER_PENALTY ELSE 0

-----------------------------------------------------------------------------
(* Reading the route back into segments.                                   *)

Segment(from, to, method, stops, trip) ==
  [from |-> from, to |-> to, method |-> method, stops |-> stops, trip |-> trip]

DirectWalk == << Segment(request.origin, request.destination, WALK, 0, "") >>

\* Mutant of Breaks: a change of trip within a mode does not end a segment.
BreaksByMode(p) ==
  {i \in 2..Len(p) :
     i = Len(p) \/ GetTripMode(info[p[i + 1]].trip) # GetTripMode(info[p[i]].trip)}

\* Positions of the path at which a segment ends: the last one, and those
\* left by another trip than they were reached by.
Breaks(p) ==
  {i \in 2..Len(p) : i = Len(p) \/ info[p[i + 1]].trip # info[p[i]].trip}

Break(p, k) == CHOOSE i \in Breaks(p) : Cardinality({j \in Breaks(p) : j <= i}) = k

Segments(p) ==
  LET begin(k) == IF k = 1 THEN 1 ELSE Break(p, k - 1)
      ride(k) == Segment(At[p[begin(k)]], At[p[Break(p, k)]],
                         GetTripMode(info[p[Break(p, k)]].trip),
                         Break(p, k) - begin(k), info[p[Break(p, k)]].trip)
  IN  << Segment(request.origin, At[p[1]], WALK, 0, WALK_TRIP) >>
      \o [k \in 1..Cardinality(Breaks(p)) |-> ride(k)]
      \o << Segment(At[p[Len(p)]], request.destination, WALK, 0, WALK_TRIP) >>

-----------------------------------------------------------------------------
Init ==
  /\ request \in Request
  /\ results = << >>
  /\ pc = "call"
  /\ ends = {} /\ info = [s \in Stop |-> Unlabelled]
  /\ pq = {} /\ top = NoState /\ todo = {}
  /\ best_total = INF /\ best_end_node = -1
  /\ path = << >> /\ curr = -1

\* FindPath returns and drops its variables; FindAllRoutes makes its next call.
Return(total, segments) ==
  /\ results' = Append(results, [type |-> Call.type, total |-> total, segments |-> segments])
  /\ pc' = IF Len(results') = Len(Searches) THEN "done" ELSE "call"
  /\ ends' = {} /\ info' = [s \in Stop |-> Unlabelled]
  /\ pq' = {} /\ top' = NoState /\ todo' = {}
  /\ best_total' = INF /\ best_end_node' = -1
  /\ path' = << >> /\ curr' = -1

\* No stop around one of the ends: walk, if it is close enough.
NoCandidates ==
  /\ pc = "call"
  /\ StartNodes(request, mask) = {} \/ EndNodes(request, mask) = {}
  /\ IF CanDirectWalk(request)
     THEN Return(WalkTime(request.origin, request.destination), DirectWalk)
     ELSE Return(INF, << >>)
  /\ UNCHANGED request

StartSearch ==
  /\ pc = "call"
  /\ StartNodes(request, mask) # {} /\ EndNodes(request, mask) # {}
  /\ ends' = EndNodes(request, mask)
  /\ LET starts == StartNodes(request, mask) IN
       /\ info' = [s \in Stop |->
                     IF s \in starts THEN [g |-> FromOrigin(s), parent |-> -1, trip |-> WALK_TRIP]
                     ELSE Unlabelled]
       /\ pq' = {[u |-> s, g |-> FromOrigin(s), f |-> FromOrigin(s) + heuristic(s), trip |-> WALK_TRIP] :
                   s \in starts}
  /\ IF CanDirectWalk(request)
     THEN best_total' = WalkTime(request.origin, request.destination) /\ best_end_node' = -2
     ELSE best_total' = INF /\ best_end_node' = -1
  /\ pc' = "search"
  /\ UNCHANGED <<request, results, top, todo, trace>>

\* s may be the top of the queue.
IsTop(s) == s \in pq /\ \A t \in pq : s.f <= t.f

\* Mutant of Discard: a queued label that is the stop's own counts as superseded.
DiscardOwnLabel(s) == s.g >= info[s.u].g \/ s.g >= best_total

\* The two continues of the loop: a superseded label, or one no better than
\* the best route so far.
Discard(s) == s.g > info[s.u].g \/ s.g >= best_total

\* Mutant of PopDiscarded: the loop continues before the pop.
ContinueWithoutPop ==
  /\ pc = "search" /\ todo = {}
  /\ \E s \in pq : IsTop(s) /\ Discard(s)
  /\ UNCHANGED vars

PopDiscarded ==
  /\ pc = "search" /\ todo = {}
  /\ \E s \in pq : IsTop(s) /\ Discard(s) /\ pq' = pq \ {s}
  /\ UNCHANGED <<request, results, pc, ends, info, top, todo, best_total, best_end_node, trace>>

\* An end node may complete a better route; its edges are looked at either way.
Expand(s) ==
  /\ pc = "search" /\ todo = {}
  /\ IsTop(s) /\ ~Discard(s)
  /\ pq' = pq \ {s}
  /\ top' = s
  /\ todo' = {e \in Outgoing(s.u) : e.mode \in mask}
  /\ IF s.u \in ends /\ s.g + ToDestination(s.u) < best_total
     THEN best_total' = s.g + ToDestination(s.u) /\ best_end_node' = s.u
     ELSE UNCHANGED <<best_total, best_end_node>>
  /\ UNCHANGED <<request, results, pc, ends, info, trace>>

NewG(e) == top.g + StepCost(top.trip, e)
\* Mutant of Improves: the stop's own label is not compared.
ImprovesOnBestOnly(e) == NewG(e) < best_total

Improves(e) == NewG(e) < info[e.to].g /\ NewG(e) < best_total

Relax(e) ==
  /\ pc = "search" /\ e \in todo
  /\ Improves(e)
  /\ info' = [info EXCEPT ![e.to] = [g |-> NewG(e), parent |-> top.u, trip |-> e.trip]]
  /\ pq' = pq \cup {[u |-> e.to, g |-> NewG(e), f |-> NewG(e) + heuristic(e.to), trip |-> e.trip]}
  /\ todo' = todo \ {e}
  /\ UNCHANGED <<request, results, pc, ends, top, best_total, best_end_node, trace>>

Pass(e) ==
  /\ pc = "search" /\ e \in todo
  /\ ~Improves(e)
  /\ todo' = todo \ {e}
  /\ UNCHANGED <<request, results, pc, ends, info, pq, top, best_total, best_end_node, trace>>

SearchOver == pc = "search" /\ todo = {} /\ pq = {}

FinishWithoutStops ==
  /\ SearchOver
  /\ best_end_node \notin Stop
  /\ IF best_total = INF THEN Return(INF, << >>) ELSE Return(best_total, DirectWalk)
  /\ UNCHANGED request

\* Mutant of BeginTrace: the direct walk is read back like a route.
BeginTraceAlways ==
  /\ SearchOver
  /\ best_end_node # -1
  /\ pc' = "trace"
  /\ curr' = best_end_node
  /\ UNCHANGED <<request, results, search, path>>

BeginTrace ==
  /\ SearchOver
  /\ best_end_node \in Stop
  /\ pc' = "trace"
  /\ curr' = best_end_node
  /\ UNCHANGED <<request, results, search, path>>

Trace ==
  /\ pc = "trace" /\ curr # -1
  /\ path' = <<curr>> \o path
  /\ curr' = info[curr].parent
  /\ UNCHANGED <<request, results, pc, search>>

FinishWithRoute ==
  /\ pc = "trace" /\ curr = -1
  /\ Return(best_total, Segments(path))
  /\ UNCHANGED request

Next ==
  \/ NoCandidates \/ StartSearch \/ PopDiscarded
  \/ \E s \in pq : Expand(s)
  \/ \E e \in todo : Relax(e) \/ Pass(e)
  \/ FinishWithoutStops \/ BeginTrace \/ Trace \/ FinishWithRoute

Spec == Init /\ [][Next]_vars

\* The search is a loop of one thread that nothing blocks.
FairSpec == Spec /\ WF_vars(Next)

-----------------------------------------------------------------------------
(* Properties.                                                             *)

TypeOK ==
  /\ request \in Request
  /\ results \in Seq({results[k] : k \in 1..Len(results)})
  /\ Len(results) \in 0..Len(Searches)
  /\ pc \in {"call", "search", "trace", "done"}
  /\ pc # "done" => Len(results) < Len(Searches)
  /\ ends \subseteq Stop
  /\ info \in [Stop -> PathInfo]
  /\ \A v \in Stop : info[v].parent \in Stop \cup {-1}
  /\ pq \subseteq State /\ \A s \in pq : s.u \in Stop
  /\ top \in State
  /\ todo \subseteq Edges
  /\ best_total \in Nat
  /\ best_end_node \in NodeRef
  /\ path \in Seq(Stop)
  /\ curr \in Stop \cup {-1}

\* What the label of v claims, given the labels as they are NOW: v is one of
\* the start nodes and the label is the walk to it, or some edge the mode mask
\* allows leads from its parent to v, and the label is the parent's plus that
\* step.
Realised(v, starts) ==
  IF info[v].parent = -1
  THEN v \in starts /\ info[v].g = FromOrigin(v) /\ info[v].trip = WALK_TRIP
  ELSE \E e \in Outgoing(info[v].parent) :
         /\ e.to = v /\ e.mode \in mask /\ e.trip = info[v].trip
         /\ info[v].g = info[info[v].parent].g + StepCost(info[info[v].parent].trip, e)

\* The route read back through parents is the route whose cost was computed:
\* every label agrees with the CURRENT label of its parent, and the best total
\* with that of its end node, though a parent's label could have been
\* overwritten, with another trip, after its children were reached.
\* (the relaxation and the read-back of FindPath)
LabelsRealised ==
  pc \in {"search", "trace"} =>
    /\ LET starts == StartNodes(request, mask)
       IN  \A v \in Stop : info[v] # Unlabelled => Realised(v, starts)
    /\ best_end_node \in Stop =>
         best_end_node \in ends /\ best_total = info[best_end_node].g + ToDestination(best_end_node)

\* Parents are strictly cheaper than their children: following parents from
\* any stop ends, so the read-back loop of FindPath, which has no bound of its
\* own, cannot go round.
ParentsCheaper ==
  pc \in {"search", "trace"} =>
    \A v \in Stop : info[v].parent # -1 => info[info[v].parent].g < info[v].g

\* A stop some label or the best route was derived from.
Closed(v) == v = best_end_node \/ v = top.u \/ \E w \in Stop : info[w].parent = v

\* A stop that was expanded is final: while a search runs no step gives it
\* another cost, parent or trip, and the estimates of the states expanded
\* never decrease.  FindPath has no closed set; it relies on the estimate
\* being consistent.
Final ==
  pc \in {"search", "trace"} /\ pc' \in {"search", "trace"} =>
    /\ \A v \in Stop : Closed(v) => info'[v] = info[v]
    /\ top.f <= top'.f

ExpandedFinal == [][Final]_vars

\* All four searches return: no pop, relaxation or read-back goes on for ever.
Termination == <>(pc = "done")

=============================================================================
