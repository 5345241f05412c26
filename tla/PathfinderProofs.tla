-------------------------- MODULE PathfinderProofs --------------------------
(***************************************************************************)
(* The route FindPath reads back is the route it priced, for every network *)
(* and every request.                                                      *)
(*                                                                         *)
(* The argument is that of a consistent estimate.  Top.f never decreases;  *)
(* a stop that was expanded, or that the best route ends in, has an        *)
(* estimated total of at most top.f (Behind); every label made from now on *)
(* has one of at least top.f.  So an expanded stop is never relabelled,    *)
(* and a label keeps agreeing with its parent's.                           *)
(***************************************************************************)
EXTENDS Pathfinder, TLAPS

-----------------------------------------------------------------------------
(* The geometry and the graph.                                             *)

LEMMA HaversineType ==
  ASSUME NEW p \in Point, NEW q \in Point
  PROVE  haversine(p, q) \in Nat
BY DEF Point, haversine, Abs

LEMMA HaversineTriangle ==
  ASSUME NEW p \in Point, NEW q \in Point, NEW r \in Point
  PROVE  haversine(p, r) <= haversine(p, q) + haversine(q, r)
BY DEF Point, haversine, Abs

LEMMA ModesDiffer ==
  /\ METRO # BUS /\ METRO # MICROBUS /\ METRO # WALK
  /\ BUS # MICROBUS /\ BUS # WALK /\ MICROBUS # WALK
BY DEF METRO, BUS, MICROBUS, WALK

LEMMA SpeedBound ==
  /\ \A mode : TimePerUnit(mode) \in Nat /\ MAX_SPEED_TIME <= TimePerUnit(mode)
  /\ TimePerUnit(WALK) = 143
  /\ MAX_SPEED_TIME = 8
BY ModesDiffer DEF TimePerUnit, MAX_SPEED_TIME

LEMMA EdgeModeType == \A t \in Trip : EdgeMode(t) \in Mode
BY TripModeAssumption DEF EdgeMode, Mode, ANY

\* An edge is a ride between kept rows of one trip or a walk between two
\* walkable stops.
LEMMA EdgeCases ==
  ASSUME NEW e \in Edges
  PROVE  \/ \E t \in Trip, u \in Stop, v \in Stop : e = RideEdge(t, u, v)
         \/ \E u \in Stop, v \in Stop : e = WalkEdge(u, v) /\ haversine(At[u], At[v]) > 0
<1>1. CASE e \in TransitEdges
  <2>1. \A x \in Entry : x.trip \in Trip /\ x.stop \in Stop
    BY StopTimesAssumption DEF Entry
  <2> QED
    BY <1>1, <2>1 DEF TransitEdges
<1>2. CASE e \in WalkEdges
  <2>1. PICK u \in Stop, v \in Stop : e = WalkEdge(u, v) /\ (Walkable(u, v) \/ Walkable(v, u))
    BY <1>2 DEF WalkEdges
  <2>2. At[u] \in Point /\ At[v] \in Point
    BY PositionAssumption
  <2>3. haversine(At[u], At[v]) = haversine(At[v], At[u])
    BY <2>2 DEF haversine, Abs, Point
  <2>4. haversine(At[u], At[v]) > 0
    BY <2>1, <2>3 DEF Walkable
  <2> QED
    BY <2>1, <2>4
<1> QED
  BY <1>1, <1>2 DEF Edges

\* Edges are well formed and take time.
LEMMA EdgeType ==
  ASSUME NEW e \in Edges
  PROVE  /\ e.from \in Stop /\ e.to \in Stop
         /\ e.weight \in Nat /\ e.weight > 0
         /\ e.trip \in Trip \cup {WALK_TRIP} /\ e.trip # ""
         /\ e.mode \in Mode
<1>1. ASSUME NEW t \in Trip, NEW u \in Stop, NEW v \in Stop, e = RideEdge(t, u, v)
      PROVE  e.weight \in Nat /\ e.weight > 0
  <2>1. haversine(At[u], At[v]) \in Nat
    BY HaversineType, PositionAssumption
  <2>2. TimePerUnit(EdgeMode(t)) \in Nat
    BY SpeedBound
  <2>3. haversine(At[u], At[v]) * TimePerUnit(EdgeMode(t)) \in Nat
    BY <2>1, <2>2
  <2> QED
    BY <1>1, <2>3 DEF RideEdge, RideTime, STOP_DWELL_TIME
<1>2. ASSUME NEW u \in Stop, NEW v \in Stop, e = WalkEdge(u, v), haversine(At[u], At[v]) > 0
      PROVE  e.weight \in Nat /\ e.weight > 0
  <2>1. haversine(At[u], At[v]) \in Nat
    BY HaversineType, PositionAssumption
  <2> QED
    BY <1>2, <2>1, SpeedBound DEF WalkEdge, WalkTime
<1>3. e.weight \in Nat /\ e.weight > 0
  BY <1>1, <1>2, EdgeCases
<1>4. e.from \in Stop /\ e.to \in Stop /\ e.trip \in Trip \cup {WALK_TRIP} /\ e.mode \in Mode
  BY EdgeCases, EdgeModeType DEF RideEdge, WalkEdge, Mode
<1>5. e.trip # ""
  BY <1>4, TripAssumption DEF WALK_TRIP
<1> QED
  BY <1>3, <1>4, <1>5

\* The estimate at MAX_SPEED_MPS is consistent: over an edge it falls by no
\* more than the edge costs, since no mode is faster and distances obey the
\* triangle inequality.
THEOREM HeuristicConsistent ==
  ASSUME NEW e \in Edges, NEW d \in Point
  PROVE  haversine(At[e.from], d) * MAX_SPEED_TIME
           <= e.weight + haversine(At[e.to], d) * MAX_SPEED_TIME
<1> DEFINE x(u) == haversine(At[u], d)
<1>1. \A u \in Stop : At[u] \in Point /\ x(u) \in Nat
  BY HaversineType, PositionAssumption
<1>2. ASSUME NEW u \in Stop, NEW v \in Stop, NEW secs \in Nat, secs >= 8
      PROVE  x(u) * 8 <= haversine(At[u], At[v]) * secs + x(v) * 8
  <2> DEFINE y == haversine(At[u], At[v])
  <2>1. y \in Nat
    BY <1>1, HaversineType
  <2>2. x(u) <= y + x(v)
    BY <1>1, HaversineTriangle
  <2>3. y * 8 <= y * secs
    BY <2>1, <1>2
  <2> HIDE DEF x, y
  <2>4. y * 8 \in Nat /\ y * secs \in Nat
    BY <2>1
  <2>5. x(u) * 8 <= y * 8 + x(v) * 8
    BY <2>1, <2>2, <1>1
  <2> QED
    BY <2>3, <2>4, <2>5, <1>1 DEF y
<1> HIDE DEF x
<1>3. ASSUME NEW t \in Trip, NEW u \in Stop, NEW v \in Stop, e = RideEdge(t, u, v)
      PROVE  x(e.from) * 8 <= e.weight + x(e.to) * 8
  <2>1. TimePerUnit(EdgeMode(t)) \in Nat /\ TimePerUnit(EdgeMode(t)) >= 8
    BY SpeedBound
  <2>2. x(u) * 8 <= haversine(At[u], At[v]) * TimePerUnit(EdgeMode(t)) + x(v) * 8
    BY <1>2, <2>1
  <2>3. haversine(At[u], At[v]) * TimePerUnit(EdgeMode(t)) \in Nat
    BY <2>1, <1>1, HaversineType
  <2>4. e.from = u /\ e.to = v /\ e.weight = RideTime(t, u, v)
    BY <1>3 DEF RideEdge
  <2> QED
    BY <2>2, <2>3, <2>4, <1>1 DEF RideTime, STOP_DWELL_TIME
<1>4. ASSUME NEW u \in Stop, NEW v \in Stop, e = WalkEdge(u, v)
      PROVE  x(e.from) * 8 <= e.weight + x(e.to) * 8
  <2>1. x(u) * 8 <= haversine(At[u], At[v]) * 143 + x(v) * 8
    BY <1>2
  <2>2. e.from = u /\ e.to = v /\ e.weight = WalkTime(At[u], At[v])
    BY <1>4 DEF WalkEdge
  <2> QED
    BY <2>1, <2>2, SpeedBound DEF WalkTime
<1> QED
  BY <1>3, <1>4, EdgeCases, SpeedBound DEF x

LEMMA StepCostType ==
  ASSUME NEW e \in Edges, NEW arrival
  PROVE  StepCost(arrival, e) \in Nat /\ StepCost(arrival, e) >= e.weight
<1>1. e.weight \in Nat
  BY EdgeType
<1>2. StepCost(arrival, e) = e.weight + 0 \/ StepCost(arrival, e) = e.weight + 120
  BY Zenon DEF StepCost, TRANSFER_PENALTY
<1> QED
  BY <1>1, <1>2

-----------------------------------------------------------------------------
(* Type correctness.                                                       *)

LEMMA RequestType == request \in Request => request.origin \in Point /\ request.destination \in Point
BY RequestAssumption

LEMMA WalkTimeType ==
  ASSUME NEW p \in Point, NEW q \in Point
  PROVE  WalkTime(p, q) \in Nat
BY HaversineType, SpeedBound DEF WalkTime

LEMMA CostTypes ==
  ASSUME request \in Request, NEW v \in Stop
  PROVE  heuristic(v) \in Nat /\ FromOrigin(v) \in Nat /\ ToDestination(v) \in Nat
<1>1. At[v] \in Point /\ request.origin \in Point /\ request.destination \in Point
  BY RequestType, PositionAssumption
<1>2. haversine(At[v], request.destination) \in Nat
  BY <1>1, HaversineType
<1> QED
  BY <1>1, <1>2, WalkTimeType, SpeedBound DEF heuristic, FromOrigin, ToDestination

LEMMA CandidatesType ==
  ASSUME NEW r, NEW m
  PROVE  StartNodes(r, m) \subseteq Stop /\ EndNodes(r, m) \subseteq Stop
BY DEF StartNodes, EndNodes, Candidates, NodesOfModeWithinRadius, NodesWithinRadius, Surrounding

LEMMA FourSearches == Len(Searches) = 4
BY DEF Searches

LEMMA ReturnType ==
  ASSUME TypeOK, pc # "done", NEW total \in Nat, NEW segments, Return(total, segments),
         request' = request
  PROVE  TypeOK'
<1> DEFINE r == [type |-> Call.type, total |-> total, segments |-> segments]
<1> DEFINE S == {results[k] : k \in 1..Len(results)}
           n == Len(results)
<1>1. results \in Seq(S) /\ n \in Nat /\ n < Len(Searches)
  BY DEF TypeOK
<1>2. results' = Append(results, r)
  BY DEF Return
<1> HIDE DEF r, S
<1>3. results' \in Seq(S \cup {r}) /\ Len(results') = n + 1
  <2>1. results \in Seq(S \cup {r})
    BY <1>1
  <2> QED
    BY <1>1, <1>2, <2>1
<1>4. results' \in Seq({results'[k] : k \in 1..Len(results')})
  BY <1>3
<1>5. Len(results') \in 0..Len(Searches) /\ Len(Searches) = 4
  <2> HIDE DEF n
  <2>1. n \in Nat /\ n < 4
    BY <1>1, FourSearches
  <2> QED
    BY <1>3, <2>1, FourSearches
<1>6. pc' \in {"call", "done"} /\ (pc' # "done" => Len(results') < Len(Searches))
  BY <1>5 DEF Return
<1>7. info' \in [Stop -> PathInfo] /\ \A v \in Stop : info'[v].parent = -1
  BY InfAssumption DEF Return, Unlabelled, PathInfo, NodeRef, TripRef
<1>8. NoState \in State
  BY DEF NoState, State, NodeRef, TripRef
<1>9. /\ ends' = {} /\ pq' = {} /\ top' = NoState /\ todo' = {} /\ best_total' = INF
      /\ best_end_node' = -1 /\ path' = << >> /\ curr' = -1 /\ request' \in Request
  BY DEF Return, TypeOK
<1>10. INF \in Nat
  BY InfAssumption
<1> QED
  BY <1>4, <1>5, <1>6, <1>7, <1>8, <1>9, <1>10 DEF TypeOK, NodeRef

LEMMA InitType == Init => TypeOK
<1> SUFFICES ASSUME Init PROVE TypeOK
  OBVIOUS
<1>1. info \in [Stop -> PathInfo] /\ \A v \in Stop : info[v].parent = -1
  BY InfAssumption DEF Init, Unlabelled, PathInfo, NodeRef, TripRef
<1>2. NoState \in State
  BY DEF NoState, State, NodeRef, TripRef
<1>3. results = << >> /\ results \in Seq({results[k] : k \in 1..Len(results)})
  BY DEF Init
<1> QED
  BY <1>1, <1>2, <1>3, InfAssumption, FourSearches DEF Init, TypeOK, NodeRef

LEMMA StartSearchType == TypeOK /\ StartSearch => TypeOK'
<1> SUFFICES ASSUME TypeOK, StartSearch PROVE TypeOK'
  OBVIOUS
<1>1. \A v \in Stop : FromOrigin(v) \in Nat /\ heuristic(v) \in Nat
  BY CostTypes DEF TypeOK
<1>2. StartNodes(request, mask) \subseteq Stop /\ EndNodes(request, mask) \subseteq Stop
  BY CandidatesType
<1>3. info' \in [Stop -> PathInfo] /\ \A v \in Stop : info'[v].parent = -1
  BY <1>1, InfAssumption DEF StartSearch, Unlabelled, PathInfo, NodeRef, TripRef
<1>4. pq' \subseteq State /\ \A s \in pq' : s.u \in Stop
  <2>1. ASSUME NEW s \in pq' PROVE s \in State /\ s.u \in Stop
    <3>1. PICK v \in Stop : s = [u |-> v, g |-> FromOrigin(v), f |-> FromOrigin(v) + heuristic(v),
                                trip |-> WALK_TRIP]
      BY <1>2, <2>1 DEF StartSearch
    <3>2. FromOrigin(v) \in Nat /\ FromOrigin(v) + heuristic(v) \in Nat
      BY <1>1
    <3> QED
      BY <3>1, <3>2 DEF State, NodeRef, TripRef
  <2> QED
    BY <2>1
<1>5. request.origin \in Point /\ request.destination \in Point
  BY RequestType DEF TypeOK
<1>6. best_total' \in Nat /\ best_end_node' \in NodeRef
  BY <1>5, WalkTimeType, InfAssumption DEF StartSearch, NodeRef
<1> QED
  BY <1>2, <1>3, <1>4, <1>6 DEF StartSearch, TypeOK, trace

LEMMA ExpandType == ASSUME TypeOK, NEW s \in pq, Expand(s) PROVE TypeOK'
<1>1. s \in State /\ s.u \in Stop /\ s.g \in Nat
  BY DEF TypeOK, State
<1>2. ToDestination(s.u) \in Nat
  BY <1>1, CostTypes DEF TypeOK
<1>3. best_total' \in Nat /\ best_end_node' \in NodeRef
  BY <1>1, <1>2 DEF Expand, NodeRef, TypeOK
<1>4. todo' \subseteq Edges
  BY DEF Expand, Outgoing
<1> QED
  BY <1>1, <1>3, <1>4 DEF Expand, TypeOK, trace

LEMMA RelaxType ==
  ASSUME TypeOK, NEW e \in todo, Relax(e), top.u \in Stop PROVE TypeOK'
<1>1. e \in Edges /\ e.to \in Stop /\ e.trip \in TripRef
  BY EdgeType DEF TypeOK, TripRef
<1>2. NewG(e) \in Nat
  BY <1>1, StepCostType DEF TypeOK, State, NewG
<1>3. heuristic(e.to) \in Nat
  BY <1>1, CostTypes DEF TypeOK
<1>4. [g |-> NewG(e), parent |-> top.u, trip |-> e.trip] \in PathInfo
  BY <1>1, <1>2 DEF PathInfo, NodeRef
<1>5. info' \in [Stop -> PathInfo] /\ \A v \in Stop : info'[v].parent \in Stop \cup {-1}
  BY <1>1, <1>4 DEF Relax, TypeOK
<1>6. NewG(e) + heuristic(e.to) \in Nat
  BY <1>2, <1>3
<1>7. [u |-> e.to, g |-> NewG(e), f |-> NewG(e) + heuristic(e.to), trip |-> e.trip] \in State
  BY <1>1, <1>2, <1>6 DEF State, NodeRef
<1>8. pq' \subseteq State /\ \A s \in pq' : s.u \in Stop
  BY <1>1, <1>7 DEF Relax, TypeOK
<1> QED
  BY <1>5, <1>8 DEF Relax, TypeOK, trace

LEMMA TraceType == TypeOK /\ Trace => TypeOK'
<1> SUFFICES ASSUME TypeOK, Trace PROVE TypeOK'
  OBVIOUS
<1>1. curr \in Stop /\ curr' \in Stop \cup {-1}
  BY DEF Trace, TypeOK
<1>2. path' \in Seq(Stop)
  BY <1>1 DEF Trace, TypeOK
<1> QED
  BY <1>1, <1>2 DEF Trace, TypeOK, search

-----------------------------------------------------------------------------
(* The inductive invariant.                                                *)

Searching == pc \in {"search", "trace"}

\* Every queued state has the estimate of its cost, is not ahead of the label
\* of its stop, holds that label's trip if it is the label's own, and comes no
\* earlier than the state last expanded.
Queue ==
  \A s \in pq :
    /\ s.f = s.g + heuristic(s.u) /\ top.f <= s.f
    /\ info[s.u].g <= s.g
    /\ s.g = info[s.u].g => s.trip = info[s.u].trip

\* The state being expanded is the label of its stop.
Expanding ==
  todo # {} =>
    /\ pc = "search"
    /\ top.u \in Stop
    /\ top.g = info[top.u].g /\ top.trip = info[top.u].trip
    /\ top.f = top.g + heuristic(top.u)
    /\ todo \subseteq {e \in Outgoing(top.u) : e.mode \in mask}

\* Stops that others depend on lie behind the front of the search.
Behind ==
  Searching => \A v \in Stop : Closed(v) => info[v].g + heuristic(v) <= top.f

\* Before a search nothing is queued; while a route is read back nothing is.
Dormant ==
  /\ pc # "search" => pq = {} /\ todo = {}
  /\ pc = "call" => top = NoState

LabelInv == TypeOK /\ Queue /\ Expanding /\ Behind /\ LabelsRealised /\ Dormant

\* A relaxation that improves a label does not touch a closed stop.
LEMMA RelaxFresh ==
  ASSUME LabelInv, NEW e \in todo, Relax(e)
  PROVE  ~Closed(e.to) /\ top.u # e.to /\ top.f <= NewG(e) + heuristic(e.to)
<1>1. /\ todo # {} /\ Searching /\ top.u \in Stop /\ e.from = top.u /\ e \in Edges
      /\ top.f = top.g + heuristic(top.u)
  BY DEF LabelInv, Expanding, Outgoing, Searching
<1>2. e.to \in Stop /\ e.weight \in Nat
  BY <1>1, EdgeType
<1>3. heuristic(top.u) \in Nat /\ heuristic(e.to) \in Nat
  BY <1>1, <1>2, CostTypes DEF LabelInv, TypeOK
<1>4. heuristic(top.u) <= e.weight + heuristic(e.to)
  BY <1>1, HeuristicConsistent, RequestType DEF heuristic, LabelInv, TypeOK
<1>5. top.g \in Nat /\ info[e.to].g \in Nat
  BY <1>2 DEF LabelInv, TypeOK, State, PathInfo
<1>6. StepCost(top.trip, e) \in Nat /\ StepCost(top.trip, e) >= e.weight
  BY <1>1, StepCostType
<1>7. NewG(e) \in Nat /\ top.f <= NewG(e) + heuristic(e.to)
  BY <1>1, <1>2, <1>3, <1>4, <1>5, <1>6 DEF NewG
<1>8. ~Closed(e.to)
  <2> SUFFICES ASSUME Closed(e.to) PROVE FALSE
    OBVIOUS
  <2>1. info[e.to].g + heuristic(e.to) <= top.f
    BY <1>1, <1>2 DEF LabelInv, Behind
  <2>2. NewG(e) < info[e.to].g
    BY DEF Relax, Improves
  <2>3. top.f \in Nat
    BY DEF LabelInv, TypeOK, State
  <2> QED
    BY <1>3, <1>5, <1>7, <2>1, <2>2, <2>3
<1> QED
  BY <1>7, <1>8 DEF Closed

LEMMA RelaxInv ==
  ASSUME LabelInv, NEW e \in todo, Relax(e)
  PROVE  LabelInv'
<1> DEFINE label == [g |-> NewG(e), parent |-> top.u, trip |-> e.trip]
           queued == [u |-> e.to, g |-> NewG(e), f |-> NewG(e) + heuristic(e.to), trip |-> e.trip]
<1>1. /\ pc = "search" /\ top.u \in Stop /\ e \in Outgoing(top.u) /\ e.mode \in mask /\ e \in Edges
      /\ top.g = info[top.u].g /\ top.trip = info[top.u].trip /\ top.f = top.g + heuristic(top.u)
      /\ TypeOK /\ e.from = top.u
  BY DEF LabelInv, Expanding, Outgoing
<1>2. e.to \in Stop
  BY <1>1, EdgeType
<1>3. ~Closed(e.to) /\ top.u # e.to /\ top.f <= NewG(e) + heuristic(e.to)
  BY RelaxFresh
<1>4. /\ request' = request /\ results' = results /\ pc' = pc /\ ends' = ends /\ top' = top
      /\ best_total' = best_total /\ best_end_node' = best_end_node
      /\ info' = [info EXCEPT ![e.to] = label] /\ pq' = pq \cup {queued} /\ todo' = todo \ {e}
  BY DEF Relax
<1>5. info'[e.to] = label /\ \A v \in Stop : v # e.to => info'[v] = info[v]
  BY <1>1, <1>2, <1>4 DEF TypeOK
<1>6. /\ NewG(e) \in Nat /\ info[e.to].g \in Nat /\ NewG(e) < info[e.to].g
      /\ \A v \in Stop : heuristic(v) \in Nat
  <2>1. NewG(e) \in Nat
    BY <1>1, StepCostType DEF TypeOK, State, NewG
  <2> QED
    BY <1>1, <1>2, <2>1, CostTypes DEF Relax, Improves, TypeOK, PathInfo
<1>7. mask' = mask /\ \A v : heuristic(v)' = heuristic(v)
  BY <1>4 DEF mask, Call, heuristic
<1> HIDE DEF label, queued
<1>10. TypeOK'
  BY <1>1, RelaxType
<1>11. Queue'
  <2> SUFFICES ASSUME NEW s \in pq'
               PROVE  /\ s.f = s.g + heuristic(s.u) /\ top.f <= s.f
                      /\ info'[s.u].g <= s.g
                      /\ s.g = info'[s.u].g => s.trip = info'[s.u].trip
    BY <1>4, <1>7 DEF Queue
  <2>1. CASE s = queued
    BY <2>1, <1>3, <1>5, <1>6 DEF queued, label
  <2>2. CASE s \in pq
    <3>1. /\ s.f = s.g + heuristic(s.u) /\ top.f <= s.f /\ info[s.u].g <= s.g
          /\ s.g = info[s.u].g => s.trip = info[s.u].trip
      BY <2>2 DEF LabelInv, Queue
    <3>2. s.u \in Stop /\ s.g \in Nat
      BY <1>1, <2>2 DEF TypeOK, State
    <3>3. CASE s.u = e.to
      <4>1. info'[s.u].g = NewG(e)
        BY <3>3, <1>5 DEF label
      <4>2. info'[s.u].g < s.g
        BY <4>1, <3>1, <3>2, <3>3, <1>6
      <4> QED
        BY <3>1, <3>2, <4>1, <4>2, <1>6
    <3>4. CASE s.u # e.to
      BY <3>1, <3>2, <3>4, <1>5
    <3> QED
      BY <3>3, <3>4
  <2> QED
    BY <2>1, <2>2, <1>4
<1>12. Expanding'
  BY <1>1, <1>3, <1>4, <1>5, <1>7 DEF LabelInv, Expanding
<1>13. Behind'
  <2> SUFFICES ASSUME NEW v \in Stop, Closed(v)'
               PROVE  info'[v].g + heuristic(v) <= top.f
    BY <1>4, <1>7 DEF Behind
  <2>1. v # e.to /\ Closed(v)
    BY <1>3, <1>4, <1>5, <1>2 DEF Closed, label
  <2> QED
    BY <2>1, <1>1, <1>5 DEF LabelInv, Behind, Searching
<1>14. LabelsRealised'
  <2> DEFINE starts == StartNodes(request, mask)
  <2>1. \A v \in Stop : info[v] # Unlabelled => Realised(v, starts)
    BY <1>1 DEF LabelInv, LabelsRealised
  <2>2. starts' = starts
    BY <1>4, <1>7
  <2> HIDE DEF starts
  <2>3. ASSUME NEW v \in Stop, info'[v] # Unlabelled PROVE Realised(v, starts)'
    <3>1. CASE v = e.to
      <4>1. info'[v].parent = top.u /\ info'[v].g = top.g + StepCost(top.trip, e) /\ info'[v].trip = e.trip
        BY <3>1, <1>5 DEF label, NewG
      <4>2. info'[top.u] = info[top.u] /\ top.u # -1
        <5>1. Stop \subseteq Nat
          BY StopAssumption
        <5> QED
          BY <1>1, <1>3, <1>5, <5>1
      <4>3. info'[v].g = info'[top.u].g + StepCost(info'[top.u].trip, e)
        BY <4>1, <4>2, <1>1
      <4> QED
        BY <4>1, <4>2, <4>3, <3>1, <1>1, <1>7 DEF Realised
    <3>2. CASE v # e.to
      <4>1. info'[v] = info[v] /\ Realised(v, starts)
        BY <2>1, <2>3, <3>2, <1>5
      <4>2. CASE info[v].parent = -1
        BY <4>1, <4>2, <1>4, <2>2 DEF Realised, FromOrigin
      <4>3. CASE info[v].parent # -1
        <5>1. info[v].parent \in Stop /\ info[v].parent # e.to
          BY <4>3, <1>1, <1>3 DEF TypeOK, Closed
        <5>2. info'[info[v].parent] = info[info[v].parent]
          BY <5>1, <1>5
        <5> QED
          BY <4>1, <4>3, <5>2, <1>7 DEF Realised
      <4> QED
        BY <4>2, <4>3
    <3> QED
      BY <3>1, <3>2
  <2>4. (best_end_node \in Stop =>
           best_end_node \in ends /\ best_total = info[best_end_node].g + ToDestination(best_end_node))'
    <3>1. CASE best_end_node \in Stop
      <4>1. best_end_node # e.to
        BY <1>3 DEF Closed
      <4>2. info'[best_end_node] = info[best_end_node]
        BY <3>1, <4>1, <1>5
      <4>3. best_end_node \in ends /\ best_total = info[best_end_node].g + ToDestination(best_end_node)
        BY <3>1, <1>1 DEF LabelInv, LabelsRealised
      <4> QED
        BY <4>2, <4>3, <1>4 DEF ToDestination
    <3>2. CASE best_end_node \notin Stop
      BY <3>2, <1>4
    <3> QED
      BY <3>1, <3>2
  <2> QED
    BY <2>2, <2>3, <2>4 DEF LabelsRealised, starts
<1>15. Dormant'
  BY <1>1, <1>4 DEF Dormant
<1> QED
  BY <1>10, <1>11, <1>12, <1>13, <1>14, <1>15 DEF LabelInv

LEMMA ExpandInv ==
  ASSUME LabelInv, NEW s \in pq, Expand(s)
  PROVE  LabelInv'
<1>1. /\ pc = "search" /\ todo = {} /\ TypeOK /\ s.u \in Stop
      /\ s.f = s.g + heuristic(s.u) /\ top.f <= s.f
      /\ s \in State /\ info[s.u].g \in Nat /\ top \in State
  BY DEF Expand, LabelInv, Queue, TypeOK, PathInfo
<1>2. s.g = info[s.u].g /\ s.trip = info[s.u].trip
  BY <1>1 DEF Expand, Discard, LabelInv, Queue, State
<1>3. /\ request' = request /\ results' = results /\ pc' = pc /\ ends' = ends /\ top' = s
      /\ info' = info /\ pq' = pq \ {s} /\ todo' = {e \in Outgoing(s.u) : e.mode \in mask}
      /\ IsTop(s)
      /\ \/ best_end_node' = best_end_node /\ best_total' = best_total
         \/ s.u \in ends /\ best_end_node' = s.u /\ best_total' = s.g + ToDestination(s.u)
  BY DEF Expand
<1>4. mask' = mask /\ \A v : heuristic(v)' = heuristic(v)
  BY <1>3 DEF mask, Call, heuristic
<1>10. TypeOK'
  BY <1>1, ExpandType
<1>11. Queue'
  BY <1>3, <1>4 DEF LabelInv, Queue, IsTop
<1>12. Expanding'
  BY <1>1, <1>2, <1>3, <1>4 DEF Expanding
<1>13. Behind'
  <2> SUFFICES ASSUME NEW v \in Stop, Closed(v)'
               PROVE  info[v].g + heuristic(v) <= s.f
    BY <1>3, <1>4 DEF Behind
  <2>1. CASE v = s.u
    <3>1. info[v].g + heuristic(v) = s.f /\ s.f \in Nat
      BY <1>1, <1>2, <2>1 DEF State
    <3> QED
      BY <3>1
  <2>2. CASE v # s.u
    <3>1. Closed(v)
      BY <2>2, <1>3 DEF Closed
    <3>2. info[v].g + heuristic(v) <= top.f
      BY <1>1, <3>1 DEF LabelInv, Behind, Searching
    <3>3. info[v].g \in Nat /\ heuristic(v) \in Nat /\ top.f \in Nat /\ s.f \in Nat
      BY <1>1, CostTypes DEF TypeOK, PathInfo, State
    <3> QED
      BY <3>2, <3>3, <1>1
  <2> QED
    BY <2>1, <2>2
<1>14. LabelsRealised'
  <2> DEFINE starts == StartNodes(request, mask)
  <2>1. \A v \in Stop : info[v] # Unlabelled => Realised(v, starts)
    BY <1>1 DEF LabelInv, LabelsRealised
  <2>2. starts' = starts
    BY <1>3, <1>4
  <2> HIDE DEF starts
  <2>3. \A v \in Stop : info'[v] # Unlabelled => Realised(v, starts)'
    BY <2>1, <2>2, <1>3, <1>4 DEF Realised, FromOrigin
  <2>4. (best_end_node \in Stop =>
           best_end_node \in ends /\ best_total = info[best_end_node].g + ToDestination(best_end_node))'
    <3>1. CASE best_end_node' = best_end_node /\ best_total' = best_total
      BY <3>1, <1>1, <1>3 DEF LabelInv, LabelsRealised, ToDestination
    <3>2. CASE s.u \in ends /\ best_end_node' = s.u /\ best_total' = s.g + ToDestination(s.u)
      BY <3>2, <1>2, <1>3 DEF ToDestination
    <3> QED
      BY <3>1, <3>2, <1>3
  <2> QED
    BY <2>3, <2>4 DEF LabelsRealised, starts
<1>15. Dormant'
  BY <1>1, <1>3 DEF Dormant
<1> QED
  BY <1>10, <1>11, <1>12, <1>13, <1>14, <1>15 DEF LabelInv

\* Steps that only drop something from pq or todo, or move path and curr.
LEMMA QuietInv ==
  ASSUME LabelInv, TypeOK',
         UNCHANGED <<request, results, ends, info, top, best_total, best_end_node>>,
         pq' \subseteq pq, todo' \subseteq todo,
         pc' = pc \/ (pc = "search" /\ pc' = "trace" /\ pq = {} /\ todo = {})
  PROVE  LabelInv'
<1>1. mask' = mask /\ \A v : heuristic(v)' = heuristic(v)
  BY DEF mask, Call, heuristic
<1>2. Queue'
  BY <1>1 DEF LabelInv, Queue
<1>3. Expanding'
  BY <1>1 DEF LabelInv, Expanding
<1>4. Behind'
  <2>1. \A v : Closed(v)' <=> Closed(v)
    BY DEF Closed
  <2> QED
    BY <1>1, <2>1 DEF LabelInv, Behind, Searching
<1>5. LabelsRealised'
  <2> DEFINE starts == StartNodes(request, mask)
  <2>1. Searching' => Searching
    BY DEF Searching
  <2>2. starts' = starts
    BY <1>1
  <2>3. Searching => \A v \in Stop : info[v] # Unlabelled => Realised(v, starts)
    BY DEF LabelInv, LabelsRealised, Searching
  <2> HIDE DEF starts
  <2>4. \A v \in Stop : Realised(v, starts)' <=> Realised(v, starts)
    BY <1>1, <2>2 DEF Realised, FromOrigin
  <2>5. Searching' => \A v \in Stop : info'[v] # Unlabelled => Realised(v, starts)'
    BY <2>1, <2>3, <2>4
  <2>6. Searching' => (best_end_node \in Stop =>
           best_end_node \in ends /\ best_total = info[best_end_node].g + ToDestination(best_end_node))'
    BY <2>1 DEF LabelInv, LabelsRealised, Searching, ToDestination
  <2> QED
    BY <2>5, <2>6 DEF LabelsRealised, starts, Searching
<1>6. Dormant'
  BY DEF LabelInv, Dormant
<1> QED
  BY <1>2, <1>3, <1>4, <1>5, <1>6 DEF LabelInv

LEMMA StartSearchInv ==
  ASSUME LabelInv, StartSearch
  PROVE  LabelInv'
<1> DEFINE starts == StartNodes(request, mask)
<1>1. /\ pc = "call" /\ pc' = "search" /\ TypeOK /\ top = NoState /\ todo = {}
      /\ request' = request /\ results' = results /\ top' = top /\ todo' = todo
      /\ best_end_node' \in {-1, -2}
  BY DEF StartSearch, LabelInv, Dormant
<1>2. starts \subseteq Stop
  BY CandidatesType
<1>3. mask' = mask /\ starts' = starts /\ \A v : heuristic(v)' = heuristic(v)
  BY <1>1 DEF mask, Call, heuristic
<1>4. /\ \A v \in Stop : info'[v] = IF v \in starts
                                    THEN [g |-> FromOrigin(v), parent |-> -1, trip |-> WALK_TRIP]
                                    ELSE Unlabelled
      /\ pq' = {[u |-> v, g |-> FromOrigin(v), f |-> FromOrigin(v) + heuristic(v), trip |-> WALK_TRIP] :
                  v \in starts}
  BY DEF StartSearch
<1> HIDE DEF starts
<1>5. \A v \in starts : info'[v].g = FromOrigin(v) /\ info'[v].parent = -1 /\ info'[v].trip = WALK_TRIP
  <2> SUFFICES ASSUME NEW v \in starts
               PROVE  info'[v].g = FromOrigin(v) /\ info'[v].parent = -1 /\ info'[v].trip = WALK_TRIP
    OBVIOUS
  <2>1. info'[v] = [g |-> FromOrigin(v), parent |-> -1, trip |-> WALK_TRIP]
    BY <1>2, <1>4
  <2> QED
    BY <2>1
<1>6. \A v \in Stop \ starts : info'[v] = Unlabelled
  BY <1>4
<1>7. Unlabelled.parent = -1 /\ Unlabelled.trip = ""
  BY DEF Unlabelled
<1>8. NoState.f = 0 /\ NoState.u = -1
  BY DEF NoState
<1>9. \A v \in Stop : FromOrigin(v) \in Nat /\ heuristic(v) \in Nat
  BY <1>1, CostTypes DEF TypeOK
<1>10. TypeOK'
  BY <1>1, StartSearchType
<1>11. Queue'
  <2> SUFFICES ASSUME NEW s \in pq'
               PROVE  /\ s.f = s.g + heuristic(s.u) /\ top.f <= s.f
                      /\ info'[s.u].g <= s.g
                      /\ s.g = info'[s.u].g => s.trip = info'[s.u].trip
    BY <1>1, <1>3 DEF Queue
  <2>1. PICK v \in starts :
          s = [u |-> v, g |-> FromOrigin(v), f |-> FromOrigin(v) + heuristic(v), trip |-> WALK_TRIP]
    BY <1>4
  <2>2. /\ s.u = v /\ s.g = FromOrigin(v) /\ s.f = FromOrigin(v) + heuristic(v) /\ s.trip = WALK_TRIP
        /\ v \in Stop
    BY <1>2, <2>1
  <2>3. info'[s.u].g = s.g /\ info'[s.u].trip = s.trip
    BY <2>2, <1>5
  <2> QED
    BY <1>1, <1>8, <1>9, <2>2, <2>3
<1>12. Expanding' /\ Dormant'
  BY <1>1 DEF Expanding, Dormant
<1>13. \A v \in Stop : info'[v].parent = -1
  BY <1>5, <1>6, <1>7
<1>14. Behind'
  <2>1. ASSUME NEW v \in Stop PROVE ~Closed(v)'
    <3>1. v # -1 /\ v # -2
      BY StopAssumption
    <3> QED
      BY <1>1, <1>13, <1>8, <3>1 DEF Closed
  <2> QED
    BY <2>1 DEF Behind
<1>15. LabelsRealised'
  <2>1. \A v \in Stop : info'[v] # Unlabelled => Realised(v, starts)'
    <3>1. ASSUME NEW v \in Stop, info'[v] # Unlabelled PROVE v \in starts
      BY <3>1, <1>6, <1>7
    <3>2. \A v \in starts : Realised(v, starts)'
      BY <1>1, <1>3, <1>5 DEF Realised, FromOrigin
    <3> QED
      BY <3>1, <3>2
  <2>2. best_end_node' \notin Stop
    BY <1>1, StopAssumption
  <2> QED
    BY <2>1, <2>2 DEF LabelsRealised, starts
<1> QED
  BY <1>10, <1>11, <1>12, <1>14, <1>15 DEF LabelInv

LEMMA ReturnInv ==
  ASSUME LabelInv, pc # "done", NEW total \in Nat, NEW segments, Return(total, segments),
         request' = request
  PROVE  LabelInv'
<1>1. TypeOK'
  BY ReturnType DEF LabelInv
<1>2. /\ pc' \in {"call", "done"} /\ pq' = {} /\ todo' = {} /\ top' = NoState
  BY DEF Return
<1> QED
  BY <1>1, <1>2 DEF LabelInv, Queue, Expanding, Behind, Searching, LabelsRealised, Dormant

LEMMA InitInv == Init => LabelInv
<1> SUFFICES ASSUME Init PROVE LabelInv
  OBVIOUS
<1> QED
  BY InitType DEF Init, LabelInv, Queue, Expanding, Behind, Searching, LabelsRealised, Dormant

LEMMA NextInv == LabelInv /\ [Next]_vars => LabelInv'
<1> SUFFICES ASSUME LabelInv, [Next]_vars PROVE LabelInv'
  OBVIOUS
<1>1. TypeOK
  BY DEF LabelInv
<1>2. CASE NoCandidates
  <2>1. request.origin \in Point /\ request.destination \in Point
    BY <1>1, RequestType DEF TypeOK
  <2> QED
    BY <1>2, <2>1, ReturnInv, WalkTimeType, InfAssumption DEF NoCandidates
<1>3. CASE StartSearch
  BY <1>3, StartSearchInv
<1>4. CASE PopDiscarded
  <2>1. TypeOK'
    BY <1>1, <1>4 DEF PopDiscarded, TypeOK, trace
  <2> QED
    BY <1>4, <2>1, QuietInv DEF PopDiscarded
<1>5. ASSUME NEW s \in pq, Expand(s) PROVE LabelInv'
  BY <1>5, ExpandInv
<1>6. ASSUME NEW e \in todo, Relax(e) PROVE LabelInv'
  BY <1>6, RelaxInv
<1>7. ASSUME NEW e \in todo, Pass(e) PROVE LabelInv'
  <2>1. TypeOK'
    BY <1>1, <1>7 DEF Pass, TypeOK, trace
  <2> QED
    BY <1>7, <2>1, QuietInv DEF Pass
<1>8. CASE FinishWithoutStops
  BY <1>1, <1>8, ReturnInv, InfAssumption DEF FinishWithoutStops, SearchOver, TypeOK
<1>9. CASE BeginTrace
  <2>1. TypeOK'
    BY <1>1, <1>9 DEF BeginTrace, SearchOver, TypeOK, search
  <2> QED
    BY <1>9, <2>1, QuietInv DEF BeginTrace, SearchOver, search
<1>10. CASE Trace
  <2>1. TypeOK'
    BY <1>1, <1>10, TraceType
  <2> QED
    BY <1>10, <2>1, QuietInv DEF Trace, search
<1>11. CASE FinishWithRoute
  BY <1>1, <1>11, ReturnInv DEF FinishWithRoute, TypeOK
<1>12. CASE UNCHANGED vars
  <2>1. TypeOK'
    BY <1>1, <1>12 DEF vars, search, trace, TypeOK
  <2> QED
    BY <1>12, <2>1, QuietInv DEF vars, search, trace
<1> QED
  BY <1>2, <1>3, <1>4, <1>5, <1>6, <1>7, <1>8, <1>9, <1>10, <1>11, <1>12 DEF Next

\* The inductive invariant holds of every reachable state of the search.
THEOREM InvariantTheorem == Spec => []LabelInv
BY InitInv, NextInv, PTL DEF Spec

-----------------------------------------------------------------------------
(* What follows.                                                           *)

\* Every step keeps the search's variables within their types.
THEOREM TypeCorrect == Spec => []TypeOK
<1>1. LabelInv => TypeOK
  BY DEF LabelInv
<1> QED
  BY <1>1, InvariantTheorem, PTL

\* The route FindPath reads back costs what it announces: every label agrees
\* with its parent's, and the best total with the label of its end node.
THEOREM RouteIsThePricedOne == Spec => []LabelsRealised
<1>1. LabelInv => LabelsRealised
  BY DEF LabelInv
<1> QED
  BY <1>1, InvariantTheorem, PTL

\* Parents are strictly cheaper than their children, so reading a route back
\* never goes round.
THEOREM ReadBackDescends == Spec => []ParentsCheaper
<1>1. LabelInv => ParentsCheaper
  <2> SUFFICES ASSUME LabelInv, Searching, NEW v \in Stop, info[v].parent # -1
               PROVE  info[info[v].parent].g < info[v].g
    BY DEF ParentsCheaper, Searching
  <2>1. info[v] # Unlabelled
    <3>1. Unlabelled.parent = -1
      BY DEF Unlabelled
    <3> QED
      BY <3>1
  <2>2. Realised(v, StartNodes(request, mask))
    BY <2>1 DEF LabelInv, LabelsRealised, Searching
  <2>3. PICK e \in Outgoing(info[v].parent) :
          info[v].g = info[info[v].parent].g + StepCost(info[info[v].parent].trip, e)
    BY <2>2 DEF Realised
  <2>4. e \in Edges /\ info[v].parent \in Stop
    BY DEF Outgoing, LabelInv, TypeOK
  <2>5. info[info[v].parent].g \in Nat
    BY <2>4 DEF LabelInv, TypeOK, PathInfo
  <2>6. /\ StepCost(info[info[v].parent].trip, e) \in Nat
        /\ StepCost(info[info[v].parent].trip, e) > 0
    <3>1. e.weight \in Nat /\ e.weight > 0
      BY <2>4, EdgeType
    <3>2. /\ StepCost(info[info[v].parent].trip, e) \in Nat
          /\ StepCost(info[info[v].parent].trip, e) >= e.weight
      BY <2>4, StepCostType
    <3> QED
      BY <3>1, <3>2
  <2> QED
    BY <2>3, <2>5, <2>6
<1> QED
  BY <1>1, InvariantTheorem, PTL

\* Expanded stops keep their labels and the front of the search advances.
THEOREM ExpandedStaysFinal == Spec => ExpandedFinal
<1>1. LabelInv /\ [Next]_vars => [Final]_vars
  <2> SUFFICES ASSUME LabelInv, Next, Searching, Searching'
               PROVE  /\ \A v \in Stop : Closed(v) => info'[v] = info[v]
                      /\ top.f <= top'.f
    BY DEF Final, Searching
  <2>1. top.f \in Nat
    BY DEF LabelInv, TypeOK, State
  <2>2. ASSUME NEW s \in pq, Expand(s)
        PROVE  info' = info /\ top.f <= top'.f
    BY <2>2 DEF Expand, LabelInv, Queue
  <2>3. ASSUME NEW e \in todo, Relax(e)
        PROVE  top' = top /\ \A v \in Stop : Closed(v) => info'[v] = info[v]
    <3>1. ~Closed(e.to)
      BY <2>3, RelaxFresh
    <3> QED
      BY <2>3, <3>1 DEF Relax, LabelInv, TypeOK
  <2>4. CASE PopDiscarded \/ (\E e \in todo : Pass(e)) \/ BeginTrace \/ Trace
    BY <2>1, <2>4 DEF PopDiscarded, Pass, BeginTrace, Trace, search
  <2>5. ~NoCandidates /\ ~StartSearch
    BY DEF Searching, NoCandidates, StartSearch
  <2>6. ~FinishWithoutStops /\ ~FinishWithRoute
    BY DEF Searching, FinishWithoutStops, FinishWithRoute, Return
  <2> QED
    BY <2>1, <2>2, <2>3, <2>4, <2>5, <2>6 DEF Next
<1> QED
  BY <1>1, InvariantTheorem, PTL DEF Spec, ExpandedFinal

=============================================================================
