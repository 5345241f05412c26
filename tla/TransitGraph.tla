---------------------------- MODULE TransitGraph ----------------------------
(***************************************************************************)
(* The graph RoutingEngine/src/graph.cpp builds from the GTFS files:       *)
(* transit edges between consecutive stops of a trip, and walking edges    *)
(* between close stops.  It is built once, before the server listens, and  *)
(* only read afterwards.                                                   *)
(*                                                                         *)
(* Times are half seconds.  TimePerUnit is the time to cross one unit of   *)
(* 100 m at the speed of a mode.                                           *)
(***************************************************************************)
EXTENDS SpatialGrid

CONSTANTS
  Trip,        \* trip ids of stop_times.txt
  StopTimes,   \* rows of stop_times.txt
  TripMode     \* mode of a trip whose route and agency are both loaded

WALK_TRIP == "WALK"   \* the trip id of walking edges

\* A PathInfo nothing has written holds the empty trip id.
ASSUME TripAssumption == WALK_TRIP \notin Trip /\ "" \notin Trip
\* A row may name a stop that stops.txt does not have.
ASSUME StopTimesAssumption == StopTimes \subseteq [trip : Trip, stop : Nat, seq : Nat]
\* A trip outside the domain is one trips.txt or routes.txt does not have.
ASSUME TripModeAssumption ==
  /\ DOMAIN TripMode \subseteq Trip
  /\ \A t \in DOMAIN TripMode : TripMode[t] \in ANY

TRANSFER_PENALTY == 120
STOP_DWELL_TIME == 60

TimePerUnit(mode) ==
  CASE mode = METRO -> 12
    [] mode = MICROBUS -> 18
    [] mode = WALK -> 143
    [] OTHER -> 24

\* The same at MAX_SPEED_MPS, the speed of the search's estimate.
MAX_SPEED_TIME == 8

\* loadStopTimes takes a trip it cannot resolve for a bus ...
EdgeMode(t) == IF t \in DOMAIN TripMode THEN TripMode[t] ELSE BUS

\* ... while getTripMode, which names the segments, calls it unknown.
GetTripMode(t) ==
  IF t = WALK_TRIP THEN WALK
  ELSE IF t \in DOMAIN TripMode THEN TripMode[t] ELSE "unknown"

Edge == [from : Stop, to : Stop, weight : Nat, trip : Trip \cup {WALK_TRIP}, mode : Mode]

\* Rows that loadStopTimes keeps, and pairs of them that follow one another
\* once sorted by trip and sequence number.
Entry == {e \in StopTimes : e.stop \in Stop}
Follows(e, f) ==
  /\ e.trip = f.trip
  /\ e.seq < f.seq
  /\ \A h \in Entry : h.trip = e.trip => ~(e.seq < h.seq /\ h.seq < f.seq)

RideTime(t, u, v) ==
  haversine(At[u], At[v]) * TimePerUnit(EdgeMode(t)) + STOP_DWELL_TIME

RideEdge(t, u, v) ==
  [from |-> u, to |-> v, weight |-> RideTime(t, u, v), trip |-> t, mode |-> EdgeMode(t)]

\* loadStopTimes: microbuses run both ways.
TransitEdges ==
  {RideEdge(p[1].trip, p[1].stop, p[2].stop) :
      p \in {q \in Entry \X Entry : Follows(q[1], q[2])}}
  \cup
  {RideEdge(p[1].trip, p[2].stop, p[1].stop) :
      p \in {q \in Entry \X Entry : Follows(q[1], q[2]) /\ EdgeMode(q[1].trip) = MICROBUS}}

WalkTime(p, q) == haversine(p, q) * TimePerUnit(WALK)

WalkEdge(u, v) ==
  [from |-> u, to |-> v, weight |-> WalkTime(At[u], At[v]), trip |-> WALK_TRIP, mode |-> WALK]

\* generateTransferEdges: stops i < j that the grid shows to i and that are
\* within walking distance are joined, both ways.
Walkable(i, j) ==
  /\ i < j
  /\ j \in NodesWithinRadius(At[i], MAX_WALK_DISTANCE)
  /\ haversine(At[i], At[j]) > 0

WalkEdges ==
  {WalkEdge(p[1], p[2]) : p \in {q \in Stop \X Stop : Walkable(q[1], q[2]) \/ Walkable(q[2], q[1])}}

Edges == TransitEdges \cup WalkEdges

\* nodes_[u].outgoing
Outgoing(u) == {e \in Edges : e.from = u}

=============================================================================
