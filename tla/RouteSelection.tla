--------------------------- MODULE RouteSelection ---------------------------
(***************************************************************************)
(* What becomes of the results of the four searches: the engine's GetRoute *)
(* (RoutingEngine/src/service_impl.cpp) makes options of them, and the API *)
(* (_compute_route_cost and _select_route of views/orchestrator.py) prices *)
(* the options and picks the one the client's filter asks for.             *)
(*                                                                         *)
(* The search counts in half seconds; what is announced are whole ones,    *)
(* the total and each part rounded by itself.                              *)
(***************************************************************************)
EXTENDS Pathfinder, RouteOptions, FiniteSetsExt, Functions

CONSTANTS
  BUS_FARE,        \* ROUTE_BUS_FARE_PER_RIDE
  MICROBUS_FARE,   \* ROUTE_MICROBUS_FARE_PER_RIDE
  METRO_TIERS      \* ROUTE_METRO_FARE_TIERS: pairs <<most stops, fare>>

ASSUME FareAssumption ==
  /\ BUS_FARE \in Nat /\ MICROBUS_FARE \in Nat
  /\ METRO_TIERS \in Seq(Nat \X Nat) /\ METRO_TIERS # << >>

\* The 10**9 that stands for a missing number.
MISSING == 1000000000

-----------------------------------------------------------------------------
(* GetRoute: a result is found when its total is finite; walks between two *)
(* rides at the same place (nearer than 10 m) are not shown.               *)

Found(r) == r.total < INF

Distance(seg) == haversine(seg.from, seg.to)

IsIgnorableInternalWalk(r, k) ==
  /\ k \notin {1, Len(r.segments)}
  /\ r.segments[k].method = WALK
  /\ Distance(r.segments[k]) = 0

Shown(r) == {k \in DOMAIN r.segments : ~IsIgnorableInternalWalk(r, k)}

\* Mutant of SegmentSpeed: buses and microbuses are taken for one another.
SegmentSpeedSwapped(method) ==
  TimePerUnit(IF method = BUS THEN WALK ELSE IF method = METRO THEN METRO ELSE BUS)

\* segmentSpeed: what is neither a bus nor a metro nor a microbus walks.
SegmentSpeed(method) == TimePerUnit(IF method \in ANY THEN method ELSE WALK)

\* toIntSeconds: a half is rounded up.
toIntSeconds(time) == (time + 1) \div 2

SegmentTime(seg) == Distance(seg) * SegmentSpeed(seg.method)
SegmentDuration(seg) == toIntSeconds(SegmentTime(seg))
TotalDuration(r) == toIntSeconds(r.total)

-----------------------------------------------------------------------------
(* _compute_route_cost.                                                    *)

Rides(r, methods) == {k \in Shown(r) : r.segments[k].method \in methods}

\* _metro_fare_by_stops: the first tier that is large enough, else the last.
MetroFareByStops(stops) ==
  LET enough == {k \in DOMAIN METRO_TIERS : stops <= METRO_TIERS[k][1]}
  IN  METRO_TIERS[IF enough = {} THEN Len(METRO_TIERS) ELSE Min(enough)][2]

\* The metro is paid once for all its stops, each other ride by itself, and a
\* ride whose method is unknown not at all.
MetroStops(r) == MapThenSumSet(LAMBDA k : r.segments[k].stops, Rides(r, {METRO}))

EstimatedFare(r) ==
  (IF MetroStops(r) > 0 THEN MetroFareByStops(MetroStops(r)) ELSE 0)
  + Cardinality(Rides(r, {BUS})) * BUS_FARE
  + Cardinality(Rides(r, {MICROBUS})) * MICROBUS_FARE

TransportSegments(r) == Cardinality(Rides(r, ANY \cup {"unknown"}))

-----------------------------------------------------------------------------
(* _select_route.  `x or 10**9` takes a zero for a missing number.         *)

OrMissing(n) == IF n = 0 THEN MISSING ELSE n

FoundOptions == {k \in DOMAIN results : Found(results[k])}

\* The numbers an option is ranked by, the more important first.
RankOf(filter, r) ==
  CASE filter = "fastest"  -> << OrMissing(TotalDuration(r)), 0 >>
    [] filter = "cheapest" -> << EstimatedFare(r), OrMissing(TotalDuration(r)) >>
    [] filter = "optimal"  -> << OrMissing(TransportSegments(r)), OrMissing(TotalDuration(r)) >>

Precedes(x, y) == x[1] < y[1] \/ (x[1] = y[1] /\ x[2] < y[2])

\* Mutant of SelectRoute: the first option found is good enough.
SelectFirst(filter) ==
  LET eligible == {k \in FoundOptions : results[k].type \in Eligible(Option, filter)}
  IN  IF eligible = {} THEN 0 ELSE Min(eligible)

\* The position of the option selected, the first of equals; 0 for None.
SelectRoute(filter) ==
  IF filter \in ModeFilter
  THEN LET ofType == {k \in FoundOptions : results[k].type = filter}
       IN  IF ofType = {} THEN 0 ELSE Min(ofType)
  ELSE LET rank(k) == RankOf(filter, results[k])
           best == {k \in FoundOptions : \A o \in FoundOptions : ~Precedes(rank(o), rank(k))}
       IN  IF best = {} THEN 0 ELSE Min(best)

-----------------------------------------------------------------------------
(* Properties.                                                             *)

Selected(filter) == results[SelectRoute(filter)]

ModeOf(filter) ==
  CASE filter = "bus_only" -> BUS [] filter = "metro_only" -> METRO
    [] filter = "microbus_only" -> MICROBUS [] OTHER -> "any"

\* A filter is answered by an option that is eligible for it, and by none only
\* when nothing is; and a route selected by a filter of one mode rides, by the
\* names of the segments shown, that mode and no other, though stops of any
\* mode may have stood in for missing ones of that mode.  (A trip that
\* trips.csv cannot resolve is searched as a bus and shown as unknown.)
\* (the masks of FindAllRoutes, getTripMode and _select_route)
FilterHonoured ==
  pc = "done" =>
    \A filter \in Filter :
      LET eligible == Eligible({results[k].type : k \in FoundOptions}, filter) IN
      IF SelectRoute(filter) = 0 THEN eligible = {}
      ELSE LET r == Selected(filter) IN
           /\ r.type \in eligible
           /\ filter \in ModeFilter =>
                \A k \in DOMAIN r.segments :
                  r.segments[k].method \in {WALK, ModeOf(filter)}
                     \cup (IF filter = "bus_only" THEN {"unknown"} ELSE {})

\* By the durations announced, "fastest" is no slower than any option found, a
\* zero duration included; no option is cheaper than "cheapest", or as cheap
\* and faster.  (docs/routing.md, filters; _select_route)
ChoiceIsBest ==
  pc = "done" =>
    \A k \in FoundOptions :
      /\ TotalDuration(Selected("fastest")) <= TotalDuration(results[k])
      /\ ~Precedes(<< EstimatedFare(results[k]), TotalDuration(results[k]) >>,
                   << EstimatedFare(Selected("cheapest")), TotalDuration(Selected("cheapest")) >>)

\* The segments shown, timed one by one on the straight lines between their
\* ends, exceed the total announced, which counts every stop on the way, by the
\* rounding alone: by half a second for each segment at most.  Only the speed
\* tables of the search and of the service, and the walks left out, could make
\* it more.  Unresolved rides are shown at a walker's speed and are excepted.
\* (GetRoute)
DurationsWithinTotal ==
  pc = "done" =>
    \A k \in FoundOptions :
      LET r == results[k] IN
      (\A i \in Shown(r) : r.segments[i].method # "unknown") =>
        2 * SumFunction([i \in Shown(r) |-> SegmentDuration(r.segments[i])])
          <= 2 * TotalDuration(r) + Cardinality(Shown(r))

\* No option found beats the one "optimal" answers on every count: fewer
\* rides, less time and no higher a fare.  (docs/routing.md, filters)
OptimalUndominated ==
  pc = "done" =>
    \A k \in FoundOptions :
      LET o == results[k]
          s == Selected("optimal")
      IN  ~(/\ TransportSegments(o) < TransportSegments(s)
            /\ TotalDuration(o) < TotalDuration(s)
            /\ EstimatedFare(o) <= EstimatedFare(s))

=============================================================================
