----------------------------- MODULE TransitData -----------------------------
(***************************************************************************)
(* What the API itself tells of the feed and of the routes found: the      *)
(* lines of GtfsDataService.py, which reads the files a second time, by    *)
(* rules of its own, and the list of RouteAlternativesView, beside the     *)
(* option that _select_route picks.                                        *)
(***************************************************************************)
EXTENDS RouteSelection

CONSTANTS
  TripRows,      \* the rows of trips.csv: a trip and its line (route_id)
  AgencyOf,      \* the agency of each line of routes.csv
  MetroSpelled,  \* agencies with METRO in their ids
  MbSpelled      \* agencies whose ids begin with MB_

Line == DOMAIN AgencyOf

\* trip_routes, and trip_route_ids: the last row of a trip counts.
LineOf ==
  [t \in {TripRows[n].trip : n \in DOMAIN TripRows} |->
     TripRows[Max({n \in DOMAIN TripRows : TripRows[n].trip = t})].line]

\* loadRoutes: whole ids are compared.
EngineMode(agency) ==
  CASE agency = "M_CAI-METRO" -> METRO [] agency = "MB_CAI_BUS" -> MICROBUS [] OTHER -> BUS

\* What the engine has loaded is what these files say.
ASSUME LoadedAssumption ==
  TripMode = [t \in {u \in DOMAIN LineOf : LineOf[u] \in Line} |-> EngineMode(AgencyOf[LineOf[t]])]

-----------------------------------------------------------------------------
(* GtfsDataService.                                                        *)

\* Mutant of AgencyToMode: the route type, which knows no microbuses.
AgencyToRouteType(agency) == IF agency = "M_CAI-METRO" THEN METRO ELSE BUS

\* _agency_to_mode
AgencyToMode(agency) ==
  IF agency \in MetroSpelled THEN METRO ELSE IF agency \in MbSpelled THEN MICROBUS ELSE BUS

\* _build_stop_routes: the lines of a stop's rows, with their modes.
LinesAt(stop) ==
  {[line |-> LineOf[e.trip], mode |-> AgencyToMode(AgencyOf[LineOf[e.trip]])] :
     e \in {f \in StopTimes : f.stop = stop /\ f.trip \in DOMAIN LineOf /\ LineOf[f.trip] \in Line}}

\* get_line_detail: the known stops of the line's first trip.
StopsOf(line) ==
  LET trips == {n \in DOMAIN TripRows : TripRows[n].line = line}
  IN  IF trips = {} THEN {} ELSE {e.stop : e \in {f \in Entry : f.trip = TripRows[Min(trips)].trip}}

-----------------------------------------------------------------------------
(* RouteAlternativesView.post.                                             *)

\* Mutant of Before: the alternatives stay as the engine sent them.
BeforeUnsorted(j, k) == j < k

\* The sort by duration is stable.
Before(j, k) ==
  LET d == TotalDuration(results[j]) e == TotalDuration(results[k]) IN d < e \/ (d = e /\ j < k)

Alternatives ==
  [n \in 1..Cardinality(FoundOptions) |->
     CHOOSE k \in FoundOptions : Cardinality({j \in FoundOptions : Before(j, k)}) = n - 1]

-----------------------------------------------------------------------------
(* Properties.                                                             *)

\* What both sides of the API rely on: that agencies are spelled as either rule
\* expects, and that the first trip of a line calls wherever any trip of it does.
FeedAgrees ==
  /\ \A l \in Line : AgencyToMode(AgencyOf[l]) = EngineMode(AgencyOf[l])
  /\ \A e \in Entry : e.trip \in DOMAIN LineOf /\ LineOf[e.trip] \in Line => e.stop \in StopsOf(LineOf[e.trip])

\* A rider can look up every ride the engine proposes: the API lists, at both
\* its ends, a line of the mode the ride is shown with, whose detail has both
\* ends among its stops.  The API reads the feed by other rules than the engine
\* (agencies by parts of their ids; one trip for a line), and the engine finds
\* no line for a trip it calls unknown.
\* (GtfsDataService, "identical data" at its lines 21-22; getTripMode)
RidesAreListed ==
  pc = "done" =>
    \A k \in FoundOptions : \A i \in Rides(results[k], ANY) :
      LET ride == results[k].segments[i] IN
      \E u, v \in Stop :
        /\ At[u] = ride.from /\ At[v] = ride.to
        /\ \E l \in LinesAt(u) \cap LinesAt(v) :
             l.mode = ride.method /\ {u, v} \subseteq StopsOf(l.line)

\* The two views agree on what is fastest: the alternative listed first is the
\* very option that "fastest" selects, ties and zero durations included, and
\* nothing is listed exactly when nothing is selected.
\* (RouteAlternativesView.post and _select_route)
FastestLeads ==
  pc = "done" =>
    IF FoundOptions = {} THEN SelectRoute("fastest") = 0
    ELSE Alternatives[1] = SelectRoute("fastest")

=============================================================================
