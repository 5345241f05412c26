---------------------------- MODULE RouteQuality ----------------------------
(***************************************************************************)
(* What the results of the searches are worth, against costs computed from *)
(* the graph alone: by rounds of relaxation over pairs of a stop and the   *)
(* trip it is reached by, which is all the price of going on depends on.   *)
(***************************************************************************)
EXTENDS Pathfinder, FiniteSetsExt, Functions

\* No cost is announced above INF.
Least(S) == Min(S \cup {INF})

\* Another vehicle of the modes also brings to where the ride e leaves from.
OthersCall(m, e) ==
  e.trip # WALK_TRIP /\ \E f \in Edges : f.to = e.from /\ f.mode \in m /\ f.trip \notin {WALK_TRIP, e.trip}

\* The dearest pricing the one label of a stop can be excused for: it names
\* another vehicle wherever another one calls.
DearestStep(m, e) == e.weight + IF OthersCall(m, e) THEN TRANSFER_PENALTY ELSE 0

Price(always, m, arrival, e) == IF always THEN DearestStep(m, e) ELSE StepCost(arrival, e)

\* Keep the cheapest label of each pair.
Prune(labels) ==
  {x \in labels : \A y \in labels : y.at = x.at /\ y.trip = x.trip => x.g <= y.g}

\* One round: every label goes on by every allowed edge.
GoOn(x, m, always) ==
  {[at |-> e.to, trip |-> e.trip, g |-> x.g + Price(always, m, x.trip, e)] :
     e \in {y \in Outgoing(x.at) : y.mode \in m}}

Round(labels, m, always) == Prune(labels \cup UNION {GoOn(x, m, always) : x \in labels})

\* The labels after any number of rounds.
Starts(r, m) ==
  {[at |-> s, trip |-> WALK_TRIP, g |-> WalkTime(r.origin, At[s])] : s \in StartNodes(r, m)}

LabelsAfter(r, m, always) ==
  LET labels[n \in Nat] == IF n = 0 THEN Starts(r, m) ELSE Round(labels[n - 1], m, always)
  IN  labels

\* The cheapest labels.  One round per stop reaches the fixed point: a route
\* that comes back to a stop gains nothing, its loop costs no less than the
\* one penalty it may save.
Cheapest(r, m, always) == LabelsAfter(r, m, always)[Cardinality(Stop)]

\* Cheapest total of a request: over the end nodes, or on foot.
OnFoot(r) == IF CanDirectWalk(r) THEN {WalkTime(r.origin, r.destination)} ELSE {}

ByStops(r, m, always) ==
  {x.g + WalkTime(At[x.at], r.destination) :
     x \in {y \in Cheapest(r, m, always) : y.at \in EndNodes(r, m)}}

CheapestTotal(r, m, always) == Least(OnFoot(r) \cup ByStops(r, m, always))

\* Evaluated once for the constants.
Masks == {Searches[k].mask : k \in DOMAIN Searches}
TrueCost == [r \in Request |-> [m \in Masks |-> CheapestTotal(r, m, FALSE)]]
UpperCost == [r \in Request |-> [m \in Masks |-> CheapestTotal(r, m, TRUE)]]

-----------------------------------------------------------------------------
(* Properties.                                                             *)

MaskOf(k) == Searches[k].mask

\* A result is the true price of a route, hence no cheaper than the cheapest,
\* and pruning by the best total and one label per stop lose no more than this:
\* it is no dearer than the cheapest route whose rides are charged a change at
\* the stops that another vehicle of the mask brings to as well.  So a search
\* is exact where no two trips of its modes meet, and finds nothing only when
\* its candidates are not connected and too far to walk.  (FindPath as a whole)
TotalsBounded ==
  \A k \in DOMAIN results :
    /\ TrueCost[request][MaskOf(k)] <= results[k].total
    /\ results[k].total <= UpperCost[request][MaskOf(k)]

\* What it takes from the i-th stop of a route to the next, on the trip read
\* back for it.
RideCost(p, i) ==
  Min({e.weight : e \in {x \in Outgoing(p[i]) :
         x.to = p[i + 1] /\ x.trip = info[p[i + 1]].trip /\ x.mode \in mask}})

\* The segments read back account for the total announced with them: walking
\* to the first stop and from the last, riding or walking between the stops of
\* each segment by edges of its trip that the mask allows, and one penalty for
\* each change from a ride segment directly to another ride segment.
\* (Reconstruct Path into Segments, against the relaxation's penalties)
SegmentsAccountForTotal ==
  (pc = "trace" /\ curr = -1) =>
    LET segs == Segments(path)
        changes == {k \in 2..(Len(segs) - 2) :
                      segs[k].trip # WALK_TRIP /\ segs[k + 1].trip # WALK_TRIP}
    IN  /\ path[Len(path)] = best_end_node
        /\ best_total = FromOrigin(path[1]) + ToDestination(best_end_node)
                        + SumFunction([i \in 1..(Len(path) - 1) |-> RideCost(path, i)])
                        + TRANSFER_PENALTY * Cardinality(changes)
        /\ \A k \in 1..(Len(segs) - 1) : segs[k].to = segs[k + 1].from

\* Every search finds a cheapest route for its modes, changes of vehicle
\* included.  (FindPath)
FindsCheapest ==
  \A k \in DOMAIN results : results[k].total = TrueCost[request][MaskOf(k)]

=============================================================================
