---------------------------- MODULE RouteDrawing ----------------------------
(***************************************************************************)
(* The lines drawn on a map: the polylines that GetRoute attaches to the   *)
(* segments of a route (populatePolyline, getShapePolyline), and the one   *)
(* that the API shows with a line (get_line_detail).  Both cut or copy the *)
(* shape of a trip; the engine looks for the places to cut by distance.    *)
(***************************************************************************)
EXTENDS TransitData

CONSTANT ShapeRows   \* the rows of shapes.csv: a shape, a position, its number

ASSUME RowsAssumption == TripRows \in Seq({TripRows[n] : n \in DOMAIN TripRows})
ASSUME ShapeAssumption == IsFiniteSet(ShapeRows) /\ \A r \in ShapeRows : r.at \in Point /\ r.seq \in Int

\* The keys of the files: a trip calls once at a time, is listed once, and a
\* shape has one position of a number.
FeedKeyed ==
  /\ \A e, f \in Entry : e.trip = f.trip /\ e.seq = f.seq => e = f
  /\ \A m, n \in DOMAIN TripRows : TripRows[m].trip = TripRows[n].trip => m = n
  /\ \A r, q \in ShapeRows : r.shape = q.shape /\ r.seq = q.seq => r = q

-----------------------------------------------------------------------------
(* The engine.                                                             *)

\* loadShapes and _load_shapes: the positions of a shape in order.
Shape(id) ==
  LET rows == {r \in ShapeRows : r.shape = id}
      nth(n) == CHOOSE r \in rows : Cardinality({q \in rows : q.seq <= r.seq}) = n
  IN  [n \in 1..Cardinality(rows) |-> nth(n).at]

\* loadTrips: the last row of a trip counts.
ShapeOf(t) == TripRows[Max({n \in DOMAIN TripRows : TripRows[n].trip = t})].shape

\* The first of the positions S of a shape that are nearest to p.
FirstNearest(pts, p, S) ==
  Min({k \in S : \A j \in S : haversine(p, pts[k]) <= haversine(p, pts[j])})

\* Mutant of GetShapePolyline: the end is looked for in the whole shape too.
GetShapePolylineAnywhere(pts, from, to) ==
  LET start == FirstNearest(pts, from, DOMAIN pts)
  IN  SubSeq(pts, start, FirstNearest(pts, to, DOMAIN pts))

\* getShapePolyline: from the position nearest to one point to the one, of
\* those behind it, nearest to the other.
GetShapePolyline(pts, from, to) ==
  LET start == FirstNearest(pts, from, DOMAIN pts)
      later == (start + 1)..Len(pts)
  IN  IF later = {} THEN << >> ELSE SubSeq(pts, start, FirstNearest(pts, to, later))

\* populatePolyline: walks are straight; a trip without a shape is not drawn.
Polyline(seg) ==
  IF seg.method = WALK THEN << seg.from, seg.to >>
  ELSE IF seg.trip \notin DOMAIN LineOf \/ Len(Shape(ShapeOf(seg.trip))) < 2 THEN << >>
  ELSE GetShapePolyline(Shape(ShapeOf(seg.trip)), seg.from, seg.to)

-----------------------------------------------------------------------------
(* get_line_detail: the whole shape of the line's first trip.              *)

FirstTrip(line) == Min({n \in DOMAIN TripRows : TripRows[n].line = line})

LinePolyline(line) == Shape(TripRows[FirstTrip(line)].shape)

-----------------------------------------------------------------------------
(* Properties.                                                             *)

Calls(t) == {e \in Entry : e.trip = t}

\* The calls at whose stops the positions of a shape are nearest.
Marks(t, k) ==
  LET pts == Shape(ShapeOf(t))
  IN  {e \in Calls(t) : \A j \in DOMAIN pts : haversine(At[e.stop], pts[k]) <= haversine(At[e.stop], pts[j])}

\* A shape tracks its trip: the positions nearest to its stops come in the
\* order of its calls.  This is so for 324 of the 434 trips with a shape in
\* RoutingEngine/Database.
Tracks(t) ==
  LET marked == {k \in DOMAIN Shape(ShapeOf(t)) : Marks(t, k) # {}} IN
  \E call \in [marked -> Calls(t)] :
    /\ \A k \in marked : \A e \in Marks(t, k) : e.stop = call[k].stop
    /\ \A j, k \in marked : j < k => call[j].seq <= call[k].seq
    /\ \A e \in Calls(t) : \E k \in marked : call[k] = e

Tracked == {t \in DOMAIN LineOf : Tracks(t)}

\* The calls of a ride with the trip, from its first call at one stop to the
\* next at another.
Legs(ride) ==
  {l \in Calls(ride.trip) \X Calls(ride.trip) :
     LET e == l[1] f == l[2] IN
     /\ At[e.stop] = ride.from /\ At[f.stop] = ride.to /\ e.seq < f.seq
     /\ \A h \in Calls(ride.trip) : /\ h.stop = e.stop => e.seq <= h.seq
                                    /\ h.stop = f.stop => ~(e.seq < h.seq /\ h.seq < f.seq)}

\* A rider sees the ride and nothing else: with a shape that tracks its trip,
\* though the engine looks for both ends by distance alone, a ride along the
\* trip is drawn from the stop it leaves, past every stop it calls at, to the
\* stop it reaches, and past no other; and what is drawn is a stretch of what
\* the page of the line shows.  A circular line passes its first stop twice.
\* Nothing is said of microbus rides against their trip, whose ends come in
\* the other order: they are drawn onward from where they start.
\* (getShapePolyline, populatePolyline and get_line_detail)
DrawnAsRidden ==
  pc = "done" =>
    \A k \in FoundOptions : \A i \in Rides(results[k], ANY) :
      LET ride == results[k].segments[i]
          drawn == Polyline(ride)
          page == LinePolyline(LineOf[ride.trip])
      IN  \A l \in Legs(ride) : ride.trip \in Tracked =>
            \E a, b \in DOMAIN Shape(ShapeOf(ride.trip)) :
              /\ a < b /\ drawn = SubSeq(Shape(ShapeOf(ride.trip)), a, b)
              /\ l[1] \in Marks(ride.trip, a) /\ l[2] \in Marks(ride.trip, b)
              /\ {e.stop : e \in UNION {Marks(ride.trip, n) : n \in a..b}}
                   = {e.stop : e \in {c \in Calls(ride.trip) : l[1].seq <= c.seq /\ c.seq <= l[2].seq}}
              /\ TripRows[FirstTrip(LineOf[ride.trip])].trip = ride.trip => drawn = SubSeq(page, a, b)

=============================================================================
