---------------------------- MODULE MCTransitData ----------------------------
(***************************************************************************)
(* The files behind the networks of MCRouteQuality: as in the feed, a line *)
(* is one trip, but a metro line has a trip for each direction.  The trip  *)
(* that resolves to nothing belongs to a line missing from routes.csv.     *)
(***************************************************************************)
EXTENDS MCRouteSelection, RouteDrawing, TLC

Of(trips, line) == [n \in DOMAIN trips |-> [trip |-> trips[n], line |-> line, shape |-> trips[n]]]

MCTripRows ==
  Of(<<"b1">>, "B1") \o Of(<<"m1">>, "M1") \o Of(<<"u1">>, "U1") \o Of(<<"x1">>, "X1")
  \o Of(<<"b1n">>, "B1n") \o Of(<<"b2n">>, "B2n") \o Of(<<"m1n", "m2n">>, "M1n") \o Of(<<"u1n">>, "U1n")

MCAgencyOf ==
  [l \in {"B1", "M1", "U1", "B1n", "B2n", "M1n", "U1n"} |->
     CASE l \in {"M1", "M1n"} -> "M_CAI-METRO" [] l \in {"U1", "U1n"} -> "MB_CAI_BUS" [] OTHER -> "B1_CAI_BUS"]

\* A shape bears the name of its trip.  Bends between the stops, on the way of
\* b1 past a stop twice; that of b2n is missing, that of u1n runs backwards.
MCShape ==
  LET north(pts) == [n \in DOMAIN pts |-> North(pts[n])]
  IN  "b1" :> <<P(0, 20), P(3, 35), P(0, 50), P(0, 50), P(2, 60), P(0, 80)>>
   @@ "m1" :> <<P(0, 98), P(4, 50), P(0, 2)>>
   @@ "u1" :> <<P(8, 50), P(15, 54), P(20, 60), P(13, 66), P(8, 70), P(8, 60), P(8, 50)>>
   @@ "b1n" :> north(<<P(0, 0), P(2, 5), P(0, 10), P(0, 20), P(2, 33), P(0, 45), P(0, 50)>>)
   @@ "m1n" :> north(<<P(3, 2), P(4, 44)>>)
   @@ "m2n" :> north(<<P(4, 44), P(3, 2)>>)
   @@ "u1n" :> north(<<P(2, 47), P(6, 20)>>)

MCShapeRows ==
  UNION {{[shape |-> t, at |-> MCShape[t][n], seq |-> n] : n \in DOMAIN MCShape[t]} : t \in DOMAIN MCShape}

=============================================================================
