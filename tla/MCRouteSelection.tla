-------------------------- MODULE MCRouteSelection --------------------------
(***************************************************************************)
(* Options to choose from: those of the networks of MCRouteQuality, and of *)
(* a suburb whose bus runs the other way, past stops that are a walk       *)
(* apart, while its microbus makes a detour.                               *)
(***************************************************************************)
EXTENDS MCRouteQuality, RouteSelection

MCTiers == << <<1, 8>>, <<2, 10>>, <<3, 15>> >>

SuburbStop == 0..6
SuburbAt == [s \in SuburbStop |->
  CASE s = 0 -> P(0, 0)  [] s = 1 -> P(0, 14) [] s = 2 -> P(0, 28) [] s = 3 -> P(0, 40)
    [] s = 4 -> P(13, 0) [] s = 5 -> P(50, 20) [] s = 6 -> P(13, 40)]
SuburbPrefix == [s \in SuburbStop |-> IF s \in 0..3 THEN "B1_" ELSE "MB_"]
SuburbTrip == {"b1", "u1"}
SuburbStopTimes == Rows("b1", <<3, 2, 1, 0>>) \cup Rows("u1", <<4, 5, 6>>)
SuburbTripMode == [t \in SuburbTrip |-> IF t = "b1" THEN BUS ELSE MICROBUS]
SuburbRequest == Trips({P(0, 0)}, {P(0, 40)})

=============================================================================
