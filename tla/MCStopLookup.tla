---------------------------- MODULE MCStopLookup ----------------------------
(***************************************************************************)
(* A field of stops on both sides of the reference meridian and parallel,  *)
(* and queries from points at the edges and in the middle of cells.        *)
(***************************************************************************)
EXTENDS StopLookup

P(lat, lon) == [lat |-> lat, lon |-> lon]

MCCellLat == 15
MCCellLon == 13
MCStop == 0..8
MCAt == [s \in MCStop |->
  CASE s = 0 -> P(0, 0)    [] s = 1 -> P(-1, 12)  [] s = 2 -> P(14, -1)
    [] s = 3 -> P(-16, -14) [] s = 4 -> P(0, 27)  [] s = 5 -> P(0, 28)
    [] s = 6 -> P(30, 0)   [] s = 7 -> P(-7, -6)  [] s = 8 -> P(7, 40)]
MCPrefix == [s \in MCStop |->
  IF s \in {0, 3, 6} THEN "B1_" ELSE IF s \in {1, 4, 7} THEN "M_" ELSE "MB_"]
MCQuery ==
  [at : [lat : {-15, -1, 0, 14, 15}, lon : {-13, -1, 0, 12, 14}],
   radius : {13, 15, 25, 40, 60},
   mask : {{BUS, WALK}, {METRO, WALK}}]

=============================================================================
