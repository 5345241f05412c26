--------------------------- MODULE MCRouteQuality ---------------------------
(***************************************************************************)
(* Small networks for the search.  As in the feed of                   *)
(* RoutingEngine/Database, a stop serves one mode and modes are joined on  *)
(* foot.                                                                   *)
(***************************************************************************)
EXTENDS RouteQuality

P(lat, lon) == [lat |-> lat, lon |-> lon]
Row(t, s, n) == [trip |-> t, stop |-> s, seq |-> n]
Rows(t, stops) == {Row(t, stops[n], n) : n \in DOMAIN stops}
Trips(origins, destinations) == [origin : origins, destination : destinations]

MCInf == 1000000
MCCellLat == 15
MCCellLon == 13

\* A corridor: two bus trips share a stop pair, one of them with a stop in
\* between; a metro line both ways and a microbus line run beside them.
CorridorStop == 0..7
CorridorAt == [s \in CorridorStop |->
  CASE s = 0 -> P(0, 0)  [] s = 1 -> P(0, 20) [] s = 2 -> P(0, 45) [] s = 3 -> P(0, 10)
    [] s = 4 -> P(3, 2)  [] s = 5 -> P(4, 44) [] s = 6 -> P(6, 20) [] s = 7 -> P(2, 47)]
CorridorPrefix == [s \in CorridorStop |->
  IF s \in 0..3 THEN "B1_" ELSE IF s \in 4..5 THEN "M_" ELSE "MB_"]
CorridorTrip == {"b1", "b2", "m1", "m2", "u1"}
CorridorStopTimes ==
  Rows("b1", <<0, 3, 1, 2>>) \cup Rows("b2", <<0, 1>>) \cup Rows("m1", <<4, 5>>)
  \cup Rows("m2", <<5, 4>>) \cup Rows("u1", <<6, 7>>)
CorridorTripMode == [t \in CorridorTrip |->
  CASE t \in {"b1", "b2"} -> BUS [] t \in {"m1", "m2"} -> METRO [] OTHER -> MICROBUS]
CorridorRequest ==
  Trips({P(0, 0), P(5, 16)}, {P(0, 45), P(3, 22)}) \cup Trips({P(2, 46)}, {P(0, 0)})

\* A wide town: the metro stops close to both ends are not joined in the
\* direction asked for, the buses start farther away; a circular microbus
\* line, a trip missing from trips.txt and a row of an unknown stop.
TownStop == 0..7
TownAt == [s \in TownStop |->
  CASE s = 0 -> P(0, 2)   [] s = 1 -> P(0, 98)  [] s = 2 -> P(0, 20) [] s = 3 -> P(0, 50)
    [] s = 4 -> P(0, 80)  [] s = 5 -> P(8, 50)  [] s = 6 -> P(20, 60) [] s = 7 -> P(8, 70)]
TownPrefix == [s \in TownStop |->
  IF s \in 0..1 THEN "M_" ELSE IF s \in 2..4 THEN "B1_" ELSE "MB_"]
TownTrip == {"b1", "m1", "u1", "x1"}
TownStopTimes ==
  Rows("b1", <<2, 3, 99, 4>>) \cup Rows("m1", <<1, 0>>) \cup Rows("u1", <<5, 6, 7, 5>>)
  \cup Rows("x1", <<6, 4>>)
TownTripMode == [t \in {"b1", "m1", "u1"} |->
  CASE t = "b1" -> BUS [] t = "m1" -> METRO [] OTHER -> MICROBUS]
TownRequest ==
  Trips({P(0, 0), P(7, 52)}, {P(0, 100), P(9, 68)}) \cup Trips({P(5, -13)}, {P(0, 78)})
  \cup Trips({P(0, 22)}, {P(0, 150), P(1, 75)}) \cup Trips({P(9, 68)}, {P(7, 52)})
  \cup Trips({P(100, 0)}, {P(100, 20), P(100, 90)})

\* The town, and the corridor far to its north.
NORTH == 600
North(p) == P(p.lat + NORTH, p.lon)
Northern(rows) == {Row(r.trip \o "n", r.stop + 10, r.seq) : r \in rows}
CityStop == TownStop \cup {s + 10 : s \in CorridorStop}
CityAt == [s \in CityStop |-> IF s \in TownStop THEN TownAt[s] ELSE North(CorridorAt[s - 10])]
CityPrefix == [s \in CityStop |-> IF s \in TownStop THEN TownPrefix[s] ELSE CorridorPrefix[s - 10]]
CityTrip == TownTrip \cup {t \o "n" : t \in CorridorTrip}
CityStopTimes == TownStopTimes \cup Northern(CorridorStopTimes)
CityTripMode ==
  [t \in DOMAIN TownTripMode \cup {c \o "n" : c \in CorridorTrip} |->
     IF t \in TownTrip THEN TownTripMode[t]
     ELSE CorridorTripMode[CHOOSE c \in CorridorTrip : t = c \o "n"]]
CityRequest ==
  TownRequest \cup {[origin |-> North(r.origin), destination |-> North(r.destination)] : r \in CorridorRequest}

=============================================================================
