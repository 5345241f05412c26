---------------------------- MODULE SpatialGrid ----------------------------
(***************************************************************************)
(* The stops of the network, their positions, and the lookups of           *)
(* RoutingEngine/src/graph.cpp that find stops around a point through a    *)
(* grid of cells.                                                          *)
(*                                                                         *)
(* Positions are whole numbers of a unit of 100 m, [lat, lon], north and   *)
(* east of a reference point.  The great-circle distance is abstracted by  *)
(* a metric on those positions: all the search relies on is the triangle   *)
(* inequality, and all the grid relies on is that a distance bounds each   *)
(* of its two coordinates.                                                 *)
(***************************************************************************)
EXTENDS Integers, FiniteSets

CONSTANTS
  Stop,        \* indices of the stops of the network (NodeID)
  At,          \* At[s]: position of stop s
  StopPrefix,  \* StopPrefix[s]: the prefix of its GTFS stop id, "M_", "B1_", "MB_" or "other"
  CELL_LAT,    \* height of a grid cell, in units
  CELL_LON     \* width of a grid cell, in units: a degree of longitude is
               \* shorter than a degree of latitude, the code uses one
               \* CELL_SIZE in degrees for both

Point == [lat : Int, lon : Int]

ASSUME StopAssumption == Stop \subseteq Nat /\ IsFiniteSet(Stop)
ASSUME PositionAssumption == At \in [Stop -> Point]
ASSUME PrefixAssumption == StopPrefix \in [Stop -> {"M_", "B1_", "MB_", "other"}]
ASSUME CellAssumption == CELL_LAT \in Nat \ {0} /\ CELL_LON \in Nat \ {0}

MAX_WALK_DISTANCE == 15

Abs(n) == IF n < 0 THEN -n ELSE n

haversine(p, q) == Abs(p.lat - q.lat) + Abs(p.lon - q.lon)

(***************************************************************************)
(* getCellKey.  The code packs the two cell coordinates into one number,   *)
(* which is injective for the latitudes and longitudes of one city.        *)
(***************************************************************************)
Cell(p) == [y |-> p.lat \div CELL_LAT, x |-> p.lon \div CELL_LON]

\* Mutant of Surrounding: the cells to the south and to the west are left out.
SurroundingFromCell(p) ==
  {s \in Stop : /\ Cell(At[s]).y - Cell(p).y \in 0..1
                /\ Cell(At[s]).x - Cell(p).x \in 0..1}

\* The stops filed in the cell of p or in one of its eight neighbours.
Surrounding(p) ==
  {s \in Stop : /\ Cell(At[s]).y - Cell(p).y \in -1..1
                /\ Cell(At[s]).x - Cell(p).x \in -1..1}

\* getNodesWithinRadius without a mode.
NodesWithinRadius(p, radius) ==
  {s \in Surrounding(p) : haversine(p, At[s]) <= radius}

(***************************************************************************)
(* Modes.  The bitmask of the code is the set of its bits.                 *)
(***************************************************************************)
METRO == "metro"
BUS == "bus"
MICROBUS == "microbus"
WALK == "walking"
Mode == {METRO, BUS, MICROBUS, WALK}
ANY == {METRO, BUS, MICROBUS}

\* matchesMode: the stop id starts with a prefix of a mode of the mask.
MatchesMode(s, mask) ==
  \/ METRO \in mask /\ StopPrefix[s] = "M_"
  \/ BUS \in mask /\ StopPrefix[s] = "B1_"
  \/ MICROBUS \in mask /\ StopPrefix[s] = "MB_"

\* Mutant of NodesOfModeWithinRadius: the fallback adds to the stops of the mode.
NodesOfModeFirst(p, radius, mask) ==
  LET ofMode == {s \in NodesWithinRadius(p, radius) : MatchesMode(s, mask)}
  IN  IF Cardinality(ofMode) > 1 THEN ofMode ELSE NodesWithinRadius(p, radius)

\* getNodesWithinRadius with a mode mask: it falls back to every stop of the
\* neighbourhood when no stop has a prefix of the mask.
NodesOfModeWithinRadius(p, radius, mask) ==
  LET ofMode == {s \in NodesWithinRadius(p, radius) : MatchesMode(s, mask)}
  IN  IF ofMode # {} THEN ofMode ELSE NodesWithinRadius(p, radius)

=============================================================================
