-------------------------- MODULE StopLookupProofs --------------------------
(***************************************************************************)
(* Proofs about StopLookup and the grid of SpatialGrid, for any network,   *)
(* any sizes of cells and any query: which stops the search of the nine    *)
(* cells around a point finds for certain.                                 *)
(***************************************************************************)
EXTENDS StopLookup, TLAPS

-----------------------------------------------------------------------------
(* Division and cells.                                                     *)

\* Division rounds down, below zero too.
LEMMA DivRoundsDown ==
  ASSUME NEW a \in Int, NEW c \in Nat \ {0}
  PROVE  /\ a \div c \in Int
         /\ c * (a \div c) <= a /\ a < c * (a \div c) + c
  OBVIOUS

\* Numbers no farther apart than c have quotients no farther apart than one.
LEMMA DivCloses ==
  ASSUME NEW a \in Int, NEW b \in Int, NEW c \in Nat \ {0}, a - b <= c
  PROVE  a \div c - b \div c <= 1
<1> DEFINE q == a \div c
           r == b \div c
<1>1. /\ q \in Int /\ r \in Int
      /\ c * q <= a /\ b < c * r + c
  BY DivRoundsDown
<1> HIDE DEF q, r
<1>2. c * q < c * r + 2 * c
  BY <1>1
<1>3. c * (q - r) < c * 2
  BY <1>1, <1>2
<1>4. q - r < 2
  BY <1>1, <1>3
<1>5. q - r <= 1
  BY <1>1, <1>4
<1> QED  BY <1>5 DEF q, r

\* A point no farther away than a cell is narrow lies in one of the nine cells.
LEMMA NineCellsCover ==
  ASSUME NEW p \in Point, NEW s \in Stop, NEW d \in Int,
         haversine(p, At[s]) <= d, d <= CELL_LAT, d <= CELL_LON
  PROVE  s \in Surrounding(p)
<1> DEFINE o == At[s]
<1>1. o \in Point
  BY PositionAssumption
<1>2. /\ p.lat \in Int /\ p.lon \in Int /\ o.lat \in Int /\ o.lon \in Int
      /\ CELL_LAT \in Nat \ {0} /\ CELL_LON \in Nat \ {0}
  BY <1>1, CellAssumption DEF Point
<1>3. Abs(p.lat - o.lat) + Abs(p.lon - o.lon) <= d
  BY DEF haversine
<1> HIDE DEF o
<1>4. /\ o.lat - p.lat <= CELL_LAT /\ p.lat - o.lat <= CELL_LAT
      /\ o.lon - p.lon <= CELL_LON /\ p.lon - o.lon <= CELL_LON
  BY <1>2, <1>3 DEF Abs
<1>5. /\ o.lat \div CELL_LAT - p.lat \div CELL_LAT <= 1
      /\ p.lat \div CELL_LAT - o.lat \div CELL_LAT <= 1
      /\ o.lon \div CELL_LON - p.lon \div CELL_LON <= 1
      /\ p.lon \div CELL_LON - o.lon \div CELL_LON <= 1
  BY <1>2, <1>4, DivCloses
<1>6. /\ o.lat \div CELL_LAT \in Int /\ p.lat \div CELL_LAT \in Int
      /\ o.lon \div CELL_LON \in Int /\ p.lon \div CELL_LON \in Int
  BY <1>2, DivRoundsDown
<1>7. Cell(o).y - Cell(p).y \in -1..1 /\ Cell(o).x - Cell(p).x \in -1..1
  BY <1>5, <1>6 DEF Cell
<1> QED  BY <1>7 DEF Surrounding, o

-----------------------------------------------------------------------------
(* The lookups.                                                            *)

\* What the lookups answer, in full: the invariant from which the properties
\* follow.
LookupInv ==
  /\ query \in Query /\ answered \in BOOLEAN
  /\ ~answered => near = {} /\ nearOfMode = {}
  /\ answered => /\ near = NodesWithinRadius(query.at, query.radius)
                 /\ nearOfMode = NodesOfModeWithinRadius(query.at, query.radius, query.mask)

THEOREM LookupInvariant == Spec => []LookupInv
<1>1. Init => LookupInv
  BY DEF Init, LookupInv
<1>2. LookupInv /\ [Next]_vars => LookupInv'
  <2> SUFFICES ASSUME LookupInv, [Next]_vars PROVE LookupInv'
    OBVIOUS
  <2>1. CASE Answer
    BY <2>1 DEF Answer, LookupInv, NodesWithinRadius, NodesOfModeWithinRadius, Surrounding
  <2>2. CASE UNCHANGED vars
    BY <2>2 DEF vars, LookupInv, NodesWithinRadius, NodesOfModeWithinRadius, Surrounding
  <2> QED  BY <2>1, <2>2 DEF Next
<1> QED  BY <1>1, <1>2, PTL DEF Spec

LEMMA LookupImplied == LookupInv => TypeOK /\ CellWidthCovered /\ MaskFallsBackWhole
<1> SUFFICES ASSUME LookupInv PROVE TypeOK /\ CellWidthCovered /\ MaskFallsBackWhole
  OBVIOUS
<1>1. TypeOK
  BY DEF LookupInv, TypeOK, NodesWithinRadius, NodesOfModeWithinRadius, Surrounding
<1>2. ASSUME answered, NEW d \in {query.radius, CELL_LAT, CELL_LON},
             d <= query.radius, d <= CELL_LAT, d <= CELL_LON,
             NEW s \in Within(query.at, d)
      PROVE  s \in near
  <2>1. query.at \in Point /\ query.radius \in Nat
    BY QueryAssumption DEF LookupInv
  <2>2. d \in Int /\ s \in Stop /\ haversine(query.at, At[s]) <= d
    BY <2>1, CellAssumption DEF Within
  <2>3. haversine(query.at, At[s]) \in Int
    BY <2>1, <2>2, PositionAssumption DEF haversine, Abs, Point
  <2>4. s \in Surrounding(query.at)
    BY <1>2, <2>1, <2>2, NineCellsCover
  <2>5. haversine(query.at, At[s]) <= query.radius
    BY <1>2, <2>1, <2>2, <2>3
  <2> QED  BY <1>2, <2>4, <2>5 DEF LookupInv, NodesWithinRadius
<1>3. CellWidthCovered
  BY <1>2 DEF CellWidthCovered
<1>4. MaskFallsBackWhole
  BY DEF LookupInv, MaskFallsBackWhole, NodesOfModeWithinRadius
<1> QED  BY <1>1, <1>3, <1>4

\* The lookups answer stops.
THEOREM LookupsTyped == Spec => []TypeOK
  BY LookupInvariant, LookupImplied, PTL

\* A stop within the radius and no farther than a cell is narrow is found,
\* whatever the sizes of the cells, on every side of the reference meridian.
\* (getNodesWithinRadius, getCellKey)
THEOREM NearStopsFound == Spec => []CellWidthCovered
  BY LookupInvariant, LookupImplied, PTL

\* A mask leaves no point without stops that has some, and never mixes stops
\* with a prefix of it and others.  (getNodesWithinRadius with a mask)
THEOREM MaskNeverMixes == Spec => []MaskFallsBackWhole
  BY LookupInvariant, LookupImplied, PTL

\* AllWithinRadius fails where the radius exceeds the width of a cell, and only
\* there: with cells as wide as the radius the search finds the stops within it,
\* all of them and no others.
ExactWhenCellsAreWide ==
  answered /\ query.radius <= CELL_LAT /\ query.radius <= CELL_LON =>
    near = Within(query.at, query.radius)

THEOREM WideCellsAreExact == Spec => []ExactWhenCellsAreWide
<1>1. LookupInv => ExactWhenCellsAreWide
  <2> SUFFICES ASSUME LookupInv, answered, query.radius <= CELL_LAT, query.radius <= CELL_LON
               PROVE  near = Within(query.at, query.radius)
    BY DEF ExactWhenCellsAreWide
  <2>1. query.radius \in Nat
    BY QueryAssumption DEF LookupInv
  <2>2. Within(query.at, query.radius) \subseteq near
    BY <2>1, LookupImplied DEF CellWidthCovered
  <2>3. near \subseteq Within(query.at, query.radius)
    BY DEF LookupInv, NodesWithinRadius, Surrounding, Within
  <2> QED  BY <2>2, <2>3
<1> QED  BY <1>1, LookupInvariant, PTL

=============================================================================
