----------------------------- MODULE StopLookup -----------------------------
(***************************************************************************)
(* The lookups of SpatialGrid, called from any point: a query is answered  *)
(* in one step, on a graph that no query changes.                          *)
(***************************************************************************)
EXTENDS SpatialGrid

CONSTANTS
  Query        \* the queries asked: a point, a radius and a mode mask

ASSUME QueryAssumption == Query \subseteq [at : Point, radius : Nat, mask : SUBSET Mode]

VARIABLES
  query,       \* the query
  answered,    \* whether the lookups have returned
  near,        \* answer of getNodesWithinRadius without a mask
  nearOfMode   \* answer of getNodesWithinRadius with the mask

vars == <<query, answered, near, nearOfMode>>

Init ==
  /\ query \in Query
  /\ answered = FALSE /\ near = {} /\ nearOfMode = {}

\* Mutant of Answer: -1 stands for a missing stop among those returned.
AnswerAbsent ==
  /\ ~answered
  /\ answered' = TRUE
  /\ near' = NodesWithinRadius(query.at, query.radius) \cup {-1}
  /\ nearOfMode' = NodesOfModeWithinRadius(query.at, query.radius, query.mask)
  /\ UNCHANGED query

Answer ==
  /\ ~answered
  /\ answered' = TRUE
  /\ near' = NodesWithinRadius(query.at, query.radius)
  /\ nearOfMode' = NodesOfModeWithinRadius(query.at, query.radius, query.mask)
  /\ UNCHANGED query

Next == Answer

Spec == Init /\ [][Next]_vars

-----------------------------------------------------------------------------
(* Properties.                                                             *)

TypeOK ==
  /\ query \in Query /\ answered \in BOOLEAN
  /\ near \subseteq Stop /\ nearOfMode \subseteq Stop

Within(p, d) == {s \in Stop : haversine(p, At[s]) <= d}

\* A stop within the radius and no farther than a cell is narrow is found,
\* wherever the point lies in its cell and on whichever side of the reference
\* meridian: the neighbouring cells cover it.
\* (the 3x3 search of getNodesWithinRadius)
CellWidthCovered ==
  answered => \A d \in {query.radius, CELL_LAT, CELL_LON} :
    d <= query.radius /\ d <= CELL_LAT /\ d <= CELL_LON =>
      Within(query.at, d) \subseteq near

\* The mask never leaves a point without stops that has some, and never mixes:
\* either every stop returned has a prefix of the mask, or none nearby has.
\* (the fallback of getNodesWithinRadius with a mask)
MaskFallsBackWhole ==
  answered =>
    /\ nearOfMode = {} => near = {}
    /\ \/ \A s \in nearOfMode : MatchesMode(s, query.mask)
       \/ nearOfMode = near /\ \A s \in near : ~MatchesMode(s, query.mask)

\* All stops within the radius are returned.  (getNodesWithinRadius)
AllWithinRadius == answered => Within(query.at, query.radius) \subseteq near

=============================================================================
