------------------------ MODULE RouteSelectionProofs ------------------------
(***************************************************************************)
(* What becomes of the routes found, for every network, every request and  *)
(* every fare: the four results hold what their types promise, and the     *)
(* option selected honours the filter and is a best one.                   *)
(*                                                                         *)
(* Two facts of the search carry the argument.  The trips along a route    *)
(* read back are those of edges the mask allowed, since every stop on it   *)
(* was reached (Reached).  And the numbers that _select_route confuses,    *)
(* a duration of zero and a missing one, cannot both be around: a route    *)
(* takes no time exactly when its ends are one place (Timed).              *)
(***************************************************************************)
EXTENDS TransitData, PathfinderProofs, FiniteSetTheorems, WellFoundedInduction

-----------------------------------------------------------------------------
(* Least elements.                                                         *)

\* A set of naturals that is not empty has a least element, and Min is it.
LEMMA LeastIsMember ==
  ASSUME NEW S, S \subseteq Nat, S # {}
  PROVE  Min(S) \in S /\ \A k \in S : Min(S) <= k
<1> DEFINE R == OpToRel(<, Nat)
<1>1. IsWellFoundedOn(R, Nat)
  BY NatLessThanWellFounded
<1> HIDE DEF R
<1>2. PICK x \in S : \A y \in S : ~(<<y, x>> \in R)
  BY <1>1, WFMin, Zenon
<1>3. ASSUME NEW y \in S PROVE x <= y
  <2>1. <<y, x>> \notin R /\ x \in Nat /\ y \in Nat
    BY <1>2
  <2>2. ~(y < x)
    BY <2>1, SMT DEF R, OpToRel
  <2> QED  BY <2>1, <2>2
<1> QED  BY <1>3, Zenon DEF Min

\* Of pairs of naturals, none of which precedes itself in the order of
\* _select_route, some pair is preceded by none.
LEMMA LeastRank ==
  ASSUME NEW S, S # {}, NEW f \in [S -> Nat \X Nat]
  PROVE  \E k \in S : \A o \in S : ~Precedes(f[o], f[k])
<1> DEFINE A == {f[k][1] : k \in S}
           a == Min(A)
           B == {f[k][2] : k \in {i \in S : f[i][1] = a}}
           b == Min(B)
<1>1. \A k \in S : f[k][1] \in Nat /\ f[k][2] \in Nat
  OBVIOUS
<1>2. A \subseteq Nat /\ A # {}
  BY <1>1
<1>3. a \in A /\ \A n \in A : a <= n
  <2> HIDE DEF A
  <2> QED  BY <1>2, LeastIsMember
<1> HIDE DEF a
<1>4. B \subseteq Nat /\ B # {}
  BY <1>1, <1>3
<1>5. b \in B /\ \A n \in B : b <= n
  <2> HIDE DEF B
  <2> QED  BY <1>4, LeastIsMember
<1> HIDE DEF b
<1>6. PICK k \in S : f[k][1] = a /\ f[k][2] = b
  BY <1>5
<1>7. ASSUME NEW o \in S PROVE ~Precedes(f[o], f[k])
  <2>1. a <= f[o][1] /\ (f[o][1] = a => b <= f[o][2])
    BY <1>3, <1>5
  <2>2. a \in Nat /\ b \in Nat /\ f[o][1] \in Nat /\ f[o][2] \in Nat
    BY <1>1, <1>6
  <2> QED  BY <1>6, <2>1, <2>2 DEF Precedes
<1> QED  BY <1>6, <1>7

-----------------------------------------------------------------------------
(* Reading the route back.                                                 *)

\* Counting the elements of a finite set of integers up to each of them
\* numbers them from one on.
LEMMA CountedOff ==
  ASSUME NEW S, S \subseteq Int, IsFiniteSet(S), NEW k \in 1..Cardinality(S)
  PROVE  \E i \in S : Cardinality({j \in S : j <= i}) = k
<1> DEFINE below(i) == {j \in S : j <= i}
           n == Cardinality(S)
           f == [i \in S |-> Cardinality(below(i))]
<1>1. n \in Nat /\ IsFiniteSet(1..n) /\ Cardinality(1..n) = n
  <2>1. n \in Nat
    BY FS_CardinalityType
  <2> HIDE DEF n
  <2>2. IsFiniteSet(1..n) /\ Cardinality(1..n) = IF 1 > n THEN 0 ELSE n - 1 + 1
    BY <2>1, FS_Interval
  <2> QED  BY <2>1, <2>2
<1>2. ASSUME NEW i \in S
      PROVE  /\ IsFiniteSet(below(i)) /\ below(i) \subseteq S /\ i \in below(i)
             /\ Cardinality(below(i)) \in 1..n
  <2>1. below(i) \in SUBSET S /\ i \in below(i)
    OBVIOUS
  <2> HIDE DEF below
  <2>2. IsFiniteSet(below(i)) /\ Cardinality(below(i)) <= n
    BY <2>1, FS_Subset
  <2>3. Cardinality(below(i)) \in Nat
    BY <2>2, FS_CardinalityType
  <2>4. Cardinality(below(i)) # 0
    BY <2>1, <2>2, FS_EmptySet
  <2> QED  BY <1>1, <2>1, <2>2, <2>3, <2>4
<1>3. ASSUME NEW i \in S, NEW j \in S, i < j PROVE Cardinality(below(i)) # Cardinality(below(j))
  <2>0. i \in Int /\ j \in Int /\ ~(j <= i) /\ j <= j
    BY <1>3
  <2>00. \A x \in S : x <= i => x <= j
    BY <1>3
  <2>1. below(i) \in SUBSET below(j) /\ j \notin below(i) /\ j \in below(j)
    BY <2>0, <2>00, Zenon
  <2> HIDE DEF below
  <2>2. IsFiniteSet(below(j))
    BY <1>2
  <2>3. Cardinality(below(j)) = Cardinality(below(i)) => below(j) = below(i)
    BY <2>1, <2>2, FS_Subset
  <2> QED  BY <2>1, <2>3
<1> HIDE DEF below, n
<1>4. f \in [S -> 1..n]
  BY <1>2
<1>5. \A i, j \in S : f[i] = f[j] => i = j
  <2> SUFFICES ASSUME NEW i \in S, NEW j \in S, f[i] = f[j] PROVE i = j
    OBVIOUS
  <2>1. Cardinality(below(i)) = Cardinality(below(j))
    OBVIOUS
  <2>2. ~(i < j) /\ ~(j < i)
    BY <2>1, <1>3
  <2> QED  BY <2>2
<1>6. f \in Injection(S, 1..n)
  BY <1>4, <1>5, Zenon DEF Injection, IsInjective
<1> HIDE DEF f
<1>7. f \in Surjection(S, 1..n)
  BY <1>1, <1>6, FS_Injection DEF n
<1>8. PICK i \in S : f[i] = k
  BY <1>7 DEF Surjection, n
<1> QED  BY <1>8 DEF f, below

LEMMA BreaksFinite ==
  ASSUME NEW p \in Seq(Stop)
  PROVE  /\ Breaks(p) \subseteq 2..Len(p) /\ IsFiniteSet(Breaks(p)) /\ Cardinality(Breaks(p)) \in Nat
         /\ \A k \in 1..Cardinality(Breaks(p)) : Break(p, k) \in Breaks(p)
<1> DEFINE S == Breaks(p)
<1>1. S \subseteq 2..Len(p)
  BY DEF Breaks
<1>2. Len(p) \in Nat
  OBVIOUS
<1> HIDE DEF S
<1>3. IsFiniteSet(2..Len(p)) /\ S \in SUBSET (2..Len(p))
  BY <1>1, <1>2, FS_Interval
<1>4. IsFiniteSet(S)
  BY <1>3, FS_Subset
<1>5. Cardinality(S) \in Nat
  BY <1>4, FS_CardinalityType
<1>6. ASSUME NEW k \in 1..Cardinality(S) PROVE Break(p, k) \in S
  <2>1. S \subseteq Int
    BY <1>1
  <2>2. \E i \in S : Cardinality({j \in S : j <= i}) = k
    BY <2>1, <1>4, CountedOff
  <2> QED  BY <2>2, Zenon DEF Break, S
<1> QED  BY <1>1, <1>4, <1>5, <1>6 DEF S
-----------------------------------------------------------------------------
(* The search.                                                             *)

H == haversine(request.origin, request.destination)

Labelled(v) == info[v].trip # ""

\* Every stop that is queued, expanded, depended on or read back was reached.
Reached ==
  /\ \A s \in pq : Labelled(s.u)
  /\ todo # {} => Labelled(top.u)
  /\ \A v \in Stop : info[v].parent # -1 => Labelled(info[v].parent)
  /\ best_end_node \in Stop => Labelled(best_end_node)
  /\ curr \in Stop => Labelled(curr)
  /\ \A i \in DOMAIN path : Labelled(path[i])
  /\ pc # "trace" => path = << >> /\ curr = -1
  /\ pc = "trace" /\ curr = -1 => path # << >>

\* A queued state without cost is at the origin, and the best route takes no
\* time exactly when the ends are one place.
Timed ==
  /\ \A s \in pq : s.g = 0 => FromOrigin(s.u) = 0
  /\ Searching => IF H = 0 THEN best_total = 0 ELSE best_total > 0 \/ INF = 0

\* What segments of a search with mask m are called: rides by the modes it
\* allows, and walks; a trip that cannot be resolved passes for a bus.
Methods(m) == {WALK} \cup m \cup (IF BUS \in m THEN {"unknown"} ELSE {})
SegmentOf(m) == [from : Point, to : Point, method : Methods(m), stops : Int, trip : TripRef]

\* The result of the k-th search holds what its type says, and takes no time
\* exactly when the ends are one place.
Sound(k, r) ==
  /\ r.type = Searches[k].type
  /\ r.total \in Nat
  /\ Found(r) => (r.total = 0 <=> H = 0)
  /\ r.segments \in Seq(SegmentOf(Searches[k].mask))

Answers ==
  /\ pc = "done" => Len(results) = 4
  /\ \A k \in 1..Len(results) : Sound(k, results[k])

OptionInv == LabelInv /\ Reached /\ Timed /\ Answers

-----------------------------------------------------------------------------
(* Each step keeps the invariant.                                          *)

LEMMA DistanceBetween ==
  ASSUME request \in Request
  PROVE  /\ request.origin \in Point /\ request.destination \in Point
         /\ H \in Nat /\ WalkTime(request.origin, request.destination) = H * 143
  BY RequestType, HaversineType, SpeedBound DEF H, WalkTime

\* A way past a stop that is free ends where it began.
LEMMA FreeWay ==
  ASSUME request \in Request, NEW v \in Stop, FromOrigin(v) = 0, ToDestination(v) = 0
  PROVE  H = 0
<1> DEFINE x == haversine(request.origin, At[v])
           y == haversine(At[v], request.destination)
<1>1. request.origin \in Point /\ request.destination \in Point /\ At[v] \in Point
  BY RequestType, PositionAssumption
<1>2. x \in Nat /\ y \in Nat /\ H \in Nat /\ H <= x + y
  BY <1>1, HaversineType, HaversineTriangle DEF H
<1>3. x * 143 = 0 /\ y * 143 = 0
  BY SpeedBound DEF FromOrigin, ToDestination, WalkTime
<1> HIDE DEF x, y
<1>4. x = 0 /\ y = 0
  BY <1>2, <1>3
<1> QED  BY <1>2, <1>4

LEMMA StartSearchKeeps ==
  ASSUME OptionInv, StartSearch
  PROVE  Reached' /\ Timed'
<1> DEFINE starts == StartNodes(request, mask)
<1>1. /\ TypeOK /\ Reached /\ pc = "call" /\ pc' = "search" /\ todo = {} /\ todo' = todo
      /\ request' = request /\ path' = path /\ curr' = curr
      /\ best_end_node' \in {-1, -2}
  BY DEF StartSearch, OptionInv, LabelInv, Dormant, trace
<1>2. starts \subseteq Stop
  BY CandidatesType
<1>3. /\ \A v \in Stop : info'[v] = IF v \in starts
                                    THEN [g |-> FromOrigin(v), parent |-> -1, trip |-> WALK_TRIP]
                                    ELSE Unlabelled
      /\ pq' = {[u |-> v, g |-> FromOrigin(v), f |-> FromOrigin(v) + heuristic(v), trip |-> WALK_TRIP] :
                  v \in starts}
  BY DEF StartSearch
<1> HIDE DEF starts
<1>4. \A v \in starts : info'[v].trip = WALK_TRIP
  <2> SUFFICES ASSUME NEW v \in starts PROVE info'[v].trip = WALK_TRIP
    OBVIOUS
  <2>1. info'[v] = [g |-> FromOrigin(v), parent |-> -1, trip |-> WALK_TRIP]
    BY <1>2, <1>3
  <2> QED  BY <2>1
<1>5. \A v \in Stop : info'[v].parent = -1
  <2> SUFFICES ASSUME NEW v \in Stop PROVE info'[v].parent = -1
    OBVIOUS
  <2>1. info'[v] = [g |-> FromOrigin(v), parent |-> -1, trip |-> WALK_TRIP] \/ info'[v] = Unlabelled
    BY <1>3
  <2>2. Unlabelled.parent = -1
    BY DEF Unlabelled
  <2>3. [g |-> FromOrigin(v), parent |-> -1, trip |-> WALK_TRIP].parent = -1
    OBVIOUS
  <2> QED  BY <2>1, <2>2, <2>3, Zenon
<1>6. \A s \in pq' : s.u \in starts /\ s.g = FromOrigin(s.u)
  <2> SUFFICES ASSUME NEW s \in pq' PROVE s.u \in starts /\ s.g = FromOrigin(s.u)
    OBVIOUS
  <2>1. PICK v \in starts :
          s = [u |-> v, g |-> FromOrigin(v), f |-> FromOrigin(v) + heuristic(v), trip |-> WALK_TRIP]
    BY <1>3
  <2> QED  BY <2>1
<1>7. WALK_TRIP # ""
  BY DEF WALK_TRIP
<1>8. best_end_node' \notin Stop
  BY <1>1, StopAssumption
<1>9. path = << >> /\ curr = -1 /\ -1 \notin Stop
  BY <1>1, StopAssumption DEF Reached
<1>10. Reached'
  <2>1. \A s \in pq' : Labelled(s.u)'
    BY <1>4, <1>6, <1>7 DEF Labelled
  <2>2. DOMAIN path = {}
    BY <1>9
  <2> QED  BY <2>1, <2>2, <1>1, <1>5, <1>8, <1>9 DEF Reached
<1>11. Timed'
  <2>1. H \in Nat /\ WalkTime(request.origin, request.destination) = H * 143 /\ H' = H
    BY <1>1, DistanceBetween DEF TypeOK, H
  <2>2. \/ best_total' = H * 143
        \/ best_total' = INF /\ ~(H <= 30)
    BY <2>1 DEF StartSearch, CanDirectWalk, MAX_WALK_DISTANCE, H
  <2>3. IF H = 0 THEN best_total' = 0 ELSE best_total' > 0 \/ INF = 0
    BY <2>1, <2>2, InfAssumption
  <2>4. \A s \in pq' : s.g = 0 => FromOrigin(s.u)' = 0
    BY <1>1, <1>6 DEF FromOrigin
  <2> QED  BY <2>1, <2>3, <2>4 DEF Timed
<1> QED  BY <1>10, <1>11

LEMMA ExpandKeeps ==
  ASSUME OptionInv, NEW s \in pq, Expand(s)
  PROVE  Reached' /\ Timed'
<1>1. /\ TypeOK /\ Reached /\ Timed /\ pc = "search" /\ request' = request /\ pc' = pc /\ info' = info
      /\ path' = path /\ curr' = curr /\ top' = s /\ pq' = pq \ {s}
      /\ s.u \in Stop /\ s.g \in Nat /\ best_total \in Nat
      /\ \/ best_end_node' = best_end_node /\ best_total' = best_total
         \/ /\ best_end_node' = s.u /\ best_total' = s.g + ToDestination(s.u)
            /\ s.g + ToDestination(s.u) < best_total
  BY DEF Expand, OptionInv, LabelInv, TypeOK, State, trace
<1>2. Reached'
  BY <1>1 DEF Reached, Labelled
<1>3. H' = H /\ H \in Nat /\ ToDestination(s.u) \in Nat /\ FromOrigin(s.u) \in Nat
  BY <1>1, DistanceBetween, CostTypes DEF TypeOK, H
<1>4. IF H = 0 THEN best_total' = 0 ELSE best_total' > 0 \/ INF = 0
  <2>1. IF H = 0 THEN best_total = 0 ELSE best_total > 0 \/ INF = 0
    BY <1>1 DEF Timed, Searching
  <2>2. ASSUME s.g + ToDestination(s.u) = 0 PROVE H = 0
    <3>1. s.g = 0 /\ ToDestination(s.u) = 0
      BY <1>1, <1>3, <2>2
    <3>2. FromOrigin(s.u) = 0
      BY <1>1, <3>1 DEF Timed
    <3> QED  BY <1>1, <3>1, <3>2, FreeWay DEF TypeOK
  <2> QED  BY <1>1, <1>3, <2>1, <2>2
<1>5. Timed'
  BY <1>1, <1>3, <1>4 DEF Timed, FromOrigin
<1> QED  BY <1>2, <1>5

LEMMA RelaxKeeps ==
  ASSUME OptionInv, NEW e \in todo, Relax(e)
  PROVE  Reached' /\ Timed'
<1> DEFINE label == [g |-> NewG(e), parent |-> top.u, trip |-> e.trip]
           queued == [u |-> e.to, g |-> NewG(e), f |-> NewG(e) + heuristic(e.to), trip |-> e.trip]
<1>1. /\ TypeOK /\ Reached /\ Timed /\ e \in Edges /\ pc = "search" /\ Labelled(top.u)
      /\ request' = request /\ pc' = pc /\ top' = top /\ path' = path /\ curr' = curr
      /\ best_total' = best_total /\ best_end_node' = best_end_node
      /\ info' = [info EXCEPT ![e.to] = label] /\ pq' = pq \cup {queued}
  BY DEF Relax, OptionInv, LabelInv, TypeOK, Reached, trace
<1>2. e.to \in Stop /\ e.weight \in Nat /\ e.weight > 0 /\ e.trip # ""
  BY <1>1, EdgeType
<1>3. label.trip = e.trip /\ label.parent = top.u /\ queued.u = e.to /\ queued.g = NewG(e)
  OBVIOUS
<1> HIDE DEF label, queued
<1>4. info'[e.to] = label /\ \A v : v \in Stop /\ v # e.to => info'[v] = info[v]
  BY <1>1, <1>2 DEF TypeOK
<1> DEFINE L(v) == info'[v].trip # ""
<1>5. L(e.to) /\ \A v \in Stop : Labelled(v) => L(v)
  BY <1>2, <1>3, <1>4 DEF Labelled
<1> HIDE DEF L
<1>6. top.u \in Stop /\ \A s \in pq : s.u \in Stop
  BY <1>1 DEF OptionInv, LabelInv, Expanding, TypeOK
<1>7. Reached'
  <2>1. \A s \in pq' : L(s.u)
    BY <1>1, <1>3, <1>5, <1>6 DEF Reached
  <2>2. \A v \in Stop : info'[v].parent # -1 => L(info'[v].parent)
    <3> SUFFICES ASSUME NEW v \in Stop, info'[v].parent # -1 PROVE L(info'[v].parent)
      OBVIOUS
    <3>1. CASE v = e.to
      BY <3>1, <1>1, <1>3, <1>4, <1>5, <1>6
    <3>2. CASE v # e.to
      <4>1. info'[v] = info[v] /\ Labelled(info[v].parent) /\ info[v].parent \in Stop
        BY <3>2, <1>1, <1>4 DEF Reached, TypeOK
      <4> QED  BY <4>1, <1>5
    <3> QED  BY <3>1, <3>2
  <2>3. path = << >> /\ curr = -1 /\ -1 \notin Stop /\ DOMAIN << >> = {}
    BY <1>1, StopAssumption DEF Reached
  <2>4. best_end_node \in Stop => L(best_end_node)
    BY <1>1, <1>5 DEF Reached
  <2>5. L(top.u)
    BY <1>1, <1>5, <1>6
  <2> QED  BY <2>1, <2>2, <2>3, <2>4, <2>5, <1>1, Zenon DEF Reached, Labelled, L
<1>8. H' = H /\ \A v : FromOrigin(v)' = FromOrigin(v)
  BY <1>1 DEF H, FromOrigin
<1>9. NewG(e) # 0
  <2>1. top.g \in Nat /\ StepCost(top.trip, e) \in Nat /\ StepCost(top.trip, e) >= e.weight
    BY <1>1, StepCostType DEF TypeOK, State
  <2>2. \A a, b, c \in Nat : c > 0 /\ b >= c => a + b # 0
    OBVIOUS
  <2> QED  BY <1>2, <2>1, <2>2, Zenon DEF NewG
<1>10. Timed'
  BY <1>1, <1>3, <1>8, <1>9 DEF Timed, Searching
<1> QED  BY <1>7, <1>10

\* Steps that only drop something from pq or todo.
LEMMA DropKeeps ==
  ASSUME OptionInv, pq' \subseteq pq, todo' \subseteq todo,
         UNCHANGED <<request, pc, info, top, best_total, best_end_node, path, curr>>
  PROVE  Reached' /\ Timed'
<1>1. Reached /\ Timed
  BY DEF OptionInv
<1>2. Reached'
  BY <1>1 DEF Reached, Labelled
<1>3. Timed'
  BY <1>1 DEF Timed, Searching, H, FromOrigin
<1> QED  BY <1>2, <1>3

\* Reading back follows parents, which were reached.
LEMMA TraceKeeps ==
  ASSUME OptionInv, BeginTrace \/ Trace
  PROVE  Reached' /\ Timed'
<1>1. /\ TypeOK /\ Reached /\ Timed
      /\ request' = request /\ info' = info /\ pq' = pq /\ todo' = todo /\ top' = top
      /\ best_total' = best_total /\ best_end_node' = best_end_node
      /\ Searching /\ pc' = "trace"
  BY DEF BeginTrace, Trace, SearchOver, OptionInv, LabelInv, search, Searching
<1>2. Timed'
  BY <1>1 DEF Timed, Searching, H, FromOrigin
<1>3. CASE BeginTrace
  <2>1. curr' = best_end_node /\ best_end_node \in Stop /\ path' = path /\ path = << >> /\ -1 \notin Stop
    BY <1>1, <1>3, StopAssumption DEF BeginTrace, SearchOver, Reached
  <2>2. Reached'
    BY <1>1, <2>1 DEF Reached, Labelled
  <2> QED  BY <1>2, <2>2
<1>4. CASE Trace
  <2>1. /\ curr \in Stop /\ path \in Seq(Stop) /\ Labelled(curr) /\ curr' = info[curr].parent
        /\ path' = <<curr>> \o path
    BY <1>1, <1>4 DEF Trace, TypeOK, Reached
  <2>2. curr' # -1 => Labelled(curr')
    BY <1>1, <2>1 DEF Reached
  <2>3. path' # << >> /\ \A i \in DOMAIN path' : path'[i] = curr \/ \E j \in DOMAIN path : path'[i] = path[j]
    <3>1. Len(path') = 1 + Len(path) /\ DOMAIN path' = 1..(1 + Len(path)) /\ path'[1] = curr
      BY <2>1
    <3>2. ASSUME NEW i \in DOMAIN path', i # 1
          PROVE  i - 1 \in DOMAIN path /\ path'[i] = path[i - 1]
      BY <2>1, <3>1, <3>2
    <3>3. path' # << >>
      BY <3>1, <2>1
    <3> QED  BY <3>1, <3>2, <3>3
  <2>4. \A i \in DOMAIN path' : Labelled(path'[i])
    BY <1>1, <2>1, <2>3 DEF Reached
  <2>5. best_end_node \in Stop => Labelled(best_end_node)
    BY <1>1 DEF Reached
  <2>6. \A s \in pq : Labelled(s.u)
    BY <1>1 DEF Reached
  <2>7. (todo # {} => Labelled(top.u)) /\ \A v \in Stop : info[v].parent # -1 => Labelled(info[v].parent)
    BY <1>1 DEF Reached
  <2>8. -1 \notin Stop
    BY StopAssumption
  <2>9. Reached'
    BY <1>1, <2>2, <2>3, <2>4, <2>5, <2>6, <2>7, <2>8, Zenon DEF Reached, Labelled
  <2> QED  BY <1>2, <2>9
<1> QED  BY <1>3, <1>4

-----------------------------------------------------------------------------
(* What a search returns.                                                  *)

LEMMA DirectWalkSegments ==
  ASSUME request \in Request, NEW m
  PROVE  DirectWalk \in Seq(SegmentOf(m)) /\ << >> \in Seq(SegmentOf(m))
<1> DEFINE s == Segment(request.origin, request.destination, WALK, 0, "")
<1>1. s \in SegmentOf(m)
  BY RequestType DEF Segment, SegmentOf, Methods, TripRef
<1> HIDE DEF s
<1>2. <<s>> \in Seq(SegmentOf(m))
  BY <1>1
<1>3. << >> \in Seq(SegmentOf(m))
  OBVIOUS
<1> QED  BY <1>2, <1>3, Zenon DEF DirectWalk, s

\* A trip that a stop was reached by is called by a mode of the mask.
LEMMA TripNamed ==
  ASSUME LabelInv, Searching, NEW v \in Stop, Labelled(v)
  PROVE  info[v].trip \in TripRef /\ GetTripMode(info[v].trip) \in Methods(mask)
<1>1. info[v] # Unlabelled
  <2>1. Unlabelled.trip = ""
    BY DEF Unlabelled
  <2> QED  BY <2>1 DEF Labelled
<1>2. Realised(v, StartNodes(request, mask))
  BY <1>1 DEF LabelInv, LabelsRealised, Searching
<1>3. CASE info[v].trip = WALK_TRIP
  BY <1>3 DEF GetTripMode, Methods, TripRef
<1>4. CASE info[v].trip # WALK_TRIP
  <2>1. PICK e \in Edges : e.mode \in mask /\ e.trip = info[v].trip
    BY <1>2, <1>4 DEF Realised, Outgoing
  <2>2. PICK t \in Trip : e.trip = t /\ e.mode = EdgeMode(t)
    BY <1>4, <2>1, EdgeCases DEF RideEdge, WalkEdge
  <2>3. CASE t \in DOMAIN TripMode
    BY <1>4, <2>1, <2>2, <2>3 DEF GetTripMode, EdgeMode, Methods, TripRef
  <2>4. CASE t \notin DOMAIN TripMode
    BY <1>4, <2>1, <2>2, <2>4 DEF GetTripMode, EdgeMode, Methods, TripRef
  <2> QED  BY <2>3, <2>4
<1> QED  BY <1>3, <1>4

LEMMA BetweenTwo ==
  ASSUME NEW S, NEW a \in S, NEW b \in S, NEW n \in Nat, NEW f \in [1..n -> S]
  PROVE  <<a>> \o f \o <<b>> \in Seq(S)
<1>1. <<a>> \in Seq(S) /\ <<b>> \in Seq(S) /\ f \in Seq(S)
  OBVIOUS
<1> QED  BY <1>1

LEMMA RouteSegments ==
  ASSUME LabelInv, Searching, NEW p \in Seq(Stop), p # << >>, \A i \in DOMAIN p : Labelled(p[i])
  PROVE  Segments(p) \in Seq(SegmentOf(mask))
<1> DEFINE n == Cardinality(Breaks(p))
           begin(k) == IF k = 1 THEN 1 ELSE Break(p, k - 1)
           ride(k) == Segment(At[p[begin(k)]], At[p[Break(p, k)]],
                              GetTripMode(info[p[Break(p, k)]].trip),
                              Break(p, k) - begin(k), info[p[Break(p, k)]].trip)
           first == Segment(request.origin, At[p[1]], WALK, 0, WALK_TRIP)
           last == Segment(At[p[Len(p)]], request.destination, WALK, 0, WALK_TRIP)
           rides == [k \in 1..n |-> ride(k)]
<1>1. request.origin \in Point /\ request.destination \in Point /\ At \in [Stop -> Point]
  BY RequestType, PositionAssumption DEF LabelInv, TypeOK
<1>2. Len(p) \in Nat /\ Len(p) # 0 /\ DOMAIN p = 1..Len(p) /\ \A i \in 1..Len(p) : p[i] \in Stop
  OBVIOUS
<1>3. n \in Nat /\ \A k \in 1..n : Break(p, k) \in 2..Len(p)
  BY BreaksFinite
<1>4. first \in SegmentOf(mask) /\ last \in SegmentOf(mask)
  <2>1. At[p[1]] \in Point /\ At[p[Len(p)]] \in Point
    BY <1>1, <1>2
  <2> QED  BY <1>1, <2>1 DEF Segment, SegmentOf, Methods, TripRef
<1>5. ASSUME NEW k \in 1..n PROVE ride(k) \in SegmentOf(mask)
  <2> DEFINE b == Break(p, k)
             a == begin(k)
  <2>1. b \in 2..Len(p)
    BY <1>3
  <2>2. a \in 1..Len(p)
    <3>1. CASE k = 1
      BY <1>2, <3>1
    <3>2. CASE k # 1
      <4>1. k - 1 \in 1..n
        BY <1>3, <3>2
      <4> HIDE DEF n
      <4>2. Break(p, k - 1) \in 2..Len(p)
        BY <1>3, <4>1
      <4> QED  BY <1>2, <3>2, <4>2
    <3> QED  BY <3>1, <3>2
  <2> HIDE DEF a, b
  <2>3. p[a] \in Stop /\ p[b] \in Stop /\ b \in DOMAIN p /\ b - a \in Int
    BY <1>2, <2>1, <2>2
  <2>4. info[p[b]].trip \in TripRef /\ GetTripMode(info[p[b]].trip) \in Methods(mask)
    BY <2>3, TripNamed
  <2>5. At[p[a]] \in Point /\ At[p[b]] \in Point
    BY <1>1, <2>3
  <2>6. Segment(At[p[a]], At[p[b]], GetTripMode(info[p[b]].trip), b - a, info[p[b]].trip) \in SegmentOf(mask)
    BY <2>3, <2>4, <2>5 DEF Segment, SegmentOf
  <2> QED  BY <2>6 DEF a, b
<1> HIDE DEF ride, first, last, n
<1>6. rides \in [1..n -> SegmentOf(mask)]
  BY <1>5
<1> HIDE DEF rides
<1>7. <<first>> \o rides \o <<last>> \in Seq(SegmentOf(mask))
  BY <1>3, <1>4, <1>6, BetweenTwo
<1> QED  BY <1>7 DEF Segments, ride, first, last, n, rides

\* A sound result appended keeps the invariant.
LEMMA ReturnKeeps ==
  ASSUME OptionInv, pc # "done", request' = request, NEW total \in Nat, NEW segments \in Seq(SegmentOf(mask)),
         total < INF => (total = 0 <=> H = 0), Return(total, segments)
  PROVE  Reached' /\ Timed' /\ Answers'
<1> DEFINE r == [type |-> Call.type, total |-> total, segments |-> segments]
           n == Len(results)
<1>1. /\ results \in Seq({results[k] : k \in 1..n}) /\ n \in Nat /\ n < 4
      /\ \A k \in 1..n : Sound(k, results[k])
  BY FourSearches DEF OptionInv, LabelInv, TypeOK, Answers
<1>2. /\ results' = Append(results, r)
      /\ pc' = IF Len(results') = 4 THEN "done" ELSE "call"
      /\ pq' = {} /\ todo' = {} /\ best_end_node' = -1 /\ path' = << >> /\ curr' = -1
      /\ info' = [v \in Stop |-> Unlabelled]
  BY FourSearches DEF Return
<1>3. \A v \in Stop : info'[v].parent = -1
  <2>1. Unlabelled.parent = -1
    BY DEF Unlabelled
  <2> QED  BY <1>2, <2>1
<1>4. Reached'
  <2>1. -1 \notin Stop /\ DOMAIN << >> = {}
    BY StopAssumption
  <2> QED  BY <1>2, <1>3, <2>1 DEF Reached
<1>5. Timed'
  BY <1>2 DEF Timed, Searching
<1>6. Sound(n + 1, r)
  <2>1. Call = Searches[n + 1] /\ mask = Searches[n + 1].mask
    BY DEF Call, mask
  <2> QED  BY <2>1 DEF Sound, Found
<1> HIDE DEF r
<1>7. /\ Len(results') = n + 1 /\ results'[n + 1] = r
      /\ \A k \in 1..n : results'[k] = results[k]
  BY <1>1, <1>2
<1>8. \A k \in 1..(n + 1) : Sound(k, results'[k])
  <2> HIDE DEF n
  <2> QED  BY <1>1, <1>6, <1>7
<1>9. \A k, x : Sound(k, x)' <=> Sound(k, x)
  BY DEF Sound, H
<1>10. Answers'
  BY <1>2, <1>7, <1>8, <1>9 DEF Answers
<1> QED  BY <1>4, <1>5, <1>10

LEMMA FinishKeeps ==
  ASSUME OptionInv, NoCandidates \/ FinishWithoutStops \/ FinishWithRoute
  PROVE  Reached' /\ Timed' /\ Answers'
<1>1. TypeOK /\ LabelInv /\ Timed /\ Reached /\ request \in Request /\ best_total \in Nat
  BY DEF OptionInv, LabelInv, TypeOK
<1>2. DirectWalk \in Seq(SegmentOf(mask)) /\ << >> \in Seq(SegmentOf(mask))
  BY <1>1, DirectWalkSegments
<1>3. H \in Nat /\ WalkTime(request.origin, request.destination) = H * 143 /\ H * 143 \in Nat
  BY <1>1, DistanceBetween
<1>8. ~(INF < INF) /\ INF \in Nat
  BY InfAssumption
<1>4. Searching /\ best_total < INF => (best_total = 0 <=> H = 0)
  BY <1>1, InfAssumption DEF Timed
<1>5. CASE NoCandidates
  <2>1. pc # "done" /\ request' = request
    BY <1>5 DEF NoCandidates
  <2>2. CASE Return(H * 143, DirectWalk)
    BY <1>2, <1>3, <2>1, <2>2, ReturnKeeps
  <2>3. CASE Return(INF, << >>)
    BY <1>2, <1>8, <2>1, <2>3, ReturnKeeps, Zenon
  <2> QED  BY <1>3, <1>5, <2>2, <2>3 DEF NoCandidates
<1>6. CASE FinishWithoutStops
  <2>1. pc # "done" /\ request' = request /\ Searching
    BY <1>6 DEF FinishWithoutStops, SearchOver, Searching
  <2>2. CASE Return(best_total, DirectWalk)
    BY <1>1, <1>2, <1>4, <2>1, <2>2, ReturnKeeps
  <2>3. CASE Return(INF, << >>)
    BY <1>2, <1>8, <2>1, <2>3, ReturnKeeps, Zenon
  <2> QED  BY <1>6, <2>2, <2>3 DEF FinishWithoutStops
<1>7. CASE FinishWithRoute
  <2>1. pc # "done" /\ request' = request /\ Searching /\ Return(best_total, Segments(path))
    BY <1>7 DEF FinishWithRoute, Searching
  <2>2. path \in Seq(Stop) /\ path # << >> /\ \A i \in DOMAIN path : Labelled(path[i])
    BY <1>1, <1>7 DEF FinishWithRoute, TypeOK, Reached
  <2>3. Segments(path) \in Seq(SegmentOf(mask))
    BY <1>1, <2>1, <2>2, RouteSegments
  <2> QED  BY <1>1, <1>4, <2>1, <2>3, ReturnKeeps
<1> QED  BY <1>5, <1>6, <1>7

-----------------------------------------------------------------------------
(* The invariant.                                                          *)

LEMMA AnswersStay ==
  ASSUME Answers, request' = request, results' = results, pc # "done", pc' # "done" \/ pc' = pc
  PROVE  Answers'
<1>1. \A k, x : Sound(k, x)' <=> Sound(k, x)
  BY DEF Sound, H
<1> QED  BY <1>1 DEF Answers

LEMMA OptionInitial == Init => OptionInv
<1> SUFFICES ASSUME Init PROVE OptionInv
  OBVIOUS
<1>1. LabelInv
  BY InitInv
<1>2. \A v \in Stop : info[v].parent = -1
  <2>1. Unlabelled.parent = -1
    BY DEF Unlabelled
  <2> QED  BY <2>1 DEF Init
<1>3. Reached
  <2>1. -1 \notin Stop /\ DOMAIN << >> = {}
    BY StopAssumption
  <2> QED  BY <1>2, <2>1 DEF Init, Reached
<1>4. Timed /\ Answers
  BY DEF Init, Timed, Searching, Answers
<1> QED  BY <1>1, <1>3, <1>4 DEF OptionInv

LEMMA OptionStep == OptionInv /\ [Next]_vars => OptionInv'
<1> SUFFICES ASSUME OptionInv, [Next]_vars PROVE OptionInv'
  OBVIOUS
<1>1. LabelInv'
  BY NextInv DEF OptionInv
<1>2. Answers
  BY DEF OptionInv
<1>3. CASE NoCandidates \/ FinishWithoutStops \/ FinishWithRoute
  BY <1>1, <1>3, FinishKeeps DEF OptionInv
<1>4. CASE StartSearch
  <2>1. Answers'
    BY <1>2, <1>4, AnswersStay DEF StartSearch
  <2> QED  BY <1>1, <1>4, <2>1, StartSearchKeeps DEF OptionInv
<1>5. CASE PopDiscarded
  <2>1. Answers'
    BY <1>2, <1>5, AnswersStay DEF PopDiscarded
  <2>2. Reached' /\ Timed'
    BY <1>5, DropKeeps DEF PopDiscarded, trace
  <2> QED  BY <1>1, <2>1, <2>2 DEF OptionInv
<1>6. ASSUME NEW s \in pq, Expand(s) PROVE OptionInv'
  <2>1. Answers'
    BY <1>2, <1>6, AnswersStay DEF Expand
  <2> QED  BY <1>1, <1>6, <2>1, ExpandKeeps DEF OptionInv
<1>7. ASSUME NEW e \in todo, Relax(e) PROVE OptionInv'
  <2>1. Answers'
    BY <1>2, <1>7, AnswersStay DEF Relax
  <2> QED  BY <1>1, <1>7, <2>1, RelaxKeeps DEF OptionInv
<1>8. ASSUME NEW e \in todo, Pass(e) PROVE OptionInv'
  <2>1. Answers'
    BY <1>2, <1>8, AnswersStay DEF Pass
  <2>2. Reached' /\ Timed'
    BY <1>8, DropKeeps DEF Pass, trace
  <2> QED  BY <1>1, <2>1, <2>2 DEF OptionInv
<1>9. CASE BeginTrace \/ Trace
  <2>1. Answers'
    BY <1>2, <1>9, AnswersStay DEF BeginTrace, Trace, SearchOver
  <2> QED  BY <1>1, <1>9, <2>1, TraceKeeps DEF OptionInv
<1>10. CASE UNCHANGED vars
  <2>1. Reached' /\ Timed'
    BY <1>10, DropKeeps DEF vars, search, trace
  <2>2. Answers'
    <3>1. \A k, x : Sound(k, x)' <=> Sound(k, x)
      BY <1>10 DEF Sound, H, vars
    <3> QED  BY <1>2, <1>10, <3>1 DEF Answers, vars
  <2> QED  BY <1>1, <2>1, <2>2 DEF OptionInv
<1> QED
  BY <1>3, <1>4, <1>5, <1>6, <1>7, <1>8, <1>9, <1>10 DEF Next

\* The inductive invariant holds of every reachable state.
THEOREM OptionInvariant == Spec => []OptionInv
BY OptionInitial, OptionStep, PTL DEF Spec

-----------------------------------------------------------------------------
(* Ranks.                                                                  *)

LEMMA MetroFareType == ASSUME NEW n PROVE MetroFareByStops(n) \in Nat
<1> DEFINE enough == {k \in DOMAIN METRO_TIERS : n <= METRO_TIERS[k][1]}
<1>1. /\ Len(METRO_TIERS) \in DOMAIN METRO_TIERS
      /\ \A k \in DOMAIN METRO_TIERS : k \in Nat /\ METRO_TIERS[k][2] \in Nat
  <2>1. METRO_TIERS \in Seq(Nat \X Nat) /\ METRO_TIERS # << >>
    BY FareAssumption
  <2>2. \A k \in DOMAIN METRO_TIERS : k \in Nat /\ METRO_TIERS[k] \in Nat \X Nat
    BY <2>1
  <2>3. Len(METRO_TIERS) \in DOMAIN METRO_TIERS
    BY <2>1
  <2> QED  BY <2>2, <2>3
<1>2. enough \subseteq DOMAIN METRO_TIERS /\ enough \subseteq Nat
  BY <1>1
<1> HIDE DEF enough
<1>3. enough # {} => Min(enough) \in enough
  BY <1>2, LeastIsMember
<1>4. (IF enough = {} THEN Len(METRO_TIERS) ELSE Min(enough)) \in DOMAIN METRO_TIERS
  BY <1>1, <1>2, <1>3, Zenon
<1>5. METRO_TIERS[IF enough = {} THEN Len(METRO_TIERS) ELSE Min(enough)][2] \in Nat
  BY <1>1, <1>4, Zenon
<1> QED  BY <1>5, Zenon DEF MetroFareByStops, enough

LEMMA RidesCounted ==
  ASSUME NEW S, NEW r, r.segments \in Seq(S), NEW methods
  PROVE  Cardinality(Rides(r, methods)) \in Nat
<1>1. DOMAIN r.segments = 1..Len(r.segments) /\ Len(r.segments) \in Nat
  OBVIOUS
<1>2. Rides(r, methods) \in SUBSET (1..Len(r.segments))
  BY <1>1 DEF Rides, Shown
<1>3. IsFiniteSet(1..Len(r.segments))
  BY <1>1, FS_Interval
<1>4. IsFiniteSet(Rides(r, methods))
  BY <1>2, <1>3, FS_Subset
<1> QED  BY <1>4, FS_CardinalityType

LEMMA FareType ==
  ASSUME NEW S, NEW r, r.segments \in Seq(S)
  PROVE  EstimatedFare(r) \in Nat
<1> DEFINE metro == IF MetroStops(r) > 0 THEN MetroFareByStops(MetroStops(r)) ELSE 0
           buses == Cardinality(Rides(r, {BUS}))
           microbuses == Cardinality(Rides(r, {MICROBUS}))
<1>1. metro \in Nat
  BY MetroFareType
<1>2. buses \in Nat /\ microbuses \in Nat
  BY RidesCounted
<1> HIDE DEF metro, buses, microbuses
<1>3. metro + buses * BUS_FARE + microbuses * MICROBUS_FARE \in Nat
  BY <1>1, <1>2, FareAssumption
<1> QED  BY <1>3, Zenon DEF EstimatedFare, metro, buses, microbuses

LEMMA OptionsFound ==
  ASSUME OptionInv, pc = "done"
  PROVE  /\ Len(results) = 4 /\ DOMAIN results = 1..4 /\ FoundOptions \subseteq 1..4
         /\ \A k \in FoundOptions : Sound(k, results[k]) /\ Found(results[k])
<1>1. results \in Seq({results[k] : k \in 1..Len(results)}) /\ Len(results) = 4
  BY DEF OptionInv, LabelInv, TypeOK, Answers
<1>2. DOMAIN results = 1..4
  BY <1>1
<1> QED  BY <1>1, <1>2 DEF FoundOptions, OptionInv, Answers

\* A time rounded to seconds is off by half a second at most, and only for
\* no time it is zero.
LEMMA Rounding ==
  ASSUME NEW t \in Nat
  PROVE  /\ toIntSeconds(t) \in Nat /\ (toIntSeconds(t) = 0 <=> t = 0)
         /\ t <= 2 * toIntSeconds(t) /\ 2 * toIntSeconds(t) <= t + 1
<1>1. toIntSeconds(t) = (t + 1) \div 2
  BY DEF toIntSeconds
<1> DEFINE q == (t + 1) \div 2
<1>2. q \in Nat /\ 2 * q <= t + 1 /\ t + 1 < 2 * q + 2
  OBVIOUS
<1> HIDE DEF q
<1>3. (q = 0 <=> t = 0) /\ t <= 2 * q
  BY <1>2
<1> QED  BY <1>1, <1>2, <1>3 DEF q

RankFilter == Filter \ ModeFilter

LEMMA RankType ==
  ASSUME OptionInv, pc = "done", NEW k \in FoundOptions, NEW filter \in RankFilter
  PROVE  RankOf(filter, results[k]) \in Nat \X Nat
<1> DEFINE r == results[k]
<1>1. r.total \in Nat /\ r.segments \in Seq(SegmentOf(Searches[k].mask))
  BY OptionsFound DEF Sound
<1> HIDE DEF r
<1>2. EstimatedFare(r) \in Nat
  BY <1>1, FareType
<1>3. TransportSegments(r) \in Nat
  BY <1>1, RidesCounted DEF TransportSegments
<1>4. OrMissing(TotalDuration(r)) \in Nat /\ OrMissing(TransportSegments(r)) \in Nat
  <2>1. TotalDuration(r) \in Nat
    BY <1>1, Rounding DEF TotalDuration
  <2> QED  BY <1>3, <2>1 DEF OrMissing, MISSING
<1>5. filter = "fastest" \/ filter = "cheapest" \/ filter = "optimal"
  BY DEF RankFilter, Filter, Option, ModeFilter
<1>6. RankOf(filter, r) \in Nat \X Nat
  BY <1>2, <1>4, <1>5 DEF RankOf
<1> QED  BY <1>6 DEF r

\* A filter that ranks gets the first of the best options found.
LEMMA SelectionRanked ==
  ASSUME OptionInv, pc = "done", NEW filter \in RankFilter
  PROVE  LET rank(k) == RankOf(filter, results[k])
             Best(k) == \A o \in FoundOptions : ~Precedes(rank(o), rank(k))
         IN  IF FoundOptions = {} THEN SelectRoute(filter) = 0
             ELSE /\ SelectRoute(filter) \in FoundOptions /\ Best(SelectRoute(filter))
                  /\ \A k \in FoundOptions : Best(k) => SelectRoute(filter) <= k
<1> DEFINE rank(k) == RankOf(filter, results[k])
           best == {k \in FoundOptions : \A o \in FoundOptions : ~Precedes(rank(o), rank(k))}
           f == [k \in FoundOptions |-> rank(k)]
<1>1. SelectRoute(filter) = IF best = {} THEN 0 ELSE Min(best)
  BY Zenon DEF SelectRoute, RankFilter
<1>2. f \in [FoundOptions -> Nat \X Nat]
  BY RankType
<1>3. \A k \in FoundOptions : f[k] = rank(k)
  OBVIOUS
<1> HIDE DEF f, rank
<1>4. FoundOptions \subseteq Nat
  BY OptionsFound
<1>5. best \subseteq FoundOptions /\ best \subseteq Nat
  BY <1>4
<1>6. ASSUME FoundOptions # {} PROVE best # {}
  <2>1. PICK k \in FoundOptions : \A o \in FoundOptions : ~Precedes(f[o], f[k])
    BY <1>2, <1>6, LeastRank, Zenon
  <2>2. k \in best
    BY <1>3, <2>1, Zenon
  <2> QED  BY <2>2
<1>7. best # {} => Min(best) \in best /\ \A k \in best : Min(best) <= k
  <2> HIDE DEF best
  <2> QED  BY <1>5, LeastIsMember
<1> QED  BY <1>1, <1>5, <1>6, <1>7, Zenon DEF rank

-----------------------------------------------------------------------------
(* What follows.                                                           *)

\* In every reachable state the results returned so far have the types the
\* four searches were called for, and their segments lie on points and are
\* called by modes their masks allow.
\* (FindAllRoutes, FindPath)
ResultsTyped ==
  \A k \in 1..Len(results) :
    /\ results[k].type = Searches[k].type /\ results[k].total \in Nat
    /\ results[k].segments \in Seq(SegmentOf(Searches[k].mask))

THEOREM ResultsStayTyped == Spec => []ResultsTyped
<1>1. OptionInv => ResultsTyped
  BY DEF OptionInv, Answers, Sound, ResultsTyped
<1> QED  BY <1>1, OptionInvariant, PTL

LEMMA SegmentCalled ==
  ASSUME NEW m, NEW q \in Seq(SegmentOf(m)), NEW k \in DOMAIN q
  PROVE  q[k].method \in Methods(m)
<1>1. q[k] \in SegmentOf(m)
  OBVIOUS
<1> QED  BY <1>1 DEF SegmentOf

LEMMA FilterFollows == OptionInv => FilterHonoured
<1> SUFFICES ASSUME OptionInv, pc = "done", NEW filter \in Filter
             PROVE  LET eligible == Eligible({results[k].type : k \in FoundOptions}, filter) IN
                    IF SelectRoute(filter) = 0 THEN eligible = {}
                    ELSE LET r == Selected(filter) IN
                         /\ r.type \in eligible
                         /\ filter \in ModeFilter =>
                              \A k \in DOMAIN r.segments :
                                r.segments[k].method \in {WALK, ModeOf(filter)}
                                   \cup (IF filter = "bus_only" THEN {"unknown"} ELSE {})
  BY DEF FilterHonoured
<1> DEFINE eligible == Eligible({results[k].type : k \in FoundOptions}, filter)
           r == Selected(filter)
<1>1. FoundOptions \subseteq 1..4 /\ FoundOptions \subseteq Nat /\ 0 \notin FoundOptions
  <2>1. FoundOptions \subseteq 1..4
    BY OptionsFound
  <2> QED  BY <2>1
<1>2. CASE filter \in ModeFilter
  <2> DEFINE ofType == {k \in FoundOptions : results[k].type = filter}
  <2>1. SelectRoute(filter) = IF ofType = {} THEN 0 ELSE Min(ofType)
    BY <1>2, Zenon DEF SelectRoute
  <2>2. eligible = {results[k].type : k \in FoundOptions} \cap {filter}
    BY <1>2 DEF Eligible
  <2>3. CASE ofType = {}
    <3>1. eligible = {}
      BY <2>2, <2>3
    <3> QED  BY <2>1, <2>3, <3>1
  <2>4. CASE ofType # {}
    <3>1. ofType \subseteq Nat
      BY <1>1, Zenon
    <3>2. Min(ofType) \in ofType
      <4> HIDE DEF ofType
      <4> QED  BY <2>4, <3>1, LeastIsMember
    <3> DEFINE s == SelectRoute(filter)
    <3>3. s \in FoundOptions /\ results[s].type = filter
      BY <2>1, <2>4, <3>2, Zenon
    <3> HIDE DEF s
    <3>4. s # 0 /\ s \in 1..4
      BY <1>1, <3>3
    <3>5. Sound(s, results[s])
      BY <3>3, OptionsFound
    <3>6. results[s].type \in eligible
      BY <2>2, <3>3
    <3>7. Searches[s].type = filter
      BY <3>3, <3>5 DEF Sound
    <3>8. Methods(Searches[s].mask) = {WALK, ModeOf(filter)}
                                        \cup (IF filter = "bus_only" THEN {"unknown"} ELSE {})
      BY <1>2, <3>4, <3>7, ModesDiffer DEF Searches, Methods, ModeOf, ModeFilter
    <3>9. results[s].segments \in Seq(SegmentOf(Searches[s].mask))
      BY <3>5 DEF Sound
    <3>10. \A k \in DOMAIN results[s].segments :
             results[s].segments[k].method \in Methods(Searches[s].mask)
      BY <3>9, SegmentCalled, Zenon
    <3>11. r = results[s]
      BY DEF Selected, s
    <3> QED  BY <3>4, <3>6, <3>8, <3>10, <3>11, Zenon DEF s
  <2> QED  BY <2>3, <2>4
<1>3. CASE filter \notin ModeFilter
  <2>1. filter \in RankFilter
    BY <1>3 DEF RankFilter
  <2>2. eligible = {results[k].type : k \in FoundOptions}
    BY <1>3 DEF Eligible
  <2>3. CASE FoundOptions = {}
    <3>1. SelectRoute(filter) = 0
      BY <2>1, <2>3, SelectionRanked, Zenon
    <3> QED  BY <2>2, <2>3, <3>1
  <2>4. CASE FoundOptions # {}
    <3>1. SelectRoute(filter) \in FoundOptions
      BY <2>1, <2>4, SelectionRanked, Zenon
    <3>2. SelectRoute(filter) # 0 /\ r.type \in eligible
      BY <1>1, <2>2, <3>1 DEF Selected
    <3> QED  BY <1>3, <3>2
  <2> QED  BY <2>3, <2>4
<1> QED  BY <1>2, <1>3

\* For every network and request: the option a filter is answered by is one
\* it allows, rides no other mode than the filter names, and is missing only
\* when no option found is eligible.
\* (the masks of FindAllRoutes, getTripMode and _select_route)
THEOREM FiltersHonoured == Spec => []FilterHonoured
BY FilterFollows, OptionInvariant, PTL

\* Two options found both take time, or neither does, so that taking a zero
\* for a missing number changes nothing between them.
LEMMA DurationsRank ==
  ASSUME OptionInv, pc = "done", NEW j \in FoundOptions, NEW k \in FoundOptions
  PROVE  /\ TotalDuration(results[j]) \in Nat /\ TotalDuration(results[k]) \in Nat
         /\ OrMissing(TotalDuration(results[j])) < OrMissing(TotalDuration(results[k]))
              <=> TotalDuration(results[j]) < TotalDuration(results[k])
         /\ OrMissing(TotalDuration(results[j])) = OrMissing(TotalDuration(results[k]))
              <=> TotalDuration(results[j]) = TotalDuration(results[k])
<1>1. /\ TotalDuration(results[j]) \in Nat /\ TotalDuration(results[k]) \in Nat
      /\ TotalDuration(results[j]) = 0 <=> TotalDuration(results[k]) = 0
  BY OptionsFound, Rounding DEF Sound, TotalDuration
<1>2. CASE TotalDuration(results[j]) = 0
  BY <1>1, <1>2 DEF OrMissing, MISSING
<1>3. CASE TotalDuration(results[j]) # 0
  <2>1. OrMissing(TotalDuration(results[j])) = TotalDuration(results[j]) /\ OrMissing(TotalDuration(results[k])) = TotalDuration(results[k])
    BY <1>1, <1>3, Zenon DEF OrMissing
  <2> QED  BY <1>1, <2>1
<1> QED  BY <1>2, <1>3

LEMMA ChoiceFollows == OptionInv => ChoiceIsBest
<1> SUFFICES ASSUME OptionInv, pc = "done", NEW k \in FoundOptions
             PROVE  /\ TotalDuration(Selected("fastest")) <= TotalDuration(results[k])
                    /\ ~Precedes(<< EstimatedFare(results[k]), TotalDuration(results[k]) >>,
                                  << EstimatedFare(Selected("cheapest")), TotalDuration(Selected("cheapest")) >>)
  BY DEF ChoiceIsBest
<1>1. "fastest" \in RankFilter /\ "cheapest" \in RankFilter
  BY DEF RankFilter, Filter, Option, ModeFilter
<1>2. TotalDuration(Selected("fastest")) <= TotalDuration(results[k])
  <2> DEFINE s == SelectRoute("fastest")
  <2>1. s \in FoundOptions /\ ~Precedes(RankOf("fastest", results[k]), RankOf("fastest", results[s]))
    BY <1>1, SelectionRanked, Zenon
  <2> HIDE DEF s
  <2>2. ~(OrMissing(TotalDuration(results[k])) < OrMissing(TotalDuration(results[s])))
    BY <2>1 DEF RankOf, Precedes
  <2>3. TotalDuration(results[s]) <= TotalDuration(results[k])
    BY <2>1, <2>2, DurationsRank
  <2> QED  BY <2>3 DEF Selected, s
<1>3. ~Precedes(<< EstimatedFare(results[k]), TotalDuration(results[k]) >>,
                << EstimatedFare(Selected("cheapest")), TotalDuration(Selected("cheapest")) >>)
  <2> DEFINE s == SelectRoute("cheapest")
  <2>1. s \in FoundOptions /\ ~Precedes(RankOf("cheapest", results[k]), RankOf("cheapest", results[s]))
    BY <1>1, SelectionRanked, Zenon
  <2> HIDE DEF s
  <2>2. ~Precedes(<< EstimatedFare(results[k]), OrMissing(TotalDuration(results[k])) >>,
                  << EstimatedFare(results[s]), OrMissing(TotalDuration(results[s])) >>)
    BY <2>1 DEF RankOf
  <2>3. OrMissing(TotalDuration(results[k])) < OrMissing(TotalDuration(results[s]))
          <=> TotalDuration(results[k]) < TotalDuration(results[s])
    BY <2>1, DurationsRank
  <2>4. ~Precedes(<< EstimatedFare(results[k]), TotalDuration(results[k]) >>,
                  << EstimatedFare(results[s]), TotalDuration(results[s]) >>)
    BY <2>2, <2>3 DEF Precedes
  <2> QED  BY <2>4 DEF Selected, s
<1> QED  BY <1>2, <1>3

\* For every network, request and fare: no option found is faster than the
\* one "fastest" is answered by, nor cheaper, or as cheap and faster, than the
\* one of "cheapest", although _select_route takes zeros for missing numbers.
\* (_select_route)
THEOREM ChoicesAreBest == Spec => []ChoiceIsBest
BY ChoiceFollows, OptionInvariant, PTL

\* What "optimal" promises nevertheless: among the options found that ride at
\* all, none has fewer rides than the one selected, or as many and less time.
OptimalAmongRides ==
  pc = "done" =>
    \A k \in FoundOptions :
      TransportSegments(results[k]) # 0 =>
        ~Precedes(<< TransportSegments(results[k]), TotalDuration(results[k]) >>,
                  << TransportSegments(Selected("optimal")), TotalDuration(Selected("optimal")) >>)

LEMMA OptimalFollows == OptionInv => OptimalAmongRides
<1> SUFFICES ASSUME OptionInv, pc = "done", NEW k \in FoundOptions,
                    TransportSegments(results[k]) # 0
             PROVE  ~Precedes(<< TransportSegments(results[k]), TotalDuration(results[k]) >>,
                              << TransportSegments(Selected("optimal")), TotalDuration(Selected("optimal")) >>)
  BY DEF OptimalAmongRides
<1> DEFINE s == SelectRoute("optimal")
           n(j) == TransportSegments(results[j])
<1>1. "optimal" \in RankFilter
  BY DEF RankFilter, Filter, Option, ModeFilter
<1>2. s \in FoundOptions /\ ~Precedes(RankOf("optimal", results[k]), RankOf("optimal", results[s]))
  BY <1>1, SelectionRanked, Zenon
<1>3. \A j \in FoundOptions : n(j) \in Nat
  BY OptionsFound, RidesCounted DEF Sound, TransportSegments
<1> HIDE DEF s, n
<1>4. ~Precedes(<< OrMissing(n(k)), OrMissing(TotalDuration(results[k])) >>,
                << OrMissing(n(s)), OrMissing(TotalDuration(results[s])) >>)
  BY <1>2 DEF RankOf, n
<1>5. OrMissing(n(k)) = n(k) /\ n(k) \in Nat
  BY <1>3 DEF OrMissing, n
<1>6. n(s) \in Nat /\ OrMissing(n(s)) = IF n(s) = 0 THEN MISSING ELSE n(s)
  BY <1>2, <1>3 DEF OrMissing
<1>7. OrMissing(TotalDuration(results[k])) < OrMissing(TotalDuration(results[s]))
        <=> TotalDuration(results[k]) < TotalDuration(results[s])
  BY <1>2, DurationsRank
<1>8. ~Precedes(<< n(k), TotalDuration(results[k]) >>, << n(s), TotalDuration(results[s]) >>)
  BY <1>4, <1>5, <1>6, <1>7 DEF Precedes, MISSING
<1> QED  BY <1>8 DEF Selected, s, n

\* For every network and request the answer of "optimal" is beaten, in rides
\* or in time for as many rides, by no option that has a ride: what may be
\* better than it on every count, as a run shows, is only a trip on foot,
\* whose zero rides _select_route takes for a missing number.
\* (_select_route)
THEOREM OptimalIsBestRide == Spec => []OptimalAmongRides
BY OptimalFollows, OptionInvariant, PTL

LEMMA FastestFollows == OptionInv => FastestLeads
<1> SUFFICES ASSUME OptionInv, pc = "done"
             PROVE  IF FoundOptions = {} THEN SelectRoute("fastest") = 0
                    ELSE Alternatives[1] = SelectRoute("fastest")
  BY DEF FastestLeads
<1> DEFINE s == SelectRoute("fastest")
           rank(k) == RankOf("fastest", results[k])
           ahead(k) == {j \in FoundOptions : Before(j, k)}
<1>1. "fastest" \in RankFilter
  BY DEF RankFilter, Filter, Option, ModeFilter
<1>2. CASE FoundOptions = {}
  BY <1>1, <1>2, SelectionRanked, Zenon
<1>3. CASE FoundOptions # {}
  <2>1. /\ s \in FoundOptions /\ \A o \in FoundOptions : ~Precedes(rank(o), rank(s))
        /\ \A k \in FoundOptions : (\A o \in FoundOptions : ~Precedes(rank(o), rank(k))) => s <= k
    BY <1>1, <1>3, SelectionRanked, Zenon
  <2>2. \A j, k \in FoundOptions : ~Precedes(rank(j), rank(k)) <=> TotalDuration(results[k]) <= TotalDuration(results[j])
    <3> SUFFICES ASSUME NEW j \in FoundOptions, NEW k \in FoundOptions
                 PROVE  ~Precedes(rank(j), rank(k)) <=> TotalDuration(results[k]) <= TotalDuration(results[j])
      OBVIOUS
    <3>1. rank(j) = << OrMissing(TotalDuration(results[j])), 0 >> /\ rank(k) = << OrMissing(TotalDuration(results[k])), 0 >>
      BY DEF RankOf
    <3> HIDE DEF rank
    <3>2. ~Precedes(rank(j), rank(k)) <=> ~(OrMissing(TotalDuration(results[j])) < OrMissing(TotalDuration(results[k])))
      BY <3>1 DEF Precedes
    <3> QED  BY <3>2, DurationsRank
  <2> HIDE DEF s, rank
  <2>3. \A k \in FoundOptions : k \in 1..4 /\ TotalDuration(results[k]) \in Nat
    BY DurationsRank, OptionsFound
  <2>4. ahead(s) = {}
    <3> SUFFICES ASSUME NEW j \in FoundOptions, Before(j, s) PROVE FALSE
      BY Zenon
    <3>1. TotalDuration(results[s]) <= TotalDuration(results[j])
      BY <2>1, <2>2
    <3>2. TotalDuration(results[j]) = TotalDuration(results[s]) /\ j < s
      BY <2>1, <2>3, <3>1 DEF Before
    <3>3. \A o \in FoundOptions : TotalDuration(results[j]) <= TotalDuration(results[o])
      BY <2>1, <2>2, <3>2
    <3>4. s <= j
      BY <2>1, <2>2, <3>3
    <3> QED  BY <2>1, <2>3, <3>2, <3>4
  <2>5. ASSUME NEW k \in FoundOptions, ahead(k) = {} PROVE k = s
    <3>1. ~Before(s, k)
      BY <2>1, <2>5
    <3>2. ~Before(k, s)
      BY <2>4, <2>5
    <3> QED  BY <2>1, <2>3, <3>1, <3>2 DEF Before
  <2>6. \A T \in SUBSET FoundOptions : IsFiniteSet(T) /\ (Cardinality(T) = 0 <=> T = {})
                                         /\ Cardinality(T) \in Nat
    <3> SUFFICES ASSUME NEW T \in SUBSET FoundOptions
                 PROVE  IsFiniteSet(T) /\ (Cardinality(T) = 0 <=> T = {}) /\ Cardinality(T) \in Nat
      OBVIOUS
    <3>1. T \in SUBSET (1..4)
      BY <2>3, Zenon
    <3>2. 1 \in Int /\ 4 \in Int
      OBVIOUS
    <3>3. IsFiniteSet(1..4)
      BY <3>2, FS_Interval, Zenon
    <3>4. IsFiniteSet(T)
      BY <3>1, <3>3, FS_Subset
    <3> QED  BY <3>4, FS_EmptySet, FS_CardinalityType
  <2>7. 1 \in 1..Cardinality(FoundOptions)
    <3>1. Cardinality(FoundOptions) \in Nat /\ Cardinality(FoundOptions) # 0
      BY <1>3, <2>6
    <3> QED  BY <3>1
  <2>8. \A k \in FoundOptions : Cardinality(ahead(k)) = 0 <=> k = s
    <3>1. \A k \in FoundOptions : Cardinality(ahead(k)) = 0 <=> ahead(k) = {}
      <4> SUFFICES ASSUME NEW k \in FoundOptions PROVE Cardinality(ahead(k)) = 0 <=> ahead(k) = {}
        OBVIOUS
      <4>1. ahead(k) \in SUBSET FoundOptions
        OBVIOUS
      <4> HIDE DEF ahead
      <4> QED  BY <2>6, <4>1
    <3> HIDE DEF ahead
    <3> QED  BY <3>1, <2>4, <2>5
  <2>9. Alternatives[1] = CHOOSE k \in FoundOptions : Cardinality(ahead(k)) = 1 - 1
    BY <2>7, Zenon DEF Alternatives
  <2> DEFINE P(k) == Cardinality(ahead(k)) = 1 - 1
  <2>10. \A k \in FoundOptions : P(k) <=> k = s
    BY <2>8
  <2> HIDE DEF P
  <2>11. (CHOOSE k \in FoundOptions : P(k)) = s
    BY <2>1, <2>10, Zenon
  <2> QED  BY <1>3, <2>9, <2>11, Zenon DEF P, s
<1> QED  BY <1>2, <1>3

\* For every network and request the alternatives view lists first the very
\* option that "fastest" selects.
\* (RouteAlternativesView.post and _select_route)
THEOREM FastestLeadsAlways == Spec => []FastestLeads
BY FastestFollows, OptionInvariant, PTL

=============================================================================
