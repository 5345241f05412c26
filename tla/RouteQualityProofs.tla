------------------------- MODULE RouteQualityProofs -------------------------
(***************************************************************************)
(* What the results of the searches are worth, for every network, every    *)
(* request and every order of ties.                                        *)
(***************************************************************************)
EXTENDS RouteQuality, RouteDrawing, RouteSelectionProofs, FiniteSums

-----------------------------------------------------------------------------
(* Induction over the natural numbers, in the form of sets.                *)

\* A set of naturals with zero and the successor of each is the set of all.
LEMMA AllNaturals ==
  ASSUME NEW S, 0 \in S, \A n \in Nat : n \in S => n + 1 \in S
  PROVE  \A n \in Nat : n \in S
<1> DEFINE missing == Nat \ S
<1> SUFFICES ASSUME missing # {} PROVE FALSE
  OBVIOUS
<1>1. missing \subseteq Nat
  OBVIOUS
<1> HIDE DEF missing
<1>2. PICK n \in missing : \A k \in missing : n <= k
  BY <1>1, LeastIsMember
<1>3. n \in Nat /\ n # 0 /\ n \notin S
  BY <1>2 DEF missing
<1>4. n - 1 \in Nat /\ n - 1 \in S
  BY <1>2, <1>3 DEF missing
<1>5. (n - 1) + 1 \in S
  BY <1>4
<1> QED  BY <1>3, <1>5

\* Nothing is in a set each of whose members has a lesser one.
LEMMA NoDescent ==
  ASSUME NEW S, NEW f, \A x \in S : f[x] \in Nat, \A x \in S : \E y \in S : f[y] < f[x]
  PROVE  S = {}
<1> DEFINE values == {f[x] : x \in S}
<1> SUFFICES ASSUME S # {} PROVE FALSE
  OBVIOUS
<1>1. values \subseteq Nat /\ values # {}
  OBVIOUS
<1>2. PICK n \in values : \A k \in values : n <= k
  <2> HIDE DEF values
  <2> QED  BY <1>1, LeastIsMember
<1>3. PICK x \in S : f[x] = n
  OBVIOUS
<1>4. PICK y \in S : f[y] < n
  BY <1>3
<1>5. f[y] \in values /\ f[y] \in Nat /\ n \in Nat
  BY <1>3
<1> HIDE DEF values
<1>6. n <= f[y]
  BY <1>2, <1>5
<1> QED  BY <1>4, <1>5, <1>6

-----------------------------------------------------------------------------
(* The labels after n rounds.                                              *)

\* What holds of the rounds, h giving the labels after each up to the n-th.
Rounds(r, m, always, n, h) ==
  /\ h[0] = Starts(r, m)
  /\ \A k \in 1..n : h[k] = Round(h[k - 1], m, always)

LEMMA RoundsExist ==
  ASSUME NEW r, NEW m, NEW always
  PROVE  \A n \in Nat : \E h : Rounds(r, m, always, n, h)
<1> DEFINE S == {n \in Nat : \E h : Rounds(r, m, always, n, h)}
<1>1. 0 \in S
  <2> DEFINE h == [k \in {0} |-> Starts(r, m)]
  <2>1. h[0] = Starts(r, m)
    OBVIOUS
  <2> HIDE DEF h
  <2>2. Rounds(r, m, always, 0, h)
    BY <2>1 DEF Rounds
  <2> QED  BY <2>2
<1>2. ASSUME NEW n \in Nat, n \in S PROVE n + 1 \in S
  <2>1. PICK h : Rounds(r, m, always, n, h)
    BY <1>2
  <2> DEFINE g == [k \in Nat |-> IF k <= n THEN h[k] ELSE Round(h[n], m, always)]
  <2>2. g[0] = h[0] /\ g[n + 1] = Round(h[n], m, always)
    OBVIOUS
  <2>3. \A k \in 0..n : g[k] = h[k]
    OBVIOUS
  <2> HIDE DEF g
  <2>4. ASSUME NEW k \in 1..(n + 1) PROVE g[k] = Round(g[k - 1], m, always)
    <3>1. CASE k = n + 1
      <4>1. g[k - 1] = h[n]
        BY <2>3, <3>1
      <4> QED  BY <2>2, <3>1, <4>1
    <3>2. CASE k # n + 1
      <4>1. k \in 1..n /\ k \in 0..n /\ k - 1 \in 0..n
        BY <3>2
      <4> QED  BY <2>1, <2>3, <4>1 DEF Rounds
    <3> QED  BY <3>1, <3>2
  <2>5. Rounds(r, m, always, n + 1, g)
    BY <2>1, <2>2, <2>4 DEF Rounds
  <2> QED  BY <2>5
<1> HIDE DEF S
<1>3. \A n \in Nat : n \in S
  BY <1>1, <1>2, AllNaturals
<1> QED  BY <1>3 DEF S

LEMMA RoundsAgree ==
  ASSUME NEW r, NEW m, NEW always, NEW n \in Nat, NEW h, NEW g,
         Rounds(r, m, always, n, h), Rounds(r, m, always, n, g)
  PROVE  h[n] = g[n]
<1> DEFINE S == {k \in Nat : k <= n => h[k] = g[k]}
<1>1. 0 \in S
  BY DEF Rounds
<1>2. ASSUME NEW k \in Nat, k \in S PROVE k + 1 \in S
  <2> SUFFICES ASSUME k + 1 <= n PROVE h[k + 1] = g[k + 1]
    OBVIOUS
  <2>1. h[k] = g[k]
    BY <1>2
  <2>2. k + 1 \in 1..n /\ (k + 1) - 1 = k
    OBVIOUS
  <2>3. h[k + 1] = Round(h[k], m, always) /\ g[k + 1] = Round(g[k], m, always)
    BY <2>2 DEF Rounds
  <2> QED  BY <2>1, <2>3
<1> HIDE DEF S
<1>3. n \in S
  BY <1>1, <1>2, AllNaturals
<1> QED  BY <1>3 DEF S

\* The rounds are what their recursive definition says.
LEMMA LabelsByRounds ==
  ASSUME NEW r, NEW m, NEW always
  PROVE  /\ LabelsAfter(r, m, always)[0] = Starts(r, m)
         /\ \A n \in Nat : LabelsAfter(r, m, always)[n + 1] = Round(LabelsAfter(r, m, always)[n], m, always)
<1> DEFINE upTo(n) == CHOOSE h : Rounds(r, m, always, n, h)
           F == [n \in Nat |-> upTo(n)[n]]
           Defines(h) == h = [n \in Nat |-> IF n = 0 THEN Starts(r, m) ELSE Round(h[n - 1], m, always)]
           labels == CHOOSE h : Defines(h)
<1>1. \A n \in Nat : Rounds(r, m, always, n, upTo(n))
  BY RoundsExist, Zenon
<1> HIDE DEF upTo
<1>2. ASSUME NEW n \in Nat
      PROVE  F[n] = IF n = 0 THEN Starts(r, m) ELSE Round(F[n - 1], m, always)
  <2>1. CASE n = 0
    BY <1>1, <2>1 DEF Rounds
  <2>2. CASE n # 0
    <3>1. n - 1 \in Nat /\ n \in 1..n /\ 1..(n - 1) \subseteq 1..n
      BY <2>2
    <3>2. Rounds(r, m, always, n, upTo(n)) /\ Rounds(r, m, always, n - 1, upTo(n - 1))
      BY <1>1, <3>1
    <3>3. Rounds(r, m, always, n - 1, upTo(n))
      BY <3>1, <3>2 DEF Rounds
    <3>4. upTo(n)[n - 1] = upTo(n - 1)[n - 1]
      BY <3>1, <3>2, <3>3, RoundsAgree
    <3>5. upTo(n)[n] = Round(upTo(n)[n - 1], m, always)
      BY <3>1, <3>2 DEF Rounds
    <3> QED  BY <2>2, <3>1, <3>4, <3>5
  <2> QED  BY <2>1, <2>2
<1>3. Defines(F)
  <2> DEFINE G == [n \in Nat |-> IF n = 0 THEN Starts(r, m) ELSE Round(F[n - 1], m, always)]
  <2>1. \A n \in Nat : F[n] = G[n]
    BY <1>2
  <2>2. F = G
    BY <2>1
  <2> QED  BY <2>2
<1> HIDE DEF F
<1>4. Defines(labels)
  <2> HIDE DEF Defines
  <2> QED  BY <1>3, Zenon
<1>5. LabelsAfter(r, m, always) = labels
  BY DEF LabelsAfter
<1> HIDE DEF labels
<1>6. \A n \in Nat : labels[n] = IF n = 0 THEN Starts(r, m) ELSE Round(labels[n - 1], m, always)
  BY <1>4
<1>7. \A n \in Nat : n + 1 \in Nat /\ n + 1 # 0 /\ (n + 1) - 1 = n
  OBVIOUS
<1> QED  BY <1>5, <1>6, <1>7

-----------------------------------------------------------------------------
(* Prices and labels have the types they should.                           *)

Label == [at : Stop, trip : Trip \cup {WALK_TRIP}, g : Nat]

LEMMA PriceType ==
  ASSUME NEW e \in Edges, NEW always, NEW m, NEW arrival
  PROVE  Price(always, m, arrival, e) \in Nat /\ DearestStep(m, e) \in Nat
<1>1. e.weight \in Nat /\ StepCost(arrival, e) \in Nat
  BY EdgeType, StepCostType
<1>2. DearestStep(m, e) = e.weight + 0 \/ DearestStep(m, e) = e.weight + 120
  BY Zenon DEF DearestStep, TRANSFER_PENALTY
<1>3. DearestStep(m, e) \in Nat
  BY <1>1, <1>2
<1> QED  BY <1>1, <1>3 DEF Price

\* What a stop can be reached by: nothing yet, a walk, or a vehicle of the mask.
Brings(m, v, arrival) ==
  arrival \in {"", WALK_TRIP} \/ \E f \in Edges : f.to = v /\ f.mode \in m /\ f.trip = arrival

\* A change is charged only where another vehicle calls.
LEMMA StepWithinDearest ==
  ASSUME NEW e \in Edges, NEW m, NEW arrival, Brings(m, e.from, arrival)
  PROVE  StepCost(arrival, e) <= DearestStep(m, e)
<1>1. e.weight \in Nat
  BY EdgeType
<1>2. CASE arrival # "" /\ arrival # e.trip /\ e.trip # WALK_TRIP /\ arrival # WALK_TRIP
  <2>1. OthersCall(m, e)
    BY <1>2 DEF Brings, OthersCall
  <2>2. DearestStep(m, e) = e.weight + 120 /\ StepCost(arrival, e) = e.weight + 120
    BY <1>2, <2>1, Zenon DEF DearestStep, StepCost, TRANSFER_PENALTY
  <2> QED  BY <1>1, <2>2
<1>3. CASE ~(arrival # "" /\ arrival # e.trip /\ e.trip # WALK_TRIP /\ arrival # WALK_TRIP)
  <2>1. StepCost(arrival, e) = e.weight + 0
    BY <1>3, Zenon DEF StepCost
  <2>2. DearestStep(m, e) = e.weight + 0 \/ DearestStep(m, e) = e.weight + 120
    BY Zenon DEF DearestStep, TRANSFER_PENALTY
  <2> QED  BY <1>1, <2>1, <2>2
<1> QED  BY <1>2, <1>3

\* The state being expanded was reached by a walk or by a vehicle of the mask.
LEMMA TopIsBrought ==
  ASSUME LabelInv, NEW e \in todo
  PROVE  Brings(mask, e.from, top.trip)
<1>1. /\ todo # {} /\ pc = "search" /\ top.u \in Stop /\ top.trip = info[top.u].trip /\ e.from = top.u
  BY DEF LabelInv, Expanding, Outgoing
<1>2. CASE info[top.u] = Unlabelled
  <2>1. Unlabelled.trip = ""
    BY DEF Unlabelled
  <2>2. top.trip = ""
    BY <1>1, <1>2, <2>1
  <2> QED  BY <2>2 DEF Brings
<1>3. CASE info[top.u] # Unlabelled
  <2>1. Realised(top.u, StartNodes(request, mask))
    BY <1>1, <1>3 DEF LabelInv, LabelsRealised
  <2>2. CASE info[top.u].parent = -1
    BY <1>1, <2>1, <2>2 DEF Realised, Brings
  <2>3. CASE info[top.u].parent # -1
    <3>1. PICK f \in Outgoing(info[top.u].parent) :
            f.to = top.u /\ f.mode \in mask /\ f.trip = info[top.u].trip
      BY <2>1, <2>3 DEF Realised
    <3>2. f \in Edges
      BY DEF Outgoing
    <3> QED  BY <1>1, <3>1, <3>2 DEF Brings
  <2> QED  BY <2>2, <2>3
<1> QED  BY <1>2, <1>3

LEMMA GoOnType ==
  ASSUME NEW x \in Label, NEW m, NEW always
  PROVE  GoOn(x, m, always) \subseteq Label
<1> SUFFICES ASSUME NEW e \in Outgoing(x.at)
             PROVE  [at |-> e.to, trip |-> e.trip, g |-> x.g + Price(always, m, x.trip, e)] \in Label
  BY DEF GoOn
<1>1. e \in Edges
  BY DEF Outgoing
<1>2. e.to \in Stop /\ e.trip \in Trip \cup {WALK_TRIP}
  BY <1>1, EdgeType
<1>3. x.g + Price(always, m, x.trip, e) \in Nat
  BY <1>1, PriceType DEF Label
<1> QED  BY <1>2, <1>3 DEF Label

LEMMA StartsType ==
  ASSUME NEW r \in Request, NEW m
  PROVE  Starts(r, m) \subseteq Label
<1>1. r.origin \in Point
  BY RequestAssumption
<1>2. \A s \in Stop : WalkTime(r.origin, At[s]) \in Nat
  BY <1>1, WalkTimeType, PositionAssumption
<1>3. StartNodes(r, m) \subseteq Stop
  BY CandidatesType
<1> QED  BY <1>2, <1>3 DEF Starts, Label

LEMMA LabelsType ==
  ASSUME NEW r \in Request, NEW m, NEW always
  PROVE  \A n \in Nat : LabelsAfter(r, m, always)[n] \subseteq Label
<1> DEFINE labels == LabelsAfter(r, m, always)
           S == {n \in Nat : labels[n] \subseteq Label}
<1>1. 0 \in S
  BY LabelsByRounds, StartsType
<1>2. ASSUME NEW n \in Nat, n \in S PROVE n + 1 \in S
  <2>1. labels[n + 1] = Round(labels[n], m, always)
    BY LabelsByRounds
  <2>2. \A x \in labels[n] : GoOn(x, m, always) \subseteq Label
    BY <1>2, GoOnType
  <2> HIDE DEF labels
  <2>3. labels[n + 1] \subseteq labels[n] \cup UNION {GoOn(x, m, always) : x \in labels[n]}
    BY <2>1 DEF Round, Prune
  <2> QED  BY <1>2, <2>2, <2>3
<1> HIDE DEF S
<1>3. \A n \in Nat : n \in S
  BY <1>1, <1>2, AllNaturals
<1> QED  BY <1>3 DEF S

\* What is pruned is pruned for something as good.
LEMMA PruneKeeps ==
  ASSUME NEW labels, labels \subseteq Label, NEW x \in labels
  PROVE  \E y \in Prune(labels) : y.at = x.at /\ y.trip = x.trip /\ y.g <= x.g
<1> DEFINE same == {y \in labels : y.at = x.at /\ y.trip = x.trip}
           costs == {y.g : y \in same}
<1>1. costs \subseteq Nat /\ x.g \in costs
  BY DEF Label
<1>2. PICK n \in costs : \A k \in costs : n <= k
  <2> HIDE DEF costs
  <2> QED  BY <1>1, LeastIsMember
<1>3. PICK y \in same : y.g = n
  OBVIOUS
<1>4. \A z \in same : y.g <= z.g
  BY <1>2, <1>3
<1>5. y \in labels /\ y.at = x.at /\ y.trip = x.trip
  BY <1>3
<1>6. \A z \in labels : z.at = y.at /\ z.trip = y.trip => y.g <= z.g
  BY <1>4, <1>5
<1>7. y \in Prune(labels)
  BY <1>5, <1>6 DEF Prune
<1>8. x \in same
  OBVIOUS
<1> QED  BY <1>4, <1>5, <1>7, <1>8

\* A label is kept, and gone on from, at no greater cost in the next round.
LEMMA RoundKeeps ==
  ASSUME NEW labels, labels \subseteq Label, NEW m, NEW always, NEW x \in labels
  PROVE  \E y \in Round(labels, m, always) : y.at = x.at /\ y.trip = x.trip /\ y.g <= x.g
<1> DEFINE more == labels \cup UNION {GoOn(z, m, always) : z \in labels}
<1>1. more \subseteq Label /\ x \in more
  BY GoOnType
<1> HIDE DEF more
<1>2. \E y \in Prune(more) : y.at = x.at /\ y.trip = x.trip /\ y.g <= x.g
  BY <1>1, PruneKeeps
<1> QED  BY <1>2 DEF Round, more

LEMMA RoundGoesOn ==
  ASSUME NEW labels, labels \subseteq Label, NEW m, NEW always, NEW x \in labels,
         NEW e \in Outgoing(x.at), e.mode \in m
  PROVE  \E y \in Round(labels, m, always) :
            y.at = e.to /\ y.trip = e.trip /\ y.g <= x.g + Price(always, m, x.trip, e)
<1> DEFINE more == labels \cup UNION {GoOn(z, m, always) : z \in labels}
           new == [at |-> e.to, trip |-> e.trip, g |-> x.g + Price(always, m, x.trip, e)]
<1>1. new \in GoOn(x, m, always)
  BY DEF GoOn
<1>2. new.at = e.to /\ new.trip = e.trip /\ new.g = x.g + Price(always, m, x.trip, e)
  OBVIOUS
<1> HIDE DEF new
<1>3. more \subseteq Label /\ new \in more
  BY <1>1, GoOnType
<1> HIDE DEF more
<1>4. \E y \in Prune(more) : y.at = new.at /\ y.trip = new.trip /\ y.g <= new.g
  BY <1>3, PruneKeeps
<1> QED  BY <1>2, <1>4 DEF Round, more

-----------------------------------------------------------------------------
(* The search leaves no improvement undone.                                *)

OnFootTotal == WalkTime(request.origin, request.destination)

\* A label still to be looked at.
Pending(v) == \E s \in pq : s.u = v /\ s.g = info[v].g

\* What an edge of v leads to costs no more than by v and the edge at its
\* dearest, or no less than the best total; or the edge is yet to be tried.
Tried(v, e) ==
  \/ v = top.u /\ e \in todo
  \/ info[e.to].g <= info[v].g + DearestStep(mask, e)
  \/ best_total <= info[v].g + DearestStep(mask, e)

\* A label that was gone on from.
Settled(v) ==
  /\ v \in ends => best_total <= info[v].g + ToDestination(v)
  /\ \A e \in Outgoing(v) : e.mode \in mask => Tried(v, e)

\* The best total is that of a walk as long as no stop completes a better one.
BestOnFoot ==
  /\ best_total <= INF
  /\ CanDirectWalk(request) => best_total <= OnFootTotal
  /\ best_end_node \notin Stop => best_total = INF \/ (CanDirectWalk(request) /\ best_total = OnFootTotal)

Relaxed ==
  Searching =>
    /\ ends = EndNodes(request, mask)
    /\ BestOnFoot
    /\ \A v \in StartNodes(request, mask) : info[v].g <= FromOrigin(v)
    /\ \A v \in Stop : best_total <= info[v].g \/ Pending(v) \/ Settled(v)

LEMMA WalkBelowInf ==
  ASSUME request \in Request, CanDirectWalk(request)
  PROVE  OnFootTotal \in Nat /\ OnFootTotal < INF
<1> DEFINE h == haversine(request.origin, request.destination)
<1>1. h \in Nat
  BY RequestType, HaversineType
<1>2. h <= 30 /\ 30 * 143 < INF
  BY InfAssumption, SpeedBound DEF CanDirectWalk, MAX_WALK_DISTANCE
<1>3. OnFootTotal = h * 143 /\ INF \in Nat
  BY SpeedBound, InfAssumption DEF OnFootTotal, WalkTime
<1> HIDE DEF h
<1> QED  BY <1>1, <1>2, <1>3

LEMMA StartSearchRelaxes ==
  ASSUME LabelInv, StartSearch
  PROVE  Relaxed'
<1> DEFINE starts == StartNodes(request, mask)
<1>1. /\ request' = request /\ results' = results /\ request \in Request
      /\ best_end_node' \in {-1, -2} /\ ends' = EndNodes(request, mask)
  BY DEF StartSearch, LabelInv, TypeOK
<1>2. mask' = mask
  BY <1>1 DEF mask, Call
<1>3. INF \in Nat /\ Stop \subseteq Nat
  BY InfAssumption, StopAssumption
<1>4. /\ CanDirectWalk(request) => best_total' = OnFootTotal
      /\ ~CanDirectWalk(request) => best_total' = INF
      /\ OnFootTotal' = OnFootTotal
  BY <1>1 DEF StartSearch, OnFootTotal
<1>5. BestOnFoot'
  <2>1. CanDirectWalk(request)' <=> CanDirectWalk(request)
    BY <1>1 DEF CanDirectWalk
  <2> QED  BY <1>1, <1>3, <1>4, <2>1, WalkBelowInf DEF BestOnFoot
<1>6. \A v \in Stop : info'[v] = IF v \in starts
                                 THEN [g |-> FromOrigin(v), parent |-> -1, trip |-> WALK_TRIP]
                                 ELSE Unlabelled
  BY DEF StartSearch
<1>7. pq' = {[u |-> v, g |-> FromOrigin(v), f |-> FromOrigin(v) + heuristic(v), trip |-> WALK_TRIP] :
               v \in starts}
  BY DEF StartSearch
<1>8. starts \subseteq Stop /\ starts' = starts
  BY <1>1, <1>2, CandidatesType
<1>9. \A v : FromOrigin(v)' = FromOrigin(v)
  BY <1>1 DEF FromOrigin
<1> HIDE DEF starts
<1>10. \A v \in starts : FromOrigin(v) \in Nat
  BY <1>1, <1>8, CostTypes
<1>11. ASSUME NEW v \in starts PROVE info'[v].g = FromOrigin(v)
  <2>1. info'[v] = [g |-> FromOrigin(v), parent |-> -1, trip |-> WALK_TRIP]
    BY <1>6, <1>8
  <2> QED  BY <2>1
<1>12. ASSUME NEW v \in Stop PROVE best_total' <= info'[v].g \/ Pending(v)'
  <2>1. CASE v \in starts
    <3> DEFINE s == [u |-> v, g |-> FromOrigin(v), f |-> FromOrigin(v) + heuristic(v), trip |-> WALK_TRIP]
    <3>1. s \in pq' /\ s.u = v /\ s.g = FromOrigin(v)
      BY <1>7, <2>1
    <3> HIDE DEF s
    <3> QED  BY <1>11, <2>1, <3>1 DEF Pending
  <2>2. CASE v \notin starts
    <3>0. info'[v] = Unlabelled
      BY <1>6, <2>2
    <3>00. Unlabelled.g = INF
      BY DEF Unlabelled
    <3>1. info'[v].g = INF
      BY <3>0, <3>00
    <3> QED  BY <1>5, <3>1 DEF BestOnFoot
  <2> QED  BY <2>1, <2>2
<1>13. \A v \in starts : info'[v].g <= FromOrigin(v)'
  BY <1>9, <1>10, <1>11
<1> QED  BY <1>1, <1>2, <1>5, <1>8, <1>12, <1>13 DEF Relaxed, starts

\* Dropping an entry that is superseded or too dear settles nothing.
LEMMA DropRelaxes ==
  ASSUME LabelInv, Relaxed, PopDiscarded
  PROVE  Relaxed'
<1>1. /\ pc = "search" /\ Searching /\ TypeOK
      /\ UNCHANGED <<request, results, pc, ends, info, top, todo, best_total, best_end_node>>
  BY DEF PopDiscarded, LabelInv, Searching
<1>2. PICK s \in pq : Discard(s) /\ pq' = pq \ {s}
  BY DEF PopDiscarded
<1>3. mask' = mask
  BY <1>1 DEF mask, Call
<1>4. best_total \in Nat /\ s.g \in Nat /\ \A v \in Stop : info[v].g \in Nat
  BY <1>1 DEF TypeOK, State, PathInfo
<1>5. BestOnFoot'
  BY <1>1 DEF Relaxed, BestOnFoot, OnFootTotal
<1>6. ASSUME NEW v \in Stop, Pending(v) PROVE best_total <= info[v].g \/ Pending(v)'
  <2>1. PICK q \in pq : q.u = v /\ q.g = info[v].g
    BY <1>6 DEF Pending
  <2>2. CASE q = s
    BY <1>2, <1>4, <2>1, <2>2 DEF Discard
  <2>3. CASE q # s
    BY <1>1, <1>2, <2>1, <2>3 DEF Pending
  <2> QED  BY <2>2, <2>3
<1>7. ASSUME NEW v \in Stop, Settled(v) PROVE Settled(v)'
  BY <1>1, <1>3, <1>7 DEF Settled, Tried, ToDestination
<1>8. \A v \in Stop : (best_total <= info[v].g \/ Pending(v) \/ Settled(v))'
  BY <1>1, <1>6, <1>7 DEF Relaxed
<1>9. \A v \in StartNodes(request, mask)' : info'[v].g <= FromOrigin(v)'
  BY <1>1, <1>3 DEF Relaxed, FromOrigin
<1> QED  BY <1>1, <1>3, <1>5, <1>8, <1>9 DEF Relaxed

LEMMA ExpandRelaxes ==
  ASSUME LabelInv, Relaxed, NEW s \in pq, Expand(s)
  PROVE  Relaxed'
<1>1. /\ pc = "search" /\ Searching /\ TypeOK /\ todo = {} /\ s.u \in Stop
      /\ UNCHANGED <<request, results, pc, ends, info>>
      /\ top' = s /\ pq' = pq \ {s}
      /\ todo' = {e \in Outgoing(s.u) : e.mode \in mask}
      /\ ~Discard(s)
  BY DEF Expand, LabelInv, TypeOK, Searching
<1>2. mask' = mask
  BY <1>1 DEF mask, Call
<1>3. best_total \in Nat /\ s.g \in Nat /\ \A v \in Stop : info[v].g \in Nat /\ ToDestination(v) \in Nat
  BY <1>1, CostTypes DEF TypeOK, State, PathInfo
<1>4. s.g = info[s.u].g
  BY <1>1, <1>3 DEF Discard, LabelInv, Queue
<1>5. \/ best_total' = best_total /\ best_end_node' = best_end_node
      \/ best_total' = s.g + ToDestination(s.u) /\ best_total' < best_total /\ best_end_node' \in Stop
  BY <1>1 DEF Expand
<1>6. s.u \in ends => best_total' <= s.g + ToDestination(s.u)
  BY <1>1, <1>3 DEF Expand
<1>7. best_total' \in Nat /\ best_total' <= best_total
  BY <1>1, <1>3, <1>5
<1>8. BestOnFoot'
  <2>1. request' = request /\ INF \in Nat /\ (CanDirectWalk(request) => OnFootTotal \in Nat)
    BY <1>1, WalkBelowInf, InfAssumption DEF TypeOK
  <2>2. OnFootTotal' = OnFootTotal /\ BestOnFoot /\ (CanDirectWalk(request)' <=> CanDirectWalk(request))
    BY <1>1, <2>1 DEF OnFootTotal, Relaxed
  <2> QED  BY <1>3, <1>5, <1>7, <2>1, <2>2 DEF BestOnFoot
<1>9. \A v : ToDestination(v)' = ToDestination(v) /\ FromOrigin(v)' = FromOrigin(v)
  BY <1>1 DEF ToDestination, FromOrigin
<1>10. Settled(s.u)'
  <2>1. \A e \in Outgoing(s.u) : e.mode \in mask => Tried(s.u, e)'
    BY <1>1 DEF Tried
  <2>2. (s.u \in ends => best_total <= info[s.u].g + ToDestination(s.u))'
    BY <1>1, <1>4, <1>6, <1>9
  <2>3. (\A e \in Outgoing(s.u) : e.mode \in mask => Tried(s.u, e))'
    BY <1>1, <1>2, <2>1
  <2> QED  BY <1>1, <2>2, <2>3 DEF Settled
<1>11. ASSUME NEW v \in Stop, v # s.u, Settled(v) PROVE Settled(v)'
  <2>1. v \in ends' => best_total' <= info'[v].g + ToDestination(v)'
    BY <1>1, <1>3, <1>7, <1>9, <1>11 DEF Settled
  <2>2. ASSUME NEW e \in Outgoing(v), e.mode \in mask PROVE Tried(v, e)'
    <3>1. e \in Edges /\ e.to \in Stop /\ DearestStep(mask, e) \in Nat
      BY EdgeType, PriceType DEF Outgoing
    <3>2. Tried(v, e)
      BY <1>11, <2>2 DEF Settled
    <3> QED  BY <1>1, <1>2, <1>3, <1>7, <3>1, <3>2 DEF Tried
  <2> QED  BY <1>2, <2>1, <2>2 DEF Settled
<1>12. ASSUME NEW v \in Stop, v # s.u PROVE (best_total <= info[v].g \/ Pending(v) \/ Settled(v))'
  <2>1. best_total <= info[v].g \/ Pending(v) \/ Settled(v)
    BY <1>1 DEF Relaxed
  <2>2. Pending(v) => Pending(v)'
    BY <1>1, <1>12 DEF Pending
  <2>3. best_total <= info[v].g => best_total' <= info'[v].g
    BY <1>1, <1>3, <1>7
  <2> QED  BY <1>11, <1>12, <2>1, <2>2, <2>3
<1>13. \A v \in StartNodes(request, mask)' : info'[v].g <= FromOrigin(v)'
  BY <1>1, <1>2, <1>9 DEF Relaxed
<1>14. ends' = EndNodes(request, mask)'
  BY <1>1, <1>2 DEF Relaxed
<1> QED  BY <1>8, <1>10, <1>12, <1>13, <1>14 DEF Relaxed

\* An edge that is tried lowers what it leads to as far as it should.
LEMMA RelaxRelaxes ==
  ASSUME LabelInv, Relaxed, NEW e \in todo, Relax(e)
  PROVE  Relaxed'
<1>1. /\ pc = "search" /\ Searching /\ TypeOK /\ top.u \in Stop
      /\ e \in Edges /\ e.to \in Stop /\ top.g = info[top.u].g
      /\ UNCHANGED <<request, results, pc, ends, top, best_total, best_end_node>>
      /\ todo' = todo \ {e}
      /\ NewG(e) < info[e.to].g
  BY EdgeType DEF Relax, LabelInv, Expanding, TypeOK, Searching, Outgoing, Improves
<1>2. mask' = mask
  BY <1>1 DEF mask, Call
<1>3. /\ info' = [info EXCEPT ![e.to] = [g |-> NewG(e), parent |-> top.u, trip |-> e.trip]]
      /\ pq' = pq \cup {[u |-> e.to, g |-> NewG(e), f |-> NewG(e) + heuristic(e.to), trip |-> e.trip]}
  BY DEF Relax
<1>4. /\ info'[e.to] = [g |-> NewG(e), parent |-> top.u, trip |-> e.trip]
      /\ \A v \in Stop : v # e.to => info'[v] = info[v]
  BY <1>1, <1>3 DEF TypeOK
<1>5. info'[e.to].g = NewG(e)
  BY <1>4
<1>6. \A v \in Stop : info[v].g \in Nat
  BY <1>1 DEF TypeOK, PathInfo
<1>7. NewG(e) \in Nat /\ NewG(e) <= info[top.u].g + DearestStep(mask, e) /\ DearestStep(mask, e) \in Nat
  <2>1. StepCost(top.trip, e) \in Nat /\ StepCost(top.trip, e) <= DearestStep(mask, e)
    BY <1>1, StepCostType, TopIsBrought, StepWithinDearest
  <2> QED  BY <1>1, <1>6, <2>1, PriceType DEF NewG
<1>8. \A v \in Stop : info'[v].g \in Nat /\ info'[v].g <= info[v].g
  BY <1>1, <1>4, <1>5, <1>6, <1>7
<1>9. BestOnFoot' /\ ends' = EndNodes(request, mask)'
  BY <1>1, <1>2 DEF Relaxed, BestOnFoot, OnFootTotal
<1>10. \A v : ToDestination(v)' = ToDestination(v) /\ FromOrigin(v)' = FromOrigin(v)
  BY <1>1 DEF ToDestination, FromOrigin
<1>11. Pending(e.to)'
  <2> DEFINE s == [u |-> e.to, g |-> NewG(e), f |-> NewG(e) + heuristic(e.to), trip |-> e.trip]
  <2>1. s \in pq' /\ s.u = e.to /\ s.g = NewG(e)
    BY <1>3
  <2> HIDE DEF s
  <2> QED  BY <1>5, <2>1 DEF Pending
<1>12. ASSUME NEW v \in Stop, v # e.to, Settled(v) PROVE Settled(v)'
  <2>1. (v \in ends => best_total <= info[v].g + ToDestination(v))'
    BY <1>1, <1>4, <1>10, <1>12 DEF Settled
  <2>2. ASSUME NEW f \in Outgoing(v), f.mode \in mask PROVE Tried(v, f)'
    <3>1. f \in Edges /\ f.to \in Stop /\ DearestStep(mask, f) \in Nat
      BY EdgeType, PriceType DEF Outgoing
    <3>2. Tried(v, f) /\ info'[v] = info[v]
      BY <1>4, <1>12, <2>2 DEF Settled
    <3>3. CASE v = top.u /\ f = e
      BY <1>1, <1>2, <1>5, <1>7, <3>2, <3>3 DEF Tried
    <3>4. CASE ~(v = top.u /\ f = e)
      BY <1>1, <1>2, <1>6, <1>8, <3>1, <3>2, <3>4 DEF Tried
    <3> QED  BY <3>3, <3>4
  <2> QED  BY <1>2, <2>1, <2>2 DEF Settled
<1>13. ASSUME NEW v \in Stop PROVE (best_total <= info[v].g \/ Pending(v) \/ Settled(v))'
  <2>1. CASE v = e.to
    BY <1>11, <2>1
  <2>2. CASE v # e.to
    <3>1. best_total <= info[v].g \/ Pending(v) \/ Settled(v)
      BY <1>1 DEF Relaxed
    <3>2. Pending(v) => Pending(v)'
      BY <1>3, <1>4, <2>2 DEF Pending
    <3>3. best_total <= info[v].g => best_total' <= info'[v].g
      BY <1>1, <1>4, <2>2
    <3> QED  BY <1>12, <2>2, <3>1, <3>2, <3>3
  <2> QED  BY <2>1, <2>2
<1>14. ASSUME NEW v \in StartNodes(request, mask)' PROVE info'[v].g <= FromOrigin(v)'
  <2>1. v \in StartNodes(request, mask) /\ v \in Stop /\ info[v].g <= FromOrigin(v) /\ FromOrigin(v) \in Nat
    BY <1>1, <1>2, CandidatesType, CostTypes DEF Relaxed, TypeOK
  <2> QED  BY <1>6, <1>8, <1>10, <2>1
<1> QED  BY <1>9, <1>13, <1>14 DEF Relaxed

\* An edge that is passed by would not have lowered anything.
LEMMA PassRelaxes ==
  ASSUME LabelInv, Relaxed, NEW e \in todo, Pass(e)
  PROVE  Relaxed'
<1>1. /\ pc = "search" /\ Searching /\ TypeOK /\ top.u \in Stop
      /\ e \in Edges /\ e.to \in Stop /\ top.g = info[top.u].g
      /\ UNCHANGED <<request, results, pc, ends, info, pq, top, best_total, best_end_node>>
      /\ todo' = todo \ {e}
      /\ ~(NewG(e) < info[e.to].g /\ NewG(e) < best_total)
  BY EdgeType DEF Pass, LabelInv, Expanding, TypeOK, Searching, Outgoing, Improves
<1>2. mask' = mask
  BY <1>1 DEF mask, Call
<1>3. best_total \in Nat /\ \A v \in Stop : info[v].g \in Nat
  BY <1>1 DEF TypeOK, PathInfo
<1>4. NewG(e) \in Nat /\ NewG(e) <= info[top.u].g + DearestStep(mask, e) /\ DearestStep(mask, e) \in Nat
  <2>1. StepCost(top.trip, e) \in Nat /\ StepCost(top.trip, e) <= DearestStep(mask, e)
    BY <1>1, StepCostType, TopIsBrought, StepWithinDearest
  <2> QED  BY <1>1, <1>3, <2>1, PriceType DEF NewG
<1>5. BestOnFoot' /\ ends' = EndNodes(request, mask)'
  BY <1>1, <1>2 DEF Relaxed, BestOnFoot, OnFootTotal
<1>6. \A v : ToDestination(v)' = ToDestination(v) /\ FromOrigin(v)' = FromOrigin(v)
  BY <1>1 DEF ToDestination, FromOrigin
<1>7. ASSUME NEW v \in Stop, Settled(v) PROVE Settled(v)'
  <2>1. (v \in ends => best_total <= info[v].g + ToDestination(v))'
    BY <1>1, <1>6, <1>7 DEF Settled
  <2>2. ASSUME NEW f \in Outgoing(v), f.mode \in mask PROVE Tried(v, f)'
    <3>1. Tried(v, f)
      BY <1>7, <2>2 DEF Settled
    <3>2. CASE v = top.u /\ f = e
      <4>1. \/ info[e.to].g <= info[top.u].g + DearestStep(mask, e)
            \/ best_total <= info[top.u].g + DearestStep(mask, e)
        BY <1>1, <1>3, <1>4
      <4> QED  BY <1>1, <1>2, <3>2, <4>1 DEF Tried
    <3>3. CASE ~(v = top.u /\ f = e)
      BY <1>1, <1>2, <3>1, <3>3 DEF Tried
    <3> QED  BY <3>2, <3>3
  <2> QED  BY <1>2, <2>1, <2>2 DEF Settled
<1>8. \A v \in Stop : (best_total <= info[v].g \/ Pending(v) \/ Settled(v))'
  BY <1>1, <1>7 DEF Relaxed, Pending
<1>9. \A v \in StartNodes(request, mask)' : info'[v].g <= FromOrigin(v)'
  BY <1>1, <1>2, <1>6 DEF Relaxed
<1> QED  BY <1>5, <1>8, <1>9 DEF Relaxed

\* Reading the route back, and doing nothing, change nothing of this.
LEMMA SearchedStays ==
  ASSUME Relaxed, UNCHANGED <<request, results, search>>, Searching' => Searching
  PROVE  Relaxed'
<1>1. mask' = mask
  BY DEF mask, Call
<1>2. UNCHANGED <<request, results, ends, info, pq, top, todo, best_total, best_end_node>>
  BY DEF search
<1>3. \A v : ToDestination(v)' = ToDestination(v) /\ FromOrigin(v)' = FromOrigin(v)
  BY <1>2 DEF ToDestination, FromOrigin
<1>4. BestOnFoot' <=> BestOnFoot
  BY <1>2 DEF BestOnFoot, OnFootTotal
<1>5. \A v : Settled(v)' <=> Settled(v)
  BY <1>1, <1>2, <1>3 DEF Settled, Tried
<1>6. \A v : Pending(v)' <=> Pending(v)
  BY <1>2 DEF Pending
<1> QED  BY <1>1, <1>2, <1>3, <1>4, <1>5, <1>6 DEF Relaxed

-----------------------------------------------------------------------------
(* What the search found is no dearer than any label.                      *)

\* Where the search is over, a stop is reached at no more than any label's
\* cost, unless the best total is as good: by induction over the rounds.
LEMMA ReachedAsCheaply ==
  ASSUME LabelInv, Relaxed, Searching, pq = {}, todo = {}
  PROVE  \A n \in Nat : \A x \in LabelsAfter(request, mask, TRUE)[n] :
           info[x.at].g <= x.g \/ best_total <= x.g
<1> DEFINE labels == LabelsAfter(request, mask, TRUE)
           Fine(x) == info[x.at].g <= x.g \/ best_total <= x.g
           S == {n \in Nat : \A x \in labels[n] : Fine(x)}
<1>1. /\ request \in Request /\ best_total \in Nat
      /\ \A v \in Stop : info[v].g \in Nat
  BY DEF LabelInv, TypeOK, PathInfo
<1>2. \A n \in Nat : labels[n] \subseteq Label
  BY <1>1, LabelsType
<1>3. 0 \in S
  <2>1. labels[0] = Starts(request, mask)
    BY LabelsByRounds
  <2>2. ASSUME NEW x \in Starts(request, mask) PROVE Fine(x)
    <3>1. PICK v \in StartNodes(request, mask) :
             x = [at |-> v, trip |-> WALK_TRIP, g |-> WalkTime(request.origin, At[v])]
      BY DEF Starts
    <3>2. x.at = v /\ x.g = FromOrigin(v)
      BY <3>1 DEF FromOrigin
    <3> QED  BY <3>2 DEF Relaxed
  <2> QED  BY <2>1, <2>2
<1>4. ASSUME NEW n \in Nat, n \in S PROVE n + 1 \in S
  <2> HIDE DEF labels, Fine
  <2>0. labels[n + 1] = Round(labels[n], mask, TRUE)
    BY LabelsByRounds DEF labels
  <2>1. labels[n + 1] \subseteq labels[n] \cup UNION {GoOn(x, mask, TRUE) : x \in labels[n]}
    BY <2>0 DEF Round, Prune
  <2>2. ASSUME NEW x \in labels[n], NEW y \in GoOn(x, mask, TRUE) PROVE Fine(y)
    <3>1. PICK e \in Outgoing(x.at) :
            /\ e.mode \in mask
            /\ y = [at |-> e.to, trip |-> e.trip, g |-> x.g + Price(TRUE, mask, x.trip, e)]
      BY <2>2 DEF GoOn
    <3>2. y.at = e.to /\ y.g = x.g + DearestStep(mask, e)
      BY <3>1 DEF Price
    <3>3. x \in Label /\ e \in Edges
      BY <1>2, <2>2 DEF Outgoing
    <3>4. x.at \in Stop /\ x.g \in Nat /\ e.to \in Stop /\ DearestStep(mask, e) \in Nat
      BY <3>3, EdgeType, PriceType DEF Label
    <3>5. Fine(x)
      BY <1>4, <2>2
    <3>6. CASE best_total <= x.g
      <4>1. best_total <= x.g + DearestStep(mask, e)
        BY <1>1, <3>4, <3>6
      <4> QED  BY <3>2, <4>1 DEF Fine
    <3>7. CASE ~(best_total <= x.g)
      <4>1. info[x.at].g <= x.g /\ ~(best_total <= info[x.at].g)
        BY <1>1, <3>4, <3>5, <3>7 DEF Fine
      <4>2. Settled(x.at)
        BY <3>4, <4>1 DEF Relaxed, Pending
      <4>3. Tried(x.at, e)
        BY <3>1, <4>2 DEF Settled
      <4>4. \/ info[e.to].g <= info[x.at].g + DearestStep(mask, e)
            \/ best_total <= info[x.at].g + DearestStep(mask, e)
        BY <4>3 DEF Tried
      <4>5. info[x.at].g \in Nat /\ info[e.to].g \in Nat
        BY <1>1, <3>4
      <4>6. \/ info[e.to].g <= x.g + DearestStep(mask, e)
            \/ best_total <= x.g + DearestStep(mask, e)
        BY <1>1, <3>4, <4>1, <4>4, <4>5
      <4> QED  BY <3>2, <4>6 DEF Fine
    <3> QED  BY <3>6, <3>7
  <2>3. \A y \in labels[n + 1] : Fine(y)
    BY <1>4, <2>1, <2>2
  <2> QED  BY <2>3
<1> HIDE DEF S
<1>5. \A n \in Nat : n \in S
  BY <1>3, <1>4, AllNaturals
<1> QED  BY <1>5 DEF S

\* Least is a lower bound that is met.
LEMMA LeastOf ==
  ASSUME NEW S, S \subseteq Nat
  PROVE  /\ Least(S) \in S \cup {INF} /\ Least(S) \in Nat /\ Least(S) <= INF
         /\ \A n \in S : Least(S) <= n
<1> DEFINE T == S \cup {INF}
<1>1. T \subseteq Nat /\ T # {}
  BY InfAssumption
<1> HIDE DEF T
<1>2. Min(T) \in T /\ \A n \in T : Min(T) <= n
  BY <1>1, LeastIsMember
<1>3. Least(S) = Min(T)
  BY DEF Least, T
<1> QED  BY <1>1, <1>2, <1>3 DEF T

\* The totals a cheapest one is taken from are numbers.
LEMMA TotalsType ==
  ASSUME NEW r \in Request, NEW m, NEW always
  PROVE  OnFoot(r) \cup ByStops(r, m, always) \subseteq Nat
<1>1. r.origin \in Point /\ r.destination \in Point
  BY RequestAssumption
<1>2. OnFoot(r) \subseteq Nat
  BY <1>1, WalkTimeType DEF OnFoot
<1>3. Cardinality(Stop) \in Nat
  BY StopAssumption, FS_CardinalityType
<1>4. Cheapest(r, m, always) \subseteq Label
  BY <1>3, LabelsType DEF Cheapest
<1>5. ASSUME NEW x \in Label PROVE x.g + WalkTime(At[x.at], r.destination) \in Nat
  <2>1. x.g \in Nat /\ At[x.at] \in Point
    BY PositionAssumption DEF Label
  <2>2. WalkTime(At[x.at], r.destination) \in Nat
    BY <1>1, <2>1, WalkTimeType
  <2> QED  BY <2>1, <2>2
<1>6. ByStops(r, m, always) \subseteq Nat
  BY <1>4, <1>5 DEF ByStops
<1> QED  BY <1>2, <1>6

LEMMA NoDearer ==
  ASSUME LabelInv, Relaxed, Searching, pq = {}, todo = {}
  PROVE  best_total <= CheapestTotal(request, mask, TRUE)
<1> DEFINE S == OnFoot(request) \cup ByStops(request, mask, TRUE)
<1>1. request \in Request /\ best_total \in Nat /\ \A v \in Stop : info[v].g \in Nat
  BY DEF LabelInv, TypeOK, PathInfo
<1>2. \A n \in OnFoot(request) : best_total <= n
  BY DEF OnFoot, Relaxed, BestOnFoot, OnFootTotal
<1>3. ASSUME NEW n \in ByStops(request, mask, TRUE) PROVE best_total <= n
  <2>1. PICK x \in Cheapest(request, mask, TRUE) :
           x.at \in EndNodes(request, mask) /\ n = x.g + WalkTime(At[x.at], request.destination)
    BY DEF ByStops
  <2>2. Cardinality(Stop) \in Nat
    BY StopAssumption, FS_CardinalityType
  <2>3. x \in Label /\ (info[x.at].g <= x.g \/ best_total <= x.g)
    BY <1>1, <2>1, <2>2, LabelsType, ReachedAsCheaply DEF Cheapest
  <2>4. x.at \in Stop /\ x.g \in Nat /\ ToDestination(x.at) \in Nat /\ n = x.g + ToDestination(x.at)
    BY <1>1, <2>1, <2>3, CostTypes DEF Label, ToDestination
  <2>5. CASE best_total <= info[x.at].g \/ best_total <= x.g
    BY <1>1, <2>3, <2>4, <2>5
  <2>6. CASE ~(best_total <= info[x.at].g \/ best_total <= x.g)
    <3>1. Settled(x.at) /\ info[x.at].g <= x.g
      BY <2>3, <2>4, <2>6 DEF Relaxed, Pending
    <3>2. best_total <= info[x.at].g + ToDestination(x.at)
      BY <2>1, <3>1 DEF Settled, Relaxed
    <3> QED  BY <1>1, <2>4, <3>1, <3>2
  <2> QED  BY <2>5, <2>6
<1>4. best_total <= INF
  BY DEF Relaxed, BestOnFoot
<1>5. S \subseteq Nat
  BY <1>1, TotalsType
<1>6. \A n \in S \cup {INF} : best_total <= n
  BY <1>2, <1>3, <1>4
<1> HIDE DEF S
<1>7. Least(S) \in S \cup {INF}
  BY <1>5, LeastOf
<1> QED  BY <1>6, <1>7 DEF CheapestTotal, S

-----------------------------------------------------------------------------
(* The route priced is one the rounds find.                                *)

Cheaper(v) == {u \in Stop : info[u].g < info[v].g}

\* A stop's route is found in as many rounds as there are cheaper stops: its
\* parent is one of them, and has fewer.
LEMMA FoundByRounds ==
  ASSUME LabelInv, Reached, Searching
  PROVE  \A v \in Stop : info[v] # Unlabelled =>
           \A n \in Nat : Cardinality(Cheaper(v)) <= n =>
             \E x \in LabelsAfter(request, mask, FALSE)[n] :
               x.at = v /\ x.trip = info[v].trip /\ x.g <= info[v].g
<1> DEFINE labels == LabelsAfter(request, mask, FALSE)
           Found_(v, n) == \E x \in labels[n] : x.at = v /\ x.trip = info[v].trip /\ x.g <= info[v].g
           lost == {v \in Stop : info[v] # Unlabelled /\ ~\A n \in Nat : Cardinality(Cheaper(v)) <= n => Found_(v, n)}
           cost == [v \in Stop |-> info[v].g]
<1>1. /\ request \in Request /\ \A v \in Stop : info[v].g \in Nat
      /\ \A v \in Stop : info[v].parent # -1 => info[v].parent \in Stop
  BY DEF LabelInv, TypeOK, PathInfo
<1>2. \A n \in Nat : labels[n] \subseteq Label
  BY <1>1, LabelsType
<1>3. /\ labels[0] = Starts(request, mask)
      /\ \A n \in Nat : labels[n + 1] = Round(labels[n], mask, FALSE)
  BY LabelsByRounds
<1> HIDE DEF labels
<1>4. \A v \in Stop : IsFiniteSet(Cheaper(v)) /\ Cardinality(Cheaper(v)) \in Nat
  <2>1. \A v \in Stop : Cheaper(v) \in SUBSET Stop
    BY DEF Cheaper
  <2> QED  BY <2>1, StopAssumption, FS_Subset, FS_CardinalityType
<1> HIDE DEF lost
<1>5. ASSUME NEW v \in lost PROVE \E u \in lost : cost[u] < cost[v]
  <2>1. v \in Stop /\ info[v] # Unlabelled
    BY DEF lost
  <2>2. PICK n \in Nat : Cardinality(Cheaper(v)) <= n /\ ~Found_(v, n)
    BY DEF lost
  <2>3. Realised(v, StartNodes(request, mask))
    BY <2>1 DEF LabelInv, LabelsRealised, Searching
  <2>4. CASE info[v].parent = -1
    <3>1. v \in StartNodes(request, mask) /\ info[v].g = FromOrigin(v) /\ info[v].trip = WALK_TRIP
      BY <2>3, <2>4 DEF Realised
    <3> DEFINE S == {k \in Nat : Found_(v, k)}
    <3>2. 0 \in S
      <4> DEFINE x == [at |-> v, trip |-> WALK_TRIP, g |-> WalkTime(request.origin, At[v])]
      <4>1. x \in labels[0] /\ x.at = v /\ x.trip = WALK_TRIP /\ x.g = FromOrigin(v)
        BY <1>3, <3>1 DEF Starts, FromOrigin
      <4> HIDE DEF x
      <4> QED  BY <1>1, <2>1, <3>1, <4>1
    <3>3. ASSUME NEW k \in Nat, k \in S PROVE k + 1 \in S
      <4>1. PICK x \in labels[k] : x.at = v /\ x.trip = info[v].trip /\ x.g <= info[v].g
        BY <3>3
      <4>2. PICK y \in Round(labels[k], mask, FALSE) : y.at = x.at /\ y.trip = x.trip /\ y.g <= x.g
        BY <1>2, RoundKeeps
      <4>0. labels[k + 1] = Round(labels[k], mask, FALSE)
        BY <1>3, Zenon
      <4>3. y \in labels[k + 1] /\ y \in Label /\ x \in Label
        <5>0. k + 1 \in Nat
          OBVIOUS
        <5>1. labels[k] \subseteq Label /\ labels[k + 1] \subseteq Label
          BY <1>2, <5>0, Zenon
        <5> QED  BY <4>0, <5>1
      <4>4. y.g <= info[v].g
        BY <1>1, <2>1, <4>1, <4>2, <4>3 DEF Label
      <4> QED  BY <4>1, <4>2, <4>3, <4>4
    <3> HIDE DEF S
    <3>4. n \in S
      BY <3>2, <3>3, AllNaturals
    <3> QED  BY <2>2, <3>4 DEF S
  <2>5. CASE info[v].parent # -1
    <3>1. PICK u \in Stop : u = info[v].parent
      BY <1>1, <2>1, <2>5
    <3>2. PICK e \in Outgoing(u) :
            /\ e.to = v /\ e.mode \in mask /\ e.trip = info[v].trip
            /\ info[v].g = info[u].g + StepCost(info[u].trip, e)
      BY <2>3, <2>5, <3>1 DEF Realised
    <3>3. /\ e \in Edges /\ StepCost(info[u].trip, e) \in Nat /\ StepCost(info[u].trip, e) > 0
      <4>1. e \in Edges
        BY DEF Outgoing
      <4>2. StepCost(info[u].trip, e) \in Nat /\ StepCost(info[u].trip, e) >= e.weight /\ e.weight > 0 /\ e.weight \in Nat
        BY <4>1, StepCostType, EdgeType
      <4> QED  BY <4>1, <4>2
    <3>4. info[u].g < info[v].g
      BY <1>1, <2>1, <3>1, <3>2, <3>3
    <3>5. Cardinality(Cheaper(u)) < Cardinality(Cheaper(v))
      <4>1. Cheaper(u) \in SUBSET Cheaper(v) /\ u \in Cheaper(v) /\ u \notin Cheaper(u)
        BY <1>1, <2>1, <3>1, <3>4 DEF Cheaper
      <4>2. Cheaper(u) # Cheaper(v)
        BY <4>1
      <4>3. /\ Cardinality(Cheaper(u)) <= Cardinality(Cheaper(v))
            /\ Cardinality(Cheaper(u)) = Cardinality(Cheaper(v)) => Cheaper(u) = Cheaper(v)
        BY <1>4, <2>1, <4>1, FS_Subset
      <4> QED  BY <1>4, <2>1, <3>1, <4>2, <4>3
    <3>6. info[u] # Unlabelled
      <4>1. info[u].trip # ""
        BY <2>1, <2>5, <3>1 DEF Reached, Labelled
      <4>2. Unlabelled.trip = ""
        BY DEF Unlabelled
      <4> QED  BY <4>1, <4>2
    <3>7. ASSUME u \notin lost PROVE FALSE
      <4>1. n - 1 \in Nat /\ Cardinality(Cheaper(u)) <= n - 1
        BY <1>4, <2>1, <2>2, <3>1, <3>5
      <4>2. Found_(u, n - 1)
        BY <3>1, <3>6, <3>7, <4>1 DEF lost
      <4>3. PICK x \in labels[n - 1] : x.at = u /\ x.trip = info[u].trip /\ x.g <= info[u].g
        BY <4>2
      <4>4. labels[n] = Round(labels[n - 1], mask, FALSE) /\ labels[n - 1] \subseteq Label
        <5>1. (n - 1) + 1 = n
          OBVIOUS
        <5> QED  BY <1>2, <1>3, <4>1, <5>1
      <4>5. PICK y \in labels[n] : y.at = v /\ y.trip = info[v].trip /\ y.g <= x.g + Price(FALSE, mask, x.trip, e)
        <5>1. x \in labels[n - 1] /\ e \in Outgoing(x.at) /\ e.mode \in mask
          BY <3>2, <4>3
        <5>2. \E y \in Round(labels[n - 1], mask, FALSE) :
                y.at = e.to /\ y.trip = e.trip /\ y.g <= x.g + Price(FALSE, mask, x.trip, e)
          BY <4>4, <5>1, RoundGoesOn
        <5> QED  BY <3>2, <4>4, <5>2
      <4>6. Price(FALSE, mask, x.trip, e) = StepCost(info[u].trip, e)
        BY <4>3 DEF Price
      <4>7. y.g \in Nat /\ x.g \in Nat
        BY <1>2, <4>1, <4>3, <4>4, <4>5 DEF Label
      <4>8. y.g <= info[v].g
        <5> DEFINE c == StepCost(info[u].trip, e)
        <5>1. /\ c \in Nat /\ info[u].g \in Nat /\ info[v].g = info[u].g + c
              /\ y.g <= x.g + c /\ x.g <= info[u].g
          BY <1>1, <3>1, <3>2, <3>3, <4>3, <4>5, <4>6
        <5> HIDE DEF c
        <5> QED  BY <4>7, <5>1
      <4> QED  BY <2>2, <4>5, <4>8
    <3>8. u \in lost /\ cost[u] < cost[v]
      BY <2>1, <3>4, <3>7
    <3> QED  BY <3>8
  <2> QED  BY <2>4, <2>5
<1>6. \A v \in lost : cost[v] \in Nat
  BY <1>1 DEF lost
<1> HIDE DEF cost
<1>7. lost = {}
  BY <1>5, <1>6, NoDescent
<1> QED  BY <1>7 DEF lost, labels

LEMMA NoCheaper ==
  ASSUME LabelInv, Reached, Relaxed, Searching
  PROVE  CheapestTotal(request, mask, FALSE) <= best_total
<1> DEFINE S == OnFoot(request) \cup ByStops(request, mask, FALSE)
<1>1. /\ request \in Request /\ best_total \in Nat /\ \A v \in Stop : info[v].g \in Nat
      /\ BestOnFoot /\ ends = EndNodes(request, mask)
  BY DEF LabelInv, TypeOK, PathInfo, Relaxed
<1>2. S \subseteq Nat
  BY <1>1, TotalsType
<1>3. /\ CheapestTotal(request, mask, FALSE) = Least(S) /\ Least(S) <= INF /\ Least(S) \in Nat
      /\ \A n \in S : Least(S) <= n
  <2>1. CheapestTotal(request, mask, FALSE) = Least(S)
    BY DEF CheapestTotal
  <2> HIDE DEF S
  <2> QED  BY <1>2, <2>1, LeastOf
<1>4. CASE best_end_node \notin Stop
  <2>1. best_total = INF \/ best_total \in OnFoot(request)
    BY <1>1, <1>4 DEF BestOnFoot, OnFoot, OnFootTotal
  <2> QED  BY <1>3, <2>1
<1>5. CASE best_end_node \in Stop
  <2> DEFINE b == best_end_node
             n == Cardinality(Stop)
  <2>1. b \in EndNodes(request, mask) /\ best_total = info[b].g + ToDestination(b)
    BY <1>1, <1>5 DEF LabelInv, LabelsRealised, Searching
  <2>2. info[b] # Unlabelled
    <3>1. info[b].trip # ""
      BY <1>5 DEF Reached, Labelled
    <3>2. Unlabelled.trip = ""
      BY DEF Unlabelled
    <3> QED  BY <3>1, <3>2
  <2>3. n \in Nat /\ Cardinality(Cheaper(b)) <= n
    <3>1. Cheaper(b) \in SUBSET Stop
      BY DEF Cheaper
    <3> QED  BY <3>1, StopAssumption, FS_Subset, FS_CardinalityType
  <2>4. PICK x \in Cheapest(request, mask, FALSE) : x.at = b /\ x.g <= info[b].g
    BY <1>5, <2>2, <2>3, FoundByRounds DEF Cheapest
  <2>5. x \in Label /\ ToDestination(b) \in Nat
    BY <1>1, <1>5, <2>3, LabelsType, CostTypes DEF Cheapest
  <2>6. x.g + WalkTime(At[x.at], request.destination) \in ByStops(request, mask, FALSE)
    BY <2>1, <2>4 DEF ByStops
  <2>7. x.g + ToDestination(b) \in S
    BY <2>4, <2>6 DEF ToDestination
  <2> HIDE DEF S
  <2>8. Least(S) <= x.g + ToDestination(b)
    BY <1>3, <2>7
  <2>9. x.g \in Nat /\ info[b].g \in Nat
    BY <1>1, <1>5, <2>5 DEF Label
  <2> DEFINE least == Least(S)
             rest == ToDestination(b)
  <2>10. /\ least <= x.g + rest /\ x.g <= info[b].g /\ best_total = info[b].g + rest
         /\ least \in Nat /\ rest \in Nat
    BY <1>3, <2>1, <2>4, <2>5, <2>8
  <2> HIDE DEF least, rest
  <2>11. least <= best_total
    BY <2>9, <2>10
  <2> QED  BY <1>3, <2>11 DEF least
<1> QED  BY <1>4, <1>5

\* Where an end has no stop around it, there is only the walk.
LEMMA OnlyOnFoot ==
  ASSUME NEW r \in Request, NEW m, NEW always, StartNodes(r, m) = {} \/ EndNodes(r, m) = {}
  PROVE  ByStops(r, m, always) = {}
<1>1. CASE EndNodes(r, m) = {}
  BY <1>1 DEF ByStops
<1>2. CASE StartNodes(r, m) = {}
  <2> DEFINE labels == LabelsAfter(r, m, always)
             S == {n \in Nat : labels[n] = {}}
  <2>1. labels[0] = Starts(r, m) /\ \A n \in Nat : labels[n + 1] = Round(labels[n], m, always)
    BY LabelsByRounds
  <2>2. 0 \in S
    BY <1>2, <2>1 DEF Starts
  <2>3. ASSUME NEW n \in Nat, n \in S PROVE n + 1 \in S
    <3>1. labels[n] = {}
      BY <2>3
    <3> HIDE DEF labels
    <3>2. labels[n + 1] = Round(labels[n], m, always)
      BY <2>1
    <3>3. Round({}, m, always) = {}
      BY DEF Round, Prune
    <3> QED  BY <3>1, <3>2, <3>3
  <2> HIDE DEF S
  <2>4. \A n \in Nat : n \in S
    BY <2>2, <2>3, AllNaturals
  <2>5. Cardinality(Stop) \in Nat
    BY StopAssumption, FS_CardinalityType
  <2>6. Cheapest(r, m, always) = {}
    BY <2>4, <2>5 DEF S, Cheapest
  <2> QED  BY <2>6 DEF ByStops
<1> QED  BY <1>1, <1>2

LEMMA OnFootOnly ==
  ASSUME request \in Request, NEW always, StartNodes(request, mask) = {} \/ EndNodes(request, mask) = {}
  PROVE  CheapestTotal(request, mask, always) = IF CanDirectWalk(request) THEN OnFootTotal ELSE INF
<1> DEFINE S == OnFoot(request) \cup ByStops(request, mask, always)
<1>1. S = IF CanDirectWalk(request) THEN {OnFootTotal} ELSE {}
  BY OnlyOnFoot DEF OnFoot, OnFootTotal
<1>2. S \subseteq Nat
  BY TotalsType
<1>3. CheapestTotal(request, mask, always) = Least(S)
  BY DEF CheapestTotal
<1>4. CanDirectWalk(request) => OnFootTotal \in Nat /\ OnFootTotal < INF
  BY WalkBelowInf
<1> HIDE DEF S
<1>5. Least(S) \in S \cup {INF} /\ \A n \in S : Least(S) <= n
  BY <1>2, LeastOf
<1>6. CASE ~CanDirectWalk(request)
  BY <1>1, <1>3, <1>5, <1>6
<1>7. CASE CanDirectWalk(request)
  <2>1. Least(S) \in {OnFootTotal, INF} /\ Least(S) <= OnFootTotal
    BY <1>1, <1>5, <1>7
  <2>2. OnFootTotal \in Nat /\ OnFootTotal < INF /\ INF \in Nat
    BY <1>4, <1>7, InfAssumption
  <2>3. Least(S) # INF
    BY <2>1, <2>2
  <2> QED  BY <1>3, <1>7, <2>1, <2>3
<1> QED  BY <1>6, <1>7

-----------------------------------------------------------------------------
(* The results.                                                            *)

QualityInv == OptionInv /\ Relaxed /\ TotalsBounded

LEMMA CostsOf ==
  ASSUME request \in Request, NEW k \in 1..4
  PROVE  /\ TrueCost[request][MaskOf(k)] = CheapestTotal(request, MaskOf(k), FALSE)
         /\ UpperCost[request][MaskOf(k)] = CheapestTotal(request, MaskOf(k), TRUE)
<1>1. DOMAIN Searches = 1..4
  BY DEF Searches
<1>2. MaskOf(k) \in Masks
  BY <1>1 DEF MaskOf, Masks
<1> QED  BY <1>2 DEF TrueCost, UpperCost

LEMMA ReturnBounded ==
  ASSUME LabelInv, TotalsBounded, pc # "done", NEW total, NEW segments, Return(total, segments),
         request' = request,
         CheapestTotal(request, mask, FALSE) <= total, total <= CheapestTotal(request, mask, TRUE)
  PROVE  Relaxed' /\ TotalsBounded'
<1> DEFINE n == Len(results)
           r == [type |-> Call.type, total |-> total, segments |-> segments]
<1>0. n \in 0..4 /\ n < 4 /\ request \in Request /\ results \in Seq({results[k] : k \in 1..n})
  BY FourSearches DEF LabelInv, TypeOK
<1>1. n \in 0..3 /\ n + 1 \in 1..4
  <2> HIDE DEF n
  <2> QED  BY <1>0
<1>2. results' = Append(results, r) /\ ~Searching'
  BY DEF Return, Searching
<1>3. mask = MaskOf(n + 1)
  BY DEF mask, Call, MaskOf
<1>4. r.total = total
  OBVIOUS
<1> HIDE DEF r
<1>5. /\ DOMAIN results' = 1..(n + 1) /\ results'[n + 1] = r
      /\ \A k \in 1..n : results'[k] = results[k]
  BY <1>0, <1>2
<1>50. DOMAIN results = 1..n
  BY <1>0
<1> HIDE DEF n
<1>6. ASSUME NEW k \in 1..(n + 1)
      PROVE  TrueCost[request][MaskOf(k)] <= results'[k].total /\ results'[k].total <= UpperCost[request][MaskOf(k)]
  <2>1. CASE k = n + 1
    <3>1. k \in 1..4
      BY <1>1
    <3> QED  BY <1>0, <1>3, <1>4, <1>5, <2>1, <3>1, CostsOf
  <2>2. CASE k # n + 1
    <3>1. k \in 1..n
      BY <1>1, <2>2
    <3>2. k \in DOMAIN results
      BY <1>50, <3>1
    <3> QED  BY <1>5, <3>1, <3>2 DEF TotalsBounded
  <2> QED  BY <2>1, <2>2
<1>7. TotalsBounded'
  <2>1. TrueCost' = TrueCost /\ UpperCost' = UpperCost /\ \A k : MaskOf(k)' = MaskOf(k)
    OBVIOUS
  <2> QED  BY <1>5, <1>6, <2>1 DEF TotalsBounded
<1> QED  BY <1>2, <1>7 DEF Relaxed

LEMMA SameResults ==
  ASSUME TotalsBounded, UNCHANGED <<request, results>>
  PROVE  TotalsBounded'
BY DEF TotalsBounded

LEMMA QualityStep == QualityInv /\ [Next]_vars => QualityInv'
<1> SUFFICES ASSUME QualityInv, [Next]_vars PROVE Relaxed' /\ TotalsBounded'
  BY OptionStep DEF QualityInv
<1>1. LabelInv /\ Reached /\ Relaxed /\ TotalsBounded /\ TypeOK /\ request \in Request
  BY DEF QualityInv, OptionInv, LabelInv, TypeOK
<1>2. CASE NoCandidates
  <2>1. /\ pc = "call" /\ request' = request
        /\ StartNodes(request, mask) = {} \/ EndNodes(request, mask) = {}
        /\ \/ CanDirectWalk(request) /\ Return(OnFootTotal, DirectWalk)
           \/ ~CanDirectWalk(request) /\ Return(INF, << >>)
    BY <1>2 DEF NoCandidates, OnFootTotal
  <2>2. \A always \in BOOLEAN : CheapestTotal(request, mask, always) = IF CanDirectWalk(request) THEN OnFootTotal ELSE INF
    BY <1>1, <2>1, OnFootOnly
  <2>3. INF \in Nat /\ (CanDirectWalk(request) => OnFootTotal \in Nat)
    BY <1>1, WalkBelowInf, InfAssumption
  <2>4. ASSUME NEW t \in Nat, \A always \in BOOLEAN : CheapestTotal(request, mask, always) = t
        PROVE  CheapestTotal(request, mask, FALSE) <= t /\ t <= CheapestTotal(request, mask, TRUE)
    <3>1. CheapestTotal(request, mask, FALSE) = t /\ CheapestTotal(request, mask, TRUE) = t
      BY <2>4
    <3>2. t <= t
      OBVIOUS
    <3> QED  BY <3>1, <3>2
  <2> QED  BY <1>1, <2>1, <2>2, <2>3, <2>4, ReturnBounded
<1>3. CASE StartSearch
  BY <1>1, <1>3, StartSearchRelaxes, SameResults DEF StartSearch
<1>4. CASE PopDiscarded
  BY <1>1, <1>4, DropRelaxes, SameResults DEF PopDiscarded
<1>5. ASSUME NEW s \in pq, Expand(s) PROVE Relaxed' /\ TotalsBounded'
  BY <1>1, <1>5, ExpandRelaxes, SameResults DEF Expand
<1>6. ASSUME NEW e \in todo, Relax(e) PROVE Relaxed' /\ TotalsBounded'
  BY <1>1, <1>6, RelaxRelaxes, SameResults DEF Relax
<1>7. ASSUME NEW e \in todo, Pass(e) PROVE Relaxed' /\ TotalsBounded'
  BY <1>1, <1>7, PassRelaxes, SameResults DEF Pass
<1>8. ASSUME Searching, pq = {}, todo = {}
      PROVE  CheapestTotal(request, mask, FALSE) <= best_total /\ best_total <= CheapestTotal(request, mask, TRUE)
  BY <1>1, <1>8, NoCheaper, NoDearer
<1>9. CASE FinishWithoutStops
  <2>1. Searching /\ pq = {} /\ todo = {} /\ pc # "done" /\ request' = request
    BY <1>9 DEF FinishWithoutStops, SearchOver, Searching
  <2>2. \E segments : Return(best_total, segments)
    BY <1>9 DEF FinishWithoutStops
  <2> QED  BY <1>1, <1>8, <2>1, <2>2, ReturnBounded
<1>10. CASE FinishWithRoute
  <2>1. Searching /\ pq = {} /\ todo = {} /\ pc # "done" /\ request' = request
    BY <1>1, <1>10 DEF FinishWithRoute, Searching, LabelInv, Dormant
  <2>2. Return(best_total, Segments(path))
    BY <1>10 DEF FinishWithRoute
  <2> QED  BY <1>1, <1>8, <2>1, <2>2, ReturnBounded
<1>11. CASE BeginTrace \/ Trace \/ UNCHANGED vars
  <2>1. UNCHANGED <<request, results, search>> /\ (Searching' => Searching)
    BY <1>11 DEF BeginTrace, Trace, SearchOver, Searching, vars
  <2> QED  BY <1>1, <2>1, SearchedStays, SameResults
<1> QED
  BY <1>2, <1>3, <1>4, <1>5, <1>6, <1>7, <1>9, <1>10, <1>11 DEF Next

LEMMA QualityInitial == Init => QualityInv
<1> SUFFICES ASSUME Init PROVE Relaxed /\ TotalsBounded
  BY OptionInitial DEF QualityInv
<1>1. ~Searching /\ results = << >>
  BY DEF Init, Searching
<1> QED  BY <1>1 DEF Relaxed, TotalsBounded

\* Keeping one label per stop, and dropping what is no better than the best
\* total, cost FindPath nothing it could not be excused for: each total is at
\* least the cheapest route's, and at most what the cheapest route costs when
\* its rides are charged a change at the stops another vehicle of the mask
\* brings to as well: exact where no two trips of the modes meet.
THEOREM TotalsStayBounded == Spec => []TotalsBounded
<1>1. QualityInv => TotalsBounded
  BY DEF QualityInv
<1> QED  BY <1>1, QualityInitial, QualityStep, PTL DEF Spec

-----------------------------------------------------------------------------
(* The breaks of a route, in their order.                                  *)

UpTo(S, i) == {j \in S : j <= i}

LEMMA MoreUpToLater ==
  ASSUME NEW S, S \subseteq Int, IsFiniteSet(S), NEW i \in S, NEW j \in S, i < j
  PROVE  /\ Cardinality(UpTo(S, i)) \in Nat /\ Cardinality(UpTo(S, j)) \in Nat
         /\ Cardinality(UpTo(S, i)) < Cardinality(UpTo(S, j))
<1>1. i \in Int /\ j \in Int /\ ~(j <= i) /\ j <= j
  OBVIOUS
<1>2. \A x \in S : x <= i => x <= j
  BY <1>1
<1>3. /\ UpTo(S, i) \in SUBSET UpTo(S, j) /\ UpTo(S, j) \in SUBSET S
      /\ j \in UpTo(S, j) /\ j \notin UpTo(S, i)
  BY <1>1, <1>2, Zenon DEF UpTo
<1>4. IsFiniteSet(UpTo(S, j))
  BY <1>3, FS_Subset
<1>5. /\ IsFiniteSet(UpTo(S, i)) /\ Cardinality(UpTo(S, i)) <= Cardinality(UpTo(S, j))
      /\ Cardinality(UpTo(S, i)) = Cardinality(UpTo(S, j)) => UpTo(S, i) = UpTo(S, j)
  BY <1>3, <1>4, FS_Subset
<1>6. Cardinality(UpTo(S, i)) \in Nat /\ Cardinality(UpTo(S, j)) \in Nat
  BY <1>4, <1>5, FS_CardinalityType
<1> QED  BY <1>3, <1>5, <1>6

Begin(p, k) == IF k = 1 THEN 1 ELSE Break(p, k - 1)

\* The breaks are numbered in their order, the last is the end of the route,
\* and no break lies between a break and the next.
LEMMA BreaksInOrder ==
  ASSUME NEW p \in Seq(Stop)
  PROVE  LET B == Cardinality(Breaks(p)) IN
         /\ B \in Nat
         /\ \A k \in 1..B : Break(p, k) \in Breaks(p) /\ Cardinality(UpTo(Breaks(p), Break(p, k))) = k
         /\ \A i \in Breaks(p) : \E k \in 1..B : i = Break(p, k)
         /\ \A k \in 1..B : \A i \in Breaks(p) : ~(Begin(p, k) < i /\ i < Break(p, k))
         /\ \A k \in 1..B : Begin(p, k) \in Nat /\ Begin(p, k) < Break(p, k)
         /\ Len(p) >= 2 => B >= 1 /\ Break(p, B) = Len(p)
         /\ Len(p) < 2 => B = 0
<1> DEFINE S == Breaks(p)
           B == Cardinality(S)
           n == Len(p)
<1>1. /\ S \subseteq 2..n /\ IsFiniteSet(S) /\ B \in Nat /\ n \in Nat
      /\ \A k \in 1..B : Break(p, k) \in S
  BY BreaksFinite
<1>2. S \subseteq Int
  BY <1>1
<1>3. ASSUME NEW k \in 1..B PROVE Break(p, k) \in S /\ Cardinality(UpTo(S, Break(p, k))) = k
  <2>1. \E i \in S : Cardinality({j \in S : j <= i}) = k
    BY <1>1, <1>2, CountedOff
  <2> QED  BY <2>1, Zenon DEF Break, UpTo
<1>4. n >= 2 => n \in S
  BY <1>1 DEF Breaks
<1> HIDE DEF S, n
<1>20. \A x \in S : x \in Nat /\ 2 <= x /\ x <= n
  BY <1>1
<1>21. B = Cardinality(S)
  OBVIOUS
<1> HIDE DEF B
<1>5. ASSUME NEW i \in S PROVE Cardinality(UpTo(S, i)) \in 1..B
  <2>1. UpTo(S, i) \in SUBSET S /\ i \in UpTo(S, i)
    BY <1>2 DEF UpTo
  <2>2. IsFiniteSet(UpTo(S, i)) /\ Cardinality(UpTo(S, i)) <= B
    BY <1>1, <1>21, <2>1, FS_Subset
  <2>3. Cardinality(UpTo(S, i)) \in Nat /\ Cardinality(UpTo(S, i)) # 0
    BY <2>1, <2>2, FS_CardinalityType, FS_EmptySet
  <2> QED  BY <1>1, <2>2, <2>3
<1>6. ASSUME NEW i \in S, NEW j \in S, Cardinality(UpTo(S, i)) = Cardinality(UpTo(S, j)) PROVE i = j
  <2>1. ASSUME i < j PROVE FALSE
    <3>1. /\ Cardinality(UpTo(S, i)) \in Nat /\ Cardinality(UpTo(S, j)) \in Nat
          /\ Cardinality(UpTo(S, i)) < Cardinality(UpTo(S, j))
      BY <1>1, <1>2, <2>1, MoreUpToLater
    <3> QED  BY <1>6, <3>1
  <2>2. ASSUME j < i PROVE FALSE
    <3>1. /\ Cardinality(UpTo(S, i)) \in Nat /\ Cardinality(UpTo(S, j)) \in Nat
          /\ Cardinality(UpTo(S, j)) < Cardinality(UpTo(S, i))
      BY <1>1, <1>2, <2>2, MoreUpToLater
    <3> QED  BY <1>6, <3>1
  <2> QED  BY <1>20, <2>1, <2>2
<1>7. ASSUME NEW i \in S PROVE \E k \in 1..B : i = Break(p, k)
  <2>1. PICK k \in 1..B : k = Cardinality(UpTo(S, i))
    BY <1>5
  <2>2. Break(p, k) = i
    BY <1>3, <1>6, <2>1
  <2> QED  BY <2>2
<1>8. ASSUME NEW k \in 1..B, NEW i \in S PROVE ~(Begin(p, k) < i /\ i < Break(p, k))
  <2> SUFFICES ASSUME Begin(p, k) < i, i < Break(p, k) PROVE FALSE
    OBVIOUS
  <2>1. Cardinality(UpTo(S, i)) \in 1..B /\ Cardinality(UpTo(S, i)) < k
    BY <1>1, <1>2, <1>3, <1>5, MoreUpToLater
  <2>2. k # 1 /\ k - 1 \in 1..B
    BY <1>1, <2>1
  <2>3. Break(p, k - 1) < i /\ Break(p, k - 1) \in S /\ Cardinality(UpTo(S, Break(p, k - 1))) = k - 1
    BY <1>3, <2>2 DEF Begin
  <2>4. k - 1 < Cardinality(UpTo(S, i))
    BY <1>1, <1>2, <2>3, MoreUpToLater
  <2> QED  BY <2>1, <2>4
<1>9. ASSUME NEW k \in 1..B PROVE Begin(p, k) \in Nat /\ Begin(p, k) < Break(p, k)
  <2>1. Break(p, k) \in 2..n
    BY <1>1
  <2>2. CASE k = 1
    BY <2>1, <2>2 DEF Begin
  <2>3. CASE k # 1
    <3>1. k - 1 \in 1..B /\ Begin(p, k) = Break(p, k - 1)
      BY <1>1, <2>3 DEF Begin
    <3>2. Break(p, k - 1) \in S /\ Cardinality(UpTo(S, Break(p, k - 1))) = k - 1
      BY <1>3, <3>1
    <3>3. Break(p, k) \in S /\ Cardinality(UpTo(S, Break(p, k))) = k
      BY <1>3
    <3>4. ~(Break(p, k) < Break(p, k - 1)) /\ Break(p, k) # Break(p, k - 1)
      <4>1. ASSUME Break(p, k) < Break(p, k - 1) PROVE k < k - 1
        BY <1>1, <1>2, <3>2, <3>3, <4>1, MoreUpToLater
      <4> QED  BY <3>2, <3>3, <4>1
    <3>5. Break(p, k) \in Nat /\ Break(p, k - 1) \in Nat
      BY <1>20, <3>2, <3>3
    <3> QED  BY <3>1, <3>4, <3>5
  <2> QED  BY <2>2, <2>3
<1>10. n >= 2 => B >= 1 /\ Break(p, B) = n
  <2> SUFFICES ASSUME n >= 2 PROVE B >= 1 /\ Break(p, B) = n
    OBVIOUS
  <2>1. n \in S /\ UpTo(S, n) = S
    BY <1>4, <1>20 DEF UpTo
  <2>2. B \in 1..B
    BY <1>5, <1>21, <2>1
  <2>3. Break(p, B) = n
    BY <1>3, <1>6, <1>21, <2>1, <2>2
  <2> QED  BY <1>1, <2>2, <2>3
<1>11. n < 2 => B = 0
  <2>1. n < 2 => S = {}
    BY <1>1, <1>20
  <2> QED  BY <1>21, <2>1, FS_EmptySet
<1> QED  BY <1>1, <1>3, <1>7, <1>8, <1>9, <1>10, <1>11 DEF S, n, B

\* The stops of a ride behind its first were all reached by the trip of its
\* last.
LEMMA RideOfOneTrip ==
  ASSUME NEW p \in Seq(Stop), NEW k \in 1..Cardinality(Breaks(p)),
         NEW i \in Nat, Begin(p, k) < i, i <= Break(p, k)
  PROVE  info[p[i]].trip = info[p[Break(p, k)]].trip
<1> DEFINE b == Break(p, k)
           a == Begin(p, k)
           S == {d \in Nat : a < b - d => info[p[b - d]].trip = info[p[b]].trip}
<1>1. /\ b \in Breaks(p) /\ a \in Nat /\ a < b
      /\ \A j \in Breaks(p) : ~(a < j /\ j < b)
  BY BreaksInOrder
<1>2. b \in 2..Len(p) /\ Len(p) \in Nat /\ a >= 1
  <2>1. Breaks(p) \subseteq 2..Len(p)
    BY BreaksFinite
  <2>2. k = 1 \/ k - 1 \in 1..Cardinality(Breaks(p))
    BY BreaksFinite
  <2>3. k # 1 => Break(p, k - 1) \in Breaks(p)
    BY <2>2, BreaksFinite
  <2> QED  BY <1>1, <2>1, <2>3 DEF Begin
<1> HIDE DEF a, b
<1>3. 0 \in S
  BY <1>2
<1>4. ASSUME NEW d \in Nat, d \in S PROVE d + 1 \in S
  <2> SUFFICES ASSUME a < b - (d + 1) PROVE info[p[b - (d + 1)]].trip = info[p[b]].trip
    OBVIOUS
  <2> DEFINE j == b - (d + 1)
  <2>1. j \in Nat /\ a < j /\ j < b /\ j + 1 = b - d /\ a < b - d /\ j \in 2..Len(p) /\ j # Len(p)
    BY <1>1, <1>2
  <2>2. info[p[j + 1]].trip = info[p[b]].trip
    BY <1>4, <2>1
  <2> HIDE DEF j
  <2>3. j \notin Breaks(p)
    BY <1>1, <2>1
  <2>4. info[p[j + 1]].trip = info[p[j]].trip
    BY <2>1, <2>3 DEF Breaks
  <2> QED  BY <2>2, <2>4 DEF j
<1> HIDE DEF S
<1>5. \A d \in Nat : d \in S
  BY <1>3, <1>4, AllNaturals
<1>6. b - i \in Nat /\ b - (b - i) = i
  BY <1>2 DEF b
<1>7. b - i \in S
  BY <1>5, <1>6
<1> QED  BY <1>6, <1>7 DEF S, a, b

\* The segments of a route: the first walk, the rides from break to break, and
\* the last walk.
LEMMA WalkRidesWalk ==
  ASSUME NEW S, NEW a \in S, NEW b \in S, NEW n \in Nat, NEW f \in [1..n -> S]
  PROVE  LET s == <<a>> \o f \o <<b>> IN
         /\ Len(s) = n + 2 /\ DOMAIN s = 1..(n + 2)
         /\ s[1] = a /\ s[n + 2] = b
         /\ \A k \in 1..n : s[k + 1] = f[k]
<1>1. <<a>> \in Seq(S) /\ <<b>> \in Seq(S) /\ f \in Seq(S) /\ Len(f) = n
  OBVIOUS
<1>2. Len(<<a>>) = 1 /\ Len(<<b>>) = 1 /\ <<a>>[1] = a /\ <<b>>[1] = b
  OBVIOUS
<1> DEFINE x == <<a>>
           y == <<b>>
<1> HIDE DEF x, y
<1>3. x \in Seq(S) /\ y \in Seq(S) /\ Len(x) = 1 /\ Len(y) = 1 /\ x[1] = a /\ y[1] = b
  BY <1>1, <1>2 DEF x, y
<1>31. ASSUME NEW g \in Seq(S), Len(g) = n
       PROVE  /\ <<a>> \o g \in Seq(S) /\ Len(<<a>> \o g) = n + 1 /\ (<<a>> \o g)[1] = a
              /\ \A k \in 1..n : (<<a>> \o g)[k + 1] = g[k]
  <2>1. <<a>> \o g \in Seq(S)
    BY <1>31
  <2>2. Len(<<a>> \o g) = n + 1
    BY <1>31
  <2>3. (<<a>> \o g)[1] = a
    BY <1>31
  <2>4. ASSUME NEW k \in 1..n PROVE (<<a>> \o g)[k + 1] = g[k]
    BY <1>31
  <2> QED  BY <2>1, <2>2, <2>3, <2>4
<1>4. /\ x \o f \in Seq(S) /\ Len(x \o f) = n + 1 /\ (x \o f)[1] = a
      /\ \A k \in 1..n : (x \o f)[k + 1] = f[k]
  BY <1>1, <1>31 DEF x
<1> DEFINE z == x \o f
<1> HIDE DEF z
<1>5. /\ Len(z \o y) = n + 2 /\ DOMAIN (z \o y) = 1..(n + 2) /\ (z \o y)[1] = a /\ (z \o y)[n + 2] = b
      /\ \A k \in 1..n : (z \o y)[k + 1] = f[k]
  BY <1>3, <1>4 DEF z
<1> QED  BY <1>5 DEF x, y, z

RideSegment(p, k) ==
  Segment(At[p[Begin(p, k)]], At[p[Break(p, k)]], GetTripMode(info[p[Break(p, k)]].trip),
          Break(p, k) - Begin(p, k), info[p[Break(p, k)]].trip)
FirstWalk(p) == Segment(request.origin, At[p[1]], WALK, 0, WALK_TRIP)
LastWalk(p) == Segment(At[p[Len(p)]], request.destination, WALK, 0, WALK_TRIP)

LEMMA SegmentsInOrder ==
  ASSUME NEW p \in Seq(Stop)
  PROVE  LET B == Cardinality(Breaks(p))
             segs == Segments(p)
         IN  /\ B \in Nat /\ Len(segs) = B + 2 /\ DOMAIN segs = 1..(B + 2)
             /\ segs[1] = FirstWalk(p) /\ segs[B + 2] = LastWalk(p)
             /\ \A k \in 1..B : segs[k + 1] = RideSegment(p, k)
<1> DEFINE B == Cardinality(Breaks(p))
           rides == [k \in 1..B |-> RideSegment(p, k)]
           S == {FirstWalk(p), LastWalk(p)} \cup {RideSegment(p, k) : k \in 1..B}
<1>1. B \in Nat
  BY BreaksFinite
<1>2. FirstWalk(p) \in S /\ LastWalk(p) \in S /\ rides \in [1..B -> S]
  OBVIOUS
<1>3. Segments(p) = <<FirstWalk(p)>> \o rides \o <<LastWalk(p)>>
  BY DEF Segments, FirstWalk, LastWalk, RideSegment, Begin
<1>4. \A k \in 1..B : rides[k] = RideSegment(p, k)
  OBVIOUS
<1> HIDE DEF S, rides, B
<1>5. LET s == <<FirstWalk(p)>> \o rides \o <<LastWalk(p)>> IN
      /\ Len(s) = B + 2 /\ DOMAIN s = 1..(B + 2)
      /\ s[1] = FirstWalk(p) /\ s[B + 2] = LastWalk(p)
      /\ \A k \in 1..B : s[k + 1] = rides[k]
  BY <1>1, <1>2, WalkRidesWalk
<1> QED  BY <1>1, <1>3, <1>4, <1>5 DEF B

-----------------------------------------------------------------------------
(* Reading the route back.                                                 *)

ReadBack ==
  pc = "trace" =>
    /\ best_end_node \in Stop
    /\ path = << >> => curr = best_end_node
    /\ path # << >> => path[Len(path)] = best_end_node /\ info[path[1]].parent = curr
    /\ \A i \in 1..(Len(path) - 1) : info[path[i + 1]].parent = path[i]

LEMMA TraceReadsBack ==
  ASSUME TypeOK, ReadBack, Trace
  PROVE  ReadBack'
<1>1. /\ pc = "trace" /\ curr \in Stop /\ path \in Seq(Stop) /\ info' = info
      /\ path' = <<curr>> \o path /\ curr' = info[curr].parent /\ best_end_node' = best_end_node
      /\ best_end_node \in Stop
  BY DEF Trace, TypeOK, search, ReadBack
<1>2. /\ Len(path') = Len(path) + 1 /\ path' # << >> /\ path'[1] = curr /\ Len(path) \in Nat
      /\ \A i \in 1..Len(path) : path'[i + 1] = path[i]
  BY <1>1
<1>3. path'[Len(path')] = best_end_node
  <2>1. CASE path = << >>
    BY <1>1, <1>2, <2>1 DEF ReadBack
  <2>2. CASE path # << >>
    <3>1. Len(path) \in 1..Len(path)
      BY <1>1, <2>2
    <3> QED  BY <1>1, <1>2, <2>2, <3>1 DEF ReadBack
  <2> QED  BY <2>1, <2>2
<1>4. ASSUME NEW i \in 1..(Len(path') - 1) PROVE info[path'[i + 1]].parent = path'[i]
  <2>1. i \in 1..Len(path) /\ path'[i + 1] = path[i]
    BY <1>2
  <2>2. CASE i = 1
    <3>1. path # << >>
      BY <2>1
    <3> QED  BY <1>1, <1>2, <2>1, <2>2, <3>1 DEF ReadBack
  <2>3. CASE i # 1
    <3>1. i - 1 \in 1..(Len(path) - 1) /\ i - 1 \in 1..Len(path) /\ (i - 1) + 1 = i
      BY <1>2, <2>1, <2>3
    <3>2. path'[i] = path[i - 1]
      BY <1>2, <3>1
    <3>3. info[path[(i - 1) + 1]].parent = path[i - 1]
      BY <1>1, <3>1 DEF ReadBack
    <3> QED  BY <2>1, <3>1, <3>2, <3>3
  <2> QED  BY <2>2, <2>3
<1> QED  BY <1>1, <1>2, <1>3, <1>4 DEF ReadBack

LEMMA OthersReadNothing ==
  ASSUME TypeOK, Reached, ReadBack, [Next]_vars, ~Trace
  PROVE  ReadBack'
<1>1. CASE BeginTrace
  <2>1. best_end_node' \in Stop /\ path' = << >> /\ curr' = best_end_node' /\ Len(<< >>) = 0
    BY <1>1 DEF BeginTrace, SearchOver, Reached, search
  <2> QED  BY <2>1 DEF ReadBack
<1>2. CASE UNCHANGED vars
  BY <1>2 DEF vars, search, trace, ReadBack
<1>3. ASSUME pc' # "trace" PROVE ReadBack'
  BY <1>3 DEF ReadBack
<1>4. CASE NoCandidates \/ FinishWithoutStops \/ FinishWithRoute
  BY <1>3, <1>4 DEF NoCandidates, FinishWithoutStops, FinishWithRoute, Return
<1>5. CASE StartSearch \/ PopDiscarded \/ (\E s \in pq : Expand(s)) \/ (\E e \in todo : Relax(e) \/ Pass(e))
  BY <1>3, <1>5 DEF StartSearch, PopDiscarded, Expand, Relax, Pass
<1> QED  BY <1>1, <1>2, <1>4, <1>5 DEF Next

\* An edge's weight is that of its ends and its trip.
LEMMA OneWeight ==
  ASSUME NEW e \in Edges, NEW f \in Edges, e.from = f.from, e.to = f.to, e.trip = f.trip
  PROVE  e.weight = f.weight
<1>1. ASSUME NEW x \in Edges
      PROVE  x.weight = IF x.trip = WALK_TRIP THEN WalkTime(At[x.from], At[x.to])
                        ELSE RideTime(x.trip, x.from, x.to)
  <2>1. ASSUME NEW t \in Trip, NEW u \in Stop, NEW v \in Stop, x = RideEdge(t, u, v)
        PROVE  x.weight = RideTime(x.trip, x.from, x.to) /\ x.trip # WALK_TRIP
    BY <2>1, TripAssumption DEF RideEdge
  <2>2. ASSUME NEW u \in Stop, NEW v \in Stop, x = WalkEdge(u, v)
        PROVE  x.weight = WalkTime(At[x.from], At[x.to]) /\ x.trip = WALK_TRIP
    BY <2>2 DEF WalkEdge
  <2> QED  BY <2>1, <2>2, EdgeCases
<1> QED  BY <1>1, Zenon

LEMMA LeastOfOne == ASSUME NEW n \in Nat PROVE Min({n}) = n
  BY LeastIsMember

\* A route read back begins on foot, goes on by an edge of the trip each stop
\* is labelled with, at that edge's price, and ends where the best total is.
RouteRead(p) ==
  /\ p \in Seq(Stop) /\ p # << >>
  /\ \A i \in 1..Len(p) : p[i] \in Stop /\ Labelled(p[i])
  /\ info[p[1]].g = FromOrigin(p[1]) /\ info[p[1]].trip = WALK_TRIP
  /\ \A i \in 1..(Len(p) - 1) :
       \E e \in Outgoing(p[i]) :
         /\ e.to = p[i + 1] /\ e.mode \in mask /\ e.trip = info[p[i + 1]].trip
         /\ info[p[i + 1]].g = info[p[i]].g + StepCost(info[p[i]].trip, e)
  /\ best_end_node = p[Len(p)] /\ best_total = info[p[Len(p)]].g + ToDestination(p[Len(p)])

LEMMA RouteIsRead ==
  ASSUME LabelInv, Reached, ReadBack, pc = "trace", curr = -1
  PROVE  RouteRead(path)
<1> DEFINE p == path
           n == Len(p)
<1>1. /\ p \in Seq(Stop) /\ p # << >> /\ best_end_node \in Stop /\ info[p[1]].parent = -1
      /\ p[n] = best_end_node
      /\ \A i \in 1..(n - 1) : info[p[i + 1]].parent = p[i]
      /\ \A i \in DOMAIN p : Labelled(p[i])
  BY DEF LabelInv, TypeOK, Reached, ReadBack
<1>2. /\ n \in Nat /\ n >= 1 /\ \A i \in 1..n : p[i] \in Stop /\ Labelled(p[i])
      /\ 1 \in 1..n /\ n \in 1..n
  BY <1>1
<1>3. best_total = info[best_end_node].g + ToDestination(best_end_node)
  BY <1>1 DEF LabelInv, LabelsRealised
<1>4. ASSUME NEW i \in 1..n PROVE Realised(p[i], StartNodes(request, mask))
  <2>1. Unlabelled.trip = ""
    BY DEF Unlabelled
  <2>2. info[p[i]] # Unlabelled
    BY <1>2, <2>1 DEF Labelled
  <2> QED  BY <1>2, <2>2 DEF LabelInv, LabelsRealised
<1> HIDE DEF p, n
<1>5. info[p[1]].g = FromOrigin(p[1]) /\ info[p[1]].trip = WALK_TRIP
  BY <1>1, <1>2, <1>4 DEF Realised
<1>6. ASSUME NEW i \in 1..(n - 1)
      PROVE  \E e \in Outgoing(p[i]) :
               /\ e.to = p[i + 1] /\ e.mode \in mask /\ e.trip = info[p[i + 1]].trip
               /\ info[p[i + 1]].g = info[p[i]].g + StepCost(info[p[i]].trip, e)
  <2>1. i \in 1..n /\ i + 1 \in 1..n /\ info[p[i + 1]].parent = p[i]
    BY <1>1, <1>2
  <2>2. p[i] # -1
    BY <1>2, <2>1, StopAssumption
  <2> QED  BY <1>4, <2>1, <2>2 DEF Realised
<1> QED  BY <1>1, <1>2, <1>3, <1>5, <1>6 DEF RouteRead, p, n

\* Where a route changes from one vehicle to another.
Transfers(p) ==
  {i \in 1..(Len(p) - 1) :
     /\ info[p[i]].trip # WALK_TRIP /\ info[p[i + 1]].trip # WALK_TRIP
     /\ info[p[i]].trip # info[p[i + 1]].trip}

LEMMA StepOfRoute ==
  ASSUME TypeOK, NEW p, RouteRead(p), NEW i \in 1..(Len(p) - 1)
  PROVE  /\ RideCost(p, i) \in Nat
         /\ info[p[i]].g \in Nat
         /\ info[p[i + 1]].g = info[p[i]].g + RideCost(p, i) + (IF i \in Transfers(p) THEN 120 ELSE 0)
<1>1. PICK e \in Outgoing(p[i]) :
         /\ e.to = p[i + 1] /\ e.mode \in mask /\ e.trip = info[p[i + 1]].trip
         /\ info[p[i + 1]].g = info[p[i]].g + StepCost(info[p[i]].trip, e)
  BY DEF RouteRead
<1>2. e \in Edges /\ e.weight \in Nat /\ e.from = p[i]
  BY EdgeType DEF Outgoing
<1>30. p \in Seq(Stop) /\ \A j \in 1..Len(p) : p[j] \in Stop /\ info[p[j]].trip # ""
  BY DEF RouteRead, Labelled
<1>33. p \in Seq(Stop)
  BY <1>30
<1>32. Len(p) \in Nat
  BY <1>33
<1>31. i \in 1..Len(p)
  BY <1>32
<1>3. Len(p) \in Nat /\ i \in 1..Len(p) /\ p[i] \in Stop /\ info[p[i]].trip # ""
  BY <1>30, <1>31, <1>32
<1>4. info[p[i]].g \in Nat
  BY <1>3 DEF TypeOK, PathInfo
<1> DEFINE all == {x \in Outgoing(p[i]) : x.to = p[i + 1] /\ x.trip = info[p[i + 1]].trip /\ x.mode \in mask}
<1>5. \A x \in all : x.weight = e.weight
  BY <1>1, <1>2, OneWeight DEF Outgoing
<1>6. e \in all
  BY <1>1
<1> HIDE DEF all
<1>7. {x.weight : x \in all} = {e.weight}
  BY <1>5, <1>6
<1>8. RideCost(p, i) = e.weight
  BY <1>2, <1>7, LeastOfOne DEF RideCost, all
<1>9. StepCost(info[p[i]].trip, e) = e.weight + (IF i \in Transfers(p) THEN 120 ELSE 0)
  BY <1>1, <1>3 DEF StepCost, Transfers, TRANSFER_PENALTY
<1> QED  BY <1>1, <1>2, <1>4, <1>8, <1>9

\* Costs added up stop by stop.
LEMMA OneMore ==
  ASSUME NEW k \in Nat, NEW w, \A i \in 1..(k + 1) : w[i] \in Nat
  PROVE  SumFunctionOnSet(w, 1..(k + 1)) = SumFunctionOnSet(w, 1..k) + w[k + 1]
<1>1. 1 \in Int /\ k \in Int
  OBVIOUS
<1>2. IsFiniteSet(1..k)
  BY <1>1, FS_Interval
<1>3. k + 1 \notin 1..k /\ (1..k) \cup {k + 1} = 1..(k + 1)
  OBVIOUS
<1> DEFINE D == 1..k
           x == k + 1
<1>4. IsFiniteSet(D) /\ x \notin D /\ D \cup {x} = 1..(k + 1)
  BY <1>2, <1>3
<1>5. Naturals(w, D \cup {x})
  BY <1>4 DEF Naturals
<1> HIDE DEF D, x
<1>6. SumFunctionOnSet(w, D \cup {x}) = SumFunctionOnSet(w, D) + w[x]
  BY <1>4, <1>5, SumWith
<1> QED  BY <1>4, <1>6 DEF D, x

LEMMA OneUp ==
  ASSUME NEW k \in Nat, NEW T, \A j \in T : j \in Int
  PROVE  /\ k + 1 \in T => UpTo(T, k + 1) = UpTo(T, k) \cup {k + 1} /\ k + 1 \notin UpTo(T, k)
         /\ k + 1 \notin T => UpTo(T, k + 1) = UpTo(T, k)
<1>1. \A j \in T : j <= k + 1 <=> j <= k \/ j = k + 1
  OBVIOUS
<1>2. ~(k + 1 <= k)
  OBVIOUS
<1> QED  BY <1>1, <1>2, Zenon DEF UpTo

AddsUp(n, g, w, T) ==
  /\ T \subseteq 1..n /\ g[1] \in Nat /\ \A i \in 1..n : w[i] \in Nat
  /\ \A i \in 1..n : g[i + 1] = g[i] + w[i] + (IF i \in T THEN 120 ELSE 0)

LEMMA Telescope ==
  ASSUME NEW n \in Nat, NEW g, NEW w, NEW T, AddsUp(n, g, w, T)
  PROVE  /\ g[n + 1] = g[1] + SumFunctionOnSet(w, 1..n) + 120 * Cardinality(T)
         /\ SumFunctionOnSet(w, 1..n) \in Nat /\ Cardinality(T) \in Nat
<1> DEFINE Holds(k) == /\ SumFunctionOnSet(w, 1..k) \in Nat /\ Cardinality(UpTo(T, k)) \in Nat
                       /\ IsFiniteSet(UpTo(T, k))
                       /\ g[k + 1] = g[1] + SumFunctionOnSet(w, 1..k) + 120 * Cardinality(UpTo(T, k))
           S == {k \in Nat : k <= n => Holds(k)}
<1>20. /\ T \subseteq 1..n /\ g[1] \in Nat /\ \A i \in 1..n : w[i] \in Nat
      /\ \A i \in 1..n : g[i + 1] = g[i] + w[i] + (IF i \in T THEN 120 ELSE 0)
  BY DEF AddsUp
<1>0. \A j \in T : j \in Int /\ 1 <= j /\ j <= n
  BY <1>20
<1>1. 0 \in S
  <2>0. 1..0 = {}
    OBVIOUS
  <2>1. \A j \in T : ~(j <= 0)
    BY <1>0
  <2>2. UpTo(T, 0) = {}
    BY <2>1, Zenon DEF UpTo
  <2>3. SumFunctionOnSet(w, 1..0) = 0 /\ Cardinality(UpTo(T, 0)) = 0 /\ IsFiniteSet(UpTo(T, 0))
    BY <2>0, <2>2, SumOfNone, FS_EmptySet
  <2> QED  BY <1>20, <2>3
<1>2. ASSUME NEW k \in Nat, k \in S PROVE k + 1 \in S
  <2> SUFFICES ASSUME k + 1 <= n PROVE Holds(k + 1)
    OBVIOUS
  <2>1. Holds(k) /\ k + 1 \in 1..n /\ w[k + 1] \in Nat
    BY <1>20, <1>2
  <2> DEFINE x == SumFunctionOnSet(w, 1..k)
             y == SumFunctionOnSet(w, 1..(k + 1))
             c == Cardinality(UpTo(T, k))
             d == Cardinality(UpTo(T, k + 1))
             z == w[k + 1]
  <2>2. y = x + z
    <3>1. \A i \in 1..(k + 1) : w[i] \in Nat
      BY <1>20, <2>1
    <3> QED  BY <3>1, OneMore
  <2>3. IsFiniteSet(UpTo(T, k + 1)) /\ d = c + (IF k + 1 \in T THEN 1 ELSE 0)
    <3>1. CASE k + 1 \in T
      <4>1. UpTo(T, k + 1) = UpTo(T, k) \cup {k + 1} /\ k + 1 \notin UpTo(T, k)
        BY <1>0, <3>1, OneUp
      <4> QED  BY <2>1, <3>1, <4>1, FS_AddElement
    <3>2. CASE k + 1 \notin T
      <4>1. UpTo(T, k + 1) = UpTo(T, k)
        BY <1>0, <3>2, OneUp
      <4>2. d = c /\ IsFiniteSet(UpTo(T, k + 1)) /\ c \in Nat
        BY <2>1, <4>1
      <4> HIDE DEF c, d
      <4> QED  BY <3>2, <4>2
    <3> QED  BY <3>1, <3>2
  <2>4. g[(k + 1) + 1] = g[k + 1] + z + (IF k + 1 \in T THEN 120 ELSE 0)
    BY <1>20, <2>1
  <2>5. x \in Nat /\ c \in Nat /\ z \in Nat /\ g[k + 1] = g[1] + x + 120 * c
    BY <2>1
  <2> HIDE DEF x, y, c, d, z
  <2>6. y \in Nat /\ d \in Nat /\ g[(k + 1) + 1] = g[1] + y + 120 * d
    BY <1>20, <2>2, <2>3, <2>4, <2>5
  <2> QED  BY <2>3, <2>6 DEF x, y, c, d, z
<1> HIDE DEF S
<1>3. n \in S
  BY <1>1, <1>2, AllNaturals
<1>4. Holds(n)
  BY <1>3 DEF S
<1>5. UpTo(T, n) = T
  BY <1>0, Zenon DEF UpTo
<1> QED  BY <1>4, <1>5

LEMMA RideFields ==
  ASSUME NEW p, NEW k
  PROVE  /\ RideSegment(p, k).from = At[p[Begin(p, k)]] /\ RideSegment(p, k).to = At[p[Break(p, k)]]
         /\ RideSegment(p, k).trip = info[p[Break(p, k)]].trip
BY DEF RideSegment, Segment

\* Each change of segment from one vehicle to another is a transfer the route
\* pays for, and each transfer is such a change.
ChangesOf(segs) ==
  {k \in 2..(Len(segs) - 2) : segs[k].trip # WALK_TRIP /\ segs[k + 1].trip # WALK_TRIP}

LEMMA ChangeIsTransfer ==
  ASSUME NEW p, RouteRead(p), NEW k \in 2..Cardinality(Breaks(p))
  PROVE  /\ Break(p, k - 1) \in 1..(Len(p) - 1)
         /\ info[p[Break(p, k - 1) + 1]].trip = info[p[Break(p, k)]].trip
         /\ info[p[Break(p, k - 1) + 1]].trip # info[p[Break(p, k - 1)]].trip
<1> DEFINE i == Break(p, k - 1)
           j == Break(p, k)
           B == Cardinality(Breaks(p))
<1>1. p \in Seq(Stop)
  BY DEF RouteRead
<1>2. Len(p) \in Nat /\ B \in Nat /\ Breaks(p) \subseteq 2..Len(p)
  BY <1>1, BreaksFinite
<1>3. k \in 1..B /\ k - 1 \in 1..B /\ k # 1
  BY <1>2
<1>4. i \in Breaks(p) /\ j \in Breaks(p) /\ i < j /\ Begin(p, k) = i
  <2>1. i \in Breaks(p) /\ j \in Breaks(p) /\ Begin(p, k) < j
    BY <1>1, <1>3, BreaksInOrder
  <2>2. Begin(p, k) = i
    BY <1>3 DEF Begin
  <2> QED  BY <2>1, <2>2
<1> HIDE DEF i, j, B
<1>5. i \in 2..Len(p) /\ j \in 2..Len(p)
  BY <1>2, <1>4
<1>6. i \in 1..(Len(p) - 1) /\ i # Len(p) /\ i + 1 \in Nat /\ i < i + 1 /\ i + 1 <= j
  BY <1>2, <1>4, <1>5
<1>7. info[p[i + 1]].trip = info[p[j]].trip
  BY <1>1, <1>3, <1>4, <1>6, RideOfOneTrip DEF B, j
<1>8. info[p[i + 1]].trip # info[p[i]].trip
  BY <1>4, <1>6 DEF Breaks
<1> QED  BY <1>6, <1>7, <1>8 DEF i, j

LEMMA TransferIsChange ==
  ASSUME NEW p, RouteRead(p), NEW i \in Transfers(p)
  PROVE  \E k \in 2..Cardinality(Breaks(p)) : i = Break(p, k - 1)
<1> DEFINE B == Cardinality(Breaks(p))
           n == Len(p)
<1>1. p \in Seq(Stop) /\ info[p[1]].trip = WALK_TRIP
  BY DEF RouteRead
<1>2. n \in Nat /\ i \in 1..(n - 1) /\ info[p[i]].trip # WALK_TRIP /\ info[p[i + 1]].trip # info[p[i]].trip
  BY <1>1 DEF Transfers
<1> HIDE DEF n
<1>3. i # 1 /\ i # n /\ i \in 2..n /\ n >= 2
  BY <1>1, <1>2
<1>4. i \in Breaks(p)
  BY <1>2, <1>3 DEF Breaks, n
<1>5. PICK j \in 1..B : i = Break(p, j)
  BY <1>1, <1>4, BreaksInOrder
<1>6. B \in Nat /\ B >= 1 /\ Break(p, B) = n
  BY <1>1, <1>3, BreaksInOrder DEF n
<1> HIDE DEF B
<1>7. j # B
  BY <1>3, <1>5, <1>6
<1>8. j + 1 \in 2..B /\ (j + 1) - 1 = j
  BY <1>5, <1>6, <1>7
<1>9. i = Break(p, (j + 1) - 1)
  BY <1>5, <1>8
<1> QED  BY <1>8, <1>9 DEF B

LEMMA AsManyChanges ==
  ASSUME NEW p, RouteRead(p)
  PROVE  Cardinality(ChangesOf(Segments(p))) = Cardinality(Transfers(p))
<1> DEFINE B == Cardinality(Breaks(p))
           segs == Segments(p)
           C == ChangesOf(segs)
           T == Transfers(p)
<1>1. p \in Seq(Stop)
  BY DEF RouteRead
<1>2. /\ B \in Nat /\ Len(segs) = B + 2
      /\ \A k \in 1..B : segs[k + 1] = RideSegment(p, k)
  BY <1>1, SegmentsInOrder
<1> HIDE DEF segs
<1>3. \A k \in 1..B : segs[k + 1].trip = info[p[Break(p, k)]].trip
  BY <1>2, RideFields, Zenon
<1>4. ASSUME NEW k \in 2..B
      PROVE  segs[k].trip = info[p[Break(p, k - 1)]].trip /\ segs[k + 1].trip = info[p[Break(p, k)]].trip
  <2> HIDE DEF B
  <2>1. k \in 1..B /\ k - 1 \in 1..B /\ (k - 1) + 1 = k
    BY <1>2
  <2> QED  BY <1>3, <2>1
<1>5. C = {k \in 2..B : segs[k].trip # WALK_TRIP /\ segs[k + 1].trip # WALK_TRIP}
  <2>1. Len(segs) - 2 = B
    BY <1>2
  <2> QED  BY <2>1 DEF ChangesOf
<1>6. \A k \in 2..B : k \in C <=> Break(p, k - 1) \in T
  <2> TAKE k \in 2..B
  <2>1. /\ Break(p, k - 1) \in 1..(Len(p) - 1)
        /\ info[p[Break(p, k - 1) + 1]].trip = info[p[Break(p, k)]].trip
        /\ info[p[Break(p, k - 1) + 1]].trip # info[p[Break(p, k - 1)]].trip
    BY ChangeIsTransfer
  <2>2. k \in C <=> segs[k].trip # WALK_TRIP /\ segs[k + 1].trip # WALK_TRIP
    BY <1>5
  <2> QED  BY <1>4, <2>1, <2>2 DEF Transfers
<1> DEFINE f == [k \in C |-> Break(p, k - 1)]
<1>7. \A k \in C : k \in 2..B /\ f[k] = Break(p, k - 1) /\ f[k] \in T
  BY <1>5, <1>6
<1>8. ASSUME NEW k \in C, NEW l \in C, f[k] = f[l] PROVE k = l
  <2>1. k \in 2..B /\ l \in 2..B /\ Break(p, k - 1) = Break(p, l - 1)
    BY <1>7, <1>8
  <2>2. k - 1 \in 1..B /\ l - 1 \in 1..B /\ k \in Int /\ l \in Int
    BY <1>2, <2>1
  <2>3. /\ Cardinality(UpTo(Breaks(p), Break(p, k - 1))) = k - 1
        /\ Cardinality(UpTo(Breaks(p), Break(p, l - 1))) = l - 1
    BY <1>1, <2>2, BreaksInOrder
  <2>4. k - 1 = l - 1
    BY <2>1, <2>3
  <2> QED  BY <2>2, <2>4
<1>9. ASSUME NEW i \in T PROVE \E k \in C : f[k] = i
  <2>1. PICK k \in 2..B : i = Break(p, k - 1)
    BY <1>9, TransferIsChange
  <2>2. k \in C
    BY <1>6, <2>1
  <2> QED  BY <1>7, <2>1, <2>2
<1>10. DOMAIN f = C
  OBVIOUS
<1>11. f \in [C -> T]
  BY <1>7
<1>12. IsFiniteSet(C)
  <2>1. 2 \in Int /\ B \in Int
    BY <1>2
  <2> HIDE DEF B
  <2>2. IsFiniteSet(2..B) /\ C \in SUBSET (2..B)
    BY <1>5, <2>1, FS_Interval
  <2> QED  BY <2>2, FS_Subset
<1> HIDE DEF C, T, f
<1>13. f \in Bijection(C, T)
  BY <1>8, <1>9, <1>11, Zenon DEF Bijection, Injection, Surjection, IsInjective
<1>14. ExistsBijection(C, T)
  BY <1>13 DEF ExistsBijection
<1>15. Cardinality(T) = Cardinality(C)
  BY <1>12, <1>14, FS_Bijection
<1> QED  BY <1>15 DEF C, T, segs

\* A segment ends where the next begins.
LEMMA SegmentsConnect ==
  ASSUME NEW p, RouteRead(p)
  PROVE  \A k \in 1..(Len(Segments(p)) - 1) : Segments(p)[k].to = Segments(p)[k + 1].from
<1> DEFINE B == Cardinality(Breaks(p))
           segs == Segments(p)
<1>1. p \in Seq(Stop) /\ p # << >>
  BY DEF RouteRead
<1>2. /\ B \in Nat /\ Len(segs) = B + 2
      /\ segs[1] = FirstWalk(p) /\ segs[B + 2] = LastWalk(p)
      /\ \A k \in 1..B : segs[k + 1] = RideSegment(p, k)
  BY <1>1, SegmentsInOrder
<1>3. Len(p) \in Nat /\ Len(p) >= 1 /\ (Len(p) >= 2 => B >= 1 /\ Break(p, B) = Len(p)) /\ (Len(p) < 2 => B = 0)
  <2>1. Len(p) \in Nat /\ Len(p) >= 1
    BY <1>1
  <2> QED  BY <1>1, <2>1, BreaksInOrder
<1>4. \A k \in 1..B : segs[k + 1].to = At[p[Break(p, k)]] /\ segs[k + 1].from = At[p[Begin(p, k)]]
  BY <1>2, RideFields, Zenon
<1>5. segs[1].to = At[p[1]] /\ segs[B + 2].from = At[p[Len(p)]]
  BY <1>2 DEF FirstWalk, LastWalk, Segment
<1> HIDE DEF segs, B
<1>6. ASSUME NEW k \in 1..(B + 1) PROVE segs[k].to = segs[k + 1].from
  <2>1. CASE k = 1 /\ B = 0
    <3>0. ~(Len(p) >= 2) /\ Len(p) \in Nat /\ Len(p) >= 1
      BY <1>3, <2>1
    <3>9. \A n \in Nat : ~(n >= 2) /\ n >= 1 => n = 1
      OBVIOUS
    <3>8. Len(p) = 1
      BY <3>0, <3>9, Zenon
    <3>7. k + 1 = B + 2
      BY <2>1
    <3>1. Len(p) = 1 /\ k + 1 = B + 2
      BY <3>7, <3>8
    <3> QED  BY <1>5, <2>1, <3>1
  <2>2. CASE k = 1 /\ B # 0
    <3>1. 1 \in 1..B /\ Begin(p, 1) = 1
      BY <1>2, <2>2 DEF Begin
    <3> QED  BY <1>4, <1>5, <2>2, <3>1
  <2>3. CASE k # 1 /\ k = B + 1
    <3>1. B \in 1..B /\ k + 1 = B + 2 /\ Break(p, B) = Len(p)
      BY <1>2, <1>3, <2>3
    <3> QED  BY <1>4, <1>5, <2>3, <3>1
  <2>4. CASE k # 1 /\ k # B + 1
    <3>1. k \in 1..B /\ k - 1 \in 1..B /\ (k - 1) + 1 = k
      BY <1>2, <2>4
    <3>2. Begin(p, k) = Break(p, k - 1)
      BY <2>4 DEF Begin
    <3>3. segs[(k - 1) + 1].to = At[p[Break(p, k - 1)]] /\ segs[k + 1].from = At[p[Begin(p, k)]]
      BY <1>4, <3>1
    <3> QED  BY <3>1, <3>2, <3>3
  <2> QED  BY <2>1, <2>2, <2>3, <2>4
<1>7. Len(segs) - 1 = B + 1
  BY <1>2
<1> QED  BY <1>6, <1>7 DEF segs

\* The total of a route, stop by stop.
LEMMA TotalOfRoute ==
  ASSUME TypeOK, NEW p, RouteRead(p)
  PROVE  best_total = FromOrigin(p[1]) + ToDestination(p[Len(p)])
                      + SumFunctionOnSet([i \in 1..(Len(p) - 1) |-> RideCost(p, i)], 1..(Len(p) - 1))
                      + 120 * Cardinality(Transfers(p))
<1> DEFINE n == Len(p) - 1
           w == [i \in 1..n |-> RideCost(p, i)]
           g == [i \in 1..(n + 1) |-> info[p[i]].g]
           T == Transfers(p)
<1>1. p \in Seq(Stop) /\ p # << >>
  BY DEF RouteRead
<1>2. n \in Nat /\ n + 1 = Len(p) /\ Len(p) \in Nat /\ 1 \in 1..(n + 1)
  BY <1>1
<1>3. \A i \in 1..n : RideCost(p, i) \in Nat
                      /\ info[p[i + 1]].g = info[p[i]].g + RideCost(p, i) + (IF i \in T THEN 120 ELSE 0)
  BY StepOfRoute
<1>4. p[1] \in Stop /\ p[Len(p)] \in Stop /\ info[p[1]].g = FromOrigin(p[1])
  <2>1. 1 \in 1..Len(p) /\ Len(p) \in 1..Len(p)
    BY <1>1
  <2> QED  BY <1>1, <2>1 DEF RouteRead
<1>5. T \subseteq 1..n
  BY DEF Transfers
<1>6. best_total = info[p[n + 1]].g + ToDestination(p[Len(p)])
  BY <1>2 DEF RouteRead
<1>60. FromOrigin(p[1]) \in Nat /\ ToDestination(p[Len(p)]) \in Nat
  BY <1>4, CostTypes DEF TypeOK
<1> HIDE DEF n, T
<1>7. \A i \in 1..n : w[i] = RideCost(p, i)
  OBVIOUS
<1>8. \A i \in 1..(n + 1) : g[i] = info[p[i]].g
  OBVIOUS
<1>9. \A i \in 1..n : i \in 1..(n + 1) /\ i + 1 \in 1..(n + 1)
  BY <1>2
<1> HIDE DEF w, g
<1>10. /\ g[1] \in Nat /\ g[1] = FromOrigin(p[1]) /\ g[n + 1] = info[p[n + 1]].g
       /\ \A i \in 1..n : w[i] \in Nat
       /\ \A i \in 1..n : g[i + 1] = g[i] + w[i] + (IF i \in T THEN 120 ELSE 0)
  <2>1. n + 1 \in 1..(n + 1)
    BY <1>2
  <2>2. g[1] \in Nat /\ g[1] = FromOrigin(p[1]) /\ g[n + 1] = info[p[n + 1]].g
    BY <1>2, <1>4, <1>60, <1>8, <2>1
  <2>3. \A i \in 1..n : w[i] \in Nat
    BY <1>3, <1>7
  <2>4. ASSUME NEW i \in 1..n PROVE g[i + 1] = g[i] + w[i] + (IF i \in T THEN 120 ELSE 0)
    BY <1>3, <1>7, <1>8, <1>9
  <2> QED  BY <2>2, <2>3, <2>4
<1>11. /\ g[n + 1] = g[1] + SumFunctionOnSet(w, 1..n) + 120 * Cardinality(T)
       /\ SumFunctionOnSet(w, 1..n) \in Nat /\ Cardinality(T) \in Nat
  <2>1. AddsUp(n, g, w, T)
    BY <1>5, <1>10, Zenon DEF AddsUp
  <2> QED  BY <1>2, <2>1, Telescope
<1> DEFINE a == FromOrigin(p[1])
           b == ToDestination(p[Len(p)])
           c == SumFunctionOnSet(w, 1..n)
           d == Cardinality(T)
<1>12. a \in Nat /\ b \in Nat /\ c \in Nat /\ d \in Nat /\ best_total = (a + c + 120 * d) + b
  BY <1>6, <1>10, <1>11, <1>60
<1> HIDE DEF a, b, c, d
<1>13. best_total = a + b + c + 120 * d
  BY <1>12
<1> QED  BY <1>13 DEF a, b, c, d, w, n, T

LEMMA ReadRouteAccounts == OptionInv /\ ReadBack => SegmentsAccountForTotal
<1> SUFFICES ASSUME OptionInv, ReadBack, pc = "trace", curr = -1
             PROVE  LET segs == Segments(path) IN
                    /\ path[Len(path)] = best_end_node
                    /\ best_total = FromOrigin(path[1]) + ToDestination(best_end_node)
                                    + SumFunction([i \in 1..(Len(path) - 1) |-> RideCost(path, i)])
                                    + TRANSFER_PENALTY * Cardinality(ChangesOf(segs))
                    /\ \A k \in 1..(Len(segs) - 1) : segs[k].to = segs[k + 1].from
  BY DEF SegmentsAccountForTotal, ChangesOf
<1>1. TypeOK /\ RouteRead(path)
  BY RouteIsRead DEF OptionInv, LabelInv
<1>2. path[Len(path)] = best_end_node
  BY <1>1 DEF RouteRead
<1>3. Cardinality(ChangesOf(Segments(path))) = Cardinality(Transfers(path))
  BY <1>1, AsManyChanges
<1>4. SumFunction([i \in 1..(Len(path) - 1) |-> RideCost(path, i)])
      = SumFunctionOnSet([i \in 1..(Len(path) - 1) |-> RideCost(path, i)], 1..(Len(path) - 1))
  BY DEF SumFunction
<1>5. \A k \in 1..(Len(Segments(path)) - 1) : Segments(path)[k].to = Segments(path)[k + 1].from
  BY <1>1, SegmentsConnect
<1>6. best_total = FromOrigin(path[1]) + ToDestination(path[Len(path)])
                   + SumFunctionOnSet([i \in 1..(Len(path) - 1) |-> RideCost(path, i)], 1..(Len(path) - 1))
                   + 120 * Cardinality(Transfers(path))
  BY <1>1, TotalOfRoute
<1> QED  BY <1>2, <1>3, <1>4, <1>5, <1>6 DEF TRANSFER_PENALTY

\* The segments a search hands over account for the total it announces with
\* them, to the last transfer, and each ends where the next begins.
THEOREM SegmentsAlwaysAccount == Spec => []SegmentsAccountForTotal
<1>1. Init => OptionInv /\ ReadBack
  <2>1. Init => ReadBack
    BY DEF Init, ReadBack
  <2> QED  BY <2>1, OptionInitial
<1>2. OptionInv /\ ReadBack /\ [Next]_vars => (OptionInv /\ ReadBack)'
  <2> SUFFICES ASSUME OptionInv, ReadBack, [Next]_vars PROVE ReadBack'
    BY OptionStep
  <2>1. TypeOK /\ Reached
    BY DEF OptionInv, LabelInv
  <2> QED  BY <2>1, TraceReadsBack, OthersReadNothing
<1> QED  BY <1>1, <1>2, ReadRouteAccounts, PTL DEF Spec

-----------------------------------------------------------------------------
(* The segments shown, timed one by one.                                   *)

\* No edge is crossed faster than segments of its trip are shown to be.
LEMMA EdgeTimes ==
  ASSUME NEW e \in Edges, GetTripMode(e.trip) # "unknown"
  PROVE  haversine(At[e.from], At[e.to]) * SegmentSpeed(GetTripMode(e.trip)) <= e.weight
<1>1. ASSUME NEW t \in Trip, NEW u \in Stop, NEW v \in Stop, e = RideEdge(t, u, v)
      PROVE  haversine(At[e.from], At[e.to]) * SegmentSpeed(GetTripMode(e.trip)) <= e.weight
  <2> DEFINE h == haversine(At[u], At[v])
             speed == TimePerUnit(EdgeMode(t))
  <2>1. e.from = u /\ e.to = v /\ e.trip = t /\ e.weight = h * speed + 60
    BY <1>1 DEF RideEdge, RideTime, STOP_DWELL_TIME
  <2>2. h \in Nat /\ speed \in Nat
    BY HaversineType, PositionAssumption, SpeedBound
  <2>3. t \in DOMAIN TripMode /\ GetTripMode(t) = TripMode[t] /\ EdgeMode(t) = TripMode[t]
    BY <2>1, TripAssumption DEF GetTripMode, EdgeMode
  <2>4. SegmentSpeed(GetTripMode(t)) = speed
    BY <2>3, TripModeAssumption DEF SegmentSpeed
  <2> HIDE DEF h, speed
  <2>5. h * speed \in Nat
    BY <2>2
  <2>6. h * speed <= h * speed + 60
    BY <2>5
  <2> QED  BY <2>1, <2>4, <2>6 DEF h
<1>2. ASSUME NEW u \in Stop, NEW v \in Stop, e = WalkEdge(u, v)
      PROVE  haversine(At[e.from], At[e.to]) * SegmentSpeed(GetTripMode(e.trip)) <= e.weight
  <2>1. e.from = u /\ e.to = v /\ e.trip = WALK_TRIP /\ e.weight = haversine(At[u], At[v]) * TimePerUnit(WALK)
    BY <1>2 DEF WalkEdge, WalkTime
  <2>2. SegmentSpeed(GetTripMode(WALK_TRIP)) = TimePerUnit(WALK)
    BY DEF GetTripMode, SegmentSpeed
  <2>3. e.weight \in Nat
    BY EdgeType
  <2> QED  BY <2>1, <2>2, <2>3
<1> QED  BY <1>1, <1>2, EdgeCases

LEMMA SegmentTimeType ==
  ASSUME NEW p \in Point, NEW q \in Point, NEW method
  PROVE  haversine(p, q) \in Nat /\ SegmentSpeed(method) \in Nat /\ haversine(p, q) * SegmentSpeed(method) \in Nat
<1>1. haversine(p, q) \in Nat
  BY HaversineType
<1>2. SegmentSpeed(method) \in Nat
  BY SpeedBound DEF SegmentSpeed
<1> QED  BY <1>1, <1>2

\* A ride, timed on the straight line between its ends, takes no longer than
\* the labels of its ends are apart: distances obey the triangle inequality.
LEMMA RideTimes ==
  ASSUME TypeOK, NEW p, RouteRead(p), NEW k \in 1..Cardinality(Breaks(p)),
         RideSegment(p, k).method # "unknown"
  PROVE  /\ info[p[Begin(p, k)]].g \in Nat /\ info[p[Break(p, k)]].g \in Nat
         /\ SegmentTime(RideSegment(p, k)) \in Nat
         /\ SegmentTime(RideSegment(p, k)) + info[p[Begin(p, k)]].g <= info[p[Break(p, k)]].g
<1> DEFINE a == Begin(p, k)
           b == Break(p, k)
           n == Len(p)
           trip == info[p[b]].trip
           speed == SegmentSpeed(GetTripMode(trip))
           h(i) == haversine(At[p[a]], At[p[i]])
<1>1. p \in Seq(Stop)
  BY DEF RouteRead
<1>2. Breaks(p) \subseteq 2..n /\ b \in Breaks(p) /\ a \in Nat /\ a < b /\ n \in Nat
  BY <1>1, BreaksFinite, BreaksInOrder
<1>3. a \in 1..n /\ b \in 1..n
  <2>1. b \in 2..n
    BY <1>2
  <2>2. k = 1 => a = 1
    BY DEF Begin
  <2>3. k # 1 => a \in 2..n
    <3>1. k # 1 => k - 1 \in 1..Cardinality(Breaks(p)) /\ a = Break(p, k - 1)
      BY <1>1, BreaksFinite DEF Begin
    <3> QED  BY <1>1, <1>2, <3>1, BreaksFinite
  <2> HIDE DEF a, b, n
  <2> QED  BY <1>2, <2>1, <2>2, <2>3
<1>4. \A i \in 1..n : p[i] \in Stop /\ At[p[i]] \in Point /\ info[p[i]].g \in Nat
  BY PositionAssumption DEF RouteRead, TypeOK, PathInfo
<1>5. GetTripMode(trip) # "unknown" /\ SegmentTime(RideSegment(p, k)) = h(b) * speed
  BY DEF RideSegment, Segment, SegmentTime, Distance
<1>6. speed \in Nat
  BY SpeedBound DEF SegmentSpeed
<1>7. ASSUME NEW i \in Nat, a <= i, i < b
      PROVE  /\ haversine(At[p[i]], At[p[i + 1]]) \in Nat
             /\ info[p[i]].g + haversine(At[p[i]], At[p[i + 1]]) * speed <= info[p[i + 1]].g
  <2>1. i \in 1..(n - 1) /\ i \in 1..n /\ i + 1 \in 1..n /\ a < i + 1 /\ i + 1 <= b
    <3> HIDE DEF a, b, n
    <3> QED  BY <1>2, <1>3, <1>7
  <2>2. PICK e \in Outgoing(p[i]) :
           /\ e.to = p[i + 1] /\ e.trip = info[p[i + 1]].trip
           /\ info[p[i + 1]].g = info[p[i]].g + StepCost(info[p[i]].trip, e)
    BY <2>1 DEF RouteRead
  <2>3. e \in Edges /\ e.from = p[i]
    BY DEF Outgoing
  <2>4. e.trip = trip
    BY <1>1, <2>1, <2>2, RideOfOneTrip
  <2> DEFINE x == haversine(At[p[i]], At[p[i + 1]]) * speed
             c == StepCost(info[p[i]].trip, e)
             y == info[p[i]].g
             z == info[p[i + 1]].g
  <2>5. e.weight \in Nat /\ c \in Nat /\ c >= e.weight
    BY <2>3, EdgeType, StepCostType
  <2>6. x <= e.weight
    BY <1>5, <2>2, <2>3, <2>4, EdgeTimes
  <2>7. haversine(At[p[i]], At[p[i + 1]]) \in Nat /\ y \in Nat /\ z = y + c
    BY <1>4, <2>1, <2>2, HaversineType
  <2>8. x \in Nat
    BY <1>6, <2>7
  <2> HIDE DEF x, y, z, c
  <2>9. y + x <= z
    BY <2>5, <2>6, <2>7, <2>8
  <2> QED  BY <2>7, <2>9 DEF x, y, z
<1> DEFINE S == {d \in Nat : a + d <= b => h(a + d) * speed + info[p[a]].g <= info[p[a + d]].g}
<1>8. 0 \in S
  <2>1. a + 0 = a /\ At[p[a]] \in Point /\ info[p[a]].g \in Nat
    BY <1>2, <1>3, <1>4
  <2>2. h(a) = 0
    BY <2>1 DEF haversine, Abs, Point
  <2> HIDE DEF a, h
  <2>3. h(a) * speed + info[p[a]].g <= info[p[a]].g
    BY <1>6, <2>1, <2>2
  <2> QED  BY <2>1, <2>3
<1>9. ASSUME NEW d \in Nat, d \in S PROVE d + 1 \in S
  <2> SUFFICES ASSUME a + (d + 1) <= b PROVE h(a + (d + 1)) * speed + info[p[a]].g <= info[p[a + (d + 1)]].g
    OBVIOUS
  <2> DEFINE j == a + d
  <2>1. j \in Nat /\ a <= j /\ j < b /\ j + 1 = a + (d + 1) /\ a + d <= b /\ j \in 1..n /\ j + 1 \in 1..n
    <3> HIDE DEF a, b, n
    <3> QED  BY <1>2, <1>3
  <2>2. h(j) * speed + info[p[a]].g <= info[p[j]].g
    BY <1>9, <2>1
  <2> HIDE DEF j
  <2>3. /\ haversine(At[p[j]], At[p[j + 1]]) \in Nat
        /\ info[p[j]].g + haversine(At[p[j]], At[p[j + 1]]) * speed <= info[p[j + 1]].g
    BY <1>7, <2>1
  <2>4. /\ At[p[a]] \in Point /\ At[p[j]] \in Point /\ At[p[j + 1]] \in Point
        /\ info[p[a]].g \in Nat /\ info[p[j]].g \in Nat /\ info[p[j + 1]].g \in Nat
    BY <1>3, <1>4, <2>1
  <2> DEFINE x == h(j)
             y == haversine(At[p[j]], At[p[j + 1]])
             z == h(j + 1)
  <2>5. x \in Nat /\ y \in Nat /\ z \in Nat /\ z <= x + y
    BY <2>4, HaversineType, HaversineTriangle
  <2> DEFINE ga == info[p[a]].g
             gj == info[p[j]].g
             gk == info[p[j + 1]].g
  <2>6. x * speed + ga <= gj /\ gj + y * speed <= gk /\ ga \in Nat /\ gj \in Nat /\ gk \in Nat
    BY <2>2, <2>3, <2>4
  <2> HIDE DEF x, y, z, ga, gj, gk, speed
  <2>7. z * speed <= (x + y) * speed /\ (x + y) * speed = x * speed + y * speed
    BY <1>6, <2>5
  <2>8. x * speed \in Nat /\ y * speed \in Nat /\ z * speed \in Nat
    BY <1>6, <2>5
  <2>9. z * speed + ga <= gk
    BY <2>6, <2>7, <2>8
  <2> QED  BY <2>1, <2>9 DEF z, ga, gk
<1> HIDE DEF S
<1>10. \A d \in Nat : d \in S
  BY <1>8, <1>9, AllNaturals
<1> HIDE DEF a, b
<1>11. b - a \in Nat /\ a + (b - a) = b /\ b <= b
  BY <1>2, <1>3
<1>12. b - a \in S
  BY <1>10, <1>11
<1>13. h(b) * speed + info[p[a]].g <= info[p[b]].g
  BY <1>11, <1>12 DEF S
<1>14. h(b) \in Nat
  BY <1>3, <1>4, HaversineType
<1> HIDE DEF h, speed
<1>15. h(b) * speed \in Nat
  BY <1>6, <1>14
<1> QED  BY <1>3, <1>4, <1>5, <1>13, <1>15 DEF a, b

\* Times within the distance of two labels each add up to no more than the
\* last label.
StaysUnder(n, w, x) ==
  /\ \A i \in 1..n : w[i] \in Nat /\ x[i] \in Nat
  /\ w[1] <= x[1]
  /\ \A i \in 1..(n - 1) : w[i + 1] + x[i] <= x[i + 1]

LEMMA SumStaysUnder ==
  ASSUME NEW n \in Nat, n >= 1, NEW w, NEW x, StaysUnder(n, w, x)
  PROVE  SumFunctionOnSet(w, 1..n) <= x[n]
<1>1. /\ \A i \in 1..n : w[i] \in Nat /\ x[i] \in Nat
      /\ w[1] <= x[1]
      /\ \A i \in 1..(n - 1) : w[i + 1] + x[i] <= x[i + 1]
  BY DEF StaysUnder
<1> DEFINE S == {k \in Nat : k + 1 <= n => /\ SumFunctionOnSet(w, 1..(k + 1)) \in Nat
                                           /\ SumFunctionOnSet(w, 1..(k + 1)) <= x[k + 1]}
<1>2. 0 \in S
  <2>1. \A i \in 1..(0 + 1) : w[i] \in Nat
    BY <1>1
  <2>2. SumFunctionOnSet(w, 1..(0 + 1)) = SumFunctionOnSet(w, 1..0) + w[0 + 1]
    BY <2>1, OneMore
  <2>3. 1..0 = {} /\ 0 + 1 = 1 /\ w[1] \in Nat
    BY <1>1
  <2>4. SumFunctionOnSet(w, 1..0) = 0
    BY <2>3, SumOfNone
  <2>5. SumFunctionOnSet(w, 1..(0 + 1)) = w[1]
    BY <2>2, <2>3, <2>4
  <2> QED  BY <1>1, <2>3, <2>5
<1>3. ASSUME NEW k \in Nat, k \in S PROVE k + 1 \in S
  <2> SUFFICES ASSUME (k + 1) + 1 <= n
               PROVE  /\ SumFunctionOnSet(w, 1..((k + 1) + 1)) \in Nat
                      /\ SumFunctionOnSet(w, 1..((k + 1) + 1)) <= x[(k + 1) + 1]
    OBVIOUS
  <2> DEFINE j == k + 1
             c == SumFunctionOnSet(w, 1..j)
             d == SumFunctionOnSet(w, 1..(j + 1))
  <2>1. c \in Nat /\ c <= x[j]
    BY <1>3
  <2>2. j \in Nat /\ j \in 1..(n - 1) /\ j + 1 \in 1..n /\ j \in 1..n
    OBVIOUS
  <2> HIDE DEF j
  <2>3. \A i \in 1..(j + 1) : w[i] \in Nat
    BY <1>1, <2>2
  <2>4. d = c + w[j + 1]
    BY <2>2, <2>3, OneMore
  <2>5. w[j + 1] + x[j] <= x[j + 1] /\ w[j + 1] \in Nat /\ x[j] \in Nat /\ x[j + 1] \in Nat
    BY <1>1, <2>2
  <2> HIDE DEF c, d
  <2>6. d \in Nat /\ d <= x[j + 1]
    BY <2>1, <2>4, <2>5
  <2> QED  BY <2>6 DEF c, d, j
<1> HIDE DEF S
<1>4. n - 1 \in Nat /\ (n - 1) + 1 = n /\ n <= n
  OBVIOUS
<1>5. n - 1 \in S
  BY <1>2, <1>3, <1>4, AllNaturals
<1> QED  BY <1>4, <1>5 DEF S

\* What is shown takes no longer than everything does.
LEMMA ShownOfAll ==
  ASSUME NEW r, NEW m, r.segments \in Seq(SegmentOf(m)), NEW w, NEW total \in Nat,
         \A i \in 1..Len(r.segments) : w[i] = SegmentTime(r.segments[i]),
         SumFunctionOnSet(w, 1..Len(r.segments)) <= total
  PROVE  SumFunction([i \in Shown(r) |-> SegmentTime(r.segments[i])]) <= total
<1> DEFINE all == 1..Len(r.segments)
           hidden == all \ Shown(r)
           shown == Shown(r)
           v == [i \in shown |-> SegmentTime(r.segments[i])]
<1>1. Len(r.segments) \in Nat /\ DOMAIN r.segments = all
  OBVIOUS
<1>2. shown \subseteq all
  BY <1>1 DEF Shown
<1>3. \A i \in all : w[i] \in Nat
  <2> TAKE i \in all
  <2>0. r.segments[i] \in SegmentOf(m)
    BY <1>1
  <2>1. r.segments[i].from \in Point /\ r.segments[i].to \in Point
    BY <2>0 DEF SegmentOf
  <2> QED  BY <2>1, SegmentTimeType DEF SegmentTime, Distance
<1>4. IsFiniteSet(all)
  <2>1. 1 \in Int /\ Len(r.segments) \in Int
    BY <1>1
  <2> QED  BY <2>1, FS_Interval
<1>5. \A i \in shown : v[i] = w[i]
  BY <1>2
<1>6. SumFunction(v) = SumFunctionOnSet(v, shown)
  BY DEF SumFunction
<1> HIDE DEF all, shown, v
<1>7. all = shown \cup hidden /\ shown \cap hidden = {} /\ shown \in SUBSET all /\ hidden \in SUBSET all
  BY <1>2 DEF shown
<1> HIDE DEF hidden
<1>8. IsFiniteSet(shown) /\ IsFiniteSet(hidden)
  BY <1>4, <1>7, FS_Subset
<1>9. Naturals(w, shown) /\ Naturals(w, hidden)
  BY <1>3, <1>7 DEF Naturals
<1>10. SumFunctionOnSet(w, all) = SumFunctionOnSet(w, shown) + SumFunctionOnSet(w, hidden)
  BY <1>7, <1>8, <1>9, SumApart
<1>11. SumFunctionOnSet(w, shown) \in Nat /\ SumFunctionOnSet(w, hidden) \in Nat
  BY <1>8, <1>9, SumNatural
<1>12. SumFunctionOnSet(v, shown) = SumFunctionOnSet(w, shown)
  BY <1>5, <1>8, <1>9, SumSame
<1>13. SumFunctionOnSet(w, all) <= total
  BY DEF all
<1> QED  BY <1>6, <1>10, <1>11, <1>12, <1>13 DEF v, shown

\* All segments of a route take no longer than its total: what has been shown
\* up to the begin of a ride takes no longer than the label there.
LEMMA AllSegmentsTime ==
  ASSUME TypeOK, NEW p, RouteRead(p),
         \A i \in DOMAIN Segments(p) : Segments(p)[i].method # "unknown"
  PROVE  LET n == Len(Segments(p)) IN
         SumFunctionOnSet([i \in 1..n |-> SegmentTime(Segments(p)[i])], 1..n) <= best_total
<1> DEFINE B == Cardinality(Breaks(p))
           segs == Segments(p)
           n == Len(segs)
           w == [i \in 1..n |-> SegmentTime(segs[i])]
           x == [i \in 1..n |-> IF i = n THEN best_total ELSE info[p[Begin(p, i)]].g]
<1>1. p \in Seq(Stop) /\ p # << >>
  BY DEF RouteRead
<1>2. /\ B \in Nat /\ Len(segs) = B + 2 /\ DOMAIN segs = 1..(B + 2)
      /\ segs[1] = FirstWalk(p) /\ segs[B + 2] = LastWalk(p)
      /\ \A k \in 1..B : segs[k + 1] = RideSegment(p, k)
  BY <1>1, SegmentsInOrder
<1>3. /\ 1 \in 1..Len(p) /\ Len(p) \in 1..Len(p)
      /\ Len(p) >= 2 => B >= 1 /\ Break(p, B) = Len(p)
      /\ Len(p) < 2 => B = 0
      /\ Len(p) \in Nat /\ Len(p) >= 1
  <2>1. Len(p) \in Nat /\ Len(p) >= 1
    BY <1>1
  <2>2. 1 \in 1..Len(p) /\ Len(p) \in 1..Len(p)
    BY <2>1
  <2> QED  BY <1>1, <2>1, <2>2, BreaksInOrder
<1>4. /\ p[1] \in Stop /\ p[Len(p)] \in Stop
      /\ info[p[1]].g = FromOrigin(p[1]) /\ best_total = info[p[Len(p)]].g + ToDestination(p[Len(p)])
  BY <1>3 DEF RouteRead
<1>5. /\ FromOrigin(p[1]) \in Nat /\ ToDestination(p[Len(p)]) \in Nat
      /\ info[p[Len(p)]].g \in Nat /\ best_total \in Nat
  BY <1>4, CostTypes DEF TypeOK, PathInfo
<1>6. SegmentTime(FirstWalk(p)) = FromOrigin(p[1]) /\ SegmentTime(LastWalk(p)) = ToDestination(p[Len(p)])
  BY DEF SegmentTime, Distance, FirstWalk, LastWalk, Segment, SegmentSpeed, FromOrigin, ToDestination, WalkTime
<1>7. ASSUME NEW k \in 1..B
      PROVE  /\ info[p[Begin(p, k)]].g \in Nat /\ info[p[Break(p, k)]].g \in Nat
             /\ SegmentTime(segs[k + 1]) \in Nat
             /\ SegmentTime(segs[k + 1]) + info[p[Begin(p, k)]].g <= info[p[Break(p, k)]].g
  <2>1. segs[k + 1] = RideSegment(p, k)
    BY <1>2
  <2>2. k + 1 \in DOMAIN segs
    <3> HIDE DEF B, segs
    <3> QED  BY <1>2
  <2>3. RideSegment(p, k).method # "unknown"
    BY <2>1, <2>2
  <2> QED  BY <2>1, <2>3, RideTimes
<1>8. Begin(p, B + 1) = Len(p)
  <2>1. CASE B = 0
    <3>1. ~(Len(p) >= 2)
      BY <1>3, <2>1
    <3>2. \A l \in Nat : ~(l >= 2) /\ l >= 1 => l = 1
      OBVIOUS
    <3>3. Len(p) = 1
      BY <1>3, <3>1, <3>2, Zenon
    <3> QED  BY <2>1, <3>3 DEF Begin
  <2>2. CASE B # 0
    <3>1. ~(Len(p) < 2)
      BY <1>3, <2>2
    <3>2. \A l \in Nat : l < 2 \/ l >= 2
      OBVIOUS
    <3>3. Break(p, B) = Len(p)
      BY <1>3, <3>1, <3>2, Zenon
    <3> HIDE DEF B
    <3>4. B + 1 # 1 /\ (B + 1) - 1 = B
      BY <1>2, <2>2
    <3> QED  BY <3>3, <3>4 DEF Begin
  <2> QED  BY <2>1, <2>2
<1>9. \A k \in 1..B : Begin(p, k + 1) = Break(p, k)
  <2> HIDE DEF B
  <2> TAKE k \in 1..B
  <2>1. k + 1 # 1 /\ (k + 1) - 1 = k
    BY <1>2
  <2> QED  BY <2>1 DEF Begin
<1>10. n \in Nat /\ n >= 1 /\ n = B + 2 /\ B \in Nat
  BY <1>2
<1> HIDE DEF B, segs, n
<1>11. \A i \in 1..n : w[i] = SegmentTime(segs[i])
  OBVIOUS
<1>12. x[n] = best_total /\ \A i \in 1..(n - 1) : x[i] = info[p[Begin(p, i)]].g
  <2>1. n \in 1..n /\ \A i \in 1..(n - 1) : i \in 1..n /\ i # n
    BY <1>10
  <2> QED  BY <2>1
<1> HIDE DEF w, x
<1>13. w[1] = FromOrigin(p[1]) /\ w[n] = ToDestination(p[Len(p)])
  <2>1. 1 \in 1..n /\ n \in 1..n
    BY <1>10
  <2> QED  BY <1>2, <1>6, <1>10, <1>11, <2>1
<1>14. x[1] = FromOrigin(p[1]) /\ x[B + 1] = info[p[Len(p)]].g
  <2>1. 1 \in 1..(n - 1) /\ B + 1 \in 1..(n - 1) /\ Begin(p, 1) = 1
    BY <1>10 DEF Begin
  <2> QED  BY <1>4, <1>8, <1>12, <2>1
<1>15. \A k \in 1..B : /\ w[k + 1] \in Nat /\ x[k] \in Nat /\ x[k + 1] \in Nat
                       /\ w[k + 1] + x[k] <= x[k + 1]
  <2> TAKE k \in 1..B
  <2>1. k \in 1..(n - 1) /\ k + 1 \in 1..(n - 1) /\ k + 1 \in 1..n
    BY <1>10
  <2>2. x[k] = info[p[Begin(p, k)]].g /\ x[k + 1] = info[p[Break(p, k)]].g /\ w[k + 1] = SegmentTime(segs[k + 1])
    BY <1>9, <1>11, <1>12, <2>1
  <2> QED  BY <1>7, <2>2
<1>16. ASSUME NEW i \in 1..(n - 1)
       PROVE  w[i + 1] + x[i] <= x[i + 1] /\ w[i + 1] \in Nat /\ x[i + 1] \in Nat
  <2>1. CASE i \in 1..B
    BY <1>15, <2>1
  <2>2. CASE i \notin 1..B
    <3>1. i = B + 1 /\ i + 1 = n
      BY <1>10, <2>2
    <3>2. w[i + 1] = ToDestination(p[Len(p)]) /\ x[i] = info[p[Len(p)]].g /\ x[i + 1] = best_total
      BY <1>12, <1>13, <1>14, <3>1
    <3> DEFINE y == ToDestination(p[Len(p)])
               z == info[p[Len(p)]].g
    <3>3. y \in Nat /\ z \in Nat /\ best_total = z + y
      BY <1>4, <1>5
    <3> HIDE DEF y, z
    <3>4. y + z <= best_total /\ best_total \in Nat
      BY <3>3
    <3> QED  BY <3>2, <3>3, <3>4 DEF y, z
  <2> QED  BY <2>1, <2>2
<1>17. \A i \in 1..n : w[i] \in Nat /\ x[i] \in Nat
  <2> TAKE i \in 1..n
  <2>1. CASE i = 1
    BY <1>5, <1>13, <1>14, <2>1
  <2>2. CASE i # 1
    <3>1. i - 1 \in 1..(n - 1) /\ (i - 1) + 1 = i
      BY <1>10, <2>2
    <3> QED  BY <1>16, <3>1
  <2> QED  BY <2>1, <2>2
<1>18. w[1] <= x[1]
  BY <1>5, <1>13, <1>14
<1>19. StaysUnder(n, w, x)
  BY <1>16, <1>17, <1>18, Zenon DEF StaysUnder
<1>20. SumFunctionOnSet(w, 1..n) <= best_total
  BY <1>10, <1>12, <1>19, SumStaysUnder
<1> QED  BY <1>20 DEF w, n, segs

\* The parts of one result shown, before they are rounded, take no longer than
\* its total before it is.
InTime(r) ==
  Found(r) /\ (\A i \in Shown(r) : r.segments[i].method # "unknown") =>
    SumFunction([i \in Shown(r) |-> SegmentTime(r.segments[i])]) <= r.total

AllInTime == \A k \in DOMAIN results : InTime(results[k])

LEMMA RouteInTime ==
  ASSUME LabelInv, Searching, NEW p, RouteRead(p), NEW r, r.total = best_total, r.segments = Segments(p)
  PROVE  InTime(r)
<1> SUFFICES ASSUME \A i \in Shown(r) : r.segments[i].method # "unknown"
             PROVE  SumFunction([i \in Shown(r) |-> SegmentTime(r.segments[i])]) <= r.total
  BY DEF InTime
<1>1. TypeOK /\ best_total \in Nat
  BY DEF LabelInv, TypeOK
<1>2. p \in Seq(Stop) /\ p # << >> /\ \A i \in DOMAIN p : Labelled(p[i])
  <2>1. p \in Seq(Stop) /\ p # << >>
    BY DEF RouteRead
  <2>2. DOMAIN p = 1..Len(p)
    BY <2>1
  <2> QED  BY <2>1, <2>2 DEF RouteRead
<1>3. Segments(p) \in Seq(SegmentOf(mask))
  BY <1>2, RouteSegments
<1>4. \A i \in DOMAIN r.segments : r.segments[i].method # "unknown"
  <2> TAKE i \in DOMAIN r.segments
  <2>1. CASE i \in Shown(r)
    BY <2>1
  <2>2. CASE i \notin Shown(r)
    BY <2>2 DEF Shown, IsIgnorableInternalWalk, WALK
  <2> QED  BY <2>1, <2>2
<1> DEFINE n == Len(r.segments)
           w == [i \in 1..n |-> SegmentTime(r.segments[i])]
<1>5. SumFunctionOnSet(w, 1..n) <= r.total
  BY <1>1, <1>4, AllSegmentsTime
<1>6. \A i \in 1..n : w[i] = SegmentTime(r.segments[i])
  OBVIOUS
<1> HIDE DEF w
<1> QED  BY <1>1, <1>3, <1>5, <1>6, ShownOfAll

LEMMA WalkInTime ==
  ASSUME request \in Request, NEW r, r.total = OnFootTotal, r.segments = DirectWalk
  PROVE  InTime(r)
<1> DEFINE s == Segment(request.origin, request.destination, WALK, 0, "")
           w == [i \in 1..1 |-> SegmentTime(r.segments[i])]
<1>1. request.origin \in Point /\ request.destination \in Point /\ OnFootTotal \in Nat
  BY RequestType, WalkTimeType DEF OnFootTotal
<1>2. r.segments = <<s>>
  BY DEF DirectWalk
<1>3. SegmentTime(s) = OnFootTotal
  BY DEF SegmentTime, Distance, SegmentSpeed, Segment, OnFootTotal, WalkTime
<1>4. r.segments \in Seq(SegmentOf(ANY))
  BY DirectWalkSegments
<1> HIDE DEF s
<1>5. Len(r.segments) = 1 /\ r.segments[1] = s
  BY <1>2
<1>6. w[1] = OnFootTotal /\ \A i \in 1..1 : w[i] = SegmentTime(r.segments[i])
  BY <1>3, <1>5
<1> HIDE DEF w
<1>7. \A i \in 1..1 : w[i] \in Nat /\ w[i] <= OnFootTotal /\ i = 1
  BY <1>1, <1>6
<1>8. StaysUnder(1, w, w)
  <2>1. 1..(1 - 1) = {}
    OBVIOUS
  <2>2. w[1] <= w[1]
    BY <1>7
  <2> QED  BY <1>7, <2>1, <2>2, Zenon DEF StaysUnder
<1>9. SumFunctionOnSet(w, 1..1) <= w[1]
  <2>1. 1 \in Nat /\ 1 >= 1
    OBVIOUS
  <2>2. \A n \in Nat : n >= 1 /\ StaysUnder(n, w, w) => SumFunctionOnSet(w, 1..n) <= w[n]
    BY SumStaysUnder
  <2> QED  BY <1>8, <2>1, <2>2, Zenon
<1>10. SumFunctionOnSet(w, 1..Len(r.segments)) <= OnFootTotal
  BY <1>5, <1>6, <1>9
<1>11. \A i \in 1..Len(r.segments) : w[i] = SegmentTime(r.segments[i])
  BY <1>5, <1>6
<1>12. SumFunction([i \in Shown(r) |-> SegmentTime(r.segments[i])]) <= OnFootTotal
  BY <1>1, <1>4, <1>10, <1>11, ShownOfAll
<1> QED  BY <1>12 DEF InTime

LEMMA ReturnInTime ==
  ASSUME TypeOK, AllInTime, NEW total, NEW segments, Return(total, segments),
         \A r : r.total = total /\ r.segments = segments => InTime(r)
  PROVE  AllInTime'
<1> DEFINE n == Len(results)
           r == [type |-> Call.type, total |-> total, segments |-> segments]
<1>1. results \in Seq({results[k] : k \in 1..n}) /\ n \in Nat /\ DOMAIN results = 1..n
  BY DEF TypeOK
<1>2. results' = Append(results, r)
  BY DEF Return
<1>3. InTime(r)
  <2>1. r.total = total /\ r.segments = segments
    OBVIOUS
  <2> HIDE DEF r
  <2> QED  BY <2>1
<1> HIDE DEF r
<1>4. /\ DOMAIN results' = 1..(n + 1) /\ results'[n + 1] = r
      /\ \A k \in 1..n : results'[k] = results[k]
  BY <1>1, <1>2
<1> HIDE DEF n
<1>5. ASSUME NEW k \in 1..(n + 1) PROVE InTime(results'[k])
  <2>1. CASE k = n + 1
    BY <1>3, <1>4, <2>1
  <2>2. CASE k # n + 1
    <3>1. k \in 1..n
      BY <1>1, <2>2
    <3> QED  BY <1>1, <1>4, <3>1 DEF AllInTime
  <2> QED  BY <2>1, <2>2
<1>6. \A x : InTime(x)' <=> InTime(x)
  BY DEF InTime
<1> QED  BY <1>4, <1>5, <1>6 DEF AllInTime

LEMMA NothingFoundInTime ==
  ASSUME NEW r, r.total = INF PROVE InTime(r)
  BY InfAssumption DEF InTime, Found

LEMMA InTimeStep ==
  ASSUME QualityInv, ReadBack, AllInTime, [Next]_vars
  PROVE  AllInTime'
<1>1. LabelInv /\ Reached /\ Relaxed /\ TypeOK /\ request \in Request
  BY DEF QualityInv, OptionInv, LabelInv, TypeOK
<1>2. CASE NoCandidates
  <2>1. Return(OnFootTotal, DirectWalk) \/ Return(INF, << >>)
    BY <1>2 DEF NoCandidates, OnFootTotal
  <2> QED  BY <1>1, <2>1, ReturnInTime, WalkInTime, NothingFoundInTime
<1>3. CASE FinishWithoutStops
  <2>1. Searching /\ best_end_node \notin Stop
    BY <1>3 DEF FinishWithoutStops, SearchOver, Searching
  <2>2. best_total = INF \/ best_total = OnFootTotal
    BY <1>1, <2>1 DEF Relaxed, BestOnFoot
  <2>3. Return(OnFootTotal, DirectWalk) \/ Return(INF, << >>)
    BY <1>3, <2>2 DEF FinishWithoutStops
  <2> QED  BY <1>1, <2>3, ReturnInTime, WalkInTime, NothingFoundInTime
<1>4. CASE FinishWithRoute
  <2>1. pc = "trace" /\ curr = -1 /\ Searching /\ Return(best_total, Segments(path))
    BY <1>4 DEF FinishWithRoute, Searching
  <2>2. RouteRead(path)
    BY <1>1, <2>1, RouteIsRead
  <2>3. \A r : r.total = best_total /\ r.segments = Segments(path) => InTime(r)
    BY <1>1, <2>1, <2>2, RouteInTime
  <2> QED  BY <1>1, <2>1, <2>3, ReturnInTime
<1>5. CASE UNCHANGED results
  <2>1. \A x : InTime(x)' <=> InTime(x)
    BY DEF InTime
  <2> QED  BY <1>5, <2>1 DEF AllInTime
<1>6. CASE \/ StartSearch \/ PopDiscarded \/ \E s \in pq : Expand(s)
           \/ (\E e \in todo : Relax(e) \/ Pass(e)) \/ BeginTrace \/ Trace \/ UNCHANGED vars
  <2>1. UNCHANGED results
    BY <1>6 DEF StartSearch, PopDiscarded, Expand, Relax, Pass, BeginTrace, Trace, vars
  <2> QED  BY <1>5, <2>1
<1> QED  BY <1>2, <1>3, <1>4, <1>6 DEF Next

\* Numbers each rounded up by half a unit at most: all together they are up by
\* no more than that for each of them.
LEMMA RoundedSums ==
  ASSUME NEW S, IsFiniteSet(S), NEW t, Naturals(t, S), NEW d, Naturals(d, S),
         \A x \in S : 2 * d[x] <= t[x] + 1
  PROVE  2 * SumFunctionOnSet(d, S) <= SumFunctionOnSet(t, S) + Cardinality(S)
<1> DEFINE Holds(R) == 2 * SumFunctionOnSet(d, R) <= SumFunctionOnSet(t, R) + Cardinality(R)
           N == {n \in Nat : \A R \in SUBSET S : Cardinality(R) = n => Holds(R)}
<1>1. \A R \in SUBSET S : IsFiniteSet(R) /\ Cardinality(R) \in Nat /\ Naturals(t, R) /\ Naturals(d, R)
  BY FS_Subset, FS_CardinalityType DEF Naturals
<1>2. 0 \in N
  <2> SUFFICES ASSUME NEW R \in SUBSET S, Cardinality(R) = 0 PROVE Holds(R)
    OBVIOUS
  <2>1. R = {}
    BY <1>1, FS_EmptySet
  <2>2. SumFunctionOnSet(d, R) = 0 /\ SumFunctionOnSet(t, R) = 0
    BY <2>1, SumOfNone
  <2> QED  BY <2>2
<1>3. ASSUME NEW n \in Nat, n \in N PROVE n + 1 \in N
  <2> SUFFICES ASSUME NEW R \in SUBSET S, Cardinality(R) = n + 1 PROVE Holds(R)
    OBVIOUS
  <2>1. PICK x \in R : TRUE
    BY FS_EmptySet
  <2> DEFINE others == R \ {x}
             sd == SumFunctionOnSet(d, others)
             st == SumFunctionOnSet(t, others)
  <2>2. others \in SUBSET S /\ Cardinality(others) = n
    <3>1. IsFiniteSet(R)
      BY <1>1
    <3>2. Cardinality(others) = Cardinality(R) - 1
      BY <2>1, <3>1, FS_RemoveElement
    <3>3. others \in SUBSET S
      OBVIOUS
    <3> HIDE DEF others
    <3> QED  BY <3>2, <3>3
  <2>3. 2 * sd <= st + n
    BY <1>3, <2>2
  <2>4. sd \in Nat /\ st \in Nat
    <3> HIDE DEF others
    <3> QED  BY <1>1, <2>2, SumNatural
  <2>5. SumFunctionOnSet(d, R) = d[x] + sd /\ SumFunctionOnSet(t, R) = t[x] + st
    BY <1>1, SumWithout
  <2>6. d[x] \in Nat /\ t[x] \in Nat /\ 2 * d[x] <= t[x] + 1
    BY DEF Naturals
  <2> HIDE DEF sd, st
  <2>7. 2 * (d[x] + sd) <= t[x] + st + (n + 1)
    BY <2>3, <2>4, <2>6
  <2> QED  BY <2>5, <2>7
<1> HIDE DEF N, Holds
<1>4. Cardinality(S) \in N
  BY <1>1, <1>2, <1>3, AllNaturals
<1>5. S \in SUBSET S
  OBVIOUS
<1>6. Holds(S)
  BY <1>4, <1>5 DEF N
<1> QED  BY <1>6 DEF Holds

\* Rounded one by one, the parts of a result exceed its rounded total by the
\* rounding alone.
LEMMA RoundedInTime ==
  ASSUME NEW m, NEW r, r.segments \in Seq(SegmentOf(m)), r.total \in Nat, InTime(r),
         Found(r), \A i \in Shown(r) : r.segments[i].method # "unknown"
  PROVE  2 * SumFunction([i \in Shown(r) |-> SegmentDuration(r.segments[i])])
           <= 2 * TotalDuration(r) + Cardinality(Shown(r))
<1> DEFINE S == Shown(r)
           t == [i \in S |-> SegmentTime(r.segments[i])]
           d == [i \in S |-> SegmentDuration(r.segments[i])]
<1>1. S \subseteq 1..Len(r.segments) /\ Len(r.segments) \in Nat
  BY DEF Shown
<1>2. IsFiniteSet(S)
  <2>1. 1 \in Int /\ Len(r.segments) \in Int
    BY <1>1
  <2>2. IsFiniteSet(1..Len(r.segments))
    BY <2>1, FS_Interval
  <2> HIDE DEF S
  <2> QED  BY <1>1, <2>2, FS_Subset
<1>3. \A i \in S : SegmentTime(r.segments[i]) \in Nat
  <2> TAKE i \in S
  <2>1. r.segments[i] \in SegmentOf(m)
    BY <1>1
  <2>2. r.segments[i].from \in Point /\ r.segments[i].to \in Point
    BY <2>1 DEF SegmentOf
  <2> QED  BY <2>2, SegmentTimeType DEF SegmentTime, Distance
<1>4. \A i \in S : t[i] \in Nat /\ d[i] \in Nat /\ 2 * d[i] <= t[i] + 1
  <2> TAKE i \in S
  <2>1. t[i] = SegmentTime(r.segments[i]) /\ d[i] = toIntSeconds(SegmentTime(r.segments[i]))
    BY DEF SegmentDuration
  <2> QED  BY <1>3, <2>1, Rounding
<1>5. SumFunctionOnSet(t, S) <= r.total
  <2>1. SumFunction(t) = SumFunctionOnSet(t, S)
    BY DEF SumFunction
  <2> QED  BY <2>1 DEF InTime
<1>6. SumFunction(d) = SumFunctionOnSet(d, S)
  BY DEF SumFunction
<1> HIDE DEF S, t, d
<1>7. Naturals(t, S) /\ Naturals(d, S)
  BY <1>4 DEF Naturals
<1>8. 2 * SumFunctionOnSet(d, S) <= SumFunctionOnSet(t, S) + Cardinality(S)
  BY <1>2, <1>4, <1>7, RoundedSums
<1>9. /\ SumFunctionOnSet(d, S) \in Nat /\ SumFunctionOnSet(t, S) \in Nat
      /\ Cardinality(S) \in Nat
  BY <1>2, <1>7, SumNatural, FS_CardinalityType
<1>10. TotalDuration(r) \in Nat /\ r.total <= 2 * TotalDuration(r)
  BY Rounding DEF TotalDuration
<1>11. 2 * SumFunctionOnSet(d, S) <= 2 * TotalDuration(r) + Cardinality(S)
  BY <1>5, <1>8, <1>9, <1>10
<1> QED  BY <1>6, <1>11 DEF S, d

\* The segments an option shows, timed and rounded one by one at the speeds of
\* the service, exceed the total announced by half a second for each of them
\* at most, unless a ride among them is of a trip that cannot be resolved.
\* (GetRoute and toIntSeconds)
THEOREM DurationsStayWithinTotal == Spec => []DurationsWithinTotal
<1>1. Init => QualityInv /\ ReadBack /\ AllInTime
  <2>1. Init => ReadBack /\ AllInTime
    BY DEF Init, ReadBack, AllInTime
  <2> QED  BY <2>1, QualityInitial
<1>2. QualityInv /\ ReadBack /\ AllInTime /\ [Next]_vars => (QualityInv /\ ReadBack /\ AllInTime)'
  <2> SUFFICES ASSUME QualityInv, ReadBack, AllInTime, [Next]_vars PROVE ReadBack' /\ AllInTime'
    BY QualityStep
  <2>1. TypeOK /\ Reached
    BY DEF QualityInv, OptionInv, LabelInv
  <2>2. ReadBack'
    BY <2>1, TraceReadsBack, OthersReadNothing
  <2> QED  BY <2>2, InTimeStep
<1>3. QualityInv /\ AllInTime => DurationsWithinTotal
  <2> SUFFICES ASSUME QualityInv, AllInTime, pc = "done", NEW k \in FoundOptions,
                      \A i \in Shown(results[k]) : results[k].segments[i].method # "unknown"
               PROVE  2 * SumFunction([i \in Shown(results[k]) |-> SegmentDuration(results[k].segments[i])])
                        <= 2 * TotalDuration(results[k]) + Cardinality(Shown(results[k]))
    BY DEF DurationsWithinTotal
  <2>1. OptionInv /\ k \in DOMAIN results
    BY DEF QualityInv, FoundOptions
  <2>2. Sound(k, results[k]) /\ Found(results[k]) /\ InTime(results[k])
    BY <2>1, OptionsFound DEF AllInTime
  <2> QED  BY <2>2, RoundedInTime DEF Sound
<1> QED  BY <1>1, <1>2, <1>3, PTL DEF Spec

-----------------------------------------------------------------------------
(* The rides.                                                              *)

Called(t, v) == \E e \in Entry : e.trip = t /\ e.stop = v

\* A segment shown as a ride is one with a trip whose mode is known, between two
\* stops that the trip calls at.
Ridden(seg) ==
  seg.method \in ANY =>
    /\ seg.trip \in DOMAIN TripMode /\ seg.method = TripMode[seg.trip]
    /\ \E u, v \in Stop : /\ u # v /\ At[u] = seg.from /\ At[v] = seg.to
                          /\ Called(seg.trip, u) /\ Called(seg.trip, v)

AllRidden == \A k \in DOMAIN results : \A i \in DOMAIN results[k].segments : Ridden(results[k].segments[i])

LEMMA RidesCall ==
  ASSUME NEW e \in Edges, e.trip # WALK_TRIP
  PROVE  Called(e.trip, e.from) /\ Called(e.trip, e.to)
<1>1. CASE e \in WalkEdges
  BY <1>1 DEF WalkEdges, WalkEdge
<1>2. CASE e \in TransitEdges
  <2>1. PICK p \in Entry \X Entry :
           /\ Follows(p[1], p[2])
           /\ \/ e = RideEdge(p[1].trip, p[1].stop, p[2].stop)
              \/ e = RideEdge(p[1].trip, p[2].stop, p[1].stop)
    BY <1>2 DEF TransitEdges
  <2>2. p[1] \in Entry /\ p[2] \in Entry /\ p[1].trip = p[2].trip
    BY <2>1 DEF Follows
  <2>3. e.trip = p[1].trip /\ {e.from, e.to} = {p[1].stop, p[2].stop}
    BY <2>1 DEF RideEdge
  <2>4. Called(e.trip, p[1].stop) /\ Called(e.trip, p[2].stop)
    BY <2>2, <2>3 DEF Called
  <2> QED  BY <2>3, <2>4
<1> QED  BY <1>1, <1>2 DEF Edges

\* Each stop of a route costs more than those before it.
LEMMA CostsRise ==
  ASSUME TypeOK, NEW p, RouteRead(p), NEW a \in 1..Len(p), NEW b \in 1..Len(p), a < b
  PROVE  info[p[a]].g < info[p[b]].g
<1> DEFINE n == Len(p)
           g(i) == info[p[i]].g
           S == {d \in Nat : a + d + 1 <= b => g(a) < g(a + d + 1)}
<1>1. p \in Seq(Stop)
  BY DEF RouteRead
<1>2. n \in Nat /\ a \in Nat /\ b \in Nat /\ a >= 1 /\ b <= n
  BY <1>1
<1>3. \A i \in 1..n : g(i) \in Nat
  BY DEF RouteRead, TypeOK, PathInfo
<1>4. ASSUME NEW i \in 1..(n - 1) PROVE g(i) < g(i + 1)
  <2>1. PICK e \in Outgoing(p[i]) : g(i + 1) = g(i) + StepCost(info[p[i]].trip, e)
    BY DEF RouteRead
  <2>2. e \in Edges
    BY <2>1 DEF Outgoing
  <2>3. StepCost(info[p[i]].trip, e) \in Nat /\ StepCost(info[p[i]].trip, e) >= e.weight
    BY <2>2, StepCostType
  <2>4. e.weight \in Nat /\ e.weight > 0
    BY <2>2, EdgeType
  <2>5. i \in 1..n
    <3> HIDE DEF n
    <3> QED  BY <1>2
  <2>6. g(i) \in Nat
    BY <1>3, <2>5
  <2> HIDE DEF g
  <2> QED  BY <2>1, <2>3, <2>4, <2>6
<1> HIDE DEF g, n
<1>5. 0 \in S
  <2>1. a + 0 + 1 = a + 1 /\ (a + 1 <= b => a \in 1..(n - 1))
    BY <1>2
  <2> QED  BY <1>4, <2>1
<1>6. ASSUME NEW d \in Nat, d \in S PROVE d + 1 \in S
  <2> SUFFICES ASSUME a + (d + 1) + 1 <= b PROVE g(a) < g(a + (d + 1) + 1)
    OBVIOUS
  <2> DEFINE j == a + d + 1
  <2>1. /\ j <= b /\ j \in 1..(n - 1) /\ j \in 1..n /\ j + 1 \in 1..n /\ a \in 1..n
        /\ a + (d + 1) + 1 = j + 1
    BY <1>2
  <2>2. g(a) < g(j)
    BY <1>6, <2>1
  <2> HIDE DEF j
  <2>3. g(j) < g(j + 1) /\ g(a) \in Nat /\ g(j) \in Nat /\ g(j + 1) \in Nat
    BY <1>3, <1>4, <2>1
  <2>4. g(a) < g(j + 1)
    BY <2>2, <2>3
  <2> QED  BY <2>1, <2>4
<1> HIDE DEF S
<1>7. \A d \in Nat : d \in S
  BY <1>5, <1>6, AllNaturals
<1>8. b - a - 1 \in Nat /\ a + (b - a - 1) + 1 = b
  BY <1>2
<1>9. b - a - 1 \in S /\ b <= b
  BY <1>2, <1>7, <1>8
<1> QED  BY <1>8, <1>9 DEF S, g

\* The last stop of a ride was reached by its trip, and so was the one behind
\* its first.
LEMMA RideIsRidden ==
  ASSUME TypeOK, NEW p, RouteRead(p), NEW k \in 1..Cardinality(Breaks(p))
  PROVE  Ridden(RideSegment(p, k))
<1> DEFINE a == Begin(p, k)
           b == Break(p, k)
           n == Len(p)
           t == info[p[b]].trip
<1>1. p \in Seq(Stop)
  BY DEF RouteRead
<1>2. Breaks(p) \subseteq 2..n /\ b \in Breaks(p) /\ a \in Nat /\ a < b /\ n \in Nat
  BY <1>1, BreaksFinite, BreaksInOrder
<1>3. a >= 1
  <2>1. k = 1 => a = 1
    BY DEF Begin
  <2>2. k # 1 => a \in 2..n
    <3>1. k # 1 => k - 1 \in 1..Cardinality(Breaks(p)) /\ a = Break(p, k - 1)
      BY <1>1, BreaksFinite DEF Begin
    <3> QED  BY <1>1, <1>2, <3>1, BreaksFinite
  <2> HIDE DEF a, b, n
  <2> QED  BY <2>1, <2>2
<1>4. SUFFICES ASSUME GetTripMode(t) \in ANY PROVE Ridden(RideSegment(p, k))
  BY DEF Ridden, RideSegment, Segment
<1>5. t # WALK_TRIP /\ t \in DOMAIN TripMode /\ TripMode[t] = GetTripMode(t)
  BY <1>4 DEF GetTripMode, ANY, METRO, BUS, MICROBUS, WALK
<1>6. ASSUME NEW i \in Nat, a <= i, i < b PROVE Called(t, p[i]) /\ Called(t, p[i + 1])
  <2>1. i \in 1..(n - 1) /\ i + 1 \in Nat /\ a < i + 1 /\ i + 1 <= b
    <3> HIDE DEF a, b, n
    <3> QED  BY <1>2, <1>3, <1>6
  <2>2. PICK e \in Outgoing(p[i]) : e.to = p[i + 1] /\ e.trip = info[p[i + 1]].trip
    BY <2>1 DEF RouteRead
  <2>3. e \in Edges /\ e.from = p[i]
    BY <2>2 DEF Outgoing
  <2>4. e.trip = t
    BY <1>1, <2>1, <2>2, RideOfOneTrip
  <2> QED  BY <1>5, <2>2, <2>3, <2>4, RidesCall
<1>7. Called(t, p[a]) /\ Called(t, p[b])
  <2>1. b - 1 \in Nat /\ a <= b - 1 /\ b - 1 < b /\ (b - 1) + 1 = b /\ a <= a
    <3> HIDE DEF a, b, n
    <3> QED  BY <1>2, <1>3
  <2> QED  BY <1>2, <1>6, <2>1
<1>8. p[a] \in Stop /\ p[b] \in Stop /\ p[a] # p[b]
  <2>1. a \in 1..n /\ b \in 1..n
    <3> HIDE DEF a, b, n
    <3> QED  BY <1>2, <1>3
  <2>2. p[a] \in Stop /\ p[b] \in Stop /\ info[p[a]].g < info[p[b]].g
    BY <1>1, <1>2, <2>1, CostsRise
  <2>3. info[p[a]].g \in Nat /\ info[p[b]].g \in Nat
    BY <2>2 DEF TypeOK, PathInfo
  <2> HIDE DEF a, b
  <2> QED  BY <2>2, <2>3
<1> DEFINE seg == RideSegment(p, k)
<1>9. seg.from = At[p[a]] /\ seg.to = At[p[b]] /\ seg.method = TripMode[t] /\ seg.trip = t
  BY <1>5 DEF RideSegment, Segment
<1> HIDE DEF a, b, t, seg
<1> QED  BY <1>5, <1>7, <1>8, <1>9 DEF Ridden, seg

LEMMA RouteIsRidden ==
  ASSUME TypeOK, NEW p, RouteRead(p), NEW i \in DOMAIN Segments(p)
  PROVE  Ridden(Segments(p)[i])
<1> DEFINE B == Cardinality(Breaks(p))
           segs == Segments(p)
<1>1. /\ B \in Nat /\ DOMAIN segs = 1..(B + 2)
      /\ segs[1] = FirstWalk(p) /\ segs[B + 2] = LastWalk(p)
      /\ \A k \in 1..B : segs[k + 1] = RideSegment(p, k)
  BY SegmentsInOrder DEF RouteRead
<1>2. Ridden(FirstWalk(p)) /\ Ridden(LastWalk(p))
  BY DEF Ridden, FirstWalk, LastWalk, Segment, ANY, METRO, BUS, MICROBUS, WALK
<1>3. \A k \in 1..B : Ridden(RideSegment(p, k))
  BY RideIsRidden
<1>4. i \in 1..(B + 2)
  BY <1>1
<1> HIDE DEF B, segs
<1>5. i = 1 \/ i = B + 2 \/ (i - 1 \in 1..B /\ (i - 1) + 1 = i)
  BY <1>1, <1>4
<1>6. Ridden(segs[i])
  <2>1. CASE i - 1 \in 1..B /\ (i - 1) + 1 = i
    <3>1. segs[(i - 1) + 1] = RideSegment(p, i - 1)
      BY <1>1, <2>1
    <3> QED  BY <1>3, <2>1, <3>1
  <2> QED  BY <1>1, <1>2, <1>5, <2>1
<1> QED  BY <1>6 DEF segs

LEMMA ReturnRidden ==
  ASSUME TypeOK, AllRidden, NEW total, NEW segments, Return(total, segments),
         \A i \in DOMAIN segments : Ridden(segments[i])
  PROVE  AllRidden'
<1> DEFINE n == Len(results)
           r == [type |-> Call.type, total |-> total, segments |-> segments]
<1>1. results \in Seq({results[k] : k \in 1..n}) /\ n \in Nat /\ DOMAIN results = 1..n
  BY DEF TypeOK
<1>2. results' = Append(results, r)
  BY DEF Return
<1>3. r.segments = segments
  OBVIOUS
<1> HIDE DEF r
<1>4. /\ DOMAIN results' = 1..(n + 1) /\ results'[n + 1] = r
      /\ \A k \in 1..n : results'[k] = results[k]
  BY <1>1, <1>2
<1> HIDE DEF n
<1>5. ASSUME NEW k \in 1..(n + 1), NEW i \in DOMAIN results'[k].segments
      PROVE  Ridden(results'[k].segments[i])
  <2>1. CASE k = n + 1
    BY <1>3, <1>4, <1>5, <2>1
  <2>2. CASE k # n + 1
    <3>1. k \in 1..n
      BY <1>1, <2>2
    <3> QED  BY <1>1, <1>4, <1>5, <3>1 DEF AllRidden
  <2> QED  BY <2>1, <2>2
<1> QED  BY <1>4, <1>5 DEF AllRidden

LEMMA RiddenStep ==
  ASSUME OptionInv, ReadBack, AllRidden, [Next]_vars
  PROVE  AllRidden'
<1>1. LabelInv /\ Reached /\ TypeOK
  BY DEF OptionInv, LabelInv
<1>2. CASE NoCandidates \/ FinishWithoutStops
  <2>1. \E total : Return(total, DirectWalk) \/ Return(total, << >>)
    BY <1>2 DEF NoCandidates, FinishWithoutStops
  <2> DEFINE walk == Segment(request.origin, request.destination, WALK, 0, "")
  <2>2. walk.method \notin ANY
    BY DEF Segment, ANY, METRO, BUS, MICROBUS, WALK
  <2>3. DirectWalk = <<walk>>
    BY DEF DirectWalk
  <2> HIDE DEF walk
  <2>4. \A i \in DOMAIN DirectWalk : DirectWalk[i] = walk
    BY <2>3
  <2>5. \A i \in DOMAIN DirectWalk : Ridden(DirectWalk[i])
    BY <2>2, <2>4, Zenon DEF Ridden
  <2>6. \A i \in DOMAIN << >> : Ridden(<< >>[i])
    OBVIOUS
  <2> QED  BY <1>1, <2>1, <2>5, <2>6, ReturnRidden
<1>3. CASE FinishWithRoute
  <2>1. pc = "trace" /\ curr = -1 /\ Return(best_total, Segments(path))
    BY <1>3 DEF FinishWithRoute
  <2>2. RouteRead(path)
    BY <1>1, <2>1, RouteIsRead
  <2> QED  BY <1>1, <2>1, <2>2, RouteIsRidden, ReturnRidden
<1>4. CASE \/ StartSearch \/ PopDiscarded \/ \E s \in pq : Expand(s)
           \/ (\E e \in todo : Relax(e) \/ Pass(e)) \/ BeginTrace \/ Trace \/ UNCHANGED vars
  <2>1. results' = results
    BY <1>4 DEF StartSearch, PopDiscarded, Expand, Relax, Pass, BeginTrace, Trace, vars
  <2> QED  BY <2>1 DEF AllRidden
<1> QED  BY <1>2, <1>3, <1>4 DEF Next

\* Every ride in a result is one that can be taken: with a trip whose mode is
\* the one it is shown with, from one stop that the trip calls at to another.
\* (the segments FindPath cuts where the trip changes)
THEOREM RidesAreReal == Spec => []AllRidden
<1>1. Init => OptionInv /\ ReadBack /\ AllRidden
  <2>1. Init => ReadBack /\ AllRidden
    BY DEF Init, ReadBack, AllRidden
  <2> QED  BY <2>1, OptionInitial
<1>2. OptionInv /\ ReadBack /\ AllRidden /\ [Next]_vars => (OptionInv /\ ReadBack /\ AllRidden)'
  <2> SUFFICES ASSUME OptionInv, ReadBack, AllRidden, [Next]_vars PROVE ReadBack' /\ AllRidden'
    BY OptionStep
  <2>1. TypeOK /\ Reached
    BY DEF OptionInv, LabelInv
  <2>2. ReadBack'
    BY <2>1, TraceReadsBack, OthersReadNothing
  <2> QED  BY <2>2, RiddenStep
<1> QED  BY <1>1, <1>2, PTL DEF Spec

-----------------------------------------------------------------------------
(* Looking up the rides.                                                   *)

\* A trip whose mode is known is listed with it wherever it calls.
LEMMA CallsAreListed ==
  ASSUME FeedAgrees, NEW t \in DOMAIN TripMode, NEW v, Called(t, v)
  PROVE  LET l == [line |-> LineOf[t], mode |-> TripMode[t]]
         IN  l \in LinesAt(v) /\ v \in StopsOf(l.line)
<1>1. PICK e \in Entry : e.trip = t /\ e.stop = v
  BY DEF Called
<1>2. t \in DOMAIN LineOf /\ LineOf[t] \in Line /\ TripMode[t] = EngineMode(AgencyOf[LineOf[t]])
  BY LoadedAssumption
<1>3. AgencyToMode(AgencyOf[LineOf[t]]) = TripMode[t] /\ v \in StopsOf(LineOf[t])
  BY <1>1, <1>2 DEF FeedAgrees
<1>4. e \in StopTimes
  BY <1>1 DEF Entry
<1>5. [line |-> LineOf[t], mode |-> TripMode[t]] \in LinesAt(v)
  BY <1>1, <1>2, <1>3, <1>4 DEF LinesAt
<1> QED  BY <1>3, <1>5

\* With files on which both sides agree, every ride that is proposed can be
\* looked up at both its ends, in the mode it is shown with.  The files in
\* RoutingEngine/Database are such: three agencies, spelled as both rules
\* expect, and no trip that calls where the first of its line does not.
\* (getTripMode and GtfsDataService)
THEOREM RidesStayListed == ASSUME FeedAgrees PROVE Spec => []RidesAreListed
<1>1. AllRidden => RidesAreListed
  <2> SUFFICES ASSUME AllRidden, NEW k \in FoundOptions, NEW i \in Rides(results[k], ANY)
               PROVE  LET ride == results[k].segments[i] IN
                      \E u, v \in Stop :
                        /\ At[u] = ride.from /\ At[v] = ride.to
                        /\ \E l \in LinesAt(u) \cap LinesAt(v) :
                             l.mode = ride.method /\ {u, v} \subseteq StopsOf(l.line)
    BY DEF RidesAreListed
  <2> DEFINE ride == results[k].segments[i]
  <2>1. k \in DOMAIN results /\ i \in DOMAIN results[k].segments /\ ride.method \in ANY
    BY DEF FoundOptions, Rides, Shown
  <2>2. Ridden(ride)
    BY <2>1 DEF AllRidden
  <2> HIDE DEF ride
  <2>3. PICK u \in Stop, v \in Stop :
          At[u] = ride.from /\ At[v] = ride.to /\ Called(ride.trip, u) /\ Called(ride.trip, v)
    BY <2>1, <2>2 DEF Ridden
  <2>4. ride.trip \in DOMAIN TripMode /\ ride.method = TripMode[ride.trip]
    BY <2>1, <2>2 DEF Ridden
  <2> DEFINE l == [line |-> LineOf[ride.trip], mode |-> TripMode[ride.trip]]
  <2>5. /\ l \in LinesAt(u) /\ u \in StopsOf(l.line)
        /\ l \in LinesAt(v) /\ v \in StopsOf(l.line)
    BY <2>3, <2>4, CallsAreListed
  <2>6. l.mode = ride.method
    BY <2>4
  <2> HIDE DEF l
  <2> QED  BY <2>3, <2>5, <2>6 DEF ride
<1> QED  BY <1>1, RidesAreReal, PTL

-----------------------------------------------------------------------------
(* Drawing the rides.                                                      *)

\* The positions of a shape are numbered from one on.
LEMMA ShapeType ==
  ASSUME FeedKeyed, NEW id
  PROVE  Shape(id) \in Seq(Point)
<1> DEFINE rows == {r \in ShapeRows : r.shape = id}
           seqs == {r.seq : r \in rows}
           n == Cardinality(rows)
           f == [r \in rows |-> r.seq]
           upTo(r) == {q \in rows : q.seq <= r.seq}
           nth(k) == CHOOSE r \in rows : Cardinality(upTo(r)) = k
<1>1. IsFiniteSet(rows) /\ n \in Nat
  <2>1. rows \subseteq ShapeRows
    OBVIOUS
  <2> HIDE DEF rows
  <2> QED  BY <2>1, ShapeAssumption, FS_Subset, FS_CardinalityType
<1>2. /\ \A r \in rows : r.at \in Point /\ r.seq \in Int
      /\ \A r, q \in rows : r.seq = q.seq => r = q
  BY ShapeAssumption DEF FeedKeyed
<1>3. Shape(id) = [k \in 1..n |-> nth(k).at]
  BY DEF Shape
<1> HIDE DEF rows
<1>4. ASSUME NEW T \in SUBSET rows PROVE Cardinality({r.seq : r \in T}) = Cardinality(T) /\ IsFiniteSet({r.seq : r \in T})
  <2> DEFINE g == [r \in T |-> r.seq]
             image == {r.seq : r \in T}
  <2>1. IsFiniteSet(T)
    BY <1>1, <1>4, FS_Subset
  <2>2. g \in [T -> image] /\ (\A r, q \in T : g[r] = g[q] => r = q) /\ \A x \in image : \E r \in T : g[r] = x
    BY <1>2
  <2> HIDE DEF g, image
  <2>3. g \in Bijection(T, image)
    BY <2>2, Zenon DEF Bijection, Injection, Surjection, IsInjective
  <2>4. ExistsBijection(T, image)
    BY <2>3, Zenon DEF ExistsBijection
  <2>5. IsFiniteSet(image) /\ Cardinality(image) = Cardinality(T)
    BY <2>1, <2>3, <2>4, FS_Bijection
  <2> QED  BY <2>5 DEF image
<1>5. ASSUME NEW k \in 1..n PROVE nth(k).at \in Point
  <2>1. /\ seqs \subseteq Int /\ IsFiniteSet(seqs) /\ Cardinality(seqs) = n
    BY <1>2, <1>4
  <2>2. PICK i \in seqs : Cardinality({j \in seqs : j <= i}) = k
    <3> HIDE DEF seqs, n
    <3> QED  BY <2>1, CountedOff
  <2>3. PICK r \in rows : r.seq = i
    OBVIOUS
  <2>4. {j \in seqs : j <= i} = {q.seq : q \in upTo(r)}
    BY <2>3
  <2>5. Cardinality(upTo(r)) = k
    <3>1. upTo(r) \in SUBSET rows
      OBVIOUS
    <3> HIDE DEF upTo
    <3> QED  BY <1>4, <2>2, <2>4, <3>1
  <2> HIDE DEF upTo
  <2>6. nth(k) \in rows
    BY <2>5
  <2> QED  BY <1>2, <2>6
<1> HIDE DEF nth, n
<1> QED  BY <1>1, <1>3, <1>5

\* What is looked for nearest is found, and no later than where it is known
\* to be nearest.
LEMMA FirstNearestIs ==
  ASSUME NEW pts, NEW p, NEW S, S \subseteq Nat, NEW k \in S,
         \A j \in S : haversine(p, pts[k]) <= haversine(p, pts[j])
  PROVE  LET m == FirstNearest(pts, p, S) IN
         m \in S /\ m <= k /\ \A j \in S : haversine(p, pts[m]) <= haversine(p, pts[j])
<1> DEFINE N == {x \in S : \A j \in S : haversine(p, pts[x]) <= haversine(p, pts[j])}
<1>1. N \subseteq Nat /\ k \in N
  OBVIOUS
<1>2. FirstNearest(pts, p, S) = Min(N)
  BY DEF FirstNearest
<1> HIDE DEF N
<1>3. Min(N) \in N /\ Min(N) <= k
  BY <1>1, LeastIsMember
<1> QED  BY <1>2, <1>3 DEF N

LEMMA OnlyOneRow == ASSUME NEW n \in Nat PROVE Min({n}) = n /\ Max({n}) = n
<1>1. Min({n}) = n
  BY LeastOfOne
<1>2. Max({n}) = n
  BY DEF Max
<1> QED  BY <1>1, <1>2

\* The first trip of a line has the shape that the engine cuts its rides from.
LEMMA PageShape ==
  ASSUME FeedKeyed, NEW t \in DOMAIN LineOf, TripRows[FirstTrip(LineOf[t])].trip = t
  PROVE  TripRows[FirstTrip(LineOf[t])].shape = ShapeOf(t)
<1> DEFINE mine == {n \in DOMAIN TripRows : TripRows[n].trip = t}
           of == {n \in DOMAIN TripRows : TripRows[n].line = LineOf[t]}
           first == FirstTrip(LineOf[t])
<1>1. DOMAIN TripRows \subseteq Nat
  BY RowsAssumption
<1>2. PICK n \in DOMAIN TripRows : TripRows[n].trip = t
  BY DEF LineOf
<1>3. mine = {n}
  BY <1>2 DEF FeedKeyed
<1>4. LineOf[t] = TripRows[Max(mine)].line /\ ShapeOf(t) = TripRows[Max(mine)].shape
  BY DEF LineOf, ShapeOf
<1>5. first = Min(of) /\ of \subseteq Nat
  BY <1>1 DEF FirstTrip
<1> HIDE DEF mine
<1>6. Max(mine) = n
  BY <1>1, <1>2, <1>3, OnlyOneRow
<1>7. n \in of
  BY <1>2, <1>4, <1>6
<1> HIDE DEF of, first
<1>8. first \in of
  BY <1>5, <1>7, LeastIsMember
<1>9. first \in DOMAIN TripRows /\ TripRows[first].trip = t
  BY <1>8 DEF of, first
<1>10. first = n
  BY <1>2, <1>9 DEF FeedKeyed
<1> QED  BY <1>4, <1>6, <1>10 DEF first

\* What DrawnAsRidden says of one leg of a ride.
DrawnFrom(ride, l) ==
  \E a, b \in DOMAIN Shape(ShapeOf(ride.trip)) :
    /\ a < b /\ Polyline(ride) = SubSeq(Shape(ShapeOf(ride.trip)), a, b)
    /\ l[1] \in Marks(ride.trip, a) /\ l[2] \in Marks(ride.trip, b)
    /\ {e.stop : e \in UNION {Marks(ride.trip, n) : n \in a..b}}
         = {e.stop : e \in {c \in Calls(ride.trip) : l[1].seq <= c.seq /\ c.seq <= l[2].seq}}
    /\ TripRows[FirstTrip(LineOf[ride.trip])].trip = ride.trip =>
         Polyline(ride) = SubSeq(LinePolyline(LineOf[ride.trip]), a, b)

\* The shape tracks the trip: call gives the call that each marked position is
\* nearest to.  The position nearest to where the ride starts is not behind the
\* one that is marked for its first call, so it is marked for no later call; and
\* the next position nearest to where it ends, not behind the one marked for its
\* last call, for none in between.
LEMMA RideIsDrawn ==
  ASSUME FeedKeyed, NEW ride, Ridden(ride), ride.method \in ANY, ride.trip \in Tracked, NEW l \in Legs(ride)
  PROVE  DrawnFrom(ride, l)
<1> DEFINE t == ride.trip
           pts == Shape(ShapeOf(t))
           e == l[1]
           f == l[2]
           near(s, k) == \A j \in DOMAIN pts : haversine(At[s], pts[k]) <= haversine(At[s], pts[j])
           marked == {k \in DOMAIN pts : Marks(t, k) # {}}
<1>1. pts \in Seq(Point)
  BY ShapeType
<1>2. DOMAIN pts = 1..Len(pts) /\ Len(pts) \in Nat /\ \A k \in DOMAIN pts : pts[k] \in Point
  <2> HIDE DEF pts
  <2> QED  BY <1>1
<1>3. /\ e \in Calls(t) /\ f \in Calls(t) /\ e.seq < f.seq
      /\ At[e.stop] = ride.from /\ At[f.stop] = ride.to
      /\ \A h \in Calls(t) : /\ h.stop = e.stop => e.seq <= h.seq
                             /\ h.stop = f.stop => ~(e.seq < h.seq /\ h.seq < f.seq)
  BY DEF Legs
<1>4. /\ \A h \in Calls(t) : h.stop \in Stop /\ h.seq \in Nat /\ At[h.stop] \in Point
      /\ \A g, h \in Calls(t) : g.seq = h.seq => g = h
  BY StopTimesAssumption, PositionAssumption DEF Calls, Entry, FeedKeyed
<1>5. \A h, k : h \in Marks(t, k) <=> h \in Calls(t) /\ near(h.stop, k)
  BY DEF Marks
<1>6. PICK call \in [marked -> Calls(t)] :
        /\ \A k \in marked : \A h \in Marks(t, k) : h.stop = call[k].stop
        /\ \A j, k \in marked : j < k => call[j].seq <= call[k].seq
        /\ \A h \in Calls(t) : \E k \in marked : call[k] = h
  BY DEF Tracked, Tracks
<1>7. \A k \in marked : /\ k \in DOMAIN pts /\ k \in Nat /\ call[k] \in Calls(t) /\ near(call[k].stop, k)
                        /\ call[k].seq \in Nat
  <2> SUFFICES ASSUME NEW k \in marked
               PROVE  /\ k \in DOMAIN pts /\ call[k] \in Calls(t) /\ near(call[k].stop, k)
    BY <1>2, <1>4
  <2>1. PICK h \in Marks(t, k) : h.stop = call[k].stop
    BY <1>6
  <2> QED  BY <1>5, <1>6, <2>1
<1>8. \A k \in DOMAIN pts : \A h \in Calls(t) : near(h.stop, k) => k \in marked /\ h.stop = call[k].stop
  BY <1>5, <1>6
<1>9. t \in DOMAIN LineOf
  BY DEF Tracked
<1>10. e.stop # f.stop
  <2>1. PICK u \in Stop, v \in Stop :
          u # v /\ At[u] = ride.from /\ At[v] = ride.to /\ Called(t, u) /\ Called(t, v)
    BY DEF Ridden
  <2>2. PICK g \in Calls(t), h \in Calls(t) : g.stop = u /\ h.stop = v
    BY <2>1 DEF Called, Calls
  <2>3. PICK k \in marked : call[k] = g
    BY <1>6, <2>2
  <2>4. k \in DOMAIN pts /\ near(u, k)
    BY <1>7, <2>2, <2>3
  <2>5. e.stop = f.stop => near(v, k)
    BY <1>3, <2>1, <2>4
  <2> HIDE DEF near, marked
  <2>6. near(v, k) => v = u
    BY <1>8, <2>2, <2>3, <2>4
  <2> QED  BY <2>1, <2>5, <2>6
<1> DEFINE start == FirstNearest(pts, ride.from, DOMAIN pts)
<1>11. start \in marked /\ near(e.stop, start) /\ call[start] = e
  <2>1. PICK k \in marked : call[k] = e
    BY <1>3, <1>6
  <2>2. k \in DOMAIN pts /\ near(e.stop, k) /\ k \in Nat
    BY <1>7, <2>1
  <2>3. DOMAIN pts \subseteq Nat
    BY <1>2
  <2>4. start \in DOMAIN pts /\ start <= k /\ near(e.stop, start)
    <3>1. \A j \in DOMAIN pts : haversine(ride.from, pts[k]) <= haversine(ride.from, pts[j])
      BY <1>3, <2>2
    <3> HIDE DEF pts
    <3>2. /\ start \in DOMAIN pts /\ start <= k
          /\ \A j \in DOMAIN pts : haversine(ride.from, pts[start]) <= haversine(ride.from, pts[j])
      BY <2>2, <2>3, <3>1, FirstNearestIs
    <3> QED  BY <1>3, <3>2
  <2>5. start \in Nat
    BY <2>3, <2>4
  <2> HIDE DEF start, near, marked, pts, e, f, t
  <2>6. start \in marked /\ call[start].stop = e.stop
    BY <1>3, <1>8, <2>4
  <2>7. call[start] \in Calls(t) /\ e.seq \in Nat /\ call[start].seq \in Nat
    BY <1>3, <1>4, <1>7, <2>6
  <2>8. e.seq <= call[start].seq
    BY <1>3, <2>6, <2>7
  <2>9. start < k \/ start = k
    BY <2>2, <2>4, <2>5
  <2>10. call[start].seq <= e.seq
    BY <1>6, <2>1, <2>6, <2>7, <2>9
  <2>11. call[start].seq = e.seq
    BY <2>7, <2>8, <2>10
  <2> QED  BY <1>3, <1>4, <2>4, <2>6, <2>7, <2>11
<1> DEFINE later == (start + 1)..Len(pts)
           end == FirstNearest(pts, ride.to, later)
<1>12. later # {} /\ end \in marked /\ near(f.stop, end) /\ call[end] = f /\ start < end
  <2>1. PICK k \in marked : call[k] = f
    BY <1>3, <1>6
  <2>2. k \in DOMAIN pts /\ near(f.stop, k) /\ k \in Nat /\ start \in DOMAIN pts /\ start \in Nat
    BY <1>7, <1>11, <2>1
  <2>3. start < k
    <3> HIDE DEF start, near, marked, pts, e, f, t
    <3>1. e.seq \in Nat /\ f.seq \in Nat /\ e.seq < f.seq
      BY <1>3, <1>4
    <3>2. k < start => f.seq <= e.seq
      BY <1>6, <1>11, <2>1
    <3>3. k = start => f.seq = e.seq
      BY <1>11, <2>1
    <3> QED  BY <2>2, <3>1, <3>2, <3>3
  <2> HIDE DEF start
  <2>4. later \subseteq DOMAIN pts /\ later \subseteq Nat /\ k \in later /\ \A j \in later : start < j
    <3> HIDE DEF pts
    <3> QED  BY <1>2, <2>2, <2>3
  <2> HIDE DEF later
  <2>5. \A j \in DOMAIN pts : haversine(ride.to, pts[k]) <= haversine(ride.to, pts[j])
    BY <1>3, <2>2
  <2> HIDE DEF pts
  <2>6. /\ end \in later /\ end <= k
        /\ \A j \in later : haversine(ride.to, pts[end]) <= haversine(ride.to, pts[j])
    BY <2>4, <2>5, FirstNearestIs
  <2>7. end \in DOMAIN pts /\ end \in Nat /\ start < end
    BY <2>4, <2>6
  <2> HIDE DEF end
  <2>8. \A j \in DOMAIN pts : haversine(ride.to, pts[j]) \in Nat
    BY <1>2, <1>3, <1>4, HaversineType
  <2>9. near(f.stop, end)
    <3> TAKE j \in DOMAIN pts
    <3>1. /\ haversine(ride.to, pts[end]) <= haversine(ride.to, pts[k])
          /\ haversine(ride.to, pts[k]) <= haversine(ride.to, pts[j])
      BY <2>4, <2>5, <2>6
    <3>2. haversine(ride.to, pts[end]) <= haversine(ride.to, pts[j])
      BY <2>2, <2>7, <2>8, <3>1
    <3> QED  BY <1>3, <3>2
  <2> HIDE DEF near, marked, e, f, t
  <2>10. end \in marked /\ call[end].stop = f.stop
    BY <1>3, <1>8, <2>7, <2>9
  <2>11. call[end] \in Calls(t) /\ e.seq \in Nat /\ f.seq \in Nat /\ call[end].seq \in Nat
    BY <1>3, <1>4, <1>7, <2>10
  <2>12. e.seq <= call[end].seq
    BY <1>6, <1>11, <2>7, <2>10
  <2>13. call[end].seq <= f.seq
    <3>1. end < k \/ end = k
      BY <2>2, <2>6, <2>7
    <3> QED  BY <1>6, <2>1, <2>10, <2>11, <3>1
  <2>14. call[end].seq # e.seq
    BY <1>3, <1>4, <1>10, <2>10, <2>11
  <2>15. call[end].seq = f.seq
    BY <1>3, <2>10, <2>11, <2>12, <2>13, <2>14
  <2>16. call[end] = f
    BY <1>3, <1>4, <2>11, <2>15
  <2> QED  BY <2>4, <2>7, <2>9, <2>10, <2>16
<1>13. start \in DOMAIN pts /\ end \in DOMAIN pts /\ start \in Nat /\ end \in Nat
  BY <1>7, <1>11, <1>12
<1>14. Polyline(ride) = SubSeq(pts, start, end)
  <2>1. ride.method # WALK
    BY DEF ANY, METRO, BUS, MICROBUS, WALK
  <2>2. Len(pts) >= 2
    <3> HIDE DEF pts, start, end
    <3> QED  BY <1>2, <1>12, <1>13
  <2>3. GetShapePolyline(pts, ride.from, ride.to) = SubSeq(pts, start, end)
    BY <1>12 DEF GetShapePolyline
  <2>4. ~(Len(pts) < 2)
    <3> HIDE DEF pts
    <3> QED  BY <1>2, <2>2
  <2> QED  BY <1>9, <2>1, <2>3, <2>4 DEF Polyline
<1> HIDE DEF start, end
<1>15. e \in Marks(t, start) /\ f \in Marks(t, end)
  BY <1>3, <1>5, <1>11, <1>12
<1> DEFINE past == {h.stop : h \in UNION {Marks(t, n) : n \in start..end}}
           called == {h.stop : h \in {c \in Calls(t) : e.seq <= c.seq /\ c.seq <= f.seq}}
<1>16. past = called
  <2> HIDE DEF near, pts, e, f, t
  <2>1. ASSUME NEW n \in start..end, NEW h \in Marks(t, n) PROVE h.stop \in called
    <3>1. n \in DOMAIN pts /\ n \in Nat
      BY <1>2, <1>13
    <3>2. n \in marked /\ h.stop = call[n].stop /\ call[n] \in Calls(t)
      BY <1>6, <1>7, <3>1
    <3>3. call[n].seq \in Nat /\ e.seq \in Nat /\ f.seq \in Nat
      BY <1>3, <1>4, <3>2
    <3>4. start = n \/ start < n
      BY <1>13, <3>1
    <3>5. n = end \/ n < end
      BY <1>13, <3>1
    <3>6. e.seq <= call[n].seq
      BY <1>6, <1>11, <3>2, <3>3, <3>4
    <3>7. call[n].seq <= f.seq
      <4>1. end \in marked /\ call[end] = f
        BY <1>12
      <4>2. n < end => call[n].seq <= f.seq
        BY <1>6, <3>2, <4>1
      <4>3. n = end => call[n].seq = f.seq
        BY <4>1
      <4> QED  BY <3>3, <3>5, <4>2, <4>3
    <3> QED  BY <3>2, <3>6, <3>7
  <2>2. ASSUME NEW c \in Calls(t), e.seq <= c.seq, c.seq <= f.seq PROVE c.stop \in past
    <3>1. PICK k \in marked : call[k] = c
      BY <1>6
    <3>2. k \in Nat /\ k \in DOMAIN pts /\ near(c.stop, k)
      BY <1>7, <3>1
    <3>3. c \in Marks(t, k)
      BY <1>5, <3>2
    <3>4. c.seq \in Nat /\ e.seq \in Nat /\ f.seq \in Nat
      BY <1>3, <1>4
    <3>5. CASE c = e
      BY <1>13, <1>12, <1>15, <3>5
    <3>6. CASE c = f
      BY <1>13, <1>12, <1>15, <3>6
    <3>7. CASE c # e /\ c # f
      <4>1. e.seq < c.seq /\ c.seq < f.seq
        BY <1>3, <1>4, <2>2, <3>4, <3>7
      <4>2. ~(k < start)
        BY <1>6, <1>11, <3>1, <3>4, <4>1
      <4>3. ~(end < k)
        BY <1>6, <1>12, <3>1, <3>4, <4>1
      <4>4. k \in start..end
        BY <1>13, <3>2, <4>2, <4>3
      <4> QED  BY <3>3, <4>4
    <3> QED  BY <3>5, <3>6, <3>7
  <2> QED  BY <2>1, <2>2
<1>17. TripRows[FirstTrip(LineOf[t])].trip = t => Polyline(ride) = SubSeq(LinePolyline(LineOf[t]), start, end)
  BY <1>9, <1>14, PageShape DEF LinePolyline
<1> QED  BY <1>12, <1>13, <1>14, <1>15, <1>16, <1>17 DEF DrawnFrom

\* On a map the rider sees the ride and nothing else, for every feed whose
\* files have the keys they should have: where the shape tracks the trip, what
\* is drawn is the stretch from the first stop of the ride to its last, past the
\* stops in between.
\* (getShapePolyline, populatePolyline and get_line_detail)
THEOREM RidesAreDrawn == ASSUME FeedKeyed PROVE Spec => []DrawnAsRidden
<1>1. AllRidden => DrawnAsRidden
  <2> SUFFICES ASSUME AllRidden, NEW k \in FoundOptions, NEW i \in Rides(results[k], ANY),
                      NEW l \in Legs(results[k].segments[i]), results[k].segments[i].trip \in Tracked
               PROVE  DrawnFrom(results[k].segments[i], l)
    BY DEF DrawnAsRidden, DrawnFrom
  <2>1. /\ k \in DOMAIN results /\ i \in DOMAIN results[k].segments
        /\ results[k].segments[i].method \in ANY
    BY DEF FoundOptions, Rides, Shown
  <2>2. Ridden(results[k].segments[i])
    BY <2>1 DEF AllRidden
  <2> QED  BY <2>1, <2>2, RideIsDrawn
<1> QED  BY <1>1, RidesAreReal, PTL

=============================================================================
