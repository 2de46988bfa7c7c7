----------------------------- MODULE AStarProofs -----------------------------
(***************************************************************************)
(* Proofs about AStar, for every road network: its types, the chain of     *)
(* cameFrom, that expanded nodes are final, the certificate that no route  *)
(* is shorter than costKm, that the path returned is such a route, and how *)
(* many turns a call can take.                                             *)
(***************************************************************************)
EXTENDS AStar, Induction

\* The heuristic of n, as a name the provers need not look into
h(n) == haversineKm(n, goalId)

\* What a metric gives the algorithm
MetricInv ==
    /\ \A a, b \in Nodes : haversineKm(a, b) \in Nat
    /\ \A a, b \in Nodes : haversineKm(a, b) = haversineKm(b, a)
    /\ \A a \in Nodes : haversineKm(a, a) = 0
    /\ IsMetric

(* The inductive invariant of the search: the keys of the two maps, no     *)
(* route estimate below the straight line, expanded nodes relaxed and no   *)
(* dearer than those still open.                                           *)
Keys ==
    /\ startId \in DOMAIN g /\ g[startId] = 0
    /\ startId \notin DOMAIN cameFrom
    /\ DOMAIN g = DOMAIN cameFrom \union {startId}
    /\ goalId \notin closed

Relaxed == \A a \in closed : \A b \in adj(a) :
    b \in DOMAIN g /\ g[b] <= g[a] + haversineKm(a, b)

Frontier == \A c \in closed, n \in open : f(c) <= f(n)

AboveStraight == \A n \in DOMAIN g : h(startId) <= f(n)

AtGoal == phase \in {"rebuild", "found"} => IsNext(goalId)

SearchInv == MetricInv /\ Keys /\ CameFromTight /\ Relaxed /\ Frontier /\ AboveStraight /\ AtGoal

-----------------------------------------------------------------------------
(* Types.                                                                  *)

LEMMA HaversineNat ==
    ASSUME TypeOK, NEW a \in Nodes, NEW b \in Nodes
    PROVE  /\ haversineKm(a, b) \in Nat
           /\ haversineKm(a, b) = haversineKm(b, a)
           /\ haversineKm(a, a) = 0
<1>1. CASE a = b
  BY <1>1 DEF haversineKm
<1>2. CASE a # b
  <2>1. {a, b} \in Pairs
    BY <1>2 DEF Pairs
  <2>2. km[{a, b}] \in Nat /\ {a, b} = {b, a}
    BY <2>1, AStarAssumption DEF TypeOK
  <2> QED
    BY <1>2, <2>2 DEF haversineKm
<1> QED
  BY <1>1, <1>2

LEMMA InitType == Init => TypeOK
BY AStarAssumption DEF Init, TypeOK, Pairs

LEMMA StepType == TypeOK /\ [Next]_vars => TypeOK'
<1> SUFFICES ASSUME TypeOK, [Next]_vars PROVE TypeOK'
  OBVIOUS
<1>1. ASSUME NEW cur \in Nodes, Expand(cur) PROVE TypeOK'
  <2> DEFINE better == {nb \in adj(cur) : Improves(cur, nb)}
  <2>1. better \subseteq Nodes
    BY DEF adj
  <2>2. cur \in open /\ cur \in DOMAIN g /\ g[cur] \in Nat
    BY <1>1 DEF Expand, IsNext, TypeOK
  <2>3. \A n \in Nodes : haversineKm(cur, n) \in Nat
    BY HaversineNat
  <2>4. \A n \in better : g[cur] + haversineKm(cur, n) \in Nat
    BY <2>1, <2>2, <2>3
  <2> HIDE DEF better
  <2>5. /\ g' = [n \in DOMAIN g \union better |->
                    IF n \in better THEN g[cur] + haversineKm(cur, n) ELSE g[n]]
        /\ cameFrom' = [n \in DOMAIN cameFrom \union better |->
                           IF n \in better THEN cur ELSE cameFrom[n]]
        /\ open' = (open \ {cur}) \union better
        /\ UNCHANGED <<km, edges, startId, goalId, path, phase>>
    BY <1>1 DEF Expand, better, graphVars
  <2>6. DOMAIN g' \subseteq Nodes /\ g' \in [DOMAIN g' -> Nat]
    BY <2>1, <2>4, <2>5 DEF TypeOK
  <2>7. DOMAIN cameFrom' \subseteq Nodes /\ cameFrom' \in [DOMAIN cameFrom' -> Nodes]
    BY <2>1, <2>5 DEF TypeOK
  <2>8. open' \subseteq DOMAIN g'
    BY <2>5 DEF TypeOK
  <2> QED
    BY <2>5, <2>6, <2>7, <2>8 DEF TypeOK
<1>2. CASE ReachGoal
  BY <1>2 DEF ReachGoal, TypeOK, graphVars
<1>3. CASE Rebuild
  <2>1. UNCHANGED <<km, edges, startId, goalId, g, cameFrom, open>>
    BY <1>3 DEF Rebuild, graphVars
  <2>2. path' \in Seq(Nodes)
    <3>1. CASE path[1] \in DOMAIN cameFrom
      <4>1. path' = <<cameFrom[path[1]]>> \o path
        BY <1>3, <3>1 DEF Rebuild
      <4>2. cameFrom[path[1]] \in Nodes /\ path \in Seq(Nodes)
        BY <3>1 DEF TypeOK
      <4> QED
        BY <4>1, <4>2
    <3>2. CASE path[1] \notin DOMAIN cameFrom
      BY <1>3, <3>2 DEF Rebuild, TypeOK
    <3> QED
      BY <3>1, <3>2
  <2>3. phase' \in {"search", "rebuild", "found", "null"}
    BY <1>3 DEF Rebuild
  <2> QED
    BY <2>1, <2>2, <2>3 DEF TypeOK
<1>4. CASE Unreachable
  BY <1>4 DEF Unreachable, TypeOK, graphVars
<1>5. CASE UNCHANGED vars
  BY <1>5 DEF vars, graphVars, TypeOK
<1> QED
  BY <1>1, <1>2, <1>3, <1>4, <1>5 DEF Next

(* Every map, set and path of aStar has its type throughout.               *)
THEOREM TypeCorrect == Spec => []TypeOK
BY InitType, StepType, PTL DEF Spec

-----------------------------------------------------------------------------
(* The search.                                                             *)

LEMMA InitSearch == Init => SearchInv
<1> SUFFICES ASSUME Init PROVE SearchInv
  OBVIOUS
<1>1. TypeOK /\ IsMetric
  BY InitType DEF Init
<1>2. MetricInv
  BY <1>1, HaversineNat DEF MetricInv
<1>3. /\ g = [n \in {startId} |-> 0] /\ DOMAIN cameFrom = {} /\ open = {startId}
      /\ phase \in {"search", "found"}
      /\ phase = "found" => startId = goalId
  BY DEF Init
<1>4. startId \in Nodes /\ goalId \in Nodes /\ closed = {}
  BY <1>1, <1>3 DEF TypeOK, closed
<1>5. Keys /\ CameFromTight /\ Relaxed /\ Frontier
  BY <1>3, <1>4 DEF Keys, CameFromTight, Relaxed, Frontier
<1>6. AboveStraight
  BY <1>2, <1>3, <1>4 DEF AboveStraight, MetricInv, h, f
<1>7. AtGoal
  BY <1>2, <1>3, <1>4 DEF AtGoal, MetricInv, IsNext, f
<1> QED
  BY <1>2, <1>5, <1>6, <1>7 DEF SearchInv

(* An expanded node is final: the straight line to the goal obeys the      *)
(* triangle inequality, so no later turn finds a cheaper way to it.        *)
LEMMA NoneReopened ==
    ASSUME TypeOK, SearchInv, NEW cur \in Nodes, IsNext(cur), NEW b \in adj(cur), b \in closed
    PROVE  ~Improves(cur, b)
<1>1. cur \in DOMAIN g /\ b \in DOMAIN g /\ b \in Nodes /\ g[cur] \in Nat /\ g[b] \in Nat
  BY DEF TypeOK, IsNext, closed
<1>2. g[b] + h(b) <= g[cur] + h(cur)
  BY DEF SearchInv, Frontier, IsNext, f, h
<1>3. h(cur) <= haversineKm(cur, b) + h(b)
  BY <1>1 DEF SearchInv, MetricInv, IsMetric, h, TypeOK
<1>4. h(cur) \in Nat /\ h(b) \in Nat /\ haversineKm(cur, b) \in Nat
  BY <1>1 DEF SearchInv, MetricInv, h, TypeOK
<1>5. g[b] <= g[cur] + haversineKm(cur, b)
  BY <1>1, <1>2, <1>3, <1>4
<1> QED
  BY <1>1, <1>4, <1>5 DEF Improves

(* What one turn of the search does to the maps.                           *)
LEMMA ExpandEffect ==
    ASSUME TypeOK, SearchInv, NEW cur \in Nodes, Expand(cur),
           NEW better, better = {nb \in adj(cur) : Improves(cur, nb)}
    PROVE  /\ better \subseteq Nodes /\ better \intersect closed = {}
           /\ IsNext(cur) /\ cur # goalId /\ phase = "search"
           /\ cur \in open /\ cur \notin better
           /\ DOMAIN g' = DOMAIN g \union better
           /\ \A n \in DOMAIN g : n \notin better => g'[n] = g[n]
           /\ \A n \in better : g'[n] = g[cur] + haversineKm(cur, n)
           /\ \A n \in DOMAIN g \intersect better : g'[n] < g[n]
           /\ DOMAIN cameFrom' = DOMAIN cameFrom \union better
           /\ \A n \in DOMAIN cameFrom : n \notin better => cameFrom'[n] = cameFrom[n]
           /\ \A n \in better : cameFrom'[n] = cur
           /\ open' = (open \ {cur}) \union better
           /\ closed' = closed \union {cur}
           /\ \A b \in adj(cur) : b \in DOMAIN g' /\ g'[b] <= g[cur] + haversineKm(cur, b)
           /\ UNCHANGED <<km, edges, startId, goalId, path, phase>>
<1>1. IsNext(cur) /\ cur # goalId /\ phase = "search" /\ cur \in open /\ better \subseteq Nodes
  BY DEF Expand, IsNext, adj
<1>2. better \intersect closed = {}
  BY <1>1, NoneReopened
<1>3. cur \in DOMAIN g /\ g[cur] \in Nat /\ haversineKm(cur, cur) = 0
  BY <1>1 DEF TypeOK, SearchInv, MetricInv
<1>4. cur \notin better
  BY <1>3 DEF Improves
<1>5. /\ g' = [n \in DOMAIN g \union better |->
                  IF n \in better THEN g[cur] + haversineKm(cur, n) ELSE g[n]]
      /\ cameFrom' = [n \in DOMAIN cameFrom \union better |->
                         IF n \in better THEN cur ELSE cameFrom[n]]
      /\ open' = (open \ {cur}) \union better
      /\ UNCHANGED <<km, edges, startId, goalId, path, phase>>
  BY DEF Expand, graphVars
<1>6. closed' = closed \union {cur}
  BY <1>1, <1>2, <1>3, <1>4, <1>5 DEF closed, TypeOK
<1>7. \A n \in DOMAIN g \intersect better : g'[n] < g[n]
  BY <1>5 DEF Improves
<1>8. ASSUME NEW b \in adj(cur)
      PROVE  b \in DOMAIN g' /\ g'[b] <= g[cur] + haversineKm(cur, b)
  <2>1. b \in Nodes /\ haversineKm(cur, b) \in Nat
    BY DEF adj, SearchInv, MetricInv
  <2>2. CASE b \in better
    BY <1>3, <1>5, <2>1, <2>2
  <2>3. CASE b \notin better
    <3>1. b \in DOMAIN g /\ ~(g[cur] + haversineKm(cur, b) < g[b]) /\ g[b] \in Nat
      BY <2>3 DEF Improves, TypeOK
    <3> QED
      BY <1>3, <1>5, <2>1, <2>3, <3>1
  <2> QED
    BY <2>2, <2>3
<1> QED
  BY <1>1, <1>2, <1>4, <1>5, <1>6, <1>7, <1>8

LEMMA ExpandSearch ==
    ASSUME TypeOK, SearchInv, NEW cur \in Nodes, Expand(cur)
    PROVE  SearchInv'
<1> DEFINE better == {nb \in adj(cur) : Improves(cur, nb)}
<1>1. /\ better \subseteq Nodes /\ better \intersect closed = {}
      /\ IsNext(cur) /\ cur # goalId /\ phase = "search"
      /\ cur \in open /\ cur \notin better
      /\ DOMAIN g' = DOMAIN g \union better
      /\ \A n \in DOMAIN g : n \notin better => g'[n] = g[n]
      /\ \A n \in better : g'[n] = g[cur] + haversineKm(cur, n)
      /\ \A n \in DOMAIN g \intersect better : g'[n] < g[n]
      /\ DOMAIN cameFrom' = DOMAIN cameFrom \union better
      /\ \A n \in DOMAIN cameFrom : n \notin better => cameFrom'[n] = cameFrom[n]
      /\ \A n \in better : cameFrom'[n] = cur
      /\ open' = (open \ {cur}) \union better
      /\ closed' = closed \union {cur}
      /\ \A b \in adj(cur) : b \in DOMAIN g' /\ g'[b] <= g[cur] + haversineKm(cur, b)
      /\ UNCHANGED <<km, edges, startId, goalId, path, phase>>
  BY ExpandEffect
<1>2. better \subseteq adj(cur)
  OBVIOUS
<1> HIDE DEF better
<1>3. \A a, b \in Nodes : haversineKm(a, b)' = haversineKm(a, b)
  BY <1>1 DEF haversineKm
<1>4. \A a \in Nodes : adj(a)' = adj(a)
  BY <1>1 DEF adj
<1>5. DOMAIN g \subseteq Nodes /\ closed \subseteq DOMAIN g /\ open \subseteq DOMAIN g
  BY DEF TypeOK, closed
<1>6. \A n \in DOMAIN g : g[n] \in Nat
  BY DEF TypeOK
<1>7. cur \in DOMAIN g /\ startId \in Nodes /\ goalId \in Nodes
  BY <1>1, <1>5 DEF TypeOK
<1>8. \A a, b \in Nodes : haversineKm(a, b) \in Nat
  BY DEF SearchInv, MetricInv
<1>9. MetricInv'
  <2>1. MetricInv
    BY DEF SearchInv
  <2> QED
    BY <2>1, <1>3 DEF MetricInv, IsMetric
<1>10. Keys'
  <2>1. startId \in DOMAIN g /\ g[startId] = 0 /\ startId \notin DOMAIN cameFrom
        /\ DOMAIN g = DOMAIN cameFrom \union {startId} /\ goalId \notin closed
    BY DEF SearchInv, Keys
  <2>2. startId \notin better
    <3> SUFFICES ASSUME startId \in better PROVE FALSE
      OBVIOUS
    <3>1. g'[startId] = g[cur] + haversineKm(cur, startId) /\ g'[startId] < 0
      BY <1>1, <2>1
    <3> QED
      BY <3>1, <1>6, <1>7, <1>8
  <2> QED
    BY <1>1, <2>1, <2>2 DEF Keys
<1>11. CameFromTight'
  <2> SUFFICES ASSUME NEW n \in DOMAIN cameFrom'
               PROVE  /\ cameFrom'[n] \in closed'
                      /\ {cameFrom'[n], n} \in edges
                      /\ g'[n] = g'[cameFrom'[n]]
                                    + IF cameFrom'[n] = n THEN 0 ELSE km[{cameFrom'[n], n}]
    BY <1>1 DEF CameFromTight, haversineKm
  <2>1. CASE n \in better
    <3>1. {cur, n} \in edges /\ n \in Nodes
      BY <1>2, <2>1 DEF adj
    <3> QED
      BY <1>1, <1>7, <2>1, <3>1 DEF haversineKm
  <2>2. CASE n \notin better
    <3>1. /\ n \in DOMAIN cameFrom /\ cameFrom[n] \in closed /\ {cameFrom[n], n} \in edges
          /\ g[n] = g[cameFrom[n]] + haversineKm(cameFrom[n], n)
          /\ n \in DOMAIN g
      BY <1>1, <2>2 DEF SearchInv, CameFromTight, Keys
    <3>2. cameFrom[n] \notin better /\ cameFrom[n] \in DOMAIN g /\ cameFrom[n] \in Nodes
      BY <1>1, <1>5, <3>1
    <3>3. g'[n] = g[n] /\ g'[cameFrom[n]] = g[cameFrom[n]] /\ cameFrom'[n] = cameFrom[n]
      BY <1>1, <2>2, <3>1, <3>2
    <3> QED
      BY <1>1, <3>1, <3>2, <3>3 DEF haversineKm
  <2> QED
    BY <2>1, <2>2
<1>12. Relaxed'
  <2> SUFFICES ASSUME NEW a \in closed', NEW b \in adj(a)
               PROVE  b \in DOMAIN g' /\ g'[b] <= g'[a] + haversineKm(a, b)
    BY <1>1, <1>3, <1>4, <1>5, <1>7 DEF Relaxed, adj
  <2>1. a \in Nodes /\ b \in Nodes /\ a \notin better /\ g'[a] = g[a] /\ a \in DOMAIN g
    BY <1>1, <1>5, <1>7 DEF adj
  <2>2. CASE a = cur
    BY <1>1, <2>1, <2>2
  <2>3. CASE a # cur
    <3>1. a \in closed /\ b \in DOMAIN g /\ g[b] <= g[a] + haversineKm(a, b)
      BY <1>1, <2>3 DEF SearchInv, Relaxed
    <3>2. g'[b] <= g[b] /\ g[b] \in Nat /\ b \in DOMAIN g'
      <4>1. CASE b \in better
        <5>1. g'[b] < g[b] /\ g'[b] = g[cur] + haversineKm(cur, b)
          BY <1>1, <3>1, <4>1
        <5> QED
          BY <1>1, <1>6, <1>7, <1>8, <2>1, <3>1, <5>1
      <4>2. CASE b \notin better
        BY <1>1, <1>6, <3>1, <4>2
      <4> QED
        BY <4>1, <4>2
    <3>3. g'[b] \in Int
      BY <1>1, <1>6, <1>7, <1>8, <2>1, <3>1
    <3> QED
      BY <1>6, <1>8, <2>1, <3>1, <3>2, <3>3
  <2> QED
    BY <2>2, <2>3
<1>13. \A n \in Nodes : h(n)' = h(n) /\ h(n) \in Nat
  BY <1>1, <1>3, <1>7, <1>8 DEF h
<1>14. \A n \in better : n \in Nodes /\ g'[n] \in Nat /\ g[cur] + h(cur) <= g'[n] + h(n)
  <2> SUFFICES ASSUME NEW n \in better
               PROVE  n \in Nodes /\ g'[n] \in Nat /\ g[cur] + h(cur) <= g'[n] + h(n)
    OBVIOUS
  <2>1. g'[n] = g[cur] + haversineKm(cur, n) /\ n \in Nodes
    BY <1>1
  <2>2. h(cur) <= haversineKm(cur, n) + h(n)
    BY <1>7, <2>1 DEF SearchInv, MetricInv, IsMetric, h
  <2> QED
    BY <1>6, <1>7, <1>8, <1>13, <2>1, <2>2
<1>15. \A n \in DOMAIN g \ better : g'[n] + h(n)' = g[n] + h(n)
  BY <1>1, <1>5, <1>13
<1>16. Frontier'
  <2> SUFFICES ASSUME NEW c \in closed', NEW n \in open'
               PROVE  g'[c] + h(c)' <= g'[n] + h(n)'
    BY DEF Frontier, f, h
  <2>1. c \in DOMAIN g /\ c \notin better /\ c \in Nodes
    BY <1>1, <1>5, <1>7
  <2>2. g[c] + h(c) <= g[cur] + h(cur)
    BY <1>1, <1>6, <1>7, <1>13 DEF SearchInv, Frontier, f, h
  <2>3. g[cur] + h(cur) <= g'[n] + h(n) /\ n \in Nodes /\ g'[n] \in Nat
    <3>1. CASE n \in better
      BY <1>14, <3>1
    <3>2. CASE n \notin better
      <4>1. n \in open
        BY <1>1, <3>2
      <4>2. g'[n] = g[n] /\ n \in Nodes /\ g[n] \in Nat
        BY <1>1, <1>5, <1>6, <3>2, <4>1
      <4>3. g[cur] + h(cur) <= g[n] + h(n)
        BY <1>1, <4>1 DEF IsNext, f, h
      <4> QED
        BY <4>2, <4>3
    <3> QED
      BY <3>1, <3>2
  <2> QED
    BY <1>6, <1>7, <1>13, <1>15, <2>1, <2>2, <2>3
<1>17. AboveStraight'
  <2> SUFFICES ASSUME NEW n \in DOMAIN g'
               PROVE  h(startId)' <= g'[n] + h(n)'
    BY DEF AboveStraight, f, h
  <2>1. \A m \in DOMAIN g : h(startId) <= g[m] + h(m)
    BY DEF SearchInv, AboveStraight, f, h
  <2>2. h(startId)' = h(startId) /\ h(startId) \in Nat
    BY <1>1, <1>3, <1>7, <1>8 DEF h
  <2>3. CASE n \in better
    BY <1>6, <1>7, <1>13, <1>14, <2>1, <2>2, <2>3
  <2>4. CASE n \notin better
    BY <1>1, <1>15, <2>1, <2>2, <2>4
  <2> QED
    BY <2>3, <2>4
<1>18. AtGoal'
  BY <1>1 DEF AtGoal
<1> QED
  BY <1>9, <1>10, <1>11, <1>12, <1>16, <1>17, <1>18 DEF SearchInv

(* The other steps leave the search alone.                                 *)
LEMMA SearchUnchanged ==
    ASSUME SearchInv, UNCHANGED <<km, edges, startId, goalId, g, cameFrom, open>>,
           phase' \in {"rebuild", "found"} => IsNext(goalId)
    PROVE  SearchInv'
<1>1. MetricInv' /\ Keys' /\ CameFromTight' /\ Relaxed'
  <2>1. \A a, b : haversineKm(a, b)' = haversineKm(a, b)
    BY DEF haversineKm
  <2>2. closed' = closed
    BY DEF closed
  <2>3. \A a : adj(a)' = adj(a)
    BY DEF adj
  <2>4. MetricInv'
    BY <2>1 DEF SearchInv, MetricInv, IsMetric
  <2>5. Keys'
    BY <2>2 DEF SearchInv, Keys
  <2>6. CameFromTight'
    BY <2>1, <2>2 DEF SearchInv, CameFromTight
  <2>7. Relaxed'
    BY <2>1, <2>2, <2>3 DEF SearchInv, Relaxed
  <2> QED
    BY <2>4, <2>5, <2>6, <2>7
<1>2. Frontier' /\ AboveStraight' /\ AtGoal'
  BY DEF SearchInv, Frontier, AboveStraight, AtGoal, IsNext, f, h, haversineKm, closed
<1> QED
  BY <1>1, <1>2 DEF SearchInv

LEMMA StepSearch == TypeOK /\ SearchInv /\ [Next]_vars => SearchInv'
<1> SUFFICES ASSUME TypeOK, SearchInv, [Next]_vars PROVE SearchInv'
  OBVIOUS
<1>1. ASSUME NEW cur \in Nodes, Expand(cur) PROVE SearchInv'
  BY <1>1, ExpandSearch
<1>2. CASE ReachGoal
  BY <1>2, SearchUnchanged DEF ReachGoal, graphVars
<1>3. CASE Rebuild
  BY <1>3, SearchUnchanged DEF Rebuild, graphVars, SearchInv, AtGoal
<1>4. CASE Unreachable
  BY <1>4, SearchUnchanged DEF Unreachable, graphVars
<1>5. CASE UNCHANGED vars
  BY <1>5, SearchUnchanged DEF vars, graphVars, SearchInv, AtGoal
<1> QED
  BY <1>1, <1>2, <1>3, <1>4, <1>5 DEF Next

LEMMA SearchAlways == Spec => [](TypeOK /\ SearchInv)
BY InitType, StepType, InitSearch, StepSearch, PTL DEF Spec

(* The chain of cameFrom accounts for every kilometre of g at every        *)
(* moment, so rebuilding the path from it yields a route of costKm.        *)
THEOREM ChainIsTight == Spec => []CameFromTight
<1>1. TypeOK /\ SearchInv => CameFromTight
  BY DEF SearchInv
<1> QED
  BY <1>1, SearchAlways, PTL

(* Expanded nodes are final on every road network.                         *)
THEOREM ClosedFinal == Spec => ClosedIsFinal
<1>1. TypeOK /\ SearchInv /\ [Next]_vars => [\A n \in closed : n \in closed' /\ g'[n] = g[n]]_vars
  <2> SUFFICES ASSUME TypeOK, SearchInv, Next
               PROVE  \A n \in closed : n \in closed' /\ g'[n] = g[n]
    OBVIOUS
  <2>1. ASSUME NEW cur \in Nodes, Expand(cur)
        PROVE  \A n \in closed : n \in closed' /\ g'[n] = g[n]
    BY <2>1, ExpandEffect DEF closed
  <2>2. CASE ReachGoal \/ Rebuild \/ Unreachable
    BY <2>2 DEF ReachGoal, Rebuild, Unreachable, closed
  <2> QED
    BY <2>1, <2>2 DEF Next
<1> QED
  BY <1>1, SearchAlways, PTL DEF Spec, ClosedIsFinal

(* At the goal, price is a lower bound that rises along no road by more    *)
(* than its length: no route is shorter than costKm.                       *)
LEMMA SearchCertifies == TypeOK /\ SearchInv => Certified
<1> SUFFICES ASSUME TypeOK, SearchInv, phase \in {"rebuild", "found"}
             PROVE  /\ price(startId) = 0
                    /\ price(goalId) = g[goalId]
                    /\ \A a \in Nodes : \A b \in adj(a) : price(b) <= price(a) + haversineKm(a, b)
  BY DEF Certified
<1>1. goalId \in open /\ \A n \in open : g[goalId] + h(goalId) <= g[n] + h(n)
  BY DEF SearchInv, AtGoal, IsNext, f, h
<1>2. \A a, b \in Nodes : haversineKm(a, b) \in Nat
  BY DEF SearchInv, MetricInv
<1>3. startId \in Nodes /\ goalId \in Nodes /\ h(goalId) = 0
  BY DEF TypeOK, SearchInv, MetricInv, h
<1>4. \A n \in Nodes : h(n) \in Nat
  BY <1>2, <1>3 DEF h
<1>5. \A n \in DOMAIN g : g[n] \in Nat
  BY DEF TypeOK
<1>6. goalId \in DOMAIN g
  BY <1>1 DEF TypeOK
<1>7. startId \in DOMAIN g /\ g[startId] = 0 /\ h(startId) <= g[goalId]
  BY <1>3, <1>4, <1>5, <1>6 DEF SearchInv, Keys, AboveStraight, f, h
<1>8. \A n \in Nodes : price(n) = IF n \in DOMAIN g /\ g[n] <= g[goalId] - h(n)
                                  THEN g[n] ELSE g[goalId] - h(n)
  BY DEF price, h
<1>9. price(startId) = 0
  BY <1>3, <1>4, <1>5, <1>6, <1>7, <1>8
<1>10. price(goalId) = g[goalId]
  BY <1>3, <1>5, <1>6, <1>8
<1>11. ASSUME NEW a \in Nodes, NEW b \in adj(a)
       PROVE  price(b) <= price(a) + haversineKm(a, b)
  <2>1. b \in Nodes /\ haversineKm(a, b) \in Nat
    BY <1>2 DEF adj
  <2>2. h(a) <= haversineKm(a, b) + h(b)
    BY <1>3, <2>1 DEF SearchInv, MetricInv, IsMetric, h
  <2>3. price(b) <= g[goalId] - h(b) /\ price(b) \in Int
    BY <1>4, <1>5, <1>6, <1>8, <2>1
  <2>4. CASE a \in closed /\ g[a] <= g[goalId] - h(a)
    <3>1. b \in DOMAIN g /\ g[b] <= g[a] + haversineKm(a, b) /\ a \in DOMAIN g
      BY <2>4 DEF SearchInv, Relaxed, closed
    <3>2. price(a) = g[a] /\ price(b) <= g[b]
      BY <1>4, <1>5, <1>6, <1>8, <2>1, <2>4, <3>1
    <3> QED
      BY <1>5, <2>1, <2>3, <3>1, <3>2
  <2>5. CASE ~(a \in closed /\ g[a] <= g[goalId] - h(a))
    <3>1. price(a) = g[goalId] - h(a)
      <4>1. CASE a \in open
        <5>1. g[goalId] <= g[a] + h(a) /\ a \in DOMAIN g
          BY <1>1, <1>3, <1>5, <1>6, <4>1 DEF TypeOK
        <5> QED
          BY <1>4, <1>5, <1>6, <1>8, <4>1, <5>1
      <4>2. CASE a \notin open
        BY <1>8, <2>5, <4>2 DEF closed
      <4> QED
        BY <4>1, <4>2
    <3> QED
      BY <1>4, <1>5, <1>6, <2>1, <2>2, <2>3, <3>1
  <2> QED
    BY <2>4, <2>5
<1> QED
  BY <1>9, <1>10, <1>11

THEOREM NoShorterRoute == Spec => []Certified
BY SearchAlways, SearchCertifies, PTL

-----------------------------------------------------------------------------
(* The routes.                                                             *)

(* The kilometres along a route are the sum of its legs.                   *)
LEMMA RouteKmAddsUp ==
    ASSUME TypeOK, NEW k \in Nat \ {0}, NEW r \in [1..k -> Nodes],
           NEW leg, leg = [i \in 2..k |-> haversineKm(r[i - 1], r[i])]
    PROVE  /\ leg \in [2..k -> Nat]
           /\ \E along \in [1..k -> Nat] : Sums(k, leg, along) /\ RouteKm(r) = along[k]
<1>1. leg \in [2..k -> Nat]
  <2>1. \A i \in 2..k : r[i - 1] \in Nodes /\ r[i] \in Nodes
    OBVIOUS
  <2>2. \A i \in 2..k : haversineKm(r[i - 1], r[i]) \in Nat
    BY <2>1, HaversineNat
  <2> QED
    BY <2>2
<1>2. Len(r) = k
  OBVIOUS
<1> DEFINE Along(along) ==
       along = [i \in 1..Len(r) |->
                   IF i = 1 THEN 0 ELSE along[i - 1] + haversineKm(r[i - 1], r[i])]
<1>3. ASSUME NEW along
      PROVE  Along(along) <=> Sums(k, leg, along)
  <2>1. \A i \in 1..k : i # 1 => leg[i] = haversineKm(r[i - 1], r[i])
    OBVIOUS
  <2> QED
    BY <1>2, <2>1 DEF Sums
<1>4. \E along : Along(along)
  <2>1. PICK along \in [1..k -> Nat] : Sums(k, leg, along)
    BY <1>1, SumsExist
  <2> HIDE DEF Along
  <2> QED
    BY <1>3, <2>1
<1>5. PICK along : Along(along) /\ RouteKm(r) = along[Len(r)]
  BY <1>4, Zenon DEF RouteKm
<1> HIDE DEF Along
<1>6. Sums(k, leg, along) /\ RouteKm(r) = along[k]
  BY <1>2, <1>3, <1>5
<1>7. along \in [1..k -> Nat]
  BY <1>1, <1>6, SumsType
<1> QED
  BY <1>1, <1>6, <1>7

(* No route from start to goal is shorter than costKm: the price rises     *)
(* from 0 to costKm along it, on each road by no more than its length.     *)
LEMMA RoutesCostMore ==
    ASSUME TypeOK, SearchInv, phase \in {"rebuild", "found"},
           NEW k \in Nat \ {0}, NEW r \in [1..k -> Nodes],
           r[1] = startId, r[k] = goalId, IsRoute(r)
    PROVE  g[goalId] <= RouteKm(r)
<1> DEFINE leg == [i \in 2..k |-> haversineKm(r[i - 1], r[i])]
           p == [i \in 1..k |-> price(r[i])]
<1>1. PICK along \in [1..k -> Nat] : Sums(k, leg, along) /\ RouteKm(r) = along[k]
  BY RouteKmAddsUp
<1>2. leg \in [2..k -> Nat]
  BY RouteKmAddsUp
<1>3. Certified
  BY SearchCertifies
<1>4. p \in [1..k -> Int]
  <2>1. goalId \in DOMAIN g
    BY DEF SearchInv, AtGoal, IsNext, TypeOK
  <2>2. \A n \in Nodes : haversineKm(n, goalId) \in Nat
    BY HaversineNat DEF TypeOK
  <2>3. \A n \in Nodes : price(n) \in Int
    BY <2>1, <2>2 DEF TypeOK, price
  <2> QED
    BY <2>3
<1>5. p[1] = 0 /\ p[k] = g[goalId]
  BY <1>3 DEF Certified
<1>6. ASSUME NEW i \in 2..k
      PROVE  p[i] <= p[i - 1] + leg[i]
  <2>1. Len(r) = k /\ i - 1 \in 1..k-1 /\ (i - 1) + 1 = i
    OBVIOUS
  <2>2. r[i - 1] \in Nodes /\ r[i] \in Nodes /\ {r[i - 1], r[i]} \in edges
    BY <2>1 DEF IsRoute
  <2>3. r[i] \in adj(r[i - 1])
    BY <2>2 DEF adj
  <2>4. price(r[i]) <= price(r[i - 1]) + haversineKm(r[i - 1], r[i])
    BY <1>3, <2>2, <2>3 DEF Certified
  <2> QED
    BY <2>1, <2>4
<1> HIDE DEF leg, p
<1> QED
  BY <1>1, <1>2, <1>4, <1>5, <1>6, SumsBound

(* The path under construction is the chain of cameFrom to the goal; when  *)
(* it is returned it begins at the start.  null is returned when nothing   *)
(* is left to expand.                                                      *)
Chain == phase \in {"rebuild", "found"} =>
    /\ path # << >> /\ path[Len(path)] = goalId
    /\ \A i \in 1..Len(path) : path[i] \in DOMAIN g
    /\ \A i \in 2..Len(path) : path[i] \in DOMAIN cameFrom /\ cameFrom[path[i]] = path[i - 1]

PathInv ==
    /\ Chain
    /\ phase = "found" => path[1] = startId
    /\ phase = "null" => open = {}

LEMMA PathStep == TypeOK /\ SearchInv /\ PathInv /\ [Next]_vars => PathInv'
<1> SUFFICES ASSUME TypeOK, SearchInv, PathInv, [Next]_vars PROVE PathInv'
  OBVIOUS
<1> USE DEF PathInv, Chain
<1>1. ASSUME NEW cur \in Nodes, Expand(cur) PROVE PathInv'
  BY <1>1 DEF Expand
<1>2. CASE ReachGoal
  <2>1. /\ path' = <<goalId>> /\ phase' = "rebuild"
        /\ goalId \in DOMAIN g
        /\ UNCHANGED <<startId, goalId, g, cameFrom, open>>
    BY <1>2 DEF ReachGoal, IsNext, TypeOK, graphVars
  <2>2. Len(path') = 1 /\ path'[1] = goalId /\ path' # << >>
    BY <2>1
  <2> QED
    BY <2>1, <2>2
<1>3. CASE Rebuild
  <2>1. /\ phase = "rebuild" /\ path \in Seq(Nodes) /\ path # << >>
        /\ path[1] \in DOMAIN g
        /\ UNCHANGED <<startId, goalId, g, cameFrom, open>>
    BY <1>3 DEF Rebuild, graphVars, TypeOK
  <2>2. CASE path[1] \in DOMAIN cameFrom
    <3> DEFINE n == cameFrom[path[1]]
    <3>1. path' = <<n>> \o path /\ phase' = "rebuild"
      BY <1>3, <2>1, <2>2 DEF Rebuild
    <3>2. n \in Nodes /\ n \in DOMAIN g
      BY <2>2 DEF TypeOK, SearchInv, CameFromTight, closed
    <3> HIDE DEF n
    <3>3. /\ Len(path') = Len(path) + 1 /\ path'[1] = n /\ path' # << >>
          /\ \A i \in 2..Len(path) + 1 : path'[i] = path[i - 1]
      BY <2>1, <3>1, <3>2
    <3>4. Len(path) \in Nat \ {0}
      BY <2>1
    <3>5. path'[Len(path')] = goalId
      BY <2>1, <3>3, <3>4
    <3>6. \A i \in 1..Len(path') : path'[i] \in DOMAIN g
      BY <2>1, <3>2, <3>3, <3>4
    <3>7. ASSUME NEW i \in 2..Len(path')
          PROVE  path'[i] \in DOMAIN cameFrom /\ cameFrom[path'[i]] = path'[i - 1]
      <4>1. CASE i = 2
        BY <2>2, <3>3, <3>4, <4>1 DEF n
      <4>2. CASE i # 2
        <5>1. i - 1 \in 2..Len(path) /\ i \in 2..Len(path) + 1 /\ i - 1 \in 2..Len(path) + 1
          BY <3>3, <3>4, <4>2
        <5>2. path'[i] = path[i - 1] /\ path'[i - 1] = path[(i - 1) - 1]
          BY <3>3, <5>1
        <5>3. path[i - 1] \in DOMAIN cameFrom /\ cameFrom[path[i - 1]] = path[(i - 1) - 1]
          BY <2>1, <5>1
        <5> QED
          BY <5>2, <5>3
      <4> QED
        BY <4>1, <4>2
    <3> QED
      BY <2>1, <3>1, <3>3, <3>5, <3>6, <3>7
  <2>3. CASE path[1] \notin DOMAIN cameFrom
    <3>1. path' = path /\ phase' = "found"
      BY <1>3, <2>3 DEF Rebuild
    <3>2. path[1] = startId
      BY <2>1, <2>3 DEF SearchInv, Keys
    <3> QED
      BY <2>1, <3>1, <3>2
  <2> QED
    BY <2>2, <2>3
<1>4. CASE Unreachable
  BY <1>4 DEF Unreachable
<1>5. CASE UNCHANGED vars
  BY <1>5 DEF vars, graphVars
<1> QED
  BY <1>1, <1>2, <1>3, <1>4, <1>5 DEF Next

LEMMA PathInit == Init => PathInv
BY DEF Init, PathInv, Chain

(* The kilometres along the returned path are those of costKm, and no node *)
(* is on it twice: g rises along it, on each road by its length.           *)
LEMMA PathIsTight ==
    ASSUME TypeOK, SearchInv, PathInv, phase = "found",
           NEW k, k = Len(path)
    PROVE  /\ k \in Nat \ {0} /\ path \in [1..k -> Nodes]
           /\ IsRoute(path) /\ path[1] = startId /\ path[k] = goalId
           /\ RouteKm(path) = g[goalId]
           /\ \A i, j \in 1..k : path[i] = path[j] => i = j
<1>1. /\ path \in Seq(Nodes) /\ path # << >>
      /\ \A i \in 1..k : path[i] \in DOMAIN g
      /\ \A i \in 2..k : path[i] \in DOMAIN cameFrom /\ cameFrom[path[i]] = path[i - 1]
      /\ path[1] = startId /\ path[k] = goalId
  BY DEF PathInv, Chain, TypeOK
<1>2. k \in Nat \ {0} /\ path \in [1..k -> Nodes]
  BY <1>1
<1>3. ASSUME NEW i \in 2..k
      PROVE  /\ i - 1 \in 1..k /\ i \in 1..k
             /\ {path[i - 1], path[i]} \in edges
             /\ g[path[i]] = g[path[i - 1]] + haversineKm(path[i - 1], path[i])
  <2>1. i - 1 \in 1..k /\ i \in 1..k
    BY <1>2
  <2> QED
    BY <1>1, <2>1 DEF SearchInv, CameFromTight
<1>4. IsRoute(path)
  <2> SUFFICES ASSUME NEW i \in 1..(Len(path) - 1)
               PROVE  {path[i], path[i + 1]} \in edges
    BY DEF IsRoute
  <2>1. i + 1 \in 2..k /\ (i + 1) - 1 = i
    BY <1>2
  <2> QED
    BY <1>3, <2>1
<1> DEFINE leg == [i \in 2..k |-> haversineKm(path[i - 1], path[i])]
           p == [i \in 1..k |-> g[path[i]]]
<1>5. PICK along \in [1..k -> Nat] : Sums(k, leg, along) /\ RouteKm(path) = along[k]
  BY <1>2, RouteKmAddsUp
<1>6. leg \in [2..k -> Nat]
  BY <1>2, RouteKmAddsUp
<1>7. p \in [1..k -> Int] /\ p[1] = 0 /\ p[k] = g[goalId]
  BY <1>1, <1>2 DEF TypeOK, SearchInv, Keys
<1>8. \A i \in 2..k : p[i] = p[i - 1] + leg[i]
  BY <1>3
<1>9. \A i \in 2..k : p[i - 1] < p[i]
  <2> SUFFICES ASSUME NEW i \in 2..k
               PROVE  p[i - 1] < p[i]
    OBVIOUS
  <2>1. /\ path[i - 1] \in Nodes /\ path[i] \in Nodes
        /\ {path[i - 1], path[i]} \in Roads
    BY <1>2, <1>3 DEF TypeOK
  <2>2. path[i - 1] # path[i] /\ {path[i - 1], path[i]} \in Pairs
    <3>1. Roads \subseteq Pairs
      BY AStarAssumption DEF Pairs
    <3> DEFINE x == path[i - 1]
               y == path[i]
    <3>2. {x, y} \in Pairs /\ x \in Nodes
      BY <2>1, <3>1
    <3> HIDE DEF x, y
    <3>3. {x, y} # {x}
      BY <3>2 DEF Pairs
    <3> QED
      BY <3>2, <3>3 DEF x, y
  <2>3. haversineKm(path[i - 1], path[i]) \in 1..MaxKm
    BY <2>2 DEF TypeOK, haversineKm
  <2>4. leg[i] = haversineKm(path[i - 1], path[i]) /\ p[i] = p[i - 1] + leg[i]
    BY <1>8
  <2>5. p[i - 1] \in Int
    BY <1>3, <1>7
  <2> HIDE DEF leg, p
  <2>6. leg[i] \in Int /\ leg[i] >= 1
    BY <2>3, <2>4, AStarAssumption
  <2> QED
    BY <2>4, <2>5, <2>6
<1>10. RouteKm(path) = g[goalId]
  <2> HIDE DEF leg, p
  <2> QED
    BY <1>2, <1>5, <1>6, <1>7, <1>8, SumsMatch
<1>11. \A i, j \in 1..k : i < j => p[i] < p[j]
  <2> HIDE DEF leg, p
  <2> QED
    BY <1>2, <1>7, <1>9, RisingIsInjective
<1>12. ASSUME NEW i \in 1..k, NEW j \in 1..k, path[i] = path[j]
       PROVE  i = j
  <2>1. p[i] = p[j] /\ p[i] \in Int
    BY <1>7, <1>12
  <2>2. i < j \/ j < i \/ i = j
    BY <1>2
  <2> HIDE DEF p
  <2> QED
    BY <1>11, <2>1, <2>2
<1> QED
  BY <1>1, <1>2, <1>4, <1>10, <1>12

(* A route from the start stays within the closed nodes as long as nothing *)
(* is open, and the goal is never closed.                                  *)
LEMMA NoRouteWithoutOpen ==
    ASSUME TypeOK, SearchInv, open = {},
           NEW k \in Nat \ {0}, NEW r \in [1..k -> Nodes],
           r[1] = startId, IsRoute(r)
    PROVE  r[k] # goalId
<1> DEFINE S == {i \in 1..k : r[i] \in closed}
<1>1. S \in SUBSET (1..k) /\ 1 \in S
  BY DEF SearchInv, Keys, closed
<1>2. ASSUME NEW i \in S, i < k
      PROVE  i + 1 \in S
  <2>1. i \in 1..(Len(r) - 1) /\ i + 1 \in 1..k
    BY <1>2
  <2>2. {r[i], r[i + 1]} \in edges /\ r[i + 1] \in Nodes /\ r[i] \in closed
    BY <2>1 DEF IsRoute
  <2>3. r[i + 1] \in adj(r[i])
    BY <2>2 DEF adj
  <2>4. r[i + 1] \in DOMAIN g
    BY <2>2, <2>3 DEF SearchInv, Relaxed
  <2> QED
    BY <2>1, <2>4 DEF closed
<1>3. S = 1..k
  <2> HIDE DEF S
  <2> QED
    BY <1>1, <1>2, InductiveInterval
<1>4. r[k] \in closed
  BY <1>3
<1> QED
  BY <1>4 DEF SearchInv, Keys

(* ReturnsShortest is an invariant: on every road network, a returned path *)
(* leads along roads from start to goal, is as long as costKm says, and no *)
(* route is shorter; null means that there is none.                        *)
THEOREM ShortestReturned == Spec => []ReturnsShortest
<1>1. TypeOK /\ SearchInv /\ PathInv => ReturnsShortest
  <2> SUFFICES ASSUME TypeOK, SearchInv, PathInv
               PROVE  ReturnsShortest
    OBVIOUS
  <2> DEFINE simple == SimpleRoutes
             routes == {r \in simple : r[1] = startId /\ r[Len(r)] = goalId /\ IsRoute(r)}
  <2>1. ASSUME NEW r \in simple
        PROVE  Len(r) \in Nat \ {0} /\ r \in [1..Len(r) -> Nodes]
    <3>1. PICK k \in 1..Cardinality(Nodes) : r \in [1..k -> Nodes]
      BY <2>1 DEF SimpleRoutes
    <3>2. Cardinality(Nodes) \in Nat
      BY AStarAssumption, FS_CardinalityType
    <3>3. k \in Nat \ {0} /\ Len(r) = k
      BY <3>1, <3>2
    <3> QED
      BY <3>1, <3>3
  <2>2. ASSUME phase = "found"
        PROVE  path \in routes /\ RouteKm(path) = g[goalId]
    <3> DEFINE k == Len(path)
    <3>1. /\ k \in Nat \ {0} /\ path \in [1..k -> Nodes]
          /\ IsRoute(path) /\ path[1] = startId /\ path[k] = goalId
          /\ RouteKm(path) = g[goalId]
          /\ \A i, j \in 1..k : path[i] = path[j] => i = j
      BY <2>2, PathIsTight
    <3> HIDE DEF k
    <3>2. path \in Injection(1..k, Nodes)
      BY <3>1 DEF Injection, IsInjective
    <3>3. k <= Cardinality(Nodes) /\ Cardinality(Nodes) \in Nat
      <4>1. Cardinality(1..k) <= Cardinality(Nodes)
        BY <3>2, AStarAssumption, FS_Injection
      <4>2. Cardinality(1..k) = k
        BY <3>1, FS_Interval
      <4> QED
        BY <4>1, <4>2, AStarAssumption, FS_CardinalityType
    <3>4. path \in simple
      BY <3>1, <3>3 DEF SimpleRoutes
    <3> HIDE DEF simple
    <3> QED
      BY <3>1, <3>4 DEF k
  <2> HIDE DEF simple
  <2>3. ASSUME phase = "found", NEW r \in routes
        PROVE  g[goalId] <= RouteKm(r)
    BY <2>1, <2>3, RoutesCostMore
  <2>4. ASSUME phase = "null", NEW r \in routes
        PROVE  FALSE
    BY <2>1, <2>4, NoRouteWithoutOpen DEF PathInv
  <2> QED
    BY <2>2, <2>3, <2>4 DEF ReturnsShortest, simple
<1>2. Spec => []PathInv
  BY PathInit, PathStep, SearchAlways, PTL DEF Spec
<1> QED
  BY <1>1, <1>2, SearchAlways, PTL

-----------------------------------------------------------------------------
(* The number of turns.                                                    *)

\* Nodes with a smaller cost than the one the path begins with so far
Nearer == {n \in DOMAIN g : g[n] < g[path[1]]}

\* A bound on the turns still to come: every node may be expanded once, the
\* path has every node at most once, and each loop returns once
turnsLeft ==
    CASE phase = "search"  -> Cardinality(Nodes \ closed) + Cardinality(Nodes) + 2
      [] phase = "rebuild" -> Cardinality(Nearer) + 1
      [] OTHER             -> 0

\* The loop condition and the scan between them leave nothing out: an open set
\* that is not empty has a node with the lowest f
NeverStuck == phase = "search" => open = {} \/ \E cur \in Nodes : IsNext(cur)

(* Strictly more nodes of a finite set are strictly more in number.        *)
LEMMA FewerNodes ==
    ASSUME NEW S \in SUBSET Nodes, NEW T \in SUBSET S, S # T
    PROVE  /\ Cardinality(S) \in Nat /\ Cardinality(T) \in Nat
           /\ Cardinality(T) < Cardinality(S)
<1>1. IsFiniteSet(S) /\ IsFiniteSet(T)
  BY AStarAssumption, FS_Subset
<1>2. Cardinality(S) \in Nat /\ Cardinality(T) \in Nat
  BY <1>1, FS_CardinalityType
<1>3. Cardinality(T) <= Cardinality(S) /\ Cardinality(T) # Cardinality(S)
  BY <1>1, FS_Subset
<1> QED
  BY <1>2, <1>3

LEMMA NodesCounted ==
    ASSUME NEW S \in SUBSET Nodes
    PROVE  /\ Cardinality(S) \in Nat /\ Cardinality(Nodes) \in Nat
           /\ Cardinality(S) <= Cardinality(Nodes)
BY AStarAssumption, FS_Subset, FS_CardinalityType

(* The turns left are a number, at most two for every node and two more.   *)
LEMMA TurnsCounted ==
    ASSUME TypeOK
    PROVE  turnsLeft \in 0..(2 * Cardinality(Nodes) + 2)
<1>1. (Nodes \ closed) \in SUBSET Nodes /\ Nearer \in SUBSET Nodes
  BY DEF TypeOK, Nearer
<1>2. /\ Cardinality(Nodes \ closed) \in Nat /\ Cardinality(Nearer) \in Nat
      /\ Cardinality(Nodes \ closed) <= Cardinality(Nodes)
      /\ Cardinality(Nearer) <= Cardinality(Nodes) /\ Cardinality(Nodes) \in Nat
  BY <1>1, NodesCounted
<1> QED
  BY <1>2 DEF turnsLeft

(* A turn of the search closes one more node, for good.                    *)
LEMMA ExpandCloses ==
    ASSUME TypeOK, SearchInv, NEW cur \in Nodes, Expand(cur)
    PROVE  turnsLeft' < turnsLeft
<1> DEFINE better == {nb \in adj(cur) : Improves(cur, nb)}
<1>1. /\ better \intersect closed = {} /\ phase = "search" /\ cur \in open
      /\ cur \notin better /\ DOMAIN g' = DOMAIN g \union better
  BY ExpandEffect
<1>2. open' = (open \ {cur}) \union better /\ phase' = phase
  BY DEF Expand
<1>3. closed' = closed \union {cur} /\ cur \notin closed
  <2> HIDE DEF better
  <2> QED
    BY <1>1, <1>2 DEF closed, TypeOK
<1>4. (Nodes \ closed') \in SUBSET (Nodes \ closed) /\ Nodes \ closed' # Nodes \ closed
  BY <1>3
<1>5. /\ Cardinality(Nodes \ closed) \in Nat /\ Cardinality(Nodes \ closed') \in Nat
      /\ Cardinality(Nodes \ closed') < Cardinality(Nodes \ closed)
  BY <1>4, FewerNodes
<1>6. Cardinality(Nodes) \in Nat
  BY AStarAssumption, FS_CardinalityType
<1>7. /\ turnsLeft = Cardinality(Nodes \ closed) + Cardinality(Nodes) + 2
      /\ turnsLeft' = Cardinality(Nodes \ closed') + Cardinality(Nodes) + 2
  BY <1>1, <1>2 DEF turnsLeft
<1> QED
  BY <1>5, <1>6, <1>7

LEMMA ApartIsFar ==
    ASSUME TypeOK, NEW a \in Nodes, NEW b \in Nodes, a # b
    PROVE  haversineKm(a, b) \in Nat \ {0}
<1>1. {a, b} \in Pairs
  BY DEF Pairs
<1> QED
  BY <1>1, AStarAssumption DEF TypeOK, haversineKm

(* A turn of path.unshift goes on to a node with a smaller cost.           *)
LEMMA UnshiftNears ==
    ASSUME TypeOK, SearchInv, PathInv, phase = "rebuild", path[1] \in DOMAIN cameFrom,
           path' = <<cameFrom[path[1]]>> \o path, UNCHANGED <<g, phase>>
    PROVE  turnsLeft' < turnsLeft
<1> DEFINE old == path[1]
           new == cameFrom[path[1]]
<1>1. old \in DOMAIN g /\ old \in Nodes /\ new \in DOMAIN g /\ new \in Nodes /\ g[new] \in Nat
  <2>1. new \in DOMAIN g
    BY DEF SearchInv, CameFromTight, closed
  <2>2. Len(path) \in Nat /\ path # << >> /\ \A i \in 1..Len(path) : path[i] \in DOMAIN g
    BY DEF TypeOK, PathInv, Chain
  <2>3. 1 \in 1..Len(path)
    BY <2>2 DEF TypeOK
  <2> QED
    BY <2>1, <2>2, <2>3 DEF TypeOK
<1>2. g[old] = g[new] + haversineKm(new, old) /\ {new, old} \in edges
  BY DEF SearchInv, CameFromTight
<1>3. new # old
  BY <1>2, AStarAssumption DEF TypeOK
<1>4. haversineKm(new, old) \in Nat \ {0}
  BY <1>1, <1>3, ApartIsFar
<1>5. g[new] < g[old]
  BY <1>1, <1>2, <1>4
<1>6. path'[1] = new
  BY DEF TypeOK
<1>7. Nearer' = {n \in DOMAIN g : g[n] < g[new]}
  BY <1>6 DEF Nearer
<1>8. Nearer = {n \in DOMAIN g : g[n] < g[old]} /\ \A n \in DOMAIN g : g[n] \in Nat
  BY DEF Nearer, TypeOK
<1>9. Nearer \in SUBSET Nodes /\ Nearer' \in SUBSET Nearer /\ Nearer # Nearer'
  <2>1. Nearer \in SUBSET Nodes
    BY <1>8 DEF TypeOK
  <2>2. Nearer' \in SUBSET Nearer
    <3> HIDE DEF old, new
    <3> QED
      BY <1>1, <1>5, <1>7, <1>8
  <2>3. new \in Nearer /\ new \notin Nearer'
    <3> HIDE DEF old, new
    <3> QED
      BY <1>1, <1>5, <1>7, <1>8
  <2> QED
    BY <2>1, <2>2, <2>3
<1>10. /\ Cardinality(Nearer) \in Nat /\ Cardinality(Nearer') \in Nat
       /\ Cardinality(Nearer') < Cardinality(Nearer)
  BY <1>9, FewerNodes
<1>11. turnsLeft = Cardinality(Nearer) + 1 /\ turnsLeft' = Cardinality(Nearer') + 1
  BY DEF turnsLeft
<1> QED
  BY <1>10, <1>11

(* The returns and the change from one loop to the other.                  *)
LEMMA OthersEnd ==
    ASSUME TypeOK, TypeOK',
           ReachGoal \/ Unreachable \/ (phase = "rebuild" /\ phase' = "found")
    PROVE  turnsLeft' < turnsLeft
<1>1. (Nodes \ closed) \in SUBSET Nodes /\ Nearer \in SUBSET Nodes /\ Nearer' \in SUBSET Nodes
  BY DEF TypeOK, Nearer
<1>2. /\ Cardinality(Nodes \ closed) \in Nat /\ Cardinality(Nodes) \in Nat
      /\ Cardinality(Nearer) \in Nat /\ Cardinality(Nearer') \in Nat
      /\ Cardinality(Nearer') <= Cardinality(Nodes)
  BY <1>1, NodesCounted
<1>3. CASE ReachGoal
  <2>1. turnsLeft = Cardinality(Nodes \ closed) + Cardinality(Nodes) + 2
    BY <1>3 DEF ReachGoal, turnsLeft
  <2>2. turnsLeft' = Cardinality(Nearer') + 1
    BY <1>3 DEF ReachGoal, turnsLeft
  <2> QED
    BY <1>2, <2>1, <2>2
<1>4. CASE Unreachable
  <2>1. turnsLeft = Cardinality(Nodes \ closed) + Cardinality(Nodes) + 2
    BY <1>4 DEF Unreachable, turnsLeft
  <2>2. turnsLeft' = 0
    BY <1>4 DEF Unreachable, turnsLeft
  <2> QED
    BY <1>2, <2>1, <2>2
<1>5. CASE phase = "rebuild" /\ phase' = "found"
  <2>1. turnsLeft = Cardinality(Nearer) + 1 /\ turnsLeft' = 0
    BY <1>5 DEF turnsLeft
  <2> QED
    BY <1>2, <2>1
<1> QED
  BY <1>3, <1>4, <1>5

(* Every call takes at most two turns for each landmark and two more, on   *)
(* every road network: each turn lowers the bound, whichever nodes are     *)
(* relaxed again in between.  The code keeps no closed set, so that the    *)
(* loop over the open set ends is not for its shape to say.                *)
THEOREM TurnsAreBounded ==
    Spec => /\ [](turnsLeft \in 0..(2 * Cardinality(Nodes) + 2))
            /\ [][turnsLeft' < turnsLeft]_vars
<1>1. TypeOK => turnsLeft \in 0..(2 * Cardinality(Nodes) + 2)
  BY TurnsCounted
<1>2. TypeOK /\ TypeOK' /\ SearchInv /\ PathInv /\ [Next]_vars => [turnsLeft' < turnsLeft]_vars
  <2> SUFFICES ASSUME TypeOK, TypeOK', SearchInv, PathInv, Next
               PROVE  turnsLeft' < turnsLeft
    OBVIOUS
  <2>1. ASSUME NEW cur \in Nodes, Expand(cur)
        PROVE  turnsLeft' < turnsLeft
    BY <2>1, ExpandCloses
  <2>2. CASE ReachGoal \/ Unreachable
    BY <2>2, OthersEnd
  <2>3. CASE Rebuild
    <3>1. CASE path[1] \in DOMAIN cameFrom
      BY <2>3, <3>1, UnshiftNears DEF Rebuild, graphVars
    <3>2. CASE path[1] \notin DOMAIN cameFrom
      BY <2>3, <3>2, OthersEnd DEF Rebuild
    <3> QED
      BY <3>1, <3>2
  <2> QED
    BY <2>1, <2>2, <2>3 DEF Next
<1>3. Spec => []PathInv
  BY PathInit, PathStep, SearchAlways, PTL DEF Spec
<1> QED
  BY <1>1, <1>2, <1>3, SearchAlways, PTL DEF Spec

(* And the scan always finds a node to go on with, so that the loop ends   *)
(* only with the goal or with an empty open set.                           *)
THEOREM ScanFinds == Spec => []NeverStuck
<1>1. TypeOK /\ SearchInv => NeverStuck
  <2> SUFFICES ASSUME TypeOK, SearchInv, open # {}
               PROVE  \E cur \in Nodes : IsNext(cur)
    BY DEF NeverStuck
  <2> DEFINE F == {f(n) : n \in open}
  <2>1. \A n \in open : n \in Nodes /\ f(n) \in Nat
    BY DEF TypeOK, SearchInv, MetricInv, f
  <2>2. F \in SUBSET Nat /\ F # {}
    BY <2>1
  <2>3. PICK m \in F : \A k \in F : m <= k
    <3> HIDE DEF F
    <3> QED
      BY <2>2, LeastElement
  <2>4. PICK cur \in open : f(cur) = m
    BY <2>3
  <2> QED
    BY <2>1, <2>3, <2>4 DEF IsNext
<1> QED
  BY <1>1, SearchAlways, PTL
=============================================================================
