-------------------------------- MODULE AStar --------------------------------
(***************************************************************************)
(* services/dispatch-service/src/graph.js: RoadGraph.aStar, one step per   *)
(* turn of its loops.  The graph is part of the state, so that the initial *)
(* states range over all road networks on Nodes.  Kilometres are whole     *)
(* numbers; all that is used of Haversine distances is that they are a     *)
(* metric, and of a road that it is as long as the distance it spans.      *)
(*                                                                         *)
(* A definition marked "Mutant" is a plausible slip in the definition that *)
(* follows it.  No specification uses it; it shows which property notices. *)
(***************************************************************************)
EXTENDS Integers, Sequences, FiniteSets

CONSTANTS Nodes,    \* landmark ids
          Roads,    \* pairs of landmarks a road may join
          Trips,    \* pairs of start and goal asked for
          MaxKm     \* bound on the distance of two landmarks

ASSUME AStarAssumption ==
    /\ IsFiniteSet(Nodes)
    /\ Roads \subseteq {{a, b} : a, b \in Nodes} \ {{a} : a \in Nodes}
    /\ Trips \subseteq Nodes \X Nodes
    /\ MaxKm \in Nat

VARIABLES
    km,         \* [{a, b}]  Haversine distance of two landmarks
    edges,      \* the roads, as sets {a, b}
    startId, goalId,
    g,          \* Map: cheapest known cost of a node, Infinity when absent
    cameFrom,   \* Map: the node before it on that route
    open,       \* nodes still to be expanded
    path,       \* the route, rebuilt from its end
    phase       \* "search", "rebuild", "found" or "null" (unreachable)

graphVars == <<km, edges, startId, goalId>>
vars == <<graphVars, g, cameFrom, open, path, phase>>

Pairs == {{a, b} : a, b \in Nodes} \ {{a} : a \in Nodes}

haversineKm(a, b) == IF a = b THEN 0 ELSE km[{a, b}]

IsMetric == \A a, b, c \in Nodes : haversineKm(a, c) <= haversineKm(a, b) + haversineKm(b, c)

adj(a) == {b \in Nodes : {a, b} \in edges}

TypeOK ==
    /\ km \in [Pairs -> 1..MaxKm]
    /\ edges \subseteq Roads
    /\ startId \in Nodes /\ goalId \in Nodes
    /\ DOMAIN g \subseteq Nodes /\ g \in [DOMAIN g -> Nat]
    /\ DOMAIN cameFrom \subseteq Nodes /\ cameFrom \in [DOMAIN cameFrom -> Nodes]
    /\ open \subseteq DOMAIN g
    /\ path \in Seq(Nodes)
    /\ phase \in {"search", "rebuild", "found", "null"}

\* A call of aStar on any road network; from a node to itself it returns at once
Init ==
    /\ km \in [Pairs -> 1..MaxKm]
    /\ IsMetric
    /\ edges \in SUBSET Roads
    /\ \E trip \in Trips : startId = trip[1] /\ goalId = trip[2]
    /\ g = [n \in {startId} |-> 0]
    /\ cameFrom = [n \in {} |-> startId]
    /\ open = {startId}
    /\ path = IF startId = goalId THEN <<startId>> ELSE <<>>
    /\ phase = IF startId = goalId THEN "found" ELSE "search"

-----------------------------------------------------------------------------
\* Mutant: the heuristic counts double
fGreedy(n) == g[n] + 2 * haversineKm(n, goalId)

\* f is g plus the heuristic, and the code sets both together
f(n) == g[n] + haversineKm(n, goalId)

\* A node of the open set with the lowest f; of several, insertion order picks
IsNext(cur) == cur \in open /\ \A n \in open : f(cur) <= f(n)

\* Mutant: a node is not relaxed again once it has a cost
FirstCost(cur, nb) == nb \notin DOMAIN g

\* Mutant: <= in place of <
NoWorse(cur, nb) == nb \in DOMAIN g => g[cur] + haversineKm(cur, nb) <= g[nb]

\* tentative < (g.get(nb) ?? Infinity)
Improves(cur, nb) == nb \in DOMAIN g => g[cur] + haversineKm(cur, nb) < g[nb]

\* Mutant: only costs already known are lowered
ExpandKnown(cur) ==
    LET better == {nb \in adj(cur) : Improves(cur, nb)} IN
    /\ phase = "search"
    /\ IsNext(cur)
    /\ cur # goalId
    /\ g' = [n \in DOMAIN g |-> IF n \in better THEN g[cur] + haversineKm(cur, n) ELSE g[n]]
    /\ cameFrom' = [n \in DOMAIN cameFrom \union better |->
                       IF n \in better THEN cur ELSE cameFrom[n]]
    /\ open' = (open \ {cur}) \union better
    /\ UNCHANGED <<graphVars, path, phase>>

\* Mutant: every neighbour is taken back into the open set
ExpandReopens(cur) ==
    LET better == {nb \in adj(cur) : Improves(cur, nb)} IN
    /\ phase = "search"
    /\ IsNext(cur)
    /\ cur # goalId
    /\ g' = [n \in DOMAIN g \union better |->
                IF n \in better THEN g[cur] + haversineKm(cur, n) ELSE g[n]]
    /\ cameFrom' = [n \in DOMAIN cameFrom \union better |->
                       IF n \in better THEN cur ELSE cameFrom[n]]
    /\ open' = (open \ {cur}) \union adj(cur)
    /\ UNCHANGED <<graphVars, path, phase>>

\* One turn of the search: cur leaves the open set and relaxes its neighbours
Expand(cur) ==
    LET better == {nb \in adj(cur) : Improves(cur, nb)} IN
    /\ phase = "search"
    /\ IsNext(cur)
    /\ cur # goalId
    /\ g' = [n \in DOMAIN g \union better |->
                IF n \in better THEN g[cur] + haversineKm(cur, n) ELSE g[n]]
    /\ cameFrom' = [n \in DOMAIN cameFrom \union better |->
                       IF n \in better THEN cur ELSE cameFrom[n]]
    /\ open' = (open \ {cur}) \union better
    /\ UNCHANGED <<graphVars, path, phase>>

\* The goal has the lowest f
ReachGoal ==
    /\ phase = "search"
    /\ IsNext(goalId)
    /\ path' = <<goalId>>
    /\ phase' = "rebuild"
    /\ UNCHANGED <<graphVars, g, cameFrom, open>>

\* One turn of path.unshift, or the return
Rebuild ==
    /\ phase = "rebuild"
    /\ \/ /\ path[1] \in DOMAIN cameFrom
          /\ path' = <<cameFrom[path[1]]>> \o path
          /\ UNCHANGED phase
       \/ /\ path[1] \notin DOMAIN cameFrom
          /\ phase' = "found"
          /\ UNCHANGED path
    /\ UNCHANGED <<graphVars, g, cameFrom, open>>

Unreachable ==
    /\ phase = "search"
    /\ open = {}
    /\ phase' = "null"
    /\ UNCHANGED <<graphVars, g, cameFrom, open, path>>

Next == (\E cur \in Nodes : Expand(cur)) \/ ReachGoal \/ Rebuild \/ Unreachable

Spec == Init /\ [][Next]_vars

\* aStar is synchronous code
FairSpec == Spec /\ WF_vars(Next)

-----------------------------------------------------------------------------
(* Properties.                                                             *)

\* The nodes of r are joined by roads; the kilometres along them
IsRoute(r) == \A i \in 1..(Len(r) - 1) : {r[i], r[i + 1]} \in edges

RouteKm(r) ==
    LET along[i \in 1..Len(r)] ==
            IF i = 1 THEN 0 ELSE along[i - 1] + haversineKm(r[i - 1], r[i])
    IN along[Len(r)]

\* Routes that visit no node twice
SimpleRoutes == UNION {{r \in [1..k -> Nodes] : \A i, j \in 1..k : r[i] = r[j] => i = j} :
                          k \in 1..Cardinality(Nodes)}

(* The result is right: a returned path leads along roads from start to    *)
(* goal, is as long as costKm says and no route is shorter; null means     *)
(* that there is no route.                                                 *)
ReturnsShortest ==
    LET routes == {r \in SimpleRoutes : r[1] = startId /\ r[Len(r)] = goalId /\ IsRoute(r)} IN
    /\ phase = "found" =>
          /\ path \in routes
          /\ RouteKm(path) = g[goalId]
          /\ \A r \in routes : g[goalId] <= RouteKm(r)
    /\ phase = "null" => routes = {}

\* A lower bound of the cost of n: what is known, or what is left of costKm
\* after the straight line to the goal
price(n) ==
    LET left == g[goalId] - haversineKm(n, goalId) IN
    IF n \in DOMAIN g /\ g[n] <= left THEN g[n] ELSE left

(* No route is shorter than costKm, whatever its number of nodes: price    *)
(* starts at 0, ends at costKm and rises along a road by no more than its  *)
(* length.  It is what the loop must have established when it takes the    *)
(* goal out of the open set, in whatever order it expanded the others.     *)
Certified == phase \in {"rebuild", "found"} =>
    /\ price(startId) = 0
    /\ price(goalId) = g[goalId]
    /\ \A a \in Nodes : \A b \in adj(a) : price(b) <= price(a) + haversineKm(a, b)

\* Nodes taken out of the open set
closed == DOMAIN g \ open

(* The chain of cameFrom, written node by node and overwritten by later    *)
(* relaxations, is consistent with g at every moment: a link is a road out *)
(* of a closed node, and it accounts for exactly the kilometres between.   *)
CameFromTight == \A n \in DOMAIN cameFrom :
    /\ cameFrom[n] \in closed
    /\ {cameFrom[n], n} \in edges
    /\ g[n] = g[cameFrom[n]] + haversineKm(cameFrom[n], n)

(* A node that was expanded is final: it never returns to the open set and *)
(* its cost never changes.  The code has no closed set; it is consistency  *)
(* of the heuristic and the strict comparison that guarantee it.           *)
ClosedIsFinal == [][\A n \in closed : n \in closed' /\ g'[n] = g[n]]_vars

(* Every call returns.                                                     *)
Terminates == <>(phase \in {"found", "null"})
=============================================================================
