-------------------------- MODULE VehicleSelection --------------------------
(***************************************************************************)
(* services/dispatch-service/src/select.js and RoadGraph.nearestNode: which *)
(* of the candidates is sent, by what route.  Coordinates are points of a  *)
(* grid, compared by the square of their distance, and kilometres whole    *)
(* numbers; scores count in quarters of a kilometre.                       *)
(*                                                                         *)
(* A definition marked "Mutant" is a plausible slip in the definition that *)
(* follows it.  No specification uses it; it shows which property notices. *)
(***************************************************************************)
EXTENDS Integers, Sequences, SequencesExt

CONSTANTS Nodes,      \* ids of the landmarks
          Landmarks,  \* all of them, in the order of melbourne.json
          Lat, Lon,   \* node -> coordinate
          PathOf,     \* [a][b]  path of aStar(a, b), << >> when it is null
          CostKm,     \* [a][b]  its costKm
          NoVehicle   \* null

\* The legs of a path are roads, and a road is the shortest path of its ends
Legal(path) == \A k \in 1..Len(path)-1 :
    PathOf[path[k]][path[k+1]] = <<path[k], path[k+1]>>

ASSUME SelectionAssumption ==
    /\ Landmarks \in Seq(Nodes) /\ \A n \in Nodes : \E k \in DOMAIN Landmarks : Landmarks[k] = n
    /\ Nodes # {}
    /\ Lat \in [Nodes -> Int] /\ Lon \in [Nodes -> Int]
    /\ \A a, b \in Nodes : Lat[a] = Lat[b] /\ Lon[a] = Lon[b] => a = b
    /\ CostKm \in [Nodes -> [Nodes -> Nat]]
    /\ \A a, b \in Nodes : PathOf[a][b] \in Seq(Nodes) /\ Legal(PathOf[a][b])
    /\ \A a, b \in Nodes : PathOf[a][b] # << >> =>
          Head(PathOf[a][b]) = a /\ Last(PathOf[a][b]) = b

\* The coordinates of a landmark
At(n) == <<Lat[n], Lon[n]>>

Far(p, q) == (p[1] - q[1]) * (p[1] - q[1]) + (p[2] - q[2]) * (p[2] - q[2])

\* The first of the closest landmarks
nearestNode(pos) ==
    LET Closer(n, best) == IF Far(pos, At(n)) < Far(pos, At(best)) THEN n ELSE best
    IN  FoldLeft(LAMBDA best, n : Closer(n, best), Landmarks[1], Landmarks)

-----------------------------------------------------------------------------
(* A candidate is a record of its seats, place, batteryLevel and           *)
(* currentState.                                                           *)

batteryPenalty(c) ==
    (IF c.currentState = "charging" THEN 32 ELSE 0)
    + (IF c.batteryLevel < 20 THEN 20 ELSE IF c.batteryLevel < 40 THEN 8 ELSE 0)

\* Capacity has been a hard filter before
sizePenalty(c, partySize) == IF c.seats > partySize THEN c.seats - partySize ELSE 0

score(c, pickup, partySize) ==
    4 * CostKm[nearestNode(c.place)][pickup] + batteryPenalty(c) + sizePenalty(c, partySize)

Reaches(c, pickup) == PathOf[nearestNode(c.place)][pickup] # << >>

\* Mutant: the score of the best one so far is not kept with it
selectVehicleFirstScore(candidates, pickup, partySize) ==
    LET Scored(c) == score(c, pickup, partySize)
        Better(best, c) ==
            IF best = NoVehicle \/ Scored(c) < Scored(candidates[1]) THEN c ELSE best
    IN  FoldLeft(LAMBDA best, c : IF Reaches(c, pickup) THEN Better(best, c) ELSE best,
                 NoVehicle, candidates)

\* The loop over the candidates, those that cannot reach the pickup skipped
selectVehicle(candidates, pickup, partySize) ==
    LET Scored(c) == score(c, pickup, partySize)
        Better(best, c) == IF best = NoVehicle \/ Scored(c) < Scored(best) THEN c ELSE best
    IN  FoldLeft(LAMBDA best, c : IF Reaches(c, pickup) THEN Better(best, c) ELSE best,
                 NoVehicle, candidates)

\* What selectVehicle is to return, without a loop
IsBest(best, candidates, pickup, partySize) ==
    LET able == {k \in DOMAIN candidates : Reaches(candidates[k], pickup)}
        Beats(j, k) ==
            LET sj == score(candidates[j], pickup, partySize)
                sk == score(candidates[k], pickup, partySize)
            IN  sj < sk \/ (sj = sk /\ j <= k)
    IN  IF able = {} THEN best = NoVehicle
        ELSE \E j \in able : best = candidates[j] /\ \A k \in able : Beats(j, k)
=============================================================================
