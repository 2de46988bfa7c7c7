----------------------------- MODULE FleetProofs -----------------------------
(***************************************************************************)
(* Whom select.js selects, how sound commands are driven, the fleet's      *)
(* types and what the edge filter forwards, for any fleet, road network,   *)
(* heartbeat, GPS_EPSILON, speeds and leg length, and any number of rides, *)
(* stops, resets and restarts.                                             *)
(*                                                                         *)
(* The loops of nearestNode, selectVehicle and Candidates are folds.  Each *)
(* is unfolded in the same way: Induction has it that the recursive        *)
(* function of the fold exists; its values on the sets 1..k are what the   *)
(* loop has after k turns; and a property that every turn keeps holds of   *)
(* the last by induction.                                                  *)
(***************************************************************************)
EXTENDS FleetOperation, Induction

(* nearestNode.                                                            *)

\* One turn of the loop of nearestNode
Nearer(pos, m, best) == IF Far(pos, At(m)) < Far(pos, At(best)) THEN m ELSE best

\* best[k] is the nearest of the first k landmarks
NearestSoFar(pos, n, best) ==
    /\ best[0] = Landmarks[1]
    /\ \A k \in 1..n : best[k] = Nearer(pos, Landmarks[k], best[k-1])
    /\ nearestNode(pos) = best[n]

(* There are landmarks, and they are nodes.                                *)
LEMMA SomeLandmarks ==
    /\ Len(Landmarks) \in Nat \ {0} /\ DOMAIN Landmarks = 1..Len(Landmarks)
    /\ \A k \in 1..Len(Landmarks) : Landmarks[k] \in Nodes
<1>1. Landmarks \in Seq(Nodes)
  BY SelectionAssumption
<1>2. PICK x : x \in Nodes
  BY SelectionAssumption
<1>3. \E k \in DOMAIN Landmarks : Landmarks[k] = x
  BY <1>2, SelectionAssumption
<1>4. Len(Landmarks) \in Nat /\ DOMAIN Landmarks = 1..Len(Landmarks)
  BY <1>1
<1>5. Len(Landmarks) # 0
  BY <1>3, <1>4
<1> QED
  BY <1>1, <1>4, <1>5

(* The loop of nearestNode, landmark by landmark.                          *)
LEMMA NearestLoop ==
    ASSUME NEW pos, NEW n \in Nat \ {0}, DOMAIN Landmarks = 1..n,
           \A k \in 1..n : Landmarks[k] \in Nodes
    PROVE  \E best \in [0..n -> Nodes] : NearestSoFar(pos, n, best)
<1> DEFINE Fix(ff) == ff = [s \in SUBSET (1..n) |->
                        IF s = {} THEN Landmarks[1]
                        ELSE Nearer(pos, Landmarks[Max(s)], ff[s \ {Max(s)}])]
           step == [x \in (1..n) \X Nodes |-> Nearer(pos, Landmarks[x[1]], x[2])]
<1>1. \E ff : Fix(ff)
  <2>1. step \in [(1..n) \X Nodes -> Nodes] /\ Landmarks[1] \in Nodes
    <3>1. \A x \in (1..n) \X Nodes : x[1] \in 1..n /\ x[2] \in Nodes
      OBVIOUS
    <3>2. \A x \in (1..n) \X Nodes : Nearer(pos, Landmarks[x[1]], x[2]) \in Nodes
      BY <3>1 DEF Nearer
    <3> QED
      BY <3>2
  <2>2. \A k \in 1..n, m \in Nodes : step[<<k, m>>] = Nearer(pos, Landmarks[k], m)
    OBVIOUS
  <2> HIDE DEF step
  <2>3. PICK iter \in [SUBSET (1..n) -> Nodes] : IsFold(n, Landmarks[1], step, iter)
    <3>1. n \in Nat
      OBVIOUS
    <3> QED
      BY <2>1, <3>1, FoldExists
  <2>4. ASSUME NEW s \in SUBSET (1..n), s # {}
        PROVE  step[<<Max(s), iter[s \ {Max(s)}]>>] = Nearer(pos, Landmarks[Max(s)], iter[s \ {Max(s)}])
    <3>1. Max(s) \in 1..n
      BY <2>4, MaxIsIn
    <3>2. s \ {Max(s)} \in SUBSET (1..n)
      OBVIOUS
    <3>3. iter[s \ {Max(s)}] \in Nodes
      BY <3>2
    <3> QED
      BY <2>2, <3>1, <3>3
  <2>5. Fix(iter)
    <3>1. iter = [s \in SUBSET (1..n) |-> iter[s]]
      OBVIOUS
    <3> QED
      BY <2>3, <2>4, <3>1 DEF IsFold
  <2> QED
    BY <2>5
<1>2. PICK ff : Fix(ff) /\ nearestNode(pos) = ff[1..n]
  BY <1>1 DEF nearestNode, FoldLeft, MapThenFoldSet, Nearer
<1>3. ff[{}] = Landmarks[1]
  BY <1>2
<1>4. \A s \in SUBSET (1..n) : s # {} => ff[s] = Nearer(pos, Landmarks[Max(s)], ff[s \ {Max(s)}])
  BY <1>2
<1> DEFINE best == [k \in 0..n |-> ff[1..k]]
<1>5. best[0] = Landmarks[1]
  BY <1>3, FirstPositions
<1>6. ASSUME NEW k \in 1..n
      PROVE  best[k] = Nearer(pos, Landmarks[k], best[k-1])
  <2>1. /\ 1..k \in SUBSET (1..n) /\ 1..k # {}
        /\ Max(1..k) = k /\ (1..k) \ {k} = 1..(k-1)
    BY FirstPositions
  <2>2. ff[1..k] = Nearer(pos, Landmarks[Max(1..k)], ff[(1..k) \ {Max(1..k)}])
    BY <1>4, <2>1
  <2>3. ff[1..k] = Nearer(pos, Landmarks[k], ff[1..(k-1)])
    BY <2>1, <2>2
  <2>4. k \in 0..n /\ k-1 \in 0..n
    OBVIOUS
  <2> QED
    BY <2>3, <2>4
<1>7. nearestNode(pos) = best[n] /\ best = [k \in 0..n |-> best[k]]
  <2>1. n \in 0..n
    OBVIOUS
  <2> QED
    BY <1>2, <2>1
<1> HIDE DEF best
<1> DEFINE S == {k \in Nat : best[k] \in Nodes}
<1>8. ASSUME NEW k \in 0..n
      PROVE  best[k] \in Nodes
  <2>1. S \in SUBSET Nat /\ 0 \in S
    BY <1>5
  <2>2. ASSUME NEW j \in S, j < k
        PROVE  j + 1 \in S
    <3>1. j + 1 \in 1..n /\ (j + 1) - 1 = j /\ j + 1 \in Nat
      BY <2>2
    <3>2. best[j] \in Nodes /\ Landmarks[j + 1] \in Nodes
      BY <3>1
    <3>3. best[j + 1] = Nearer(pos, Landmarks[j + 1], best[j])
      BY <1>6, <3>1
    <3> QED
      BY <3>1, <3>2, <3>3 DEF Nearer
  <2>3. k \in S
    <3> HIDE DEF S
    <3> QED
      BY <2>1, <2>2, InductionUpTo
  <2> QED
    BY <2>3
<1>9. best \in [0..n -> Nodes]
  BY <1>7, <1>8
<1> QED
  BY <1>5, <1>6, <1>7, <1>9 DEF NearestSoFar

(* The nearest landmark is one of the landmarks ...                        *)
LEMMA NearestIsNode ==
    ASSUME NEW pos
    PROVE  nearestNode(pos) \in Nodes
<1>1. PICK n \in Nat \ {0} : DOMAIN Landmarks = 1..n /\ \A k \in 1..n : Landmarks[k] \in Nodes
  BY SomeLandmarks
<1>2. PICK best \in [0..n -> Nodes] : NearestSoFar(pos, n, best)
  BY <1>1, NearestLoop
<1>3. n \in 0..n
  OBVIOUS
<1> QED
  BY <1>2, <1>3 DEF NearestSoFar

(* ... and none is closer.                                                 *)
THEOREM NearestIsClosest ==
    ASSUME NEW pos \in Int \X Int
    PROVE  \A m \in Nodes : Far(pos, At(nearestNode(pos))) <= Far(pos, At(m))
<1>1. PICK n \in Nat \ {0} : DOMAIN Landmarks = 1..n /\ \A k \in 1..n : Landmarks[k] \in Nodes
  BY SomeLandmarks
<1>2. PICK best \in [0..n -> Nodes] : NearestSoFar(pos, n, best)
  BY <1>1, NearestLoop
<1> DEFINE D(m) == Far(pos, At(m))
<1>3. \A m \in Nodes : D(m) \in Int
  <2> SUFFICES ASSUME NEW m \in Nodes
               PROVE  D(m) \in Int
    OBVIOUS
  <2>1. pos[1] \in Int /\ pos[2] \in Int /\ Lat[m] \in Int /\ Lon[m] \in Int
    BY SelectionAssumption
  <2>2. D(m) = (pos[1] - Lat[m]) * (pos[1] - Lat[m]) + (pos[2] - Lon[m]) * (pos[2] - Lon[m])
    BY DEF Far, At
  <2> QED
    BY <2>1, <2>2
<1>4. \A k \in 1..n : /\ D(best[k]) <= D(Landmarks[k])
                      /\ D(best[k]) <= D(best[k-1])
  <2> SUFFICES ASSUME NEW k \in 1..n
               PROVE  D(best[k]) <= D(Landmarks[k]) /\ D(best[k]) <= D(best[k-1])
    OBVIOUS
  <2> HIDE DEF D
  <2>1. k-1 \in 0..n /\ best[k-1] \in Nodes /\ Landmarks[k] \in Nodes
    <3>1. k-1 \in 0..n
      OBVIOUS
    <3> QED
      BY <1>1, <3>1
  <2>2. D(best[k-1]) \in Int /\ D(Landmarks[k]) \in Int
    BY <1>3, <2>1
  <2>3. best[k] = IF D(Landmarks[k]) < D(best[k-1]) THEN Landmarks[k] ELSE best[k-1]
    BY <1>2 DEF NearestSoFar, Nearer, D
  <2>4. CASE D(Landmarks[k]) < D(best[k-1])
    BY <2>2, <2>3, <2>4
  <2>5. CASE ~(D(Landmarks[k]) < D(best[k-1]))
    BY <2>2, <2>3, <2>5
  <2> QED
    BY <2>4, <2>5
<1> HIDE DEF D
<1> DEFINE S == {k \in Nat : k <= n => \A j \in 1..k : D(best[k]) <= D(Landmarks[j])}
<1>5. S \in SUBSET Nat /\ 0 \in S
  <2>1. \A j \in 1..0 : FALSE
    OBVIOUS
  <2> QED
    BY <2>1
<1>6. ASSUME NEW k \in S, k < n
      PROVE  k + 1 \in S
  <2>1. k + 1 \in 1..n /\ (k + 1) - 1 = k /\ k \in 0..n /\ k + 1 \in 0..n
    BY <1>6
  <2>2. D(best[k+1]) <= D(Landmarks[k+1]) /\ D(best[k+1]) <= D(best[k])
    BY <1>4, <2>1
  <2>3. D(best[k]) \in Int /\ D(best[k+1]) \in Int
    BY <1>3, <2>1
  <2>4. ASSUME NEW j \in 1..k+1
        PROVE  D(best[k+1]) <= D(Landmarks[j])
    <3>1. CASE j = k+1
      BY <2>2, <3>1
    <3>2. CASE j # k+1
      <4>1. j \in 1..k /\ j \in 1..n
        BY <2>1, <3>2
      <4>2. D(best[k]) <= D(Landmarks[j])
        BY <1>6, <4>1
      <4>3. Landmarks[j] \in Nodes
        BY <1>1, <4>1
      <4>4. D(Landmarks[j]) \in Int
        BY <1>3, <4>3
      <4> QED
        BY <2>2, <2>3, <4>2, <4>4
    <3> QED
      BY <3>1, <3>2
  <2> QED
    BY <2>1, <2>4
<1>7. n \in S
  <2>1. n \in Nat
    OBVIOUS
  <2> HIDE DEF S
  <2> QED
    BY <1>5, <1>6, <2>1, InductionUpTo
<1>8. \A j \in 1..n : D(best[n]) <= D(Landmarks[j])
  <2>1. n <= n
    OBVIOUS
  <2> QED
    BY <1>7, <2>1
<1>9. \A m \in Nodes : \E j \in 1..n : Landmarks[j] = m
  BY <1>1, SelectionAssumption
<1> QED
  BY <1>2, <1>8, <1>9 DEF NearestSoFar, D

(* The squares of the distances within GPS_EPSILON and beyond twice that.  *)
LEMMA SmallSquare ==
    ASSUME NEW x \in Int, NEW e \in Nat, -e < x, x < e
    PROVE  x * x < e * e
<1>1. (e - x) * (e + x) = e * e - x * x
  OBVIOUS
<1>2. e - x > 0 /\ e + x > 0 /\ e - x \in Int /\ e + x \in Int
  OBVIOUS
<1>3. \A a, b \in Int : a > 0 /\ b > 0 => a * b > 0
  OBVIOUS
<1>4. (e - x) * (e + x) > 0
  BY <1>2, <1>3
<1>5. e * e \in Int /\ x * x \in Int
  OBVIOUS
<1> QED
  BY <1>1, <1>4, <1>5

LEMMA LargeSquare ==
    ASSUME NEW x \in Int, NEW e \in Nat, x >= 2 * e \/ -x >= 2 * e
    PROVE  x * x >= 4 * (e * e)
<1>1. \A a, b \in Int : a >= 0 /\ b >= a => b * b >= a * a
  OBVIOUS
<1>2. (2 * e) * (2 * e) = 4 * (e * e) /\ (-x) * (-x) = x * x
  OBVIOUS
<1>3. 2 * e \in Int /\ 2 * e >= 0 /\ -x \in Int
  OBVIOUS
<1> QED
  BY <1>1, <1>2, <1>3

LEMMA Squares ==
    ASSUME NEW x \in Int
    PROVE  x * x >= 0 /\ x * x \in Int
  OBVIOUS

(* Within GPS_EPSILON of a landmark, that landmark is the nearest one.     *)
LEMMA NearIsNearest ==
    ASSUME NEW m \in Nodes, NEW pos \in Int \X Int, Near(pos, At(m))
    PROVE  nearestNode(pos) = m
<1> SUFFICES ASSUME nearestNode(pos) # m
             PROVE  FALSE
  OBVIOUS
<1> DEFINE r == nearestNode(pos)
<1>1. r \in Nodes
  BY NearestIsNode
<1>2. Far(pos, At(r)) <= Far(pos, At(m))
  BY NearestIsClosest
<1>3. Apart(m, r)
  BY <1>1, FleetAssumption
<1> HIDE DEF r
<1>4. PICK e \in Nat \ {0} : e = GpsEpsilon
  BY FleetAssumption
<1>5. /\ Lat[m] \in Int /\ Lat[r] \in Int /\ Lon[m] \in Int /\ Lon[r] \in Int
      /\ pos[1] \in Int /\ pos[2] \in Int
  BY <1>1, SelectionAssumption
<1> DEFINE x == pos[1] - Lat[m]
           y == pos[2] - Lon[m]
           X == pos[1] - Lat[r]
           Y == pos[2] - Lon[r]
<1>6. x \in Int /\ y \in Int /\ X \in Int /\ Y \in Int
  BY <1>5
<1>7. -e < x /\ x < e /\ -e < y /\ y < e
  BY <1>4 DEF Near, At
<1>8. X >= 2 * e \/ -X >= 2 * e \/ Y >= 2 * e \/ -Y >= 2 * e
  BY <1>3, <1>4, <1>5, <1>7 DEF Apart
<1>9. Far(pos, At(r)) = X * X + Y * Y /\ Far(pos, At(m)) = x * x + y * y
  BY DEF Far, At
<1> HIDE DEF x, y, X, Y
<1>10. x * x < e * e /\ y * y < e * e
  BY <1>6, <1>7, SmallSquare
<1>11. X * X >= 4 * (e * e) \/ Y * Y >= 4 * (e * e)
  BY <1>6, <1>8, LargeSquare
<1>12. /\ x * x \in Int /\ y * y \in Int /\ X * X \in Int /\ Y * Y \in Int /\ e * e \in Int
       /\ X * X >= 0 /\ Y * Y >= 0 /\ e * e >= 0
  BY <1>6, Squares
<1> QED
  BY <1>2, <1>9, <1>10, <1>11, <1>12

(* A landmark is a place, and nearness goes both ways.                     *)
LEMMA LandmarkIsPlace ==
    ASSUME NEW a \in Nodes
    PROVE  At(a) \in Int \X Int
BY SelectionAssumption DEF At

LEMMA NearIsSymmetric ==
    ASSUME NEW p \in Int \X Int, NEW q \in Int \X Int, Near(p, q)
    PROVE  Near(q, p)
<1>1. p[1] \in Int /\ p[2] \in Int /\ q[1] \in Int /\ q[2] \in Int
  OBVIOUS
<1>2. GpsEpsilon \in Nat
  BY FleetAssumption
<1> QED
  BY <1>1, <1>2 DEF Near

(* A landmark is the nearest to itself, so no two are near each other.     *)
LEMMA NearestToItself ==
    ASSUME NEW m \in Nodes
    PROVE  nearestNode(At(m)) = m
<1>1. At(m) \in Int \X Int
  BY LandmarkIsPlace
<1>2. Lat[m] \in Int /\ Lon[m] \in Int
  BY SelectionAssumption
<1>3. Near(At(m), At(m))
  BY <1>2, FleetAssumption DEF Near, At
<1> QED
  BY <1>1, <1>3, NearIsNearest

-----------------------------------------------------------------------------
(* selectVehicle.                                                          *)

\* One turn of its loop
Chosen(pickup, party, c, best) ==
    IF Reaches(c, pickup)
    THEN IF best = NoVehicle \/ score(c, pickup, party) < score(best, pickup, party)
         THEN c ELSE best
    ELSE best

\* best[k] is the best of the first k candidates
BestSoFar(candidates, pickup, party, n, best) ==
    /\ best[0] = NoVehicle
    /\ \A k \in 1..n : best[k] = Chosen(pickup, party, candidates[k], best[k-1])
    /\ selectVehicle(candidates, pickup, party) = best[n]

Reaching(candidates, pickup) ==
    {candidates[k] : k \in {j \in DOMAIN candidates : Reaches(candidates[j], pickup)}}

(* Its loop, candidate by candidate: the best one so far reaches the       *)
(* pickup.                                                                 *)
LEMMA SelectionLoop ==
    ASSUME NEW candidates, NEW pickup, NEW party, NEW n \in Nat, DOMAIN candidates = 1..n
    PROVE  \E best \in [0..n -> Reaching(candidates, pickup) \union {NoVehicle}] :
              BestSoFar(candidates, pickup, party, n, best)
<1> DEFINE B == Reaching(candidates, pickup) \union {NoVehicle}
           Turn(k, c) == Chosen(pickup, party, candidates[k], c)
           Fix(ff) == ff = [s \in SUBSET (1..n) |->
                        IF s = {} THEN NoVehicle ELSE Turn(Max(s), ff[s \ {Max(s)}])]
           step == [x \in (1..n) \X B |-> Turn(x[1], x[2])]
<1>1. NoVehicle \in B /\ \A k \in 1..n, c \in B : Turn(k, c) \in B
  BY DEF Chosen, Reaching
<1>2. \E ff : Fix(ff)
  <2> HIDE DEF B, Turn
  <2>1. step \in [(1..n) \X B -> B]
    <3>1. \A x \in (1..n) \X B : x[1] \in 1..n /\ x[2] \in B
      OBVIOUS
    <3> QED
      BY <1>1, <3>1
  <2>2. \A k \in 1..n, c \in B : step[<<k, c>>] = Turn(k, c)
    OBVIOUS
  <2> HIDE DEF step
  <2>3. PICK iter \in [SUBSET (1..n) -> B] : IsFold(n, NoVehicle, step, iter)
    BY <1>1, <2>1, FoldExists
  <2>4. ASSUME NEW s \in SUBSET (1..n), s # {}
        PROVE  step[<<Max(s), iter[s \ {Max(s)}]>>] = Turn(Max(s), iter[s \ {Max(s)}])
    <3>1. Max(s) \in 1..n
      BY <2>4, MaxIsIn
    <3>2. s \ {Max(s)} \in SUBSET (1..n)
      OBVIOUS
    <3>3. iter[s \ {Max(s)}] \in B
      BY <3>2
    <3> QED
      BY <2>2, <3>1, <3>3
  <2>5. Fix(iter)
    <3>1. iter = [s \in SUBSET (1..n) |-> iter[s]]
      OBVIOUS
    <3> QED
      BY <2>3, <2>4, <3>1 DEF IsFold
  <2> QED
    BY <2>5
<1>3. PICK ff : Fix(ff) /\ selectVehicle(candidates, pickup, party) = ff[1..n]
  BY <1>2 DEF selectVehicle, FoldLeft, MapThenFoldSet, Chosen
<1> HIDE DEF B, Turn
<1>4. ff[{}] = NoVehicle
  BY <1>3
<1>5. \A s \in SUBSET (1..n) : s # {} => ff[s] = Turn(Max(s), ff[s \ {Max(s)}])
  BY <1>3
<1> DEFINE best == [k \in 0..n |-> ff[1..k]]
<1>6. best[0] = NoVehicle
  BY <1>4, FirstPositions
<1>7. ASSUME NEW k \in 1..n
      PROVE  best[k] = Turn(k, best[k-1])
  <2>1. /\ 1..k \in SUBSET (1..n) /\ 1..k # {}
        /\ Max(1..k) = k /\ (1..k) \ {k} = 1..(k-1)
    BY FirstPositions
  <2>2. ff[1..k] = Turn(Max(1..k), ff[(1..k) \ {Max(1..k)}])
    BY <1>5, <2>1
  <2>3. ff[1..k] = Turn(k, ff[1..(k-1)])
    BY <2>1, <2>2
  <2>4. k \in 0..n /\ k-1 \in 0..n
    OBVIOUS
  <2> QED
    BY <2>3, <2>4
<1>8. selectVehicle(candidates, pickup, party) = best[n] /\ best = [k \in 0..n |-> best[k]]
  <2>1. n \in 0..n
    OBVIOUS
  <2> QED
    BY <1>3, <2>1
<1> HIDE DEF best
<1>9. ASSUME NEW k \in 0..n
      PROVE  best[k] \in B
  <2> DEFINE S == {j \in Nat : best[j] \in B}
  <2>1. S \in SUBSET Nat /\ 0 \in S
    BY <1>1, <1>6
  <2>2. ASSUME NEW j \in S, j < k
        PROVE  j + 1 \in S
    <3>1. j + 1 \in 1..n /\ (j + 1) - 1 = j /\ j + 1 \in Nat
      BY <2>2
    <3>2. best[j + 1] = Turn(j + 1, best[j])
      BY <1>7, <3>1
    <3> QED
      BY <1>1, <3>1, <3>2
  <2>3. k \in S
    <3> HIDE DEF S
    <3> QED
      BY <2>1, <2>2, InductionUpTo
  <2> QED
    BY <2>3
<1>10. best \in [0..n -> B]
  BY <1>8, <1>9
<1> QED
  BY <1>6, <1>7, <1>8, <1>10 DEF BestSoFar, B, Turn

(* Whoever is selected is a candidate that reaches the pickup.             *)
LEMMA SelectedReaches ==
    ASSUME NEW candidates, NEW pickup, NEW party, NEW n \in Nat, DOMAIN candidates = 1..n
    PROVE  selectVehicle(candidates, pickup, party)
              \in Reaching(candidates, pickup) \union {NoVehicle}
<1>1. PICK best \in [0..n -> Reaching(candidates, pickup) \union {NoVehicle}] :
         BestSoFar(candidates, pickup, party, n, best)
  BY SelectionLoop
<1>2. n \in 0..n
  OBVIOUS
<1> QED
  BY <1>1, <1>2 DEF BestSoFar

(* Scores can be compared.                                                 *)
LEMMA ScoreIsInt ==
    ASSUME NEW c, c.seats \in Nat, NEW pickup \in Nodes, NEW party \in Nat
    PROVE  score(c, pickup, party) \in Int
<1>1. nearestNode(c.place) \in Nodes
  BY NearestIsNode
<1>2. CostKm[nearestNode(c.place)][pickup] \in Nat
  BY <1>1, SelectionAssumption
<1>3. batteryPenalty(c) \in Nat /\ sizePenalty(c, party) \in Nat
  BY DEF batteryPenalty, sizePenalty
<1> QED
  BY <1>2, <1>3 DEF score

(* The best of the first k candidates is the first with the lowest score   *)
(* of those that reach the pickup.                                         *)
LEMMA SelectedIsBest ==
    ASSUME NEW candidates, NEW pickup \in Nodes, NEW party \in Nat,
           NEW n \in Nat, DOMAIN candidates = 1..n,
           \A k \in 1..n : candidates[k].seats \in Nat /\ candidates[k] # NoVehicle
    PROVE  IsBest(selectVehicle(candidates, pickup, party), candidates, pickup, party)
<1> DEFINE able == {k \in 1..n : Reaches(candidates[k], pickup)}
           sc(k) == score(candidates[k], pickup, party)
           Beats(j, k) == sc(j) < sc(k) \/ (sc(j) = sc(k) /\ j <= k)
           First(k) == {j \in able : j <= k}
<1>1. PICK best \in [0..n -> Reaching(candidates, pickup) \union {NoVehicle}] :
         BestSoFar(candidates, pickup, party, n, best)
  BY SelectionLoop
<1> DEFINE P(k) == \/ First(k) = {} /\ best[k] = NoVehicle
                   \/ \E j \in First(k) : best[k] = candidates[j] /\ \A i \in First(k) : Beats(j, i)
<1>2. \A k \in 1..n : sc(k) \in Int
  BY ScoreIsInt
<1>3. P(0)
  <2>1. First(0) = {}
    OBVIOUS
  <2> QED
    BY <1>1, <2>1 DEF BestSoFar
<1>4. ASSUME NEW k \in Nat, k < n, P(k)
      PROVE  P(k + 1)
  <2> DEFINE m == k + 1
  <2>1. m \in 1..n /\ m - 1 = k
    BY <1>4
  <2>2. best[m] = Chosen(pickup, party, candidates[m], best[k])
    BY <1>1, <2>1 DEF BestSoFar
  <2>3. CASE m \notin able
    <3>1. First(m) = First(k)
      BY <2>1, <2>3
    <3>2. best[m] = best[k]
      BY <2>1, <2>2, <2>3 DEF Chosen
    <3> HIDE DEF First, m, sc
    <3> QED
      BY <1>4, <3>1, <3>2 DEF m
  <2>4. CASE m \in able
    <3>1. First(m) = First(k) \union {m} /\ m \in First(m)
      BY <2>1, <2>4
    <3>2. Reaches(candidates[m], pickup)
      BY <2>4
    <3>3. CASE First(k) = {} /\ best[k] = NoVehicle
      <4>1. best[m] = candidates[m]
        BY <2>2, <3>2, <3>3 DEF Chosen
      <4>2. \A i \in First(m) : i = m /\ Beats(m, i)
        BY <2>1, <3>1, <3>3
      <4> QED
        BY <3>1, <4>1, <4>2
    <3>4. ASSUME NEW j \in First(k), best[k] = candidates[j], \A i \in First(k) : Beats(j, i)
          PROVE  P(m)
      <4>1. j \in 1..n /\ j < m /\ candidates[j] # NoVehicle /\ sc(j) \in Int /\ sc(m) \in Int
        BY <1>2, <2>1
      <4>2. best[m] = IF sc(m) < sc(j) THEN candidates[m] ELSE candidates[j]
        BY <2>2, <3>2, <3>4, <4>1 DEF Chosen
      <4>3. \A i \in First(k) : i \in 1..n /\ i < m /\ sc(i) \in Int
        BY <1>2, <2>1
      <4> HIDE DEF sc
      <4>4. CASE sc(m) < sc(j)
        <5>1. \A i \in First(m) : Beats(m, i)
          <6> SUFFICES ASSUME NEW i \in First(m)
                       PROVE  Beats(m, i)
            OBVIOUS
          <6>1. CASE i = m
            BY <2>1, <6>1
          <6>2. CASE i \in First(k)
            <7>1. Beats(j, i) /\ sc(i) \in Int
              BY <3>4, <4>3, <6>2
            <7> QED
              BY <4>1, <4>4, <7>1
          <6> QED
            BY <3>1, <6>1, <6>2
        <5> QED
          BY <3>1, <4>2, <4>4, <5>1
      <4>5. CASE ~(sc(m) < sc(j))
        <5>1. Beats(j, m)
          BY <4>1, <4>5
        <5>2. \A i \in First(m) : Beats(j, i)
          BY <3>1, <3>4, <5>1
        <5>3. j \in First(m) /\ best[m] = candidates[j]
          BY <3>1, <4>2, <4>5
        <5> HIDE DEF First, Beats, m
        <5> QED
          BY <5>2, <5>3
      <4> QED
        BY <4>4, <4>5
    <3> QED
      BY <1>4, <3>3, <3>4
  <2> QED
    BY <2>3, <2>4
<1> DEFINE S == {k \in Nat : P(k)}
<1>5. n \in S
  <2> HIDE DEF P
  <2>1. S \in SUBSET Nat /\ 0 \in S /\ \A k \in S : k < n => k + 1 \in S
    BY <1>3, <1>4
  <2> HIDE DEF S
  <2> QED
    BY <2>1, InductionUpTo
<1>6. P(n)
  <2> HIDE DEF P
  <2> QED
    BY <1>5
<1>7. First(n) = able
  OBVIOUS
<1>8. selectVehicle(candidates, pickup, party) = best[n]
  BY <1>1 DEF BestSoFar
<1>9. CASE able = {} /\ best[n] = NoVehicle
  BY <1>8, <1>9 DEF IsBest
<1>10. ASSUME NEW j \in able, best[n] = candidates[j], \A i \in able : Beats(j, i)
       PROVE  IsBest(best[n], candidates, pickup, party)
  BY <1>10 DEF IsBest
<1> QED
  <2> HIDE DEF First, Beats, able
  <2> QED
    BY <1>6, <1>7, <1>8, <1>9, <1>10

(* SelectsBest holds whatever the calls: for any list of candidates, road   *)
(* network, pickup and party, select.js sends the first of those with the  *)
(* lowest score among those that reach the pickup.                         *)
THEOREM BestIsSelected == Spec => []SelectsBest
<1>1. SelectsBest
  <2> SUFFICES ASSUME NEW call \in Selections
               PROVE  IsBest(selectVehicle(call[1], call[2], call[3]), call[1], call[2], call[3])
    BY DEF SelectsBest
  <2> DEFINE candidates == call[1]
             n == Len(candidates)
  <2>1. /\ NoVehicle \notin Range(candidates) /\ DOMAIN candidates = 1..n
        /\ \A k \in DOMAIN candidates : candidates[k].seats \in Nat
        /\ call[2] \in Nodes /\ call[3] \in Nat
    BY OperationAssumption
  <2>2. \A k \in 1..n : candidates[k] # NoVehicle
    BY <2>1 DEF Range
  <2> QED
    BY <2>1, <2>2, SelectedIsBest
<1> QED
  BY <1>1, PTL

-----------------------------------------------------------------------------
(* The candidates.                                                         *)

\* What dispatch-service knows of v
Candidate(v) ==
    [vehicle |-> v, seats |-> Seats[v], place |-> known[v].place,
     batteryLevel |-> BatteryLevel[v], currentState |-> known[v].currentState]

(* They are eligible vehicles.                                             *)
LEMMA CandidatesEligible ==
    ASSUME NEW party
    PROVE  Candidates(party) \in Seq({Candidate(v) : v \in {u \in Vehicles : Eligible(u, party)}})
<1> DEFINE n == Len(FleetOrder)
           E == {Candidate(v) : v \in {u \in Vehicles : Eligible(u, party)}}
           B == Seq(E)
           Turn(k, list) == IF Eligible(FleetOrder[k], party)
                            THEN Append(list, Candidate(FleetOrder[k])) ELSE list
           Fix(ff) == ff = [s \in SUBSET (1..n) |->
                        IF s = {} THEN << >> ELSE Turn(Max(s), ff[s \ {Max(s)}])]
           step == [x \in (1..n) \X B |-> Turn(x[1], x[2])]
<1>1. n \in Nat /\ DOMAIN FleetOrder = 1..n /\ \A k \in 1..n : FleetOrder[k] \in Vehicles
  BY OperationAssumption
<1>2. << >> \in B
  OBVIOUS
<1>3. ASSUME NEW k \in 1..n, NEW list \in B
      PROVE  Turn(k, list) \in B
  <2>1. CASE Eligible(FleetOrder[k], party)
    <3>1. Candidate(FleetOrder[k]) \in E
      BY <1>1, <2>1
    <3> HIDE DEF E
    <3> QED
      BY <2>1, <3>1
  <2>2. CASE ~Eligible(FleetOrder[k], party)
    BY <2>2
  <2> QED
    BY <2>1, <2>2
<1> HIDE DEF n, E, B
<1>4. \E ff : Fix(ff)
  <2> HIDE DEF Turn
  <2>1. step \in [(1..n) \X B -> B]
    <3>1. \A x \in (1..n) \X B : x[1] \in 1..n /\ x[2] \in B
      OBVIOUS
    <3> QED
      BY <1>3, <3>1
  <2>2. \A k \in 1..n, list \in B : step[<<k, list>>] = Turn(k, list)
    OBVIOUS
  <2> HIDE DEF step
  <2>3. PICK iter \in [SUBSET (1..n) -> B] : IsFold(n, << >>, step, iter)
    BY <1>1, <1>2, <2>1, FoldExists
  <2>4. ASSUME NEW s \in SUBSET (1..n), s # {}
        PROVE  step[<<Max(s), iter[s \ {Max(s)}]>>] = Turn(Max(s), iter[s \ {Max(s)}])
    <3>1. Max(s) \in 1..n
      BY <1>1, <2>4, MaxIsIn
    <3>2. s \ {Max(s)} \in SUBSET (1..n)
      OBVIOUS
    <3>3. iter[s \ {Max(s)}] \in B
      BY <3>2
    <3> QED
      BY <2>2, <3>1, <3>3
  <2>5. Fix(iter)
    <3>1. iter = [s \in SUBSET (1..n) |-> iter[s]]
      OBVIOUS
    <3> QED
      BY <2>3, <2>4, <3>1 DEF IsFold
  <2> QED
    BY <2>5
<1>5. PICK ff : Fix(ff) /\ Candidates(party) = ff[1..n]
  BY <1>1, <1>4 DEF Candidates, FoldLeft, MapThenFoldSet, Candidate
<1> HIDE DEF Turn
<1>6. ff[{}] = << >>
  BY <1>5
<1>7. \A s \in SUBSET (1..n) : s # {} => ff[s] = Turn(Max(s), ff[s \ {Max(s)}])
  BY <1>5
<1> HIDE DEF Fix
<1> DEFINE S == {k \in Nat : k <= n => ff[1..k] \in B}
<1>8. S \in SUBSET Nat /\ 0 \in S
  <2>1. 1..0 = {}
    OBVIOUS
  <2> QED
    BY <1>2, <1>6, <2>1
<1>9. ASSUME NEW k \in S, k < n
      PROVE  k + 1 \in S
  <2>1. k + 1 \in 1..n /\ (k + 1) - 1 = k /\ k + 1 \in Nat /\ k \in Nat /\ ff[1..k] \in B
    BY <1>1, <1>9
  <2> DEFINE m == k + 1
  <2>2. /\ 1..m \in SUBSET (1..n) /\ 1..m # {}
        /\ Max(1..m) = m /\ (1..m) \ {m} = 1..(m-1)
    BY <1>1, <2>1, FirstPositions
  <2>3. ff[1..m] = Turn(Max(1..m), ff[(1..m) \ {Max(1..m)}])
    BY <1>7, <2>2
  <2>4. ff[1..m] = Turn(m, ff[1..k])
    BY <2>1, <2>2, <2>3
  <2>5. ff[1..m] \in B
    BY <1>3, <2>1, <2>4
  <2> QED
    BY <2>1, <2>5
<1>10. n \in S
  <2> HIDE DEF S
  <2> QED
    BY <1>1, <1>8, <1>9, InductionUpTo
<1>11. ff[1..n] \in B
  BY <1>1, <1>10
<1> QED
  BY <1>5, <1>11 DEF B, E

(* So whoever is selected for a ride is an eligible vehicle, and reaches   *)
(* the pickup.                                                             *)
LEMMA SelectsCandidate ==
    ASSUME NEW pickup, NEW party
    PROVE  LET choice == selectVehicle(Candidates(party), pickup, party)
           IN  choice # NoVehicle =>
                  /\ \E v \in Vehicles : Eligible(v, party) /\ choice = Candidate(v)
                  /\ Reaches(choice, pickup)
<1> DEFINE E == {Candidate(v) : v \in {u \in Vehicles : Eligible(u, party)}}
           list == Candidates(party)
           choice == selectVehicle(list, pickup, party)
<1>1. list \in Seq(E)
  BY CandidatesEligible
<1> HIDE DEF list
<1>2. Len(list) \in Nat /\ DOMAIN list = 1..Len(list) /\ \A k \in 1..Len(list) : list[k] \in E
  BY <1>1
<1>3. choice \in Reaching(list, pickup) \union {NoVehicle}
  BY <1>2, SelectedReaches
<1> HIDE DEF choice
<1>4. ASSUME choice # NoVehicle
      PROVE  choice \in E /\ Reaches(choice, pickup)
  BY <1>2, <1>3, <1>4 DEF Reaching
<1> QED
  BY <1>4 DEF choice, list

-----------------------------------------------------------------------------
(* Sound commands.                                                         *)

\* A command to a vehicle for hire, by way of landmarks to the pickup
Command(c) ==
    /\ c = [vehicle |-> c.vehicle, pickup |-> c.pickup, sound |-> c.sound, path |-> c.path]
    /\ c.vehicle \in Vehicles \ NotForHire
    /\ c.sound \in BOOLEAN
    /\ c.path \in Seq(Nodes) /\ c.path # << >>
    /\ Legal(c.path)
    /\ c.path[Len(c.path)] = c.pickup

RideTypeOK ==
    /\ nodeId = [v \in Vehicles |-> nodeId[v]]
    /\ route = [v \in Vehicles |-> route[v]]
    /\ errand = [v \in Vehicles |-> errand[v]]
    /\ \A v \in Vehicles \ NotForHire : nodeId[v] \in Nodes /\ route[v] \in Seq(Nodes)
    /\ NotForHire \subseteq onTrip
    /\ \A c \in commands : Command(c)

\* The vehicle of a sound command stands where the path starts; it is booked,
\* and nobody else has a command for it
SoundCommand(c) ==
    /\ Idling(c.vehicle)
    /\ Head(c.path) = nodeId[c.vehicle]
    /\ c.vehicle \in onTrip
    /\ \A other \in commands : other.vehicle = c.vehicle => other = c

\* What is left of a sound command leads along roads to the pickup
SoundErrand(v) ==
    LET way == <<nodeId[v]>> \o route[v]
    IN  v \notin NotForHire /\ Legal(way) /\ way[Len(way)] = errand[v].pickup

RideInv ==
    /\ RideTypeOK
    /\ \A c \in commands : c.sound => SoundCommand(c)
    /\ \A v \in Vehicles : errand[v] # NoVehicle /\ errand[v].sound => SoundErrand(v)

\* What dispatch-service knows of a vehicle is a place, and so is what is on
\* its way to it
PlacesKnown ==
    /\ known = [v \in Vehicles |-> known[v]]
    /\ \A v \in Vehicles : known[v] # NoReading => known[v].place \in Int \X Int
    /\ underway \subseteq {v \in Vehicles : lastSent[v] # NoReading}

(* A way consists of its first landmark and the rest.                      *)
LEMMA WayIsHeadAndTail ==
    ASSUME NEW way \in Seq(Nodes), way # << >>
    PROVE  /\ Head(way) \in Nodes /\ Tail(way) \in Seq(Nodes)
           /\ <<Head(way)>> \o Tail(way) = way
  OBVIOUS

(* Going on to the next landmark keeps a way legal, and its end.           *)
LEMMA RestOfTheWay ==
    ASSUME NEW n \in Nodes, NEW rest \in Seq(Nodes), rest # << >>, Legal(<<n>> \o rest)
    PROVE  LET way == <<n>> \o rest
           IN  Legal(rest) /\ rest[Len(rest)] = way[Len(way)]
<1> DEFINE way == <<n>> \o rest
<1>1. Len(way) = Len(rest) + 1 /\ Len(rest) \in Nat \ {0}
  OBVIOUS
<1>2. \A k \in 1..Len(rest) : way[k+1] = rest[k]
  OBVIOUS
<1>3. \A k \in 1..Len(rest)-1 : k+1 \in 1..Len(way)-1
  BY <1>1
<1>4. ASSUME NEW k \in 1..Len(rest)-1
      PROVE  PathOf[rest[k]][rest[k+1]] = <<rest[k], rest[k+1]>>
  <2>1. way[k+1] = rest[k] /\ way[k+2] = rest[k+1]
    BY <1>1, <1>2
  <2>2. PathOf[way[k+1]][way[(k+1)+1]] = <<way[k+1], way[(k+1)+1]>>
    BY <1>3 DEF Legal
  <2>3. (k+1)+1 = k+2
    OBVIOUS
  <2> QED
    BY <2>1, <2>2, <2>3
<1> QED
  BY <1>1, <1>2, <1>4 DEF Legal

(* A tick moves the vehicles that have an errand along their ways, and     *)
(* leaves the idle ones alone.                                             *)
LEMMA TickRides ==
    ASSUME RideInv, FleetTick
    PROVE  RideInv'
<1> USE DEF RideInv, RideTypeOK
<1>1. UNCHANGED <<onTrip, commands, errand>>
  BY DEF FleetTick
<1> PICK pace \in Drives : Move(pace)
  BY DEF FleetTick
<1>2. ASSUME NEW v \in Vehicles, v \notin NotForHire
      PROVE  /\ BusLoop[v] = << >> /\ Legs(v) = route[v]
             /\ nodeId'[v] = IF Arriving(v, pace) THEN Head(route[v]) ELSE nodeId[v]
             /\ route'[v] = IF Arriving(v, pace) THEN Tail(route[v]) ELSE route[v]
             /\ Arriving(v, pace) => route[v] # << >>
             /\ route[v] = << >> => place'[v] = At(nodeId'[v])
  BY <1>2, OperationAssumption DEF Move, Legs, ToppedUp, Arriving, Driving
<1>3. ASSUME NEW v \in Vehicles, v \notin NotForHire, Idling(v)
      PROVE  Idling(v)' /\ nodeId'[v] = nodeId[v]
  BY <1>2, <1>3 DEF Idling, At
<1>4. ASSUME NEW v \in Vehicles, v \notin NotForHire, SoundErrand(v)
      PROVE  SoundErrand(v)'
  <2>1. CASE Arriving(v, pace)
    <3> DEFINE rest == route[v]
    <3>1. rest \in Seq(Nodes) /\ rest # << >> /\ nodeId[v] \in Nodes
      BY <1>2, <1>4, <2>1
    <3>2. nodeId'[v] = Head(rest) /\ route'[v] = Tail(rest)
      BY <1>2, <1>4, <2>1
    <3>3. <<nodeId'[v]>> \o route'[v] = rest
      BY <3>1, <3>2, WayIsHeadAndTail
    <3>4. Legal(rest) /\ rest[Len(rest)] = errand[v].pickup
      BY <1>4, <3>1, RestOfTheWay DEF SoundErrand
    <3> QED
      BY <1>1, <1>4, <3>3, <3>4 DEF SoundErrand
  <2>2. CASE ~Arriving(v, pace)
    BY <1>1, <1>2, <1>4, <2>2 DEF SoundErrand
  <2> QED
    BY <2>1, <2>2
<1>5. RideTypeOK'
  <2>1. /\ nodeId' = [v \in Vehicles |-> nodeId'[v]]
        /\ route' = [v \in Vehicles |-> route'[v]]
    BY DEF Move
  <2>2. ASSUME NEW v \in Vehicles, v \notin NotForHire
        PROVE  nodeId'[v] \in Nodes /\ route'[v] \in Seq(Nodes)
    BY <1>2, <2>2, WayIsHeadAndTail
  <2> QED
    BY <1>1, <2>1, <2>2 DEF Command
<1>6. \A c \in commands : c.sound => SoundCommand(c)'
  BY <1>1, <1>3 DEF SoundCommand, Command
<1> QED
  BY <1>1, <1>4, <1>5, <1>6 DEF SoundErrand

(* A booking makes one command, for a vehicle that had none that is sound. *)
LEMMA RideRides ==
    ASSUME RideInv, FleetTypeOK, PlacesKnown,
           NEW pickup \in Nodes, NEW party \in Parties, Ride(pickup, party)
    PROVE  RideInv'
<1> USE DEF RideInv, RideTypeOK
<1> DEFINE choice == selectVehicle(Candidates(party), pickup, party)
           path == PathOf[nearestNode(choice.place)][pickup]
<1>1. choice # NoVehicle
  BY DEF Ride
<1>2. PICK v \in Vehicles :
         Eligible(v, party) /\ choice = Candidate(v) /\ Reaches(choice, pickup)
  BY <1>1, SelectsCandidate
<1> HIDE DEF choice
<1>3. choice.vehicle = v /\ choice.place = known[v].place
  BY <1>2 DEF Candidate
<1>4. v \notin onTrip /\ v \notin NotForHire
  BY <1>2 DEF Eligible
<1> DEFINE new == [vehicle |-> v, pickup |-> pickup, sound |-> Sound(v), path |-> path]
<1>5. /\ commands' = commands \union {new}
      /\ onTrip' = onTrip \union {v}
      /\ UNCHANGED <<fleetVars, errand>>
  BY <1>3 DEF Ride, choice
<1>6. /\ path \in Seq(Nodes) /\ path # << >> /\ Legal(path)
      /\ Head(path) = nearestNode(choice.place)
      /\ path[Len(path)] = pickup
  <2>1. nearestNode(choice.place) \in Nodes /\ path # << >>
    BY <1>2, NearestIsNode DEF Reaches
  <2> QED
    BY <2>1, SelectionAssumption DEF Last
<1> HIDE DEF path
<1>7. /\ new.vehicle = v /\ new.pickup = pickup /\ new.sound = Sound(v) /\ new.path = path
  OBVIOUS
<1>8. Command(new)
  BY <1>4, <1>6, <1>7 DEF Command, Sound
<1> HIDE DEF new
<1>9. ASSUME NEW c, c = new, Sound(v)
      PROVE  SoundCommand(c)'
  <2>1. /\ Idling(v) /\ Near(known[v].place, At(nodeId[v]))
        /\ \A d \in commands : d.vehicle # v
    BY <1>9 DEF Sound, Idling
  <2>2. nearestNode(choice.place) = nodeId[v]
    <3>1. known[v].place \in Int \X Int
      BY <1>2 DEF Eligible, PlacesKnown
    <3> QED
      BY <1>3, <1>4, <2>1, <3>1, NearIsNearest
  <2> QED
    BY <1>5, <1>6, <1>7, <1>9, <2>1, <2>2 DEF SoundCommand, Idling, fleetVars
<1>10. ASSUME NEW c \in commands, SoundCommand(c)
       PROVE  SoundCommand(c)'
  <2>1. c.vehicle # v
    BY <1>4, <1>10 DEF SoundCommand
  <2> QED
    BY <1>5, <1>7, <1>10, <2>1 DEF SoundCommand, Idling, fleetVars
<1>11. RideTypeOK'
  BY <1>5, <1>8 DEF fleetVars
<1>12. ASSUME NEW c \in commands', c.sound
       PROVE  SoundCommand(c)'
  BY <1>5, <1>7, <1>9, <1>10, <1>12
<1>13. \A u \in Vehicles : errand'[u] # NoVehicle /\ errand'[u].sound => SoundErrand(u)'
  BY <1>5 DEF SoundErrand, fleetVars
<1> QED
  BY <1>11, <1>12, <1>13

(* A delivered command makes its path the way; no other sound command is   *)
(* for the same vehicle.                                                   *)
LEMMA DeliverRides ==
    ASSUME RideInv, NEW c \in commands, Deliver(c)
    PROVE  RideInv'
<1> USE DEF RideInv, RideTypeOK
<1> DEFINE v == c.vehicle
           rest == IF c.path # << >> /\ Head(c.path) = nodeId[v] THEN Tail(c.path) ELSE c.path
<1>1. /\ commands' = commands \ {c}
      /\ route' = [route EXCEPT ![v] = rest]
      /\ errand' = [errand EXCEPT ![v] = c]
      /\ UNCHANGED <<nodeId, place, onTrip>>
  BY DEF Deliver, Engage
<1>2. Command(c) /\ v \in Vehicles \ NotForHire
  BY DEF Command
<1>3. /\ c.path \in Seq(Nodes) /\ c.path # << >> /\ Legal(c.path)
      /\ c.path[Len(c.path)] = c.pickup
  BY <1>2 DEF Command
<1>4. rest \in Seq(Nodes)
  BY <1>3
<1>5. ASSUME c.sound
      PROVE  SoundErrand(v)'
  <2>1. Head(c.path) = nodeId[v]
    BY <1>5 DEF SoundCommand
  <2>2. <<nodeId'[v]>> \o route'[v] = c.path /\ errand'[v] = c
    BY <1>1, <1>2, <1>3, <2>1, WayIsHeadAndTail
  <2> QED
    BY <1>2, <1>3, <2>2 DEF SoundErrand
<1>6. \A u \in Vehicles : u # v => route'[u] = route[u] /\ errand'[u] = errand[u]
  BY <1>1
<1>7. ASSUME NEW d \in commands', d.sound
      PROVE  SoundCommand(d)'
  <2>1. d \in commands /\ SoundCommand(d) /\ d.vehicle # v
    BY <1>1, <1>7 DEF SoundCommand
  <2>2. d.vehicle \in Vehicles
    BY <2>1 DEF Command
  <2> QED
    BY <1>1, <1>6, <2>1, <2>2 DEF SoundCommand, Idling
<1> HIDE DEF rest, v
<1>8. RideTypeOK'
  BY <1>1, <1>2, <1>4
<1>9. ASSUME NEW u \in Vehicles, errand'[u] # NoVehicle, errand'[u].sound
      PROVE  SoundErrand(u)'
  <2>1. CASE u = v
    <3>1. errand'[u] = c
      BY <1>1, <2>1
    <3> QED
      BY <1>5, <1>9, <2>1, <3>1
  <2>2. CASE u # v
    BY <1>1, <1>6, <1>9, <2>2 DEF SoundErrand
  <2> QED
    BY <2>1, <2>2
<1> QED
  BY <1>7, <1>8, <1>9

(* Nothing else makes a command sound, or moves a vehicle that has one.    *)
LEMMA OthersRide ==
    ASSUME RideInv, NEW v \in Vehicles,
           Learn(v) \/ Miss(v) \/ Reset(v) \/ Stop(v)
    PROVE  RideInv'
<1> USE DEF RideInv, RideTypeOK
<1>1. CASE Learn(v) \/ Miss(v)
  BY <1>1 DEF Learn, Miss, fleetVars, SoundCommand, Idling, SoundErrand
<1>2. CASE Reset(v)
  <2>1. /\ v \notin NotForHire /\ onTrip' = onTrip \ {v}
        /\ commands' = Spoiled({v})
        /\ UNCHANGED <<nodeId, route, place, errand>>
    BY <1>2 DEF Reset, fleetVars
  <2>2. ASSUME NEW d \in commands'
        PROVE  \E c \in commands : /\ Command(c) /\ d = [c EXCEPT !.sound = @ /\ c.vehicle \notin {v}]
    BY <2>1, <2>2 DEF Spoiled
  <2>3. ASSUME NEW d \in commands'
        PROVE  /\ Command(d)
               /\ d.sound => d.vehicle # v
               /\ \E c \in commands : d.vehicle = c.vehicle /\ (d.vehicle # v => d = c)
    <3> PICK c \in commands : /\ Command(c)
                              /\ d = [c EXCEPT !.sound = @ /\ c.vehicle \notin {v}]
      BY <2>2
    <3>1. d = [vehicle |-> c.vehicle, pickup |-> c.pickup,
               sound |-> c.sound /\ c.vehicle # v, path |-> c.path]
      BY DEF Command
    <3>2. c.vehicle # v => d = c
      BY <3>1 DEF Command
    <3> QED
      BY <3>1, <3>2 DEF Command
  <2>4. ASSUME NEW d \in commands', d.sound
        PROVE  SoundCommand(d)'
    <3>1. d \in commands /\ SoundCommand(d) /\ d.vehicle # v
      BY <2>3, <2>4
    <3>2. \A other \in commands' : other.vehicle = d.vehicle => other = d
      BY <2>3, <3>1 DEF SoundCommand
    <3> QED
      BY <2>1, <3>1, <3>2 DEF SoundCommand, Idling
  <2>5. \A u \in Vehicles : errand'[u] # NoVehicle /\ errand'[u].sound => SoundErrand(u)'
    BY <2>1 DEF SoundErrand
  <2> QED
    BY <2>1, <2>3, <2>4, <2>5
<1>3. CASE Stop(v)
  <2>1. /\ route' = [route EXCEPT ![v] = << >>]
        /\ errand' = [errand EXCEPT ![v] = NoVehicle]
        /\ UNCHANGED <<nodeId, place, onTrip, commands>>
    BY <1>3 DEF Stop, Disengage
  <2>2. \A u \in Vehicles : /\ route'[u] = IF u = v THEN << >> ELSE route[u]
                            /\ errand'[u] = IF u = v THEN NoVehicle ELSE errand[u]
    BY <2>1
  <2>3. RideTypeOK'
    <3>1. /\ route' = [u \in Vehicles |-> route'[u]]
          /\ errand' = [u \in Vehicles |-> errand'[u]]
      BY <2>1
    <3>2. << >> \in Seq(Nodes)
      OBVIOUS
    <3>3. \A u \in Vehicles \ NotForHire : route'[u] \in Seq(Nodes)
      BY <2>2, <3>2
    <3> QED
      BY <2>1, <3>1, <3>3
  <2>4. \A c \in commands : SoundCommand(c) => SoundCommand(c)'
    BY <2>1, <2>2 DEF SoundCommand, Idling, Command
  <2>5. \A u \in Vehicles : errand'[u] # NoVehicle /\ errand'[u].sound => SoundErrand(u)'
    BY <2>1, <2>2 DEF SoundErrand
  <2> QED
    BY <2>1, <2>3, <2>4, <2>5
<1> QED
  BY <1>1, <1>2, <1>3

(* A restart leaves no command sound and no errand.                        *)
LEMMA RebootRides ==
    ASSUME RideInv, FleetReboot
    PROVE  RideInv'
<1> USE DEF RideInv, RideTypeOK
<1>1. /\ nodeId' = HomeNode
      /\ route' = [v \in Vehicles |-> << >>]
      /\ errand' = [v \in Vehicles |-> NoVehicle]
      /\ onTrip' = onTrip
      /\ commands' = Spoiled(Vehicles)
  BY DEF FleetReboot, Reboot, AtHome
<1>2. ASSUME NEW d \in commands'
      PROVE  Command(d) /\ ~d.sound
  <2>1. PICK c \in commands : d = [c EXCEPT !.sound = @ /\ c.vehicle \notin Vehicles]
    BY <1>1, <1>2 DEF Spoiled
  <2>2. Command(c)
    OBVIOUS
  <2>3. d = [vehicle |-> c.vehicle, pickup |-> c.pickup, sound |-> FALSE, path |-> c.path]
    BY <2>1, <2>2 DEF Command
  <2> QED
    BY <2>2, <2>3 DEF Command
<1> QED
  BY <1>1, <1>2, FleetAssumption

(* RideInv holds at first, and every step keeps it.                        *)
LEMMA RideInit ==
    ASSUME Init
    PROVE  RideInv
BY FleetAssumption DEF Init, FleetInit, AtHome, RideInv, RideTypeOK

LEMMA RideStep ==
    ASSUME RideInv, FleetTypeOK, PlacesKnown, [Next]_vars
    PROVE  RideInv'
<1>1. CASE FleetTick
  BY <1>1, TickRides
<1>2. CASE \E v \in Vehicles : Learn(v) \/ Miss(v) \/ Reset(v) \/ Stop(v)
  BY <1>2, OthersRide
<1>3. CASE \E pickup \in Nodes, party \in Parties : Ride(pickup, party)
  BY <1>3, RideRides
<1>4. ASSUME NEW c \in commands, Deliver(c)
      PROVE  RideInv'
  BY <1>4, DeliverRides
<1>5. ASSUME NEW c \in commands, Lose(c)
      PROVE  RideInv'
  BY <1>5 DEF Lose, fleetVars, RideInv, RideTypeOK, SoundCommand, SoundErrand, Idling
<1>6. CASE FleetReboot
  BY <1>6, RebootRides
<1>7. CASE UNCHANGED vars
  BY <1>7 DEF vars, fleetVars, RideInv, RideTypeOK, SoundCommand, SoundErrand, Idling, Command
<1> QED
  BY <1>1, <1>2, <1>3, <1>4, <1>5, <1>6, <1>7 DEF Next

-----------------------------------------------------------------------------
(* Types of the simulator.                                                 *)

(* The index into the loop of a bus stays within it, also when a hop of    *)
(* length zero is skipped.                                                 *)
LEMMA NextInLoop ==
    ASSUME FleetTypeOK, NEW v \in Vehicles, BusLoop[v] # << >>
    PROVE  NextIdx(v) \in 1..Len(BusLoop[v]) /\ BusLoop[v][NextIdx(v)] \in Nodes
<1> DEFINE n == Len(BusLoop[v])
           after(k) == (k % n) + 1
<1>1. n \in Nat \ {0} /\ busLoopIdx[v] \in 1..n
  BY FleetAssumption DEF FleetTypeOK
<1>2. \A k \in 1..n : after(k) \in 1..n
  <2> HIDE DEF n
  <2> QED
    BY <1>1
<1>3. NextIdx(v) = IF BusLoop[v][after(busLoopIdx[v])] = nodeId[v]
                   THEN after(after(busLoopIdx[v])) ELSE after(busLoopIdx[v])
  BY DEF NextIdx
<1>4. NextIdx(v) \in 1..n
  <2> HIDE DEF n, after
  <2> QED
    BY <1>1, <1>2, <1>3
<1> QED
  BY <1>4, FleetAssumption

(* A point between two landmarks is one of the grid.                       *)
LEMMA BetweenIsPlace ==
    ASSUME NEW a \in Nodes, NEW b \in Nodes, NEW progress \in Nat
    PROVE  Between(a, b, progress) \in Int \X Int
<1>1. Lat[a] \in Int /\ Lat[b] \in Int /\ Lon[a] \in Int /\ Lon[b] \in Int
  BY SelectionAssumption
<1>2. LegUnits \in Nat \ {0}
  BY FleetAssumption
<1>3. /\ (Lat[b] - Lat[a]) * progress \in Int
      /\ (Lon[b] - Lon[a]) * progress \in Int
  BY <1>1
<1>4. \A x \in Int : x \div LegUnits \in Int
  BY <1>2
<1> QED
  BY <1>1, <1>3, <1>4 DEF Between

(* What a tick finds for a vehicle to drive.                               *)
LEMMA LegsAreNodes ==
    ASSUME FleetTypeOK, NEW v \in Vehicles
    PROVE  /\ Legs(v) \in Seq(Nodes)
           /\ Driving(v) => Head(Legs(v)) \in Nodes /\ Tail(Legs(v)) \in Seq(Nodes)
<1>1. Legs(v) \in Seq(Nodes)
  <2>1. CASE ToppedUp(v)
    <3>1. BusLoop[v][NextIdx(v)] \in Nodes
      BY <2>1, NextInLoop DEF ToppedUp
    <3> QED
      BY <2>1, <3>1 DEF Legs
  <2>2. CASE ~ToppedUp(v)
    BY <2>2 DEF Legs, FleetTypeOK
  <2> QED
    BY <2>1, <2>2
<1> QED
  BY <1>1 DEF Driving

LEMMA TickTypes ==
    ASSUME FleetTypeOK, FleetTick
    PROVE  FleetTypeOK'
<1> USE DEF FleetTypeOK
<1>1. Filter /\ Count
  BY DEF FleetTick
<1> PICK pace \in Drives : Move(pace)
  BY DEF FleetTick
<1>2. nodeId' \in [Vehicles -> Nodes] /\ route' \in [Vehicles -> Seq(Nodes)]
  BY LegsAreNodes DEF Move, Arriving
<1>3. edgeProgress' \in [Vehicles -> 0..LegUnits-1]
  <2> SUFFICES ASSUME NEW v \in Vehicles
               PROVE  (IF Arriving(v, pace) THEN 0 ELSE IF Driving(v) THEN edgeProgress[v] + pace[v]
                       ELSE edgeProgress[v]) \in 0..LegUnits-1
    BY DEF Move
  <2> QED
    BY FleetAssumption DEF Arriving, Drives
<1>4. place' \in [Vehicles -> Int \X Int]
  <2> SUFFICES ASSUME NEW v \in Vehicles
               PROVE  (IF Driving(v) /\ ~Arriving(v, pace)
                       THEN Between(nodeId[v], Head(Legs(v)), edgeProgress'[v])
                       ELSE At(nodeId'[v])) \in Int \X Int
    BY DEF Move
  <2>1. nodeId[v] \in Nodes /\ nodeId'[v] \in Nodes /\ edgeProgress'[v] \in Nat
    BY <1>2, <1>3
  <2>2. CASE Driving(v) /\ ~Arriving(v, pace)
    BY <2>1, <2>2, LegsAreNodes, BetweenIsPlace
  <2>3. CASE ~(Driving(v) /\ ~Arriving(v, pace))
    BY <2>1, <2>3, LandmarkIsPlace
  <2> QED
    BY <2>2, <2>3
<1>5. currentState' \in [Vehicles -> {"driving", "parked", "charging"}]
  BY DEF Move, Idle
<1>6. \A v \in Vehicles : busLoopIdx'[v] \in 1..Len(BusLoop[v]) \/ BusLoop[v] = << >>
  BY NextInLoop DEF Move, ToppedUp
<1>7. lastSent' \in [Vehicles -> Readings \union {NoReading}]
  <2> SUFFICES ASSUME NEW v \in Vehicles
               PROVE  (IF Suppressed(v) THEN Aged(lastSent[v])
                       ELSE [place |-> place'[v], currentState |-> currentState'[v], age |-> 0])
                      \in Readings
    BY <1>1 DEF Filter
  <2>1. CASE Suppressed(v)
    <3>1. lastSent[v] \in Readings
      BY <2>1 DEF Suppressed
    <3>2. lastSent[v].age + 1 \in Nat
      BY <3>1 DEF Readings
    <3> QED
      BY <2>1, <3>1, <3>2 DEF Aged, Readings
  <2>2. CASE ~Suppressed(v)
    BY <1>4, <1>5, <2>2 DEF Readings
  <2> QED
    BY <2>1, <2>2
<1>8. standing' \in [Vehicles -> 0..Heartbeat]
  BY <1>1, FleetAssumption DEF Count
<1> QED
  BY <1>2, <1>3, <1>4, <1>5, <1>6, <1>7, <1>8

LEMMA HomeTypes ==
    ASSUME nodeId = AtHome.nodeId, route = AtHome.route, edgeProgress = AtHome.edgeProgress,
           place = AtHome.place, currentState = AtHome.currentState,
           busLoopIdx = AtHome.busLoopIdx, lastSent = AtHome.lastSent,
           standing = AtHome.standing
    PROVE  FleetTypeOK
<1>1. HomeNode \in [Vehicles -> Nodes] /\ 0 \in 0..LegUnits-1 /\ 0 \in 0..Heartbeat
  BY FleetAssumption
<1>2. place \in [Vehicles -> Int \X Int]
  BY <1>1, LandmarkIsPlace DEF AtHome
<1>3. \A v \in Vehicles : busLoopIdx[v] \in 1..Len(BusLoop[v]) \/ BusLoop[v] = << >>
  <2>1. \A v \in Vehicles : busLoopIdx[v] = 1 /\ BusLoop[v] \in Seq(Nodes)
    BY FleetAssumption DEF AtHome
  <2> QED
    BY <2>1
<1> QED
  BY <1>1, <1>2, <1>3 DEF FleetTypeOK, AtHome

LEMMA StepTypes ==
    ASSUME FleetTypeOK, RideInv, [Next]_vars
    PROVE  FleetTypeOK'
<1>1. CASE FleetTick
  BY <1>1, TickTypes
<1>2. CASE FleetReboot
  <2>1. Reboot
    BY <1>2 DEF FleetReboot
  <2> QED
    BY <2>1, FleetAssumption, LandmarkIsPlace DEF Reboot, AtHome, FleetTypeOK
<1>3. ASSUME NEW c \in commands, Deliver(c)
      PROVE  FleetTypeOK'
  <2>1. Engage(c.vehicle, c.path)
    BY <1>3 DEF Deliver
  <2>2. c.path \in Seq(Nodes)
    BY DEF RideInv, RideTypeOK, Command
  <2>3. (IF c.path # << >> /\ Head(c.path) = nodeId[c.vehicle] THEN Tail(c.path) ELSE c.path)
           \in Seq(Nodes)
    BY <2>2
  <2>4. route' \in [Vehicles -> Seq(Nodes)]
    BY <2>1, <2>3 DEF Engage, FleetTypeOK
  <2>5. edgeProgress' \in [Vehicles -> 0..LegUnits-1]
    <3>1. 0 \in 0..LegUnits-1
      BY FleetAssumption
    <3> QED
      BY <2>1, <3>1 DEF Engage, FleetTypeOK
  <2> QED
    BY <2>1, <2>4, <2>5 DEF Engage, FleetTypeOK
<1>4. ASSUME NEW v \in Vehicles, Stop(v)
      PROVE  FleetTypeOK'
  BY <1>4 DEF Stop, Disengage, FleetTypeOK
<1>5. CASE UNCHANGED fleetVars
  BY <1>5 DEF fleetVars, FleetTypeOK
<1>6. ASSUME NEW v \in Vehicles, Learn(v) \/ Miss(v) \/ Reset(v)
      PROVE  UNCHANGED fleetVars
  BY <1>6 DEF Learn, Miss, Reset
<1>7. ASSUME NEW pickup \in Nodes, NEW party \in Parties, Ride(pickup, party)
      PROVE  UNCHANGED fleetVars
  BY <1>7 DEF Ride
<1>8. ASSUME NEW c \in commands, Lose(c)
      PROVE  UNCHANGED fleetVars
  BY <1>8 DEF Lose
<1>9. CASE UNCHANGED vars
  BY <1>5, <1>9 DEF vars
<1> QED
  BY <1>1, <1>2, <1>3, <1>4, <1>5, <1>6, <1>7, <1>8, <1>9 DEF Next

(* Only places are sent, and so only places are known.                     *)
LEMMA StepPlaces ==
    ASSUME FleetTypeOK, PlacesKnown, [Next]_vars
    PROVE  PlacesKnown'
<1> USE DEF PlacesKnown
<1>1. CASE FleetTick
  <2>1. /\ underway' = underway \union {v \in Vehicles \ NotForHire : ~Suppressed(v)}
        /\ known' = known
        /\ lastSent' = [v \in Vehicles |->
              IF Suppressed(v) THEN Aged(lastSent[v])
              ELSE [place |-> place'[v], currentState |-> currentState'[v], age |-> 0]]
    BY <1>1 DEF FleetTick, Filter
  <2>2. ASSUME NEW v \in underway'
        PROVE  v \in Vehicles /\ lastSent'[v] # NoReading
    <3>1. v \in Vehicles
      BY <2>1, <2>2
    <3>2. CASE Suppressed(v)
      <4>1. lastSent[v] \in Readings
        BY <3>1, <3>2 DEF Suppressed, FleetTypeOK
      <4>2. lastSent'[v] \in Readings
        BY <2>1, <3>1, <3>2, <4>1 DEF Aged, Readings
      <4> QED
        BY <3>1, <4>2, FleetAssumption
    <3>3. CASE ~Suppressed(v)
      <4>1. FleetTypeOK'
        BY <1>1, TickTypes
      <4>2. lastSent'[v] \in Readings
        BY <2>1, <3>1, <3>3, <4>1 DEF Readings, FleetTypeOK
      <4> QED
        BY <3>1, <4>2, FleetAssumption
    <3> QED
      BY <3>2, <3>3
  <2> QED
    BY <2>1, <2>2
<1>2. CASE FleetReboot
  BY <1>2 DEF FleetReboot
<1>3. ASSUME NEW v \in Vehicles, Learn(v)
      PROVE  PlacesKnown'
  <2>1. /\ v \in underway /\ underway' = underway \ {v} /\ UNCHANGED lastSent
        /\ known' = [known EXCEPT ![v] = Fact(lastSent[v])]
    BY <1>3 DEF Learn, fleetVars
  <2>2. lastSent[v] \in Readings
    BY <2>1 DEF FleetTypeOK
  <2>3. Fact(lastSent[v]).place \in Int \X Int
    BY <2>2 DEF Fact, Readings
  <2> QED
    BY <2>1, <2>3
<1>4. ASSUME NEW v \in Vehicles, Miss(v) \/ Reset(v) \/ Stop(v)
      PROVE  PlacesKnown'
  BY <1>4 DEF Miss, Reset, Stop, Disengage, fleetVars
<1>5. ASSUME NEW pickup \in Nodes, NEW party \in Parties, Ride(pickup, party)
      PROVE  PlacesKnown'
  BY <1>5 DEF Ride, fleetVars
<1>6. ASSUME NEW c \in commands, Deliver(c) \/ Lose(c)
      PROVE  PlacesKnown'
  BY <1>6 DEF Deliver, Engage, Lose, fleetVars
<1>7. CASE UNCHANGED vars
  BY <1>7 DEF vars, fleetVars
<1> QED
  BY <1>1, <1>2, <1>3, <1>4, <1>5, <1>6, <1>7 DEF Next

FleetInv == FleetTypeOK /\ RideInv /\ PlacesKnown

LEMMA FleetInvariant == Spec => []FleetInv
<1>1. Init => FleetInv
  BY HomeTypes, RideInit DEF Init, FleetInit, FleetInv, PlacesKnown
<1>2. FleetInv /\ [Next]_vars => FleetInv'
  BY StepTypes, RideStep, StepPlaces DEF FleetInv
<1> QED
  BY <1>1, <1>2, PTL DEF Spec

(* The fleet never leaves its ranges: no index outside a loop, no progress *)
(* beyond a leg, no vehicle off the grid, whatever the commands that       *)
(* overtake each other and whatever the stops and restarts.                *)
THEOREM FleetTypes == Spec => []FleetTypeOK
BY FleetInvariant, PTL DEF FleetInv

(* SoundRides is an invariant: whatever resets, stops, restarts, losses    *)
(* and late commands happen, a command that was sound when it was made is  *)
(* found and driven as planned until one of them interferes.               *)
THEOREM SoundCommandsAreDriven == Spec => []SoundRides
<1>1. FleetInv => SoundRides
  <2> SUFFICES ASSUME RideInv
               PROVE  SoundRides
    BY DEF FleetInv
  <2>1. \A c \in commands : c.sound => Idling(c.vehicle) /\ Head(c.path) = nodeId[c.vehicle]
    BY DEF RideInv, SoundCommand
  <2>2. \A v \in Vehicles : errand[v] # NoVehicle /\ errand[v].sound =>
           /\ Legal(<<nodeId[v]>> \o route[v])
           /\ Last(<<nodeId[v]>> \o route[v]) = errand[v].pickup
    BY DEF RideInv, SoundErrand, Last
  <2> QED
    BY <2>1, <2>2 DEF SoundRides
<1> QED
  BY <1>1, FleetInvariant, PTL

-----------------------------------------------------------------------------
(* The edge filter.                                                        *)

\* What was forwarded last of v is younger than a heartbeat; it says where v is
\* and that it stands there, unless it is from before v came to rest: then v is
\* near the place
Reported(v) ==
    /\ lastSent[v].age < Heartbeat
    /\ lastSent[v].age <= standing[v]
    /\ lastSent[v].age < standing[v] =>
          lastSent[v].place = place[v] /\ lastSent[v].currentState # "driving"
    /\ \/ lastSent[v].place = place[v]
       \/ standing[v] > 0 /\ Near(place[v], lastSent[v].place)

SentInv == \A v \in Vehicles :
    /\ standing[v] > 0 => place[v] = At(nodeId[v])
    /\ lastSent[v] # NoReading => Reported(v)

(* What a tick does to a vehicle that stands after it, and to one that     *)
(* drives on.                                                              *)
LEMMA TickStands ==
    ASSUME FleetTypeOK, FleetTick, NEW v \in Vehicles
    PROVE  /\ Stationary(v) => place'[v] = At(nodeId'[v])
           /\ standing'[v] = IF ~Stationary(v) THEN 0
                             ELSE IF standing[v] < Heartbeat THEN standing[v] + 1 ELSE standing[v]
           /\ ~Stationary(v) <=> currentState'[v] = "driving"
<1> PICK pace \in Drives : Move(pace)
  BY DEF FleetTick
<1>1. FleetTypeOK'
  BY TickTypes
<1>2. ~Stationary(v) <=> currentState'[v] = "driving"
  BY <1>1 DEF Stationary, FleetTypeOK
<1>3. Stationary(v) => place'[v] = At(nodeId'[v])
  BY <1>2 DEF Move
<1> QED
  BY <1>2, <1>3 DEF FleetTick, Count

(* A tick forwards the new reading, or finds the vehicle at rest near what *)
(* the entry says.                                                         *)
LEMMA TickSends ==
    ASSUME FleetTypeOK, SentInv, FleetTick
    PROVE  SentInv'
<1> SUFFICES ASSUME NEW v \in Vehicles
             PROVE  /\ standing'[v] > 0 => place'[v] = At(nodeId'[v])
                    /\ lastSent'[v] # NoReading => Reported(v)'
  BY DEF SentInv
<1>1. /\ standing[v] \in Nat /\ Heartbeat \in Nat \ {0} /\ standing[v] <= Heartbeat
      /\ nodeId[v] \in Nodes /\ nodeId'[v] \in Nodes
  <2>1. FleetTypeOK'
    BY TickTypes
  <2> QED
    BY <2>1, FleetAssumption DEF FleetTypeOK
<1>2. standing'[v] > 0 => Stationary(v) /\ place'[v] = At(nodeId'[v])
  BY TickStands
<1>3. CASE Suppressed(v)
  <2> DEFINE n == lastSent[v].age
  <2>1. /\ lastSent[v] \in Readings /\ Reported(v) /\ Stationary(v)
        /\ Near(place'[v], lastSent[v].place) /\ n + 1 < Heartbeat
    BY <1>3 DEF Suppressed, FleetTypeOK, SentInv
  <2>2. n \in Nat /\ lastSent[v].place \in Int \X Int
    BY <2>1 DEF Readings
  <2>3. lastSent'[v] = [lastSent[v] EXCEPT !.age = n + 1]
    BY <1>3 DEF FleetTick, Filter, Aged
  <2>4. /\ lastSent'[v].age = n + 1 /\ lastSent'[v].place = lastSent[v].place
        /\ lastSent'[v].currentState = lastSent[v].currentState
    BY <2>1, <2>3 DEF Readings
  <2>5. /\ standing'[v] = IF standing[v] < Heartbeat THEN standing[v] + 1 ELSE standing[v]
        /\ place'[v] = At(nodeId'[v])
    BY <2>1, TickStands
  <2>6. n <= standing[v]
    BY <2>1 DEF Reported
  <2> HIDE DEF n
  <2>7. standing'[v] > 0 /\ n + 1 <= standing'[v]
    BY <1>1, <2>1, <2>2, <2>5, <2>6
  <2>8. ASSUME n + 1 < standing'[v]
        PROVE  lastSent[v].place = place'[v] /\ lastSent[v].currentState # "driving"
    <3>1. n < standing[v] /\ standing[v] > 0
      BY <1>1, <2>1, <2>2, <2>5, <2>8
    <3>2. /\ lastSent[v].place = place[v] /\ lastSent[v].currentState # "driving"
          /\ place[v] = At(nodeId[v])
      BY <2>1, <3>1 DEF Reported, SentInv, n
    <3>3. Near(At(nodeId'[v]), At(nodeId[v]))
      BY <2>1, <2>5, <3>2
    <3>4. nodeId'[v] = nodeId[v]
      <4>1. nearestNode(At(nodeId'[v])) = nodeId[v]
        BY <1>1, <3>3, LandmarkIsPlace, NearIsNearest
      <4> QED
        BY <1>1, <4>1, NearestToItself
    <3> QED
      BY <2>5, <3>2, <3>4
  <2> QED
    BY <1>2, <2>1, <2>4, <2>7, <2>8 DEF Reported
<1>4. CASE ~Suppressed(v)
  <2>1. lastSent'[v] = [place |-> place'[v], currentState |-> currentState'[v], age |-> 0]
    BY <1>4 DEF FleetTick, Filter
  <2>2. /\ lastSent'[v].age = 0 /\ lastSent'[v].place = place'[v]
        /\ lastSent'[v].currentState = currentState'[v]
    BY <2>1
  <2>3. standing'[v] > 0 => currentState'[v] # "driving"
    BY <1>2, TickStands
  <2>4. standing'[v] \in Nat
    BY <1>1, TickStands
  <2> QED
    BY <1>1, <1>2, <2>2, <2>3, <2>4 DEF Reported
<1> QED
  BY <1>3, <1>4

(* Whatever else happens leaves all of it alone, or forgets it.            *)
LEMMA OthersSendNothing ==
    ASSUME SentInv, [Next]_vars, ~FleetTick
    PROVE  SentInv'
<1>1. CASE UNCHANGED <<nodeId, place, lastSent, standing>>
  BY <1>1 DEF SentInv, Reported
<1>2. CASE FleetReboot
  BY <1>2 DEF FleetReboot, Reboot, AtHome, SentInv
<1>3. ASSUME NEW v \in Vehicles, Learn(v) \/ Miss(v) \/ Reset(v) \/ Stop(v)
      PROVE  UNCHANGED <<nodeId, place, lastSent, standing>>
  BY <1>3 DEF Learn, Miss, Reset, Stop, Disengage, fleetVars
<1>4. ASSUME NEW pickup \in Nodes, NEW party \in Parties, Ride(pickup, party)
      PROVE  UNCHANGED <<nodeId, place, lastSent, standing>>
  BY <1>4 DEF Ride, fleetVars
<1>5. ASSUME NEW c \in commands, Deliver(c) \/ Lose(c)
      PROVE  UNCHANGED <<nodeId, place, lastSent, standing>>
  BY <1>5 DEF Deliver, Engage, Lose, fleetVars
<1>6. CASE UNCHANGED vars
  BY <1>1, <1>6 DEF vars, fleetVars
<1> QED
  BY <1>1, <1>2, <1>3, <1>4, <1>5, <1>6 DEF Next

(* SentIsCurrent is an invariant: a suppressed arrival never makes the     *)
(* nearest landmark a wrong one, and is corrected within a heartbeat,      *)
(* whatever commands, stops and restarts come in between the ticks.        *)
THEOREM FilterHidesNoMove == Spec => []SentIsCurrent
<1>1. Init => SentInv
  BY DEF Init, FleetInit, AtHome, SentInv
<1>2. FleetTypeOK /\ SentInv /\ [Next]_vars => SentInv'
  BY TickSends, OthersSendNothing
<1>3. FleetTypeOK /\ SentInv => SentIsCurrent
  <2> SUFFICES ASSUME FleetTypeOK, SentInv, NEW v \in Vehicles, lastSent[v] # NoReading
               PROVE  /\ nearestNode(lastSent[v].place) = nearestNode(place[v])
                      /\ standing[v] = Heartbeat =>
                            lastSent[v].place = place[v] /\ lastSent[v].currentState # "driving"
    BY DEF SentIsCurrent
  <2>1. Reported(v) /\ lastSent[v] \in Readings
    BY DEF SentInv, FleetTypeOK
  <2>2. CASE lastSent[v].place = place[v]
    BY <2>1, <2>2 DEF Reported
  <2>3. CASE standing[v] > 0 /\ Near(place[v], lastSent[v].place)
    <3>1. place[v] = At(nodeId[v]) /\ nodeId[v] \in Nodes /\ lastSent[v].place \in Int \X Int
      BY <2>1, <2>3 DEF SentInv, FleetTypeOK, Readings
    <3>2. Near(lastSent[v].place, At(nodeId[v]))
      BY <2>3, <3>1, LandmarkIsPlace, NearIsSymmetric
    <3>3. nearestNode(lastSent[v].place) = nodeId[v] /\ nearestNode(place[v]) = nodeId[v]
      BY <3>1, <3>2, NearIsNearest, NearestToItself
    <3> QED
      BY <2>1, <3>3 DEF Reported
  <2> QED
    BY <2>1, <2>2, <2>3 DEF Reported
<1>4. Spec => []FleetTypeOK
  BY FleetTypes
<1> QED
  BY <1>1, <1>2, <1>3, <1>4, PTL DEF Spec
=============================================================================
