------------------------------- MODULE MCAStar -------------------------------
(* A small instance of AStar for TLC.                                      *)
EXTENDS AStar

CONSTANTS n1, n2, n3, n4, n5

\* Two ways from n1 to n4, which the goal n5 lies behind, a way across and a
\* way past n4; each road may be there or not
MCRoads == {{n1, n2}, {n1, n3}, {n2, n3}, {n2, n4}, {n3, n4}, {n4, n5}, {n3, n5}}

MCTrips == {<<n1, n5>>, <<n1, n1>>}
=============================================================================
