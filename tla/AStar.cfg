\* All metrics with distances 1 and 2 on five landmarks and all choices of
\* seven roads.  A search that has returned takes no further step.
SPECIFICATION FairSpec
CONSTANTS
    n1 = n1
    n2 = n2
    n3 = n3
    n4 = n4
    n5 = n5
    Nodes = {n1, n2, n3, n4, n5}
    Roads <- MCRoads
    Trips <- MCTrips
    MaxKm = 2
CHECK_DEADLOCK FALSE
INVARIANTS
    TypeOK
    ReturnsShortest
    CameFromTight
    Certified
PROPERTIES
    ClosedIsFinal
    Terminates
