SPECIFICATION FairSpec
CONSTANTS
    Gates = {g1, g2}
    UpGate = g2
    Socks = {s1, s2}
    None = None
    Calls = {k1}
    Tolerance = 2
INVARIANTS NoLeak ConnNotDead ClosedForGood
PROPERTIES Recovers BlackHoleLeft CallsEnd CloseEnds
CHECK_DEADLOCK FALSE
