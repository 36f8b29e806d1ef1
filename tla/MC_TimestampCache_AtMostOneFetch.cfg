CONSTANTS
    k1 = k1  k2 = k2  k3 = k3
    t1 = t1  t2 = t2
    v1 = v1  v2 = v2
    Callers <- MCCallers
    Timestamps <- MCTimestamps
    Values <- MCValues
    MaxSets = 1
    NoCell = NoCell
    None = None
    Err = Err
SYMMETRY MCSymmetry
SPECIFICATION Spec
INVARIANT AtMostOneFetch
