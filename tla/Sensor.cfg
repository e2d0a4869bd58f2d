\* Two workers that may fetch the same payload, two interchangeable sessions, two faults; the sensor may fall silent.
SPECIFICATION Spec
CONSTANTS
    u1 = u1
    u2 = u2
    u3 = u3
    c1 = c1
    c2 = c2
    Sessions = {s1, s2}
    Urls = {u1, u2, u3}
    Contents = {c1, c2}
    Serves <- MCServes
    Guarded = {u3}
    None = None
    MaxFaults = 2
SYMMETRY SessionSymmetry
CHECK_DEADLOCK FALSE
INVARIANTS
    SensorInv
