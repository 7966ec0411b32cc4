\* A rollback leaves what it undid in the queue.
CONSTANTS
    Absent = Absent
    Object = {o1, o2}
    Value = {v1, v2}
    MaxDepth = 2
    MaxQueue = 3
SPECIFICATION Spec
SYMMETRY Symmetry
INVARIANT IndexAlwaysFollowsRows
