\* One session, two transactions deep: what its commits send to the index.
CONSTANTS
    Absent = Absent
    Object = {o1, o2}
    Value = {v1, v2}
    MaxDepth = 2
    MaxQueue = 3
SPECIFICATION Spec
SYMMETRY Symmetry
INVARIANTS TypeOK IndexFollowsRows QueueCoversChanges
PROPERTY OnlyCommittedRowsIndexed
