\* Two workers and a reindexing beside the applications.
CONSTANTS
    Absent = Absent
    Object = {o1, o2}
    Value = {v1, v2}
    Worker = {w1, w2}
    Strategies = {"single_transaction", "progressive_mode"}
    BatchSizes = {1}
    MaxChanges = 2
    MaxAbandoned = 1
SPECIFICATION Spec
INVARIANTS TypeOK IndexCatchesUp OneDocumentPerObject
PROPERTY TasksAreRun
CHECK_DEADLOCK FALSE
