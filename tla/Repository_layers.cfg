\* One session, three transactions deep: what it reads, and what its commits leave.
CONSTANTS
    Absent = Absent
    NullMark = NullMark
    Torn = Torn
    UUID = {u1}
    Content = {c1, c2}
    Session = {s1}
    MaxDepth = 3
    Faults = {"io_error"}
SPECIFICATION Spec
SYMMETRY Symmetry
INVARIANTS TypeOK TransactionsWellFormed NoClearedParent SessionSeesItsWork FilesFollowRows
PROPERTIES ImplementsBlobStore
