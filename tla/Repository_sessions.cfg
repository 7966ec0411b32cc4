\* Two sessions publishing files at the same time, crashing and failing.
CONSTANTS
    Absent = Absent
    NullMark = NullMark
    Torn = Torn
    UUID = {u1}
    Content = {c1, c2}
    Session = {s1, s2}
    MaxDepth = 1
    Faults = {"io_error", "io_error_at_end", "crash"}
SPECIFICATION Spec
SYMMETRY Symmetry
INVARIANTS OnlyCommittedContent
PROPERTIES OnlyRootsPublish
