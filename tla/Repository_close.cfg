\* A session is closed without a commit while files are staged.
CONSTANTS
    Absent = Absent
    NullMark = NullMark
    Torn = Torn
    UUID = {u1}
    Content = {c1}
    Session = {s1}
    MaxDepth = 2
    Faults = {"close_staged"}
SPECIFICATION Spec
INVARIANT OnlyCommittedContent
