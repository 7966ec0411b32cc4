\* Two sessions and two entities.
CONSTANTS
    s1 = s1
    s2 = s2
    e1 = e1
    e2 = e2
    m1 = m1
    Session = {s1, s2}
    Entity = {e1, e2}
    Column = {"title", "password", "note"}
    ColumnValue <- MCColumnValue
    Hidden = {"password"}
    Falsy = {"null", "empty"}
    Large = {"long"}
    Member = {m1}
    NeverSet = NeverSet
    Mask = Mask
    LargeMark = LargeMark
    None = None
    Unborn = Unborn
    Gone = Gone
    NewRow <- MCNewRow
    Work <- MCWork
    Deletable = {e1}
    Assigned <- MCAssigned
    Collected <- MCCollected
SPECIFICATION Spec
INVARIANTS TypeOK TransactionsTell TrailTellsRows FlagIsHeld
