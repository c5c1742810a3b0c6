SPECIFICATION DataSpec
CONSTANTS
    LinkRequests = {editor1, editor2}
    LinkEditors = {editor1, editor2}
    LinkDays = 2
    ReviewUsers = {admin, analyst, viewer}
    ReviewAdmins = {admin}
    ReviewViewers = {viewer}
    Nobody = Nobody
    Curators = {curator1, curator2}
    Contents = {x, y}
    MaxItems = 2
    Syncs = {s1, s2}
    Patchers = {p1}
    MaxUniverses = 2
    MaxTickers = 2
    ProfileLimit = 1
    StoreTasks = {store1, store2}
    MaxKeys = 2
    Retention = 2
    LastHour = 4
INVARIANTS
    DataTypeOK
    RevocationHolds
    DecisionStands
    DeletionsAreLogged
    AppendedLast
    EntriesMatchRow
    OneManagedUniverse
    NoDangling
CHECK_DEADLOCK FALSE
