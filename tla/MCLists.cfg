\* All four lists: two campaigns, two donors, two supporter profiles, while
\* campaigns are created, funded and closed and supporters come and go.
CONSTANTS
    f1 = f1
    u1 = u1
    u2 = u2
    Campaigns = {1, 2}
    Goal <- MCGoal
    Fundraisers = {f1}
    Donors = {1, 2}
    Profiles = {u1, u2}
    Lists <- MCLists
    MaxInt = 7
    MaxPageSize = 2
    Pages = {1, 7}
    Ticks = {0, 1}
    MaxAmount = 1
    MaxWrites = 6
    None = None
SYMMETRY Symmetric
SPECIFICATION Spec
INVARIANTS
    TypeOK
    QuietWalkIsExact
    UnmovedRowsShown
    TotalPagesTellsEmpty
    OffsetIsExact
CHECK_DEADLOCK FALSE
