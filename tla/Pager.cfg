CONSTANTS
    NoValue = NoValue
    Users = {u1, u2}
    RowCount = 3
    PageSize = 2
    MaxAlters = 2
    MaxFailures = 2
    MaxEvictions = 1
SPECIFICATION PagerFairSpec
INVARIANTS PagesInOrder EndMeansAll
PROPERTIES MetadataIdCatchesUp
