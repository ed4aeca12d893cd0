CONSTANTS
    Object = {o1, o2}
    Foreign = foreign
    Decodable = {TRUE, FALSE}
    MaxChanges = 2
    ListSemantic = "MostRecent"
    GoneAs = "event"
    Bookmarks = TRUE
    Reader = {r1, r2}
    Nobody = Nobody
SPECIFICATION RFairSpec
INVARIANTS
    StoreIsSnapshot
    CachedIsReported
PROPERTIES
    NeverGoesBack
    Converges
    ReadersAreReleased
