SPECIFICATION FairSpec
CONSTANTS
    ann = ann
    g1 = g1
    g2 = g2
    c1 = c1
    r1 = r1
    r2 = r2
    None = None
    User = {ann}
    Group = {g1, g2}
    MaxPosts = 3
    Req = {r1, r2}
    Reader = {c1}
    Tags = {None}
    Kind = {}
    Meant = {}
    Limits <- MCLimits
    Cursors <- MCCursors
    DefaultFeedLimit = 2
    MaxFeedLimit = 2
INVARIANTS
    NothingMissed
    PagesDescend
PROPERTIES
    FeedStaysInside
    PagingEnds
