SPECIFICATION Spec
CONSTANTS
    ann = ann
    ben = ben
    g1 = g1
    m1 = m1
    versprecher = versprecher
    r1 = r1
    r2 = r2
    None = None
    User = {ann, ben}
    Group = {g1}
    MaxPosts = 2
    Req = {r1, r2}
    Reader = {}
    Tags = {ann, ben, None}
    Kind = {versprecher}
    Meant = {m1}
    Limits = {}
    Cursors = {}
    DefaultFeedLimit = 2
    MaxFeedLimit = 2
SYMMETRY Symmetric
INVARIANTS
    TypeOK
    WrittenInside
PROPERTIES
    AuthorDecides
