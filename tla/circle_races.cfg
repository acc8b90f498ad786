SPECIFICATION Spec
CONSTANTS
    ann = ann
    ben = ben
    cem = cem
    dan = dan
    g1 = g1
    i1 = i1
    r1 = r1
    r2 = r2
    None = None
    User = {ann, ben, cem, dan}
    Group = {g1}
    Invite = {i1}
    Req = {r1, r2}
    MaxMembers = 2
    RequireEmailVerification = TRUE
    Addresses = {None}
    Faults = TRUE
SYMMETRY Symmetric
CHECK_DEADLOCK FALSE
INVARIANTS
    TypeOK
    HandlersConsistent
    TablesConsistent
    InvitationChainRooted
    MembershipRooted
    OvershootBounded
    BootstrapBounded
    VerifiedHaveGroup
    AcceptedMeansJoined
    TokenNotLost
PROPERTIES
    KeepsTrust
