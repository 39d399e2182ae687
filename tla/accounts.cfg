\* Two clients, three users; each behaviour exercises one part of the module.
SPECIFICATION MCSpec
CONSTANTS
    Client = {c1, c2}
    User = {u1, u2, u3}
    Code = {k1, k2}
    Share = {s1}
    Quota = {1, 2}
    Unlimited = Unlimited
    None = None
    MaxFailed = 2
    MaxPending = 1
    MaxId = 2
    MaxCount = 2
    Registrant = u3
SYMMETRY Symmetry
INVARIANTS
    TypeOK
    AttemptsBounded
    DownloadsWithinLimit
PROPERTY
    ApprovalIsExact
