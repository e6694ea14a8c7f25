SPECIFICATION LoginSpec
CONSTANTS
    Proc = {p1, p2}
    NoProc = NoProc
    Cwd = Cwd
    Parent = Parent
    None = None
    Malformed = Malformed
    Dir = {d1}
    Id = {s1}
    Orphans = {}
    Torn = Torn
    Task = {t1, t2}
    MaxTokens = 2
    MaxFlows = 2
    MaxTime = 3
    Legacy = {l1}
    Added = {n1, n2}
    Model = {"a", "b"}
    Level = {"low", "high"}
    Url = {"u1", "u2"}
    Releases <- ThreeReleases
    OwnUrl = "mine"
    Names = {"catalog", "own"}
    Builtin = {a, x}
    Custom = {c}
    ApiKey = {a}
    OAuth = {x}
    Lazy = {x}
    First = a
    Env = {}
    Secret = {k1, k2}
    EnvKey = EnvKey
CHECK_DEADLOCK FALSE
INVARIANT LoginConnects
