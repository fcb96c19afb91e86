CONSTANTS
    n1 = n1
    n2 = n2
    o1 = o1
    o2 = o2
    q1 = q1
    q2 = q2
    None = None
    Answers <- MCAnswers
    Events <- MCEvents
    Usages <- MCUsages
    Reads = {"r1", "r2"}
    Ids = {"codex", "codex_code_review", "extra"}
    MaxGroups = 2
    MaxQuotaTime = 2
    MaxSent = 2
    MaxLogins = 2
    Nothing = Nothing
    Keys = {"k1", "k2"}
    EntryLists <- MCEntryLists
    Callers = {"q1", "q2"}
    MaxChanges = 2
    MaxDigests = 2
    Browsers = {"b1", "b2"}
    Visits = {"v1"}
    Users <- MCUsers
    Settings <- MCSettings
    Pkce = FALSE
    LoginTtl = 1
    DiscoveryTtl = 1
    MaxTime = 1
    MaxAttempts = 2
    Configurations <- MCConfigurations
    Types = {"codex", "xai"}
    Refs = {"r1"}
    Calls = {"c1", "c2"}
    MaxVersions = 2
    Nodes = {n1, n2}
    Owners = {o1, o2}
    Configs <- Revised
    Requests = {q1, q2}
    Threshold = 2
    Window = 1
    Cooldown = 1
    Limits <- Bounds
SPECIFICATION MCSpec
INVARIANTS GroupIsSound AdmittedHaveSignedIn StartsAsSeen
PROPERTIES GroupStepsAreJust NothingIsStale
CHECK_DEADLOCK FALSE
