SPECIFICATION ServicesSpec
CONSTANTS
    Sweepers = {w1, w2}
    Resolvers = {v1}
    Operators = {o1}
    Plans = {"starter", "growth"}
    FirstPlan = "starter"
    ResolveTTL = 2
    ResolveDelay = 1
    Processes = {p1, p2}
    Meters = {m1}
    LastMonth = 2
    DaysIn <- MCDaysIn
    MinCalls = 2
    MaxOver = 3
    k1 = k1
    k2 = k2
    k3 = k3
    Channels = {k1, k2, k3}
    Savers = {s1, s2}
    Type <- MCType
    Integrations = {"slack", "pagerduty"}
    LimitValues <- MCValues
    TopLimit = 1
    Checkouts = {c1, c2}
    NaN = NaN
    Amounts <- MCAmounts
    Totals <- MCTotals
    MaxSpend = 1
    Limits <- MCLimits
    Default <- MCDefault
    LastDay = 2
    Deliveries = {d1, d2}
    Requests = {q1}
    Tenants = {t1, t2}
    Target = t1
    Freshness = 2
    KeyTTL = 2
    LastTime = 6
    Lookups = {l1}
    Admins = {x1}
    Entries <- MCEntries
    Width = 2
    CacheTTL = 2
    MaxDelay = 1
    g1 = g1
    g2 = g2
    a1 = a1
    Runs = {g1, g2}
    ApprovalIds = {a1}
    IdOf <- MCIdOf
    Deciders = {y1, y2}
INVARIANTS
    ServiceTypes
    SuspensionJustified
    ChargesAccounted
    OvershootBounded
    DailySpendBounded
    AcceptedOnce
    AllowlistFollowed
    VerdictsAccounted
    RunsAreHonest
SYMMETRY MCSymmetry
CHECK_DEADLOCK FALSE
