\* Webhooks on pages of two, two callers of one GitHub client, three fixtures,
\* two reviews at a price, and a small tree with a link out of it.
CONSTANTS
    PageSize = 2
    MaxPages = 3
    GithubPages = 2
    Callers = {g1, g2}
    Scopes = {s1, s2}
    Lifetime = 3
    Margin = 1
    MaxNow = 5
    Spots = {"a", "b"}
    Fixtures <- MCFixtures
    MaxFindings = 2
    Latencies = {1, 8}
    Baselines <- MCBaselines
    Verifier = TRUE
    Operators = {o1, o2}
    FirstHooks <- MCHooks
    MaxHooks = 4
    Reviews = {r1, r2}
    PrOf <- MCPrOf
    Provided = {"reasoning", "embedding"}
    ModelOf <- MCModelOf
    DefaultPrices <- MCDefaults
    Overrides <- MCOverrides
    Amounts <- MCAmounts
    U32Max = 5
    MaxCalls = 2
    Nodes <- MCNodes
    Node <- MCNode
    Requests <- MCRequests
    SkippedNames = {"target"}
    ReadCap = 2
    FileCap = 4
    MaxHits = 2
    MaxDepth = 2
    Settings <- MCSettings
    MaxTokens = 2
    MaxChanges = 1
SYMMETRY Symmetry
SPECIFICATION Spec
INVARIANTS HooksAccounted TokenFitsUse BenchAddsUp CostIsOwn ValidatedIsInForce ToolsTellTheTruth ProbedWorks
CHECK_DEADLOCK FALSE
