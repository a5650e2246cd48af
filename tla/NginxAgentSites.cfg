SPECIFICATION FairAgentSpec
CONSTANTS
    None = None
    pw = pw
    Slugs = {a, b}
    Routes <- TwoRoutes
    Materials = {m1, m2}
    Handlers = {h1, h2}
    MaxRequests = 3
    MaxFaults = 1
INVARIANTS
    SettledIsServed
    PairAgrees
PROPERTIES
    AnswersAreTrue
    RequestsAnswered
CHECK_DEADLOCK FALSE
