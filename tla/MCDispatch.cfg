\* Route resolution, auth gate and handler parameters of catch_all_handler:
\* two routes (any method, four patterns, answered at once), two-field query strings.
CONSTANTS
    none = none
    NoOutcome <- none
    Values = {"a", "b"}
    ParamNames = {"id"}
    QueryKeys = {"id", "key"}
    RawValues = {"k1", "%6B1"}
    Fields <- MCFields
    PercentDecoding <- MCPercentDecoding
    AuthHeader = "key"
    Credentials = {"k1", "k2"}
    Authenticated <- MCAuthenticated
    RoutePatterns <- MCRoutePatterns
    ReqMethods = {"GET", "DELETE", "OPTIONS"}
    ReqPaths <- MCReqPaths
    AsyncFlags = {FALSE}
    MaxRoutes = 2
    MaxQueryFields = 2
SPECIFICATION Spec
INVARIANT RouteResolution
INVARIANT AuthGate
INVARIANT HandlerParams
