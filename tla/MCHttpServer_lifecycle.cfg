\* The response life cycle refinement: 3 requests, 2 workers, client resets,
\* stop() at any point.  Enough for a worker's answer, a stream and a reply
\* at once to coexist, and for a reset while a worker holds the pair.
CONSTANTS
    r1 = r1
    r2 = r2
    r3 = r3
    w1 = w1
    w2 = w2
    nil = nil
    Requests <- MCRequests3
    Workers <- MCWorkers2
    MaxTurns = 2
    NoData <- nil
    AbortBeforeResponse = TRUE
SPECIFICATION Spec
PROPERTY LifecycleImplemented
\* The server really stops: after the destructor nothing is enabled.
CHECK_DEADLOCK FALSE
