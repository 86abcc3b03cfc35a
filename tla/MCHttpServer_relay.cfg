\* The relay refinement: 3 requests, 2 workers, client resets, stop() at
\* any point.  Enough for two workers' messages to meet in one batch and
\* for a worker to post while the destructor drains.
CONSTANTS
    r1 = r1
    r2 = r2
    r3 = r3
    w1 = w1
    w2 = w2
    nil = nil
    Requests <- MCRequests3
    Workers <- MCWorkers2
    MaxTurns = 2
    NoData <- nil
    AbortBeforeResponse = TRUE
SPECIFICATION Spec
PROPERTY RelayImplemented
\* The server really stops: after the destructor nothing is enabled.
CHECK_DEADLOCK FALSE
