\* Liveness of the request life cycle and of stop(): 2 requests, 2 workers,
\* no client resets (with resets a worker's stream_response on a disposed
\* request installs a generator h2o never proceeds: see the abort run).
CONSTANTS
    r1 = r1
    r2 = r2
    r3 = r3
    w1 = w1
    w2 = w2
    nil = nil
    Requests <- MCRequests2
    Workers <- MCWorkers2
    MaxTurns = 2
    NoData <- nil
    AbortBeforeResponse = FALSE
SPECIFICATION Spec
PROPERTY RequestCompletes
PROPERTY StopEndsLoop
\* The server really stops: after the destructor nothing is enabled.
CHECK_DEADLOCK FALSE
