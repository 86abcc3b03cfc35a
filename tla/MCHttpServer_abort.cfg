\* A client reset (HTTP/2 RST_STREAM) of a request handed to a worker: 2
\* requests, 2 workers.  The worker's late answer is written to the
\* h2o_req_t the transport has already disposed.
CONSTANTS
    r1 = r1
    r2 = r2
    r3 = r3
    w1 = w1
    w2 = w2
    nil = nil
    Requests <- MCRequests2
    Workers <- MCWorkers2
    MaxTurns = 2
    NoData <- nil
    AbortBeforeResponse = TRUE
SPECIFICATION Spec
PROPERTY NoWriteAfterRelease
\* The server really stops: after the destructor nothing is enabled.
CHECK_DEADLOCK FALSE
