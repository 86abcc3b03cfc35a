\* stop() posts STOP after setting exit_loop; the loop's while test may see
\* the flag first (before its first h2o_evloop_run or after any wakeup), and
\* the destructor release the relay before STOP is posted: 2 requests, 1
\* worker.
CONSTANTS
    r1 = r1
    r2 = r2
    r3 = r3
    w1 = w1
    w2 = w2
    nil = nil
    Requests <- MCRequests2
    Workers <- MCWorkers1
    MaxTurns = 2
    NoData <- nil
    AbortBeforeResponse = FALSE
SPECIFICATION Spec
INVARIANT NoMessageDropped
\* The server really stops: after the destructor nothing is enabled.
CHECK_DEADLOCK FALSE
