\* No write after release when clients do not reset pending requests: 3
\* requests, 2 workers, 2 proceed turns.  (MCHttpServer_abort.cfg is the
\* same question with resets.)
CONSTANTS
    r1 = r1
    r2 = r2
    r3 = r3
    w1 = w1
    w2 = w2
    nil = nil
    Requests <- MCRequests3
    Workers <- MCWorkers2
    MaxTurns = 2
    NoData <- nil
    AbortBeforeResponse = FALSE
SPECIFICATION Spec
PROPERTY NoWriteAfterRelease
\* The server really stops: after the destructor nothing is enabled.
CHECK_DEADLOCK FALSE
