\* Safety of the request life cycle with client resets: 3 requests, 2
\* workers, 2 proceed turns.  Responses stay well formed, pairs are
\* deleted at most once and held by one owner at a time even when a client
\* resets a pending request, and the listener is closed before teardown.
CONSTANTS
    r1 = r1
    r2 = r2
    r3 = r3
    w1 = w1
    w2 = w2
    nil = nil
    Requests <- MCRequests3
    Workers <- MCWorkers2
    MaxTurns = 2
    NoData <- nil
    AbortBeforeResponse = TRUE
SPECIFICATION Spec
INVARIANT ResponseWellFormed
INVARIANT FreedAtMostOnce
INVARIANT PairOwnedOnce
INVARIANT TeardownOrder
\* The server really stops: after the destructor nothing is enabled.
CHECK_DEADLOCK FALSE
