---------------------------- MODULE MCHttpServer ----------------------------
(* Instantiation of HttpServer for TLC.                                     *)
EXTENDS HttpServer, TLC

CONSTANTS r1, r2, r3, w1, w2, nil

MCRequests2 == {r1, r2}
MCRequests3 == {r1, r2, r3}
MCWorkers0 == {}
MCWorkers1 == {w1}
MCWorkers2 == {w1, w2}
=============================================================================
