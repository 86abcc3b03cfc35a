----------------------------- MODULE MCDispatch -----------------------------
(* Instantiation of Dispatch for TLC.                                       *)
EXTENDS Dispatch, TLC

CONSTANTS none

Lit(v) == [kind |-> "lit", val |-> v]
Cap(n) == [kind |-> "param", val |-> n]

\* "/a", "/:id", "/a/:id", "/:id/:id"
MCRoutePatterns == {<<Lit("a")>>, <<Cap("id")>>, <<Lit("a"), Cap("id")>>,
                    <<Cap("id"), Cap("id")>>}
MCReqPaths == {<<"a">>, <<"b">>, <<"a", "b">>, <<"b", "a">>}
\* Query fields: id=k1, key=k1, key=%6B1 (decodes to k1), text without "=".
MCFields == {[kind |-> "pair", key |-> "id", raw |-> "k1"],
             [kind |-> "pair", key |-> "key", raw |-> "k1"],
             [kind |-> "pair", key |-> "key", raw |-> "%6B1"], Junk}
MCPercentDecoding == [x \in {"%6B1"} |-> "k1"]

\* The full key k1 opens every route, the search-only key k2 GET routes.
MCAuthenticated(rt, key) == key = "k1" \/ (key = "k2" /\ rt.method = "GET")
=============================================================================
