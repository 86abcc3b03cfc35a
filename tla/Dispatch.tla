------------------------------ MODULE Dispatch ------------------------------
(***************************************************************************)
(* The route table of HttpServer and the decision catch_all_handler takes *)
(* for one request (src/src/http_server.cpp): CORS preflight, parse_query, *)
(* the credential, the first matching route, the auth handler and the      *)
(* path parameters merged into the query map.  Strings are abstracted to   *)
(* small sets: a path is already split into its segments, a query string  *)
(* into its '&'-separated fields.                                          *)
(***************************************************************************)
EXTENDS Naturals, Sequences, SequencesExt

CONSTANTS
    Values,            \* literal path segments and path parameter values
    ParamNames,        \* names of ":name" route segments
    QueryKeys,         \* keys matched by ([\w+%-]+)
    RawValues,         \* raw query values, before url_decode
    Fields,            \* the query fields requests are made of
    PercentDecoding,   \* url_decode of the percent-encoded raw values
    AuthHeader,        \* AUTH_HEADER, also looked up as a query key
    Credentials,       \* values a client may send as the credential
    Authenticated(_, _), \* the auth handler set by set_auth_handler
    RoutePatterns,     \* paths passed to get/post/put/del, split on "/"
    AsyncFlags,        \* async arguments passed to get/post/put/del
    ReqMethods,        \* methods of incoming requests
    ReqPaths,          \* paths of incoming requests, split on "/"
    MaxRoutes,         \* bound: routes registered
    MaxQueryFields,    \* bound: fields of one query string
    NoOutcome          \* no request handled yet

\* A segment of a registered path: a literal or a ":name" capture.
Segment == [kind : {"lit"}, val : Values] \cup [kind : {"param"}, val : ParamNames]
Route == [method : {"GET", "POST", "PUT", "DELETE"},
          parts : Seq(Segment), async : BOOLEAN]

\* A field of the query string: a key=value match of the regex, or text
\* the regex does not match.
Junk == [kind |-> "junk"]
Field == [kind : {"pair"}, key : QueryKeys, raw : RawValues] \cup {Junk}
QueryStrings == BoundedSeq(Fields, MaxQueryFields)

ASSUME DispatchAssumption ==
    /\ AuthHeader \in QueryKeys
    /\ DOMAIN PercentDecoding \subseteq RawValues
    /\ Fields \subseteq Field
    /\ AsyncFlags \subseteq BOOLEAN
    /\ MaxRoutes \in Nat
    /\ MaxQueryFields \in Nat

\* What the transport hands catch_all_handler.
Request == [method : ReqMethods, parts : ReqPaths, query : QueryStrings,
            authHeader : Credentials \cup {NoOutcome}, aclHeader : BOOLEAN]

VARIABLES
    routes,       \* HttpServer::routes, in registration order
    corsEnabled,  \* HttpServer::cors_enabled (constructor argument)
    last          \* the last request handled and what the server did

vars == <<routes, corsEnabled, last>>

-----------------------------------------------------------------------------
(* The code.                                                               *)

EmptyMap == [k \in {} |-> k]

\* m with k set to v (std::map operator[] assignment).
Put(m, k, v) == [x \in DOMAIN m \cup {k} |-> IF x = k THEN v ELSE m[x]]

\* StringUtils::url_decode on a raw value.
url_decode(raw) ==
    IF raw \in DOMAIN PercentDecoding THEN PercentDecoding[raw] ELSE raw

\* parse_query: each regex match is decoded; a repeated key gets the new
\* value appended after "&&".
parse_query(query) ==
    LET pairs == SelectSeq(query, LAMBDA f : f # Junk)
        acc[i \in 0..Len(pairs)] ==
           IF i = 0 THEN EmptyMap
           ELSE LET m == acc[i - 1]
                    k == pairs[i].key
                    v == url_decode(pairs[i].raw)
                IN  IF k \in DOMAIN m THEN Put(m, k, m[k] \o "&&" \o v)
                                      ELSE Put(m, k, v)
    IN  acc[Len(pairs)]

\* Mutant: the query parameter looked up before the header.
AuthKey_query_first(r, queryMap) ==
    IF AuthHeader \in DOMAIN queryMap THEN queryMap[AuthHeader]
    ELSE IF r.authHeader # NoOutcome THEN r.authHeader
    ELSE ""

\* The credential: the AUTH_HEADER header, else the query parameter.
AuthKey(r, queryMap) ==
    IF r.authHeader # NoOutcome THEN r.authHeader
    ELSE IF AuthHeader \in DOMAIN queryMap THEN queryMap[AuthHeader]
    ELSE ""

\* A route part matches unless it differs from the given part and is not
\* a ":" capture.
PartMatches(rpart, given) == rpart.kind = "param" \/ rpart.val = given

\* Mutant: the route loop without the method comparison.
FirstMatch_any_method(rts, method, parts) ==
    LET scan[i \in 1..Len(rts) + 1] ==
          IF i > Len(rts) THEN 0
          ELSE IF /\ Len(rts[i].parts) = Len(parts)
                  /\ \A j \in 1..Len(parts) : PartMatches(rts[i].parts[j], parts[j])
               THEN i
               ELSE scan[i + 1]
    IN  scan[1]

\* The loop over routes: skip a route whose size or method differs, leave
\* the inner loop at the first part that does not match (the goto), and
\* stop at the first route all of whose parts match.  0: none matched.
FirstMatch(rts, method, parts) ==
    LET scan[i \in 1..Len(rts) + 1] ==
          IF i > Len(rts) THEN 0
          ELSE IF /\ Len(rts[i].parts) = Len(parts)
                  /\ rts[i].method = method
                  /\ \A j \in 1..Len(parts) : PartMatches(rts[i].parts[j], parts[j])
               THEN i
               ELSE scan[i + 1]
    IN  scan[1]

\* Mutant: path parameters assigned with operator[] instead of emplace.
WithPathParams_overwrites(queryMap, rpath, parts) ==
    LET acc[i \in 0..Len(rpath.parts)] ==
          IF i = 0 THEN queryMap
          ELSE LET m == acc[i - 1]
                   p == rpath.parts[i]
               IN  IF p.kind = "param" THEN Put(m, p.val, parts[i]) ELSE m
    IN  acc[Len(rpath.parts)]

\* Path parameters are inserted with emplace: an existing key (a query
\* parameter, or an earlier capture of the same name) is kept.
WithPathParams(queryMap, rpath, parts) ==
    LET acc[i \in 0..Len(rpath.parts)] ==
          IF i = 0 THEN queryMap
          ELSE LET m == acc[i - 1]
                   p == rpath.parts[i]
               IN  IF p.kind = "param" /\ p.val \notin DOMAIN m
                     THEN Put(m, p.val, parts[i])
                     ELSE m
    IN  acc[Len(rpath.parts)]

\* catch_all_handler: what the server does with request r.
catch_all_handler(r) ==
    LET queryMap == parse_query(r.query)
        key == AuthKey(r, queryMap)
        i == FirstMatch(routes, r.method, r.parts)
    IN  IF corsEnabled /\ r.method = "OPTIONS" /\ r.aclHeader
          THEN [kind |-> "preflight", status |-> 200]
        ELSE IF i = 0
          THEN [kind |-> "not_found", status |-> 404]
        ELSE IF ~Authenticated(routes[i], key)
          THEN [kind |-> "unauthorized", status |-> 401, route |-> i]
        ELSE [kind |-> "handled", route |-> i,
              params |-> WithPathParams(queryMap, routes[i], r.parts),
              sent |-> ~routes[i].async]

-----------------------------------------------------------------------------

Init ==
    /\ routes = <<>>
    /\ corsEnabled \in BOOLEAN
    /\ last = NoOutcome

\* get/post/put/del: split the path and append the route.  The application
\* registers its routes before the server handles requests.
AddRoute(method, path, async) ==
    /\ last = NoOutcome
    /\ Len(routes) < MaxRoutes
    /\ routes' = Append(routes, [method |-> method, parts |-> path, async |-> async])
    /\ UNCHANGED <<corsEnabled, last>>

get(path, async) == AddRoute("GET", path, async)
post(path, async) == AddRoute("POST", path, async)
put(path, async) == AddRoute("PUT", path, async)
del(path, async) == AddRoute("DELETE", path, async)

\* The transport delivers a request to catch_all_handler.
Handle(r) ==
    /\ last = NoOutcome
    /\ last' = [req |-> r, out |-> catch_all_handler(r)]
    /\ UNCHANGED <<routes, corsEnabled>>

\* catch_all_handler returns; the next request can be handled.
Return ==
    /\ last # NoOutcome
    /\ last' = NoOutcome
    /\ UNCHANGED <<routes, corsEnabled>>

Next ==
    \/ \E path \in RoutePatterns, async \in AsyncFlags :
          get(path, async) \/ post(path, async) \/ put(path, async) \/ del(path, async)
    \/ \E r \in Request : Handle(r)
    \/ Return

Spec == Init /\ [][Next]_vars

-----------------------------------------------------------------------------
(* The contract of spec sections 4.1 to 4.4, stated without the code's     *)
(* loops.                                                                  *)

\* The request path is an instance of the route's pattern.
Matches(rt, r) ==
    /\ rt.method = r.method
    /\ Len(rt.parts) = Len(r.parts)
    /\ \A j \in 1..Len(r.parts) :
          rt.parts[j].kind = "lit" => rt.parts[j].val = r.parts[j]

MatchingRoutes(r) == {i \in 1..Len(routes) : Matches(routes[i], r)}

IsPreflight(r) == corsEnabled /\ r.method = "OPTIONS" /\ r.aclHeader

\* The decoded values sent for key k, in order, joined with "&&".
QueryValue(q, k) ==
    LET sel == SelectSeq(q, LAMBDA f : f # Junk /\ f.key = k)
        vals == [i \in 1..Len(sel) |-> url_decode(sel[i].raw)]
    IN  FoldLeft(LAMBDA a, b : a \o "&&" \o b, Head(vals), Tail(vals))

QueryKeysSent(q) == {q[i].key : i \in {j \in 1..Len(q) : q[j] # Junk}}

Credential(r) ==
    IF r.authHeader # NoOutcome THEN r.authHeader
    ELSE IF AuthHeader \in QueryKeysSent(r.query) THEN QueryValue(r.query, AuthHeader)
    ELSE ""

\* The parameters a handler must see: every query key with its joined
\* value, and every capture name that is not a query key bound to the
\* segment of its first capture.
ExpectedParams(rt, r) ==
    LET qkeys == QueryKeysSent(r.query)
        caps == {rt.parts[j].val : j \in {i \in 1..Len(rt.parts) : rt.parts[i].kind = "param"}}
        firstCap(k) == CHOOSE j \in 1..Len(rt.parts) :
                          /\ rt.parts[j] = [kind |-> "param", val |-> k]
                          /\ \A i \in 1..j - 1 : rt.parts[i] # rt.parts[j]
    IN  [k \in qkeys \cup caps |->
           IF k \in qkeys THEN QueryValue(r.query, k) ELSE r.parts[firstCap(k)]]

-----------------------------------------------------------------------------
(* Properties.                                                             *)

\* A CORS preflight is answered before routing; otherwise a request is
\* resolved to the earliest registered route it is an instance of
\* (registration order is the tie-break), and gets 404 only when no route
\* matches.
RouteResolution ==
    last # NoOutcome =>
      LET r == last.req  o == last.out  M == MatchingRoutes(r) IN
      /\ (o.kind = "preflight") <=> IsPreflight(r)
      /\ (o.kind = "not_found") <=> (~IsPreflight(r) /\ M = {})
      /\ o.kind \in {"handled", "unauthorized"} =>
            /\ o.route \in M
            /\ \A i \in M : o.route <= i

\* A handler runs only if the auth handler accepts, for the route that was
\* resolved, the credential taken from the header or else from the query
\* parameter of the same name; a rejected credential gets 401.
AuthGate ==
    last # NoOutcome /\ last.out.kind \in {"handled", "unauthorized"} =>
      (last.out.kind = "handled") <=>
         Authenticated(routes[last.out.route], Credential(last.req))

\* The handler sees the query parameters, repeated keys joined with "&&",
\* and the path captures whose name is not already a query key.
HandlerParams ==
    last # NoOutcome /\ last.out.kind = "handled" =>
      last.out.params = ExpectedParams(routes[last.out.route], last.req)

=============================================================================
