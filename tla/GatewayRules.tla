---------------------------- MODULE GatewayRules ----------------------------
(***************************************************************************)
(* services/security-gateway without its state: what lets a request pass   *)
(* (security.js), where it is forwarded (proxy.js) and in which order      *)
(* index.js asks.  A request is abstracted to what these rules tell apart. *)
(***************************************************************************)
EXTENDS Integers, Sequences

CONSTANT Config  \* loadConfig(): jwtAuthEnabled, the two IP lists, the limit

ASSUME ConfigAssumption ==
  /\ Config.jwtAuthEnabled \in BOOLEAN
  /\ Config.rateLimitMaxRequests \in Nat \ {0} /\ Config.rateLimitWindow \in Nat \ {0}

None == "none"

-----------------------------------------------------------------------------
(* proxy.js                                                                *)

\* A path is a base and whether something follows it.
ROUTES ==
  {[name |-> "telemetry",   methods |-> {"POST"}, base |-> "/telemetry", deep |-> FALSE,
    target |-> "ingestion"],
   [name |-> "api-ingest",  methods |-> {"POST"}, base |-> "/api/ingest", deep |-> FALSE,
    target |-> "ingestion"],
   [name |-> "dso-grid-signal", methods |-> {"POST"}, base |-> "/dso/grid-signal", deep |-> FALSE,
    target |-> "ieee20305"],
   [name |-> "dispatch-proposals", methods |-> {"GET"}, base |-> "/dispatch/proposals",
    deep |-> TRUE, target |-> "aggregator"],
   [name |-> "approvals", methods |-> {"GET", "POST"}, base |-> "/approvals", deep |-> TRUE,
    target |-> "approval"],
   [name |-> "mock-dispatch", methods |-> {"GET"}, base |-> "/mock-dispatch", deep |-> TRUE,
    target |-> "mockDispatch"],
   [name |-> "dataspace", methods |-> {"GET", "POST"}, base |-> "/dataspace", deep |-> TRUE,
    target |-> "dataspace"],
   [name |-> "device-command", methods |-> {"GET"}, base |-> "/device-command", deep |-> TRUE,
    target |-> "deviceCommand"]}

\* At most one route matches.
findRoute(path) == {r \in ROUTES : r.base = path.base /\ (path.deep => r.deep)}

resolveRoute(method, path) ==
  {[allowed |-> method \in r.methods, target |-> r.target] : r \in findRoute(path)}

target(request) == (CHOOSE r \in resolveRoute(request.method, request.path) : TRUE).target

\* What index.js answers itself, ahead of the routes: three pages about the platform and
\* those of the customers (CustomerPortal), one of them a POST.
PLATFORM_PAGES == {"/security/audit", "/platform/status", "/platform/devices"}

ownPage(request) ==
  \/ /\ request.method = "GET"
     /\ \/ request.path.base \in PLATFORM_PAGES /\ ~request.path.deep
        \/ request.path = [base |-> "/customer", deep |-> TRUE]
  \/ /\ request.method = "POST"
     /\ request.path = [base |-> "/customer/insights/refresh", deep |-> FALSE]

\* The gateway's own key opens the dataspace service, the edge key is not passed on.
buildForwardHeaders(request) ==
  [forwarded_for |-> request.client,
   api_key |-> IF target(request) = "dataspace" THEN Config.internalApiKey ELSE None]

-----------------------------------------------------------------------------
(* security.js                                                             *)

isJsonContentType(request) == request.method \in {"POST", "PUT", "PATCH"} => request.json

validateApiKey(request) ==
  IF request.key = None THEN "missing_edge_api_key"
  ELSE IF request.key # "right" THEN "invalid_edge_api_key" ELSE "valid"

\* With JWT enabled nothing passes: no validation is configured.
validateJwtReady(request) ==
  IF ~Config.jwtAuthEnabled THEN "valid"
  ELSE IF request.bearer THEN "jwt_validation_not_configured" ELSE "jwt_required"

checkIpAccess(client) ==
  IF client \in Config.ipBlocklist THEN "ip_blocked"
  ELSE IF Config.ipAllowlist # {} /\ client \notin Config.ipAllowlist THEN "ip_not_allowed"
  ELSE "allowed"

inspectPayload(request) == ~request.suspicious

\* An entry of the rate limit's store, by its age instead of its start.
NoWindow == [age |-> Config.rateLimitWindow, count |-> 0]

\* Mutant: the window starts anew with every request that is let through.
checkRateLimitSliding(window) ==
  IF window.age >= Config.rateLimitWindow
  THEN [allowed |-> TRUE, retryAfter |-> 0, window |-> [age |-> 0, count |-> 1]]
  ELSE LET counted == window.count + 1 IN
       [allowed |-> counted <= Config.rateLimitMaxRequests,
        retryAfter |-> Config.rateLimitWindow - window.age,
        window |-> [age |-> 0, count |-> counted]]

\* Fixed windows; a refused request is counted, and told how long the window lasts.
\* The count stops one above the limit: nothing reads more of it.
checkRateLimit(window) ==
  IF window.age >= Config.rateLimitWindow
  THEN [allowed |-> TRUE, retryAfter |-> 0, window |-> [age |-> 0, count |-> 1]]
  ELSE LET counted == window.count + 1
           allowed == counted <= Config.rateLimitMaxRequests
       IN  [allowed |-> allowed,
            retryAfter |-> IF allowed THEN 0 ELSE Config.rateLimitWindow - window.age,
            window |-> [window EXCEPT !.count =
                          IF allowed THEN counted ELSE Config.rateLimitMaxRequests + 1]]

-----------------------------------------------------------------------------
(* index.js: the middlewares                                               *)

Verdict(status, decision, reason) ==
  [status |-> status, decision |-> decision, reason |-> reason]

Pass == Verdict(0, "accepted", "request_forwarded")

RateLimited == Verdict(429, "rate_limited", "rate_limit_exceeded")

DownstreamError == Verdict(502, "downstream_error", "downstream_error")

\* Answers the gateway sends without a call of its audit.
Unaudited(status, reason) == Verdict(status, "unaudited", reason)

HealthPaths == {[base |-> b, deep |-> FALSE] : b \in {"/health", "/edge/health"}}

\* What is asked before the rate limit: a preflight is answered at once, then the two
\* health pages, which nobody is refused, then method, content type, key, token.
BeforeRateLimit(request) ==
  IF request.method = "OPTIONS" THEN Unaudited(204, "preflight")
  ELSE IF request.method = "GET" /\ request.path \in HealthPaths
  THEN Verdict(200, "accepted", "health")
  ELSE IF \E r \in resolveRoute(request.method, request.path) : ~r.allowed
  THEN Verdict(405, "blocked", "unsupported_http_method")
  ELSE IF ~isJsonContentType(request)
  THEN Verdict(415, "blocked", "json_content_type_required")
  ELSE IF validateApiKey(request) # "valid"
  THEN Verdict(401, "unauthorized", validateApiKey(request))
  ELSE IF validateJwtReady(request) # "valid"
  THEN Verdict(401, "unauthorized", validateJwtReady(request))
  ELSE Pass

\* And after it: address, body, content, route.  A body the parser cannot read for any
\* other reason (its charset, its encoding, a broken upload) is left to express.
AfterRateLimit(request) ==
  IF checkIpAccess(request.client) # "allowed"
  THEN Verdict(403, "blocked", checkIpAccess(request.client))
  ELSE IF request.body = "too_large" THEN Verdict(413, "blocked", "oversized_payload")
  ELSE IF request.body = "not_json" THEN Verdict(400, "blocked", "invalid_json")
  ELSE IF request.body = "unreadable" THEN Unaudited(415, "unreadable_body")
  ELSE IF ~inspectPayload(request) THEN Verdict(403, "blocked", "inspection")
  ELSE IF ~ownPage(request) /\ resolveRoute(request.method, request.path) = {}
  THEN Verdict(404, "blocked", "unknown_route")
  ELSE Pass

\* The audit of a forwarded request: an error of the service behind is one of the
\* gateway's decisions too.
ForwardVerdict(status) ==
  IF status >= 500 THEN Verdict(status, "downstream_error", "downstream_error")
  ELSE Verdict(status, "accepted", "request_forwarded")
=============================================================================
