-------------------------------- MODULE Api --------------------------------
(***************************************************************************)
(* The HTTP API: the chain of handlers gin runs for a request, as          *)
(* server.New puts it together, the middlewares and the controllers, and   *)
(* the response they write.                                                *)
(*                                                                         *)
(* gin runs the handlers of a chain one after the other.  A handler that   *)
(* returns without ctx.Next() does not end the chain: only ctx.Abort would,*)
(* and no handler of this program calls it.  The first answer fixes status *)
(* and headers; what a later handler writes is appended to the body.       *)
(*                                                                         *)
(* A path that has a route but for a slash at its end gets no chain: gin   *)
(* answers it itself, and nothing of the program runs.                     *)
(***************************************************************************)
EXTENDS Naturals, Sequences

CONSTANTS
    Requests,
    Accounts,      \* ids of rows of the users table
    NoUser,        \* no id: the empty string
    AdminKeySet    \* whether ADMIN_KEY is configured

ASSUME NoUserAssumption == NoUser \notin Accounts
ASSUME AdminKeyAssumption == AdminKeySet \in BOOLEAN

VARIABLES
    req,       \* what was asked
    at,        \* position in the chain of handlers, 0 before the request
    ginUser,   \* ContextKeyUserID among the keys of the gin context
    resp,      \* the response so far
    logged,    \* statuses written by RequestLogger
    started,   \* requests that have started the monthly job
    failed     \* requests that had a query fail for the database's reasons

vars == <<req, at, ginUser, resp, logged, started, failed>>

-----------------------------------------------------------------------------
(***************************************************************************)
(* Requests and their chains.                                              *)
(***************************************************************************)

\* A request for a route's path with a slash too many is redirected: 301, and
\* 307 where the method is not GET.  Any other that matches no route, an OPTIONS
\* request always, gets the handlers of the engine and NoRoute.
ApiRoutes == {"GetMe", "GetStats", "GetStatsHistory"}
AuthRoutes == {"HandleLogin", "HandleCallback", "HandleLogout"}
Routes == ApiRoutes \cup AuthRoutes \cup {"HealthCheck", "TriggerMonthly", "NoRoute", "TrailingSlash"}

\* user is the id in a session token that verifies, NoUser without one;
\* key tells whether X-Admin-Key is right, month whether year and month are,
\* frontend whether the Origin is FRONTEND_URL.
Request == [route : Routes, options : BOOLEAN, user : Accounts \cup {NoUser},
            key : BOOLEAN, month : BOOLEAN, frontend : BOOLEAN]

\* Mutant: CORS is added to the engine after the groups were made.
Chain_CorsLast(q) ==
    IF q.route \in ApiRoutes THEN <<"RequestLogger", "RequireAuth", "Cors", q.route>>
    ELSE IF q.route = "TriggerMonthly" THEN <<"RequestLogger", "RequireAdmin", "Cors", q.route>>
    ELSE IF q.route = "TrailingSlash" THEN <<>>
    ELSE <<"RequestLogger", "Cors", q.route>>

\* The engine's middlewares, then those of the route's group, then the handler.
Chain(q) ==
    IF q.route \in ApiRoutes THEN <<"RequestLogger", "Cors", "RequireAuth", q.route>>
    ELSE IF q.route = "TriggerMonthly" THEN <<"RequestLogger", "Cors", "RequireAdmin", q.route>>
    ELSE IF q.route = "TrailingSlash" THEN <<>>
    ELSE <<"RequestLogger", "Cors", q.route>>

Answer == [code : Nat, body : {"error", "data", "noStats", "redirect", "job started"}]

\* origin: Access-Control-Allow-Origin as set so far, and as sent.
Response == [status : Nat, answers : Seq(Answer), origin : BOOLEAN, sentOrigin : BOOLEAN]

NoRequest == [route |-> "NoRoute", options |-> FALSE, user |-> NoUser,
              key |-> FALSE, month |-> FALSE, frontend |-> FALSE]
NoResponse == [status |-> 200, answers |-> <<>>, origin |-> FALSE, sentOrigin |-> FALSE]

TypeOK ==
    /\ req \in [Requests -> Request]
    /\ at \in [Requests -> Nat]
    /\ \A r \in Requests : at[r] <= Len(Chain(req[r])) + 2
    /\ ginUser \in [Requests -> Accounts \cup {NoUser}]
    /\ resp \in [Requests -> Response]
    /\ logged \in [Requests -> Seq(Nat)]
    /\ started \subseteq Requests
    /\ failed \subseteq Requests

Init ==
    /\ req = [r \in Requests |-> NoRequest]
    /\ at = [r \in Requests |-> 0]
    /\ ginUser = [r \in Requests |-> NoUser]
    /\ resp = [r \in Requests |-> NoResponse]
    /\ logged = [r \in Requests |-> <<>>]
    /\ started = {}
    /\ failed = {}

\* A request; what its route does not look at is left at a fixed value.  The
\* admin endpoint may be called with a session and without, though it does not
\* look for one either: that is what README.md:101 says otherwise.
Arrivals ==
    {q \in Request :
        /\ q.options => q.route = "NoRoute"
        /\ q.user # NoUser => q.route \in ApiRoutes \cup {"TriggerMonthly"}
        /\ q.key => q.route = "TriggerMonthly"
        /\ q.month => q.route = "GetStats"}

Arrive(r) ==
    /\ at[r] = 0
    /\ \E q \in Arrivals : req' = [req EXCEPT ![r] = q]
    /\ at' = [at EXCEPT ![r] = 1]
    /\ UNCHANGED <<ginUser, resp, logged, started, failed>>

-----------------------------------------------------------------------------
(***************************************************************************)
(* gin: the chain and the response writer.                                 *)
(***************************************************************************)

\* The handler at the head of the chain runs, and the next one follows.
Runs(r, handler) ==
    /\ at[r] \in 1 .. Len(Chain(req[r]))
    /\ Chain(req[r])[at[r]] = handler
    /\ at' = [at EXCEPT ![r] = @ + 1]

\* A status set before the first byte of the body replaces the one before.
SetStatus(p, code) == IF p.answers = <<>> THEN [p EXCEPT !.status = code] ELSE p

\* ctx.JSON and ctx.Redirect: the first one sends status and headers.
Written(p, a) ==
    [SetStatus(p, a.code) EXCEPT
        !.answers = Append(@, a),
        !.sentOrigin = IF p.answers = <<>> THEN p.origin ELSE @]

Write(r, code, body) ==
    resp' = [resp EXCEPT ![r] = Written(@, [code |-> code, body |-> body])]

-----------------------------------------------------------------------------
(***************************************************************************)
(* The middlewares.                                                        *)
(***************************************************************************)

\* Mutant: the request is logged before the other handlers have run.
RequestLogger_First(r) ==
    /\ Runs(r, "RequestLogger")
    /\ logged' = [logged EXCEPT ![r] = Append(@, resp[r].status)]
    /\ UNCHANGED <<req, ginUser, resp, started, failed>>

\* Up to ctx.Next().
RequestLogger(r) ==
    /\ Runs(r, "RequestLogger")
    /\ UNCHANGED <<req, ginUser, resp, logged, started, failed>>

\* Mutant: what follows ctx.Next() is done again and again.
Log_Again(r) ==
    /\ at[r] > Len(Chain(req[r])) /\ Chain(req[r]) # <<>>
    /\ at' = [at EXCEPT ![r] = @ + 1]
    /\ logged' = [logged EXCEPT ![r] = Append(@, resp[r].status)]
    /\ UNCHANGED <<req, ginUser, resp, started, failed>>

\* After ctx.Next(), which has run the rest of the chain.
Log(r) ==
    /\ at[r] = Len(Chain(req[r])) + 1 /\ Chain(req[r]) # <<>>
    /\ at' = [at EXCEPT ![r] = @ + 1]
    /\ logged' = [logged EXCEPT ![r] = Append(@, resp[r].status)]
    /\ UNCHANGED <<req, ginUser, resp, started, failed>>

\* The headers, and for OPTIONS the status 204 before returning.
Cors(r) ==
    /\ Runs(r, "Cors")
    /\ LET p == [resp[r] EXCEPT !.origin = req[r].frontend]
       IN  resp' = [resp EXCEPT ![r] = IF req[r].options THEN SetStatus(p, 204) ELSE p]
    /\ UNCHANGED <<req, ginUser, logged, started, failed>>

\* Mutant: the error of ValidateSession is not looked at.
AuthRefusal_None(q) == {}

AuthRefusal(q) == IF q.user = NoUser THEN {401} ELSE {}

\* RequireAuth: 401 and return, or the claims into the keys of gin's context.
RequireAuth(r) ==
    /\ Runs(r, "RequireAuth")
    /\ \/ /\ \E code \in AuthRefusal(req[r]) : Write(r, code, "error")
          /\ UNCHANGED ginUser
       \/ /\ AuthRefusal(req[r]) = {}
          /\ ginUser' = [ginUser EXCEPT ![r] = req[r].user]
          /\ UNCHANGED resp
    /\ UNCHANGED <<req, logged, started, failed>>

AdminRefusal(q) ==
    IF ~ AdminKeySet THEN {404} ELSE IF ~ q.key THEN {403} ELSE {}

RequireAdmin(r) ==
    /\ Runs(r, "RequireAdmin")
    /\ \/ \E code \in AdminRefusal(req[r]) : Write(r, code, "error")
       \/ AdminRefusal(req[r]) = {} /\ UNCHANGED resp
    /\ UNCHANGED <<req, ginUser, logged, started, failed>>

-----------------------------------------------------------------------------
(***************************************************************************)
(* The controllers.                                                        *)
(***************************************************************************)

\* What the handler at the end of login, callback and logout may answer.
AuthAnswers(route) ==
    IF route = "HandleLogin" THEN {307, 500}
    ELSE IF route = "HandleCallback" THEN {307, 400, 500, 502, 503}
    ELSE {307}

AuthHandler(r) ==
    /\ req[r].route \in AuthRoutes
    /\ Runs(r, req[r].route)
    /\ \E code \in AuthAnswers(req[r].route) :
          Write(r, code, IF code = 307 THEN "redirect" ELSE "error")
    /\ UNCHANGED <<req, ginUser, logged, started, failed>>

HealthCheck(r) ==
    /\ Runs(r, "HealthCheck")
    /\ Write(r, 200, "data")
    /\ UNCHANGED <<req, ginUser, logged, started, failed>>

NoRoute(r) ==
    /\ Runs(r, "NoRoute")
    /\ Write(r, 404, "error")
    /\ UNCHANGED <<req, ginUser, logged, started, failed>>

\* gin, in the place of a chain: http.Redirect to the path of the route.
Redirect(r) ==
    /\ req[r].route = "TrailingSlash" /\ at[r] = 1
    /\ at' = [at EXCEPT ![r] = @ + 1]
    /\ \E code \in {301, 307} : Write(r, code, "redirect")
    /\ UNCHANGED <<req, ginUser, logged, started, failed>>

\* auth.UserIDFromContext(ctx.Request.Context()): the keys of gin's context are
\* not values of the request's context, and nothing else sets a value there.
UserIDFromContext(r) == NoUser

\* Mutant: the ids are text, and the empty one is an id like any other.
Found_Text(id) == IF id \in Accounts THEN {"row", "noRow"} ELSE {"noRow"}

\* A query by id: PostgreSQL refuses an id that is no UUID.
Found(id) == IF id \in Accounts THEN {"row", "noRow"} ELSE {"refused"}

\* The answer to a query's result; noRow is the answer if there is no row.
QueryAnswer(r, noRow) ==
    \/ /\ \E result \in Found(UserIDFromContext(r)) :
             IF result = "row" THEN Write(r, 200, "data")
             ELSE IF result = "noRow" THEN Write(r, noRow.code, noRow.body)
             ELSE Write(r, 500, "error")
       /\ UNCHANGED failed
    \/ /\ Write(r, 500, "error")
       /\ failed' = failed \cup {r}

GetMe(r) ==
    /\ Runs(r, "GetMe")
    /\ QueryAnswer(r, [code |-> 404, body |-> "error"])
    /\ UNCHANGED <<req, ginUser, logged, started>>

GetStats(r) ==
    /\ Runs(r, "GetStats")
    /\ \/ ~ req[r].month /\ Write(r, 400, "error") /\ UNCHANGED failed
       \/ req[r].month /\ QueryAnswer(r, [code |-> 404, body |-> "noStats"])
    /\ UNCHANGED <<req, ginUser, logged, started>>

\* No rows make an empty list.
GetStatsHistory(r) ==
    /\ Runs(r, "GetStatsHistory")
    /\ QueryAnswer(r, [code |-> 200, body |-> "data"])
    /\ UNCHANGED <<req, ginUser, logged, started>>

\* go h.monthlyJobFn(), and 202; main always passes a job.
TriggerMonthly(r) ==
    /\ Runs(r, "TriggerMonthly")
    /\ started' = started \cup {r}
    /\ Write(r, 202, "job started")
    /\ UNCHANGED <<req, ginUser, logged, failed>>

-----------------------------------------------------------------------------

Middleware(r) == RequestLogger(r) \/ Cors(r) \/ RequireAuth(r) \/ RequireAdmin(r) \/ Log(r)

Controller(r) ==
    \/ AuthHandler(r) \/ HealthCheck(r) \/ NoRoute(r)
    \/ GetMe(r) \/ GetStats(r) \/ GetStatsHistory(r)
    \/ TriggerMonthly(r)

Step(r) == Arrive(r) \/ Middleware(r) \/ Controller(r) \/ Redirect(r)

Next == \E r \in Requests : Step(r)

Spec == Init /\ [][Next]_vars

-----------------------------------------------------------------------------
(***************************************************************************)
(* Properties.                                                             *)
(***************************************************************************)

\* server.go:31, 67-80.  Each request is logged at most once, after its whole
\* chain, with the status the client got: that of the first answer, whatever
\* handlers after it tried to set.  (gin's own redirect is logged by nobody.)
LoggedAsSent ==
    \A r \in Requests : logged[r] # <<>> =>
        /\ resp[r].answers # <<>>
        /\ logged[r] = <<resp[r].answers[1].code>>

\* server.go:29-53, cors.go:18-20.  Every answer of a chain, those of NoRoute
\* and of the refusing middlewares included, lets the frontend, and only it,
\* read it: the header is set before anything of the chain is written.  gin's
\* redirect of a trailing slash has no chain, and lets nobody read it.
OriginOnEveryAnswer ==
    \A r \in Requests : resp[r].answers # <<>> =>
        resp[r].sentOrigin = (req[r].frontend /\ req[r].route # "TrailingSlash")

\* middleware.go:44-82, 87-117, server.go:40-51.  A refusal is final although the
\* handlers after it run: a client reads 401 exactly if it asked for its own
\* data without a session, and of the admin endpoint 404, 403 or 202 as the
\* server has a key and the client knows it.  A session is not asked for there,
\* which README.md:101 says of all of /api (see SessionOnAllApi).
RefusalStands ==
    \A r \in Requests : resp[r].answers # <<>> =>
        /\ resp[r].status = 401 <=> req[r].route \in ApiRoutes /\ req[r].user = NoUser
        /\ req[r].route = "TriggerMonthly" =>
              resp[r].status = IF ~ AdminKeySet THEN 404 ELSE IF ~ req[r].key THEN 403 ELSE 202

\* middleware.go:44-56, controller.go:51-181.  Whoever has no session reads
\* nothing of the tables: the handlers that run after the 401 append to its
\* body, and all they append are errors.
RefusedLearnsNothing ==
    \A r \in Requests : (req[r].route \in ApiRoutes /\ req[r].user = NoUser) =>
        \A i \in DOMAIN resp[r].answers : resp[r].answers[i].body = "error"

-----------------------------------------------------------------------------
(***************************************************************************)
(* The inductive invariant.                                                *)
(***************************************************************************)

\* Of one request: q what was asked, n the position in its chain, p the
\* response, l the log.  First one that gin answers itself.
Redirected(n, p, l) ==
    /\ n <= 2 /\ l = <<>> /\ ~ p.origin
    /\ n <= 1 => p.answers = <<>>
    /\ p.answers # <<>> =>
          p.status = p.answers[1].code /\ p.status \in {301, 307} /\ ~ p.sentOrigin

Handled(q, n, p, l) ==
    \* The first handler that may answer is the third of every chain; the status
    \* is that of the first answer, and the log comes last.
    /\ n <= 1 => ~ p.origin
    /\ n <= 3 => p.answers = <<>>
    /\ n >= 3 => p.origin = q.frontend
    /\ n > Len(Chain(q)) => p.answers # <<>>
    /\ n <= Len(Chain(q)) + 1 => l = <<>>
    /\ p.answers # <<>> => p.status = p.answers[1].code /\ p.sentOrigin = q.frontend
    /\ l # <<>> => p.answers # <<>> /\ l = <<p.answers[1].code>>
    \* When the handler behind a group's middleware starts, there is an answer if
    \* and only if the middleware has refused.
    /\ (n = 4 /\ q.route \in ApiRoutes /\ AuthRefusal(q) = {}) => p.answers = <<>>
    /\ (n = 4 /\ q.route = "TriggerMonthly" /\ AdminRefusal(q) = {}) => p.answers = <<>>
    /\ (n >= 4 /\ q.route \in ApiRoutes /\ AuthRefusal(q) # {}) => p.answers # <<>>
    /\ (n >= 4 /\ q.route = "TriggerMonthly" /\ AdminRefusal(q) # {}) => p.answers # <<>>
    /\ p.answers # <<>> =>
          /\ p.status = 401 <=> q.route \in ApiRoutes /\ q.user = NoUser
          /\ q.route = "TriggerMonthly" =>
                p.status = IF ~ AdminKeySet THEN 404 ELSE IF ~ q.key THEN 403 ELSE 202
    \* Whoever has no session gets errors only.
    /\ (q.route \in ApiRoutes /\ q.user = NoUser) =>
          \A i \in DOMAIN p.answers : p.answers[i].body = "error"

Sound(q, n, p, l) ==
    IF q.route = "TrailingSlash" THEN Redirected(n, p, l) ELSE Handled(q, n, p, l)

IInv == TypeOK /\ \A r \in Requests : Sound(req[r], at[r], resp[r], logged[r])

-----------------------------------------------------------------------------
(***************************************************************************)
(* What the documentation says, and the code does not do.                  *)
(***************************************************************************)

\* README.md:101, 116: a request without the session it requires, or to the
\* hidden admin endpoint, is not served: the refusal is its only answer, and it
\* starts nothing.
RefusedIsNotServed ==
    \A r \in Requests :
        (\/ req[r].route \in ApiRoutes /\ AuthRefusal(req[r]) # {}
         \/ req[r].route = "TriggerMonthly" /\ AdminRefusal(req[r]) # {}) =>
            Len(resp[r].answers) <= 1 /\ r \notin started

\* README.md:101: all requests below /api require a session.  The admin endpoint
\* is below it, and its group has no RequireAuth.
SessionOnAllApi ==
    \A r \in Requests :
        (/\ req[r].route \in ApiRoutes \cup {"TriggerMonthly"}
         /\ req[r].user = NoUser
         /\ resp[r].answers # <<>>) => resp[r].status \in {401, 403, 404}

\* README.md:103-109: with a session, /api/me and /api/stats answer from the
\* tables, unless the database fails.
SessionServed ==
    \A r \in Requests :
        (/\ req[r].route \in {"GetMe", "GetStatsHistory"}
         /\ req[r].user # NoUser
         /\ r \notin failed
         /\ resp[r].answers # <<>>) => resp[r].status # 500

\* cors.go:27-28, README.md:140: a preflight request of the frontend succeeds.
PreflightAccepted ==
    \A r \in Requests :
        req[r].options /\ logged[r] # <<>> => logged[r] = <<204>>
=============================================================================
