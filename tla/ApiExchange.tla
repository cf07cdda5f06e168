---------------------------- MODULE ApiExchange ----------------------------
(***************************************************************************)
(* Api implements Exchange: the reply is the status of the first answer.   *)
(* Which statuses a request may get depends on its route and credentials.  *)
(***************************************************************************)
EXTENDS Api

\* What a route may answer to who is let in.
Promised(q) ==
    IF q.route \in AuthRoutes THEN AuthAnswers(q.route)
    ELSE IF q.route = "GetStats" /\ ~ q.month THEN {400}
    ELSE IF q.route = "GetStatsHistory" THEN {200, 500}
    ELSE IF q.route \in ApiRoutes THEN {200, 404, 500}
    ELSE IF q.route = "TriggerMonthly" THEN {202}
    ELSE IF q.route = "NoRoute" THEN {404}
    ELSE IF q.route = "TrailingSlash" THEN {301, 307}
    ELSE {200}

\* What whoever is not let in is told.
Refusal(q) ==
    IF q.route \in ApiRoutes /\ q.user = NoUser THEN {401}
    ELSE IF q.route = "TriggerMonthly" /\ ~ AdminKeySet THEN {404}
    ELSE IF q.route = "TriggerMonthly" /\ ~ q.key THEN {403}
    ELSE {}

StatusesOf(q) == IF Refusal(q) # {} THEN Refusal(q) ELSE Promised(q)

ReplyOf(p) == IF p.answers = <<>> THEN {} ELSE {p.answers[1].code}

Contract == INSTANCE Exchange WITH
              Asks <- Request,
              Allowed <- [q \in Request |-> StatusesOf(q)],
              asked <- [r \in Requests |-> IF at[r] = 0 THEN {} ELSE {req[r]}],
              reply <- [r \in Requests |-> ReplyOf(resp[r])],
              record <- logged

\* server.go:31-80, middleware.go:44-117, controller.go:42-264.  Chains in which
\* handlers go on after a refusal, and answer a second time, are behaviours of
\* the plain exchange: one status, allowed by route and credentials, recorded
\* once and never changed.
ImplementsExchange == Contract!Spec
=============================================================================
