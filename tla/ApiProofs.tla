----------------------------- MODULE ApiProofs -----------------------------
(***************************************************************************)
(* Proofs about Api, for any requests and accounts, with and without an    *)
(* admin key.                                                              *)
(***************************************************************************)
EXTENDS ApiExchange, TLAPS

\* Routes whose group has a middleware, and requests that have a chain.
Grouped == ApiRoutes \cup {"TriggerMonthly"}
Chained(q) == q.route # "TrailingSlash"

\* The logger comes first, then CORS; a group's middleware is third.
LEMMA ChainFacts ==
    ASSUME NEW q \in Request
    PROVE  /\ Chained(q) => Chain(q)[1] = "RequestLogger" /\ Chain(q)[2] = "Cors"
           /\ q.route \in ApiRoutes =>
                 Chain(q) = <<"RequestLogger", "Cors", "RequireAuth", q.route>>
           /\ q.route = "TriggerMonthly" =>
                 Chain(q) = <<"RequestLogger", "Cors", "RequireAdmin", q.route>>
           /\ (q.route \notin Grouped /\ Chained(q)) =>
                 Chain(q) = <<"RequestLogger", "Cors", q.route>>
           /\ ~ Chained(q) => q.route \notin Grouped /\ Chain(q) = <<>>
           /\ Chained(q) => Len(Chain(q)) = IF q.route \in Grouped THEN 4 ELSE 3
<1>1. q.route \in Routes
  BY DEF Request
<1>2. CASE q.route \in ApiRoutes
  BY <1>1, <1>2 DEF Chain, Grouped, ApiRoutes, Chained
<1>3. CASE q.route = "TriggerMonthly"
  BY <1>1, <1>3 DEF Chain, Grouped, ApiRoutes, Chained
<1>4. CASE q.route \notin Grouped
  BY <1>1, <1>4 DEF Chain, Grouped, ApiRoutes, Chained
<1> QED
  BY <1>2, <1>3, <1>4 DEF Grouped

\* Whoever is at a place of its chain has one.
LEMMA HasChain ==
    ASSUME NEW q \in Request, NEW n \in Nat, n > 0, n <= Len(Chain(q))
    PROVE  Chained(q)
<1>1. ASSUME ~ Chained(q) PROVE FALSE
  <2>1. Len(Chain(q)) = 0
    BY <1>1, ChainFacts
  <2> QED
    BY <2>1
<1> QED
  BY <1>1

\* How long a chain is.
LEMMA ChainLength ==
    ASSUME NEW q \in Request, Chained(q)
    PROVE  /\ q.route \in Grouped => Len(Chain(q)) = 4
           /\ q.route \notin Grouped => Len(Chain(q)) = 3
BY ChainFacts

\* Which position a handler is at when it runs.
LEMMA Position ==
    ASSUME TypeOK, NEW r \in Requests, NEW handler, Runs(r, handler)
    PROVE  /\ Chained(req[r])
           /\ handler = "RequestLogger" => at[r] = 1
           /\ handler = "Cors" => at[r] = 2
           /\ handler = "RequireAuth" => at[r] = 3 /\ req[r].route \in ApiRoutes
           /\ handler = "RequireAdmin" => at[r] = 3 /\ req[r].route = "TriggerMonthly"
           /\ handler \in Routes => at[r] = Len(Chain(req[r])) /\ req[r].route = handler
           /\ at' = [at EXCEPT ![r] = @ + 1]
<1> DEFINE q == req[r]
<1>1. q \in Request /\ q.route \in Routes /\ at[r] \in Nat
  BY DEF TypeOK, Request
<1>2. at[r] \in 1 .. Len(Chain(q)) /\ Chain(q)[at[r]] = handler /\ at' = [at EXCEPT ![r] = @ + 1]
  BY DEF Runs
<1>3. "RequestLogger" \notin Routes /\ "Cors" \notin Routes
      /\ "RequireAuth" \notin Routes /\ "RequireAdmin" \notin Routes
      /\ "TriggerMonthly" \notin ApiRoutes
  BY DEF Routes, ApiRoutes, AuthRoutes
<1>chained. Chained(q)
  BY <1>1, <1>2, ChainFacts
<1>4. CASE q.route \in ApiRoutes
  <2>1. Chain(q) = <<"RequestLogger", "Cors", "RequireAuth", q.route>>
    BY <1>1, <1>4, ChainFacts
  <2>2. at[r] \in 1 .. 4
    BY <1>2, <2>1
  <2>3. \/ at[r] = 1 /\ handler = "RequestLogger"
        \/ at[r] = 2 /\ handler = "Cors"
        \/ at[r] = 3 /\ handler = "RequireAuth"
        \/ at[r] = 4 /\ handler = q.route
    BY <1>2, <2>1, <2>2
  <2> QED
    BY <1>1, <1>2, <1>3, <1>4, <1>chained, <2>1, <2>3
<1>5. CASE q.route = "TriggerMonthly"
  <2>1. Chain(q) = <<"RequestLogger", "Cors", "RequireAdmin", q.route>>
    BY <1>1, <1>5, ChainFacts
  <2>2. at[r] \in 1 .. 4
    BY <1>2, <2>1
  <2>3. \/ at[r] = 1 /\ handler = "RequestLogger"
        \/ at[r] = 2 /\ handler = "Cors"
        \/ at[r] = 3 /\ handler = "RequireAdmin"
        \/ at[r] = 4 /\ handler = q.route
    BY <1>2, <2>1, <2>2
  <2> QED
    BY <1>1, <1>2, <1>3, <1>5, <1>chained, <2>1, <2>3
<1>6. CASE q.route \notin Grouped
  <2>1. Chain(q) = <<"RequestLogger", "Cors", q.route>>
    BY <1>1, <1>6, <1>chained, ChainFacts
  <2>2. at[r] \in 1 .. 3
    BY <1>2, <2>1
  <2>3. \/ at[r] = 1 /\ handler = "RequestLogger"
        \/ at[r] = 2 /\ handler = "Cors"
        \/ at[r] = 3 /\ handler = q.route
    BY <1>2, <2>1, <2>2
  <2> QED
    BY <1>1, <1>2, <1>3, <1>chained, <2>1, <2>3
<1> QED
  BY <1>4, <1>5, <1>6 DEF Grouped

\* An entry of a sequence other than the one appended was there before.
LEMMA Appended ==
    ASSUME NEW T, NEW t \in Seq(T), NEW e \in T, NEW i \in DOMAIN Append(t, e),
           Append(t, e)[i] # e
    PROVE  i \in DOMAIN t /\ Append(t, e)[i] = t[i]
OBVIOUS

\* What an answer does to a response.
LEMMA WrittenFacts ==
    ASSUME NEW p \in Response, NEW a \in Answer
    PROVE  /\ Written(p, a) \in Response
           /\ Written(p, a).answers # <<>>
           /\ Written(p, a).origin = p.origin
           /\ p.answers = <<>> => /\ Written(p, a).answers[1] = a
                                  /\ Written(p, a).status = a.code
                                  /\ Written(p, a).sentOrigin = p.origin
           /\ p.answers # <<>> => /\ Written(p, a).answers[1] = p.answers[1]
                                  /\ Written(p, a).status = p.status
                                  /\ Written(p, a).sentOrigin = p.sentOrigin
           /\ Written(p, a).answers = Append(p.answers, a)
<1>1. p.answers \in Seq(Answer) /\ a.code \in Nat
  BY DEF Response, Answer
<1>2. Append(p.answers, a) \in Seq(Answer) /\ Append(p.answers, a) # <<>>
  BY <1>1
<1>3. p.answers = <<>> => Append(p.answers, a)[1] = a
  BY <1>1
<1>4. p.answers # <<>> => Append(p.answers, a)[1] = p.answers[1]
  BY <1>1
<1>5. CASE p.answers = <<>>
  BY <1>1, <1>2, <1>3, <1>5 DEF Written, SetStatus, Response
<1>6. CASE p.answers # <<>>
  BY <1>1, <1>2, <1>4, <1>6 DEF Written, SetStatus, Response
<1> QED
  BY <1>5, <1>6

-----------------------------------------------------------------------------

\* The initial state satisfies the invariant.
LEMMA InitIInv == Init => IInv
<1> SUFFICES ASSUME Init PROVE IInv
  OBVIOUS
<1>1. NoRequest \in Request /\ NoResponse \in Response
  BY DEF NoRequest, Request, Routes, NoResponse, Response
<1>2. Len(Chain(NoRequest)) = 3
  BY <1>1, ChainFacts DEF NoRequest, Grouped, ApiRoutes, Chained
<1>3. TypeOK
  BY <1>1, <1>2 DEF Init, TypeOK
<1>4. ASSUME NEW r \in Requests PROVE Sound(req[r], at[r], resp[r], logged[r])
  BY <1>2 DEF Init, Sound, Handled, NoResponse, NoRequest
<1> QED
  BY <1>3, <1>4 DEF IInv

\* A step of one request that keeps its types and its part of the invariant
\* keeps the invariant.
LEMMA OneRequestMoves ==
    ASSUME IInv, NEW r \in Requests,
           NEW q \in Request, NEW n \in Nat, NEW p \in Response, NEW l \in Seq(Nat),
           req' = [req EXCEPT ![r] = q], at' = [at EXCEPT ![r] = n],
           resp' = [resp EXCEPT ![r] = p], logged' = [logged EXCEPT ![r] = l],
           ginUser' \in [Requests -> Accounts \cup {NoUser}],
           started' \subseteq Requests, failed' \subseteq Requests,
           n <= Len(Chain(q)) + 2,
           Sound(q, n, p, l)
    PROVE  IInv'
<1>1. /\ req'[r] = q /\ at'[r] = n /\ resp'[r] = p /\ logged'[r] = l
      /\ \A s \in Requests : s # r => /\ req'[s] = req[s] /\ at'[s] = at[s]
                                     /\ resp'[s] = resp[s] /\ logged'[s] = logged[s]
  BY DEF IInv, TypeOK
<1>2. TypeOK'
  <2>1. \A s \in Requests : at'[s] <= Len(Chain(req'[s])) + 2
    BY <1>1 DEF IInv, TypeOK
  <2> QED
    BY <2>1 DEF IInv, TypeOK
<1>3. ASSUME NEW s \in Requests PROVE Sound(req'[s], at'[s], resp'[s], logged'[s])
  <2>1. CASE s = r
    BY <1>1, <2>1
  <2>2. CASE s # r
    BY <1>1, <2>2 DEF IInv
  <2> QED
    BY <2>1, <2>2
<1> QED
  BY <1>2, <1>3 DEF IInv

-----------------------------------------------------------------------------
(***************************************************************************)
(* The steps.                                                              *)
(***************************************************************************)

\* A request arrives: a fresh response, the first handler of its chain.
LEMMA ArriveStep ==
    ASSUME IInv, NEW r \in Requests, Arrive(r)
    PROVE  IInv'
<1>1. PICK q \in Arrivals : req' = [req EXCEPT ![r] = q]
  BY DEF Arrive
<1>2. q \in Request
  BY DEF Arrivals
<1>3. at[r] = 0 /\ Sound(req[r], at[r], resp[r], logged[r]) /\ resp[r] \in Response
      /\ logged[r] \in Seq(Nat)
  BY DEF IInv, TypeOK, Arrive
<1>4. Len(Chain(q)) \in Nat /\ (q.route # "TrailingSlash" => Len(Chain(q)) \in 3 .. 4)
  BY <1>2, ChainFacts DEF Chained
<1>5. Sound(q, 1, resp[r], logged[r])
  BY <1>3, <1>4 DEF Sound, Handled, Redirected
<1>6. resp' = [resp EXCEPT ![r] = resp[r]] /\ logged' = [logged EXCEPT ![r] = logged[r]]
  BY DEF IInv, TypeOK, Arrive
<1> QED
  BY <1>1, <1>2, <1>3, <1>4, <1>5, <1>6, OneRequestMoves DEF IInv, TypeOK, Arrive

\* A handler that goes by without an answer: the logger, CORS, and a group's
\* middleware that does not refuse.
LEMMA GoesBy ==
    ASSUME IInv, NEW r \in Requests, NEW p \in Response,
           at[r] \in 1 .. 3,
           at[r] < Len(Chain(req[r])),
           at' = [at EXCEPT ![r] = @ + 1],
           resp' = [resp EXCEPT ![r] = p],
           p.answers = <<>>,
           at[r] >= 2 => p.origin = req[r].frontend,
           at[r] = 3 => (req[r].route \in ApiRoutes => AuthRefusal(req[r]) = {}),
           at[r] = 3 => (req[r].route = "TriggerMonthly" => AdminRefusal(req[r]) = {}),
           ginUser' \in [Requests -> Accounts \cup {NoUser}],
           UNCHANGED <<req, logged, started, failed>>
    PROVE  IInv'
<1> DEFINE q == req[r]
           n == at[r]
<1>1. q \in Request /\ n \in Nat /\ logged[r] \in Seq(Nat) /\ resp[r] \in Response
      /\ Sound(q, n, resp[r], logged[r])
  BY DEF IInv, TypeOK
<1>2. q.route # "TrailingSlash" /\ Len(Chain(q)) = IF q.route \in Grouped THEN 4 ELSE 3
  <2>1. n > 0 /\ n <= Len(Chain(q))
    BY <1>1, ChainFacts
  <2>2. Chained(q)
    BY <1>1, <2>1, HasChain
  <2> QED
    BY <1>1, <2>2, ChainLength DEF Chained
<1>3. Sound(q, n + 1, p, logged[r])
  BY <1>1, <1>2 DEF Sound, Handled, Redirected, Grouped
<1>4. req' = [req EXCEPT ![r] = q] /\ logged' = [logged EXCEPT ![r] = logged[r]]
      /\ at' = [at EXCEPT ![r] = n + 1]
  BY DEF IInv, TypeOK
<1> QED
  BY <1>1, <1>2, <1>3, <1>4, OneRequestMoves DEF IInv, TypeOK

\* What the last handler of a chain may answer: not 401, and for the admin
\* endpoint 202.
OfHandler(handler, code) == code # 401 /\ (handler = "TriggerMonthly" => code = 202)

\* A handler that answers.  In the third place of a longer chain it is a
\* refusing middleware; a controller answers what it may.
LEMMA Answers ==
    ASSUME IInv, NEW r \in Requests, NEW a \in Answer,
           at[r] \in 3 .. Len(Chain(req[r])),
           at' = [at EXCEPT ![r] = @ + 1],
           resp' = [resp EXCEPT ![r] = Written(@, a)],
           at[r] = Len(Chain(req[r])) => OfHandler(req[r].route, a.code),
           (at[r] = 3 /\ req[r].route \in ApiRoutes) => a.code \in AuthRefusal(req[r]),
           (at[r] = 3 /\ req[r].route = "TriggerMonthly") => a.code \in AdminRefusal(req[r]),
           (req[r].route \in ApiRoutes /\ req[r].user = NoUser) => a.body = "error",
           started' \subseteq Requests, failed' \subseteq Requests,
           UNCHANGED <<req, ginUser, logged>>
    PROVE  IInv'
<1> DEFINE q == req[r]
           n == at[r]
           p == resp[r]
           w == Written(p, a)
<1>1. q \in Request /\ n \in Nat /\ logged[r] \in Seq(Nat) /\ p \in Response
      /\ Sound(q, n, p, logged[r])
  BY DEF IInv, TypeOK
<1>2. q.route # "TrailingSlash" 
      /\ (q.route \in Grouped => Len(Chain(q)) = 4)
      /\ (q.route \notin Grouped => Len(Chain(q)) = 3)
  <2>1. n > 0 /\ n <= Len(Chain(q))
    BY <1>1, ChainFacts
  <2>2. Chained(q)
    BY <1>1, <2>1, HasChain
  <2> QED
    BY <1>1, <2>2, ChainLength DEF Chained
<1>3. /\ w \in Response /\ w.answers # <<>> /\ w.origin = p.origin
      /\ p.answers = <<>> => /\ w.answers[1] = a /\ w.status = a.code
                             /\ w.sentOrigin = p.origin
      /\ p.answers # <<>> => /\ w.answers[1] = p.answers[1] /\ w.status = p.status
                             /\ w.sentOrigin = p.sentOrigin
      /\ w.answers = Append(p.answers, a)
  BY <1>1, WrittenFacts
<1>4. p.answers = <<>> =>
         /\ a.code = 401 <=> q.route \in ApiRoutes /\ q.user = NoUser
         /\ q.route = "TriggerMonthly" =>
               a.code = IF ~ AdminKeySet THEN 404 ELSE IF ~ q.key THEN 403 ELSE 202
  <2>1. CASE n = Len(Chain(q))
    <3>1. a.code # 401 /\ (q.route = "TriggerMonthly" => a.code = 202)
      BY <2>1 DEF OfHandler
    <3>2. n = 4 => q.route \in Grouped
      BY <1>2, <2>1
    <3>3. q.route \in Grouped => n = 4
      BY <1>2, <2>1
    <3>4. ASSUME p.answers = <<>>
          PROVE  /\ q.route \in ApiRoutes => AuthRefusal(q) = {}
                 /\ q.route = "TriggerMonthly" => AdminRefusal(q) = {}
      BY <1>1, <3>3, <3>4 DEF Sound, Handled, Redirected, Grouped
    <3>5. /\ q.user = NoUser => 401 \in AuthRefusal(q)
          /\ ~ AdminKeySet => 404 \in AdminRefusal(q)
          /\ (AdminKeySet /\ ~ q.key) => 403 \in AdminRefusal(q)
      BY DEF AuthRefusal, AdminRefusal
    <3>6. p.answers = <<>> =>
             /\ q.route \in ApiRoutes => q.user # NoUser
             /\ q.route = "TriggerMonthly" => AdminKeySet /\ q.key
      <4> SUFFICES ASSUME p.answers = <<>>
                   PROVE  /\ q.route \in ApiRoutes => q.user # NoUser
                          /\ q.route = "TriggerMonthly" => AdminKeySet /\ q.key
        OBVIOUS
      <4>1. q.route \in ApiRoutes => q.user # NoUser
        BY <3>4, <3>5
      <4>2. q.route = "TriggerMonthly" => AdminKeySet /\ q.key
        <5>1. q.route = "TriggerMonthly" => 404 \notin AdminRefusal(q) /\ 403 \notin AdminRefusal(q)
          BY <3>4
        <5> QED
          BY <3>5, <5>1
      <4> QED
        BY <4>1, <4>2
    <3> QED
      BY <3>1, <3>6
  <2>2. CASE n # Len(Chain(q))
    <3>1. n = 3 /\ q.route \in Grouped
      <4>1. CASE q.route \in Grouped
        <5>1. Len(Chain(q)) = 4
          BY <1>2, <4>1
        <5> QED
          BY <2>2, <4>1, <5>1
      <4>2. CASE q.route \notin Grouped
        <5>1. Len(Chain(q)) = 3
          BY <1>2, <4>2
        <5> QED
          BY <2>2, <5>1
      <4> QED
        BY <4>1, <4>2
    <3> QED
      BY <1>1, <3>1 DEF AuthRefusal, AdminRefusal, Grouped, ApiRoutes
  <2> QED
    BY <2>1, <2>2
<1>5. Sound(q, n + 1, w, logged[r])
  <2>1. logged[r] = <<>>
    BY <1>1 DEF Sound, Handled, Redirected
  <2>2. n >= 3 /\ w.origin = q.frontend /\ w.answers # <<>>
    BY <1>1, <1>3 DEF Sound, Handled, Redirected
  <2>3. w.status = w.answers[1].code /\ w.sentOrigin = q.frontend
    BY <1>1, <1>3, <2>2 DEF Sound, Handled, Redirected
  <2>4. /\ w.status = 401 <=> q.route \in ApiRoutes /\ q.user = NoUser
        /\ q.route = "TriggerMonthly" =>
              w.status = IF ~ AdminKeySet THEN 404 ELSE IF ~ q.key THEN 403 ELSE 202
    BY <1>1, <1>3, <1>4 DEF Sound, Handled, Redirected
  <2>5. /\ ~ (n + 1 = 4 /\ q.route \in ApiRoutes /\ AuthRefusal(q) = {})
        /\ ~ (n + 1 = 4 /\ q.route = "TriggerMonthly" /\ AdminRefusal(q) = {})
    <3>1. n + 1 = 4 => at[r] = 3
      BY <1>1
    <3>2. /\ (at[r] = 3 /\ req[r].route \in ApiRoutes) => AuthRefusal(req[r]) # {}
          /\ (at[r] = 3 /\ req[r].route = "TriggerMonthly") => AdminRefusal(req[r]) # {}
      OBVIOUS
    <3> QED
      BY <3>1, <3>2
  <2>6. ASSUME q.route \in ApiRoutes, q.user = NoUser
        PROVE  \A i \in DOMAIN w.answers : w.answers[i].body = "error"
    <3>1. p.answers \in Seq(Answer) /\ a.body = "error"
      BY <1>1, <2>6 DEF Response
    <3>2. \A i \in DOMAIN p.answers : p.answers[i].body = "error"
      BY <1>1, <2>6 DEF Sound, Handled, Redirected
    <3>3. ASSUME NEW i \in DOMAIN Append(p.answers, a), Append(p.answers, a)[i] # a
          PROVE  i \in DOMAIN p.answers /\ Append(p.answers, a)[i] = p.answers[i]
      BY <3>1, <3>3, Appended
    <3> QED
      BY <1>3, <3>1, <3>2, <3>3
  <2> QED
    BY <1>1, <2>1, <2>2, <2>3, <2>4, <2>5, <2>6 DEF Sound, Handled, Redirected
<1>6. req' = [req EXCEPT ![r] = q] /\ logged' = [logged EXCEPT ![r] = logged[r]]
      /\ at' = [at EXCEPT ![r] = n + 1] /\ resp' = [resp EXCEPT ![r] = w]
  BY DEF IInv, TypeOK
<1> QED
  BY <1>1, <1>2, <1>3, <1>5, <1>6, OneRequestMoves DEF IInv, TypeOK

\* A middleware runs: what it answers, and which handler is next.
LEMMA MiddlewareStep ==
    ASSUME IInv, NEW r \in Requests, Middleware(r)
    PROVE  IInv'
<1> DEFINE q == req[r]
<1>1. /\ TypeOK /\ q \in Request /\ at[r] \in Nat /\ resp[r] \in Response
      /\ resp = [resp EXCEPT ![r] = resp[r]]
      /\ Sound(q, at[r], resp[r], logged[r])
  BY DEF IInv, TypeOK
<1>2. q.route # "TrailingSlash" => Len(Chain(q)) = IF q.route \in Grouped THEN 4 ELSE 3
  BY <1>1, ChainFacts DEF Chained
<1>ran. ASSUME NEW handler, Runs(r, handler) PROVE q.route # "TrailingSlash"
  BY <1>1, <1>ran, Position DEF Chained
<1>3. CASE RequestLogger(r)
  <2>chained. q.route # "TrailingSlash"
    BY <1>3, <1>ran DEF RequestLogger
  <2>1. at[r] = 1 /\ at' = [at EXCEPT ![r] = @ + 1]
    BY <1>1, <1>3, Position DEF RequestLogger
  <2>2. resp[r].answers = <<>>
    BY <1>1, <2>chained, <2>1 DEF Sound, Handled, Redirected
  <2>3. at[r] \in 1 .. 3 /\ at[r] < Len(Chain(q)) /\ ~ (at[r] >= 2) /\ at[r] # 3
    BY <1>2, <2>chained, <2>1
  <2>4. /\ resp' = [resp EXCEPT ![r] = resp[r]]
        /\ ginUser' \in [Requests -> Accounts \cup {NoUser}]
        /\ UNCHANGED <<req, logged, started, failed>>
    BY <1>1, <1>3 DEF RequestLogger, TypeOK
  <2> QED
    BY <1>1, <2>1, <2>2, <2>3, <2>4, GoesBy
<1>4. CASE Cors(r)
  <2>chained. q.route # "TrailingSlash"
    BY <1>4, <1>ran DEF Cors
  <2>1. at[r] = 2 /\ at' = [at EXCEPT ![r] = @ + 1]
    BY <1>1, <1>4, Position DEF Cors
  <2>2. resp[r].answers = <<>>
    BY <1>1, <2>chained, <2>1 DEF Sound, Handled, Redirected
  <2>3. PICK p \in Response : /\ resp' = [resp EXCEPT ![r] = p]
                              /\ p.answers = <<>> /\ p.origin = q.frontend
    <3>1. [resp[r] EXCEPT !.origin = q.frontend] \in Response
      BY <1>1 DEF Request, Response
    <3>2. \A p \in Response : /\ SetStatus(p, 204) \in Response
                              /\ SetStatus(p, 204).answers = p.answers
                              /\ SetStatus(p, 204).origin = p.origin
      BY DEF SetStatus, Response
    <3> DEFINE o == [resp[r] EXCEPT !.origin = q.frontend]
               p == IF q.options THEN SetStatus(o, 204) ELSE o
    <3>3. o.answers = <<>> /\ o.origin = q.frontend
      BY <1>1, <2>2 DEF Response
    <3>4. p \in Response /\ p.answers = <<>> /\ p.origin = q.frontend
      BY <3>1, <3>2, <3>3
    <3>5. resp' = [resp EXCEPT ![r] = p]
      BY <1>4 DEF Cors
    <3> QED
      BY <3>4, <3>5
  <2>4. at[r] \in 1 .. 3 /\ at[r] < Len(Chain(q)) /\ at[r] # 3
    BY <1>2, <2>chained, <2>1
  <2>5. /\ ginUser' \in [Requests -> Accounts \cup {NoUser}]
        /\ UNCHANGED <<req, logged, started, failed>>
    BY <1>1, <1>4 DEF Cors, TypeOK
  <2> QED
    BY <2>1, <2>3, <2>4, <2>5, GoesBy
<1>5. CASE RequireAuth(r)
  <2>chained. q.route # "TrailingSlash"
    BY <1>5, <1>ran DEF RequireAuth
  <2>1. at[r] = 3 /\ q.route \in ApiRoutes /\ at' = [at EXCEPT ![r] = @ + 1]
    BY <1>1, <1>5, Position DEF RequireAuth
  <2>2. q.route # "TriggerMonthly" /\ q.route \in Grouped /\ Len(Chain(q)) = 4
    BY <1>2, <2>chained, <2>1 DEF ApiRoutes, Grouped
  <2>3. CASE \E code \in AuthRefusal(q) : Write(r, code, "error") /\ UNCHANGED ginUser
    <3>1. PICK code \in AuthRefusal(q) : Write(r, code, "error")
      BY <2>3
    <3>2. [code |-> code, body |-> "error"] \in Answer
      BY DEF Answer, AuthRefusal
    <3>3. at[r] \in 3 .. Len(Chain(q)) /\ at[r] # Len(Chain(q))
      BY <2>1, <2>2
    <3>4. /\ resp' = [resp EXCEPT ![r] = Written(@, [code |-> code, body |-> "error"])]
          /\ started' \subseteq Requests /\ failed' \subseteq Requests
          /\ UNCHANGED <<req, ginUser, logged>>
      BY <1>1, <1>5, <2>3, <3>1 DEF RequireAuth, Write, TypeOK
    <3> QED
      BY <2>1, <2>2, <3>2, <3>3, <3>4, Answers
  <2>4. CASE /\ AuthRefusal(q) = {} /\ UNCHANGED resp
             /\ ginUser' = [ginUser EXCEPT ![r] = q.user]
    <3>1. resp[r].answers = <<>> /\ resp[r].origin = q.frontend
      BY <1>1, <2>chained, <2>1 DEF Sound, Handled, Redirected
    <3>2. ginUser' \in [Requests -> Accounts \cup {NoUser}]
      BY <1>1, <2>4 DEF TypeOK, Request
    <3>3. at[r] \in 1 .. 3 /\ at[r] < Len(Chain(q))
      BY <2>1, <2>2
    <3>4. /\ resp' = [resp EXCEPT ![r] = resp[r]]
          /\ UNCHANGED <<req, logged, started, failed>>
      BY <1>1, <1>5, <2>4 DEF RequireAuth
    <3> QED
      BY <1>1, <2>1, <2>2, <2>4, <3>1, <3>2, <3>3, <3>4, GoesBy
  <2> QED
    BY <1>5, <2>3, <2>4 DEF RequireAuth
<1>6. CASE RequireAdmin(r)
  <2>chained. q.route # "TrailingSlash"
    BY <1>6, <1>ran DEF RequireAdmin
  <2>1. at[r] = 3 /\ q.route = "TriggerMonthly" /\ at' = [at EXCEPT ![r] = @ + 1]
    BY <1>1, <1>6, Position DEF RequireAdmin
  <2>2. q.route \notin ApiRoutes /\ q.route \in Grouped /\ Len(Chain(q)) = 4
    BY <1>2, <2>chained, <2>1 DEF ApiRoutes, Grouped
  <2>3. CASE \E code \in AdminRefusal(q) : Write(r, code, "error")
    <3>1. PICK code \in AdminRefusal(q) : Write(r, code, "error")
      BY <2>3
    <3>2. [code |-> code, body |-> "error"] \in Answer
      BY DEF Answer, AdminRefusal
    <3>3. at[r] \in 3 .. Len(Chain(q)) /\ at[r] # Len(Chain(q))
      BY <2>1, <2>2
    <3>4. /\ resp' = [resp EXCEPT ![r] = Written(@, [code |-> code, body |-> "error"])]
          /\ started' \subseteq Requests /\ failed' \subseteq Requests
          /\ UNCHANGED <<req, ginUser, logged>>
      BY <1>1, <1>6, <3>1 DEF RequireAdmin, Write, TypeOK
    <3> QED
      BY <2>1, <2>2, <3>2, <3>3, <3>4, Answers
  <2>4. CASE AdminRefusal(q) = {} /\ UNCHANGED resp
    <3>1. resp[r].answers = <<>> /\ resp[r].origin = q.frontend
      BY <1>1, <2>chained, <2>1 DEF Sound, Handled, Redirected
    <3>2. at[r] \in 1 .. 3 /\ at[r] < Len(Chain(q))
      BY <2>1, <2>2
    <3>3. /\ resp' = [resp EXCEPT ![r] = resp[r]]
          /\ ginUser' \in [Requests -> Accounts \cup {NoUser}]
          /\ UNCHANGED <<req, logged, started, failed>>
      BY <1>1, <1>6, <2>4 DEF RequireAdmin, TypeOK
    <3> QED
      BY <1>1, <2>1, <2>2, <2>4, <3>1, <3>2, <3>3, GoesBy
  <2> QED
    BY <1>6, <2>3, <2>4 DEF RequireAdmin
<1>7. CASE Log(r)
  <2>chained. q.route # "TrailingSlash"
    BY <1>1, <1>7, ChainFacts DEF Log, Chained
  <2> DEFINE n == at[r] + 1
             l == Append(logged[r], resp[r].status)
  <2>1. /\ at[r] = Len(Chain(q)) + 1 /\ n \in Nat /\ n = Len(Chain(q)) + 2
        /\ resp[r].answers # <<>> /\ resp[r].status = resp[r].answers[1].code
        /\ logged[r] = <<>> /\ resp[r].status \in Nat
    BY <1>1, <1>2, <1>7, <2>chained DEF Log, Sound, Handled, Redirected, Response
  <2>2. l \in Seq(Nat) /\ l = <<resp[r].answers[1].code>>
    BY <2>1
  <2>3. Sound(q, n, resp[r], l)
    <3>1. /\ ~ (n = 4 /\ q.route \in ApiRoutes) /\ ~ (n = 4 /\ q.route = "TriggerMonthly")
          /\ ~ (n <= Len(Chain(q)) + 1) /\ n >= 5
      BY <1>2, <2>chained, <2>1 DEF Grouped
    <3> QED
      BY <1>1, <1>2, <2>chained, <2>1, <2>2, <3>1 DEF Sound, Handled, Redirected
  <2>4. /\ req' = [req EXCEPT ![r] = q] /\ resp' = [resp EXCEPT ![r] = resp[r]]
        /\ at' = [at EXCEPT ![r] = n] /\ logged' = [logged EXCEPT ![r] = l]
    BY <1>7, <1>1 DEF Log, TypeOK
  <2>5. /\ ginUser' \in [Requests -> Accounts \cup {NoUser}]
        /\ started' \subseteq Requests /\ failed' \subseteq Requests
        /\ n <= Len(Chain(q)) + 2
    BY <1>1, <1>2, <1>7, <2>chained, <2>1 DEF Log, TypeOK
  <2> HIDE DEF n, l
  <2> QED
    BY <1>1, <2>1, <2>2, <2>3, <2>4, <2>5, OneRequestMoves
<1> QED
  BY <1>3, <1>4, <1>5, <1>6, <1>7 DEF Middleware

\* The handler at the end of a chain answers.
LEMMA LastAnswers ==
    ASSUME IInv, NEW r \in Requests, NEW handler \in Routes, Runs(r, handler),
           NEW a \in Answer, OfHandler(handler, a.code),
           handler \in ApiRoutes => a.body = "error",
           resp' = [resp EXCEPT ![r] = Written(@, a)],
           started' \subseteq Requests, failed' \subseteq Requests,
           UNCHANGED <<req, ginUser, logged>>
    PROVE  IInv'
<1>1. TypeOK /\ req[r] \in Request
  BY DEF IInv, TypeOK
<1>2. at[r] = Len(Chain(req[r])) /\ req[r].route = handler /\ at' = [at EXCEPT ![r] = @ + 1]
  BY <1>1, Position
<1>3. /\ req[r].route \in Grouped => Len(Chain(req[r])) = 4
      /\ req[r].route \notin Grouped => Len(Chain(req[r])) = 3
  <2>1. Chained(req[r])
    BY <1>1, Position
  <2> QED
    BY <1>1, <2>1, ChainLength
<1>4. /\ at[r] \in 3 .. Len(Chain(req[r]))
      /\ at[r] = 3 => req[r].route \notin ApiRoutes
      /\ at[r] = 3 => req[r].route # "TriggerMonthly"
  <2>1. CASE req[r].route \in Grouped
    <3>1. Len(Chain(req[r])) = 4
      BY <1>3, <2>1
    <3> QED
      BY <1>2, <3>1
  <2>2. CASE req[r].route \notin Grouped
    <3>1. Len(Chain(req[r])) = 3
      BY <1>3, <2>2
    <3> QED
      BY <1>2, <2>2, <3>1 DEF Grouped
  <2> QED
    BY <2>1, <2>2
<1>5. OfHandler(req[r].route, a.code)
  BY <1>2
<1>6. (req[r].route \in ApiRoutes /\ req[r].user = NoUser) => a.body = "error"
  BY <1>2
<1> QED
  BY <1>2, <1>4, <1>5, <1>6, Answers

\* A controller or NoRoute runs: an answer, then the way back through the logger.
LEMMA ControllerStep ==
    ASSUME IInv, NEW r \in Requests, Controller(r)
    PROVE  IInv'
<1>1. started \subseteq Requests /\ failed \subseteq Requests
  BY DEF IInv, TypeOK
<1>2. CASE AuthHandler(r)
  <2>1. PICK s \in AuthAnswers(req[r].route) :
           Write(r, s, IF s = 307 THEN "redirect" ELSE "error")
    BY <1>2 DEF AuthHandler
  <2> DEFINE a == [code |-> s, body |-> IF s = 307 THEN "redirect" ELSE "error"]
  <2>2. a \in Answer /\ OfHandler(req[r].route, a.code)
    <3>1. s \in Nat /\ s # 401 /\ req[r].route # "TriggerMonthly"
      BY <1>2 DEF AuthAnswers, AuthHandler, AuthRoutes
    <3> QED
      BY <3>1 DEF Answer, OfHandler
  <2>4. resp' = [resp EXCEPT ![r] = Written(@, a)]
    BY <2>1 DEF Write
  <2>3. req[r].route \in Routes \ (ApiRoutes \cup {"TriggerMonthly"}) /\ Runs(r, req[r].route)
        /\ UNCHANGED <<req, ginUser, logged, started, failed>>
    BY <1>2 DEF AuthHandler, Routes, ApiRoutes, AuthRoutes
  <2> HIDE DEF a
  <2> QED
    BY <1>1, <2>2, <2>3, <2>4, LastAnswers
<1>3. CASE HealthCheck(r)
  <2> DEFINE a == [code |-> 200, body |-> "data"]
  <2>1. a \in Answer /\ OfHandler("HealthCheck", a.code)
    BY DEF Answer, OfHandler
  <2>2. Runs(r, "HealthCheck") /\ resp' = [resp EXCEPT ![r] = Written(@, a)]
        /\ "HealthCheck" \in Routes \ ApiRoutes /\ UNCHANGED <<req, ginUser, logged, started, failed>>
    BY <1>3 DEF HealthCheck, Routes, ApiRoutes, Write
  <2> HIDE DEF a
  <2> QED
    BY <1>1, <2>1, <2>2, LastAnswers
<1>4. CASE NoRoute(r)
  <2> DEFINE a == [code |-> 404, body |-> "error"]
  <2>1. a \in Answer /\ OfHandler("NoRoute", a.code)
    BY DEF Answer, OfHandler
  <2>2. Runs(r, "NoRoute") /\ resp' = [resp EXCEPT ![r] = Written(@, a)]
        /\ "NoRoute" \in Routes \ ApiRoutes /\ UNCHANGED <<req, ginUser, logged, started, failed>>
    BY <1>4 DEF NoRoute, Routes, ApiRoutes, Write
  <2> HIDE DEF a
  <2> QED
    BY <1>1, <2>1, <2>2, LastAnswers
<1>5. CASE TriggerMonthly(r)
  <2> DEFINE a == [code |-> 202, body |-> "job started"]
  <2>1. a \in Answer /\ OfHandler("TriggerMonthly", a.code)
    BY DEF Answer, OfHandler
  <2>2. Runs(r, "TriggerMonthly") /\ resp' = [resp EXCEPT ![r] = Written(@, a)]
        /\ "TriggerMonthly" \in Routes \ ApiRoutes /\ started' = started \cup {r}
        /\ UNCHANGED <<req, ginUser, logged, failed>>
    BY <1>5 DEF TriggerMonthly, Routes, ApiRoutes, Write
  <2>3. started' \subseteq Requests /\ failed' \subseteq Requests
    BY <1>1, <2>2
  <2> HIDE DEF a
  <2> QED
    BY <2>1, <2>2, <2>3, LastAnswers
<1> DEFINE failure == [code |-> 500, body |-> "error"]
<1>failure. /\ failure \in Answer /\ failure.body = "error"
            /\ \A handler \in ApiRoutes : OfHandler(handler, failure.code)
  BY DEF Answer, OfHandler, ApiRoutes
<1>6. ASSUME NEW noRow, QueryAnswer(r, noRow)
      PROVE  failed' \subseteq Requests /\ resp' = [resp EXCEPT ![r] = Written(@, failure)]
  <2>1. Found(UserIDFromContext(r)) = {"refused"}
    BY NoUserAssumption DEF Found, UserIDFromContext
  <2>2. Write(r, 500, "error")
    BY <1>6, <2>1 DEF QueryAnswer
  <2> QED
    BY <1>1, <1>6, <2>2 DEF QueryAnswer, Write
<1> HIDE DEF failure
<1>7. CASE GetMe(r)
  <2>1. Runs(r, "GetMe") /\ QueryAnswer(r, [code |-> 404, body |-> "error"])
        /\ "GetMe" \in Routes /\ "GetMe" \in ApiRoutes /\ UNCHANGED <<req, ginUser, logged, started>>
    BY <1>7 DEF GetMe, Routes, ApiRoutes
  <2> QED
    BY <1>1, <1>6, <1>failure, <2>1, LastAnswers
<1>8. CASE GetStats(r)
  <2>1. Runs(r, "GetStats") /\ "GetStats" \in Routes /\ "GetStats" \in ApiRoutes
        /\ UNCHANGED <<req, ginUser, logged, started>>
    BY <1>8 DEF GetStats, Routes, ApiRoutes
  <2>2. CASE QueryAnswer(r, [code |-> 404, body |-> "noStats"])
    BY <1>1, <1>6, <1>failure, <2>1, <2>2, LastAnswers
  <2>3. CASE Write(r, 400, "error") /\ UNCHANGED failed
    <3> DEFINE a == [code |-> 400, body |-> "error"]
    <3>1. a \in Answer /\ OfHandler("GetStats", a.code) /\ a.body = "error"
      BY DEF Answer, OfHandler
    <3>2. resp' = [resp EXCEPT ![r] = Written(@, a)] /\ UNCHANGED failed
      BY <2>3 DEF Write
    <3> HIDE DEF a
    <3> QED
      BY <1>1, <2>1, <3>1, <3>2, LastAnswers
  <2> QED
    BY <1>8, <2>2, <2>3 DEF GetStats
<1>9. CASE GetStatsHistory(r)
  <2>1. Runs(r, "GetStatsHistory") /\ QueryAnswer(r, [code |-> 200, body |-> "data"])
        /\ "GetStatsHistory" \in Routes
        /\ "GetStatsHistory" \in ApiRoutes /\ UNCHANGED <<req, ginUser, logged, started>>
    BY <1>9 DEF GetStatsHistory, Routes, ApiRoutes
  <2> QED
    BY <1>1, <1>6, <1>failure, <2>1, LastAnswers
<1> QED
  BY <1>2, <1>3, <1>4, <1>5, <1>7, <1>8, <1>9 DEF Controller

\* gin redirects: the only answer of a request without a chain.
LEMMA RedirectStep ==
    ASSUME IInv, NEW r \in Requests, Redirect(r)
    PROVE  IInv'
<1> DEFINE q == req[r]
           p == resp[r]
<1>1. /\ q \in Request /\ q.route = "TrailingSlash" /\ at[r] = 1 /\ p \in Response
      /\ logged[r] \in Seq(Nat) /\ Redirected(1, p, logged[r])
  BY DEF IInv, TypeOK, Redirect, Sound
<1>2. PICK code \in {301, 307} : Write(r, code, "redirect")
  BY DEF Redirect
<1> DEFINE a == [code |-> code, body |-> "redirect"]
           w == Written(p, a)
<1>3. a \in Answer /\ a.code = code
  BY DEF Answer
<1>4. resp' = [resp EXCEPT ![r] = w]
  BY <1>2 DEF Write, IInv, TypeOK
<1> HIDE DEF a
<1>5. /\ w \in Response /\ w.origin = p.origin /\ w.answers[1] = a
      /\ w.status = a.code /\ w.sentOrigin = p.origin
  BY <1>1, <1>3, WrittenFacts DEF Redirected
<1>6. Sound(q, 2, w, logged[r])
  BY <1>1, <1>3, <1>5 DEF Sound, Redirected
<1>7. /\ req' = [req EXCEPT ![r] = q] /\ logged' = [logged EXCEPT ![r] = logged[r]]
      /\ at' = [at EXCEPT ![r] = 2] /\ UNCHANGED <<ginUser, started, failed>>
  BY <1>1 DEF IInv, TypeOK, Redirect
<1>8. Len(Chain(q)) = 0
  BY <1>1, ChainFacts DEF Chained
<1> QED
  BY <1>1, <1>4, <1>5, <1>6, <1>7, <1>8, OneRequestMoves DEF IInv, TypeOK

-----------------------------------------------------------------------------
(***************************************************************************)
(* The theorems.                                                           *)
(***************************************************************************)

\* Every step keeps the invariant.
LEMMA NextIInv == IInv /\ [Next]_vars => IInv'
<1> SUFFICES ASSUME IInv, [Next]_vars PROVE IInv'
  OBVIOUS
<1>1. CASE UNCHANGED vars
  BY <1>1 DEF vars, IInv, TypeOK
<1>2. ASSUME NEW r \in Requests, Step(r) PROVE IInv'
  BY <1>2, ArriveStep, MiddlewareStep, ControllerStep, RedirectStep DEF Step
<1> QED
  BY <1>1, <1>2 DEF Next

\* server.go:22-53.  Every reachable state satisfies the inductive invariant.
THEOREM InvHolds == Spec => []IInv
BY InitIInv, NextIInv, PTL DEF Spec

\* Every variable keeps its type, and no chain runs past its end.
THEOREM TypeCorrect == Spec => []TypeOK
<1>1. IInv => TypeOK
  BY DEF IInv
<1> QED
  BY <1>1, InvHolds, PTL

\* server.go:67-80.  A request is logged at most once, with the status sent.
THEOREM LoggedAsSentHolds == Spec => []LoggedAsSent
<1>1. IInv => LoggedAsSent
  BY DEF IInv, Sound, Handled, Redirected, LoggedAsSent
<1> QED
  BY <1>1, InvHolds, PTL

\* cors.go:18-20.  Every answer tells the browser whether the page may read it.
THEOREM OriginOnEveryAnswerHolds == Spec => []OriginOnEveryAnswer
<1>1. IInv => OriginOnEveryAnswer
  <2> SUFFICES ASSUME IInv, NEW r \in Requests, resp[r].answers # <<>>
         PROVE  resp[r].sentOrigin = (req[r].frontend /\ req[r].route # "TrailingSlash")
    BY DEF OriginOnEveryAnswer
  <2>1. Sound(req[r], at[r], resp[r], logged[r]) /\ req[r] \in Request /\ resp[r] \in Response
    BY DEF IInv, TypeOK
  <2>2. CASE req[r].route = "TrailingSlash"
    <3>1. resp[r].sentOrigin \in BOOLEAN /\ ~ resp[r].sentOrigin
      BY <2>1, <2>2 DEF Sound, Redirected, Response
    <3> QED
      BY <2>2, <3>1
  <2>3. CASE req[r].route # "TrailingSlash"
    BY <2>1, <2>3 DEF Sound, Handled, Request, Response
  <2> QED
    BY <2>2, <2>3
<1> QED
  BY <1>1, InvHolds, PTL

\* middleware.go:44-117.  What runs after a refusal does not change its status.
THEOREM RefusalStandsHolds == Spec => []RefusalStands
<1>1. IInv => RefusalStands
  <2> SUFFICES ASSUME IInv, NEW r \in Requests, resp[r].answers # <<>>
         PROVE  /\ resp[r].status = 401 <=> req[r].route \in ApiRoutes /\ req[r].user = NoUser
                /\ req[r].route = "TriggerMonthly" =>
                      resp[r].status = IF ~ AdminKeySet THEN 404
                                       ELSE IF ~ req[r].key THEN 403 ELSE 202
    BY DEF RefusalStands
  <2>1. Sound(req[r], at[r], resp[r], logged[r]) /\ req[r] \in Request /\ resp[r] \in Response
    BY DEF IInv, TypeOK
  <2>2. CASE req[r].route = "TrailingSlash"
    BY <2>1, <2>2 DEF Sound, Redirected, ApiRoutes
  <2>3. CASE req[r].route # "TrailingSlash"
    BY <2>1, <2>3 DEF Sound, Handled, Request, Response
  <2> QED
    BY <2>2, <2>3
<1> QED
  BY <1>1, InvHolds, PTL

\* middleware.go:44-65.  The handlers that run for a request without a session
\* tell it nothing of the tables.
THEOREM RefusedLearnsNothingHolds == Spec => []RefusedLearnsNothing
<1>1. IInv => RefusedLearnsNothing
  <2> SUFFICES ASSUME IInv, NEW r \in Requests, req[r].route \in ApiRoutes, req[r].user = NoUser
         PROVE  \A i \in DOMAIN resp[r].answers : resp[r].answers[i].body = "error"
    BY DEF RefusedLearnsNothing
  <2>1. Sound(req[r], at[r], resp[r], logged[r]) /\ req[r] \in Request /\ resp[r] \in Response
    BY DEF IInv, TypeOK
  <2>2. CASE req[r].route = "TrailingSlash"
    BY <2>1, <2>2 DEF Sound, Redirected, ApiRoutes
  <2>3. CASE req[r].route # "TrailingSlash"
    BY <2>1, <2>3 DEF Sound, Handled, Request, Response
  <2> QED
    BY <2>2, <2>3
<1> QED
  BY <1>1, InvHolds, PTL

-----------------------------------------------------------------------------
(***************************************************************************)
(* The API implements the plain exchange.                                  *)
(***************************************************************************)

\* A handler goes by: what a client has been told stays as it is.
Silent(r) == UNCHANGED <<req, logged>> /\ \A s \in Requests : resp'[s].answers = resp[s].answers

\* A handler answers, the first time with a status the request may get.
Answered(r) ==
    /\ UNCHANGED <<req, logged>>
    /\ \E a \in Answer :
          /\ resp' = [resp EXCEPT ![r] = Written(@, a)]
          /\ resp[r].answers = <<>> => a.code \in StatusesOf(req[r])

\* A middleware before the handler is silent or refuses.
LEMMA MiddlewareAnswers ==
    ASSUME IInv, NEW r \in Requests, Middleware(r), ~ Log(r)
    PROVE  Silent(r) \/ Answered(r)
<1> DEFINE q == req[r]
<1>1. TypeOK /\ q \in Request /\ resp \in [Requests -> Response]
  BY DEF IInv, TypeOK
<1>2. UNCHANGED resp /\ UNCHANGED <<req, logged>> => Silent(r)
  BY DEF Silent
<1>3. CASE RequestLogger(r)
  BY <1>2, <1>3 DEF RequestLogger
<1>4. CASE Cors(r)
  <2>1. \A s \in Requests : resp'[s].answers = resp[s].answers
    BY <1>1, <1>4 DEF Cors, SetStatus, Response
  <2> QED
    BY <1>4, <2>1 DEF Cors, Silent
<1>5. ASSUME NEW code, code \in Refusal(q), code \in Nat, Write(r, code, "error"),
             UNCHANGED <<req, logged>>
      PROVE  Answered(r)
  <2> DEFINE a == [code |-> code, body |-> "error"]
  <2>1. a \in Answer /\ a.code = code
    BY <1>5 DEF Answer
  <2>2. resp' = [resp EXCEPT ![r] = Written(@, a)]
    BY <1>5 DEF Write
  <2>3. code \in StatusesOf(q)
    BY <1>5 DEF StatusesOf
  <2> HIDE DEF a
  <2> QED
    BY <1>5, <2>1, <2>2, <2>3 DEF Answered
<1>6. CASE RequireAuth(r)
  <2>1. Refusal(q) = AuthRefusal(q)
    BY <1>1, <1>6, Position DEF RequireAuth, Refusal, AuthRefusal, ApiRoutes
  <2> QED
    BY <1>2, <1>5, <1>6, <2>1 DEF RequireAuth, AuthRefusal
<1>7. CASE RequireAdmin(r)
  <2>1. q.route = "TriggerMonthly"
    BY <1>1, <1>7, Position DEF RequireAdmin
  <2>2. Refusal(q) = AdminRefusal(q)
    BY <2>1 DEF Refusal, AdminRefusal, ApiRoutes
  <2> QED
    BY <1>2, <1>5, <1>7, <2>2 DEF RequireAdmin, AdminRefusal
<1> QED
  BY <1>3, <1>4, <1>6, <1>7 DEF Middleware

\* Where nobody has answered, nobody has refused: the last handler's answer is
\* one its route promises.
LEMMA ControllerAnswers ==
    ASSUME IInv, NEW r \in Requests, Controller(r)
    PROVE  Answered(r)
<1> DEFINE q == req[r]
<1>1. TypeOK /\ q \in Request /\ Sound(q, at[r], resp[r], logged[r])
  BY DEF IInv, TypeOK
<1>2. ASSUME NEW handler \in Routes, Runs(r, handler), resp[r].answers = <<>>
      PROVE  StatusesOf(q) = Promised(q)
  <2>1. at[r] = Len(Chain(q)) /\ q.route = handler
    BY <1>1, <1>2, Position
  <2>2. Chained(q) /\ (q.route \in Grouped => at[r] = 4)
    BY <1>1, <1>2, <2>1, ChainFacts, Position
  <2>3. /\ q.route \in ApiRoutes => AuthRefusal(q) = {}
        /\ q.route = "TriggerMonthly" => AdminRefusal(q) = {}
    BY <1>1, <1>2, <2>2 DEF Sound, Handled, Chained, Grouped
  <2> QED
    BY <2>3 DEF StatusesOf, Refusal, AuthRefusal, AdminRefusal
<1>3. ASSUME NEW handler \in Routes, Runs(r, handler), UNCHANGED <<req, logged>>,
             NEW code \in Nat, code \in Promised(q),
             NEW body \in {"error", "data", "noStats", "redirect", "job started"},
             Write(r, code, body)
      PROVE  Answered(r)
  <2> DEFINE a == [code |-> code, body |-> body]
  <2>1. a \in Answer /\ a.code = code
    BY <1>3 DEF Answer
  <2>2. resp' = [resp EXCEPT ![r] = Written(@, a)]
    BY <1>3 DEF Write
  <2>3. resp[r].answers = <<>> => code \in StatusesOf(q)
    BY <1>2, <1>3
  <2> HIDE DEF a
  <2> QED
    BY <1>3, <2>1, <2>2, <2>3 DEF Answered
<1>error. ASSUME NEW handler \in Routes, Runs(r, handler), UNCHANGED <<req, logged>>,
                 NEW code \in {400, 404, 500}, code \in Promised(q), Write(r, code, "error")
          PROVE  Answered(r)
  <2>1. code \in Nat
    OBVIOUS
  <2> QED
    BY <1>3, <1>error, <2>1
<1>4. ASSUME NEW handler, Runs(r, handler), handler \in Routes PROVE q.route = handler
  BY <1>1, <1>4, Position
<1>5. CASE AuthHandler(r)
  <2>1. Promised(q) = AuthAnswers(q.route) /\ q.route \in Routes
    BY <1>5 DEF AuthHandler, Promised, AuthRoutes, Routes
  <2>2. PICK code \in AuthAnswers(q.route) :
           Write(r, code, IF code = 307 THEN "redirect" ELSE "error")
    BY <1>5 DEF AuthHandler
  <2>3. code \in Nat
    BY DEF AuthAnswers
  <2>4. Runs(r, q.route) /\ UNCHANGED <<req, logged>>
    BY <1>5 DEF AuthHandler
  <2>5. CASE code = 307
    BY <1>3, <2>1, <2>2, <2>3, <2>4, <2>5
  <2>6. CASE code # 307
    BY <1>3, <2>1, <2>2, <2>3, <2>4, <2>6
  <2> QED
    BY <2>5, <2>6
<1>6. CASE HealthCheck(r)
  <2>1. q.route = "HealthCheck"
    BY <1>4, <1>6 DEF HealthCheck, Routes
  <2>2. 200 \in Promised(q)
    BY <2>1 DEF Promised, ApiRoutes, AuthRoutes
  <2> QED
    BY <1>3, <1>6, <2>2 DEF HealthCheck, Routes
<1>7. CASE NoRoute(r)
  <2>1. q.route = "NoRoute"
    BY <1>4, <1>7 DEF NoRoute, Routes
  <2>2. 404 \in Promised(q)
    BY <2>1 DEF Promised, ApiRoutes, AuthRoutes
  <2> QED
    BY <1>error, <1>7, <2>2 DEF NoRoute, Routes
<1>8. CASE TriggerMonthly(r)
  <2>1. q.route = "TriggerMonthly"
    BY <1>4, <1>8 DEF TriggerMonthly, Routes
  <2>2. 202 \in Promised(q)
    BY <2>1 DEF Promised, ApiRoutes, AuthRoutes
  <2> QED
    BY <1>3, <1>8, <2>2 DEF TriggerMonthly, Routes
<1>9. ASSUME NEW noRow, QueryAnswer(r, noRow) PROVE Write(r, 500, "error")
  <2>1. Found(UserIDFromContext(r)) = {"refused"}
    BY NoUserAssumption DEF Found, UserIDFromContext
  <2> QED
    BY <1>9, <2>1 DEF QueryAnswer
<1>10. CASE GetMe(r)
  <2>1. "GetMe" \in Routes /\ Runs(r, "GetMe") /\ UNCHANGED <<req, logged>>
        /\ Write(r, 500, "error")
    BY <1>9, <1>10 DEF GetMe, Routes, ApiRoutes
  <2>2. 500 \in Promised(q)
    BY <1>4, <2>1 DEF Promised, ApiRoutes, AuthRoutes
  <2> QED
    BY <1>error, <2>1, <2>2
<1>11. CASE GetStats(r)
  <2>1. "GetStats" \in Routes /\ Runs(r, "GetStats") /\ UNCHANGED <<req, logged>>
    BY <1>11 DEF GetStats, Routes, ApiRoutes
  <2>2. /\ q.month => 500 \in Promised(q)
        /\ ~ q.month => 400 \in Promised(q)
    BY <1>4, <2>1 DEF Promised, ApiRoutes, AuthRoutes
  <2>3. \/ q.month /\ Write(r, 500, "error")
        \/ ~ q.month /\ Write(r, 400, "error")
    BY <1>9, <1>11 DEF GetStats
  <2> QED
    BY <1>error, <2>1, <2>2, <2>3
<1>12. CASE GetStatsHistory(r)
  <2>1. "GetStatsHistory" \in Routes /\ Runs(r, "GetStatsHistory")
        /\ UNCHANGED <<req, logged>> /\ Write(r, 500, "error")
    BY <1>9, <1>12 DEF GetStatsHistory, Routes, ApiRoutes
  <2>2. 500 \in Promised(q)
    BY <1>4, <2>1 DEF Promised, ApiRoutes, AuthRoutes
  <2> QED
    BY <1>error, <2>1, <2>2
<1> QED
  BY <1>5, <1>6, <1>7, <1>8, <1>10, <1>11, <1>12 DEF Controller

\* gin's redirect is an answer its request may get.
LEMMA RedirectAnswers ==
    ASSUME IInv, NEW r \in Requests, Redirect(r)
    PROVE  Answered(r)
<1>1. PICK code \in {301, 307} : Write(r, code, "redirect")
  BY DEF Redirect
<1> DEFINE a == [code |-> code, body |-> "redirect"]
<1>2. a \in Answer /\ a.code = code
  BY DEF Answer
<1>3. resp' = [resp EXCEPT ![r] = Written(@, a)] /\ UNCHANGED <<req, logged>>
  BY <1>1 DEF Write, Redirect
<1>4. code \in StatusesOf(req[r])
  BY DEF Redirect, StatusesOf, Refusal, Promised, ApiRoutes, AuthRoutes
<1> HIDE DEF a
<1> QED
  BY <1>2, <1>3, <1>4 DEF Answered

\* Every step of a request is one of the exchange, or changes nothing a client
\* is told: it is made, answered for the first time, recorded, or goes on.
LEMMA StepMaps == IInv /\ [Next]_vars => [Contract!Next]_(Contract!vars)
<1> SUFFICES ASSUME IInv, [Next]_vars PROVE Contract!Next \/ UNCHANGED Contract!vars
  OBVIOUS
<1> DEFINE asked == [r \in Requests |-> IF at[r] = 0 THEN {} ELSE {req[r]}]
           reply == [r \in Requests |-> ReplyOf(resp[r])]
<1>1. /\ TypeOK
      /\ \A r \in Requests : req[r] \in Request /\ at[r] \in Nat /\ resp[r] \in Response
      /\ \A r \in Requests : Sound(req[r], at[r], resp[r], logged[r])
  BY DEF IInv, TypeOK
<1>2. CASE UNCHANGED vars
  BY <1>2 DEF vars, Contract!vars
<1>3. ASSUME NEW r \in Requests, Arrive(r) PROVE Contract!Next
  <2>1. PICK q \in Arrivals : req' = [req EXCEPT ![r] = q]
    BY <1>3 DEF Arrive
  <2>2. q \in Request
    BY DEF Arrivals
  <2>3. at[r] = 0 /\ at' = [at EXCEPT ![r] = 1] /\ UNCHANGED <<resp, logged>>
    BY <1>3 DEF Arrive
  <2>4. asked[r] = {} /\ asked' = [asked EXCEPT ![r] = {q}]
    <3>1. /\ at'[r] = 1 /\ req'[r] = q
          /\ \A s \in Requests : s # r => at'[s] = at[s] /\ req'[s] = req[s]
      BY <1>1, <2>1, <2>3 DEF TypeOK
    <3>2. \A s \in Requests : (IF at[s] = 0 THEN {} ELSE {req[s]})'
                               = IF s = r THEN {q} ELSE asked[s]
      BY <3>1
    <3>3. asked' = [s \in Requests |-> IF s = r THEN {q} ELSE asked[s]]
      BY <3>2
    <3>4. asked[r] = {}
      BY <2>3
    <3> QED
      BY <3>3, <3>4
  <2>5. reply' = reply
    BY <2>3
  <2> HIDE DEF asked, reply
  <2>6. Contract!Ask(r)
    BY <2>2, <2>3, <2>4, <2>5 DEF Contract!Ask, asked, reply
  <2> QED
    BY <2>6 DEF Contract!Next
<1>4. ASSUME NEW r \in Requests, Middleware(r) \/ Controller(r) \/ Redirect(r)
      PROVE  asked' = asked /\ at[r] > 0
  <2>1. /\ at[r] > 0 /\ at' = [at EXCEPT ![r] = @ + 1] /\ req' = req
    <3>1. \A h : Runs(r, h) => at[r] > 0 /\ at' = [at EXCEPT ![r] = @ + 1]
      BY <1>1 DEF Runs
    <3>2. Log(r) => at[r] > 0 /\ at' = [at EXCEPT ![r] = @ + 1] /\ req' = req
      BY <1>1, ChainFacts DEF Log, Chained
    <3>3. Middleware(r) => Log(r) \/ (req' = req /\ \E h : Runs(r, h))
      BY DEF Middleware, RequestLogger, Cors, RequireAuth, RequireAdmin
    <3>5. Redirect(r) => at[r] > 0 /\ at' = [at EXCEPT ![r] = @ + 1] /\ req' = req
      BY DEF Redirect
    <3>4. Controller(r) => req' = req /\ \E h : Runs(r, h)
      BY DEF Controller, AuthHandler, HealthCheck, NoRoute, GetMe, GetStats,
             GetStatsHistory, TriggerMonthly
    <3> QED
      BY <1>4, <3>1, <3>2, <3>3, <3>4, <3>5
  <2>2. \A s \in Requests : at'[s] = 0 <=> at[s] = 0
    BY <1>1, <2>1 DEF TypeOK
  <2> QED
    BY <2>1, <2>2
<1>5. ASSUME NEW r \in Requests, Log(r) PROVE Contract!Next
  <2>1. /\ logged[r] = <<>> /\ resp[r].answers # <<>>
        /\ resp[r].status = resp[r].answers[1].code
    BY <1>1, <1>5, ChainFacts DEF Log, Chained, Sound, Handled, Redirected
  <2>2. logged' = [logged EXCEPT ![r] = <<resp[r].answers[1].code>>] /\ UNCHANGED resp
    BY <1>1, <1>5, <2>1 DEF Log, TypeOK
  <2>3. asked' = asked /\ reply' = reply
    BY <1>4, <1>5, <2>2 DEF Middleware
  <2>4. reply[r] = {resp[r].answers[1].code}
    BY <2>1 DEF ReplyOf
  <2> HIDE DEF asked, reply
  <2>5. Contract!Record(r)
    BY <2>1, <2>2, <2>3, <2>4 DEF Contract!Record, asked, reply
  <2> QED
    BY <2>5 DEF Contract!Next
<1>6. ASSUME NEW r \in Requests, Middleware(r) \/ Controller(r) \/ Redirect(r), Silent(r)
      PROVE  UNCHANGED Contract!vars
  <2>1. reply' = reply
    BY <1>6 DEF Silent, ReplyOf
  <2> QED
    BY <1>4, <1>6, <2>1 DEF Silent, Contract!vars
<1>7. ASSUME NEW r \in Requests, Middleware(r) \/ Controller(r) \/ Redirect(r), Answered(r)
      PROVE  Contract!Next \/ UNCHANGED Contract!vars
  <2>1. PICK a \in Answer : /\ resp' = [resp EXCEPT ![r] = Written(@, a)]
                            /\ resp[r].answers = <<>> => a.code \in StatusesOf(req[r])
    BY <1>7 DEF Answered
  <2>2. /\ resp'[r] = Written(resp[r], a)
        /\ \A s \in Requests : s # r => resp'[s] = resp[s]
    BY <1>1, <2>1 DEF TypeOK
  <2>3. asked' = asked /\ at[r] > 0 /\ logged' = logged
    BY <1>4, <1>7 DEF Answered
  <2>4. CASE resp[r].answers = <<>>
    <3>1. reply[r] = {} /\ ReplyOf(resp'[r]) = {a.code}
      BY <1>1, <2>2, <2>4, WrittenFacts DEF ReplyOf
    <3>2. reply' = [reply EXCEPT ![r] = {a.code}]
      BY <2>2, <3>1
    <3>3. asked[r] = {req[r]}
      BY <2>3
    <3>4. a.code \in [q \in Request |-> StatusesOf(q)][req[r]]
      BY <1>1, <2>1, <2>4
    <3> HIDE DEF asked, reply
    <3>5. Contract!Reply(r)
      BY <2>3, <3>1, <3>2, <3>3, <3>4 DEF Contract!Reply, asked, reply
    <3> QED
      BY <3>5 DEF Contract!Next
  <2>5. CASE resp[r].answers # <<>>
    <3>1. ReplyOf(resp'[r]) = ReplyOf(resp[r])
      BY <1>1, <2>2, <2>5, WrittenFacts DEF ReplyOf
    <3>2. reply' = reply
      BY <2>2, <3>1
    <3> QED
      BY <2>3, <3>2 DEF Contract!vars
  <2> QED
    BY <2>4, <2>5
<1>8. ASSUME NEW r \in Requests, Step(r)
      PROVE  Contract!Next \/ UNCHANGED Contract!vars
  BY <1>3, <1>5, <1>6, <1>7, <1>8, MiddlewareAnswers, ControllerAnswers,
     RedirectAnswers DEF Step
<1> QED
  BY <1>2, <1>8 DEF Next

\* server.go:31-80, middleware.go:44-117.  Whatever runs after a refusal, a
\* client gets one status, of those its route and credentials allow, and that
\* one is logged, once.
THEOREM ImplementsExchangeHolds == Spec => ImplementsExchange
<1>1. Init => Contract!Init
  BY DEF Init, Contract!Init, NoResponse, ReplyOf
<1> QED
  BY <1>1, StepMaps, InvHolds, PTL DEF Spec, ImplementsExchange, Contract!Spec

=============================================================================
