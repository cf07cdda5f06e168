--------------------------- MODULE ServiceProofs ---------------------------
(***************************************************************************)
(* Proofs about Service: what relates requests, runs and the end of the    *)
(* process holds for any number of each, and what is proved of the parts   *)
(* by themselves holds of the process they make.                           *)
(***************************************************************************)
EXTENDS Service, MonthlyJobLedgerProofs

HttpProofs == INSTANCE ApiProofs

-----------------------------------------------------------------------------
(***************************************************************************)
(* Every step of the process is a step of the job and of the API, or       *)
(* leaves them unchanged.                                                  *)
(***************************************************************************)

\* What the process does to the monthly job is a step of the job.
LEMMA JobSteps == [ServiceNext]_allVars => [Next]_vars
<1> SUFFICES ASSUME [ServiceNext]_allVars PROVE Next \/ UNCHANGED vars
  OBVIOUS
<1>1. CASE Starts
  BY <1>1 DEF Starts, Next
<1>2. CASE Shutdown \/ ListenFails \/ Ends
  BY <1>2 DEF Shutdown, ListenFails, Ends, Next, StopStep
<1>3. CASE Background
  BY <1>3 DEF Background, Next, StopStep
<1>4. ASSUME NEW r \in Requests, Arrive(r) \/ Handler(r)
      PROVE  Next \/ UNCHANGED vars
  BY <1>4 DEF Arrive, Handler
<1>5. ASSUME NEW r \in Requests, Trigger(r)
      PROVE  Next \/ UNCHANGED vars
  BY <1>5 DEF Trigger, StartRun, Next
<1>6. ASSUME NEW r \in Requests, Callback(r)
      PROVE  Next \/ UNCHANGED vars
  BY <1>6 DEF Callback, Next
<1>7. CASE UNCHANGED allVars
  BY <1>7 DEF allVars
<1> QED
  BY <1>1, <1>2, <1>3, <1>4, <1>5, <1>6, <1>7 DEF ServiceNext, RequestStep

\* What the process does to the responses is a step of the API.
LEMMA ApiSteps == [ServiceNext]_allVars => [Http!Next]_(Http!vars)
<1> SUFFICES ASSUME [ServiceNext]_allVars PROVE Http!Next \/ UNCHANGED Http!vars
  OBVIOUS
<1>1. UNCHANGED api => UNCHANGED Http!vars
  BY DEF api, Http!vars
<1>2. CASE Starts \/ Shutdown \/ ListenFails \/ Ends \/ Background
  BY <1>1, <1>2 DEF Starts, Shutdown, ListenFails, Ends, Background
<1>3. ASSUME NEW r \in Requests, Arrive(r) \/ Handler(r) \/ Trigger(r) \/ Callback(r)
      PROVE  Http!Next
  <2>1. Http!Step(r)
    BY <1>3 DEF Arrive, Handler, Trigger, Callback, Http!Step, Http!Controller
  <2> QED
    BY <2>1 DEF Http!Next
<1>4. CASE UNCHANGED allVars
  BY <1>1, <1>4 DEF allVars
<1> QED
  BY <1>2, <1>3, <1>4 DEF ServiceNext, RequestStep

\* So the process is a behaviour of both, and what is proved of them is proved
\* of it.  (It is put together from their actions: this says that nothing was
\* lost on the way, and no more.)
LEMMA PartsImplemented == ServiceSpec => Spec /\ Http!Spec
<1>1. ServiceInit => Init /\ Http!Init
  BY DEF ServiceInit
<1>2. ServiceSpec => Spec
  BY <1>1, JobSteps, PTL DEF ServiceSpec, Spec
<1>3. ServiceSpec => Http!Spec
  BY <1>1, ApiSteps, PTL DEF ServiceSpec, Http!Spec
<1> QED
  BY <1>2, <1>3

-----------------------------------------------------------------------------
(***************************************************************************)
(* Facts about the parts.                                                  *)
(***************************************************************************)

\* The two names of the API's specification.
LEMMA SameApi == Http!Spec => HttpProofs!Spec
<1>1. Http!Init => HttpProofs!Init
  BY DEF Http!Init, HttpProofs!Init, Http!NoRequest, HttpProofs!NoRequest,
         Http!NoResponse, HttpProofs!NoResponse
<1>2. Http!Next => HttpProofs!Next
  BY DEF Http!Next, HttpProofs!Next, Http!Step, HttpProofs!Step, Http!Arrive,
         HttpProofs!Arrive, Http!Arrivals, HttpProofs!Arrivals, Http!Request,
         HttpProofs!Request, Http!Routes, HttpProofs!Routes, Http!ApiRoutes,
         HttpProofs!ApiRoutes, Http!AuthRoutes, HttpProofs!AuthRoutes,
         Http!Middleware, HttpProofs!Middleware, Http!Controller,
         HttpProofs!Controller, Http!RequestLogger, HttpProofs!RequestLogger,
         Http!Cors, HttpProofs!Cors, Http!RequireAuth, HttpProofs!RequireAuth,
         Http!RequireAdmin, HttpProofs!RequireAdmin, Http!Log, HttpProofs!Log,
         Http!Runs, HttpProofs!Runs, Http!Chain, HttpProofs!Chain, Http!SetStatus,
         HttpProofs!SetStatus, Http!Written, HttpProofs!Written, Http!Write,
         HttpProofs!Write, Http!AuthRefusal, HttpProofs!AuthRefusal,
         Http!AdminRefusal, HttpProofs!AdminRefusal, Http!AuthAnswers,
         HttpProofs!AuthAnswers, Http!AuthHandler, HttpProofs!AuthHandler,
         Http!HealthCheck, HttpProofs!HealthCheck, Http!NoRoute,
         HttpProofs!NoRoute, Http!UserIDFromContext, HttpProofs!UserIDFromContext,
         Http!Found, HttpProofs!Found, Http!QueryAnswer, HttpProofs!QueryAnswer,
         Http!GetMe, HttpProofs!GetMe, Http!GetStats, HttpProofs!GetStats,
         Http!GetStatsHistory, HttpProofs!GetStatsHistory, Http!TriggerMonthly,
         HttpProofs!TriggerMonthly, Http!Redirect, HttpProofs!Redirect
<1>3. UNCHANGED Http!vars => UNCHANGED HttpProofs!vars
  BY DEF Http!vars, HttpProofs!vars
<1>4. [Http!Next]_(Http!vars) => [HttpProofs!Next]_(HttpProofs!vars)
  BY <1>2, <1>3
<1> QED
  BY <1>1, <1>4, PTL DEF Http!Spec, HttpProofs!Spec

\* What is needed of the API's type.
ApiTyped ==
    /\ at \in [Requests -> Nat]
    /\ resp \in [Requests -> Http!Response]

\* The types of the API's variables.
LEMMA ApiTypedHolds == ServiceSpec => []ApiTyped
<1>1. HttpProofs!Spec => []HttpProofs!TypeOK
  BY HttpProofs!TypeCorrect, ApiAssumption
<1>2. HttpProofs!TypeOK => ApiTyped
  BY DEF HttpProofs!TypeOK, ApiTyped, HttpProofs!Response, Http!Response,
         HttpProofs!Answer, Http!Answer
<1>3. ServiceSpec => Http!Spec
  BY PartsImplemented
<1> QED
  BY <1>1, <1>2, <1>3, SameApi, PTL

\* The types of the job's variables.
LEMMA JobTypedHolds == ServiceSpec => []TypeOK
<1>1. ServiceSpec => Spec
  BY PartsImplemented
<1> QED
  BY <1>1, TypeCorrect, PTL

\* A run that was begun stays begun, by whom it was.
LEMMA RunsKept ==
    ASSUME TypeOK, [Next]_vars, NEW j \in Jobs, job[j].stage # "idle"
    PROVE  job'[j].stage # "idle" /\ job'[j].byCron = job[j].byCron
<1>1. CASE UNCHANGED job
  BY <1>1
<1>2. CASE Die
  BY <1>2 DEF Die, TypeOK, Underway
<1>3. ASSUME NEW i \in Jobs, NEW byCron, Spawn(i, byCron)
      PROVE  job'[j].stage # "idle" /\ job'[j].byCron = job[j].byCron
  BY <1>3 DEF Spawn, TypeOK
<1>4. ASSUME NEW i \in Jobs, RunStep(i)
      PROVE  job'[j].stage # "idle" /\ job'[j].byCron = job[j].byCron
  BY <1>4 DEF RunStep, ListUsers, ListUsersFails, JobFinishes, TypeOK
<1>5. ASSUME NEW w \in Workers, CallReturns(w) \/ OwnStep(w) PROVE UNCHANGED job
  BY <1>5 DEF CallReturns, OwnStep, Fetch, FetchFails, Send, SendFails, Acquire, Compare,
              CompareFails, Store, StoreFails, Render, RenderFails, Log
<1>6. Start \/ Signal \/ ServeError \/ ShutdownReturns \/ CronDrained \/ MonthTurns \/ CronMissed
      => UNCHANGED job
  BY DEF Start, Signal, ServeError, ShutdownReturns, CronDrained, MonthTurns, CronMissed
<1>7. \A u \in Users, email \in {"noEmail", "email"} : SignIn(u, email) => UNCHANGED job
  BY DEF SignIn
<1>8. ASSUME NEW i \in Jobs, CronFire(i) \/ TriggerMonthly(i)
      PROVE  job'[j].stage # "idle" /\ job'[j].byCron = job[j].byCron
  BY <1>3, <1>8 DEF CronFire, TriggerMonthly
<1>9. UNCHANGED vars => UNCHANGED job
  BY DEF vars
<1> QED
  BY <1>1, <1>2, <1>4, <1>5, <1>6, <1>7, <1>8, <1>9 DEF Next, StopStep, Exit, Crash

\* The process begins no run without cron.
LEMMA OwnRuns ==
    ASSUME TypeOK, Starts \/ Shutdown \/ ListenFails \/ Ends \/ Background,
           NEW j \in Jobs, job'[j].stage # "idle"
    PROVE  job[j].stage # "idle" \/ job'[j].byCron
<1>1. CASE UNCHANGED job
  BY <1>1
<1>2. CASE Die
  BY <1>2 DEF Die, TypeOK, Underway
<1>3. ASSUME NEW i \in Jobs, CronFire(i) PROVE job[j].stage # "idle" \/ job'[j].byCron
  BY <1>3 DEF CronFire, Spawn, TypeOK
<1>4. ASSUME NEW i \in Jobs, RunStep(i) PROVE job[j].stage # "idle" \/ job'[j].byCron
  BY <1>4 DEF RunStep, ListUsers, ListUsersFails, JobFinishes, TypeOK
<1>5. ASSUME NEW w \in Workers, CallReturns(w) \/ OwnStep(w) PROVE UNCHANGED job
  BY <1>5 DEF CallReturns, OwnStep, Fetch, FetchFails, Send, SendFails, Acquire, Compare,
              CompareFails, Store, StoreFails, Render, RenderFails, Log
<1>6. Start \/ Signal \/ ServeError \/ ShutdownReturns \/ CronDrained \/ MonthTurns \/ CronMissed
      => UNCHANGED job
  BY DEF Start, Signal, ServeError, ShutdownReturns, CronDrained, MonthTurns, CronMissed
<1> QED
  BY <1>1, <1>2, <1>3, <1>4, <1>5, <1>6
     DEF Starts, Shutdown, ListenFails, Ends, Exit, Crash, Background

\* Beside the handlers the process moves towards its end only from a drain.
LEMMA BackgroundPhase ==
    ASSUME Background, phase' \in {"stopping", "closed"}
    PROVE  phase \in {"stopping", "closed"}
<1>1. \A j \in Jobs : CronFire(j) \/ RunStep(j) => UNCHANGED phase
  BY DEF CronFire, Spawn, RunStep, ListUsers, ListUsersFails, JobFinishes
<1>2. \A w \in Workers : CallReturns(w) \/ OwnStep(w) => UNCHANGED phase
  BY DEF CallReturns, OwnStep, Fetch, FetchFails, Send, SendFails, Acquire, Compare,
         CompareFails, Store, StoreFails, Render, RenderFails, Log
<1>3. CASE Signal \/ CronDrained \/ MonthTurns \/ CronMissed
  BY <1>3 DEF Signal, CronDrained, MonthTurns, CronMissed
<1> QED
  BY <1>1, <1>2, <1>3 DEF Background

\* An entry of a log other than the one appended was there before.
LEMMA Appended ==
    ASSUME NEW T, NEW t \in Seq(T), NEW a \in T, NEW i \in DOMAIN Append(t, a),
           Append(t, a)[i] # a
    PROVE  i \in DOMAIN t /\ Append(t, a)[i] = t[i]
OBVIOUS

\* An appended sequence holds what was there and what was appended.
LEMMA Kept ==
    ASSUME NEW T, NEW t \in Seq(T), NEW a \in T
    PROVE  /\ \A i \in DOMAIN t : i \in DOMAIN Append(t, a) /\ Append(t, a)[i] = t[i]
           /\ \E i \in DOMAIN Append(t, a) : Append(t, a)[i] = a
<1>1. Len(t) + 1 \in DOMAIN Append(t, a) /\ Append(t, a)[Len(t) + 1] = a
  OBVIOUS
<1> QED
  BY <1>1

\* An answer is appended; only one that says so says "job started".
LEMMA WriteEffect ==
    ASSUME ApiTyped, NEW r \in Requests, NEW a,
           resp' = [resp EXCEPT ![r] = Http!Written(@, a)]
    PROVE  /\ \A s \in Requests : s # r => resp'[s] = resp[s]
           /\ a.body # "job started" => (Told(r)' => Told(r))
           /\ Told(r) \/ a.body = "job started" => Told(r)'
<1>1. \A s \in Requests : s # r => resp'[s] = resp[s]
  BY DEF ApiTyped
<1>2. resp[r] \in Http!Response /\ resp'[r] = Http!Written(resp[r], a)
  BY DEF ApiTyped
<1>3. resp'[r].answers = Append(resp[r].answers, a)
  BY <1>2 DEF Http!Response, Http!Written, Http!SetStatus
<1>4. resp[r].answers \in Seq(Http!Answer \cup {a})
  BY <1>2 DEF Http!Response
<1>5. ASSUME a.body # "job started", Told(r)' PROVE Told(r)
  <2>1. PICK i \in DOMAIN resp'[r].answers : resp'[r].answers[i].body = "job started"
    BY <1>5 DEF Told
  <2>2. i \in DOMAIN Append(resp[r].answers, a)
    BY <1>3, <2>1
  <2>3. Append(resp[r].answers, a)[i] # a
    BY <1>3, <1>5, <2>1
  <2>4. i \in DOMAIN resp[r].answers /\ resp'[r].answers[i] = resp[r].answers[i]
    BY <1>3, <1>4, <2>2, <2>3, Appended
  <2> QED
    BY <2>1, <2>4 DEF Told
<1>6. ASSUME Told(r) \/ a.body = "job started" PROVE Told(r)'
  <2> DEFINE t == resp[r].answers
             T == Http!Answer \cup {a}
  <2>1. t \in Seq(T) /\ a \in T
    BY <1>4
  <2> HIDE DEF t, T
  <2>2. /\ \A i \in DOMAIN t : i \in DOMAIN Append(t, a) /\ Append(t, a)[i] = t[i]
        /\ \E i \in DOMAIN Append(t, a) : Append(t, a)[i] = a
    BY <2>1, Kept
  <2> QED
    BY <1>3, <1>6, <2>2 DEF Told, t
<1> QED
  BY <1>1, <1>5, <1>6

\* A step that answers nothing leaves the answers as they are.
LEMMA UnwrittenEffect ==
    ASSUME ApiTyped, NEW r \in Requests, UNCHANGED resp
    PROVE  /\ \A s \in Requests : s # r => resp'[s] = resp[s]
           /\ Told(r)' <=> Told(r)
BY DEF Told

\* A step of a request leaves the others alone, and only TriggerMonthly answers
\* "job started".
LEMMA HandlerEffect ==
    ASSUME ApiTyped, NEW r \in Requests,
           Http!Middleware(r) \/ Http!Controller(r) \/ Http!Redirect(r)
    PROVE  /\ \A s \in Requests : s # r =>
                 at'[s] = at[s] /\ resp'[s] = resp[s]
           /\ at[r] > 0 /\ at'[r] = at[r] + 1 /\ req' = req
           /\ ~ Http!TriggerMonthly(r) => (Told(r)' <=> Told(r))
<1> DEFINE Quiet == /\ \A s \in Requests : s # r => resp'[s] = resp[s]
                    /\ Told(r)' <=> Told(r)
<1>1. \A h : Http!Runs(r, h) => at[r] > 0 /\ at' = [at EXCEPT ![r] = @ + 1]
  BY DEF Http!Runs, ApiTyped
<1>2. Http!Log(r) => /\ at[r] > 0 /\ at' = [at EXCEPT ![r] = @ + 1]
                     /\ resp' = resp /\ req' = req
  BY DEF Http!Log, ApiTyped, Http!Chain
<1>3. CASE Http!Log(r)
  <2>1. Quiet
    BY <1>2, <1>3, UnwrittenEffect
  <2> QED
    BY <1>2, <1>3, <2>1 DEF ApiTyped
<1>4. ASSUME NEW h, Http!Runs(r, h), req' = req, Quiet \/ Http!TriggerMonthly(r),
             \A s \in Requests : s # r => resp'[s] = resp[s]
      PROVE  /\ \A s \in Requests : s # r =>
                   at'[s] = at[s] /\ resp'[s] = resp[s]
             /\ at[r] > 0 /\ at'[r] = at[r] + 1 /\ req' = req
             /\ ~ Http!TriggerMonthly(r) => (Told(r)' <=> Told(r))
  BY <1>1, <1>4 DEF ApiTyped
<1>5. ASSUME NEW code, NEW body, Http!Write(r, code, body), body # "job started" PROVE Quiet
  <2>1. resp' = [resp EXCEPT ![r] = Http!Written(@, [code |-> code, body |-> body])]
    BY <1>5 DEF Http!Write
  <2>2. [code |-> code, body |-> body].body # "job started"
    BY <1>5
  <2> QED
    BY <2>1, <2>2, WriteEffect
<1>6. UNCHANGED resp => Quiet
  BY UnwrittenEffect
<1> HIDE DEF Quiet
<1>7. CASE Http!RequestLogger(r)
  BY <1>4, <1>6, <1>7 DEF Http!RequestLogger, Quiet
<1>8. CASE Http!Cors(r)
  <2>1. /\ \A s \in Requests : s # r => resp'[s] = resp[s]
        /\ resp'[r].answers = resp[r].answers
    BY <1>8 DEF Http!Cors, Http!SetStatus, ApiTyped, Http!Response
  <2>2. Quiet
    BY <2>1 DEF Quiet, Told
  <2> QED
    BY <1>4, <1>8, <2>1, <2>2 DEF Http!Cors
<1>9. CASE Http!RequireAuth(r)
  <2>1. Quiet
    BY <1>5, <1>6, <1>9 DEF Http!RequireAuth
  <2> QED
    BY <1>4, <1>9, <2>1 DEF Http!RequireAuth, Quiet
<1>10. CASE Http!RequireAdmin(r)
  <2>1. Quiet
    BY <1>5, <1>6, <1>10 DEF Http!RequireAdmin
  <2> QED
    BY <1>4, <1>10, <2>1 DEF Http!RequireAdmin, Quiet
<1>11. CASE Http!AuthHandler(r)
  <2>1. Quiet
    BY <1>5, <1>11 DEF Http!AuthHandler
  <2> QED
    BY <1>4, <1>11, <2>1 DEF Http!AuthHandler, Quiet
<1>12. CASE Http!HealthCheck(r) \/ Http!NoRoute(r)
  <2>1. Quiet
    BY <1>5, <1>12 DEF Http!HealthCheck, Http!NoRoute
  <2> QED
    BY <1>4, <1>12, <2>1 DEF Http!HealthCheck, Http!NoRoute, Quiet
<1>13. ASSUME NEW code, NEW body, body # "job started",
              Http!QueryAnswer(r, [code |-> code, body |-> body])
       PROVE  Quiet
  BY <1>5, <1>13 DEF Http!QueryAnswer
<1>14. CASE Http!GetMe(r)
  <2>1. Quiet
    BY <1>13, <1>14 DEF Http!GetMe
  <2> QED
    BY <1>4, <1>14, <2>1 DEF Http!GetMe, Quiet
<1>15. CASE Http!GetStats(r)
  <2>1. Quiet
    BY <1>5, <1>13, <1>15 DEF Http!GetStats
  <2> QED
    BY <1>4, <1>15, <2>1 DEF Http!GetStats, Quiet
<1>16. CASE Http!GetStatsHistory(r)
  <2>1. Quiet
    BY <1>13, <1>16 DEF Http!GetStatsHistory
  <2> QED
    BY <1>4, <1>16, <2>1 DEF Http!GetStatsHistory, Quiet
<1>17. CASE Http!TriggerMonthly(r)
  <2>1. \A s \in Requests : s # r => resp'[s] = resp[s]
    BY <1>17 DEF Http!TriggerMonthly, Http!Write, ApiTyped
  <2> QED
    BY <1>4, <1>17, <2>1 DEF Http!TriggerMonthly
<1>18. CASE Http!Redirect(r)
  <2>1. PICK code \in {301, 307} : Http!Write(r, code, "redirect")
    BY <1>18 DEF Http!Redirect
  <2>2. Quiet
    BY <1>5, <2>1
  <2>3. at[r] > 0 /\ at' = [at EXCEPT ![r] = @ + 1] /\ req' = req
    BY <1>18 DEF Http!Redirect
  <2> QED
    BY <2>2, <2>3 DEF ApiTyped, Quiet
<1> QED
  BY <1>3, <1>7, <1>8, <1>9, <1>10, <1>11, <1>12, <1>14, <1>15, <1>16, <1>17, <1>18
     DEF Http!Middleware, Http!Controller

\* A handler brings no other request, and no finished one, into flight.
LEMMA NoneArrives ==
    ASSUME ApiTyped, NEW r \in Requests, at[r] > 0, at'[r] = at[r] + 1, req' = req,
           \A s \in Requests : s # r => at'[s] = at[s], UNCHANGED lost
    PROVE  \A s \in Requests : InFlight(s)' => InFlight(s)
<1> TAKE s \in Requests
<1>1. Len(Http!Chain(req[s])) \in Nat /\ at[s] \in Nat
  BY DEF Http!Chain, ApiTyped
<1>2. CASE s = r
  BY <1>1, <1>2 DEF InFlight
<1>3. CASE s # r
  BY <1>3 DEF InFlight
<1> QED
  BY <1>2, <1>3

\* TriggerMonthly says that the job is started.
LEMMA TriggerTells ==
    ASSUME ApiTyped, NEW r \in Requests, Http!TriggerMonthly(r)
    PROVE  Told(r)'
<1> DEFINE a == [code |-> 202, body |-> "job started"]
<1>1. resp' = [resp EXCEPT ![r] = Http!Written(@, a)]
  BY DEF Http!TriggerMonthly, Http!Write
<1>2. a.body = "job started"
  OBVIOUS
<1> HIDE DEF a
<1> QED
  BY <1>1, <1>2, WriteEffect

-----------------------------------------------------------------------------
(***************************************************************************)
(* The invariant that joins requests, runs and the end of serving.         *)
(***************************************************************************)

\* The initial state satisfies the invariant.
LEMMA ServiceInvInit == ServiceInit => ServiceInv
<1> SUFFICES ASSUME ServiceInit PROVE ServiceInv
  OBVIOUS
<1>1. \A r \in Requests : resp[r].answers = <<>> /\ run[r] = NoRun
  BY DEF ServiceInit, Http!Init, Http!NoResponse
<1>2. \A i : i \notin DOMAIN <<>>
  OBVIOUS
<1>3. EachAnswerItsRun
  BY <1>1, <1>2 DEF EachAnswerItsRun, Told
<1> QED
  BY <1>1, <1>3 DEF ServiceInit, ServiceInv, Init

\* No request is touched, and no run of a request is lost.
LEMMA ProcessStep ==
    ASSUME ServiceInv, TypeOK, [Next]_vars, Starts \/ Shutdown \/ ListenFails \/ Ends \/ Background
    PROVE  ServiceInv'
<1> USE DEF ServiceInv
<1>1. UNCHANGED <<api, run>>
  BY DEF Starts, Shutdown, ListenFails, Ends, Background
<1>2. \A r \in Requests : at'[r] = at[r] /\ req'[r] = req[r] /\ resp'[r] = resp[r]
                           /\ run'[r] = run[r]
  BY <1>1 DEF api
<1>3. lost' \subseteq Requests /\ lost \subseteq lost' /\ stop' \in {"no", "drained", "cutShort"}
  BY DEF Starts, Shutdown, ListenFails, Ends, Background
<1>4. \A r \in Requests : run[r] # NoRun =>
         job'[run[r]].stage # "idle" /\ ~ job'[run[r]].byCron
  BY RunsKept
<1>5. \A r \in Requests : InFlight(r)' => InFlight(r)
  BY <1>2, <1>3 DEF InFlight
<1>6. (phase' \in {"stopping", "closed"} /\ stop' = "drained") =>
         \A r \in Requests : ~ InFlight(r)
  <2>1. CASE Starts
    BY <2>1 DEF Starts, Start
  <2>2. CASE Shutdown
    BY <2>2 DEF Shutdown, Drained
  <2>3. CASE ListenFails
    BY <2>3 DEF ListenFails
  <2>4. CASE Ends
    BY <2>4 DEF Ends, Exit, Crash, Die
  <2>5. CASE Background
    BY <2>5, BackgroundPhase DEF Background
  <2> QED
    BY <2>1, <2>2, <2>3, <2>4, <2>5
<1>7. \A r \in Requests : Told(r)' <=> Told(r)
  BY <1>2 DEF Told
<1>8. EachAnswerItsRun'
  BY <1>1, <1>4, <1>7 DEF EachAnswerItsRun
<1>9. \A j \in Jobs : job'[j].stage # "idle" =>
         job'[j].byCron \/ \E r \in Requests : run'[r] = j
  BY <1>2, OwnRuns, RunsKept
<1>10. \A r \in Requests : run'[r] # NoRun => at'[r] > Len(Http!Chain(req'[r]))
  BY <1>1 DEF api
<1> QED
  BY <1>1, <1>2, <1>3, <1>4, <1>5, <1>6, <1>7, <1>8, <1>9, <1>10

\* A request arrives, or a handler runs that starts nothing.
LEMMA QuietRequestStep ==
    ASSUME ServiceInv, TypeOK, ApiTyped, [Next]_vars, NEW r \in Requests,
           Arrive(r) \/ Handler(r) \/ Callback(r)
    PROVE  ServiceInv'
<1> USE DEF ServiceInv
<1>1. UNCHANGED <<lost, run, stop>>
  BY DEF Arrive, Handler, Callback
<1>2. phase' = phase
  BY DEF Arrive, Handler, Callback, vars, SignIn
<1>3. \A s \in Requests : run[s] # NoRun =>
         job'[run[s]].stage # "idle" /\ ~ job'[run[s]].byCron
  BY RunsKept
<1>begun. \A j \in Jobs : job'[j].stage # "idle" =>
             job'[j].byCron \/ \E s \in Requests : run'[s] = j
  <2>1. UNCHANGED job
    BY DEF Arrive, Handler, Callback, vars, SignIn
  <2> QED
    BY <1>1, <2>1
<1>4. CASE Arrive(r)
  <2>1. phase = "serving" /\ UNCHANGED resp
    BY <1>4 DEF Arrive, Http!Arrive
  <2>2. \A s \in Requests : Told(s)' <=> Told(s)
    BY <2>1 DEF Told
  <2>3. EachAnswerItsRun'
    BY <1>1, <1>3, <2>2 DEF EachAnswerItsRun
  <2>4. run[r] = NoRun
    BY <1>4 DEF Arrive, Http!Arrive, Http!Chain
  <2>5. \A s \in Requests : s # r => at'[s] = at[s] /\ req'[s] = req[s]
    BY <1>4 DEF Arrive, Http!Arrive, ApiTyped
  <2>6. \A s \in Requests : run'[s] # NoRun => at'[s] > Len(Http!Chain(req'[s]))
    BY <1>1, <2>4, <2>5
  <2> QED
    BY <1>1, <1>2, <1>3, <1>begun, <2>1, <2>2, <2>3, <2>6
<1>5. CASE Handler(r) \/ Callback(r)
  <2>1. /\ Http!Middleware(r) \/ Http!Controller(r) \/ Http!Redirect(r)
        /\ ~ Http!TriggerMonthly(r)
    <3>1. \A h : Http!Runs(r, h) /\ Http!Runs(r, "TriggerMonthly") => h = "TriggerMonthly"
      BY DEF Http!Runs
    <3>2. Http!TriggerMonthly(r) => Http!Runs(r, "TriggerMonthly")
      BY DEF Http!TriggerMonthly
    <3>3. Http!Log(r) => ~ Http!Runs(r, "TriggerMonthly")
      BY DEF Http!Log, Http!Runs, Http!Chain
    <3>4. Http!AuthHandler(r) => ~ Http!Runs(r, "TriggerMonthly")
      BY <3>1 DEF Http!AuthHandler, Http!AuthRoutes
    <3>5. Http!Middleware(r) => ~ Http!Runs(r, "TriggerMonthly")
      BY <3>1, <3>3 DEF Http!Middleware, Http!RequestLogger, Http!Cors, Http!RequireAuth,
                        Http!RequireAdmin
    <3>6. (\/ Http!HealthCheck(r) \/ Http!NoRoute(r)
           \/ Http!GetMe(r) \/ Http!GetStats(r) \/ Http!GetStatsHistory(r))
          => ~ Http!Runs(r, "TriggerMonthly")
      BY <3>1 DEF Http!HealthCheck, Http!NoRoute, Http!GetMe, Http!GetStats,
                  Http!GetStatsHistory
    <3>7. Http!Redirect(r) => ~ Http!Runs(r, "TriggerMonthly")
      BY DEF Http!Redirect, Http!Runs, Http!Chain, Http!ApiRoutes
    <3> QED
      BY <1>5, <3>2, <3>4, <3>5, <3>6, <3>7 DEF Handler, Callback, Http!Controller
  <2>2. /\ \A s \in Requests : s # r =>
              at'[s] = at[s] /\ resp'[s] = resp[s]
        /\ at[r] > 0 /\ at'[r] = at[r] + 1 /\ req' = req
        /\ Told(r)' <=> Told(r)
    BY <2>1, HandlerEffect
  <2>3. \A s \in Requests : InFlight(s)' => InFlight(s)
    BY <1>1, <2>2, NoneArrives
  <2>4. \A s \in Requests : Told(s)' <=> Told(s)
    BY <2>2 DEF Told
  <2>5. EachAnswerItsRun'
    BY <1>1, <1>3, <2>4 DEF EachAnswerItsRun
  <2>6. \A s \in Requests : run'[s] # NoRun => at'[s] > Len(Http!Chain(req'[s]))
    <3>1. \A s \in Requests : at[s] \in Nat /\ at'[s] >= at[s]
      <4>1. \A s \in Requests : at[s] \in Nat
        BY DEF ApiTyped
      <4>2. \A s \in Requests : at'[s] = at[s] \/ at'[s] = at[s] + 1
        BY <2>2
      <4> QED
        BY <4>1, <4>2
    <3>2. \A s \in Requests : Len(Http!Chain(req[s])) \in Nat
      BY DEF Http!Chain
    <3> QED
      BY <1>1, <2>2, <3>1, <3>2
  <2> QED
    BY <1>1, <1>2, <1>3, <1>begun, <2>3, <2>4, <2>5, <2>6
<1> QED
  BY <1>4, <1>5

\* A request starts a run of its own.
LEMMA TriggerStep ==
    ASSUME ServiceInv, TypeOK, ApiTyped, NEW r \in Requests, Trigger(r)
    PROVE  ServiceInv'
<1> USE DEF ServiceInv
<1>1. PICK j \in Jobs : TriggerMonthly(j) /\ run' = [run EXCEPT ![r] = j]
  BY DEF Trigger, StartRun
<1>2. /\ job[j].stage = "idle" /\ job'[j].stage = "listing" /\ ~ job'[j].byCron
      /\ \A i \in Jobs : i # j => job'[i] = job[i]
      /\ phase' = phase
  BY <1>1 DEF TriggerMonthly, Spawn, TypeOK
<1>3. UNCHANGED <<lost, stop>> /\ r \notin lost
  BY DEF Trigger, Handles
<1>4. run'[r] = j /\ \A s \in Requests : s # r => run'[s] = run[s]
  BY <1>1
<1>5. \A s \in Requests : run[s] # j
  BY <1>2, NoRunAssumption
<1>6. \A s \in Requests : run'[s] # NoRun =>
         /\ job'[run'[s]].stage # "idle" /\ ~ job'[run'[s]].byCron
         /\ \A t \in Requests : run'[t] = run'[s] => t = s
  BY <1>2, <1>4, <1>5, NoRunAssumption
<1>7. Http!Middleware(r) \/ Http!Controller(r)
  BY DEF Trigger, Http!Controller
<1>8. \A s \in Requests : InFlight(s)' => InFlight(s)
  BY <1>3, <1>7, HandlerEffect, NoneArrives
<1>triggers. Http!TriggerMonthly(r)
  BY DEF Trigger
<1>atEnd. at[r] = Len(Http!Chain(req[r]))
  <2> DEFINE n == at[r]
             chain == Http!Chain(req[r])
  <2>1. n \in 1 .. Len(chain) /\ chain[n] = "TriggerMonthly"
    BY <1>triggers DEF Http!TriggerMonthly, Http!Runs
  <2>2. CASE req[r].route \in Http!ApiRoutes
    <3>1. chain = <<"RequestLogger", "Cors", "RequireAuth", req[r].route>>
          /\ req[r].route # "TriggerMonthly"
      BY <2>2 DEF Http!Chain, Http!ApiRoutes
    <3>2. n \in 1 .. 4
      BY <2>1, <3>1
    <3> QED
      BY <2>1, <3>1, <3>2
  <2>3. CASE req[r].route = "TriggerMonthly"
    <3>1. chain = <<"RequestLogger", "Cors", "RequireAdmin", "TriggerMonthly">>
      BY <2>3 DEF Http!Chain, Http!ApiRoutes
    <3>2. n \in 1 .. 4
      BY <2>1, <3>1
    <3> QED
      BY <2>1, <3>1, <3>2
  <2>5. CASE req[r].route = "TrailingSlash"
    <3>1. chain = <<>>
      BY <2>5 DEF Http!Chain, Http!ApiRoutes
    <3> QED
      BY <2>1, <3>1
  <2>4. CASE req[r].route \notin Http!ApiRoutes \cup {"TriggerMonthly", "TrailingSlash"}
    <3>1. chain = <<"RequestLogger", "Cors", req[r].route>>
      BY <2>4 DEF Http!Chain
    <3>2. n \in 1 .. 3
      BY <2>1, <3>1
    <3> QED
      BY <2>1, <2>4, <3>1, <3>2
  <2> QED
    BY <2>2, <2>3, <2>4, <2>5
<1>fresh. run[r] = NoRun
  BY <1>atEnd DEF Http!Chain
<1>past. \A s \in Requests : run'[s] # NoRun => at'[s] > Len(Http!Chain(req'[s]))
  <2>1. at'[r] = at[r] + 1 /\ req' = req /\ \A s \in Requests : s # r => at'[s] = at[s]
    BY <1>7, HandlerEffect
  <2>2. at'[r] > Len(Http!Chain(req[r]))
    BY <1>atEnd, <2>1 DEF Http!Chain
  <2> QED
    BY <1>4, <2>1, <2>2
<1>told. /\ \A s \in Requests : s # r => (Told(s)' <=> Told(s))
         /\ Told(r)'
  <2>1. \A s \in Requests : s # r => resp'[s] = resp[s]
    BY <1>7, HandlerEffect
  <2>2. Told(r)'
    BY <1>triggers, TriggerTells
  <2> QED
    BY <2>1, <2>2 DEF Told
<1>begun. \A i \in Jobs : job'[i].stage # "idle" =>
             job'[i].byCron \/ \E s \in Requests : run'[s] = i
  <2>1. ASSUME NEW i \in Jobs, i # j, job'[i].stage # "idle"
        PROVE  job'[i].byCron \/ \E s \in Requests : run'[s] = i
    <3>1. CASE job[i].byCron
      BY <1>2, <2>1, <3>1
    <3>2. CASE \E s \in Requests : run[s] = i
      <4>1. PICK s \in Requests : run[s] = i
        BY <3>2
      <4>2. s # r
        BY <1>fresh, <4>1, NoRunAssumption
      <4> QED
        BY <1>4, <4>1, <4>2
    <3> QED
      BY <1>2, <2>1, <3>1, <3>2
  <2> QED
    BY <1>4, <2>1
<1>9. EachAnswerItsRun'
  <2>1. \A s \in Requests : s # r => (Told(s)' => Told(s))
    BY <1>told
  <2>2. \A s \in Requests : Told(s)' => run'[s] # NoRun
    BY <1>4, <2>1, NoRunAssumption DEF EachAnswerItsRun, Told
  <2> QED
    BY <1>6, <2>2 DEF EachAnswerItsRun, Told
<1> QED
  BY <1>1, <1>2, <1>3, <1>4, <1>6, <1>8, <1>9, <1>told, <1>begun, <1>past

\* Every step keeps the invariant.
LEMMA ServiceInvStep ==
    ServiceInv /\ TypeOK /\ ApiTyped /\ [ServiceNext]_allVars => ServiceInv'
<1> SUFFICES ASSUME ServiceInv, TypeOK, ApiTyped, [ServiceNext]_allVars PROVE ServiceInv'
  OBVIOUS
<1>1. [Next]_vars
  BY JobSteps
<1>2. CASE UNCHANGED allVars
  BY <1>2 DEF allVars, vars, api, ServiceInv, EachAnswerItsRun, InFlight, Told
<1>3. CASE ServiceNext
  BY <1>1, <1>3, ProcessStep, QuietRequestStep, TriggerStep DEF ServiceNext, RequestStep
<1> QED
  BY <1>2, <1>3

\* main.go:62-151, controller.go:197: the invariant holds in every reachable state.
THEOREM ServiceInvHolds == ServiceSpec => []ServiceInv
<1>1. ServiceSpec => ServiceInit /\ [][ServiceNext]_allVars
  BY DEF ServiceSpec
<1> QED
  BY <1>1, ServiceInvInit, ServiceInvStep, JobTypedHolds, ApiTypedHolds, PTL

\* main.go:62, 105, 141-148: after a shutdown that was not cut short, the pool
\* is closed with no request left.
THEOREM AnsweredBeforeCloseHolds == ServiceSpec => []AnsweredBeforeClose
<1>1. ServiceInv => AnsweredBeforeClose
  BY DEF ServiceInv, AnsweredBeforeClose
<1> QED
  BY <1>1, ServiceInvHolds, PTL

\* controller.go:197-204: every "job started" has a run of its own, not the
\* scheduler's, for any number of requests and runs.
THEOREM EachAnswerItsRunHolds == ServiceSpec => []EachAnswerItsRun
<1>1. ServiceInv => EachAnswerItsRun
  BY DEF ServiceInv
<1> QED
  BY <1>1, ServiceInvHolds, PTL

\* scheduler.go:54-61, controller.go:197: a second mail about a month is owed to
\* a request that was told that the job is started.
THEOREM SecondMailAskedHolds == ServiceSpec => []SecondMailAsked
<1>1. IInv /\ ScheduledMailOnce /\ ServiceInv => SecondMailAsked
  <2> SUFFICES ASSUME IInv, ScheduledMailOnce, ServiceInv,
                       NEW v \in Workers, NEW w \in Workers, v # w,
                       mails[v] > 0, mails[w] > 0, Slot(v) = Slot(w)
                PROVE  \E r \in Requests : Told(r) /\ run[r] \in {v[1], w[1]}
    BY DEF SecondMailAsked
  <2>2. PICK x \in {v, w} : ~ job[x[1]].byCron
    BY DEF ScheduledMailOnce
  <2>3. x \in Workers /\ x[1] \in Jobs /\ mails[x] > 0
    BY <2>2, WorkerParts
  <2>4. job[x[1]].stage # "idle"
    <3>1. pc[x] = "absent" => mails[x] = 0
      BY <2>3 DEF IInv, MailOnce, BeforeSend, BeforeStore
    <3> QED
      BY <2>3, <3>1 DEF IInv, RunsInPlace
  <2>5. PICK r \in Requests : run[r] = x[1]
    BY <2>2, <2>3, <2>4 DEF ServiceInv
  <2>6. Told(r)
    BY <2>3, <2>5, NoRunAssumption DEF ServiceInv
  <2> QED
    BY <2>2, <2>5, <2>6
<1>2. ServiceSpec => Spec
  BY PartsImplemented
<1> QED
  BY <1>1, <1>2, InvHolds, ScheduledMailCorrect, ServiceInvHolds, PTL

-----------------------------------------------------------------------------
(***************************************************************************)
(* What is proved of the parts, said of the process.                       *)
(***************************************************************************)

\* main.go:106-151: handlers that start runs, callbacks that store accounts and
\* stops that cut both short leave the job's guarantees as they are.
THEOREM JobHolds ==
    ServiceSpec =>
        /\ [](/\ SemaphoreCounts /\ LogsMatchMail /\ MailAgreesWithTable
             /\ GrowthAgreesInTurn /\ ClosedMonthsOnly /\ CronRunsDrained
             /\ ScheduledMailOnce /\ NoRunStuck /\ WorkBoundedByRuns)
        /\ AddressKept /\ ImplementsLedger
<1>1. ServiceSpec => Spec
  BY PartsImplemented
<1>2. ServiceSpec => AddressKept
  BY <1>1, AddressCorrect
<1>3. ServiceSpec => ImplementsLedger
  BY <1>1, LedgerImplemented
<1>4. ServiceSpec => [](/\ SemaphoreCounts /\ LogsMatchMail /\ MailAgreesWithTable
                        /\ GrowthAgreesInTurn /\ ClosedMonthsOnly /\ CronRunsDrained
                        /\ ScheduledMailOnce /\ NoRunStuck /\ WorkBoundedByRuns)
  BY <1>1, SemaphoreCorrect, LogsCorrect, MailedFiguresCorrect, GrowthCorrect,
     ClosedMonthsCorrect, DrainCorrect, ScheduledMailCorrect, NoRunStuckHolds, WorkBounded, PTL
<1> QED
  BY <1>2, <1>3, <1>4, PTL

\* server.go:22-53: so do runs beside the handlers, and handlers that die with
\* the process, leave the guarantees of the API.
THEOREM ApiHolds ==
    ServiceSpec =>
        /\ [](/\ Http!LoggedAsSent /\ Http!OriginOnEveryAnswer
             /\ Http!RefusalStands /\ Http!RefusedLearnsNothing)
        /\ HttpProofs!ImplementsExchange
<1>1. ServiceSpec => HttpProofs!Spec
  BY PartsImplemented, SameApi
<1>2. HttpProofs!Spec => HttpProofs!ImplementsExchange
  BY HttpProofs!ImplementsExchangeHolds, ApiAssumption
<1>3. HttpProofs!Spec => []HttpProofs!LoggedAsSent
  BY HttpProofs!LoggedAsSentHolds, ApiAssumption
<1>4. HttpProofs!Spec => []HttpProofs!OriginOnEveryAnswer
  BY HttpProofs!OriginOnEveryAnswerHolds, ApiAssumption
<1>5. HttpProofs!Spec => []HttpProofs!RefusalStands
  BY HttpProofs!RefusalStandsHolds, ApiAssumption
<1>6. HttpProofs!Spec => []HttpProofs!RefusedLearnsNothing
  BY HttpProofs!RefusedLearnsNothingHolds, ApiAssumption
<1>7. /\ HttpProofs!LoggedAsSent => Http!LoggedAsSent
      /\ HttpProofs!OriginOnEveryAnswer => Http!OriginOnEveryAnswer
      /\ HttpProofs!RefusalStands => Http!RefusalStands
      /\ HttpProofs!RefusedLearnsNothing => Http!RefusedLearnsNothing
  BY DEF HttpProofs!LoggedAsSent, Http!LoggedAsSent, HttpProofs!OriginOnEveryAnswer,
         Http!OriginOnEveryAnswer, HttpProofs!RefusalStands, Http!RefusalStands,
         HttpProofs!RefusedLearnsNothing, Http!RefusedLearnsNothing,
         HttpProofs!ApiRoutes, Http!ApiRoutes
<1>8. ServiceSpec => [](/\ Http!LoggedAsSent /\ Http!OriginOnEveryAnswer
                        /\ Http!RefusalStands /\ Http!RefusedLearnsNothing)
  BY <1>1, <1>3, <1>4, <1>5, <1>6, <1>7, PTL
<1> QED
  BY <1>1, <1>2, <1>8, PTL

=============================================================================
