------------------------------ MODULE Service ------------------------------
(***************************************************************************)
(* The whole process: the HTTP API over the monthly job.  server.New gives *)
(* the controllers the scheduler's RunMonthlyJob and the login handler the *)
(* user store; main stops the server, the scheduler and the pool in turn.  *)
(*                                                                         *)
(* A handler runs in a goroutine of the process and dies with it.  The     *)
(* admin endpoint answers while the run it started goes on.                *)
(***************************************************************************)
EXTENDS MonthlyJob, Sequences

CONSTANTS
    Requests, Accounts, NoUser, AdminKeySet,   \* of Api
    Asked,    \* bound: what clients ask for
    NoRun     \* no run was started

ASSUME ApiAssumption == NoUser \notin Accounts /\ AdminKeySet \in BOOLEAN
ASSUME NoRunAssumption == NoRun \notin Jobs

VARIABLES
    req, at, ginUser, resp, logged, started, failed,   \* of Api
    lost,     \* requests cut off by the end of the process
    run,      \* the run each request has started
    stop      \* how the serving ended: drained, or cut short

Http == INSTANCE Api

api == <<req, at, ginUser, resp, logged, started, failed>>

allVars == <<vars, api, lost, run, stop>>

\* A request was accepted and its chain of handlers is not through.
InFlight(r) == at[r] > 0 /\ at[r] <= Len(Http!Chain(req[r])) + 1 /\ r \notin lost

ServiceInit ==
    /\ Init
    /\ Http!Init
    /\ lost = {}
    /\ run = [r \in Requests |-> NoRun]
    /\ stop = "no"

-----------------------------------------------------------------------------
(***************************************************************************)
(* Requests.                                                               *)
(***************************************************************************)

\* The server accepts nothing once it is told to stop.  (After a failed
\* listen open connections still work: these requests are the ones that had
\* arrived and not begun.)
Arrive(r) ==
    /\ phase = "serving"
    /\ Http!Arrive(r)
    /\ req'[r] \in Asked
    /\ UNCHANGED <<vars, lost, run, stop>>

\* A handler's goroutine lives as long as the process.
Handles(r) == phase # "down" /\ r \notin lost

\* The handlers that touch nothing but the response.
Handler(r) ==
    /\ Handles(r)
    /\ \/ Http!Middleware(r) \/ Http!Redirect(r)
       \/ Http!HealthCheck(r) \/ Http!NoRoute(r)
       \/ Http!GetMe(r) \/ Http!GetStats(r) \/ Http!GetStatsHistory(r)
       \/ Http!AuthHandler(r) /\ req[r].route # "HandleCallback"
    /\ UNCHANGED <<vars, lost, run, stop>>

\* HandleCallback: who is redirected is stored; after a 500 or 503 the row may
\* be there too.
Callback(r) ==
    /\ Handles(r)
    /\ req[r].route = "HandleCallback"
    /\ Http!AuthHandler(r)
    /\ \/ /\ resp'[r].status \in {307, 500, 503}
          /\ \E u \in Users, email \in {"noEmail", "email"} : SignIn(u, email)
       \/ resp'[r].status # 307 /\ UNCHANGED vars
    /\ UNCHANGED <<lost, run, stop>>

\* Mutant: the runs share their state, so that a second start begins the first
\* one again.
StartRun_Shared(j) ==
    /\ phase # "down"
    /\ job' = [job EXCEPT ![j] = [stage |-> "listing", byCron |-> FALSE,
                                  month |-> TargetMonth(now)]]
    /\ UNCHANGED <<now, cronDue, phase, accounts, stats, sem, pc, report, mails, logs>>

\* h.monthlyJobFn, that is RunMonthlyJob.
StartRun(j) == TriggerMonthly(j)

\* Mutant: the job is called, not started in a goroutine of its own.
Trigger_Waits(r) ==
    /\ Handles(r)
    /\ \/ /\ run[r] = NoRun
          /\ req[r].route = "TriggerMonthly" /\ at[r] = 4
          /\ \E j \in Jobs : StartRun(j) /\ run' = [run EXCEPT ![r] = j]
          /\ UNCHANGED api
       \/ /\ run[r] # NoRun
          /\ ~ Underway(run[r])
          /\ Http!TriggerMonthly(r)
          /\ UNCHANGED <<vars, run>>
    /\ UNCHANGED <<lost, stop>>

\* go h.monthlyJobFn(), and the answer does not wait for it.
Trigger(r) ==
    /\ Handles(r)
    /\ Http!TriggerMonthly(r)
    /\ \E j \in Jobs : StartRun(j) /\ run' = [run EXCEPT ![r] = j]
    /\ UNCHANGED <<lost, stop>>

RequestStep(r) == Handler(r) \/ Trigger(r)

-----------------------------------------------------------------------------
(***************************************************************************)
(* The process around its handlers.                                        *)
(***************************************************************************)

\* Mutant: Close instead of Shutdown.
Drained_Close == TRUE

\* srv.Shutdown waits for the requests it has accepted.
Drained == \A r \in Requests : ~ InFlight(r)

Shutdown ==
    /\ ShutdownReturns
    /\ \/ Drained /\ stop' = "drained"
       \/ stop' = "cutShort"       \* after 30 seconds
    /\ UNCHANGED <<api, lost, run>>

ListenFails ==
    /\ ServeError
    /\ stop' = "cutShort"
    /\ UNCHANGED <<api, lost, run>>

\* The process is gone, and with it every handler under way.
Ends ==
    /\ Exit \/ Crash
    /\ lost' = lost \cup {r \in Requests : InFlight(r)}
    /\ UNCHANGED <<api, run, stop>>

Starts == Start /\ stop' = "no" /\ UNCHANGED <<api, lost, run>>

\* Everything else goes on beside the handlers.
Background ==
    /\ \/ Signal \/ CronDrained
       \/ MonthTurns \/ CronMissed
       \/ \E j \in Jobs : CronFire(j) \/ RunStep(j)
       \/ \E w \in Workers : CallReturns(w) \/ OwnStep(w)
    /\ UNCHANGED <<api, lost, run, stop>>

ServiceNext ==
    \/ Starts \/ Shutdown \/ ListenFails \/ Ends \/ Background
    \/ \E r \in Requests : Arrive(r) \/ RequestStep(r) \/ Callback(r)

ServiceSpec == ServiceInit /\ [][ServiceNext]_allVars

\* net/http gives each request a goroutine.  A callback waits for GitHub, so
\* nothing is assumed of it; nor is anything of the peers of the monthly job.
HandlerFairness == \A r \in Requests : WF_allVars(RequestStep(r))

FairServiceSpec == ServiceSpec /\ HandlerFairness

-----------------------------------------------------------------------------
(***************************************************************************)
(* Properties.                                                             *)
(***************************************************************************)

\* main.go:62, 105, 141-148.  When the pool is closed after a shutdown that was
\* not cut short, every request ever accepted by this process is answered: the
\* server is stopped first, and no handler meets a closed pool.
AnsweredBeforeClose ==
    (phase = "closed" /\ stop = "drained") => \A r \in Requests : ~ InFlight(r)

\* The request has been answered that the job is started.
Told(r) == \E i \in DOMAIN resp[r].answers : resp[r].answers[i].body = "job started"

\* controller.go:197-204, README.md:114.  An answer "job started" has a run of
\* its own: no two requests share one, and none is the scheduler's.
EachAnswerItsRun ==
    \A r \in Requests :
        Told(r) =>
            /\ run[r] # NoRun
            /\ job[run[r]].stage # "idle" /\ ~ job[run[r]].byCron
            /\ \A s \in Requests : run[s] = run[r] => s = r

\* scheduler.go:54-61, controller.go:197.  A user who is mailed twice about a
\* month owes the second mail to a request that was told so: the process,
\* killed, restarted and listening as it may be, never doubles a run by itself.
SecondMailAsked ==
    \A v, w \in Workers :
        (v # w /\ mails[v] > 0 /\ mails[w] > 0 /\ Slot(v) = Slot(w)) =>
            \E r \in Requests : Told(r) /\ run[r] \in {v[1], w[1]}

\* The invariant of the proofs: a run that a request has started was begun,
\* not by cron, and for no other request, and the request was told so and is at
\* the end of its chain; cron or a request has begun every run; a drained server
\* has no request left.
ServiceInv ==
    /\ lost \subseteq Requests
    /\ run \in [Requests -> Jobs \cup {NoRun}]
    /\ stop \in {"no", "drained", "cutShort"}
    /\ \A r \in Requests : run[r] # NoRun =>
          /\ Told(r) /\ at[r] > Len(Http!Chain(req[r]))
          /\ job[run[r]].stage # "idle" /\ ~ job[run[r]].byCron
          /\ \A s \in Requests : run[s] = run[r] => s = r
    /\ \A j \in Jobs : job[j].stage # "idle" =>
          job[j].byCron \/ \E r \in Requests : run[r] = j
    /\ (phase \in {"stopping", "closed"} /\ stop = "drained") =>
          \A r \in Requests : ~ InFlight(r)
    /\ EachAnswerItsRun

\* Bound: the instance has no run left to begin, and a request for one cannot
\* go on; in the code there is always another.
RunsUsedUp == \A j \in Jobs : job[j].stage # "idle"

\* controller.go:197, server.go:67-80.  A request other than a callback is
\* answered and logged, or cut off by the end of the process, although GitHub
\* and the mail server may never answer the run it has started.
RequestsSettle ==
    \A r \in Requests :
        (InFlight(r) /\ req[r].route # "HandleCallback")
            ~> (~ InFlight(r) \/ (run[r] = NoRun /\ RunsUsedUp))
=============================================================================
