----------------------------- MODULE MonthlyJob -----------------------------
(***************************************************************************)
(* The monthly report: the server process (cmd/server/main.go), the cron   *)
(* scheduler and its runs of RunMonthlyJob (internal/scheduler), the       *)
(* collector (internal/stats), the two PostgreSQL stores and the calls to  *)
(* GitHub and to the SMTP server.                                          *)
(*                                                                         *)
(* A run lists the users once and starts one goroutine per listed user; a  *)
(* per-run semaphore of PoolSize slots lets that many of them work at a    *)
(* time.  Nothing keeps two runs apart: cron and the admin endpoint start  *)
(* them independently, for the same month or across a change of month.     *)
(* The process may be stopped gracefully, or killed between any two steps. *)
(***************************************************************************)
EXTENDS Growth, FiniteSets

CONSTANTS
    Users,       \* the GitHub accounts that may sign in
    Jobs,        \* identities of runs; bounds how many are started
    PoolSize,    \* workerPoolSize: slots of one run's semaphore
    LastMonth,   \* bound on the calendar
    Commits,     \* the commit counts GitHub may report
    NoRow        \* a row monthly_stats does not have

ASSUME PoolSizeAssumption == PoolSize \in Nat \ {0}
ASSUME LastMonthAssumption == LastMonth \in Nat \ {0}
ASSUME CommitsAssumption == Commits \subseteq Nat
ASSUME UsersAssumption == IsFiniteSet(Users)

Months == 0 .. (LastMonth - 1)

\* One goroutine of one run: <<the run, the user it works for>>.
Workers == Jobs \X Users

VARIABLES
    now,         \* the current calendar month, counted from 0
    cronDue,     \* 02:00 of this month's 1st has not come yet
    phase,       \* where run() of main.go is
    accounts,    \* users table: has a row with or without an email address
    stats,       \* monthly_stats, one slot per <<user, month>>
    job,         \* the runs of RunMonthlyJob
    sem,         \* occupied slots of each run's semaphore
    pc,          \* where each goroutine is in processUser
    report,      \* the MonthlyStats a goroutine holds
    mails,       \* messages the SMTP server has accepted, per goroutine
    logs         \* email_logs: <<the goroutine that inserted it, status>>

vars == <<now, cronDue, phase, accounts, stats, job, sem, pc, report, mails, logs>>

calendar == <<now, cronDue>>
effects == <<mails, logs>>

Phases == {"down", "serving", "draining", "stopping", "closed"}
Stages == {"idle", "listing", "running", "finished", "killed"}

\* Positions in processUser once the semaphore is held; logSent and
\* logFailed are the LogEmail call with that status.
Holding == {"fetching", "comparing", "storing", "rendering", "sending",
            "logSent", "logFailed"}
Live == Holding \cup {"queued"}

Report == [commits : Commits \cup {0}, growth : GrowthValue]
\* Column "at" is history: the calendar month of the last upsert, which the
\* table does not keep; "by" is the run that made it.
Row == [commits : Commits \cup {0}, growth : GrowthValue, by : Jobs, at : Nat]

ASSUME NoRowAssumption == NoRow \notin Row

TypeOK ==
    /\ now \in 1 .. LastMonth
    /\ cronDue \in BOOLEAN
    /\ phase \in Phases
    /\ accounts \in [Users -> {"none", "noEmail", "email"}]
    /\ stats \in [Users \X Months -> Row \cup {NoRow}]
    /\ job \in [Jobs -> [stage : Stages, byCron : BOOLEAN, month : Months]]
    /\ sem \in [Jobs -> 0 .. PoolSize]
    /\ pc \in [Workers -> Live \cup {"absent", "done", "killed"}]
    /\ report \in [Workers -> Report]
    /\ mails \in [Workers -> Nat]
    /\ logs \subseteq Workers \X {"sent", "failed"}

Init ==
    /\ now = 1
    /\ cronDue = FALSE
    /\ phase = "down"
    /\ accounts = [u \in Users |-> "none"]
    /\ stats = [s \in Users \X Months |-> NoRow]
    /\ job = [j \in Jobs |-> [stage |-> "idle", byCron |-> FALSE, month |-> 0]]
    /\ sem = [j \in Jobs |-> 0]
    /\ pc = [w \in Workers |-> "absent"]
    /\ report = [w \in Workers |-> [commits |-> 0, growth |-> NullGrowth]]
    /\ mails = [w \in Workers |-> 0]
    /\ logs = {}

-----------------------------------------------------------------------------
(***************************************************************************)
(* The process: start, the two ways out of serving, the deferred calls of  *)
(* run(), and death at any moment.                                         *)
(***************************************************************************)

\* The cron scheduler is started and not yet stopped.
CronTicks == phase \in {"serving", "draining"}

\* The connection pool is open.
PoolOpen == phase \in {"serving", "draining", "stopping"}

Underway(j) == job[j].stage \in {"listing", "running"}

\* Mutant: a start makes up for the month's tick, served before or not.
Start_CatchesUp ==
    /\ phase = "down"
    /\ phase' = "serving"
    /\ cronDue' = TRUE
    /\ UNCHANGED <<now, accounts, stats, job, sem, pc, report, effects>>

\* The environment is loaded, the pool answers a ping, the scheduler is
\* started and the server listens.  A start that fails changes nothing.
Start ==
    /\ phase = "down"
    /\ phase' = "serving"
    /\ UNCHANGED <<calendar, accounts, stats, job, sem, pc, report, effects>>

\* SIGINT or SIGTERM: srv.Shutdown begins, accepted requests are finished.
Signal ==
    /\ phase = "serving"
    /\ phase' = "draining"
    /\ UNCHANGED <<calendar, accounts, stats, job, sem, pc, report, effects>>

\* ListenAndServe failed: run() returns at once, into its deferred calls.  It
\* fails before any request (the address is taken), or later (Accept fails): the
\* connections accepted until then are served on, as nothing closes them.
ServeError ==
    /\ phase = "serving"
    /\ phase' = "stopping"
    /\ UNCHANGED <<calendar, accounts, stats, job, sem, pc, report, effects>>

\* srv.Shutdown returns, drained or after its 30 seconds; cron.Stop() follows
\* and no further tick is served.
ShutdownReturns ==
    /\ phase = "draining"
    /\ phase' = "stopping"
    /\ UNCHANGED <<calendar, accounts, stats, job, sem, pc, report, effects>>

\* Mutant: a cron run is never marked as done in the scheduler's wait group.
CronIdle_NeverDone == \A j \in Jobs : ~ job[j].byCron

\* Mutant: only runs still listing their users are waited for.
CronIdle_SkipsWorkers == \A j \in Jobs : job[j].byCron => job[j].stage # "listing"

\* What <-ctx.Done() in Stop waits for: the runs cron itself started.  Runs
\* started by the admin endpoint are plain goroutines and are not counted.
CronIdle == \A j \in Jobs : job[j].byCron => ~ Underway(j)

\* scheduled.Stop() returns and pool.Close() closes the pool.
CronDrained ==
    /\ phase = "stopping"
    /\ CronIdle
    /\ phase' = "closed"
    /\ UNCHANGED <<calendar, accounts, stats, job, sem, pc, report, effects>>

\* The goroutines of the process disappear where they stand.
Die ==
    /\ phase' = "down"
    /\ job' = [j \in Jobs |->
                 [job[j] EXCEPT !.stage = IF Underway(j) THEN "killed" ELSE @]]
    /\ sem' = [j \in Jobs |-> 0]
    /\ pc' = [w \in Workers |-> IF pc[w] \in Live THEN "killed" ELSE pc[w]]
    /\ UNCHANGED <<calendar, accounts, stats, report, effects>>

\* main returns, or logger.Fatal ends the process.
Exit == phase = "closed" /\ Die

\* SIGKILL, a panic in some goroutine, or a second SIGINT or SIGTERM once the
\* deferred signal.Stop has run.
Crash == phase # "down" /\ Die

-----------------------------------------------------------------------------
(***************************************************************************)
(* The calendar and the starting of runs.                                  *)
(***************************************************************************)

MonthTurns ==
    /\ ~ cronDue
    /\ now < LastMonth
    /\ now' = now + 1
    /\ cronDue' = TRUE
    /\ UNCHANGED <<phase, accounts, stats, job, sem, pc, report, effects>>

\* Mutant: the month that is still running is reported.
TargetMonth_Current(month) == month

\* GetTargetMonth("", ""): the month before the current one.
TargetMonth(month) == month - 1

Spawn(j, byCron) ==
    /\ job[j].stage = "idle"
    /\ job' = [job EXCEPT ![j] = [stage |-> "listing", byCron |-> byCron,
                                  month |-> TargetMonth(now)]]
    /\ UNCHANGED <<now, phase, accounts, stats, sem, pc, report, effects>>

\* 02:00 of the 1st: cron starts a run in a goroutine of its own, whether or
\* not an earlier one has ended.
CronFire(j) ==
    /\ cronDue
    /\ CronTicks
    /\ cronDue' = FALSE
    /\ Spawn(j, TRUE)

\* 02:00 passes while no scheduler runs: nothing makes up for it later.
CronMissed ==
    /\ cronDue
    /\ ~ CronTicks
    /\ cronDue' = FALSE
    /\ UNCHANGED <<now, phase, accounts, stats, job, sem, pc, report, effects>>

\* POST /api/admin/trigger-monthly: go h.monthlyJobFn().  A handler may outlive
\* srv.Shutdown, whose 30 seconds may be over, and after a failed Accept nothing
\* stops the handlers of open connections: hence every phase but "down".
TriggerMonthly(j) ==
    /\ phase # "down"
    /\ Spawn(j, FALSE)
    /\ UNCHANGED cronDue

-----------------------------------------------------------------------------
(***************************************************************************)
(* The users table.                                                        *)
(***************************************************************************)

\* Mutant: the CASE that keeps a known address is dropped.
MergedEmail_Overwrites(old, email) == email

\* ON CONFLICT: an empty address never replaces a known one.
MergedEmail(old, email) == IF old = "email" THEN old ELSE email

\* user.Store.Upsert, on a completed login whose profile has an address or not.
SignIn(u, email) ==
    /\ PoolOpen
    /\ accounts' = [accounts EXCEPT ![u] = MergedEmail(@, email)]
    /\ UNCHANGED <<calendar, phase, stats, job, sem, pc, report, effects>>

-----------------------------------------------------------------------------
(***************************************************************************)
(* RunMonthlyJob around its goroutines.                                    *)
(***************************************************************************)

\* ListAll: everyone with an address gets a goroutine, all started at once;
\* later sign-ins are not seen by this run.
ListUsers(j) ==
    /\ job[j].stage = "listing"
    /\ PoolOpen
    /\ job' = [job EXCEPT ![j].stage = "running"]
    /\ pc' = [w \in Workers |->
                IF w[1] = j /\ accounts[w[2]] = "email" THEN "queued" ELSE pc[w]]
    /\ UNCHANGED <<calendar, phase, accounts, stats, sem, report, effects>>

\* The query fails: the run is over before it began.
ListUsersFails(j) ==
    /\ job[j].stage = "listing"
    /\ job' = [job EXCEPT ![j].stage = "finished"]
    /\ UNCHANGED <<calendar, phase, accounts, stats, sem, pc, report, effects>>

\* Mutant: the run ends once no goroutine is waiting for a slot.
AllReturned_SlotsOnly(j) == \A u \in Users : pc[<<j, u>>] # "queued"

AllReturned(j) == \A u \in Users : pc[<<j, u>>] \in {"absent", "done"}

\* grp.Wait() returns when every goroutine has.
JobFinishes(j) ==
    /\ job[j].stage = "running"
    /\ AllReturned(j)
    /\ job' = [job EXCEPT ![j].stage = "finished"]
    /\ UNCHANGED <<calendar, phase, accounts, stats, sem, pc, report, effects>>

-----------------------------------------------------------------------------
(***************************************************************************)
(* processUser and CollectForUser, one step per call that others can see.  *)
(***************************************************************************)

Goes(w, from, to) ==
    /\ pc[w] = from
    /\ pc' = [pc EXCEPT ![w] = to]

Slot(w) == <<w[2], job[w[1]].month>>

\* Mutant: the goroutine goes to work without waiting for a slot.
Acquire_Unguarded(w) ==
    /\ Goes(w, "queued", "fetching")
    /\ sem' = [sem EXCEPT ![w[1]] = @ + 1]
    /\ UNCHANGED <<calendar, phase, accounts, stats, job, report, effects>>

\* sem <- struct{}{}: one of the run's PoolSize slots.  Decrypting the stored
\* token follows; it is local, and its failure is one of FetchFails.
Acquire(w) ==
    /\ Goes(w, "queued", "fetching")
    /\ sem[w[1]] < PoolSize
    /\ sem' = [sem EXCEPT ![w[1]] = @ + 1]
    /\ UNCHANGED <<calendar, phase, accounts, stats, job, report, effects>>

Fetch(w) ==
    /\ Goes(w, "fetching", "comparing")
    /\ \E c \in Commits :
         report' = [report EXCEPT ![w] = [commits |-> c, growth |-> NullGrowth]]
    /\ UNCHANGED <<calendar, phase, accounts, stats, job, sem, effects>>

\* The token does not decrypt or parse, or the GraphQL query fails.
FetchFails(w) ==
    /\ Goes(w, "fetching", "logFailed")
    /\ UNCHANGED <<calendar, phase, accounts, stats, job, sem, report, effects>>

\* Mutant: the month compared with is the reported one itself.
BaseMonth_Same(month) == month

BaseMonth(month) == month - 1

\* The commits of the stored month before the given one, 0 when it has no row.
PreviousCommits(u, month) ==
    LET base == <<u, BaseMonth(month)>>
    IN  IF base \in DOMAIN stats /\ stats[base] # NoRow THEN stats[base].commits ELSE 0

\* FindByUserAndMonth of the month before, then the growth.
Compare(w) ==
    /\ Goes(w, "comparing", "storing")
    /\ PoolOpen
    /\ report' = [report EXCEPT ![w].growth =
                    CommitGrowth(report[w].commits,
                                 PreviousCommits(w[2], job[w[1]].month))]
    /\ UNCHANGED <<calendar, phase, accounts, stats, job, sem, effects>>

CompareFails(w) ==
    /\ Goes(w, "comparing", "logFailed")
    /\ UNCHANGED <<calendar, phase, accounts, stats, job, sem, report, effects>>

\* stats.Store.Upsert: one row per user and month, the last writer wins.
UpsertStats(w) ==
    /\ PoolOpen
    /\ FitsColumn(report[w].growth)
    /\ stats' = [stats EXCEPT ![Slot(w)] =
                   [commits |-> report[w].commits, growth |-> report[w].growth,
                    by |-> w[1], at |-> now]]

Store(w) ==
    /\ Goes(w, "storing", "rendering")
    /\ UpsertStats(w)
    /\ UNCHANGED <<calendar, phase, accounts, job, sem, report, effects>>

\* Mutant: the error of Upsert is not looked at.
StoreFails_Ignored(w) ==
    /\ Goes(w, "storing", "rendering")
    /\ UNCHANGED <<calendar, phase, accounts, stats, job, sem, report, effects>>

\* The upsert is refused, or it is committed and the answer is lost.
StoreFails(w) ==
    /\ Goes(w, "storing", "logFailed")
    /\ UpsertStats(w) \/ UNCHANGED stats
    /\ UNCHANGED <<calendar, phase, accounts, job, sem, report, effects>>

\* Generate: a missing avatar falls back to initials, so only the encoder fails.
Render(w) ==
    /\ Goes(w, "rendering", "sending")
    /\ UNCHANGED <<calendar, phase, accounts, stats, job, sem, report, effects>>

RenderFails(w) ==
    /\ Goes(w, "rendering", "logFailed")
    /\ UNCHANGED <<calendar, phase, accounts, stats, job, sem, report, effects>>

Send(w) ==
    /\ Goes(w, "sending", "logSent")
    /\ mails' = [mails EXCEPT ![w] = @ + 1]
    /\ UNCHANGED <<calendar, phase, accounts, stats, job, sem, report, logs>>

\* Mutant: a failed delivery is tried again (at most once, to bound the model).
SendFails_Retries(w) ==
    /\ mails[w] < 2
    /\ Goes(w, "sending", "sending")
    /\ \E accepted \in {0, 1} : mails' = [mails EXCEPT ![w] = @ + accepted]
    /\ UNCHANGED <<calendar, phase, accounts, stats, job, sem, report, logs>>

\* smtp.SendMail fails: before the message is accepted, or after it (the
\* final QUIT can fail too).
SendFails(w) ==
    /\ Goes(w, "sending", "logFailed")
    /\ \E accepted \in {0, 1} : mails' = [mails EXCEPT ![w] = @ + accepted]
    /\ UNCHANGED <<calendar, phase, accounts, stats, job, sem, report, logs>>

\* Mutant: the deferred release of the slot is lost.
Release_Never(j) == UNCHANGED sem

\* The deferred <-sem.
Release(j) == sem' = [sem EXCEPT ![j] = @ - 1]

Status(w) == IF pc[w] = "logSent" THEN "sent" ELSE "failed"

\* Mutant: the return after a failure is missing, so that the failure is
\* followed by the success path.
Log_FallsThrough(w) ==
    /\ IF pc[w] = "logFailed" THEN Goes(w, "logFailed", "logSent") /\ UNCHANGED sem
                              ELSE Goes(w, "logSent", "done") /\ Release(w[1])
    /\ PoolOpen
    /\ logs' = logs \cup {<<w, Status(w)>>}
    /\ UNCHANGED <<calendar, phase, accounts, stats, job, report, mails>>

\* LogEmail, whose error is ignored, is the last call on every path; the
\* goroutine then returns its slot.
Log(w) ==
    /\ \E status \in {"logSent", "logFailed"} : Goes(w, status, "done")
    /\ Release(w[1])
    /\ \/ PoolOpen /\ logs' = logs \cup {<<w, Status(w)>>}
       \/ UNCHANGED logs
    /\ UNCHANGED <<calendar, phase, accounts, stats, job, report, mails>>

-----------------------------------------------------------------------------

\* The steps that wait for a peer: GitHub, SMTP.  Neither client has a timeout.
CallReturns(w) ==
    \/ Fetch(w) \/ FetchFails(w)
    \/ Send(w) \/ SendFails(w)

OwnStep(w) ==
    \/ Acquire(w)
    \/ Compare(w) \/ CompareFails(w)
    \/ Store(w) \/ StoreFails(w)
    \/ Render(w) \/ RenderFails(w)
    \/ Log(w)

RunStep(j) == ListUsers(j) \/ ListUsersFails(j) \/ JobFinishes(j)

StopStep == ShutdownReturns \/ CronDrained \/ Exit

Next ==
    \/ Start \/ Signal \/ ServeError \/ StopStep \/ Crash
    \/ MonthTurns \/ CronMissed
    \/ \E u \in Users, email \in {"noEmail", "email"} : SignIn(u, email)
    \/ \E j \in Jobs : CronFire(j) \/ TriggerMonthly(j) \/ RunStep(j)
    \/ \E w \in Workers : CallReturns(w) \/ OwnStep(w)

Spec == Init /\ [][Next]_vars

\* What the Go scheduler and the database owe: a goroutine that can move does.
CodeFairness ==
    /\ \A w \in Workers : WF_vars(OwnStep(w))
    /\ \A j \in Jobs : WF_vars(RunStep(j))
    /\ WF_vars(StopStep)

\* What the code needs from GitHub and the mail server, and does not enforce.
PeersAnswer == \A w \in Workers : WF_vars(CallReturns(w))

CodeFairSpec == Spec /\ CodeFairness
FairSpec == CodeFairSpec /\ PeersAnswer

-----------------------------------------------------------------------------
(***************************************************************************)
(* Safety.                                                                 *)
(***************************************************************************)

\* scheduler.go:92-104.  On every path through processUser, the early returns
\* included, a run's semaphore counts exactly the goroutines that hold a slot.
SemaphoreCounts ==
    \A j \in Jobs : sem[j] = Cardinality({u \in Users : pc[<<j, u>>] \in Holding})

\* scheduler.go:129-135.  A run sends a user at most one report, whatever
\* fails, and a 'sent' row stands only for a report the mail server took.
LogsMatchMail ==
    /\ \A w \in Workers : mails[w] <= 1
    /\ \A w \in Workers : <<w, "sent">> \in logs => mails[w] = 1

\* scheduler.go:115-129, stats/store.go:26-46.  Who was mailed has a row for
\* that month; and unless another run stored the month again, the row holds
\* the very figures of the report.
MailAgreesWithTable ==
    \A w \in Workers : mails[w] > 0 =>
        /\ stats[Slot(w)] # NoRow
        /\ stats[Slot(w)].by = w[1] =>
              /\ stats[Slot(w)].commits = report[w].commits
              /\ stats[Slot(w)].growth = report[w].growth

\* The user has a row for the month before m.
HasBase(u, m) == m > 0 /\ stats[<<u, m - 1>>] # NoRow

\* The month before m was never stored, or last stored in its own turn, that is
\* before a run for m could begin.
BaseInTurn(u, m) == HasBase(u, m) => stats[<<u, m - 1>>].at = m

\* What the figures of month m must say of the growth since the month before.
GrowthFits(u, m, figures) ==
    figures.growth =
        CommitGrowth(figures.commits,
                     IF HasBase(u, m) THEN stats[<<u, m - 1>>].commits ELSE 0)

\* collector.go:70-90.  A stored growth agrees with the row of the month before,
\* and without such a row with no commits at all, unless that row was stored
\* out of its turn: no interleaving of runs, and no crash between the read and
\* the upsert, makes them disagree otherwise.
GrowthAgreesInTurn ==
    \A u \in Users, m \in Months :
        (stats[<<u, m>>] # NoRow /\ BaseInTurn(u, m)) =>
            GrowthFits(u, m, stats[<<u, m>>])

\* controller.go:241-254, collector.go:62.  No row and no mail is ever about a
\* month that is not over, even when the month turns during a run.
ClosedMonthsOnly ==
    /\ \A u \in Users, m \in Months : stats[<<u, m>>] # NoRow => m < now
    /\ \A w \in Workers : mails[w] > 0 => job[w[1]].month < now

\* scheduler.go:54, 61, 129.  However often the process is killed and started
\* again, cron has a user mailed at most once about a month: whoever gets a
\* second report owes it to the admin endpoint.
ScheduledMailOnce ==
    \A v, w \in Workers :
        (/\ job[v[1]].byCron /\ job[w[1]].byCron
         /\ mails[v] > 0 /\ mails[w] > 0
         /\ Slot(v) = Slot(w)) => v = w

\* scheduler.go:86-108.  What the semaphores bound: at any time at most
\* PoolSize goroutines are at work for each run that is under way, and none
\* for a run that has ended.
WorkBoundedByRuns ==
    Cardinality({w \in Workers : pc[w] \in Holding})
        <= PoolSize * Cardinality({j \in Jobs : Underway(j)})

\* scheduler.go:92-108.  A run that is not over can go on: all its goroutines
\* have returned, or one is at work, or one waits and a slot is free.  No
\* failure, and no run beside it, leaves everyone waiting for a slot.
NoRunStuck ==
    \A j \in Jobs : job[j].stage = "running" =>
        \/ AllReturned(j)
        \/ \E u \in Users : pc[<<j, u>>] \in Holding
        \/ sem[j] < PoolSize /\ \E u \in Users : pc[<<j, u>>] = "queued"

\* scheduler.go:63-66 with main.go:105.  Once Stop has returned and the pool
\* is closed, no goroutine of a run that cron started is left at work.
CronRunsDrained ==
    phase = "closed" => \A w \in Workers : job[w[1]].byCron => pc[w] \notin Live

\* user/store.go:32, scheduler.go:78.  A known email address is never lost
\* to a later login whose profile hides it.
AddressKept ==
    [][\A u \in Users : accounts[u] = "email" => accounts'[u] = "email"]_vars

-----------------------------------------------------------------------------
(***************************************************************************)
(* Liveness.                                                               *)
(***************************************************************************)

\* scheduler.go:69-110.  A run that has begun ends, or dies with the process:
\* no goroutine waits for a slot for ever.
RunsSettle == \A j \in Jobs : Underway(j) ~> ~ Underway(j)

\* main.go:134-151.  A server asked to stop does stop.
StopEnds == (phase = "draining") ~> (phase = "down")

-----------------------------------------------------------------------------
(***************************************************************************)
(* What comments of the code say, and the code does not do.                *)
(***************************************************************************)

\* scheduler.go:19, 86: workerPoolSize bounds the work on GitHub's API.
FetchesBounded == Cardinality({w \in Workers : pc[w] = "fetching"}) <= PoolSize

\* stats/model.go:20: "NULL for the user's very first tracked month".
FirstMonthIsNull ==
    \A u \in Users, m \in Months :
        (/\ stats[<<u, m>>] # NoRow
         /\ \A n \in Months : stats[<<u, n>>] # NoRow => n >= m)
        => ~ stats[<<u, m>>].growth.valid
=============================================================================
