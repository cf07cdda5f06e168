# Verification of github-badges-backend

This directory holds TLA+ models of the service, the TLC configurations that
check them on small instances, and TLAPS proofs that hold for every value of
the constants. Paths are relative to the root of the repository.

- [The system](#the-system): parts, state, interactions, what is hard
- [The modules](#the-modules): what each one models and how it maps to the code
- [The runs](#the-runs): what each one checks, its bounds, the fairness assumed
- [The proofs](#the-proofs): what is proved and along which argument
- [What the code does that its text does not say](#what-the-code-does-that-its-text-does-not-say)
- [Not modelled](#not-modelled) and [plan](#plan)

## The system

One Go process (`cmd/server/main.go`) hosts an HTTP server, a cron scheduler and
the goroutines of the monthly job. Its only durable state is three PostgreSQL
tables (`users`, `monthly_stats`, `email_logs`).

| component | state | operations | talks to | what makes it correct |
| --- | --- | --- | --- | --- |
| process lifecycle, `cmd/server/main.go` | where `run()` is | start, signal, failed listen, shutdown, deferred stops, exit | scheduler, HTTP server, pool | a stop ends; cron's runs are drained before the pool closes |
| scheduler, `internal/scheduler` | runs, one semaphore per run, goroutines | `Start`, `Stop`, `RunMonthlyJob`, `processUser` | stores, collector, generator, mailer | every path returns its slot; every listed user is dealt with once |
| collector, `internal/stats/collector.go` | none | `CollectForUser` | GitHub, stats store, token encryption | the growth agrees with the rows it stands between |
| stats store, `internal/stats/store.go` | `monthly_stats`, `email_logs` | `Upsert`, `FindByUserAndMonth`, `ListForUser`, `LogEmail` | PostgreSQL | mail, row and log tell the same story |
| user store, `internal/user` | `users` | `Upsert`, `ListAll`, `FindByID` | PostgreSQL | known addresses and row ids survive later logins |
| GitHub client, `internal/github` | none | `FetchMonthlyStats`, `UserInfo` | GitHub | the count is the month's |
| target month, `GetTargetMonth` | none | default and named month | clock | months join over a year's turn; the running month is never served |
| login and session, `internal/auth` | cookies of the browsers, signed tokens | `HandleLogin`, `HandleCallback`, `HandleLogout`, `RequireAuth`, `RequireAdmin` | GitHub, user store | a session names who asked for it |
| HTTP API, `internal/server`, `internal/middlewares` | the response of each request | handler chains, the middlewares, the controllers | stores, scheduler | the first answer is what is sent and logged; who is refused is told so and not served; each "job started" is a run |
| mailer, `internal/mailer` | none | `SendPoster` | SMTP | a mail goes out at most once per run |
| poster, `internal/poster` | font faces shared by all goroutines | `Generate` | avatar host | a poster shows its own user's texts |
| token encryption, configuration, logger | none, or read once | | | |

How they interact: cron (02:00 UTC on the 1st) and `POST
/api/admin/trigger-monthly` both call `RunMonthlyJob`, each time in a goroutine of
its own and with nothing between them. A run computes the month once, lists the
users once, starts one goroutine per user with an address, and lets as many work
as its own semaphore has slots. Each goroutine fetches from GitHub, reads the
month before, upserts the row, draws, mails, logs. Logins write the `users` table
at any time. `main` stops the HTTP server, then (deferred) the scheduler, then
closes the pool. A request's handlers run one after the other, in a goroutine of
the process, and gin goes on to the next one unless a handler aborts; none does.

What is hard, and hard to test: runs overlapping for one month or across a change
of month; a crash or a closed pool between two of the six calls of a goroutine;
calls that succeed but whose answer is lost; a shutdown while peers hang; the
calendar turning during a run or during a request; several logins of one browser
sharing one state cookie while their callbacks wait for GitHub; handlers that go on
after a refusal; requests under way when the process stops; font faces drawn with
by several goroutines at a time. `PROJECT.json`
lists each such hazard at its line with the properties that cover it.

## The modules

| module | models | EXTENDS / INSTANCE |
| --- | --- | --- |
| `Growth` | the growth formula of `collector.go:83-90`, the range of its column | |
| `MonthlyJob` | process, scheduler, collector, stores, mailer, cron and admin starts | `Growth` |
| `Drain` | `MonthlyJob` with a record of the runs that `Stop` finds under way | `MonthlyJob` |
| `ReportLedger` | abstract: what a run promises each listed user | |
| `MonthlyJobLedger` | the mapping under which `MonthlyJob` implements `ReportLedger` | `MonthlyJob`, `ReportLedger` |
| `MonthlyJobInvariant` | the inductive invariant | `MonthlyJobLedger` |
| `RepoCount` | the loop of `client.go:53-60` over pages GitHub serves | |
| `TargetMonth` | `GetTargetMonth` and the months derived from it | |
| `Login` | the OAuth login over cookies, callbacks and the users table | |
| `Consent` | abstract: what a login promises, without cookies, codes or calls | |
| `LoginConsent` | the mapping under which `Login` implements `Consent` | `Login`, `Consent` |
| `Api` | the chain of handlers of every route, middlewares, controllers, the response | |
| `Exchange` | abstract: what a client of the API relies on, without handlers or headers | |
| `ApiExchange` | the mapping under which `Api` implements `Exchange` | `Api`, `Exchange` |
| `Service` | the composition: API and callback over the monthly job, in one process | `MonthlyJob`, `Api` |
| `Poster` | `Generate` in several goroutines with the shared font faces | |
| `MCMonthlyJob`, `MCTargetMonth`, `MCLogin`, `MCApi`, `MCService`, `MCPoster` | symmetry sets, structured constants and state constraints for TLC | |
| `MonthlyJobProofs`, `MonthlyJobLedgerProofs`, `RepoCountProofs`, `TargetMonthProofs`, `LoginProofs`, `ApiProofs`, `ServiceProofs`, `PosterProofs` | theorems | |

### MonthlyJob

| variable | in the code |
| --- | --- |
| `now`, `cronDue` | the clock; months count from 0; whether 02:00 of this month's 1st is still to come |
| `phase` | `serving` → `draining` (in `srv.Shutdown`) → `stopping` (in `scheduled.Stop`) → `closed` (pool closed) → `down` |
| `accounts` | `users`: no row, a row without an address, a row with one |
| `stats` | `monthly_stats`, unique on user and month; `by` and `at` are history (which run stored it, when) |
| `job[j]` | run `j`: stage, whether cron started it, its month |
| `sem[j]` | occupied slots of the channel made in run `j` |
| `pc[<<j,u>>]` | the goroutine of run `j` for user `u`: queued, then one value per call of `processUser` |
| `report` | the `MonthlyStats` the goroutine holds |
| `mails`, `logs` | messages the SMTP server took; rows of `email_logs` |

There is one action per call that another goroutine, the database or a peer can
see, each with its failure. A failing `INSERT` comes in two forms, refused and
committed with the answer lost; so does a failing `SendMail`. The last step of
every path is `LogEmail` (whose error is ignored) together with the deferred
release of the slot. `Die` kills all goroutines where they are; durable state
stays. `Stop` waits for what cron started and for nothing else. The admin
endpoint may start a run in any phase but `down`: a handler can outlive a
`Shutdown` that times out, and `ServeError` is every return of `ListenAndServe` with
an error, also that of an `Accept` after requests have come in, whose handlers go
on while the deferred calls of `run` are made. (If the port cannot be bound at all
no request has come in; these are the behaviours in which none does.)

Growth is an exact rational `num/den`; nothing depends on float rounding. The
column `NUMERIC(10, 4)` refuses 10^6 and more; `GrowthLimit` stands for that
bound and is lowered for TLC so that refusals happen with small numbers.

### RepoCount

`repos` is the history of one user, oldest first; `nodes` the page a run received;
`next` and `reposCreated` the loop. The user creates repositories at any moment,
during the loop included. `from` and `to` are `From` and `To`, 100 is `PageSize`.

### TargetMonth

`call` is one request with the state it has reached; `state = "yearPassed"` is the
moment between the two `time.Now()` of `controller.go:237`. `reports` are runs with
the month, window end and base month they derived. `time.Date` is modelled with
its carry into the year. The image is built from scratch and sets no zone
(`Dockerfile`), so local time is UTC; on a host with another zone the explicit
branch, which reads local time, would compare with another clock than the default
branch does.

### Login

`stateCookie[b]` and `session[b]` are the cookies of browser `b`; `flow[f]` a login,
named by its random state; `call[c]` one request to the callback address of a
flow, which may be loaded more than once and in any browser. A request carries
the cookie the browser has when it is sent; the cookies of the answer take effect
in `Receive`, after the exchange, the profile and the upsert. `Lose` is a client
that goes away or a server that dies. `newest` and the `flow` of a session are
history. A code is exchanged once, as GitHub does.

`LoginConsent` maps a login to a consent: asked, given or declined, being redeemed
from the exchange of its code until the answer that may carry the session has
arrived or is lost, and then spent. In `Consent` a consent opens at most one
session, in the browser that asked; that `Login` implements it says that cookies,
reloads, tabs and failing calls add no other way to a session.

### Api

`req[r]` is one request, `at[r]` the position in its chain: logger, CORS, the
middleware of its group if it has one, handler, then back in the logger. `Runs` is
gin's loop: a handler that returns is followed by the next. `resp[r]` is the
response writer: the first body fixes status and headers, later bodies are
appended. `origin` is the CORS header as set, `sentOrigin` as sent. `ginUser` is
the key that `RequireAuth` sets and nothing reads. An `OPTIONS` request has no
route: it gets the engine's middlewares and `NoRoute`, which replaces the 204 that
CORS has set and not written. A path that differs from a route by a trailing slash
(`TrailingSlash`) has no chain: gin answers 301 or 307 itself, before any handler,
with no log line and no CORS header (`Redirect`). A request is described by what the handlers look at
(a session that verifies, the right key, a valid month, the frontend's origin); the
admin endpoint is asked with and without a session, which it does not look at.

`ApiExchange` maps the first body of the response to the reply and the log to the
record; CORS, refusals, positions and second answers stutter. `StatusesOf` is the
API's contract: what each route may answer to whom, written down by itself and not
with the operators of `Api`. That `Api` implements
`Exchange` says that handlers which go on after a refusal break neither it nor
the log.

### Service

`MonthlyJob` and an instance of `Api` side by side, with the steps that are both:
`TriggerMonthly` answers and starts a run of its own (`run[r]`), the callback
stores an account, the end of the process cuts its requests off (`lost`), and
`srv.Shutdown` returns when every accepted request is through or 30 seconds have
passed (`stop`). Requests arrive while the process serves. After a failed listen
handlers go on until the process exits, as nothing waits for them. The steps are
put together from those of the parts, so that the parts' own theorems hold of the
whole (`JobHolds`, `ApiHolds`); what is checked is what neither part says by itself.

### Poster

`Generate` is the sequence of texts it draws, each with its face. Drawing a text is
two steps, entering and leaving `DrawString`: the face renders the glyphs into its
mask (`RenderGlyphs`), the mask is copied to the canvas (`CopyMask`). No lock is held
in between. `met` is history: the faces in which two goroutines have been at a time.
There a text may come out as it should, as the other goroutine's, or torn (glyphs
missing, mixed or out of place), from then on also for who draws alone, since a
face's cache keeps a glyph that was rendered badly; and while two are in a face the
rasterizer may panic, which kills the process and all who draw (`Panic`; in
`MonthlyJob` that is `Crash`). A text, not a glyph, is the unit: a text is torn if one
of its glyphs is. Goroutines that follow each other in a face without meeting are
taken to see each other's writes, as on amd64, for which the `Dockerfile` builds.
`Slots` is how many goroutines may be drawing, over all runs. Coordinates, colours
and shapes are left out.

## The runs

| run | constants | states | checks |
| --- | --- | --- | --- |
| `overlap` | 1 user, 2 runs, 1 slot, months 0..2, commits {0, 1, 3} | 2.2 M | invariant, mail/log/table/growth/drain properties, refinement |
| `pool` | 2 users, 1 run, 1 slot, 2 months, fairness | 35 k | slots are counted right, work is bounded by them, nobody is stuck; every run and every stop ends |
| `repo_page` | page of 2, up to 4 repositories, times 0..4, month 1..2 | 1.7 k | the count of repositories |
| `months` | December to the end of the next year, named months {1, 2, 12, 13}, 2 reports | 0.5 M | target months |
| `tabs` | 2 browsers, 2 accounts, 2 logins, each callback loaded twice | 0.3 M | sessions; refinement of `Consent`; spent consents |
| `routes` | 2 requests over all routes, 1 account | 33 k | status, log, bodies and CORS header of every chain; refinement of `Exchange` |
| `whole` | 2 requests to the admin endpoint or the callback, 1 user, 2 runs of cron or a request, months 0..2, fairness of the handlers | 1.0 M | the composition: drained stops, an own run per answer, second mails, answers that do not wait |
| `stop_drops`, `repo_hidden`, `refused`, `profile`, `poster` | smallest that shows it | | a counterexample to a statement of the repository's text |

`overlap` checks:

- `LogsMatchMail`: a run mails a user at most once whatever fails, and a `sent`
  row stands only for a mail the server took (the converse does not hold: a crash
  or a failing `INSERT` leaves a mail unlogged).
- `MailAgreesWithTable`: who was mailed has a row for that month with the mailed
  figures, unless another run stored the month again.
- `GrowthAgreesInTurn`: a stored growth agrees with the row of the month before,
  and without such a row with no commits at all, if the month before was last
  stored in its own turn or never. A month stored out of its turn, by a run that
  goes on after the calendar has moved, leaves the next month's growth as it was:
  the code recomputes nothing, so the property is conditional.
- `ClosedMonthsOnly`: no row or mail about a month that is not over.
- `CronRunsDrained`: no goroutine of a cron run is left when the pool closes.
- `ScheduledMailOnce`: cron has a user mailed at most once about a month, however
  often the process is killed and started again. With `SecondMailAsked` of `whole`
  this says who is to blame for a second mail.
- `AddressKept`: no step loses a known address.
- `ImplementsLedger`: each listed user is owed one report, closed once, delivered
  at most once and only while owed; what is owed when the process dies is lost.
- `IInv`: the inductive invariant of the proofs, the types included.

`pool` has two users for one slot and checks `SemaphoreCounts`; `WorkBoundedByRuns` (at
most `PoolSize` goroutines work for each run that is under way, and none for one
that has ended: this is what the semaphores do bound, while that all runs together
stay below `PoolSize`, as the code's comments have it, is not so, see
`RateLimit.cfg`); `NoRunStuck` (in a run that is not over all have returned, or one
works, or one waits and a slot is free); and the liveness properties `RunsSettle` (a
run that has begun ends or dies with its process) and `StopEnds` (a server asked to
stop does).

`repo_page` checks `NeverOvercounts` and `AllOrNothing` (a finished count is the
month's as far as the page goes, or 0 if anything newer is on the page).
`months` checks `ReportsChain` (consecutive reports join and each is compared with
the one before, January included), `RunningMonthRefused` (at the moment of the
answer, even if the calendar turned during the request) and
`FinishedMonthsServed`. The last has the condition that the year did not turn
between the two readings: a request for a month of the old year that is answered
across New Year is refused. `tabs` checks `SessionConsented`, `SessionNamesRow`,
`ImplementsConsent` and two action properties: `SupersededOpensNothing` (once a newer
login has been begun in its browser, an older one opens no session; the exception
is a callback that was accepted before, whose late answer replaces the session of
the newer login) and `SpentOpensNothing` (once a login is declined, redeemed or wasted, loading its callback again, from
another tab or with a copy that is still waiting, signs nobody in).

`routes` checks `LoggedAsSent` (one log line per request, after its chain, with the
status the client got although later handlers tried to set another),
`OriginOnEveryAnswer` (refusals and `NoRoute` included, gin's own redirects not),
`RefusalStands` (401 goes to exactly those without a session on the three routes of
the group, and the admin endpoint answers 404, 403 or 202 by its key alone),
`RefusedLearnsNothing` (all that the handler appends to a 401 are errors) and
`ImplementsExchange`. `whole` checks `ServiceInv` (the inductive invariant),
`AnsweredBeforeClose` (after a drained stop no request meets a closed pool),
`EachAnswerItsRun` (no two answers "job started" share a run, none takes cron's),
`SecondMailAsked` (a user mailed twice about a month owes it to a request that was
told that the job is started) and `RequestsSettle` (a request other than a callback is
answered, or cut off with the process, although the peers of the run it started may
never answer).

`stop_drops` checks `EveryRunDrained` of `Drain`, which remembers the runs that are under
way when `Stop` is called after a signal. TLC starts one by the admin endpoint while
the server drains; `Shutdown` returns, `Stop` finds no job of cron and returns, and the
pool is closed with that run still at work.

Further configurations are kept beside the listed runs, for
`tlc -config <file> <module>`:

| configuration | module | result |
| --- | --- | --- |
| `Slots.cfg` | `MCMonthlyJob` | `pool` with 3 users and 2 slots, 0.9 M states, a few minutes: passes |
| `FacesMet.cfg` | `MCPoster` | 2 users, 2 slots, up to the sixth text, 2.8 M states: the invariant of `PosterProofs` holds |
| `AdminSession.cfg` | `MCApi` | `SessionOnAllApi` fails: `README.md:101` "All `/api` requests require a valid JWT session cookie", but `server.go:46-51` gives the admin group no `RequireAuth` |
| `RateLimit.cfg` | `MCMonthlyJob` | `FetchesBounded` fails: the semaphore is per run, overlapping runs exceed the bound `scheduler.go:19`, `:86` speak of |
| `HungPeer.cfg` | `MCMonthlyJob` | `StopEnds` fails without `PeersAnswer`: `main.go:141` announces shutdown in 30 seconds, `Stop` waits without a bound |
| `FirstMonth.cfg` | `MCMonthlyJob` | `FirstMonthIsNull` fails: `model.go:20` "NULL for the user's very first tracked month", but 100 as soon as there are commits |
| `DefaultMonth.cfg` | `MCTargetMonth` | `CurrentByDefault` fails: `README.md:106` "Returns current or requested month stats", but the default is the month before |
| `Preflight.cfg` | `MCApi` | `PreflightAccepted` fails: the 204 of `cors.go:28` becomes the 404 of `NoRoute` |

### Bounds

Each is a constant of its module. Two runs are enough for every pairwise overlap,
and properties speak of at most two runs; three months give a month, the one
before it and one more turn; {0, 1, 3} gives NULL, 100%, growth, loss and, with
`GrowthLimit` 200, a refused row (1 after 3 fits, 3 after 1 is 200% and does not).
One user is enough in `overlap`, because goroutines of different users share only
the semaphore, and `pool` is about that. Months 12 and 1 are the edges of a year
and 13 is not a month. Two logins and two loads give an older and a newer tab, a
reload, and a callback in the wrong browser.

Requests of `Api` share nothing, so that one would do in `routes`; two show that
they do share nothing. `whole` has two months to tell about, so that cron's run, a
request's run and a restart between them meet. Its two runs may be used up when a
request needs a third, which the code would have: `RequestsSettle` leaves out a
request that waits for a run while none is left (`RunsUsedUp`); the safety
properties need no such condition. `Asked` is the requests that reach another
component; `routes` has the others. The constraint `Reduced` of `MCService` follows
one order of the two requests and of the two runs, which are interchangeable, and
one of the statuses a failing callback may have. Each behaviour it cuts off is one
it keeps under other names, so it is sound for liveness too, where TLC allows no
symmetry set.

Runs, users, browsers, accounts, logins and requests are compared for equality
only, so they are symmetry sets in safety runs; `pool` and `whole` use none, since
they check liveness. Deadlock is checked except where what is to be done is used
up: the logins of `tabs`, the requests of `routes`, `refused` and `profile`, the
posters of `poster`.

### Fairness

`CodeFairness` is weak fairness of what the Go scheduler and PostgreSQL owe: a
goroutine that can move does (`OwnStep`), a run's own steps happen (`RunStep`), a
stop proceeds (`StopStep`; `srv.Shutdown` has its 30 seconds). A slot of a
channel needs only weak fairness: in every run slots are given back and not
taken from outside. `PeersAnswer` is weak fairness of the GitHub and SMTP calls.
The code does not enforce it: `oauth2.NewClient` on `context.Background()` and
`smtp.SendMail` have no timeout. `pool` assumes both; `HungPeer.cfg` drops the second
and loses `StopEnds`.

`HandlerFairness` in `whole` is weak fairness of each request's own steps: net/http
gives it a goroutine. Nothing is assumed of callbacks, which wait for GitHub, nor
of the job, its peers, the clock or clients. The safety runs assume no fairness.

## The proofs

All theorems are of the form "the specification implies", for any constants that
satisfy the named assumptions: finite sets of users or accounts, a pool size,
page size and growth limit above zero, commit counts that are naturals, an empty
user id that is no id. They are
checked by TLAPS to the last leaf.

- `MonthlyJobProofs`: `TypeOK` and every safety property of `overlap` and `pool`.
  (with `WorkBoundedByRuns`). None is inductive. `IInv` adds what each of them rests on: a goroutine lives
  in a running run and a run in a process (`RunsInPlace`), so that a new run or a
  restart finds no goroutine of its own; mails and log rows are tied to positions
  in `processUser` (`MailOnce`); every row is tied to the goroutine that stored it
  (`RowsExplained`), which is what makes mailed and stored figures comparable;
  and a growth about to be stored still agrees with the row it was computed from,
  or with there having been none (`GrowthFresh`), which carries `GrowthAgreesInTurn` over the gap between the
  read and the upsert. `SemaphoreCounts` is needed for the type of `sem`: only it
  excludes a release below zero. The proof has one lemma per part and in it one
  step per action.
  Other parts carry the newer results. `CronRunsApart` (cron's runs are about
  different months, and while a tick is to come all of them are about earlier ones)
  gives `ScheduledMailOnce`; it needs that a tick fires or is missed once a month
  and that a start of the process makes up for none. `GrowthInRange` says what a
  stored growth can be: at least -100 %, inside its column, absent only without
  commits. `NoRunStuck` follows from `SemaphoreCounts`: a full semaphore counts a
  goroutine at work.
- `WorkBounded` and `FetchesBoundedAlone`, in the same module, are counting
  arguments for any numbers of runs and users. `ClassesBound` is the lemma: a set
  sorted into finitely many classes of at most n has at most n times as many
  elements as there are classes. The library's induction over finite sets is out
  of reach (below), so it is proved by numbering the elements of each class: the
  pairs of a class and a number cover the set. Only finitely many runs have begun (`RunsBegunFinite`), however
  many names for runs there are. `FetchesBoundedAlone` is the exact condition of
  the comment at `scheduler.go:86`: it is true while at most one run is under way.
- `MonthlyJobLedgerProofs`: `LedgerImplemented`. Under `EntryOf`, listing is
  `List`, an accepted mail is `Deliver`, the final step of a goroutine is `Close`,
  death is `Lose`, and all else stutters. `MailOnce` provides the guards.
  `RowsTrue` and `EndIsFinal` are then said in the ledger's own words, without runs
  or goroutines: log rows are about closed entries, 'sent' ones about delivered
  reports, and nothing is delivered or logged for an entry after its end.
- `RepoCountProofs`: the page a run holds is tied to the prefix of the history it
  was taken from (`PageOfThePast`); what came later is newer than the month. The
  count is then the size of an interval of positions.
- `TargetMonthProofs`: months are put on one line (`Index`); `CalendarSteps` shows
  `PreviousMonth`, `WindowEnd` and `BaseMonth` to be steps on it.
- `LoginProofs`: a state cookie belongs to the last login begun in its browser
  (`CookieOfNewest`), an accepted callback to the browser of its login
  (`CallsSound`), and an upsert changes no id that a session or call knows
  (`IdsUnique`, `UpsertStep`). `ConsentImplemented`: the exchange is `Redeem`, the
  arrival of an answer with a session is `Open`, a lost or failed one is `Waste`.
  It needs that at most one call redeems a login (`OneRedeemer`), since GitHub
  exchanges a code once, and that its browser is the one the call is made in.
  `SupersededOpensNothingHolds`: the state that the newer login has put into the
  cookie is not the older one's, and states do not come back. `SpentOpensNothingHolds` uses the refinement: a session is opened only from a
  consent that is being redeemed, and a spent one is never redeemed again.
- `ApiProofs`: `Sound` relates a request, its position and its response. That the
  handler behind a middleware starts with an answer exactly if the middleware has
  refused is what carries `RefusalStands` over the handler that runs all the same;
  that no controller answers 401 or 403 is the rest. `RefusedLearnsNothingHolds`
  rests on the lookups behind a 401 having no user id, as `NoUser` names no row.
  `ImplementsExchangeHolds`: the first body is `Reply`, `Log` is `Record`; `Sound` is
  strengthened by what the first answer may be, and each handler has a lemma that
  its first answer is one that `StatusesOf` allows (`Redirect` is a handler of its own here) and that later ones change
  nothing.
- `ServiceProofs`: a lemma (`PartsImplemented`) maps each step of the process to a
  step or a stutter of each part. It follows from how the composition is written and
  is no result by itself; it carries the theorems about the job and the API over to
  the process. With the parts' types, `ServiceInv` (a request's run was begun, by no
  other request and not by cron; a drained stop has left no request) is inductive:
  an idle run is the only one that can be started, and an answer "job started" is
  written only with `run[r]`. `SecondMailAskedHolds` combines the two worlds: two
  runs that mail one user about one month are not both cron's (`ScheduledMailOnce`,
  through the refinement), a run that is not cron's was begun by a request
  (`ServiceInv`), and that request, having started it, is at the end of its chain
  with the answer "job started". `JobHolds` and `ApiHolds` restate the parts'
  theorems of the process.
- `PosterProofs`: `WrongOnlyWhereTheyMetHolds`, for any number of slots. Posters are
  not right in general, as the run `poster` shows; what holds is that damage stays
  in the faces where goroutines have met. A goroutine in any other face is alone in
  it and its mask holds the goroutine's own text (`AloneUnlessMet`): whoever entered
  before or after it has left, or the meeting would be noted.

Only model-checked: `RunsSettle`, `StopEnds` and `RequestsSettle`, because liveness
under fairness is out of the prover's reach. Every other property of the passing
runs is a theorem. No module uses a recursive operator, and no proof uses the
library's induction theorems, whose operator parameters the provers cannot
instantiate.

## What the code does that its text does not say

| run | text | code |
| --- | --- | --- |
| `stop_drops` | `scheduler.go:64` "Stops and waits for every pending job to finish" | runs of the admin endpoint are not waited for |
| `repo_hidden` | `model.go:11` "aggregated GitHub activity for a single calendar month" | one repository created after the month makes its count 0 |
| `refused` | `README.md:101` "All `/api` requests require a valid JWT session cookie", `:116` "If `ADMIN_KEY` is empty, the admin endpoint is hidden" | the middlewares answer and do not abort: the handler runs, queries and answers a second time, and the admin endpoint starts the job |
| `profile` | `README.md:104` "Returns authenticated user profile metadata" | the user id is stored in gin's keys and looked up in the request's context: the query has an empty id, and the answer is 500 |
| (`AdminSession.cfg`) | `README.md:101`, the same sentence | the admin group has no `RequireAuth` (`server.go:46-51`): with the key, and no session, the job is started |
| `poster` | `README.md:125` "Generates a PNG poster report" and `:126` "Emails the report to the user" | goroutines draw with the same font faces and no lock: a poster may show another user's texts, or torn ones, and a panic would end the process |

The configurations that fail, under [The runs](#the-runs), are more of the kind.

More that no text contradicts: a named month of a later year is accepted when its
number is below the current one (`controller.go:237` compares year and month
separately); the answer of one callback clears the state cookie of a login begun
meanwhile in another tab (`oauth.go:148`), which is then refused, and its session
replaces the one of a newer login that has finished first (`oauth.go:266`); GitHub is asked
about the stored login and not the account, which may have been renamed
(`collector.go:64`); the mail puts a minus sign before a number that has one
(`mailer.go:155-166`, `--5.0%`) where the poster has one; the HTML part of the mail
is declared quoted-printable and written as it is (`mailer.go:113-117`).

## Not modelled

- The text and the MIME form of the mail, the poster's layout, the fields of the
  JSON answers: pure formatting without state. `SendPoster` is a step that may fail
  before or after the server has taken the message.
- The sum over pull requests to other owners' repositories: one pass over one
  page, with no state of its own.
- A rename of a GitHub account: the models have accounts and no logins.
- AES-GCM, JWT signing, zap, pgx, gin beyond its chain and response writer:
  libraries. A token that does not decrypt is a failing fetch; `Encrypt` failing is
  a failing callback.
- Configuration and logger: read or built once, before anything runs.
- `FindLatestForUser` and `FindByGithubID`: called by nothing.
- Real time: the 30 seconds of the shutdown, the 5 of the avatar and the lifetimes of
  cookies and tokens are steps that may or may not come, in any order.

## Plan

Done: the monthly job with its ledger, repositories, months, logins with their
consent, the HTTP API, the composition, the poster; the invariants of all of them
are proved, with all the safety properties the runs check and the three
refinements (`ReportLedger`, `Consent`, `Exchange`). What
would come next:

1. `Login` in `Service` instead of the callback's effect on the `users` table, with
   its cookies and sessions as what `RequireAuth` sees.
2. `Poster` under the semaphores of `MonthlyJob`, with `Slots` given by overlapping
   runs.
3. Logins (names) beside accounts, with renames, in `MonthlyJob`.
