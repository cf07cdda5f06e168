------------------------- MODULE MonthlyJobInvariant -------------------------
(***************************************************************************)
(* The inductive invariant of MonthlyJob.  Each part says why a property   *)
(* of MonthlyJob survives one more step; MonthlyJobProofs proves it.       *)
(***************************************************************************)
EXTENDS MonthlyJobLedger

BeforeStore == {"absent", "queued", "fetching", "comparing", "storing"}
BeforeSend == BeforeStore \cup {"rendering", "sending"}

\* A goroutine lives inside a running run, a run inside a process; a run's
\* month was over when it started.
RunsInPlace ==
    /\ \A j \in Jobs :
        /\ Underway(j) => phase # "down"
        /\ job[j].stage # "idle" => job[j].month < now
    /\ \A w \in Workers :
        /\ pc[w] \in Live => job[w[1]].stage = "running"
        /\ job[w[1]].stage \in {"idle", "listing"} => pc[w] = "absent"
        /\ pc[w] = "killed" => job[w[1]].stage = "killed"

\* Once the pool is closed cron cannot start a run, so none comes back.
ClosedIdle == phase = "closed" => CronIdle

Begun(j) == job[j].stage # "idle"

\* Cron's runs are about different months, and one that is still to come this
\* month will be about a later month than all of them.
CronRunsApart ==
    \A j \in Jobs : job[j].byCron =>
        /\ Begun(j)
        /\ cronDue => job[j].month < now - 1
        /\ \A i \in Jobs : job[i].byCron /\ job[i].month = job[j].month => i = j

\* A goroutine mails at most once because it mails only on its way from
\* "sending", and logs once because it logs only on its way to "done".
MailOnce ==
    \A w \in Workers :
        /\ mails[w] \in {0, 1}
        /\ pc[w] \in BeforeSend => mails[w] = 0
        /\ pc[w] = "logSent" => mails[w] = 1
        /\ <<w, "sent">> \in logs => mails[w] = 1
        /\ pc[w] \in Live \cup {"absent"} =>
              \A status \in {"sent", "failed"} : <<w, status>> \notin logs

\* A row is the work of a goroutine that has passed its upsert, holds the
\* figures that goroutine holds, and was stored after its month ended.
RowsExplained ==
    \A u \in Users, m \in Months : stats[<<u, m>>] # NoRow =>
        LET row == stats[<<u, m>>] IN
        /\ job[row.by].stage # "idle"
        /\ job[row.by].month = m
        /\ m < row.at
        /\ row.at <= now
        /\ pc[<<row.by, u>>] \notin BeforeStore
        /\ row.commits = report[<<row.by, u>>].commits
        /\ row.growth = report[<<row.by, u>>].growth

\* Whoever is past the upsert without an error, or was mailed, has a row.
StoredBeforeMailed ==
    \A w \in Workers :
        (pc[w] \in {"rendering", "sending", "logSent"} \/ mails[w] > 0)
            => stats[Slot(w)] # NoRow

\* The growth about to be stored was computed from the month before: neither
\* its absence nor a row stored in its own turn can have changed since.
GrowthFresh ==
    \A w \in Workers :
        (pc[w] = "storing" /\ BaseInTurn(w[2], job[w[1]].month)) =>
            GrowthFits(w[2], job[w[1]].month, report[w])

\* What a growth can say: no drop is larger than everything, and without a
\* growth there was nothing to report.
Plausible(figures) ==
    /\ figures.growth.valid => figures.growth.num >= -(100 * figures.growth.den)
    /\ ~ figures.growth.valid => figures.commits = 0

\* The growth about to be stored, and every stored one, is plausible; what is
\* stored fits the column at both of its ends.
GrowthInRange ==
    /\ \A w \in Workers : pc[w] = "storing" => Plausible(report[w])
    /\ \A u \in Users, m \in Months : stats[<<u, m>>] # NoRow =>
          Plausible(stats[<<u, m>>]) /\ FitsColumn(stats[<<u, m>>].growth)

\* The whole invariant: what each step of the process relies on, whichever
\* runs overlap and wherever the process was killed before
\* (scheduler.go:69-138, collector.go:64-114).
IInv ==
    /\ TypeOK
    /\ SemaphoreCounts
    /\ RunsInPlace
    /\ ClosedIdle
    /\ CronRunsApart
    /\ MailOnce
    /\ RowsExplained
    /\ StoredBeforeMailed
    /\ GrowthFresh
    /\ GrowthAgreesInTurn
    /\ GrowthInRange
=============================================================================
