-------------------------- MODULE MonthlyJobProofs --------------------------
(***************************************************************************)
(* Proofs about MonthlyJob, for every value of its constants.              *)
(***************************************************************************)
EXTENDS MonthlyJobInvariant, TLAPS, FiniteSetTheorems

\* collector.go:83-90: the growth is always a value of its type.
LEMMA CommitGrowthType ==
    ASSUME NEW current \in Nat, NEW previous \in Nat
    PROVE  CommitGrowth(current, previous) \in GrowthValue
BY SMT DEF CommitGrowth, GrowthValue, NullGrowth, Percent

\* collector.go:83-90: the growth has the sign of the change, is NULL only of two
\* months without commits, and is never below -100%.
LEMMA CommitGrowthMeaning ==
    ASSUME NEW current \in Nat, NEW previous \in Nat,
           NEW g, g = CommitGrowth(current, previous)
    PROVE  /\ ~ g.valid <=> current = 0 /\ previous = 0
           /\ g.num > 0 <=> current > previous
           /\ g.num < 0 <=> current < previous
           /\ g.num >= -(100 * g.den)
<1>1. CASE previous > 0
  <2>1. g.valid = TRUE /\ g.num = 100 * (current - previous) /\ g.den = previous
    BY <1>1 DEF CommitGrowth, Percent
  <2>. QED  BY <1>1, <2>1
<1>2. CASE previous = 0 /\ current > 0
  <2>1. g.valid = TRUE /\ g.num = 100 /\ g.den = 1
    BY <1>2 DEF CommitGrowth, Percent
  <2>. QED  BY <1>2, <2>1
<1>3. CASE previous = 0 /\ current = 0
  <2>1. g.valid = FALSE /\ g.num = 0 /\ g.den = 1
    BY <1>3 DEF CommitGrowth, NullGrowth
  <2>. QED  BY <1>3, <2>1
<1>. QED  BY <1>1, <1>2, <1>3

\* Commit counts are naturals, so growth stays a record of naturals.
LEMMA CommitCount ==
    ASSUME NEW c \in Commits \cup {0}
    PROVE  c \in Nat
BY CommitsAssumption

\* The goroutines of run j that hold one of its slots.
SlotHolders(j) == {u \in Users : pc[<<j, u>>] \in Holding}

\* The holders of a run are finitely many.
LEMMA HoldersFinite ==
    ASSUME NEW j \in Jobs
    PROVE  /\ IsFiniteSet(SlotHolders(j))
           /\ Cardinality(SlotHolders(j)) \in Nat
<1>1. SlotHolders(j) \subseteq Users
  BY DEF SlotHolders
<1>. QED  BY <1>1, UsersAssumption, FS_Subset, FS_CardinalityType

\* A goroutine that holds a slot is counted.
LEMMA HolderCounted ==
    ASSUME SemaphoreCounts, NEW w \in Workers, pc[w] \in Holding
    PROVE  sem[w[1]] \in Nat \ {0}
<1>1. w[1] \in Jobs /\ w[2] \in Users /\ w = <<w[1], w[2]>>
  BY DEF Workers
<1>2. w[2] \in SlotHolders(w[1])
  BY <1>1 DEF SlotHolders
<1>3. Cardinality(SlotHolders(w[1])) # 0
  BY <1>1, <1>2, HoldersFinite, FS_EmptySet
<1>. QED  BY <1>1, <1>3, HoldersFinite DEF SemaphoreCounts, SlotHolders

\* The initial state has the types.
LEMMA TypeInit == Init => TypeOK
<1>. SUFFICES ASSUME Init PROVE TypeOK
  OBVIOUS
<1>1. now \in 1 .. LastMonth
  BY LastMonthAssumption DEF Init
<1>9. cronDue \in BOOLEAN /\ phase \in Phases
  BY DEF Init, Phases
<1>2. accounts \in [Users -> {"none", "noEmail", "email"}]
  BY DEF Init
<1>3. stats \in [Users \X Months -> Row \cup {NoRow}]
  BY DEF Init
<1>4. job \in [Jobs -> [stage : Stages, byCron : BOOLEAN, month : Months]]
  BY LastMonthAssumption DEF Init, Stages, Months
<1>5. sem \in [Jobs -> 0 .. PoolSize] /\ mails \in [Workers -> Nat]
  BY PoolSizeAssumption DEF Init
<1>6. pc \in [Workers -> Live \cup {"absent", "done", "killed"}]
  BY DEF Init
<1>7. report \in [Workers -> Report]
  BY DEF Init, Report, GrowthValue, NullGrowth
<1>8. logs \subseteq Workers \X {"sent", "failed"}
  BY DEF Init
<1>. QED  BY <1>1, <1>2, <1>3, <1>4, <1>5, <1>6, <1>7, <1>8, <1>9 DEF TypeOK

\* scheduler.go:69-138: every step keeps the types; the only delicate one is the
\* release of a slot, which must have been taken.
LEMMA TypeStep == TypeOK /\ SemaphoreCounts /\ Next => TypeOK'
<1>. SUFFICES ASSUME TypeOK, SemaphoreCounts, Next PROVE TypeOK'
  OBVIOUS
<1>. USE PoolSizeAssumption, LastMonthAssumption
<1>1. CASE Start \/ Signal \/ ServeError \/ ShutdownReturns \/ CronDrained
  BY <1>1 DEF TypeOK, Start, Signal, ServeError, ShutdownReturns, CronDrained,
              calendar, effects, Phases
<1>2. CASE Die
  <2>1. job' \in [Jobs -> [stage : Stages, byCron : BOOLEAN, month : Months]]
    BY <1>2 DEF TypeOK, Die, Stages
  <2>2. sem' \in [Jobs -> 0 .. PoolSize]
    BY <1>2 DEF Die
  <2>3. pc' \in [Workers -> Live \cup {"absent", "done", "killed"}]
    BY <1>2 DEF TypeOK, Die
  <2>4. UNCHANGED <<now, cronDue, accounts, stats, report, mails, logs>> /\ phase' \in Phases
    BY <1>2 DEF Die, calendar, effects, Phases
  <2>. QED  BY <2>1, <2>2, <2>3, <2>4 DEF TypeOK
<1>3. CASE MonthTurns \/ CronMissed
  <2>1. now' \in 1 .. LastMonth
    BY <1>3 DEF TypeOK, MonthTurns, CronMissed
  <2>2. cronDue' \in BOOLEAN
    BY <1>3 DEF MonthTurns, CronMissed
  <2>3. UNCHANGED <<phase, accounts, stats, job, sem, pc, report, mails, logs>>
    BY <1>3 DEF MonthTurns, CronMissed, effects
  <2>. QED  BY <2>1, <2>2, <2>3 DEF TypeOK
<1>4. ASSUME NEW u \in Users, NEW email \in {"noEmail", "email"}, SignIn(u, email)
      PROVE  TypeOK'
  BY <1>4 DEF TypeOK, SignIn, MergedEmail, calendar, effects
<1>5. ASSUME NEW j \in Jobs, CronFire(j) \/ TriggerMonthly(j)
      PROVE  TypeOK'
  <2>1. TargetMonth(now) \in Months
    BY DEF TypeOK, TargetMonth, Months
  <2>2. Spawn(j, TRUE) \/ Spawn(j, FALSE)
    BY <1>5 DEF CronFire, TriggerMonthly
  <2>3. job' \in [Jobs -> [stage : Stages, byCron : BOOLEAN, month : Months]]
    <3>1. ASSUME NEW b \in BOOLEAN
          PROVE  [stage |-> "listing", byCron |-> b, month |-> TargetMonth(now)]
                   \in [stage : Stages, byCron : BOOLEAN, month : Months]
      BY <2>1, Zenon DEF Stages
    <3>. QED  BY <2>2, <3>1 DEF TypeOK, Spawn
  <2>4. cronDue' \in BOOLEAN
    BY <1>5 DEF TypeOK, CronFire, TriggerMonthly
  <2>. QED  BY <2>2, <2>3, <2>4 DEF TypeOK, Spawn, effects
<1>6. ASSUME NEW j \in Jobs, RunStep(j)
      PROVE  TypeOK'
  <2>1. job' \in [Jobs -> [stage : Stages, byCron : BOOLEAN, month : Months]]
    <3>1. \E stage \in Stages : job' = [job EXCEPT ![j].stage = stage]
      BY <1>6 DEF RunStep, ListUsers, ListUsersFails, JobFinishes, Stages
    <3>. QED  BY <3>1 DEF TypeOK
  <2>2. pc' \in [Workers -> Live \cup {"absent", "done", "killed"}]
    BY <1>6 DEF TypeOK, RunStep, ListUsers, ListUsersFails, JobFinishes, Live
  <2>3. UNCHANGED <<now, cronDue, phase, accounts, stats, sem, report, mails, logs>>
    BY <1>6 DEF RunStep, ListUsers, ListUsersFails, JobFinishes, calendar, effects
  <2>. QED  BY <2>1, <2>2, <2>3 DEF TypeOK
<1>7. ASSUME NEW w \in Workers, CallReturns(w)
      PROVE  TypeOK'
  <2>1. CASE Fetch(w)
    <3>1. report' \in [Workers -> Report]
      BY <2>1 DEF TypeOK, Fetch, Report, GrowthValue, NullGrowth
    <3>. QED  BY <2>1, <3>1 DEF TypeOK, Fetch, Goes, Live, Holding, calendar, effects
  <2>2. CASE FetchFails(w)
    BY <2>2 DEF TypeOK, FetchFails, Goes, Live, Holding, calendar, effects
  <2>3. CASE Send(w) \/ SendFails(w)
    <3>1. mails' \in [Workers -> Nat]
      BY <2>3 DEF TypeOK, Send, SendFails
    <3>2. pc' \in [Workers -> Live \cup {"absent", "done", "killed"}]
      BY <2>3 DEF TypeOK, Send, SendFails, Goes, Live, Holding
    <3>3. UNCHANGED <<now, cronDue, phase, accounts, stats, job, sem, report, logs>>
      BY <2>3 DEF Send, SendFails, calendar
    <3>. QED  BY <3>1, <3>2, <3>3 DEF TypeOK
  <2>. QED  BY <1>7, <2>1, <2>2, <2>3 DEF CallReturns
<1>8. ASSUME NEW w \in Workers, OwnStep(w)
      PROVE  TypeOK'
  <2>0. w[1] \in Jobs /\ w[2] \in Users /\ w = <<w[1], w[2]>>
    BY DEF Workers
  <2>1. CASE Acquire(w)
    BY <2>0, <2>1 DEF TypeOK, Acquire, Goes, Live, Holding, calendar, effects
  <2>2. CASE Compare(w)
    <3>1. PreviousCommits(w[2], job[w[1]].month) \in Nat
      BY <2>0, CommitsAssumption DEF PreviousCommits, TypeOK, Row
    <3>2. report[w].commits \in Nat
      <4>1. report[w].commits \in Commits \cup {0}
        BY DEF TypeOK, Report
      <4>. QED  BY <4>1, CommitCount
    <3>3. CommitGrowth(report[w].commits, PreviousCommits(w[2], job[w[1]].month)) \in GrowthValue
      BY <3>1, <3>2, CommitGrowthType
    <3>4. report' \in [Workers -> Report]
      BY <2>2, <3>3 DEF TypeOK, Compare, Report
    <3>. QED  BY <2>2, <3>4 DEF TypeOK, Compare, Goes, Live, Holding, calendar, effects
  <2>3. CASE CompareFails(w) \/ Render(w) \/ RenderFails(w)
    BY <2>3 DEF TypeOK, CompareFails, Render, RenderFails, Goes, Live, Holding, calendar, effects
  <2>4. CASE Store(w) \/ StoreFails(w)
    <3>1. Slot(w) \in Users \X Months
      BY <2>0 DEF Slot, TypeOK
    <3>2. [commits |-> report[w].commits, growth |-> report[w].growth,
           by |-> w[1], at |-> now] \in Row
      BY <2>0 DEF TypeOK, Report, Row
    <3>3. stats' \in [Users \X Months -> Row \cup {NoRow}]
      BY <2>4, <3>1, <3>2 DEF TypeOK, Store, StoreFails, UpsertStats
    <3>. QED  BY <2>4, <3>3 DEF TypeOK, Store, StoreFails, Goes, Live, Holding, calendar, effects
  <2>5. CASE Log(w)
    <3>1. sem[w[1]] \in Nat \ {0}
      BY <2>5, HolderCounted DEF Log, Goes, Holding
    <3>2. sem' \in [Jobs -> 0 .. PoolSize]
      <4>1. sem[w[1]] \in 0 .. PoolSize /\ sem \in [Jobs -> 0 .. PoolSize]
        BY <2>0 DEF TypeOK
      <4>2. sem[w[1]] - 1 \in 0 .. PoolSize
        BY <3>1, <4>1
      <4>3. sem' = [sem EXCEPT ![w[1]] = sem[w[1]] - 1]
        BY <2>5 DEF Log, Release
      <4>. QED  BY <4>1, <4>2, <4>3
    <3>3. logs' \subseteq Workers \X {"sent", "failed"}
      BY <2>5 DEF TypeOK, Log, Status
    <3>. QED  BY <2>5, <3>2, <3>3 DEF TypeOK, Log, Goes, Live, calendar
  <2>. QED  BY <1>8, <2>1, <2>2, <2>3, <2>4, <2>5 DEF OwnStep
<1>. QED  BY <1>1, <1>2, <1>3, <1>4, <1>5, <1>6, <1>7, <1>8
             DEF Next, StopStep, Exit, Crash

-----------------------------------------------------------------------------
(***************************************************************************)
(* The semaphore.                                                          *)
(***************************************************************************)

\* A worker is a run and a user.
LEMMA WorkerParts ==
    ASSUME NEW w \in Workers
    PROVE  w[1] \in Jobs /\ w[2] \in Users /\ w = <<w[1], w[2]>>
BY DEF Workers

\* A goroutine that moves on without giving its slot back changes no count.
LEMMA HoldersKept ==
    ASSUME TypeOK, NEW w \in Workers, NEW from \in Holding, NEW to \in Holding,
           Goes(w, from, to), NEW j \in Jobs
    PROVE  SlotHolders(j)' = SlotHolders(j)
BY DEF TypeOK, Workers, Goes, SlotHolders

\* Acquire and release keep the count equal to the holders.
LEMMA SemaphoreStep ==
    IInv /\ Next => SemaphoreCounts'
<1>. SUFFICES ASSUME IInv, Next PROVE SemaphoreCounts'
  OBVIOUS
<1>. USE DEF IInv
<1>. SUFFICES ASSUME NEW j \in Jobs PROVE sem'[j] = Cardinality(SlotHolders(j)')
  BY DEF SemaphoreCounts, SlotHolders
<1>0. sem[j] = Cardinality(SlotHolders(j))
  BY DEF SemaphoreCounts, SlotHolders
<1>1. CASE UNCHANGED <<sem, pc>>
  BY <1>0, <1>1 DEF SlotHolders
<1>2. CASE Die
  <2>1. SlotHolders(j)' = {}
    BY <1>2 DEF Die, SlotHolders, Workers, TypeOK, Live, Holding
  <2>. QED  BY <1>2, <2>1, FS_EmptySet DEF Die
<1>3. ASSUME NEW i \in Jobs, ListUsers(i)
      PROVE  sem'[j] = Cardinality(SlotHolders(j)')
  <2>1. ASSUME NEW u \in Users
        PROVE  pc'[<<j, u>>] \in Holding <=> pc[<<j, u>>] \in Holding
    BY <1>3 DEF ListUsers, RunsInPlace, Workers, Holding, TypeOK
  <2>2. SlotHolders(j)' = SlotHolders(j)
    BY <2>1 DEF SlotHolders
  <2>. QED  BY <1>0, <1>3, <2>2 DEF ListUsers
<1>4. ASSUME NEW w \in Workers, Acquire(w)
      PROVE  sem'[j] = Cardinality(SlotHolders(j)')
  <2>1. CASE w[1] = j
    <3>1. w[2] \notin SlotHolders(j)
      BY <1>4, <2>1, WorkerParts DEF Acquire, Goes, SlotHolders, Holding
    <3>2. SlotHolders(j)' = SlotHolders(j) \cup {w[2]}
      BY <1>4, <2>1, WorkerParts DEF Acquire, Goes, SlotHolders, Holding, TypeOK, Workers
    <3>3. Cardinality(SlotHolders(j)') = Cardinality(SlotHolders(j)) + 1
      BY <3>1, <3>2, HoldersFinite, FS_AddElement
    <3>. QED  BY <1>0, <1>4, <2>1, <3>3 DEF Acquire, TypeOK
  <2>2. CASE w[1] # j
    <3>1. SlotHolders(j)' = SlotHolders(j)
      BY <1>4, <2>2, WorkerParts DEF Acquire, Goes, SlotHolders, TypeOK, Workers
    <3>. QED  BY <1>0, <1>4, <2>2, <3>1, WorkerParts DEF Acquire, TypeOK
  <2>. QED  BY <2>1, <2>2
<1>5. ASSUME NEW w \in Workers, Log(w)
      PROVE  sem'[j] = Cardinality(SlotHolders(j)')
  <2>0. sem' = [sem EXCEPT ![w[1]] = sem[w[1]] - 1]
    BY <1>5 DEF Log, Release
  <2>1. pc[w] \in Holding /\ pc' = [pc EXCEPT ![w] = "done"]
    BY <1>5 DEF Log, Goes, Holding
  <2>2. CASE w[1] = j
    <3>1. w[2] \in SlotHolders(j)
      BY <2>1, <2>2, WorkerParts DEF SlotHolders
    <3>2. SlotHolders(j)' = SlotHolders(j) \ {w[2]}
      BY <2>1, <2>2, WorkerParts DEF SlotHolders, Holding, TypeOK, Workers
    <3>3. Cardinality(SlotHolders(j)') = Cardinality(SlotHolders(j)) - 1
      <4>1. Cardinality(SlotHolders(j) \ {w[2]}) = Cardinality(SlotHolders(j)) - 1
        BY <3>1, HoldersFinite, FS_RemoveElement
      <4>. QED  BY <3>2, <4>1
    <3>. QED  BY <1>0, <2>0, <2>2, <3>3 DEF TypeOK
  <2>3. CASE w[1] # j
    <3>1. SlotHolders(j)' = SlotHolders(j)
      BY <2>1, <2>3, WorkerParts DEF SlotHolders, TypeOK, Workers
    <3>. QED  BY <1>0, <2>0, <2>3, <3>1, WorkerParts DEF TypeOK
  <2>. QED  BY <2>2, <2>3
<1>6. ASSUME NEW w \in Workers,
             \/ CallReturns(w) \/ Compare(w) \/ CompareFails(w) \/ Store(w)
             \/ StoreFails(w) \/ Render(w) \/ RenderFails(w)
      PROVE  sem'[j] = Cardinality(SlotHolders(j)')
  <2>1. \E from, to \in Holding : Goes(w, from, to)
    BY <1>6 DEF CallReturns, Fetch, FetchFails, Send, SendFails, Compare, CompareFails,
                Store, StoreFails, Render, RenderFails, Holding
  <2>2. sem' = sem
    BY <1>6 DEF CallReturns, Fetch, FetchFails, Send, SendFails, Compare, CompareFails,
                Store, StoreFails, Render, RenderFails
  <2>. QED  BY <1>0, <2>1, <2>2, HoldersKept
<1>7. CASE Start \/ Signal \/ ServeError \/ ShutdownReturns \/ CronDrained
  BY <1>1, <1>7 DEF Start, Signal, ServeError, ShutdownReturns, CronDrained
<1>8. CASE MonthTurns \/ CronMissed
  BY <1>1, <1>8 DEF MonthTurns, CronMissed
<1>9. ASSUME NEW u \in Users, NEW email \in {"noEmail", "email"}, SignIn(u, email)
      PROVE  sem'[j] = Cardinality(SlotHolders(j)')
  BY <1>1, <1>9 DEF SignIn
<1>10. ASSUME NEW i \in Jobs,
              CronFire(i) \/ TriggerMonthly(i) \/ ListUsersFails(i) \/ JobFinishes(i)
       PROVE  sem'[j] = Cardinality(SlotHolders(j)')
  BY <1>1, <1>10 DEF CronFire, TriggerMonthly, Spawn, ListUsersFails, JobFinishes
<1>. QED  BY <1>2, <1>3, <1>4, <1>5, <1>6, <1>7, <1>8, <1>9, <1>10
             DEF Next, StopStep, Exit, Crash, RunStep, OwnStep

-----------------------------------------------------------------------------
(***************************************************************************)
(* Runs and goroutines.                                                    *)
(***************************************************************************)

\* Goroutines live in running runs, runs in a process.
LEMMA RunsInPlaceStep == IInv /\ Next => RunsInPlace'
<1>. SUFFICES ASSUME IInv, Next PROVE RunsInPlace'
  OBVIOUS
<1>. USE DEF IInv
<1>1. CASE UNCHANGED <<job, pc, now>> /\ (phase' = phase \/ phase' # "down")
  BY <1>1 DEF RunsInPlace, Underway
<1>2. CASE Die
  BY <1>2, WorkerParts DEF Die, RunsInPlace, Underway, TypeOK, Live, Holding, calendar
<1>3. CASE MonthTurns
  BY <1>3 DEF MonthTurns, RunsInPlace, Underway, TypeOK, Months
<1>4. ASSUME NEW i \in Jobs, CronFire(i) \/ TriggerMonthly(i)
      PROVE  RunsInPlace'
  <2>1. phase # "down" /\ phase' = phase /\ now' = now /\ pc' = pc
    BY <1>4 DEF CronFire, TriggerMonthly, Spawn, CronTicks
  <2>2. /\ job[i].stage = "idle"
        /\ job'[i].stage = "listing"
        /\ job'[i].month = now - 1
        /\ \A k \in Jobs : k # i => job'[k] = job[k]
    BY <1>4 DEF CronFire, TriggerMonthly, Spawn, TargetMonth, TypeOK
  <2>. QED  BY <2>1, <2>2, WorkerParts DEF RunsInPlace, Underway, TypeOK, Live, Holding
<1>5. ASSUME NEW i \in Jobs, RunStep(i)
      PROVE  RunsInPlace'
  <2>0. phase' = phase /\ now' = now
    BY <1>5 DEF RunStep, ListUsers, ListUsersFails, JobFinishes, calendar
  <2>1. /\ job'[i].month = job[i].month
        /\ \A k \in Jobs : k # i => job'[k] = job[k]
    BY <1>5 DEF RunStep, ListUsers, ListUsersFails, JobFinishes, TypeOK
  <2>2. CASE ListUsers(i)
    <3>1. job[i].stage = "listing" /\ job'[i].stage = "running"
      BY <2>2 DEF ListUsers, TypeOK
    <3>2. \A w \in Workers : w[1] # i => pc'[w] = pc[w]
      BY <2>2 DEF ListUsers
    <3>3. \A w \in Workers : w[1] = i => pc'[w] \in {"absent", "queued"}
      BY <2>2, <3>1 DEF ListUsers, RunsInPlace
    <3>4. \A j \in Jobs : /\ Underway(j)' => phase' # "down"
                          /\ job'[j].stage # "idle" => job'[j].month < now'
      BY <2>0, <2>1, <3>1 DEF RunsInPlace, Underway
    <3>5. ASSUME NEW w \in Workers
          PROVE  /\ pc'[w] \in Live => job'[w[1]].stage = "running"
                 /\ job'[w[1]].stage \in {"idle", "listing"} => pc'[w] = "absent"
                 /\ pc'[w] = "killed" => job'[w[1]].stage = "killed"
      <4>1. CASE w[1] = i
        BY <3>1, <3>3, <4>1
      <4>2. CASE w[1] # i
        BY <2>1, <3>2, <4>2, WorkerParts DEF RunsInPlace
      <4>. QED  BY <4>1, <4>2
    <3>. QED  BY <3>4, <3>5 DEF RunsInPlace
  <2>3. CASE ListUsersFails(i) \/ JobFinishes(i)
    <3>1. job[i].stage \in {"listing", "running"} /\ job'[i].stage = "finished" /\ pc' = pc
      BY <2>3 DEF ListUsersFails, JobFinishes, TypeOK
    <3>2. \A w \in Workers : w[1] = i => pc[w] \notin Live
      BY <2>3, WorkerParts DEF ListUsersFails, JobFinishes, AllReturned, RunsInPlace, Live, Holding
    <3>. QED  BY <2>0, <2>1, <3>1, <3>2, WorkerParts DEF RunsInPlace, Underway
  <2>. QED  BY <1>5, <2>2, <2>3 DEF RunStep
<1>6. ASSUME NEW w \in Workers, CallReturns(w) \/ OwnStep(w)
      PROVE  RunsInPlace'
  <2>1. UNCHANGED <<phase, now, job>>
    BY <1>6 DEF CallReturns, Fetch, FetchFails, Send, SendFails, OwnStep, Acquire, Compare,
                CompareFails, Store, StoreFails, Render, RenderFails, Log, calendar
  <2>2. \E from \in Live, to \in Live \cup {"done"} : Goes(w, from, to)
    BY <1>6 DEF CallReturns, Fetch, FetchFails, Send, SendFails, OwnStep, Acquire, Compare,
                CompareFails, Store, StoreFails, Render, RenderFails, Log, Live, Holding
  <2>3. /\ pc[w] \in Live
        /\ pc'[w] \in Live \cup {"done"}
        /\ \A v \in Workers : v # w => pc'[v] = pc[v]
    BY <2>2 DEF Goes, TypeOK
  <2>4. pc'[w] # "killed"
    BY <2>3 DEF Live, Holding
  <2>. QED  BY <2>1, <2>3, <2>4, WorkerParts DEF RunsInPlace, Underway
<1>7. CASE Start \/ Signal \/ ServeError \/ ShutdownReturns \/ CronDrained \/ CronMissed
  BY <1>1, <1>7 DEF Start, Signal, ServeError, ShutdownReturns, CronDrained, CronMissed, calendar
<1>8. ASSUME NEW u \in Users, NEW email \in {"noEmail", "email"}, SignIn(u, email)
      PROVE  RunsInPlace'
  BY <1>1, <1>8 DEF SignIn, calendar
<1>. QED  BY <1>2, <1>3, <1>4, <1>5, <1>6, <1>7, <1>8 DEF Next, StopStep, Exit, Crash

\* No goroutine of cron is left when the pool is closed.
LEMMA ClosedIdleStep == IInv /\ Next => ClosedIdle'
<1>. SUFFICES ASSUME IInv, Next, phase' = "closed" PROVE CronIdle'
  BY DEF ClosedIdle
<1>. USE DEF IInv
<1>1. CASE CronDrained
  BY <1>1 DEF CronDrained, CronIdle, Underway
<1>2. CASE UNCHANGED <<phase, job>>
  BY <1>2 DEF ClosedIdle, CronIdle, Underway
<1>3. ASSUME NEW i \in Jobs, CronFire(i) \/ TriggerMonthly(i)
      PROVE  CronIdle'
  <2>1. TriggerMonthly(i) /\ phase = "closed"
    BY <1>3 DEF CronFire, CronTicks, TriggerMonthly, Spawn
  <2>2. ~ job'[i].byCron /\ \A k \in Jobs : k # i => job'[k] = job[k]
    BY <2>1 DEF TriggerMonthly, Spawn, TypeOK
  <2>. QED  BY <2>1, <2>2 DEF ClosedIdle, CronIdle, Underway
<1>4. ASSUME NEW i \in Jobs, RunStep(i)
      PROVE  CronIdle'
  <2>1. phase = "closed" /\ Underway(i)
    BY <1>4 DEF RunStep, ListUsers, ListUsersFails, JobFinishes, Underway
  <2>2. job'[i].byCron = job[i].byCron /\ \A k \in Jobs : k # i => job'[k] = job[k]
    BY <1>4 DEF RunStep, ListUsers, ListUsersFails, JobFinishes, TypeOK
  <2>. QED  BY <2>1, <2>2 DEF ClosedIdle, CronIdle, Underway
<1>5. CASE Die \/ Start \/ Signal \/ ServeError \/ ShutdownReturns
  BY <1>5 DEF Die, Start, Signal, ServeError, ShutdownReturns
<1>6. CASE MonthTurns \/ CronMissed
  BY <1>2, <1>6 DEF MonthTurns, CronMissed
<1>7. ASSUME NEW u \in Users, NEW email \in {"noEmail", "email"}, SignIn(u, email)
      PROVE  CronIdle'
  BY <1>2, <1>7 DEF SignIn
<1>8. ASSUME NEW w \in Workers, CallReturns(w) \/ OwnStep(w)
      PROVE  CronIdle'
  BY <1>2, <1>8 DEF CallReturns, Fetch, FetchFails, Send, SendFails, OwnStep, Acquire, Compare,
                    CompareFails, Store, StoreFails, Render, RenderFails, Log
<1>. QED  BY <1>1, <1>3, <1>4, <1>5, <1>6, <1>7, <1>8 DEF Next, StopStep, Exit, Crash

\* Cron starts one run a month, about a month later than its runs before.
LEMMA CronRunsApartStep == IInv /\ Next => CronRunsApart'
<1>. SUFFICES ASSUME IInv, Next PROVE CronRunsApart'
  OBVIOUS
<1>. USE DEF IInv
<1>0. now \in Nat /\ \A j \in Jobs : job[j].month \in Nat
  BY DEF TypeOK, Months
<1>1. CASE UNCHANGED <<job, now>> /\ cronDue' \in {cronDue, FALSE}
  BY <1>1 DEF CronRunsApart, Begun
<1>2. CASE Die
  <2>1. UNCHANGED <<now, cronDue>>
    BY <1>2 DEF Die, calendar
  <2>2. \A j \in Jobs : /\ job'[j].month = job[j].month
                        /\ job'[j].byCron = job[j].byCron
                        /\ job[j].stage # "idle" => job'[j].stage # "idle"
    BY <1>2 DEF Die, TypeOK
  <2>. QED  BY <2>1, <2>2 DEF CronRunsApart, Begun
<1>3. CASE MonthTurns
  <2>1. job' = job /\ now' = now + 1 /\ ~ cronDue
    BY <1>3 DEF MonthTurns
  <2>2. \A j \in Jobs : Begun(j) => job[j].month < now' - 1
    BY <1>0, <2>1 DEF RunsInPlace, Begun
  <2>. QED  BY <2>1, <2>2 DEF CronRunsApart, Begun
<1>4. ASSUME NEW i \in Jobs, CronFire(i)
      PROVE  CronRunsApart'
  <2>1. cronDue /\ ~ cronDue' /\ ~ job[i].byCron
    <3>1. cronDue /\ ~ cronDue' /\ ~ Begun(i)
      BY <1>4 DEF CronFire, Spawn, Begun
    <3>. QED  BY <3>1 DEF CronRunsApart
  <2>2. /\ job'[i].stage = "listing" /\ job'[i].month = now - 1
        /\ \A k \in Jobs : k # i => job'[k] = job[k]
    BY <1>4 DEF CronFire, Spawn, TargetMonth, TypeOK
  <2>3. \A k \in Jobs : job[k].byCron => job[k].month < now - 1
    BY <2>1 DEF CronRunsApart
  <2>. QED  BY <1>0, <2>1, <2>2, <2>3 DEF CronRunsApart, Begun
<1>5. ASSUME NEW i \in Jobs, TriggerMonthly(i)
      PROVE  CronRunsApart'
  <2>1. UNCHANGED <<now, cronDue>>
    BY <1>5 DEF TriggerMonthly, Spawn
  <2>2. /\ ~ job'[i].byCron
        /\ \A k \in Jobs : k # i => job'[k] = job[k]
    BY <1>5 DEF TriggerMonthly, Spawn, TypeOK
  <2>. QED  BY <2>1, <2>2 DEF CronRunsApart, Begun
<1>6. ASSUME NEW i \in Jobs, RunStep(i)
      PROVE  CronRunsApart'
  <2>1. UNCHANGED <<now, cronDue>>
    BY <1>6 DEF RunStep, ListUsers, ListUsersFails, JobFinishes, calendar
  <2>2. /\ job'[i].month = job[i].month
        /\ job'[i].byCron = job[i].byCron
        /\ job'[i].stage # "idle"
        /\ \A k \in Jobs : k # i => job'[k] = job[k]
    BY <1>6 DEF RunStep, ListUsers, ListUsersFails, JobFinishes, TypeOK
  <2>. QED  BY <2>1, <2>2 DEF CronRunsApart, Begun
<1>7. ASSUME NEW w \in Workers, CallReturns(w) \/ OwnStep(w)
      PROVE  CronRunsApart'
  BY <1>1, <1>7 DEF CallReturns, Fetch, FetchFails, Send, SendFails, OwnStep, Acquire, Compare,
                    CompareFails, Store, StoreFails, Render, RenderFails, Log, calendar
<1>8. CASE Start \/ Signal \/ ServeError \/ ShutdownReturns \/ CronDrained
  BY <1>1, <1>8 DEF Start, Signal, ServeError, ShutdownReturns, CronDrained, calendar
<1>9. CASE CronMissed
  BY <1>1, <1>9 DEF CronMissed
<1>10. ASSUME NEW u \in Users, NEW email \in {"noEmail", "email"}, SignIn(u, email)
       PROVE  CronRunsApart'
  BY <1>1, <1>10 DEF SignIn, calendar
<1>. QED  BY <1>2, <1>3, <1>4, <1>5, <1>6, <1>7, <1>8, <1>9, <1>10
             DEF Next, StopStep, Exit, Crash

-----------------------------------------------------------------------------
(***************************************************************************)
(* Mails and the e-mail log.                                               *)
(***************************************************************************)

\* Whoever moves is one goroutine; the others keep what they have.
LEMMA MailOnceStep == IInv /\ Next => MailOnce'
<1>. SUFFICES ASSUME IInv, Next PROVE MailOnce'
  OBVIOUS
<1>. USE DEF IInv
<1>1. CASE UNCHANGED <<pc, mails, logs>>
  BY <1>1 DEF MailOnce
<1>2. CASE Die
  <2>1. UNCHANGED <<mails, logs>> /\ \A w \in Workers : pc'[w] \in {pc[w], "killed"}
    BY <1>2 DEF Die, effects
  <2>. QED  BY <2>1 DEF MailOnce, BeforeSend, BeforeStore, Live, Holding
<1>3. ASSUME NEW j \in Jobs, ListUsers(j)
      PROVE  MailOnce'
  <2>1. UNCHANGED <<mails, logs>>
    BY <1>3 DEF ListUsers, effects
  <2>2. \A w \in Workers : pc'[w] = pc[w] \/ (pc[w] = "absent" /\ pc'[w] = "queued")
    BY <1>3 DEF ListUsers, RunsInPlace
  <2>. QED  BY <2>1, <2>2 DEF MailOnce, BeforeSend, BeforeStore, Live, Holding
<1>4. ASSUME NEW w \in Workers, Log(w)
      PROVE  MailOnce'
  <2>1. /\ pc[w] \in {"logSent", "logFailed"}
        /\ pc' = [pc EXCEPT ![w] = "done"]
        /\ mails' = mails
        /\ logs' \in {logs, logs \cup {<<w, Status(w)>>}}
    BY <1>4 DEF Log, Goes
  <2>2. pc'[w] = "done" /\ \A v \in Workers : v # w => pc'[v] = pc[v]
    BY <2>1 DEF TypeOK
  <2>3. Status(w) = "sent" => mails[w] = 1
    BY <2>1 DEF Status, MailOnce
  <2>4. ASSUME NEW v \in Workers, v # w, NEW status \in {"sent", "failed"}
        PROVE  <<v, status>> \in logs' <=> <<v, status>> \in logs
    BY <2>1, <2>4
  <2>5. <<w, "sent">> \in logs' => mails[w] = 1
    <3>1. CASE Status(w) = "sent"
      BY <2>3, <3>1
    <3>2. CASE Status(w) # "sent"
      <4>1. <<w, "sent">> # <<w, Status(w)>>
        BY <3>2
      <4>2. <<w, "sent">> \in logs' => <<w, "sent">> \in logs
        BY <2>1, <4>1
      <4>. QED  BY <4>2 DEF MailOnce
    <3>. QED  BY <3>1, <3>2
  <2>. QED  BY <2>1, <2>2, <2>4, <2>5 DEF MailOnce, BeforeSend, BeforeStore, Live, Holding
<1>5. ASSUME NEW w \in Workers, Send(w) \/ SendFails(w)
      PROVE  MailOnce'
  <2>1. pc[w] = "sending" /\ mails[w] = 0 /\ logs' = logs
    BY <1>5 DEF Send, SendFails, Goes, MailOnce, BeforeSend
  <2>2. /\ pc'[w] \in {"logSent", "logFailed"}
        /\ mails'[w] \in {0, 1}
        /\ pc'[w] = "logSent" => mails'[w] = 1
    BY <1>5, <2>1 DEF Send, SendFails, Goes, TypeOK
  <2>3. \A v \in Workers : v # w => pc'[v] = pc[v] /\ mails'[v] = mails[v]
    BY <1>5 DEF Send, SendFails, Goes, TypeOK
  <2>. QED  BY <2>1, <2>2, <2>3 DEF MailOnce, BeforeSend, BeforeStore, Live, Holding
<1>6. ASSUME NEW w \in Workers,
             \/ Fetch(w) \/ FetchFails(w) \/ Acquire(w) \/ Compare(w) \/ CompareFails(w)
             \/ Store(w) \/ StoreFails(w) \/ Render(w) \/ RenderFails(w)
      PROVE  MailOnce'
  <2>1. UNCHANGED <<mails, logs>>
    BY <1>6 DEF Fetch, FetchFails, Acquire, Compare, CompareFails, Store, StoreFails, Render,
                RenderFails, effects
  <2>2. /\ pc[w] \in BeforeSend \ {"absent"}
        /\ pc'[w] \in (BeforeSend \ {"absent"}) \cup {"logFailed"}
        /\ \A v \in Workers : v # w => pc'[v] = pc[v]
    BY <1>6 DEF Fetch, FetchFails, Acquire, Compare, CompareFails, Store, StoreFails, Render,
                RenderFails, Goes, TypeOK, BeforeSend, BeforeStore
  <2>. QED  BY <2>1, <2>2 DEF MailOnce, BeforeSend, BeforeStore, Live, Holding
<1>7. CASE Start \/ Signal \/ ServeError \/ ShutdownReturns \/ CronDrained
  BY <1>1, <1>7 DEF Start, Signal, ServeError, ShutdownReturns, CronDrained, effects
<1>8. CASE MonthTurns \/ CronMissed
  BY <1>1, <1>8 DEF MonthTurns, CronMissed, effects
<1>9. ASSUME NEW u \in Users, NEW email \in {"noEmail", "email"}, SignIn(u, email)
      PROVE  MailOnce'
  BY <1>1, <1>9 DEF SignIn, effects
<1>10. ASSUME NEW j \in Jobs,
              CronFire(j) \/ TriggerMonthly(j) \/ ListUsersFails(j) \/ JobFinishes(j)
       PROVE  MailOnce'
  BY <1>1, <1>10 DEF CronFire, TriggerMonthly, Spawn, ListUsersFails, JobFinishes, effects
<1>. QED  BY <1>2, <1>3, <1>4, <1>5, <1>6, <1>7, <1>8, <1>9, <1>10
             DEF Next, StopStep, Exit, Crash, RunStep, CallReturns, OwnStep

-----------------------------------------------------------------------------
(***************************************************************************)
(* The table of the months.                                                *)
(***************************************************************************)

\* What an upsert by goroutine w leaves behind: its own slot, stamped with
\* the month it happens in, and every other slot as it was.
LEMMA UpsertEffect ==
    ASSUME TypeOK, NEW w \in Workers, UpsertStats(w)
    PROVE  /\ stats'[Slot(w)] = [commits |-> report[w].commits,
                                 growth |-> report[w].growth, by |-> w[1], at |-> now]
           /\ \A u \in Users, m \in Months :
                <<u, m>> # Slot(w) => stats'[<<u, m>>] = stats[<<u, m>>]
           /\ Slot(w) \in Users \X Months
           /\ stats'[Slot(w)] # NoRow
<1>1. Slot(w) \in Users \X Months
  BY WorkerParts DEF Slot, TypeOK
<1>2. [commits |-> report[w].commits, growth |-> report[w].growth,
       by |-> w[1], at |-> now] \in Row
  <2>1. now \in Nat /\ report[w] \in Report /\ w[1] \in Jobs
    BY WorkerParts DEF TypeOK
  <2>. QED  BY <2>1 DEF Report, Row
<1>. QED  BY <1>1, <1>2, NoRowAssumption DEF UpsertStats, TypeOK

\* The fields of a row a goroutine stores.
LEMMA StoredFields ==
    ASSUME TypeOK, NEW w \in Workers, UpsertStats(w)
    PROVE  /\ stats'[Slot(w)].commits = report[w].commits
           /\ stats'[Slot(w)].growth = report[w].growth
           /\ stats'[Slot(w)].at = now
<1>1. stats'[Slot(w)] = [commits |-> report[w].commits, growth |-> report[w].growth,
                         by |-> w[1], at |-> now]
  BY UpsertEffect
<1>. QED  BY <1>1

\* Only Store and StoreFails touch the table, and only by an upsert.
LEMMA TableSteps ==
    ASSUME IInv, Next
    PROVE  \/ stats' = stats
           \/ \E w \in Workers :
                /\ pc[w] = "storing"
                /\ pc' = [pc EXCEPT ![w] = pc'[w]]
                /\ pc'[w] \in {"rendering", "logFailed"}
                /\ UpsertStats(w)
                /\ UNCHANGED <<now, job, report, mails>>
<1>1. ASSUME NEW w \in Workers, Store(w) \/ StoreFails(w)
      PROVE  \/ stats' = stats
             \/ /\ pc[w] = "storing"
                /\ pc' = [pc EXCEPT ![w] = pc'[w]]
                /\ pc'[w] \in {"rendering", "logFailed"}
                /\ UpsertStats(w)
                /\ UNCHANGED <<now, job, report, mails>>
  BY <1>1 DEF Store, StoreFails, Goes, calendar, effects, IInv, TypeOK
<1>2. ASSUME NEW w \in Workers, CallReturns(w) \/ OwnStep(w), ~ (Store(w) \/ StoreFails(w))
      PROVE  stats' = stats
  BY <1>2 DEF CallReturns, Fetch, FetchFails, Send, SendFails, OwnStep, Acquire, Compare,
              CompareFails, Render, RenderFails, Log
<1>3. ASSUME NEW j \in Jobs, CronFire(j) \/ TriggerMonthly(j) \/ RunStep(j)
      PROVE  stats' = stats
  BY <1>3 DEF CronFire, TriggerMonthly, Spawn, RunStep, ListUsers, ListUsersFails, JobFinishes
<1>4. CASE Start \/ Signal \/ ServeError \/ StopStep \/ Crash \/ MonthTurns \/ CronMissed
  BY <1>4 DEF Start, Signal, ServeError, StopStep, ShutdownReturns, CronDrained, Exit, Crash,
              Die, MonthTurns, CronMissed
<1>5. ASSUME NEW u \in Users, NEW email \in {"noEmail", "email"}, SignIn(u, email)
      PROVE  stats' = stats
  BY <1>5 DEF SignIn
<1>. QED  BY <1>1, <1>2, <1>3, <1>4, <1>5 DEF Next

\* Nothing a row depends on is taken back: time, the month of a run, the
\* passing of the upsert and the figures held from then on.
LEMMA Onward ==
    ASSUME IInv, Next
    PROVE  /\ now \in Nat /\ now' \in Nat /\ now <= now'
           /\ \A j \in Jobs : job[j].stage # "idle" =>
                 job'[j].stage # "idle" /\ job'[j].month = job[j].month
           /\ \A w \in Workers : pc[w] \notin BeforeStore =>
                 pc'[w] \notin BeforeStore /\ report'[w] = report[w]
           /\ \A w \in Workers : pc'[w] = "storing" =>
                 \/ Compare(w)
                 \/ pc[w] = "storing" /\ report'[w] = report[w]
<1>. USE DEF IInv
<1>0. now \in Nat
  BY DEF TypeOK
<1>1. CASE UNCHANGED <<now, job, pc, report>>
  BY <1>0, <1>1
<1>2. CASE Die
  <2>1. UNCHANGED <<now, report>>
    BY <1>2 DEF Die, calendar
  <2>2. \A j \in Jobs : /\ job'[j].month = job[j].month
                        /\ job'[j].stage \in {job[j].stage, "killed"}
    BY <1>2 DEF Die, TypeOK
  <2>3. \A w \in Workers : pc'[w] \in {pc[w], "killed"}
    BY <1>2 DEF Die
  <2>. QED  BY <1>0, <2>1, <2>2, <2>3 DEF BeforeStore
<1>3. CASE MonthTurns
  BY <1>0, <1>3 DEF MonthTurns
<1>4. ASSUME NEW j \in Jobs, CronFire(j) \/ TriggerMonthly(j) \/ ListUsersFails(j) \/ JobFinishes(j)
      PROVE  /\ UNCHANGED <<now, pc, report>>
             /\ \A k \in Jobs : job[k].stage # "idle" =>
                   job'[k].stage # "idle" /\ job'[k].month = job[k].month
  <2>1. UNCHANGED <<now, pc, report>>
    BY <1>4 DEF CronFire, TriggerMonthly, Spawn, ListUsersFails, JobFinishes, calendar
  <2>2. CASE CronFire(j) \/ TriggerMonthly(j)
    <3>1. job[j].stage = "idle" /\ \A k \in Jobs : k # j => job'[k] = job[k]
      BY <2>2 DEF CronFire, TriggerMonthly, Spawn, TypeOK
    <3>. QED  BY <2>1, <3>1
  <2>3. CASE ListUsersFails(j) \/ JobFinishes(j)
    <3>1. job' = [job EXCEPT ![j].stage = "finished"]
      BY <2>3 DEF ListUsersFails, JobFinishes
    <3>. QED  BY <2>1, <3>1 DEF TypeOK
  <2>. QED  BY <1>4, <2>2, <2>3
<1>5. ASSUME NEW j \in Jobs, ListUsers(j)
      PROVE  /\ UNCHANGED <<now, report>>
             /\ \A k \in Jobs : job[k].stage # "idle" =>
                   job'[k].stage # "idle" /\ job'[k].month = job[k].month
             /\ \A w \in Workers : \/ pc'[w] = pc[w]
                                   \/ pc[w] = "absent" /\ pc'[w] = "queued"
  BY <1>5 DEF ListUsers, calendar, TypeOK, RunsInPlace
<1>6. ASSUME NEW v \in Workers, CallReturns(v) \/ OwnStep(v)
      PROVE  /\ UNCHANGED <<now, job>>
             /\ \A w \in Workers : w # v => pc'[w] = pc[w] /\ report'[w] = report[w]
             /\ pc[v] \notin BeforeStore => pc'[v] \notin BeforeStore /\ report'[v] = report[v]
             /\ pc'[v] = "storing" => Compare(v)
  <2>1. UNCHANGED <<now, job>>
    BY <1>6 DEF CallReturns, Fetch, FetchFails, Send, SendFails, OwnStep, Acquire, Compare,
                CompareFails, Store, StoreFails, Render, RenderFails, Log, calendar
  <2>2. \E from, to \in Live \cup {"done"} : Goes(v, from, to)
    BY <1>6 DEF CallReturns, Fetch, FetchFails, Send, SendFails, OwnStep, Acquire, Compare,
                CompareFails, Store, StoreFails, Render, RenderFails, Log, Live, Holding
  <2>3. \A w \in Workers : w # v => pc'[w] = pc[w]
    BY <2>2 DEF Goes, TypeOK
  <2>4. CASE Fetch(v) \/ Compare(v)
    BY <2>1, <2>3, <2>4 DEF Fetch, Compare, Goes, TypeOK, BeforeStore
  <2>5. CASE report' = report /\ ~ Compare(v)
    <3>1. pc[v] \notin BeforeStore => pc'[v] \notin BeforeStore
      BY <1>6, <2>5 DEF CallReturns, Fetch, FetchFails, Send, SendFails, OwnStep, Acquire,
                CompareFails, Store, StoreFails, Render, RenderFails, Log, Goes, TypeOK, BeforeStore
    <3>2. pc'[v] # "storing"
      BY <1>6, <2>5 DEF CallReturns, Fetch, FetchFails, Send, SendFails, OwnStep, Acquire,
                CompareFails, Store, StoreFails, Render, RenderFails, Log, Goes, TypeOK
    <3>. QED  BY <2>1, <2>3, <2>5, <3>1, <3>2
  <2>. QED  BY <1>6, <2>4, <2>5 DEF CallReturns, FetchFails, Send, SendFails, OwnStep, Acquire,
                CompareFails, Store, StoreFails, Render, RenderFails, Log
<1>7. CASE Start \/ Signal \/ ServeError \/ ShutdownReturns \/ CronDrained \/ CronMissed
  BY <1>1, <1>7 DEF Start, Signal, ServeError, ShutdownReturns, CronDrained, CronMissed, calendar
<1>8. ASSUME NEW u \in Users, NEW email \in {"noEmail", "email"}, SignIn(u, email)
      PROVE  UNCHANGED <<now, job, pc, report>>
  BY <1>8 DEF SignIn, calendar
<1>9. ASSUME NEW j \in Jobs, CronFire(j) \/ TriggerMonthly(j) \/ RunStep(j)
      PROVE  /\ UNCHANGED <<now, report>>
             /\ \A k \in Jobs : job[k].stage # "idle" =>
                   job'[k].stage # "idle" /\ job'[k].month = job[k].month
             /\ \A w \in Workers : \/ pc'[w] = pc[w]
                                   \/ pc[w] = "absent" /\ pc'[w] = "queued"
  BY <1>9, <1>4, <1>5 DEF RunStep
<1>10. ASSUME NEW j \in Jobs, CronFire(j) \/ TriggerMonthly(j) \/ RunStep(j)
       PROVE  \A w \in Workers :
                 /\ pc[w] \notin BeforeStore => pc'[w] \notin BeforeStore /\ report'[w] = report[w]
                 /\ pc'[w] = "storing" => pc[w] = "storing" /\ report'[w] = report[w]
  BY <1>9, <1>10 DEF BeforeStore
<1>11. ASSUME NEW v \in Workers, CallReturns(v) \/ OwnStep(v)
       PROVE  \A w \in Workers :
                 /\ pc[w] \notin BeforeStore => pc'[w] \notin BeforeStore /\ report'[w] = report[w]
                 /\ pc'[w] = "storing" =>
                       Compare(w) \/ (pc[w] = "storing" /\ report'[w] = report[w])
  BY <1>6, <1>11
<1>. QED  BY <1>0, <1>1, <1>2, <1>3, <1>6, <1>7, <1>8, <1>9, <1>10, <1>11
             DEF Next, StopStep, Exit, Crash

\* Every row is explained by the goroutine that stored it.
LEMMA RowsExplainedStep == IInv /\ Next => RowsExplained'
<1>. SUFFICES ASSUME IInv, Next,
                     NEW u \in Users, NEW m \in Months, stats'[<<u, m>>] # NoRow
              PROVE  LET row == stats'[<<u, m>>] IN
                     /\ job'[row.by].stage # "idle"
                     /\ job'[row.by].month = m
                     /\ m < row.at
                     /\ row.at <= now'
                     /\ pc'[<<row.by, u>>] \notin BeforeStore
                     /\ row.commits = report'[<<row.by, u>>].commits
                     /\ row.growth = report'[<<row.by, u>>].growth
  BY DEF RowsExplained
<1>. USE DEF IInv
<1>1. CASE stats'[<<u, m>>] = stats[<<u, m>>]
  <2>. DEFINE row == stats[<<u, m>>]
  <2>1. row \in Row
    BY <1>1 DEF TypeOK
  <2>2. row.by \in Jobs /\ row.at \in Nat /\ <<row.by, u>> \in Workers
    BY <2>1 DEF Row, Workers
  <2>3. /\ job[row.by].stage # "idle" /\ job[row.by].month = m
        /\ m < row.at /\ row.at <= now
        /\ pc[<<row.by, u>>] \notin BeforeStore
        /\ row.commits = report[<<row.by, u>>].commits
        /\ row.growth = report[<<row.by, u>>].growth
    BY <1>1 DEF RowsExplained
  <2>. HIDE DEF row
  <2>4. /\ job'[row.by].stage # "idle" /\ job'[row.by].month = m
        /\ pc'[<<row.by, u>>] \notin BeforeStore
        /\ report'[<<row.by, u>>] = report[<<row.by, u>>]
    BY <2>2, <2>3, Onward
  <2>5. row.at <= now'
    BY <2>2, <2>3, Onward
  <2>. QED  BY <1>1, <2>3, <2>4, <2>5 DEF row
<1>2. CASE stats'[<<u, m>>] # stats[<<u, m>>]
  <2>1. PICK w \in Workers :
          /\ pc[w] = "storing"
          /\ pc' = [pc EXCEPT ![w] = pc'[w]]
          /\ pc'[w] \in {"rendering", "logFailed"}
          /\ UpsertStats(w)
          /\ UNCHANGED <<now, job, report, mails>>
    BY <1>2, TableSteps
  <2>2. <<u, m>> = Slot(w) /\ w = <<w[1], u>> /\ m = job[w[1]].month
    <3>1. <<u, m>> = Slot(w)
      BY <1>2, <2>1, UpsertEffect
    <3>2. u = w[2] /\ m = job[w[1]].month
      BY <3>1 DEF Slot
    <3>. QED  BY <3>1, <3>2, WorkerParts
  <2>3. stats'[<<u, m>>] = [commits |-> report[w].commits, growth |-> report[w].growth,
                            by |-> w[1], at |-> now]
    BY <2>1, <2>2, UpsertEffect
  <2>4. job[w[1]].stage = "running" /\ m < now
    BY <2>1, <2>2, WorkerParts DEF RunsInPlace, Live, Holding
  <2>5. now \in Nat
    BY DEF TypeOK
  <2>. QED  BY <2>1, <2>2, <2>3, <2>4, <2>5 DEF BeforeStore
<1>. QED  BY <1>1, <1>2

\* Rows are overwritten, never removed.
LEMMA RowsStay ==
    ASSUME IInv, Next, NEW u \in Users, NEW m \in Months, stats[<<u, m>>] # NoRow
    PROVE  stats'[<<u, m>>] # NoRow
BY TableSteps, UpsertEffect DEF IInv

\* The slot a goroutine writes to is the same as long as it exists.
LEMMA SlotKept ==
    ASSUME IInv, Next, NEW w \in Workers, pc[w] # "absent"
    PROVE  Slot(w)' = Slot(w) /\ Slot(w) \in Users \X Months
<1>1. job[w[1]].stage # "idle"
  BY WorkerParts DEF IInv, RunsInPlace
<1>. QED  BY <1>1, Onward, WorkerParts DEF Slot, IInv, TypeOK

\* Who is mailed has a row.
LEMMA StoredBeforeMailedStep == IInv /\ Next => StoredBeforeMailed'
<1>. SUFFICES ASSUME IInv, Next, NEW w \in Workers,
                     pc'[w] \in {"rendering", "sending", "logSent"} \/ mails'[w] > 0
              PROVE  stats'[Slot(w)'] # NoRow
  BY DEF StoredBeforeMailed
<1>. USE DEF IInv
<1>1. CASE pc[w] \in {"rendering", "sending", "logSent"} \/ mails[w] > 0
  <2>1. pc[w] # "absent"
    <3>1. pc[w] = "absent" => mails[w] = 0
      BY DEF MailOnce, BeforeSend, BeforeStore
    <3>. QED  BY <1>1, <3>1
  <2>2. stats[Slot(w)] # NoRow
    BY <1>1 DEF StoredBeforeMailed
  <2>3. Slot(w)' = Slot(w) /\ Slot(w) \in Users \X Months
    BY <2>1, SlotKept
  <2>. QED  BY <2>2, <2>3, RowsStay
<1>2. CASE ~ (pc[w] \in {"rendering", "sending", "logSent"} \/ mails[w] > 0)
  <2>1. Store(w)
    <3>1. ASSUME NEW v \in Workers, CallReturns(v) \/ OwnStep(v)
          PROVE  Store(w)
      <4>1. v = w
        BY <1>2, <3>1 DEF CallReturns, Fetch, FetchFails, Send, SendFails, OwnStep, Acquire,
              Compare, CompareFails, Store, StoreFails, Render, RenderFails, Log, Goes, effects,
              TypeOK
      <4>. QED  BY <1>2, <3>1, <4>1 DEF CallReturns, Fetch, FetchFails, Send, SendFails, OwnStep,
              Acquire, Compare, CompareFails, StoreFails, Render, RenderFails, Log, Goes,
              effects, TypeOK
    <3>2. ASSUME NEW j \in Jobs, CronFire(j) \/ TriggerMonthly(j) \/ RunStep(j)
          PROVE  FALSE
      BY <1>2, <3>2 DEF CronFire, TriggerMonthly, Spawn, RunStep, ListUsers, ListUsersFails,
              JobFinishes, effects
    <3>3. CASE Die
      BY <1>2, <3>3 DEF Die, effects
    <3>4. CASE UNCHANGED <<pc, mails>>
      BY <1>2, <3>4
    <3>5. CASE Start \/ Signal \/ ServeError \/ ShutdownReturns \/ CronDrained
      BY <3>4, <3>5 DEF Start, Signal, ServeError, ShutdownReturns, CronDrained, effects
    <3>6. CASE MonthTurns \/ CronMissed
      BY <3>4, <3>6 DEF MonthTurns, CronMissed, effects
    <3>7. ASSUME NEW u \in Users, NEW email \in {"noEmail", "email"}, SignIn(u, email)
          PROVE  Store(w)
      BY <3>4, <3>7 DEF SignIn, effects
    <3>. QED  BY <3>1, <3>2, <3>3, <3>5, <3>6, <3>7 DEF Next, StopStep, Exit, Crash
  <2>2. UpsertStats(w) /\ pc[w] # "absent"
    BY <2>1 DEF Store, Goes
  <2>. QED  BY <2>2, SlotKept, UpsertEffect
<1>. QED  BY <1>1, <1>2

\* A row of the month before that is there in its own turn, or not there, after
\* a step about month m was so before it: an upsert made now is stamped now, and
\* now is later than m.
LEMMA BaseKept ==
    ASSUME IInv, Next, NEW u \in Users, NEW m \in Months, m < now,
           BaseInTurn(u, m)'
    PROVE  /\ HasBase(u, m)' = HasBase(u, m)
           /\ HasBase(u, m) => stats'[<<u, m - 1>>] = stats[<<u, m - 1>>]
           /\ BaseInTurn(u, m)
<1>. USE DEF IInv
<1>. DEFINE base == <<u, m - 1>>
<1>1. CASE m = 0
  BY <1>1 DEF HasBase, BaseInTurn
<1>2. CASE m > 0
  <2>1. m - 1 \in Months /\ base \in Users \X Months
    BY <1>2, LastMonthAssumption DEF Months
  <2>2. stats'[base] = stats[base]
    <3>. SUFFICES ASSUME stats'[base] # stats[base] PROVE FALSE
      OBVIOUS
    <3>1. PICK v \in Workers : UpsertStats(v)
      BY TableSteps
    <3>2. base = Slot(v)
      BY <2>1, <3>1, UpsertEffect
    <3>3. stats'[base].at = now /\ stats'[base] # NoRow
      BY <3>1, <3>2, StoredFields, UpsertEffect
    <3>4. stats'[base].at = m
      BY <1>2, <3>3 DEF BaseInTurn, HasBase
    <3>. QED  BY <3>3, <3>4 DEF TypeOK, Months
  <2>. QED  BY <1>2, <2>2 DEF HasBase, BaseInTurn
<1>. QED  BY <1>1, <1>2 DEF Months

\* The growth about to be stored agrees with what it was computed from.
LEMMA GrowthFreshStep == IInv /\ Next => GrowthFresh'
<1>. SUFFICES ASSUME IInv, Next, NEW w \in Workers,
                     NEW m, m = job'[w[1]].month,
                     pc'[w] = "storing", BaseInTurn(w[2], m)'
              PROVE  report'[w].growth =
                        CommitGrowth(report'[w].commits,
                            IF HasBase(w[2], m)' THEN stats'[<<w[2], m - 1>>].commits ELSE 0)
  BY DEF GrowthFresh, GrowthFits, BaseInTurn, HasBase
<1>. USE DEF IInv
<1>1. /\ pc[w] \in {"storing", "comparing"}
      /\ Compare(w) \/ (pc[w] = "storing" /\ report'[w] = report[w])
  BY Onward DEF Compare, Goes
<1>2. m = job[w[1]].month /\ m \in Months /\ m < now
  <2>1. job[w[1]].stage = "running"
    BY <1>1 DEF RunsInPlace, Live, Holding
  <2>2. m = job[w[1]].month
    BY <2>1, Onward, WorkerParts
  <2>. QED  BY <2>1, <2>2, WorkerParts DEF RunsInPlace, TypeOK
<1>3. /\ HasBase(w[2], m)' = HasBase(w[2], m)
      /\ HasBase(w[2], m) => stats'[<<w[2], m - 1>>] = stats[<<w[2], m - 1>>]
      /\ BaseInTurn(w[2], m)
  BY <1>2, BaseKept, WorkerParts
<1>4. CASE pc[w] = "storing" /\ report'[w] = report[w]
  BY <1>2, <1>3, <1>4 DEF GrowthFresh, GrowthFits
<1>5. CASE Compare(w)
  <2>1. PreviousCommits(w[2], m) =
            IF HasBase(w[2], m) THEN stats[<<w[2], m - 1>>].commits ELSE 0
    <3>1. <<w[2], m - 1>> \in Users \X Months <=> m > 0
      BY <1>2, WorkerParts, LastMonthAssumption DEF Months
    <3>. QED  BY <3>1 DEF PreviousCommits, BaseMonth, HasBase, TypeOK
  <2>2. /\ report'[w].growth = CommitGrowth(report[w].commits, PreviousCommits(w[2], m))
        /\ report'[w].commits = report[w].commits
    BY <1>2, <1>5 DEF Compare, TypeOK, Report
  <2>. QED  BY <1>3, <2>1, <2>2
<1>. QED  BY <1>1, <1>4, <1>5

\* The upsert keeps the agreement of consecutive months.
LEMMA GrowthAgreesStep == IInv /\ Next => GrowthAgreesInTurn'
<1>. SUFFICES ASSUME IInv, Next, NEW u \in Users, NEW m \in Months,
                     stats'[<<u, m>>] # NoRow, BaseInTurn(u, m)'
              PROVE  stats'[<<u, m>>].growth =
                        CommitGrowth(stats'[<<u, m>>].commits,
                            IF HasBase(u, m)' THEN stats'[<<u, m - 1>>].commits ELSE 0)
  BY DEF GrowthAgreesInTurn, GrowthFits, BaseInTurn, HasBase
<1>. USE DEF IInv
<1>1. m < now
  <2>1. CASE stats[<<u, m>>] # NoRow
    <3>1. m < stats[<<u, m>>].at /\ stats[<<u, m>>].at <= now
      BY <2>1 DEF RowsExplained
    <3>2. stats[<<u, m>>] \in Row
      BY <2>1 DEF TypeOK
    <3>3. m \in Nat /\ now \in Nat /\ stats[<<u, m>>].at \in Nat
      BY <3>2 DEF Row, TypeOK, Months
    <3>. QED  BY <3>1, <3>3
  <2>2. CASE stats[<<u, m>>] = NoRow
    <3>1. PICK w \in Workers : pc[w] = "storing" /\ UpsertStats(w)
      BY <2>2, TableSteps
    <3>2. <<u, m>> = Slot(w)
      BY <2>2, <3>1, UpsertEffect
    <3>3. job[w[1]].stage = "running" /\ job[w[1]].month = m
      BY <3>1, <3>2 DEF RunsInPlace, Live, Holding, Slot
    <3>. QED  BY <3>3, WorkerParts DEF RunsInPlace
  <2>. QED  BY <2>1, <2>2
<1>2. /\ HasBase(u, m)' = HasBase(u, m)
      /\ HasBase(u, m) => stats'[<<u, m - 1>>] = stats[<<u, m - 1>>]
      /\ BaseInTurn(u, m)
  BY <1>1, BaseKept
<1>3. CASE stats'[<<u, m>>] = stats[<<u, m>>]
  BY <1>2, <1>3 DEF GrowthAgreesInTurn, GrowthFits
<1>4. CASE stats'[<<u, m>>] # stats[<<u, m>>]
  <2>1. PICK w \in Workers : pc[w] = "storing" /\ UpsertStats(w)
    BY <1>4, TableSteps
  <2>2. Slot(w) = <<u, m>>
    BY <1>4, <2>1, UpsertEffect
  <2>3. w[2] = u /\ job[w[1]].month = m
    BY <2>2 DEF Slot
  <2>4. /\ stats'[<<u, m>>].growth = report[w].growth
        /\ stats'[<<u, m>>].commits = report[w].commits
    BY <2>1, <2>2, StoredFields
  <2>. QED  BY <1>2, <2>1, <2>3, <2>4 DEF GrowthFresh, GrowthFits
<1>. QED  BY <1>3, <1>4

\* What Compare computes is plausible, and an upsert stores what was computed.
LEMMA GrowthInRangeStep == IInv /\ Next => GrowthInRange'
<1>. SUFFICES ASSUME IInv, Next PROVE GrowthInRange'
  OBVIOUS
<1>. USE DEF IInv
<1>1. ASSUME NEW w \in Workers, pc'[w] = "storing"
      PROVE  Plausible(report'[w])
  <2>1. CASE pc[w] = "storing" /\ report'[w] = report[w]
    BY <2>1 DEF GrowthInRange, Plausible
  <2>2. CASE Compare(w)
    <3>. DEFINE previous == PreviousCommits(w[2], job[w[1]].month)
    <3>1. previous \in Nat
      BY WorkerParts, CommitsAssumption DEF PreviousCommits, TypeOK, Row
    <3>2. report[w].commits \in Nat
      <4>1. report[w].commits \in Commits \cup {0}
        BY DEF TypeOK, Report
      <4>. QED  BY <4>1, CommitCount
    <3>3. /\ report'[w].growth = CommitGrowth(report[w].commits, previous)
          /\ report'[w].commits = report[w].commits
      BY <2>2 DEF Compare, TypeOK, Report
    <3>. HIDE DEF previous
    <3>. QED  BY <3>1, <3>2, <3>3, CommitGrowthMeaning DEF Plausible
  <2>. QED  BY <1>1, <2>1, <2>2, Onward
<1>2. ASSUME NEW u \in Users, NEW m \in Months, stats'[<<u, m>>] # NoRow
      PROVE  Plausible(stats'[<<u, m>>]) /\ FitsColumn(stats'[<<u, m>>].growth)
  <2>1. CASE stats'[<<u, m>>] = stats[<<u, m>>]
    BY <1>2, <2>1 DEF GrowthInRange
  <2>2. CASE stats'[<<u, m>>] # stats[<<u, m>>]
    <3>1. PICK w \in Workers : pc[w] = "storing" /\ UpsertStats(w)
      BY <2>2, TableSteps
    <3>2. <<u, m>> = Slot(w)
      BY <2>2, <3>1, UpsertEffect
    <3>3. /\ stats'[<<u, m>>].growth = report[w].growth
          /\ stats'[<<u, m>>].commits = report[w].commits
      BY <3>1, <3>2, StoredFields
    <3>4. Plausible(report[w]) /\ FitsColumn(report[w].growth)
      BY <3>1 DEF GrowthInRange, UpsertStats
    <3>. QED  BY <3>3, <3>4 DEF Plausible
  <2>. QED  BY <2>1, <2>2
<1>. QED  BY <1>1, <1>2 DEF GrowthInRange

-----------------------------------------------------------------------------
(***************************************************************************)
(* The invariant, and what follows from it.                                *)
(***************************************************************************)

\* The initial state satisfies the invariant.
LEMMA InvInit == Init => IInv
<1>. SUFFICES ASSUME Init PROVE IInv
  OBVIOUS
<1>1. TypeOK
  BY TypeInit
<1>2. SemaphoreCounts
  <2>1. ASSUME NEW j \in Jobs PROVE {u \in Users : pc[<<j, u>>] \in Holding} = {}
    BY DEF Init, Workers, Holding
  <2>2. \A j \in Jobs : sem[j] = 0
    BY DEF Init
  <2>. QED  BY <2>1, <2>2, FS_EmptySet DEF SemaphoreCounts
<1>3. RunsInPlace /\ ClosedIdle
  BY WorkerParts DEF Init, RunsInPlace, ClosedIdle, Underway, Live, Holding
<1>7. CronRunsApart
  BY DEF Init, CronRunsApart
<1>4. MailOnce
  BY DEF Init, MailOnce
<1>5. RowsExplained /\ GrowthAgreesInTurn
  BY DEF Init, RowsExplained, GrowthAgreesInTurn
<1>6. StoredBeforeMailed /\ GrowthFresh /\ GrowthInRange
  BY DEF Init, StoredBeforeMailed, GrowthFresh, GrowthInRange
<1>. QED  BY <1>1, <1>2, <1>3, <1>4, <1>5, <1>6, <1>7 DEF IInv

\* Every step keeps the invariant.
LEMMA InvStep == IInv /\ [Next]_vars => IInv'
<1>. SUFFICES ASSUME IInv, [Next]_vars PROVE IInv'
  OBVIOUS
<1>1. CASE Next
  BY <1>1, TypeStep, SemaphoreStep, RunsInPlaceStep, ClosedIdleStep, CronRunsApartStep,
     MailOnceStep, RowsExplainedStep, StoredBeforeMailedStep, GrowthFreshStep, GrowthAgreesStep,
     GrowthInRangeStep DEF IInv
<1>2. CASE UNCHANGED vars
  BY <1>2 DEF vars, IInv, TypeOK, SemaphoreCounts, RunsInPlace, Underway, ClosedIdle, CronIdle,
       CronRunsApart, Begun, MailOnce, RowsExplained, StoredBeforeMailed, Slot, GrowthFresh, GrowthAgreesInTurn,
       HasBase, BaseInTurn, GrowthFits, GrowthInRange
<1>. QED  BY <1>1, <1>2

\* Every reachable state satisfies the inductive invariant, whatever the users,
\* the runs that overlap, the size of the pool and the length of the calendar
\* (scheduler.go:69-138, collector.go:64-114, main.go:56-151).
THEOREM InvHolds == Spec => []IInv
<1>. QED  BY InvInit, InvStep, PTL DEF Spec

\* Every variable keeps its type; the semaphore is never released below zero
\* nor filled beyond workerPoolSize (scheduler.go:90-104).
THEOREM TypeCorrect == Spec => []TypeOK
<1>1. IInv => TypeOK
  BY DEF IInv
<1>. QED  BY <1>1, InvHolds, PTL

\* A run's semaphore counts exactly its goroutines between <-sem and the
\* deferred release, early returns and crashes included (scheduler.go:92-104).
THEOREM SemaphoreCorrect == Spec => []SemaphoreCounts
<1>1. IInv => SemaphoreCounts
  BY DEF IInv
<1>. QED  BY <1>1, InvHolds, PTL

\* A run mails a user at most once, and a 'sent' row stands only for a mail
\* that was accepted (scheduler.go:129-135).
THEOREM LogsCorrect == Spec => []LogsMatchMail
<1>1. IInv => LogsMatchMail
  <2>. SUFFICES ASSUME IInv, NEW w \in Workers
                PROVE  mails[w] <= 1 /\ (<<w, "sent">> \in logs => mails[w] = 1)
    BY DEF LogsMatchMail
  <2>1. mails[w] \in {0, 1} /\ (<<w, "sent">> \in logs => mails[w] = 1)
    BY DEF IInv, MailOnce
  <2>. QED  BY <2>1
<1>. QED  BY <1>1, InvHolds, PTL

\* Whoever was mailed has a row for the month, with the mailed figures unless
\* another run stored the month again (scheduler.go:115-129, store.go:26-46).
THEOREM MailedFiguresCorrect == Spec => []MailAgreesWithTable
<1>1. IInv => MailAgreesWithTable
  <2>. SUFFICES ASSUME IInv, NEW w \in Workers, mails[w] > 0
                PROVE  /\ stats[Slot(w)] # NoRow
                       /\ stats[Slot(w)].by = w[1] =>
                             /\ stats[Slot(w)].commits = report[w].commits
                             /\ stats[Slot(w)].growth = report[w].growth
    BY DEF MailAgreesWithTable
  <2>1. stats[Slot(w)] # NoRow
    BY DEF IInv, StoredBeforeMailed
  <2>2. w[2] \in Users /\ job[w[1]].month \in Months /\ Slot(w) = <<w[2], job[w[1]].month>>
    BY WorkerParts DEF IInv, TypeOK, Slot
  <2>. QED  BY <2>1, <2>2, WorkerParts DEF IInv, RowsExplained
<1>. QED  BY <1>1, InvHolds, PTL

\* Two consecutive months agree about the growth between them if the earlier
\* was last stored in its own turn (collector.go:70-90).
THEOREM GrowthCorrect == Spec => []GrowthAgreesInTurn
<1>1. IInv => GrowthAgreesInTurn
  BY DEF IInv
<1>. QED  BY <1>1, InvHolds, PTL

\* Every stored growth is at least -100% and fits NUMERIC(10, 4), so that only
\* its upper end can refuse an upsert; and a stored NULL means a month without
\* commits, first or not (collector.go:83-90, init.sql:26).
THEOREM StoredGrowthInRange == Spec => []GrowthInRange
<1>1. IInv => GrowthInRange
  BY DEF IInv
<1>. QED  BY <1>1, InvHolds, PTL

\* Nothing is stored or mailed about a month that is not over
\* (controller.go:241-254, collector.go:62).
THEOREM ClosedMonthsCorrect == Spec => []ClosedMonthsOnly
<1>1. IInv => ClosedMonthsOnly
  <2>. SUFFICES ASSUME IInv PROVE ClosedMonthsOnly
    OBVIOUS
  <2>1. ASSUME NEW u \in Users, NEW m \in Months, stats[<<u, m>>] # NoRow
        PROVE  m < now
    <3>1. stats[<<u, m>>] \in Row
      BY <2>1 DEF IInv, TypeOK
    <3>2. stats[<<u, m>>].at \in Nat /\ now \in Nat /\ m \in Nat
      BY <3>1 DEF Row, IInv, TypeOK, Months
    <3>3. m < stats[<<u, m>>].at /\ stats[<<u, m>>].at <= now
      BY <2>1 DEF IInv, RowsExplained
    <3>. QED  BY <3>2, <3>3
  <2>2. ASSUME NEW w \in Workers, mails[w] > 0
        PROVE  job[w[1]].month < now
    <3>1. pc[w] = "absent" => mails[w] = 0
      BY DEF IInv, MailOnce, BeforeSend, BeforeStore
    <3>2. job[w[1]].stage # "idle"
      BY <2>2, <3>1 DEF IInv, RunsInPlace
    <3>. QED  BY <3>2, WorkerParts DEF IInv, RunsInPlace
  <2>. QED  BY <2>1, <2>2 DEF ClosedMonthsOnly
<1>. QED  BY <1>1, InvHolds, PTL

\* When the pool is closed, no goroutine of a run that cron started is left
\* (scheduler.go:63-66, main.go:105).
THEOREM DrainCorrect == Spec => []CronRunsDrained
<1>1. IInv => CronRunsDrained
  BY WorkerParts DEF IInv, ClosedIdle, CronIdle, RunsInPlace, Underway, CronRunsDrained
<1>. QED  BY <1>1, InvHolds, PTL

\* Cron has a user mailed at most once about a month, across any number of
\* crashes and restarts (scheduler.go:54-61, 129).
THEOREM ScheduledMailCorrect == Spec => []ScheduledMailOnce
<1>1. IInv => ScheduledMailOnce
  <2>. SUFFICES ASSUME IInv, NEW v \in Workers, NEW w \in Workers,
                       job[v[1]].byCron, job[w[1]].byCron, Slot(v) = Slot(w)
                PROVE  v = w
    BY DEF ScheduledMailOnce
  <2>1. v[2] = w[2] /\ job[v[1]].month = job[w[1]].month
    BY DEF Slot
  <2>2. v[1] = w[1]
    BY <2>1, WorkerParts DEF IInv, CronRunsApart
  <2>. QED  BY <2>1, <2>2, WorkerParts
<1>. QED  BY <1>1, InvHolds, PTL

\* A run that is not over can always go on (scheduler.go:92-108).
THEOREM NoRunStuckHolds == Spec => []NoRunStuck
<1>1. IInv => NoRunStuck
  <2>. SUFFICES ASSUME IInv, NEW j \in Jobs, job[j].stage = "running",
                       ~ AllReturned(j),
                       \A u \in Users : pc[<<j, u>>] \notin Holding
                PROVE  sem[j] < PoolSize /\ \E u \in Users : pc[<<j, u>>] = "queued"
    BY DEF NoRunStuck
  <2>1. PICK u \in Users : pc[<<j, u>>] \notin {"absent", "done"}
    BY DEF AllReturned
  <2>2. <<j, u>> \in Workers /\ <<j, u>>[1] = j
    BY DEF Workers
  <2>3. pc[<<j, u>>] # "killed"
    BY <2>2 DEF IInv, RunsInPlace
  <2>4. pc[<<j, u>>] = "queued"
    BY <2>1, <2>2, <2>3 DEF IInv, TypeOK, Live
  <2>5. sem[j] = 0
    <3>1. {v \in Users : pc[<<j, v>>] \in Holding} = {}
      OBVIOUS
    <3>. QED  BY <3>1, FS_EmptySet DEF IInv, SemaphoreCounts
  <2>. QED  BY <2>4, <2>5, PoolSizeAssumption
<1>. QED  BY <1>1, InvHolds, PTL

-----------------------------------------------------------------------------
(***************************************************************************)
(* The work under way at a time.                                           *)
(***************************************************************************)

\* Counting by classes: if f sorts S into the finitely many classes of J, and
\* no class has more than n elements, S has at most n times as many as J.
LEMMA ClassesBound ==
    ASSUME NEW S, NEW J, IsFiniteSet(J), NEW n \in Nat, NEW f \in [S -> J],
           \A j \in J : /\ IsFiniteSet({s \in S : f[s] = j})
                        /\ Cardinality({s \in S : f[s] = j}) <= n
    PROVE  /\ IsFiniteSet(S)
           /\ Cardinality(S) <= n * Cardinality(J)
<1>. DEFINE Class(j) == {s \in S : f[s] = j}
            Nth == [j \in J |-> CHOOSE h : h \in Surjection(1 .. Cardinality(Class(j)), Class(j))]
            Places == {p \in J \X (1 .. n) : p[2] <= Cardinality(Class(p[1]))}
            Element == [p \in Places |-> Nth[p[1]][p[2]]]
<1>1. ASSUME NEW j \in J
      PROVE  /\ Cardinality(Class(j)) \in 0 .. n
             /\ Nth[j] \in Surjection(1 .. Cardinality(Class(j)), Class(j))
  <2>1. /\ Cardinality(Class(j)) \in Nat
        /\ ExistsBijection(1 .. Cardinality(Class(j)), Class(j))
    BY FS_CardinalityType
  <2>2. \E h : h \in Surjection(1 .. Cardinality(Class(j)), Class(j))
    BY <2>1 DEF ExistsBijection, Bijection
  <2>3. Cardinality(Class(j)) <= n
    OBVIOUS
  <2>4. Nth[j] = CHOOSE h : h \in Surjection(1 .. Cardinality(Class(j)), Class(j))
    OBVIOUS
  <2>. HIDE DEF Class, Nth
  <2>. QED  BY <2>1, <2>2, <2>3, <2>4
<1>2. /\ IsFiniteSet(Places)
      /\ Cardinality(Places) <= n * Cardinality(J)
  <2>1. IsFiniteSet(1 .. n) /\ Cardinality(1 .. n) = n
    BY FS_Interval
  <2>2. /\ IsFiniteSet(J \X (1 .. n))
        /\ Cardinality(J \X (1 .. n)) = Cardinality(J) * n
    BY <2>1, FS_Product
  <2>3. /\ IsFiniteSet(Places)
        /\ Cardinality(Places) <= Cardinality(J \X (1 .. n))
    BY <2>2, FS_Subset
  <2>4. Cardinality(J) \in Nat
    BY FS_CardinalityType
  <2>. HIDE DEF Places
  <2>. QED  BY <2>2, <2>3, <2>4
<1>3. Element \in [Places -> S]
  <2>. SUFFICES ASSUME NEW p \in Places PROVE Nth[p[1]][p[2]] \in S
    OBVIOUS
  <2>1. p[1] \in J /\ p[2] \in 1 .. Cardinality(Class(p[1]))
    BY <1>1
  <2>2. Nth[p[1]] \in [1 .. Cardinality(Class(p[1])) -> Class(p[1])]
    BY <1>1, <2>1 DEF Surjection
  <2>3. Nth[p[1]][p[2]] \in Class(p[1])
    BY <2>1, <2>2, Zenon
  <2>. QED  BY <2>3
<1>4. ASSUME NEW s \in S
      PROVE  \E p \in Places : Element[p] = s
  <2>. DEFINE j == f[s]
  <2>1. j \in J /\ s \in Class(j)
    OBVIOUS
  <2>2. PICK k \in 1 .. Cardinality(Class(j)) : Nth[j][k] = s
    BY <1>1, <2>1 DEF Surjection
  <2>3. k \in 1 .. n
    <3>1. Cardinality(Class(j)) \in 0 .. n
      BY <1>1, <2>1
    <3>. HIDE DEF Class
    <3>. QED  BY <3>1
  <2>4. <<j, k>> \in Places
    <3>1. j \in J
      BY <2>1
    <3>. HIDE DEF j, Class
    <3>. QED  BY <2>3, <3>1
  <2>5. Element[<<j, k>>] = Nth[j][k]
    BY <2>4
  <2>. QED  BY <2>2, <2>4, <2>5
<1>5. Element \in Surjection(Places, S)
  BY <1>3, <1>4 DEF Surjection
<1>6. IsFiniteSet(S) /\ Cardinality(S) <= Cardinality(Places)
  BY <1>2, <1>5, FS_Surjection
<1>7. /\ Cardinality(S) \in Nat /\ Cardinality(Places) \in Nat /\ Cardinality(J) \in Nat
  BY <1>2, <1>6, FS_CardinalityType
<1>. HIDE DEF Places
<1>. QED  BY <1>2, <1>6, <1>7

\* The runs begun so far.
RunsBegun == {j \in Jobs : Begun(j)}

\* However many runs there may be, only finitely many have begun.
LEMMA RunsBegunFinite == Spec => []IsFiniteSet(RunsBegun)
<1>1. Init => IsFiniteSet(RunsBegun)
  <2>1. Init => RunsBegun = {}
    BY DEF Init, RunsBegun, Begun
  <2>. QED  BY <2>1, FS_EmptySet
<1>2. IInv /\ IsFiniteSet(RunsBegun) /\ [Next]_vars => IsFiniteSet(RunsBegun)'
  <2>. SUFFICES ASSUME IInv, IsFiniteSet(RunsBegun), [Next]_vars
                PROVE  IsFiniteSet(RunsBegun')
    OBVIOUS
  <2>1. ASSUME RunsBegun' \subseteq RunsBegun
        PROVE  IsFiniteSet(RunsBegun')
    BY <2>1, FS_Subset
  <2>2. ASSUME NEW i \in Jobs, CronFire(i) \/ TriggerMonthly(i)
        PROVE  IsFiniteSet(RunsBegun')
    <3>1. RunsBegun' \subseteq RunsBegun \cup {i}
      BY <2>2 DEF CronFire, TriggerMonthly, Spawn, RunsBegun, Begun, IInv, TypeOK
    <3>2. IsFiniteSet(RunsBegun \cup {i})
      BY FS_AddElement
    <3>. QED  BY <3>1, <3>2, FS_Subset
  <2>3. ASSUME NEW i \in Jobs, RunStep(i)
        PROVE  RunsBegun' \subseteq RunsBegun
    <3>1. Begun(i) /\ \A k \in Jobs : k # i => job'[k] = job[k]
      BY <2>3 DEF RunStep, ListUsers, ListUsersFails, JobFinishes, Begun, IInv, TypeOK
    <3>. QED  BY <3>1 DEF RunsBegun, Begun
  <2>4. CASE Die
    BY <2>1, <2>4 DEF Die, RunsBegun, Begun, Underway
  <2>5. CASE job' = job
    BY <2>1, <2>5 DEF RunsBegun, Begun
  <2>6. ASSUME NEW w \in Workers, CallReturns(w) \/ OwnStep(w)
        PROVE  job' = job
    BY <2>6 DEF CallReturns, Fetch, FetchFails, Send, SendFails, OwnStep, Acquire, Compare,
                CompareFails, Store, StoreFails, Render, RenderFails, Log
  <2>7. CASE \/ Start \/ Signal \/ ServeError \/ ShutdownReturns \/ CronDrained
             \/ MonthTurns \/ CronMissed
    BY <2>5, <2>7 DEF Start, Signal, ServeError, ShutdownReturns, CronDrained, MonthTurns, CronMissed
  <2>8. ASSUME NEW u \in Users, NEW email \in {"noEmail", "email"}, SignIn(u, email)
        PROVE  job' = job
    BY <2>8 DEF SignIn
  <2>9. CASE UNCHANGED vars
    BY <2>5, <2>9 DEF vars
  <2>. QED  BY <2>1, <2>2, <2>3, <2>4, <2>5, <2>6, <2>7, <2>8, <2>9
               DEF Next, StopStep, Exit, Crash
<1>. QED  BY <1>1, <1>2, InvHolds, PTL DEF Spec

\* The goroutines at work.
AtWork == {w \in Workers : pc[w] \in Holding}

\* The runs under way.
RunsUnderway == {j \in Jobs : Underway(j)}

\* The goroutines at work are those the semaphores of the runs under way count.
LEMMA WorkBound ==
    ASSUME IInv, IsFiniteSet(RunsBegun)
    PROVE  /\ IsFiniteSet(AtWork)
           /\ IsFiniteSet(RunsUnderway)
           /\ Cardinality(AtWork) <= PoolSize * Cardinality(RunsUnderway)
<1>1. IsFiniteSet(RunsUnderway)
  <2>1. RunsUnderway \subseteq RunsBegun
    BY DEF RunsUnderway, RunsBegun, Underway, Begun
  <2>. QED  BY <2>1, FS_Subset
<1>. DEFINE RunOf == [w \in AtWork |-> w[1]]
<1>2. RunOf \in [AtWork -> RunsUnderway]
  <2>. SUFFICES ASSUME NEW w \in AtWork PROVE w[1] \in Jobs /\ Underway(w[1])
    BY DEF RunsUnderway
  <2>. QED  BY WorkerParts DEF AtWork, IInv, RunsInPlace, Live, Underway
<1>3. ASSUME NEW j \in RunsUnderway
      PROVE  /\ IsFiniteSet({w \in AtWork : RunOf[w] = j})
             /\ Cardinality({w \in AtWork : RunOf[w] = j}) <= PoolSize
  <2>. DEFINE Goroutine == [u \in SlotHolders(j) |-> <<j, u>>]
              OfRun == {w \in AtWork : RunOf[w] = j}
  <2>0. j \in Jobs
    BY DEF RunsUnderway
  <2>1. Goroutine \in Surjection(SlotHolders(j), OfRun)
    <3>1. \A u \in SlotHolders(j) : <<j, u>> \in OfRun
      BY <2>0 DEF SlotHolders, AtWork, Workers
    <3>2. \A w \in OfRun : w[2] \in SlotHolders(j) /\ Goroutine[w[2]] = w
      BY WorkerParts DEF SlotHolders, AtWork
    <3>. QED  BY <3>1, <3>2 DEF Surjection
  <2>2. IsFiniteSet(OfRun) /\ Cardinality(OfRun) <= Cardinality(SlotHolders(j))
    BY <2>0, <2>1, HoldersFinite, FS_Surjection
  <2>3. Cardinality(SlotHolders(j)) = sem[j] /\ sem[j] \in 0 .. PoolSize
    BY <2>0 DEF IInv, SemaphoreCounts, SlotHolders, TypeOK
  <2>4. Cardinality(OfRun) \in Nat
    BY <2>2, FS_CardinalityType
  <2>. HIDE DEF OfRun
  <2>5. Cardinality(OfRun) <= PoolSize
    BY <2>2, <2>3, <2>4, PoolSizeAssumption
  <2>. QED  BY <2>2, <2>5 DEF OfRun
<1>. HIDE DEF RunOf
<1>. QED  BY <1>1, <1>2, <1>3, ClassesBound, PoolSizeAssumption

\* At any time there are at most PoolSize goroutines at work for each run that
\* is under way, whoever started it, and none for a run that has ended: the
\* load on GitHub is bounded by the number of runs (scheduler.go:86-108).
THEOREM WorkBounded == Spec => []WorkBoundedByRuns
<1>1. IInv /\ IsFiniteSet(RunsBegun) => WorkBoundedByRuns
  BY WorkBound DEF WorkBoundedByRuns, AtWork, RunsUnderway
<1>. QED  BY <1>1, InvHolds, RunsBegunFinite, PTL

\* What the comment at scheduler.go:86 says of workerPoolSize is so whenever no
\* two runs are under way at once; RateLimit.cfg shows that it is not otherwise.
THEOREM FetchesBoundedAlone ==
    Spec => [](Cardinality(RunsUnderway) <= 1 => FetchesBounded)
<1>1. IInv /\ IsFiniteSet(RunsBegun) => (Cardinality(RunsUnderway) <= 1 => FetchesBounded)
  <2>. SUFFICES ASSUME IInv, IsFiniteSet(RunsBegun), Cardinality(RunsUnderway) <= 1
                PROVE  FetchesBounded
    OBVIOUS
  <2>. DEFINE Fetching == {w \in Workers : pc[w] = "fetching"}
  <2>1. /\ IsFiniteSet(AtWork)
        /\ Cardinality(AtWork) <= PoolSize * Cardinality(RunsUnderway)
        /\ Cardinality(RunsUnderway) \in Nat
    BY WorkBound, FS_CardinalityType
  <2>2. Fetching \subseteq AtWork
    BY DEF AtWork, Holding
  <2>3. IsFiniteSet(Fetching) /\ Cardinality(Fetching) <= Cardinality(AtWork)
    BY <2>1, <2>2, FS_Subset
  <2>4. Cardinality(Fetching) \in Nat /\ Cardinality(AtWork) \in Nat
    BY <2>1, <2>3, FS_CardinalityType
  <2>. HIDE DEF Fetching
  <2>5. CASE Cardinality(RunsUnderway) = 0
    BY <2>1, <2>3, <2>4, <2>5, PoolSizeAssumption DEF FetchesBounded, Fetching
  <2>6. CASE Cardinality(RunsUnderway) = 1
    BY <2>1, <2>3, <2>4, <2>6, PoolSizeAssumption DEF FetchesBounded, Fetching
  <2>. QED  BY <2>1, <2>5, <2>6
<1>. QED  BY <1>1, InvHolds, RunsBegunFinite, PTL

\* A known email address survives every step (user/store.go:32).
THEOREM AddressCorrect == Spec => AddressKept
<1>1. IInv /\ [Next]_vars => [\A u \in Users : accounts[u] = "email" => accounts'[u] = "email"]_vars
  <2>. SUFFICES ASSUME IInv, Next, NEW u \in Users, accounts[u] = "email"
                PROVE  accounts'[u] = "email"
    OBVIOUS
  <2>1. CASE accounts' = accounts
    BY <2>1
  <2>2. ASSUME NEW v \in Users, NEW email \in {"noEmail", "email"}, SignIn(v, email)
        PROVE  accounts'[u] = "email"
    BY <2>2 DEF SignIn, MergedEmail, IInv, TypeOK
  <2>3. ASSUME NEW w \in Workers, CallReturns(w) \/ OwnStep(w)
        PROVE  accounts' = accounts
    BY <2>3 DEF CallReturns, Fetch, FetchFails, Send, SendFails, OwnStep, Acquire, Compare,
                CompareFails, Store, StoreFails, Render, RenderFails, Log
  <2>4. ASSUME NEW j \in Jobs, CronFire(j) \/ TriggerMonthly(j) \/ RunStep(j)
        PROVE  accounts' = accounts
    BY <2>4 DEF CronFire, TriggerMonthly, Spawn, RunStep, ListUsers, ListUsersFails, JobFinishes
  <2>5. CASE Start \/ Signal \/ ServeError \/ StopStep \/ Crash \/ MonthTurns \/ CronMissed
    BY <2>5 DEF Start, Signal, ServeError, StopStep, ShutdownReturns, CronDrained, Exit, Crash,
                Die, MonthTurns, CronMissed
  <2>. QED  BY <2>1, <2>2, <2>3, <2>4, <2>5 DEF Next
<1>. QED  BY <1>1, InvHolds, PTL DEF Spec, AddressKept
=============================================================================
