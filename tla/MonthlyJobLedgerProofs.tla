----------------------- MODULE MonthlyJobLedgerProofs -----------------------
(***************************************************************************)
(* MonthlyJob implements ReportLedger, for every value of the constants:   *)
(* initial states map to initial states, and every step maps to a step of  *)
(* the ledger or leaves it unchanged.                                      *)
(***************************************************************************)
EXTENDS MonthlyJobProofs

\* The mapped value of the ledger's variable "entry".
Entry == [w \in Workers |-> EntryOf(w)]

\* No run, nothing owed.
LEMMA LedgerInit == Init => Ledger!Init
BY DEF Init, Ledger!Init, Ledger!Entries, Workers, EntryOf, Live, Holding

\* A step that moves no goroutine out of its class and touches neither mails
\* nor log is no step of the ledger.
LEMMA LedgerStutter ==
    ASSUME \A w \in Workers : EntryOf(w)' = EntryOf(w), UNCHANGED <<mails, logs>>
    PROVE  UNCHANGED Ledger!vars
BY DEF Ledger!vars

\* ListUsers is List: every user with an address is owed one report.
LEMMA LedgerListing ==
    ASSUME IInv, NEW j \in Jobs, ListUsers(j)
    PROVE  Ledger!Next
<1>. DEFINE listed == {u \in Users : accounts[u] = "email"}
<1>1. UNCHANGED <<mails, logs>>
  BY DEF ListUsers, effects
<1>2. \A w \in Workers : w[1] = j => pc[w] = "absent"
  BY DEF IInv, RunsInPlace, ListUsers
<1>3. \A u \in Users : Entry[<<j, u>>] = "none"
  BY <1>2 DEF Entry, EntryOf, Workers, Live, Holding
<1>4. Entry' = [e \in Workers |->
                  IF e[1] = j /\ e[2] \in listed THEN "owed" ELSE Entry[e]]
  <2>1. ASSUME NEW w \in Workers
        PROVE  EntryOf(w)' = IF w[1] = j /\ w[2] \in listed THEN "owed" ELSE EntryOf(w)
    BY WorkerParts DEF ListUsers, EntryOf, Live
  <2>. QED  BY <2>1 DEF Entry
<1>5. listed \in SUBSET Users
  OBVIOUS
<1>. QED  BY <1>1, <1>3, <1>4, <1>5 DEF Ledger!Next, Ledger!List, Ledger!Entries, Entry, Workers

\* An accepted mail is Deliver.
LEMMA LedgerDelivery ==
    ASSUME IInv, NEW w \in Workers, Send(w) \/ SendFails(w)
    PROVE  Ledger!Next \/ UNCHANGED Ledger!vars
<1>1. pc[w] = "sending" /\ mails[w] = 0 /\ logs' = logs
  BY DEF IInv, MailOnce, BeforeSend, Send, SendFails, Goes
<1>2. pc'[w] \in {"logSent", "logFailed"} /\ \A v \in Workers : v # w => pc'[v] = pc[v]
  BY DEF IInv, TypeOK, Send, SendFails, Goes
<1>3. \A v \in Workers : EntryOf(v)' = EntryOf(v)
  BY <1>1, <1>2 DEF EntryOf, Live, Holding
<1>4. mails' = mails \/ mails' = [mails EXCEPT ![w] = 1]
  BY <1>1 DEF Send, SendFails, IInv, TypeOK
<1>5. CASE mails' = mails
  BY <1>1, <1>3, <1>5, LedgerStutter
<1>6. CASE mails' = [mails EXCEPT ![w] = 1]
  <2>1. Entry[w] = "owed" /\ Entry' = Entry
    BY <1>1, <1>3 DEF Entry, EntryOf, Live, Holding
  <2>2. Ledger!Deliver(w)
    BY <1>1, <1>6, <2>1 DEF Ledger!Deliver, Entry
  <2>. QED  BY <2>2 DEF Ledger!Next, Ledger!Entries, Workers
<1>. QED  BY <1>4, <1>5, <1>6

\* The last step of a goroutine is Close.
LEMMA LedgerClosing ==
    ASSUME IInv, NEW w \in Workers, Log(w)
    PROVE  Ledger!Next
<1>1. /\ pc[w] \in {"logSent", "logFailed"}
      /\ pc' = [pc EXCEPT ![w] = "done"]
      /\ mails' = mails
      /\ logs' \in {logs, logs \cup {<<w, Status(w)>>}}
  BY DEF Log, Goes
<1>2. Entry[w] = "owed" /\ Entry' = [Entry EXCEPT ![w] = "closed"]
  BY <1>1 DEF Entry, EntryOf, Live, Holding, IInv, TypeOK
<1>3. \/ logs' = logs
      \/ logs' = logs \cup {<<w, "failed">>}
      \/ mails[w] = 1 /\ logs' = logs \cup {<<w, "sent">>}
  BY <1>1 DEF Status, IInv, MailOnce
<1>4. Ledger!Close(w)
  BY <1>1, <1>2, <1>3 DEF Ledger!Close, Entry
<1>. QED  BY <1>4 DEF Ledger!Next, Ledger!Entries, Workers

\* The end of a process is Lose.
LEMMA LedgerLoss ==
    ASSUME Die
    PROVE  Ledger!Next
<1>1. UNCHANGED <<mails, logs>>
  BY DEF Die, effects
<1>2. \A w \in Workers : EntryOf(w)' = IF EntryOf(w) = "owed" THEN "lost" ELSE EntryOf(w)
  BY DEF Die, EntryOf, Live, Holding
<1>3. Entry' = [e \in Workers |-> IF Entry[e] = "owed" THEN "lost" ELSE Entry[e]]
  BY <1>2 DEF Entry
<1>. QED  BY <1>1, <1>3 DEF Ledger!Next, Ledger!Lose, Ledger!Entries, Entry, Workers

\* Every step of the job is one of the ledger, or a stutter.
LEMMA LedgerStep == IInv /\ [Next]_vars => [Ledger!Next]_(Ledger!vars)
<1>. SUFFICES ASSUME IInv, [Next]_vars PROVE Ledger!Next \/ UNCHANGED Ledger!vars
  OBVIOUS
<1>1. CASE UNCHANGED <<pc, mails, logs>>
  BY <1>1, LedgerStutter DEF EntryOf
<1>2. CASE Die
  BY <1>2, LedgerLoss
<1>3. ASSUME NEW j \in Jobs, CronFire(j) \/ TriggerMonthly(j) \/ RunStep(j)
      PROVE  Ledger!Next \/ UNCHANGED Ledger!vars
  <2>1. CASE ListUsers(j)
    BY <2>1, LedgerListing
  <2>2. CASE ~ ListUsers(j)
    BY <1>1, <1>3, <2>2 DEF CronFire, TriggerMonthly, Spawn, RunStep, ListUsersFails,
       JobFinishes, effects
  <2>. QED  BY <2>1, <2>2
<1>4. ASSUME NEW w \in Workers, CallReturns(w) \/ OwnStep(w)
      PROVE  Ledger!Next \/ UNCHANGED Ledger!vars
  <2>1. CASE Send(w) \/ SendFails(w)
    BY <2>1, LedgerDelivery
  <2>2. CASE Log(w)
    BY <2>2, LedgerClosing
  <2>3. CASE ~ (Send(w) \/ SendFails(w) \/ Log(w))
    <3>1. UNCHANGED <<mails, logs>>
      BY <1>4, <2>3 DEF CallReturns, Fetch, FetchFails, OwnStep, Acquire, Compare, CompareFails,
         Store, StoreFails, Render, RenderFails, effects
    <3>2. \E from, to \in Live : Goes(w, from, to)
      BY <1>4, <2>3 DEF CallReturns, Fetch, FetchFails, OwnStep, Acquire, Compare, CompareFails,
         Store, StoreFails, Render, RenderFails, Live, Holding
    <3>3. \A v \in Workers : EntryOf(v)' = EntryOf(v)
      BY <3>2 DEF Goes, EntryOf, IInv, TypeOK
    <3>. QED  BY <3>1, <3>3, LedgerStutter
  <2>. QED  BY <2>1, <2>2, <2>3
<1>5. CASE Start \/ Signal \/ ServeError \/ ShutdownReturns \/ CronDrained
  BY <1>1, <1>5 DEF Start, Signal, ServeError, ShutdownReturns, CronDrained, effects
<1>6. CASE MonthTurns \/ CronMissed
  BY <1>1, <1>6 DEF MonthTurns, CronMissed, effects
<1>7. ASSUME NEW u \in Users, NEW email \in {"noEmail", "email"}, SignIn(u, email)
      PROVE  Ledger!Next \/ UNCHANGED Ledger!vars
  BY <1>1, <1>7 DEF SignIn, effects
<1>8. CASE UNCHANGED vars
  BY <1>1, <1>8 DEF vars
<1>. QED  BY <1>2, <1>3, <1>4, <1>5, <1>6, <1>7, <1>8 DEF Next, StopStep, Exit, Crash

\* Every behaviour of the process, crashes and overlapping runs included, keeps
\* the promise of the ledger (scheduler.go:69-138).
THEOREM LedgerImplemented == Spec => ImplementsLedger
<1>. QED  BY LedgerInit, LedgerStep, InvHolds, PTL DEF Spec, ImplementsLedger, Ledger!Spec

-----------------------------------------------------------------------------
(***************************************************************************)
(* What the ledger alone guarantees holds of the process that implements   *)
(* it: the two proofs below use nothing of MonthlyJob.                     *)
(***************************************************************************)

\* The rows of one entry.
RowsOf(e) == {status \in {"sent", "failed"} : <<e, status>> \in logs}

\* What makes the rows true: the types, and which rows an entry may have.
LedgerInv ==
    /\ Entry \in [Workers -> {"none", "owed", "closed", "lost"}]
    /\ mails \in [Workers -> {0, 1}]
    /\ \A e \in Workers :
        /\ RowsOf(e) \in {{}, {"sent"}, {"failed"}}
        /\ RowsOf(e) # {} => Entry[e] = "closed"
        /\ "sent" \in RowsOf(e) => mails[e] = 1
        /\ Entry[e] = "none" => mails[e] = 0

\* Nothing happens to an entry.
EntryKept(e) ==
    Entry'[e] = Entry[e] /\ mails'[e] = mails[e] /\ RowsOf(e)' = RowsOf(e)

\* The steps of the ledger, in terms of the process.
LEMMA LedgerMoves ==
    ASSUME [Ledger!Next]_(Ledger!vars)
    PROVE  \/ UNCHANGED <<Entry, mails, logs>>
           \/ /\ \E r \in Jobs, listed \in SUBSET Users :
                 /\ \A u \in Users : Entry[<<r, u>>] = "none"
                 /\ Entry' = [v \in Workers |->
                               IF v[1] = r /\ v[2] \in listed THEN "owed" ELSE Entry[v]]
              /\ UNCHANGED <<mails, logs>>
           \/ \E d \in Workers :
                 /\ Entry[d] = "owed" /\ Entry' = Entry
                 /\ mails' = [mails EXCEPT ![d] = 1] /\ logs' = logs
           \/ \E d \in Workers :
                 /\ Entry[d] = "owed" /\ Entry' = [Entry EXCEPT ![d] = "closed"]
                 /\ mails' = mails
                 /\ \/ logs' = logs
                    \/ logs' = logs \cup {<<d, "failed">>}
                    \/ mails[d] = 1 /\ logs' = logs \cup {<<d, "sent">>}
           \/ /\ Entry' = [v \in Workers |-> IF Entry[v] = "owed" THEN "lost" ELSE Entry[v]]
              /\ UNCHANGED <<mails, logs>>
<1>1. Entry = [w \in Workers |-> EntryOf(w)] /\ Ledger!Entries = Workers
  BY DEF Entry, Ledger!Entries, Workers
<1>2. CASE UNCHANGED Ledger!vars
  BY <1>2 DEF Ledger!vars, Entry
<1>3. CASE \E r \in Jobs, listed \in SUBSET Users : Ledger!List(r, listed)
  BY <1>1, <1>3, Zenon DEF Ledger!List, Entry
<1>4. CASE \E d \in Workers : Ledger!Deliver(d)
  BY <1>1, <1>4 DEF Ledger!Deliver, Entry
<1>5. CASE \E d \in Workers : Ledger!Close(d)
  BY <1>1, <1>5 DEF Ledger!Close, Entry
<1>6. CASE Ledger!Lose
  BY <1>1, <1>6 DEF Ledger!Lose, Entry
<1>. QED  BY <1>1, <1>2, <1>3, <1>4, <1>5, <1>6 DEF Ledger!Next

\* What a step of the ledger does to each entry.
LEMMA LedgerEffect ==
    ASSUME LedgerInv, [Ledger!Next]_(Ledger!vars)
    PROVE  /\ Entry' \in [Workers -> {"none", "owed", "closed", "lost"}]
           /\ mails' \in [Workers -> {0, 1}]
           /\ \A e \in Workers :
              \/ EntryKept(e)
              \/ /\ Entry[e] = "none" /\ Entry'[e] = "owed"
                 /\ mails'[e] = mails[e] /\ RowsOf(e)' = RowsOf(e)
              \/ /\ Entry[e] = "owed" /\ Entry'[e] \in {"owed", "lost"}
                 /\ mails'[e] \in {mails[e], 1} /\ RowsOf(e)' = RowsOf(e)
              \/ /\ Entry[e] = "owed" /\ Entry'[e] = "closed"
                 /\ mails'[e] = mails[e]
                 /\ \/ RowsOf(e)' \in {{}, {"failed"}}
                    \/ RowsOf(e)' = {"sent"} /\ mails[e] = 1
<1>. USE DEF LedgerInv, EntryKept
<1>1. CASE UNCHANGED <<Entry, mails, logs>>
  BY <1>1 DEF RowsOf
<1>2. ASSUME NEW r \in Jobs, NEW listed \in SUBSET Users,
             \A u \in Users : Entry[<<r, u>>] = "none",
             Entry' = [v \in Workers |->
                         IF v[1] = r /\ v[2] \in listed THEN "owed" ELSE Entry[v]],
             UNCHANGED <<mails, logs>>
      PROVE  /\ Entry' \in [Workers -> {"none", "owed", "closed", "lost"}]
             /\ \A e \in Workers : \/ EntryKept(e)
                                   \/ /\ Entry[e] = "none" /\ Entry'[e] = "owed"
                                      /\ mails'[e] = mails[e] /\ RowsOf(e)' = RowsOf(e)
  <2>1. \A v \in Workers : v[1] = r => Entry[v] = "none"
    BY <1>2, WorkerParts
  <2>2. \A e \in Workers : RowsOf(e)' = RowsOf(e)
    BY <1>2 DEF RowsOf
  <2>. QED  BY <1>2, <2>1, <2>2
<1>3. ASSUME NEW d \in Workers,
             Entry[d] = "owed", Entry' = Entry,
             mails' = [mails EXCEPT ![d] = 1], logs' = logs
      PROVE  /\ mails' \in [Workers -> {0, 1}]
             /\ \A e \in Workers : \/ EntryKept(e)
                                   \/ /\ Entry[e] = "owed" /\ Entry'[e] = "owed"
                                      /\ mails'[e] = 1 /\ RowsOf(e)' = RowsOf(e)
  BY <1>3 DEF RowsOf
<1>4. ASSUME NEW d \in Workers,
             Entry[d] = "owed", Entry' = [Entry EXCEPT ![d] = "closed"], mails' = mails,
             \/ logs' = logs
             \/ logs' = logs \cup {<<d, "failed">>}
             \/ mails[d] = 1 /\ logs' = logs \cup {<<d, "sent">>}
      PROVE  /\ Entry' \in [Workers -> {"none", "owed", "closed", "lost"}]
             /\ \A e \in Workers : e # d => EntryKept(e)
             /\ Entry'[d] = "closed"
             /\ \/ RowsOf(d)' \in {{}, {"failed"}}
                \/ RowsOf(d)' = {"sent"} /\ mails[d] = 1
  <2>1. \A e \in Workers : e # d => RowsOf(e)' = RowsOf(e)
    BY <1>4 DEF RowsOf
  <2>2. RowsOf(d) = {}
    BY <1>4
  <2>3. RowsOf(d)' = {} \/ RowsOf(d)' = {"failed"} \/ (mails[d] = 1 /\ RowsOf(d)' = {"sent"})
    BY <1>4, <2>2 DEF RowsOf
  <2>. QED  BY <1>4, <2>1, <2>3
<1>5. ASSUME Entry' = [v \in Workers |-> IF Entry[v] = "owed" THEN "lost" ELSE Entry[v]],
             UNCHANGED <<mails, logs>>
      PROVE  /\ Entry' \in [Workers -> {"none", "owed", "closed", "lost"}]
             /\ \A e \in Workers : \/ EntryKept(e)
                                   \/ /\ Entry[e] = "owed" /\ Entry'[e] = "lost"
                                      /\ mails'[e] = mails[e] /\ RowsOf(e)' = RowsOf(e)
  BY <1>5 DEF RowsOf
<1>6. CASE \E d \in Workers :
             /\ Entry[d] = "owed" /\ Entry' = [Entry EXCEPT ![d] = "closed"]
             /\ mails' = mails
             /\ \/ logs' = logs
                \/ logs' = logs \cup {<<d, "failed">>}
                \/ mails[d] = 1 /\ logs' = logs \cup {<<d, "sent">>}
  BY <1>4, <1>6
<1>. QED  BY <1>1, <1>2, <1>3, <1>5, <1>6, LedgerMoves

\* The ledger starts empty.
LEMMA LedgerInvInit == Ledger!Init => LedgerInv
<1>. SUFFICES ASSUME Ledger!Init PROVE LedgerInv
  OBVIOUS
<1>1. Entry = [e \in Workers |-> "none"] /\ mails = [e \in Workers |-> 0] /\ logs = {}
  BY DEF Ledger!Init, Ledger!Entries, Workers, Entry
<1>2. \A e \in Workers : RowsOf(e) = {}
  BY <1>1 DEF RowsOf
<1>. QED  BY <1>1, <1>2 DEF LedgerInv

\* Every step of the ledger keeps its rows true.
LEMMA LedgerInvStep == LedgerInv /\ [Ledger!Next]_(Ledger!vars) => LedgerInv'
<1>. SUFFICES ASSUME LedgerInv, [Ledger!Next]_(Ledger!vars) PROVE LedgerInv'
  OBVIOUS
<1>1. ASSUME NEW e \in Workers
      PROVE  /\ RowsOf(e)' \in {{}, {"sent"}, {"failed"}}
             /\ RowsOf(e)' # {} => Entry'[e] = "closed"
             /\ "sent" \in RowsOf(e)' => mails'[e] = 1
             /\ Entry'[e] = "none" => mails'[e] = 0
  BY LedgerEffect DEF LedgerInv, EntryKept
<1>2. /\ Entry' \in [Workers -> {"none", "owed", "closed", "lost"}]
      /\ mails' \in [Workers -> {0, 1}]
  BY LedgerEffect DEF LedgerInv
<1>. QED  BY <1>1, <1>2 DEF LedgerInv

\* The e-mail log has at most one row for each listed user of a run, written
\* when its goroutine returns, and 'sent' only of a report that was delivered
\* (scheduler.go:112-138).
THEOREM RowsTrue == Spec => []Ledger!RowsTellTheTruth
<1>1. Ledger!Spec => []LedgerInv
  BY LedgerInvInit, LedgerInvStep, PTL DEF Ledger!Spec
<1>2. LedgerInv => Ledger!RowsTellTheTruth
  <2>. SUFFICES ASSUME LedgerInv, NEW e \in Workers
                PROVE  /\ <<e, "sent">> \in logs => Entry[e] = "closed" /\ mails[e] = 1
                       /\ <<e, "failed">> \in logs =>
                             Entry[e] = "closed" /\ <<e, "sent">> \notin logs
                       /\ Entry[e] = "none" => mails[e] = 0
    BY DEF Ledger!RowsTellTheTruth, Ledger!Entries, Workers, Entry
  <2>1. /\ <<e, "sent">> \in logs <=> "sent" \in RowsOf(e)
        /\ <<e, "failed">> \in logs <=> "failed" \in RowsOf(e)
    BY DEF RowsOf
  <2>. QED  BY <2>1 DEF LedgerInv
<1>. QED  BY <1>1, <1>2, LedgerImplemented, PTL DEF ImplementsLedger

\* What a goroutine has finished, or lost with its process, is final: no later
\* step, run or restart mails or logs for it (scheduler.go:92-135).
THEOREM EndIsFinal == Spec => Ledger!NothingAfterTheEnd
<1>1. Ledger!Spec => []LedgerInv
  BY LedgerInvInit, LedgerInvStep, PTL DEF Ledger!Spec
<1>2. LedgerInv /\ [Ledger!Next]_(Ledger!vars) => [Ledger!EndsKept]_(Ledger!vars)
  <2>. SUFFICES ASSUME LedgerInv, [Ledger!Next]_(Ledger!vars), NEW e \in Workers,
                       Entry[e] \in {"closed", "lost"}
                PROVE  /\ Entry'[e] = Entry[e]
                       /\ mails'[e] = mails[e]
                       /\ \A status \in {"sent", "failed"} :
                            <<e, status>> \in logs' <=> <<e, status>> \in logs
    BY DEF Ledger!EndsKept, Ledger!Entries, Workers, Entry
  <2>1. EntryKept(e)
    BY LedgerEffect
  <2>. QED  BY <2>1 DEF EntryKept, RowsOf
<1>. QED  BY <1>1, <1>2, LedgerImplemented, PTL
             DEF ImplementsLedger, Ledger!Spec, Ledger!NothingAfterTheEnd
=============================================================================
