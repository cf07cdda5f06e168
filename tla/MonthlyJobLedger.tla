-------------------------- MODULE MonthlyJobLedger --------------------------
(***************************************************************************)
(* MonthlyJob implements ReportLedger: an entry of the ledger is one       *)
(* goroutine of one run, owed from ListAll until the goroutine returns.    *)
(***************************************************************************)
EXTENDS MonthlyJob

EntryOf(w) ==
    IF pc[w] \in Live THEN "owed"
    ELSE IF pc[w] = "done" THEN "closed"
    ELSE IF pc[w] = "killed" THEN "lost"
    ELSE "none"

Ledger == INSTANCE ReportLedger WITH
            Runs <- Jobs,
            entry <- [w \in Workers |-> EntryOf(w)],
            delivered <- mails,
            rows <- logs

\* scheduler.go:69-138.  Every behaviour of the process, crashes included, is
\* one the ledger allows.
ImplementsLedger == Ledger!Spec
=============================================================================
