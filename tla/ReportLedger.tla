---------------------------- MODULE ReportLedger ----------------------------
(***************************************************************************)
(* What the monthly job promises, without its process, tables or workers:  *)
(* a run lists some users once; each listed user is owed a report; at most *)
(* one report is delivered for the entry and only while it is owed; the    *)
(* entry is closed once, with at most one row in the e-mail log, which     *)
(* says 'sent' only of a delivered report.  If the process dies, all that  *)
(* is still owed is lost: it is neither closed nor delivered later.        *)
(***************************************************************************)
EXTENDS Naturals

CONSTANTS Runs, Users

VARIABLES entry, delivered, rows

vars == <<entry, delivered, rows>>

Entries == Runs \X Users

Init ==
    /\ entry = [e \in Entries |-> "none"]
    /\ delivered = [e \in Entries |-> 0]
    /\ rows = {}

List(r, listed) ==
    /\ \A u \in Users : entry[<<r, u>>] = "none"
    /\ entry' = [e \in Entries |->
                   IF e[1] = r /\ e[2] \in listed THEN "owed" ELSE entry[e]]
    /\ UNCHANGED <<delivered, rows>>

Deliver(e) ==
    /\ entry[e] = "owed"
    /\ delivered[e] = 0
    /\ delivered' = [delivered EXCEPT ![e] = 1]
    /\ UNCHANGED <<entry, rows>>

Close(e) ==
    /\ entry[e] = "owed"
    /\ entry' = [entry EXCEPT ![e] = "closed"]
    /\ \/ UNCHANGED rows
       \/ rows' = rows \cup {<<e, "failed">>}
       \/ delivered[e] = 1 /\ rows' = rows \cup {<<e, "sent">>}
    /\ UNCHANGED delivered

Lose ==
    /\ entry' = [e \in Entries |-> IF entry[e] = "owed" THEN "lost" ELSE entry[e]]
    /\ UNCHANGED <<delivered, rows>>

Next ==
    \/ \E r \in Runs, listed \in SUBSET Users : List(r, listed)
    \/ \E e \in Entries : Deliver(e) \/ Close(e)
    \/ Lose

Spec == Init /\ [][Next]_vars

-----------------------------------------------------------------------------
(***************************************************************************)
(* What follows for whoever reads the ledger (scheduler.go:112-138).       *)
(***************************************************************************)

\* The e-mail log has at most one row for an entry, and only once the entry is
\* closed; the row is 'sent' only if the report was delivered, and no report
\* is delivered to anyone who was not listed.
RowsTellTheTruth ==
    \A e \in Entries :
        /\ <<e, "sent">> \in rows => entry[e] = "closed" /\ delivered[e] = 1
        /\ <<e, "failed">> \in rows => entry[e] = "closed" /\ <<e, "sent">> \notin rows
        /\ entry[e] = "none" => delivered[e] = 0

EndsKept ==
    \A e \in Entries : entry[e] \in {"closed", "lost"} =>
        /\ entry'[e] = entry[e]
        /\ delivered'[e] = delivered[e]
        /\ \A status \in {"sent", "failed"} :
             <<e, status>> \in rows' <=> <<e, status>> \in rows

\* What is closed or lost stays so, and nothing is delivered or logged for it
\* afterwards: no restart takes up the work of the process before it.
NothingAfterTheEnd == [][EndsKept]_vars
=============================================================================
