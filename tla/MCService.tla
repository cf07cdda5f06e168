----------------------------- MODULE MCService -----------------------------
(***************************************************************************)
(* Service for TLC.  The requests asked for are those that reach another   *)
(* component; Api checks the others, and the refusals.                     *)
(***************************************************************************)
EXTENDS Service

CONSTANTS r1, r2, j1, j2

MCAsked ==
    {q \in Http!Arrivals :
        /\ q.route = "HandleCallback" \/ (q.route = "TriggerMonthly" /\ q.key)
        /\ q.user = NoUser
        /\ q.frontend}

\* Requests are interchangeable, and so are runs: each pair is begun in one
\* order only.  (In place of a symmetry set, which liveness does not allow.)
InOrder ==
    /\ at[r2] > 0 => at[r1] > 0
    /\ job[j2].stage # "idle" => job[j1].stage # "idle"

\* Of the statuses of a callback that fails, which differ in their number only,
\* 500 stands for all.
OneFailure == \A r \in Requests : resp[r].status \notin {400, 502, 503}

Reduced == InOrder /\ OneFailure
=============================================================================
