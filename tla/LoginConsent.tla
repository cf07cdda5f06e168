---------------------------- MODULE LoginConsent ----------------------------
(***************************************************************************)
(* Login implements Consent: a consent is being redeemed from the exchange *)
(* of its code until the answer that may carry the session has arrived or  *)
(* is lost.                                                                *)
(***************************************************************************)
EXTENDS Login

StageOf(f) ==
    IF flow[f].stage = "unused" THEN "none"
    ELSE IF flow[f].stage = "consent" THEN "asked"
    ELSE IF flow[f].stage = "denied" THEN "declined"
    ELSE IF f \notin codeUsed THEN "given"
    ELSE IF \E c \in Calls : c[1] = f /\ Redeems(c) THEN "redeeming"
    ELSE "spent"

ConsentOf(f) ==
    [stage |-> StageOf(f), browser |-> flow[f].browser, account |-> flow[f].account]

Promise == INSTANCE Consent WITH
             consent <- [f \in Flows |-> ConsentOf(f)],
             session <- [b \in Browsers |-> session[b].flow]

\* oauth.go:82-278.  Every behaviour of cookies, reloads, tabs and failing
\* calls is one the promise allows: no consent opens two sessions, or one in
\* another browser than the one that asked.
ImplementsConsent == Promise!Spec

SpentKept ==
    \A f \in Flows : StageOf(f) \in {"declined", "spent"} =>
        /\ StageOf(f)' = StageOf(f)
        /\ \A b \in Browsers : session'[b].flow = f => session[b].flow = f

\* oauth.go:133-253.  A consent that was declined, redeemed or wasted opens no
\* session any more: loading its callback address again, after a logout, a
\* failure or from another tab that is still waiting, signs nobody in.
SpentOpensNothing == [][SpentKept]_vars
=============================================================================
