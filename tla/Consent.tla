------------------------------ MODULE Consent ------------------------------
(***************************************************************************)
(* What the login promises, without state, cookies, codes or calls: a      *)
(* browser asks for consent, an account gives or declines it; a consent is *)
(* redeemed once, and then either opens one session, in the browser that   *)
(* asked, or is spent for nothing.                                         *)
(***************************************************************************)
CONSTANTS Browsers, Accounts, Flows, NoFlow, NoBrowser, NoAccount

VARIABLES
    consent,    \* stage, browser and account of each login
    session     \* the login each browser's session comes from

vars == <<consent, session>>

Init ==
    /\ consent = [f \in Flows |-> [stage |-> "none", browser |-> NoBrowser,
                                   account |-> NoAccount]]
    /\ session = [b \in Browsers |-> NoFlow]

Moves(f, from, to) ==
    /\ consent[f].stage = from
    /\ consent' = [consent EXCEPT ![f].stage = to]

Ask(f, b) ==
    /\ consent[f].stage = "none"
    /\ consent' = [consent EXCEPT ![f] = [stage |-> "asked", browser |-> b,
                                          account |-> NoAccount]]
    /\ UNCHANGED session

Give(f, a) ==
    /\ consent[f].stage = "asked"
    /\ consent' = [consent EXCEPT ![f] = [stage |-> "given", browser |-> @.browser,
                                          account |-> a]]
    /\ UNCHANGED session

Decline(f) == Moves(f, "asked", "declined") /\ UNCHANGED session

Redeem(f) == Moves(f, "given", "redeeming") /\ UNCHANGED session

Waste(f) ==
    /\ Moves(f, "given", "spent") \/ Moves(f, "redeeming", "spent")
    /\ UNCHANGED session

Open(f) ==
    /\ Moves(f, "redeeming", "spent")
    /\ consent[f].browser \in Browsers /\ consent[f].account \in Accounts
    /\ session' = [session EXCEPT ![consent[f].browser] = f]

Leave(b) == session' = [session EXCEPT ![b] = NoFlow] /\ UNCHANGED consent

Next ==
    \/ \E f \in Flows :
          \/ \E b \in Browsers : Ask(f, b)
          \/ \E a \in Accounts : Give(f, a)
          \/ Decline(f) \/ Redeem(f) \/ Waste(f) \/ Open(f)
    \/ \E b \in Browsers : Leave(b)

Spec == Init /\ [][Next]_vars
=============================================================================
