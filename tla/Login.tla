------------------------------- MODULE Login -------------------------------
(***************************************************************************)
(* The login of internal/auth/oauth.go: HandleLogin, HandleCallback and    *)
(* HandleLogout, over the cookies of the browsers, the users table and     *)
(* GitHub.                                                                 *)
(*                                                                         *)
(* A browser may have several logins under way in its tabs, but it has one *)
(* oauth_state cookie and one session cookie.  The cookies of a response   *)
(* take effect when the response arrives, after the calls to GitHub and to *)
(* PostgreSQL; meanwhile the user goes on.  The callback page may be       *)
(* loaded again, or its address opened in another browser.                 *)
(***************************************************************************)
EXTENDS Naturals, FiniteSets

CONSTANTS
    Browsers,
    Accounts,     \* GitHub accounts
    Flows,        \* logins begun, each named by its random state
    MaxLoads,     \* bound on the times one callback address is loaded
    NoFlow, NoBrowser, NoAccount

ASSUME NoneAssumption ==
    NoFlow \notin Flows /\ NoBrowser \notin Browsers /\ NoAccount \notin Accounts
ASSUME MaxLoadsAssumption == MaxLoads \in Nat
ASSUME AccountsAssumption == IsFiniteSet(Accounts)

\* One request to /auth/callback: <<the flow in its address, a number>>.
Calls == Flows \X (1 .. MaxLoads)

VARIABLES
    stateCookie,   \* oauth_state of each browser
    session,       \* the session cookie of each browser
    newest,        \* the login each browser began last
    flow,          \* where each login is, and who consented to it
    codeUsed,      \* logins whose code GitHub has exchanged
    call,          \* the callback requests
    users          \* users table: the id of each account's row, 0 for none

vars == <<stateCookie, session, newest, flow, codeUsed, call, users>>

cookies == <<stateCookie, session>>

\* The claims of a session token, uid 0 for none; flow is history.
Session == [uid : Nat, flow : Flows \cup {NoFlow}]
NoSession == [uid |-> 0, flow |-> NoFlow]

FlowStages == {"unused", "consent", "granted", "denied"}

\* The state was accepted and the answer has not been received.
Accepted == {"exchanging", "profiling", "upserting", "answering"}

TypeOK ==
    /\ stateCookie \in [Browsers -> Flows \cup {NoFlow}]
    /\ session \in [Browsers -> Session]
    /\ newest \in [Browsers -> Flows \cup {NoFlow}]
    /\ flow \in [Flows -> [stage : FlowStages, browser : Browsers \cup {NoBrowser},
                           account : Accounts \cup {NoAccount}]]
    /\ codeUsed \subseteq Flows
    /\ call \in [Calls -> [stage : Accepted \cup {"absent", "over"},
                           browser : Browsers \cup {NoBrowser},
                           newest : Flows \cup {NoFlow}, uid : Nat]]
    /\ users \in [Accounts -> Nat]

Init ==
    /\ stateCookie = [b \in Browsers |-> NoFlow]
    /\ session = [b \in Browsers |-> NoSession]
    /\ newest = [b \in Browsers |-> NoFlow]
    /\ flow = [f \in Flows |-> [stage |-> "unused", browser |-> NoBrowser,
                                account |-> NoAccount]]
    /\ codeUsed = {}
    /\ call = [c \in Calls |-> [stage |-> "absent", browser |-> NoBrowser,
                                newest |-> NoFlow, uid |-> 0]]
    /\ users = [a \in Accounts |-> 0]

-----------------------------------------------------------------------------
(***************************************************************************)
(* The browser and GitHub.                                                 *)
(***************************************************************************)

\* Mutant: a state cookie that is still there is kept.
StateAfterLogin_Kept(old, f) == IF old = NoFlow THEN f ELSE old

StateAfterLogin(old, f) == f

\* HandleLogin: a new random state, in the cookie and in GitHub's address.
HandleLogin(b, f) ==
    /\ flow[f].stage = "unused"
    /\ flow' = [flow EXCEPT ![f] = [stage |-> "consent", browser |-> b,
                                    account |-> NoAccount]]
    /\ stateCookie' = [stateCookie EXCEPT ![b] = StateAfterLogin(@, f)]
    /\ newest' = [newest EXCEPT ![b] = f]
    /\ UNCHANGED <<session, codeUsed, call, users>>

\* The consent page sends the browser to the callback, with a code ...
Grant(f, a) ==
    /\ flow[f].stage = "consent"
    /\ flow' = [flow EXCEPT ![f] = [stage |-> "granted", browser |-> @.browser,
                                    account |-> a]]
    /\ UNCHANGED <<cookies, newest, codeUsed, call, users>>

\* ... or with an error and no code.
Deny(f) ==
    /\ flow[f].stage = "consent"
    /\ flow' = [flow EXCEPT ![f].stage = "denied"]
    /\ UNCHANGED <<cookies, newest, codeUsed, call, users>>

\* Ten minutes have passed since the cookie was set.
StateExpires(b) ==
    /\ stateCookie[b] # NoFlow
    /\ stateCookie' = [stateCookie EXCEPT ![b] = NoFlow]
    /\ UNCHANGED <<session, newest, flow, codeUsed, call, users>>

\* HandleLogout, or the seven days of the cookie have passed.
HandleLogout(b) ==
    /\ session[b] # NoSession
    /\ session' = [session EXCEPT ![b] = NoSession]
    /\ UNCHANGED <<stateCookie, newest, flow, codeUsed, call, users>>

-----------------------------------------------------------------------------
(***************************************************************************)
(* HandleCallback, one step per call to GitHub or PostgreSQL.              *)
(***************************************************************************)

Goes(c, from, to) ==
    /\ call[c].stage = from
    /\ call' = [call EXCEPT ![c].stage = to]

\* Mutant: any state cookie will do.
StateMatches_Present(cookie, f) == cookie # NoFlow

\* stateCookie is there and equal to the state of the address.
StateMatches(cookie, f) == cookie = f

\* Browser b loads the callback address of a flow; it sends its state cookie.
Load(c, b, stage) ==
    /\ call[c].stage = "absent"
    /\ flow[c[1]].stage \in {"granted", "denied"}
    /\ call' = [call EXCEPT ![c] = [stage |-> stage, browser |-> b,
                                    newest |-> newest[b], uid |-> 0]]
    /\ UNCHANGED <<cookies, newest, flow, codeUsed, users>>

\* 400, and no cookie is touched.
Refuse(c, b) ==
    /\ ~ StateMatches(stateCookie[b], c[1])
    /\ Load(c, b, "over")

Accept(c, b) ==
    /\ StateMatches(stateCookie[b], c[1])
    /\ Load(c, b, IF flow[c[1]].stage = "granted" THEN "exchanging" ELSE "answering")

\* GitHub exchanges a code once.
Exchange(c) ==
    /\ c[1] \notin codeUsed
    /\ Goes(c, "exchanging", "profiling")
    /\ codeUsed' = codeUsed \cup {c[1]}
    /\ UNCHANGED <<cookies, newest, flow, users>>

\* Mutant: the error of the exchange is not looked at.
ExchangeFails_Ignored(c) ==
    /\ Goes(c, "exchanging", "profiling")
    /\ codeUsed' \in {codeUsed, codeUsed \cup {c[1]}}
    /\ UNCHANGED <<cookies, newest, flow, users>>

\* The code was used before, or the exchange fails on the way there or back.
ExchangeFails(c) ==
    /\ Goes(c, "exchanging", "answering")
    /\ codeUsed' \in {codeUsed, codeUsed \cup {c[1]}}
    /\ UNCHANGED <<cookies, newest, flow, users>>

\* UserInfo, then the token is encrypted.
Profile(c) ==
    /\ Goes(c, "profiling", "upserting")
    /\ UNCHANGED <<cookies, newest, flow, codeUsed, users>>

ProfileFails(c) ==
    /\ Goes(c, "profiling", "answering")
    /\ UNCHANGED <<cookies, newest, flow, codeUsed, users>>

\* gen_random_uuid(): a number no row has.
FreshIds == {n \in 1 .. Cardinality(Accounts) + 1 : \A a \in Accounts : users[a] # n}

\* Mutant: the conflict replaces the whole row.
Ids_Replaced(a) == FreshIds

\* ON CONFLICT (github_id) DO UPDATE keeps the id of the row.
Ids(a) == IF users[a] = 0 THEN FreshIds ELSE {users[a]}

\* user.Store.Upsert: RETURNING id, which goes into the session token.
Upsert(c) ==
    LET a == flow[c[1]].account IN
    /\ call[c].stage = "upserting"
    /\ \E id \in Ids(a) :
          /\ users' = [users EXCEPT ![a] = id]
          /\ call' = [call EXCEPT ![c].stage = "answering", ![c].uid = id]
    /\ UNCHANGED <<cookies, newest, flow, codeUsed>>

\* The row is not written, or it is and the answer is lost.
UpsertFails(c) ==
    LET a == flow[c[1]].account IN
    /\ Goes(c, "upserting", "answering")
    /\ UNCHANGED users \/ \E id \in Ids(a) : users' = [users EXCEPT ![a] = id]
    /\ UNCHANGED <<cookies, newest, flow, codeUsed>>

\* The response arrives: the state cookie, whichever login it now belongs to,
\* is cleared; after a success the session cookie is set.
Receive(c) ==
    LET b == call[c].browser IN
    /\ Goes(c, "answering", "over")
    /\ stateCookie' = [stateCookie EXCEPT ![b] = NoFlow]
    /\ session' = IF call[c].uid = 0 THEN session
                  ELSE [session EXCEPT ![b] = [uid |-> call[c].uid, flow |-> c[1]]]
    /\ UNCHANGED <<newest, flow, codeUsed, users>>

\* The tab is closed or the server dies: no response, whatever was done stays.
Lose(c) ==
    /\ call[c].stage \in Accepted
    /\ call' = [call EXCEPT ![c].stage = "over"]
    /\ UNCHANGED <<cookies, newest, flow, codeUsed, users>>

CallStep(c) ==
    \/ Exchange(c) \/ ExchangeFails(c)
    \/ Profile(c) \/ ProfileFails(c)
    \/ Upsert(c) \/ UpsertFails(c)
    \/ Receive(c) \/ Lose(c)

Next ==
    \/ \E b \in Browsers : StateExpires(b) \/ HandleLogout(b)
    \/ \E b \in Browsers, f \in Flows : HandleLogin(b, f)
    \/ \E f \in Flows : Deny(f) \/ \E a \in Accounts : Grant(f, a)
    \/ \E c \in Calls, b \in Browsers : Refuse(c, b) \/ Accept(c, b)
    \/ \E c \in Calls : CallStep(c)

Spec == Init /\ [][Next]_vars

-----------------------------------------------------------------------------

\* oauth.go:119-146, 251-274.  A browser's session comes from a login that was
\* begun in this browser and granted, however its tabs, reloads and other
\* browsers interleave.
SessionConsented ==
    \A b \in Browsers : session[b] # NoSession =>
        LET f == flow[session[b].flow]
        IN  f.stage = "granted" /\ f.browser = b

\* oauth.go:237-253, user/store.go:26-36.  The id in a session is that of the
\* one row of the account that consented, and of no other account's: ids
\* survive later logins, also those that fail after the upsert.
SessionNamesRow ==
    \A b \in Browsers : session[b] # NoSession =>
        \A a \in Accounts :
            users[a] = session[b].uid <=> a = flow[session[b].flow].account

\* Its browser has begun another login since, no callback of it that was
\* accepted before is under way, and no session comes from it.
Superseded(f) ==
    /\ flow[f].stage # "unused"
    /\ \A b \in Browsers : newest[b] # f /\ session[b].flow # f
    /\ \A c \in Calls : c[1] = f => call[c].stage \notin Accepted

SupersededKept == \A f \in Flows : Superseded(f) => Superseded(f)'

\* oauth.go:97-109, 133-146.  Once a newer login has been begun in its browser,
\* an older one opens no session any more, from whichever tab or browser its
\* callback is loaded.  The exception is a callback accepted before: its answer
\* may still arrive, and then replaces the session of the newer login.
SupersededOpensNothing == [][SupersededKept]_vars

-----------------------------------------------------------------------------
(***************************************************************************)
(* The inductive invariant.                                                *)
(***************************************************************************)

\* A state cookie belongs to the last login begun in its browser.
CookieOfNewest ==
    \A b \in Browsers : stateCookie[b] # NoFlow =>
        /\ stateCookie[b] = newest[b]
        /\ flow[stateCookie[b]].browser = b
        /\ flow[stateCookie[b]].stage # "unused"

\* A login whose state was accepted was, when its callback was loaded, the last
\* one its browser had begun.
NewestLoginOnly ==
    \A c \in Calls : call[c].stage \in Accepted => call[c].newest = c[1]

\* A login's account is known once it is granted.
GrantsNamed == \A f \in Flows : flow[f].stage = "granted" => flow[f].account \in Accounts

\* No two rows have the same id.
IdsUnique ==
    \A a1, a2 \in Accounts : (users[a1] = users[a2] /\ users[a1] # 0) => a1 = a2

\* What holds of a callback whose state was accepted.
CallsSound ==
    \A c \in Calls : call[c].stage \in Accepted =>
        /\ call[c].browser \in Browsers
        /\ flow[c[1]].browser = call[c].browser
        /\ flow[c[1]].stage \in {"granted", "denied"}
        /\ call[c].stage # "answering" => flow[c[1]].stage = "granted"
        /\ call[c].uid # 0 => /\ flow[c[1]].stage = "granted"
                              /\ users[flow[c[1]].account] = call[c].uid

\* A session names a login, and a row.
SessionsNamed ==
    \A b \in Browsers : session[b] # NoSession =>
        session[b].uid # 0 /\ session[b].flow \in Flows

\* The code of this call's login was exchanged for it, and the answer may yet
\* set a session.
Redeems(c) ==
    \/ call[c].stage \in {"profiling", "upserting"}
    \/ call[c].stage = "answering" /\ call[c].uid # 0

\* A code is exchanged for one call of its login.
OneRedeemer ==
    /\ \A f \in codeUsed : flow[f].stage = "granted"
    /\ \A c \in Calls : Redeems(c) =>
          /\ c[1] \in codeUsed
          /\ \A d \in Calls : d[1] = c[1] /\ Redeems(d) => d = c
    /\ \A c \in Calls : call[c].uid # 0 => call[c].stage \in {"answering", "over"}

IInv ==
    /\ TypeOK
    /\ CookieOfNewest
    /\ GrantsNamed
    /\ IdsUnique
    /\ CallsSound
    /\ SessionsNamed
    /\ OneRedeemer
    /\ NewestLoginOnly
    /\ SessionConsented
    /\ SessionNamesRow
=============================================================================
