---------------------------- MODULE LoginProofs ----------------------------
(***************************************************************************)
(* Proofs about Login, for any browsers, accounts, logins and number of    *)
(* times a callback address is loaded.                                     *)
(***************************************************************************)
EXTENDS LoginConsent, FiniteSetTheorems, TLAPS

\* The ids a fresh or an old row gets.
LEMMA IdFacts ==
    ASSUME NEW a \in Accounts, users \in [Accounts -> Nat]
    PROVE  /\ Ids(a) \subseteq Nat \ {0}
           /\ users[a] # 0 => Ids(a) = {users[a]}
           /\ users[a] = 0 => \A id \in Ids(a), a2 \in Accounts : users[a2] # id
<1>1. Cardinality(Accounts) \in Nat
  BY AccountsAssumption, FS_CardinalityType
<1>2. FreshIds \subseteq Nat \ {0} /\ \A id \in FreshIds, a2 \in Accounts : users[a2] # id
  BY <1>1 DEF FreshIds
<1> QED
  BY <1>2 DEF Ids

\* A call's flow and number.
LEMMA CallParts == \A c \in Calls : c[1] \in Flows
BY DEF Calls

\* The initial state satisfies the invariant.
LEMMA InitIInv == Init => IInv
<1> SUFFICES ASSUME Init PROVE IInv
  OBVIOUS
<1>1. TypeOK
  BY DEF Init, TypeOK, FlowStages, NoSession, Session
<1>2. CookieOfNewest /\ GrantsNamed /\ IdsUnique
  BY DEF Init, CookieOfNewest, GrantsNamed, IdsUnique
<1>3. CallsSound /\ NewestLoginOnly
  BY DEF Init, CallsSound, NewestLoginOnly, Accepted
<1>4. SessionsNamed /\ SessionConsented /\ SessionNamesRow
  BY DEF Init, SessionsNamed, SessionConsented, SessionNamesRow
<1>5. OneRedeemer
  BY DEF Init, OneRedeemer, Redeems
<1> QED
  BY <1>1, <1>2, <1>3, <1>4, <1>5 DEF IInv

-----------------------------------------------------------------------------
(***************************************************************************)
(* Steps of the browser and of GitHub.                                     *)
(***************************************************************************)

\* A login that begins replaces the browser's state cookie.
LEMMA LoginStep ==
    ASSUME IInv, NEW b \in Browsers, NEW f \in Flows, HandleLogin(b, f)
    PROVE  IInv'
<1> USE DEF IInv
<1>1. \A g \in Flows : g # f => flow'[g] = flow[g]
  BY DEF TypeOK, HandleLogin
<1>2. /\ flow'[f].stage = "consent" /\ flow'[f].browser = b /\ flow[f].stage = "unused"
      /\ stateCookie'[b] = f /\ newest'[b] = f
      /\ \A d \in Browsers : d # b => stateCookie'[d] = stateCookie[d] /\ newest'[d] = newest[d]
      /\ UNCHANGED <<session, codeUsed, call, users>>
  BY DEF TypeOK, HandleLogin, StateAfterLogin
<1>3. TypeOK'
  <2>1. stateCookie' \in [Browsers -> Flows \cup {NoFlow}]
    BY DEF TypeOK, HandleLogin, StateAfterLogin
  <2>2. newest' \in [Browsers -> Flows \cup {NoFlow}]
    BY DEF TypeOK, HandleLogin
  <2>3. flow' \in [Flows -> [stage : FlowStages, browser : Browsers \cup {NoBrowser},
                            account : Accounts \cup {NoAccount}]]
    <3>1. [stage |-> "consent", browser |-> b, account |-> NoAccount] \in
             [stage : FlowStages, browser : Browsers \cup {NoBrowser},
              account : Accounts \cup {NoAccount}]
      BY DEF TypeOK, FlowStages
    <3> QED
      BY <3>1 DEF TypeOK, HandleLogin
  <2> QED
    BY <1>2, <2>1, <2>2, <2>3 DEF TypeOK
<1>4. CookieOfNewest'
  <2> SUFFICES ASSUME NEW d \in Browsers, stateCookie'[d] # NoFlow
               PROVE  /\ stateCookie'[d] = newest'[d]
                      /\ flow'[stateCookie'[d]].browser = d
                      /\ flow'[stateCookie'[d]].stage # "unused"
    BY DEF CookieOfNewest
  <2>1. CASE d = b
    BY <1>2, <2>1
  <2>2. CASE d # b
    <3>1. stateCookie'[d] = stateCookie[d] /\ newest'[d] = newest[d] /\ stateCookie[d] \in Flows
      BY <1>2, <2>2 DEF TypeOK
    <3>2. stateCookie[d] # f
      BY <1>2, <3>1 DEF CookieOfNewest
    <3> QED
      BY <1>1, <3>1, <3>2 DEF CookieOfNewest
  <2> QED
    BY <2>1, <2>2
<1>5. GrantsNamed'
  BY <1>1, <1>2 DEF GrantsNamed
<1>6. IdsUnique' /\ SessionsNamed' /\ NewestLoginOnly'
  BY <1>2 DEF IdsUnique, SessionsNamed, NewestLoginOnly
<1>7. CallsSound'
  <2>1. \A c \in Calls : call[c].stage \in Accepted => c[1] # f
    BY <1>2 DEF CallsSound
  <2> QED
    BY <1>1, <1>2, <2>1, CallParts DEF CallsSound
<1>8. SessionConsented' /\ SessionNamesRow'
  <2>1. \A d \in Browsers : session[d] # NoSession => session[d].flow \in Flows \ {f}
    BY <1>2 DEF SessionsNamed, SessionConsented
  <2> QED
    BY <1>1, <1>2, <2>1 DEF SessionConsented, SessionNamesRow
<1>9. OneRedeemer'
  BY <1>1, <1>2 DEF OneRedeemer, Redeems, TypeOK
<1> QED
  BY <1>3, <1>4, <1>5, <1>6, <1>7, <1>8, <1>9

\* The answer of the consent page: a login's stage and account change.
LEMMA ConsentStep ==
    ASSUME IInv, NEW f \in Flows, Deny(f) \/ \E a \in Accounts : Grant(f, a)
    PROVE  IInv'
<1> USE DEF IInv
<1>1. /\ \A g \in Flows : g # f => flow'[g] = flow[g]
      /\ flow'[f].browser = flow[f].browser
      /\ flow'[f].stage \in {"granted", "denied"}
      /\ flow'[f].stage = "granted" => flow'[f].account \in Accounts
      /\ flow[f].stage = "consent"
      /\ UNCHANGED <<stateCookie, session, newest, codeUsed, call, users>>
  BY DEF TypeOK, Deny, Grant, cookies
<1>2. TypeOK'
  <2>1. flow' \in [Flows -> [stage : FlowStages, browser : Browsers \cup {NoBrowser},
                            account : Accounts \cup {NoAccount}]]
    <3>1. CASE Deny(f)
      BY <3>1 DEF TypeOK, FlowStages, Deny
    <3>2. \A a \in Accounts :
             [stage |-> "granted", browser |-> flow[f].browser, account |-> a] \in
             [stage : FlowStages, browser : Browsers \cup {NoBrowser},
              account : Accounts \cup {NoAccount}]
      BY DEF TypeOK, FlowStages
    <3>3. CASE \E a \in Accounts : Grant(f, a)
      BY <3>2, <3>3 DEF TypeOK, Grant
    <3> QED
      BY <3>1, <3>3
  <2> QED
    BY <1>1, <2>1 DEF TypeOK
<1>3. CookieOfNewest'
  BY <1>1 DEF CookieOfNewest, TypeOK
<1>4. GrantsNamed'
  BY <1>1 DEF GrantsNamed
<1>5. IdsUnique' /\ SessionsNamed' /\ NewestLoginOnly'
  BY <1>1 DEF IdsUnique, SessionsNamed, NewestLoginOnly
<1>6. CallsSound'
  <2>1. \A c \in Calls : call[c].stage \in Accepted => c[1] # f
    BY <1>1 DEF CallsSound
  <2> QED
    BY <1>1, <2>1, CallParts DEF CallsSound
<1>7. SessionConsented' /\ SessionNamesRow'
  <2>1. \A d \in Browsers : session[d] # NoSession => session[d].flow \in Flows \ {f}
    BY <1>1 DEF SessionsNamed, SessionConsented
  <2> QED
    BY <1>1, <2>1 DEF SessionConsented, SessionNamesRow
<1>8. OneRedeemer'
  BY <1>1 DEF OneRedeemer, Redeems, TypeOK
<1> QED
  BY <1>2, <1>3, <1>4, <1>5, <1>6, <1>7, <1>8

\* A cookie goes: the state expires, or the user logs out.
LEMMA CookieStep ==
    ASSUME IInv, NEW b \in Browsers, StateExpires(b) \/ HandleLogout(b)
    PROVE  IInv'
<1> USE DEF IInv
<1>1. /\ \A d \in Browsers : stateCookie'[d] \in {stateCookie[d], NoFlow}
      /\ \A d \in Browsers : session'[d] \in {session[d], NoSession}
      /\ UNCHANGED <<newest, flow, codeUsed, call, users>>
  BY DEF TypeOK, StateExpires, HandleLogout
<1>2. TypeOK'
  <2>1. NoSession \in Session
    BY DEF NoSession, Session
  <2>2. /\ stateCookie' \in [Browsers -> Flows \cup {NoFlow}]
        /\ session' \in [Browsers -> Session]
    BY <2>1 DEF TypeOK, StateExpires, HandleLogout
  <2> QED
    BY <1>1, <2>2 DEF TypeOK
<1>3. CookieOfNewest'
  BY <1>1 DEF CookieOfNewest
<1>4. GrantsNamed' /\ IdsUnique' /\ NewestLoginOnly' /\ CallsSound'
  BY <1>1 DEF GrantsNamed, IdsUnique, NewestLoginOnly, CallsSound
<1>5. SessionsNamed' /\ SessionConsented' /\ SessionNamesRow'
  BY <1>1 DEF SessionsNamed, SessionConsented, SessionNamesRow
<1>6. OneRedeemer'
  BY <1>1 DEF OneRedeemer, Redeems
<1> QED
  BY <1>2, <1>3, <1>4, <1>5, <1>6

-----------------------------------------------------------------------------
(***************************************************************************)
(* Steps of HandleCallback.                                                *)
(***************************************************************************)

\* A callback address is loaded: past the check, the login is the browser's.
LEMMA LoadStep ==
    ASSUME IInv, NEW c \in Calls, NEW b \in Browsers, Refuse(c, b) \/ Accept(c, b)
    PROVE  IInv'
<1> USE DEF IInv
<1>1. c[1] \in Flows
  BY CallParts
<1>2. /\ \A d \in Calls : d # c => call'[d] = call[d]
      /\ call'[c].browser = b /\ call'[c].newest = newest[b] /\ call'[c].uid = 0
      /\ flow[c[1]].stage \in {"granted", "denied"}
      /\ UNCHANGED <<stateCookie, session, newest, flow, codeUsed, users>>
  BY DEF TypeOK, Refuse, Accept, Load, cookies
<1>3. call'[c].stage \in Accepted =>
         /\ stateCookie[b] = c[1]
         /\ call'[c].stage # "answering" => flow[c[1]].stage = "granted"
  BY DEF TypeOK, Refuse, Accept, Load, StateMatches, Accepted
<1>4. TypeOK'
  BY DEF TypeOK, Refuse, Accept, Load, Accepted, cookies
<1>5. CookieOfNewest' /\ GrantsNamed' /\ IdsUnique' /\ SessionsNamed'
  BY <1>2 DEF CookieOfNewest, GrantsNamed, IdsUnique, SessionsNamed
<1>6. SessionConsented' /\ SessionNamesRow'
  BY <1>2 DEF SessionConsented, SessionNamesRow
<1>7. call'[c].stage \in Accepted => newest[b] = c[1] /\ flow[c[1]].browser = b
  BY <1>1, <1>3, NoneAssumption DEF CookieOfNewest
<1>8. NewestLoginOnly'
  BY <1>2, <1>7 DEF NewestLoginOnly
<1>9. CallsSound'
  BY <1>2, <1>3, <1>7 DEF CallsSound
<1>10. OneRedeemer'
  <2>1. call'[c].stage \in {"over", "exchanging", "answering"} /\ call'[c].uid = 0
    BY DEF TypeOK, Refuse, Accept, Load
  <2>2. ~ Redeems(c)' /\ \A d \in Calls : d # c => Redeems(d)' = Redeems(d)
    BY <1>2, <2>1 DEF Redeems
  <2> QED
    BY <1>2, <2>1, <2>2 DEF OneRedeemer
<1> QED
  BY <1>4, <1>5, <1>6, <1>8, <1>9, <1>10

\* A call goes on or ends without touching cookies or rows.
LEMMA MoveStep ==
    ASSUME IInv, NEW c \in Calls,
           \/ Exchange(c) \/ ExchangeFails(c)
           \/ Profile(c) \/ ProfileFails(c)
           \/ Lose(c)
    PROVE  IInv'
<1> USE DEF IInv
<1>1. /\ \A d \in Calls : d # c => call'[d] = call[d]
      /\ call'[c].browser = call[c].browser /\ call'[c].newest = call[c].newest
      /\ call'[c].uid = call[c].uid
      /\ call[c].stage \in Accepted
      /\ call'[c].stage \notin {"answering", "over"} => call[c].stage # "answering"
      /\ UNCHANGED <<stateCookie, session, newest, flow, users>>
  BY DEF TypeOK, Exchange, ExchangeFails, Profile, ProfileFails, Lose, Goes, Accepted, cookies
<1>2. TypeOK'
  <2>1. TypeOK /\ c[1] \in Flows
    BY CallParts
  <2>2. codeUsed' \subseteq Flows
    BY <2>1 DEF TypeOK, Exchange, ExchangeFails, Profile, ProfileFails, Lose
  <2>3. \E to \in Accepted \cup {"over"} : call' = [call EXCEPT ![c].stage = to]
    BY DEF Exchange, ExchangeFails, Profile, ProfileFails, Lose, Goes, Accepted
  <2> QED
    BY <1>1, <2>1, <2>2, <2>3 DEF TypeOK
<1>3. CookieOfNewest' /\ GrantsNamed' /\ IdsUnique' /\ SessionsNamed'
  BY <1>1 DEF CookieOfNewest, GrantsNamed, IdsUnique, SessionsNamed
<1>4. SessionConsented' /\ SessionNamesRow'
  BY <1>1 DEF SessionConsented, SessionNamesRow
<1>5. NewestLoginOnly'
  BY <1>1 DEF NewestLoginOnly
<1>6. CallsSound'
  BY <1>1 DEF CallsSound, Accepted
<1>7. OneRedeemer'
  <2>1. codeUsed \subseteq codeUsed' /\ \A f \in codeUsed' : flow[f].stage = "granted"
    BY CallParts DEF Exchange, ExchangeFails, Profile, ProfileFails, Lose, Goes,
                     OneRedeemer, CallsSound, Accepted
  <2>2. call'[c].uid # 0 => call'[c].stage \in {"answering", "over"}
    BY <1>1 DEF TypeOK, Exchange, ExchangeFails, Profile, ProfileFails, Lose, Goes, OneRedeemer
  <2>3. \A d \in Calls : d # c => Redeems(d)' = Redeems(d)
    BY <1>1 DEF Redeems
  <2>4. Redeems(c)' => \/ Redeems(c)
                       \/ c[1] \in codeUsed' /\ c[1] \notin codeUsed
    BY <1>1 DEF TypeOK, Exchange, ExchangeFails, Profile, ProfileFails, Lose, Goes, Redeems, OneRedeemer
  <2> QED
    BY <1>1, <2>1, <2>2, <2>3, <2>4 DEF OneRedeemer
<1> QED
  BY <1>2, <1>3, <1>4, <1>5, <1>6, <1>7

\* An upsert keeps every id that is known, in sessions and in other calls, and
\* answers with the id of the account's row.
LEMMA UpsertStep ==
    ASSUME IInv, NEW c \in Calls, Upsert(c) \/ UpsertFails(c)
    PROVE  IInv'
<1> USE DEF IInv
<1> DEFINE a == flow[c[1]].account
<1>1. call[c].stage = "upserting" /\ c[1] \in Flows /\ call[c].stage \in Accepted
  BY CallParts DEF Upsert, UpsertFails, Goes, Accepted
<1>2. flow[c[1]].stage = "granted" /\ a \in Accounts
  BY <1>1 DEF CallsSound, GrantsNamed
<1> HIDE DEF a
<1>3. /\ \A d \in Calls : d # c => call'[d] = call[d]
      /\ call'[c].browser = call[c].browser /\ call'[c].newest = call[c].newest
      /\ call'[c].stage = "answering"
      /\ UNCHANGED <<stateCookie, session, newest, flow, codeUsed>>
  BY DEF TypeOK, Upsert, UpsertFails, Goes, cookies
<1>4. /\ \/ users' = users
         \/ \E id \in Ids(a) : users' = [users EXCEPT ![a] = id]
      /\ call'[c].uid # call[c].uid => call'[c].uid = users'[a]
  BY <1>2 DEF TypeOK, Upsert, UpsertFails, Goes, a
<1>5. /\ users' \in [Accounts -> Nat]
      /\ \A x \in Accounts : x # a => users'[x] = users[x]
      /\ users[a] # 0 => users'[a] = users[a]
      /\ users[a] = 0 /\ users'[a] # 0 => \A x \in Accounts : users[x] # users'[a]
  BY <1>2, <1>4, IdFacts DEF TypeOK
<1>6. TypeOK'
  <2>1. call'[c].uid \in Nat
    <3>1. CASE call'[c].uid = call[c].uid
      BY <3>1 DEF TypeOK
    <3>2. CASE call'[c].uid # call[c].uid
      BY <1>2, <1>4, <1>5, <3>2
    <3> QED
      BY <3>1, <3>2
  <2>2. call' = [call EXCEPT ![c].stage = "answering", ![c].uid = call'[c].uid]
    BY DEF TypeOK, Upsert, UpsertFails, Goes
  <2> QED
    BY <1>3, <1>5, <2>1, <2>2 DEF TypeOK, Accepted
<1>7. CookieOfNewest' /\ GrantsNamed' /\ SessionsNamed' /\ SessionConsented'
  BY <1>3 DEF CookieOfNewest, GrantsNamed, SessionsNamed, SessionConsented
<1>8. IdsUnique'
  BY <1>5 DEF IdsUnique, TypeOK
<1>9. SessionNamesRow'
  <2> SUFFICES ASSUME NEW b \in Browsers, session[b] # NoSession, NEW x \in Accounts
               PROVE  users'[x] = session[b].uid <=> x = flow[session[b].flow].account
    BY <1>3 DEF SessionNamesRow
  <2>1. users[x] = session[b].uid <=> x = flow[session[b].flow].account
    BY DEF SessionNamesRow
  <2>2. session[b].uid # 0
    BY DEF SessionsNamed
  <2>3. \E y \in Accounts : users[y] = session[b].uid
    <3>1. flow[session[b].flow].account \in Accounts
      BY DEF SessionsNamed, SessionConsented, GrantsNamed
    <3> QED
      BY <3>1 DEF SessionNamesRow
  <2> QED
    BY <1>5, <2>1, <2>2, <2>3
<1>10. NewestLoginOnly'
  BY <1>1, <1>3 DEF NewestLoginOnly
<1>11. CallsSound'
  <2> SUFFICES ASSUME NEW d \in Calls, call'[d].stage \in Accepted
               PROVE  /\ call'[d].browser \in Browsers
                      /\ flow[d[1]].browser = call'[d].browser
                      /\ flow[d[1]].stage \in {"granted", "denied"}
                      /\ call'[d].stage # "answering" => flow[d[1]].stage = "granted"
                      /\ call'[d].uid # 0 =>
                            /\ flow[d[1]].stage = "granted"
                            /\ users'[flow[d[1]].account] = call'[d].uid
    BY <1>3 DEF CallsSound
  <2>1. CASE d # c
    <3>1. call'[d] = call[d] /\ call[d].stage \in Accepted
      BY <1>3, <2>1
    <3>2. call[d].uid # 0 => users'[flow[d[1]].account] = call[d].uid
      BY <1>5, <3>1, CallParts DEF CallsSound, GrantsNamed
    <3> QED
      BY <3>1, <3>2 DEF CallsSound
  <2>2. CASE d = c
    <3>1. call[c].uid # 0 => users'[a] = call[c].uid
      BY <1>1, <1>5 DEF CallsSound, a
    <3>2. call'[c].uid # 0 => users'[a] = call'[c].uid
      BY <1>4, <3>1
    <3> QED
      BY <1>1, <1>2, <1>3, <2>2, <3>2 DEF CallsSound, a
  <2> QED
    BY <2>1, <2>2
<1>12. OneRedeemer'
  BY <1>1, <1>3 DEF OneRedeemer, Redeems
<1> QED
  BY <1>6, <1>7, <1>8, <1>9, <1>10, <1>11, <1>12

\* The response arrives at the browser whose login it was.
LEMMA ReceiveStep ==
    ASSUME IInv, NEW c \in Calls, Receive(c)
    PROVE  IInv'
<1> USE DEF IInv
<1> DEFINE b == call[c].browser
<1>1. call[c].stage = "answering" /\ call[c].stage \in Accepted /\ c[1] \in Flows
  BY CallParts DEF Receive, Goes, Accepted
<1>2. /\ b \in Browsers
      /\ flow[c[1]].browser = b
      /\ call[c].uid # 0 => /\ flow[c[1]].stage = "granted"
                            /\ flow[c[1]].account \in Accounts
                            /\ users[flow[c[1]].account] = call[c].uid
  BY <1>1 DEF CallsSound, GrantsNamed
<1>3. /\ \A d \in Calls : d # c => call'[d] = call[d]
      /\ call'[c].stage \notin Accepted
      /\ \A d \in Browsers : stateCookie'[d] \in {stateCookie[d], NoFlow}
      /\ UNCHANGED <<newest, flow, codeUsed, users>>
  BY DEF TypeOK, Receive, Goes, Accepted
<1>4. /\ \A d \in Browsers : d # b => session'[d] = session[d]
      /\ \/ session'[b] = session[b]
         \/ call[c].uid # 0 /\ session'[b] = [uid |-> call[c].uid, flow |-> c[1]]
  BY <1>2 DEF TypeOK, Receive
<1>5. TypeOK'
  BY <1>1, <1>2 DEF TypeOK, Receive, Goes, Session, Accepted
<1>6. CookieOfNewest' /\ GrantsNamed' /\ IdsUnique'
  BY <1>3 DEF CookieOfNewest, GrantsNamed, IdsUnique
<1>7. NewestLoginOnly' /\ CallsSound'
  BY <1>3 DEF NewestLoginOnly, CallsSound
<1> HIDE DEF b
<1>8. SessionsNamed' /\ SessionConsented'
  BY <1>1, <1>2, <1>3, <1>4 DEF SessionsNamed, SessionConsented
<1>9. SessionNamesRow'
  <2> SUFFICES ASSUME NEW d \in Browsers, session'[d] # NoSession, NEW x \in Accounts
               PROVE  users[x] = session'[d].uid <=> x = flow[session'[d].flow].account
    BY <1>3 DEF SessionNamesRow
  <2>1. CASE session'[d] = session[d]
    BY <2>1 DEF SessionNamesRow
  <2>2. CASE d = b /\ call[c].uid # 0 /\ session'[b] = [uid |-> call[c].uid, flow |-> c[1]]
    BY <1>2, <2>2 DEF IdsUnique
  <2> QED
    BY <1>4, <2>1, <2>2
<1>10. OneRedeemer'
  <2>1. call'[c].stage = "over" /\ call'[c].uid = call[c].uid
    BY DEF TypeOK, Receive, Goes
  <2> QED
    BY <1>3, <2>1 DEF OneRedeemer, Redeems
<1> QED
  BY <1>5, <1>6, <1>7, <1>8, <1>9, <1>10

\* Every step keeps the invariant.
LEMMA StepIInv == IInv /\ [Next]_vars => IInv'
<1> SUFFICES ASSUME IInv, [Next]_vars PROVE IInv'
  OBVIOUS
<1>1. ASSUME NEW b \in Browsers, StateExpires(b) \/ HandleLogout(b) PROVE IInv'
  BY <1>1, CookieStep
<1>2. ASSUME NEW b \in Browsers, NEW f \in Flows, HandleLogin(b, f) PROVE IInv'
  BY <1>2, LoginStep
<1>3. ASSUME NEW f \in Flows, Deny(f) \/ \E a \in Accounts : Grant(f, a) PROVE IInv'
  BY <1>3, ConsentStep
<1>4. ASSUME NEW c \in Calls, NEW b \in Browsers, Refuse(c, b) \/ Accept(c, b) PROVE IInv'
  BY <1>4, LoadStep
<1>5. ASSUME NEW c \in Calls, CallStep(c) PROVE IInv'
  BY <1>5, MoveStep, UpsertStep, ReceiveStep DEF CallStep
<1>6. CASE UNCHANGED vars
  BY <1>6 DEF vars, IInv, TypeOK, CookieOfNewest, GrantsNamed, IdsUnique, CallsSound,
              SessionsNamed, OneRedeemer, Redeems, NewestLoginOnly, SessionConsented, SessionNamesRow
<1> QED
  BY <1>1, <1>2, <1>3, <1>4, <1>5, <1>6 DEF Next

-----------------------------------------------------------------------------

\* The invariant holds in every reachable state.
THEOREM InvHolds == Spec => []IInv
BY InitIInv, StepIInv, PTL DEF Spec

\* oauth.go:119-146, 251-274: every session was granted in a login begun in the
\* browser that holds it.
THEOREM SessionConsentedHolds == Spec => []SessionConsented
<1>1. IInv => SessionConsented
  BY DEF IInv
<1> QED
  BY <1>1, InvHolds, PTL

\* oauth.go:237-253, user/store.go:26-36: every session names the one row of the
\* account that consented.
THEOREM SessionNamesRowHolds == Spec => []SessionNamesRow
<1>1. IInv => SessionNamesRow
  BY DEF IInv
<1> QED
  BY <1>1, InvHolds, PTL

\* A login becomes the newest of a browser only when it is begun, and passes the
\* check of its state only while it is the newest.
LEMMA SupersededStep ==
    ASSUME IInv, Next, NEW f \in Flows, Superseded(f)
    PROVE  Superseded(f)'
<1> USE DEF IInv
<1>1. f # NoFlow /\ \A c \in Calls : call[c].stage \in Accepted => c[1] # f
  BY NoneAssumption DEF Superseded
<1>2. ASSUME NEW b \in Browsers, StateExpires(b) \/ HandleLogout(b)
      PROVE  Superseded(f)'
  <2>1. \A d \in Browsers : session'[d] \in {session[d], NoSession}
    BY <1>2 DEF TypeOK, StateExpires, HandleLogout
  <2> QED
    BY <1>1, <1>2, <2>1 DEF Superseded, StateExpires, HandleLogout, NoSession
<1>3. ASSUME NEW b \in Browsers, NEW g \in Flows, HandleLogin(b, g)
      PROVE  Superseded(f)'
  <2>1. f # g /\ flow'[f] = flow[f]
    BY <1>3 DEF TypeOK, HandleLogin, Superseded
  <2>2. \A d \in Browsers : newest'[d] \in {newest[d], g}
    BY <1>3 DEF TypeOK, HandleLogin
  <2> QED
    BY <1>3, <2>1, <2>2 DEF Superseded, HandleLogin
<1>4. ASSUME NEW g \in Flows, Deny(g) \/ \E a \in Accounts : Grant(g, a)
      PROVE  Superseded(f)'
  <2>1. flow'[f].stage # "unused"
    BY <1>4 DEF TypeOK, Deny, Grant, Superseded
  <2> QED
    BY <1>4, <2>1 DEF Superseded, Deny, Grant, cookies
<1>5. ASSUME NEW c \in Calls, NEW b \in Browsers, Refuse(c, b) \/ Accept(c, b)
      PROVE  Superseded(f)'
  <2>1. /\ \A d \in Calls : d # c => call'[d] = call[d]
        /\ UNCHANGED <<session, newest, flow>>
    BY <1>5 DEF TypeOK, Refuse, Accept, Load, cookies
  <2>2. c[1] = f => call'[c].stage \notin Accepted
    <3>1. CASE Refuse(c, b)
      BY <3>1 DEF TypeOK, Refuse, Load, Accepted
    <3>2. CASE Accept(c, b)
      <4>1. stateCookie[b] = c[1]
        BY <3>2 DEF Accept, StateMatches
      <4>2. c[1] = f => newest[b] = f
        BY <1>1, <4>1 DEF CookieOfNewest
      <4> QED
        BY <4>2 DEF Superseded
    <3> QED
      BY <1>5, <3>1, <3>2
  <2> QED
    BY <2>1, <2>2 DEF Superseded
<1>6. ASSUME NEW c \in Calls, CallStep(c) PROVE Superseded(f)'
  <2>1. /\ call[c].stage \in Accepted /\ c[1] # f
        /\ \A d \in Calls : d # c => call'[d] = call[d]
        /\ UNCHANGED <<newest, flow>>
    BY <1>1, <1>6 DEF TypeOK, CallStep, Exchange, ExchangeFails, Profile, ProfileFails, Upsert,
                      UpsertFails, Receive, Lose, Goes, Accepted, cookies
  <2>2. \A d \in Browsers : session'[d].flow \in {session[d].flow, c[1]}
    BY <1>6 DEF TypeOK, CallStep, Exchange, ExchangeFails, Profile, ProfileFails, Upsert,
                UpsertFails, Receive, Lose, cookies
  <2> QED
    BY <2>1, <2>2 DEF Superseded
<1> QED
  BY <1>2, <1>3, <1>4, <1>5, <1>6 DEF Next

\* oauth.go:97-109, 133-146: a login whose browser has begun a newer one opens no
\* session, unless its callback was accepted before.
THEOREM SupersededOpensNothingHolds == Spec => SupersededOpensNothing
<1>1. IInv /\ [Next]_vars => [SupersededKept]_vars
  BY SupersededStep DEF SupersededKept
<1> QED
  BY <1>1, InvHolds, PTL DEF Spec, SupersededOpensNothing

-----------------------------------------------------------------------------
(***************************************************************************)
(* Login implements Consent.                                               *)
(***************************************************************************)

Consents == [f \in Flows |-> ConsentOf(f)]

Sessions == [b \in Browsers |-> session[b].flow]

\* Some call of the login is redeeming its consent.
Redeeming(f) == \E c \in Calls : c[1] = f /\ Redeems(c)

\* No login, no consent; no session.
LEMMA PromiseInit == Init => Promise!Init
BY DEF Init, Promise!Init, ConsentOf, StageOf, NoSession

\* One login's consent moves on, the others stay.
LEMMA OneMoves ==
    ASSUME NEW f \in Flows, NEW to,
           \A g \in Flows : g # f => ConsentOf(g)' = ConsentOf(g),
           ConsentOf(f)' = [ConsentOf(f) EXCEPT !.stage = to]
    PROVE  Consents' = [Consents EXCEPT ![f].stage = to]
BY DEF Consents

\* What a step of a call does to the stage of its login's consent.
LEMMA CallMoves ==
    ASSUME IInv, NEW c \in Calls, CallStep(c)
    PROVE  /\ \A g \in Flows : g # c[1] => ConsentOf(g)' = ConsentOf(g)
           /\ ConsentOf(c[1])' = [ConsentOf(c[1]) EXCEPT !.stage = StageOf(c[1])']
           /\ \/ StageOf(c[1])' = StageOf(c[1])
              \/ StageOf(c[1]) = "given" /\ StageOf(c[1])' \in {"redeeming", "spent"}
              \/ StageOf(c[1]) = "redeeming" /\ StageOf(c[1])' = "spent"
           /\ (Receive(c) /\ call[c].uid # 0) =>
                 StageOf(c[1]) = "redeeming" /\ StageOf(c[1])' = "spent"
<1> DEFINE f == c[1]
<1> USE DEF IInv
<1>1. f \in Flows /\ call[c].stage \in Accepted
  BY CallParts DEF CallStep, Exchange, ExchangeFails, Profile, ProfileFails, Upsert,
                   UpsertFails, Receive, Lose, Goes, Accepted
<1>2. /\ flow' = flow
      /\ \A d \in Calls : d # c => call'[d] = call[d]
      /\ \A g \in Flows : g # f => (g \in codeUsed' <=> g \in codeUsed)
      /\ f \in codeUsed => f \in codeUsed'
  BY DEF TypeOK, CallStep, Exchange, ExchangeFails, Profile, ProfileFails, Upsert,
         UpsertFails, Receive, Lose, Goes
<1>3. \A d \in Calls : d # c => Redeems(d)' = Redeems(d)
  BY <1>2 DEF Redeems
<1>4. \A g \in Flows : g # f => ConsentOf(g)' = ConsentOf(g)
  <2> SUFFICES ASSUME NEW g \in Flows, g # f PROVE ConsentOf(g)' = ConsentOf(g)
    OBVIOUS
  <2>1. (\E d \in Calls : d[1] = g /\ Redeems(d))' = (\E d \in Calls : d[1] = g /\ Redeems(d))
    BY <1>3
  <2>2. (g \in codeUsed)' = (g \in codeUsed)
    BY <1>2
  <2> QED
    BY <1>2, <2>1, <2>2 DEF ConsentOf, StageOf
<1>5. ConsentOf(f)' = [ConsentOf(f) EXCEPT !.stage = StageOf(f)']
  BY <1>2 DEF ConsentOf
<1>6. flow[f].stage \in {"granted", "denied"}
  BY <1>1 DEF CallsSound
<1>7. Redeems(c) => f \in codeUsed /\ flow[f].stage = "granted"
  BY DEF OneRedeemer
<1>8. Redeeming(f) => f \in codeUsed
  BY DEF OneRedeemer, Redeeming
<1>9. Redeems(c) /\ ~ Redeems(c)' => Redeeming(f) /\ ~ Redeeming(f)'
  BY <1>3 DEF Redeeming, OneRedeemer
<1>10. Redeems(c)' = Redeems(c) => Redeeming(f)' = Redeeming(f)
  BY <1>3 DEF Redeeming
<1>11. Redeems(c)' => Redeeming(f)'
  BY DEF Redeeming
<1>12. /\ Redeeming(f) => StageOf(f) = "redeeming"
       /\ flow[f].stage = "granted" /\ f \notin codeUsed => StageOf(f) = "given"
       /\ Redeeming(f)' /\ f \in codeUsed' /\ flow[f].stage = "granted" => StageOf(f)' = "redeeming"
       /\ ~ Redeeming(f)' /\ f \in codeUsed' /\ flow[f].stage = "granted" => StageOf(f)' = "spent"
  BY <1>2, <1>6, <1>8 DEF StageOf, Redeeming, OneRedeemer
<1>13. (Redeeming(f)' = Redeeming(f) /\ (f \in codeUsed' <=> f \in codeUsed)) => StageOf(f)' = StageOf(f)
  BY <1>2 DEF StageOf, Redeeming
<1>14. CASE Exchange(c)
  <2>1. f \notin codeUsed /\ f \in codeUsed' /\ Redeems(c)' /\ flow[f].stage = "granted"
    BY <1>14 DEF TypeOK, Exchange, Goes, Redeems, CallsSound, Accepted
  <2> QED
    BY <1>4, <1>5, <1>11, <1>12, <1>14, <2>1 DEF Exchange, Receive, Goes
<1>15. CASE ExchangeFails(c)
  <2>1. /\ ~ Redeems(c) /\ ~ Redeems(c)' /\ flow[f].stage = "granted"
        /\ call[c].stage = "exchanging"
    BY <1>15 DEF TypeOK, ExchangeFails, Goes, Redeems, CallsSound, Accepted, OneRedeemer
  <2>2. CASE f \in codeUsed' <=> f \in codeUsed
    <3>1. Redeeming(f)' = Redeeming(f)
      BY <1>3, <2>1 DEF Redeeming
    <3>2. StageOf(f)' = StageOf(f)
      BY <1>13, <2>2, <3>1
    <3> QED
      BY <1>4, <1>5, <2>1, <3>2 DEF Receive, Goes
  <2>3. CASE f \in codeUsed' /\ f \notin codeUsed
    BY <1>4, <1>5, <1>8, <1>10, <1>12, <2>1, <2>3 DEF Receive, Goes
  <2> QED
    BY <1>2, <2>2, <2>3
<1>16. CASE Profile(c) \/ Upsert(c)
  <2>1. call[c].stage \in {"profiling", "upserting"} /\ Redeems(c) /\ codeUsed' = codeUsed
    BY <1>16 DEF Profile, Upsert, Goes, Redeems
  <2>2. Redeems(c)'
    <3>1. CASE Profile(c)
      BY <3>1 DEF TypeOK, Profile, Goes, Redeems
    <3>2. CASE Upsert(c)
      <4>1. flow[f].account \in Accounts
        BY <1>1, <1>7, <2>1 DEF GrantsNamed
      <4>2. Ids(flow[f].account) \subseteq Nat \ {0}
        BY <4>1, IdFacts DEF TypeOK
      <4> QED
        BY <3>2, <4>2 DEF TypeOK, Upsert, Redeems
    <3> QED
      BY <1>16, <3>1, <3>2
  <2> QED
    BY <1>4, <1>5, <1>10, <1>13, <2>1, <2>2 DEF Receive, Goes
<1>17. CASE ProfileFails(c) \/ UpsertFails(c)
  <2>1. /\ Redeems(c) /\ ~ Redeems(c)' /\ codeUsed' = codeUsed
        /\ call[c].stage \in {"profiling", "upserting"}
    BY <1>17 DEF TypeOK, ProfileFails, UpsertFails, Goes, Redeems, OneRedeemer
  <2> QED
    BY <1>2, <1>4, <1>5, <1>7, <1>9, <1>12, <2>1 DEF Receive, Goes
<1>18. CASE Receive(c) \/ Lose(c)
  <2>1. ~ Redeems(c)' /\ codeUsed' = codeUsed
    BY <1>18 DEF TypeOK, Receive, Lose, Goes, Redeems
  <2>2. Receive(c) /\ call[c].uid # 0 => Redeems(c)
    BY DEF Receive, Goes, Redeems
  <2>3. CASE Redeems(c)
    BY <1>2, <1>4, <1>5, <1>7, <1>9, <1>12, <2>1, <2>3
  <2>4. CASE ~ Redeems(c)
    <3>1. Redeeming(f)' = Redeeming(f)
      BY <1>3, <2>1, <2>4 DEF Redeeming
    <3>2. StageOf(f)' = StageOf(f)
      BY <1>13, <2>1, <3>1
    <3> QED
      BY <1>4, <1>5, <2>2, <2>4, <3>2
  <2> QED
    BY <2>3, <2>4
<1> QED
  BY <1>14, <1>15, <1>16, <1>17, <1>18 DEF CallStep

\* A step of a call that does not set a session.
LEMMA PromiseCall ==
    ASSUME IInv, NEW c \in Calls, CallStep(c), ~ (Receive(c) /\ call[c].uid # 0)
    PROVE  Promise!Next \/ UNCHANGED Promise!vars
<1>1. c[1] \in Flows
  BY CallParts
<1>2. Sessions' = Sessions
  BY DEF CallStep, Exchange, ExchangeFails, Profile, ProfileFails, Upsert, UpsertFails,
         Receive, Lose, cookies, Sessions
<1>3. Consents' = [Consents EXCEPT ![c[1]].stage = StageOf(c[1])']
  BY <1>1, CallMoves, OneMoves
<1>4. Consents[c[1]] = ConsentOf(c[1]) /\ Consents[c[1]].stage = StageOf(c[1])
  BY <1>1 DEF Consents, ConsentOf
<1>5. CASE StageOf(c[1])' = StageOf(c[1])
  <2>1. ConsentOf(c[1])' = ConsentOf(c[1])
    BY <1>5, CallMoves DEF ConsentOf
  <2>2. Consents' = Consents
    BY <1>1, <2>1, CallMoves DEF Consents
  <2> QED
    BY <1>2, <2>2 DEF Promise!vars, Consents, Sessions
<1>6. CASE StageOf(c[1]) = "given" /\ StageOf(c[1])' = "redeeming"
  <2>1. Promise!Redeem(c[1])
    BY <1>2, <1>3, <1>4, <1>6 DEF Promise!Redeem, Promise!Moves, Consents, Sessions
  <2> QED
    BY <1>1, <2>1 DEF Promise!Next
<1>7. CASE StageOf(c[1]) \in {"given", "redeeming"} /\ StageOf(c[1])' = "spent"
  <2>1. Promise!Waste(c[1])
    BY <1>2, <1>3, <1>4, <1>7 DEF Promise!Waste, Promise!Moves, Consents, Sessions
  <2> QED
    BY <1>1, <2>1 DEF Promise!Next
<1> QED
  BY <1>5, <1>6, <1>7, CallMoves

\* The answer that carries the session opens it.
LEMMA PromiseOpen ==
    ASSUME IInv, NEW c \in Calls, Receive(c), call[c].uid # 0
    PROVE  Promise!Next
<1>1. c[1] \in Flows /\ CallStep(c) /\ call[c].stage = "answering"
  BY CallParts DEF CallStep, Receive, Goes
<1>2. Consents' = [Consents EXCEPT ![c[1]].stage = "spent"] /\ Consents[c[1]] = ConsentOf(c[1])
  BY <1>1, CallMoves, OneMoves DEF Consents
<1>3. Consents[c[1]].stage = "redeeming"
  <2>1. StageOf(c[1]) = "redeeming"
    BY <1>1, CallMoves
  <2> QED
    BY <1>2, <2>1 DEF ConsentOf
<1>4. /\ flow[c[1]].browser = call[c].browser /\ call[c].browser \in Browsers
      /\ flow[c[1]].account \in Accounts
  BY <1>1 DEF IInv, CallsSound, GrantsNamed, Accepted
<1>5. Consents[c[1]].browser = call[c].browser /\ Consents[c[1]].account = flow[c[1]].account
  BY <1>2, <1>4 DEF ConsentOf
<1>6. Sessions' = [Sessions EXCEPT ![call[c].browser] = c[1]]
  BY <1>4 DEF Receive, Sessions, IInv, TypeOK
<1>7. Promise!Open(c[1])
  BY <1>2, <1>3, <1>4, <1>5, <1>6 DEF Promise!Open, Promise!Moves, Consents, Sessions
<1> QED
  BY <1>1, <1>7 DEF Promise!Next

\* A login is begun.
LEMMA PromiseAsk ==
    ASSUME IInv, NEW b \in Browsers, NEW f \in Flows, HandleLogin(b, f)
    PROVE  Promise!Next
<1>1. /\ \A g \in Flows : g # f => flow'[g] = flow[g]
      /\ flow'[f] = [stage |-> "consent", browser |-> b, account |-> NoAccount]
      /\ flow[f].stage = "unused"
      /\ UNCHANGED <<session, codeUsed, call>>
  BY DEF IInv, TypeOK, HandleLogin
<1>2. \A g \in Flows : g # f => ConsentOf(g)' = ConsentOf(g)
  BY <1>1 DEF ConsentOf, StageOf, Redeems
<1>3. ConsentOf(f)' = [stage |-> "asked", browser |-> b, account |-> NoAccount]
  BY <1>1 DEF ConsentOf, StageOf
<1>4. Consents' = [Consents EXCEPT ![f] = [stage |-> "asked", browser |-> b,
                                           account |-> NoAccount]]
  BY <1>2, <1>3 DEF Consents
<1>5. Consents[f].stage = "none" /\ Sessions' = Sessions
  BY <1>1 DEF Consents, ConsentOf, StageOf, Sessions
<1>6. Promise!Ask(f, b)
  BY <1>4, <1>5 DEF Promise!Ask, Consents, Sessions
<1> QED
  BY <1>6 DEF Promise!Next

\* The consent page is answered.
LEMMA PromiseAnswered ==
    ASSUME IInv, NEW f \in Flows, Deny(f) \/ \E a \in Accounts : Grant(f, a)
    PROVE  Promise!Next
<1>1. /\ \A g \in Flows : g # f => flow'[g] = flow[g]
      /\ flow[f].stage = "consent"
      /\ f \notin codeUsed
      /\ UNCHANGED <<session, codeUsed, call>>
  BY DEF IInv, TypeOK, OneRedeemer, Deny, Grant, cookies
<1>2. \A g \in Flows : g # f => ConsentOf(g)' = ConsentOf(g)
  BY <1>1 DEF ConsentOf, StageOf, Redeems
<1>3. Consents[f] = ConsentOf(f) /\ Consents[f].stage = "asked" /\ Sessions' = Sessions
  BY <1>1 DEF Consents, ConsentOf, StageOf, Sessions
<1>4. CASE Deny(f)
  <2>1. /\ flow'[f].stage = "denied"
        /\ flow'[f].browser = flow[f].browser /\ flow'[f].account = flow[f].account
    BY <1>4 DEF Deny, IInv, TypeOK
  <2>2. ConsentOf(f)' = [ConsentOf(f) EXCEPT !.stage = "declined"]
    <3>1. StageOf(f)' = "declined"
      BY <2>1 DEF StageOf
    <3> QED
      BY <2>1, <3>1 DEF ConsentOf
  <2>3. Consents' = [Consents EXCEPT ![f].stage = "declined"]
    BY <1>2, <2>2, OneMoves
  <2>4. Promise!Decline(f)
    BY <1>3, <2>3 DEF Promise!Decline, Promise!Moves, Consents, Sessions
  <2> QED
    BY <2>4 DEF Promise!Next
<1>5. ASSUME NEW a \in Accounts, Grant(f, a) PROVE Promise!Next
  <2>1. flow'[f] = [stage |-> "granted", browser |-> flow[f].browser, account |-> a]
    BY <1>5 DEF Grant, IInv, TypeOK
  <2>2. ConsentOf(f)' = [stage |-> "given", browser |-> ConsentOf(f).browser,
                       account |-> a]
    <3>1. StageOf(f)' = "given"
      BY <1>1, <2>1 DEF StageOf
    <3> QED
      BY <2>1, <3>1 DEF ConsentOf
  <2>3. Consents' = [Consents EXCEPT ![f] = [stage |-> "given", browser |-> @.browser,
                                             account |-> a]]
    BY <1>2, <2>2 DEF Consents
  <2>4. Promise!Give(f, a)
    BY <1>3, <2>3 DEF Promise!Give, Consents, Sessions
  <2> QED
    BY <2>4 DEF Promise!Next
<1> QED
  BY <1>4, <1>5

\* Cookies that go, and callbacks that are loaded.
LEMMA PromiseLeave ==
    ASSUME IInv, NEW b \in Browsers, StateExpires(b) \/ HandleLogout(b)
    PROVE  Promise!Next \/ UNCHANGED Promise!vars
<1>1. Consents' = Consents
  BY DEF StateExpires, HandleLogout, Consents, ConsentOf, StageOf, Redeems
<1>2. CASE StateExpires(b)
  BY <1>1, <1>2 DEF StateExpires, Promise!vars, Consents
<1>3. CASE HandleLogout(b)
  <2>1. Sessions' = [Sessions EXCEPT ![b] = NoFlow]
    BY <1>3 DEF HandleLogout, Sessions, NoSession, IInv, TypeOK
  <2>2. Promise!Leave(b)
    BY <1>1, <2>1 DEF Promise!Leave, Consents, Sessions
  <2> QED
    BY <2>2 DEF Promise!Next
<1> QED
  BY <1>2, <1>3

\* Loading a callback address, refused or accepted, changes no consent yet.
LEMMA PromiseLoad ==
    ASSUME IInv, NEW c \in Calls, NEW b \in Browsers, Refuse(c, b) \/ Accept(c, b)
    PROVE  UNCHANGED Promise!vars
<1>1. /\ \A d \in Calls : d # c => call'[d] = call[d]
      /\ call[c].stage = "absent"
      /\ call'[c].stage \in {"over", "exchanging", "answering"} /\ call'[c].uid = 0
      /\ UNCHANGED <<session, flow, codeUsed>>
  BY DEF IInv, TypeOK, Refuse, Accept, Load, cookies
<1>2. \A d \in Calls : Redeems(d)' = Redeems(d)
  BY <1>1 DEF Redeems
<1>3. \A f \in Flows : ConsentOf(f)' = ConsentOf(f)
  BY <1>1, <1>2 DEF ConsentOf, StageOf
<1> QED
  BY <1>1, <1>3 DEF Promise!vars

\* Every step maps to a step of the promise or leaves it unchanged.
LEMMA PromiseStep == IInv /\ [Next]_vars => [Promise!Next]_(Promise!vars)
<1> SUFFICES ASSUME IInv, [Next]_vars PROVE Promise!Next \/ UNCHANGED Promise!vars
  OBVIOUS
<1>1. ASSUME NEW b \in Browsers, StateExpires(b) \/ HandleLogout(b)
      PROVE  Promise!Next \/ UNCHANGED Promise!vars
  BY <1>1, PromiseLeave
<1>2. ASSUME NEW b \in Browsers, NEW f \in Flows, HandleLogin(b, f)
      PROVE  Promise!Next \/ UNCHANGED Promise!vars
  BY <1>2, PromiseAsk
<1>3. ASSUME NEW f \in Flows, Deny(f) \/ \E a \in Accounts : Grant(f, a)
      PROVE  Promise!Next \/ UNCHANGED Promise!vars
  BY <1>3, PromiseAnswered
<1>4. ASSUME NEW c \in Calls, NEW b \in Browsers, Refuse(c, b) \/ Accept(c, b)
      PROVE  Promise!Next \/ UNCHANGED Promise!vars
  BY <1>4, PromiseLoad
<1>5. ASSUME NEW c \in Calls, CallStep(c) PROVE Promise!Next \/ UNCHANGED Promise!vars
  BY <1>5, PromiseCall, PromiseOpen
<1>6. CASE UNCHANGED vars
  BY <1>6 DEF vars, Promise!vars, ConsentOf, StageOf, Redeems
<1> QED
  BY <1>1, <1>2, <1>3, <1>4, <1>5, <1>6 DEF Next

\* oauth.go:82-278: every behaviour of cookies, tabs, reloads and failing calls
\* is one the promise allows; a consent opens at most one session, in the
\* browser that asked for it.
THEOREM ConsentImplemented == Spec => ImplementsConsent
<1>1. Spec => Promise!Init /\ [][Promise!Next]_(Promise!vars)
  BY PromiseInit, PromiseStep, InvHolds, PTL DEF Spec
<1> QED
  BY <1>1 DEF ImplementsConsent, Promise!Spec

\* A used consent opens no second session (oauth.go:133-253).
THEOREM SpentOpensNothingHolds == Spec => SpentOpensNothing
<1>1. IInv /\ [Next]_vars => [SpentKept]_vars
  <2> SUFFICES ASSUME IInv, [Next]_vars,
                      NEW f \in Flows, StageOf(f) \in {"declined", "spent"}
               PROVE  /\ StageOf(f)' = StageOf(f)
                      /\ \A b \in Browsers : session'[b].flow = f => session[b].flow = f
    BY DEF SpentKept
  <2>1. /\ Consents[f].stage = StageOf(f)
        /\ Consents'[f].stage = StageOf(f)'
        /\ \A b \in Browsers : Sessions[b] = session[b].flow /\ Sessions'[b] = session'[b].flow
    BY DEF Consents, ConsentOf, Sessions
  <2>2. f # NoFlow
    BY NoneAssumption
  <2>3. CASE UNCHANGED Promise!vars
    BY <2>1, <2>3 DEF Promise!vars, Consents, Sessions
  <2>4. ASSUME NEW g \in Flows,
               \/ \E b \in Browsers : Promise!Ask(g, b)
               \/ \E a \in Accounts : Promise!Give(g, a)
               \/ Promise!Decline(g) \/ Promise!Redeem(g) \/ Promise!Waste(g) \/ Promise!Open(g)
        PROVE  /\ Consents'[f].stage = Consents[f].stage
               /\ \A b \in Browsers : Sessions'[b] = f => Sessions[b] = f
    <3>1. Consents[g].stage \in {"none", "asked", "given", "redeeming"}
      BY <2>4 DEF Promise!Ask, Promise!Give, Promise!Decline, Promise!Redeem, Promise!Waste,
                  Promise!Open, Promise!Moves, Consents
    <3>2. g # f
      BY <2>1, <3>1
    <3>3. Consents'[f] = Consents[f]
      BY <2>4, <3>2 DEF Promise!Ask, Promise!Give, Promise!Decline, Promise!Redeem, Promise!Waste,
                  Promise!Open, Promise!Moves, Consents
    <3>4. \A b \in Browsers : Sessions'[b] \in {Sessions[b], g}
      BY <2>4 DEF Promise!Ask, Promise!Give, Promise!Decline, Promise!Redeem, Promise!Waste,
                  Promise!Open, Promise!Moves, Sessions
    <3> QED
      BY <3>2, <3>3, <3>4
  <2>5. ASSUME NEW d \in Browsers, Promise!Leave(d)
        PROVE  /\ Consents'[f].stage = Consents[f].stage
               /\ \A b \in Browsers : Sessions'[b] = f => Sessions[b] = f
    BY <2>2, <2>5 DEF Promise!Leave, Consents, Sessions
  <2>6. Promise!Next \/ UNCHANGED Promise!vars
    BY PromiseStep
  <2> QED
    BY <2>1, <2>3, <2>4, <2>5, <2>6 DEF Promise!Next
<1> QED
  BY <1>1, InvHolds, PTL DEF Spec, SpentOpensNothing
=============================================================================
