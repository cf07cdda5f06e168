-------------------------- MODULE RepoCountProofs --------------------------
(***************************************************************************)
(* Proofs about RepoCount, for every month, page size and history of the   *)
(* user.  IInv is inductive: it ties the page a run holds to the point of  *)
(* the user's history it was taken at, so that what is created during the  *)
(* loop is known to be newer than the month.                               *)
(***************************************************************************)
EXTENDS RepoCount, FiniteSetTheorems, TLAPS

\* Smaller is the minimum of two numbers.
LEMMA SmallerFacts ==
    ASSUME NEW m \in Nat, NEW n \in Nat
    PROVE  /\ Smaller(m, n) \in Nat
           /\ Smaller(m, n) <= m
           /\ Smaller(m, n) <= n
           /\ Smaller(m, n) = m \/ Smaller(m, n) = n
BY DEF Smaller

\* The page of a history: its newest entries, newest first.
LEMMA PageFacts ==
    ASSUME NEW s \in Seq(Nat)
    PROVE  /\ Page(s) \in Seq(Nat)
           /\ Len(Page(s)) = Smaller(Len(s), PageSize)
           /\ \A k \in DOMAIN Page(s) : Page(s)[k] = s[Len(s) + 1 - k]
<1> DEFINE n == Smaller(Len(s), PageSize)
<1>1. n \in Nat /\ n <= Len(s)
  <2>1. Len(s) \in Nat /\ PageSize \in Nat
    BY PageSizeAssumption
  <2> QED
    BY <2>1, SmallerFacts
<1>2. \A k \in 1 .. n : s[Len(s) + 1 - k] \in Nat
  BY <1>1
<1> QED
  BY <1>1, <1>2 DEF Page

\* The initial state satisfies the invariant.
LEMMA InitIInv == Init => IInv
BY DEF Init, IInv, TypeOK, OldestFirst, PageOfThePast, BusyAfterTheMonth, CountedSoFar, StoppedForAReason

\* Every step keeps the invariant.
LEMMA StepIInv == IInv /\ [Next]_vars => IInv'
<1> SUFFICES ASSUME IInv, [Next]_vars PROVE IInv'
  OBVIOUS
<1> USE DEF IInv
<1>1. CASE Tick
  <2> USE <1>1 DEF Tick
  <2>1. TypeOK'
    BY DEF TypeOK
  <2>2. OldestFirst'
    <3>1. \A k \in DOMAIN repos : repos[k] \in Nat
      BY DEF TypeOK
    <3> QED
      BY <3>1 DEF TypeOK, OldestFirst
  <2>3. PageOfThePast'
    BY DEF PageOfThePast, PageOf
  <2>4. BusyAfterTheMonth' /\ CountedSoFar' /\ StoppedForAReason'
    BY MonthAssumption DEF TypeOK, BusyAfterTheMonth, CountedSoFar, StoppedForAReason
  <2> QED
    BY <2>1, <2>2, <2>3, <2>4
<1>2. CASE CreateRepository
  <2> USE <1>2 DEF CreateRepository
  <2>1. /\ Len(repos') = Len(repos) + 1
        /\ repos'[Len(repos) + 1] = clock
        /\ \A k \in 1 .. Len(repos) : repos'[k] = repos[k]
    BY DEF TypeOK
  <2>2. TypeOK'
    BY DEF TypeOK
  <2>3. OldestFirst'
    BY <2>1 DEF TypeOK, OldestFirst
  <2>4. PageOfThePast'
    <3> SUFFICES ASSUME pc # "idle" PROVE \E n \in 0 .. Len(repos') : PageOf(n)'
      BY DEF PageOfThePast
    <3>1. PICK n \in 0 .. Len(repos) : PageOf(n)
      BY DEF PageOfThePast
    <3>2. clock > To
      BY DEF BusyAfterTheMonth
    <3>3. PageOf(n)'
      <4>1. Len(nodes) <= n
        BY <3>1, SmallerFacts, PageSizeAssumption DEF PageOf
      <4>2. \A k \in DOMAIN nodes : n + 1 - k \in 1 .. Len(repos)
        BY <4>1 DEF TypeOK
      <4>3. \A k \in DOMAIN nodes : nodes[k] = repos'[n + 1 - k]
        BY <2>1, <3>1, <4>2 DEF PageOf
      <4>4. \A k \in DOMAIN repos' : k > n => repos'[k] > To
        BY <2>1, <3>1, <3>2 DEF PageOf, TypeOK
      <4> QED
        BY <3>1, <4>3, <4>4 DEF PageOf
    <3> QED
      BY <2>1, <3>3 DEF TypeOK
  <2>5. BusyAfterTheMonth' /\ CountedSoFar' /\ StoppedForAReason'
    BY DEF BusyAfterTheMonth, CountedSoFar, StoppedForAReason
  <2> QED
    BY <2>2, <2>3, <2>4, <2>5
<1>3. CASE Query
  <2> USE <1>3 DEF Query
  <2>1. TypeOK'
    BY PageFacts DEF TypeOK
  <2>2. OldestFirst'
    BY DEF OldestFirst
  <2>3. PageOf(Len(repos))'
    BY PageFacts DEF PageOf, TypeOK
  <2>4. PageOfThePast'
    BY <2>3 DEF PageOfThePast, TypeOK
  <2>5. BusyAfterTheMonth' /\ CountedSoFar' /\ StoppedForAReason'
    BY <2>1 DEF BusyAfterTheMonth, CountedSoFar, StoppedForAReason, TypeOK
  <2> QED
    BY <2>1, <2>2, <2>4, <2>5
<1>4. CASE Count
  BY <1>4, MonthAssumption DEF Count, Outside, TypeOK, OldestFirst, PageOfThePast, PageOf, BusyAfterTheMonth,
                               CountedSoFar, StoppedForAReason
<1>5. CASE Break
  BY <1>5, MonthAssumption DEF Break, Outside, TypeOK, OldestFirst, PageOfThePast, PageOf, BusyAfterTheMonth,
                               CountedSoFar, StoppedForAReason
<1>6. CASE EndOfPage
  BY <1>6 DEF EndOfPage, TypeOK, OldestFirst, PageOfThePast, PageOf, BusyAfterTheMonth, CountedSoFar, StoppedForAReason
<1>7. CASE RunAgain
  BY <1>7 DEF RunAgain, TypeOK, OldestFirst, PageOfThePast, PageOf, BusyAfterTheMonth, CountedSoFar, StoppedForAReason
<1>8. CASE UNCHANGED vars
  BY <1>8 DEF vars, TypeOK, OldestFirst, PageOfThePast, PageOf, BusyAfterTheMonth, CountedSoFar, StoppedForAReason
<1> QED
  BY <1>1, <1>2, <1>3, <1>4, <1>5, <1>6, <1>7, <1>8 DEF Next

-----------------------------------------------------------------------------

\* What the invariant says about a run that holds a page: its count is the size
\* of an interval of the user's history, all of it in the month.
LEMMA CountedInterval ==
    ASSUME IInv, pc # "idle",
           NEW n \in 0 .. Len(repos), PageOf(n)
    PROVE  /\ (n + 2 - next) .. n \subseteq OfMonth
           /\ Cardinality((n + 2 - next) .. n) = reposCreated
<1>1. next \in Nat /\ next >= 1 /\ next - 1 <= Len(nodes) /\ Len(nodes) <= n
  BY SmallerFacts, PageSizeAssumption DEF IInv, TypeOK, CountedSoFar, PageOf
<1>2. ASSUME NEW k \in (n + 2 - next) .. n PROVE k \in OfMonth
  <2> DEFINE i == n + 1 - k
  <2>1. i \in DOMAIN nodes /\ i < next /\ k \in DOMAIN repos
    BY <1>1 DEF IInv, TypeOK
  <2>2. nodes[i] \in From .. To
    BY <2>1 DEF IInv, CountedSoFar
  <2>3. nodes[i] = repos[k]
    BY <2>1 DEF PageOf
  <2> QED
    BY <2>1, <2>2, <2>3 DEF OfMonth
<1>3. Cardinality((n + 2 - next) .. n) = next - 1
  BY <1>1, FS_Interval
<1> QED
  BY <1>2, <1>3 DEF IInv, CountedSoFar

\* The user's repositories of a month are finitely many.
LEMMA OfMonthFinite == ASSUME IInv PROVE IsFiniteSet(OfMonth)
<1>1. OfMonth \subseteq 1 .. Len(repos)
  BY DEF OfMonth, IInv, TypeOK
<1>2. IsFiniteSet(1 .. Len(repos))
  BY FS_Interval DEF IInv, TypeOK
<1> QED
  BY <1>1, <1>2, FS_Subset

\* The invariant implies the lower bound.
LEMMA BoundFromIInv == IInv => NeverOvercounts
<1> SUFFICES ASSUME IInv, pc # "idle" PROVE reposCreated <= Cardinality(OfMonth)
  BY DEF NeverOvercounts
<1>1. PICK n \in 0 .. Len(repos) : PageOf(n)
  BY DEF IInv, PageOfThePast
<1> DEFINE I == (n + 2 - next) .. n
<1>2. I \subseteq OfMonth /\ Cardinality(I) = reposCreated
  BY <1>1, CountedInterval
<1>3. Cardinality(I) <= Cardinality(OfMonth)
  BY <1>2, OfMonthFinite, FS_Subset
<1> QED
  BY <1>2, <1>3

\* The invariant implies that a finished count is all or nothing.
LEMMA AllOrNothingFromIInv == IInv => AllOrNothing
<1> SUFFICES ASSUME IInv, pc = "done"
             PROVE  reposCreated = IF NewerOnPage THEN 0
                                   ELSE Smaller(Cardinality(OfMonth), PageSize)
  BY DEF AllOrNothing
<1>1. PICK n \in 0 .. Len(repos) : PageOf(n)
  BY DEF IInv, PageOfThePast
<1> DEFINE I == (n + 2 - next) .. n
<1>2. I \subseteq OfMonth /\ Cardinality(I) = reposCreated
  BY <1>1, CountedInterval
<1>3. /\ next \in Nat /\ next >= 1 /\ next <= Len(nodes) + 1 /\ Len(nodes) <= n
      /\ Len(nodes) = Smaller(n, PageSize)
      /\ n \in Nat /\ n <= Len(repos) /\ PageSize \in Nat /\ PageSize > 0
      /\ reposCreated = next - 1
      /\ DOMAIN nodes = 1 .. Len(nodes) /\ DOMAIN repos = 1 .. Len(repos)
      /\ \A k \in DOMAIN nodes : nodes[k] = repos[n + 1 - k]
  BY <1>1, SmallerFacts, PageSizeAssumption DEF IInv, TypeOK, CountedSoFar, PageOf
<1>4. \A k \in DOMAIN repos : repos[k] \in Nat
  BY DEF IInv, TypeOK
<1>5. CASE NewerOnPage
  <2>1. PICK k \in DOMAIN nodes : nodes[k] > To
    BY <1>5 DEF NewerOnPage
  <2>2. n + 1 - k \in DOMAIN repos /\ n \in DOMAIN repos /\ 1 \in DOMAIN nodes /\ nodes[1] = repos[n]
    BY <1>3
  <2>3. repos[n + 1 - k] <= repos[n]
    BY <1>3, <2>2 DEF IInv, OldestFirst
  <2>4. nodes[1] \notin From .. To
    BY <1>3, <1>4, <2>1, <2>2, <2>3, MonthAssumption
  <2>5. ~ (1 < next)
    BY <2>2, <2>4 DEF IInv, CountedSoFar
  <2> QED
    BY <1>3, <1>5, <2>5
<1>6. CASE ~ NewerOnPage /\ next <= Len(nodes)
  <2> DEFINE last == n + 1 - next
  <2>1. next \in DOMAIN nodes /\ last \in DOMAIN repos /\ nodes[next] = repos[last]
    BY <1>3, <1>6
  <2>2. repos[last] < From
    <3>1. nodes[next] \notin From .. To
      BY <1>6 DEF IInv, StoppedForAReason
    <3>2. ~ (nodes[next] > To)
      BY <1>6, <2>1 DEF NewerOnPage
    <3> QED
      BY <1>4, <2>1, <3>1, <3>2, MonthAssumption
  <2>3. ASSUME NEW k \in OfMonth PROVE k \in I
    <3>1. k \in DOMAIN repos /\ repos[k] \in From .. To
      BY DEF OfMonth
    <3>2. k <= n
      BY <1>1, <1>3, <3>1, MonthAssumption DEF PageOf
    <3>3. ~ (k <= last)
      <4>1. k <= last => repos[k] <= repos[last]
        BY <2>1, <3>1 DEF IInv, OldestFirst
      <4> QED
        BY <1>4, <2>1, <2>2, <3>1, <4>1, MonthAssumption
    <3> QED
      BY <1>3, <3>1, <3>2, <3>3
  <2>4. OfMonth = I
    BY <1>2, <2>3
  <2>5. Cardinality(OfMonth) = next - 1
    BY <1>2, <1>3, <2>4
  <2>6. next - 1 <= PageSize
    BY <1>3, <1>6, SmallerFacts
  <2> QED
    BY <1>3, <1>6, <2>5, <2>6 DEF Smaller
<1>7. CASE ~ NewerOnPage /\ next > Len(nodes)
  <2>1. reposCreated = Smaller(n, PageSize)
    BY <1>3, <1>7
  <2>2. reposCreated <= Cardinality(OfMonth) /\ Cardinality(OfMonth) \in Nat
    BY BoundFromIInv, OfMonthFinite, FS_CardinalityType DEF NeverOvercounts
  <2>3. CASE n <= PageSize
    <3>1. I = 1 .. n
      BY <1>3, <1>7, <2>3, <2>1 DEF Smaller
    <3>2. OfMonth \subseteq 1 .. n
      BY <1>1, <1>3, MonthAssumption DEF OfMonth, PageOf
    <3>3. OfMonth = I
      BY <1>2, <3>1, <3>2
    <3>4. Cardinality(OfMonth) = reposCreated
      BY <1>2, <3>3
    <3> QED
      BY <1>3, <1>7, <2>1, <2>3, <3>4 DEF Smaller
  <2>4. CASE n > PageSize
    BY <1>3, <1>7, <2>1, <2>2, <2>4 DEF Smaller
  <2> QED
    BY <1>3, <2>3, <2>4
<1> QED
  BY <1>3, <1>5, <1>6, <1>7

-----------------------------------------------------------------------------

\* The invariant holds in every reachable state.
THEOREM InvHolds == Spec => []IInv
BY InitIInv, StepIInv, PTL DEF Spec

\* client.go:54-60: no moment of any run counts a repository of another month.
THEOREM NeverOvercountsHolds == Spec => []NeverOvercounts
BY InvHolds, BoundFromIInv, PTL

\* client.go:53-60: the count is the month's as far as the page goes, or 0 when
\* something newer than the month is on the page.
THEOREM AllOrNothingHolds == Spec => []AllOrNothing
BY InvHolds, AllOrNothingFromIInv, PTL
=============================================================================
