------------------------- MODULE TargetMonthProofs -------------------------
(***************************************************************************)
(* Proofs about TargetMonth, for every calendar and every number a request *)
(* may carry.  Months are put on one line by Index; the calendar functions *)
(* are shown to be steps on that line, the invariants follow from there.   *)
(***************************************************************************)
EXTENDS TargetMonth, TLAPS

\* Months are determined by their place on the line.
LEMMA IndexInjective ==
    ASSUME NEW m \in Month, NEW n \in Month, Index(m) = Index(n)
    PROVE  m = n
<1>1. m.year = n.year /\ m.month = n.month
  BY DEF Month, Index
<1> QED
  BY <1>1 DEF Month

\* time.Date moves along the line.
LEMMA DateFacts ==
    ASSUME NEW y \in Int, NEW m \in 0 .. 13
    PROVE  /\ Date(y, m) \in Month
           /\ Index(Date(y, m)) = 12 * y + m
           /\ m \in 1 .. 12 => Date(y, m) = [year |-> y, month |-> m]
BY DEF Date, Month, Index

\* The default month is one step back, the window ends one step on, and the
\* growth is measured one step back.
LEMMA CalendarSteps ==
    ASSUME NEW m \in Month
    PROVE  /\ PreviousMonth(m) \in Month /\ Index(PreviousMonth(m)) = Index(m) - 1
           /\ WindowEnd(m) \in Month /\ Index(WindowEnd(m)) = Index(m) + 1
           /\ BaseMonth(m) \in Month /\ Index(BaseMonth(m)) = Index(m) - 1
<1>1. m.year \in Int /\ m.month \in 1 .. 12
  BY DEF Month
<1>2. WindowEnd(m) \in Month /\ Index(WindowEnd(m)) = Index(m) + 1
  <2>1. m.month + 1 \in 0 .. 13
    BY <1>1
  <2>2. WindowEnd(m) \in Month /\ Index(WindowEnd(m)) = 12 * m.year + (m.month + 1)
    BY <1>1, <2>1, DateFacts DEF WindowEnd
  <2> QED
    BY <1>1, <2>2 DEF Index
<1>3. BaseMonth(m) \in Month /\ Index(BaseMonth(m)) = Index(m) - 1
  <2>1. m.month - 1 \in 0 .. 13
    BY <1>1
  <2>2. BaseMonth(m) \in Month /\ Index(BaseMonth(m)) = 12 * m.year + (m.month - 1)
    BY <1>1, <2>1, DateFacts DEF BaseMonth
  <2> QED
    BY <1>1, <2>2 DEF Index
<1>4. CASE m.month - 1 <= 0
  <2>1. m.month + 11 = 12
    BY <1>1, <1>4
  <2>2. PreviousMonth(m) = Date(m.year - 1, 12)
    BY <1>4, <2>1 DEF PreviousMonth
  <2>3. /\ Date(m.year - 1, 12) \in Month
        /\ Index(Date(m.year - 1, 12)) = 12 * (m.year - 1) + 12
    <3>1. m.year - 1 \in Int /\ 12 \in 0 .. 13
      BY <1>1
    <3> QED
      BY <3>1, DateFacts
  <2> QED
    BY <1>1, <1>2, <1>3, <2>1, <2>2, <2>3 DEF Index
<1>5. CASE ~ (m.month - 1 <= 0)
  <2>1. m.month - 1 \in 0 .. 13
    BY <1>1
  <2>2. PreviousMonth(m) = Date(m.year, m.month - 1)
    BY <1>5 DEF PreviousMonth
  <2>3. /\ Date(m.year, m.month - 1) \in Month
        /\ Index(Date(m.year, m.month - 1)) = 12 * m.year + (m.month - 1)
    BY <1>1, <2>1, DateFacts
  <2> QED
    BY <1>1, <1>2, <1>3, <2>2, <2>3 DEF Index
<1> QED
  BY <1>4, <1>5

\* What the parameters of a named month are.
LEMMA NamedMonth ==
    ASSUME NEW r \in Request, IsMonth(r)
    PROVE  /\ r.year.value \in Int
           /\ r.month.value \in 1 .. 12
           /\ Date(r.year.value, r.month.value)
                 = [year |-> r.year.value, month |-> r.month.value]
           /\ Date(r.year.value, r.month.value) \in Month
<1>1. r.year \in Params /\ r.month \in Params
  BY DEF Request
<1>2. r.year.value \in Int
  <2>1. r.year.kind = "number"
    BY DEF IsMonth
  <2>2. r.year \in [kind : {"number"}, value : Numbers]
    BY <1>1, <2>1 DEF Params, Absent, Garbage
  <2> QED
    BY <2>2, NumbersAssumption
<1>3. r.month.value \in 1 .. 12 /\ r.month.value \in 0 .. 13
  BY DEF IsMonth
<1> QED
  BY <1>2, <1>3, DateFacts

\* The initial state satisfies the invariant.
LEMMA InitIInv == Init => IInv
<1> SUFFICES ASSUME Init PROVE IInv
  OBVIOUS
<1>1. TypeOK
  BY FirstMonthAssumption DEF Init, TypeOK, Call, Request, Params, Nothing
<1>2. ReportsDerived /\ Waiting /\ RunningMonthRefused
  BY DEF Init, ReportsDerived, Waiting, Answered, RunningMonthRefused
<1>3. FinishedMonthsServed
  BY DEF Init, FinishedMonthsServed, Nothing, IsGiven
<1> QED
  BY <1>1, <1>2, <1>3 DEF IInv

\* A request that reaches a state with a well-formed month keeps the types.
LEMMA ReachType ==
    ASSUME TypeOK, NEW r \in Request, NEW s \in Month, NEW m \in Month,
           NEW state \in {"none", "yearPassed", "refused", "served"},
           Reach(r, s, state, m)
    PROVE  TypeOK'
BY DEF TypeOK, Reach, Call

\* Every step keeps the invariant.
LEMMA StepIInv == IInv /\ [Next]_vars => IInv'
<1> SUFFICES ASSUME IInv, [Next]_vars PROVE IInv'
  OBVIOUS
<1>0. clock \in Month /\ clock.year \in Int /\ clock.month \in 1 .. 12 /\ call \in Call
  BY DEF IInv, TypeOK, Month
<1>1. CASE MonthTurns
  <2> USE <1>1 DEF MonthTurns
  <2>1. clock' \in Month /\ Index(clock') = Index(clock) + 1
    <3>1. clock.month + 1 \in 0 .. 13
      BY <1>0
    <3>2. clock' \in Month /\ Index(clock') = 12 * clock.year + (clock.month + 1)
      BY <1>0, <3>1, DateFacts
    <3> QED
      BY <1>0, <3>2 DEF Index
  <2>2. Waiting'
    <3>1. Index(call.since) \in Int /\ Index(clock) \in Int
      BY <1>0 DEF Call, Month, Index
    <3> QED
      BY <2>1, <3>1 DEF IInv, Waiting, Answered
  <2> QED
    BY <2>1, <2>2 DEF IInv, TypeOK, ReportsDerived, RunningMonthRefused,
                      FinishedMonthsServed, Answered
<1>2. CASE MakeReport
  <2> USE <1>2
  <2> DEFINE m == PreviousMonth(clock)
             r == [at |-> clock, target |-> m, end |-> WindowEnd(m), base |-> BaseMonth(m)]
  <2>1. r \in Report
    BY <1>0, CalendarSteps DEF Report
  <2>2. reports' = Append(reports, r) /\ UNCHANGED <<clock, call>>
    BY DEF MakeReport
  <2>3. TypeOK'
    BY <2>1, <2>2 DEF IInv, TypeOK
  <2>4. ReportsDerived'
    <3>1. /\ DOMAIN reports' = 1 .. Len(reports) + 1
          /\ reports'[Len(reports) + 1] = r
          /\ \A i \in 1 .. Len(reports) : i \in DOMAIN reports /\ reports'[i] = reports[i]
      BY <2>1, <2>2 DEF IInv, TypeOK
    <3> HIDE DEF r
    <3>2. /\ r.target = PreviousMonth(r.at)
          /\ r.end = WindowEnd(r.target)
          /\ r.base = BaseMonth(r.target)
      BY DEF r
    <3>3. ASSUME NEW i \in DOMAIN reports'
          PROVE  /\ reports'[i].target = PreviousMonth(reports'[i].at)
                 /\ reports'[i].end = WindowEnd(reports'[i].target)
                 /\ reports'[i].base = BaseMonth(reports'[i].target)
      <4>1. CASE i = Len(reports) + 1
        BY <3>1, <3>2, <4>1
      <4>2. CASE i \in 1 .. Len(reports)
        BY <3>1, <4>2 DEF IInv, ReportsDerived
      <4> QED
        BY <3>1, <4>1, <4>2 DEF IInv, TypeOK
    <3> QED
      BY <3>3 DEF ReportsDerived
  <2> QED
    BY <2>2, <2>3, <2>4 DEF IInv, Waiting, RunningMonthRefused, FinishedMonthsServed, Answered
<1>3. ASSUME NEW r \in Request, AskDefault(r) PROVE IInv'
  <2>1. Reach(r, clock, "served", PreviousMonth(clock))
    BY <1>3 DEF AskDefault
  <2>2. TypeOK'
    BY <1>0, <2>1, ReachType, CalendarSteps DEF IInv
  <2>3. PreviousMonth(clock) # clock
    BY <1>0, CalendarSteps DEF Index
  <2> QED
    BY <1>3, <2>1, <2>2, <2>3 DEF IInv, AskDefault, Reach, ReportsDerived, Waiting,
                                  RunningMonthRefused, FinishedMonthsServed, Answered
<1>4. ASSUME NEW r \in Request, AskInvalid(r) PROVE IInv'
  <2>1. Reach(r, clock, "refused", clock)
    BY <1>4 DEF AskInvalid
  <2>2. TypeOK'
    BY <1>0, <2>1, ReachType DEF IInv
  <2> QED
    BY <1>4, <2>1, <2>2 DEF IInv, AskInvalid, Reach, ReportsDerived, Waiting,
                            RunningMonthRefused, FinishedMonthsServed, Answered
<1>5. ASSUME NEW r \in Request, AskEarlierYear(r) PROVE IInv'
  <2> DEFINE m == [year |-> r.year.value, month |-> r.month.value]
  <2>1. Reach(r, clock, "served", m) /\ m \in Month /\ m.year < clock.year
    BY <1>5, NamedMonth DEF AskEarlierYear
  <2>2. TypeOK'
    BY <1>0, <2>1, ReachType DEF IInv
  <2>3. m # clock
    BY <1>0, <2>1
  <2> HIDE DEF m
  <2>4. /\ call'.state = "served" /\ call'.target = m /\ call'.at = clock
        /\ call'.asked = r /\ UNCHANGED <<clock, reports>>
    BY <2>1 DEF Reach
  <2>5. FinishedMonthsServed'
    BY <2>4 DEF FinishedMonthsServed, m
  <2> QED
    BY <2>2, <2>3, <2>4, <2>5 DEF IInv, ReportsDerived, Waiting, RunningMonthRefused, Answered
<1>6. ASSUME NEW r \in Request, AskOtherYear(r) PROVE IInv'
  <2>1. Reach(r, clock, "yearPassed", clock)
    BY <1>6 DEF AskOtherYear
  <2>2. TypeOK'
    BY <1>0, <2>1, ReachType DEF IInv
  <2>3. Waiting'
    BY <1>0, <1>6, <2>1 DEF Waiting, AskOtherYear, Reach, Index
  <2> QED
    BY <2>1, <2>2, <2>3 DEF IInv, Reach, ReportsDerived, RunningMonthRefused,
                            FinishedMonthsServed, Answered
<1>7. CASE CompareMonth
  <2> DEFINE r == call.asked
             s == call.since
             m == [year |-> r.year.value, month |-> r.month.value]
  <2>1. /\ IsGiven(r) /\ IsMonth(r) /\ r \in Request
        /\ r.year.value >= s.year /\ Index(s) <= Index(clock)
        /\ s \in Month /\ s.year \in Int /\ s.month \in 1 .. 12
    BY <1>0, <1>7 DEF CompareMonth, IInv, Waiting, Answered, Call, Month
  <2>2. m \in Month /\ m = Date(r.year.value, r.month.value)
        /\ r.year.value \in Int /\ r.month.value \in 1 .. 12
    BY <2>1, NamedMonth
  <2>3. CASE Refused(r.month.value)
    <3>1. Reach(r, s, "refused", clock)
      BY <1>7, <2>3 DEF CompareMonth
    <3>2. TypeOK'
      BY <1>0, <2>1, <3>1, ReachType DEF IInv
    <3>3. ~ (Index(m) < Index(s) /\ s.year = clock.year)
      BY <1>0, <2>1, <2>2, <2>3 DEF Refused, Index
    <3>4. FinishedMonthsServed'
      BY <3>1, <3>3 DEF Reach, FinishedMonthsServed
    <3> QED
      BY <3>1, <3>2, <3>4 DEF IInv, Reach, ReportsDerived, Waiting, RunningMonthRefused, Answered
  <2>4. CASE ~ Refused(r.month.value)
    <3>1. Reach(r, s, "served", m)
      BY <1>7, <2>2, <2>4 DEF CompareMonth
    <3>2. TypeOK'
      BY <1>0, <2>1, <2>2, <3>1, ReachType DEF IInv
    <3>3. m # clock
      BY <1>0, <2>2, <2>4 DEF Refused
    <3>4. FinishedMonthsServed'
      BY <3>1 DEF Reach, FinishedMonthsServed
    <3> QED
      BY <3>1, <3>2, <3>3, <3>4 DEF IInv, Reach, ReportsDerived, Waiting, RunningMonthRefused, Answered
  <2> QED
    BY <2>3, <2>4
<1>8. CASE UNCHANGED vars
  BY <1>8 DEF IInv, vars, TypeOK, ReportsDerived, Waiting, RunningMonthRefused,
              FinishedMonthsServed, Answered
<1> QED
  BY <1>1, <1>2, <1>3, <1>4, <1>5, <1>6, <1>7, <1>8 DEF Next

\* The invariant implies that reports chain.
LEMMA ChainFromIInv == IInv => ReportsChain
<1> SUFFICES ASSUME IInv, NEW i \in DOMAIN reports, NEW j \in DOMAIN reports
             PROVE  LET r == reports[i]
                        s == reports[j]
                    IN  /\ Index(s.at) = Index(r.at) => s.target = r.target
                        /\ Index(s.at) = Index(r.at) + 1
                              => s.base = r.target /\ r.end = s.target
  BY DEF ReportsChain
<1> DEFINE r == reports[i]
           s == reports[j]
<1>1. r \in Report /\ s \in Report
  BY DEF IInv, TypeOK
<1>2. /\ r.target = PreviousMonth(r.at) /\ r.end = WindowEnd(r.target)
      /\ s.target = PreviousMonth(s.at) /\ s.base = BaseMonth(s.target)
  BY DEF IInv, ReportsDerived
<1> HIDE DEF r, s
<1>3. /\ r.at \in Month /\ s.at \in Month /\ r.target \in Month /\ s.target \in Month
      /\ r.end \in Month /\ s.base \in Month
  BY <1>1 DEF Report
<1>4. /\ Index(r.target) = Index(r.at) - 1
      /\ Index(s.target) = Index(s.at) - 1
      /\ Index(r.end) = Index(r.target) + 1
      /\ Index(s.base) = Index(s.target) - 1
  BY <1>2, <1>3, CalendarSteps
<1>5. \A m \in Month : Index(m) \in Int
  BY DEF Index, Month
<1>6. ASSUME Index(s.at) = Index(r.at) PROVE s.target = r.target
  BY <1>3, <1>4, <1>6, IndexInjective
<1>7. ASSUME Index(s.at) = Index(r.at) + 1 PROVE s.base = r.target /\ r.end = s.target
  <2>1. Index(s.base) = Index(r.target) /\ Index(r.end) = Index(s.target)
    BY <1>3, <1>4, <1>5, <1>7
  <2> QED
    BY <1>3, <2>1, IndexInjective
<1> QED
  BY <1>6, <1>7 DEF r, s

-----------------------------------------------------------------------------

\* The invariant holds in every reachable state.
THEOREM InvHolds == Spec => []IInv
BY InitIInv, StepIInv, PTL DEF Spec

\* controller.go:241-253, collector.go:62-70: over any number of years,
\* consecutive reports join and each is compared with the one before it.
THEOREM ReportsChainHolds == Spec => []ReportsChain
BY InvHolds, ChainFromIInv, PTL

\* controller.go:235-239: the running month is never served, whatever is asked
\* and however the calendar turns between the two readings of the clock.
THEOREM RunningMonthRefusedHolds == Spec => []RunningMonthRefused
<1>1. IInv => RunningMonthRefused
  BY DEF IInv
<1> QED
  BY <1>1, InvHolds, PTL

\* controller.go:232-240: every finished month is served when asked for by name,
\* unless the year turns during the request.
THEOREM FinishedMonthsServedHolds == Spec => []FinishedMonthsServed
<1>1. IInv => FinishedMonthsServed
  BY DEF IInv
<1> QED
  BY <1>1, InvHolds, PTL
=============================================================================
