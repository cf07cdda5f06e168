---------------------------- MODULE TargetMonth ----------------------------
(***************************************************************************)
(* Which month is meant: GetTargetMonth of                                 *)
(* internal/server/controllers/controller.go, for a request that names a   *)
(* month and for one that does not, and the window and base month that     *)
(* internal/stats/collector.go derives from it, while the calendar goes on.*)
(*                                                                         *)
(* The refusal of a named month reads the clock twice, and the calendar    *)
(* may turn in between.  Clock and UTC agree: the image is built FROM      *)
(* scratch (Dockerfile) and sets no zone.                                  *)
(***************************************************************************)
EXTENDS Integers, Sequences

CONSTANTS
    FirstMonth,    \* the month the calendar starts in
    LastYear,      \* bound on the calendar
    Numbers,       \* the numbers a request may carry
    MaxReports     \* bound on the reports made

Month == [year : Int, month : 1 .. 12]

ASSUME FirstMonthAssumption == FirstMonth \in Month
ASSUME LastYearAssumption == LastYear \in Int
ASSUME NumbersAssumption == Numbers \subseteq Int
ASSUME MaxReportsAssumption == MaxReports \in Nat

\* A query parameter: absent or empty, not a number (Atoi fails, with value 0),
\* or a number.
Absent == [kind |-> "absent", value |-> 0]
Garbage == [kind |-> "garbage", value |-> 0]
Params == {Absent, Garbage} \cup [kind : {"number"}, value : Numbers]

VARIABLES
    clock,       \* the running month
    call,        \* the last request and what became of it
    reports      \* the monthly runs, each with the months it derived

vars == <<clock, call, reports>>

Request == [year : Params, month : Params]

\* since and at are the running month when the request came and when it was
\* last worked on; "yearPassed" is the moment between the two readings.
Call == [asked : Request, since : Month, at : Month, target : Month,
         state : {"none", "yearPassed", "refused", "served"}]

Report == [at : Month, target : Month, end : Month, base : Month]

\* Months on one line.
Index(m) == 12 * m.year + m.month

\* time.Date: a month outside 1 .. 12 carries into the year, by one at most here.
Date(y, m) ==
    [year |-> IF m < 1 THEN y - 1 ELSE IF m > 12 THEN y + 1 ELSE y,
     month |-> IF m < 1 THEN m + 12 ELSE IF m > 12 THEN m - 12 ELSE m]

\* Mutant: January takes December of its own year.
PreviousMonth_SameYear(now) ==
    IF now.month - 1 <= 0 THEN Date(now.year, now.month + 11)
                          ELSE Date(now.year, now.month - 1)

\* The default of GetTargetMonth.
PreviousMonth(now) ==
    IF now.month - 1 <= 0 THEN Date(now.year - 1, now.month + 11)
                          ELSE Date(now.year, now.month - 1)

\* The first month after the window from .. to of CollectForUser.
WindowEnd(m) == Date(m.year, m.month + 1)

\* prevMonth of CollectForUser.
BaseMonth(m) == Date(m.year, m.month - 1)

Nothing == [year |-> Absent, month |-> Absent]

Init ==
    /\ clock = FirstMonth
    /\ call = [asked |-> Nothing, since |-> FirstMonth, at |-> FirstMonth,
               target |-> FirstMonth, state |-> "none"]
    /\ reports = <<>>

MonthTurns ==
    /\ Date(clock.year, clock.month + 1).year <= LastYear
    /\ clock' = Date(clock.year, clock.month + 1)
    /\ UNCHANGED <<call, reports>>

\* RunMonthlyJob takes the default month, CollectForUser derives the others.
MakeReport ==
    /\ Len(reports) < MaxReports
    /\ LET m == PreviousMonth(clock) IN
       reports' = Append(reports, [at |-> clock, target |-> m,
                                   end |-> WindowEnd(m), base |-> BaseMonth(m)])
    /\ UNCHANGED <<clock, call>>

\* Request r, which came in month s, gets as far as the given state.
Reach(r, s, state, m) ==
    /\ call' = [asked |-> r, since |-> s, at |-> clock, target |-> m, state |-> state]
    /\ UNCHANGED <<clock, reports>>

Answered == call.state # "yearPassed"

IsGiven(r) == r.year # Absent /\ r.month # Absent

\* Mutant: no upper bound; time.Date carries month 13 into the next year.
IsMonth_NoUpperBound(r) ==
    /\ r.year.kind = "number"
    /\ r.month.kind = "number"
    /\ r.month.value >= 1

\* Both parameters parse and the month is one.
IsMonth(r) ==
    /\ r.year.kind = "number"
    /\ r.month.kind = "number"
    /\ r.month.value \in 1 .. 12

\* A parameter is missing: the month before the running one.
AskDefault(r) ==
    /\ Answered
    /\ ~ IsGiven(r)
    /\ Reach(r, clock, "served", PreviousMonth(clock))

\* 400: no such month.
AskInvalid(r) ==
    /\ Answered
    /\ IsGiven(r)
    /\ ~ IsMonth(r)
    /\ Reach(r, clock, "refused", clock)

\* The year is over: the month is not compared.
AskEarlierYear(r) ==
    /\ Answered
    /\ IsGiven(r)
    /\ IsMonth(r)
    /\ r.year.value < clock.year
    /\ Reach(r, clock, "served", Date(r.year.value, r.month.value))

\* The year is not over; time.Now() is called again for the month.
AskOtherYear(r) ==
    /\ Answered
    /\ IsGiven(r)
    /\ IsMonth(r)
    /\ r.year.value >= clock.year
    /\ Reach(r, clock, "yearPassed", clock)

\* Mutant: the running month itself passes.
Refused_Later(month) == month > clock.month

\* Mutant: the month before the running one is refused as well.
Refused_Previous(month) == month >= clock.month - 1

\* month >= int(time.Now().Month())
Refused(month) == month >= clock.month

CompareMonth ==
    /\ call.state = "yearPassed"
    /\ LET r == call.asked IN
       IF Refused(r.month.value)
       THEN Reach(r, call.since, "refused", clock)
       ELSE Reach(r, call.since, "served", Date(r.year.value, r.month.value))

Next ==
    \/ MonthTurns
    \/ MakeReport
    \/ \E r \in Request :
          AskDefault(r) \/ AskInvalid(r) \/ AskEarlierYear(r) \/ AskOtherYear(r)
    \/ CompareMonth

Spec == Init /\ [][Next]_vars

-----------------------------------------------------------------------------

TypeOK ==
    /\ clock \in Month
    /\ call \in Call
    /\ reports \in Seq(Report)

\* controller.go:241-253, collector.go:62-70.  Runs in one month report on the
\* same month; the reports of two consecutive months join without gap or
\* overlap, and the later measures its growth against the earlier.  January is
\* the case to get wrong.
ReportsChain ==
    \A i, j \in DOMAIN reports :
        LET r == reports[i]
            s == reports[j]
        IN  /\ Index(s.at) = Index(r.at) => s.target = r.target
            /\ Index(s.at) = Index(r.at) + 1 => s.base = r.target /\ r.end = s.target

\* controller.go:235-239.  The running month is never served, not even when the
\* month turns between the two readings of the clock.
RunningMonthRefused == call.state = "served" => call.target # call.at

\* controller.go:232-240.  A named month that was over when the request came is
\* served as named, unless the year turned while it was being answered.
FinishedMonthsServed ==
    (IsGiven(call.asked) /\ IsMonth(call.asked) /\ Answered) =>
        LET m == [year |-> call.asked.year.value, month |-> call.asked.month.value]
        IN  (Index(m) < Index(call.since) /\ call.since.year = call.at.year)
                => call.state = "served" /\ call.target = m

\* README.md:106: "Returns current or requested month stats".
CurrentByDefault ==
    (call.state = "served" /\ ~ IsGiven(call.asked)) => call.target = call.at

-----------------------------------------------------------------------------
(***************************************************************************)
(* The inductive invariant.                                                *)
(***************************************************************************)

\* A report's months follow from the month its run started in.
ReportsDerived ==
    \A i \in DOMAIN reports :
        LET r == reports[i] IN
        /\ r.target = PreviousMonth(r.at)
        /\ r.end = WindowEnd(r.target)
        /\ r.base = BaseMonth(r.target)

\* A request waiting for its second reading names a month of the year it came
\* in or a later one, and time has not gone back.
Waiting ==
    ~ Answered =>
        /\ IsGiven(call.asked) /\ IsMonth(call.asked)
        /\ call.asked.year.value >= call.since.year
        /\ Index(call.since) <= Index(clock)

IInv ==
    /\ TypeOK
    /\ ReportsDerived
    /\ Waiting
    /\ RunningMonthRefused
    /\ FinishedMonthsServed
=============================================================================
