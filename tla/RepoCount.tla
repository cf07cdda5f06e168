----------------------------- MODULE RepoCount -----------------------------
(***************************************************************************)
(* How internal/github/client.go counts the repositories of a month.       *)
(*                                                                         *)
(* GitHub answers with the newest repositories first, one page of them; a  *)
(* loop counts until it meets the first repository created outside the     *)
(* month.  The run may come at any time after the month, and again: the    *)
(* user goes on creating repositories before, between and during runs.     *)
(*                                                                         *)
(* Times are numbers; the month is From .. To, both ends included.         *)
(***************************************************************************)
EXTENDS Integers, Sequences, FiniteSets

CONSTANTS
    From, To,     \* first and last instant of the month
    PageSize,     \* repositories(first: 100)
    LastTime,     \* bound on the clock
    MaxRepos      \* bound on the user's repositories

ASSUME MonthAssumption == From \in Nat /\ To \in Nat /\ From <= To
ASSUME PageSizeAssumption == PageSize \in Nat \ {0}
ASSUME BoundsAssumption == LastTime \in Nat /\ MaxRepos \in Nat

VARIABLES
    clock,           \* the current time
    repos,           \* creation times of the user's repositories, oldest first
    nodes,           \* the page a run has received, newest first
    next,            \* the position in nodes the loop looks at
    reposCreated,    \* what the loop has counted
    pc               \* where the run is

vars == <<clock, repos, nodes, next, reposCreated, pc>>

TypeOK ==
    /\ clock \in Nat
    /\ repos \in Seq(Nat)
    /\ nodes \in Seq(Nat)
    /\ next \in Nat \ {0}
    /\ reposCreated \in Nat
    /\ pc \in {"idle", "counting", "done"}

Init ==
    /\ clock = 0
    /\ repos = <<>>
    /\ nodes = <<>>
    /\ next = 1
    /\ reposCreated = 0
    /\ pc = "idle"

Tick ==
    /\ clock < LastTime
    /\ clock' = clock + 1
    /\ UNCHANGED <<repos, nodes, next, reposCreated, pc>>

CreateRepository ==
    /\ Len(repos) < MaxRepos
    /\ repos' = Append(repos, clock)
    /\ UNCHANGED <<clock, nodes, next, reposCreated, pc>>

Smaller(m, n) == IF m < n THEN m ELSE n

\* Mutant: the query asks for ascending order.
Page_OldestFirst(s) == [k \in 1 .. Smaller(Len(s), PageSize) |-> s[k]]

\* orderBy: {field: CREATED_AT, direction: DESC}, first: PageSize.
Page(s) == [k \in 1 .. Smaller(Len(s), PageSize) |-> s[Len(s) + 1 - k]]

\* Mutant: the counter outlives the call it belongs to.
Query_KeepsCount ==
    /\ pc = "idle"
    /\ clock > To
    /\ nodes' = Page(repos)
    /\ next' = 1
    /\ pc' = "counting"
    /\ UNCHANGED <<clock, repos, reposCreated>>

\* A run for the month queries GitHub.  Runs come after the month is over.
Query ==
    /\ pc = "idle"
    /\ clock > To
    /\ nodes' = Page(repos)
    /\ next' = 1
    /\ reposCreated' = 0
    /\ pc' = "counting"
    /\ UNCHANGED <<clock, repos>>

\* Mutant: the upper end of the month is not looked at.
Outside_BeforeOnly(t) == t < From

\* t.Before(from) || t.After(to)
Outside(t) == t < From \/ t > To

Count ==
    /\ pc = "counting"
    /\ next <= Len(nodes)
    /\ ~ Outside(nodes[next])
    /\ reposCreated' = reposCreated + 1
    /\ next' = next + 1
    /\ UNCHANGED <<clock, repos, nodes, pc>>

\* break: whatever follows is not looked at.
Break ==
    /\ pc = "counting"
    /\ next <= Len(nodes)
    /\ Outside(nodes[next])
    /\ pc' = "done"
    /\ UNCHANGED <<clock, repos, nodes, next, reposCreated>>

\* The page is used up; hasNextPage is not followed.
EndOfPage ==
    /\ pc = "counting"
    /\ next > Len(nodes)
    /\ pc' = "done"
    /\ UNCHANGED <<clock, repos, nodes, next, reposCreated>>

\* Another run for the same month.
RunAgain ==
    /\ pc = "done"
    /\ pc' = "idle"
    /\ UNCHANGED <<clock, repos, nodes, next, reposCreated>>

Next == Tick \/ CreateRepository \/ Query \/ Count \/ Break \/ EndOfPage \/ RunAgain

Spec == Init /\ [][Next]_vars

-----------------------------------------------------------------------------

\* The user's repositories of the month, by position in repos.
OfMonth == {k \in DOMAIN repos : repos[k] \in From .. To}

\* A repository newer than the month is on the page.
NewerOnPage == \E k \in DOMAIN nodes : nodes[k] > To

\* client.go:54-60.  Stopping early never counts a repository of another
\* month: the count is a lower bound, at every moment of the loop.
NeverOvercounts == pc # "idle" => reposCreated <= Cardinality(OfMonth)

\* client.go:53-60.  The result is all or nothing: one repository created since
\* the month ended hides the whole month, and otherwise the month is counted as
\* far as the page goes.  This needs the newest-first order of the answer.
AllOrNothing ==
    pc = "done" =>
        reposCreated = IF NewerOnPage THEN 0
                       ELSE Smaller(Cardinality(OfMonth), PageSize)

\* stats/model.go:11: "aggregated GitHub activity for a single calendar month".
CountsTheMonth ==
    (pc = "done" /\ Cardinality(OfMonth) <= PageSize)
        => reposCreated = Cardinality(OfMonth)

-----------------------------------------------------------------------------
(***************************************************************************)
(* The inductive invariant.                                                *)
(***************************************************************************)

\* Repositories are created in the order of time.
OldestFirst ==
    /\ \A k \in DOMAIN repos : repos[k] <= clock
    /\ \A k, l \in DOMAIN repos : k <= l => repos[k] <= repos[l]

\* nodes is the page of the user's first n repositories; all created since
\* are newer than the month.
PageOf(n) ==
    /\ Len(nodes) = Smaller(n, PageSize)
    /\ \A k \in DOMAIN nodes : nodes[k] = repos[n + 1 - k]
    /\ \A k \in DOMAIN repos : k > n => repos[k] > To

PageOfThePast == pc # "idle" => \E n \in 0 .. Len(repos) : PageOf(n)

\* A run works only after the month.
BusyAfterTheMonth == pc # "idle" => clock > To

\* Every node before the loop's position is of the month and counted.
CountedSoFar ==
    pc # "idle" =>
        /\ reposCreated = next - 1
        /\ next <= Len(nodes) + 1
        /\ \A k \in DOMAIN nodes : k < next => nodes[k] \in From .. To

\* The loop ended at the end of the page or at a node outside the month.
StoppedForAReason ==
    (pc = "done" /\ next <= Len(nodes)) => nodes[next] \notin From .. To

IInv ==
    /\ TypeOK
    /\ OldestFirst
    /\ PageOfThePast
    /\ BusyAfterTheMonth
    /\ CountedSoFar
    /\ StoppedForAReason
=============================================================================
