------------------------------- MODULE Growth -------------------------------
(***************************************************************************)
(* The commit growth that internal/stats/collector.go computes for a       *)
(* month, and the NUMERIC(10, 4) column that has to hold it.               *)
(*                                                                         *)
(* A Go sql.NullFloat64 is the record [valid, num, den]: the percentage is *)
(* the exact rational num/den, so that nothing depends on how a float64    *)
(* rounds; an invalid value (SQL NULL) is NullGrowth.                      *)
(***************************************************************************)
EXTENDS Integers

CONSTANT GrowthLimit   \* the first percentage NUMERIC(10, 4) cannot hold: 10^6

ASSUME GrowthLimitAssumption == GrowthLimit \in Nat \ {0}

GrowthValue == [valid : BOOLEAN, num : Int, den : Nat \ {0}]

NullGrowth == [valid |-> FALSE, num |-> 0, den |-> 1]

Percent(num, den) == [valid |-> TRUE, num |-> num, den |-> den]

\* Against a month with commits, the relative change; against an empty or
\* unknown month, 100% if there is anything to report and NULL otherwise.
CommitGrowth(current, previous) ==
    IF previous > 0 THEN Percent(100 * (current - previous), previous)
    ELSE IF current > 0 THEN Percent(100, 1)
    ELSE NullGrowth

\* The column accepts a value below the limit.  No growth is below -100%, so
\* the negative end of the column is out of reach.
FitsColumn(g) == g.valid => g.num < GrowthLimit * g.den
=============================================================================
