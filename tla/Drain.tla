-------------------------------- MODULE Drain --------------------------------
(***************************************************************************)
(* MonthlyJob with a history variable: the runs that Stop finds under way  *)
(* when the server is stopped by a signal.                                 *)
(***************************************************************************)
EXTENDS MonthlyJob

VARIABLE pending   \* history: the runs under way when Stop was called

DrainInit == Init /\ pending = {}

\* The deferred scheduled.Stop() is called once srv.Shutdown has returned.
StopCalled == phase = "draining" /\ phase' = "stopping"

DrainNext ==
    /\ Next
    /\ pending' = IF StopCalled THEN {j \in Jobs : Underway(j)}
                  ELSE IF phase' = "down" THEN {} ELSE pending

DrainSpec == DrainInit /\ [][DrainNext]_<<vars, pending>>

\* scheduler.go:64: "Stops and waits for every pending job to finish".  A run
\* that was under way when Stop was called is over when Stop has returned and
\* the pool is closed.
EveryRunDrained == phase = "closed" => \A j \in pending : ~ Underway(j)
=============================================================================
