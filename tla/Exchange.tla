------------------------------ MODULE Exchange ------------------------------
(***************************************************************************)
(* What a client of the API relies on, without handlers, positions or      *)
(* headers: a request is made, it gets one status, out of those that its   *)
(* route and its credentials allow, and then that status is recorded once. *)
(***************************************************************************)
EXTENDS Sequences

CONSTANTS
    Requests,
    Asks,       \* what may be asked
    Allowed     \* the statuses each of them may get

VARIABLES
    asked,      \* what each request asks, once it is made
    reply,      \* its status, once there is one
    record      \* the statuses recorded for it

vars == <<asked, reply, record>>

Init ==
    /\ asked = [r \in Requests |-> {}]
    /\ reply = [r \in Requests |-> {}]
    /\ record = [r \in Requests |-> <<>>]

Ask(r) ==
    /\ asked[r] = {}
    /\ \E q \in Asks : asked' = [asked EXCEPT ![r] = {q}]
    /\ UNCHANGED <<reply, record>>

Reply(r) ==
    /\ reply[r] = {}
    /\ \E q \in asked[r] : \E code \in Allowed[q] :
          reply' = [reply EXCEPT ![r] = {code}]
    /\ UNCHANGED <<asked, record>>

Record(r) ==
    /\ record[r] = <<>>
    /\ \E code \in reply[r] : record' = [record EXCEPT ![r] = <<code>>]
    /\ UNCHANGED <<asked, reply>>

Next == \E r \in Requests : Ask(r) \/ Reply(r) \/ Record(r)

Spec == Init /\ [][Next]_vars
=============================================================================
