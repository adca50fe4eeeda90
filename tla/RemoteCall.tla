------------------------------ MODULE RemoteCall ------------------------------
(***************************************************************************)
(* Abstract: what a leader promises of commands for a worker.  A command   *)
(* is carried out at most once; one that was refused never; an answer is   *)
(* the answer of one that was; and of any other the caller is told that it *)
(* is not known whether it was or will be.                                 *)
(***************************************************************************)
EXTENDS Naturals

CONSTANT Command
VARIABLES
    outcome,    \* what the caller knows: "open", "answered", "refused" or "unknown"
    times       \* how many times the worker carried it out

callVars == <<outcome, times>>

CallInit ==
    /\ outcome = [q \in Command |-> "open"]
    /\ times = [q \in Command |-> 0]

CarryOut(q) ==
    /\ outcome[q] \in {"open", "unknown"} /\ times[q] = 0
    /\ times' = [times EXCEPT ![q] = 1]
    /\ UNCHANGED outcome

Told(q, what) ==
    /\ outcome[q] = "open"
    /\ what = "answered" => times[q] = 1
    /\ what = "refused" => times[q] = 0
    /\ outcome' = [outcome EXCEPT ![q] = what]
    /\ UNCHANGED times

\* All that wait, when the leader stops.
AllTold(S) ==
    /\ \A q \in S : outcome[q] = "open"
    /\ outcome' = [q \in Command |-> IF q \in S THEN "unknown" ELSE outcome[q]]
    /\ UNCHANGED times

CallNext ==
    \/ \E q \in Command : CarryOut(q) \/ \E what \in {"answered", "refused", "unknown"} : Told(q, what)
    \/ \E S \in SUBSET Command : AllTold(S)

CallSpec == CallInit /\ [][CallNext]_callVars
=============================================================================
