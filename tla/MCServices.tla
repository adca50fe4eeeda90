------------------------------ MODULE MCServices ------------------------------
(***************************************************************************)
(* Six parts of a daemon that share no state, checked in one run: in each  *)
(* behaviour one of them moves and the others stay as they are, so that    *)
(* their state spaces add up instead of multiplying.                       *)
(***************************************************************************)
EXTENDS LogFollow, TaskMetrics, Scaling, Access, Notifications, MCWorkflows

VARIABLE part       \* the one that moves

vars == <<part, logVars, metricsVars, scalingVars, accessVars, noticeVars, workflowVars>>

\* Of the parts that do not move one initial state is enough.
Init ==
    /\ part \in {"log", "metrics", "scaling", "access", "notifications", "workflows"}
    /\ LogInit /\ MetricsInit /\ ScalingInit /\ AccessInit /\ NoticeInit
    /\ WorkflowInit
    /\ part # "log" => logNext = 0
    /\ part # "scaling" => \A p \in Policy : policy[p].watch = "self" /\ scaled[p]
    /\ part # "notifications" => \A r \in Rule : rules[r] = NoRow

Next ==
    \/ /\ part = "log" /\ LogNext
       /\ UNCHANGED <<part, metricsVars, scalingVars, accessVars, noticeVars, workflowVars>>
    \/ /\ part = "metrics" /\ MetricsNext
       /\ UNCHANGED <<part, logVars, scalingVars, accessVars, noticeVars, workflowVars>>
    \/ /\ part = "scaling" /\ ScalingNext
       /\ UNCHANGED <<part, logVars, metricsVars, accessVars, noticeVars, workflowVars>>
    \/ /\ part = "access" /\ AccessNext
       /\ UNCHANGED <<part, logVars, metricsVars, scalingVars, noticeVars, workflowVars>>
    \/ /\ part = "notifications" /\ NoticeNext
       /\ UNCHANGED <<part, logVars, metricsVars, scalingVars, accessVars, workflowVars>>
    \/ /\ part = "workflows" /\ WorkflowNext
       /\ UNCHANGED <<part, logVars, metricsVars, scalingVars, accessVars, noticeVars>>

Spec == Init /\ [][Next]_vars

\* The variables of all six parts have their types.
TypeOK ==
    /\ LogTypeOK /\ MetricsTypeOK /\ ScalingTypeOK /\ AccessTypeOK /\ NoticeTypeOK
    /\ WorkflowTypeOK
=============================================================================
