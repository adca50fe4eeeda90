-------------------------------- MODULE Scaling --------------------------------
(***************************************************************************)
(* The evaluator of scaling policies (daemon/scaling.rs, state/scaling.rs).*)
(* Every round it reads the policies once and goes through them: what it   *)
(* measures counts towards a streak, and a streak of three rounds starts   *)
(* or stops the task to scale, which may take long when that is on another *)
(* node.  Users change, disable and delete policies meanwhile.  The clock  *)
(* counts rounds; a measured value is above both thresholds, below both,   *)
(* or between them.                                                        *)
(***************************************************************************)
EXTENDS Naturals, SequencesExt, FiniteSetsExt

CONSTANTS
    Policy,       \* scaling policies
    Remote,       \* tasks of other nodes that a policy may watch: node, session and task
    Never,        \* no such policy, no last action, nothing measured
    Cooldown,     \* cooldown_seconds, in rounds
    Threshold,    \* SCALING_STREAK_THRESHOLD
    FetchRounds,  \* SCALING_REMOTE_FETCH_INTERVAL_MS, in rounds
    MaxRounds,    \* bound: rounds
    MaxEdits      \* bound: edits of policies

ASSUME ScalingBounds ==
    /\ IsFiniteSet(Policy) /\ Never \notin Nat /\ "self" \notin Remote
    /\ Cooldown \in Nat /\ Threshold \in Nat \ {0} /\ MaxRounds \in Nat

VARIABLES
    policy,       \* table scaling_policies: watched node, enabled and last_action_ms
    todo,         \* what is left of the round: policies as they were read
    round,        \* the clock of the evaluator
    above, below, \* streaks of each policy
    fetched,      \* remote_cache: when a remote value was fetched, and what it is to each policy
    scaled,       \* each policy's task to scale: it runs, or Never when that is not known
    measured,     \* history: what the policy's last rounds measured, newest last
    acted,        \* history: the round of its last action, and whether that could be recorded
    edits         \* changes so far (bounded by MaxEdits)

scalingVars == <<policy, todo, round, above, below, fetched, scaled, measured, acted, edits>>

Levels == {"above", "between", "below"}
Watched == {"self"} \cup Remote
Row == [watch : Watched, enabled : BOOLEAN, last : 0..MaxRounds \cup {Never}]

ScalingTypeOK ==
    /\ policy \in [Policy -> Row \cup {Never}]
    /\ \A entry \in Range(todo) : entry.id \in Policy /\ entry.row \in Row
    /\ round \in 0..MaxRounds
    /\ above \in [Policy -> 0..MaxRounds] /\ below \in [Policy -> 0..MaxRounds]
    /\ \A p \in Policy : above[p] = 0 \/ below[p] = 0
    /\ scaled \in [Policy -> BOOLEAN \cup {Never}]
    /\ measured \in [Policy -> Seq(Levels)]

ScalingInit ==
    /\ policy \in [Policy -> {[watch |-> w, enabled |-> TRUE, last |-> Never] : w \in Watched}]
    /\ todo = <<>> /\ round = 0
    /\ above = [p \in Policy |-> 0] /\ below = above
    /\ fetched = [w \in Remote |-> Never]
    /\ scaled \in [Policy -> BOOLEAN]
    /\ measured = [p \in Policy |-> <<>>] /\ acted = [p \in Policy |-> Never]
    /\ edits = 0
-----------------------------------------------------------------------------
(* Users: update_scaling_policy and delete_scaling_policy leave the streaks. *)

evaluator == <<todo, round, above, below, measured, acted>>

\* New thresholds make something else of the values that were fetched.
Rethink(p) ==
    \E level \in Levels :
       fetched' = [w \in Remote |-> IF fetched[w] = Never THEN Never
                                    ELSE [fetched[w] EXCEPT !.levels[p] = level]]

Update_Forgets(p) ==
    /\ policy[p] # Never /\ edits < MaxEdits /\ edits' = edits + 1
    /\ \E w \in Watched, on \in BOOLEAN :
          policy' = [policy EXCEPT ![p] = [watch |-> w, enabled |-> on, last |-> Never]]
    /\ Rethink(p)
    /\ UNCHANGED <<evaluator, scaled>>
Update(p) ==
    /\ policy[p] # Never /\ edits < MaxEdits /\ edits' = edits + 1
    /\ \E w \in Watched, on \in BOOLEAN :
          policy' = [policy EXCEPT ![p].watch = w, ![p].enabled = on]
    /\ Rethink(p)
    /\ UNCHANGED <<evaluator, scaled>>

Delete(p) ==
    /\ policy[p] # Never /\ edits < MaxEdits /\ edits' = edits + 1
    /\ policy' = [policy EXCEPT ![p] = Never]
    /\ UNCHANGED <<evaluator, fetched, scaled>>

\* A task starts or stops on its own or by others, or its node goes.
Moves(p) ==
    /\ \E now \in BOOLEAN \cup {Never} : now # scaled[p] /\ scaled' = [scaled EXCEPT ![p] = now]
    /\ UNCHANGED <<policy, evaluator, fetched, edits>>
-----------------------------------------------------------------------------
(* The evaluator. *)

StartRound ==
    /\ todo = <<>> /\ round < MaxRounds /\ round' = round + 1
    /\ LET on == {p \in Policy : policy[p] # Never /\ policy[p].enabled}
       IN  todo' = [i \in 1..Cardinality(on) |->
                       LET p == SetToSeq(on)[i] IN [id |-> p, row |-> policy[p]]]
    /\ UNCHANGED <<policy, above, below, fetched, scaled, measured, acted, edits>>

\* The values that may be seen: of a watched task that does not run, or of a node that does not
\* answer, the value is 0; a remote value is fetched anew every FetchRounds.  One value may be
\* above the thresholds of one policy and below those of another.
Fresh(w) == w \in Remote /\ fetched[w] # Never /\ round - fetched[w].at < FetchRounds
Seen(w) == IF Fresh(w) THEN {fetched[w].levels} ELSE [Policy -> Levels]

Above_Kept(p, level) == IF level = "above" THEN above[p] + 1 ELSE IF level = "below" THEN 0 ELSE above[p]
Above(p, level) == IF level = "above" THEN above[p] + 1 ELSE 0
Below(p, level) == IF level = "below" THEN below[p] + 1 ELSE 0

CooledDown(row) == row.last = Never \/ round - row.last >= Cooldown

\* The streak is used up, whether or not there is anything to scale.
Fires(row, streak) == CooledDown(row) /\ streak >= Threshold

\* scale_policy_task: only a task known to be in the other state; the action is recorded when
\* it failed too, unless that fails as well.
Scale(p, run) ==
    IF scaled[p] = ~run
    THEN \E recorded \in BOOLEAN :
           /\ acted' = [acted EXCEPT ![p] = [at |-> round, recorded |-> recorded]]
           /\ policy' = IF recorded /\ policy[p] # Never THEN [policy EXCEPT ![p].last = round]
                        ELSE policy
           /\ scaled' \in {scaled, [scaled EXCEPT ![p] = run]}
    ELSE UNCHANGED <<acted, policy, scaled>>

Evaluate ==
    /\ todo # <<>>
    /\ LET entry == Head(todo)
           p == entry.id
           w == entry.row.watch
       IN  \E levels \in Seen(w) :
              LET level == levels[p]
                  out == Above(p, level)
                  in == Below(p, level)
                  scaleOut == Fires(entry.row, out)
                  scaleIn == Fires(entry.row, in)
              IN  /\ fetched' = IF w = "self" \/ Fresh(w) THEN fetched
                                ELSE [fetched EXCEPT ![w] = [at |-> round, levels |-> levels]]
                  /\ measured' = [measured EXCEPT ![p] = Append(@, level)]
                  /\ above' = [above EXCEPT ![p] = IF scaleOut \/ scaleIn THEN 0 ELSE out]
                  /\ below' = [below EXCEPT ![p] = IF scaleOut \/ scaleIn THEN 0 ELSE in]
                  /\ IF scaleOut THEN Scale(p, TRUE)
                     ELSE IF scaleIn THEN Scale(p, FALSE)
                     ELSE UNCHANGED <<acted, policy, scaled>>
    /\ todo' = Tail(todo)
    /\ UNCHANGED <<round, edits>>

\* A node that is not the leader passes over policies that watch other nodes.
PassOver ==
    /\ todo # <<>> /\ Head(todo).row.watch \in Remote
    /\ todo' = Tail(todo)
    /\ UNCHANGED <<policy, round, above, below, fetched, scaled, measured, acted, edits>>

ScalingNext ==
    \/ \E p \in Policy : Update(p) \/ Delete(p) \/ Moves(p)
    \/ StartRound \/ Evaluate \/ PassOver

ScalingSpec == ScalingInit /\ [][ScalingNext]_scalingVars
-----------------------------------------------------------------------------
(* Properties. *)

\* Between two actions of a policy, of which the first could be recorded, lies its cooldown,
\* through edits of the policy and failures of the action (record_scaling_action,
\* update_scaling_policy).
CooldownIsKept ==
    [][ \A p \in Policy : acted'[p] # acted[p] /\ acted[p] # Never /\ acted[p].recorded =>
            acted'[p].at - acted[p].at >= Cooldown ]_scalingVars

\* A policy acts on load that its last Threshold evaluations all measured, and starts a task on
\* high load and stops it on low load only ("three consecutive evaluations", README.md:494).
ActsOnAStreak ==
    [][ \A p \in Policy : acted'[p] # acted[p] =>
            LET last == Len(measured'[p])
                level == IF scaled[p] THEN "below" ELSE "above"
            IN  /\ last >= Threshold
                /\ \A i \in last - Threshold + 1..last : measured'[p][i] = level ]_scalingVars
=============================================================================
