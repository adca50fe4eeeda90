----------------------------- MODULE ConfigFiles ------------------------------
(***************************************************************************)
(* A project's configuration as its files say it (src/config): tasks       *)
(* imported from .vscode/tasks.json, and taskdeck.yaml over them; and what *)
(* saving submitted tasks writes.  Of a task's fields there are two: the   *)
(* command, which the others are treated like, and the environment.        *)
(***************************************************************************)
EXTENDS Sequences, Naturals, TLC, SequencesExt

CONSTANTS
    Label, Command,     \* labels and commands of tasks
    Key, Value,         \* of environments
    Unset               \* no command, no value

Maps(D, R) == UNION {[K -> R] : K \in SUBSET D}
Empty == <<>>

Task == [command : Command, env : Maps(Key, Value)]
Patch == [disabled : BOOLEAN, command : Command \cup {Unset}, env : Maps(Key, Value \cup {Unset})]

\* .vscode/tasks.json and taskdeck.yaml; a file that is missing says nothing.
Imports == {[tasks |-> t, order |-> SetToSeq(DOMAIN t)] : t \in Maps(Label, Task)}
Documents == [tasks : Maps(Label, Patch), order : Seq(Label)]
Nothing == [tasks |-> Empty, order |-> <<>>]

ASSUME LabelsAreFinite == IsFiniteSet(Label)
ASSUME UnsetIsNothing == Unset \notin Command \cup Value

\* f, and where it is not defined g; and the elements of s that are in S, in their order.
Overlay(f, g) == [x \in DOMAIN f \cup DOMAIN g |-> IF x \in DOMAIN f THEN f[x] ELSE g[x]]
Only(s, S) ==
    LET only[i \in 0..Len(s)] ==
            IF i = 0 THEN <<>>
            ELSE IF s[i] \in S THEN Append(only[i - 1], s[i]) ELSE only[i - 1]
    IN  only[Len(s)]
-----------------------------------------------------------------------------
(* Reading. *)

\* apply_override: a key without a value is taken out.
Apply(task, patch) ==
    LET env == Overlay(patch.env, task.env)
    IN  [command |-> IF patch.command = Unset THEN task.command ELSE patch.command,
         env |-> Restrict(env, {k \in DOMAIN env : env[k] # Unset})]

DefaultTask == [command |-> Unset, env |-> Empty]

MergeTasks(imports, doc) ==
    LET disabled == {l \in DOMAIN doc.tasks : doc.tasks[l].disabled}
        base(l)  == IF l \in DOMAIN imports.tasks THEN imports.tasks[l] ELSE DefaultTask
    IN  [l \in (DOMAIN imports.tasks \cup DOMAIN doc.tasks) \ disabled |->
            IF l \in DOMAIN doc.tasks THEN Apply(base(l), doc.tasks[l]) ELSE base(l)]

\* resolve_task_order: the order asked for, then the import's, then that in which taskdeck.yaml
\* declares the other tasks, here always the same.
TaskOrder(imports, doc) ==
    LET tasks == MergeTasks(imports, doc)
        rest  == DOMAIN tasks \ Range(doc.order)
    IN  doc.order \o Only(imports.order, rest) \o
        Only(SetToSeq(DOMAIN tasks), rest \ Range(imports.order))

\* load_project_state fails on a task without a command, and on an order that names a task
\* twice or one that there is not.
Loads(imports, doc) ==
    LET tasks == MergeTasks(imports, doc)
    IN  /\ \A l \in DOMAIN tasks : tasks[l].command # Unset
        /\ IsInjective(doc.order)
        /\ Range(doc.order) \subseteq DOMAIN tasks

\* discover also fails on a project without tasks.
Discovers(imports, doc) == Loads(imports, doc) /\ DOMAIN MergeTasks(imports, doc) # {}

Definition(imports, doc) ==
    [tasks |-> MergeTasks(imports, doc), order |-> TaskOrder(imports, doc)]
-----------------------------------------------------------------------------
(* Writing. *)

\* What a client submits: tasks in their order, each with a word on whether to clear its env.
Submission == [label : Label, command : Command, env : Maps(Key, Value), clear : BOOLEAN]

\* validate_submitted_tasks.
Valid(submitted) == IsInjective([i \in DOMAIN submitted |-> submitted[i].label])

TaskOf(submitted, l) == submitted[CHOOSE i \in DOMAIN submitted : submitted[i].label = l]
Labels(submitted) == {submitted[i].label : i \in DOMAIN submitted}

\* build_imported_env_diff, or with clear_env what it comes to: a key of the import that was
\* not submitted is taken out by name; a bug: only with clear_env.
ImportedEnv_OnlyAdded(base, s) ==
    IF s.clear THEN Overlay(s.env, [k \in DOMAIN base.env |-> Unset]) ELSE s.env
ImportedEnv(base, s) ==
    LET same(k) == ~s.clear /\ k \in DOMAIN base.env /\ base.env[k] = s.env[k]
    IN  Overlay(Restrict(s.env, {k \in DOMAIN s.env : ~same(k)}),
                [k \in DOMAIN base.env \ DOMAIN s.env |-> Unset])

\* build_imported_task_mapping: the difference to the import.
ImportedPatch(base, s) ==
    [disabled |-> FALSE,
     command  |-> IF s.command = base.command THEN Unset ELSE s.command,
     env      |-> ImportedEnv(base, s)]

\* build_yaml_task_mapping: all of it, but the environment stays as it is in the file unless
\* one was submitted or it was to be cleared.
YamlPatch(doc, s) ==
    [disabled |-> FALSE, command |-> s.command,
     env |-> IF s.clear \/ s.env # Empty \/ s.label \notin DOMAIN doc.tasks THEN s.env
             ELSE doc.tasks[s.label].env]

DisabledPatch == [disabled |-> TRUE, command |-> Unset, env |-> Empty]
NoPatch == [disabled |-> FALSE, command |-> Unset, env |-> Empty]

\* prepare_session_config_write: the new taskdeck.yaml.
Written(imports, doc, submitted) ==
    LET imported(l) == l \in DOMAIN imports.tasks
        patch(l) ==
            IF l \notin Labels(submitted) THEN DisabledPatch
            ELSE IF imported(l) THEN ImportedPatch(imports.tasks[l], TaskOf(submitted, l))
            ELSE YamlPatch(doc, TaskOf(submitted, l))
        all == Labels(submitted) \cup DOMAIN imports.tasks
    IN  [tasks |-> Restrict([l \in all |-> patch(l)], {l \in all : patch(l) # NoPatch}),
         order |-> [i \in DOMAIN submitted |-> submitted[i].label]]

\* What the daemon runs, and answers, after it: the tasks as submitted.
Submitted(submitted) ==
    [tasks |-> [l \in Labels(submitted) |->
                    [command |-> TaskOf(submitted, l).command, env |-> TaskOf(submitted, l).env]],
     order |-> [i \in DOMAIN submitted |-> submitted[i].label]]
-----------------------------------------------------------------------------
(* Properties. *)

\* Where an empty environment was submitted for a task that is not imported, the file may
\* have kept one.
AgreesButKeptEnv(definition, files, imports) ==
    /\ definition.order = files.order
    /\ DOMAIN definition.tasks = DOMAIN files.tasks
    /\ \A l \in DOMAIN files.tasks :
         /\ definition.tasks[l].command = files.tasks[l].command
         /\ \/ definition.tasks[l].env = files.tasks[l].env
            \/ definition.tasks[l].env = Empty /\ l \notin DOMAIN imports.tasks

\* Reading back what was written gives what was submitted: nothing of the import shows through
\* an override, a disabled import stays away, and the result loads, whatever the file said before.
RoundTrip(imports, doc, submitted) ==
    Valid(submitted) =>
        LET new == Written(imports, doc, submitted)
        IN  /\ Loads(imports, new)
            /\ AgreesButKeptEnv(Submitted(submitted), Definition(imports, new), imports)
            /\ (\A i \in DOMAIN submitted : submitted[i].clear) =>
                    Definition(imports, new) = Submitted(submitted)
=============================================================================
