-------------------------------- MODULE MCFiles --------------------------------
(***************************************************************************)
(* What a node keeps in files, checked in one run: the database when it is *)
(* opened, the node's settings, a project's configuration with its         *)
(* sessions, and the configuration as pure functions.  In each behaviour   *)
(* one of them moves and the others stay as they are.                      *)
(***************************************************************************)
EXTENDS SessionConfig, StateOpen, NodeSettings

CONSTANTS LabelA, LabelB, CommandC, CommandD, KeyK, KeyL   \* of the files below

VARIABLE part               \* the one that moves

vars == <<part, storeVars, settingsVars, configVars>>
-----------------------------------------------------------------------------
(* Tasks that clients submit and files that people write. *)

AValue == CHOOSE v \in Value : TRUE
Env == KeyK :> AValue
Both == KeyK :> AValue @@ KeyL :> AValue
Sub(label, com, env, clear) == [label |-> label, command |-> com, env |-> env, clear |-> clear]
MCDrafts == {<<Sub(LabelB, CommandD, Env, FALSE), Sub(LabelA, CommandC, Env, FALSE)>>,
             <<Sub(LabelB, CommandC, Env, FALSE)>>,
             <<Sub(LabelA, CommandD, Empty, TRUE), Sub(LabelB, CommandC, Empty, FALSE)>>}

Entry(com, env) == [disabled |-> FALSE, command |-> com, env |-> env]
MCHandMade == {Nothing,
               [tasks |-> LabelB :> Entry(CommandC, Env), order |-> <<LabelB>>],
               [tasks |-> LabelA :> Entry(Unset, KeyK :> Unset) @@ LabelB :> Entry(CommandD, Empty),
                order |-> <<LabelB, LabelA>>]}
MCImported == {Nothing,
               [tasks |-> LabelA :> [command |-> CommandC, env |-> Both], order |-> <<LabelA>>]}

\* Everything that an import, a document and a submission can say of LabelA, with some of
\* what they can say of LabelB, which is not imported.
AllImports == {i \in Imports : DOMAIN i.tasks \subseteq {LabelA}}
OfB == {Empty, LabelB :> DisabledPatch, LabelB :> Entry(CommandC, Env)}
AllDocuments == {[tasks |-> Overlay(ofA, ofB), order |-> <<>>] :
                    ofA \in Maps({LabelA}, Patch), ofB \in OfB}
AllSubmissions ==
    LET ofA == {s \in Submission : s.label = LabelA}
        ofB == {s \in Submission : s.label = LabelB /\ s.env \in {Empty, Env}
                                   /\ (s.command = CommandC <=> s.env = Empty)}
    IN  UNION {[1..n -> ofA \cup ofB] : n \in 0..2}
-----------------------------------------------------------------------------
Init ==
    /\ part \in {"store", "settings", "config", "files"}
    /\ StoreInit /\ SettingsInit
    /\ part # "store" => db = Absent
    /\ IF part = "config" THEN ConfigInit
       ELSE /\ IF part = "files" THEN imports \in AllImports /\ doc \in AllDocuments
               ELSE imports = Nothing /\ doc = Nothing
            /\ def = [s \in Session |-> None] /\ view = [cl \in Client |-> None]
            /\ mutation = Idle
            /\ apart = TRUE /\ edits = 0 /\ puts = 0

Next ==
    \/ part = "store" /\ StoreNext /\ UNCHANGED <<part, settingsVars, configVars>>
    \/ part = "settings" /\ SettingsNext /\ UNCHANGED <<part, storeVars, configVars>>
    \/ part = "config" /\ ConfigNext /\ UNCHANGED <<part, storeVars, settingsVars>>

Spec == Init /\ [][Next]_vars
-----------------------------------------------------------------------------
\* The variables of the parts have their types.
TypeOK ==
    /\ part = "store" => StoreTypeOK
    /\ part = "settings" => SettingsTypeOK
    /\ part = "config" => ConfigTypeOK

\* Reading back what was written gives what was submitted, for every import, document and
\* submission (prepare_session_config_write, load_project_state).
FilesAgree == part = "files" => \A s \in AllSubmissions : RoundTrip(imports, doc, s)
=============================================================================
