---------------------------- MODULE SessionConfig -----------------------------
(***************************************************************************)
(* The configuration of one project and the sessions that run it           *)
(* (daemon/handle.rs: Register, Update, GetSessionConfig, PutSessionConfig,*)
(* RemoveSession; config/write.rs).  Clients save what they read and       *)
(* edited, with the revision they read; people edit the files directly;    *)
(* the daemon is killed and loads again.                                   *)
(***************************************************************************)
EXTENDS ConfigFiles

CONSTANTS
    Session, Client,
    Drafts,     \* the lists of tasks that clients submit
    HandMade,   \* what taskdeck.yaml may be when edited by hand
    Imported,   \* what .vscode/tasks.json may be
    None,       \* not loaded, nothing read
    Partial,    \* a definition that update applied in part
    MaxEdits, MaxPuts   \* bounds: edits by hand; configurations saved

ASSUME ImportsAreImports == Imported \subseteq Imports
ASSUME DraftsAreSubmissions == Drafts \subseteq Seq(Submission)

VARIABLES
    imports, doc,   \* the two files
    def,            \* each session's runtime: the definition it has
    view,           \* each client: the files whose revision it read
    mutation,       \* the request that holds config_mutations
    apart,          \* files and sessions may differ: an edit by hand, a failed update (history)
    edits, puts     \* so far (bounded)

files == <<imports, doc>>
configVars == <<imports, doc, def, view, mutation, apart, edits, puts>>

Idle == [pc |-> "idle"]
Loaded == {s \in Session : def[s] # None}

ConfigTypeOK ==
    /\ imports \in Imported
    /\ DOMAIN doc.tasks \subseteq Label /\ Range(doc.order) \subseteq Label
    /\ \A s \in Loaded : def[s] = Partial \/ DOMAIN def[s].tasks \subseteq Label
    /\ \A c \in Client : view[c] = None \/ view[c][1] \in Imported
    /\ mutation.pc \in {"idle", "finalize", "rename", "reconcile", "register", "update"}
    /\ apart \in BOOLEAN /\ edits \in 0..MaxEdits /\ puts \in 0..MaxPuts

ConfigInit ==
    /\ imports \in Imported /\ doc \in HandMade /\ Loads(imports, doc)
    /\ def = [s \in Session |-> Definition(imports, doc)]
    /\ view = [c \in Client |-> None]
    /\ mutation = Idle
    /\ apart = FALSE /\ edits = 0 /\ puts = 0
-----------------------------------------------------------------------------
(* Saving. *)

\* read_session_config, for a session that is loaded.
GetSessionConfig(c) ==
    /\ Loaded # {} /\ Loads(imports, doc)
    /\ view' = [view EXCEPT ![c] = files]
    /\ UNCHANGED <<imports, doc, def, mutation, apart, edits, puts>>

\* The sessions a saved configuration is for: all that are loaded from its project.
OfProject_One == {CHOOSE s \in Loaded : TRUE}
OfProject == Loaded

\* prepare_session_config_write: refused unless the revision is still the files'.
PutSessionConfig(c, draft) ==
    /\ mutation = Idle /\ Loaded # {} /\ puts < MaxPuts
    /\ view[c] = files /\ Valid(draft)
    /\ puts' = puts + 1
    /\ view' = [view EXCEPT ![c] = None]
    /\ mutation' = [pc |-> "finalize", revision |-> files, doc |-> Written(imports, doc, draft),
                    def |-> Submitted(draft), names |-> OfProject, edited |-> FALSE]
    /\ UNCHANGED <<imports, doc, def, apart, edits>>

\* finalize looks at the revision once more ...
Finalize_Unchecked ==
    /\ mutation.pc = "finalize"
    /\ mutation' = [mutation EXCEPT !.pc = "rename"]
    /\ UNCHANGED <<imports, doc, def, view, apart, edits, puts>>
Finalize ==
    /\ mutation.pc = "finalize"
    /\ mutation' = IF Loads(imports, doc) /\ files = mutation.revision
                   THEN [mutation EXCEPT !.pc = "rename"] ELSE Idle
    /\ UNCHANGED <<imports, doc, def, view, apart, edits, puts>>

\* ... and renames the new file over the old one.
Rename ==
    /\ mutation.pc = "rename"
    /\ doc' = mutation.doc
    /\ mutation' = [mutation EXCEPT !.pc = "reconcile"]
    /\ UNCHANGED <<imports, def, view, apart, edits, puts>>

\* Under the sessions lock every session of the project that was loaded when the request came
\* is updated; the update of some (failed) stops half way, and the answer says so.
Reconcile(failed) ==
    /\ mutation.pc = "reconcile" /\ failed \subseteq Loaded \cap mutation.names
    /\ def' = [s \in Session |->
                 IF s \in failed THEN Partial
                 ELSE IF s \in Loaded \cap mutation.names THEN mutation.def ELSE def[s]]
    /\ apart' = (mutation.edited \/ failed # {})
    /\ mutation' = Idle
    /\ UNCHANGED <<imports, doc, view, edits, puts>>
-----------------------------------------------------------------------------
(* The other handlers.  Register and Update keep config_mutations while they read the files   *)
(* and until the session has the definition; RemoveSession does not ask for it.  Only Register *)
(* may be told (allow_empty) to take a project without tasks.                                  *)

Register(s) ==
    /\ mutation = Idle /\ s \notin Loaded /\ Loads(imports, doc)
    /\ mutation' = [pc |-> "register", session |-> s, def |-> Definition(imports, doc), edited |-> FALSE]
    /\ UNCHANGED <<imports, doc, def, view, apart, edits, puts>>

Update(s) ==
    /\ mutation = Idle /\ s \in Loaded /\ Discovers(imports, doc)
    /\ mutation' = [pc |-> "update", session |-> s, def |-> Definition(imports, doc), edited |-> FALSE]
    /\ UNCHANGED <<imports, doc, def, view, apart, edits, puts>>

\* Update gives one session what the files say, also when its others keep an older definition.
Load ==
    /\ \/ mutation.pc = "register"
       \/ mutation.pc = "update" /\ mutation.session \in Loaded
    /\ def' = [def EXCEPT ![mutation.session] = mutation.def]
    /\ mutation' = Idle
    /\ UNCHANGED <<imports, doc, view, apart, edits, puts>>

\* The session was removed meanwhile, or its update stops half way.
LoadFails ==
    /\ mutation.pc = "update"
    /\ IF mutation.session \in Loaded
       THEN def' = [def EXCEPT ![mutation.session] = Partial] /\ apart' = TRUE
       ELSE UNCHANGED <<def, apart>>
    /\ mutation' = Idle
    /\ UNCHANGED <<imports, doc, view, edits, puts>>

RemoveSession(s) ==
    /\ s \in Loaded
    /\ def' = [def EXCEPT ![s] = None]
    /\ UNCHANGED <<imports, doc, view, mutation, apart, edits, puts>>
-----------------------------------------------------------------------------
(* The world. *)

\* Somebody saves one of the files from an editor.
Edit(i, d) ==
    /\ edits < MaxEdits /\ edits' = edits + 1
    /\ <<i, d>> # files /\ (i = imports \/ d = doc)
    /\ imports' = i /\ doc' = d
    /\ apart' = TRUE
    /\ mutation' = IF mutation = Idle THEN Idle ELSE [mutation EXCEPT !.edited = mutation.pc # "finalize"]
    /\ UNCHANGED <<def, view, puts>>

\* The daemon is killed and loads every session again, or none if the files do not load.
Restart ==
    /\ def' = [s \in Session |->
                 IF s \in Loaded /\ Discovers(imports, doc) THEN Definition(imports, doc) ELSE None]
    /\ apart' = ~Loads(imports, doc)
    /\ mutation' = Idle
    /\ UNCHANGED <<imports, doc, view, edits, puts>>

ConfigNext ==
    \/ \E c \in Client : \/ GetSessionConfig(c)
                         \/ \E draft \in Drafts : PutSessionConfig(c, draft)
    \/ Finalize \/ Rename \/ (\E failed \in SUBSET Session : Reconcile(failed))
    \/ \E s \in Session : Register(s) \/ Update(s) \/ RemoveSession(s)
    \/ Load \/ LoadFails
    \/ \E i \in Imported : Edit(i, doc)
    \/ \E d \in HandMade : Edit(imports, d)
    \/ Restart

ConfigSpec == ConfigInit /\ [][ConfigNext]_configVars
-----------------------------------------------------------------------------
(* Properties. *)

Settled == mutation = Idle /\ ~apart

\* What clients save keeps every session of the project at what the files say, and the files
\* loadable, through registrations, removals and kills (an empty environment aside).
SessionsHaveTheFile ==
    Settled => /\ Loads(imports, doc)
               /\ \A s \in Loaded : AgreesButKeptEnv(def[s], Definition(imports, doc), imports)

\* Saving replaces only what the client has read, unless an edit falls between the last look
\* at the revision and the rename.
NoEditIsLost == [][mutation.pc = "rename" /\ ~mutation.edited /\ doc' # doc => files = mutation.revision]_configVars
=============================================================================
