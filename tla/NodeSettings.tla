----------------------------- MODULE NodeSettings -----------------------------
(***************************************************************************)
(* The settings of a node (state/node.rs, state/user_config.rs): role and  *)
(* mode in the database, bind host and its opt-in in taskdeck.json, both   *)
(* written by one configure, over both the variables of the environment.   *)
(* The daemon and a command-line client configure at the same time; either *)
(* may be killed, and a user edits the file by hand.                       *)
(***************************************************************************)
EXTENDS Naturals

CONSTANTS
    Process,    \* processes with a store of their own: the daemon, a client
    NoFile,     \* taskdeck.json does not exist
    MaxWrites   \* bound: configurations and edits

VARIABLES
    stored,     \* metadata of the database: role, mode, leader url, legacy bind host
    file,       \* taskdeck.json: bind host and opt-in
    registered, \* some project is registered
    executing,  \* the running daemon was loaded with settings that execute tasks
    request,    \* each process: idle, or a configure under way
    answer,     \* the last configure that returned, until something else is written (history)
    made        \* configurations and edits so far (bounded by MaxWrites)

settingsVars == <<stored, file, registered, executing, request, answer, made>>

Roles == {"worker", "leader"}
Modes == {"standard", "pure_master"}
Hosts == {"loopback", "remote"}
Keep == "keep"      \* a field an update or the environment leaves alone
Optional(values) == values \cup {Keep}
Over(value, patch) == IF patch = Keep THEN value ELSE patch

Settings == [role : Roles, mode : Modes, url : BOOLEAN, host : Hosts]
Files == [host : Hosts, allow : BOOLEAN]
ASSUME NoFileIsNoFile == NoFile \notin Files
Updates == [role : Optional(Roles), mode : Optional(Modes), url : Optional({"set", "clear"}),
            host : Optional(Hosts), allow : Optional({"allow", "deny"})]
NoRequest == [pc |-> "idle"]
NoAnswer == [known |-> FALSE]

\* What a configure comes to: it is done, or an error says that the file could not be written,
\* that the database could not be used, that it could not be written, or then, that the file
\* could not be put back.
Outcomes == {"done", "file", "database", "commit", "restore"}

\* NodeSettings::validate, and who executes tasks.
ValidSettings(s) == (s.role = "worker" => s.mode = "standard") /\ (s.role = "leader" => ~s.url)
ExecutionEnabled(s) == s.role = "worker" \/ s.mode = "standard"
\* UserNetworkConfig::validate.
OptedIn(f) == f.host = "remote" => f.allow

SettingsTypeOK ==
    /\ stored \in Settings /\ file \in Files \cup {NoFile}
    /\ registered \in BOOLEAN /\ executing \in BOOLEAN
    /\ \A p \in Process :
         \/ request[p] = NoRequest
         \/ /\ request[p].pc \in {"file", "database", "restore"}
            /\ request[p].settings \in Settings
            /\ request[p].file \in Files /\ request[p].previous \in Files
    /\ answer = NoAnswer \/ answer.outcome \in Outcomes
    /\ made \in 0..MaxWrites

SettingsInit ==
    /\ stored = [role |-> "worker", mode |-> "standard", url |-> FALSE, host |-> "loopback"]
    /\ file = NoFile /\ registered = FALSE /\ executing = TRUE
    /\ request = [p \in Process |-> NoRequest]
    /\ answer = NoAnswer /\ made = 0
-----------------------------------------------------------------------------
(* Reading: node_settings. *)

\* legacy, load_or_create: the file is made from the database when there is none.
Legacy(s) == [host |-> s.host, allow |-> s.host = "remote"]
FileOr(s, f) == IF f = NoFile THEN Legacy(s) ELSE f

Base(s, f) == [s EXCEPT !.host = FileOr(s, f).host]

\* apply_environment: over the settings, whose other fields then have to fit the role.
Override(s, env) ==
    [role |-> Over(s.role, env.role), mode |-> Over(s.mode, env.mode),
     url |-> IF env.url = Keep THEN s.url ELSE env.url = "set", host |-> Over(s.host, env.host)]
Normalized(s) ==
    IF s.role = "worker" THEN [s EXCEPT !.mode = "standard"] ELSE [s EXCEPT !.url = FALSE]
ApplyEnvironment(s, env) == Normalized(Override(s, env))

Effective(s, f, env) == ApplyEnvironment(Base(s, f), env)
NodeLoads(s, f, env) ==
    LET all == Effective(s, f, env)
    IN  /\ OptedIn(FileOr(s, f))
        /\ ValidSettings(all)
        /\ all.host = "remote" => FileOr(s, f).allow \/ env.allow = "allow"
-----------------------------------------------------------------------------
(* configure. *)

\* What an update makes of the settings.
Updated(s, u) ==
    LET role == [s EXCEPT !.role = Over(@, u.role)]
        fit  == IF u.role = Keep THEN role ELSE Normalized(role)
    IN  [fit EXCEPT !.mode = Over(@, u.mode),
                    !.url = IF u.url = Keep THEN @ ELSE u.url = "set", !.host = Over(@, u.host)]

ChangesNetwork(u) == u.host # Keep \/ u.allow # Keep
Allowed(previous, u) == IF u.allow = Keep THEN previous.allow ELSE u.allow = "allow"
NewFile(previous, settings, u) ==
    [host |-> settings.host,
     allow |-> IF u.allow = Keep THEN settings.host = "remote" /\ previous.allow
               ELSE u.allow = "allow"]

\* Whoever else is configuring is no longer alone.
Disturb(p) == [q \in Process |-> IF q = p \/ request[q] = NoRequest THEN request[q]
                                 ELSE [request[q] EXCEPT !.alone = FALSE]]

\* Everything is read, and refused or not, before anything is written.
Configure(p, u) ==
    LET previous == FileOr(stored, file)
        settings == Updated(Base(stored, previous), u)
    IN  /\ request[p] = NoRequest /\ made < MaxWrites /\ made' = made + 1
        /\ ValidSettings(settings)
        /\ settings.host = "remote" => Allowed(previous, u)
        /\ ~ExecutionEnabled(settings) => ~registered
        /\ file' = previous
        /\ request' = [request EXCEPT ![p] =
                [pc |-> IF ChangesNetwork(u) THEN "file" ELSE "database",
                 settings |-> settings, previous |-> previous, network |-> ChangesNetwork(u),
                 file |-> IF ChangesNetwork(u) THEN NewFile(previous, settings, u) ELSE previous,
                 before |-> [settings |-> stored, file |-> previous],
                 alone |-> \A q \in Process : request[q] = NoRequest]]
        /\ answer' = NoAnswer
        /\ UNCHANGED <<stored, registered, executing>>

Return(p, outcome) ==
    /\ request' = [Disturb(p) EXCEPT ![p] = NoRequest]
    /\ answer' = [known |-> request[p].alone, outcome |-> outcome, before |-> request[p].before,
                  asked |-> [settings |-> request[p].settings, file |-> request[p].file]]

\* user_config::write: written next to the old file and renamed over it, so it is there whole
\* or not at all.
WriteFile(p) ==
    /\ request[p].pc = "file"
    /\ file' = request[p].file
    /\ request' = [Disturb(p) EXCEPT ![p].pc = "database"]
    /\ answer' = NoAnswer
    /\ UNCHANGED <<stored, registered, executing, made>>

\* It fails before the rename, or after it, with sync_parent.
WriteFileFails(p) ==
    /\ request[p].pc = "file"
    /\ file' \in {file, request[p].file}
    /\ Return(p, "file")
    /\ UNCHANGED <<stored, registered, executing, made>>

\* The transaction cannot be begun: the error is returned at once.
DatabaseFails(p) ==
    /\ request[p].pc = "database"
    /\ Return(p, "database")
    /\ UNCHANGED <<stored, file, registered, executing, made>>

\* write_node_settings, in one transaction: all the settings, changed or not.
Commit(p) ==
    /\ request[p].pc = "database"
    /\ stored' = request[p].settings
    /\ Return(p, "done")
    /\ UNCHANGED <<file, registered, executing, made>>

\* The transaction fails (the database is busy or full) ...
CommitFails_NoRestore(p) ==
    /\ request[p].pc = "database"
    /\ Return(p, "commit")
    /\ UNCHANGED <<stored, file, registered, executing, made>>
CommitFails(p) ==
    /\ request[p].pc = "database"
    /\ IF request[p].network
       THEN request' = [request EXCEPT ![p].pc = "restore"] /\ UNCHANGED answer
       ELSE Return(p, "commit")
    /\ UNCHANGED <<stored, file, registered, executing, made>>

\* ... and the file is put back, if it was a file that may be written ...
Restore(p) ==
    /\ request[p].pc = "restore" /\ OptedIn(request[p].previous)
    /\ file' = request[p].previous
    /\ Return(p, "commit")
    /\ UNCHANGED <<stored, registered, executing, made>>

\* ... or that fails, too, before or after its rename.
RestoreFails(p) ==
    /\ request[p].pc = "restore"
    /\ \/ UNCHANGED file
       \/ OptedIn(request[p].previous) /\ file' = request[p].previous
    /\ Return(p, "restore")
    /\ UNCHANGED <<stored, registered, executing, made>>

\* The process is killed, and answers nothing.
Killed(p) ==
    /\ request[p] # NoRequest
    /\ request' = [request EXCEPT ![p] = NoRequest]
    /\ UNCHANGED <<stored, file, registered, executing, answer, made>>
-----------------------------------------------------------------------------
(* The rest of the world. *)

\* Somebody writes the file by hand, with or without the opt-in, or deletes it.
EditFile(f) ==
    /\ made < MaxWrites /\ made' = made + 1
    /\ file' = f /\ answer' = NoAnswer
    /\ request' = [q \in Process |-> IF request[q] = NoRequest THEN NoRequest
                                     ELSE [request[q] EXCEPT !.alone = FALSE]]
    /\ UNCHANGED <<stored, registered, executing>>

\* Register and RemoveSession, refused by a daemon that does not execute tasks.
ChangeRegistrations ==
    /\ executing
    /\ registered' = ~registered
    /\ UNCHANGED <<stored, file, executing, request, answer, made>>

\* Settings take effect when the daemon is loaded again.
RestartNode(env) ==
    /\ NodeLoads(stored, file, env)
    /\ file' = FileOr(stored, file)
    /\ executing' = ExecutionEnabled(Effective(stored, file, env))
    /\ UNCHANGED <<stored, registered, request, answer, made>>

NoEnvironment == [role |-> Keep, mode |-> Keep, url |-> Keep, host |-> Keep, allow |-> Keep]

SettingsNext ==
    \/ \E p \in Process : \/ \E u \in Updates : Configure(p, u)
                          \/ WriteFile(p) \/ WriteFileFails(p)
                          \/ DatabaseFails(p) \/ Commit(p) \/ CommitFails(p)
                          \/ Restore(p) \/ RestoreFails(p) \/ Killed(p)
    \/ \E f \in Files \cup {NoFile} : EditFile(f)
    \/ ChangeRegistrations \/ RestartNode(NoEnvironment)

SettingsSpec == SettingsInit /\ [][SettingsNext]_settingsVars
-----------------------------------------------------------------------------
(* Properties. *)

\* What a configure that was alone answers is true of both stores.  Success: they hold what was
\* asked for.  An error: the database holds what it held, and the file either what it held or
\* what was asked for; what it held, if it was the transaction that failed and no more is said
\* of the file.
AnswerIsTrue ==
    answer.known =>
        IF answer.outcome = "done"
        THEN stored = answer.asked.settings /\ file = answer.asked.file
        ELSE /\ stored = answer.before.settings
             /\ file \in {answer.before.file, answer.asked.file}
             /\ answer.outcome = "commit" => file = answer.before.file
=============================================================================
