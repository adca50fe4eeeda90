-------------------------------- MODULE Access --------------------------------
(***************************************************************************)
(* The access key, web sessions and API tokens (state/auth.rs, web/auth.rs,*)
(* cli.rs).  The settings are one row of a database that the daemon and    *)
(* the command line both open: each reads the row, changes it and writes   *)
(* it back whole.  A request to the daemon reads the settings first and    *)
(* looks its credential up afterwards.                                     *)
(***************************************************************************)
EXTENDS Naturals, FiniteSets

CONSTANTS
    Credential,  \* web sessions and API tokens
    NoKey,       \* password_hash: none
    MaxCommands  \* bound: commands of the command line and starts of the daemon

AccessKeys == {"k1", "k2"}
ASSUME KeysAreKeys == NoKey \notin AccessKeys

VARIABLES
    auth,        \* table auth_settings: enabled and key
    credential,  \* each: "unknown", "valid", "ended" (expired, revoked, logged out)
    daemon,      \* "down", "starting", "serving"; "unstopped": it serves, but was to stop
    copy,        \* the row as the starting daemon and the command read it
    command,     \* what the command line is at
    request,     \* the request under way for what is not open to all: by what, and how far it is
    excuse,      \* history: it has met a moment when it was to be admitted
    commands     \* bounded by MaxCommands

accessVars == <<auth, credential, daemon, copy, command, request, excuse, commands>>

Settings == [enabled : BOOLEAN, key : AccessKeys \cup {NoKey}]
Commands == {"none", "enable", "generate", "disable", "setKey", "rereads", "enableAfterKey", "shutdown"}

Daemons == {"down", "starting", "serving", "unstopped"}

AccessTypeOK ==
    /\ auth \in Settings
    /\ credential \in [Credential -> {"unknown", "valid", "ended"}]
    /\ daemon \in Daemons
    /\ copy \in [{"daemon", "cli"} -> Settings]
    /\ command \in Commands
    /\ request.state \in {"none", "arrived", "checking", "admitted", "refused"}
    /\ excuse \in BOOLEAN

AccessInit ==
    /\ auth = [enabled |-> FALSE, key |-> NoKey]
    /\ credential = [c \in Credential |-> "unknown"]
    /\ daemon = "down" /\ command = "none"
    /\ copy = [p \in {"daemon", "cli"} |-> auth]
    /\ request = [state |-> "none"]
    /\ excuse = FALSE /\ commands = 0

Counted == commands < MaxCommands /\ commands' = commands + 1

\* A request comes with the cookie of a session, with a token, or with an access key.
Bearer == Credential \cup AccessKeys
Good(by, settings, credentials) ==
    IF by \in AccessKeys THEN settings.key = by ELSE credentials[by] = "valid"

\* Whether the request, if there is one, would be admitted by what is stored now.
WouldBe(settings, credentials) ==
    request.state \in {"arrived", "checking"} /\
        (~settings.enabled \/ Good(request.by, settings, credentials))
Excused == excuse' = (excuse \/ WouldBe(auth', credential'))
-----------------------------------------------------------------------------
(* The command line: run_auth_command. *)

Run(what) ==
    /\ command = "none" /\ what \in {"enable", "generate", "disable", "setKey"}
    /\ Counted
    /\ command' = what
    /\ copy' = [copy EXCEPT !.cli = auth]
    /\ UNCHANGED <<auth, credential, daemon, request, excuse>>

\* Each read and write of the row; enabling with a new key is two of them.
Written(what, row) ==
    CASE what \in {"enable", "enableAfterKey"} -> [row EXCEPT !.enabled = TRUE]
      [] what = "disable" -> [enabled |-> FALSE, key |-> NoKey]
      [] OTHER -> row

WriteSettings ==
    /\ command \in {"enable", "generate", "disable", "setKey", "enableAfterKey"}
    /\ IF command \in {"generate", "setKey"}
       THEN \E k \in AccessKeys : auth' = [copy.cli EXCEPT !.key = k]
       ELSE auth' = Written(command, copy.cli)
    /\ command' = CASE command = "generate" -> "rereads"
                    [] command \in {"enable", "enableAfterKey"} -> "shutdown"
                    [] OTHER -> "none"
    /\ UNCHANGED <<credential, daemon, copy, request, commands>>
    /\ Excused

Rereads ==
    /\ command = "rereads" /\ command' = "enableAfterKey"
    /\ copy' = [copy EXCEPT !.cli = auth]
    /\ UNCHANGED <<auth, credential, daemon, request, excuse, commands>>

Serving == daemon \in {"serving", "unstopped"}
Stop == daemon' = "down" /\ request' = [state |-> "none"] /\ excuse' = FALSE

\* A daemon that serves is told to stop after authentication was enabled; whoever needs it next
\* starts it again.  That it could not be told is ignored.
StopDaemon ==
    /\ command = "shutdown" /\ command' = "none"
    /\ IF Serving THEN Stop \/ (daemon' = "unstopped" /\ UNCHANGED <<request, excuse>>)
       ELSE UNCHANGED <<daemon, request, excuse>>
    /\ UNCHANGED <<auth, credential, copy, commands>>
-----------------------------------------------------------------------------
(* The daemon: DaemonState::load, apply_auth_environment. *)

Start ==
    /\ daemon = "down" /\ Counted
    /\ daemon' = "starting"
    /\ copy' = [copy EXCEPT !.daemon = auth]
    /\ UNCHANGED <<auth, credential, command, request, excuse>>

\* TASKDECK_AUTH_ENABLED may be set either way or not at all; without a key it takes one from
\* TASKDECK_ACCESS_KEY, and does not start when there is none.
ServeAnyway ==
    /\ daemon = "starting"
    /\ \E on \in {TRUE, FALSE, copy.daemon.enabled} :
          auth' = [enabled |-> on, key |-> copy.daemon.key]
    /\ daemon' = "serving"
    /\ UNCHANGED <<credential, copy, command, request, excuse, commands>>
Serve ==
    /\ daemon = "starting"
    /\ \E on \in BOOLEAN, environment \in AccessKeys \cup {NoKey} :
          LET key == IF on /\ copy.daemon.key = NoKey THEN environment ELSE copy.daemon.key
          IN  IF on /\ key = NoKey THEN daemon' = "down" /\ UNCHANGED auth
              ELSE daemon' = "serving" /\ auth' = [enabled |-> on, key |-> key]
    /\ UNCHANGED <<credential, copy, command, request, excuse, commands>>

\* Whatever else ends it.
Ends == daemon # "down" /\ Stop /\ UNCHANGED <<auth, credential, copy, command, commands>>

\* login_submit with the key, or a token that is created.
Issue(c) ==
    /\ Serving /\ credential[c] = "unknown"
    /\ auth.enabled => auth.key # NoKey
    /\ credential' = [credential EXCEPT ![c] = "valid"]
    /\ UNCHANGED <<auth, daemon, copy, command, request, commands>>
    /\ Excused

\* Logout, revocation, or AUTH_SESSION_TTL_SECONDS.
End(c) ==
    /\ credential[c] = "valid"
    /\ credential' = [credential EXCEPT ![c] = "ended"]
    /\ UNCHANGED <<auth, daemon, copy, command, request, excuse, commands>>

Arrive(by) ==
    /\ Serving /\ request.state = "none"
    /\ request' = [state |-> "arrived", by |-> by]
    /\ excuse' = (~auth.enabled \/ Good(by, auth, credential))
    /\ UNCHANGED <<auth, credential, daemon, copy, command, commands>>

\* auth_middleware.
ReadSettings ==
    /\ request.state = "arrived"
    /\ request' = [request EXCEPT !.state = IF auth.enabled THEN "checking" ELSE "admitted"]
    /\ UNCHANGED <<auth, credential, daemon, copy, command, excuse, commands>>

CheckCredential_Known ==
    /\ request.state = "checking"
    /\ request' = [request EXCEPT !.state =
                      IF request.by \in Credential /\ credential[request.by] # "unknown"
                      THEN "admitted" ELSE "refused"]
    /\ UNCHANGED <<auth, credential, daemon, copy, command, excuse, commands>>
CheckCredential ==
    /\ request.state = "checking"
    /\ request' = [request EXCEPT !.state =
                      IF Good(request.by, auth, credential) THEN "admitted" ELSE "refused"]
    /\ UNCHANGED <<auth, credential, daemon, copy, command, excuse, commands>>

Answered ==
    /\ request.state \in {"admitted", "refused"}
    /\ request' = [state |-> "none"] /\ excuse' = FALSE
    /\ UNCHANGED <<auth, credential, daemon, copy, command, commands>>

AccessNext ==
    \/ \E what \in Commands : Run(what)
    \/ WriteSettings \/ Rereads \/ StopDaemon
    \/ Start \/ Serve \/ Ends
    \/ \E c \in Credential : Issue(c) \/ End(c)
    \/ \E by \in Bearer : Arrive(by)
    \/ ReadSettings \/ CheckCredential \/ Answered

AccessSpec == AccessInit /\ [][AccessNext]_accessVars
-----------------------------------------------------------------------------
(* Properties. *)

\* A request is carried out only if at some moment since it arrived authentication was off or
\* its credential or key good, whatever changes between the two looks ("revoked tokens stop
\* working immediately", README.md:458).
AdmittedForAReason == request.state = "admitted" => excuse

\* A daemon that serves with authentication on has a key by which one can log in, but for the
\* moment until the command that turned it on stops that daemon, and if it cannot stop it.
SomeoneCanLogIn ==
    daemon = "serving" /\ auth.enabled /\ auth.key = NoKey => command = "shutdown"
=============================================================================
