---------------------------- MODULE ControlPlane ----------------------------
(***************************************************************************)
(* The configuration of a chassis: how it is loaded when the process starts*)
(* (runtime/src/config.rs, runner.rs), the state that requests and events  *)
(* read it from (dynamic_state.rs), and the two admin handlers that change *)
(* it (http/handlers/admin.rs).                                            *)
(*                                                                         *)
(* A configuration is a text.  Every setting has a default, so the empty   *)
(* text parses, and means the defaults.  fs::write truncates the file and  *)
(* then writes it: a reader or a crash in between finds it empty, and two  *)
(* writers can leave a mixture.                                            *)
(***************************************************************************)
EXTENDS HttpFront, Mailer

CONSTANTS Texts,        \* texts that parse
          Malformed,    \* a text that does not
          Empty,
          SettingsOf,   \* [Texts \cup {Empty} -> what the text sets]
          Environments  \* of the process; parses: FLUX__* can be deserialized

VARIABLES files,        \* the texts on disk, by path
          writing,      \* by path: handlers that have truncated it and not written
          dynamic,      \* DynamicChassisState
          configured,   \* setting: -c, FLUX_CONFIG or the default path
          environment,  \* setting
          inTurns,      \* setting: one admin request at a time
          synced,       \* history: nobody wrote a file since dynamic was stored
          acked         \* history: the last update, answered 200, of a
                        \* configuration that came from the configured
                        \* file, until the file is truncated or edited

control == <<files, writing, dynamic, configured, environment, inTurns, synced, acked>>

DefaultPath == "spectra-flux.toml"
FromEnvironment == "environment overrides"
BuiltIn == "built-in default (in-memory)"
Paths == {DefaultPath, "custom.toml", FromEnvironment}

Exists(path) == path \in Paths /\ files[path] # NoValue
Parses(text) == text \in Texts \cup {Empty}

\* load_from_file_with_source, and the fallback in start_server.  An error, of
\* the file or of an override, means the built-in defaults, which the
\* overrides apply to only if no file was found.
Loaded(path) ==
    IF Exists(path)
    THEN IF Parses(files[path]) /\ environment.parses
         THEN [text |-> files[path], overridden |-> TRUE, path |-> path]
         ELSE [text |-> Empty, overridden |-> FALSE, path |-> BuiltIn]
    ELSE IF path = DefaultPath /\ environment.parses
         THEN [text |-> Empty, overridden |-> TRUE, path |-> FromEnvironment]
         ELSE [text |-> Empty, overridden |-> FALSE, path |-> BuiltIn]

\* raw_toml: the file that has the name of the source, if there is one.
RawText(source) == IF Exists(source) THEN files[source] ELSE Empty

\* DynamicChassisState::new as start_server calls it.
Booted ==
    LET loaded == Loaded(configured)
    IN  [version |-> 1, text |-> loaded.text, overridden |-> loaded.overridden,
         raw |-> RawText(loaded.path), path |-> loaded.path]

ReloadedUnderOldText(version, text, path) ==
    [version |-> version, text |-> text, overridden |-> FALSE, raw |-> dynamic.raw,
     path |-> path]

\* And as the handlers call it, after from_toml_str, which knows no overrides.
Reloaded(version, text, path) ==
    [version |-> version, text |-> text, overridden |-> FALSE, raw |-> text, path |-> path]

ControlInit ==
    /\ configured \in {DefaultPath, "custom.toml"}
    /\ environment \in Environments
    /\ inTurns \in BOOLEAN
    /\ files \in {[p \in Paths |-> IF p = configured THEN text ELSE NoValue] :
                     text \in Texts \cup {Malformed, NoValue}}
    /\ writing = [p \in Paths |-> {}]
    /\ dynamic = Booted
    /\ synced = FALSE
    /\ acked = NoValue

\* The mailer's section as it is in force: at boot FLUX__MAILER__PROVIDER stands
\* over the file.
MailerSection ==
    LET mailer == SettingsOf[dynamic.text].mailer
    IN  IF dynamic.overridden /\ environment.flux # Unset
        THEN [mailer EXCEPT !.default.provider = environment.flux] ELSE mailer

-----------------------------------------------------------------------------
(* handle_config_update *)

Admin(r) == req[r].kind \in {"update", "reload"} /\ InFlight(r)

\* is_admin_authorized, or 401; an update parses its body, or 400.
Authorize(r) ==
    /\ At(r, "authorize")
    /\ \/ Reply(r)
       \/ req[r].kind = "reload" /\ Goto(r, "load")
       \/ /\ req[r].kind = "update"
          /\ IF Parses(req[r].arg) THEN Goto(r, "write") ELSE Reply(r)
    /\ UNCHANGED control

TargetAlwaysDefault == DefaultPath
TargetPath == IF dynamic.path # BuiltIn THEN dynamic.path ELSE DefaultPath

\* Loads the state, and opens the file: that truncates it, or fails (500).
OpenFile(r) ==
    /\ At(r, "write")
    /\ \/ /\ files' = [files EXCEPT ![TargetPath] = Empty]
          /\ writing' = [writing EXCEPT ![TargetPath] = @ \cup {r}]
          /\ req' = [req EXCEPT ![r].pc = "writing", ![r].base = dynamic.version,
                                ![r].seen = TargetPath]
          /\ synced' = FALSE
          /\ acked' = IF dynamic.path = configured THEN NoValue ELSE acked
       \/ Reply(r) /\ UNCHANGED <<files, writing, synced, acked>>
    /\ UNCHANGED <<dynamic, configured, environment, inTurns>>

Acknowledged(r) == IF dynamic.path = configured THEN req[r].arg ELSE acked

\* Writes the text.  If another handler has written since this one truncated
\* the file, the tail of the other text may remain.
WriteFile(r) ==
    LET path == req[r].seen
        text == req[r].arg
    IN  /\ At(r, "writing")
        /\ writing' = [writing EXCEPT ![path] = @ \ {r}]
        /\ \/ /\ \E result \in IF files[path] = Empty THEN {text} ELSE {text, Malformed} :
                     files' = [files EXCEPT ![path] = result]
              /\ IF req[r].option THEN Goto(r, "store") /\ UNCHANGED acked
                 ELSE Reply(r) /\ acked' = Acknowledged(r)
           \/ Reply(r) /\ UNCHANGED <<files, acked>>
        /\ UNCHANGED <<dynamic, configured, environment, inTurns, synced>>

StoreSameVersion(r) == req[r].base
NextVersion(r) == req[r].base + 1

\* ds.store: the version follows the one that was loaded.
StoreState(r) ==
    /\ At(r, "store")
    /\ dynamic' = Reloaded(NextVersion(r), req[r].arg, req[r].seen)
    /\ synced' = (writing[req[r].seen] = {})
    /\ acked' = IF req[r].kind = "update" THEN Acknowledged(r) ELSE acked
    /\ Reply(r)
    /\ UNCHANGED <<files, writing, configured, environment, inTurns>>

-----------------------------------------------------------------------------
(* handle_config_reload *)

\* Loads the state, and reads and parses the file it names; it may not be there
\* (500) or not parse (400).
ReloadFile(r) ==
    LET text == RawText(TargetPath)
    IN  /\ At(r, "load")
        /\ \/ /\ Exists(TargetPath) /\ Parses(text)
              /\ req' = [req EXCEPT ![r].pc = "store", ![r].base = dynamic.version,
                                    ![r].seen = TargetPath, ![r].arg = text]
           \/ Reply(r)
        /\ UNCHANGED control

\* Somebody edits the configured file.
EditFile(text) ==
    /\ files[configured] # text
    /\ files' = [files EXCEPT ![configured] = text]
    /\ synced' = FALSE
    /\ acked' = NoValue
    /\ UNCHANGED <<writing, dynamic, configured, environment, inTurns>>

Administer(r) ==
    \/ Authorize(r) \/ OpenFile(r) \/ WriteFile(r) \/ StoreState(r) \/ ReloadFile(r)

\* The process is gone: what it was writing stays as it is.
ForgetWriters == writing' = [p \in Paths |-> {}]
=============================================================================
