------------------------------ MODULE NodeConfig ------------------------------
(***************************************************************************)
(* The configuration of a node: the file that failovarr/node_config.py     *)
(* loads and saves, the mirror of its visible settings in Dispatcharr's    *)
(* Plugin Settings, and the copy the running service was built with. The   *)
(* operator saves the page of the setup assistant, imports a profile or a  *)
(* private key, opens the assistant (which rotates its token) or edits the *)
(* native settings; the service protects the records an import created     *)
(* disabled. Every one of them reads the file, changes its copy and writes *)
(* all of it back, from several processes, under no common lock.           *)
(*                                                                         *)
(* A setting that both forms show is a flag. Secret stands for everything  *)
(* only the file holds: tokens, keys, the cluster secret. Each write of the*)
(* file is atomic; validation and the legacy file are left out.            *)
(***************************************************************************)
EXTENDS Integers

CONSTANTS
    Domain,     \* flags of replicated domains
    Content,    \* the domains of the content preset
    Old,        \* protection flags of the records the native form lists
    Imported,   \* protection flags of records an import creates
    MaxEdits

Protect == Old \cup Imported
Scalar == {"leader", "content", "cold", "automatic"}

\* Every setting has a key of its own.
ASSUME ConfigAssumption ==
    /\ Content \subseteq Domain
    /\ Scalar \cap (Domain \cup Protect) = {} /\ Domain \cap Protect = {}
    /\ Old \cap Imported = {}
    /\ MaxEdits \in Nat

Flag == Scalar \cup Domain \cup Protect
FollowerOnly == {"content"} \cup Domain \cup Protect

VARIABLES
    file,    \* the node configuration: [on, secret]
    mirror,  \* the Plugin Settings: the keys stored there, and those that are on
    running, \* the settings of the service
    page,    \* what the assistant's page has loaded, as [on]
    pc,      \* the operator's request
    req,     \* what it will write
    seen,    \* the configuration an import in progress has loaded
    news,    \* the protection that import adds
    want,    \* history: what the operator and the imports have asked for
    mishaps, \* history: what of "mirror", "page" and "overlap" has happened
    edits

vars == <<file, mirror, running, page, pc, req, seen, news, want, edits>>

None == [on |-> {}, secret |-> -1]

-----------------------------------------------------------------------------
(* Conversions. *)

\* normalize_redundancy_mode, of the settings it forces
Normal(on) == IF "cold" \in on THEN on \ {"automatic"} ELSE on

\* The content preset replaces a Follower's selection.
Settled(on) ==
    Normal(IF "content" \in on /\ "leader" \notin on THEN (on \ Domain) \cup Content ELSE on)

\* Mutant: a cleared box of the native form does not clear the protection.
MutantOverlay(visible, f) ==
    LET keys == IF "leader" \in visible.on THEN visible.keys \ FollowerOnly ELSE visible.keys
    IN  [f EXCEPT !.on = Settled((f.on \ (keys \ Protect)) \cup (visible.on \cap keys))]

\* _native_overlay. A Main keeps the Follower's settings of the file.
Overlay(visible, f) ==
    LET lead == "leader" \in (IF "leader" \in visible.keys THEN visible.on ELSE f.on)
        keys == IF lead THEN visible.keys \ FollowerOnly ELSE visible.keys
    IN  [f EXCEPT !.on = Settled((f.on \ keys) \cup (visible.on \cap keys))]

\* native_settings_snapshot: only protections that are on have a key.
Snapshot(f) ==
    LET on == Normal(f.on)
    IN  [keys |-> Scalar \cup Domain \cup (on \cap Protect), on |-> on]

Effective == Overlay(mirror, file)

\* A shared profile decides the redundancy mode of a Follower.
Profiled(on, cold) == Settled((on \ {"cold"}) \cup cold)

Toggled(on, flag) == IF flag \in on THEN on \ {flag} ELSE on \cup {flag}

\* The operator means the one change he makes, and what the form shows of the
\* settings that a mode or a preset decides.
Asked(form, flag) ==
    LET on    == IF flag \in form THEN want.on \ {flag} ELSE want.on \cup {flag}
        shown == Domain \cup {"automatic"}
    IN  Settled((on \ shown) \cup (Toggled(form, flag) \cap shown))

-----------------------------------------------------------------------------

Init ==
    /\ \E on \in {{}, {"leader"}, {"cold"}} : file = [on |-> on \cup Domain, secret |-> 0]
    /\ mirror = Snapshot(file)
    /\ running = file /\ want = file
    /\ page = {} /\ pc = "idle"
    /\ req = None /\ seen = None /\ news = {}
    /\ mishaps = {}
    /\ edits = 0

\* One operator, who does one thing after another.
Edit == pc = "idle" /\ edits < MaxEdits /\ edits' = edits + 1

NewSecret == want.secret + 1

\* A node keeps its role, and a Main is not shown the Follower's settings.
\* In cold standby there is no choice of automatic import.
Visible(on, flag) ==
    /\ flag # "leader"
    /\ flag \in FollowerOnly => "leader" \notin on
    /\ flag = "automatic" => "cold" \notin on

\* Dispatcharr saves its form over the stored settings.
EditNative ==
    /\ Edit
    /\ \E flag \in Flag \ Imported :
        /\ Visible(mirror.on, flag)
        /\ mirror' = [keys |-> mirror.keys \cup Scalar \cup Domain \cup Old,
                      on |-> Toggled(mirror.on, flag)]
        /\ want' = [want EXCEPT !.on = Asked(mirror.on, flag)]
    /\ UNCHANGED <<file, running, page, pc, req, seen, news>>

\* _start_setup with a rotated token, under the lock of its own process.
OpenSetup ==
    /\ Edit
    /\ req' = [Effective EXCEPT !.secret = NewSecret]
    /\ want' = [want EXCEPT !.secret = NewSecret]
    /\ pc' = "opening"
    /\ UNCHANGED <<file, mirror, running, page, seen, news>>

\* get_bootstrap answers from the file, and the page fills its form.
Load ==
    /\ pc = "idle"
    /\ page' = Settled(file.on)
    /\ UNCHANGED <<file, mirror, running, pc, req, seen, news, want, edits>>

\* import_sftp_private_key
ImportKey ==
    /\ Edit
    /\ req' = [on |-> Settled(file.on), secret |-> NewSecret]
    /\ want' = [want EXCEPT !.secret = NewSecret]
    /\ pc' = "opening"
    /\ UNCHANGED <<file, mirror, running, page, seen, news>>

\* A request that writes the file and does no more.
Store ==
    /\ pc = "opening"
    /\ file' = req
    /\ pc' = "idle" /\ req' = None
    /\ UNCHANGED <<mirror, running, page, seen, news, want, edits>>

\* save: the form replaces the settings, and empty secrets are taken from the file.
Save ==
    /\ Edit /\ page # {}
    /\ \E flag \in Flag :
        /\ Visible(page, flag)
        /\ req' = [on |-> Settled(Toggled(page, flag)), secret |-> file.secret]
        /\ want' = [want EXCEPT !.on = Asked(page, flag)]
    /\ pc' = "saving"
    /\ UNCHANGED <<file, mirror, running, page, seen, news>>

\* import_profile on a Follower: the shared settings, here the redundancy
\* mode and a secret, come from the profile, the rest from the form.
ImportProfile ==
    /\ Edit /\ page # {} /\ "leader" \notin page
    /\ \E cold \in SUBSET {"cold"} :
        /\ req' = [on |-> Profiled(page, cold), secret |-> NewSecret]
        /\ want' = [on |-> Profiled(want.on, cold), secret |-> NewSecret]
    /\ pc' = "saving"
    /\ UNCHANGED <<file, mirror, running, page, seen, news>>

Write ==
    /\ pc = "saving"
    /\ file' = req
    /\ pc' = "syncing"
    /\ UNCHANGED <<mirror, running, page, req, seen, news, want, edits>>

\* Mutant: the mirror is updated, not replaced.
MutantSync ==
    /\ pc = "syncing"
    /\ mirror' = [keys |-> mirror.keys \cup Snapshot(file).keys,
                  on |-> mirror.on \cup Snapshot(file).on]
    /\ pc' = "reloading"
    /\ UNCHANGED <<file, running, page, req, seen, news, want, edits>>

\* sync_native_settings, in a child process that reads the file.
Sync ==
    /\ pc = "syncing"
    /\ mirror' = Snapshot(file)
    /\ pc' = "reloading"
    /\ UNCHANGED <<file, running, page, req, seen, news, want, edits>>

\* The child fails, or does not end within ten seconds.
SyncFails ==
    /\ pc = "syncing"
    /\ pc' = "reloading"
    /\ UNCHANGED <<file, mirror, running, page, req, seen, news, want, edits>>

\* reconcile_service with what was saved as the visible settings; then the
\* page loads again.
Reload ==
    /\ pc = "reloading"
    /\ running' = Overlay([keys |-> Scalar, on |-> req.on], file)
    /\ page' = Settled(file.on)
    /\ pc' = "idle" /\ req' = None
    /\ UNCHANGED <<file, mirror, seen, news, want, edits>>

\* Dispatcharr restarts and the service starts by itself.
Restart ==
    /\ pc = "idle" /\ seen = None
    /\ running' = Effective
    /\ UNCHANGED <<file, mirror, page, pc, req, seen, news, want, edits>>

\* _remember_disabled_records: read, add, write.
Remember ==
    /\ seen = None /\ edits < MaxEdits
    /\ "leader" \notin running.on
    /\ \E flag \in Imported \ want.on :
        news' = {flag} /\ want' = [want EXCEPT !.on = @ \cup {flag}]
    /\ seen' = file
    /\ edits' = edits + 1
    /\ UNCHANGED <<file, mirror, running, page, pc, req>>

Remembered ==
    /\ seen # None
    /\ file' = [seen EXCEPT !.on = @ \cup news]
    /\ seen' = None /\ news' = {}
    /\ UNCHANGED <<mirror, running, page, pc, req, want, edits>>

Step ==
    \/ EditNative \/ OpenSetup \/ Load \/ ImportKey \/ Store
    \/ Save \/ ImportProfile \/ Write \/ Sync \/ SyncFails \/ Reload
    \/ Restart \/ Remember \/ Remembered

\* A save leaves an old mirror behind; it sends a page that is not what a service
\* would use; or a request and an import are in progress together.
Happens(mishap) ==
    \/ mishap = "mirror" /\ pc = "syncing" /\ pc' = "reloading" /\ mirror' # Snapshot(file)
    \/ mishap = "page" /\ pc = "idle" /\ pc' = "saving" /\ Effective.on # Settled(page)
    \/ mishap = "overlap" /\ pc' # "idle" /\ seen' # None

Next ==
    /\ Step
    /\ mishaps' = mishaps \cup {m \in {"mirror", "page", "overlap"} : Happens(m)}

Spec == Init /\ [][Next]_<<vars, mishaps>>

-----------------------------------------------------------------------------
(* Properties. *)

TypeOK ==
    /\ file.on \subseteq Flag /\ file.secret \in 0..MaxEdits
    /\ mirror.on \subseteq mirror.keys \cup Protect
    /\ mirror.keys \subseteq Flag
    /\ page \subseteq Flag
    /\ pc \in {"idle", "opening", "saving", "syncing", "reloading"}
    /\ pc = "idle" <=> req = None
    /\ seen = None <=> news = {}
    /\ want.on \subseteq Flag

\* What a start of the service would use is what was asked for, by whichever
\* form or import: a service reads the file with the mirror laid over it.
EffectiveIsIntended == pc = "idle" /\ seen = None => Effective = want

\* Types, and this as long as every mirror was written, no old page was saved
\* and no two writers overlapped (node_config.py, _native_overlay).
CarefulIsIntended == TypeOK /\ (mishaps = {} => EffectiveIsIntended)

\* "Save again to retry the mirror": once a mirror is written, nothing that an
\* older mirror or the native form held comes back over the file.
SyncRestores ==
    [][pc = "syncing" /\ mirror' # mirror => Effective' = [file EXCEPT !.on = Settled(@)]]_vars

\* "Configuration is active": the service that a save restarts has exactly what
\* was saved, whether or not the mirror was written, unless an import writes the
\* file meanwhile.
ServiceGetsSave ==
    [][pc = "reloading" /\ pc' = "idle" /\ "overlap" \notin mishaps => running' = req]_vars

=============================================================================
