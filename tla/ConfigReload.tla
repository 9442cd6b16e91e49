------------------------------ MODULE ConfigReload ------------------------------
(***************************************************************************)
(* The language server's configuration (crates/rigor-cli/src/lsp.rs): read *)
(* at startup and again by every structural invalidate, while the user     *)
(* edits the files.  A reload that fails keeps the last good configuration *)
(* and says so once.  invalidate then rebuilds the index and the overlay   *)
(* from the configuration and swaps the project context; each build of the *)
(* overlay is a sample for the overlay guard.                              *)
(*                                                                         *)
(* The files are read one at a time, so an edit can fall between two of    *)
(* them; a file the load needs twice is read once here.                    *)
(***************************************************************************)
EXTENDS OverlayGuard, ConfigFiles

CONSTANTS
    Documents,   \* [Files -> the documents a file can hold]
    Watched,     \* the files whose names match the globs the server registers
    Empty(_),    \* Empty(cfg): the project has no files under that configuration
    MaxEdits     \* bound: edits and refreshes of the user

(* Files holds what a document can include; the keys that add up hold      *)
(* lists, whose other elements come from the other files.                  *)
IsDocument(d) ==
    /\ d.includes \in Seq(Files)
    /\ d.keys = [k \in DOMAIN d.keys |-> d.keys[k]]
    /\ \A k \in Listed \cap DOMAIN d.keys : d.keys[k] \in Seq(ToSet(d.keys[k]))
ASSUME DocumentsAssumption ==
    /\ IsFiniteSet(Files)
    /\ \A f \in Files : \A d \in Documents[f] : IsDocument(d)

VARIABLES
    disk,        \* the documents as they are
    edits,       \* edits and refreshes so far
    watching,    \* the client has begun to watch the globs
    pending,     \* what its notifications not yet handled are about
    missed,      \* files changed unnoticed since the server last read them
    pc,          \* "starting", "idle" or "reading"
    docs,        \* the documents this read has seen so far
    cfg,         \* Session.cfg
    broken,      \* Session.config_broken
    project,     \* ProjectContext: the configurations its parts were built from
    guard,       \* Session.guard
    recent,      \* history: the last samples the guard was given, TRUE for over budget
    shown,       \* what the last read said to the user: "warning", "info" or "none"
    told         \* history: what the user has last been told, "broken" or "fine"

user   == <<disk, edits, watching>>
server == <<pc, docs, cfg, broken, project, guard, recent, shown, told>>
vars   == <<user, pending, missed, server>>

Refresh == "refresh"     \* workspace/didChangeConfiguration

Init ==
    /\ disk \in [Files -> UNION {Documents[f] : f \in Files}]
    /\ \A f \in Files : disk[f] \in Documents[f]
    /\ edits = 0
    /\ watching = FALSE
    /\ pending = {}
    /\ missed = {}
    /\ pc = "starting"
    /\ docs = [f \in {} |-> Absent]
    /\ cfg = Defaults
    /\ broken = FALSE
    /\ project = [core |-> Defaults, posture |-> Defaults, overlay |-> {}]
    /\ guard = NewGuard
    /\ recent = << >>
    /\ shown = "none"
    /\ told = "fine"

----------------------------------------------------------------------------
(* The user and the editor.                                                *)

Edit(f) ==
    /\ edits < MaxEdits
    /\ \E d \in Documents[f] \ {disk[f]} : disk' = [disk EXCEPT ![f] = d]
    /\ edits' = edits + 1
    /\ IF watching /\ f \in Watched
       THEN pending' = pending \cup {f} /\ UNCHANGED missed
       ELSE missed' = missed \cup {f} /\ UNCHANGED pending
    /\ UNCHANGED <<watching, server>>

Refreshes ==
    /\ edits < MaxEdits
    /\ edits' = edits + 1
    /\ pending' = pending \cup {Refresh}
    /\ UNCHANGED <<disk, watching, missed, server>>

(* The client acts on the registration the loop sent on entry. *)
Watch ==
    /\ ~ watching /\ pc # "starting"
    /\ watching' = TRUE
    /\ UNCHANGED <<disk, edits, pending, missed, server>>

----------------------------------------------------------------------------
(* The overlay guard's samples.                                            *)

Remember(over) ==
    LET all == Append(recent, over)
    IN  IF Len(all) > Strikes THEN Tail(all) ELSE all

(* apply_full_overlay_build and swap_project, with an index of core: an    *)
(* empty project is no sample.                                             *)
FullBuild(core, c) ==
    /\ \E over \in BOOLEAN :
          IF Empty(c) THEN UNCHANGED <<guard, recent>>
          ELSE guard' = Record(guard, over) /\ recent' = Remember(over)
    /\ project' = [core |-> core, posture |-> c,
                   overlay |-> IF guard'.enabled /\ ~ Empty(c) THEN {c} ELSE {}]

(* reharvest_sources: a project file was saved *)
SourceSaved ==
    /\ pc = "idle"
    /\ \/ project' = [project EXCEPT !.posture = cfg] /\ UNCHANGED <<guard, recent>>
       \/ project.overlay # {} /\ FullBuild(project.core, cfg)
    /\ UNCHANGED <<user, pending, missed, pc, docs, cfg, broken, shown, told>>

(* The tail of handle_result: the sample of a worker that analysed with    *)
(* the overlay.                                                            *)
Sampled(over) ==
    /\ pc = "idle" /\ recent # << >>
    /\ guard.enabled
    /\ guard' = Record(guard, over)
    /\ recent' = Remember(over)
    /\ project' = IF guard'.enabled THEN project ELSE [project EXCEPT !.posture = cfg, !.overlay = {}]
    /\ UNCHANGED <<user, pending, missed, pc, docs, cfg, broken, shown, told>>

----------------------------------------------------------------------------
(* Reading the configuration.                                              *)

(* Fault: .rigor.dist.yml is registered but not classified. *)
StructuralFirst(what) == what \in {Refresh, Discovery[1]}
(* watched_file_is_structural; a refresh always is *)
Structural(what) == what \in Watched \cup {Refresh}

(* A batch of notifications arrives (classify_watched_files). *)
Notified(batch) ==
    /\ pc = "idle" /\ batch # {}
    /\ pending' = pending \ batch
    /\ IF \E what \in batch : Structural(what)
       THEN pc' = "reading" /\ docs' = [f \in {} |-> Absent]
       ELSE UNCHANGED <<pc, docs>>
    /\ UNCHANGED <<user, missed, cfg, broken, project, guard, recent, shown, told>>

ReadFile ==
    /\ pc # "idle"
    /\ \E next \in {LoadConfig(docs)} :
           /\ next.outcome = "needs"
           /\ docs' = [f \in DOMAIN docs \cup {next.file} |->
                          IF f = next.file THEN disk[f] ELSE docs[f]]
           /\ missed' = missed \ {next.file}
    /\ UNCHANGED <<user, pending, pc, cfg, broken, project, guard, recent, shown, told>>

Say(message) ==
    /\ shown' = message
    /\ told' = CASE message = "warning" -> "broken" [] message = "info" -> "fine" [] OTHER -> told

(* Fault: a server that starts on the defaults does not remember why. *)
StartForgetting(read) ==
    /\ cfg' = read.keys
    /\ broken' = FALSE
    /\ Say(IF read.outcome = "fatal" THEN "warning" ELSE "none")
(* run: a configuration that cannot be read leaves the defaults *)
Start(read) ==
    /\ cfg' = read.keys
    /\ broken' = (read.outcome = "fatal")
    /\ Say(IF read.outcome = "fatal" THEN "warning" ELSE "none")

(* reload_config *)
Reload(read) ==
    IF read.outcome = "fatal"
    THEN /\ broken' = TRUE
         /\ Say(IF broken THEN "none" ELSE "warning")
         /\ UNCHANGED cfg
    ELSE /\ cfg' = read.keys
         /\ broken' = FALSE
         /\ Say(IF broken THEN "info" ELSE "none")

(* Fault: the index is built before the configuration is read again. *)
RebuildEarly == FullBuild(cfg, cfg')
(* What invalidate builds, once st.cfg is what it will be. *)
Rebuild == FullBuild(cfg', cfg')

Finish ==
    /\ pc # "idle"
    /\ \E merged \in {LoadConfig(docs)} : \E read \in {Validated(merged)} :
           /\ read.outcome # "needs"
           /\ IF pc = "starting" THEN Start(read) ELSE Reload(read)
    /\ Rebuild
    /\ pc' = "idle"
    /\ docs' = [f \in {} |-> Absent]
    /\ UNCHANGED <<user, pending, missed>>

Next ==
    \/ \E f \in Files : Edit(f)
    \/ Refreshes \/ Watch
    \/ SourceSaved \/ \E over \in BOOLEAN : Sampled(over)
    \/ \E batch \in SUBSET pending : Notified(batch)
    \/ ReadFile \/ Finish

(* The loop thread handles what has arrived and goes on with what it does. *)
Spec == /\ Init /\ [][Next]_vars
        /\ WF_vars(ReadFile \/ Finish)
        /\ WF_vars(\E batch \in SUBSET pending : Notified(batch))

----------------------------------------------------------------------------
(* The overlay is off exactly while the guard's samples end in Strikes     *)
(* over-budget ones, whichever builds they come from: an isolated spike    *)
(* never switches it off, and a slow project never keeps it on             *)
(* (OverlayGuard::record).                                                 *)
OffAfterStrikes == ~ guard.enabled <=> recent = [i \in 1 .. Strikes |-> TRUE]

(* A context is never built half from one configuration and half from      *)
(* another, whatever swaps it: its index, its overlay and its posture are  *)
(* of one configuration, the session's (the comment in invalidate).        *)
ContextIsOfOneConfig ==
    pc # "starting" =>
        /\ project.core = cfg
        /\ project.posture = cfg
        /\ project.overlay \subseteq {cfg}

(* The user is told of every change between a configuration that can be    *)
(* read and one that cannot, and never told the same twice, from the       *)
(* startup on (reload_config, config_broken).                              *)
DisclosesEachChangeOnce ==
    [][pc # "idle" /\ pc' = "idle" =>
          /\ (told' = "broken") = (ReadConfig(docs).outcome = "fatal")
          /\ (shown' # "none") = (told' # told)]_vars

(* Once the user stops, the server serves what the files say, or the user  *)
(* knows that it cannot, even if a read fell between two edits; except for *)
(* files that changed while nobody watched them.                           *)
Current ==
    \E now \in {ReadConfig(disk)} :
        IF now.outcome = "fatal" THEN told = "broken"
        ELSE told = "fine" /\ project.posture = now.keys
Converges == <>[](missed # {} \/ Current)

(* A file is read exactly when everything it includes is there and can be  *)
(* loaded, nothing includes itself, a file included twice being no cycle,  *)
(* and no value left in the end is rejected: one that a later file lays    *)
(* its own over does no harm, one in a list always does.  Then every key   *)
(* is the last one laid down (Config::read).  Checked as the server        *)
(* starts, since it can start on every content of the disk.                *)
LoadIsLaterWins ==
    pc = "starting" /\ edits = 0 /\ DOMAIN docs = {} => \A f \in Files :
        IF Loadable(disk, f) /\ Accepted(LaterWins(disk, f))
        THEN Read(disk, f) = Loaded(LaterWins(disk, f))
        ELSE Read(disk, f) = Fatal

(* What the doc comment of struct OverlayGuard says: the guard re-enables  *)
(* "after that many consecutive under-budget ones", that many being the    *)
(* strikes it takes to disable it.  record re-enables on the first one.    *)
ReEnablesAfterStrikes ==
    [][~ guard.enabled /\ guard'.enabled => recent' = [i \in 1 .. Strikes |-> FALSE]]_vars

(* What the notes on the reload say of the configuration: an edit takes    *)
(* effect on the next publish.  The globs leave most included files out.   *)
EditsTakeEffect == <>[]Current
================================================================================
