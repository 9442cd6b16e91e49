------------------------------- MODULE LspServer -------------------------------
(***************************************************************************)
(* The diagnostics core of `rigor lsp` (crates/rigor-cli/src/lsp.rs): one   *)
(* dispatch loop that owns the session, a pool of rayon workers that        *)
(* analyse snapshots of open buffers, and the channel their results come    *)
(* back on.  An action below is one turn of main_loop (a client message, a  *)
(* worker result, an elapsed debounce deadline) or the end of one worker.   *)
(*                                                                         *)
(* A buffer's content is the number of contents its URI has had, so that    *)
(* text[u] is always the newest; the LSP version starts again at 1 when the *)
(* document is reopened.  A worker's measured rebuild cost is abstracted to *)
(* whether it exceeds the guard's budget.                                   *)
(***************************************************************************)
EXTENDS OverlayGuard, FiniteSets

CONSTANTS
  Uris,            \* the documents a client may open
  CacheCap,        \* CROSSFILE_CACHE_CAP
  MaxText,         \* bound: contents (opens and edits) of one document
  MaxGeneration    \* bound: project events are taken below this generation

ASSUME CacheCapAssumption == CacheCap \in Nat \ {0}

VARIABLES
  running,      \* main_loop has not returned
  open,         \* BufferTable: the URIs with an entry
  version,      \* BufferTable: the LSP version of the entry
  text,         \* BufferTable: the content of the entry; kept after a close
  pending,      \* Debouncer: the URIs with a deadline
  inFlight,     \* Session.in_flight
  epoch,        \* Session.epochs
  project,      \* Session.project: its generation, and whether it has an overlay
  guard,        \* Session.guard
  crossfile,    \* Session.crossfile: at most one index per URI
  workers,      \* the snapshots rayon workers are analysing
  results,      \* the Computed values queued on the results channel
  shown,        \* what the client displays for each URI
  populated,    \* history: the last full overlay build found project files
  reanalysed,   \* history: the generation open buffers were last re-analysed for
  disabledAt    \* history: the generation whose swap last switched the overlay off

docVars     == <<open, version, text, epoch>>
historyVars == <<populated, reanalysed, disabledAt>>
vars == <<running, open, version, text, pending, inFlight, epoch, project, guard,
          crossfile, workers, results, shown, populated, reanalysed, disabledAt>>
--------------------------------------------------------------------------------
(* Data *)

Projects == [generation : Nat, overlay : BOOLEAN]

\* What spawn_worker captures: the buffer's snapshot, and the project context
\* and open-epoch it will be judged by.
Snapshots == [uri : Uris, version : Nat, text : Nat, epoch : Nat,
              generation : Nat, overlay : BOOLEAN]

\* The snapshot a step takes of u once it has updated the buffers.
NewSnapshot(u, p) == [uri |-> u, version |-> version'[u], text |-> text'[u],
                      epoch |-> epoch'[u], generation |-> p.generation,
                      overlay |-> p.overlay]

\* overlay_build, and with it project_index: "none" when no overlay index was
\* built, otherwise how its cost compares with the budget.
Samples == {"none", "under", "over"}

\* A Computed: the snapshot that was analysed and its sample.
Results == [job : Snapshots, sample : Samples]

\* A cached project index: the document it was built for, with which content
\* of it and under which generation.
CachedIndexes == [uri : Uris, text : Nat, generation : Nat]

\* What the client displays: the content and context the diagnostics were
\* computed from, and whether a project index was built for them.
Displays == [text : Nat, epoch : Nat, generation : Nat, overlay : BOOLEAN,
             indexed : BOOLEAN]

Blank == [text |-> 0, epoch |-> 0, generation |-> 0, overlay |-> FALSE,
          indexed |-> FALSE]
--------------------------------------------------------------------------------
(* Steps several handlers share *)

\* CrossFileCache::store: the caches it may leave behind.  Past the capacity one
\* other entry is evicted; which one is the recency order, left to
\* CrossFileCache.tla.
Stored(e) ==
  LET others == {c \in crossfile : c.uri # e.uri} IN
    IF Cardinality(others) < CacheCap
    THEN {others \union {e}}
    ELSE {(others \ {victim}) \union {e} : victim \in others}

\* Fault: request_dispatch without its in_flight check.
DispatchWhileBusy(S, busy, due, p) ==
  LET spawned == S \intersect open' IN
    /\ inFlight' = busy \union spawned
    /\ pending' = due \ spawned
    /\ workers' = workers \union {NewSnapshot(u, p) : u \in spawned}

\* request_dispatch for every URI of S, busy and due being the session's
\* in_flight and pending sets at that point: a worker is spawned for the newest
\* snapshot of each open one that has none yet.
Dispatch(S, busy, due, p) ==
  LET spawned == (S \intersect open') \ busy IN
    /\ inFlight' = busy \union spawned
    /\ pending' = due \ spawned
    /\ workers' = workers \union {NewSnapshot(u, p) : u \in spawned}

\* Fault: swap_project leaves the cache alone.
SwapKeepingCache(overlay) ==
  /\ project' = [generation |-> project.generation + 1, overlay |-> overlay]
  /\ UNCHANGED crossfile

\* Fault: swap_project reuses the generation.
SwapInPlace(overlay) ==
  /\ project' = [generation |-> project.generation, overlay |-> overlay]
  /\ crossfile' = {}

\* swap_project: the next generation, with or without an overlay, and no
\* cached index.
Swap(overlay) ==
  /\ project' = [generation |-> project.generation + 1, overlay |-> overlay]
  /\ crossfile' = {}

\* apply_full_overlay_build: the project's files are discovered and harvested
\* again (found says whether there are any), the guard is fed the merge time.
FullOverlayBuild(found, overBudget) ==
  /\ guard' = IF found THEN Record(guard, overBudget) ELSE guard
  /\ populated' = found
  /\ Swap(guard'.enabled /\ found)
  /\ disabledAt' = IF guard.enabled /\ ~guard'.enabled
                   THEN project'.generation ELSE disabledAt

\* reanalyze_open_buffers, after a swap.
ReanalyseOpenBuffers ==
  /\ UNCHANGED docVars
  /\ Dispatch(open, inFlight, pending, project')
  /\ reanalysed' = project'.generation
--------------------------------------------------------------------------------
(* Start-up *)

Init ==
  /\ running = TRUE
  /\ open = {}
  /\ version = [u \in Uris |-> 0]
  /\ text = [u \in Uris |-> 0]
  /\ epoch = [u \in Uris |-> 0]
  /\ pending = {} /\ inFlight = {} /\ workers = {} /\ results = {}
  /\ crossfile = {}
  /\ shown = [u \in Uris |-> Blank]
  /\ populated \in BOOLEAN
  /\ guard \in IF populated THEN {Record(NewGuard, b) : b \in BOOLEAN} ELSE {NewGuard}
  /\ project = [generation |-> 0, overlay |-> guard.enabled /\ populated]
  /\ reanalysed = 0 /\ disabledAt = 0
--------------------------------------------------------------------------------
(* Client messages (handle_message) *)

\* textDocument/didOpen
DidOpen(u) ==
  /\ u \notin open /\ text[u] < MaxText
  /\ open' = open \union {u}
  /\ version' = [version EXCEPT ![u] = 1]
  /\ text' = [text EXCEPT ![u] = @ + 1]
  /\ epoch' = [epoch EXCEPT ![u] = @ + 1]
  /\ Dispatch({u}, inFlight, pending \ {u}, project)
  /\ UNCHANGED <<running, project, guard, crossfile, results, shown, historyVars>>

\* textDocument/didChange
DidChange(u) ==
  /\ u \in open /\ text[u] < MaxText
  /\ version' = [version EXCEPT ![u] = @ + 1]
  /\ text' = [text EXCEPT ![u] = @ + 1]
  /\ pending' = pending \union {u}
  /\ UNCHANGED <<running, open, epoch, inFlight, project, guard, crossfile,
                 workers, results, shown, historyVars>>

\* Fault: didClose leaves the document's markers on screen.
DidCloseWithoutClear(u) ==
  /\ u \in open
  /\ open' = open \ {u}
  /\ epoch' = [epoch EXCEPT ![u] = @ + 1]
  /\ pending' = pending \ {u}
  /\ crossfile' = {c \in crossfile : c.uri # u}
  /\ UNCHANGED <<running, version, text, inFlight, project, guard, workers,
                 results, shown, historyVars>>

\* textDocument/didClose
DidClose(u) ==
  /\ u \in open
  /\ open' = open \ {u}
  /\ epoch' = [epoch EXCEPT ![u] = @ + 1]
  /\ pending' = pending \ {u}
  /\ crossfile' = {c \in crossfile : c.uri # u}
  /\ shown' = [shown EXCEPT ![u] = Blank]
  /\ UNCHANGED <<running, version, text, inFlight, project, guard, workers,
                 results, historyVars>>

\* workspace/didChangeConfiguration, and workspace/didChangeWatchedFiles with a
\* structural path: invalidate.
Invalidate(found, overBudget) ==
  /\ project.generation < MaxGeneration
  /\ FullOverlayBuild(found, overBudget)
  /\ ReanalyseOpenBuffers
  /\ UNCHANGED <<running, results, shown>>

\* workspace/didChangeWatchedFiles with project sources: reharvest_sources.
\* Without an overlay there is nothing to harvest into.
SourcesWithoutOverlay ==
  /\ project.generation < MaxGeneration
  /\ ~project.overlay
  /\ Swap(FALSE)
  /\ ReanalyseOpenBuffers
  /\ UNCHANGED <<running, guard, results, shown, populated, disabledAt>>

\* Every changed path is held, or out of scope: entries are replaced in place.
SourcesReplaced ==
  /\ project.generation < MaxGeneration
  /\ project.overlay
  /\ Swap(TRUE)
  /\ ReanalyseOpenBuffers
  /\ UNCHANGED <<running, guard, results, shown, populated, disabledAt>>

\* Some changed path is not decidable in place: the overlay is built anew.
SourcesRebuilt(found, overBudget) ==
  /\ project.generation < MaxGeneration
  /\ project.overlay
  /\ FullOverlayBuild(found, overBudget)
  /\ ReanalyseOpenBuffers
  /\ UNCHANGED <<running, results, shown>>

\* shutdown, or the connection closing: main_loop returns.
Shutdown ==
  /\ running' = FALSE
  /\ UNCHANGED <<open, version, text, pending, inFlight, epoch, project, guard,
                 crossfile, workers, results, shown, historyVars>>
--------------------------------------------------------------------------------
(* The debounce timer (fire_due).  The select! takes its timeout arm only when *)
(* no result is waiting; which deadlines have passed by then is left open.     *)

FireDue(due) ==
  /\ results = {}
  /\ due # {}
  /\ UNCHANGED docVars
  /\ Dispatch(due, inFlight, pending \ due, project)
  /\ UNCHANGED <<running, project, guard, crossfile, results, shown, historyVars>>
--------------------------------------------------------------------------------
(* Workers: compute_diagnostics, and the one send of spawn_worker.  Analysis   *)
(* builds an overlay index when it holds one, unless it returns early (an      *)
(* excluded or unparseable buffer, a template) or panics.  Once the loop has   *)
(* returned nobody receives.                                                  *)

Compute(job, sample) ==
  /\ sample # "none" => job.overlay
  /\ workers' = workers \ {job}
  /\ results' = IF running THEN results \union {[job |-> job, sample |-> sample]}
                ELSE results
  /\ UNCHANGED <<running, docVars, pending, inFlight, project, guard, crossfile,
                 shown, historyVars>>
--------------------------------------------------------------------------------
(* Worker results (handle_result) *)

\* Fault: the version is not compared.
LiveIgnoringVersion(job) ==
  /\ job.uri \in open
  /\ job.generation = project.generation
  /\ job.epoch = epoch[job.uri]

\* A result is live when no edit, no swap and no close has overtaken it.
Live(job) ==
  /\ job.uri \in open
  /\ job.version = version[job.uri]
  /\ job.generation = project.generation
  /\ job.epoch = epoch[job.uri]

\* Fault: the guard is fed while it is off.
FeedGuardAlways(sample, cache) ==
  LET after == IF sample # "none" THEN Record(guard, sample = "over") ELSE guard
  IN /\ guard' = after
     /\ IF guard.enabled /\ ~after.enabled
        THEN /\ Swap(FALSE)
             /\ disabledAt' = project.generation + 1
        ELSE /\ crossfile' = cache
             /\ UNCHANGED <<project, disabledAt>>

\* The tail of handle_result: an enabled guard is fed the result's sample, and
\* drops the overlay when that trips it.  cache is the cache the head left.
FeedGuard(sample, cache) ==
  LET fed == sample # "none" /\ guard.enabled
      after == IF fed THEN Record(guard, sample = "over") ELSE guard
  IN /\ guard' = after
     /\ IF guard.enabled /\ ~after.enabled
        THEN /\ Swap(FALSE)
             /\ disabledAt' = project.generation + 1
        ELSE /\ crossfile' = cache
             /\ UNCHANGED <<project, disabledAt>>

\* The buffer was closed while the worker ran.
DropClosed(r) ==
  /\ r.job.uri \notin open
  /\ results' = results \ {r}
  /\ inFlight' = inFlight \ {r.job.uri}
  /\ FeedGuard(r.sample, crossfile)
  /\ UNCHANGED <<running, docVars, pending, workers, shown, populated, reanalysed>>

\* The diagnostics are published, and the index behind them is cached.
Publish(r) ==
  /\ Live(r.job)
  /\ results' = results \ {r}
  /\ inFlight' = inFlight \ {r.job.uri}
  /\ shown' = [shown EXCEPT ![r.job.uri] =
                 [text |-> r.job.text, epoch |-> r.job.epoch,
                  generation |-> r.job.generation, overlay |-> r.job.overlay,
                  indexed |-> r.sample # "none"]]
  /\ \E cache \in IF r.sample = "none" THEN {crossfile}
                  ELSE Stored([uri |-> r.job.uri, text |-> r.job.text,
                               generation |-> r.job.generation]) :
       FeedGuard(r.sample, cache)
  /\ UNCHANGED <<running, docVars, pending, workers, populated, reanalysed>>

\* Fault: a stale result is dropped and nothing is dispatched in its place.
DropStaleOnly(r) ==
  /\ r.job.uri \in open
  /\ ~Live(r.job)
  /\ results' = results \ {r}
  /\ inFlight' = inFlight \ {r.job.uri}
  /\ FeedGuard(r.sample, crossfile)
  /\ UNCHANGED <<running, docVars, pending, workers, shown, populated, reanalysed>>

\* Fault: the snapshot that was overtaken is analysed again.
DropStaleRetrying(r) ==
  /\ r.job.uri \in open
  /\ ~Live(r.job)
  /\ results' = results \ {r}
  /\ workers' = workers \union {r.job}
  /\ FeedGuard(r.sample, crossfile)
  /\ UNCHANGED <<running, docVars, pending, inFlight, shown, populated, reanalysed>>

\* An edit, a swap or a reopen overtook the result: analyse the newest content.
DropStale(r) ==
  /\ r.job.uri \in open
  /\ ~Live(r.job)
  /\ results' = results \ {r}
  /\ UNCHANGED docVars
  /\ Dispatch({r.job.uri}, inFlight \ {r.job.uri}, pending, project)
  /\ FeedGuard(r.sample, crossfile)
  /\ UNCHANGED <<running, shown, populated, reanalysed>>

HandleResult(r) == DropClosed(r) \/ Publish(r) \/ DropStale(r)
--------------------------------------------------------------------------------
HandleMessage ==
  \/ \E u \in Uris : DidOpen(u) \/ DidChange(u) \/ DidClose(u)
  \/ \E found, overBudget \in BOOLEAN :
       Invalidate(found, overBudget) \/ SourcesRebuilt(found, overBudget)
  \/ SourcesWithoutOverlay
  \/ SourcesReplaced
  \/ Shutdown

LoopStep ==
  /\ running
  /\ \/ HandleMessage
     \/ \E due \in SUBSET pending : FireDue(due)
     \/ \E r \in results : HandleResult(r)

WorkerStep == \E job \in workers, sample \in Samples : Compute(job, sample)

Next == LoopStep \/ WorkerStep

Spec == Init /\ [][Next]_vars
--------------------------------------------------------------------------------
(* Fairness: the pool finishes every job, the channel is first in first out,   *)
(* and the loop takes its timeout arm once it is idle.  Clients owe nothing.   *)

Fairness ==
  \A u \in Uris :
    /\ WF_vars(\E job \in workers, sample \in Samples :
                 job.uri = u /\ Compute(job, sample))
    /\ WF_vars(running /\ \E r \in results : r.job.uri = u /\ HandleResult(r))
    /\ WF_vars(running /\ \E due \in SUBSET pending : u \in due /\ FireDue(due))

FairSpec == Spec /\ Fairness
--------------------------------------------------------------------------------
(* Properties *)

TypeOK ==
  /\ running \in BOOLEAN
  /\ open \subseteq Uris
  /\ version \in [Uris -> Nat]
  /\ text \in [Uris -> Nat]
  /\ epoch \in [Uris -> Nat]
  /\ pending \subseteq Uris
  /\ inFlight \subseteq Uris
  /\ project \in Projects
  /\ guard \in Guards
  /\ crossfile \subseteq CachedIndexes
  /\ workers \subseteq Snapshots
  /\ results \subseteq Results
  /\ shown \in [Uris -> Displays]
  /\ populated \in BOOLEAN
  /\ reanalysed \in Nat
  /\ disabledAt \in Nat

Outstanding(u) == {job \in workers : job.uri = u}
                    \union {r \in results : r.job.uri = u}

(***************************************************************************)
(* While the loop runs, a document is in inFlight exactly when one worker   *)
(* is analysing it or one result for it is queued, and never more than one: *)
(* request_dispatch, spawn_worker and handle_result keep it so across       *)
(* edits, closes, reopens, swaps and panics.                                *)
(***************************************************************************)
OneInFlight ==
  running => \A u \in Uris :
    Cardinality(Outstanding(u)) = IF u \in inFlight THEN 1 ELSE 0

\* The client displays the newest content of u under a context no older than
\* the last project event.
Current(u) == /\ shown[u].text = text[u]
              /\ shown[u].epoch = epoch[u]
              /\ shown[u].generation >= reanalysed

(***************************************************************************)
(* No lost update: an open document that is not displayed as it is now has  *)
(* a debounce deadline or an analysis under way (main_loop's "a dropped     *)
(* stale result never leaves the latest content unpublished").              *)
(***************************************************************************)
NoLostUpdate ==
  running => \A u \in open : Current(u) \/ u \in pending \union inFlight

(***************************************************************************)
(* What reaches the client is never stale: diagnostics are published only   *)
(* for an open document, from its newest content and under the project      *)
(* context of that moment, although handle_result compares version numbers, *)
(* which a reopened document reuses, and never contents.                    *)
(***************************************************************************)
NeverPublishStale ==
  [][\A u \in Uris : shown'[u] \notin {shown[u], Blank} =>
       /\ u \in open
       /\ shown'[u].text = text[u]
       /\ shown'[u].generation = project.generation]_vars

(***************************************************************************)
(* A closed document displays nothing: no analysis that was in flight when  *)
(* didClose cleared its markers puts them back.                             *)
(***************************************************************************)
ClosedShowsNothing == \A u \in Uris \ open : shown[u] = Blank

(***************************************************************************)
(* The per-document index cache never exceeds its capacity, holds one index *)
(* per open document and none of a superseded project context, and agrees   *)
(* with the markers on screen whenever those were computed with an index.   *)
(***************************************************************************)
CacheAgreesWithMarkers ==
  /\ Cardinality(crossfile) <= CacheCap
  /\ \A c, d \in crossfile : c.uri = d.uri => c = d
  /\ \A c \in crossfile :
       /\ c.uri \in open
       /\ c.generation = project.generation
       /\ shown[c.uri].generation = c.generation
       /\ shown[c.uri].indexed => shown[c.uri].text = c.text

(***************************************************************************)
(* A generation names one posture: whatever was captured, queued, displayed *)
(* or cached under the current generation was computed with the overlay on  *)
(* exactly when it is on now.  The stale-drop by generation rests on it.    *)
(***************************************************************************)
GenerationNamesOnePosture ==
  /\ \A job \in workers \union {r.job : r \in results} :
       job.generation = project.generation => job.overlay = project.overlay
  /\ \A u \in open : shown[u].text > 0 /\ shown[u].generation = project.generation
       => shown[u].overlay = project.overlay

(***************************************************************************)
(* An overlay is held exactly while the guard is on and the last full build *)
(* found files to put in it: whatever samples arrive late, the guard never  *)
(* goes off over a held overlay, nor on without one being built.  It says   *)
(* nothing of what the overlay holds: one whose last file is removed in     *)
(* place is empty and still held, and a project that was empty gets one     *)
(* only with its next full build (ProjectFiles follows the files).          *)
(***************************************************************************)
GuardMatchesOverlay == project.overlay <=> (guard.enabled /\ populated)

(***************************************************************************)
(* Every open document is eventually displayed as it is now, unless it is   *)
(* closed or the server stops, and so after the last message for good       *)
(* (main_loop: "the final buffer state is ALWAYS eventually published").    *)
(***************************************************************************)
OpenBufferIsShown ==
  \A u \in Uris : (running /\ u \in open) ~> (~running \/ u \notin open \/ Current(u))

(***************************************************************************)
(* What CrossFileCache's doc comment says: "a cached entry is never staler  *)
(* than what the editor is currently SHOWING for that file".                *)
(***************************************************************************)
CacheNeverStaler == \A c \in crossfile : c.text >= shown[c.uri].text

(***************************************************************************)
(* What OverlayGuard::record asks of its callers: the sample of "a worker   *)
(* result produced before a disable-swap" is not passed to it.              *)
(***************************************************************************)
SamplesDescribeThePosture ==
  [][\A r \in results \ results' :
       r.sample # "none" /\ guard.enabled => r.job.generation >= disabledAt]_vars

(***************************************************************************)
(* What overlay_guard_message tells the user when the guard trips:          *)
(* "diagnostics fall back to single-file scope".  Once no analysis is due   *)
(* or under way, no open document displays cross-file diagnostics.          *)
(***************************************************************************)
TrippedGuardFallsBack ==
  ~guard.enabled /\ running =>
    \A u \in open \ (pending \union inFlight) : ~shown[u].indexed
--------------------------------------------------------------------------------
(* The strengthening the safety properties are proved from (LspServerProofs).  *)

Jobs == workers \union {r.job : r \in results}

\* A snapshot is never ahead of the document and the project it was taken of;
\* within one open-epoch its version tells whether its content is the newest.
Lags(job) ==
  /\ job.text \in 1 .. text[job.uri]
  /\ job.epoch <= epoch[job.uri]
  /\ job.generation <= project.generation
  /\ job.generation = project.generation => job.overlay = project.overlay
  /\ job.uri \notin open => job.epoch < epoch[job.uri]
  /\ job.uri \in open /\ job.epoch = epoch[job.uri] =>
       /\ job.version <= version[job.uri]
       /\ job.version = version[job.uri] => job.text = text[job.uri]

SnapshotsLagBehind ==
  /\ \A u \in open : text[u] > 0
  /\ \A job \in Jobs : Lags(job)

\* So does what the client displays, which is of the document's current epoch.
DisplayLags(u) ==
  /\ u \in open
  /\ shown[u].epoch = epoch[u]
  /\ shown[u].text \in 1 .. text[u]
  /\ shown[u].generation <= project.generation
  /\ shown[u].generation = project.generation => shown[u].overlay = project.overlay

DisplaysLagBehind == \A u \in Uris : shown[u] # Blank => DisplayLags(u)

\* A cached index belongs to an open document and the current generation.
CacheFollowsDisplays ==
  /\ \A c, d \in crossfile : c.uri = d.uri => c = d
  /\ \A c \in crossfile :
       /\ c.uri \in open
       /\ c.generation = project.generation
       /\ shown[c.uri].generation = c.generation
       /\ shown[c.uri].indexed => shown[c.uri].text = c.text

CacheIsBounded == IsFiniteSet(crossfile) /\ Cardinality(crossfile) <= CacheCap

\* OneInFlight without counting: of the workers W and the results R no two are
\* for the same document, and F is the set of documents they are for.
OnePerDocument(W, R, F) ==
  /\ \A v, w \in W : v.uri = w.uri => v = w
  /\ \A r, s \in R : r.job.uri = s.job.uri => r = s
  /\ \A w \in W, r \in R : w.uri # r.job.uri
  /\ F = {w.uri : w \in W} \union {r.job.uri : r \in R}

OneOutstanding == running => OnePerDocument(workers, results, inFlight)

ReanalysedIsPast == reanalysed <= project.generation

IInv ==
  /\ TypeOK
  /\ SnapshotsLagBehind
  /\ DisplaysLagBehind
  /\ CacheFollowsDisplays
  /\ CacheIsBounded
  /\ OneOutstanding
  /\ ReanalysedIsPast
  /\ NoLostUpdate
  /\ GuardMatchesOverlay
================================================================================
