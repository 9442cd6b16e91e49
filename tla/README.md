# Models and proofs of rigor-rs

rigor-rs is a static analyser for Ruby: a command line tool (`rigor check` and
its siblings), a language server (`rigor lsp`) and an MCP server over one
inference engine. This directory holds TLA+ models of its stateful parts, the
TLC configurations that check them on small instances, and TLAPS proofs about
eight parts that hold for every instance. All paths below are relative to the
repository; `lsp.rs` is `crates/rigor-cli/src/lsp.rs` and so on.

`PROJECT.json` is the index: components, runs, the source lines every
definition stands for (`map`), hazards, findings, mutants and theorems.

## 1. The system

### Components, their state and what makes them correct

| Component | State | Operations | Correct when |
| --- | --- | --- | --- |
| Language server loop (`lsp.rs`: `main_loop`, `handle_message`, `handle_result`, `request_dispatch`, `spawn_worker`) | `Session`: open buffers with versions, debounce deadlines, `in_flight`, per-URI open epochs, the project context (generation, overlay), the scale guard, the index cache, the results channel; rayon workers with their snapshots | client messages, elapsed deadlines, worker results | nothing stale or closed is displayed; no edit is lost; one worker per document; every open buffer is eventually shown |
| Scale guard (`OverlayGuard`) | `enabled`, consecutive samples over and under budget | `record`, driven by full builds and by worker results | off exactly after the last K samples were over budget; agrees with the overlay actually held |
| Index cache (`CrossFileCache`) | a map of stamped entries, a clock | `store`, `get`, `evict`, `clear` | bounded, least recently used goes first, no entry of a superseded context |
| Project files (`build_overlay`, `reharvest_sources`, `ExcludeMatcher`) | the held file table, in discovery order | full build, in-place update from watched-file events, exclude gate | the incremental table equals a rebuilt one; the gate silences only what `check` does not analyse |
| Ruby sidecar (`sidecar.rs`, `sidecar.rb`) | a child process and its pipes, `dead`, the memo, one Mutex | spawn with handshake, fold, drop | an answer belongs to its request, stays the same for the run, costs one round trip; a run starts or is refused; folds return |
| Constant folding (`rigor-infer/src/folding.rs`) | none | `fold_int` and the folds of other literals | a folded value is what Ruby computes |
| Check pipeline (`main.rs`: `analyze_files`, `cmd_check`, `cmd_baseline`) | within a run: what each file was read as, the merged harvest, the findings by stage | parallel read-and-lower, serial drain, parallel rules, merge in work-list order, exit code | what is printed does not depend on the pool; a file that fails costs its own findings only, and fails the run |
| Baseline (`baseline.rs`) | the stored buckets | generate, filter, audit, prune, the strict gate | nothing new is silenced; a group over its count surfaces whole; the gate passes only a fresh file |
| Severity, bleeding edge, suppression (`severity.rs`, `bleeding_edge.rs`, `rigor-rules/src/suppression.rs`, `suppression_markers.rs`) | none | overrides, features, profile; disable list; markers by line and by file | a stricter profile never passes what a milder one fails on; `internal-error` is never silenced |
| Configuration (`config.rs`, `lsp.rs`: `invalidate`, `reload_config`) | the loaded configuration and whether the last read failed | load with includes, reload on structural events | a later file wins; a failed read keeps the last good one and is said once; a context is of one configuration; the server ends up with what the files say |
| Analysis threads (`threads.rs`) | the job slots, the global pool | spawn with shrinking stacks, fall back to the caller | the command runs exactly once and its end is the process's |
| Inference (`rigor-infer`: `reach`, `reach_memo`, `dead`, `flow_eval`, `source_index`) | the cells of a `Typer`: memo, truthiness, dead arms, frames | what a read can hold, whether a predicate is certain, which arms are dead | a memo hit equals recomputation; what is taken for certain is certain |
| RBS index (`rigor-index/src/rbs.rs`) | two registries of classes, one by last segment and one by qualified name; immutable after load | folding declarations in; name resolution; ancestor walks; method lookup, ordering | what it denies RBS lacks; a chain it calls complete is the one RBS builds; file order does not show |
| Type lattice (`rigor-types`) | hash-consing interner | join, meet, difference, subtyping, consistency | the algebra's laws |
| Effects (`rigor-cli/src/effects`, `rigor-effects`) | summaries | collect, subsumption of labels | label order, sound joins |
| Parser lowering (`rigor-parse`), rules (`rigor-rules/src/driver.rs`) | none | one structural pass | |
| MCP server (`mcp.rs`), read-only commands (`annotate`, `type-of`, `outline`, `explain`, `doctor`, `triage`, `coverage`, `sig-gen` ...) | none between requests | one analysis and a view of it | |

### How they interact

The language server is the only long-lived concurrent part. One thread runs
`main_loop` and owns all of `Session`; it *calls* the buffer table, debouncer,
guard, cache and project context directly. It talks to workers in two ways
only: `spawn_worker` moves a snapshot (buffer text and version, open epoch,
`Arc` of the project context) into a rayon job, and each job sends one
`Computed` back on a channel. So the shared state is immutable and every
hazard is one of *lateness*: a result that arrives after an edit, a close, a
reopen or a context swap. The client talks to the loop over the LSP connection
and changes the disk behind its back; the disk is read again when a watched-file
event arrives. Workers, and the threads of `check`, share the sidecar through
one Mutex. `check` runs on the threads `threads.rs` starts; its two parallel
stages share nothing but the merged index between them, and a `Typer` belongs to
one file and one thread, so within a file the hazards are of recursion instead:
an answer computed while another is still under way.

### What is hard, and where it is addressed

`PROJECT.json` lists 40 hazards with their lines. In short:

- lateness of results across edit, close and reopen with a *reused* version
  number, swap, guard trip: `NeverPublishStale`, `ClosedShowsNothing`,
  `NoLostUpdate`, `OneInFlight`, `GenerationNamesOnePosture`,
  `GuardMatchesOverlay`, `CacheAgreesWithMarkers`;
- something that must eventually happen, with panicking workers and a debounce
  arm that runs only when nothing else is ready: `OpenBufferIsShown`;
- a cache at its limit: `StampsOrder`, `ImplementsRecencyList`;
- events that arrive late, in any order, about links, deleted directories and
  broken files: `HeldMatchesRebuild`, `GateAgreesWithCheck`;
- a configuration of several files, edited between the reads of two of them or
  while a rebuild uses it, with reads that fail: `LoadIsLaterWins`,
  `ContextIsOfOneConfig`, `DisclosesEachChangeOnce`, `Converges`; a guard fed
  from several places: `OffAfterStrikes`;
- a child that dies between or within lines, or hangs, with several threads on
  one channel: `AnswersAreRuby`, `AnswersAreStable`, `OneRoundTrip`,
  `StartEnds`, `FoldsReturn`;
- a thread that cannot be spawned, a job handed on: `ImplementsRunsOnce`,
  `PoolIsWhole`;
- files that end in any order, fail at any stage, or fail while a baseline is
  written; buckets that overlap or are at their count; a stale baseline under a
  strict gate; layers of silencing: `PoolIsInvisible`,
  `FailuresAreSeenUnlessRecorded`, `NothingNewIsSilenced`, `MarkingIsQuieter`,
  `GateMeansFresh`, `PruneShowsTheSame`, `StricterFailsToo`;
- an answer that holds only while something is being computed, kept beyond it:
  `HitsAreExact`, `MemoIsInvisible`, `CertainIsCertain`;
- namesakes folded into one entry, in the order the disk lists files; diamonds
  against cycles: `AbsenceIsReal`, `ShortNamesAreExact`, `ChainOkIsBuildable`;
- machine words against unbounded integers: `ExactElsewhere`,
  `DeclinesOnlyBoundaries`.

## 2. The modules

    OverlayGuard <--EXTENDS-- LspServer <--EXTENDS-- MCLspServer  (TLC)
         ^                       |      <--EXTENDS-- LspServerProofs (TLAPS)
         |                       +--implements (checked in MCLspServer, its safety
         |                          part proved in LspServerProofs)--> DiagnosticsPublisher
         +------EXTENDS-- ConfigReload <-- MCConfigReload (TLC), ConfigReloadProofs (TLAPS)
    ConfigFiles <---EXTENDS----+
    Baseline, Silencing <--EXTENDS-- CheckPipeline <-- MCCheckPipeline (TLC), CheckPipelineProofs (TLAPS)
    CrossFileCache --implements--> RecencyList      CrossFileCacheProofs (TLAPS)
    SpawnFallback  --implements--> RunsOnce         SpawnFallbackProofs (TLAPS)
    Sidecar <-- MCSidecar (TLC), SidecarProofs (TLAPS)
    ProjectFiles <-- MCProjectFiles (TLC), ProjectFilesProofs (TLAPS)
    IntegerFold <-- IntegerFoldProofs (TLAPS)
    ReachMemo <-- MCReachMemo           RbsIndex <-- MCRbsIndex

An operator whose comment begins with "Fault:" is a variant of the definition
below it with a bug in it; no specification uses it. `PROJECT.json` pairs each
with the property that detects it.

### LspServer (with OverlayGuard)

One action per turn of `main_loop` and one for the end of a worker.

| Action | Code |
| --- | --- |
| `DidOpen`, `DidChange`, `DidClose` | the arms of `handle_message`; opening dispatches at once, an edit arms the debouncer, closing clears the markers, bumps the epoch and drops deadline and cached index |
| `Invalidate`, `SourcesRebuilt` | `invalidate` and the full-rebuild path of `reharvest_sources`: `apply_full_overlay_build`, the guard fed with the merge time, `swap_project`, `reanalyze_open_buffers` |
| `SourcesReplaced`, `SourcesWithoutOverlay` | the in-place path, and the one without an overlay |
| `FireDue` | `fire_due`, in the timeout arm of the `select!` |
| `Compute` | `compute_diagnostics` in a worker with its `catch_unwind`, and the one send |
| `DropClosed`, `Publish`, `DropStale` | the three ways through `handle_result`, each with its tail: feeding the guard, and dropping the overlay when that trips it |
| `Shutdown` | shutdown, or the connection closing |

Abstractions. A text is the number of contents its URI has had, so "newest" is
`text[u]`; the LSP *version* restarts at 1 on reopening, which is what makes
the epoch check necessary. A measured rebuild time is whether it exceeds the
budget (`Samples`); a panic is a sample of `none`. The deadline of a debounce is
a nondeterministic subset of the pending documents. Which entry the full cache
evicts is left open here and decided exactly in `CrossFileCache`. What a project
event does to the *contents* of the overlay is `ProjectFiles`'s subject; here it
is whether a full build found files. An overlay kept in place is held whatever is
left in it: the first file of an empty project makes no overlay, the last one
removed leaves an empty one. Three history variables (`populated`, `reanalysed`,
`disabledAt`) record facts of the past that properties need; no guard reads
them.

`DiagnosticsPublisher` is what the server promises without workers, queues,
timers and caches: nothing or the newest content under the context of the
moment. `MCLspServer` gives the refinement mapping: content shown and generation,
the abstract `wanted` is `reanalysed`.

### CrossFileCache and RecencyList

The stamped map of the code, with `get` from hover and completion too (the clock
moves even on a miss). `RecencyList` is the recency order without stamps: for each
cached document the ones touched since it was, and when there are too many the one
that all others were touched since goes. The mapping compares stamps.

### ProjectFiles

The editor saves, deletes, deletes a directory whole, and retargets a symbolic
link, at any time; each leaves an event, and the server takes one or two events
in any order (`MaxBatch`) and reads the disk *then*. `Rebuilt` is what a full build would
hold. `SourcesChanged` works through a notification in order as
`reharvest_sources` does: replace every entry of the path, remove it when the
file is gone, give up in favour of a full rebuild when it cannot decide.
`Spellings` and `Gate` are `ExcludeMatcher::excludes` with the overlay
membership test and the walk for links.

### Sidecar

The parent's threads (`Call`, `Lock`, `Send`, `Read`), the start-up
(`Spawn`, `ReadHandshake`, `Receive`, `TimeOut`, `GiveUp`) and the Ruby child
(`Greet`, `Answer`, `Exit`). The pipes are queues of lines; `Exit` may leave a
partial line behind (`Cut`). The memo is asked before `dead`, a refusal is
memoised too, and `dead` is never reset, as in the code. `sidecar.rb` is modelled
only as far as its loop goes: one line in, one line out.

### ConfigFiles and ConfigReload

`ConfigFiles` is `Config::read` as operators: discovery, the includes of a file
merged under it, each included file over the ones before, keys whose lists add
up, and the circular include. A file that cannot be read or is no YAML ends the
load where it is met (`Load`, `LoadConfig`); a value that the configuration rejects
does not, for values are validated once, on the mapping that all the files come to
(`Validated`, `config.rs:625`), so that a rejected value of an included file loads
when a later file overrides it. Beside it is the reference, without any loading:
what a file reaches (`Reached`), when that can load (`Loadable`), the order in which
the files are laid down (`Order`) and what that comes to (`Laid`). `ConfigReload` is the server around it. The user
edits files at any time (`Edit`); the client begins to watch (`Watch`), or asks
for a refresh (`Refreshes`); `Notified` starts a reload, `ReadFile` reads the
files one by one, and `Finish` is the rest of `invalidate`: keep or replace the
configuration, say so when that changed, rebuild the index and the overlay, feed
the guard, swap the context. `SourceSaved` and `Sampled` are the guard's other
callers. The load asks for the next file it needs (`Needs`), which is how an
edit can fall between two reads.

### CheckPipeline, Baseline and Silencing

`Start` picks a configuration; items go through stage 1 in any order
(`ReadAndLower`, `HarvestPanics`: a file can be unreadable, not parse, be too
deep, be a template, or panic while lowered or harvested), are drained and
merged in order (`Drain`), go through stage 3 in any order (`Analyse`, where a
rule may panic), and the findings are put back in order (`Collect`). `Write` and
`Prune` are what `baseline generate` and `baseline prune` then do; `Shown` and
`Fails` what `check` prints and exits with. `Baseline` holds the buckets (`FromDiagnostics`, `Claim`,
`Silenced`, `Drifted`, `Pruned`), `Silencing` everything that can drop or
restamp a finding before the baseline sees it, in the order the code asks
(markers, disable list, then `Resolve`). The references are one file after the
other (`OneByOne`) and the run without markers.

### SpawnFallback and RunsOnce

`main` spawns the pool's workers and the command, trying a size after the other;
a spawn consumes its closure even when it is refused, so the job lies in a slot.
A started thread may run, and end, before the spawn returns. `RunsOnce` is four
states: waiting, running, finished, reported.

### ReachMemo

A typer's evaluators ask each other: what a read of a local may hold
(`LocalReach`, `Written`, `ValueReach`), whether a predicate folds
(`Truthiness`), which arms are dead (`DeadPositions`). They are recursive
functions from the typer's cells to an answer with the cells after it; a step of
the system is one question of the rules. The memo's frames, the reads present on
and tested against the stack, the folds in flight and the barriers are as in
`reach_memo.rs`. Every question is put to two typers, one of which never looks
its memo up. `Held` is a reference of another kind, a least fixpoint of what
each read can hold over the arms that can run.

The answers of a typer *do* depend on the order of the questions (a fold that
met itself is not repeated); what holds is that the memo does not add to that
(`MemoIsInvisible`), and that no order makes a typer certain of what is not so
(`CertainIsCertain`).

### RbsIndex

Files are read one by one (`Load`) and their declarations folded, nested ones
first, into the registry of last segments (`Merge`: the first top-level
declaration of a name settles its superclass) and the qualified one
(`MergeQualified`: references kept as written, with the scope they are looked up
in). `Finish` gives classes their default superclass. `Collect` walks last
segments and treats a missing name as incompleteness; `CollectQualified` resolves
each written reference and stops at a cycle, a dangling name or a superclass that
is a module. The reference (`Environment`, `Above`, `Builds`, `SurfaceOf`) is RBS
over sets of declarations: no order, no registries.

`class_ordering` gives every module but three a superclass `Object`, so what
`ShortNamesAreExact` says is about classes.

### IntegerFold

`fold_int`'s arithmetic and shifts on `Width`-bit words against Ruby's unbounded
integers. `checked_div_euclid`, `ruby_mod` and the wrapping shift are translated
from what the machine does, `Ruby` from what Ruby does. `CheckedPow` takes exponents
from 0 to `MaxExponent` (`u32::MAX` in the code, `folding.rs:349`) and declines the
others, whatever the base.

## 3. The runs

| Run | Instance | Shows |
| --- | --- | --- |
| `language_server` | 2 documents, cache of 1, 2 contents each, 1 project event, K = 2; 410 thousand states | the safety properties of section 1, `OpenBufferIsShown`, and that the server implements `DiagnosticsPublisher`, its liveness included |
| `index_cache` | 3 documents, cache of 2, clock up to 6; 2280 states | `StampsOrder`, `ImplementsRecencyList` |
| `project_files` | an excluded file, a file in a directory of its own, a possible link, a file outside the roots; 2 contents; 30 thousand states | `HeldMatchesRebuild`, `GateAgreesWithCheck` |
| `config_reload` | 4 files of up to 4 documents each, in one another's includes, 2 edits or refreshes, K = 2; 89 thousand states | `LoadIsLaterWins`, `ContextIsOfOneConfig`, `DisclosesEachChangeOnce`, `Converges`, `OffAfterStrikes` |
| `sidecar` | 2 threads, 2 calls each, 2 answers and 1 refusal; 27 thousand states | the five properties of the sidecar |
| `spawn_fallback` | 2 workers and the command, 3 sizes, 2 exit codes; 639 states | `PoolIsWhole`, `ImplementsRunsOnce` |
| `check_pipeline` | 2 analysed files with 12 contents between them, 1 discovered, 4 configurations, 2 baselines to start from; 216 thousand states | the seven properties of a run and its baseline |
| `reach_memo` | all 2240 files of 3 reads and 2 predicates that `MCPrograms` spans, every order of questions; 80 thousand states | `HitsAreExact`, `MemoIsInvisible`, `CertainIsCertain` |
| `rbs_index` | up to 4 of 15 signature files after a core, every order; 71 thousand states | `AbsenceIsReal`, `ChainOkIsBuildable`, `ShortNamesAreExact` |
| `integer_fold` | 4-bit words, all operand pairs, 11 methods | `ExactElsewhere`, `DeclinesOnlyBoundaries` |
| `integer_fold_division`, `baseline_hides_crash` | as above | the two findings of section 4 |

`LspServerLarge.cfg` checks the safety of the server, `TypeOK` included, with
2 project events and document symmetry (1.3 million states).

Why the bounds are enough. *Language server:* two documents are what it takes to
evict, to trip the guard by one document's result while another is idle, and to
reanalyse more than was asked for; two contents give edit against result and
close-and-reopen with version 1 again; one event and a trip of the guard give two
swaps, and so a result from before a swap that lands after the next one; K = 2
distinguishes a streak from a sample. The safety of this model is in addition
proved for every value, so the bounds only matter for its liveness, refinement
and findings. *Cache:* with three documents over two slots every order of store,
hit, close and swap that matters to one eviction occurs before the clock reaches
6. *Project files:* the table can hold one file twice (through the link), the
file can be excluded under one name and not the other, and a notification may
name both. *Configuration:* the files can include each other twice over and in a
circle; an edit before, between and after the reads of a load takes two edits,
and two over-budget builds take a start and a refresh; a rejected value stands in an
included file, in some combinations overridden by a later file and in others not,
and another stands among the entries of a list, which nothing takes back.
*Sidecar:* two threads on
the Mutex, a repeated fold, a fold after the child's death. *Threads:* a refusal
for each of the first, a later and the last size, two workers so that one is
already running while another is refused; proved for all numbers. *Check:* two
analysed files are an order, the third is only harvested; messages of which one
contains the other make buckets overlap; the counts reach a bucket's, one below
and one above. *Reach:* three reads and two predicates close cycles through each
other's values and conditions, in which every kind of dependency occurs; the
depth limit `Cap` (4 in the code) is 2 so that it is reached. *RBS:* four files
make a class, its base, a reopening and a namesake, in any order; a cycle through
two modules and a diamond each take fewer. *Words:* nothing in `fold_int` depends
on the width except its ends, the shift limit and the largest exponent it takes;
with 4 bits every pair of operands is tried, and `MaxExponent` = 4 leaves exponents
from 5 to 7 to be refused, those of the bases -1, 0 and 1 among them.

Deadlock is checked in `spawn_fallback`, `check_pipeline` and `config_reload`,
whose models can always go on. The other
configurations say `CHECK_DEADLOCK FALSE` because the model has a normal end:
the server stops, the client or the clock has used up its bound, the child is
dropped, every question is answered, the index is finished, the fold is done.
That no wait of the server or the sidecar is for ever is shown by their liveness
properties instead.

### Fairness

`language_server` assumes, per document: the rayon pool finishes every job
(`catch_unwind` turns a panic into a result, `lsp.rs` `spawn_worker`); the loop
receives from its channel, which is first in first out, so each queued result
has its turn; and the loop takes its timeout arm when it is idle with a deadline
due. It assumes nothing of clients. `fire_due` runs *only* in the timeout arm,
so a client that types for ever, or results that keep coming, may postpone a
deadline without end; in the model the contents and project events are bounded,
so liveness says: once the client is quiet, everything open is shown.

`sidecar` assumes that analysis threads and start-up steps run on, and, for
`FoldsReturn`, that Ruby answers a request it has read or dies. Ruby need not
greet at all (`StartEnds` rests on the timeout). The Mutex need not be fair,
because a file has finitely many calls.

`spawn_fallback` assumes that `main` runs on and that the command's thread, once
started, gets to run; not that the command ends, nor that a worker does.
`config_reload` assumes that the loop thread goes on reading, finishes its reload
and handles the notifications it has; of the client and of the user it assumes
nothing.

## 4. What the code does differently from what it says

Two are runs that TLC must find violated, in `PROJECT.json` under `findings`:

- `integer_fold_division` / `ByteExact`: division by a negative divisor that
  leaves a remainder folds to a quotient Ruby does not give (`folding.rs:334`):
  `7 / -2` folds to -3 where Ruby answers -4.
- `baseline_hides_crash` / `FailuresAreSeen`: the row of a file that panicked has
  the rule `internal-error`, so `baseline generate` records a bucket for it and
  later checks of the panicking file exit 0 (`main.rs:3256` against the comments
  at `:3248` and `:1288`).

The others have a configuration of their own, which TLC refutes, and no entry in
the index:

| Configuration (module) | Property | What it shows |
| --- | --- | --- |
| `LspCacheStale.cfg` (LspServer) | `CacheNeverStaler` | a dispatch without an index publishes but leaves the previous content's index cached: `lsp.rs:2675` against `:1620` |
| `LspTripKeepsMarkers.cfg` (LspServer) | `TrippedGuardFallsBack` | a result that trips the guard does not reanalyse idle documents, whose cross-file markers stay: `lsp.rs:2714` against `:1275` |
| `LspStaleSample.cfg` (LspServer) | `SamplesDescribeThePosture` | a sample from before the overlay was dropped is counted after it was built again: `lsp.rs:2703` against `:1026` |
| `ConfigReloadReEnable.cfg` (MCConfigReload) | `ReEnablesAfterStrikes` | one cheap sample while disabled turns the guard on again, where the doc of the struct asks for as many as disabled it (the comment in `record` describes the code): `lsp.rs:1040` against `:998` |
| `ConfigReloadUnseen.cfg` (MCConfigReload) | `EditsTakeEffect` | an edit of an included file that no registered glob matches, or before the client watches, is not noticed: against `docs/notes/20260801-lsp-config-reload.md:50` |
| `ProjectFilesEmptied.cfg` (MCProjectFiles) | `OverlayMatchesRebuild` | the last held file removed in place leaves an overlay that is on and empty: `lsp.rs:2174` against `:2060` |
| `ProjectFilesRelinked.cfg` (MCProjectFiles) | `HeldMatchesRebuild` | a held plain file that becomes a link to another held one: the event resolves to the target, whose entry is replaced, and the old entry stays: `lsp.rs:2120` against `:2060` |
| `ProjectFilesLinkOutside.cfg` (MCProjectFiles) | `HeldMatchesRebuild` | a project link points to a file outside the roots that did not parse; once it does, its event is ignored as out of scope, and a rebuild would hold it: `lsp.rs:2148` against `:2060` |
| `SidecarRespawn.cfg` (MCSidecar) | `CrashCostsOneCall` | a dead child is never replaced: `sidecar.rs:179` against ADR-0008:34 |
| `SidecarHang.cfg` (MCSidecar) | `FoldsReturn` | a child that stops answering after its handshake blocks every thread: the read of an answer has no timeout (`sidecar.rs:178` against `:12`) |
| `BaselineMessageMode.cfg` (MCCheckPipeline) | `WrittenIsSilent` | in message mode a bucket's pattern is not anchored, so messages that contain one another share buckets and a check right after generate shows findings: against the doc at `baseline.rs:3` |
| `RbsIndexDivergences.cfg` (MCRbsIndex), with `-continue` | `ExplicitSuperclassWins` | a top-level reopening without a superclass, read first, claims the slot, and the superclass declared in a later file is ignored: `rbs.rs:5550` against the comment at `:5526` |
| `RbsIndexDivergences.cfg` (MCRbsIndex), with `-continue` | `CollapseOnlyAdds` | an ancestor looked up by last segment is another class, and a method is denied by `class_has_method`: against the comment at `rbs.rs:5510` |
| `RbsIndexDivergences.cfg` (MCRbsIndex), with `-continue` | `LaterIncludeIsFirst` | the includes are walked in the order they are written, where Ruby searches the later one first: `rbs.rs:2808` against the doc at `:2723` |
| `IntegerFoldCorners.cfg` (IntegerFold), with `-continue` | `ByteExact`, `NeverPanics` | bits shifted out of the word are lost: `1 << 63` folds to the least word (`folding.rs:361`); the least word `% -1` traps (`folding.rs:384`) |

Smaller ones met on the way and left to the text: `severity.rs:14` says of the
strict profile that every rule is an error, and its table has rules that are not;
a comment in `analyze_files` says that `disable: [all]` leaves a row standing
that the code drops; `prune` after a file failed drops that file's buckets, whose
findings come back once it is mended.

`project_files` therefore checks `HeldMatchesRebuild` with links that stay
within the roots, and lets only an excluded file, which is not held, be turned into one;
`integer_fold` excludes exactly the three corners named by `Departs`, and
`DeclinesOnlyBoundaries` names what else the code refuses although Ruby's result is a
word: shifts by a count outside the range, and the powers of -1, 0 and 1 with an exponent beyond `u32::MAX` (`1 ** 4294967296`).

## 5. What is proved

TLAPS checks `LspServerProofs`, `CrossFileCacheProofs`, `ConfigReloadProofs`,
`ProjectFilesProofs`, `SpawnFallbackProofs`, `SidecarProofs`, `IntegerFoldProofs`
and `CheckPipelineProofs` (about 10600 obligations), for every set of documents,
paths, configuration files, threads, folds, workers, sizes and word widths, every
work list, findings, configuration and baseline, and without the bounds' values
mattering. Every safety property of a passing run is proved (of the two refinements
with fairness, the safety part) but those of `ReachMemo` and `RbsIndex`; the reasons
are at the end of this section.

Assumptions: `WidthAssumption` (a word has at least two bits), `OpsAssumption`
(the methods modelled), `AnswersAssumption` (no refusal is an integer) and
`PowersAssumption` (the powers of two up to the width, and those of every word other
than zero, follow their recursion: arithmetic that the provers do not know),
`ExponentAssumption` (the largest exponent is at least the width),
`StrikesAssumption` (K is a positive natural), `WalkAssumption`,
`ContentsAssumption` of `ProjectFiles`, `PathsAssumption` and `LinksAssumption`
(discovery walks a sequence of paths, an absent or broken file has no text, links
point to files that are none),
`CacheCapAssumption` and `CapAssumption` (the capacity is a positive natural),
`DocumentsAssumption` (there are finitely many configuration files, a document
includes files among them, and the keys that add up hold lists),
`CountsAssumption` (the numbers of workers and of sizes are naturals),
`CodesAssumption` (exit codes include failure and neither "none" nor "panic") and
`RubyAssumption` (Ruby has an answer for every fold, a partial line is neither an
answer nor the handshake, and the Mutex that is free is held by no thread);
and for `check` `WorklistAssumption`, `ContentsAssumption` of `CheckPipeline` and
`ConfigsAssumption` (the work list, a file's findings and markers and a
configuration have the fields they have), `TokensAssumption` (the markers added in
`MarkersOnlyQuieten` carry known tokens: an unknown one is itself complained about)
and `BaselinesAssumption` (a bucket read from a file has a positive count, which
the loader insists on, `baseline.rs:849`). The
code's literals satisfy them. `MaxText` and `MaxGeneration` are bounds of the
model about which nothing is assumed.

`LspServerProofs`. `NeverPublishStale` is not inductive, and neither is
`ClosedShowsNothing`: that a result with equal version, generation and epoch is
of the *newest* content needs to know how snapshots relate to documents. The
inductive invariant `IInv` says, besides types:

- `SnapshotsLagBehind`: a snapshot in a worker or in the channel is never ahead
  of its document and project; if its document is closed its epoch is older; if
  the epochs agree then equal versions mean equal contents; a snapshot of the
  current generation was taken with the overlay as it is;
- `DisplaysLagBehind`: the same for what is displayed, which belongs to an open
  document of the current epoch;
- `CacheFollowsDisplays`, `CacheIsBounded`: a cached index is of an open
  document and the displayed generation; eviction keeps the bound;
- `OneOutstanding`: `in_flight` is the set of documents of the workers and queued results,
  no two of which share a document (`OneInFlight` without counting);
- `ReanalysedIsPast`, `NoLostUpdate`, `GuardMatchesOverlay`.

From it: `TypeCorrect`, `UpdatesAreKept`, `ClosedIsCleared`, `OnePosture`,
`CacheAgrees`, `GuardAndOverlay`, `OneAnalysis` (with `Cardinality`) and the
action property `PublishesFresh`, the theorem of the project: what reaches the client is the newest
content under the context of that moment.

The last part of the module is the refinement: `ServerPublishes` is the safety part of the refinement that
`language_server` checks: under `IInv` each step of the server is one of `Write`,
`Close`, `Publish`, `ProjectEvent`, `ChangePosture` and `Stop`, or nothing the
publisher knows of. Only `Publish` needs the invariant (`SnapshotsLagBehind`: the
result that passes the stale-drop is of the newest content); a dropped result
whose sample trips the guard is a `ChangePosture`.

`CrossFileCacheProofs`: `CacheIsOrderedAndCurrent`, that stamps are distinct,
not ahead of the clock, and that no entry outlives its generation. The entry
`min_by_key` evicts is therefore unique, so the iteration order of a `HashMap`
does not show.

`CrossFileCacheProofs` also gives `EntriesAreCurrent`, which no run lists, and
`StampsAreRecency`: with distinct stamps behind the clock, comparing stamps is
comparing recency, so every store, hit, miss, close and swap is a step of
`RecencyList` or a stutter, for every capacity.

`ConfigReloadProofs`. `ContextIsOfOneConfig` speaks of the moments between
reloads; the strengthening says what the server knows *during* one: `GuardCounts`
(the samples remembered are those the guard counted, so that it is off exactly
after K of one kind), `TellsWhatItKnows` (what the user was last told is whether
the last load failed) and which configuration each part of the context is of while
the files are read. Nothing is used there of how `ReadConfig` merges, so
`ContextsAgree`, `GuardIsExact` and `TellsEachChangeOnce` hold whatever the files
are and however they include each other.

`LoadsLaterWins` in the same module is about the merge: that `load_with_includes`,
which goes down the includes with a set of the files it came through and merges on
the way back, comes to what the include graph says. Its invariant is only that the
disk holds documents; the work is in three recursions.

- The load ends (`LoadSteps`, `MergeSteps`): it visits one more file at each level,
  and there are finitely many. That these recursive functions satisfy their
  equations is itself proved, not assumed. A load that succeeds is of a `Loadable`
  file that reaches none of the files it came through (`LoadedIsLoadable`), so a
  cycle is always found, whichever of its files the load starts from, and a file
  included twice is no cycle.
- The order ends (`OrderSteps`) for a loadable file: what a file includes reaches
  fewer files than it does (`ReachesFewer`), for it does not reach that file.
- `Laid` looks at the whole order at once, the last of all positions that have a
  key; the code merges two mappings at a time. One more file is one more `Merge`
  (`LaidAppend`), `Merge` is associative also where lists add up (`MergeAssoc`),
  hence two orders one after the other are laid as what they come to is merged
  (`LaidConcat`), which is what merging sibling includes does (`MergeIsLaid`).
  `LoadableLoads` puts them together.

`ReadsAre` adds the validation of what was merged: a configuration is loaded exactly
when the include graph can load and the keys it comes to are accepted.

`ProjectFilesProofs`. `HeldMatchesRebuild` is far from inductive: it says nothing
while an event is pending. The invariant (`Tracks`) is that the held table is what
a build *would have* made of some shadow of the disk which agrees with the disk
except at paths whose event is pending. An edit leaves the shadow alone and makes
its path pending; a notification of a path moves the shadow to the disk there and
must leave the table the shadow's build (`OnePathTracks`), for a held path, one
that is gone, one that may be ignored; a batch is that, path by path
(`BatchTracks`). With nothing pending the shadow is the disk, and the table the
rebuilt one. The lemmas before it are about filtering a sequence (`Kept`): of a
filtered sequence, of one with an element more, of one whose elements change.
`IncrementalIsRebuilt` and `GateIsCheck` assume `LinksStayInside` and
`OnlyExcludedRelinked`. Both are needed: `ProjectFilesLinkOutside.cfg` and
`ProjectFilesRelinked.cfg` drop one each and are refuted (section 4).

`SpawnFallbackProofs`. That the command runs once needs to know where a job can
be: in its slot, or with a thread that runs or has run it, or inline; and that a
refused spawn left the slot alone. `Inductive` says so for every task and every
number of refusals. `RunsTheCommandOnce` is the safety part of the refinement:
the initial states map to initial states of `RunsOnce` and every step to a step
or a stutter. `ReadyPoolIsWhole` follows from the same invariant.

`SidecarProofs`. `AnswersAreRuby` is not inductive: that the line a thread reads
is the reply to its own request needs the Mutex, the child and both pipes. `IInv`
is `TypeOK` with

- `MutexInv`: the Mutex names the one thread that is sending or reading, and
  nobody folds before the handshake was usable;
- `PipeInv`: what the pipes can hold before the handshake, between two folds
  (nothing, or a partial line of a child that is gone) and while a thread waits
  (its request, or the answer to it, or what a dying child left);
- `MemoInv`: the memo holds Ruby's answer or a refusal, everything given is in
  it, and a fold that was sent is in it or being waited for.

From it `OnlyItsOwnAnswer`, `OneAnswer` and `AskedOnce`. This rests on there
being no retry: were a dead child replaced, `OneRoundTrip` would not survive.

`IntegerFoldProofs`. The invariant is only that a call's answer is `fold_int`'s; the
work is in the lemmas about the machine's division. `QuotientFacts` says what
truncation leaves, `FloorIs` that the quotient whose remainder has the divisor's
sign is Ruby's, and from the two `ModIsRubys` and `DivEuclidIsRubys` follow.
`DivEuclidLeavesTheWord`: dividing by a negative number the code gives the wrong
quotient but declines only where Ruby leaves the word too. `WrappedIsExact` is
the shift. `PowersLeaveTheWord`, by induction on the exponent, says that every base
but -1, 0 and 1 has left the word when the exponent reaches the width, so that
refusing exponents above `MaxExponent` costs only the powers of those three.
`FoldsExactly` and `DeclinesNothingElse` carry the two invariants of
`integer_fold` from words of 4 bits to those of 64.

`CheckPipelineProofs` proves all seven properties of `check_pipeline`. They speak of
sequences put together from sequences, so half of the module is about those: nearly
every stage is a `Bind`, that is, the concatenation of what a function makes of each
element, and `BindAppend`, `BindConcat`, `BindBind` and `BindOnes` (each by
`AppendInduction`) say how such concatenations compose.

- `ReportIsOneByOne`. The invariant `StagesInv` says what each stage has gathered of
  each item so far, and that stage 3 has nothing before the drain is over.
  `SortedIsJoined` is the merge: picking an item's pairs out of all of them, in order,
  gives back what that item put in. The order of the workers is gone from there on.
- `FailuresShow`. Follows the finding of a failing file through every layer that can
  drop it. `PipelineInv` adds to `StagesInv` that the baseline has positive counts,
  also after `Write` and `Prune`; the gate's theorem needs it, for a bucket of count
  zero would never drift and never be recorded again.
- `PruningIsInvisible`, `GateIsFreshness`. `SameBucket` and `SilencedIs`: findings of
  one bin have claimed one bucket, so a finding is silenced exactly when the findings of
  its bucket's tuple are within its count. Pruning removes buckets that claim nothing,
  so every finding still claims the bucket it did (`StillClaims`, `SameClaims`).
- `OnlyRecordedIsSilenced`. Counting occurrences is a `Tally`, additive over `Bind`
  (`BindTally`). `ShownTally`: what is shown is counted in the report once.
- `MarkersOnlyQuieten`. A further marker only makes `Marked` grow, so each bin keeps
  or loses members (`KeepTally`, `ReportTally`) and a bin that was within its count
  stays there (`FewerShowsFewer`). The complaints about markers do not change, for the
  token is known.
- `StricterFails`. A stricter profile only raises a finding's severity (`TableRises`,
  `ProfileRises`, over every rule and feature) and shows findings the milder one
  turned off. So each finding that fails the run is outdone by one that does
  (`ReportOutdoes`), and a bin that surfaced has only grown (`OutdoneSurfaces`).

Only model-checked: liveness under fairness (`OpenBufferIsShown`, `Converges`,
`StartEnds`, `FoldsReturn`), that of `DiagnosticsPublisher` and `RunsOnce`
included; and `ReachMemo` and `RbsIndex`, recursive through and through over nested
statements and declarations: what their recursions compute is shown on the instances
only. Of `RbsIndex` two properties would also need assumptions that the instances
meet and the code does not insist on: `AbsenceIsReal` that no chain of aliases is
longer than the bound the code follows, `ChainOkIsBuildable` that core declares
`Object` and no class has two superclasses. The library's induction theorems cannot
be used here; where an induction over a sequence or a depth was needed
(`ProjectFilesProofs`, `CheckPipelineProofs`, `ConfigReloadProofs`), it is done by
hand, from the least element of a set of counterexamples.

## 6. What is not modelled

The map covers a small part of the repository's lines. Most of its code is
translation between data without state of its own: parsing and lowering, the
type of an expression in each construct, narrowing, RBS types, signature
generation, coverage reports, option parsing, rendering. A finite model of such
a function repeats it case by case and shows less than its tests and the
comparison with the reference analyser do. What is modelled is what has an order,
a failure or a memory.

- In the language server: read-only requests (hover, completion, symbols) beyond
  the recency they give a cache entry; position conversion; the wording of
  messages.
- In the configuration: mappings nested within a key, which merge as the keys
  do; which values a key rejects (`Rejected` is the same for all keys), and what the
  rejection says; path expansion; the second read of a file for the texts of its keys; the
  moment between testing that a file exists and reading it; `config_audit`.
- In project files: overlapping roots and `paths:` entries that name a file.
- In the check pipeline: rows from plugins and conformance, path errors,
  `--fail-on`, output formats, the widening of discovery. In the baseline: its
  YAML and audit's report. In suppression: the comment syntax.
- In the sidecar: the ping of `doctor`, and what a scalar looks like on the wire.
- In reach: `MAX_REACHING_WRITES`, guards, the bindings of `for` and `rescue`,
  loops, and the identity of stacks beyond their reads.
- In the RBS index: returns, arities, overloads, the singleton side, self-types,
  interfaces, `use` clauses, absolute declaration names, stubs for missing types,
  definitions RBS cannot build for reasons other than their ancestry, plugins.
- In folding: strings, floats, symbols, booleans, the bitwise operators and
  comparisons (one machine instruction each).
- The lattice, the rules, effects, parser lowering: see above.
- MCP server and read-only commands: they keep no state.

## 7. Plan

Done: the language server with guard, abstract publisher and proofs; the index
cache with proofs; project files with proofs; configuration and its reload with
proofs; the sidecar with
proofs; the analysis threads with proofs; the check pipeline with baseline and
silencing, with proofs; reach and its memo; the RBS index; integer folding. Left, most
important first:

1. The singleton side of the RBS index, self-types, and the definitions RBS
   cannot build.
2. The lattice of `rigor-types` on a small universe, against its laws; the label
   order of `rigor-effects`.
3. Proofs: with the registries of `RbsIndex` as recursive functions, name
   resolution and the merge of entries; with the statements of `ReachMemo` ranked
   by depth, as the loads of `ConfigReload` are by the files left, the memo.
4. The floats and strings of constant folding where Ruby and the machine can
   differ.
