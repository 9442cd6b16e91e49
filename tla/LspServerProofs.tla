----------------------------- MODULE LspServerProofs -----------------------------
(***************************************************************************)
(* Proofs about LspServer, for every set of documents, every capacity and   *)
(* every number of strikes; at the end, that it implements the abstract     *)
(* publisher.                                                               *)
(***************************************************************************)
EXTENDS MCLspServer, TLAPS, FiniteSetTheorems
--------------------------------------------------------------------------------
(* Operators *)

\* Feeding a sample to a guard yields a guard.
LEMMA RecordType ==
  ASSUME NEW g \in Guards, NEW b \in BOOLEAN
  PROVE  Record(g, b) \in Guards
BY StrikesAssumption DEF Record, Guards

\* request_dispatch keeps the session's sets within their types.
LEMMA DispatchType ==
  ASSUME NEW S, NEW busy \in SUBSET Uris, NEW due \in SUBSET Uris,
         NEW p \in Projects, TypeOK,
         open' \subseteq Uris, version' \in [Uris -> Nat],
         text' \in [Uris -> Nat], epoch' \in [Uris -> Nat],
         Dispatch(S, busy, due, p)
  PROVE  /\ inFlight' \subseteq Uris
         /\ pending' \subseteq Uris
         /\ workers' \subseteq Snapshots
<1>1. PICK spawned : /\ spawned = (S \intersect open') \ busy
                     /\ inFlight' = busy \union spawned
                     /\ pending' = due \ spawned
                     /\ workers' = workers \union {NewSnapshot(u, p) : u \in spawned}
  BY DEF Dispatch
<1>2. spawned \subseteq Uris
  BY <1>1
<1>3. \A u \in spawned : NewSnapshot(u, p) \in Snapshots
  BY <1>2 DEF NewSnapshot, Snapshots, Projects
<1> QED
  BY <1>1, <1>2, <1>3 DEF TypeOK

\* swap_project installs a project and an empty cache.
LEMMA SwapType ==
  ASSUME TypeOK, NEW b \in BOOLEAN, Swap(b)
  PROVE  project' \in Projects /\ crossfile' \subseteq CachedIndexes
BY DEF TypeOK, Swap, Projects

\* A full overlay build keeps its variables within their types.
LEMMA FullOverlayBuildType ==
  ASSUME TypeOK, NEW found \in BOOLEAN, NEW b \in BOOLEAN,
         FullOverlayBuild(found, b)
  PROVE  /\ guard' \in Guards
         /\ populated' \in BOOLEAN
         /\ project' \in Projects
         /\ crossfile' \subseteq CachedIndexes
         /\ disabledAt' \in Nat
<1>1. guard' \in Guards
  BY RecordType DEF TypeOK, FullOverlayBuild
<1>2. Swap(guard'.enabled /\ found) /\ (guard'.enabled /\ found) \in BOOLEAN
  BY <1>1 DEF FullOverlayBuild, Guards
<1>3. project' \in Projects /\ crossfile' \subseteq CachedIndexes
  BY <1>2, SwapType
<1> QED
  BY <1>1, <1>3 DEF FullOverlayBuild, TypeOK, Projects

\* The tail of handle_result keeps its variables within their types.
LEMMA FeedGuardType ==
  ASSUME TypeOK, NEW sample \in Samples, NEW cache \in SUBSET CachedIndexes,
         FeedGuard(sample, cache)
  PROVE  /\ guard' \in Guards
         /\ project' \in Projects
         /\ crossfile' \subseteq CachedIndexes
         /\ disabledAt' \in Nat
<1>1. guard' \in Guards
  BY RecordType DEF TypeOK, FeedGuard
<1>2. project' \in Projects /\ crossfile' \subseteq CachedIndexes
  BY SwapType DEF TypeOK, FeedGuard
<1>3. disabledAt' \in {disabledAt, project.generation + 1}
  BY DEF FeedGuard
<1>4. project.generation + 1 \in Nat
  BY DEF TypeOK, Projects
<1> QED
  BY <1>1, <1>2, <1>3, <1>4 DEF TypeOK

\* Storing an index yields a cache of indexes.
LEMMA StoredType ==
  ASSUME TypeOK, NEW e \in CachedIndexes, NEW cache \in Stored(e)
  PROVE  cache \subseteq CachedIndexes
BY DEF TypeOK, Stored
--------------------------------------------------------------------------------
(* Type correctness *)

LEMMA InitType == Init => TypeOK
<1> SUFFICES ASSUME Init PROVE TypeOK
  OBVIOUS
<1>1. NewGuard \in Guards
  BY DEF NewGuard, Guards
<1>2. guard \in Guards
  BY <1>1, RecordType DEF Init
<1>3. project \in Projects
  BY <1>2 DEF Init, Projects, Guards
<1>4. shown \in [Uris -> Displays]
  BY DEF Init, Blank, Displays
<1> QED
  BY <1>2, <1>3, <1>4 DEF Init, TypeOK

\* Every step of the server keeps every variable within its type.
LEMMA NextType == TypeOK /\ [Next]_vars => TypeOK'
<1> SUFFICES ASSUME TypeOK, [Next]_vars PROVE TypeOK'
  OBVIOUS
<1> USE DEF historyVars, docVars
<1>1. ASSUME NEW u \in Uris, DidOpen(u) PROVE TypeOK'
  <2>1. /\ open' \subseteq Uris
        /\ version' \in [Uris -> Nat]
        /\ text' \in [Uris -> Nat]
        /\ epoch' \in [Uris -> Nat]
    BY <1>1 DEF TypeOK, DidOpen
  <2>2. /\ inFlight' \subseteq Uris
        /\ pending' \subseteq Uris
        /\ workers' \subseteq Snapshots
    BY <1>1, <2>1, DispatchType DEF TypeOK, DidOpen
  <2> QED
    BY <1>1, <2>1, <2>2 DEF TypeOK, DidOpen
<1>2. ASSUME NEW u \in Uris, DidChange(u) PROVE TypeOK'
  BY <1>2 DEF TypeOK, DidChange
<1>3. ASSUME NEW u \in Uris, DidClose(u) PROVE TypeOK'
  <2>1. shown' \in [Uris -> Displays]
    BY <1>3 DEF TypeOK, DidClose, Blank, Displays
  <2> QED
    BY <1>3, <2>1 DEF TypeOK, DidClose
<1>4. ASSUME project' \in Projects, ReanalyseOpenBuffers
      PROVE  /\ open' \subseteq Uris
             /\ version' \in [Uris -> Nat]
             /\ text' \in [Uris -> Nat]
             /\ epoch' \in [Uris -> Nat]
             /\ inFlight' \subseteq Uris
             /\ pending' \subseteq Uris
             /\ workers' \subseteq Snapshots
             /\ reanalysed' \in Nat
  <2>1. /\ open' \subseteq Uris
        /\ version' \in [Uris -> Nat]
        /\ text' \in [Uris -> Nat]
        /\ epoch' \in [Uris -> Nat]
    BY <1>4 DEF TypeOK, ReanalyseOpenBuffers
  <2>2. /\ inFlight' \subseteq Uris
        /\ pending' \subseteq Uris
        /\ workers' \subseteq Snapshots
    BY <1>4, <2>1, DispatchType DEF TypeOK, ReanalyseOpenBuffers
  <2>3. reanalysed' \in Nat
    BY <1>4 DEF ReanalyseOpenBuffers, Projects
  <2> QED
    BY <2>1, <2>2, <2>3
<1>5. ASSUME NEW found \in BOOLEAN, NEW b \in BOOLEAN,
             Invalidate(found, b) \/ SourcesRebuilt(found, b)
      PROVE  TypeOK'
  <2>1. /\ FullOverlayBuild(found, b)
        /\ ReanalyseOpenBuffers
        /\ UNCHANGED <<running, results, shown>>
    BY <1>5 DEF Invalidate, SourcesRebuilt
  <2> QED
    BY <2>1, <1>4, FullOverlayBuildType DEF TypeOK
<1>6. ASSUME SourcesWithoutOverlay \/ SourcesReplaced
      PROVE  TypeOK'
  <2>1. /\ \E b \in BOOLEAN : Swap(b)
        /\ ReanalyseOpenBuffers
        /\ UNCHANGED <<running, guard, results, shown, populated, disabledAt>>
    BY <1>6 DEF SourcesWithoutOverlay, SourcesReplaced
  <2> QED
    BY <2>1, <1>4, SwapType DEF TypeOK
<1>7. CASE Shutdown
  BY <1>7 DEF TypeOK, Shutdown
<1>8. ASSUME NEW due \in SUBSET pending, FireDue(due) PROVE TypeOK'
  <2>1. /\ open' \subseteq Uris
        /\ version' \in [Uris -> Nat]
        /\ text' \in [Uris -> Nat]
        /\ epoch' \in [Uris -> Nat]
    BY <1>8 DEF TypeOK, FireDue
  <2>2. /\ inFlight' \subseteq Uris
        /\ pending' \subseteq Uris
        /\ workers' \subseteq Snapshots
    BY <1>8, <2>1, DispatchType DEF TypeOK, FireDue
  <2> QED
    BY <1>8, <2>1, <2>2 DEF TypeOK, FireDue
<1>9. ASSUME NEW job \in workers, NEW sample \in Samples, Compute(job, sample)
      PROVE  TypeOK'
  <2>1. [job |-> job, sample |-> sample] \in Results
    BY DEF TypeOK, Results
  <2>2. results' \subseteq Results
    BY <1>9, <2>1 DEF TypeOK, Compute
  <2> QED
    BY <1>9, <2>2 DEF TypeOK, Compute
<1>10. ASSUME NEW r \in results, DropClosed(r) PROVE TypeOK'
  <2>1. r \in Results /\ r.sample \in Samples
    BY DEF TypeOK, Results
  <2> QED
    BY <1>10, <2>1, FeedGuardType DEF TypeOK, DropClosed
<1>11. ASSUME NEW r \in results, Publish(r) PROVE TypeOK'
  <2>1. r.sample \in Samples /\ r.job \in Snapshots
    BY DEF TypeOK, Results
  <2>2. PICK cache \in IF r.sample = "none" THEN {crossfile}
                       ELSE Stored([uri |-> r.job.uri, text |-> r.job.text,
                                    generation |-> r.job.generation]) :
          FeedGuard(r.sample, cache)
    BY <1>11 DEF Publish
  <2>3. [uri |-> r.job.uri, text |-> r.job.text, generation |-> r.job.generation]
          \in CachedIndexes
    BY <2>1 DEF Snapshots, CachedIndexes
  <2>4. cache \subseteq CachedIndexes
    BY <2>2, <2>3, StoredType DEF TypeOK
  <2>5. /\ guard' \in Guards
        /\ project' \in Projects
        /\ crossfile' \subseteq CachedIndexes
        /\ disabledAt' \in Nat
    BY <2>1, <2>2, <2>4, FeedGuardType
  <2>6. [text |-> r.job.text, epoch |-> r.job.epoch,
         generation |-> r.job.generation, overlay |-> r.job.overlay,
         indexed |-> r.sample # "none"] \in Displays
    BY <2>1 DEF Snapshots, Displays
  <2>7. shown' \in [Uris -> Displays]
    BY <1>11, <2>6 DEF TypeOK, Publish
  <2> QED
    BY <1>11, <2>5, <2>7 DEF TypeOK, Publish
<1>12. ASSUME NEW r \in results, DropStale(r) PROVE TypeOK'
  <2>1. r.sample \in Samples
    BY DEF TypeOK, Results
  <2>2. /\ open' \subseteq Uris
        /\ version' \in [Uris -> Nat]
        /\ text' \in [Uris -> Nat]
        /\ epoch' \in [Uris -> Nat]
    BY <1>12 DEF TypeOK, DropStale
  <2>3. /\ inFlight' \subseteq Uris
        /\ pending' \subseteq Uris
        /\ workers' \subseteq Snapshots
    BY <1>12, <2>2, DispatchType DEF TypeOK, DropStale
  <2>4. /\ guard' \in Guards
        /\ project' \in Projects
        /\ crossfile' \subseteq CachedIndexes
        /\ disabledAt' \in Nat
    BY <1>12, <2>1, FeedGuardType DEF TypeOK, DropStale
  <2> QED
    BY <1>12, <2>2, <2>3, <2>4 DEF TypeOK, DropStale
<1>13. CASE UNCHANGED vars
  BY <1>13 DEF TypeOK, vars
<1> QED
  BY <1>1, <1>2, <1>3, <1>5, <1>6, <1>7, <1>8, <1>9, <1>10, <1>11, <1>12, <1>13
     DEF Next, LoopStep, WorkerStep, HandleMessage, HandleResult

(***************************************************************************)
(* Every variable of the server always has its type.                        *)
(***************************************************************************)
THEOREM TypeCorrect == Spec => []TypeOK
<1> QED
  BY InitType, NextType, PTL DEF Spec
--------------------------------------------------------------------------------
(* Snapshots lag behind their document and project *)

\* The project context either stays or is swapped for the next generation.
Moves == project' \in Projects /\ (project' = project
                                   \/ project'.generation = project.generation + 1)

\* A snapshot that lagged still does when only the project moves.
LEMMA OldJobLags ==
  ASSUME TypeOK, Moves, UNCHANGED docVars, NEW job \in Snapshots, Lags(job)
  PROVE  Lags(job)'
BY DEF TypeOK, Moves, docVars, Lags, Snapshots, Projects

\* A snapshot just taken of an open document lags.
LEMMA NewJobLags ==
  ASSUME NEW p \in Projects, NEW u \in Uris, project' \in Projects,
         p = project' \/ p.generation < project'.generation,
         u \in open', text'[u] > 0,
         version' \in [Uris -> Nat], text' \in [Uris -> Nat], epoch' \in [Uris -> Nat],
         NEW job, job = NewSnapshot(u, p)
  PROVE  Lags(job)'
<1>1. /\ job.uri = u /\ job.version = version'[u] /\ job.text = text'[u]
      /\ job.epoch = epoch'[u] /\ job.generation = p.generation
      /\ job.overlay = p.overlay
  BY DEF NewSnapshot
<1>2. /\ text'[u] \in 1 .. text'[u] /\ epoch'[u] <= epoch'[u]
      /\ version'[u] <= version'[u]
  OBVIOUS
<1>3. /\ p.generation <= project'.generation
      /\ p.generation = project'.generation => p.overlay = project'.overlay
  BY DEF Projects
<1> QED
  BY <1>1, <1>2, <1>3 DEF Lags

\* Where the jobs come from after a dispatch.
LEMMA DispatchJobs ==
  ASSUME NEW S, NEW busy, NEW due, NEW p, Dispatch(S, busy, due, p),
         results' \subseteq results, NEW job \in Jobs'
  PROVE  job \in Jobs \/ \E u \in (S \intersect open') \ busy : job = NewSnapshot(u, p)
BY DEF Dispatch, Jobs

\* A dispatch that leaves the documents alone keeps every snapshot lagging.
LEMMA DispatchLags ==
  ASSUME TypeOK, SnapshotsLagBehind, Moves, UNCHANGED docVars,
         NEW S, NEW busy, NEW due, NEW p \in Projects,
         p = project' \/ p.generation < project'.generation,
         Dispatch(S, busy, due, p), results' \subseteq results
  PROVE  SnapshotsLagBehind'
<1>1. Jobs \subseteq Snapshots
  BY DEF TypeOK, Jobs, Results
<1>2. \A u \in open' : u \in Uris /\ text'[u] > 0
  BY DEF TypeOK, SnapshotsLagBehind, docVars
<1>3. ASSUME NEW job \in Jobs' PROVE Lags(job)'
  <2>1. CASE job \in Jobs
    BY <2>1, <1>1, OldJobLags DEF SnapshotsLagBehind
  <2>2. CASE \E u \in (S \intersect open') \ busy : job = NewSnapshot(u, p)
    BY <2>2, <1>2, NewJobLags DEF TypeOK, Moves, docVars
  <2> QED
    BY <1>3, <2>1, <2>2, DispatchJobs
<1> QED
  BY <1>2, <1>3 DEF SnapshotsLagBehind

\* What the tail of handle_result does to the project.
LEMMA FeedGuardMoves ==
  ASSUME TypeOK, NEW sample, NEW cache, FeedGuard(sample, cache)
  PROVE  Moves
<1>1. project' = project
      \/ project' = [generation |-> project.generation + 1, overlay |-> FALSE]
  BY DEF FeedGuard, Swap
<1>2. project \in Projects
  BY DEF TypeOK
<1>3. CASE project' = [generation |-> project.generation + 1, overlay |-> FALSE]
  BY <1>2, <1>3 DEF Moves, Projects
<1> QED
  BY <1>1, <1>2, <1>3 DEF Moves

\* A full overlay build moves the project on by one generation.
LEMMA FullOverlayBuildMoves ==
  ASSUME TypeOK, NEW found \in BOOLEAN, NEW b \in BOOLEAN,
         FullOverlayBuild(found, b)
  PROVE  Moves /\ crossfile' = {} /\ project'.generation = project.generation + 1
<1>1. project' \in Projects
  BY FullOverlayBuildType
<1>2. project'.generation = project.generation + 1 /\ crossfile' = {}
  BY DEF FullOverlayBuild, Swap
<1> QED
  BY <1>1, <1>2 DEF Moves

\* A step that takes no new snapshot keeps the old ones lagging.
LEMMA FewerJobsLag ==
  ASSUME TypeOK, SnapshotsLagBehind, Moves, UNCHANGED docVars, Jobs' \subseteq Jobs
  PROVE  SnapshotsLagBehind'
<1>1. Jobs \subseteq Snapshots
  BY DEF TypeOK, Jobs, Results
<1>2. \A u \in open' : text'[u] > 0
  BY DEF SnapshotsLagBehind, docVars
<1>3. \A job \in Jobs' : Lags(job)'
  BY <1>1, OldJobLags DEF SnapshotsLagBehind
<1> QED
  BY <1>2, <1>3 DEF SnapshotsLagBehind

\* Every step keeps every snapshot behind its document and the project.
LEMMA SnapshotsStep ==
  TypeOK /\ SnapshotsLagBehind /\ [Next]_vars => SnapshotsLagBehind'
<1> SUFFICES ASSUME TypeOK, SnapshotsLagBehind, [Next]_vars
             PROVE  SnapshotsLagBehind'
  OBVIOUS
<1>a. Jobs \subseteq Snapshots
  BY DEF TypeOK, Jobs, Results
<1>b. project' = project => Moves
  BY DEF TypeOK, Moves
<1>c. ASSUME NEW sample, NEW cache, FeedGuard(sample, cache)
      PROVE  Moves /\ (project = project' \/ project.generation < project'.generation)
  BY <1>c, FeedGuardMoves DEF TypeOK, Moves, Projects
<1>1. ASSUME NEW u \in Uris, DidOpen(u) PROVE SnapshotsLagBehind'
  <2>1. /\ u \notin open
        /\ open' = open \union {u}
        /\ version' = [version EXCEPT ![u] = 1]
        /\ text' = [text EXCEPT ![u] = @ + 1]
        /\ epoch' = [epoch EXCEPT ![u] = @ + 1]
        /\ Dispatch({u}, inFlight, pending \ {u}, project)
        /\ project' = project /\ results' = results
    BY <1>1 DEF DidOpen
  <2>2. \A w \in open' : w \in Uris /\ text'[w] > 0
    BY <2>1 DEF TypeOK, SnapshotsLagBehind
  <2>3. ASSUME NEW job \in Jobs' PROVE Lags(job)'
    <3>1. CASE job \in Jobs
      <4>1. Lags(job) /\ job \in Snapshots
        BY <3>1, <1>a DEF SnapshotsLagBehind
      <4>2. CASE job.uri = u
        BY <2>1, <4>1, <4>2 DEF Lags, TypeOK, Snapshots
      <4>3. CASE job.uri # u
        BY <2>1, <4>1, <4>3 DEF Lags, TypeOK, Snapshots
      <4> QED
        BY <4>2, <4>3
    <3>2. CASE \E w \in ({u} \intersect open') \ inFlight : job = NewSnapshot(w, project)
      <4>1. /\ version' \in [Uris -> Nat] /\ text' \in [Uris -> Nat]
            /\ epoch' \in [Uris -> Nat] /\ project \in Projects
        BY <2>1 DEF TypeOK
      <4> QED
        BY <2>1, <2>2, <3>2, <4>1, NewJobLags
    <3> QED
      BY <2>1, <2>3, <3>1, <3>2, DispatchJobs
  <2> QED
    BY <2>2, <2>3 DEF SnapshotsLagBehind
<1>2. ASSUME NEW u \in Uris, DidChange(u) PROVE SnapshotsLagBehind'
  <2>1. /\ version' = [version EXCEPT ![u] = @ + 1]
        /\ text' = [text EXCEPT ![u] = @ + 1]
        /\ UNCHANGED <<open, epoch, project>> /\ Jobs' = Jobs
    BY <1>2 DEF DidChange, Jobs
  <2>2. \A w \in open' : text'[w] > 0
    BY <2>1 DEF TypeOK, SnapshotsLagBehind
  <2>3. ASSUME NEW job \in Jobs' PROVE Lags(job)'
    <3>1. Lags(job) /\ job \in Snapshots
      BY <2>1, <2>3, <1>a DEF SnapshotsLagBehind
    <3>2. CASE job.uri = u
      BY <2>1, <3>1, <3>2 DEF Lags, TypeOK, Snapshots
    <3>3. CASE job.uri # u
      BY <2>1, <3>1, <3>3 DEF Lags, TypeOK, Snapshots
    <3> QED
      BY <3>2, <3>3
  <2> QED
    BY <2>2, <2>3 DEF SnapshotsLagBehind
<1>3. ASSUME NEW u \in Uris, DidClose(u) PROVE SnapshotsLagBehind'
  <2>1. /\ open' = open \ {u}
        /\ epoch' = [epoch EXCEPT ![u] = @ + 1]
        /\ UNCHANGED <<version, text, project>> /\ Jobs' = Jobs
    BY <1>3 DEF DidClose, Jobs
  <2>2. \A w \in open' : text'[w] > 0
    BY <2>1 DEF SnapshotsLagBehind
  <2>3. ASSUME NEW job \in Jobs' PROVE Lags(job)'
    <3>1. Lags(job) /\ job \in Snapshots
      BY <2>1, <2>3, <1>a DEF SnapshotsLagBehind
    <3>2. CASE job.uri = u
      BY <2>1, <3>1, <3>2 DEF Lags, TypeOK, Snapshots
    <3>3. CASE job.uri # u
      BY <2>1, <3>1, <3>3 DEF Lags, TypeOK, Snapshots
    <3> QED
      BY <3>2, <3>3
  <2> QED
    BY <2>2, <2>3 DEF SnapshotsLagBehind
<1>4. ASSUME Moves, ReanalyseOpenBuffers, results' = results
      PROVE  SnapshotsLagBehind'
  BY <1>4, DispatchLags DEF ReanalyseOpenBuffers, Moves
<1>5. ASSUME NEW found \in BOOLEAN, NEW b \in BOOLEAN,
             Invalidate(found, b) \/ SourcesRebuilt(found, b)
      PROVE  SnapshotsLagBehind'
  BY <1>4, <1>5, FullOverlayBuildMoves DEF Invalidate, SourcesRebuilt
<1>6. CASE SourcesWithoutOverlay \/ SourcesReplaced
  <2>1. /\ \E b \in BOOLEAN : Swap(b)
        /\ ReanalyseOpenBuffers
        /\ results' = results
    BY <1>6 DEF SourcesWithoutOverlay, SourcesReplaced
  <2>2. Moves
    BY <2>1, SwapType DEF Swap, Moves
  <2> QED
    BY <2>1, <2>2, <1>4
<1>7. CASE Shutdown \/ UNCHANGED vars
  <2>1. UNCHANGED docVars /\ UNCHANGED project /\ Jobs' = Jobs
    BY <1>7 DEF Shutdown, vars, docVars, Jobs
  <2> QED
    BY <2>1, <1>b, FewerJobsLag
<1>8. ASSUME NEW due \in SUBSET pending, FireDue(due) PROVE SnapshotsLagBehind'
  BY <1>8, <1>b, DispatchLags DEF FireDue, TypeOK
<1>9. ASSUME NEW job \in workers, NEW sample \in Samples, Compute(job, sample)
      PROVE  SnapshotsLagBehind'
  <2>1. UNCHANGED docVars /\ UNCHANGED project /\ Jobs' \subseteq Jobs
    BY <1>9 DEF Compute, Jobs
  <2> QED
    BY <2>1, <1>b, FewerJobsLag
<1>10. ASSUME NEW r \in results, DropClosed(r) \/ Publish(r)
       PROVE  SnapshotsLagBehind'
  <2>1. UNCHANGED docVars /\ Jobs' \subseteq Jobs
    BY <1>10 DEF DropClosed, Publish, Jobs
  <2>2. \E sample, cache : FeedGuard(sample, cache)
    BY <1>10 DEF DropClosed, Publish
  <2> QED
    BY <2>1, <2>2, <1>c, FewerJobsLag
<1>11. ASSUME NEW r \in results, DropStale(r) PROVE SnapshotsLagBehind'
  <2>1. /\ UNCHANGED docVars /\ results' \subseteq results
        /\ Dispatch({r.job.uri}, inFlight \ {r.job.uri}, pending, project)
        /\ FeedGuard(r.sample, crossfile)
    BY <1>11 DEF DropStale
  <2> QED
    BY <2>1, <1>c, DispatchLags DEF TypeOK
<1> QED
  BY <1>1, <1>2, <1>3, <1>5, <1>6, <1>7, <1>8, <1>9, <1>10, <1>11
     DEF Next, LoopStep, WorkerStep, HandleMessage, HandleResult
--------------------------------------------------------------------------------
(* Displays lag behind their document and project *)

\* The steps that only swap the project, feed the guard, or take and analyse
\* snapshots: the documents and the displays stay.
Internal == Moves /\ UNCHANGED docVars /\ UNCHANGED shown

\* Every step is one of the client's three document messages, a publication, or
\* internal.
LEMMA StepKinds ==
  ASSUME TypeOK, [Next]_vars
  PROVE  \/ \E u \in Uris : DidOpen(u) \/ DidChange(u) \/ DidClose(u)
         \/ \E r \in results : Publish(r)
         \/ Internal
<1>b. project' = project => Moves
  BY DEF TypeOK, Moves
<1>1. ASSUME NEW found \in BOOLEAN, NEW b \in BOOLEAN,
             Invalidate(found, b) \/ SourcesRebuilt(found, b)
      PROVE  Internal
  BY <1>1, FullOverlayBuildMoves
     DEF Invalidate, SourcesRebuilt, ReanalyseOpenBuffers, Internal
<1>2. CASE SourcesWithoutOverlay \/ SourcesReplaced
  <2>1. /\ \E b \in BOOLEAN : Swap(b)
        /\ UNCHANGED docVars /\ UNCHANGED shown
    BY <1>2 DEF SourcesWithoutOverlay, SourcesReplaced, ReanalyseOpenBuffers
  <2> QED
    BY <2>1, SwapType DEF Swap, Moves, Internal
<1>3. CASE Shutdown \/ UNCHANGED vars
  BY <1>3, <1>b DEF Shutdown, vars, docVars, Internal
<1>4. ASSUME NEW due \in SUBSET pending, FireDue(due) PROVE Internal
  BY <1>4, <1>b DEF FireDue, Internal
<1>5. ASSUME NEW job \in workers, NEW sample \in Samples, Compute(job, sample)
      PROVE  Internal
  BY <1>5, <1>b DEF Compute, Internal
<1>6. ASSUME NEW r \in results, DropClosed(r) \/ DropStale(r)
      PROVE  Internal
  BY <1>6, FeedGuardMoves DEF DropClosed, DropStale, Internal
<1> QED
  BY <1>1, <1>2, <1>3, <1>4, <1>5, <1>6
     DEF Next, LoopStep, WorkerStep, HandleMessage, HandleResult

\* What the live result's publication displays, and for which document.
LEMMA PublishFacts ==
  ASSUME TypeOK, SnapshotsLagBehind, NEW r \in results, Publish(r)
  PROVE  LET u == r.job.uri IN
           /\ u \in open /\ u \in Uris
           /\ UNCHANGED docVars
           /\ Moves
           /\ shown' = [shown EXCEPT ![u] =
                          [text |-> text[u], epoch |-> epoch[u],
                           generation |-> project.generation,
                           overlay |-> project.overlay,
                           indexed |-> r.sample # "none"]]
           /\ r.job.text = text[u] /\ r.job.generation = project.generation
           /\ text[u] > 0
<1>1. r.job \in Jobs /\ r.job \in Snapshots
  BY DEF Jobs, TypeOK, Results
<1>2. Lags(r.job) /\ Live(r.job)
  BY <1>1 DEF SnapshotsLagBehind, Publish
<1>3. \E sample, cache : FeedGuard(sample, cache)
  BY DEF Publish
<1>4. Moves
  BY <1>3, FeedGuardMoves
<1>5. /\ r.job.uri \in open /\ r.job.epoch = epoch[r.job.uri]
      /\ r.job.generation = project.generation
      /\ r.job.text = text[r.job.uri] /\ r.job.overlay = project.overlay
  BY <1>1, <1>2 DEF Lags, Live
<1>6. text[r.job.uri] > 0
  BY <1>5 DEF SnapshotsLagBehind
<1>7. UNCHANGED docVars
  BY DEF Publish
<1>8. shown' = [shown EXCEPT ![r.job.uri] =
                  [text |-> r.job.text, epoch |-> r.job.epoch,
                   generation |-> r.job.generation, overlay |-> r.job.overlay,
                   indexed |-> r.sample # "none"]]
  BY DEF Publish
<1> QED
  BY <1>1, <1>4, <1>5, <1>6, <1>7, <1>8 DEF Snapshots

\* Every step keeps every display behind its document and the project.
LEMMA DisplaysStep ==
  TypeOK /\ SnapshotsLagBehind /\ DisplaysLagBehind /\ [Next]_vars
    => DisplaysLagBehind'
<1> SUFFICES ASSUME TypeOK, SnapshotsLagBehind, DisplaysLagBehind, [Next]_vars,
                    NEW w \in Uris, shown'[w] # Blank
             PROVE  DisplayLags(w)'
  BY DEF DisplaysLagBehind
<1>t. /\ text[w] \in Nat /\ epoch[w] \in Nat /\ shown[w] \in Displays
      /\ shown \in [Uris -> Displays] /\ project \in Projects
      /\ text \in [Uris -> Nat] /\ epoch \in [Uris -> Nat]
  BY DEF TypeOK
<1>1. ASSUME NEW u \in Uris, DidOpen(u) PROVE DisplayLags(w)'
  <2>1. shown[w] # Blank /\ DisplayLags(w) /\ w # u
    BY <1>1 DEF DidOpen, DisplaysLagBehind, DisplayLags
  <2>2. /\ w \in open' /\ text'[w] = text[w] /\ epoch'[w] = epoch[w]
        /\ UNCHANGED <<shown, project>>
    BY <1>1, <1>t, <2>1 DEF DidOpen, DisplayLags
  <2> QED
    BY <2>1, <2>2 DEF DisplayLags
<1>2. ASSUME NEW u \in Uris, DidChange(u) PROVE DisplayLags(w)'
  <2>1. shown[w] # Blank /\ DisplayLags(w)
    BY <1>2 DEF DidChange, DisplaysLagBehind
  <2>2. /\ w \in open' /\ text'[w] \in {text[w], text[w] + 1} /\ epoch'[w] = epoch[w]
        /\ UNCHANGED <<shown, project>>
    BY <1>2, <1>t, <2>1 DEF DidChange, DisplayLags
  <2> QED
    BY <1>t, <2>1, <2>2 DEF DisplayLags
<1>3. ASSUME NEW u \in Uris, DidClose(u) PROVE DisplayLags(w)'
  <2>1. w # u
    BY <1>3, <1>t DEF DidClose
  <2>2. shown'[w] = shown[w] /\ DisplayLags(w)
    BY <1>3, <1>t, <2>1 DEF DidClose, DisplaysLagBehind
  <2>3. /\ w \in open' /\ text'[w] = text[w] /\ epoch'[w] = epoch[w]
        /\ project' = project
    BY <1>3, <1>t, <2>1, <2>2 DEF DidClose, DisplayLags
  <2> QED
    BY <2>2, <2>3 DEF DisplayLags
<1>4. ASSUME shown'[w] = shown[w], Moves, UNCHANGED docVars
      PROVE  DisplayLags(w)'
  <2>1. DisplayLags(w)
    BY <1>4 DEF DisplaysLagBehind
  <2> QED
    BY <1>4, <1>t, <2>1 DEF DisplayLags, Moves, docVars, Projects, Displays
<1>5. ASSUME NEW r \in results, Publish(r) PROVE DisplayLags(w)'
  <2> DEFINE u == r.job.uri
  <2>1. /\ u \in open /\ u \in Uris /\ UNCHANGED docVars /\ Moves
        /\ shown' = [shown EXCEPT ![u] =
                       [text |-> text[u], epoch |-> epoch[u],
                        generation |-> project.generation,
                        overlay |-> project.overlay,
                        indexed |-> r.sample # "none"]]
        /\ text[u] > 0
    BY <1>5, PublishFacts
  <2>2. CASE w # u
    BY <1>4, <1>t, <2>1, <2>2
  <2>3. CASE w = u
    <3>1. /\ shown'[w].text = text[w] /\ shown'[w].epoch = epoch[w]
          /\ shown'[w].generation = project.generation
          /\ shown'[w].overlay = project.overlay
      BY <1>t, <2>1, <2>3
    <3>2. w \in open' /\ text'[w] = text[w] /\ epoch'[w] = epoch[w] /\ text[w] > 0
      BY <2>1, <2>3 DEF docVars
    <3> QED
      BY <1>t, <2>1, <3>1, <3>2 DEF DisplayLags, Moves, Projects
  <2> QED
    BY <2>2, <2>3
<1>6. CASE Internal
  BY <1>4, <1>6 DEF Internal
<1> QED
  BY <1>1, <1>2, <1>3, <1>5, <1>6, StepKinds
--------------------------------------------------------------------------------
(* The cache *)

\* Adding an element to a finite set adds at most one to its size.
LEMMA AtMostOneMore ==
  ASSUME NEW S, NEW x, IsFiniteSet(S)
  PROVE  /\ IsFiniteSet(S \union {x})
         /\ Cardinality(S \union {x}) <= Cardinality(S) + 1
<1>1. Cardinality(S) \in Nat
  BY FS_CardinalityType
<1>2. /\ IsFiniteSet(S \union {x})
      /\ Cardinality(S \union {x}) = IF x \in S THEN Cardinality(S)
                                               ELSE Cardinality(S) + 1
  BY FS_AddElement
<1> QED
  BY <1>1, <1>2

\* Storing an index keeps the cache within its capacity.
LEMMA StoredBounded ==
  ASSUME CacheIsBounded, NEW e, NEW cache \in Stored(e)
  PROVE  IsFiniteSet(cache) /\ Cardinality(cache) <= CacheCap
<1> DEFINE others == {c \in crossfile : c.uri # e.uri}
<1>1. /\ IsFiniteSet(others) /\ Cardinality(others) \in Nat
      /\ Cardinality(others) <= Cardinality(crossfile)
      /\ Cardinality(crossfile) \in Nat
  BY FS_Subset, FS_CardinalityType DEF CacheIsBounded
<1>2. CASE Cardinality(others) < CacheCap
  <2>1. cache = others \union {e}
    BY <1>2 DEF Stored
  <2>2. IsFiniteSet(cache) /\ Cardinality(cache) <= Cardinality(others) + 1
    BY <1>1, <2>1, AtMostOneMore
  <2> QED
    BY <1>1, <1>2, <2>2, CacheCapAssumption, FS_CardinalityType
<1>3. CASE ~(Cardinality(others) < CacheCap)
  <2>1. PICK victim \in others : cache = (others \ {victim}) \union {e}
    BY <1>3 DEF Stored
  <2>2. /\ IsFiniteSet(others \ {victim})
        /\ Cardinality(others \ {victim}) = Cardinality(others) - 1
    BY <1>1, FS_RemoveElement
  <2>3. /\ IsFiniteSet(cache)
        /\ Cardinality(cache) <= Cardinality(others \ {victim}) + 1
    BY <1>1, <2>1, <2>2, AtMostOneMore
  <2> QED
    BY <1>1, <2>2, <2>3, CacheCapAssumption, FS_CardinalityType DEF CacheIsBounded
<1> QED
  BY <1>2, <1>3

\* What the live result's publication leaves in the cache.
LEMMA PublishCache ==
  ASSUME NEW r \in results, Publish(r)
  PROVE  LET e == [uri |-> r.job.uri, text |-> r.job.text,
                   generation |-> r.job.generation]
         IN \/ crossfile' = {}
            \/ project' = project /\ r.sample = "none" /\ crossfile' = crossfile
            \/ project' = project /\ r.sample # "none" /\ crossfile' \in Stored(e)
<1>1. PICK cache \in IF r.sample = "none" THEN {crossfile}
                     ELSE Stored([uri |-> r.job.uri, text |-> r.job.text,
                                  generation |-> r.job.generation]) :
        FeedGuard(r.sample, cache)
  BY DEF Publish
<1>2. crossfile' = {} \/ (crossfile' = cache /\ project' = project)
  BY <1>1 DEF FeedGuard, Swap
<1> QED
  BY <1>1, <1>2

\* Every internal step keeps the cache and the project, or empties the cache.
LEMMA InternalCache ==
  ASSUME TypeOK, [Next]_vars
  PROVE  \/ \E u \in Uris : DidOpen(u) \/ DidChange(u) \/ DidClose(u)
         \/ \E r \in results : Publish(r)
         \/ Internal /\ crossfile' = {}
         \/ Internal /\ crossfile' = crossfile /\ project' = project
<1>1. ASSUME NEW found \in BOOLEAN, NEW b \in BOOLEAN,
             Invalidate(found, b) \/ SourcesRebuilt(found, b)
      PROVE  crossfile' = {}
  BY <1>1 DEF Invalidate, SourcesRebuilt, FullOverlayBuild, Swap
<1>2. SourcesWithoutOverlay \/ SourcesReplaced => crossfile' = {}
  BY DEF SourcesWithoutOverlay, SourcesReplaced, Swap
<1>3. Shutdown \/ UNCHANGED vars => crossfile' = crossfile /\ project' = project
  BY DEF Shutdown, vars
<1>4. ASSUME NEW due \in SUBSET pending, FireDue(due)
      PROVE  crossfile' = crossfile /\ project' = project
  BY <1>4 DEF FireDue
<1>5. ASSUME NEW job \in workers, NEW sample \in Samples, Compute(job, sample)
      PROVE  crossfile' = crossfile /\ project' = project
  BY <1>5 DEF Compute
<1>6. ASSUME NEW r \in results, DropClosed(r) \/ DropStale(r)
      PROVE  crossfile' = {} \/ (crossfile' = crossfile /\ project' = project)
  <2>1. FeedGuard(r.sample, crossfile)
    BY <1>6 DEF DropClosed, DropStale
  <2> QED
    BY <2>1 DEF FeedGuard, Swap
<1> QED
  BY <1>1, <1>2, <1>3, <1>4, <1>5, <1>6, StepKinds
     DEF Next, LoopStep, WorkerStep, HandleMessage, HandleResult

\* Every step keeps the cache within its capacity.
LEMMA BoundStep ==
  TypeOK /\ CacheIsBounded /\ [Next]_vars => CacheIsBounded'
<1> SUFFICES ASSUME TypeOK, CacheIsBounded, [Next]_vars PROVE CacheIsBounded'
  OBVIOUS
<1>1. crossfile' = {} => CacheIsBounded'
  BY FS_EmptySet, CacheCapAssumption DEF CacheIsBounded
<1>2. ASSUME crossfile' \subseteq crossfile PROVE CacheIsBounded'
  <2>1. /\ IsFiniteSet(crossfile')
        /\ Cardinality(crossfile') <= Cardinality(crossfile)
        /\ Cardinality(crossfile') \in Nat /\ Cardinality(crossfile) \in Nat
    BY <1>2, FS_Subset, FS_CardinalityType DEF CacheIsBounded
  <2> QED
    BY <2>1, CacheCapAssumption DEF CacheIsBounded
<1>3. ASSUME NEW r \in results, Publish(r) PROVE CacheIsBounded'
  <2>1. ASSUME NEW e, crossfile' \in Stored(e) PROVE CacheIsBounded'
    BY <2>1, StoredBounded DEF CacheIsBounded
  <2> QED
    BY <1>1, <1>2, <1>3, <2>1, PublishCache
<1>4. ASSUME NEW u \in Uris, DidOpen(u) \/ DidChange(u) \/ DidClose(u)
      PROVE  CacheIsBounded'
  BY <1>2, <1>4 DEF DidOpen, DidChange, DidClose
<1> QED
  BY <1>1, <1>2, <1>3, <1>4, InternalCache

\* Every step keeps the cache in agreement with what is displayed.
LEMMA CacheStep ==
  TypeOK /\ SnapshotsLagBehind /\ CacheFollowsDisplays /\ [Next]_vars
    => CacheFollowsDisplays'
<1> SUFFICES ASSUME TypeOK, SnapshotsLagBehind, CacheFollowsDisplays, [Next]_vars
             PROVE  CacheFollowsDisplays'
  OBVIOUS
<1>t. crossfile \subseteq CachedIndexes /\ shown \in [Uris -> Displays]
  BY DEF TypeOK
<1>1. crossfile' = {} => CacheFollowsDisplays'
  BY DEF CacheFollowsDisplays
<1>2. ASSUME NEW u \in Uris, DidOpen(u) \/ DidChange(u) PROVE CacheFollowsDisplays'
  BY <1>2 DEF DidOpen, DidChange, CacheFollowsDisplays
<1>3. ASSUME NEW u \in Uris, DidClose(u) PROVE CacheFollowsDisplays'
  <2>1. /\ crossfile' = {c \in crossfile : c.uri # u}
        /\ \A c \in crossfile' : shown'[c.uri] = shown[c.uri] /\ c.uri # u
        /\ open' = open \ {u} /\ project' = project
    BY <1>3, <1>t DEF DidClose, CachedIndexes
  <2> QED
    BY <2>1 DEF CacheFollowsDisplays
<1>4. ASSUME NEW r \in results, Publish(r) PROVE CacheFollowsDisplays'
  <2> DEFINE u == r.job.uri
             e == [uri |-> r.job.uri, text |-> r.job.text,
                   generation |-> r.job.generation]
             d == [text |-> text[u], epoch |-> epoch[u],
                   generation |-> project.generation, overlay |-> project.overlay,
                   indexed |-> r.sample # "none"]
  <2>1. /\ u \in open /\ u \in Uris /\ open' = open
        /\ shown' = [shown EXCEPT ![u] = d]
        /\ r.job.text = text[u] /\ r.job.generation = project.generation
    BY <1>4, PublishFacts DEF docVars
  <2>2. /\ shown'[u] = d
        /\ \A w \in Uris : w # u => shown'[w] = shown[w]
    BY <1>t, <2>1
  <2>3. CASE project' = project /\ r.sample = "none" /\ crossfile' = crossfile
    <3>1. ASSUME NEW c \in crossfile
          PROVE  shown'[c.uri].generation = c.generation
                 /\ (shown'[c.uri].indexed => shown'[c.uri].text = c.text)
      <4>1. /\ c.uri \in Uris /\ c.generation = project.generation
            /\ shown[c.uri].generation = c.generation
            /\ shown[c.uri].indexed => shown[c.uri].text = c.text
        <5>1. c.uri \in Uris
          BY <1>t DEF CachedIndexes
        <5>2. c.generation = project.generation /\ shown[c.uri].generation = c.generation
          BY DEF CacheFollowsDisplays
        <5>3. shown[c.uri].indexed => shown[c.uri].text = c.text
          BY DEF CacheFollowsDisplays
        <5> QED
          BY <5>1, <5>2, <5>3
      <4>2. CASE c.uri = u
        <5>1. d.generation = project.generation /\ ~d.indexed
          BY <2>3
        <5>2. shown'[c.uri] = d
          BY <2>2, <4>2
        <5> HIDE DEF d
        <5> QED
          BY <4>1, <5>1, <5>2
      <4>3. CASE c.uri # u
        BY <2>2, <4>1, <4>3
      <4> QED
        BY <4>2, <4>3
    <3> QED
      BY <2>1, <2>3, <3>1 DEF CacheFollowsDisplays
  <2>4. CASE project' = project /\ r.sample # "none" /\ crossfile' \in Stored(e)
    <3>1. \A c \in crossfile' : c = e \/ (c \in crossfile /\ c.uri # u)
      BY <2>4 DEF Stored
    <3>2. e.uri = u /\ e.text = text[u] /\ e.generation = project.generation
      BY <2>1
    <3>3. ASSUME NEW c \in crossfile'
          PROVE  /\ c.uri \in open' /\ c.generation = project'.generation
                 /\ shown'[c.uri].generation = c.generation
                 /\ shown'[c.uri].indexed => shown'[c.uri].text = c.text
      <4>1. CASE c = e
        BY <2>1, <2>2, <2>4, <3>2, <4>1
      <4>2. CASE c \in crossfile /\ c.uri # u
        BY <1>t, <2>1, <2>2, <2>4, <4>2 DEF CacheFollowsDisplays, CachedIndexes
      <4> QED
        BY <3>1, <4>1, <4>2
    <3>4. ASSUME NEW c \in crossfile', NEW f \in crossfile', c.uri = f.uri
          PROVE  c = f
      BY <3>1, <3>2, <3>4 DEF CacheFollowsDisplays
    <3> QED
      BY <3>3, <3>4 DEF CacheFollowsDisplays
  <2> QED
    BY <1>1, <1>4, <2>3, <2>4, PublishCache
<1>5. CASE crossfile' = crossfile /\ project' = project /\ Internal
  BY <1>5 DEF CacheFollowsDisplays, Internal, docVars
<1> QED
  BY <1>1, <1>2, <1>3, <1>4, <1>5, InternalCache
--------------------------------------------------------------------------------
(* One analysis per document *)

\* A dispatch adds one worker for each document that had none.
LEMMA DispatchOnePerDocument ==
  ASSUME NEW S, NEW busy, NEW due, NEW p, Dispatch(S, busy, due, p),
         OnePerDocument(workers, results', busy)
  PROVE  OnePerDocument(workers', results', inFlight')
<1>1. PICK spawned : /\ spawned \intersect busy = {}
                     /\ inFlight' = busy \union spawned
                     /\ workers' = workers \union {NewSnapshot(u, p) : u \in spawned}
  BY DEF Dispatch
<1>2. \A u : NewSnapshot(u, p).uri = u
  BY DEF NewSnapshot
<1>3. \A w \in workers' : w \in workers
                          \/ (w.uri \in spawned /\ w = NewSnapshot(w.uri, p))
  BY <1>1, <1>2
<1>4. \A w \in workers : w.uri \in busy
  BY DEF OnePerDocument
<1>5. \A r \in results' : r.job.uri \in busy
  BY DEF OnePerDocument
<1>6. \A v, w \in workers' : v.uri = w.uri => v = w
  BY <1>1, <1>3, <1>4 DEF OnePerDocument
<1>7. \A w \in workers', r \in results' : w.uri # r.job.uri
  BY <1>1, <1>3, <1>5 DEF OnePerDocument
<1>8. inFlight' = {w.uri : w \in workers'} \union {r.job.uri : r \in results'}
  <2>1. {w.uri : w \in workers'} = {w.uri : w \in workers} \union spawned
    BY <1>1, <1>2, <1>3
  <2> QED
    BY <1>1, <2>1 DEF OnePerDocument
<1> QED
  BY <1>6, <1>7, <1>8 DEF OnePerDocument

\* Taking a result off the queue clears its document.
LEMMA TakeOnePerDocument ==
  ASSUME NEW r \in results, OnePerDocument(workers, results, inFlight)
  PROVE  OnePerDocument(workers, results \ {r}, inFlight \ {r.job.uri})
<1>1. \A s \in results \ {r} : s.job.uri # r.job.uri
  BY DEF OnePerDocument
<1>2. \A w \in workers : w.uri # r.job.uri
  BY DEF OnePerDocument
<1>3. {s.job.uri : s \in results} = {s.job.uri : s \in results \ {r}} \union {r.job.uri}
  OBVIOUS
<1>4. inFlight \ {r.job.uri} = {w.uri : w \in workers}
                                 \union {s.job.uri : s \in results \ {r}}
  BY <1>1, <1>2, <1>3 DEF OnePerDocument
<1> QED
  BY <1>4 DEF OnePerDocument

\* Every step keeps one analysis per document in flight.
LEMMA OneOutstandingStep ==
  TypeOK /\ OneOutstanding /\ [Next]_vars => OneOutstanding'
<1> SUFFICES ASSUME TypeOK, OneOutstanding, [Next]_vars, running'
             PROVE  OnePerDocument(workers', results', inFlight')
  BY DEF OneOutstanding
<1>r. running
  BY DEF Next, LoopStep, WorkerStep, Compute, vars
<1>a. OnePerDocument(workers, results, inFlight)
  BY <1>r DEF OneOutstanding
<1>b. UNCHANGED <<workers, results, inFlight>>
        => OnePerDocument(workers', results', inFlight')
  BY <1>a
<1>c. ASSUME NEW S, NEW due, NEW p, Dispatch(S, inFlight, due, p), results' = results
      PROVE  OnePerDocument(workers', results', inFlight')
  BY <1>a, <1>c, DispatchOnePerDocument
<1>1. ASSUME NEW u \in Uris, DidOpen(u)
      PROVE  OnePerDocument(workers', results', inFlight')
  BY <1>1, <1>c DEF DidOpen
<1>2. ASSUME NEW u \in Uris, DidChange(u) \/ DidClose(u)
      PROVE  OnePerDocument(workers', results', inFlight')
  BY <1>2, <1>b DEF DidChange, DidClose
<1>3. ASSUME ReanalyseOpenBuffers, results' = results
      PROVE  OnePerDocument(workers', results', inFlight')
  BY <1>3, <1>c DEF ReanalyseOpenBuffers
<1>4. ASSUME NEW found \in BOOLEAN, NEW b \in BOOLEAN,
             Invalidate(found, b) \/ SourcesRebuilt(found, b)
      PROVE  OnePerDocument(workers', results', inFlight')
  BY <1>4, <1>3 DEF Invalidate, SourcesRebuilt
<1>5. CASE SourcesWithoutOverlay \/ SourcesReplaced
  BY <1>5, <1>3 DEF SourcesWithoutOverlay, SourcesReplaced
<1>6. CASE Shutdown \/ UNCHANGED vars
  BY <1>6, <1>b DEF Shutdown, vars
<1>7. ASSUME NEW due \in SUBSET pending, FireDue(due)
      PROVE  OnePerDocument(workers', results', inFlight')
  BY <1>7, <1>c DEF FireDue
<1>8. ASSUME NEW job \in workers, NEW sample \in Samples, Compute(job, sample)
      PROVE  OnePerDocument(workers', results', inFlight')
  <2> DEFINE new == [job |-> job, sample |-> sample]
  <2>1. /\ workers' = workers \ {job}
        /\ results' = results \union {new}
        /\ inFlight' = inFlight
    BY <1>8, <1>r DEF Compute
  <2>2. new.job = job
    OBVIOUS
  <2> HIDE DEF new
  <2>3. \A w \in workers' : w.uri # job.uri
    BY <1>a, <2>1 DEF OnePerDocument
  <2>4. \A s \in results : s.job.uri # job.uri
    BY <1>a DEF OnePerDocument
  <2>5. inFlight' = {w.uri : w \in workers'} \union {s.job.uri : s \in results'}
    <3>1. {w.uri : w \in workers} = {w.uri : w \in workers'} \union {job.uri}
      BY <2>1
    <3>2. {s.job.uri : s \in results'} = {s.job.uri : s \in results} \union {job.uri}
      BY <2>1, <2>2
    <3> QED
      BY <1>a, <2>1, <3>1, <3>2 DEF OnePerDocument
  <2>6. \A v, w \in workers' : v.uri = w.uri => v = w
    BY <1>a, <2>1 DEF OnePerDocument
  <2>7. \A r, s \in results' : r.job.uri = s.job.uri => r = s
    BY <1>a, <2>1, <2>2, <2>4 DEF OnePerDocument
  <2>8. \A w \in workers', r \in results' : w.uri # r.job.uri
    BY <1>a, <2>1, <2>2, <2>3 DEF OnePerDocument
  <2> QED
    BY <2>5, <2>6, <2>7, <2>8 DEF OnePerDocument
<1>9. ASSUME NEW r \in results, DropClosed(r) \/ Publish(r)
      PROVE  OnePerDocument(workers', results', inFlight')
  BY <1>9, <1>a, TakeOnePerDocument DEF DropClosed, Publish
<1>10. ASSUME NEW r \in results, DropStale(r)
       PROVE  OnePerDocument(workers', results', inFlight')
  <2>1. /\ results' = results \ {r}
        /\ Dispatch({r.job.uri}, inFlight \ {r.job.uri}, pending, project)
    BY <1>10 DEF DropStale
  <2> QED
    BY <1>a, <2>1, TakeOnePerDocument, DispatchOnePerDocument
<1> QED
  BY <1>1, <1>2, <1>4, <1>5, <1>6, <1>7, <1>8, <1>9, <1>10
     DEF Next, LoopStep, WorkerStep, HandleMessage, HandleResult
--------------------------------------------------------------------------------
(* No lost update *)

\* Every step keeps the last re-analysed generation at or below the current one.
LEMMA ReanalysedStep ==
  TypeOK /\ ReanalysedIsPast /\ [Next]_vars => ReanalysedIsPast'
<1> SUFFICES ASSUME TypeOK, ReanalysedIsPast, [Next]_vars PROVE ReanalysedIsPast'
  OBVIOUS
<1>t. project \in Projects /\ reanalysed \in Nat
  BY DEF TypeOK
<1>1. ASSUME reanalysed' = reanalysed, Moves \/ project' = project
      PROVE  ReanalysedIsPast'
  BY <1>1, <1>t DEF ReanalysedIsPast, Moves, Projects
<1>2. ASSUME ReanalyseOpenBuffers, project' \in Projects PROVE ReanalysedIsPast'
  BY <1>2 DEF ReanalyseOpenBuffers, ReanalysedIsPast, Projects
<1>3. ASSUME NEW found \in BOOLEAN, NEW b \in BOOLEAN,
             Invalidate(found, b) \/ SourcesRebuilt(found, b)
      PROVE  ReanalysedIsPast'
  BY <1>2, <1>3, FullOverlayBuildType DEF Invalidate, SourcesRebuilt
<1>4. CASE SourcesWithoutOverlay \/ SourcesReplaced
  <2>1. /\ \E b \in BOOLEAN : Swap(b)
        /\ ReanalyseOpenBuffers
    BY <1>4 DEF SourcesWithoutOverlay, SourcesReplaced
  <2> QED
    BY <1>2, <2>1, SwapType
<1>5. ASSUME NEW r \in results, DropClosed(r) \/ Publish(r) \/ DropStale(r)
      PROVE  ReanalysedIsPast'
  <2>1. \E sample, cache : FeedGuard(sample, cache)
    BY <1>5 DEF DropClosed, Publish, DropStale
  <2>2. reanalysed' = reanalysed
    BY <1>5 DEF DropClosed, Publish, DropStale
  <2> QED
    BY <1>1, <2>1, <2>2, FeedGuardMoves
<1>6. ASSUME NEW u \in Uris, DidOpen(u) \/ DidChange(u) \/ DidClose(u)
      PROVE  ReanalysedIsPast'
  BY <1>1, <1>6 DEF DidOpen, DidChange, DidClose, historyVars
<1>7. CASE Shutdown \/ UNCHANGED vars
  BY <1>1, <1>7 DEF Shutdown, vars, historyVars
<1>8. ASSUME NEW due \in SUBSET pending, FireDue(due) PROVE ReanalysedIsPast'
  BY <1>1, <1>8 DEF FireDue, historyVars
<1>9. ASSUME NEW job \in workers, NEW sample \in Samples, Compute(job, sample)
      PROVE  ReanalysedIsPast'
  BY <1>1, <1>9 DEF Compute, historyVars
<1> QED
  BY <1>3, <1>4, <1>5, <1>6, <1>7, <1>8, <1>9
     DEF Next, LoopStep, WorkerStep, HandleMessage, HandleResult

\* A dispatch leaves every open document it is asked for in flight, and loses
\* no deadline and no analysis.
LEMMA DispatchCovers ==
  ASSUME NEW S, NEW busy, NEW due, NEW p, Dispatch(S, busy, due, p)
  PROVE  /\ S \intersect open' \subseteq inFlight'
         /\ busy \union due \subseteq pending' \union inFlight'
BY DEF Dispatch

\* Every step keeps every open document that is not displayed as it is due or
\* in flight.
LEMMA NoLostUpdateStep ==
  TypeOK /\ SnapshotsLagBehind /\ ReanalysedIsPast /\ NoLostUpdate /\ [Next]_vars
    => NoLostUpdate'
<1> SUFFICES ASSUME TypeOK, SnapshotsLagBehind, ReanalysedIsPast, NoLostUpdate,
                    [Next]_vars, running', NEW w \in open'
             PROVE  Current(w)' \/ w \in pending' \union inFlight'
  BY DEF NoLostUpdate
<1>r. running
  BY DEF Next, LoopStep, WorkerStep, Compute, vars
<1>a. w \in open => w \in Uris /\ (Current(w) \/ w \in pending \union inFlight)
  BY <1>r DEF NoLostUpdate, TypeOK
<1>b. ASSUME w \in open, UNCHANGED docVars, UNCHANGED <<shown, reanalysed>>,
             pending \union inFlight \subseteq pending' \union inFlight'
      PROVE  Current(w)' \/ w \in pending' \union inFlight'
  BY <1>a, <1>b DEF Current, docVars
<1>1. ASSUME NEW u \in Uris, DidOpen(u)
      PROVE  Current(w)' \/ w \in pending' \union inFlight'
  <2>1. /\ Dispatch({u}, inFlight, pending \ {u}, project)
        /\ open' = open \union {u}
        /\ UNCHANGED <<shown, reanalysed>>
        /\ text' = [text EXCEPT ![u] = @ + 1]
        /\ epoch' = [epoch EXCEPT ![u] = @ + 1]
    BY <1>1 DEF DidOpen, historyVars
  <2>2. CASE w = u
    BY <2>1, <2>2, DispatchCovers
  <2>3. CASE w # u
    <3>1. w \in open /\ text'[w] = text[w] /\ epoch'[w] = epoch[w]
      BY <1>a, <2>1, <2>3 DEF TypeOK
    <3>2. Current(w) => Current(w)'
      BY <2>1, <3>1 DEF Current
    <3>3. inFlight \union (pending \ {u}) \subseteq pending' \union inFlight'
      BY <2>1, DispatchCovers
    <3> QED
      BY <1>a, <2>3, <3>1, <3>2, <3>3
  <2> QED
    BY <2>2, <2>3
<1>2. ASSUME NEW u \in Uris, DidChange(u)
      PROVE  Current(w)' \/ w \in pending' \union inFlight'
  <2>1. /\ pending' = pending \union {u} /\ inFlight' = inFlight
        /\ text' = [text EXCEPT ![u] = @ + 1]
        /\ UNCHANGED <<open, epoch, shown, reanalysed>>
    BY <1>2 DEF DidChange, historyVars
  <2>2. CASE w # u
    <3>1. text'[w] = text[w]
      BY <1>a, <2>1, <2>2 DEF TypeOK
    <3> QED
      BY <1>a, <2>1, <3>1 DEF Current
  <2> QED
    BY <2>1, <2>2
<1>3. ASSUME NEW u \in Uris, DidClose(u)
      PROVE  Current(w)' \/ w \in pending' \union inFlight'
  <2>1. w \in open /\ w # u /\ w \in Uris
    BY <1>3, <1>a DEF DidClose
  <2>2. /\ shown'[w] = shown[w] /\ epoch'[w] = epoch[w]
        /\ UNCHANGED <<text, reanalysed, inFlight>> /\ pending' = pending \ {u}
    BY <1>3, <2>1 DEF DidClose, historyVars, TypeOK
  <2> QED
    BY <1>a, <2>1, <2>2 DEF Current
<1>4. ReanalyseOpenBuffers => w \in inFlight'
  BY DispatchCovers DEF ReanalyseOpenBuffers, docVars
<1>5. ASSUME NEW found \in BOOLEAN, NEW b \in BOOLEAN,
             Invalidate(found, b) \/ SourcesRebuilt(found, b)
      PROVE  w \in inFlight'
  BY <1>4, <1>5 DEF Invalidate, SourcesRebuilt
<1>6. SourcesWithoutOverlay \/ SourcesReplaced => w \in inFlight'
  BY <1>4 DEF SourcesWithoutOverlay, SourcesReplaced
<1>7. CASE UNCHANGED vars
  BY <1>7, <1>b DEF vars, docVars
<1>8. ASSUME NEW due \in SUBSET pending, FireDue(due)
      PROVE  Current(w)' \/ w \in pending' \union inFlight'
  <2>1. /\ UNCHANGED docVars /\ UNCHANGED <<shown, reanalysed>> /\ w \in open
        /\ Dispatch(due, inFlight, pending \ due, project)
    BY <1>8 DEF FireDue, docVars, historyVars
  <2>2. w \in due => w \in inFlight'
    BY <2>1, DispatchCovers
  <2>3. inFlight \union (pending \ due) \subseteq pending' \union inFlight'
    BY <2>1, DispatchCovers
  <2>4. Current(w) => Current(w)'
    BY <2>1 DEF Current, docVars
  <2> QED
    BY <1>a, <2>1, <2>2, <2>3, <2>4
<1>9. ASSUME NEW job \in workers, NEW sample \in Samples, Compute(job, sample)
      PROVE  Current(w)' \/ w \in pending' \union inFlight'
  BY <1>9, <1>b DEF Compute, docVars, historyVars
<1>10. ASSUME NEW r \in results, DropClosed(r)
       PROVE  Current(w)' \/ w \in pending' \union inFlight'
  <2>1. /\ UNCHANGED docVars /\ UNCHANGED <<shown, reanalysed, pending>>
        /\ inFlight' = inFlight \ {r.job.uri} /\ w \in open /\ w # r.job.uri
    BY <1>10 DEF DropClosed, docVars
  <2> QED
    BY <1>a, <2>1 DEF Current, docVars
<1>11. ASSUME NEW r \in results, Publish(r)
       PROVE  Current(w)' \/ w \in pending' \union inFlight'
  <2> DEFINE u == r.job.uri
             d == [text |-> text[u], epoch |-> epoch[u],
                   generation |-> project.generation, overlay |-> project.overlay,
                   indexed |-> r.sample # "none"]
  <2>1. /\ UNCHANGED docVars /\ UNCHANGED <<reanalysed, pending>>
        /\ inFlight' = inFlight \ {u} /\ w \in open
        /\ shown' = [shown EXCEPT ![u] = d]
    BY <1>11, PublishFacts DEF Publish, docVars
  <2>2. d.text = text[u] /\ d.epoch = epoch[u] /\ d.generation = project.generation
    OBVIOUS
  <2> HIDE DEF d
  <2>3. CASE w = u
    <3>1. shown'[w] = d
      BY <1>a, <2>1, <2>3 DEF TypeOK
    <3> QED
      BY <2>1, <2>2, <2>3, <3>1 DEF Current, docVars, ReanalysedIsPast, TypeOK, Projects
  <2>4. CASE w # u
    <3>1. shown'[w] = shown[w]
      BY <1>a, <2>1, <2>4 DEF TypeOK
    <3> QED
      BY <1>a, <2>1, <2>4, <3>1 DEF Current, docVars
  <2> QED
    BY <2>3, <2>4
<1>12. ASSUME NEW r \in results, DropStale(r)
       PROVE  Current(w)' \/ w \in pending' \union inFlight'
  <2>1. /\ UNCHANGED docVars /\ UNCHANGED <<shown, reanalysed>> /\ w \in open
        /\ Dispatch({r.job.uri}, inFlight \ {r.job.uri}, pending, project)
    BY <1>12 DEF DropStale, docVars
  <2>2. w = r.job.uri => w \in inFlight'
    BY <2>1, DispatchCovers
  <2>3. (inFlight \ {r.job.uri}) \union pending \subseteq pending' \union inFlight'
    BY <2>1, DispatchCovers
  <2>4. Current(w) => Current(w)'
    BY <2>1 DEF Current, docVars
  <2> QED
    BY <1>a, <2>1, <2>2, <2>3, <2>4
<1>13. ~Shutdown
  BY DEF Shutdown
<1> QED
  BY <1>1, <1>2, <1>3, <1>5, <1>6, <1>7, <1>8, <1>9, <1>10, <1>11, <1>12, <1>13
     DEF Next, LoopStep, WorkerStep, HandleMessage, HandleResult
--------------------------------------------------------------------------------
(* The guard and the overlay *)

\* The tail of handle_result drops the overlay exactly when it disables the guard.
LEMMA FeedGuardKeepsPosture ==
  ASSUME TypeOK, GuardMatchesOverlay, populated' = populated,
         NEW sample, NEW cache, FeedGuard(sample, cache)
  PROVE  GuardMatchesOverlay'
<1>1. PICK after : /\ guard' = after
                   /\ ~guard.enabled => after = guard
                   /\ IF guard.enabled /\ ~after.enabled
                      THEN Swap(FALSE) ELSE project' = project
  BY DEF FeedGuard
<1>2. guard.enabled /\ ~after.enabled => project'.overlay = FALSE
  BY <1>1 DEF Swap
<1> QED
  BY <1>1, <1>2 DEF GuardMatchesOverlay

\* Every step keeps the overlay held exactly when the guard allows it.
LEMMA GuardStep ==
  TypeOK /\ GuardMatchesOverlay /\ [Next]_vars => GuardMatchesOverlay'
<1> SUFFICES ASSUME TypeOK, GuardMatchesOverlay, [Next]_vars
             PROVE  GuardMatchesOverlay'
  OBVIOUS
<1>a. UNCHANGED <<project, guard, populated>> => GuardMatchesOverlay'
  BY DEF GuardMatchesOverlay
<1>1. ASSUME NEW found \in BOOLEAN, NEW b \in BOOLEAN,
             Invalidate(found, b) \/ SourcesRebuilt(found, b)
      PROVE  GuardMatchesOverlay'
  <2>1. /\ populated' = found
        /\ project'.overlay = (guard'.enabled /\ found)
    BY <1>1 DEF Invalidate, SourcesRebuilt, FullOverlayBuild, Swap
  <2> QED
    BY <2>1 DEF GuardMatchesOverlay
<1>2. CASE SourcesWithoutOverlay
  BY <1>2 DEF SourcesWithoutOverlay, Swap, GuardMatchesOverlay
<1>3. CASE SourcesReplaced
  BY <1>3 DEF SourcesReplaced, Swap, GuardMatchesOverlay
<1>4. ASSUME NEW r \in results, DropClosed(r) \/ Publish(r) \/ DropStale(r)
      PROVE  GuardMatchesOverlay'
  <2>1. /\ populated' = populated
        /\ \E sample, cache : FeedGuard(sample, cache)
    BY <1>4 DEF DropClosed, Publish, DropStale
  <2> QED
    BY <2>1, FeedGuardKeepsPosture
<1>5. ASSUME NEW u \in Uris, DidOpen(u) \/ DidChange(u) \/ DidClose(u)
      PROVE  GuardMatchesOverlay'
  BY <1>5, <1>a DEF DidOpen, DidChange, DidClose, historyVars
<1>6. CASE Shutdown \/ UNCHANGED vars
  BY <1>6, <1>a DEF Shutdown, vars, historyVars
<1>7. ASSUME NEW due \in SUBSET pending, FireDue(due) PROVE GuardMatchesOverlay'
  BY <1>7, <1>a DEF FireDue, historyVars
<1>8. ASSUME NEW job \in workers, NEW sample \in Samples, Compute(job, sample)
      PROVE  GuardMatchesOverlay'
  BY <1>8, <1>a DEF Compute, historyVars
<1> QED
  BY <1>1, <1>2, <1>3, <1>4, <1>5, <1>6, <1>7, <1>8
     DEF Next, LoopStep, WorkerStep, HandleMessage, HandleResult
--------------------------------------------------------------------------------
(* The inductive invariant *)

LEMMA InitIInv == Init => IInv
<1> SUFFICES ASSUME Init PROVE IInv
  OBVIOUS
<1>1. TypeOK
  BY InitType
<1>2. SnapshotsLagBehind
  BY DEF Init, SnapshotsLagBehind, Jobs
<1>3. DisplaysLagBehind
  BY DEF Init, DisplaysLagBehind
<1>4. CacheFollowsDisplays
  BY DEF Init, CacheFollowsDisplays
<1>5. CacheIsBounded
  BY FS_EmptySet, CacheCapAssumption DEF Init, CacheIsBounded
<1>6. OneOutstanding
  BY DEF Init, OneOutstanding, OnePerDocument
<1>7. ReanalysedIsPast
  BY <1>1 DEF Init, ReanalysedIsPast
<1>8. NoLostUpdate
  BY DEF Init, NoLostUpdate
<1>9. GuardMatchesOverlay
  BY DEF Init, GuardMatchesOverlay
<1> QED
  BY <1>1, <1>2, <1>3, <1>4, <1>5, <1>6, <1>7, <1>8, <1>9 DEF IInv

LEMMA IInvStep == IInv /\ [Next]_vars => IInv'
<1> QED
  BY NextType, SnapshotsStep, DisplaysStep, CacheStep, BoundStep, OneOutstandingStep,
     ReanalysedStep, NoLostUpdateStep, GuardStep DEF IInv

(***************************************************************************)
(* The strengthened invariant always holds: snapshots and displays lag      *)
(* behind their documents and the project context, the cache follows the    *)
(* displays, and each document has at most one analysis under way.          *)
(***************************************************************************)
THEOREM Inductive == Spec => []IInv
<1> QED
  BY InitIInv, IInvStep, PTL DEF Spec
--------------------------------------------------------------------------------
(* The safety properties *)

(***************************************************************************)
(* No update is ever lost: an open document that is not displayed as it is  *)
(* now has a deadline or an analysis under way, through every edit, swap,   *)
(* close and reopen.                                                        *)
(***************************************************************************)
THEOREM UpdatesAreKept == Spec => []NoLostUpdate
<1>1. IInv => NoLostUpdate
  BY DEF IInv
<1> QED
  BY <1>1, Inductive, PTL

(***************************************************************************)
(* A closed document displays nothing, whatever was in flight for it.       *)
(***************************************************************************)
THEOREM ClosedIsCleared == Spec => []ClosedShowsNothing
<1>1. IInv => ClosedShowsNothing
  BY DEF IInv, DisplaysLagBehind, DisplayLags, ClosedShowsNothing
<1> QED
  BY <1>1, Inductive, PTL

(***************************************************************************)
(* A generation names one posture: what was computed under the current one  *)
(* was computed with the overlay on exactly when it is on now.              *)
(***************************************************************************)
THEOREM OnePosture == Spec => []GenerationNamesOnePosture
<1>1. IInv => GenerationNamesOnePosture
  <2> SUFFICES ASSUME IInv PROVE GenerationNamesOnePosture
    OBVIOUS
  <2>1. ASSUME NEW job \in workers \union {r.job : r \in results}
        PROVE  job.generation = project.generation => job.overlay = project.overlay
    BY DEF IInv, SnapshotsLagBehind, Jobs, Lags
  <2>2. ASSUME NEW u \in open, shown[u].text > 0
        PROVE  shown[u].generation = project.generation
                 => shown[u].overlay = project.overlay
    <3>1. shown[u] # Blank /\ u \in Uris
      BY <2>2 DEF Blank, IInv, TypeOK
    <3> QED
      BY <3>1 DEF IInv, DisplaysLagBehind, DisplayLags
  <2> QED
    BY <2>1, <2>2 DEF GenerationNamesOnePosture
<1> QED
  BY <1>1, Inductive, PTL

(***************************************************************************)
(* The index cache stays within its capacity, holds one index per open      *)
(* document and none of a superseded context, and agrees with the markers   *)
(* on screen whenever those were computed with an index.                    *)
(***************************************************************************)
THEOREM CacheAgrees == Spec => []CacheAgreesWithMarkers
<1>1. IInv => CacheAgreesWithMarkers
  BY DEF IInv, CacheFollowsDisplays, CacheIsBounded, CacheAgreesWithMarkers
<1> QED
  BY <1>1, Inductive, PTL

(***************************************************************************)
(* An overlay, empty or not, is held exactly while the guard is on and the  *)
(* last full build found files, through every full build, reharvest and     *)
(* sample, however late (FeedGuard, FullOverlayBuild).                      *)
(***************************************************************************)
THEOREM GuardAndOverlay == Spec => []GuardMatchesOverlay
<1>1. IInv => GuardMatchesOverlay
  BY DEF IInv
<1> QED
  BY <1>1, Inductive, PTL

\* A set whose members are all equal has at most one.
LEMMA AtMostOne ==
  ASSUME NEW S, \A x, y \in S : x = y
  PROVE  Cardinality(S) = IF S = {} THEN 0 ELSE 1
<1>1. CASE S = {}
  BY <1>1, FS_EmptySet
<1>2. CASE S # {}
  <2>1. PICK x \in S : S = {x}
    BY <1>2
  <2> QED
    BY <1>2, <2>1, FS_Singleton
<1> QED
  BY <1>1, <1>2

(***************************************************************************)
(* While the loop runs, in_flight names exactly the documents that have a   *)
(* worker or a queued result, and each of them has exactly one.             *)
(***************************************************************************)
THEOREM OneAnalysis == Spec => []OneInFlight
<1>1. IInv => OneInFlight
  <2> SUFFICES ASSUME IInv, running, NEW u \in Uris
               PROVE  Cardinality(Outstanding(u)) = IF u \in inFlight THEN 1 ELSE 0
    BY DEF OneInFlight
  <2>1. OnePerDocument(workers, results, inFlight)
    BY DEF IInv, OneOutstanding
  <2>2. \A x, y \in Outstanding(u) : x = y
    <3>1. \A x \in Outstanding(u) : \/ x \in workers /\ x.uri = u
                                    \/ x \in results /\ x.job.uri = u
      BY DEF Outstanding
    <3>2. ASSUME NEW v \in workers, NEW w \in workers, v.uri = u, w.uri = u
          PROVE  v = w
      BY <2>1, <3>2 DEF OnePerDocument
    <3>3. ASSUME NEW r \in results, NEW s \in results, r.job.uri = u, s.job.uri = u
          PROVE  r = s
      BY <2>1, <3>3 DEF OnePerDocument
    <3>4. ASSUME NEW w \in workers, NEW r \in results, w.uri = u, r.job.uri = u
          PROVE  FALSE
      BY <2>1, <3>4 DEF OnePerDocument
    <3> QED
      BY <3>1, <3>2, <3>3, <3>4
  <2>3. Outstanding(u) = {} <=> u \notin inFlight
    <3>1. u \in inFlight <=> \/ \E w \in workers : w.uri = u
                             \/ \E r \in results : r.job.uri = u
      BY <2>1 DEF OnePerDocument
    <3> QED
      BY <3>1 DEF Outstanding
  <2> QED
    BY <2>2, <2>3, AtMostOne
<1> QED
  BY <1>1, Inductive, PTL

(***************************************************************************)
(* What is published is never stale: it is for an open document, from its   *)
(* newest content and under the project context of that moment, although    *)
(* the version it is judged by may have been used before.                   *)
(***************************************************************************)
THEOREM PublishesFresh == Spec => NeverPublishStale
<1> DEFINE Fresh == \A u \in Uris : shown'[u] \notin {shown[u], Blank} =>
                      /\ u \in open
                      /\ shown'[u].text = text[u]
                      /\ shown'[u].generation = project.generation
<1>1. IInv /\ [Next]_vars => [Fresh]_vars
  <2> SUFFICES ASSUME IInv, [Next]_vars PROVE Fresh
    OBVIOUS
  <2> SUFFICES ASSUME NEW w \in Uris, shown'[w] \notin {shown[w], Blank}
               PROVE  /\ w \in open
                      /\ shown'[w].text = text[w]
                      /\ shown'[w].generation = project.generation
    OBVIOUS
  <2>t. TypeOK /\ SnapshotsLagBehind /\ shown \in [Uris -> Displays]
    BY DEF IInv, TypeOK
  <2>1. ~Internal /\ \A u \in Uris : ~DidOpen(u) /\ ~DidChange(u)
    BY DEF Internal, DidOpen, DidChange
  <2>2. \A u \in Uris : ~DidClose(u)
    BY <2>t DEF DidClose
  <2>3. PICK r \in results : Publish(r)
    BY <2>t, <2>1, <2>2, StepKinds
  <2> DEFINE u == r.job.uri
             d == [text |-> text[u], epoch |-> epoch[u],
                   generation |-> project.generation, overlay |-> project.overlay,
                   indexed |-> r.sample # "none"]
  <2>4. u \in open /\ u \in Uris /\ shown' = [shown EXCEPT ![u] = d]
    BY <2>t, <2>3, PublishFacts
  <2>5. w = u /\ shown'[w] = d
    BY <2>t, <2>4
  <2>6. d.text = text[u] /\ d.generation = project.generation
    OBVIOUS
  <2> HIDE DEF d
  <2> QED
    BY <2>4, <2>5, <2>6
<1> QED
  BY <1>1, Inductive, PTL DEF Spec, NeverPublishStale
--------------------------------------------------------------------------------
(* The server implements the abstract publisher, but for its liveness: every *)
(* step of main_loop or of a worker is a step of DiagnosticsPublisher, or    *)
(* changes nothing it knows of.                                              *)

(* What the client displays, as the publisher has it. *)
Displayed == [u \in Uris |-> [text |-> shown[u].text, generation |-> shown[u].generation]]

Abstract == <<running, open, text, project.generation, reanalysed, Displayed>>

LEMMA InitRefines == Init => Publisher!Init
<1> SUFFICES ASSUME Init PROVE Publisher!Init
  OBVIOUS
<1>1. Displayed = [u \in Uris |-> Publisher!Nothing]
  BY DEF Init, Displayed, Blank, Publisher!Nothing
<1> QED
  BY <1>1 DEF Init, Displayed, Publisher!Init

(* What moves the project on without the client's documents: the swap that *)
(* follows when a sample trips the guard.                                  *)
LEMMA FeedGuardPosture ==
  ASSUME TypeOK, NEW sample, NEW cache, FeedGuard(sample, cache)
  PROVE  project'.generation \in {project.generation, project.generation + 1}
BY DEF FeedGuard, Swap

(* A project event swaps the context once and has everything open analysed *)
(* again under the new one.                                                *)
LEMMA EventRefines ==
  ASSUME running, UNCHANGED <<running, shown>>,
         ReanalyseOpenBuffers, \E b \in BOOLEAN : Swap(b)
  PROVE  Publisher!Next
<1>1. project'.generation = project.generation + 1
  BY DEF Swap
<1>2. UNCHANGED <<running, open, text, shown>> /\ reanalysed' = project'.generation
  BY DEF ReanalyseOpenBuffers, docVars
<1>3. Publisher!ProjectEvent
  BY <1>1, <1>2 DEF Publisher!ProjectEvent
<1> QED
  BY <1>3 DEF Publisher!Next

(* A result that is dropped is, to the client, a change of posture if      *)
(* anything.                                                               *)
LEMMA DropRefines ==
  ASSUME TypeOK, running, NEW r \in results, DropClosed(r) \/ DropStale(r)
  PROVE  Publisher!Next \/ UNCHANGED Abstract
<1>1. FeedGuard(r.sample, crossfile)
  BY DEF DropClosed, DropStale
<1>2. UNCHANGED <<running, open, text, reanalysed, shown>>
  BY DEF DropClosed, DropStale, docVars
<1>3. CASE project'.generation = project.generation
  BY <1>2, <1>3 DEF Abstract, Displayed
<1>4. CASE project'.generation = project.generation + 1
  <2>1. Publisher!ChangePosture
    BY <1>2, <1>4 DEF Publisher!ChangePosture
  <2> QED
    BY <2>1 DEF Publisher!Next
<1> QED
  BY <1>1, <1>3, <1>4, FeedGuardPosture

(* A result that is published is the newest content under the context of   *)
(* that moment; its sample may trip the guard in the same step.            *)
LEMMA PublishRefines ==
  ASSUME TypeOK, SnapshotsLagBehind, running, NEW r \in results, Publish(r)
  PROVE  Publisher!Next
<1> DEFINE u == r.job.uri
<1>1. u \in open /\ u \in Uris /\ UNCHANGED docVars
  BY PublishFacts
<1>2. shown' = [shown EXCEPT ![u] =
                  [text |-> text[u], epoch |-> epoch[u], generation |-> project.generation,
                   overlay |-> project.overlay, indexed |-> r.sample # "none"]]
  BY PublishFacts
<1>3. Displayed' = [Displayed EXCEPT ![u] = [text |-> text[u], generation |-> project.generation]]
  BY <1>1, <1>2 DEF TypeOK, Displayed
<1>4. project'.generation \in {project.generation, project.generation + 1}
  BY FeedGuardPosture DEF Publish
<1>5. UNCHANGED <<running, open, text, reanalysed>>
  BY <1>1 DEF Publish, docVars
<1>6. Publisher!Publish(u)
  BY <1>1, <1>3, <1>4, <1>5 DEF Publisher!Publish, Displayed
<1> QED
  BY <1>1, <1>6 DEF Publisher!Next

(* The client's own messages about a document. *)
LEMMA DocumentRefines ==
  ASSUME TypeOK, running, NEW u \in Uris, DidOpen(u) \/ DidChange(u) \/ DidClose(u)
  PROVE  Publisher!Next
<1>1. CASE DidOpen(u) \/ DidChange(u)
  <2>1. open' = open \union {u}
    BY <1>1 DEF DidOpen, DidChange
  <2>2. /\ text' = [text EXCEPT ![u] = @ + 1]
        /\ UNCHANGED <<running, project, reanalysed, shown>>
    BY <1>1 DEF DidOpen, DidChange, historyVars
  <2>3. Publisher!Write(u)
    BY <2>1, <2>2 DEF Publisher!Write
  <2> QED
    BY <2>3 DEF Publisher!Next
<1>2. CASE DidClose(u)
  <2>1. Displayed' = [Displayed EXCEPT ![u] = Publisher!Nothing]
    BY <1>2 DEF DidClose, TypeOK, Displayed, Blank, Publisher!Nothing
  <2>2. u \in open /\ open' = open \ {u} /\ UNCHANGED <<running, text, project, reanalysed>>
    BY <1>2 DEF DidClose, historyVars
  <2>3. Publisher!Close(u)
    BY <2>1, <2>2 DEF Publisher!Close, Displayed
  <2> QED
    BY <2>3 DEF Publisher!Next
<1> QED
  BY <1>1, <1>2

LEMMA StepRefines ==
  IInv /\ [Next]_vars => [Publisher!Next]_Abstract
<1> SUFFICES ASSUME IInv, [Next]_vars PROVE Publisher!Next \/ UNCHANGED Abstract
  OBVIOUS
<1>t. TypeOK /\ SnapshotsLagBehind
  BY DEF IInv
<1>1. ASSUME running, NEW found \in BOOLEAN, NEW b \in BOOLEAN,
             Invalidate(found, b) \/ SourcesRebuilt(found, b)
      PROVE  Publisher!Next
  <2>1. FullOverlayBuild(found, b) /\ ReanalyseOpenBuffers /\ UNCHANGED <<running, shown>>
    BY <1>1 DEF Invalidate, SourcesRebuilt
  <2>2. Swap(guard'.enabled /\ found) /\ guard' \in Guards
    BY <1>t, <2>1, FullOverlayBuildType DEF FullOverlayBuild
  <2> QED
    BY <1>1, <2>1, <2>2, EventRefines DEF Guards
<1>2. CASE running /\ (SourcesWithoutOverlay \/ SourcesReplaced)
  BY <1>2, EventRefines DEF SourcesWithoutOverlay, SourcesReplaced
<1>3. CASE running /\ Shutdown
  <2>1. Publisher!Stop
    BY <1>3 DEF Shutdown, historyVars, Publisher!Stop
  <2> QED
    BY <1>3, <2>1 DEF Publisher!Next
<1>4. ASSUME NEW due \in SUBSET pending, FireDue(due) PROVE UNCHANGED Abstract
  BY <1>4 DEF FireDue, docVars, historyVars, Abstract, Displayed
<1>5. ASSUME NEW job \in workers, NEW sample \in Samples, Compute(job, sample)
      PROVE  UNCHANGED Abstract
  BY <1>5 DEF Compute, docVars, historyVars, Abstract, Displayed
<1>6. CASE UNCHANGED vars
  BY <1>6 DEF vars, Abstract, Displayed
<1> QED
  BY <1>t, <1>1, <1>2, <1>3, <1>4, <1>5, <1>6, DocumentRefines, DropRefines, PublishRefines
     DEF Next, LoopStep, WorkerStep, HandleMessage, HandleResult

(* The server with its workers, debounce, stale-drop, guard and caches     *)
(* implements the abstract publisher for any documents, capacity and       *)
(* strikes: what the client sees changes only as DiagnosticsPublisher      *)
(* allows.  The safety part of ImplementsPublisher.                        *)
THEOREM ServerPublishes == Spec => Publisher!Safe
<1>1. Abstract = Publisher!vars
  BY DEF Abstract, Displayed, Publisher!vars
<1>2. IInv /\ [Next]_vars => [Publisher!Next]_Publisher!vars
  BY <1>1, StepRefines DEF Abstract, Displayed, Publisher!vars
<1> QED
  BY <1>2, InitRefines, Inductive, PTL DEF Spec, Publisher!Safe
================================================================================
