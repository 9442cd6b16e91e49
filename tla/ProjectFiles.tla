------------------------------ MODULE ProjectFiles ------------------------------
(***************************************************************************)
(* The files the language server's cross-file overlay holds, kept up to     *)
(* date from watched-file events (crates/rigor-cli/src/lsp.rs: build_overlay *)
(* and reharvest_sources), and the exclude gate that reads them              *)
(* (ExcludeMatcher).  The editor changes the disk at any time; an event is   *)
(* delivered some time later and the server reads the disk as it is then.    *)
(*                                                                         *)
(* A path is a canonical directory and a file name.  A file's content is a   *)
(* member of Texts, or Broken when held_pair yields nothing for it (a parse  *)
(* error, a template, an unreadable file).  link[p] is the file a symbolic   *)
(* link p points to, and p itself when p is no link.                         *)
(***************************************************************************)
EXTENDS Naturals, SequencesExt

CONSTANTS
  Walk,          \* the spellings discovery can walk, in its order
  Outside,       \* paths under no configured root
  Excluded,      \* the spellings of Walk the exclude patterns match
  Nested,        \* the paths of one directory that may be deleted whole
  InitialLinks,  \* what may be linked at start-up: a set of functions from links
                 \* to targets
  Relinks,       \* the pairs <<link, target>> that may be created later
  Texts, Broken, Absent,
  Unresolved,    \* what uri_to_canonical_path answers when it answers None
  MaxBatch       \* bound: a notification names no more paths than this

Inside == ToSet(Walk)
Paths == Inside \union Outside

ASSUME WalkAssumption == Walk \in Seq(Inside)
ASSUME ContentsAssumption == {Broken, Absent} \intersect Texts = {} /\ Broken # Absent
ASSUME PathsAssumption == Nested \subseteq Paths /\ Unresolved \notin Paths /\ MaxBatch \in Nat
\* A link points to a file that is none.
ASSUME LinksAssumption ==
  \A initial \in InitialLinks :
    /\ DOMAIN initial \subseteq Paths
    /\ \A p \in DOMAIN initial : initial[p] \in Paths \ DOMAIN initial

VARIABLES
  disk,          \* the content of every regular file
  link,          \* the target of every path
  nestedGone,    \* the directory of Nested does not exist
  events,        \* the changed paths not yet delivered to the server
  enabled,       \* Session.guard: whether it allows an overlay
  on,            \* ProjectContext.overlay is Some
  held           \* its files: canonical path and content, in discovery order

diskVars == <<disk, link, nestedGone>>
vars == <<disk, link, nestedGone, events, enabled, on, held>>

Files == [path : Paths, text : Texts]
--------------------------------------------------------------------------------
(* The file system *)

Content(p) == disk[link[p]]
IsLink(p) == link[p] # p

\* uri_to_canonical_path: a path that does not resolve is resolved through its
\* directory.
Canonical(p) ==
  IF Content(p) # Absent THEN link[p]
  ELSE IF p \in Nested /\ nestedGone THEN Unresolved
  ELSE p

\* The elements of s that are in S, in their order.
Kept(s, S) ==
  LET kept[n \in 0 .. Len(s)] ==
        IF n = 0 THEN << >>
        ELSE IF s[n] \in S THEN Append(kept[n - 1], s[n]) ELSE kept[n - 1]
  IN kept[Len(s)]

\* The files bare check would analyse.
Discovered == Kept(Walk, {p \in Paths \ Excluded : Content(p) # Absent})

\* build_overlay: what the overlay holds after a full build.
Rebuilt ==
  LET analysable == Kept(Discovered, {p \in Paths : Content(p) \in Texts})
  IN [i \in DOMAIN analysable |->
        [path |-> link[analysable[i]], text |-> Content(analysable[i])]]
--------------------------------------------------------------------------------
(* What a full build leaves: the guard judges its merge time if there are files. *)
FullBuild(allowed) ==
  /\ Rebuilt = << >> => allowed = enabled
  /\ enabled' = allowed
  /\ on' = (allowed /\ Rebuilt # << >>)
  /\ held' = IF on' THEN Rebuilt ELSE << >>

Init ==
  /\ \E initial \in InitialLinks :
       link = [p \in Paths |-> IF p \in DOMAIN initial THEN initial[p] ELSE p]
  /\ disk \in [Paths -> Texts \union {Broken, Absent}]
  /\ \A p \in Paths : IsLink(p) => disk[p] = Absent
  /\ nestedGone = FALSE
  /\ events = {}
  /\ enabled \in BOOLEAN
  /\ Rebuilt = << >> => enabled
  /\ on = (enabled /\ Rebuilt # << >>)
  /\ held = IF on THEN Rebuilt ELSE << >>
--------------------------------------------------------------------------------
(* The editor *)

Save(p, t) ==
  /\ ~IsLink(p) /\ disk[p] # t
  /\ disk' = [disk EXCEPT ![p] = t]
  /\ nestedGone' = (nestedGone /\ p \notin Nested)
  /\ events' = events \union {p}
  /\ UNCHANGED <<link, enabled, on, held>>

Delete(p) ==
  /\ IsLink(p) \/ disk[p] # Absent
  /\ disk' = [disk EXCEPT ![p] = Absent]
  /\ link' = [link EXCEPT ![p] = p]
  /\ events' = events \union {p}
  /\ UNCHANGED <<nestedGone, enabled, on, held>>

DeleteDirectory ==
  /\ ~nestedGone
  /\ disk' = [p \in Paths |-> IF p \in Nested THEN Absent ELSE disk[p]]
  /\ link' = [p \in Paths |-> IF p \in Nested THEN p ELSE link[p]]
  /\ nestedGone' = TRUE
  /\ events' = events \union {p \in Nested : IsLink(p) \/ disk[p] # Absent}
  /\ UNCHANGED <<enabled, on, held>>

\* p becomes a link to the regular file t.
Relink(p, t) ==
  /\ <<p, t>> \in Relinks /\ link[p] # t
  /\ ~IsLink(t) /\ disk[t] # Absent
  /\ \A q \in Paths \ {p} : link[q] # p
  /\ disk' = [disk EXCEPT ![p] = Absent]
  /\ link' = [link EXCEPT ![p] = t]
  /\ nestedGone' = (nestedGone /\ p \notin Nested)
  /\ events' = events \union {p}
  /\ UNCHANGED <<enabled, on, held>>
--------------------------------------------------------------------------------
(* The server *)

Holds(files, c) == \E i \in DOMAIN files : files[i].path = c

\* watched_event_is_ignorable
Ignorable(p) ==
  /\ Canonical(p) # Unresolved
  /\ {p, Canonical(p)} \intersect Inside = {}

\* What one changed path makes of the table reharvest_sources works on: it has to
\* be built anew, or entries are replaced, removed or left.
Undecided(files, p) ==
  LET c == Canonical(p) IN
    IF Holds(files, c) THEN disk[c] = Broken ELSE ~Ignorable(p)

\* Fault: only the first entry of a path is replaced.
ReharvestedFirst(files, p) ==
  LET c == Canonical(p)
      first(i) == files[i].path = c /\ \A j \in 1 .. i - 1 : files[j].path # c
  IN
    IF disk[c] = Absent THEN Kept(files, {f \in Files : f.path # c})
    ELSE [i \in DOMAIN files |->
            IF first(i) THEN [files[i] EXCEPT !.text = disk[c]] ELSE files[i]]

Reharvested(files, p) ==
  LET c == Canonical(p) IN
    IF ~Holds(files, c) THEN files
    ELSE IF disk[c] = Absent THEN Kept(files, {f \in Files : f.path # c})
    ELSE [i \in DOMAIN files |->
            IF files[i].path = c THEN [files[i] EXCEPT !.text = disk[c]] ELSE files[i]]

\* The table after the first i paths of a notification have been replaced in place.
After(batch, i) ==
  LET after[n \in 0 .. Len(batch)] ==
        IF n = 0 THEN held ELSE Reharvested(after[n - 1], batch[n])
  IN after[i]

\* The paths of one notification, each once.
Notifications ==
  {batch \in UNION {[1 .. n -> events] : n \in 1 .. MaxBatch} :
     \A i, j \in DOMAIN batch : batch[i] = batch[j] => i = j}

\* workspace/didChangeWatchedFiles with project sources
SourcesChanged(batch, allowed) ==
  /\ events' = events \ ToSet(batch)
  /\ IF on /\ \E i \in DOMAIN batch : Undecided(After(batch, i - 1), batch[i])
     THEN FullBuild(allowed)
     ELSE /\ allowed = enabled
          /\ held' = IF on THEN After(batch, Len(batch)) ELSE held
          /\ UNCHANGED <<enabled, on>>
  /\ UNCHANGED diskVars

\* A structural change, or a configuration change: invalidate.
Invalidate(allowed) ==
  /\ FullBuild(allowed)
  /\ UNCHANGED <<diskVars, events>>

\* A worker's rebuild time trips the guard.
GuardTrips ==
  /\ on
  /\ enabled' = FALSE /\ on' = FALSE /\ held' = << >>
  /\ UNCHANGED <<diskVars, events>>

Next ==
  \/ \E p \in Paths, t \in Texts \union {Broken} : Save(p, t)
  \/ \E p \in Paths : Delete(p)
  \/ DeleteDirectory
  \/ \E p, t \in Paths : Relink(p, t)
  \/ \E allowed \in BOOLEAN :
       Invalidate(allowed) \/ \E batch \in Notifications : SourcesChanged(batch, allowed)
  \/ GuardTrips

Spec == Init /\ [][Next]_vars
--------------------------------------------------------------------------------
(* The exclude gate (ExcludeMatcher::excludes) of a buffer named p *)

\* The names the exclude patterns are matched against.
Spellings(p) == {p, Canonical(p)} \intersect Inside

\* Fault: links elsewhere in the tree are not looked for.
GateWithoutWalk(p) ==
  /\ ~(on /\ Holds(held, Canonical(p)))
  /\ Spellings(p) # {} /\ Spellings(p) \subseteq Excluded

Gate(p) ==
  /\ ~(on /\ Holds(held, Canonical(p)))
  /\ Spellings(p) # {} /\ Spellings(p) \subseteq Excluded
  /\ \A q \in ToSet(Discovered) : IsLink(q) => link[q] # Canonical(p)
--------------------------------------------------------------------------------
(* Properties *)

TypeOK ==
  /\ disk \in [Paths -> Texts \union {Broken, Absent}]
  /\ link \in [Paths -> Paths]
  /\ \A p \in Paths : link[link[p]] = link[p]
  /\ nestedGone \in BOOLEAN
  /\ events \subseteq Paths
  /\ enabled \in BOOLEAN
  /\ on \in BOOLEAN
  /\ held \in Seq(Files)

(***************************************************************************)
(* What reharvest_sources calls its invariant: "the incremental state must  *)
(* be byte-identical to what a full rebuild would produce".  Once every     *)
(* event is delivered the overlay holds the same files, with the same       *)
(* content and in the same order, as one built from scratch.                *)
(***************************************************************************)
HeldMatchesRebuild == on /\ events = {} => held = Rebuilt

(***************************************************************************)
(* The same claim for whether there is an overlay at all: while the guard   *)
(* allows one, there is one exactly when a full rebuild would hold files.   *)
(***************************************************************************)
OverlayMatchesRebuild == enabled /\ events = {} => (on <=> Rebuilt # << >>)

(***************************************************************************)
(* A buffer the exclude gate silences is never one bare check would         *)
(* analyse, under any name it reaches the file by, even while events are    *)
(* pending; and once they are delivered no excluded buffer is let through.  *)
(***************************************************************************)
GateAgreesWithCheck ==
  \A p \in Paths : Content(p) # Absent =>
    LET analysed == \E q \in ToSet(Discovered) : link[q] = link[p] IN
      /\ Gate(p) => ~analysed
      /\ events = {} /\ Spellings(p) # {} /\ ~analysed => Gate(p)
================================================================================
