---------------------------- MODULE CheckPipeline ----------------------------
(***************************************************************************)
(* rigor check (crates/rigor-cli/src/main.rs): analyze_files reads and     *)
(* lowers the work list on the pool, drains it in order, merges the        *)
(* harvests, analyses the parsed files on the pool and puts the findings   *)
(* back in order; then check filters them through the baseline and exits,  *)
(* or a baseline command records them or prunes.                           *)
(*                                                                         *)
(* A file that cannot be read, parsed or walked, or that panics a rule,    *)
(* costs its own findings and nothing else, and must fail the run.         *)
(***************************************************************************)
EXTENDS Baseline, Silencing

CONSTANTS
    Worklist,    \* the work items: [path, analyze]; the analysed ones come first
    Contents,    \* [path |-> the contents the file can have]
    Configs,     \* [disable, overrides, features, profile, preEval]; see Resolve
    Tokens,      \* the known tokens a user may add a marker for
    Baselines    \* the baseline files a project can start with

(* A file's content is what the stages make of it: one of these, or        *)
(* "parsed" with the findings its rules have and the markers in it.        *)
Failing == {"unreadable", "unparseable", "tooDeep", "panics"}
Kinds   == Failing \cup {"template", "parsed", "rulePanics", "harvestPanics"}
Items   == DOMAIN Worklist
Unread  == "unread"
NotRead == [kind |-> Unread, findings |-> << >>, markers |-> << >>]

IsList(s) == s \in Seq(ToSet(s))
ASSUME WorklistAssumption == Worklist \in Seq([path : DOMAIN Contents, analyze : BOOLEAN])
ASSUME ContentsAssumption ==
    \A path \in DOMAIN Contents : \A c \in Contents[path] :
        /\ c = [kind |-> c.kind, findings |-> c.findings, markers |-> c.markers]
        /\ c.kind \in Kinds /\ IsList(c.findings) /\ IsList(c.markers)
        /\ \A m \in ToSet(c.markers) : IsFiniteSet(m.tokens)
ASSUME ConfigsAssumption ==
    \A c \in Configs : c = [disable |-> c.disable, overrides |-> c.overrides, features |-> c.features,
                            profile |-> c.profile, preEval |-> c.preEval]
ASSUME TokensAssumption == \A t \in Tokens : Known(t)

(* A bucket read from a file has a positive count. *)
IsBaseline(b) ==
    IsList(b) /\ \A x \in ToSet(b) : /\ x = Bucket(x.file, x.rule, x.message, x.count)
                                     /\ x.count \in Nat \ {0}
ASSUME BaselinesAssumption == \A b \in Baselines : IsBaseline(b)

Finding(file, rule, message, severity) ==
    [file |-> file, rule |-> rule, message |-> message, severity |-> severity]
InternalError(path) == Finding(path, Internal, "internal", "info")
ParseError(path)    == Finding(path, NoRule, "syntax", "error")

VARIABLES
    pc,          \* "idle", "stage1", "stage3", "done" or "aborted"
    content,     \* what each work item was read as
    config,
    stage1,      \* the outcome of each work item
    index,       \* the items whose harvest was merged
    analysed,    \* the items stage 3 is done with
    stage3,      \* their findings
    early,       \* findings of stage 1, in the order of the drain: <<item, finding>>
    ioError,
    findings,    \* the result of analyze_files
    baseline     \* the buckets of the baseline file; << >> when there is none

vars == <<pc, content, config, stage1, index, analysed, stage3, early, ioError, findings, baseline>>

Init ==
    /\ pc = "idle"
    /\ content = [i \in Items |-> NotRead]
    /\ config \in Configs
    /\ stage1 = [i \in Items |-> Unread]
    /\ index = {}
    /\ analysed = {}
    /\ stage3 = [i \in Items |-> << >>]
    /\ early = << >>
    /\ ioError = FALSE
    /\ findings = << >>
    /\ baseline \in Baselines

(* A run begins. *)
Start ==
    /\ pc \in {"idle", "done", "aborted"}
    /\ pc' = "stage1"
    /\ content' = [i \in Items |-> NotRead]
    /\ config' \in Configs
    /\ stage1' = [i \in Items |-> Unread]
    /\ index' = {}
    /\ analysed' = {}
    /\ stage3' = [i \in Items |-> << >>]
    /\ early' = << >>
    /\ ioError' = FALSE
    /\ findings' = << >>
    /\ UNCHANGED baseline

----------------------------------------------------------------------------
(* Stage 1, on the pool.                                                   *)

(* What a worker makes of an item; a discovery-only file that fails        *)
(* contributes nothing.                                                    *)
Outcome(i, kind) ==
    IF kind = "template" \/ (kind \in Failing /\ ~ Worklist[i].analyze) THEN "excluded"
    ELSE IF kind \in Failing THEN kind
    ELSE IF Worklist[i].analyze THEN "prepared" ELSE "discovery"

(* The file is as it happens to be when it is read.                        *)
ReadAndLower(i) ==
    /\ pc = "stage1" /\ stage1[i] = Unread
    /\ \E c \in Contents[Worklist[i].path] :
          /\ c.kind # "harvestPanics"
          /\ content' = [content EXCEPT ![i] = c]
          /\ stage1' = [stage1 EXCEPT ![i] = Outcome(i, c.kind)]
    /\ UNCHANGED <<pc, config, index, analysed, stage3, early, ioError, findings, baseline>>

(* The harvest is outside catch_unwind: its panic leaves the pool and ends *)
(* the command.                                                            *)
HarvestPanics(i) ==
    /\ pc = "stage1" /\ stage1[i] = Unread
    /\ \E c \in Contents[Worklist[i].path] : c.kind = "harvestPanics"
    /\ pc' = "aborted"
    /\ UNCHANGED <<content, config, stage1, index, analysed, stage3, early, ioError, findings, baseline>>

(* The drain and the merge, in the order of the work list.                 *)
Reported(i) ==
    CASE stage1[i] = "unparseable"          -> <<ParseError(Worklist[i].path)>>
      [] stage1[i] \in {"panics", "tooDeep"} -> <<InternalError(Worklist[i].path)>>
      [] OTHER                              -> << >>

Drain ==
    /\ pc = "stage1"
    /\ \A i \in Items : stage1[i] # Unread
    /\ pc' = "stage3"
    /\ early' = FlattenSeq([i \in Items |-> [n \in DOMAIN Reported(i) |-> <<i, Reported(i)[n]>>]])
    /\ ioError' = (\E i \in Items : stage1[i] = "unreadable")
    /\ index' = {i \in Items : stage1[i] \in {"prepared", "discovery"}}
    /\ UNCHANGED <<content, config, stage1, analysed, stage3, findings, baseline>>

----------------------------------------------------------------------------
(* Stage 3, on the pool.                                                   *)

(* What the rules say of a file: a project declaration silences a finding. *)
Raw(c, known) == Those(c.findings, {r \in ToSet(c.findings) : r.declaredBy \notin known})

(* What is said of the markers joins before they are applied. *)
MarkerRows(c) ==
    FlattenSeq([n \in DOMAIN c.markers |->
        [k \in DOMAIN Complaints(c.markers[n]) |->
            [rule |-> Complaints(c.markers[n])[k], message |-> "marker", severity |-> "warning",
             line |-> c.markers[n].line]]])

(* filter_suppressed, the disable list and a severity of off *)
Keep(path, rows, markers, cfg) ==
    LET kept == Those(rows, {r \in ToSet(rows) : /\ ~ Marked(markers, r.line, r.rule)
                                                 /\ ~ Suppresses(cfg.disable, r.rule)
                                                 /\ Resolve(r.rule, r.severity, cfg) # "off"})
    IN  [n \in DOMAIN kept |-> Finding(path, kept[n].rule, kept[n].message,
                                       Resolve(kept[n].rule, kept[n].severity, cfg))]

Analysed(path, c, known, cfg) == Keep(path, Raw(c, known) \o MarkerRows(c), c.markers, cfg)

(* Fault: configuration filters the finding of a panic like any other. *)
FileFindingsFiltered(i, known) ==
    LET path == Worklist[i].path
    IN  IF content[i].kind # "rulePanics" THEN Analysed(path, content[i], known, config)
        ELSE IF Resolve(Internal, "info", config) # "off" THEN <<InternalError(path)>> ELSE << >>
(* The rules' findings, or what a panic in them leaves.                    *)
FileFindings(i, known) ==
    LET path == Worklist[i].path
    IN  IF content[i].kind # "rulePanics" THEN Analysed(path, content[i], known, config)
        ELSE <<InternalError(path)>>

KnownPaths == {Worklist[i].path : i \in index}

Analyse(i) ==
    /\ pc = "stage3" /\ stage1[i] = "prepared" /\ i \notin analysed
    /\ analysed' = analysed \cup {i}
    /\ stage3' = [stage3 EXCEPT ![i] = FileFindings(i, KnownPaths)]
    /\ UNCHANGED <<pc, content, config, stage1, index, early, ioError, findings, baseline>>

(* A pre_eval entry that does not exist: a row ahead of every file's. *)
RunRows(cfg) ==
    LET severity == Resolve(PreEval, "error", cfg)
    IN  IF cfg.preEval /\ ~ DisablesPreEval(cfg.disable) /\ severity # "off"
        THEN <<Finding("config", PreEval, "missing", severity)>> ELSE << >>

(* Fault: the findings of stage 1 stay ahead of those of stage 3. *)
Unsorted(pairs) == pairs
(* The stable sort by order of the pairs <<item, finding>> *)
ByOrder(pairs) == FlattenSeq([i \in Items |-> Those(pairs, {q \in ToSet(pairs) : q[1] = i})])

Collect ==
    /\ pc = "stage3"
    /\ \A i \in Items : stage1[i] = "prepared" => i \in analysed
    /\ LET late == FlattenSeq([i \in Items |-> [n \in DOMAIN stage3[i] |-> <<i, stage3[i][n]>>]])
           all  == ByOrder(early \o late)
       IN  findings' = RunRows(config) \o [n \in DOMAIN all |-> all[n][2]]
    /\ pc' = "done"
    /\ UNCHANGED <<content, config, stage1, index, analysed, stage3, early, ioError, baseline>>

----------------------------------------------------------------------------
(* The commands that use the findings.                                     *)

(* baseline generate and regenerate *)
Write(mode) ==
    /\ pc = "done"
    /\ baseline' = FromDiagnostics(findings, mode)
    /\ UNCHANGED <<pc, content, config, stage1, index, analysed, stage3, early, ioError, findings>>

(* baseline prune *)
Prune ==
    /\ pc = "done"
    /\ baseline' = Pruned(baseline, findings)
    /\ UNCHANGED <<pc, content, config, stage1, index, analysed, stage3, early, ioError, findings>>

(* check: what it prints, and whether it exits with 1 (finding_fails_run)  *)
FailsRun(f) == f.severity = "error" \/ f.rule = Internal
Shown == Filtered(baseline, findings)
Fails(shown) == ioError \/ \E n \in DOMAIN shown : FailsRun(shown[n])

Next ==
    \/ Start \/ Drain \/ Collect \/ Prune
    \/ \E i \in Items : ReadAndLower(i) \/ HarvestPanics(i) \/ Analyse(i)
    \/ \E mode \in Modes : Write(mode)

Spec == Init /\ [][Next]_vars

----------------------------------------------------------------------------
TypeOK ==
    /\ pc \in {"idle", "stage1", "stage3", "done", "aborted"}
    /\ index \subseteq Items
    /\ ioError \in BOOLEAN
    /\ baseline \in Seq([file : DOMAIN Contents \cup {"config"}, rule : CanonicalRules \cup {Internal, PreEval},
                         message : STRING, count : Nat \ {0}])

(* One file after another, in the order they were named: what a reader of  *)
(* the output may take check to do.                                        *)
OneByOne(cfg, files) ==
    RunRows(cfg) \o FlattenSeq([i \in Items |->
        LET path  == Worklist[i].path
            kind  == files[i].kind
            known == {Worklist[j].path : j \in {j \in Items : files[j].kind \in {"parsed", "rulePanics"}}}
        IN  IF ~ Worklist[i].analyze THEN << >>
            ELSE IF kind = "unparseable" THEN <<ParseError(path)>>
            ELSE IF kind \in {"panics", "tooDeep", "rulePanics"} THEN <<InternalError(path)>>
            ELSE IF kind = "parsed" THEN Analysed(path, files[i], known, cfg)
            ELSE << >>])

(* Whatever order the workers finish in, and whichever files fail at which *)
(* stage, the report is that of the files analysed one after another.      *)
PoolIsInvisible == pc = "done" => findings = OneByOne(config, content)

Failed == {i \in Items : Worklist[i].analyze
                         /\ content[i].kind \in Failing \cup {"rulePanics"}}

(* No configuration, marker or baseline lets a run pass in which a file    *)
(* could not be analysed: finding_fails_run, "a run whose analysis         *)
(* PANICKED must never exit 0".                                            *)
FailuresAreSeen == pc = "done" /\ Failed # {} => Fails(Shown)

(* The same, as far as the code goes: a recorded internal-error is the one *)
(* failure a baseline can hide.                                            *)
FailuresAreSeenUnlessRecorded ==
    pc = "done" /\ Failed # {}
      => Fails(Shown) \/ \E b \in ToSet(baseline) : b.rule = Internal

Count(stream, file, rule) ==
    Cardinality({i \in DOMAIN stream : stream[i].file = file /\ stream[i].rule = rule})
Recorded(file, rule) ==
    LET upTo[n \in 0 .. Len(baseline)] ==
            IF n = 0 THEN 0
            ELSE LET b == baseline[n]
                 IN  upTo[n - 1] + (IF b.file = file /\ b.rule = rule THEN b.count ELSE 0)
    IN  upTo[Len(baseline)]

(* Only what was recorded is silenced: of one file and rule never more     *)
(* findings than its buckets recorded, whatever they say and in whatever   *)
(* order they come, and never one without a rule.                          *)
NothingNewIsSilenced ==
    pc = "done" =>
      LET shown == Shown
      IN  \A i \in DOMAIN findings :
            LET f == findings[i].file
                r == findings[i].rule
            IN  Count(findings, f, r) - Count(shown, f, r)
                  \in 0 .. (IF r = NoRule THEN 0 ELSE Recorded(f, r))

(* Once the strict gate is satisfied and check shows nothing it could have *)
(* recorded, writing the baseline again would change nothing; and a        *)
(* baseline just written by rule satisfies both.                           *)
SettledBaseline ==
    /\ ~ Drifted(baseline, findings)
    /\ \A n \in DOMAIN Shown : ~ Keyed(Shown[n])
ByRule == \A b \in ToSet(baseline) : b.message = AnyMessage
GateMeansFresh ==
    pc = "done" /\ ByRule =>
      (SettledBaseline <=> ToSet(baseline) = ToSet(FromDiagnostics(findings, "rule")))

(* Pruning never changes what check reports of the findings it pruned by,  *)
(* as a set: dropping the last bucket restores the order.                  *)
PruneShowsTheSame ==
    [][Prune => ToSet(Surfaced(baseline', findings)) = ToSet(Surfaced(baseline, findings))]_baseline

(* A marker on one more line never makes check report what it did not:     *)
(* what it silences leaves its bin, which can only fall within its count.  *)
Times(stream, f) == Cardinality({n \in DOMAIN stream : stream[n] = f})
WithMarker(line, t) ==
    [i \in Items |-> [content[i] EXCEPT !.markers =
        Append(@, [line |-> line, scope |-> "line", tokens |-> {t}])]]
MarkingIsQuieter ==
    pc = "done" =>
      LET shown == Shown
          lines == {r.line : r \in UNION {ToSet(content[i].findings) : i \in analysed}}
      IN  \A line \in lines, t \in Tokens :
            LET quieter == Filtered(baseline, OneByOne(config, WithMarker(line, t)))
            IN  \A f \in ToSet(quieter) : Times(quieter, f) <= Times(shown, f)

(* A run that fails under a profile fails under a stricter one, whatever   *)
(* the overrides, the features and the baseline.                           *)
Stricter(profile) ==
    CASE profile = "lenient"  -> {"balanced", "strict"}
      [] profile = "balanced" -> {"strict"}
      [] OTHER                -> {}
StricterFailsToo ==
    pc = "done" /\ Fails(Shown) =>
      \A p \in Stricter(config.profile) :
          Fails(Filtered(baseline, OneByOne([config EXCEPT !.profile = p], content)))

(* "A baseline records the current set of diagnostics so they are          *)
(* suppressed on future runs": whatever the mode, a check right after      *)
(* shows nothing that could be recorded.                                   *)
WrittenIsSilent ==
    [][\A mode \in Modes : Write(mode) =>
          \A n \in DOMAIN Surfaced(baseline', findings) :
              ~ Keyed(findings[Surfaced(baseline', findings)[n]])]_vars
=============================================================================
