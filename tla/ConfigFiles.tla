------------------------------ MODULE ConfigFiles ------------------------------
(***************************************************************************)
(* What a set of configuration files comes to (Config::read in             *)
(* crates/rigor-cli/src/config.rs, read_project_config in lsp.rs): the     *)
(* first file of the discovery order that is present, with the files it    *)
(* includes merged underneath it.                                          *)
(*                                                                         *)
(* A document is "absent", "broken" (unreadable, not YAML, no mapping, or  *)
(* a path in it that does not expand) or "yaml" with its includes and its  *)
(* keys.  A value that the configuration rejects breaks no document: only  *)
(* the mapping that all of them come to is validated.  Mappings within a   *)
(* key merge as the keys do and are left out.                              *)
(***************************************************************************)
EXTENDS Naturals, Sequences, SequencesExt, FiniteSets

CONSTANTS
    Files,       \* the configuration files, Discovery's among them
    Discovery,   \* DISCOVERY_ORDER: the files that can be the project's
    Listed,      \* the keys whose lists add up instead of replacing each other
                 \* (dependencies.source_inference)
    Rejected     \* the values, and entries of lists, that validation rejects

Absent == [kind |-> "absent", includes |-> << >>, keys |-> << >>]
Broken == [kind |-> "broken", includes |-> << >>, keys |-> << >>]
Yaml(includes, keys) == [kind |-> "yaml", includes |-> includes, keys |-> keys]

Defaults == [k \in {} |-> << >>]

Loaded(keys) == [outcome |-> "loaded", keys |-> keys, file |-> "none"]
Fatal        == [outcome |-> "fatal", keys |-> Defaults, file |-> "none"]
Needs(f)     == [outcome |-> "needs", keys |-> Defaults, file |-> f]

(* deep_merge, merge_dependencies_hash: r over l *)
Merge(l, r) ==
    [k \in DOMAIN l \cup DOMAIN r |->
        IF k \notin DOMAIN r THEN l[k]
        ELSE IF k \in Listed \cap DOMAIN l THEN l[k] \o r[k] ELSE r[k]]

(* one file over what was merged before it *)
Over(sofar, sub) ==
    IF sofar.outcome = "loaded" /\ sub.outcome = "loaded" THEN Loaded(Merge(sofar.keys, sub.keys))
    ELSE IF sofar.outcome = "loaded" THEN sub ELSE sofar

(* merge_includes: what sub makes of the included files, in the order in   *)
(* which they are named.                                                   *)
MergeIncludes(includes, sub) ==
    LET accumulated[i \in 0 .. Len(includes)] ==
            IF i = 0 THEN Loaded(Defaults) ELSE Over(accumulated[i - 1], sub[includes[i]])
    IN  accumulated[Len(includes)]

(* validate_config_values: each key by itself, and a list entry by entry.  *)
Accepted(keys) ==
    \A k \in DOMAIN keys :
        IF k \in Listed THEN \A i \in DOMAIN keys[k] : keys[k][i] \notin Rejected
        ELSE keys[k] \notin Rejected

(* Fault: the values of each file are validated as it is loaded. *)
LoadValidating(docs, first, included) ==
    LET load[visited \in SUBSET Files] ==
            [f \in Files |->
                IF f \in visited THEN Fatal
                ELSE IF f \notin DOMAIN docs THEN Needs(f)
                ELSE IF docs[f].kind # "yaml" \/ ~ Accepted(docs[f].keys) THEN Fatal
                ELSE Over(MergeIncludes(docs[f].includes, load[visited \cup {f}]), Loaded(docs[f].keys))]
    IN  load[included][first]

(* load_with_includes over the documents read so far: the keys, or the     *)
(* file to read next.  visited holds the files that are including f.       *)
Load(docs, first, included) ==
    LET load[visited \in SUBSET Files] ==
            [f \in Files |->
                IF f \in visited THEN Fatal
                ELSE IF f \notin DOMAIN docs THEN Needs(f)
                ELSE IF docs[f].kind # "yaml" THEN Fatal
                ELSE Over(MergeIncludes(docs[f].includes, load[visited \cup {f}]), Loaded(docs[f].keys))]
    IN  load[included][first]

(* Config::read: what a load comes to is validated when it is complete.    *)
Validated(merged) ==
    IF merged.outcome = "loaded" /\ ~ Accepted(merged.keys) THEN Fatal ELSE merged
Read(docs, first) == Validated(Load(docs, first, {}))

(* read_project_config: the first file that is present decides, even when  *)
(* it is broken; with none, the defaults are the configuration.            *)
LoadConfig(docs) ==
    LET absent(f) == f \in DOMAIN docs /\ docs[f].kind = "absent"
        present == SelectSeq(Discovery, LAMBDA f : ~ absent(f))
    IN  IF present = << >> THEN Loaded(Defaults) ELSE Load(docs, Head(present), {})
ReadConfig(docs) == Validated(LoadConfig(docs))

----------------------------------------------------------------------------
(* The reference: what the include graph says, without loading it.         *)

Includes(docs, f) == ToSet(docs[f].includes)
(* f and the files it includes, directly or not *)
Reached(docs, f) ==
    {g \in Files : \A S \in SUBSET Files :
        f \in S /\ (\A h \in S : Includes(docs, h) \subseteq S) => g \in S}
Loadable(docs, f) ==
    \A g \in Reached(docs, f) :
        docs[g].kind = "yaml" /\ \A h \in Includes(docs, g) : g \notin Reached(docs, h)

(* The files in the order in which their keys are laid on each other. *)
Order(docs, first) ==
    LET order[f \in Reached(docs, first)] ==
            Append(FlattenSeq([i \in DOMAIN docs[f].includes |-> order[docs[f].includes[i]]]), f)
    IN  order[first]

(* The keys of the files of an order, the last one laid down winning. *)
Laid(docs, order) ==
    LET has(k)  == {i \in DOMAIN order : k \in DOMAIN docs[order[i]].keys}
        last(k) == CHOOSE i \in has(k) : \A j \in has(k) : j <= i
    IN  [k \in UNION {DOMAIN docs[order[i]].keys : i \in DOMAIN order} |->
            IF k \in Listed
            THEN FlattenSeq([i \in DOMAIN order |-> IF i \in has(k) THEN docs[order[i]].keys[k] ELSE << >>])
            ELSE docs[order[last(k)]].keys[k]]

LaterWins(docs, f) == Laid(docs, Order(docs, f))
================================================================================
