------------------------------- MODULE Silencing -------------------------------
(***************************************************************************)
(* What can silence a finding before the baseline sees it: the markers in  *)
(* the source (crates/rigor-rules/src/suppression.rs and                   *)
(* suppression_markers.rs), the disable list of the configuration, and a   *)
(* severity that resolves to off (crates/rigor-cli/src/severity.rs).       *)
(*                                                                         *)
(* A rule or a token is the sequence of its dotted segments, so its family *)
(* is its head.                                                            *)
(***************************************************************************)
EXTENDS Naturals, Sequences, SequencesExt, FiniteSets

Internal == <<"internal-error">>
All      == <<"all">>
PreEval  == <<"pre-eval", "file-not-found">>

Ids(family, names) == {<<family, n>> : n \in names}

(* The rules rigor-rs emits. *)
ImplementedRules ==
    Ids("call", {"undefined-method", "wrong-arity", "argument-type-mismatch", "possible-nil-receiver",
                 "unresolved-toplevel", "raise-non-exception"})
    \cup Ids("flow", {"dead-assignment", "always-raises", "unreachable-branch", "always-truthy-condition",
                      "duplicate-hash-key", "return-in-ensure", "shadowed-rescue-clause"})
    \cup Ids("def", {"override-visibility-reduced", "ivar-write-mismatch"})
    \cup Ids("suppression", {"unknown-rule", "empty", "unknown-marker"})
    \cup Ids("static", {"value-use.void"})

(* The whole catalogue. *)
CanonicalRules ==
    ImplementedRules
    \cup Ids("call", {"self-undefined-method", "deprecated-ruby2-keywords"})
    \cup Ids("flow", {"unreachable-clause"}) \cup Ids("dump", {"type"}) \cup Ids("assert", {"type-mismatch"})
    \cup Ids("def", {"return-type-mismatch", "method-visibility-mismatch", "override-return-widened",
                     "override-param-narrowed"})
    \cup Ids("effect", {"envelope-exceeded", "liskov-widened", "unknown-label", "annotations-unchecked"})
    \cup Ids("global", {"write-type-mismatch", "readonly-write"}) \cup Ids("rbs", {"contradicting-signature"})

RuleFamilies == {"call", "flow", "assert", "dump", "def", "global", "suppression", "static", "effect"}
OtherFamilies == {"rbs_extended", "dynamic", "rbs", "pre-eval", "plugin", "plugin_trust"}
OtherIds == {"configuration-error", "load-error", "pool-degraded", "runtime-error",
             "source-rbs-synthesis-failed", "source-rbs-annotation-not-honoured"}

(* legacy_alias: the short names, each the last segment of its rule but one *)
Aliased ==
    {r \in CanonicalRules :
        r[2] \in {"undefined-method", "self-undefined-method", "wrong-arity", "argument-type-mismatch",
                  "possible-nil-receiver", "always-raises", "unreachable-branch", "ivar-write-mismatch",
                  "method-visibility-mismatch", "dead-assignment", "always-truthy-condition",
                  "unreachable-clause", "raise-non-exception", "duplicate-hash-key", "return-in-ensure",
                  "shadowed-rescue-clause"}}
LegacyAlias(token) ==
    CASE token = <<"dump-type">>   -> {<<"dump", "type">>}
      [] token = <<"assert-type">> -> {<<"assert", "type-mismatch">>}
      [] OTHER                     -> {r \in Aliased : token = <<r[2]>>}

(* known_suppression_token *)
Known(token) ==
    \/ token = All \/ token \in CanonicalRules \/ LegacyAlias(token) # {}
    \/ Len(token) = 1 /\ token[1] \in RuleFamilies \cup OtherIds
    \/ Len(token) > 1 /\ token[1] \in OtherFamilies

(* absorb_token: what one token stands for. *)
Expand(token) ==
    IF LegacyAlias(token) # {} THEN LegacyAlias(token)
    ELSE IF Len(token) = 1 /\ token[1] \in RuleFamilies THEN {r \in ImplementedRules : r[1] = token[1]}
    ELSE {token}

(* SuppressSet::suppresses, of the set built from the tokens *)
Suppresses(tokens, rule) ==
    rule # Internal /\ (All \in tokens \/ \E t \in tokens : rule \in Expand(t))

(* config_disables_pre_eval *)
DisablesPreEval(tokens) == tokens \cap {All, PreEval, <<"pre-eval">>} # {}

----------------------------------------------------------------------------
(* The markers of a file: a sequence of [line, scope, tokens], the scope   *)
(* "file", "line" or, for a marker outside the grammar, "unknown".         *)

(* filter_suppressed *)
Marked(markers, line, rule) ==
    \E m \in ToSet(markers) : /\ m.scope = "file" \/ (m.scope = "line" /\ m.line = line)
                              /\ Suppresses(m.tokens, rule)

(* suppression_marker_diagnostics: what is said of a marker. *)
Complaints(m) ==
    LET typos == {t \in m.tokens : ~ Known(t)}
    IN  CASE m.scope = "unknown" -> <<<<"suppression", "unknown-marker">>>>
          [] m.tokens = {}       -> <<<<"suppression", "empty">>>>
          [] OTHER               -> [n \in 1 .. Cardinality(typos) |-> <<"suppression", "unknown-rule">>]

----------------------------------------------------------------------------
(* The profiles; what is in none of these three is a warning.              *)
NeverOn == {<<"call", "self-undefined-method">>, <<"static", "value-use.void">>}
MarkerRules == Ids("suppression", {"empty", "unknown-marker", "unknown-rule"})
AlwaysErrors ==
    Ids("call", {"undefined-method", "wrong-arity"}) \cup Ids("assert", {"type-mismatch"})
Catalogued ==
    (CanonicalRules \ {r \in CanonicalRules : r[1] \in {"effect", "global", "rbs"}
                                              \/ r = <<"call", "deprecated-ruby2-keywords">>})
    \cup {<<"rbs_extended", "unsatisfied-conformance">>}

OffIn ==
    [lenient  |-> NeverOn \cup {<<"call", "unresolved-toplevel">>}
                  \cup Ids("def", {"override-param-narrowed", "override-return-widened", "override-visibility-reduced"}),
     balanced |-> NeverOn,
     strict   |-> NeverOn]
InfoIn ==
    [lenient  |-> {<<"dump", "type">>} \cup {r \in Catalogued : r[1] = "flow" /\ r[2] # "always-raises"},
     balanced |-> {<<"dump", "type">>, <<"flow", "unreachable-clause">>},
     strict   |-> {}]
ErrorIn ==
    [lenient  |-> AlwaysErrors,
     balanced |-> AlwaysErrors \cup {<<"flow", "always-raises">>}
                  \cup Ids("call", {"argument-type-mismatch", "possible-nil-receiver", "raise-non-exception"})
                  \cup Ids("def", {"method-visibility-mismatch"}),
     strict   |-> Catalogued \ (NeverOn \cup MarkerRules \cup {<<"flow", "unreachable-clause">>})]
Profiles == DOMAIN OffIn

(* Fault: strict leaves the flow rules at a warning. *)
Lapsed(profile, rule) ==
    CASE rule \in OffIn[profile]   -> "off"
      [] rule \in InfoIn[profile]  -> "info"
      [] profile = "strict" /\ rule[1] = "flow" -> "warning"
      [] rule \in ErrorIn[profile] -> "error"
      [] OTHER                     -> "warning"
(* Profile::table *)
Table(profile, rule) ==
    CASE rule \in OffIn[profile]   -> "off"
      [] rule \in InfoIn[profile]  -> "info"
      [] rule \in ErrorIn[profile] -> "error"
      [] OTHER                     -> "warning"

(* resolve: an override of the rule, else of its family, else the features *)
(* the run adopts, else the profile, else what the rule says itself.       *)
(* overrides and features map tokens and rules to severities.              *)
Resolve(rule, authored, c) ==
    IF rule \in DOMAIN c.overrides THEN c.overrides[rule]
    ELSE IF <<rule[1]>> \in DOMAIN c.overrides THEN c.overrides[<<rule[1]>>]
    ELSE IF rule \in DOMAIN c.features THEN c.features[rule]
    ELSE IF rule \in Catalogued THEN Table(c.profile, rule) ELSE authored
===============================================================================
