--------------------------- MODULE MCCheckPipeline ---------------------------
(* Two files to analyse and one that is only discovered.                   *)
EXTENDS CheckPipeline

MCNoRule == << >>
MCOccurs(part, text) == text = part \/ (text = "long" /\ part = "short")

MCWorklist == << [path |-> "a", analyze |-> TRUE], [path |-> "b", analyze |-> TRUE],
                 [path |-> "d", analyze |-> FALSE] >>

Is(kind)         == [kind |-> kind, findings |-> << >>, markers |-> << >>]
Has(fs, markers) == [kind |-> "parsed", findings |-> fs, markers |-> markers]
F(rule, message, line, by) ==
    [rule |-> rule, message |-> message, severity |-> "warning", line |-> line, declaredBy |-> by]
Marker(line, scope, tokens) == [line |-> line, scope |-> scope, tokens |-> tokens]

Toplevel == <<"call", "unresolved-toplevel">>
Raises   == <<"flow", "always-raises">>
Short    == F(Toplevel, "short", 1, "nobody")
Long     == F(Toplevel, "long", 2, "nobody")
Declared == F(Raises, "short", 1, "d")
Raising  == F(Raises, "long", 2, "nobody")
Void     == F(<<"static", "value-use.void">>, "short", 1, "nobody")

MCContents ==
    [a |-> {Is("unreadable"), Is("unparseable"), Is("rulePanics"), Is("template"),
            Has(<<Short, Declared, Short>>, << >>),
            Has(<<Short, Long>>, <<Marker(1, "line", {<<"typo">>}), Marker(2, "unknown", {})>>),
            Has(<<Short, Raising, Long>>, <<Marker(1, "line", {<<"call">>}), Marker(2, "file", {})>>),
            Has(<<Raising>>, <<Marker(2, "line", {<<"always-raises">>, <<"typo">>}), Marker(2, "line", {All})>>)},
     b |-> {Is("tooDeep"), Is("panics"), Has(<<Short>>, << >>), Has(<<Void, Raising>>, << >>)},
     d |-> {Is("panics"), Is("harvestPanics"), Has(<< >>, << >>)}]

None == [t \in {} |-> "off"]
MCConfigs ==
    {[disable |-> {}, overrides |-> None, features |-> None, profile |-> "lenient", preEval |-> TRUE],
     [disable |-> {<<"flow">>, Internal}, overrides |-> [t \in {Internal, <<"pre-eval">>} |-> "off"],
      features |-> None, profile |-> "strict", preEval |-> TRUE],
     [disable |-> {}, overrides |-> [t \in {Raises} |-> "info"],
      features |-> [t \in {<<"static", "value-use.void">>} |-> "warning"], profile |-> "lenient", preEval |-> FALSE],
     [disable |-> {<<"pre-eval">>}, overrides |-> [t \in {<<"suppression">>} |-> "off"], features |-> None,
      profile |-> "balanced", preEval |-> TRUE]}

MCTokens == {<<"call">>, <<"always-raises">>}

(* No baseline, or one with a row for a rule ahead of one for a message.   *)
MCBaselines == {<< >>, <<Bucket("a", Toplevel, AnyMessage, 1), Bucket("a", Toplevel, "short", 1)>>}
=============================================================================
