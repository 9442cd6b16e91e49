----------------------------- MODULE MCReachMemo -----------------------------
(* Files with three reads and two predicates.                              *)
EXTENDS ReachMemo, TLC

CONSTANTS a, b, c, p, q

MCReads == {a, b, c}
MCPreds == {p, q}
MCScanOrder == <<p, q>>

Values == {Lit("true"), Lit("nil"), Untyped, Read(b), Read(c)}
Under(x) == {<<x, "then">>, <<x, "else">>}

MCPrograms ==
    {[writes |-> (a :> wa @@ b :> wb @@ c :> wc), cond |-> (p :> x @@ q :> y)] :
        wa \in {<<Write(Lit("true"), m), Write(v, << >>)>> : m \in Under(q), v \in Values \ {Untyped}},
        wb \in {<<Write(v, << >>), Write(Lit(l), m)>> : v \in {Lit("nil"), Read(c)}, l \in {"true", "nil"}, m \in Under(p) \cup {<<q, "then">>}}
               \cup {<<Write(Read(a), << >>)>>, <<Write(If(p, Lit("true"), Read(c)), << >>)>>},
        wc \in {<<Write(v, << >>)>> : v \in {Lit("nil"), Untyped, Read(b)}} \cup {<< >>, <<Write(Lit("nil"), <<p, "then">>)>>},
        x \in {a, c}, y \in {b, c}}
=============================================================================
