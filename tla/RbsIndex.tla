------------------------------- MODULE RbsIndex -------------------------------
(***************************************************************************)
(* The index of RBS signatures (crates/rigor-index/src/rbs.rs): files are  *)
(* read one by one and their declarations folded into two registries, one  *)
(* by the last segment of a name, in which namesakes share an entry, and   *)
(* one by the qualified name.  The rules ask the registries which methods  *)
(* an instance has and how two classes are related.                        *)
(*                                                                         *)
(* A name is a sequence of segments.  Methods and attributes are one set;  *)
(* return types, arities, overloads, the singleton side, self-types,       *)
(* interfaces and the project's `use` clauses are left out.                *)
(***************************************************************************)
EXTENDS Naturals, Sequences, SequencesExt, FiniteSets, TLC

CONSTANTS
    Contents,   \* the signature files: for each the sequence of its declarations
    Core,       \* the one that is read first
    MaxFiles,   \* bound: how many are read after it
    Methods     \* the method names the rules ask for

ObjectName      == <<"Object">>
BasicObjectName == <<"BasicObject">>
AliasDepth      == 16

(* A reference as it is written, :: in front or not. *)
Ref(path)  == [path |-> path, rooted |-> FALSE]
Root(path) == [path |-> path, rooted |-> TRUE]

(* A declaration; `super` holds one reference at most, `inner` the nested  *)
(* declarations.                                                           *)
Module(name) ==
    [methods |-> {}, inner |-> << >>, includes |-> << >>, aliases |-> << >>, prepends |-> << >>,
     name |-> name, kind |-> "module", super |-> << >>]
Class(name, super) == [Module(name) EXCEPT !.kind = "class", !.super = super]

VARIABLES
    log,       \* the files read, in order
    builder,   \* Builder: [classes, claimed, qualified]
    finished   \* Builder::finish has run

vars == <<log, builder, finished>>

----------------------------------------------------------------------------
(* Folding declarations in.                                                *)

(* qualified_name: under the innermost scope *)
Qualify(outer, d) == (IF outer = << >> THEN << >> ELSE Last(outer)) \o d.name

AddAll(list, new) ==
    FoldLeft(LAMBDA acc, x : IF Contains(acc, x) THEN acc ELSE Append(acc, x), list, new)

Leaves(refs)       == [i \in DOMAIN refs |-> Last(refs[i].path)]
Written(refs, ctx) == [i \in DOMAIN refs |-> [ref |-> refs[i], ctx |-> ctx]]

(* ClassEntry, as one declaration has it: the superclass is looked up      *)
(* outside the declaration, the mixins inside.                             *)
Entry(d, outer, inside) ==
    [methods         |-> d.methods,
     includes        |-> AddAll(<< >>, Leaves(d.includes)),
     aliases         |-> d.aliases,
     prepends        |-> AddAll(<< >>, Leaves(d.prepends)),
     super           |-> Leaves(d.super),
     superWritten    |-> Written(d.super, outer),
     isModule        |-> d.kind = "module",
     prependsWritten |-> AddAll(<< >>, Written(d.prepends, inside)),
     includesWritten |-> AddAll(<< >>, Written(d.includes, inside))]

(* An entry that is not there yet says nothing. *)
Slot(map, key) == IF key \in DOMAIN map THEN map[key] ELSE Entry(Class(key, << >>), << >>, << >>)

(* What both merges do: union, the first alias of a name staying. *)
Reopen(slot, e) ==
    [slot EXCEPT !.isModule = @ \/ e.isModule,
                 !.methods  = @ \cup e.methods,
                 !.aliases  = @ @@ e.aliases,
                 !.prepends = AddAll(@, e.prepends),
                 !.includes = AddAll(@, e.includes)]

(* Fault: a nested namesake takes a superclass slot that is claimed. *)
MergeUnclaimed(slot, e, authoritative, claimed) ==
    [Reopen(slot, e) EXCEPT !.super = IF @ = << >> \/ (authoritative /\ ~ claimed) THEN e.super ELSE @]
(* merge_inner: the first top-level declaration of a name decides its      *)
(* superclass; a nested one fills a slot that is empty and unclaimed.      *)
Merge(slot, e, authoritative, claimed) ==
    [Reopen(slot, e) EXCEPT !.super = IF ~ claimed /\ (authoritative \/ @ = << >>) THEN e.super ELSE @]

(* merge_qualified_inner *)
MergeQualified(slot, e) ==
    [Reopen(slot, e) EXCEPT
        !.super           = IF slot.super = << >> THEN e.super ELSE @,
        !.superWritten    = IF slot.super = << >> THEN e.superWritten ELSE @,
        !.prependsWritten = AddAll(@, e.prependsWritten),
        !.includesWritten = AddAll(@, e.includesWritten)]

RECURSIVE Ingest(_, _, _)
(* ingest_class, ingest_module: the nested declarations, then this one *)
Ingest(b, d, outer) ==
    LET qual   == Qualify(outer, d)
        inside == Append(outer, qual)
        leaf   == Last(d.name)
        e      == Entry(d, outer, inside)
        c      == FoldLeft(LAMBDA acc, n : Ingest(acc, n, inside), b, d.inner)
        authoritative == outer = << >> /\ Len(d.name) = 1
    IN  [classes   |-> leaf :> Merge(Slot(c.classes, leaf), e, authoritative, leaf \in c.claimed) @@ c.classes,
         claimed   |-> c.claimed \cup (IF authoritative THEN {leaf} ELSE {}),
         qualified |-> qual :> MergeQualified(Slot(c.qualified, qual), e) @@ c.qualified]

IngestFile(b, f) == FoldLeft(LAMBDA acc, d : Ingest(acc, d, << >>), b, Contents[f])

(* finish: a class without a superclass is an Object *)
Defaulted(b) ==
    [b EXCEPT !.classes =
        [n \in DOMAIN @ |->
            IF @[n].super = << >> /\ n \notin {"BasicObject", "Kernel", "Comparable", "Enumerable"}
            THEN [@[n] EXCEPT !.super = ObjectName] ELSE @[n]]]

Init ==
    /\ log = <<Core>>
    /\ builder = IngestFile([classes |-> << >>, claimed |-> {}, qualified |-> << >>], Core)
    /\ finished = FALSE

(* A file that can be read and parsed; the others leave nothing behind. *)
Load(f) ==
    /\ ~ finished /\ f \notin ToSet(log) /\ Len(log) <= MaxFiles
    /\ log' = Append(log, f)
    /\ builder' = IngestFile(builder, f)
    /\ UNCHANGED finished

Finish ==
    /\ ~ finished
    /\ finished' = TRUE
    /\ builder' = Defaulted(builder)
    /\ UNCHANGED log

Next == (\E f \in DOMAIN Contents : Load(f)) \/ Finish
Spec == Init /\ [][Next]_vars

----------------------------------------------------------------------------
(* The questions to the registry of last segments.                         *)

RECURSIVE Collect(_, _, _)
(* collect: the prepended modules, the class, the included ones, then its  *)
(* superclass; a name that is not there leaves the walk incomplete.        *)
Collect(map, name, walk) ==
    IF name \notin DOMAIN map THEN [walk EXCEPT !.complete = FALSE]
    ELSE IF name \in walk.seen THEN walk
    ELSE LET into(w, n) == Collect(map, n, w)
             ahead == FoldLeft(into, [walk EXCEPT !.seen = @ \cup {name}], map[name].prepends)
         IN  FoldLeft(into, [ahead EXCEPT !.order = Append(@, name)], map[name].includes \o map[name].super)

CollectAll(map, names) ==
    FoldLeft(LAMBDA w, n : Collect(map, n, w), [order |-> << >>, seen |-> {}, complete |-> TRUE], names)
AncestorsOf(name) == CollectAll(builder.classes, <<name>>)

RECURSIVE Definer(_, _, _, _)
(* lookup_on_chain_depth, qualified_lookup_on_chain: the first entry of    *)
(* the chain that defines the method, else that of the first alias that    *)
(* leads anywhere; << >> when there is none.                               *)
Definer(map, chain, m, depth) ==
    LET direct  == SelectSeq(chain, LAMBDA k : m \in map[k].methods)
        aliased == SelectSeq(chain, LAMBDA k : m \in DOMAIN map[k].aliases /\
                                               Definer(map, chain, map[k].aliases[m], depth + 1) # << >>)
    IN  IF direct # << >> THEN <<Head(direct)>>
        ELSE IF depth >= AliasDepth \/ aliased = << >> THEN << >>
        ELSE Definer(map, chain, map[Head(aliased)].aliases[m], depth + 1)

Finds(map, chain, m) == Definer(map, chain, m, 0) # << >>

ClassHasMethod(name, m) ==
    /\ name \in DOMAIN builder.classes
    /\ \/ Finds(builder.classes, AncestorsOf(name).order, m)
       \/ ~ AncestorsOf(name).complete

ClassOrdering(lhs, rhs) ==
    LET l == AncestorsOf(lhs)
        r == AncestorsOf(rhs)
    IN  CASE lhs = rhs                                -> "equal"
          [] ~ {lhs, rhs} \subseteq DOMAIN builder.classes -> "unknown"
          [] OTHER ->
             CASE Contains(l.order, rhs)              -> "subclass"
               [] ~ Contains(l.order, rhs) /\ Contains(r.order, lhs) -> "superclass"
               [] OTHER -> IF l.complete /\ r.complete THEN "disjoint" ELSE "unknown"

----------------------------------------------------------------------------
(* The questions to the qualified registry.                                *)

(* resolve_written_ref: the head binds in the innermost scope that has it; *)
(* a tail that is not there sends the whole name to the root.              *)
Resolve(map, ref, ctx) ==
    LET scopes == Append(Reverse(ctx), << >>)
        bound  == SelectSeq(scopes, LAMBDA s : Append(s, Head(ref.path)) \in DOMAIN map)
        whole(s) == \A i \in DOMAIN ref.path : s \o SubSeq(ref.path, 1, i) \in DOMAIN map
        rooted == IF ref.path \in DOMAIN map THEN <<ref.path>> ELSE << >>
    IN  IF ref.rooted \/ bound = << >> \/ ~ whole(Head(bound)) THEN rooted
        ELSE <<Head(bound) \o ref.path>>

(* qualified_default_superclass *)
DefaultSuper(map, key) ==
    IF map[key].isModule \/ key = BasicObjectName \/ ObjectName \notin DOMAIN map
    THEN << >> ELSE <<ObjectName>>

(* Fault: an entry met a second time is taken for a cycle. *)
OpenSeen(walk, key) == key \in walk.seen
(* The entry's walk is still open: a cycle. *)
Open(walk, key) == key \in walk.open

RECURSIVE CollectQualified(_, _, _)
(* collect_qualified, collect_qualified_edges: the walk stops at the first *)
(* reference that leads nowhere, at a cycle, and at a superclass that is a *)
(* module.                                                                 *)
CollectQualified(map, key, walk) ==
    LET stop == [walk EXCEPT !.complete = FALSE]
        e == map[key]
        follow(w, r) ==
            LET found == Resolve(map, r.ref, r.ctx)
            IN  IF ~ w.complete THEN w
                ELSE IF found = << >> THEN [w EXCEPT !.complete = FALSE]
                ELSE CollectQualified(map, Head(found), w)
        under(w) ==
            LET found == IF e.superWritten = << >> THEN DefaultSuper(map, key)
                         ELSE Resolve(map, Head(e.superWritten).ref, Head(e.superWritten).ctx)
            IN  IF ~ w.complete THEN w
                ELSE IF found = << >> THEN [w EXCEPT !.complete = e.superWritten = << >>]
                ELSE IF map[Head(found)].isModule THEN [w EXCEPT !.complete = FALSE]
                ELSE CollectQualified(map, Head(found), w)
        ahead == FoldLeft(follow, [walk EXCEPT !.seen = @ \cup {key}, !.open = @ \cup {key}], e.prependsWritten)
        self  == IF ahead.complete THEN [ahead EXCEPT !.order = Append(@, key)] ELSE ahead
    IN  IF ~ walk.complete THEN walk
        ELSE IF Open(walk, key) THEN stop
        ELSE IF key \in walk.seen THEN walk
        ELSE [under(FoldLeft(follow, self, e.includesWritten)) EXCEPT !.open = walk.open]

QualifiedAncestors(q) ==
    CollectQualified(builder.qualified, q, [order |-> << >>, seen |-> {}, open |-> {}, complete |-> TRUE])

(* The ancestors of a qualified entry by their last segments. *)
ShortAncestors(q) ==
    LET e     == builder.qualified[q]
        super == IF e.super # << >> \/ q = BasicObjectName THEN e.super ELSE ObjectName
    IN  CollectAll(builder.classes, e.prepends \o e.includes \o super)

(* Fault: the short walk alone. *)
HasMethodShort(q, m) ==
    LET short == ShortAncestors(q) IN
    \/ q \notin DOMAIN builder.qualified
    \/ Finds(builder.qualified, <<q>>, m)
    \/ Finds(builder.classes, short.order, m)
    \/ ~ short.complete
(* qualified_class_has_method *)
QualifiedHasMethod(q, m) ==
    LET short == ShortAncestors(q)
        chain == QualifiedAncestors(q)
    IN  \/ q \notin DOMAIN builder.qualified
        \/ Finds(builder.qualified, <<q>>, m)
        \/ Finds(builder.classes, short.order, m)
        \/ ~ chain.complete \/ Finds(builder.qualified, chain.order, m)
        \/ ~ short.complete

----------------------------------------------------------------------------
(* The reference: RBS over the declarations read, as sets.                 *)

RECURSIVE Flatten(_, _)
Flatten(d, outer) ==
    LET qual == Qualify(outer, d)
    IN  {[qual |-> qual, outer |-> outer, inside |-> Append(outer, qual), decl |-> d]}
        \cup UNION {Flatten(d.inner[i], Append(outer, qual)) : i \in DOMAIN d.inner}

Declarations == UNION {UNION {Flatten(Contents[f][i], << >>) : i \in DOMAIN Contents[f]} : f \in ToSet(log)}

(* A name is looked up in the innermost scope that has its head; one that  *)
(* is not whole there is one of the root.                                  *)
Meaning(names, ref, ctx) ==
    LET scopes == {s \in ToSet(ctx) \cup {<< >>} : Append(s, Head(ref.path)) \in names}
        nearest == CHOOSE s \in scopes : \A t \in scopes : Len(t) <= Len(s)
        whole(s) == \A i \in DOMAIN ref.path : s \o SubSeq(ref.path, 1, i) \in names
    IN  IF ref.rooted \/ scopes = {} \/ ~ whole(nearest) THEN ref.path ELSE nearest \o ref.path

(* What RBS makes of the declarations: for every name what it declares and *)
(* which names it refers to.                                               *)
Environment ==
    LET all   == Declarations
        names == {x.qual : x \in all}
        of(q) == {x \in all : x.qual = q}
        isModule(q) == \E x \in of(q) : x.decl.kind = "module"
        said(q)  == UNION {{Meaning(names, r, x.outer) : r \in ToSet(x.decl.super)} : x \in of(q)}
        mixed(q) == UNION {{Meaning(names, r, x.inside) : r \in ToSet(x.decl.prepends \o x.decl.includes)} : x \in of(q)}
    IN  [q \in names |->
            [decls    |-> {x.decl : x \in of(q)},
             isModule |-> isModule(q),
             supers   |-> IF said(q) # {} \/ isModule(q) \/ q = BasicObjectName THEN said(q) ELSE {ObjectName},
             mixins   |-> mixed(q)]]

Parents(env, q) == IF q \in DOMAIN env THEN env[q].supers \cup env[q].mixins ELSE {}

RECURSIVE Above(_, _)
(* qs and everything they inherit from *)
Above(env, qs) ==
    LET next == qs \cup UNION {Parents(env, q) : q \in qs}
    IN  IF next = qs THEN qs ELSE Above(env, next)

(* RBS builds the definition: every ancestor is declared, none is its own, *)
(* and no superclass is a module.                                          *)
Builds(env, q) ==
    \A p \in Above(env, {q}) :
        /\ p \in DOMAIN env
        /\ p \notin Above(env, Parents(env, p))
        /\ \A s \in env[p].supers : s \in DOMAIN env => ~ env[s].isModule

RECURSIVE Surface(_, _)
(* The methods of a set of declarations, their aliases included. *)
Surface(decls, ms) ==
    LET next == ms \cup UNION {d.methods : d \in decls}
                   \cup {n \in UNION {DOMAIN d.aliases : d \in decls} :
                            \E d \in decls : n \in DOMAIN d.aliases /\ d.aliases[n] \in ms}
    IN  IF next = ms THEN ms ELSE Surface(decls, next)
SurfaceOf(env, q) == Surface(UNION {env[p].decls : p \in Above(env, {q})}, {})

(* The others that share the last segment with something q inherits from. *)
Namesakes(env, q) ==
    {r \in DOMAIN env : \E p \in Above(env, {q}) : Last(r) = Last(p) /\ r # p}

(* No top-level class q inherits from was reopened before it was declared  *)
(* with its superclass.                                                    *)
TopLevel(f, q) == {d \in ToSet(Contents[f]) : d.name = q}
ReopenedFirst(q) ==
    \E j \in DOMAIN log : \E d \in TopLevel(log[j], q) :
        d.super # << >> /\ \E i \in 1 .. j - 1 : TopLevel(log[i], q) # {}
                         /\ \A k \in 1 .. j - 1 : \A c \in TopLevel(log[k], q) : c.super = << >>
InOrder(env, q) == \A p \in Above(env, {q}) : ~ ReopenedFirst(p)

----------------------------------------------------------------------------
(* When qualified_class_has_method denies a method, the class can be built *)
(* and neither it nor anything it inherits from has the method, whatever   *)
(* else shares a segment of a name and whatever the order of the files:    *)
(* what the undefined-method rules report is a method RBS lacks too.       *)
AbsenceIsReal ==
    finished =>
        LET env == Environment IN
        \A q \in DOMAIN builder.qualified : \A m \in Methods :
            QualifiedHasMethod(q, m) \/ (Builds(env, q) /\ m \notin SurfaceOf(env, q))

(* project_sig_chain_ok holds of exactly the classes RBS can build, and    *)
(* the chain it walks is what they inherit from.                           *)
ChainOkIsBuildable ==
    finished =>
        LET env == Environment IN
        \A q \in DOMAIN builder.qualified :
            LET chain == QualifiedAncestors(q) IN
            /\ chain.complete = Builds(env, q)
            /\ chain.complete => ToSet(chain.order) = Above(env, {q})

(* The relation the two classes have in RBS. *)
Relation(env, l, r) ==
    IF l = r THEN "equal"
    ELSE IF r \in Above(env, {l}) THEN "subclass"
    ELSE IF l \in Above(env, {r}) THEN "superclass" ELSE "disjoint"

(* The classes of the top level whose ancestry the last segments can tell: *)
(* they are in the top level too, and their namesakes mix nothing in.      *)
Told(env, Ordered(_, _)) ==
    {q \in DOMAIN env :
        /\ Len(q) = 1 /\ ~ env[q].isModule
        /\ Builds(env, q) /\ Ordered(env, q)
        /\ Namesakes(env, q) = {}
           \/ /\ \A p \in Above(env, {q}) : Len(p) = 1
              /\ \A r \in Namesakes(env, q) : env[r].mixins = {}}

Exact(Ordered(_, _)) ==
    finished =>
        LET env  == Environment
            told == Told(env, Ordered)
        IN
        /\ \A q \in told : \A m \in Methods :
            /\ m \in SurfaceOf(env, q) => ClassHasMethod(Head(q), m)
            /\ Namesakes(env, q) = {} /\ ClassHasMethod(Head(q), m) => m \in SurfaceOf(env, q)
        /\ \A l, r \in told : ClassOrdering(Head(l), Head(r)) = Relation(env, l, r)

(* class_ordering and class_has_method know only last segments.  Of the    *)
(* top-level classes above they say what RBS says: nested namesakes change *)
(* no superclass, whichever file comes first, and add methods at most.     *)
(* A class reopened before its superclass is declared is left out.         *)
ShortNamesAreExact == Exact(InOrder)

(* Not so of the code: the same of those too, as the comment on merge has  *)
(* it ("an explicit superclass wins over none", rbs.rs:5526).              *)
ExplicitSuperclassWins == Exact(LAMBDA env, q : TRUE)

(* Not so of the code: collapsing names never witnesses a false absence    *)
(* (the comment at rbs.rs:5511).                                           *)
CollapseOnlyAdds ==
    finished =>
        LET env == Environment IN
        \A q \in DOMAIN env : Len(q) = 1 /\ Builds(env, q) /\ InOrder(env, q) =>
            \A m \in SurfaceOf(env, q) : ClassHasMethod(Head(q), m)

(* Not so of the code: of two modules a class includes that have nothing  *)
(* in common, the one included later comes first                           *)
(* (qualified_ancestors_prefix: "a hit on the prefix is genuinely the      *)
(* first definer", rbs.rs:2723).                                           *)
LaterIncludeIsFirst ==
    finished =>
        LET env == Environment IN
        \A x \in Declarations : \A m \in Methods :
            LET a == Meaning(DOMAIN env, x.decl.includes[1], x.inside)
                b == Meaning(DOMAIN env, x.decl.includes[2], x.inside)
            IN  /\ Len(x.decl.includes) = 2
                /\ Builds(env, x.qual)
                /\ Above(env, {a}) \cap Above(env, {b}) = {}
                /\ env[x.qual].decls = {x.decl}
                /\ x.decl.prepends = << >> /\ m \notin x.decl.methods
                /\ m \in builder.qualified[b].methods
                => Definer(builder.qualified, QualifiedAncestors(x.qual).order, m, 0) = <<b>>
===============================================================================
