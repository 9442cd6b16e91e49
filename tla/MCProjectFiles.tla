----------------------------- MODULE MCProjectFiles -----------------------------
(* A small project: two plain files and a link, in discovery order. *)
EXTENDS ProjectFiles, TLC

CONSTANTS a, b, l, w, t1, t2

SmallWalk == <<a, b, l>>
NoLinks == {<< >>}
LinkInside == {<< >>, l :> b, l :> a}
LinkOutside == {l :> w}
NoRelinks == {}
RelinkInside == {<<a, b>>}

\* One content is as good as another; Broken is not one of them.
Symmetry == Permutations({t1, t2})
================================================================================
