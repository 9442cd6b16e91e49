----------------------------- MODULE MCConfigReload -----------------------------
(* .rigor.yml, .rigor.dist.yml, and two files they include: base.yml, and  *)
(* one in a directory of its own that is named .rigor.yml as well.  The    *)
(* bad "disable" of base.yml is harmless where a file laid over it has its *)
(* own; a bad source never is.                                             *)
EXTENDS ConfigReload

MCFiles == {"own", "dist", "base", "sub"}
MCDiscovery == <<"own", "dist">>
MCWatched == {"own", "dist", "sub"}
MCListed == {"sources"}
MCRejected == {"bad"}

Disable(v) == [k \in {"disable"} |-> v]
MCDocuments ==
    [own  |-> {Absent, Broken, Yaml(<< >>, Disable("x")),
               Yaml(<<"base", "sub">>, [paths |-> "none", sources |-> <<"own">>])},
     dist |-> {Absent, Yaml(<<"sub">>, [disable |-> "y", sources |-> <<"dist">>])},
     base |-> {Absent, Yaml(<< >>, Disable("bad")),
               Yaml(<<"sub">>, [disable |-> "w", sources |-> <<"bad">>])},
     sub  |-> {Yaml(<<"base">>, [disable |-> "v", sources |-> <<"sub">>]), Yaml(<< >>, [paths |-> "all"])}]

MCEmpty(c) == "paths" \in DOMAIN c /\ c["paths"] = "none"
=================================================================================
