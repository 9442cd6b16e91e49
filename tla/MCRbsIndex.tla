------------------------------ MODULE MCRbsIndex ------------------------------
(* A core, and the signature files of a project and its gems around an     *)
(* error class Err < Base with namesakes in a module N.                    *)
EXTENDS RbsIndex

MCMethods == {"m", "n", "o"}

Base == <<"Base">>
Err  == <<"Err">>
Sub  == <<"Sub">>
M    == <<"M">>
InN(d) == [Module(<<"N">>) EXCEPT !.inner = <<d>>]

MCContents ==
    [core         |-> <<Class(BasicObjectName, << >>),
                        [Class(ObjectName, <<Ref(BasicObjectName)>>) EXCEPT !.methods = {"o"}]>>,
     base         |-> <<[Class(Base, << >>) EXCEPT !.methods = {"m"}]>>,
     base_mixin   |-> <<[Class(Base, << >>) EXCEPT !.includes = <<Ref(M)>>]>>,
     err          |-> <<Class(Err, <<Ref(Base)>>)>>,
     err_ext      |-> <<[Class(Err, << >>) EXCEPT !.methods = {"n"}]>>,
     sub          |-> <<[Class(Sub, <<Ref(<<"N", "Err">>)>>) EXCEPT !.aliases = "n" :> "m"]>>,
     sub_ext      |-> <<Class(Sub, << >>)>>,
     m            |-> <<[Module(M) EXCEPT !.methods = {"m"}]>>,
     m_mixin      |-> <<[Module(M) EXCEPT !.includes = <<Ref(<<"N", "M">>)>>]>>,
     n_base       |-> <<InN(Class(Base, <<Root(Err)>>))>>,
     n_err        |-> <<InN([Class(Err, <<Ref(Base)>>) EXCEPT !.methods = {"n"}])>>,
     n_err_prep   |-> <<[Class(<<"N", "Err">>, << >>) EXCEPT !.prepends = <<Ref(M)>>]>>,
     n_err_sub    |-> <<InN([Class(Err, << >>) EXCEPT !.inner =
                            <<[Class(Sub, <<Ref(Err)>>) EXCEPT !.includes = <<Ref(M), Root(M)>>]>>])>>,
     n_sub        |-> <<InN([Class(Sub, <<Ref(M)>>) EXCEPT !.methods = {"m"}])>>,
     n_m          |-> <<InN([Module(M) EXCEPT !.methods = {"m"}])>>,
     n_m_mixin    |-> <<InN([Module(M) EXCEPT !.includes = <<Root(M)>>])>>]

===============================================================================
