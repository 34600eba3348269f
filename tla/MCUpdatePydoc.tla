--------------------------- MODULE MCUpdatePydoc ---------------------------
\* A class b that may be a block of either style, another compound, a file
\* and a namespace or a second file, one of whose files may be bad.
EXTENDS UpdatePydoc, FiniteSets

Compound(kind, name, refid) ==
  [kind |-> kind, name |-> name, refid |-> refid, owner |-> ""]
Def(kind, name, owner) ==
  [kind |-> kind, name |-> name, refid |-> "", owner |-> owner]

MCIndex ==
  {<<Compound("class", "b", "b"), second, file, last>> :
     second \in {Compound("class", "c", "c"), Compound("class", "std::c", "c"),
                 Compound("struct", "c", "c"), Compound("example", "c", "c")},
     file \in {Compound("file", "b.h", "f"), Compound("file", "b.cc", "f")},
     last \in {Compound("namespace", "n", "n"), Compound("file", "b.h", "n")}}

DefsOf ==
  [b |-> {<<>>, <<Def("friend", "make_b", "b"), Def("function", "f", "b")>>,
          <<Def("function", "make", "b"), Def("typedef", "sptr", "b"),
            Def("function", "f", "b"), Def("function", "f", "b")>>},
   c |-> {<<Def("function", "f", "c")>>,
          <<Def("function", "make", "c"), Def("typedef", "sptr", "c")>>},
   f |-> {<<>>, <<Def("function", "make_b", "")>>,
          <<Def("function", "b_f", ""), Def("function", "std::f", "")>>},
   n |-> {<<>>, <<Def("function", "make_b", "n"), Def("slot", "f", "n")>>,
          <<Def("signal", "f", "n"), Def("function", "f", "n")>>}]
Refids == DOMAIN DefsOf
States ==
  {[r \in Refids |-> "good"]} \cup
  {[r \in Refids |-> IF r = bad THEN s ELSE "good"] :
     bad \in Refids, s \in {"malformed", "missing"}}

MCFiles ==
  {[r \in Refids |-> [state |-> state[r], memberdefs |-> defs[r]]] :
     state \in States,
     defs \in {d \in [Refids -> UNION {DefsOf[r] : r \in Refids}] :
                 \A r \in Refids : d[r] \in DefsOf[r]}}

MCIsHeader(name) == name = "b.h"
MCMakeName(name) == IF name = "b" THEN "make_b" ELSE "make_" \o name
MCHeaderOf(name) == name \o ".h"
MCIsStd(name) == name \in {"std::c", "std::f"}
MCDocKey(key) == IF Len(key) = 1 THEN key[1] ELSE key[1] \o "_" \o key[2]
MCTemplates == <<<<"b", "b_f", "make_b">>, <<"b_f", "n_f">>>>
MCOddTexts == [digit : {{}, {"b"}}, paren : {{}, {"f"}}]
=============================================================================
