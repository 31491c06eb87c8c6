------------------------------ MODULE MCCcnlRelay ------------------------------
(* Values of the constants of CcnlRelay that a configuration cannot write. *)
EXTENDS CcnlRelay

OneName == {<<"a">>}
NameAndPrefix == {<<"a">>, <<"a", "b">>}
NoNames == {}
LongName == {<<"a", "b">>}

NoLimit == -1

DefaultScope == {3}
AnyScope == {2, 3}

StaticFaces == {{"STATIC"}}
StaticOrReflect == {{"STATIC"}, {"REFLECT"}}
===============================================================================
