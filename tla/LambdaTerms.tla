------------------------------ MODULE LambdaTerms ------------------------------
(***************************************************************************)
(* The lambda terms that NFN names carry.  Their words are numbers, names   *)
(* of contents and variables.                                              *)
(***************************************************************************)
EXTENDS Integers, Sequences

Token(kind, id, val) == [kind |-> kind, id |-> id, val |-> val]
Number(i) == Token("number", "", i)
Content(n) == Token("content", n, 0)
Variable(x) == Token("variable", x, 0)

Var(w) == [kind |-> "var", v |-> w]
Lambda(w, body) == [kind |-> "lambda", v |-> w, m |-> body]
Apply(f, a) == [kind |-> "app", m |-> f, n |-> a]

\* A set of terms that holds the parts of its members.  A number has a value,
\* and a parameter is a variable.
PartsIn(T) ==
    \A t \in T :
        \/ t.kind = "var" /\ (t.v.kind = "number" => t.v.val \in Int)
        \/ t.kind = "lambda" /\ t.v.kind = "variable" /\ t.m \in T
        \/ t.kind = "app" /\ {t.m, t.n} \subseteq T
===============================================================================
