--------------------------- MODULE MCKrivineMachine ---------------------------
(***************************************************************************)
(* Expressions for the machine, as trees with a meaning of their own, and  *)
(* the terms that the machine is given for them.                           *)
(***************************************************************************)
EXTENDS KrivineMachine, LambdaTexts, TLC

Num(i) == [kind |-> "num", val |-> i]
Param(x) == [kind |-> "param", id |-> x]
Arith(op, a, b) == [kind |-> "arith", op |-> op, a |-> a, b |-> b]
If(c, a, b) == [kind |-> "if", c |-> c, a |-> a, b |-> b]
Fun(x, body) == [kind |-> "fun", id |-> x, body |-> body]
App(f, a) == [kind |-> "app", f |-> f, a |-> a]
Call(f, args) == [kind |-> "call", fn |-> f, args |-> args]
Church(op, a, b, yes, no) == [kind |-> "church", op |-> op, a |-> a, b |-> b, yes |-> yes, no |-> no]

Operation(op, a, b) ==
    CASE op = "add" -> a + b [] op = "sub" -> a - b [] op = "mult" -> a * b
      [] op = "eq" -> (IF a = b THEN 1 ELSE 0) [] op = "leq" -> (IF a <= b THEN 1 ELSE 0)

MCAnswer(f, args) == IF f.id = "/f" THEN 2 * args[1].val + 1 ELSE args[1].val - args[2].val

RECURSIVE Meaning(_, _)
Meaning(e, names) ==
    CASE e.kind = "num" -> e.val
      [] e.kind = "param" -> names[e.id]
      [] e.kind = "arith" -> Operation(e.op, Meaning(e.a, names), Meaning(e.b, names))
      [] e.kind = "if" -> IF Meaning(e.c, names) # 0 THEN Meaning(e.a, names) ELSE Meaning(e.b, names)
      [] e.kind = "church" ->
            IF (IF e.op = "eq_church" THEN Meaning(e.a, names) = Meaning(e.b, names)
                ELSE Meaning(e.a, names) <= Meaning(e.b, names))
            THEN Meaning(e.yes, names) ELSE Meaning(e.no, names)
      [] e.kind = "fun" -> [id |-> e.id, body |-> e.body, names |-> names]
      [] e.kind = "app" ->
            LET f == Meaning(e.f, names) IN Meaning(f.body, (f.id :> Meaning(e.a, names)) @@ f.names)
      [] e.kind = "call" ->
            MCAnswer([id |-> e.fn],
                     [i \in DOMAIN e.args |-> [val |-> Meaning(e.args[i], names)]])

V(x) == Var(Variable(x))
Two(f, a, b) == Apply(Apply(f, a), b)
Three(f, a, b, c) == Apply(Two(f, a, b), c)

RECURSIVE Source(_)
Source(e) ==
    CASE e.kind = "num" -> Var(Number(e.val))
      [] e.kind = "param" -> V(e.id)
      [] e.kind = "arith" -> Two(V(e.op), Source(e.a), Source(e.b))
      [] e.kind = "if" -> Three(V("ifelse"), Source(e.c), Source(e.a), Source(e.b))
      [] e.kind = "church" -> Two(Two(V(e.op), Source(e.a), Source(e.b)), Source(e.yes), Source(e.no))
      [] e.kind = "fun" -> Lambda(Variable(e.id), Source(e.body))
      [] e.kind = "app" -> Apply(Source(e.f), Source(e.a))
      [] e.kind = "call" ->
            LET f == Two(V("call"), Var(Number(Len(e.args) + 1)), Var(Content(e.fn)))
            IN  IF Len(e.args) = 1 THEN Apply(f, Source(e.args[1])) ELSE Two(f, Source(e.args[1]), Source(e.args[2]))

Leaves == {Num(0), Num(2), Param("x")}
Simple == Leaves \union {Arith(op, a, b) : op \in {"sub", "leq"}, a \in {Num(1), Param("x")}, b \in {Num(2), Param("x")}}

\* The environments of nested functions, with one name for both parameters and
\* with two, and a function that is passed as an argument.
Nested(y) == App(Fun("x", App(Fun(y, Arith("add", Param(y), Param("x"))), Arith("mult", Param("x"), Num(3)))), Num(2))
Higher == App(Fun("g", App(Param("g"), App(Param("g"), Num(3)))), Fun("y", Arith("sub", Num(10), Param("y"))))

Bodies ==
    {Arith(op, a, b) : op \in {"add", "sub", "mult", "eq", "leq"}, a \in Simple, b \in Leaves}
    \union {If(c, a, b) : c \in Simple, a \in {Num(7), Param("x")}, b \in {Arith("sub", Param("x"), Num(2))}}
    \union {Church(op, a, Param("x"), Param("x"), Num(9)) : op \in {"eq_church", "leq_church"}, a \in Leaves}
    \union {Call("/f", <<a>>) : a \in Simple}
    \union {Call("/g", <<a, Call("/f", <<Param("x")>>)>>) : a \in Leaves}
    \union {Arith("sub", a, Call("/f", <<Param("x")>>)) : a \in Leaves}
    \union {App(Fun("x", Arith("mult", Param("x"), Param("x"))), a) : a \in Simple}

Programs ==
    {App(Fun("x", b), a) : b \in Bodies, a \in {Num(3), Arith("add", Num(1), Num(1))}}
    \union {Nested("x"), Nested("y"), Higher}

MCExpressions == {Source(p) : p \in Programs}

RECURSIVE Parts(_)
Parts(t) ==
    {t} \union CASE t.kind = "var" -> {}
                 [] t.kind = "lambda" -> Parts(t.m)
                 [] t.kind = "app" -> Parts(t.m) \union Parts(t.n)

MCTerms == UNION {Parts(t) : t \in MCExpressions}

\* What the machine leaves on its result stack is the value of the
\* expression, and nothing else, for every expression: Krivine_exportResultStack
\* sends all that is there as the answer of the computation.
ResultIsValue ==
    Ended =>
        \E p \in Programs : Source(p) = expression /\ results = <<IntResult(Meaning(p, << >>))>>

\* The machine gets back the term that it has printed: the text that
\* ccnl_lambdaTermToStr makes of a term that the machine comes to resolve is
\* read by ccnl_lambdaStrToTerm as the same term.
RoundTrip == Executes("RESOLVENAME") => Term(Text(Argument)) = Argument
===============================================================================
