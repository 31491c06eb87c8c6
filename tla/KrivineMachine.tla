---------------------------- MODULE KrivineMachine ----------------------------
(***************************************************************************)
(* The abstract machine that reduces the expression in an NFN name         *)
(* (Krivine_reduction, ZAM_term): a program of instructions, a stack of    *)
(* closures, a stack of results, and environments on the heap that count   *)
(* the references to them.  A program is a sequence of instructions.  The   *)
(* code prints a term into the program when it takes one apart and parses  *)
(* it again when it gets there; here a program holds the terms, and        *)
(* RoundTrip says that nothing is lost on the way (LambdaTexts).           *)
(*                                                                         *)
(* Not here: definitions (let ... endlet), constants and translate, raw,   *)
(* and what a call does until its answer has come: that is in CcnlNfn.     *)
(***************************************************************************)
EXTENDS LambdaTerms, Integers, FiniteSets

CONSTANTS
    Expressions,   \* the terms the machine is started on
    Terms,         \* these and their parts
    Answer(_, _)   \* the number that a function of the network returns for its arguments

ASSUME TermAssumption == Expressions \subseteq Terms /\ PartsIn(Terms)

VARIABLES
    expression,
    prog,     \* config->prog: the instructions left
    env,      \* config->env
    stack,    \* config->argument_stack, its top first
    results,  \* config->result_stack, its top first
    frames,   \* the environments on the heap
    status    \* running, suspended in a call, halted, crashed: a null pointer was read

vars == <<expression, prog, env, stack, results, frames, status>>

Null == 0
Closure(code, e) == [code |-> code, env |-> e]
IntResult(i) == [type |-> "INT", val |-> i, id |-> ""]
PrefixResult(n) == [type |-> "PREFIX", val |-> 0, id |-> n]

\* arg is the term of RESOLVENAME, the word of ACCESS and GRAB, the code of CLOSURE.
Instr(op, arg) == [op |-> op, arg |-> arg]
Access(w) == Instr("ACCESS", w)
MkClosure(code) == Instr("CLOSURE", code)
Grab(w) == Instr("GRAB", w)
Resolve(t) == Instr("RESOLVENAME", t)
TailApply == Instr("TAILAPPLY", << >>)
Op(name) == Instr(name, << >>)

-------------------------------------------------------------------------------
(* The global environment (setup_global_environment)                       *)

X == Variable("x")
Y == Variable("y")
F == Variable("op")

Binary(op) == <<MkClosure(<<Op(op)>>),
                Resolve(Lambda(F, Lambda(X, Lambda(Y, Apply(Apply(Var(X), Var(Y)), Var(F))))))>>
Unary(op) == <<MkClosure(<<Op(op)>>),
               Resolve(Lambda(F, Lambda(X, Apply(Var(X), Var(F))))), TailApply>>

TrueChurch == Lambda(X, Lambda(Y, Var(X)))
FalseChurch == Lambda(X, Lambda(Y, Var(Y)))

Builtins == {"add", "sub", "mult", "eq", "leq", "eq_church", "leq_church", "ifelse", "call"}

Global(n) ==
    CASE n = "add" -> Binary("OP_ADD") \o <<TailApply>>
      [] n = "sub" -> Binary("OP_SUB") \o <<TailApply>>
      [] n = "mult" -> Binary("OP_MULT") \o <<TailApply>>
      [] n = "eq" -> Binary("OP_CMPEQ")
      [] n = "leq" -> Binary("OP_CMPLEQ")
      [] n = "eq_church" -> Binary("OP_CMPEQ_CHURCH")
      [] n = "leq_church" -> Binary("OP_CMPLEQ_CHURCH")
      [] n = "ifelse" -> Unary("OP_IFELSE")
      [] n = "call" -> Unary("CALL")

-------------------------------------------------------------------------------
(* Environments and their reference counts                                 *)

Reserve(fs, e) == IF e = Null THEN fs ELSE [fs EXCEPT ![e].refs = @ + 1]

\* A reference that is dropped; one that the frame after a freed one was held
\* by is not counted down (freeEnvironment).
Drop(e) == [env |-> e, counted |-> TRUE]
Follow(e) == [env |-> e, counted |-> FALSE]

\* One reference is dropped.  A frame that nobody else holds is freed, with
\* its closure; then the frame after it is looked at.
DropNext(mem) ==
    LET ref == Head(mem.todo)  e == ref.env  fs == mem.fs  left == Tail(mem.todo) IN
    IF mem.todo = << >> THEN mem
    ELSE IF e = Null THEN [fs |-> fs, todo |-> left]
    ELSE IF fs[e].refs <= 1
    THEN [fs |-> [x \in DOMAIN fs \ {e} |-> fs[x]],
          todo |-> <<Drop(fs[e].closure.env), Follow(fs[e].next)>> \o left]
    ELSE [fs |-> IF ref.counted THEN [fs EXCEPT ![e].refs = @ - 1] ELSE fs, todo |-> left]

\* All of todo, and what comes with it: every frame is freed at most once and
\* leaves two references to drop.
Dropped(fs, todo) ==
    LET Steps == Len(todo) + 2 * Cardinality(DOMAIN fs)
        mem[k \in 0 .. Steps] ==
            IF k = 0 THEN [fs |-> fs, todo |-> todo]
            ELSE CHOOSE next \in {DropNext(m) : m \in {mem[k - 1]}} : TRUE  \* mem[k - 1] is computed once
    IN  mem[Steps].fs

\* ccnl_nfn_releaseEnvironment
Release(fs, e) == Dropped(fs, <<Drop(e)>>)

\* ccnl_nfn_freeStack
ReleaseAll(fs, cs) == Dropped(fs, [i \in DOMAIN cs |-> Drop(cs[i].env)])

\* search_in_environment: the frame that binds a word, or Null
BoundBy(w, e) ==
    LET Step == [f \in {Null} \union DOMAIN frames |->
                    IF f = Null \/ frames[f].name = w THEN f ELSE frames[f].next]
        at[k \in 0 .. Cardinality(DOMAIN frames)] == IF k = 0 THEN e ELSE Step[at[k - 1]]
    IN  at[Cardinality(DOMAIN frames)]

Fresh == CHOOSE i \in 1 .. Cardinality(DOMAIN frames) + 1 : i \notin DOMAIN frames

\* Cutting a stack that may be empty (pop_from_stack).
Popped(s) == IF s = << >> THEN << >> ELSE Tail(s)

-------------------------------------------------------------------------------
(* The instructions                                                        *)

Rest == Tail(prog)
Argument == Head(prog).arg
Executes(op) == status = "running" /\ prog # << >> /\ Head(prog).op = op
Crash == status' = "crashed" /\ UNCHANGED <<expression, prog, env, stack, results, frames>>

\* A word that is a number or a content name is a result, another one a variable.
ResolveWord ==
    /\ Executes("RESOLVENAME") /\ Argument.kind = "var"
    /\ LET w == Argument.v IN
       \/ /\ w.kind = "variable"
          /\ prog' = <<Access(w), TailApply>> \o Rest
          /\ UNCHANGED results
       \/ /\ w.kind # "variable"
          /\ prog' = <<TailApply>> \o Rest
          /\ results' = <<IF w.kind = "number" THEN IntResult(w.val) ELSE PrefixResult(w.id)>> \o results
    /\ UNCHANGED <<expression, env, stack, frames, status>>

ResolveLambda ==
    /\ Executes("RESOLVENAME") /\ Argument.kind = "lambda"
    /\ prog' = <<Grab(Argument.v), Resolve(Argument.m)>> \o Rest
    /\ UNCHANGED <<expression, env, stack, results, frames, status>>

ResolveApp ==
    /\ Executes("RESOLVENAME") /\ Argument.kind = "app"
    /\ prog' = <<MkClosure(<<Resolve(Argument.n)>>), Resolve(Argument.m)>> \o Rest
    /\ UNCHANGED <<expression, env, stack, results, frames, status>>

\* Seeded fault: the copy of a closure does not count as a reference.
Copied_Uncounted(fs, e) == fs

Copied(fs, e) == Reserve(fs, e)

\* The closure of a variable, from the environment or else the global one, is
\* copied onto the stack; an unknown variable ends the program.
DoAccess ==
    /\ Executes("ACCESS")
    /\ LET w == Argument  frame == BoundBy(w, env) IN
       \/ /\ frame # Null
          /\ stack' = <<frames[frame].closure>> \o stack
          /\ frames' = Copied(frames, frames[frame].closure.env)
          /\ prog' = Rest
       \/ /\ frame = Null /\ w.id \in Builtins
          /\ stack' = <<Closure(Global(w.id), Null)>> \o stack
          /\ prog' = Rest /\ UNCHANGED frames
       \/ /\ frame = Null /\ w.id \notin Builtins
          /\ prog' = << >> /\ UNCHANGED <<stack, frames>>
    /\ UNCHANGED <<expression, env, results, status>>

\* The argument stack is not empty here, so that the shortcut for a tail
\* recursion is not taken.
DoClosure ==
    /\ Executes("CLOSURE")
    /\ stack' = <<Closure(Argument, env)>> \o stack
    /\ frames' = Reserve(frames, env)
    /\ prog' = Rest
    /\ UNCHANGED <<expression, env, results, status>>

\* The closure moves from the stack into a new frame.
DoGrab ==
    /\ Executes("GRAB")
    /\ IF stack = << >> THEN Crash
       ELSE /\ frames' = [x \in DOMAIN frames \union {Fresh} |->
                             IF x = Fresh THEN [name |-> Argument, closure |-> Head(stack), next |-> env, refs |-> 1]
                             ELSE frames[x]]
            /\ env' = Fresh
            /\ stack' = Tail(stack)
            /\ prog' = Rest
            /\ UNCHANGED <<expression, results, status>>

\* Seeded fault: the reference that the closure held is released, too.
Applied_Unshared(fs, old, new) == Release(Release(fs, old), new)

\* The closure's reference becomes that of the configuration.
Applied(fs, old, new) == Release(fs, old)

DoTailApply ==
    /\ Executes("TAILAPPLY")
    /\ IF stack = << >> THEN Crash
       ELSE /\ prog' = Head(stack).code \o Rest  \* the whole of what follows is kept
            /\ frames' = Applied(frames, env, Head(stack).env)
            /\ env' = Head(stack).env
            /\ stack' = Tail(stack)
            /\ UNCHANGED <<expression, results, status>>

DoHalt ==
    /\ Executes("HALT")
    /\ stack' = << >>
    /\ frames' = ReleaseAll(frames, stack)
    /\ prog' = Rest
    /\ status' = "halted"
    /\ UNCHANGED <<expression, env, results>>

-------------------------------------------------------------------------------
(* Builtin operations.  The second operand is on top of the results.  An   *)
(* operation that finds too few of them pauses the computation.            *)

Pause == status' = "suspended" /\ UNCHANGED <<expression, prog, env, stack, results, frames>>

\* Seeded fault: the operands are taken in the order they are popped.
Arithmetic_Popped(op, i1, i2) ==
    CASE op = "OP_ADD" -> i1 + i2 [] op = "OP_SUB" -> i1 - i2 [] op = "OP_MULT" -> i1 * i2

Arithmetic(op, i1, i2) ==
    CASE op = "OP_ADD" -> i1 + i2 [] op = "OP_SUB" -> i2 - i1 [] op = "OP_MULT" -> i2 * i1

Holds(op, i1, i2) == IF op \in {"OP_CMPEQ", "OP_CMPEQ_CHURCH"} THEN i1 = i2 ELSE i2 <= i1

Verdict(op, i1, i2) ==
    IF op \in {"OP_CMPEQ", "OP_CMPLEQ"} THEN Var(Number(IF Holds(op, i1, i2) THEN 1 ELSE 0))
    ELSE IF Holds(op, i1, i2) THEN TrueChurch ELSE FalseChurch

DoArithmetic ==
    \E op \in {"OP_ADD", "OP_SUB", "OP_MULT"} :
        /\ Executes(op)
        /\ IF Len(results) < 2 THEN Pause
           ELSE /\ results' = <<IntResult(Arithmetic(op, results[1].val, results[2].val))>>
                              \o Tail(Tail(results))
                /\ prog' = Rest
                /\ UNCHANGED <<expression, env, stack, frames, status>>

DoCompare ==
    \E op \in {"OP_CMPEQ", "OP_CMPLEQ", "OP_CMPEQ_CHURCH", "OP_CMPLEQ_CHURCH"} :
        /\ Executes(op)
        /\ IF Len(results) < 2 THEN Pause
           ELSE /\ prog' = <<Resolve(Verdict(op, results[1].val, results[2].val))>> \o Rest
                /\ results' = Tail(Tail(results))
                /\ UNCHANGED <<expression, env, stack, frames, status>>

\* The branch that is not taken is dropped; its reference is never released.
DoIfElse ==
    /\ Executes("OP_IFELSE")
    /\ \/ results = << >> /\ Pause
       \/ results # << >> /\ results[1].val # 0 /\ stack = << >> /\ Crash
       \/ /\ results # << >> /\ (results[1].val # 0 => stack # << >>)
          /\ stack' = IF results[1].val # 0 THEN <<Head(stack)>> \o Popped(Tail(stack)) ELSE Popped(stack)
          /\ results' = Tail(results)
          /\ prog' = Rest
          /\ UNCHANGED <<expression, env, frames, status>>

-------------------------------------------------------------------------------
(* Calls of functions in the network                                       *)

Parameter(i) == Variable(<<"x0", "x1", "x2">>[i + 1])

\* @op(@x0(@x1( x1 x0 2 op))): the parameters are evaluated, the last one first.
CallTerm(n) ==
    LET parameters[i \in 0 .. n - 1] ==
            IF i = n - 1 THEN Var(Parameter(i)) ELSE Apply(parameters[i + 1], Var(Parameter(i)))
        count == IF n > 0 THEN Apply(parameters[0], Var(Number(n))) ELSE Var(Number(n))
        lambdas[i \in 0 .. n] == IF i = n THEN Apply(count, Var(F)) ELSE Lambda(Parameter(i), lambdas[i + 1])
    IN  Lambda(F, IF n > 0 THEN lambdas[0] ELSE Apply(count, Var(F)))

DoCall ==
    /\ Executes("CALL")
    /\ IF results = << >> THEN Crash
       ELSE /\ prog' = <<MkClosure(<<Op("FOX")>>), Resolve(CallTerm(results[1].val))>> \o Rest
            /\ results' = Tail(results)
            /\ UNCHANGED <<expression, env, stack, frames, status>>

\* ZAM_fox asks for the answer; the parameters stay with the configuration.
DoFox ==
    /\ Executes("FOX")
    /\ IF results = << >> \/ Len(results) <= results[1].val THEN Crash
       ELSE status' = "suspended" /\ UNCHANGED <<expression, prog, env, stack, results, frames>>

Parameters == SubSeq(results, 2, results[1].val + 1)

\* Seeded fault: one result too many is taken from the stack.
Answered_OneMore(rs, answer) == <<IntResult(answer)>> \o SubSeq(rs, rs[1].val + 3, Len(rs))

Answered(rs, answer) == <<IntResult(answer)>> \o SubSeq(rs, rs[1].val + 2, Len(rs))

\* The computation is resumed, and the answer is a number.  Without a parameter
\* there is no function whose answer it could be: params[-1] is read.
Resume ==
    /\ status = "suspended" /\ Head(prog).op = "FOX"
    /\ IF results[1].val < 1 THEN Crash
       ELSE /\ Answer(Parameters[1], Tail(Parameters)) \in Int
            /\ status' = "running"
            /\ results' = Answered(results, Answer(Parameters[1], Tail(Parameters)))
            /\ prog' = Rest
            /\ UNCHANGED <<expression, env, stack, frames>>

-------------------------------------------------------------------------------
Init ==
    /\ expression \in Expressions
    /\ prog = <<MkClosure(<<Op("HALT")>>), Resolve(expression)>>
    /\ env = Null /\ stack = << >> /\ results = << >> /\ frames = << >>
    /\ status = "running"

Next ==
    \/ ResolveWord \/ ResolveLambda \/ ResolveApp
    \/ DoAccess \/ DoClosure \/ DoGrab \/ DoTailApply \/ DoHalt
    \/ DoArithmetic \/ DoCompare \/ DoIfElse \/ DoCall \/ DoFox \/ Resume

\* Krivine_reduction loops until the program ends or is paused, and the relay
\* resumes it when the answer comes (SuspensionEnds in CcnlNfn).
Spec == Init /\ [][Next]_vars /\ WF_vars(Next)

-------------------------------------------------------------------------------
(* Properties                                                              *)

\* The loop of Krivine_reduction is left for good: the machine has halted, or
\* nothing is left of the program.
Ended == status = "halted" \/ (status = "running" /\ prog = << >>)

\* The registers hold what the instructions may put there.
TypeOK ==
    /\ expression \in Expressions
    /\ env \in {Null} \union DOMAIN frames
    /\ \A i \in DOMAIN results : results[i].type \in {"INT", "PREFIX"}
    /\ \A e \in DOMAIN frames : frames[e].name.kind = "variable" /\ frames[e].refs \in Nat
    /\ status \in {"running", "suspended", "halted", "crashed"}

\* How many times a frame is referred to: by the configuration, by the
\* closures on the stack, by the closures in frames and by the frames after it.
Holders(e) ==
    (IF env = e THEN 1 ELSE 0)
    + Cardinality({i \in DOMAIN stack : stack[i].env = e})
    + Cardinality({f \in DOMAIN frames : frames[f].closure.env = e})
    + Cardinality({f \in DOMAIN frames : frames[f].next = e})

\* Whatever is referred to is allocated, and counts all its references: no
\* step of the machine, nor the end of the computation, frees a frame that
\* a closure still needs (reserve, release and freeEnvironment).
ReferencesCounted ==
    /\ \A i \in DOMAIN stack : stack[i].env \in {Null} \union DOMAIN frames
    /\ \A f \in DOMAIN frames : {frames[f].next, frames[f].closure.env} \subseteq {Null} \union DOMAIN frames
    /\ \A f \in DOMAIN frames : frames[f].refs >= Holders(f)

\* Every reduction ends: it neither loops nor reads a null pointer nor stays
\* paused for a result that is not there (Krivine_reduction).
Ends == <>Ended
===============================================================================
