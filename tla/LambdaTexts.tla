------------------------------ MODULE LambdaTexts ------------------------------
(***************************************************************************)
(* The two functions that turn a term into text and a text into a term.    *)
(* The machine prints and parses a term whenever it takes one apart.  A    *)
(* text is a sequence of tokens: parentheses, the lambda character, spaces *)
(* and words.                                                              *)
(***************************************************************************)
EXTENDS LambdaTerms

Open == Token("open", "", 0)
Close == Token("close", "", 0)
At == Token("lambda", "", 0)
Blank == Token("blank", "", 0)

-------------------------------------------------------------------------------
(* ccnl_lambdaTermToStr.  After a word, a word is set off by a space.      *)

RECURSIVE Printed(_, _), Printed_Bare(_, _)

\* Seeded fault: an argument that is an application loses its parentheses.
Printed_Bare(t, afterWord) ==
    CASE t.kind = "lambda" -> <<Open, At, t.v>> \o Printed_Bare(t.m, TRUE) \o <<Close>>
      [] t.kind = "var" -> (IF afterWord THEN <<Blank>> ELSE << >>) \o <<t.v>>
      [] t.kind = "app" -> Printed_Bare(t.m, afterWord) \o Printed_Bare(t.n, TRUE)

Printed(t, afterWord) ==
    CASE t.kind = "lambda" -> <<Open, At, t.v>> \o Printed(t.m, TRUE) \o <<Close>>
      [] t.kind = "var" -> (IF afterWord THEN <<Blank>> ELSE << >>) \o <<t.v>>
      [] t.kind = "app" ->
            Printed(t.m, afterWord)
            \o (IF t.n.kind = "var" THEN Printed(t.n, TRUE)
                ELSE <<Blank, Open>> \o Printed(t.n, FALSE) \o <<Close>>)

Text(t) == Printed(t, FALSE)

-------------------------------------------------------------------------------
(* ccnl_lambdaStrToTerm: what is left of the text after a term, and the    *)
(* term so far.  A lambda takes everything up to the next parenthesis.     *)

RECURSIVE Parsed(_, _, _)
Parsed(text, sofar, some) ==
    LET Extended(s) == IF some THEN Apply(sofar, s) ELSE s IN
    IF text = << >> \/ Head(text) = Close THEN [term |-> sofar, rest |-> text]
    ELSE IF Head(text) = Blank THEN Parsed(Tail(text), sofar, some)
    ELSE IF Head(text) = Open
    THEN LET inner == Parsed(Tail(text), sofar, FALSE)
         IN  Parsed(Tail(inner.rest), Extended(inner.term), TRUE)
    ELSE IF Head(text) = At
    THEN LET body == Parsed(Tail(Tail(text)), sofar, FALSE)
         IN  Parsed(body.rest, Extended(Lambda(text[2], body.term)), TRUE)
    ELSE Parsed(Tail(text), Extended(Var(Head(text))), TRUE)

Term(text) == Parsed(text, Var(Variable("")), FALSE).term
===============================================================================
