------------------------------- MODULE MCCcnlNfn -------------------------------
(* Values of the constants of CcnlNfn that a configuration cannot write.   *)
EXTENDS CcnlNfn

CONSTANTS a, b, hint, r1, r2, r3, call_a, call_b, call_b3, compute, compute3

\* r1 calls a function on a and b, r2 is the same call, routed by a; r3 calls
\* one on b.
PlainNames == {a, b, hint}
NfnNames == {r1, r2, r3, call_a, call_b, call_b3, compute, compute3}
RoutedNames == NfnNames \ {r1, r3}
Hints == [e \in RoutedNames |-> IF e \in {r2, call_a} THEN a
                                ELSE IF e \in {call_b, call_b3} THEN b ELSE hint]
IsOnB(e) == e \in {r3, call_b3, compute3}
Arities == [e \in NfnNames |-> IF IsOnB(e) THEN 1 ELSE 2]
Parameters == [e \in NfnNames |-> IF IsOnB(e) THEN <<b>> ELSE <<a, b>>]
Calls == [e \in NfnNames |-> IF IsOnB(e) THEN <<call_b3>> ELSE <<call_a, call_b>>]
Computes == [e \in NfnNames |-> IF IsOnB(e) THEN compute3 ELSE compute]
===============================================================================
