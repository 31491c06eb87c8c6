------------------------------ MODULE MCNfnServer ------------------------------
(* Constants of NfnServer for TLC.                                         *)
EXTENDS NfnServer

\* A content of two chunks, one of three, one of one, and a redirect.
Long == <<"long">>
Longer == <<"longer">>
Short == <<"short">>
Moved == <<"moved">>

Two == {Short, Longer}
WithRedirect == {Moved, Long}

Chunks == [n \in Names |-> IF n = Longer THEN 3 ELSE IF n = Long THEN 2 ELSE 1]
ToLong == [n \in Redirects |-> Long]
OnlyMoved == {Moved}
OnlyLong == {Long}

BaseKeys == {Base(n) : n \in Names}
MovedOrChunk == {Base(Moved), [name |-> Long, chunk |-> 1]}
================================================================================
