-------------------------------- MODULE IcnNode --------------------------------
(***************************************************************************)
(* What a node of an information-centric network promises its clients,     *)
(* whatever its tables look like.  A client asks for a name; it is sent a  *)
(* content whose name extends it, once per request, from the node's store  *)
(* or when the content comes in; or the node forgets the request.  The     *)
(* node never volunteers data, and it stores only data somebody asked for. *)
(*                                                                         *)
(* CcnlRelay implements this specification with its faces, PIT and content *)
(* store, NfnServer with its actors, PIT and stores of contents and        *)
(* chunks.                                                                 *)
(***************************************************************************)
EXTENDS SequencesExt

CONSTANTS
    Clients,   \* whom data is sent to
    Names,     \* the names of requests and contents
    Contents   \* records with a field name

VARIABLES
    wants,     \* requests not yet answered
    store,     \* the contents at hand
    data       \* the data the last step sent

nodeVars == <<wants, store, data>>

Requests == [client : Clients, name : Names]
Deliveries == [to : Clients, pkt : Contents]

Satisfies(c, r) == IsPrefix(r.name, c.name)

NodeInit ==
    /\ wants = {}
    /\ store \subseteq Contents
    /\ data = {}

\* A request is answered from the store at once ...
AnswerAtOnce(x, n) ==
    /\ \E c \in store : Satisfies(c, [client |-> x, name |-> n]) /\ data' = {[to |-> x, pkt |-> c]}
    /\ UNCHANGED <<wants, store>>

\* ... or kept, when the store has nothing for it.
Ask(x, n) ==
    /\ \A c \in store : ~Satisfies(c, [client |-> x, name |-> n])
    /\ wants' = wants \union {[client |-> x, name |-> n]}
    /\ data' = {}
    /\ UNCHANGED store

\* A content somebody wants comes in: everybody who wants it gets it, and it
\* may be stored, in place of others.
Arrive(c) ==
    LET served == {r \in wants : Satisfies(c, r)}
    IN  /\ served # {}
        /\ c \notin store
        /\ data' = {[to |-> r.client, pkt |-> c] : r \in served}
        /\ wants' = wants \ served
        /\ \/ store' = store
           \/ c \in store' /\ store' \subseteq store \union {c}

\* Requests and contents are forgotten: timeouts, clients that left, commands.
Forget ==
    /\ wants' \subseteq wants
    /\ store' \subseteq store
    /\ data' = {}

NodeNext ==
    \/ \E x \in Clients, n \in Names : AnswerAtOnce(x, n) \/ Ask(x, n)
    \/ \E c \in Contents : Arrive(c)
    \/ Forget

NodeSpec == NodeInit /\ [][NodeNext]_nodeVars
===============================================================================
