-------------------------------- MODULE CcnlNfn --------------------------------
(***************************************************************************)
(* The named-function engine of a relay (ccn-nfn-relay, built with USE_NFN *)
(* and neither USE_NACK nor USE_TIMEOUT_KEEPALIVE): computations that are  *)
(* started by a client's interest, suspend while an interest of their own  *)
(* is pending, and are resumed by its answer, by its timeout, or because   *)
(* some face was removed.                                                  *)
(*                                                                         *)
(* The relay around it is cut down to what the engine touches: a PIT and a *)
(* content store without limits, no nonces, one packet per content name.   *)
(* CcnlRelay has the rest.  An expression is one call of a function, whose *)
(* parameters are tried in turn (ZAM_fox), or one fetch (op_builtin_find); *)
(* KrivineMachine has the reduction of expressions.  Lifetimes are not     *)
(* counted: an entry may be given up at any time.                          *)
(***************************************************************************)
EXTENDS Integers, FiniteSets

CONSTANTS
    Clients,      \* faces that interests come from
    NoFace,       \* the origin of an interest is unknown
    Plain,        \* names of contents
    Nfn,          \* names that end in NFN: expressions, calls sent out, calls for the compute server
    NoName,       \* no name is asked for
    Fetches,      \* the expressions that are a fetch
    Routed,       \* the names with a routable part in front of the expression
    Hint,         \* that part
    Arity,        \* the number of routable parameters of an expression
    Param,        \* Param[e][j]: the parameter that is tried in round j
    CallName,     \* CallName[e][j]: the call, routed by that parameter
    ComputeName,  \* the call, for the compute server of this node
    Asked,        \* the names clients ask for
    Arriving,     \* the names the network has contents for
    MaxRunning,   \* NFN_MAX_RUNNING_COMPUTATIONS
    MaxConfigs    \* bound of the model: computations ever started

Names == Plain \union Nfn

ASSUME NfnAssumption ==
    /\ NoFace \notin Clients
    /\ Plain \intersect Nfn = {} /\ NoName \notin Names
    /\ Fetches \subseteq Nfn /\ Routed \subseteq Nfn
    /\ Hint \in [Routed -> Plain]
    /\ Arity \in [Nfn -> Nat]
    /\ \A e \in Nfn : /\ Param[e] \in [1 .. Arity[e] -> Plain]
                      /\ CallName[e] \in [1 .. Arity[e] -> Nfn]
    /\ \A e \in Fetches : Arity[e] = 1
    /\ ComputeName \in [Nfn -> Nfn]
    /\ Asked \subseteq Names /\ Arriving \subseteq Names
    /\ MaxRunning \in Nat /\ MaxConfigs \in Nat

VARIABLES
    pit,      \* relay->pit: key to pending interest
    store,    \* relay->contents: name to its STATIC flag
    configs,  \* km->configuration_list: -configid to computation
    lastId,   \* computations started so far: -configid of the last one
    running,  \* km->numOfRunningComputations
    todo,     \* the loop over the PIT that is under way: the computations it has yet to resume
    sent      \* what the last handler sent: data to clients, interests to the network

vars == <<pit, store, configs, lastId, running, todo, sent>>

-------------------------------------------------------------------------------
(* The PIT.  A computation has one interest of its own at a time and a new *)
(* interest of a client joins the first entry with its name, so that name  *)
(* and computation tell the entries apart.  An entry a client made is      *)
(* behind all those that computations made for that name: had one of these *)
(* come first, the client would have joined it.                            *)

ConfigIds == Nat \ {0}
NoConfig == 0   \* the entry of a client
Key == [name : Names, config : Nat]
Interest == [from : Clients \union {NoFace}, pending : SUBSET Clients, propagates : BOOLEAN]
Computation == [request : Nfn, round : Nat, startLocally : BOOLEAN,
                prog : {"FOX", "over"}]

Sent == [to : Clients, data : Names] \union [interest : Names]
Data(n, fs) == {[to |-> f, data |-> n] : f \in fs}
Emit(ns) == {[interest |-> n] : n \in ns}

KeysNamed(p, n) == {k \in DOMAIN p : k.name = n}

Without(f, gone) == [x \in DOMAIN f \ gone |-> f[x]]

\* Seeded fault: a computation joins the entry that is there already.
WithOwnInterest_Joined(p, n, d) ==
    IF KeysNamed(p, n) # {} THEN p
    ELSE [k \in DOMAIN p \union {[name |-> n, config |-> d]} |->
             IF k \in DOMAIN p THEN p[k]
             ELSE [from |-> NoFace, pending |-> {}, propagates |-> TRUE]]

\* ccnl_nfn_query2interest, then ccnl_interest_propagate: the interest of
\* computation d, which no face waits for.
WithOwnInterest(p, n, d) ==
    [k \in DOMAIN p \union {[name |-> n, config |-> d]} |->
        IF k = [name |-> n, config |-> d]
        THEN [from |-> NoFace, pending |-> {}, propagates |-> TRUE]
        ELSE p[k]]

\* set_propagate_of_interests_to_1
Propagating(p, n) ==
    [k \in DOMAIN p |-> IF k.name = n THEN [p[k] EXCEPT !.propagates = TRUE] ELSE p[k]]

\* The entries ccnl_content_serve_pending may remove for content n: all that
\* have its name, or those down to the first that nobody waits for, where the
\* loop returns.  The interests of several computations are in any order.
ServedSets(p, n) ==
    LET named == KeysNamed(p, n)
        hooks == {k \in named : p[k].pending = {}}
    IN  IF hooks = {} THEN {named}
        ELSE {S \union {h} : h \in hooks, S \in SUBSET {k \in named \ hooks : k.config # NoConfig}}

\* Seeded fault: the face that asked first is taken for served.
WaitingOn_Joined(p, ks) == UNION {p[k].pending \ {p[k].from} : k \in ks}

WaitingOn(p, ks) == UNION {p[k].pending : k \in ks}

\* ccnl_content_add2cache
WithContent(n, static) ==
    [m \in DOMAIN store \union {n} |-> IF m = n THEN static ELSE store[m]]

-------------------------------------------------------------------------------
(* Computations                                                            *)

\* create_namecomps: the name that stands for round j.  A call goes to the
\* compute server of this node if the parameter is a content at hand now.
AskName(c, j) ==
    IF c.request \in Fetches THEN Param[c.request][j]
    ELSE IF c.startLocally \/ Param[c.request][j] \in DOMAIN store THEN ComputeName[c.request]
    ELSE CallName[c.request][j]

\* Seeded fault: a computation that is resumed looks at the next round only.
HasResult_NextOnly(c) ==
    /\ c.prog = "FOX"
    /\ c.round < Arity[c.request] /\ AskName(c, c.round + 1) \in DOMAIN store

\* The result is at hand: what this round asked for, when the computation is
\* resumed, or what the next round would ask for.
HasResult(c) ==
    /\ c.prog = "FOX"
    /\ \/ c.round > 0 /\ AskName(c, c.round) \in DOMAIN store
       \/ c.round < Arity[c.request] /\ AskName(c, c.round + 1) \in DOMAIN store

\* Otherwise: the name to ask for next, after the last round that of the call
\* itself, and the computation that is left.  It is suspended in ZAM_fox; but
\* after the last round the rest of its program runs to the end, with nothing
\* on the result stack.
NextAsk(c) ==
    IF c.prog = "over" THEN NoName
    ELSE IF c.round < Arity[c.request] THEN AskName(c, c.round + 1)
    ELSE IF c.request \in Fetches THEN NoName
    ELSE ComputeName[c.request]

\* Seeded fault: the rounds are not counted.
NextComputation_SameRound(c) == IF c.prog = "FOX" /\ c.round = 0 THEN [c EXCEPT !.round = 1] ELSE c

NextComputation(c) ==
    IF c.prog = "FOX" /\ c.round < Arity[c.request] THEN [c EXCEPT !.round = @ + 1]
                                                    ELSE [c EXCEPT !.prog = "over"]

\* ccnl_nfn from the label restart: Krivine_reduction, then the result is
\* served, cached and the computation forgotten, or nothing is done.
Reduction(d, c, p, count) ==
    \/ /\ HasResult(c)
       /\ \E served \in ServedSets(p, c.request) :
             /\ pit' = Without(Propagating(p, c.request), served)
             /\ sent' = Data(c.request, WaitingOn(p, served))
       /\ store' = WithContent(c.request, TRUE)
       /\ configs' = Without(configs, {d})
       /\ running' = count - 1
    \/ /\ ~HasResult(c)
       /\ IF NextAsk(c) = NoName THEN pit' = p /\ sent' = {}
          ELSE pit' = WithOwnInterest(p, NextAsk(c), d) /\ sent' = Emit({NextAsk(c)})
       /\ configs' = [x \in DOMAIN configs \union {d} |->
                         IF x = d THEN NextComputation(c) ELSE configs[x]]
       /\ running' = count
       /\ UNCHANGED store

OwnConfigs(p) == {k.config : k \in DOMAIN p} \ {NoConfig}

-------------------------------------------------------------------------------
(* An interest of client f (ccnl_fwd_handleInterest, ccnl_nfn_RX_request)  *)

ReplyFromStore(f, n) ==
    /\ n \in DOMAIN store
    /\ sent' = Data(n, {f})
    /\ UNCHANGED <<pit, store, configs, lastId, running, todo>>

\* The client joins the first entry with that name, which is sent on again.
JoinPending(f, k) ==
    /\ k.name \notin DOMAIN store
    /\ \/ k.config # NoConfig
       \/ KeysNamed(pit, k.name) = {k}
    /\ pit' = [pit EXCEPT ![k].pending = @ \union {f}]
    /\ sent' = Emit({k.name})
    /\ UNCHANGED <<store, configs, lastId, running, todo>>

\* Seeded fault: the PIT is looked up before the content store.
NewInterest_PitFirst(n) == KeysNamed(pit, n) = {}

NewInterest(n) == n \notin DOMAIN store /\ KeysNamed(pit, n) = {}

WithInterest(f, n, propagates) ==
    [k \in DOMAIN pit \union {[name |-> n, config |-> NoConfig]} |->
        IF k = [name |-> n, config |-> NoConfig]
        THEN [from |-> f, pending |-> {f}, propagates |-> propagates]
        ELSE pit[k]]

\* Not an expression, or no more computations are taken.
ForwardInterest(f, n) ==
    /\ NewInterest(n)
    /\ n \in Plain \/ running >= MaxRunning
    /\ pit' = WithInterest(f, n, TRUE)
    /\ sent' = Emit({n})
    /\ UNCHANGED <<store, configs, lastId, running, todo>>

IsComputing(e) == \E d \in DOMAIN configs : configs[d].request = e

\* Seeded fault: only suspended computations are looked at.
AlreadyComputing_Suspended(e) == \E d \in DOMAIN configs : configs[d].request = e /\ configs[d].prog = "FOX"

\* ccnl_nfn_already_computing
AlreadyComputing(e) == IsComputing(e)

\* Seeded fault: one computation more than the limit is taken.
AcceptRequest_OneMore(f, e) ==
    /\ NewInterest(e)
    /\ e \in Nfn /\ running <= MaxRunning

AcceptRequest(f, e) ==
    /\ NewInterest(e)
    /\ e \in Nfn /\ running < MaxRunning

\* "Computation for this interest is already running": the client waits.
WaitForComputation(f, e) ==
    /\ AcceptRequest(f, e)
    /\ AlreadyComputing(e)
    /\ pit' = WithInterest(f, e, FALSE)
    /\ sent' = {}
    /\ UNCHANGED <<store, configs, lastId, running, todo>>

IsHere(e) == e \in Routed => Hint[e] \in DOMAIN store

\* The routable part of the name is not at hand: others are to compute it.
HandOn(f, e) ==
    /\ AcceptRequest(f, e)
    /\ ~AlreadyComputing(e) /\ ~IsHere(e)
    /\ pit' = WithInterest(f, e, FALSE)
    /\ sent' = Emit({e})
    /\ UNCHANGED <<store, configs, lastId, running, todo>>

StartComputation(f, e) ==
    /\ AcceptRequest(f, e)
    /\ ~AlreadyComputing(e) /\ IsHere(e)
    /\ lastId < MaxConfigs
    /\ lastId' = lastId + 1
    /\ Reduction(lastId + 1,
                 [request |-> e, round |-> 0, startLocally |-> e \in Routed, prog |-> "FOX"],
                 WithInterest(f, e, FALSE), running + 1)
    /\ UNCHANGED todo

-------------------------------------------------------------------------------
(* A content from the network (ccnl_fwd_handleContent, ccnl_nfn_RX_result) *)

IgnoreContent(n) ==
    /\ n \in DOMAIN store \/ KeysNamed(pit, n) = {}
    /\ sent' = {}
    /\ UNCHANGED <<pit, store, configs, lastId, running, todo>>

OwnInterests(n) == {k \in KeysNamed(pit, n) : k.config # NoConfig}

\* Computations asked for it: it is stored, and they will be resumed.  The
\* handler returns after that loop, whoever else waits for the content.
AnswerComputations(n) ==
    /\ n \in Nfn \ DOMAIN store
    /\ OwnInterests(n) # {}
    /\ store' = WithContent(n, FALSE)
    /\ todo' = {k.config : k \in OwnInterests(n)}
    /\ sent' = {}
    /\ UNCHANGED <<pit, configs, lastId, running>>

\* ccnl_content_serve_pending, then ccnl_content_add2cache: stored as a
\* static content when the loop ended at an entry nobody waits for.
ServeContent(n) ==
    /\ n \notin DOMAIN store /\ KeysNamed(pit, n) # {}
    /\ n \in Plain \/ OwnInterests(n) = {}
    /\ \E served \in ServedSets(pit, n) :
          /\ pit' = Without(pit, served)
          /\ sent' = Data(n, WaitingOn(pit, served))
          /\ store' = WithContent(n, \E k \in served : pit[k].pending = {})
    /\ UNCHANGED <<configs, lastId, running, todo>>

-------------------------------------------------------------------------------
(* Ageing, faces that go, and the loop that resumes computations           *)

\* ccnl_do_ageing gives up an entry: a client's is removed, that of a
\* computation is removed and the computation resumed.
GiveUp(k) ==
    /\ IF k.config = NoConfig THEN pit' = Without(pit, {k}) /\ UNCHANGED todo
                              ELSE todo' = {k.config} /\ UNCHANGED pit
    /\ sent' = {}
    /\ UNCHANGED <<store, configs, lastId, running>>

\* ccnl_do_ageing sends the entries it keeps once more.
Retransmit ==
    /\ sent' = Emit({k.name : k \in {x \in DOMAIN pit : pit[x].propagates}})
    /\ UNCHANGED <<pit, store, configs, lastId, running, todo>>

ForgetContent(n) ==
    /\ n \in DOMAIN store /\ ~store[n]
    /\ store' = Without(store, {n})
    /\ sent' = {}
    /\ UNCHANGED <<pit, configs, lastId, running, todo>>

\* ccnl_face_remove, for a face that no entry mentions: it removes every
\* entry that no face waits for.
RemoveFace ==
    /\ todo' = {k.config : k \in {x \in DOMAIN pit : pit[x].pending = {}}}
    /\ sent' = {}
    /\ UNCHANGED <<pit, store, configs, lastId, running>>

\* One turn of these loops (ccnl_nfn_continue_computation): the interest of
\* computation d is removed, with the clients that joined it, and d goes on.
ResumeNext(d) ==
    /\ d \in todo
    /\ LET c == configs[d]
           p == Without(pit, {k \in DOMAIN pit : k.config = d})
       IN  Reduction(d, c, IF c.prog = "FOX" THEN Propagating(p, AskName(c, c.round)) ELSE p, running)
    /\ todo' = (todo \ {d}) \intersect OwnConfigs(pit')
    /\ UNCHANGED lastId

-------------------------------------------------------------------------------
Init ==
    /\ pit = << >> /\ store = << >> /\ configs = << >>
    /\ lastId = 0 /\ running = 0
    /\ todo = {} /\ sent = {}

HandleInterest(f, n) ==
    \/ ReplyFromStore(f, n)
    \/ \E k \in KeysNamed(pit, n) : JoinPending(f, k)
    \/ ForwardInterest(f, n)
    \/ WaitForComputation(f, n)
    \/ HandOn(f, n)
    \/ StartComputation(f, n)

HandleContent(n) == IgnoreContent(n) \/ AnswerComputations(n) \/ ServeContent(n)

Next ==
    \/ /\ todo = {}
       /\ \/ \E f \in Clients, n \in Asked : HandleInterest(f, n)
          \/ \E n \in Arriving : HandleContent(n)
          \/ \E k \in DOMAIN pit : GiveUp(k)
          \/ Retransmit
          \/ \E n \in Names : ForgetContent(n)
          \/ RemoveFace
    \/ \E d \in 1 .. MaxConfigs : ResumeNext(d)

Spec == Init /\ [][Next]_vars

\* The ageing timer runs every second and gives every entry up in the end; a
\* loop is finished before the next packet is read.
GiveUpFirst(d) == todo = {} /\ \E k \in DOMAIN pit : k.config = d /\ GiveUp(k)

FairSpec ==
    /\ Spec
    /\ \A d \in 1 .. MaxConfigs : WF_vars(GiveUpFirst(d)) /\ WF_vars(ResumeNext(d))

-------------------------------------------------------------------------------
(* Safety                                                                  *)

TypeOK ==
    /\ pit \in [DOMAIN pit -> Interest] /\ DOMAIN pit \subseteq Key
    /\ store \in [DOMAIN store -> BOOLEAN] /\ DOMAIN store \subseteq Names
    /\ configs \in [DOMAIN configs -> Computation] /\ DOMAIN configs \subseteq 1 .. lastId
    /\ lastId \in 0 .. MaxConfigs
    /\ running \in 0 .. MaxRunning
    /\ todo \subseteq DOMAIN configs
    /\ sent \subseteq Sent

\* The counter that limits the computations counts those in the list, each
\* once, and no expression is computed twice at a time.
CountedOnce ==
    /\ running = Cardinality(DOMAIN configs)
    /\ \A c, d \in DOMAIN configs : configs[c].request = configs[d].request => c = d

Suspended(d) == d \in DOMAIN configs /\ configs[d].prog = "FOX"

\* What d asked for in this round, and would ask for now.
AskedInRound(d) == {ComputeName[configs[d].request], CallName[configs[d].request][configs[d].round]}

\* The requests whose routable part may be a content of this node.
ComputedHere == {e \in Asked \intersect Nfn : e \in Routed => Hint[e] \in Arriving}

\* A suspended computation has an interest of its own in the PIT, for what it
\* asked in this round: the answer, the timeout, or the loss of a face will
\* resume it.  Excepted are fetches, and names that are computed here too: a
\* result that is served also removes an interest nobody waits for, and leaves
\* its computation behind.
SuspendedWaits ==
    \A d \in DOMAIN configs :
        /\ Suspended(d) /\ configs[d].request \notin Fetches /\ AskedInRound(d) \intersect ComputedHere = {}
        => \E k \in DOMAIN pit : k.config = d /\ k.name \in AskedInRound(d)

AskedByComputations ==
    {n \in Names : \/ \E e \in Nfn : n = ComputeName[e] \/ \E j \in 1 .. Arity[e] : n = CallName[e][j]
                  \/ \E e \in Fetches : n = Param[e][1]}

\* No client is left waiting for a content the relay has, be it received or
\* computed, unless computations ask for that name too: RX_result then returns
\* before the other entries of that name are looked at.
NoClientOverlooked ==
    \A k \in DOMAIN pit :
        k.config = NoConfig /\ k.name \in DOMAIN store => k.name \in AskedByComputations

\* A computation is forgotten only in the step that stores its result for
\* good, and that sends it to all who wait for it - those in entries of other
\* computations excepted.
ForgottenOnceServed ==
    [][\A d \in DOMAIN configs \ DOMAIN configs' :
          LET e == configs[d].request IN
          /\ e \in DOMAIN store' /\ store'[e]
          /\ e \notin AskedByComputations => 
                \A k \in KeysNamed(pit, e) : Data(e, pit[k].pending) \subseteq sent']_vars

\* No computation stays suspended for ever: its rounds end, by an answer or by
\* the timeouts of its own interests.
SuspensionEnds == \A d \in 1 .. MaxConfigs : Suspended(d) ~> ~Suspended(d)

\* The computations that now have the answer to an interest of their own, and
\* the interest leaves the PIT.
Answered == {k \in DOMAIN pit \ DOMAIN pit' : k.config \in DOMAIN configs /\ k.name \in DOMAIN store}

\* A computation that is resumed while what it asked for is in the store ends
\* with that result: it does not go on to the next round.  Excepted are those
\* whose parameter became, or ceased to be, a content at hand in the meantime:
\* they look for another name than the one they asked for; and names that are
\* computed here too, for another's result may take the interest away.
StillAsks(k) == Suspended(k.config) /\ AskName(configs[k.config], configs[k.config].round) = k.name

AnswerUsed ==
    [][\A k \in Answered :
          StillAsks(k) /\ k.name \notin ComputedHere => k.config \notin DOMAIN configs']_vars

\* "no more parameter --> no result found, can try a local computation": what
\* the compute server of the node answers is used as well.
ComputeAnswerUsed ==
    [][\A k \in Answered :
          k.name = ComputeName[configs[k.config].request] => k.config \notin DOMAIN configs']_vars
===============================================================================
