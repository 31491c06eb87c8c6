------------------------------- MODULE CcnlRelay -------------------------------
(***************************************************************************)
(* One CCN-lite relay: the single-threaded event loop ccnl_io_loop, which  *)
(* runs one handler to completion at a time - the receipt of a datagram or *)
(* the one-second ageing timer.  The peers are the environment: any of     *)
(* them may send any packet at any time, so losses, duplicates and         *)
(* reorderings on the links are covered.                                   *)
(*                                                                         *)
(* Packets are NDN packets with plain names; CCNB is the format of the     *)
(* management commands, accepted from local peers.                         *)
(***************************************************************************)
EXTENDS CcnlTables

CONSTANTS
    LocalPeers,      \* peers on the Unix socket: they may send management commands
    StateNames,      \* names that contain the text "UpdateNodeState"
    Scopes,          \* values of the Scope field that interests arrive with
    NewFaceFlags,    \* flag sets that newface is asked for
    Uploaders,       \* local peers that run addcacheobject
    MaxFaceId,       \* bound of the model: faces ever created
    MaxPit           \* bound of the model: stamps of the PIT

ASSUME RelayAssumption ==
    /\ LocalPeers \subseteq Peers
    /\ Uploaders \subseteq LocalPeers
    /\ StateNames \subseteq Names
    /\ Scopes \subseteq Nat
    /\ NewFaceFlags \subseteq SUBSET {"STATIC", "REFLECT"}
    /\ MaxFaceId \in Nat
    /\ MaxPit \in Nat

VARIABLES
    faces,    \* relay->faces: faceid to face
    seqno,    \* the counter in ccnl_get_face_or_create
    fib,      \* relay->fib
    pit,      \* relay->pit: stamp to pending interest
    cs,       \* relay->contents: content packet to cache entry
    nonces,   \* relay->nonces, newest first
    sent      \* what the last handler handed to the sockets

vars == <<faces, seqno, fib, pit, cs, nonces, sent>>

\* Types of the tables; every stamp is within its counter.
TypeOK ==
    /\ seqno \in 0 .. MaxFaceId
    /\ faces \in [DOMAIN faces -> Face] /\ DOMAIN faces \subseteq 1 .. seqno
    /\ fib \subseteq Forward
    /\ pit \in [DOMAIN pit -> Interest] /\ DOMAIN pit \subseteq 1 .. MaxPit
    /\ cs \in [DOMAIN cs -> Content] /\ DOMAIN cs \subseteq Contents
    /\ nonces \in Seq(Nonces) /\ Len(nonces) <= MaxNonces
    /\ sent \subseteq Transmission

\* An empty relay, or one whose cache was filled from a directory before the
\* event loop started (ccnl_populate_cache, option -d).
Init ==
    /\ faces = << >>
    /\ seqno = 0
    /\ fib = {}
    /\ pit = << >>
    /\ \E D \in {{}} \union {{c} : c \in Contents} :
          cs = [c \in D |-> [age |-> 0, static |-> TRUE]]
    /\ nonces = << >>
    /\ sent = {}

-------------------------------------------------------------------------------
\* A packet from p is attributed to face f, created when p has none; arrived
\* is then the face list the handler works on, lastId its counter.
Receive(p, f) == f <= MaxFaceId /\ IsFaceFor(faces, seqno, p, f)

arrived(p, f) == TouchFace(faces, p, f)

\* Seeded fault: the counter is not advanced.
lastId_Stuck(f) == seqno

lastId(f) == IF f > seqno THEN f ELSE seqno

\* The handlers that only read the face list.
ReceiveOnly(p, f) ==
    /\ Receive(p, f)
    /\ faces' = arrived(p, f)
    /\ seqno' = lastId(f)

(* ccnl_fwd_handleInterest, for interest i from peer p                     *)

DropDuplicate(p, f, i) ==
    /\ ReceiveOnly(p, f)
    /\ IsDupNonce(nonces, i.nonce)
    /\ sent' = {}
    /\ UNCHANGED <<fib, pit, cs, nonces>>

FreshInterest(p, f, i) ==
    /\ ReceiveOnly(p, f)
    /\ ~IsDupNonce(nonces, i.nonce)
    /\ nonces' = AppendNonce(nonces, i.nonce)

\* Step 1: search in content store.
ReplyFromCache(p, f, i) ==
    /\ FreshInterest(p, f, i)
    /\ \E c \in DOMAIN cs : Matches(i, c) /\ sent' = Transmit(c, {f})
    /\ UNCHANGED <<fib, pit, cs>>

NotInCache(p, f, i) ==
    /\ FreshInterest(p, f, i)
    /\ \A c \in DOMAIN cs : ~Matches(i, c)
    /\ UNCHANGED <<fib, cs>>

\* ccnl_pkt_fwdOK: an interest of limited scope is neither kept nor sent on.
RejectScope(p, f, i, scope) ==
    /\ NotInCache(p, f, i)
    /\ scope <= 2
    /\ sent' = {}
    /\ UNCHANGED pit

\* Steps 2 and 3: the interest is new; it is stored and propagated.
NewPending(p, f, i, k, scope) ==
    /\ NotInCache(p, f, i)
    /\ scope > 2
    /\ SameInterest(pit, i.name) = {}
    /\ IsNewHead(pit, k)
    /\ pit' = NewInterest(pit, k, i, f, {f})
    /\ sent' = Propagate(faces', fib, pit'[k])

\* Steps 2 and 3: the interest is known; the face joins the first entry with
\* that name, whose own packet - and nonce - is propagated again.
JoinPending(p, f, i, k, scope) ==
    /\ NotInCache(p, f, i)
    /\ scope > 2
    /\ k \in SameInterest(pit, i.name)
    /\ \A j \in SameInterest(pit, i.name) : j <= k
    /\ pit' = AppendPending(pit, k, f)
    /\ sent' = Propagate(faces', fib, pit'[k])

-------------------------------------------------------------------------------
(* ccnl_fwd_handleContent, for content c from peer p                       *)

\* strstr reads the name's string after it was freed: a content named for a
\* node-state update may be taken for one, and dropped, or not.
DropStateUpdate(p, f, c) ==
    /\ ReceiveOnly(p, f)
    /\ c.name \in StateNames
    /\ sent' = {}
    /\ UNCHANGED <<fib, pit, cs, nonces>>

\* A content already stored, or one that nobody waits for.
IgnoreContent(p, f, c) ==
    /\ ReceiveOnly(p, f)
    /\ c \in DOMAIN cs \/ Waiting(pit, c) = {}
    /\ sent' = {}
    /\ UNCHANGED <<fib, pit, cs, nonces>>

\* A content somebody waits for is delivered and then cached, as a static
\* entry when the loop over the PIT stopped at an upload hook.
ServeContent(p, f, c) ==
    /\ ReceiveOnly(p, f)
    /\ c \notin DOMAIN cs
    /\ Waiting(pit, c) # {}
    /\ pit' = ServedPit(pit, c)
    /\ sent' = Transmit(c, ServedFaces(pit, c))
    /\ IF MaxCacheEntries = 0 THEN cs' = cs
                              ELSE cs' \in AddToCache(cs, c, Hooks(pit, c) # {})
    /\ UNCHANGED <<fib, nonces>>

-------------------------------------------------------------------------------
(* Management commands (ccnl_mgmt_handle).  The command comes in through   *)
(* face f of local peer p; the reply to the control program is left out.   *)

\* newface makes a face g even for a peer that has one.
MgmtNewFace(p, f, q, flags) ==
    /\ Receive(p, f)
    /\ LET g == lastId(f) + 1
       IN  /\ g <= MaxFaceId
           /\ seqno' = g
           /\ faces' = [h \in DOMAIN arrived(p, f) \union {g} |->
                           IF h = g THEN [peer |-> q, age |-> 0, flags |-> flags]
                                    ELSE arrived(p, f)[h]]
    /\ sent' = {}
    /\ UNCHANGED <<fib, pit, cs, nonces>>

\* destroyface removes the face with id g, if there is one.
MgmtDestroyFace(p, f, g) ==
    /\ Receive(p, f)
    /\ LET gone == {g} \intersect DOMAIN arrived(p, f)
       IN  /\ faces' = FacesWithout(arrived(p, f), gone)
           /\ pit' = PitWithoutFaces(pit, gone)
           /\ fib' = FibWithoutFaces(fib, gone)
    /\ seqno' = lastId(f)
    /\ sent' = {}
    /\ UNCHANGED <<cs, nonces>>

\* prefixreg adds a forwarding entry towards the face with id g.
MgmtPrefixReg(p, f, n, g) ==
    /\ ReceiveOnly(p, f)
    /\ n # << >>
    /\ fib' = fib \union {[prefix |-> n, face |-> h] : h \in {g} \intersect DOMAIN faces'}
    /\ sent' = {}
    /\ UNCHANGED <<pit, cs, nonces>>

\* addcacheobject asks the control program itself for the content: an
\* interest is sent back on f and stored with no face pending on it.
MgmtAddCacheObject(p, f, n, k) ==
    /\ ReceiveOnly(p, f)
    /\ IsNewHead(pit, k)
    /\ LET ask == [name |-> n, nonce |-> NoNonce]
       IN  /\ pit' = NewInterest(pit, k, ask, f, {})
           /\ sent' = Transmit(ask, {f})
    /\ UNCHANGED <<fib, cs, nonces>>

\* removecacheobject removes one content with exactly that name.
MgmtRemoveCacheObject(p, f, n) ==
    /\ ReceiveOnly(p, f)
    /\ LET named == {c \in DOMAIN cs : c.name = n}
       IN  \/ named = {} /\ cs' = cs
           \/ \E c \in named : cs' = CsWithout(cs, {c})
    /\ sent' = {}
    /\ UNCHANGED <<fib, pit, nonces>>

-------------------------------------------------------------------------------
\* ccnl_ageing: contents and interests that are too old go, the interests
\* that stay are propagated once more, then the faces nobody used go.
Ageing ==
    LET aged == AgedFaces(faces)
        gone == ExpiredFaces(aged)
        kept == AgedPit(pit)
    IN  /\ cs' = AgedCs(cs)
        /\ sent' = UNION {Propagate(faces, fib, kept[k]) : k \in DOMAIN kept}
        /\ pit' = PitWithoutFaces(kept, gone)
        /\ fib' = FibWithoutFaces(fib, gone)
        /\ faces' = FacesWithout(aged, gone)
        /\ UNCHANGED <<seqno, nonces>>

ModelFaceIds == 1 .. MaxFaceId
ModelStamps == 1 .. MaxPit

HandleInterest(p, f) ==
    \E i \in Interests :
        \/ DropDuplicate(p, f, i)
        \/ ReplyFromCache(p, f, i)
        \/ \E scope \in Scopes :
              \/ RejectScope(p, f, i, scope)
              \/ \E k \in ModelStamps : NewPending(p, f, i, k, scope)
              \/ \E k \in ModelStamps : JoinPending(p, f, i, k, scope)

HandleContent(p, f) ==
    \E c \in Contents :
        \/ DropStateUpdate(p, f, c)
        \/ IgnoreContent(p, f, c)
        \/ ServeContent(p, f, c)

HandleMgmt(p, f) ==
    \/ \E q \in Peers, flags \in NewFaceFlags : MgmtNewFace(p, f, q, flags)
    \/ \E g \in ModelFaceIds : MgmtDestroyFace(p, f, g)
    \/ \E n \in Names, g \in ModelFaceIds : MgmtPrefixReg(p, f, n, g)
    \/ \E n \in Names : MgmtRemoveCacheObject(p, f, n)
    \/ p \in Uploaders /\ \E n \in Names, k \in ModelStamps : MgmtAddCacheObject(p, f, n, k)

Next ==
    \/ \E p \in Peers, f \in ModelFaceIds : HandleInterest(p, f)
    \/ \E p \in Peers, f \in ModelFaceIds : HandleContent(p, f)
    \/ \E p \in LocalPeers, f \in ModelFaceIds : HandleMgmt(p, f)
    \/ Ageing

Spec == Init /\ [][Next]_vars

\* The event loop runs the timers before it waits for packets, and the timer
\* re-arms itself: ageing happens again and again.
FairSpec == Spec /\ WF_vars(Ageing)

-------------------------------------------------------------------------------
(* Safety                                                                  *)

\* The client an interest came from, the clients that wait for it and the next
\* hops of the FIB are faces that exist: ccnl_face_remove leaves no reference
\* behind, whether ageing or destroyface removes the face.
NoDanglingFace ==
    /\ \A k \in DOMAIN pit : /\ pit[k].from \in DOMAIN faces \union {NoFace}
                             /\ pit[k].pending \subseteq DOMAIN faces
    /\ \A e \in fib : e.face \in DOMAIN faces

\* A PIT entry nobody is pending on is an upload in progress, and the control
\* program it was sent to still has its face: the upload hook can be reached.
UploadHasClient ==
    \A k \in DOMAIN pit : pit[k].pending = {} => pit[k].from \in DOMAIN faces

\* No client is left waiting for a content that is in the content store:
\* handleContent serves before it caches, handleInterest looks up the store
\* before it makes or joins an entry.
NoStarvedInterest ==
    \A k \in DOMAIN pit, c \in DOMAIN cs : pit[k].pending # {} => ~Matches(pit[k].pkt, c)

\* Interests for one name share one entry, whatever faces, nonces, timeouts
\* and removals came between them.
Aggregated ==
    \A j, k \in DOMAIN pit : pit[j].pkt.name = pit[k].pkt.name => j = k

\* The store outgrows its limit by one entry at most, and only when static
\* entries, which are never evicted, fill it.
CacheBound ==
    MaxCacheEntries > 0 =>
        \/ Cardinality(DOMAIN cs) <= MaxCacheEntries
        \/ /\ Cardinality(DOMAIN cs) = MaxCacheEntries + 1
           /\ Cardinality({c \in DOMAIN cs : cs[c].static}) >= MaxCacheEntries

\* As long as no nonce was pushed out of the list, the nonce of every pending
\* interest is remembered: the interest is dropped when it comes back in a loop.
LoopSuppressed ==
    Len(nonces) < MaxNonces =>
        \A k \in DOMAIN pit : pit[k].pkt.nonce # NoNonce => IsDupNonce(nonces, pit[k].pkt.nonce)

-------------------------------------------------------------------------------
(* What a step may never do                                                *)

\* Data is sent only to a face that waited for it or, from the store, to the
\* face that asks, and is stored only when somebody waited for it: "A node
\* MUST NOT forward unsolicited data".
SolicitedOnly ==
    [][/\ \A t \in sent' : t.pkt \in Contents =>
             \/ \E k \in DOMAIN pit : t.to \in pit[k].pending /\ Matches(pit[k].pkt, t.pkt)
             \/ t.pkt \in DOMAIN cs /\ sent' = {t}
       /\ \A c \in DOMAIN cs' \ DOMAIN cs : Waiting(pit, c) # {}]_vars

\* "deliver new content c to all clients with (loosely) matching interest"
\* (ccnl-core.c:783): every client that waits for a content when it is stored
\* is sent it.
ServesAll ==
    [][\A c \in DOMAIN cs' \ DOMAIN cs :
          \A k \in Waiting(pit, c) : Transmit(c, pit[k].pending) \subseteq sent']_vars

\* A client stops waiting only because matching data goes out to it, because
\* its face is gone, or because ageing gives the interest up.
NoSilentDrop ==
    [][\A k \in DOMAIN pit : \A f \in pit[k].pending :
          \/ k \in DOMAIN pit' /\ f \in pit'[k].pending
          \/ \E t \in sent' : t.to = f /\ t.pkt \in Contents /\ Matches(pit[k].pkt, t.pkt)
          \/ f \notin DOMAIN faces'
          \/ GivenUp(pit[k]) /\ Ageing]_vars

\* A static content leaves the store by removecacheobject alone: neither by
\* ageing nor to make room.
StaticStays ==
    [][\A c \in DOMAIN cs : cs[c].static =>
          \/ c \in DOMAIN cs' /\ cs'[c].static
          \/ \E p \in LocalPeers, f \in ModelFaceIds : MgmtRemoveCacheObject(p, f, c.name)]_vars

-------------------------------------------------------------------------------
(* The contract towards the clients                                        *)

Node == INSTANCE IcnNode WITH
    Clients <- ModelFaceIds,
    wants <- UNION {{[client |-> f, name |-> pit[k].pkt.name] : f \in pit[k].pending} : k \in DOMAIN pit},
    store <- DOMAIN cs,
    data <- {t \in sent : t.pkt \in Contents}

\* As long as no control program uploads contents, the relay implements
\* IcnNode: the PIT, with its joined entries, timeouts and lost faces, is
\* nothing but a set of requests.
Contract == Node!NodeSpec

-------------------------------------------------------------------------------
(* Liveness                                                                *)

\* "Entries in the PIT MUST timeout rather than being held indefinitely",
\* however often clients repeat the interest.
PitTimesOut == \A k \in ModelStamps : k \in DOMAIN pit ~> k \notin DOMAIN pit
===============================================================================
