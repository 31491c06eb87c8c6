------------------------------ MODULE CcnlTables ------------------------------
(***************************************************************************)
(* The tables of a CCN-lite relay (struct ccnl_relay_s) and the functions  *)
(* of ccnl-core.c that transform them: faces, forwarding entries (FIB),    *)
(* pending interests (PIT), content store (CS) and remembered nonces.      *)
(* Nothing here has state: CcnlRelay applies these operators to one relay. *)
(*                                                                         *)
(* A C list to which the code prepends is a function whose domain is a set *)
(* of positive stamps, and the element with the largest stamp is the head. *)
(* For faces the stamp is the faceid itself.                               *)
(***************************************************************************)
EXTENDS Integers, FiniteSets, SequencesExt

CONSTANTS
    Names,            \* names of interests, contents and FIB entries: sequences of components
    Versions,         \* what distinguishes two content packets of one name
    Nonces,           \* the values of an interest's Nonce field
    NoNonce,          \* the packet carries no Nonce field
    Peers,            \* socket addresses packets come from and go to
    ReflectPeers,     \* peers behind an interface with the reflect flag (broadcast media)
    MaxNonces,        \* CCNL_MAX_NONCES
    MaxCacheEntries,  \* relay->max_cache_entries: 0 is no cache, -1 is no limit
    ContentTimeout,   \* CCNL_CONTENT_TIMEOUT, in runs of the one-second ageing timer
    InterestTimeout,  \* CCNL_INTEREST_TIMEOUT
    MaxRetransmit,    \* CCNL_MAX_INTEREST_RETRANSMIT
    FaceTimeout       \* CCNL_FACE_TIMEOUT

ASSUME TablesAssumption ==
    /\ Names \subseteq Seq(STRING)
    /\ NoNonce \notin Nonces
    /\ ReflectPeers \subseteq Peers
    /\ MaxNonces \in Nat /\ MaxNonces >= 2
    /\ MaxCacheEntries \in Int /\ MaxCacheEntries >= -1
    /\ ContentTimeout \in Nat \ {0}
    /\ InterestTimeout \in Nat \ {0}
    /\ MaxRetransmit \in Nat
    /\ FaceTimeout \in Nat \ {0}

-------------------------------------------------------------------------------
(* Packets, table entries and tables                                       *)

FaceIds == Nat \ {0}
NoFace == 0
Contents == [name : Names, ver : Versions]
Interests == [name : Names, nonce : Nonces \union {NoNonce}]

Face == [peer : Peers, age : 0 .. FaceTimeout, flags : SUBSET {"STATIC", "REFLECT"}]
Forward == [prefix : Names, face : FaceIds]
Interest == [pkt : Interests, from : FaceIds \union {NoFace}, pending : SUBSET FaceIds,
             age : 0 .. InterestTimeout, retries : 0 .. MaxRetransmit]
Content == [age : 0 .. ContentTimeout, static : BOOLEAN]

\* A datagram handed to the socket of a face.
Transmission == [to : FaceIds, pkt : Interests \union Contents]
Transmit(pkt, fs) == {[to |-> f, pkt |-> pkt] : f \in fs}

\* An interest matches a content when its name is a prefix of the content's
\* name: the default Min- and MaxSuffixComponents exclude nothing else.
Matches(interest, content) == IsPrefix(interest.name, content.name)

Older(age, limit) == IF age < limit THEN age + 1 ELSE limit

-------------------------------------------------------------------------------
(* Faces                                                                   *)

NewFace(p) == [peer |-> p, age |-> 0,
               flags |-> IF p \in ReflectPeers THEN {"REFLECT"} ELSE {}]

FacesOf(faces, p) == {f \in DOMAIN faces : faces[f].peer = p}

\* f is the face ccnl_get_face_or_create returns for a packet from p: the
\* first in the list with that peer, or else a new one.
IsFaceFor(faces, seqno, p, f) ==
    \/ f \in FacesOf(faces, p) /\ \A g \in FacesOf(faces, p) : g <= f
    \/ FacesOf(faces, p) = {} /\ f = seqno + 1

\* The face list once the packet that came in through f has been attributed.
TouchFace(faces, p, f) ==
    [g \in DOMAIN faces \union {f} |->
        IF g # f THEN faces[g]
        ELSE IF g \in DOMAIN faces THEN [faces[g] EXCEPT !.age = 0]
        ELSE NewFace(p)]

\* Seeded fault: pit->from keeps pointing to the face that was freed.
PitWithoutFaces_StaleFrom(pit, gone) ==
    [k \in {j \in DOMAIN pit : pit[j].pending \ gone # {}} |-> [pit[k] EXCEPT !.pending = @ \ gone]]

\* Seeded fault: only the entries that lost their last client are removed.
PitWithoutFaces_KeepUploads(pit, gone) ==
    [k \in {j \in DOMAIN pit : pit[j].pending = {} \/ pit[j].pending \ gone # {}} |->
        [pit[k] EXCEPT !.pending = @ \ gone, !.from = IF @ \in gone THEN NoFace ELSE @]]

\* ccnl_face_remove, for all the faces in gone: the PIT forgets them, and an
\* entry left without a pending face goes, whoever it was waiting for.
PitWithoutFaces(pit, gone) ==
    IF gone = {} THEN pit
    ELSE [k \in {j \in DOMAIN pit : pit[j].pending \ gone # {}} |->
             [pit[k] EXCEPT !.pending = @ \ gone,
                            !.from = IF @ \in gone THEN NoFace ELSE @]]

FibWithoutFaces(fib, gone) == {e \in fib : e.face \notin gone}

FacesWithout(faces, gone) == [f \in DOMAIN faces \ gone |-> faces[f]]

-------------------------------------------------------------------------------
(* Pending interests                                                       *)

\* Seeded fault: an interest joins an entry only before its first retransmission.
SameInterest_Unsent(pit, name) == {k \in DOMAIN pit : pit[k].pkt.name = name /\ pit[k].retries = 0}

\* ccnl_interest_isSame: the entries a further interest for this name joins.
SameInterest(pit, name) == {k \in DOMAIN pit : pit[k].pkt.name = name}

\* The stamp of an entry that is prepended to the list.
IsNewHead(pit, k) ==
    /\ \A j \in DOMAIN pit : j < k
    /\ k = 1 \/ k - 1 \in DOMAIN pit

\* ccnl_interest_new, then ccnl_interest_append_pending for the faces given.
NewInterest(pit, k, pkt, from, faceset) ==
    [j \in DOMAIN pit \union {k} |->
        IF j # k THEN pit[j]
        ELSE [pkt |-> pkt, from |-> from, pending |-> faceset, age |-> 0, retries |-> 0]]

\* Seeded fault: a client that repeats its interest restarts the entry's lifetime.
AppendPending_Restart(pit, k, f) ==
    [pit EXCEPT ![k].pending = @ \union {f}, ![k].age = 0, ![k].retries = 0]

\* Seeded fault: the new client replaces those already waiting.
AppendPending_Replace(pit, k, f) == [pit EXCEPT ![k].pending = {f}]

\* ccnl_interest_append_pending leaves the age of the entry as it is.
AppendPending(pit, k, f) == [pit EXCEPT ![k].pending = @ \union {f}]

\* ccnl_interest_propagate sends to every FIB entry whose prefix is a prefix
\* of the name, "suppress forwarding to origin of interest, except wireless".
NextHops(faces, fib, name, from) ==
    {e.face : e \in {x \in fib : /\ IsPrefix(x.prefix, name)
                                 /\ \/ from = NoFace
                                    \/ x.face # from
                                    \/ "REFLECT" \in faces[from].flags}}

Propagate(faces, fib, i) == Transmit(i.pkt, NextHops(faces, fib, i.pkt.name, i.from))

-------------------------------------------------------------------------------
(* Content store                                                           *)

\* The entries ccnl_content_serve_pending finds for content c, and those of
\* them that wait for an upload: nobody is pending on them.
Waiting(pit, c) == {k \in DOMAIN pit : Matches(pit[k].pkt, c)}
Hooks(pit, c) == {k \in Waiting(pit, c) : pit[k].pending = {}}

\* The loop runs from the head of the PIT and returns at the first upload
\* hook: it visits no entry behind it.
Visited(pit, c) == {k \in Waiting(pit, c) : \A h \in Hooks(pit, c) : h <= k}

\* Seeded fault: the loop leaves the PIT after the first entry it served.
ServedPit_First(pit, c) ==
    [k \in {j \in DOMAIN pit : j \notin Visited(pit, c) \/ \E h \in Visited(pit, c) : h > j} |-> pit[k]]

ServedPit(pit, c) == [k \in DOMAIN pit \ Visited(pit, c) |-> pit[k]]

\* Seeded fault: data is sent to every client of the PIT.
ServedFaces_All(pit, c) == UNION {pit[k].pending : k \in DOMAIN pit}

ServedFaces(pit, c) == UNION {pit[k].pending : k \in Visited(pit, c)}

\* The entries ccnl_content_add2cache may evict: the oldest that is not
\* static (the order of entries of the same age is left open).
Evictable(cs) ==
    {c \in DOMAIN cs : /\ ~cs[c].static
                       /\ \A d \in DOMAIN cs : ~cs[d].static => cs[d].age <= cs[c].age}

CacheFull(cs) == MaxCacheEntries > 0 /\ Cardinality(DOMAIN cs) >= MaxCacheEntries

CsWithout(cs, gone) == [c \in DOMAIN cs \ gone |-> cs[c]]

\* ccnl_content_add2cache, first part: the stores it may leave when it has
\* made room, one per choice of a victim.
MakeRoom(cs) ==
    IF CacheFull(cs) /\ Evictable(cs) # {} THEN {CsWithout(cs, {v}) : v \in Evictable(cs)}
                                          ELSE {cs}

\* Seeded fault: the content is linked whatever the size of the store.
Link_Always(cs, c, isStatic) ==
    [d \in DOMAIN cs \union {c} |-> IF d = c THEN [age |-> 0, static |-> isStatic] ELSE cs[d]]

\* Second part: the content is linked if the store is within its limit.
Link(cs, c, isStatic) ==
    IF MaxCacheEntries > 0 /\ Cardinality(DOMAIN cs) > MaxCacheEntries THEN cs
    ELSE [d \in DOMAIN cs \union {c} |->
             IF d = c THEN [age |-> 0, static |-> isStatic] ELSE cs[d]]

AddToCache(cs, c, isStatic) == {Link(s, c, isStatic) : s \in MakeRoom(cs)}

-------------------------------------------------------------------------------
(* Nonces                                                                  *)

IsDupNonce(nonces, n) == \E j \in DOMAIN nonces : nonces[j] = n

\* Seeded fault: the list is cut one element early.
AppendNonce_Short(nonces, n) ==
    IF n = NoNonce THEN nonces
    ELSE IF Len(nonces) < MaxNonces - 1 THEN <<n>> \o nonces
    ELSE <<n>> \o SubSeq(nonces, 1, MaxNonces - 2)

\* ccnl_nonce_find_or_append for a nonce not yet in the list: it is prepended
\* and, when the list was full, the oldest is dropped.
AppendNonce(nonces, n) ==
    IF n = NoNonce THEN nonces
    ELSE IF Len(nonces) < MaxNonces THEN <<n>> \o nonces
    ELSE <<n>> \o SubSeq(nonces, 1, MaxNonces - 1)

-------------------------------------------------------------------------------
(* Ageing (ccnl_do_ageing), once the clock has advanced by one second      *)

\* Seeded fault: the STATIC flag of a content is not looked at.
AgedCs_Static(cs) ==
    [c \in {d \in DOMAIN cs : Older(cs[d].age, ContentTimeout) < ContentTimeout} |->
        [cs[c] EXCEPT !.age = Older(@, ContentTimeout)]]

AgedCs(cs) ==
    LET old(c) == Older(cs[c].age, ContentTimeout)
    IN  [c \in {d \in DOMAIN cs : cs[d].static \/ old(d) < ContentTimeout} |->
            [cs[c] EXCEPT !.age = old(c)]]

\* An entry is given up when it is old or has been retransmitted often enough.
GivenUp(i) == Older(i.age, InterestTimeout) >= InterestTimeout \/ i.retries >= MaxRetransmit

AgedPit(pit) ==
    [k \in {j \in DOMAIN pit : ~GivenUp(pit[j])} |->
        [pit[k] EXCEPT !.age = Older(@, InterestTimeout), !.retries = @ + 1]]

AgedFaces(faces) == [f \in DOMAIN faces |-> [faces[f] EXCEPT !.age = Older(@, FaceTimeout)]]

ExpiredFaces(faces) ==
    {f \in DOMAIN faces : "STATIC" \notin faces[f].flags /\ faces[f].age >= FaceTimeout}
===============================================================================
