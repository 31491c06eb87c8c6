------------------------------- MODULE NfnServer -------------------------------
(***************************************************************************)
(* The NFN server of a compute node: one actor that keeps a PIT, a content *)
(* store and a store of incomplete chunked contents.  It answers interests *)
(* of the local services, which ask it, and of the relay behind its        *)
(* gateway; what it does not have it asks of the network or, for a name to *)
(* be computed, of its compute server.                                     *)
(*                                                                         *)
(* An actor handles one message at a time.  Messages it sends to itself    *)
(* wait in its mailbox; messages of others may be handled before or        *)
(* between them.  The network and the services are the environment.        *)
(*                                                                         *)
(* The configuration is the one in application.conf: no nacks, no thunks.  *)
(* Names of requests to a computation (R2C) are left out.  A client stands *)
(* for the actors of its asks: each ask has one, and an answer to one that *)
(* timed out is dropped.                                                   *)
(***************************************************************************)
EXTENDS Integers, FiniteSets, SequencesExt

CONSTANTS
    Names,         \* names without a chunk number: sequences of components, none a prefix of another
    Redirects,     \* names whose content says "redirect:" and another name
    Target,        \* ... the other name
    Size,          \* the number of chunks a content is sent in, 1 if it is not chunked
    Clients,       \* local services that ask for contents
    Repeating,     \* those that ask again when an ask timed out (fetchContentRepeatedly)
    Gateway,       \* the face of the network
    Self,          \* the server as a face of its own PIT
    AskedKeys,     \* what the network may ask for
    Published,     \* names services add to the local cache
    Removable,     \* names services take from the local cache; nothing in the code takes a redirect
    Lossy,         \* the network may lose an interest or its answer
    MaxMailbox     \* bound of the model: messages of others wait when the mailbox is that long

NoChunk == -1
Base(n) == [name |-> n, chunk |-> NoChunk]
ChunksOf(n) == 0 .. Size[n] - 1
Packets == {Base(n) : n \in {m \in Names : Size[m] = 1}}
           \union UNION {{[name |-> n, chunk |-> k] : k \in ChunksOf(n)} : n \in {m \in Names : Size[m] > 1}}
Keys == {Base(n) : n \in Names} \union Packets

\* The ask that fetches the target of redirect n is a face as well: n itself.
Faces == Clients \union {Gateway, Self} \union Redirects

ASSUME ServerAssumption ==
    /\ Redirects \subseteq Names
    /\ Target \in [Redirects -> Names \ Redirects]
    /\ Size \in [Names -> Nat \ {0}]
    /\ Repeating \subseteq Clients
    /\ AskedKeys \subseteq Keys
    /\ Published \subseteq Names
    /\ Removable \subseteq Names \ Redirects
    /\ Lossy \in BOOLEAN
    /\ MaxMailbox \in Nat

VARIABLES
    pit,       \* pit.pit: key to the faces that wait
    store,     \* cs.contentStore: the names of complete contents
    chunks,    \* cs.chunkStore: name to the chunks received so far
    mailbox,   \* the messages the server sent to itself
    fetching,  \* redirects whose target was asked for, with the faces the answer goes to
    waiting,   \* asks of the services that were neither answered nor given up
    asked,     \* interests that are with the network or the compute server
    out        \* the contents the last step gave to faces

vars == <<pit, store, chunks, mailbox, fetching, waiting, asked, out>>

Delivery == [to : Faces, for : Names, what : Names]
Message == [kind : {"interest", "content"}, key : Keys, face : Faces]
Fetch == [faces : SUBSET Faces, done : BOOLEAN]
Request == [client : Clients, name : Names]

\* Types of the stores; a PIT entry has a face.
TypeOK ==
    /\ pit \in [DOMAIN pit -> (SUBSET Faces) \ {{}}] /\ DOMAIN pit \subseteq Keys
    /\ store \subseteq Names
    /\ DOMAIN chunks \subseteq Names
    /\ \A n \in DOMAIN chunks : chunks[n] \subseteq ChunksOf(n) /\ chunks[n] # {}
    /\ mailbox \in Seq(Message)
    /\ fetching \in [DOMAIN fetching -> Fetch] /\ DOMAIN fetching \subseteq Redirects
    /\ waiting \subseteq Request
    /\ asked \subseteq Keys
    /\ out \subseteq Delivery

Init ==
    /\ pit = << >>
    /\ store = {}
    /\ chunks = << >>
    /\ mailbox = << >>
    /\ fetching = << >>
    /\ waiting = {}
    /\ asked = {}
    /\ out = {}

-------------------------------------------------------------------------------
(* PIT and content store                                                   *)

Pending(p, key) == IF key \in DOMAIN p THEN p[key] ELSE {}

\* Seeded fault: the face replaces the faces that wait.
PitAdd_Replace(p, key, fs) ==
    [k \in DOMAIN p \union {key} |-> IF k = key THEN fs ELSE p[k]]

\* PIT.add, for all the faces in fs.
PitAdd(p, key, fs) ==
    [k \in DOMAIN p \union {key} |-> IF k = key THEN Pending(p, k) \union fs ELSE p[k]]

PitRemove(p, key) == [k \in DOMAIN p \ {key} |-> p[k]]

\* ContentStore.get: a name with a chunk number is looked up in the chunk store
\* only, which is complete only for a moment or beside a stored content.
InStore(key) ==
    IF key.chunk = NoChunk THEN key.name \in store
    ELSE key.name \in DOMAIN chunks /\ chunks[key.name] = ChunksOf(key.name)

\* ChunkStore.add: a chunk that is there already is ignored.
WithChunk(n, k) ==
    [m \in DOMAIN chunks \union {n} |->
        IF m # n THEN chunks[m] ELSE (IF n \in DOMAIN chunks THEN chunks[n] ELSE {}) \union {k}]

\* Seeded fault: chunks are counted from one.
FirstMissing_FromOne(n, got) ==
    1 + CHOOSE k \in ChunksOf(n) \ got : \A j \in ChunksOf(n) \ got : k <= j

\* ChunkStore.getIncomplete: the first of the chunks that are missing.
FirstMissing(n, got) == CHOOSE k \in ChunksOf(n) \ got : \A j \in ChunksOf(n) \ got : k <= j

-------------------------------------------------------------------------------
(* Deliveries: what an answer does at the face it is given to              *)

Ask(key, f) == [kind |-> "interest", key |-> key, face |-> f]
Give(n, fs, what) == {[to |-> f, for |-> n, what |-> what] : f \in fs}

\* A client has its answer; the server gets its own as a message; the ask that
\* fetches a redirect is completed.
Deliver(ds, mail, fetches, wants) ==
    /\ out' = ds
    /\ waiting' = wants \ {[client |-> d.to, name |-> d.for] : d \in ds}
    /\ mailbox' = mail \o SetToSeq({[kind |-> "content", key |-> Base(d.what), face |-> Self] :
                                       d \in {x \in ds : x.to = Self}})
    /\ fetching' = [m \in DOMAIN fetches |->
                       IF \E d \in ds : d.to = m THEN [fetches[m] EXCEPT !.done = TRUE] ELSE fetches[m]]

-------------------------------------------------------------------------------
(* handleInterest, for an interest from face f; mail is what is left in    *)
(* the mailbox, wants the asks the services wait for                       *)

AnswerFromStore(f, key, mail, wants) ==
    /\ InStore(key)
    /\ Deliver(Give(key.name, {f}, key.name), mail, fetching, wants)
    /\ UNCHANGED <<pit, store, chunks, asked>>

JoinEntry(f, key, mail, wants) ==
    /\ ~InStore(key)
    /\ key \in DOMAIN pit
    /\ pit' = PitAdd(pit, key, {f})
    /\ Deliver({}, mail, fetching, wants)
    /\ UNCHANGED <<store, chunks, asked>>

\* The first interest for a key goes to the compute server or the network; one
\* for a chunk makes "sure that the original interest (still) exists in the pit".
NewEntry(f, key, mail, wants) ==
    /\ ~InStore(key)
    /\ key \notin DOMAIN pit
    /\ LET p == PitAdd(pit, key, {f})
       IN  pit' = IF key.chunk = NoChunk THEN p ELSE PitAdd(p, Base(key.name), {f})
    /\ asked' = asked \union {key}
    /\ Deliver({}, mail, fetching, wants)
    /\ UNCHANGED <<store, chunks>>

HandleInterest(f, key, mail, wants) ==
    \/ AnswerFromStore(f, key, mail, wants)
    \/ JoinEntry(f, key, mail, wants)
    \/ NewEntry(f, key, mail, wants)

-------------------------------------------------------------------------------
(* handleContent, for the complete content of name n; mail is what is left *)
(* in the mailbox.  What it leaves of asked is up to its caller.           *)

IsPending(n) == Base(n) \in DOMAIN pit

\* Seeded fault: the entry is not removed.
PitAfter_Kept(n) == pit

\* A redirect's faces stay in the PIT until the target has been fetched.
PitAfter(n) == IF n \in Redirects THEN pit ELSE PitRemove(pit, Base(n))

\* The content is given to the faces that wait for it ...
Answers(n) == IF n \in Redirects THEN {} ELSE Give(n, Pending(pit, Base(n)), n)

\* ... or, if it is a redirect, its target is asked for on their behalf.
FetchesAfter(n) ==
    IF n \notin Redirects THEN fetching
    ELSE [m \in DOMAIN fetching \union {n} |->
             IF m # n THEN fetching[m]
             ELSE [faces |-> Pending(pit, Base(n)) \union
                             (IF n \in DOMAIN fetching THEN fetching[n].faces ELSE {}),
                   done |-> n \in DOMAIN fetching /\ fetching[n].done]]

MailAfter(n, mail) ==
    IF n \in Redirects THEN Append(mail, Ask(Base(Target[n]), n)) ELSE mail

DiscardContent(n, mail) ==
    /\ ~IsPending(n)
    /\ Deliver({}, mail, fetching, waiting)
    /\ UNCHANGED <<pit, store, chunks>>

AcceptContent(n, mail) ==
    /\ IsPending(n)
    /\ store' = store \union {n}
    /\ pit' = PitAfter(n)
    /\ Deliver(Answers(n), MailAfter(n, mail), FetchesAfter(n), waiting)
    /\ UNCHANGED chunks

HandleContent(n, mail) == DiscardContent(n, mail) \/ AcceptContent(n, mail)

-------------------------------------------------------------------------------
(* handleContentChunk, for chunk k of name n.  The faces are those that    *)
(* wait for the chunk or else for the name.                                *)

\* Seeded fault: only the entry of the chunk itself is looked at.
ChunkFaces_Exact(n, k) == Pending(pit, [name |-> n, chunk |-> k])

\* The entry of the chunk comes first; the faces are captured before anything
\* is stored.
ChunkFaces(n, k) ==
    IF [name |-> n, chunk |-> k] \in DOMAIN pit THEN pit[[name |-> n, chunk |-> k]]
    ELSE Pending(pit, Base(n))

\* The handler ends by adding the faces to the entry of the chunk once more.
ChunkEntry(p, n, k) == PitAdd(p, [name |-> n, chunk |-> k], ChunkFaces(n, k))

DiscardChunk(n, k) ==
    /\ ChunkFaces(n, k) = {}
    /\ Deliver({}, mailbox, fetching, waiting)
    /\ UNCHANGED <<pit, store, chunks>>

\* Some chunks are missing: the first of them is asked for.
KeepChunk(n, k) ==
    LET got == WithChunk(n, k)[n]
    IN  /\ ChunkFaces(n, k) # {}
        /\ n \notin store
        /\ got # ChunksOf(n)
        /\ chunks' = WithChunk(n, k)
        /\ pit' = ChunkEntry(pit, n, k)
        /\ Deliver({}, Append(mailbox, Ask([name |-> n, chunk |-> FirstMissing(n, got)], Self)),
                   fetching, waiting)
        /\ UNCHANGED store

\* The content is complete, or was stored before the chunk came: it is handled
\* as a content, and in the second case the chunk is kept beside it.
CompleteContent(n, k) ==
    LET got == WithChunk(n, k)
        all == n \in store \/ got[n] = ChunksOf(n)
    IN  /\ ChunkFaces(n, k) # {}
        /\ all
        /\ chunks' = IF n \in store THEN got ELSE [m \in DOMAIN got \ {n} |-> got[m]]
        /\ store' = store \union {n}
        /\ IF IsPending(n)
           THEN /\ pit' = ChunkEntry(PitAfter(n), n, k)
                /\ Deliver(Answers(n), MailAfter(n, mailbox), FetchesAfter(n), waiting)
           ELSE /\ pit' = ChunkEntry(pit, n, k)
                /\ Deliver({}, mailbox, fetching, waiting)

-------------------------------------------------------------------------------
(* Messages of others                                                      *)

Quiet == Len(mailbox) < MaxMailbox

\* CCNSendReceive of a service that does not wait for that name yet.
ClientAsks(c, n) ==
    /\ Quiet
    /\ [client |-> c, name |-> n] \notin waiting
    /\ HandleInterest(c, Base(n), mailbox, waiting \union {[client |-> c, name |-> n]})

\* Its ask timed out, and it asks again.
ClientRetries(c, n) ==
    /\ Quiet
    /\ c \in Repeating
    /\ [client |-> c, name |-> n] \in waiting
    /\ HandleInterest(c, Base(n), mailbox, waiting)

\* Its ask timed out, and it gives up; the PIT keeps its face.
ClientGivesUp(c, n) ==
    /\ c \notin Repeating
    /\ [client |-> c, name |-> n] \in waiting
    /\ waiting' = waiting \ {[client |-> c, name |-> n]}
    /\ out' = {}
    /\ UNCHANGED <<pit, store, chunks, mailbox, fetching, asked>>

NetworkAsks(key) ==
    /\ Quiet
    /\ HandleInterest(Gateway, key, mailbox, waiting)

\* A content comes in, from the network or from a compute worker, asked for or
\* not; it answers the interests for its name or for the chunk.
ReceiveContent(pkt) ==
    /\ Quiet
    /\ asked' = asked \ {pkt, Base(pkt.name)}
    /\ \/ pkt.chunk = NoChunk /\ HandleContent(pkt.name, mailbox)
       \/ pkt.chunk # NoChunk /\ DiscardChunk(pkt.name, pkt.chunk)
       \/ pkt.chunk # NoChunk /\ KeepChunk(pkt.name, pkt.chunk)
       \/ pkt.chunk # NoChunk /\ CompleteContent(pkt.name, pkt.chunk)

Lose(key) ==
    /\ Lossy
    /\ key \in asked
    /\ asked' = asked \ {key}
    /\ out' = {}
    /\ UNCHANGED <<pit, store, chunks, mailbox, fetching, waiting>>

\* AddToLocalCache and AddToCCNCache put a content into the store; who waits for
\* it is not looked at.
Publish(n) ==
    /\ Quiet
    /\ n \in Published
    /\ store' = store \union {n}
    /\ out' = {}
    /\ UNCHANGED <<pit, chunks, mailbox, fetching, waiting, asked>>

\* GetFromLocalCache takes a content out of the store.
TakeFromCache(n) ==
    /\ Quiet
    /\ n \in Removable \intersect store
    /\ store' = store \ {n}
    /\ out' = {}
    /\ UNCHANGED <<pit, chunks, mailbox, fetching, waiting, asked>>

-------------------------------------------------------------------------------
(* Messages of the server to itself, and its callbacks                     *)

HandleOwnMessage ==
    /\ mailbox # << >>
    /\ LET msg == Head(mailbox)
       IN  \/ /\ msg.kind = "interest"
              /\ HandleInterest(msg.face, msg.key, Tail(mailbox), waiting)
           \/ /\ msg.kind = "content"
              /\ HandleContent(msg.key.name, Tail(mailbox))
              /\ UNCHANGED asked

\* The target of redirect n was fetched: a callback, on another thread, gives it
\* to the faces that waited when the redirect came in and removes the entry.
RedirectFetched(n) ==
    /\ n \in DOMAIN fetching
    /\ fetching[n].done
    /\ pit' = PitRemove(pit, Base(n))
    /\ Deliver(Give(n, fetching[n].faces, Target[n]), mailbox,
               [m \in DOMAIN fetching \ {n} |-> fetching[m]], waiting)
    /\ UNCHANGED <<store, chunks, asked>>

\* The ask for the target timed out: nothing is done about those who wait.
RedirectTimesOut(n) ==
    /\ n \in DOMAIN fetching
    /\ ~fetching[n].done
    /\ Lossy
    /\ fetching' = [m \in DOMAIN fetching \ {n} |-> fetching[m]]
    /\ out' = {}
    /\ UNCHANGED <<pit, store, chunks, mailbox, waiting, asked>>

Next ==
    \/ \E c \in Clients, n \in Names : ClientAsks(c, n) \/ ClientRetries(c, n) \/ ClientGivesUp(c, n)
    \/ \E key \in AskedKeys : NetworkAsks(key)
    \/ \E pkt \in Packets : ReceiveContent(pkt)
    \/ \E key \in Keys : Lose(key)
    \/ \E n \in Names : Publish(n) \/ TakeFromCache(n)
    \/ HandleOwnMessage
    \/ \E n \in Redirects : RedirectFetched(n) \/ RedirectTimesOut(n)

Spec == Init /\ [][Next]_vars

\* A packet that satisfies an interest that was sent on comes in.
Reply(key) ==
    /\ key \in asked
    /\ \E pkt \in Packets :
          /\ pkt.name = key.name
          /\ key.chunk \in {NoChunk, pkt.chunk}
          /\ ReceiveContent(pkt)

\* The server handles its messages, the network answers what it is asked again
\* and again, a repeating client repeats.
FairSpec ==
    /\ Spec
    /\ WF_vars(HandleOwnMessage)
    /\ \A key \in Keys : SF_vars(Reply(key))
    /\ \A n \in Redirects : WF_vars(RedirectFetched(n))
    /\ \A c \in Repeating, n \in Names : SF_vars(ClientRetries(c, n))

-------------------------------------------------------------------------------
(* Properties                                                              *)

\* A service whose ask is open has its face in the PIT entry of the name, or,
\* when that name was a redirect, among the faces its fetch will answer: no
\* sequence of chunks, redirects, other askers and answers loses it.
NoClientLost ==
    \A r \in waiting :
        /\ r.client \in Pending(pit, Base(r.name))
        /\ r.name \in DOMAIN fetching => r.client \in fetching[r.name].faces

\* When nothing is lost, a content some chunks of which are there has one of
\* the missing ones on its way: asked of the network, or about to be asked.
ChunkProgress ==
    \A n \in DOMAIN chunks \ store :
        \E k \in ChunksOf(n) \ chunks[n] :
            LET key == [name |-> n, chunk |-> k]
            IN  key \in asked \/ \E i \in DOMAIN mailbox : mailbox[i].key = key

\* A service that asks again and again for a name is given its content, if the
\* network answers whatever it is asked again and again.
EventuallyAnswered ==
    \A c \in Repeating, n \in Names :
        [client |-> c, name |-> n] \in waiting ~> [client |-> c, name |-> n] \notin waiting

\* The clients of the server as IcnNode sees them; its own asks for chunks are
\* hidden.
Outside == Clients \union {Gateway}

Node == INSTANCE IcnNode WITH
    Clients <- Outside,
    Names <- Names,
    Contents <- [name : Names],
    wants <- {r \in [client : Outside, name : Names] : r.client \in Pending(pit, Base(r.name))},
    store <- [name : store],
    data <- {[to |-> d.to, pkt |-> [name |-> d.what]] : d \in {x \in out : x.to # Self}}

\* Without redirects and contents published by services, the server keeps the
\* contract of a node: an interest is answered from the store or kept, a content
\* goes to all who wait for it, once, and to nobody else, whether it came in one
\* packet or in chunks.
Contract == Node!NodeSpec
===============================================================================
