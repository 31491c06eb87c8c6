---------------------------- MODULE NfnServerProofs ----------------------------
(***************************************************************************)
(* No open ask of a service is lost by the NFN server: a proof for all     *)
(* names, redirects, chunk counts, services and mailboxes.                 *)
(***************************************************************************)
EXTENDS NfnServer, TLAPS

(* What the stores promise those who wait, for a PIT p, fetches F, open    *)
(* asks W and stored names S.                                              *)

FetchRecords(F) == \A m \in DOMAIN F : "faces" \in DOMAIN F[m]
Held(r, p, F) ==
    /\ r.client \in Pending(p, Base(r.name))
    /\ r.name \in DOMAIN F => r.client \in F[r.name].faces

\* The inductive invariant.  A service that asks for a redirect while its target
\* is fetched would be in the PIT but not among the faces that get the answer:
\* the redirect is stored by then, so that the store answers the service.
Inv ==
    /\ waiting \subseteq Request
    /\ FetchRecords(fetching)
    /\ DOMAIN fetching \subseteq store \intersect Redirects
    /\ \A r \in waiting : Held(r, pit, fetching)

-------------------------------------------------------------------------------
(* Operators of the module                                                 *)

\* PIT.add adds the faces to those that wait, and does so for one key.
LEMMA PendingAdd ==
    ASSUME NEW p, NEW key, NEW fs, NEW k
    PROVE  Pending(PitAdd(p, key, fs), k) =
               IF k = key THEN Pending(p, k) \union fs ELSE Pending(p, k)
BY DEF Pending, PitAdd

\* PIT.remove forgets those who wait for the key, and nobody else.
LEMMA PendingRemove ==
    ASSUME NEW p, NEW key, NEW k
    PROVE  Pending(PitRemove(p, key), k) = IF k = key THEN {} ELSE Pending(p, k)
BY DEF Pending, PitRemove

\* A key without a chunk number stands for one name.
LEMMA BaseInjective ==
    ASSUME NEW m, NEW n, Base(m) = Base(n)
    PROVE  m = n
<1>1. Base(m).name = m /\ Base(n).name = n
  BY DEF Base
<1> QED
  BY <1>1

\* A content given to faces is delivered to each of them, for the name they asked.
LEMMA GiveReaches ==
    ASSUME NEW n, NEW fs, NEW what, NEW f \in fs
    PROVE  \E d \in Give(n, fs, what) : d.to = f /\ d.for = n
<1>1. [to |-> f, for |-> n, what |-> what] \in Give(n, fs, what)
  BY DEF Give
<1> QED
  BY <1>1

\* Marking a fetch as done leaves its faces.
LEMMA MarkDone ==
    ASSUME NEW e, "faces" \in DOMAIN e
    PROVE  /\ [e EXCEPT !.done = TRUE].faces = e.faces
           /\ DOMAIN [e EXCEPT !.done = TRUE] = DOMAIN e
OBVIOUS

\* An answer marks fetches as done and leaves the faces they are for.
LEMMA DeliverFetches ==
    ASSUME NEW ds, NEW mail, NEW F, NEW W, FetchRecords(F), Deliver(ds, mail, F, W)
    PROVE  /\ DOMAIN fetching' = DOMAIN F
           /\ FetchRecords(fetching')
           /\ \A m \in DOMAIN F : fetching'[m].faces = F[m].faces
<1>1. fetching' = [m \in DOMAIN F |->
                      IF \E d \in ds : d.to = m THEN [F[m] EXCEPT !.done = TRUE] ELSE F[m]]
  BY DEF Deliver
<1>2. ASSUME NEW m \in DOMAIN F
      PROVE  fetching'[m].faces = F[m].faces /\ "faces" \in DOMAIN fetching'[m]
  <2>1. "faces" \in DOMAIN F[m]
    BY DEF FetchRecords
  <2>2. fetching'[m] = F[m] \/ fetching'[m] = [F[m] EXCEPT !.done = TRUE]
    BY <1>1
  <2> QED
    BY <2>1, <2>2, MarkDone
<1>3. DOMAIN fetching' = DOMAIN F
  BY <1>1
<1> QED
  BY <1>2, <1>3 DEF FetchRecords

\* A delivery keeps the invariant when each open ask is answered by it or held.
LEMMA DeliverKeeps ==
    ASSUME NEW ds, NEW mail, NEW F, NEW W, Deliver(ds, mail, F, W),
           W \subseteq Request, FetchRecords(F),
           DOMAIN F \subseteq store' \intersect Redirects,
           \A r \in W : (\E d \in ds : d.to = r.client /\ d.for = r.name) \/ Held(r, pit', F)
    PROVE  Inv'
<1>1. waiting' = W \ {[client |-> d.to, name |-> d.for] : d \in ds}
  BY DEF Deliver
<1>2. /\ DOMAIN fetching' = DOMAIN F
      /\ FetchRecords(fetching')
      /\ \A m \in DOMAIN F : fetching'[m].faces = F[m].faces
  BY DeliverFetches
<1>3. ASSUME NEW r \in waiting'
      PROVE  Held(r, pit', fetching')
  <2>1. r \in W /\ r = [client |-> r.client, name |-> r.name]
    BY <1>1, <1>3 DEF Request
  <2>2. ~ \E d \in ds : d.to = r.client /\ d.for = r.name
    BY <1>1, <1>3, <2>1
  <2>3. Held(r, pit', F)
    BY <2>1, <2>2
  <2> QED
    BY <1>2, <2>3 DEF Held
<1> QED
  BY <1>1, <1>2, <1>3 DEF Inv

-------------------------------------------------------------------------------
(* The handlers                                                            *)

\* handleInterest holds the ask it is called for, unless the store answers it.
LEMMA InterestKeeps ==
    ASSUME Inv, NEW f, NEW key, NEW mail, NEW W, W \subseteq Request,
           \A r \in W : r \in waiting \/ (key = Base(r.name) /\ f = r.client),
           HandleInterest(f, key, mail, W)
    PROVE  Inv'
<1>1. /\ FetchRecords(fetching)
      /\ DOMAIN fetching \subseteq store \intersect Redirects
      /\ \A r \in waiting : Held(r, pit, fetching)
  BY DEF Inv
<1>2. CASE AnswerFromStore(f, key, mail, W)
  <2>1. /\ Deliver(Give(key.name, {f}, key.name), mail, fetching, W)
        /\ store' = store /\ pit' = pit
    BY <1>2 DEF AnswerFromStore
  <2>2. ASSUME NEW r \in W
        PROVE  \/ \E d \in Give(key.name, {f}, key.name) : d.to = r.client /\ d.for = r.name
               \/ Held(r, pit', fetching)
    <3>1. CASE r \in waiting
      BY <1>1, <2>1, <3>1
    <3>2. CASE key = Base(r.name) /\ f = r.client
      <4>1. key.name = r.name
        BY <3>2 DEF Base
      <4> QED
        BY <3>2, <4>1, GiveReaches
    <3> QED
      BY <3>1, <3>2
  <2> QED
    BY <1>1, <2>1, <2>2, DeliverKeeps
<1>3. CASE JoinEntry(f, key, mail, W) \/ NewEntry(f, key, mail, W)
  <2>1. Deliver({}, mail, fetching, W) /\ store' = store /\ ~InStore(key)
    BY <1>3 DEF JoinEntry, NewEntry
  <2>2. \/ pit' = PitAdd(pit, key, {f})
        \/ pit' = PitAdd(PitAdd(pit, key, {f}), Base(key.name), {f})
    BY <1>3 DEF JoinEntry, NewEntry
  <2>3. /\ \A k : Pending(pit, k) \subseteq Pending(pit', k)
        /\ f \in Pending(pit', key)
    BY <2>2, PendingAdd
  <2>4. ASSUME NEW r \in W
        PROVE  Held(r, pit', fetching)
    <3>1. CASE r \in waiting
      BY <1>1, <2>3, <3>1 DEF Held
    <3>2. CASE key = Base(r.name) /\ f = r.client
      <4>1. r.name \notin store
        BY <2>1, <3>2 DEF InStore, Base
      <4> QED
        BY <1>1, <2>3, <3>2, <4>1 DEF Held
    <3> QED
      BY <3>1, <3>2
  <2> QED
    BY <1>1, <2>1, <2>4, DeliverKeeps
<1> QED
  BY <1>2, <1>3 DEF HandleInterest

\* A complete content answers those who wait for it or, if it is a redirect,
\* has all of them captured by its fetch.
LEMMA CompleteKeeps ==
    ASSUME Inv, NEW n, NEW mail,
           Deliver(Answers(n), mail, FetchesAfter(n), waiting),
           store' = store \union {n},
           \A k : Pending(PitAfter(n), k) \subseteq Pending(pit', k)
    PROVE  Inv'
<1>1. /\ waiting \subseteq Request
      /\ FetchRecords(fetching)
      /\ DOMAIN fetching \subseteq store \intersect Redirects
      /\ \A r \in waiting : Held(r, pit, fetching)
  BY DEF Inv
<1>2. CASE n \in Redirects
  <2>1. DOMAIN FetchesAfter(n) = DOMAIN fetching \union {n}
    BY <1>2 DEF FetchesAfter
  <2>2. /\ \A m \in DOMAIN fetching \ {n} : FetchesAfter(n)[m] = fetching[m]
        /\ FetchesAfter(n)[n] =
               [faces |-> Pending(pit, Base(n)) \union
                          (IF n \in DOMAIN fetching THEN fetching[n].faces ELSE {}),
                done |-> n \in DOMAIN fetching /\ fetching[n].done]
    BY <1>2 DEF FetchesAfter
  <2>3. Pending(pit, Base(n)) \subseteq FetchesAfter(n)[n].faces
    BY <2>2
  <2>4. FetchRecords(FetchesAfter(n))
    <3>1. ASSUME NEW m \in DOMAIN FetchesAfter(n)
          PROVE  "faces" \in DOMAIN FetchesAfter(n)[m]
      <4>1. CASE m = n
        BY <2>2, <4>1
      <4>2. CASE m # n
        BY <1>1, <2>1, <2>2, <4>2 DEF FetchRecords
      <4> QED
        BY <4>1, <4>2
    <3> QED
      BY <3>1 DEF FetchRecords
  <2>5. \A k : Pending(pit, k) \subseteq Pending(pit', k)
    BY <1>2 DEF PitAfter
  <2>6. ASSUME NEW r \in waiting
        PROVE  Held(r, pit', FetchesAfter(n))
    <3>1. Held(r, pit, fetching)
      BY <1>1
    <3>2. CASE r.name = n
      BY <2>3, <2>5, <3>1, <3>2 DEF Held
    <3>3. CASE r.name # n
      BY <2>1, <2>2, <2>5, <3>1, <3>3 DEF Held
    <3> QED
      BY <3>2, <3>3
  <2>7. DOMAIN FetchesAfter(n) \subseteq store' \intersect Redirects
    BY <1>1, <1>2, <2>1
  <2> QED
    BY <1>1, <2>4, <2>6, <2>7, DeliverKeeps
<1>3. CASE n \notin Redirects
  <2>1. /\ FetchesAfter(n) = fetching
        /\ Answers(n) = Give(n, Pending(pit, Base(n)), n)
        /\ PitAfter(n) = PitRemove(pit, Base(n))
    BY <1>3 DEF FetchesAfter, Answers, PitAfter
  <2>2. ASSUME NEW r \in waiting
        PROVE  \/ \E d \in Answers(n) : d.to = r.client /\ d.for = r.name
               \/ Held(r, pit', fetching)
    <3>1. Held(r, pit, fetching)
      BY <1>1
    <3>2. CASE r.name = n
      <4>1. r.client \in Pending(pit, Base(n))
        BY <3>1, <3>2 DEF Held
      <4> QED
        BY <2>1, <3>2, <4>1, GiveReaches
    <3>3. CASE r.name # n
      <4>1. Base(r.name) # Base(n)
        BY <3>3, BaseInjective
      <4>2. Pending(pit, Base(r.name)) \subseteq Pending(pit', Base(r.name))
        BY <2>1, <4>1, PendingRemove
      <4> QED
        BY <3>1, <4>2 DEF Held
    <3> QED
      BY <3>2, <3>3
  <2> QED
    BY <1>1, <2>1, <2>2, DeliverKeeps
<1> QED
  BY <1>2, <1>3

\* A step that answers nobody and takes nobody out of the PIT keeps the invariant.
LEMMA QuietKeeps ==
    ASSUME Inv, NEW mail, Deliver({}, mail, fetching, waiting), store' = store,
           \A k : Pending(pit, k) \subseteq Pending(pit', k)
    PROVE  Inv'
<1>1. /\ waiting \subseteq Request
      /\ FetchRecords(fetching)
      /\ DOMAIN fetching \subseteq store \intersect Redirects
      /\ \A r \in waiting : Held(r, pit', fetching)
  BY DEF Inv, Held
<1> QED
  BY <1>1, DeliverKeeps

\* handleContent keeps the invariant.
LEMMA ContentKeeps ==
    ASSUME Inv, NEW n, NEW mail, HandleContent(n, mail)
    PROVE  Inv'
<1>1. CASE DiscardContent(n, mail)
  BY <1>1, QuietKeeps DEF DiscardContent
<1>2. CASE AcceptContent(n, mail)
  <2>1. /\ Deliver(Answers(n), MailAfter(n, mail), FetchesAfter(n), waiting)
        /\ store' = store \union {n}
        /\ pit' = PitAfter(n)
    BY <1>2 DEF AcceptContent
  <2> QED
    BY <2>1, CompleteKeeps
<1> QED
  BY <1>1, <1>2 DEF HandleContent

\* handleContentChunk keeps the invariant: its last line only adds faces.
LEMMA ChunkKeeps ==
    ASSUME Inv, NEW n, NEW k, DiscardChunk(n, k) \/ KeepChunk(n, k) \/ CompleteContent(n, k)
    PROVE  Inv'
<1>1. \A p, j : Pending(p, j) \subseteq Pending(ChunkEntry(p, n, k), j)
  BY PendingAdd DEF ChunkEntry
<1>2. CASE DiscardChunk(n, k)
  BY <1>2, QuietKeeps DEF DiscardChunk
<1>3. CASE KeepChunk(n, k)
  <2>1. /\ pit' = ChunkEntry(pit, n, k) /\ store' = store
        /\ \E mail : Deliver({}, mail, fetching, waiting)
    BY <1>3 DEF KeepChunk
  <2> QED
    BY <1>1, <2>1, QuietKeeps
<1>4. CASE CompleteContent(n, k)
  <2>1. CASE IsPending(n)
    <3>1. /\ pit' = ChunkEntry(PitAfter(n), n, k) /\ store' = store \union {n}
          /\ Deliver(Answers(n), MailAfter(n, mailbox), FetchesAfter(n), waiting)
      BY <1>4, <2>1 DEF CompleteContent
    <3> QED
      BY <1>1, <3>1, CompleteKeeps
  <2>2. CASE ~IsPending(n)
    <3>1. /\ pit' = ChunkEntry(pit, n, k) /\ store' = store \union {n}
          /\ Deliver({}, mailbox, fetching, waiting)
      BY <1>4, <2>2 DEF CompleteContent
    <3>2. \A r \in waiting : Held(r, pit', fetching)
      BY <1>1, <3>1 DEF Inv, Held
    <3>3. /\ waiting \subseteq Request
          /\ FetchRecords(fetching)
          /\ DOMAIN fetching \subseteq store' \intersect Redirects
      BY <3>1 DEF Inv
    <3> QED
      BY <3>1, <3>2, <3>3, DeliverKeeps
  <2> QED
    BY <2>1, <2>2
<1> QED
  BY <1>2, <1>3, <1>4

-------------------------------------------------------------------------------
(* Steps                                                                   *)

\* The messages of others keep the invariant.
LEMMA OthersKeep ==
    ASSUME Inv,
           \/ \E c \in Clients, n \in Names :
                 ClientAsks(c, n) \/ ClientRetries(c, n) \/ ClientGivesUp(c, n)
           \/ \E key \in AskedKeys : NetworkAsks(key)
           \/ \E pkt \in Packets : ReceiveContent(pkt)
           \/ \E key \in Keys : Lose(key)
           \/ \E n \in Names : Publish(n) \/ TakeFromCache(n)
    PROVE  Inv'
<1>0. waiting \subseteq Request
  BY DEF Inv
<1>1. ASSUME NEW c \in Clients, NEW n \in Names, ClientAsks(c, n)
      PROVE  Inv'
  <2> DEFINE r == [client |-> c, name |-> n]
             W == waiting \union {r}
  <2>1. HandleInterest(c, Base(n), mailbox, W)
    BY <1>1 DEF ClientAsks
  <2>2. r.client = c /\ r.name = n /\ r \in Request
    BY DEF Request
  <2>3. W \subseteq Request
    BY <1>0, <2>2
  <2> HIDE DEF r
  <2>4. \A q \in W : q \in waiting \/ (Base(n) = Base(q.name) /\ c = q.client)
    BY <2>2
  <2> QED
    BY <2>1, <2>3, <2>4, InterestKeeps
<1>2. ASSUME NEW c \in Clients, NEW n \in Names, ClientRetries(c, n)
      PROVE  Inv'
  BY <1>0, <1>2, InterestKeeps DEF ClientRetries
<1>3. ASSUME NEW c \in Clients, NEW n \in Names, ClientGivesUp(c, n)
      PROVE  Inv'
  BY <1>3 DEF ClientGivesUp, Inv
<1>4. ASSUME NEW key \in AskedKeys, NetworkAsks(key)
      PROVE  Inv'
  BY <1>0, <1>4, InterestKeeps DEF NetworkAsks
<1>5. ASSUME NEW pkt \in Packets, ReceiveContent(pkt)
      PROVE  Inv'
  BY <1>5, ContentKeeps, ChunkKeeps DEF ReceiveContent
<1>6. ASSUME NEW key \in Keys, Lose(key)
      PROVE  Inv'
  BY <1>6 DEF Lose, Inv
<1>7. ASSUME NEW n \in Names, Publish(n)
      PROVE  Inv'
  BY <1>7 DEF Publish, Inv
<1>8. ASSUME NEW n \in Names, TakeFromCache(n)
      PROVE  Inv'
  <2>1. /\ UNCHANGED <<pit, fetching, waiting>>
        /\ store' = store \ {n} /\ n \notin Redirects
    BY <1>8, ServerAssumption DEF TakeFromCache
  <2> QED
    BY <2>1 DEF Inv
<1> QED
  BY <1>1, <1>2, <1>3, <1>4, <1>5, <1>6, <1>7, <1>8

\* The messages of the server to itself keep the invariant.
LEMMA OwnMessageKeeps ==
    ASSUME Inv, HandleOwnMessage
    PROVE  Inv'
<1> DEFINE msg == Head(mailbox)
<1>1. \/ HandleInterest(msg.face, msg.key, Tail(mailbox), waiting)
      \/ HandleContent(msg.key.name, Tail(mailbox))
  BY DEF HandleOwnMessage
<1>2. waiting \subseteq Request
  BY DEF Inv
<1> HIDE DEF msg
<1> QED
  BY <1>1, <1>2, InterestKeeps, ContentKeeps

\* The callback of a redirect answers all who wait before it removes their entry.
LEMMA FetchedKeeps ==
    ASSUME Inv, NEW n, RedirectFetched(n)
    PROVE  Inv'
<1> DEFINE F == [m \in DOMAIN fetching \ {n} |-> fetching[m]]
           ds == Give(n, fetching[n].faces, Target[n])
<1>1. /\ n \in DOMAIN fetching
      /\ pit' = PitRemove(pit, Base(n))
      /\ store' = store
      /\ Deliver(ds, mailbox, F, waiting)
  BY DEF RedirectFetched
<1>2. FetchRecords(F) /\ DOMAIN F \subseteq store' \intersect Redirects
  BY <1>1 DEF Inv, FetchRecords
<1>3. ASSUME NEW r \in waiting
      PROVE  (\E d \in ds : d.to = r.client /\ d.for = r.name) \/ Held(r, pit', F)
  <2>1. Held(r, pit, fetching)
    BY DEF Inv
  <2>2. CASE r.name = n
    <3>1. r.client \in fetching[n].faces
      BY <1>1, <2>1, <2>2 DEF Held
    <3> QED
      BY <2>2, <3>1, GiveReaches
  <2>3. CASE r.name # n
    <3>1. Pending(pit', Base(r.name)) = Pending(pit, Base(r.name))
      BY <1>1, <2>3, BaseInjective, PendingRemove
    <3> QED
      BY <2>1, <2>3, <3>1 DEF Held
  <2> QED
    BY <2>2, <2>3
<1>4. waiting \subseteq Request
  BY DEF Inv
<1> HIDE DEF F, ds
<1> QED
  BY <1>1, <1>2, <1>3, <1>4, DeliverKeeps

\* A fetch that timed out is forgotten; those who wait stay in the PIT.
LEMMA TimeoutKeeps ==
    ASSUME Inv, NEW n, RedirectTimesOut(n)
    PROVE  Inv'
<1>1. /\ fetching' = [m \in DOMAIN fetching \ {n} |-> fetching[m]]
      /\ UNCHANGED <<pit, store, waiting>>
  BY DEF RedirectTimesOut
<1> QED
  BY <1>1 DEF Inv, FetchRecords, Held

\* The invariant is inductive.
LEMMA StepKeeps == Inv /\ [Next]_vars => Inv'
<1> SUFFICES ASSUME Inv, [Next]_vars PROVE Inv'
  OBVIOUS
<1>1. CASE UNCHANGED vars
  BY <1>1 DEF vars, Inv
<1>2. CASE HandleOwnMessage
  BY <1>2, OwnMessageKeeps
<1>3. CASE \E n \in Redirects : RedirectFetched(n) \/ RedirectTimesOut(n)
  BY <1>3, FetchedKeeps, TimeoutKeeps
<1>4. CASE Next /\ ~HandleOwnMessage /\ ~ \E n \in Redirects : RedirectFetched(n) \/ RedirectTimesOut(n)
  BY <1>4, OthersKeep DEF Next
<1> QED
  BY <1>1, <1>2, <1>3, <1>4

\* Nobody waits in the beginning.
LEMMA InitKeeps == Init => Inv
BY DEF Init, Inv, FetchRecords

\* A service whose ask is open is in the PIT entry of the name it asked for and,
\* while the target of a redirect is fetched, among those who will get it: no
\* order of interests, contents, chunks, callbacks, losses and API messages that
\* NFNServer handles loses a client.
THEOREM NobodyIsLost == Spec => []NoClientLost
<1>1. Inv => NoClientLost
  BY DEF Inv, NoClientLost, Held
<1> QED
  BY <1>1, InitKeeps, StepKeeps, PTL DEF Spec
================================================================================
