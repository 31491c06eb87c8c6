------------------------ MODULE NfnServerContractProofs ------------------------
(***************************************************************************)
(* More about NfnServer: its types, for all values of its constants; and,  *)
(* for a server without redirects whose store only grows by what it is     *)
(* sent, that chunked contents progress and that it implements IcnNode.    *)
(***************************************************************************)
EXTENDS NfnServerProofs, FiniteSetTheorems, SequenceTheorems

-------------------------------------------------------------------------------
(* Keys and packets                                                        *)

\* What a key is: a name, or a chunk of a name that is sent in several.
LEMMA KeyParts ==
    ASSUME NEW key \in Keys
    PROVE  /\ key.name \in Names /\ Base(key.name) \in Keys
           /\ \/ key = Base(key.name)
              \/ /\ key = [name |-> key.name, chunk |-> key.chunk]
                 /\ Size[key.name] > 1 /\ key.chunk \in ChunksOf(key.name)
           /\ key.chunk = NoChunk <=> key = Base(key.name)
<1>1. \A n \in Names : Size[n] \in Nat
  BY ServerAssumption
<1>2. CASE \E n \in Names : key = Base(n)
  BY <1>2 DEF Keys, Base
<1>3. CASE \E n \in Names : Size[n] > 1 /\ \E k \in ChunksOf(n) : key = [name |-> n, chunk |-> k]
  <2>0. PICK n \in Names : Size[n] > 1 /\ \E k \in ChunksOf(n) : key = [name |-> n, chunk |-> k]
    BY <1>3
  <2>1. PICK k \in ChunksOf(n) : Size[n] > 1 /\ key = [name |-> n, chunk |-> k]
    BY <2>0
  <2>2. k \in Nat /\ key.name = n /\ key.chunk = k
    BY <1>1, <2>1 DEF ChunksOf
  <2>3. Base(n).chunk = -1 /\ NoChunk = -1
    BY DEF Base, NoChunk
  <2>4. key # Base(n) /\ key.chunk # NoChunk
    BY <2>2, <2>3
  <2>5. Base(n) \in Keys
    BY DEF Keys
  <2> QED
    BY <2>1, <2>2, <2>4, <2>5
<1> QED
  BY <1>2, <1>3 DEF Keys, Packets

\* A packet is a key.
LEMMA PacketIsKey == Packets \subseteq Keys
BY DEF Keys

\* The chunks of a name that is sent in several are keys.
LEMMA ChunkIsKey ==
    ASSUME NEW n \in Names, Size[n] > 1, NEW k \in ChunksOf(n)
    PROVE  [name |-> n, chunk |-> k] \in Keys
BY DEF Keys, Packets

\* A non-empty set of naturals has a smallest element.
LEMMA SmallestOf ==
    ASSUME NEW T \in SUBSET Nat, T # {}
    PROVE  \E x \in T : \A y \in T : x <= y
<1> DEFINE R == {ss \in Nat \X Nat : ss[1] < ss[2]}
<1>1. \A x, y \in Nat : y < x => <<y, x>> \in R
  OBVIOUS
<1>2. IsWellFoundedOn(R, Nat)
  BY NatLessThanWellFounded DEF OpToRel
<1> HIDE DEF R
<1>3. PICK x \in T : \A y \in T : ~(<<y, x>> \in R)
  BY <1>2, WFMin
<1>4. \A y \in T : ~(y < x)
  BY <1>1, <1>3
<1> QED
  BY <1>3, <1>4

\* ChunkStore.getIncomplete finds a chunk that is missing.
LEMMA FirstMissingIs ==
    ASSUME NEW n \in Names, NEW got, got \subseteq ChunksOf(n), got # ChunksOf(n)
    PROVE  FirstMissing(n, got) \in ChunksOf(n) \ got
<1>0. Size[n] \in Nat
  BY ServerAssumption
<1>1. ChunksOf(n) \subseteq Nat
  BY <1>0 DEF ChunksOf
<1>2. \E k \in ChunksOf(n) \ got : \A j \in ChunksOf(n) \ got : k <= j
  <2> DEFINE T == ChunksOf(n) \ got
  <2>1. T \in SUBSET Nat /\ T # {}
    BY <1>1
  <2> HIDE DEF T
  <2>2. \E x \in T : \A y \in T : x <= y
    BY <2>1, SmallestOf
  <2> QED
    BY <2>2 DEF T
<1> QED
  BY <1>2 DEF FirstMissing

-------------------------------------------------------------------------------
(* Type correctness                                                        *)

PitType(p) == p \in [DOMAIN p -> (SUBSET Faces) \ {{}}] /\ DOMAIN p \subseteq Keys

\* PIT.add leaves a PIT.
LEMMA PitAddType ==
    ASSUME NEW p, PitType(p), NEW key \in Keys, NEW fs \in SUBSET Faces, fs # {}
    PROVE  PitType(PitAdd(p, key, fs)) /\ DOMAIN PitAdd(p, key, fs) = DOMAIN p \union {key}
<1> DEFINE row(k) == IF k = key THEN Pending(p, k) \union fs ELSE p[k]
<1>1. \A k \in DOMAIN p : p[k] \in SUBSET Faces /\ p[k] # {}
  BY DEF PitType
<1>2. Pending(p, key) \in SUBSET Faces
  BY <1>1 DEF Pending
<1>3. \A k \in DOMAIN p \union {key} : row(k) \in (SUBSET Faces) \ {{}}
  BY <1>1, <1>2 DEF Pending
<1>4. PitAdd(p, key, fs) = [k \in DOMAIN p \union {key} |-> row(k)]
  BY DEF PitAdd
<1>5. DOMAIN p \union {key} \subseteq Keys
  BY DEF PitType
<1> HIDE DEF row
<1> QED
  BY <1>3, <1>4, <1>5 DEF PitType

\* PIT.remove leaves a PIT.
LEMMA PitRemoveType ==
    ASSUME NEW p, PitType(p), NEW key
    PROVE  PitType(PitRemove(p, key))
BY DEF PitType, PitRemove

\* Those who wait are faces, and somebody waits at an entry.
LEMMA PendingType ==
    ASSUME NEW p, PitType(p), NEW key
    PROVE  /\ Pending(p, key) \in SUBSET Faces
           /\ Pending(p, key) = {} <=> key \notin DOMAIN p
<1>1. \A k \in DOMAIN p : p[k] \in SUBSET Faces /\ p[k] # {}
  BY DEF PitType
<1> QED
  BY <1>1 DEF Pending

\* The messages an answer puts into the mailbox: one content at most.
LEMMA OneMessage ==
    ASSUME NEW S, NEW x, S \subseteq {x}
    PROVE  /\ SetToSeq(S) \in Seq(S)
           /\ S = {} => SetToSeq(S) = << >>
<1>1. IsFiniteSet({x}) /\ S \in SUBSET {x}
  BY FS_Singleton
<1>2. IsFiniteSet(S)
  BY <1>1, FS_Subset
<1>3. Cardinality(S) \in Nat /\ ExistsBijection(1 .. Cardinality(S), S)
  BY <1>2, FS_CardinalityType
<1>4. \E f \in [1 .. Cardinality(S) -> S] : IsInjective(f)
  BY <1>3 DEF ExistsBijection, Bijection, Injection
<1>5. SetToSeq(S) \in [1 .. Cardinality(S) -> S]
  BY <1>4 DEF SetToSeq
<1>6. SetToSeq(S) \in Seq(S)
  BY <1>3, <1>5
<1>7. S = {} => Cardinality(S) = 0
  BY FS_EmptySet
<1>8. S = {} => SetToSeq(S) = << >>
  BY <1>5, <1>6, <1>7
<1> QED
  BY <1>6, <1>8

\* The types of what a delivery works on.
DeliveryTypes(ds, mail, F, W) ==
    /\ ds \subseteq Delivery /\ (\A d, e \in ds : d.what = e.what)
    /\ mail \in Seq(Message)
    /\ F \in [DOMAIN F -> Fetch] /\ DOMAIN F \subseteq Redirects
    /\ W \subseteq Request

\* A delivery keeps the types.
LEMMA DeliverType ==
    ASSUME NEW ds, NEW mail, NEW F, NEW W, DeliveryTypes(ds, mail, F, W), Deliver(ds, mail, F, W)
    PROVE  /\ out' \subseteq Delivery /\ waiting' \subseteq Request
           /\ mailbox' \in Seq(Message)
           /\ fetching' \in [DOMAIN fetching' -> Fetch] /\ DOMAIN fetching' \subseteq Redirects
<1>1. out' \subseteq Delivery /\ waiting' \subseteq Request
  BY DEF Deliver, DeliveryTypes
<1>2. mailbox' \in Seq(Message)
  <2> DEFINE msg(d) == [kind |-> "content", key |-> Base(d.what), face |-> Self]
             S == {msg(d) : d \in {x \in ds : x.to = Self}}
  <2>1. \A d \in ds : msg(d) \in Message
    BY DEF DeliveryTypes, Delivery, Message, Keys, Faces
  <2>2. \E x : S \subseteq {x}
    <3>1. CASE ds = {}
      BY <3>1
    <3>2. CASE ds # {}
      <4>1. PICK e \in ds : TRUE
        BY <3>2
      <4>2. \A d \in ds : msg(d) = msg(e)
        BY DEF DeliveryTypes
      <4>3. S \subseteq {msg(e)}
        BY <4>2
      <4> QED
        BY <4>3
    <3> QED
      BY <3>1, <3>2
  <2>3. S \subseteq Message
    BY <2>1
  <2>4. mailbox' = mail \o SetToSeq(S)
    BY DEF Deliver
  <2> HIDE DEF S
  <2>5. SetToSeq(S) \in Seq(S)
    BY <2>2, OneMessage
  <2>6. SetToSeq(S) \in Seq(Message)
    BY <2>3, <2>5
  <2> QED
    BY <2>4, <2>6 DEF DeliveryTypes
<1>3. fetching' \in [DOMAIN fetching' -> Fetch] /\ DOMAIN fetching' \subseteq Redirects
  <2>1. fetching' = [m \in DOMAIN F |->
                        IF \E d \in ds : d.to = m THEN [F[m] EXCEPT !.done = TRUE] ELSE F[m]]
    BY DEF Deliver
  <2>2. \A m \in DOMAIN F : F[m] \in Fetch /\ [F[m] EXCEPT !.done = TRUE] \in Fetch
    BY DEF DeliveryTypes, Fetch
  <2> QED
    BY <2>1, <2>2 DEF DeliveryTypes
<1> QED
  BY <1>1, <1>2, <1>3

\* A content given to faces: deliveries of one content.
LEMMA GiveType ==
    ASSUME NEW n \in Names, NEW fs \in SUBSET Faces, NEW what \in Names
    PROVE  Give(n, fs, what) \subseteq Delivery /\ \A d, e \in Give(n, fs, what) : d.what = e.what
BY DEF Give, Delivery

\* handleInterest keeps the types.
LEMMA InterestTypes ==
    ASSUME TypeOK, NEW f \in Faces, NEW key \in Keys, NEW mail \in Seq(Message), NEW W \in SUBSET Request,
           HandleInterest(f, key, mail, W)
    PROVE  TypeOK'
<1>1. /\ PitType(pit) /\ fetching \in [DOMAIN fetching -> Fetch] /\ DOMAIN fetching \subseteq Redirects
      /\ store' = store /\ chunks' = chunks
  BY DEF TypeOK, PitType, HandleInterest, AnswerFromStore, JoinEntry, NewEntry
<1>2. key.name \in Names /\ Base(key.name) \in Keys
  BY KeyParts
<1>3. PitType(pit') /\ asked' \subseteq Keys
  <2>1. PitType(PitAdd(pit, key, {f}))
    BY <1>1, PitAddType
  <2>2. PitType(PitAdd(PitAdd(pit, key, {f}), Base(key.name), {f}))
    BY <1>2, <2>1, PitAddType
  <2>3. /\ pit' \in {pit, PitAdd(pit, key, {f}), PitAdd(PitAdd(pit, key, {f}), Base(key.name), {f})}
        /\ asked' \in {asked, asked \union {key}}
    BY DEF HandleInterest, AnswerFromStore, JoinEntry, NewEntry
  <2> QED
    BY <1>1, <2>1, <2>2, <2>3 DEF TypeOK
<1>4. \E ds : DeliveryTypes(ds, mail, fetching, W) /\ Deliver(ds, mail, fetching, W)
  <2>1. DeliveryTypes({}, mail, fetching, W)
    BY <1>1 DEF DeliveryTypes
  <2>2. DeliveryTypes(Give(key.name, {f}, key.name), mail, fetching, W)
    <3>1. {f} \in SUBSET Faces
      OBVIOUS
    <3>2. /\ Give(key.name, {f}, key.name) \subseteq Delivery
          /\ \A d, e \in Give(key.name, {f}, key.name) : d.what = e.what
      BY <1>2, <3>1 DEF Give, Delivery
    <3> QED
      BY <2>1, <3>2 DEF DeliveryTypes
  <2>3. \/ Deliver({}, mail, fetching, W)
        \/ Deliver(Give(key.name, {f}, key.name), mail, fetching, W)
    BY DEF HandleInterest, AnswerFromStore, JoinEntry, NewEntry
  <2> QED
    BY <2>1, <2>2, <2>3
<1>5. store' = store /\ chunks' = chunks
  BY <1>1
<1>6. /\ out' \subseteq Delivery /\ waiting' \subseteq Request /\ mailbox' \in Seq(Message)
      /\ fetching' \in [DOMAIN fetching' -> Fetch] /\ DOMAIN fetching' \subseteq Redirects
  BY <1>4, DeliverType
<1> QED
  BY <1>3, <1>5, <1>6 DEF TypeOK, PitType

\* What handleContent delivers, and the PIT it leaves, have their types.
LEMMA ContentParts ==
    ASSUME TypeOK, NEW n \in Names, NEW mail \in Seq(Message)
    PROVE  /\ DeliveryTypes(Answers(n), MailAfter(n, mail), FetchesAfter(n), waiting)
           /\ DeliveryTypes({}, mail, fetching, waiting)
           /\ PitType(pit) /\ PitType(PitAfter(n))
<1>1. /\ PitType(pit) /\ fetching \in [DOMAIN fetching -> Fetch] /\ DOMAIN fetching \subseteq Redirects
      /\ waiting \subseteq Request
  BY DEF TypeOK, PitType
<1>2. PitType(PitAfter(n))
  BY <1>1, PitRemoveType DEF PitAfter
<1>3. Pending(pit, Base(n)) \in SUBSET Faces
  BY <1>1, PendingType
<1>4. Answers(n) \subseteq Delivery /\ \A d, e \in Answers(n) : d.what = e.what
  BY <1>3, GiveType DEF Answers
<1>5. MailAfter(n, mail) \in Seq(Message)
  <2>1. CASE n \in Redirects
    <3>1. Target[n] \in Names
      BY <2>1, ServerAssumption
    <3>2. Ask(Base(Target[n]), n) \in Message
      BY <2>1, <3>1 DEF Ask, Message, Keys, Faces
    <3> QED
      BY <2>1, <3>2 DEF MailAfter
  <2>2. CASE n \notin Redirects
    BY <2>2 DEF MailAfter
  <2> QED
    BY <2>1, <2>2
<1>6. FetchesAfter(n) \in [DOMAIN FetchesAfter(n) -> Fetch] /\ DOMAIN FetchesAfter(n) \subseteq Redirects
  <2>1. CASE n \in Redirects
    <3> DEFINE fs == Pending(pit, Base(n)) \union (IF n \in DOMAIN fetching THEN fetching[n].faces ELSE {})
               flag == n \in DOMAIN fetching /\ fetching[n].done
    <3>1. \A m \in DOMAIN fetching : fetching[m] \in Fetch /\ fetching[m].faces \in SUBSET Faces
      BY <1>1 DEF Fetch
    <3>2. [faces |-> fs, done |-> flag] \in Fetch
      <4>1. fs \in SUBSET Faces
        BY <1>3, <3>1
      <4>2. flag \in BOOLEAN
        BY <3>1 DEF Fetch
      <4> HIDE DEF fs, flag
      <4> QED
        BY <4>1, <4>2 DEF Fetch
    <3>3. FetchesAfter(n) = [m \in DOMAIN fetching \union {n} |->
                                IF m # n THEN fetching[m] ELSE [faces |-> fs, done |-> flag]]
      BY <2>1 DEF FetchesAfter
    <3> HIDE DEF fs, flag
    <3> QED
      BY <1>1, <2>1, <3>1, <3>2, <3>3
  <2>2. CASE n \notin Redirects
    BY <1>1, <2>2 DEF FetchesAfter
  <2> QED
    BY <2>1, <2>2
<1>7. DeliveryTypes(Answers(n), MailAfter(n, mail), FetchesAfter(n), waiting)
  BY <1>1, <1>4, <1>5, <1>6 DEF DeliveryTypes
<1>8. DeliveryTypes({}, mail, fetching, waiting)
  BY <1>1 DEF DeliveryTypes
<1> QED
  BY <1>1, <1>2, <1>7, <1>8

\* handleContent keeps the types.
LEMMA ContentTypes ==
    ASSUME TypeOK, NEW n \in Names, NEW mail \in Seq(Message), HandleContent(n, mail), asked' \subseteq Keys
    PROVE  TypeOK'
<1>1. \/ /\ pit' = pit /\ store' = store /\ chunks' = chunks
         /\ Deliver({}, mail, fetching, waiting)
      \/ /\ pit' = PitAfter(n) /\ store' = store \union {n} /\ chunks' = chunks
         /\ Deliver(Answers(n), MailAfter(n, mail), FetchesAfter(n), waiting)
  BY DEF HandleContent, DiscardContent, AcceptContent
<1>2. PitType(pit') /\ store' \subseteq Names /\ chunks' = chunks
  BY <1>1, ContentParts DEF TypeOK
<1>3. /\ out' \subseteq Delivery /\ waiting' \subseteq Request /\ mailbox' \in Seq(Message)
      /\ fetching' \in [DOMAIN fetching' -> Fetch] /\ DOMAIN fetching' \subseteq Redirects
  BY <1>1, ContentParts, DeliverType
<1> QED
  BY <1>2, <1>3 DEF TypeOK, PitType

\* Chunks of a name that is sent in several, as they are kept.
ChunksType(C) ==
    /\ DOMAIN C \subseteq Names
    /\ \A n \in DOMAIN C : C[n] \subseteq ChunksOf(n) /\ C[n] # {}

\* handleContentChunk keeps the types.
LEMMA ChunkTypes ==
    ASSUME TypeOK, NEW n \in Names, Size[n] > 1, NEW k \in ChunksOf(n), asked' \subseteq Keys,
           DiscardChunk(n, k) \/ KeepChunk(n, k) \/ CompleteContent(n, k)
    PROVE  TypeOK'
<1> mailbox \in Seq(Message) /\ ChunksType(chunks) /\ store \subseteq Names
  BY DEF TypeOK, ChunksType
<1>1. [name |-> n, chunk |-> k] \in Keys
  BY ChunkIsKey
<1>2. ChunkFaces(n, k) \in SUBSET Faces
  BY ContentParts, PendingType DEF ChunkFaces, Pending
<1>3. ASSUME NEW p, PitType(p), ChunkFaces(n, k) # {}
      PROVE  PitType(ChunkEntry(p, n, k))
  BY <1>1, <1>2, <1>3, PitAddType DEF ChunkEntry
<1>4. /\ ChunksType(WithChunk(n, k)) /\ k \in WithChunk(n, k)[n]
      /\ WithChunk(n, k)[n] \subseteq ChunksOf(n)
  BY DEF ChunksType, WithChunk
<1>5. CASE DiscardChunk(n, k)
  <2>1. Deliver({}, mailbox, fetching, waiting) /\ pit' = pit /\ store' = store /\ chunks' = chunks
    BY <1>5 DEF DiscardChunk
  <2>2. /\ out' \subseteq Delivery /\ waiting' \subseteq Request /\ mailbox' \in Seq(Message)
        /\ fetching' \in [DOMAIN fetching' -> Fetch] /\ DOMAIN fetching' \subseteq Redirects
    BY <2>1, ContentParts, DeliverType
  <2> QED
    BY <2>1, <2>2 DEF TypeOK
<1>6. CASE KeepChunk(n, k)
  <2> DEFINE missing == FirstMissing(n, WithChunk(n, k)[n])
             mail == Append(mailbox, Ask([name |-> n, chunk |-> missing], Self))
  <2>1. /\ ChunkFaces(n, k) # {} /\ WithChunk(n, k)[n] # ChunksOf(n)
        /\ chunks' = WithChunk(n, k) /\ store' = store
        /\ pit' = ChunkEntry(pit, n, k)
        /\ Deliver({}, mail, fetching, waiting)
    BY <1>6 DEF KeepChunk
  <2>2. missing \in ChunksOf(n)
    BY <1>4, <2>1, FirstMissingIs
  <2>3. mail \in Seq(Message)
    <3>1. [name |-> n, chunk |-> missing] \in Keys
      BY <2>2, ChunkIsKey
    <3>2. Ask([name |-> n, chunk |-> missing], Self) \in Message
      BY <3>1 DEF Ask, Message, Faces
    <3> QED
      BY <3>2
  <2> HIDE DEF mail
  <2>4. /\ out' \subseteq Delivery /\ waiting' \subseteq Request /\ mailbox' \in Seq(Message)
        /\ fetching' \in [DOMAIN fetching' -> Fetch] /\ DOMAIN fetching' \subseteq Redirects
    BY <2>1, <2>3, ContentParts, DeliverType
  <2>5. PitType(pit')
    BY <1>3, <2>1, ContentParts
  <2> QED
    BY <1>4, <2>1, <2>4, <2>5 DEF TypeOK, PitType, ChunksType
<1>7. CASE CompleteContent(n, k)
  <2>1. ChunkFaces(n, k) # {} /\ store' = store \union {n}
    BY <1>7 DEF CompleteContent
  <2>2. ChunksType(chunks')
    BY <1>4, <1>7 DEF CompleteContent, ChunksType
  <2>3. \/ /\ pit' = ChunkEntry(PitAfter(n), n, k)
           /\ Deliver(Answers(n), MailAfter(n, mailbox), FetchesAfter(n), waiting)
        \/ /\ pit' = ChunkEntry(pit, n, k)
           /\ Deliver({}, mailbox, fetching, waiting)
    BY <1>7 DEF CompleteContent
  <2>4. PitType(pit')
    BY <1>3, <2>1, <2>3, ContentParts
  <2>5. /\ out' \subseteq Delivery /\ waiting' \subseteq Request /\ mailbox' \in Seq(Message)
        /\ fetching' \in [DOMAIN fetching' -> Fetch] /\ DOMAIN fetching' \subseteq Redirects
    BY <2>3, ContentParts, DeliverType
  <2> QED
    BY <2>1, <2>2, <2>4, <2>5 DEF TypeOK, PitType, ChunksType
<1> QED
  BY <1>5, <1>6, <1>7

\* The messages of others keep the types.
LEMMA OthersTypes ==
    ASSUME TypeOK,
           \/ \E c \in Clients, n \in Names :
                 ClientAsks(c, n) \/ ClientRetries(c, n) \/ ClientGivesUp(c, n)
           \/ \E key \in AskedKeys : NetworkAsks(key)
           \/ \E pkt \in Packets : ReceiveContent(pkt)
           \/ \E key \in Keys : Lose(key)
           \/ \E n \in Names : Publish(n) \/ TakeFromCache(n)
    PROVE  TypeOK'
<1>0. mailbox \in Seq(Message) /\ waiting \in SUBSET Request
  BY DEF TypeOK
<1>1. ASSUME NEW c \in Clients, NEW n \in Names, ClientAsks(c, n) \/ ClientRetries(c, n)
      PROVE  TypeOK'
  <2>1. c \in Faces /\ Base(n) \in Keys
    BY DEF Faces, Keys
  <2>2. waiting \union {[client |-> c, name |-> n]} \in SUBSET Request
    BY <1>0 DEF Request
  <2> QED
    BY <1>0, <1>1, <2>1, <2>2, InterestTypes DEF ClientAsks, ClientRetries
<1>2. ASSUME NEW c \in Clients, NEW n \in Names, ClientGivesUp(c, n)
      PROVE  TypeOK'
  BY <1>2 DEF ClientGivesUp, TypeOK
<1>3. ASSUME NEW key \in AskedKeys, NetworkAsks(key)
      PROVE  TypeOK'
  <2>1. Gateway \in Faces /\ key \in Keys
    BY ServerAssumption DEF Faces
  <2> QED
    BY <1>0, <1>3, <2>1, InterestTypes DEF NetworkAsks
<1>4. ASSUME NEW pkt \in Packets, ReceiveContent(pkt)
      PROVE  TypeOK'
  <2>1. pkt \in Keys /\ pkt.name \in Names
    BY PacketIsKey, KeyParts
  <2>2. asked' \subseteq Keys
    BY <1>4 DEF ReceiveContent, TypeOK
  <2>3. pkt.chunk # NoChunk => Size[pkt.name] > 1 /\ pkt.chunk \in ChunksOf(pkt.name)
    BY <2>1, KeyParts
  <2> QED
    BY <1>0, <1>4, <2>1, <2>2, <2>3, ContentTypes, ChunkTypes DEF ReceiveContent
<1>5. ASSUME NEW key \in Keys, Lose(key)
      PROVE  TypeOK'
  BY <1>5 DEF Lose, TypeOK
<1>6. ASSUME NEW n \in Names, Publish(n) \/ TakeFromCache(n)
      PROVE  TypeOK'
  BY <1>6 DEF Publish, TakeFromCache, TypeOK
<1> QED
  BY <1>1, <1>2, <1>3, <1>4, <1>5, <1>6

\* The messages of the server to itself and its callbacks keep the types.
LEMMA OwnTypes ==
    ASSUME TypeOK, HandleOwnMessage \/ \E n \in Redirects : RedirectFetched(n) \/ RedirectTimesOut(n)
    PROVE  TypeOK'
<1>1. CASE HandleOwnMessage
  <2> DEFINE msg == Head(mailbox)
             rest == Tail(mailbox)
  <2>1. msg \in Message /\ rest \in Seq(Message)
    BY <1>1 DEF HandleOwnMessage, TypeOK
  <2>2. msg.face \in Faces /\ msg.key \in Keys /\ msg.key.name \in Names
    BY <2>1, KeyParts DEF Message
  <2>3. \/ HandleInterest(msg.face, msg.key, rest, waiting)
        \/ HandleContent(msg.key.name, rest) /\ asked' = asked
    BY <1>1 DEF HandleOwnMessage
  <2> HIDE DEF msg, rest
  <2> QED
    BY <2>1, <2>2, <2>3, InterestTypes, ContentTypes DEF TypeOK
<1>2. ASSUME NEW n \in Redirects, RedirectFetched(n)
      PROVE  TypeOK'
  <2> DEFINE F == [m \in DOMAIN fetching \ {n} |-> fetching[m]]
             ds == Give(n, fetching[n].faces, Target[n])
  <2>1. /\ n \in DOMAIN fetching /\ pit' = PitRemove(pit, Base(n))
        /\ Deliver(ds, mailbox, F, waiting) /\ UNCHANGED <<store, chunks, asked>>
    BY <1>2 DEF RedirectFetched
  <2>2. n \in Names /\ Target[n] \in Names
    BY ServerAssumption
  <2>3. fetching[n].faces \in SUBSET Faces
    BY <2>1 DEF TypeOK, Fetch
  <2>4. DeliveryTypes(ds, mailbox, F, waiting)
    BY <2>2, <2>3, GiveType DEF DeliveryTypes, TypeOK
  <2>5. PitType(pit')
    BY <2>1, PitRemoveType DEF TypeOK, PitType
  <2> HIDE DEF F, ds
  <2>6. /\ out' \subseteq Delivery /\ waiting' \subseteq Request /\ mailbox' \in Seq(Message)
        /\ fetching' \in [DOMAIN fetching' -> Fetch] /\ DOMAIN fetching' \subseteq Redirects
    BY <2>1, <2>4, DeliverType
  <2> QED
    BY <2>1, <2>5, <2>6 DEF TypeOK, PitType
<1>3. ASSUME NEW n \in Redirects, RedirectTimesOut(n)
      PROVE  TypeOK'
  BY <1>3 DEF RedirectTimesOut, TypeOK
<1> QED
  BY <1>1, <1>2, <1>3

\* The PIT, the stores, the mailbox and the fetches keep their types: no entry
\* of the PIT is without a face, no chunk is one the content does not have.
THEOREM TypeCorrect == Spec => []TypeOK
<1>1. Init => TypeOK
  BY DEF Init, TypeOK
<1>2. TypeOK /\ [Next]_vars => TypeOK'
  <2> SUFFICES ASSUME TypeOK, [Next]_vars PROVE TypeOK'
    OBVIOUS
  <2>1. CASE UNCHANGED vars
    BY <2>1 DEF vars, TypeOK
  <2>2. CASE Next
    BY <2>2, OthersTypes, OwnTypes DEF Next
  <2> QED
    BY <2>1, <2>2
<1> QED
  BY <1>1, <1>2, PTL DEF Spec

-------------------------------------------------------------------------------
(* The mailbox                                                             *)

Messages(q) == {q[i] : i \in DOMAIN q}

\* What appending and removing do to the messages of a mailbox.
LEMMA MessagesOf ==
    ASSUME NEW T, NEW q \in Seq(T)
    PROVE  /\ \A x \in T : Messages(Append(q, x)) = Messages(q) \union {x}
           /\ \A r \in Seq(T) : Messages(q \o r) = Messages(q) \union Messages(r)
           /\ q # << >> => Messages(q) = {Head(q)} \union Messages(Tail(q))
<1>1. ASSUME NEW x \in T
      PROVE  Messages(Append(q, x)) = Messages(q) \union {x}
  <2>1. /\ DOMAIN Append(q, x) = 1 .. (Len(q) + 1) /\ DOMAIN q = 1 .. Len(q) /\ Len(q) \in Nat
        /\ \A i \in 1 .. Len(q) : Append(q, x)[i] = q[i]
        /\ Append(q, x)[Len(q) + 1] = x
    OBVIOUS
  <2> QED
    BY <2>1 DEF Messages
<1>2. ASSUME NEW r \in Seq(T)
      PROVE  Messages(q \o r) = Messages(q) \union Messages(r)
  <2>1. /\ DOMAIN (q \o r) = 1 .. (Len(q) + Len(r)) /\ DOMAIN q = 1 .. Len(q) /\ DOMAIN r = 1 .. Len(r)
        /\ Len(q) \in Nat /\ Len(r) \in Nat
        /\ \A i \in 1 .. Len(q) : (q \o r)[i] = q[i]
        /\ \A i \in 1 .. Len(r) : (q \o r)[Len(q) + i] = r[i]
    OBVIOUS
  <2>2. \A i \in 1 .. (Len(q) + Len(r)) : i \in 1 .. Len(q) \/ \E j \in 1 .. Len(r) : i = Len(q) + j
    <3>1. \A i \in 1 .. (Len(q) + Len(r)) : i \in 1 .. Len(q) \/ (i - Len(q) \in 1 .. Len(r) /\ i = Len(q) + (i - Len(q)))
      BY <2>1
    <3> QED
      BY <3>1
  <2>3. \A j \in 1 .. Len(r) : Len(q) + j \in 1 .. (Len(q) + Len(r))
    BY <2>1
  <2>4. \A i \in 1 .. Len(q) : i \in 1 .. (Len(q) + Len(r))
    BY <2>1
  <2>5. \A x \in Messages(q \o r) : x \in Messages(q) \/ x \in Messages(r)
    <3> SUFFICES ASSUME NEW i \in 1 .. (Len(q) + Len(r))
                 PROVE  (q \o r)[i] \in Messages(q) \/ (q \o r)[i] \in Messages(r)
      BY <2>1 DEF Messages
    <3>1. CASE i \in 1 .. Len(q)
      BY <2>1, <3>1 DEF Messages
    <3>2. ASSUME NEW j \in 1 .. Len(r), i = Len(q) + j
          PROVE  (q \o r)[i] \in Messages(r)
      BY <2>1, <3>2 DEF Messages
    <3> QED
      BY <2>2, <3>1, <3>2
  <2>6. \A x \in Messages(q) : x \in Messages(q \o r)
    BY <2>1, <2>4 DEF Messages
  <2>7. \A x \in Messages(r) : x \in Messages(q \o r)
    BY <2>1, <2>3 DEF Messages
  <2> QED
    BY <2>5, <2>6, <2>7
<1>3. ASSUME q # << >>
      PROVE  Messages(q) = {Head(q)} \union Messages(Tail(q))
  <2>1. /\ DOMAIN q = 1 .. Len(q) /\ Len(q) \in Nat \ {0} /\ Head(q) = q[1]
        /\ DOMAIN Tail(q) = 1 .. (Len(q) - 1)
        /\ \A i \in 1 .. (Len(q) - 1) : Tail(q)[i] = q[i + 1]
    BY <1>3
  <2>2. \A i \in 1 .. Len(q) : i = 1 \/ (i - 1 \in 1 .. (Len(q) - 1) /\ i = (i - 1) + 1)
    BY <2>1
  <2>3. \A x \in Messages(q) : x = Head(q) \/ x \in Messages(Tail(q))
    <3> SUFFICES ASSUME NEW i \in 1 .. Len(q) PROVE q[i] = Head(q) \/ q[i] \in Messages(Tail(q))
      BY <2>1 DEF Messages
    <3>1. CASE i = 1
      BY <2>1, <3>1
    <3>2. CASE i # 1
      <4>1. i - 1 \in DOMAIN Tail(q) /\ Tail(q)[i - 1] = q[i]
        BY <2>1, <2>2, <3>2
      <4> QED
        BY <4>1 DEF Messages
    <3> QED
      BY <3>1, <3>2
  <2>4. \A i \in 1 .. (Len(q) - 1) : i + 1 \in 1 .. Len(q)
    BY <2>1
  <2>5. 1 \in 1 .. Len(q)
    BY <2>1
  <2>6. \A x \in {Head(q)} \union Messages(Tail(q)) : x \in Messages(q)
    BY <2>1, <2>4, <2>5 DEF Messages
  <2> QED
    BY <2>3, <2>6
<1> QED
  BY <1>1, <1>2, <1>3

\* A delivery adds only contents for the server itself to the mailbox.
LEMMA DeliverMail ==
    ASSUME NEW ds, NEW mail, NEW F, NEW W, DeliveryTypes(ds, mail, F, W), Deliver(ds, mail, F, W)
    PROVE  /\ Messages(mail) \subseteq Messages(mailbox')
           /\ \A x \in Messages(mailbox') :
                 \/ x \in Messages(mail)
                 \/ \E d \in ds : d.to = Self /\ x = [kind |-> "content", key |-> Base(d.what), face |-> Self]
<1> DEFINE S == {[kind |-> "content", key |-> Base(d.what), face |-> Self] : d \in {x \in ds : x.to = Self}}
<1>1. mailbox' = mail \o SetToSeq(S)
  BY DEF Deliver
<1>2. \A x, y \in S : x = y
  BY DEF DeliveryTypes
<1>3. \E x : S \subseteq {x}
  <2> HIDE DEF S
  <2>1. CASE S = {}
    BY <2>1
  <2>2. CASE S # {}
    BY <1>2, <2>2
  <2> QED
    BY <2>1, <2>2
<1>4. S \subseteq Message
  BY DEF DeliveryTypes, Delivery, Message, Keys, Faces
<1>5. \A x \in S : \E d \in ds : d.to = Self /\ x = [kind |-> "content", key |-> Base(d.what), face |-> Self]
  OBVIOUS
<1> HIDE DEF S
<1>6. SetToSeq(S) \in Seq(S) /\ mail \in Seq(Message)
  BY <1>3, OneMessage DEF DeliveryTypes
<1>7. SetToSeq(S) \in Seq(Message) /\ Messages(SetToSeq(S)) \subseteq S
  BY <1>4, <1>6 DEF Messages
<1>8. Messages(mailbox') = Messages(mail) \union Messages(SetToSeq(S))
  BY <1>1, <1>6, <1>7, MessagesOf
<1> QED
  BY <1>5, <1>7, <1>8

\* A redirect adds the ask for its target to the mailbox.
LEMMA MailAfterMessages ==
    ASSUME NEW n \in Names, NEW mail \in Seq(Message)
    PROVE  /\ Messages(mail) \subseteq Messages(MailAfter(n, mail))
           /\ \A x \in Messages(MailAfter(n, mail)) : x \in Messages(mail) \/ x.kind = "interest"
<1>1. CASE n \in Redirects
  <2>1. Target[n] \in Names
    BY <1>1, ServerAssumption
  <2>2. Ask(Base(Target[n]), n) \in Message /\ Ask(Base(Target[n]), n).kind = "interest"
    BY <1>1, <2>1 DEF Ask, Message, Keys, Faces
  <2>3. Messages(MailAfter(n, mail)) = Messages(mail) \union {Ask(Base(Target[n]), n)}
    BY <1>1, <2>2, MessagesOf DEF MailAfter
  <2> QED
    BY <2>2, <2>3
<1>2. CASE n \notin Redirects
  BY <1>2 DEF MailAfter
<1> QED
  BY <1>1, <1>2

-------------------------------------------------------------------------------
(* Chunked contents progress, when nothing is lost or taken                *)

\* The inductive invariant: a chunk that was asked for is asked for still, or it
\* is there; what is asked for has its entry, by which the chunk is accepted.
ChunkInv ==
    /\ \A key \in DOMAIN pit :
          key.chunk # NoChunk /\ key.name \notin store =>
             key \in asked \/ (key.name \in DOMAIN chunks /\ key.chunk \in chunks[key.name])
    /\ \A key \in asked : key.chunk # NoChunk => key \in DOMAIN pit
    /\ \A x \in Messages(mailbox) : x.kind = "content" => x.key.chunk = NoChunk
    /\ \A n \in DOMAIN chunks \ store :
          \E k \in ChunksOf(n) \ chunks[n] :
             LET key == [name |-> n, chunk |-> k]
             IN  key \in asked \/ \E x \in Messages(mailbox) : x.key = key

\* The number of a chunk is none of those that stand for no chunk.
LEMMA ChunkNumber ==
    ASSUME NEW n \in Names, NEW k \in ChunksOf(n)
    PROVE  k # NoChunk
<1>1. Size[n] \in Nat
  BY ServerAssumption
<1> QED
  BY <1>1 DEF ChunksOf, NoChunk

\* A step that keeps the chunks, their entries and what is asked for.
LEMMA KeepsProgress ==
    ASSUME TypeOK, ChunkInv, store \subseteq store', chunks' = chunks,
           \A key \in DOMAIN pit' : key.chunk # NoChunk => key \in DOMAIN pit \/ key \in asked',
           \A key \in DOMAIN pit : key.chunk # NoChunk => key \in DOMAIN pit',
           \A key \in asked : key.chunk # NoChunk => key \in asked',
           \A key \in asked' : key.chunk # NoChunk => key \in asked \/ key \in DOMAIN pit',
           \A x \in Messages(mailbox') : x.kind = "content" => x.key.chunk = NoChunk,
           \A x \in Messages(mailbox) :
              \/ x \in Messages(mailbox')
              \/ x.key.chunk = NoChunk \/ x.key \in asked' \/ x.key.name \in store
              \/ x.key.name \in DOMAIN chunks /\ x.key.chunk \in chunks[x.key.name]
    PROVE  ChunkInv'
<1>1. \A key \in DOMAIN pit' :
         key.chunk # NoChunk /\ key.name \notin store' =>
            key \in asked' \/ (key.name \in DOMAIN chunks' /\ key.chunk \in chunks'[key.name])
  BY DEF ChunkInv
<1>2. \A key \in asked' : key.chunk # NoChunk => key \in DOMAIN pit'
  BY DEF ChunkInv
<1>3. ASSUME NEW n \in DOMAIN chunks' \ store'
      PROVE  \E k \in ChunksOf(n) \ chunks'[n] :
                [name |-> n, chunk |-> k] \in asked' \/ \E x \in Messages(mailbox') : x.key = [name |-> n, chunk |-> k]
  <2>1. n \in DOMAIN chunks \ store /\ n \in Names
    BY <1>3 DEF TypeOK
  <2>2. PICK k \in ChunksOf(n) \ chunks[n] :
           [name |-> n, chunk |-> k] \in asked \/ \E x \in Messages(mailbox) : x.key = [name |-> n, chunk |-> k]
    BY <2>1 DEF ChunkInv
  <2> DEFINE key == [name |-> n, chunk |-> k]
  <2>3. key.name = n /\ key.chunk = k /\ k # NoChunk
    BY <2>1, ChunkNumber
  <2> HIDE DEF key
  <2>4. key \in asked' \/ \E x \in Messages(mailbox') : x.key = key
    BY <2>1, <2>2, <2>3 DEF key
  <2> QED
    BY <2>2, <2>4 DEF key
<1> QED
  BY <1>1, <1>2, <1>3 DEF ChunkInv

\* handleInterest keeps it, when it handles an interest of others.
LEMMA InterestProgress ==
    ASSUME TypeOK, ChunkInv, NEW f \in Faces, NEW key \in Keys, NEW mail \in Seq(Message),
           NEW W \in SUBSET Request, HandleInterest(f, key, mail, W),
           Messages(mail) \subseteq Messages(mailbox),
           \A x \in Messages(mailbox) : x \in Messages(mail) \/ x.key = key
    PROVE  ChunkInv'
<1>1. /\ store' = store /\ chunks' = chunks
      /\ \E ds : DeliveryTypes(ds, mail, fetching, W) /\ Deliver(ds, mail, fetching, W)
  <2>1. DeliveryTypes({}, mail, fetching, W)
    BY DEF DeliveryTypes, TypeOK
  <2>2. DeliveryTypes(Give(key.name, {f}, key.name), mail, fetching, W)
    <3>1. key.name \in Names /\ {f} \in SUBSET Faces
      BY KeyParts
    <3>2. Give(key.name, {f}, key.name) \subseteq Delivery /\ \A d, e \in Give(key.name, {f}, key.name) : d.what = e.what
      BY <3>1 DEF Give, Delivery
    <3> QED
      BY <2>1, <3>2 DEF DeliveryTypes
  <2> QED
    BY <2>1, <2>2 DEF HandleInterest, AnswerFromStore, JoinEntry, NewEntry
<1>2. /\ Messages(mail) \subseteq Messages(mailbox')
      /\ \A x \in Messages(mailbox') : x \in Messages(mail) \/ x.key.chunk = NoChunk
  BY <1>1, DeliverMail DEF Base
<1>3. \A x \in Messages(mailbox') : x.kind = "content" => x.key.chunk = NoChunk
  BY <1>2 DEF ChunkInv
<1>4. Base(key.name).chunk = NoChunk
  BY DEF Base
<1>5. CASE AnswerFromStore(f, key, mail, W)
  <2>1. pit' = pit /\ asked' = asked /\ InStore(key)
    BY <1>5 DEF AnswerFromStore
  <2>2. key.chunk = NoChunk \/ (key.name \in DOMAIN chunks /\ key.chunk \in chunks[key.name])
    BY <2>1, KeyParts DEF InStore
  <2> QED
    BY <1>1, <1>2, <1>3, <2>1, <2>2, KeepsProgress
<1>6. CASE JoinEntry(f, key, mail, W)
  <2>1. key \in DOMAIN pit /\ DOMAIN pit' = DOMAIN pit /\ asked' = asked
    BY <1>6 DEF JoinEntry, PitAdd
  <2>2. \/ key.chunk = NoChunk \/ key.name \in store \/ key \in asked
        \/ (key.name \in DOMAIN chunks /\ key.chunk \in chunks[key.name])
    BY <2>1 DEF ChunkInv
  <2> QED
    BY <1>1, <1>2, <1>3, <2>1, <2>2, KeepsProgress
<1>7. CASE NewEntry(f, key, mail, W)
  <2>1. /\ asked' = asked \union {key}
        /\ DOMAIN pit' \subseteq DOMAIN pit \union {key, Base(key.name)}
        /\ DOMAIN pit \union {key} \subseteq DOMAIN pit'
    BY <1>7 DEF NewEntry, PitAdd
  <2> QED
    BY <1>1, <1>2, <1>3, <1>4, <2>1, KeepsProgress
<1> QED
  BY <1>5, <1>6, <1>7 DEF HandleInterest

\* handleContent keeps it: it asks for no chunk and loses none.
LEMMA ContentProgress ==
    ASSUME TypeOK, ChunkInv, NEW n \in Names, NEW mail \in Seq(Message), HandleContent(n, mail),
           asked' \subseteq asked, \A key \in asked : key.chunk # NoChunk => key \in asked',
           Messages(mail) \subseteq Messages(mailbox),
           \A x \in Messages(mailbox) : x \in Messages(mail) \/ x.key.chunk = NoChunk
    PROVE  ChunkInv'
<1>1. chunks' = chunks /\ store \subseteq store'
  BY DEF HandleContent, DiscardContent, AcceptContent
<1>2. Base(n).chunk = NoChunk
  BY DEF Base
<1>3. DOMAIN pit' \subseteq DOMAIN pit /\ \A key \in DOMAIN pit : key.chunk # NoChunk => key \in DOMAIN pit'
  BY <1>2 DEF HandleContent, DiscardContent, AcceptContent, PitAfter, PitRemove
<1>4. \E ds, F : \E m \in {mail, MailAfter(n, mail)} :
         DeliveryTypes(ds, m, F, waiting) /\ Deliver(ds, m, F, waiting)
  BY ContentParts DEF HandleContent, DiscardContent, AcceptContent
<1>5. /\ Messages(mail) \subseteq Messages(MailAfter(n, mail))
      /\ \A x \in Messages(MailAfter(n, mail)) : x \in Messages(mail) \/ x.kind = "interest"
  BY MailAfterMessages
<1>6. /\ Messages(mail) \subseteq Messages(mailbox')
      /\ \A x \in Messages(mailbox') : x \in Messages(mail) \/ x.kind = "interest" \/ x.key.chunk = NoChunk
  BY <1>4, <1>5, DeliverMail DEF Base
<1>7. \A x \in Messages(mailbox') : x.kind = "content" => x.key.chunk = NoChunk
  <2>1. "interest" # "content"
    OBVIOUS
  <2> QED
    BY <1>6, <2>1 DEF ChunkInv
<1> QED
  BY <1>1, <1>3, <1>6, <1>7, KeepsProgress

\* handleContentChunk keeps it: an incomplete content has its next chunk asked for.
LEMMA ChunkStepProgress ==
    ASSUME TypeOK, ChunkInv, NEW n \in Names, Size[n] > 1, NEW k \in ChunksOf(n),
           asked' = asked \ {[name |-> n, chunk |-> k], Base(n)},
           DiscardChunk(n, k) \/ KeepChunk(n, k) \/ CompleteContent(n, k)
    PROVE  ChunkInv'
<1> DEFINE it == [name |-> n, chunk |-> k]
<1>1. /\ PitType(pit) /\ mailbox \in Seq(Message) /\ DOMAIN chunks \subseteq Names
      /\ it.name = n /\ it.chunk = k /\ Base(n).chunk = NoChunk /\ k # NoChunk
  BY ChunkNumber DEF TypeOK, PitType, Base
<1>2. \A m, j : [name |-> m, chunk |-> j] = it <=> m = n /\ j = k
  OBVIOUS
<1>3. asked' = asked \ {it, Base(n)}
  OBVIOUS
<1>4. CASE DiscardChunk(n, k)
  <2>1. it \notin DOMAIN pit
    BY <1>1, <1>4, PendingType DEF DiscardChunk, ChunkFaces, PitType
  <2>2. it \notin asked
    BY <1>1, <2>1 DEF ChunkInv
  <2>3. /\ pit' = pit /\ store' = store /\ chunks' = chunks
        /\ Deliver({}, mailbox, fetching, waiting) /\ DeliveryTypes({}, mailbox, fetching, waiting)
    BY <1>1, <1>4, ContentParts DEF DiscardChunk
  <2>4. Messages(mailbox') = Messages(mailbox)
    BY <2>3, DeliverMail
  <2> HIDE DEF it
  <2>5. \A key \in asked : key.chunk # NoChunk => key \in asked'
    BY <1>1, <1>3, <2>2
  <2>6. \A x \in Messages(mailbox') : x.kind = "content" => x.key.chunk = NoChunk
    BY <2>4 DEF ChunkInv
  <2> QED
    BY <1>3, <2>3, <2>4, <2>5, <2>6, KeepsProgress
<1>5. CASE KeepChunk(n, k)
  <2> DEFINE missing == FirstMissing(n, WithChunk(n, k)[n])
             ask == Ask([name |-> n, chunk |-> missing], Self)
             mail == Append(mailbox, ask)
  <2>1. /\ WithChunk(n, k)[n] # ChunksOf(n)
        /\ chunks' = WithChunk(n, k) /\ store' = store
        /\ pit' = ChunkEntry(pit, n, k)
        /\ Deliver({}, mail, fetching, waiting)
    BY <1>5 DEF KeepChunk
  <2>2. WithChunk(n, k)[n] \subseteq ChunksOf(n)
    BY DEF WithChunk, TypeOK
  <2>3. missing \in ChunksOf(n) \ WithChunk(n, k)[n]
    BY <2>1, <2>2, FirstMissingIs
  <2>4. ask \in Message /\ ask.key = [name |-> n, chunk |-> missing] /\ ask.kind = "interest"
    <3>1. [name |-> n, chunk |-> missing] \in Keys
      BY <2>3, ChunkIsKey
    <3> QED
      BY <3>1 DEF Ask, Message, Faces
  <2>5. mail \in Seq(Message) /\ Messages(mail) = Messages(mailbox) \union {ask}
    <3> HIDE DEF ask
    <3> QED BY <1>1, <2>4, MessagesOf
  <2>6. DeliveryTypes({}, mail, fetching, waiting)
    <3> HIDE DEF mail
    <3> QED BY <2>5, ContentParts
  <2>7. Messages(mailbox') = Messages(mailbox) \union {ask}
    <3> HIDE DEF mail, ask
    <3> QED BY <2>1, <2>5, <2>6, DeliverMail
  <2>8. DOMAIN pit' = DOMAIN pit \union {it}
    BY <2>1 DEF ChunkEntry, PitAdd
  <2>9. /\ DOMAIN chunks' = DOMAIN chunks \union {n} /\ k \in chunks'[n]
        /\ n \in DOMAIN chunks => chunks'[n] = chunks[n] \union {k}
        /\ \A m \in DOMAIN chunks \ {n} : chunks'[m] = chunks[m]
    BY <2>1 DEF WithChunk
  <2>10. missing \in ChunksOf(n) \ chunks'[n]
    BY <2>1, <2>3
  <2> HIDE DEF missing, ask
  <2>11. \A key \in DOMAIN pit' :
            key.chunk # NoChunk /\ key.name \notin store' =>
               key \in asked' \/ (key.name \in DOMAIN chunks' /\ key.chunk \in chunks'[key.name])
    <3> SUFFICES ASSUME NEW key \in DOMAIN pit', key.chunk # NoChunk, key.name \notin store',
                        key \notin asked'
                 PROVE  key.name \in DOMAIN chunks' /\ key.chunk \in chunks'[key.name]
      OBVIOUS
    <3> HIDE DEF it
    <3>1. CASE key = it
      BY <1>1, <2>9, <3>1
    <3>2. CASE key # it
      <4>1. key \notin asked /\ key \in DOMAIN pit
        BY <1>1, <1>3, <2>8, <3>2
      <4>2. key.name \in DOMAIN chunks /\ key.chunk \in chunks[key.name]
        BY <2>1, <4>1 DEF ChunkInv
      <4> QED
        BY <2>9, <4>2
    <3> QED
      BY <3>1, <3>2
  <2>12. \A key \in asked' : key.chunk # NoChunk => key \in DOMAIN pit'
    <3> HIDE DEF it
    <3> QED BY <1>3, <2>8 DEF ChunkInv
  <2>13. \A x \in Messages(mailbox') : x.kind = "content" => x.key.chunk = NoChunk
    BY <2>4, <2>7 DEF ChunkInv
  <2>14. ASSUME NEW m \in DOMAIN chunks' \ store'
         PROVE  \E j \in ChunksOf(m) \ chunks'[m] :
                   \/ [name |-> m, chunk |-> j] \in asked'
                   \/ \E x \in Messages(mailbox') : x.key = [name |-> m, chunk |-> j]
    <3>1. CASE m = n
      BY <2>4, <2>7, <2>10, <3>1
    <3>2. CASE m # n
      <4>1. m \in DOMAIN chunks \ store /\ m \in Names /\ chunks'[m] = chunks[m]
        BY <1>1, <2>1, <2>9, <3>2
      <4>2. PICK j \in ChunksOf(m) \ chunks[m] :
               [name |-> m, chunk |-> j] \in asked \/ \E x \in Messages(mailbox) : x.key = [name |-> m, chunk |-> j]
        BY <4>1 DEF ChunkInv
      <4>3. [name |-> m, chunk |-> j] # it /\ [name |-> m, chunk |-> j] # Base(n)
        BY <3>2 DEF Base
      <4> QED
        BY <1>3, <2>7, <4>1, <4>2, <4>3
    <3> QED
      BY <3>1, <3>2
  <2> QED
    BY <2>11, <2>12, <2>13, <2>14 DEF ChunkInv
<1>6. CASE CompleteContent(n, k)
  <2>1. /\ store' = store \union {n}
        /\ \A m \in DOMAIN chunks' \ {n} : m \in DOMAIN chunks /\ chunks'[m] = chunks[m]
        /\ \A m \in DOMAIN chunks \ {n} : m \in DOMAIN chunks'
    BY <1>6 DEF CompleteContent, WithChunk
  <2>2. /\ DOMAIN pit' \subseteq DOMAIN pit \union {it}
        /\ \A key \in DOMAIN pit \union {it} : key.chunk # NoChunk => key \in DOMAIN pit'
    BY <1>1, <1>6 DEF CompleteContent, ChunkEntry, PitAdd, PitAfter, PitRemove
  <2>3. \E ds, F : \E m \in {mailbox, MailAfter(n, mailbox)} :
           DeliveryTypes(ds, m, F, waiting) /\ Deliver(ds, m, F, waiting)
    BY <1>1, <1>6, ContentParts DEF CompleteContent
  <2>4. /\ Messages(mailbox) \subseteq Messages(MailAfter(n, mailbox))
        /\ \A x \in Messages(MailAfter(n, mailbox)) : x \in Messages(mailbox) \/ x.kind = "interest"
    BY <1>1, MailAfterMessages
  <2>5. /\ Messages(mailbox) \subseteq Messages(mailbox')
        /\ \A x \in Messages(mailbox') : x \in Messages(mailbox) \/ x.kind = "interest" \/ x.key.chunk = NoChunk
    BY <2>3, <2>4, DeliverMail DEF Base
  <2>6. \A x \in Messages(mailbox') : x.kind = "content" => x.key.chunk = NoChunk
    <3>1. "interest" # "content"
      OBVIOUS
    <3> QED
      BY <2>5, <3>1 DEF ChunkInv
  <2>7. \A key \in DOMAIN pit' :
           key.chunk # NoChunk /\ key.name \notin store' =>
              key \in asked' \/ (key.name \in DOMAIN chunks' /\ key.chunk \in chunks'[key.name])
    <3> SUFFICES ASSUME NEW key \in DOMAIN pit', key.chunk # NoChunk, key.name \notin store',
                        key \notin asked'
                 PROVE  key.name \in DOMAIN chunks' /\ key.chunk \in chunks'[key.name]
      OBVIOUS
    <3>1. key.name # n /\ key.name \notin store
      BY <2>1
    <3>2. key # it /\ key # Base(n)
      BY <3>1 DEF Base
    <3> HIDE DEF it
    <3>3. key \notin asked /\ key \in DOMAIN pit
      BY <1>3, <2>2, <3>2
    <3>4. key.name \in DOMAIN chunks /\ key.chunk \in chunks[key.name]
      BY <3>1, <3>3 DEF ChunkInv
    <3> QED
      BY <2>1, <3>1, <3>4
  <2>8. \A key \in asked' : key.chunk # NoChunk => key \in DOMAIN pit'
    <3> HIDE DEF it
    <3> QED BY <1>3, <2>2 DEF ChunkInv
  <2>9. ASSUME NEW m \in DOMAIN chunks' \ store'
        PROVE  \E j \in ChunksOf(m) \ chunks'[m] :
                  \/ [name |-> m, chunk |-> j] \in asked'
                  \/ \E x \in Messages(mailbox') : x.key = [name |-> m, chunk |-> j]
    <3>1. m # n /\ m \in DOMAIN chunks \ store /\ chunks'[m] = chunks[m]
      BY <2>1
    <3>2. PICK j \in ChunksOf(m) \ chunks[m] :
             [name |-> m, chunk |-> j] \in asked \/ \E x \in Messages(mailbox) : x.key = [name |-> m, chunk |-> j]
      BY <3>1 DEF ChunkInv
    <3>3. [name |-> m, chunk |-> j] # it /\ [name |-> m, chunk |-> j] # Base(n)
      BY <3>1 DEF Base
    <3> QED
      BY <1>3, <2>5, <3>1, <3>2, <3>3
  <2> QED
    BY <2>6, <2>7, <2>8, <2>9 DEF ChunkInv
<1> QED
  BY <1>4, <1>5, <1>6

\* Each step keeps it, when the network loses nothing and no service takes a
\* content from the store.
LEMMA StepProgress ==
    ASSUME Lossy = FALSE, Removable = {}, TypeOK, ChunkInv, [Next]_vars
    PROVE  ChunkInv'
<1>0. mailbox \in Seq(Message) /\ waiting \in SUBSET Request
  BY DEF TypeOK
<1>1. ASSUME NEW c \in Clients, NEW n \in Names, ClientAsks(c, n) \/ ClientRetries(c, n)
      PROVE  ChunkInv'
  <2>1. c \in Faces /\ Base(n) \in Keys
    BY DEF Faces, Keys
  <2>2. waiting \union {[client |-> c, name |-> n]} \in SUBSET Request
    BY <1>0 DEF Request
  <2> QED
    BY <1>0, <1>1, <2>1, <2>2, InterestProgress DEF ClientAsks, ClientRetries
<1>2. ASSUME NEW key \in AskedKeys, NetworkAsks(key)
      PROVE  ChunkInv'
  <2>1. Gateway \in Faces /\ key \in Keys
    BY ServerAssumption DEF Faces
  <2> QED
    BY <1>0, <1>2, <2>1, InterestProgress DEF NetworkAsks
<1>3. ASSUME NEW pkt \in Packets, ReceiveContent(pkt)
      PROVE  ChunkInv'
  <2>1. pkt \in Keys /\ pkt.name \in Names /\ Base(pkt.name).chunk = NoChunk
    BY PacketIsKey, KeyParts DEF Base
  <2>2. asked' = asked \ {pkt, Base(pkt.name)}
    BY <1>3 DEF ReceiveContent
  <2>3. CASE pkt.chunk = NoChunk
    <3>1. HandleContent(pkt.name, mailbox)
      BY <1>3, <2>3 DEF ReceiveContent
    <3>2. asked' \subseteq asked /\ \A key \in asked : key.chunk # NoChunk => key \in asked'
      BY <2>1, <2>2, <2>3
    <3> QED
      BY <1>0, <2>1, <3>1, <3>2, ContentProgress
  <2>4. CASE pkt.chunk # NoChunk
    <3>1. /\ Size[pkt.name] > 1 /\ pkt.chunk \in ChunksOf(pkt.name)
          /\ pkt = [name |-> pkt.name, chunk |-> pkt.chunk]
      BY <2>1, <2>4, KeyParts
    <3>2. DiscardChunk(pkt.name, pkt.chunk) \/ KeepChunk(pkt.name, pkt.chunk) \/ CompleteContent(pkt.name, pkt.chunk)
      BY <1>3, <2>4 DEF ReceiveContent
    <3> QED
      BY <2>1, <2>2, <3>1, <3>2, ChunkStepProgress
  <2> QED
    BY <2>3, <2>4
<1>4. CASE HandleOwnMessage
  <2> DEFINE msg == Head(mailbox)
             rest == Tail(mailbox)
  <2>1. msg \in Message /\ rest \in Seq(Message)
    BY <1>4 DEF HandleOwnMessage, TypeOK
  <2>2. Messages(mailbox) = {msg} \union Messages(rest)
    BY <1>0, <1>4, MessagesOf DEF HandleOwnMessage
  <2>3. msg.face \in Faces /\ msg.key \in Keys /\ msg.key.name \in Names
    BY <2>1, KeyParts DEF Message
  <2>4. \/ HandleInterest(msg.face, msg.key, rest, waiting)
        \/ msg.kind = "content" /\ HandleContent(msg.key.name, rest) /\ asked' = asked
    BY <1>4 DEF HandleOwnMessage
  <2> HIDE DEF msg, rest
  <2>5. msg.kind = "content" => msg.key.chunk = NoChunk
    BY <2>2 DEF ChunkInv
  <2> QED
    BY <1>0, <2>1, <2>2, <2>3, <2>4, <2>5, InterestProgress, ContentProgress
<1>5. ASSUME NEW n \in Redirects, RedirectFetched(n)
      PROVE  ChunkInv'
  <2> DEFINE F == [m \in DOMAIN fetching \ {n} |-> fetching[m]]
             ds == Give(n, fetching[n].faces, Target[n])
  <2>1. /\ n \in DOMAIN fetching /\ pit' = PitRemove(pit, Base(n))
        /\ Deliver(ds, mailbox, F, waiting) /\ UNCHANGED <<store, chunks, asked>>
    BY <1>5 DEF RedirectFetched
  <2>2. n \in Names /\ Target[n] \in Names
    BY ServerAssumption
  <2>3. fetching[n].faces \in SUBSET Faces
    BY <2>1 DEF TypeOK, Fetch
  <2>4. DeliveryTypes(ds, mailbox, F, waiting)
    BY <2>2, <2>3, GiveType DEF DeliveryTypes, TypeOK
  <2> HIDE DEF F, ds
  <2>5. /\ Messages(mailbox) \subseteq Messages(mailbox')
        /\ \A x \in Messages(mailbox') : x \in Messages(mailbox) \/ x.key.chunk = NoChunk
    BY <2>1, <2>4, DeliverMail DEF Base
  <2>6. \A x \in Messages(mailbox') : x.kind = "content" => x.key.chunk = NoChunk
    BY <2>5 DEF ChunkInv
  <2>7. /\ DOMAIN pit' \subseteq DOMAIN pit
        /\ \A key \in DOMAIN pit : key.chunk # NoChunk => key \in DOMAIN pit'
    BY <2>1 DEF PitRemove, Base
  <2> QED
    BY <2>1, <2>5, <2>6, <2>7, KeepsProgress
<1>6. CASE \/ UNCHANGED vars
           \/ \E c \in Clients, n \in Names : ClientGivesUp(c, n)
           \/ \E n \in Names : Publish(n)
           \/ \E n \in Redirects : RedirectTimesOut(n)
  <2>1. UNCHANGED <<pit, chunks, mailbox, asked>> /\ store \subseteq store'
    BY <1>6 DEF vars, ClientGivesUp, Publish, RedirectTimesOut
  <2>2. \A x \in Messages(mailbox') : x.kind = "content" => x.key.chunk = NoChunk
    BY <2>1 DEF ChunkInv
  <2> QED
    BY <2>1, <2>2, KeepsProgress
<1>7. ~(\E key \in Keys : Lose(key)) /\ ~(\E n \in Names : TakeFromCache(n))
  BY DEF Lose, TakeFromCache
<1> QED
  BY <1>1, <1>2, <1>3, <1>4, <1>5, <1>6, <1>7 DEF Next

\* A content some chunks of which are there has one of the missing ones asked of
\* the network or about to be asked, as long as the network loses nothing and no
\* service takes a content from the store while it is in use.
THEOREM ChunksProgress ==
    ASSUME Lossy = FALSE, Removable = {}
    PROVE  Spec => []ChunkProgress
<1>1. Init => ChunkInv
  BY DEF Init, ChunkInv, Messages
<1>2. TypeOK /\ ChunkInv /\ [Next]_vars => ChunkInv'
  BY StepProgress
<1>3. ChunkInv => ChunkProgress
  <2> SUFFICES ASSUME ChunkInv, NEW n \in DOMAIN chunks \ store
               PROVE  \E k \in ChunksOf(n) \ chunks[n] :
                         \/ [name |-> n, chunk |-> k] \in asked
                         \/ \E i \in DOMAIN mailbox : mailbox[i].key = [name |-> n, chunk |-> k]
    BY DEF ChunkProgress
  <2> QED
    BY DEF ChunkInv, Messages
<1> QED
  BY <1>1, <1>2, <1>3, TypeCorrect, PTL DEF Spec

-------------------------------------------------------------------------------
(* The server implements IcnNode                                           *)

\* A server without redirects, in whose store nobody else puts contents or takes
\* them from, which the network asks for whole contents.
PlainServer ==
    /\ Redirects = {} /\ Published = {} /\ Removable = {}
    /\ \A key \in AskedKeys : key.chunk = NoChunk
    /\ Self \notin Outside
    /\ \A m, n \in Names : IsPrefix(m, n) <=> m = n

\* Who waits for a content, apart from the server itself.
Waits(p, n) == Pending(p, Base(n)) \intersect Outside

\* A message of the server to itself that asks for no more than what the PIT p
\* and the store promise.
OwnMessage(x, p) ==
    /\ x.face = Self
    /\ x.kind = "content" => x.key.name \in store
    /\ x.kind = "interest" => /\ x.key.chunk # NoChunk
                              /\ x.key.name \in store \/ Base(x.key.name) \in DOMAIN p

\* The inductive invariant: who waits for a content waits in its entry and only
\* until it is stored; what the server asks itself is a chunk of a content
\* somebody waits for, or of one that is stored; what is incomplete is not stored.
NodeInv ==
    /\ \A n \in Names : n \notin store /\ Base(n) \in DOMAIN pit => Waits(pit, n) # {}
    /\ \A n \in store : Waits(pit, n) = {}
    /\ \A key \in DOMAIN pit : key.chunk # NoChunk /\ key.name \notin store => Base(key.name) \in DOMAIN pit
    /\ \A x \in Messages(mailbox) : OwnMessage(x, pit)
    /\ \A n \in DOMAIN chunks \ store : chunks[n] # ChunksOf(n)

\* The requests a PIT stands for, and the data a step gives to the outside.
Requests(p) == {r \in [client : Outside, name : Names] : r.client \in Pending(p, Base(r.name))}
Given(ds) == {[to |-> d.to, pkt |-> [name |-> d.what]] : d \in {x \in ds : x.to # Self}}

\* A step that loses requests and contents and gives nothing to the outside.
LEMMA ServerForgets ==
    ASSUME Requests(pit') \subseteq Requests(pit), store' \subseteq store, Given(out') = {}
    PROVE  Node!NodeNext
<1>1. Node!Forget
  BY DEF Node!Forget, Requests, Given
<1> QED
  BY <1>1 DEF Node!NodeNext

\* The contents that satisfy a request are those of its name.
LEMMA ServerSatisfies ==
    ASSUME PlainServer, NEW m \in Names, NEW n \in Names, NEW r, r.name = m
    PROVE  Node!Satisfies([name |-> n], r) <=> m = n
BY DEF PlainServer, Node!Satisfies, Node!IsPrefix, IsPrefix

\* A step that answers a request from the store.
LEMMA ServerAnswers ==
    ASSUME PlainServer, NEW x \in Outside, NEW n \in Names, n \in store,
           Given(out') = {[to |-> x, pkt |-> [name |-> n]]},
           Requests(pit') = Requests(pit), store' = store
    PROVE  Node!NodeNext
<1>1. /\ [name |-> n] \in [name : store]
      /\ Node!Satisfies([name |-> n], [client |-> x, name |-> n])
  BY ServerSatisfies
<1>2. Node!AnswerAtOnce(x, n)
  BY <1>1 DEF Node!AnswerAtOnce, Requests, Given
<1> QED
  BY <1>2 DEF Node!NodeNext

\* A step that keeps a request.
LEMMA ServerKeeps ==
    ASSUME PlainServer, store \subseteq Names, NEW x \in Outside, NEW n \in Names, n \notin store,
           Given(out') = {}, store' = store,
           Requests(pit') = Requests(pit) \union {[client |-> x, name |-> n]}
    PROVE  Node!NodeNext
<1>1. \A c \in [name : store] : ~Node!Satisfies(c, [client |-> x, name |-> n])
  <2> SUFFICES ASSUME NEW c \in [name : store] PROVE ~Node!Satisfies(c, [client |-> x, name |-> n])
    OBVIOUS
  <2>1. c = [name |-> c.name] /\ c.name \in Names /\ c.name # n
    OBVIOUS
  <2>2. [client |-> x, name |-> n].name = n
    OBVIOUS
  <2> QED
    BY <2>1, <2>2, ServerSatisfies
<1>2. Node!Ask(x, n)
  BY <1>1 DEF Node!Ask, Requests, Given
<1> QED
  BY <1>2 DEF Node!NodeNext

\* A step that serves a content.
LEMMA ServerServes ==
    ASSUME PlainServer, NEW n \in Names, n \notin store, store' = store \union {n},
           NEW served, served = {r \in Requests(pit) : r.name = n}, served # {},
           Given(out') = {[to |-> r.client, pkt |-> [name |-> n]] : r \in served},
           Requests(pit') = Requests(pit) \ served
    PROVE  Node!NodeNext
<1> DEFINE c == [name |-> n]
<1>1. served = {r \in Requests(pit) : Node!Satisfies(c, r)}
  <2>1. \A r \in Requests(pit) : r.name = n <=> Node!Satisfies(c, r)
    BY ServerSatisfies DEF Requests
  <2> QED
    BY <2>1
<1>2. c \in [name : Names] /\ c \notin [name : store]
  OBVIOUS
<1>3. [name : store'] \subseteq [name : store] \union {c} /\ c \in [name : store']
  OBVIOUS
<1>4. [name : store]' = [name : store']
  OBVIOUS
<1> HIDE DEF c
<1>5. Given(out') = {[to |-> r.client, pkt |-> c] : r \in served}
  BY DEF c
<1>6. Node!Arrive(c)
  BY <1>1, <1>2, <1>3, <1>4, <1>5 DEF Node!Arrive, Requests, Given
<1> QED
  BY <1>2, <1>6 DEF Node!NodeNext

\* A step that changes the entries of chunks and of stored contents only keeps
\* the invariant and the requests.
LEMMA RequestsStay ==
    ASSUME NodeInv, store' = store,
           store \subseteq Names, \A m \in Names : Waits(pit', m) = Waits(pit, m),
           \A key \in DOMAIN pit : key.name \notin store => key \in DOMAIN pit',
           \A m \in Names \ store : Base(m) \in DOMAIN pit' => Base(m) \in DOMAIN pit,
           \A key \in DOMAIN pit' : \/ key \in DOMAIN pit
                                    \/ key.chunk = NoChunk
                                    \/ key.name \in store
                                    \/ Base(key.name) \in DOMAIN pit,
           \A x \in Messages(mailbox') : x \in Messages(mailbox) \/ OwnMessage(x, pit),
           \A n \in DOMAIN chunks' \ store : chunks'[n] # ChunksOf(n)
    PROVE  NodeInv' /\ Requests(pit') = Requests(pit)
<1>0. \A n : Base(n).name = n
  BY DEF Base
<1>1. \A n \in Names : n \notin store' /\ Base(n) \in DOMAIN pit' => Waits(pit', n) # {}
  BY DEF NodeInv
<1>3. \A n \in store' : Waits(pit', n) = {}
  BY DEF NodeInv
<1>4. \A key \in DOMAIN pit' : key.chunk # NoChunk /\ key.name \notin store' => Base(key.name) \in DOMAIN pit'
  BY <1>0 DEF NodeInv
<1>5. ASSUME NEW x \in Messages(mailbox')
      PROVE  OwnMessage(x, pit)'
  <2>1. OwnMessage(x, pit)
    BY <1>5 DEF NodeInv
  <2> QED
    BY <1>0, <2>1 DEF OwnMessage
<1>6. \A n \in DOMAIN chunks' \ store' : chunks'[n] # ChunksOf(n)
  OBVIOUS
<1>7. NodeInv'
  BY <1>1, <1>3, <1>4, <1>5, <1>6 DEF NodeInv
<1>8. Requests(pit') = Requests(pit)
  <2>1. \A r \in [client : Outside, name : Names] :
           r.client \in Pending(pit', Base(r.name)) <=> r.client \in Pending(pit, Base(r.name))
    BY DEF Waits
  <2> QED
    BY <2>1 DEF Requests
<1> QED
  BY <1>7, <1>8

\* handleInterest, called for somebody else's interest.
LEMMA OthersInterest ==
    ASSUME PlainServer, TypeOK, NodeInv, NEW f \in Outside, NEW n \in Names, NEW W \in SUBSET Request,
           HandleInterest(f, Base(n), mailbox, W)
    PROVE  Node!NodeNext /\ NodeInv'
<1>1. /\ mailbox \in Seq(Message) /\ store \subseteq Names /\ f \in Faces /\ f # Self
      /\ Base(n).name = n /\ Base(n).chunk = NoChunk /\ \A m : Base(m) = Base(n) => m = n
  BY DEF TypeOK, PlainServer, Outside, Faces, Base
<1>2. DeliveryTypes({}, mailbox, fetching, W) /\ DeliveryTypes(Give(n, {f}, n), mailbox, fetching, W)
  <2>1. {f} \in SUBSET Faces /\ n \in Names
    BY <1>1
  <2>2. Give(n, {f}, n) \subseteq Delivery /\ \A d, e \in Give(n, {f}, n) : d.what = e.what
    BY <2>1 DEF Give, Delivery
  <2>3. DeliveryTypes({}, mailbox, fetching, W)
    BY <1>1 DEF DeliveryTypes, TypeOK
  <2> QED
    BY <2>2, <2>3 DEF DeliveryTypes
<1>3. CASE n \in store
  <2>1. /\ Deliver(Give(n, {f}, n), mailbox, fetching, W)
        /\ UNCHANGED <<pit, store, chunks>>
    BY <1>1, <1>3 DEF HandleInterest, AnswerFromStore, JoinEntry, NewEntry, InStore
  <2>2. Given(out') = {[to |-> f, pkt |-> [name |-> n]]}
    <3> DEFINE d == [to |-> f, for |-> n, what |-> n]
    <3>1. out' = {d}
      BY <2>1 DEF Deliver, Give
    <3>2. d.to = f /\ d.what = n
      OBVIOUS
    <3> HIDE DEF d
    <3>3. {x \in out' : x.to # Self} = {d}
      BY <1>1, <3>1, <3>2
    <3> QED
      BY <3>2, <3>3 DEF Given
  <2>3. \A x \in Messages(mailbox') : x \in Messages(mailbox)
    BY <1>1, <1>2, <2>1, DeliverMail DEF Give
  <2>4. NodeInv'
    BY <1>1, <2>1, <2>3, RequestsStay DEF NodeInv
  <2> QED
    BY <1>3, <2>1, <2>2, <2>4, ServerAnswers
<1>4. CASE n \notin store
  <2>1. /\ Deliver({}, mailbox, fetching, W)
        /\ pit' = PitAdd(pit, Base(n), {f})
        /\ UNCHANGED <<store, chunks>>
    BY <1>1, <1>4 DEF HandleInterest, AnswerFromStore, JoinEntry, NewEntry, InStore
  <2>2. Given(out') = {}
    BY <2>1 DEF Deliver, Given
  <2>3. \A x \in Messages(mailbox') : x \in Messages(mailbox)
    BY <1>2, <2>1, DeliverMail
  <2>4. DOMAIN pit' = DOMAIN pit \union {Base(n)}
    BY <2>1 DEF PitAdd
  <2>5. \A m : Pending(pit', Base(m)) = IF m = n THEN Pending(pit, Base(n)) \union {f} ELSE Pending(pit, Base(m))
    <3> SUFFICES ASSUME NEW m
                 PROVE  Pending(pit', Base(m)) = IF m = n THEN Pending(pit, Base(n)) \union {f} ELSE Pending(pit, Base(m))
      OBVIOUS
    <3>1. Base(m) = Base(n) <=> m = n
      BY BaseInjective
    <3> QED
      BY <2>1, <3>1, PendingAdd
  <2>6. Requests(pit') = Requests(pit) \union {[client |-> f, name |-> n]}
    <3>1. [client |-> f, name |-> n] \in [client : Outside, name : Names]
      OBVIOUS
    <3>2. ASSUME NEW r \in [client : Outside, name : Names]
          PROVE  r.client \in Pending(pit', Base(r.name)) <=>
                    r.client \in Pending(pit, Base(r.name)) \/ r = [client |-> f, name |-> n]
      <4>1. r = [client |-> f, name |-> n] <=> r.client = f /\ r.name = n
        OBVIOUS
      <4> QED
        BY <2>5, <4>1
    <3> QED
      BY <3>1, <3>2 DEF Requests
  <2>7. NodeInv'
    <3>1. \A m \in Names : m \notin store' /\ Base(m) \in DOMAIN pit' => Waits(pit', m) # {}
      BY <1>1, <2>1, <2>4, <2>5 DEF NodeInv, Waits
    <3>2. \A m \in store' : Waits(pit', m) = {}
      BY <1>4, <2>1, <2>5 DEF NodeInv, Waits
    <3>3. \A key \in DOMAIN pit' : key.chunk # NoChunk /\ key.name \notin store' => Base(key.name) \in DOMAIN pit'
      BY <1>1, <2>1, <2>4 DEF NodeInv
    <3>4. \A x \in Messages(mailbox') : OwnMessage(x, pit)'
      BY <2>1, <2>3, <2>4 DEF NodeInv, OwnMessage
    <3>5. \A m \in DOMAIN chunks' \ store' : chunks'[m] # ChunksOf(m)
      BY <2>1 DEF NodeInv
    <3> QED
      BY <3>1, <3>2, <3>3, <3>4, <3>5 DEF NodeInv
  <2> QED
    BY <1>1, <1>4, <2>1, <2>2, <2>6, <2>7, ServerKeeps
<1> QED
  BY <1>3, <1>4

\* handleInterest, called for the server's own interest, for a chunk.
LEMMA OwnInterest ==
    ASSUME PlainServer, TypeOK, NodeInv, NEW key \in Keys, key.chunk # NoChunk,
           key.name \in store \/ Base(key.name) \in DOMAIN pit,
           NEW mail \in Seq(Message), Messages(mail) \subseteq Messages(mailbox),
           HandleInterest(Self, key, mail, waiting)
    PROVE  Node!NodeNext /\ NodeInv'
<1> DEFINE n == key.name
<1>1. /\ n \in Names /\ store \subseteq Names /\ Self \in Faces /\ Self \notin Outside /\ key # Base(n)
      /\ Base(n).name = n /\ Base(n).chunk = NoChunk /\ \A m : Base(m) = Base(n) => m = n
      /\ \A m : Base(m) # key
  BY KeyParts DEF TypeOK, PlainServer, Faces, Base
<1>2. DeliveryTypes({}, mail, fetching, waiting) /\ DeliveryTypes(Give(n, {Self}, n), mail, fetching, waiting)
  <2> HIDE DEF n
  <2>1. {Self} \in SUBSET Faces /\ n \in Names
    BY <1>1
  <2>2. Give(n, {Self}, n) \subseteq Delivery /\ \A d, e \in Give(n, {Self}, n) : d.what = e.what
    BY <2>1 DEF Give, Delivery
  <2>3. /\ fetching \in [DOMAIN fetching -> Fetch] /\ DOMAIN fetching \subseteq Redirects
        /\ waiting \subseteq Request
    BY DEF TypeOK
  <2>4. DeliveryTypes({}, mail, fetching, waiting)
    BY <2>3 DEF DeliveryTypes
  <2>5. DeliveryTypes(Give(n, {Self}, n), mail, fetching, waiting)
    BY <2>2, <2>3 DEF DeliveryTypes
  <2> QED
    BY <2>4, <2>5
<1>3. UNCHANGED <<store, chunks>>
  BY DEF HandleInterest, AnswerFromStore, JoinEntry, NewEntry
<1>4. CASE AnswerFromStore(Self, key, mail, waiting)
  <2>1. Deliver(Give(n, {Self}, n), mail, fetching, waiting) /\ pit' = pit
    BY <1>4 DEF AnswerFromStore
  <2>2. n \in store
    BY <1>4 DEF AnswerFromStore, InStore, NodeInv
  <2>3. Given(out') = {}
    BY <2>1 DEF Deliver, Give, Given
  <2>4. ASSUME NEW x \in Messages(mailbox'), x \notin Messages(mailbox)
        PROVE  OwnMessage(x, pit)
    <3>1. x = [kind |-> "content", key |-> Base(n), face |-> Self]
      BY <1>2, <2>1, <2>4, DeliverMail DEF Give
    <3> QED
      BY <1>1, <2>2, <3>1 DEF OwnMessage
  <2>5. NodeInv' /\ Requests(pit') = Requests(pit)
    BY <1>1, <1>3, <2>1, <2>4, RequestsStay DEF NodeInv
  <2> QED
    BY <1>3, <2>3, <2>5, ServerForgets
<1>5. CASE JoinEntry(Self, key, mail, waiting) \/ NewEntry(Self, key, mail, waiting)
  <2>1. Deliver({}, mail, fetching, waiting)
    BY <1>5 DEF JoinEntry, NewEntry
  <2>2. \/ pit' = PitAdd(pit, key, {Self}) /\ key \in DOMAIN pit
        \/ pit' = PitAdd(PitAdd(pit, key, {Self}), Base(n), {Self})
    BY <1>5 DEF JoinEntry, NewEntry
  <2>3. Given(out') = {}
    BY <2>1 DEF Deliver, Given
  <2>4. \A x \in Messages(mailbox') : x \in Messages(mailbox)
    BY <1>2, <2>1, DeliverMail
  <2>5. DOMAIN pit \subseteq DOMAIN pit' /\ DOMAIN pit' \subseteq DOMAIN pit \union {key, Base(n)}
    BY <2>2 DEF PitAdd
  <2>6. \A m : Waits(pit', m) = Waits(pit, m)
    <3>1. \A m : Pending(pit', Base(m)) \in {Pending(pit, Base(m)), Pending(pit, Base(m)) \union {Self}}
      BY <1>1, <2>2, PendingAdd
    <3> QED
      BY <1>1, <3>1 DEF Waits
  <2>7. NodeInv' /\ Requests(pit') = Requests(pit)
    <3> HIDE DEF n
    <3>1. key.name = n
      BY DEF n
    <3>2. \A m \in Names \ store : Base(m) \in DOMAIN pit' => Base(m) \in DOMAIN pit
      BY <1>1, <2>5, <3>1
    <3>3. \A k \in DOMAIN pit' : k \in DOMAIN pit \/ k.chunk = NoChunk \/ k.name \in store \/ Base(k.name) \in DOMAIN pit
      BY <1>1, <2>5, <3>1
    <3>4. \A m \in DOMAIN chunks' \ store : chunks'[m] # ChunksOf(m)
      BY <1>3 DEF NodeInv
    <3> QED
      BY <1>1, <1>3, <2>4, <2>5, <2>6, <3>2, <3>3, <3>4, RequestsStay
  <2> QED
    BY <1>3, <2>3, <2>7, ServerForgets
<1> QED
  BY <1>4, <1>5 DEF HandleInterest

\* A step that stores a content and gives it to all who wait for it.
LEMMA ContentServes ==
    ASSUME PlainServer, TypeOK, NodeInv, NEW n \in Names, n \notin store, Base(n) \in DOMAIN pit,
           store' = store \union {n}, out' = Give(n, Pending(pit, Base(n)), n),
           \A x \in Messages(mailbox') :
              x \in Messages(mailbox) \/ x = [kind |-> "content", key |-> Base(n), face |-> Self],
           \A m \in Names : Pending(pit', Base(m)) = IF m = n THEN {} ELSE Pending(pit, Base(m)),
           \A m \in Names \ {n} : Base(m) \in DOMAIN pit' <=> Base(m) \in DOMAIN pit,
           \A key \in DOMAIN pit' : key \in DOMAIN pit \/ key.name = n,
           \A m \in DOMAIN chunks' \ {n} : m \in DOMAIN chunks /\ chunks'[m] = chunks[m]
    PROVE  Node!NodeNext /\ NodeInv'
<1> DEFINE served == {r \in Requests(pit) : r.name = n}
<1>1. /\ store \subseteq Names /\ PitType(pit) /\ Base(n).name = n
      /\ \A key \in DOMAIN pit : key.name \in Names
  BY KeyParts DEF TypeOK, PitType, Base
<1>2. NodeInv'
  <2>1. \A m \in Names : m \notin store' /\ Base(m) \in DOMAIN pit' => Waits(pit', m) # {}
    BY DEF NodeInv, Waits
  <2>2. \A m \in store' : Waits(pit', m) = {}
    BY <1>1 DEF NodeInv, Waits
  <2>3. ASSUME NEW key \in DOMAIN pit', key.chunk # NoChunk, key.name \notin store'
        PROVE  Base(key.name) \in DOMAIN pit'
    <3>1. key \in DOMAIN pit /\ key.name # n /\ key.name \in Names
      BY <1>1, <2>3
    <3> QED
      BY <2>3, <3>1 DEF NodeInv
  <2>4. ASSUME NEW x \in Messages(mailbox')
        PROVE  OwnMessage(x, pit)'
    <3>1. CASE x = [kind |-> "content", key |-> Base(n), face |-> Self]
      BY <1>1, <3>1 DEF OwnMessage
    <3>2. CASE x \in Messages(mailbox)
      <4>1. OwnMessage(x, pit)
        BY <3>2 DEF NodeInv
      <4>2. Base(x.key.name) \in DOMAIN pit => x.key.name \in Names
        BY <1>1 DEF Base
      <4>3. Base(x.key.name) \in DOMAIN pit => x.key.name = n \/ Base(x.key.name) \in DOMAIN pit'
        BY <4>2
      <4> QED
        BY <4>1, <4>3 DEF OwnMessage
    <3> QED
      BY <3>1, <3>2
  <2>5. \A m \in DOMAIN chunks' \ store' : chunks'[m] # ChunksOf(m)
    BY DEF NodeInv
  <2> QED
    BY <2>1, <2>2, <2>3, <2>4, <2>5 DEF NodeInv
<1>3. served # {}
  <2>1. PICK c \in Outside : c \in Pending(pit, Base(n))
    BY DEF NodeInv, Waits
  <2> DEFINE r == [client |-> c, name |-> n]
  <2>2. r \in [client : Outside, name : Names] /\ r.client = c /\ r.name = n
    BY <2>1
  <2> HIDE DEF r
  <2>3. r \in Requests(pit)
    BY <2>1, <2>2 DEF Requests
  <2> QED
    BY <2>2, <2>3
<1>4. Requests(pit') = Requests(pit) \ served
  BY DEF Requests
<1>5. Given(out') = {[to |-> r.client, pkt |-> [name |-> n]] : r \in served}
  <2>1. ASSUME NEW x \in Given(out')
        PROVE  \E r \in served : x = [to |-> r.client, pkt |-> [name |-> n]]
    <3>0. PICK d \in out' : d.to # Self /\ x = [to |-> d.to, pkt |-> [name |-> d.what]]
      BY ONLY <2>1 DEF Given
    <3>1. d.to \in Pending(pit, Base(n)) /\ d.what = n
      BY DEF Give
    <3>2. d.to \in Outside
      <4>1. Pending(pit, Base(n)) \in SUBSET Faces
        BY <1>1, PendingType
      <4> QED
        BY <3>0, <3>1, <4>1 DEF PlainServer, Faces, Outside
    <3>3. [client |-> d.to, name |-> n] \in served
      BY <3>1, <3>2 DEF Requests
    <3> HIDE DEF served
    <3> QED
      BY <3>0, <3>1, <3>3
  <2>2. \A r \in served : [to |-> r.client, pkt |-> [name |-> n]] \in Given(out')
    <3> SUFFICES ASSUME NEW r \in served
                 PROVE  [to |-> r.client, pkt |-> [name |-> n]] \in Given(out')
      OBVIOUS
    <3>1. r.client \in Pending(pit, Base(n)) /\ r.client # Self
      BY DEF Requests, PlainServer
    <3> DEFINE d == [to |-> r.client, for |-> n, what |-> n]
    <3>2. d \in out'
      BY <3>1 DEF Give
    <3>3. d.to = r.client /\ d.what = n
      OBVIOUS
    <3> HIDE DEF d
    <3> QED
      BY <3>1, <3>2, <3>3 DEF Given
  <2> QED
    BY <2>1, <2>2
<1> HIDE DEF served
<1>6. Node!NodeNext
  BY <1>3, <1>4, <1>5, ServerServes DEF served
<1> QED
  BY <1>2, <1>6

\* What a redirect would change, without redirects.
LEMMA NoRedirects ==
    ASSUME PlainServer, NEW n, NEW mail
    PROVE  /\ PitAfter(n) = PitRemove(pit, Base(n)) /\ MailAfter(n, mail) = mail
           /\ Answers(n) = Give(n, Pending(pit, Base(n)), n) /\ FetchesAfter(n) = fetching
BY DEF PlainServer, PitAfter, MailAfter, Answers, FetchesAfter

\* A content that is stored already reaches only the server itself.
LEMMA StoredReachesSelf ==
    ASSUME PlainServer, TypeOK, NodeInv, NEW n \in store
    PROVE  /\ Pending(pit, Base(n)) \subseteq {Self}
           /\ \A m \in Names : Waits(PitRemove(pit, Base(n)), m) = Waits(pit, m)
<1>1. /\ Pending(pit, Base(n)) \in SUBSET Faces
      /\ Waits(pit, n) = {} /\ n \in Names
  BY PendingType DEF TypeOK, PitType, NodeInv
<1>2. Pending(pit, Base(n)) \subseteq {Self}
  BY <1>1 DEF Waits, Faces, Outside, PlainServer
<1>3. ASSUME NEW m \in Names
      PROVE  Waits(PitRemove(pit, Base(n)), m) = Waits(pit, m)
  <2>1. Base(m) = Base(n) <=> m = n
    BY BaseInjective
  <2> QED
    BY <1>1, <2>1, PendingRemove DEF Waits
<1> QED
  BY <1>2, <1>3

\* handleContent, called for a content of others, or for one the server gave
\* itself, which is stored.
LEMMA ContentImplements ==
    ASSUME PlainServer, TypeOK, NodeInv, NEW n \in Names, NEW mail \in Seq(Message),
           Messages(mail) \subseteq Messages(mailbox), HandleContent(n, mail)
    PROVE  Node!NodeNext /\ NodeInv'
<1>1. /\ store \subseteq Names /\ chunks' = chunks /\ Base(n).name = n
      /\ PitType(pit) /\ Self \in Faces /\ \A m : Base(m) = Base(n) => m = n
  BY DEF TypeOK, PitType, HandleContent, DiscardContent, AcceptContent, Faces, Base
<1>2. /\ DeliveryTypes({}, mail, fetching, waiting)
      /\ DeliveryTypes(Give(n, Pending(pit, Base(n)), n), mail, fetching, waiting)
  BY ContentParts, NoRedirects
<1>3. CASE DiscardContent(n, mail)
  <2>1. Deliver({}, mail, fetching, waiting) /\ pit' = pit /\ store' = store
    BY <1>3 DEF DiscardContent
  <2>2. \A x \in Messages(mailbox') : x \in Messages(mailbox)
    BY <1>2, <2>1, DeliverMail
  <2>3. Given(out') = {}
    BY <2>1 DEF Deliver, Given
  <2>4. NodeInv' /\ Requests(pit') = Requests(pit)
    BY <1>1, <2>1, <2>2, RequestsStay DEF NodeInv
  <2> QED
    BY <2>1, <2>3, <2>4, ServerForgets
<1>4. CASE AcceptContent(n, mail)
  <2>1. /\ Base(n) \in DOMAIN pit /\ store' = store \union {n} /\ pit' = PitRemove(pit, Base(n))
        /\ Deliver(Give(n, Pending(pit, Base(n)), n), mail, fetching, waiting)
    BY <1>4, NoRedirects DEF AcceptContent, IsPending
  <2>2. out' = Give(n, Pending(pit, Base(n)), n)
    BY <2>1 DEF Deliver
  <2>3. \A x \in Messages(mailbox') :
           x \in Messages(mailbox) \/ x = [kind |-> "content", key |-> Base(n), face |-> Self]
    BY <1>2, <2>1, DeliverMail DEF Give
  <2>4. DOMAIN pit' = DOMAIN pit \ {Base(n)}
    BY <2>1 DEF PitRemove
  <2>5. CASE n \in store
    <3>1. Given(out') = {}
      BY <2>2, <2>5, StoredReachesSelf DEF Given, Give
    <3>2. \A x \in Messages(mailbox') : x \in Messages(mailbox) \/ OwnMessage(x, pit)
      BY <1>1, <2>3, <2>5 DEF OwnMessage
    <3>3. store' = store /\ \A m \in Names : Waits(pit', m) = Waits(pit, m)
      BY <2>1, <2>5, StoredReachesSelf
    <3>4. NodeInv' /\ Requests(pit') = Requests(pit)
      BY <1>1, <2>4, <2>5, <3>2, <3>3, RequestsStay DEF NodeInv
    <3> QED
      BY <3>1, <3>3, <3>4, ServerForgets
  <2>6. CASE n \notin store
    <3>1. \A m \in Names : Pending(pit', Base(m)) = IF m = n THEN {} ELSE Pending(pit, Base(m))
      <4> SUFFICES ASSUME NEW m \in Names
                   PROVE  Pending(pit', Base(m)) = IF m = n THEN {} ELSE Pending(pit, Base(m))
        OBVIOUS
      <4>1. Base(m) = Base(n) <=> m = n
        BY BaseInjective
      <4> QED
        BY <2>1, <4>1, PendingRemove
    <3>2. \A m \in Names \ {n} : Base(m) \in DOMAIN pit' <=> Base(m) \in DOMAIN pit
      BY <1>1, <2>4
    <3> QED
      BY <1>1, <2>1, <2>2, <2>3, <2>4, <2>6, <3>1, <3>2, ContentServes
  <2> QED
    BY <2>5, <2>6
<1> QED
  BY <1>3, <1>4 DEF HandleContent

\* handleContentChunk.
LEMMA ChunkImplements ==
    ASSUME PlainServer, TypeOK, NodeInv, NEW n \in Names, Size[n] > 1, NEW k \in ChunksOf(n),
           DiscardChunk(n, k) \/ KeepChunk(n, k) \/ CompleteContent(n, k)
    PROVE  Node!NodeNext /\ NodeInv'
<1> DEFINE it == [name |-> n, chunk |-> k]
<1>1. /\ store \subseteq Names /\ Base(n).name = n /\ mailbox \in Seq(Message) /\ PitType(pit)
      /\ it.name = n /\ it.chunk = k /\ k # NoChunk /\ \A m : Base(m) # it
  BY ChunkNumber DEF TypeOK, PitType, Base
<1>2. /\ DeliveryTypes({}, mailbox, fetching, waiting)
      /\ DeliveryTypes(Give(n, Pending(pit, Base(n)), n), mailbox, fetching, waiting)
  BY <1>1, ContentParts, NoRedirects
<1>3. n \notin store /\ ChunkFaces(n, k) # {} => Base(n) \in DOMAIN pit
  BY <1>1 DEF ChunkFaces, NodeInv, Pending
<1>4. ASSUME NEW p
      PROVE  /\ DOMAIN ChunkEntry(p, n, k) = DOMAIN p \union {it}
             /\ \A m : Pending(ChunkEntry(p, n, k), Base(m)) = Pending(p, Base(m))
  <2>1. DOMAIN ChunkEntry(p, n, k) = DOMAIN p \union {it}
    BY DEF ChunkEntry, PitAdd
  <2>2. \A m : Pending(ChunkEntry(p, n, k), Base(m)) = Pending(p, Base(m))
    BY <1>1, PendingAdd DEF ChunkEntry
  <2> QED
    BY <2>1, <2>2
<1> HIDE DEF it
<1>5. CASE DiscardChunk(n, k)
  <2>1. Deliver({}, mailbox, fetching, waiting) /\ pit' = pit /\ store' = store /\ chunks' = chunks
    BY <1>5 DEF DiscardChunk
  <2>2. \A x \in Messages(mailbox') : x \in Messages(mailbox)
    BY <1>2, <2>1, DeliverMail
  <2>3. Given(out') = {}
    BY <2>1 DEF Deliver, Given
  <2>4. NodeInv' /\ Requests(pit') = Requests(pit)
    BY <1>1, <2>1, <2>2, RequestsStay DEF NodeInv
  <2> QED
    BY <2>1, <2>3, <2>4, ServerForgets
<1>6. CASE KeepChunk(n, k)
  <2> DEFINE missing == FirstMissing(n, WithChunk(n, k)[n])
             ask == Ask([name |-> n, chunk |-> missing], Self)
             mail == Append(mailbox, ask)
  <2>1. /\ WithChunk(n, k)[n] # ChunksOf(n) /\ Base(n) \in DOMAIN pit
        /\ chunks' = WithChunk(n, k) /\ store' = store
        /\ pit' = ChunkEntry(pit, n, k)
        /\ Deliver({}, mail, fetching, waiting)
    BY <1>3, <1>6 DEF KeepChunk
  <2>2. WithChunk(n, k)[n] \subseteq ChunksOf(n)
    BY DEF WithChunk, TypeOK
  <2>3. missing \in ChunksOf(n)
    BY <2>1, <2>2, FirstMissingIs
  <2>4. ask \in Message /\ OwnMessage(ask, pit)
    <3>1. [name |-> n, chunk |-> missing] \in Keys /\ missing # NoChunk
      BY <2>3, ChunkIsKey, ChunkNumber
    <3> HIDE DEF missing
    <3> QED
      BY <2>1, <3>1 DEF Ask, Message, Faces, OwnMessage
  <2> HIDE DEF ask
  <2>5. mail \in Seq(Message) /\ Messages(mail) = Messages(mailbox) \union {ask}
    BY <1>1, <2>4, MessagesOf
  <2> HIDE DEF mail
  <2>6. DeliveryTypes({}, mail, fetching, waiting)
    BY <2>5, ContentParts
  <2>7. \A x \in Messages(mailbox') : x \in Messages(mailbox) \/ OwnMessage(x, pit)
    BY <2>1, <2>4, <2>5, <2>6, DeliverMail
  <2>8. Given(out') = {}
    BY <2>1 DEF Deliver, Given
  <2>9. \A m \in DOMAIN chunks' \ store : chunks'[m] # ChunksOf(m)
    BY <2>1 DEF NodeInv, WithChunk
  <2>10. \A m \in Names : Waits(pit', m) = Waits(pit, m)
    BY <1>4, <2>1 DEF Waits
  <2>11. DOMAIN pit' = DOMAIN pit \union {it}
    BY <1>4, <2>1
  <2>12. NodeInv' /\ Requests(pit') = Requests(pit)
    BY <1>1, <2>1, <2>7, <2>9, <2>10, <2>11, RequestsStay
  <2> QED
    BY <2>1, <2>8, <2>12, ServerForgets
<1>7. CASE CompleteContent(n, k)
  <2>1. /\ store' = store \union {n} /\ ChunkFaces(n, k) # {}
        /\ \A m \in DOMAIN chunks' \ {n} : m \in DOMAIN chunks /\ chunks'[m] = chunks[m]
    BY <1>7 DEF CompleteContent, WithChunk
  <2>2. CASE n \in store
    <3>1. \/ /\ pit' = ChunkEntry(PitRemove(pit, Base(n)), n, k)
             /\ Deliver(Give(n, Pending(pit, Base(n)), n), mailbox, fetching, waiting)
          \/ pit' = ChunkEntry(pit, n, k) /\ Deliver({}, mailbox, fetching, waiting)
      BY <1>7, NoRedirects DEF CompleteContent
    <3>2. Given(out') = {}
      <4>1. Pending(pit, Base(n)) \subseteq {Self}
        BY <2>2, StoredReachesSelf
      <4>2. out' = Give(n, Pending(pit, Base(n)), n) \/ out' = {}
        BY <3>1 DEF Deliver
      <4>3. \A d \in out' : d.to = Self
        BY <4>1, <4>2 DEF Give
      <4> QED
        BY <4>3 DEF Given
    <3>3. \A x \in Messages(mailbox') :
             x \in Messages(mailbox) \/ x = [kind |-> "content", key |-> Base(n), face |-> Self]
      BY <1>2, <3>1, DeliverMail DEF Give
    <3>4. \A x \in Messages(mailbox') : x \in Messages(mailbox) \/ OwnMessage(x, pit)
      BY <1>1, <2>2, <3>3 DEF OwnMessage
    <3>5. \A m \in Names : Waits(pit', m) = Waits(pit, m)
      <4> SUFFICES ASSUME NEW m \in Names
                   PROVE  Waits(pit', m) = Waits(pit, m)
        OBVIOUS
      <4>1. \A p : Waits(ChunkEntry(p, n, k), m) = Waits(p, m)
        BY <1>4 DEF Waits
      <4>2. Waits(PitRemove(pit, Base(n)), m) = Waits(pit, m)
        BY <2>2, StoredReachesSelf
      <4>3. pit' = ChunkEntry(PitRemove(pit, Base(n)), n, k) \/ pit' = ChunkEntry(pit, n, k)
        BY <3>1
      <4> QED
        BY <4>1, <4>2, <4>3
    <3>6. DOMAIN pit' \subseteq DOMAIN pit \union {it} /\ DOMAIN pit \ {Base(n)} \subseteq DOMAIN pit'
      BY <1>4, <3>1 DEF PitRemove
    <3>7. \A m \in DOMAIN chunks' \ store : chunks'[m] # ChunksOf(m)
      BY <2>1, <2>2 DEF NodeInv
    <3>8. NodeInv' /\ Requests(pit') = Requests(pit)
      BY <1>1, <2>1, <2>2, <3>4, <3>5, <3>6, <3>7, RequestsStay
    <3> QED
      BY <2>1, <2>2, <3>2, <3>8, ServerForgets
  <2>3. CASE n \notin store
    <3>1. /\ Base(n) \in DOMAIN pit
          /\ pit' = ChunkEntry(PitRemove(pit, Base(n)), n, k)
          /\ Deliver(Give(n, Pending(pit, Base(n)), n), mailbox, fetching, waiting)
      BY <1>3, <1>7, <2>1, <2>3, NoRedirects DEF CompleteContent, IsPending
    <3>2. out' = Give(n, Pending(pit, Base(n)), n)
      BY <3>1 DEF Deliver
    <3>3. \A x \in Messages(mailbox') :
             x \in Messages(mailbox) \/ x = [kind |-> "content", key |-> Base(n), face |-> Self]
      BY <1>2, <3>1, DeliverMail DEF Give
    <3>4. DOMAIN pit' = (DOMAIN pit \ {Base(n)}) \union {it}
      BY <1>4, <3>1 DEF PitRemove
    <3>5. ASSUME NEW m \in Names
          PROVE  /\ Pending(pit', Base(m)) = IF m = n THEN {} ELSE Pending(pit, Base(m))
                 /\ m # n => (Base(m) \in DOMAIN pit' <=> Base(m) \in DOMAIN pit)
      <4>1. Base(m) = Base(n) <=> m = n
        BY BaseInjective
      <4>2. Pending(pit', Base(m)) = Pending(PitRemove(pit, Base(n)), Base(m))
        BY <1>4, <3>1
      <4>3. Pending(pit', Base(m)) = IF m = n THEN {} ELSE Pending(pit, Base(m))
        BY <4>1, <4>2, PendingRemove
      <4> QED
        BY <1>1, <3>4, <4>1, <4>3
    <3>6. \A key \in DOMAIN pit' : key \in DOMAIN pit \/ key.name = n
      BY <1>1, <3>4
    <3> QED
      BY <2>1, <2>3, <3>1, <3>2, <3>3, <3>5, <3>6, ContentServes
  <2> QED
    BY <2>2, <2>3
<1> QED
  BY <1>5, <1>6, <1>7

\* Each step is one of a node.
LEMMA StepImplements ==
    ASSUME PlainServer, TypeOK, NodeInv, Next
    PROVE  Node!NodeNext /\ NodeInv'
<1>0. mailbox \in Seq(Message) /\ waiting \in SUBSET Request /\ store \subseteq Names
  BY DEF TypeOK
<1>1. ASSUME NEW c \in Clients, NEW n \in Names, ClientAsks(c, n) \/ ClientRetries(c, n)
      PROVE  Node!NodeNext /\ NodeInv'
  <2>1. c \in Outside /\ waiting \union {[client |-> c, name |-> n]} \in SUBSET Request
    BY <1>0 DEF Outside, Request
  <2> QED
    BY <1>0, <1>1, <2>1, OthersInterest DEF ClientAsks, ClientRetries
<1>2. ASSUME NEW key \in AskedKeys, NetworkAsks(key)
      PROVE  Node!NodeNext /\ NodeInv'
  <2>1. Gateway \in Outside /\ key.name \in Names /\ key = Base(key.name)
    BY ServerAssumption, KeyParts DEF Outside, PlainServer
  <2> QED
    BY <1>0, <1>2, <2>1, OthersInterest DEF NetworkAsks
<1>3. ASSUME NEW pkt \in Packets, ReceiveContent(pkt)
      PROVE  Node!NodeNext /\ NodeInv'
  <2>1. /\ pkt.name \in Names
        /\ pkt.chunk # NoChunk => Size[pkt.name] > 1 /\ pkt.chunk \in ChunksOf(pkt.name)
    BY PacketIsKey, KeyParts
  <2> QED
    BY <1>0, <1>3, <2>1, ContentImplements, ChunkImplements DEF ReceiveContent
<1>4. CASE HandleOwnMessage
  <2> DEFINE msg == Head(mailbox)
             rest == Tail(mailbox)
  <2>1. msg \in Message /\ rest \in Seq(Message)
    BY <1>4 DEF HandleOwnMessage, TypeOK
  <2>2. Messages(mailbox) = {msg} \union Messages(rest)
    BY <1>0, <1>4, MessagesOf DEF HandleOwnMessage
  <2>3. msg.key \in Keys /\ msg.key.name \in Names
    BY <2>1, KeyParts DEF Message
  <2>4. \/ msg.kind = "interest" /\ HandleInterest(msg.face, msg.key, rest, waiting)
        \/ HandleContent(msg.key.name, rest)
    BY <1>4 DEF HandleOwnMessage
  <2> HIDE DEF msg, rest
  <2>5. OwnMessage(msg, pit)
    BY <2>2 DEF NodeInv
  <2>6. CASE HandleContent(msg.key.name, rest)
    BY <2>1, <2>2, <2>3, <2>6, ContentImplements
  <2>7. CASE msg.kind = "interest" /\ HandleInterest(msg.face, msg.key, rest, waiting)
    BY <2>1, <2>2, <2>3, <2>5, <2>7, OwnInterest DEF OwnMessage
  <2> QED
    BY <2>4, <2>6, <2>7
<1>5. CASE (\E c \in Clients, n \in Names : ClientGivesUp(c, n)) \/ \E key \in Keys : Lose(key)
  <2>1. UNCHANGED <<pit, store, chunks, mailbox>> /\ out' = {}
    BY <1>5 DEF ClientGivesUp, Lose
  <2>2. NodeInv' /\ Requests(pit') = Requests(pit)
    BY <1>0, <2>1, RequestsStay DEF NodeInv
  <2> QED
    BY <2>1, <2>2, ServerForgets DEF Given
<1>6. /\ ~ \E n \in Names : Publish(n) \/ TakeFromCache(n)
      /\ ~ \E n \in Redirects : RedirectFetched(n) \/ RedirectTimesOut(n)
  BY DEF PlainServer, Publish, TakeFromCache
<1> QED
  BY <1>1, <1>2, <1>3, <1>4, <1>5, <1>6 DEF Next

\* The promise to the clients: without redirects and without services that
\* change the store, a request is answered from the store, kept, or served when
\* the content or the last of its chunks comes in, and nothing else happens to it.
THEOREM ServerImplementsNode ==
    ASSUME PlainServer
    PROVE  Spec => Contract
<1>1. Init => NodeInv
  BY DEF Init, NodeInv, Messages
<1>2. Init => Node!NodeInit
  BY DEF Init, Node!NodeInit, Pending
<1>3. TypeOK /\ NodeInv /\ [Next]_vars => NodeInv' /\ [Node!NodeNext]_(Node!nodeVars)
  <2> SUFFICES ASSUME TypeOK, NodeInv, [Next]_vars
               PROVE  NodeInv' /\ [Node!NodeNext]_(Node!nodeVars)
    OBVIOUS
  <2>1. CASE UNCHANGED vars
    <3>1. UNCHANGED <<pit, store, chunks, mailbox, out>>
      BY <2>1 DEF vars
    <3>2. NodeInv'
      BY <3>1, RequestsStay DEF NodeInv, TypeOK
    <3> QED
      BY <3>1, <3>2 DEF Node!nodeVars
  <2>2. CASE Next
    BY <2>2, StepImplements
  <2> QED
    BY <2>1, <2>2
<1> QED
  BY <1>1, <1>2, <1>3, TypeCorrect, PTL DEF Spec, Contract, Node!NodeSpec
===============================================================================
