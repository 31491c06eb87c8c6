---------------------------- MODULE CcnlRelayProofs ----------------------------
(* Theorems about CcnlRelay, for every value of its constants.             *)
EXTENDS CcnlRelay, SequenceTheorems, TLAPS

-------------------------------------------------------------------------------
(* The operators on tables return tables                                   *)

\* A table of the relay: its keys are positive, its rows have the row type.
Table(t, Row) == t \in [DOMAIN t -> Row] /\ DOMAIN t \subseteq FaceIds

\* Ageing keeps an age within its timeout.
LEMMA OlderType ==
    ASSUME NEW limit \in Nat, NEW a \in 0 .. limit
    PROVE  Older(a, limit) \in 0 .. limit
BY DEF Older

\* Attributing a packet to a face yields a face list.
LEMMA TouchFaceType ==
    ASSUME NEW t, Table(t, Face), NEW p \in Peers, NEW f \in FaceIds
    PROVE  /\ Table(TouchFace(t, p, f), Face)
           /\ DOMAIN TouchFace(t, p, f) = DOMAIN t \union {f}
BY TablesAssumption DEF Table, TouchFace, NewFace, Face

\* ccnl_face_remove leaves a PIT.
LEMMA PitWithoutFacesType ==
    ASSUME NEW t, Table(t, Interest), NEW gone
    PROVE  /\ Table(PitWithoutFaces(t, gone), Interest)
           /\ DOMAIN PitWithoutFaces(t, gone) \subseteq DOMAIN t
<1>1. CASE gone = {}
  BY <1>1 DEF PitWithoutFaces
<1>2. CASE gone # {}
  <2> DEFINE kept == {j \in DOMAIN t : t[j].pending \ gone # {}}
             row(k) == [t[k] EXCEPT !.pending = @ \ gone,
                                    !.from = IF @ \in gone THEN NoFace ELSE @]
  <2>1. ASSUME NEW k \in kept
        PROVE  row(k) \in Interest
    <3>1. t[k] \in Interest
      BY <2>1 DEF Table
    <3> QED
      BY <3>1 DEF Interest
  <2>2. PitWithoutFaces(t, gone) = [k \in kept |-> row(k)]
    BY <1>2 DEF PitWithoutFaces
  <2> HIDE DEF row
  <2>3. kept \subseteq DOMAIN t /\ DOMAIN t \subseteq FaceIds
    BY DEF Table
  <2> QED
    BY <2>1, <2>2, <2>3 DEF Table
<1> QED
  BY <1>1, <1>2

\* Removing faces from the list leaves a face list.
LEMMA FacesWithoutType ==
    ASSUME NEW t, Table(t, Face), NEW gone
    PROVE  /\ Table(FacesWithout(t, gone), Face)
           /\ DOMAIN FacesWithout(t, gone) = DOMAIN t \ gone
BY DEF Table, FacesWithout

\* A new interest makes the PIT longer by its stamp.
LEMMA NewInterestType ==
    ASSUME NEW t, Table(t, Interest), NEW k \in FaceIds, NEW pkt \in Interests,
           NEW from \in FaceIds, NEW S \in SUBSET FaceIds
    PROVE  /\ Table(NewInterest(t, k, pkt, from, S), Interest)
           /\ DOMAIN NewInterest(t, k, pkt, from, S) = DOMAIN t \union {k}
BY TablesAssumption DEF Table, NewInterest, Interest

\* Joining an entry leaves a PIT with the same stamps.
LEMMA AppendPendingType ==
    ASSUME NEW t, Table(t, Interest), NEW k \in DOMAIN t, NEW f \in FaceIds
    PROVE  /\ Table(AppendPending(t, k, f), Interest)
           /\ DOMAIN AppendPending(t, k, f) = DOMAIN t
BY DEF Table, AppendPending, Interest

\* Ageing leaves a PIT, without the entries given up.
LEMMA AgedPitType ==
    ASSUME NEW t, Table(t, Interest)
    PROVE  /\ Table(AgedPit(t), Interest)
           /\ DOMAIN AgedPit(t) \subseteq DOMAIN t
<1> DEFINE kept == {j \in DOMAIN t : ~GivenUp(t[j])}
           row(k) == [t[k] EXCEPT !.age = Older(@, InterestTimeout), !.retries = @ + 1]
<1>1. ASSUME NEW k \in kept
      PROVE  row(k) \in Interest
  <2>1. t[k] \in Interest
    BY DEF Table
  <2>2. Older(t[k].age, InterestTimeout) \in 0 .. InterestTimeout
    BY <2>1, OlderType, TablesAssumption DEF Interest
  <2>3. t[k].retries \in 0 .. MaxRetransmit /\ t[k].retries < MaxRetransmit
    BY <2>1, TablesAssumption DEF Interest, GivenUp
  <2>4. t[k].retries + 1 \in 0 .. MaxRetransmit
    BY <2>3, TablesAssumption
  <2> QED
    BY <2>1, <2>2, <2>4 DEF Interest
<1>2. AgedPit(t) = [k \in kept |-> row(k)]
  BY DEF AgedPit
<1> HIDE DEF row
<1> QED
  BY <1>1, <1>2 DEF Table

\* Ageing leaves a face list with the same faces.
LEMMA AgedFacesType ==
    ASSUME NEW t, Table(t, Face)
    PROVE  /\ Table(AgedFaces(t), Face)
           /\ DOMAIN AgedFaces(t) = DOMAIN t
<1> DEFINE row(f) == [t[f] EXCEPT !.age = Older(@, FaceTimeout)]
<1>1. ASSUME NEW f \in DOMAIN t
      PROVE  row(f) \in Face
  <2>1. t[f] \in Face
    BY DEF Table
  <2>2. Older(t[f].age, FaceTimeout) \in 0 .. FaceTimeout
    BY <2>1, OlderType, TablesAssumption DEF Face
  <2> QED
    BY <2>1, <2>2 DEF Face
<1>2. AgedFaces(t) = [f \in DOMAIN t |-> row(f)]
  BY DEF AgedFaces
<1> HIDE DEF row
<1> QED
  BY <1>1, <1>2 DEF Table

\* A content store: its keys are contents, its rows have the type of an entry.
Store(t) == t \in [DOMAIN t -> Content] /\ DOMAIN t \subseteq Contents

\* Ageing leaves a content store, without the contents that timed out.
LEMMA AgedCsType ==
    ASSUME NEW t, Store(t)
    PROVE  Store(AgedCs(t)) /\ DOMAIN AgedCs(t) \subseteq DOMAIN t
<1> DEFINE old(c) == Older(t[c].age, ContentTimeout)
           kept == {d \in DOMAIN t : t[d].static \/ old(d) < ContentTimeout}
           row(c) == [t[c] EXCEPT !.age = old(c)]
<1>1. ASSUME NEW c \in kept
      PROVE  row(c) \in Content
  <2>1. t[c] \in Content
    BY DEF Store
  <2>2. Older(t[c].age, ContentTimeout) \in 0 .. ContentTimeout
    BY <2>1, OlderType, TablesAssumption DEF Content
  <2> QED
    BY <2>1, <2>2 DEF Content
<1>2. AgedCs(t) = [c \in kept |-> row(c)]
  BY DEF AgedCs
<1> HIDE DEF row
<1> QED
  BY <1>1, <1>2 DEF Store

\* Removing contents leaves a content store.
LEMMA CsWithoutType ==
    ASSUME NEW t, Store(t), NEW gone
    PROVE  Store(CsWithout(t, gone)) /\ DOMAIN CsWithout(t, gone) = DOMAIN t \ gone
BY DEF Store, CsWithout

\* ccnl_content_add2cache adds at most the content it is given.
LEMMA AddToCacheType ==
    ASSUME NEW t, Store(t), NEW c \in Contents, NEW b \in BOOLEAN, NEW s \in AddToCache(t, c, b)
    PROVE  Store(s) /\ DOMAIN s \subseteq DOMAIN t \union {c}
<1>1. PICK r \in MakeRoom(t) : s = Link(r, c, b)
  BY DEF AddToCache
<1>2. Store(r) /\ DOMAIN r \subseteq DOMAIN t
  <2>1. CASE r = t
    BY <2>1
  <2>2. CASE \E v \in Evictable(t) : r = CsWithout(t, {v})
    <3>1. PICK v \in Evictable(t) : r = CsWithout(t, {v})
      BY <2>2
    <3>2. Store(CsWithout(t, {v})) /\ DOMAIN CsWithout(t, {v}) = DOMAIN t \ {v}
      BY CsWithoutType
    <3> QED
      BY <3>1, <3>2
  <2> QED
    BY <2>1, <2>2 DEF MakeRoom
<1>3. [age |-> 0, static |-> b] \in Content
  BY TablesAssumption DEF Content
<1> QED
  BY <1>1, <1>2, <1>3 DEF Store, Link

\* The list of nonces stays within CCNL_MAX_NONCES.
LEMMA AppendNonceType ==
    ASSUME NEW q \in Seq(Nonces), Len(q) <= MaxNonces, NEW n \in Nonces \union {NoNonce}
    PROVE  AppendNonce(q, n) \in Seq(Nonces) /\ Len(AppendNonce(q, n)) <= MaxNonces
<1>1. CASE n = NoNonce
  BY <1>1 DEF AppendNonce
<1>2. CASE n # NoNonce /\ Len(q) < MaxNonces
  BY <1>2, TablesAssumption DEF AppendNonce
<1>3. CASE n # NoNonce /\ ~(Len(q) < MaxNonces)
  <2>1. Len(q) = MaxNonces
    BY <1>3, TablesAssumption
  <2>2. SubSeq(q, 1, MaxNonces - 1) \in Seq(Nonces) /\ Len(SubSeq(q, 1, MaxNonces - 1)) = MaxNonces - 1
    BY <2>1, TablesAssumption, SubSeqProperties
  <2> QED
    BY <1>3, <2>2, TablesAssumption DEF AppendNonce
<1> QED
  BY <1>1, <1>2, <1>3

\* What goes to the sockets are transmissions.
LEMMA PropagateType ==
    ASSUME NEW t, NEW F \in SUBSET Forward, NEW i \in Interest
    PROVE  Propagate(t, F, i) \subseteq Transmission
BY DEF Propagate, NextHops, Forward, Interest, Transmit, Transmission

\* Sending a packet to faces is a set of transmissions.
LEMMA TransmitType ==
    ASSUME NEW pkt \in Interests \union Contents, NEW S \in SUBSET FaceIds
    PROVE  Transmit(pkt, S) \subseteq Transmission
BY DEF Transmit, Transmission

-------------------------------------------------------------------------------
(* Type correctness                                                        *)

\* The tables of a relay in a state of the right type.
LEMMA TablesOfTypeOK ==
    ASSUME TypeOK
    PROVE  Table(faces, Face) /\ Table(pit, Interest) /\ Store(cs)
BY RelayAssumption DEF TypeOK, Table, Store, FaceIds

\* Whatever packet came in, the face list after its attribution is one.
LEMMA ReceiveType ==
    ASSUME TypeOK, NEW p \in Peers, NEW f \in ModelFaceIds, Receive(p, f)
    PROVE  /\ Table(arrived(p, f), Face)
           /\ DOMAIN arrived(p, f) = DOMAIN faces \union {f}
           /\ lastId(f) \in 0 .. MaxFaceId
           /\ DOMAIN arrived(p, f) \subseteq 1 .. lastId(f)
           /\ seqno <= lastId(f)
<1>1. f \in FaceIds /\ f \in 1 .. MaxFaceId
  BY RelayAssumption DEF ModelFaceIds, FaceIds
<1>2. /\ Table(arrived(p, f), Face)
      /\ DOMAIN arrived(p, f) = DOMAIN faces \union {f}
  BY <1>1, TablesOfTypeOK, TouchFaceType DEF arrived
<1>3. seqno \in 0 .. MaxFaceId /\ DOMAIN faces \subseteq 1 .. seqno
  BY DEF TypeOK
<1>4. lastId(f) \in 0 .. MaxFaceId /\ f <= lastId(f) /\ seqno <= lastId(f)
  BY <1>1, <1>3, RelayAssumption DEF lastId
<1> QED
  BY <1>1, <1>2, <1>3, <1>4, RelayAssumption

\* ... so the handlers that only read it keep the face list well-typed.
LEMMA ReceiveOnlyType ==
    ASSUME TypeOK, NEW p \in Peers, NEW f \in ModelFaceIds, ReceiveOnly(p, f)
    PROVE  /\ Receive(p, f)
           /\ seqno' \in 0 .. MaxFaceId
           /\ faces' \in [DOMAIN faces' -> Face]
           /\ DOMAIN faces' \subseteq 1 .. seqno'
           /\ DOMAIN faces' = DOMAIN faces \union {f}
BY ReceiveType DEF ReceiveOnly, Table

\* The interest handler keeps the types.
LEMMA InterestType ==
    ASSUME TypeOK, NEW p \in Peers, NEW f \in ModelFaceIds, HandleInterest(p, f)
    PROVE  TypeOK'
<1> f \in FaceIds /\ {f} \in SUBSET FaceIds
  BY RelayAssumption DEF ModelFaceIds, FaceIds
<1>1. PICK i \in Interests :
         \/ DropDuplicate(p, f, i)
         \/ ReplyFromCache(p, f, i)
         \/ \E scope \in Scopes :
               \/ RejectScope(p, f, i, scope)
               \/ \E k \in ModelStamps : NewPending(p, f, i, k, scope)
               \/ \E k \in ModelStamps : JoinPending(p, f, i, k, scope)
  BY DEF HandleInterest
<1>2. CASE DropDuplicate(p, f, i)
  BY <1>2, ReceiveOnlyType DEF DropDuplicate, TypeOK
<1>3. ASSUME FreshInterest(p, f, i)
      PROVE  nonces' \in Seq(Nonces) /\ Len(nonces') <= MaxNonces
  <2>1. i.nonce \in Nonces \union {NoNonce}
    BY DEF Interests
  <2> QED
    BY <1>3, <2>1, AppendNonceType DEF FreshInterest, TypeOK
<1>4. CASE ReplyFromCache(p, f, i)
  <2>1. FreshInterest(p, f, i) /\ ReceiveOnly(p, f)
    BY <1>4 DEF ReplyFromCache, FreshInterest
  <2>2. sent' \subseteq Transmission
    BY <1>4, TransmitType DEF ReplyFromCache, TypeOK
  <2> QED
    BY <1>4, <2>1, <2>2, <1>3, ReceiveOnlyType DEF ReplyFromCache, TypeOK
<1>5. ASSUME NEW scope \in Scopes, RejectScope(p, f, i, scope)
      PROVE  TypeOK'
  <2>1. FreshInterest(p, f, i) /\ ReceiveOnly(p, f)
    BY <1>5 DEF RejectScope, NotInCache, FreshInterest
  <2> QED
    BY <1>5, <2>1, <1>3, ReceiveOnlyType DEF RejectScope, NotInCache, TypeOK
<1>6. ASSUME NEW scope \in Scopes, NEW k \in ModelStamps, NewPending(p, f, i, k, scope)
      PROVE  TypeOK'
  <2>1. FreshInterest(p, f, i) /\ ReceiveOnly(p, f) /\ UNCHANGED <<fib, cs>>
    BY <1>6 DEF NewPending, NotInCache, FreshInterest
  <2>2. k \in FaceIds /\ k \in 1 .. MaxPit
    BY RelayAssumption DEF ModelStamps, FaceIds
  <2>3. Table(pit', Interest) /\ DOMAIN pit' = DOMAIN pit \union {k}
    BY <1>6, <2>2, TablesOfTypeOK, NewInterestType DEF NewPending
  <2>4. pit'[k] \in Interest
    BY <2>3 DEF Table
  <2>5. sent' \subseteq Transmission
    BY <1>6, <2>4, PropagateType DEF NewPending, TypeOK
  <2> QED
    BY <2>1, <2>2, <2>3, <2>5, <1>3, ReceiveOnlyType DEF Table, TypeOK
<1>7. ASSUME NEW scope \in Scopes, NEW k \in ModelStamps, JoinPending(p, f, i, k, scope)
      PROVE  TypeOK'
  <2>1. FreshInterest(p, f, i) /\ ReceiveOnly(p, f) /\ UNCHANGED <<fib, cs>>
    BY <1>7 DEF JoinPending, NotInCache, FreshInterest
  <2>2. k \in DOMAIN pit
    BY <1>7 DEF JoinPending, SameInterest
  <2>3. Table(pit', Interest) /\ DOMAIN pit' = DOMAIN pit
    BY <1>7, <2>2, TablesOfTypeOK, AppendPendingType DEF JoinPending
  <2>4. pit'[k] \in Interest
    BY <2>2, <2>3 DEF Table
  <2>5. sent' \subseteq Transmission
    BY <1>7, <2>4, PropagateType DEF JoinPending, TypeOK
  <2> QED
    BY <2>1, <2>3, <2>5, <1>3, ReceiveOnlyType DEF Table, TypeOK
<1> QED
  BY <1>1, <1>2, <1>4, <1>5, <1>6, <1>7

\* The content handler keeps the types.
LEMMA ContentType ==
    ASSUME TypeOK, NEW p \in Peers, NEW f \in ModelFaceIds, HandleContent(p, f)
    PROVE  TypeOK'
<1>1. PICK c \in Contents : \/ DropStateUpdate(p, f, c)
                            \/ IgnoreContent(p, f, c)
                            \/ ServeContent(p, f, c)
  BY DEF HandleContent
<1>2. CASE DropStateUpdate(p, f, c)
  BY <1>2, ReceiveOnlyType DEF DropStateUpdate, TypeOK
<1>3. CASE IgnoreContent(p, f, c)
  BY <1>3, ReceiveOnlyType DEF IgnoreContent, TypeOK
<1>4. CASE ServeContent(p, f, c)
  <2>1. ReceiveOnly(p, f) /\ UNCHANGED <<fib, nonces>>
    BY <1>4 DEF ServeContent
  <2>2. pit' \in [DOMAIN pit' -> Interest] /\ DOMAIN pit' \subseteq 1 .. MaxPit
    BY <1>4 DEF ServeContent, ServedPit, TypeOK
  <2>3. ServedFaces(pit, c) \in SUBSET FaceIds
    BY DEF ServedFaces, Visited, Waiting, TypeOK, Interest
  <2>4. sent' \subseteq Transmission
    BY <1>4, <2>3, TransmitType DEF ServeContent
  <2>5. cs' \in [DOMAIN cs' -> Content] /\ DOMAIN cs' \subseteq Contents
    <3>1. CASE MaxCacheEntries = 0
      BY <1>4, <3>1 DEF ServeContent, TypeOK
    <3>2. CASE MaxCacheEntries # 0
      <4>1. cs' \in AddToCache(cs, c, Hooks(pit, c) # {})
        BY <1>4, <3>2 DEF ServeContent
      <4>2. Store(cs') /\ DOMAIN cs' \subseteq DOMAIN cs \union {c}
        BY <4>1, TablesOfTypeOK, AddToCacheType
      <4> QED
        BY <4>2 DEF Store
    <3> QED
      BY <3>1, <3>2
  <2> QED
    BY <2>1, <2>2, <2>4, <2>5, ReceiveOnlyType DEF TypeOK
<1> QED
  BY <1>1, <1>2, <1>3, <1>4

\* The management commands keep the types.
LEMMA MgmtType ==
    ASSUME TypeOK, NEW p \in LocalPeers, NEW f \in ModelFaceIds, HandleMgmt(p, f)
    PROVE  TypeOK'
<1> p \in Peers /\ f \in FaceIds /\ {f} \in SUBSET FaceIds /\ {} \in SUBSET FaceIds
  BY RelayAssumption DEF ModelFaceIds, FaceIds
<1>1. ASSUME NEW q \in Peers, NEW flags \in NewFaceFlags, MgmtNewFace(p, f, q, flags)
      PROVE  TypeOK'
  <2> DEFINE g == lastId(f) + 1
             new == [peer |-> q, age |-> 0, flags |-> flags]
  <2>1. /\ Receive(p, f) /\ g <= MaxFaceId /\ seqno' = g /\ sent' = {}
        /\ faces' = [h \in DOMAIN arrived(p, f) \union {g} |->
                        IF h = g THEN new ELSE arrived(p, f)[h]]
        /\ UNCHANGED <<fib, pit, cs, nonces>>
    BY <1>1 DEF MgmtNewFace
  <2>2. new \in Face
    BY RelayAssumption, TablesAssumption DEF Face
  <2>3. /\ arrived(p, f) \in [DOMAIN arrived(p, f) -> Face]
        /\ lastId(f) \in 0 .. MaxFaceId
        /\ DOMAIN arrived(p, f) \subseteq 1 .. lastId(f)
    BY <2>1, ReceiveType DEF Table
  <2>4. g \in 0 .. MaxFaceId /\ DOMAIN arrived(p, f) \union {g} \subseteq 1 .. g
    BY <2>1, <2>3, RelayAssumption
  <2> HIDE DEF new, g
  <2>5. faces' \in [DOMAIN faces' -> Face] /\ DOMAIN faces' = DOMAIN arrived(p, f) \union {g}
    BY <2>1, <2>2, <2>3
  <2> QED
    BY <2>1, <2>4, <2>5 DEF TypeOK
<1>2. ASSUME NEW g \in ModelFaceIds, MgmtDestroyFace(p, f, g)
      PROVE  TypeOK'
  <2> DEFINE gone == {g} \intersect DOMAIN arrived(p, f)
  <2>1. /\ Receive(p, f) /\ seqno' = lastId(f) /\ sent' = {}
        /\ faces' = FacesWithout(arrived(p, f), gone)
        /\ pit' = PitWithoutFaces(pit, gone)
        /\ fib' = FibWithoutFaces(fib, gone)
        /\ UNCHANGED <<cs, nonces>>
    BY <1>2 DEF MgmtDestroyFace
  <2>2. Table(faces', Face) /\ DOMAIN faces' \subseteq 1 .. seqno' /\ seqno' \in 0 .. MaxFaceId
    <3>1. /\ Table(arrived(p, f), Face)
          /\ DOMAIN arrived(p, f) \subseteq 1 .. lastId(f)
          /\ lastId(f) \in 0 .. MaxFaceId
      BY <2>1, ReceiveType
    <3> HIDE DEF gone
    <3>2. /\ Table(FacesWithout(arrived(p, f), gone), Face)
          /\ DOMAIN FacesWithout(arrived(p, f), gone) = DOMAIN arrived(p, f) \ gone
      BY <3>1, FacesWithoutType
    <3> QED
      BY <2>1, <3>1, <3>2
  <2>3. Table(pit', Interest) /\ DOMAIN pit' \subseteq 1 .. MaxPit
    BY <2>1, TablesOfTypeOK, PitWithoutFacesType DEF TypeOK
  <2>4. fib' \subseteq Forward
    BY <2>1 DEF FibWithoutFaces, TypeOK
  <2> QED
    BY <2>1, <2>2, <2>3, <2>4 DEF Table, TypeOK
<1>3. ASSUME NEW n \in Names, NEW g \in ModelFaceIds, MgmtPrefixReg(p, f, n, g)
      PROVE  TypeOK'
  <2>1. fib' \subseteq Forward
    BY <1>3, RelayAssumption DEF MgmtPrefixReg, Forward, TypeOK, ModelFaceIds, FaceIds
  <2> QED
    BY <1>3, <2>1, ReceiveOnlyType DEF MgmtPrefixReg, TypeOK
<1>4. ASSUME NEW n \in Names, MgmtRemoveCacheObject(p, f, n)
      PROVE  TypeOK'
  <2>1. \A c : Store(CsWithout(cs, {c}))
    BY TablesOfTypeOK, CsWithoutType
  <2>2. cs' = cs \/ \E c : cs' = CsWithout(cs, {c})
    BY <1>4 DEF MgmtRemoveCacheObject
  <2>3. Store(cs')
    BY <2>1, <2>2, TablesOfTypeOK
  <2> QED
    BY <1>4, <2>3, ReceiveOnlyType DEF MgmtRemoveCacheObject, Store, TypeOK
<1>5. ASSUME NEW n \in Names, NEW k \in ModelStamps, MgmtAddCacheObject(p, f, n, k)
      PROVE  TypeOK'
  <2> DEFINE ask == [name |-> n, nonce |-> NoNonce]
  <2>1. ask \in Interests /\ k \in FaceIds /\ k \in 1 .. MaxPit
    BY RelayAssumption DEF Interests, ModelStamps, FaceIds
  <2>2. /\ ReceiveOnly(p, f) /\ pit' = NewInterest(pit, k, ask, f, {})
        /\ sent' = Transmit(ask, {f}) /\ UNCHANGED <<fib, cs, nonces>>
    BY <1>5 DEF MgmtAddCacheObject
  <2> HIDE DEF ask
  <2>3. Table(pit', Interest) /\ DOMAIN pit' = DOMAIN pit \union {k}
    BY <2>1, <2>2, TablesOfTypeOK, NewInterestType
  <2>4. sent' \subseteq Transmission
    BY <2>1, <2>2, TransmitType
  <2> QED
    BY <2>1, <2>2, <2>3, <2>4, ReceiveOnlyType DEF Table, TypeOK
<1> QED
  BY <1>1, <1>2, <1>3, <1>4, <1>5 DEF HandleMgmt

\* Ageing keeps the types.
LEMMA AgeingType ==
    ASSUME TypeOK, Ageing
    PROVE  TypeOK'
<1> DEFINE aged == AgedFaces(faces)
           gone == ExpiredFaces(aged)
           kept == AgedPit(pit)
<1>1. /\ cs' = AgedCs(cs)
      /\ sent' = UNION {Propagate(faces, fib, kept[k]) : k \in DOMAIN kept}
      /\ pit' = PitWithoutFaces(kept, gone)
      /\ fib' = FibWithoutFaces(fib, gone)
      /\ faces' = FacesWithout(aged, gone)
      /\ UNCHANGED <<seqno, nonces>>
  BY DEF Ageing
<1>2. Table(aged, Face) /\ DOMAIN aged = DOMAIN faces
  BY TablesOfTypeOK, AgedFacesType
<1>3. Table(kept, Interest) /\ DOMAIN kept \subseteq DOMAIN pit
  BY TablesOfTypeOK, AgedPitType
<1>4. Store(cs')
  BY <1>1, TablesOfTypeOK, AgedCsType
<1> HIDE DEF aged, gone, kept
<1>5. Table(faces', Face) /\ DOMAIN faces' \subseteq DOMAIN faces
  <2>1. /\ Table(FacesWithout(aged, gone), Face)
        /\ DOMAIN FacesWithout(aged, gone) = DOMAIN aged \ gone
    BY <1>2, FacesWithoutType
  <2> QED
    BY <1>1, <1>2, <2>1
<1>6. Table(pit', Interest) /\ DOMAIN pit' \subseteq DOMAIN pit
  BY <1>1, <1>3, PitWithoutFacesType
<1>7. \A k \in DOMAIN kept : Propagate(faces, fib, kept[k]) \subseteq Transmission
  BY <1>3, PropagateType DEF Table, TypeOK
<1>8. fib' \subseteq Forward
  BY <1>1 DEF FibWithoutFaces, TypeOK
<1> QED
  BY <1>1, <1>4, <1>5, <1>6, <1>7, <1>8 DEF Table, Store, TypeOK

\* The empty relay is well-typed, with or without a content read from disk.
LEMMA InitType == Init => TypeOK
<1> SUFFICES ASSUME Init PROVE TypeOK
  OBVIOUS
<1>1. PICK D \in {{}} \union {{c} : c \in Contents} :
         cs = [c \in D |-> [age |-> 0, static |-> TRUE]]
  BY DEF Init
<1>2. cs \in [DOMAIN cs -> Content] /\ DOMAIN cs \subseteq Contents
  BY <1>1, TablesAssumption DEF Content
<1>3. << >> \in Seq(Nonces) /\ Len(<< >>) <= MaxNonces
  BY TablesAssumption
<1> QED
  BY <1>2, <1>3, RelayAssumption DEF Init, TypeOK

\* Every step of the event loop keeps the types.
LEMMA StepType == TypeOK /\ [Next]_vars => TypeOK'
<1> SUFFICES ASSUME TypeOK, [Next]_vars PROVE TypeOK'
  OBVIOUS
<1>1. CASE UNCHANGED vars
  BY <1>1 DEF vars, TypeOK
<1>2. CASE Next
  BY <1>2, InterestType, ContentType, MgmtType, AgeingType DEF Next
<1> QED
  BY <1>1, <1>2

\* The tables of the relay always have their types, the face counter bounds
\* the face ids and the nonce list stays within CCNL_MAX_NONCES.
THEOREM TypeCorrect == Spec => []TypeOK
BY InitType, StepType, PTL DEF Spec

-------------------------------------------------------------------------------
(* References to faces                                                     *)

\* The faces a PIT entry refers to exist, and an upload has its client.
RowRefs(i, D) ==
    /\ i.from \in D \union {NoFace}
    /\ i.pending \subseteq D
    /\ i.pending = {} => i.from \in D

PitRefs(t, D) == \A k \in DOMAIN t : RowRefs(t[k], D)
FibRefs(F, D) == \A e \in F : e.face \in D

\* The inductive invariant: NoDanglingFace and UploadHasClient need each
\* other, since an upload whose client vanished would be left by the removal
\* of that face if entries without pending faces were kept.
References == PitRefs(pit, DOMAIN faces) /\ FibRefs(fib, DOMAIN faces)

\* The invariant says what the two properties say.
LEMMA ReferencesEquiv == References <=> NoDanglingFace /\ UploadHasClient
BY DEF References, PitRefs, FibRefs, RowRefs, NoDanglingFace, UploadHasClient

\* More faces do no harm.
LEMMA RefsMonotone ==
    ASSUME NEW t, NEW F, NEW D, NEW E, D \subseteq E
    PROVE  /\ PitRefs(t, D) => PitRefs(t, E)
           /\ FibRefs(F, D) => FibRefs(F, E)
BY DEF PitRefs, FibRefs, RowRefs

\* ccnl_face_remove leaves no reference to the faces it removes.
LEMMA PitWithoutFacesRefs ==
    ASSUME NEW t, Table(t, Interest), NEW D, NEW gone, PitRefs(t, D)
    PROVE  PitRefs(PitWithoutFaces(t, gone), D \ gone)
<1>1. CASE gone = {}
  BY <1>1 DEF PitWithoutFaces
<1>2. CASE gone # {}
  <2> DEFINE u == PitWithoutFaces(t, gone)
  <2>1. ASSUME NEW k \in DOMAIN u
        PROVE  RowRefs(u[k], D \ gone)
    <3>1. k \in DOMAIN t /\ t[k] \in Interest /\ t[k].pending \ gone # {}
      BY <1>2, <2>1 DEF PitWithoutFaces, Table
    <3>2. u[k] = [t[k] EXCEPT !.pending = @ \ gone, !.from = IF @ \in gone THEN NoFace ELSE @]
      BY <1>2, <2>1 DEF PitWithoutFaces
    <3>3. RowRefs(t[k], D)
      BY <3>1 DEF PitRefs
    <3> QED
      BY <3>1, <3>2, <3>3 DEF RowRefs, Interest
  <2> QED
    BY <2>1 DEF PitRefs
<1> QED
  BY <1>1, <1>2

\* ... and no forwarding entry towards them.
LEMMA FibWithoutFacesRefs ==
    ASSUME NEW F, NEW D, NEW gone, FibRefs(F, D)
    PROVE  FibRefs(FibWithoutFaces(F, gone), D \ gone)
BY DEF FibRefs, FibWithoutFaces

\* The packet that comes in removes no face.
LEMMA ReceiveRefs ==
    ASSUME TypeOK, References, NEW p \in Peers, NEW f \in ModelFaceIds, Receive(p, f)
    PROVE  /\ f \in DOMAIN arrived(p, f)
           /\ PitRefs(pit, DOMAIN arrived(p, f))
           /\ FibRefs(fib, DOMAIN arrived(p, f))
<1>1. DOMAIN arrived(p, f) = DOMAIN faces \union {f}
  BY DEF arrived, TouchFace
<1>2. DOMAIN faces \subseteq DOMAIN arrived(p, f)
  BY <1>1
<1>3. PitRefs(pit, DOMAIN faces) /\ FibRefs(fib, DOMAIN faces)
  BY DEF References
<1>4. PitRefs(pit, DOMAIN arrived(p, f)) /\ FibRefs(fib, DOMAIN arrived(p, f))
  BY <1>2, <1>3, RefsMonotone
<1> QED
  BY <1>1, <1>4

\* The interest handler stores only the face the interest came through.
LEMMA InterestRefs ==
    ASSUME TypeOK, References, NEW p \in Peers, NEW f \in ModelFaceIds, HandleInterest(p, f)
    PROVE  References'
<1>1. PICK i \in Interests :
         \/ DropDuplicate(p, f, i)
         \/ ReplyFromCache(p, f, i)
         \/ \E scope \in Scopes :
               \/ RejectScope(p, f, i, scope)
               \/ \E k \in ModelStamps : NewPending(p, f, i, k, scope)
               \/ \E k \in ModelStamps : JoinPending(p, f, i, k, scope)
  BY DEF HandleInterest
<1>2. Receive(p, f) /\ faces' = arrived(p, f) /\ fib' = fib
  BY <1>1 DEF DropDuplicate, ReplyFromCache, RejectScope, NewPending, JoinPending,
              NotInCache, FreshInterest, ReceiveOnly
<1>3. f \in DOMAIN faces' /\ PitRefs(pit, DOMAIN faces') /\ FibRefs(fib', DOMAIN faces')
  BY <1>2, ReceiveRefs
<1>4. CASE pit' = pit
  BY <1>3, <1>4 DEF References
<1>5. ASSUME NEW k \in ModelStamps, NEW scope \in Scopes, NewPending(p, f, i, k, scope)
      PROVE  PitRefs(pit', DOMAIN faces')
  <2>1. pit' = NewInterest(pit, k, i, f, {f})
    BY <1>5 DEF NewPending
  <2> QED
    BY <1>3, <2>1 DEF PitRefs, RowRefs, NewInterest
<1>6. ASSUME NEW k \in ModelStamps, NEW scope \in Scopes, JoinPending(p, f, i, k, scope)
      PROVE  PitRefs(pit', DOMAIN faces')
  <2>1. pit' = AppendPending(pit, k, f) /\ k \in DOMAIN pit
    BY <1>6 DEF JoinPending, SameInterest
  <2>2. pit \in [DOMAIN pit -> Interest]
    BY DEF TypeOK
  <2> QED
    BY <1>3, <2>1, <2>2 DEF PitRefs, RowRefs, AppendPending, Interest
<1> QED
  BY <1>1, <1>3, <1>4, <1>5, <1>6 DEF DropDuplicate, ReplyFromCache, RejectScope, References

\* The content handler only removes entries.
LEMMA ContentRefs ==
    ASSUME TypeOK, References, NEW p \in Peers, NEW f \in ModelFaceIds, HandleContent(p, f)
    PROVE  References'
<1>1. /\ Receive(p, f) /\ faces' = arrived(p, f) /\ fib' = fib
      /\ pit' = pit \/ \E c \in Contents : pit' = ServedPit(pit, c)
  BY DEF HandleContent, DropStateUpdate, IgnoreContent, ServeContent, ReceiveOnly
<1>2. PitRefs(pit, DOMAIN faces') /\ FibRefs(fib', DOMAIN faces')
  BY <1>1, ReceiveRefs
<1> QED
  BY <1>1, <1>2 DEF References, PitRefs, ServedPit

\* The management commands keep the references.
LEMMA MgmtRefs ==
    ASSUME TypeOK, References, NEW p \in LocalPeers, NEW f \in ModelFaceIds, HandleMgmt(p, f)
    PROVE  References'
<1> p \in Peers
  BY RelayAssumption
<1>1. Receive(p, f)
  BY DEF HandleMgmt, MgmtNewFace, MgmtDestroyFace, MgmtPrefixReg, MgmtRemoveCacheObject,
         MgmtAddCacheObject, ReceiveOnly
<1>2. /\ f \in DOMAIN arrived(p, f)
      /\ PitRefs(pit, DOMAIN arrived(p, f)) /\ FibRefs(fib, DOMAIN arrived(p, f))
  BY <1>1, ReceiveRefs
<1>3. ASSUME NEW q \in Peers, NEW flags \in NewFaceFlags, MgmtNewFace(p, f, q, flags)
      PROVE  References'
  <2>1. DOMAIN arrived(p, f) \subseteq DOMAIN faces' /\ UNCHANGED <<fib, pit>>
    BY <1>3 DEF MgmtNewFace
  <2> QED
    BY <1>2, <2>1, RefsMonotone DEF References
<1>4. ASSUME NEW g \in ModelFaceIds, MgmtDestroyFace(p, f, g)
      PROVE  References'
  <2> DEFINE gone == {g} \intersect DOMAIN arrived(p, f)
  <2>1. /\ faces' = FacesWithout(arrived(p, f), gone)
        /\ pit' = PitWithoutFaces(pit, gone)
        /\ fib' = FibWithoutFaces(fib, gone)
    BY <1>4 DEF MgmtDestroyFace
  <2> HIDE DEF gone
  <2>2. DOMAIN faces' = DOMAIN arrived(p, f) \ gone
    BY <2>1 DEF FacesWithout
  <2> QED
    BY <1>2, <2>1, <2>2, TablesOfTypeOK, PitWithoutFacesRefs, FibWithoutFacesRefs DEF References
<1>5. ASSUME NEW n \in Names, NEW g \in ModelFaceIds, MgmtPrefixReg(p, f, n, g)
      PROVE  References'
  BY <1>2, <1>5 DEF MgmtPrefixReg, ReceiveOnly, References, FibRefs
<1>6. ASSUME NEW n \in Names, MgmtRemoveCacheObject(p, f, n)
      PROVE  References'
  BY <1>2, <1>6 DEF MgmtRemoveCacheObject, ReceiveOnly, References
<1>7. ASSUME NEW n \in Names, NEW k \in ModelStamps, MgmtAddCacheObject(p, f, n, k)
      PROVE  References'
  BY <1>2, <1>7 DEF MgmtAddCacheObject, ReceiveOnly, References, PitRefs, RowRefs, NewInterest
<1> QED
  BY <1>3, <1>4, <1>5, <1>6, <1>7 DEF HandleMgmt

\* Ageing removes the references together with the faces.
LEMMA AgeingRefs ==
    ASSUME TypeOK, References, Ageing
    PROVE  References'
<1> DEFINE aged == AgedFaces(faces)
           gone == ExpiredFaces(aged)
           kept == AgedPit(pit)
<1>1. /\ pit' = PitWithoutFaces(kept, gone)
      /\ fib' = FibWithoutFaces(fib, gone)
      /\ faces' = FacesWithout(aged, gone)
  BY DEF Ageing
<1>2. DOMAIN faces' = DOMAIN faces \ gone
  BY <1>1 DEF FacesWithout, AgedFaces
<1>3. Table(kept, Interest)
  BY TablesOfTypeOK, AgedPitType
<1>4. PitRefs(kept, DOMAIN faces)
  <2>1. ASSUME NEW k \in DOMAIN kept
        PROVE  RowRefs(kept[k], DOMAIN faces)
    <3>1. k \in DOMAIN pit /\ pit[k] \in Interest
      BY DEF AgedPit, TypeOK
    <3>2. kept[k].from = pit[k].from /\ kept[k].pending = pit[k].pending
      BY <3>1 DEF AgedPit, Interest
    <3> QED
      BY <3>1, <3>2 DEF References, PitRefs, RowRefs
  <2> QED
    BY <2>1 DEF PitRefs
<1> HIDE DEF aged, gone, kept
<1>5. PitRefs(pit', DOMAIN faces')
  BY <1>1, <1>2, <1>3, <1>4, PitWithoutFacesRefs
<1>6. FibRefs(fib', DOMAIN faces')
  BY <1>1, <1>2, FibWithoutFacesRefs DEF References
<1> QED
  BY <1>5, <1>6 DEF References

\* No table ever refers to a face that is gone, and an upload whose client is
\* gone is gone too: NoDanglingFace and UploadHasClient for every relay.
THEOREM ReferencesValid == Spec => [](NoDanglingFace /\ UploadHasClient)
<1>1. Init => References
  BY DEF Init, References, PitRefs, FibRefs
<1>2. TypeOK /\ References /\ [Next]_vars => References'
  <2> SUFFICES ASSUME TypeOK, References, [Next]_vars PROVE References'
    OBVIOUS
  <2>1. CASE UNCHANGED vars
    BY <2>1 DEF vars, References
  <2>2. CASE Next
    BY <2>2, InterestRefs, ContentRefs, MgmtRefs, AgeingRefs DEF Next
  <2> QED
    BY <2>1, <2>2
<1>3. References => NoDanglingFace /\ UploadHasClient
  BY ReferencesEquiv
<1> QED
  BY <1>1, <1>2, <1>3, TypeCorrect, PTL DEF Spec

-------------------------------------------------------------------------------
(* Data goes where it was asked for                                        *)

\* Interests that are sent are not contents: the packets differ in their fields.
LEMMA InterestNotContent ==
    ASSUME NEW i \in Interests
    PROVE  i \notin Contents
<1>1. DOMAIN i = {"name", "nonce"}
  BY DEF Interests
<1>2. \A c \in Contents : DOMAIN c = {"name", "ver"}
  BY DEF Contents
<1>3. "ver" \notin {"name", "nonce"}
  OBVIOUS
<1> QED
  BY <1>1, <1>2, <1>3

\* The action of SolicitedOnly.
Solicited ==
    /\ \A t \in sent' : t.pkt \in Contents =>
          \/ \E k \in DOMAIN pit : t.to \in pit[k].pending /\ Matches(pit[k].pkt, t.pkt)
          \/ t.pkt \in DOMAIN cs /\ sent' = {t}
    /\ \A c \in DOMAIN cs' \ DOMAIN cs : Waiting(pit, c) # {}

\* Propagating an interest sends no data.
LEMMA PropagateNoData ==
    ASSUME NEW t, NEW F, NEW i \in Interest, NEW x \in Propagate(t, F, i)
    PROVE  x.pkt \notin Contents
<1>1. x.pkt = i.pkt
  BY DEF Propagate, Transmit
<1>2. i.pkt \in Interests
  BY DEF Interest
<1> QED
  BY <1>1, <1>2, InterestNotContent

\* A handler that sends no data and stores none sends nothing unsolicited.
LEMMA QuietStep ==
    ASSUME \A t \in sent' : t.pkt \notin Contents, DOMAIN cs' \subseteq DOMAIN cs
    PROVE  Solicited
BY DEF Solicited

\* The interest handler sends at most the one content that answers.
LEMMA InterestSolicited ==
    ASSUME TypeOK, TypeOK', NEW p \in Peers, NEW f \in ModelFaceIds, HandleInterest(p, f)
    PROVE  Solicited
<1>1. PICK i \in Interests :
         \/ DropDuplicate(p, f, i)
         \/ ReplyFromCache(p, f, i)
         \/ \E scope \in Scopes :
               \/ RejectScope(p, f, i, scope)
               \/ \E k \in ModelStamps : NewPending(p, f, i, k, scope)
               \/ \E k \in ModelStamps : JoinPending(p, f, i, k, scope)
  BY DEF HandleInterest
<1>2. cs' = cs
  BY <1>1 DEF DropDuplicate, ReplyFromCache, RejectScope, NewPending, JoinPending, NotInCache
<1>3. CASE ReplyFromCache(p, f, i)
  <2>1. PICK c \in DOMAIN cs : sent' = Transmit(c, {f})
    BY <1>3 DEF ReplyFromCache
  <2>2. sent' = {[to |-> f, pkt |-> c]}
    BY <2>1 DEF Transmit
  <2> QED
    BY <1>2, <2>2 DEF Solicited
<1>4. CASE sent' = {}
  BY <1>2, <1>4, QuietStep
<1>5. ASSUME NEW k \in ModelStamps, NEW scope \in Scopes,
             NewPending(p, f, i, k, scope) \/ JoinPending(p, f, i, k, scope)
      PROVE  Solicited
  <2>1. k \in DOMAIN pit' /\ sent' = Propagate(faces', fib, pit'[k])
    BY <1>5 DEF NewPending, JoinPending, NewInterest, AppendPending, SameInterest
  <2>2. pit'[k] \in Interest
    BY <2>1 DEF TypeOK
  <2>3. \A t \in sent' : t.pkt \notin Contents
    BY <2>1, <2>2, PropagateNoData
  <2> QED
    BY <1>2, <2>3, QuietStep
<1> QED
  BY <1>1, <1>3, <1>4, <1>5 DEF DropDuplicate, RejectScope

\* The content handler sends to those who wait for the content it stores.
LEMMA ContentSolicited ==
    ASSUME TypeOK, NEW p \in Peers, NEW f \in ModelFaceIds, HandleContent(p, f)
    PROVE  Solicited
<1>1. PICK c \in Contents : \/ sent' = {} /\ cs' = cs
                            \/ ServeContent(p, f, c)
  BY DEF HandleContent, DropStateUpdate, IgnoreContent
<1>2. CASE sent' = {} /\ cs' = cs
  BY <1>2, QuietStep
<1>3. CASE ServeContent(p, f, c)
  <2>1. ASSUME NEW t \in sent'
        PROVE  \E k \in DOMAIN pit : t.to \in pit[k].pending /\ Matches(pit[k].pkt, t.pkt)
    <3>1. t.pkt = c /\ t.to \in ServedFaces(pit, c)
      BY <1>3 DEF ServeContent, Transmit
    <3> QED
      BY <3>1 DEF ServedFaces, Visited, Waiting
  <2>2. Waiting(pit, c) # {} /\ DOMAIN cs' \subseteq DOMAIN cs \union {c}
    BY <1>3, TablesOfTypeOK, AddToCacheType DEF ServeContent
  <2> QED
    BY <2>1, <2>2 DEF Solicited
<1> QED
  BY <1>1, <1>2, <1>3

\* The management commands send no data.
LEMMA MgmtSolicited ==
    ASSUME TypeOK, NEW p \in LocalPeers, NEW f \in ModelFaceIds, HandleMgmt(p, f)
    PROVE  Solicited
<1>1. DOMAIN cs' \subseteq DOMAIN cs
  BY DEF HandleMgmt, MgmtNewFace, MgmtDestroyFace, MgmtPrefixReg, MgmtRemoveCacheObject,
         MgmtAddCacheObject, CsWithout
<1>2. sent' = {} \/ \E n \in Names : sent' = Transmit([name |-> n, nonce |-> NoNonce], {f})
  BY DEF HandleMgmt, MgmtNewFace, MgmtDestroyFace, MgmtPrefixReg, MgmtRemoveCacheObject,
         MgmtAddCacheObject
<1>3. \A n \in Names : [name |-> n, nonce |-> NoNonce] \notin Contents
  BY InterestNotContent DEF Interests
<1>4. \A t \in sent' : t.pkt \notin Contents
  BY <1>2, <1>3 DEF Transmit
<1> QED
  BY <1>1, <1>4, QuietStep

\* Ageing sends no data.
LEMMA AgeingSolicited ==
    ASSUME TypeOK, Ageing
    PROVE  Solicited
<1> DEFINE kept == AgedPit(pit)
<1>1. cs' = AgedCs(cs) /\ sent' = UNION {Propagate(faces, fib, kept[k]) : k \in DOMAIN kept}
  BY DEF Ageing
<1>2. DOMAIN cs' \subseteq DOMAIN cs
  BY <1>1, TablesOfTypeOK, AgedCsType
<1>3. Table(kept, Interest)
  BY TablesOfTypeOK, AgedPitType
<1> HIDE DEF kept
<1>4. \A t \in sent' : t.pkt \notin Contents
  BY <1>1, <1>3, PropagateNoData DEF Table
<1> QED
  BY <1>2, <1>4, QuietStep

\* The relay never volunteers data and never stores what nobody asked for.
THEOREM DataSolicited == Spec => SolicitedOnly
<1>1. TypeOK /\ TypeOK' /\ [Next]_vars => [Solicited]_vars
  BY InterestSolicited, ContentSolicited, MgmtSolicited, AgeingSolicited DEF Next
<1> QED
  BY <1>1, TypeCorrect, PTL DEF Spec, SolicitedOnly, Solicited

-------------------------------------------------------------------------------
(* Without uploads: nobody waits in vain, one entry per name               *)

\* Every entry has clients.
Asked(t) == \A k \in DOMAIN t : t[k].pending # {}

\* The PIT u is the PIT t, without some entries and some clients.
Shrunk(t, u) ==
    /\ DOMAIN u \subseteq DOMAIN t
    /\ \A k \in DOMAIN u : u[k].pkt = t[k].pkt /\ u[k].pending # {}

\* The contents of store r that store s has not: nobody of PIT u matches them.
Settled(r, s, u) ==
    \A c \in DOMAIN s \ DOMAIN r : \A k \in DOMAIN u : ~Matches(u[k].pkt, c)

\* Interest i makes a new entry: there was none for its name, and no content.
Opens(t, r, u, i) ==
    /\ SameInterest(t, i.name) = {}
    /\ \A c \in DOMAIN r : ~Matches(i, c)
    /\ \E k, f : k \notin DOMAIN t /\ u = NewInterest(t, k, i, f, {f})

\* What a handler does to PIT and store, when nobody uploads.
Moves ==
    \/ Shrunk(pit, pit') /\ Settled(cs, cs', pit')
    \/ cs' = cs /\ \E i \in Interests : Opens(pit, cs, pit', i)

\* The interest handler opens an entry or leaves the PIT's names as they are.
LEMMA InterestMoves ==
    ASSUME TypeOK, Asked(pit), NEW p \in Peers, NEW f \in ModelFaceIds, HandleInterest(p, f)
    PROVE  Moves
<1>1. PICK i \in Interests :
         \/ DropDuplicate(p, f, i)
         \/ ReplyFromCache(p, f, i)
         \/ \E scope \in Scopes :
               \/ RejectScope(p, f, i, scope)
               \/ \E k \in ModelStamps : NewPending(p, f, i, k, scope)
               \/ \E k \in ModelStamps : JoinPending(p, f, i, k, scope)
  BY DEF HandleInterest
<1>2. cs' = cs
  BY <1>1 DEF DropDuplicate, ReplyFromCache, RejectScope, NewPending, JoinPending, NotInCache
<1>3. CASE pit' = pit
  BY <1>2, <1>3 DEF Moves, Shrunk, Settled, Asked
<1>4. ASSUME NEW k \in ModelStamps, NEW scope \in Scopes, NewPending(p, f, i, k, scope)
      PROVE  Moves
  <2>1. k \notin DOMAIN pit
    BY <1>4, RelayAssumption DEF NewPending, IsNewHead, ModelStamps
  <2> QED
    BY <1>2, <1>4, <2>1 DEF Moves, Opens, NewPending, NotInCache
<1>5. ASSUME NEW k \in ModelStamps, NEW scope \in Scopes, JoinPending(p, f, i, k, scope)
      PROVE  Moves
  <2>1. pit' = AppendPending(pit, k, f) /\ pit \in [DOMAIN pit -> Interest]
    BY <1>5 DEF JoinPending, TypeOK
  <2>2. Shrunk(pit, pit')
    BY <2>1 DEF Shrunk, AppendPending, Asked, Interest
  <2> QED
    BY <1>2, <2>2 DEF Moves, Settled
<1> QED
  BY <1>1, <1>3, <1>4, <1>5 DEF DropDuplicate, ReplyFromCache, RejectScope

\* A content is stored only after every entry it matches is gone.
LEMMA ContentMoves ==
    ASSUME TypeOK, Asked(pit), NEW p \in Peers, NEW f \in ModelFaceIds, HandleContent(p, f)
    PROVE  Moves
<1>1. PICK c \in Contents : \/ pit' = pit /\ cs' = cs
                            \/ ServeContent(p, f, c)
  BY DEF HandleContent, DropStateUpdate, IgnoreContent
<1>2. CASE pit' = pit /\ cs' = cs
  BY <1>2 DEF Moves, Shrunk, Settled, Asked
<1>3. CASE ServeContent(p, f, c)
  <2>1. Visited(pit, c) = Waiting(pit, c)
    BY DEF Visited, Hooks, Waiting, Asked
  <2>2. pit' = [k \in DOMAIN pit \ Waiting(pit, c) |-> pit[k]]
    BY <1>3, <2>1 DEF ServeContent, ServedPit
  <2>3. \A k \in DOMAIN pit' : ~Matches(pit'[k].pkt, c)
    BY <2>2 DEF Waiting
  <2>4. DOMAIN cs' \subseteq DOMAIN cs \union {c}
    BY <1>3, TablesOfTypeOK, AddToCacheType DEF ServeContent
  <2> QED
    BY <2>2, <2>3, <2>4 DEF Moves, Shrunk, Settled, Asked
<1> QED
  BY <1>1, <1>2, <1>3

\* Removing faces shrinks a PIT in which every entry has clients.
LEMMA PitWithoutFacesShrunk ==
    ASSUME NEW t, Table(t, Interest), Asked(t), NEW gone
    PROVE  Shrunk(t, PitWithoutFaces(t, gone))
BY DEF Table, Asked, Shrunk, PitWithoutFaces, Interest

\* Management commands but addcacheobject only shrink PIT and store.
LEMMA MgmtMoves ==
    ASSUME Uploaders = {}, TypeOK, Asked(pit),
           NEW p \in LocalPeers, NEW f \in ModelFaceIds, HandleMgmt(p, f)
    PROVE  Moves
<1>1. DOMAIN cs' \subseteq DOMAIN cs
  BY DEF HandleMgmt, MgmtNewFace, MgmtDestroyFace, MgmtPrefixReg, MgmtRemoveCacheObject, CsWithout
<1>2. pit' = pit \/ \E gone : pit' = PitWithoutFaces(pit, gone)
  BY DEF HandleMgmt, MgmtNewFace, MgmtDestroyFace, MgmtPrefixReg, MgmtRemoveCacheObject
<1>3. Shrunk(pit, pit) /\ \A gone : Shrunk(pit, PitWithoutFaces(pit, gone))
  BY TablesOfTypeOK, PitWithoutFacesShrunk DEF Shrunk, Asked
<1> QED
  BY <1>1, <1>2, <1>3 DEF Moves, Settled

\* Ageing only shrinks PIT and store.
LEMMA AgeingMoves ==
    ASSUME TypeOK, Asked(pit), Ageing
    PROVE  Moves
<1> DEFINE gone == ExpiredFaces(AgedFaces(faces))
           kept == AgedPit(pit)
<1>1. cs' = AgedCs(cs) /\ pit' = PitWithoutFaces(kept, gone)
  BY DEF Ageing
<1>2. DOMAIN cs' \subseteq DOMAIN cs
  BY <1>1, TablesOfTypeOK, AgedCsType
<1>3. Table(kept, Interest) /\ DOMAIN kept \subseteq DOMAIN pit
  BY TablesOfTypeOK, AgedPitType
<1>4. \A k \in DOMAIN kept : kept[k].pkt = pit[k].pkt /\ kept[k].pending = pit[k].pending
  BY DEF AgedPit, TypeOK, Interest
<1> HIDE DEF gone, kept
<1>5. Asked(kept)
  BY <1>3, <1>4 DEF Asked
<1>6. Shrunk(kept, pit')
  BY <1>1, <1>3, <1>5, PitWithoutFacesShrunk
<1>7. Shrunk(pit, pit')
  BY <1>3, <1>4, <1>6 DEF Shrunk
<1> QED
  BY <1>2, <1>7 DEF Moves, Settled

\* The inductive invariant of a relay nobody uploads to.
NoneWaitsInVain ==
    /\ Asked(pit)
    /\ \A k \in DOMAIN pit, c \in DOMAIN cs : ~Matches(pit[k].pkt, c)
    /\ Aggregated

\* It is kept by every step.
LEMMA StepWaits ==
    ASSUME Uploaders = {}, TypeOK, NoneWaitsInVain, [Next]_vars
    PROVE  NoneWaitsInVain'
<1> Asked(pit)
  BY DEF NoneWaitsInVain
<1>1. Moves \/ UNCHANGED vars
  BY InterestMoves, ContentMoves, MgmtMoves, AgeingMoves, RelayAssumption DEF Next
<1>2. CASE UNCHANGED vars
  BY <1>2 DEF vars, NoneWaitsInVain, Aggregated, Asked
<1>3. CASE Shrunk(pit, pit') /\ Settled(cs, cs', pit')
  BY <1>3 DEF NoneWaitsInVain, Aggregated, Asked, Shrunk, Settled
<1>4. ASSUME NEW i \in Interests, cs' = cs, Opens(pit, cs, pit', i)
      PROVE  NoneWaitsInVain'
  <2>1. PICK k, f : k \notin DOMAIN pit /\ pit' = NewInterest(pit, k, i, f, {f})
    BY <1>4 DEF Opens
  <2>2. /\ DOMAIN pit' = DOMAIN pit \union {k}
        /\ pit'[k].pkt = i /\ pit'[k].pending = {f}
        /\ \A j \in DOMAIN pit : pit'[j] = pit[j]
    BY <2>1 DEF NewInterest
  <2>3. \A j \in DOMAIN pit : pit[j].pkt.name # i.name
    BY <1>4 DEF Opens, SameInterest
  <2>4. \A c \in DOMAIN cs : ~Matches(i, c)
    BY <1>4 DEF Opens
  <2>5. Asked(pit')
    BY <2>2 DEF Asked
  <2>6. \A j \in DOMAIN pit', c \in DOMAIN cs' : ~Matches(pit'[j].pkt, c)
    BY <1>4, <2>2, <2>4 DEF NoneWaitsInVain
  <2>7. Aggregated'
    BY <2>2, <2>3 DEF NoneWaitsInVain, Aggregated
  <2> QED
    BY <2>5, <2>6, <2>7 DEF NoneWaitsInVain
<1> QED
  BY <1>1, <1>2, <1>3, <1>4 DEF Moves

\* As long as nobody uploads, no client waits for a content that is in the
\* store, and the interests for one name share one entry.
THEOREM NobodyStarves ==
    ASSUME Uploaders = {}
    PROVE  Spec => [](NoStarvedInterest /\ Aggregated)
<1>1. Init => NoneWaitsInVain
  BY DEF Init, NoneWaitsInVain, Aggregated, Asked
<1>2. TypeOK /\ NoneWaitsInVain /\ [Next]_vars => NoneWaitsInVain'
  BY StepWaits
<1>3. NoneWaitsInVain => NoStarvedInterest /\ Aggregated
  BY DEF NoneWaitsInVain, NoStarvedInterest
<1> QED
  BY <1>1, <1>2, <1>3, TypeCorrect, PTL DEF Spec
===============================================================================
