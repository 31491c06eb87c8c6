------------------------ MODULE CcnlRelayContractProofs ------------------------
(* More about CcnlRelay, for every value of its constants: the limits of   *)
(* the content store and of the list of nonces, what makes clients and     *)
(* static contents leave the tables, and that the relay implements IcnNode. *)
EXTENDS CcnlRelayProofs, FiniteSetTheorems, WellFoundedInduction

-------------------------------------------------------------------------------
(* The content store and its limit                                         *)

Statics(t) == {c \in DOMAIN t : t[c].static}

\* A store within its limit, or one above it and then full of static entries.
Within(t) ==
    /\ IsFiniteSet(DOMAIN t)
    /\ MaxCacheEntries > 0 =>
          \/ Cardinality(DOMAIN t) <= MaxCacheEntries
          \/ /\ Cardinality(DOMAIN t) = MaxCacheEntries + 1
             /\ Cardinality(Statics(t)) >= MaxCacheEntries

\* A non-empty set of naturals has a smallest element.
LEMMA LeastElement ==
    ASSUME NEW T \in SUBSET Nat, T # {}
    PROVE  \E x \in T : \A y \in T : x <= y
<1> DEFINE R == {ss \in Nat \X Nat : ss[1] < ss[2]}
<1>1. \A x, y \in Nat : y < x => <<y, x>> \in R
  OBVIOUS
<1>2. IsWellFoundedOn(R, Nat)
  BY NatLessThanWellFounded DEF OpToRel
<1> HIDE DEF R
<1>3. PICK x \in T : \A y \in T : ~(<<y, x>> \in R)
  BY <1>2, WFMin
<1>4. \A y \in T : ~(y < x)
  BY <1>1, <1>3
<1> QED
  BY <1>3, <1>4

\* A store nothing can be evicted from holds static entries only: among the
\* others one would be the oldest.
LEMMA AllStatic ==
    ASSUME NEW t, Store(t), Evictable(t) = {}
    PROVE  Statics(t) = DOMAIN t
<1> SUFFICES ASSUME NEW c \in DOMAIN t, ~t[c].static PROVE FALSE
  BY DEF Statics
<1> DEFINE loose == {d \in DOMAIN t : ~t[d].static}
           left(d) == ContentTimeout - t[d].age
           T == {left(d) : d \in loose}
<1>1. \A d \in loose : t[d].age \in 0 .. ContentTimeout /\ ContentTimeout \in Nat
  BY TablesAssumption DEF Store, Content
<1>2. \A d \in loose : left(d) \in Nat
  BY <1>1
<1>3. T \in SUBSET Nat /\ T # {}
  <2> HIDE DEF left
  <2> QED BY <1>2
<1>4. PICK x \in T : \A y \in T : x <= y
  <2> HIDE DEF T
  <2> QED BY <1>3, LeastElement
<1>5. PICK v \in loose : x = left(v)
  BY <1>4
<1>6. \A d \in loose : left(v) <= left(d)
  BY <1>4, <1>5
<1>7. \A d \in loose : t[d].age <= t[v].age
  BY <1>1, <1>6
<1> QED
  BY <1>5, <1>7 DEF Evictable

\* Removing entries keeps the store within its limit, as long as those that
\* stay remain static.
LEMMA LessIsWithin ==
    ASSUME NEW t, Within(t), NEW s, DOMAIN s \subseteq DOMAIN t,
           \A c \in DOMAIN s : t[c].static => s[c].static
    PROVE  Within(s)
<1>1. /\ IsFiniteSet(DOMAIN t) /\ IsFiniteSet(DOMAIN s) /\ IsFiniteSet(Statics(s))
      /\ Cardinality(DOMAIN s) <= Cardinality(DOMAIN t)
      /\ Cardinality(DOMAIN s) = Cardinality(DOMAIN t) => DOMAIN s = DOMAIN t
  <2>1. IsFiniteSet(DOMAIN t) /\ DOMAIN s \in SUBSET DOMAIN t
    BY DEF Within
  <2>2. /\ IsFiniteSet(DOMAIN s)
        /\ Cardinality(DOMAIN s) <= Cardinality(DOMAIN t)
        /\ Cardinality(DOMAIN t) = Cardinality(DOMAIN s) => DOMAIN t = DOMAIN s
    BY <2>1, FS_Subset
  <2>3. Statics(s) \in SUBSET DOMAIN s
    BY DEF Statics
  <2> QED
    BY <2>1, <2>2, <2>3, FS_Subset
<1>2. Cardinality(DOMAIN t) \in Nat /\ Cardinality(DOMAIN s) \in Nat /\ Cardinality(Statics(s)) \in Nat
  BY <1>1, FS_CardinalityType
<1>3. ASSUME DOMAIN s = DOMAIN t
      PROVE  Cardinality(Statics(t)) <= Cardinality(Statics(s)) /\ Cardinality(Statics(t)) \in Nat
  <2>1. Statics(t) \in SUBSET Statics(s)
    BY <1>3 DEF Statics
  <2> QED
    BY <1>1, <2>1, FS_Subset, FS_CardinalityType
<1> QED
  BY <1>1, <1>2, <1>3, TablesAssumption DEF Within

\* What ccnl_content_add2cache makes of a store within its limit.
LEMMA AddToCacheWithin ==
    ASSUME NEW t, Store(t), Within(t), NEW c \in Contents, c \notin DOMAIN t, NEW b \in BOOLEAN,
           NEW s \in AddToCache(t, c, b)
    PROVE  Within(s) /\ (c \in DOMAIN s \/ s = t)
<1>1. PICK r \in MakeRoom(t) : s = Link(r, c, b)
  BY DEF AddToCache
<1>2. /\ IsFiniteSet(DOMAIN t) /\ IsFiniteSet(Statics(t))
      /\ Cardinality(DOMAIN t) \in Nat /\ Cardinality(Statics(t)) \in Nat
  <2>1. IsFiniteSet(DOMAIN t) /\ Statics(t) \in SUBSET DOMAIN t
    BY DEF Within, Statics
  <2> QED
    BY <2>1, FS_Subset, FS_CardinalityType
<1>3. /\ DOMAIN r \subseteq DOMAIN t /\ IsFiniteSet(DOMAIN r) /\ Cardinality(DOMAIN r) \in Nat
      /\ Statics(r) = Statics(t)
      /\ r = t \/ Cardinality(DOMAIN r) = Cardinality(DOMAIN t) - 1
      /\ r = t => ~CacheFull(t) \/ Evictable(t) = {} \/ Cardinality(DOMAIN t) = MaxCacheEntries
  <2>1. CASE r = t /\ ~(CacheFull(t) /\ Evictable(t) # {})
    BY <1>2, <2>1
  <2>2. CASE \E v \in Evictable(t) : r = CsWithout(t, {v})
    <3>1. PICK v \in Evictable(t) : r = CsWithout(t, {v})
      BY <2>2
    <3>2. DOMAIN r = DOMAIN t \ {v} /\ v \in DOMAIN t /\ ~t[v].static /\ r # t
      BY <3>1 DEF CsWithout, Evictable
    <3>3. Statics(r) = Statics(t)
      BY <3>1, <3>2 DEF Statics, CsWithout
    <3>4. IsFiniteSet(DOMAIN r) /\ Cardinality(DOMAIN r) = Cardinality(DOMAIN t) - 1
      BY <1>2, <3>2, FS_RemoveElement
    <3> QED
      BY <3>2, <3>3, <3>4, FS_CardinalityType
  <2> QED
    BY <1>1, <2>1, <2>2 DEF MakeRoom
<1>4. CASE MaxCacheEntries > 0 /\ Cardinality(DOMAIN r) > MaxCacheEntries
  <2>1. s = r
    BY <1>1, <1>4 DEF Link
  <2>2. r = t
    BY <1>2, <1>3, <1>4, TablesAssumption DEF Within
  <2> QED
    BY <2>1, <2>2
<1>5. CASE ~(MaxCacheEntries > 0 /\ Cardinality(DOMAIN r) > MaxCacheEntries)
  <2>1. /\ DOMAIN s = DOMAIN r \union {c} /\ c \notin DOMAIN r
        /\ \A d \in DOMAIN r : s[d] = r[d]
    BY <1>1, <1>3, <1>5 DEF Link
  <2>2. IsFiniteSet(DOMAIN s) /\ Cardinality(DOMAIN s) = Cardinality(DOMAIN r) + 1
    BY <1>3, <2>1, FS_AddElement
  <2>3. IsFiniteSet(Statics(s)) /\ Cardinality(Statics(t)) <= Cardinality(Statics(s))
    <3>1. Statics(r) \in SUBSET Statics(s) /\ Statics(s) \in SUBSET DOMAIN s
      BY <2>1 DEF Statics
    <3> QED
      BY <1>3, <2>2, <3>1, FS_Subset
  <2>4. ASSUME MaxCacheEntries > 0, Cardinality(DOMAIN s) > MaxCacheEntries
        PROVE  /\ Cardinality(DOMAIN s) = MaxCacheEntries + 1
               /\ Cardinality(Statics(t)) >= MaxCacheEntries
    <3>1. Cardinality(DOMAIN r) = MaxCacheEntries
      BY <1>3, <1>5, <2>2, <2>4, TablesAssumption
    <3>2. CASE r = t
      <4>1. CacheFull(t)
        BY <2>4, <3>1, <3>2, TablesAssumption DEF CacheFull
      <4>2. Evictable(t) = {}
        <5>1. \A v \in Evictable(t) : DOMAIN CsWithout(t, {v}) # DOMAIN t
          BY DEF CsWithout, Evictable
        <5> QED
          BY <1>1, <3>2, <4>1, <5>1 DEF MakeRoom
      <4> QED
        BY <2>2, <3>1, <3>2, <4>2, AllStatic, TablesAssumption
    <3>3. CASE r # t
      BY <1>2, <1>3, <2>2, <2>4, <3>1, <3>3, TablesAssumption DEF Within
    <3> QED
      BY <3>2, <3>3
  <2>5. Cardinality(DOMAIN s) \in Nat /\ Cardinality(Statics(s)) \in Nat
    BY <2>2, <2>3, FS_CardinalityType
  <2> QED
    BY <1>2, <2>1, <2>2, <2>3, <2>4, <2>5, TablesAssumption DEF Within
<1> QED
  BY <1>4, <1>5

\* What a step does to the content store: ageing, add2cache, removecacheobject.
StoreMoves ==
    \/ cs' = cs
    \/ cs' = AgedCs(cs)
    \/ \E c \in Contents \ DOMAIN cs, b \in BOOLEAN : cs' \in AddToCache(cs, c, b)
    \/ \E p \in LocalPeers, f \in ModelFaceIds, c \in DOMAIN cs :
          MgmtRemoveCacheObject(p, f, c.name) /\ cs' = CsWithout(cs, {c})

\* There is no other way to change it.
LEMMA StepStore ==
    ASSUME TypeOK, [Next]_vars
    PROVE  StoreMoves
<1>1. CASE UNCHANGED vars
  BY <1>1 DEF vars, StoreMoves
<1>2. ASSUME NEW p \in Peers, NEW f \in ModelFaceIds, HandleInterest(p, f)
      PROVE  cs' = cs
  BY <1>2 DEF HandleInterest, DropDuplicate, ReplyFromCache, RejectScope, NewPending,
              JoinPending, NotInCache
<1>3. ASSUME NEW p \in Peers, NEW f \in ModelFaceIds, HandleContent(p, f)
      PROVE  StoreMoves
  <2>1. PICK c \in Contents : cs' = cs \/ ServeContent(p, f, c)
    BY <1>3 DEF HandleContent, DropStateUpdate, IgnoreContent
  <2>2. (Hooks(pit, c) # {}) \in BOOLEAN
    OBVIOUS
  <2> QED
    BY <2>1, <2>2 DEF ServeContent, StoreMoves
<1>4. ASSUME NEW p \in LocalPeers, NEW f \in ModelFaceIds, HandleMgmt(p, f)
      PROVE  StoreMoves
  <2>1. cs' = cs \/ \E n \in Names : MgmtRemoveCacheObject(p, f, n)
    BY <1>4 DEF HandleMgmt, MgmtNewFace, MgmtDestroyFace, MgmtPrefixReg, MgmtAddCacheObject
  <2>2. ASSUME NEW n \in Names, MgmtRemoveCacheObject(p, f, n)
        PROVE  StoreMoves
    <3>1. cs' = cs \/ \E c \in DOMAIN cs : c.name = n /\ cs' = CsWithout(cs, {c})
      BY <2>2 DEF MgmtRemoveCacheObject
    <3> QED
      BY <2>2, <3>1 DEF StoreMoves
  <2> QED
    BY <2>1, <2>2 DEF StoreMoves
<1>5. CASE Ageing
  BY <1>5 DEF Ageing, StoreMoves
<1> QED
  BY <1>1, <1>2, <1>3, <1>4, <1>5 DEF Next, StoreMoves

\* ... and no way leads beyond its limit.
LEMMA StepWithin ==
    ASSUME TypeOK, Within(cs), [Next]_vars
    PROVE  Within(cs')
<1> Store(cs)
  BY TablesOfTypeOK
<1>1. CASE cs' = cs
  BY <1>1
<1>2. CASE cs' = AgedCs(cs)
  <2>1. DOMAIN cs' \subseteq DOMAIN cs /\ \A c \in DOMAIN cs' : cs'[c].static = cs[c].static
    BY <1>2 DEF AgedCs, Store, Content
  <2> QED
    BY <2>1, LessIsWithin
<1>3. ASSUME NEW c \in Contents \ DOMAIN cs, NEW b \in BOOLEAN, cs' \in AddToCache(cs, c, b)
      PROVE  Within(cs')
  BY <1>3, AddToCacheWithin
<1>4. ASSUME NEW c \in DOMAIN cs, cs' = CsWithout(cs, {c})
      PROVE  Within(cs')
  <2>1. DOMAIN cs' \subseteq DOMAIN cs /\ \A d \in DOMAIN cs' : cs'[d] = cs[d]
    BY <1>4 DEF CsWithout
  <2> QED
    BY <2>1, LessIsWithin
<1> QED
  BY <1>1, <1>2, <1>3, <1>4, StepStore DEF StoreMoves

\* The store that a relay starts with holds one content at most.
LEMMA InitWithin == Init => Within(cs)
<1> SUFFICES ASSUME Init PROVE Within(cs)
  OBVIOUS
<1>1. DOMAIN cs = {} \/ \E c \in Contents : DOMAIN cs = {c}
  BY DEF Init
<1>2. CASE DOMAIN cs = {}
  BY <1>2, FS_EmptySet, TablesAssumption DEF Within
<1>3. ASSUME NEW c \in Contents, DOMAIN cs = {c}
      PROVE  Within(cs)
  <2>1. IsFiniteSet({c}) /\ Cardinality({c}) = 1
    BY FS_Singleton
  <2> QED
    BY <1>3, <2>1, TablesAssumption DEF Within
<1> QED
  BY <1>1, <1>2, <1>3

\* Every content store is within its limit, or one entry above it and full of
\* static entries.
THEOREM CacheBounded == Spec => []CacheBound
<1>1. TypeOK /\ Within(cs) /\ [Next]_vars => Within(cs)'
  BY StepWithin
<1>2. Within(cs) => CacheBound
  BY DEF Within, CacheBound, Statics
<1> QED
  BY <1>1, <1>2, InitWithin, TypeCorrect, PTL DEF Spec

\* The action of StaticStays.
StaticKept ==
    \A c \in DOMAIN cs : cs[c].static =>
        \/ c \in DOMAIN cs' /\ cs'[c].static
        \/ \E p \in LocalPeers, f \in ModelFaceIds : MgmtRemoveCacheObject(p, f, c.name)

\* Neither ageing nor the making of room takes a static content from the store.
THEOREM StaticsStay == Spec => StaticStays
<1>1. TypeOK /\ [Next]_vars => StaticKept
  <2> SUFFICES ASSUME TypeOK, [Next]_vars PROVE StaticKept
    OBVIOUS
  <2> Store(cs)
    BY TablesOfTypeOK
  <2>1. CASE cs' = cs
    BY <2>1 DEF StaticKept
  <2>2. CASE cs' = AgedCs(cs)
    BY <2>2 DEF StaticKept, AgedCs, Store, Content
  <2>3. ASSUME NEW c \in Contents \ DOMAIN cs, NEW b \in BOOLEAN, cs' \in AddToCache(cs, c, b)
        PROVE  StaticKept
    <3>1. PICK r \in MakeRoom(cs) : cs' = Link(r, c, b)
      BY <2>3 DEF AddToCache
    <3>2. \A d \in Statics(cs) : d \in DOMAIN r /\ r[d] = cs[d]
      BY DEF MakeRoom, Evictable, CsWithout, Statics
    <3>3. \A d \in Statics(cs) : d \in DOMAIN cs' /\ cs'[d] = cs[d]
      BY <3>1, <3>2 DEF Link, Statics
    <3> QED
      BY <3>3 DEF StaticKept, Statics
  <2>4. ASSUME NEW p \in LocalPeers, NEW f \in ModelFaceIds, NEW c \in DOMAIN cs,
               MgmtRemoveCacheObject(p, f, c.name), cs' = CsWithout(cs, {c})
        PROVE  StaticKept
    BY <2>4 DEF StaticKept, CsWithout
  <2> QED
    BY <2>1, <2>2, <2>3, <2>4, StepStore DEF StoreMoves
<1>2. TypeOK /\ [Next]_vars => [StaticKept]_vars
  BY <1>1
<1> QED
  BY <1>2, TypeCorrect, PTL DEF Spec, StaticStays, StaticKept

-------------------------------------------------------------------------------
(* The list of nonces                                                      *)

\* As long as the list is not full, it forgets nothing it is given.
LEMMA AppendNonceKeeps ==
    ASSUME NEW q \in Seq(Nonces), Len(q) <= MaxNonces, NEW n \in Nonces \union {NoNonce}
    PROVE  /\ n # NoNonce => IsDupNonce(AppendNonce(q, n), n)
           /\ Len(AppendNonce(q, n)) < MaxNonces =>
                 /\ Len(q) < MaxNonces
                 /\ \A m : IsDupNonce(q, m) => IsDupNonce(AppendNonce(q, n), m)
<1>1. CASE n = NoNonce
  BY <1>1 DEF AppendNonce
<1>2. CASE n # NoNonce /\ Len(q) < MaxNonces
  <2>1. /\ AppendNonce(q, n) = <<n>> \o q
        /\ n \in Nonces
    BY <1>2 DEF AppendNonce
  <2>2. /\ Len(<<n>> \o q) = 1 + Len(q)
        /\ (<<n>> \o q)[1] = n
        /\ \A j \in 1 .. Len(q) : (<<n>> \o q)[j + 1] = q[j]
    BY <2>1
  <2>3. DOMAIN q = 1 .. Len(q) /\ DOMAIN (<<n>> \o q) = 1 .. (1 + Len(q))
    BY <2>1, <2>2
  <2>4. IsDupNonce(<<n>> \o q, n)
    BY <2>2, <2>3 DEF IsDupNonce
  <2>5. ASSUME NEW m, NEW j \in DOMAIN q, q[j] = m
        PROVE  IsDupNonce(<<n>> \o q, m)
    <3>1. j + 1 \in DOMAIN (<<n>> \o q) /\ (<<n>> \o q)[j + 1] = m
      BY <2>2, <2>3, <2>5
    <3> QED
      BY <3>1 DEF IsDupNonce
  <2> QED
    BY <1>2, <2>1, <2>4, <2>5 DEF IsDupNonce
<1>3. CASE n # NoNonce /\ ~(Len(q) < MaxNonces)
  <2> DEFINE r == SubSeq(q, 1, MaxNonces - 1)
  <2>1. AppendNonce(q, n) = <<n>> \o r /\ n \in Nonces
    BY <1>3 DEF AppendNonce
  <2>2. Len(q) = MaxNonces
    BY <1>3, TablesAssumption
  <2>3. r \in Seq(Nonces) /\ Len(r) = MaxNonces - 1
    BY <2>2, TablesAssumption, SubSeqProperties
  <2> HIDE DEF r
  <2>4. Len(<<n>> \o r) = MaxNonces /\ (<<n>> \o r)[1] = n /\ 1 \in DOMAIN (<<n>> \o r)
    BY <2>1, <2>3, TablesAssumption
  <2> QED
    BY <2>1, <2>4, TablesAssumption DEF IsDupNonce
<1> QED
  BY <1>1, <1>2, <1>3

\* The packets of the PIT entries of u are those of t, or carry no nonce, or
\* one that is in q.
Remembered(t, u, q) ==
    \A k \in DOMAIN u : \/ k \in DOMAIN t /\ u[k].pkt = t[k].pkt
                        \/ u[k].pkt.nonce = NoNonce
                        \/ IsDupNonce(q, u[k].pkt.nonce)

\* Removing faces changes no packet of the PIT.
LEMMA PitWithoutFacesPackets ==
    ASSUME NEW t, Table(t, Interest), NEW gone, NEW q
    PROVE  Remembered(t, PitWithoutFaces(t, gone), q)
BY DEF Table, Interest, PitWithoutFaces, Remembered

\* A step puts an interest into the PIT only after its nonce went to the list.
LEMMA StepRemembers ==
    ASSUME TypeOK, [Next]_vars
    PROVE  /\ Remembered(pit, pit', nonces')
           /\ nonces' = nonces \/ \E n \in Nonces \union {NoNonce} : nonces' = AppendNonce(nonces, n)
<1> Table(pit, Interest) /\ nonces \in Seq(Nonces) /\ Len(nonces) <= MaxNonces
  BY TablesOfTypeOK DEF TypeOK
<1> DEFINE Goal == /\ Remembered(pit, pit', nonces')
                   /\ \/ nonces' = nonces
                      \/ \E n \in Nonces \union {NoNonce} : nonces' = AppendNonce(nonces, n)
<1>1. CASE UNCHANGED <<pit, nonces>>
  BY <1>1 DEF Remembered
<1>2. ASSUME NEW p \in Peers, NEW f \in ModelFaceIds, HandleInterest(p, f)
      PROVE  Goal
  <2>1. PICK i \in Interests :
           \/ DropDuplicate(p, f, i)
           \/ FreshInterest(p, f, i) /\ pit' = pit
           \/ \E scope \in Scopes, k \in ModelStamps :
                 NewPending(p, f, i, k, scope) \/ JoinPending(p, f, i, k, scope)
    BY <1>2 DEF HandleInterest, ReplyFromCache, RejectScope, NotInCache
  <2>2. CASE DropDuplicate(p, f, i)
    BY <1>1, <2>2 DEF DropDuplicate
  <2>3. CASE FreshInterest(p, f, i)
    <3>1. i.nonce \in Nonces \union {NoNonce} /\ nonces' = AppendNonce(nonces, i.nonce)
      BY <2>3 DEF FreshInterest, Interests
    <3>2. i.nonce = NoNonce \/ IsDupNonce(nonces', i.nonce)
      BY <3>1, AppendNonceKeeps
    <3>3. CASE pit' = pit
      BY <3>1, <3>3 DEF Remembered
    <3>4. ASSUME NEW k, pit' = NewInterest(pit, k, i, f, {f})
          PROVE  Goal
      BY <3>1, <3>2, <3>4 DEF Remembered, NewInterest
    <3>5. ASSUME NEW k, pit' = AppendPending(pit, k, f)
          PROVE  Goal
      BY <3>1, <3>5 DEF Remembered, AppendPending, Table, Interest
    <3> QED
      BY <2>1, <2>2, <3>3, <3>4, <3>5 DEF NewPending, JoinPending
  <2> QED
    BY <2>1, <2>2, <2>3 DEF NewPending, JoinPending, NotInCache
<1>3. ASSUME NEW p \in Peers, NEW f \in ModelFaceIds, HandleContent(p, f)
      PROVE  Goal
  BY <1>3 DEF HandleContent, DropStateUpdate, IgnoreContent, ServeContent, ServedPit, Remembered
<1>4. ASSUME NEW p \in LocalPeers, NEW f \in ModelFaceIds, HandleMgmt(p, f)
      PROVE  Goal
  <2>1. nonces' = nonces
    BY <1>4 DEF HandleMgmt, MgmtNewFace, MgmtDestroyFace, MgmtPrefixReg, MgmtRemoveCacheObject,
                MgmtAddCacheObject
  <2>2. \/ pit' = pit
        \/ \E gone : pit' = PitWithoutFaces(pit, gone)
        \/ \E n \in Names, k \in ModelStamps : MgmtAddCacheObject(p, f, n, k)
    BY <1>4 DEF HandleMgmt, MgmtNewFace, MgmtDestroyFace, MgmtPrefixReg, MgmtRemoveCacheObject
  <2>3. ASSUME NEW n \in Names, NEW k \in ModelStamps, MgmtAddCacheObject(p, f, n, k)
        PROVE  Goal
    BY <2>1, <2>3 DEF MgmtAddCacheObject, Remembered, NewInterest
  <2> QED
    BY <1>1, <2>1, <2>2, <2>3, PitWithoutFacesPackets
<1>5. CASE Ageing
  <2>1. nonces' = nonces /\ pit' = PitWithoutFaces(AgedPit(pit), ExpiredFaces(AgedFaces(faces)))
    BY <1>5 DEF Ageing
  <2>2. Table(AgedPit(pit), Interest)
    BY AgedPitType
  <2>3. DOMAIN AgedPit(pit) \subseteq DOMAIN pit /\ \A k \in DOMAIN AgedPit(pit) : AgedPit(pit)[k].pkt = pit[k].pkt
    BY DEF AgedPit, Table, Interest
  <2>4. Remembered(AgedPit(pit), pit', nonces')
    BY <2>1, <2>2, PitWithoutFacesPackets
  <2> QED
    BY <2>1, <2>3, <2>4 DEF Remembered
<1> QED
  BY <1>1, <1>2, <1>3, <1>4, <1>5 DEF Next, vars

\* An interest that comes back in a loop is recognised, as long as the list of
\* nonces has not been full.
THEOREM LoopsSuppressed == Spec => []LoopSuppressed
<1>1. Init => LoopSuppressed
  BY DEF Init, LoopSuppressed
<1>2. TypeOK /\ LoopSuppressed /\ [Next]_vars => LoopSuppressed'
  <2> SUFFICES ASSUME TypeOK, LoopSuppressed, [Next]_vars, Len(nonces') < MaxNonces
               PROVE  \A k \in DOMAIN pit' :
                         pit'[k].pkt.nonce # NoNonce => IsDupNonce(nonces', pit'[k].pkt.nonce)
    BY DEF LoopSuppressed
  <2>1. Len(nonces) < MaxNonces /\ \A m : IsDupNonce(nonces, m) => IsDupNonce(nonces', m)
    BY StepRemembers, AppendNonceKeeps DEF TypeOK
  <2>2. Remembered(pit, pit', nonces')
    BY StepRemembers
  <2> QED
    BY <2>1, <2>2 DEF LoopSuppressed, Remembered
<1> QED
  BY <1>1, <1>2, TypeCorrect, PTL DEF Spec

-------------------------------------------------------------------------------
(* Clients leave the PIT for a reason                                      *)

\* The action of NoSilentDrop.
DropExplained ==
    \A k \in DOMAIN pit : \A f \in pit[k].pending :
        \/ k \in DOMAIN pit' /\ f \in pit'[k].pending
        \/ \E t \in sent' : t.to = f /\ t.pkt \in Contents /\ Matches(pit[k].pkt, t.pkt)
        \/ f \notin DOMAIN faces'
        \/ GivenUp(pit[k]) /\ Ageing

\* A PIT that loses faces keeps the other clients of its entries.
LEMMA OthersStay ==
    ASSUME NEW t, Table(t, Interest), NEW gone, NEW k \in DOMAIN t, NEW f \in t[k].pending,
           f \notin gone
    PROVE  /\ k \in DOMAIN PitWithoutFaces(t, gone)
           /\ f \in PitWithoutFaces(t, gone)[k].pending
BY DEF Table, Interest, PitWithoutFaces

\* Each step explains the clients it removes.
LEMMA StepExplains ==
    ASSUME TypeOK, [Next]_vars
    PROVE  DropExplained
<1> Table(pit, Interest)
  BY TablesOfTypeOK
<1>1. CASE pit' = pit
  BY <1>1 DEF DropExplained
<1>2. ASSUME NEW p \in Peers, NEW f \in ModelFaceIds, HandleInterest(p, f)
      PROVE  DropExplained
  <2>1. \/ pit' = pit
        \/ \E k \in ModelStamps : \E i : IsNewHead(pit, k) /\ pit' = NewInterest(pit, k, i, f, {f})
        \/ \E k : pit' = AppendPending(pit, k, f)
    BY <1>2 DEF HandleInterest, DropDuplicate, ReplyFromCache, RejectScope, NewPending,
                JoinPending, NotInCache
  <2>2. ASSUME NEW k \in ModelStamps, NEW i, IsNewHead(pit, k),
               pit' = NewInterest(pit, k, i, f, {f})
        PROVE  DropExplained
    BY <2>2, RelayAssumption DEF DropExplained, NewInterest, IsNewHead, ModelStamps
  <2>3. ASSUME NEW k, pit' = AppendPending(pit, k, f)
        PROVE  DropExplained
    BY <2>3 DEF DropExplained, AppendPending, Table, Interest
  <2> QED
    BY <1>1, <2>1, <2>2, <2>3
<1>3. ASSUME NEW p \in Peers, NEW f \in ModelFaceIds, HandleContent(p, f)
      PROVE  DropExplained
  <2>1. PICK c \in Contents : pit' = pit \/ ServeContent(p, f, c)
    BY <1>3 DEF HandleContent, DropStateUpdate, IgnoreContent
  <2>2. CASE ServeContent(p, f, c)
    <3>1. /\ pit' = [k \in DOMAIN pit \ Visited(pit, c) |-> pit[k]]
          /\ sent' = Transmit(c, ServedFaces(pit, c))
      BY <2>2 DEF ServeContent, ServedPit
    <3>2. ASSUME NEW k \in Visited(pit, c), NEW g \in pit[k].pending
          PROVE  \E t \in sent' : t.to = g /\ t.pkt \in Contents /\ Matches(pit[k].pkt, t.pkt)
      <4>1. [to |-> g, pkt |-> c] \in sent'
        BY <3>1 DEF Transmit, ServedFaces
      <4>2. Matches(pit[k].pkt, c)
        BY DEF Visited, Waiting
      <4> QED
        BY <4>1, <4>2
    <3> QED
      BY <3>1, <3>2 DEF DropExplained
  <2> QED
    BY <1>1, <2>1, <2>2
<1>4. ASSUME NEW p \in LocalPeers, NEW f \in ModelFaceIds, HandleMgmt(p, f)
      PROVE  DropExplained
  <2>1. \/ pit' = pit
        \/ \E gone : pit' = PitWithoutFaces(pit, gone) /\ gone \intersect DOMAIN faces' = {}
        \/ \E k \in ModelStamps : \E i : IsNewHead(pit, k) /\ pit' = NewInterest(pit, k, i, f, {})
    <3>1. CASE \E g \in ModelFaceIds : MgmtDestroyFace(p, f, g)
      BY <3>1 DEF MgmtDestroyFace, FacesWithout
    <3>2. CASE \E n \in Names, k \in ModelStamps : MgmtAddCacheObject(p, f, n, k)
      BY <3>2 DEF MgmtAddCacheObject
    <3> QED
      BY <1>4, <3>1, <3>2 DEF HandleMgmt, MgmtNewFace, MgmtPrefixReg, MgmtRemoveCacheObject
  <2>2. ASSUME NEW gone, pit' = PitWithoutFaces(pit, gone), gone \intersect DOMAIN faces' = {}
        PROVE  DropExplained
    BY <2>2, OthersStay DEF DropExplained
  <2>3. ASSUME NEW k \in ModelStamps, NEW i, IsNewHead(pit, k),
               pit' = NewInterest(pit, k, i, f, {})
        PROVE  DropExplained
    BY <2>3, RelayAssumption DEF DropExplained, NewInterest, IsNewHead, ModelStamps
  <2> QED
    BY <1>1, <2>1, <2>2, <2>3
<1>5. CASE Ageing
  <2> DEFINE gone == ExpiredFaces(AgedFaces(faces))
             kept == AgedPit(pit)
  <2>1. pit' = PitWithoutFaces(kept, gone) /\ faces' = FacesWithout(AgedFaces(faces), gone)
    BY <1>5 DEF Ageing
  <2>2. gone \intersect DOMAIN faces' = {}
    BY <2>1 DEF FacesWithout
  <2>3. Table(kept, Interest)
    BY AgedPitType
  <2>4. \A k \in DOMAIN pit : GivenUp(pit[k]) \/ (k \in DOMAIN kept /\ kept[k].pending = pit[k].pending)
    BY DEF AgedPit, Table, Interest
  <2> HIDE DEF gone, kept
  <2> QED
    BY <1>5, <2>1, <2>2, <2>3, <2>4, OthersStay DEF DropExplained
<1> QED
  BY <1>1, <1>2, <1>3, <1>4, <1>5 DEF Next, vars

\* A client stops waiting because data goes out to it, its face is gone, or
\* ageing gives the interest up.
THEOREM DropsExplained == Spec => NoSilentDrop
<1>1. TypeOK /\ [Next]_vars => [DropExplained]_vars
  BY StepExplains
<1> QED
  BY <1>1, TypeCorrect, PTL DEF Spec, NoSilentDrop, DropExplained

-------------------------------------------------------------------------------
(* The relay implements IcnNode, as long as nobody uploads                 *)

\* The requests a PIT stands for, and the data among the packets sent.
Wants(t) == UNION {{[client |-> f, name |-> t[k].pkt.name] : f \in t[k].pending} : k \in DOMAIN t}
Data(S) == {t \in S : t.pkt \in Contents}

\* A request comes from a client that is pending on an entry.
LEMMA InWants ==
    ASSUME NEW t, NEW r
    PROVE  r \in Wants(t) <=>
              \E k \in DOMAIN t : \E f \in t[k].pending : r = [client |-> f, name |-> t[k].pkt.name]
BY DEF Wants

\* A step of the relay that loses requests and contents, and sends no data.
LEMMA ForgetStep ==
    ASSUME Wants(pit') \subseteq Wants(pit), DOMAIN cs' \subseteq DOMAIN cs, Data(sent') = {}
    PROVE  Node!NodeNext
BY DEF Wants, Data, Node!NodeNext, Node!Forget

\* The instance has an operator IsPrefix of its own; it is the same one.
LEMMA SamePrefix == \A s, t : Node!IsPrefix(s, t) <=> IsPrefix(s, t)
BY DEF IsPrefix, Node!IsPrefix

\* A step of the relay that answers from the store.
LEMMA AnswerStep ==
    ASSUME NEW x \in ModelFaceIds, NEW n \in Names, NEW c \in DOMAIN cs, IsPrefix(n, c.name),
           Data(sent') = {[to |-> x, pkt |-> c]}, Wants(pit') = Wants(pit), DOMAIN cs' = DOMAIN cs
    PROVE  Node!NodeNext
<1>1. Node!Satisfies(c, [client |-> x, name |-> n])
  BY SamePrefix DEF Node!Satisfies
<1>2. Node!AnswerAtOnce(x, n)
  BY <1>1 DEF Node!AnswerAtOnce, Wants, Data
<1> QED
  BY <1>2 DEF Node!NodeNext

\* A step of the relay that keeps a request.
LEMMA AskStep ==
    ASSUME NEW x \in ModelFaceIds, NEW n \in Names, \A c \in DOMAIN cs : ~IsPrefix(n, c.name),
           Wants(pit') = Wants(pit) \union {[client |-> x, name |-> n]},
           Data(sent') = {}, DOMAIN cs' = DOMAIN cs
    PROVE  Node!NodeNext
<1>1. \A c \in DOMAIN cs : ~Node!Satisfies(c, [client |-> x, name |-> n])
  BY SamePrefix DEF Node!Satisfies
<1>2. Node!Ask(x, n)
  BY <1>1 DEF Node!Ask, Wants, Data
<1> QED
  BY <1>2 DEF Node!NodeNext

\* A step of the relay that serves a content.
LEMMA ArriveStep ==
    ASSUME NEW c \in Contents, c \notin DOMAIN cs,
           NEW served, served = {r \in Wants(pit) : IsPrefix(r.name, c.name)}, served # {},
           Data(sent') = {[to |-> r.client, pkt |-> c] : r \in served},
           Wants(pit') = Wants(pit) \ served,
           DOMAIN cs' = DOMAIN cs \/ (c \in DOMAIN cs' /\ DOMAIN cs' \subseteq DOMAIN cs \union {c})
    PROVE  Node!NodeNext
<1>1. served = {r \in Wants(pit) : Node!Satisfies(c, r)}
  BY SamePrefix DEF Node!Satisfies
<1>2. Node!Arrive(c)
  BY <1>1 DEF Node!Arrive, Wants, Data
<1> QED
  BY <1>2 DEF Node!NodeNext

\* Fewer entries with fewer clients are fewer requests.
LEMMA FewerWants ==
    ASSUME NEW t, NEW u, DOMAIN u \subseteq DOMAIN t,
           \A k \in DOMAIN u : u[k].pkt = t[k].pkt /\ u[k].pending \subseteq t[k].pending
    PROVE  Wants(u) \subseteq Wants(t)
BY DEF Wants

\* Removing faces is losing requests.
LEMMA PitWithoutFacesWants ==
    ASSUME NEW t, Table(t, Interest), NEW gone
    PROVE  Wants(PitWithoutFaces(t, gone)) \subseteq Wants(t)
<1>1. DOMAIN PitWithoutFaces(t, gone) \subseteq DOMAIN t
  BY PitWithoutFacesType
<1>2. \A k \in DOMAIN PitWithoutFaces(t, gone) :
         /\ PitWithoutFaces(t, gone)[k].pkt = t[k].pkt
         /\ PitWithoutFaces(t, gone)[k].pending \subseteq t[k].pending
  BY DEF Table, Interest, PitWithoutFaces
<1> QED
  BY <1>1, <1>2, FewerWants

\* The interest handler answers, asks or forgets.
LEMMA InterestImplements ==
    ASSUME TypeOK, TypeOK', NEW p \in Peers, NEW f \in ModelFaceIds, HandleInterest(p, f)
    PROVE  Node!NodeNext
<1> Table(pit, Interest)
  BY TablesOfTypeOK
<1>1. PICK i \in Interests :
         \/ DropDuplicate(p, f, i)
         \/ ReplyFromCache(p, f, i)
         \/ \E scope \in Scopes :
               \/ RejectScope(p, f, i, scope)
               \/ \E k \in ModelStamps : NewPending(p, f, i, k, scope)
               \/ \E k \in ModelStamps : JoinPending(p, f, i, k, scope)
  BY DEF HandleInterest
<1>2. i.name \in Names
  BY DEF Interests
<1>3. CASE sent' = {} /\ pit' = pit /\ cs' = cs
  BY <1>3, ForgetStep DEF Data
<1>4. CASE ReplyFromCache(p, f, i)
  <2>1. PICK c \in DOMAIN cs : Matches(i, c) /\ sent' = Transmit(c, {f})
    BY <1>4 DEF ReplyFromCache
  <2>2. sent' = {[to |-> f, pkt |-> c]} /\ c \in Contents
    BY <2>1 DEF Transmit, TypeOK
  <2>3. Data(sent') = {[to |-> f, pkt |-> c]}
    BY <2>2 DEF Data
  <2>4. pit' = pit /\ cs' = cs
    BY <1>4 DEF ReplyFromCache
  <2> QED
    BY <1>2, <2>1, <2>3, <2>4, AnswerStep DEF Matches
<1>5. ASSUME NEW k \in ModelStamps, NEW scope \in Scopes,
             NewPending(p, f, i, k, scope) \/ JoinPending(p, f, i, k, scope)
      PROVE  Node!NodeNext
  <2>1. /\ k \in DOMAIN pit' /\ sent' = Propagate(faces', fib, pit'[k])
        /\ cs' = cs /\ \A c \in DOMAIN cs : ~Matches(i, c)
    BY <1>5 DEF NewPending, JoinPending, NotInCache, NewInterest, AppendPending, SameInterest
  <2>2. Data(sent') = {}
    BY <2>1, PropagateNoData DEF TypeOK, Data
  <2>3. Wants(pit') = Wants(pit) \union {[client |-> f, name |-> i.name]}
    <3>1. CASE NewPending(p, f, i, k, scope)
      <4>1. k \notin DOMAIN pit /\ pit' = NewInterest(pit, k, i, f, {f})
        BY <3>1, RelayAssumption DEF NewPending, IsNewHead, ModelStamps
      <4>2. /\ DOMAIN pit' = DOMAIN pit \union {k}
            /\ pit'[k].pkt = i /\ pit'[k].pending = {f}
            /\ \A j \in DOMAIN pit : pit'[j] = pit[j]
        BY <4>1 DEF NewInterest
      <4>3. [client |-> f, name |-> i.name] \in Wants(pit')
        BY <4>2 DEF Wants
      <4>4. ASSUME NEW j \in DOMAIN pit, NEW g \in pit[j].pending
            PROVE  [client |-> g, name |-> pit[j].pkt.name] \in Wants(pit')
        BY <4>2 DEF Wants
      <4>5. ASSUME NEW j \in DOMAIN pit', NEW g \in pit'[j].pending
            PROVE  \/ [client |-> g, name |-> pit'[j].pkt.name] \in Wants(pit)
                   \/ g = f /\ pit'[j].pkt.name = i.name
        BY <4>2 DEF Wants
      <4>6. \A r \in Wants(pit) : r \in Wants(pit')
        BY <4>4, InWants
      <4>7. \A r \in Wants(pit') : r \in Wants(pit) \/ r = [client |-> f, name |-> i.name]
        BY <4>5, InWants
      <4> QED
        BY <4>3, <4>6, <4>7
    <3>2. CASE JoinPending(p, f, i, k, scope)
      <4>1. k \in DOMAIN pit /\ pit[k].pkt.name = i.name /\ pit' = AppendPending(pit, k, f)
        BY <3>2 DEF JoinPending, SameInterest
      <4>2. /\ DOMAIN pit' = DOMAIN pit
            /\ pit'[k].pkt = pit[k].pkt /\ pit'[k].pending = pit[k].pending \union {f}
            /\ \A j \in DOMAIN pit \ {k} : pit'[j] = pit[j]
        BY <4>1 DEF AppendPending, Table, Interest
      <4> QED
        BY <4>1, <4>2 DEF Wants
    <3> QED
      BY <1>5, <3>1, <3>2
  <2> QED
    BY <1>2, <2>1, <2>2, <2>3, AskStep DEF Matches
<1> QED
  BY <1>1, <1>3, <1>4, <1>5 DEF DropDuplicate, RejectScope, NotInCache

\* A content that comes in serves every request it satisfies.
LEMMA ContentImplements ==
    ASSUME TypeOK, Asked(pit), Within(cs), NEW p \in Peers, NEW f \in ModelFaceIds, HandleContent(p, f)
    PROVE  Node!NodeNext
<1>1. PICK c \in Contents : \/ sent' = {} /\ pit' = pit /\ cs' = cs
                            \/ ServeContent(p, f, c)
  BY DEF HandleContent, DropStateUpdate, IgnoreContent
<1>2. CASE sent' = {} /\ pit' = pit /\ cs' = cs
  BY <1>2, ForgetStep DEF Data
<1>3. CASE ServeContent(p, f, c)
  <2> DEFINE served == {r \in Wants(pit) : IsPrefix(r.name, c.name)}
  <2>1. Visited(pit, c) = Waiting(pit, c)
    BY DEF Visited, Hooks, Waiting, Asked
  <2>2. /\ pit' = [k \in DOMAIN pit \ Waiting(pit, c) |-> pit[k]]
        /\ sent' = Transmit(c, UNION {pit[k].pending : k \in Waiting(pit, c)})
        /\ Waiting(pit, c) # {} /\ c \notin DOMAIN cs
    BY <1>3, <2>1 DEF ServeContent, ServedPit, ServedFaces
  <2>3. served # {}
    <3>1. PICK k \in DOMAIN pit : Matches(pit[k].pkt, c)
      BY <2>2 DEF Waiting
    <3>2. PICK g : g \in pit[k].pending
      BY DEF Asked
    <3>3. [client |-> g, name |-> pit[k].pkt.name] \in served
      BY <3>1, <3>2 DEF Wants, Matches
    <3> QED
      BY <3>3
  <2>4. Wants(pit') = Wants(pit) \ served
    BY <2>2 DEF Wants, Waiting, Matches
  <2>5. Data(sent') = {[to |-> r.client, pkt |-> c] : r \in served}
    <3>1. Data(sent') = {[to |-> g, pkt |-> c] : g \in UNION {pit[k].pending : k \in Waiting(pit, c)}}
      BY <2>2 DEF Data, Transmit
    <3>2. ASSUME NEW k \in Waiting(pit, c), NEW g \in pit[k].pending
          PROVE  \E r \in served : r.client = g
      <4>1. [client |-> g, name |-> pit[k].pkt.name] \in served
        BY DEF Wants, Waiting, Matches
      <4> QED
        BY <4>1
    <3>3. ASSUME NEW r \in served
          PROVE  \E k \in Waiting(pit, c) : r.client \in pit[k].pending
      BY DEF Wants, Waiting, Matches
    <3> HIDE DEF served
    <3> QED
      BY <3>1, <3>2, <3>3
  <2>7. served = {r \in Wants(pit) : IsPrefix(r.name, c.name)}
    OBVIOUS
  <2>6. DOMAIN cs' = DOMAIN cs \/ (c \in DOMAIN cs' /\ DOMAIN cs' \subseteq DOMAIN cs \union {c})
    <3>1. CASE cs' = cs
      BY <3>1
    <3>2. CASE cs' \in AddToCache(cs, c, Hooks(pit, c) # {})
      BY <2>2, <3>2, TablesOfTypeOK, AddToCacheType, AddToCacheWithin
    <3> QED
      BY <1>3, <3>1, <3>2 DEF ServeContent
  <2> HIDE DEF served
  <2> QED
    BY <2>2, <2>3, <2>4, <2>5, <2>6, <2>7, ArriveStep
<1> QED
  BY <1>1, <1>2, <1>3

\* Management commands but addcacheobject, and ageing, only forget.
LEMMA OthersImplement ==
    ASSUME Uploaders = {}, TypeOK, TypeOK',
           Ageing \/ \E p \in LocalPeers, f \in ModelFaceIds : HandleMgmt(p, f)
    PROVE  Node!NodeNext
<1> Table(pit, Interest)
  BY TablesOfTypeOK
<1>1. CASE Ageing
  <2> DEFINE kept == AgedPit(pit)
  <2>1. /\ pit' = PitWithoutFaces(kept, ExpiredFaces(AgedFaces(faces))) /\ cs' = AgedCs(cs)
        /\ sent' = UNION {Propagate(faces, fib, kept[k]) : k \in DOMAIN kept}
    BY <1>1 DEF Ageing
  <2>2. DOMAIN cs' \subseteq DOMAIN cs
    BY <2>1, TablesOfTypeOK, AgedCsType
  <2>3. Table(kept, Interest) /\ DOMAIN kept \subseteq DOMAIN pit
    BY AgedPitType
  <2>4. \A k \in DOMAIN kept : kept[k].pkt = pit[k].pkt /\ kept[k].pending = pit[k].pending
    BY DEF AgedPit, Table, Interest
  <2> HIDE DEF kept
  <2>5. Data(sent') = {}
    BY <2>1, <2>3, PropagateNoData DEF Data, Table
  <2>6. Wants(pit') \subseteq Wants(pit)
    BY <2>1, <2>3, <2>4, PitWithoutFacesWants, FewerWants
  <2> QED
    BY <2>2, <2>5, <2>6, ForgetStep
<1>2. ASSUME NEW p \in LocalPeers, NEW f \in ModelFaceIds, HandleMgmt(p, f)
      PROVE  Node!NodeNext
  <2>1. DOMAIN cs' \subseteq DOMAIN cs
    BY <1>2 DEF HandleMgmt, MgmtNewFace, MgmtDestroyFace, MgmtPrefixReg, MgmtRemoveCacheObject, CsWithout
  <2>2. pit' = pit \/ \E gone : pit' = PitWithoutFaces(pit, gone)
    BY <1>2 DEF HandleMgmt, MgmtNewFace, MgmtDestroyFace, MgmtPrefixReg, MgmtRemoveCacheObject
  <2>3. sent' = {}
    BY <1>2 DEF HandleMgmt, MgmtNewFace, MgmtDestroyFace, MgmtPrefixReg, MgmtRemoveCacheObject
  <2> QED
    BY <2>1, <2>2, <2>3, PitWithoutFacesWants, ForgetStep DEF Data
<1> QED
  BY <1>1, <1>2

\* The promise to the clients: requests are answered from the store, kept, or
\* served when the content comes in, and nothing else happens to them.
THEOREM RelayImplementsNode ==
    ASSUME Uploaders = {}
    PROVE  Spec => Contract
<1> DEFINE RelayInv == NoneWaitsInVain /\ Within(cs)
<1>1. Init => RelayInv
  BY InitWithin DEF Init, NoneWaitsInVain, Aggregated, Asked
<1>2. TypeOK /\ RelayInv /\ [Next]_vars => RelayInv'
  BY StepWaits, StepWithin
<1>3. Init => Node!NodeInit
  BY DEF Init, Node!NodeInit
<1>4. TypeOK /\ TypeOK' /\ RelayInv /\ [Next]_vars => [Node!NodeNext]_(Node!nodeVars)
  <2> SUFFICES ASSUME TypeOK, TypeOK', RelayInv, [Next]_vars
               PROVE  [Node!NodeNext]_(Node!nodeVars)
    OBVIOUS
  <2>1. CASE UNCHANGED vars
    BY <2>1 DEF vars, Node!nodeVars
  <2>2. CASE Next
    BY <2>2, InterestImplements, ContentImplements, OthersImplement DEF Next, NoneWaitsInVain
  <2> QED
    BY <2>1, <2>2
<1> QED
  BY <1>1, <1>2, <1>3, <1>4, TypeCorrect, PTL DEF Spec, Contract, Node!NodeSpec
===============================================================================
