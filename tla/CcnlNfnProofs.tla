----------------------------- MODULE CcnlNfnProofs -----------------------------
(***************************************************************************)
(* What holds of the named-function engine for all names, calls, clients   *)
(* and limits: types, that the computations are counted, what suspended    *)
(* computations wait for, and that clients are served.                     *)
(***************************************************************************)
EXTENDS CcnlNfn, FiniteSetTheorems, TLAPS

-------------------------------------------------------------------------------
(* The inductive invariant                                                 *)

\* A PIT whose entries are those of clients that wait, and of computations
\* in C.
PitOf(p, C) ==
    /\ p \in [DOMAIN p -> Interest] /\ DOMAIN p \subseteq Key
    /\ \A k \in DOMAIN p : IF k.config = NoConfig THEN p[k].pending # {} ELSE k.config \in C

StoreOf(s) == s \in [DOMAIN s -> BOOLEAN] /\ DOMAIN s \subseteq Names

\* Computations for different requests.
ConfigsOf(cs) ==
    /\ cs \in [DOMAIN cs -> Computation]
    /\ \A c, d \in DOMAIN cs : cs[c].request = cs[d].request => c = d

\* The computations in the PIT and those to be resumed are in the list.
NfnInv ==
    /\ PitOf(pit, DOMAIN configs)
    /\ StoreOf(store)
    /\ ConfigsOf(configs)
    /\ lastId \in 0 .. MaxConfigs
    /\ DOMAIN configs \subseteq 1 .. lastId
    /\ running \in 0 .. MaxRunning
    /\ running = Cardinality(DOMAIN configs)
    /\ todo \subseteq DOMAIN configs
    /\ sent \subseteq Sent

\* The invariant is stronger than the two that are checked.
LEMMA InvImplies == NfnInv => TypeOK /\ CountedOnce
BY DEF NfnInv, PitOf, StoreOf, ConfigsOf, TypeOK, CountedOnce

-------------------------------------------------------------------------------
(* The PIT                                                                 *)

\* What is left of a PIT is one.
LEMMA WithoutPit ==
  ASSUME NEW p, NEW C, PitOf(p, C), NEW gone
  PROVE  PitOf(Without(p, gone), C)
BY DEF PitOf, Without

\* Without the interests of a computation, the PIT knows it no more.
LEMMA WithoutOwnPit ==
  ASSUME NEW p, NEW C, PitOf(p, C), NEW d \in ConfigIds
  PROVE  PitOf(Without(p, {k \in DOMAIN p : k.config = d}), C \ {d})
BY DEF PitOf, Without, ConfigIds, NoConfig

\* The PIT of some computations is one of more computations.
LEMMA MorePit ==
  ASSUME NEW p, NEW C, NEW D, PitOf(p, C), C \subseteq D
  PROVE  PitOf(p, D)
BY DEF PitOf

\* To let interests propagate is no change of who waits for them.
LEMMA PropagatingPit ==
  ASSUME NEW p, NEW C, PitOf(p, C), NEW n
  PROVE  PitOf(Propagating(p, n), C)
<1>1. ASSUME NEW k \in DOMAIN p
      PROVE  /\ [p[k] EXCEPT !.propagates = TRUE] \in Interest
             /\ [p[k] EXCEPT !.propagates = TRUE].pending = p[k].pending
  BY DEF PitOf, Interest
<1> QED BY <1>1 DEF PitOf, Propagating

\* An interest of computation d.
LEMMA WithOwnInterestPit ==
  ASSUME NEW p, NEW C, PitOf(p, C), NEW n \in Names, NEW d \in ConfigIds, d \in C
  PROVE  PitOf(WithOwnInterest(p, n, d), C)
<1> DEFINE k0 == [name |-> n, config |-> d]
           i0 == [from |-> NoFace, pending |-> {}, propagates |-> TRUE]
<1>1. k0 \in Key /\ k0.config = d /\ d # NoConfig
  BY DEF Key, ConfigIds, NoConfig
<1>2. i0 \in Interest
  BY DEF Interest
<1>3. WithOwnInterest(p, n, d) = [k \in DOMAIN p \union {k0} |-> IF k = k0 THEN i0 ELSE p[k]]
  BY DEF WithOwnInterest
<1> HIDE DEF k0, i0
<1> QED BY <1>1, <1>2, <1>3 DEF PitOf

\* An interest of a client.
LEMMA WithInterestPit ==
  ASSUME NEW C, PitOf(pit, C), NEW f \in Clients, NEW n \in Names, NEW b \in BOOLEAN
  PROVE  PitOf(WithInterest(f, n, b), C)
<1> DEFINE k0 == [name |-> n, config |-> NoConfig]
           i0 == [from |-> f, pending |-> {f}, propagates |-> b]
<1>1. k0 \in Key /\ k0.config = NoConfig
  BY DEF Key, NoConfig
<1>2. i0 \in Interest /\ i0.pending # {}
  BY DEF Interest
<1>3. WithInterest(f, n, b) = [k \in DOMAIN pit \union {k0} |-> IF k = k0 THEN i0 ELSE pit[k]]
  BY DEF WithInterest
<1> HIDE DEF k0, i0
<1> QED BY <1>1, <1>2, <1>3 DEF PitOf

\* What is served is entries of that name, and those who wait are clients.
LEMMA ServedType ==
  ASSUME NEW p, NEW C, PitOf(p, C), NEW n, NEW served \in ServedSets(p, n)
  PROVE  served \subseteq DOMAIN p /\ WaitingOn(p, served) \subseteq Clients
<1>1. served \subseteq KeysNamed(p, n)
  BY DEF ServedSets
<1>2. served \subseteq DOMAIN p
  BY <1>1 DEF KeysNamed
<1>3. \A k \in DOMAIN p : p[k].pending \subseteq Clients
  BY DEF PitOf, Interest
<1> QED BY <1>2, <1>3 DEF WaitingOn

\* What is sent is data to clients and interests.
LEMMA SentType ==
  /\ \A n \in Names, fs \in SUBSET Clients : Data(n, fs) \subseteq Sent
  /\ \A ns \in SUBSET Names : Emit(ns) \subseteq Sent
  /\ {} \subseteq Sent
BY DEF Data, Emit, Sent

\* A content that is stored has a name.
LEMMA StoreType ==
  ASSUME StoreOf(store), NEW n \in Names, NEW b \in BOOLEAN
  PROVE  StoreOf(WithContent(n, b))
BY DEF StoreOf, WithContent

-------------------------------------------------------------------------------
(* Computations                                                            *)

\* What a computation asks for is a name.
LEMMA NextAskType ==
  ASSUME NEW c \in Computation
  PROVE  NextAsk(c) \in Names \union {NoName}
<1> USE NfnAssumption
<1>1. c.request \in Nfn /\ c.round \in Nat
  BY DEF Computation
<1>2. ComputeName[c.request] \in Names /\ c.request \in Names
  BY <1>1 DEF Names
<1>3. ASSUME c.round < Arity[c.request] PROVE AskName(c, c.round + 1) \in Names
  <2>1. Arity[c.request] \in Nat /\ c.round + 1 \in 1 .. Arity[c.request]
    BY <1>1, <1>3
  <2>2. Param[c.request][c.round + 1] \in Plain /\ CallName[c.request][c.round + 1] \in Nfn
    BY <1>1, <2>1
  <2> QED BY <1>2, <2>2 DEF AskName, Names
<1> QED BY <1>2, <1>3 DEF NextAsk

\* The computation that is left serves the same request.
LEMMA NextComputationType ==
  ASSUME NEW c \in Computation
  PROVE  NextComputation(c) \in Computation /\ NextComputation(c).request = c.request
<1>1. /\ c.request \in Nfn /\ c.round \in Nat /\ c.startLocally \in BOOLEAN /\ c.prog \in {"FOX", "over"}
      /\ c = [request |-> c.request, round |-> c.round, startLocally |-> c.startLocally, prog |-> c.prog]
  BY DEF Computation
<1>2. [c EXCEPT !.round = c.round + 1] =
        [request |-> c.request, round |-> c.round + 1, startLocally |-> c.startLocally, prog |-> c.prog]
  BY <1>1
<1>3. [c EXCEPT !.prog = "over"] =
        [request |-> c.request, round |-> c.round, startLocally |-> c.startLocally, prog |-> "over"]
  BY <1>1
<1> QED BY <1>1, <1>2, <1>3 DEF NextComputation, Computation

\* The list with one computation more, or less, is finite and counted.
LEMMA Counting ==
  ASSUME NEW n \in Nat, NEW D \in SUBSET (1 .. n)
  PROVE  /\ IsFiniteSet(D) /\ Cardinality(D) \in Nat
         /\ \A d : Cardinality(D \union {d}) = IF d \in D THEN Cardinality(D) ELSE Cardinality(D) + 1
         /\ \A d : Cardinality(D \ {d}) = IF d \in D THEN Cardinality(D) - 1 ELSE Cardinality(D)
<1>1. IsFiniteSet(1 .. n)
  BY FS_Interval
<1>2. IsFiniteSet(D)
  BY <1>1, FS_Subset
<1>3. Cardinality(D) \in Nat
  BY <1>2, FS_CardinalityType
<1> QED BY <1>2, <1>3, FS_AddElement, FS_RemoveElement

\* A reduction of computation d, which is new or was just taken from the PIT:
\* it is in the list afterwards and counted, or it is not and was discounted.
LEMMA ReductionInv ==
  ASSUME StoreOf(store), ConfigsOf(configs),
         NEW n \in Nat, NEW d \in 1 .. n, DOMAIN configs \subseteq 1 .. n,
         NEW c \in Computation, d \in DOMAIN configs => configs[d].request = c.request,
         \A x \in DOMAIN configs : configs[x].request = c.request => x = d,
         NEW p, PitOf(p, DOMAIN configs \ {d}),
         NEW count \in 0 .. MaxRunning, count = Cardinality(DOMAIN configs \union {d}),
         Reduction(d, c, p, count)
  PROVE  /\ PitOf(pit, DOMAIN configs)' /\ StoreOf(store)' /\ ConfigsOf(configs)'
         /\ DOMAIN configs' \subseteq 1 .. n
         /\ running' \in 0 .. MaxRunning /\ running' = Cardinality(DOMAIN configs')
         /\ sent' \subseteq Sent
<1> USE NfnAssumption
<1>1. c.request \in Names /\ d \in ConfigIds
  BY DEF Computation, Names, ConfigIds
<1>2. CASE HasResult(c)
  <2>1. PICK served \in ServedSets(p, c.request) :
           /\ pit' = Without(Propagating(p, c.request), served)
           /\ sent' = Data(c.request, WaitingOn(p, served))
    BY <1>2 DEF Reduction
  <2>2. /\ store' = WithContent(c.request, TRUE)
        /\ configs' = Without(configs, {d}) /\ running' = count - 1
    BY <1>2 DEF Reduction
  <2>3. DOMAIN configs' = DOMAIN configs \ {d} /\ \A x \in DOMAIN configs' : configs'[x] = configs[x]
    BY <2>2 DEF Without
  <2>4. PitOf(pit', DOMAIN configs')
    BY <2>1, <2>3, PropagatingPit, WithoutPit
  <2>5. sent' \subseteq Sent
    BY <1>1, <2>1, ServedType, SentType
  <2>6. StoreOf(store')
    BY <1>1, <2>2, StoreType
  <2>7. ConfigsOf(configs')
    BY <2>2, <2>3 DEF ConfigsOf, Without
  <2>8. running' = Cardinality(DOMAIN configs') /\ running' \in 0 .. MaxRunning
    <3>1. /\ Cardinality(DOMAIN configs) \in Nat
          /\ Cardinality(DOMAIN configs \union {d}) =
               IF d \in DOMAIN configs THEN Cardinality(DOMAIN configs) ELSE Cardinality(DOMAIN configs) + 1
          /\ Cardinality(DOMAIN configs \ {d}) =
               IF d \in DOMAIN configs THEN Cardinality(DOMAIN configs) - 1 ELSE Cardinality(DOMAIN configs)
          /\ Cardinality(DOMAIN configs \ {d}) \in Nat
      BY Counting
    <3> QED BY <2>2, <2>3, <3>1
  <2> QED BY <2>3, <2>4, <2>5, <2>6, <2>7, <2>8 DEF PitOf, StoreOf, ConfigsOf
<1>3. CASE ~HasResult(c)
  <2>1. /\ IF NextAsk(c) = NoName THEN pit' = p /\ sent' = {}
           ELSE pit' = WithOwnInterest(p, NextAsk(c), d) /\ sent' = Emit({NextAsk(c)})
        /\ configs' = [x \in DOMAIN configs \union {d} |->
                          IF x = d THEN NextComputation(c) ELSE configs[x]]
        /\ running' = count /\ store' = store
    BY <1>3 DEF Reduction
  <2>2. /\ DOMAIN configs' = DOMAIN configs \union {d} /\ configs'[d] = NextComputation(c)
        /\ \A x \in DOMAIN configs : x # d => configs'[x] = configs[x]
    BY <2>1
  <2>3. PitOf(p, DOMAIN configs')
    BY <2>2, MorePit
  <2>4. PitOf(pit', DOMAIN configs') /\ sent' \subseteq Sent
    <3>1. CASE NextAsk(c) = NoName
      BY <2>1, <2>3, <3>1
    <3>2. CASE NextAsk(c) # NoName
      <4>1. NextAsk(c) \in Names
        BY <3>2, NextAskType
      <4> QED BY <1>1, <2>1, <2>2, <2>3, <3>2, <4>1, WithOwnInterestPit, SentType
    <3> QED BY <3>1, <3>2
  <2>5. ConfigsOf(configs')
    <3>1. configs' \in [DOMAIN configs' -> Computation]
      BY <2>1, <2>2, NextComputationType DEF ConfigsOf
    <3>2. \A x \in DOMAIN configs' : configs'[x].request = IF x = d THEN c.request ELSE configs[x].request
      BY <2>2, NextComputationType
    <3> QED BY <2>2, <3>1, <3>2 DEF ConfigsOf
  <2> QED BY <2>1, <2>2, <2>4, <2>5 DEF PitOf, StoreOf, ConfigsOf
<1> QED BY <1>2, <1>3

-------------------------------------------------------------------------------
(* The steps                                                               *)

\* The names that are asked for and that arrive are names; no key has a
\* computation of another kind.
LEMMA AskedType == Asked \subseteq Names /\ Arriving \subseteq Names /\ Nfn \subseteq Names
BY NfnAssumption DEF Names

\* An interest that is answered, joined or made changes no computation.
LEMMA QuietInterest ==
  ASSUME NfnInv, NEW f \in Clients, NEW n \in Names,
         \/ ReplyFromStore(f, n)
         \/ \E k \in KeysNamed(pit, n) : JoinPending(f, k)
         \/ ForwardInterest(f, n) \/ WaitForComputation(f, n) \/ HandOn(f, n)
  PROVE  NfnInv'
<1> USE DEF NfnInv
<1>1. CASE ReplyFromStore(f, n)
  <2>1. sent' \subseteq Sent
    BY <1>1, SentType DEF ReplyFromStore
  <2> QED BY <1>1, <2>1 DEF ReplyFromStore, PitOf, StoreOf, ConfigsOf
<1>2. ASSUME NEW k \in KeysNamed(pit, n), JoinPending(f, k) PROVE NfnInv'
  <2>1. k \in DOMAIN pit /\ k.name = n
    BY DEF KeysNamed
  <2>2. [pit[k] EXCEPT !.pending = pit[k].pending \union {f}] \in Interest
    BY <2>1 DEF PitOf, Interest
  <2>3. [pit[k] EXCEPT !.pending = pit[k].pending \union {f}].pending # {}
    BY <2>1 DEF PitOf, Interest
  <2>4. pit' = [pit EXCEPT ![k] = [pit[k] EXCEPT !.pending = pit[k].pending \union {f}]]
    BY <1>2 DEF JoinPending
  <2>5. PitOf(pit', DOMAIN configs)
    BY <2>1, <2>2, <2>3, <2>4 DEF PitOf
  <2>6. sent' \subseteq Sent
    BY <1>2, <2>1, SentType DEF JoinPending
  <2> QED BY <1>2, <2>5, <2>6 DEF JoinPending, PitOf, StoreOf, ConfigsOf
<1>3. CASE ForwardInterest(f, n)
  <2>1. PitOf(pit', DOMAIN configs)
    BY <1>3, WithInterestPit DEF ForwardInterest
  <2>2. sent' \subseteq Sent
    BY <1>3, SentType DEF ForwardInterest
  <2> QED BY <1>3, <2>1, <2>2 DEF ForwardInterest, PitOf, StoreOf, ConfigsOf
<1>4. CASE WaitForComputation(f, n)
  <2>1. PitOf(pit', DOMAIN configs)
    BY <1>4, WithInterestPit DEF WaitForComputation
  <2> QED BY <1>4, <2>1 DEF WaitForComputation, PitOf, StoreOf, ConfigsOf
<1>5. CASE HandOn(f, n)
  <2>1. PitOf(pit', DOMAIN configs)
    BY <1>5, WithInterestPit DEF HandOn
  <2>2. sent' \subseteq Sent
    BY <1>5, SentType DEF HandOn
  <2> QED BY <1>5, <2>1, <2>2 DEF HandOn, PitOf, StoreOf, ConfigsOf
<1> QED BY <1>1, <1>2, <1>3, <1>4, <1>5

\* A computation that is started is one more, and for another request.
LEMMA Started ==
  ASSUME NfnInv, NEW f \in Clients, NEW e \in Names, StartComputation(f, e)
  PROVE  NfnInv'
<1> USE DEF NfnInv
<1> DEFINE c == [request |-> e, round |-> 0, startLocally |-> e \in Routed, prog |-> "FOX"]
           d == lastId + 1
           p == WithInterest(f, e, FALSE)
<1>1. lastId' = d /\ d \in 1 .. d /\ d \in 0 .. MaxConfigs /\ d \in Nat /\ d \notin DOMAIN configs
  BY NfnAssumption DEF StartComputation
<1>2. e \in Nfn /\ running + 1 \in 0 .. MaxRunning /\ (\A x \in DOMAIN configs : configs[x].request # e)
  BY NfnAssumption DEF StartComputation, AcceptRequest, AlreadyComputing, IsComputing
<1>3. c \in Computation /\ c.request = e
  BY <1>2 DEF Computation
<1>4. PitOf(p, DOMAIN configs \ {d})
  <2>1. DOMAIN configs \ {d} = DOMAIN configs
    BY <1>1
  <2> QED BY <2>1, WithInterestPit
<1>5. running + 1 = Cardinality(DOMAIN configs \union {d})
  BY <1>1, Counting
<1>6. Reduction(d, c, p, running + 1) /\ todo' = todo
  BY DEF StartComputation
<1>7. todo \subseteq DOMAIN configs'
  BY <1>1, <1>6 DEF Reduction, Without
<1>8. DOMAIN configs \subseteq 1 .. d
  BY <1>1
<1> HIDE DEF c, d, p
<1>9. /\ PitOf(pit, DOMAIN configs)' /\ StoreOf(store)' /\ ConfigsOf(configs)'
      /\ DOMAIN configs' \subseteq 1 .. d
      /\ running' \in 0 .. MaxRunning /\ running' = Cardinality(DOMAIN configs')
      /\ sent' \subseteq Sent
  BY <1>1, <1>2, <1>3, <1>4, <1>5, <1>6, <1>8, ReductionInv
<1> QED BY <1>1, <1>6, <1>7, <1>9

\* A content that arrives is ignored, kept for computations, or served.
LEMMA ContentStep ==
  ASSUME NfnInv, NEW n \in Names, HandleContent(n)
  PROVE  NfnInv'
<1> USE DEF NfnInv
<1>1. CASE IgnoreContent(n)
  BY <1>1 DEF IgnoreContent, PitOf, StoreOf, ConfigsOf
<1>2. CASE AnswerComputations(n)
  <2>1. StoreOf(store')
    BY <1>2, StoreType DEF AnswerComputations
  <2>2. todo' \subseteq DOMAIN configs
    BY <1>2 DEF AnswerComputations, OwnInterests, KeysNamed, PitOf
  <2> QED BY <1>2, <2>1, <2>2 DEF AnswerComputations, PitOf, StoreOf, ConfigsOf
<1>3. CASE ServeContent(n)
  <2>1. PICK served \in ServedSets(pit, n) :
           /\ pit' = Without(pit, served)
           /\ sent' = Data(n, WaitingOn(pit, served))
           /\ store' = WithContent(n, \E k \in served : pit[k].pending = {})
    BY <1>3 DEF ServeContent
  <2>2. PitOf(pit', DOMAIN configs)
    BY <2>1, WithoutPit
  <2>3. sent' \subseteq Sent
    BY <2>1, ServedType, SentType
  <2>4. StoreOf(store')
    BY <2>1, StoreType
  <2> QED BY <1>3, <2>2, <2>3, <2>4 DEF ServeContent, PitOf, StoreOf, ConfigsOf
<1> QED BY <1>1, <1>2, <1>3 DEF HandleContent

\* Ageing and the removal of a face say which computations are to be resumed:
\* entries nobody waits for are those of computations.
LEMMA AgeingStep ==
  ASSUME NfnInv,
         \/ \E k \in DOMAIN pit : GiveUp(k)
         \/ Retransmit
         \/ \E n \in Names : ForgetContent(n)
         \/ RemoveFace
  PROVE  NfnInv'
<1> USE DEF NfnInv
<1>1. ASSUME NEW k \in DOMAIN pit, GiveUp(k) PROVE NfnInv'
  <2>1. PitOf(pit', DOMAIN configs)
    BY <1>1, WithoutPit DEF GiveUp
  <2>2. todo' \subseteq DOMAIN configs
    BY <1>1 DEF GiveUp, PitOf
  <2> QED BY <1>1, <2>1, <2>2 DEF GiveUp, PitOf, StoreOf, ConfigsOf
<1>2. CASE Retransmit
  <2>1. {k.name : k \in {x \in DOMAIN pit : pit[x].propagates}} \subseteq Names
    BY DEF PitOf, Key
  <2>2. sent' \subseteq Sent
    BY <1>2, <2>1, SentType DEF Retransmit
  <2> QED BY <1>2, <2>2 DEF Retransmit, PitOf, StoreOf, ConfigsOf
<1>3. ASSUME NEW n \in Names, ForgetContent(n) PROVE NfnInv'
  <2>1. StoreOf(store')
    BY <1>3 DEF ForgetContent, StoreOf, Without
  <2> QED BY <1>3, <2>1 DEF ForgetContent, PitOf, StoreOf, ConfigsOf
<1>4. CASE RemoveFace
  <2>1. todo' \subseteq DOMAIN configs
    BY <1>4 DEF RemoveFace, PitOf
  <2> QED BY <1>4, <2>1 DEF RemoveFace, PitOf, StoreOf, ConfigsOf
<1> QED BY <1>1, <1>2, <1>3, <1>4

\* A computation that is resumed is taken from the PIT and goes on.
LEMMA Resumed ==
  ASSUME NfnInv, NEW d \in 1 .. MaxConfigs, ResumeNext(d)
  PROVE  NfnInv'
<1> USE DEF NfnInv
<1> DEFINE c == configs[d]
           q == Without(pit, {k \in DOMAIN pit : k.config = d})
           p == IF c.prog = "FOX" THEN Propagating(q, AskName(c, c.round)) ELSE q
<1>1. d \in DOMAIN configs /\ d \in 1 .. lastId /\ d \in ConfigIds /\ lastId \in Nat
  BY NfnAssumption DEF ResumeNext, ConfigIds
<1>2. c \in Computation /\ \A x \in DOMAIN configs : configs[x].request = c.request => x = d
  BY <1>1 DEF ConfigsOf
<1>3. PitOf(p, DOMAIN configs \ {d})
  BY <1>1, WithoutOwnPit, PropagatingPit
<1>4. running = Cardinality(DOMAIN configs \union {d})
  <2>1. DOMAIN configs \union {d} = DOMAIN configs
    BY <1>1
  <2> QED BY <2>1
<1>5. Reduction(d, c, p, running) /\ lastId' = lastId
      /\ todo' = (todo \ {d}) \intersect OwnConfigs(pit')
  BY DEF ResumeNext
<1>6. todo' \subseteq DOMAIN configs'
  BY <1>5 DEF Reduction, Without
<1> HIDE DEF c, q, p
<1>7. /\ PitOf(pit, DOMAIN configs)' /\ StoreOf(store)' /\ ConfigsOf(configs)'
      /\ DOMAIN configs' \subseteq 1 .. lastId
      /\ running' \in 0 .. MaxRunning /\ running' = Cardinality(DOMAIN configs')
      /\ sent' \subseteq Sent
  <2>1. c.request = configs[d].request
    BY DEF c
  <2> QED BY <1>1, <1>2, <1>3, <1>4, <1>5, <2>1, ReductionInv
<1> QED BY <1>5, <1>6, <1>7

\* Every step keeps the invariant.
LEMMA NfnStep ==
  ASSUME NfnInv, [Next]_vars
  PROVE  NfnInv'
<1>1. ASSUME NEW f \in Clients, NEW n \in Asked, HandleInterest(f, n) PROVE NfnInv'
  <2>1. n \in Names
    BY AskedType
  <2> QED BY <1>1, <2>1, QuietInterest, Started DEF HandleInterest
<1>2. ASSUME NEW n \in Arriving, HandleContent(n) PROVE NfnInv'
  <2>1. n \in Names
    BY AskedType
  <2> QED BY <1>2, <2>1, ContentStep
<1>3. CASE UNCHANGED vars
  BY <1>3 DEF vars, NfnInv, PitOf, StoreOf, ConfigsOf
<1> QED BY <1>1, <1>2, <1>3, AgeingStep, Resumed DEF Next

\* At first there is nothing.
LEMMA NfnInit == Init => NfnInv
<1> SUFFICES ASSUME Init PROVE NfnInv
  OBVIOUS
<1>1. /\ DOMAIN pit = {} /\ DOMAIN store = {} /\ DOMAIN configs = {}
      /\ pit = [k \in {} |-> {}] /\ store = [k \in {} |-> {}] /\ configs = [k \in {} |-> {}]
  BY DEF Init
<1>2. Cardinality(DOMAIN configs) = 0
  BY <1>1, FS_EmptySet
<1>3. PitOf(pit, DOMAIN configs) /\ StoreOf(store) /\ ConfigsOf(configs)
  BY <1>1 DEF PitOf, StoreOf, ConfigsOf
<1> QED BY <1>1, <1>2, <1>3, NfnAssumption DEF Init, NfnInv

\* In every state the invariant holds.
LEMMA NfnInvariant == Spec => []NfnInv
<1>1. NfnInv /\ [Next]_vars => NfnInv'
  BY NfnStep
<1> QED BY NfnInit, <1>1, PTL DEF Spec

\* Every variable of the engine keeps its type.
THEOREM TypeCorrect == Spec => []TypeOK
BY NfnInvariant, InvImplies, PTL

\* The counter of running computations is the length of their list, and no
\* request is computed twice at a time.
THEOREM ComputationsCounted == Spec => []CountedOnce
BY NfnInvariant, InvImplies, PTL

-------------------------------------------------------------------------------
(* Clients and computations that wait                                      *)

\* Computations ask for calls, and for the parameters of fetches.
OwnNamed(p) == \A k \in DOMAIN p : k.config # NoConfig => k.name \in AskedByComputations

\* No client waits in p for what is in s.
Looked(p, s) ==
    \A k \in DOMAIN p : k.config = NoConfig /\ k.name \in DOMAIN s => k.name \in AskedByComputations

\* What a computation in the state c asked for in its round.
AskedIn(c) == {ComputeName[c.request], CallName[c.request][c.round]}

\* Computation d, in the state c, has an interest of its own for that, unless
\* the names of its round are computed here too, or it is a fetch.
WaitsIn(p, d, c) ==
    c.prog = "FOX" /\ c.request \notin Fetches /\ AskedIn(c) \intersect ComputedHere = {} =>
        \E k \in DOMAIN p : k.config = d /\ k.name \in AskedIn(c) /\ k.name \in Nfn

\* What is computed here was asked for, and could be; the contents of the
\* store came from the network.
Origins(cs, s) ==
    /\ \A d \in DOMAIN cs : cs[d].request \in ComputedHere
    /\ DOMAIN s \intersect Plain \subseteq Arriving

WaitInv ==
    /\ OwnNamed(pit) /\ Looked(pit, store) /\ Origins(configs, store)
    /\ \A d \in DOMAIN configs : WaitsIn(pit, d, configs[d])

\* The invariant is what is checked, under other names.
LEMMA WaitImplies == WaitInv => NoClientOverlooked /\ SuspendedWaits
BY DEF WaitInv, Looked, WaitsIn, AskedIn, NoClientOverlooked, SuspendedWaits, Suspended, AskedInRound

\* Of a name that no computation asks for, every entry is served.
LEMMA ServedAll ==
  ASSUME NEW p, NEW C, PitOf(p, C), OwnNamed(p), NEW n, n \notin AskedByComputations
  PROVE  ServedSets(p, n) = {KeysNamed(p, n)}
<1>1. {k \in KeysNamed(p, n) : p[k].pending = {}} = {}
  BY DEF PitOf, OwnNamed, KeysNamed
<1> QED BY <1>1 DEF ServedSets

\* What a computation asks for next, and that it does ask while it is
\* suspended.
LEMMA NextAskNamed ==
  ASSUME NEW c \in Computation
  PROVE  /\ NextAsk(c) \in AskedByComputations \union {NoName}
         /\ NextComputation(c).prog = "FOX" /\ c.request \notin Fetches
              => NextAsk(c) \in AskedIn(NextComputation(c)) /\ NextAsk(c) \in Nfn
<1> USE NfnAssumption
<1>1. c.request \in Nfn /\ c.round \in Nat /\ c.prog \in {"FOX", "over"}
  BY DEF Computation
<1>2. ComputeName[c.request] \in AskedByComputations
  BY <1>1 DEF AskedByComputations, Names
<1>3. ASSUME c.round < Arity[c.request]
      PROVE  /\ AskName(c, c.round + 1) \in AskedByComputations
             /\ c.request \notin Fetches =>
                  /\ AskName(c, c.round + 1) \in {ComputeName[c.request], CallName[c.request][c.round + 1]}
                  /\ AskName(c, c.round + 1) \in Nfn
  <2>1. Arity[c.request] \in Nat /\ c.round + 1 \in 1 .. Arity[c.request]
    BY <1>1, <1>3
  <2>2. CallName[c.request][c.round + 1] \in AskedByComputations
    BY <1>1, <2>1 DEF AskedByComputations, Names
  <2>3. c.request \in Fetches => Param[c.request][c.round + 1] \in AskedByComputations
    <3>1. c.request \in Fetches => c.round + 1 = 1
      BY <1>1, <2>1
    <3> QED BY <3>1 DEF AskedByComputations, Names
  <2>4. ComputeName[c.request] \in Nfn /\ CallName[c.request][c.round + 1] \in Nfn
    BY <1>1, <2>1
  <2> QED BY <1>2, <2>2, <2>3, <2>4 DEF AskName
<1>5. c.prog = "FOX" /\ c.round < Arity[c.request] =>
        /\ NextComputation(c).round = c.round + 1 /\ NextComputation(c).request = c.request
  BY <1>1 DEF NextComputation, Computation
<1>6. ~(c.prog = "FOX" /\ c.round < Arity[c.request]) => NextComputation(c).prog = "over"
  BY <1>1 DEF NextComputation, Computation
<1>7. NextAsk(c) \in AskedByComputations \union {NoName}
  BY <1>2, <1>3 DEF NextAsk
<1>8. ASSUME NextComputation(c).prog = "FOX", c.request \notin Fetches
      PROVE  NextAsk(c) \in AskedIn(NextComputation(c)) /\ NextAsk(c) \in Nfn
  <2>1. c.prog = "FOX" /\ c.round < Arity[c.request]
    BY <1>6, <1>8
  <2>2. NextAsk(c) = AskName(c, c.round + 1)
    BY <2>1 DEF NextAsk
  <2> QED BY <1>3, <1>5, <1>8, <2>1, <2>2 DEF AskedIn
<1> QED BY <1>7, <1>8

\* Of the entries for a name, only such entries are served.
LEMMA ServedNamed ==
  ASSUME NEW p, NEW n, NEW served \in ServedSets(p, n)
  PROVE  served \subseteq KeysNamed(p, n) /\ \A k \in served : k.name = n
<1> DEFINE named == KeysNamed(p, n)
           hooks == {k \in named : p[k].pending = {}}
           others == {k \in named \ hooks : k.config # NoConfig}
<1>1. served \in IF hooks = {} THEN {named} ELSE {S \union {h} : h \in hooks, S \in SUBSET others}
  BY DEF ServedSets
<1>2. hooks \subseteq named /\ others \subseteq named
  OBVIOUS
<1> HIDE DEF named, hooks, others
<1>3. served \subseteq named
  BY <1>1, <1>2
<1> QED BY <1>3 DEF named, KeysNamed

\* A reduction serves the clients of its result, leaves alone what others
\* wait for, and leaves an interest behind when it is suspended.
LEMMA ReductionWaits ==
  ASSUME NEW d \in ConfigIds, NEW c \in Computation, c.request \in ComputedHere,
         NEW p, NEW C, PitOf(p, C), OwnNamed(p), Looked(p, store), NEW count,
         Origins(configs, store),
         \A x \in DOMAIN configs : x # d => WaitsIn(p, x, configs[x]),
         Reduction(d, c, p, count)
  PROVE  /\ OwnNamed(pit)' /\ Looked(pit, store)' /\ Origins(configs, store)'
         /\ \A x \in DOMAIN configs' : WaitsIn(pit', x, configs'[x])
<1> USE NfnAssumption
<1>1. c.request \in Nfn /\ d # NoConfig
  BY DEF Computation, ConfigIds, NoConfig
<1>2. CASE HasResult(c)
  <2> DEFINE q == Propagating(p, c.request)
  <2>1. PICK served \in ServedSets(p, c.request) : pit' = Without(q, served)
    BY <1>2 DEF Reduction
  <2>2. store' = WithContent(c.request, TRUE) /\ configs' = Without(configs, {d})
    BY <1>2 DEF Reduction
  <2>3. DOMAIN pit' = DOMAIN p \ served /\ served \subseteq KeysNamed(p, c.request)
    <3>1. DOMAIN q = DOMAIN p
      BY DEF Propagating
    <3>2. DOMAIN pit' = DOMAIN q \ served
      <4> HIDE DEF q
      <4> QED BY <2>1 DEF Without
    <3>3. served \subseteq KeysNamed(p, c.request)
      BY <2>1, ServedNamed
    <3> QED BY <3>1, <3>2, <3>3
  <2>4. DOMAIN store' = DOMAIN store \union {c.request}
    BY <2>2 DEF WithContent
  <2>5. OwnNamed(pit')
    BY <2>3 DEF OwnNamed
  <2>6. Looked(pit', store')
    <3> SUFFICES ASSUME NEW k \in DOMAIN pit', k.config = NoConfig, k.name \in DOMAIN store',
                        k.name \notin AskedByComputations
                 PROVE  FALSE
      BY DEF Looked
    <3>1. CASE k.name \in DOMAIN store
      BY <2>3, <3>1 DEF Looked
    <3>2. CASE k.name = c.request
      <4>1. served = KeysNamed(p, c.request)
        BY <2>1, <3>2, ServedAll
      <4> QED BY <2>3, <3>2, <4>1 DEF KeysNamed
    <3> QED BY <2>4, <3>1, <3>2
  <2>7. DOMAIN configs' = DOMAIN configs \ {d} /\ \A x \in DOMAIN configs' : configs'[x] = configs[x]
    BY <2>2 DEF Without
  <2>8. Origins(configs', store')
    BY <1>1, <2>4, <2>7 DEF Origins
  <2>9. ASSUME NEW x \in DOMAIN configs' PROVE WaitsIn(pit', x, configs'[x])
    <3>1. x # d /\ x \in DOMAIN configs /\ configs'[x] = configs[x]
      BY <2>7
    <3>2. WaitsIn(p, x, configs[x])
      BY <3>1
    <3>3. \A k \in DOMAIN p : k.name \notin ComputedHere => k \in DOMAIN pit'
      BY <2>3 DEF KeysNamed
    <3> QED BY <3>1, <3>2, <3>3 DEF WaitsIn
  <2> QED BY <2>5, <2>6, <2>8, <2>9 DEF OwnNamed, Looked, Origins
<1>3. CASE ~HasResult(c)
  <2>1. /\ IF NextAsk(c) = NoName THEN pit' = p ELSE pit' = WithOwnInterest(p, NextAsk(c), d)
        /\ configs' = [x \in DOMAIN configs \union {d} |->
                          IF x = d THEN NextComputation(c) ELSE configs[x]]
        /\ store' = store
    BY <1>3 DEF Reduction
  <2>2. /\ DOMAIN configs' = DOMAIN configs \union {d} /\ configs'[d] = NextComputation(c)
        /\ \A x \in DOMAIN configs : x # d => configs'[x] = configs[x]
    BY <2>1
  <2> DEFINE k0 == [name |-> NextAsk(c), config |-> d]
  <2>3. DOMAIN pit' = IF NextAsk(c) = NoName THEN DOMAIN p ELSE DOMAIN p \union {k0}
    BY <2>1 DEF WithOwnInterest
  <2>4. k0.name = NextAsk(c) /\ k0.config = d
    OBVIOUS
  <2> HIDE DEF k0
  <2>5. OwnNamed(pit')
    BY <2>3, <2>4, NextAskNamed DEF OwnNamed
  <2>6. Looked(pit', store')
    BY <1>1, <2>1, <2>3, <2>4 DEF Looked
  <2>7. Origins(configs', store')
    BY <2>1, <2>2, NextComputationType DEF Origins
  <2>8. ASSUME NEW x \in DOMAIN configs' PROVE WaitsIn(pit', x, configs'[x])
    <3>1. CASE x # d
      <4>1. WaitsIn(p, x, configs[x]) /\ configs'[x] = configs[x] /\ DOMAIN p \subseteq DOMAIN pit'
        BY <2>2, <2>3, <3>1
      <4> QED BY <4>1 DEF WaitsIn
    <3>2. CASE x = d
      <4>1. configs'[x] = NextComputation(c) /\ NextComputation(c).request = c.request
        BY <2>2, <3>2, NextComputationType
      <4>2. NextComputation(c).prog = "FOX" /\ c.request \notin Fetches
              => k0 \in DOMAIN pit' /\ k0.name \in AskedIn(NextComputation(c)) /\ k0.name \in Nfn
        BY <2>3, <2>4, NextAskNamed DEF Names
      <4> QED BY <2>4, <3>2, <4>1, <4>2 DEF WaitsIn
    <3> QED BY <3>1, <3>2
  <2> QED BY <2>5, <2>6, <2>7, <2>8 DEF OwnNamed, Looked, Origins
<1> QED BY <1>2, <1>3

\* An interest changes who waits, and no computation that has begun.
LEMMA InterestWaits ==
  ASSUME NfnInv, WaitInv, NEW f \in Clients, NEW n \in Names,
         \/ ReplyFromStore(f, n)
         \/ \E k \in KeysNamed(pit, n) : JoinPending(f, k)
         \/ ForwardInterest(f, n) \/ WaitForComputation(f, n) \/ HandOn(f, n)
  PROVE  WaitInv'
<1> DEFINE k0 == [name |-> n, config |-> NoConfig]
<1>1. UNCHANGED <<store, configs>>
  BY DEF ReplyFromStore, JoinPending, ForwardInterest, WaitForComputation, HandOn
<1>2. DOMAIN pit' = DOMAIN pit \/ (n \notin DOMAIN store /\ DOMAIN pit' = DOMAIN pit \union {k0})
  <2>1. ReplyFromStore(f, n) => DOMAIN pit' = DOMAIN pit
    BY DEF ReplyFromStore
  <2>2. \A k : JoinPending(f, k) => DOMAIN pit' = DOMAIN pit
    BY DEF JoinPending
  <2>3. \A b \in BOOLEAN : DOMAIN WithInterest(f, n, b) = DOMAIN pit \union {k0}
    BY DEF WithInterest
  <2>4. ASSUME ForwardInterest(f, n) \/ WaitForComputation(f, n) \/ HandOn(f, n)
        PROVE  n \notin DOMAIN store /\ DOMAIN pit' = DOMAIN pit \union {k0}
    BY <2>3, <2>4 DEF ForwardInterest, WaitForComputation, HandOn, AcceptRequest, NewInterest
  <2> HIDE DEF k0
  <2> QED BY <2>1, <2>2, <2>4
<1>3. k0.name = n /\ k0.config = NoConfig
  OBVIOUS
<1> HIDE DEF k0
<1> QED BY <1>1, <1>2, <1>3 DEF WaitInv, OwnNamed, Looked, Origins, WaitsIn

\* What is started was asked for, and its routable part is at hand.
LEMMA StartWaits ==
  ASSUME NfnInv, WaitInv, NEW f \in Clients, NEW e \in Asked, StartComputation(f, e)
  PROVE  WaitInv'
<1> DEFINE c == [request |-> e, round |-> 0, startLocally |-> e \in Routed, prog |-> "FOX"]
           d == lastId + 1
           p == WithInterest(f, e, FALSE)
           k0 == [name |-> e, config |-> NoConfig]
<1>1. e \in Nfn /\ e \in Names /\ e \notin DOMAIN store /\ IsHere(e)
  BY AskedType DEF StartComputation, AcceptRequest, NewInterest
<1>2. e \in ComputedHere
  BY <1>1, NfnAssumption DEF IsHere, ComputedHere, WaitInv, Origins
<1>3. c \in Computation /\ c.request = e
  BY <1>1 DEF Computation
<1>4. d \in ConfigIds
  BY NfnAssumption DEF NfnInv, ConfigIds
<1>5. PitOf(p, DOMAIN configs)
  BY <1>1, WithInterestPit DEF NfnInv
<1>6. DOMAIN p = DOMAIN pit \union {k0}
  BY DEF WithInterest
<1>7. k0.name = e /\ k0.config = NoConfig
  OBVIOUS
<1>8. Reduction(d, c, p, running + 1)
  BY DEF StartComputation
<1> HIDE DEF c, d, p, k0
<1>9. OwnNamed(p) /\ Looked(p, store) /\ \A x \in DOMAIN configs : WaitsIn(p, x, configs[x])
  BY <1>1, <1>6, <1>7 DEF WaitInv, OwnNamed, Looked, WaitsIn
<1>10. Origins(configs, store)
  BY DEF WaitInv
<1> QED BY <1>2, <1>3, <1>4, <1>5, <1>8, <1>9, <1>10, ReductionWaits DEF WaitInv

\* A content is served to every client that waits for it, unless computations
\* ask for that name; it takes no interest for a call from a computation.
LEMMA ContentWaits ==
  ASSUME NfnInv, WaitInv, NEW n \in Arriving, HandleContent(n)
  PROVE  WaitInv'
<1>1. CASE IgnoreContent(n)
  BY <1>1 DEF IgnoreContent, WaitInv, OwnNamed, Looked, Origins, WaitsIn
<1>2. CASE AnswerComputations(n)
  <2>1. UNCHANGED <<pit, configs>> /\ DOMAIN store' = DOMAIN store \union {n} /\ n \in Nfn
    BY <1>2 DEF AnswerComputations, WithContent
  <2>2. n \in AskedByComputations
    BY <1>2 DEF AnswerComputations, OwnInterests, KeysNamed, WaitInv, OwnNamed
  <2>3. n \notin Plain
    BY <2>1, NfnAssumption
  <2> QED BY <2>1, <2>2, <2>3 DEF WaitInv, OwnNamed, Looked, Origins, WaitsIn
<1>3. CASE ServeContent(n)
  <2>1. PICK served \in ServedSets(pit, n) : pit' = Without(pit, served)
    BY <1>3 DEF ServeContent
  <2>2. served \subseteq KeysNamed(pit, n) /\ DOMAIN pit' = DOMAIN pit \ served
    BY <2>1 DEF ServedSets, Without
  <2>3. DOMAIN store' = DOMAIN store \union {n} /\ configs' = configs
    BY <1>3 DEF ServeContent, WithContent
  <2>4. OwnNamed(pit)' /\ Origins(configs, store)'
    BY <2>2, <2>3 DEF WaitInv, OwnNamed, Origins
  <2>5. Looked(pit, store)'
    <3> SUFFICES ASSUME NEW k \in DOMAIN pit', k.config = NoConfig, k.name \in DOMAIN store',
                        k.name \notin AskedByComputations
                 PROVE  FALSE
      BY DEF Looked
    <3>1. CASE k.name \in DOMAIN store
      BY <2>2, <3>1 DEF WaitInv, Looked
    <3>2. CASE k.name = n
      <4>1. served = KeysNamed(pit, n)
        BY <2>1, <3>2, ServedAll DEF NfnInv, WaitInv
      <4> QED BY <2>2, <3>2, <4>1 DEF KeysNamed
    <3> QED BY <2>3, <3>1, <3>2
  <2>6. \A k \in DOMAIN pit : k.config # NoConfig /\ k.name \in Nfn => k \in DOMAIN pit'
    <3>1. n \in Plain \/ OwnInterests(n) = {}
      BY <1>3 DEF ServeContent
    <3> QED BY <2>2, <3>1, NfnAssumption DEF OwnInterests, KeysNamed
  <2>7. ASSUME NEW x \in DOMAIN configs' PROVE WaitsIn(pit', x, configs'[x])
    <3>1. x # NoConfig /\ WaitsIn(pit, x, configs[x]) /\ configs'[x] = configs[x]
      BY <2>3, <2>7 DEF NfnInv, NoConfig, WaitInv
    <3> QED BY <2>6, <3>1 DEF WaitsIn
  <2> QED BY <2>4, <2>5, <2>7 DEF WaitInv, OwnNamed, Looked, Origins
<1> QED BY <1>1, <1>2, <1>3 DEF HandleContent

\* Ageing removes the entries of clients; the others are taken when their
\* computation is resumed.
LEMMA AgeingWaits ==
  ASSUME NfnInv, WaitInv,
         \/ \E k \in DOMAIN pit : GiveUp(k)
         \/ Retransmit
         \/ \E n \in Names : ForgetContent(n)
         \/ RemoveFace
  PROVE  WaitInv'
<1>1. ASSUME NEW k \in DOMAIN pit, GiveUp(k) PROVE WaitInv'
  <2>1. UNCHANGED <<store, configs>>
    BY <1>1 DEF GiveUp
  <2>2. DOMAIN pit' \subseteq DOMAIN pit /\ \A j \in DOMAIN pit : j.config # NoConfig => j \in DOMAIN pit'
    BY <1>1 DEF GiveUp, Without
  <2>3. \A x \in DOMAIN configs : x # NoConfig
    BY DEF NfnInv, NoConfig
  <2> QED BY <2>1, <2>2, <2>3 DEF WaitInv, OwnNamed, Looked, Origins, WaitsIn
<1>2. CASE Retransmit \/ RemoveFace
  BY <1>2 DEF Retransmit, RemoveFace, WaitInv, OwnNamed, Looked, Origins, WaitsIn
<1>3. ASSUME NEW n \in Names, ForgetContent(n) PROVE WaitInv'
  <2>1. UNCHANGED <<pit, configs>> /\ DOMAIN store' \subseteq DOMAIN store
    BY <1>3 DEF ForgetContent, Without
  <2> QED BY <2>1 DEF WaitInv, OwnNamed, Looked, Origins, WaitsIn
<1> QED BY <1>1, <1>2, <1>3

\* A computation that is resumed leaves the interests of the others.
LEMMA ResumeWaits ==
  ASSUME NfnInv, WaitInv, NEW d \in 1 .. MaxConfigs, ResumeNext(d)
  PROVE  WaitInv'
<1> DEFINE c == configs[d]
           q == Without(pit, {k \in DOMAIN pit : k.config = d})
           p == IF c.prog = "FOX" THEN Propagating(q, AskName(c, c.round)) ELSE q
<1>1. d \in DOMAIN configs /\ d \in ConfigIds
  BY NfnAssumption DEF ResumeNext, NfnInv, ConfigIds
<1>2. c \in Computation /\ c.request \in ComputedHere
  BY <1>1 DEF NfnInv, ConfigsOf, WaitInv, Origins
<1>3. PitOf(p, DOMAIN configs \ {d})
  BY <1>1, WithoutOwnPit, PropagatingPit DEF NfnInv
<1>4. DOMAIN p = DOMAIN pit \ {k \in DOMAIN pit : k.config = d}
  BY DEF Propagating, Without
<1>5. Reduction(d, c, p, running)
  BY DEF ResumeNext
<1> HIDE DEF c, q, p
<1>6. /\ OwnNamed(p) /\ Looked(p, store) /\ Origins(configs, store)
      /\ \A x \in DOMAIN configs : x # d => WaitsIn(p, x, configs[x])
  BY <1>4 DEF WaitInv, OwnNamed, Looked, WaitsIn
<1> QED BY <1>1, <1>2, <1>3, <1>5, <1>6, ReductionWaits DEF WaitInv

\* Every step keeps the invariant.
LEMMA WaitStep ==
  ASSUME NfnInv, WaitInv, [Next]_vars
  PROVE  WaitInv'
<1>1. ASSUME NEW f \in Clients, NEW n \in Asked, HandleInterest(f, n) PROVE WaitInv'
  <2>1. n \in Names
    BY AskedType
  <2> QED BY <1>1, <2>1, InterestWaits, StartWaits DEF HandleInterest
<1>2. CASE UNCHANGED vars
  BY <1>2 DEF vars, WaitInv, OwnNamed, Looked, Origins, WaitsIn
<1> QED BY <1>1, <1>2, ContentWaits, AgeingWaits, ResumeWaits DEF Next

\* At first nobody waits.
LEMMA WaitInit == Init => WaitInv
BY DEF Init, WaitInv, OwnNamed, Looked, Origins

\* In every state both invariants hold.
LEMMA WaitInvariant == Spec => [](NfnInv /\ WaitInv)
<1>1. NfnInv /\ WaitInv /\ [Next]_vars => NfnInv' /\ WaitInv'
  BY NfnStep, WaitStep
<1> QED BY NfnInit, WaitInit, <1>1, PTL DEF Spec

\* A suspended computation has an interest of its own in the PIT, for what it
\* asked in its round, unless that name is computed here too.
THEOREM SuspendedAsks == Spec => []SuspendedWaits
BY WaitInvariant, WaitImplies, PTL

\* No client waits for what the relay has, unless computations ask for it too.
THEOREM ClientsServed == Spec => []NoClientOverlooked
BY WaitInvariant, WaitImplies, PTL

\* What happens to the request of computation d when it is forgotten.
Forgets(d) ==
    LET e == configs[d].request IN
    /\ e \in DOMAIN store' /\ store'[e]
    /\ e \notin AskedByComputations =>
          \A k \in KeysNamed(pit, e) : Data(e, pit[k].pending) \subseteq sent'

\* A computation that leaves the list was resumed, and had its result.
LEMMA LeftByResult ==
  ASSUME NfnInv, [Next]_vars, NEW d \in DOMAIN configs, d \notin DOMAIN configs'
  PROVE  /\ d \in 1 .. MaxConfigs /\ ResumeNext(d)
         /\ HasResult(configs[d])
<1> USE DEF NfnInv
<1>1. \A f \in Clients, n \in Asked : ~HandleInterest(f, n)
  <2>1. ASSUME NEW f \in Clients, NEW n \in Asked, StartComputation(f, n) PROVE FALSE
    <3>1. d # lastId + 1
      BY NfnAssumption
    <3> QED BY <2>1, <3>1 DEF StartComputation, Reduction, Without
  <2> QED BY <2>1 DEF HandleInterest, ReplyFromStore, JoinPending, ForwardInterest, WaitForComputation, HandOn
<1>2. \A n \in Arriving : ~HandleContent(n)
  BY DEF HandleContent, IgnoreContent, AnswerComputations, ServeContent
<1>3. /\ \A k \in DOMAIN pit : ~GiveUp(k)
      /\ ~Retransmit /\ ~RemoveFace /\ \A n \in Names : ~ForgetContent(n)
  BY DEF GiveUp, Retransmit, RemoveFace, ForgetContent
<1>4. ~UNCHANGED vars
  BY DEF vars
<1>5. PICK x \in 1 .. MaxConfigs : ResumeNext(x)
  BY <1>1, <1>2, <1>3, <1>4 DEF Next
<1>6. x = d /\ HasResult(configs[x])
  BY <1>5 DEF ResumeNext, Reduction, Without
<1> QED BY <1>5, <1>6

\* That step stores the result as a static content and sends it to all who
\* wait for it.
LEMMA ForgetsServed ==
  ASSUME NfnInv, WaitInv, NEW d \in DOMAIN configs, d \in ConfigIds,
         ResumeNext(d), HasResult(configs[d])
  PROVE  Forgets(d)
<1> DEFINE c == configs[d]
           e == c.request
           q == Without(pit, {k \in DOMAIN pit : k.config = d})
           p == IF c.prog = "FOX" THEN Propagating(q, AskName(c, c.round)) ELSE q
<1>1. PitOf(q, DOMAIN configs \ {d}) /\ PitOf(p, DOMAIN configs \ {d})
  BY WithoutOwnPit, PropagatingPit DEF NfnInv
<1>2. DOMAIN p = DOMAIN pit \ {k \in DOMAIN pit : k.config = d} /\ DOMAIN q = DOMAIN p
  BY DEF Propagating, Without
<1>3. \A k \in DOMAIN q : q[k] = pit[k]
  BY DEF Without
<1>4. \A k \in DOMAIN p : p[k].pending = q[k].pending
  <2>1. ASSUME NEW k \in DOMAIN q PROVE [q[k] EXCEPT !.propagates = TRUE].pending = q[k].pending
    BY <1>1 DEF PitOf, Interest
  <2> QED BY <1>2, <2>1 DEF Propagating
<1>5. PICK served \in ServedSets(p, e) :
         /\ sent' = Data(e, WaitingOn(p, served))
         /\ store' = WithContent(e, TRUE)
  BY DEF ResumeNext, Reduction
<1> HIDE DEF c, e, q, p
<1>6. e \in DOMAIN store' /\ store'[e] = TRUE
  BY <1>5 DEF WithContent
<1>7. ASSUME e \notin AskedByComputations, NEW k \in KeysNamed(pit, e)
      PROVE  Data(e, pit[k].pending) \subseteq sent'
  <2>1. OwnNamed(p) /\ k.config = NoConfig /\ k \in DOMAIN pit /\ k.name = e /\ d # NoConfig
    BY <1>2, <1>7 DEF WaitInv, OwnNamed, KeysNamed, ConfigIds, NoConfig
  <2>2. served = KeysNamed(p, e)
    BY <1>1, <1>5, <1>7, <2>1, ServedAll
  <2>3. k \in served /\ p[k].pending = pit[k].pending
    BY <1>2, <1>3, <1>4, <2>1, <2>2 DEF KeysNamed
  <2>4. pit[k].pending \subseteq WaitingOn(p, served)
    BY <2>3 DEF WaitingOn
  <2> QED BY <1>5, <2>4 DEF Data
<1>8. e = configs[d].request
  BY DEF e, c
<1> QED BY <1>6, <1>7, <1>8 DEF Forgets

\* A computation is forgotten only when its result is stored for good and sent
\* to all who wait for it in entries of their own.
THEOREM ForgottenServed == Spec => ForgottenOnceServed
<1>1. ASSUME NfnInv, WaitInv, [Next]_vars
      PROVE  [\A d \in DOMAIN configs \ DOMAIN configs' : Forgets(d)]_vars
  <2>1. \A d \in DOMAIN configs : d \in ConfigIds
    BY <1>1, NfnAssumption DEF NfnInv, ConfigIds
  <2> QED BY <1>1, <2>1, LeftByResult, ForgetsServed
<1>2. NfnInv /\ WaitInv /\ [Next]_vars => [\A d \in DOMAIN configs \ DOMAIN configs' : Forgets(d)]_vars
  BY <1>1
<1>3. Spec => [][\A d \in DOMAIN configs \ DOMAIN configs' : Forgets(d)]_vars
  BY WaitInvariant, <1>2, PTL DEF Spec
<1> QED BY <1>3 DEF Forgets, ForgottenOnceServed

-------------------------------------------------------------------------------
(* Answers that are used                                                   *)

\* A suspended computation has asked for something.
RoundInv == \A d \in DOMAIN configs : configs[d].prog = "FOX" => configs[d].round > 0

\* A reduction that ends suspended has begun a round.
LEMMA ReductionRounds ==
  ASSUME RoundInv, NEW d, NEW c \in Computation, NEW p, NEW count, Reduction(d, c, p, count)
  PROVE  RoundInv'
<1>1. CASE HasResult(c)
  BY <1>1 DEF Reduction, RoundInv, Without
<1>2. CASE ~HasResult(c)
  <2>1. configs' = [x \in DOMAIN configs \union {d} |-> IF x = d THEN NextComputation(c) ELSE configs[x]]
    BY <1>2 DEF Reduction
  <2>2. NextComputation(c).prog = "FOX" => NextComputation(c).round > 0
    <3>1. c.round \in Nat
      BY DEF Computation
    <3> QED BY <3>1 DEF NextComputation, Computation
  <2> QED BY <2>1, <2>2 DEF RoundInv
<1> QED BY <1>1, <1>2

\* Every step keeps the rounds.
LEMMA RoundStep ==
  ASSUME NfnInv, RoundInv, [Next]_vars
  PROVE  RoundInv'
<1>1. CASE UNCHANGED configs
  BY <1>1 DEF RoundInv
<1>2. ASSUME NEW f \in Clients, NEW n \in Asked, StartComputation(f, n)
      PROVE  RoundInv'
  <2> DEFINE c == [request |-> n, round |-> 0, startLocally |-> n \in Routed, prog |-> "FOX"]
  <2>1. n \in Nfn
    BY <1>2 DEF StartComputation, AcceptRequest
  <2>2. c \in Computation
    BY <2>1 DEF Computation
  <2>3. Reduction(lastId + 1, c, WithInterest(f, n, FALSE), running + 1)
    BY <1>2 DEF StartComputation
  <2> HIDE DEF c
  <2> QED BY <2>2, <2>3, ReductionRounds
<1>3. ASSUME NEW d \in 1 .. MaxConfigs, ResumeNext(d)
      PROVE  RoundInv'
  <2> DEFINE c == configs[d]
             q == Without(pit, {k \in DOMAIN pit : k.config = d})
             p == IF c.prog = "FOX" THEN Propagating(q, AskName(c, c.round)) ELSE q
  <2>1. c \in Computation
    BY <1>3 DEF ResumeNext, NfnInv, ConfigsOf
  <2>2. Reduction(d, c, p, running)
    BY <1>3 DEF ResumeNext
  <2> HIDE DEF c, p, q
  <2> QED BY <2>1, <2>2, ReductionRounds
<1>4. CASE UNCHANGED vars
  BY <1>4 DEF vars, RoundInv
<1> QED
  BY <1>1, <1>2, <1>3, <1>4 DEF Next, HandleInterest, HandleContent, ReplyFromStore, JoinPending,
     ForwardInterest, WaitForComputation, HandOn, IgnoreContent, AnswerComputations, ServeContent,
     GiveUp, Retransmit, ForgetContent, RemoveFace

\* A reduction takes from the PIT it is given only entries for its request.
LEMMA ReductionTakes ==
  ASSUME NEW d, NEW c, NEW p, NEW count, Reduction(d, c, p, count),
         NEW k \in DOMAIN p, k \notin DOMAIN pit'
  PROVE  k.name = c.request
<1>1. CASE HasResult(c)
  <2>1. PICK served \in ServedSets(p, c.request) : pit' = Without(Propagating(p, c.request), served)
    BY <1>1 DEF Reduction
  <2>2. k \in served
    BY <2>1 DEF Without, Propagating
  <2> QED BY <2>1, <2>2, ServedNamed
<1>2. CASE ~HasResult(c)
  <2>1. pit' = p \/ pit' = WithOwnInterest(p, NextAsk(c), d)
    BY <1>2 DEF Reduction
  <2> QED BY <2>1 DEF WithOwnInterest
<1> QED BY <1>1, <1>2

\* Only the loops that resume computations take an interest of a computation
\* whose name is in the store.
LEMMA TakenByResumption ==
  ASSUME NfnInv, [Next]_vars,
         NEW k \in DOMAIN pit \ DOMAIN pit', k.config \in DOMAIN configs, k.name \in DOMAIN store
  PROVE  \E d \in 1 .. MaxConfigs : ResumeNext(d)
<1>1. ~UNCHANGED pit
  OBVIOUS
<1>2. k.config # NoConfig
  BY NfnAssumption DEF NfnInv, NoConfig
<1>3. ASSUME NEW f \in Clients, NEW n \in Asked, HandleInterest(f, n)
      PROVE  FALSE
  <2>1. ~ReplyFromStore(f, n)
    BY <1>1 DEF ReplyFromStore
  <2>2. \A x \in KeysNamed(pit, n) : ~JoinPending(f, x)
    BY DEF JoinPending
  <2>3. \A b \in BOOLEAN : pit' # WithInterest(f, n, b)
    BY DEF WithInterest
  <2>4. ASSUME StartComputation(f, n) PROVE FALSE
    <3> DEFINE c == [request |-> n, round |-> 0, startLocally |-> n \in Routed, prog |-> "FOX"]
               p == WithInterest(f, n, FALSE)
    <3>1. Reduction(lastId + 1, c, p, running + 1) /\ c.request = n
      BY <2>4 DEF StartComputation
    <3>2. k \in DOMAIN p
      BY DEF WithInterest
    <3> HIDE DEF c, p
    <3>3. k.name = n
      BY <3>1, <3>2, ReductionTakes
    <3> QED BY <2>4, <3>3 DEF StartComputation, AcceptRequest, NewInterest
  <2> QED
    BY <1>3, <2>1, <2>2, <2>3, <2>4 DEF HandleInterest, ForwardInterest, WaitForComputation, HandOn
<1>4. ASSUME NEW n \in Arriving, HandleContent(n)
      PROVE  FALSE
  <2>1. ServeContent(n)
    BY <1>1, <1>4 DEF HandleContent, IgnoreContent, AnswerComputations
  <2>2. PICK served \in ServedSets(pit, n) : pit' = Without(pit, served)
    BY <2>1 DEF ServeContent
  <2>3. k.name = n
    BY <2>2, ServedNamed DEF Without
  <2> QED BY <2>1, <2>3 DEF ServeContent
<1>5. \A x \in DOMAIN pit : ~GiveUp(x)
  BY <1>1, <1>2 DEF GiveUp, Without
<1>6. ~Retransmit /\ ~RemoveFace /\ \A n \in Names : ~ForgetContent(n)
  BY <1>1 DEF Retransmit, RemoveFace, ForgetContent
<1> QED BY <1>1, <1>3, <1>4, <1>5, <1>6 DEF Next, vars

\* A computation that is resumed while it still asks for what is in the store
\* ends; the interests of others that it takes are for its own request.
LEMMA AnswerEnds ==
  ASSUME NfnInv, WaitInv, RoundInv, NEW d \in 1 .. MaxConfigs, ResumeNext(d),
         NEW k \in DOMAIN pit \ DOMAIN pit', k.name \in DOMAIN store, StillAsks(k),
         k.name \notin ComputedHere
  PROVE  k.config \notin DOMAIN configs'
<1> DEFINE c == configs[d]
           q == Without(pit, {x \in DOMAIN pit : x.config = d})
           p == IF c.prog = "FOX" THEN Propagating(q, AskName(c, c.round)) ELSE q
<1>1. d \in DOMAIN configs /\ c.request \in ComputedHere
  BY DEF ResumeNext, NfnInv, WaitInv, Origins
<1>2. DOMAIN p = DOMAIN pit \ {x \in DOMAIN pit : x.config = d}
  BY DEF Propagating, Without
<1>3. Reduction(d, c, p, running)
  BY DEF ResumeNext
<1>4. k.config = d
  <2> HIDE DEF c, p, q
  <2> QED BY <1>1, <1>2, <1>3, ReductionTakes
<1>5. HasResult(c)
  <2>1. c.prog = "FOX" /\ AskName(c, c.round) \in DOMAIN store
    BY <1>4 DEF StillAsks, Suspended
  <2>2. c.round > 0
    BY <1>1, <2>1 DEF RoundInv
  <2> QED BY <2>1, <2>2 DEF HasResult
<1>6. configs' = Without(configs, {d})
  <2> HIDE DEF c, p, q
  <2> QED BY <1>3, <1>5 DEF Reduction
<1> QED BY <1>4, <1>6 DEF Without

\* A computation that has the answer to an interest of its own, and still asks
\* for it when it is resumed, ends with it, unless that name is computed here.
THEOREM AnswersAreUsed == Spec => AnswerUsed
<1> DEFINE Used == \A k \in Answered : StillAsks(k) /\ k.name \notin ComputedHere => k.config \notin DOMAIN configs'
<1>1. ASSUME NfnInv, WaitInv, RoundInv, [Next]_vars
      PROVE  Used
  BY <1>1, TakenByResumption, AnswerEnds DEF Answered
<1>2. Init => RoundInv
  BY DEF Init, RoundInv
<1>3. NfnInv /\ RoundInv /\ [Next]_vars => RoundInv'
  BY RoundStep
<1>4. NfnInv /\ WaitInv /\ RoundInv /\ [Next]_vars => [Used]_vars
  BY <1>1
<1>5. Spec => [][Used]_vars
  BY <1>2, <1>3, <1>4, WaitInvariant, PTL DEF Spec
<1> QED BY <1>5 DEF AnswerUsed
===============================================================================
