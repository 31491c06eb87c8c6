------------------------ MODULE KrivineMachineProofs ------------------------
(***************************************************************************)
(* Proofs about KrivineMachine: the reference counts of the environments   *)
(* and the types of the registers, for every set of expressions and every  *)
(* function of the network.                                                *)
(***************************************************************************)
EXTENDS KrivineMachine, FiniteSetTheorems, FunctionTheorems, SequenceTheorems, TLAPS

(***************************************************************************)
(* Sequences.                                                              *)
(***************************************************************************)
IsSeq(s) == \E S : s \in Seq(S)

\* What every sequence has.
LEMMA SeqHas ==
    ASSUME NEW s, IsSeq(s)
    PROVE  /\ Len(s) \in Nat
           /\ DOMAIN s = 1 .. Len(s)
           /\ (s = << >>) <=> (Len(s) = 0)
<1>1. PICK S : s \in Seq(S)
  BY DEF IsSeq
<1> QED
  BY <1>1, LenProperties, EmptySeq

\* The empty sequence and a sequence of one.
LEMMA ShortSeqs ==
    ASSUME NEW x
    PROVE  /\ IsSeq(<< >>) /\ Len(<< >>) = 0
           /\ IsSeq(<<x>>) /\ Len(<<x>>) = 1 /\ <<x>>[1] = x
<1>1. << >> \in Seq({x}) /\ <<x>> \in Seq({x})
  OBVIOUS
<1> QED
  BY <1>1 DEF IsSeq

\* Two sequences, one after the other.
LEMMA Joined ==
    ASSUME NEW s, NEW t, IsSeq(s), IsSeq(t)
    PROVE  /\ IsSeq(s \o t)
           /\ Len(s \o t) = Len(s) + Len(t)
           /\ \A i \in 1 .. Len(s) : (s \o t)[i] = s[i]
           /\ \A i \in 1 .. Len(t) : (s \o t)[Len(s) + i] = t[i]
<1>1. PICK S : s \in Seq(S)
  BY DEF IsSeq
<1>2. PICK T : t \in Seq(T)
  BY DEF IsSeq
<1>3. s \in Seq(S \union T) /\ t \in Seq(S \union T)
  <2>1. S \subseteq S \union T /\ T \subseteq S \union T
    OBVIOUS
  <2> QED
    BY <1>1, <1>2, <2>1, SeqMonotonic
<1>4. /\ s \o t \in Seq(S \union T)
      /\ Len(s \o t) = Len(s) + Len(t)
      /\ \A i \in 1 .. Len(s) + Len(t) : (s \o t)[i] = IF i <= Len(s) THEN s[i] ELSE t[i - Len(s)]
  BY <1>3, ConcatProperties
<1>5. Len(s) \in Nat /\ Len(t) \in Nat
  BY SeqHas
<1>6. \A i \in 1 .. Len(s) : (s \o t)[i] = s[i]
  BY <1>4, <1>5
<1>7. ASSUME NEW i \in 1 .. Len(t) PROVE (s \o t)[Len(s) + i] = t[i]
  <2>1. Len(s) + i \in 1 .. Len(s) + Len(t) /\ ~(Len(s) + i <= Len(s)) /\ (Len(s) + i) - Len(s) = i
    BY <1>5
  <2> QED
    BY <1>4, <2>1
<1>8. IsSeq(s \o t)
  BY <1>4 DEF IsSeq
<1> QED
  BY <1>4, <1>6, <1>7, <1>8

\* An element in front of a sequence.
LEMMA Pushed ==
    ASSUME NEW x, NEW s, IsSeq(s)
    PROVE  /\ IsSeq(<<x>> \o s)
           /\ Len(<<x>> \o s) = Len(s) + 1
           /\ (<<x>> \o s)[1] = x
           /\ \A i \in 1 .. Len(s) : (<<x>> \o s)[i + 1] = s[i]
<1>1. IsSeq(<<x>>) /\ Len(<<x>>) = 1 /\ <<x>>[1] = x
  BY ShortSeqs
<1>2. /\ IsSeq(<<x>> \o s)
      /\ Len(<<x>> \o s) = 1 + Len(s)
      /\ \A i \in 1 .. 1 : (<<x>> \o s)[i] = <<x>>[i]
      /\ \A i \in 1 .. Len(s) : (<<x>> \o s)[1 + i] = s[i]
  BY <1>1, Joined
<1>3. Len(s) \in Nat
  BY SeqHas
<1>4. (<<x>> \o s)[1] = x
  BY <1>1, <1>2
<1>5. ASSUME NEW i \in 1 .. Len(s) PROVE (<<x>> \o s)[i + 1] = s[i]
  BY <1>2, <1>3
<1> QED
  BY <1>2, <1>3, <1>4, <1>5

\* The rest of a sequence.
LEMMA Cut ==
    ASSUME NEW s, IsSeq(s), s # << >>
    PROVE  /\ IsSeq(Tail(s))
           /\ Len(s) \in Nat /\ Len(s) >= 1
           /\ Len(Tail(s)) = Len(s) - 1
           /\ Head(s) = s[1]
           /\ \A i \in 1 .. Len(Tail(s)) : Tail(s)[i] = s[i + 1]
<1>1. PICK S : s \in Seq(S)
  BY DEF IsSeq
<1>2. /\ Tail(s) \in Seq(S)
      /\ Len(Tail(s)) = Len(s) - 1
      /\ \A i \in 1 .. Len(Tail(s)) : Tail(s)[i] = s[i + 1]
  BY <1>1, HeadTailProperties
<1>3. Len(s) \in Nat /\ Len(s) # 0
  BY SeqHas
<1>4. Head(s) = s[1]
  BY <1>1
<1> QED
  BY <1>2, <1>3, <1>4 DEF IsSeq

\* A sequence is its head in front of its tail.
LEMMA HeadPushed ==
    ASSUME NEW s, IsSeq(s), s # << >>
    PROVE  s = <<Head(s)>> \o Tail(s)
<1>1. PICK S : s \in Seq(S)
  BY DEF IsSeq
<1>2. <<Head(s)>> \o Tail(s) \in Seq(S) /\ Len(<<Head(s)>> \o Tail(s)) = Len(s)
  <2>1. Tail(s) \in Seq(S) /\ Head(s) \in S
    BY <1>1, HeadTailProperties
  <2>2. Len(<<Head(s)>> \o Tail(s)) = Len(s)
    BY Cut, Pushed, SeqHas
  <2>3. <<Head(s)>> \in Seq(S)
    BY <2>1
  <2>4. <<Head(s)>> \o Tail(s) \in Seq(S)
    BY <2>1, <2>3, ConcatProperties
  <2> QED
    BY <2>2, <2>4
<1>3. ASSUME NEW i \in 1 .. Len(s) PROVE s[i] = (<<Head(s)>> \o Tail(s))[i]
  <2>1. Len(Tail(s)) = Len(s) - 1 /\ Len(s) \in Nat /\ Head(s) = s[1]
        /\ IsSeq(Tail(s)) /\ \A j \in 1 .. Len(Tail(s)) : Tail(s)[j] = s[j + 1]
    BY Cut
  <2>2. (<<Head(s)>> \o Tail(s))[1] = Head(s)
        /\ \A j \in 1 .. Len(Tail(s)) : (<<Head(s)>> \o Tail(s))[j + 1] = Tail(s)[j]
    BY <2>1, Pushed
  <2>3. CASE i = 1
    BY <2>1, <2>2, <2>3
  <2>4. CASE i # 1
    <3>1. i - 1 \in 1 .. Len(Tail(s)) /\ (i - 1) + 1 = i
      BY <2>1, <2>4
    <3> QED
      BY <2>1, <2>2, <3>1
  <2> QED
    BY <2>3, <2>4
<1> QED
  BY <1>1, <1>2, <1>3, SeqEqual

(***************************************************************************)
(* How many elements of a sequence refer to a frame.                       *)
(***************************************************************************)
In(s, e) == {i \in DOMAIN s : s[i].env = e}
CountIn(s, e) == Cardinality(In(s, e))

\* A set of numbers and the set of their successors have as many elements.
LEMMA Shifted ==
    ASSUME NEW S \in SUBSET Nat, IsFiniteSet(S)
    PROVE  LET T == {i \in Nat : i - 1 \in S}
           IN  IsFiniteSet(T) /\ Cardinality(T) = Cardinality(S)
<1> DEFINE T == {i \in Nat : i - 1 \in S}
           f == [i \in S |-> i + 1]
<1>1. f \in [S -> T]
  OBVIOUS
<1>2. \A a, b \in S : f[a] = f[b] => a = b
  OBVIOUS
<1>3. \A t \in T : \E s \in S : f[s] = t
  <2> TAKE t \in T
  <2>1. t - 1 \in S /\ f[t - 1] = t
    OBVIOUS
  <2> QED
    BY <2>1
<1>4. f \in Bijection(S, T)
  BY <1>1, <1>2, <1>3, Fun_IsBij
<1>5. ExistsBijection(S, T)
  BY <1>4 DEF ExistsBijection
<1> QED
  BY <1>5, FS_Bijection

\* The elements of a sequence can be counted.
LEMMA CountNat ==
    ASSUME NEW s, IsSeq(s), NEW e
    PROVE  IsFiniteSet(In(s, e)) /\ In(s, e) \subseteq Nat /\ CountIn(s, e) \in Nat
<1>1. DOMAIN s = 1 .. Len(s) /\ Len(s) \in Nat
  BY SeqHas
<1>2. IsFiniteSet(1 .. Len(s))
  BY <1>1, FS_Interval
<1>3. In(s, e) \subseteq 1 .. Len(s)
  BY <1>1 DEF In
<1>4. IsFiniteSet(In(s, e))
  BY <1>2, <1>3, FS_Subset
<1>5. CountIn(s, e) \in Nat
  BY <1>4, FS_CardinalityType DEF CountIn
<1>6. 1 .. Len(s) \subseteq Nat
  OBVIOUS
<1> QED
  BY <1>3, <1>4, <1>5, <1>6

\* Nothing in the empty sequence refers to a frame.
LEMMA CountEmpty ==
    ASSUME NEW e
    PROVE  CountIn(<< >>, e) = 0
<1>1. In(<< >>, e) = {}
  BY DEF In
<1> QED
  BY <1>1, FS_EmptySet DEF CountIn

\* An element in front counts when it refers to the frame.
LEMMA CountPushed ==
    ASSUME NEW x, NEW s, IsSeq(s), NEW e
    PROVE  CountIn(<<x>> \o s, e) = CountIn(s, e) + (IF x.env = e THEN 1 ELSE 0)
<1> DEFINE t == <<x>> \o s
           T == {i \in Nat : i - 1 \in In(s, e)}
<1>1. IsFiniteSet(In(s, e)) /\ In(s, e) \subseteq Nat /\ CountIn(s, e) \in Nat
  BY CountNat
<1>2. IsFiniteSet(T) /\ Cardinality(T) = CountIn(s, e)
  BY <1>1, Shifted DEF CountIn
<1>3. Len(s) \in Nat /\ DOMAIN s = 1 .. Len(s)
  BY SeqHas
<1>4. IsSeq(t) /\ Len(t) = Len(s) + 1 /\ t[1] = x /\ \A i \in 1 .. Len(s) : t[i + 1] = s[i]
  BY Pushed
<1>5. DOMAIN t = 1 .. Len(s) + 1
  BY <1>4, SeqHas
<1> HIDE DEF t
<1>6. In(t, e) = T \union (IF x.env = e THEN {1} ELSE {})
  <2>1. ASSUME NEW i \in In(t, e) PROVE i \in T \union (IF x.env = e THEN {1} ELSE {})
    <3>1. i \in 1 .. Len(s) + 1 /\ t[i].env = e
      BY <1>5 DEF In
    <3>2. CASE i = 1
      BY <1>4, <3>1, <3>2
    <3>3. CASE i # 1
      <4>1. i - 1 \in 1 .. Len(s) /\ (i - 1) + 1 = i /\ i \in Nat
        BY <1>3, <3>1, <3>3
      <4>2. s[i - 1].env = e
        BY <1>4, <3>1, <4>1
      <4> QED
        BY <1>3, <4>1, <4>2 DEF In
    <3> QED
      BY <3>2, <3>3
  <2>2. ASSUME NEW i \in T PROVE i \in In(t, e)
    <3>1. i \in Nat /\ i - 1 \in 1 .. Len(s) /\ s[i - 1].env = e
      BY <1>3 DEF In
    <3>2. i \in 1 .. Len(s) + 1 /\ (i - 1) + 1 = i
      BY <1>3, <3>1
    <3>3. t[i] = s[i - 1]
      BY <1>4, <3>1, <3>2
    <3> QED
      BY <1>5, <3>1, <3>2, <3>3 DEF In
  <2>3. ASSUME x.env = e PROVE 1 \in In(t, e)
    <3>1. 1 \in 1 .. Len(s) + 1
      BY <1>3
    <3> QED
      BY <1>4, <1>5, <2>3, <3>1 DEF In
  <2> QED
    BY <2>1, <2>2, <2>3
<1>7. 1 \notin T
  BY <1>3 DEF In
<1>8. CASE x.env = e
  <2>1. In(t, e) = T \union {1}
    BY <1>6, <1>8
  <2>2. Cardinality(T \union {1}) = Cardinality(T) + 1
    BY <1>2, <1>7, FS_AddElement
  <2>3. CountIn(t, e) = CountIn(s, e) + 1
    BY <1>2, <2>1, <2>2 DEF CountIn
  <2> QED
    BY <1>8, <2>3 DEF t
<1>9. CASE x.env # e
  <2>1. In(t, e) = T
    BY <1>6, <1>9
  <2>2. CountIn(t, e) = CountIn(s, e)
    BY <1>2, <2>1 DEF CountIn
  <2> QED
    BY <1>1, <1>9, <2>2 DEF t
<1> QED
  BY <1>8, <1>9

\* A sequence of one closure counts for the frame it refers to.
LEMMA CountOne ==
    ASSUME NEW x, NEW e
    PROVE  CountIn(<<x>>, e) = IF x.env = e THEN 1 ELSE 0
<1>1. IsSeq(<< >>)
  BY ShortSeqs
<1>2. CountIn(<<x>> \o << >>, e) = CountIn(<< >>, e) + (IF x.env = e THEN 1 ELSE 0)
  BY <1>1, CountPushed
<1>3. <<x>> \o << >> = <<x>>
  <2>1. <<x>> \in Seq({x})
    OBVIOUS
  <2> QED
    BY <2>1, ConcatEmptySeq
<1> QED
  BY <1>2, <1>3, CountEmpty

\* A sequence without its head.
LEMMA CountCut ==
    ASSUME NEW s, IsSeq(s), s # << >>, NEW e
    PROVE  /\ CountIn(Tail(s), e) \in Nat
           /\ CountIn(s, e) = CountIn(Tail(s), e) + (IF Head(s).env = e THEN 1 ELSE 0)
<1>1. IsSeq(Tail(s))
  BY Cut
<1>2. s = <<Head(s)>> \o Tail(s)
  BY HeadPushed
<1>3. CountIn(<<Head(s)>> \o Tail(s), e) = CountIn(Tail(s), e) + (IF Head(s).env = e THEN 1 ELSE 0)
  BY <1>1, CountPushed
<1>4. CountIn(Tail(s), e) \in Nat
  BY <1>1, CountNat
<1> QED
  BY <1>2, <1>3, <1>4

(***************************************************************************)
(* The heap: environments that refer to each other and count their         *)
(* references.                                                             *)
(***************************************************************************)
ClosedBy(fs, e) == {f \in DOMAIN fs : fs[f].closure.env = e}
Before(fs, e) == {f \in DOMAIN fs : fs[f].next = e}
Held(fs, e) == Cardinality(ClosedBy(fs, e)) + Cardinality(Before(fs, e))

Frame(f) == [name |-> f.name, closure |-> f.closure, next |-> f.next, refs |-> f.refs]

\* Frames are records, and refer to frames that are there.
Heap(fs) ==
    /\ IsFiniteSet(DOMAIN fs) /\ DOMAIN fs \subseteq Nat \ {0}
    /\ \A e \in DOMAIN fs :
          /\ fs[e] = Frame(fs[e]) /\ fs[e].refs \in Nat
          /\ fs[e].next \in {0} \union DOMAIN fs
          /\ fs[e].closure.env \in {0} \union DOMAIN fs

\* The counts of the heap hold for what others hold of it: base says how many
\* references there are from outside.
Sound(fs, base) ==
    /\ Heap(fs)
    /\ base \in [Nat -> Nat]
    /\ \A e \in Nat \ {0} : base[e] > 0 => e \in DOMAIN fs
    /\ \A e \in DOMAIN fs : fs[e].refs >= base[e] + Held(fs, e)

\* The frames that hold a frame can be counted.
LEMMA HeldNat ==
    ASSUME NEW fs, IsFiniteSet(DOMAIN fs), NEW e
    PROVE  /\ IsFiniteSet(ClosedBy(fs, e)) /\ Cardinality(ClosedBy(fs, e)) \in Nat
           /\ IsFiniteSet(Before(fs, e)) /\ Cardinality(Before(fs, e)) \in Nat
           /\ Held(fs, e) \in Nat
<1>1. ClosedBy(fs, e) \subseteq DOMAIN fs /\ Before(fs, e) \subseteq DOMAIN fs
  BY DEF ClosedBy, Before
<1>2. IsFiniteSet(ClosedBy(fs, e)) /\ IsFiniteSet(Before(fs, e))
  BY <1>1, FS_Subset
<1>3. Cardinality(ClosedBy(fs, e)) \in Nat /\ Cardinality(Before(fs, e)) \in Nat
  BY <1>2, FS_CardinalityType
<1> QED
  BY <1>2, <1>3 DEF Held

\* A frame that nobody holds is referred to by no frame.
LEMMA HeldByNone ==
    ASSUME NEW fs, IsFiniteSet(DOMAIN fs), NEW e, Held(fs, e) = 0
    PROVE  \A f \in DOMAIN fs : fs[f].closure.env # e /\ fs[f].next # e
<1>1. /\ IsFiniteSet(ClosedBy(fs, e)) /\ Cardinality(ClosedBy(fs, e)) \in Nat
      /\ IsFiniteSet(Before(fs, e)) /\ Cardinality(Before(fs, e)) \in Nat
  BY HeldNat
<1>2. Cardinality(ClosedBy(fs, e)) = 0 /\ Cardinality(Before(fs, e)) = 0
  BY <1>1 DEF Held
<1>3. ClosedBy(fs, e) = {} /\ Before(fs, e) = {}
  BY <1>1, <1>2, FS_EmptySet
<1> QED
  BY <1>3 DEF ClosedBy, Before

\* A frame that no frame refers to is held by none.
LEMMA NotHeld ==
    ASSUME NEW fs, NEW e, \A f \in DOMAIN fs : fs[f].closure.env # e /\ fs[f].next # e
    PROVE  Held(fs, e) = 0
<1>1. ClosedBy(fs, e) = {} /\ Before(fs, e) = {}
  BY DEF ClosedBy, Before
<1> QED
  BY <1>1, FS_EmptySet DEF Held

\* The count of a frame does not change what it holds.
LEMMA HeldSame ==
    ASSUME NEW fs, NEW gs, DOMAIN gs = DOMAIN fs,
           \A f \in DOMAIN fs : gs[f].closure = fs[f].closure /\ gs[f].next = fs[f].next,
           NEW e
    PROVE  Held(gs, e) = Held(fs, e)
<1>1. ClosedBy(gs, e) = ClosedBy(fs, e) /\ Before(gs, e) = Before(fs, e)
  BY DEF ClosedBy, Before
<1> QED
  BY <1>1 DEF Held

\* A frame more holds its closure's environment and the frame after it.
LEMMA HeldMore ==
    ASSUME NEW fs, NEW gs, IsFiniteSet(DOMAIN fs), NEW e, e \notin DOMAIN fs,
           DOMAIN gs = DOMAIN fs \union {e},
           \A f \in DOMAIN fs : gs[f].closure = fs[f].closure /\ gs[f].next = fs[f].next,
           NEW g
    PROVE  Held(gs, g) = Held(fs, g) + (IF gs[e].closure.env = g THEN 1 ELSE 0)
                                     + (IF gs[e].next = g THEN 1 ELSE 0)
<1>1. /\ IsFiniteSet(ClosedBy(fs, g)) /\ Cardinality(ClosedBy(fs, g)) \in Nat
      /\ IsFiniteSet(Before(fs, g)) /\ Cardinality(Before(fs, g)) \in Nat
  BY HeldNat
<1>2. e \notin ClosedBy(fs, g) /\ e \notin Before(fs, g)
  BY DEF ClosedBy, Before
<1>3. Cardinality(ClosedBy(gs, g)) = Cardinality(ClosedBy(fs, g)) + (IF gs[e].closure.env = g THEN 1 ELSE 0)
  <2>1. CASE gs[e].closure.env = g
    <3>1. ClosedBy(gs, g) = ClosedBy(fs, g) \union {e}
      BY <2>1 DEF ClosedBy
    <3>2. Cardinality(ClosedBy(fs, g) \union {e}) = Cardinality(ClosedBy(fs, g)) + 1
      BY <1>1, <1>2, FS_AddElement
    <3> QED
      BY <2>1, <3>1, <3>2
  <2>2. CASE gs[e].closure.env # g
    <3>1. ClosedBy(gs, g) = ClosedBy(fs, g)
      BY <2>2 DEF ClosedBy
    <3> QED
      BY <1>1, <2>2, <3>1
  <2> QED
    BY <2>1, <2>2
<1>4. Cardinality(Before(gs, g)) = Cardinality(Before(fs, g)) + (IF gs[e].next = g THEN 1 ELSE 0)
  <2>1. CASE gs[e].next = g
    <3>1. Before(gs, g) = Before(fs, g) \union {e}
      BY <2>1 DEF Before
    <3>2. Cardinality(Before(fs, g) \union {e}) = Cardinality(Before(fs, g)) + 1
      BY <1>1, <1>2, FS_AddElement
    <3> QED
      BY <2>1, <3>1, <3>2
  <2>2. CASE gs[e].next # g
    <3>1. Before(gs, g) = Before(fs, g)
      BY <2>2 DEF Before
    <3> QED
      BY <1>1, <2>2, <3>1
  <2> QED
    BY <2>1, <2>2
<1> DEFINE c == IF gs[e].closure.env = g THEN 1 ELSE 0
           n == IF gs[e].next = g THEN 1 ELSE 0
<1>5. c \in Nat /\ n \in Nat
  OBVIOUS
<1> HIDE DEF c, n
<1>6. Cardinality(ClosedBy(gs, g)) = Cardinality(ClosedBy(fs, g)) + c
  BY <1>3 DEF c
<1>7. Cardinality(Before(gs, g)) = Cardinality(Before(fs, g)) + n
  BY <1>4 DEF n
<1>8. Held(gs, g) = Held(fs, g) + c + n
  BY <1>1, <1>5, <1>6, <1>7 DEF Held
<1> QED
  BY <1>8 DEF c, n

\* A heap that is sound stays so when fewer references are left outside.
LEMMA SoundLess ==
    ASSUME NEW fs, NEW base, Sound(fs, base),
           NEW less \in [Nat -> Nat], \A g \in Nat \ {0} : less[g] <= base[g]
    PROVE  Sound(fs, less)
<1>1. base \in [Nat -> Nat]
  BY DEF Sound
<1>2. ASSUME NEW e \in Nat \ {0}, less[e] > 0 PROVE e \in DOMAIN fs
  <2>1. base[e] > 0
    BY <1>1, <1>2
  <2> QED
    BY <2>1 DEF Sound
<1>3. ASSUME NEW e \in DOMAIN fs PROVE fs[e].refs >= less[e] + Held(fs, e)
  <2>1. e \in Nat \ {0} /\ fs[e].refs \in Nat /\ IsFiniteSet(DOMAIN fs)
    BY DEF Sound, Heap
  <2>2. Held(fs, e) \in Nat
    BY <2>1, HeldNat
  <2>3. fs[e].refs >= base[e] + Held(fs, e) /\ less[e] <= base[e] /\ base[e] \in Nat /\ less[e] \in Nat
    BY <1>1, <2>1 DEF Sound
  <2> QED
    BY <2>1, <2>2, <2>3
<1> QED
  BY <1>2, <1>3 DEF Sound

\* The count of a frame that somebody else holds goes down by one when a
\* reference from outside does.
LEMMA SoundLowered ==
    ASSUME NEW fs, NEW base, Sound(fs, base), NEW e \in DOMAIN fs, fs[e].refs >= 1,
           NEW less \in [Nat -> Nat], \A g \in Nat \ {0} : less[g] <= base[g],
           less[e] <= base[e] - 1
    PROVE  Sound([fs EXCEPT ![e].refs = @ - 1], less)
<1> DEFINE gs == [fs EXCEPT ![e].refs = @ - 1]
<1>1. base \in [Nat -> Nat] /\ Heap(fs)
  BY DEF Sound
<1>2. DOMAIN gs = DOMAIN fs
  OBVIOUS
<1>3. fs[e] = Frame(fs[e]) /\ fs[e].refs \in Nat
  BY <1>1 DEF Heap
<1>4. /\ gs[e].name = fs[e].name /\ gs[e].closure = fs[e].closure /\ gs[e].next = fs[e].next
      /\ gs[e].refs = fs[e].refs - 1 /\ gs[e] = Frame(gs[e])
  BY <1>3 DEF Frame
<1>5. \A f \in DOMAIN fs \ {e} : gs[f] = fs[f]
  OBVIOUS
<1> HIDE DEF gs
<1>6. \A f \in DOMAIN fs : gs[f].closure = fs[f].closure /\ gs[f].next = fs[f].next
  BY <1>4, <1>5
<1>7. \A f \in DOMAIN fs : gs[f].refs \in Nat /\ gs[f] = Frame(gs[f])
  <2> TAKE f \in DOMAIN fs
  <2>1. CASE f = e
    BY <1>3, <1>4, <2>1
  <2>2. CASE f # e
    BY <1>1, <1>5, <2>2 DEF Heap
  <2> QED
    BY <2>1, <2>2
<1>8. Heap(gs)
  BY <1>1, <1>2, <1>6, <1>7 DEF Heap
<1>9. Sound(fs, less)
  BY SoundLess
<1>10. ASSUME NEW f \in DOMAIN fs PROVE gs[f].refs >= less[f] + Held(gs, f)
  <2>1. Held(gs, f) = Held(fs, f)
    BY <1>2, <1>6, HeldSame
  <2>2. CASE f = e
    <3>1. fs[e].refs >= base[e] + Held(fs, e) /\ e \in Nat /\ IsFiniteSet(DOMAIN fs)
      BY <1>1 DEF Sound, Heap
    <3>2. Held(fs, e) \in Nat /\ base[e] \in Nat /\ less[e] \in Nat
      BY <1>1, <3>1, HeldNat
    <3> QED
      BY <1>3, <1>4, <2>1, <2>2, <3>1, <3>2
  <2>3. CASE f # e
    BY <1>5, <1>9, <2>1, <2>3 DEF Sound
  <2> QED
    BY <2>2, <2>3
<1>11. Sound(gs, less)
  BY <1>2, <1>8, <1>9, <1>10 DEF Sound
<1> QED
  BY <1>11 DEF gs

\* A frame that nobody else holds is freed; what it holds is held outside.
LEMMA SoundFreed ==
    ASSUME NEW fs, NEW base, Sound(fs, base), NEW e \in DOMAIN fs, fs[e].refs <= 1, base[e] >= 1,
           NEW next \in [Nat -> Nat], next[e] <= base[e] - 1,
           \A g \in Nat \ {0, e} : next[g] <= base[g] + (IF fs[e].closure.env = g THEN 1 ELSE 0)
                                                      + (IF fs[e].next = g THEN 1 ELSE 0)
    PROVE  /\ Sound([f \in DOMAIN fs \ {e} |-> fs[f]], next)
           /\ fs[e].closure.env # e /\ fs[e].next # e
<1> DEFINE gs == [f \in DOMAIN fs \ {e} |-> fs[f]]
<1>1. base \in [Nat -> Nat] /\ Heap(fs) /\ IsFiniteSet(DOMAIN fs) /\ DOMAIN fs \subseteq Nat \ {0}
      /\ fs[e].refs >= base[e] + Held(fs, e)
  BY DEF Sound, Heap
<1>2. Held(fs, e) = 0 /\ base[e] = 1
  <2>1. Held(fs, e) \in Nat /\ base[e] \in Nat /\ fs[e].refs \in Nat
    BY <1>1, HeldNat DEF Heap
  <2> QED
    BY <1>1, <2>1
<1>3. \A f \in DOMAIN fs : fs[f].closure.env # e /\ fs[f].next # e
  BY <1>1, <1>2, HeldByNone
<1>4. DOMAIN gs = DOMAIN fs \ {e} /\ \A f \in DOMAIN gs : gs[f] = fs[f]
  OBVIOUS
<1> HIDE DEF gs
<1>5. IsFiniteSet(DOMAIN gs)
  BY <1>1, <1>4, FS_RemoveElement
<1>6. Heap(gs)
  BY <1>1, <1>3, <1>4, <1>5 DEF Heap
<1>7. next[e] = 0
  BY <1>1, <1>2
<1>8. ASSUME NEW g \in Nat \ {0}, next[g] > 0 PROVE g \in DOMAIN gs
  <2>1. g # e
    BY <1>7, <1>8
  <2>2. base[g] > 0 \/ fs[e].closure.env = g \/ fs[e].next = g
    BY <1>1, <1>8, <2>1
  <2>3. g \in DOMAIN fs
    BY <1>1, <2>2 DEF Sound, Heap
  <2> QED
    BY <1>4, <2>1, <2>3
<1>9. ASSUME NEW g \in DOMAIN gs PROVE gs[g].refs >= next[g] + Held(gs, g)
  <2> DEFINE c == IF fs[e].closure.env = g THEN 1 ELSE 0
             n == IF fs[e].next = g THEN 1 ELSE 0
  <2>1. g \in DOMAIN fs /\ g # e /\ g \in Nat \ {0, e}
    BY <1>1, <1>4
  <2>2. Held(fs, g) = Held(gs, g) + c + n
    <3>1. e \notin DOMAIN gs /\ DOMAIN fs = DOMAIN gs \union {e}
          /\ \A f \in DOMAIN gs : fs[f].closure = gs[f].closure /\ fs[f].next = gs[f].next
      BY <1>4
    <3> QED
      BY <1>5, <3>1, HeldMore
  <2>3. next[g] <= base[g] + c + n
    BY <2>1
  <2>4. c \in Nat /\ n \in Nat
    OBVIOUS
  <2> HIDE DEF c, n
  <2>5. Held(gs, g) \in Nat
    BY <1>5, HeldNat
  <2>6. fs[g].refs >= base[g] + Held(fs, g) /\ gs[g] = fs[g]
    BY <1>4, <2>1 DEF Sound
  <2>7. fs[g].refs \in Nat /\ base[g] \in Nat /\ next[g] \in Nat
    BY <1>1, <2>1 DEF Heap
  <2> QED
    BY <2>2, <2>3, <2>4, <2>5, <2>6, <2>7
<1>10. Sound(gs, next)
  BY <1>6, <1>8, <1>9 DEF Sound
<1> QED
  BY <1>3, <1>10 DEF gs

\* A frame that gets one reference more counts it (reserve).
LEMMA SoundReserved ==
    ASSUME NEW fs, NEW base, Sound(fs, base), NEW e \in {0} \union DOMAIN fs,
           NEW more \in [Nat -> Nat],
           \A g \in Nat \ {0} : more[g] <= base[g] + (IF e = g THEN 1 ELSE 0)
    PROVE  Sound(Reserve(fs, e), more)
<1>1. base \in [Nat -> Nat] /\ Heap(fs)
  BY DEF Sound
<1>2. CASE e = 0
  <2>1. Reserve(fs, e) = fs
    BY <1>2 DEF Reserve, Null
  <2>2. \A g \in Nat \ {0} : more[g] <= base[g]
    BY <1>1, <1>2
  <2> QED
    BY <2>1, <2>2, SoundLess
<1>3. CASE e # 0
  <2> DEFINE gs == [fs EXCEPT ![e].refs = @ + 1]
  <2>1. Reserve(fs, e) = gs /\ e \in DOMAIN fs
    BY <1>3 DEF Reserve, Null
  <2>2. DOMAIN gs = DOMAIN fs
    OBVIOUS
  <2>3. fs[e] = Frame(fs[e]) /\ fs[e].refs \in Nat
    BY <1>1, <2>1 DEF Heap
  <2>4. /\ gs[e].closure = fs[e].closure /\ gs[e].next = fs[e].next
        /\ gs[e].refs = fs[e].refs + 1 /\ gs[e] = Frame(gs[e])
    BY <2>1, <2>3 DEF Frame
  <2>5. \A f \in DOMAIN fs \ {e} : gs[f] = fs[f]
    OBVIOUS
  <2> HIDE DEF gs
  <2>6. \A f \in DOMAIN fs : gs[f].closure = fs[f].closure /\ gs[f].next = fs[f].next
    BY <2>4, <2>5
  <2>7. \A f \in DOMAIN fs : gs[f].refs \in Nat /\ gs[f] = Frame(gs[f])
    <3> TAKE f \in DOMAIN fs
    <3>1. CASE f = e
      BY <2>3, <2>4, <3>1
    <3>2. CASE f # e
      BY <1>1, <2>5, <3>2 DEF Heap
    <3> QED
      BY <3>1, <3>2
  <2>8. Heap(gs)
    BY <1>1, <2>2, <2>6, <2>7 DEF Heap
  <2>9. ASSUME NEW g \in Nat \ {0}, more[g] > 0 PROVE g \in DOMAIN gs
    BY <1>1, <2>1, <2>2, <2>9 DEF Sound
  <2>10. ASSUME NEW f \in DOMAIN fs PROVE gs[f].refs >= more[f] + Held(gs, f)
    <3>1. Held(gs, f) = Held(fs, f) /\ Held(fs, f) \in Nat
      BY <1>1, <2>2, <2>6, HeldSame, HeldNat DEF Heap
    <3>2. fs[f].refs >= base[f] + Held(fs, f) /\ f \in Nat \ {0} /\ fs[f].refs \in Nat
      BY <1>1 DEF Sound, Heap
    <3>3. base[f] \in Nat /\ more[f] \in Nat
      BY <1>1, <3>2
    <3>4. CASE f = e
      BY <2>3, <2>4, <3>1, <3>2, <3>3, <3>4
    <3>5. CASE f # e
      <4>1. more[f] <= base[f]
        BY <3>2, <3>3, <3>5
      <4> QED
        BY <2>5, <3>1, <3>2, <3>3, <3>5, <4>1
    <3> QED
      BY <3>4, <3>5
  <2>11. Sound(gs, more)
    BY <2>2, <2>8, <2>9, <2>10 DEF Sound
  <2> QED
    BY <2>1, <2>11
<1> QED
  BY <1>2, <1>3

\* A new frame that is held once, from outside, takes over two references.
LEMMA SoundGrabbed ==
    ASSUME NEW fs, NEW base, Sound(fs, base),
           NEW gs, NEW e \in Nat \ {0}, e \notin DOMAIN fs,
           DOMAIN gs = DOMAIN fs \union {e}, \A f \in DOMAIN fs : gs[f] = fs[f],
           gs[e] = Frame(gs[e]), gs[e].refs = 1,
           gs[e].next \in {0} \union DOMAIN fs, gs[e].closure.env \in {0} \union DOMAIN fs,
           NEW rest \in [Nat -> Nat], rest[e] <= 1,
           \A g \in Nat \ {0, e} : rest[g] + (IF gs[e].closure.env = g THEN 1 ELSE 0)
                                           + (IF gs[e].next = g THEN 1 ELSE 0) <= base[g]
    PROVE  Sound(gs, rest)
<1>1. base \in [Nat -> Nat] /\ Heap(fs) /\ IsFiniteSet(DOMAIN fs) /\ DOMAIN fs \subseteq Nat \ {0}
  BY DEF Sound, Heap
<1>2. IsFiniteSet(DOMAIN gs)
  BY <1>1, FS_AddElement
<1>3. Heap(gs)
  <2>1. \A f \in DOMAIN fs :
          /\ gs[f] = Frame(gs[f]) /\ gs[f].refs \in Nat
          /\ gs[f].next \in {0} \union DOMAIN gs
          /\ gs[f].closure.env \in {0} \union DOMAIN gs
    BY <1>1 DEF Heap
  <2> QED
    BY <1>1, <1>2, <2>1 DEF Heap
<1>4. ASSUME NEW g \in Nat \ {0}, rest[g] > 0 PROVE g \in DOMAIN gs
  <2>1. CASE g = e
    BY <2>1
  <2>2. CASE g # e
    <3> DEFINE c == IF gs[e].closure.env = g THEN 1 ELSE 0
               n == IF gs[e].next = g THEN 1 ELSE 0
    <3>1. c \in Nat /\ n \in Nat /\ rest[g] + c + n <= base[g]
      BY <2>2
    <3> HIDE DEF c, n
    <3>2. base[g] > 0
      BY <1>1, <1>4, <3>1
    <3> QED
      BY <3>2 DEF Sound
  <2> QED
    BY <2>1, <2>2
<1>5. ASSUME NEW g \in DOMAIN gs PROVE gs[g].refs >= rest[g] + Held(gs, g)
  <2> DEFINE c == IF gs[e].closure.env = g THEN 1 ELSE 0
             n == IF gs[e].next = g THEN 1 ELSE 0
  <2>1. c \in Nat /\ n \in Nat /\ g \in Nat \ {0}
    BY <1>1
  <2>2. Held(gs, g) = Held(fs, g) + c + n
    <3>1. \A f \in DOMAIN fs : gs[f].closure = fs[f].closure /\ gs[f].next = fs[f].next
      OBVIOUS
    <3>2. IsFiniteSet(DOMAIN fs) /\ e \notin DOMAIN fs /\ DOMAIN gs = DOMAIN fs \union {e}
      BY <1>1
    <3> QED
      BY ONLY <3>1, <3>2, HeldMore
  <2>3. Held(fs, g) \in Nat
    BY <1>1, HeldNat
  <2>4. CASE g = e
    <3>1. \A f \in DOMAIN fs : fs[f].closure.env # e /\ fs[f].next # e
      BY <1>1 DEF Heap
    <3>2. Held(fs, g) = 0
      BY <2>4, <3>1, NotHeld
    <3>3. c = 0 /\ n = 0
      BY <1>1, <2>4
    <3> QED
      BY <2>2, <2>4, <3>2, <3>3
  <2>5. CASE g # e
    <3>1. rest[g] + c + n <= base[g]
      BY <2>1, <2>5
    <3> HIDE DEF c, n
    <3>2. fs[g].refs >= base[g] + Held(fs, g) /\ gs[g] = fs[g] /\ fs[g].refs \in Nat
      BY <1>1, <2>5 DEF Sound, Heap
    <3>3. rest[g] \in Nat /\ base[g] \in Nat
      BY <1>1, <2>1
    <3> QED
      BY <2>1, <2>2, <2>3, <3>1, <3>2, <3>3
  <2> QED
    BY <2>4, <2>5
<1> QED
  BY <1>3, <1>4, <1>5 DEF Sound

(***************************************************************************)
(* References that are dropped, one after the other.                       *)
(***************************************************************************)
With(base, todo) == [e \in Nat |-> base[e] + CountIn(todo, e)]

\* What is still to be dropped counts as held from outside.
Dropping(fs, todo, base) ==
    /\ IsSeq(todo) /\ \A i \in DOMAIN todo : todo[i].env \in Nat
    /\ base \in [Nat -> Nat]
    /\ Sound(fs, With(base, todo))

\* Some of the frames are left, with their names and closures.
Kept(gs, fs) ==
    /\ DOMAIN gs \subseteq DOMAIN fs
    /\ \A f \in DOMAIN gs : gs[f].name = fs[f].name /\ gs[f].closure = fs[f].closure

\* Two elements in front of a sequence are put there one by one.
LEMMA TwoPushed ==
    ASSUME NEW x, NEW y, NEW s, IsSeq(s)
    PROVE  <<x, y>> \o s = <<x>> \o (<<y>> \o s)
<1>1. PICK S : s \in Seq(S)
  BY DEF IsSeq
<1> DEFINE T == S \union {x, y}
<1>2. s \in Seq(T)
  <2>1. S \subseteq T
    OBVIOUS
  <2> QED
    BY <1>1, <2>1, SeqMonotonic
<1>3. <<x>> \in Seq(T) /\ <<y>> \in Seq(T)
  OBVIOUS
<1>4. <<x>> \o <<y>> = <<x, y>>
  <2>1. IsSeq(<<x>>) /\ IsSeq(<<y>>) /\ Len(<<x>>) = 1 /\ Len(<<y>>) = 1 /\ <<x>>[1] = x /\ <<y>>[1] = y
    BY ShortSeqs
  <2>2. Len(<<x>> \o <<y>>) = 2 /\ (<<x>> \o <<y>>)[1] = x /\ (<<x>> \o <<y>>)[1 + 1] = y
    BY <2>1, Pushed
  <2>3. <<x, y>> \in Seq(T) /\ Len(<<x, y>>) = 2 /\ <<x, y>>[1] = x /\ <<x, y>>[2] = y
    OBVIOUS
  <2>4. <<x>> \o <<y>> \in Seq(T)
    BY <1>3, ConcatProperties
  <2>5. \A i \in 1 .. Len(<<x, y>>) : <<x, y>>[i] = (<<x>> \o <<y>>)[i]
    BY <2>2, <2>3
  <2> HIDE DEF T
  <2> QED
    BY <2>2, <2>3, <2>4, <2>5, SeqEqual
<1> HIDE DEF T
<1>5. (<<x>> \o <<y>>) \o s = <<x>> \o (<<y>> \o s)
  BY <1>2, <1>3, ConcatAssociative
<1> QED
  BY <1>4, <1>5

\* A frame that somebody outside holds and that counts at most one reference
\* is held by no frame.
LEMMA Unheld ==
    ASSUME NEW fs, NEW base, Sound(fs, base), NEW e \in DOMAIN fs, fs[e].refs <= 1, base[e] >= 1
    PROVE  \A f \in DOMAIN fs : fs[f].closure.env # e /\ fs[f].next # e
<1>1. base \in [Nat -> Nat] /\ IsFiniteSet(DOMAIN fs) /\ e \in Nat /\ fs[e].refs \in Nat
      /\ fs[e].refs >= base[e] + Held(fs, e)
  BY DEF Sound, Heap
<1>2. Held(fs, e) \in Nat /\ base[e] \in Nat
  BY <1>1, HeldNat
<1>3. Held(fs, e) = 0
  BY <1>1, <1>2
<1> QED
  BY <1>1, <1>3, HeldByNone

\* The counts are naturals.
LEMMA WithNat ==
    ASSUME NEW base \in [Nat -> Nat], NEW todo, IsSeq(todo)
    PROVE  With(base, todo) \in [Nat -> Nat]
<1>1. \A e \in Nat : CountIn(todo, e) \in Nat
  BY CountNat
<1> QED
  BY <1>1 DEF With

\* Dropping one reference keeps the heap sound.
LEMMA DropNextSound ==
    ASSUME NEW mem, NEW base, Dropping(mem.fs, mem.todo, base)
    PROVE  /\ Dropping(DropNext(mem).fs, DropNext(mem).todo, base)
           /\ Kept(DropNext(mem).fs, mem.fs)
<1> DEFINE fs == mem.fs
           todo == mem.todo
           e == Head(todo).env
           left == Tail(todo)
           held == With(base, todo)
<1>1. IsSeq(todo) /\ base \in [Nat -> Nat] /\ Sound(fs, held) /\ held \in [Nat -> Nat]
      /\ \A i \in DOMAIN todo : todo[i].env \in Nat
  BY DEF Dropping, Sound
<1>2. Kept(fs, fs)
  BY DEF Kept
<1>3. CASE todo = << >>
  <2>1. DropNext(mem) = mem
    BY <1>3 DEF DropNext
  <2> QED
    BY <1>2, <2>1
<1>4. CASE todo # << >>
  <2>1. IsSeq(left) /\ \A i \in DOMAIN left : left[i].env \in Nat
    <3>1. IsSeq(left) /\ Len(todo) \in Nat /\ Len(left) = Len(todo) - 1
          /\ \A i \in 1 .. Len(left) : left[i] = todo[i + 1]
      BY <1>1, <1>4, Cut
    <3>2. DOMAIN left = 1 .. Len(left) /\ DOMAIN todo = 1 .. Len(todo)
      BY <1>1, <3>1, SeqHas
    <3>3. ASSUME NEW i \in DOMAIN left PROVE left[i].env \in Nat
      <4>1. i + 1 \in DOMAIN todo /\ left[i] = todo[i + 1]
        BY <3>1, <3>2
      <4> QED
        BY <1>1, <4>1
    <3> QED
      BY <3>1, <3>3
  <2>2. e \in Nat
    <3>1. Head(todo) = todo[1] /\ Len(todo) \in Nat /\ Len(todo) >= 1
      BY <1>1, <1>4, Cut
    <3>2. DOMAIN todo = 1 .. Len(todo)
      BY <1>1, SeqHas
    <3>3. 1 \in DOMAIN todo
      BY <3>1, <3>2
    <3> QED
      BY <1>1, <3>1, <3>3
  <2>3. \A g \in Nat : CountIn(left, g) \in Nat
                       /\ CountIn(todo, g) = CountIn(left, g) + (IF e = g THEN 1 ELSE 0)
    BY <1>1, <1>4, CountCut
  <2>4. \A g \in Nat : held[g] = base[g] + CountIn(todo, g)
    BY DEF With
  <2>5. With(base, left) \in [Nat -> Nat] /\ \A g \in Nat : With(base, left)[g] = base[g] + CountIn(left, g)
    BY <1>1, <2>1, WithNat DEF With
  <2>6. \A g \in Nat : With(base, left)[g] <= held[g]
    <3> TAKE g \in Nat
    <3>1. CountIn(left, g) \in Nat /\ CountIn(todo, g) = CountIn(left, g) + (IF e = g THEN 1 ELSE 0)
      BY <2>3
    <3>2. CountIn(left, g) <= CountIn(todo, g) /\ CountIn(todo, g) \in Nat
      BY <3>1
    <3>3. base[g] \in Nat
      BY <1>1
    <3>4. held[g] = base[g] + CountIn(todo, g) /\ With(base, left)[g] = base[g] + CountIn(left, g)
      BY <2>4, <2>5
    <3> HIDE DEF held
    <3> QED
      BY <3>1, <3>2, <3>3, <3>4
  <2>7. Sound(fs, With(base, left))
    <3> HIDE DEF held
    <3> QED
      BY <1>1, <2>5, <2>6, SoundLess
  <2>8. Dropping(fs, left, base)
    BY <1>1, <2>1, <2>7 DEF Dropping
  <2>9. CASE e = Null
    <3>1. DropNext(mem) = [fs |-> fs, todo |-> left]
      BY <1>4, <2>9 DEF DropNext
    <3> QED
      BY <1>2, <2>8, <3>1
  <2>10. CASE e # Null
    <3>1. held[e] >= 1 /\ With(base, left)[e] <= held[e] - 1
      <4>1. CountIn(left, e) \in Nat /\ CountIn(todo, e) = CountIn(left, e) + 1
        BY <2>2, <2>3
      <4>2. held[e] = base[e] + CountIn(todo, e) /\ With(base, left)[e] = base[e] + CountIn(left, e)
        BY <2>2, <2>4, <2>5
      <4>3. base[e] \in Nat
        BY <1>1, <2>2
      <4> HIDE DEF held, e, left, todo
      <4> QED
        BY <4>1, <4>2, <4>3
    <3>2. e \in DOMAIN fs
      <4>1. e \in Nat \ {0} /\ held[e] > 0
        BY <1>1, <2>2, <2>10, <3>1 DEF Null
      <4> HIDE DEF held, e
      <4> QED
        BY <1>1, <4>1 DEF Sound
    <3>3. fs[e].refs \in Nat /\ fs[e].next \in Nat /\ fs[e].closure.env \in Nat
          /\ fs[e] = Frame(fs[e]) /\ DOMAIN fs \subseteq Nat \ {0}
      <4>1. Heap(fs)
        BY <1>1 DEF Sound
      <4> HIDE DEF e, fs
      <4>2. fs[e].refs \in Nat /\ fs[e] = Frame(fs[e]) /\ DOMAIN fs \subseteq Nat \ {0}
            /\ fs[e].next \in {0} \union DOMAIN fs /\ fs[e].closure.env \in {0} \union DOMAIN fs
        BY <3>2, <4>1 DEF Heap
      <4> QED
        BY <4>2
    <3>4. CASE fs[e].refs <= 1
      <4> DEFINE gs == [f \in DOMAIN fs \ {e} |-> fs[f]]
                 a == Drop(fs[e].closure.env)
                 b == Follow(fs[e].next)
                 more == <<a, b>> \o left
      <4>1. DropNext(mem) = [fs |-> gs, todo |-> more]
        BY <1>4, <2>10, <3>4 DEF DropNext
      <4>2. a.env = fs[e].closure.env /\ b.env = fs[e].next
        BY DEF Drop, Follow
      <4>3. IsSeq(more) /\ (\A i \in DOMAIN more : more[i].env \in Nat)
            /\ \A g \in Nat : CountIn(more, g) = CountIn(left, g) + (IF a.env = g THEN 1 ELSE 0)
                                                                  + (IF b.env = g THEN 1 ELSE 0)
        <5> HIDE DEF a, b, left
        <5>1. more = <<a>> \o (<<b>> \o left)
          BY <2>1, TwoPushed
        <5>2. /\ IsSeq(<<b>> \o left) /\ Len(<<b>> \o left) = Len(left) + 1 /\ (<<b>> \o left)[1] = b
              /\ \A i \in 1 .. Len(left) : (<<b>> \o left)[i + 1] = left[i]
          BY <2>1, Pushed
        <5> DEFINE some == <<b>> \o left
        <5> HIDE DEF some
        <5>3. IsSeq(some) /\ Len(some) = Len(left) + 1 /\ some[1] = b
              /\ \A i \in 1 .. Len(left) : some[i + 1] = left[i]
          BY <5>2 DEF some
        <5>4. /\ IsSeq(<<a>> \o some) /\ Len(<<a>> \o some) = Len(some) + 1 /\ (<<a>> \o some)[1] = a
              /\ \A i \in 1 .. Len(some) : (<<a>> \o some)[i + 1] = some[i]
          BY <5>3, Pushed
        <5>5. more = <<a>> \o some
          BY <5>1 DEF some
        <5> HIDE DEF more
        <5>6. Len(left) \in Nat /\ DOMAIN left = 1 .. Len(left) /\ DOMAIN some = 1 .. Len(some)
              /\ DOMAIN more = 1 .. Len(more)
          BY <2>1, <5>3, <5>4, <5>5, SeqHas
        <5>7. ASSUME NEW i \in DOMAIN some PROVE some[i].env \in Nat
          <6>1. CASE i = 1
            BY <3>3, <4>2, <5>3, <6>1
          <6>2. CASE i # 1
            <7>1. i - 1 \in DOMAIN left /\ (i - 1) + 1 = i
              BY <5>3, <5>6, <6>2
            <7> QED
              BY <2>1, <5>3, <5>6, <7>1
          <6> QED
            BY <6>1, <6>2
        <5>8. ASSUME NEW i \in DOMAIN more PROVE more[i].env \in Nat
          <6>1. CASE i = 1
            BY <3>3, <4>2, <5>4, <5>5, <6>1
          <6>2. CASE i # 1
            <7>1. i - 1 \in DOMAIN some /\ (i - 1) + 1 = i
              BY <5>3, <5>4, <5>5, <5>6, <6>2
            <7> QED
              BY <5>4, <5>5, <5>6, <5>7, <7>1
          <6> QED
            BY <6>1, <6>2
        <5>9. ASSUME NEW g \in Nat
              PROVE CountIn(more, g) = CountIn(left, g) + (IF a.env = g THEN 1 ELSE 0)
                                                        + (IF b.env = g THEN 1 ELSE 0)
          <6>1. CountIn(some, g) = CountIn(left, g) + (IF b.env = g THEN 1 ELSE 0)
            BY <2>1, CountPushed DEF some
          <6>2. CountIn(more, g) = CountIn(some, g) + (IF a.env = g THEN 1 ELSE 0)
            BY <5>3, <5>5, CountPushed
          <6>3. CountIn(left, g) \in Nat
            BY <2>1, CountNat
          <6> QED
            BY <6>1, <6>2, <6>3
        <5> QED
          BY <5>4, <5>5, <5>8, <5>9
      <4>4. fs[e].closure.env # e /\ fs[e].next # e
        <5> HIDE DEF held, e, fs
        <5> QED
          BY <1>1, <3>1, <3>2, <3>4, Unheld
      <4>5. With(base, more) \in [Nat -> Nat] /\ \A g \in Nat : With(base, more)[g] = base[g] + CountIn(more, g)
        <5> HIDE DEF more
        <5> QED
          BY <1>1, <4>3, WithNat DEF With
      <4>6. With(base, more)[e] <= held[e] - 1
        <5>1. CountIn(more, e) = CountIn(left, e)
          <6>1. CountIn(left, e) \in Nat
            BY <2>2, <2>3
          <6>2. CountIn(more, e) = CountIn(left, e) + (IF a.env = e THEN 1 ELSE 0)
                                                    + (IF b.env = e THEN 1 ELSE 0)
            BY <2>2, <4>3
          <6>3. a.env # e /\ b.env # e
            BY <4>2, <4>4
          <6> HIDE DEF a, b, more, left
          <6> QED
            BY <6>1, <6>2, <6>3
        <5> HIDE DEF more
        <5> QED
          BY <2>2, <2>5, <3>1, <4>5, <5>1
      <4>7. ASSUME NEW g \in Nat \ {0, e}
            PROVE With(base, more)[g] <= held[g] + (IF fs[e].closure.env = g THEN 1 ELSE 0)
                                                 + (IF fs[e].next = g THEN 1 ELSE 0)
        <5> DEFINE c == IF fs[e].closure.env = g THEN 1 ELSE 0
                   n == IF fs[e].next = g THEN 1 ELSE 0
        <5>1. CountIn(more, g) = CountIn(left, g) + c + n
          BY <4>2, <4>3
        <5>2. c \in Nat /\ n \in Nat
          OBVIOUS
        <5>3. CountIn(todo, g) = CountIn(left, g) /\ CountIn(left, g) \in Nat
          BY <2>3
        <5>4. held[g] = base[g] + CountIn(todo, g) /\ With(base, more)[g] = base[g] + CountIn(more, g)
              /\ base[g] \in Nat
          BY <1>1, <2>4, <4>5
        <5> HIDE DEF c, n, held, more
        <5>5. With(base, more)[g] <= held[g] + c + n
          BY <5>1, <5>2, <5>3, <5>4
        <5> QED
          BY <5>5 DEF c, n
      <4>8. Sound(gs, With(base, more))
        <5> HIDE DEF held, e, more, fs
        <5> QED
          BY <1>1, <3>1, <3>2, <3>4, <4>5, <4>6, <4>7, SoundFreed
      <4>9. Dropping(gs, more, base)
        BY <1>1, <4>3, <4>8 DEF Dropping
      <4>10. Kept(gs, fs)
        BY DEF Kept
      <4> HIDE DEF gs, more
      <4>11. DropNext(mem).fs = gs /\ DropNext(mem).todo = more
        BY <4>1
      <4> QED
        BY <4>9, <4>10, <4>11
    <3>5. CASE ~(fs[e].refs <= 1)
      <4>1. CASE Head(todo).counted
        <5> DEFINE gs == [fs EXCEPT ![e].refs = @ - 1]
        <5>1. DropNext(mem) = [fs |-> gs, todo |-> left]
          BY <1>4, <2>10, <3>5, <4>1 DEF DropNext
        <5>2. fs[e].refs >= 1
          BY <3>3, <3>5
        <5>3. Sound(gs, With(base, left))
          <6> HIDE DEF held, e, left, fs
          <6> QED
            BY <1>1, <2>5, <2>6, <3>1, <3>2, <5>2, SoundLowered
        <5>4. Kept(gs, fs)
          <6>1. gs[e].name = fs[e].name /\ gs[e].closure = fs[e].closure
            BY <3>2, <3>3 DEF Frame
          <6>2. \A f \in DOMAIN fs : f # e => gs[f] = fs[f]
            OBVIOUS
          <6>3. DOMAIN gs = DOMAIN fs
            OBVIOUS
          <6> QED
            BY <6>1, <6>2, <6>3 DEF Kept
        <5>5. Dropping(gs, left, base)
          BY <1>1, <2>1, <5>3 DEF Dropping
        <5> HIDE DEF gs, left
        <5>6. DropNext(mem).fs = gs /\ DropNext(mem).todo = left
          BY <5>1
        <5> QED
          BY <5>4, <5>5, <5>6
      <4>2. CASE ~Head(todo).counted
        <5>1. DropNext(mem) = [fs |-> fs, todo |-> left]
          BY <1>4, <2>10, <3>5, <4>2 DEF DropNext
        <5> QED
          BY <1>2, <2>8, <5>1
      <4> QED
        BY <4>1, <4>2
    <3> QED
      BY <3>4, <3>5
  <2> QED
    BY <2>9, <2>10
<1> QED
  BY <1>3, <1>4

\* A non-empty set of naturals has a smallest element.
LEMMA SmallestOf ==
    ASSUME NEW T \in SUBSET Nat, T # {}
    PROVE  \E x \in T : \A y \in T : x <= y
<1> DEFINE R == {ss \in Nat \X Nat : ss[1] < ss[2]}
<1>1. \A x, y \in Nat : y < x => <<y, x>> \in R
  OBVIOUS
<1>2. IsWellFoundedOn(R, Nat)
  BY NatLessThanWellFounded DEF OpToRel
<1> HIDE DEF R
<1>3. PICK x \in T : \A y \in T : ~(<<y, x>> \in R)
  BY <1>2, WFMin
<1>4. \A y \in T : ~(y < x)
  BY <1>1, <1>3
<1> QED
  BY <1>3, <1>4

\* The memories that dropping goes through.
Drops(m, N, fs, todo) ==
    /\ m = [k \in 0 .. N |-> m[k]]
    /\ m[0] = [fs |-> fs, todo |-> todo]
    /\ \A k \in 1 .. N : m[k] = DropNext(m[k - 1])

\* Dropping can go on for any number of references.
LEMMA DropsExist ==
    ASSUME NEW fs, NEW todo
    PROVE  \A N \in Nat : \E m : Drops(m, N, fs, todo)
<1> DEFINE Bad == {N \in Nat : ~ \E m : Drops(m, N, fs, todo)}
<1> SUFFICES ASSUME Bad # {} PROVE FALSE
  OBVIOUS
<1>1. PICK N \in Bad : \A M \in Bad : N <= M
  BY SmallestOf
<1>2. N \in Nat /\ ~ \E m : Drops(m, N, fs, todo)
  BY <1>1
<1>3. CASE N = 0
  <2> DEFINE m == [k \in 0 .. 0 |-> [fs |-> fs, todo |-> todo]]
  <2>1. Drops(m, 0, fs, todo)
    BY DEF Drops
  <2> QED
    BY <1>2, <1>3, <2>1
<1>4. CASE N # 0
  <2>1. N - 1 \in Nat /\ N - 1 \notin Bad
    BY <1>1, <1>2, <1>4
  <2>2. PICK g : Drops(g, N - 1, fs, todo)
    BY <2>1
  <2> DEFINE next == DropNext(g[N - 1])
             m == [k \in 0 .. N |-> IF k = N THEN next ELSE g[k]]
  <2>3. g[0] = [fs |-> fs, todo |-> todo] /\ \A k \in 1 .. N - 1 : g[k] = DropNext(g[k - 1])
    BY <2>2 DEF Drops
  <2> HIDE DEF next
  <2>4. \A k \in 0 .. N - 1 : m[k] = g[k]
    BY <1>2
  <2>5. m[N] = next /\ m[0] = g[0]
    BY <1>2, <1>4
  <2>6. m = [k \in 0 .. N |-> m[k]]
    OBVIOUS
  <2> HIDE DEF m
  <2>7. ASSUME NEW k \in 1 .. N PROVE m[k] = DropNext(m[k - 1])
    <3>1. k - 1 \in 0 .. N - 1
      BY <1>2
    <3>2. m[k - 1] = g[k - 1]
      BY <2>4, <3>1
    <3>3. CASE k = N
      BY <2>5, <3>2, <3>3 DEF next
    <3>4. CASE k # N
      <4>1. k \in 1 .. N - 1 /\ k \in 0 .. N - 1
        BY <1>2, <3>4
      <4>2. m[k] = g[k] /\ g[k] = DropNext(g[k - 1])
        BY <2>3, <2>4, <4>1
      <4> QED
        BY <3>2, <4>2
    <3> QED
      BY <3>3, <3>4
  <2>8. Drops(m, N, fs, todo)
    BY <2>3, <2>5, <2>6, <2>7 DEF Drops
  <2> QED
    BY <1>2, <2>8
<1> QED
  BY <1>3, <1>4

\* Dropped is where the last of them leaves the heap.
LEMMA DroppedIs ==
    ASSUME NEW fs, NEW todo, IsFiniteSet(DOMAIN fs), IsSeq(todo)
    PROVE  \E N \in Nat : \E m : Drops(m, N, fs, todo) /\ Dropped(fs, todo) = m[N].fs
<1> DEFINE N == Len(todo) + 2 * Cardinality(DOMAIN fs)
           Steps(m) == [k \in 0 .. N |-> IF k = 0 THEN [fs |-> fs, todo |-> todo]
                          ELSE CHOOSE next \in {DropNext(x) : x \in {m[k - 1]}} : TRUE]
           mem == CHOOSE m : m = Steps(m)
<1>1. N \in Nat
  BY SeqHas, FS_CardinalityType
<1>2. Dropped(fs, todo) = mem[N].fs
  BY DEF Dropped
<1> HIDE DEF N
<1>3. ASSUME NEW x PROVE (CHOOSE next \in {DropNext(y) : y \in {x}} : TRUE) = DropNext(x)
  <2>1. {DropNext(y) : y \in {x}} = {DropNext(x)}
    OBVIOUS
  <2> HIDE DEF Steps
  <2> QED
    BY <2>1
<1>4. PICK f : Drops(f, N, fs, todo)
  BY <1>1, DropsExist
<1>5. f = Steps(f)
  <2>1. f = [k \in 0 .. N |-> f[k]] /\ f[0] = [fs |-> fs, todo |-> todo]
        /\ \A k \in 1 .. N : f[k] = DropNext(f[k - 1])
    BY <1>4 DEF Drops
  <2>2. ASSUME NEW k \in 0 .. N
        PROVE f[k] = IF k = 0 THEN [fs |-> fs, todo |-> todo]
                     ELSE CHOOSE next \in {DropNext(x) : x \in {f[k - 1]}} : TRUE
    <3>1. CASE k = 0
      BY <2>1, <3>1
    <3>2. CASE k # 0
      <4>1. k \in 1 .. N
        BY <1>1, <3>2
      <4>2. f[k] = DropNext(f[k - 1])
        BY <2>1, <4>1
      <4>3. (CHOOSE next \in {DropNext(x) : x \in {f[k - 1]}} : TRUE) = DropNext(f[k - 1])
        BY <1>3
      <4> QED
        BY <3>2, <4>2, <4>3
    <3> QED
      BY <3>1, <3>2
  <2>3. [k \in 0 .. N |-> f[k]] = Steps(f)
    BY <2>2
  <2> HIDE DEF Steps
  <2> QED
    BY <2>1, <2>3
<1>6. mem = Steps(mem)
  <2> HIDE DEF Steps
  <2> QED
    BY <1>5
<1>7. Drops(mem, N, fs, todo)
  <2> HIDE DEF mem
  <2>1. mem = [k \in 0 .. N |-> mem[k]]
    BY <1>6
  <2>2. mem[0] = [fs |-> fs, todo |-> todo]
    BY <1>1, <1>6
  <2>3. ASSUME NEW k \in 1 .. N PROVE mem[k] = DropNext(mem[k - 1])
    <3>1. k \in 0 .. N /\ k # 0
      BY <1>1
    <3>2. Steps(mem)[k] = CHOOSE next \in {DropNext(x) : x \in {mem[k - 1]}} : TRUE
      BY <3>1
    <3>3. (CHOOSE next \in {DropNext(x) : x \in {mem[k - 1]}} : TRUE) = DropNext(mem[k - 1])
      BY <1>3
    <3> HIDE DEF Steps
    <3> QED
      BY <1>6, <3>2, <3>3
  <2> HIDE DEF Steps
  <2> QED
    BY <2>1, <2>2, <2>3 DEF Drops
<1> HIDE DEF mem
<1> QED
  BY <1>1, <1>2, <1>7

\* What is dropped is no longer held; the rest of the heap stays sound.
LEMMA DroppedSound ==
    ASSUME NEW fs, NEW todo, NEW base, Dropping(fs, todo, base)
    PROVE  Sound(Dropped(fs, todo), base) /\ Kept(Dropped(fs, todo), fs)
<1>1. IsSeq(todo) /\ IsFiniteSet(DOMAIN fs) /\ base \in [Nat -> Nat]
  BY DEF Dropping, Sound, Heap
<1>2. PICK N \in Nat : \E m : Drops(m, N, fs, todo) /\ Dropped(fs, todo) = m[N].fs
  BY <1>1, DroppedIs
<1>3. PICK m : Drops(m, N, fs, todo) /\ Dropped(fs, todo) = m[N].fs
  BY <1>2
<1> DEFINE Bad == {k \in 0 .. N : ~(Dropping(m[k].fs, m[k].todo, base) /\ Kept(m[k].fs, fs))}
<1>4. Bad = {}
  <2> SUFFICES ASSUME Bad # {} PROVE FALSE
    OBVIOUS
  <2>1. Bad \in SUBSET Nat
    OBVIOUS
  <2>2. PICK k \in Bad : \A j \in Bad : k <= j
    BY <2>1, SmallestOf
  <2>3. k \in 0 .. N /\ ~(Dropping(m[k].fs, m[k].todo, base) /\ Kept(m[k].fs, fs))
    BY <2>2
  <2>4. CASE k = 0
    <3>1. m[0].fs = fs /\ m[0].todo = todo
      BY <1>3 DEF Drops
    <3>2. Kept(fs, fs)
      BY DEF Kept
    <3> QED
      BY <2>3, <2>4, <3>1, <3>2
  <2>5. CASE k # 0
    <3>1. k - 1 \in 0 .. N /\ k \in 1 .. N
      BY <2>3, <2>5
    <3>2. k - 1 \notin Bad
      BY <2>2, <2>3
    <3>3. Dropping(m[k - 1].fs, m[k - 1].todo, base) /\ Kept(m[k - 1].fs, fs)
      BY <3>1, <3>2
    <3>4. m[k] = DropNext(m[k - 1])
      BY <1>3, <3>1 DEF Drops
    <3>5. Dropping(m[k].fs, m[k].todo, base) /\ Kept(m[k].fs, m[k - 1].fs)
      BY <3>3, <3>4, DropNextSound
    <3>6. Kept(m[k].fs, fs)
      BY <3>3, <3>5 DEF Kept
    <3> QED
      BY <2>3, <3>5, <3>6
  <2> QED
    BY <2>4, <2>5
<1>5. N \in 0 .. N
  OBVIOUS
<1>6. Dropping(m[N].fs, m[N].todo, base) /\ Kept(m[N].fs, fs)
  BY <1>4, <1>5
<1> DEFINE left == m[N].todo
<1>7. \A g \in Nat : base[g] <= With(base, left)[g]
  <2> TAKE g \in Nat
  <2>1. CountIn(left, g) \in Nat
    BY <1>6, CountNat DEF Dropping
  <2>2. base[g] \in Nat /\ With(base, left)[g] = base[g] + CountIn(left, g)
    BY <1>1 DEF With
  <2> QED
    BY <2>1, <2>2
<1>8. Sound(m[N].fs, base)
  <2>1. Sound(m[N].fs, With(base, left))
    BY <1>6 DEF Dropping
  <2> HIDE DEF left
  <2> QED
    BY <1>1, <1>7, <2>1, SoundLess
<1> QED
  BY <1>3, <1>6, <1>8

(***************************************************************************)
(* Looking a word up, and a place for a new frame.                         *)
(***************************************************************************)
Links == {Null} \union DOMAIN frames

\* The frame that binds a word is one of the heap, if there is one.
LEMMA BoundByFrame ==
    ASSUME Heap(frames), NEW w, NEW e \in Links
    PROVE  BoundBy(w, e) \in Links
<1> DEFINE N == Cardinality(DOMAIN frames)
           Step == [f \in Links |-> IF f = Null \/ frames[f].name = w THEN f ELSE frames[f].next]
           Up(at) == [k \in 0 .. N |-> IF k = 0 THEN e ELSE Step[at[k - 1]]]
           it == CHOOSE at : at = Up(at)
           IsUp(f, M) == /\ f \in [0 .. M -> Links] /\ f[0] = e
                         /\ \A k \in 1 .. M : f[k] = Step[f[k - 1]]
<1>1. N \in Nat
  BY FS_CardinalityType DEF Heap
<1>2. BoundBy(w, e) = it[N]
  BY DEF BoundBy, Links
<1>3. Step \in [Links -> Links]
  BY DEF Links, Null, Heap
<1> HIDE DEF Step, N
<1>4. \A M \in Nat : \E f : IsUp(f, M)
  <2> DEFINE Bad == {M \in Nat : ~ \E f : IsUp(f, M)}
  <2> SUFFICES ASSUME Bad # {} PROVE FALSE
    OBVIOUS
  <2>1. PICK M \in Bad : \A K \in Bad : M <= K
    BY SmallestOf
  <2>2. M \in Nat /\ ~ \E f : IsUp(f, M)
    BY <2>1
  <2>3. CASE M = 0
    <3> DEFINE f == [k \in 0 .. 0 |-> e]
    <3>1. IsUp(f, 0)
      OBVIOUS
    <3> QED
      BY <2>2, <2>3, <3>1
  <2>4. CASE M # 0
    <3>1. M - 1 \in Nat /\ M - 1 \notin Bad
      <4>1. M - 1 \in Nat /\ ~(M <= M - 1)
        BY <2>2, <2>4
      <4> HIDE DEF Bad
      <4> QED
        BY <2>1, <4>1
    <3>2. PICK g : IsUp(g, M - 1)
      BY <3>1
    <3> DEFINE f == [k \in 0 .. M |-> IF k = M THEN Step[g[M - 1]] ELSE g[k]]
    <3>3. g \in [0 .. M - 1 -> Links] /\ g[0] = e /\ \A k \in 1 .. M - 1 : g[k] = Step[g[k - 1]]
      BY <3>2
    <3>4. M - 1 \in 0 .. M - 1
      BY <3>1
    <3>5. Step[g[M - 1]] \in Links
      BY <1>3, <3>3, <3>4
    <3>6. f \in [0 .. M -> Links]
      BY <2>2, <3>3, <3>5
    <3>7. \A k \in 0 .. M - 1 : f[k] = g[k]
      BY <2>2
    <3>8. f[M] = Step[g[M - 1]] /\ f[0] = e
      BY <2>2, <2>4, <3>3
    <3> HIDE DEF f
    <3>9. ASSUME NEW k \in 1 .. M PROVE f[k] = Step[f[k - 1]]
      <4>1. k - 1 \in 0 .. M - 1
        BY <2>2
      <4>2. CASE k = M
        BY <3>7, <3>8, <4>1, <4>2
      <4>3. CASE k # M
        <5>1. k \in 1 .. M - 1 /\ k \in 0 .. M - 1
          BY <2>2, <4>3
        <5> QED
          BY <3>3, <3>7, <4>1, <5>1
      <4> QED
        BY <4>2, <4>3
    <3>10. IsUp(f, M)
      BY <3>6, <3>8, <3>9
    <3> QED
      BY <2>2, <3>10
  <2> QED
    BY <2>3, <2>4
<1>5. PICK f : IsUp(f, N)
  BY <1>1, <1>4
<1>6. f = Up(f)
  <2>1. \A k \in 0 .. N : k = 0 \/ k \in 1 .. N
    BY <1>1
  <2>2. f \in [0 .. N -> Links] /\ f[0] = e /\ \A k \in 1 .. N : f[k] = Step[f[k - 1]]
    BY <1>5
  <2> QED
    BY <2>1, <2>2
<1>7. it = Up(it)
  <2> HIDE DEF Up
  <2> QED
    BY <1>6
<1>8. ASSUME NEW k \in 0 .. N PROVE it[k] \in Links
  <2> DEFINE Bad == {j \in 0 .. N : it[j] \notin Links}
  <2> SUFFICES ASSUME Bad # {} PROVE FALSE
    OBVIOUS
  <2>1. Bad \in SUBSET Nat
    OBVIOUS
  <2>2. PICK j \in Bad : \A i \in Bad : j <= i
    BY <2>1, SmallestOf
  <2>3. j \in 0 .. N /\ it[j] \notin Links
    BY <2>2
  <2> HIDE DEF it
  <2>4. it[j] = IF j = 0 THEN e ELSE Step[it[j - 1]]
    BY <1>7, <2>3
  <2>5. CASE j = 0
    BY <2>3, <2>4, <2>5
  <2>6. CASE j # 0
    <3>1. j - 1 \in 0 .. N /\ ~(j <= j - 1)
      BY <1>1, <2>3, <2>6
    <3>2. it[j - 1] \in Links
      BY <2>2, <3>1
    <3> QED
      BY <1>3, <2>3, <2>4, <2>6, <3>2
  <2> QED
    BY <2>5, <2>6
<1>9. N \in 0 .. N
  BY <1>1
<1> HIDE DEF it
<1> QED
  BY <1>2, <1>8, <1>9

\* There is always a place for a new frame.
LEMMA FreshIsNew ==
    ASSUME Heap(frames)
    PROVE  Fresh \in Nat \ {0} /\ Fresh \notin DOMAIN frames
<1> DEFINE N == Cardinality(DOMAIN frames)
           I == 1 .. N + 1
<1>1. IsFiniteSet(DOMAIN frames) /\ N \in Nat
  BY FS_CardinalityType DEF Heap
<1> HIDE DEF N
<1>2. IsFiniteSet(I) /\ Cardinality(I) = N + 1
  <2>1. N + 1 \in Int /\ 1 \in Int /\ ~(1 > N + 1) /\ ((N + 1) - 1) + 1 = N + 1
    BY <1>1
  <2> QED
    BY <2>1, FS_Interval
<1>3. \E i \in I : i \notin DOMAIN frames
  <2> SUFFICES ASSUME I \subseteq DOMAIN frames PROVE FALSE
    OBVIOUS
  <2>1. Cardinality(I) <= Cardinality(DOMAIN frames)
    BY <1>1, FS_Subset
  <2> HIDE DEF I
  <2> QED
    BY <1>1, <1>2, <2>1 DEF N
<1>4. Fresh \in I /\ Fresh \notin DOMAIN frames
  BY <1>3 DEF Fresh, N
<1> QED
  BY <1>1, <1>4

(***************************************************************************)
(* Terms, programs, results and stacks.                                    *)
(***************************************************************************)
\* A term with all its parts.
Good(t) == \E T : PartsIn(T) /\ t \in T

Simple(i) ==
    /\ i.op # "CLOSURE"
    /\ i.op = "RESOLVENAME" => Good(i.arg)
    /\ i.op = "GRAB" => i.arg.kind = "variable"

SimpleCode(c) == IsSeq(c) /\ \A i \in DOMAIN c : Simple(c[i])

Instruction(i) ==
    /\ i.op = "RESOLVENAME" => Good(i.arg)
    /\ i.op = "GRAB" => i.arg.kind = "variable"
    /\ i.op = "CLOSURE" => SimpleCode(i.arg)

Code(c) == IsSeq(c) /\ \A i \in DOMAIN c : Instruction(c[i])

Result(r) == r.type \in {"INT", "PREFIX"} /\ r.val \in Int
ResultsOK(rs) == IsSeq(rs) /\ \A i \in DOMAIN rs : Result(rs[i])

StackOK(s) == IsSeq(s) /\ \A i \in DOMAIN s : s[i].env \in Nat /\ Code(s[i].code)

NamesOK(fs) == \A e \in DOMAIN fs : fs[e].name.kind = "variable" /\ Code(fs[e].closure.code)

\* A word is a term.
LEMMA GoodVar ==
    ASSUME NEW w, w.kind = "number" => w.val \in Int
    PROVE  Good(Var(w))
<1> DEFINE T == {Var(w)}
<1>1. PartsIn(T)
  BY DEF PartsIn, Var
<1>2. Var(w) \in T
  OBVIOUS
<1> HIDE DEF T
<1> QED
  BY <1>1, <1>2 DEF Good

\* A function is a term when its body is one.
LEMMA GoodLambda ==
    ASSUME NEW w, w.kind = "variable", NEW m, Good(m)
    PROVE  Good(Lambda(w, m))
<1>1. PICK S : PartsIn(S) /\ m \in S
  BY DEF Good
<1> DEFINE T == S \union {Lambda(w, m)}
<1>2. \A t \in S :
        \/ t.kind = "var" /\ (t.v.kind = "number" => t.v.val \in Int)
        \/ t.kind = "lambda" /\ t.v.kind = "variable" /\ t.m \in T
        \/ t.kind = "app" /\ {t.m, t.n} \subseteq T
  BY <1>1 DEF PartsIn
<1>3. Lambda(w, m).kind = "lambda" /\ Lambda(w, m).v.kind = "variable" /\ Lambda(w, m).m \in T
  BY <1>1 DEF Lambda
<1>4. PartsIn(T)
  BY <1>2, <1>3 DEF PartsIn
<1>5. Lambda(w, m) \in T
  OBVIOUS
<1> HIDE DEF T
<1> QED
  BY <1>4, <1>5 DEF Good

\* An application is a term when its two parts are.
LEMMA GoodApply ==
    ASSUME NEW m, Good(m), NEW n, Good(n)
    PROVE  Good(Apply(m, n))
<1>1. PICK S : PartsIn(S) /\ m \in S
  BY DEF Good
<1>2. PICK R : PartsIn(R) /\ n \in R
  BY DEF Good
<1> DEFINE T == S \union R \union {Apply(m, n)}
<1>3. \A t \in S \union R :
        \/ t.kind = "var" /\ (t.v.kind = "number" => t.v.val \in Int)
        \/ t.kind = "lambda" /\ t.v.kind = "variable" /\ t.m \in T
        \/ t.kind = "app" /\ {t.m, t.n} \subseteq T
  BY <1>1, <1>2 DEF PartsIn
<1>4. Apply(m, n).kind = "app" /\ {Apply(m, n).m, Apply(m, n).n} \subseteq T
  BY <1>1, <1>2 DEF Apply
<1>5. PartsIn(T)
  BY <1>3, <1>4 DEF PartsIn
<1>6. Apply(m, n) \in T
  OBVIOUS
<1> HIDE DEF T
<1> QED
  BY <1>5, <1>6 DEF Good

\* What a term of each kind has.
LEMMA GoodParts ==
    ASSUME NEW t, Good(t)
    PROVE  /\ t.kind = "var" => (t.v.kind = "number" => t.v.val \in Int)
           /\ t.kind = "lambda" => t.v.kind = "variable" /\ Good(t.m)
           /\ t.kind = "app" => Good(t.m) /\ Good(t.n)
<1>1. PICK T : PartsIn(T) /\ t \in T
  BY DEF Good
<1>2. \A s \in T : Good(s)
  BY <1>1 DEF Good
<1>3. \/ t.kind = "var" /\ (t.v.kind = "number" => t.v.val \in Int)
      \/ t.kind = "lambda" /\ t.v.kind = "variable" /\ t.m \in T
      \/ t.kind = "app" /\ {t.m, t.n} \subseteq T
  BY <1>1 DEF PartsIn
<1> QED
  BY <1>2, <1>3

\* An instruction in front of a program.
LEMMA CodePushed ==
    ASSUME NEW i, Instruction(i), NEW c, Code(c)
    PROVE  Code(<<i>> \o c)
<1> DEFINE d == <<i>> \o c
<1>1. IsSeq(d) /\ Len(d) = Len(c) + 1 /\ d[1] = i /\ \A j \in 1 .. Len(c) : d[j + 1] = c[j]
  BY Pushed DEF Code
<1> HIDE DEF d
<1>2. DOMAIN d = 1 .. Len(d) /\ Len(c) \in Nat /\ DOMAIN c = 1 .. Len(c)
  BY <1>1, SeqHas DEF Code
<1>3. ASSUME NEW j \in DOMAIN d PROVE Instruction(d[j])
  <2>1. CASE j = 1
    BY <1>1, <2>1
  <2>2. CASE j # 1
    <3>1. j - 1 \in DOMAIN c /\ (j - 1) + 1 = j
      BY <1>1, <1>2, <2>2
    <3>2. d[j] = c[j - 1]
      BY <1>1, <1>2, <3>1
    <3> QED
      BY <3>1, <3>2 DEF Code
  <2> QED
    BY <2>1, <2>2
<1> QED
  BY <1>1, <1>3 DEF Code, d

\* Two instructions in front of a program.
LEMMA CodePushedTwo ==
    ASSUME NEW i, Instruction(i), NEW j, Instruction(j), NEW c, Code(c)
    PROVE  Code(<<i, j>> \o c)
<1>1. Code(<<j>> \o c)
  BY CodePushed
<1>2. Code(<<i>> \o (<<j>> \o c))
  BY <1>1, CodePushed
<1>3. IsSeq(c)
  BY DEF Code
<1>4. <<i, j>> \o c = <<i>> \o (<<j>> \o c)
  BY <1>3, TwoPushed
<1> QED
  BY <1>2, <1>4

\* One program after another (DoTailApply).
LEMMA CodeJoined ==
    ASSUME NEW b, Code(b), NEW c, Code(c)
    PROVE  Code(b \o c)
<1> DEFINE d == b \o c
<1>1. IsSeq(b) /\ IsSeq(c)
  BY DEF Code
<1>2. IsSeq(d) /\ Len(d) = Len(b) + Len(c) /\ (\A j \in 1 .. Len(b) : d[j] = b[j])
      /\ \A j \in 1 .. Len(c) : d[Len(b) + j] = c[j]
  BY <1>1, Joined
<1> HIDE DEF d
<1>3. /\ DOMAIN d = 1 .. Len(d)
      /\ Len(b) \in Nat /\ DOMAIN b = 1 .. Len(b)
      /\ Len(c) \in Nat /\ DOMAIN c = 1 .. Len(c)
  BY <1>1, <1>2, SeqHas
<1>4. ASSUME NEW j \in DOMAIN d PROVE Instruction(d[j])
  <2>1. CASE j \in 1 .. Len(b)
    BY <1>2, <1>3, <2>1 DEF Code
  <2>2. CASE j \notin 1 .. Len(b)
    <3>1. j - Len(b) \in DOMAIN c /\ Len(b) + (j - Len(b)) = j
      BY <1>2, <1>3, <2>2
    <3>2. d[j] = c[j - Len(b)]
      BY <1>2, <1>3, <3>1
    <3> QED
      BY <3>1, <3>2 DEF Code
  <2> QED
    BY <2>1, <2>2
<1> QED
  BY <1>2, <1>4 DEF Code, d

\* The first instruction of a program, and the rest of it.
LEMMA CodeCut ==
    ASSUME NEW c, Code(c), c # << >>
    PROVE  Instruction(Head(c)) /\ Code(Tail(c))
<1>1. IsSeq(c)
  BY DEF Code
<1>2. /\ IsSeq(Tail(c)) /\ Len(c) \in Nat /\ Len(c) >= 1 /\ Len(Tail(c)) = Len(c) - 1
      /\ Head(c) = c[1] /\ \A i \in 1 .. Len(Tail(c)) : Tail(c)[i] = c[i + 1]
  BY <1>1, Cut
<1>3. DOMAIN c = 1 .. Len(c) /\ DOMAIN Tail(c) = 1 .. Len(Tail(c))
  BY <1>1, <1>2, SeqHas
<1>4. 1 \in DOMAIN c /\ \A i \in DOMAIN Tail(c) : i + 1 \in DOMAIN c
  BY <1>2, <1>3
<1>5. ASSUME NEW i \in DOMAIN Tail(c) PROVE Instruction(Tail(c)[i])
  <2>1. Tail(c)[i] = c[i + 1] /\ i + 1 \in DOMAIN c
    BY <1>2, <1>3, <1>4
  <2> QED
    BY <2>1 DEF Code
<1> QED
  BY <1>2, <1>4, <1>5 DEF Code

\* Programs of one and of two instructions.
LEMMA CodeShort ==
    /\ Code(<< >>)
    /\ \A i : Instruction(i) => Code(<<i>>)
    /\ \A i, j : Instruction(i) /\ Instruction(j) => Code(<<i, j>>)
<1>1. Code(<< >>)
  <2>1. DOMAIN << >> = {}
    OBVIOUS
  <2> QED
    BY <2>1, ShortSeqs DEF Code
<1>2. ASSUME NEW i, Instruction(i) PROVE Code(<<i>>)
  <2>1. IsSeq(<<i>>) /\ Len(<<i>>) = 1 /\ <<i>>[1] = i
    BY ShortSeqs
  <2>2. DOMAIN <<i>> = 1 .. 1
    BY <2>1, SeqHas
  <2>3. \A k \in 1 .. 1 : k = 1
    OBVIOUS
  <2> QED
    BY <1>2, <2>1, <2>2, <2>3 DEF Code
<1>3. ASSUME NEW i, NEW j, Instruction(i), Instruction(j) PROVE Code(<<i, j>>)
  <2>1. Code(<<i, j>> \o << >>)
    BY <1>1, <1>3, CodePushedTwo
  <2>2. <<i, j>> \o << >> = <<i, j>>
    OBVIOUS
  <2> QED
    BY <2>1, <2>2
<1> QED
  BY <1>1, <1>2, <1>3

\* A simple program is a program.
LEMMA CodeSimple ==
    ASSUME NEW c, SimpleCode(c)
    PROVE  Code(c)
BY DEF SimpleCode, Code, Simple, Instruction

\* A program of one simple instruction, as in a closure.
LEMMA SimpleOne ==
    ASSUME NEW i, Simple(i)
    PROVE  SimpleCode(<<i>>)
<1>1. IsSeq(<<i>>) /\ Len(<<i>>) = 1 /\ <<i>>[1] = i
  BY ShortSeqs
<1>2. DOMAIN <<i>> = 1 .. 1
  BY <1>1, SeqHas
<1>3. \A k \in 1 .. 1 : k = 1
  OBVIOUS
<1> QED
  BY <1>1, <1>2, <1>3 DEF SimpleCode

\* The instructions that the machine makes.
LEMMA Made ==
    /\ \A t : Good(t) => Simple(Resolve(t)) /\ Instruction(Resolve(t))
    /\ \A c : SimpleCode(c) => Instruction(MkClosure(c))
    /\ \A w : Instruction(Access(w))
    /\ \A w : w.kind = "variable" => Instruction(Grab(w))
    /\ Instruction(TailApply)
    /\ \A op : op \notin {"CLOSURE", "RESOLVENAME", "GRAB"} => Simple(Op(op))
<1>1. ASSUME NEW t, Good(t) PROVE Simple(Resolve(t)) /\ Instruction(Resolve(t))
  BY <1>1 DEF Simple, Instruction, Resolve, Instr
<1>2. ASSUME NEW c, SimpleCode(c) PROVE Instruction(MkClosure(c))
  BY <1>2 DEF Instruction, MkClosure, Instr
<1>3. ASSUME NEW w PROVE Instruction(Access(w))
  BY DEF Instruction, Access, Instr
<1>4. ASSUME NEW w, w.kind = "variable" PROVE Instruction(Grab(w))
  BY <1>4 DEF Instruction, Grab, Instr
<1>5. Instruction(TailApply)
  BY DEF Instruction, TailApply, Instr
<1>6. ASSUME NEW op, op \notin {"CLOSURE", "RESOLVENAME", "GRAB"} PROVE Simple(Op(op))
  BY <1>6 DEF Simple, Op, Instr
<1> QED
  BY <1>1, <1>2, <1>3, <1>4, <1>5, <1>6

\* A result in front of the results.
LEMMA ResultsPushed ==
    ASSUME NEW r, Result(r), NEW rs, ResultsOK(rs)
    PROVE  ResultsOK(<<r>> \o rs)
<1> DEFINE d == <<r>> \o rs
<1>1. IsSeq(d) /\ Len(d) = Len(rs) + 1 /\ d[1] = r /\ \A j \in 1 .. Len(rs) : d[j + 1] = rs[j]
  BY Pushed DEF ResultsOK
<1> HIDE DEF d
<1>2. DOMAIN d = 1 .. Len(d) /\ Len(rs) \in Nat /\ DOMAIN rs = 1 .. Len(rs)
  BY <1>1, SeqHas DEF ResultsOK
<1>3. ASSUME NEW j \in DOMAIN d PROVE Result(d[j])
  <2>1. CASE j = 1
    BY <1>1, <2>1
  <2>2. CASE j # 1
    <3>1. j - 1 \in DOMAIN rs /\ (j - 1) + 1 = j
      BY <1>1, <1>2, <2>2
    <3>2. d[j] = rs[j - 1]
      BY <1>1, <1>2, <3>1
    <3> QED
      BY <3>1, <3>2 DEF ResultsOK
  <2> QED
    BY <2>1, <2>2
<1> QED
  BY <1>1, <1>3 DEF ResultsOK, d

\* The result on top, and those below it.
LEMMA ResultsCut ==
    ASSUME NEW rs, ResultsOK(rs), rs # << >>
    PROVE  /\ Result(rs[1]) /\ ResultsOK(Tail(rs)) /\ Len(rs) \in Nat /\ Len(rs) >= 1
           /\ Len(rs) >= 2 => Tail(rs) # << >>
<1>1. IsSeq(rs)
  BY DEF ResultsOK
<1>2. /\ IsSeq(Tail(rs)) /\ Len(rs) \in Nat /\ Len(rs) >= 1 /\ Len(Tail(rs)) = Len(rs) - 1
      /\ \A i \in 1 .. Len(Tail(rs)) : Tail(rs)[i] = rs[i + 1]
  BY <1>1, Cut
<1>3. DOMAIN rs = 1 .. Len(rs) /\ DOMAIN Tail(rs) = 1 .. Len(Tail(rs))
      /\ ((Tail(rs) = << >>) <=> (Len(Tail(rs)) = 0))
  BY <1>1, <1>2, SeqHas
<1>4. 1 \in DOMAIN rs /\ \A i \in DOMAIN Tail(rs) : i + 1 \in DOMAIN rs
  BY <1>2, <1>3
<1>5. ASSUME NEW i \in DOMAIN Tail(rs) PROVE Result(Tail(rs)[i])
  <2>1. Tail(rs)[i] = rs[i + 1] /\ i + 1 \in DOMAIN rs
    BY <1>2, <1>3, <1>4
  <2> QED
    BY <2>1 DEF ResultsOK
<1>6. Len(rs) >= 2 => Tail(rs) # << >>
  BY <1>2, <1>3
<1> QED
  BY <1>2, <1>4, <1>5, <1>6 DEF ResultsOK

\* A closure in front of the stack.
LEMMA StackPushed ==
    ASSUME NEW c, c.env \in Nat, Code(c.code), NEW s, StackOK(s)
    PROVE  StackOK(<<c>> \o s)
<1> DEFINE d == <<c>> \o s
<1>1. IsSeq(d) /\ Len(d) = Len(s) + 1 /\ d[1] = c /\ \A j \in 1 .. Len(s) : d[j + 1] = s[j]
  BY Pushed DEF StackOK
<1> HIDE DEF d
<1>2. DOMAIN d = 1 .. Len(d) /\ Len(s) \in Nat /\ DOMAIN s = 1 .. Len(s)
  BY <1>1, SeqHas DEF StackOK
<1>3. ASSUME NEW j \in DOMAIN d PROVE d[j].env \in Nat /\ Code(d[j].code)
  <2>1. CASE j = 1
    BY <1>1, <2>1
  <2>2. CASE j # 1
    <3>1. j - 1 \in DOMAIN s /\ (j - 1) + 1 = j
      BY <1>1, <1>2, <2>2
    <3>2. d[j] = s[j - 1]
      BY <1>1, <1>2, <3>1
    <3> QED
      BY <3>1, <3>2 DEF StackOK
  <2> QED
    BY <2>1, <2>2
<1> QED
  BY <1>1, <1>3 DEF StackOK, d

\* The closure on top of the stack, and those below it.
LEMMA StackCut ==
    ASSUME NEW s, StackOK(s), s # << >>
    PROVE  Head(s).env \in Nat /\ Code(Head(s).code) /\ StackOK(Tail(s))
<1>1. IsSeq(s)
  BY DEF StackOK
<1>2. /\ IsSeq(Tail(s)) /\ Len(s) \in Nat /\ Len(s) >= 1 /\ Len(Tail(s)) = Len(s) - 1
      /\ Head(s) = s[1] /\ \A i \in 1 .. Len(Tail(s)) : Tail(s)[i] = s[i + 1]
  BY <1>1, Cut
<1>3. DOMAIN s = 1 .. Len(s) /\ DOMAIN Tail(s) = 1 .. Len(Tail(s))
  BY <1>1, <1>2, SeqHas
<1>4. 1 \in DOMAIN s /\ \A i \in DOMAIN Tail(s) : i + 1 \in DOMAIN s
  BY <1>2, <1>3
<1>5. ASSUME NEW i \in DOMAIN Tail(s) PROVE Tail(s)[i].env \in Nat /\ Code(Tail(s)[i].code)
  <2>1. Tail(s)[i] = s[i + 1] /\ i + 1 \in DOMAIN s
    BY <1>2, <1>3, <1>4
  <2> QED
    BY <2>1 DEF StackOK
<1> QED
  BY <1>2, <1>4, <1>5 DEF StackOK

\* A stack without closures.
LEMMA StackEmpty == StackOK(<< >>)
<1>1. DOMAIN << >> = {}
  OBVIOUS
<1> QED
  BY <1>1, ShortSeqs DEF StackOK

\* A closure counts for the frame that it refers to.
LEMMA CountSome ==
    ASSUME NEW s, IsSeq(s), NEW i \in DOMAIN s
    PROVE  CountIn(s, s[i].env) >= 1
<1>1. IsFiniteSet(In(s, s[i].env)) /\ CountIn(s, s[i].env) \in Nat
  BY CountNat
<1>2. In(s, s[i].env) # {}
  BY DEF In
<1>3. CountIn(s, s[i].env) # 0
  BY <1>1, <1>2, FS_EmptySet DEF CountIn
<1> QED
  BY <1>1, <1>3

(***************************************************************************)
(* The terms of the global environment and of a call.                      *)
(***************************************************************************)
\* The words of the machine's own terms are terms.
LEMMA OwnWords ==
    /\ X.kind = "variable" /\ Y.kind = "variable" /\ F.kind = "variable"
    /\ Good(Var(X)) /\ Good(Var(Y)) /\ Good(Var(F))
    /\ \A i : Parameter(i).kind = "variable" /\ Good(Var(Parameter(i)))
    /\ \A n \in Int : Good(Var(Number(n)))
<1>1. X.kind = "variable" /\ Y.kind = "variable" /\ F.kind = "variable"
  BY DEF X, Y, F, Variable, Token
<1>2. \A i : Parameter(i).kind = "variable"
  BY DEF Parameter, Variable, Token
<1>3. Good(Var(X)) /\ Good(Var(Y)) /\ Good(Var(F))
  BY <1>1, GoodVar
<1>4. ASSUME NEW i PROVE Good(Var(Parameter(i)))
  BY <1>2, GoodVar
<1>5. ASSUME NEW n \in Int PROVE Good(Var(Number(n)))
  <2>1. Number(n).val \in Int
    BY DEF Number, Token
  <2> QED
    BY <2>1, GoodVar
<1> QED
  BY <1>1, <1>2, <1>3, <1>4, <1>5

\* Two elements and a third one.
LEMMA ThreeJoined ==
    ASSUME NEW x, NEW y, NEW z
    PROVE  <<x, y>> \o <<z>> = <<x, y, z>>
<1> DEFINE T == {x, y, z}
<1>1. <<x, y>> \in Seq(T) /\ Len(<<x, y>>) = 2 /\ <<x, y>>[1] = x /\ <<x, y>>[2] = y
  OBVIOUS
<1>2. <<z>> \in Seq(T) /\ Len(<<z>>) = 1 /\ <<z>>[1] = z
  OBVIOUS
<1>3. /\ <<x, y, z>> \in Seq(T) /\ Len(<<x, y, z>>) = 3
      /\ <<x, y, z>>[1] = x /\ <<x, y, z>>[2] = y /\ <<x, y, z>>[3] = z
  OBVIOUS
<1> HIDE DEF T
<1> DEFINE s == <<x, y>>
           t == <<z>>
           u == <<x, y, z>>
<1>4. /\ s \in Seq(T) /\ Len(s) = 2 /\ s[1] = x /\ s[2] = y
      /\ t \in Seq(T) /\ Len(t) = 1 /\ t[1] = z
      /\ u \in Seq(T) /\ Len(u) = 3 /\ u[1] = x /\ u[2] = y /\ u[3] = z
  BY <1>1, <1>2, <1>3
<1> HIDE DEF s, t, u
<1>5. s \o t \in Seq(T) /\ Len(s \o t) = Len(s) + Len(t)
      /\ \A i \in 1 .. Len(s) + Len(t) : (s \o t)[i] = IF i <= Len(s) THEN s[i] ELSE t[i - Len(s)]
  BY <1>4, ConcatProperties
<1>6. (s \o t)[1] = x /\ (s \o t)[2] = y /\ (s \o t)[3] = z /\ Len(s \o t) = 3
  BY <1>4, <1>5
<1>7. \A i \in 1 .. Len(u) : u[i] = (s \o t)[i]
  BY <1>4, <1>6
<1>8. s \o t = u
  BY <1>4, <1>5, <1>6, <1>7, SeqEqual
<1> QED
  BY <1>8 DEF s, t, u

\* The programs of the global environment.
LEMMA GlobalCode ==
    ASSUME NEW n \in Builtins
    PROVE  Code(Global(n))
<1> DEFINE B == Lambda(F, Lambda(X, Lambda(Y, Apply(Apply(Var(X), Var(Y)), Var(F)))))
           U == Lambda(F, Lambda(X, Apply(Var(X), Var(F))))
<1>1. Good(B)
  <2>1. Good(Apply(Apply(Var(X), Var(Y)), Var(F)))
    BY OwnWords, GoodApply
  <2>2. Good(Lambda(Y, Apply(Apply(Var(X), Var(Y)), Var(F))))
    BY <2>1, OwnWords, GoodLambda
  <2>3. Good(Lambda(X, Lambda(Y, Apply(Apply(Var(X), Var(Y)), Var(F)))))
    BY <2>2, OwnWords, GoodLambda
  <2> QED
    BY <2>3, OwnWords, GoodLambda
<1>2. Good(U)
  <2>1. Good(Apply(Var(X), Var(F)))
    BY OwnWords, GoodApply
  <2>2. Good(Lambda(X, Apply(Var(X), Var(F))))
    BY <2>1, OwnWords, GoodLambda
  <2> QED
    BY <2>2, OwnWords, GoodLambda
<1> HIDE DEF B, U
<1>3. ASSUME NEW op, op \notin {"CLOSURE", "RESOLVENAME", "GRAB"}
      PROVE Instruction(MkClosure(<<Op(op)>>))
  <2>1. Simple(Op(op))
    BY <1>3, Made
  <2>2. SimpleCode(<<Op(op)>>)
    BY <2>1, SimpleOne
  <2> QED
    BY <2>2, Made
<1>4. ASSUME NEW op, op \notin {"CLOSURE", "RESOLVENAME", "GRAB"} PROVE Code(Binary(op))
  <2>1. Instruction(MkClosure(<<Op(op)>>)) /\ Instruction(Resolve(B))
    BY <1>1, <1>3, <1>4, Made
  <2>2. Code(<<MkClosure(<<Op(op)>>), Resolve(B)>>)
    BY <2>1, CodeShort
  <2> QED
    BY <2>2 DEF Binary, B
<1>5. ASSUME NEW op, op \notin {"CLOSURE", "RESOLVENAME", "GRAB"} PROVE Code(Unary(op))
  <2>1. Instruction(MkClosure(<<Op(op)>>)) /\ Instruction(Resolve(U)) /\ Instruction(TailApply)
    BY <1>2, <1>3, <1>5, Made
  <2>2. Code(<<TailApply>>)
    BY <2>1, CodeShort
  <2>3. Code(<<MkClosure(<<Op(op)>>), Resolve(U)>> \o <<TailApply>>)
    BY <2>1, <2>2, CodePushedTwo
  <2>4. <<MkClosure(<<Op(op)>>), Resolve(U)>> \o <<TailApply>> = <<MkClosure(<<Op(op)>>), Resolve(U), TailApply>>
    BY ThreeJoined
  <2>5. Code(<<MkClosure(<<Op(op)>>), Resolve(U), TailApply>>)
    BY <2>3, <2>4
  <2> QED
    BY <2>5 DEF Unary, U
<1>6. ASSUME NEW op, op \notin {"CLOSURE", "RESOLVENAME", "GRAB"} PROVE Code(Binary(op) \o <<TailApply>>)
  <2>1. Code(<<TailApply>>)
    BY Made, CodeShort
  <2> QED
    BY <1>4, <1>6, <2>1, CodeJoined
<1>7. CASE n = "add"
  <2>1. Global(n) = Binary("OP_ADD") \o <<TailApply>>
    BY <1>7 DEF Global
  <2> QED
    BY <1>6, <2>1
<1>8. CASE n = "sub"
  <2>1. Global(n) = Binary("OP_SUB") \o <<TailApply>>
    BY <1>8 DEF Global
  <2> QED
    BY <1>6, <2>1
<1>9. CASE n = "mult"
  <2>1. Global(n) = Binary("OP_MULT") \o <<TailApply>>
    BY <1>9 DEF Global
  <2> QED
    BY <1>6, <2>1
<1>10. CASE n = "eq"
  <2>1. Global(n) = Binary("OP_CMPEQ")
    BY <1>10 DEF Global
  <2> QED
    BY <1>4, <2>1
<1>11. CASE n = "leq"
  <2>1. Global(n) = Binary("OP_CMPLEQ")
    BY <1>11 DEF Global
  <2> QED
    BY <1>4, <2>1
<1>12. CASE n = "eq_church"
  <2>1. Global(n) = Binary("OP_CMPEQ_CHURCH")
    BY <1>12 DEF Global
  <2> QED
    BY <1>4, <2>1
<1>13. CASE n = "leq_church"
  <2>1. Global(n) = Binary("OP_CMPLEQ_CHURCH")
    BY <1>13 DEF Global
  <2> QED
    BY <1>4, <2>1
<1>14. CASE n = "ifelse"
  <2>1. Global(n) = Unary("OP_IFELSE")
    BY <1>14 DEF Global
  <2> QED
    BY <1>5, <2>1
<1>15. CASE n = "call"
  <2>1. Global(n) = Unary("CALL")
    BY <1>15 DEF Global
  <2> QED
    BY <1>5, <2>1
<1> QED
  BY <1>7, <1>8, <1>9, <1>10, <1>11, <1>12, <1>13, <1>14, <1>15 DEF Builtins

\* A term is wrapped, from the last parameter to the first: it is applied to
\* the parameters, or takes them.
Wrapped(applied, i, t) == IF applied THEN Apply(t, Var(Parameter(i))) ELSE Lambda(Parameter(i), t)

Wraps(f, from, to, bottom, applied) ==
    /\ f = [i \in from .. to |-> f[i]]
    /\ f[to] = bottom
    /\ \A i \in from .. to - 1 : f[i] = Wrapped(applied, i, f[i + 1])

\* A term can be wrapped any number of times.
LEMMA WrapsExist ==
    ASSUME NEW M \in Nat, NEW bottom, NEW applied
    PROVE  \E f : Wraps(f, 0, M, bottom, applied)
<1> DEFINE Bad == {j \in 0 .. M : ~ \E f : Wraps(f, M - j, M, bottom, applied)}
<1>1. Bad = {}
  <2> SUFFICES ASSUME Bad # {} PROVE FALSE
    OBVIOUS
  <2>1. PICK j \in Bad : \A k \in Bad : j <= k
    <3>1. Bad \in SUBSET Nat
      OBVIOUS
    <3> HIDE DEF Bad
    <3> QED
      BY <3>1, SmallestOf
  <2>2. j \in 0 .. M /\ ~ \E f : Wraps(f, M - j, M, bottom, applied)
    BY <2>1
  <2>3. CASE j = 0
    <3> DEFINE f == [i \in M .. M |-> bottom]
    <3>1. f[M] = bottom /\ f = [i \in M .. M |-> f[i]]
      OBVIOUS
    <3> HIDE DEF f
    <3>2. Wraps(f, M, M, bottom, applied)
      BY <3>1 DEF Wraps
    <3>3. M - j = M
      BY <2>3
    <3> QED
      BY <2>2, <3>2, <3>3
  <2>4. CASE j # 0
    <3>1. j - 1 \in 0 .. M /\ ~(j <= j - 1)
      BY <2>2, <2>4
    <3>2. j - 1 \notin Bad
      <4> HIDE DEF Bad
      <4> QED
        BY <2>1, <3>1
    <3>3. PICK g : Wraps(g, M - (j - 1), M, bottom, applied)
      BY <3>1, <3>2
    <3> DEFINE a == M - j
    <3>4. a \in Nat /\ a + 1 = M - (j - 1) /\ a < M
      BY <2>2, <2>4
    <3>5. Wraps(g, a + 1, M, bottom, applied)
      BY <3>3, <3>4
    <3> HIDE DEF a
    <3> DEFINE w == Wrapped(applied, a, g[a + 1])
               f == [i \in a .. M |-> IF i = a THEN w ELSE g[i]]
    <3>6. f = [i \in a .. M |-> f[i]] /\ f[a] = w /\ \A i \in a + 1 .. M : f[i] = g[i]
      BY <3>4
    <3>7. g[M] = bottom /\ \A i \in a + 1 .. M - 1 : g[i] = Wrapped(applied, i, g[i + 1])
      BY <3>5 DEF Wraps
    <3> HIDE DEF f, w
    <3>8. M \in a + 1 .. M /\ a + 1 \in a + 1 .. M
      BY <3>4
    <3>9. ASSUME NEW i \in a .. M - 1 PROVE f[i] = Wrapped(applied, i, f[i + 1])
      <4>1. CASE i = a
        BY <3>6, <3>8, <4>1 DEF w
      <4>2. CASE i # a
        <5>1. i \in a + 1 .. M - 1 /\ i \in a + 1 .. M /\ i + 1 \in a + 1 .. M
          BY <3>4, <4>2
        <5> QED
          BY <3>6, <3>7, <5>1
      <4> QED
        BY <4>1, <4>2
    <3>10. f[M] = bottom
      BY <3>6, <3>7, <3>8
    <3>11. Wraps(f, a, M, bottom, applied)
      BY <3>6, <3>9, <3>10 DEF Wraps
    <3> QED
      BY <2>2, <3>11 DEF a
  <2> QED
    BY <2>3, <2>4
<1>2. M \in 0 .. M /\ M - M = 0
  OBVIOUS
<1>3. M \notin Bad
  BY <1>1
<1>4. \E f : Wraps(f, M - M, M, bottom, applied)
  BY <1>2, <1>3
<1> QED
  BY <1>2, <1>4

\* A wrapped term is a term.
LEMMA WrapsGood ==
    ASSUME NEW M \in Nat, NEW bottom, Good(bottom), NEW applied, NEW f, Wraps(f, 0, M, bottom, applied)
    PROVE  Good(f[0])
<1> DEFINE Bad == {j \in 0 .. M : ~Good(f[M - j])}
<1>1. Bad = {}
  <2> SUFFICES ASSUME Bad # {} PROVE FALSE
    OBVIOUS
  <2>1. PICK j \in Bad : \A k \in Bad : j <= k
    <3>1. Bad \in SUBSET Nat
      OBVIOUS
    <3> HIDE DEF Bad
    <3> QED
      BY <3>1, SmallestOf
  <2>2. j \in 0 .. M /\ ~Good(f[M - j])
    BY <2>1
  <2>3. CASE j = 0
    <3>1. M - j = M
      BY <2>3
    <3> QED
      BY <2>2, <3>1 DEF Wraps
  <2>4. CASE j # 0
    <3>1. j - 1 \in 0 .. M /\ ~(j <= j - 1)
      BY <2>2, <2>4
    <3>2. j - 1 \notin Bad
      <4> HIDE DEF Bad
      <4> QED
        BY <2>1, <3>1
    <3>3. Good(f[M - (j - 1)])
      BY <3>1, <3>2
    <3> DEFINE a == M - j
    <3>4. a \in 0 .. M - 1 /\ a + 1 = M - (j - 1)
      BY <2>2, <2>4
    <3>5. Good(f[a + 1])
      BY <3>3, <3>4
    <3>6. ~Good(f[a])
      BY <2>2
    <3> HIDE DEF a
    <3>7. f[a] = Wrapped(applied, a, f[a + 1])
      BY <3>4 DEF Wraps
    <3>8. Good(Apply(f[a + 1], Var(Parameter(a))))
      BY <3>5, OwnWords, GoodApply
    <3>9. Good(Lambda(Parameter(a), f[a + 1]))
      BY <3>5, OwnWords, GoodLambda
    <3> QED
      BY <3>6, <3>7, <3>8, <3>9 DEF Wrapped
  <2> QED
    BY <2>3, <2>4
<1>2. M \in 0 .. M /\ M - M = 0
  OBVIOUS
<1>3. Good(f[M - M])
  BY <1>1, <1>2
<1> QED
  BY <1>2, <1>3

\* What a call resolves is a term, whatever the number of its parameters.
LEMMA CallTermGood ==
    ASSUME NEW n \in Int
    PROVE  Good(CallTerm(n))
<1> DEFINE first == Var(Parameter(n - 1))
           Ps(f) == [i \in 0 .. n - 1 |-> IF i = n - 1 THEN Var(Parameter(i)) ELSE Apply(f[i + 1], Var(Parameter(i)))]
           parameters == CHOOSE f : f = Ps(f)
           count == IF n > 0 THEN Apply(parameters[0], Var(Number(n))) ELSE Var(Number(n))
           bottom == Apply(count, Var(F))
           Ls(f) == [i \in 0 .. n |-> IF i = n THEN bottom ELSE Lambda(Parameter(i), f[i + 1])]
           lambdas == CHOOSE f : f = Ls(f)
<1>1. CallTerm(n) = Lambda(F, IF n > 0 THEN lambdas[0] ELSE bottom)
  BY DEF CallTerm
<1>2. ASSUME n > 0 PROVE Good(parameters[0])
  <2>1. n - 1 \in Nat
    BY <1>2
  <2>2. PICK f : Wraps(f, 0, n - 1, first, TRUE)
    BY <2>1, WrapsExist
  <2>3. f = Ps(f)
    <3>1. f = [i \in 0 .. n - 1 |-> f[i]] /\ f[n - 1] = first
          /\ \A i \in 0 .. (n - 1) - 1 : f[i] = Apply(f[i + 1], Var(Parameter(i)))
      BY <2>2 DEF Wraps, Wrapped
    <3>2. ASSUME NEW i \in 0 .. n - 1
          PROVE f[i] = IF i = n - 1 THEN Var(Parameter(i)) ELSE Apply(f[i + 1], Var(Parameter(i)))
      <4>1. CASE i = n - 1
        BY <3>1, <4>1
      <4>2. CASE i # n - 1
        <5>1. i \in 0 .. (n - 1) - 1
          BY <2>1, <4>2
        <5> QED
          BY <3>1, <4>2, <5>1
      <4> QED
        BY <4>1, <4>2
    <3>3. [i \in 0 .. n - 1 |-> f[i]] = Ps(f)
      BY <3>2
    <3> HIDE DEF Ps
    <3> QED
      BY <3>1, <3>3
  <2>4. parameters = Ps(parameters)
    <3> HIDE DEF Ps
    <3> QED
      BY <2>3
  <2> HIDE DEF parameters
  <2>5. parameters = [i \in 0 .. n - 1 |-> parameters[i]]
    BY <2>4
  <2>6. \A i \in 0 .. n - 1 :
          parameters[i] = IF i = n - 1 THEN Var(Parameter(i)) ELSE Apply(parameters[i + 1], Var(Parameter(i)))
    BY <2>4
  <2>7. n - 1 \in 0 .. n - 1 /\ \A i \in 0 .. (n - 1) - 1 : i \in 0 .. n - 1 /\ i # n - 1
    BY <2>1
  <2>8. Wraps(parameters, 0, n - 1, first, TRUE)
    BY <2>5, <2>6, <2>7 DEF Wraps, Wrapped
  <2>9. Good(first)
    BY OwnWords
  <2> HIDE DEF first
  <2> QED
    BY <2>1, <2>8, <2>9, WrapsGood
<1> HIDE DEF parameters
<1>3. Good(count)
  <2>1. Good(Var(Number(n)))
    BY OwnWords
  <2>2. CASE n > 0
    BY <1>2, <2>1, <2>2, GoodApply
  <2>3. CASE ~(n > 0)
    BY <2>1, <2>3
  <2> QED
    BY <2>2, <2>3
<1> HIDE DEF count
<1>4. Good(bottom)
  BY <1>3, OwnWords, GoodApply
<1> HIDE DEF bottom
<1>5. ASSUME n > 0 PROVE Good(lambdas[0])
  <2>1. n \in Nat
    BY <1>5
  <2>2. PICK f : Wraps(f, 0, n, bottom, FALSE)
    BY <2>1, WrapsExist
  <2>3. f = Ls(f)
    <3>1. f = [i \in 0 .. n |-> f[i]] /\ f[n] = bottom
          /\ \A i \in 0 .. n - 1 : f[i] = Lambda(Parameter(i), f[i + 1])
      BY <2>2 DEF Wraps, Wrapped
    <3>2. ASSUME NEW i \in 0 .. n
          PROVE f[i] = IF i = n THEN bottom ELSE Lambda(Parameter(i), f[i + 1])
      <4>1. CASE i = n
        BY <3>1, <4>1
      <4>2. CASE i # n
        <5>1. i \in 0 .. n - 1
          BY <2>1, <4>2
        <5> QED
          BY <3>1, <4>2, <5>1
      <4> QED
        BY <4>1, <4>2
    <3>3. [i \in 0 .. n |-> f[i]] = Ls(f)
      BY <3>2
    <3> HIDE DEF Ls
    <3> QED
      BY <3>1, <3>3
  <2>4. lambdas = Ls(lambdas)
    <3> HIDE DEF Ls
    <3> QED
      BY <2>3
  <2> HIDE DEF lambdas
  <2>5. lambdas = [i \in 0 .. n |-> lambdas[i]]
    BY <2>4
  <2>6. \A i \in 0 .. n : lambdas[i] = IF i = n THEN bottom ELSE Lambda(Parameter(i), lambdas[i + 1])
    BY <2>4
  <2>7. n \in 0 .. n /\ \A i \in 0 .. n - 1 : i \in 0 .. n /\ i # n
    BY <2>1
  <2>8. Wraps(lambdas, 0, n, bottom, FALSE)
    BY <2>5, <2>6, <2>7 DEF Wraps, Wrapped
  <2> QED
    BY <1>4, <2>1, <2>8, WrapsGood
<1> HIDE DEF lambdas
<1>6. Good(IF n > 0 THEN lambdas[0] ELSE bottom)
  BY <1>4, <1>5
<1> QED
  BY <1>1, <1>6, OwnWords, GoodLambda

(***************************************************************************)
(* The invariant.                                                          *)
(***************************************************************************)
\* The references from the registers: the configuration's environment and the
\* closures on the stack.
Roots(e, s) == [g \in Nat |-> (IF e = g THEN 1 ELSE 0) + CountIn(s, g)]

\* The program, the closures and the results are what instructions make; a
\* machine that waits in a call has the results that the call took.
Typed ==
    /\ expression \in Expressions
    /\ env \in Nat
    /\ Code(prog)
    /\ StackOK(stack)
    /\ ResultsOK(results)
    /\ NamesOK(frames)
    /\ status \in {"running", "suspended", "halted", "crashed"}

Waiting ==
    status = "suspended" =>
        /\ prog # << >>
        /\ Head(prog).op = "FOX" => results # << >> /\ Len(results) > results[1].val

MachineInv ==
    /\ Typed
    /\ Waiting
    /\ Sound(frames, Roots(env, stack))

\* The roots are counts.
LEMMA RootsNat ==
    ASSUME NEW e, NEW s, IsSeq(s)
    PROVE  Roots(e, s) \in [Nat -> Nat]
<1>1. \A g \in Nat : (IF e = g THEN 1 ELSE 0) + CountIn(s, g) \in Nat
  <2> TAKE g \in Nat
  <2>1. CountIn(s, g) \in Nat
    BY CountNat
  <2> QED
    BY <2>1
<1> QED
  BY <1>1 DEF Roots

\* The registers refer to frames that are there.
LEMMA RootsThere ==
    ASSUME MachineInv
    PROVE  /\ env \in Links
           /\ \A i \in DOMAIN stack : stack[i].env \in Links
           /\ Heap(frames)
<1>1. Sound(frames, Roots(env, stack)) /\ IsSeq(stack) /\ env \in Nat
      /\ \A i \in DOMAIN stack : stack[i].env \in Nat
  BY DEF MachineInv, Typed, StackOK
<1>2. Roots(env, stack) \in [Nat -> Nat] /\ Heap(frames)
      /\ \A e \in Nat \ {0} : Roots(env, stack)[e] > 0 => e \in DOMAIN frames
  BY <1>1 DEF Sound
<1>3. \A g \in Nat : CountIn(stack, g) \in Nat
  BY <1>1, CountNat
<1>4. env \in Links
  <2>1. CASE env = 0
    BY <2>1 DEF Links, Null
  <2>2. CASE env # 0
    <3>1. CountIn(stack, env) \in Nat
      BY <1>1, <1>3
    <3>2. Roots(env, stack)[env] = 1 + CountIn(stack, env)
      BY <1>1 DEF Roots
    <3>3. Roots(env, stack)[env] > 0
      BY <3>1, <3>2
    <3> QED
      BY <1>1, <1>2, <2>2, <3>3 DEF Links
  <2> QED
    BY <2>1, <2>2
<1>5. ASSUME NEW i \in DOMAIN stack PROVE stack[i].env \in Links
  <2> DEFINE g == stack[i].env
  <2>1. g \in Nat
    BY <1>1
  <2>2. CASE g = 0
    BY <2>2 DEF Links, Null
  <2>3. CASE g # 0
    <3>1. CountIn(stack, g) >= 1
      BY <1>1, CountSome
    <3>2. Roots(env, stack)[g] = (IF env = g THEN 1 ELSE 0) + CountIn(stack, g)
      BY <2>1 DEF Roots
    <3>3. CountIn(stack, g) \in Nat
      BY <1>3, <2>1
    <3>4. Roots(env, stack)[g] > 0
      <4> HIDE DEF g
      <4> QED
        BY <3>1, <3>2, <3>3
    <3> QED
      BY <1>2, <2>1, <2>3, <3>4 DEF Links
  <2> QED
    BY <2>2, <2>3
<1> QED
  BY <1>2, <1>4, <1>5

\* The invariant implies what the runs check.
LEMMA InvImplies == MachineInv => TypeOK /\ ReferencesCounted
<1> SUFFICES ASSUME MachineInv PROVE TypeOK /\ ReferencesCounted
  OBVIOUS
<1>1. /\ env \in Links /\ Heap(frames)
      /\ \A i \in DOMAIN stack : stack[i].env \in Links
  BY RootsThere
<1>2. TypeOK
  <2>1. \A i \in DOMAIN results : results[i].type \in {"INT", "PREFIX"}
    BY DEF MachineInv, Typed, ResultsOK, Result
  <2>2. \A e \in DOMAIN frames : frames[e].name.kind = "variable" /\ frames[e].refs \in Nat
    BY <1>1 DEF MachineInv, Typed, NamesOK, Heap
  <2> QED
    BY <1>1, <2>1, <2>2 DEF TypeOK, MachineInv, Typed, Links
<1>3. \A f \in DOMAIN frames : {frames[f].next, frames[f].closure.env} \subseteq {Null} \union DOMAIN frames
  BY <1>1 DEF Heap, Null
<1>4. ASSUME NEW f \in DOMAIN frames PROVE frames[f].refs >= Holders(f)
  <2>1. f \in Nat /\ IsFiniteSet(DOMAIN frames)
    BY <1>1 DEF Heap
  <2>2. frames[f].refs >= Roots(env, stack)[f] + Held(frames, f)
    BY DEF MachineInv, Sound
  <2>3. Cardinality(ClosedBy(frames, f)) \in Nat /\ Cardinality(Before(frames, f)) \in Nat
    BY <2>1, HeldNat
  <2>4. Roots(env, stack)[f] = (IF env = f THEN 1 ELSE 0) + CountIn(stack, f)
    BY <2>1 DEF Roots
  <2>5. CountIn(stack, f) \in Nat
    BY CountNat DEF MachineInv, Typed, StackOK
  <2>6. Holders(f) = (IF env = f THEN 1 ELSE 0) + CountIn(stack, f)
                     + Cardinality(ClosedBy(frames, f)) + Cardinality(Before(frames, f))
    BY DEF Holders, CountIn, In, ClosedBy, Before
  <2> DEFINE a == IF env = f THEN 1 ELSE 0
  <2>7. a \in Nat
    OBVIOUS
  <2>8. Roots(env, stack)[f] = a + CountIn(stack, f)
        /\ Holders(f) = a + CountIn(stack, f) + Cardinality(ClosedBy(frames, f)) + Cardinality(Before(frames, f))
    BY <2>4, <2>6
  <2> HIDE DEF a
  <2>9. Holders(f) = Roots(env, stack)[f] + Held(frames, f)
    BY <2>3, <2>5, <2>7, <2>8 DEF Held
  <2> QED
    BY <2>2, <2>9
<1>5. ReferencesCounted
  BY <1>1, <1>3, <1>4 DEF ReferencesCounted, Links
<1> QED
  BY <1>2, <1>5

\* The machine starts in the invariant.
LEMMA InvInit == Init => MachineInv
<1> SUFFICES ASSUME Init PROVE MachineInv
  OBVIOUS
<1>1. Good(expression)
  BY TermAssumption DEF Init, Good
<1>2. Code(prog)
  <2>1. SimpleCode(<<Op("HALT")>>)
    BY Made, SimpleOne
  <2>2. Instruction(MkClosure(<<Op("HALT")>>)) /\ Instruction(Resolve(expression))
    BY <1>1, <2>1, Made
  <2>3. Code(<<MkClosure(<<Op("HALT")>>), Resolve(expression)>>)
    BY <2>2, CodeShort
  <2> QED
    BY <2>3 DEF Init
<1>3. DOMAIN << >> = {}
  OBVIOUS
<1>4. ResultsOK(results)
  BY <1>3, ShortSeqs DEF Init, ResultsOK
<1>5. DOMAIN frames = {} /\ NamesOK(frames)
  BY <1>3 DEF Init, NamesOK
<1>6. Typed
  BY <1>2, <1>4, <1>5, StackEmpty DEF Init, Typed, Null
<1>7. Heap(frames)
  BY <1>5, FS_EmptySet DEF Heap
<1>8. Roots(env, stack) \in [Nat -> Nat] /\ \A e \in Nat \ {0} : Roots(env, stack)[e] = 0
  <2>1. IsSeq(stack)
    BY ShortSeqs DEF Init
  <2>2. ASSUME NEW e \in Nat \ {0} PROVE Roots(env, stack)[e] = 0
    <3>1. CountIn(stack, e) = 0 /\ env = 0
      BY CountEmpty DEF Init, Null
    <3>2. Roots(env, stack)[e] = (IF env = e THEN 1 ELSE 0) + CountIn(stack, e)
      BY DEF Roots
    <3> QED
      BY <3>1, <3>2
  <2> QED
    BY <2>1, <2>2, RootsNat
<1>9. Sound(frames, Roots(env, stack))
  BY <1>5, <1>7, <1>8 DEF Sound
<1>10. Waiting
  BY DEF Init, Waiting
<1> QED
  BY <1>6, <1>9, <1>10 DEF MachineInv

(***************************************************************************)
(* Steps that leave the heap alone.                                        *)
(***************************************************************************)
\* An instruction is carried out: the one at the head of a program.
LEMMA Running ==
    ASSUME MachineInv, NEW op, Executes(op)
    PROVE  /\ status = "running" /\ Head(prog).op = op /\ prog # << >>
           /\ Code(Rest)
           /\ op = "RESOLVENAME" => Good(Argument)
           /\ op = "GRAB" => Argument.kind = "variable"
           /\ op = "CLOSURE" => SimpleCode(Argument)
<1>1. prog # << >> /\ Code(prog)
  BY DEF MachineInv, Typed, Executes
<1>2. Instruction(Head(prog)) /\ Code(Tail(prog))
  BY <1>1, CodeCut
<1> QED
  BY <1>1, <1>2 DEF Executes, Instruction, Rest, Argument

\* Only the program and the results change.
LEMMA RegistersKept ==
    ASSUME MachineInv, UNCHANGED <<expression, env, stack, frames>>,
           status' = "running", Code(prog'), ResultsOK(results')
    PROVE  MachineInv'
<1>1. Typed'
  BY DEF MachineInv, Typed
<1>2. Sound(frames, Roots(env, stack))'
  BY DEF MachineInv
<1>3. Waiting'
  BY DEF Waiting
<1> QED
  BY <1>1, <1>2, <1>3 DEF MachineInv

\* The machine crashes: only its status changes.
LEMMA CrashKept ==
    ASSUME MachineInv, Crash
    PROVE  MachineInv'
<1>1. Typed'
  BY DEF MachineInv, Typed, Crash
<1>2. Sound(frames, Roots(env, stack))'
  BY DEF MachineInv, Crash
<1>3. Waiting'
  BY DEF Waiting, Crash
<1> QED
  BY <1>1, <1>2, <1>3 DEF MachineInv

\* An operation that finds too few results pauses the machine.
LEMMA PauseKept ==
    ASSUME MachineInv, Pause, prog # << >>, Head(prog).op # "FOX"
    PROVE  MachineInv'
<1>1. Typed'
  BY DEF MachineInv, Typed, Pause
<1>2. Sound(frames, Roots(env, stack))'
  BY DEF MachineInv, Pause
<1>3. Waiting'
  BY DEF Waiting, Pause
<1> QED
  BY <1>1, <1>2, <1>3 DEF MachineInv

\* A word becomes a result or the access to a variable.
LEMMA ResolveWordKept ==
    ASSUME MachineInv, ResolveWord
    PROVE  MachineInv'
<1>1. Executes("RESOLVENAME") /\ Argument.kind = "var"
  BY DEF ResolveWord
<1>2. Code(Rest) /\ Good(Argument) /\ status = "running"
  BY <1>1, Running
<1>3. Argument.v.kind = "number" => Argument.v.val \in Int
  BY <1>1, <1>2, GoodParts
<1>4. UNCHANGED <<expression, env, stack, frames>> /\ status' = "running"
  BY <1>2 DEF ResolveWord
<1>5. ResultsOK(results)
  BY DEF MachineInv, Typed
<1> DEFINE w == Argument.v
<1>6. CASE w.kind = "variable"
  <2>1. prog' = <<Access(w), TailApply>> \o Rest /\ results' = results
    BY <1>6 DEF ResolveWord
  <2>2. Code(<<Access(w), TailApply>> \o Rest)
    BY <1>2, Made, CodePushedTwo
  <2> QED
    BY <1>4, <1>5, <2>1, <2>2, RegistersKept
<1>7. CASE w.kind # "variable"
  <2> DEFINE r == IF w.kind = "number" THEN IntResult(w.val) ELSE PrefixResult(w.id)
  <2>1. prog' = <<TailApply>> \o Rest /\ results' = <<r>> \o results
    BY <1>7 DEF ResolveWord
  <2>2. Code(<<TailApply>> \o Rest)
    BY <1>2, Made, CodePushed
  <2>3. Result(r)
    BY <1>3 DEF Result, IntResult, PrefixResult
  <2> HIDE DEF r
  <2>4. ResultsOK(<<r>> \o results)
    BY <1>5, <2>3, ResultsPushed
  <2> QED
    BY <1>4, <2>1, <2>2, <2>4, RegistersKept
<1> QED
  BY <1>6, <1>7

\* A function becomes the grab of its parameter and its body.
LEMMA ResolveLambdaKept ==
    ASSUME MachineInv, ResolveLambda
    PROVE  MachineInv'
<1>1. Executes("RESOLVENAME") /\ Argument.kind = "lambda"
  BY DEF ResolveLambda
<1>2. Code(Rest) /\ Good(Argument) /\ status = "running"
  BY <1>1, Running
<1>3. Argument.v.kind = "variable" /\ Good(Argument.m)
  BY <1>1, <1>2, GoodParts
<1>4. Instruction(Grab(Argument.v)) /\ Instruction(Resolve(Argument.m))
  BY <1>3, Made
<1>5. Code(<<Grab(Argument.v), Resolve(Argument.m)>> \o Rest)
  BY <1>2, <1>4, CodePushedTwo
<1>6. ResultsOK(results)
  BY DEF MachineInv, Typed
<1>7. UNCHANGED <<expression, env, stack, frames>> /\ status' = "running" /\ results' = results
      /\ prog' = <<Grab(Argument.v), Resolve(Argument.m)>> \o Rest
  BY <1>2 DEF ResolveLambda
<1> QED
  BY <1>5, <1>6, <1>7, RegistersKept

\* An application becomes a closure of its argument and its function.
LEMMA ResolveAppKept ==
    ASSUME MachineInv, ResolveApp
    PROVE  MachineInv'
<1>1. Executes("RESOLVENAME") /\ Argument.kind = "app"
  BY DEF ResolveApp
<1>2. Code(Rest) /\ Good(Argument) /\ status = "running"
  BY <1>1, Running
<1>3. Good(Argument.m) /\ Good(Argument.n)
  BY <1>1, <1>2, GoodParts
<1>4. SimpleCode(<<Resolve(Argument.n)>>)
  BY <1>3, Made, SimpleOne
<1>5. Instruction(MkClosure(<<Resolve(Argument.n)>>)) /\ Instruction(Resolve(Argument.m))
  BY <1>3, <1>4, Made
<1>6. Code(<<MkClosure(<<Resolve(Argument.n)>>), Resolve(Argument.m)>> \o Rest)
  BY <1>2, <1>5, CodePushedTwo
<1>7. ResultsOK(results)
  BY DEF MachineInv, Typed
<1>8. UNCHANGED <<expression, env, stack, frames>> /\ status' = "running" /\ results' = results
      /\ prog' = <<MkClosure(<<Resolve(Argument.n)>>), Resolve(Argument.m)>> \o Rest
  BY <1>2 DEF ResolveApp
<1> QED
  BY <1>6, <1>7, <1>8, RegistersKept

\* Two numbers on the results become one.
LEMMA DoArithmeticKept ==
    ASSUME MachineInv, DoArithmetic
    PROVE  MachineInv'
<1>1. PICK op \in {"OP_ADD", "OP_SUB", "OP_MULT"} :
        /\ Executes(op)
        /\ IF Len(results) < 2 THEN Pause
           ELSE /\ results' = <<IntResult(Arithmetic(op, results[1].val, results[2].val))>>
                              \o Tail(Tail(results))
                /\ prog' = Rest
                /\ UNCHANGED <<expression, env, stack, frames, status>>
  BY DEF DoArithmetic
<1>2. Code(Rest) /\ status = "running" /\ prog # << >> /\ Head(prog).op # "FOX"
  BY <1>1, Running
<1>3. ResultsOK(results)
  BY DEF MachineInv, Typed
<1>4. CASE Len(results) < 2
  BY <1>1, <1>2, <1>4, PauseKept
<1>5. CASE ~(Len(results) < 2)
  <2>1. Len(results) \in Nat /\ DOMAIN results = 1 .. Len(results)
        /\ ((results = << >>) <=> (Len(results) = 0))
    BY <1>3, SeqHas DEF ResultsOK
  <2>2. results # << >> /\ Len(results) >= 2 /\ 1 \in DOMAIN results /\ 2 \in DOMAIN results
    BY <1>5, <2>1
  <2>3. results[1].val \in Int /\ results[2].val \in Int
    BY <1>3, <2>2 DEF ResultsOK, Result
  <2>4. ResultsOK(Tail(results)) /\ Tail(results) # << >>
    BY <1>3, <2>2, ResultsCut
  <2>5. ResultsOK(Tail(Tail(results)))
    BY <2>4, ResultsCut
  <2> DEFINE v == Arithmetic(op, results[1].val, results[2].val)
  <2>6. v \in Int
    BY <2>3 DEF Arithmetic
  <2> HIDE DEF v
  <2>7. Result(IntResult(v))
    BY <2>6 DEF Result, IntResult
  <2>8. ResultsOK(<<IntResult(v)>> \o Tail(Tail(results)))
    BY <2>5, <2>7, ResultsPushed
  <2>9. ResultsOK(results') /\ Code(prog') /\ status' = "running"
        /\ UNCHANGED <<expression, env, stack, frames>>
    BY <1>1, <1>2, <1>5, <2>8 DEF v
  <2> QED
    BY <2>9, RegistersKept
<1> QED
  BY <1>4, <1>5

\* What a comparison resolves is a term.
LEMMA VerdictGood ==
    ASSUME NEW op, NEW i, NEW j
    PROVE  Good(Verdict(op, i, j))
<1>1. Good(TrueChurch)
  <2>1. Good(Lambda(Y, Var(X)))
    BY OwnWords, GoodLambda
  <2> QED
    BY <2>1, OwnWords, GoodLambda DEF TrueChurch
<1>2. Good(FalseChurch)
  <2>1. Good(Lambda(Y, Var(Y)))
    BY OwnWords, GoodLambda
  <2> QED
    BY <2>1, OwnWords, GoodLambda DEF FalseChurch
<1>3. Good(Var(Number(1))) /\ Good(Var(Number(0)))
  BY OwnWords
<1>4. \/ Verdict(op, i, j) = Var(Number(1)) \/ Verdict(op, i, j) = Var(Number(0))
      \/ Verdict(op, i, j) = TrueChurch \/ Verdict(op, i, j) = FalseChurch
  <2> DEFINE h == Holds(op, i, j)
  <2>1. Verdict(op, i, j) =
          IF op \in {"OP_CMPEQ", "OP_CMPLEQ"} THEN Var(Number(IF h THEN 1 ELSE 0))
          ELSE IF h THEN TrueChurch ELSE FalseChurch
    BY DEF Verdict
  <2> HIDE DEF h
  <2>2. CASE h
    BY <2>1, <2>2
  <2>3. CASE ~h
    BY <2>1, <2>3
  <2> QED
    BY <2>2, <2>3
<1> QED
  BY <1>1, <1>2, <1>3, <1>4

\* Two numbers on the results become a term.
LEMMA DoCompareKept ==
    ASSUME MachineInv, DoCompare
    PROVE  MachineInv'
<1>1. PICK op \in {"OP_CMPEQ", "OP_CMPLEQ", "OP_CMPEQ_CHURCH", "OP_CMPLEQ_CHURCH"} :
        /\ Executes(op)
        /\ IF Len(results) < 2 THEN Pause
           ELSE /\ prog' = <<Resolve(Verdict(op, results[1].val, results[2].val))>> \o Rest
                /\ results' = Tail(Tail(results))
                /\ UNCHANGED <<expression, env, stack, frames, status>>
  BY DEF DoCompare
<1>2. Code(Rest) /\ status = "running" /\ prog # << >> /\ Head(prog).op # "FOX"
  BY <1>1, Running
<1>3. ResultsOK(results)
  BY DEF MachineInv, Typed
<1>4. CASE Len(results) < 2
  BY <1>1, <1>2, <1>4, PauseKept
<1>5. CASE ~(Len(results) < 2)
  <2>1. Len(results) \in Nat /\ ((results = << >>) <=> (Len(results) = 0))
    BY <1>3, SeqHas DEF ResultsOK
  <2>2. results # << >> /\ Len(results) >= 2
    BY <1>5, <2>1
  <2>3. ResultsOK(Tail(results)) /\ Tail(results) # << >>
    BY <1>3, <2>2, ResultsCut
  <2>4. ResultsOK(Tail(Tail(results)))
    BY <2>3, ResultsCut
  <2> DEFINE t == Verdict(op, results[1].val, results[2].val)
  <2>5. Instruction(Resolve(t))
    BY VerdictGood, Made
  <2> HIDE DEF t
  <2>6. Code(<<Resolve(t)>> \o Rest)
    BY <1>2, <2>5, CodePushed
  <2>7. ResultsOK(results') /\ Code(prog') /\ status' = "running"
        /\ UNCHANGED <<expression, env, stack, frames>>
    BY <1>1, <1>2, <1>5, <2>4, <2>6 DEF t
  <2> QED
    BY <2>7, RegistersKept
<1> QED
  BY <1>4, <1>5

\* A call becomes a term that takes its parameters.
LEMMA DoCallKept ==
    ASSUME MachineInv, DoCall
    PROVE  MachineInv'
<1>1. Executes("CALL")
  BY DEF DoCall
<1>2. Code(Rest) /\ status = "running"
  BY <1>1, Running
<1>3. ResultsOK(results)
  BY DEF MachineInv, Typed
<1>4. CASE results = << >>
  BY <1>4, CrashKept DEF DoCall
<1>5. CASE results # << >>
  <2>1. Result(results[1]) /\ ResultsOK(Tail(results))
    BY <1>3, <1>5, ResultsCut
  <2> DEFINE t == CallTerm(results[1].val)
  <2>2. Good(t)
    BY <2>1, CallTermGood DEF Result
  <2>3. prog' = <<MkClosure(<<Op("FOX")>>), Resolve(t)>> \o Rest /\ results' = Tail(results)
        /\ status' = "running" /\ UNCHANGED <<expression, env, stack, frames>>
    BY <1>2, <1>5 DEF DoCall
  <2> HIDE DEF t
  <2>4. SimpleCode(<<Op("FOX")>>)
    BY Made, SimpleOne
  <2>5. Instruction(MkClosure(<<Op("FOX")>>)) /\ Instruction(Resolve(t))
    BY <2>2, <2>4, Made
  <2>6. Code(<<MkClosure(<<Op("FOX")>>), Resolve(t)>> \o Rest)
    BY <1>2, <2>5, CodePushedTwo
  <2> QED
    BY <2>1, <2>3, <2>6, RegistersKept
<1> QED
  BY <1>4, <1>5

\* A call waits for its answer with its parameters on the results.
LEMMA DoFoxKept ==
    ASSUME MachineInv, DoFox
    PROVE  MachineInv'
<1>1. Executes("FOX") /\ ResultsOK(results)
  BY DEF DoFox, MachineInv, Typed
<1>2. CASE results = << >> \/ Len(results) <= results[1].val
  BY <1>2, CrashKept DEF DoFox
<1>3. CASE ~(results = << >> \/ Len(results) <= results[1].val)
  <2>1. status' = "suspended" /\ UNCHANGED <<expression, prog, env, stack, results, frames>>
    BY <1>3 DEF DoFox
  <2>2. results # << >> /\ Len(results) \in Nat /\ results[1].val \in Int
    BY <1>1, <1>3, ResultsCut DEF Result
  <2>3. Len(results) > results[1].val
    BY <1>3, <2>2
  <2>4. prog # << >>
    BY <1>1 DEF Executes
  <2>5. Waiting'
    BY <2>1, <2>2, <2>3, <2>4 DEF Waiting
  <2>6. Typed'
    BY <2>1 DEF MachineInv, Typed
  <2>7. Sound(frames, Roots(env, stack))'
    BY <2>1 DEF MachineInv
  <2> QED
    BY <2>5, <2>6, <2>7 DEF MachineInv
<1> QED
  BY <1>2, <1>3

\* The answer takes the place of the parameters.
LEMMA ResumeKept ==
    ASSUME MachineInv, Resume
    PROVE  MachineInv'
<1>1. status = "suspended" /\ Head(prog).op = "FOX"
  BY DEF Resume
<1>2. prog # << >> /\ results # << >> /\ Len(results) > results[1].val /\ ResultsOK(results) /\ Code(prog)
  BY <1>1 DEF MachineInv, Waiting, Typed
<1>3. CASE results[1].val < 1
  BY <1>3, CrashKept DEF Resume
<1>4. CASE ~(results[1].val < 1)
  <2> DEFINE a == Answer(Parameters[1], Tail(Parameters))
             n == results[1].val
             more == SubSeq(results, n + 2, Len(results))
  <2>1. a \in Int /\ status' = "running" /\ results' = Answered(results, a) /\ prog' = Rest
        /\ UNCHANGED <<expression, env, stack, frames>>
    BY <1>4 DEF Resume
  <2> HIDE DEF a
  <2>2. n \in Int /\ Len(results) \in Nat /\ n >= 1
    BY <1>2, <1>4, ResultsCut DEF Result
  <2>3. DOMAIN results = 1 .. Len(results)
    BY <1>2, SeqHas DEF ResultsOK
  <2> DEFINE S == {results[i] : i \in DOMAIN results}
  <2>4. \A i \in n + 2 .. Len(results) : results[i] \in S
    BY <2>2, <2>3
  <2>5. n + 2 \in Int /\ Len(results) \in Int
    BY <2>2
  <2> HIDE DEF S, n
  <2>6. more \in Seq(S)
    BY <2>4, <2>5, SubSeqProperties
  <2>7. ResultsOK(more)
    <3>1. IsSeq(more)
      BY <2>6 DEF IsSeq
    <3>2. ASSUME NEW i \in DOMAIN more PROVE Result(more[i])
      <4>1. i \in 1 .. Len(more)
        BY <3>1, SeqHas
      <4>2. more[i] \in S
        BY <2>6, <4>1, ElementOfSeq
      <4> QED
        BY <1>2, <4>2 DEF S, ResultsOK
    <3> QED
      BY <3>1, <3>2 DEF ResultsOK
  <2>8. Answered(results, a) = <<IntResult(a)>> \o more
    BY DEF Answered, n
  <2> HIDE DEF more
  <2>9. Result(IntResult(a))
    BY <2>1 DEF Result, IntResult
  <2>10. ResultsOK(<<IntResult(a)>> \o more)
    BY <2>7, <2>9, ResultsPushed
  <2>11. Code(Rest)
    BY <1>2, CodeCut DEF Rest
  <2> QED
    BY <2>1, <2>8, <2>10, <2>11, RegistersKept
<1> QED
  BY <1>3, <1>4

(***************************************************************************)
(* Steps that change the heap.                                             *)
(***************************************************************************)
\* The registers change together with the heap.
LEMMA HeapKept ==
    ASSUME MachineInv, expression' = expression, status' \in {"running", "halted"},
           env' \in Nat, Code(prog'), StackOK(stack'), ResultsOK(results'), NamesOK(frames'),
           Sound(frames', Roots(env', stack'))
    PROVE  MachineInv'
<1>1. Typed'
  BY DEF MachineInv, Typed
<1>2. Sound(frames, Roots(env, stack))'
  OBVIOUS
<1>3. Waiting'
  BY DEF Waiting
<1> QED
  BY <1>1, <1>2, <1>3 DEF MachineInv

\* Counting a reference changes neither names nor closures.
LEMMA ReservedNames ==
    ASSUME NEW fs, Heap(fs), NamesOK(fs), NEW e \in {0} \union DOMAIN fs
    PROVE  NamesOK(Reserve(fs, e))
<1>1. CASE e = 0
  BY <1>1 DEF Reserve, Null
<1>2. CASE e # 0
  <2> DEFINE gs == [fs EXCEPT ![e].refs = @ + 1]
  <2>1. Reserve(fs, e) = gs /\ e \in DOMAIN fs
    BY <1>2 DEF Reserve, Null
  <2>2. fs[e] = Frame(fs[e])
    BY <2>1 DEF Heap
  <2>3. gs[e].name = fs[e].name /\ gs[e].closure = fs[e].closure
    BY <2>1, <2>2 DEF Frame
  <2>4. DOMAIN gs = DOMAIN fs /\ \A f \in DOMAIN fs : f # e => gs[f] = fs[f]
    OBVIOUS
  <2> HIDE DEF gs
  <2>5. ASSUME NEW f \in DOMAIN gs PROVE gs[f].name.kind = "variable" /\ Code(gs[f].closure.code)
    <3>1. f \in DOMAIN fs /\ gs[f].name = fs[f].name /\ gs[f].closure = fs[f].closure
      BY <2>3, <2>4
    <3> QED
      BY <3>1 DEF NamesOK
  <2> QED
    BY <2>1, <2>5 DEF NamesOK
<1> QED
  BY <1>1, <1>2

\* The frames that are left after a release keep their names and closures.
LEMMA KeptNames ==
    ASSUME NEW fs, NEW gs, NamesOK(fs), Kept(gs, fs)
    PROVE  NamesOK(gs)
<1>1. ASSUME NEW f \in DOMAIN gs PROVE gs[f].name.kind = "variable" /\ Code(gs[f].closure.code)
  <2>1. f \in DOMAIN fs /\ gs[f].name = fs[f].name /\ gs[f].closure = fs[f].closure
    BY DEF Kept
  <2> QED
    BY <2>1 DEF NamesOK
<1> QED
  BY <1>1 DEF NamesOK

\* A closure in front of the stack is one root more.
LEMMA RootsPushed ==
    ASSUME NEW e, NEW c, NEW s, IsSeq(s)
    PROVE  /\ Roots(e, s) \in [Nat -> Nat] /\ Roots(e, <<c>> \o s) \in [Nat -> Nat]
           /\ \A g \in Nat : Roots(e, <<c>> \o s)[g] = Roots(e, s)[g] + (IF c.env = g THEN 1 ELSE 0)
<1>1. IsSeq(<<c>> \o s)
  BY Pushed
<1>2. Roots(e, s) \in [Nat -> Nat] /\ Roots(e, <<c>> \o s) \in [Nat -> Nat]
  BY <1>1, RootsNat
<1>3. ASSUME NEW g \in Nat
      PROVE  Roots(e, <<c>> \o s)[g] = Roots(e, s)[g] + (IF c.env = g THEN 1 ELSE 0)
  <2> DEFINE a == IF e = g THEN 1 ELSE 0
             b == IF c.env = g THEN 1 ELSE 0
  <2>1. Roots(e, <<c>> \o s)[g] = a + CountIn(<<c>> \o s, g) /\ Roots(e, s)[g] = a + CountIn(s, g)
    BY DEF Roots
  <2>2. CountIn(<<c>> \o s, g) = CountIn(s, g) + b
    BY CountPushed
  <2>3. CountIn(s, g) \in Nat /\ a \in Nat /\ b \in Nat
    BY CountNat
  <2> HIDE DEF a, b
  <2>4. Roots(e, <<c>> \o s)[g] = Roots(e, s)[g] + b
    BY <2>1, <2>2, <2>3
  <2> QED
    BY <2>4 DEF b
<1> QED
  BY <1>2, <1>3

\* A closure from the environment or the global one is pushed and counted.
LEMMA DoAccessKept ==
    ASSUME MachineInv, DoAccess
    PROVE  MachineInv'
<1>1. Executes("ACCESS")
  BY DEF DoAccess
<1>2. Code(Rest) /\ status = "running"
  BY <1>1, Running
<1>3. /\ env \in Links /\ Heap(frames) /\ env \in Nat
      /\ StackOK(stack) /\ IsSeq(stack) /\ ResultsOK(results) /\ NamesOK(frames)
      /\ Sound(frames, Roots(env, stack))
  BY RootsThere DEF MachineInv, Typed, StackOK
<1>4. UNCHANGED <<expression, env, results, status>>
  BY DEF DoAccess
<1> DEFINE frame == BoundBy(Argument, env)
<1>5. frame \in Links
  BY <1>3, BoundByFrame
<1>6. CASE frame # Null
  <2> DEFINE c == frames[frame].closure
  <2>1. stack' = <<c>> \o stack /\ frames' = Reserve(frames, c.env) /\ prog' = Rest
    BY <1>6 DEF DoAccess, Copied
  <2>2. frame \in DOMAIN frames
    BY <1>5, <1>6 DEF Links
  <2> HIDE DEF frame
  <2>3. c.env \in {0} \union DOMAIN frames /\ Code(c.code)
    BY <1>3, <2>2 DEF Heap, NamesOK
  <2>4. c.env \in Nat
    BY <1>3, <2>3 DEF Heap
  <2> HIDE DEF c
  <2>5. StackOK(<<c>> \o stack)
    BY <1>3, <2>3, <2>4, StackPushed
  <2>6. NamesOK(Reserve(frames, c.env))
    BY <1>3, <2>3, ReservedNames
  <2>7. Sound(Reserve(frames, c.env), Roots(env, <<c>> \o stack))
    <3> DEFINE base == Roots(env, stack)
               more == Roots(env, <<c>> \o stack)
    <3>1. base \in [Nat -> Nat] /\ more \in [Nat -> Nat]
          /\ \A g \in Nat : more[g] = base[g] + (IF c.env = g THEN 1 ELSE 0)
      BY <1>3, RootsPushed
    <3>2. Sound(frames, base)
      BY <1>3
    <3> HIDE DEF base, more
    <3>3. \A g \in Nat \ {0} : more[g] <= base[g] + (IF c.env = g THEN 1 ELSE 0)
      <4> TAKE g \in Nat \ {0}
      <4>1. more[g] = base[g] + (IF c.env = g THEN 1 ELSE 0) /\ more[g] \in Nat
        BY <3>1
      <4> QED
        BY <4>1
    <3>4. Sound(Reserve(frames, c.env), more)
      BY <2>3, <3>1, <3>2, <3>3, SoundReserved
    <3> QED
      BY <3>4 DEF more
  <2> QED
    BY <1>2, <1>3, <1>4, <2>1, <2>5, <2>6, <2>7, HeapKept
<1>7. CASE frame = Null /\ Argument.id \in Builtins
  <2> DEFINE c == Closure(Global(Argument.id), Null)
  <2>1. stack' = <<c>> \o stack /\ prog' = Rest /\ frames' = frames
    BY <1>7 DEF DoAccess
  <2>2. c.env = 0 /\ Code(c.code)
    BY <1>7, GlobalCode DEF Closure, Null
  <2> HIDE DEF c
  <2>3. StackOK(<<c>> \o stack)
    BY <1>3, <2>2, StackPushed
  <2>4. Sound(frames, Roots(env, <<c>> \o stack))
    <3> DEFINE base == Roots(env, stack)
               same == Roots(env, <<c>> \o stack)
    <3>1. base \in [Nat -> Nat] /\ same \in [Nat -> Nat]
          /\ \A g \in Nat : same[g] = base[g] + (IF c.env = g THEN 1 ELSE 0)
      BY <1>3, RootsPushed
    <3>2. Sound(frames, base)
      BY <1>3
    <3> HIDE DEF base, same
    <3>3. \A g \in Nat \ {0} : same[g] <= base[g]
      BY <2>2, <3>1
    <3>4. Sound(frames, same)
      BY <3>1, <3>2, <3>3, SoundLess
    <3> QED
      BY <3>4 DEF same
  <2> QED
    BY <1>2, <1>3, <1>4, <2>1, <2>3, <2>4, HeapKept
<1>8. CASE frame = Null /\ Argument.id \notin Builtins
  <2>1. prog' = << >> /\ stack' = stack /\ frames' = frames
    BY <1>8 DEF DoAccess
  <2>2. Code(<< >>)
    BY CodeShort
  <2> QED
    BY <1>2, <1>3, <1>4, <2>1, <2>2, RegistersKept
<1> QED
  BY <1>6, <1>7, <1>8

\* A closure over the configuration's environment is pushed and counted.
LEMMA DoClosureKept ==
    ASSUME MachineInv, DoClosure
    PROVE  MachineInv'
<1>1. Executes("CLOSURE")
  BY DEF DoClosure
<1>2. Code(Rest) /\ status = "running" /\ Code(Argument)
  BY <1>1, Running, CodeSimple
<1>3. /\ env \in {0} \union DOMAIN frames /\ Heap(frames) /\ env \in Nat
      /\ StackOK(stack) /\ IsSeq(stack) /\ ResultsOK(results) /\ NamesOK(frames)
      /\ Sound(frames, Roots(env, stack))
  BY RootsThere DEF MachineInv, Typed, StackOK, Links, Null
<1> DEFINE c == Closure(Argument, env)
<1>4. stack' = <<c>> \o stack /\ frames' = Reserve(frames, env) /\ prog' = Rest
      /\ UNCHANGED <<expression, env, results, status>>
  BY DEF DoClosure
<1>5. c.env = env /\ c.code = Argument
  BY DEF Closure
<1> HIDE DEF c
<1>6. StackOK(<<c>> \o stack)
  BY <1>2, <1>3, <1>5, StackPushed
<1>7. NamesOK(Reserve(frames, env))
  BY <1>3, ReservedNames
<1>8. Sound(Reserve(frames, env), Roots(env, <<c>> \o stack))
  <2> DEFINE base == Roots(env, stack)
             more == Roots(env, <<c>> \o stack)
  <2>1. base \in [Nat -> Nat] /\ more \in [Nat -> Nat]
        /\ \A g \in Nat : more[g] = base[g] + (IF c.env = g THEN 1 ELSE 0)
    BY <1>3, RootsPushed
  <2>2. Sound(frames, base)
    BY <1>3
  <2> HIDE DEF base, more
  <2>3. \A g \in Nat \ {0} : more[g] <= base[g] + (IF env = g THEN 1 ELSE 0)
    <3> TAKE g \in Nat \ {0}
    <3>1. more[g] = base[g] + (IF env = g THEN 1 ELSE 0) /\ more[g] \in Nat
      BY <1>5, <2>1
    <3> QED
      BY <3>1
  <2>4. Sound(Reserve(frames, env), more)
    BY <1>3, <2>1, <2>2, <2>3, SoundReserved
  <2> QED
    BY <2>4 DEF more
<1> QED
  BY <1>2, <1>3, <1>4, <1>6, <1>7, <1>8, HeapKept

\* What the roots are without the closure on top, and with another environment.
LEMMA RootsCut ==
    ASSUME NEW e, NEW s, IsSeq(s), s # << >>, NEW d, NEW g \in Nat
    PROVE  /\ CountIn(Tail(s), g) \in Nat
           /\ Roots(e, s)[g] = (IF e = g THEN 1 ELSE 0) + CountIn(Tail(s), g)
                               + (IF Head(s).env = g THEN 1 ELSE 0)
           /\ Roots(d, Tail(s))[g] = (IF d = g THEN 1 ELSE 0) + CountIn(Tail(s), g)
<1> DEFINE a == IF e = g THEN 1 ELSE 0
           b == IF Head(s).env = g THEN 1 ELSE 0
<1>1. CountIn(Tail(s), g) \in Nat /\ CountIn(s, g) = CountIn(Tail(s), g) + b
  BY CountCut
<1>2. Roots(e, s)[g] = a + CountIn(s, g)
      /\ Roots(d, Tail(s))[g] = (IF d = g THEN 1 ELSE 0) + CountIn(Tail(s), g)
  BY DEF Roots
<1>3. a \in Nat /\ b \in Nat
  OBVIOUS
<1> HIDE DEF a, b
<1>4. Roots(e, s)[g] = a + CountIn(Tail(s), g) + b
  BY <1>1, <1>2, <1>3
<1> QED
  BY <1>1, <1>2, <1>4 DEF a, b

\* The closure on top moves into a new frame in front of the environment.
LEMMA DoGrabKept ==
    ASSUME MachineInv, DoGrab
    PROVE  MachineInv'
<1>1. Executes("GRAB")
  BY DEF DoGrab
<1>2. Code(Rest) /\ status = "running" /\ Argument.kind = "variable"
  BY <1>1, Running
<1>3. /\ env \in {0} \union DOMAIN frames /\ Heap(frames) /\ env \in Nat
      /\ StackOK(stack) /\ IsSeq(stack) /\ ResultsOK(results) /\ NamesOK(frames)
      /\ Sound(frames, Roots(env, stack))
      /\ \A i \in DOMAIN stack : stack[i].env \in {0} \union DOMAIN frames
  BY RootsThere DEF MachineInv, Typed, StackOK, Links, Null
<1>4. CASE stack = << >>
  BY <1>4, CrashKept DEF DoGrab
<1>5. CASE stack # << >>
  <2> DEFINE n == Fresh
             top == Head(stack)
             new == [name |-> Argument, closure |-> top, next |-> env, refs |-> 1]
             gs == [x \in DOMAIN frames \union {n} |-> IF x = n THEN new ELSE frames[x]]
  <2>1. frames' = gs /\ env' = n /\ stack' = Tail(stack) /\ prog' = Rest
        /\ UNCHANGED <<expression, results, status>>
    BY <1>5 DEF DoGrab
  <2>2. n \in Nat \ {0} /\ n \notin DOMAIN frames
    BY <1>3, FreshIsNew
  <2> HIDE DEF n
  <2>3. top.env \in {0} \union DOMAIN frames /\ Code(top.code) /\ StackOK(Tail(stack))
    <3>1. Head(stack) = stack[1] /\ Len(stack) \in Nat /\ Len(stack) >= 1
      BY <1>3, <1>5, Cut
    <3>2. DOMAIN stack = 1 .. Len(stack)
      BY <1>3, SeqHas
    <3>3. 1 \in DOMAIN stack
      BY <3>1, <3>2
    <3>4. Code(Head(stack).code) /\ StackOK(Tail(stack))
      BY <1>3, <1>5, StackCut
    <3> QED
      BY <1>3, <3>1, <3>3, <3>4
  <2>4. DOMAIN gs = DOMAIN frames \union {n} /\ gs[n] = new /\ \A f \in DOMAIN frames : gs[f] = frames[f]
    BY <2>2
  <2>5. gs[n] = Frame(gs[n]) /\ gs[n].refs = 1 /\ gs[n].next = env /\ gs[n].closure = top
        /\ gs[n].name = Argument
    BY <2>4 DEF Frame
  <2>6. \A f \in DOMAIN frames : frames[f].closure.env # n /\ frames[f].next # n
    BY <1>3, <2>2 DEF Heap
  <2> DEFINE base == Roots(env, stack)
             rest == Roots(n, Tail(stack))
  <2>7. base \in [Nat -> Nat] /\ rest \in [Nat -> Nat]
        /\ \A g \in Nat : /\ CountIn(Tail(stack), g) \in Nat
                          /\ base[g] = (IF env = g THEN 1 ELSE 0) + CountIn(Tail(stack), g)
                                       + (IF top.env = g THEN 1 ELSE 0)
                          /\ rest[g] = (IF n = g THEN 1 ELSE 0) + CountIn(Tail(stack), g)
    <3>1. IsSeq(stack) /\ stack # << >>
      BY <1>3, <1>5
    <3>2. IsSeq(Tail(stack))
      BY <3>1, Cut
    <3>3. base \in [Nat -> Nat] /\ rest \in [Nat -> Nat]
      BY <3>1, <3>2, RootsNat
    <3>4. ASSUME NEW g \in Nat
          PROVE  /\ CountIn(Tail(stack), g) \in Nat
                 /\ base[g] = (IF env = g THEN 1 ELSE 0) + CountIn(Tail(stack), g)
                              + (IF top.env = g THEN 1 ELSE 0)
                 /\ rest[g] = (IF n = g THEN 1 ELSE 0) + CountIn(Tail(stack), g)
      BY <3>1, RootsCut
    <3> QED
      BY <3>3, <3>4
  <2>8. Sound(frames, base)
    BY <1>3
  <2> HIDE DEF gs, top, new, base, rest
  <2>9. rest[n] <= 1
    <3>1. base[n] = 0
      <4>1. base[n] \in Nat /\ ~(base[n] > 0)
        BY <2>2, <2>7, <2>8 DEF Sound
      <4> QED
        BY <4>1
    <3>2. env # n /\ top.env # n
      BY <1>3, <2>2, <2>3
    <3>3. CountIn(Tail(stack), n) \in Nat /\ base[n] = CountIn(Tail(stack), n)
          /\ rest[n] = 1 + CountIn(Tail(stack), n)
      <4>1. CountIn(Tail(stack), n) \in Nat
        BY <2>2, <2>7
      <4>2. base[n] = 0 + CountIn(Tail(stack), n) + 0 /\ rest[n] = 1 + CountIn(Tail(stack), n)
        BY <2>2, <2>7, <3>2
      <4> QED
        BY <4>1, <4>2
    <3> QED
      BY <3>1, <3>3
  <2>10. ASSUME NEW g \in Nat \ {0, n}
         PROVE  rest[g] + (IF gs[n].closure.env = g THEN 1 ELSE 0) + (IF gs[n].next = g THEN 1 ELSE 0) <= base[g]
    <3> DEFINE a == IF env = g THEN 1 ELSE 0
               b == IF top.env = g THEN 1 ELSE 0
    <3>1. CountIn(Tail(stack), g) \in Nat /\ base[g] = a + CountIn(Tail(stack), g) + b
          /\ rest[g] = CountIn(Tail(stack), g)
      <4>1. CountIn(Tail(stack), g) \in Nat /\ base[g] = a + CountIn(Tail(stack), g) + b
        BY <2>7
      <4>2. rest[g] = 0 + CountIn(Tail(stack), g)
        BY <2>7
      <4> QED
        BY <4>1, <4>2
    <3>2. a \in Nat /\ b \in Nat
      OBVIOUS
    <3> HIDE DEF a, b
    <3>3. rest[g] + b + a <= base[g]
      BY <3>1, <3>2
    <3> QED
      BY <2>5, <3>3 DEF a, b
  <2>11. Sound(gs, rest)
    <3>1. gs[n].next \in {0} \union DOMAIN frames /\ gs[n].closure.env \in {0} \union DOMAIN frames
      BY <1>3, <2>3, <2>5
    <3> QED
      BY <2>2, <2>4, <2>5, <2>7, <2>8, <2>9, <2>10, <3>1, SoundGrabbed
  <2>12. NamesOK(gs)
    <3>1. ASSUME NEW f \in DOMAIN gs PROVE gs[f].name.kind = "variable" /\ Code(gs[f].closure.code)
      <4>1. CASE f = n
        BY <1>2, <2>3, <2>5, <4>1
      <4>2. CASE f # n
        BY <1>3, <2>4, <4>2 DEF NamesOK
      <4> QED
        BY <4>1, <4>2
    <3> QED
      BY <3>1 DEF NamesOK
  <2>13. Sound(frames', Roots(env', stack'))
    BY <2>1, <2>11 DEF rest
  <2> QED
    BY <1>2, <1>3, <2>1, <2>2, <2>3, <2>12, <2>13, HeapKept
<1> QED
  BY <1>4, <1>5

\* The closure's reference becomes that of the configuration, whose own is
\* dropped.
LEMMA DoTailApplyKept ==
    ASSUME MachineInv, DoTailApply
    PROVE  MachineInv'
<1>1. Executes("TAILAPPLY")
  BY DEF DoTailApply
<1>2. Code(Rest) /\ status = "running"
  BY <1>1, Running
<1>3. /\ env \in Nat
      /\ StackOK(stack) /\ IsSeq(stack) /\ ResultsOK(results) /\ NamesOK(frames)
      /\ Sound(frames, Roots(env, stack))
  BY DEF MachineInv, Typed, StackOK
<1>4. CASE stack = << >>
  BY <1>4, CrashKept DEF DoTailApply
<1>5. CASE stack # << >>
  <2> DEFINE top == Head(stack)
             todo == <<Drop(env)>>
             base == Roots(env, stack)
             rest == Roots(top.env, Tail(stack))
             gs == Dropped(frames, todo)
  <2>1. prog' = top.code \o Rest /\ frames' = gs /\ env' = top.env /\ stack' = Tail(stack)
        /\ UNCHANGED <<expression, results, status>>
    BY <1>5 DEF DoTailApply, Applied, Release
  <2>2. top.env \in Nat /\ Code(top.code) /\ StackOK(Tail(stack))
    BY <1>3, <1>5, StackCut
  <2>3. Code(top.code \o Rest)
    BY <1>2, <2>2, CodeJoined
  <2>4. base \in [Nat -> Nat] /\ rest \in [Nat -> Nat]
        /\ \A g \in Nat : /\ CountIn(Tail(stack), g) \in Nat
                          /\ base[g] = (IF env = g THEN 1 ELSE 0) + CountIn(Tail(stack), g)
                                       + (IF top.env = g THEN 1 ELSE 0)
                          /\ rest[g] = (IF top.env = g THEN 1 ELSE 0) + CountIn(Tail(stack), g)
    <3>1. IsSeq(stack) /\ stack # << >>
      BY <1>3, <1>5
    <3>2. IsSeq(Tail(stack))
      BY <3>1, Cut
    <3>3. base \in [Nat -> Nat] /\ rest \in [Nat -> Nat]
      BY <3>1, <3>2, RootsNat
    <3>4. ASSUME NEW g \in Nat
          PROVE  /\ CountIn(Tail(stack), g) \in Nat
                 /\ base[g] = (IF env = g THEN 1 ELSE 0) + CountIn(Tail(stack), g)
                              + (IF top.env = g THEN 1 ELSE 0)
                 /\ rest[g] = (IF top.env = g THEN 1 ELSE 0) + CountIn(Tail(stack), g)
      <4>1. /\ CountIn(Tail(stack), g) \in Nat
            /\ base[g] = (IF env = g THEN 1 ELSE 0) + CountIn(Tail(stack), g)
                         + (IF top.env = g THEN 1 ELSE 0)
        <5> DEFINE a == IF env = g THEN 1 ELSE 0
                   b == IF top.env = g THEN 1 ELSE 0
        <5>1. CountIn(Tail(stack), g) \in Nat /\ CountIn(stack, g) = CountIn(Tail(stack), g) + b
          BY <3>1, CountCut
        <5>2. base[g] = a + CountIn(stack, g)
          BY DEF Roots
        <5>3. a \in Nat /\ b \in Nat
          OBVIOUS
        <5> HIDE DEF a, b, base
        <5>4. base[g] = a + CountIn(Tail(stack), g) + b
          BY <5>1, <5>2, <5>3
        <5> QED
          BY <5>1, <5>4 DEF a, b
      <4>2. rest[g] = (IF top.env = g THEN 1 ELSE 0) + CountIn(Tail(stack), g)
        BY DEF Roots
      <4> QED
        BY <4>1, <4>2
    <3> QED
      BY <3>3, <3>4
  <2>5. IsSeq(todo) /\ Len(todo) = 1 /\ todo[1] = Drop(env)
    BY ShortSeqs
  <2>6. \A i \in DOMAIN todo : todo[i].env \in Nat
    <3>1. DOMAIN todo = 1 .. 1 /\ \A k \in 1 .. 1 : k = 1
      BY <2>5, SeqHas
    <3>2. todo[1].env = env
      BY <2>5 DEF Drop
    <3> QED
      BY <1>3, <3>1, <3>2
  <2>7. \A g \in Nat : CountIn(todo, g) = IF env = g THEN 1 ELSE 0
    <3> TAKE g \in Nat
    <3>1. Drop(env).env = env
      BY DEF Drop
    <3> QED
      BY <3>1, CountOne
  <2> HIDE DEF todo
  <2>8. With(rest, todo) = base
    <3>1. \A g \in Nat : rest[g] + CountIn(todo, g) = base[g]
      <4> TAKE g \in Nat
      <4> DEFINE a == IF env = g THEN 1 ELSE 0
                 b == IF top.env = g THEN 1 ELSE 0
      <4>1. CountIn(Tail(stack), g) \in Nat /\ base[g] = a + CountIn(Tail(stack), g) + b
            /\ rest[g] = b + CountIn(Tail(stack), g) /\ CountIn(todo, g) = a
        BY <2>4, <2>7
      <4>2. a \in Nat /\ b \in Nat
        OBVIOUS
      <4> HIDE DEF a, b, base, rest
      <4> QED
        BY <4>1, <4>2
    <3>2. base = [g \in Nat |-> base[g]]
      BY <2>4
    <3> HIDE DEF base, rest
    <3>3. [g \in Nat |-> rest[g] + CountIn(todo, g)] = [g \in Nat |-> base[g]]
      BY <3>1
    <3> QED
      BY <3>2, <3>3 DEF With
  <2>9. Sound(frames, With(rest, todo))
    BY <1>3, <2>8
  <2> HIDE DEF base, rest, gs, top
  <2>10. Dropping(frames, todo, rest)
    BY <2>4, <2>5, <2>6, <2>9 DEF Dropping
  <2>11. Sound(gs, rest) /\ Kept(gs, frames)
    BY <2>10, DroppedSound DEF gs
  <2>12. NamesOK(gs)
    BY <1>3, <2>11, KeptNames
  <2>13. Sound(frames', Roots(env', stack'))
    BY <2>1, <2>11 DEF rest
  <2> QED
    BY <1>2, <1>3, <2>1, <2>2, <2>3, <2>12, <2>13, HeapKept
<1> QED
  BY <1>4, <1>5

\* The references of the closures on the stack are dropped at the end.
LEMMA DoHaltKept ==
    ASSUME MachineInv, DoHalt
    PROVE  MachineInv'
<1>1. Executes("HALT")
  BY DEF DoHalt
<1>2. Code(Rest) /\ status = "running"
  BY <1>1, Running
<1>3. /\ env \in Nat
      /\ StackOK(stack) /\ IsSeq(stack) /\ ResultsOK(results) /\ NamesOK(frames)
      /\ Sound(frames, Roots(env, stack))
  BY DEF MachineInv, Typed, StackOK
<1> DEFINE todo == [i \in DOMAIN stack |-> Drop(stack[i].env)]
           base == Roots(env, stack)
           rest == Roots(env, << >>)
           gs == Dropped(frames, todo)
<1>4. stack' = << >> /\ frames' = gs /\ prog' = Rest /\ status' = "halted"
      /\ UNCHANGED <<expression, env, results>>
  BY DEF DoHalt, ReleaseAll
<1>5. DOMAIN stack = 1 .. Len(stack) /\ Len(stack) \in Nat
  BY <1>3, SeqHas
<1>6. DOMAIN todo = DOMAIN stack /\ \A i \in DOMAIN todo : todo[i].env = stack[i].env
  BY DEF Drop
<1>7. IsSeq(todo)
  <2> DEFINE S == {Drop(stack[i].env) : i \in DOMAIN stack}
  <2>1. todo \in [1 .. Len(stack) -> S]
    BY <1>5
  <2>2. todo \in Seq(S)
    <3> HIDE DEF S, todo
    <3> QED
      BY <1>5, <2>1
  <2> QED
    BY <2>2 DEF IsSeq
<1> HIDE DEF todo
<1>8. \A i \in DOMAIN todo : todo[i].env \in Nat
  BY <1>3, <1>6 DEF StackOK
<1>9. \A g \in Nat : CountIn(todo, g) = CountIn(stack, g)
  <2> TAKE g \in Nat
  <2>1. In(todo, g) = In(stack, g)
    BY <1>6 DEF In
  <2> QED
    BY <2>1 DEF CountIn
<1>10. base \in [Nat -> Nat] /\ rest \in [Nat -> Nat]
  BY <1>3, RootsNat, ShortSeqs
<1>11. With(rest, todo) = base
  <2>1. ASSUME NEW g \in Nat PROVE rest[g] + CountIn(todo, g) = base[g]
    <3> DEFINE a == IF env = g THEN 1 ELSE 0
    <3>1. rest[g] = a + CountIn(<< >>, g) /\ base[g] = a + CountIn(stack, g)
      BY DEF Roots
    <3>2. CountIn(<< >>, g) = 0 /\ CountIn(stack, g) \in Nat /\ CountIn(todo, g) = CountIn(stack, g)
      BY <1>3, <1>9, CountEmpty, CountNat
    <3>3. a \in Nat
      OBVIOUS
    <3> HIDE DEF a, base, rest
    <3> QED
      BY <3>1, <3>2, <3>3
  <2>2. base = [g \in Nat |-> base[g]]
    BY <1>10
  <2> HIDE DEF base, rest
  <2>3. [g \in Nat |-> rest[g] + CountIn(todo, g)] = [g \in Nat |-> base[g]]
    BY <2>1
  <2> QED
    BY <2>2, <2>3 DEF With
<1>12. Sound(frames, With(rest, todo))
  BY <1>3, <1>11
<1> HIDE DEF base, rest, gs
<1>13. Dropping(frames, todo, rest)
  BY <1>7, <1>8, <1>10, <1>12 DEF Dropping
<1>14. Sound(gs, rest) /\ Kept(gs, frames)
  BY <1>13, DroppedSound DEF gs
<1>15. NamesOK(gs)
  BY <1>3, <1>14, KeptNames
<1>16. Sound(frames', Roots(env', stack'))
  BY <1>4, <1>14 DEF rest
<1> QED
  BY <1>2, <1>3, <1>4, <1>15, <1>16, StackEmpty, HeapKept

\* A stack without its top has no more roots.
LEMMA PoppedLess ==
    ASSUME NEW s, StackOK(s)
    PROVE  /\ StackOK(Popped(s))
           /\ \A g \in Nat : CountIn(Popped(s), g) \in Nat /\ CountIn(Popped(s), g) <= CountIn(s, g)
<1>1. IsSeq(s)
  BY DEF StackOK
<1>2. CASE s = << >>
  <2>1. Popped(s) = s
    BY <1>2 DEF Popped
  <2>2. \A g \in Nat : CountIn(s, g) \in Nat
    BY <1>1, CountNat
  <2> QED
    BY <2>1, <2>2
<1>3. CASE s # << >>
  <2>1. Popped(s) = Tail(s)
    BY <1>3 DEF Popped
  <2>2. StackOK(Tail(s))
    BY <1>3, StackCut
  <2>3. ASSUME NEW g \in Nat PROVE CountIn(Tail(s), g) \in Nat /\ CountIn(Tail(s), g) <= CountIn(s, g)
    <3>1. CountIn(Tail(s), g) \in Nat
          /\ CountIn(s, g) = CountIn(Tail(s), g) + (IF Head(s).env = g THEN 1 ELSE 0)
      BY <1>1, <1>3, CountCut
    <3> QED
      BY <3>1
  <2> QED
    BY <2>1, <2>2, <2>3
<1> QED
  BY <1>2, <1>3

\* A branch is dropped with its reference still counted.
LEMMA DoIfElseKept ==
    ASSUME MachineInv, DoIfElse
    PROVE  MachineInv'
<1>1. Executes("OP_IFELSE")
  BY DEF DoIfElse
<1>2. Code(Rest) /\ status = "running" /\ prog # << >> /\ Head(prog).op # "FOX"
  BY <1>1, Running
<1>3. /\ env \in Nat
      /\ StackOK(stack) /\ IsSeq(stack) /\ ResultsOK(results) /\ NamesOK(frames)
      /\ Sound(frames, Roots(env, stack))
  BY DEF MachineInv, Typed, StackOK
<1>4. \/ results = << >> /\ Pause
      \/ results # << >> /\ results[1].val # 0 /\ stack = << >> /\ Crash
      \/ /\ results # << >> /\ (results[1].val # 0 => stack # << >>)
         /\ stack' = IF results[1].val # 0 THEN <<Head(stack)>> \o Popped(Tail(stack)) ELSE Popped(stack)
         /\ results' = Tail(results)
         /\ prog' = Rest
         /\ UNCHANGED <<expression, env, frames, status>>
  BY DEF DoIfElse
<1>5. CASE results = << >> /\ Pause
  BY <1>2, <1>5, PauseKept
<1>6. CASE Crash
  BY <1>6, CrashKept
<1>7. CASE /\ results # << >> /\ (results[1].val # 0 => stack # << >>)
           /\ stack' = IF results[1].val # 0 THEN <<Head(stack)>> \o Popped(Tail(stack)) ELSE Popped(stack)
           /\ results' = Tail(results)
           /\ prog' = Rest
           /\ UNCHANGED <<expression, env, frames, status>>
  <2>1. ResultsOK(Tail(results))
    BY <1>3, <1>7, ResultsCut
  <2>2. StackOK(stack') /\ \A g \in Nat : CountIn(stack', g) \in Nat /\ CountIn(stack', g) <= CountIn(stack, g)
    <3>1. CASE results[1].val = 0
      <4>1. stack' = Popped(stack)
        BY <1>7, <3>1
      <4> QED
        BY <1>3, <4>1, PoppedLess
    <3>2. CASE results[1].val # 0
      <4> DEFINE c == Head(stack)
                 s == Popped(Tail(stack))
      <4>1. stack # << >> /\ stack' = <<c>> \o s
        BY <1>7, <3>2
      <4>2. c.env \in Nat /\ Code(c.code) /\ StackOK(Tail(stack))
        BY <1>3, <4>1, StackCut
      <4>3. StackOK(s) /\ \A g \in Nat : CountIn(s, g) \in Nat /\ CountIn(s, g) <= CountIn(Tail(stack), g)
        BY <4>2, PoppedLess
      <4>4. \A g \in Nat : CountIn(Tail(stack), g) \in Nat
                           /\ CountIn(stack, g) = CountIn(Tail(stack), g) + (IF c.env = g THEN 1 ELSE 0)
        BY <1>3, <4>1, CountCut
      <4> HIDE DEF c, s
      <4>5. StackOK(<<c>> \o s)
        BY <4>2, <4>3, StackPushed
      <4>6. ASSUME NEW g \in Nat
            PROVE CountIn(<<c>> \o s, g) \in Nat /\ CountIn(<<c>> \o s, g) <= CountIn(stack, g)
        <5>1. CountIn(<<c>> \o s, g) = CountIn(s, g) + (IF c.env = g THEN 1 ELSE 0)
          BY <4>3, CountPushed DEF StackOK
        <5>2. CountIn(s, g) \in Nat /\ CountIn(s, g) <= CountIn(Tail(stack), g)
              /\ CountIn(Tail(stack), g) \in Nat
              /\ CountIn(stack, g) = CountIn(Tail(stack), g) + (IF c.env = g THEN 1 ELSE 0)
          BY <4>3, <4>4
        <5> QED
          BY <5>1, <5>2
      <4> QED
        BY <4>1, <4>5, <4>6
    <3> QED
      BY <3>1, <3>2
  <2> DEFINE t == stack'
             base == Roots(env, stack)
             less == Roots(env, t)
  <2> HIDE DEF t
  <2>3. IsSeq(t) /\ \A g \in Nat : CountIn(t, g) \in Nat /\ CountIn(t, g) <= CountIn(stack, g)
    BY <2>2 DEF StackOK, t
  <2>4. base \in [Nat -> Nat] /\ less \in [Nat -> Nat]
    BY <1>3, <2>3, RootsNat
  <2>5. ASSUME NEW g \in Nat \ {0} PROVE less[g] <= base[g]
    <3> DEFINE a == IF env = g THEN 1 ELSE 0
    <3>1. less[g] = a + CountIn(t, g) /\ base[g] = a + CountIn(stack, g)
      BY DEF Roots
    <3>2. CountIn(t, g) \in Nat /\ CountIn(t, g) <= CountIn(stack, g) /\ CountIn(stack, g) \in Nat
      BY <1>3, <2>3, CountNat
    <3>3. a \in Nat
      OBVIOUS
    <3> HIDE DEF a, less, base
    <3> QED
      BY <3>1, <3>2, <3>3
  <2>6. Sound(frames, base)
    BY <1>3
  <2> HIDE DEF base, less
  <2>7. Sound(frames, less)
    BY <2>4, <2>5, <2>6, SoundLess
  <2>8. Sound(frames', Roots(env', stack'))
    BY <1>7, <2>7 DEF less, t
  <2> QED
    BY <1>2, <1>3, <1>7, <2>1, <2>2, <2>8, HeapKept
<1> QED
  BY <1>4, <1>5, <1>6, <1>7

(***************************************************************************)
(* The theorems.                                                           *)
(***************************************************************************)
\* Every step keeps the invariant.
LEMMA InvNext == MachineInv /\ [Next]_vars => MachineInv'
<1> SUFFICES ASSUME MachineInv, [Next]_vars PROVE MachineInv'
  OBVIOUS
<1>1. CASE ResolveWord
  BY <1>1, ResolveWordKept
<1>2. CASE ResolveLambda
  BY <1>2, ResolveLambdaKept
<1>3. CASE ResolveApp
  BY <1>3, ResolveAppKept
<1>4. CASE DoAccess
  BY <1>4, DoAccessKept
<1>5. CASE DoClosure
  BY <1>5, DoClosureKept
<1>6. CASE DoGrab
  BY <1>6, DoGrabKept
<1>7. CASE DoTailApply
  BY <1>7, DoTailApplyKept
<1>8. CASE DoHalt
  BY <1>8, DoHaltKept
<1>9. CASE DoArithmetic
  BY <1>9, DoArithmeticKept
<1>10. CASE DoCompare
  BY <1>10, DoCompareKept
<1>11. CASE DoIfElse
  BY <1>11, DoIfElseKept
<1>12. CASE DoCall
  BY <1>12, DoCallKept
<1>13. CASE DoFox
  BY <1>13, DoFoxKept
<1>14. CASE Resume
  BY <1>14, ResumeKept
<1>15. CASE UNCHANGED vars
  <2>1. Typed'
    BY <1>15 DEF MachineInv, Typed, vars
  <2>2. Sound(frames, Roots(env, stack))'
    BY <1>15 DEF MachineInv, vars
  <2>3. Waiting'
    BY <1>15 DEF MachineInv, Waiting, vars
  <2> QED
    BY <2>1, <2>2, <2>3 DEF MachineInv
<1> QED
  BY <1>1, <1>2, <1>3, <1>4, <1>5, <1>6, <1>7, <1>8, <1>9, <1>10, <1>11, <1>12, <1>13, <1>14, <1>15 DEF Next

\* The invariant holds in every state.
LEMMA InvAlways == Spec => []MachineInv
<1> QED
  BY InvInit, InvNext, PTL DEF Spec

\* No step frees an environment that a closure, another environment or the
\* machine still refers to, and every environment counts all its references:
\* ccnl_nfn_reserveEnvironment, ccnl_nfn_releaseEnvironment and
\* ccnl_nfn_freeEnvironment, for every expression and every answer.
THEOREM ReferencesAlwaysCounted == Spec => []ReferencesCounted
<1> QED
  BY InvAlways, InvImplies, PTL

\* The registers of the machine hold what its instructions put there, for every
\* expression and every answer.
THEOREM MachineTypes == Spec => []TypeOK
<1> QED
  BY InvAlways, InvImplies, PTL
===============================================================================
