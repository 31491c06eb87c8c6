------------------------ MODULE QueryPlacementProofs ------------------------
(***************************************************************************)
(* Proofs about QueryPlacement: the types, the search for paths and the    *)
(* placement of the operators, for every network, every set of reports and *)
(* every set of queries.                                                   *)
(***************************************************************************)
EXTENDS QueryPlacement, FiniteSetTheorems, FunctionTheorems, SequenceTheorems, TLAPS

(***************************************************************************)
(* The invariants of the search.                                           *)
(***************************************************************************)
Hop == [name : Nodes, latency : Nat, previous : Nat]
Info == [name : Nodes \cup {NoNode}, links : Seq(Link), battery : Nat]

\* The states that arrived: of the nodes in the file, or of no node; no node
\* is linked to itself.
NodesInv ==
  /\ allNodes \in Seq(Info)
  /\ Len(allNodes) <= Len(Listed)
  /\ \A i \in DOMAIN allNodes :
       /\ allNodes[i].name \in {Listed[i], NoNode}
       /\ \A j \in DOMAIN allNodes[i].links : allNodes[i].links[j].node # allNodes[i].name

\* Hops hang below earlier hops: each below the first hop of the node that
\* reported the link, one level deeper. Levels never decrease.
HopsInv(hops, seen, d) ==
  /\ hops \in Seq(Hop) /\ Len(hops) > 0
  /\ d \in [DOMAIN hops -> Nat]
  /\ hops[1].name = Own /\ hops[1].previous = 0 /\ d[1] = 0
  /\ \A i \in 2 .. Len(hops) :
       /\ hops[i].previous \in 1 .. i - 1
       /\ hops[i].previous = FirstHop(hops, hops[hops[i].previous].name)
       /\ hops[hops[i].previous].name \in seen
       /\ Linked(hops[hops[i].previous].name, hops[i].name)
       /\ d[i] = d[hops[i].previous] + 1
  /\ \A i, j \in DOMAIN hops : i <= j => d[i] <= d[j]

\* Every link of a traversed node has a hop below the first hop of that node.
SeenInv(hops, seen) ==
  \A m \in seen :
    /\ m \in Nodes /\ Known(m) /\ FirstHop(hops, m) # 0
    /\ \A n \in Nodes : Linked(m, n) =>
         \E i \in DOMAIN hops : hops[i].name = n /\ hops[i].previous = FirstHop(hops, m)

\* The nodes still to be traversed are known and wait by level; a known node
\* that was found was traversed or waits.
WaitingInv(hops, waiting, seen, d) ==
  /\ waiting \in Seq(Nodes)
  /\ \A k \in DOMAIN waiting : Known(waiting[k]) /\ FirstHop(hops, waiting[k]) # 0
  /\ \A k, l \in DOMAIN waiting :
       k <= l => d[FirstHop(hops, waiting[k])] <= d[FirstHop(hops, waiting[l])]
  /\ waiting # <<>> => \A i \in DOMAIN hops : d[i] <= d[FirstHop(hops, waiting[1])] + 1
  /\ \A i \in DOMAIN hops : Known(hops[i].name) => hops[i].name \in seen \cup ToSet(waiting)

SearchInv(hops, waiting, seen, d) ==
  HopsInv(hops, seen, d) /\ SeenInv(hops, seen) /\ WaitingInv(hops, waiting, seen, d)

\* The hops of a path, from the far end to the own node, and the names of them.
NamesOf(c) == [k \in DOMAIN c |-> hopInfo[c[k]].name]
Start(i) == IF TurnsBack(i) THEN hopInfo[i].previous ELSE i
Chain(c, i, d) ==
  /\ c \in Seq(DOMAIN hopInfo) /\ Len(c) > 0
  /\ c[1] = i /\ c[Len(c)] = 1
  /\ \A k \in 1 .. Len(c) - 1 : hopInfo[c[k]].previous = c[k + 1]
  /\ \A k \in DOMAIN c : d[c[k]] = Len(c) - k

PathsInv(d) ==
  /\ Len(paths) <= Len(hopInfo)
  /\ \A i \in DOMAIN paths : \E c \in Seq(DOMAIN hopInfo) :
       Chain(c, Start(i), d) /\ paths[i].nodes = NamesOf(c)

\* The part of a path that was checked, up to the hop h the check is at.
Checked(c, i, h, d) ==
  /\ c \in Seq(DOMAIN hopInfo)
  /\ c = <<>> => h \in {i, Start(i)}
  /\ c # <<>> => c[1] = Start(i) /\ hopInfo[c[Len(c)]].previous = h
  /\ \A k \in 1 .. Len(c) - 1 : hopInfo[c[k]].previous = c[k + 1]
  /\ \A k \in DOMAIN c : d[c[k]] = d[h] + Len(c) - k + 1

CheckInv(d) ==
  /\ traversalNodes # <<>> => paths = <<>> /\ check.hop = 1 /\ check.nodes = <<>>
  /\ Len(paths) < Len(hopInfo) =>
       /\ check.hop \in DOMAIN hopInfo
       /\ \E c \in Seq(DOMAIN hopInfo) :
            Checked(c, Len(paths) + 1, check.hop, d) /\ check.nodes = NamesOf(c)

\* Before the search there is nothing; afterwards all of the above holds.
Searched(d) ==
  /\ SearchInv(hopInfo, traversalNodes, traversedNodes, d)
  /\ PathsInv(d) /\ CheckInv(d)
Unsearched ==
  /\ phase \in {"discovery", "stopped", "failed"}
  /\ hopInfo = <<>> /\ traversalNodes = <<>> /\ traversedNodes = {} /\ paths = <<>>
  /\ check.hop = 1 /\ check.nodes = <<>>

Weights == [hop : Nat, nodes : Seq(Nodes), cost : Nat, energy : 0 .. 10, bdp : 0 .. 10,
            lastEnergy : Nat, lastBdp : Nat]
CostInv ==
  /\ check \in Weights /\ check.energy + check.bdp \in {0, 10}
  /\ paths \in Seq([nodes : Seq(Nodes), cost : Nat])

SearchingInv ==
  /\ NodesInv /\ CostInv
  /\ \/ Unsearched
     \/ phase # "discovery" /\ phase # "stopped" /\ \E d : Searched(d)

-----------------------------------------------------------------------------
(***************************************************************************)
(* Numbers, first hops, states of nodes.                                   *)
(***************************************************************************)
\* A non-empty set of naturals has a smallest element.
LEMMA SmallestOf ==
    ASSUME NEW T \in SUBSET Nat, T # {}
    PROVE  \E x \in T : \A y \in T : x <= y
<1> DEFINE R == {ss \in Nat \X Nat : ss[1] < ss[2]}
<1>1. \A x, y \in Nat : y < x => <<y, x>> \in R
  OBVIOUS
<1>2. IsWellFoundedOn(R, Nat)
  BY NatLessThanWellFounded DEF OpToRel
<1> HIDE DEF R
<1>3. PICK x \in T : \A y \in T : ~(<<y, x>> \in R)
  BY <1>2, WFMin
<1>4. \A y \in T : ~(y < x)
  BY <1>1, <1>3
<1> QED
  BY <1>3, <1>4

\* FirstHop is 0 when no hop has the name, and the first of those otherwise.
LEMMA FirstHopIs ==
    ASSUME NEW hops \in Seq(Hop), NEW n
    PROVE  /\ FirstHop(hops, n) \in 0 .. Len(hops)
           /\ FirstHop(hops, n) # 0 => /\ hops[FirstHop(hops, n)].name = n
                                       /\ FirstHop(hops, n) \in DOMAIN hops
           /\ \A i \in DOMAIN hops : hops[i].name = n =>
                FirstHop(hops, n) # 0 /\ FirstHop(hops, n) <= i
<1> DEFINE I == {i \in 1 .. Len(hops) : hops[i].name = n}
<1>0. FirstHop(hops, n) = IF I # {} THEN Min(I) ELSE 0
  BY DEF FirstHop, SelectInSeq
<1>1. I \in SUBSET Nat /\ \A i : i \in I <=> i \in DOMAIN hops /\ hops[i].name = n
  OBVIOUS
<1> HIDE DEF I
<1>2. CASE I = {}
  BY <1>0, <1>1, <1>2
<1>3. CASE I # {}
  <2>1. \E x \in I : \A y \in I : x <= y
    BY <1>1, <1>3, SmallestOf
  <2>2. Min(I) \in I /\ \A y \in I : Min(I) <= y
    BY <2>1 DEF Min
  <2> QED
    BY <1>0, <1>1, <1>3, <2>2
<1> QED
  BY <1>2, <1>3

\* The hop with a name that no hop before it has is the first hop.
LEMMA FirstHopUnique ==
    ASSUME NEW hops \in Seq(Hop), NEW i \in DOMAIN hops,
           \A j \in DOMAIN hops : j < i => hops[j].name # hops[i].name
    PROVE  FirstHop(hops, hops[i].name) = i
BY FirstHopIs

\* Hops that are added do not change the first hop of a node that has one.
LEMMA FirstHopStays ==
    ASSUME NEW hops \in Seq(Hop), NEW more \in Seq(Hop), NEW n, FirstHop(hops, n) # 0
    PROVE  FirstHop(hops \o more, n) = FirstHop(hops, n)
<1> DEFINE all == hops \o more
           f == FirstHop(hops, n)
<1>1. all \in Seq(Hop) /\ Len(all) = Len(hops) + Len(more) /\ \A i \in DOMAIN hops : all[i] = hops[i]
  OBVIOUS
<1>2. f \in DOMAIN hops /\ hops[f].name = n /\ \A i \in DOMAIN hops : hops[i].name = n => f <= i
  BY FirstHopIs
<1> HIDE DEF all, f
<1>3. f \in DOMAIN all /\ all[f].name = n
  BY <1>1, <1>2
<1>4. \A j \in DOMAIN all : j < f => all[j].name # all[f].name
  BY <1>1, <1>2
<1>5. FirstHop(all, all[f].name) = f
  BY <1>1, <1>3, <1>4, FirstHopUnique
<1> QED
  BY <1>3, <1>5 DEF all, f

\* What is known of a known node.
LEMMA InfoIs ==
    ASSUME NodesInv, NEW n, Known(n)
    PROVE  /\ InfoOf(n) \in Info /\ InfoOf(n).name = n
           /\ Links(n) \in Seq(Link)
           /\ \A i \in DOMAIN Links(n) : Links(n)[i].node # n
<1>1. \E i \in DOMAIN allNodes : allNodes[i].name = n
  BY DEF Known
<1> DEFINE c == CHOOSE i \in DOMAIN allNodes : allNodes[i].name = n
<1>2. c \in DOMAIN allNodes /\ allNodes[c].name = n
  BY <1>1
<1>3. InfoOf(n) = allNodes[c]
  BY DEF InfoOf
<1> HIDE DEF c
<1>4. allNodes[c] \in Info
  BY <1>2 DEF NodesInv
<1> QED
  BY <1>2, <1>3, <1>4 DEF NodesInv, Links, Info

\* A node is not linked to itself.
LEMMA NotOwnNeighbour ==
    ASSUME NodesInv, NEW n
    PROVE  ~Linked(n, n)
BY InfoIs DEF Linked

-----------------------------------------------------------------------------
(***************************************************************************)
(* One turn of the search.                                                 *)
(***************************************************************************)
\* A finite set of naturals in ascending order has all its elements.
LEMMA InOrderIs ==
    ASSUME NEW S \in SUBSET Nat, IsFiniteSet(S)
    PROVE  /\ Cardinality(S) \in Nat
           /\ InOrder(S) \in [1 .. Cardinality(S) -> S]
           /\ \A i \in S : \E k \in 1 .. Cardinality(S) : InOrder(S)[k] = i
<1> DEFINE n == Cardinality(S)
           UpTo(i) == {j \in S : j <= i}
           r == [i \in S |-> Cardinality(UpTo(i))]
           g(k) == CHOOSE i \in S : Cardinality(UpTo(i)) = k
<1>0. InOrder(S) = [k \in 1 .. n |-> g(k)]
  BY DEF InOrder
<1>1. n \in Nat
  BY FS_CardinalityType
<1>2. \A i \in S : /\ IsFiniteSet(UpTo(i)) /\ Cardinality(UpTo(i)) \in 1 .. n
  <2> TAKE i \in S
  <2>1. UpTo(i) \in SUBSET S /\ i \in UpTo(i)
    OBVIOUS
  <2>2. IsFiniteSet(UpTo(i)) /\ Cardinality(UpTo(i)) <= n
    BY <2>1, FS_Subset
  <2>3. Cardinality(UpTo(i)) \in Nat /\ Cardinality(UpTo(i)) # 0
    BY <2>1, <2>2, FS_CardinalityType, FS_EmptySet
  <2> HIDE DEF UpTo, n
  <2> QED
    BY <1>1, <2>2, <2>3
<1>3. \A i, j \in S : i < j => Cardinality(UpTo(i)) # Cardinality(UpTo(j))
  <2> SUFFICES ASSUME NEW i \in S, NEW j \in S, i < j
               PROVE  Cardinality(UpTo(i)) # Cardinality(UpTo(j))
    OBVIOUS
  <2>1. i \in Nat /\ j \in Nat /\ \A x \in S : x \in Nat
    OBVIOUS
  <2>2. UpTo(i) \subseteq UpTo(j)
    <3>1. \A x \in S : x <= i => x <= j
      BY <2>1
    <3> QED
      BY <3>1
  <2>3. j \in UpTo(j) /\ j \notin UpTo(i)
    BY <2>1
  <2> HIDE DEF UpTo
  <2> QED
    BY <1>2, <2>2, <2>3, FS_Subset
<1> HIDE DEF UpTo
<1>4. r \in [S -> 1 .. n] /\ \A i \in S : r[i] = Cardinality(UpTo(i))
  BY <1>2
<1>5. \A i, j \in S : r[i] = r[j] => i = j
  <2> SUFFICES ASSUME NEW i \in S, NEW j \in S, r[i] = r[j] PROVE i = j
    OBVIOUS
  <2>1. ~(i < j) /\ ~(j < i)
    BY <1>3, <1>4
  <2> QED
    BY <2>1
<1> HIDE DEF r
<1>6. r \in Injection(S, 1 .. n)
  BY <1>4, <1>5, Fun_IsInj
<1>7. IsFiniteSet(1 .. n) /\ Cardinality(1 .. n) = n
  BY <1>1, FS_Interval
<1>8. r \in Surjection(S, 1 .. n)
  BY <1>6, <1>7, FS_Injection DEF n
<1>9. \A k \in 1 .. n : \E i \in S : r[i] = k
  BY <1>8, Fun_SurjectionProperties
<1>10. \A k \in 1 .. n : g(k) \in S /\ r[g(k)] = k
  <2> TAKE k \in 1 .. n
  <2>1. \E i \in S : Cardinality(UpTo(i)) = k
    BY <1>4, <1>9
  <2>2. g(k) \in S /\ Cardinality(UpTo(g(k))) = k
    BY <2>1
  <2> QED
    BY <1>4, <2>2
<1> HIDE DEF g
<1>11. InOrder(S) \in [1 .. n -> S] /\ \A k \in 1 .. n : r[InOrder(S)[k]] = k
  BY <1>0, <1>10
<1>12. \A i \in S : r[i] \in 1 .. n /\ InOrder(S)[r[i]] = i
  BY <1>4, <1>5, <1>11
<1> QED
  BY <1>1, <1>11, <1>12 DEF n

\* The neighbours to go on with: those that are known, do not wait and were
\* not seen.
LEMMA GetTraversalNodesIs ==
    ASSUME NodesInv, NEW n, Known(n), NEW waiting, NEW seen
    PROVE  LET more == GetTraversalNodes(n, waiting, seen)
               Fresh(m) == Linked(n, m) /\ Known(m) /\ ~Contains(waiting, m) /\ m \notin seen
           IN  /\ more \in Seq(Nodes)
               /\ \A k \in DOMAIN more : Fresh(more[k])
               /\ \A m : Fresh(m) => m \in ToSet(more)
<1> DEFINE L == Links(n)
           more == GetTraversalNodes(n, waiting, seen)
           Fresh(m) == Known(m) /\ ~Contains(waiting, m) /\ m \notin seen
           F == {i \in DOMAIN L : Fresh(L[i].node)}
<1>1. L \in Seq(Link)
  BY InfoIs
<1>2. F \in SUBSET Nat /\ IsFiniteSet(F)
  <2>1. IsFiniteSet(DOMAIN L) /\ DOMAIN L \in SUBSET Nat
    BY <1>1, FS_Interval
  <2> QED
    BY <2>1, FS_Subset
<1>3. more = [k \in DOMAIN InOrder(F) |-> L[InOrder(F)[k]].node]
  BY DEF GetTraversalNodes
<1> HIDE DEF more
<1>4. /\ Cardinality(F) \in Nat
      /\ InOrder(F) \in [1 .. Cardinality(F) -> F]
      /\ \A i \in F : \E k \in 1 .. Cardinality(F) : InOrder(F)[k] = i
  BY <1>2, InOrderIs
<1>5. DOMAIN InOrder(F) = 1 .. Cardinality(F)
  BY <1>4
<1>6. \A k \in DOMAIN more : InOrder(F)[k] \in F /\ more[k] = L[InOrder(F)[k]].node
  BY <1>3, <1>4, <1>5
<1>7. \A i \in F : L[i].node \in Nodes /\ Fresh(L[i].node) /\ Linked(n, L[i].node)
  <2> TAKE i \in F
  <2>1. i \in DOMAIN L /\ Fresh(L[i].node)
    OBVIOUS
  <2>2. Linked(n, L[i].node)
    BY <2>1 DEF Linked
  <2>3. L[i] \in Link
    BY <1>1, <2>1
  <2> QED
    BY <2>1, <2>2, <2>3 DEF Link
<1> HIDE DEF L, Fresh
<1>8. more \in Seq(Nodes)
  <2>1. \A k \in 1 .. Cardinality(F) : more[k] \in Nodes
    BY <1>3, <1>5, <1>6, <1>7
  <2>2. more = [k \in 1 .. Cardinality(F) |-> more[k]]
    BY <1>3, <1>5
  <2> HIDE DEF F
  <2> QED
    BY <1>4, <2>1, <2>2, IsASeq
<1>9. ASSUME NEW m, Linked(n, m), Fresh(m)
      PROVE  m \in ToSet(more)
  <2>1. PICK i \in DOMAIN L : L[i].node = m
    BY <1>9 DEF Linked, L
  <2>2. i \in F
    BY <1>9, <2>1
  <2>3. PICK k \in 1 .. Cardinality(F) : InOrder(F)[k] = i
    BY <1>4, <2>2
  <2>4. k \in DOMAIN more /\ more[k] = m
    BY <1>3, <1>5, <2>1, <2>3
  <2> QED
    BY <2>4 DEF ToSet
<1>10. \A k \in DOMAIN more : Linked(n, more[k]) /\ Fresh(more[k])
  BY <1>6, <1>7
<1> QED
  BY <1>8, <1>9, <1>10 DEF more, Fresh

\* A step of the search adds a hop for every link, below the first hop.
LEMMA OneStepTraverseIs ==
    ASSUME NodesInv, NEW n, Known(n), NEW hops \in Seq(Hop), FirstHop(hops, n) # 0
    PROVE  LET all == OneStepTraverse(n, hops) IN
           /\ all \in Seq(Hop) /\ Len(all) = Len(hops) + Len(Links(n)) /\ Len(Links(n)) \in Nat
           /\ \A i \in DOMAIN hops : all[i] = hops[i]
           /\ \A i \in DOMAIN Links(n) :
                /\ all[Len(hops) + i].name = Links(n)[i].node
                /\ all[Len(hops) + i].previous = FirstHop(hops, n)
           /\ \A m : FirstHop(hops, m) # 0 => FirstHop(all, m) = FirstHop(hops, m)
<1> DEFINE L == Links(n)
           f == FirstHop(hops, n)
           more == [i \in DOMAIN L |-> [name |-> L[i].node, latency |-> L[i].latency, previous |-> f]]
           all == OneStepTraverse(n, hops)
<1>1. L \in Seq(Link)
  BY InfoIs
<1>2. f \in Nat
  BY FirstHopIs
<1>3. all = hops \o more
  BY DEF OneStepTraverse
<1> HIDE DEF f, all
<1>4. more \in Seq(Hop) /\ Len(more) = Len(L)
  <2> HIDE DEF L
  <2>1. \A i \in DOMAIN L : L[i] \in Link
    BY <1>1
  <2>2. \A i \in DOMAIN L : more[i] \in Hop
    BY <1>2, <2>1 DEF Hop, Link
  <2>3. DOMAIN L = 1 .. Len(L) /\ Len(L) \in Nat
    BY <1>1
  <2>4. more = [i \in 1 .. Len(L) |-> more[i]]
    BY <2>3
  <2> HIDE DEF more
  <2> QED
    BY <2>2, <2>3, <2>4, IsASeq
<1>5. \A i \in DOMAIN L : more[i].name = L[i].node /\ more[i].previous = f
  OBVIOUS
<1> HIDE DEF more, L
<1>6. \A m : FirstHop(hops, m) # 0 => FirstHop(all, m) = FirstHop(hops, m)
  BY <1>3, <1>4, FirstHopStays
<1>7. /\ all \in Seq(Hop) /\ Len(all) = Len(hops) + Len(L) /\ Len(L) \in Nat
      /\ \A i \in DOMAIN hops : all[i] = hops[i]
  <2>1. Len(L) \in Nat /\ Len(hops) \in Nat /\ DOMAIN hops = 1 .. Len(hops)
    BY <1>1
  <2>2. /\ all \in Seq(Hop) /\ Len(all) = Len(hops) + Len(more)
        /\ \A i \in 1 .. Len(hops) + Len(more) :
             all[i] = IF i <= Len(hops) THEN hops[i] ELSE more[i - Len(hops)]
    <3>1. hops \in Seq(Hop) /\ more \in Seq(Hop)
      BY <1>4
    <3>2. /\ hops \o more \in Seq(Hop) /\ Len(hops \o more) = Len(hops) + Len(more)
          /\ \A i \in 1 .. Len(hops) + Len(more) :
               (hops \o more)[i] = IF i <= Len(hops) THEN hops[i] ELSE more[i - Len(hops)]
      BY ONLY <3>1, ConcatProperties, Zenon
    <3> QED
      BY ONLY <1>3, <3>2, Zenon
  <2>3. Len(more) = Len(L)
    BY <1>4
  <2> HIDE DEF all
  <2>4. ASSUME NEW i \in DOMAIN hops PROVE all[i] = hops[i]
    <3>1. i \in 1 .. Len(hops) + Len(more) /\ i <= Len(hops)
      BY <2>1, <2>3
    <3> QED
      BY <2>2, <3>1
  <2> QED
    BY <2>1, <2>2, <2>3, <2>4
<1>8. \A i \in DOMAIN L : all[Len(hops) + i] = more[i]
  BY <1>1, <1>3, <1>4, ConcatProperties
<1> QED
  BY <1>5, <1>6, <1>7, <1>8 DEF f, all, L

\* A turn of the loop of buildPaths keeps the invariants of the search.
LEMMA TraverseStep ==
    ASSUME NodesInv, NEW hops, NEW waiting, NEW seen, NEW d,
           SearchInv(hops, waiting, seen, d), waiting # <<>>
    PROVE  \E e : SearchInv(OneStepTraverse(Head(waiting), hops),
                            Tail(waiting \o GetTraversalNodes(Head(waiting), waiting, seen)),
                            seen \cup {Head(waiting)}, e)
<1> DEFINE next == Head(waiting)
           f == FirstHop(hops, next)
           all == OneStepTraverse(next, hops)
           more == GetTraversalNodes(next, waiting, seen)
           rest == Tail(waiting \o more)
           e == [i \in DOMAIN all |-> IF i <= Len(hops) THEN d[i] ELSE d[f] + 1]
           L == Links(next)
<1>1. HopsInv(hops, seen, d) /\ SeenInv(hops, seen) /\ WaitingInv(hops, waiting, seen, d)
  BY DEF SearchInv
<1>2. waiting \in Seq(Nodes) /\ 1 \in DOMAIN waiting /\ next = waiting[1] /\ next \in Nodes
  BY <1>1 DEF WaitingInv
<1>3. hops \in Seq(Hop) /\ Len(hops) \in Nat /\ DOMAIN hops = 1 .. Len(hops) /\ d \in [DOMAIN hops -> Nat]
  BY <1>1 DEF HopsInv
<1>4. Known(next) /\ f # 0
  BY <1>1, <1>2 DEF WaitingInv
<1>5. f \in DOMAIN hops /\ hops[f].name = next
  BY <1>3, <1>4, FirstHopIs
<1>6. /\ all \in Seq(Hop) /\ Len(all) = Len(hops) + Len(L) /\ Len(L) \in Nat
      /\ \A i \in DOMAIN hops : all[i] = hops[i]
      /\ \A i \in DOMAIN L : all[Len(hops) + i].name = L[i].node /\ all[Len(hops) + i].previous = f
      /\ \A m : FirstHop(hops, m) # 0 => FirstHop(all, m) = FirstHop(hops, m)
  BY <1>3, <1>4, OneStepTraverseIs
<1>7. /\ more \in Seq(Nodes)
      /\ \A k \in DOMAIN more :
           Linked(next, more[k]) /\ Known(more[k]) /\ ~Contains(waiting, more[k]) /\ more[k] \notin seen
      /\ \A m : Linked(next, m) /\ Known(m) /\ ~Contains(waiting, m) /\ m \notin seen => m \in ToSet(more)
  BY <1>4, GetTraversalNodesIs
<1>8. L \in Seq(Link) /\ DOMAIN L = 1 .. Len(L)
  BY <1>4, InfoIs
<1>9. \A i \in DOMAIN L : Linked(next, L[i].node)
  BY <1>4 DEF Linked
<1>10. \A m : Linked(next, m) => \E i \in DOMAIN L : L[i].node = m
  BY DEF Linked
<1> HIDE DEF next, f, all, more, L
\* The hops that are added.
<1>11. DOMAIN all = 1 .. Len(all) /\ Len(all) \in Nat
  BY <1>6
<1>12. \A i \in DOMAIN all : i > Len(hops) => /\ all[i].previous = f /\ Linked(next, all[i].name)
                                              /\ e[i] = d[f] + 1
  <2> SUFFICES ASSUME NEW i \in DOMAIN all, i > Len(hops)
               PROVE  all[i].previous = f /\ Linked(next, all[i].name)
    BY <1>3, <1>11
  <2>1. i - Len(hops) \in DOMAIN L /\ Len(hops) + (i - Len(hops)) = i
    BY <1>3, <1>6, <1>8, <1>11
  <2>2. all[i].name = L[i - Len(hops)].node /\ all[i].previous = f
    BY <1>6, <2>1
  <2> QED
    BY <1>9, <2>1, <2>2
<1>13. \A m : Linked(next, m) => \E i \in DOMAIN all : i > Len(hops) /\ all[i].name = m
  <2> SUFFICES ASSUME NEW m, Linked(next, m)
               PROVE  \E i \in DOMAIN all : i > Len(hops) /\ all[i].name = m
    OBVIOUS
  <2>1. PICK i \in DOMAIN L : L[i].node = m
    BY <1>10
  <2>2. Len(hops) + i \in DOMAIN all /\ Len(hops) + i > Len(hops)
    BY <1>3, <1>6, <1>8, <1>11
  <2> QED
    BY <1>6, <2>1, <2>2
<1>14. \A i \in DOMAIN hops : i \in DOMAIN all /\ all[i] = hops[i] /\ e[i] = d[i] /\ i <= Len(hops)
  BY <1>3, <1>6, <1>11
<1>15. e \in [DOMAIN all -> Nat] /\ \A i \in DOMAIN hops : d[i] \in Nat
  BY <1>3, <1>5, <1>11
<1> HIDE DEF e
<1>16. \A i \in DOMAIN all : i \in DOMAIN hops \/ i > Len(hops)
  BY <1>3, <1>11
\* What waits afterwards.
<1>17. /\ rest \in Seq(Nodes) /\ DOMAIN rest \subseteq Nat \ {0} /\ Len(waiting) \in Nat \ {0}
       /\ \A k \in DOMAIN rest :
            \/ k + 1 \in DOMAIN waiting /\ rest[k] = waiting[k + 1]
            \/ /\ k + 1 - Len(waiting) \in DOMAIN more /\ rest[k] = more[k + 1 - Len(waiting)]
               /\ k + 1 > Len(waiting)
       /\ \A k \in DOMAIN waiting : k > 1 => k - 1 \in DOMAIN rest /\ rest[k - 1] = waiting[k]
       /\ \A k \in DOMAIN more : Len(waiting) + k - 1 \in DOMAIN rest /\ rest[Len(waiting) + k - 1] = more[k]
  <2> DEFINE w == waiting \o more
  <2>1. /\ w \in Seq(Nodes) /\ Len(w) = Len(waiting) + Len(more)
        /\ \A i \in 1 .. Len(waiting) + Len(more) :
             w[i] = IF i <= Len(waiting) THEN waiting[i] ELSE more[i - Len(waiting)]
    BY <1>2, <1>7, ConcatProperties
  <2>2. Len(waiting) \in Nat /\ Len(more) \in Nat /\ Len(waiting) >= 1
        /\ DOMAIN waiting = 1 .. Len(waiting) /\ DOMAIN more = 1 .. Len(more)
    BY <1>2, <1>7
  <2> HIDE DEF w
  <2>3. w # <<>>
    BY <2>1, <2>2
  <2>4. /\ Tail(w) \in Seq(Nodes) /\ Len(Tail(w)) = Len(w) - 1
        /\ \A i \in 1 .. Len(Tail(w)) : Tail(w)[i] = w[i + 1]
    BY <2>1, <2>3, HeadTailProperties
  <2>5. DOMAIN Tail(w) = 1 .. Len(Tail(w))
    BY <2>4
  <2>6. rest = Tail(w)
    BY DEF w
  <2> HIDE DEF rest
  <2>7. /\ rest \in Seq(Nodes) /\ DOMAIN rest = 1 .. Len(waiting) + Len(more) - 1
        /\ \A k \in DOMAIN rest : rest[k] = w[k + 1]
    BY <2>1, <2>2, <2>4, <2>5, <2>6
  <2>8. ASSUME NEW k \in DOMAIN rest
        PROVE  \/ k + 1 \in DOMAIN waiting /\ rest[k] = waiting[k + 1]
               \/ /\ k + 1 - Len(waiting) \in DOMAIN more /\ rest[k] = more[k + 1 - Len(waiting)]
                  /\ k + 1 > Len(waiting)
    <3>1. /\ k + 1 \in 1 .. Len(waiting) + Len(more) /\ rest[k] = w[k + 1]
          /\ w[k + 1] = IF k + 1 <= Len(waiting) THEN waiting[k + 1] ELSE more[k + 1 - Len(waiting)]
      BY <2>1, <2>2, <2>7
    <3>2. CASE k + 1 <= Len(waiting)
      BY <2>2, <3>1, <3>2
    <3>3. CASE k + 1 > Len(waiting)
      <4>1. k + 1 - Len(waiting) \in DOMAIN more
        <5> HIDE DEF more
        <5>1. k \in Int /\ k <= Len(waiting) + Len(more) - 1
          BY <2>2, <2>7
        <5>2. k + 1 - Len(waiting) \in 1 .. Len(more)
          BY <2>2, <3>3, <5>1
        <5> QED
          BY <2>2, <5>2
      <4>2. rest[k] = more[k + 1 - Len(waiting)]
        BY <2>2, <3>1, <3>3
      <4> QED
        BY <3>3, <4>1, <4>2
    <3> QED
      BY <2>2, <3>1, <3>2, <3>3
  <2>9. ASSUME NEW k \in DOMAIN waiting, k > 1
        PROVE  k - 1 \in DOMAIN rest /\ rest[k - 1] = waiting[k]
    <3>1. k - 1 \in DOMAIN rest /\ (k - 1) + 1 = k /\ k <= Len(waiting)
          /\ k \in 1 .. Len(waiting) + Len(more)
      BY <2>2, <2>7, <2>9
    <3> QED
      BY <2>1, <2>7, <3>1
  <2>10. ASSUME NEW k \in DOMAIN more
         PROVE  Len(waiting) + k - 1 \in DOMAIN rest /\ rest[Len(waiting) + k - 1] = more[k]
    <3> DEFINE j == Len(waiting) + k
    <3>1. /\ j - 1 \in DOMAIN rest /\ (j - 1) + 1 = j /\ ~(j <= Len(waiting)) /\ j - Len(waiting) = k
          /\ j \in 1 .. Len(waiting) + Len(more)
      BY <2>2, <2>7
    <3> HIDE DEF j
    <3>2. rest[j - 1] = more[k]
      BY <2>1, <2>7, <3>1
    <3> QED
      BY <3>1, <3>2 DEF j
  <2>11. DOMAIN rest \subseteq Nat \ {0}
    BY <2>2, <2>7
  <2> QED
    BY <2>2, <2>7, <2>8, <2>9, <2>10, <2>11
<1> HIDE DEF rest
<1>18. HopsInv(all, seen \cup {next}, e)
  <2>1. all \in Seq(Hop) /\ Len(all) > 0 /\ e \in [DOMAIN all -> Nat]
    BY <1>1, <1>3, <1>6, <1>15 DEF HopsInv
  <2>2. all[1].name = Own /\ all[1].previous = 0 /\ e[1] = 0
    BY <1>1, <1>3, <1>14 DEF HopsInv
  <2>3. ASSUME NEW i \in 2 .. Len(all)
        PROVE  /\ all[i].previous \in 1 .. i - 1
               /\ all[i].previous = FirstHop(all, all[all[i].previous].name)
               /\ all[all[i].previous].name \in seen \cup {next}
               /\ Linked(all[all[i].previous].name, all[i].name)
               /\ e[i] = e[all[i].previous] + 1
    <3>1. CASE i \in DOMAIN hops
      <4>1. i \in 2 .. Len(hops) /\ all[i] = hops[i] /\ e[i] = d[i]
        BY <1>3, <1>14, <3>1
      <4>2. /\ hops[i].previous \in 1 .. i - 1
            /\ hops[i].previous = FirstHop(hops, hops[hops[i].previous].name)
            /\ hops[hops[i].previous].name \in seen
            /\ Linked(hops[hops[i].previous].name, hops[i].name)
            /\ d[i] = d[hops[i].previous] + 1
        BY <1>1, <4>1 DEF HopsInv
      <4> DEFINE p == hops[i].previous
      <4>3. p \in DOMAIN hops /\ p # 0
        BY <1>3, <4>1, <4>2
      <4>4. all[p] = hops[p] /\ e[p] = d[p]
        BY <1>14, <4>3
      <4>5. FirstHop(all, hops[p].name) = p
        BY <1>6, <4>2, <4>3
      <4> QED
        BY <4>1, <4>2, <4>4, <4>5
    <3>2. CASE i > Len(hops)
      <4>1. i \in DOMAIN all
        BY <1>11
      <4>2. all[i].previous = f /\ Linked(next, all[i].name) /\ e[i] = d[f] + 1
        BY <1>12, <3>2, <4>1
      <4>3. all[f] = hops[f] /\ e[f] = d[f] /\ all[f].name = next
        BY <1>5, <1>14
      <4>4. FirstHop(all, next) = f
        BY <1>4, <1>6 DEF f
      <4>5. f \in 1 .. i - 1
        BY <1>3, <1>5, <3>2
      <4> QED
        BY <4>2, <4>3, <4>4, <4>5
    <3> QED
      BY <1>11, <1>16, <3>1, <3>2
  <2>4. ASSUME NEW i \in DOMAIN all, NEW j \in DOMAIN all, i <= j
        PROVE  e[i] <= e[j]
    <3>1. CASE j \in DOMAIN hops
      <4>1. i \in DOMAIN hops
        BY <1>3, <1>11, <2>4, <3>1
      <4> QED
        BY <1>1, <1>14, <2>4, <3>1, <4>1 DEF HopsInv
    <3>2. CASE j > Len(hops) /\ i \in DOMAIN hops
      <4>1. d[i] <= d[f] + 1
        BY <1>1, <1>2, <3>2 DEF WaitingInv, f
      <4> QED
        BY <1>12, <1>14, <3>2, <4>1
    <3>3. CASE j > Len(hops) /\ i > Len(hops)
      BY <1>3, <1>5, <1>12, <3>3
    <3> QED
      BY <1>16, <3>1, <3>2, <3>3
  <2> QED
    BY <2>1, <2>2, <2>3, <2>4 DEF HopsInv
<1>19. SeenInv(all, seen \cup {next})
  <2> SUFFICES ASSUME NEW m \in seen \cup {next}
               PROVE  /\ m \in Nodes /\ Known(m) /\ FirstHop(all, m) # 0
                      /\ \A n \in Nodes : Linked(m, n) =>
                           \E i \in DOMAIN all : all[i].name = n /\ all[i].previous = FirstHop(all, m)
    BY DEF SeenInv
  <2>1. CASE m \in seen
    <3>1. m \in Nodes /\ Known(m) /\ FirstHop(hops, m) # 0
      BY <1>1, <2>1 DEF SeenInv
    <3>2. FirstHop(all, m) = FirstHop(hops, m)
      BY <1>6, <3>1
    <3>3. ASSUME NEW n \in Nodes, Linked(m, n)
          PROVE  \E i \in DOMAIN all : all[i].name = n /\ all[i].previous = FirstHop(all, m)
      <4>1. PICK i \in DOMAIN hops : hops[i].name = n /\ hops[i].previous = FirstHop(hops, m)
        BY <1>1, <2>1, <3>3 DEF SeenInv
      <4> QED
        BY <1>14, <3>2, <4>1
    <3> QED
      BY <3>1, <3>2, <3>3
  <2>2. CASE m = next
    <3>1. FirstHop(all, next) = f
      BY <1>4, <1>6 DEF f
    <3> QED
      BY <1>2, <1>4, <1>12, <1>13, <2>2, <3>1
  <2> QED
    BY <2>1, <2>2
<1>20. WaitingInv(all, rest, seen \cup {next}, e)
  \* The level of those that waited, and of those that are added.
  <2>1. \A k \in DOMAIN waiting : /\ Known(waiting[k]) /\ FirstHop(all, waiting[k]) # 0
                                  /\ FirstHop(all, waiting[k]) = FirstHop(hops, waiting[k])
                                  /\ FirstHop(hops, waiting[k]) \in DOMAIN hops
    <3> TAKE k \in DOMAIN waiting
    <3>1. Known(waiting[k]) /\ FirstHop(hops, waiting[k]) # 0
      BY <1>1 DEF WaitingInv
    <3> QED
      BY <1>3, <1>6, <3>1, FirstHopIs
  <2>2. \A k \in DOMAIN waiting : e[FirstHop(all, waiting[k])] = d[FirstHop(hops, waiting[k])]
    BY <1>14, <2>1
  <2>3. \A k \in DOMAIN more : Known(more[k]) /\ FirstHop(all, more[k]) # 0
                               /\ FirstHop(all, more[k]) \in DOMAIN all
                               /\ e[FirstHop(all, more[k])] = d[f] + 1
    <3> TAKE k \in DOMAIN more
    <3> DEFINE m == more[k]
               g == FirstHop(all, m)
    <3>1. Linked(next, m) /\ Known(m) /\ ~Contains(waiting, m) /\ m \notin seen
      BY <1>7
    <3>2. m \notin ToSet(waiting)
      BY <1>2, <3>1 DEF Contains, ToSet
    <3>3. \A i \in DOMAIN hops : hops[i].name # m
      BY <1>1, <3>1, <3>2 DEF WaitingInv
    <3>4. PICK i \in DOMAIN all : all[i].name = m
      BY <1>13, <3>1
    <3>5. g # 0 /\ g \in DOMAIN all /\ all[g].name = m
      BY <1>6, <3>4, FirstHopIs
    <3>6. g > Len(hops)
      BY <1>14, <1>16, <3>3, <3>5
    <3> HIDE DEF g
    <3>7. e[g] = d[f] + 1
      BY <1>12, <3>5, <3>6
    <3> QED
      BY <3>1, <3>5, <3>7 DEF g
  <2>4. \A k \in DOMAIN rest : Known(rest[k]) /\ FirstHop(all, rest[k]) # 0
    <3> TAKE k \in DOMAIN rest
    <3>1. CASE k + 1 \in DOMAIN waiting /\ rest[k] = waiting[k + 1]
      BY <2>1, <3>1
    <3>2. CASE k + 1 - Len(waiting) \in DOMAIN more /\ rest[k] = more[k + 1 - Len(waiting)]
      BY <2>3, <3>2
    <3> QED
      BY <1>17, <3>1, <3>2
  <2>5. \A k \in DOMAIN waiting : d[FirstHop(hops, waiting[k])] <= d[f] + 1
                                  /\ d[f] <= d[FirstHop(hops, waiting[k])]
    <3> TAKE k \in DOMAIN waiting
    <3>1. \A i \in DOMAIN hops : d[i] <= d[f] + 1
      BY <1>1, <1>2 DEF WaitingInv, f
    <3>2. 1 <= k
      BY <1>2
    <3>3. d[FirstHop(hops, waiting[1])] <= d[FirstHop(hops, waiting[k])]
      BY <1>1, <1>2, <3>2 DEF WaitingInv
    <3> QED
      BY <1>2, <2>1, <3>1, <3>3 DEF f
  <2>6. ASSUME NEW k \in DOMAIN rest, NEW l \in DOMAIN rest, k <= l
        PROVE  e[FirstHop(all, rest[k])] <= e[FirstHop(all, rest[l])]
    <3> DEFINE lk == k + 1
               ll == l + 1
               mk == k + 1 - Len(waiting)
               ml == l + 1 - Len(waiting)
    <3>1. /\ \/ lk \in DOMAIN waiting /\ rest[k] = waiting[lk]
             \/ mk \in DOMAIN more /\ rest[k] = more[mk] /\ lk > Len(waiting)
          /\ \/ ll \in DOMAIN waiting /\ rest[l] = waiting[ll]
             \/ ml \in DOMAIN more /\ rest[l] = more[ml] /\ ll > Len(waiting)
      BY <1>17
    <3>2. lk <= ll /\ (ll \in DOMAIN waiting => ll <= Len(waiting)) /\ lk \in Nat /\ ll \in Nat
      BY <1>2, <1>17, <2>6
    <3>3. Len(waiting) \in Nat
      BY <1>2
    <3> HIDE DEF lk, ll, mk, ml
    <3>4. CASE ll \in DOMAIN waiting /\ rest[l] = waiting[ll]
      <4>1. lk \in DOMAIN waiting /\ rest[k] = waiting[lk]
        BY <3>1, <3>2, <3>3, <3>4
      <4>2. d[FirstHop(hops, waiting[lk])] <= d[FirstHop(hops, waiting[ll])]
        BY <1>1, <3>2, <3>4, <4>1 DEF WaitingInv
      <4> QED
        BY <2>2, <3>4, <4>1, <4>2
    <3>5. CASE ml \in DOMAIN more /\ rest[l] = more[ml]
      <4>1. e[FirstHop(all, rest[l])] = d[f] + 1
        BY <2>3, <3>5
      <4>2. e[FirstHop(all, rest[k])] <= d[f] + 1
        BY <1>5, <1>15, <2>2, <2>3, <2>5, <3>1
      <4> QED
        BY <4>1, <4>2
    <3> QED
      BY <3>1, <3>4, <3>5
  <2>7. ASSUME rest # <<>>, NEW i \in DOMAIN all
        PROVE  e[i] <= e[FirstHop(all, rest[1])] + 1
    <3>1. 1 \in DOMAIN rest
      BY <1>17, <2>7
    <3>2. e[FirstHop(all, rest[1])] >= d[f] /\ e[FirstHop(all, rest[1])] \in Nat
      <4>1. CASE 1 + 1 \in DOMAIN waiting /\ rest[1] = waiting[1 + 1]
        BY <1>15, <2>1, <2>2, <2>5, <4>1
      <4>2. CASE 1 + 1 - Len(waiting) \in DOMAIN more /\ rest[1] = more[1 + 1 - Len(waiting)]
        BY <1>5, <1>15, <2>3, <4>2
      <4> QED
        BY <1>17, <3>1, <4>1, <4>2
    <3>3. e[i] <= d[f] + 1
      <4>1. CASE i \in DOMAIN hops
        BY <1>1, <1>2, <1>14, <4>1 DEF WaitingInv, f
      <4>2. CASE i > Len(hops)
        BY <1>5, <1>12, <1>15, <4>2
      <4> QED
        BY <1>16, <4>1, <4>2
    <3> QED
      BY <1>5, <1>15, <3>2, <3>3
  <2>8. ASSUME NEW m, m = next \/ m \in ToSet(waiting) \/ m \in ToSet(more)
        PROVE  m = next \/ m \in ToSet(rest)
    <3>1. CASE m \in ToSet(waiting)
      <4>1. PICK k \in DOMAIN waiting : waiting[k] = m
        BY <3>1 DEF ToSet
      <4>2. CASE k = 1
        BY <1>2, <4>1, <4>2
      <4>3. CASE k > 1
        BY <1>17, <4>1, <4>3 DEF ToSet
      <4> QED
        BY <1>2, <4>2, <4>3
    <3>2. CASE m \in ToSet(more)
      BY <1>17, <3>2 DEF ToSet
    <3> QED
      BY <2>8, <3>1, <3>2
  <2>9. ASSUME NEW i \in DOMAIN all, Known(all[i].name)
        PROVE  all[i].name \in (seen \cup {next}) \cup ToSet(rest)
    <3>1. CASE i \in DOMAIN hops
      <4>1. hops[i].name \in seen \cup ToSet(waiting)
        BY <1>1, <1>14, <2>9, <3>1 DEF WaitingInv
      <4> QED
        BY <1>14, <2>8, <3>1, <4>1
    <3>2. CASE i > Len(hops)
      <4> DEFINE m == all[i].name
      <4>1. Linked(next, m) /\ Known(m)
        BY <1>12, <2>9, <3>2
      <4>2. CASE Contains(waiting, m)
        <5>1. m \in ToSet(waiting)
          BY <1>2, <4>2 DEF Contains, ToSet
        <5> QED
          BY <2>8, <5>1
      <4>3. CASE m \in seen
        BY <4>3
      <4>4. CASE ~Contains(waiting, m) /\ m \notin seen
        <5>1. m \in ToSet(more)
          BY <1>7, <4>1, <4>4
        <5> QED
          BY <2>8, <5>1
      <4> QED
        BY <4>2, <4>3, <4>4
    <3> QED
      BY <1>16, <3>1, <3>2
  <2> QED
    BY <1>17, <2>4, <2>6, <2>7, <2>9 DEF WaitingInv
<1> QED
  BY <1>18, <1>19, <1>20 DEF SearchInv, next, all, more, rest

\* The search begins as if the own node waited for its turn.
LEMMA SearchBegins ==
    ASSUME NodesInv, Known(Own)
    PROVE  LET root == <<[name |-> Own, latency |-> 0, previous |-> 0]>>
           IN  \E e : SearchInv(OneStepTraverse(Own, root), GetTraversalNodes(Own, <<>>, {Own}), {Own}, e)
<1> DEFINE h == [name |-> Own, latency |-> 0, previous |-> 0]
           root == <<h>>
           d == [i \in DOMAIN root |-> 0]
<1>1. Own \in Nodes
  BY PlacementAssumption
<1>2. h \in Hop /\ h.name = Own /\ h.previous = 0
  BY <1>1 DEF Hop
<1> HIDE DEF h
<1>3. root \in Seq(Hop) /\ Len(root) = 1 /\ DOMAIN root = {1} /\ root[1] = h
  BY <1>2
<1>4. d \in [DOMAIN root -> Nat] /\ d[1] = 0
  BY <1>3
<1>5. <<Own>> \in Seq(Nodes) /\ Len(<<Own>>) = 1 /\ DOMAIN <<Own>> = {1} /\ <<Own>>[1] = Own
      /\ Head(<<Own>>) = Own /\ <<Own>> # <<>>
  BY <1>1
<1> HIDE DEF root, d
<1>6. FirstHop(root, Own) = 1
  BY <1>2, <1>3, FirstHopUnique
<1>7. HopsInv(root, {}, d)
  BY <1>2, <1>3, <1>4 DEF HopsInv
<1>8. SeenInv(root, {})
  BY DEF SeenInv
<1>9. WaitingInv(root, <<Own>>, {}, d)
  <2>1. Own \in ToSet(<<Own>>)
    BY <1>5 DEF ToSet
  <2> DEFINE w == <<Own>>
  <2>2. w \in Seq(Nodes) /\ DOMAIN w = {1} /\ w[1] = Own /\ Own \in ToSet(w)
    BY <1>5, <2>1
  <2> HIDE DEF w
  <2>3. WaitingInv(root, w, {}, d)
    BY <1>2, <1>3, <1>4, <1>6, <2>2 DEF WaitingInv
  <2> QED
    BY <2>3 DEF w
<1>10. SearchInv(root, <<Own>>, {}, d)
  BY <1>7, <1>8, <1>9 DEF SearchInv
<1> DEFINE more == GetTraversalNodes(Own, <<Own>>, {})
<1>11. \E e : SearchInv(OneStepTraverse(Own, root), Tail(<<Own>> \o more), {} \cup {Own}, e)
  <2>1. \E e : SearchInv(OneStepTraverse(Head(<<Own>>), root),
                         Tail(<<Own>> \o GetTraversalNodes(Head(<<Own>>), <<Own>>, {})),
                         {} \cup {Head(<<Own>>)}, e)
    BY <1>5, <1>10, TraverseStep
  <2> QED
    BY <1>5, <2>1
<1>12. more = GetTraversalNodes(Own, <<>>, {Own})
  <2>1. \A m : (~Contains(<<Own>>, m) /\ m \notin {}) <=> (~Contains(<<>>, m) /\ m \notin {Own})
    BY DEF Contains
  <2>2. {i \in DOMAIN Links(Own) : /\ Known(Links(Own)[i].node)
                                   /\ ~Contains(<<Own>>, Links(Own)[i].node)
                                   /\ Links(Own)[i].node \notin {}}
        = {i \in DOMAIN Links(Own) : /\ Known(Links(Own)[i].node)
                                     /\ ~Contains(<<>>, Links(Own)[i].node)
                                     /\ Links(Own)[i].node \notin {Own}}
    BY <2>1
  <2> QED
    BY <2>2 DEF GetTraversalNodes
<1>13. Tail(<<Own>> \o more) = more
  <2>1. more \in Seq(Nodes)
    BY GetTraversalNodesIs
  <2> HIDE DEF more
  <2>2. /\ <<Own>> \o more \in Seq(Nodes) /\ Len(<<Own>> \o more) = 1 + Len(more)
        /\ \A i \in 1 .. 1 + Len(more) : (<<Own>> \o more)[i] = IF i <= 1 THEN Own ELSE more[i - 1]
    BY <1>5, <2>1, ConcatProperties
  <2> DEFINE w == <<Own>> \o more
  <2>3. w # <<>> /\ Len(more) \in Nat
    BY <2>1, <2>2
  <2> HIDE DEF w
  <2>4. /\ Tail(w) \in Seq(Nodes) /\ Len(Tail(w)) = Len(w) - 1
        /\ \A i \in 1 .. Len(Tail(w)) : Tail(w)[i] = w[i + 1]
    BY <2>2, <2>3, HeadTailProperties DEF w
  <2>5. \A i \in 1 .. Len(more) : Tail(w)[i] = more[i]
    BY <2>2, <2>3, <2>4 DEF w
  <2>6. Len(Tail(w)) = Len(more)
    BY <2>2, <2>3, <2>4 DEF w
  <2>7. Tail(w) = more
    BY <2>1, <2>4, <2>5, <2>6, SeqEqual
  <2> QED
    BY <2>7 DEF w
<1>14. {} \cup {Own} = {Own}
  OBVIOUS
<1> HIDE DEF more
<1> QED
  BY <1>11, <1>12, <1>13, <1>14 DEF root, h

-----------------------------------------------------------------------------
(***************************************************************************)
(* Paths.                                                                  *)
(***************************************************************************)
\* What is known of a node stays while the states of the nodes do.
LEMMA NodesStay ==
    ASSUME UNCHANGED allNodes
    PROVE  \A n : /\ Known(n)' = Known(n) /\ InfoOf(n)' = InfoOf(n)
                  /\ Links(n)' = Links(n) /\ \A m : Linked(n, m)' = Linked(n, m)
<1> TAKE n
<1>1. Known(n)' = Known(n)
  BY DEF Known
<1>2. InfoOf(n)' = InfoOf(n)
  BY DEF InfoOf
<1>3. Links(n)' = Links(n)
  BY <1>2 DEF Links
<1>4. \A m : Linked(n, m)' = Linked(n, m)
  BY <1>1, <1>3 DEF Linked
<1> QED
  BY <1>1, <1>2, <1>3, <1>4

\* So the invariant of the search is that of the next state as well.
LEMMA SearchCarries ==
    ASSUME UNCHANGED allNodes, NEW d,
           SearchInv(hopInfo', traversalNodes', traversedNodes', d)
    PROVE  SearchInv(hopInfo, traversalNodes, traversedNodes, d)'
<1>1. HopsInv(hopInfo, traversedNodes, d)'
  <2>1. HopsInv(hopInfo', traversedNodes', d)
    BY DEF SearchInv
  <2>2. \A n, m : Linked(n, m)' = Linked(n, m)
    BY NodesStay
  <2> QED
    BY ONLY <2>1, <2>2 DEF HopsInv
<1>2. SeenInv(hopInfo, traversedNodes)'
  BY NodesStay DEF SearchInv, SeenInv
<1>3. WaitingInv(hopInfo, traversalNodes, traversedNodes, d)'
  BY NodesStay DEF SearchInv, WaitingInv
<1> QED
  BY <1>1, <1>2, <1>3 DEF SearchInv

\* The hop before a hop is an earlier one, the first of its node, one level up;
\* only the own node has none.
LEMMA PreviousHop ==
    ASSUME NEW d, HopsInv(hopInfo, traversedNodes, d), NEW i \in DOMAIN hopInfo
    PROVE  LET p == hopInfo[i].previous IN
           /\ p = 0 <=> i = 1
           /\ p # 0 => /\ p \in DOMAIN hopInfo /\ p < i
                       /\ p = FirstHop(hopInfo, hopInfo[p].name)
                       /\ hopInfo[p].name \in traversedNodes
                       /\ Linked(hopInfo[p].name, hopInfo[i].name)
                       /\ d[i] = d[p] + 1
           /\ d[i] \in Nat
<1>1. DOMAIN hopInfo = 1 .. Len(hopInfo) /\ Len(hopInfo) \in Nat /\ d[i] \in Nat
  BY DEF HopsInv
<1>2. CASE i = 1
  BY <1>1, <1>2 DEF HopsInv
<1>3. CASE i # 1
  <2>1. i \in 2 .. Len(hopInfo)
    BY <1>1, <1>3
  <2> DEFINE p == hopInfo[i].previous
  <2>2. /\ p \in 1 .. i - 1 /\ p = FirstHop(hopInfo, hopInfo[p].name)
        /\ hopInfo[p].name \in traversedNodes
        /\ Linked(hopInfo[p].name, hopInfo[i].name)
        /\ d[i] = d[p] + 1
    BY <2>1 DEF HopsInv
  <2> HIDE DEF p
  <2>3. p # 0 /\ p \in DOMAIN hopInfo /\ p < i
    BY <1>1, <2>1, <2>2
  <2> QED
    BY <1>1, <1>3, <2>2, <2>3 DEF p
<1> QED
  BY <1>2, <1>3

\* A path does not turn back at the first hop of a node.
LEMMA FirstHopGoesOn ==
    ASSUME NEW d, HopsInv(hopInfo, traversedNodes, d), NEW h \in DOMAIN hopInfo,
           h = FirstHop(hopInfo, hopInfo[h].name)
    PROVE  ~TurnsBack(h)
<1> SUFFICES ASSUME TurnsBack(h) PROVE FALSE
  OBVIOUS
<1> DEFINE p == hopInfo[h].previous
           pp == hopInfo[p].previous
<1>1. p # 0 /\ pp # 0 /\ hopInfo[pp].name = hopInfo[h].name
  BY DEF TurnsBack
<1>2. p \in DOMAIN hopInfo /\ p < h
  BY <1>1, PreviousHop
<1>3. pp \in DOMAIN hopInfo /\ pp < p
  BY <1>1, <1>2, PreviousHop
<1>4. hopInfo \in Seq(Hop)
  BY DEF HopsInv
<1>5. h <= pp
  BY <1>1, <1>3, <1>4, FirstHopIs
<1> QED
  BY <1>2, <1>3, <1>4, <1>5

\* The start of a path is a hop at which it does not turn back.
LEMMA StartGoesOn ==
    ASSUME NEW d, HopsInv(hopInfo, traversedNodes, d), NEW i \in DOMAIN hopInfo
    PROVE  Start(i) \in DOMAIN hopInfo /\ ~TurnsBack(Start(i))
<1>1. CASE TurnsBack(i)
  <2>1. hopInfo[i].previous # 0 /\ Start(i) = hopInfo[i].previous
    BY <1>1 DEF TurnsBack, Start
  <2> QED
    BY <2>1, PreviousHop, FirstHopGoesOn
<1>2. CASE ~TurnsBack(i)
  BY <1>2 DEF Start
<1> QED
  BY <1>1, <1>2

\* Adapted weights are weights: they share the whole between them.
LEMMA AdaptIs ==
    ASSUME NEW w \in Weights, w.energy + w.bdp \in {0, 10}, NEW battery \in Nat, NEW latency \in Nat
    PROVE  LET new == Adapt(w, battery, latency) IN
           /\ new \in Weights /\ new.energy + new.bdp \in {0, 10}
           /\ new.hop = w.hop /\ new.nodes = w.nodes /\ new.cost = w.cost
<1>1. EnergyWeight \in 0 .. 10 /\ BdpWeight \in 0 .. 10 /\ EnergyWeight + BdpWeight = 10
  BY PlacementAssumption
<1>2. w.energy \in 0 .. 10 /\ w.bdp \in 0 .. 10 /\ w.lastEnergy \in Nat /\ w.lastBdp \in Nat
  BY DEF Weights
<1> DEFINE first == [w EXCEPT !.energy = EnergyWeight, !.bdp = BdpWeight]
           up    == [w EXCEPT !.energy = @ + 1, !.bdp = @ - 1]
           down  == [w EXCEPT !.energy = @ - 1, !.bdp = @ + 1]
<1>3. /\ first \in Weights /\ first.energy = EnergyWeight /\ first.bdp = BdpWeight
      /\ first.hop = w.hop /\ first.nodes = w.nodes /\ first.cost = w.cost
  BY <1>1 DEF Weights
<1>4. w.energy < 10 /\ w.bdp > 0 =>
      /\ up \in Weights /\ up.energy + up.bdp = w.energy + w.bdp
      /\ up.hop = w.hop /\ up.nodes = w.nodes /\ up.cost = w.cost
  <2> SUFFICES ASSUME w.energy < 10 /\ w.bdp > 0
               PROVE  /\ up \in Weights /\ up.energy = w.energy + 1 /\ up.bdp = w.bdp - 1
                      /\ up.hop = w.hop /\ up.nodes = w.nodes /\ up.cost = w.cost
    BY <1>2
  <2>1. w.energy + 1 \in 0 .. 10 /\ w.bdp - 1 \in 0 .. 10
    BY <1>2
  <2> QED
    BY <2>1 DEF Weights
<1>5. w.energy > 0 /\ w.bdp < 10 =>
      /\ down \in Weights /\ down.energy + down.bdp = w.energy + w.bdp
      /\ down.hop = w.hop /\ down.nodes = w.nodes /\ down.cost = w.cost
  <2> SUFFICES ASSUME w.energy > 0 /\ w.bdp < 10
               PROVE  /\ down \in Weights /\ down.energy = w.energy - 1 /\ down.bdp = w.bdp + 1
                      /\ down.hop = w.hop /\ down.nodes = w.nodes /\ down.cost = w.cost
    BY <1>2
  <2>1. w.energy - 1 \in 0 .. 10 /\ w.bdp + 1 \in 0 .. 10
    BY <1>2
  <2> QED
    BY <2>1 DEF Weights
<1>6. \/ Adapt(w, battery, latency) = w
      \/ Adapt(w, battery, latency) = first
      \/ w.energy < 10 /\ w.bdp > 0 /\ Adapt(w, battery, latency) = up
      \/ w.energy > 0 /\ w.bdp < 10 /\ Adapt(w, battery, latency) = down
  BY DEF Adapt
<1> HIDE DEF first, up, down
<1> QED
  BY <1>1, <1>3, <1>4, <1>5, <1>6

\* A hop that is weighed changes neither the hop nor the nodes, and costs are
\* never negative.
LEMMA WeighIs ==
    ASSUME NodesInv, NEW w \in Weights, w.energy + w.bdp \in {0, 10}, NEW h \in Hop
    PROVE  LET new == Weigh(w, h) IN
           /\ new \in Weights /\ new.energy + new.bdp \in {0, 10}
           /\ new.hop = w.hop /\ new.nodes = w.nodes
<1>1. CASE ~Known(h.name)
  BY <1>1 DEF Weigh
<1>2. CASE Known(h.name)
  <2> DEFINE battery == InfoOf(h.name).battery
             a == Adapt(w, battery, h.latency)
             more == battery * a.energy + h.latency * a.bdp
             new == [a EXCEPT !.cost = @ + battery * a.energy + h.latency * a.bdp,
                              !.lastEnergy = battery, !.lastBdp = h.latency]
  <2>1. battery \in Nat /\ h.latency \in Nat
    BY <1>2, InfoIs DEF Info, Hop
  <2>2. Weigh(w, h) = new
    <3>1. Weigh(w, h) = IF ~Known(h.name) THEN w ELSE new
      BY DEF Weigh
    <3> HIDE DEF new
    <3> QED
      BY <1>2, <3>1
  <2> HIDE DEF battery
  <2>3. /\ a \in Weights /\ a.energy + a.bdp \in {0, 10}
        /\ a.hop = w.hop /\ a.nodes = w.nodes /\ a.cost = w.cost
    <3>1. w \in Weights /\ w.energy + w.bdp \in {0, 10}
      OBVIOUS
    <3> QED
      BY ONLY <2>1, <3>1, AdaptIs
  <2> HIDE DEF a
  <2>4. a.energy \in Nat /\ a.bdp \in Nat /\ a.cost \in Nat
    <3> HIDE DEF new, more
    <3>1. a \in Weights
      BY <2>3
    <3>2. a.energy \in 0 .. 10 /\ a.bdp \in 0 .. 10 /\ a.cost \in Nat
      BY ONLY <3>1 DEF Weights
    <3> QED
      BY ONLY <3>2
  <2>5. battery * a.energy \in Nat /\ h.latency * a.bdp \in Nat
    BY <2>1, <2>4
  <2>6. a.cost + battery * a.energy + h.latency * a.bdp \in Nat
    <3> DEFINE x == battery * a.energy
               y == h.latency * a.bdp
    <3>1. x \in Nat /\ y \in Nat
      BY <2>5
    <3> HIDE DEF x, y
    <3>2. a.cost + x + y \in Nat
      BY <2>4, <3>1
    <3> QED
      BY <3>2 DEF x, y
  <2> DEFINE cost == a.cost + battery * a.energy + h.latency * a.bdp
  <2>7. new = [a EXCEPT !.cost = cost, !.lastEnergy = battery, !.lastBdp = h.latency]
    BY <2>3 DEF Weights
  <2>8. cost \in Nat
    BY <2>6
  <2> HIDE DEF cost, new
  <2>9. /\ new \in Weights /\ new.energy = a.energy /\ new.bdp = a.bdp
        /\ new.hop = a.hop /\ new.nodes = a.nodes
    BY <2>1, <2>3, <2>7, <2>8 DEF Weights
  <2> QED
    BY <2>2, <2>3, <2>9
<1> QED
  BY <1>1, <1>2

\* What a turn of the loop of checkPath does to the path under way.
LEMMA CheckHopIs ==
    ASSUME NodesInv, CostInv, hopInfo \in Seq(Hop), check.hop \in DOMAIN hopInfo, CheckHop
    PROVE  /\ CostInv'
           /\ hopInfo[check.hop].previous # 0
           /\ check'.hop = hopInfo[check.hop].previous
           /\ check'.nodes = IF TurnsBack(check.hop) THEN check.nodes
                             ELSE Append(check.nodes, hopInfo[check.hop].name)
<1> DEFINE h == hopInfo[check.hop]
           v == Weigh(check, h)
           u == [v EXCEPT !.nodes = Append(@, h.name)]
<1>1. check \in Weights /\ check.energy + check.bdp \in {0, 10}
  BY DEF CostInv
<1>2. h \in Hop /\ h.name \in Nodes /\ h.previous \in Nat
  <2>1. h \in Hop
    OBVIOUS
  <2> HIDE DEF h
  <2> QED
    BY <2>1 DEF Hop
<1>3. h.previous # 0 /\ paths' = paths
  BY DEF CheckHop
<1>4. check' = [IF TurnsBack(check.hop) THEN check ELSE u EXCEPT !.hop = hopInfo[@].previous]
  BY DEF CheckHop
<1> HIDE DEF h
<1>5. v \in Weights /\ v.energy + v.bdp \in {0, 10} /\ v.hop = check.hop /\ v.nodes = check.nodes
  BY <1>1, <1>2, WeighIs
<1> HIDE DEF v
<1>6. v.nodes \in Seq(Nodes) /\ Append(v.nodes, h.name) \in Seq(Nodes)
  BY <1>2, <1>5 DEF Weights
<1>7. /\ u \in Weights /\ u.energy = v.energy /\ u.bdp = v.bdp
      /\ u.hop = v.hop /\ u.nodes = Append(v.nodes, h.name)
  BY <1>5, <1>6 DEF Weights
<1> HIDE DEF u
<1> DEFINE x == IF TurnsBack(check.hop) THEN check ELSE u
<1>8. /\ x \in Weights /\ x.energy + x.bdp \in {0, 10} /\ x.hop = check.hop
      /\ x.nodes = IF TurnsBack(check.hop) THEN check.nodes ELSE Append(check.nodes, h.name)
  BY <1>1, <1>5, <1>7
<1>9. check' = [x EXCEPT !.hop = hopInfo[@].previous]
  BY <1>4
<1> HIDE DEF x
<1>10. check' = [x EXCEPT !.hop = h.previous]
  BY <1>8, <1>9 DEF Weights, h
<1>11. /\ check' \in Weights /\ check'.energy = x.energy /\ check'.bdp = x.bdp
       /\ check'.hop = h.previous /\ check'.nodes = x.nodes
  BY <1>2, <1>8, <1>10 DEF Weights
<1>12. CostInv'
  <2>1. check'.energy + check'.bdp \in {0, 10}
    BY <1>8, <1>11
  <2> QED
    BY <1>3, <1>11, <2>1 DEF CostInv, Weights
<1> QED
  BY <1>3, <1>8, <1>11, <1>12 DEF h

\* Paths and their chains are the same while the hops are.
LEMMA PathsStay ==
    ASSUME UNCHANGED hopInfo
    PROVE  /\ \A i : TurnsBack(i)' = TurnsBack(i) /\ Start(i)' = Start(i)
           /\ \A c, i, d : Chain(c, i, d)' = Chain(c, i, d)
           /\ \A c, i, h, d : Checked(c, i, h, d)' = Checked(c, i, h, d)
           /\ \A c : NamesOf(c)' = NamesOf(c)
BY DEF TurnsBack, Start, Chain, Checked, NamesOf

\* The hop at which the check is goes to the end of the part that was checked.
LEMMA ChainGrows ==
    ASSUME NEW d, HopsInv(hopInfo, traversedNodes, d), NEW i \in DOMAIN hopInfo, NEW c,
           NEW h \in DOMAIN hopInfo,
           Checked(c, i, h, d), ~TurnsBack(h)
    PROVE  LET more == Append(c, h) IN
           /\ more \in Seq(DOMAIN hopInfo) /\ Len(more) = Len(c) + 1 /\ Len(c) \in Nat
           /\ more[1] = Start(i) /\ more[Len(more)] = h
           /\ \A k \in 1 .. Len(more) - 1 : hopInfo[more[k]].previous = more[k + 1]
           /\ \A k \in DOMAIN more : d[more[k]] = d[h] + Len(more) - k
           /\ NamesOf(more) = Append(NamesOf(c), hopInfo[h].name)
<1> DEFINE more == Append(c, h)
<1>1. c \in Seq(DOMAIN hopInfo) /\ Len(c) \in Nat /\ DOMAIN c = 1 .. Len(c)
  BY DEF Checked
<1>2. /\ more \in Seq(DOMAIN hopInfo) /\ Len(more) = Len(c) + 1
      /\ \A k \in 1 .. Len(c) : more[k] = c[k]
      /\ more[Len(c) + 1] = h
  BY <1>1, AppendProperties
<1>3. DOMAIN more = 1 .. Len(c) + 1
  BY <1>1, <1>2
<1> HIDE DEF more
<1>4. d[h] \in Nat
  BY PreviousHop
<1>5. more[1] = Start(i)
  <2>1. CASE c = <<>>
    <3>1. h \in {i, Start(i)} /\ (h = i => Start(i) = i)
      BY <2>1 DEF Checked, Start
    <3>2. Len(c) = 0
      BY <2>1
    <3> QED
      BY <1>2, <3>1, <3>2
  <2>2. CASE c # <<>>
    <3>1. c[1] = Start(i)
      BY <2>2 DEF Checked
    <3>2. 1 \in 1 .. Len(c)
      BY <1>1, <2>2
    <3> QED
      BY <1>2, <3>1, <3>2
  <2> QED
    BY <2>1, <2>2
<1>6. ASSUME NEW k \in 1 .. Len(more) - 1
      PROVE  hopInfo[more[k]].previous = more[k + 1]
  <2>1. k \in 1 .. Len(c) /\ k + 1 \in 1 .. Len(c) + 1
    BY <1>1, <1>2
  <2>2. CASE k = Len(c)
    <3>1. c # <<>>
      BY <2>1, <2>2
    <3>2. hopInfo[c[Len(c)]].previous = h
      BY <3>1 DEF Checked
    <3> QED
      BY <1>2, <2>1, <2>2, <3>2
  <2>3. CASE k < Len(c)
    <3>1. k \in 1 .. Len(c) - 1 /\ k + 1 \in 1 .. Len(c)
      BY <1>1, <2>1, <2>3
    <3>2. hopInfo[c[k]].previous = c[k + 1]
      BY <3>1 DEF Checked
    <3> QED
      BY <1>2, <3>1, <3>2, <2>1
  <2>4. k = Len(c) \/ k < Len(c)
    <3>1. \A x \in Nat : \A y \in 1 .. x : y = x \/ y < x
      OBVIOUS
    <3> QED
      BY <1>1, <2>1, <3>1
  <2> QED
    BY <2>2, <2>3, <2>4
<1>7. ASSUME NEW k \in DOMAIN more
      PROVE  d[more[k]] = d[h] + Len(more) - k
  <2>1. CASE k = Len(c) + 1
    BY <1>1, <1>2, <1>4, <2>1
  <2>2. CASE k \in 1 .. Len(c)
    <3>1. d[c[k]] = d[h] + Len(c) - k + 1
      BY <1>1, <2>2 DEF Checked
    <3>2. \A x, y, z \in Int : x + y - z + 1 = x + (y + 1) - z
      OBVIOUS
    <3>3. k \in Int /\ Len(c) \in Int /\ d[h] \in Int
      BY <1>1, <1>4, <2>2
    <3> QED
      <4>1. d[h] + Len(c) - k + 1 = d[h] + (Len(c) + 1) - k
        BY <3>2, <3>3
      <4>2. more[k] = c[k] /\ Len(more) = Len(c) + 1
        BY <1>2, <2>2
      <4> QED
        BY <3>1, <4>1, <4>2
  <2> QED
    BY <1>1, <1>3, <2>1, <2>2
<1>8. NamesOf(more) = Append(NamesOf(c), hopInfo[h].name)
  <2> DEFINE n == hopInfo[h].name
             S == {hopInfo[j].name : j \in DOMAIN hopInfo}
  <2>1. n \in S
    OBVIOUS
  <2>2. \A k \in DOMAIN c : NamesOf(c)[k] = hopInfo[c[k]].name /\ NamesOf(c)[k] \in S
    BY <1>1 DEF NamesOf
  <2>3. \A k \in DOMAIN more : NamesOf(more)[k] = hopInfo[more[k]].name /\ NamesOf(more)[k] \in S
    BY <1>2 DEF NamesOf
  <2>4. NamesOf(c) = [k \in 1 .. Len(c) |-> NamesOf(c)[k]]
        /\ NamesOf(more) = [k \in 1 .. Len(c) + 1 |-> NamesOf(more)[k]]
    BY <1>1, <1>3 DEF NamesOf
  <2> HIDE DEF S, n
  <2>5. NamesOf(c) \in Seq(S) /\ Len(NamesOf(c)) = Len(c)
    BY <1>1, <2>2, <2>4
  <2>6. NamesOf(more) \in Seq(S) /\ Len(NamesOf(more)) = Len(c) + 1
    BY <1>1, <1>3, <2>3, <2>4
  <2>7. /\ Append(NamesOf(c), n) \in Seq(S) /\ Len(Append(NamesOf(c), n)) = Len(c) + 1
        /\ \A k \in 1 .. Len(c) : Append(NamesOf(c), n)[k] = NamesOf(c)[k]
        /\ Append(NamesOf(c), n)[Len(c) + 1] = n
    BY <2>1, <2>5, AppendProperties
  <2>8. \A k \in 1 .. Len(c) + 1 : NamesOf(more)[k] = Append(NamesOf(c), n)[k]
    <3> TAKE k \in 1 .. Len(c) + 1
    <3>1. CASE k = Len(c) + 1
      BY <1>1, <1>2, <1>3, <2>3, <2>7, <3>1 DEF n
    <3>2. CASE k \in 1 .. Len(c)
      BY <1>1, <1>2, <1>3, <2>2, <2>3, <2>7, <3>2
    <3>3. k = Len(c) + 1 \/ k \in 1 .. Len(c)
      BY <1>1
    <3> QED
      BY <3>1, <3>2, <3>3
  <2>9. NamesOf(more) = Append(NamesOf(c), n)
    BY <2>6, <2>7, <2>8, SeqEqual
  <2> QED
    BY <2>9 DEF n
<1> QED
  BY <1>1, <1>2, <1>5, <1>6, <1>7, <1>8 DEF more

\* A turn of the loop of checkPath goes on along the path.
LEMMA CheckHopKeeps ==
    ASSUME NodesInv, CostInv, NEW d, Searched(d), CheckHop
    PROVE  CostInv' /\ Searched(d)'
<1> DEFINE i == Len(paths) + 1
           h == check.hop
           p == hopInfo[h].previous
<1>1. /\ HopsInv(hopInfo, traversedNodes, d) /\ PathsInv(d) /\ CheckInv(d)
      /\ SearchInv(hopInfo, traversalNodes, traversedNodes, d)
  BY DEF Searched, SearchInv
<1>2. /\ traversalNodes = <<>> /\ Len(paths) < Len(hopInfo)
      /\ UNCHANGED <<allNodes, hopInfo, traversalNodes, traversedNodes, paths>>
  BY DEF CheckHop, PathsLeft
<1>3. hopInfo \in Seq(Hop) /\ paths \in Seq([nodes : Seq(Nodes), cost : Nat])
  BY <1>1 DEF HopsInv, CostInv
<1>4. i \in DOMAIN hopInfo /\ DOMAIN hopInfo = 1 .. Len(hopInfo)
  BY <1>2, <1>3
<1>5. h \in DOMAIN hopInfo
  BY <1>1, <1>2 DEF CheckInv
<1>6. PICK c \in Seq(DOMAIN hopInfo) : Checked(c, i, h, d) /\ check.nodes = NamesOf(c)
  BY <1>1, <1>2 DEF CheckInv
<1>7. /\ CostInv' /\ p # 0 /\ check'.hop = p
      /\ check'.nodes = IF TurnsBack(h) THEN check.nodes ELSE Append(check.nodes, hopInfo[h].name)
  BY <1>3, <1>5, CheckHopIs
<1>8. p \in DOMAIN hopInfo /\ d[h] = d[p] + 1 /\ d[p] \in Nat
  BY <1>1, <1>5, <1>7, PreviousHop
<1> HIDE DEF i, h, p
<1>9. \E m \in Seq(DOMAIN hopInfo) : Checked(m, i, p, d) /\ check'.nodes = NamesOf(m)
  <2>1. CASE TurnsBack(h)
    <3>1. c = <<>>
      <4> SUFFICES ASSUME c # <<>> PROVE FALSE
        OBVIOUS
      <4> DEFINE l == c[Len(c)]
      <4>1. l \in DOMAIN hopInfo /\ hopInfo[l].previous = h
        BY <1>6 DEF Checked, h
      <4>2. h = FirstHop(hopInfo, hopInfo[h].name)
        BY <1>1, <1>5, <4>1, PreviousHop, <1>4
      <4> QED
        BY <1>1, <1>5, <2>1, <4>2, FirstHopGoesOn
    <3>2. h \in {i, Start(i)}
      BY <1>6, <3>1 DEF Checked, h
    <3>3. h = i
      BY <1>1, <1>4, <2>1, <3>2, StartGoesOn
    <3>4. Start(i) = p
      BY <2>1, <3>3 DEF Start, p
    <3>5. Checked(c, i, p, d)
      BY <1>6, <3>1, <3>4 DEF Checked
    <3> QED
      BY <1>6, <1>7, <2>1, <3>5
  <2>2. CASE ~TurnsBack(h)
    <3> DEFINE m == Append(c, h)
    <3>1. /\ m \in Seq(DOMAIN hopInfo) /\ Len(m) = Len(c) + 1 /\ Len(c) \in Nat
          /\ m[1] = Start(i) /\ m[Len(m)] = h
          /\ \A k \in 1 .. Len(m) - 1 : hopInfo[m[k]].previous = m[k + 1]
          /\ \A k \in DOMAIN m : d[m[k]] = d[h] + Len(m) - k
          /\ NamesOf(m) = Append(NamesOf(c), hopInfo[h].name)
      <4>1. HopsInv(hopInfo, traversedNodes, d) /\ Checked(c, i, h, d)
        BY <1>1, <1>6
      <4>2. i \in DOMAIN hopInfo
        BY <1>4
      <4> QED
        BY ONLY <1>5, <2>2, <4>1, <4>2, ChainGrows
    <3> HIDE DEF m
    <3>2. m # <<>>
      BY <3>1
    <3>3. \A k \in DOMAIN m : d[m[k]] = d[p] + Len(m) - k + 1
      <4> TAKE k \in DOMAIN m
      <4>1. k \in Nat /\ Len(m) \in Nat
        BY <3>1
      <4>2. d[m[k]] = d[h] + Len(m) - k
        BY <3>1
      <4> QED
        BY <1>8, <4>1, <4>2
    <3>4. Checked(m, i, p, d)
      BY <3>1, <3>2, <3>3 DEF Checked, p
    <3> QED
      BY <1>6, <1>7, <2>2, <3>1, <3>4
  <2> QED
    BY <2>1, <2>2
<1>10. CheckInv(d)'
  BY <1>2, <1>7, <1>8, <1>9, PathsStay DEF CheckInv, i
<1>11. PathsInv(d)'
  BY <1>1, <1>2, PathsStay DEF PathsInv
<1>12. SearchInv(hopInfo, traversalNodes, traversedNodes, d)'
  BY <1>1, <1>2, SearchCarries
<1> QED
  BY <1>7, <1>10, <1>11, <1>12 DEF Searched

\* The end of a path completes it, and the check goes to the next hop object.
LEMMA FinishPathKeeps ==
    ASSUME NodesInv, CostInv, NEW d, Searched(d), FinishPath
    PROVE  CostInv' /\ Searched(d)'
<1> DEFINE i == Len(paths) + 1
           h == check.hop
           path == [nodes |-> Append(check.nodes, Own), cost |-> check.cost]
<1>1. /\ HopsInv(hopInfo, traversedNodes, d) /\ PathsInv(d) /\ CheckInv(d)
      /\ SearchInv(hopInfo, traversalNodes, traversedNodes, d)
  BY DEF Searched, SearchInv
<1>2. /\ traversalNodes = <<>> /\ Len(paths) < Len(hopInfo) /\ hopInfo[h].previous = 0
      /\ UNCHANGED <<allNodes, hopInfo, traversalNodes, traversedNodes>>
      /\ paths' = Append(paths, path)
      /\ check' = [check EXCEPT !.hop = Len(paths) + 2, !.nodes = <<>>, !.cost = 0,
                                !.lastEnergy = 0, !.lastBdp = 0]
  BY DEF FinishPath, PathsLeft
<1>3. /\ hopInfo \in Seq(Hop) /\ paths \in Seq([nodes : Seq(Nodes), cost : Nat])
      /\ check \in Weights /\ check.energy + check.bdp \in {0, 10}
  BY <1>1 DEF HopsInv, CostInv
<1>4. i \in DOMAIN hopInfo /\ DOMAIN hopInfo = 1 .. Len(hopInfo) /\ Len(hopInfo) \in Nat /\ Len(paths) \in Nat
  BY <1>2, <1>3
<1>5. h \in DOMAIN hopInfo
  BY <1>1, <1>2 DEF CheckInv
<1>6. PICK c \in Seq(DOMAIN hopInfo) : Checked(c, i, h, d) /\ check.nodes = NamesOf(c)
  BY <1>1, <1>2 DEF CheckInv
<1>7. h = 1 /\ hopInfo[1].name = Own /\ d[1] = 0
  BY <1>1, <1>2, <1>5, PreviousHop DEF HopsInv
<1>8. path \in [nodes : Seq(Nodes), cost : Nat] /\ path.nodes = Append(check.nodes, Own)
  BY <1>3, PlacementAssumption DEF Weights
<1> HIDE DEF path
<1>9. /\ paths' \in Seq([nodes : Seq(Nodes), cost : Nat]) /\ Len(paths') = i
      /\ \A j \in DOMAIN paths : paths'[j] = paths[j]
      /\ paths'[i] = path /\ DOMAIN paths' = 1 .. i /\ DOMAIN paths = 1 .. Len(paths)
  <2>1. /\ Append(paths, path) \in Seq([nodes : Seq(Nodes), cost : Nat])
        /\ Len(Append(paths, path)) = Len(paths) + 1
        /\ \A j \in 1 .. Len(paths) : Append(paths, path)[j] = paths[j]
        /\ Append(paths, path)[Len(paths) + 1] = path
    BY <1>3, <1>8, AppendProperties
  <2> QED
    BY <1>2, <1>3, <2>1
<1>10. check' \in Weights /\ check'.hop = Len(paths) + 2 /\ check'.nodes = <<>>
       /\ check'.energy = check.energy /\ check'.bdp = check.bdp
  <2>1. Len(paths) + 2 \in Nat /\ <<>> \in Seq(Nodes)
    BY <1>4
  <2> QED
    BY <1>2, <1>3, <2>1 DEF Weights
<1>11. CostInv'
  BY <1>3, <1>9, <1>10 DEF CostInv, Weights
<1> HIDE DEF h
<1> DEFINE m == Append(c, h)
<1>12. Chain(m, Start(i), d) /\ path.nodes = NamesOf(m) /\ m \in Seq(DOMAIN hopInfo)
  <2>1. ~TurnsBack(h)
    BY <1>2 DEF TurnsBack
  <2>2. /\ m \in Seq(DOMAIN hopInfo) /\ Len(m) = Len(c) + 1 /\ Len(c) \in Nat
        /\ m[1] = Start(i) /\ m[Len(m)] = h
        /\ \A k \in 1 .. Len(m) - 1 : hopInfo[m[k]].previous = m[k + 1]
        /\ \A k \in DOMAIN m : d[m[k]] = d[h] + Len(m) - k
        /\ NamesOf(m) = Append(NamesOf(c), hopInfo[h].name)
    <3> HIDE DEF i
    <3>1. HopsInv(hopInfo, traversedNodes, d) /\ Checked(c, i, h, d)
      BY <1>1, <1>6
    <3>2. i \in DOMAIN hopInfo
      BY <1>4
    <3> QED
      BY <1>5, <2>1, <3>1, <3>2, ChainGrows
  <2> HIDE DEF m
  <2>3. \A k \in DOMAIN m : d[m[k]] = Len(m) - k
    <3> TAKE k \in DOMAIN m
    <3>1. k \in Int /\ Len(m) \in Int /\ \A x, y \in Int : 0 + x - y = x - y
      BY <2>2
    <3>2. d[m[k]] = 0 + Len(m) - k
      BY <1>7, <2>2
    <3> QED
      BY <3>1, <3>2
  <2>4. Len(m) > 0 /\ m[Len(m)] = 1
    BY <1>7, <2>2
  <2> QED
    BY <1>6, <1>7, <1>8, <2>2, <2>3, <2>4 DEF Chain
<1> HIDE DEF i, m
<1>13. PathsInv(d)'
  <2>1. Len(paths') <= Len(hopInfo)
    BY <1>4, <1>9
  <2>2. ASSUME NEW j \in DOMAIN paths'
        PROVE  \E s \in Seq(DOMAIN hopInfo) : Chain(s, Start(j), d) /\ paths'[j].nodes = NamesOf(s)
    <3>1. CASE j = i
      BY <1>9, <1>12, <3>1
    <3>2. CASE j \in DOMAIN paths
      BY <1>1, <1>9, <3>2 DEF PathsInv
    <3>3. j = i \/ j \in DOMAIN paths
      BY <1>4, <1>9 DEF i
    <3> QED
      BY <3>1, <3>2, <3>3
  <2>3. hopInfo' = hopInfo
    BY <1>2
  <2>4. ASSUME NEW j \in DOMAIN paths'
        PROVE  \E s \in Seq(DOMAIN hopInfo') : Chain(s, Start(j), d)' /\ paths'[j].nodes = NamesOf(s)'
    <3>1. PICK s \in Seq(DOMAIN hopInfo) : Chain(s, Start(j), d) /\ paths'[j].nodes = NamesOf(s)
      BY <2>2
    <3>2. NamesOf(s)' = NamesOf(s) /\ Chain(s, Start(j), d)' = Chain(s, Start(j), d)
      BY ONLY <2>3, PathsStay
    <3> QED
      BY ONLY <2>3, <3>1, <3>2
  <2> QED
    BY <2>1, <2>3, <2>4 DEF PathsInv
<1>14. CheckInv(d)'
  <2>1. Len(paths') = Len(paths) + 1 /\ check'.hop = Len(paths') + 1
    BY <1>4, <1>9, <1>10 DEF i
  <2>2. Len(paths') < Len(hopInfo) => check'.hop \in DOMAIN hopInfo
    BY <1>4, <2>1
  <2>3. <<>> \in Seq(DOMAIN hopInfo) /\ NamesOf(<<>>) = <<>>
    BY DEF NamesOf
  <2>4. Checked(<<>>, Len(paths') + 1, check'.hop, d)
    BY <2>1 DEF Checked
  <2>5. \E s \in Seq(DOMAIN hopInfo) :
          Checked(s, Len(paths') + 1, check'.hop, d) /\ check'.nodes = NamesOf(s)
    BY <1>10, <2>3, <2>4
  <2> QED
    BY <1>2, <2>2, <2>5, PathsStay DEF CheckInv
<1>15. SearchInv(hopInfo, traversalNodes, traversedNodes, d)'
  BY <1>1, <1>2, SearchCarries
<1> QED
  BY <1>11, <1>13, <1>14, <1>15 DEF Searched

\* A state that arrives is that of the node it was asked for, or of none.
LEMMA GetNodeStatusKeeps ==
    ASSUME NodesInv, GetNodeStatus
    PROVE  NodesInv'
<1>1. PICK info \in Reports[Listed[Len(allNodes) + 1]] \cup {Malformed} : allNodes' = Append(allNodes, info)
  BY DEF GetNodeStatus
<1>2. allNodes \in Seq(Info) /\ Len(allNodes) \in Nat /\ Listed \in Seq(Nodes) /\ Len(Listed) \in Nat
  BY PlacementAssumption DEF NodesInv
<1> DEFINE i == Len(allNodes) + 1
<1>3. Len(allNodes) < Len(Listed) /\ i <= Len(Listed) /\ i \in DOMAIN Listed /\ Listed[i] \in Nodes
  BY <1>2 DEF GetNodeStatus
<1>4. /\ info \in Info /\ info.name \in {Listed[i], NoNode}
      /\ \A j \in DOMAIN info.links : info.links[j].node # info.name
  <2>1. CASE info = Malformed
    BY <2>1 DEF Malformed, Info
  <2>2. CASE info \in Reports[Listed[i]]
    BY <1>3, <2>2, ReportAssumption DEF Info, NodeInfo
  <2> QED
    BY <2>1, <2>2
<1>5. /\ allNodes' \in Seq(Info) /\ Len(allNodes') = i
      /\ \A j \in 1 .. Len(allNodes) : allNodes'[j] = allNodes[j]
      /\ allNodes'[i] = info
  BY <1>1, <1>2, <1>4, AppendProperties
<1>6. ASSUME NEW j \in DOMAIN allNodes'
      PROVE  /\ allNodes'[j].name \in {Listed[j], NoNode}
             /\ \A k \in DOMAIN allNodes'[j].links : allNodes'[j].links[k].node # allNodes'[j].name
  <2>1. j = i \/ j \in DOMAIN allNodes
    BY <1>2, <1>5
  <2>2. CASE j = i
    BY <1>4, <1>5, <2>2
  <2>3. CASE j \in DOMAIN allNodes
    BY <1>2, <1>5, <2>3 DEF NodesInv
  <2> QED
    BY <2>1, <2>2, <2>3
<1> QED
  BY <1>3, <1>5, <1>6 DEF NodesInv

\* Before the first path there is nothing to say of paths.
LEMMA NoPathsYet ==
    ASSUME paths' = <<>>, check'.hop = 1, check'.nodes = <<>>,
           1 \in DOMAIN hopInfo', Len(hopInfo') \in Nat, NEW d
    PROVE  PathsInv(d)' /\ CheckInv(d)'
<1>1. Len(paths') = 0 /\ DOMAIN paths' = {}
  OBVIOUS
<1>2. PathsInv(d)'
  BY <1>1 DEF PathsInv
<1>3. Checked(<<>>, 1, 1, d)'
  BY DEF Checked
<1>4. <<>> \in Seq(DOMAIN hopInfo') /\ NamesOf(<<>>)' = <<>>
  BY DEF NamesOf
<1>5. CheckInv(d)'
  <2>1. Len(paths') + 1 = 1 /\ check'.hop = 1 /\ check'.nodes = <<>>
    BY <1>1
  <2>2. \E s \in Seq(DOMAIN hopInfo') : Checked(s, 1, 1, d)' /\ check'.nodes = NamesOf(s)'
    BY <1>3, <1>4, <2>1
  <2> QED
    BY <2>1, <2>2 DEF CheckInv
<1> QED
  BY <1>2, <1>5

\* What was discovered is true while nothing is discovered.
LEMMA DiscoveryStays ==
    ASSUME UNCHANGED discovery
    PROVE  /\ NodesInv => NodesInv'
           /\ CostInv => CostInv'
           /\ \A d : Searched(d) => Searched(d)'
<1>0. UNCHANGED <<allNodes, hopInfo, traversalNodes, traversedNodes, check, paths>>
  BY DEF discovery
<1>1. NodesInv => NodesInv'
  BY <1>0 DEF NodesInv
<1>2. CostInv => CostInv'
  BY <1>0 DEF CostInv
<1>3. ASSUME NEW d, Searched(d) PROVE Searched(d)'
  <2>1. PathsInv(d)'
    BY <1>0, <1>3, PathsStay DEF Searched, PathsInv
  <2>2. CheckInv(d)'
    BY <1>0, <1>3, PathsStay DEF Searched, CheckInv
  <2>3. SearchInv(hopInfo, traversalNodes, traversedNodes, d)'
    BY <1>0, <1>3, SearchCarries DEF Searched
  <2> QED
    BY <2>1, <2>2, <2>3 DEF Searched
<1> QED
  BY <1>1, <1>2, <1>3

\* StartSearch and Traverse keep the invariant of the search.
LEMMA StartSearchKeeps ==
    ASSUME NodesInv, Unsearched, StartSearch
    PROVE  \E d : Searched(d)'
<1>1. /\ Known(Own) /\ UNCHANGED <<allNodes, check, paths>>
      /\ traversedNodes' = {Own} /\ traversalNodes' = GetTraversalNodes(Own, <<>>, {Own})
      /\ hopInfo' = OneStepTraverse(Own, <<[name |-> Own, latency |-> 0, previous |-> 0]>>)
  BY DEF StartSearch
<1>2. PICK d : SearchInv(hopInfo', traversalNodes', traversedNodes', d)
  BY <1>1, SearchBegins
<1>3. SearchInv(hopInfo, traversalNodes, traversedNodes, d)'
  BY <1>1, <1>2, SearchCarries
<1>4. 1 \in DOMAIN hopInfo' /\ Len(hopInfo') \in Nat
  BY <1>2 DEF SearchInv, HopsInv
<1>5. paths' = <<>> /\ check'.hop = 1 /\ check'.nodes = <<>>
  BY <1>1 DEF Unsearched
<1>6. PathsInv(d)' /\ CheckInv(d)'
  BY <1>4, <1>5, NoPathsYet
<1> QED
  BY <1>3, <1>6 DEF Searched

LEMMA TraverseKeeps ==
    ASSUME NodesInv, NEW d, Searched(d), Traverse
    PROVE  \E e : Searched(e)'
<1>1. /\ traversalNodes # <<>> /\ UNCHANGED <<allNodes, check, paths>>
      /\ hopInfo' = OneStepTraverse(Head(traversalNodes), hopInfo)
      /\ traversalNodes' = Tail(traversalNodes
           \o GetTraversalNodes(Head(traversalNodes), traversalNodes, traversedNodes))
      /\ traversedNodes' = traversedNodes \cup {Head(traversalNodes)}
  BY DEF Traverse
<1>2. PICK e : SearchInv(hopInfo', traversalNodes', traversedNodes', e)
  BY <1>1, TraverseStep DEF Searched
<1>3. SearchInv(hopInfo, traversalNodes, traversedNodes, e)'
  BY <1>1, <1>2, SearchCarries
<1>4. 1 \in DOMAIN hopInfo' /\ Len(hopInfo') \in Nat
  BY <1>2 DEF SearchInv, HopsInv
<1>5. paths' = <<>> /\ check'.hop = 1 /\ check'.nodes = <<>>
  BY <1>1 DEF Searched, CheckInv
<1>6. PathsInv(e)' /\ CheckInv(e)'
  BY <1>4, <1>5, NoPathsYet
<1> QED
  BY <1>3, <1>6 DEF Searched

\* Initially the states of the nodes are not known and nothing was searched.
LEMMA SearchingInit == Init => SearchingInv
<1> SUFFICES ASSUME Init PROVE SearchingInv
  OBVIOUS
<1>1. NodesInv
  <2>1. Len(Listed) \in Nat
    BY PlacementAssumption
  <2>2. allNodes = <<>>
    BY DEF Init
  <2>3. allNodes \in Seq(Info) /\ Len(allNodes) = 0 /\ DOMAIN allNodes = {}
    BY <2>2
  <2> QED
    BY <2>1, <2>3 DEF NodesInv
<1>2. CostInv
  BY DEF Init, CostInv, Weights
<1>3. Unsearched
  BY DEF Init, Unsearched
<1> QED
  BY <1>1, <1>2, <1>3 DEF SearchingInv

\* Every step keeps what is known of nodes, hops and paths.
LEMMA SearchingStep == SearchingInv /\ [Next]_vars => SearchingInv'
<1> SUFFICES ASSUME SearchingInv, [Next]_vars PROVE SearchingInv'
  OBVIOUS
<1>1. NodesInv /\ CostInv
  BY DEF SearchingInv
<1>2. phase \notin {"discovery", "stopped", "failed"} => \E d : Searched(d)
  BY DEF SearchingInv, Unsearched
<1>3. phase = "discovery" => Unsearched
  BY DEF SearchingInv
<1>4. ASSUME UNCHANGED discovery, phase \notin {"discovery", "stopped", "failed"},
             phase' # "discovery", phase' # "stopped"
      PROVE  SearchingInv'
  BY <1>1, <1>2, <1>4, DiscoveryStays DEF SearchingInv
<1>5. CASE GetNodeStatus
  <2>1. Unsearched /\ UNCHANGED <<phase, hopInfo, traversalNodes, traversedNodes, check, paths>>
    BY <1>3, <1>5 DEF GetNodeStatus
  <2>2. CostInv' /\ Unsearched'
    BY <1>1, <2>1 DEF CostInv, Unsearched
  <2> QED
    BY <1>1, <1>5, <2>2, GetNodeStatusKeeps DEF SearchingInv
<1>6. CASE GiveUp
  <2>1. Unsearched /\ UNCHANGED discovery /\ phase' \in {"stopped", "failed"}
    BY <1>3, <1>6 DEF GiveUp
  <2>2. Unsearched'
    BY <2>1 DEF Unsearched, discovery
  <2> QED
    BY <1>1, <2>1, <2>2, DiscoveryStays DEF SearchingInv
<1>7. CASE StartSearch
  <2>1. Unsearched /\ UNCHANGED <<allNodes, check, paths>> /\ phase' = "search"
    BY <1>3, <1>7 DEF StartSearch
  <2>2. NodesInv' /\ CostInv'
    BY <1>1, <2>1 DEF NodesInv, CostInv
  <2>3. \E d : Searched(d)'
    BY <1>1, <1>7, <2>1, StartSearchKeeps
  <2> QED
    BY <2>1, <2>2, <2>3 DEF SearchingInv
<1>8. CASE Traverse
  <2>1. phase = "search" /\ phase' = "search" /\ UNCHANGED <<allNodes, check, paths>>
    BY <1>8 DEF Traverse
  <2>2. PICK d : Searched(d)
    BY <1>2, <2>1
  <2>3. NodesInv' /\ CostInv'
    BY <1>1, <2>1 DEF NodesInv, CostInv
  <2>4. \E e : Searched(e)'
    BY <1>1, <1>8, <2>2, TraverseKeeps
  <2> QED
    BY <2>1, <2>3, <2>4 DEF SearchingInv
<1>9. CASE CheckHop
  <2>1. phase = "search" /\ phase' = "search" /\ UNCHANGED allNodes
    BY <1>9 DEF CheckHop, PathsLeft
  <2>2. PICK d : Searched(d)
    BY <1>2, <2>1
  <2>3. NodesInv' /\ CostInv' /\ Searched(d)'
    BY <1>1, <1>9, <2>1, <2>2, CheckHopKeeps DEF NodesInv
  <2> QED
    BY <2>1, <2>3 DEF SearchingInv
<1>10. CASE FinishPath
  <2>1. phase = "search" /\ phase' = "search" /\ UNCHANGED allNodes
    BY <1>10 DEF FinishPath, PathsLeft
  <2>2. PICK d : Searched(d)
    BY <1>2, <2>1
  <2>3. NodesInv' /\ CostInv' /\ Searched(d)'
    BY <1>1, <1>10, <2>1, <2>2, FinishPathKeeps DEF NodesInv
  <2> QED
    BY <2>1, <2>3 DEF SearchingInv
<1>11. CASE ChoosePath \/ Forward \/ NoPath
  BY <1>4, <1>11 DEF ChoosePath, Forward, NoPath, PathsBuilt
<1>12. CASE PlaceOperators
  BY <1>4, <1>12 DEF PlaceOperators, PlaceBelow, PlaceSelf
<1>13. CASE DeployOperators
  BY <1>4, <1>13 DEF DeployOperators, DeployBelow, DeploySelf, DeployFails
<1>14. CASE TakeForwarded \/ FetchResult
  BY <1>4, <1>14 DEF TakeForwarded, FetchResult
<1>15. CASE UNCHANGED vars
  <2>1. UNCHANGED discovery /\ UNCHANGED phase
    BY <1>15 DEF vars, discovery
  <2>2. NodesInv' /\ CostInv' /\ \A d : Searched(d) => Searched(d)'
    BY <1>1, <2>1, DiscoveryStays
  <2>3. Unsearched => Unsearched'
    BY <2>1 DEF Unsearched, discovery
  <2> QED
    BY <2>1, <2>2, <2>3 DEF SearchingInv
<1> QED
  BY <1>5, <1>6, <1>7, <1>8, <1>9, <1>10, <1>11, <1>12, <1>13, <1>14, <1>15 DEF Next, BuildPaths

\* So it always holds.
LEMMA SearchingAlways == Spec => []SearchingInv
BY SearchingInit, SearchingStep, PTL DEF Spec

-----------------------------------------------------------------------------
(***************************************************************************)
(* The paths are sound.                                                    *)
(***************************************************************************)
\* A sequence without repetitions has as many members as it is long.
LEMMA InjectiveIsDistinct ==
    ASSUME NEW S, NEW s \in Seq(S), \A i, j \in DOMAIN s : i < j => s[i] # s[j]
    PROVE  Distinct(s)
<1>1. Len(s) \in Nat /\ DOMAIN s = 1 .. Len(s) /\ ToSet(s) = {s[i] : i \in DOMAIN s}
  BY DEF ToSet
<1>2. \A i, j \in DOMAIN s : s[i] = s[j] => i = j
  <2>1. \A i, j \in DOMAIN s : i < j \/ j < i \/ i = j
    BY <1>1
  <2> QED
    BY <2>1
<1>3. s \in [DOMAIN s -> ToSet(s)]
  BY <1>1
<1>4. s \in Bijection(DOMAIN s, ToSet(s))
  BY <1>1, <1>2, <1>3, Fun_IsBij
<1>5. ExistsBijection(1 .. Len(s), ToSet(s))
  BY <1>1, <1>4 DEF ExistsBijection
<1>6. IsFiniteSet(1 .. Len(s)) /\ Cardinality(1 .. Len(s)) = Len(s)
  BY <1>1, FS_Interval
<1>7. Cardinality(ToSet(s)) = Cardinality(1 .. Len(s))
  BY <1>5, <1>6, FS_Bijection
<1> QED
  BY <1>6, <1>7 DEF Distinct

\* The names along a chain of hops: each is linked to the one before it, and
\* the last is the own node.
LEMMA ChainIsLinked ==
    ASSUME NEW d, HopsInv(hopInfo, traversedNodes, d), NEW c, NEW s, Chain(c, s, d)
    PROVE  LET nodes == NamesOf(c) IN
           /\ nodes \in Seq(Nodes) /\ Len(nodes) = Len(c) /\ Len(c) \in Nat /\ Len(c) > 0
           /\ \A k \in DOMAIN c : k \in DOMAIN nodes /\ c[k] \in DOMAIN hopInfo
                                  /\ nodes[k] = hopInfo[c[k]].name
           /\ Last(nodes) = Own
           /\ \A k \in 1 .. Len(nodes) - 1 : Linked(nodes[k + 1], nodes[k])
<1> DEFINE nodes == NamesOf(c)
<1>1. c \in Seq(DOMAIN hopInfo) /\ Len(c) \in Nat /\ Len(c) > 0 /\ DOMAIN c = 1 .. Len(c)
  BY DEF Chain
<1>2. \A i \in DOMAIN hopInfo : hopInfo[i].name \in Nodes
  <2>1. hopInfo \in Seq(Hop)
    BY DEF HopsInv
  <2>2. \A i \in DOMAIN hopInfo : hopInfo[i] \in Hop
    BY <2>1
  <2> QED
    BY <2>2 DEF Hop
<1>3. \A k \in DOMAIN c : c[k] \in DOMAIN hopInfo /\ hopInfo[c[k]].name \in Nodes
  BY <1>1, <1>2
<1>4. nodes = [k \in 1 .. Len(c) |-> hopInfo[c[k]].name]
  BY <1>1 DEF NamesOf
<1>5. nodes \in Seq(Nodes) /\ Len(nodes) = Len(c) /\ DOMAIN nodes = 1 .. Len(c)
  BY <1>1, <1>3, <1>4
<1>6. Last(nodes) = Own
  <2>1. Len(c) \in DOMAIN c /\ c[Len(c)] = 1 /\ hopInfo[1].name = Own
    BY <1>1 DEF Chain, HopsInv
  <2> QED
    BY <1>1, <1>4, <1>5, <2>1 DEF Last
<1>7. ASSUME NEW k \in 1 .. Len(c) - 1 PROVE Linked(nodes[k + 1], nodes[k])
  <2>1. k \in DOMAIN c /\ k + 1 \in DOMAIN c
    BY <1>1
  <2>0. hopInfo \in Seq(Hop)
    BY DEF HopsInv
  <2>4. \A i \in DOMAIN hopInfo : i # 0
    BY <2>0
  <2>2. hopInfo[c[k]].previous = c[k + 1] /\ c[k + 1] # 0 /\ c[k] \in DOMAIN hopInfo
    BY <1>3, <2>1, <2>4 DEF Chain
  <2>3. Linked(hopInfo[c[k + 1]].name, hopInfo[c[k]].name)
    BY <2>2, PreviousHop
  <2> QED
    BY <1>1, <1>4, <2>1, <2>3
<1> QED
  BY <1>1, <1>3, <1>4, <1>5, <1>6, <1>7

\* All hops of a chain but the first one are first hops of traversed nodes,
\* so that only the far end can have the name of another node of the path.
LEMMA ChainGoesUp ==
    ASSUME NEW d, HopsInv(hopInfo, traversedNodes, d), NEW c, NEW s, Chain(c, s, d),
           NEW k \in 2 .. Len(c)
    PROVE  /\ k \in DOMAIN c /\ c[k] \in DOMAIN hopInfo /\ c[k] # 0
           /\ c[k] = FirstHop(hopInfo, hopInfo[c[k]].name)
           /\ hopInfo[c[k]].name \in traversedNodes
           /\ hopInfo[c[k - 1]].previous = c[k] /\ c[k - 1] \in DOMAIN hopInfo
           /\ d[c[k]] = Len(c) - k
<1>1. c \in Seq(DOMAIN hopInfo) /\ Len(c) \in Nat /\ DOMAIN c = 1 .. Len(c)
  BY DEF Chain
<1>2. k \in DOMAIN c /\ k - 1 \in DOMAIN c /\ k - 1 \in 1 .. Len(c) - 1 /\ (k - 1) + 1 = k
  BY <1>1
<1>3. c[k] \in DOMAIN hopInfo /\ c[k - 1] \in DOMAIN hopInfo
  BY <1>1, <1>2
<1>4. hopInfo[c[k - 1]].previous = c[k] /\ d[c[k]] = Len(c) - k
  BY <1>2 DEF Chain
<1>5. c[k] # 0
  BY <1>3 DEF HopsInv
<1> QED
  BY <1>2, <1>3, <1>4, <1>5, PreviousHop

LEMMA ChainIsDistinct ==
    ASSUME NodesInv, NEW d, HopsInv(hopInfo, traversedNodes, d),
           SeenInv(hopInfo, traversedNodes), ~OneSided,
           NEW c, NEW s \in DOMAIN hopInfo, Chain(c, s, d), ~TurnsBack(s)
    PROVE  \A j, k \in DOMAIN NamesOf(c) : j < k => NamesOf(c)[j] # NamesOf(c)[k]
<1> DEFINE nodes == NamesOf(c)
<1>1. /\ nodes \in Seq(Nodes) /\ Len(nodes) = Len(c) /\ Len(c) \in Nat /\ Len(c) > 0
      /\ \A k \in DOMAIN c : k \in DOMAIN nodes /\ c[k] \in DOMAIN hopInfo
                             /\ nodes[k] = hopInfo[c[k]].name
      /\ \A k \in 1 .. Len(nodes) - 1 : Linked(nodes[k + 1], nodes[k])
  BY ChainIsLinked
<1>2. DOMAIN nodes = 1 .. Len(c) /\ DOMAIN c = 1 .. Len(c) /\ c[1] = s
  BY <1>1 DEF Chain
<1> HIDE DEF nodes
<1>3. ASSUME NEW j \in DOMAIN nodes, NEW k \in DOMAIN nodes, j < k, nodes[j] = nodes[k]
      PROVE  FALSE
  <2>0. k \in 2 .. Len(c)
    BY <1>1, <1>2, <1>3
  <2>1. /\ c[k] = FirstHop(hopInfo, nodes[k]) /\ nodes[k] \in traversedNodes
        /\ d[c[k]] = Len(c) - k /\ c[k] \in DOMAIN hopInfo /\ c[k] # 0
        /\ hopInfo[c[k - 1]].previous = c[k]
    BY <1>1, <1>2, <2>0, ChainGoesUp
  <2>2. CASE j > 1
    <3>1. j \in 2 .. Len(c)
      BY <1>2, <2>2
    <3>2. c[j] = FirstHop(hopInfo, nodes[j]) /\ d[c[j]] = Len(c) - j
      BY <1>1, <1>2, <3>1, ChainGoesUp
    <3>3. Len(c) - j = Len(c) - k
      BY <1>3, <2>1, <3>2
    <3> QED
      BY <1>1, <1>2, <1>3, <3>3
  <2>3. CASE j = 1
    <3>1. 2 \in 2 .. Len(c) /\ 1 \in 1 .. Len(nodes) - 1
      BY <1>1, <2>0
    <3>2. Linked(nodes[2], nodes[1]) /\ nodes[1] = hopInfo[s].name
      BY <1>1, <1>2, <3>1
    <3>3. /\ c[2] = FirstHop(hopInfo, nodes[2]) /\ d[c[2]] = Len(c) - 2 /\ c[2] # 0
          /\ hopInfo[s].previous = c[2] /\ c[2] \in DOMAIN hopInfo
      <4>1. 2 - 1 = 1
        OBVIOUS
      <4> QED
        BY <1>1, <1>2, <3>1, <4>1, ChainGoesUp
    <3>4. CASE k = 2
      BY <1>3, <2>3, <3>2, <3>4, NotOwnNeighbour
    <3>5. CASE k = 3
      <4>1. hopInfo[c[2]].previous = c[3] /\ hopInfo[c[3]].name = nodes[3] /\ c[3] # 0
        <5>1. 3 - 1 = 2
          OBVIOUS
        <5> QED
          BY <1>1, <1>2, <2>1, <3>5, <5>1
      <4> QED
        BY <1>3, <2>3, <3>2, <3>3, <3>5, <4>1 DEF TurnsBack
    <3>6. CASE k > 3
      <4> DEFINE n == nodes[1]
                 m == nodes[2]
      <4>1. n \in traversedNodes /\ n \in Nodes /\ m \in Nodes /\ FirstHop(hopInfo, n) = c[k]
        BY <1>1, <1>2, <1>3, <2>1, <2>3, <3>1
      <4>2. Known(n)
        BY <4>1 DEF SeenInv
      <4>3. Linked(n, m)
        BY <3>2, <4>1, <4>2 DEF OneSided
      <4>4. PICK i \in DOMAIN hopInfo : hopInfo[i].name = m /\ hopInfo[i].previous = c[k]
        BY <4>1, <4>3 DEF SeenInv
      <4>5. d[i] = d[c[k]] + 1 /\ d[i] \in Nat
        BY <2>1, <4>4, PreviousHop
      <4>6. c[2] <= i
        BY <3>3, <4>4, FirstHopIs DEF HopsInv
      <4>7. d[c[2]] <= d[i]
        BY <3>3, <4>4, <4>6 DEF HopsInv
      <4>8. Len(c) - 2 <= Len(c) - k + 1
        BY <2>1, <3>3, <4>5, <4>7
      <4>9. k \in Nat
        BY <2>0, <1>1
      <4> QED
        BY <1>1, <3>6, <4>8, <4>9
    <3> QED
      BY <1>1, <2>0, <3>4, <3>5, <3>6
  <2> QED
    BY <1>2, <2>2, <2>3
<1> QED
  BY <1>3 DEF nodes

-----------------------------------------------------------------------------
(***************************************************************************)
(* The nodes within k links, and the shortest paths.                       *)
(***************************************************************************)
Next1(S) == S \cup {n \in Nodes : \E m \in S : Linked(m, n)}
IsReach(f, N) ==
  /\ f \in [0 .. N -> SUBSET Nodes]
  /\ f[0] = {Own}
  /\ \A k \in 1 .. N : f[k] = Next1(f[k - 1])

\* There is a function that reaches one link further with every argument.
LEMMA ReachExists == \A N \in Nat : \E f : IsReach(f, N)
<1> DEFINE Bad == {N \in Nat : ~ \E f : IsReach(f, N)}
<1> SUFFICES ASSUME Bad # {} PROVE FALSE
  OBVIOUS
<1>1. PICK N \in Bad : \A M \in Bad : N <= M
  BY SmallestOf
<1>2. N \in Nat /\ ~ \E f : IsReach(f, N)
  BY <1>1
<1>3. Own \in Nodes
  BY PlacementAssumption
<1>4. CASE N = 0
  <2> DEFINE f == [k \in 0 .. 0 |-> {Own}]
  <2>1. IsReach(f, 0)
    BY <1>3 DEF IsReach
  <2> QED
    BY <1>2, <1>4, <2>1
<1>5. CASE N # 0
  <2>1. N - 1 \in Nat /\ N - 1 \notin Bad
    BY <1>1, <1>2, <1>5
  <2>2. PICK g : IsReach(g, N - 1)
    BY <2>1
  <2> DEFINE f == [k \in 0 .. N |-> IF k = N THEN Next1(g[N - 1]) ELSE g[k]]
  <2>3. g \in [0 .. N - 1 -> SUBSET Nodes] /\ g[0] = {Own} /\ \A k \in 1 .. N - 1 : g[k] = Next1(g[k - 1])
    BY <2>2 DEF IsReach
  <2>4. \A S \in SUBSET Nodes : Next1(S) \in SUBSET Nodes
    BY DEF Next1
  <2>5. Next1(g[N - 1]) \in SUBSET Nodes
    BY <1>2, <2>1, <2>3, <2>4
  <2>6. f \in [0 .. N -> SUBSET Nodes]
    BY <1>2, <2>3, <2>5
  <2>7. \A k \in 0 .. N - 1 : f[k] = g[k]
    BY <1>2
  <2>8. f[N] = Next1(g[N - 1]) /\ f[0] = {Own}
    BY <1>2, <1>5, <2>3
  <2> HIDE DEF f
  <2>9. ASSUME NEW k \in 1 .. N PROVE f[k] = Next1(f[k - 1])
    <3>1. k - 1 \in 0 .. N - 1
      BY <1>2
    <3>2. CASE k = N
      BY <2>7, <2>8, <3>1, <3>2
    <3>3. CASE k # N
      <4>1. k \in 1 .. N - 1 /\ k \in 0 .. N - 1
        BY <1>2, <3>3
      <4> QED
        BY <2>3, <2>7, <3>1, <4>1
    <3> QED
      BY <3>2, <3>3
  <2>10. IsReach(f, N)
    BY <2>6, <2>8, <2>9 DEF IsReach
  <2> QED
    BY <1>2, <2>10
<1> QED
  BY <1>4, <1>5

\* Within is that function.
LEMMA WithinIs == IsReach(Within, Cardinality(Nodes))
<1> DEFINE N == Cardinality(Nodes)
           Step(r) == [k \in 0 .. N |-> IF k = 0 THEN {Own}
                         ELSE r[k - 1] \cup {n \in Nodes : \E m \in r[k - 1] : Linked(m, n)}]
<1>1. N \in Nat
  BY PlacementAssumption, FS_CardinalityType
<1>2. Within = CHOOSE r : r = Step(r)
  BY DEF Within
<1>3. PICK f : IsReach(f, N)
  BY <1>1, ReachExists
<1> HIDE DEF N
<1>4. f = Step(f)
  <2>1. f \in [0 .. N -> SUBSET Nodes] /\ f[0] = {Own}
        /\ \A k \in 1 .. N : f[k] = f[k - 1] \cup {n \in Nodes : \E m \in f[k - 1] : Linked(m, n)}
    BY <1>3 DEF IsReach, Next1
  <2>2. \A k \in 0 .. N : k = 0 \/ k \in 1 .. N
    BY <1>1
  <2>3. \A k \in 0 .. N : f[k] = Step(f)[k]
    BY <2>1, <2>2
  <2> QED
    BY <2>1, <2>3
<1>5. Within = Step(Within)
  BY <1>2, <1>4
<1> DEFINE r == Within
<1> HIDE DEF r
<1>6. r = Step(r)
  BY <1>5 DEF r
<1>7. r[0] = {Own}
  BY <1>1, <1>6
<1>8. ASSUME NEW k \in 1 .. N PROVE r[k] = Next1(r[k - 1])
  <2>1. k # 0 /\ k \in 0 .. N
    BY <1>1
  <2> QED
    BY <1>6, <2>1 DEF Next1
<1>9. ASSUME NEW k \in 0 .. N PROVE r[k] \subseteq Nodes
  <2> DEFINE Bad == {i \in 0 .. N : ~(r[i] \subseteq Nodes)}
  <2> SUFFICES ASSUME Bad # {} PROVE FALSE
    OBVIOUS
  <2>0. Bad \in SUBSET Nat
    BY <1>1
  <2>1. PICK i \in Bad : \A j \in Bad : i <= j
    BY <2>0, SmallestOf
  <2>2. CASE i = 0
    BY <1>7, <2>1, <2>2, PlacementAssumption
  <2>3. CASE i # 0
    <3>1. i \in 1 .. N /\ i - 1 \in 0 .. N /\ ~(i <= i - 1)
      BY <1>1, <2>1, <2>3
    <3>2. r[i - 1] \subseteq Nodes
      BY <2>1, <3>1
    <3> QED
      BY <1>8, <2>1, <3>1, <3>2 DEF Next1
  <2> QED
    BY <2>2, <2>3
<1>10. r \in [0 .. N -> SUBSET Nodes]
  <2>1. r = [k \in 0 .. N |-> r[k]]
    BY <1>6
  <2> QED
    BY <1>9, <2>1
<1> QED
  BY <1>7, <1>8, <1>10 DEF IsReach, r, N

\* A hop of level k has a node within k links.
LEMMA HopsAreWithin ==
    ASSUME NEW d, HopsInv(hopInfo, traversedNodes, d), NEW f, NEW N \in Nat, IsReach(f, N)
    PROVE  \A i \in DOMAIN hopInfo : d[i] \in 0 .. N => hopInfo[i].name \in f[d[i]]
<1> DEFINE Bad == {i \in DOMAIN hopInfo : d[i] \in 0 .. N /\ hopInfo[i].name \notin f[d[i]]}
<1> SUFFICES ASSUME Bad # {} PROVE FALSE
  OBVIOUS
<1>0. hopInfo \in Seq(Hop) /\ DOMAIN hopInfo \in SUBSET Nat
  BY DEF HopsInv
<1>1. PICK i \in Bad : \A j \in Bad : i <= j
  BY <1>0, SmallestOf
<1> DEFINE p == hopInfo[i].previous
<1>2. i \in DOMAIN hopInfo /\ d[i] \in 0 .. N /\ hopInfo[i].name \notin f[d[i]]
  BY <1>1
<1>3. \A j \in DOMAIN hopInfo : j < i => ~(d[j] \in 0 .. N /\ hopInfo[j].name \notin f[d[j]])
  <2>1. \A j \in DOMAIN hopInfo : j \in Nat /\ i \in Nat
    BY <1>0, <1>2
  <2>2. \A j \in DOMAIN hopInfo : j < i => ~(i <= j)
    BY <2>1
  <2> QED
    BY <1>1, <2>2
<1> HIDE DEF Bad
<1>4. CASE i = 1
  BY <1>2, <1>4 DEF HopsInv, IsReach
<1>5. CASE i # 1
  <2>1. /\ p \in DOMAIN hopInfo /\ p < i /\ d[i] = d[p] + 1 /\ d[p] \in Nat
        /\ Linked(hopInfo[p].name, hopInfo[i].name)
    BY <1>2, <1>5, PreviousHop
  <2>2. d[p] \in 0 .. N /\ d[i] \in 1 .. N /\ d[i] - 1 = d[p]
    BY <1>2, <2>1
  <2>3. hopInfo[p].name \in f[d[p]]
    BY <1>3, <2>1, <2>2
  <2>4. hopInfo[i] \in Hop
    BY <1>0, <1>2
  <2>5. hopInfo[i].name \in Nodes
    BY <2>4 DEF Hop
  <2>6. hopInfo[i].name \in Next1(f[d[i] - 1])
    BY <2>1, <2>2, <2>3, <2>5 DEF Next1
  <2> QED
    BY <1>2, <2>2, <2>6 DEF IsReach
<1> QED
  BY <1>4, <1>5

\* When no node waits any more, every node within k links has a hop of level
\* k or less.
LEMMA WithinHasHops ==
    ASSUME NEW d, SearchInv(hopInfo, <<>>, traversedNodes, d), NEW f, NEW N \in Nat, IsReach(f, N)
    PROVE  \A k \in 0 .. N : \A n \in f[k] : \E i \in DOMAIN hopInfo : hopInfo[i].name = n /\ d[i] <= k
<1> DEFINE Has(k) == \A n \in f[k] : \E i \in DOMAIN hopInfo : hopInfo[i].name = n /\ d[i] <= k
           Bad == {k \in 0 .. N : ~Has(k)}
<1> SUFFICES ASSUME Bad # {} PROVE FALSE
  OBVIOUS
<1>0. /\ HopsInv(hopInfo, traversedNodes, d) /\ SeenInv(hopInfo, traversedNodes)
      /\ WaitingInv(hopInfo, <<>>, traversedNodes, d)
      /\ hopInfo \in Seq(Hop) /\ Len(hopInfo) > 0
  BY DEF SearchInv, HopsInv
<1>1. PICK k \in Bad : \A l \in Bad : k <= l
  <2>1. Bad \in SUBSET Nat
    OBVIOUS
  <2> QED
    BY <2>1, SmallestOf
<1>2. k \in 0 .. N /\ ~Has(k) /\ \A l \in 0 .. N : l < k => Has(l)
  <2>1. \A l \in 0 .. N : l < k => ~(k <= l)
    BY <1>1
  <2> QED
    BY <1>1, <2>1
<1> HIDE DEF Bad
<1>3. PICK n \in f[k] : \A i \in DOMAIN hopInfo : hopInfo[i].name = n => ~(d[i] <= k)
  BY <1>2
<1>4. CASE k = 0
  <2>1. n = Own /\ 1 \in DOMAIN hopInfo /\ hopInfo[1].name = Own /\ d[1] = 0
    BY <1>0, <1>3, <1>4 DEF HopsInv, IsReach
  <2> QED
    BY <1>3, <1>4, <2>1
<1>5. CASE k # 0
  <2>1. k \in 1 .. N /\ k - 1 \in 0 .. N /\ k - 1 < k /\ k \in Nat
    BY <1>2, <1>5
  <2>2. Has(k - 1)
    BY <1>2, <2>1
  <2>3. n \in Next1(f[k - 1])
    BY <1>3, <2>1 DEF IsReach
  <2>4. CASE n \in f[k - 1]
    <3>1. PICK i \in DOMAIN hopInfo : hopInfo[i].name = n /\ d[i] <= k - 1
      BY <2>2, <2>4
    <3>2. d[i] \in Nat
      BY <1>0 DEF HopsInv
    <3>3. d[i] <= k
      BY <2>1, <3>1, <3>2
    <3> QED
      BY <1>3, <3>1, <3>3
  <2>5. CASE n \notin f[k - 1]
    <3>1. PICK m \in f[k - 1] : Linked(m, n)
      BY <2>3, <2>5 DEF Next1
    <3>2. n \in Nodes
      BY <2>3, <2>5 DEF Next1
    <3>3. PICK i \in DOMAIN hopInfo : hopInfo[i].name = m /\ d[i] <= k - 1
      BY <2>2, <3>1
    <3>4. m \in traversedNodes
      <4>1. Known(m)
        BY <3>1 DEF Linked
      <4>2. m \in traversedNodes \cup ToSet(<<>>)
        BY <1>0, <3>3, <4>1 DEF WaitingInv
      <4>3. ToSet(<<>>) = {}
        BY DEF ToSet
      <4> QED
        BY <4>2, <4>3
    <3>5. PICK j \in DOMAIN hopInfo : hopInfo[j].name = n /\ hopInfo[j].previous = FirstHop(hopInfo, m)
      BY <1>0, <3>1, <3>2, <3>4 DEF SeenInv
    <3> DEFINE g == FirstHop(hopInfo, m)
    <3>6. g # 0 /\ g \in DOMAIN hopInfo /\ g <= i
      BY <1>0, <3>3, FirstHopIs
    <3>7. d[g] <= d[i] /\ d[i] \in Nat /\ d[g] \in Nat
      BY <1>0, <3>6 DEF HopsInv
    <3>8. d[j] = d[g] + 1
      BY <1>0, <3>5, <3>6, PreviousHop
    <3>9. d[j] <= k
      BY <2>1, <3>3, <3>7, <3>8
    <3> QED
      BY <1>3, <3>5, <3>9
  <2> QED
    BY <2>4, <2>5
<1> QED
  BY <1>4, <1>5

\* A path leads to the own node, and passes no node twice unless states
\* contradict each other.
LEMMA PathIs ==
    ASSUME NodesInv, CostInv, NEW d, Searched(d), NEW i \in DOMAIN paths
    PROVE  /\ paths[i].nodes \in Seq(Nodes) /\ Len(paths[i].nodes) \in Nat /\ Len(paths[i].nodes) > 0
           /\ Last(paths[i].nodes) = Own
           /\ \A k \in 1 .. Len(paths[i].nodes) - 1 : Linked(paths[i].nodes[k + 1], paths[i].nodes[k])
           /\ OneSided \/ \A j, k \in DOMAIN paths[i].nodes :
                           j < k => paths[i].nodes[j] # paths[i].nodes[k]
<1>1. /\ HopsInv(hopInfo, traversedNodes, d) /\ SeenInv(hopInfo, traversedNodes) /\ PathsInv(d)
  BY DEF Searched, SearchInv
<1>2. hopInfo \in Seq(Hop) /\ Len(hopInfo) \in Nat /\ DOMAIN hopInfo = 1 .. Len(hopInfo)
  BY <1>1 DEF HopsInv
<1>3. i \in DOMAIN hopInfo
  <2>1. paths \in Seq([nodes : Seq(Nodes), cost : Nat]) /\ Len(paths) <= Len(hopInfo)
    BY <1>1 DEF CostInv, PathsInv
  <2>2. DOMAIN paths = 1 .. Len(paths) /\ Len(paths) \in Nat
    BY <2>1
  <2> QED
    BY <1>2, <2>1, <2>2
<1>4. PICK c \in Seq(DOMAIN hopInfo) : Chain(c, Start(i), d) /\ paths[i].nodes = NamesOf(c)
  BY <1>1 DEF PathsInv
<1>5. /\ NamesOf(c) \in Seq(Nodes) /\ Len(NamesOf(c)) \in Nat /\ Len(NamesOf(c)) > 0
      /\ Last(NamesOf(c)) = Own
      /\ \A k \in 1 .. Len(NamesOf(c)) - 1 : Linked(NamesOf(c)[k + 1], NamesOf(c)[k])
  BY <1>1, <1>4, ChainIsLinked
<1>6. Start(i) \in DOMAIN hopInfo /\ ~TurnsBack(Start(i))
  BY <1>1, <1>3, StartGoesOn
<1>7. OneSided \/ \A j, k \in DOMAIN NamesOf(c) : j < k => NamesOf(c)[j] # NamesOf(c)[k]
  BY <1>1, <1>4, <1>6, ChainIsDistinct
<1> QED
  BY <1>4, <1>5, <1>7

\* The invariant of the search makes the paths sound.
LEMMA RoutesFromSearch ==
    ASSUME NodesInv, CostInv, NEW d, Searched(d)
    PROVE  RoutesSound
<1>1. /\ HopsInv(hopInfo, traversedNodes, d) /\ SeenInv(hopInfo, traversedNodes)
      /\ SearchInv(hopInfo, traversalNodes, traversedNodes, d) /\ PathsInv(d) /\ CheckInv(d)
  BY DEF Searched, SearchInv
<1>2. hopInfo \in Seq(Hop) /\ Len(hopInfo) \in Nat /\ DOMAIN hopInfo = 1 .. Len(hopInfo)
  BY <1>1 DEF HopsInv
<1>3. paths \in Seq([nodes : Seq(Nodes), cost : Nat]) /\ DOMAIN paths \subseteq DOMAIN hopInfo
  <2>1. paths \in Seq([nodes : Seq(Nodes), cost : Nat]) /\ Len(paths) <= Len(hopInfo)
    BY <1>1 DEF CostInv, PathsInv
  <2>2. DOMAIN paths = 1 .. Len(paths) /\ Len(paths) \in Nat
    BY <2>1
  <2> QED
    BY <1>2, <2>1, <2>2
<1>4. ASSUME NEW i \in DOMAIN paths
      PROVE  LET nodes == paths[i].nodes IN
             /\ Last(nodes) = Own
             /\ \A k \in 1 .. Len(nodes) - 1 : Linked(nodes[k + 1], nodes[k])
             /\ Distinct(nodes) \/ OneSided
  <2>1. /\ paths[i].nodes \in Seq(Nodes) /\ Last(paths[i].nodes) = Own
        /\ \A k \in 1 .. Len(paths[i].nodes) - 1 : Linked(paths[i].nodes[k + 1], paths[i].nodes[k])
        /\ OneSided \/ \A j, k \in DOMAIN paths[i].nodes :
                        j < k => paths[i].nodes[j] # paths[i].nodes[k]
    BY PathIs
  <2> QED
    BY <2>1, InjectiveIsDistinct
<1>5. ASSUME Len(paths) > 0, Len(paths) = Len(hopInfo),
             NEW k \in DOMAIN Within, NEW n \in Within[k],
             n \notin UNION {Within[j] : j \in 0 .. k - 1}
      PROVE  LET first == FirstHop(hopInfo, n)
             IN  first # 0 /\ paths[first].nodes[1] = n /\ Len(paths[first].nodes) = k + 1
  <2> DEFINE N == Cardinality(Nodes)
             f == FirstHop(hopInfo, n)
  <2>1. N \in Nat
    BY PlacementAssumption, FS_CardinalityType
  <2>2. IsReach(Within, N)
    BY WithinIs
  <2>3. k \in 0 .. N /\ DOMAIN Within = 0 .. N
    BY <2>2 DEF IsReach
  <2>4. traversalNodes = <<>>
    BY <1>1, <1>5 DEF CheckInv
  <2> HIDE DEF N
  <2>5. PICK i \in DOMAIN hopInfo : hopInfo[i].name = n /\ d[i] <= k
    BY <1>1, <2>1, <2>2, <2>3, <2>4, WithinHasHops
  <2>6. f # 0 /\ f \in DOMAIN hopInfo /\ hopInfo[f].name = n /\ f <= i
    BY <1>2, <2>5, FirstHopIs
  <2> HIDE DEF f
  <2>7. d[f] <= d[i] /\ d[i] \in Nat /\ d[f] \in Nat
    BY <1>1, <2>6 DEF HopsInv
  <2>8. d[f] \in 0 .. N /\ d[f] <= k /\ k \in Nat
    BY <2>1, <2>3, <2>5, <2>7
  <2>9. n \in Within[d[f]]
    BY <1>1, <2>1, <2>2, <2>6, <2>8, HopsAreWithin
  <2>10. d[f] \notin 0 .. k - 1
    BY <1>5, <2>9
  <2>11. d[f] = k
    BY <2>7, <2>8, <2>10
  <2>12. f \in DOMAIN paths
    BY <1>2, <1>3, <1>5, <2>6
  <2>13. Start(f) = f
    BY <1>1, <2>6, FirstHopGoesOn DEF Start, f
  <2>14. PICK c \in Seq(DOMAIN hopInfo) : Chain(c, f, d) /\ paths[f].nodes = NamesOf(c)
    BY <1>1, <2>12, <2>13 DEF PathsInv
  <2>15. /\ Len(NamesOf(c)) = Len(c) /\ Len(c) \in Nat /\ Len(c) > 0
         /\ \A l \in DOMAIN c : NamesOf(c)[l] = hopInfo[c[l]].name
    BY <1>1, <2>14, ChainIsLinked
  <2>16. 1 \in DOMAIN c /\ c[1] = f /\ d[c[1]] = Len(c) - 1
    BY <2>14, <2>15 DEF Chain
  <2>17. NamesOf(c)[1] = n /\ Len(c) = k + 1
    BY <2>6, <2>8, <2>11, <2>15, <2>16
  <2> QED
    BY <2>6, <2>14, <2>15, <2>17 DEF f
<1>6. ASSUME Len(paths) > 0, Len(paths) = Len(hopInfo)
      PROVE  LET reach == Within IN
             \A k \in DOMAIN reach : \A n \in reach[k] \ UNION {reach[j] : j \in 0 .. k - 1} :
               LET first == FirstHop(hopInfo, n)
               IN  first # 0 /\ paths[first].nodes[1] = n /\ Len(paths[first].nodes) = k + 1
  BY <1>5, <1>6
<1> QED
  BY <1>4, <1>6 DEF RoutesSound

\* Before the search there are no paths.
LEMMA RoutesBefore ==
    ASSUME paths = <<>>
    PROVE  RoutesSound
<1>1. Len(paths) = 0 /\ DOMAIN paths = {}
  OBVIOUS
<1> QED
  BY <1>1 DEF RoutesSound

\* RoutesSound, of every network, every set of reports and every query: the
\* paths that Placement.buildPaths weighs lead over reported links to the own
\* node, without circles unless two nodes contradict each other, and include a
\* shortest one to every node that can be reached.
THEOREM RoutesAlwaysSound == Spec => []RoutesSound
<1>1. SearchingInv => RoutesSound
  BY RoutesFromSearch, RoutesBefore DEF SearchingInv, Unsearched
<1> QED
  BY <1>1, SearchingAlways, PTL

-----------------------------------------------------------------------------
(***************************************************************************)
(* The tree of operators.                                                  *)
(***************************************************************************)
\* The operands of an operator are the queries nested in it, and have larger
\* numbers.
LEMMA OperandsAre ==
    ASSUME NEW q, IsQuery(q), NEW o \in DOMAIN q.type
    PROVE  /\ o \in Nat /\ o > 0 /\ o \in DOMAIN q.nested
           /\ \A p : p \in Operands(q, o) <=> \E i \in DOMAIN q.nested[o] : q.nested[o][i] = p
           /\ \A p \in Operands(q, o) : p \in DOMAIN q.type /\ p > o /\ p # 0
           /\ Left(q, o) # 0 => Left(q, o) \in Operands(q, o)
           /\ Right(q, o) # 0 => Right(q, o) \in Operands(q, o)
           /\ Left(q, o) # 0 => Left(q, o) # Right(q, o)
           /\ Left(q, o) = 0 => Right(q, o) = 0
<1> DEFINE n == Len(q.type)
           s == q.nested[o]
<1>1. q.type \in Seq(Operators) /\ q.nested \in Seq(Seq(1 .. n)) /\ Len(q.nested) = n
  BY DEF IsQuery
<1>2. n \in Nat /\ DOMAIN q.type = 1 .. n /\ DOMAIN q.nested = 1 .. n
  BY <1>1
<1>3. s \in Seq(1 .. n) /\ Len(s) <= 2 /\ Len(s) \in Nat /\ DOMAIN s = 1 .. Len(s)
  BY <1>1, <1>2 DEF IsQuery
<1>4. \A i \in DOMAIN s : s[i] \in 1 .. n /\ s[i] > o
  <2>1. \A p \in DOMAIN q.nested : \A i \in DOMAIN q.nested[p] : q.nested[p][i] > p
    BY DEF IsQuery
  <2>2. \A i \in DOMAIN s : s[i] > o
    BY <1>2, <2>1
  <2> HIDE DEF n, s
  <2>3. \A i \in DOMAIN s : s[i] \in 1 .. n
    BY <1>3, ElementOfSeq, Zenon
  <2> QED
    BY <2>2, <2>3
<1>5. \A i, j \in DOMAIN s : s[i] = s[j] => i = j
  BY <1>2 DEF IsQuery
<1> HIDE DEF n
<1>6. o \in Nat /\ o > 0
  BY <1>2
<1>7. Left(q, o) = IF s # <<>> THEN s[1] ELSE 0
  BY DEF Left
<1>8. Right(q, o) = IF Len(s) = 2 THEN s[2] ELSE 0
  BY DEF Right
<1> HIDE DEF s
<1>9. CASE Len(s) = 0
  <2>1. DOMAIN s = {} /\ s = <<>>
    BY <1>3, <1>9
  <2>2. Left(q, o) = 0 /\ Right(q, o) = 0
    BY <1>7, <1>8, <1>9, <2>1
  <2> QED
    BY <1>2, <1>6, <2>1, <2>2 DEF Operands, s
<1>10. CASE Len(s) = 1
  <2>1. DOMAIN s = {1} /\ s # <<>>
    <3>1. DOMAIN s = 1 .. 1
      BY <1>3, <1>10
    <3>2. s # <<>>
      BY <1>10
    <3> QED
      BY <3>1, <3>2
  <2>2. Left(q, o) = s[1] /\ Right(q, o) = 0 /\ s[1] \in 1 .. n /\ s[1] > o /\ s[1] # 0
    BY <1>2, <1>4, <1>7, <1>8, <1>10, <2>1
  <2> QED
    BY <1>2, <1>6, <2>1, <2>2 DEF Operands, s
<1>11. CASE Len(s) = 2
  <2>1. DOMAIN s = {1, 2} /\ s # <<>>
    BY <1>3, <1>11
  <2>2. Left(q, o) = s[1] /\ Right(q, o) = s[2] /\ s[1] # s[2]
    BY <1>5, <1>7, <1>8, <1>11, <2>1
  <2>3. s[1] \in 1 .. n /\ s[1] > o /\ s[1] # 0 /\ s[2] \in 1 .. n /\ s[2] > o /\ s[2] # 0
    BY <1>2, <1>4, <2>1
  <2> QED
    BY <1>2, <1>6, <2>1, <2>2, <2>3 DEF Operands, s
<1> QED
  BY <1>3, <1>9, <1>10, <1>11

\* Every operator but the root is an operand of exactly one, with a smaller
\* number.
LEMMA OneParent ==
    ASSUME NEW q, IsQuery(q)
    PROVE  /\ 1 \in DOMAIN q.type /\ DOMAIN q.type = 1 .. Len(q.type) /\ Len(q.type) \in Nat
           /\ \A o \in DOMAIN q.type : o # 1 => \E p \in DOMAIN q.type : o \in Operands(q, p) /\ p < o
           /\ \A o, p, r \in DOMAIN q.type : o \in Operands(q, p) /\ o \in Operands(q, r) => p = r
<1>1. /\ q.type \in Seq(Operators) /\ Len(q.type) > 0 /\ q.nested \in Seq(Seq(1 .. Len(q.type)))
      /\ Len(q.nested) = Len(q.type)
  BY DEF IsQuery
<1>2. DOMAIN q.type = 1 .. Len(q.type) /\ Len(q.type) \in Nat /\ DOMAIN q.nested = DOMAIN q.type
      /\ 1 \in DOMAIN q.type
  BY <1>1
<1>3. ASSUME NEW o \in DOMAIN q.type, o # 1
      PROVE  \E p \in DOMAIN q.type : o \in Operands(q, p) /\ p < o
  <2>1. o \in 2 .. Len(q.type)
    BY <1>2, <1>3
  <2>2. PICK p \in DOMAIN q.nested : \E i \in DOMAIN q.nested[p] : q.nested[p][i] = o
    BY <2>1 DEF IsQuery
  <2>3. o \in Operands(q, p) /\ o > p /\ p \in Nat /\ o \in Nat
    BY <1>2, <2>2, OperandsAre
  <2> QED
    BY <1>2, <2>2, <2>3
<1>4. ASSUME NEW o \in DOMAIN q.type, NEW p \in DOMAIN q.type, NEW r \in DOMAIN q.type,
             o \in Operands(q, p), o \in Operands(q, r)
      PROVE  p = r
  <2>1. \E i \in DOMAIN q.nested[p] : q.nested[p][i] = o
    BY <1>4, OperandsAre
  <2>2. \E i \in DOMAIN q.nested[r] : q.nested[r][i] = o
    BY <1>4, OperandsAre
  <2>3. \A o1, o2 \in DOMAIN q.nested : \A i \in DOMAIN q.nested[o1], j \in DOMAIN q.nested[o2] :
          q.nested[o1][i] = q.nested[o2][j] => o1 = o2
    BY DEF IsQuery
  <2> QED
    BY <1>2, <2>1, <2>2, <2>3
<1> QED
  BY <1>2, <1>3, <1>4

\* The root and everything below it are all operators.
LEMMA AllBelowRoot ==
    ASSUME NEW q, IsQuery(q), NEW S \in SUBSET DOMAIN q.type, 1 \in S,
           \A o \in S : Operands(q, o) \subseteq S
    PROVE  S = DOMAIN q.type
<1> DEFINE T == DOMAIN q.type \ S
<1> SUFFICES ASSUME T # {} PROVE FALSE
  OBVIOUS
<1>1. T \in SUBSET Nat
  BY OneParent
<1>2. PICK o \in T : \A p \in T : o <= p
  BY <1>1, SmallestOf
<1>3. PICK p \in DOMAIN q.type : o \in Operands(q, p) /\ p < o
  BY <1>2, OneParent
<1>4. p \in Nat /\ o \in Nat
  BY <1>1, <1>2, <1>3, OneParent
<1>5. p \in S
  BY <1>2, <1>3, <1>4
<1> QED
  BY <1>2, <1>3, <1>5

\* The operator above another one.
LEMMA ParentIs ==
    ASSUME IsQuery(query), NEW o \in Ops, o # 1
    PROVE  Parent(o) \in Ops /\ o \in Operands(query, Parent(o))
<1>1. \E p \in Ops : o \in Operands(query, p)
  BY OneParent DEF Ops
<1> QED
  BY <1>1 DEF Parent

\* An operator and everything below it.
BranchOf(q, o) ==
  {p \in DOMAIN q.type : \A S \in SUBSET DOMAIN q.type :
     o \in S /\ (\A x \in S : Operands(q, x) \subseteq S) => p \in S}

LEMMA BranchIs ==
    ASSUME NEW q, IsQuery(q), NEW o \in DOMAIN q.type
    PROVE  /\ o \in BranchOf(q, o) /\ BranchOf(q, o) \in SUBSET DOMAIN q.type
           /\ \A x \in BranchOf(q, o) : Operands(q, x) \subseteq BranchOf(q, o)
           /\ \A S \in SUBSET DOMAIN q.type :
                o \in S /\ (\A x \in S : Operands(q, x) \subseteq S) => BranchOf(q, o) \subseteq S
           /\ \A x \in BranchOf(q, o) : x >= o
           /\ \A x \in BranchOf(q, o) : x # o => \E y \in BranchOf(q, o) : x \in Operands(q, y)
<1> DEFINE D == BranchOf(q, o)
           Closed(S) == o \in S /\ \A x \in S : Operands(q, x) \subseteq S
<1>1. o \in D /\ D \in SUBSET DOMAIN q.type
  BY DEF BranchOf
<1>2. \A S \in SUBSET DOMAIN q.type : Closed(S) => D \subseteq S
  BY DEF BranchOf
<1>3. \A x \in D : Operands(q, x) \subseteq D
  <2> SUFFICES ASSUME NEW x \in D, NEW p \in Operands(q, x) PROVE p \in D
    OBVIOUS
  <2>1. p \in DOMAIN q.type
    BY <1>1, OperandsAre
  <2>2. ASSUME NEW S \in SUBSET DOMAIN q.type, Closed(S) PROVE p \in S
    BY <1>2, <2>2
  <2> QED
    BY <2>1, <2>2 DEF BranchOf
<1> HIDE DEF D
<1>4. \A x \in D : x >= o
  <2> DEFINE S == {x \in DOMAIN q.type : x >= o}
  <2>1. \A x \in DOMAIN q.type : x \in Nat
    BY OneParent
  <2>2. o \in S
    BY <2>1
  <2>3. ASSUME NEW x \in S, NEW p \in Operands(q, x) PROVE p \in S
    <3>1. p \in DOMAIN q.type /\ p > x /\ x >= o
      BY OperandsAre
    <3> QED
      BY <2>1, <3>1
  <2> QED
    BY <1>2, <2>2, <2>3
<1>5. \A x \in D : x # o => \E y \in D : x \in Operands(q, y)
  <2> DEFINE S == {x \in D : x = o \/ \E y \in D : x \in Operands(q, y)}
  <2>1. Closed(S)
    BY <1>1, <1>3
  <2>2. D \subseteq S
    BY <1>1, <1>2, <2>1
  <2> QED
    BY <2>2
<1> QED
  BY <1>1, <1>2, <1>3, <1>4, <1>5 DEF D

\* A branch is its root and the branches of the operands, which share nothing.
LEMMA BranchSplits ==
    ASSUME NEW q, IsQuery(q), NEW o \in DOMAIN q.type
    PROVE  /\ BranchOf(q, o) = {o} \cup UNION {BranchOf(q, p) : p \in Operands(q, o)}
           /\ \A p, r \in Operands(q, o) : p # r => BranchOf(q, p) \cap BranchOf(q, r) = {}
           /\ \A p \in Operands(q, o) : o \notin BranchOf(q, p)
<1> DEFINE D(p) == BranchOf(q, p)
<1>1. \A p \in Operands(q, o) : p \in DOMAIN q.type /\ p > o
  BY OperandsAre
<1>2. \A p \in DOMAIN q.type : p \in Nat
  BY OneParent
<1>3. D(o) = {o} \cup UNION {D(p) : p \in Operands(q, o)}
  <2> DEFINE S == {o} \cup UNION {D(p) : p \in Operands(q, o)}
  <2>1. \A p \in Operands(q, o) : /\ p \in D(p) /\ D(p) \in SUBSET DOMAIN q.type
                                  /\ \A x \in D(p) : Operands(q, x) \subseteq D(p)
    BY <1>1, BranchIs
  <2>2. S \in SUBSET DOMAIN q.type /\ o \in S
    BY <2>1
  <2>3. \A x \in S : Operands(q, x) \subseteq S
    BY <2>1
  <2>4. D(o) \subseteq S
    <3>1. \A T \in SUBSET DOMAIN q.type :
             o \in T /\ (\A x \in T : Operands(q, x) \subseteq T) => D(o) \subseteq T
      BY BranchIs
    <3> HIDE DEF D, S
    <3> QED
      BY <2>2, <2>3, <3>1
  <2>5. ASSUME NEW p \in Operands(q, o) PROVE D(p) \subseteq D(o)
    <3>1. p \in D(o) /\ D(o) \in SUBSET DOMAIN q.type /\ \A x \in D(o) : Operands(q, x) \subseteq D(o)
      BY BranchIs
    <3> QED
      BY <1>1, <3>1, BranchIs
  <2>6. o \in D(o)
    BY BranchIs
  <2> QED
    BY <2>4, <2>5, <2>6
<1>4. ASSUME NEW p \in Operands(q, o), NEW r \in Operands(q, o), p # r
      PROVE  p \notin D(r)
  <2> SUFFICES ASSUME p \in D(r) PROVE FALSE
    OBVIOUS
  <2>1. PICK y \in D(r) : p \in Operands(q, y)
    BY <1>1, <1>4, BranchIs
  <2>2. y \in DOMAIN q.type /\ y >= r
    BY <1>1, BranchIs
  <2>3. y = o
    BY <1>1, <2>1, <2>2, OneParent
  <2> QED
    BY <1>1, <1>2, <2>2, <2>3
<1>5. ASSUME NEW p \in Operands(q, o), NEW r \in Operands(q, o), p # r
      PROVE  D(p) \cap D(r) = {}
  <2> DEFINE T == D(p) \cap D(r)
  <2> SUFFICES ASSUME T # {} PROVE FALSE
    OBVIOUS
  <2>1. D(p) \in SUBSET DOMAIN q.type /\ D(r) \in SUBSET DOMAIN q.type
    BY <1>1, BranchIs
  <2>2. T \in SUBSET Nat
    BY <1>2, <2>1
  <2>3. PICK x \in T : \A y \in T : x <= y
    BY <2>2, SmallestOf
  <2>4. x # p /\ x # r
    BY <1>4, <1>5, <2>3
  <2>5. PICK y \in D(p) : x \in Operands(q, y)
    BY <1>1, <2>3, <2>4, BranchIs
  <2>6. PICK z \in D(r) : x \in Operands(q, z)
    BY <1>1, <2>3, <2>4, BranchIs
  <2>7. y \in DOMAIN q.type /\ z \in DOMAIN q.type /\ x \in DOMAIN q.type
    BY <2>1, <2>3, <2>5, <2>6
  <2>8. y = z /\ x > y
    BY <2>5, <2>6, <2>7, OneParent, OperandsAre
  <2>9. x <= y /\ x \in Nat /\ y \in Nat
    BY <1>2, <2>3, <2>5, <2>6, <2>7, <2>8
  <2> QED
    BY <2>8, <2>9
<1>6. ASSUME NEW p \in Operands(q, o), o \in D(p) PROVE FALSE
  <2>1. o >= p
    BY <1>1, <1>6, BranchIs
  <2> QED
    BY <1>1, <1>2, <2>1
<1> QED
  BY <1>3, <1>5, <1>6

\* So the sizes of branches satisfy the equation that counts operators.
LEMMA BranchCounts ==
    ASSUME NEW q, IsQuery(q), NEW o \in DOMAIN q.type
    PROVE  /\ IsFiniteSet(BranchOf(q, o)) /\ Cardinality(BranchOf(q, o)) \in Nat
           /\ Cardinality(BranchOf(q, o)) =
                1 + (IF Left(q, o) # 0 THEN Cardinality(BranchOf(q, Left(q, o))) ELSE 0)
                  + (IF Right(q, o) # 0 THEN Cardinality(BranchOf(q, Right(q, o))) ELSE 0)
<1> DEFINE D(p) == BranchOf(q, p)
           l == Left(q, o)
           r == Right(q, o)
<1>1. IsFiniteSet(DOMAIN q.type)
  <2>1. DOMAIN q.type = 1 .. Len(q.type) /\ Len(q.type) \in Int /\ 1 \in Int
    BY OneParent
  <2>2. IsFiniteSet(1 .. Len(q.type))
    BY <2>1, FS_Interval
  <2> QED
    BY <2>1, <2>2
<1>2. \A p \in DOMAIN q.type : IsFiniteSet(D(p)) /\ Cardinality(D(p)) \in Nat
  <2>1. \A p \in DOMAIN q.type : D(p) \in SUBSET DOMAIN q.type
    BY BranchIs
  <2>2. \A p \in DOMAIN q.type : IsFiniteSet(D(p))
    BY <1>1, <2>1, FS_Subset
  <2> QED
    BY <2>2, FS_CardinalityType
<1>3. /\ D(o) = {o} \cup UNION {D(p) : p \in Operands(q, o)}
      /\ \A p, s \in Operands(q, o) : p # s => D(p) \cap D(s) = {}
      /\ \A p \in Operands(q, o) : o \notin D(p)
  BY BranchSplits
<1>4. /\ Operands(q, o) = {l, r} \ {0}
      /\ \A p \in Operands(q, o) : p \in DOMAIN q.type
      /\ l # 0 => l # r
      /\ l = 0 => r = 0
  BY OperandsAre DEF Operands
<1> HIDE DEF D, l, r
<1>5. CASE l = 0
  <2>1. D(o) = {o} /\ r = 0
    BY <1>3, <1>4, <1>5
  <2>2. Cardinality(D(o)) = 1
    BY <2>1, FS_Singleton
  <2> QED
    BY <1>2, <1>5, <2>1, <2>2 DEF D, l, r
<1>6. CASE l # 0 /\ r = 0
  <2>1. D(o) = D(l) \cup {o} /\ o \notin D(l) /\ l \in DOMAIN q.type
    BY <1>3, <1>4, <1>6
  <2>2. Cardinality(D(o)) = Cardinality(D(l)) + 1
    BY <1>2, <2>1, FS_AddElement
  <2> QED
    BY <1>2, <1>6, <2>1, <2>2 DEF D, l, r
<1>7. CASE l # 0 /\ r # 0
  <2>1. D(o) = (D(l) \cup D(r)) \cup {o} /\ o \notin D(l) \cup D(r) /\ D(l) \cap D(r) = {}
        /\ l \in DOMAIN q.type /\ r \in DOMAIN q.type
    BY <1>3, <1>4, <1>7
  <2>2. IsFiniteSet(D(l) \cup D(r))
        /\ Cardinality(D(l) \cup D(r)) = Cardinality(D(l)) + Cardinality(D(r)) - Cardinality(D(l) \cap D(r))
    BY <1>2, <2>1, FS_Union
  <2>3. Cardinality({}) = 0
    BY FS_EmptySet
  <2>4. Cardinality(D(l)) \in Nat /\ Cardinality(D(r)) \in Nat
    BY <1>2, <2>1
  <2>5. Cardinality(D(l) \cup D(r)) = Cardinality(D(l)) + Cardinality(D(r)) - 0
    BY <2>1, <2>2, <2>3
  <2>6. Cardinality(D(o)) = Cardinality(D(l) \cup D(r)) + 1
    BY <2>1, <2>2, FS_AddElement
  <2>7. Cardinality(D(o)) = 1 + Cardinality(D(l)) + Cardinality(D(r))
    BY <2>4, <2>5, <2>6
  <2>8. IsFiniteSet(D(o)) /\ Cardinality(D(o)) \in Nat
    BY <1>2
  <2> QED
    BY <1>7, <2>7, <2>8 DEF D, l, r
<1> QED
  BY <1>5, <1>6, <1>7

\* The depth that Placement compares with the nodes of a path is the number of
\* the operators.
LEMMA DepthIsCount ==
    ASSUME NEW q, IsQuery(q), CheckParameters(q)
    PROVE  DepthCalc(q) = Cardinality(DOMAIN q.type)
<1> DEFINE O == DOMAIN q.type
           Count(f) == [o \in O |-> 1 + (IF Left(q, o) # 0 THEN f[Left(q, o)] ELSE 0)
                                      + (IF Right(q, o) # 0 THEN f[Right(q, o)] ELSE 0)]
           g == [o \in O |-> Cardinality(BranchOf(q, o))]
           c == CHOOSE f : f = Count(f)
<1>1. DepthCalc(q) = c[1]
  BY DEF DepthCalc
<1>2. \A o \in O : (Left(q, o) # 0 => Left(q, o) \in O /\ Left(q, o) > o)
                /\ (Right(q, o) # 0 => Right(q, o) \in O /\ Right(q, o) > o)
  BY OperandsAre
<1>3. g = Count(g)
  <2>1. \A o \in O : g[o] = Count(g)[o]
    <3> TAKE o \in O
    <3>1. Left(q, o) # 0 => g[Left(q, o)] = Cardinality(BranchOf(q, Left(q, o)))
      BY <1>2
    <3>2. Right(q, o) # 0 => g[Right(q, o)] = Cardinality(BranchOf(q, Right(q, o)))
      BY <1>2
    <3> QED
      BY <3>1, <3>2, BranchCounts
  <2> QED
    BY <2>1
<1>4. c = Count(c)
  BY <1>3
<1> HIDE DEF c
<1>5. \A o \in O : c[o] = 1 + (IF Left(q, o) # 0 THEN c[Left(q, o)] ELSE 0)
                            + (IF Right(q, o) # 0 THEN c[Right(q, o)] ELSE 0)
  BY <1>4
<1>6. \A o \in O : g[o] = 1 + (IF Left(q, o) # 0 THEN g[Left(q, o)] ELSE 0)
                            + (IF Right(q, o) # 0 THEN g[Right(q, o)] ELSE 0)
  BY <1>3
<1>7. O = 1 .. Len(q.type) /\ Len(q.type) \in Nat /\ 1 \in O
  BY OneParent
<1> HIDE DEF g, O, Count
<1>8. \A o \in O : c[o] = g[o]
  <2> DEFINE Bad == {i \in 0 .. Len(q.type) : \E o \in O : o = Len(q.type) - i /\ c[o] # g[o]}
  <2>1. Bad = {}
    <3> SUFFICES ASSUME Bad # {} PROVE FALSE
      OBVIOUS
    <3>1. Bad \in SUBSET Nat
      BY <1>7
    <3>2. PICK i \in Bad : \A j \in Bad : i <= j
      BY <3>1, SmallestOf
    <3>3. PICK o \in O : o = Len(q.type) - i /\ c[o] # g[o]
      BY <3>2
    <3>4. ASSUME NEW p \in O, p > o PROVE c[p] = g[p]
      <4> DEFINE j == Len(q.type) - p
      <4>1. j \in 0 .. Len(q.type) /\ p = Len(q.type) - j /\ ~(i <= j)
        BY <1>7, <3>1, <3>2, <3>3, <3>4
      <4>2. j \notin Bad
        BY <3>2, <4>1
      <4> QED
        BY <4>1, <4>2
    <3> QED
      BY <1>2, <1>5, <1>6, <3>3, <3>4 DEF O
  <2>2. \A o \in O : Len(q.type) - o \in 0 .. Len(q.type) /\ o = Len(q.type) - (Len(q.type) - o)
    BY <1>7
  <2> QED
    BY <2>1, <2>2
<1>9. BranchOf(q, 1) = DOMAIN q.type
  BY <1>7, BranchIs, AllBelowRoot DEF O
<1> QED
  BY <1>1, <1>7, <1>8, <1>9 DEF O, g

-----------------------------------------------------------------------------
(***************************************************************************)
(* The path that is chosen.                                                *)
(***************************************************************************)
\* The members of a sequence of records.
LEMMA PathsAre ==
    ASSUME NEW S, NEW s \in Seq(S)
    PROVE  \A i \in DOMAIN s : s[i] \in S
OBVIOUS

\* There is a first among the cheapest paths.
LEMMA CheapestIs ==
    ASSUME CostInv, NEW S \in SUBSET DOMAIN paths, S # {}
    PROVE  Cheapest(S) \in S
<1>1. paths \in Seq([nodes : Seq(Nodes), cost : Nat])
  BY DEF CostInv
<1>2. \A i \in S : i \in Nat /\ paths[i].cost \in Nat
  <2>1. \A i \in DOMAIN paths : i \in Nat
    BY <1>1
  <2>2. \A i \in DOMAIN paths : paths[i] \in [nodes : Seq(Nodes), cost : Nat]
    BY <1>1, PathsAre
  <2> QED
    BY <2>1, <2>2
<1> DEFINE Costs == {paths[i].cost : i \in S}
<1>3. Costs \in SUBSET Nat /\ Costs # {}
  BY <1>2
<1>4. PICK c \in Costs : \A k \in Costs : c <= k
  BY <1>3, SmallestOf
<1> DEFINE T == {i \in S : paths[i].cost = c}
<1>5. T \in SUBSET Nat /\ T # {}
  BY <1>2, <1>4
<1>6. PICK i \in T : \A j \in T : i <= j
  BY <1>5, SmallestOf
<1>7. \A j \in S : \/ paths[i].cost < paths[j].cost
                   \/ paths[i].cost = paths[j].cost /\ i <= j
  <2> TAKE j \in S
  <2>1. c <= paths[j].cost /\ c \in Nat /\ paths[j].cost \in Nat /\ paths[i].cost = c
    BY <1>2, <1>3, <1>4, <1>6
  <2>2. paths[j].cost = c => i <= j
    BY <1>6
  <2>3. c < paths[j].cost \/ c = paths[j].cost
    BY <2>1
  <2> QED
    BY <2>1, <2>2, <2>3
<1>8. i \in S
  BY <1>6
<1> QED
  BY <1>7, <1>8 DEF Cheapest

\* The paths that are turned round.
LEMMA ReverseIs ==
    ASSUME NEW S, NEW s \in Seq(S)
    PROVE  /\ Reverse(s) \in Seq(S) /\ Len(Reverse(s)) = Len(s)
           /\ \A i \in 1 .. Len(s) : Reverse(s)[i] = s[Len(s) - i + 1]
<1>1. Len(s) \in Nat /\ DOMAIN s = 1 .. Len(s)
  OBVIOUS
<1>2. Reverse(s) = [i \in 1 .. Len(s) |-> s[(Len(s) - i) + 1]]
  BY DEF Reverse
<1>3. \A i \in 1 .. Len(s) : (Len(s) - i) + 1 \in 1 .. Len(s)
  BY <1>1
<1>4. \A i \in 1 .. Len(s) : s[(Len(s) - i) + 1] \in S
  BY <1>1, <1>3
<1> QED
  BY <1>1, <1>2, <1>4

\* The chosen path has a node for each operator, begins on the own node and
\* has no node twice.
LEMMA ChosenIs ==
    ASSUME NodesInv, CostInv, NEW d, Searched(d), IsQuery(query), Fitting # {}
    PROVE  LET r == Reverse(paths[Cheapest(Fitting)].nodes) IN
           /\ r \in Seq(Nodes) /\ Len(r) = Cardinality(Ops) /\ r # <<>> /\ r[1] = Own
           /\ OneSided \/ \A i, j \in DOMAIN r : i # j => r[i] # r[j]
<1> DEFINE c == Cheapest(Fitting)
           s == paths[c].nodes
           r == Reverse(s)
<1>1. Fitting = {i \in DOMAIN paths : Len(paths[i].nodes) = opCount}
  BY DEF Fitting, Admitted
<1>2. c \in DOMAIN paths /\ Len(paths[c].nodes) = opCount
  BY <1>1, CheapestIs
<1> HIDE DEF c
<1>3. /\ s \in Seq(Nodes) /\ Len(s) \in Nat /\ Len(s) > 0 /\ Last(s) = Own
      /\ OneSided \/ \A j, k \in DOMAIN s : j < k => s[j] # s[k]
  BY <1>2, PathIs
<1>4. Len(s) = Cardinality(Ops)
  <2>1. opCount > 0
    BY <1>2, <1>3
  <2>2. CheckParameters(query)
    BY <2>1 DEF opCount, DepthCalc
  <2> QED
    BY <1>2, <2>2, DepthIsCount DEF opCount, Ops
<1> HIDE DEF s
<1>5. r \in Seq(Nodes) /\ Len(r) = Len(s) /\ \A i \in 1 .. Len(s) : r[i] = s[Len(s) - i + 1]
  BY <1>3, ReverseIs
<1> HIDE DEF r
<1>6. r[1] = Own
  <2>1. r[1] = s[Len(s) - 1 + 1] /\ Len(s) - 1 + 1 = Len(s)
    BY <1>3, <1>5
  <2> QED
    BY <1>3, <2>1 DEF Last
<1>7. DOMAIN r = 1 .. Len(s) /\ DOMAIN s = 1 .. Len(s)
  BY <1>3, <1>5
<1>8. OneSided \/ \A i, j \in DOMAIN r : i # j => r[i] # r[j]
  <2> SUFFICES ASSUME ~OneSided, NEW i \in DOMAIN r, NEW j \in DOMAIN r, i # j PROVE r[i] # r[j]
    OBVIOUS
  <2> DEFINE k == Len(s) - i + 1
             l == Len(s) - j + 1
  <2>1. k \in DOMAIN s /\ l \in DOMAIN s /\ (k < l \/ l < k)
    BY <1>3, <1>7
  <2>2. r[i] = s[k] /\ r[j] = s[l]
    BY <1>5, <1>7
  <2> HIDE DEF k, l
  <2> QED
    BY <1>3, <2>1, <2>2
<1>9. r # <<>>
  BY <1>3, <1>5
<1> QED
  BY <1>4, <1>5, <1>6, <1>8, <1>9 DEF r, s, c

\* A query that is sent on goes to a node.
LEMMA SecondIs ==
    ASSUME CostInv, Longer # {}
    PROVE  SecondHop(Cheapest(Longer)) \in Nodes
<1> DEFINE c == Cheapest(Longer)
           s == paths[c].nodes
<1>1. Longer = {i \in DOMAIN paths : Len(paths[i].nodes) > 1}
  BY DEF Longer, Admitted
<1>2. c \in DOMAIN paths /\ Len(s) > 1
  BY <1>1, CheapestIs
<1>3. paths \in Seq([nodes : Seq(Nodes), cost : Nat])
  BY DEF CostInv
<1>4. s \in Seq(Nodes)
  <2>1. \A i \in DOMAIN paths : paths[i] \in [nodes : Seq(Nodes), cost : Nat]
    BY <1>3, PathsAre
  <2>2. paths[c] \in [nodes : Seq(Nodes), cost : Nat]
    BY <1>2, <2>1
  <2> QED
    BY <2>2
<1> HIDE DEF c, s
<1>5. Reverse(s) \in Seq(Nodes) /\ Len(Reverse(s)) = Len(s) /\ Len(s) \in Nat
  BY <1>4, ReverseIs
<1>6. Reverse(s)[2] \in Nodes
  BY <1>2, <1>5
<1> QED
  BY <1>6 DEF SecondHop, s, c

-----------------------------------------------------------------------------
(***************************************************************************)
(* The invariants of the placement.                                        *)
(***************************************************************************)
Phases == {"discovery", "stopped", "failed", "search", "placement",
           "deployment", "forwarded", "result", "done"}

TypesInv ==
  /\ phase \in Phases /\ algorithm \in {"Centralized", "Decentralized"}
  /\ query \in Queries
  /\ route \in Seq(Nodes) /\ currentNode \in Ops
  /\ executionNode \in [Ops -> Nodes \cup {NoNode}]
  /\ executed \subseteq Ops /\ value \in [Ops -> SUBSET Ops] /\ output \subseteq Ops

\* Until a path is chosen nothing is placed.
BeforeInv ==
  phase \in {"discovery", "search"} =>
    Placed = {} /\ executed = {} /\ currentNode = 1 /\ output = {}

\* While operators are placed, the walk is at one without a node; the nodes
\* that are left are as many as the operators without one, the own node comes
\* first and they run no operator yet.
PlacingInv ==
  phase = "placement" =>
    /\ 1 \notin Placed /\ currentNode \notin Placed /\ executed = {} /\ output = {}
    /\ Len(route) = Cardinality(Ops \ Placed) /\ route # <<>> /\ route[1] = Own
    /\ OneSided \/ /\ \A i, j \in DOMAIN route : i # j => route[i] # route[j]
                   /\ \A i \in DOMAIN route : \A o \in Placed : executionNode[o] # route[i]

\* Operands are placed first.
PlacedInv ==
  /\ \A o \in Placed : Below(o) \subseteq Placed
  /\ 1 \in Placed => executionNode[1] = Own
  /\ \A o, p \in Placed : o # p /\ executionNode[o] = executionNode[p] => OneSided

\* Once all are placed they are executed, operands first, and an operator that
\* was executed is not visited again.
DeployingInv ==
  /\ phase = "deployment" => 1 \in Placed /\ currentNode \notin executed /\ output = {}
  /\ executed # {} => 1 \in Placed
  /\ \A o \in executed : Below(o) \subseteq executed /\ Substituted(query, o) \subseteq executed

\* What the results are made of.
ResultsInv ==
  /\ \A o \in executed :
       value[o] = {} \/ value[o] = {o} \cup UNION {value[p] : p \in Substituted(query, o)}
  /\ output = {} \/ (1 \in executed /\ output = value[1])
  /\ phase = "done" => output # {}

PlacementInv ==
  TypesInv /\ BeforeInv /\ PlacingInv /\ PlacedInv /\ DeployingInv /\ ResultsInv

\* What does not change when neither the query nor the places do.
LEMMA PlacesStay ==
    ASSUME UNCHANGED <<query, executionNode>>
    PROVE  Ops' = Ops /\ Placed' = Placed /\ \A o : Below(o)' = Below(o)
BY DEF Ops, Placed, Below

LEMMA OneSidedStays ==
    ASSUME UNCHANGED allNodes
    PROVE  OneSided' = OneSided
BY NodesStay DEF OneSided

\* The query is one that can be submitted.
LEMMA QueryIs ==
    ASSUME PlacementInv
    PROVE  IsQuery(query) /\ Ops = DOMAIN query.type /\ 1 \in Ops /\ \A o \in Ops : o \in Nat
BY QueryAssumption, OneParent DEF PlacementInv, TypesInv, Ops

\* Once the root is placed or executed, so is every operator.
LEMMA AllPlaced ==
    ASSUME PlacementInv
    PROVE  /\ 1 \in Placed => Placed = Ops
           /\ 1 \in executed => executed = Ops
<1>1. IsQuery(query) /\ Ops = DOMAIN query.type
  BY QueryIs
<1>2. Placed \in SUBSET Ops /\ \A o \in Placed : Operands(query, o) \subseteq Placed
  BY DEF PlacementInv, PlacedInv, Placed, Below
<1>3. executed \in SUBSET Ops /\ \A o \in executed : Operands(query, o) \subseteq executed
  BY DEF PlacementInv, TypesInv, DeployingInv, Below
<1> QED
  BY <1>1, <1>2, <1>3, AllBelowRoot

\* The walk goes to an operand that is not done, or stays when there is none.
LEMMA UndoneIs ==
    ASSUME IsQuery(query), NEW o \in Ops, NEW done
    PROVE  /\ Undone(o, done) # o => Undone(o, done) \in Ops \ done /\ Undone(o, done) \in Below(o)
           /\ Undone(o, done) = o => Below(o) \subseteq done
<1>1. /\ \A p \in Below(o) : p \in Ops /\ p > o
      /\ Left(query, o) # 0 => Left(query, o) \in Below(o)
      /\ Right(query, o) # 0 => Right(query, o) \in Below(o)
      /\ Below(o) = {Left(query, o), Right(query, o)} \ {0} /\ o \in Nat
  BY OperandsAre DEF Ops, Below, Operands
<1>2. \A p \in Below(o) : p # o
  BY <1>1
<1> QED
  BY <1>1, <1>2 DEF Undone

\* Before the placement, nothing about it changes.
LEMMA BeforeKeeps ==
    ASSUME PlacementInv, phase \in {"discovery", "search"},
           UNCHANGED <<algorithm, query, placement>>,
           phase' \in {"discovery", "search", "stopped", "failed"}
    PROVE  PlacementInv'
<1>1. UNCHANGED <<route, currentNode, executionNode, executed, value, output>>
  BY DEF placement, results
<1>2. Ops' = Ops /\ Placed' = Placed /\ \A o : Below(o)' = Below(o)
  BY <1>1, PlacesStay
<1>3. Placed = {} /\ executed = {} /\ currentNode = 1 /\ output = {}
  BY DEF PlacementInv, BeforeInv
<1>4. TypesInv'
  BY <1>1, <1>2 DEF PlacementInv, TypesInv, Phases
<1>5. BeforeInv' /\ PlacingInv' /\ PlacedInv'
  BY <1>1, <1>2, <1>3 DEF BeforeInv, PlacingInv, PlacedInv
<1>6. DeployingInv'
  <2>1. phase' # "deployment" /\ executed' = {}
    BY <1>1, <1>3
  <2> QED
    BY <2>1 DEF DeployingInv
<1>7. ResultsInv'
  <2>1. phase' # "done" /\ executed' = {} /\ output' = {}
    BY <1>1, <1>3
  <2> QED
    BY <2>1 DEF ResultsInv
<1> QED
  BY <1>4, <1>5, <1>6, <1>7 DEF PlacementInv

\* A path is chosen, or the query is sent on.
LEMMA ChoosePathKeeps ==
    ASSUME PlacementInv, SearchingInv, ChoosePath
    PROVE  PlacementInv'
<1>1. /\ phase = "search" /\ phase' = "placement" /\ Fitting # {}
      /\ route' = Reverse(paths[Cheapest(Fitting)].nodes)
      /\ UNCHANGED <<algorithm, query, allNodes, currentNode, executionNode, executed, value, output>>
  BY DEF ChoosePath, PathsBuilt, discovery, results
<1>2. Ops' = Ops /\ Placed' = Placed /\ OneSided' = OneSided /\ \A o : Below(o)' = Below(o)
  BY <1>1, PlacesStay, OneSidedStays
<1>3. Placed = {} /\ executed = {} /\ currentNode = 1 /\ output = {}
  BY <1>1 DEF PlacementInv, BeforeInv
<1>4. PICK d : Searched(d)
  BY <1>1 DEF SearchingInv, Unsearched
<1>5. /\ route' \in Seq(Nodes) /\ Len(route') = Cardinality(Ops) /\ route' # <<>> /\ route'[1] = Own
      /\ OneSided \/ \A i, j \in DOMAIN route' : i # j => route'[i] # route'[j]
  BY <1>1, <1>4, QueryIs, ChosenIs DEF SearchingInv
<1>6. TypesInv'
  BY <1>1, <1>2, <1>5 DEF PlacementInv, TypesInv, Phases
<1>7. BeforeInv' /\ PlacedInv'
  BY <1>1, <1>2, <1>3 DEF BeforeInv, PlacedInv
<1>8. PlacingInv'
  <2>1. Ops \ Placed = Ops
    BY <1>3
  <2> QED
    BY <1>1, <1>2, <1>3, <1>5, <2>1 DEF PlacingInv
<1>9. DeployingInv'
  <2>1. phase' # "deployment" /\ executed' = {}
    BY <1>1, <1>3
  <2> QED
    BY <2>1 DEF DeployingInv
<1>10. ResultsInv'
  <2>1. phase' # "done" /\ executed' = {} /\ output' = {}
    BY <1>1, <1>3
  <2> QED
    BY <2>1 DEF ResultsInv
<1> QED
  BY <1>6, <1>7, <1>8, <1>9, <1>10 DEF PlacementInv

LEMMA ForwardKeeps ==
    ASSUME PlacementInv, SearchingInv, Forward
    PROVE  PlacementInv'
<1>1. /\ phase = "search" /\ phase' = "forwarded" /\ Longer # {}
      /\ route' = <<SecondHop(Cheapest(Longer))>>
      /\ UNCHANGED <<algorithm, query, currentNode, executionNode, executed, value, output>>
  BY DEF Forward, PathsBuilt, discovery, results
<1>2. Ops' = Ops /\ Placed' = Placed /\ \A o : Below(o)' = Below(o)
  BY <1>1, PlacesStay
<1>3. Placed = {} /\ executed = {} /\ currentNode = 1 /\ output = {}
  BY <1>1 DEF PlacementInv, BeforeInv
<1>4. route' \in Seq(Nodes)
  BY <1>1, SecondIs DEF SearchingInv
<1>5. TypesInv'
  BY <1>1, <1>2, <1>4 DEF PlacementInv, TypesInv, Phases
<1>6. BeforeInv' /\ PlacingInv' /\ PlacedInv'
  BY <1>1, <1>2, <1>3 DEF BeforeInv, PlacingInv, PlacedInv
<1>7. DeployingInv'
  <2>1. phase' # "deployment" /\ executed' = {}
    BY <1>1, <1>3
  <2> QED
    BY <2>1 DEF DeployingInv
<1>8. ResultsInv'
  <2>1. phase' # "done" /\ executed' = {} /\ output' = {}
    BY <1>1, <1>3
  <2> QED
    BY <2>1 DEF ResultsInv
<1> QED
  BY <1>5, <1>6, <1>7, <1>8 DEF PlacementInv

\* The walk goes down to an operand without a node.
LEMMA PlaceBelowKeeps ==
    ASSUME PlacementInv, PlaceBelow
    PROVE  PlacementInv'
<1>1. /\ phase = "placement" /\ phase' = "placement"
      /\ Undone(currentNode, Placed) # currentNode /\ currentNode' = Undone(currentNode, Placed)
      /\ UNCHANGED <<algorithm, query, allNodes, route, executionNode, executed, value, output>>
  BY DEF PlaceBelow, discovery, results
<1>2. Ops' = Ops /\ Placed' = Placed /\ OneSided' = OneSided /\ \A o : Below(o)' = Below(o)
  BY <1>1, PlacesStay, OneSidedStays
<1>3. currentNode' \in Ops \ Placed
  BY <1>1, QueryIs, UndoneIs DEF PlacementInv, TypesInv
<1>4. executed = {} /\ output = {}
  BY <1>1 DEF PlacementInv, PlacingInv
<1>5. TypesInv'
  BY <1>1, <1>2, <1>3 DEF PlacementInv, TypesInv
<1>6. PlacingInv'
  BY <1>1, <1>2, <1>3 DEF PlacementInv, PlacingInv
<1>7. BeforeInv' /\ PlacedInv'
  BY <1>1, <1>2 DEF PlacementInv, BeforeInv, PlacedInv
<1>8. DeployingInv'
  <2>1. phase' # "deployment" /\ executed' = {}
    BY <1>1, <1>4
  <2> QED
    BY <2>1 DEF DeployingInv
<1>9. ResultsInv'
  <2>1. phase' # "done" /\ executed' = {} /\ output' = {}
    BY <1>1, <1>4
  <2> QED
    BY <2>1 DEF ResultsInv
<1> QED
  BY <1>5, <1>6, <1>7, <1>8, <1>9 DEF PlacementInv

\* An operator is placed on the last node of the path: one node and one
\* operator less.
LEMMA PlaceSelfKeeps ==
    ASSUME PlacementInv, PlaceSelf
    PROVE  PlacementInv'
<1> DEFINE n == Last(route)
           c == currentNode
<1>1. /\ phase = "placement" /\ c \notin Placed /\ Undone(c, Placed) = c /\ route # <<>>
      /\ executionNode' = [executionNode EXCEPT ![c] = n]
      /\ route' = Front(route)
      /\ UNCHANGED <<algorithm, query, allNodes, executed, value, output>>
  BY DEF PlaceSelf, discovery, results
<1>2. \/ c = 1 /\ phase' = "deployment" /\ currentNode' = c
      \/ c # 1 /\ phase' = "placement" /\ currentNode' = Parent(c)
  BY <1>1 DEF PlaceSelf
<1>3. /\ IsQuery(query) /\ Ops = DOMAIN query.type /\ 1 \in Ops /\ c \in Ops
      /\ route \in Seq(Nodes) /\ executionNode \in [Ops -> Nodes \cup {NoNode}]
  BY QueryIs DEF PlacementInv, TypesInv
<1>4. /\ 1 \notin Placed /\ executed = {} /\ output = {}
      /\ Len(route) = Cardinality(Ops \ Placed) /\ route[1] = Own
      /\ OneSided \/ /\ \A i, j \in DOMAIN route : i # j => route[i] # route[j]
                     /\ \A i \in DOMAIN route : \A o \in Placed : executionNode[o] # route[i]
  BY <1>1 DEF PlacementInv, PlacingInv
<1>5. /\ Len(route) \in Nat /\ Len(route) > 0 /\ DOMAIN route = 1 .. Len(route)
      /\ n = route[Len(route)] /\ n \in Nodes /\ n # NoNode
  BY <1>1, <1>3, PlacementAssumption DEF Last
<1>6. /\ route' \in Seq(Nodes) /\ Len(route') = Len(route) - 1 /\ DOMAIN route' = 1 .. Len(route) - 1
      /\ \A i \in DOMAIN route' : route'[i] = route[i] /\ i \in DOMAIN route /\ i # Len(route)
  <2>1. route' = SubSeq(route, 1, Len(route) - 1)
    BY <1>1 DEF Front
  <2> QED
    BY <1>3, <1>5, <2>1
<1>7. Ops' = Ops /\ OneSided' = OneSided /\ \A o : Below(o)' = Below(o)
  BY <1>1, OneSidedStays DEF Ops, Below
<1> HIDE DEF n
<1>8. /\ executionNode' \in [Ops -> Nodes \cup {NoNode}] /\ executionNode'[c] = n
      /\ \A o \in Ops : o # c => executionNode'[o] = executionNode[o]
  BY <1>1, <1>3, <1>5
<1>9. Placed' = Placed \cup {c}
  <2>1. Placed' = {o \in Ops : executionNode'[o] # NoNode}
    BY <1>7 DEF Placed
  <2> QED
    BY <1>3, <1>5, <1>8, <2>1 DEF Placed
<1>10. Below(c) \subseteq Placed /\ \A o \in Placed : Below(o) \subseteq Placed
  BY <1>1, <1>3, UndoneIs DEF PlacementInv, PlacedInv
<1>11. Placed \subseteq Ops
  BY DEF Placed
<1>12. IsFiniteSet(Ops \ Placed) /\ Cardinality(Ops \ Placed') = Cardinality(Ops \ Placed) - 1
  <2>1. Ops = 1 .. Len(query.type) /\ Len(query.type) \in Int /\ 1 \in Int
    BY <1>3, OneParent
  <2>2. IsFiniteSet(Ops)
    BY <2>1, FS_Interval
  <2>3. IsFiniteSet(Ops \ Placed)
    BY <2>2, FS_Subset
  <2>4. Ops \ Placed' = (Ops \ Placed) \ {c} /\ c \in Ops \ Placed
    BY <1>1, <1>3, <1>9
  <2> QED
    BY <2>3, <2>4, FS_RemoveElement
<1>13. c = 1 => Ops \ Placed = {1} /\ Len(route) = 1
  <2> SUFFICES ASSUME c = 1 PROVE Ops \ Placed = {1} /\ Len(route) = 1
    OBVIOUS
  <2>1. Placed \cup {1} = DOMAIN query.type
    <3>1. Placed \cup {1} \in SUBSET DOMAIN query.type
      BY <1>3, <1>11
    <3>2. \A o \in Placed \cup {1} : Operands(query, o) \subseteq Placed \cup {1}
      BY <1>10 DEF Below
    <3> QED
      BY <1>3, <3>1, <3>2, AllBelowRoot
  <2>2. Ops \ Placed = {1}
    BY <1>3, <1>4, <2>1
  <2> QED
    BY <1>4, <2>2, FS_Singleton
<1>14. c # 1 => /\ Parent(c) \in Ops /\ Parent(c) \notin Placed'
                /\ 1 \notin Placed' /\ route' # <<>> /\ route'[1] = Own
  <2> SUFFICES ASSUME c # 1
               PROVE  /\ Parent(c) \in Ops /\ Parent(c) \notin Placed'
                      /\ 1 \notin Placed' /\ route' # <<>> /\ route'[1] = Own
    OBVIOUS
  <2>1. Parent(c) \in Ops /\ c \in Below(Parent(c))
    BY <1>3, ParentIs DEF Below
  <2>2. Parent(c) # c
    BY <1>3, <2>1, OperandsAre DEF Below, Ops
  <2>3. Parent(c) \notin Placed'
    BY <1>1, <1>9, <1>10, <2>1, <2>2
  <2>4. 1 \notin Placed'
    BY <1>4, <1>9
  <2>5. Cardinality(Ops \ Placed') > 0
    <3>1. Ops \ Placed' # {} /\ IsFiniteSet(Ops \ Placed')
      BY <1>3, <1>9, <1>12, <2>4, FS_Subset
    <3> QED
      BY <3>1, FS_EmptySet, FS_CardinalityType
  <2>6. Len(route') > 0
    BY <1>4, <1>5, <1>6, <1>12, <2>5
  <2>7. 1 \in DOMAIN route' /\ route' # <<>>
    BY <1>5, <1>6, <2>6
  <2> QED
    BY <1>4, <1>6, <2>1, <2>3, <2>4, <2>7
<1>15. TypesInv'
  <2>1. currentNode' \in Ops /\ phase' \in Phases
    BY <1>2, <1>3, <1>14 DEF Phases
  <2> QED
    BY <1>1, <1>6, <1>7, <1>8, <2>1 DEF PlacementInv, TypesInv
<1>16. BeforeInv'
  BY <1>2 DEF BeforeInv
<1>17. OneSided \/ /\ \A i, j \in DOMAIN route' : i # j => route'[i] # route'[j]
                   /\ \A i \in DOMAIN route' : \A o \in Placed' : executionNode'[o] # route'[i]
  <2> SUFFICES ASSUME ~OneSided
               PROVE  /\ \A i, j \in DOMAIN route' : i # j => route'[i] # route'[j]
                      /\ \A i \in DOMAIN route' : \A o \in Placed' : executionNode'[o] # route'[i]
    OBVIOUS
  <2>1. /\ \A i, j \in DOMAIN route : i # j => route[i] # route[j]
        /\ \A i \in DOMAIN route : \A o \in Placed : executionNode[o] # route[i]
    BY <1>4
  <2>2. \A i, j \in DOMAIN route' : i # j => route'[i] # route'[j]
    BY <1>6, <2>1
  <2>3. ASSUME NEW i \in DOMAIN route', NEW o \in Placed' PROVE executionNode'[o] # route'[i]
    <3>1. route'[i] = route[i] /\ i \in DOMAIN route /\ i # Len(route) /\ Len(route) \in DOMAIN route
      BY <1>5, <1>6
    <3>2. CASE o = c
      BY <1>5, <1>8, <2>1, <3>1, <3>2
    <3>3. CASE o # c
      BY <1>8, <1>9, <1>11, <2>1, <3>1, <3>3
    <3> QED
      BY <3>2, <3>3
  <2> QED
    BY <2>2, <2>3
<1>18. PlacingInv'
  <2>1. phase' = "placement" => c # 1 /\ currentNode' = Parent(c)
    BY <1>2
  <2>2. Len(route') = Cardinality(Ops \ Placed')
    BY <1>4, <1>6, <1>12
  <2> QED
    BY <1>1, <1>4, <1>7, <1>14, <1>17, <2>1, <2>2 DEF PlacingInv
<1>19. PlacedInv'
  <2>1. \A o \in Placed' : Below(o)' \subseteq Placed'
    BY <1>7, <1>9, <1>10
  <2>2. 1 \in Placed' => executionNode'[1] = Own
    BY <1>4, <1>5, <1>8, <1>9, <1>13
  <2>3. ASSUME NEW o \in Placed', NEW p \in Placed', o # p, executionNode'[o] = executionNode'[p]
        PROVE  OneSided
    <3> SUFFICES ASSUME ~OneSided PROVE FALSE
      OBVIOUS
    <3>1. \A r \in Placed : executionNode[r] # n
      <4>1. Len(route) \in DOMAIN route /\ n = route[Len(route)]
        BY <1>5
      <4> QED
        BY <1>4, <4>1
    <3>2. \A r \in Placed : executionNode'[r] = executionNode[r]
      BY <1>1, <1>8, <1>11
    <3>3. CASE o = c \/ p = c
      BY <1>8, <1>9, <2>3, <3>1, <3>2, <3>3
    <3>4. CASE o # c /\ p # c
      BY <1>9, <2>3, <3>2, <3>4 DEF PlacementInv, PlacedInv
    <3> QED
      BY <3>3, <3>4
  <2> QED
    BY <1>7, <2>1, <2>2, <2>3 DEF PlacedInv
<1>20. DeployingInv'
  <2>1. executed' = {} /\ output' = {}
    BY <1>1, <1>4
  <2>2. phase' = "deployment" => 1 \in Placed'
    BY <1>2, <1>9
  <2> QED
    BY <2>1, <2>2 DEF DeployingInv
<1>21. ResultsInv'
  <2>1. phase' # "done" /\ executed' = {} /\ output' = {}
    BY <1>1, <1>2, <1>4
  <2> QED
    BY <2>1 DEF ResultsInv
<1> QED
  BY <1>15, <1>16, <1>18, <1>19, <1>20, <1>21 DEF PlacementInv

\* What is executed in place of the placeholders of an operator are operands.
LEMMA SubstitutedIs ==
    ASSUME NEW o
    PROVE  \A p \in Substituted(query, o) : p = 0 \/ p \in Below(o)
BY DEF Substituted, Below, Operands

\* The walk goes down to an operand that was not executed.
LEMMA DeployBelowKeeps ==
    ASSUME PlacementInv, DeployBelow
    PROVE  PlacementInv'
<1>1. /\ phase = "deployment" /\ phase' = "deployment"
      /\ Undone(currentNode, executed) # currentNode /\ currentNode' = Undone(currentNode, executed)
      /\ UNCHANGED <<algorithm, query, allNodes, route, executionNode, executed, value, output>>
  BY DEF DeployBelow, discovery, results
<1>2. Ops' = Ops /\ Placed' = Placed /\ OneSided' = OneSided /\ \A o : Below(o)' = Below(o)
  BY <1>1, PlacesStay, OneSidedStays
<1>3. currentNode' \in Ops \ executed
  BY <1>1, QueryIs, UndoneIs DEF PlacementInv, TypesInv
<1>4. TypesInv'
  BY <1>1, <1>2, <1>3 DEF PlacementInv, TypesInv
<1>5. BeforeInv' /\ PlacingInv'
  BY <1>1 DEF BeforeInv, PlacingInv
<1>6. PlacedInv'
  BY <1>1, <1>2 DEF PlacementInv, PlacedInv
<1>7. DeployingInv'
  BY <1>1, <1>2, <1>3 DEF PlacementInv, DeployingInv
<1>8. ResultsInv'
  BY <1>1 DEF PlacementInv, ResultsInv
<1> QED
  BY <1>4, <1>5, <1>6, <1>7, <1>8 DEF PlacementInv

\* An operator is executed after its operands; its result holds theirs, or
\* nothing.
LEMMA DeploySelfKeeps ==
    ASSUME PlacementInv, DeploySelf
    PROVE  PlacementInv'
<1> DEFINE c == currentNode
<1>1. /\ phase = "deployment" /\ Undone(c, executed) = c /\ Deployable(c)
      /\ executed' = executed \cup {c}
      /\ UNCHANGED <<algorithm, query, allNodes, route, executionNode>>
  BY DEF DeploySelf, discovery
<1>2. PICK result \in {{}, {c} \cup UNION {value[o] : o \in Substituted(query, c)}} :
        /\ value' = [value EXCEPT ![c] = result]
        /\ IF c = 1
           THEN phase' = "result" /\ output' = result /\ UNCHANGED currentNode
           ELSE currentNode' = Parent(c) /\ UNCHANGED <<phase, output>>
  BY DEF DeploySelf
<1>3. /\ IsQuery(query) /\ Ops = DOMAIN query.type /\ 1 \in Ops /\ c \in Ops
      /\ executed \subseteq Ops /\ value \in [Ops -> SUBSET Ops]
  BY QueryIs DEF PlacementInv, TypesInv
<1>4. /\ 1 \in Placed /\ c \notin executed /\ output = {}
      /\ \A o \in executed : Below(o) \subseteq executed /\ Substituted(query, o) \subseteq executed
  BY <1>1 DEF PlacementInv, DeployingInv
<1>5. Ops' = Ops /\ Placed' = Placed /\ OneSided' = OneSided /\ \A o : Below(o)' = Below(o)
  BY <1>1, PlacesStay, OneSidedStays
<1>6. Below(c) \subseteq executed
  BY <1>1, <1>3, UndoneIs
<1>7. Substituted(query, c) \subseteq executed
  BY <1>1, <1>6, SubstitutedIs DEF Deployable
<1>8. /\ value' \in [Ops -> SUBSET Ops] /\ value'[c] = result /\ result \subseteq Ops
      /\ \A o \in Ops : o # c => value'[o] = value[o]
  <2>1. result \subseteq Ops
    BY <1>3, <1>7
  <2> QED
    BY <1>2, <1>3, <2>1
<1>9. c # 1 => Parent(c) \in Ops /\ Parent(c) \notin executed'
  <2> SUFFICES ASSUME c # 1 PROVE Parent(c) \in Ops /\ Parent(c) \notin executed'
    OBVIOUS
  <2>1. Parent(c) \in Ops /\ c \in Below(Parent(c))
    BY <1>3, ParentIs DEF Below
  <2>2. Parent(c) # c
    BY <1>3, <2>1, OperandsAre DEF Below, Ops
  <2> QED
    BY <1>1, <1>4, <2>1, <2>2
<1>10. \/ c = 1 /\ phase' = "result" /\ output' = result /\ currentNode' = c
       \/ c # 1 /\ phase' = "deployment" /\ output' = {} /\ currentNode' = Parent(c)
  BY <1>1, <1>2, <1>4
<1> HIDE DEF c
<1>11. TypesInv'
  <2>1. currentNode' \in Ops /\ phase' \in Phases /\ output' \subseteq Ops
    BY <1>3, <1>8, <1>9, <1>10 DEF Phases
  <2>2. executed' \subseteq Ops
    BY <1>1, <1>3
  <2>3. /\ algorithm' \in {"Centralized", "Decentralized"} /\ query' \in Queries
        /\ route' \in Seq(Nodes) /\ executionNode' \in [Ops -> Nodes \cup {NoNode}]
    BY <1>1 DEF PlacementInv, TypesInv
  <2> QED
    BY <1>5, <1>8, <2>1, <2>2, <2>3 DEF TypesInv
<1>12. BeforeInv' /\ PlacingInv'
  BY <1>10 DEF BeforeInv, PlacingInv
<1>13. PlacedInv'
  BY <1>1, <1>5 DEF PlacementInv, PlacedInv
<1>14. DeployingInv'
  <2>1. phase' = "deployment" => 1 \in Placed' /\ currentNode' \notin executed' /\ output' = {}
    BY <1>4, <1>5, <1>9, <1>10
  <2>2. \A o \in executed' : Below(o) \subseteq executed' /\ Substituted(query, o) \subseteq executed'
    BY <1>1, <1>4, <1>6, <1>7
  <2>3. query' = query /\ 1 \in Placed'
    BY <1>1, <1>4, <1>5
  <2> QED
    BY <1>5, <2>1, <2>2, <2>3 DEF DeployingInv
<1>15. ResultsInv'
  <2>1. \A p \in executed : value'[p] = value[p]
    BY <1>3, <1>4, <1>8 DEF c
  <2>2. \A o \in executed' : Substituted(query, o) \subseteq executed
    BY <1>1, <1>4, <1>7
  <2>3. \A o \in executed' : {value'[p] : p \in Substituted(query, o)} = {value[p] : p \in Substituted(query, o)}
    BY <2>1, <2>2
  <2>4. ASSUME NEW o \in executed'
        PROVE  value'[o] = {} \/ value'[o] = {o} \cup UNION {value'[p] : p \in Substituted(query, o)}
    <3>1. CASE o = c
      BY <1>2, <1>8, <2>3, <3>1 DEF c
    <3>2. CASE o # c
      <4>1. o \in executed /\ value'[o] = value[o]
        BY <1>1, <2>1, <3>2 DEF c
      <4>2. value[o] = {} \/ value[o] = {o} \cup UNION {value[p] : p \in Substituted(query, o)}
        BY <4>1 DEF PlacementInv, ResultsInv
      <4> QED
        BY <2>3, <4>1, <4>2
    <3> QED
      BY <3>1, <3>2
  <2>5. output' = {} \/ (1 \in executed' /\ output' = value'[1])
    BY <1>1, <1>8, <1>10 DEF c
  <2>6. phase' # "done" /\ query' = query
    BY <1>1, <1>10
  <2> QED
    BY <2>4, <2>5, <2>6 DEF ResultsInv
<1> QED
  BY <1>11, <1>12, <1>13, <1>14, <1>15 DEF PlacementInv

\* Other changes of the phase leave the placement alone.
LEMMA PhaseKeeps ==
    ASSUME PlacementInv, UNCHANGED <<algorithm, query, discovery, placement>>,
           phase' \in {"failed", "result", "done"}, phase' = "done" => output # {}
    PROVE  PlacementInv'
<1>1. UNCHANGED <<allNodes, route, currentNode, executionNode, executed, value, output>>
  BY DEF placement, results, discovery
<1>2. Ops' = Ops /\ Placed' = Placed /\ OneSided' = OneSided /\ \A o : Below(o)' = Below(o)
  BY <1>1, PlacesStay, OneSidedStays
<1>3. TypesInv'
  BY <1>1, <1>2 DEF PlacementInv, TypesInv, Phases
<1>4. BeforeInv' /\ PlacingInv'
  BY DEF BeforeInv, PlacingInv
<1>5. PlacedInv'
  BY <1>1, <1>2 DEF PlacementInv, PlacedInv
<1>6. DeployingInv'
  BY <1>1, <1>2 DEF PlacementInv, DeployingInv
<1>7. ResultsInv'
  BY <1>1 DEF PlacementInv, ResultsInv
<1> QED
  BY <1>3, <1>4, <1>5, <1>6, <1>7 DEF PlacementInv

LEMMA PlacementInit == Init => PlacementInv
<1> SUFFICES ASSUME Init PROVE PlacementInv
  OBVIOUS
<1>1. /\ phase = "discovery" /\ query \in Queries /\ algorithm \in {"Centralized", "Decentralized"}
      /\ route = <<>> /\ currentNode = 1 /\ executed = {} /\ output = {}
      /\ executionNode = [o \in Ops |-> NoNode] /\ value = [o \in Ops |-> {}]
  BY DEF Init
<1>2. 1 \in Ops
  BY <1>1, QueryAssumption, OneParent DEF Ops
<1>3. Placed = {}
  BY <1>1 DEF Placed
<1>4. TypesInv
  BY <1>1, <1>2 DEF TypesInv, Phases
<1>5. BeforeInv /\ PlacingInv /\ PlacedInv /\ DeployingInv
  BY <1>1, <1>3 DEF BeforeInv, PlacingInv, PlacedInv, DeployingInv
<1>6. ResultsInv
  BY <1>1 DEF ResultsInv
<1> QED
  BY <1>4, <1>5, <1>6 DEF PlacementInv

\* Every step keeps what is known of the placement.
LEMMA PlacementStep == PlacementInv /\ SearchingInv /\ [Next]_vars => PlacementInv'
<1> SUFFICES ASSUME PlacementInv, SearchingInv, [Next]_vars PROVE PlacementInv'
  OBVIOUS
<1>1. CASE GetNodeStatus
  BY <1>1, BeforeKeeps DEF GetNodeStatus
<1>2. CASE GiveUp
  BY <1>2, BeforeKeeps DEF GiveUp
<1>3. CASE StartSearch
  BY <1>3, BeforeKeeps DEF StartSearch
<1>4. CASE Traverse
  BY <1>4, BeforeKeeps DEF Traverse
<1>5. CASE CheckHop
  BY <1>5, BeforeKeeps DEF CheckHop, PathsLeft
<1>6. CASE FinishPath
  BY <1>6, BeforeKeeps DEF FinishPath, PathsLeft
<1>7. CASE ChoosePath
  BY <1>7, ChoosePathKeeps
<1>8. CASE Forward
  BY <1>8, ForwardKeeps
<1>9. CASE NoPath
  BY <1>9, BeforeKeeps DEF NoPath, PathsBuilt
<1>10. CASE PlaceBelow
  BY <1>10, PlaceBelowKeeps
<1>11. CASE PlaceSelf
  BY <1>11, PlaceSelfKeeps
<1>12. CASE DeployBelow
  BY <1>12, DeployBelowKeeps
<1>13. CASE DeploySelf
  BY <1>13, DeploySelfKeeps
<1>14. CASE DeployFails
  BY <1>14, PhaseKeeps DEF DeployFails
<1>15. CASE TakeForwarded
  BY <1>15, PhaseKeeps DEF TakeForwarded
<1>16. CASE FetchResult
  BY <1>16, PhaseKeeps DEF FetchResult
<1>17. CASE UNCHANGED vars
  <2>1. UNCHANGED <<phase, algorithm, query, allNodes, route, currentNode, executionNode,
                    executed, value, output>>
    BY <1>17 DEF vars
  <2>2. Ops' = Ops /\ Placed' = Placed /\ OneSided' = OneSided /\ \A o : Below(o)' = Below(o)
    BY <2>1, PlacesStay, OneSidedStays
  <2>3. TypesInv' /\ BeforeInv' /\ PlacedInv'
    BY <2>1, <2>2 DEF PlacementInv, TypesInv, BeforeInv, PlacedInv
  <2>4. PlacingInv' /\ DeployingInv'
    BY <2>1, <2>2 DEF PlacementInv, PlacingInv, DeployingInv
  <2>5. ResultsInv'
    BY <2>1 DEF PlacementInv, ResultsInv
  <2> QED
    BY <2>3, <2>4, <2>5 DEF PlacementInv
<1> QED
  BY <1>1, <1>2, <1>3, <1>4, <1>5, <1>6, <1>7, <1>8, <1>9, <1>10, <1>11, <1>12, <1>13,
     <1>14, <1>15, <1>16, <1>17 DEF Next, BuildPaths, PlaceOperators, DeployOperators

LEMMA PlacementAlways == Spec => [](PlacementInv /\ SearchingInv)
<1>1. Init => PlacementInv /\ SearchingInv
  BY PlacementInit, SearchingInit
<1>2. PlacementInv /\ SearchingInv /\ [Next]_vars => (PlacementInv /\ SearchingInv)'
  BY PlacementStep, SearchingStep
<1> QED
  BY <1>1, <1>2, PTL DEF Spec

-----------------------------------------------------------------------------
(***************************************************************************)
(* The theorems.                                                           *)
(***************************************************************************)
LEMMA PlacedFromInv ==
    ASSUME PlacementInv
    PROVE  OperatorsPlaced
<1>1. phase = "placement" => Len(route) = Cardinality(Ops \ Placed)
  BY DEF PlacementInv, PlacingInv
<1>2. /\ 1 \in Placed => executionNode[1] = Own
      /\ \A o, p \in Placed : o # p /\ executionNode[o] = executionNode[p] => OneSided
      /\ \A o \in Placed : Below(o) \subseteq Placed
  BY DEF PlacementInv, PlacedInv
<1>3. \A o \in executed : o \in Placed /\ Below(o) \subseteq executed
  <2> TAKE o \in executed
  <2>1. 1 \in Placed /\ Below(o) \subseteq executed /\ o \in Ops
    BY DEF PlacementInv, DeployingInv, TypesInv
  <2> QED
    BY <2>1, AllPlaced
<1>4. ASSUME phase = "done", \A o \in Ops : value[o] # {} /\ Below(o) = Substituted(query, o)
      PROVE  output = Ops
  <2>1. 1 \in executed /\ output = value[1]
    BY <1>4 DEF PlacementInv, ResultsInv
  <2>2. executed = Ops /\ IsQuery(query) /\ Ops = DOMAIN query.type /\ 1 \in Ops
    BY <2>1, AllPlaced, QueryIs
  <2>3. \A o \in Ops : value[o] = {o} \cup UNION {value[p] : p \in Below(o)}
    BY <1>4, <2>2 DEF PlacementInv, ResultsInv
  <2> DEFINE S == {o \in Ops : value[o] \subseteq value[1]}
  <2>4. S \in SUBSET Ops /\ 1 \in S
    BY <2>2
  <2>5. ASSUME NEW o \in S, NEW p \in Below(o) PROVE p \in S
    <3>1. p \in Ops
      BY <2>2, OperandsAre DEF Below
    <3>2. value[p] \subseteq value[o]
      BY <2>3
    <3> QED
      BY <3>1, <3>2
  <2>6. \A o \in S : Operands(query, o) \subseteq S
    BY <2>5 DEF Below
  <2> HIDE DEF S
  <2>7. S = Ops
    BY <2>2, <2>4, <2>6, AllBelowRoot
  <2>8. \A o \in Ops : o \in value[1]
    BY <2>3, <2>7 DEF S
  <2>9. value[1] \subseteq Ops
    BY <2>2 DEF PlacementInv, TypesInv
  <2> QED
    BY <2>1, <2>8, <2>9
<1> QED
  BY <1>1, <1>2, <1>3, <1>4 DEF OperatorsPlaced

\* OperatorsPlaced, of every network and every query of the language: the
\* chosen path has a node for every operator, the root runs on the own node,
\* operands are placed and executed first, no node runs two operators unless
\* states contradict each other, and a complete answer holds every result
\* (Placement.processPlacementTree, processDeploymentTree).
THEOREM OperatorsAlwaysPlaced == Spec => []OperatorsPlaced
BY PlacementAlways, PlacedFromInv, PTL

LEMMA TypeFromInv ==
    ASSUME PlacementInv, SearchingInv
    PROVE  TypeOK
<1>1. /\ phase \in Phases /\ algorithm \in {"Centralized", "Decentralized"} /\ query \in Queries
      /\ currentNode \in Ops /\ executionNode \in [Ops -> Nodes \cup {NoNode}]
      /\ executed \subseteq Ops /\ value \in [Ops -> SUBSET Ops] /\ output \subseteq Ops
  BY DEF PlacementInv, TypesInv
<1>2. ToSet(route) \subseteq Nodes
  <2>1. route \in Seq(Nodes)
    BY DEF PlacementInv, TypesInv
  <2> QED
    BY <2>1, PathsAre DEF ToSet
<1>3. Len(allNodes) <= Len(Listed) /\ \A i \in DOMAIN allNodes : allNodes[i].name \in {Listed[i], NoNode}
  BY DEF SearchingInv, NodesInv
<1>4. /\ check.energy \in 0 .. 10 /\ check.bdp \in 0 .. 10 /\ check.energy + check.bdp \in {0, 10}
  BY DEF SearchingInv, CostInv, Weights
<1>5. \A i \in DOMAIN paths : paths[i].cost >= 0 /\ ToSet(paths[i].nodes) \subseteq Nodes
  <2>1. paths \in Seq([nodes : Seq(Nodes), cost : Nat])
    BY DEF SearchingInv, CostInv
  <2>2. ASSUME NEW i \in DOMAIN paths PROVE paths[i].cost >= 0 /\ ToSet(paths[i].nodes) \subseteq Nodes
    <3>1. paths[i] \in [nodes : Seq(Nodes), cost : Nat]
      BY <2>1, PathsAre
    <3>2. paths[i].cost \in Nat /\ paths[i].nodes \in Seq(Nodes)
      BY <3>1
    <3>3. ToSet(paths[i].nodes) \subseteq Nodes
      BY <3>2, PathsAre DEF ToSet
    <3> QED
      BY <3>2, <3>3
  <2> QED
    BY <2>2
<1>6. /\ \A i \in DOMAIN hopInfo : hopInfo[i].name \in Nodes /\ hopInfo[i].previous \in 0 .. i - 1
      /\ ToSet(traversalNodes) \cup traversedNodes \subseteq Nodes
  <2>1. CASE Unsearched
    <3>1. DOMAIN hopInfo = {} /\ ToSet(traversalNodes) = {} /\ traversedNodes = {}
      BY <2>1 DEF Unsearched, ToSet
    <3> QED
      BY <3>1
  <2>2. CASE \E d : Searched(d)
    <3>1. PICK d : Searched(d)
      BY <2>2
    <3>2. HopsInv(hopInfo, traversedNodes, d) /\ SeenInv(hopInfo, traversedNodes)
          /\ traversalNodes \in Seq(Nodes)
      BY <3>1 DEF Searched, SearchInv, WaitingInv
    <3>3. hopInfo \in Seq(Hop)
      BY <3>2 DEF HopsInv
    <3>4. \A i \in DOMAIN hopInfo : i \in Nat /\ i > 0
      BY <3>3
    <3>5. ASSUME NEW i \in DOMAIN hopInfo
          PROVE  hopInfo[i].name \in Nodes /\ hopInfo[i].previous \in 0 .. i - 1
      <4>1. hopInfo[i] \in Hop
        BY <3>3, PathsAre
      <4>2. hopInfo[i].name \in Nodes /\ hopInfo[i].previous \in Nat
        BY <4>1 DEF Hop
      <4>3. hopInfo[i].previous = 0 \/ hopInfo[i].previous < i
        BY <3>2, PreviousHop
      <4> QED
        BY <3>4, <4>2, <4>3
    <3>6. ToSet(traversalNodes) \subseteq Nodes
      BY <3>2, PathsAre DEF ToSet
    <3>7. traversedNodes \subseteq Nodes
      BY <3>2 DEF SeenInv
    <3> QED
      BY <3>5, <3>6, <3>7
  <2> QED
    BY <2>1, <2>2 DEF SearchingInv
<1> QED
  BY <1>1, <1>2, <1>3, <1>4, <1>5, <1>6 DEF TypeOK, Phases

\* TypeOK: the types of everything the placement keeps, with the weights that
\* always share the whole.
THEOREM TypesAlwaysOK == Spec => []TypeOK
BY PlacementAlways, TypeFromInv, PTL
=============================================================================
