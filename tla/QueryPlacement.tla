--------------------------- MODULE QueryPlacement ---------------------------
(***************************************************************************)
(* One complex-event query on one node: the service Placement              *)
(* (nfn/service/Placement.scala) builds the tree of operators, asks every  *)
(* listed node for its state, searches the network breadth first for       *)
(* paths, weighs them, places one operator on each node of the chosen path *)
(* and executes the operators on their nodes, operands first.              *)
(*                                                                         *)
(* The states of the nodes are fetched one after another, so that they may *)
(* contradict one another: one node reports a link its neighbour does not. *)
(* Numbers are kept in tenths: a weight of 0.5 is 5.                       *)
(***************************************************************************)
EXTENDS Integers, FiniteSets, SequencesExt

CONSTANTS
  Nodes,         \* the nodes of the network
  Own,           \* the node the service runs on
  NoNode,        \* the name of a node whose state could not be read
  Listed,        \* the sequence of nodes in the file nodeInformation
  Reports,       \* for each node, the states it may answer with
  Queries,       \* the queries a client may submit
  EnergyWeight,  \* the configured weights, in tenths (placementUtilityFunction)
  BdpWeight

\* The operators of the language (validOperators).
Operators == {"FILTER", "JOIN", "WINDOW", "PREDICT1", "PREDICT2", "HEATMAP",
              "AGGREGATOR", "SEQUENCE"}

\* A query: the types of its operators, numbered in prefix order, the nested
\* queries of each one, at most two, and the operators written with fewer
\* parameters than the centralized deployment reads of them. Every operator
\* but the first one is nested in one place.
IsQuery(q) ==
  /\ q.type \in Seq(Operators) /\ Len(q.type) > 0
  /\ q.nested \in Seq(Seq(1 .. Len(q.type))) /\ Len(q.nested) = Len(q.type)
  /\ q.short \subseteq DOMAIN q.type
  /\ \A o \in DOMAIN q.nested : /\ Len(q.nested[o]) <= 2
                                /\ \A i \in DOMAIN q.nested[o] : q.nested[o][i] > o
  /\ \A o \in 2 .. Len(q.type) :
       \E p \in DOMAIN q.nested : \E i \in DOMAIN q.nested[p] : q.nested[p][i] = o
  /\ \A o, p \in DOMAIN q.nested : \A i \in DOMAIN q.nested[o], j \in DOMAIN q.nested[p] :
       q.nested[o][i] = q.nested[p][j] => o = p /\ i = j

ASSUME QueryAssumption == \A q \in Queries : IsQuery(q)

\* What a node publishes: its name, the delays it measured to its neighbours
\* and its battery. The neighbours are written into the script that measures
\* (updateNodeState_9004.sh), and a node is not its own neighbour.
Link == [node : Nodes, latency : Nat]
NodeInfo == [name : Nodes, links : Seq(Link), battery : Nat]

ASSUME PlacementAssumption ==
  /\ IsFiniteSet(Nodes) /\ Own \in Nodes /\ NoNode \notin Nodes
  /\ Listed \in Seq(Nodes) /\ Own \in ToSet(Listed)
  /\ EnergyWeight \in 0..10 /\ BdpWeight = 10 - EnergyWeight

ASSUME ReportAssumption ==
  \A n \in Nodes : \A info \in Reports[n] :
    /\ info \in NodeInfo /\ info.name = n
    /\ \A i \in DOMAIN info.links : info.links[i].node # n

VARIABLES
  phase,         \* how far the query is
  algorithm,     \* "Centralized" or "Decentralized"
  query,         \* the query
  allNodes,      \* the states of the nodes, as far as they were fetched
  hopInfo,       \* the hop objects: name, latency and index of the previous hop
  traversalNodes,\* the nodes whose links are still to be followed
  traversedNodes,\* the nodes whose links were followed
  check,         \* the path that is being weighed: the hop it is at, its nodes, its cost,
                 \* and the weights, which are carried from path to path
  paths,         \* the paths of the first hop objects, with their costs
  route,         \* the nodes of the chosen path that have no operator yet
  currentNode,   \* the operator the walk through the tree is at
  executionNode, \* where each operator was placed
  executed,      \* the operators that were executed (_Vprocessed)
  value,         \* the operators whose results are in the result of each one
  output         \* the operators whose results are in the answer

vars == <<phase, algorithm, query, allNodes, hopInfo, traversalNodes,
          traversedNodes, check, paths, route, currentNode, executionNode,
          executed, value, output>>

discovery == <<allNodes, hopInfo, traversalNodes, traversedNodes, check, paths>>
results == <<executed, value, output>>
placement == <<route, currentNode, executionNode, results>>

(***************************************************************************)
(* The tree of operators (OperatorTree.java, OperatorA.java).              *)
(***************************************************************************)
Ops == DOMAIN query.type

\* The first nested query becomes the left operand; there is a right one
\* only when exactly two queries are nested.
Left(q, o)  == IF q.nested[o] # <<>> THEN q.nested[o][1] ELSE 0
Right(q, o) == IF Len(q.nested[o]) = 2 THEN q.nested[o][2] ELSE 0
Operands(q, o) == {Left(q, o), Right(q, o)} \ {0}
Parent(o) == IF o = 1 THEN 0 ELSE CHOOSE p \in Ops : o \in Operands(query, p)

\* Filters and joins accept operands of these types only.
OperandTypes == {"FILTER", "WINDOW", "JOIN", "PREDICT1", "PREDICT2", "HEATMAP"}
Wanted(q, o) == CASE q.type[o] = "JOIN" -> 2 [] q.type[o] = "FILTER" -> 1 [] OTHER -> 0
CheckParameters(q) ==
  \A o \in DOMAIN q.type :
    /\ Len(q.nested[o]) >= Wanted(q, o)
    /\ \A i \in 1 .. Wanted(q, o) : q.type[q.nested[o][i]] \in OperandTypes

\* The number of operators, which the code calls the depth; 0 for a query
\* it cannot parse.
DepthCalc(q) ==
  LET count[o \in DOMAIN q.type] ==
        1 + (IF Left(q, o) # 0 THEN count[Left(q, o)] ELSE 0)
          + (IF Right(q, o) # 0 THEN count[Right(q, o)] ELSE 0)
  IN  IF CheckParameters(q) THEN count[1] ELSE 0

opCount == DepthCalc(query)

(***************************************************************************)
(* The states of the nodes, the hops and the paths.                        *)
(***************************************************************************)
Known(n) == \E i \in DOMAIN allNodes : allNodes[i].name = n
InfoOf(n) == allNodes[CHOOSE i \in DOMAIN allNodes : allNodes[i].name = n]
Links(n) == InfoOf(n).links

\* The neighbours of n to go on with, in the order of its links
\* (getTraversalNodes).
InOrder(S) == [k \in 1 .. Cardinality(S) |-> CHOOSE i \in S : Cardinality({j \in S : j <= i}) = k]
GetTraversalNodes(n, waiting, seen) ==
  LET fresh == {i \in DOMAIN Links(n) : /\ Known(Links(n)[i].node)
                                        /\ ~Contains(waiting, Links(n)[i].node)
                                        /\ Links(n)[i].node \notin seen}
  IN  [k \in DOMAIN InOrder(fresh) |-> Links(n)[InOrder(fresh)[k]].node]

\* The first hop object of a node is the one its links are hung below.
FirstHop(hops, n) == SelectInSeq(hops, LAMBDA h : h.name = n)

\* Seeded fault: the links hang below the hop object that was found last.
OneStepTraverse_LastHop(n, hops) ==
  hops \o [i \in DOMAIN Links(n) |->
             [name |-> Links(n)[i].node, latency |-> Links(n)[i].latency,
              previous |-> SelectLastInSeq(hops, LAMBDA h : h.name = n)]]

\* A hop object for every link of n (oneStepTraverse).
OneStepTraverse(n, hops) ==
  hops \o [i \in DOMAIN Links(n) |->
             [name |-> Links(n)[i].node, latency |-> Links(n)[i].latency,
              previous |-> FirstHop(hops, n)]]

\* A step that leads straight back to where the step before came from is no
\* part of a path.
TurnsBack(i) ==
  LET p == hopInfo[i].previous
  IN  p # 0 /\ hopInfo[p].previous # 0 /\ hopInfo[hopInfo[p].previous].name = hopInfo[i].name

\* Seeded fault: the weights are changed without a look at their bounds.
Adapt_Unbounded(w, battery, latency) ==
  IF w.energy = 0 /\ w.bdp = 0
  THEN [w EXCEPT !.energy = EnergyWeight, !.bdp = BdpWeight]
  ELSE IF battery >= w.lastEnergy /\ latency <= w.lastBdp
  THEN [w EXCEPT !.energy = @ + 1, !.bdp = @ - 1]
  ELSE IF battery <= w.lastEnergy /\ latency >= w.lastBdp
  THEN [w EXCEPT !.energy = @ - 1, !.bdp = @ + 1] ELSE w

\* The weights after a hop of the given battery and latency: more energy and
\* less delay than the hop before shift a tenth towards energy, the contrary
\* a tenth away from it.
Adapt(w, battery, latency) ==
  IF w.energy = 0 /\ w.bdp = 0
  THEN [w EXCEPT !.energy = EnergyWeight, !.bdp = BdpWeight]
  ELSE IF battery >= w.lastEnergy /\ latency <= w.lastBdp
  THEN IF w.energy < 10 /\ w.bdp > 0
       THEN [w EXCEPT !.energy = @ + 1, !.bdp = @ - 1] ELSE w
  ELSE IF /\ battery <= w.lastEnergy /\ latency >= w.lastBdp
          /\ w.energy > 0 /\ w.bdp < 10
       THEN [w EXCEPT !.energy = @ - 1, !.bdp = @ + 1] ELSE w

\* A hop adds its cost to that of the path; one whose state is unknown adds
\* nothing.
Weigh(w, h) ==
  LET battery == InfoOf(h.name).battery
      new     == Adapt(w, battery, h.latency)
  IN  IF ~Known(h.name) THEN w
      ELSE [new EXCEPT !.cost = @ + battery * new.energy + h.latency * new.bdp,
                       !.lastEnergy = battery, !.lastBdp = h.latency]

\* The paths a condition admits, and the first of the cheapest of them.
Admitted(OK(_)) == {i \in DOMAIN paths : OK(paths[i].nodes)}
Cheapest(S) ==
  CHOOSE i \in S : \A j \in S : \/ paths[i].cost < paths[j].cost
                                \/ paths[i].cost = paths[j].cost /\ i <= j

Fitting == Admitted(LAMBDA nodes : Len(nodes) = opCount)
Longer  == Admitted(LAMBDA nodes : Len(nodes) > 1)

SecondHop(i) == Reverse(paths[i].nodes)[2]
SecondHopNodes == {SecondHop(i) : i \in Longer} \ {Own}

-----------------------------------------------------------------------------
Init ==
  /\ phase = "discovery"
  /\ algorithm \in {"Centralized", "Decentralized"}
  /\ query \in Queries
  /\ allNodes = <<>>
  /\ hopInfo = <<>> /\ traversalNodes = <<>> /\ traversedNodes = {}
  /\ check = [hop |-> 1, nodes |-> <<>>, cost |-> 0, energy |-> 0, bdp |-> 0,
              lastEnergy |-> 0, lastBdp |-> 0]
  /\ paths = <<>>
  /\ route = <<>> /\ currentNode = 1
  /\ executionNode = [o \in Ops |-> NoNode]
  /\ executed = {}
  /\ value = [o \in Ops |-> {}]
  /\ output = {}

\* A state arrives, or a text that is none (NodeInfo leaves its fields empty).
Malformed == [name |-> NoNode, links |-> <<>>, battery |-> 0]

GetNodeStatus ==
  /\ phase = "discovery"
  /\ Len(allNodes) < Len(Listed)
  /\ \E info \in Reports[Listed[Len(allNodes) + 1]] \cup {Malformed} :
       allNodes' = Append(allNodes, info)
  /\ UNCHANGED <<phase, algorithm, query, hopInfo, traversalNodes,
                 traversedNodes, check, paths, placement>>

\* "Query processing stopped.", or an exception: the own state is missing.
GiveUp ==
  /\ phase = "discovery"
  /\ Len(allNodes) = Len(Listed)
  /\ Len(allNodes) < opCount \/ ~Known(Own)
  /\ phase' = IF Len(allNodes) < opCount THEN "stopped" ELSE "failed"
  /\ UNCHANGED <<algorithm, query, discovery, placement>>

StartSearch ==
  /\ phase = "discovery"
  /\ Len(allNodes) = Len(Listed)
  /\ Len(allNodes) >= opCount
  /\ Known(Own)
  /\ traversedNodes' = {Own}
  /\ traversalNodes' = GetTraversalNodes(Own, <<>>, {Own})
  /\ hopInfo' = OneStepTraverse(Own, <<[name |-> Own, latency |-> 0, previous |-> 0]>>)
  /\ phase' = "search"
  /\ UNCHANGED <<algorithm, query, allNodes, check, paths, placement>>

\* One turn of the loop of buildPaths.
Traverse ==
  /\ phase = "search"
  /\ traversalNodes # <<>>
  /\ LET next == Head(traversalNodes) IN
       /\ hopInfo' = OneStepTraverse(next, hopInfo)
       /\ traversalNodes' = Tail(traversalNodes
                              \o GetTraversalNodes(next, traversalNodes, traversedNodes))
       /\ traversedNodes' = traversedNodes \cup {next}
  /\ UNCHANGED <<phase, algorithm, query, allNodes, check, paths, placement>>

PathsLeft == phase = "search" /\ traversalNodes = <<>> /\ Len(paths) < Len(hopInfo)

\* One turn of the loop of checkPath, from the far end of the path to the own
\* node.
CheckHop ==
  /\ PathsLeft
  /\ hopInfo[check.hop].previous # 0
  /\ check' = [IF TurnsBack(check.hop) THEN check
               ELSE [Weigh(check, hopInfo[check.hop])
                       EXCEPT !.nodes = Append(@, hopInfo[check.hop].name)]
               EXCEPT !.hop = hopInfo[@].previous]
  /\ UNCHANGED <<phase, algorithm, query, allNodes, hopInfo, traversalNodes,
                 traversedNodes, paths, placement>>

\* The path is complete; the next one starts from the next hop object.
FinishPath ==
  /\ PathsLeft
  /\ hopInfo[check.hop].previous = 0
  /\ paths' = Append(paths, [nodes |-> Append(check.nodes, Own), cost |-> check.cost])
  /\ check' = [check EXCEPT !.hop = Len(paths) + 2, !.nodes = <<>>, !.cost = 0,
                            !.lastEnergy = 0, !.lastBdp = 0]
  /\ UNCHANGED <<phase, algorithm, query, allNodes, hopInfo, traversalNodes,
                 traversedNodes, placement>>

PathsBuilt == phase = "search" /\ traversalNodes = <<>> /\ Len(paths) = Len(hopInfo)
PlacesHere == algorithm = "Centralized" \/ Cardinality(SecondHopNodes) >= opCount

\* The cheapest path with one node for each operator.
ChoosePath ==
  /\ PathsBuilt /\ PlacesHere
  /\ Fitting # {}
  /\ route' = Reverse(paths[Cheapest(Fitting)].nodes)
  /\ phase' = "placement"
  /\ UNCHANGED <<algorithm, query, discovery, currentNode, executionNode, results>>

\* A node with too few neighbours sends the query on along the cheapest path.
Forward ==
  /\ PathsBuilt /\ ~PlacesHere
  /\ Longer # {}
  /\ route' = <<SecondHop(Cheapest(Longer))>>
  /\ phase' = "forwarded"
  /\ UNCHANGED <<algorithm, query, discovery, currentNode, executionNode, results>>

\* minBy of nothing is an exception.
NoPath ==
  /\ PathsBuilt
  /\ IF PlacesHere THEN Fitting = {} ELSE Longer = {}
  /\ phase' = "failed"
  /\ UNCHANGED <<algorithm, query, discovery, placement>>

-----------------------------------------------------------------------------
\* Seeded fault: the walk goes right again after it came back from there.
Undone_RightAgain(o, done) ==
  IF Right(query, o) # 0 THEN Right(query, o)
  ELSE IF Left(query, o) # 0 /\ Left(query, o) \notin done THEN Left(query, o)
  ELSE o

\* Where the walk goes from operator o: to an operand that is not done, the
\* right one first, and to o itself when there is none.
Undone(o, done) ==
  IF Right(query, o) # 0 /\ Right(query, o) \notin done THEN Right(query, o)
  ELSE IF Left(query, o) # 0 /\ Left(query, o) \notin done THEN Left(query, o)
  ELSE o

Placed == {o \in Ops : executionNode[o] # NoNode}

\* processPlacementTree goes down to an operand without a node.
PlaceBelow ==
  /\ phase = "placement"
  /\ currentNode \notin Placed
  /\ Undone(currentNode, Placed) # currentNode
  /\ currentNode' = Undone(currentNode, Placed)
  /\ UNCHANGED <<phase, algorithm, query, discovery, route, executionNode, results>>

\* Seeded fault: the operators are placed from the near end of the path.
PlaceSelf_Nearest ==
  /\ phase = "placement"
  /\ currentNode \notin Placed
  /\ Undone(currentNode, Placed) = currentNode
  /\ route # <<>>
  /\ executionNode' = [executionNode EXCEPT ![currentNode] = Head(route)]
  /\ route' = Tail(route)
  /\ IF currentNode = 1
     THEN phase' = "deployment" /\ UNCHANGED currentNode
     ELSE currentNode' = Parent(currentNode) /\ UNCHANGED phase
  /\ UNCHANGED <<algorithm, query, discovery, results>>

\* It places the operator on the last node of the path and goes up; the
\* deployment starts from the root. (A path that ran dry would stop the walk
\* early: OperatorsPlaced says that there is a node for every operator.)
PlaceSelf ==
  /\ phase = "placement"
  /\ currentNode \notin Placed
  /\ Undone(currentNode, Placed) = currentNode
  /\ route # <<>>
  /\ executionNode' = [executionNode EXCEPT ![currentNode] = Last(route)]
  /\ route' = Front(route)
  /\ IF currentNode = 1
     THEN phase' = "deployment" /\ UNCHANGED currentNode
     ELSE currentNode' = Parent(currentNode) /\ UNCHANGED phase
  /\ UNCHANGED <<algorithm, query, discovery, results>>

\* processDeploymentTree goes down to an operand that was not executed.
DeployBelow ==
  /\ phase = "deployment"
  /\ Undone(currentNode, executed) # currentNode
  /\ currentNode' = Undone(currentNode, executed)
  /\ UNCHANGED <<phase, algorithm, query, discovery, route, executionNode, results>>

\* The operands whose results are written in place of [Q1] and [Q2]; the other
\* operators are executed with the placeholder.
Substituted(q, o) ==
  CASE q.type[o] = "JOIN" -> {Left(q, o), Right(q, o)}
    [] q.type[o] \in {"PREDICT1", "HEATMAP"} -> {Left(q, o)}
    [] OTHER -> {}

\* An operand or a parameter that is missing is an exception.
Deployable(o) ==
  /\ 0 \notin Substituted(query, o)
  /\ algorithm = "Centralized" => o \notin query.short

\* The operator is executed on its node, which answers with the name of a
\* result or with none; the walk goes up, and ends with the root.
DeploySelf ==
  /\ phase = "deployment"
  /\ Undone(currentNode, executed) = currentNode
  /\ Deployable(currentNode)
  /\ executed' = executed \cup {currentNode}
  /\ \E result \in {{}, {currentNode} \cup UNION {value[o] : o \in Substituted(query, currentNode)}} :
       /\ value' = [value EXCEPT ![currentNode] = result]
       /\ IF currentNode = 1
          THEN phase' = "result" /\ output' = result /\ UNCHANGED currentNode
          ELSE currentNode' = Parent(currentNode) /\ UNCHANGED <<phase, output>>
  /\ UNCHANGED <<algorithm, query, discovery, route, executionNode>>

DeployFails ==
  /\ phase = "deployment"
  /\ Undone(currentNode, executed) = currentNode
  /\ ~Deployable(currentNode)
  /\ phase' = "failed"
  /\ UNCHANGED <<algorithm, query, discovery, placement>>

\* The answer to the forwarded query goes to a variable of the inner block
\* and is lost: the output is still the empty name.
TakeForwarded ==
  /\ phase = "forwarded"
  /\ phase' = "result"
  /\ UNCHANGED <<algorithm, query, discovery, placement>>

\* The content of the result is fetched and returned; a name that is none is
\* asked for again and again.
FetchResult ==
  /\ phase = "result"
  /\ output # {}
  /\ phase' = "done"
  /\ UNCHANGED <<algorithm, query, discovery, placement>>

-----------------------------------------------------------------------------
BuildPaths == Traverse \/ CheckHop \/ FinishPath \/ ChoosePath \/ Forward \/ NoPath
PlaceOperators == PlaceBelow \/ PlaceSelf
DeployOperators == DeployBelow \/ DeploySelf \/ DeployFails

Next == \/ GetNodeStatus \/ GiveUp \/ StartSearch
        \/ BuildPaths \/ PlaceOperators \/ DeployOperators
        \/ TakeForwarded \/ FetchResult

Spec == Init /\ [][Next]_vars

\* The thread of the service runs on when it waits for nobody.
FairSpec == Spec /\ WF_vars(BuildPaths) /\ WF_vars(PlaceOperators)

-----------------------------------------------------------------------------
(***************************************************************************)
(* Properties.                                                             *)
(***************************************************************************)
\* Every variable has its type; the two weights always share the whole
\* between them, so that no hop ever has a negative cost.
TypeOK ==
  /\ phase \in {"discovery", "stopped", "failed", "search", "placement",
                "deployment", "forwarded", "result", "done"}
  /\ algorithm \in {"Centralized", "Decentralized"}
  /\ query \in Queries
  /\ Len(allNodes) <= Len(Listed)
  /\ \A i \in DOMAIN allNodes : allNodes[i].name \in {Listed[i], NoNode}
  /\ \A i \in DOMAIN hopInfo : hopInfo[i].name \in Nodes /\ hopInfo[i].previous \in 0 .. i - 1
  /\ ToSet(traversalNodes) \cup traversedNodes \subseteq Nodes
  /\ check.energy \in 0 .. 10 /\ check.bdp \in 0 .. 10
  /\ check.energy + check.bdp \in {0, 10}
  /\ \A i \in DOMAIN paths : paths[i].cost >= 0 /\ ToSet(paths[i].nodes) \subseteq Nodes
  /\ ToSet(route) \subseteq Nodes
  /\ currentNode \in Ops
  /\ executionNode \in [Ops -> Nodes \cup {NoNode}]
  /\ executed \subseteq Ops
  /\ value \in [Ops -> SUBSET Ops]
  /\ output \subseteq Ops

Linked(m, n) == Known(m) /\ \E i \in DOMAIN Links(m) : Links(m)[i].node = n
Distinct(s) == Cardinality(ToSet(s)) = Len(s)

\* The nodes up to k links away from the own one.
Within ==
  LET reach[k \in 0 .. Cardinality(Nodes)] ==
        IF k = 0 THEN {Own}
        ELSE reach[k - 1] \cup {n \in Nodes : \E m \in reach[k - 1] : Linked(m, n)}
  IN  reach

\* A link between known nodes that only one of them reports.
OneSided == \E m, n \in Nodes : Linked(m, n) /\ Known(n) /\ ~Linked(n, m)

\* The paths that are weighed are real: each leads from a node to the own one
\* over links that were reported, and passes no node twice unless the states
\* of two nodes contradict each other. When they are complete, no node that
\* can be reached is missing, and the first path to each node is a shortest
\* one (buildPaths: the hops grow while they are searched, and a hop hangs
\* below the first hop object of the node before it).
RoutesSound ==
  /\ \A i \in DOMAIN paths :
       LET nodes == paths[i].nodes IN
         /\ Last(nodes) = Own
         /\ \A k \in 1 .. Len(nodes) - 1 : Linked(nodes[k + 1], nodes[k])
         /\ Distinct(nodes) \/ OneSided
  /\ phase = "search" /\ Len(paths) > 0 /\ Len(paths) = Len(hopInfo) =>
       LET reach == Within IN
       \A k \in DOMAIN reach : \A n \in reach[k] \ UNION {reach[j] : j \in 0 .. k - 1} :
         LET first == FirstHop(hopInfo, n)
         IN  first # 0 /\ paths[first].nodes[1] = n /\ Len(paths[first].nodes) = k + 1

Below(o) == Operands(query, o)

\* The operators are placed and executed in the right order and in the right
\* places: there is a node left for every operator without one, the root
\* operator runs on the own node, no node runs two operators unless states
\* contradict each other, and an operator runs once it and all its operands
\* have their places and its operands have run. An answer holds the result of
\* every operator whose operands are written into it.
OperatorsPlaced ==
  /\ phase = "placement" => Len(route) = Cardinality(Ops \ Placed)
  /\ 1 \in Placed => executionNode[1] = Own
  /\ \A o, p \in Placed : o # p /\ executionNode[o] = executionNode[p] => OneSided
  /\ \A o \in Placed : Below(o) \subseteq Placed
  /\ \A o \in executed : o \in Placed /\ Below(o) \subseteq executed
  /\ phase = "done" /\ (\A o \in Ops : value[o] # {} /\ Below(o) = Substituted(query, o)) => output = Ops

\* Once the states of all nodes are known, the search ends and every operator
\* finds its place, or the query fails or is sent on: the loop over the nodes
\* still to be traversed does not go in circles, and neither does the walk
\* through the tree.
SearchEnds ==
  phase \in {"search", "placement"} ~> phase \in {"deployment", "forwarded", "failed"}
=============================================================================
