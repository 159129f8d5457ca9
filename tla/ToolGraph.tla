----------------------------- MODULE ToolGraph -----------------------------
(***************************************************************************)
(* The state engine of graph/graph.go: a bounded directed graph over tool  *)
(* executions.  A node is a tool that ran, an edge a -> b counts how often *)
(* b ran immediately after a.  Both the nodes and the edges of a node are  *)
(* bounded; what is dropped, and in which order, is what this module is    *)
(* about.                                                                  *)
(*                                                                         *)
(* A tool is a positive integer, ordered as Go orders the names; NoTool    *)
(* is the empty string the code keeps in `last` and `prev` before the      *)
(* first executions.  The maps of the code are total functions in which 0  *)
(* means "absent": a stored use count, sequence number or edge count is    *)
(* at least 1.                                                             *)
(***************************************************************************)
EXTENDS Ranking, Functions

CONSTANTS
  Tools,            \* the tool names that may be executed
  MaxNodes,         \* New's first argument, any integer of a config file
  MaxEdgesPerNode,  \* New's second argument
  MaxCalls          \* bound of the model: executions recorded in a behavior

NoTool == 0
DefaultMaxNodes == 512
DefaultMaxEdgesPerNod == 32

ASSUME ToolsAssumption == Tools \subseteq Nat \ {0} /\ IsFiniteSet(Tools)
ASSUME LimitsAssumption == MaxNodes \in Int /\ MaxEdgesPerNode \in Int
ASSUME MaxCallsAssumption == MaxCalls \in Nat

(* New: non-positive limits fall back to the defaults.                     *)
LimitOr(limit, default) == IF limit <= 0 THEN default ELSE limit
NodeLimit == LimitOr(MaxNodes, DefaultMaxNodes)
EdgeLimit == LimitOr(MaxEdgesPerNode, DefaultMaxEdgesPerNod)

VARIABLES
  nodes,      \* the keys of Graph.nodes
  uses,       \* node.uses
  lastSeq,    \* node.lastSeq
  out,        \* node.out
  outTotal,   \* node.outTotal
  seq,        \* Graph.seq
  totalUses,  \* Graph.totalUses
  last, prev  \* Graph.last, Graph.prev

graphVars ==
  <<nodes, uses, lastSeq, out, outTotal, seq, totalUses, last, prev>>

NoEdges == [b \in Tools |-> 0]

Init ==
  /\ nodes = {}
  /\ uses = [t \in Tools |-> 0]
  /\ lastSeq = [t \in Tools |-> 0]
  /\ out = [t \in Tools |-> NoEdges]
  /\ outTotal = [t \in Tools |-> 0]
  /\ seq = 0
  /\ totalUses = 0
  /\ last = NoTool
  /\ prev = NoTool

-----------------------------------------------------------------------------
(* trimEdges: `edges` is one node's map, `total` its outTotal.             *)
EdgesOf(edges) == {b \in Tools : edges[b] > 0}

StrongerEdge(edges) ==
  {p \in Tools \X Tools : \/ edges[p[1]] > edges[p[2]]
                          \/ edges[p[1]] = edges[p[2]] /\ p[1] < p[2]}

\* Mutant of KeptEdges: by name, whatever the counts.
KeptEdgesByName(edges) ==
  FirstN(EdgesOf(edges), {p \in Tools \X Tools : p[1] < p[2]}, EdgeLimit)

KeptEdges(edges) == FirstN(EdgesOf(edges), StrongerEdge(edges), EdgeLimit)

TrimEdges(edges) ==
  [b \in Tools |-> IF b \in KeptEdges(edges) THEN edges[b] ELSE 0]

\* Mutant of TrimmedTotal: the trimmed counts stay in the total.
TrimmedTotalStale(edges, total) == total

TrimmedTotal(edges, total) ==
  IF Cardinality(EdgesOf(edges)) <= EdgeLimit
  THEN total
  ELSE SumFunctionOnSet(edges, KeptEdges(edges))

(* The edge last -> name of a Record: both branches of the code do the     *)
(* same, so a self-transition is an edge like any other.                   *)
Followed(name) == [out[last] EXCEPT ![name] = @ + 1]

\* Mutant of OutAfterEdge: the edge leaves the tool before the last one.
OutAfterEdgeFromPrev(name) ==
  IF prev \in nodes \cup {name}
  THEN [out EXCEPT ![prev] = TrimEdges([@ EXCEPT ![name] = @ + 1])]
  ELSE out

OutAfterEdge(name) ==
  IF last \in nodes \cup {name}
  THEN [out EXCEPT ![last] = TrimEdges(Followed(name))]
  ELSE out

OutTotalAfterEdge(name) ==
  IF last \in nodes \cup {name}
  THEN [outTotal EXCEPT ![last] = TrimmedTotal(Followed(name), @ + 1)]
  ELSE outTotal

-----------------------------------------------------------------------------
(* evict: ns and ls are the nodes and their lastSeq once the execution is  *)
(* recorded; context holds the new last and prev, skipped and not replaced *)
(* by a younger victim.                                                    *)
OlderNode(ls) ==
  {p \in Tools \X Tools : \/ ls[p[1]] < ls[p[2]]
                          \/ ls[p[1]] = ls[p[2]] /\ p[1] < p[2]}

\* Mutants of Victims: name order; one node too few; one too many.
VictimsAnyOrder(ns, ls, context) ==
  FirstN(ns, {p \in Tools \X Tools : p[1] < p[2]},
         Cardinality(ns) - NodeLimit) \ context
VictimsOffByOne(ns, ls, context) ==
  FirstN(ns, OlderNode(ls), Cardinality(ns) - NodeLimit - 1) \ context
VictimsTooMany(ns, ls, context) ==
  FirstN(ns, OlderNode(ls), Cardinality(ns) - NodeLimit + 1) \ context

Victims(ns, ls, context) ==
  FirstN(ns, OlderNode(ls), Cardinality(ns) - NodeLimit) \ context

\* Mutant of ForgetEdges: the edges that lead to a dropped node stay.
ForgetOwnEdges(gone, edges) ==
  [a \in Tools |-> IF a \in gone THEN NoEdges ELSE edges[a]]

(* Deleting a node deletes the edges that lead to it and takes their       *)
(* counts from the totals of the nodes they leave.                         *)
ForgetEdges(gone, edges) ==
  [a \in Tools |-> [b \in Tools |->
     IF a \in gone \/ b \in gone THEN 0 ELSE edges[a][b]]]

ForgetTotals(gone, edges, totals) ==
  [a \in Tools |->
     IF a \in gone THEN 0 ELSE totals[a] - SumFunctionOnSet(edges[a], gone)]

Forget(gone, f) == [t \in Tools |-> IF t \in gone THEN 0 ELSE f[t]]

-----------------------------------------------------------------------------
\* Mutant of Stamped: lastSeq is set before the counter moves.
StampedEarly(name) == [lastSeq EXCEPT ![name] = seq]

Stamped(name) == [lastSeq EXCEPT ![name] = seq + 1]

(* Record(name), one call: the execution, its edge, the new context and    *)
(* the eviction are one step, under the session's lock.                    *)
Record(name) ==
  LET gone == Victims(nodes \cup {name}, Stamped(name), {name, last})
  IN /\ seq' = seq + 1
     /\ totalUses' = totalUses + 1
     /\ nodes' = (nodes \cup {name}) \ gone
     /\ uses' = Forget(gone, [uses EXCEPT ![name] = @ + 1])
     /\ lastSeq' = Forget(gone, Stamped(name))
     /\ out' = ForgetEdges(gone, OutAfterEdge(name))
     /\ outTotal' =
          ForgetTotals(gone, OutAfterEdge(name), OutTotalAfterEdge(name))
     /\ prev' = last
     /\ last' = name

Next == /\ seq < MaxCalls
        /\ \E name \in Tools : Record(name)

Spec == Init /\ [][Next]_graphVars

(* How many executions happened after the last use of a tool, -1 when the  *)
(* graph does not know it.                                                 *)
StepsSince(name) == IF name \in nodes THEN seq - lastSeq[name] ELSE -1

-----------------------------------------------------------------------------
(* The type of the state.  lastSeq never runs ahead of the execution       *)
(* counter, on which StepsSince's unsigned subtraction relies, and is set  *)
(* for exactly the nodes, on which StepsSince's answer -1 relies.          *)
TypeOK ==
  /\ nodes \subseteq Tools
  /\ seq \in Nat
  /\ totalUses \in Nat
  /\ uses \in [Tools -> Nat]
  /\ lastSeq \in [Tools -> 0 .. seq]
  /\ \A t \in Tools : t \in nodes <=> lastSeq[t] > 0
  /\ out \in [Tools -> [Tools -> Nat]]
  /\ DOMAIN outTotal = Tools  \* its values: OutTotalIsSum
  /\ last \in Tools \cup {NoTool}
  /\ prev \in Tools \cup {NoTool}

(* Every edge joins two nodes: an evicted tool leaves no edge behind, so   *)
(* TransitionProb never predicts a tool the graph has forgotten, and no    *)
(* map grows by edges to tools outside `nodes` (graph.go, evict).          *)
NoDanglingEdges ==
  \A a, b \in Tools : out[a][b] > 0 => a \in nodes /\ b \in nodes

(* outTotal is the sum of the counts it is the denominator for, whatever   *)
(* was trimmed or evicted: TransitionProb is a probability, and the        *)
(* unsigned outTotal never wraps below zero (graph.go, trimEdges, evict).  *)
OutTotalIsSum == \A a \in Tools : outTotal[a] = SumFunction(out[a])

(* The node budget holds after every call.  The last two tools are never   *)
(* dropped, so a budget of one node may hold two (graph.go, evict).        *)
NodeBound ==
  Cardinality(nodes) <= IF NodeLimit >= 2 THEN NodeLimit ELSE 2

(* No node keeps more than its budget of outgoing edges (trimEdges).       *)
EdgeBound ==
  \A a \in Tools : Cardinality(EdgesOf(out[a])) <= EdgeLimit

(* The memory of the state engine is bounded (graph.go, package comment).  *)
StateBounded == NodeBound /\ EdgeBound

(* The two tools the successor signals start from are always nodes: the    *)
(* eviction that follows an execution never takes its own context away.    *)
ContextSurvives == {last, prev} \subseteq nodes \cup {NoTool}

(* No two nodes share a sequence number and the last tool carries the      *)
(* newest one: recency alone decides an eviction, the comparator's name    *)
(* tie-break never does (graph.go, Record and evict).                      *)
RecencyStrict ==
  /\ \A a, b \in nodes : lastSeq[a] = lastSeq[b] => a = b
  /\ IF last = NoTool THEN nodes = {}
     ELSE last \in nodes /\ lastSeq[last] = seq

(* Eviction is least-recently-used: every node a call drops ran before     *)
(* every node it keeps (graph.go, evict and the package comment).          *)
EvictsLeastRecent ==
  [][\A a \in nodes \ nodes', b \in nodes' : lastSeq[a] < lastSeq'[b]]_graphVars

(* Edges leave by strength, not by age: a call drops an edge between tools *)
(* it keeps only in favour of edges that are at least as strong, even if   *)
(* that edge is the one it has just recorded (graph.go, trimEdges).        *)
WeakestEdgeLeaves ==
  [][\A a, b, c \in nodes' :
       LET count == out[a][b] + IF a = last /\ b = last' THEN 1 ELSE 0
       IN count > 0 /\ out'[a][b] = 0 /\ out'[a][c] > 0
            => out'[a][c] >= count]_graphVars
=============================================================================
