-------------------------- MODULE ToolGraphProofs --------------------------
(***************************************************************************)
(* The bounds of the tool graph and its least-recently-used eviction, for  *)
(* every set of tools and every pair of limits.                            *)
(*                                                                         *)
(* The argument: recency is a strict order in which the last two tools are *)
(* the newest (RecencyStrict), hence outside every prefix an eviction      *)
(* cuts while the budget is two or more, hence sparing them costs nothing. *)
(*                                                                         *)
(* Compared with the history of the calls: a count or a stamp can only be  *)
(* lost, never invented (HInv), and a node that is evicted has as many     *)
(* younger ones as the limit keeps.  The totals, which are only ever added *)
(* to and subtracted from, remain the sums they stand for.                 *)
(***************************************************************************)
EXTENDS MCToolGraph, RankingProofs

-----------------------------------------------------------------------------
(* The comparators of evict and trimEdges are strict total orders.         *)
LEMMA OlderNodeStrict ==
  ASSUME NEW ls \in [Tools -> Nat], NEW ns \in SUBSET Tools
  PROVE  StrictOrderOn(ns, OlderNode(ls))
BY ToolsAssumption DEF StrictOrderOn, OlderNode

LEMMA StrongerEdgeStrict ==
  ASSUME NEW edges \in [Tools -> Nat]
  PROVE  StrictOrderOn(EdgesOf(edges), StrongerEdge(edges))
BY ToolsAssumption DEF StrictOrderOn, StrongerEdge, EdgesOf

(* The limits New settles on are positive.                                 *)
LEMMA LimitsPositive == NodeLimit \in Nat \ {0} /\ EdgeLimit \in Nat \ {0}
BY LimitsAssumption
   DEF NodeLimit, EdgeLimit, LimitOr, DefaultMaxNodes, DefaultMaxEdgesPerNod

(* A trimmed map counts what it counted, for EdgeLimit edges at most.      *)
LEMMA TrimEdgesBound ==
  ASSUME NEW edges \in [Tools -> Nat]
  PROVE  /\ TrimEdges(edges) \in [Tools -> Nat]
         /\ EdgesOf(TrimEdges(edges)) \subseteq EdgesOf(edges)
         /\ Cardinality(EdgesOf(TrimEdges(edges))) <= EdgeLimit
<1>1. TrimEdges(edges) \in [Tools -> Nat]
  BY DEF TrimEdges
<1>2. /\ EdgesOf(TrimEdges(edges)) \subseteq KeptEdges(edges)
      /\ KeptEdges(edges) \subseteq EdgesOf(edges)
  BY DEF EdgesOf, TrimEdges, KeptEdges, FirstN
<1>3. IsFiniteSet(EdgesOf(edges))
  BY ToolsAssumption, FS_Subset DEF EdgesOf
<1>4. /\ IsFiniteSet(KeptEdges(edges))
      /\ Cardinality(KeptEdges(edges)) \in Nat
      /\ Cardinality(EdgesOf(edges)) \in Nat
      /\ Cardinality(KeptEdges(edges)) <= Cardinality(EdgesOf(edges))
  BY <1>2, <1>3, FS_Subset, FS_CardinalityType
<1>5. Cardinality(KeptEdges(edges)) <= EdgeLimit
  <2>1. CASE EdgeLimit <= Cardinality(EdgesOf(edges))
    BY <2>1, <1>3, LimitsPositive, StrongerEdgeStrict, FirstNCardinality
       DEF KeptEdges
  <2>2. CASE ~(EdgeLimit <= Cardinality(EdgesOf(edges)))
    BY <2>2, <1>4, LimitsPositive
  <2> QED
    BY <2>1, <2>2
<1>6. /\ Cardinality(EdgesOf(TrimEdges(edges))) \in Nat
      /\ Cardinality(EdgesOf(TrimEdges(edges))) <= Cardinality(KeptEdges(edges))
  BY <1>2, <1>4, FS_Subset, FS_CardinalityType
<1> QED
  BY <1>1, <1>2, <1>4, <1>5, <1>6, LimitsPositive

-----------------------------------------------------------------------------
(* What an execution does to the recency order before anything is evicted. *)
LEMMA StampedNewest ==
  ASSUME TypeOK, RecencyStrict, NEW name \in Tools
  PROVE  LET ns == nodes \cup {name}
             ls == Stamped(name)
         IN /\ ls \in [Tools -> 0 .. seq + 1]
            /\ ls[name] = seq + 1
            /\ \A t \in Tools \ {name} : ls[t] = lastSeq[t] /\ ls[t] <= seq
            /\ \A t \in Tools : t \in ns <=> ls[t] > 0
            /\ \A a, b \in ns : ls[a] = ls[b] => a = b
BY DEF TypeOK, RecencyStrict, Stamped

(* An eviction spares the tool that just ran and the one before it, and    *)
(* every node it drops is older than every node it keeps.                  *)
LEMMA VictimsOldest ==
  ASSUME TypeOK, RecencyStrict, NEW name \in Tools
  PROVE  LET ns == nodes \cup {name}
             ls == Stamped(name)
             gone == Victims(ns, ls, {name, last})
         IN /\ gone \subseteq ns \ {name, last}
            /\ \A a \in gone, b \in ns \ gone : ls[a] < ls[b]
<1> DEFINE ns == nodes \cup {name}
           ls == Stamped(name)
           n == Cardinality(ns) - NodeLimit
           cut == FirstN(ns, OlderNode(ls), n)
           gone == Victims(ns, ls, {name, last})
<1>1. gone = cut \ {name, last}
  BY DEF Victims
<1>2. ns \in SUBSET Tools /\ IsFiniteSet(ns)
  <2>1. ns \in SUBSET Tools
    BY DEF TypeOK
  <2> QED
    BY <2>1, ToolsAssumption, FS_Subset
<1>3. ls \in [Tools -> Nat]
  BY StampedNewest DEF TypeOK
<1>4. n \in Int
  BY <1>2, FS_CardinalityType, LimitsPositive
<1>5. cut \subseteq ns
  BY DEF FirstN
<1>6. ASSUME NEW a \in gone, NEW b \in ns \ gone
      PROVE  ls[a] < ls[b]
  <2>1. a \in cut /\ a \in ns /\ a # name /\ a # last /\ a # b
    BY <1>1, <1>5
  <2>2. CASE b = name
    BY <2>1, <2>2, <1>2, StampedNewest DEF TypeOK
  <2>3. CASE b = last /\ b # name
    <3>1. a \in nodes /\ last \in nodes /\ last # NoTool
      BY <2>1, <2>3, <1>2, ToolsAssumption DEF NoTool, TypeOK
    <3>2. lastSeq[a] # lastSeq[last] /\ lastSeq[last] = seq
      BY <3>1, <2>1 DEF RecencyStrict
    <3>3. ls[a] = lastSeq[a] /\ ls[b] = seq /\ ls[a] <= seq
      BY <3>1, <3>2, <2>1, <2>3, <1>2, StampedNewest
    <3> QED
      BY <3>2, <3>3, <3>1, <1>3, <1>2, SMTT(20) DEF TypeOK
  <2>4. CASE b # name /\ b # last
    <3>1. b \in ns \ cut
      BY <2>4, <1>1
    <3>2. StrictOrderOn(ns, OlderNode(ls))
      BY <1>2, <1>3, OlderNodeStrict
    <3>3. <<a, b>> \in OlderNode(ls)
      BY <2>1, <3>1, <3>2, <1>2, <1>4, CutSortsAfter
    <3>4. ls[a] # ls[b]
      BY <2>1, StampedNewest
    <3> QED
      BY <3>3, <3>4, <1>3, <1>2, <2>1 DEF OlderNode
  <2> QED
    BY <2>2, <2>3, <2>4
<1> HIDE DEF ns, ls
<1> QED
  BY <1>1, <1>5, <1>6 DEF ns, ls

(* The edges after an execution: well typed, inside the bound, and between *)
(* nodes.                                                                  *)
LEMMA OutAfterEdgeFacts ==
  ASSUME TypeOK, NEW name \in Tools
  PROVE  /\ OutAfterEdge(name) \in [Tools -> [Tools -> Nat]]
         /\ EdgeBound =>
              \A a \in Tools :
                Cardinality(EdgesOf(OutAfterEdge(name)[a])) <= EdgeLimit
         /\ NoDanglingEdges =>
              \A a, b \in Tools : OutAfterEdge(name)[a][b] > 0 =>
                a \in nodes \cup {name} /\ b \in nodes \cup {name}
<1>1. CASE last \notin nodes \cup {name}
  BY <1>1 DEF OutAfterEdge, TypeOK, EdgeBound, NoDanglingEdges
<1>2. CASE last \in nodes \cup {name}
  <2>1. last \in Tools
    BY <1>2 DEF TypeOK
  <2>2. /\ Followed(name) \in [Tools -> Nat]
        /\ \A b \in Tools : Followed(name)[b] > 0 => out[last][b] > 0 \/ b = name
    BY <2>1 DEF Followed, TypeOK
  <2>3. /\ TrimEdges(Followed(name)) \in [Tools -> Nat]
        /\ EdgesOf(TrimEdges(Followed(name))) \subseteq EdgesOf(Followed(name))
        /\ Cardinality(EdgesOf(TrimEdges(Followed(name)))) <= EdgeLimit
    BY <2>2, TrimEdgesBound
  <2>4. /\ OutAfterEdge(name) \in [Tools -> [Tools -> Nat]]
        /\ OutAfterEdge(name)[last] = TrimEdges(Followed(name))
        /\ \A a \in Tools \ {last} : OutAfterEdge(name)[a] = out[a]
    BY <1>2, <2>1, <2>3 DEF OutAfterEdge, TypeOK
  <2>5. ASSUME EdgeBound, NEW a \in Tools
        PROVE  Cardinality(EdgesOf(OutAfterEdge(name)[a])) <= EdgeLimit
    BY <2>3, <2>4, <2>5 DEF EdgeBound
  <2>6. ASSUME NoDanglingEdges, NEW a \in Tools, NEW b \in Tools,
               OutAfterEdge(name)[a][b] > 0
        PROVE  a \in nodes \cup {name} /\ b \in nodes \cup {name}
    <3>1. CASE a = last
      <4>1. b \in EdgesOf(TrimEdges(Followed(name)))
        BY <2>4, <2>6, <3>1 DEF EdgesOf
      <4>2. Followed(name)[b] > 0
        BY <4>1, <2>3 DEF EdgesOf
      <4> QED
        BY <4>2, <2>2, <2>1, <1>2, <2>6, <3>1 DEF NoDanglingEdges
    <3>2. CASE a # last
      BY <2>4, <2>6, <3>2 DEF NoDanglingEdges
    <3> QED
      BY <3>1, <3>2
  <2> QED
    BY <2>4, <2>5, <2>6
<1> QED
  BY <1>1, <1>2

-----------------------------------------------------------------------------
(* The inductive invariant.                                                *)
IInv == TypeOK /\ RecencyStrict /\ ContextSurvives

LEMMA InitIInv == Init => IInv
BY DEF Init, IInv, TypeOK, RecencyStrict, ContextSurvives, NoEdges, NoTool

LEMMA RecordIInv ==
  ASSUME IInv, NEW name \in Tools, Record(name)
  PROVE  IInv'
<1> DEFINE ns == nodes \cup {name}
           ls == Stamped(name)
           gone == Victims(ns, ls, {name, last})
<1>1. /\ ls \in [Tools -> 0 .. seq + 1]
      /\ ls[name] = seq + 1
      /\ \A t \in Tools : t \in ns <=> ls[t] > 0
      /\ \A a, b \in ns : ls[a] = ls[b] => a = b
  BY StampedNewest DEF IInv
<1>2. gone \subseteq ns \ {name, last}
  BY VictimsOldest DEF IInv
<1>3. OutAfterEdge(name) \in [Tools -> [Tools -> Nat]]
  BY OutAfterEdgeFacts DEF IInv
<1>4. /\ seq' = seq + 1 /\ last' = name /\ prev' = last
      /\ nodes' = ns \ gone
      /\ lastSeq' = Forget(gone, ls)
  BY DEF Record
<1>5. seq \in Nat /\ nodes \subseteq Tools /\ last \in Tools \cup {NoTool}
  BY DEF IInv, TypeOK
<1> HIDE DEF ls, gone
<1>6. /\ lastSeq' \in [Tools -> 0 .. seq']
      /\ \A t \in Tools : lastSeq'[t] = IF t \in gone THEN 0 ELSE ls[t]
  BY <1>1, <1>4, <1>5 DEF Forget
<1>7. TypeOK'
  <2>1. totalUses' \in Nat /\ prev' \in Tools \cup {NoTool}
        /\ last' \in Tools \cup {NoTool} /\ seq' \in Nat
        /\ nodes' \subseteq Tools
    BY <1>4, <1>5 DEF Record, IInv, TypeOK
  <2>2. uses' \in [Tools -> Nat]
    BY DEF Record, IInv, TypeOK, Forget
  <2>3. out' \in [Tools -> [Tools -> Nat]]
    BY <1>3 DEF Record, ForgetEdges, NoEdges
  <2>4. DOMAIN outTotal' = Tools
    BY DEF Record, ForgetTotals
  <2>5. \A t \in Tools : t \in nodes' <=> lastSeq'[t] > 0
    BY <1>1, <1>2, <1>4, <1>6
  <2> QED
    BY <2>1, <2>2, <2>3, <2>4, <2>5, <1>6 DEF TypeOK
<1>8. RecencyStrict'
  <2>1. name # NoTool
    BY ToolsAssumption DEF NoTool
  <2>2. name \in nodes' /\ lastSeq'[name] = seq'
    BY <1>1, <1>2, <1>4, <1>6
  <2>3. \A a, b \in nodes' : lastSeq'[a] = lastSeq'[b] => a = b
    BY <1>1, <1>4, <1>5, <1>6
  <2> QED
    BY <2>1, <2>2, <2>3, <1>4 DEF RecencyStrict, NoTool
<1>9. ContextSurvives'
  <2>1. last \in ns \cup {NoTool}
    BY DEF IInv, RecencyStrict
  <2> QED
    BY <2>1, <1>2, <1>4 DEF ContextSurvives, NoTool
<1> QED
  BY <1>7, <1>8, <1>9 DEF IInv

LEMMA NextIInv == IInv /\ [Next]_graphVars => IInv'
<1>1. ASSUME IInv, UNCHANGED graphVars PROVE IInv'
  BY <1>1 DEF graphVars, IInv, TypeOK, RecencyStrict, ContextSurvives
<1> QED
  BY <1>1, RecordIInv DEF Next

(* The state is well typed and lastSeq never runs ahead of the counter:    *)
(* the unsigned subtraction in StepsSince cannot wrap.                     *)
THEOREM TypeCorrect == Spec => []TypeOK
<1>1. IInv => TypeOK
  BY DEF IInv
<1> QED
  BY <1>1, InitIInv, NextIInv, PTL DEF Spec

(* Recency alone orders the nodes: the name tie-break of evict is never    *)
(* decisive, and the tool that ran last is the newest node.                *)
THEOREM RecencyCorrect == Spec => []RecencyStrict
<1>1. IInv => RecencyStrict
  BY DEF IInv
<1> QED
  BY <1>1, InitIInv, NextIInv, PTL DEF Spec

(* However small the budget, the last two tools stay in the graph.         *)
THEOREM ContextCorrect == Spec => []ContextSurvives
<1>1. IInv => ContextSurvives
  BY DEF IInv
<1> QED
  BY <1>1, InitIInv, NextIInv, PTL DEF Spec

-----------------------------------------------------------------------------
(* Edges join nodes: the edges to a dropped tool are dropped with it.      *)
THEOREM EdgesJoinNodes == Spec => []NoDanglingEdges
<1>1. Init => NoDanglingEdges
  BY DEF Init, NoDanglingEdges, NoEdges
<1>2. ASSUME IInv, NoDanglingEdges, NEW name \in Tools, Record(name)
      PROVE  NoDanglingEdges'
  <2> DEFINE gone == Victims(nodes \cup {name}, Stamped(name), {name, last})
  <2>1. SUFFICES ASSUME NEW a \in Tools, NEW b \in Tools, out'[a][b] > 0
                 PROVE  a \in nodes' /\ b \in nodes'
    BY DEF NoDanglingEdges
  <2>2. a \notin gone /\ b \notin gone /\ OutAfterEdge(name)[a][b] > 0
    BY <1>2, <2>1 DEF Record, ForgetEdges
  <2>3. a \in nodes \cup {name} /\ b \in nodes \cup {name}
    BY <1>2, <2>2, OutAfterEdgeFacts DEF IInv
  <2> QED
    BY <1>2, <2>2, <2>3 DEF Record
<1>3. IInv /\ NoDanglingEdges /\ [Next]_graphVars => NoDanglingEdges'
  <2>1. NoDanglingEdges /\ UNCHANGED graphVars => NoDanglingEdges'
    BY DEF NoDanglingEdges, graphVars
  <2> QED
    BY <1>2, <2>1 DEF Next
<1> QED
  BY <1>1, <1>3, InitIInv, NextIInv, PTL DEF Spec

(* A node never keeps more edges than its limit.                           *)
THEOREM EdgesBounded == Spec => []EdgeBound
<1>1. Init => EdgeBound
  <2>1. EdgesOf(NoEdges) = {}
    BY DEF EdgesOf, NoEdges
  <2> QED
    BY <2>1, FS_EmptySet, LimitsPositive DEF Init, EdgeBound
<1>2. ASSUME IInv, EdgeBound, NEW name \in Tools, Record(name)
      PROVE  EdgeBound'
  <2>1. SUFFICES ASSUME NEW a \in Tools
                 PROVE  Cardinality(EdgesOf(out'[a])) <= EdgeLimit
    BY DEF EdgeBound
  <2>2. /\ OutAfterEdge(name)[a] \in [Tools -> Nat]
        /\ Cardinality(EdgesOf(OutAfterEdge(name)[a])) <= EdgeLimit
    BY <1>2, OutAfterEdgeFacts DEF IInv
  <2>3. EdgesOf(out'[a]) \subseteq EdgesOf(OutAfterEdge(name)[a])
    BY <1>2 DEF Record, ForgetEdges, EdgesOf
  <2>4. IsFiniteSet(EdgesOf(OutAfterEdge(name)[a]))
    BY ToolsAssumption, FS_Subset DEF EdgesOf
  <2>5. Cardinality(EdgesOf(out'[a])) <= Cardinality(EdgesOf(OutAfterEdge(name)[a]))
        /\ Cardinality(EdgesOf(out'[a])) \in Nat
        /\ Cardinality(EdgesOf(OutAfterEdge(name)[a])) \in Nat
    BY <2>3, <2>4, FS_Subset, FS_CardinalityType
  <2> QED
    BY <2>2, <2>5, LimitsPositive
<1>3. IInv /\ EdgeBound /\ [Next]_graphVars => EdgeBound'
  <2>1. EdgeBound /\ UNCHANGED graphVars => EdgeBound'
    BY DEF EdgeBound, graphVars
  <2> QED
    BY <1>2, <2>1 DEF Next
<1> QED
  BY <1>1, <1>3, InitIInv, NextIInv, PTL DEF Spec

-----------------------------------------------------------------------------
(* The two newest nodes are the last two positions of the sorted slice, so *)
(* a prefix that leaves two or more nodes holds neither of them.           *)
LEMMA ContextRanksLast ==
  ASSUME IInv, NEW name \in Tools
  PROVE  LET ns == nodes \cup {name}
             order == OlderNode(Stamped(name))
         IN /\ Cardinality(Ahead(ns, order, name)) = Cardinality(ns) - 1
            /\ last \in ns =>
                 Cardinality(Ahead(ns, order, last)) >= Cardinality(ns) - 2
<1> DEFINE ns == nodes \cup {name}
           ls == Stamped(name)
<1>1. ns \in SUBSET Tools /\ name \in ns /\ seq \in Nat
  BY DEF IInv, TypeOK
<1>2. IsFiniteSet(ns) /\ Cardinality(ns) \in Nat
  BY <1>1, ToolsAssumption, FS_Subset, FS_CardinalityType
<1>3. /\ ls \in [Tools -> 0 .. seq + 1]
      /\ ls[name] = seq + 1
      /\ \A t \in Tools \ {name} : ls[t] = lastSeq[t] /\ ls[t] <= seq
      /\ \A a, b \in ns : ls[a] = ls[b] => a = b
  BY StampedNewest DEF IInv
<1>4. StrictOrderOn(ns, OlderNode(ls))
  <2>1. ls \in [Tools -> Nat]
    BY <1>1, <1>3
  <2> QED
    BY <2>1, <1>1, OlderNodeStrict
<1>5. \A y \in ns \ {name} : <<y, name>> \in OlderNode(ls)
  BY <1>1, <1>3 DEF OlderNode
<1>6. Cardinality(Ahead(ns, OlderNode(ls), name)) = Cardinality(ns) - 1
  <2>1. <<name, name>> \notin OlderNode(ls)
    BY <1>1, <1>4 DEF StrictOrderOn
  <2> HIDE DEF ns, ls
  <2> QED
    BY <2>1, <1>1, <1>2, <1>5, LastRank
<1>7. ASSUME last \in ns
      PROVE  Cardinality(Ahead(ns, OlderNode(ls), last)) >= Cardinality(ns) - 2
  <2>1. CASE last = name
    BY <2>1, <1>6, <1>2
  <2>2. CASE last # name
    <3>1. last \in nodes /\ last \in Tools /\ last # NoTool
      BY <2>2, <1>7, <1>1, ToolsAssumption DEF NoTool
    <3>2. ls[last] = seq
      BY <3>1, <2>2, <1>3 DEF IInv, RecencyStrict
    <3>3. ns \ {name, last} \subseteq Ahead(ns, OlderNode(ls), last)
      <4>1. SUFFICES ASSUME NEW y \in ns \ {name, last}
                     PROVE  <<y, last>> \in OlderNode(ls)
        BY DEF Ahead
      <4>2. ls[y] <= seq /\ ls[y] # ls[last] /\ ls[y] \in Nat
        BY <1>1, <1>3, <1>7
      <4> QED
        BY <4>2, <3>1, <3>2, <1>1 DEF OlderNode
    <3> HIDE DEF ns, ls
    <3>4. /\ IsFiniteSet(ns \ {name})
          /\ Cardinality(ns \ {name}) = Cardinality(ns) - 1
      BY <1>1, <1>2, FS_RemoveElement
    <3>5. /\ IsFiniteSet((ns \ {name}) \ {last})
          /\ Cardinality((ns \ {name}) \ {last}) = Cardinality(ns) - 2
      BY <3>4, <2>2, <1>2, <1>7, FS_RemoveElement, SMTT(20)
    <3>6. IsFiniteSet(Ahead(ns, OlderNode(ls), last))
      BY <1>2, FS_Subset DEF Ahead
    <3>7. (ns \ {name}) \ {last} = ns \ {name, last}
      OBVIOUS
    <3>8. Cardinality(ns \ {name, last}) <= Cardinality(Ahead(ns, OlderNode(ls), last))
      BY <3>3, <3>6, FS_Subset
    <3> QED
      BY <3>5, <3>7, <3>8
  <2> QED
    BY <2>1, <2>2
<1> QED
  BY <1>6, <1>7

(* The budget a node map may reach: a budget of one is exceeded by the     *)
(* context that is never dropped.                                          *)
LEMMA RecordNodeBound ==
  ASSUME IInv, NodeBound, NEW name \in Tools, Record(name)
  PROVE  NodeBound'
<1> DEFINE ns == nodes \cup {name}
           order == OlderNode(Stamped(name))
           n == Cardinality(ns) - NodeLimit
           cut == FirstN(ns, order, n)
<1>1. ns \in SUBSET Tools /\ name \in ns
  BY DEF IInv, TypeOK
<1>2. IsFiniteSet(ns) /\ Cardinality(ns) \in Nat
  BY <1>1, ToolsAssumption, FS_Subset, FS_CardinalityType
<1>3. nodes' = ns \ (cut \ {name, last})
  BY DEF Record, Victims
<1>4. NodeLimit \in Nat \ {0}
  BY LimitsPositive
<1>5. /\ Cardinality(Ahead(ns, order, name)) = Cardinality(ns) - 1
      /\ last \in ns => Cardinality(Ahead(ns, order, last)) >= Cardinality(ns) - 2
  BY ContextRanksLast
<1>6. StrictOrderOn(ns, order)
  <2>1. Stamped(name) \in [Tools -> Nat]
    BY StampedNewest DEF IInv, TypeOK
  <2> QED
    BY <2>1, <1>1, OlderNodeStrict
<1> HIDE DEF ns, order
<1>7. CASE n < 0
  <2>1. nodes' \subseteq ns
    BY <1>3
  <2>2. Cardinality(nodes') <= Cardinality(ns) /\ Cardinality(nodes') \in Nat
    BY <2>1, <1>2, FS_Subset, FS_CardinalityType
  <2> QED
    BY <2>2, <1>2, <1>4, <1>7 DEF NodeBound
<1>8. CASE n >= 0
  <2>1. IsFiniteSet(ns \ cut) /\ Cardinality(ns \ cut) \in Nat
    BY <1>2, FS_Difference, FS_CardinalityType
  <2>2. Cardinality(ns \ cut) <= NodeLimit
    <3>1. n \in Nat /\ n <= Cardinality(ns)
      BY <1>2, <1>4, <1>8
    <3>2. Cardinality(ns \ cut) <= Cardinality(ns) - n
      BY <3>1, <1>2, <1>6, FirstNCardinality
    <3> QED
      BY <3>2, <1>2, <1>4, <2>1
  <2>3. name \notin cut
    BY <1>2, <1>4, <1>5 DEF FirstN
  <2>4. CASE NodeLimit >= 2
    <3>1. last \notin cut
      <4>1. last \in ns => Cardinality(Ahead(ns, order, last)) \in Int
        BY <1>2, <1>6, RankRange
      <4> QED
        BY <4>1, <1>2, <1>4, <1>5, <2>4 DEF FirstN
    <3>2. nodes' = ns \ cut
      BY <1>3, <2>3, <3>1
    <3> QED
      BY <3>2, <2>2, <2>4 DEF NodeBound
  <2>5. CASE NodeLimit = 1
    <3>1. nodes' \subseteq (ns \ cut) \cup {last}
      BY <1>3, <2>3
    <3>2. /\ IsFiniteSet((ns \ cut) \cup {last})
          /\ Cardinality((ns \ cut) \cup {last}) <= Cardinality(ns \ cut) + 1
      BY <2>1, FS_AddElement
    <3>3. /\ Cardinality(nodes') \in Nat
          /\ Cardinality((ns \ cut) \cup {last}) \in Nat
          /\ Cardinality(nodes') <= Cardinality((ns \ cut) \cup {last})
      BY <3>1, <3>2, FS_Subset, FS_CardinalityType
    <3> QED
      BY <3>2, <3>3, <2>1, <2>2, <2>5 DEF NodeBound
  <2> QED
    BY <1>4, <2>4, <2>5
<1> QED
  BY <1>2, <1>4, <1>7, <1>8

(* The node budget holds after every call, whatever is executed: the       *)
(* memory of the graph is bounded.                                         *)
THEOREM NodesBounded == Spec => []NodeBound
<1>1. Init => NodeBound
  BY FS_EmptySet, LimitsPositive DEF Init, NodeBound
<1>2. IInv /\ NodeBound /\ [Next]_graphVars => NodeBound'
  <2>1. NodeBound /\ UNCHANGED graphVars => NodeBound'
    BY DEF NodeBound, graphVars
  <2> QED
    BY <2>1, RecordNodeBound DEF Next
<1> QED
  BY <1>1, <1>2, InitIInv, NextIInv, PTL DEF Spec

(* What a call drops ran before everything it keeps.                       *)
THEOREM EvictionIsLRU == Spec => EvictsLeastRecent
<1> DEFINE Older == \A a \in nodes \ nodes', b \in nodes' : lastSeq[a] < lastSeq'[b]
<1>1. ASSUME IInv, NEW name \in Tools, Record(name)
      PROVE  Older
  <2> DEFINE ns == nodes \cup {name}
             ls == Stamped(name)
             gone == Victims(ns, ls, {name, last})
  <2>1. /\ gone \subseteq ns \ {name, last}
        /\ \A a \in gone, b \in ns \ gone : ls[a] < ls[b]
    BY <1>1, VictimsOldest DEF IInv
  <2>2. nodes' = ns \ gone /\ lastSeq' = Forget(gone, ls) /\ nodes \subseteq Tools
    BY <1>1 DEF Record, IInv, TypeOK
  <2>3. \A t \in Tools \ {name} : ls[t] = lastSeq[t]
    BY <1>1, StampedNewest DEF IInv
  <2> HIDE DEF ls, gone
  <2>4. \A b \in nodes' : lastSeq'[b] = ls[b]
    BY <2>2 DEF Forget
  <2> QED
    BY <2>1, <2>2, <2>3, <2>4
<1>2. IInv /\ [Next]_graphVars => [Older]_graphVars
  BY <1>1 DEF Next
<1> QED
  BY <1>2, InitIInv, NextIInv, PTL DEF Spec, EvictsLeastRecent

(* Both bounds hold after every call, for any tools and limits.            *)
THEOREM StateIsBounded == Spec => []StateBounded
<1>1. NodeBound /\ EdgeBound => StateBounded
  BY DEF StateBounded
<1> QED
  BY <1>1, NodesBounded, EdgesBounded, PTL

-----------------------------------------------------------------------------
(* Trimming drops an edge only in favour of edges at least as strong.      *)
LEMMA TrimDropsWeakest ==
  ASSUME NEW edges \in [Tools -> Nat], NEW b \in Tools, NEW c \in Tools,
         edges[b] > 0, TrimEdges(edges)[b] = 0, TrimEdges(edges)[c] > 0
  PROVE  TrimEdges(edges)[c] = edges[c] /\ edges[c] >= edges[b]
<1>1. c \in KeptEdges(edges) /\ TrimEdges(edges)[c] = edges[c]
  BY DEF TrimEdges
<1>2. b \in EdgesOf(edges) \ KeptEdges(edges)
  BY DEF TrimEdges, EdgesOf
<1>3. IsFiniteSet(EdgesOf(edges)) /\ StrictOrderOn(EdgesOf(edges), StrongerEdge(edges))
  BY ToolsAssumption, FS_Subset, StrongerEdgeStrict DEF EdgesOf
<1>4. <<c, b>> \in StrongerEdge(edges)
  BY <1>1, <1>2, <1>3, LimitsPositive, CutSortsAfter DEF KeptEdges
<1> QED
  BY <1>1, <1>4 DEF StrongerEdge

(* What one call leaves of the edges between the tools it keeps.           *)
LEMMA RecordDropsWeakest ==
  ASSUME IInv, NEW name \in Tools, Record(name),
         NEW a \in nodes', NEW b \in nodes', NEW c \in nodes',
         out'[a][b] = 0, out'[a][c] > 0
  PROVE  LET count == out[a][b] + IF a = last /\ b = last' THEN 1 ELSE 0
         IN count > 0 => out'[a][c] >= count
<1> DEFINE gone == Victims(nodes \cup {name}, Stamped(name), {name, last})
           edges == OutAfterEdge(name)
<1>1. /\ {a, b, c} \subseteq (nodes \cup {name}) \ gone
      /\ {a, b, c} \subseteq Tools /\ last' = name
      /\ out \in [Tools -> [Tools -> Nat]]
  BY DEF Record, IInv, TypeOK
<1>2. edges \in [Tools -> [Tools -> Nat]]
  BY OutAfterEdgeFacts DEF IInv
<1>3. out'[a][b] = edges[a][b] /\ out'[a][c] = edges[a][c]
  BY <1>1 DEF Record, ForgetEdges
<1>4. CASE a = last
  <2>1. last \in Tools /\ last \in nodes \cup {name}
    BY <1>1, <1>4
  <2>2. /\ Followed(name) \in [Tools -> Nat]
        /\ Followed(name)[b] = out[a][b] + IF b = name THEN 1 ELSE 0
    BY <1>1, <1>4, <2>1 DEF Followed
  <2>3. edges[a] = TrimEdges(Followed(name))
    BY <1>1, <1>4, <2>1 DEF OutAfterEdge
  <2> HIDE DEF edges
  <2>4. Followed(name)[b] > 0 => edges[a][c] >= Followed(name)[b]
    BY <1>1, <1>3, <2>2, <2>3, TrimDropsWeakest
  <2> QED
    BY <1>1, <1>3, <1>4, <2>2, <2>4
<1>5. CASE a # last
  <2>1. edges[a] = out[a]
    BY <1>1, <1>5 DEF OutAfterEdge
  <2> QED
    BY <1>1, <1>3, <1>5, <2>1
<1> QED
  BY <1>4, <1>5

(* Between tools that stay, strength alone decides which edges go.         *)
THEOREM StrengthDecides == Spec => WeakestEdgeLeaves
<1> DEFINE Strong == \A a, b, c \in nodes' :
             LET count == out[a][b] + IF a = last /\ b = last' THEN 1 ELSE 0
             IN count > 0 /\ out'[a][b] = 0 /\ out'[a][c] > 0
                  => out'[a][c] >= count
<1>1. ASSUME IInv, NEW name \in Tools, Record(name)
      PROVE  Strong
  BY <1>1, RecordDropsWeakest
<1>2. IInv /\ [Next]_graphVars => [Strong]_graphVars
  BY <1>1 DEF Next
<1> QED
  BY <1>2, InitIInv, NextIInv, PTL DEF Spec, WeakestEdgeLeaves

-----------------------------------------------------------------------------
(* The graph beside its history: the counter is the number of executions,  *)
(* and a node's lastSeq is the position of its last one.                   *)
HistoryOK ==
  /\ history \in Seq(Tools) /\ Len(history) = seq
  /\ last = IF seq = 0 THEN NoTool ELSE history[seq]
  /\ \A t \in nodes : /\ history[lastSeq[t]] = t
                       /\ \A k \in lastSeq[t] + 1 .. seq : history[k] # t

HInv == IInv /\ HistoryOK

LEMMA HistoryStep ==
  ASSUME HInv, NEW name \in Tools, Record(name), history' = Append(history, last')
  PROVE  /\ seq \in Nat /\ seq' = seq + 1 /\ Len(history) = seq
         /\ Len(history') = seq + 1 /\ history' \in Seq(Tools)
         /\ history'[seq + 1] = name /\ last' = name
         /\ \A i \in 1 .. seq : history'[i] = history[i] /\ history[i] \in Tools
BY SMTT(20) DEF HInv, IInv, TypeOK, HistoryOK, Record

LEMMA InitHInv == MCInit => HInv
<1>1. SUFFICES ASSUME MCInit PROVE HInv
  OBVIOUS
<1>2. IInv
  BY <1>1, InitIInv DEF MCInit
<1>3. HistoryOK
  BY <1>1 DEF MCInit, Init, HistoryOK
<1> QED
  BY <1>2, <1>3 DEF HInv

LEMMA RecordHInv ==
  ASSUME HInv, NEW name \in Tools, Record(name), history' = Append(history, last')
  PROVE  HInv'
<1> DEFINE ls == Stamped(name)
           gone == Victims(nodes \cup {name}, ls, {name, last})
<1>1. IInv'
  BY RecordIInv DEF HInv
<1>2. /\ seq \in Nat /\ seq' = seq + 1 /\ Len(history') = seq + 1
      /\ history' \in Seq(Tools) /\ history'[seq + 1] = name /\ last' = name
      /\ \A i \in 1 .. seq : history'[i] = history[i]
  BY HistoryStep
<1>3. /\ ls[name] = seq + 1
      /\ \A t \in Tools \ {name} : ls[t] = lastSeq[t]
      /\ gone \subseteq (nodes \cup {name}) \ {name, last}
      /\ nodes \subseteq Tools /\ lastSeq \in [Tools -> 0 .. seq]
      /\ \A t \in Tools : t \in nodes <=> lastSeq[t] > 0
  BY StampedNewest, VictimsOldest DEF HInv, IInv, TypeOK
<1>4. nodes' = (nodes \cup {name}) \ gone /\ lastSeq' = Forget(gone, ls)
  BY DEF Record
<1> HIDE DEF ls, gone
<1>5. ASSUME NEW t \in nodes'
      PROVE  /\ history'[lastSeq'[t]] = t
             /\ \A k \in lastSeq'[t] + 1 .. seq' : history'[k] # t
  <2>1. t \in Tools /\ t \in nodes \cup {name} /\ lastSeq'[t] = ls[t]
    BY <1>3, <1>4 DEF Forget
  <2>2. CASE t = name
    BY <2>1, <2>2, <1>2, <1>3
  <2>3. CASE t # name
    <3>1. t \in nodes /\ lastSeq'[t] = lastSeq[t] /\ lastSeq[t] \in 1 .. seq
      BY <2>1, <2>3, <1>3
    <3>2. /\ history[lastSeq[t]] = t
          /\ \A k \in lastSeq[t] + 1 .. seq : history[k] # t
      BY <3>1 DEF HInv, HistoryOK
    <3>3. ASSUME NEW k \in lastSeq[t] + 1 .. seq' PROVE history'[k] # t
      <4>1. CASE k = seq + 1
        BY <4>1, <1>2, <2>3
      <4>2. CASE k # seq + 1
        <5>1. k \in lastSeq[t] + 1 .. seq /\ k \in 1 .. seq
          BY <3>1, <4>2, <1>2
        <5> QED
          BY <5>1, <3>2, <1>2
      <4> QED
        BY <4>1, <4>2
    <3> QED
      BY <3>1, <3>2, <3>3, <1>2
  <2> QED
    BY <2>2, <2>3
<1>6. last' = IF seq' = 0 THEN NoTool ELSE history'[seq']
  BY <1>2
<1>7. HistoryOK'
  BY <1>2, <1>5, <1>6 DEF HistoryOK
<1> QED
  BY <1>1, <1>7 DEF HInv

LEMMA NextHInv == HInv /\ [MCNext]_<<graphVars, history>> => HInv'
<1>1. ASSUME HInv, UNCHANGED <<graphVars, history>> PROVE HInv'
  BY <1>1 DEF graphVars, HInv, IInv, TypeOK, RecencyStrict, ContextSurvives, HistoryOK
<1> QED
  BY <1>1, RecordHInv DEF MCNext, Next

(* What one execution adds to the counts of the history.                   *)
LEMMA ExecutionsStep ==
  ASSUME HInv, NEW name \in Tools, Record(name), history' = Append(history, last'),
         NEW t \in Tools
  PROVE  /\ Executions(t) \in Nat
         /\ Executions(t)' = Executions(t) + IF t = name THEN 1 ELSE 0
<1> DEFINE S == {i \in 1 .. Len(history) : history[i] = t}
<1>1. /\ seq \in Nat /\ Len(history) = seq /\ Len(history') = seq + 1
      /\ history'[seq + 1] = name
      /\ \A i \in 1 .. seq : history'[i] = history[i]
  BY HistoryStep
<1>2. IsFiniteSet(S) /\ Cardinality(S) \in Nat /\ seq + 1 \notin S
  <2>1. IsFiniteSet(1 .. Len(history)) /\ S \subseteq 1 .. Len(history)
    BY <1>1, FS_Interval
  <2>2. seq + 1 \notin S
    BY <1>1
  <2> HIDE DEF S
  <2> QED
    BY <2>1, <2>2, FS_Subset, FS_CardinalityType
<1>3. Executions(t) = Cardinality(S)
  BY DEF Executions
<1>4. Executions(t)' = Cardinality(IF t = name THEN S \cup {seq + 1} ELSE S)
  <2>1. {i \in 1 .. Len(history') : history'[i] = t}
          = IF t = name THEN S \cup {seq + 1} ELSE S
    BY <1>1
  <2> QED
    BY <2>1 DEF Executions
<1> HIDE DEF S
<1>5. Cardinality(S \cup {seq + 1}) = Cardinality(S) + 1
  BY <1>2, FS_AddElement
<1> QED
  BY <1>2, <1>3, <1>4, <1>5

LEMMA TransitionsStep ==
  ASSUME HInv, NEW name \in Tools, Record(name), history' = Append(history, last'),
         NEW a \in Tools, NEW b \in Tools
  PROVE  /\ Transitions(a, b) \in Nat
         /\ Transitions(a, b)'
              = Transitions(a, b) + IF a = last /\ b = name THEN 1 ELSE 0
<1> DEFINE S == {i \in 1 .. Len(history) - 1 : history[i] = a /\ history[i + 1] = b}
<1>1. /\ seq \in Nat /\ Len(history) = seq /\ Len(history') = seq + 1
      /\ history'[seq + 1] = name
      /\ \A i \in 1 .. seq : history'[i] = history[i]
  BY HistoryStep
<1>2. IsFiniteSet(S) /\ Cardinality(S) \in Nat /\ seq \notin S
  <2>1. IsFiniteSet(1 .. Len(history) - 1) /\ S \subseteq 1 .. Len(history) - 1
    <3>1. Len(history) - 1 \in Int
      BY <1>1
    <3> QED
      BY <3>1, FS_Interval
  <2>2. seq \notin S
    BY <1>1
  <2> HIDE DEF S
  <2> QED
    BY <2>1, <2>2, FS_Subset, FS_CardinalityType
<1>3. Transitions(a, b) = Cardinality(S)
  BY DEF Transitions
<1>4. a = last <=> seq # 0 /\ history[seq] = a
  BY ToolsAssumption, <1>1 DEF HInv, HistoryOK, NoTool
<1>5. {i \in 1 .. Len(history') - 1 : history'[i] = a /\ history'[i + 1] = b}
        = IF a = last /\ b = name THEN S \cup {seq} ELSE S
  <2> DEFINE N == {i \in 1 .. Len(history') - 1 :
                     history'[i] = a /\ history'[i + 1] = b}
  <2>1. ASSUME NEW i \in 1 .. seq - 1 PROVE i \in N <=> i \in S
    <3>1. i \in 1 .. seq /\ i + 1 \in 1 .. seq
      BY <1>1
    <3>2. history'[i] = history[i] /\ history'[i + 1] = history[i + 1]
      BY <3>1, <1>1
    <3> QED
      BY <1>1, <3>1, <3>2
  <2>2. seq \in N <=> a = last /\ b = name
    BY <1>1, <1>4
  <2>3. N \subseteq 1 .. seq /\ S \subseteq 1 .. seq - 1
    BY <1>1
  <2>4. \A i \in 1 .. seq : i \in 1 .. seq - 1 \/ i = seq
    BY <1>1
  <2> HIDE DEF N, S
  <2> QED
    BY <1>2, <2>1, <2>2, <2>3, <2>4 DEF N
<1>6. Transitions(a, b)' = Cardinality(IF a = last /\ b = name THEN S \cup {seq} ELSE S)
  BY <1>5 DEF Transitions
<1> HIDE DEF S
<1>7. Cardinality(S \cup {seq}) = Cardinality(S) + 1
  BY <1>2, FS_AddElement
<1> QED
  BY <1>2, <1>3, <1>6, <1>7

-----------------------------------------------------------------------------
(* What an execution leaves of a count: no more than it was, and one more  *)
(* for the tool that ran and the edge that led to it.                      *)
LEMMA TrimEdgesAtMost ==
  ASSUME NEW edges \in [Tools -> Nat], NEW b \in Tools
  PROVE  TrimEdges(edges)[b] <= edges[b]
BY DEF TrimEdges

LEMMA CountsStep ==
  ASSUME IInv, NEW name \in Tools, Record(name), NEW a \in Tools, NEW b \in Tools
  PROVE  /\ uses'[a] <= uses[a] + IF a = name THEN 1 ELSE 0
         /\ out'[a][b] <= out[a][b] + IF a = last /\ b = name THEN 1 ELSE 0
         /\ uses'[a] \in Nat /\ uses[a] \in Nat
         /\ out'[a][b] \in Nat /\ out[a][b] \in Nat
<1> DEFINE gone == Victims(nodes \cup {name}, Stamped(name), {name, last})
           edges == OutAfterEdge(name)
<1>1. uses \in [Tools -> Nat] /\ out \in [Tools -> [Tools -> Nat]]
  BY DEF IInv, TypeOK
<1>2. uses'[a] = IF a \in gone THEN 0 ELSE IF a = name THEN uses[a] + 1 ELSE uses[a]
  BY <1>1 DEF Record, Forget
<1>3. out'[a][b] = IF a \in gone \/ b \in gone THEN 0 ELSE edges[a][b]
  BY DEF Record, ForgetEdges
<1>4. edges \in [Tools -> [Tools -> Nat]]
  BY OutAfterEdgeFacts DEF IInv
<1> HIDE DEF gone
<1>5. edges[a][b] <= out[a][b] + IF a = last /\ b = name THEN 1 ELSE 0
  <2>1. CASE a = last /\ last \in nodes \cup {name}
    <3>1. /\ Followed(name) \in [Tools -> Nat]
          /\ Followed(name)[b] = out[a][b] + IF b = name THEN 1 ELSE 0
      BY <1>1, <2>1 DEF Followed
    <3>2. edges[a] = TrimEdges(Followed(name))
      BY <1>1, <2>1 DEF OutAfterEdge
    <3> HIDE DEF edges
    <3>3. edges[a][b] <= Followed(name)[b]
      BY <3>1, <3>2, TrimEdgesAtMost
    <3> QED
      BY <2>1, <3>1, <3>3
  <2>2. CASE ~(a = last /\ last \in nodes \cup {name})
    <3>1. edges[a] = out[a]
      BY <1>1, <2>2 DEF OutAfterEdge
    <3> QED
      BY <1>1, <3>1
  <2> QED
    BY <2>1, <2>2
<1> HIDE DEF edges
<1>6. uses'[a] \in Nat /\ uses[a] \in Nat /\ out[a][b] \in Nat /\ edges[a][b] \in Nat
  BY <1>1, <1>2, <1>4
<1> QED
  BY <1>2, <1>3, <1>5, <1>6

(* The graph never believes in more executions or transitions than there   *)
(* were, whatever is trimmed, evicted and learned again: its probabilities *)
(* are made of observations only (graph.go, Record).                       *)
THEOREM CountsAreObserved == MCSpec => []NeverOvercounts
<1>1. MCInit => NeverOvercounts
  <2>1. SUFFICES ASSUME MCInit PROVE NeverOvercounts
    OBVIOUS
  <2>2. \A t \in Tools : Executions(t) = 0 /\ \A b \in Tools : Transitions(t, b) = 0
    <3>1. Len(history) = 0
      BY <2>1 DEF MCInit
    <3>2. \A t \in Tools : {i \in 1 .. Len(history) : history[i] = t} = {}
      BY <3>1
    <3>3. \A a, b \in Tools : {i \in 1 .. Len(history) - 1 :
                                history[i] = a /\ history[i + 1] = b} = {}
      BY <3>1
    <3> QED
      BY <3>2, <3>3, FS_EmptySet DEF Executions, Transitions
  <2> QED
    BY <2>1, <2>2 DEF MCInit, Init, NeverOvercounts, NoEdges
<1>2. ASSUME HInv, NeverOvercounts, NEW name \in Tools, Record(name),
             history' = Append(history, last')
      PROVE  NeverOvercounts'
  <2>1. ASSUME NEW a \in Tools PROVE uses'[a] <= Executions(a)'
    <3>1. uses[a] <= Executions(a)
      BY <1>2 DEF NeverOvercounts
    <3>2. /\ Executions(a) \in Nat
          /\ Executions(a)' = Executions(a) + IF a = name THEN 1 ELSE 0
      BY <1>2, ExecutionsStep
    <3>3. /\ uses'[a] <= uses[a] + IF a = name THEN 1 ELSE 0
          /\ uses'[a] \in Nat /\ uses[a] \in Nat
      BY <1>2, CountsStep DEF HInv
    <3> QED
      BY <3>1, <3>2, <3>3
  <2>2. ASSUME NEW a \in Tools, NEW b \in Tools
        PROVE  out'[a][b] <= Transitions(a, b)'
    <3>1. out[a][b] <= Transitions(a, b)
      BY <1>2 DEF NeverOvercounts
    <3>2. /\ Transitions(a, b) \in Nat
          /\ Transitions(a, b)'
               = Transitions(a, b) + IF a = last /\ b = name THEN 1 ELSE 0
      BY <1>2, TransitionsStep
    <3>3. /\ out'[a][b] <= out[a][b] + IF a = last /\ b = name THEN 1 ELSE 0
          /\ out'[a][b] \in Nat /\ out[a][b] \in Nat
      BY <1>2, CountsStep DEF HInv
    <3> QED
      BY <3>1, <3>2, <3>3
  <2> QED
    BY <2>1, <2>2 DEF NeverOvercounts
<1>3. HInv /\ NeverOvercounts /\ [MCNext]_<<graphVars, history>> => NeverOvercounts'
  <2>1. NeverOvercounts /\ UNCHANGED <<graphVars, history>> => NeverOvercounts'
    BY DEF NeverOvercounts, Executions, Transitions, graphVars
  <2> QED
    BY <1>2, <2>1 DEF MCNext, Next
<1> QED
  BY <1>1, <1>3, InitHInv, NextHInv, PTL DEF MCSpec

-----------------------------------------------------------------------------
(* A tool that runs joins those that ran since the others did.             *)
LEMMA RanSinceStep ==
  ASSUME HInv, NEW name \in Tools, Record(name), history' = Append(history, last'),
         NEW t \in Tools, t # name
  PROVE  RanSince(t)' = RanSince(t) \cup {name}
<1>1. /\ seq \in Nat /\ Len(history) = seq /\ Len(history') = seq + 1
      /\ history'[seq + 1] = name
      /\ \A i \in 1 .. seq : history'[i] = history[i]
  BY HistoryStep
<1>2. ASSUME NEW j \in 1 .. seq
      PROVE  (\A k \in j .. seq + 1 : history'[k] # t)
               <=> (\A k \in j .. seq : history[k] # t)
  <2>1. \A k \in j .. seq : k \in 1 .. seq /\ k \in j .. seq + 1
    BY <1>1
  <2>2. \A k \in j .. seq + 1 : k \in j .. seq \/ k = seq + 1
    BY <1>1
  <2> QED
    BY <1>1, <2>1, <2>2
<1>3. \A k \in seq + 1 .. seq + 1 : history'[k] # t
  BY <1>1
<1>4. {j \in 1 .. seq + 1 : \A k \in j .. seq + 1 : history'[k] # t}
        = {j \in 1 .. seq : \A k \in j .. seq : history[k] # t} \cup {seq + 1}
  <2>1. \A j : j \in 1 .. seq + 1 <=> j \in 1 .. seq \/ j = seq + 1
    BY <1>1
  <2> QED
    BY <2>1, <1>2, <1>3
<1> DEFINE J == {j \in 1 .. seq : \A k \in j .. seq : history[k] # t}
<1>5. RanSince(t)' = {history'[i] : i \in J \cup {seq + 1}}
  BY <1>1, <1>4 DEF RanSince
<1>6. RanSince(t) = {history[i] : i \in J}
  BY <1>1 DEF RanSince
<1>7. \A i \in J : history'[i] = history[i]
  BY <1>1
<1> HIDE DEF J
<1>8. {history'[i] : i \in J} = {history[i] : i \in J}
  BY <1>7
<1>9. {history'[i] : i \in J \cup {seq + 1}} = {history'[i] : i \in J} \cup {history'[seq + 1]}
  OBVIOUS
<1> QED
  BY <1>1, <1>5, <1>6, <1>8, <1>9

LEMMA RanSinceFinite ==
  ASSUME HInv, NEW t \in Tools
  PROVE  RanSince(t) \in SUBSET Tools /\ IsFiniteSet(RanSince(t))
<1>1. RanSince(t) \in SUBSET Tools
  BY DEF HInv, HistoryOK, RanSince
<1> QED
  BY <1>1, ToolsAssumption, FS_Subset

(* Where a node is in the history.                                         *)
LEMMA NodePosition ==
  ASSUME HInv, NEW t \in nodes
  PROVE  /\ seq \in Nat /\ Len(history) = seq /\ lastSeq[t] \in 1 .. seq
         /\ history[lastSeq[t]] = t
         /\ \A k \in lastSeq[t] + 1 .. seq : history[k] # t
<1>1. t \in Tools /\ lastSeq \in [Tools -> 0 .. seq] /\ seq \in Nat /\ lastSeq[t] > 0
  BY DEF HInv, IInv, TypeOK
<1> QED
  BY <1>1 DEF HInv, HistoryOK

(* Every node younger than t ran since t did.                              *)
LEMMA YoungerRanSince ==
  ASSUME HInv, NEW t \in nodes, NEW y \in nodes, lastSeq[t] < lastSeq[y]
  PROVE  y \in RanSince(t)
<1>1. /\ seq \in Nat /\ Len(history) = seq /\ lastSeq[y] \in 1 .. seq
      /\ lastSeq[t] \in 1 .. seq
      /\ history[lastSeq[y]] = y
      /\ \A k \in lastSeq[t] + 1 .. seq : history[k] # t
  BY NodePosition
<1>2. \A k \in lastSeq[y] .. Len(history) : history[k] # t
  BY <1>1
<1> QED
  BY <1>1, <1>2 DEF RanSince

(* A node is evicted only if as many others as the graph has room for ran  *)
(* since.                                                                  *)
LEMMA VictimsLongUnused ==
  ASSUME HInv, NEW name \in Tools, Record(name), history' = Append(history, last'),
         NEW t \in nodes,
         t \in Victims(nodes \cup {name}, Stamped(name), {name, last})
  PROVE  Cardinality(RanSince(t)') >= NodeLimit
<1> DEFINE ns == nodes \cup {name}
           ls == Stamped(name)
           ahead == Ahead(ns, OlderNode(ls), t)
           younger == ns \ (ahead \cup {t})
<1>1. t \in Tools /\ t # name /\ ns \in SUBSET Tools /\ t \in ns
  BY DEF HInv, IInv, TypeOK, Victims
<1>2. IsFiniteSet(ns) /\ Cardinality(ns) \in Nat
  BY <1>1, ToolsAssumption, FS_Subset, FS_CardinalityType
<1>3. /\ ls \in [Tools -> Nat] /\ ls[name] = seq + 1
      /\ \A x \in Tools \ {name} : ls[x] = lastSeq[x]
      /\ \A a, b \in ns : ls[a] = ls[b] => a = b
  <2>1. TypeOK /\ RecencyStrict /\ seq \in Nat
    BY DEF HInv, IInv, TypeOK
  <2>2. /\ ls \in [Tools -> 0 .. seq + 1] /\ ls[name] = seq + 1
        /\ \A x \in Tools \ {name} : ls[x] = lastSeq[x]
        /\ \A a, b \in ns : ls[a] = ls[b] => a = b
    BY <2>1, StampedNewest
  <2> HIDE DEF ls
  <2> QED
    BY <2>1, <2>2
<1>4. Cardinality(ahead) < Cardinality(ns) - NodeLimit
  BY DEF Victims, FirstN
<1>5. StrictOrderOn(ns, OlderNode(ls))
  BY <1>1, <1>3, OlderNodeStrict
<1>6. /\ IsFiniteSet(ahead) /\ Cardinality(ahead) \in Nat
      /\ t \notin ahead /\ ahead \subseteq ns
  <2>1. t \notin ahead /\ ahead \subseteq ns
    BY <1>1, <1>5 DEF Ahead, StrictOrderOn
  <2> HIDE DEF ahead
  <2> QED
    BY <2>1, <1>2, FS_Subset, FS_CardinalityType
<1>7. \A y \in younger : ls[t] < ls[y]
  <2>1. SUFFICES ASSUME NEW y \in younger PROVE ls[t] < ls[y]
    OBVIOUS
  <2>2. y \in ns /\ y # t /\ <<y, t>> \notin OlderNode(ls) /\ y \in Tools
    BY <1>1 DEF Ahead
  <2>3. <<t, y>> \in OlderNode(ls) /\ ls[t] # ls[y]
    BY <1>1, <1>3, <1>5, <2>2 DEF StrictOrderOn
  <2> QED
    BY <2>3, <1>3, <2>2 DEF OlderNode
<1>8. younger \subseteq RanSince(t)'
  <2>1. SUFFICES ASSUME NEW y \in younger PROVE y \in RanSince(t) \cup {name}
    BY <1>1, RanSinceStep
  <2>2. CASE y # name
    <3>1. y \in nodes /\ lastSeq[t] < lastSeq[y]
      BY <1>1, <1>3, <1>7, <2>2
    <3> QED
      BY <3>1, YoungerRanSince
  <2> QED
    BY <2>2
<1> HIDE DEF ns, ls, ahead
<1>9. Cardinality(younger) >= NodeLimit /\ Cardinality(younger) \in Nat
  <2>1. /\ IsFiniteSet(ahead \cup {t})
        /\ Cardinality(ahead \cup {t}) = Cardinality(ahead) + 1
    BY <1>6, FS_AddElement
  <2>2. ns \cap (ahead \cup {t}) = ahead \cup {t}
    BY <1>1, <1>6
  <2>3. /\ IsFiniteSet(younger)
        /\ Cardinality(younger) = Cardinality(ns) - Cardinality(ns \cap (ahead \cup {t}))
    BY <1>2, <2>1, FS_Difference
  <2>4. Cardinality(younger) \in Nat
    BY <2>3, FS_CardinalityType
  <2>5. Cardinality(younger) = Cardinality(ns) - (Cardinality(ahead) + 1)
    BY <2>1, <2>2, <2>3
  <2> HIDE DEF younger
  <2> QED
    BY <2>4, <2>5, <1>2, <1>4, <1>6, LimitsPositive
<1>10. IsFiniteSet(RanSince(t)')
  <2>1. HInv'
    BY RecordHInv
  <2> QED
    BY <1>1, RanSinceStep, RanSinceFinite, FS_AddElement
<1> HIDE DEF younger
<1>11. Cardinality(younger) <= Cardinality(RanSince(t)') /\ Cardinality(RanSince(t)') \in Nat
  BY <1>8, <1>10, FS_Subset, FS_CardinalityType
<1> QED
  BY <1>9, <1>11, LimitsPositive

(* A node that is known is known with the position of its last execution.  *)
LEMMA StepsSinceCorrect ==
  ASSUME HInv, NEW t \in Tools, StepsSince(t) >= 0
  PROVE  /\ history[Len(history) - StepsSince(t)] = t
         /\ \A k \in 0 .. StepsSince(t) - 1 : history[Len(history) - k] # t
<1>1. t \in nodes
  BY DEF StepsSince
<1>2. /\ seq \in Nat /\ Len(history) = seq /\ lastSeq[t] \in 1 .. seq
      /\ history[lastSeq[t]] = t
      /\ \A k \in lastSeq[t] + 1 .. seq : history[k] # t
      /\ StepsSince(t) = seq - lastSeq[t]
  BY <1>1, NodePosition DEF StepsSince
<1>3. Len(history) - StepsSince(t) = lastSeq[t]
  BY <1>2
<1>4. \A k \in 0 .. StepsSince(t) - 1 : Len(history) - k \in lastSeq[t] + 1 .. seq
  BY <1>2
<1> QED
  BY <1>2, <1>3, <1>4

(* The recency signal covers the node budget: a tool is forgotten only     *)
(* after at least that many other tools ran since, and what the graph      *)
(* answers about a tool it knows is the truth (graph.go, StepsSince).      *)
THEOREM RecencyIsTrue == MCSpec => []RecentToolsKnown
<1> DEFINE Known == \A t \in Tools :
      Executions(t) > 0 /\ Cardinality(RanSince(t)) < NodeLimit => t \in nodes
<1>1. MCInit => Known
  <2>1. SUFFICES ASSUME MCInit, NEW t \in Tools PROVE Executions(t) = 0
    OBVIOUS
  <2>2. {i \in 1 .. Len(history) : history[i] = t} = {}
    BY <2>1 DEF MCInit
  <2> QED
    BY <2>2, FS_EmptySet DEF Executions
<1>2. ASSUME HInv, Known, NEW name \in Tools, Record(name),
             history' = Append(history, last')
      PROVE  Known'
  <2>1. SUFFICES ASSUME NEW t \in Tools, Executions(t)' > 0,
                        Cardinality(RanSince(t)') < NodeLimit
                 PROVE  t \in nodes'
    OBVIOUS
  <2> DEFINE gone == Victims(nodes \cup {name}, Stamped(name), {name, last})
  <2>2. nodes' = (nodes \cup {name}) \ gone /\ name \notin gone
    BY <1>2 DEF Record, Victims
  <2>3. CASE t = name
    BY <2>2, <2>3
  <2>4. CASE t # name
    <3>1. Executions(t) > 0
      BY <1>2, <2>1, <2>4, ExecutionsStep
    <3>2. IsFiniteSet(RanSince(t)) /\ RanSince(t)' = RanSince(t) \cup {name}
      BY <1>2, <2>4, RanSinceStep, RanSinceFinite
    <3>3. /\ IsFiniteSet(RanSince(t)') /\ Cardinality(RanSince(t)') \in Nat
          /\ Cardinality(RanSince(t)) \in Nat
          /\ Cardinality(RanSince(t)) <= Cardinality(RanSince(t)')
      <4>1. IsFiniteSet(RanSince(t)')
        BY <3>2, FS_AddElement
      <4>2. RanSince(t) \subseteq RanSince(t)'
        BY <3>2
      <4> QED
        BY <4>1, <4>2, FS_Subset, FS_CardinalityType
    <3>4. t \in nodes
      BY <1>2, <2>1, <3>1, <3>3, LimitsPositive
    <3>5. t \notin gone
      <4>1. t \in gone => Cardinality(RanSince(t)') >= NodeLimit
        BY <1>2, <3>4, VictimsLongUnused
      <4> QED
        BY <4>1, <2>1, <3>3, LimitsPositive
    <3> QED
      BY <2>2, <3>4, <3>5
  <2> QED
    BY <2>3, <2>4
<1>3. HInv /\ Known /\ [MCNext]_<<graphVars, history>> => Known'
  <2>1. Known /\ UNCHANGED <<graphVars, history>> => Known'
    BY DEF Executions, RanSince, graphVars
  <2> HIDE DEF Known
  <2> QED
    BY <1>2, <2>1 DEF MCNext, Next
<1>4. HInv /\ Known => RecentToolsKnown
  BY StepsSinceCorrect DEF RecentToolsKnown
<1> QED
  BY <1>1, <1>3, <1>4, InitHInv, NextHInv, PTL DEF MCSpec

-----------------------------------------------------------------------------
(* A map with no more edges than the limit is not trimmed.                 *)
LEMMA TrimEdgesIdle ==
  ASSUME NEW edges \in [Tools -> Nat], Cardinality(EdgesOf(edges)) <= EdgeLimit
  PROVE  TrimEdges(edges) = edges
<1>1. IsFiniteSet(EdgesOf(edges)) /\ StrictOrderOn(EdgesOf(edges), StrongerEdge(edges))
  BY ToolsAssumption, FS_Subset, StrongerEdgeStrict DEF EdgesOf
<1>2. ASSUME NEW b \in EdgesOf(edges) PROVE b \in KeptEdges(edges)
  <2>1. /\ Cardinality(EdgesOf(edges)) \in Nat
        /\ Cardinality(Ahead(EdgesOf(edges), StrongerEdge(edges), b))
             \in 0 .. Cardinality(EdgesOf(edges)) - 1
    BY <1>1, RankRange
  <2>2. Cardinality(Ahead(EdgesOf(edges), StrongerEdge(edges), b)) < EdgeLimit
    BY <2>1, LimitsPositive
  <2> QED
    BY <2>2 DEF KeptEdges, FirstN
<1>3. \A b \in Tools : TrimEdges(edges)[b] = edges[b]
  <2>1. SUFFICES ASSUME NEW b \in Tools, b \notin KeptEdges(edges) PROVE edges[b] = 0
    BY DEF TrimEdges
  <2> QED
    BY <1>2, <2>1 DEF EdgesOf
<1> QED
  BY <1>3 DEF TrimEdges

(* A graph with room for every node it has drops none.                     *)
LEMMA NoVictims ==
  ASSUME IInv, NEW name \in Tools, Cardinality(nodes \cup {name}) <= NodeLimit
  PROVE  Victims(nodes \cup {name}, Stamped(name), {name, last}) = {}
<1> DEFINE ns == nodes \cup {name}
           ls == Stamped(name)
<1>1. ns \in SUBSET Tools /\ ls \in [Tools -> Nat]
  BY StampedNewest DEF IInv, TypeOK
<1>2. IsFiniteSet(ns) /\ StrictOrderOn(ns, OlderNode(ls))
  BY <1>1, ToolsAssumption, FS_Subset, OlderNodeStrict
<1> HIDE DEF ns, ls
<1>3. ASSUME NEW t \in FirstN(ns, OlderNode(ls), Cardinality(ns) - NodeLimit)
      PROVE  FALSE
  <2>1. t \in ns /\ Cardinality(Ahead(ns, OlderNode(ls), t)) < Cardinality(ns) - NodeLimit
    BY DEF FirstN
  <2>2. /\ Cardinality(ns) \in Nat
        /\ Cardinality(Ahead(ns, OlderNode(ls), t)) \in 0 .. Cardinality(ns) - 1
    BY <1>2, <2>1, RankRange
  <2> QED
    BY <2>1, <2>2, LimitsPositive DEF ns
<1> QED
  BY <1>3 DEF Victims, ns, ls

(* Within the limits an execution is recorded as it is.                    *)
LEMMA RecordWithinLimits ==
  ASSUME IInv, NEW name \in Tools, Record(name),
         Cardinality(nodes \cup {name}) <= NodeLimit,
         last \in Tools => Cardinality(EdgesOf(Followed(name))) <= EdgeLimit
  PROVE  \A a \in Tools :
           /\ uses'[a] = uses[a] + IF a = name THEN 1 ELSE 0
           /\ \A b \in Tools :
                out'[a][b] = out[a][b] + IF a = last /\ b = name THEN 1 ELSE 0
<1>1. /\ uses \in [Tools -> Nat] /\ out \in [Tools -> [Tools -> Nat]]
      /\ last \in nodes \cup {NoTool} /\ nodes \subseteq Tools
  BY DEF IInv, TypeOK, ContextSurvives
<1>2. /\ uses' = Forget({}, [uses EXCEPT ![name] = @ + 1])
      /\ out' = ForgetEdges({}, OutAfterEdge(name))
  BY NoVictims DEF Record
<1>3. ASSUME NEW a \in Tools
      PROVE  uses'[a] = uses[a] + IF a = name THEN 1 ELSE 0
  BY <1>1, <1>2 DEF Forget
<1>4. ASSUME NEW a \in Tools, NEW b \in Tools
      PROVE  out'[a][b] = out[a][b] + IF a = last /\ b = name THEN 1 ELSE 0
  <2>1. out'[a][b] = OutAfterEdge(name)[a][b]
    BY <1>2 DEF ForgetEdges
  <2>2. CASE a = last
    <3>1. last \in nodes \cup {name}
      BY <1>1, <2>2, ToolsAssumption DEF NoTool
    <3>2. /\ Followed(name) \in [Tools -> Nat]
          /\ Followed(name)[b] = out[a][b] + IF b = name THEN 1 ELSE 0
      BY <1>1, <2>2 DEF Followed
    <3>3. TrimEdges(Followed(name)) = Followed(name)
      BY <2>2, <3>2, TrimEdgesIdle
    <3>4. OutAfterEdge(name)[a] = Followed(name)
      BY <1>1, <2>2, <3>1, <3>3 DEF OutAfterEdge
    <3> QED
      BY <2>1, <2>2, <3>2, <3>4
  <2>3. CASE a # last
    <3>1. OutAfterEdge(name)[a] = out[a]
      BY <1>1, <2>3 DEF OutAfterEdge
    <3> QED
      BY <1>1, <2>1, <2>3, <3>1
  <2> QED
    BY <2>2, <2>3
<1> QED
  BY <1>3, <1>4

(* There is room within the limits New settles on.                         *)
LEMMA RoomIsLimit ==
  /\ \A n : RoomFor(n, MaxNodes, 512) <=> n <= NodeLimit
  /\ \A n : RoomFor(n, MaxEdgesPerNode, 32) <=> n <= EdgeLimit
  BY LimitsAssumption DEF RoomFor, NodeLimit, EdgeLimit, LimitOr, DefaultMaxNodes,
                          DefaultMaxEdgesPerNod

LEMMA CountedRan ==
  ASSUME HInv, NEW t \in nodes
  PROVE  Executions(t) > 0
<1>1. lastSeq[t] \in 1 .. seq /\ history[lastSeq[t]] = t /\ Len(history) = seq /\ seq \in Nat
  BY NodePosition
<1> DEFINE S == {i \in 1 .. Len(history) : history[i] = t}
<1>2. IsFiniteSet(1 .. Len(history)) /\ S \subseteq 1 .. Len(history) /\ lastSeq[t] \in S
  BY <1>1, FS_Interval
<1> HIDE DEF S
<1>3. IsFiniteSet(S) /\ Cardinality(S) \in Nat /\ Cardinality(S) # 0
  <2>1. IsFiniteSet(S)
    BY <1>2, FS_Subset
  <2>2. Cardinality(S) # 0
    BY <2>1, <1>2, FS_EmptySet
  <2> QED
    BY <2>1, <2>2, FS_CardinalityType
<1> QED
  BY <1>3 DEF Executions, S

(* While nothing had to be dropped the graph is exactly the first-order    *)
(* statistics of the history, self-transitions included: the limits are    *)
(* the only source of error in the state engine (graph.go, Record).        *)
THEOREM StatisticsExact == MCSpec => []ExactWithinLimits
<1>1. MCInit => ExactWithinLimits
  <2>1. SUFFICES ASSUME MCInit PROVE ExactWithinLimits
    OBVIOUS
  <2>2. Len(history) = 0
    BY <2>1 DEF MCInit
  <2>3. \A t \in Tools : {i \in 1 .. Len(history) : history[i] = t} = {}
    BY <2>2
  <2>4. \A a, b \in Tools : {i \in 1 .. Len(history) - 1 :
                              history[i] = a /\ history[i + 1] = b} = {}
    BY <2>2
  <2>5. \A t \in Tools : Executions(t) = 0 /\ \A b \in Tools : Transitions(t, b) = 0
    BY <2>3, <2>4, FS_EmptySet DEF Executions, Transitions
  <2> QED
    BY <2>1, <2>5 DEF MCInit, Init, ExactWithinLimits, NoEdges
<1>2. ASSUME HInv, ExactWithinLimits, NEW name \in Tools, Record(name),
             history' = Append(history, last')
      PROVE  ExactWithinLimits'
  <2>1. SUFFICES ASSUME Cardinality(Ran)' <= NodeLimit,
                        \A a \in Tools : Cardinality(Followers(a))' <= EdgeLimit
                 PROVE  \A a \in Tools :
                          /\ uses'[a] = Executions(a)'
                          /\ \A b \in Tools : out'[a][b] = Transitions(a, b)'
    BY RoomIsLimit DEF ExactWithinLimits
  <2>2. \A t \in Tools :
          /\ Executions(t) \in Nat
          /\ Executions(t)' = Executions(t) + IF t = name THEN 1 ELSE 0
    BY <1>2, ExecutionsStep
  <2>3. \A a, b \in Tools :
          /\ Transitions(a, b) \in Nat
          /\ Transitions(a, b)'
               = Transitions(a, b) + IF a = last /\ b = name THEN 1 ELSE 0
    BY <1>2, TransitionsStep
  <2>4. /\ IsFiniteSet(Ran') /\ Cardinality(Ran') \in Nat
        /\ Ran \subseteq Ran' /\ nodes \cup {name} \subseteq Ran'
    <3>1. Ran' \subseteq Tools /\ Ran \subseteq Ran' /\ name \in Ran'
      BY <2>2 DEF Ran
    <3>2. nodes \subseteq Ran
      <4>1. nodes \subseteq Tools
        BY <1>2 DEF HInv, IInv, TypeOK
      <4> QED
        BY <1>2, <4>1, CountedRan DEF Ran
    <3>3. IsFiniteSet(Ran')
      BY <3>1, ToolsAssumption, FS_Subset
    <3> QED
      BY <3>1, <3>2, <3>3, FS_CardinalityType
  <2>5. \A S \in SUBSET Ran' : Cardinality(S) <= NodeLimit
    <3>1. \A S \in SUBSET Ran' : /\ Cardinality(S) \in Nat
                                 /\ Cardinality(S) <= Cardinality(Ran')
      BY <2>4, FS_Subset, FS_CardinalityType
    <3>2. Cardinality(Ran') <= NodeLimit
      BY <2>1
    <3> QED
      BY <3>1, <3>2, <2>4, LimitsPositive
  <2>6. \A a \in Tools : \A S \in SUBSET Followers(a)' : Cardinality(S) <= EdgeLimit
    <3>1. SUFFICES ASSUME NEW a \in Tools, NEW S \in SUBSET Followers(a)'
                   PROVE  Cardinality(S) <= EdgeLimit
      OBVIOUS
    <3>2. IsFiniteSet(Followers(a)')
      <4>1. Followers(a)' \subseteq Tools
        BY DEF Followers
      <4> QED
        BY <4>1, ToolsAssumption, FS_Subset
    <3>3. /\ Cardinality(Followers(a)') \in Nat /\ Cardinality(S) \in Nat
          /\ Cardinality(S) <= Cardinality(Followers(a)')
      BY <3>1, <3>2, FS_Subset, FS_CardinalityType
    <3>4. Cardinality(Followers(a)') <= EdgeLimit
      BY <2>1
    <3> QED
      BY <3>3, <3>4, LimitsPositive
  <2>7. \A a \in Tools : Followers(a) \subseteq Followers(a)'
    BY <2>3 DEF Followers
  <2>8. \A a \in Tools : /\ uses[a] = Executions(a)
                         /\ \A b \in Tools : out[a][b] = Transitions(a, b)
    <3>1. Cardinality(Ran) <= NodeLimit
      BY <2>4, <2>5
    <3>2. \A a \in Tools : Cardinality(Followers(a)) <= EdgeLimit
      BY <2>6, <2>7
    <3> QED
      BY <1>2, <3>1, <3>2, RoomIsLimit DEF ExactWithinLimits
  <2>9. last \in Tools => Cardinality(EdgesOf(Followed(name))) <= EdgeLimit
    <3>1. SUFFICES ASSUME NEW a \in Tools, a = last
                   PROVE  EdgesOf(Followed(name)) \in SUBSET Followers(a)'
      BY <2>6
    <3>2. out \in [Tools -> [Tools -> Nat]]
      BY <1>2 DEF HInv, IInv, TypeOK
    <3>3. \A b \in Tools : Followed(name)[b] = out[a][b] + IF b = name THEN 1 ELSE 0
      BY <3>1, <3>2 DEF Followed
    <3>4. \A b \in Tools : Followed(name)[b] = Transitions(a, b)'
      BY <3>1, <3>3, <2>3, <2>8
    <3> QED
      BY <3>4 DEF EdgesOf, Followers
  <2>10. \A a \in Tools :
           /\ uses'[a] = uses[a] + IF a = name THEN 1 ELSE 0
           /\ \A b \in Tools :
                out'[a][b] = out[a][b] + IF a = last /\ b = name THEN 1 ELSE 0
    BY <1>2, <2>4, <2>5, <2>9, RecordWithinLimits DEF HInv
  <2> QED
    BY <2>2, <2>3, <2>8, <2>10
<1>3. HInv /\ ExactWithinLimits /\ [MCNext]_<<graphVars, history>> => ExactWithinLimits'
  <2>1. ExactWithinLimits /\ UNCHANGED <<graphVars, history>> => ExactWithinLimits'
    <3> SUFFICES ASSUME ExactWithinLimits, UNCHANGED <<graphVars, history>>,
                        Cardinality(Ran)' <= NodeLimit,
                        \A a \in Tools : Cardinality(Followers(a))' <= EdgeLimit
                 PROVE  \A a \in Tools :
                          /\ uses'[a] = Executions(a)'
                          /\ \A b \in Tools : out'[a][b] = Transitions(a, b)'
      BY RoomIsLimit DEF ExactWithinLimits
    <3>1. uses' = uses /\ out' = out /\ history' = history
      BY DEF graphVars
    <3>2. \A t : Executions(t)' = Executions(t)
      BY <3>1 DEF Executions
    <3>3. \A a, b : Transitions(a, b)' = Transitions(a, b)
      BY <3>1 DEF Transitions
    <3>4. Ran' = Ran /\ \A a : Followers(a)' = Followers(a)
      BY <3>2, <3>3 DEF Ran, Followers
    <3>5. /\ Cardinality(Ran) <= NodeLimit
          /\ \A a \in Tools : Cardinality(Followers(a)) <= EdgeLimit
      BY <3>4
    <3>6. \A a \in Tools : /\ uses[a] = Executions(a)
                           /\ \A b \in Tools : out[a][b] = Transitions(a, b)
      BY <3>5, RoomIsLimit DEF ExactWithinLimits
    <3> QED
      BY <3>1, <3>2, <3>3, <3>6
  <2> QED
    BY <1>2, <2>1 DEF MCNext, Next
<1> QED
  BY <1>1, <1>3, InitHInv, NextHInv, PTL DEF MCSpec

-----------------------------------------------------------------------------
(* The counts of an evicted or trimmed edge leave the sum they were in.    *)
LEMMA TrimmedTotalIsSum ==
  ASSUME NEW edges \in [Tools -> Nat]
  PROVE  TrimmedTotal(edges, SumFunctionOnSet(edges, Tools))
           = SumFunctionOnSet(TrimEdges(edges), Tools)
<1>1. CASE Cardinality(EdgesOf(edges)) <= EdgeLimit
  BY <1>1, TrimEdgesIdle DEF TrimmedTotal
<1>2. CASE ~(Cardinality(EdgesOf(edges)) <= EdgeLimit)
  <2> DEFINE K == KeptEdges(edges)
             trimmed == TrimEdges(edges)
  <2>1. K \in SUBSET Tools /\ IsFiniteSet(K) /\ IsFiniteSet(Tools \ K)
    <3>1. K \in SUBSET Tools
      BY DEF KeptEdges, FirstN, EdgesOf
    <3> QED
      BY <3>1, ToolsAssumption, FS_Subset
  <2>2. /\ \A b \in Tools : trimmed[b] \in Nat
        /\ \A b \in K : edges[b] \in Nat /\ edges[b] = trimmed[b]
        /\ \A b \in Tools \ K : trimmed[b] = 0
    BY <2>1 DEF TrimEdges
  <2> HIDE DEF K, trimmed
  <2>3. SumFunctionOnSet(trimmed, Tools)
          = SumFunctionOnSet(trimmed, K) + SumFunctionOnSet(trimmed, Tools \ K)
    BY <2>1, <2>2, ToolsAssumption, SumSplit
  <2>4. SumFunctionOnSet(trimmed, Tools \ K) = 0
    BY <2>1, <2>2, SumZero
  <2>5. SumFunctionOnSet(edges, K) = SumFunctionOnSet(trimmed, K)
    BY <2>1, <2>2, SumSame
  <2>6. SumFunctionOnSet(edges, K) \in Nat
    BY <2>1, <2>2, SumType
  <2> QED
    BY <1>2, <2>3, <2>4, <2>5, <2>6 DEF TrimmedTotal, K, trimmed
<1> QED
  BY <1>1, <1>2

LEMMA ForgetTotalsIsSum ==
  ASSUME NEW edges \in [Tools -> [Tools -> Nat]], NEW gone \in SUBSET Tools,
         NEW totals, NEW a \in Tools,
         totals[a] = SumFunctionOnSet(edges[a], Tools)
  PROVE  ForgetTotals(gone, edges, totals)[a]
           = SumFunctionOnSet(ForgetEdges(gone, edges)[a], Tools)
<1> DEFINE f == edges[a]
           g == ForgetEdges(gone, edges)[a]
<1>1. \A b \in Tools : g[b] = IF a \in gone \/ b \in gone THEN 0 ELSE f[b]
  BY DEF ForgetEdges
<1>2. /\ f \in [Tools -> Nat] /\ IsFiniteSet(gone) /\ IsFiniteSet(Tools)
      /\ IsFiniteSet(Tools \ gone)
  BY ToolsAssumption, FS_Subset
<1>3. ForgetTotals(gone, edges, totals)[a]
        = IF a \in gone THEN 0 ELSE SumFunctionOnSet(f, Tools) - SumFunctionOnSet(f, gone)
  BY DEF ForgetTotals
<1> HIDE DEF f, g
<1>4. CASE a \in gone
  <2>1. SumFunctionOnSet(g, Tools) = 0
    BY <1>1, <1>2, <1>4, SumZero
  <2> QED
    BY <1>3, <1>4, <2>1 DEF g
<1>5. CASE a \notin gone
  <2>1. /\ \A b \in Tools : g[b] \in Nat
        /\ \A b \in gone : g[b] = 0
        /\ \A b \in Tools \ gone : f[b] \in Nat /\ f[b] = g[b]
    BY <1>1, <1>2, <1>5
  <2>2. SumFunctionOnSet(g, Tools)
          = SumFunctionOnSet(g, gone) + SumFunctionOnSet(g, Tools \ gone)
    BY <1>2, <2>1, SumSplit
  <2>3. SumFunctionOnSet(f, Tools)
          = SumFunctionOnSet(f, gone) + SumFunctionOnSet(f, Tools \ gone)
    BY <1>2, SumSplit
  <2>4. SumFunctionOnSet(g, gone) = 0
    BY <1>2, <2>1, SumZero
  <2>5. SumFunctionOnSet(f, Tools \ gone) = SumFunctionOnSet(g, Tools \ gone)
    BY <1>2, <2>1, SumSame
  <2>6. SumFunctionOnSet(f, gone) \in Nat /\ SumFunctionOnSet(f, Tools \ gone) \in Nat
    BY <1>2, SumType
  <2> QED
    BY <1>3, <1>5, <2>2, <2>3, <2>4, <2>5, <2>6 DEF g
<1> QED
  BY <1>4, <1>5

LEMMA OutTotalAfterEdgeIsSum ==
  ASSUME IInv, NEW name \in Tools, NEW a \in Tools,
         \A t \in Tools : outTotal[t] = SumFunctionOnSet(out[t], Tools)
  PROVE  OutTotalAfterEdge(name)[a] = SumFunctionOnSet(OutAfterEdge(name)[a], Tools)
<1>1. DOMAIN outTotal = Tools /\ out \in [Tools -> [Tools -> Nat]]
  BY DEF IInv, TypeOK
<1>2. CASE a = last /\ last \in nodes \cup {name}
  <2>1. /\ Followed(name) \in [Tools -> Nat]
        /\ Followed(name) = [out[a] EXCEPT ![name] = @ + 1]
    BY <1>1, <1>2 DEF Followed
  <2>2. SumFunctionOnSet(Followed(name), Tools) = outTotal[a] + 1
    <3>1. out[a] \in [Tools -> Nat]
      BY <1>1
    <3>2. SumFunctionOnSet([out[a] EXCEPT ![name] = @ + 1], Tools)
            = SumFunctionOnSet(out[a], Tools) + 1
      BY <3>1, ToolsAssumption, SumBump
    <3> QED
      BY <2>1, <3>2
  <2>3. TrimmedTotal(Followed(name), outTotal[a] + 1)
          = SumFunctionOnSet(TrimEdges(Followed(name)), Tools)
    BY <2>1, <2>2, TrimmedTotalIsSum
  <2>4. /\ OutTotalAfterEdge(name)[a] = TrimmedTotal(Followed(name), outTotal[a] + 1)
        /\ OutAfterEdge(name)[a] = TrimEdges(Followed(name))
    BY <1>1, <1>2 DEF OutTotalAfterEdge, OutAfterEdge
  <2> QED
    BY <2>3, <2>4
<1>3. CASE ~(a = last /\ last \in nodes \cup {name})
  <2>1. OutTotalAfterEdge(name)[a] = outTotal[a] /\ OutAfterEdge(name)[a] = out[a]
    BY <1>1, <1>3 DEF OutTotalAfterEdge, OutAfterEdge
  <2> QED
    BY <2>1
<1> QED
  BY <1>2, <1>3

(* The denominator of every probability is the sum of its numerators,      *)
(* whatever was trimmed or evicted: TransitionProb is a probability and    *)
(* the unsigned total never wraps (graph.go, trimEdges, evict).            *)
THEOREM TotalsCorrect == Spec => []OutTotalIsSum
<1> DEFINE Sums == \A t \in Tools : outTotal[t] = SumFunctionOnSet(out[t], Tools)
<1>1. ASSUME TypeOK PROVE OutTotalIsSum <=> Sums
  <2>1. \A t \in Tools : DOMAIN out[t] = Tools
    BY <1>1 DEF TypeOK
  <2>2. \A t \in Tools : SumFunction(out[t]) = SumFunctionOnSet(out[t], Tools)
    BY <2>1 DEF SumFunction
  <2> QED
    BY <2>2 DEF OutTotalIsSum
<1>2. Init => Sums
  <2>1. SumFunctionOnSet(NoEdges, Tools) = 0
    <3>1. \A x \in Tools : NoEdges[x] = 0
      BY DEF NoEdges
    <3> QED
      BY <3>1, ToolsAssumption, SumZero
  <2> QED
    BY <2>1 DEF Init
<1>3. ASSUME IInv, Sums, NEW name \in Tools, Record(name)
      PROVE  Sums'
  <2> DEFINE gone == Victims(nodes \cup {name}, Stamped(name), {name, last})
  <2>1. gone \in SUBSET Tools
    BY <1>3 DEF Victims, FirstN, IInv, TypeOK
  <2>2. OutAfterEdge(name) \in [Tools -> [Tools -> Nat]]
    BY <1>3, OutAfterEdgeFacts DEF IInv
  <2>3. /\ out' = ForgetEdges(gone, OutAfterEdge(name))
        /\ outTotal' = ForgetTotals(gone, OutAfterEdge(name), OutTotalAfterEdge(name))
    BY <1>3 DEF Record
  <2> HIDE DEF gone
  <2>4. ASSUME NEW a \in Tools
        PROVE  outTotal'[a] = SumFunctionOnSet(out'[a], Tools)
    <3>1. OutTotalAfterEdge(name)[a] = SumFunctionOnSet(OutAfterEdge(name)[a], Tools)
      BY <1>3, OutTotalAfterEdgeIsSum
    <3> QED
      BY <2>1, <2>2, <2>3, <3>1, ForgetTotalsIsSum
  <2> QED
    BY <2>4
<1>4. IInv /\ Sums /\ [Next]_graphVars => Sums'
  <2>1. Sums /\ UNCHANGED graphVars => Sums'
    BY DEF graphVars
  <2> HIDE DEF Sums
  <2> QED
    BY <1>3, <2>1 DEF Next
<1>5. IInv /\ Sums => OutTotalIsSum
  BY <1>1 DEF IInv
<1> QED
  BY <1>2, <1>4, <1>5, InitIInv, NextIInv, PTL DEF Spec
=============================================================================
