---------------------------- MODULE MCToolGraph ----------------------------
(***************************************************************************)
(* The graph with the history of its executions beside it, so that what    *)
(* the bounded graph says can be compared with what really happened.       *)
(***************************************************************************)
EXTENDS ToolGraph, Sequences

VARIABLE history   \* the executions recorded so far, in order

MCInit == Init /\ history = <<>>

MCNext == Next /\ history' = Append(history, last')

MCSpec == MCInit /\ [][MCNext]_<<graphVars, history>>

(* How often b came immediately after a.                                   *)
Transitions(a, b) ==
  Cardinality({i \in 1 .. Len(history) - 1 :
                 history[i] = a /\ history[i + 1] = b})

Executions(t) == Cardinality({i \in 1 .. Len(history) : history[i] = t})

(* Tools executed after the last execution of t, each counted once.        *)
RanSince(t) ==
  {history[i] : i \in {j \in 1 .. Len(history) :
     \A k \in j .. Len(history) : history[k] # t}}

(* However much was trimmed and evicted, the graph never believes in more  *)
(* transitions or executions than there were (graph.go, Record).           *)
NeverOvercounts ==
  \A a \in Tools : /\ uses[a] <= Executions(a)
                   /\ \A b \in Tools : out[a][b] <= Transitions(a, b)

(* The recency signal covers the node budget: a tool is forgotten only     *)
(* after that many other tools ran since, and a tool the graph knows is    *)
(* known with the position of its last execution (StepsSince).             *)
RecentToolsKnown ==
  \A t \in Tools :
    /\ Executions(t) > 0 /\ Cardinality(RanSince(t)) < NodeLimit => t \in nodes
    /\ StepsSince(t) >= 0 =>
         /\ history[Len(history) - StepsSince(t)] = t
         /\ \A k \in 0 .. StepsSince(t) - 1 : history[Len(history) - k] # t

Ran == {t \in Tools : Executions(t) > 0}
Followers(a) == {b \in Tools : Transitions(a, b) > 0}

(* There is room for n: as configured, or by default when the setting      *)
(* means nothing.                                                          *)
RoomFor(n, limit, default) ==
  \/ limit > 0 /\ n <= limit
  \/ limit <= 0 /\ n <= default

(* As long as nothing had to be dropped the graph is exactly the           *)
(* first-order statistics of the history, self-transitions included: a     *)
(* setting of zero is no reason to drop anything (graph.go, Record; New:   *)
(* "Non-positive limits fall back to the defaults").                       *)
ExactWithinLimits ==
  (RoomFor(Cardinality(Ran), MaxNodes, 512)
     /\ \A a \in Tools : RoomFor(Cardinality(Followers(a)), MaxEdgesPerNode, 32)) =>
    \A a \in Tools : /\ uses[a] = Executions(a)
                     /\ \A b \in Tools : out[a][b] = Transitions(a, b)
=============================================================================
