---------------------------- MODULE PruneTiers -----------------------------
(***************************************************************************)
(* What prune.Prune decides for one tools/list result: the tier of every   *)
(* tool.  Tools are numbered in the order the server lists them, the order *)
(* that breaks ties.                                                       *)
(*                                                                         *)
(* A score is a base (the successor, recency, frequency and lexical        *)
(* signals, any value in 0 .. MaxBase) plus the reveal bonus, the one      *)
(* signal that carries a promise and is therefore modelled exactly.        *)
(* Compression and its two outcomes (it pays, or the tool keeps its full   *)
(* schema) are a property of the tool: the set Shrinks.                    *)
(***************************************************************************)
EXTENDS Ranking

CONSTANTS
  Tools,         \* the tools the server can list
  Enabled,       \* Config.Enabled
  MinTools,      \* Config.MinTools
  TopN,          \* Config.TopN
  Pinned,        \* the tools Config.Pinned matches (isPinned)
  DropBelow,     \* Config.DropBelow, 0 to never drop a tool
  RevealSteps,   \* Config.RevealSteps
  RevealWeight,  \* Config.Weights.Revealed
  MaxBase,       \* the largest base score
  Shrinks        \* tools whose compressed form is smaller than the original

ASSUME PruneAssumption ==
  /\ Tools \subseteq Nat \ {0} /\ IsFiniteSet(Tools)
  /\ Enabled \in BOOLEAN
  /\ MinTools \in Nat /\ TopN \in Nat /\ DropBelow \in Nat
  /\ RevealSteps \in Nat /\ RevealWeight \in Int /\ MaxBase \in Nat
  /\ Pinned \subseteq Tools /\ Shrinks \subseteq Tools

(* What the five other signals of score() add up to, for the tools of a    *)
(* page: they are functions of traffic this module does not follow.        *)
BaseScores(page) == [page -> 0 .. MaxBase]

-----------------------------------------------------------------------------
(* revealed[t] is the execution at which t was called, 0 when the map has  *)
(* no entry; its age is measured in executions.                            *)
InWindow(revealed, seq, t) ==
  revealed[t] # 0 /\ seq - revealed[t] <= RevealSteps

\* Mutant of RevealBonus: the bonus ends one execution early.
RevealBonusShort(revealed, seq, t) ==
  IF revealed[t] # 0 /\ seq - revealed[t] < RevealSteps THEN RevealWeight ELSE 0

(* score's last signal.                                                    *)
RevealBonus(revealed, seq, t) ==
  IF InWindow(revealed, seq, t) THEN RevealWeight ELSE 0

Score(base, revealed, seq) ==
  [t \in DOMAIN base |-> base[t] + RevealBonus(revealed, seq, t)]

(* The sort of `order`: pinned tools first, then by score, then by         *)
(* position.                                                               *)
RankOrder(score) ==
  {p \in (DOMAIN score) \X (DOMAIN score) :
     \/ p[1] \in Pinned /\ p[2] \notin Pinned
     \/ /\ (p[1] \in Pinned) <=> (p[2] \in Pinned)
        /\ \/ score[p[1]] > score[p[2]]
           \/ score[p[1]] = score[p[2]] /\ p[1] < p[2]}

(* The tools the budget covers.  A pinned tool ranks first and uses budget.*)
WithinBudget(score) == FirstN(DOMAIN score, RankOrder(score), TopN)

PassThrough(page) == ~Enabled \/ Cardinality(page) <= MinTools

(* The tier each tool of the page ends in.  A tool that compression does   *)
(* not shrink keeps its full schema.                                       *)
Tier(score) ==
  [t \in DOMAIN score |->
     IF \/ PassThrough(DOMAIN score)
        \/ t \in Pinned \cup WithinBudget(score)
     THEN "full"
     ELSE IF DropBelow > 0 /\ score[t] < DropBelow THEN "dropped"
     ELSE IF t \in Shrinks THEN "compressed"
     ELSE "full"]

InTier(tier, name) == {t \in DOMAIN tier : tier[t] = name}
=============================================================================
