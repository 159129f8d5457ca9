-------------------------------- MODULE Pass --------------------------------
(***************************************************************************)
(* One pruning pass as the code runs it (prune.Prune): rank, assign tiers  *)
(* by rank, then emit the tools one by one with what their forms cost.     *)
(* PruneTiers states the same decision as a set; Session and Proxy use it. *)
(*                                                                         *)
(* A tool is a record: its name, empty for an entry the parser kept        *)
(* without understanding it, the bytes of its raw and of its compressed    *)
(* form, and its score.  A policy is the part of Config the pass reads.    *)
(* Names and pin patterns are sequences of letters.                        *)
(***************************************************************************)
EXTENDS Integers, Sequences, SequencesExt

(* A pattern with a star at its end pins every name that begins with the   *)
(* rest of it; the empty pattern pins nothing.                             *)
Pins(pattern, name) ==
  /\ pattern # <<>>
  /\ IF Last(pattern) = "*" THEN IsPrefix(Front(pattern), name)
     ELSE pattern = name

IsPinned(policy, tool) == \E p \in policy.pinned : Pins(p, tool.name)

(* score: an entry without a name has none.                                *)
ScoreOf(tool) == IF tool.name = <<>> THEN 0 ELSE tool.score

(* The order of the stable sort: pins, then score, then position.          *)
RanksBefore(tools, policy, i, j) ==
  LET pi == IsPinned(policy, tools[i])
      pj == IsPinned(policy, tools[j])
  IN IF pi # pj THEN pi
     ELSE IF ScoreOf(tools[i]) # ScoreOf(tools[j])
          THEN ScoreOf(tools[i]) > ScoreOf(tools[j])
          ELSE i < j

(* The sorted indices: every position once, each before those it ranks     *)
(* before.                                                                 *)
Order(tools, policy) ==
  CHOOSE order \in Bijection(DOMAIN tools, DOMAIN tools) :
    \A m, n \in DOMAIN tools :
      m < n => RanksBefore(tools, policy, order[m], order[n])

\* Mutant of TierAtRank: the budget is one tool too large.
TierAtRankTooMany(policy, tool, rank) ==
  IF IsPinned(policy, tool) \/ rank - 1 <= policy.topN THEN "full"
  ELSE IF policy.dropBelow > 0 /\ ScoreOf(tool) < policy.dropBelow THEN "dropped"
  ELSE "compressed"

(* The tier of a tool by its rank, counted from one.                       *)
TierAtRank(policy, tool, rank) ==
  IF IsPinned(policy, tool) \/ rank - 1 < policy.topN THEN "full"
  ELSE IF policy.dropBelow > 0 /\ ScoreOf(tool) < policy.dropBelow THEN "dropped"
  ELSE "compressed"

(* compress: an entry without a name cannot be, one that would not shrink  *)
(* is not.                                                                 *)
Compressible(tool) == tool.name # <<>> /\ tool.small < tool.raw

EmitNothing ==
  [tools |-> <<>>, full |-> 0, compressed |-> 0, dropped |-> 0, bytesAfter |-> 0,
   saved |-> <<>>]

\* Mutant of EmitFull: what a tool that keeps its schema costs is not added.
EmitFullForFree(res, idx, tool) ==
  [res EXCEPT !.tools = Append(@, [idx |-> idx, form |-> "full"]), !.full = @ + 1,
              !.saved = Append(@, 0)]

EmitFull(res, idx, tool) ==
  [res EXCEPT !.tools = Append(@, [idx |-> idx, form |-> "full"]), !.full = @ + 1,
              !.bytesAfter = @ + tool.raw, !.saved = Append(@, 0)]

EmitCompressed(res, idx, tool) ==
  [res EXCEPT !.tools = Append(@, [idx |-> idx, form |-> "compressed"]),
              !.compressed = @ + 1, !.bytesAfter = @ + tool.small,
              !.saved = Append(@, tool.raw - tool.small)]

EmitDropped(res, tool) ==
  [res EXCEPT !.dropped = @ + 1, !.saved = Append(@, tool.raw)]

Emit(res, idx, tool, tier) ==
  CASE tier = "dropped" -> EmitDropped(res, tool)
    [] tier = "compressed" /\ Compressible(tool) -> EmitCompressed(res, idx, tool)
    [] OTHER -> EmitFull(res, idx, tool)

PassedThrough(tools, policy) == ~policy.enabled \/ Len(tools) <= policy.minTools

(* Which tools are emitted when: all as they are when the pass is skipped, *)
(* in place or by rank otherwise.                                          *)
TierOf(tools, policy, order, idx) ==
  IF PassedThrough(tools, policy) THEN "full"
  ELSE TierAtRank(policy, tools[idx], CHOOSE r \in DOMAIN tools : order[r] = idx)

EmitOrder(tools, policy, order) ==
  IF PassedThrough(tools, policy) \/ policy.preserveOrder
  THEN [i \in DOMAIN tools |-> i] ELSE order

(* The emission loop: what it has after each iteration.                    *)
Emitted(tools, policy) ==
  LET order == Order(tools, policy)
      emit == EmitOrder(tools, policy, order)
      after[n \in 0 .. Len(tools)] ==
        IF n = 0 THEN EmitNothing
        ELSE Emit(after[n - 1], emit[n], tools[emit[n]],
                  TierOf(tools, policy, order, emit[n]))
  IN after

Prune(tools, policy) == Emitted(tools, policy)[Len(tools)]

BytesBefore(tools) == SumFunction([i \in DOMAIN tools |-> tools[i].raw])

-----------------------------------------------------------------------------
(* The decision of PruneTiers for the same tools, by position.             *)
Tiers(tools, policy) ==
  INSTANCE PruneTiers WITH
    Tools <- DOMAIN tools, Enabled <- policy.enabled, MinTools <- policy.minTools,
    TopN <- policy.topN, DropBelow <- policy.dropBelow,
    Pinned <- {i \in DOMAIN tools : IsPinned(policy, tools[i])},
    Shrinks <- {i \in DOMAIN tools : Compressible(tools[i])},
    RevealSteps <- 0, RevealWeight <- 0, MaxBase <- 0
=============================================================================
