--------------------------- MODULE SessionProofs ---------------------------
(***************************************************************************)
(* The bound of the reveal set and the promise of the reveal loop, for     *)
(* every set of tools, every budget and every traffic.                     *)
(*                                                                         *)
(* The argument: a call stamps its tool with a number no other tool has    *)
(* (StampsDistinct), so a window of RevealSteps + 1 numbers holds that     *)
(* many tools; only pins and tools of the window sort before a tool of the *)
(* window once the bonus outweighs every base score.                       *)
(***************************************************************************)
EXTENDS Session, RankingProofs

(* One call, one stamp: tools that were called share no stamp.             *)
StampsDistinct ==
  \A a, b \in RevealedEntries : revealed[a] = revealed[b] => a = b

IInv == SessionTypeOK /\ StampsDistinct

-----------------------------------------------------------------------------
(* What each operation preserves.                                          *)

(* The reveal set after a call: entries are kept, restamped or dropped.    *)
LEMMA CallReveals ==
  ASSUME IInv, NEW f, ObserveToolsCall(f)
  PROVE  /\ f.arg \in Tools
         /\ seq' = seq + 1
         /\ revealed' \in [Tools -> 0 .. seq']
         /\ \A t \in Tools \ {f.arg} : revealed'[t] \in {0, revealed[t]}
         /\ revealed'[f.arg] \in {0, seq'}
<1> DEFINE rev == [revealed EXCEPT ![f.arg] = RevealStamp]
<1>1. f.arg \in Tools /\ seq \in Nat /\ revealed \in [Tools -> 0 .. seq]
  BY DEF ObserveToolsCall, IsCall, IInv, SessionTypeOK
<1>2. seq' = seq + 1 /\ revealed' = PruneRevealed(rev, seq + 1)
  BY DEF ObserveToolsCall
<1>3. /\ rev \in [Tools -> 0 .. seq + 1]
      /\ rev[f.arg] = seq + 1
      /\ \A t \in Tools \ {f.arg} : rev[t] = revealed[t]
  BY <1>1 DEF RevealStamp
<1> HIDE DEF rev
<1> QED
  BY <1>1, <1>2, <1>3 DEF PruneRevealed

LEMMA InitIInv == SessionInit => IInv
<1> SUFFICES ASSUME SessionInit PROVE IInv
  OBVIOUS
<1>1. seq \in Nat /\ revealed \in [Tools -> 0 .. seq]
  BY DEF SessionInit
<1>2. agg \in [lists : Nat, toolCalls : Nat, reveals : Nat]
  BY DEF SessionInit
<1>3. StampsDistinct
  BY DEF SessionInit, StampsDistinct, RevealedEntries
<1>4. caps \in BOOLEAN
  BY DEF SessionInit
<1> QED
  BY <1>1, <1>2, <1>3, <1>4 DEF SessionInit, IInv, SessionTypeOK

LEMMA CallIInv ==
  ASSUME IInv, NEW f \in ClientFrames, ObserveToolsCall(f)
  PROVE  IInv'
<1>1. /\ f.arg \in Tools
      /\ seq' = seq + 1
      /\ revealed' \in [Tools -> 0 .. seq']
      /\ \A t \in Tools \ {f.arg} : revealed'[t] \in {0, revealed[t]}
      /\ revealed'[f.arg] \in {0, seq'}
  BY CallReveals
<1>2. f.id \in Ids \cup {NoId}
  BY DEF ClientFrames, Request, Frame
<1>3. SessionTypeOK'
  <2>1. agg' \in [lists : Nat, toolCalls : Nat, reveals : Nat]
    <3>1. agg \in [lists : Nat, toolCalls : Nat, reveals : Nat]
      BY DEF IInv, SessionTypeOK
    <3> QED
      BY <3>1 DEF ObserveToolsCall
  <2>2. caps' \in BOOLEAN
    BY DEF ObserveToolsCall, IInv, SessionTypeOK
  <2>3. compressed' \subseteq Tools /\ pendingLst' \subseteq Ids
        /\ pendingIni' \subseteq Ids
    BY DEF ObserveToolsCall, IInv, SessionTypeOK
  <2>4. pendingCal' \subseteq Ids
    BY <1>2 DEF ObserveToolsCall, IInv, SessionTypeOK, WithId
  <2>5. seq' \in Nat
    BY <1>1 DEF IInv, SessionTypeOK
  <2> QED
    BY <1>1, <2>1, <2>2, <2>3, <2>4, <2>5 DEF SessionTypeOK
<1>4. StampsDistinct'
  <2>1. seq \in Nat /\ revealed \in [Tools -> 0 .. seq]
    BY DEF IInv, SessionTypeOK
  <2> QED
    BY <1>1, <2>1 DEF IInv, StampsDistinct, RevealedEntries
<1> QED
  BY <1>3, <1>4 DEF IInv

(* A list touches the compressed tools and the aggregate only.             *)
LEMMA ListIInv ==
  ASSUME IInv, NEW page \in SUBSET Tools, NEW base \in BaseScores(page),
         PruneToolsResult(base)
  PROVE  IInv'
<1>1. compressed' \subseteq Tools
  BY DEF PruneToolsResult, CompressedAfter, InTier, Tiers, Tier, Score, BaseScores
<1>2. UNCHANGED <<seq, revealed, pendingLst, pendingCal, pendingIni, caps>>
  BY DEF PruneToolsResult
<1>3. agg' \in [lists : Nat, toolCalls : Nat, reveals : Nat]
  BY DEF PruneToolsResult, IInv, SessionTypeOK
<1> QED
  BY <1>1, <1>2, <1>3 DEF IInv, SessionTypeOK, StampsDistinct, RevealedEntries

LEMMA OtherFrameIInv ==
  ASSUME IInv, NEW f \in ClientFrames,
         ObserveInitialize(f) \/ ObserveToolsList(f) \/ ObserveOther(f)
  PROVE  IInv'
<1>1. f.id \in Ids \cup {NoId}
  BY DEF ClientFrames, Request, Frame
<1> QED
  BY <1>1 DEF ObserveInitialize, ObserveToolsList, ObserveOther, sessionVars,
              IInv, SessionTypeOK, StampsDistinct, RevealedEntries, WithId

LEMMA ServerFrameIInv ==
  ASSUME IInv, NEW f \in ServerFrames, ObserveServerFrame(f)
  PROVE  IInv'
<1>1. f.listChanged \in BOOLEAN
  <2>1. CASE \E id \in Ids \cup {NoId}, err, lc \in BOOLEAN : f = Response(id, err, lc, <<>>)
    BY <2>1 DEF Response, Frame
  <2>2. CASE \E id \in Ids \cup {NoId} : f = Request("sampling", id, NoTool)
    BY <2>2 DEF Request, Frame
  <2> QED
    BY <2>1, <2>2 DEF ServerFrames
<1>2. UNCHANGED <<seq, revealed, compressed, agg>>
  BY DEF ObserveServerFrame
<1>3. /\ pendingLst' \subseteq Ids /\ pendingCal' \subseteq Ids
      /\ pendingIni' \subseteq Ids
  BY DEF ObserveServerFrame, ObserveServer, Answered, IInv, SessionTypeOK
<1>4. caps' \in BOOLEAN
  BY <1>1 DEF ObserveServerFrame, ObserveServer, IInv, SessionTypeOK
<1> QED
  BY <1>2, <1>3, <1>4 DEF IInv, SessionTypeOK, StampsDistinct, RevealedEntries

LEMMA NextIInv == IInv /\ [SessionCall]_sessionVars => IInv'
<1>1. IInv /\ UNCHANGED sessionVars => IInv'
  BY DEF sessionVars, IInv, SessionTypeOK, StampsDistinct, RevealedEntries
<1> QED
  BY <1>1, CallIInv, ListIInv, OtherFrameIInv, ServerFrameIInv
     DEF SessionCall, ObserveClient

(* The state is well typed; an entry of the reveal set never lies ahead of *)
(* the counter, so its unsigned age cannot wrap.                           *)
THEOREM SessionTypeCorrect == SessionCalls => []SessionTypeOK
<1>1. IInv => SessionTypeOK
  BY DEF IInv
<1> QED
  BY <1>1, InitIInv, NextIInv, PTL DEF SessionCalls

-----------------------------------------------------------------------------
(* Tools whose stamps are distinct members of an interval are no more than *)
(* the interval has numbers.                                               *)
LEMMA StampsInInterval ==
  ASSUME IInv, NEW T \in SUBSET RevealedEntries, NEW lo \in Int,
         \A t \in T : revealed[t] >= lo,
         lo <= seq
  PROVE  IsFiniteSet(T) /\ Cardinality(T) <= seq - lo + 1
<1> DEFINE stamp == [t \in T |-> revealed[t]]
<1>1. seq \in Nat /\ revealed \in [Tools -> 0 .. seq]
  BY DEF IInv, SessionTypeOK
<1>2. stamp \in [T -> lo .. seq]
  BY <1>1 DEF RevealedEntries
<1>3. \A a, b \in T : stamp[a] = stamp[b] => a = b
  BY DEF IInv, StampsDistinct
<1>4. stamp \in Injection(T, lo .. seq)
  BY <1>2, <1>3 DEF Injection, IsInjective
<1>5. IsFiniteSet(lo .. seq) /\ Cardinality(lo .. seq) = seq - lo + 1
  BY <1>1, FS_Interval
<1>6. IsFiniteSet(T) /\ Cardinality(T) <= Cardinality(lo .. seq)
  BY <1>4, <1>5, FS_Injection
<1> QED
  BY <1>5, <1>6

(* The tools of one reveal window.                                         *)
Windowed == {t \in Tools : InWindow(revealed, seq, t)}

LEMMA WindowedBound ==
  ASSUME IInv
  PROVE  IsFiniteSet(Windowed) /\ Cardinality(Windowed) <= RevealSteps + 1
<1>1. seq \in Nat /\ revealed \in [Tools -> 0 .. seq] /\ RevealSteps \in Nat
  BY PruneAssumption DEF IInv, SessionTypeOK
<1>2. Windowed \in SUBSET RevealedEntries
  BY DEF Windowed, RevealedEntries, InWindow
<1>3. \A t \in Windowed : revealed[t] >= seq - RevealSteps
  BY <1>1 DEF Windowed, InWindow
<1>4. seq - RevealSteps \in Int /\ seq - RevealSteps <= seq
  BY <1>1
<1>5. IsFiniteSet(Windowed) /\ Cardinality(Windowed) <= seq - (seq - RevealSteps) + 1
  BY <1>2, <1>3, <1>4, StampsInInterval
<1> QED
  BY <1>1, <1>5

(* The bound of the reveal set: over budget, pruneRevealed leaves the      *)
(* tools of one window.                                                    *)
LEMMA CallRevealedBound ==
  ASSUME IInv, IInv', NEW f, ObserveToolsCall(f)
  PROVE  RevealedBound'
<1> DEFINE now == seq + 1
           rev == [revealed EXCEPT ![f.arg] = RevealStamp]
           entries == {t \in Tools : rev[t] # 0}
<1>1. /\ f.arg \in Tools /\ seq \in Nat /\ revealed \in [Tools -> 0 .. seq]
      /\ seq' = now /\ revealed' = PruneRevealed(rev, now)
  BY DEF ObserveToolsCall, IsCall, IInv, SessionTypeOK
<1>2. rev \in [Tools -> 0 .. now]
  BY <1>1 DEF RevealStamp
<1>3. RevealSteps \in Nat /\ MaxNodes \in Int
  BY PruneAssumption, SessionAssumption
<1>4. CASE Cardinality(entries) <= MaxNodes
  <2>1. revealed' = rev
    BY <1>1, <1>4 DEF PruneRevealed
  <2>2. RevealedEntries' = entries
    BY <2>1 DEF RevealedEntries
  <2>3. IsFiniteSet(entries) /\ Cardinality(entries) \in Nat
    BY PruneAssumption, FS_Subset, FS_CardinalityType
  <2> HIDE DEF entries
  <2> QED
    BY <2>2, <2>3, <1>3, <1>4 DEF RevealedBound
<1>5. CASE ~(Cardinality(entries) <= MaxNodes)
  <2>1. revealed' = [t \in Tools |-> IF now - rev[t] > RevealSteps THEN 0 ELSE rev[t]]
    BY <1>1, <1>5 DEF PruneRevealed
  <2> HIDE DEF rev, entries
  <2>2. RevealedEntries' \subseteq Windowed'
    BY <2>1, <1>1, <1>2, <1>3 DEF RevealedEntries, Windowed, InWindow
  <2>3. IsFiniteSet(Windowed') /\ Cardinality(Windowed') <= RevealSteps + 1
    <3>1. IInv => IsFiniteSet(Windowed) /\ Cardinality(Windowed) <= RevealSteps + 1
      BY WindowedBound
    <3>2. (IInv => IsFiniteSet(Windowed) /\ Cardinality(Windowed) <= RevealSteps + 1)'
      BY <3>1, WindowedBound, PTL
    <3> QED
      BY <3>2
  <2>4. /\ Cardinality(RevealedEntries') <= Cardinality(Windowed')
        /\ Cardinality(RevealedEntries') \in Nat
        /\ Cardinality(Windowed') \in Nat
    BY <2>2, <2>3, FS_Subset, FS_CardinalityType
  <2> QED
    BY <2>3, <2>4, <1>3 DEF RevealedBound
<1> QED
  BY <1>4, <1>5

(* Steps that are no calls leave the reveal set and the counter alone.     *)
LEMMA CallOrRevealsUnchanged ==
  ASSUME [SessionCall]_sessionVars
  PROVE  (\E f \in ClientFrames : ObserveToolsCall(f)) \/ UNCHANGED <<seq, revealed>>
BY DEF SessionCall, sessionVars, ObserveClient, ObserveInitialize,
       ObserveToolsList, ObserveOther, ObserveServerFrame, PruneToolsResult

(* Whatever the client sends, the reveal set stays within its bound.       *)
THEOREM RevealsBounded == SessionCalls => []RevealedBound
<1>1. SessionInit => RevealedBound
  <2>1. SessionInit => RevealedEntries = {}
    BY DEF SessionInit, RevealedEntries
  <2> QED
    BY <2>1, FS_EmptySet, PruneAssumption, SessionAssumption DEF RevealedBound
<1>2. IInv /\ IInv' /\ RevealedBound /\ [SessionCall]_sessionVars => RevealedBound'
  <2>1. RevealedBound /\ UNCHANGED <<seq, revealed>> => RevealedBound'
    BY DEF RevealedBound, RevealedEntries
  <2> QED
    BY <2>1, CallRevealedBound, CallOrRevealsUnchanged
<1> QED
  BY <1>1, <1>2, InitIInv, NextIInv, PTL DEF SessionCalls

(* No entry that still earns its bonus is lost to the bound.               *)
THEOREM WindowKept == SessionCalls => WindowedRevealsKept
<1> DEFINE Kept == \A t \in Tools :
                     (revealed[t] # 0 /\ seq' - revealed[t] <= RevealSteps) =>
                       revealed'[t] \in {revealed[t], seq'}
<1>1. ASSUME IInv, NEW f \in ClientFrames, ObserveToolsCall(f)
      PROVE  Kept
  <2> DEFINE rev == [revealed EXCEPT ![f.arg] = RevealStamp]
  <2>1. /\ f.arg \in Tools /\ seq \in Nat /\ revealed \in [Tools -> 0 .. seq]
        /\ seq' = seq + 1 /\ revealed' = PruneRevealed(rev, seq + 1)
    BY <1>1 DEF ObserveToolsCall, IsCall, IInv, SessionTypeOK
  <2>2. /\ rev \in [Tools -> 0 .. seq + 1]
        /\ \A t \in Tools : rev[t] \in {revealed[t], seq + 1}
    BY <2>1 DEF RevealStamp
  <2>3. RevealSteps \in Nat
    BY PruneAssumption
  <2> HIDE DEF rev
  <2>4. SUFFICES ASSUME NEW t \in Tools, revealed[t] # 0,
                        seq' - revealed[t] <= RevealSteps
                 PROVE  revealed'[t] \in {revealed[t], seq'}
    OBVIOUS
  <2>5. revealed'[t] = rev[t]
    BY <2>1, <2>2, <2>3, <2>4 DEF PruneRevealed
  <2> QED
    BY <2>1, <2>2, <2>5
<1>2. ASSUME IInv, UNCHANGED <<seq, revealed>>
      PROVE  Kept
  BY <1>2
<1>3. IInv /\ [SessionCall]_sessionVars => [Kept]_sessionVars
  BY <1>1, <1>2, CallOrRevealsUnchanged
<1> QED
  BY <1>3, InitIInv, NextIInv, PTL DEF SessionCalls, WindowedRevealsKept

-----------------------------------------------------------------------------
(* Where the budget affords it, only pins and other tools of the window    *)
(* sort before a tool of the window: it is within the budget.              *)
LEMMA WindowedWithinBudget ==
  ASSUME IInv, PromiseAffordable, NEW page \in SUBSET Tools,
         NEW base \in BaseScores(page), NEW t \in page \ Pinned,
         InWindow(revealed, seq, t)
  PROVE  t \in WithinBudget(Score(base, revealed, seq))
<1> DEFINE score == Score(base, revealed, seq)
           before == Ahead(page, RankOrder(score), t)
<1>1. /\ RevealWeight \in Int /\ MaxBase \in Nat /\ RevealWeight > MaxBase
      /\ RevealSteps \in Nat /\ TopN \in Nat
      /\ TopN >= Cardinality(Pinned) + RevealSteps + 1
      /\ page \subseteq Nat
  BY PruneAssumption DEF PromiseAffordable
<1>2. /\ base \in [page -> 0 .. MaxBase] /\ DOMAIN score = page
      /\ score[t] >= RevealWeight /\ score[t] \in Int
      /\ \A y \in page : ~InWindow(revealed, seq, y) => score[y] = base[y]
  BY <1>1 DEF BaseScores, Score, RevealBonus
<1> HIDE DEF score
<1>3. before \subseteq Pinned \cup (Windowed \ {t})
  <2>1. SUFFICES ASSUME NEW y \in page, <<y, t>> \in RankOrder(score),
                        y \notin Pinned
                 PROVE  y \in Windowed \ {t}
    BY DEF Ahead
  <2>2. score[y] > score[t] \/ (score[y] = score[t] /\ y < t)
    BY <2>1 DEF RankOrder
  <2>3. y # t
    BY <2>2, <1>1, <1>2
  <2>4. InWindow(revealed, seq, y)
    <3>1. SUFFICES ASSUME ~InWindow(revealed, seq, y) PROVE FALSE
      OBVIOUS
    <3>2. score[y] \in 0 .. MaxBase
      BY <3>1, <1>2, <2>1
    <3> QED
      BY <3>2, <2>2, <1>1, <1>2
  <2> QED
    BY <2>1, <2>3, <2>4 DEF Windowed
<1>4. /\ IsFiniteSet(Windowed \ {t}) /\ Cardinality(Windowed \ {t}) \in Nat
      /\ Cardinality(Windowed \ {t}) <= RevealSteps
  <2>1. t \in Windowed
    BY DEF Windowed
  <2>2. /\ IsFiniteSet(Windowed) /\ Cardinality(Windowed) \in Nat
        /\ Cardinality(Windowed) <= RevealSteps + 1
    BY WindowedBound, FS_CardinalityType
  <2>3. /\ IsFiniteSet(Windowed \ {t})
        /\ Cardinality(Windowed \ {t}) = Cardinality(Windowed) - 1
    BY <2>1, <2>2, FS_RemoveElement
  <2>4. Cardinality(Windowed \ {t}) \in Nat
    BY <2>3, FS_CardinalityType
  <2> QED
    BY <2>2, <2>3, <2>4, <1>1
<1>5. IsFiniteSet(Pinned) /\ Cardinality(Pinned) \in Nat
  BY PruneAssumption, FS_Subset, FS_CardinalityType
<1>6. /\ IsFiniteSet(Pinned \cup (Windowed \ {t}))
      /\ Cardinality(Pinned \cup (Windowed \ {t}))
           <= Cardinality(Pinned) + Cardinality(Windowed \ {t})
  <2>1. Cardinality(Pinned \cap (Windowed \ {t})) \in Nat
    BY <1>5, FS_Intersection, FS_CardinalityType
  <2>2. /\ IsFiniteSet(Pinned \cup (Windowed \ {t}))
        /\ Cardinality(Pinned \cup (Windowed \ {t}))
             = Cardinality(Pinned) + Cardinality(Windowed \ {t})
               - Cardinality(Pinned \cap (Windowed \ {t}))
    BY <1>4, <1>5, FS_Union
  <2> QED
    BY <1>4, <1>5, <2>1, <2>2
<1>7. /\ Cardinality(before) \in Nat
      /\ Cardinality(Pinned \cup (Windowed \ {t})) \in Nat
      /\ Cardinality(before) <= Cardinality(Pinned \cup (Windowed \ {t}))
  BY <1>3, <1>6, FS_Subset, FS_CardinalityType
<1>8. Cardinality(before) < TopN
  BY <1>1, <1>4, <1>5, <1>6, <1>7
<1> QED
  BY <1>2, <1>8 DEF WithinBudget, FirstN, score

LEMMA ListStaysFull ==
  ASSUME IInv, PromiseAffordable, NEW page \in SUBSET Tools,
         NEW base \in BaseScores(page), PruneToolsResult(base)
  PROVE  NoRecentCallCompressed'
<1> DEFINE score == Score(base, revealed, seq)
<1>1. DOMAIN score = page
  BY DEF Score, BaseScores
<1>2. /\ compressed' = InTier(Tier(score), "compressed")
      /\ UNCHANGED <<seq, revealed>>
  BY DEF PruneToolsResult, CompressedAfter, Tiers
<1> HIDE DEF score
<1>3. \A t \in compressed' : t \in page \ Pinned /\ t \notin WithinBudget(score)
  BY <1>1, <1>2 DEF InTier, Tier
<1>4. \A t \in compressed' : ~InWindow(revealed, seq, t)
  BY <1>3, WindowedWithinBudget DEF score
<1> QED
  BY <1>2, <1>4 DEF NoRecentCallCompressed, InWindow

(* The promise of the reveal loop: a tool that was called stays in full    *)
(* for the whole window, for every budget that affords it.                 *)
THEOREM PromiseKept == SessionCalls => []RevealedStayFull
<1>1. SessionInit => RevealedStayFull
  BY DEF SessionInit, RevealedStayFull, NoRecentCallCompressed
<1>2. ASSUME IInv, NoRecentCallCompressed, NEW f \in ClientFrames,
             ObserveToolsCall(f)
      PROVE  NoRecentCallCompressed'
  <2>1. /\ f.arg \in Tools /\ seq' = seq + 1
        /\ \A t \in Tools \ {f.arg} : revealed'[t] \in {0, revealed[t]}
    BY <1>2, CallReveals
  <2>2. /\ seq \in Nat /\ revealed \in [Tools -> 0 .. seq]
        /\ compressed \subseteq Tools /\ RevealSteps \in Nat
        /\ compressed' = compressed \ {f.arg}
    BY <1>2, PruneAssumption DEF IInv, SessionTypeOK, ObserveToolsCall
  <2>3. SUFFICES ASSUME NEW t \in compressed', InWindow(revealed, seq, t)'
                 PROVE  FALSE
    BY DEF NoRecentCallCompressed
  <2>4. revealed'[t] = revealed[t] /\ revealed[t] # 0
    BY <2>1, <2>2, <2>3 DEF InWindow
  <2>5. InWindow(revealed, seq, t)
    BY <2>1, <2>2, <2>3, <2>4 DEF InWindow
  <2> QED
    BY <2>2, <2>3, <2>5, <1>2 DEF NoRecentCallCompressed
<1>3. ASSUME NoRecentCallCompressed, UNCHANGED <<seq, revealed, compressed>>
      PROVE  NoRecentCallCompressed'
  BY <1>3 DEF NoRecentCallCompressed, InWindow
<1>4. PromiseAffordable' = PromiseAffordable
  BY DEF PromiseAffordable
<1>5. IInv /\ RevealedStayFull /\ [SessionCall]_sessionVars => RevealedStayFull'
  <2> SUFFICES ASSUME IInv, NoRecentCallCompressed, PromiseAffordable,
                      [SessionCall]_sessionVars
               PROVE  NoRecentCallCompressed'
    BY <1>4 DEF RevealedStayFull
  <2>1. \/ \E f \in ClientFrames : ObserveToolsCall(f)
        \/ \E page \in SUBSET Tools : \E base \in BaseScores(page) :
             PruneToolsResult(base)
        \/ UNCHANGED <<seq, revealed, compressed>>
    BY DEF SessionCall, sessionVars, ObserveClient, ObserveInitialize,
           ObserveToolsList, ObserveOther, ObserveServerFrame
  <2> QED
    BY <2>1, <1>2, <1>3, ListStaysFull
<1> QED
  BY <1>1, <1>5, InitIInv, NextIInv, PTL DEF SessionCalls
=============================================================================
