---------------------------- MODULE NoticeProofs ----------------------------
(***************************************************************************)
(* What holds of the lists and of the notifications of the proxy.          *)
(*                                                                         *)
(* A set flag is justified by a notice or a list the client will still see *)
(* (FlagInv).  A list on its way is cut to its budget behind the pump and  *)
(* whole before it (CutInv).  The newest list on its way shows every tool  *)
(* the session takes to be compressed (AdvInv).  When the client waits for *)
(* its answer before it sends again, a notice and the list it leads to are *)
(* never in flight twice (SequentialInv), and what a tool was revealed for *)
(* comes back with a list (RefreshingInv).                                 *)
(***************************************************************************)
EXTENDS ProxyProofs

(* The flag.  What justifies it, as a step can see it: a notification the  *)
(* client has still to act on, a request for a list the session has still  *)
(* to see or to answer, a line whose list was pruned.                      *)
Told == \E f \in ToSet(clientIn) : f.type = "list_changed"
ListAhead == \E f \in Unseen : f.type = "tools/list"

Justified ==
  \/ cpc = "notify" \/ Told \/ stale
  \/ pendingLst # {} \/ ListAhead
  \/ spc = "prune" \/ (schanged = TRUE /\ spc \in {"observe", "store"})

FlagInv == notifyPending = TRUE => Justified

LEMMA ToldIsDue == ASSUME Told PROVE NotificationsInFlight # {}
<1>1. PICK f \in ToSet(clientIn) : f.type = "list_changed"
  BY DEF Told
<1>2. \E i \in DOMAIN clientIn : clientIn[i] = f
  BY <1>1 DEF ToSet
<1> QED
  BY <1>1, <1>2 DEF NotificationsInFlight

LEMMA AheadIsDue == ASSUME PipeInv, ListAhead PROVE ListDue
<1>1. PICK f \in Unseen : f.type = "tools/list"
  BY DEF ListAhead
<1>2. CASE f \in FramesIn(clientOut)
  <2>1. PICK i \in DOMAIN clientOut : f \in ToSet(clientOut[i])
    BY <1>2 DEF FramesIn
  <2>2. clientOut[i] \in ToSet(clientOut)
    BY <2>1 DEF ToSet
  <2> QED
    BY <1>1, <2>1, <2>2 DEF ListDue
<1>3. CASE f \in {cline[k] : k \in cidx .. Len(cline)}
  <2> DEFINE rest == SubSeq(cline, cidx, Len(cline))
  <2>1. PICK k \in cidx .. Len(cline) : f = cline[k]
    BY <1>3
  <2>2. cline \in Seq(Frames) /\ cidx \in 1 .. Len(cline) + 1 /\ Len(cline) \in Nat
    BY LinesTyped, LenProperties DEF PipeInv, ControlOK
  <2>3. /\ Len(rest) = Len(cline) - cidx + 1 /\ rest \in Seq(Frames)
        /\ \A i \in 1 .. Len(cline) - cidx + 1 : rest[i] = cline[cidx + i - 1]
    BY <2>2, SubSeqProperties
  <2>4. k - cidx + 1 \in 1 .. Len(cline) - cidx + 1 /\ cidx + (k - cidx + 1) - 1 = k
    BY <2>1, <2>2
  <2>5. rest[k - cidx + 1] = f
    BY <2>1, <2>3, <2>4
  <2> HIDE DEF rest
  <2>6. f \in ToSet(rest)
    BY <2>3, <2>4, <2>5, ToSetTyped
  <2> QED
    BY <1>1, <2>6 DEF ListDue, rest
<1> QED
  BY <1>1, <1>2, <1>3 DEF Unseen

LEMMA JustifiedSuffices ==
  ASSUME PipeInv, FlagInv, notifyPending \in BOOLEAN, schanged \in BOOLEAN
  PROVE  FlagJustified
<1>1. notifyPending => Justified
  BY DEF FlagInv
<1>2. Justified => NotificationDue \/ ListDue \/ schanged
  BY ToldIsDue, AheadIsDue DEF Justified, NotificationDue, ListDue
<1> QED
  BY <1>1, <1>2 DEF FlagJustified

LEMMA NextFlagsOK == FlagsOK /\ [Next]_vars => FlagsOK'
<1> SUFFICES ASSUME FlagsOK, [Next]_vars PROVE FlagsOK'
  OBVIOUS
<1>1. stale' \in BOOLEAN
  BY DEF FlagsOK, Next, vars, clientVars, ClientInitialize, ClientRequest, ClientRefresh,
         ClientNextPage, ClientCancel, ClientAnswer, ClientReceive, ServerRead,
         ServerAnswer, ServerAsk, PumpClient, PumpClientRead, PumpClientObserve,
         PumpClientForward, PumpClientCapability, PumpClientSwap, PumpClientNotify,
         PumpServer, PumpServerRead, PumpServerObserve, PumpServerPrune, PumpServerStore,
         PumpServerWrite
<1>2. creveal' \in BOOLEAN
  BY DEF FlagsOK, Next, vars, pumpClientVars, ClientInitialize, ClientRequest, ClientRefresh,
         ClientNextPage, ClientSend, ClientCancel, ClientAnswer, ClientReceive, ServerRead,
         ServerAnswer, ServerAsk, PumpClient, PumpClientRead, PumpClientObserve,
         PumpClientForward, PumpClientCapability, PumpClientSwap, PumpClientNotify,
         PumpServer, PumpServerRead, PumpServerObserve, PumpServerPrune, PumpServerStore,
         PumpServerWrite
<1>3. schanged' \in BOOLEAN
  BY DEF FlagsOK, Next, vars, pumpServerVars, ClientInitialize, ClientRequest, ClientRefresh,
         ClientNextPage, ClientSend, ClientCancel, ClientAnswer, ClientReceive, ServerRead,
         ServerAnswer, ServerAsk, PumpClient, PumpClientRead, PumpClientObserve,
         PumpClientForward, PumpClientCapability, PumpClientSwap, PumpClientNotify,
         PumpServer, PumpServerRead, PumpServerObserve, PumpServerAdvance, PumpServerPrune,
         PumpServerStore, PumpServerWrite
<1>4. notifyPending' \in BOOLEAN
  BY DEF FlagsOK, Next, vars, ClientInitialize, ClientRequest, ClientRefresh,
         ClientNextPage, ClientSend, ClientCancel, ClientAnswer, ClientReceive, ServerRead,
         ServerAnswer, ServerAsk, PumpClient, PumpClientRead, PumpClientObserve,
         PumpClientForward, PumpClientCapability, PumpClientSwap, PumpClientNotify,
         PumpServer, PumpServerRead, PumpServerObserve, PumpServerPrune, PumpServerStore,
         PumpServerWrite
<1> QED
  BY <1>1, <1>2, <1>3, <1>4 DEF FlagsOK

(* The steps of the goroutines that see no request and no response.        *)
LEMMA QuietFlagInv ==
  ASSUME ListErrors = FALSE, PipeInv, Finished, Registered, FlagsOK, FlagInv, Quiet
  PROVE  FlagInv'
<1>1. UNCHANGED <<pendingLst, stale>> /\ ListAhead' = ListAhead
  BY QuietKeeps DEF ListAhead
<1>2. ASSUME Told' = Told, UNCHANGED <<spc, schanged, notifyPending>>,
             cpc = "notify" => cpc' = "notify"
      PROVE  FlagInv'
  BY <1>1, <1>2 DEF FlagInv, Justified
<1>3. CASE \/ PumpClientRead \/ PumpClientForward \/ PumpClientCapability
           \/ ServerRead \/ ServerAsk \/ ServerAnswer \/ UNCHANGED vars
  <2>1. UNCHANGED <<clientIn, spc, schanged, notifyPending>> /\ (cpc = "notify" => cpc' = "notify")
    BY <1>3 DEF PumpClientRead, PumpClientForward, PumpClientCapability, ServerRead,
                ServerAsk, ServerAnswer, vars, pipes, pumpClientVars, pumpServerVars
  <2> QED
    BY <1>2, <2>1 DEF Told
<1>4. CASE PumpClientSwap
  <2>1. /\ UNCHANGED <<clientIn, spc, schanged>> /\ cpc = "swap"
        /\ cpc' = IF notifyPending THEN "read" ELSE "notify"
    BY <1>4 DEF PumpClientSwap, pipes, pumpServerVars
  <2>2. CASE notifyPending = FALSE
    BY <2>1, <2>2 DEF FlagInv, Justified
  <2>3. CASE notifyPending = TRUE
    <3>1. Justified /\ cpc # "notify"
      BY <2>1, <2>3 DEF FlagInv
    <3>2. Told' = Told
      BY <2>1 DEF Told
    <3> QED
      BY <1>1, <2>1, <3>1, <3>2 DEF FlagInv, Justified
  <2> QED
    BY <2>2, <2>3 DEF FlagsOK
<1>5. CASE PumpClientNotify
  <2>1. clientIn' = Append(clientIn, ToolsListChanged) /\ clientIn \in Seq(Frames)
    BY <1>5, LinesTyped DEF PumpClientNotify
  <2>2. ToolsListChanged \in Frames /\ ToolsListChanged.type = "list_changed"
    BY NoticeTyped DEF ToolsListChanged, Frame
  <2>3. ToSet(clientIn') = ToSet(clientIn) \cup {ToolsListChanged}
    BY <2>1, <2>2, ToSetAppend
  <2>4. Told'
    BY <2>2, <2>3 DEF Told
  <2> QED
    BY <2>4 DEF FlagInv, Justified
<1>6. CASE PumpServerRead
  <2>1. UNCHANGED <<clientIn, notifyPending, cpc>> /\ spc = "read"
    BY <1>6 DEF PumpServerRead, pumpClientVars
  <2>2. Told' = Told
    BY <2>1 DEF Told
  <2> QED
    BY <1>1, <2>1, <2>2 DEF FlagInv, Justified
<1>7. CASE PumpServerPrune
  <2>1. UNCHANGED <<clientIn, notifyPending, cpc>> /\ spc = "prune"
    BY <1>7 DEF PumpServerPrune, pipes, pumpClientVars
  <2>2. Prunable(sline[sidx])
    BY <2>1 DEF Registered, PruneReady
  <2>3. PumpServerAdvance(TRUE) /\ Len(sline') = Len(sline)
    BY <1>7, <2>2, PruneChangesList DEF PumpServerPrune
  <2>4. schanged' = TRUE /\ spc' \in {"observe", "store"}
    BY <2>3 DEF PumpServerAdvance
  <2> QED
    BY <2>4 DEF FlagInv, Justified
<1>8. CASE PumpServerStore
  BY <1>8 DEF PumpServerStore, FlagInv
<1>9. CASE PumpServerWrite
  <2>1. UNCHANGED <<notifyPending, cpc>> /\ spc = "write" /\ clientIn' = clientIn \o sline
    BY <1>9 DEF PumpServerWrite, pumpClientVars
  <2>2. ToSet(clientIn') = ToSet(clientIn) \cup ToSet(sline)
    BY <2>1, LinesTyped, ToSetConcat
  <2>3. Told => Told'
    BY <2>2 DEF Told
  <2> QED
    BY <1>1, <2>1, <2>3 DEF FlagInv, Justified
<1> QED
  BY <1>3, <1>4, <1>5, <1>6, <1>7, <1>8, <1>9 DEF Quiet

LEMMA NextFlagInv ==
  ASSUME ListErrors = FALSE, PipeInv, PipeInv', HeldOnce, Finished, Registered, FlagsOK,
         FlagInv, [Next]_vars
  PROVE  FlagInv'
<1>1. CASE ClientStep
  <2>1. PICK line : ClientMoves(line)
    BY <1>1, ClientStepMoves
  <2>2. /\ UNCHANGED <<pendingLst, cline, cidx, serverIn, working>>
        /\ UNCHANGED <<cpc, spc, schanged, clientIn, notifyPending>>
        /\ stale' # stale => \E f \in ToSet(line) : f.type = "tools/list"
    BY <2>1 DEF ClientMoves, Numbered, sessionVars, serverVars, pumpClientVars,
                pumpServerVars
  <2>3. Unseen' = Unseen \cup ToSet(line)
    BY <2>1, <2>2, SendMoves DEF ClientMoves
  <2>4. Told' = Told /\ (ListAhead => ListAhead') /\ (stale' # stale => ListAhead')
    BY <2>2, <2>3 DEF Told, ListAhead
  <2> QED
    BY <2>2, <2>4 DEF FlagInv, Justified
<1>2. CASE ClientReceive
  <2>1. /\ ToSet(clientIn) = {Head(clientIn)} \cup ToSet(clientIn')
        /\ pendingLst' = pendingLst /\ Unseen' = Unseen
    BY <1>2, ReceiveKeeps
  <2>2. /\ stale' = (stale \/ Head(clientIn).type = "list_changed")
        /\ UNCHANGED <<cpc, spc, schanged, notifyPending>>
    BY <1>2 DEF ClientReceive, pumpClientVars, pumpServerVars
  <2>3. Told => Told' \/ stale'
    BY <2>1, <2>2 DEF Told
  <2>4. ListAhead' = ListAhead
    BY <2>1 DEF ListAhead
  <2> QED
    BY <2>1, <2>2, <2>3, <2>4 DEF FlagInv, Justified
<1>3. CASE PumpClientObserve
  <2> DEFINE f == cline[cidx]
  <2>1. /\ cpc = "observe" /\ ObserveClient(f)
        /\ UNCHANGED <<stale, spc, schanged, clientIn, notifyPending>>
    BY <1>3 DEF PumpClientObserve, clientVars, pipes, pumpServerVars
  <2>2. Unseen = Unseen' \cup {f}
    BY <1>3, ObserveMovesOne
  <2>3. pendingLst' = IF f.type = "tools/list" THEN WithId(pendingLst, f) ELSE pendingLst
    BY <2>1, ObserveRegisters
  <2>4. f.type = "tools/list" => pendingLst' # {}
    <3>1. SUFFICES ASSUME f.type = "tools/list" PROVE pendingLst' # {}
      OBVIOUS
    <3>2. f.id \in 1 .. nextId - 1 /\ nextId \in Nat
      BY <1>3, <3>1, ClientFrameAlone DEF Asks, HeldOnce, Apart
    <3>3. f.id # NoId
      BY <3>2 DEF NoId
    <3> QED
      BY <2>3, <3>1, <3>3 DEF WithId
  <2>5. pendingLst # {} => pendingLst' # {}
    BY <2>3 DEF WithId
  <2>6. ListAhead => ListAhead' \/ pendingLst' # {}
    BY <2>2, <2>4 DEF ListAhead
  <2>7. Told' = Told
    BY <2>1 DEF Told
  <2> QED
    BY <2>1, <2>5, <2>6, <2>7 DEF FlagInv, Justified
<1>4. CASE PumpServerObserve
  <2> DEFINE f == sline[sidx]
  <2>1. /\ spc = "observe" /\ ObserveServer(f)
        /\ UNCHANGED <<stale, cpc, clientIn, notifyPending>>
        /\ UNCHANGED <<cline, cidx, clientOut, serverIn, working>>
    BY <1>4 DEF PumpServerObserve, ObserveServerFrame, clientVars, serverVars, pipes,
                pumpClientVars
  <2>2. ListAhead' = ListAhead /\ Told' = Told
    BY <2>1, UpstreamUnchanged DEF ListAhead, Told
  <2>3. CASE IsToolsList(f)
    <3>1. spc' = "prune"
      BY <1>4, <2>3 DEF PumpServerObserve
    <3> QED
      BY <3>1 DEF FlagInv, Justified
  <2>4. CASE ~IsToolsList(f)
    <3>1. pendingLst' = pendingLst
      BY <2>1, <2>4 DEF ObserveServer
    <3>2. PumpServerAdvance(schanged)
      BY <1>4, <2>4 DEF PumpServerObserve
    <3>3. schanged' = schanged /\ (schanged = TRUE => spc' \in {"observe", "store"})
      BY <3>2 DEF PumpServerAdvance
    <3> QED
      BY <2>1, <2>2, <3>1, <3>3 DEF FlagInv, Justified
  <2> QED
    BY <2>3, <2>4
<1>5. CASE Quiet
  BY <1>5, QuietFlagInv
<1> QED
  BY <1>1, <1>2, <1>3, <1>4, <1>5, StepKinds

(* The flag that suppresses notifications is justified whenever it is set, *)
(* for any pages, batches and orders, when the server answers every        *)
(* tools/list with a list (proxy.go, maybeNotify and rewriteServerFrame).  *)
THEOREM FlagIsJustified == ASSUME ListErrors = FALSE PROVE Spec => []FlagJustified
<1>1. Init => FlagsOK /\ FlagInv
  BY DEF Init, FlagsOK, FlagInv
<1>2. RegisterInv /\ FlagsOK /\ FlagInv /\ [Next]_vars => FlagsOK' /\ FlagInv'
  BY NextFlagInv, NextFlagsOK, NextPipeInv DEF RegisterInv
<1>3. RegisterInv /\ FlagsOK /\ FlagInv => FlagJustified
  BY JustifiedSuffices DEF RegisterInv, FlagsOK
<1> QED
  BY <1>1, <1>2, <1>3, InitRegisterInv, NextRegisterInv, PTL DEF Spec

-----------------------------------------------------------------------------
(* The order in which the tools are ranked is one for every score.         *)
LEMMA RankOrderStrict ==
  ASSUME NEW page \in SUBSET Tools, NEW score \in [page -> Int]
  PROVE  StrictOrderOn(page, RankOrder(score))
<1> DEFINE before(x, y) ==
             \/ x \in Pinned /\ y \notin Pinned
             \/ /\ (x \in Pinned) <=> (y \in Pinned)
                /\ \/ score[x] > score[y]
                   \/ score[x] = score[y] /\ x < y
<1>1. \A x, y \in page : <<x, y>> \in RankOrder(score) <=> before(x, y)
  BY DEF RankOrder
<1>2. /\ \A x \in page : x \in Nat /\ score[x] \in Int
      /\ \A x \in page : (x \in Pinned) \in BOOLEAN
  BY PruneAssumption
<1>3. /\ \A x \in page : ~before(x, x)
      /\ \A x, y \in page : x # y => before(x, y) \/ before(y, x)
      /\ \A x, y, z \in page : before(x, y) /\ before(y, z) => before(x, z)
  BY <1>2
<1> HIDE DEF before
<1> QED
  BY <1>1, <1>3 DEF StrictOrderOn

(* The budget is spent: as many tools as TopN, or all there are.           *)
LEMMA BudgetSpent ==
  ASSUME NEW page \in SUBSET Tools, NEW score \in [page -> Int], TopN <= Cardinality(page)
  PROVE  WithinBudget(score) \subseteq page /\ Cardinality(WithinBudget(score)) = TopN
<1> DEFINE F == WithinBudget(score)
<1>1. IsFiniteSet(page) /\ TopN \in Nat
  BY PruneAssumption, FS_Subset
<1>2. Cardinality(page) \in Nat
  BY <1>1, FS_CardinalityType
<1>3. F = FirstN(page, RankOrder(score), TopN)
  BY DEF WithinBudget
<1>4. F \subseteq page
  BY <1>3 DEF FirstN
<1>5. StrictOrderOn(page, RankOrder(score))
  BY RankOrderStrict
<1>6. Cardinality(F) <= TopN /\ Cardinality(page \ F) <= Cardinality(page) - TopN
  BY <1>1, <1>3, <1>5, FirstNCardinality
<1> HIDE DEF F
<1>7. Cardinality(page \ F) = Cardinality(page) - Cardinality(page \cap F)
  BY <1>1, FS_Difference
<1>8. page \cap F = F
  BY <1>4
<1>9. Cardinality(page \cap F) = Cardinality(F)
  BY <1>8
<1>10. Cardinality(F) \in Nat
  BY <1>1, <1>4, FS_Subset, FS_CardinalityType
<1> QED
  BY <1>1, <1>2, <1>4, <1>6, <1>7, <1>9, <1>10 DEF F

(* Every page is one the pruner cuts, and cuts to the budget.              *)
LargePages ==
  /\ Enabled = TRUE /\ Pinned = {} /\ Shrinks = Tools /\ DropBelow = 0
  /\ \A p \in DOMAIN Pages :
       Cardinality(Pages[p]) > MinTools /\ Cardinality(Pages[p]) >= TopN

FullOf(list) == {t \in DOMAIN list : list[t] = "full"}

LEMMA CutToBudget ==
  ASSUME LargePages, NEW p \in DOMAIN Pages, NEW base \in BaseScores(Pages[p])
  PROVE  Cardinality(FullOf(PrunedList(Tiers(base)))) = TopN
<1> DEFINE page == Pages[p]
           score == Score(base, revealed, seq)
           list == PrunedList(Tiers(base))
<1>1. page \subseteq Tools /\ Cardinality(page) > MinTools /\ TopN <= Cardinality(page)
  BY ConstantsTyped DEF LargePages
<1>2. DOMAIN base = page /\ base \in [page -> Int] /\ RevealWeight \in Int
  BY PruneAssumption DEF BaseScores
<1>3. score \in [page -> Int] /\ DOMAIN score = page
  BY <1>2 DEF Score, RevealBonus
<1>4. ~PassThrough(page) /\ Pinned = {} /\ Shrinks = Tools /\ DropBelow = 0
  <2>1. MinTools \in Nat /\ Cardinality(page) \in Nat
    BY <1>1, PruneAssumption, FS_Subset, FS_CardinalityType
  <2> QED
    BY <1>1, <2>1 DEF PassThrough, LargePages
<1>5. Tiers(base) = Tier(score)
  BY DEF Tiers
<1> HIDE DEF score
<1>6. /\ DOMAIN Tier(score) = page
      /\ \A t \in page : Tier(score)[t] = IF t \in WithinBudget(score) THEN "full"
                                          ELSE "compressed"
  BY <1>1, <1>3, <1>4 DEF Tier
<1>7. list = [t \in page |-> Tier(score)[t]]
  BY <1>5, <1>6 DEF PrunedList, InTier
<1>8. WithinBudget(score) \subseteq page /\ Cardinality(WithinBudget(score)) = TopN
  BY <1>1, <1>3, BudgetSpent
<1>9. FullOf(list) = WithinBudget(score)
  BY <1>6, <1>7, <1>8 DEF FullOf
<1> QED
  BY <1>8, <1>9
-----------------------------------------------------------------------------
(* The lists on their way: whole until the pump has pruned them, cut to    *)
(* the budget from then on, if they are large.                             *)
Uncut == {sline[k] : k \in sidx .. Len(sline)} \cup FramesIn(serverOut)
Delivered == {sline[k] : k \in 1 .. sidx - 1} \cup ToSet(clientIn)

HoldsList(f) == f.type = "response" /\ DOMAIN f.list # {}
Whole(f) == HoldsList(f) => ~f.err /\ \E p \in DOMAIN Pages : f.list = FullList(Pages[p])
Cut(f) == LargePages /\ HoldsList(f) => Cardinality(FullOf(f.list)) = TopN

CutInv == (\A f \in Uncut : Whole(f)) /\ (\A f \in Delivered : Cut(f))

LEMMA UncutIsComing ==
  ASSUME spc # "prune"
  PROVE  Uncut = Coming /\ Delivered = Past
BY DEF Uncut, Coming, Delivered, Past, Reached

LEMMA PipesKeepCutInv ==
  ASSUME CutInv, UNCHANGED <<sline, sidx>>,
         \A f \in FramesIn(serverOut') : f \in FramesIn(serverOut) \/ Whole(f),
         \A f \in ToSet(clientIn') : f \in ToSet(clientIn) \/ Cut(f)
  PROVE  CutInv'
<1>1. \A f \in Uncut' : f \in Uncut \/ Whole(f)
  BY DEF Uncut
<1>2. \A f \in Delivered' : f \in Delivered \/ Cut(f)
  BY DEF Delivered
<1> QED
  BY <1>1, <1>2 DEF CutInv, Whole, Cut

LEMMA AnswerIsWhole ==
  ASSUME NEW r \in Sendable, NEW f \in Answer(r)
  PROVE  Whole(f)
<1>1. CASE r.type = "tools/list"
  <2>1. r.arg \in DOMAIN Pages
    BY <1>1 DEF Sendable
  <2>2. \/ f.list = FullList(Pages[r.arg]) /\ ~f.err
        \/ f.list = <<>>
    BY <1>1, AnswerIs
  <2>3. DOMAIN <<>> = {}
    OBVIOUS
  <2> QED
    BY <2>1, <2>2, <2>3 DEF Whole, HoldsList
<1>2. CASE r.type # "tools/list"
  <2>1. f.list = <<>>
    BY <1>2 DEF Answer, Response, Frame
  <2>2. DOMAIN <<>> = {}
    OBVIOUS
  <2> QED
    BY <2>1, <2>2 DEF Whole, HoldsList
<1> QED
  BY <1>1, <1>2

LEMMA EnvironmentKeepsCutInv ==
  ASSUME PipeInv, HeldOnce, CutInv,
         \/ ClientStep \/ ClientReceive \/ ServerRead \/ ServerAnswer \/ ServerAsk
         \/ PumpClient \/ UNCHANGED vars
  PROVE  CutInv'
<1>1. CASE ClientStep
  <2>1. UNCHANGED <<sline, sidx, serverOut, clientIn>>
    BY <1>1, ClientStepMoves DEF ClientMoves, pumpServerVars
  <2> QED
    BY <2>1, PipesKeepCutInv
<1>2. CASE ClientReceive
  <2>1. UNCHANGED <<sline, sidx, serverOut>>
    BY <1>2 DEF ClientReceive, pumpServerVars
  <2>2. ToSet(clientIn) = {Head(clientIn)} \cup ToSet(clientIn')
    BY <1>2, ReceiveKeeps
  <2> QED
    BY <2>1, <2>2, PipesKeepCutInv
<1>3. CASE ServerAnswer
  <2>1. UNCHANGED <<sline, sidx, clientIn>>
    BY <1>3 DEF ServerAnswer, pumpServerVars
  <2>2. PICK line \in Seq(Frames) \ {<<>>}, served \in SUBSET working :
          /\ serverOut' = Append(serverOut, line)
          /\ \A f \in ToSet(line) : \E r \in served : f \in Answer(r)
    BY <1>3, AnsweredLine
  <2>3. FramesIn(serverOut') = FramesIn(serverOut) \cup ToSet(line)
    BY <2>2, LinesTyped, FramesInAppend
  <2>4. \A f \in ToSet(line) : Whole(f)
    <3> TAKE f \in ToSet(line)
    <3>1. PICK r \in served : f \in Answer(r)
      BY <2>2
    <3>2. r \in Sendable
      BY DEF PipeInv, FramesOK
    <3> QED
      BY <3>1, <3>2, AnswerIsWhole
  <2> QED
    BY <2>1, <2>3, <2>4, PipesKeepCutInv
<1>4. CASE ServerAsk
  <2>1. UNCHANGED <<sline, sidx, clientIn>>
    BY <1>4 DEF ServerAsk, pumpServerVars
  <2>2. PICK id \in unasked :
          serverOut' = Append(serverOut, <<Request("sampling", id, NoTool)>>)
    BY <1>4 DEF ServerAsk
  <2> DEFINE f == Request("sampling", id, NoTool)
             line == <<f>>
  <2>3. f \in Frames /\ f.type = "sampling"
    BY FrameTyped, EmptyListTyped DEF Request, Frame, FrameTypes, NoTool, PipeInv, FramesOK
  <2>4. line \in Seq(Frames) /\ ToSet(line) = {f} /\ serverOut' = Append(serverOut, line)
    BY <2>2, <2>3 DEF ToSet
  <2> HIDE DEF f, line
  <2>5. FramesIn(serverOut') = FramesIn(serverOut) \cup ToSet(line)
    BY <2>4, LinesTyped, FramesInAppend
  <2>6. Whole(f)
    BY <2>3 DEF Whole, HoldsList
  <2> QED
    BY <2>1, <2>4, <2>5, <2>6, PipesKeepCutInv
<1>5. CASE PumpClientNotify
  <2>1. UNCHANGED <<sline, sidx, serverOut>> /\ clientIn' = Append(clientIn, ToolsListChanged)
    BY <1>5 DEF PumpClientNotify, pumpServerVars
  <2>2. ToolsListChanged \in Frames /\ Cut(ToolsListChanged)
    BY NoticeTyped DEF ToolsListChanged, Frame, Cut, HoldsList
  <2>3. ToSet(clientIn') = ToSet(clientIn) \cup {ToolsListChanged}
    BY <2>1, <2>2, LinesTyped, ToSetAppend
  <2> QED
    BY <2>1, <2>2, <2>3, PipesKeepCutInv
<1>6. CASE \/ PumpClientRead \/ PumpClientObserve \/ PumpClientForward
           \/ PumpClientCapability \/ PumpClientSwap \/ ServerRead \/ UNCHANGED vars
  <2>1. UNCHANGED <<sline, sidx, serverOut, clientIn>>
    BY <1>6 DEF PumpClientRead, PumpClientObserve, PumpClientForward,
                PumpClientCapability, PumpClientSwap, ServerRead, vars, pipes, pumpServerVars
  <2> QED
    BY <2>1, PipesKeepCutInv
<1> QED
  BY <1>1, <1>2, <1>3, <1>4, <1>5, <1>6 DEF PumpClient

LEMMA PumpServerKeepsCutInv ==
  ASSUME PipeInv, HeldOnce, Finished, Registered, CutInv, PumpServer
  PROVE  CutInv'
<1>1. CASE PumpServerRead \/ PumpServerStore \/ PumpServerWrite
  <2>1. spc # "prune" /\ spc' # "prune"
    BY <1>1 DEF PumpServerRead, PumpServerStore, PumpServerWrite
  <2>2. Coming' = Coming /\ Past' = Past
    <3>1. CASE PumpServerStore
      <4>1. UNCHANGED <<sline, sidx, serverOut, clientIn>>
        BY <3>1 DEF PumpServerStore, pipes
      <4> QED
        BY <2>1, <4>1, DownstreamUnchanged
    <3> QED
      BY <1>1, <3>1, ServerPumpReadMoves, WriteMoves
  <2>3. Uncut = Coming /\ Delivered = Past
    BY <2>1, UncutIsComing
  <2>4. Uncut' = Coming' /\ Delivered' = Past'
    BY <2>1 DEF Uncut, Coming, Delivered, Past, Reached
  <2> QED
    BY <2>2, <2>3, <2>4 DEF CutInv
<1>2. CASE PumpServerObserve
  <2> DEFINE f == sline[sidx]
  <2>1. /\ spc = "observe" /\ ObserveServer(f) /\ UNCHANGED <<sline, serverOut, clientIn>>
    BY <1>2 DEF PumpServerObserve, ObserveServerFrame, pipes
  <2>2. CASE IsToolsList(f)
    <3>1. UNCHANGED sidx
      BY <1>2, <2>2 DEF PumpServerObserve
    <3> QED
      BY <2>1, <3>1, PipesKeepCutInv
  <2>3. CASE ~IsToolsList(f)
    <3>1. spc' # "prune"
      BY <1>2, <2>3 DEF PumpServerObserve, PumpServerAdvance
    <3>2. Past' = Past \cup {f} /\ Coming = Coming' \cup {f}
      BY <1>2, ServerObserveMoves
    <3>3. Uncut = Coming /\ Delivered = Past
      BY <2>1, UncutIsComing
    <3>4. Uncut' = Coming' /\ Delivered' = Past'
      BY <3>1 DEF Uncut, Coming, Delivered, Past, Reached
    <3>5. ~HoldsList(f)
      <4>1. SUFFICES ASSUME HoldsList(f) PROVE IsToolsList(f)
        BY <2>3
      <4>2. f.type = "response" /\ f.id \in pendingLst
        BY <3>2, <4>1 DEF HoldsList, Registered, AnswersDue
      <4>3. f.id \in 1 .. nextId - 1 /\ nextId \in Nat
        BY <1>2, <4>2, ServerFrameAlone DEF HeldOnce, Apart
      <4>4. f.id # NoId
        BY <4>3 DEF NoId
      <4> QED
        BY <4>2, <4>4 DEF IsToolsList, Answers, Registered, KindsApart
    <3> QED
      BY <3>2, <3>3, <3>4, <3>5 DEF CutInv, Cut
  <2> QED
    BY <2>2, <2>3
<1>3. CASE PumpServerPrune
  <2> DEFINE f == sline[sidx]
  <2>1. /\ Len(sline') = Len(sline) /\ sidx \in 1 .. Len(sline) /\ Len(sline) \in Nat
        /\ sline \in Seq(Frames)
        /\ \A j \in 1 .. Len(sline) : j # sidx => sline'[j] = sline[j]
        /\ sline'[sidx].type = f.type /\ sline'[sidx].err = f.err
    BY <1>3, PruneChangesList, LinesTyped
  <2>2. sidx' = sidx + 1 /\ UNCHANGED <<serverOut, clientIn>>
    BY <1>3 DEF PumpServerPrune, PumpServerAdvance, pipes
  <2>3. \A k \in sidx + 1 .. Len(sline) :
          k \in 1 .. Len(sline) /\ k # sidx /\ k \in sidx .. Len(sline)
    BY <2>1
  <2>4. \A k \in 1 .. (sidx + 1) - 1 :
          k # sidx => k \in 1 .. sidx - 1 /\ k \in 1 .. Len(sline)
    BY <2>1
  <2>5. \A g \in Uncut' : g \in Uncut
    BY <2>1, <2>2, <2>3 DEF Uncut
  <2>6. \A g \in Delivered' : g \in Delivered \/ g = sline'[sidx]
    BY <2>1, <2>2, <2>4 DEF Delivered
  <2>7. f \in Uncut
    BY <2>1 DEF Uncut
  <2>8. Cut(sline'[sidx])
    <3>1. CASE Prunable(f)
      <4>1. PICK base \in BaseScores(DOMAIN f.list) :
              sline' = [sline EXCEPT ![sidx].list = PrunedList(Tiers(base))]
        BY <1>3, <3>1 DEF PumpServerPrune
      <4>2. f.type = "response"
        BY <1>3 DEF PumpServerPrune, Registered, PruneReady
      <4>3. PICK p \in DOMAIN Pages : f.list = FullList(Pages[p])
        BY <2>7, <3>1, <4>2 DEF CutInv, Whole, HoldsList, Prunable
      <4>4. DOMAIN f.list = Pages[p]
        BY <4>3 DEF FullList
      <4>5. LargePages => Cardinality(FullOf(PrunedList(Tiers(base)))) = TopN
        BY <4>1, <4>4, CutToBudget
      <4>6. f \in Frames /\ DOMAIN sline = 1 .. Len(sline)
        BY <2>1, LenProperties
      <4> HIDE DEF f
      <4>7. sline'[sidx].list = PrunedList(Tiers(base))
        BY <2>1, <4>1, <4>6 DEF Frames, f
      <4> QED
        BY <4>5, <4>7 DEF Cut
    <3>2. CASE ~Prunable(f)
      <4>1. sline' = sline
        BY <1>3, <3>2 DEF PumpServerPrune
      <4>2. ~HoldsList(f)
        BY <2>7, <3>2 DEF CutInv, Whole, Prunable, HoldsList
      <4> QED
        BY <4>1, <4>2 DEF Cut
    <3> QED
      BY <3>1, <3>2
  <2> QED
    BY <2>5, <2>6, <2>8 DEF CutInv, Whole, Cut
<1> QED
  BY <1>1, <1>2, <1>3 DEF PumpServer

LEMMA InitCutInv == Init => CutInv
<1> SUFFICES ASSUME Init PROVE CutInv
  OBVIOUS
<1>1. Len(sline) = 0 /\ sidx = 1
  BY DEF Init
<1>2. sidx .. Len(sline) = {} /\ 1 .. sidx - 1 = {}
  BY <1>1
<1>3. Uncut = {} /\ Delivered = {}
  BY <1>2, ToSetEmpty DEF Init, Uncut, Delivered
<1> QED
  BY <1>3 DEF CutInv

LEMMA NextCutInv == RegisterInv /\ CutInv /\ [Next]_vars => CutInv'
BY EnvironmentKeepsCutInv, PumpServerKeepsCutInv DEF RegisterInv, Next, ClientStep

(* Every list the client receives is cut to the budget, whatever the order *)
(* in which requests and answers cross: none overtakes the registration of *)
(* its request, none is taken for the answer to another one                *)
(* (session.go, ObserveServer; proxy.go, rewriteServerFrame).              *)
THEOREM ListsAreCut == ASSUME LargePages PROVE Spec => []ListsArePruned
<1>1. LargePages /\ CutInv => ListsArePruned
  BY DEF CutInv, Delivered, Cut, HoldsList, FullOf, ListsArePruned
<1> QED
  BY <1>1, InitCutInv, NextCutInv, InitRegisterInv, NextRegisterInv, PTL DEF Spec

-----------------------------------------------------------------------------
(* The client's view of the tools is one of forms.                         *)
Forms == {"unknown", "full", "compressed"}
ViewOK == view \in [Tools -> Forms]

LEMMA NextViewOK == PipeInv /\ ViewOK /\ [Next]_vars => ViewOK'
<1> SUFFICES ASSUME PipeInv, ViewOK, [Next]_vars PROVE ViewOK'
  OBVIOUS
<1>1. CASE view' = view
  BY <1>1 DEF ViewOK
<1>2. CASE ClientReceive
  <2> DEFINE f == Head(clientIn)
  <2>1. f \in Frames
    <3>1. clientIn # <<>> /\ clientIn \in Seq(Frames)
      BY <1>2, ReceiveKeeps
    <3> QED
      BY <3>1, HeadTailProperties
  <2>2. view' = view \/ \E page : view' = Seen(page, f.list)
    BY <1>2 DEF ClientReceive
  <2>3. ASSUME NEW page PROVE Seen(page, f.list) \in [Tools -> Forms]
    <3>1. \A t \in DOMAIN f.list : f.list[t] \in Forms
      BY <2>1 DEF Frames, Lists, Forms
    <3> HIDE DEF f
    <3> QED
      BY <3>1 DEF Seen, ViewOK, Forms
  <2> QED
    BY <2>2, <2>3 DEF ViewOK
<1>3. ClientReceive \/ view' = view
  BY DEF Next, ClientInitialize, ClientRequest, ClientRefresh, ClientNextPage, ClientSend,
         ClientCancel, ClientAnswer, ServerRead, ServerAnswer, ServerAsk, PumpClient,
         PumpClientRead, PumpClientObserve, PumpClientForward, PumpClientCapability,
         PumpClientSwap, PumpClientNotify, PumpServer, PumpServerRead, PumpServerObserve,
         PumpServerPrune, PumpServerStore, PumpServerWrite, vars, clientVars
<1> QED
  BY <1>1, <1>2, <1>3

(* The proxy's state is well typed: every line in a pipe is made of frames *)
(* a program can send, a pump looks only at frames of the line it holds,   *)
(* and no entry of the reveal set lies ahead of the counter.               *)
THEOREM ProxyTypeCorrect == ASSUME AnyId PROVE Spec => []TypeOK
<1>1. Init => FlagsOK /\ ViewOK
  BY DEF Init, FlagsOK, ViewOK, Forms
<1>2. SessionTypeOK /\ PipeInv /\ FlagsOK /\ ViewOK => TypeOK
  BY DEF TypeOK, PipeInv, ViewOK, Forms
<1> QED
  BY <1>1, <1>2, InitPipeInv, NextPipeInv, NextFlagsOK, NextViewOK, ProxyRunsSession,
     SessionTypeCorrect, PTL DEF Spec

-----------------------------------------------------------------------------
(* What the client waits for, when it cancels nothing: every request on    *)
(* its way, and every answer on its way back, is to one it waits for; only *)
(* a request for a list is answered with one, and it is answered with one, *)
(* or with an error, unless the pruner drops tools.                        *)

HoldsOne(f) == DOMAIN f.list # {}

Fits(r, f) ==
  /\ r.id = f.id
  /\ HoldsOne(f) => r.type = "tools/list" /\ ~f.err
  /\ DropBelow = 0 /\ r.type = "tools/list" /\ ~f.err => HoldsOne(f)

Expected(f) == f.type = "response" => \E r \in asked : Fits(r, f)

Expecting ==
  /\ \A r \in asked : r.type \in Asks /\ r.id \in 1 .. nextId - 1
  /\ \A r, s \in asked : r.id = s.id => r = s
  /\ \A f \in Observed \cup Unseen : f.type \in Asks => f \in asked
  /\ \A f \in Coming \cup Past : Expected(f)

(* The steps that pass frames on, and change none.                         *)
Passing ==
  \/ PumpClientRead \/ PumpClientObserve \/ PumpClientForward \/ PumpClientCapability
  \/ PumpClientSwap \/ PumpClientNotify \/ ServerRead \/ ServerAsk
  \/ PumpServerRead \/ PumpServerObserve \/ PumpServerStore \/ PumpServerWrite
  \/ UNCHANGED vars

LEMMA AllSteps ==
  ASSUME [Next]_vars
  PROVE  ClientStep \/ ClientReceive \/ ServerAnswer \/ PumpServerPrune \/ Passing
BY DEF Next, ClientStep, PumpClient, PumpServer, Passing

LEMMA PassingUpstream ==
  ASSUME PipeInv, Finished, Passing
  PROVE  UNCHANGED <<asked, nextId, view>> /\ Observed' \cup Unseen' \subseteq Observed \cup Unseen
<1>1. UNCHANGED <<asked, nextId, view>>
  BY DEF Passing, PumpClientRead, PumpClientObserve, PumpClientForward, PumpClientCapability,
         PumpClientSwap, PumpClientNotify, ServerRead, ServerAsk, PumpServerRead,
         PumpServerObserve, PumpServerStore, PumpServerWrite, vars, clientVars
<1>2. ASSUME PumpClientRead \/ PumpClientForward \/ PumpClientObserve \/ ServerRead \/ ServerAsk
      PROVE  Observed' \cup Unseen' \subseteq Observed \cup Unseen
  BY <1>2, ReadKeepsSeen, ForwardKeepsSeen, ObserveMovesOne, ServerKeepsSeen
<1>3. ASSUME \/ PumpClientCapability \/ PumpClientSwap \/ PumpClientNotify \/ PumpServerRead
             \/ PumpServerObserve \/ PumpServerStore \/ PumpServerWrite \/ UNCHANGED vars
      PROVE  Observed' \cup Unseen' \subseteq Observed \cup Unseen
  <2>1. UNCHANGED <<cline, cidx, clientOut, serverIn, working>>
    BY <1>3 DEF PumpClientCapability, PumpClientSwap, PumpClientNotify, PumpServerRead,
                PumpServerObserve, PumpServerStore, PumpServerWrite, vars, serverVars, pipes,
                pumpClientVars
  <2> QED
    BY <2>1, UpstreamUnchanged
<1> QED
  BY <1>1, <1>2, <1>3 DEF Passing

LEMMA PassingDownstream ==
  ASSUME PipeInv, Finished, Passing
  PROVE  \A f \in Coming' \cup Past' : f \in Coming \cup Past \/ f.type # "response"
<1>1. ASSUME PumpServerRead \/ PumpServerWrite \/ PumpServerObserve
      PROVE  Coming' \cup Past' = Coming \cup Past
  BY <1>1, ServerPumpReadMoves, WriteMoves, ServerObserveMoves
<1>2. ASSUME PumpClientNotify
      PROVE  \A f \in Coming' \cup Past' : f \in Coming \cup Past \/ f.type # "response"
  <2>1. clientIn' = Append(clientIn, ToolsListChanged) /\ UNCHANGED <<spc, sline, sidx, serverOut>>
    BY <1>2 DEF PumpClientNotify, pumpServerVars
  <2>2. ToSet(clientIn') = ToSet(clientIn) \cup {ToolsListChanged}
    BY <2>1, LinesTyped, NoticeTyped, ToSetAppend
  <2>3. ToolsListChanged.type # "response"
    BY DEF ToolsListChanged, Frame
  <2>4. Reached' = Reached
    BY <2>1 DEF Reached
  <2>5. Coming' = Coming /\ Past' = Past \cup {ToolsListChanged}
    BY <2>1, <2>2, <2>4 DEF Coming, Past
  <2> QED
    BY <2>3, <2>5
<1>3. ASSUME ServerAsk
      PROVE  \A f \in Coming' \cup Past' : f \in Coming \cup Past \/ f.type # "response"
  <2>1. UNCHANGED <<spc, sline, sidx, clientIn>>
    BY <1>3 DEF ServerAsk, pumpServerVars
  <2>2. PICK id \in unasked :
          serverOut' = Append(serverOut, <<Request("sampling", id, NoTool)>>)
    BY <1>3 DEF ServerAsk
  <2> DEFINE f == Request("sampling", id, NoTool)
             line == <<f>>
  <2>3. f \in Frames /\ f.type = "sampling"
    BY FrameTyped, EmptyListTyped DEF Request, Frame, FrameTypes, NoTool, PipeInv, FramesOK
  <2>4. line \in Seq(Frames) /\ ToSet(line) = {f} /\ serverOut' = Append(serverOut, line)
    BY <2>2, <2>3 DEF ToSet
  <2> HIDE DEF f, line
  <2>5. Coming' = Coming \cup {f} /\ Past' = Past
    BY <2>1, <2>4, ServerSendMoves
  <2> QED
    BY <2>3, <2>5
<1>4. ASSUME \/ PumpClientRead \/ PumpClientObserve \/ PumpClientForward
             \/ PumpClientCapability \/ PumpClientSwap \/ ServerRead \/ PumpServerStore
             \/ UNCHANGED vars
      PROVE  Coming' = Coming /\ Past' = Past
  <2>1. UNCHANGED <<sline, sidx, serverOut, clientIn>>
    BY <1>4 DEF PumpClientRead, PumpClientObserve, PumpClientForward, PumpClientCapability,
                PumpClientSwap, ServerRead, PumpServerStore, vars, pipes, pumpServerVars
  <2>2. spc' = spc \/ (spc = "store" /\ spc' = "write")
    BY <1>4 DEF PumpClientRead, PumpClientObserve, PumpClientForward, PumpClientCapability,
                PumpClientSwap, ServerRead, PumpServerStore, vars, pipes, pumpServerVars
  <2> QED
    BY <2>1, <2>2, DownstreamUnchanged
<1> QED
  BY <1>1, <1>2, <1>3, <1>4 DEF Passing

LEMMA PassingExpecting ==
  ASSUME PipeInv, Finished, Expecting, Passing
  PROVE  Expecting'
<1>1. UNCHANGED <<asked, nextId>>
  BY PassingUpstream
<1>2. \A f \in (Observed \cup Unseen)' : f.type \in Asks => f \in asked'
  BY <1>1, PassingUpstream DEF Expecting
<1>3. ASSUME NEW f \in (Coming \cup Past)'
      PROVE  f.type = "response" => \E r \in asked' : Fits(r, f)
  <2>1. f \in Coming \cup Past \/ f.type # "response"
    BY PassingDownstream
  <2> QED
    BY <1>1, <2>1 DEF Expecting, Expected
<1>4. \A f \in (Coming \cup Past)' : Expected(f)'
  BY <1>3 DEF Expected, Fits, HoldsOne
<1> QED
  BY <1>1, <1>2, <1>4 DEF Expecting

LEMMA ClientExpecting ==
  ASSUME Cancels = FALSE, PipeInv, PipeInv', HeldOnce, Expecting, ClientStep
  PROVE  Expecting'
<1>1. PICK line : ClientMoves(line)
  BY ClientStepMoves
<1>2. /\ UNCHANGED <<cline, cidx, serverIn, working, spc, sline, sidx, serverOut, clientIn>>
      /\ nextId \in Nat /\ nextId > 0 /\ nextId' \in Nat /\ nextId <= nextId'
  BY <1>1 DEF ClientMoves, serverVars, pumpClientVars, pumpServerVars, HeldOnce, Apart
<1>3. Observed' = Observed /\ Unseen' = Unseen \cup ToSet(line)
  BY <1>1, <1>2, SendMoves DEF ClientMoves
<1>4. Coming' = Coming /\ Past' = Past
  BY <1>2, DownstreamUnchanged
<1> DEFINE new == {f \in ToSet(line) : f.type \in Asks}
<1>5. /\ asked \subseteq asked' /\ new \subseteq asked' /\ asked' \subseteq asked \cup new
      /\ Distinct(Asks, line) /\ \A f \in new : f.id \in nextId .. nextId' - 1
  BY <1>1 DEF ClientMoves, Numbered, IdsAmong
<1>6. \A r, s \in new : r.id = s.id => r = s
  BY <1>5 DEF Distinct, ToSet
<1>7. /\ \A r \in asked : r.type \in Asks /\ r.id \in 1 .. nextId - 1
      /\ \A r, s \in asked : r.id = s.id => r = s
  BY DEF Expecting
<1>8. \A r \in new : r.type \in Asks
  OBVIOUS
<1>9. /\ 1 .. nextId - 1 \subseteq 1 .. nextId' - 1
      /\ nextId .. nextId' - 1 \subseteq 1 .. nextId' - 1
      /\ (1 .. nextId - 1) \cap (nextId .. nextId' - 1) = {}
  BY <1>2, IdIntervals
<1>10. \A f \in (Observed \cup Unseen)' : f.type \in Asks => f \in asked'
  BY <1>3, <1>5 DEF Expecting
<1> HIDE DEF new
<1>11. \A r \in asked' : r.type \in Asks /\ r.id \in 1 .. nextId' - 1
  BY <1>5, <1>7, <1>8, <1>9
<1>12. \A r, s \in asked' : r.id = s.id => r = s
  <2> SUFFICES ASSUME NEW r \in asked', NEW s \in asked', r.id = s.id PROVE r = s
    OBVIOUS
  <2>1. r \in asked \cup new /\ s \in asked \cup new
    BY <1>5
  <2> QED
    BY <1>5, <1>6, <1>7, <1>9, <2>1
<1>13. \A f \in (Coming \cup Past)' : Expected(f)'
  BY <1>4, <1>5 DEF Expecting, Expected, Fits, HoldsOne
<1> QED
  BY <1>10, <1>11, <1>12, <1>13 DEF Expecting

(* Every answer the server makes is the one the client waits for.          *)
LEMMA AnswerExpecting ==
  ASSUME PipeInv, HeldOnce, Expecting, ServerAnswer
  PROVE  Expecting'
<1>1. PICK line \in Seq(Frames) \ {<<>>}, served \in SUBSET working :
        /\ working' = working \ served
        /\ serverOut' = Append(serverOut, line)
        /\ \A f \in ToSet(line) : \E r \in served : f \in Answer(r)
  BY AnsweredLine
<1>2. UNCHANGED <<asked, nextId, spc, sline, sidx, clientIn>>
  BY DEF ServerAnswer, clientVars, pumpServerVars
<1>3. Observed' \subseteq Observed /\ Unseen' = Unseen
  BY ServerKeepsSeen
<1>4. Coming' = Coming \cup ToSet(line) /\ Past' = Past
  BY <1>1, <1>2, ServerSendMoves
<1>5. ASSUME NEW f \in ToSet(line) PROVE Expected(f)
  <2>1. PICK r \in served : f \in Answer(r)
    BY <1>1
  <2>2. r \in working /\ r.type \in Asks /\ r \in Observed
    BY DEF Observed, HeldOnce, Alone
  <2>3. r \in asked
    BY <2>2 DEF Expecting
  <2>4. f.id = r.id
    BY <2>1, AnswerIs
  <2>5. DOMAIN <<>> = {}
    OBVIOUS
  <2>6. CASE r.type = "tools/list"
    <3>1. \/ f.list = FullList(Pages[r.arg]) /\ ~f.err
          \/ f.list = <<>> /\ f.err
      BY <2>1, <2>6, AnswerIs
    <3>2. DOMAIN FullList(Pages[r.arg]) # {}
      <4>1. r.arg \in DOMAIN Pages
        BY <2>2, <2>6 DEF Sendable, PipeInv, FramesOK
      <4>2. Pages[r.arg] # {}
        BY <4>1, ProxyAssumption, ElementOfSeq, LenProperties
      <4> QED
        BY <4>2 DEF FullList
    <3>3. HoldsOne(f) <=> ~f.err
      BY <2>5, <3>1, <3>2 DEF HoldsOne
    <3> QED
      BY <2>3, <2>4, <2>6, <3>3 DEF Expected, Fits
  <2>7. CASE r.type # "tools/list"
    <3>1. f.list = <<>>
      BY <2>1, <2>7 DEF Answer, Response, Frame
    <3>2. ~HoldsOne(f)
      BY <2>5, <3>1 DEF HoldsOne
    <3> QED
      BY <2>3, <2>4, <2>7, <3>2 DEF Expected, Fits
  <2> QED
    BY <2>6, <2>7
<1>6. \A f \in (Coming \cup Past)' : Expected(f)'
  BY <1>2, <1>4, <1>5 DEF Expecting, Expected, Fits, HoldsOne
<1> QED
  BY <1>2, <1>3, <1>6 DEF Expecting

(* Pruning adds no tool to a list; a pruner that drops nothing keeps all.  *)
LEMMA NothingDropped ==
  ASSUME NEW page, NEW base \in BaseScores(page)
  PROVE  /\ DOMAIN PrunedList(Tiers(base)) \subseteq page
         /\ DropBelow = 0 => DOMAIN PrunedList(Tiers(base)) = page
<1>1. DOMAIN base = page
  BY DEF BaseScores
<1>2. DOMAIN Score(base, revealed, seq) = page
  BY <1>1 DEF Score
<1> DEFINE tier == Tiers(base)
<1>3. DOMAIN tier = page /\ (DropBelow = 0 => \A t \in page : tier[t] \in {"full", "compressed"})
  BY <1>2 DEF Tiers, Tier
<1> HIDE DEF tier
<1>4. DOMAIN PrunedList(tier) = DOMAIN tier \ InTier(tier, "dropped")
  BY DEF PrunedList
<1>5. DropBelow = 0 => InTier(tier, "dropped") = {}
  BY <1>3 DEF InTier
<1>6. DOMAIN PrunedList(tier) \subseteq page /\ (DropBelow = 0 => DOMAIN PrunedList(tier) = page)
  BY <1>3, <1>4, <1>5
<1> QED
  BY <1>6 DEF tier

LEMMA PruneExpecting ==
  ASSUME PipeInv, Expecting, PumpServerPrune
  PROVE  Expecting'
<1>1. /\ UNCHANGED <<asked, nextId, cline, cidx, clientOut, serverIn, working, serverOut, clientIn>>
      /\ spc = "prune" /\ spc' # "prune" /\ sidx' = sidx + 1
  BY DEF PumpServerPrune, PumpServerAdvance, clientVars, serverVars, pipes, pumpClientVars
<1>2. /\ Len(sline') = Len(sline) /\ sidx \in 1 .. Len(sline) /\ Len(sline) \in Nat
      /\ sline \in Seq(Frames)
      /\ \A j \in 1 .. Len(sline) :
           /\ sline'[j].type = sline[j].type /\ sline'[j].id = sline[j].id
           /\ sline'[j].err = sline[j].err
           /\ j # sidx => sline'[j] = sline[j]
  BY PruneChangesList, LinesTyped
<1>3. Observed' = Observed /\ Unseen' = Unseen
  BY <1>1, UpstreamUnchanged
<1>4. /\ HoldsOne(sline'[sidx]) => HoldsOne(sline[sidx])
      /\ DropBelow = 0 /\ HoldsOne(sline[sidx]) => HoldsOne(sline'[sidx])
  <2>1. \/ sline' = sline
        \/ \E base \in BaseScores(DOMAIN sline[sidx].list) :
             Prunable(sline[sidx]) /\ sline'[sidx].list = PrunedList(Tiers(base))
    BY PruneChangesList
  <2> QED
    BY <2>1, NothingDropped DEF HoldsOne
<1>5. Coming' = Coming
  BY PruneMoves
<1>6. Reached = sidx + 1 /\ Reached' = sidx + 1
  BY <1>1 DEF Reached
<1>7. \A k \in 1 .. (sidx + 1) - 1 : k \in 1 .. Len(sline)
  BY <1>2
<1>8. ASSUME NEW f \in Past' PROVE Expected(f)
  <2>1. CASE f \in ToSet(clientIn)
    BY <2>1 DEF Expecting, Past
  <2>2. CASE f \notin ToSet(clientIn)
    <3>1. PICK k \in 1 .. (sidx + 1) - 1 : f = sline'[k]
      BY <1>1, <1>6, <2>2 DEF Past
    <3>2. Expected(sline[k])
      BY <1>6, <3>1 DEF Expecting, Past
    <3>3. /\ f.type = sline[k].type /\ f.id = sline[k].id /\ f.err = sline[k].err
          /\ HoldsOne(f) => HoldsOne(sline[k])
          /\ DropBelow = 0 /\ HoldsOne(sline[k]) => HoldsOne(f)
      BY <1>2, <1>4, <1>7, <3>1
    <3> QED
      BY <3>2, <3>3 DEF Expected, Fits
  <2> QED
    BY <2>1, <2>2
<1>9. \A f \in (Coming \cup Past)' : Expected(f)'
  BY <1>1, <1>5, <1>8 DEF Expecting, Expected, Fits, HoldsOne
<1> QED
  BY <1>1, <1>3, <1>9 DEF Expecting

(* The answer the client takes is the only one with its id.                *)
LEMMA HeadAlone ==
  ASSUME PipeInv, HeldOnce, ClientReceive, Head(clientIn).type = "response"
  PROVE  /\ Head(clientIn).id \notin IdsAmong(Asks, Observed \cup Unseen)
         /\ Head(clientIn).id \notin IdsAmong(Says, Coming' \cup Past')
<1> DEFINE f == Head(clientIn)
<1>1. /\ clientIn # <<>> /\ clientIn \in Seq(Frames) /\ clientIn' = Tail(clientIn)
      /\ ToSet(clientIn) = {f} \cup ToSet(clientIn')
  BY ReceiveKeeps
<1>2. UNCHANGED <<spc, sline, sidx, serverOut>>
  BY DEF ClientReceive, pumpServerVars
<1>3. f.id \in IdsAmong(Says, ToSet(clientIn)) /\ f \in Past
  BY <1>1 DEF IdsAmong, Says, Past
<1>4. f.id \in IdsAmong(Says, Coming \cup Past)
  BY <1>3 DEF IdsAmong, Says
<1>5. f.id \notin IdsAmong(Asks, Observed \cup Unseen)
  BY <1>4, SidesApart
<1>6. f.id \notin IdsAmong(Says, ToSet(clientIn'))
  <2>1. IdsAmong(Says, {f}) \cap IdsAmong(Says, ToSet(Tail(clientIn))) = {}
    BY <1>1, DistinctPop DEF HeldOnce, Alone
  <2>2. f.id \in IdsAmong(Says, {f})
    BY DEF IdsAmong, Says
  <2> QED
    BY <1>1, <2>1, <2>2
<1>7. f.id \notin Held["line"] /\ f.id \notin Held["answered"]
  <2>1. f.id \in Held["back"]
    BY <1>3 DEF Held
  <2> QED
    BY <2>1 DEF HeldOnce, Apart, Places
<1>8. Reached' = Reached
  BY <1>2 DEF Reached
<1> DEFINE seen == {sline[k] : k \in 1 .. Reached - 1}
<1>9. Coming' = Coming /\ Past = seen \cup ToSet(clientIn) /\ Past' = seen \cup ToSet(clientIn')
  BY <1>2, <1>8 DEF Coming, Past
<1>10. IdsAmong(Says, Coming) \subseteq Held["line"] \cup Held["answered"]
  BY PlacesOf
<1>11. IdsAmong(Says, seen) \subseteq Held["line"]
  <2>1. /\ sline \in Seq(Frames) /\ Len(sline) \in Nat
        /\ sidx \in 1 .. Len(sline) + 1 /\ (spc = "prune" => sidx <= Len(sline))
    BY LinesTyped, LenProperties DEF PipeInv, ControlOK
  <2>2. 1 .. Reached - 1 \subseteq 1 .. Len(sline)
    BY <2>1 DEF Reached
  <2>3. seen \subseteq ToSet(sline)
    BY <2>1, <2>2, ToSetTyped
  <2> QED
    BY <2>3 DEF IdsAmong, Held
<1> HIDE DEF f, seen
<1>12. IdsAmong(Says, Coming' \cup Past')
         = IdsAmong(Says, Coming) \cup IdsAmong(Says, seen \cup ToSet(clientIn'))
  BY <1>9, IdsAmongUnion
<1>13. IdsAmong(Says, seen \cup ToSet(clientIn'))
         = IdsAmong(Says, seen) \cup IdsAmong(Says, ToSet(clientIn'))
  BY IdsAmongUnion
<1>14. f.id \notin IdsAmong(Says, Coming' \cup Past')
  BY <1>6, <1>7, <1>10, <1>11, <1>12, <1>13
<1> QED
  BY <1>5, <1>14 DEF f

LEMMA ReceiveExpecting ==
  ASSUME PipeInv, HeldOnce, Expecting, ClientReceive
  PROVE  Expecting'
<1> DEFINE f == Head(clientIn)
<1>1. /\ ToSet(clientIn) = {f} \cup ToSet(clientIn')
      /\ Observed' = Observed /\ Unseen' = Unseen
  BY ReceiveKeeps
<1>2. /\ UNCHANGED <<nextId, spc, sline, sidx, serverOut>>
      /\ asked' = {r \in asked : ~(f.type = "response" /\ r.id = f.id)}
  BY DEF ClientReceive, pumpServerVars
<1>3. Coming' = Coming /\ Past' \subseteq Past
  <2>1. Reached' = Reached
    BY <1>2 DEF Reached
  <2> QED
    BY <1>1, <1>2, <2>1 DEF Coming, Past
<1>4. CASE f.type # "response"
  <2>1. asked' = asked
    BY <1>2, <1>4
  <2>2. \A g \in (Coming \cup Past)' : Expected(g)'
    BY <1>3, <2>1 DEF Expecting, Expected, Fits, HoldsOne
  <2> QED
    BY <1>1, <1>2, <2>1, <2>2 DEF Expecting
<1>5. CASE f.type = "response"
  <2>1. /\ f.id \notin IdsAmong(Asks, Observed \cup Unseen)
        /\ f.id \notin IdsAmong(Says, Coming' \cup Past')
    BY <1>5, HeadAlone
  <2> HIDE DEF f
  <2>2. asked' = {r \in asked : r.id # f.id}
    BY <1>2, <1>5
  <2>3. \A g \in (Observed \cup Unseen)' : g.type \in Asks => g \in asked'
    BY <1>1, <2>1, <2>2 DEF Expecting, IdsAmong
  <2>4. \A g \in (Coming \cup Past)' : g.type = "response" => g.id # f.id
    BY <2>1 DEF IdsAmong, Says
  <2>5. \A g \in (Coming \cup Past)' : Expected(g)
    BY <1>3 DEF Expecting
  <2>6. \A g \in (Coming \cup Past)' : Expected(g)'
    BY <2>2, <2>4, <2>5 DEF Expected, Fits, HoldsOne
  <2> QED
    BY <1>2, <2>2, <2>3, <2>6 DEF Expecting
<1> QED
  BY <1>4, <1>5

LEMMA NextExpecting ==
  ASSUME Cancels = FALSE, PipeInv, PipeInv', HeldOnce, Finished, Expecting,
         [Next]_vars
  PROVE  Expecting'
BY AllSteps, PassingExpecting, ClientExpecting, AnswerExpecting, PruneExpecting, ReceiveExpecting

-----------------------------------------------------------------------------
(* The newest list of a sequence of frames.                                *)

NoList(s) == \A k \in 1 .. Len(s) : ~HoldsList(s[k])

Newest(s, f) ==
  \E k \in 1 .. Len(s) :
    f = s[k] /\ HoldsList(f) /\ \A j \in k + 1 .. Len(s) : ~HoldsList(s[j])

LEMMA NewestConcat ==
  ASSUME NEW S, NEW s \in Seq(S), NEW t \in Seq(S)
  PROVE  /\ NoList(s \o t) <=> NoList(s) /\ NoList(t)
         /\ \A f : Newest(s \o t, f) <=> (Newest(t, f) \/ (NoList(t) /\ Newest(s, f)))
<1> DEFINE m == Len(s)
           n == Len(t)
           u == s \o t
<1>1. /\ m \in Nat /\ n \in Nat /\ Len(u) = m + n
      /\ \A i \in 1 .. m + n : u[i] = IF i <= m THEN s[i] ELSE t[i - m]
  BY ConcatProperties, LenProperties
<1> HIDE DEF m, n, u
<1>2. \A i \in 1 .. m : i \in 1 .. m + n /\ u[i] = s[i]
  BY <1>1
<1>3. \A i \in 1 .. n : m + i \in 1 .. m + n /\ u[m + i] = t[i]
  <2> SUFFICES ASSUME NEW i \in 1 .. n PROVE m + i \in 1 .. m + n /\ u[m + i] = t[i]
    OBVIOUS
  <2>1. m + i \in 1 .. m + n /\ ~(m + i <= m) /\ (m + i) - m = i
    BY <1>1
  <2> QED
    BY <1>1, <2>1
<1>4. \A i \in 1 .. m + n : i \in 1 .. m \/ \E l \in 1 .. n : i = m + l
  <2> SUFFICES ASSUME NEW i \in 1 .. m + n, i \notin 1 .. m PROVE \E l \in 1 .. n : i = m + l
    OBVIOUS
  <2>1. i - m \in 1 .. n /\ i = m + (i - m)
    BY <1>1
  <2> QED
    BY <2>1
<1>5. NoList(u) <=> NoList(s) /\ NoList(t)
  BY <1>1, <1>2, <1>3, <1>4 DEF NoList, m, n
<1>6. ASSUME NEW f, Newest(u, f) PROVE Newest(t, f) \/ (NoList(t) /\ Newest(s, f))
  <2>1. PICK k \in 1 .. m + n :
          f = u[k] /\ HoldsList(f) /\ \A j \in k + 1 .. m + n : ~HoldsList(u[j])
    BY <1>1, <1>6 DEF Newest
  <2>2. CASE k \in 1 .. m
    <3>1. \A j \in k + 1 .. m : j \in 1 .. m /\ j \in k + 1 .. m + n
      BY <1>1, <2>2
    <3>2. \A l \in 1 .. n : m + l \in k + 1 .. m + n
      BY <1>1, <2>2
    <3>3. NoList(t)
      BY <1>3, <2>1, <3>2 DEF NoList, n
    <3>4. f = s[k] /\ \A j \in k + 1 .. m : ~HoldsList(s[j])
      BY <1>2, <2>1, <2>2, <3>1
    <3>5. Newest(s, f)
      BY <2>1, <2>2, <3>4 DEF Newest, m
    <3> QED
      BY <3>3, <3>5
  <2>3. CASE k \notin 1 .. m
    <3>1. PICK l \in 1 .. n : k = m + l
      BY <1>4, <2>3
    <3>2. \A j \in l + 1 .. n : j \in 1 .. n /\ m + j \in k + 1 .. m + n
      BY <1>1, <3>1
    <3>3. f = t[l] /\ \A j \in l + 1 .. n : ~HoldsList(t[j])
      BY <1>3, <2>1, <3>1, <3>2
    <3> QED
      BY <2>1, <3>3 DEF Newest, n
  <2> QED
    BY <2>2, <2>3
<1>7. ASSUME NEW f, Newest(t, f) PROVE Newest(u, f)
  <2>1. PICK l \in 1 .. n : f = t[l] /\ HoldsList(f) /\ \A j \in l + 1 .. n : ~HoldsList(t[j])
    BY <1>7 DEF Newest, n
  <2>2. ASSUME NEW j \in (m + l) + 1 .. m + n PROVE ~HoldsList(u[j])
    <3>1. PICK i \in 1 .. n : j = m + i
      <4>1. j \in 1 .. m + n /\ j \notin 1 .. m
        BY <1>1
      <4> QED
        BY <1>4, <4>1
    <3>2. i \in l + 1 .. n
      BY <1>1, <3>1
    <3> QED
      BY <1>3, <2>1, <3>1, <3>2
  <2>3. m + l \in 1 .. m + n /\ f = u[m + l]
    BY <1>3, <2>1
  <2> QED
    BY <1>1, <2>1, <2>2, <2>3 DEF Newest
<1>8. ASSUME NEW f, NoList(t), Newest(s, f) PROVE Newest(u, f)
  <2>1. PICK k \in 1 .. m : f = s[k] /\ HoldsList(f) /\ \A j \in k + 1 .. m : ~HoldsList(s[j])
    BY <1>8 DEF Newest, m
  <2>2. ASSUME NEW j \in k + 1 .. m + n PROVE ~HoldsList(u[j])
    <3>1. j \in 1 .. m + n
      BY <1>1
    <3>2. CASE j \in 1 .. m
      <4>1. j \in k + 1 .. m
        BY <1>1, <3>2
      <4> QED
        BY <1>2, <2>1, <3>2, <4>1
    <3>3. CASE j \notin 1 .. m
      <4>1. PICK i \in 1 .. n : j = m + i
        BY <1>4, <3>1, <3>3
      <4> QED
        BY <1>3, <1>8, <4>1 DEF NoList, n
    <3> QED
      BY <3>2, <3>3
  <2>3. k \in 1 .. m + n /\ f = u[k]
    BY <1>2, <2>1
  <2> QED
    BY <1>1, <2>1, <2>2, <2>3 DEF Newest
<1> QED
  BY <1>5, <1>6, <1>7, <1>8 DEF u

LEMMA NewestEmpty == NoList(<<>>) /\ \A f : ~Newest(<<>>, f)
BY DEF NoList, Newest

LEMMA NewestOne ==
  ASSUME NEW e
  PROVE  /\ NoList(<<e>>) <=> ~HoldsList(e)
         /\ \A f : Newest(<<e>>, f) <=> f = e /\ HoldsList(f)
<1>1. Len(<<e>>) = 1 /\ <<e>>[1] = e
  OBVIOUS
<1>2. \A k \in 1 .. 1 : k = 1 /\ k + 1 .. 1 = {}
  OBVIOUS
<1>3. 1 \in 1 .. 1
  OBVIOUS
<1> QED
  BY <1>1, <1>2, <1>3 DEF NoList, Newest

LEMMA NewestAppend ==
  ASSUME NEW S, NEW s \in Seq(S), NEW e \in S
  PROVE  /\ NoList(Append(s, e)) <=> NoList(s) /\ ~HoldsList(e)
         /\ \A f : Newest(Append(s, e), f) <=>
                     ((f = e /\ HoldsList(e)) \/ (~HoldsList(e) /\ Newest(s, f)))
<1> DEFINE one == <<e>>
           longer == Append(s, e)
<1>1. longer = s \o one /\ one \in Seq(S)
  BY AppendIsConcat
<1>2. /\ NoList(one) <=> ~HoldsList(e)
      /\ \A f : Newest(one, f) <=> f = e /\ HoldsList(f)
  BY NewestOne
<1> HIDE DEF one, longer
<1>3. /\ NoList(s \o one) <=> NoList(s) /\ NoList(one)
      /\ \A f : Newest(s \o one, f) <=> (Newest(one, f) \/ (NoList(one) /\ Newest(s, f)))
  BY <1>1, NewestConcat
<1>4. /\ NoList(longer) <=> NoList(s) /\ ~HoldsList(e)
      /\ \A f : Newest(longer, f) <=>
                  ((f = e /\ HoldsList(e)) \/ (~HoldsList(e) /\ Newest(s, f)))
  BY <1>1, <1>2, <1>3
<1> QED
  BY <1>4 DEF longer

LEMMA NewestPop ==
  ASSUME NEW S, NEW s \in Seq(S), s # <<>>
  PROVE  /\ NoList(s) <=> ~HoldsList(Head(s)) /\ NoList(Tail(s))
         /\ \A f : Newest(Tail(s), f) => Newest(s, f)
         /\ NoList(Tail(s)) /\ HoldsList(Head(s)) => Newest(s, Head(s))
<1>1. Head(s) \in S /\ Tail(s) \in Seq(S)
  BY HeadTailProperties
<1>2. <<Head(s)>> \in Seq(S) /\ s = <<Head(s)>> \o Tail(s)
  <2>1. <<Head(s)>> \in Seq(S)
    BY <1>1
  <2> DEFINE t == <<Head(s)>> \o Tail(s)
  <2>2. Len(Tail(s)) = Len(s) - 1 /\ Len(s) \in Nat /\ Head(s) = s[1]
        /\ \A i \in 1 .. Len(Tail(s)) : Tail(s)[i] = s[i + 1]
    BY HeadTailProperties, LenProperties
  <2>3. /\ t \in Seq(S) /\ Len(t) = Len(s)
        /\ \A i \in 1 .. Len(s) : t[i] = IF i <= 1 THEN <<Head(s)>>[i] ELSE Tail(s)[i - 1]
    <3>1. Len(<<Head(s)>>) = 1 /\ 1 + (Len(s) - 1) = Len(s)
      BY <2>2
    <3> QED
      BY <1>1, <2>1, <2>2, <3>1, ConcatProperties
  <2>4. \A i \in 1 .. Len(s) : t[i] = s[i]
    <3> SUFFICES ASSUME NEW i \in 1 .. Len(s) PROVE t[i] = s[i]
      OBVIOUS
    <3>1. CASE i = 1
      BY <2>2, <2>3, <3>1
    <3>2. CASE i # 1
      <4>1. ~(i <= 1) /\ i - 1 \in 1 .. Len(Tail(s)) /\ (i - 1) + 1 = i
        BY <2>2, <3>2
      <4> QED
        BY <2>2, <2>3, <4>1
    <3> QED
      BY <3>1, <3>2
  <2> QED
    BY <2>1, <2>3, <2>4, SeqEqual
<1> DEFINE h == <<Head(s)>>
           r == Tail(s)
<1>3. h \in Seq(S) /\ r \in Seq(S) /\ s = h \o r
  BY <1>1, <1>2
<1>4. /\ NoList(h) <=> ~HoldsList(Head(s))
      /\ \A f : Newest(h, f) <=> f = Head(s) /\ HoldsList(f)
  BY NewestOne
<1> HIDE DEF h, r
<1>5. /\ NoList(h \o r) <=> NoList(h) /\ NoList(r)
      /\ \A f : Newest(h \o r, f) <=> (Newest(r, f) \/ (NoList(r) /\ Newest(h, f)))
  BY <1>3, NewestConcat
<1>6. /\ NoList(s) <=> NoList(h) /\ NoList(r)
      /\ \A f : Newest(s, f) <=> (Newest(r, f) \/ (NoList(r) /\ Newest(h, f)))
  BY <1>3, <1>5
<1> QED
  BY <1>4, <1>6 DEF r

-----------------------------------------------------------------------------
(* Of the newest list that was pruned, wherever it is, the session knows   *)
(* which tools it holds compressed, but for those that were called since.  *)

(* One list of all the tools, answered and never cancelled, from which the *)
(* pruner drops nothing; the reveal set has room for every tool.           *)
OneList ==
  /\ Pages = <<Tools>> /\ Cancels = FALSE /\ DropBelow = 0
  /\ Cardinality(Tools) <= MaxNodes

CompOf(form) == {t \in DOMAIN form : form[t] = "compressed"}

Shown(form) ==
  compressed \subseteq CompOf(form) /\ CompOf(form) \subseteq compressed \cup RevealedEntries

(* The frames of its line that pumpServer is done with.                    *)
Done == SubSeq(sline, 1, sidx - 1)

Advertised ==
  /\ \A f : Newest(Done, f) => Shown(f.list)
  /\ NoList(Done) => \A f : Newest(clientIn, f) => Shown(f.list)
  /\ NoList(Done) /\ NoList(clientIn) => Shown(view)

Stamped == seq \in Nat /\ revealed \in [Tools -> Nat]

LEMMA DoneGrows ==
  ASSUME NEW s \in Seq(Frames), NEW i \in 1 .. Len(s)
  PROVE  /\ SubSeq(s, 1, i - 1) \in Seq(Frames)
         /\ SubSeq(s, 1, i) = Append(SubSeq(s, 1, i - 1), s[i])
<1>1. Len(s) \in Nat /\ \A j \in 1 .. Len(s) : s[j] \in Frames
  BY LenProperties, ElementOfSeq
<1>2. 1 \in Int /\ i - 1 \in Int /\ \A j \in 1 .. i - 1 : s[j] \in Frames
  BY <1>1
<1>3. SubSeq(s, 1, i - 1) \in Seq(Frames)
  BY <1>2, SubSeqProperties
<1>4. 1 \in 1 .. Len(s) /\ i \in 1 .. Len(s)
  BY <1>1
<1>5. SubSeq(s, 1, i) = SubSeq(s, 1, i - 1) \o <<s[i]>>
  BY <1>4, SubSeqRecursiveSecond
<1> QED
  BY <1>1, <1>3, <1>5, AppendIsConcat

LEMMA DoneTyped ==
  ASSUME PipeInv
  PROVE  Done \in Seq(Frames) /\ clientIn \in Seq(Frames)
<1>1. /\ sline \in Seq(Frames) /\ Len(sline) \in Nat /\ sidx \in 1 .. Len(sline) + 1
      /\ \A j \in 1 .. Len(sline) : sline[j] \in Frames
  BY LinesTyped, LenProperties, ElementOfSeq DEF PipeInv, ControlOK
<1>2. 1 \in Int /\ sidx - 1 \in Int /\ \A j \in 1 .. sidx - 1 : sline[j] \in Frames
  BY <1>1
<1> QED
  BY <1>2, LinesTyped, SubSeqProperties DEF Done

(* A call takes a tool out of the compressed ones, and stamps it.          *)
LEMMA CallsAreStamped ==
  ASSUME Cardinality(Tools) <= MaxNodes, Stamped, NEW f, ObserveClient(f)
  PROVE  /\ Stamped' /\ compressed' \subseteq compressed
         /\ compressed \cup RevealedEntries \subseteq (compressed \cup RevealedEntries)'
<1>1. CASE UNCHANGED <<seq, revealed, compressed>>
  BY <1>1 DEF Stamped, RevealedEntries
<1>2. CASE ObserveToolsCall(f)
  <2> DEFINE rev == [revealed EXCEPT ![f.arg] = seq + 1]
  <2>1. /\ f.arg \in Tools /\ seq' = seq + 1 /\ compressed' = compressed \ {f.arg}
        /\ revealed' = PruneRevealed(rev, seq + 1)
    BY <1>2 DEF ObserveToolsCall, IsCall, RevealStamp
  <2>2. seq \in Nat /\ seq + 1 \in Nat \ {0} /\ revealed \in [Tools -> Nat]
    BY DEF Stamped
  <2>3. rev \in [Tools -> Nat] /\ rev[f.arg] # 0 /\ \A t \in Tools \ {f.arg} : rev[t] = revealed[t]
    BY <2>1, <2>2
  <2> HIDE DEF rev
  <2>4. Cardinality({t \in Tools : rev[t] # 0}) <= MaxNodes
    <3>1. IsFiniteSet(Tools) /\ MaxNodes \in Int
      BY PruneAssumption, SessionAssumption
    <3>2. {t \in Tools : rev[t] # 0} \subseteq Tools
      OBVIOUS
    <3>3. /\ Cardinality({t \in Tools : rev[t] # 0}) <= Cardinality(Tools)
          /\ Cardinality({t \in Tools : rev[t] # 0}) \in Nat /\ Cardinality(Tools) \in Nat
      BY <3>1, <3>2, FS_Subset, FS_CardinalityType
    <3> QED
      BY <3>1, <3>3
  <2>5. revealed' = rev
    BY <2>1, <2>4 DEF PruneRevealed
  <2> QED
    BY <2>1, <2>2, <2>3, <2>5 DEF Stamped, RevealedEntries
<1> QED
  BY <1>1, <1>2 DEF ObserveClient, ObserveInitialize, ObserveToolsList, ObserveOther, sessionVars

(* A step that brings no list, and takes none away.                        *)
LEMMA StillAdvertised ==
  ASSUME Advertised, view' = view, compressed' \subseteq compressed,
         compressed \cup RevealedEntries \subseteq (compressed \cup RevealedEntries)',
         NoList(Done') => NoList(Done) /\ (NoList(clientIn') => NoList(clientIn)),
         \A f : Newest(Done', f) => Newest(Done, f),
         \A f : Newest(clientIn', f) => Newest(clientIn, f)
  PROVE  Advertised'
<1>1. ASSUME NEW form, Shown(form) PROVE Shown(form)'
  BY <1>1 DEF Shown, CompOf
<1>2. \A f : Newest(Done, f)' => Shown(f.list)'
  BY <1>1 DEF Advertised, Newest, HoldsList
<1> QED
  BY <1>1, <1>2 DEF Advertised

-----------------------------------------------------------------------------
AdvInv == Stamped /\ Advertised

LEMMA ListlessKeepsAdv ==
  ASSUME PipeInv, AdvInv,
         \/ ClientStep \/ ServerRead \/ ServerAnswer \/ ServerAsk \/ PumpClientRead
         \/ PumpClientForward \/ PumpClientCapability \/ PumpClientSwap \/ PumpClientNotify
         \/ PumpServerRead \/ PumpServerStore \/ UNCHANGED vars
  PROVE  AdvInv'
<1>1. UNCHANGED <<seq, revealed, compressed, view>>
  <2>1. CASE ClientStep
    BY <2>1, ClientStepMoves DEF ClientMoves, sessionVars
  <2>2. CASE ~ClientStep
    BY <2>2 DEF ServerRead, ServerAnswer, ServerAsk, PumpClientRead, PumpClientForward,
                PumpClientCapability, PumpClientSwap, PumpClientNotify, PumpServerRead,
                PumpServerStore, vars, sessionVars, clientVars
  <2> QED
    BY <2>1, <2>2
<1>2. Done' = Done
  <2>1. CASE PumpServerRead
    <3>1. sidx = 1 /\ sidx' = 1
      BY <2>1 DEF PumpServerRead, PipeInv, ControlOK
    <3>2. 1 \in Int /\ sidx - 1 \in Int /\ sidx' - 1 \in Int /\ sidx - 1 < 1 /\ sidx' - 1 < 1
      BY <3>1
    <3> QED
      BY <3>2, SubSeqEmpty DEF Done
  <2>2. CASE ClientStep
    BY <2>2, ClientStepMoves DEF ClientMoves, pumpServerVars, Done
  <2>3. CASE ~PumpServerRead /\ ~ClientStep
    BY <2>3 DEF ServerRead, ServerAnswer, ServerAsk, PumpClientRead, PumpClientForward,
                PumpClientCapability, PumpClientSwap, PumpClientNotify, PumpServerStore, vars,
                pumpServerVars, Done
  <2> QED
    BY <2>1, <2>2, <2>3
<1>3. /\ NoList(clientIn') => NoList(clientIn)
      /\ \A f : Newest(clientIn', f) => Newest(clientIn, f)
  <2>1. CASE PumpClientNotify
    <3>1. clientIn' = Append(clientIn, ToolsListChanged)
      BY <2>1 DEF PumpClientNotify
    <3>2. ~HoldsList(ToolsListChanged)
      BY DEF ToolsListChanged, Frame, HoldsList
    <3>3. ToolsListChanged \in Frames /\ clientIn \in Seq(Frames)
      BY NoticeTyped, LinesTyped
    <3> QED
      BY <3>1, <3>2, <3>3, NewestAppend
  <2>2. CASE ClientStep
    BY <2>2, ClientStepMoves DEF ClientMoves
  <2>3. CASE ~PumpClientNotify /\ ~ClientStep
    <3>1. clientIn' = clientIn
      BY <2>3 DEF ServerRead, ServerAnswer, ServerAsk, PumpClientRead, PumpClientForward,
                  PumpClientCapability, PumpClientSwap, PumpServerRead, PumpServerStore, vars,
                  pipes
    <3> QED
      BY <3>1
  <2> QED
    BY <2>1, <2>2, <2>3
<1>4. Stamped' /\ RevealedEntries' = RevealedEntries
  BY <1>1 DEF AdvInv, Stamped, RevealedEntries
<1>5. Advertised'
  BY <1>1, <1>2, <1>3, <1>4, StillAdvertised DEF AdvInv
<1> QED
  BY <1>4, <1>5 DEF AdvInv

LEMMA CallKeepsAdv ==
  ASSUME OneList, AdvInv, PumpClientObserve
  PROVE  AdvInv'
<1>1. UNCHANGED <<view, clientIn, sline, sidx>> /\ ObserveClient(cline[cidx])
  BY DEF PumpClientObserve, clientVars, pipes, pumpServerVars
<1>2. /\ Stamped' /\ compressed' \subseteq compressed
      /\ compressed \cup RevealedEntries \subseteq (compressed \cup RevealedEntries)'
  BY <1>1, CallsAreStamped DEF AdvInv, OneList
<1>3. Done' = Done
  BY <1>1 DEF Done
<1>4. Advertised'
  BY <1>1, <1>2, <1>3, StillAdvertised DEF AdvInv
<1> QED
  BY <1>2, <1>4 DEF AdvInv

(* The list the client takes is its view from then on.                     *)
LEMMA ReceiveKeepsAdv ==
  ASSUME OneList, PipeInv, HeldOnce, Expecting, AdvInv, ClientReceive
  PROVE  AdvInv'
<1> DEFINE f == Head(clientIn)
           answered == {r \in asked : f.type = "response" /\ r.id = f.id}
<1>1. /\ UNCHANGED <<seq, revealed, compressed, sline, sidx>>
      /\ IF \E r \in answered : r.type = "tools/list" /\ ~f.err
         THEN \E r \in answered : view' = Seen(r.arg, f.list)
         ELSE view' = view
  BY DEF ClientReceive, sessionVars, pumpServerVars
<1>2. /\ clientIn # <<>> /\ clientIn' = Tail(clientIn) /\ clientIn \in Seq(Frames)
      /\ ToSet(clientIn) = {f} \cup ToSet(clientIn')
  BY ReceiveKeeps
<1>3. Done' = Done /\ Stamped' /\ RevealedEntries' = RevealedEntries
  BY <1>1 DEF Done, AdvInv, Stamped, RevealedEntries
<1>4. /\ NoList(clientIn) <=> ~HoldsList(f) /\ NoList(clientIn')
      /\ \A g : Newest(clientIn', g) => Newest(clientIn, g)
      /\ NoList(clientIn') /\ HoldsList(f) => Newest(clientIn, f)
  BY <1>2, NewestPop
<1>5. Expected(f)
  BY <1>2 DEF Expecting, Past
<1>6. CASE ~HoldsList(f)
  <2>1. view' = view
    <3>1. SUFFICES ASSUME NEW r \in answered, r.type = "tools/list", ~f.err PROVE FALSE
      BY <1>1
    <3>2. PICK q \in asked : Fits(q, f)
      BY <1>5 DEF Expected
    <3>3. q = r
      BY <3>2 DEF Expecting, Fits
    <3> QED
      BY <1>6, <3>1, <3>2, <3>3 DEF HoldsList, HoldsOne, Fits, OneList
  <2>2. Advertised'
    <3>1. NoList(clientIn') => NoList(clientIn)
      BY <1>4, <1>6
    <3> HIDE DEF f, answered
    <3> QED
      BY <1>1, <1>3, <1>4, <2>1, <3>1, StillAdvertised DEF AdvInv
  <2> QED
    BY <1>3, <2>2 DEF AdvInv
<1>7. CASE HoldsList(f)
  <2>1. f.type = "response" /\ HoldsOne(f)
    BY <1>7 DEF HoldsList, HoldsOne
  <2>2. PICK q \in asked : q.id = f.id /\ q.type = "tools/list" /\ ~f.err
    BY <1>5, <2>1 DEF Expected, Fits
  <2>3. PICK r \in answered : view' = Seen(r.arg, f.list)
    BY <1>1, <2>1, <2>2
  <2>4. r = q
    BY <2>2, <2>3 DEF Expecting
  <2>5. Pages[r.arg] = Tools
    <3>1. r \in Sendable /\ r.type = "tools/list"
      BY <2>2, <2>4 DEF PipeInv, FramesOK
    <3>2. r.arg \in DOMAIN Pages
      BY <3>1 DEF Sendable
    <3> QED
      BY <3>2 DEF OneList
  <2>6. DOMAIN f.list \subseteq Tools
    <3>1. f \in Frames
      BY <1>2, HeadTailProperties
    <3> QED
      BY <3>1 DEF Frames, Lists
  <2>7. CompOf(view') = CompOf(f.list)
    <3>1. view' = [t \in Tools |-> IF t \in DOMAIN f.list THEN f.list[t] ELSE "unknown"]
      BY <2>3, <2>5 DEF Seen
    <3> HIDE DEF f
    <3> QED
      BY <2>6, <3>1 DEF CompOf
  <2> HIDE DEF f, answered
  <2>8. \A g : Shown(g.list)' <=> Shown(g.list)
    BY <1>1, <1>3 DEF Shown, CompOf
  <2>9. \A g : Newest(Done, g)' => Shown(g.list)'
    BY <1>3, <2>8 DEF AdvInv, Advertised, Newest, HoldsList
  <2>10. NoList(Done') => \A g : Newest(clientIn, g)' => Shown(g.list)'
    BY <1>3, <1>4, <2>8 DEF AdvInv, Advertised
  <2>11. ASSUME NoList(Done'), NoList(clientIn') PROVE Shown(view)'
    <3>1. Shown(f.list)
      BY <1>3, <1>4, <1>7, <2>11 DEF AdvInv, Advertised
    <3> QED
      BY <1>1, <1>3, <2>7, <3>1 DEF Shown
  <2>12. Advertised'
    BY <2>9, <2>10, <2>11 DEF Advertised
  <2> QED
    BY <1>3, <2>12 DEF AdvInv
<1> QED
  BY <1>6, <1>7

LEMMA WriteKeepsAdv ==
  ASSUME PipeInv, Finished, AdvInv, PumpServerWrite
  PROVE  AdvInv'
<1>1. /\ UNCHANGED <<seq, revealed, compressed, view>>
      /\ clientIn' = clientIn \o sline /\ sline' = <<>> /\ sidx' = 1
      /\ sidx = Len(sline) + 1
  BY DEF PumpServerWrite, sessionVars, clientVars, Finished
<1>2. clientIn \in Seq(Frames) /\ sline \in Seq(Frames) /\ Len(sline) \in Nat
  BY LinesTyped, LenProperties
<1>3. Done = sline
  <2>1. sidx - 1 = Len(sline)
    BY <1>1, <1>2
  <2> QED
    BY <1>2, <2>1, SubSeqFull DEF Done
<1>4. Done' = <<>>
  <2>1. 1 \in Int /\ sidx' - 1 \in Int /\ sidx' - 1 < 1
    BY <1>1
  <2> QED
    BY <2>1, SubSeqEmpty DEF Done
<1>5. /\ NoList(clientIn') <=> NoList(clientIn) /\ NoList(sline)
      /\ \A f : Newest(clientIn', f) <=>
                  (Newest(sline, f) \/ (NoList(sline) /\ Newest(clientIn, f)))
  BY <1>1, <1>2, NewestConcat
<1>6. Stamped' /\ RevealedEntries' = RevealedEntries
  BY <1>1 DEF AdvInv, Stamped, RevealedEntries
<1>7. \A form : Shown(form)' <=> Shown(form)
  BY <1>1, <1>6 DEF Shown, CompOf
<1>8. \A f : ~Newest(Done, f)'
  <2>1. \A f : ~Newest(<<>>, f)
    BY NewestEmpty
  <2> QED
    BY <1>4, <2>1 DEF Newest, HoldsList
<1>9. \A f : Newest(clientIn, f)' => Shown(f.list)'
  BY <1>3, <1>5, <1>7 DEF AdvInv, Advertised
<1>10. NoList(clientIn)' => Shown(view)'
  BY <1>1, <1>3, <1>5, <1>7 DEF AdvInv, Advertised
<1>11. Advertised'
  BY <1>8, <1>9, <1>10 DEF Advertised
<1> QED
  BY <1>6, <1>11 DEF AdvInv

(* What the pump does not prune is no list.                                *)
LEMMA ListsArePrunable ==
  ASSUME PipeInv, HeldOnce, Registered, PumpServerObserve, ~IsToolsList(sline[sidx])
  PROVE  ~HoldsList(sline[sidx])
<1> DEFINE f == sline[sidx]
<1>1. SUFFICES ASSUME HoldsList(f) PROVE IsToolsList(f)
  OBVIOUS
<1>2. f \in Coming
  BY ServerObserveMoves
<1>3. f.type = "response" /\ f.id \in pendingLst
  BY <1>1, <1>2 DEF HoldsList, Registered, AnswersDue
<1>4. f.id \in 1 .. nextId - 1 /\ nextId \in Nat
  BY <1>3, ServerFrameAlone DEF HeldOnce, Apart
<1>5. f.id # NoId
  BY <1>4 DEF NoId
<1> QED
  BY <1>3, <1>5 DEF IsToolsList, Answers, Registered, KindsApart

LEMMA ObserveKeepsAdv ==
  ASSUME PipeInv, HeldOnce, Registered, AdvInv, PumpServerObserve
  PROVE  AdvInv'
<1> DEFINE f == sline[sidx]
<1>1. UNCHANGED <<seq, revealed, compressed, view, sline, clientIn>>
  BY DEF PumpServerObserve, ObserveServerFrame, clientVars, pipes
<1>2. Stamped' /\ RevealedEntries' = RevealedEntries
  BY <1>1 DEF AdvInv, Stamped, RevealedEntries
<1>3. CASE IsToolsList(f)
  <2>1. Done' = Done
    BY <1>1, <1>3 DEF PumpServerObserve, Done
  <2> QED
    BY <1>1, <1>2, <2>1, StillAdvertised DEF AdvInv
<1>4. CASE ~IsToolsList(f)
  <2>1. sidx' = sidx + 1 /\ sidx \in 1 .. Len(sline) /\ sline \in Seq(Frames)
    BY <1>4, ServerObserveMoves DEF PumpServerObserve, PumpServerAdvance
  <2>2. (sidx + 1) - 1 = sidx
    BY <2>1
  <2>3. Done' = Append(Done, f)
    BY <1>1, <2>1, <2>2, DoneGrows DEF Done
  <2>4. ~HoldsList(f)
    BY <1>4, ListsArePrunable
  <2>5. Done \in Seq(Frames) /\ f \in Frames
    BY <2>1, DoneTyped, ElementOfSeq
  <2> HIDE DEF f
  <2>6. /\ NoList(Done') <=> NoList(Done)
        /\ \A g : Newest(Done', g) <=> Newest(Done, g)
    BY <2>3, <2>4, <2>5, NewestAppend
  <2> QED
    BY <1>1, <1>2, <2>6, StillAdvertised DEF AdvInv
<1> QED
  BY <1>3, <1>4

LEMMA PruneKeepsAdv ==
  ASSUME OneList, PipeInv, Registered, Expecting, AdvInv, PumpServerPrune
  PROVE  AdvInv'
<1> DEFINE f == sline[sidx]
           g == sline'[sidx]
<1>1. /\ UNCHANGED <<seq, revealed, view, clientIn>> /\ sidx' = sidx + 1
      /\ spc = "prune"
  BY DEF PumpServerPrune, PumpServerAdvance, PruneToolsResult, sessionVars, clientVars, pipes
<1>2. Stamped' /\ RevealedEntries' = RevealedEntries
  BY <1>1 DEF AdvInv, Stamped, RevealedEntries
<1>3. /\ sline \in Seq(Frames) /\ sline' \in Seq(Frames) /\ Len(sline') = Len(sline)
      /\ sidx \in 1 .. Len(sline) /\ Len(sline) \in Nat
      /\ g.type = f.type /\ g.err = f.err
      /\ \A j \in 1 .. Len(sline) : j # sidx => sline'[j] = sline[j]
  BY PruneChangesList, LinesTyped
<1>4. f.type = "response"
  BY <1>1 DEF Registered, PruneReady
<1>5. Done' = Append(Done, g) /\ Done \in Seq(Frames) /\ g \in Frames
  <2>1. (sidx + 1) - 1 = sidx
    BY <1>3
  <2>2. /\ SubSeq(sline', 1, sidx) = Append(SubSeq(sline', 1, sidx - 1), g)
        /\ SubSeq(sline', 1, sidx - 1) \in Seq(Frames)
    BY <1>3, DoneGrows
  <2>3. SubSeq(sline', 1, sidx - 1) = Done
    <3> DEFINE a == SubSeq(sline', 1, sidx - 1)
    <3>1. \A j \in 1 .. sidx - 1 : j \in 1 .. Len(sline) /\ j # sidx
      BY <1>3
    <3>2. 1 \in Int /\ sidx - 1 \in Int
          /\ \A j \in 1 .. sidx - 1 : sline[j] \in Frames /\ sline'[j] \in Frames
      BY <1>3, <3>1, ElementOfSeq
    <3>3. /\ Len(a) = (IF 1 <= sidx - 1 THEN (sidx - 1) - 1 + 1 ELSE 0)
          /\ Len(Done) = (IF 1 <= sidx - 1 THEN (sidx - 1) - 1 + 1 ELSE 0)
          /\ a \in Seq(Frames) /\ Done \in Seq(Frames)
          /\ \A j \in 1 .. (sidx - 1) - 1 + 1 : a[j] = sline'[1 + j - 1]
          /\ \A j \in 1 .. (sidx - 1) - 1 + 1 : Done[j] = sline[1 + j - 1]
      BY <3>2, SubSeqProperties DEF Done
    <3>4. (sidx - 1) - 1 + 1 = sidx - 1
          /\ \A j \in 1 .. sidx - 1 : 1 + j - 1 = j
      BY <1>3
    <3>5. \A j \in 1 .. sidx - 1 : a[j] = Done[j]
      BY <1>3, <3>1, <3>3, <3>4
    <3>6. Len(a) = Len(Done) /\ \A j \in 1 .. Len(a) : j \in 1 .. sidx - 1
      BY <1>3, <3>3, <3>4
    <3> HIDE DEF a
    <3>7. a = Done
      BY <3>3, <3>5, <3>6, SeqEqual
    <3> QED
      BY <3>7 DEF a
  <2>4. g \in Frames
    BY <1>3, ElementOfSeq
  <2> QED
    BY <1>1, <2>1, <2>2, <2>3, <2>4, DoneTyped DEF Done
<1>6. /\ NoList(Done') <=> NoList(Done) /\ ~HoldsList(g)
      /\ \A h : Newest(Done', h) <=>
                  ((h = g /\ HoldsList(g)) \/ (~HoldsList(g) /\ Newest(Done, h)))
  <2> HIDE DEF g
  <2> QED
    BY <1>5, NewestAppend
<1>7. CASE Prunable(f)
  <2>1. PICK base \in BaseScores(DOMAIN f.list) :
          PruneToolsResult(base) /\ g.list = PrunedList(Tiers(base))
    BY <1>7, PruneChangesList
  <2>2. DOMAIN g.list = DOMAIN f.list
    BY <2>1, NothingDropped DEF OneList
  <2>3. HoldsList(g)
    BY <1>3, <1>4, <1>7, <2>2 DEF HoldsList, Prunable
  <2> DEFINE tier == Tiers(base)
  <2>4. compressed' = InTier(tier, "compressed")
    BY <2>1 DEF PruneToolsResult, CompressedAfter
  <2>5. CompOf(g.list) = InTier(tier, "compressed")
    <3>1. g.list = PrunedList(tier)
      BY <2>1
    <3> HIDE DEF tier, g
    <3> QED
      BY <3>1 DEF CompOf, PrunedList, InTier
  <2>6. \A h : h = g => Shown(h.list)'
    <3>1. \A h : h = g => CompOf(h.list) = compressed'
      BY <2>4, <2>5
    <3> HIDE DEF g
    <3> QED
      BY <3>1 DEF Shown, CompOf
  <2> HIDE DEF f, g, tier
  <2>7. \A h : Newest(Done, h)' => Shown(h.list)'
    BY <1>6, <2>3, <2>6 DEF Newest, HoldsList
  <2>8. ~NoList(Done)'
    BY <1>6, <2>3
  <2>9. Advertised'
    BY <2>7, <2>8 DEF Advertised
  <2> QED
    BY <1>2, <2>9 DEF AdvInv
<1>8. CASE ~Prunable(f)
  <2>1. sline' = sline /\ compressed' = compressed
    BY <1>8 DEF PumpServerPrune, sessionVars
  <2>2. ~HoldsList(f)
    <3>1. SUFFICES ASSUME HoldsList(f) PROVE FALSE
      OBVIOUS
    <3>2. HoldsOne(f) /\ f.err = TRUE
      <4>1. f \in Frames
        BY <1>3, ElementOfSeq
      <4> QED
        BY <1>8, <3>1, <4>1 DEF Prunable, HoldsList, HoldsOne, Frames
    <3>3. f \in Past
      <4>1. sidx \in 1 .. Reached - 1
        BY <1>1, <1>3 DEF Reached
      <4> QED
        BY <4>1 DEF Past
    <3>4. Expected(f)
      BY <3>3 DEF Expecting
    <3> QED
      BY <1>4, <3>2, <3>4 DEF Expected, Fits
  <2>3. g = f
    BY <2>1
  <2> HIDE DEF f, g
  <2>4. /\ NoList(Done') <=> NoList(Done)
        /\ \A h : Newest(Done', h) <=> Newest(Done, h)
    BY <1>6, <2>2, <2>3
  <2>5. Advertised'
    BY <1>1, <1>2, <2>1, <2>4, StillAdvertised DEF AdvInv
  <2> QED
    BY <1>2, <2>5 DEF AdvInv
<1> QED
  BY <1>7, <1>8

LEMMA NextAdvInv ==
  ASSUME OneList, PipeInv, HeldOnce, Finished, Registered, Expecting, AdvInv, [Next]_vars
  PROVE  AdvInv'
BY ListlessKeepsAdv, CallKeepsAdv, ReceiveKeepsAdv, WriteKeepsAdv, ObserveKeepsAdv, PruneKeepsAdv
   DEF Next, ClientStep, PumpClient, PumpServer

LEMMA InitExpecting == Init => Expecting
<1> SUFFICES ASSUME Init PROVE Expecting
  OBVIOUS
<1>1. Len(sline) = 0 /\ sidx = 1 /\ Len(cline) = 0 /\ cidx = 1 /\ Reached = 1
  BY DEF Init, Reached
<1>2. /\ 1 .. cidx - 1 = {} /\ cidx .. Len(cline) = {}
      /\ 1 .. Reached - 1 = {} /\ Reached .. Len(sline) = {}
  BY <1>1
<1>3. Observed = {} /\ Unseen = {} /\ Coming = {} /\ Past = {}
  BY <1>2, ToSetEmpty DEF Init, Observed, Unseen, Coming, Past
<1> QED
  BY <1>3 DEF Init, Expecting

LEMMA InitAdvInv == Init => AdvInv
<1> SUFFICES ASSUME Init PROVE AdvInv
  OBVIOUS
<1>1. Stamped
  BY DEF Init, SessionInit, Stamped
<1>2. Done = <<>>
  <2>1. 1 \in Int /\ sidx - 1 \in Int /\ sidx - 1 < 1
    BY DEF Init
  <2> QED
    BY <2>1, SubSeqEmpty DEF Done
<1>3. Shown(view)
  BY DEF Init, SessionInit, Shown, CompOf
<1>4. clientIn = <<>>
  BY DEF Init
<1>5. Advertised
  BY <1>2, <1>3, <1>4, NewestEmpty DEF Advertised
<1> QED
  BY <1>1, <1>5 DEF AdvInv

(* Once no list is on its way, the session knows which tools the client    *)
(* holds compressed, but for those that were called since: whatever the    *)
(* lists and calls that crossed, the set is the one of the last list       *)
(* (session.go, PruneToolsResult replaces it; ObserveClient removes the    *)
(* tool a call reaches for).                                               *)
THEOREM CompressedIsKnown == ASSUME OneList PROVE Spec => []CompressedIsAdvertised
<1>1. Init => Expecting /\ AdvInv
  BY InitExpecting, InitAdvInv
<1>2. OneList /\ RegisterInv /\ Expecting /\ AdvInv /\ [Next]_vars => Expecting' /\ AdvInv'
  BY NextExpecting, NextAdvInv, NextPipeInv DEF RegisterInv, OneList
<1>3. RegisterInv /\ ViewOK /\ AdvInv => CompressedIsAdvertised
  <2> SUFFICES ASSUME RegisterInv, ViewOK, AdvInv, ListsInFlight = {}
               PROVE  LET seen == {t \in Tools : view[t] = "compressed"}
                      IN  compressed \subseteq seen /\ seen \subseteq compressed \cup RevealedEntries
    BY DEF CompressedIsAdvertised
  <2>1. Done \in Seq(Frames) /\ clientIn \in Seq(Frames)
    BY DoneTyped DEF RegisterInv
  <2>2. \A f \in ToSet(clientIn) \cup ToSet(Done) : ~HoldsList(f)
    BY DEF ListsInFlight, HoldsList, Done
  <2>3. NoList(Done) /\ NoList(clientIn)
    BY <2>1, <2>2, ToSetTyped DEF NoList
  <2>4. Shown(view) /\ DOMAIN view = Tools
    BY <2>3 DEF AdvInv, Advertised, ViewOK
  <2> QED
    BY <2>4 DEF Shown, CompOf
<1>4. Init => ViewOK
  BY DEF Init, ViewOK, Forms
<1>5. RegisterInv /\ ViewOK /\ [Next]_vars => ViewOK'
  BY NextViewOK DEF RegisterInv
<1> QED
  BY <1>1, <1>2, <1>3, <1>4, <1>5, InitRegisterInv, NextRegisterInv, PTL DEF Spec

-----------------------------------------------------------------------------
(* Notifications in a sequence of frames: none, at most one, none behind a *)
(* frame of A.                                                             *)

NoNotice(s) == \A k \in 1 .. Len(s) : s[k].type # "list_changed"

OneNotice(s) ==
  \A j, k \in 1 .. Len(s) :
    s[j].type = "list_changed" /\ s[k].type = "list_changed" => j = k

NoneBehind(A, s) ==
  \A j, k \in 1 .. Len(s) : j < k /\ s[j] \in A => s[k].type # "list_changed"

LEMMA NoticesConcat ==
  ASSUME NEW S, NEW s \in Seq(S), NEW t \in Seq(S), NoNotice(t), NEW A
  PROVE  /\ NoNotice(s \o t) <=> NoNotice(s)
         /\ OneNotice(s) => OneNotice(s \o t)
         /\ NoneBehind(A, s) => NoneBehind(A, s \o t)
<1> DEFINE m == Len(s)
           n == Len(t)
           u == s \o t
<1>1. /\ m \in Nat /\ n \in Nat /\ Len(u) = m + n
      /\ \A i \in 1 .. m + n : u[i] = IF i <= m THEN s[i] ELSE t[i - m]
  BY ConcatProperties, LenProperties
<1> HIDE DEF m, n, u
<1>2. \A i \in 1 .. m : i \in 1 .. m + n /\ u[i] = s[i]
  BY <1>1
<1>3. ASSUME NEW i \in 1 .. m + n, i \notin 1 .. m
      PROVE  u[i].type # "list_changed"
  <2>1. i - m \in 1 .. n /\ ~(i <= m)
    BY <1>1, <1>3
  <2>2. u[i] = t[i - m]
    BY <1>1, <2>1
  <2> QED
    BY <2>1, <2>2 DEF NoNotice, n
<1>4. NoNotice(u) <=> NoNotice(s)
  BY <1>1, <1>2, <1>3 DEF NoNotice, m
<1>5. OneNotice(s) => OneNotice(u)
  BY <1>1, <1>2, <1>3 DEF OneNotice, m
<1>6. ASSUME NoneBehind(A, s) PROVE NoneBehind(A, u)
  <2> SUFFICES ASSUME NEW j \in 1 .. m + n, NEW k \in 1 .. m + n, j < k, u[j] \in A
               PROVE  u[k].type # "list_changed"
    BY <1>1 DEF NoneBehind
  <2>1. CASE k \in 1 .. m
    <3>1. j \in 1 .. m
      BY <1>1, <2>1
    <3> QED
      BY <1>2, <1>6, <2>1, <3>1 DEF NoneBehind, m
  <2>2. CASE k \notin 1 .. m
    BY <1>3, <2>2
  <2> QED
    BY <2>1, <2>2
<1> QED
  BY <1>4, <1>5, <1>6 DEF u

LEMMA NoticesAppend ==
  ASSUME NEW S, NEW s \in Seq(S), NEW e \in S, NEW A
  PROVE  /\ NoNotice(s) => OneNotice(Append(s, e))
         /\ (\A k \in 1 .. Len(s) : s[k] \notin A) => NoneBehind(A, Append(s, e))
<1>1. /\ Len(s) \in Nat /\ Len(Append(s, e)) = Len(s) + 1
      /\ \A i \in 1 .. Len(s) : Append(s, e)[i] = s[i]
  BY AppendProperties, LenProperties
<1>2. \A i \in 1 .. Len(s) + 1 : i \in 1 .. Len(s) \/ i = Len(s) + 1
  BY <1>1
<1>3. ASSUME NoNotice(s) PROVE OneNotice(Append(s, e))
  BY <1>1, <1>2, <1>3 DEF NoNotice, OneNotice
<1>4. ASSUME \A k \in 1 .. Len(s) : s[k] \notin A PROVE NoneBehind(A, Append(s, e))
  <2> SUFFICES ASSUME NEW j \in 1 .. Len(s) + 1, NEW k \in 1 .. Len(s) + 1, j < k
               PROVE  Append(s, e)[j] \notin A
    BY <1>1 DEF NoneBehind
  <2>1. j \in 1 .. Len(s)
    BY <1>1
  <2> QED
    BY <1>1, <1>4, <2>1
<1> QED
  BY <1>3, <1>4

LEMMA NoticesPop ==
  ASSUME NEW S, NEW s \in Seq(S), s # <<>>, NEW A
  PROVE  /\ NoNotice(s) => NoNotice(Tail(s))
         /\ OneNotice(s) => OneNotice(Tail(s))
         /\ NoneBehind(A, s) => NoneBehind(A, Tail(s))
         /\ NoneBehind(A, s) /\ Head(s) \in A => NoNotice(Tail(s))
<1>1. /\ Len(s) \in Nat \ {0} /\ Len(Tail(s)) = Len(s) - 1 /\ Head(s) = s[1]
      /\ \A i \in 1 .. Len(s) - 1 : Tail(s)[i] = s[i + 1]
  <2>1. /\ Tail(s) \in Seq(S) /\ Len(Tail(s)) = Len(s) - 1
        /\ \A i \in 1 .. Len(Tail(s)) : Tail(s)[i] = s[i + 1]
    BY HeadTailProperties
  <2> QED
    BY <2>1, EmptySeq, LenProperties
<1>2. \A i \in 1 .. Len(s) - 1 : i + 1 \in 1 .. Len(s) /\ 1 < i + 1
  BY <1>1
<1>3. 1 \in 1 .. Len(s)
  BY <1>1
<1>4. NoNotice(s) => NoNotice(Tail(s))
  BY <1>1, <1>2 DEF NoNotice
<1>5. OneNotice(s) => OneNotice(Tail(s))
  <2> SUFFICES ASSUME OneNotice(s), NEW j \in 1 .. Len(s) - 1, NEW k \in 1 .. Len(s) - 1,
                      Tail(s)[j].type = "list_changed", Tail(s)[k].type = "list_changed"
               PROVE  j = k
    BY <1>1 DEF OneNotice
  <2>1. j + 1 = k + 1
    BY <1>1, <1>2 DEF OneNotice
  <2> QED
    BY <1>1, <2>1
<1>6. NoneBehind(A, s) => NoneBehind(A, Tail(s))
  <2> SUFFICES ASSUME NoneBehind(A, s), NEW j \in 1 .. Len(s) - 1, NEW k \in 1 .. Len(s) - 1,
                      j < k, Tail(s)[j] \in A
               PROVE  Tail(s)[k].type # "list_changed"
    BY <1>1 DEF NoneBehind
  <2>1. j + 1 < k + 1 /\ j + 1 \in 1 .. Len(s) /\ k + 1 \in 1 .. Len(s)
    BY <1>1
  <2> QED
    BY <1>1, <2>1 DEF NoneBehind
<1>7. NoneBehind(A, s) /\ Head(s) \in A => NoNotice(Tail(s))
  BY <1>1, <1>2, <1>3 DEF NoneBehind, NoNotice
<1> QED
  BY <1>4, <1>5, <1>6, <1>7

-----------------------------------------------------------------------------
(* A client that waits for every answer before it sends again, one frame   *)
(* to a line.                                                              *)
Sequential == Pipelined = FALSE /\ MaxLine = 1 /\ Cancels = FALSE

(* It waits for one answer at most.                                        *)
OneAsked == \A r, s \in asked : r = s

OneFrame ==
  (\A i \in 1 .. Len(clientOut) : Len(clientOut[i]) = 1) /\ Len(cline) <= 1

(* What it sends.                                                          *)
SendsOne(f) ==
  /\ clientOut' = Append(clientOut, <<f>>)
  /\ \/ UNCHANGED <<asked, nextId>>
     \/ /\ asked = {} /\ asked' = {f} /\ nextId' = nextId + 1
        /\ f.type = "initialize" => nextId = 1

LEMMA SequentialSends ==
  ASSUME Sequential, PipeInv, Expecting, ClientStep
  PROVE  \E f : SendsOne(f)
<1>1. nextId = 1 => asked = {}
  <2> SUFFICES ASSUME nextId = 1, NEW r \in asked PROVE FALSE
    OBVIOUS
  <2>1. r.id \in 1 .. 1 - 1
    BY DEF Expecting
  <2> QED
    BY <2>1
<1>2. MaySend => asked = {}
  BY DEF MaySend, Sequential
<1>3. ASSUME NEW f, asked = {}, ClientSend(<<f>>), f.type = "initialize" => nextId = 1
      PROVE  SendsOne(f)
  <2>1. ToSet(<<f>>) = {f} /\ Len(<<f>>) = 1
    BY DEF ToSet
  <2> QED
    BY <1>3, <2>1 DEF ClientSend, SendsOne
<1>4. CASE ClientInitialize
  BY <1>1, <1>3, <1>4 DEF ClientInitialize
<1>5. CASE ClientRequest
  <2>1. PICK n \in 1 .. 1 :
          \E line \in [1 .. n -> UNION {OwnRequest(nextId + i - 1) : i \in 1 .. n}] :
            ClientSend(line)
    BY <1>5 DEF ClientRequest, Sequential
  <2>2. n = 1
    BY <2>1
  <2>3. PICK line \in [1 .. 1 -> UNION {OwnRequest(nextId + i - 1) : i \in 1 .. 1}] :
          ClientSend(line)
    BY <2>1, <2>2
  <2>4. line = <<line[1]>>
    BY <2>3
  <2>5. line[1] \in UNION {OwnRequest(nextId + i - 1) : i \in 1 .. 1}
    BY <2>3
  <2>6. line[1].type # "initialize"
    BY <2>5 DEF OwnRequest, Request, Frame
  <2>7. ClientSend(<<line[1]>>)
    BY <2>3, <2>4
  <2> QED
    BY <1>2, <1>3, <1>5, <2>6, <2>7 DEF ClientRequest
<1>6. CASE ClientRefresh
  BY <1>2, <1>3, <1>6 DEF ClientRefresh, Request, Frame
<1>7. CASE ClientNextPage
  BY <1>2, <1>3, <1>7 DEF ClientNextPage, Request, Frame
<1>8. CASE ClientCancel
  BY <1>8 DEF ClientCancel, Sequential
<1>9. CASE ClientAnswer
  BY <1>9 DEF ClientAnswer, SendsOne
<1> QED
  BY <1>4, <1>5, <1>6, <1>7, <1>8, <1>9 DEF ClientStep

LEMMA OtherStepsAsk ==
  ASSUME ClientReceive \/ ServerAnswer \/ PumpServerPrune \/ Passing
  PROVE  asked' \subseteq asked /\ nextId' = nextId
BY DEF Passing, PumpClientRead, PumpClientObserve, PumpClientForward, PumpClientCapability,
       PumpClientSwap, PumpClientNotify, ServerRead, ServerAsk, PumpServerRead,
       PumpServerObserve, PumpServerStore, PumpServerWrite, vars, clientVars,
       ClientReceive, ServerAnswer, PumpServerPrune

LEMMA NextOneAsked ==
  ASSUME Sequential, PipeInv, Expecting, OneAsked, [Next]_vars
  PROVE  OneAsked'
<1>1. CASE ClientStep
  BY <1>1, SequentialSends DEF SendsOne, OneAsked
<1>2. CASE ~ClientStep
  BY <1>2, AllSteps, OtherStepsAsk DEF OneAsked
<1> QED
  BY <1>1, <1>2

LEMMA NextOneFrame ==
  ASSUME Sequential, PipeInv, Expecting, OneFrame, [Next]_vars
  PROVE  OneFrame'
<1>1. clientOut \in Seq(Seq(Frames)) /\ Len(clientOut) \in Nat
  BY LinesTyped, LenProperties
<1>2. CASE ClientStep
  <2>1. PICK f : clientOut' = Append(clientOut, <<f>>)
    BY <1>2, SequentialSends DEF SendsOne
  <2>2. cline' = cline
    BY <1>2, ClientStepMoves DEF ClientMoves, pumpClientVars
  <2>3. Len(<<f>>) = 1
    OBVIOUS
  <2> DEFINE line == <<f>>
  <2>4. clientOut' = Append(clientOut, line) /\ Len(line) = 1
    BY <2>1, <2>3
  <2> HIDE DEF line
  <2>5. /\ Len(clientOut') = Len(clientOut) + 1
        /\ \A i \in 1 .. Len(clientOut) : clientOut'[i] = clientOut[i]
        /\ clientOut'[Len(clientOut) + 1] = line
    BY <1>1, <2>4
  <2>6. \A i \in 1 .. Len(clientOut) + 1 : i \in 1 .. Len(clientOut) \/ i = Len(clientOut) + 1
    BY <1>1
  <2> QED
    BY <2>2, <2>4, <2>5, <2>6 DEF OneFrame
<1>3. CASE PumpClientRead
  <2>1. clientOut # <<>> /\ clientOut' = Tail(clientOut) /\ cline' = Head(clientOut)
    BY <1>3 DEF PumpClientRead
  <2>2. /\ Len(clientOut') = Len(clientOut) - 1
        /\ \A i \in 1 .. Len(clientOut') : clientOut'[i] = clientOut[i + 1]
    BY <1>1, <2>1, HeadTailProperties
  <2>3. cline' = clientOut[1] /\ 1 \in 1 .. Len(clientOut)
    BY <1>1, <2>1, EmptySeq
  <2>4. \A i \in 1 .. Len(clientOut) - 1 : i + 1 \in 1 .. Len(clientOut)
    BY <1>1
  <2>5. Len(cline') = 1
    <3>1. \A i \in 1 .. Len(clientOut) : Len(clientOut[i]) = 1
      BY DEF OneFrame
    <3>2. Len(clientOut[1]) = 1
      BY <2>3, <3>1
    <3> QED
      BY <2>3, <3>2
  <2>6. \A i \in 1 .. Len(clientOut') : Len(clientOut'[i]) = 1
    BY <2>2, <2>4 DEF OneFrame
  <2> QED
    BY <2>5, <2>6 DEF OneFrame
<1>4. CASE PumpClientForward
  <2>1. clientOut' = clientOut /\ cline' = <<>>
    BY <1>4 DEF PumpClientForward
  <2>2. Len(cline') <= 1
    BY <2>1
  <2>3. \A i \in 1 .. Len(clientOut') : Len(clientOut'[i]) = 1
    BY <2>1 DEF OneFrame
  <2> QED
    BY <2>2, <2>3 DEF OneFrame
<1>5. CASE ~ClientStep /\ ~PumpClientRead /\ ~PumpClientForward
  <2>1. UNCHANGED <<clientOut, cline>>
    BY <1>5, AllSteps
       DEF Passing, PumpClientObserve, PumpClientCapability,
           PumpClientSwap, PumpClientNotify, ServerRead, ServerAsk, PumpServerRead,
           PumpServerObserve, PumpServerStore, PumpServerWrite, vars, pipes, pumpClientVars,
           ClientReceive, ServerAnswer, PumpServerPrune
  <2> QED
    BY <2>1 DEF OneFrame
<1> QED
  BY <1>2, <1>3, <1>4, <1>5

(* The server notifies nothing of its own.                                 *)
FromServer == \A f \in FramesIn(serverOut) \cup ToSet(sline) : f.type # "list_changed"

LEMMA NextFromServer ==
  ASSUME PipeInv, HeldOnce, FromServer, [Next]_vars
  PROVE  FromServer'
<1>1. serverOut \in Seq(Seq(Frames)) /\ sline \in Seq(Frames)
  BY LinesTyped
<1>2. ASSUME NEW line \in Seq(Frames), serverOut' = Append(serverOut, line), sline' = sline,
             \A f \in ToSet(line) : f.type # "list_changed"
      PROVE  FromServer'
  <2>1. FramesIn(serverOut') = FramesIn(serverOut) \cup ToSet(line)
    BY <1>1, <1>2, FramesInAppend
  <2> QED
    BY <1>2, <2>1 DEF FromServer
<1>3. CASE ServerAnswer
  <2>1. PICK line \in Seq(Frames) \ {<<>>}, served \in SUBSET working :
          /\ serverOut' = Append(serverOut, line)
          /\ \A f \in ToSet(line) : \E r \in served : f \in Answer(r)
    BY <1>3, AnsweredLine
  <2>2. \A f \in ToSet(line) : f.type = "response"
    BY <2>1, AnswerIs
  <2>3. sline' = sline
    BY <1>3 DEF ServerAnswer, pumpServerVars
  <2> QED
    BY <1>2, <2>1, <2>2, <2>3
<1>4. CASE ServerAsk
  <2>1. PICK id \in unasked :
          serverOut' = Append(serverOut, <<Request("sampling", id, NoTool)>>)
    BY <1>4 DEF ServerAsk
  <2> DEFINE f == Request("sampling", id, NoTool)
             line == <<f>>
  <2>2. f \in Frames /\ f.type = "sampling"
    BY FrameTyped, EmptyListTyped DEF Request, Frame, FrameTypes, NoTool, PipeInv, FramesOK
  <2>3. line \in Seq(Frames) /\ ToSet(line) = {f} /\ serverOut' = Append(serverOut, line)
    BY <2>1, <2>2 DEF ToSet
  <2>4. sline' = sline
    BY <1>4 DEF ServerAsk, pumpServerVars
  <2> HIDE DEF f, line
  <2> QED
    BY <1>2, <2>2, <2>3, <2>4
<1>5. CASE PumpServerRead
  <2>1. serverOut # <<>> /\ sline' = Head(serverOut) /\ serverOut' = Tail(serverOut)
    BY <1>5 DEF PumpServerRead
  <2>2. FramesIn(serverOut) = ToSet(sline') \cup FramesIn(serverOut')
    BY <1>1, <2>1, FramesInPop
  <2> QED
    BY <2>2 DEF FromServer
<1>6. CASE PumpServerPrune
  <2>1. /\ sline' \in Seq(Frames) /\ Len(sline') = Len(sline)
        /\ \A j \in 1 .. Len(sline) : sline'[j].type = sline[j].type
    BY <1>6, PruneChangesList
  <2>2. /\ ToSet(sline) = {sline[i] : i \in 1 .. Len(sline)}
        /\ ToSet(sline') = {sline'[i] : i \in 1 .. Len(sline)}
    BY <1>1, <2>1, ToSetTyped
  <2>3. serverOut' = serverOut
    BY <1>6 DEF PumpServerPrune, pipes
  <2> QED
    BY <2>1, <2>2, <2>3 DEF FromServer
<1>7. CASE PumpServerWrite
  <2>1. serverOut' = serverOut /\ ToSet(sline') = {}
    BY <1>7, ToSetEmpty DEF PumpServerWrite
  <2> QED
    BY <2>1 DEF FromServer
<1>8. CASE \/ ClientStep \/ ClientReceive \/ ServerRead \/ PumpClient \/ PumpServerObserve
           \/ PumpServerStore \/ UNCHANGED vars
  <2>1. UNCHANGED <<serverOut, sline>>
    <3>1. CASE ClientStep
      BY <3>1, ClientStepMoves DEF ClientMoves, pumpServerVars
    <3> QED
      BY <1>8, <3>1
         DEF ClientReceive, ServerRead, PumpServerObserve, PumpServerStore, vars, pipes,
             pumpServerVars, PumpClient, PumpClientRead, PumpClientObserve, PumpClientForward,
             PumpClientCapability, PumpClientSwap, PumpClientNotify
  <2> QED
    BY <2>1 DEF FromServer
<1> QED
  BY <1>3, <1>4, <1>5, <1>6, <1>7, <1>8 DEF Next, ClientStep, PumpServer

-----------------------------------------------------------------------------
(* The answer to a request for a list that the client waits for, and those *)
(* it finds in its inbox.                                                  *)
AnswersOne(f, waiting) ==
  f.type = "response" /\ \E r \in waiting : r.id = f.id /\ r.type = "tools/list"
AnswersList(f) == AnswersOne(f, asked)
Answering == {f \in Frames : AnswersList(f)}

(* How the steps change what is an answer to a list.                       *)
LEMMA SendingAnswers ==
  ASSUME Sequential, PipeInv, PipeInv', Expecting, ClientStep
  PROVE  /\ Coming' = Coming /\ Past' = Past /\ Observed' = Observed
         /\ UNCHANGED <<cpc, creveal, spc, sline, sidx, schanged, clientIn, notifyPending>>
         /\ \A f \in Coming \cup Past : AnswersList(f)' <=> AnswersList(f)
<1>1. PICK line : ClientMoves(line)
  BY ClientStepMoves
<1>2. /\ UNCHANGED <<cline, cidx, serverIn, working>>
      /\ UNCHANGED <<cpc, creveal, spc, sline, sidx, schanged, clientIn, serverOut, notifyPending>>
      /\ clientOut' = Append(clientOut, line)
  BY <1>1 DEF ClientMoves, serverVars, pumpClientVars, pumpServerVars
<1>3. Observed' = Observed
  BY <1>2, SendMoves
<1>4. Coming' = Coming /\ Past' = Past
  BY <1>2, DownstreamUnchanged
<1>5. asked' = asked \/ asked = {}
  BY SequentialSends DEF SendsOne
<1>6. \A f \in Coming \cup Past : AnswersList(f)' <=> AnswersList(f)
  <2>1. CASE asked' = asked
    BY <2>1 DEF AnswersList, AnswersOne
  <2>2. CASE asked = {}
    <3>1. \A f \in Coming \cup Past : f.type # "response"
      BY <2>2 DEF Expecting, Expected
    <3> QED
      BY <3>1 DEF AnswersList, AnswersOne
  <2> QED
    BY <1>5, <2>1, <2>2
<1> QED
  BY <1>2, <1>3, <1>4, <1>6

LEMMA TakingAnswers ==
  ASSUME PipeInv, HeldOnce, ClientReceive
  PROVE  /\ Coming' = Coming /\ Past' \subseteq Past /\ Observed' = Observed
         /\ \A f \in Past : f = Head(clientIn) \/ f \in Past'
         /\ clientIn # <<>> /\ clientIn' = Tail(clientIn)
         /\ UNCHANGED <<cpc, creveal, spc, sline, sidx, schanged, notifyPending>>
         /\ \A f : AnswersList(f)' => AnswersList(f)
         /\ \A f \in Coming' \cup Past' : AnswersList(f) => AnswersList(f)'
<1> DEFINE h == Head(clientIn)
<1>1. /\ clientIn # <<>> /\ clientIn' = Tail(clientIn)
      /\ ToSet(clientIn) = {h} \cup ToSet(clientIn') /\ Observed' = Observed
  BY ReceiveKeeps
<1>2. /\ UNCHANGED <<cpc, creveal, spc, sline, sidx, schanged, serverOut, notifyPending>>
      /\ asked' = {r \in asked : ~(h.type = "response" /\ r.id = h.id)}
  BY DEF ClientReceive, pumpClientVars, pumpServerVars
<1>3. h.type = "response" => h.id \notin IdsAmong(Says, Coming' \cup Past')
  BY HeadAlone
<1> HIDE DEF h
<1>4. Coming' = Coming /\ Past' \subseteq Past /\ \A f \in Past : f = h \/ f \in Past'
  <2>1. Reached' = Reached
    BY <1>2 DEF Reached
  <2> QED
    BY <1>1, <1>2, <2>1 DEF Coming, Past
<1>5. \A f : AnswersList(f)' => AnswersList(f)
  BY <1>2 DEF AnswersList, AnswersOne
<1>6. \A f \in Coming' \cup Past' : f.type = "response" /\ h.type = "response" => f.id # h.id
  BY <1>3 DEF IdsAmong, Says
<1>7. \A f \in Coming' \cup Past' : AnswersList(f) => AnswersList(f)'
  BY <1>2, <1>6 DEF AnswersList, AnswersOne
<1> QED
  BY <1>1, <1>2, <1>4, <1>5, <1>7 DEF h

LEMMA PassingAnswers ==
  ASSUME PipeInv, Finished, Passing
  PROVE  \A f : AnswersList(f)' <=> AnswersList(f)
BY PassingUpstream DEF AnswersList, AnswersOne

LEMMA PruningAnswers ==
  ASSUME PipeInv, PumpServerPrune
  PROVE  /\ Coming' = Coming /\ Observed' = Observed
         /\ UNCHANGED <<cpc, creveal, clientIn, notifyPending>>
         /\ \A f : AnswersList(f)' <=> AnswersList(f)
         /\ \A f \in Past' : \E g \in Past : AnswersList(f)' => AnswersList(g)
         /\ \A f \in Past : \E g \in Past' : AnswersList(f) => AnswersList(g)'
<1>1. /\ sline' \in Seq(Frames) /\ Len(sline') = Len(sline)
      /\ sidx \in 1 .. Len(sline) /\ Len(sline) \in Nat
      /\ \A j \in 1 .. Len(sline) :
           sline'[j].type = sline[j].type /\ sline'[j].id = sline[j].id
  BY PruneChangesList
<1>2. /\ spc = "prune" /\ sidx' = sidx + 1 /\ spc' # "prune"
      /\ UNCHANGED <<cpc, creveal, clientIn, notifyPending, asked>>
      /\ UNCHANGED <<cline, cidx, clientOut, serverIn, working>>
  BY DEF PumpServerPrune, PumpServerAdvance, clientVars, serverVars, pipes, pumpClientVars
<1>3. Reached = sidx + 1 /\ Reached' = sidx + 1
  BY <1>2 DEF Reached
<1>4. 1 .. Reached - 1 = 1 .. sidx /\ 1 .. Reached' - 1 = 1 .. sidx
  BY <1>1, <1>3
<1>5. 1 .. sidx \subseteq 1 .. Len(sline)
  BY <1>1
<1>6. /\ Past = {sline[k] : k \in 1 .. sidx} \cup ToSet(clientIn)
      /\ Past' = {sline'[k] : k \in 1 .. sidx} \cup ToSet(clientIn)
  BY <1>2, <1>4 DEF Past
<1>7. \A f : AnswersList(f)' <=> AnswersList(f)
  BY <1>2 DEF AnswersList, AnswersOne
<1>8. \A k \in 1 .. sidx : AnswersList(sline'[k]) <=> AnswersList(sline[k])
  BY <1>1, <1>5 DEF AnswersList, AnswersOne
<1>9. \A f \in Past' : \E g \in Past : AnswersList(f) => AnswersList(g)
  BY <1>6, <1>8
<1>10. \A f \in Past : \E g \in Past' : AnswersList(f) => AnswersList(g)
  BY <1>6, <1>8
<1>11. /\ \A f \in Past' : \E g \in Past : AnswersList(f)' => AnswersList(g)
       /\ \A f \in Past : \E g \in Past' : AnswersList(f) => AnswersList(g)'
  BY <1>7, <1>9, <1>10
<1>12. Coming' = Coming /\ Observed' = Observed
  BY <1>2, PruneMoves, UpstreamUnchanged
<1> QED
  BY <1>2, <1>7, <1>11, <1>12

-----------------------------------------------------------------------------
(* From the call that reveals a tool to the notification, no list is asked *)
(* for where the pump has seen it, and none comes back: the client sent    *)
(* the call when it had its answers, and what it sends next is behind.     *)
RevealPath == creveal = TRUE \/ cpc \in {"capability", "swap", "notify"}
RevealFirst ==
  RevealPath => /\ \A f \in Observed : f.type # "tools/list"
                /\ \A f \in Coming \cup Past : ~AnswersList(f)

(* A line of one frame is passed on as soon as it has revealed a tool, and *)
(* a line that was changed is the answer to a request for a list.          *)
ChangedLine ==
  /\ spc = "store" => schanged = TRUE
  /\ schanged = TRUE => \E k \in 1 .. sidx - 1 : AnswersOne(sline[k], asked)
Shapes == (creveal = TRUE => cpc = "forward") /\ ChangedLine

LEMMA FirstFrame ==
  ASSUME PipeInv, OneFrame, PumpClientObserve
  PROVE  cidx = Len(cline)
<1>1. Len(cline) \in Nat /\ cidx \in 1 .. Len(cline) + 1 /\ cidx <= Len(cline) /\ Len(cline) <= 1
  BY LinesTyped, LenProperties DEF PumpClientObserve, PipeInv, ControlOK, OneFrame
<1> QED
  BY <1>1

(* The tool a call reveals.                                                *)
LEMMA RevealingCall ==
  ASSUME PipeInv, Expecting, OneAsked, FlagsOK, PumpClientObserve, creveal # TRUE, creveal' = TRUE
  PROVE  /\ cline[cidx].type = "tools/call" /\ cline[cidx] \in asked
         /\ \A r \in asked : r = cline[cidx]
<1> DEFINE f == cline[cidx]
<1>1. creveal' = (creveal \/ RevealedTool(f) # NoTool) /\ creveal = FALSE
  BY DEF PumpClientObserve, FlagsOK
<1>2. RevealedTool(f) # NoTool
  BY <1>1
<1>3. IsCall(f)
  BY <1>2 DEF RevealedTool
<1>4. f \in Unseen
  BY ObserveMovesOne
<1> HIDE DEF f
<1>5. f.type = "tools/call"
  BY <1>3 DEF IsCall
<1>6. f \in asked
  BY <1>4, <1>5 DEF Expecting, Asks
<1>7. \A r \in asked : r = f
  BY <1>6 DEF OneAsked
<1> QED
  BY <1>5, <1>6, <1>7 DEF f

LEMMA NextShapes ==
  ASSUME Sequential, PipeInv, PipeInv', HeldOnce, Finished, Registered, Expecting, OneFrame,
         FlagsOK, Shapes, [Next]_vars
  PROVE  Shapes'
<1>1. (creveal = TRUE => cpc = "forward")'
  <2>1. CASE PumpClientObserve
    <3>1. cidx = Len(cline)
      BY <2>1, FirstFrame
    <3> QED
      BY <2>1, <3>1 DEF PumpClientObserve
  <2>2. CASE PumpClientForward
    BY <2>2 DEF PumpClientForward
  <2>3. CASE ClientStep
    BY <2>3, SendingAnswers DEF Shapes
  <2>4. CASE \/ PumpClientRead \/ PumpClientCapability \/ PumpClientSwap \/ PumpClientNotify
             \/ ClientReceive \/ ServerRead \/ ServerAnswer \/ ServerAsk \/ PumpServer
             \/ UNCHANGED vars
    <3>1. creveal' = creveal /\ (cpc' = cpc \/ cpc \in {"read", "capability", "swap", "notify"})
      BY <2>4 DEF PumpClientRead, PumpClientCapability, PumpClientSwap, PumpClientNotify,
                  ClientReceive, ServerRead, ServerAnswer, ServerAsk, PumpServer, PumpServerRead,
                  PumpServerObserve, PumpServerPrune, PumpServerStore, PumpServerWrite,
                  vars, pumpClientVars
    <3> QED
      BY <3>1 DEF Shapes
  <2> QED
    BY <2>1, <2>2, <2>3, <2>4 DEF Next, ClientStep, PumpClient
<1>2. ASSUME UNCHANGED <<spc, sidx, schanged>>,
             \A k \in 1 .. sidx - 1 : AnswersOne(sline[k], asked) => AnswersOne(sline'[k], asked')
      PROVE  ChangedLine'
  BY <1>2 DEF Shapes, ChangedLine
<1>3. Reached \in {sidx, sidx + 1} /\ sidx \in Nat
  <2>1. sidx \in 1 .. Len(sline) + 1 /\ Len(sline) \in Nat
    BY LinesTyped, LenProperties DEF PipeInv, ControlOK
  <2> QED
    BY <2>1 DEF Reached
<1>4. \A k \in 1 .. sidx - 1 : sline[k] \in Past
  <2>1. 1 .. sidx - 1 \subseteq 1 .. Reached - 1
    BY <1>3
  <2> QED
    BY <2>1 DEF Past
<1>5. ChangedLine'
  <2>1. CASE ClientStep
    <3>1. \A f \in Coming \cup Past : AnswersOne(f, asked') <=> AnswersOne(f, asked)
      BY <2>1, SendingAnswers DEF AnswersList
    <3>2. UNCHANGED <<spc, sline, sidx, schanged>>
      BY <2>1, SendingAnswers
    <3>3. \A k \in 1 .. sidx - 1 : AnswersOne(sline[k], asked) => AnswersOne(sline'[k], asked')
      BY <1>4, <3>1, <3>2
    <3> QED
      BY <1>2, <3>2, <3>3
  <2>2. CASE ClientReceive
    <3>1. UNCHANGED <<spc, sline, sidx, schanged>>
      BY <2>2, TakingAnswers
    <3>2. \A f \in Coming' \cup Past' : AnswersList(f) => AnswersList(f)'
      BY <2>2, TakingAnswers
    <3>3. \A k \in 1 .. sidx - 1 : sline'[k] \in Past'
      <4>1. Reached' = Reached
        BY <3>1 DEF Reached
      <4>2. 1 .. sidx - 1 \subseteq 1 .. Reached' - 1
        BY <1>3, <4>1
      <4> QED
        BY <3>1, <4>2 DEF Past
    <3>4. \A k \in 1 .. sidx - 1 : AnswersOne(sline[k], asked) => AnswersOne(sline'[k], asked')
      BY <3>1, <3>2, <3>3 DEF AnswersList
    <3> QED
      BY <1>2, <3>1, <3>4
  <2>3. CASE PumpServerObserve
    <3>1. sline' = sline /\ asked' = asked
      BY <2>3 DEF PumpServerObserve, clientVars
    <3>2. \/ UNCHANGED <<sidx, schanged>> /\ spc' = "prune"
          \/ PumpServerAdvance(schanged)
      BY <2>3 DEF PumpServerObserve
    <3>3. sidx' \in {sidx, sidx + 1} /\ schanged' = schanged /\ (spc' = "store" => schanged = TRUE)
      BY <3>2 DEF PumpServerAdvance, FlagsOK
    <3>4. 1 .. sidx - 1 \subseteq 1 .. sidx' - 1
      <4>1. sidx' = sidx \/ sidx' = sidx + 1
        BY <3>3
      <4>2. CASE sidx' = sidx
        BY <4>2
      <4>3. CASE sidx' = sidx + 1
        BY <1>3, <4>3
      <4> QED
        BY <4>1, <4>2, <4>3
    <3> QED
      BY <3>1, <3>3, <3>4 DEF Shapes, ChangedLine
  <2>4. CASE PumpServerPrune
    <3>1. /\ Len(sline') = Len(sline) /\ sidx \in 1 .. Len(sline) /\ Len(sline) \in Nat
          /\ \A j \in 1 .. Len(sline) :
               sline'[j].type = sline[j].type /\ sline'[j].id = sline[j].id
      BY <2>4, PruneChangesList
    <3>2. sidx' = sidx + 1 /\ asked' = asked /\ spc = "prune"
      BY <2>4 DEF PumpServerPrune, PumpServerAdvance, clientVars
    <3>3. \A k \in 1 .. Len(sline) : AnswersOne(sline[k], asked) => AnswersOne(sline'[k], asked')
      BY <3>1, <3>2 DEF AnswersOne
    <3>4. 1 .. sidx - 1 \subseteq 1 .. sidx' - 1 /\ sidx \in 1 .. sidx' - 1
          /\ 1 .. sidx - 1 \subseteq 1 .. Len(sline)
      BY <3>1, <3>2
    <3>5. CASE Prunable(sline[sidx])
      <4>1. PumpServerAdvance(TRUE)
        BY <2>4, <3>1, <3>5 DEF PumpServerPrune
      <4>2. sline[sidx].type = "response" /\ HoldsOne(sline[sidx])
        BY <3>2, <3>5 DEF Registered, PruneReady, Prunable, HoldsOne
      <4>3. sline[sidx] \in Past
        <5>1. Reached = sidx + 1 /\ sidx \in 1 .. sidx + 1 - 1
          BY <3>1, <3>2 DEF Reached
        <5> QED
          BY <5>1 DEF Past
      <4>4. AnswersOne(sline[sidx], asked)
        BY <4>2, <4>3 DEF Expecting, Expected, Fits, AnswersOne
      <4>5. \E k \in 1 .. sidx' - 1 : AnswersOne(sline'[k], asked')
        BY <3>1, <3>3, <3>4, <4>4
      <4> QED
        BY <4>1, <4>5 DEF PumpServerAdvance, ChangedLine
    <3>6. CASE ~Prunable(sline[sidx])
      <4>1. PumpServerAdvance(schanged)
        BY <2>4, <3>6 DEF PumpServerPrune
      <4>2. schanged' = schanged /\ (spc' = "store" => schanged = TRUE)
        BY <4>1 DEF PumpServerAdvance, FlagsOK
      <4> QED
        BY <3>3, <3>4, <4>2 DEF Shapes, ChangedLine
    <3> QED
      BY <3>5, <3>6
  <2>5. CASE PumpServerRead \/ PumpServerWrite
    BY <2>5 DEF PumpServerRead, PumpServerWrite, ChangedLine
  <2>6. CASE PumpServerStore
    BY <2>6 DEF PumpServerStore, clientVars, Shapes, ChangedLine
  <2>7. CASE PumpClient \/ ServerRead \/ ServerAnswer \/ ServerAsk \/ UNCHANGED vars
    <3>1. UNCHANGED <<spc, sline, sidx, schanged, asked>>
      BY <2>7 DEF PumpClient, PumpClientRead, PumpClientObserve, PumpClientForward,
                  PumpClientCapability, PumpClientSwap, PumpClientNotify, ServerRead,
                  ServerAnswer, ServerAsk, vars, pumpServerVars, clientVars
    <3> QED
      BY <3>1 DEF Shapes, ChangedLine
  <2> QED
    BY <2>1, <2>2, <2>3, <2>4, <2>5, <2>6, <2>7 DEF Next, ClientStep, PumpServer
<1> QED
  BY <1>1, <1>5 DEF Shapes

LEMMA NextRevealFirst ==
  ASSUME Sequential, PipeInv, PipeInv', HeldOnce, Finished, Expecting, OneAsked, OneFrame,
         FlagsOK, Shapes, RevealFirst, [Next]_vars
  PROVE  RevealFirst'
<1>1. CASE ClientStep
  <2>1. /\ Coming' = Coming /\ Past' = Past /\ Observed' = Observed
        /\ UNCHANGED <<cpc, creveal>>
        /\ \A f \in Coming \cup Past : AnswersList(f)' <=> AnswersList(f)
    BY <1>1, SendingAnswers
  <2> QED
    BY <2>1 DEF RevealFirst, RevealPath
<1>2. CASE ClientReceive
  <2>1. /\ Coming' = Coming /\ Past' \subseteq Past /\ Observed' = Observed
        /\ UNCHANGED <<cpc, creveal>>
        /\ \A f : AnswersList(f)' => AnswersList(f)
    BY <1>2, TakingAnswers
  <2> QED
    BY <2>1 DEF RevealFirst, RevealPath
<1>3. CASE PumpServerPrune
  <2>1. /\ Coming' = Coming /\ Observed' = Observed
        /\ UNCHANGED <<cpc, creveal>>
        /\ \A f : AnswersList(f)' <=> AnswersList(f)
        /\ \A f \in Past' : \E g \in Past : AnswersList(f)' => AnswersList(g)
    BY <1>3, PruningAnswers
  <2> QED
    BY <2>1 DEF RevealFirst, RevealPath
<1>4. CASE ServerAnswer
  <2>1. PICK line \in Seq(Frames) \ {<<>>}, served \in SUBSET working :
          /\ serverOut' = Append(serverOut, line)
          /\ \A f \in ToSet(line) : \E r \in served : f \in Answer(r)
    BY <1>4, AnsweredLine
  <2>2. /\ UNCHANGED <<cpc, creveal, asked, spc, sline, sidx, clientIn>>
        /\ Observed' \subseteq Observed
    BY <1>4, ServerKeepsSeen DEF ServerAnswer, clientVars, pumpClientVars, pumpServerVars
  <2>3. Coming' = Coming \cup ToSet(line) /\ Past' = Past
    BY <2>1, <2>2, ServerSendMoves
  <2>4. ASSUME RevealPath, NEW f \in ToSet(line) PROVE ~AnswersList(f)
    <3>1. PICK r \in served : f \in Answer(r)
      BY <2>1, <2>4
    <3>2. f.id = r.id /\ r \in working
      BY <2>1, <3>1, AnswerIs
    <3>3. r \in Observed /\ r.type \in Asks
      BY <3>2 DEF Observed, HeldOnce, Alone
    <3>4. r \in asked /\ r.type # "tools/list"
      BY <2>4, <3>3 DEF Expecting, RevealFirst
    <3>5. \A s \in asked : s = r
      BY <3>4 DEF OneAsked
    <3> QED
      BY <3>4, <3>5 DEF AnswersList, AnswersOne
  <2> QED
    BY <2>2, <2>3, <2>4 DEF RevealFirst, RevealPath, AnswersList
<1>5. ASSUME Passing, RevealPath, RevealPath', Observed' \subseteq Observed
      PROVE  RevealFirst'
  <2>1. \A f : AnswersList(f)' <=> AnswersList(f)
    BY <1>5, PassingAnswers
  <2>2. \A f \in Coming' \cup Past' : f \in Coming \cup Past \/ f.type # "response"
    BY <1>5, PassingDownstream
  <2>3. \A f \in Coming' \cup Past' : ~AnswersList(f)
    BY <1>5, <2>2 DEF RevealFirst, AnswersList, AnswersOne
  <2> QED
    BY <1>5, <2>1, <2>3 DEF RevealFirst
<1>6. CASE PumpClientObserve
  <2>1. SUFFICES ASSUME RevealPath' PROVE RevealFirst'
    BY DEF RevealFirst
  <2>2. cpc = "observe" /\ cpc' \in {"observe", "forward"} /\ creveal # TRUE
    BY <1>6 DEF PumpClientObserve, Shapes
  <2>3. creveal' = TRUE
    BY <2>1, <2>2 DEF RevealPath
  <2> DEFINE c == cline[cidx]
  <2>4. c.type = "tools/call" /\ c \in asked /\ \A r \in asked : r = c
    BY <1>6, <2>2, <2>3, RevealingCall
  <2>5. Observed' = Observed \cup {c} /\ asked' = asked
    BY <1>6, ObserveMovesOne DEF PumpClientObserve, clientVars
  <2> HIDE DEF c
  <2>6. \A f \in Observed' : f.type # "tools/list"
    <3>1. SUFFICES ASSUME NEW f \in Observed, f.type = "tools/list" PROVE FALSE
      BY <2>4, <2>5
    <3>2. f \in asked
      BY <3>1 DEF Expecting, Asks
    <3> QED
      BY <2>4, <3>1, <3>2
  <2>7. \A f : ~AnswersOne(f, asked')
    BY <2>4, <2>5 DEF AnswersOne
  <2> QED
    BY <2>6, <2>7 DEF RevealFirst, AnswersList
<1>7. CASE Passing /\ ~PumpClientObserve
  <2>1. SUFFICES ASSUME RevealPath' PROVE RevealFirst'
    BY DEF RevealFirst
  <2>2. RevealPath
    BY <1>7, <2>1
       DEF Passing, PumpClientRead, PumpClientForward, PumpClientCapability, PumpClientSwap,
           PumpClientNotify, ServerRead, ServerAsk, PumpServerRead, PumpServerObserve,
           PumpServerStore, PumpServerWrite, vars, pumpClientVars, RevealPath
  <2>3. Observed' \subseteq Observed
    <3>1. CASE PumpClientRead \/ PumpClientForward \/ ServerRead \/ ServerAsk
      BY <3>1, ReadKeepsSeen, ForwardKeepsSeen, ServerKeepsSeen
    <3>2. CASE ~(PumpClientRead \/ PumpClientForward \/ ServerRead \/ ServerAsk)
      <4>1. UNCHANGED <<cline, cidx, clientOut, serverIn, working>>
        BY <1>7, <3>2
           DEF Passing, PumpClientCapability, PumpClientSwap, PumpClientNotify,
               PumpServerRead, PumpServerObserve, PumpServerStore, PumpServerWrite, vars,
               pipes, pumpClientVars, serverVars
      <4> QED
        BY <4>1, UpstreamUnchanged
    <3> QED
      BY <3>1, <3>2
  <2> QED
    BY <1>5, <1>7, <2>1, <2>2, <2>3
<1> QED
  BY <1>1, <1>2, <1>3, <1>4, <1>6, <1>7, AllSteps

-----------------------------------------------------------------------------
(* The client's inbox.  While a notification is in it the flag is set,     *)
(* unless the list it leads to came back already, and then it stands       *)
(* before that list; when the pump is to write one, there is none.         *)
Cleared ==
  notifyPending = FALSE /\ ~NoNotice(clientIn) => \E f \in Past : AnswersList(f)
NotifyShape == cpc = "notify" => notifyPending = TRUE /\ NoNotice(clientIn)
InboxInv ==
  /\ Cleared /\ NotifyShape
  /\ NoneBehind(Answering, clientIn) /\ OneNotice(clientIn)

(* A step that leaves the inbox and the flag alone.                        *)
LEMMA StillKeepsInbox ==
  ASSUME PipeInv, InboxInv, UNCHANGED <<clientIn, notifyPending>>,
         cpc' = "notify" => cpc = "notify",
         \A f \in Past : AnswersList(f) => \E g \in Past' : AnswersOne(g, asked'),
         \A f \in ToSet(clientIn) : AnswersOne(f, asked') => AnswersList(f)
  PROVE  InboxInv'
<1>1. Cleared'
  BY DEF InboxInv, Cleared, AnswersList
<1>2. NotifyShape'
  BY DEF InboxInv, NotifyShape
<1>3. NoneBehind(Answering, clientIn)'
  <2>1. clientIn \in Seq(Frames)
    BY LinesTyped
  <2>2. \A j \in 1 .. Len(clientIn) : clientIn[j] \in ToSet(clientIn)
    BY <2>1, ToSetTyped
  <2>3. \A j \in 1 .. Len(clientIn) : clientIn[j] \in Answering' => clientIn[j] \in Answering
    BY <2>2 DEF Answering, AnswersList
  <2> QED
    BY <2>3 DEF InboxInv, NoneBehind
<1> QED
  BY <1>1, <1>2, <1>3 DEF InboxInv

LEMMA InboxIsPast == ToSet(clientIn) \subseteq Past
BY DEF Past

LEMMA PassingKeepsInbox ==
  ASSUME PipeInv, Finished, InboxInv, Passing,
         ~PumpClientSwap, ~PumpClientNotify, ~PumpServerStore, ~PumpServerWrite
  PROVE  InboxInv'
<1>1. UNCHANGED <<clientIn, notifyPending, asked>> /\ (cpc' = "notify" => cpc = "notify")
  BY DEF Passing, PumpClientRead, PumpClientObserve, PumpClientForward, PumpClientCapability,
         ServerRead, ServerAsk, PumpServerRead, PumpServerObserve, vars, pipes, pumpClientVars,
         clientVars
<1>2. Past \subseteq Past'
  <2>1. CASE PumpServerRead
    BY <2>1, ServerPumpReadMoves
  <2>2. CASE PumpServerObserve
    BY <2>2, ServerObserveMoves
  <2>3. CASE ~PumpServerRead /\ ~PumpServerObserve
    <3>1. UNCHANGED <<spc, sline, sidx, clientIn>>
      BY <2>3 DEF Passing, PumpClientRead, PumpClientObserve, PumpClientForward,
                  PumpClientCapability, ServerRead, ServerAsk, vars, pipes, pumpServerVars
    <3> QED
      BY <3>1 DEF Past, Reached
  <2> QED
    BY <2>1, <2>2, <2>3
<1> QED
  BY <1>1, <1>2, StillKeepsInbox DEF AnswersList

LEMMA EnvironmentKeepsInbox ==
  ASSUME Sequential, PipeInv, PipeInv', HeldOnce, Expecting, InboxInv,
         ClientStep \/ ServerAnswer \/ PumpServerPrune
  PROVE  InboxInv'
<1>1. CASE ClientStep
  <2>1. /\ UNCHANGED <<cpc, clientIn, notifyPending>> /\ Past' = Past
        /\ \A f \in Past : AnswersOne(f, asked') <=> AnswersList(f)
    BY <1>1, SendingAnswers DEF AnswersList
  <2> QED
    BY <2>1, InboxIsPast, StillKeepsInbox
<1>2. CASE ServerAnswer
  <2>1. /\ UNCHANGED <<cpc, clientIn, notifyPending, asked>> /\ Past' = Past
    BY <1>2 DEF ServerAnswer, pumpClientVars, pumpServerVars, clientVars, Past, Reached
  <2> QED
    BY <2>1, StillKeepsInbox DEF AnswersList
<1>3. CASE PumpServerPrune
  <2>1. /\ UNCHANGED <<cpc, clientIn, notifyPending>>
        /\ \A f : AnswersOne(f, asked') <=> AnswersList(f)
        /\ \A f \in Past : \E g \in Past' : AnswersList(f) => AnswersOne(g, asked')
    BY <1>3, PruningAnswers DEF AnswersList
  <2> QED
    BY <2>1, StillKeepsInbox
<1> QED
  BY <1>1, <1>2, <1>3

(* The notification is taken.                                              *)
LEMMA TakingKeepsInbox ==
  ASSUME PipeInv, HeldOnce, InboxInv, ClientReceive
  PROVE  InboxInv'
<1> DEFINE h == Head(clientIn)
<1>1. /\ clientIn # <<>> /\ clientIn' = Tail(clientIn) /\ UNCHANGED <<cpc, notifyPending>>
      /\ \A f \in Past : f = h \/ f \in Past'
      /\ \A f : AnswersList(f)' => AnswersList(f)
      /\ \A f \in Coming' \cup Past' : AnswersList(f) => AnswersList(f)'
  BY TakingAnswers
<1>2. clientIn \in Seq(Frames) /\ h \in Frames
  BY <1>1, LinesTyped, ToSetPop
<1>3. NoneBehind(Answering, clientIn)
  BY DEF InboxInv
<1>4. /\ NoNotice(clientIn) => NoNotice(clientIn')
      /\ OneNotice(clientIn')
      /\ NoneBehind(Answering, clientIn')
      /\ h \in Answering => NoNotice(clientIn')
  BY <1>1, <1>2, <1>3, NoticesPop DEF InboxInv
<1> HIDE DEF h
<1>5. NoneBehind(Answering, clientIn)'
  <2>1. Answering' \subseteq Answering
    BY <1>1 DEF Answering
  <2> QED
    BY <1>4, <2>1 DEF NoneBehind
<1>6. Cleared'
  <2>1. SUFFICES ASSUME notifyPending = FALSE, ~NoNotice(clientIn')
                 PROVE  \E f \in Past' : AnswersList(f)'
    BY <1>1 DEF Cleared
  <2>2. PICK f \in Past : AnswersList(f)
    BY <1>4, <2>1 DEF InboxInv, Cleared
  <2>3. f # h
    BY <1>2, <1>4, <2>1, <2>2 DEF Answering
  <2> QED
    BY <1>1, <2>2, <2>3
<1> QED
  BY <1>1, <1>4, <1>5, <1>6 DEF InboxInv, NotifyShape

(* It is decided on, written, and the way for the next one is clear.       *)
LEMMA SwapKeepsInbox ==
  ASSUME PipeInv, FlagsOK, RevealFirst, InboxInv, PumpClientSwap
  PROVE  InboxInv'
<1>1. /\ UNCHANGED <<clientIn, asked>> /\ cpc = "swap" /\ notifyPending' = TRUE
      /\ cpc' = IF notifyPending THEN "read" ELSE "notify"
  BY DEF PumpClientSwap, pipes, clientVars
<1>2. notifyPending = FALSE => NoNotice(clientIn)
  BY <1>1 DEF InboxInv, Cleared, RevealFirst, RevealPath
<1>3. cpc' = "notify" => notifyPending = FALSE
  BY <1>1 DEF FlagsOK
<1>4. Answering' = Answering
  BY <1>1 DEF Answering, AnswersList
<1> QED
  BY <1>1, <1>2, <1>3, <1>4 DEF InboxInv, Cleared, NotifyShape

LEMMA NotifyKeepsInbox ==
  ASSUME PipeInv, RevealFirst, InboxInv, PumpClientNotify
  PROVE  InboxInv'
<1>1. /\ clientIn' = Append(clientIn, ToolsListChanged) /\ cpc = "notify" /\ cpc' = "read"
      /\ UNCHANGED <<notifyPending, asked>>
  BY DEF PumpClientNotify, clientVars
<1>2. clientIn \in Seq(Frames) /\ ToolsListChanged \in Frames
  BY LinesTyped, NoticeTyped
<1>3. notifyPending = TRUE /\ NoNotice(clientIn)
  BY <1>1 DEF InboxInv, NotifyShape
<1>4. \A k \in 1 .. Len(clientIn) : clientIn[k] \notin Answering
  <2>1. \A k \in 1 .. Len(clientIn) : clientIn[k] \in Past
    BY <1>2, ToSetTyped, InboxIsPast
  <2> QED
    BY <1>1, <2>1 DEF RevealFirst, RevealPath, Answering
<1>5. Answering' = Answering
  BY <1>1 DEF Answering, AnswersList
<1>6. OneNotice(clientIn') /\ NoneBehind(Answering, clientIn')
  BY <1>1, <1>2, <1>3, <1>4, NoticesAppend
<1> QED
  BY <1>1, <1>3, <1>5, <1>6 DEF InboxInv, Cleared, NotifyShape

LEMMA StoreKeepsInbox ==
  ASSUME PipeInv, FlagsOK, Shapes, RevealFirst, InboxInv, PumpServerStore
  PROVE  InboxInv'
<1>1. /\ UNCHANGED <<clientIn, asked, cpc, sline, sidx>> /\ spc = "store" /\ spc' = "write"
      /\ notifyPending' = FALSE
  BY DEF PumpServerStore, pipes, clientVars, pumpClientVars
<1>2. PICK k \in 1 .. sidx - 1 : AnswersList(sline[k])
  BY <1>1 DEF Shapes, ChangedLine, AnswersList
<1>3. Reached = sidx /\ Reached' = sidx
  BY <1>1 DEF Reached
<1>4. Past' = Past /\ sline[k] \in Past
  BY <1>1, <1>3 DEF Past
<1>5. ~RevealPath
  BY <1>2, <1>4 DEF RevealFirst
<1>6. Answering' = Answering /\ AnswersOne(sline[k], asked')
  BY <1>1, <1>2 DEF Answering, AnswersList
<1> QED
  BY <1>1, <1>4, <1>5, <1>6 DEF InboxInv, Cleared, NotifyShape, RevealPath, AnswersList

LEMMA WriteKeepsInbox ==
  ASSUME PipeInv, Finished, FromServer, InboxInv, PumpServerWrite
  PROVE  InboxInv'
<1>1. clientIn' = clientIn \o sline /\ UNCHANGED <<cpc, notifyPending, asked>>
  BY DEF PumpServerWrite, pumpClientVars, clientVars
<1>2. clientIn \in Seq(Frames) /\ sline \in Seq(Frames)
  BY LinesTyped
<1>3. NoNotice(sline)
  BY <1>2, ToSetTyped DEF FromServer, NoNotice
<1>4. /\ NoNotice(clientIn') <=> NoNotice(clientIn)
      /\ OneNotice(clientIn')
      /\ NoneBehind(Answering, clientIn')
  BY <1>1, <1>2, <1>3, NoticesConcat DEF InboxInv
<1>5. Past' = Past /\ Answering' = Answering
  BY <1>1, WriteMoves DEF Answering, AnswersList
<1> QED
  BY <1>1, <1>4, <1>5 DEF InboxInv, Cleared, NotifyShape, AnswersList

LEMMA NextInboxInv ==
  ASSUME Sequential, PipeInv, PipeInv', HeldOnce, Finished, Expecting, FlagsOK, Shapes,
         RevealFirst, FromServer, InboxInv, [Next]_vars
  PROVE  InboxInv'
BY AllSteps, PassingKeepsInbox, EnvironmentKeepsInbox, TakingKeepsInbox, SwapKeepsInbox,
   NotifyKeepsInbox, StoreKeepsInbox, WriteKeepsInbox

(* What holds while a sequential client is served.                         *)
SequentialInv ==
  /\ RegisterInv /\ Expecting /\ FlagsOK /\ OneAsked /\ OneFrame /\ FromServer
  /\ Shapes /\ RevealFirst /\ InboxInv

LEMMA InitSequentialInv == Init => SequentialInv
<1> SUFFICES ASSUME Init PROVE SequentialInv
  OBVIOUS
<1>1. /\ RegisterInv /\ asked = {} /\ clientOut = <<>> /\ cline = <<>> /\ serverIn = <<>>
      /\ serverOut = <<>> /\ sline = <<>> /\ clientIn = <<>> /\ working = {}
      /\ cpc = "read" /\ spc = "read" /\ cidx = 1 /\ sidx = 1
      /\ creveal = FALSE /\ schanged = FALSE /\ notifyPending = FALSE /\ stale = FALSE
  BY InitRegisterInv DEF Init
<1>2. FlagsOK /\ Shapes
  BY <1>1 DEF FlagsOK, Shapes, ChangedLine
<1>3. OneAsked /\ OneFrame
  BY <1>1 DEF OneAsked, OneFrame
<1>4. FromServer
  BY <1>1, ToSetEmpty DEF FromServer
<1>5. Expecting
  BY InitExpecting
<1>6. RevealFirst
  BY <1>1 DEF RevealFirst, RevealPath
<1>7. InboxInv
  BY <1>1 DEF InboxInv, Cleared, NotifyShape, NoneBehind, OneNotice, NoNotice
<1> QED
  BY <1>1, <1>2, <1>3, <1>4, <1>5, <1>6, <1>7 DEF SequentialInv

LEMMA NextSequentialInv ==
  ASSUME Sequential, SequentialInv, [Next]_vars
  PROVE  SequentialInv'
<1>1. RegisterInv' /\ PipeInv /\ PipeInv' /\ HeldOnce /\ Finished /\ Registered
  BY NextRegisterInv DEF SequentialInv, RegisterInv
<1>2. Expecting'
  BY <1>1, NextExpecting DEF SequentialInv, Sequential
<1>3. FlagsOK'
  BY NextFlagsOK DEF SequentialInv
<1>4. OneAsked' /\ OneFrame' /\ FromServer'
  BY <1>1, NextOneAsked, NextOneFrame, NextFromServer DEF SequentialInv
<1>5. Shapes' /\ RevealFirst' /\ InboxInv'
  BY <1>1, NextShapes, NextRevealFirst, NextInboxInv DEF SequentialInv
<1> QED
  BY <1>1, <1>2, <1>3, <1>4, <1>5 DEF SequentialInv

(* A client that waits for its answers, one frame to a line, never has two *)
(* notifications in its inbox: a burst of reveals collapses into one       *)
(* (proxy.go, maybeNotify).  What could break it is the flag cleared too   *)
(* early, by a list that was pruned before the notification was read; the  *)
(* request for that list was sent before the call, or after the reading.   *)
THEOREM NoticesCollapse == ASSUME Sequential PROVE Spec => []OneNotification
<1>1. SequentialInv => OneNotification
  <2> SUFFICES ASSUME SequentialInv PROVE Cardinality(NotificationsInFlight) <= 1
    BY DEF OneNotification
  <2>1. OneNotice(clientIn) /\ clientIn \in Seq(Frames)
    BY LinesTyped DEF SequentialInv, InboxInv, RegisterInv
  <2>2. DOMAIN clientIn = 1 .. Len(clientIn)
    BY <2>1, LenProperties
  <2>3. \A j, k \in NotificationsInFlight : j = k
    BY <2>1, <2>2 DEF OneNotice, NotificationsInFlight
  <2>4. CASE NotificationsInFlight = {}
    BY <2>4, FS_EmptySet
  <2>5. CASE NotificationsInFlight # {}
    <3>1. PICK j \in NotificationsInFlight : TRUE
      BY <2>5
    <3>2. NotificationsInFlight = {j}
      BY <2>3, <3>1
    <3> QED
      BY <3>2, FS_Singleton
  <2> QED
    BY <2>4, <2>5
<1> QED
  BY <1>1, InitSequentialInv, NextSequentialInv, PTL DEF Spec

-----------------------------------------------------------------------------
(* One list of all the tools, answered and never dropped from, by a server *)
(* that does not fail.                                                     *)
Refreshing ==
  Sequential /\ ListErrors = FALSE /\ Pages = <<Tools>> /\ DropBelow = 0

(* Before the handshake is over the client knows no tool, and only then    *)
(* can the session learn what the server declares.                         *)
NoView ==
  nextId = 1 \/ (\E r \in asked : r.type = "initialize") =>
    \A t \in Tools : view[t] # "compressed"
IniAsked == \A id \in pendingIni : \E r \in asked : r.id = id /\ r.type = "initialize"
(* A list on its way to the client is the last one, and the session knows  *)
(* what of it is compressed.                                               *)
ListExact == \A f \in Delivered : HoldsList(f) => CompOf(f.list) = compressed

LEMMA DeliveredIsPast == ASSUME PipeInv PROVE Delivered \subseteq Past
<1>1. sidx \in 1 .. Len(sline) + 1 /\ Len(sline) \in Nat
  BY LinesTyped, LenProperties DEF PipeInv, ControlOK
<1>2. 1 .. sidx - 1 \subseteq 1 .. Reached - 1
  <2>1. Reached = sidx \/ Reached = sidx + 1
    BY DEF Reached
  <2>2. CASE Reached = sidx
    BY <2>2
  <2>3. CASE Reached = sidx + 1
    BY <1>1, <2>3
  <2> QED
    BY <2>1, <2>2, <2>3
<1> QED
  BY <1>2 DEF Delivered, Past

LEMMA NextNoView ==
  ASSUME Sequential, PipeInv, HeldOnce, Expecting, OneAsked, NoView, [Next]_vars
  PROVE  NoView'
<1>1. CASE ClientStep
  <2>1. PICK f : SendsOne(f)
    BY <1>1, SequentialSends
  <2>2. view' = view /\ nextId' \in Nat /\ nextId <= nextId'
    BY <1>1, ClientStepMoves DEF ClientMoves
  <2>3. nextId \in Nat /\ \A r \in asked : nextId # 1
    <3>1. nextId \in Nat
      BY DEF PipeInv, FramesOK
    <3>2. \A r \in asked : r.id \in 1 .. nextId - 1
      BY DEF Expecting
    <3> QED
      BY <3>1, <3>2
  <2>4. CASE UNCHANGED <<asked, nextId>>
    BY <2>2, <2>4 DEF NoView
  <2>5. CASE asked' = {f} /\ nextId' = nextId + 1 /\ (f.type = "initialize" => nextId = 1)
    <3>1. nextId' = 1 => nextId = 0
      BY <2>3, <2>5
    <3>2. nextId # 0
      BY DEF HeldOnce, Apart
    <3> QED
      BY <2>2, <2>5, <3>1, <3>2 DEF NoView
  <2> QED
    BY <2>1, <2>4, <2>5 DEF SendsOne
<1>2. CASE ClientReceive
  <2> DEFINE f == Head(clientIn)
             answered == {r \in asked : f.type = "response" /\ r.id = f.id}
  <2>1. /\ nextId' = nextId /\ asked' = asked \ answered
        /\ IF \E r \in answered : r.type = "tools/list" /\ ~f.err
           THEN \E r \in answered : view' = Seen(r.arg, f.list)
           ELSE view' = view
    BY <1>2 DEF ClientReceive
  <2> HIDE DEF answered, f
  <2>2. CASE view' = view
    BY <2>1, <2>2 DEF NoView
  <2>3. CASE view' # view
    <3>1. PICK r \in answered : TRUE
      BY <2>1, <2>3
    <3>2. r \in asked
      BY <3>1 DEF answered
    <3>3. asked' = {}
      BY <2>1, <3>1, <3>2 DEF OneAsked
    <3>4. nextId # 1
      <4>1. nextId \in Nat /\ r.id \in 1 .. nextId - 1
        BY <3>2 DEF PipeInv, FramesOK, Expecting
      <4> QED
        BY <4>1
    <3> QED
      BY <2>1, <3>3, <3>4 DEF NoView
  <2> QED
    BY <2>2, <2>3
<1>3. CASE ~ClientStep /\ ~ClientReceive
  <2>1. UNCHANGED <<nextId, asked, view>>
    BY <1>3 DEF Next, ClientStep, ServerRead, ServerAnswer, ServerAsk, PumpClient, PumpClientRead,
                PumpClientObserve, PumpClientForward, PumpClientCapability, PumpClientSwap,
                PumpClientNotify, PumpServer, PumpServerRead, PumpServerObserve,
                PumpServerPrune, PumpServerStore, PumpServerWrite, vars, clientVars
  <2> QED
    BY <2>1 DEF NoView
<1> QED
  BY <1>1, <1>2, <1>3

LEMMA NextIniAsked ==
  ASSUME Cancels = FALSE, PipeInv, PipeInv', HeldOnce, Finished, Registered, Expecting,
         IniAsked, [Next]_vars
  PROVE  IniAsked'
<1>1. CASE ClientStep
  <2>1. asked \subseteq asked' /\ pendingIni' = pendingIni
    BY <1>1, ClientStepMoves DEF ClientMoves, Numbered, sessionVars
  <2> QED
    BY <2>1 DEF IniAsked
<1>2. CASE ClientReceive
  <2> DEFINE f == Head(clientIn)
  <2>1. /\ asked' = {r \in asked : ~(f.type = "response" /\ r.id = f.id)}
        /\ pendingIni' = pendingIni
    BY <1>2 DEF ClientReceive, sessionVars
  <2>2. f \in Past
    BY <1>2, ReceiveKeeps DEF Past
  <2> HIDE DEF f
  <2>3. ASSUME NEW id \in pendingIni, f.type = "response" PROVE f.id # id
    BY <2>2, <2>3 DEF Registered, InBetween, Pending, IdsAmong, Says
  <2> QED
    BY <2>1, <2>3 DEF IniAsked
<1>3. CASE PumpClientObserve
  <2> DEFINE f == cline[cidx]
  <2>1. ObserveClient(f) /\ asked' = asked
    BY <1>3 DEF PumpClientObserve, clientVars
  <2>2. f \in Unseen
    BY <1>3, ObserveMovesOne
  <2> HIDE DEF f
  <2>3. \/ pendingIni' = pendingIni
        \/ f.type = "initialize" /\ pendingIni' = WithId(pendingIni, f)
    BY <2>1, ObserveRegisters
  <2>4. f.type = "initialize" => f \in asked
    BY <2>2 DEF Expecting, Asks
  <2> QED
    BY <2>1, <2>3, <2>4 DEF IniAsked, WithId
<1>4. CASE PumpServerObserve
  <2>1. ObserveServer(sline[sidx]) /\ asked' = asked
    BY <1>4 DEF PumpServerObserve, ObserveServerFrame, clientVars
  <2>2. pendingIni' \subseteq pendingIni
    BY <2>1 DEF ObserveServer, Answered
  <2> QED
    BY <2>1, <2>2 DEF IniAsked
<1>5. CASE Quiet
  <2>1. UNCHANGED <<pendingIni, asked>>
    BY <1>5, QuietKeeps
  <2> QED
    BY <2>1 DEF IniAsked
<1> QED
  BY <1>1, <1>2, <1>3, <1>4, <1>5, StepKinds

(* The pruner's list: what it shows compressed is what the session knows,  *)
(* and the other tools it shows in full.                                   *)
LEMMA PrunedForms ==
  ASSUME DropBelow = 0, PipeInv, PumpServerPrune, Prunable(sline[sidx])
  PROVE  /\ DOMAIN sline'[sidx].list = DOMAIN sline[sidx].list
         /\ CompOf(sline'[sidx].list) = compressed'
         /\ \A t \in DOMAIN sline'[sidx].list : sline'[sidx].list[t] \in {"full", "compressed"}
<1> DEFINE page == DOMAIN sline[sidx].list
           list == sline'[sidx].list
<1>1. PICK base \in BaseScores(page) :
        PruneToolsResult(base) /\ list = PrunedList(Tiers(base))
  BY PruneChangesList
<1>2. DOMAIN list = page
  BY <1>1, NothingDropped
<1> DEFINE tier == Tiers(base)
<1>3. compressed' = InTier(tier, "compressed")
  BY <1>1 DEF PruneToolsResult, CompressedAfter
<1>4. \A t \in DOMAIN tier : tier[t] \in {"full", "compressed", "dropped"}
  BY DEF Tiers, Tier
<1>5. list = PrunedList(tier)
  BY <1>1
<1> HIDE DEF tier, list
<1>6. CompOf(list) = InTier(tier, "compressed")
  BY <1>5 DEF CompOf, PrunedList, InTier
<1>7. \A t \in DOMAIN list : list[t] \in {"full", "compressed"}
  BY <1>4, <1>5 DEF PrunedList, InTier
<1> QED
  BY <1>2, <1>3, <1>6, <1>7 DEF list

(* No list is on its way to the client while another one is pruned.        *)
LEMMA NoOtherList ==
  ASSUME PipeInv, HeldOnce, Expecting, OneAsked, spc = "prune", HoldsList(sline[sidx]),
         NEW f \in Delivered
  PROVE  ~HoldsList(f)
<1> SUFFICES ASSUME HoldsList(f) PROVE FALSE
  OBVIOUS
<1> DEFINE g == sline[sidx]
<1>1. /\ sline \in Seq(Frames) /\ clientIn \in Seq(Frames)
      /\ sidx \in 1 .. Len(sline) /\ Len(sline) \in Nat
  BY LinesTyped, LenProperties DEF PipeInv, ControlOK
<1>2. g \in Past
  <2>1. Reached = sidx + 1 /\ sidx \in 1 .. sidx + 1 - 1
    BY <1>1 DEF Reached
  <2> QED
    BY <2>1 DEF Past
<1>3. f.type = "response" /\ g.type = "response"
  BY DEF HoldsList
<1>4. f.id = g.id
  <2>1. f \in Past
    BY DeliveredIsPast
  <2>2. (\E r \in asked : r.id = f.id) /\ (\E r \in asked : r.id = g.id)
    BY <1>2, <1>3, <2>1 DEF Expecting, Expected, Fits
  <2> QED
    BY <2>2 DEF OneAsked
<1>5. CASE f \in ToSet(clientIn)
  <2>1. g \in ToSet(sline)
    BY <1>1, ToSetTyped
  <2>2. f.id \in Held["back"] /\ g.id \in Held["line"]
    BY <1>3, <1>5, <2>1 DEF Held, IdsAmong, Says
  <2>3. Held["back"] \cap Held["line"] = {}
    BY DEF HeldOnce, Apart, Places
  <2> QED
    BY <1>4, <2>2, <2>3
<1>6. CASE f \in {sline[k] : k \in 1 .. sidx - 1}
  <2>1. PICK k \in 1 .. sidx - 1 : f = sline[k]
    BY <1>6
  <2>2. k \in 1 .. Len(sline) /\ k # sidx /\ DOMAIN sline = 1 .. Len(sline)
    BY <1>1, <2>1, LenProperties
  <2> QED
    BY <1>1, <1>3, <1>4, <2>1, <2>2 DEF HeldOnce, Alone, Distinct, Says
<1> QED
  BY <1>5, <1>6 DEF Delivered

LEMMA NextListExact ==
  ASSUME Sequential, DropBelow = 0, PipeInv, PipeInv', HeldOnce, Finished, Registered, Expecting,
         OneAsked, FlagsOK, ListExact, [Next]_vars
  PROVE  ListExact'
<1>1. ASSUME compressed' = compressed, \A f \in Delivered' : f \in Delivered \/ ~HoldsList(f)
      PROVE  ListExact'
  BY <1>1 DEF ListExact, CompOf, HoldsList
<1>2. CASE \/ ClientStep \/ ClientReceive \/ ServerRead \/ ServerAnswer \/ ServerAsk
           \/ PumpClientRead \/ PumpClientForward \/ PumpClientCapability \/ PumpClientSwap
           \/ PumpServerStore \/ UNCHANGED vars
  <2>1. UNCHANGED <<compressed, sline, sidx>>
    <3>1. CASE ClientStep
      BY <3>1, ClientStepMoves DEF ClientMoves, sessionVars, pumpServerVars
    <3> QED
      BY <1>2, <3>1
         DEF ClientReceive, ServerRead, ServerAnswer, ServerAsk, PumpClientRead,
             PumpClientForward, PumpClientCapability, PumpClientSwap, PumpServerStore, vars,
             sessionVars, pumpServerVars
  <2>2. ToSet(clientIn') \subseteq ToSet(clientIn)
    <3>1. CASE ClientReceive
      BY <3>1, ReceiveKeeps
    <3>2. CASE ClientStep
      BY <3>2, ClientStepMoves DEF ClientMoves
    <3>3. CASE ~ClientReceive /\ ~ClientStep
      <4>1. clientIn' = clientIn
        BY <1>2, <3>3
           DEF ServerRead, ServerAnswer, ServerAsk, PumpClientRead, PumpClientForward,
               PumpClientCapability, PumpClientSwap, PumpServerStore, vars, pipes
      <4> QED
        BY <4>1
    <3> QED
      BY <3>1, <3>2, <3>3
  <2> QED
    BY <1>1, <2>1, <2>2 DEF Delivered
<1>3. CASE PumpClientNotify
  <2>1. clientIn' = Append(clientIn, ToolsListChanged) /\ UNCHANGED <<compressed, sline, sidx>>
    BY <1>3 DEF PumpClientNotify, sessionVars, pumpServerVars
  <2>2. ToSet(clientIn') = ToSet(clientIn) \cup {ToolsListChanged}
    BY <2>1, LinesTyped, NoticeTyped, ToSetAppend
  <2>3. ~HoldsList(ToolsListChanged)
    BY DEF HoldsList, ToolsListChanged, Frame
  <2> QED
    BY <1>1, <2>1, <2>2, <2>3 DEF Delivered
<1>4. CASE PumpServerRead
  <2>1. sidx' = 1 /\ UNCHANGED <<compressed, clientIn>>
    BY <1>4 DEF PumpServerRead, sessionVars
  <2>2. 1 .. sidx' - 1 = {}
    BY <2>1
  <2> QED
    BY <1>1, <2>1, <2>2 DEF Delivered
<1>5. CASE PumpServerWrite
  <2>1. /\ clientIn' = clientIn \o sline /\ sidx' = 1 /\ sidx = Len(sline) + 1
        /\ compressed' = compressed
    BY <1>5 DEF PumpServerWrite, sessionVars, Finished
  <2>2. sline \in Seq(Frames) /\ clientIn \in Seq(Frames) /\ Len(sline) \in Nat
    BY LinesTyped, LenProperties
  <2>3. ToSet(clientIn') = ToSet(clientIn) \cup ToSet(sline)
    BY <2>1, <2>2, ToSetConcat
  <2>4. ToSet(sline) = {sline[k] : k \in 1 .. sidx - 1}
    <3>1. sidx - 1 = Len(sline)
      BY <2>1, <2>2
    <3> QED
      BY <2>2, <3>1, ToSetTyped
  <2>5. 1 .. sidx' - 1 = {}
    BY <2>1
  <2>6. Delivered' = Delivered
    BY <2>3, <2>4, <2>5 DEF Delivered
  <2> QED
    BY <1>1, <2>1, <2>6
<1>6. CASE PumpServerObserve
  <2>1. UNCHANGED <<compressed, clientIn, sline>>
    BY <1>6 DEF PumpServerObserve, ObserveServerFrame, pipes
  <2>2. CASE IsToolsList(sline[sidx])
    <3>1. sidx' = sidx
      BY <1>6, <2>2 DEF PumpServerObserve
    <3> QED
      BY <1>1, <2>1, <3>1 DEF Delivered
  <2>3. CASE ~IsToolsList(sline[sidx])
    <3>1. ~HoldsList(sline[sidx])
      BY <1>6, <2>3, ListsArePrunable
    <3>2. sidx' = sidx + 1 /\ sidx \in 1 .. Len(sline)
      BY <1>6, <2>3, ServerObserveMoves DEF PumpServerObserve, PumpServerAdvance
    <3>3. \A k \in 1 .. sidx' - 1 : k \in 1 .. sidx - 1 \/ k = sidx
      BY <3>2
    <3> QED
      BY <1>1, <2>1, <3>1, <3>3 DEF Delivered
  <2> QED
    BY <2>2, <2>3
<1>7. CASE PumpClientObserve
  <2>1. UNCHANGED <<clientIn, sline, sidx, asked>> /\ ObserveClient(cline[cidx])
    BY <1>7 DEF PumpClientObserve, clientVars, pipes, pumpServerVars
  <2>2. Delivered' = Delivered
    BY <2>1 DEF Delivered
  <2>3. CASE compressed' = compressed
    BY <1>1, <2>2, <2>3
  <2>4. CASE compressed' # compressed
    <3> DEFINE c == cline[cidx]
    <3>1. IsCall(c) /\ c.arg \in compressed
      BY <2>1, <2>4 DEF ObserveClient, ObserveInitialize, ObserveToolsList, ObserveToolsCall,
                        ObserveOther, sessionVars
    <3>2. c.type = "tools/call" /\ c \in Unseen
      BY <1>7, <3>1, ObserveMovesOne DEF IsCall
    <3> HIDE DEF c
    <3>3. c \in asked
      BY <3>2 DEF Expecting, Asks
    <3>4. ASSUME NEW f \in Delivered, HoldsList(f) PROVE FALSE
      <4>1. f \in Past /\ f.type = "response" /\ HoldsOne(f)
        BY <3>4, DeliveredIsPast DEF HoldsList, HoldsOne
      <4>2. \E r \in asked : r.type = "tools/list"
        BY <4>1 DEF Expecting, Expected, Fits
      <4> QED
        BY <3>2, <3>3, <4>2 DEF OneAsked
    <3>5. \A f \in Delivered' : ~HoldsList(f)'
      BY <2>2, <3>4 DEF HoldsList
    <3> QED
      BY <3>5 DEF ListExact
  <2> QED
    BY <2>3, <2>4
<1>8. CASE PumpServerPrune
  <2> DEFINE f == sline[sidx]
  <2>1. spc = "prune" /\ clientIn' = clientIn /\ sidx' = sidx + 1
    BY <1>8 DEF PumpServerPrune, PumpServerAdvance, pipes
  <2>2. /\ sidx \in 1 .. Len(sline) /\ Len(sline) \in Nat
        /\ sline'[sidx].type = f.type
        /\ \A j \in 1 .. Len(sline) : j # sidx => sline'[j] = sline[j]
    BY <1>8, PruneChangesList
  <2>3. /\ \A k \in 1 .. sidx' - 1 : k \in 1 .. sidx - 1 \/ k = sidx
        /\ \A k \in 1 .. sidx - 1 : k \in 1 .. Len(sline) /\ k # sidx
    BY <2>1, <2>2
  <2>4. \A g \in Delivered' : g \in Delivered \/ g = sline'[sidx]
    BY <2>1, <2>2, <2>3 DEF Delivered
  <2>5. f.type = "response"
    BY <2>1 DEF Registered, PruneReady
  <2>6. CASE Prunable(f)
    <3>1. HoldsList(f)
      BY <2>5, <2>6 DEF HoldsList, Prunable
    <3>2. \A g \in Delivered : ~HoldsList(g)
      BY <2>1, <3>1, NoOtherList
    <3>3. CompOf(sline'[sidx].list) = compressed'
      BY <1>8, <2>6, PrunedForms
    <3>4. \A g \in Delivered' : HoldsList(g) => CompOf(g.list) = compressed'
      BY <2>4, <3>2, <3>3
    <3> QED
      BY <3>4 DEF ListExact, HoldsList, CompOf
  <2>7. CASE ~Prunable(f)
    <3>1. sline' = sline /\ compressed' = compressed
      BY <1>8, <2>7 DEF PumpServerPrune, sessionVars
    <3>2. ~HoldsList(f)
      <4>1. SUFFICES ASSUME HoldsList(f) PROVE FALSE
        OBVIOUS
      <4>2. HoldsOne(f) /\ f.err = TRUE
        <5>1. f \in Frames
          BY <2>2, LinesTyped, ElementOfSeq
        <5> QED
          BY <2>7, <4>1, <5>1 DEF Prunable, HoldsList, HoldsOne, Frames
      <4>3. f \in Past
        <5>1. sidx \in 1 .. Reached - 1
          BY <2>1, <2>2 DEF Reached
        <5> QED
          BY <5>1 DEF Past
      <4> QED
        BY <2>5, <4>2, <4>3 DEF Expecting, Expected, Fits
    <3> QED
      BY <1>1, <2>4, <3>1, <3>2
  <2> QED
    BY <2>6, <2>7
<1> QED
  BY <1>2, <1>3, <1>4, <1>5, <1>6, <1>7, <1>8 DEF Next, ClientStep, PumpClient, PumpServer

-----------------------------------------------------------------------------
(* What brings a tool back: the client is being told, or asks for a list,  *)
(* or a list with the tool in full is on its way.                          *)
Turning ==
  \/ RevealPath \/ Told \/ stale = TRUE
  \/ pendingLst # {} \/ spc = "prune" \/ ListAhead
Restored(t) ==
  \E f \in Delivered : HoldsList(f) /\ t \in DOMAIN f.list /\ f.list[t] = "full"
RefreshInv ==
  \A t \in Tools :
    caps = TRUE /\ view[t] = "compressed" /\ t \notin compressed => Turning \/ Restored(t)

LEMMA StillTurning ==
  ASSUME RefreshInv, UNCHANGED <<caps, view, compressed>>, Turning => Turning',
         Delivered \subseteq Delivered'
  PROVE  RefreshInv'
<1>1. \A t : Restored(t) => Restored(t)'
  BY DEF Restored, HoldsList
<1> QED
  BY <1>1 DEF RefreshInv

LEMMA ClientKeepsRefresh ==
  ASSUME PipeInv, PipeInv', RefreshInv, ClientStep
  PROVE  RefreshInv'
<1>1. PICK line : ClientMoves(line)
  BY ClientStepMoves
<1>2. /\ UNCHANGED <<caps, view, compressed, pendingLst, cline, cidx, serverIn, working>>
      /\ UNCHANGED <<cpc, creveal, spc, sline, sidx, clientIn>>
      /\ stale' # stale => \E f \in ToSet(line) : f.type = "tools/list"
  BY <1>1 DEF ClientMoves, Numbered, sessionVars, serverVars, pumpClientVars, pumpServerVars
<1>3. Unseen' = Unseen \cup ToSet(line)
  BY <1>1, <1>2, SendMoves DEF ClientMoves
<1>4. (ListAhead => ListAhead') /\ (stale' # stale => ListAhead')
  BY <1>2, <1>3 DEF ListAhead
<1>5. RevealPath' = RevealPath /\ Told' = Told /\ Delivered' = Delivered
  BY <1>2 DEF RevealPath, Told, Delivered
<1>6. Turning => Turning'
  BY <1>2, <1>4, <1>5 DEF Turning
<1> QED
  BY <1>2, <1>5, <1>6, StillTurning

(* The list the client takes: what it shows compressed, the session knows. *)
LEMMA ReceiveKeepsRefresh ==
  ASSUME Refreshing, PipeInv, HeldOnce, Expecting, ListExact, FlagsOK, RefreshInv, ClientReceive
  PROVE  RefreshInv'
<1> DEFINE f == Head(clientIn)
           answered == {r \in asked : f.type = "response" /\ r.id = f.id}
<1>1. /\ UNCHANGED <<caps, compressed, pendingLst, sline, sidx, cpc, creveal, spc>>
      /\ stale' = (stale \/ f.type = "list_changed")
      /\ IF \E r \in answered : r.type = "tools/list" /\ ~f.err
         THEN \E r \in answered : view' = Seen(r.arg, f.list)
         ELSE view' = view
  BY DEF ClientReceive, sessionVars, pumpServerVars, pumpClientVars
<1>2. /\ ToSet(clientIn) = {f} \cup ToSet(clientIn') /\ Unseen' = Unseen
  BY ReceiveKeeps
<1>3. f \in Past /\ f \in Delivered
  BY <1>2 DEF Past, Delivered
<1>4. Turning => Turning'
  <2>1. stale = TRUE => stale' = TRUE
    BY <1>1
  <2>2. f.type = "list_changed" => stale' = TRUE
    BY <1>1, Zenon DEF FlagsOK
  <2>3. Told => Told' \/ f.type = "list_changed"
    BY <1>2 DEF Told
  <2>4. ListAhead' = ListAhead /\ RevealPath' = RevealPath
    BY <1>1, <1>2 DEF ListAhead, RevealPath
  <2> QED
    BY <1>1, <2>1, <2>2, <2>3, <2>4 DEF Turning
<1>5. CASE \E r \in answered : r.type = "tools/list" /\ ~f.err
  <2>1. PICK q \in answered : q.type = "tools/list"
    BY <1>5
  <2>2. PICK r \in answered : view' = Seen(r.arg, f.list)
    BY <1>1, <1>5
  <2>3. r = q /\ r \in asked /\ f.type = "response"
    BY <2>1, <2>2 DEF Expecting
  <2>4. Pages[r.arg] = Tools
    <3>1. r \in Sendable /\ r.type = "tools/list"
      BY <2>1, <2>3 DEF PipeInv, FramesOK
    <3>2. r.arg \in DOMAIN Pages
      BY <3>1 DEF Sendable
    <3> QED
      BY <3>2 DEF Refreshing
  <2> HIDE DEF f, answered
  <2>5. ASSUME NEW t \in Tools, view'[t] = "compressed" PROVE t \in compressed
    <3>1. t \in DOMAIN f.list /\ f.list[t] = "compressed"
      BY <2>2, <2>4, <2>5 DEF Seen
    <3>2. HoldsList(f) /\ t \in CompOf(f.list)
      BY <2>3, <3>1 DEF HoldsList, CompOf
    <3> QED
      BY <1>3, <3>2 DEF ListExact
  <2> QED
    BY <1>1, <2>5 DEF RefreshInv
<1>6. CASE ~\E r \in answered : r.type = "tools/list" /\ ~f.err
  <2>1. view' = view
    BY <1>1, <1>6
  <2>2. ~HoldsList(f)
    BY <1>3, <1>6 DEF Expecting, Expected, Fits, HoldsList, HoldsOne
  <2> HIDE DEF f, answered
  <2>3. \A t : Restored(t) => Restored(t)'
    BY <1>1, <1>2, <2>2 DEF Restored, Delivered, HoldsList
  <2> QED
    BY <1>1, <1>4, <2>1, <2>3 DEF RefreshInv
<1> QED
  BY <1>5, <1>6

(* The pump towards the server: a call that reveals a tool, the            *)
(* capability, the flag, the notification.                                 *)
LEMMA CallKeepsRefresh ==
  ASSUME PipeInv, HeldOnce, FlagsOK, RefreshInv, PumpClientObserve
  PROVE  RefreshInv'
<1> DEFINE f == cline[cidx]
<1>1. /\ cpc = "observe" /\ ObserveClient(f)
      /\ UNCHANGED <<view, stale, clientIn, spc, sline, sidx>>
      /\ creveal' = (creveal \/ RevealedTool(f) # NoTool)
  BY DEF PumpClientObserve, clientVars, pipes, pumpServerVars
<1>2. Unseen = Unseen' \cup {f}
  BY ObserveMovesOne
<1>3. pendingLst' = IF f.type = "tools/list" THEN WithId(pendingLst, f) ELSE pendingLst
  BY <1>1, ObserveRegisters
<1>4. f.type = "tools/list" => pendingLst' # {}
  <2>1. SUFFICES ASSUME f.type = "tools/list" PROVE pendingLst' # {}
    OBVIOUS
  <2>2. f.id \in 1 .. nextId - 1 /\ nextId \in Nat
    BY <2>1, ClientFrameAlone DEF Asks, HeldOnce, Apart
  <2>3. f.id # NoId
    BY <2>2 DEF NoId
  <2> QED
    BY <1>3, <2>1, <2>3 DEF WithId
<1>5. caps' = caps /\ (compressed' = compressed \/ RevealedTool(f) # NoTool)
  <2>1. CASE ObserveToolsCall(f)
    <3>1. f.arg # NoTool
      <4>1. f.arg \in Tools
        BY <2>1 DEF ObserveToolsCall, IsCall
      <4> QED
        BY <4>1, PruneAssumption DEF NoTool
    <3> QED
      BY <2>1, <3>1 DEF ObserveToolsCall, RevealedTool
  <2>2. CASE ~ObserveToolsCall(f)
    BY <1>1, <2>2 DEF ObserveClient, ObserveInitialize, ObserveToolsList, ObserveOther, sessionVars
  <2> QED
    BY <2>1, <2>2
<1> HIDE DEF f
<1>6. creveal = TRUE \/ RevealedTool(f) # NoTool => creveal' = TRUE
  BY <1>1, Zenon
<1>7. Told' = Told /\ Delivered' = Delivered
  BY <1>1 DEF Told, Delivered
<1>8. Turning => Turning'
  <2>1. pendingLst # {} => pendingLst' # {}
    BY <1>3 DEF WithId
  <2>2. ListAhead => ListAhead' \/ pendingLst' # {}
    BY <1>2, <1>4 DEF ListAhead
  <2>3. RevealPath => RevealPath'
    BY <1>1, <1>6 DEF RevealPath
  <2> QED
    BY <1>1, <1>7, <2>1, <2>2, <2>3 DEF Turning
<1>9. CASE compressed' = compressed
  BY <1>1, <1>5, <1>7, <1>8, <1>9, StillTurning
<1>10. CASE RevealedTool(f) # NoTool
  BY <1>6, <1>10 DEF RefreshInv, Turning, RevealPath
<1> QED
  BY <1>5, <1>9, <1>10

LEMMA NotifyingKeepsRefresh ==
  ASSUME PipeInv, Finished, FlagsOK, Shapes, RevealFirst, FlagInv, RefreshInv,
         PumpClientForward \/ PumpClientCapability \/ PumpClientSwap \/ PumpClientNotify
  PROVE  RefreshInv'
<1>1. /\ UNCHANGED <<caps, view, compressed, pendingLst, stale, spc, sline, sidx>>
      /\ Unseen' = Unseen
  <2>1. Quiet
    BY DEF Quiet
  <2> QED
    BY <2>1, QuietKeeps
       DEF PumpClientForward, PumpClientCapability, PumpClientSwap, PumpClientNotify,
           sessionVars, clientVars, pumpServerVars
<1>2. Told => Told'
  <2>1. CASE PumpClientNotify
    <3>1. ToSet(clientIn') = ToSet(clientIn) \cup {ToolsListChanged}
      BY <2>1, LinesTyped, NoticeTyped, ToSetAppend DEF PumpClientNotify
    <3> QED
      BY <3>1 DEF Told
  <2>2. CASE ~PumpClientNotify
    BY <2>2 DEF PumpClientForward, PumpClientCapability, PumpClientSwap, pipes, Told
  <2> QED
    BY <2>1, <2>2
<1>3. Delivered \subseteq Delivered'
  <2>1. CASE PumpClientNotify
    <3>1. ToSet(clientIn') = ToSet(clientIn) \cup {ToolsListChanged}
      BY <2>1, LinesTyped, NoticeTyped, ToSetAppend DEF PumpClientNotify
    <3> QED
      BY <1>1, <3>1 DEF Delivered
  <2>2. CASE ~PumpClientNotify
    <3>1. clientIn' = clientIn
      BY <2>2 DEF PumpClientForward, PumpClientCapability, PumpClientSwap, pipes
    <3> QED
      BY <1>1, <3>1 DEF Delivered
  <2> QED
    BY <2>1, <2>2
<1>4. ListAhead' = ListAhead
  BY <1>1 DEF ListAhead
<1>5. ASSUME RevealPath => Turning' PROVE RefreshInv'
  <2>1. Turning => Turning'
    BY <1>1, <1>2, <1>4, <1>5 DEF Turning
  <2> QED
    BY <1>1, <1>3, <2>1, StillTurning
<1>6. CASE PumpClientForward
  <2>1. cpc = "forward" /\ (creveal = TRUE => cpc' = "capability")
    BY <1>6 DEF PumpClientForward
  <2> QED
    BY <1>5, <2>1 DEF Turning, RevealPath
<1>7. CASE PumpClientCapability
  <2>1. creveal' = creveal /\ cpc' = IF caps THEN "swap" ELSE "read"
    BY <1>7 DEF PumpClientCapability
  <2>2. CASE caps = TRUE
    BY <1>5, <2>1, <2>2 DEF Turning, RevealPath
  <2>3. CASE caps # TRUE
    BY <1>1, <2>3 DEF RefreshInv
  <2> QED
    BY <2>2, <2>3
<1>8. CASE PumpClientSwap
  <2>1. cpc = "swap" /\ cpc' = IF notifyPending THEN "read" ELSE "notify"
    BY <1>8 DEF PumpClientSwap
  <2>2. CASE notifyPending = FALSE
    BY <1>5, <2>1, <2>2 DEF Turning, RevealPath
  <2>3. CASE notifyPending = TRUE
    <3>1. Justified /\ cpc # "notify"
      BY <2>1, <2>3 DEF FlagInv
    <3>2. schanged # TRUE
      <4>1. SUFFICES ASSUME schanged = TRUE PROVE FALSE
        OBVIOUS
      <4>2. PICK k \in 1 .. sidx - 1 : AnswersList(sline[k])
        BY <4>1 DEF Shapes, ChangedLine, AnswersList
      <4>3. sline[k] \in Delivered
        BY DEF Delivered
      <4>4. sline[k] \in Past
        BY <4>3, DeliveredIsPast
      <4> QED
        BY <2>1, <4>2, <4>4 DEF RevealFirst, RevealPath
    <3>3. Told \/ stale = TRUE \/ pendingLst # {} \/ ListAhead \/ spc = "prune"
      BY <3>1, <3>2 DEF Justified, FlagsOK
    <3> QED
      BY <1>1, <1>2, <1>4, <1>5, <3>3 DEF Turning
  <2> QED
    BY <2>2, <2>3 DEF FlagsOK
<1>9. CASE PumpClientNotify
  <2>1. /\ clientIn' = Append(clientIn, ToolsListChanged)
        /\ ToolsListChanged.type = "list_changed"
    BY <1>9 DEF PumpClientNotify, ToolsListChanged, Frame
  <2>2. ToSet(clientIn') = ToSet(clientIn) \cup {ToolsListChanged}
    BY <2>1, LinesTyped, NoticeTyped, ToSetAppend
  <2> QED
    BY <1>5, <2>1, <2>2 DEF Turning, Told
<1> QED
  BY <1>6, <1>7, <1>8, <1>9

(* The pump towards the client: an answer, and the list that was pruned.   *)
LEMMA AnswerKeepsRefresh ==
  ASSUME PipeInv, HeldOnce, Registered, FlagsOK, NoView, IniAsked, RefreshInv, PumpServerObserve
  PROVE  RefreshInv'
<1> DEFINE f == sline[sidx]
<1>1. /\ spc = "observe" /\ ObserveServer(f)
      /\ UNCHANGED <<compressed, view, stale, cpc, creveal, clientIn, sline>>
      /\ UNCHANGED <<cline, cidx, clientOut, serverIn, working>>
  BY DEF PumpServerObserve, ObserveServerFrame, clientVars, serverVars, pipes, pumpClientVars
<1>2. CASE caps' # caps
  <2>1. f.id \in pendingIni
    BY <1>1, <1>2 DEF ObserveServer, Answers
  <2>2. \A t \in Tools : view[t] # "compressed"
    BY <2>1 DEF NoView, IniAsked
  <2> QED
    BY <1>1, <2>2 DEF RefreshInv
<1>3. CASE caps' = caps
  <2>1. ListAhead' = ListAhead /\ Told' = Told /\ RevealPath' = RevealPath
    BY <1>1, UpstreamUnchanged DEF ListAhead, Told, RevealPath
  <2>2. Delivered \subseteq Delivered'
    <3>1. sidx' = sidx \/ sidx' = sidx + 1
      BY DEF PumpServerObserve, PumpServerAdvance
    <3>2. sidx \in 1 .. Len(sline) /\ Len(sline) \in Nat
      BY ServerObserveMoves
    <3>3. 1 .. sidx - 1 \subseteq 1 .. sidx' - 1
      <4>1. CASE sidx' = sidx
        BY <4>1
      <4>2. CASE sidx' = sidx + 1
        BY <3>2, <4>2
      <4> QED
        BY <3>1, <4>1, <4>2
    <3> QED
      BY <1>1, <3>3 DEF Delivered
  <2>3. CASE IsToolsList(f)
    <3>1. spc' = "prune"
      BY <2>3 DEF PumpServerObserve
    <3> QED
      BY <1>1, <1>3, <2>2, <3>1, StillTurning DEF Turning
  <2>4. CASE ~IsToolsList(f)
    <3>1. pendingLst' = pendingLst
      BY <1>1, <2>4 DEF ObserveServer
    <3>2. Turning => Turning'
      BY <1>1, <2>1, <3>1 DEF Turning
    <3> QED
      BY <1>1, <1>3, <2>2, <3>2, StillTurning
  <2> QED
    BY <2>3, <2>4
<1> QED
  BY <1>2, <1>3

LEMMA PruneKeepsRefresh ==
  ASSUME Refreshing, PipeInv, Registered, CutInv, RefreshInv, PumpServerPrune
  PROVE  RefreshInv'
<1> DEFINE f == sline[sidx]
           g == sline'[sidx]
<1>1. spc = "prune" /\ sidx' = sidx + 1
  BY DEF PumpServerPrune, PumpServerAdvance
<1>2. f.type = "response" /\ Prunable(f)
  BY <1>1 DEF Registered, PruneReady, Refreshing
<1>3. sidx \in 1 .. Len(sline) /\ Len(sline) \in Nat /\ g.type = f.type
  BY PruneChangesList
<1>4. /\ DOMAIN g.list = DOMAIN f.list /\ CompOf(g.list) = compressed'
      /\ \A t \in DOMAIN g.list : g.list[t] \in {"full", "compressed"}
  BY <1>2, PrunedForms DEF Refreshing
<1>5. DOMAIN f.list = Tools
  <2>1. f \in Uncut
    <3>1. sidx \in sidx .. Len(sline)
      BY <1>3
    <3> QED
      BY <3>1 DEF Uncut
  <2>2. PICK p \in DOMAIN Pages : f.list = FullList(Pages[p])
    BY <1>2, <2>1 DEF CutInv, Whole, HoldsList, Prunable
  <2>3. Pages[p] = Tools
    BY <2>2 DEF Refreshing
  <2> QED
    BY <2>2, <2>3 DEF FullList
<1>6. g \in Delivered'
  <2>1. sidx \in 1 .. sidx' - 1
    BY <1>1, <1>3
  <2> QED
    BY <2>1 DEF Delivered
<1>7. \A t \in Tools : t \notin compressed' =>
        \E h \in Delivered' : h.type = "response" /\ DOMAIN h.list # {}
                               /\ t \in DOMAIN h.list /\ h.list[t] = "full"
  <2> HIDE DEF f, g
  <2> QED
    BY <1>2, <1>3, <1>4, <1>5, <1>6 DEF CompOf
<1> HIDE DEF f, g
<1> QED
  BY <1>7 DEF RefreshInv, Restored, HoldsList

LEMMA OtherStepsKeepRefresh ==
  ASSUME PipeInv, Finished, RefreshInv,
         \/ ServerRead \/ ServerAnswer \/ ServerAsk \/ PumpClientRead
         \/ PumpServerRead \/ PumpServerStore \/ PumpServerWrite \/ UNCHANGED vars
  PROVE  RefreshInv'
<1>1. /\ UNCHANGED <<caps, view, compressed, pendingLst, stale>>
      /\ Unseen' = Unseen
  <2>1. Quiet
    BY DEF Quiet
  <2> QED
    BY <2>1, QuietKeeps
       DEF ServerRead, ServerAnswer, ServerAsk, PumpClientRead, PumpServerRead,
           PumpServerStore, PumpServerWrite, vars, sessionVars, clientVars
<1>2. RevealPath => RevealPath'
  BY DEF ServerRead, ServerAnswer, ServerAsk, PumpClientRead, PumpServerRead, PumpServerStore,
         PumpServerWrite, vars, pumpClientVars, RevealPath
<1>3. spc = "prune" => spc' = "prune"
  BY DEF ServerRead, ServerAnswer, ServerAsk, PumpClientRead, PumpServerRead, PumpServerStore,
         PumpServerWrite, vars, pumpServerVars
<1>4. ToSet(clientIn) \subseteq ToSet(clientIn') /\ Delivered \subseteq Delivered'
  <2>1. CASE PumpServerWrite
    <3>1. clientIn' = clientIn \o sline /\ sidx = Len(sline) + 1
      BY <2>1 DEF PumpServerWrite, Finished
    <3>2. sline \in Seq(Frames) /\ clientIn \in Seq(Frames) /\ Len(sline) \in Nat
      BY LinesTyped, LenProperties
    <3>3. ToSet(clientIn') = ToSet(clientIn) \cup ToSet(sline)
      BY <3>1, <3>2, ToSetConcat
    <3>4. ToSet(sline) = {sline[k] : k \in 1 .. sidx - 1}
      <4>1. sidx - 1 = Len(sline)
        BY <3>1, <3>2
      <4> QED
        BY <3>2, <4>1, ToSetTyped
    <3> QED
      BY <3>3, <3>4 DEF Delivered
  <2>2. CASE PumpServerRead
    <3>1. sline = <<>> /\ sidx \in 1 .. Len(sline) + 1 /\ clientIn' = clientIn
      BY <2>2 DEF PumpServerRead, PipeInv, ControlOK
    <3>2. 1 .. sidx - 1 = {}
      BY <3>1
    <3> QED
      BY <3>1, <3>2 DEF Delivered
  <2>3. CASE ~PumpServerWrite /\ ~PumpServerRead
    <3>1. UNCHANGED <<clientIn, sline, sidx>>
      BY <2>3 DEF ServerRead, ServerAnswer, ServerAsk, PumpClientRead, PumpServerStore, vars,
                  pipes, pumpServerVars
    <3> QED
      BY <3>1 DEF Delivered
  <2> QED
    BY <2>1, <2>2, <2>3
<1>5. (Told => Told') /\ ListAhead' = ListAhead
  BY <1>1, <1>4 DEF Told, ListAhead
<1>6. Turning => Turning'
  BY <1>1, <1>2, <1>3, <1>5 DEF Turning
<1> QED
  BY <1>1, <1>4, <1>6, StillTurning

LEMMA NextRefreshInv ==
  ASSUME Refreshing, PipeInv, PipeInv', HeldOnce, Finished, Registered, Expecting, FlagsOK,
         Shapes, RevealFirst, FlagInv, CutInv, NoView, IniAsked, ListExact, RefreshInv,
         [Next]_vars
  PROVE  RefreshInv'
BY ClientKeepsRefresh, ReceiveKeepsRefresh, CallKeepsRefresh, NotifyingKeepsRefresh,
   AnswerKeepsRefresh, PruneKeepsRefresh, OtherStepsKeepRefresh
   DEF Next, ClientStep, PumpClient, PumpServer

(* What holds while a sequential client is served by such a server.        *)
RefreshingInv ==
  /\ SequentialInv /\ FlagInv /\ CutInv
  /\ NoView /\ IniAsked /\ ListExact /\ RefreshInv

LEMMA InitRefreshingInv == Init => RefreshingInv
<1> SUFFICES ASSUME Init PROVE RefreshingInv
  OBVIOUS
<1>1. FlagInv
  BY DEF Init, FlagInv
<1>2. Delivered = {}
  <2>1. sidx = 1 /\ clientIn = <<>>
    BY DEF Init
  <2>2. 1 .. sidx - 1 = {}
    BY <2>1
  <2> QED
    BY <2>1, <2>2, ToSetEmpty DEF Delivered
<1>3. ListExact
  BY <1>2 DEF ListExact
<1>4. pendingIni = {} /\ \A t \in Tools : view[t] = "unknown"
  BY DEF Init, SessionInit
<1>5. NoView /\ IniAsked /\ RefreshInv
  BY <1>4 DEF NoView, IniAsked, RefreshInv
<1> QED
  BY <1>1, <1>3, <1>5, InitSequentialInv, InitCutInv DEF RefreshingInv

LEMMA NextRefreshingInv ==
  ASSUME Refreshing, RefreshingInv, [Next]_vars
  PROVE  RefreshingInv'
<1>1. /\ RegisterInv /\ PipeInv /\ PipeInv' /\ HeldOnce /\ Finished /\ Registered /\ FlagsOK
      /\ Expecting /\ OneAsked /\ Shapes /\ RevealFirst
  BY NextPipeInv DEF RefreshingInv, SequentialInv, RegisterInv
<1>2. Sequential /\ Cancels = FALSE /\ ListErrors = FALSE /\ DropBelow = 0
  BY DEF Refreshing, Sequential
<1>3. SequentialInv'
  BY <1>2, NextSequentialInv DEF RefreshingInv
<1>4. FlagInv' /\ CutInv'
  BY <1>1, <1>2, NextFlagInv, NextCutInv DEF RefreshingInv
<1>5. NoView' /\ IniAsked' /\ ListExact'
  BY <1>1, <1>2, NextNoView, NextIniAsked, NextListExact DEF RefreshingInv
<1>6. RefreshInv'
  BY <1>1, NextRefreshInv DEF RefreshingInv
<1> QED
  BY <1>3, <1>4, <1>5, <1>6 DEF RefreshingInv

(* No reveal is lost: while a sequential client holds the compressed form  *)
(* of a tool that was called, it is being told to refresh its list, or     *)
(* asks for it, or a list with the tool in full is on its way, whatever    *)
(* the reveals, lists and notifications that cross (proxy.go, maybeNotify  *)
(* and rewriteServerFrame; session.go, ObserveClient).                     *)
THEOREM NoRefreshIsLost == ASSUME Refreshing PROVE Spec => []NoLostRefresh
<1>1. RefreshingInv => NoLostRefresh
  <2> SUFFICES ASSUME RefreshingInv, NEW t \in Tools,
                      caps = TRUE, view[t] = "compressed", t \notin compressed
               PROVE  \/ NotificationDue \/ ListDue
                      \/ \E f \in ListsInFlight : t \in DOMAIN f.list /\ f.list[t] = "full"
    BY DEF NoLostRefresh
  <2>1. PipeInv
    BY DEF RefreshingInv, SequentialInv, RegisterInv
  <2>2. Turning \/ Restored(t)
    BY DEF RefreshingInv, RefreshInv
  <2>3. CASE Turning
    BY <2>1, <2>3, ToldIsDue, AheadIsDue DEF Turning, RevealPath, NotificationDue, ListDue
  <2>4. CASE Restored(t)
    <3>1. PICK f \in Delivered : HoldsList(f) /\ t \in DOMAIN f.list /\ f.list[t] = "full"
      BY <2>4 DEF Restored
    <3>2. Delivered \subseteq ToSet(clientIn) \cup ToSet(Done)
      <4>1. /\ sline \in Seq(Frames) /\ Len(sline) \in Nat /\ sidx \in 1 .. Len(sline) + 1
        BY <2>1, LinesTyped, LenProperties DEF PipeInv, ControlOK
      <4>2. 1 \in Int /\ sidx - 1 \in Int /\ \A i \in 1 .. sidx - 1 : sline[i] \in Frames
        BY <4>1, ElementOfSeq
      <4>3. /\ Done \in Seq(Frames)
            /\ Len(Done) = (IF 1 <= sidx - 1 THEN (sidx - 1) - 1 + 1 ELSE 0)
            /\ \A i \in 1 .. (sidx - 1) - 1 + 1 : Done[i] = sline[1 + i - 1]
        BY <4>2, SubSeqProperties DEF Done
      <4>4. \A k \in 1 .. sidx - 1 : k \in 1 .. Len(Done) /\ Done[k] = sline[k]
        BY <4>1, <4>3
      <4>5. ToSet(Done) = {Done[k] : k \in 1 .. Len(Done)}
        BY <4>3, ToSetTyped
      <4> QED
        BY <4>4, <4>5 DEF Delivered
    <3> QED
      BY <3>1, <3>2 DEF ListsInFlight, HoldsList, Done
  <2> QED
    BY <2>2, <2>3, <2>4
<1> QED
  BY <1>1, InitRefreshingInv, NextRefreshingInv, PTL DEF Spec
=============================================================================
