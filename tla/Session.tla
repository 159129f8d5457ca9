------------------------------ MODULE Session ------------------------------
(***************************************************************************)
(* The state one connection keeps (session/session.go): which tools the    *)
(* client holds in compressed form, which the model called and when, which *)
(* requests are waiting for a response, what the server declared.  Every   *)
(* operation runs under the session's lock and is one step.                *)
(*                                                                         *)
(* Of the graph the session owns, only the execution counter matters here  *)
(* (ToolGraph models the rest); the graph and the term window reach the    *)
(* session as the base scores of PruneTiers.                               *)
(***************************************************************************)
EXTENDS PruneTiers

CONSTANTS
  MaxNodes,   \* Config.MaxNodes, any integer: Normalize does not clamp it
  Ids,        \* the request ids a client may use
  MaxCalls,   \* bound of the model: tools/call requests in a behavior
  MaxLists    \* bound of the model: tools/list results pruned in a behavior

NoId == 0
NoTool == 0

ASSUME SessionAssumption ==
  /\ MaxNodes \in Int
  /\ Ids \subseteq Nat \ {NoId}
  /\ MaxCalls \in Nat /\ MaxLists \in Nat

VARIABLES
  seq,         \* graph.Seq(): executions recorded
  revealed,    \* Session.revealed: the execution at which a tool was called
  compressed,  \* Session.compressed
  pendingLst,  \* ids of tools/list requests without a response
  pendingCal,  \* ids of tools/call requests without a response
  pendingIni,  \* ids of initialize requests without a response
  caps,        \* caps.ToolsListChanged
  agg          \* Aggregate: lists, toolCalls, reveals

sessionVars ==
  <<seq, revealed, compressed, pendingLst, pendingCal, pendingIni, caps, agg>>

-----------------------------------------------------------------------------
(* Frames.  A notification has no id.  Of a payload only what the session  *)
(* reads is kept: the tool of a call (NoTool when ParseToolsCall rejects   *)
(* it), the listChanged capability of an initialize result, and the tools  *)
(* of a list with their form, <<>> when it has none.                       *)
Frame(type, id, arg, err, listChanged, list) ==
  [type |-> type, id |-> id, arg |-> arg, err |-> err,
   listChanged |-> listChanged, list |-> list]

Request(type, id, arg) == Frame(type, id, arg, FALSE, FALSE, <<>>)
Response(id, err, listChanged, list) ==
  Frame("response", id, NoTool, err, listChanged, list)

FullList(page) == [t \in page |-> "full"]

(* Every frame there can be.  "sampling" stands for the requests a server  *)
(* makes of its client, "cancelled" and "list_changed" for notifications.  *)
FrameTypes ==
  {"initialize", "tools/list", "tools/call", "other", "cancelled",
   "list_changed", "sampling", "response"}

Lists == UNION {[page -> {"full", "compressed"}] : page \in SUBSET Tools}

Frames == [type : FrameTypes, id : Nat, arg : Nat, err : BOOLEAN,
           listChanged : BOOLEAN, list : Lists]

SessionInit ==
  /\ seq = 0
  /\ revealed = [t \in Tools |-> 0]
  /\ compressed = {}
  /\ pendingLst = {} /\ pendingCal = {} /\ pendingIni = {}
  /\ caps = FALSE
  /\ agg = [lists |-> 0, toolCalls |-> 0, reveals |-> 0]

-----------------------------------------------------------------------------
(* ObserveClient                                                           *)

IsCall(f) == f.type = "tools/call" /\ f.arg \in Tools

(* ClientEvent.RevealedTool: the call reaches for a compressed tool.       *)
RevealedTool(f) == IF IsCall(f) /\ f.arg \in compressed THEN f.arg ELSE NoTool

\* Mutant of WithId: a notification leaves an entry no response can remove.
WithIdAlways(pending, f) == pending \cup {f.id}

WithId(pending, f) == IF f.id = NoId THEN pending ELSE pending \cup {f.id}

\* Mutants of PruneRevealed: it never runs; it spares one entry too few.
PruneRevealedNever(rev, now) == rev
PruneRevealedEarly(rev, now) ==
  IF Cardinality({t \in Tools : rev[t] # 0}) <= MaxNodes
  THEN rev
  ELSE [t \in Tools |-> IF now - rev[t] >= RevealSteps THEN 0 ELSE rev[t]]

(* pruneRevealed, at the end of every call: over budget, the entries older *)
(* than the reveal window go.                                              *)
PruneRevealed(rev, now) ==
  IF Cardinality({t \in Tools : rev[t] # 0}) <= MaxNodes
  THEN rev
  ELSE [t \in Tools |-> IF now - rev[t] > RevealSteps THEN 0 ELSE rev[t]]

\* Mutant of RevealStamp: the stamp of the execution still to come.
RevealStampNext == seq + 2

(* graph.Seq() once the call is recorded.                                  *)
RevealStamp == seq + 1

ObserveInitialize(f) ==
  /\ f.type = "initialize"
  /\ pendingIni' = WithId(pendingIni, f)
  /\ UNCHANGED <<seq, revealed, compressed, pendingLst, pendingCal, caps, agg>>

ObserveToolsList(f) ==
  /\ f.type = "tools/list"
  /\ pendingLst' = WithId(pendingLst, f)
  /\ UNCHANGED <<seq, revealed, compressed, pendingCal, pendingIni, caps, agg>>

ObserveToolsCall(f) ==
  /\ IsCall(f)
  /\ seq' = seq + 1
  /\ pendingCal' = WithId(pendingCal, f)
  /\ revealed' = PruneRevealed([revealed EXCEPT ![f.arg] = RevealStamp], seq + 1)
  /\ compressed' = compressed \ {f.arg}
  /\ agg' = [lists |-> agg.lists,
              toolCalls |-> agg.toolCalls + 1,
              reveals |-> agg.reveals + (IF f.arg \in compressed THEN 1 ELSE 0)]
  /\ UNCHANGED <<pendingLst, pendingIni, caps>>

(* Anything else at most feeds the term window.                            *)
ObserveOther(f) ==
  /\ f.type \notin {"initialize", "tools/list"} /\ ~IsCall(f)
  /\ UNCHANGED sessionVars

ObserveClient(f) ==
  \/ ObserveInitialize(f)
  \/ ObserveToolsList(f)
  \/ ObserveToolsCall(f)
  \/ ObserveOther(f)

-----------------------------------------------------------------------------
(* ObserveServer: the three pending sets are asked in this order.          *)

\* Mutant of Answers: a request of the server with the same id counts too.
AnswersAnyKind(pending, f) == f.id # NoId /\ f.id \in pending

(* Each side numbers its own requests: only a response can answer one.     *)
Answers(pending, f) == f.type = "response" /\ f.id # NoId /\ f.id \in pending

\* Mutant of Answered: the entry stays.
AnsweredKept(pending, f) == pending

Answered(pending, f) == pending \ {f.id}

(* The result of ObserveServer: the frame goes on to PruneToolsResult.     *)
IsToolsList(f) ==
  Answers(pendingLst, f) /\ ~Answers(pendingIni \cup pendingCal, f)

ObserveServer(f) ==
  \/ /\ Answers(pendingIni, f)
     /\ pendingIni' = Answered(pendingIni, f)
     /\ caps' = IF f.err THEN caps ELSE f.listChanged
     /\ UNCHANGED <<pendingLst, pendingCal>>
  \/ /\ Answers(pendingCal, f) /\ ~Answers(pendingIni, f)
     /\ pendingCal' = Answered(pendingCal, f)
     /\ UNCHANGED <<pendingLst, pendingIni, caps>>
  \/ /\ IsToolsList(f)
     /\ pendingLst' = Answered(pendingLst, f)
     /\ UNCHANGED <<pendingCal, pendingIni, caps>>
  \/ /\ ~Answers(pendingIni \cup pendingCal \cup pendingLst, f)
     /\ UNCHANGED <<pendingLst, pendingCal, pendingIni, caps>>

ObserveServerFrame(f) ==
  /\ ObserveServer(f)
  /\ UNCHANGED <<seq, revealed, compressed, agg>>

-----------------------------------------------------------------------------
(* PruneToolsResult on a list the session understands: the tiers are       *)
(* decided, and the set of compressed tools is REPLACED by this list's.    *)

(* Another shape, as that of an error, or an empty list is returned        *)
(* untouched.  Whether the frame is an error is not asked here.            *)
Prunable(f) == DOMAIN f.list # {}

Tiers(base) == Tier(Score(base, revealed, seq))

(* What is left of the list: dropped tools are not in it.                  *)
PrunedList(tier) ==
  [t \in DOMAIN tier \ InTier(tier, "dropped") |-> tier[t]]

\* Mutant of CompressedAfter: the tools of earlier lists stay.
CompressedAfterUnion(tier) == compressed \cup InTier(tier, "compressed")

CompressedAfter(tier) == InTier(tier, "compressed")

PruneToolsResult(base) ==
  /\ compressed' = CompressedAfter(Tiers(base))
  /\ agg' = [agg EXCEPT !.lists = @ + 1]
  /\ UNCHANGED <<seq, revealed, pendingLst, pendingCal, pendingIni, caps>>

-----------------------------------------------------------------------------
(* The session on its own: any client frame, any server frame and any list *)
(* at any time.  The proxy's two pumps call it in fewer orders.            *)

ClientFrames ==
  {Request(type, id, arg) :
     type \in {"initialize", "tools/list", "tools/call", "other", "response"},
     id \in Ids \cup {NoId}, arg \in Tools \cup {NoTool}}

ServerFrames ==
  {Response(id, err, listChanged, <<>>) :
     id \in Ids \cup {NoId}, err \in BOOLEAN, listChanged \in BOOLEAN}
  \cup {Request("sampling", id, NoTool) : id \in Ids \cup {NoId}}

SessionCall ==
  \/ \E f \in ClientFrames : ObserveClient(f)
  \/ \E f \in ServerFrames : ObserveServerFrame(f)
  \/ \E page \in (SUBSET Tools) \ {{}} :
       \E base \in BaseScores(page) : PruneToolsResult(base)

SessionCalls == SessionInit /\ [][SessionCall]_sessionVars

(* The same within the bounds of the model.                                *)
SessionNext == SessionCall /\ seq' <= MaxCalls /\ agg'.lists <= MaxLists

SessionSpec == SessionInit /\ [][SessionNext]_sessionVars

-----------------------------------------------------------------------------
(* The type of the state.  An entry of `revealed` never lies ahead of the  *)
(* execution counter, on which the unsigned age in pruneRevealed relies.   *)
SessionTypeOK ==
  /\ seq \in Nat
  /\ revealed \in [Tools -> 0 .. seq]
  /\ compressed \subseteq Tools
  /\ pendingLst \subseteq Ids
  /\ pendingCal \subseteq Ids
  /\ pendingIni \subseteq Ids
  /\ caps \in BOOLEAN
  /\ agg \in [lists : Nat, toolCalls : Nat, reveals : Nat]

RevealedEntries == {t \in Tools : revealed[t] # 0}

(* The reveal set is bounded (session.go, pruneRevealed): by MaxNodes, or  *)
(* by the tools one reveal window can hold when that is more.              *)
RevealedBound ==
  Cardinality(RevealedEntries) <=
    (IF MaxNodes > RevealSteps + 1 THEN MaxNodes ELSE RevealSteps + 1)

(* Bounding the set never costs a tool its reveal bonus: an entry inside   *)
(* the window is only ever replaced by a newer one.                        *)
WindowedRevealsKept ==
  [][\A t \in Tools :
       (revealed[t] # 0 /\ seq' - revealed[t] <= RevealSteps) =>
         revealed'[t] \in {revealed[t], seq'}]_sessionVars

(* No compressed tool was called within the last RevealSteps executions:   *)
(* README, "that tool is pinned at full fidelity for the next revealSteps  *)
(* executions".  The code adds a bonus to a score and pins nothing.        *)
NoRecentCallCompressed ==
  \A t \in compressed : ~InWindow(revealed, seq, t)

(* The budget covers the pins and every tool a window can reveal, and the  *)
(* bonus outweighs the other signals together.                             *)
PromiseAffordable ==
  /\ TopN >= Cardinality(Pinned) + RevealSteps + 1
  /\ RevealWeight > MaxBase

(* The promise of the reveal loop, "the number of executions a revealed    *)
(* tool stays at full fidelity" (config.go), where the budget affords it.  *)
RevealedStayFull == PromiseAffordable => NoRecentCallCompressed
=============================================================================
