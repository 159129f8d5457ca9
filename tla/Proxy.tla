------------------------------- MODULE Proxy -------------------------------
(***************************************************************************)
(* The proxy at work (proxy/proxy.go): two goroutines, pumpClient and      *)
(* pumpServer, move lines between a client and a server, share the session *)
(* (under its lock), the flag notifyPending (an atomic) and the writer     *)
(* towards the client (one line at a time).  Each step below is what one   *)
(* goroutine does between two points where the other can interfere.        *)
(*                                                                         *)
(* A line is a sequence of frames: one frame, or the frames of a batch.    *)
(* The client and the server are environments: the client initialises,     *)
(* lists, calls, cancels and refreshes its list when told to; the server   *)
(* answers what it was asked in any order, alone or in a batch.            *)
(***************************************************************************)
EXTENDS Session, Sequences, SequencesExt

CONSTANTS
  Pages,        \* the server's tools/list result, one set of tools per page
  ListChanged,  \* the listChanged capabilities the server may declare
  Pipelined,    \* the client sends while it waits for answers
  Eager,        \* and before the handshake is over
  ListErrors,   \* the server may answer tools/list with an error
  Cancels,      \* the client may cancel a request it waits for
  AskIds,       \* ids of the requests the server makes of the client
  MaxRequests,  \* bound: ids up to which the client sends on its own account
  MaxLine       \* bound: frames in a batch

ASSUME ProxyAssumption ==
  /\ Pages \in Seq((SUBSET Tools) \ {{}}) \ {<<>>}
  /\ ListChanged \subseteq BOOLEAN
  /\ {Pipelined, Eager, ListErrors, Cancels} \subseteq BOOLEAN
  /\ AskIds \subseteq Nat \ {NoId}
  /\ MaxRequests \in Nat /\ MaxLine \in Nat \ {0}

VARIABLES
  \* the client
  nextId,      \* the next request id
  asked,       \* requests it waits for
  view,        \* the form in which it last saw each tool
  stale,       \* it was told to refresh its list and has not done so
  nextPage,    \* the page it has a cursor for, 0 when none
  owed,        \* ids of the server's requests it has still to answer
  \* the server
  working,     \* requests it has read and not answered
  asking,      \* ids of its own requests that wait for an answer
  unasked,     \* ids of those it has not made yet
  \* the pipes: lines on their way into the proxy, frames on their way out
  clientOut, serverIn, serverOut, clientIn,
  \* pumpClient
  cpc,         \* its program counter
  cline,       \* the line it holds
  cidx,        \* the next frame of it to observe
  creveal,     \* a frame of it revealed a tool
  \* pumpServer
  spc, sline, sidx,
  schanged,    \* a frame of the line was rewritten
  \* shared
  notifyPending

clientVars == <<nextId, asked, view, stale, nextPage, owed>>
serverVars == <<working, asking, unasked>>
pumpClientVars == <<cpc, cline, cidx, creveal>>
pumpServerVars == <<spc, sline, sidx, schanged>>
pipes == <<clientOut, serverIn, serverOut, clientIn>>
vars == <<sessionVars, clientVars, serverVars, pipes, pumpClientVars,
          pumpServerVars, notifyPending>>

Init ==
  /\ SessionInit
  /\ nextId = 1 /\ asked = {} /\ stale = FALSE /\ nextPage = 0
  /\ view = [t \in Tools |-> "unknown"]
  /\ owed = {} /\ working = {} /\ asking = {} /\ unasked = AskIds
  /\ clientOut = <<>> /\ serverIn = <<>> /\ serverOut = <<>> /\ clientIn = <<>>
  /\ cpc = "read" /\ cline = <<>> /\ cidx = 1 /\ creveal = FALSE
  /\ spc = "read" /\ sline = <<>> /\ sidx = 1 /\ schanged = FALSE
  /\ notifyPending = FALSE

-----------------------------------------------------------------------------
(* The client.                                                             *)

ToolsListChanged ==
  Frame("list_changed", NoId, NoTool, FALSE, FALSE, <<>>)

ClientSend(requests) ==
  /\ clientOut' = Append(clientOut, requests)
  /\ asked' = asked \cup ToSet(requests)
  /\ nextId' = nextId + Len(requests)
  /\ UNCHANGED <<sessionVars, view, owed, serverVars, serverIn, serverOut,
                 clientIn, pumpClientVars, pumpServerVars, notifyPending>>

ClientInitialize ==
  /\ nextId = 1
  /\ ClientSend(<<Request("initialize", 1, NoTool)>>)
  /\ UNCHANGED <<stale, nextPage>>

(* A sequential client waits for every answer before it sends again; only  *)
(* an eager one sends before the handshake is over, which nothing in the   *)
(* proxy prevents.                                                         *)
MaySend ==
  /\ nextId > 1
  /\ \A r \in asked : Pipelined /\ (Eager \/ r.type # "initialize")

OwnRequest(id) ==
  {Request("tools/list", id, 1)} \cup
  {Request("tools/call", id, t) : t \in {u \in Tools : view[u] # "unknown"}}

ClientRequest ==
  /\ MaySend
  /\ \E n \in 1 .. MaxLine :
       /\ nextId + n - 1 <= MaxRequests
       /\ \E line \in [1 .. n -> UNION {OwnRequest(nextId + i - 1) : i \in 1 .. n}] :
            /\ \A i \in 1 .. n : line[i].id = nextId + i - 1
            /\ ClientSend(line)
  /\ UNCHANGED <<stale, nextPage>>

ClientRefresh ==
  /\ MaySend /\ stale
  /\ stale' = FALSE
  /\ ClientSend(<<Request("tools/list", nextId, 1)>>)
  /\ UNCHANGED nextPage

ClientNextPage ==
  /\ MaySend /\ nextPage # 0
  /\ nextPage' = 0
  /\ ClientSend(<<Request("tools/list", nextId, nextPage)>>)
  /\ UNCHANGED stale

(* notifications/cancelled: the client no longer waits, and the server     *)
(* need not answer.                                                        *)
ClientCancel ==
  /\ Cancels
  /\ \E r \in asked :
       /\ r.type # "initialize"
       /\ asked' = asked \ {r}
       /\ clientOut' =
            Append(clientOut,
                   <<Frame("cancelled", NoId, r.id, FALSE, FALSE, <<>>)>>)
  /\ UNCHANGED <<sessionVars, nextId, view, stale, nextPage, owed, serverVars,
                 serverIn, serverOut, clientIn, pumpClientVars, pumpServerVars,
                 notifyPending>>

(* The answer to a request of the server, at any later time.               *)
ClientAnswer ==
  /\ \E id \in owed :
       /\ owed' = owed \ {id}
       /\ clientOut' = Append(clientOut, <<Response(id, FALSE, FALSE, <<>>)>>)
  /\ UNCHANGED <<sessionVars, nextId, asked, view, stale, nextPage, serverVars,
                 serverIn, serverOut, clientIn, pumpClientVars, pumpServerVars,
                 notifyPending>>

(* A list replaces what the client knew of the tools of that page.         *)
Seen(page, list) ==
  [t \in Tools |-> IF t \in DOMAIN list THEN list[t]
                   ELSE IF t \in Pages[page] THEN "unknown" ELSE view[t]]

ClientReceive ==
  /\ clientIn # <<>>
  /\ clientIn' = Tail(clientIn)
  /\ LET f == Head(clientIn)
         answered == {r \in asked : f.type = "response" /\ r.id = f.id}
     IN /\ asked' = asked \ answered
        /\ stale' = (stale \/ f.type = "list_changed")
        /\ owed' = IF f.type = "sampling" THEN owed \cup {f.id} ELSE owed
        /\ IF \E r \in answered : r.type = "tools/list" /\ ~f.err
           THEN \E r \in answered :
                  /\ view' = Seen(r.arg, f.list)
                  /\ nextPage' = IF r.arg < Len(Pages) THEN r.arg + 1 ELSE 0
           ELSE UNCHANGED <<view, nextPage>>
  /\ UNCHANGED <<sessionVars, nextId, serverVars, clientOut, serverIn, serverOut,
                 pumpClientVars, pumpServerVars, notifyPending>>

-----------------------------------------------------------------------------
(* The server.                                                             *)

ServerRead ==
  /\ serverIn # <<>>
  /\ serverIn' = Tail(serverIn)
  /\ LET f == Head(serverIn)
     IN /\ working' = CASE f.type = "cancelled" -> {r \in working : r.id # f.arg}
                        [] f.type = "response" -> working
                        [] OTHER -> working \cup {f}
        /\ asking' = IF f.type = "response" THEN asking \ {f.id} ELSE asking
  /\ UNCHANGED <<sessionVars, clientVars, unasked, clientOut, serverOut,
                 clientIn, pumpClientVars, pumpServerVars, notifyPending>>

Answer(r) ==
  CASE r.type = "initialize" ->
         {Response(r.id, FALSE, lc, <<>>) : lc \in ListChanged}
    [] r.type = "tools/list" ->
         {Response(r.id, FALSE, FALSE, FullList(Pages[r.arg]))} \cup
         {Response(r.id, TRUE, FALSE, <<>>) : e \in {TRUE} \cap {ListErrors}}
    [] OTHER -> {Response(r.id, FALSE, FALSE, <<>>)}

ServerAnswer ==
  /\ \E n \in 1 .. MaxLine, served \in SUBSET working :
       /\ Cardinality(served) = n
       /\ working' = working \ served
       /\ \E line \in [1 .. n -> UNION {Answer(r) : r \in served}] :
            /\ {line[i].id : i \in 1 .. n} = {r.id : r \in served}
            /\ serverOut' = Append(serverOut, line)
  /\ UNCHANGED <<sessionVars, clientVars, asking, unasked, clientOut, serverIn,
                 clientIn, pumpClientVars, pumpServerVars, notifyPending>>

(* sampling, roots, elicitation: the server asks its client, with ids of   *)
(* its own that may be those of requests the client waits for.             *)
ServerAsk ==
  /\ \E id \in unasked :
       /\ unasked' = unasked \ {id}
       /\ asking' = asking \cup {id}
       /\ serverOut' = Append(serverOut, <<Request("sampling", id, NoTool)>>)
  /\ UNCHANGED <<sessionVars, clientVars, working, clientOut, serverIn, clientIn,
                 pumpClientVars, pumpServerVars, notifyPending>>

-----------------------------------------------------------------------------
(* pumpClient.                                                             *)

PumpClientRead ==
  /\ cpc = "read" /\ clientOut # <<>>
  /\ clientOut' = Tail(clientOut)
  /\ cline' = Head(clientOut) /\ cidx' = 1
  /\ cpc' = "observe"
  /\ UNCHANGED <<sessionVars, clientVars, serverVars, serverIn, serverOut,
                 clientIn, creveal, pumpServerVars, notifyPending>>

(* One frame of the line, under the session's lock.                        *)
PumpClientObserve ==
  /\ cpc = "observe"
  /\ ObserveClient(cline[cidx])
  /\ creveal' = (creveal \/ RevealedTool(cline[cidx]) # NoTool)
  /\ cidx' = cidx + 1
  /\ cpc' = IF cidx = Len(cline) THEN "forward" ELSE "observe"
  /\ UNCHANGED <<clientVars, serverVars, pipes, cline, pumpServerVars,
                 notifyPending>>

\* Mutant of PumpClientForward: of a batch only the last frame arrives.
PumpClientForwardLast ==
  /\ cpc = "forward"
  /\ serverIn' = Append(serverIn, Last(cline))
  /\ cline' = <<>> /\ cidx' = 1 /\ creveal' = FALSE
  /\ cpc' = IF creveal THEN "capability" ELSE "read"
  /\ UNCHANGED <<sessionVars, clientVars, serverVars, clientOut, serverOut,
                 clientIn, pumpServerVars, notifyPending>>

PumpClientForward ==
  /\ cpc = "forward"
  /\ serverIn' = serverIn \o cline
  /\ cline' = <<>> /\ cidx' = 1 /\ creveal' = FALSE
  /\ cpc' = IF creveal THEN "capability" ELSE "read"
  /\ UNCHANGED <<sessionVars, clientVars, serverVars, clientOut, serverOut,
                 clientIn, pumpServerVars, notifyPending>>

(* maybeNotify, in its three steps: the capability, read under the         *)
(* session's lock; the atomic swap; the write to the client.               *)

\* Mutant of PumpClientCapability: the flag is set before the check.
PumpClientSwapFirst ==
  /\ cpc = "capability"
  /\ cpc' = IF caps /\ ~notifyPending THEN "notify" ELSE "read"
  /\ notifyPending' = TRUE
  /\ UNCHANGED <<sessionVars, clientVars, serverVars, pipes, cline, cidx, creveal,
                 pumpServerVars>>

\* Mutant of PumpClientCapability: no check.
PumpClientNoCheck ==
  /\ cpc = "capability"
  /\ cpc' = "swap"
  /\ UNCHANGED <<sessionVars, clientVars, serverVars, pipes, cline, cidx, creveal,
                 pumpServerVars, notifyPending>>

PumpClientCapability ==
  /\ cpc = "capability"
  /\ cpc' = IF caps THEN "swap" ELSE "read"
  /\ UNCHANGED <<sessionVars, clientVars, serverVars, pipes, cline, cidx, creveal,
                 pumpServerVars, notifyPending>>

\* Mutant of PumpClientSwap: the old value of the flag is not looked at.
PumpClientStoreTrue ==
  /\ cpc = "swap"
  /\ notifyPending' = TRUE
  /\ cpc' = "notify"
  /\ UNCHANGED <<sessionVars, clientVars, serverVars, pipes, cline, cidx, creveal,
                 pumpServerVars>>

PumpClientSwap ==
  /\ cpc = "swap"
  /\ notifyPending' = TRUE
  /\ cpc' = IF notifyPending THEN "read" ELSE "notify"
  /\ UNCHANGED <<sessionVars, clientVars, serverVars, pipes, cline, cidx, creveal,
                 pumpServerVars>>

PumpClientNotify ==
  /\ cpc = "notify"
  /\ clientIn' = Append(clientIn, ToolsListChanged)
  /\ cpc' = "read"
  /\ UNCHANGED <<sessionVars, clientVars, serverVars, clientOut, serverIn,
                 serverOut, cline, cidx, creveal, pumpServerVars, notifyPending>>

PumpClient ==
  \/ PumpClientRead
  \/ PumpClientObserve
  \/ PumpClientForward
  \/ PumpClientCapability
  \/ PumpClientSwap
  \/ PumpClientNotify

-----------------------------------------------------------------------------
(* pumpServer.  rewriteServerFrame observes the frames of a line one after *)
(* the other; between the observation of a tools/list response and its     *)
(* pruning, and between the pruning and the store to notifyPending, the    *)
(* other pump may run.                                                     *)

PumpServerRead ==
  /\ spc = "read" /\ serverOut # <<>>
  /\ serverOut' = Tail(serverOut)
  /\ sline' = Head(serverOut) /\ sidx' = 1 /\ schanged' = FALSE
  /\ spc' = "observe"
  /\ UNCHANGED <<sessionVars, clientVars, serverVars, clientOut, serverIn,
                 clientIn, pumpClientVars, notifyPending>>

(* After frame sidx: the next one, or the end of rewriteServerFrame.       *)
PumpServerAdvance(changed) ==
  /\ sidx' = sidx + 1
  /\ schanged' = changed
  /\ spc' = IF sidx < Len(sline) THEN "observe"
            ELSE IF changed THEN "store" ELSE "write"

PumpServerObserve ==
  /\ spc = "observe"
  /\ ObserveServerFrame(sline[sidx])
  /\ IF IsToolsList(sline[sidx])
     THEN spc' = "prune" /\ UNCHANGED <<sidx, schanged>>
     ELSE PumpServerAdvance(schanged)
  /\ UNCHANGED <<clientVars, serverVars, pipes, sline, pumpClientVars,
                 notifyPending>>

PumpServerPrune ==
  /\ spc = "prune"
  /\ LET f == sline[sidx]
     IN IF Prunable(f)
        THEN \E base \in BaseScores(DOMAIN f.list) :
               /\ PruneToolsResult(base)
               /\ sline' = [sline EXCEPT ![sidx].list = PrunedList(Tiers(base))]
               /\ PumpServerAdvance(TRUE)
        ELSE /\ PumpServerAdvance(schanged)
             /\ UNCHANGED <<sessionVars, sline>>
  /\ UNCHANGED <<clientVars, serverVars, pipes, pumpClientVars, notifyPending>>

\* Mutant of PumpServerStore: the flag stays set.
PumpServerNoStore ==
  /\ spc = "store"
  /\ spc' = "write"
  /\ UNCHANGED <<sessionVars, clientVars, serverVars, pipes, pumpClientVars, sline,
                 sidx, schanged, notifyPending>>

PumpServerStore ==
  /\ spc = "store"
  /\ notifyPending' = FALSE
  /\ spc' = "write"
  /\ UNCHANGED <<sessionVars, clientVars, serverVars, pipes, pumpClientVars, sline,
                 sidx, schanged>>

\* Mutant of PumpServerWrite: a line it could not rewrite is not sent.
PumpServerWriteChanged ==
  /\ spc = "write"
  /\ clientIn' = IF schanged \/ ~sline[1].err THEN clientIn \o sline ELSE clientIn
  /\ sline' = <<>> /\ sidx' = 1 /\ schanged' = FALSE
  /\ spc' = "read"
  /\ UNCHANGED <<sessionVars, clientVars, serverVars, clientOut, serverIn,
                 serverOut, pumpClientVars, notifyPending>>

PumpServerWrite ==
  /\ spc = "write"
  /\ clientIn' = clientIn \o sline
  /\ sline' = <<>> /\ sidx' = 1 /\ schanged' = FALSE
  /\ spc' = "read"
  /\ UNCHANGED <<sessionVars, clientVars, serverVars, clientOut, serverIn,
                 serverOut, pumpClientVars, notifyPending>>

PumpServer ==
  \/ PumpServerRead
  \/ PumpServerObserve
  \/ PumpServerPrune
  \/ PumpServerStore
  \/ PumpServerWrite

-----------------------------------------------------------------------------
Next ==
  \/ ClientInitialize
  \/ ClientRequest
  \/ ClientRefresh
  \/ ClientNextPage
  \/ ClientCancel
  \/ ClientAnswer
  \/ ClientReceive
  \/ ServerRead
  \/ ServerAnswer
  \/ ServerAsk
  \/ PumpClient
  \/ PumpServer

Spec == Init /\ [][Next]_vars

(* The goroutines are never starved by the scheduler.  Of the environments *)
(* it is assumed that the server reads and answers, and that the client    *)
(* reads and refreshes its list when told to.                              *)
FairSpec ==
  /\ Spec
  /\ WF_vars(PumpClient) /\ WF_vars(PumpServer)
  /\ WF_vars(ServerRead) /\ WF_vars(ServerAnswer)
  /\ WF_vars(ClientReceive) /\ WF_vars(ClientRefresh) /\ WF_vars(ClientAnswer)

-----------------------------------------------------------------------------
(* What a client sends.  A tools/list names a page the server has.         *)
Sendable ==
  {f \in Frames :
     /\ f.type \in {"initialize", "tools/list", "tools/call", "cancelled", "response"}
     /\ f.type = "tools/list" => f.arg \in DOMAIN Pages}

(* Every line in a pipe, or in a pump, is a sequence of frames; the lines  *)
(* in a pipe are not empty.                                                *)
FramesOK ==
  /\ clientOut \in Seq(Seq(Sendable) \ {<<>>})
  /\ cline \in Seq(Sendable) /\ serverIn \in Seq(Sendable)
  /\ asked \subseteq Sendable /\ working \subseteq Sendable
  /\ serverOut \in Seq(Seq(Frames) \ {<<>>})
  /\ sline \in Seq(Frames) /\ clientIn \in Seq(Frames)
  /\ nextId \in Nat /\ nextPage \in 0 .. Len(Pages)
  /\ owed \subseteq Nat /\ asking \subseteq Nat /\ unasked \subseteq Nat

(* A pump holds a line from the moment it reads one until it has passed it *)
(* on, and looks at a frame of it.                                         *)
ControlOK ==
  /\ cpc \in {"read", "observe", "forward", "capability", "swap", "notify"}
  /\ spc \in {"read", "observe", "prune", "store", "write"}
  /\ cline = <<>> <=> cpc \notin {"observe", "forward"}
  /\ sline = <<>> <=> spc = "read"
  /\ cidx \in 1 .. Len(cline) + 1 /\ sidx \in 1 .. Len(sline) + 1
  /\ cpc = "observe" => cidx <= Len(cline)
  /\ spc \in {"observe", "prune"} => sidx <= Len(sline)

FlagsOK ==
  /\ stale \in BOOLEAN /\ creveal \in BOOLEAN
  /\ schanged \in BOOLEAN /\ notifyPending \in BOOLEAN

(* The type of the proxy's own state.                                      *)
TypeOK ==
  /\ SessionTypeOK
  /\ FramesOK
  /\ ControlOK
  /\ FlagsOK
  /\ view \in [Tools -> {"unknown", "full", "compressed"}]

(* A list response that was observed and not yet delivered.                *)
ListsInFlight ==
  {f \in ToSet(clientIn) \cup ToSet(SubSeq(sline, 1, sidx - 1)) :
     f.type = "response" /\ DOMAIN f.list # {}}

NotificationsInFlight == {i \in DOMAIN clientIn : clientIn[i].type = "list_changed"}

(* A tools/list request the proxy has still to prune an answer to.         *)
ListDue ==
  \/ pendingLst # {} \/ spc = "prune"
  \/ \E line \in ToSet(clientOut) \cup {SubSeq(cline, cidx, Len(cline))} :
       \E f \in ToSet(line) : f.type = "tools/list"

(* The client is being told, or was told and has not asked yet.            *)
NotificationDue ==
  \/ creveal \/ cpc \in {"capability", "swap", "notify"}
  \/ NotificationsInFlight # {} \/ stale

(* Every list the client receives went through the pruner: the budget, and *)
(* no more, is in full.  A response that overtook the registration of its  *)
(* request, or was matched to another one, would arrive whole.  Meant for  *)
(* pages above MinTools without pins whose tools all shrink.               *)
ListsArePruned ==
  \A f \in ToSet(clientIn) :
    f.type = "response" /\ DOMAIN f.list # {} =>
      Cardinality({t \in DOMAIN f.list : f.list[t] = "full"}) = TopN

(* Once no list is in flight, the session and the client agree on what is  *)
(* compressed: only that can be revealed, and everything else the client   *)
(* sees compressed was called already.  session.go: "which tools are       *)
(* currently advertised in compressed form".                               *)
CompressedIsAdvertised ==
  ListsInFlight = {} =>
    LET seen == {t \in Tools : view[t] = "compressed"}
    IN compressed \subseteq seen /\ seen \subseteq compressed \cup RevealedEntries

(* A tool that was revealed while the client holds its compressed form is  *)
(* on its way back: the client is being told to refresh, or a list is due, *)
(* or one that restores the tool is in flight.  README: "the moment the    *)
(* model reaches for a compressed tool, the proxy restores its full        *)
(* schema".                                                                *)
NoLostRefresh ==
  \A t \in Tools :
    caps /\ view[t] = "compressed" /\ t \notin compressed =>
      \/ NotificationDue \/ ListDue
      \/ \E f \in ListsInFlight : t \in DOMAIN f.list /\ f.list[t] = "full"

(* notifyPending only suppresses a notification while an earlier one is    *)
(* still to have its effect.  Otherwise nothing would ever clear it, and   *)
(* no reveal would reach the client any more.                              *)
FlagJustified ==
  notifyPending => NotificationDue \/ ListDue \/ schanged

(* The proxy does not invent capabilities: no notification to a client     *)
(* whose server did not declare listChanged.                               *)
NotificationsDeclared ==
  notifyPending \/ cpc = "notify" \/ NotificationsInFlight # {} => caps

(* A burst of reveals collapses into one notification: a sequential client *)
(* never finds a second one in its inbox.                                  *)
OneNotification == Cardinality(NotificationsInFlight) <= 1

Pending == pendingLst \cup pendingCal \cup pendingIni

(* Responses on their way to the session.                                  *)
AnswersComing ==
  {f \in UNION {ToSet(line) : line \in ToSet(serverOut) \cup {sline}} :
     f.type = "response"}

(* Every pending entry is awaited: the client waits for the answer, or it  *)
(* is on its way to the proxy (session.go, ObserveClient, ObserveServer).  *)
PendingAwaited ==
  Pending \subseteq {r.id : r \in asked} \cup {f.id : f \in AnswersComing}

(* Ids that can still be taken out of the pending sets: their request is   *)
(* on its way to the server or with it, or the answer is coming.           *)
RequestsGoing ==
  {f \in ToSet(cline) \cup ToSet(serverIn) \cup working :
     f.type \notin {"response", "cancelled"}}

Removable == {f.id : f \in RequestsGoing \cup AnswersComing}

(* An entry is stranded, kept as long as the connection, by one thing      *)
(* only: the server reads the cancellation of its request, and drops it.   *)
(* No answer, matched or refused, alone or in a batch, and no colliding id *)
(* of the server's leaves one behind (session.go, ObserveServer).          *)
OnlyCancelStrands ==
  [][\A id \in Pending' \ Removable' :
       \/ id \in Pending \ Removable
       \/ /\ serverIn # <<>> /\ serverIn' = Tail(serverIn)
          /\ Head(serverIn).type = "cancelled" /\ Head(serverIn).arg = id]_vars

-----------------------------------------------------------------------------
(* The proxy as a pipe.                                                    *)

(* What of a frame must arrive: everything but the form of listed tools.   *)
Carried(f) == [f EXCEPT !.list = DOMAIN f.list]

CarriedSeq(frames) == [i \in DOMAIN frames |-> Carried(frames[i])]
CarriedLines(lines) == [i \in DOMAIN lines |-> CarriedSeq(lines[i])]

(* The line a pump holds is the oldest of those it has not passed on.      *)
Unpassed(line, lines) == IF line = <<>> THEN lines ELSE <<line>> \o lines

Pipe == INSTANCE Relay WITH
  Notice <- Carried(ToolsListChanged),
  upstream <- CarriedLines(Unpassed(cline, clientOut)),
  serverInbox <- CarriedSeq(serverIn),
  downstream <- CarriedLines(Unpassed(sline, serverOut)),
  clientInbox <- CarriedSeq(clientIn)

(* Apart from the notifications it injects, the proxy is a pipe in each    *)
(* direction (proxy.go: "Everything else ... is forwarded byte-for-byte"). *)
IsPipe == Pipe!RelaySpec

(* No request stays open for ever, in either direction: each is answered   *)
(* in the end, an error or an unprunable list included, and no goroutine   *)
(* waits for the other.                                                    *)
EveryRequestAnswered ==
  /\ \A id \in Ids : []<>(\A r \in asked : r.id # id)
  /\ \A id \in AskIds : []<>(id \notin asking)

(* The reveal loop ends: a tool the model reached for comes back in full,  *)
(* unless the model moved on past the reveal window first.                 *)
RevealServed ==
  \A t \in Tools :
    (caps /\ view[t] = "compressed" /\ t \notin compressed
          /\ InWindow(revealed, seq, t))
      ~> (view[t] = "full" \/ ~InWindow(revealed, seq, t))
=============================================================================
