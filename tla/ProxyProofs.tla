---------------------------- MODULE ProxyProofs ----------------------------
(***************************************************************************)
(* What holds of the proxy for any tools, pages, scores, ids and batches.  *)
(*                                                                         *)
(* It is a pipe.  A line is in the upstream of the pipe from the moment it *)
(* is sent until its last frame is written, whether it lies in the pipe or *)
(* in the pump, so reading it is a stutter.  Observing it changes nothing, *)
(* and rewriting it nothing of what a frame carries, because a list is     *)
(* rewritten tool by tool and no tool is dropped.                          *)
(*                                                                         *)
(* It notifies only clients whose server declared the capability.  What    *)
(* must not happen is that the capability is taken back, by the answer to  *)
(* a second initialize, between its check and the write.  A client         *)
(* initialises once; that request is at one place at a time - in the pipe, *)
(* in the pump, with the session - and at none once the capability is      *)
(* known.                                                                  *)
(*                                                                         *)
(* It waits for nothing the client has given up.  A request, and then its  *)
(* answer, is held at one of seven places between the client and back      *)
(* (HeldOnce), the session has it in the set of its kind exactly while the *)
(* answer is due (Registered), so what it waits for the client awaits.     *)
(***************************************************************************)
EXTENDS Proxy, SessionProofs, SequenceTheorems, TLAPS

-----------------------------------------------------------------------------
(* Lines and frames, as the pipe sees them.                                *)

Carryings == {Carried(f) : f \in Frames}

LEMMA CarriedSeqType ==
  ASSUME NEW s \in Seq(Frames)
  PROVE  /\ CarriedSeq(s) \in Seq(Carryings)
         /\ Len(CarriedSeq(s)) = Len(s)
         /\ \A i \in 1 .. Len(s) : CarriedSeq(s)[i] = Carried(s[i])
<1>1. Len(s) \in Nat /\ DOMAIN s = 1 .. Len(s) /\ \A i \in 1 .. Len(s) : s[i] \in Frames
  BY LenProperties
<1>2. CarriedSeq(s) = [i \in 1 .. Len(s) |-> Carried(s[i])]
  BY <1>1 DEF CarriedSeq
<1>3. \A i \in 1 .. Len(s) : Carried(s[i]) \in Carryings
  BY <1>1 DEF Carryings
<1> QED
  BY <1>1, <1>2, <1>3

LEMMA CarriedSeqConcat ==
  ASSUME NEW s \in Seq(Frames), NEW t \in Seq(Frames)
  PROVE  CarriedSeq(s \o t) = CarriedSeq(s) \o CarriedSeq(t)
<1>1. s \o t \in Seq(Frames) /\ Len(s \o t) = Len(s) + Len(t)
  BY ConcatProperties
<1>2. /\ CarriedSeq(s) \in Seq(Carryings) /\ Len(CarriedSeq(s)) = Len(s)
      /\ CarriedSeq(t) \in Seq(Carryings) /\ Len(CarriedSeq(t)) = Len(t)
      /\ CarriedSeq(s \o t) \in Seq(Carryings)
      /\ Len(CarriedSeq(s \o t)) = Len(s) + Len(t)
  BY <1>1, CarriedSeqType
<1>3. /\ CarriedSeq(s) \o CarriedSeq(t) \in Seq(Carryings)
      /\ Len(CarriedSeq(s) \o CarriedSeq(t)) = Len(s) + Len(t)
  BY <1>2, ConcatProperties
<1>4. ASSUME NEW i \in 1 .. Len(s) + Len(t)
      PROVE  CarriedSeq(s \o t)[i] = (CarriedSeq(s) \o CarriedSeq(t))[i]
  <2>1. Len(s) \in Nat /\ Len(t) \in Nat /\ i \in Nat
    BY LenProperties
  <2>2. CarriedSeq(s \o t)[i] = Carried((s \o t)[i])
    BY <1>1, CarriedSeqType
  <2>3. CASE i <= Len(s)
    <3>1. (s \o t)[i] = s[i] /\ (CarriedSeq(s) \o CarriedSeq(t))[i] = CarriedSeq(s)[i]
      BY <1>2, <2>1, <2>3, ConcatProperties
    <3> QED
      BY <2>1, <2>2, <2>3, <3>1, CarriedSeqType
  <2>4. CASE i > Len(s)
    <3>1. /\ (s \o t)[i] = t[i - Len(s)]
          /\ (CarriedSeq(s) \o CarriedSeq(t))[i] = CarriedSeq(t)[i - Len(s)]
      BY <1>2, <2>1, <2>4, ConcatProperties
    <3> QED
      BY <2>1, <2>2, <2>4, <3>1, CarriedSeqType
  <2>5. i <= Len(s) \/ i > Len(s)
    BY <2>1
  <2> QED
    BY <2>3, <2>4, <2>5, Zenon
<1> QED
  BY <1>2, <1>3, <1>4, SeqEqual

LEMMA CarriedSeqAppend ==
  ASSUME NEW s \in Seq(Frames), NEW f \in Frames
  PROVE  CarriedSeq(Append(s, f)) = Append(CarriedSeq(s), Carried(f))
<1>1. <<f>> \in Seq(Frames) /\ Append(s, f) = s \o <<f>>
  BY AppendIsConcat
<1>2. CarriedSeq(<<f>>) = <<Carried(f)>>
  BY DEF CarriedSeq
<1>3. CarriedSeq(s) \in Seq(Carryings) /\ Carried(f) \in Carryings
  BY CarriedSeqType DEF Carryings
<1>4. Append(CarriedSeq(s), Carried(f)) = CarriedSeq(s) \o <<Carried(f)>>
  BY <1>3, AppendIsConcat
<1> QED
  BY <1>1, <1>2, <1>4, CarriedSeqConcat

LEMMA CarriedSeqTail ==
  ASSUME NEW s \in Seq(Frames), s # <<>>
  PROVE  CarriedSeq(s) # <<>> /\ CarriedSeq(Tail(s)) = Tail(CarriedSeq(s))
<1>1. /\ CarriedSeq(s) \in Seq(Carryings) /\ Len(CarriedSeq(s)) = Len(s)
      /\ Len(s) \in Nat \ {0}
  BY CarriedSeqType, EmptySeq
<1>2. CarriedSeq(s) # <<>>
  BY <1>1
<1>3. Tail(s) \in Seq(Frames) /\ Len(Tail(s)) = Len(s) - 1
  BY HeadTailProperties
<1>4. CarriedSeq(Tail(s)) \in Seq(Carryings) /\ Len(CarriedSeq(Tail(s))) = Len(s) - 1
  BY <1>3, CarriedSeqType
<1>5. Tail(CarriedSeq(s)) \in Seq(Carryings) /\ Len(Tail(CarriedSeq(s))) = Len(s) - 1
  BY <1>1, <1>2, HeadTailProperties
<1>6. ASSUME NEW i \in 1 .. Len(s) - 1
      PROVE  CarriedSeq(Tail(s))[i] = Tail(CarriedSeq(s))[i]
  <2>1. CarriedSeq(Tail(s))[i] = Carried(Tail(s)[i]) /\ Tail(s)[i] = s[i + 1]
    BY <1>3, CarriedSeqType, HeadTailProperties
  <2>2. Tail(CarriedSeq(s))[i] = CarriedSeq(s)[i + 1]
    BY <1>1, <1>2, <1>5, HeadTailProperties
  <2>3. CarriedSeq(s)[i + 1] = Carried(s[i + 1])
    BY <1>1, CarriedSeqType
  <2> QED
    BY <2>1, <2>2, <2>3
<1> QED
  BY <1>2, <1>4, <1>5, <1>6, SeqEqual

LEMMA CarriedLinesType ==
  ASSUME NEW u \in Seq(Seq(Frames))
  PROVE  /\ CarriedLines(u) \in Seq(Seq(Carryings))
         /\ Len(CarriedLines(u)) = Len(u)
         /\ \A i \in 1 .. Len(u) : CarriedLines(u)[i] = CarriedSeq(u[i])
<1>1. /\ Len(u) \in Nat /\ DOMAIN u = 1 .. Len(u)
      /\ \A i \in 1 .. Len(u) : u[i] \in Seq(Frames)
  BY LenProperties
<1>2. CarriedLines(u) = [i \in 1 .. Len(u) |-> CarriedSeq(u[i])]
  BY <1>1 DEF CarriedLines
<1>3. \A i \in 1 .. Len(u) : CarriedSeq(u[i]) \in Seq(Carryings)
  BY <1>1, CarriedSeqType
<1> QED
  BY <1>1, <1>2, <1>3

(* A line that is sent is the last of the lines not passed on.             *)
LEMMA SendAppends ==
  ASSUME NEW line \in Seq(Frames), NEW lines \in Seq(Seq(Frames)),
         NEW new \in Seq(Frames)
  PROVE  LET before == CarriedLines(Unpassed(line, lines))
             after == CarriedLines(Unpassed(line, Append(lines, new)))
         IN after # <<>> /\ Front(after) = before
<1> DEFINE u == Unpassed(line, lines)
           v == Unpassed(line, Append(lines, new))
<1>1. /\ <<line>> \in Seq(Seq(Frames)) /\ <<new>> \in Seq(Seq(Frames))
      /\ Append(lines, new) = lines \o <<new>>
  BY AppendIsConcat
<1>2. u \in Seq(Seq(Frames))
  BY <1>1, ConcatProperties DEF Unpassed
<1>3. v = u \o <<new>>
  <2>1. CASE line = <<>>
    BY <1>1, <2>1 DEF Unpassed
  <2>2. CASE line # <<>>
    <3>1. /\ u = <<line>> \o lines
          /\ v = <<line>> \o (lines \o <<new>>)
      BY <1>1, <2>2 DEF Unpassed
    <3>2. <<line>> \in Seq(Seq(Frames))
      OBVIOUS
    <3>3. <<line>> \o (lines \o <<new>>) = (<<line>> \o lines) \o <<new>>
      BY <1>1, <3>2, ConcatAssociative
    <3> QED
      BY <3>1, <3>3
  <2> QED
    BY <2>1, <2>2
<1>4. /\ v \in Seq(Seq(Frames)) /\ Len(v) = Len(u) + 1
      /\ \A i \in 1 .. Len(u) : v[i] = u[i]
  <2>1. v = Append(u, new)
    BY <1>2, <1>3, AppendIsConcat
  <2> QED
    BY <1>2, <2>1, AppendProperties
<1> HIDE DEF u, v
<1> DEFINE before == CarriedLines(u)
           after == CarriedLines(v)
<1>5. /\ before \in Seq(Seq(Carryings)) /\ Len(before) = Len(u)
      /\ \A i \in 1 .. Len(u) : before[i] = CarriedSeq(u[i])
  BY <1>2, CarriedLinesType
<1>6. /\ after \in Seq(Seq(Carryings)) /\ Len(after) = Len(u) + 1
      /\ \A i \in 1 .. Len(u) + 1 : after[i] = CarriedSeq(v[i])
  BY <1>4, CarriedLinesType
<1>7. Len(u) \in Nat
  BY <1>2, LenProperties
<1> HIDE DEF before, after
<1>8. after # <<>>
  BY <1>6, <1>7
<1>9. Front(after) = SubSeq(after, 1, Len(u))
  BY <1>6, <1>7 DEF Front
<1>10. /\ Front(after) \in Seq(Seq(Carryings)) /\ Len(Front(after)) = Len(u)
       /\ \A i \in 1 .. Len(u) : Front(after)[i] = after[i]
  BY <1>6, <1>7, <1>9
<1>11. \A i \in 1 .. Len(u) : Front(after)[i] = before[i]
  BY <1>4, <1>5, <1>6, <1>7, <1>10
<1>12. Front(after) = before
  BY <1>5, <1>10, <1>11, SeqEqual
<1> QED
  BY <1>8, <1>12 DEF before, after, u, v

(* A pump that reads a line has not passed it on yet.                      *)
LEMMA ReadKeeps ==
  ASSUME NEW lines \in Seq(Seq(Frames)), lines # <<>>, Head(lines) # <<>>
  PROVE  Unpassed(Head(lines), Tail(lines)) = Unpassed(<<>>, lines)
<1>1. /\ Head(lines) \in Seq(Frames) /\ Tail(lines) \in Seq(Seq(Frames))
      /\ Len(Tail(lines)) = Len(lines) - 1 /\ Len(lines) \in Nat \ {0}
      /\ \A i \in 1 .. Len(Tail(lines)) : Tail(lines)[i] = lines[i + 1]
  BY HeadTailProperties, EmptySeq
<1> DEFINE w == <<Head(lines)>> \o Tail(lines)
<1>2. <<Head(lines)>> \in Seq(Seq(Frames))
  BY <1>1
<1>3. /\ w \in Seq(Seq(Frames)) /\ Len(w) = Len(lines)
      /\ \A i \in 1 .. Len(lines) :
           w[i] = IF i <= 1 THEN Head(lines) ELSE Tail(lines)[i - 1]
  BY <1>1, <1>2, ConcatProperties
<1> HIDE DEF w
<1>4. Head(lines) = lines[1]
  OBVIOUS
<1>5. \A i \in 1 .. Len(lines) : w[i] = lines[i]
  BY <1>1, <1>3, <1>4
<1>6. w = lines
  BY <1>3, <1>5, SeqEqual
<1> QED
  BY <1>6 DEF w, Unpassed

(* The line a pump passes on is the oldest one not passed on.              *)
LEMMA PassTakesHead ==
  ASSUME NEW line \in Seq(Frames), line # <<>>, NEW lines \in Seq(Seq(Frames))
  PROVE  LET before == CarriedLines(Unpassed(line, lines))
             after == CarriedLines(Unpassed(<<>>, lines))
         IN /\ before # <<>>
            /\ Head(before) = CarriedSeq(line)
            /\ after = Tail(before)
<1> DEFINE u == Unpassed(line, lines)
           before == CarriedLines(u)
           after == CarriedLines(lines)
<1>1. u = <<line>> \o lines /\ Unpassed(<<>>, lines) = lines
  BY DEF Unpassed
<1>2. Len(lines) \in Nat /\ <<line>> \in Seq(Seq(Frames)) /\ Len(<<line>>) = 1
  BY LenProperties
<1>3. /\ u \in Seq(Seq(Frames)) /\ Len(u) = 1 + Len(lines)
      /\ \A i \in 1 .. 1 + Len(lines) :
           u[i] = IF i <= 1 THEN line ELSE lines[i - 1]
  BY <1>1, <1>2, ConcatProperties
<1> HIDE DEF u
<1>4. /\ before \in Seq(Seq(Carryings)) /\ Len(before) = 1 + Len(lines)
      /\ \A i \in 1 .. 1 + Len(lines) : before[i] = CarriedSeq(u[i])
  BY <1>3, CarriedLinesType
<1>5. /\ after \in Seq(Seq(Carryings)) /\ Len(after) = Len(lines)
      /\ \A i \in 1 .. Len(lines) : after[i] = CarriedSeq(lines[i])
  BY CarriedLinesType
<1> HIDE DEF before, after
<1>6. before # <<>> /\ Head(before) = before[1]
  BY <1>2, <1>4
<1>7. before[1] = CarriedSeq(line)
  BY <1>2, <1>3, <1>4
<1>8. /\ Tail(before) \in Seq(Seq(Carryings)) /\ Len(Tail(before)) = Len(lines)
      /\ \A i \in 1 .. Len(lines) : Tail(before)[i] = before[i + 1]
  BY <1>2, <1>4, <1>6, HeadTailProperties
<1>9. \A i \in 1 .. Len(lines) : after[i] = Tail(before)[i]
  <2> TAKE i \in 1 .. Len(lines)
  <2>1. i + 1 \in 1 .. 1 + Len(lines) /\ ~(i + 1 <= 1) /\ (i + 1) - 1 = i
    BY <1>2
  <2>2. u[i + 1] = lines[i]
    BY <1>3, <2>1
  <2> QED
    BY <1>4, <1>5, <1>8, <2>1, <2>2
<1>10. after = Tail(before)
  BY <1>5, <1>8, <1>9, SeqEqual
<1> QED
  BY <1>1, <1>6, <1>7, <1>10 DEF before, after, u

-----------------------------------------------------------------------------
(* The shape of what is sent.                                              *)

LEMMA FrameTyped ==
  ASSUME NEW type \in FrameTypes, NEW id \in Nat, NEW arg \in Nat,
         NEW err \in BOOLEAN, NEW lc \in BOOLEAN, NEW list \in Lists
  PROVE  Frame(type, id, arg, err, lc, list) \in Frames
BY DEF Frame, Frames

LEMMA EmptyListTyped == <<>> \in Lists
<1>1. <<>> \in [{} -> {"full", "compressed"}]
  OBVIOUS
<1> QED
  BY <1>1 DEF Lists

LEMMA RequestTyped ==
  ASSUME NEW type \in {"initialize", "tools/list", "tools/call"},
         NEW id \in Nat, NEW arg \in Nat,
         type = "tools/list" => arg \in DOMAIN Pages
  PROVE  Request(type, id, arg) \in Sendable
<1>1. Request(type, id, arg) \in Frames
  BY FrameTyped, EmptyListTyped DEF Request, FrameTypes
<1> QED
  BY <1>1 DEF Request, Frame, Sendable

LEMMA ResponseTyped ==
  ASSUME NEW id \in Nat, NEW err \in BOOLEAN, NEW lc \in BOOLEAN,
         NEW list \in Lists
  PROVE  Response(id, err, lc, list) \in Sendable
<1>1. Response(id, err, lc, list) \in Frames
  BY FrameTyped DEF Response, FrameTypes, NoTool
<1> QED
  BY <1>1 DEF Response, Frame, Sendable

LEMMA NoticeTyped == ToolsListChanged \in Frames
BY FrameTyped, EmptyListTyped DEF ToolsListChanged, FrameTypes, NoId, NoTool

LEMMA ConstantsTyped ==
  /\ Len(Pages) \in Nat \ {0} /\ DOMAIN Pages = 1 .. Len(Pages)
  /\ \A p \in DOMAIN Pages : Pages[p] \subseteq Tools
  /\ Tools \subseteq Nat /\ AskIds \subseteq Nat /\ MaxLine \in Nat \ {0}
<1>1. Pages \in Seq((SUBSET Tools) \ {{}}) /\ Pages # <<>>
  BY ProxyAssumption
<1>2. /\ Len(Pages) \in Nat \ {0} /\ DOMAIN Pages = 1 .. Len(Pages)
      /\ \A p \in DOMAIN Pages : Pages[p] \in (SUBSET Tools) \ {{}}
  BY <1>1, LenProperties, EmptySeq
<1> QED
  BY <1>2, ProxyAssumption, PruneAssumption

LEMMA AnswerTyped ==
  ASSUME NEW r \in Sendable, NEW f \in Answer(r)
  PROVE  f \in Frames
<1>1. r.id \in Nat /\ ListChanged \subseteq BOOLEAN
  BY ProxyAssumption DEF Sendable, Frames
<1>2. \A e, lc \in BOOLEAN : Response(r.id, e, lc, <<>>) \in Frames
  BY <1>1, ResponseTyped, EmptyListTyped DEF Sendable
<1>3. CASE r.type = "tools/list"
  <2>1. Pages[r.arg] \subseteq Tools
    BY <1>3, ConstantsTyped DEF Sendable
  <2>2. FullList(Pages[r.arg]) \in Lists
    BY <2>1 DEF FullList, Lists
  <2>3. Response(r.id, FALSE, FALSE, FullList(Pages[r.arg])) \in Frames
    BY <1>1, <2>2, ResponseTyped DEF Sendable
  <2> QED
    BY <1>2, <1>3, <2>3 DEF Answer
<1>4. CASE r.type = "initialize"
  BY <1>1, <1>2, <1>4 DEF Answer
<1>5. CASE r.type \notin {"initialize", "tools/list"}
  BY <1>2, <1>5 DEF Answer
<1> QED
  BY <1>3, <1>4, <1>5

(* Pruning keeps a frame a frame, and loses nothing it carries unless      *)
(* tools may be dropped.                                                   *)
LEMMA PrunedFrame ==
  ASSUME NEW f \in Frames, NEW base \in BaseScores(DOMAIN f.list)
  PROVE  LET pruned == [f EXCEPT !.list = PrunedList(Tiers(base))]
         IN /\ pruned \in Frames
            /\ DropBelow = 0 => Carried(pruned) = Carried(f)
<1> DEFINE page == DOMAIN f.list
           list == PrunedList(Tiers(base))
           pruned == [f EXCEPT !.list = list]
<1>1. page \subseteq Tools
  BY DEF Frames, Lists
<1>2. DOMAIN base = page
  BY DEF BaseScores
<1>3. /\ DOMAIN Tiers(base) = page
      /\ \A t \in page : Tiers(base)[t] \in {"full", "compressed", "dropped"}
      /\ DropBelow = 0 => \A t \in page : Tiers(base)[t] # "dropped"
  BY <1>2 DEF Tiers, Tier, Score
<1>4. /\ DOMAIN list = page \ InTier(Tiers(base), "dropped")
      /\ list \in [DOMAIN list -> {"full", "compressed"}]
  BY <1>3 DEF PrunedList, InTier
<1>5. list \in Lists
  BY <1>1, <1>4 DEF Lists
<1>6. DropBelow = 0 => DOMAIN list = page
  BY <1>3, <1>4 DEF InTier
<1>7. pruned \in Frames /\ pruned.list = list
  BY <1>5 DEF Frames
<1>8. DropBelow = 0 => Carried(pruned) = Carried(f)
  BY <1>6, <1>7 DEF Carried, Frames
<1> QED
  BY <1>7, <1>8

-----------------------------------------------------------------------------
(* The inductive invariant: what lies in the pipes, and where a pump is.   *)

PipeInv == FramesOK /\ ControlOK

LEMMA InitPipeInv == Init => PipeInv
<1> SUFFICES ASSUME Init PROVE PipeInv
  OBVIOUS
<1>1. FramesOK
  BY ConstantsTyped, EmptySeq DEF Init, FramesOK
<1>2. ControlOK
  BY DEF Init, ControlOK
<1> QED
  BY <1>1, <1>2 DEF PipeInv

LEMMA SendFramesOK ==
  ASSUME FramesOK, NEW requests \in Seq(Sendable) \ {<<>>}, ClientSend(requests),
         nextPage' \in 0 .. Len(Pages)
  PROVE  FramesOK'
<1>1. clientOut' \in Seq(Seq(Sendable) \ {<<>>})
  BY AppendProperties DEF FramesOK, ClientSend
<1>2. asked' \subseteq Sendable
  <2>1. ToSet(requests) \subseteq Sendable
    BY LenProperties DEF ToSet
  <2> QED
    BY <2>1 DEF FramesOK, ClientSend
<1>3. nextId' \in Nat
  BY LenProperties DEF FramesOK, ClientSend
<1> QED
  BY <1>1, <1>2, <1>3
     DEF FramesOK, ClientSend, serverVars, pumpClientVars, pumpServerVars

LEMMA InitializeFramesOK == FramesOK /\ ClientInitialize => FramesOK'
<1> SUFFICES ASSUME FramesOK, ClientInitialize PROVE FramesOK'
  OBVIOUS
<1>1. Request("initialize", 1, NoTool) \in Sendable
  BY RequestTyped DEF FrameTypes, NoTool
<1>2. <<Request("initialize", 1, NoTool)>> \in Seq(Sendable) \ {<<>>}
  BY <1>1
<1> QED
  BY <1>2, SendFramesOK DEF ClientInitialize, FramesOK

LEMMA OwnRequestTyped ==
  ASSUME NEW id \in Nat, NEW f \in OwnRequest(id)
  PROVE  f \in Sendable
<1>1. Request("tools/list", id, 1) \in Sendable
  BY RequestTyped, ConstantsTyped DEF FrameTypes
<1>2. \A t \in Tools : Request("tools/call", id, t) \in Sendable
  BY RequestTyped, ConstantsTyped DEF FrameTypes
<1> QED
  BY <1>1, <1>2 DEF OwnRequest

LEMMA RequestFramesOK == FramesOK /\ ClientRequest => FramesOK'
<1> SUFFICES ASSUME FramesOK, ClientRequest PROVE FramesOK'
  OBVIOUS
<1>1. PICK n \in 1 .. MaxLine :
        \E line \in [1 .. n -> UNION {OwnRequest(nextId + i - 1) : i \in 1 .. n}] :
          ClientSend(line)
  BY DEF ClientRequest
<1>2. PICK line \in [1 .. n -> UNION {OwnRequest(nextId + i - 1) : i \in 1 .. n}] :
        ClientSend(line)
  BY <1>1
<1>3. n \in Nat \ {0} /\ nextId \in Nat
  BY ConstantsTyped DEF FramesOK
<1>4. \A i \in 1 .. n : OwnRequest(nextId + i - 1) \subseteq Sendable
  <2> TAKE i \in 1 .. n
  <2>1. nextId + i - 1 \in Nat
    BY <1>3
  <2> QED
    BY <2>1, OwnRequestTyped
<1>5. line \in [1 .. n -> Sendable]
  BY <1>4
<1>6. line \in Seq(Sendable) \ {<<>>}
  BY <1>3, <1>5
<1> QED
  BY <1>2, <1>6, SendFramesOK DEF ClientRequest, FramesOK

LEMMA ListFramesOK == FramesOK /\ (ClientRefresh \/ ClientNextPage) => FramesOK'
<1> SUFFICES ASSUME FramesOK,
                    NEW page \in DOMAIN Pages,
                    ClientSend(<<Request("tools/list", nextId, page)>>),
                    nextPage' \in 0 .. Len(Pages)
             PROVE  FramesOK'
  <2>1. ClientRefresh => /\ ClientSend(<<Request("tools/list", nextId, 1)>>)
                         /\ nextPage' = nextPage /\ 1 \in DOMAIN Pages
    BY ConstantsTyped DEF ClientRefresh
  <2>2. ClientNextPage /\ FramesOK =>
          /\ ClientSend(<<Request("tools/list", nextId, nextPage)>>)
          /\ nextPage' \in 0 .. Len(Pages) /\ nextPage \in DOMAIN Pages
    BY ConstantsTyped DEF ClientNextPage, FramesOK
  <2>3. FramesOK => nextPage \in 0 .. Len(Pages)
    BY DEF FramesOK
  <2> QED
    BY <2>1, <2>2, <2>3
<1>1. Request("tools/list", nextId, page) \in Sendable
  BY RequestTyped, ConstantsTyped DEF FrameTypes, FramesOK
<1>2. <<Request("tools/list", nextId, page)>> \in Seq(Sendable) \ {<<>>}
  BY <1>1
<1> QED
  BY <1>2, SendFramesOK

LEMMA CancelFramesOK == FramesOK /\ ClientCancel => FramesOK'
<1> SUFFICES ASSUME FramesOK, ClientCancel PROVE FramesOK'
  OBVIOUS
<1>1. PICK r \in asked :
        /\ asked' = asked \ {r}
        /\ clientOut' = Append(clientOut,
                           <<Frame("cancelled", NoId, r.id, FALSE, FALSE, <<>>)>>)
  BY DEF ClientCancel
<1> DEFINE f == Frame("cancelled", NoId, r.id, FALSE, FALSE, <<>>)
<1>2. r.id \in Nat
  BY DEF FramesOK, Sendable, Frames
<1>3. f \in Frames
  BY <1>2, FrameTyped, EmptyListTyped DEF FrameTypes, NoId
<1>4. f.type # "tools/list"
  BY DEF Frame
<1>5. f \in Sendable
  BY <1>3, <1>4 DEF Sendable, Frame
<1> HIDE DEF f
<1>6. <<f>> \in Seq(Sendable) \ {<<>>}
  BY <1>5
<1>7. clientOut' \in Seq(Seq(Sendable) \ {<<>>})
  BY <1>1, <1>6, AppendProperties DEF FramesOK, f
<1> QED
  BY <1>1, <1>7 DEF FramesOK, ClientCancel, serverVars, pumpClientVars, pumpServerVars

LEMMA AnswerFramesOK == FramesOK /\ ClientAnswer => FramesOK'
<1> SUFFICES ASSUME FramesOK, ClientAnswer PROVE FramesOK'
  OBVIOUS
<1>1. PICK id \in owed :
        /\ owed' = owed \ {id}
        /\ clientOut' = Append(clientOut, <<Response(id, FALSE, FALSE, <<>>)>>)
  BY DEF ClientAnswer
<1> DEFINE f == Response(id, FALSE, FALSE, <<>>)
<1>2. f \in Sendable
  BY ResponseTyped, EmptyListTyped DEF FramesOK
<1> HIDE DEF f
<1>3. <<f>> \in Seq(Sendable) \ {<<>>}
  BY <1>2
<1>4. clientOut' \in Seq(Seq(Sendable) \ {<<>>})
  BY <1>1, <1>3, AppendProperties DEF FramesOK, f
<1> QED
  BY <1>1, <1>4 DEF FramesOK, ClientAnswer, serverVars, pumpClientVars, pumpServerVars

LEMMA ReceiveFramesOK == FramesOK /\ ClientReceive => FramesOK'
<1> SUFFICES ASSUME FramesOK, ClientReceive PROVE FramesOK'
  OBVIOUS
<1> DEFINE f == Head(clientIn)
<1>1. clientIn # <<>> /\ clientIn' = Tail(clientIn)
  BY DEF ClientReceive
<1>2. f \in Frames /\ clientIn' \in Seq(Frames)
  BY <1>1, HeadTailProperties DEF FramesOK
<1>3. asked' \subseteq Sendable
  BY DEF ClientReceive, FramesOK
<1>4. f.id \in Nat
  BY <1>2 DEF Frames
<1>5. owed' \subseteq Nat
  BY <1>4 DEF ClientReceive, FramesOK
<1>6. nextPage' \in 0 .. Len(Pages)
  <2>1. \/ nextPage' = nextPage
        \/ \E r \in asked : nextPage' = IF r.arg < Len(Pages) THEN r.arg + 1 ELSE 0
    BY DEF ClientReceive
  <2>2. \A r \in asked : r.arg \in Nat
    BY DEF FramesOK, Sendable, Frames
  <2> QED
    BY <2>1, <2>2, ConstantsTyped DEF FramesOK
<1> QED
  BY <1>2, <1>3, <1>5, <1>6
     DEF FramesOK, ClientReceive, serverVars, pumpClientVars, pumpServerVars

LEMMA ServerFramesOK ==
  FramesOK /\ (ServerRead \/ ServerAnswer \/ ServerAsk) => FramesOK'
<1>1. ASSUME FramesOK, ServerRead PROVE FramesOK'
  <2> DEFINE f == Head(serverIn)
  <2>1. serverIn # <<>> /\ serverIn' = Tail(serverIn)
    BY <1>1 DEF ServerRead
  <2>2. f \in Sendable /\ serverIn' \in Seq(Sendable)
    BY <1>1, <2>1, HeadTailProperties DEF FramesOK
  <2>3. working' \subseteq working \cup {f} /\ asking' \subseteq asking
    BY <1>1 DEF ServerRead
  <2> QED
    BY <1>1, <2>2, <2>3
       DEF FramesOK, ServerRead, clientVars, pumpClientVars, pumpServerVars
<1>2. ASSUME FramesOK, ServerAnswer PROVE FramesOK'
  <2>1. PICK n \in 1 .. MaxLine, served \in SUBSET working :
          /\ working' = working \ served
          /\ \E line \in [1 .. n -> UNION {Answer(r) : r \in served}] :
               serverOut' = Append(serverOut, line)
    BY <1>2 DEF ServerAnswer
  <2>2. PICK line \in [1 .. n -> UNION {Answer(r) : r \in served}] :
          serverOut' = Append(serverOut, line)
    BY <2>1
  <2>3. n \in Nat \ {0}
    BY ConstantsTyped
  <2>4. served \subseteq Sendable
    BY <1>2 DEF FramesOK
  <2>5. line \in [1 .. n -> Frames]
    BY <2>4, AnswerTyped
  <2>6. line \in Seq(Frames) \ {<<>>}
    BY <2>3, <2>5
  <2>7. serverOut' \in Seq(Seq(Frames) \ {<<>>})
    BY <1>2, <2>2, <2>6, AppendProperties DEF FramesOK
  <2> QED
    BY <1>2, <2>1, <2>7
       DEF FramesOK, ServerAnswer, clientVars, pumpClientVars, pumpServerVars
<1>3. ASSUME FramesOK, ServerAsk PROVE FramesOK'
  <2>1. PICK id \in unasked :
          /\ unasked' = unasked \ {id} /\ asking' = asking \cup {id}
          /\ serverOut' = Append(serverOut, <<Request("sampling", id, NoTool)>>)
    BY <1>3 DEF ServerAsk
  <2> DEFINE f == Request("sampling", id, NoTool)
  <2>2. id \in Nat
    BY <1>3 DEF FramesOK
  <2>3. f \in Frames
    BY <2>2, FrameTyped, EmptyListTyped DEF Request, FrameTypes, NoTool
  <2> HIDE DEF f
  <2>4. <<f>> \in Seq(Frames) \ {<<>>}
    BY <2>3
  <2>5. serverOut' \in Seq(Seq(Frames) \ {<<>>})
    BY <1>3, <2>1, <2>4, AppendProperties DEF FramesOK, f
  <2> QED
    BY <1>3, <2>1, <2>2, <2>5
       DEF FramesOK, ServerAsk, clientVars, pumpClientVars, pumpServerVars
<1> QED
  BY <1>1, <1>2, <1>3

LEMMA PumpClientFramesOK == PipeInv /\ PumpClient => FramesOK'
<1> SUFFICES ASSUME FramesOK, ControlOK, PumpClient PROVE FramesOK'
  BY DEF PipeInv
<1>1. CASE PumpClientRead
  <2>1. clientOut # <<>> /\ cline' = Head(clientOut) /\ clientOut' = Tail(clientOut)
    BY <1>1 DEF PumpClientRead
  <2>2. cline' \in Seq(Sendable) /\ clientOut' \in Seq(Seq(Sendable) \ {<<>>})
    BY <2>1, HeadTailProperties DEF FramesOK
  <2> QED
    BY <1>1, <2>2 DEF FramesOK, PumpClientRead, clientVars, serverVars, pumpServerVars
<1>2. CASE PumpClientObserve
  BY <1>2 DEF FramesOK, PumpClientObserve, clientVars, serverVars, pipes, pumpServerVars
<1>3. CASE PumpClientForward
  <2>1. serverIn' \in Seq(Sendable) /\ cline' \in Seq(Sendable)
    BY <1>3, ConcatProperties, EmptySeq DEF FramesOK, PumpClientForward
  <2> QED
    BY <1>3, <2>1 DEF FramesOK, PumpClientForward, clientVars, serverVars, pumpServerVars
<1>4. CASE PumpClientCapability \/ PumpClientSwap
  BY <1>4 DEF FramesOK, PumpClientCapability, PumpClientSwap, clientVars, serverVars,
              pipes, pumpServerVars
<1>5. CASE PumpClientNotify
  <2>1. clientIn' \in Seq(Frames)
    BY <1>5, NoticeTyped, AppendProperties DEF FramesOK, PumpClientNotify
  <2> QED
    BY <1>5, <2>1 DEF FramesOK, PumpClientNotify, clientVars, serverVars, pumpServerVars
<1> QED
  BY <1>1, <1>2, <1>3, <1>4, <1>5 DEF PumpClient

(* Rewriting a frame leaves the line a line, which carries what it carried.*)
LEMMA PrunedLine ==
  ASSUME PipeInv, PumpServerPrune
  PROVE  /\ sline' \in Seq(Frames) /\ Len(sline') = Len(sline)
         /\ DropBelow = 0 => CarriedSeq(sline') = CarriedSeq(sline)
<1> DEFINE f == sline[sidx]
<1>1. /\ sline \in Seq(Frames) /\ sidx \in 1 .. Len(sline) /\ Len(sline) \in Nat
  BY LenProperties DEF PipeInv, FramesOK, ControlOK, PumpServerPrune
<1>2. f \in Frames
  BY <1>1, ElementOfSeq
<1>3. CASE sline' = sline
  BY <1>1, <1>3
<1>4. CASE \E base \in BaseScores(DOMAIN f.list) :
             sline' = [sline EXCEPT ![sidx].list = PrunedList(Tiers(base))]
  <2>1. PICK base \in BaseScores(DOMAIN f.list) :
          sline' = [sline EXCEPT ![sidx].list = PrunedList(Tiers(base))]
    BY <1>4
  <2> DEFINE g == [f EXCEPT !.list = PrunedList(Tiers(base))]
  <2>2. sline' = [sline EXCEPT ![sidx] = g]
    BY <2>1
  <2>3. g \in Frames /\ (DropBelow = 0 => Carried(g) = Carried(f))
    BY <1>2, PrunedFrame
  <2> HIDE DEF g
  <2>4. /\ sline' \in Seq(Frames) /\ Len(sline') = Len(sline)
        /\ \A j \in 1 .. Len(sline) : sline'[j] = IF j = sidx THEN g ELSE sline[j]
    BY <1>1, <2>2, <2>3, ExceptSeq
  <2>5. DropBelow = 0 => \A j \in 1 .. Len(sline) : Carried(sline'[j]) = Carried(sline[j])
    BY <1>1, <2>3, <2>4
  <2>6. DropBelow = 0 => CarriedSeq(sline') = CarriedSeq(sline)
    <3>1. /\ CarriedSeq(sline) \in Seq(Carryings) /\ Len(CarriedSeq(sline)) = Len(sline)
          /\ \A j \in 1 .. Len(sline) : CarriedSeq(sline)[j] = Carried(sline[j])
      BY <1>1, CarriedSeqType
    <3>2. /\ CarriedSeq(sline') \in Seq(Carryings)
          /\ Len(CarriedSeq(sline')) = Len(sline)
          /\ \A j \in 1 .. Len(sline) : CarriedSeq(sline')[j] = Carried(sline'[j])
      BY <2>4, CarriedSeqType
    <3>3. DropBelow = 0 =>
            \A j \in 1 .. Len(sline) : CarriedSeq(sline')[j] = CarriedSeq(sline)[j]
      BY <2>5, <3>1, <3>2
    <3> QED
      BY <3>1, <3>2, <3>3, SeqEqual
  <2> QED
    BY <2>4, <2>6
<1> QED
  BY <1>3, <1>4 DEF PumpServerPrune

LEMMA PumpServerFramesOK == PipeInv /\ PumpServer => FramesOK'
<1> SUFFICES ASSUME FramesOK, ControlOK, PipeInv, PumpServer PROVE FramesOK'
  BY DEF PipeInv
<1>1. CASE PumpServerRead
  <2>1. serverOut # <<>> /\ sline' = Head(serverOut) /\ serverOut' = Tail(serverOut)
    BY <1>1 DEF PumpServerRead
  <2>2. sline' \in Seq(Frames) /\ serverOut' \in Seq(Seq(Frames) \ {<<>>})
    BY <2>1, HeadTailProperties DEF FramesOK
  <2> QED
    BY <1>1, <2>2 DEF FramesOK, PumpServerRead, clientVars, serverVars, pumpClientVars
<1>2. CASE PumpServerObserve
  BY <1>2 DEF FramesOK, PumpServerObserve, clientVars, serverVars, pipes, pumpClientVars
<1>3. CASE PumpServerPrune
  <2>1. sline' \in Seq(Frames)
    BY <1>3, PrunedLine
  <2> QED
    BY <1>3, <2>1 DEF FramesOK, PumpServerPrune, clientVars, serverVars, pipes,
                      pumpClientVars
<1>4. CASE PumpServerStore
  BY <1>4 DEF FramesOK, PumpServerStore, clientVars, serverVars, pipes, pumpClientVars
<1>5. CASE PumpServerWrite
  <2>1. clientIn' \in Seq(Frames) /\ sline' \in Seq(Frames)
    BY <1>5, ConcatProperties, EmptySeq DEF FramesOK, PumpServerWrite
  <2> QED
    BY <1>5, <2>1 DEF FramesOK, PumpServerWrite, clientVars, serverVars, pumpClientVars
<1> QED
  BY <1>1, <1>2, <1>3, <1>4, <1>5 DEF PumpServer

LEMMA NextFramesOK == PipeInv /\ [Next]_vars => FramesOK'
<1> SUFFICES ASSUME PipeInv, [Next]_vars PROVE FramesOK'
  OBVIOUS
<1>1. FramesOK
  BY DEF PipeInv
<1>2. CASE UNCHANGED vars
  BY <1>1, <1>2 DEF FramesOK, vars, clientVars, serverVars, pipes, pumpClientVars,
                    pumpServerVars
<1> QED
  BY <1>1, <1>2, InitializeFramesOK, RequestFramesOK, ListFramesOK, CancelFramesOK,
     AnswerFramesOK, ReceiveFramesOK, ServerFramesOK, PumpClientFramesOK,
     PumpServerFramesOK
     DEF Next

LEMMA PumpClientControlOK == PipeInv /\ PumpClient => ControlOK'
<1> SUFFICES ASSUME FramesOK, ControlOK, PumpClient PROVE ControlOK'
  BY DEF PipeInv
<1>1. Len(cline) \in Nat /\ (cline # <<>> => Len(cline) # 0)
  BY LenProperties, EmptySeq DEF FramesOK
<1>2. CASE PumpClientRead
  <2>1. /\ clientOut # <<>> /\ cline' = Head(clientOut) /\ cidx' = 1
        /\ cpc' = "observe"
    BY <1>2 DEF PumpClientRead
  <2>2. cline' \in Seq(Sendable) \ {<<>>}
    BY <2>1, HeadTailProperties DEF FramesOK
  <2>3. Len(cline') \in Nat \ {0}
    BY <2>2, EmptySeq
  <2> QED
    BY <1>2, <2>1, <2>2, <2>3 DEF ControlOK, PumpClientRead, pumpServerVars
<1>3. CASE PumpClientObserve
  BY <1>1, <1>3 DEF ControlOK, PumpClientObserve, pumpServerVars
<1>4. CASE PumpClientForward
  BY <1>4, EmptySeq DEF ControlOK, PumpClientForward, pumpServerVars
<1>5. CASE PumpClientCapability \/ PumpClientSwap
  BY <1>5 DEF ControlOK, PumpClientCapability, PumpClientSwap, pumpServerVars
<1>6. CASE PumpClientNotify
  BY <1>6 DEF ControlOK, PumpClientNotify, pumpServerVars
<1> QED
  BY <1>2, <1>3, <1>4, <1>5, <1>6 DEF PumpClient

LEMMA PumpServerControlOK == PipeInv /\ PumpServer => ControlOK'
<1> SUFFICES ASSUME FramesOK, ControlOK, PipeInv, PumpServer PROVE ControlOK'
  BY DEF PipeInv
<1>1. Len(sline) \in Nat /\ (sline # <<>> => Len(sline) # 0)
  BY LenProperties, EmptySeq DEF FramesOK
<1>2. CASE PumpServerRead
  <2>1. /\ serverOut # <<>> /\ sline' = Head(serverOut) /\ sidx' = 1
        /\ spc' = "observe"
    BY <1>2 DEF PumpServerRead
  <2>2. sline' \in Seq(Frames) \ {<<>>}
    BY <2>1, HeadTailProperties DEF FramesOK
  <2>3. Len(sline') \in Nat \ {0}
    BY <2>2, EmptySeq
  <2> QED
    BY <1>2, <2>1, <2>2, <2>3 DEF ControlOK, PumpServerRead, pumpClientVars
<1>3. CASE PumpServerObserve
  BY <1>1, <1>3 DEF ControlOK, PumpServerObserve, PumpServerAdvance, pumpClientVars
<1>4. CASE PumpServerPrune
  <2>1. sline' \in Seq(Frames) /\ Len(sline') = Len(sline)
    BY <1>4, PrunedLine
  <2>2. sline # <<>> /\ sline' # <<>>
    BY <1>1, <1>4, <2>1 DEF ControlOK, PumpServerPrune
  <2>3. \E changed : PumpServerAdvance(changed)
    BY <1>4 DEF PumpServerPrune
  <2> QED
    BY <1>1, <1>4, <2>1, <2>2, <2>3
       DEF ControlOK, PumpServerPrune, PumpServerAdvance, pumpClientVars
<1>5. CASE PumpServerStore
  BY <1>5 DEF ControlOK, PumpServerStore, pumpClientVars
<1>6. CASE PumpServerWrite
  BY <1>6, EmptySeq DEF ControlOK, PumpServerWrite, pumpClientVars
<1> QED
  BY <1>2, <1>3, <1>4, <1>5, <1>6 DEF PumpServer

LEMMA NextPipeInv == PipeInv /\ [Next]_vars => PipeInv'
<1> SUFFICES ASSUME PipeInv, [Next]_vars PROVE ControlOK'
  BY NextFramesOK DEF PipeInv
<1>1. ASSUME UNCHANGED <<pumpClientVars, pumpServerVars>> PROVE ControlOK'
  BY <1>1 DEF PipeInv, ControlOK, pumpClientVars, pumpServerVars
<1>2. \/ PumpClient \/ PumpServer
      \/ UNCHANGED <<pumpClientVars, pumpServerVars>>
  BY DEF Next, vars, ClientInitialize, ClientRequest, ClientRefresh, ClientNextPage,
         ClientSend, ClientCancel, ClientAnswer, ClientReceive, ServerRead,
         ServerAnswer, ServerAsk
<1> QED
  BY <1>1, <1>2, PumpClientControlOK, PumpServerControlOK

-----------------------------------------------------------------------------
(* The refinement: every step of the proxy is a step of the pipe, or none. *)

upstreamBar == CarriedLines(Unpassed(cline, clientOut))
serverInboxBar == CarriedSeq(serverIn)
downstreamBar == CarriedLines(Unpassed(sline, serverOut))
clientInboxBar == CarriedSeq(clientIn)

LEMMA LinesTyped ==
  ASSUME PipeInv
  PROVE  /\ cline \in Seq(Frames) /\ clientOut \in Seq(Seq(Frames))
         /\ sline \in Seq(Frames) /\ serverOut \in Seq(Seq(Frames))
         /\ serverIn \in Seq(Frames) /\ clientIn \in Seq(Frames)
         /\ clientOut # <<>> => Head(clientOut) # <<>>
         /\ serverOut # <<>> => Head(serverOut) # <<>>
<1>1. FramesOK /\ Sendable \subseteq Frames
  BY DEF PipeInv, Sendable
<1>2. Seq(Sendable) \ {<<>>} \subseteq Seq(Frames)
  BY <1>1, SeqMonotonic
<1>3. Seq(Frames) \ {<<>>} \subseteq Seq(Frames)
  OBVIOUS
<1>4. cline \in Seq(Frames) /\ serverIn \in Seq(Frames)
  BY <1>1, SeqMonotonic DEF FramesOK
<1>5. clientOut \in Seq(Seq(Frames))
  BY <1>1, <1>2, SeqMonotonic DEF FramesOK
<1>6. serverOut \in Seq(Seq(Frames))
  BY <1>1, <1>3, SeqMonotonic DEF FramesOK
<1>7. /\ clientOut # <<>> => Head(clientOut) # <<>>
      /\ serverOut # <<>> => Head(serverOut) # <<>>
  BY <1>1, HeadTailProperties DEF FramesOK
<1> QED
  BY <1>1, <1>4, <1>5, <1>6, <1>7 DEF FramesOK

LEMMA InitRefines == Init => Pipe!RelayInit
<1> SUFFICES ASSUME Init PROVE Pipe!RelayInit
  OBVIOUS
<1>1. Unpassed(cline, clientOut) = <<>> /\ Unpassed(sline, serverOut) = <<>>
  BY DEF Init, Unpassed
<1>2. CarriedSeq(<<>>) = <<>> /\ CarriedLines(<<>>) = <<>>
  BY DEF CarriedSeq, CarriedLines
<1>3. serverIn = <<>> /\ clientIn = <<>>
  BY DEF Init
<1> QED
  BY <1>1, <1>2, <1>3 DEF Pipe!RelayInit

(* The environment: a line is sent, a frame is received.                   *)
LEMMA AppendedTyped ==
  ASSUME NEW S, NEW s \in Seq(S), NEW e, NEW T, Append(s, e) \in Seq(T)
  PROVE  e \in T
<1>1. s \in Seq(S \cup {e})
  BY SeqMonotonic
<1>2. /\ Len(Append(s, e)) = Len(s) + 1 /\ Append(s, e)[Len(s) + 1] = e
      /\ Len(s) \in Nat
  BY <1>1, AppendProperties, LenProperties
<1> QED
  BY <1>2, ElementOfSeq

LEMMA ClientSendRefines ==
  ASSUME PipeInv, PipeInv', NEW line, clientOut' = Append(clientOut, line),
         UNCHANGED <<serverIn, serverOut, clientIn, cline, sline>>
  PROVE  Pipe!ClientSends
<1>1. line \in Seq(Frames)
  <2>1. clientOut \in Seq(Seq(Frames)) /\ Append(clientOut, line) \in Seq(Seq(Sendable) \ {<<>>})
    BY LinesTyped DEF PipeInv, FramesOK
  <2>2. line \in Seq(Sendable)
    BY <2>1, AppendedTyped
  <2> QED
    BY <2>2, SeqMonotonic DEF Sendable
<1>2. /\ upstreamBar' # <<>> /\ Front(upstreamBar') = upstreamBar
  BY <1>1, LinesTyped, SendAppends DEF upstreamBar
<1> QED
  BY <1>2 DEF Pipe!ClientSends, Pipe!Front, Front, upstreamBar

LEMMA ServerSendRefines ==
  ASSUME PipeInv, PipeInv', NEW line, serverOut' = Append(serverOut, line),
         UNCHANGED <<clientOut, serverIn, clientIn, cline, sline>>
  PROVE  Pipe!ServerSends
<1>1. line \in Seq(Frames)
  <2>1. serverOut \in Seq(Seq(Frames)) /\ Append(serverOut, line) \in Seq(Seq(Frames) \ {<<>>})
    BY LinesTyped DEF PipeInv, FramesOK
  <2> QED
    BY <2>1, AppendedTyped
<1>2. /\ downstreamBar' # <<>> /\ Front(downstreamBar') = downstreamBar
  BY <1>1, LinesTyped, SendAppends DEF downstreamBar
<1> QED
  BY <1>2 DEF Pipe!ServerSends, Pipe!Front, Front, downstreamBar

LEMMA ReceiveRefines ==
  ASSUME PipeInv, ClientReceive \/ ServerRead
  PROVE  Pipe!ClientReceives \/ Pipe!ServerReceives
<1>1. CASE ClientReceive
  <2>1. clientIn # <<>> /\ clientIn' = Tail(clientIn)
    BY <1>1 DEF ClientReceive
  <2>2. CarriedSeq(clientIn) # <<>> /\ CarriedSeq(clientIn') = Tail(CarriedSeq(clientIn))
    BY <2>1, LinesTyped, CarriedSeqTail
  <2>3. UNCHANGED <<clientOut, serverIn, serverOut, cline, sline>>
    BY <1>1 DEF ClientReceive, pumpClientVars, pumpServerVars
  <2> QED
    BY <2>2, <2>3 DEF Pipe!ClientReceives
<1>2. CASE ServerRead
  <2>1. serverIn # <<>> /\ serverIn' = Tail(serverIn)
    BY <1>2 DEF ServerRead
  <2>2. CarriedSeq(serverIn) # <<>> /\ CarriedSeq(serverIn') = Tail(CarriedSeq(serverIn))
    BY <2>1, LinesTyped, CarriedSeqTail
  <2>3. UNCHANGED <<clientOut, clientIn, serverOut, cline, sline>>
    BY <1>2 DEF ServerRead, pumpClientVars, pumpServerVars
  <2> QED
    BY <2>2, <2>3 DEF Pipe!ServerReceives
<1> QED
  BY <1>1, <1>2

LEMMA EnvironmentRefines ==
  ASSUME PipeInv, PipeInv',
         \/ ClientInitialize \/ ClientRequest \/ ClientRefresh \/ ClientNextPage
         \/ ClientCancel \/ ClientAnswer \/ ServerAnswer \/ ServerAsk
  PROVE  Pipe!ClientSends \/ Pipe!ServerSends
<1>1. CASE \E line : ClientSend(line)
  <2>1. /\ \E line : clientOut' = Append(clientOut, line)
        /\ UNCHANGED <<serverIn, serverOut, clientIn, cline, sline>>
    BY <1>1 DEF ClientSend, pumpClientVars, pumpServerVars
  <2> QED
    BY <2>1, ClientSendRefines
<1>2. CASE ClientCancel \/ ClientAnswer
  <2>1. /\ \E line : clientOut' = Append(clientOut, line)
        /\ UNCHANGED <<serverIn, serverOut, clientIn, cline, sline>>
    BY <1>2 DEF ClientCancel, ClientAnswer, pumpClientVars, pumpServerVars
  <2> QED
    BY <2>1, ClientSendRefines
<1>3. CASE ServerAnswer \/ ServerAsk
  <2>1. /\ \E line : serverOut' = Append(serverOut, line)
        /\ UNCHANGED <<clientOut, serverIn, clientIn, cline, sline>>
    BY <1>3 DEF ServerAnswer, ServerAsk, pumpClientVars, pumpServerVars
  <2> QED
    BY <2>1, ServerSendRefines
<1>4. ClientInitialize \/ ClientRequest \/ ClientRefresh \/ ClientNextPage
        => \E line : ClientSend(line)
  BY DEF ClientInitialize, ClientRequest, ClientRefresh, ClientNextPage
<1> QED
  BY <1>1, <1>2, <1>3, <1>4

LEMMA PumpClientRefines ==
  ASSUME PipeInv, PumpClient
  PROVE  Pipe!PassesToServer \/ Pipe!InjectsNotice \/ UNCHANGED Pipe!relayVars
<1>1. CASE PumpClientRead
  <2>1. /\ clientOut # <<>> /\ cline = <<>>
        /\ cline' = Head(clientOut) /\ clientOut' = Tail(clientOut)
    BY <1>1 DEF PumpClientRead, PipeInv, ControlOK
  <2>2. Unpassed(cline', clientOut') = Unpassed(cline, clientOut)
    BY <2>1, LinesTyped, ReadKeeps
  <2>3. UNCHANGED <<serverIn, serverOut, clientIn, sline>>
    BY <1>1 DEF PumpClientRead, pumpServerVars
  <2> QED
    BY <2>2, <2>3 DEF Pipe!relayVars
<1>2. CASE PumpClientForward
  <2>1. /\ cline # <<>> /\ cline' = <<>> /\ serverIn' = serverIn \o cline
        /\ UNCHANGED <<clientOut, serverOut, clientIn, sline>>
    BY <1>2 DEF PumpClientForward, PipeInv, ControlOK, pumpServerVars
  <2>2. /\ upstreamBar # <<>> /\ Head(upstreamBar) = CarriedSeq(cline)
        /\ upstreamBar' = Tail(upstreamBar)
    BY <2>1, LinesTyped, PassTakesHead DEF upstreamBar
  <2>3. CarriedSeq(serverIn') = CarriedSeq(serverIn) \o CarriedSeq(cline)
    BY <2>1, LinesTyped, CarriedSeqConcat
  <2> QED
    BY <2>1, <2>2, <2>3 DEF Pipe!PassesToServer, upstreamBar
<1>3. CASE PumpClientNotify
  <2>1. /\ clientIn' = Append(clientIn, ToolsListChanged)
        /\ UNCHANGED <<clientOut, serverIn, serverOut, cline, sline>>
    BY <1>3 DEF PumpClientNotify, pumpServerVars
  <2>2. CarriedSeq(clientIn') = Append(CarriedSeq(clientIn), Carried(ToolsListChanged))
    BY <2>1, LinesTyped, NoticeTyped, CarriedSeqAppend
  <2> QED
    BY <2>1, <2>2 DEF Pipe!InjectsNotice
<1>4. CASE PumpClientObserve \/ PumpClientCapability \/ PumpClientSwap
  <2>1. UNCHANGED <<clientOut, serverIn, serverOut, clientIn, cline, sline>>
    BY <1>4 DEF PumpClientObserve, PumpClientCapability, PumpClientSwap, pipes,
                pumpServerVars
  <2> QED
    BY <2>1 DEF Pipe!relayVars
<1> QED
  BY <1>1, <1>2, <1>3, <1>4 DEF PumpClient

LEMMA PumpServerRefines ==
  ASSUME PipeInv, PumpServer, DropBelow = 0
  PROVE  Pipe!PassesToClient \/ UNCHANGED Pipe!relayVars
<1>1. CASE PumpServerRead
  <2>1. /\ serverOut # <<>> /\ sline = <<>>
        /\ sline' = Head(serverOut) /\ serverOut' = Tail(serverOut)
    BY <1>1 DEF PumpServerRead, PipeInv, ControlOK
  <2>2. Unpassed(sline', serverOut') = Unpassed(sline, serverOut)
    BY <2>1, LinesTyped, ReadKeeps
  <2>3. UNCHANGED <<serverIn, clientOut, clientIn, cline>>
    BY <1>1 DEF PumpServerRead, pumpClientVars
  <2> QED
    BY <2>2, <2>3 DEF Pipe!relayVars
<1>2. CASE PumpServerWrite
  <2>1. /\ sline # <<>> /\ sline' = <<>> /\ clientIn' = clientIn \o sline
        /\ UNCHANGED <<clientOut, serverOut, serverIn, cline>>
    BY <1>2 DEF PumpServerWrite, PipeInv, ControlOK, pumpClientVars
  <2>2. /\ downstreamBar # <<>> /\ Head(downstreamBar) = CarriedSeq(sline)
        /\ downstreamBar' = Tail(downstreamBar)
    BY <2>1, LinesTyped, PassTakesHead DEF downstreamBar
  <2>3. CarriedSeq(clientIn') = CarriedSeq(clientIn) \o CarriedSeq(sline)
    BY <2>1, LinesTyped, CarriedSeqConcat
  <2> QED
    BY <2>1, <2>2, <2>3 DEF Pipe!PassesToClient, downstreamBar
<1>3. CASE PumpServerPrune
  <2>1. /\ sline # <<>>
        /\ UNCHANGED <<clientOut, serverIn, serverOut, clientIn, cline>>
    BY <1>3 DEF PumpServerPrune, PipeInv, ControlOK, pipes, pumpClientVars
  <2>2. /\ sline' \in Seq(Frames) /\ Len(sline') = Len(sline)
        /\ CarriedSeq(sline') = CarriedSeq(sline)
    BY <1>3, PrunedLine
  <2>3. sline' # <<>>
    BY <2>1, <2>2, LinesTyped, EmptySeq
  <2>4. downstreamBar' = downstreamBar
    <3>1. /\ downstreamBar = CarriedLines(<<sline>> \o serverOut)
          /\ downstreamBar' = CarriedLines(<<sline'>> \o serverOut)
      BY <2>1, <2>3 DEF downstreamBar, Unpassed
    <3> DEFINE u == <<sline>> \o serverOut
               v == <<sline'>> \o serverOut
    <3>2. /\ <<sline>> \in Seq(Seq(Frames)) /\ <<sline'>> \in Seq(Seq(Frames))
          /\ Len(<<sline>>) = 1 /\ Len(<<sline'>>) = 1 /\ Len(serverOut) \in Nat
          /\ serverOut \in Seq(Seq(Frames))
      BY <2>2, LinesTyped, LenProperties
    <3>3. /\ u \in Seq(Seq(Frames)) /\ Len(u) = 1 + Len(serverOut)
          /\ \A i \in 1 .. 1 + Len(serverOut) :
               u[i] = IF i <= 1 THEN <<sline>>[i] ELSE serverOut[i - 1]
      BY <3>2, ConcatProperties
    <3>4. /\ v \in Seq(Seq(Frames)) /\ Len(v) = 1 + Len(serverOut)
          /\ \A i \in 1 .. 1 + Len(serverOut) :
               v[i] = IF i <= 1 THEN <<sline'>>[i] ELSE serverOut[i - 1]
      BY <3>2, ConcatProperties
    <3> HIDE DEF u, v
    <3>5. /\ CarriedLines(u) \in Seq(Seq(Carryings))
          /\ Len(CarriedLines(u)) = 1 + Len(serverOut)
          /\ \A i \in 1 .. 1 + Len(serverOut) : CarriedLines(u)[i] = CarriedSeq(u[i])
      BY <3>3, CarriedLinesType
    <3>6. /\ CarriedLines(v) \in Seq(Seq(Carryings))
          /\ Len(CarriedLines(v)) = 1 + Len(serverOut)
          /\ \A i \in 1 .. 1 + Len(serverOut) : CarriedLines(v)[i] = CarriedSeq(v[i])
      BY <3>4, CarriedLinesType
    <3>7. \A i \in 1 .. 1 + Len(serverOut) : CarriedSeq(u[i]) = CarriedSeq(v[i])
      <4> TAKE i \in 1 .. 1 + Len(serverOut)
      <4>1. CASE i = 1
        <5>1. 1 \in 1 .. 1 + Len(serverOut) /\ 1 <= 1
          BY <3>2
        <5>2. u[1] = <<sline>>[1] /\ v[1] = <<sline'>>[1]
          BY <3>3, <3>4, <5>1
        <5>3. <<sline>>[1] = sline /\ <<sline'>>[1] = sline'
          OBVIOUS
        <5> QED
          BY <2>2, <4>1, <5>2, <5>3
      <4>2. CASE i # 1
        <5>1. ~(i <= 1)
          BY <3>2, <4>2
        <5> QED
          BY <3>3, <3>4, <5>1
      <4> QED
        BY <4>1, <4>2
    <3>8. \A i \in 1 .. 1 + Len(serverOut) : CarriedLines(u)[i] = CarriedLines(v)[i]
      BY <3>5, <3>6, <3>7
    <3>9. CarriedLines(u) = CarriedLines(v)
      BY <3>5, <3>6, <3>8, SeqEqual
    <3> QED
      BY <3>1, <3>9 DEF u, v
  <2> QED
    BY <2>1, <2>4 DEF Pipe!relayVars, downstreamBar
<1>4. CASE PumpServerObserve \/ PumpServerStore
  <2>1. UNCHANGED <<clientOut, serverIn, serverOut, clientIn, cline, sline>>
    BY <1>4 DEF PumpServerObserve, PumpServerStore, pipes, pumpClientVars
  <2> QED
    BY <2>1 DEF Pipe!relayVars
<1> QED
  BY <1>1, <1>2, <1>3, <1>4 DEF PumpServer

LEMMA StepRefines ==
  ASSUME DropBelow = 0, PipeInv, PipeInv', [Next]_vars
  PROVE  [Pipe!RelayNext]_(Pipe!relayVars)
<1>1. CASE UNCHANGED vars
  <2>1. UNCHANGED <<clientOut, serverIn, serverOut, clientIn, cline, sline>>
    BY <1>1 DEF vars, pipes, pumpClientVars, pumpServerVars
  <2> QED
    BY <2>1 DEF Pipe!relayVars
<1>2. CASE Next
  BY <1>2, EnvironmentRefines, ReceiveRefines, PumpClientRefines, PumpServerRefines
     DEF Next, Pipe!RelayNext
<1> QED
  BY <1>1, <1>2

(* The proxy is a pipe in each direction: of any tools, pages, budget,     *)
(* scores, ids and batches, with errors, cancellations and the requests of *)
(* the server, it passes on every line once, whole and in order, and adds  *)
(* nothing but notices (proxy.go, pumpClient and pumpServer).  Only a      *)
(* configuration that drops tools may keep some of them back.              *)
THEOREM ProxyIsPipe ==
  ASSUME DropBelow = 0
  PROVE  Spec => IsPipe
<1>1. PipeInv /\ PipeInv' /\ [Next]_vars => [Pipe!RelayNext]_(Pipe!relayVars)
  BY StepRefines
<1> QED
  BY <1>1, InitPipeInv, NextPipeInv, InitRefines, PTL DEF Spec, IsPipe, Pipe!RelaySpec

-----------------------------------------------------------------------------
(* The session at work: whatever the two pumps do, in any interleaving,    *)
(* the session only makes steps it can make on its own, so what holds of   *)
(* it for any frames in any order holds in the proxy.                      *)

AnyId == Ids = Nat \ {NoId}

LEMMA ClientFrameCalls ==
  ASSUME AnyId, NEW f \in Frames, ObserveClient(f)
  PROVE  [SessionCall]_sessionVars
<1>1. f.id \in Ids \cup {NoId}
  BY DEF AnyId, Frames
<1>2. ASSUME NEW type \in {"initialize", "tools/list", "tools/call"},
             NEW arg \in Tools \cup {NoTool}
      PROVE  /\ Request(type, f.id, arg) \in ClientFrames
             /\ Request(type, f.id, arg).type = type
             /\ Request(type, f.id, arg).id = f.id
             /\ Request(type, f.id, arg).arg = arg
  <2>1. Request(type, f.id, arg) \in ClientFrames
    BY <1>1 DEF ClientFrames
  <2> QED
    BY <2>1 DEF Request, Frame
<1>3. CASE ObserveInitialize(f)
  <2> DEFINE g == Request("initialize", f.id, NoTool)
  <2>1. g \in ClientFrames /\ g.type = "initialize" /\ g.id = f.id
    BY <1>2
  <2> HIDE DEF g
  <2>2. ObserveInitialize(g)
    BY <1>3, <2>1 DEF ObserveInitialize, WithId
  <2> QED
    BY <2>1, <2>2 DEF ObserveClient, SessionCall
<1>4. CASE ObserveToolsList(f)
  <2> DEFINE g == Request("tools/list", f.id, NoTool)
  <2>1. g \in ClientFrames /\ g.type = "tools/list" /\ g.id = f.id
    BY <1>2
  <2> HIDE DEF g
  <2>2. ObserveToolsList(g)
    BY <1>4, <2>1 DEF ObserveToolsList, WithId
  <2> QED
    BY <2>1, <2>2 DEF ObserveClient, SessionCall
<1>5. CASE ObserveToolsCall(f)
  <2> DEFINE g == Request("tools/call", f.id, f.arg)
  <2>1. f.arg \in Tools
    BY <1>5 DEF ObserveToolsCall, IsCall
  <2>2. g \in ClientFrames /\ g.type = "tools/call" /\ g.id = f.id /\ g.arg = f.arg
    BY <1>2, <2>1
  <2> HIDE DEF g
  <2>3. ObserveToolsCall(g)
    BY <1>5, <2>1, <2>2 DEF ObserveToolsCall, IsCall, WithId
  <2> QED
    BY <2>2, <2>3 DEF ObserveClient, SessionCall
<1>6. CASE ObserveOther(f)
  BY <1>6 DEF ObserveOther
<1> QED
  BY <1>3, <1>4, <1>5, <1>6 DEF ObserveClient

LEMMA ServerFrameCalls ==
  ASSUME AnyId, NEW f \in Frames, ObserveServerFrame(f)
  PROVE  [SessionCall]_sessionVars
<1> DEFINE g == Response(f.id, f.err, f.listChanged, <<>>)
<1>1. f.id \in Ids \cup {NoId} /\ f.err \in BOOLEAN /\ f.listChanged \in BOOLEAN
  BY DEF AnyId, Frames
<1>2. g \in ServerFrames
  BY <1>1 DEF ServerFrames
<1>3. /\ g.type = "response" /\ g.id = f.id /\ g.err = f.err
      /\ g.listChanged = f.listChanged
  BY DEF Response, Frame
<1> HIDE DEF g
<1>4. CASE f.type = "response"
  <2>1. \A pending : Answers(pending, g) <=> Answers(pending, f)
    BY <1>3, <1>4 DEF Answers
  <2>2. \A pending : Answered(pending, g) = Answered(pending, f)
    BY <1>3 DEF Answered
  <2>3. ObserveServer(g)
    BY <1>3, <2>1, <2>2 DEF ObserveServerFrame, ObserveServer, IsToolsList
  <2>4. ObserveServerFrame(g)
    BY <2>3 DEF ObserveServerFrame
  <2> QED
    BY <1>2, <2>4 DEF SessionCall
<1>5. CASE f.type # "response"
  BY <1>5 DEF ObserveServerFrame, ObserveServer, IsToolsList, Answers, sessionVars
<1> QED
  BY <1>4, <1>5

LEMMA ProxyStepCalls ==
  ASSUME AnyId, PipeInv, [Next]_vars
  PROVE  [SessionCall]_sessionVars
<1>1. CASE UNCHANGED sessionVars
  BY <1>1
<1>2. CASE PumpClientObserve
  <2>1. cidx \in 1 .. Len(cline) /\ cline \in Seq(Frames)
    BY <1>2, LinesTyped, LenProperties DEF PipeInv, ControlOK, PumpClientObserve
  <2>2. cline[cidx] \in Frames
    BY <2>1, ElementOfSeq
  <2> QED
    BY <1>2, <2>2, ClientFrameCalls DEF PumpClientObserve
<1>3. CASE PumpServerObserve
  <2>1. sidx \in 1 .. Len(sline) /\ sline \in Seq(Frames)
    BY <1>3, LinesTyped, LenProperties DEF PipeInv, ControlOK, PumpServerObserve
  <2>2. sline[sidx] \in Frames
    BY <2>1, ElementOfSeq
  <2> QED
    BY <1>3, <2>2, ServerFrameCalls DEF PumpServerObserve
<1>4. CASE PumpServerPrune
  <2>1. sidx \in 1 .. Len(sline) /\ sline \in Seq(Frames)
    BY <1>4, LinesTyped, LenProperties DEF PipeInv, ControlOK, PumpServerPrune
  <2>2. sline[sidx] \in Frames
    BY <2>1, ElementOfSeq
  <2>3. DOMAIN sline[sidx].list \in SUBSET Tools
    BY <2>2 DEF Frames, Lists
  <2>4. \/ UNCHANGED sessionVars
        \/ /\ DOMAIN sline[sidx].list # {}
           /\ \E base \in BaseScores(DOMAIN sline[sidx].list) : PruneToolsResult(base)
    BY <1>4 DEF PumpServerPrune, Prunable
  <2> DEFINE page == DOMAIN sline[sidx].list
  <2>5. CASE page # {} /\ \E base \in BaseScores(page) : PruneToolsResult(base)
    <3>1. page \in (SUBSET Tools) \ {{}}
      BY <2>3, <2>5
    <3> HIDE DEF page
    <3> QED
      BY <2>5, <3>1 DEF SessionCall
  <2> QED
    BY <2>4, <2>5
<1>5. \/ UNCHANGED sessionVars \/ PumpClientObserve \/ PumpServerObserve
      \/ PumpServerPrune
  BY DEF Next, vars, ClientInitialize, ClientRequest, ClientRefresh, ClientNextPage,
         ClientSend, ClientCancel, ClientAnswer, ClientReceive, ServerRead,
         ServerAnswer, ServerAsk, PumpClient, PumpClientRead, PumpClientForward,
         PumpClientCapability, PumpClientSwap, PumpClientNotify, PumpServer,
         PumpServerRead, PumpServerStore, PumpServerWrite
<1> QED
  BY <1>1, <1>2, <1>3, <1>4, <1>5

(* The proxy runs the session: each of its steps is at most one call of    *)
(* the session, with a frame or a list the session may be given.           *)
THEOREM ProxyRunsSession == ASSUME AnyId PROVE Spec => SessionCalls
<1>1. Init => SessionInit
  BY DEF Init
<1>2. PipeInv /\ [Next]_vars => [SessionCall]_sessionVars
  BY ProxyStepCalls
<1> QED
  BY <1>1, <1>2, InitPipeInv, NextPipeInv, PTL DEF Spec, SessionCalls

(* The promise of the reveal loop and the bound of the reveal set hold in  *)
(* the running proxy, whatever its two pumps interleave (session.go, "All  *)
(* state is in-memory, bounded"; config.go, RevealSteps).                  *)
THEOREM ProxyKeepsPromise ==
  ASSUME AnyId
  PROVE  Spec => [](RevealedStayFull /\ RevealedBound)
BY ProxyRunsSession, PromiseKept, RevealsBounded, PTL

-----------------------------------------------------------------------------
HasInitialize(line) == \E k \in DOMAIN line : line[k].type = "initialize"

InPipe == \E i \in DOMAIN clientOut : HasInitialize(clientOut[i])
InPump ==
  cpc = "observe" /\ \E k \in cidx .. Len(cline) : cline[k].type = "initialize"

(* The request is sent once and on a line of its own.                      *)
SentOnce ==
  /\ \A i, j \in DOMAIN clientOut :
       HasInitialize(clientOut[i]) /\ HasInitialize(clientOut[j]) => i = j
  /\ \A i \in DOMAIN clientOut :
       HasInitialize(clientOut[i]) => Len(clientOut[i]) = 1
  /\ InPump => Len(cline) = 1

(* It is at one place at a time.                                           *)
OnePlace ==
  /\ InPump => ~InPipe
  /\ nextId = 1 \/ caps \/ pendingIni # {} => ~InPipe /\ ~InPump
  /\ nextId = 1 => ~caps
  /\ nextId = 1 \/ caps => pendingIni = {}
  /\ \A a, b \in pendingIni : a = b

(* The server sends no notification of this kind itself.                   *)
ServerSaid == {f \in Frames : f.type # "list_changed"}
ServerQuiet ==
  /\ serverOut \in Seq(Seq(ServerSaid)) /\ sline \in Seq(ServerSaid)

(* From the check of the capability to the end of the notification.        *)
DeclaredFirst ==
  notifyPending \/ cpc \in {"swap", "notify"} \/ NotificationsInFlight # {} => caps

HandshakeInv == PipeInv /\ SentOnce /\ OnePlace /\ caps \in BOOLEAN
NoticeInv == HandshakeInv /\ ServerQuiet /\ DeclaredFirst

-----------------------------------------------------------------------------
(* A line without the request adds nothing; with it, it is the last one.   *)
LEMMA Appended ==
  ASSUME PipeInv, PipeInv', NEW line, clientOut' = Append(clientOut, line)
  PROVE  /\ Len(clientOut) \in Nat
         /\ DOMAIN clientOut = 1 .. Len(clientOut)
         /\ DOMAIN clientOut' = 1 .. Len(clientOut) + 1
         /\ \A i \in 1 .. Len(clientOut) : clientOut'[i] = clientOut[i]
         /\ clientOut'[Len(clientOut) + 1] = line
<1> DEFINE S == Seq(Sendable) \ {<<>>}
<1>1. clientOut \in Seq(S) /\ Append(clientOut, line) \in Seq(S)
  BY DEF PipeInv, FramesOK
<1> HIDE DEF S
<1>2. line \in S
  BY <1>1, AppendedTyped
<1>3. /\ Len(Append(clientOut, line)) = Len(clientOut) + 1
      /\ \A i \in 1 .. Len(clientOut) : Append(clientOut, line)[i] = clientOut[i]
      /\ Append(clientOut, line)[Len(clientOut) + 1] = line
  BY <1>1, <1>2, AppendProperties
<1>4. /\ Len(clientOut) \in Nat /\ DOMAIN clientOut = 1 .. Len(clientOut)
      /\ DOMAIN Append(clientOut, line) = 1 .. Len(Append(clientOut, line))
  BY <1>1, LenProperties
<1> QED
  BY <1>3, <1>4

LEMMA PlainAppended ==
  ASSUME PipeInv, PipeInv', NEW line, clientOut' = Append(clientOut, line),
         ~HasInitialize(line), UNCHANGED <<cpc, cline, cidx>>, SentOnce
  PROVE  SentOnce' /\ InPipe' = InPipe /\ InPump' = InPump
<1>1. /\ Len(clientOut) \in Nat
      /\ DOMAIN clientOut = 1 .. Len(clientOut)
      /\ DOMAIN clientOut' = 1 .. Len(clientOut) + 1
      /\ \A i \in 1 .. Len(clientOut) : clientOut'[i] = clientOut[i]
      /\ clientOut'[Len(clientOut) + 1] = line
  BY Appended
<1>2. \A i \in DOMAIN clientOut' :
        HasInitialize(clientOut'[i]) => i \in DOMAIN clientOut /\ clientOut'[i] = clientOut[i]
  BY <1>1
<1>3. InPump' = InPump
  BY DEF InPump
<1>4. InPipe' = InPipe
  <2>1. InPipe' => InPipe
    BY <1>2 DEF InPipe
  <2>2. InPipe => InPipe'
    BY <1>1 DEF InPipe
  <2> QED
    BY <2>1, <2>2 DEF InPipe
<1>5. SentOnce'
  <2>1. \A i, j \in DOMAIN clientOut' :
          HasInitialize(clientOut'[i]) /\ HasInitialize(clientOut'[j]) => i = j
    BY <1>2 DEF SentOnce
  <2>2. \A i \in DOMAIN clientOut' :
          HasInitialize(clientOut'[i]) => Len(clientOut'[i]) = 1
    BY <1>2 DEF SentOnce
  <2>3. InPump' => Len(cline') = 1
    BY <1>3 DEF SentOnce
  <2> QED
    BY <2>1, <2>2, <2>3 DEF SentOnce
<1> QED
  BY <1>3, <1>4, <1>5

(* The client's steps.                                                     *)
LEMMA RequestIsPlain ==
  ASSUME NEW id, NEW type, NEW arg, type # "initialize"
  PROVE  ~HasInitialize(<<Request(type, id, arg)>>)
BY DEF HasInitialize, Request, Frame

LEMMA InitializeOnce ==
  HandshakeInv /\ PipeInv' /\ ClientInitialize => SentOnce' /\ OnePlace'
<1> SUFFICES ASSUME HandshakeInv, PipeInv', ClientInitialize
             PROVE  SentOnce' /\ OnePlace'
  OBVIOUS
<1> DEFINE line == <<Request("initialize", 1, NoTool)>>
<1>1. /\ nextId = 1 /\ clientOut' = Append(clientOut, line) /\ nextId' = 2
      /\ UNCHANGED <<caps, pendingIni, cpc, cline, cidx>>
  BY DEF ClientInitialize, ClientSend, sessionVars, pumpClientVars
<1>2. Len(line) = 1
  OBVIOUS
<1> HIDE DEF line
<1>3. ~InPipe /\ ~InPump /\ ~caps /\ pendingIni = {}
  BY <1>1 DEF HandshakeInv, OnePlace
<1>4. ~InPump' /\ ~caps' /\ pendingIni' = {}
  BY <1>1, <1>3 DEF InPump
<1>5. \A i \in DOMAIN clientOut' :
        HasInitialize(clientOut'[i]) => i = Len(clientOut) + 1 /\ clientOut'[i] = line
  <2> SUFFICES ASSUME NEW i \in DOMAIN clientOut', HasInitialize(clientOut'[i])
               PROVE  i = Len(clientOut) + 1 /\ clientOut'[i] = line
    OBVIOUS
  <2>1. /\ Len(clientOut) \in Nat /\ DOMAIN clientOut = 1 .. Len(clientOut)
        /\ DOMAIN clientOut' = 1 .. Len(clientOut) + 1
        /\ \A k \in 1 .. Len(clientOut) : clientOut'[k] = clientOut[k]
        /\ clientOut'[Len(clientOut) + 1] = line
    BY <1>1, Appended DEF HandshakeInv
  <2>2. i \notin DOMAIN clientOut
    BY <1>3, <2>1 DEF InPipe
  <2> QED
    BY <2>1, <2>2
<1>6. SentOnce'
  BY <1>2, <1>4, <1>5 DEF SentOnce
<1>7. OnePlace'
  BY <1>1, <1>4 DEF OnePlace
<1> QED
  BY <1>6, <1>7

LEMMA PlainKeeps ==
  ASSUME HandshakeInv, PipeInv', NEW line, ~HasInitialize(line),
         clientOut' = Append(clientOut, line), (nextId = 1) <=> (nextId' = 1),
         UNCHANGED <<caps, pendingIni, cpc, cline, cidx>>
  PROVE  SentOnce' /\ OnePlace'
<1>1. SentOnce' /\ InPipe' = InPipe /\ InPump' = InPump
  BY PlainAppended DEF HandshakeInv
<1>2. OnePlace'
  BY <1>1 DEF HandshakeInv, OnePlace
<1> QED
  BY <1>1, <1>2

LEMMA ElsewhereKeeps ==
  ASSUME HandshakeInv, UNCHANGED <<clientOut, nextId, caps, pendingIni, cpc, cline, cidx>>
  PROVE  SentOnce' /\ OnePlace'
BY DEF HandshakeInv, SentOnce, OnePlace, InPipe, InPump

LEMMA OwnRequestsPlain ==
  ASSUME NEW id, NEW f \in OwnRequest(id)
  PROVE  f.type # "initialize"
BY DEF OwnRequest, Request, Frame

LEMMA ClientKeeps ==
  HandshakeInv /\ PipeInv' /\ (ClientRequest \/ ClientRefresh \/ ClientNextPage
                               \/ ClientCancel \/ ClientAnswer)
    => SentOnce' /\ OnePlace'
<1> SUFFICES ASSUME HandshakeInv, PipeInv'
             PROVE  ClientRequest \/ ClientRefresh \/ ClientNextPage \/ ClientCancel
                      \/ ClientAnswer => SentOnce' /\ OnePlace'
  OBVIOUS
<1>1. ASSUME MaySend, NEW line, ~HasInitialize(line), ClientSend(line)
      PROVE  SentOnce' /\ OnePlace'
  <2>1. clientOut' = Append(clientOut, line) /\ nextId' = nextId + Len(line)
        /\ UNCHANGED <<caps, pendingIni, cpc, cline, cidx>>
    BY <1>1 DEF ClientSend, sessionVars, pumpClientVars
  <2>2. line \in Seq(Sendable)
    <3>1. clientOut \in Seq(Seq(Sendable) \ {<<>>}) /\ clientOut' \in Seq(Seq(Sendable) \ {<<>>})
      BY DEF HandshakeInv, PipeInv, FramesOK
    <3>2. line \in Seq(Sendable) \ {<<>>}
      BY <2>1, <3>1, AppendedTyped
    <3> QED
      BY <3>2
  <2>3. nextId \in Nat /\ nextId > 1 /\ Len(line) \in Nat
    BY <1>1, <2>2, LenProperties DEF HandshakeInv, PipeInv, FramesOK, MaySend
  <2>4. nextId # 1 /\ nextId' # 1
    BY <2>1, <2>3
  <2> QED
    BY <1>1, <2>1, <2>4, PlainKeeps
<1>2. CASE ClientRequest
  <2>1. PICK n \in 1 .. MaxLine :
          \E line \in [1 .. n -> UNION {OwnRequest(nextId + i - 1) : i \in 1 .. n}] :
            ClientSend(line)
    BY <1>2 DEF ClientRequest
  <2>2. PICK line \in [1 .. n -> UNION {OwnRequest(nextId + i - 1) : i \in 1 .. n}] :
          ClientSend(line)
    BY <2>1
  <2>3. \A k \in DOMAIN line : line[k].type # "initialize"
    BY <2>2, OwnRequestsPlain
  <2>4. ~HasInitialize(line)
    BY <2>3 DEF HasInitialize
  <2> QED
    BY <1>1, <1>2, <2>2, <2>4 DEF ClientRequest
<1>3. CASE ClientRefresh \/ ClientNextPage
  <2>1. MaySend /\ \E page : ClientSend(<<Request("tools/list", nextId, page)>>)
    BY <1>3 DEF ClientRefresh, ClientNextPage
  <2>2. \A page : ~HasInitialize(<<Request("tools/list", nextId, page)>>)
    BY RequestIsPlain
  <2> QED
    BY <1>1, <2>1, <2>2
<1>4. CASE ClientCancel \/ ClientAnswer
  <2>1. /\ \/ \E id : clientOut' = Append(clientOut,
                          <<Frame("cancelled", NoId, id, FALSE, FALSE, <<>>)>>)
           \/ \E id : clientOut' = Append(clientOut, <<Response(id, FALSE, FALSE, <<>>)>>)
        /\ UNCHANGED <<nextId, caps, pendingIni, cpc, cline, cidx>>
    BY <1>4 DEF ClientCancel, ClientAnswer, sessionVars, pumpClientVars
  <2>2. /\ \A id : ~HasInitialize(<<Frame("cancelled", NoId, id, FALSE, FALSE, <<>>)>>)
        /\ \A id : ~HasInitialize(<<Response(id, FALSE, FALSE, <<>>)>>)
    BY DEF HasInitialize, Response, Frame
  <2>3. PICK line : clientOut' = Append(clientOut, line) /\ ~HasInitialize(line)
    BY <2>1, <2>2
  <2> QED
    BY <2>1, <2>3, PlainKeeps
<1> QED
  BY <1>2, <1>3, <1>4

(* The pumps' steps.                                                       *)
LEMMA ReadMoves ==
  HandshakeInv /\ PumpClientRead => SentOnce' /\ OnePlace'
<1> SUFFICES ASSUME HandshakeInv, PumpClientRead PROVE SentOnce' /\ OnePlace'
  OBVIOUS
<1>1. /\ clientOut # <<>> /\ clientOut' = Tail(clientOut) /\ cline' = Head(clientOut)
      /\ cidx' = 1 /\ cpc = "read" /\ cpc' = "observe"
      /\ UNCHANGED <<nextId, caps, pendingIni>>
  BY DEF PumpClientRead, sessionVars, clientVars
<1>2. clientOut \in Seq(Seq(Sendable) \ {<<>>})
  BY DEF HandshakeInv, PipeInv, FramesOK
<1>3. /\ Len(clientOut) \in Nat \ {0} /\ DOMAIN clientOut = 1 .. Len(clientOut)
      /\ Tail(clientOut) \in Seq(Seq(Sendable) \ {<<>>})
      /\ Len(Tail(clientOut)) = Len(clientOut) - 1
      /\ \A i \in 1 .. Len(Tail(clientOut)) : Tail(clientOut)[i] = clientOut[i + 1]
  BY <1>1, <1>2, HeadTailProperties, EmptySeq, LenProperties
<1>4. DOMAIN clientOut' = 1 .. Len(clientOut) - 1
  BY <1>1, <1>3, LenProperties
<1>5. \A i \in DOMAIN clientOut' : i + 1 \in DOMAIN clientOut /\ clientOut'[i] = clientOut[i + 1]
  BY <1>1, <1>3, <1>4
<1>6. 1 \in DOMAIN clientOut /\ cline' = clientOut[1]
  BY <1>1, <1>3
<1>7. cline' \in Seq(Sendable)
  BY <1>1, <1>2, HeadTailProperties
<1>8. InPump' => HasInitialize(clientOut[1])
  <2>1. DOMAIN cline' = 1 .. Len(cline')
    BY <1>7, LenProperties
  <2>2. InPump' => HasInitialize(cline')
    BY <1>1, <2>1 DEF InPump, HasInitialize
  <2> QED
    BY <1>6, <2>2
<1>9. InPump' => InPipe
  BY <1>6, <1>8 DEF InPipe
<1>10. InPipe' => InPipe
  BY <1>5 DEF InPipe
<1>11. InPump' => ~InPipe'
  <2> SUFFICES ASSUME InPump', InPipe' PROVE FALSE
    OBVIOUS
  <2>1. PICK i \in DOMAIN clientOut' : HasInitialize(clientOut'[i])
    BY DEF InPipe
  <2>2. i + 1 = 1
    BY <1>5, <1>6, <1>8, <2>1 DEF HandshakeInv, SentOnce
  <2> QED
    BY <1>4, <2>2
<1>12. SentOnce'
  <2>1. \A i, j \in DOMAIN clientOut' :
          HasInitialize(clientOut'[i]) /\ HasInitialize(clientOut'[j]) => i = j
    <3> SUFFICES ASSUME NEW i \in DOMAIN clientOut', NEW j \in DOMAIN clientOut',
                        HasInitialize(clientOut'[i]), HasInitialize(clientOut'[j])
                 PROVE  i = j
      OBVIOUS
    <3>1. i + 1 = j + 1
      BY <1>5 DEF HandshakeInv, SentOnce
    <3> QED
      BY <1>4, <3>1
  <2>2. \A i \in DOMAIN clientOut' :
          HasInitialize(clientOut'[i]) => Len(clientOut'[i]) = 1
    BY <1>5 DEF HandshakeInv, SentOnce
  <2>3. InPump' => Len(cline') = 1
    BY <1>6, <1>8 DEF HandshakeInv, SentOnce
  <2> QED
    BY <2>1, <2>2, <2>3 DEF SentOnce
<1>13. OnePlace'
  BY <1>1, <1>9, <1>10, <1>11 DEF HandshakeInv, OnePlace
<1> QED
  BY <1>12, <1>13

LEMMA ObserveMoves ==
  HandshakeInv /\ PipeInv' /\ PumpClientObserve => SentOnce' /\ OnePlace'
<1> SUFFICES ASSUME HandshakeInv, PipeInv', PumpClientObserve
             PROVE  SentOnce' /\ OnePlace'
  OBVIOUS
<1> DEFINE f == cline[cidx]
<1>1. /\ cpc = "observe" /\ cidx' = cidx + 1 /\ ObserveClient(f)
      /\ UNCHANGED <<clientOut, cline, nextId>>
  BY DEF PumpClientObserve, pipes, clientVars
<1>2. cidx \in 1 .. Len(cline) /\ Len(cline) \in Nat
  BY <1>1, LenProperties DEF HandshakeInv, PipeInv, FramesOK, ControlOK
<1>3. InPipe' = InPipe
  BY <1>1 DEF InPipe
<1>4. InPump' => InPump
  BY <1>1, <1>2 DEF InPump
<1>5. SentOnce'
  BY <1>1, <1>4 DEF HandshakeInv, SentOnce
<1>6. CASE f.type = "initialize"
  <2>1. InPump
    BY <1>1, <1>2, <1>6 DEF InPump
  <2>2. ~InPipe /\ nextId # 1 /\ ~caps /\ pendingIni = {} /\ Len(cline) = 1
    BY <2>1 DEF HandshakeInv, OnePlace, SentOnce
  <2>3. ~InPump'
    BY <1>1, <1>2, <2>2 DEF InPump
  <2>4. caps' = caps /\ pendingIni' \subseteq {f.id}
    BY <1>1, <1>6, <2>2
       DEF ObserveClient, ObserveInitialize, ObserveToolsList, ObserveToolsCall,
           ObserveOther, IsCall, WithId
  <2> QED
    BY <1>1, <1>3, <1>5, <2>2, <2>3, <2>4 DEF OnePlace
<1>7. CASE f.type # "initialize"
  <2>1. UNCHANGED <<caps, pendingIni>>
    BY <1>1, <1>7
       DEF ObserveClient, ObserveInitialize, ObserveToolsList, ObserveToolsCall,
           ObserveOther, sessionVars
  <2> QED
    BY <1>1, <1>3, <1>4, <1>5, <2>1 DEF HandshakeInv, OnePlace
<1> QED
  BY <1>6, <1>7

LEMMA RestOfPumpClientKeeps ==
  HandshakeInv /\ (PumpClientForward \/ PumpClientCapability \/ PumpClientSwap
                   \/ PumpClientNotify)
    => SentOnce' /\ OnePlace'
<1> SUFFICES ASSUME HandshakeInv,
                    \/ PumpClientForward \/ PumpClientCapability
                    \/ PumpClientSwap \/ PumpClientNotify
             PROVE  SentOnce' /\ OnePlace'
  OBVIOUS
<1>1. /\ cpc # "observe" /\ cpc' # "observe"
      /\ UNCHANGED <<clientOut, nextId, caps, pendingIni>>
  BY DEF PumpClientForward, PumpClientCapability, PumpClientSwap, PumpClientNotify,
         sessionVars, clientVars, pipes
<1>2. ~InPump /\ ~InPump' /\ InPipe' = InPipe
  BY <1>1 DEF InPump, InPipe
<1>3. SentOnce'
  BY <1>1, <1>2 DEF HandshakeInv, SentOnce
<1>4. OnePlace'
  BY <1>1, <1>2 DEF HandshakeInv, OnePlace
<1> QED
  BY <1>3, <1>4

(* The answer to initialize: the capability is declared when no other one  *)
(* can be asked for.                                                       *)
LEMMA AnswerEnds ==
  HandshakeInv /\ PumpServerObserve => SentOnce' /\ OnePlace'
<1> SUFFICES ASSUME HandshakeInv, PumpServerObserve PROVE SentOnce' /\ OnePlace'
  OBVIOUS
<1> DEFINE f == sline[sidx]
<1>1. ObserveServer(f) /\ UNCHANGED <<clientOut, nextId, cpc, cline, cidx>>
  BY DEF PumpServerObserve, ObserveServerFrame, clientVars, pipes, pumpClientVars
<1>2. CASE UNCHANGED <<caps, pendingIni>>
  BY <1>1, <1>2, ElsewhereKeeps
<1>3. CASE f.id \in pendingIni /\ pendingIni' = pendingIni \ {f.id}
  <2>1. pendingIni' = {}
    BY <1>3 DEF HandshakeInv, OnePlace
  <2>2. ~InPipe /\ ~InPump /\ nextId # 1
    BY <1>3 DEF HandshakeInv, OnePlace
  <2>3. ~InPipe' /\ ~InPump' /\ nextId' # 1
    BY <1>1, <2>2 DEF InPipe, InPump
  <2>4. SentOnce'
    BY <1>1, <2>3 DEF HandshakeInv, SentOnce
  <2> QED
    BY <2>1, <2>3, <2>4 DEF OnePlace
<1>4. UNCHANGED <<caps, pendingIni>> \/ (f.id \in pendingIni /\ pendingIni' = pendingIni \ {f.id})
  BY <1>1 DEF ObserveServer, Answers, Answered
<1> QED
  BY <1>2, <1>3, <1>4

LEMMA NextHandshakeInv == NoticeInv /\ [Next]_vars => HandshakeInv'
<1> SUFFICES ASSUME NoticeInv, [Next]_vars PROVE HandshakeInv'
  OBVIOUS
<1>1. HandshakeInv /\ PipeInv'
  BY NextPipeInv DEF NoticeInv, HandshakeInv
<1> DEFINE same == UNCHANGED <<clientOut, nextId, caps, pendingIni, cpc, cline, cidx>>
<1>2. ClientReceive \/ ServerRead \/ ServerAnswer \/ ServerAsk => same
  BY DEF ClientReceive, ServerRead, ServerAnswer, ServerAsk, sessionVars, clientVars,
         pumpClientVars
<1>3. PumpServerRead \/ PumpServerPrune \/ PumpServerStore \/ PumpServerWrite => same
  BY DEF PumpServerRead, PumpServerPrune, PruneToolsResult, PumpServerStore,
         PumpServerWrite, sessionVars, clientVars, pipes, pumpClientVars
<1>4. UNCHANGED vars => same
  BY DEF vars, sessionVars, clientVars, pipes, pumpClientVars
<1>5. same => SentOnce' /\ OnePlace'
  BY <1>1, ElsewhereKeeps
<1> HIDE DEF same
<1>6. SentOnce' /\ OnePlace'
  BY <1>1, <1>2, <1>3, <1>4, <1>5, InitializeOnce, ClientKeeps, ReadMoves, ObserveMoves,
     RestOfPumpClientKeeps, AnswerEnds
     DEF Next, PumpClient, PumpServer
<1>7. caps' \in BOOLEAN
  <2>1. CASE caps' = caps
    BY <1>1, <2>1 DEF HandshakeInv
  <2>2. CASE PumpServerObserve
    <3>1. sidx \in 1 .. Len(sline) /\ sline \in Seq(Frames)
      BY <2>2 DEF NoticeInv, HandshakeInv, PipeInv, FramesOK, ControlOK, PumpServerObserve
    <3>2. sline[sidx] \in Frames
      BY <3>1, ElementOfSeq
    <3>3. caps' = caps \/ caps' = sline[sidx].listChanged
      BY <2>2 DEF PumpServerObserve, ObserveServerFrame, ObserveServer
    <3> QED
      BY <1>1, <3>2, <3>3 DEF HandshakeInv, Frames
  <2>3. CASE PumpClientObserve
    BY <2>1, <2>3
       DEF PumpClientObserve, ObserveClient, ObserveInitialize, ObserveToolsList,
           ObserveToolsCall, ObserveOther, sessionVars
  <2>4. \/ caps' = caps \/ PumpServerObserve \/ PumpClientObserve
    BY DEF Next, vars, sessionVars, ClientInitialize, ClientRequest, ClientRefresh,
           ClientNextPage, ClientSend, ClientCancel, ClientAnswer, ClientReceive,
           ServerRead, ServerAnswer, ServerAsk, PumpClient, PumpClientRead,
           PumpClientForward, PumpClientCapability, PumpClientSwap, PumpClientNotify,
           PumpServer, PumpServerRead, PumpServerPrune, PruneToolsResult,
           PumpServerStore, PumpServerWrite
  <2> QED
    BY <2>1, <2>2, <2>3, <2>4
<1> QED
  BY <1>1, <1>6, <1>7 DEF HandshakeInv

-----------------------------------------------------------------------------
(* The server and the pump towards the client.                             *)

LEMMA QuietSubset == ServerSaid \subseteq Frames
BY DEF ServerSaid

LEMMA AnswerQuiet ==
  ASSUME NEW r \in Sendable, NEW f \in Answer(r)
  PROVE  f \in ServerSaid
<1>1. f \in Frames
  BY AnswerTyped
<1>2. f.type = "response"
  BY DEF Answer, Response, Frame
<1> QED
  BY <1>1, <1>2 DEF ServerSaid

LEMMA NextServerQuiet == NoticeInv /\ [Next]_vars => ServerQuiet'
<1> SUFFICES ASSUME NoticeInv, [Next]_vars PROVE ServerQuiet'
  OBVIOUS
<1>1. ServerQuiet /\ PipeInv /\ FramesOK
  BY DEF NoticeInv, HandshakeInv, PipeInv
<1>2. CASE UNCHANGED <<serverOut, sline>>
  BY <1>1, <1>2 DEF ServerQuiet
<1>3. CASE ServerAnswer
  <2>1. PICK n \in 1 .. MaxLine, served \in SUBSET working :
          \E line \in [1 .. n -> UNION {Answer(r) : r \in served}] :
            serverOut' = Append(serverOut, line)
    BY <1>3 DEF ServerAnswer
  <2>2. PICK line \in [1 .. n -> UNION {Answer(r) : r \in served}] :
          serverOut' = Append(serverOut, line)
    BY <2>1
  <2>3. n \in Nat
    BY ConstantsTyped
  <2>4. served \subseteq Sendable
    BY <1>1 DEF FramesOK
  <2>5. line \in [1 .. n -> ServerSaid]
    BY <2>4, AnswerQuiet
  <2>6. line \in Seq(ServerSaid)
    BY <2>3, <2>5
  <2>7. serverOut' \in Seq(Seq(ServerSaid))
    BY <1>1, <2>2, <2>6, AppendProperties DEF ServerQuiet
  <2> QED
    BY <1>1, <1>3, <2>7 DEF ServerQuiet, ServerAnswer, pumpServerVars
<1>4. CASE ServerAsk
  <2>1. PICK id \in unasked :
          serverOut' = Append(serverOut, <<Request("sampling", id, NoTool)>>)
    BY <1>4 DEF ServerAsk
  <2> DEFINE f == Request("sampling", id, NoTool)
  <2>2. id \in Nat
    BY <1>1 DEF FramesOK
  <2>3. f \in Frames
    BY <2>2, FrameTyped, EmptyListTyped DEF Request, FrameTypes, NoTool
  <2>4. f.type = "sampling"
    BY DEF Request, Frame
  <2>5. f \in ServerSaid
    BY <2>3, <2>4 DEF ServerSaid
  <2> HIDE DEF f
  <2>6. <<f>> \in Seq(ServerSaid)
    BY <2>5
  <2>7. serverOut' \in Seq(Seq(ServerSaid))
    BY <1>1, <2>1, <2>6, AppendProperties DEF ServerQuiet, f
  <2> QED
    BY <1>1, <1>4, <2>7 DEF ServerQuiet, ServerAsk, pumpServerVars
<1>5. CASE PumpServerRead
  <2>1. serverOut # <<>> /\ sline' = Head(serverOut) /\ serverOut' = Tail(serverOut)
    BY <1>5 DEF PumpServerRead
  <2> QED
    BY <1>1, <2>1, HeadTailProperties DEF ServerQuiet
<1>6. CASE PumpServerPrune
  <2>1. serverOut' = serverOut
    BY <1>6 DEF PumpServerPrune, pipes
  <2>2. CASE sline' = sline
    BY <1>1, <2>1, <2>2 DEF ServerQuiet
  <2>3. CASE \E base \in BaseScores(DOMAIN sline[sidx].list) :
               sline' = [sline EXCEPT ![sidx].list = PrunedList(Tiers(base))]
    <3>1. PICK base \in BaseScores(DOMAIN sline[sidx].list) :
            sline' = [sline EXCEPT ![sidx].list = PrunedList(Tiers(base))]
      BY <2>3
    <3> DEFINE f == sline[sidx]
               g == [f EXCEPT !.list = PrunedList(Tiers(base))]
    <3>2. sidx \in 1 .. Len(sline)
      BY <1>1, <1>6 DEF PipeInv, ControlOK, PumpServerPrune
    <3>3. f \in ServerSaid
      BY <1>1, <3>2, ElementOfSeq DEF ServerQuiet
    <3>4. g \in Frames
      BY <3>3, QuietSubset, PrunedFrame
    <3>5. g.type = f.type
      BY <3>3 DEF ServerSaid, Frames
    <3>6. g \in ServerSaid
      BY <3>3, <3>4, <3>5 DEF ServerSaid
    <3>7. sline' = [sline EXCEPT ![sidx] = g]
      BY <3>1
    <3> HIDE DEF f, g
    <3>8. sline' \in Seq(ServerSaid)
      BY <1>1, <3>2, <3>6, <3>7, ExceptSeq DEF ServerQuiet
    <3> QED
      BY <1>1, <2>1, <3>8 DEF ServerQuiet
  <2> QED
    BY <1>6, <2>2, <2>3 DEF PumpServerPrune
<1>7. CASE PumpServerWrite
  <2>1. sline' = <<>> /\ serverOut' = serverOut
    BY <1>7 DEF PumpServerWrite
  <2> QED
    BY <1>1, <2>1, EmptySeq DEF ServerQuiet
<1>8. \/ UNCHANGED <<serverOut, sline>> \/ ServerAnswer \/ ServerAsk
      \/ PumpServerRead \/ PumpServerPrune \/ PumpServerWrite
  BY DEF Next, vars, pipes, pumpServerVars, ClientInitialize, ClientRequest, ClientRefresh,
         ClientNextPage, ClientSend, ClientCancel, ClientAnswer, ClientReceive,
         ServerRead, PumpClient, PumpClientRead, PumpClientObserve, PumpClientForward,
         PumpClientCapability, PumpClientSwap, PumpClientNotify, PumpServer,
         PumpServerObserve, PumpServerStore
<1> QED
  BY <1>2, <1>3, <1>4, <1>5, <1>6, <1>7, <1>8

-----------------------------------------------------------------------------
(* The notification: checked, flagged, written, received.                  *)

LEMMA ReceivedNoticeLeaves ==
  ASSUME PipeInv, ClientReceive, NotificationsInFlight' # {}
  PROVE  NotificationsInFlight # {}
<1>1. clientIn # <<>> /\ clientIn' = Tail(clientIn) /\ clientIn \in Seq(Frames)
  BY DEF ClientReceive, PipeInv, FramesOK
<1>2. /\ Len(clientIn) \in Nat \ {0} /\ DOMAIN clientIn = 1 .. Len(clientIn)
      /\ Tail(clientIn) \in Seq(Frames) /\ Len(Tail(clientIn)) = Len(clientIn) - 1
      /\ \A i \in 1 .. Len(Tail(clientIn)) : Tail(clientIn)[i] = clientIn[i + 1]
  BY <1>1, HeadTailProperties, EmptySeq, LenProperties
<1>3. PICK i \in DOMAIN clientIn' : clientIn'[i].type = "list_changed"
  BY DEF NotificationsInFlight
<1>4. i \in 1 .. Len(clientIn) - 1
  BY <1>1, <1>2, <1>3, LenProperties
<1>5. i + 1 \in DOMAIN clientIn /\ clientIn[i + 1].type = "list_changed"
  BY <1>1, <1>2, <1>3, <1>4
<1> QED
  BY <1>5 DEF NotificationsInFlight

LEMMA WrittenLineIsQuiet ==
  ASSUME PipeInv, ServerQuiet, PumpServerWrite, NotificationsInFlight' # {}
  PROVE  NotificationsInFlight # {}
<1>1. clientIn' = clientIn \o sline /\ clientIn \in Seq(Frames) /\ sline \in Seq(ServerSaid)
  BY DEF PumpServerWrite, PipeInv, FramesOK, ServerQuiet
<1>2. sline \in Seq(Frames)
  BY <1>1, QuietSubset, SeqMonotonic
<1>3. /\ Len(clientIn) \in Nat /\ Len(sline) \in Nat
      /\ DOMAIN clientIn = 1 .. Len(clientIn)
      /\ clientIn' \in Seq(Frames) /\ Len(clientIn') = Len(clientIn) + Len(sline)
      /\ \A k \in 1 .. Len(clientIn) + Len(sline) :
           clientIn'[k] = IF k <= Len(clientIn) THEN clientIn[k] ELSE sline[k - Len(clientIn)]
  BY <1>1, <1>2, ConcatProperties, LenProperties
<1>4. PICK i \in DOMAIN clientIn' : clientIn'[i].type = "list_changed"
  BY DEF NotificationsInFlight
<1>5. i \in 1 .. Len(clientIn) + Len(sline)
  BY <1>3, <1>4, LenProperties
<1>6. CASE i <= Len(clientIn)
  <2>1. i \in DOMAIN clientIn /\ clientIn[i].type = "list_changed"
    BY <1>3, <1>4, <1>5, <1>6
  <2> QED
    BY <2>1 DEF NotificationsInFlight
<1>7. CASE ~(i <= Len(clientIn))
  <2>1. i - Len(clientIn) \in 1 .. Len(sline) /\ clientIn'[i] = sline[i - Len(clientIn)]
    BY <1>3, <1>5, <1>7
  <2>2. sline[i - Len(clientIn)] \in ServerSaid
    BY <1>1, <2>1, ElementOfSeq
  <2> QED
    BY <1>4, <2>1, <2>2 DEF ServerSaid
<1> QED
  BY <1>6, <1>7

LEMMA NextDeclaredFirst == NoticeInv /\ [Next]_vars => DeclaredFirst'
<1> SUFFICES ASSUME NoticeInv, [Next]_vars PROVE DeclaredFirst'
  OBVIOUS
<1>1. /\ PipeInv /\ OnePlace /\ ServerQuiet /\ DeclaredFirst /\ caps \in BOOLEAN
  BY DEF NoticeInv, HandshakeInv
<1> DEFINE noticed == notifyPending \/ cpc \in {"swap", "notify"} \/ NotificationsInFlight # {}
<1>2. noticed => caps
  BY <1>1 DEF DeclaredFirst
<1>3. ASSUME noticed' => noticed, caps => caps' PROVE DeclaredFirst'
  BY <1>2, <1>3 DEF DeclaredFirst
<1>4. CASE ClientReceive
  <2>1. UNCHANGED <<caps, cpc, notifyPending>>
    BY <1>4 DEF ClientReceive, sessionVars, pumpClientVars
  <2> QED
    BY <1>1, <1>3, <1>4, <2>1, ReceivedNoticeLeaves
<1>5. CASE PumpServerWrite
  <2>1. UNCHANGED <<caps, cpc, notifyPending>>
    BY <1>5 DEF PumpServerWrite, sessionVars, pumpClientVars
  <2> QED
    BY <1>1, <1>3, <1>5, <2>1, WrittenLineIsQuiet
<1>6. CASE PumpServerObserve
  <2>1. UNCHANGED <<cpc, notifyPending, clientIn>>
    BY <1>6 DEF PumpServerObserve, pipes, pumpClientVars
  <2>2. caps => caps' = caps
    <3>1. caps => pendingIni = {}
      BY <1>1 DEF OnePlace
    <3>2. pendingIni = {} => caps' = caps
      BY <1>6 DEF PumpServerObserve, ObserveServerFrame, ObserveServer, Answers
    <3> QED
      BY <3>1, <3>2
  <2>3. noticed' => noticed
    BY <2>1 DEF NotificationsInFlight
  <2> QED
    BY <1>3, <2>2, <2>3
<1>7. CASE PumpClientObserve \/ PumpClientRead \/ PumpClientForward
  <2>1. caps' = caps
    BY <1>7 DEF PumpClientObserve, ObserveClient, ObserveInitialize, ObserveToolsList,
                ObserveToolsCall, ObserveOther, PumpClientRead, PumpClientForward,
                sessionVars
  <2>2. UNCHANGED <<notifyPending, clientIn>> /\ cpc' \notin {"swap", "notify"}
    BY <1>7 DEF PumpClientObserve, PumpClientRead, PumpClientForward, pipes
  <2>3. noticed' => noticed
    BY <2>2 DEF NotificationsInFlight
  <2> QED
    BY <1>3, <2>1, <2>3
<1>8. CASE PumpClientCapability
  <2>1. UNCHANGED <<caps, notifyPending, clientIn>>
    BY <1>8 DEF PumpClientCapability, sessionVars, pipes
  <2>2. CASE caps
    BY <2>1, <2>2 DEF DeclaredFirst
  <2>3. CASE ~caps
    <3>1. cpc' = "read"
      BY <1>8, <2>3 DEF PumpClientCapability
    <3>2. noticed' => noticed
      BY <2>1, <3>1 DEF NotificationsInFlight
    <3> QED
      BY <1>3, <2>1, <3>2
  <2> QED
    BY <2>2, <2>3
<1>9. CASE PumpClientSwap \/ PumpClientNotify
  <2>1. caps' = caps /\ cpc \in {"swap", "notify"}
    BY <1>9 DEF PumpClientSwap, PumpClientNotify, sessionVars
  <2>2. caps
    BY <1>2, <2>1
  <2> QED
    BY <2>1, <2>2 DEF DeclaredFirst
<1>10. CASE PumpServerStore
  <2>1. UNCHANGED <<caps, cpc, clientIn>> /\ notifyPending' = FALSE
    BY <1>10 DEF PumpServerStore, sessionVars, pipes, pumpClientVars
  <2>2. noticed' => noticed
    BY <2>1 DEF NotificationsInFlight
  <2> QED
    BY <1>3, <2>1, <2>2
<1>11. CASE UNCHANGED <<caps, cpc, notifyPending, clientIn>>
  <2>1. noticed' => noticed
    BY <1>11 DEF NotificationsInFlight
  <2> QED
    BY <1>3, <1>11, <2>1
<1>12. \/ ClientReceive \/ PumpServerWrite \/ PumpServerObserve \/ PumpClient
       \/ PumpServerStore \/ UNCHANGED <<caps, cpc, notifyPending, clientIn>>
  BY DEF Next, vars, sessionVars, pipes, pumpClientVars, ClientInitialize, ClientRequest,
         ClientRefresh, ClientNextPage, ClientSend, ClientCancel, ClientAnswer,
         ServerRead, ServerAnswer, ServerAsk, PumpServer, PumpServerRead,
         PumpServerPrune, PruneToolsResult
<1> QED
  BY <1>4, <1>5, <1>6, <1>7, <1>8, <1>9, <1>10, <1>11, <1>12 DEF PumpClient

LEMMA InitNoticeInv == Init => NoticeInv
<1> SUFFICES ASSUME Init PROVE NoticeInv
  OBVIOUS
<1>1. PipeInv
  BY InitPipeInv
<1>2. ~InPipe /\ ~InPump /\ caps = FALSE /\ pendingIni = {}
  BY DEF Init, SessionInit, InPipe, InPump
<1>3. SentOnce /\ OnePlace
  BY <1>2 DEF Init, SentOnce, OnePlace
<1>4. ServerQuiet
  BY EmptySeq DEF Init, ServerQuiet
<1>5. DeclaredFirst
  BY DEF Init, DeclaredFirst, NotificationsInFlight
<1> QED
  BY <1>1, <1>2, <1>3, <1>4, <1>5 DEF NoticeInv, HandshakeInv

LEMMA NextNoticeInv == NoticeInv /\ [Next]_vars => NoticeInv'
BY NextHandshakeInv, NextServerQuiet, NextDeclaredFirst DEF NoticeInv

(* The proxy does not invent capabilities: it sends, or is about to send,  *)
(* tools/list_changed only to a client whose server declared listChanged   *)
(* (proxy.go, maybeNotify).  The check and the write are apart; what makes *)
(* it safe is that no second initialize can take the capability back.      *)
THEOREM OnlyDeclaredNotifications == Spec => []NotificationsDeclared
<1>1. NoticeInv => NotificationsDeclared
  BY DEF NoticeInv, DeclaredFirst, NotificationsDeclared
<1> QED
  BY <1>1, InitNoticeInv, NextNoticeInv, PTL DEF Spec

-----------------------------------------------------------------------------
(* The frames of a sequence, and of a sequence of lines.                   *)

FramesIn(lines) == UNION {ToSet(lines[i]) : i \in DOMAIN lines}

LEMMA ToSetTyped ==
  ASSUME NEW S, NEW s \in Seq(S)
  PROVE  ToSet(s) \subseteq S /\ ToSet(s) = {s[i] : i \in 1 .. Len(s)}
BY LenProperties DEF ToSet

LEMMA ToSetEmpty == ToSet(<<>>) = {} /\ FramesIn(<<>>) = {}
BY DEF ToSet, FramesIn

LEMMA ToSetConcat ==
  ASSUME NEW S, NEW s \in Seq(S), NEW t \in Seq(S)
  PROVE  ToSet(s \o t) = ToSet(s) \cup ToSet(t)
<1>1. /\ Len(s) \in Nat /\ Len(t) \in Nat
      /\ s \o t \in Seq(S) /\ Len(s \o t) = Len(s) + Len(t)
      /\ \A i \in 1 .. Len(s) + Len(t) :
           (s \o t)[i] = IF i <= Len(s) THEN s[i] ELSE t[i - Len(s)]
  BY ConcatProperties, LenProperties
<1>2. /\ ToSet(s) = {s[i] : i \in 1 .. Len(s)}
      /\ ToSet(t) = {t[i] : i \in 1 .. Len(t)}
      /\ ToSet(s \o t) = {(s \o t)[i] : i \in 1 .. Len(s) + Len(t)}
  BY <1>1, ToSetTyped
<1>3. ASSUME NEW i \in 1 .. Len(s) PROVE s[i] \in ToSet(s \o t)
  <2>1. i \in 1 .. Len(s) + Len(t) /\ i <= Len(s)
    BY <1>1
  <2> QED
    BY <1>1, <1>2, <2>1
<1>4. ASSUME NEW i \in 1 .. Len(t) PROVE t[i] \in ToSet(s \o t)
  <2>1. /\ i + Len(s) \in 1 .. Len(s) + Len(t) /\ ~(i + Len(s) <= Len(s))
        /\ (i + Len(s)) - Len(s) = i
    BY <1>1
  <2>2. (s \o t)[i + Len(s)] = t[i]
    BY <1>1, <2>1
  <2> QED
    BY <1>2, <2>1, <2>2
<1>5. ASSUME NEW i \in 1 .. Len(s) + Len(t)
      PROVE  (s \o t)[i] \in ToSet(s) \cup ToSet(t)
  <2>1. CASE i <= Len(s)
    <3>1. i \in 1 .. Len(s) /\ (s \o t)[i] = s[i]
      BY <1>1, <2>1
    <3> QED
      BY <1>2, <3>1
  <2>2. CASE ~(i <= Len(s))
    <3>1. i - Len(s) \in 1 .. Len(t) /\ (s \o t)[i] = t[i - Len(s)]
      BY <1>1, <2>2
    <3> QED
      BY <1>2, <3>1
  <2> QED
    BY <2>1, <2>2
<1> QED
  BY <1>2, <1>3, <1>4, <1>5

LEMMA ToSetAppend ==
  ASSUME NEW S, NEW s \in Seq(S), NEW e \in S
  PROVE  ToSet(Append(s, e)) = ToSet(s) \cup {e}
<1>1. <<e>> \in Seq(S) /\ Append(s, e) = s \o <<e>>
  BY AppendIsConcat
<1>2. ToSet(<<e>>) = {e}
  BY DEF ToSet
<1>3. ToSet(s \o <<e>>) = ToSet(s) \cup ToSet(<<e>>)
  BY <1>1, ToSetConcat
<1> QED
  BY <1>1, <1>2, <1>3

LEMMA ToSetPop ==
  ASSUME NEW S, NEW s \in Seq(S), s # <<>>
  PROVE  /\ Head(s) \in S /\ Tail(s) \in Seq(S)
         /\ ToSet(s) = {Head(s)} \cup ToSet(Tail(s))
<1>1. /\ Head(s) \in S /\ Tail(s) \in Seq(S) /\ Len(s) \in Nat \ {0}
      /\ Len(Tail(s)) = Len(s) - 1 /\ Head(s) = s[1]
      /\ \A i \in 1 .. Len(Tail(s)) : Tail(s)[i] = s[i + 1]
  <2>1. Tail(s) \in Seq(S) /\ Len(Tail(s)) = Len(s) - 1
    BY HeadTailProperties
  <2> QED
    BY <2>1, HeadTailProperties, EmptySeq
<1>2. /\ ToSet(s) = {s[i] : i \in 1 .. Len(s)}
      /\ ToSet(Tail(s)) = {Tail(s)[i] : i \in 1 .. Len(s) - 1}
  BY <1>1, ToSetTyped
<1>3. Head(s) \in ToSet(s)
  BY <1>1, <1>2
<1>4. ASSUME NEW i \in 1 .. Len(s) - 1 PROVE Tail(s)[i] \in ToSet(s)
  <2>1. i + 1 \in 1 .. Len(s) /\ i \in 1 .. Len(Tail(s))
    BY <1>1
  <2> QED
    BY <1>1, <1>2, <2>1
<1>5. ASSUME NEW i \in 1 .. Len(s) PROVE s[i] \in {Head(s)} \cup ToSet(Tail(s))
  <2>1. CASE i = 1
    BY <1>1, <2>1
  <2>2. CASE i # 1
    <3>1. i - 1 \in 1 .. Len(s) - 1 /\ i - 1 \in 1 .. Len(Tail(s)) /\ (i - 1) + 1 = i
      BY <1>1, <2>2
    <3>2. Tail(s)[i - 1] = s[i]
      BY <1>1, <3>1
    <3> QED
      BY <1>2, <3>1, <3>2
  <2> QED
    BY <2>1, <2>2
<1> QED
  BY <1>1, <1>2, <1>3, <1>4, <1>5

LEMMA FramesInUnion ==
  ASSUME NEW lines
  PROVE  FramesIn(lines) = UNION {ToSet(l) : l \in ToSet(lines)}
BY DEF FramesIn, ToSet

LEMMA FramesInAppend ==
  ASSUME NEW S, NEW lines \in Seq(S), NEW line \in S
  PROVE  FramesIn(Append(lines, line)) = FramesIn(lines) \cup ToSet(line)
<1>1. ToSet(Append(lines, line)) = ToSet(lines) \cup {line}
  BY ToSetAppend
<1>2. UNION {ToSet(l) : l \in ToSet(lines) \cup {line}}
        = (UNION {ToSet(l) : l \in ToSet(lines)}) \cup ToSet(line)
  OBVIOUS
<1> QED
  BY <1>1, <1>2, FramesInUnion

LEMMA FramesInPop ==
  ASSUME NEW S, NEW lines \in Seq(S), lines # <<>>
  PROVE  FramesIn(lines) = ToSet(Head(lines)) \cup FramesIn(Tail(lines))
<1>1. ToSet(lines) = {Head(lines)} \cup ToSet(Tail(lines))
  BY ToSetPop
<1>2. UNION {ToSet(l) : l \in {Head(lines)} \cup ToSet(Tail(lines))}
        = ToSet(Head(lines)) \cup (UNION {ToSet(l) : l \in ToSet(Tail(lines))})
  OBVIOUS
<1> QED
  BY <1>1, <1>2, FramesInUnion

-----------------------------------------------------------------------------
(* Ids: those of the frames of some types; in a line, no two of them equal.*)

IdsAmong(types, frames) == {f.id : f \in {g \in frames : g.type \in types}}

Distinct(types, s) ==
  \A j, k \in DOMAIN s :
    s[j].type \in types /\ s[k].type \in types /\ s[j].id = s[k].id => j = k

DistinctLines(types, lines) ==
  /\ \A i \in DOMAIN lines : Distinct(types, lines[i])
  /\ \A i, j \in DOMAIN lines :
       i # j => IdsAmong(types, ToSet(lines[i])) \cap IdsAmong(types, ToSet(lines[j])) = {}

LEMMA IdsAmongUnion ==
  ASSUME NEW types, NEW F, NEW G
  PROVE  IdsAmong(types, F \cup G) = IdsAmong(types, F) \cup IdsAmong(types, G)
BY DEF IdsAmong

LEMMA DistinctEmpty ==
  ASSUME NEW types
  PROVE  Distinct(types, <<>>) /\ DistinctLines(types, <<>>)
BY DEF Distinct, DistinctLines

LEMMA DistinctConcat ==
  ASSUME NEW types, NEW S, NEW s \in Seq(S), NEW t \in Seq(S),
         Distinct(types, s), Distinct(types, t),
         IdsAmong(types, ToSet(s)) \cap IdsAmong(types, ToSet(t)) = {}
  PROVE  Distinct(types, s \o t)
<1>1. /\ Len(s) \in Nat /\ Len(t) \in Nat
      /\ DOMAIN s = 1 .. Len(s) /\ DOMAIN t = 1 .. Len(t)
      /\ DOMAIN (s \o t) = 1 .. Len(s) + Len(t)
      /\ \A i \in 1 .. Len(s) + Len(t) :
           (s \o t)[i] = IF i <= Len(s) THEN s[i] ELSE t[i - Len(s)]
  <2>1. s \o t \in Seq(S) /\ Len(s \o t) = Len(s) + Len(t)
    BY ConcatProperties
  <2> QED
    BY <2>1, ConcatProperties, LenProperties
<1>2. \A i \in 1 .. Len(s) : s[i].type \in types => s[i].id \in IdsAmong(types, ToSet(s))
  BY <1>1 DEF IdsAmong, ToSet
<1>3. \A i \in 1 .. Len(t) : t[i].type \in types => t[i].id \in IdsAmong(types, ToSet(t))
  BY <1>1 DEF IdsAmong, ToSet
<1> SUFFICES ASSUME NEW j \in 1 .. Len(s) + Len(t), NEW k \in 1 .. Len(s) + Len(t),
                    (s \o t)[j].type \in types, (s \o t)[k].type \in types,
                    (s \o t)[j].id = (s \o t)[k].id
             PROVE  j = k
  BY <1>1 DEF Distinct
<1>4. ASSUME NEW i \in 1 .. Len(s) + Len(t)
      PROVE  \/ i \in 1 .. Len(s) /\ (s \o t)[i] = s[i]
             \/ i - Len(s) \in 1 .. Len(t) /\ (s \o t)[i] = t[i - Len(s)]
  <2>1. CASE i <= Len(s)
    BY <1>1, <2>1
  <2>2. CASE ~(i <= Len(s))
    BY <1>1, <2>2
  <2> QED
    BY <2>1, <2>2
<1>5. CASE j \in 1 .. Len(s) /\ (s \o t)[j] = s[j]
  <2>1. CASE k \in 1 .. Len(s) /\ (s \o t)[k] = s[k]
    BY <1>1, <1>5, <2>1 DEF Distinct
  <2>2. CASE k - Len(s) \in 1 .. Len(t) /\ (s \o t)[k] = t[k - Len(s)]
    <3>1. s[j].id \in IdsAmong(types, ToSet(s)) /\ t[k - Len(s)].id \in IdsAmong(types, ToSet(t))
      BY <1>2, <1>3, <1>5, <2>2
    <3> QED
      BY <1>5, <2>2, <3>1
  <2> QED
    BY <1>4, <2>1, <2>2
<1>6. CASE j - Len(s) \in 1 .. Len(t) /\ (s \o t)[j] = t[j - Len(s)]
  <2>1. CASE k \in 1 .. Len(s) /\ (s \o t)[k] = s[k]
    <3>1. s[k].id \in IdsAmong(types, ToSet(s)) /\ t[j - Len(s)].id \in IdsAmong(types, ToSet(t))
      BY <1>2, <1>3, <1>6, <2>1
    <3> QED
      BY <1>6, <2>1, <3>1
  <2>2. CASE k - Len(s) \in 1 .. Len(t) /\ (s \o t)[k] = t[k - Len(s)]
    <3>1. j - Len(s) = k - Len(s)
      BY <1>1, <1>6, <2>2 DEF Distinct
    <3> QED
      BY <1>1, <3>1
  <2> QED
    BY <1>4, <2>1, <2>2
<1> QED
  BY <1>4, <1>5, <1>6

(* What is taken off the front has an id the rest does not have.           *)
LEMMA DistinctPop ==
  ASSUME NEW types, NEW S, NEW s \in Seq(S), s # <<>>, Distinct(types, s)
  PROVE  /\ Distinct(types, Tail(s))
         /\ IdsAmong(types, {Head(s)}) \cap IdsAmong(types, ToSet(Tail(s))) = {}
<1>1. /\ Head(s) \in S /\ Tail(s) \in Seq(S) /\ Len(s) \in Nat \ {0}
      /\ Len(Tail(s)) = Len(s) - 1 /\ Head(s) = s[1]
      /\ DOMAIN s = 1 .. Len(s) /\ DOMAIN Tail(s) = 1 .. Len(s) - 1
      /\ \A i \in 1 .. Len(s) - 1 : Tail(s)[i] = s[i + 1]
  <2>1. Tail(s) \in Seq(S) /\ Len(Tail(s)) = Len(s) - 1
    BY HeadTailProperties
  <2> QED
    BY <2>1, HeadTailProperties, EmptySeq, LenProperties
<1>2. \A i \in 1 .. Len(s) - 1 : i + 1 \in 1 .. Len(s) /\ i + 1 # 1
  BY <1>1
<1>3. ASSUME NEW j \in 1 .. Len(s) - 1, NEW k \in 1 .. Len(s) - 1,
             Tail(s)[j].type \in types, Tail(s)[k].type \in types,
             Tail(s)[j].id = Tail(s)[k].id
      PROVE  j = k
  <2>1. j + 1 = k + 1
    BY <1>1, <1>2, <1>3 DEF Distinct
  <2> QED
    BY <1>1, <2>1
<1>4. ASSUME NEW i \in 1 .. Len(s) - 1, Tail(s)[i].type \in types,
             Head(s).type \in types, Head(s).id = Tail(s)[i].id
      PROVE  FALSE
  <2>1. 1 \in DOMAIN s
    BY <1>1
  <2> QED
    BY <1>1, <1>2, <1>4, <2>1 DEF Distinct
<1>5. Distinct(types, Tail(s))
  BY <1>1, <1>3 DEF Distinct
<1>6. ToSet(Tail(s)) = {Tail(s)[i] : i \in 1 .. Len(s) - 1}
  BY <1>1 DEF ToSet
<1>7. IdsAmong(types, {Head(s)}) \cap IdsAmong(types, ToSet(Tail(s))) = {}
  BY <1>4, <1>6 DEF IdsAmong
<1> QED
  BY <1>5, <1>7

LEMMA DistinctLinesPop ==
  ASSUME NEW types, NEW S, NEW lines \in Seq(S), lines # <<>>, DistinctLines(types, lines)
  PROVE  /\ Distinct(types, Head(lines)) /\ DistinctLines(types, Tail(lines))
         /\ IdsAmong(types, ToSet(Head(lines))) \cap IdsAmong(types, FramesIn(Tail(lines))) = {}
<1>1. /\ Head(lines) \in S /\ Tail(lines) \in Seq(S) /\ Len(lines) \in Nat \ {0}
      /\ Len(Tail(lines)) = Len(lines) - 1 /\ Head(lines) = lines[1]
      /\ DOMAIN lines = 1 .. Len(lines) /\ DOMAIN Tail(lines) = 1 .. Len(lines) - 1
      /\ \A i \in 1 .. Len(lines) - 1 : Tail(lines)[i] = lines[i + 1]
  <2>1. Tail(lines) \in Seq(S) /\ Len(Tail(lines)) = Len(lines) - 1
    BY HeadTailProperties
  <2> QED
    BY <2>1, HeadTailProperties, EmptySeq, LenProperties
<1>2. 1 \in DOMAIN lines /\ \A i \in 1 .. Len(lines) - 1 : i + 1 \in DOMAIN lines /\ i + 1 # 1
  BY <1>1
<1>3. Distinct(types, Head(lines)) /\ \A i \in DOMAIN Tail(lines) : Distinct(types, Tail(lines)[i])
  BY <1>1, <1>2 DEF DistinctLines
<1>4. ASSUME NEW i \in 1 .. Len(lines) - 1, NEW j \in 1 .. Len(lines) - 1, i # j
      PROVE  IdsAmong(types, ToSet(Tail(lines)[i])) \cap IdsAmong(types, ToSet(Tail(lines)[j])) = {}
  <2>1. i + 1 # j + 1
    BY <1>1, <1>4
  <2> QED
    BY <1>1, <1>2, <2>1 DEF DistinctLines
<1>5. ASSUME NEW i \in 1 .. Len(lines) - 1
      PROVE  IdsAmong(types, ToSet(Head(lines))) \cap IdsAmong(types, ToSet(Tail(lines)[i])) = {}
  BY <1>1, <1>2 DEF DistinctLines
<1>6. IdsAmong(types, FramesIn(Tail(lines)))
        = UNION {IdsAmong(types, ToSet(Tail(lines)[i])) : i \in 1 .. Len(lines) - 1}
  BY <1>1 DEF FramesIn, IdsAmong
<1>7. IdsAmong(types, ToSet(Head(lines))) \cap IdsAmong(types, FramesIn(Tail(lines))) = {}
  BY <1>5, <1>6
<1> QED
  BY <1>1, <1>3, <1>4, <1>7 DEF DistinctLines

LEMMA DistinctLinesAppend ==
  ASSUME NEW types, NEW S, NEW lines \in Seq(S), NEW line \in S,
         DistinctLines(types, lines), Distinct(types, line),
         IdsAmong(types, FramesIn(lines)) \cap IdsAmong(types, ToSet(line)) = {}
  PROVE  DistinctLines(types, Append(lines, line))
<1> DEFINE longer == Append(lines, line)
<1>1. /\ Len(lines) \in Nat
      /\ DOMAIN lines = 1 .. Len(lines) /\ DOMAIN longer = 1 .. Len(lines) + 1
      /\ \A i \in 1 .. Len(lines) : longer[i] = lines[i]
      /\ longer[Len(lines) + 1] = line
  <2>1. longer \in Seq(S) /\ Len(longer) = Len(lines) + 1
    BY AppendProperties
  <2> QED
    BY <2>1, AppendProperties, LenProperties
<1> HIDE DEF longer
<1>2. \A i \in DOMAIN longer : i \in DOMAIN lines \/ i = Len(lines) + 1
  BY <1>1
<1>3. \A i \in DOMAIN lines :
        IdsAmong(types, ToSet(lines[i])) \subseteq IdsAmong(types, FramesIn(lines))
  BY DEF IdsAmong, FramesIn
<1>4. \A i \in DOMAIN longer : Distinct(types, longer[i])
  BY <1>1, <1>2 DEF DistinctLines
<1>5. ASSUME NEW i \in DOMAIN longer, NEW j \in DOMAIN longer, i # j
      PROVE  IdsAmong(types, ToSet(longer[i])) \cap IdsAmong(types, ToSet(longer[j])) = {}
  <2>1. CASE i \in DOMAIN lines /\ j \in DOMAIN lines
    BY <1>1, <1>5, <2>1 DEF DistinctLines
  <2>2. CASE i \in DOMAIN lines /\ j = Len(lines) + 1
    BY <1>1, <1>3, <2>2
  <2>3. CASE i = Len(lines) + 1 /\ j \in DOMAIN lines
    BY <1>1, <1>3, <2>3
  <2> QED
    BY <1>2, <1>5, <2>1, <2>2, <2>3
<1> QED
  BY <1>4, <1>5 DEF DistinctLines, longer

-----------------------------------------------------------------------------
(* Where the client's ids are.                                             *)

Asks == {"initialize", "tools/list", "tools/call"}
Says == {"response"}

Held ==
  [sent |-> IdsAmong(Asks, FramesIn(clientOut)),
   pump |-> IdsAmong(Asks, ToSet(cline)),
   inbox |-> IdsAmong(Asks, ToSet(serverIn)),
   work |-> IdsAmong(Asks, working),
   answered |-> IdsAmong(Says, FramesIn(serverOut)),
   line |-> IdsAmong(Says, ToSet(sline)),
   back |-> IdsAmong(Says, ToSet(clientIn))]

Places == {"sent", "pump", "inbox", "work", "answered", "line", "back"}

(* An id that was given out is at one place at most ...                    *)
Apart ==
  /\ nextId \in Nat \ {0}
  /\ \A p \in Places : Held[p] \subseteq 1 .. nextId - 1
  /\ \A p, q \in Places : p # q => Held[p] \cap Held[q] = {}

(* ... and there it is the id of one frame.                                *)
Alone ==
  /\ DistinctLines(Asks, clientOut) /\ Distinct(Asks, cline) /\ Distinct(Asks, serverIn)
  /\ DistinctLines(Says, serverOut) /\ Distinct(Says, sline) /\ Distinct(Says, clientIn)
  /\ \A r \in working : r.type \in Asks
  /\ \A r, s \in working : r.id = s.id => r = s

HeldOnce == Apart /\ Alone

LEMMA IdIntervals ==
  ASSUME NEW a \in Nat, NEW b \in Nat, a <= b, a > 0
  PROVE  /\ 1 .. a - 1 \subseteq 1 .. b - 1 /\ a .. b - 1 \subseteq 1 .. b - 1
         /\ (1 .. a - 1) \cap (a .. b - 1) = {}
OBVIOUS

LEMMA MoveKeepsApart ==
  ASSUME Apart, nextId' \in Nat, nextId <= nextId',
         NEW p \in Places, NEW q \in Places, NEW M \in SUBSET Held[p],
         p # q => Held'[p] \subseteq Held[p] \ M, Held'[q] \subseteq Held[q] \cup M,
         \A r \in Places \ {p, q} : Held'[r] \subseteq Held[r]
  PROVE  Apart'
<1>0. nextId \in Nat /\ nextId > 0 /\ nextId' \in Nat \ {0}
  BY DEF Apart
<1>1. ASSUME NEW r \in Places PROVE Held'[r] \subseteq 1 .. nextId' - 1
  <2>1. Held'[r] \subseteq Held[r] \cup M /\ M \subseteq 1 .. nextId - 1
    BY DEF Apart
  <2>2. Held[r] \cup M \subseteq 1 .. nextId - 1
    BY <2>1 DEF Apart
  <2>3. 1 .. nextId - 1 \subseteq 1 .. nextId' - 1
    BY <1>0, IdIntervals
  <2> QED
    BY <2>1, <2>2, <2>3
<1>2. ASSUME NEW r \in Places, NEW s \in Places, r # s
      PROVE  Held'[r] \cap Held'[s] = {}
  <2> DEFINE H == Held
             G == Held'
  <2>1. /\ \A x, y \in Places : x # y => H[x] \cap H[y] = {}
        /\ M \subseteq H[p] /\ (p # q => G[p] \subseteq H[p] \ M) /\ G[q] \subseteq H[q] \cup M
        /\ \A x \in Places \ {p, q} : G[x] \subseteq H[x]
    BY DEF Apart
  <2> HIDE DEF H, G
  <2>2. \A x \in Places : x # q => G[x] \subseteq H[x]
    BY <2>1
  <2>3. \A x \in Places : x # q => G[x] \cap (H[q] \cup M) = {}
    BY <2>1, <2>2
  <2>4. r # q \/ s # q
    BY <1>2
  <2>5. G[r] \cap G[s] = {}
    BY <1>2, <2>1, <2>2, <2>3
  <2> QED
    BY <2>5 DEF G
<1> QED
  BY <1>0, <1>1, <1>2 DEF Apart

(* A line of new requests.                                                 *)
LEMMA SendKeepsApart ==
  ASSUME Apart, nextId' \in Nat, nextId <= nextId',
         NEW N \in SUBSET (nextId .. nextId' - 1),
         Held'["sent"] \subseteq Held["sent"] \cup N,
         \A r \in Places \ {"sent"} : Held'[r] \subseteq Held[r]
  PROVE  Apart'
<1>0. nextId \in Nat /\ nextId > 0 /\ nextId' \in Nat \ {0}
  BY DEF Apart
<1>1. "sent" \in Places
  BY DEF Places
<1>2. ASSUME NEW r \in Places PROVE Held'[r] \subseteq 1 .. nextId' - 1
  <2>1. Held'[r] \subseteq Held[r] \cup N
    BY <1>1
  <2>2. Held[r] \subseteq 1 .. nextId - 1
    BY DEF Apart
  <2>3. /\ 1 .. nextId - 1 \subseteq 1 .. nextId' - 1
        /\ nextId .. nextId' - 1 \subseteq 1 .. nextId' - 1
    BY <1>0, IdIntervals
  <2> QED
    BY <2>1, <2>2, <2>3
<1>3. \A r \in Places : Held[r] \cap N = {}
  <2>1. (1 .. nextId - 1) \cap (nextId .. nextId' - 1) = {}
    BY <1>0, IdIntervals
  <2>2. \A r \in Places : Held[r] \subseteq 1 .. nextId - 1
    BY DEF Apart
  <2> QED
    BY <2>1, <2>2
<1>4. ASSUME NEW r \in Places, NEW s \in Places, r # s
      PROVE  Held'[r] \cap Held'[s] = {}
  <2> DEFINE H == Held
             G == Held'
  <2>1. /\ \A x, y \in Places : x # y => H[x] \cap H[y] = {}
        /\ G["sent"] \subseteq H["sent"] \cup N
        /\ \A x \in Places \ {"sent"} : G[x] \subseteq H[x]
    BY DEF Apart
  <2>2. \A x \in Places : H[x] \cap N = {}
    BY <1>3
  <2> HIDE DEF H, G
  <2>3. \A x \in Places : x # "sent" => G[x] \cap (H["sent"] \cup N) = {}
    BY <1>1, <2>1, <2>2
  <2>4. G[r] \cap G[s] = {}
    BY <1>4, <2>1, <2>3
  <2> QED
    BY <2>4 DEF G
<1> QED
  BY <1>0, <1>2, <1>4 DEF Apart

-----------------------------------------------------------------------------
(* The client sends.                                                       *)

LEMMA InitHeldOnce == Init => HeldOnce
<1> SUFFICES ASSUME Init PROVE HeldOnce
  OBVIOUS
<1>1. \A types : IdsAmong(types, {}) = {}
  BY DEF IdsAmong
<1>2. Held = [sent |-> {}, pump |-> {}, inbox |-> {}, work |-> {}, answered |-> {},
              line |-> {}, back |-> {}]
  BY <1>1, ToSetEmpty DEF Init, Held
<1>3. Apart
  BY <1>2 DEF Init, Apart, Places
<1>4. Alone
  BY DistinctEmpty DEF Init, Alone
<1> QED
  BY <1>3, <1>4 DEF HeldOnce

LEMMA LineSent ==
  ASSUME PipeInv, PipeInv', HeldOnce, NEW line, clientOut' = Append(clientOut, line),
         Distinct(Asks, line), nextId' \in Nat, nextId <= nextId',
         IdsAmong(Asks, ToSet(line)) \subseteq nextId .. nextId' - 1,
         UNCHANGED <<cline, serverIn, working, serverOut, sline, clientIn>>
  PROVE  HeldOnce'
<1> DEFINE S == Seq(Sendable) \ {<<>>}
           N == IdsAmong(Asks, ToSet(line))
<1>1. clientOut \in Seq(S) /\ Append(clientOut, line) \in Seq(S)
  BY DEF PipeInv, FramesOK
<1> HIDE DEF S
<1>2. line \in S
  BY <1>1, AppendedTyped
<1>3. FramesIn(clientOut') = FramesIn(clientOut) \cup ToSet(line)
  BY <1>1, <1>2, FramesInAppend
<1> HIDE DEF N
<1>4. /\ Held'["sent"] = Held["sent"] \cup N
      /\ \A r \in Places \ {"sent"} : Held'[r] = Held[r]
  BY <1>3, IdsAmongUnion DEF Held, Places, N
<1>5. Apart'
  BY <1>4, SendKeepsApart DEF N, HeldOnce
<1>6. IdsAmong(Asks, FramesIn(clientOut)) \cap N = {}
  <2>1. Held["sent"] \subseteq 1 .. nextId - 1 /\ nextId \in Nat /\ nextId > 0
    BY DEF HeldOnce, Apart, Places
  <2>2. (1 .. nextId - 1) \cap (nextId .. nextId' - 1) = {}
    BY <2>1, IdIntervals
  <2> QED
    BY <2>1, <2>2 DEF Held, N
<1>7. DistinctLines(Asks, clientOut')
  BY <1>1, <1>2, <1>6, DistinctLinesAppend DEF HeldOnce, Alone, N
<1>8. Alone'
  BY <1>7 DEF HeldOnce, Alone
<1> QED
  BY <1>5, <1>8 DEF HeldOnce

LEMMA NumberedLine ==
  ASSUME NEW n \in Nat, NEW first \in Nat, NEW line,
         DOMAIN line = 1 .. n, \A i \in 1 .. n : line[i].id = first + i - 1
  PROVE  Distinct(Asks, line) /\ IdsAmong(Asks, ToSet(line)) \subseteq first .. first + n - 1
<1>1. Distinct(Asks, line)
  BY DEF Distinct
<1>2. \A i \in 1 .. n : first + i - 1 \in first .. first + n - 1
  OBVIOUS
<1>3. IdsAmong(Asks, ToSet(line)) \subseteq first .. first + n - 1
  BY <1>2 DEF IdsAmong, ToSet
<1> QED
  BY <1>1, <1>3

(* What the client's steps have in common: one line more in the pipe, the  *)
(* requests in it numbered from nextId on; what it asks, it waits for.     *)
ClientStep ==
  \/ ClientInitialize \/ ClientRequest \/ ClientRefresh \/ ClientNextPage
  \/ ClientCancel \/ ClientAnswer

Numbered(line) ==
  /\ Distinct(Asks, line)
  /\ IdsAmong(Asks, ToSet(line)) \subseteq nextId .. nextId' - 1
  /\ {f \in ToSet(line) : f.type \in Asks} \subseteq asked'
  /\ asked' \subseteq asked \cup {f \in ToSet(line) : f.type \in Asks}
  /\ Cancels = FALSE => asked \subseteq asked'
  /\ stale' # stale => \E f \in ToSet(line) : f.type = "tools/list"

ClientMoves(line) ==
  /\ clientOut' = Append(clientOut, line)
  /\ nextId' \in Nat /\ nextId <= nextId'
  /\ Numbered(line)
  /\ UNCHANGED <<sessionVars, serverVars, serverIn, serverOut, clientIn,
                 pumpClientVars, pumpServerVars, notifyPending, view>>

LEMMA SendIsMove ==
  ASSUME PipeInv, NEW n \in Nat, NEW line, DOMAIN line = 1 .. n, Len(line) = n,
         \A i \in 1 .. n : line[i].id = nextId + i - 1 /\ line[i].type \in Asks,
         stale' # stale => \E f \in ToSet(line) : f.type = "tools/list",
         ClientSend(line)
  PROVE  ClientMoves(line)
<1>1. nextId \in Nat /\ nextId' = nextId + n
  BY DEF ClientSend, PipeInv, FramesOK
<1>2. nextId' \in Nat /\ nextId <= nextId' /\ nextId' - 1 = nextId + n - 1
  BY <1>1
<1>3. Distinct(Asks, line) /\ IdsAmong(Asks, ToSet(line)) \subseteq nextId .. nextId' - 1
  BY <1>1, <1>2, NumberedLine
<1>4. {f \in ToSet(line) : f.type \in Asks} = ToSet(line)
  BY DEF ToSet
<1>5. Numbered(line)
  BY <1>3, <1>4 DEF Numbered, ClientSend
<1> QED
  BY <1>2, <1>5 DEF ClientMoves, ClientSend

LEMMA PlainIsMove ==
  ASSUME PipeInv, NEW f, f.type \notin Asks, clientOut' = Append(clientOut, <<f>>),
         asked' \subseteq asked, Cancels = FALSE => asked' = asked,
         UNCHANGED <<nextId, stale, sessionVars, serverVars, serverIn, serverOut, clientIn,
                     pumpClientVars, pumpServerVars, notifyPending, view>>
  PROVE  ClientMoves(<<f>>)
<1>1. ToSet(<<f>>) = {f} /\ Distinct(Asks, <<f>>) /\ IdsAmong(Asks, ToSet(<<f>>)) = {}
  BY DEF Distinct, IdsAmong, ToSet
<1>2. nextId' \in Nat /\ nextId <= nextId'
  BY DEF PipeInv, FramesOK
<1>3. {g \in ToSet(<<f>>) : g.type \in Asks} = {}
  BY <1>1
<1>4. Numbered(<<f>>)
  BY <1>1, <1>3 DEF Numbered
<1> QED
  BY <1>2, <1>4 DEF ClientMoves

LEMMA ClientStepMoves == ASSUME PipeInv, ClientStep PROVE \E line : ClientMoves(line)
<1>1. ASSUME NEW type \in Asks, NEW arg, ClientSend(<<Request(type, nextId, arg)>>),
             stale' # stale => type = "tools/list"
      PROVE  ClientMoves(<<Request(type, nextId, arg)>>)
  <2> DEFINE line == <<Request(type, nextId, arg)>>
  <2>1. /\ DOMAIN line = 1 .. 1 /\ Len(line) = 1 /\ line[1].id = nextId
        /\ line[1].type = type
    BY DEF Request, Frame
  <2>2. nextId \in Nat /\ nextId + 1 - 1 = nextId
    BY DEF PipeInv, FramesOK
  <2>3. ClientSend(line)
    BY <1>1
  <2> HIDE DEF line
  <2>0. ToSet(line) = {line[1]}
    BY <2>1 DEF ToSet
  <2>4. \A i \in 1 .. 1 : line[i].id = nextId + i - 1 /\ line[i].type \in Asks
    BY <2>1, <2>2
  <2>5. stale' # stale => \E f \in ToSet(line) : f.type = "tools/list"
    BY <1>1, <2>0, <2>1
  <2>6. ClientMoves(line)
    BY <2>1, <2>3, <2>4, <2>5, SendIsMove
  <2> QED
    BY <2>6 DEF line
<1>2. CASE ClientInitialize
  <2>1. /\ nextId = 1 /\ ClientSend(<<Request("initialize", 1, NoTool)>>) /\ stale' = stale
        /\ "initialize" \in Asks
    BY <1>2 DEF ClientInitialize, Asks
  <2> QED
    BY <1>1, <2>1
<1>3. CASE ClientRequest
  <2>1. PICK n \in 1 .. MaxLine :
          \E line \in [1 .. n -> UNION {OwnRequest(nextId + i - 1) : i \in 1 .. n}] :
            /\ \A i \in 1 .. n : line[i].id = nextId + i - 1
            /\ ClientSend(line)
    BY <1>3 DEF ClientRequest
  <2>2. PICK line \in [1 .. n -> UNION {OwnRequest(nextId + i - 1) : i \in 1 .. n}] :
          (\A i \in 1 .. n : line[i].id = nextId + i - 1) /\ ClientSend(line)
    BY <2>1
  <2>3. n \in Nat
    BY ConstantsTyped
  <2>4. DOMAIN line = 1 .. n /\ Len(line) = n
    BY <2>2, <2>3
  <2>5. \A id : \A f \in OwnRequest(id) : f.type \in Asks
    BY DEF OwnRequest, Request, Frame, Asks
  <2>6. \A i \in 1 .. n : line[i].type \in Asks
    BY <2>2, <2>5
  <2>7. stale' = stale
    BY <1>3 DEF ClientRequest
  <2> QED
    BY <2>2, <2>3, <2>4, <2>6, <2>7, SendIsMove
<1>4. CASE ClientRefresh \/ ClientNextPage
  <2>1. "tools/list" \in Asks
    BY DEF Asks
  <2> QED
    BY <1>1, <1>4, <2>1 DEF ClientRefresh, ClientNextPage
<1>5. CASE ClientCancel \/ ClientAnswer
  <2>1. /\ \/ \E id : clientOut' = Append(clientOut,
                          <<Frame("cancelled", NoId, id, FALSE, FALSE, <<>>)>>)
           \/ \E id : clientOut' = Append(clientOut, <<Response(id, FALSE, FALSE, <<>>)>>)
        /\ asked' \subseteq asked /\ (Cancels = FALSE => asked' = asked)
        /\ UNCHANGED <<nextId, stale, sessionVars, serverVars, serverIn, serverOut,
                       clientIn, pumpClientVars, pumpServerVars, notifyPending, view>>
    BY <1>5 DEF ClientCancel, ClientAnswer
  <2>2. /\ \A id : Frame("cancelled", NoId, id, FALSE, FALSE, <<>>).type \notin Asks
        /\ \A id : Response(id, FALSE, FALSE, <<>>).type \notin Asks
    BY DEF Response, Frame, Asks
  <2> QED
    BY <2>1, <2>2, PlainIsMove
<1> QED
  BY <1>2, <1>3, <1>4, <1>5 DEF ClientStep

LEMMA ClientHolds == PipeInv /\ PipeInv' /\ HeldOnce /\ ClientStep => HeldOnce'
<1> SUFFICES ASSUME PipeInv, PipeInv', HeldOnce, ClientStep PROVE HeldOnce'
  OBVIOUS
<1>1. PICK line : ClientMoves(line)
  BY ClientStepMoves
<1>2. UNCHANGED <<cline, serverIn, working, serverOut, sline, clientIn>>
  BY <1>1 DEF ClientMoves, serverVars, pumpClientVars, pumpServerVars
<1> QED
  BY <1>1, <1>2, LineSent DEF ClientMoves, Numbered

-----------------------------------------------------------------------------
(* The pump towards the server, and the server.                            *)

LEMMA PumpReadHolds == PipeInv /\ HeldOnce /\ PumpClientRead => HeldOnce'
<1> SUFFICES ASSUME PipeInv, HeldOnce, PumpClientRead PROVE HeldOnce'
  OBVIOUS
<1>1. /\ clientOut # <<>> /\ clientOut' = Tail(clientOut) /\ cline' = Head(clientOut)
      /\ cline = <<>>
      /\ UNCHANGED <<nextId, serverIn, working, serverOut, sline, clientIn>>
  BY DEF PumpClientRead, clientVars, serverVars, pumpServerVars, PipeInv, ControlOK
<1>2. clientOut \in Seq(Seq(Frames))
  BY LinesTyped
<1>3. FramesIn(clientOut) = ToSet(cline') \cup FramesIn(clientOut')
  BY <1>1, <1>2, FramesInPop
<1>4. /\ Distinct(Asks, cline') /\ DistinctLines(Asks, clientOut')
      /\ IdsAmong(Asks, ToSet(cline')) \cap IdsAmong(Asks, FramesIn(clientOut')) = {}
  BY <1>1, <1>2, DistinctLinesPop DEF HeldOnce, Alone
<1> DEFINE M == IdsAmong(Asks, ToSet(cline'))
<1>5. Held["sent"] = M \cup Held'["sent"] /\ Held'["pump"] = M
  BY <1>3, IdsAmongUnion DEF Held
<1>6. \A r \in Places \ {"sent", "pump"} : Held'[r] = Held[r]
  BY <1>1 DEF Held, Places
<1>7. M \cap Held'["sent"] = {}
  BY <1>4 DEF Held
<1> HIDE DEF M
<1>8. nextId' \in Nat /\ nextId <= nextId'
  BY <1>1 DEF PipeInv, FramesOK
<1>9. Apart'
  BY <1>5, <1>6, <1>7, <1>8, MoveKeepsApart DEF HeldOnce, Places
<1>10. Alone'
  BY <1>1, <1>4 DEF HeldOnce, Alone
<1> QED
  BY <1>9, <1>10 DEF HeldOnce

LEMMA ForwardHolds == PipeInv /\ HeldOnce /\ PumpClientForward => HeldOnce'
<1> SUFFICES ASSUME PipeInv, HeldOnce, PumpClientForward PROVE HeldOnce'
  OBVIOUS
<1>1. /\ serverIn' = serverIn \o cline /\ cline' = <<>>
      /\ UNCHANGED <<nextId, clientOut, working, serverOut, sline, clientIn>>
  BY DEF PumpClientForward, clientVars, serverVars, pumpServerVars
<1>2. serverIn \in Seq(Frames) /\ cline \in Seq(Frames)
  BY LinesTyped
<1>3. ToSet(serverIn') = ToSet(serverIn) \cup ToSet(cline)
  BY <1>1, <1>2, ToSetConcat
<1>4. Held'["inbox"] = Held["inbox"] \cup Held["pump"] /\ Held'["pump"] = {}
  BY <1>1, <1>3, IdsAmongUnion, ToSetEmpty DEF Held, IdsAmong
<1>5. \A r \in Places \ {"pump", "inbox"} : Held'[r] = Held[r]
  BY <1>1 DEF Held, Places
<1>6. nextId' \in Nat /\ nextId <= nextId'
  BY <1>1 DEF PipeInv, FramesOK
<1>7. Apart'
  BY <1>4, <1>5, <1>6, MoveKeepsApart, SMTT(20) DEF HeldOnce, Places
<1>8. IdsAmong(Asks, ToSet(serverIn)) \cap IdsAmong(Asks, ToSet(cline)) = {}
  <2>1. Held["inbox"] \cap Held["pump"] = {}
    BY DEF HeldOnce, Apart, Places
  <2> QED
    BY <2>1 DEF Held
<1>9. Distinct(Asks, serverIn') /\ Distinct(Asks, cline')
  BY <1>1, <1>2, <1>8, DistinctConcat, DistinctEmpty DEF HeldOnce, Alone
<1>10. Alone'
  BY <1>1, <1>9 DEF HeldOnce, Alone
<1> QED
  BY <1>7, <1>10 DEF HeldOnce

LEMMA ServerReadHolds == PipeInv /\ HeldOnce /\ ServerRead => HeldOnce'
<1> SUFFICES ASSUME PipeInv, HeldOnce, ServerRead PROVE HeldOnce'
  OBVIOUS
<1> DEFINE f == Head(serverIn)
           M == IdsAmong(Asks, {f})
<1>1. /\ serverIn # <<>> /\ serverIn' = Tail(serverIn)
      /\ UNCHANGED <<nextId, clientOut, cline, serverOut, sline, clientIn>>
  BY DEF ServerRead, clientVars, pumpClientVars, pumpServerVars
<1>2. \/ working' \subseteq working
      \/ f.type \notin {"cancelled", "response"} /\ working' = working \cup {f}
  BY DEF ServerRead
<1>3. serverIn \in Seq(Sendable)
  BY DEF PipeInv, FramesOK
<1>4. f \in Sendable /\ ToSet(serverIn) = {f} \cup ToSet(serverIn')
  BY <1>1, <1>3, ToSetPop
<1>5. Distinct(Asks, serverIn') /\ M \cap IdsAmong(Asks, ToSet(serverIn')) = {}
  BY <1>1, <1>3, DistinctPop DEF HeldOnce, Alone
<1>6. Held["inbox"] = M \cup Held'["inbox"] /\ M \cap Held'["inbox"] = {}
  BY <1>4, <1>5, IdsAmongUnion DEF Held
<1>7. working' \subseteq working \/ (f.type \in Asks /\ working' = working \cup {f})
  BY <1>2, <1>4 DEF Sendable, Asks
<1>8. Held'["work"] \subseteq Held["work"] \cup M
  BY <1>7 DEF Held, IdsAmong
<1>9. \A r \in Places \ {"inbox", "work"} : Held'[r] = Held[r]
  BY <1>1 DEF Held, Places
<1>10. nextId' \in Nat /\ nextId <= nextId'
  BY <1>1 DEF PipeInv, FramesOK
<1>11. Apart'
  <2> HIDE DEF M
  <2> QED
    BY <1>6, <1>8, <1>9, <1>10, MoveKeepsApart DEF HeldOnce, Places
<1>12. ASSUME f.type \in Asks, NEW r \in working PROVE r.id # f.id
  <2>1. r.id \in Held["work"] /\ f.id \in Held["inbox"]
    BY <1>4, <1>12 DEF Held, IdsAmong, HeldOnce, Alone
  <2>2. Held["work"] \cap Held["inbox"] = {}
    BY DEF HeldOnce, Apart, Places
  <2> QED
    BY <2>1, <2>2
<1>13. (\A r \in working' : r.type \in Asks) /\ (\A r, s \in working' : r.id = s.id => r = s)
  <2> HIDE DEF f, M
  <2> QED
    BY <1>7, <1>12 DEF HeldOnce, Alone
<1>14. Alone'
  BY <1>1, <1>5, <1>13 DEF HeldOnce, Alone
<1> QED
  BY <1>11, <1>14 DEF HeldOnce

(* An answer has the id of its request, and a list only what a tools/list  *)
(* asked for.                                                              *)
LEMMA AnswerIs ==
  ASSUME NEW r, NEW f \in Answer(r)
  PROVE  /\ f.type = "response" /\ f.id = r.id
         /\ r.type = "tools/list" =>
              \/ f.list = FullList(Pages[r.arg]) /\ ~f.err
              \/ ListErrors = TRUE /\ f.list = <<>> /\ f.err
<1>1. CASE r.type = "tools/list"
  BY <1>1 DEF Answer, Response, Frame
<1>2. CASE r.type # "tools/list"
  BY <1>2 DEF Answer, Response, Frame
<1> QED
  BY <1>1, <1>2

(* A batch answers each request it serves once: as many answers as         *)
(* requests, and their ids.                                                *)
LEMMA AnsweredLine ==
  ASSUME PipeInv, HeldOnce, ServerAnswer
  PROVE  \E line \in Seq(Frames) \ {<<>>}, served \in SUBSET working :
           /\ working' = working \ served
           /\ serverOut' = Append(serverOut, line)
           /\ Distinct(Says, line)
           /\ IdsAmong(Says, ToSet(line)) = {r.id : r \in served}
           /\ \A f \in ToSet(line) : \E r \in served : f \in Answer(r)
<1>1. PICK n \in 1 .. MaxLine, served \in SUBSET working :
        /\ Cardinality(served) = n
        /\ working' = working \ served
        /\ \E line \in [1 .. n -> UNION {Answer(r) : r \in served}] :
             /\ {line[i].id : i \in 1 .. n} = {r.id : r \in served}
             /\ serverOut' = Append(serverOut, line)
  BY DEF ServerAnswer
<1>2. PICK line \in [1 .. n -> UNION {Answer(r) : r \in served}] :
        /\ {line[i].id : i \in 1 .. n} = {r.id : r \in served}
        /\ serverOut' = Append(serverOut, line)
  BY <1>1
<1>3. n \in Nat \ {0} /\ served \subseteq Sendable
  BY ConstantsTyped DEF PipeInv, FramesOK
<1>4. line \in [1 .. n -> Frames]
  BY <1>3, AnswerTyped
<1>5. line \in Seq(Frames) \ {<<>>} /\ DOMAIN line = 1 .. n
  BY <1>3, <1>4
<1>6. \A f \in ToSet(line) : \E r \in served : f \in Answer(r)
  BY <1>2, <1>5 DEF ToSet
<1>7. \A i \in 1 .. n : line[i].type = "response"
  <2> TAKE i \in 1 .. n
  <2>1. PICK r \in served : line[i] \in Answer(r)
    BY <1>2
  <2> QED
    BY <2>1, AnswerIs
<1>8. IdsAmong(Says, ToSet(line)) = {r.id : r \in served}
  BY <1>2, <1>5, <1>7 DEF IdsAmong, ToSet, Says
<1>9. \A i, j \in 1 .. n : line[i].id = line[j].id => i = j
  <2> DEFINE T == {r.id : r \in served}
             g == [i \in 1 .. n |-> line[i].id]
             h == [r \in served |-> r.id]
  <2>1. \A r, s \in served : r.id = s.id => r = s
    BY DEF HeldOnce, Alone
  <2>2. T = {line[i].id : i \in 1 .. n}
    BY <1>2
  <2>3. g \in Surjection(1 .. n, T)
    BY <2>2 DEF Surjection
  <2>4. h \in Injection(served, T) /\ h \in Surjection(served, T)
    BY <2>1 DEF Injection, Surjection, IsInjective
  <2>5. IsFiniteSet(1 .. n) /\ Cardinality(1 .. n) = n
    <3>1. 1 \in Int /\ n \in Int
      BY <1>3
    <3>2. IsFiniteSet(1 .. n) /\ Cardinality(1 .. n) = IF 1 > n THEN 0 ELSE n - 1 + 1
      BY <3>1, FS_Interval
    <3> QED
      BY <1>3, <3>2
  <2> HIDE DEF T, g, h
  <2>6. IsFiniteSet(T)
    BY <2>3, <2>5, FS_Surjection
  <2>7. Cardinality(served) = Cardinality(T)
    BY <2>4, <2>6, FS_Injection
  <2>8. Cardinality(served) = n
    BY <1>1
  <2>9. g \in Injection(1 .. n, T)
    BY <2>3, <2>5, <2>7, <2>8, FS_Surjection
  <2> QED
    BY <2>9 DEF Injection, IsInjective, g
<1>10. Distinct(Says, line)
  BY <1>5, <1>9 DEF Distinct
<1> QED
  BY <1>1, <1>2, <1>5, <1>6, <1>8, <1>10

LEMMA ServerAnswerHolds == PipeInv /\ HeldOnce /\ ServerAnswer => HeldOnce'
<1> SUFFICES ASSUME PipeInv, HeldOnce, ServerAnswer PROVE HeldOnce'
  OBVIOUS
<1>1. PICK line \in Seq(Frames) \ {<<>>}, served \in SUBSET working :
        /\ working' = working \ served
        /\ serverOut' = Append(serverOut, line)
        /\ Distinct(Says, line)
        /\ IdsAmong(Says, ToSet(line)) = {r.id : r \in served}
  BY AnsweredLine
<1> DEFINE M == {r.id : r \in served}
<1>2. UNCHANGED <<nextId, clientOut, cline, serverIn, sline, clientIn>>
  BY DEF ServerAnswer, clientVars, pumpClientVars, pumpServerVars
<1>3. serverOut \in Seq(Seq(Frames))
  BY LinesTyped
<1>4. FramesIn(serverOut') = FramesIn(serverOut) \cup ToSet(line)
  BY <1>1, <1>3, FramesInAppend
<1>5. Held'["answered"] = Held["answered"] \cup M
  BY <1>1, <1>4, IdsAmongUnion DEF Held
<1>6. (\A r \in working : r.type \in Asks) /\ (\A r, s \in working : r.id = s.id => r = s)
  BY DEF HeldOnce, Alone
<1>7. Held["work"] = {r.id : r \in working}
  BY <1>6 DEF Held, IdsAmong
<1>8. M \subseteq Held["work"] /\ Held'["work"] \subseteq Held["work"] \ M
  <2>1. Held'["work"] \subseteq {r.id : r \in working \ served}
    BY <1>1 DEF Held, IdsAmong
  <2> QED
    BY <1>6, <1>7, <2>1
<1> HIDE DEF M
<1>9. \A r \in Places \ {"work", "answered"} : Held'[r] = Held[r]
  BY <1>2 DEF Held, Places
<1>10. nextId' \in Nat /\ nextId <= nextId'
  BY <1>2 DEF PipeInv, FramesOK
<1>11. Apart'
  <2>1. "work" \in Places /\ "answered" \in Places /\ M \in SUBSET Held["work"]
    BY <1>8 DEF Places
  <2>2. /\ Held'["work"] \subseteq Held["work"] \ M
        /\ Held'["answered"] \subseteq Held["answered"] \cup M
    BY <1>5, <1>8
  <2> QED
    BY <1>9, <1>10, <2>1, <2>2, MoveKeepsApart DEF HeldOnce
<1>12. IdsAmong(Says, FramesIn(serverOut)) \cap IdsAmong(Says, ToSet(line)) = {}
  <2>1. Held["answered"] \cap Held["work"] = {}
    BY DEF HeldOnce, Apart, Places
  <2>2. IdsAmong(Says, FramesIn(serverOut)) = Held["answered"]
    BY DEF Held
  <2> QED
    BY <1>1, <1>8, <2>1, <2>2 DEF M
<1>13. DistinctLines(Says, serverOut')
  BY <1>1, <1>3, <1>12, DistinctLinesAppend DEF HeldOnce, Alone
<1>14. Alone'
  BY <1>1, <1>2, <1>13 DEF HeldOnce, Alone
<1> QED
  BY <1>11, <1>14 DEF HeldOnce

LEMMA AskHolds == PipeInv /\ HeldOnce /\ ServerAsk => HeldOnce'
<1> SUFFICES ASSUME PipeInv, HeldOnce, ServerAsk PROVE HeldOnce'
  OBVIOUS
<1>1. PICK id \in unasked :
        serverOut' = Append(serverOut, <<Request("sampling", id, NoTool)>>)
  BY DEF ServerAsk
<1>2. UNCHANGED <<nextId, clientOut, cline, serverIn, working, sline, clientIn>>
  BY DEF ServerAsk, clientVars, pumpClientVars, pumpServerVars
<1> DEFINE f == Request("sampling", id, NoTool)
<1>3. f \in Frames /\ f.type = "sampling"
  <2>1. id \in Nat
    BY DEF PipeInv, FramesOK
  <2> QED
    BY <2>1, FrameTyped, EmptyListTyped DEF Request, Frame, FrameTypes, NoTool
<1> HIDE DEF f
<1>4. serverOut \in Seq(Seq(Frames)) /\ <<f>> \in Seq(Frames)
  BY <1>3, LinesTyped
<1>5. ToSet(<<f>>) = {f} /\ Distinct(Says, <<f>>)
  BY DEF ToSet, Distinct
<1>6. IdsAmong(Says, ToSet(<<f>>)) = {}
  BY <1>3, <1>5 DEF IdsAmong, Says
<1>7. FramesIn(serverOut') = FramesIn(serverOut) \cup ToSet(<<f>>)
  BY <1>1, <1>4, FramesInAppend DEF f
<1>8. Held'["answered"] = Held["answered"]
  BY <1>6, <1>7, IdsAmongUnion DEF Held
<1>9. \A r \in Places : Held'[r] = Held[r]
  BY <1>2, <1>8 DEF Held, Places
<1>10. nextId' = nextId
  BY <1>2
<1>11. Apart'
  BY <1>9, <1>10 DEF Apart, HeldOnce
<1>12. DistinctLines(Says, serverOut')
  BY <1>1, <1>4, <1>5, <1>6, DistinctLinesAppend DEF HeldOnce, Alone, f
<1>13. Alone'
  BY <1>2, <1>12 DEF HeldOnce, Alone
<1> QED
  BY <1>11, <1>13 DEF HeldOnce

-----------------------------------------------------------------------------
(* The pump towards the client, and the client.                            *)

LEMMA ServerPumpReadHolds == PipeInv /\ HeldOnce /\ PumpServerRead => HeldOnce'
<1> SUFFICES ASSUME PipeInv, HeldOnce, PumpServerRead PROVE HeldOnce'
  OBVIOUS
<1>1. /\ serverOut # <<>> /\ serverOut' = Tail(serverOut) /\ sline' = Head(serverOut)
      /\ sline = <<>>
      /\ UNCHANGED <<nextId, clientOut, cline, serverIn, working, clientIn>>
  BY DEF PumpServerRead, clientVars, serverVars, pumpClientVars, PipeInv, ControlOK
<1>2. serverOut \in Seq(Seq(Frames))
  BY LinesTyped
<1>3. FramesIn(serverOut) = ToSet(sline') \cup FramesIn(serverOut')
  BY <1>1, <1>2, FramesInPop
<1>4. /\ Distinct(Says, sline') /\ DistinctLines(Says, serverOut')
      /\ IdsAmong(Says, ToSet(sline')) \cap IdsAmong(Says, FramesIn(serverOut')) = {}
  BY <1>1, <1>2, DistinctLinesPop DEF HeldOnce, Alone
<1> DEFINE M == IdsAmong(Says, ToSet(sline'))
<1>5. Held["answered"] = M \cup Held'["answered"] /\ Held'["line"] = M
  BY <1>3, IdsAmongUnion DEF Held
<1>6. \A r \in Places \ {"answered", "line"} : Held'[r] = Held[r]
  BY <1>1 DEF Held, Places
<1>7. M \cap Held'["answered"] = {}
  BY <1>4 DEF Held
<1> HIDE DEF M
<1>8. nextId' \in Nat /\ nextId <= nextId'
  BY <1>1 DEF PipeInv, FramesOK
<1>9. Apart'
  BY <1>5, <1>6, <1>7, <1>8, MoveKeepsApart DEF HeldOnce, Places
<1>10. Alone'
  BY <1>1, <1>4 DEF HeldOnce, Alone
<1> QED
  BY <1>9, <1>10 DEF HeldOnce

LEMMA WriteHolds == PipeInv /\ HeldOnce /\ PumpServerWrite => HeldOnce'
<1> SUFFICES ASSUME PipeInv, HeldOnce, PumpServerWrite PROVE HeldOnce'
  OBVIOUS
<1>1. /\ clientIn' = clientIn \o sline /\ sline' = <<>>
      /\ UNCHANGED <<nextId, clientOut, cline, serverIn, working, serverOut>>
  BY DEF PumpServerWrite, clientVars, serverVars, pumpClientVars
<1>2. clientIn \in Seq(Frames) /\ sline \in Seq(Frames)
  BY LinesTyped
<1>3. ToSet(clientIn') = ToSet(clientIn) \cup ToSet(sline)
  BY <1>1, <1>2, ToSetConcat
<1>4. Held'["back"] = Held["back"] \cup Held["line"] /\ Held'["line"] = {}
  BY <1>1, <1>3, IdsAmongUnion, ToSetEmpty DEF Held, IdsAmong
<1>5. \A r \in Places \ {"line", "back"} : Held'[r] = Held[r]
  BY <1>1 DEF Held, Places
<1>6. nextId' \in Nat /\ nextId <= nextId'
  BY <1>1 DEF PipeInv, FramesOK
<1>7. Apart'
  BY <1>4, <1>5, <1>6, MoveKeepsApart DEF HeldOnce, Places
<1>8. IdsAmong(Says, ToSet(clientIn)) \cap IdsAmong(Says, ToSet(sline)) = {}
  <2>1. Held["back"] \cap Held["line"] = {}
    BY DEF HeldOnce, Apart, Places
  <2> QED
    BY <2>1 DEF Held
<1>9. Distinct(Says, clientIn') /\ Distinct(Says, sline')
  BY <1>1, <1>2, <1>8, DistinctConcat, DistinctEmpty DEF HeldOnce, Alone
<1>10. Alone'
  BY <1>1, <1>9 DEF HeldOnce, Alone
<1> QED
  BY <1>7, <1>10 DEF HeldOnce

(* Pruning a frame changes its list and nothing else.                      *)
LEMMA PruneChangesList ==
  ASSUME PipeInv, PumpServerPrune
  PROVE  /\ sline' \in Seq(Frames) /\ Len(sline') = Len(sline)
         /\ sidx \in 1 .. Len(sline) /\ Len(sline) \in Nat
         /\ \A j \in 1 .. Len(sline) :
              /\ sline'[j].type = sline[j].type /\ sline'[j].id = sline[j].id
              /\ sline'[j].err = sline[j].err
              /\ j # sidx => sline'[j] = sline[j]
         /\ \/ ~Prunable(sline[sidx]) /\ sline' = sline /\ UNCHANGED sessionVars
            \/ /\ Prunable(sline[sidx])
               /\ \E base \in BaseScores(DOMAIN sline[sidx].list) :
                    PruneToolsResult(base) /\ sline'[sidx].list = PrunedList(Tiers(base))
<1> DEFINE f == sline[sidx]
<1>1. /\ sline \in Seq(Frames) /\ sidx \in 1 .. Len(sline) /\ Len(sline) \in Nat
  BY LenProperties DEF PipeInv, FramesOK, ControlOK, PumpServerPrune
<1>2. f \in Frames
  BY <1>1, ElementOfSeq
<1>3. sline' \in Seq(Frames) /\ Len(sline') = Len(sline)
  BY PrunedLine
<1>4. CASE ~Prunable(f)
  <2>1. sline' = sline /\ UNCHANGED sessionVars
    BY <1>4 DEF PumpServerPrune
  <2> QED
    BY <1>1, <1>3, <1>4, <2>1
<1>5. CASE Prunable(f)
  <2>1. PICK base \in BaseScores(DOMAIN f.list) :
          /\ PruneToolsResult(base)
          /\ sline' = [sline EXCEPT ![sidx].list = PrunedList(Tiers(base))]
    BY <1>5 DEF PumpServerPrune
  <2> DEFINE g == [f EXCEPT !.list = PrunedList(Tiers(base))]
  <2>2. sline' = [sline EXCEPT ![sidx] = g]
    BY <2>1
  <2>3. g \in Frames
    BY <1>2, PrunedFrame
  <2>4. g.type = f.type /\ g.id = f.id /\ g.err = f.err /\ g.list = PrunedList(Tiers(base))
    BY <1>2 DEF Frames
  <2> HIDE DEF g
  <2>5. \A j \in 1 .. Len(sline) : sline'[j] = IF j = sidx THEN g ELSE sline[j]
    BY <1>1, <2>2, <2>3, ExceptSeq
  <2>6. sline'[sidx] = g
    BY <1>1, <2>5
  <2>7. \A j \in 1 .. Len(sline) : j # sidx => sline'[j] = sline[j]
    BY <2>5
  <2>8. \A j \in 1 .. Len(sline) :
          /\ sline'[j].type = sline[j].type /\ sline'[j].id = sline[j].id
          /\ sline'[j].err = sline[j].err
    BY <2>4, <2>6, <2>7
  <2> QED
    BY <1>1, <1>3, <1>5, <2>1, <2>4, <2>6, <2>7, <2>8
<1> QED
  BY <1>4, <1>5

LEMMA PruneHolds == PipeInv /\ HeldOnce /\ PumpServerPrune => HeldOnce'
<1> SUFFICES ASSUME PipeInv, HeldOnce, PumpServerPrune PROVE HeldOnce'
  OBVIOUS
<1>1. UNCHANGED <<nextId, clientOut, cline, serverIn, working, serverOut, clientIn>>
  BY DEF PumpServerPrune, clientVars, serverVars, pipes, pumpClientVars
<1>2. /\ sline \in Seq(Frames) /\ sline' \in Seq(Frames) /\ Len(sline') = Len(sline)
      /\ \A j \in 1 .. Len(sline) :
           sline'[j].type = sline[j].type /\ sline'[j].id = sline[j].id
  BY LinesTyped, PruneChangesList
<1>3. /\ DOMAIN sline = 1 .. Len(sline) /\ DOMAIN sline' = 1 .. Len(sline)
      /\ ToSet(sline) = {sline[j] : j \in 1 .. Len(sline)}
      /\ ToSet(sline') = {sline'[j] : j \in 1 .. Len(sline)}
  BY <1>2, LenProperties, ToSetTyped
<1>4. Held'["line"] = Held["line"]
  BY <1>2, <1>3 DEF Held, IdsAmong
<1>5. \A r \in Places : Held'[r] = Held[r]
  BY <1>1, <1>4 DEF Held, Places
<1>6. Apart'
  BY <1>1, <1>5 DEF Apart, HeldOnce
<1>7. Distinct(Says, sline')
  <2>1. Distinct(Says, sline)
    BY DEF HeldOnce, Alone
  <2> QED
    BY <1>2, <1>3, <2>1 DEF Distinct
<1>8. Alone'
  BY <1>1, <1>7 DEF HeldOnce, Alone
<1> QED
  BY <1>6, <1>8 DEF HeldOnce

LEMMA InboxHolds ==
  ASSUME PipeInv, HeldOnce, Held'["back"] \subseteq Held["back"], Distinct(Says, clientIn'),
         UNCHANGED <<nextId, clientOut, cline, serverIn, working, serverOut, sline>>
  PROVE  HeldOnce'
<1>1. \A r \in Places : Held'[r] \subseteq Held[r]
  BY DEF Held, Places
<1>2. Apart'
  BY <1>1 DEF Apart, HeldOnce
<1>3. Alone'
  BY DEF HeldOnce, Alone
<1> QED
  BY <1>2, <1>3 DEF HeldOnce

LEMMA NotifyHolds == PipeInv /\ HeldOnce /\ PumpClientNotify => HeldOnce'
<1> SUFFICES ASSUME PipeInv, HeldOnce, PumpClientNotify PROVE HeldOnce'
  OBVIOUS
<1> DEFINE f == ToolsListChanged
<1>1. /\ clientIn' = Append(clientIn, f)
      /\ UNCHANGED <<nextId, clientOut, cline, serverIn, working, serverOut, sline>>
  BY DEF PumpClientNotify, clientVars, serverVars, pumpServerVars
<1>2. clientIn \in Seq(Frames) /\ f \in Frames /\ f.type = "list_changed"
  BY LinesTyped, NoticeTyped DEF ToolsListChanged, Frame
<1> HIDE DEF f
<1>3. clientIn' = clientIn \o <<f>> /\ <<f>> \in Seq(Frames)
  BY <1>1, <1>2, AppendIsConcat
<1>4. ToSet(<<f>>) = {f} /\ Distinct(Says, <<f>>)
  BY DEF ToSet, Distinct
<1>5. IdsAmong(Says, ToSet(<<f>>)) = {}
  BY <1>2, <1>4 DEF IdsAmong, Says
<1>6. ToSet(clientIn') = ToSet(clientIn) \cup ToSet(<<f>>)
  <2>1. clientIn \in Seq(Frames) /\ <<f>> \in Seq(Frames)
    BY <1>2, <1>3
  <2>2. ToSet(clientIn \o <<f>>) = ToSet(clientIn) \cup ToSet(<<f>>)
    BY <2>1, ToSetConcat
  <2> QED BY <1>3, <2>2
<1>7. Held'["back"] = Held["back"]
  BY <1>5, <1>6, IdsAmongUnion DEF Held
<1>8. Distinct(Says, clientIn')
  BY <1>2, <1>3, <1>4, <1>5, DistinctConcat DEF HeldOnce, Alone
<1> QED
  BY <1>1, <1>7, <1>8, InboxHolds

LEMMA ReceiveHolds == PipeInv /\ HeldOnce /\ ClientReceive => HeldOnce'
<1> SUFFICES ASSUME PipeInv, HeldOnce, ClientReceive PROVE HeldOnce'
  OBVIOUS
<1>1. /\ clientIn # <<>> /\ clientIn' = Tail(clientIn)
      /\ UNCHANGED <<nextId, clientOut, cline, serverIn, working, serverOut, sline>>
  BY DEF ClientReceive, serverVars, pumpClientVars, pumpServerVars
<1>2. clientIn \in Seq(Frames)
  BY LinesTyped
<1>3. ToSet(clientIn) = {Head(clientIn)} \cup ToSet(clientIn')
  BY <1>1, <1>2, ToSetPop
<1>4. Held'["back"] \subseteq Held["back"]
  BY <1>3, IdsAmongUnion DEF Held
<1>5. Distinct(Says, clientIn')
  BY <1>1, <1>2, DistinctPop DEF HeldOnce, Alone
<1> QED
  BY <1>1, <1>4, <1>5, InboxHolds

LEMMA NextHeldOnce == PipeInv /\ PipeInv' /\ HeldOnce /\ [Next]_vars => HeldOnce'
<1> SUFFICES ASSUME PipeInv, PipeInv', HeldOnce, [Next]_vars PROVE HeldOnce'
  OBVIOUS
<1>1. CASE UNCHANGED <<nextId, clientOut, cline, serverIn, working, serverOut, sline, clientIn>>
  <2>1. Held' = Held
    BY <1>1 DEF Held
  <2>2. Apart'
    BY <1>1, <2>1 DEF HeldOnce, Apart
  <2>3. Alone'
    BY <1>1 DEF HeldOnce, Alone
  <2> QED
    BY <2>2, <2>3 DEF HeldOnce
<1>2. \/ PumpClientObserve \/ PumpClientCapability \/ PumpClientSwap
      \/ PumpServerObserve \/ PumpServerStore \/ UNCHANGED vars
      => UNCHANGED <<nextId, clientOut, cline, serverIn, working, serverOut, sline, clientIn>>
  BY DEF vars, PumpClientObserve, PumpClientCapability, PumpClientSwap, PumpServerObserve,
         PumpServerStore, clientVars, serverVars, pipes, pumpClientVars, pumpServerVars
<1> QED
  BY <1>1, <1>2, ClientHolds, PumpReadHolds, ForwardHolds, ServerReadHolds,
     ServerAnswerHolds, AskHolds, ServerPumpReadHolds, WriteHolds, PruneHolds,
     NotifyHolds, ReceiveHolds
     DEF Next, ClientStep, PumpClient, PumpServer

-----------------------------------------------------------------------------
(* What the session has seen, and what it has still to see.                *)

Observed == {cline[k] : k \in 1 .. cidx - 1} \cup ToSet(serverIn) \cup working
Unseen == {cline[k] : k \in cidx .. Len(cline)} \cup FramesIn(clientOut)

(* The frame a pump prunes was observed.                                   *)
Reached == IF spc = "prune" THEN sidx + 1 ELSE sidx
Coming == {sline[k] : k \in Reached .. Len(sline)} \cup FramesIn(serverOut)
Past == {sline[k] : k \in 1 .. Reached - 1} \cup ToSet(clientIn)

(* A pump passes a line on when it has looked at all of it.                *)
Finished ==
  /\ cpc = "forward" => cidx = Len(cline) + 1
  /\ spc \in {"store", "write"} => sidx = Len(sline) + 1

LEMMA NextFinished == PipeInv /\ Finished /\ [Next]_vars => Finished'
<1> SUFFICES ASSUME PipeInv, Finished, [Next]_vars PROVE Finished'
  OBVIOUS
<1>1. CASE UNCHANGED <<pumpClientVars, pumpServerVars>>
  BY <1>1 DEF Finished, pumpClientVars, pumpServerVars
<1>2. CASE PumpClient
  <2>1. UNCHANGED pumpServerVars
    BY <1>2 DEF PumpClient, PumpClientRead, PumpClientObserve, PumpClientForward,
                PumpClientCapability, PumpClientSwap, PumpClientNotify
  <2>2. cpc' = "forward" => cline' = cline /\ cidx = Len(cline) /\ cidx' = cidx + 1
    BY <1>2 DEF PumpClient, PumpClientRead, PumpClientObserve, PumpClientForward,
                PumpClientCapability, PumpClientSwap, PumpClientNotify
  <2>3. UNCHANGED <<spc, sline, sidx>>
    BY <2>1 DEF pumpServerVars
  <2> QED
    BY <2>2, <2>3 DEF Finished
<1>3. CASE PumpServer
  <2>1. UNCHANGED <<cpc, cline, cidx>>
    BY <1>3 DEF PumpServer, PumpServerRead, PumpServerObserve, PumpServerPrune,
                PumpServerStore, PumpServerWrite, pumpClientVars
  <2>2. CASE PumpServerRead \/ PumpServerWrite
    BY <2>1, <2>2 DEF Finished, PumpServerRead, PumpServerWrite
  <2>3. CASE PumpServerStore
    BY <2>1, <2>3 DEF Finished, PumpServerStore
  <2>4. CASE PumpServerObserve
    <3>1. sidx \in 1 .. Len(sline) /\ sline' = sline /\ Len(sline) \in Nat
      BY <2>4, LinesTyped, LenProperties DEF PumpServerObserve, PipeInv, ControlOK
    <3>2. spc' \in {"store", "write"} => ~(sidx < Len(sline)) /\ sidx' = sidx + 1
      BY <2>4 DEF PumpServerObserve, PumpServerAdvance
    <3> QED
      BY <2>1, <3>1, <3>2 DEF Finished
  <2>5. CASE PumpServerPrune
    <3>1. sidx \in 1 .. Len(sline) /\ Len(sline') = Len(sline) /\ Len(sline) \in Nat
      BY <2>5, PruneChangesList
    <3>2. spc' \in {"store", "write"} => ~(sidx < Len(sline)) /\ sidx' = sidx + 1
      BY <2>5 DEF PumpServerPrune, PumpServerAdvance
    <3> QED
      BY <2>1, <3>1, <3>2 DEF Finished
  <2> QED
    BY <1>3, <2>2, <2>3, <2>4, <2>5 DEF PumpServer
<1>4. \/ PumpClient \/ PumpServer \/ UNCHANGED <<pumpClientVars, pumpServerVars>>
  BY DEF Next, vars, ClientInitialize, ClientRequest, ClientRefresh, ClientNextPage,
         ClientSend, ClientCancel, ClientAnswer, ClientReceive, ServerRead,
         ServerAnswer, ServerAsk
<1> QED
  BY <1>1, <1>2, <1>3, <1>4

(* How each step moves the frames.                                         *)
LEMMA UpstreamUnchanged ==
  ASSUME UNCHANGED <<cline, cidx, clientOut, serverIn, working>>
  PROVE  Observed' = Observed /\ Unseen' = Unseen
BY DEF Observed, Unseen

LEMMA DownstreamUnchanged ==
  ASSUME UNCHANGED <<sline, sidx, serverOut, clientIn>>, (spc = "prune") <=> (spc' = "prune")
  PROVE  Coming' = Coming /\ Past' = Past /\ Reached' = Reached
<1>1. Reached' = Reached
  BY DEF Reached
<1> QED
  BY <1>1 DEF Coming, Past

LEMMA SendMoves ==
  ASSUME PipeInv, PipeInv', NEW line, clientOut' = Append(clientOut, line),
         UNCHANGED <<cline, cidx, serverIn, working>>
  PROVE  Observed' = Observed /\ Unseen' = Unseen \cup ToSet(line)
<1> DEFINE S == Seq(Sendable) \ {<<>>}
<1>1. clientOut \in Seq(S) /\ Append(clientOut, line) \in Seq(S)
  BY DEF PipeInv, FramesOK
<1> HIDE DEF S
<1>2. line \in S
  BY <1>1, AppendedTyped
<1>3. FramesIn(clientOut') = FramesIn(clientOut) \cup ToSet(line)
  BY <1>1, <1>2, FramesInAppend
<1>4. Observed' = Observed
  BY DEF Observed
<1>5. Unseen' = Unseen \cup ToSet(line)
  BY <1>3 DEF Unseen
<1> QED
  BY <1>4, <1>5

LEMMA ReadKeepsSeen ==
  ASSUME PipeInv, PumpClientRead
  PROVE  Observed' = Observed /\ Unseen' = Unseen
<1>1. /\ clientOut # <<>> /\ clientOut' = Tail(clientOut) /\ cline' = Head(clientOut)
      /\ cidx' = 1 /\ cline = <<>> /\ cidx \in 1 .. Len(cline) + 1
      /\ UNCHANGED <<serverIn, working>>
  BY DEF PumpClientRead, serverVars, PipeInv, ControlOK
<1>2. clientOut \in Seq(Seq(Frames))
  BY LinesTyped
<1>3. FramesIn(clientOut) = ToSet(cline') \cup FramesIn(clientOut') /\ cline' \in Seq(Frames)
  BY <1>1, <1>2, FramesInPop, ToSetPop
<1>4. ToSet(cline') = {cline'[k] : k \in 1 .. Len(cline')}
  BY <1>3, ToSetTyped
<1>5. cidx = 1 /\ Len(cline) = 0
  BY <1>1
<1>6. 1 .. cidx - 1 = {} /\ 1 .. cidx' - 1 = {} /\ cidx .. Len(cline) = {}
  BY <1>1, <1>5
<1>7. Observed' = Observed
  BY <1>1, <1>6 DEF Observed
<1>8. Unseen' = Unseen
  BY <1>1, <1>3, <1>4, <1>6 DEF Unseen
<1> QED
  BY <1>7, <1>8

LEMMA ObserveMovesOne ==
  ASSUME PipeInv, PumpClientObserve
  PROVE  /\ cidx \in 1 .. Len(cline) /\ cline \in Seq(Sendable) /\ Len(cline) \in Nat
         /\ Observed' = Observed \cup {cline[cidx]}
         /\ Unseen = Unseen' \cup {cline[cidx]}
<1>1. /\ cidx \in 1 .. Len(cline) /\ cidx' = cidx + 1
      /\ cline \in Seq(Sendable) /\ UNCHANGED <<cline, clientOut, serverIn, working>>
  BY DEF PumpClientObserve, PipeInv, FramesOK, ControlOK, pipes, serverVars
<1>2. Len(cline) \in Nat
  BY <1>1, LenProperties
<1>3. /\ 1 .. cidx' - 1 = (1 .. cidx - 1) \cup {cidx}
      /\ cidx .. Len(cline) = (cidx' .. Len(cline)) \cup {cidx}
  BY <1>1, <1>2
<1>4. {cline[k] : k \in (1 .. cidx - 1) \cup {cidx}}
        = {cline[k] : k \in 1 .. cidx - 1} \cup {cline[cidx]}
  OBVIOUS
<1>5. {cline[k] : k \in (cidx' .. Len(cline)) \cup {cidx}}
        = {cline[k] : k \in cidx' .. Len(cline)} \cup {cline[cidx]}
  OBVIOUS
<1>6. Observed' = Observed \cup {cline[cidx]}
  BY <1>1, <1>3, <1>4 DEF Observed
<1>7. Unseen = Unseen' \cup {cline[cidx]}
  BY <1>1, <1>3, <1>5 DEF Unseen
<1> QED
  BY <1>1, <1>2, <1>6, <1>7

LEMMA ForwardKeepsSeen ==
  ASSUME PipeInv, Finished, PumpClientForward
  PROVE  Observed' = Observed /\ Unseen' = Unseen
<1>1. /\ serverIn' = serverIn \o cline /\ cline' = <<>> /\ cidx' = 1
      /\ cidx = Len(cline) + 1 /\ UNCHANGED <<clientOut, working>>
  BY DEF PumpClientForward, Finished, serverVars
<1>2. serverIn \in Seq(Frames) /\ cline \in Seq(Frames) /\ Len(cline) \in Nat
  BY LinesTyped, LenProperties
<1>3. /\ ToSet(serverIn') = ToSet(serverIn) \cup ToSet(cline)
      /\ ToSet(cline) = {cline[k] : k \in 1 .. Len(cline)}
  BY <1>1, <1>2, ToSetConcat, ToSetTyped
<1>4. Len(cline') = 0
  BY <1>1
<1>5. /\ 1 .. cidx - 1 = 1 .. Len(cline) /\ cidx .. Len(cline) = {}
      /\ 1 .. cidx' - 1 = {} /\ cidx' .. Len(cline') = {}
  BY <1>1, <1>2, <1>4
<1>6. Observed' = Observed
  BY <1>1, <1>3, <1>5 DEF Observed
<1>7. Unseen' = Unseen
  BY <1>1, <1>5 DEF Unseen
<1> QED
  BY <1>6, <1>7

LEMMA ServerKeepsSeen ==
  ASSUME PipeInv, ServerRead \/ ServerAnswer \/ ServerAsk
  PROVE  Observed' \subseteq Observed /\ Unseen' = Unseen
<1>1. UNCHANGED <<cline, cidx, clientOut>>
  BY DEF ServerRead, ServerAnswer, ServerAsk, pumpClientVars
<1>2. Unseen' = Unseen
  BY <1>1 DEF Unseen
<1>3. CASE ServerRead
  <2>1. serverIn # <<>> /\ serverIn' = Tail(serverIn) /\ serverIn \in Seq(Frames)
    BY <1>3, LinesTyped DEF ServerRead
  <2>2. ToSet(serverIn) = {Head(serverIn)} \cup ToSet(serverIn')
    BY <2>1, ToSetPop
  <2>3. working' \subseteq working \cup {Head(serverIn)}
    BY <1>3 DEF ServerRead
  <2> QED
    BY <1>1, <1>2, <2>2, <2>3 DEF Observed
<1>4. CASE ServerAnswer \/ ServerAsk
  <2>1. working' \subseteq working /\ serverIn' = serverIn
    BY <1>4 DEF ServerAnswer, ServerAsk
  <2> QED
    BY <1>1, <1>2, <2>1 DEF Observed
<1> QED
  BY <1>3, <1>4

LEMMA ServerSendMoves ==
  ASSUME PipeInv, NEW line \in Seq(Frames), serverOut' = Append(serverOut, line),
         UNCHANGED <<spc, sline, sidx, clientIn>>
  PROVE  Coming' = Coming \cup ToSet(line) /\ Past' = Past /\ Reached' = Reached
<1>1. serverOut \in Seq(Seq(Frames))
  BY LinesTyped
<1>2. FramesIn(serverOut') = FramesIn(serverOut) \cup ToSet(line)
  BY <1>1, FramesInAppend
<1>3. Reached' = Reached
  BY DEF Reached
<1>4. Coming' = Coming \cup ToSet(line)
  BY <1>2, <1>3 DEF Coming
<1> QED
  BY <1>3, <1>4 DEF Past

LEMMA ServerPumpReadMoves ==
  ASSUME PipeInv, PumpServerRead
  PROVE  Coming' = Coming /\ Past' = Past
<1>1. /\ serverOut # <<>> /\ serverOut' = Tail(serverOut) /\ sline' = Head(serverOut)
      /\ sidx' = 1 /\ sline = <<>> /\ sidx \in 1 .. Len(sline) + 1
      /\ spc = "read" /\ spc' = "observe" /\ clientIn' = clientIn
  BY DEF PumpServerRead, PipeInv, ControlOK
<1>2. serverOut \in Seq(Seq(Frames))
  BY LinesTyped
<1>3. FramesIn(serverOut) = ToSet(sline') \cup FramesIn(serverOut') /\ sline' \in Seq(Frames)
  BY <1>1, <1>2, FramesInPop, ToSetPop
<1>4. ToSet(sline') = {sline'[k] : k \in 1 .. Len(sline')}
  BY <1>3, ToSetTyped
<1>5. sidx = 1 /\ Len(sline) = 0 /\ Reached = 1 /\ Reached' = 1
  BY <1>1 DEF Reached
<1>6. 1 .. Reached - 1 = {} /\ 1 .. Reached' - 1 = {} /\ Reached .. Len(sline) = {}
  BY <1>5
<1>7. Coming' = Coming
  BY <1>1, <1>3, <1>4, <1>5, <1>6 DEF Coming
<1>8. Past' = Past
  BY <1>1, <1>6 DEF Past
<1> QED
  BY <1>7, <1>8

LEMMA ServerObserveMoves ==
  ASSUME PipeInv, PumpServerObserve
  PROVE  /\ sidx \in 1 .. Len(sline) /\ sline \in Seq(Frames) /\ Len(sline) \in Nat
         /\ Past' = Past \cup {sline[sidx]}
         /\ Coming = Coming' \cup {sline[sidx]}
         /\ Coming' = {sline[k] : k \in sidx + 1 .. Len(sline)} \cup FramesIn(serverOut)
<1>1. /\ spc = "observe" /\ sidx \in 1 .. Len(sline)
      /\ UNCHANGED <<sline, serverOut, clientIn>>
      /\ \/ spc' = "prune" /\ sidx' = sidx
         \/ spc' # "prune" /\ sidx' = sidx + 1
  BY DEF PumpServerObserve, PumpServerAdvance, PipeInv, ControlOK, pipes
<1>2. sline \in Seq(Frames) /\ Len(sline) \in Nat
  BY LinesTyped, LenProperties
<1>3. Reached = sidx /\ Reached' = sidx + 1
  BY <1>1 DEF Reached
<1>4. /\ 1 .. (sidx + 1) - 1 = (1 .. sidx - 1) \cup {sidx}
      /\ sidx .. Len(sline) = (sidx + 1 .. Len(sline)) \cup {sidx}
  BY <1>1, <1>2
<1>5. {sline[k] : k \in (1 .. sidx - 1) \cup {sidx}}
        = {sline[k] : k \in 1 .. sidx - 1} \cup {sline[sidx]}
  OBVIOUS
<1>6. {sline[k] : k \in (sidx + 1 .. Len(sline)) \cup {sidx}}
        = {sline[k] : k \in sidx + 1 .. Len(sline)} \cup {sline[sidx]}
  OBVIOUS
<1>7. Past' = Past \cup {sline[sidx]}
  BY <1>1, <1>3, <1>4, <1>5 DEF Past
<1>8. Coming = {sline[k] : k \in sidx + 1 .. Len(sline)} \cup FramesIn(serverOut) \cup {sline[sidx]}
  BY <1>3, <1>4, <1>6 DEF Coming
<1>9. Coming' = {sline[k] : k \in sidx + 1 .. Len(sline)} \cup FramesIn(serverOut)
  BY <1>1, <1>3 DEF Coming
<1> QED
  BY <1>1, <1>2, <1>7, <1>8, <1>9

LEMMA PruneMoves ==
  ASSUME PipeInv, PumpServerPrune
  PROVE  Coming' = Coming /\ IdsAmong(Says, Past') = IdsAmong(Says, Past)
<1>1. /\ spc = "prune" /\ spc' # "prune" /\ sidx' = sidx + 1
      /\ UNCHANGED <<serverOut, clientIn>>
  BY DEF PumpServerPrune, PumpServerAdvance, pipes
<1>2. /\ Len(sline') = Len(sline) /\ sidx \in 1 .. Len(sline) /\ Len(sline) \in Nat
      /\ \A j \in 1 .. Len(sline) :
           /\ sline'[j].type = sline[j].type /\ sline'[j].id = sline[j].id
           /\ j # sidx => sline'[j] = sline[j]
  BY PruneChangesList
<1>3. Reached = sidx + 1 /\ Reached' = sidx + 1
  BY <1>1 DEF Reached
<1>4. \A k \in sidx + 1 .. Len(sline) : sline'[k] = sline[k]
  <2>1. \A k \in sidx + 1 .. Len(sline) : k \in 1 .. Len(sline) /\ k # sidx
    BY <1>2
  <2> QED
    BY <1>2, <2>1
<1>5. Coming' = Coming
  BY <1>1, <1>2, <1>3, <1>4 DEF Coming
<1>6. \A k \in 1 .. sidx : sline'[k].type = sline[k].type /\ sline'[k].id = sline[k].id
  BY <1>2
<1>7. 1 .. (sidx + 1) - 1 = 1 .. sidx
  BY <1>2
<1>8. /\ Past = {sline[k] : k \in 1 .. sidx} \cup ToSet(clientIn)
      /\ Past' = {sline'[k] : k \in 1 .. sidx} \cup ToSet(clientIn)
  BY <1>1, <1>3, <1>7 DEF Past
<1>9. IdsAmong(Says, {sline'[k] : k \in 1 .. sidx}) = IdsAmong(Says, {sline[k] : k \in 1 .. sidx})
  BY <1>6 DEF IdsAmong
<1>10. IdsAmong(Says, Past)
         = IdsAmong(Says, {sline[k] : k \in 1 .. sidx}) \cup IdsAmong(Says, ToSet(clientIn))
  BY <1>8, IdsAmongUnion
<1>11. IdsAmong(Says, Past')
         = IdsAmong(Says, {sline'[k] : k \in 1 .. sidx}) \cup IdsAmong(Says, ToSet(clientIn))
  BY <1>8, IdsAmongUnion
<1> QED
  BY <1>5, <1>9, <1>10, <1>11

LEMMA WriteMoves ==
  ASSUME PipeInv, Finished, PumpServerWrite
  PROVE  Coming' = Coming /\ Past' = Past
<1>1. /\ clientIn' = clientIn \o sline /\ sline' = <<>> /\ sidx' = 1
      /\ spc = "write" /\ spc' = "read" /\ sidx = Len(sline) + 1 /\ serverOut' = serverOut
  BY DEF PumpServerWrite, Finished
<1>2. clientIn \in Seq(Frames) /\ sline \in Seq(Frames) /\ Len(sline) \in Nat
  BY LinesTyped, LenProperties
<1>3. /\ ToSet(clientIn') = ToSet(clientIn) \cup ToSet(sline)
      /\ ToSet(sline) = {sline[k] : k \in 1 .. Len(sline)}
  BY <1>1, <1>2, ToSetConcat, ToSetTyped
<1>4. Reached = Len(sline) + 1 /\ Reached' = 1 /\ Len(sline') = 0
  BY <1>1 DEF Reached
<1>5. /\ 1 .. Reached - 1 = 1 .. Len(sline) /\ Reached .. Len(sline) = {}
      /\ 1 .. Reached' - 1 = {} /\ Reached' .. Len(sline') = {}
  BY <1>2, <1>4
<1>6. Coming' = Coming
  BY <1>1, <1>5 DEF Coming
<1>7. Past' = Past
  BY <1>1, <1>3, <1>5 DEF Past
<1> QED
  BY <1>6, <1>7

-----------------------------------------------------------------------------
(* Where the frames of each kind are.                                      *)
LEMMA PlacesOf ==
  ASSUME PipeInv
  PROVE  /\ IdsAmong(Asks, Observed) \subseteq Held["pump"] \cup Held["inbox"] \cup Held["work"]
         /\ IdsAmong(Asks, Unseen) \subseteq Held["pump"] \cup Held["sent"]
         /\ IdsAmong(Says, Coming) \subseteq Held["line"] \cup Held["answered"]
         /\ IdsAmong(Says, Past) \subseteq Held["line"] \cup Held["back"]
<1>1. /\ cline \in Seq(Frames) /\ Len(cline) \in Nat
      /\ sline \in Seq(Frames) /\ Len(sline) \in Nat
      /\ cidx \in 1 .. Len(cline) + 1 /\ sidx \in 1 .. Len(sline) + 1
      /\ spc = "prune" => sidx <= Len(sline)
  BY LinesTyped, LenProperties DEF PipeInv, ControlOK
<1>2. /\ ToSet(cline) = {cline[k] : k \in 1 .. Len(cline)}
      /\ ToSet(sline) = {sline[k] : k \in 1 .. Len(sline)}
  BY <1>1, ToSetTyped
<1>3. Reached \in 1 .. Len(sline) + 1
  BY <1>1 DEF Reached
<1>4. /\ 1 .. cidx - 1 \subseteq 1 .. Len(cline) /\ cidx .. Len(cline) \subseteq 1 .. Len(cline)
      /\ 1 .. Reached - 1 \subseteq 1 .. Len(sline)
      /\ Reached .. Len(sline) \subseteq 1 .. Len(sline)
  BY <1>1, <1>3
<1>5. Observed \subseteq ToSet(cline) \cup ToSet(serverIn) \cup working
  BY <1>2, <1>4 DEF Observed
<1>6. Unseen \subseteq ToSet(cline) \cup FramesIn(clientOut)
  BY <1>2, <1>4 DEF Unseen
<1>7. Coming \subseteq ToSet(sline) \cup FramesIn(serverOut)
  BY <1>2, <1>4 DEF Coming
<1>8. Past \subseteq ToSet(sline) \cup ToSet(clientIn)
  BY <1>2, <1>4 DEF Past
<1> QED
  BY <1>5, <1>6, <1>7, <1>8 DEF IdsAmong, Held

(* The ids of two places differ.                                           *)
LEMMA SidesApart ==
  ASSUME PipeInv, HeldOnce
  PROVE  /\ IdsAmong(Asks, Observed \cup Unseen) \subseteq 1 .. nextId - 1
         /\ IdsAmong(Says, Coming \cup Past) \subseteq 1 .. nextId - 1
         /\ IdsAmong(Asks, Observed \cup Unseen) \cap IdsAmong(Says, Coming \cup Past) = {}
<1> DEFINE H == Held
<1>1. /\ \A p \in Places : H[p] \subseteq 1 .. nextId - 1
      /\ \A p, q \in Places : p # q => H[p] \cap H[q] = {}
  BY DEF HeldOnce, Apart
<1>2. /\ IdsAmong(Asks, Observed \cup Unseen) \subseteq
           H["pump"] \cup H["inbox"] \cup H["work"] \cup H["sent"]
      /\ IdsAmong(Says, Coming \cup Past) \subseteq H["line"] \cup H["answered"] \cup H["back"]
  BY PlacesOf, IdsAmongUnion
<1> HIDE DEF H
<1>3. /\ H["pump"] \cup H["inbox"] \cup H["work"] \cup H["sent"] \subseteq 1 .. nextId - 1
      /\ H["line"] \cup H["answered"] \cup H["back"] \subseteq 1 .. nextId - 1
  BY <1>1 DEF Places
<1>4. (H["pump"] \cup H["inbox"] \cup H["work"] \cup H["sent"])
        \cap (H["line"] \cup H["answered"] \cup H["back"]) = {}
  BY <1>1 DEF Places
<1> QED
  BY <1>2, <1>3, <1>4

(* The frame a pump looks at has an id of its own.                         *)
LEMMA ClientFrameAlone ==
  ASSUME PipeInv, HeldOnce, PumpClientObserve, cline[cidx].type \in Asks
  PROVE  /\ cline[cidx].id \in 1 .. nextId - 1
         /\ cline[cidx].id \notin IdsAmong(Asks, Observed)
         /\ cline[cidx].id \notin IdsAmong(Asks, Unseen')
         /\ cline[cidx].id \notin IdsAmong(Says, Coming \cup Past)
<1> DEFINE f == cline[cidx]
<1>1. /\ cidx \in 1 .. Len(cline) /\ cline \in Seq(Sendable) /\ Len(cline) \in Nat
      /\ Observed' = Observed \cup {f} /\ Unseen = Unseen' \cup {f}
  BY ObserveMovesOne
<1>2. cidx' = cidx + 1 /\ UNCHANGED <<cline, clientOut>>
  BY DEF PumpClientObserve, pipes
<1>3. f \in Unseen /\ f.id \in IdsAmong(Asks, Unseen)
  BY <1>1 DEF IdsAmong
<1>4. /\ f.id \in 1 .. nextId - 1 /\ f.id \notin IdsAmong(Says, Coming \cup Past)
  BY <1>3, SidesApart, IdsAmongUnion
<1>5. DOMAIN cline = 1 .. Len(cline) /\ ToSet(cline) = {cline[k] : k \in 1 .. Len(cline)}
  BY <1>1, ToSetTyped
<1>6. \A k \in 1 .. Len(cline) : cline[k].type \in Asks /\ cline[k].id = f.id => k = cidx
  BY <1>1, <1>5 DEF HeldOnce, Alone, Distinct
<1>7. f.id \in Held["pump"]
  BY <1>1, <1>5 DEF Held, IdsAmong
<1>8. f.id \notin Held["sent"] /\ f.id \notin Held["inbox"] /\ f.id \notin Held["work"]
  BY <1>7 DEF HeldOnce, Apart, Places
<1>9. f.id \notin IdsAmong(Asks, {cline[k] : k \in 1 .. cidx - 1})
  <2>1. \A k \in 1 .. cidx - 1 : k \in 1 .. Len(cline) /\ k # cidx
    BY <1>1
  <2> QED
    BY <1>6, <2>1 DEF IdsAmong
<1>10. f.id \notin IdsAmong(Asks, {cline[k] : k \in cidx + 1 .. Len(cline)})
  <2>1. \A k \in cidx + 1 .. Len(cline) : k \in 1 .. Len(cline) /\ k # cidx
    BY <1>1
  <2> QED
    BY <1>6, <2>1 DEF IdsAmong
<1>11. f.id \notin IdsAmong(Asks, Observed)
  <2>1. IdsAmong(Asks, Observed)
          = IdsAmong(Asks, {cline[k] : k \in 1 .. cidx - 1} \cup ToSet(serverIn))
              \cup IdsAmong(Asks, working)
    BY IdsAmongUnion DEF Observed
  <2>2. IdsAmong(Asks, {cline[k] : k \in 1 .. cidx - 1} \cup ToSet(serverIn))
          = IdsAmong(Asks, {cline[k] : k \in 1 .. cidx - 1}) \cup IdsAmong(Asks, ToSet(serverIn))
    BY IdsAmongUnion
  <2> QED
    BY <1>8, <1>9, <2>1, <2>2 DEF Held
<1>12. Unseen' = {cline[k] : k \in cidx + 1 .. Len(cline)} \cup FramesIn(clientOut)
  BY <1>2 DEF Unseen
<1>13. f.id \notin IdsAmong(Asks, Unseen')
  BY <1>8, <1>10, <1>12, IdsAmongUnion, SMTT(20) DEF Held
<1> QED
  BY <1>4, <1>11, <1>13

LEMMA ServerFrameAlone ==
  ASSUME PipeInv, HeldOnce, PumpServerObserve, sline[sidx].type = "response"
  PROVE  /\ sline[sidx].id \in 1 .. nextId - 1
         /\ sline[sidx].id \notin IdsAmong(Says, Coming')
         /\ sline[sidx].id \notin IdsAmong(Asks, Observed \cup Unseen)
<1> DEFINE f == sline[sidx]
<1>1. /\ sidx \in 1 .. Len(sline) /\ sline \in Seq(Frames) /\ Len(sline) \in Nat
      /\ Coming = Coming' \cup {f}
      /\ Coming' = {sline[k] : k \in sidx + 1 .. Len(sline)} \cup FramesIn(serverOut)
  BY ServerObserveMoves
<1>2. f \in Coming /\ f.id \in IdsAmong(Says, Coming)
  BY <1>1 DEF IdsAmong, Says
<1>3. f.id \in 1 .. nextId - 1 /\ f.id \notin IdsAmong(Asks, Observed \cup Unseen)
  BY <1>2, SidesApart, IdsAmongUnion
<1>4. DOMAIN sline = 1 .. Len(sline) /\ ToSet(sline) = {sline[k] : k \in 1 .. Len(sline)}
  BY <1>1, ToSetTyped
<1>5. \A k \in 1 .. Len(sline) : sline[k].type \in Says /\ sline[k].id = f.id => k = sidx
  BY <1>1, <1>4 DEF HeldOnce, Alone, Distinct, Says
<1>6. f.id \in Held["line"]
  BY <1>1, <1>4 DEF Held, IdsAmong, Says
<1>7. f.id \notin Held["answered"]
  BY <1>6 DEF HeldOnce, Apart, Places
<1>8. f.id \notin IdsAmong(Says, {sline[k] : k \in sidx + 1 .. Len(sline)})
  <2>1. \A k \in sidx + 1 .. Len(sline) : k \in 1 .. Len(sline) /\ k # sidx
    BY <1>1
  <2> QED
    BY <1>5, <2>1 DEF IdsAmong
<1>9. f.id \notin IdsAmong(Says, Coming')
  BY <1>1, <1>7, <1>8, IdsAmongUnion DEF Held
<1> QED
  BY <1>3, <1>9
-----------------------------------------------------------------------------
(* What the session registered, and what the frames say.                   *)

(* Of the requests that were observed, the lists are pending, and only     *)
(* they are.                                                               *)
ListsRegistered ==
  \A f \in Observed : f.type \in Asks => (f.type = "tools/list" <=> f.id \in pendingLst)

(* A list that comes was asked for, and what was asked for as a list comes *)
(* as one, or as an error.                                                 *)
AnswersDue ==
  \A f \in Coming : f.type = "response" =>
    /\ DOMAIN f.list # {} => f.id \in pendingLst /\ ~f.err
    /\ f.id \in pendingLst => DOMAIN f.list # {} \/ ListErrors = TRUE

KindsApart ==
  /\ pendingLst \cap pendingCal = {} /\ pendingLst \cap pendingIni = {}
  /\ pendingCal \cap pendingIni = {}

(* What is pending was seen on its way to the server and not on its way    *)
(* back.                                                                   *)
InBetween ==
  /\ Pending \subseteq 1 .. nextId - 1
  /\ Pending \cap IdsAmong(Asks, Unseen) = {}
  /\ Pending \cap IdsAmong(Says, Past) = {}

PruneReady ==
  spc = "prune" =>
    /\ sline[sidx].type = "response"
    /\ Prunable(sline[sidx]) \/ ListErrors = TRUE

Registered ==
  /\ ListsRegistered /\ AnswersDue /\ KindsApart /\ InBetween /\ PruneReady

LEMMA InitRegistered == Init => Registered
<1> SUFFICES ASSUME Init PROVE Registered
  OBVIOUS
<1>1. /\ Observed = {} /\ Unseen = {} /\ Coming = {} /\ Past = {} /\ Pending = {}
  <2>1. Len(cline) = 0 /\ Len(sline) = 0 /\ cidx = 1 /\ sidx = 1 /\ Reached = 1
    BY DEF Init, Reached
  <2>2. 1 .. cidx - 1 = {} /\ cidx .. Len(cline) = {}
        /\ 1 .. Reached - 1 = {} /\ Reached .. Len(sline) = {}
    BY <2>1
  <2> QED
    BY <2>2, ToSetEmpty
       DEF Init, SessionInit, Observed, Unseen, Coming, Past, Pending
<1> QED
  BY <1>1 DEF Init, SessionInit, Registered, ListsRegistered, AnswersDue, KindsApart,
              InBetween, PruneReady

(* A step that registers nothing.                                          *)
LEMMA StillRegistered ==
  ASSUME Registered, UNCHANGED <<pendingLst, pendingCal, pendingIni>>,
         nextId \in Nat, nextId > 0, nextId' \in Nat, nextId <= nextId',
         Observed' \subseteq Observed, AnswersDue', PruneReady',
         Pending \cap IdsAmong(Asks, Unseen') = {},
         IdsAmong(Says, Past') \subseteq IdsAmong(Says, Past)
  PROVE  Registered'
<1>1. Pending' = Pending
  BY DEF Pending
<1>2. 1 .. nextId - 1 \subseteq 1 .. nextId' - 1
  BY IdIntervals
<1>3. InBetween'
  BY <1>1, <1>2 DEF Registered, InBetween
<1>4. ListsRegistered'
  BY DEF Registered, ListsRegistered
<1> QED
  BY <1>3, <1>4 DEF Registered, KindsApart

LEMMA ClientKeepsRegistered ==
  ASSUME PipeInv, PipeInv', HeldOnce, Registered, ClientStep
  PROVE  Registered'
<1>1. PICK line : ClientMoves(line)
  BY ClientStepMoves
<1>2. /\ UNCHANGED <<pendingLst, pendingCal, pendingIni, cline, cidx, serverIn, working>>
      /\ UNCHANGED <<spc, sline, sidx, serverOut, clientIn>>
  BY <1>1 DEF ClientMoves, sessionVars, serverVars, pumpClientVars, pumpServerVars
<1>3. Observed' = Observed /\ Unseen' = Unseen \cup ToSet(line)
  BY <1>1, <1>2, SendMoves DEF ClientMoves
<1>4. Coming' = Coming /\ Past' = Past
  BY <1>2, DownstreamUnchanged
<1>5. /\ nextId \in Nat /\ nextId > 0 /\ nextId' \in Nat /\ nextId <= nextId'
      /\ IdsAmong(Asks, ToSet(line)) \subseteq nextId .. nextId' - 1
  BY <1>1 DEF ClientMoves, Numbered, HeldOnce, Apart
<1>6. Pending \cap IdsAmong(Asks, Unseen') = {}
  <2>1. Pending \subseteq 1 .. nextId - 1 /\ Pending \cap IdsAmong(Asks, Unseen) = {}
    BY DEF Registered, InBetween
  <2>2. (1 .. nextId - 1) \cap (nextId .. nextId' - 1) = {}
    BY <1>5, IdIntervals
  <2>3. IdsAmong(Asks, Unseen') = IdsAmong(Asks, Unseen) \cup IdsAmong(Asks, ToSet(line))
    BY <1>3, IdsAmongUnion
  <2> QED
    BY <1>5, <2>1, <2>2, <2>3
<1>7. AnswersDue' /\ PruneReady'
  BY <1>2, <1>4 DEF Registered, AnswersDue, PruneReady, Prunable
<1> QED
  BY <1>2, <1>3, <1>4, <1>5, <1>6, <1>7, StillRegistered

(* The steps that pass lines on.                                           *)
LEMMA PassKeepsRegistered ==
  ASSUME PipeInv, HeldOnce, Finished, Registered,
         \/ PumpClientRead \/ PumpClientForward \/ PumpClientCapability \/ PumpClientSwap
         \/ PumpClientNotify \/ ClientReceive \/ ServerRead \/ ServerAsk
         \/ PumpServerRead \/ PumpServerStore \/ PumpServerWrite
  PROVE  Registered'
<1>1. /\ UNCHANGED <<pendingLst, pendingCal, pendingIni, nextId>>
      /\ nextId \in Nat /\ nextId > 0 /\ nextId' \in Nat /\ nextId <= nextId'
  <2>1. UNCHANGED <<pendingLst, pendingCal, pendingIni, nextId>>
    BY DEF PumpClientRead, PumpClientForward, PumpClientCapability, PumpClientSwap,
           PumpClientNotify, ClientReceive, ServerRead, ServerAsk, PumpServerRead,
           PumpServerStore, PumpServerWrite, sessionVars, clientVars
  <2> QED
    BY <2>1 DEF HeldOnce, Apart
<1>2. Pending \cap IdsAmong(Asks, Unseen) = {}
  BY DEF Registered, InBetween
<1>3. CASE PumpClientRead \/ PumpClientForward
  <2>1. Observed' = Observed /\ Unseen' = Unseen
    BY <1>3, ReadKeepsSeen, ForwardKeepsSeen
  <2>2. UNCHANGED <<spc, sline, sidx, serverOut, clientIn>>
    BY <1>3 DEF PumpClientRead, PumpClientForward, pumpServerVars
  <2>3. Coming' = Coming /\ Past' = Past
    BY <2>2, DownstreamUnchanged
  <2>4. AnswersDue' /\ PruneReady'
    BY <1>1, <2>2, <2>3 DEF Registered, AnswersDue, PruneReady, Prunable
  <2> QED
    BY <1>1, <1>2, <2>1, <2>3, <2>4, StillRegistered
<1>4. CASE PumpClientCapability \/ PumpClientSwap
  <2>1. /\ UNCHANGED <<cline, cidx, clientOut, serverIn, working>>
        /\ UNCHANGED <<spc, sline, sidx, serverOut, clientIn>>
    BY <1>4 DEF PumpClientCapability, PumpClientSwap, serverVars, pipes, pumpServerVars
  <2>2. Observed' = Observed /\ Unseen' = Unseen /\ Coming' = Coming /\ Past' = Past
    BY <2>1, UpstreamUnchanged, DownstreamUnchanged
  <2>3. AnswersDue' /\ PruneReady'
    BY <1>1, <2>1, <2>2 DEF Registered, AnswersDue, PruneReady, Prunable
  <2> QED
    BY <1>1, <1>2, <2>2, <2>3, StillRegistered
<1>5. CASE PumpClientNotify \/ ClientReceive
  <2>1. /\ UNCHANGED <<cline, cidx, clientOut, serverIn, working>>
        /\ UNCHANGED <<spc, sline, sidx, serverOut>>
    BY <1>5 DEF PumpClientNotify, ClientReceive, serverVars, pumpServerVars, pumpClientVars
  <2>2. Observed' = Observed /\ Unseen' = Unseen /\ Reached' = Reached
    BY <2>1, UpstreamUnchanged DEF Reached
  <2>3. Coming' = Coming
    BY <2>1, <2>2 DEF Coming
  <2>4. IdsAmong(Says, ToSet(clientIn')) \subseteq IdsAmong(Says, ToSet(clientIn))
    <3>1. clientIn \in Seq(Frames)
      BY LinesTyped
    <3>2. CASE PumpClientNotify
      <4>1. clientIn' = Append(clientIn, ToolsListChanged)
        BY <3>2 DEF PumpClientNotify
      <4>2. ToolsListChanged \in Frames /\ ToolsListChanged.type = "list_changed"
        BY NoticeTyped DEF ToolsListChanged, Frame
      <4>3. ToSet(clientIn') = ToSet(clientIn) \cup {ToolsListChanged}
        BY <3>1, <4>1, <4>2, ToSetAppend
      <4>4. IdsAmong(Says, {ToolsListChanged}) = {}
        BY <4>2 DEF IdsAmong, Says
      <4> QED
        BY <4>3, <4>4, IdsAmongUnion
    <3>3. CASE ClientReceive
      <4>1. clientIn # <<>> /\ clientIn' = Tail(clientIn)
        BY <3>3 DEF ClientReceive
      <4>2. ToSet(clientIn) = {Head(clientIn)} \cup ToSet(clientIn')
        BY <3>1, <4>1, ToSetPop
      <4> QED
        BY <4>2, IdsAmongUnion
    <3> QED
      BY <1>5, <3>2, <3>3
  <2>5. IdsAmong(Says, Past') \subseteq IdsAmong(Says, Past)
    <3> DEFINE seen == {sline[k] : k \in 1 .. Reached - 1}
    <3>1. Past = seen \cup ToSet(clientIn) /\ Past' = seen \cup ToSet(clientIn')
      BY <2>1, <2>2 DEF Past
    <3> HIDE DEF seen
    <3>2. /\ IdsAmong(Says, seen \cup ToSet(clientIn))
               = IdsAmong(Says, seen) \cup IdsAmong(Says, ToSet(clientIn))
          /\ IdsAmong(Says, seen \cup ToSet(clientIn'))
               = IdsAmong(Says, seen) \cup IdsAmong(Says, ToSet(clientIn'))
      BY IdsAmongUnion
    <3> QED
      BY <2>4, <3>1, <3>2
  <2>6. AnswersDue' /\ PruneReady'
    BY <1>1, <2>1, <2>3 DEF Registered, AnswersDue, PruneReady, Prunable
  <2> QED
    BY <1>1, <1>2, <2>2, <2>5, <2>6, StillRegistered
<1>6. CASE ServerRead \/ ServerAsk
  <2>1. Observed' \subseteq Observed /\ Unseen' = Unseen
    BY <1>6, ServerKeepsSeen
  <2>2. UNCHANGED <<spc, sline, sidx, clientIn>>
    BY <1>6 DEF ServerRead, ServerAsk, pumpServerVars
  <2>3. Past' = Past /\ \A f \in Coming' : f \in Coming \/ f.type # "response"
    <3>1. CASE ServerRead
      <4>1. serverOut' = serverOut
        BY <3>1 DEF ServerRead
      <4> QED
        BY <2>2, <4>1, DownstreamUnchanged
    <3>2. CASE ServerAsk
      <4>1. PICK id \in unasked :
              serverOut' = Append(serverOut, <<Request("sampling", id, NoTool)>>)
        BY <3>2 DEF ServerAsk
      <4> DEFINE f == Request("sampling", id, NoTool)
      <4>2. f \in Frames /\ f.type = "sampling"
        BY FrameTyped, EmptyListTyped DEF Request, Frame, FrameTypes, NoTool, PipeInv, FramesOK
      <4>3. <<f>> \in Seq(Frames) /\ ToSet(<<f>>) = {f}
        BY <4>2 DEF ToSet
      <4>4. Coming' = Coming \cup {f} /\ Past' = Past
        BY <2>2, <4>1, <4>3, ServerSendMoves
      <4> QED
        BY <4>2, <4>4
    <3> QED
      BY <1>6, <3>1, <3>2
  <2>4. AnswersDue' /\ PruneReady'
    BY <1>1, <2>2, <2>3 DEF Registered, AnswersDue, PruneReady, Prunable
  <2> QED
    BY <1>1, <1>2, <2>1, <2>3, <2>4, StillRegistered
<1>7. CASE PumpServerRead \/ PumpServerStore \/ PumpServerWrite
  <2>1. UNCHANGED <<cline, cidx, clientOut, serverIn, working>> /\ spc' # "prune"
    BY <1>7 DEF PumpServerRead, PumpServerStore, PumpServerWrite, serverVars, pipes,
                pumpClientVars
  <2>2. Observed' = Observed /\ Unseen' = Unseen
    BY <2>1, UpstreamUnchanged
  <2>3. Coming' = Coming /\ Past' = Past
    <3>1. CASE PumpServerStore
      <4>1. UNCHANGED <<sline, sidx, serverOut, clientIn>> /\ spc # "prune"
        BY <3>1 DEF PumpServerStore, pipes
      <4> QED
        BY <2>1, <4>1, DownstreamUnchanged
    <3> QED
      BY <1>7, <3>1, ServerPumpReadMoves, WriteMoves
  <2>4. AnswersDue' /\ PruneReady'
    BY <1>1, <2>1, <2>3 DEF Registered, AnswersDue, PruneReady
  <2> QED
    BY <1>1, <1>2, <2>2, <2>3, <2>4, StillRegistered
<1> QED
  BY <1>3, <1>4, <1>5, <1>6, <1>7
LEMMA AnswerKeepsRegistered ==
  ASSUME PipeInv, HeldOnce, Registered, ServerAnswer
  PROVE  Registered'
<1>1. PICK line \in Seq(Frames) \ {<<>>}, served \in SUBSET working :
        /\ working' = working \ served
        /\ serverOut' = Append(serverOut, line)
        /\ \A f \in ToSet(line) : \E r \in served : f \in Answer(r)
  BY AnsweredLine
<1>2. /\ UNCHANGED <<pendingLst, pendingCal, pendingIni, nextId>>
      /\ UNCHANGED <<spc, sline, sidx, clientIn>>
  BY DEF ServerAnswer, sessionVars, clientVars, pumpServerVars
<1>3. nextId \in Nat /\ nextId > 0 /\ nextId' \in Nat /\ nextId <= nextId'
  BY <1>2 DEF HeldOnce, Apart
<1>4. Observed' \subseteq Observed /\ Unseen' = Unseen
  BY ServerKeepsSeen
<1>5. Coming' = Coming \cup ToSet(line) /\ Past' = Past
  BY <1>1, <1>2, ServerSendMoves
<1>6. ASSUME NEW f \in ToSet(line)
      PROVE  /\ DOMAIN f.list # {} => f.id \in pendingLst /\ ~f.err
             /\ f.id \in pendingLst => DOMAIN f.list # {} \/ ListErrors = TRUE
  <2>1. PICK r \in served : f \in Answer(r)
    BY <1>1, <1>6
  <2>2. /\ r \in working /\ r \in Observed /\ r.type \in Asks /\ r \in Sendable
    BY <2>1 DEF Observed, HeldOnce, Alone, PipeInv, FramesOK
  <2>3. (r.type = "tools/list" <=> r.id \in pendingLst) /\ f.id = r.id
    BY <2>1, <2>2, AnswerIs DEF Registered, ListsRegistered
  <2>4. CASE r.type # "tools/list"
    <3>1. f.list = <<>>
      BY <2>1, <2>4 DEF Answer, Response, Frame
    <3>2. DOMAIN <<>> = {}
      OBVIOUS
    <3> QED
      BY <2>3, <2>4, <3>1, <3>2
  <2>5. CASE r.type = "tools/list"
    <3>1. r.arg \in DOMAIN Pages
      BY <2>2, <2>5 DEF Sendable
    <3>2. Pages[r.arg] # {}
      BY <3>1, ProxyAssumption
    <3>3. DOMAIN FullList(Pages[r.arg]) # {}
      BY <3>2 DEF FullList
    <3>4. \/ f.list = FullList(Pages[r.arg]) /\ ~f.err
          \/ ListErrors = TRUE /\ f.list = <<>>
      BY <2>1, <2>5, AnswerIs
    <3>5. DOMAIN <<>> = {}
      OBVIOUS
    <3> QED
      BY <2>3, <2>5, <3>3, <3>4, <3>5
  <2> QED
    BY <2>4, <2>5
<1>7. AnswersDue'
  BY <1>2, <1>5, <1>6 DEF Registered, AnswersDue
<1>8. PruneReady'
  BY <1>2 DEF Registered, PruneReady, Prunable
<1>9. Pending \cap IdsAmong(Asks, Unseen') = {}
  BY <1>4 DEF Registered, InBetween
<1> QED
  BY <1>2, <1>3, <1>4, <1>5, <1>7, <1>8, <1>9, StillRegistered

LEMMA PruneKeepsRegistered ==
  ASSUME PipeInv, HeldOnce, Registered, PumpServerPrune
  PROVE  Registered'
<1>1. /\ UNCHANGED <<pendingLst, pendingCal, pendingIni, nextId>> /\ spc' # "prune"
      /\ UNCHANGED <<cline, cidx, clientOut, serverIn, working>>
  BY DEF PumpServerPrune, PumpServerAdvance, PruneToolsResult, sessionVars, clientVars,
         serverVars, pipes, pumpClientVars
<1>2. nextId \in Nat /\ nextId > 0 /\ nextId' \in Nat /\ nextId <= nextId'
  BY <1>1 DEF HeldOnce, Apart
<1>3. Observed' = Observed /\ Unseen' = Unseen
  BY <1>1, UpstreamUnchanged
<1>4. Coming' = Coming /\ IdsAmong(Says, Past') = IdsAmong(Says, Past)
  BY PruneMoves
<1>5. AnswersDue' /\ PruneReady'
  BY <1>1, <1>4 DEF Registered, AnswersDue, PruneReady
<1>6. Pending \cap IdsAmong(Asks, Unseen') = {}
  BY <1>3 DEF Registered, InBetween
<1> QED
  BY <1>1, <1>2, <1>3, <1>4, <1>5, <1>6, StillRegistered

(* One frame of the client registered.                                     *)
LEMMA ObserveRegisters ==
  ASSUME NEW f, ObserveClient(f)
  PROVE  /\ f.type \notin Asks =>
              UNCHANGED <<pendingLst, pendingCal, pendingIni>>
         /\ pendingLst' = IF f.type = "tools/list" THEN WithId(pendingLst, f) ELSE pendingLst
         /\ \/ pendingCal' = pendingCal
            \/ f.type = "tools/call" /\ pendingCal' = WithId(pendingCal, f)
         /\ \/ pendingIni' = pendingIni
            \/ f.type = "initialize" /\ pendingIni' = WithId(pendingIni, f)
<1>1. CASE ObserveInitialize(f)
  BY <1>1 DEF ObserveInitialize, Asks
<1>2. CASE ObserveToolsList(f)
  BY <1>2 DEF ObserveToolsList, Asks
<1>3. CASE ObserveToolsCall(f)
  BY <1>3 DEF ObserveToolsCall, IsCall, Asks
<1>4. CASE ObserveOther(f)
  BY <1>4 DEF ObserveOther, sessionVars
<1> QED
  BY <1>1, <1>2, <1>3, <1>4 DEF ObserveClient

LEMMA ClientObserveKeepsRegistered ==
  ASSUME PipeInv, HeldOnce, Registered, PumpClientObserve
  PROVE  Registered'
<1> DEFINE f == cline[cidx]
<1>1. /\ ObserveClient(f) /\ UNCHANGED <<nextId, spc, sline, sidx, serverOut, clientIn>>
  BY DEF PumpClientObserve, clientVars, pumpServerVars, pipes
<1>2. Observed' = Observed \cup {f} /\ Unseen = Unseen' \cup {f}
  BY ObserveMovesOne
<1>3. Coming' = Coming /\ Past' = Past
  BY <1>1, DownstreamUnchanged
<1>4. /\ ListsRegistered /\ AnswersDue /\ KindsApart /\ InBetween /\ PruneReady
  BY DEF Registered
<1>5. CASE f.type \notin Asks
  <2>1. UNCHANGED <<pendingLst, pendingCal, pendingIni>>
    BY <1>1, <1>5, ObserveRegisters
  <2>2. Pending' = Pending
    BY <2>1 DEF Pending
  <2>3. IdsAmong(Asks, Unseen') \subseteq IdsAmong(Asks, Unseen)
    BY <1>2, IdsAmongUnion
  <2>4. InBetween'
    BY <1>1, <1>3, <1>4, <2>2, <2>3 DEF InBetween
  <2>5. ListsRegistered'
    BY <1>2, <1>4, <1>5, <2>1 DEF ListsRegistered
  <2>6. AnswersDue' /\ KindsApart' /\ PruneReady'
    BY <1>1, <1>3, <1>4, <2>1 DEF AnswersDue, KindsApart, PruneReady, Prunable
  <2> QED
    BY <2>4, <2>5, <2>6 DEF Registered
<1>6. CASE f.type \in Asks
  <2>1. /\ f.id \in 1 .. nextId - 1 /\ f.id \notin IdsAmong(Asks, Observed)
        /\ f.id \notin IdsAmong(Asks, Unseen')
        /\ f.id \notin IdsAmong(Says, Coming \cup Past)
    BY <1>6, ClientFrameAlone
  <2>2. f.id # NoId
    <3>1. nextId \in Nat
      BY DEF HeldOnce, Apart
    <3> QED
      BY <2>1, <3>1 DEF NoId
  <2>3. /\ pendingLst' = IF f.type = "tools/list" THEN pendingLst \cup {f.id} ELSE pendingLst
        /\ \/ pendingCal' = pendingCal
           \/ f.type = "tools/call" /\ pendingCal' = pendingCal \cup {f.id}
        /\ \/ pendingIni' = pendingIni
           \/ f.type = "initialize" /\ pendingIni' = pendingIni \cup {f.id}
    BY <1>1, <2>2, ObserveRegisters DEF WithId
  <2>4. f.id \notin Pending
    <3>1. f \in Unseen /\ f.id \in IdsAmong(Asks, Unseen)
      BY <1>2, <1>6 DEF IdsAmong
    <3> QED
      BY <1>4, <3>1 DEF InBetween
  <2>5. Pending \subseteq Pending' /\ Pending' \subseteq Pending \cup {f.id}
    BY <2>3 DEF Pending
  <2>6. ListsRegistered'
    <3>1. \A g \in Observed : g.type \in Asks => g.id # f.id
      BY <2>1 DEF IdsAmong
    <3>2. f.id \notin pendingLst
      BY <2>4 DEF Pending
    <3> HIDE DEF f
    <3> QED
      BY <1>2, <1>4, <2>3, <3>1, <3>2 DEF ListsRegistered
  <2>7. AnswersDue'
    <3>1. \A g \in Coming : g.type = "response" => g.id # f.id
      BY <2>1 DEF IdsAmong, Says
    <3> QED
      BY <1>3, <1>4, <2>3, <3>1 DEF AnswersDue
  <2>8. KindsApart'
    BY <1>4, <2>3, <2>4 DEF KindsApart, Pending
  <2>9. InBetween'
    <3>1. IdsAmong(Asks, Unseen') \subseteq IdsAmong(Asks, Unseen)
      BY <1>2, IdsAmongUnion
    <3>2. f.id \notin IdsAmong(Says, Past)
      BY <2>1, IdsAmongUnion
    <3> QED
      BY <1>1, <1>3, <1>4, <2>1, <2>5, <3>1, <3>2 DEF InBetween
  <2>10. PruneReady'
    BY <1>1, <1>4 DEF PruneReady, Prunable
  <2> QED
    BY <2>6, <2>7, <2>8, <2>9, <2>10 DEF Registered
<1> QED
  BY <1>5, <1>6

(* One frame of the server: what it answers is no longer pending.          *)
LEMMA ObserveAnswers ==
  ASSUME KindsApart, NEW f, f.id # NoId, f.type = "response", ObserveServer(f)
  PROVE  /\ pendingLst' = pendingLst \ {f.id} /\ pendingCal' = pendingCal \ {f.id}
         /\ pendingIni' = pendingIni \ {f.id}
<1>1. CASE f.id \in pendingIni
  BY <1>1 DEF ObserveServer, Answers, Answered, KindsApart, IsToolsList
<1>2. CASE f.id \in pendingCal
  BY <1>2 DEF ObserveServer, Answers, Answered, KindsApart, IsToolsList
<1>3. CASE f.id \in pendingLst
  BY <1>3 DEF ObserveServer, Answers, Answered, KindsApart, IsToolsList
<1>4. CASE f.id \notin pendingIni \cup pendingCal \cup pendingLst
  BY <1>4 DEF ObserveServer, Answers, Answered, IsToolsList
<1> QED
  BY <1>1, <1>2, <1>3, <1>4

LEMMA ServerObserveKeepsRegistered ==
  ASSUME PipeInv, HeldOnce, Registered, PumpServerObserve
  PROVE  Registered'
<1> DEFINE f == sline[sidx]
<1>1. /\ ObserveServer(f)
      /\ UNCHANGED <<nextId, cline, cidx, clientOut, serverIn, working, sline>>
      /\ spc' = "prune" => IsToolsList(f) /\ sidx' = sidx
  BY DEF PumpServerObserve, ObserveServerFrame, clientVars, serverVars, pipes, pumpClientVars,
         PumpServerAdvance
<1>2. Observed' = Observed /\ Unseen' = Unseen
  BY <1>1, UpstreamUnchanged
<1>3. Past' = Past \cup {f} /\ Coming = Coming' \cup {f}
  BY ServerObserveMoves
<1>4. /\ ListsRegistered /\ AnswersDue /\ KindsApart /\ InBetween
  BY DEF Registered
<1>5. CASE f.type # "response"
  <2>1. UNCHANGED <<pendingLst, pendingCal, pendingIni>> /\ ~IsToolsList(f)
    BY <1>1, <1>5 DEF ObserveServer, Answers, IsToolsList
  <2>2. Pending' = Pending
    BY <2>1 DEF Pending
  <2>3. IdsAmong(Says, Past') = IdsAmong(Says, Past)
    <3>1. IdsAmong(Says, {f}) = {}
      BY <1>5 DEF IdsAmong, Says
    <3> QED
      BY <1>3, <3>1, IdsAmongUnion
  <2>4. InBetween'
    BY <1>1, <1>2, <1>4, <2>2, <2>3 DEF InBetween
  <2>5. ListsRegistered' /\ KindsApart'
    BY <1>2, <1>4, <2>1 DEF ListsRegistered, KindsApart
  <2>6. AnswersDue' /\ PruneReady'
    BY <1>1, <1>3, <1>4, <2>1 DEF AnswersDue, PruneReady
  <2> QED
    BY <2>4, <2>5, <2>6 DEF Registered
<1>6. CASE f.type = "response"
  <2>1. /\ f.id \in 1 .. nextId - 1 /\ f.id \notin IdsAmong(Says, Coming')
        /\ f.id \notin IdsAmong(Asks, Observed \cup Unseen)
    BY <1>6, ServerFrameAlone
  <2>2. f.id # NoId
    <3>1. nextId \in Nat
      BY DEF HeldOnce, Apart
    <3> QED
      BY <2>1, <3>1 DEF NoId
  <2>3. /\ pendingLst' = pendingLst \ {f.id} /\ pendingCal' = pendingCal \ {f.id}
        /\ pendingIni' = pendingIni \ {f.id}
    BY <1>1, <1>4, <1>6, <2>2, ObserveAnswers
  <2>4. Pending' = Pending \ {f.id}
    BY <2>3 DEF Pending
  <2>5. ListsRegistered'
    <3>1. \A g \in Observed : g.type \in Asks => g.id # f.id
      BY <2>1, IdsAmongUnion DEF IdsAmong
    <3> QED
      BY <1>2, <1>4, <2>3, <3>1 DEF ListsRegistered
  <2>6. AnswersDue'
    <3>1. \A g \in Coming' : g.type = "response" => g.id # f.id
      BY <2>1 DEF IdsAmong, Says
    <3> QED
      BY <1>3, <1>4, <2>3, <3>1 DEF AnswersDue
  <2>7. KindsApart'
    BY <1>4, <2>3 DEF KindsApart
  <2>8. InBetween'
    <3>1. IdsAmong(Says, Past') = IdsAmong(Says, Past) \cup IdsAmong(Says, {f})
      BY <1>3, IdsAmongUnion
    <3>2. IdsAmong(Says, {f}) = {f.id}
      BY <1>6 DEF IdsAmong, Says
    <3> QED
      BY <1>1, <1>2, <1>4, <2>4, <3>1, <3>2 DEF InBetween
  <2>9. PruneReady'
    <3>1. SUFFICES ASSUME spc' = "prune"
                   PROVE  Prunable(f) \/ ListErrors = TRUE
      BY <1>1, <1>6 DEF PruneReady, Prunable
    <3>2. f.id \in pendingLst /\ f \in Coming
      BY <1>1, <1>3, <3>1 DEF IsToolsList, Answers
    <3> QED
      BY <1>4, <1>6, <3>2 DEF AnswersDue, Prunable
  <2> QED
    BY <2>5, <2>6, <2>7, <2>8, <2>9 DEF Registered
<1> QED
  BY <1>5, <1>6

LEMMA NextRegistered ==
  PipeInv /\ PipeInv' /\ HeldOnce /\ Finished /\ Registered /\ [Next]_vars => Registered'
<1> SUFFICES ASSUME PipeInv, PipeInv', HeldOnce, Finished, Registered, [Next]_vars
             PROVE  Registered'
  OBVIOUS
<1>1. CASE UNCHANGED vars
  <2>1. /\ UNCHANGED <<cline, cidx, clientOut, serverIn, working>>
        /\ UNCHANGED <<spc, sline, sidx, serverOut, clientIn>>
        /\ UNCHANGED <<pendingLst, pendingCal, pendingIni, nextId>>
    BY <1>1 DEF vars, sessionVars, clientVars, serverVars, pipes, pumpClientVars,
                pumpServerVars
  <2>2. /\ Observed' = Observed /\ Unseen' = Unseen /\ Coming' = Coming /\ Past' = Past
        /\ Pending' = Pending
    BY <2>1, UpstreamUnchanged, DownstreamUnchanged DEF Pending
  <2>3. ListsRegistered' /\ AnswersDue' /\ KindsApart'
    BY <2>1, <2>2 DEF Registered, ListsRegistered, AnswersDue, KindsApart
  <2>4. InBetween' /\ PruneReady'
    BY <2>1, <2>2 DEF Registered, InBetween, PruneReady, Prunable
  <2> QED
    BY <2>3, <2>4 DEF Registered
<1> QED
  BY <1>1, ClientKeepsRegistered, PassKeepsRegistered, AnswerKeepsRegistered,
     PruneKeepsRegistered, ClientObserveKeepsRegistered, ServerObserveKeepsRegistered
     DEF Next, ClientStep, PumpClient, PumpServer
(* The steps that leave the session's pending sets alone, one by one.      *)
Quiet ==
  \/ PumpClientRead \/ PumpClientForward \/ PumpClientCapability \/ PumpClientSwap
  \/ PumpClientNotify \/ ServerRead \/ ServerAsk \/ ServerAnswer
  \/ PumpServerRead \/ PumpServerPrune \/ PumpServerStore \/ PumpServerWrite
  \/ UNCHANGED vars

LEMMA StepKinds ==
  ASSUME [Next]_vars
  PROVE  ClientStep \/ ClientReceive \/ PumpClientObserve \/ PumpServerObserve \/ Quiet
BY DEF Next, ClientStep, PumpClient, PumpServer, Quiet

LEMMA QuietKeeps ==
  ASSUME PipeInv, Finished, Quiet
  PROVE  /\ UNCHANGED <<pendingLst, pendingCal, pendingIni, asked, stale>>
         /\ Pending' = Pending /\ Unseen' = Unseen
<1>1. UNCHANGED <<pendingLst, pendingCal, pendingIni, asked, stale>>
  BY DEF Quiet, PumpClientRead, PumpClientForward, PumpClientCapability, PumpClientSwap,
         PumpClientNotify, ServerRead, ServerAsk, ServerAnswer, PumpServerRead,
         PumpServerPrune, PruneToolsResult, PumpServerStore, PumpServerWrite, vars,
         sessionVars, clientVars
<1>2. ASSUME PumpClientRead \/ PumpClientForward \/ ServerRead \/ ServerAsk \/ ServerAnswer
      PROVE  Unseen' = Unseen
  BY <1>2, ReadKeepsSeen, ForwardKeepsSeen, ServerKeepsSeen
<1>3. ASSUME \/ PumpClientCapability \/ PumpClientSwap \/ PumpClientNotify
             \/ PumpServerRead \/ PumpServerPrune \/ PumpServerStore \/ PumpServerWrite
             \/ UNCHANGED vars
      PROVE  Unseen' = Unseen
  <2>1. UNCHANGED <<cline, cidx, clientOut, serverIn, working>>
    BY <1>3 DEF PumpClientCapability, PumpClientSwap, PumpClientNotify, PumpServerRead,
                PumpServerPrune, PumpServerStore, PumpServerWrite, vars, serverVars, pipes,
                pumpClientVars
  <2> QED
    BY <2>1, UpstreamUnchanged
<1>4. Unseen' = Unseen
  BY <1>2, <1>3 DEF Quiet
<1> QED
  BY <1>1, <1>4 DEF Pending

LEMMA ReceiveKeeps ==
  ASSUME PipeInv, ClientReceive
  PROVE  /\ clientIn # <<>> /\ clientIn' = Tail(clientIn) /\ clientIn \in Seq(Frames)
         /\ ToSet(clientIn) = {Head(clientIn)} \cup ToSet(clientIn')
         /\ UNCHANGED <<pendingLst, pendingCal, pendingIni>>
         /\ Pending' = Pending /\ Unseen' = Unseen /\ Observed' = Observed
<1>1. /\ clientIn # <<>> /\ clientIn' = Tail(clientIn) /\ clientIn \in Seq(Frames)
      /\ UNCHANGED <<pendingLst, pendingCal, pendingIni>>
      /\ UNCHANGED <<cline, cidx, clientOut, serverIn, working>>
  BY LinesTyped DEF ClientReceive, sessionVars, serverVars, pumpClientVars
<1>2. ToSet(clientIn) = {Head(clientIn)} \cup ToSet(clientIn')
  BY <1>1, ToSetPop
<1> QED
  BY <1>1, <1>2, UpstreamUnchanged DEF Pending

(* What observing a frame can add to, and take from, the pending sets.     *)
LEMMA ObserveAdds ==
  ASSUME PumpClientObserve
  PROVE  Pending' \subseteq Pending \cup IdsAmong(Asks, {cline[cidx]})
<1> DEFINE f == cline[cidx]
<1>1. ObserveClient(f)
  BY DEF PumpClientObserve
<1>2. /\ f.type \notin Asks => UNCHANGED <<pendingLst, pendingCal, pendingIni>>
      /\ pendingLst' \subseteq pendingLst \cup {f.id}
      /\ pendingCal' \subseteq pendingCal \cup {f.id}
      /\ pendingIni' \subseteq pendingIni \cup {f.id}
  BY <1>1, ObserveRegisters DEF WithId
<1>3. f.type \in Asks => IdsAmong(Asks, {f}) = {f.id}
  BY DEF IdsAmong
<1> QED
  BY <1>2, <1>3 DEF Pending

-----------------------------------------------------------------------------
(* Every entry is awaited, when no request is cancelled.                   *)

Awaited == Pending \cup IdsAmong(Asks, Unseen) \subseteq {r.id : r \in asked}

LEMMA NextAwaited ==
  ASSUME Cancels = FALSE, PipeInv, PipeInv', HeldOnce, Finished, Registered, Awaited,
         [Next]_vars
  PROVE  Awaited'
<1>1. CASE ClientStep
  <2>1. PICK line : ClientMoves(line)
    BY <1>1, ClientStepMoves
  <2>2. /\ UNCHANGED <<pendingLst, pendingCal, pendingIni, cline, cidx, serverIn, working>>
        /\ asked \subseteq asked' /\ {f \in ToSet(line) : f.type \in Asks} \subseteq asked'
    BY <2>1 DEF ClientMoves, Numbered, sessionVars, serverVars, pumpClientVars
  <2>3. Unseen' = Unseen \cup ToSet(line) /\ Pending' = Pending
    BY <2>1, <2>2, SendMoves DEF ClientMoves, Pending
  <2>4. IdsAmong(Asks, Unseen') = IdsAmong(Asks, Unseen) \cup IdsAmong(Asks, ToSet(line))
    BY <2>3, IdsAmongUnion
  <2>5. IdsAmong(Asks, ToSet(line)) \subseteq {r.id : r \in asked'}
    BY <2>2 DEF IdsAmong
  <2> QED
    BY <2>2, <2>3, <2>4, <2>5 DEF Awaited
<1>2. CASE ClientReceive
  <2> DEFINE f == Head(clientIn)
  <2>1. /\ ToSet(clientIn) = {f} \cup ToSet(clientIn')
        /\ Pending' = Pending /\ Unseen' = Unseen
    BY <1>2, ReceiveKeeps
  <2>2. asked' = asked \ {r \in asked : f.type = "response" /\ r.id = f.id}
    BY <1>2 DEF ClientReceive
  <2>3. f.type = "response" => f.id \notin Pending \cup IdsAmong(Asks, Unseen)
    <3>1. SUFFICES ASSUME f.type = "response"
                   PROVE  f.id \notin Pending \cup IdsAmong(Asks, Unseen)
      OBVIOUS
    <3>2. f \in Past
      BY <2>1 DEF Past
    <3>3. f.id \in IdsAmong(Says, Past) /\ f.id \in IdsAmong(Says, Coming \cup Past)
      BY <3>1, <3>2 DEF IdsAmong, Says
    <3>4. f.id \notin IdsAmong(Asks, Observed \cup Unseen)
      BY <3>3, SidesApart
    <3> QED
      BY <3>3, <3>4, IdsAmongUnion DEF Registered, InBetween
  <2> HIDE DEF f
  <2> QED
    BY <2>1, <2>2, <2>3 DEF Awaited
<1>3. CASE PumpClientObserve
  <2>1. Unseen = Unseen' \cup {cline[cidx]} /\ asked' = asked
    BY <1>3, ObserveMovesOne DEF PumpClientObserve, clientVars
  <2>2. IdsAmong(Asks, Unseen) = IdsAmong(Asks, Unseen') \cup IdsAmong(Asks, {cline[cidx]})
    BY <2>1, IdsAmongUnion
  <2> QED
    BY <1>3, <2>1, <2>2, ObserveAdds DEF Awaited
<1>4. CASE PumpServerObserve
  <2>1. UNCHANGED <<cline, cidx, clientOut, serverIn, working, asked>>
    BY <1>4 DEF PumpServerObserve, clientVars, serverVars, pipes, pumpClientVars
  <2>2. Unseen' = Unseen
    BY <2>1, UpstreamUnchanged
  <2>3. Pending' \subseteq Pending
    BY <1>4 DEF PumpServerObserve, ObserveServerFrame, ObserveServer, Answered, Pending
  <2> QED
    BY <2>1, <2>2, <2>3 DEF Awaited
<1>5. CASE Quiet
  BY <1>5, QuietKeeps DEF Awaited
<1> QED
  BY <1>1, <1>2, <1>3, <1>4, <1>5, StepKinds

(* What the registration of requests rests on.                             *)
RegisterInv == PipeInv /\ HeldOnce /\ Finished /\ Registered

LEMMA InitRegisterInv == Init => RegisterInv
<1>1. Init => Finished
  BY DEF Init, Finished
<1> QED
  BY <1>1, InitPipeInv, InitHeldOnce, InitRegistered DEF RegisterInv

LEMMA NextRegisterInv == RegisterInv /\ [Next]_vars => RegisterInv'
BY NextPipeInv, NextHeldOnce, NextFinished, NextRegistered DEF RegisterInv

(* No entry of the session's pending sets is left behind: its answer is    *)
(* waited for, by a client that cancels nothing (session.go,               *)
(* ObserveServer: the entry goes when the answer is seen).                 *)
THEOREM PendingIsAwaited == ASSUME Cancels = FALSE PROVE Spec => []PendingAwaited
<1>1. Init => Awaited
  <2> SUFFICES ASSUME Init PROVE Awaited
    OBVIOUS
  <2>1. Len(cline) = 0 /\ cidx = 1
    BY DEF Init
  <2>2. cidx .. Len(cline) = {}
    BY <2>1
  <2>3. Unseen = {} /\ Pending = {}
    BY <2>2, ToSetEmpty DEF Init, SessionInit, Unseen, Pending
  <2> QED
    BY <2>3 DEF Awaited, IdsAmong
<1>2. RegisterInv /\ Awaited /\ [Next]_vars => Awaited'
  BY NextAwaited, NextPipeInv DEF RegisterInv
<1>3. Awaited => PendingAwaited
  BY DEF Awaited, PendingAwaited, AnswersComing
<1> QED
  BY <1>1, <1>2, <1>3, InitRegisterInv, NextRegisterInv, PTL DEF Spec

-----------------------------------------------------------------------------
(* Every entry can be removed, unless the server drops its request.        *)

Going == ToSet(cline) \cup ToSet(serverIn) \cup working
ComingBack == ToSet(sline) \cup FramesIn(serverOut)
Live == IdsAmong(Asks, Going) \cup IdsAmong(Says, ComingBack)

LEMMA RemovableIsLive == PipeInv => Removable = Live
<1> SUFFICES ASSUME PipeInv PROVE Removable = Live
  OBVIOUS
<1>1. Going \subseteq Sendable
  <2>1. cline \in Seq(Sendable) /\ serverIn \in Seq(Sendable) /\ working \subseteq Sendable
    BY DEF PipeInv, FramesOK
  <2> QED
    BY <2>1, ToSetTyped DEF Going
<1>2. \A f \in Going : f.type \notin {"response", "cancelled"} <=> f.type \in Asks
  BY <1>1 DEF Sendable, Asks
<1>3. RequestsGoing = {f \in Going : f.type \in Asks}
  BY <1>2 DEF RequestsGoing, Going
<1>4. UNION {ToSet(line) : line \in ToSet(serverOut) \cup {sline}}
        = (UNION {ToSet(line) : line \in ToSet(serverOut)}) \cup ToSet(sline)
  OBVIOUS
<1>5. AnswersComing = {f \in ComingBack : f.type \in Says}
  BY <1>4, FramesInUnion DEF AnswersComing, ComingBack, Says
<1> QED
  BY <1>3, <1>5 DEF Removable, Live, IdsAmong

LEMMA LiveUnchanged ==
  ASSUME UNCHANGED <<cline, serverIn, working, sline, serverOut>>
  PROVE  Live' = Live
BY DEF Live, Going, ComingBack

LEMMA LiveMonotone ==
  ASSUME IdsAmong(Asks, Going) \subseteq IdsAmong(Asks, Going') \cup IdsAmong(Says, ComingBack'),
         IdsAmong(Says, ComingBack) \subseteq IdsAmong(Says, ComingBack')
  PROVE  Live \subseteq Live'
BY DEF Live

(* The pump towards the server passes requests on.                         *)
LEMMA PumpClientKeepsLive ==
  ASSUME PipeInv, PumpClient
  PROVE  Live \subseteq Live'
<1>1. CASE PumpClientRead
  <2>1. /\ cline = <<>> /\ UNCHANGED <<serverIn, working, sline, serverOut>>
    BY <1>1 DEF PumpClientRead, serverVars, pumpServerVars, PipeInv, ControlOK
  <2>2. Going \subseteq Going' /\ ComingBack' = ComingBack
    BY <2>1, ToSetEmpty DEF Going, ComingBack
  <2>3. IdsAmong(Asks, Going) \subseteq IdsAmong(Asks, Going')
    BY <2>2 DEF IdsAmong
  <2> QED
    BY <2>2, <2>3, LiveMonotone
<1>2. CASE PumpClientForward
  <2>1. /\ serverIn' = serverIn \o cline /\ UNCHANGED <<working, sline, serverOut>>
        /\ serverIn \in Seq(Frames) /\ cline \in Seq(Frames)
    BY <1>2, LinesTyped DEF PumpClientForward, serverVars, pumpServerVars
  <2>2. ToSet(serverIn') = ToSet(serverIn) \cup ToSet(cline)
    BY <2>1, ToSetConcat
  <2>3. Going \subseteq Going' /\ ComingBack' = ComingBack
    BY <2>1, <2>2 DEF Going, ComingBack
  <2>4. IdsAmong(Asks, Going) \subseteq IdsAmong(Asks, Going')
    BY <2>3 DEF IdsAmong
  <2> QED
    BY <2>3, <2>4, LiveMonotone
<1>3. CASE PumpClientObserve \/ PumpClientCapability \/ PumpClientSwap \/ PumpClientNotify
  <2>1. UNCHANGED <<cline, serverIn, working, sline, serverOut>>
    BY <1>3 DEF PumpClientObserve, PumpClientCapability, PumpClientSwap, PumpClientNotify,
                serverVars, pipes, pumpServerVars
  <2> QED
    BY <2>1, LiveUnchanged
<1> QED
  BY <1>1, <1>2, <1>3 DEF PumpClient

(* The server answers what it serves, with the same ids.                   *)
LEMMA ServerSendKeepsLive ==
  ASSUME PipeInv, HeldOnce, ServerAnswer \/ ServerAsk
  PROVE  Live \subseteq Live'
<1>1. UNCHANGED <<cline, serverIn, sline>> /\ serverOut \in Seq(Seq(Frames))
  BY LinesTyped DEF ServerAnswer, ServerAsk, pumpClientVars, pumpServerVars
<1>2. CASE ServerAnswer
  <2>1. PICK line \in Seq(Frames) \ {<<>>}, served \in SUBSET working :
          /\ working' = working \ served
          /\ serverOut' = Append(serverOut, line)
          /\ IdsAmong(Says, ToSet(line)) = {r.id : r \in served}
    BY <1>2, AnsweredLine
  <2>2. FramesIn(serverOut') = FramesIn(serverOut) \cup ToSet(line)
    BY <1>1, <2>1, FramesInAppend
  <2>3. ComingBack' = ComingBack \cup ToSet(line)
    BY <1>1, <2>2 DEF ComingBack
  <2>4. IdsAmong(Says, ComingBack') = IdsAmong(Says, ComingBack) \cup {r.id : r \in served}
    BY <2>1, <2>3, IdsAmongUnion
  <2>5. Going \subseteq Going' \cup served
    BY <1>1, <2>1 DEF Going
  <2>6. IdsAmong(Asks, Going) \subseteq IdsAmong(Asks, Going') \cup {r.id : r \in served}
    BY <2>5 DEF IdsAmong
  <2> QED
    BY <2>4, <2>6, LiveMonotone
<1>3. CASE ServerAsk
  <2>1. PICK id \in unasked :
          serverOut' = Append(serverOut, <<Request("sampling", id, NoTool)>>)
    BY <1>3 DEF ServerAsk
  <2> DEFINE f == Request("sampling", id, NoTool)
  <2>2. f \in Frames
    <3>1. id \in Nat
      BY DEF PipeInv, FramesOK
    <3> QED
      BY <3>1, FrameTyped, EmptyListTyped DEF Request, Frame, FrameTypes, NoTool
  <2> HIDE DEF f
  <2>3. FramesIn(serverOut') = FramesIn(serverOut) \cup ToSet(<<f>>)
    <3>1. <<f>> \in Seq(Frames)
      BY <2>2
    <3> QED
      BY <1>1, <2>1, <3>1, FramesInAppend DEF f
  <2>4. working' = working
    BY <1>3 DEF ServerAsk
  <2>5. Going' = Going /\ ComingBack \subseteq ComingBack'
    BY <1>1, <2>3, <2>4 DEF Going, ComingBack
  <2>6. IdsAmong(Says, ComingBack) \subseteq IdsAmong(Says, ComingBack')
    BY <2>5 DEF IdsAmong
  <2> QED
    BY <2>5, <2>6, LiveMonotone
<1> QED
  BY <1>2, <1>3

(* The pump towards the client changes no answer's id; what it has written *)
(* is past.                                                                *)
LEMMA PumpServerKeepsLive ==
  ASSUME PipeInv, Finished, PumpServer
  PROVE  Live \subseteq Live' \cup IdsAmong(Says, Past')
<1>1. UNCHANGED <<cline, serverIn, working>>
  BY DEF PumpServer, PumpServerRead, PumpServerObserve, PumpServerPrune, PumpServerStore,
         PumpServerWrite, pipes, serverVars, pumpClientVars
<1>2. Going' = Going
  BY <1>1 DEF Going
<1>3. CASE PumpServerRead
  <2>1. /\ serverOut # <<>> /\ serverOut' = Tail(serverOut) /\ sline' = Head(serverOut)
        /\ sline = <<>> /\ serverOut \in Seq(Seq(Frames))
    BY <1>3, LinesTyped DEF PumpServerRead, PipeInv, ControlOK
  <2>2. FramesIn(serverOut) = ToSet(sline') \cup FramesIn(serverOut')
    BY <2>1, FramesInPop
  <2>3. ComingBack' = ComingBack
    BY <2>1, <2>2, ToSetEmpty DEF ComingBack
  <2> QED
    BY <1>2, <2>3 DEF Live
<1>4. CASE PumpServerObserve \/ PumpServerStore
  <2>1. UNCHANGED <<sline, serverOut>>
    BY <1>4 DEF PumpServerObserve, PumpServerStore, pipes
  <2> QED
    BY <1>1, <2>1, LiveUnchanged
<1>5. CASE PumpServerPrune
  <2>1. /\ sline \in Seq(Frames) /\ sline' \in Seq(Frames) /\ Len(sline') = Len(sline)
        /\ \A j \in 1 .. Len(sline) :
             sline'[j].type = sline[j].type /\ sline'[j].id = sline[j].id
        /\ serverOut' = serverOut
    BY <1>5, LinesTyped, PruneChangesList DEF PumpServerPrune, pipes
  <2>2. /\ ToSet(sline) = {sline[j] : j \in 1 .. Len(sline)}
        /\ ToSet(sline') = {sline'[j] : j \in 1 .. Len(sline)}
    BY <2>1, ToSetTyped
  <2>3. IdsAmong(Says, ToSet(sline')) = IdsAmong(Says, ToSet(sline))
    BY <2>1, <2>2 DEF IdsAmong
  <2>4. IdsAmong(Says, ComingBack') = IdsAmong(Says, ComingBack)
    <3>1. IdsAmong(Says, ComingBack)
            = IdsAmong(Says, ToSet(sline)) \cup IdsAmong(Says, FramesIn(serverOut))
      BY IdsAmongUnion DEF ComingBack
    <3>2. ComingBack' = ToSet(sline') \cup FramesIn(serverOut)
      BY <2>1 DEF ComingBack
    <3>3. IdsAmong(Says, ComingBack')
            = IdsAmong(Says, ToSet(sline')) \cup IdsAmong(Says, FramesIn(serverOut))
      BY <3>2, IdsAmongUnion
    <3> QED
      BY <2>3, <3>1, <3>3
  <2> QED
    BY <1>2, <2>4 DEF Live
<1>6. CASE PumpServerWrite
  <2>1. /\ clientIn' = clientIn \o sline /\ serverOut' = serverOut
        /\ clientIn \in Seq(Frames) /\ sline \in Seq(Frames)
    BY <1>6, LinesTyped DEF PumpServerWrite
  <2>2. ToSet(sline) \subseteq ToSet(clientIn')
    BY <2>1, ToSetConcat
  <2>3. ToSet(sline) \subseteq Past' /\ ComingBack \subseteq ComingBack' \cup ToSet(sline)
    BY <2>1, <2>2 DEF Past, ComingBack
  <2>4. IdsAmong(Says, ComingBack) \subseteq IdsAmong(Says, ComingBack') \cup IdsAmong(Says, Past')
    BY <2>3 DEF IdsAmong
  <2> QED
    BY <1>2, <2>4 DEF Live
<1> QED
  BY <1>3, <1>4, <1>5, <1>6 DEF PumpServer

(* A request that is read is served; a cancellation ends one.              *)
LEMMA ServerReadEnds ==
  ASSUME PipeInv, ServerRead, NEW id \in Live, id \notin Live'
  PROVE  /\ serverIn # <<>> /\ serverIn' = Tail(serverIn)
         /\ Head(serverIn).type = "cancelled" /\ Head(serverIn).arg = id
<1> DEFINE f == Head(serverIn)
<1>1. /\ serverIn # <<>> /\ serverIn' = Tail(serverIn) /\ serverIn \in Seq(Sendable)
      /\ UNCHANGED <<cline, sline, serverOut>>
  BY DEF ServerRead, pumpClientVars, pumpServerVars, PipeInv, FramesOK
<1>2. ToSet(serverIn) = {f} \cup ToSet(serverIn')
  BY <1>1, ToSetPop
<1>3. ComingBack' = ComingBack
  BY <1>1 DEF ComingBack
<1>4. \/ f.type = "cancelled" /\ working' = {r \in working : r.id # f.arg}
      \/ f.type = "response" /\ working' = working
      \/ f.type \notin {"cancelled", "response"} /\ working' = working \cup {f}
  BY DEF ServerRead
<1> HIDE DEF f
<1>5. PICK g \in Going : g.type \in Asks /\ g.id = id /\ g \notin Going'
  BY <1>3 DEF Live, IdsAmong
<1>6. g = f \/ g \in working \ working'
  BY <1>1, <1>2, <1>5 DEF Going
<1>7. g # f
  BY <1>4, <1>5 DEF Going, Asks
<1>8. f.type = "cancelled" /\ f.arg = id
  BY <1>4, <1>5, <1>6, <1>7
<1> QED
  BY <1>1, <1>8 DEF f

(* Entries leak through cancellations the server heeds, and through        *)
(* nothing else, whatever the interleaving, the batches and the ids of the *)
(* server (session.go, ObserveClient and ObserveServer).                   *)
THEOREM StrandedByCancelOnly == Spec => OnlyCancelStrands
<1> DEFINE Excused(id) ==
      \/ id \in Pending \ Removable
      \/ /\ serverIn # <<>> /\ serverIn' = Tail(serverIn)
         /\ Head(serverIn).type = "cancelled" /\ Head(serverIn).arg = id
<1>1. ASSUME RegisterInv, RegisterInv', Removable = Live, Removable' = Live', [Next]_vars,
             NEW id \in Pending' \ Removable'
      PROVE  Excused(id)
  <2>1. /\ PipeInv /\ PipeInv' /\ HeldOnce /\ Finished
    BY <1>1 DEF RegisterInv
  <2>2. Removable = Live /\ Removable' = Live'
    BY <1>1
  <2>3. id \notin IdsAmong(Says, Past')
    BY <1>1 DEF RegisterInv, Registered, InBetween
  <2>4. CASE PumpClientObserve
    <3>1. cline' = cline /\ cidx \in 1 .. Len(cline) /\ cline \in Seq(Sendable)
      BY <2>1, <2>4, ObserveMovesOne DEF PumpClientObserve, pipes
    <3>2. cline[cidx] \in Going'
      BY <3>1, ToSetTyped DEF Going
    <3>3. IdsAmong(Asks, {cline[cidx]}) \subseteq Live'
      BY <3>2 DEF Live, IdsAmong
    <3>4. id \in Pending
      BY <1>1, <2>2, <2>4, <3>3, ObserveAdds
    <3>5. Live \subseteq Live'
      BY <2>1, <2>4, PumpClientKeepsLive DEF PumpClient
    <3> QED
      BY <1>1, <2>2, <3>4, <3>5
  <2>5. ASSUME Pending' \subseteq Pending, Live \subseteq Live' \cup IdsAmong(Says, Past')
        PROVE  Excused(id)
    BY <1>1, <2>2, <2>3, <2>5
  <2>6. CASE ClientStep
    <3>1. PICK line : ClientMoves(line)
      BY <2>1, <2>6, ClientStepMoves
    <3>2. /\ UNCHANGED <<pendingLst, pendingCal, pendingIni>>
          /\ UNCHANGED <<cline, serverIn, working, sline, serverOut>>
      BY <3>1 DEF ClientMoves, sessionVars, serverVars, pumpClientVars, pumpServerVars
    <3>3. Pending' = Pending /\ Live' = Live
      BY <3>2, LiveUnchanged DEF Pending
    <3> QED
      BY <2>5, <3>3
  <2>7. CASE ClientReceive
    <3>1. UNCHANGED <<cline, serverIn, working, sline, serverOut>>
      BY <2>7 DEF ClientReceive, serverVars, pumpClientVars, pumpServerVars
    <3>2. Pending' = Pending /\ Live' = Live
      BY <2>1, <2>7, <3>1, LiveUnchanged, ReceiveKeeps
    <3> QED
      BY <2>5, <3>2
  <2>8. CASE PumpServerObserve
    <3>1. Pending' \subseteq Pending
      BY <2>8 DEF PumpServerObserve, ObserveServerFrame, ObserveServer, Answered, Pending
    <3>2. Live \subseteq Live' \cup IdsAmong(Says, Past')
      BY <2>1, <2>8, PumpServerKeepsLive DEF PumpServer
    <3> QED
      BY <2>5, <3>1, <3>2
  <2>9. CASE Quiet
    <3>1. Pending' = Pending
      BY <2>1, <2>9, QuietKeeps
    <3>2. CASE ServerRead
      <4>1. CASE id \in Live
        BY <1>1, <2>1, <2>2, <3>2, <4>1, ServerReadEnds
      <4>2. CASE id \notin Live
        BY <1>1, <2>2, <3>1, <4>2
      <4> QED
        BY <4>1, <4>2
    <3>3. CASE \/ PumpClientRead \/ PumpClientForward \/ PumpClientCapability
               \/ PumpClientSwap \/ PumpClientNotify
      <4>1. Live \subseteq Live'
        BY <2>1, <3>3, PumpClientKeepsLive DEF PumpClient
      <4> QED
        BY <2>5, <3>1, <4>1
    <3>4. CASE ServerAsk \/ ServerAnswer
      <4>1. Live \subseteq Live'
        BY <2>1, <3>4, ServerSendKeepsLive
      <4> QED
        BY <2>5, <3>1, <4>1
    <3>5. CASE PumpServerRead \/ PumpServerPrune \/ PumpServerStore \/ PumpServerWrite
      <4>1. Live \subseteq Live' \cup IdsAmong(Says, Past')
        BY <2>1, <3>5, PumpServerKeepsLive DEF PumpServer
      <4> QED
        BY <2>5, <3>1, <4>1
    <3>6. CASE UNCHANGED vars
      <4>1. UNCHANGED <<cline, serverIn, working, sline, serverOut>>
        BY <3>6 DEF vars, serverVars, pipes, pumpClientVars, pumpServerVars
      <4>2. Live' = Live
        BY <4>1, LiveUnchanged
      <4> QED
        BY <2>5, <3>1, <4>2
    <3> QED
      BY <2>9, <3>2, <3>3, <3>4, <3>5, <3>6 DEF Quiet
  <2> QED
    BY <1>1, <2>4, <2>6, <2>7, <2>8, <2>9, StepKinds
<1>2. ASSUME RegisterInv, RegisterInv', Removable = Live, Removable' = Live', [Next]_vars
      PROVE  \A id \in Pending' \ Removable' : Excused(id)
  <2> HIDE DEF Excused
  <2> QED
    BY <1>1, <1>2
<1>3. RegisterInv => Removable = Live
  BY RemovableIsLive DEF RegisterInv
<1>4. RegisterInv /\ RegisterInv' /\ Removable = Live /\ (Removable = Live)' /\ [Next]_vars
        => [\A id \in Pending' \ Removable' : Excused(id)]_vars
  <2> HIDE DEF Excused
  <2> QED
    BY <1>2
<1> QED
  BY <1>3, <1>4, InitRegisterInv, NextRegisterInv, PTL DEF Spec, OnlyCancelStrands
=============================================================================
