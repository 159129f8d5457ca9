-------------------------- MODULE LifecycleProofs --------------------------
(***************************************************************************)
(* Nothing the child wrote is lost when a session ends, for every pipe,    *)
(* every limit and every way to end.                                       *)
(*                                                                         *)
(* The argument: a chunk is in the pipe, in the reader or with the client  *)
(* (Conserved), and pumpServer is only done with the first two empty and   *)
(* the child gone, or because it gave up (DoneMeansDrained).               *)
(***************************************************************************)
EXTENDS Lifecycle, SequenceTheorems, FiniteSetTheorems, TLAPS

Conserved == wrote = delivered + got + Len(stdout)

FrameWithinLimit == spc # "done" => got <= MaxFrame

DoneMeansDrained ==
  spc = "done" => StoppedEarly \/ (child # "running" /\ stdout = <<>> /\ got = 0)

RunWaitsForPump ==
  /\ run # "pumping" => spc = "done"
  /\ run = "returned" => child # "running"

IInv ==
  LifecycleTypeOK /\ Conserved /\ FrameWithinLimit /\ DoneMeansDrained /\ RunWaitsForPump

(* The chunks of a frame are a sequence of Booleans.                       *)
LEMMA ChunksType == \A size \in FrameSizes : Chunks(size) \in Seq(BOOLEAN)
BY LifecycleAssumption DEF Chunks

(* The four flags are Booleans, whatever the step.                         *)
LEMMA FlagsIInv == FlagsOK /\ Next => FlagsOK'
<1> SUFFICES ASSUME FlagsOK, Next PROVE FlagsOK'
  OBVIOUS
<1>1. CASE ClientSends \/ ClientCloses \/ ClientHangsUp
  BY <1>1, Zenon DEF ClientSends, ClientCloses, ClientHangsUp, childState, proxyState,
     FlagsOK
<1>2. CASE Child \/ ChildCrashes
  BY <1>2, Zenon DEF Child, ChildReads, ChildWrites, ChildExits, ChildCrashes, ChildDies,
     clientState, proxyState, FlagsOK
<1>3. CASE PumpClient
  BY <1>3, Zenon DEF PumpClient, PumpClientRead, PumpClientWrite, PumpClientClose,
     clientState, childState, FlagsOK
<1>4. CASE PumpServer
  BY <1>4, Zenon DEF PumpServer, PumpServerChunk, PumpServerEOF, PumpServerWrite,
     clientState, childState, FlagsOK
<1>5. CASE Main \/ Cancel \/ Watcher
  BY <1>5, Zenon DEF Main, RunWait, RunReturn, Cancel, Watcher, WatcherKills,
     WatcherStops, ChildDies, clientState, childState, FlagsOK
<1> QED
  BY <1>1, <1>2, <1>3, <1>4, <1>5 DEF Next

LEMMA InitIInv == Init => IInv
<1> SUFFICES ASSUME Init PROVE IInv
  OBVIOUS
<1>1. LifecycleTypeOK
  <2>1. /\ clientIn \in Seq(FrameSizes) /\ stdin \in Seq({1})
        /\ owed \in Seq(BOOLEAN) /\ stdout \in Seq(BOOLEAN)
        /\ Len(stdin) = 0 /\ Len(stdout) = 0
    BY EmptySeq DEF Init
  <2>2. FlagsOK
    BY Zenon DEF Init, FlagsOK
  <2> QED
    BY <2>1, <2>2, LifecycleAssumption DEF Init, LifecycleTypeOK
<1>2. Conserved /\ FrameWithinLimit /\ DoneMeansDrained /\ RunWaitsForPump
  BY LifecycleAssumption
     DEF Init, Conserved, FrameWithinLimit, DoneMeansDrained, RunWaitsForPump
<1> QED
  BY <1>1, <1>2 DEF IInv

(* The client's steps reach no further than its own pipe.                  *)
LEMMA ClientIInv ==
  ASSUME IInv, FlagsOK', ClientSends \/ ClientCloses \/ ClientHangsUp
  PROVE  IInv'
<1>1. CASE ClientSends
  <2>1. clientIn' \in Seq(FrameSizes) /\ sent' \in Nat
    BY <1>1 DEF ClientSends, IInv, LifecycleTypeOK
  <2> QED
    BY <1>1, <2>1 DEF ClientSends, childState, proxyState, IInv, LifecycleTypeOK, Conserved,
       FrameWithinLimit, DoneMeansDrained, RunWaitsForPump, StoppedEarly
<1>2. CASE ClientCloses
  BY <1>2 DEF ClientCloses, childState, proxyState, IInv, LifecycleTypeOK, Conserved,
     FrameWithinLimit, DoneMeansDrained, RunWaitsForPump, StoppedEarly
<1>3. CASE ClientHangsUp
  BY <1>3 DEF ClientHangsUp, childState, proxyState, IInv, LifecycleTypeOK, Conserved,
     FrameWithinLimit, DoneMeansDrained, RunWaitsForPump, StoppedEarly
<1> QED
  BY <1>1, <1>2, <1>3

(* The child writes while it runs only.                                    *)
LEMMA ChildIInv ==
  ASSUME IInv, FlagsOK', Child \/ ChildCrashes
  PROVE  IInv'
<1>1. CASE ChildReads
  <2>1. stdin' \in Seq({1}) /\ Len(stdin') <= PipeSize /\ owed' \in Seq(BOOLEAN)
    BY <1>1, ChunksType, LifecycleAssumption DEF ChildReads, IInv, LifecycleTypeOK
  <2> QED
    BY <1>1, <2>1 DEF ChildReads, clientState, proxyState, IInv, LifecycleTypeOK, Conserved,
       FrameWithinLimit, DoneMeansDrained, RunWaitsForPump, StoppedEarly
<1>2. CASE ChildWrites
  <2>1. /\ stdout' \in Seq(BOOLEAN) /\ Len(stdout') = Len(stdout) + 1
        /\ Len(stdout') <= PipeSize /\ owed' \in Seq(BOOLEAN)
        /\ wrote' = wrote + 1 /\ child = "running"
    BY <1>2, LifecycleAssumption DEF ChildWrites, IInv, LifecycleTypeOK
  <2>2. LifecycleTypeOK'
    BY <1>2, <2>1 DEF ChildWrites, clientState, proxyState, IInv, LifecycleTypeOK
  <2>3. Conserved'
    BY <1>2, <2>1 DEF ChildWrites, clientState, proxyState, IInv, LifecycleTypeOK, Conserved
  <2> QED
    BY <1>2, <2>1, <2>2, <2>3 DEF ChildWrites, clientState, proxyState, IInv,
       FrameWithinLimit, DoneMeansDrained, RunWaitsForPump, StoppedEarly
<1>3. CASE ChildExits
  BY <1>3 DEF ChildExits, clientState, proxyState, IInv, LifecycleTypeOK, Conserved,
     FrameWithinLimit, DoneMeansDrained, RunWaitsForPump, StoppedEarly
<1>4. CASE ChildCrashes
  BY <1>4, LifecycleAssumption DEF ChildCrashes, ChildDies, clientState, proxyState,
     IInv, LifecycleTypeOK, Conserved, FrameWithinLimit, DoneMeansDrained, RunWaitsForPump,
     StoppedEarly
<1> QED
  BY <1>1, <1>2, <1>3, <1>4 DEF Child

LEMMA PumpClientIInv ==
  ASSUME IInv, FlagsOK', PumpClient
  PROVE  IInv'
<1>1. CASE PumpClientRead
  <2>1. cpc' \in {"read", "write", "close", "done"}
    BY <1>1 DEF PumpClientRead
  <2>2. clientIn' \in Seq(FrameSizes)
    BY <1>1, HeadTailProperties DEF PumpClientRead, IInv, LifecycleTypeOK
  <2> QED
    BY <1>1, <2>1, <2>2 DEF PumpClientRead, childState, IInv, LifecycleTypeOK, Conserved,
       FrameWithinLimit, DoneMeansDrained, RunWaitsForPump, StoppedEarly
<1>2. CASE PumpClientWrite
  <2>1. /\ stdin' \in Seq({1}) /\ Len(stdin') <= PipeSize /\ forwarded' \in Nat
        /\ cpc' \in {"read", "write", "close", "done"}
    <3>1. CASE child = "running"
      <4>1. stdin \in Seq({1}) /\ Len(stdin) \in Nat
        BY LenProperties DEF IInv, LifecycleTypeOK
      <4>2. Append(stdin, 1) \in Seq({1}) /\ Len(Append(stdin, 1)) = Len(stdin) + 1
        BY <4>1, AppendProperties
      <4> QED
        BY <1>2, <3>1, <4>1, <4>2, LifecycleAssumption, SMTT(20)
           DEF PumpClientWrite, IInv, LifecycleTypeOK
    <3>2. CASE child # "running"
      BY <1>2, <3>2 DEF PumpClientWrite, IInv, LifecycleTypeOK
    <3> QED
      BY <3>1, <3>2
  <2> QED
    BY <1>2, <2>1 DEF PumpClientWrite, clientState, IInv, LifecycleTypeOK, Conserved,
       FrameWithinLimit, DoneMeansDrained, RunWaitsForPump, StoppedEarly
<1>3. CASE PumpClientClose
  BY <1>3 DEF PumpClientClose, clientState, IInv, LifecycleTypeOK, Conserved,
     FrameWithinLimit, DoneMeansDrained, RunWaitsForPump, StoppedEarly
<1> QED
  BY <1>1, <1>2, <1>3 DEF PumpClient

(* pumpServer moves chunks from the pipe to its reader and from there to   *)
(* the client.                                                             *)
LEMMA PumpServerIInv ==
  ASSUME IInv, FlagsOK', PumpServer
  PROVE  IInv'
<1>1. CASE PumpServerChunk
  <2>1. /\ stdout' \in Seq(BOOLEAN) /\ Len(stdout') = Len(stdout) - 1
        /\ Len(stdout) \in Nat /\ got' = got + 1 /\ got \in 0 .. MaxFrame
    <3>1. stdout' = Tail(stdout) /\ stdout # <<>> /\ got' = got + 1 /\ spc = "read"
      BY <1>1 DEF PumpServerChunk
    <3>2. stdout \in Seq(BOOLEAN)
      BY DEF IInv, LifecycleTypeOK
    <3>3. got \in 0 .. MaxFrame
      BY <3>1, LifecycleAssumption DEF IInv, LifecycleTypeOK, FrameWithinLimit
    <3>4. stdout' \in Seq(BOOLEAN) /\ Len(stdout') = Len(stdout) - 1
      BY <3>1, <3>2, HeadTailProperties
    <3> QED
      BY <3>1, <3>2, <3>3, <3>4, LenProperties
  <2>2. /\ spc' \in {"read", "write", "done"}
        /\ spc' = "done" => got + 1 > MaxFrame
        /\ got + 1 > MaxFrame => spc' = "done"
    <3>1. spc' = IF got + 1 > MaxFrame THEN "done"
                 ELSE IF Head(stdout) THEN "write" ELSE "read"
      BY <1>1 DEF PumpServerChunk
    <3>2. CASE got + 1 > MaxFrame
      BY <3>1, <3>2
    <3>3. CASE ~(got + 1 > MaxFrame)
      <4>1. spc' = "write" \/ spc' = "read"
        BY <3>1, <3>3, Zenon
      <4> QED
        BY <3>3, <4>1
    <3> QED
      BY <3>2, <3>3
  <2>3. UNCHANGED <<clientState, child, stdin, stdinOpen, owed, wrote, cpc,
                    forwarded, run, cancelled, watch>>
    BY <1>1 DEF PumpServerChunk
  <2>4. LifecycleTypeOK'
    BY <2>1, <2>2, <2>3, LifecycleAssumption DEF clientState, IInv, LifecycleTypeOK
  <2>5. Conserved'
    BY <2>1, <2>3 DEF clientState, IInv, LifecycleTypeOK, Conserved
  <2>6. FrameWithinLimit' /\ DoneMeansDrained'
    BY <2>1, <2>2, LifecycleAssumption
       DEF IInv, LifecycleTypeOK, FrameWithinLimit, DoneMeansDrained, StoppedEarly
  <2>7. RunWaitsForPump'
    <3>1. spc # "done" /\ run' = run /\ child' = child
      BY <1>1 DEF PumpServerChunk
    <3> QED
      BY <3>1 DEF IInv, RunWaitsForPump
  <2> QED
    BY <2>4, <2>5, <2>6, <2>7 DEF IInv
<1>2. CASE PumpServerEOF
  BY <1>2 DEF PumpServerEOF, clientState, childState, IInv, LifecycleTypeOK, Conserved,
     FrameWithinLimit, DoneMeansDrained, RunWaitsForPump, StoppedEarly
<1>3. CASE PumpServerWrite
  <2>1. CASE clientReads
    <3>1. /\ delivered' = delivered + got /\ answers' = answers + 1
          /\ got' = 0 /\ spc' = "read" /\ clientReads'
      BY <1>3, <2>1 DEF PumpServerWrite
    <3> QED
      BY <1>3, <3>1, LifecycleAssumption DEF PumpServerWrite, childState, IInv,
         LifecycleTypeOK, Conserved, FrameWithinLimit, DoneMeansDrained, RunWaitsForPump
  <2>2. CASE ~clientReads
    BY <1>3, <2>2 DEF PumpServerWrite, childState, IInv, LifecycleTypeOK, Conserved,
       FrameWithinLimit, DoneMeansDrained, RunWaitsForPump, StoppedEarly
  <2> QED
    BY <2>1, <2>2
<1> QED
  BY <1>1, <1>2, <1>3 DEF PumpServer

LEMMA RunIInv ==
  ASSUME IInv, FlagsOK', Main \/ Cancel \/ Watcher
  PROVE  IInv'
<1>1. CASE Main
  <2>1. /\ UNCHANGED <<clientState, childState, cpc, spc, forwarded, got, watch>>
        /\ run' \in {"waiting", "returned"} /\ spc = "done"
        /\ run' = "returned" => child # "running"
    <3>1. CASE RunWait
      BY <3>1 DEF RunWait
    <3>2. CASE RunReturn
      BY <3>2 DEF RunReturn, IInv, RunWaitsForPump
    <3> QED
      BY <1>1, <3>1, <3>2 DEF Main
  <2> QED
    BY <2>1 DEF clientState, childState, IInv, LifecycleTypeOK, Conserved, FrameWithinLimit,
       DoneMeansDrained, RunWaitsForPump, StoppedEarly
<1>2. CASE Cancel \/ WatcherStops
  <2>1. /\ UNCHANGED <<clientState, childState, cpc, spc, forwarded, got, run>>
        /\ watch' \in {"watching", "done"}
    <3>1. CASE Cancel
      <4>1. UNCHANGED <<clientState, childState, cpc, spc, forwarded, got, run, watch>>
        BY <3>1, Zenon DEF Cancel
      <4> QED
        BY <4>1 DEF IInv, LifecycleTypeOK
    <3>2. CASE WatcherStops
      BY <3>2 DEF WatcherStops
    <3> QED
      BY <1>2, <3>1, <3>2
  <2> QED
    BY <2>1 DEF clientState, childState, IInv, LifecycleTypeOK, Conserved, FrameWithinLimit,
       DoneMeansDrained, RunWaitsForPump, StoppedEarly
<1>3. CASE WatcherKills
  <2>1. /\ child' \in {"running", "exited", "crashed", "killed"}
        /\ child' # "running"
        /\ stdin' = <<>> /\ owed' = <<>> /\ watch' = "done"
        /\ UNCHANGED <<clientState, stdinOpen, stdout, wrote, cpc, spc, forwarded,
                       got, run, cancelled>>
    BY <1>3 DEF WatcherKills, ChildDies, IInv, LifecycleTypeOK
  <2>2. stdin' \in Seq({1}) /\ Len(stdin') = 0 /\ owed' \in Seq(BOOLEAN)
    BY <2>1, EmptySeq
  <2>3. LifecycleTypeOK'
    BY <2>1, <2>2, LifecycleAssumption DEF clientState, IInv, LifecycleTypeOK
  <2> QED
    BY <2>1, <2>3 DEF clientState, IInv, Conserved, FrameWithinLimit, DoneMeansDrained,
       RunWaitsForPump, StoppedEarly
<1> QED
  BY <1>1, <1>2, <1>3 DEF Watcher

LEMMA NextIInv == IInv /\ [Next]_vars => IInv'
<1>1. IInv /\ UNCHANGED vars => IInv'
  BY DEF vars, clientState, childState, proxyState, IInv, LifecycleTypeOK, FlagsOK, Conserved,
     FrameWithinLimit, DoneMeansDrained, RunWaitsForPump, StoppedEarly
<1>2. IInv /\ Next => FlagsOK'
  BY FlagsIInv DEF IInv, LifecycleTypeOK
<1> QED
  BY <1>1, <1>2, ClientIInv, ChildIInv, PumpClientIInv, PumpServerIInv, RunIInv DEF Next

(* The state is well typed: no more than the limit and one chunk of a      *)
(* frame is ever held in memory.                                           *)
THEOREM TypeCorrect == Spec => []LifecycleTypeOK
<1>1. IInv => LifecycleTypeOK
  BY DEF IInv
<1> QED
  BY <1>1, InitIInv, NextIInv, PTL DEF Spec

(* Run returns with everything the child wrote delivered, unless           *)
(* pumpServer gave up.                                                     *)
THEOREM OutputDelivered == Spec => []NothingLost
<1>1. IInv => NothingLost
  BY DEF IInv, LifecycleTypeOK, Conserved, DoneMeansDrained, RunWaitsForPump, NothingLost
<1> QED
  BY <1>1, InitIInv, NextIInv, PTL DEF Spec

-----------------------------------------------------------------------------
(* Graceful shutdown.  A request that was forwarded is in the child's      *)
(* stdin, is being answered, or its answer is in the pipe, in the reader   *)
(* or with the client; frames are counted by the chunk with the newline.   *)

Ends(chunks) == {i \in DOMAIN chunks : chunks[i]}

Answering == IF owed = <<>> THEN 0 ELSE 1
Writing == IF spc = "write" THEN 1 ELSE 0

Orderly == child \in {"running", "exited"} /\ ~StoppedEarly

EachForwardedOnce ==
  forwarded = Len(stdin) + Answering + Cardinality(Ends(stdout)) + Writing + answers

(* Only the last chunk the child still owes ends its frame, and what lies  *)
(* in the pipe, or was read without its end, is a frame to its end unless  *)
(* the child still owes it.                                                *)
WholeFrames ==
  /\ \A i \in DOMAIN owed : owed[i] <=> i = Len(owed)
  /\ owed = <<>> /\ stdout # <<>> => stdout[Len(stdout)]
  /\ owed = <<>> /\ stdout = <<>> /\ spc = "read" => got = 0

ExitedDone == child = "exited" => stdin = <<>> /\ owed = <<>>

GracefulInv == Orderly => EachForwardedOnce /\ WholeFrames /\ ExitedDone

LEMMA EndsFinite ==
  ASSUME NEW s \in Seq(BOOLEAN)
  PROVE  IsFiniteSet(Ends(s)) /\ Cardinality(Ends(s)) \in Nat
<1>1. Ends(s) \subseteq 1 .. Len(s) /\ Len(s) \in Nat
  BY LenProperties DEF Ends
<1>2. IsFiniteSet(1 .. Len(s))
  BY <1>1, FS_Interval
<1> QED
  BY <1>1, <1>2, FS_Subset, FS_CardinalityType

LEMMA EndsOfEmpty == Cardinality(Ends(<<>>)) = 0
<1>1. Ends(<<>>) = {}
  BY DEF Ends
<1> QED
  BY <1>1, FS_EmptySet

LEMMA EndsAppend ==
  ASSUME NEW s \in Seq(BOOLEAN), NEW b \in BOOLEAN
  PROVE  Cardinality(Ends(Append(s, b))) = Cardinality(Ends(s)) + (IF b THEN 1 ELSE 0)
<1> DEFINE t == Append(s, b)
           n == Len(s)
<1>1. /\ n \in Nat /\ DOMAIN s = 1 .. n
      /\ t \in Seq(BOOLEAN) /\ Len(t) = n + 1
      /\ \A i \in 1 .. n : t[i] = s[i]
      /\ t[n + 1] = b
  BY AppendProperties, LenProperties
<1>2. DOMAIN t = 1 .. n + 1
  BY <1>1, LenProperties
<1> HIDE DEF t, n
<1>3. CASE b = TRUE
  <2>1. n + 1 \notin Ends(s)
    BY <1>1 DEF Ends
  <2>2. \A i \in 1 .. n : i \in Ends(t) <=> i \in Ends(s)
    <3> TAKE i \in 1 .. n
    <3>1. i \in DOMAIN t /\ i \in DOMAIN s /\ t[i] = s[i]
      BY <1>1, <1>2
    <3> QED
      BY <3>1, Zenon DEF Ends
  <2>3. n + 1 \in Ends(t)
    <3>1. n + 1 \in DOMAIN t
      BY <1>1, <1>2
    <3> QED
      BY <1>1, <1>3, <3>1, Zenon DEF Ends
  <2>4. Ends(t) \subseteq 1 .. n + 1 /\ Ends(s) \subseteq 1 .. n
    BY <1>1, <1>2 DEF Ends
  <2>5. Ends(t) = Ends(s) \cup {n + 1}
    BY <1>1, <2>2, <2>3, <2>4
  <2> QED
    BY <1>3, <2>1, <2>5, EndsFinite, FS_AddElement DEF t
<1>4. CASE b = FALSE
  <2>1. Ends(t) = Ends(s)
    BY <1>1, <1>2, <1>4 DEF Ends
  <2> QED
    BY <1>4, <2>1, EndsFinite DEF t
<1> QED
  BY <1>3, <1>4

LEMMA EndsTail ==
  ASSUME NEW s \in Seq(BOOLEAN), s # <<>>
  PROVE  Cardinality(Ends(s)) = Cardinality(Ends(Tail(s))) + (IF Head(s) THEN 1 ELSE 0)
<1> DEFINE t == Tail(s)
           n == Len(s)
           rest == Ends(s) \ {1}
<1>1. /\ n \in Nat \ {0} /\ DOMAIN s = 1 .. n /\ Head(s) = s[1] /\ Head(s) \in BOOLEAN
      /\ t \in Seq(BOOLEAN) /\ Len(t) = n - 1
      /\ \A i \in 1 .. n - 1 : t[i] = s[i + 1]
  BY HeadTailProperties, LenProperties, EmptySeq
<1>2. DOMAIN t = 1 .. n - 1
  BY <1>1, LenProperties
<1> HIDE DEF t, n
<1>3. ExistsBijection(Ends(t), rest)
  <2> DEFINE F == [i \in Ends(t) |-> i + 1]
  <2>1. Ends(t) = {i \in 1 .. n - 1 : s[i + 1]}
    BY <1>1, <1>2 DEF Ends
  <2>2. rest = {i \in 2 .. n : s[i]}
    BY <1>1 DEF Ends
  <2>3. F \in [Ends(t) -> rest]
    BY <1>1, <2>1, <2>2
  <2>4. \A i, j \in Ends(t) : F[i] = F[j] => i = j
    BY <2>1
  <2>5. \A k \in rest : \E i \in Ends(t) : F[i] = k
    <3> TAKE k \in rest
    <3>1. k - 1 \in Ends(t) /\ (k - 1) + 1 = k
      BY <1>1, <2>1, <2>2
    <3> QED
      BY <3>1
  <2>6. F \in Bijection(Ends(t), rest)
    <3> HIDE DEF F, rest
    <3> QED
      BY <2>3, <2>4, <2>5 DEF Bijection, Injection, Surjection, IsInjective
  <2> QED
    BY <2>6 DEF ExistsBijection
<1>4. Cardinality(Ends(t)) = Cardinality(rest)
  BY <1>1, <1>3, EndsFinite, FS_Bijection
<1>5. Cardinality(rest) = IF 1 \in Ends(s) THEN Cardinality(Ends(s)) - 1 ELSE Cardinality(Ends(s))
  BY EndsFinite, FS_RemoveElement
<1>6. 1 \in Ends(s) <=> Head(s)
  <2>1. 1 \in DOMAIN s
    BY <1>1
  <2> QED
    BY <1>1, <2>1, Zenon DEF Ends
<1>7. Cardinality(Ends(s)) \in Nat
  BY EndsFinite
<1> DEFINE ended == IF Head(s) THEN 1 ELSE 0
<1> HIDE DEF rest
<1>8. Cardinality(Ends(s)) = Cardinality(Ends(t)) + ended
  <2>1. CASE Head(s) = TRUE
    <3>1. ended = 1 /\ 1 \in Ends(s)
      BY <1>6, <2>1, Zenon
    <3> HIDE DEF ended
    <3> QED
      BY <1>4, <1>5, <1>7, <3>1
  <2>2. CASE Head(s) = FALSE
    <3>1. ended = 0 /\ 1 \notin Ends(s)
      BY <1>6, <2>2, Zenon
    <3> HIDE DEF ended
    <3> QED
      BY <1>4, <1>5, <1>7, <3>1
  <2> QED
    BY <1>1, <2>1, <2>2
<1> QED
  BY <1>8 DEF t

(* Who gives up, or dies, does not come back.                              *)
LEMMA OrderlyBefore ==
  ASSUME IInv, Next, Orderly'
  PROVE  Orderly
<1>1. got \in Nat /\ MaxFrame \in Nat /\ (spc # "done" => got <= MaxFrame)
  BY LifecycleAssumption DEF IInv, LifecycleTypeOK, FrameWithinLimit
<1>2. child' \in {"running", "exited"} => child \in {"running", "exited"}
  BY DEF Next, ClientSends, ClientCloses, ClientHangsUp, Child, ChildReads, ChildWrites,
     ChildExits, ChildCrashes, ChildDies, PumpClient, PumpClientRead, PumpClientWrite,
     PumpClientClose, PumpServer, PumpServerChunk, PumpServerEOF, PumpServerWrite, Main,
     RunWait, RunReturn, Cancel, Watcher, WatcherKills, WatcherStops, childState
<1>3. got > MaxFrame => got' = got
  <2>1. PumpServerChunk \/ PumpServerWrite => spc # "done"
    BY DEF PumpServerChunk, PumpServerWrite
  <2>2. got' = got \/ PumpServerChunk \/ PumpServerWrite
    BY DEF Next, ClientSends, ClientCloses, ClientHangsUp, Child, ChildReads,
       ChildWrites, ChildExits, ChildCrashes, PumpClient, PumpClientRead,
       PumpClientWrite, PumpClientClose, PumpServer, PumpServerEOF, Main, RunWait,
       RunReturn, Cancel, Watcher, WatcherKills, WatcherStops, proxyState
  <2> QED
    BY <1>1, <2>1, <2>2
<1>4. clientReads' => clientReads
  <2>1. CASE ClientHangsUp
    BY <2>1, Zenon DEF ClientHangsUp
  <2>2. CASE ~ClientHangsUp
    <3>1. clientReads' = clientReads
      BY <2>2, Zenon DEF Next, ClientSends, ClientCloses, Child, ChildReads,
         ChildWrites, ChildExits, ChildCrashes, PumpClient, PumpClientRead,
         PumpClientWrite, PumpClientClose, PumpServer, PumpServerChunk, PumpServerEOF,
         PumpServerWrite, Main, RunWait, RunReturn, Cancel, Watcher, WatcherKills,
         WatcherStops, clientState
    <3> QED
      BY <3>1, Zenon
  <2> QED
    BY <2>1, <2>2
<1> QED
  BY <1>1, <1>2, <1>3, <1>4 DEF Orderly, StoppedEarly

InTransit == <<stdin, owed, stdout, forwarded, answers, spc, got, child>>

LEMMA UntouchedGraceful ==
  ASSUME EachForwardedOnce, WholeFrames, ExitedDone, UNCHANGED InTransit
  PROVE  EachForwardedOnce' /\ WholeFrames' /\ ExitedDone'
BY DEF InTransit, EachForwardedOnce, WholeFrames, ExitedDone, Answering, Writing

LEMMA ChildGraceful ==
  ASSUME IInv, EachForwardedOnce, WholeFrames, ExitedDone, Child
  PROVE  EachForwardedOnce' /\ WholeFrames' /\ ExitedDone'
<1>1. /\ stdin \in Seq({1}) /\ owed \in Seq(BOOLEAN) /\ stdout \in Seq(BOOLEAN)
      /\ Len(stdin) \in Nat /\ Len(owed) \in Nat /\ Len(stdout) \in Nat
      /\ answers \in Nat /\ forwarded \in Nat
  BY LenProperties DEF IInv, LifecycleTypeOK
<1>2. CASE ChildReads
  <2>1. PICK size \in FrameSizes : owed' = Chunks(size)
    BY <1>2 DEF ChildReads
  <2>2. /\ child = "running" /\ owed = <<>> /\ stdin # <<>> /\ stdin' = Tail(stdin)
        /\ UNCHANGED <<child, stdout, forwarded, answers, spc, got>>
    BY <1>2 DEF ChildReads, clientState, proxyState
  <2>3. Len(stdin') = Len(stdin) - 1
    BY <1>1, <2>2, HeadTailProperties
  <2>4. /\ owed' = [i \in 1 .. size |-> i = size] /\ size \in Nat \ {0}
        /\ DOMAIN owed' = 1 .. size /\ Len(owed') = size
    BY <2>1, LifecycleAssumption DEF Chunks
  <2>5. owed' # <<>>
    BY <2>4
  <2>6. EachForwardedOnce'
    BY <1>1, <2>2, <2>3, <2>5, EndsFinite DEF EachForwardedOnce, Answering, Writing
  <2>7. WholeFrames'
    BY <2>4, <2>5 DEF WholeFrames
  <2> QED
    BY <2>2, <2>6, <2>7 DEF ExitedDone
<1>3. CASE ChildWrites
  <2>1. /\ child = "running" /\ owed # <<>> /\ stdout' = Append(stdout, Head(owed))
        /\ owed' = Tail(owed)
        /\ UNCHANGED <<child, stdin, forwarded, answers, spc, got>>
    BY <1>3 DEF ChildWrites, clientState, proxyState
  <2>2. /\ Head(owed) \in BOOLEAN /\ Head(owed) = owed[1] /\ Len(owed) # 0
        /\ owed' \in Seq(BOOLEAN) /\ Len(owed') = Len(owed) - 1
        /\ \A i \in 1 .. Len(owed) - 1 : owed'[i] = owed[i + 1]
        /\ DOMAIN owed = 1 .. Len(owed) /\ DOMAIN owed' = 1 .. Len(owed) - 1
    BY <1>1, <2>1, HeadTailProperties, EmptySeq, LenProperties
  <2>3. Head(owed) <=> 1 = Len(owed)
    <3>1. 1 \in DOMAIN owed
      BY <1>1, <2>2
    <3> QED
      BY <2>2, <3>1, Zenon DEF WholeFrames
  <2>4. owed' = <<>> <=> 1 = Len(owed)
    BY <1>1, <2>2, EmptySeq
  <2>5. /\ stdout' \in Seq(BOOLEAN) /\ Len(stdout') = Len(stdout) + 1
        /\ stdout'[Len(stdout')] = Head(owed)
    BY <1>1, <2>1, <2>2, AppendProperties
  <2>6. EachForwardedOnce'
    <3>1. Cardinality(Ends(stdout')) = Cardinality(Ends(stdout)) + (IF Head(owed) THEN 1 ELSE 0)
      BY <1>1, <2>1, <2>2, EndsAppend
    <3>2. Answering = 1
      BY <2>1 DEF Answering
    <3>3. Writing \in Nat /\ Writing' = Writing
      BY <2>1 DEF Writing
    <3>4. Cardinality(Ends(stdout)) \in Nat
      BY <1>1, EndsFinite
    <3>5. forwarded = Len(stdin) + 1 + Cardinality(Ends(stdout)) + Writing + answers
      BY <3>2 DEF EachForwardedOnce
    <3>6. forwarded' = forwarded /\ answers' = answers /\ Len(stdin') = Len(stdin)
      BY <2>1
    <3>7. CASE 1 = Len(owed)
      <4>1. Answering' = 0
        BY <2>4, <3>7 DEF Answering
      <4>2. Cardinality(Ends(stdout')) = Cardinality(Ends(stdout)) + 1
        BY <2>3, <3>1, <3>7, Zenon
      <4>3. \A l, c, w, a \in Nat : l + 1 + c + w + a = l + 0 + (c + 1) + w + a
        OBVIOUS
      <4>4. forwarded = Len(stdin) + 0 + (Cardinality(Ends(stdout)) + 1) + Writing + answers
        BY <1>1, <3>3, <3>4, <3>5, <4>3
      <4>5. forwarded' = Len(stdin') + 0 + Cardinality(Ends(stdout')) + Writing' + answers'
        BY <3>3, <3>6, <4>2, <4>4, Zenon
      <4> QED
        BY <4>1, <4>5, Zenon DEF EachForwardedOnce
    <3>8. CASE 1 # Len(owed)
      <4>1. Answering' = 1
        BY <2>4, <3>8 DEF Answering
      <4>2. Cardinality(Ends(stdout')) = Cardinality(Ends(stdout)) + 0
        BY <2>3, <3>1, <3>8, Zenon
      <4>3. forwarded' = Len(stdin') + 1 + Cardinality(Ends(stdout')) + Writing' + answers'
        BY <1>1, <3>3, <3>4, <3>5, <3>6, <4>2
      <4> QED
        BY <4>1, <4>3, Zenon DEF EachForwardedOnce
    <3> QED
      BY <3>7, <3>8
  <2>7. WholeFrames'
    <3>1. \A i \in DOMAIN owed' : owed'[i] <=> i = Len(owed')
      <4> TAKE i \in DOMAIN owed'
      <4>1. i + 1 \in DOMAIN owed /\ owed'[i] = owed[i + 1]
            /\ (i + 1 = Len(owed) <=> i = Len(owed'))
        BY <1>1, <2>2
      <4>2. owed[i + 1] <=> i + 1 = Len(owed)
        BY <4>1 DEF WholeFrames
      <4> QED
        BY <4>1, <4>2, Zenon
    <3>2. stdout' # <<>>
      BY <1>1, <2>5
    <3>3. owed' = <<>> => stdout'[Len(stdout')]
      BY <2>3, <2>4, <2>5, Zenon
    <3> QED
      BY <3>1, <3>2, <3>3 DEF WholeFrames
  <2> QED
    BY <2>1, <2>6, <2>7 DEF ExitedDone
<1>4. CASE ChildExits
  <2>1. /\ owed = <<>> /\ stdin = <<>>
        /\ UNCHANGED <<stdin, owed, stdout, forwarded, answers, spc, got>>
    BY <1>4 DEF ChildExits, clientState, proxyState
  <2> QED
    BY <2>1 DEF EachForwardedOnce, WholeFrames, ExitedDone, Answering, Writing
<1> QED
  BY <1>2, <1>3, <1>4 DEF Child

LEMMA PumpClientGraceful ==
  ASSUME IInv, EachForwardedOnce, WholeFrames, ExitedDone, PumpClient
  PROVE  EachForwardedOnce' /\ WholeFrames' /\ ExitedDone'
<1>1. CASE PumpClientRead \/ PumpClientClose
  <2>1. UNCHANGED InTransit
    BY <1>1 DEF PumpClientRead, PumpClientClose, InTransit, clientState, childState
  <2> QED
    BY <2>1, UntouchedGraceful
<1>2. CASE PumpClientWrite
  <2>1. CASE child # "running"
    <3>1. UNCHANGED InTransit
      BY <1>2, <2>1 DEF PumpClientWrite, InTransit, clientState
    <3> QED
      BY <3>1, UntouchedGraceful
  <2>2. CASE child = "running"
    <3>1. /\ stdin' = Append(stdin, 1) /\ forwarded' = forwarded + 1
          /\ UNCHANGED <<child, owed, stdout, answers, spc, got>>
      BY <1>2, <2>2 DEF PumpClientWrite, clientState
    <3>2. /\ stdin \in Seq({1}) /\ Len(stdin) \in Nat /\ forwarded \in Nat
          /\ answers \in Nat /\ stdout \in Seq(BOOLEAN)
      BY LenProperties DEF IInv, LifecycleTypeOK
    <3>3. Len(stdin') = Len(stdin) + 1
      BY <3>1, <3>2, AppendProperties
    <3>4. EachForwardedOnce'
      <4>1. Cardinality(Ends(stdout)) \in Nat /\ Cardinality(Ends(stdout')) = Cardinality(Ends(stdout))
        BY <3>1, <3>2, EndsFinite
      <4>2. /\ Answering' = Answering /\ Writing' = Writing
            /\ Answering \in Nat /\ Writing \in Nat
        BY <3>1 DEF Answering, Writing
      <4>3. forwarded' = Len(stdin') + Answering' + Cardinality(Ends(stdout')) + Writing'
                           + answers'
        BY <3>1, <3>2, <3>3, <4>1, <4>2, SMTT(20) DEF EachForwardedOnce
      <4> QED
        BY <4>3 DEF EachForwardedOnce
    <3> QED
      BY <2>2, <3>1, <3>4 DEF WholeFrames, ExitedDone
  <2> QED
    BY <2>1, <2>2
<1> QED
  BY <1>1, <1>2 DEF PumpClient

LEMMA PumpServerGraceful ==
  ASSUME IInv, Orderly, Orderly', EachForwardedOnce, WholeFrames, ExitedDone, PumpServer
  PROVE  EachForwardedOnce' /\ WholeFrames' /\ ExitedDone'
<1>1. /\ stdout \in Seq(BOOLEAN) /\ Len(stdin) \in Nat /\ Len(stdout) \in Nat
      /\ answers \in Nat /\ forwarded \in Nat /\ got \in Nat /\ MaxFrame \in Nat
  BY LenProperties, LifecycleAssumption DEF IInv, LifecycleTypeOK
<1>2. CASE PumpServerChunk
  <2>1. /\ spc = "read" /\ stdout # <<>> /\ stdout' = Tail(stdout) /\ got' = got + 1
        /\ spc' = IF got + 1 > MaxFrame THEN "done"
                  ELSE IF Head(stdout) THEN "write" ELSE "read"
        /\ UNCHANGED <<stdin, owed, child, forwarded, answers>>
    BY <1>2 DEF PumpServerChunk, clientState
  <2>2. ~(got + 1 > MaxFrame)
    BY <2>1 DEF Orderly, StoppedEarly
  <2>3. spc' = IF Head(stdout) THEN "write" ELSE "read"
    BY <2>1, <2>2, Zenon
  <2>4. /\ stdout' \in Seq(BOOLEAN) /\ Len(stdout') = Len(stdout) - 1 /\ Len(stdout) # 0
        /\ \A i \in 1 .. Len(stdout) - 1 : stdout'[i] = stdout[i + 1]
        /\ Head(stdout) = stdout[1] /\ Head(stdout) \in BOOLEAN
    <3>1. stdout' \in Seq(BOOLEAN) /\ Len(stdout') = Len(stdout) - 1
      BY <1>1, <2>1, HeadTailProperties
    <3>2. Len(stdout) # 0 /\ Head(stdout) \in BOOLEAN
      BY <1>1, <2>1, HeadTailProperties, EmptySeq
    <3>3. Head(stdout) = stdout[1]
      OBVIOUS
    <3>4. \A i \in 1 .. Len(stdout) - 1 : stdout'[i] = stdout[i + 1]
      BY <1>1, <2>1, <3>1, HeadTailProperties
    <3> QED
      BY <3>1, <3>2, <3>3, <3>4
  <2>5. EachForwardedOnce'
    <3> DEFINE ended == IF Head(stdout) THEN 1 ELSE 0
    <3>1. Cardinality(Ends(stdout)) = Cardinality(Ends(stdout')) + ended
      BY <1>1, <2>1, EndsTail
    <3>2. Writing = 0
      BY <2>1 DEF Writing
    <3>3. Writing' = ended
      BY <2>3, Zenon DEF Writing
    <3>4. ended \in Nat /\ Answering \in Nat /\ Answering' = Answering
      BY <2>1 DEF Answering
    <3>5. Cardinality(Ends(stdout')) \in Nat
      BY <2>4, EndsFinite
    <3>6. forwarded = Len(stdin) + Answering + Cardinality(Ends(stdout)) + 0 + answers
      BY <3>2 DEF EachForwardedOnce
    <3>7. UNCHANGED <<forwarded, answers>> /\ Len(stdin') = Len(stdin)
      BY <2>1
    <3> HIDE DEF ended
    <3>8. forwarded' = Len(stdin') + Answering' + Cardinality(Ends(stdout')) + Writing'
                         + answers'
      BY <1>1, <3>1, <3>3, <3>4, <3>5, <3>6, <3>7
    <3> QED
      BY <3>8 DEF EachForwardedOnce
  <2>6. WholeFrames'
    <3>1. owed' = <<>> /\ stdout' # <<>> => stdout'[Len(stdout')]
      <4> SUFFICES ASSUME owed' = <<>>, stdout' # <<>> PROVE stdout'[Len(stdout')]
        OBVIOUS
      <4>1. stdout[Len(stdout)]
        BY <2>1 DEF WholeFrames
      <4>2. Len(stdout') # 0
        BY <2>4, EmptySeq
      <4>3. stdout'[Len(stdout')] = stdout[Len(stdout)]
        BY <1>1, <2>4, <4>2
      <4> QED
        BY <4>1, <4>3, Zenon
    <3>2. owed' = <<>> /\ stdout' = <<>> => spc' # "read"
      <4> SUFFICES ASSUME owed' = <<>>, stdout' = <<>> PROVE spc' # "read"
        OBVIOUS
      <4>1. stdout[Len(stdout)]
        BY <2>1 DEF WholeFrames
      <4>2. Len(stdout) = 1
        BY <1>1, <2>4
      <4>3. Head(stdout)
        BY <2>4, <4>1, <4>2, Zenon
      <4>4. spc' = "write"
        BY <2>3, <4>3, Zenon
      <4> QED
        BY <4>4
    <3> QED
      BY <2>1, <3>1, <3>2 DEF WholeFrames
  <2> QED
    BY <2>1, <2>5, <2>6 DEF ExitedDone
<1>3. CASE PumpServerEOF
  <2>1. /\ spc = "read" /\ stdout = <<>> /\ child = "exited"
        /\ spc' = IF got > 0 THEN "write" ELSE "done"
        /\ UNCHANGED <<stdin, owed, stdout, child, forwarded, answers, got>>
    BY <1>3 DEF PumpServerEOF, clientState, childState, Orderly
  <2>2. got = 0
    BY <2>1 DEF ExitedDone, WholeFrames
  <2>3. spc' = "done"
    BY <2>1, <2>2
  <2> QED
    BY <2>1, <2>3 DEF EachForwardedOnce, WholeFrames, ExitedDone, Answering, Writing
<1>4. CASE PumpServerWrite
  <2>1. clientReads
    BY DEF Orderly, StoppedEarly
  <2>2. /\ spc = "write" /\ answers' = answers + 1 /\ got' = 0 /\ spc' = "read"
        /\ UNCHANGED <<stdin, owed, stdout, child, forwarded>>
    BY <1>4, <2>1 DEF PumpServerWrite, childState
  <2>3. EachForwardedOnce'
    BY <1>1, <2>2, EndsFinite, SMTT(20) DEF EachForwardedOnce, Answering, Writing
  <2> QED
    BY <2>2, <2>3 DEF WholeFrames, ExitedDone
<1> QED
  BY <1>2, <1>3, <1>4 DEF PumpServer

LEMMA NextGraceful == IInv /\ GracefulInv /\ [Next]_vars => GracefulInv'
<1> SUFFICES ASSUME IInv, GracefulInv, [Next]_vars, Orderly'
             PROVE  EachForwardedOnce' /\ WholeFrames' /\ ExitedDone'
  BY DEF GracefulInv
<1>1. CASE UNCHANGED vars
  <2>1. Orderly
    BY <1>1 DEF Orderly, StoppedEarly, vars, clientState, childState, proxyState
  <2>2. UNCHANGED InTransit
    BY <1>1 DEF InTransit, vars, clientState, childState, proxyState
  <2> QED
    BY <2>1, <2>2, UntouchedGraceful DEF GracefulInv
<1>2. CASE Next
  <2>1. Orderly
    BY <1>2, OrderlyBefore
  <2>2. EachForwardedOnce /\ WholeFrames /\ ExitedDone
    BY <2>1 DEF GracefulInv
  <2>3. ASSUME \/ ClientSends \/ ClientCloses \/ ClientHangsUp \/ Main \/ Cancel
               \/ WatcherStops
        PROVE  UNCHANGED InTransit
    BY <2>3 DEF InTransit, ClientSends, ClientCloses, ClientHangsUp, Main, RunWait,
       RunReturn, Cancel, WatcherStops, clientState, childState, proxyState
  <2>4. ~ChildCrashes
    BY DEF Orderly, ChildCrashes, ChildDies
  <2>5. ASSUME WatcherKills PROVE UNCHANGED InTransit
    <3>1. child = "exited"
      BY <2>1, <2>5 DEF Orderly, WatcherKills, ChildDies
    <3> QED
      BY <2>2, <2>5, <3>1 DEF ExitedDone, WatcherKills, ChildDies, InTransit, clientState
  <2> QED
    BY <1>2, <2>1, <2>2, <2>3, <2>4, <2>5, UntouchedGraceful, ChildGraceful,
       PumpClientGraceful, PumpServerGraceful
       DEF Next, Watcher
<1> QED
  BY <1>1, <1>2

LEMMA InitGraceful == Init => GracefulInv
<1> SUFFICES ASSUME Init PROVE EachForwardedOnce /\ WholeFrames /\ ExitedDone
  BY DEF GracefulInv
<1>1. EachForwardedOnce
  BY EndsOfEmpty DEF Init, EachForwardedOnce, Answering, Writing
<1>2. WholeFrames
  BY DEF Init, WholeFrames
<1>3. ExitedDone
  BY DEF Init, ExitedDone
<1> QED
  BY <1>1, <1>2, <1>3

(* A child that was asked to exit, and exits when it has answered, costs   *)
(* the client no answer: Run returns with one for every request that was   *)
(* forwarded (proxy.go, Run and pumpServer).                               *)
THEOREM ShutdownIsGraceful == Spec => []GracefulShutdown
<1>1. IInv /\ GracefulInv => GracefulShutdown
  <2> SUFFICES ASSUME IInv, GracefulInv, run = "returned", child = "exited",
                      ~StoppedEarly
               PROVE  answers = forwarded
    BY DEF GracefulShutdown
  <2>1. spc = "done" /\ stdout = <<>>
    BY DEF IInv, RunWaitsForPump, DoneMeansDrained
  <2>2. EachForwardedOnce /\ stdin = <<>> /\ owed = <<>>
    BY DEF GracefulInv, Orderly, ExitedDone
  <2>3. answers \in Nat
    BY DEF IInv, LifecycleTypeOK
  <2> QED
    BY <2>1, <2>2, <2>3, EndsOfEmpty DEF EachForwardedOnce, Answering, Writing
<1> QED
  BY <1>1, InitIInv, NextIInv, InitGraceful, NextGraceful, PTL DEF Spec
=============================================================================
