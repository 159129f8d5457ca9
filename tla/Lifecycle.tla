----------------------------- MODULE Lifecycle -----------------------------
(***************************************************************************)
(* How a proxied session ends: proxy.Run with its two pumps, the watcher   *)
(* that kills the child on cancellation, the frame reader with its size    *)
(* limit, and the pipes to a child process that blocks when they are full. *)
(*                                                                         *)
(* Only the size of a frame matters here, in chunks: what one ReadSlice of *)
(* the reader returns.  The last chunk of a frame carries the newline.     *)
(***************************************************************************)
EXTENDS Integers, Sequences

CONSTANTS
  FrameSizes,   \* sizes of the frames the client and the child send
  MaxFrame,     \* Options.MaxFrameBytes
  PipeSize,     \* what a pipe holds before its writer blocks
  HangsUp,      \* the client may close its receiving end
  MaxRequests   \* bound of the model: frames the client sends

ASSUME LifecycleAssumption ==
  /\ FrameSizes \subseteq Nat \ {0}
  /\ MaxFrame \in Nat \ {0} /\ PipeSize \in Nat \ {0} /\ MaxRequests \in Nat
  /\ HangsUp \in BOOLEAN

VARIABLES
  \* the client
  clientIn,     \* frames it sent and the proxy has not read, by size
  sent,         \* frames it sent in all
  clientEOF,    \* it closed its sending end
  clientReads,  \* it has not closed its receiving end
  answers,      \* frames it received
  delivered,    \* chunks it received
  \* the child
  child,        \* "running", "exited", "crashed" or "killed"
  stdin,        \* frames in its stdin pipe
  stdinOpen,    \* the proxy has not closed that pipe
  owed,         \* chunks it is about to write
  stdout,       \* chunks in its stdout pipe
  wrote,        \* chunks it wrote in all
  \* the proxy
  cpc, spc,     \* pumpClient, pumpServer
  forwarded,    \* frames pumpClient wrote
  got,          \* chunks of the frame pumpServer is reading
  run,          \* Run: "pumping", "waiting" or "returned"
  cancelled,    \* ctx is done
  watch         \* the watcher: "watching" or "done"

clientState == <<clientIn, sent, clientEOF, clientReads, answers, delivered>>
childState == <<child, stdin, stdinOpen, owed, stdout, wrote>>
proxyState == <<cpc, spc, forwarded, got, run, cancelled, watch>>
vars == <<clientState, childState, proxyState>>

Init ==
  /\ clientIn = <<>> /\ sent = 0 /\ clientEOF = FALSE /\ clientReads = TRUE
  /\ answers = 0 /\ delivered = 0
  /\ child = "running" /\ stdin = <<>> /\ stdinOpen = TRUE
  /\ owed = <<>> /\ stdout = <<>> /\ wrote = 0
  /\ cpc = "read" /\ spc = "read" /\ forwarded = 0 /\ got = 0
  /\ run = "pumping" /\ cancelled = FALSE /\ watch = "watching"

-----------------------------------------------------------------------------
(* The client sends, closes its sending end, hangs up.                     *)

ClientSends ==
  /\ ~clientEOF /\ sent < MaxRequests
  /\ \E size \in FrameSizes : clientIn' = Append(clientIn, size)
  /\ sent' = sent + 1
  /\ UNCHANGED <<clientEOF, clientReads, answers, delivered, childState, proxyState>>

ClientCloses ==
  /\ ~clientEOF
  /\ clientEOF' = TRUE
  /\ UNCHANGED <<clientIn, sent, clientReads, answers, delivered, childState, proxyState>>

ClientHangsUp ==
  /\ HangsUp /\ clientReads
  /\ clientReads' = FALSE
  /\ UNCHANGED <<clientIn, sent, clientEOF, answers, delivered, childState, proxyState>>

-----------------------------------------------------------------------------
(* The child answers one request after the other, blocks on a full pipe,   *)
(* and exits when its stdin is closed and read.  It may crash at any time. *)

(* A frame in chunks: TRUE is the one with the newline.                    *)
Chunks(size) == [i \in 1 .. size |-> i = size]

ChildReads ==
  /\ child = "running" /\ owed = <<>> /\ stdin # <<>>
  /\ stdin' = Tail(stdin)
  /\ \E size \in FrameSizes : owed' = Chunks(size)
  /\ UNCHANGED <<clientState, child, stdinOpen, stdout, wrote, proxyState>>

ChildWrites ==
  /\ child = "running" /\ owed # <<>> /\ Len(stdout) < PipeSize
  /\ stdout' = Append(stdout, Head(owed))
  /\ owed' = Tail(owed)
  /\ wrote' = wrote + 1
  /\ UNCHANGED <<clientState, child, stdin, stdinOpen, proxyState>>

ChildExits ==
  /\ child = "running" /\ owed = <<>> /\ stdin = <<>> /\ ~stdinOpen
  /\ child' = "exited"
  /\ UNCHANGED <<clientState, stdin, stdinOpen, owed, stdout, wrote, proxyState>>

ChildDies(how) ==
  /\ child' = IF child = "running" THEN how ELSE child
  /\ stdin' = <<>> /\ owed' = <<>>
  /\ UNCHANGED <<stdinOpen, stdout, wrote>>

ChildCrashes ==
  /\ child = "running"
  /\ ChildDies("crashed")
  /\ UNCHANGED <<clientState, proxyState>>

-----------------------------------------------------------------------------
(* pumpClient: a frame, the end of the stream or a frame above the limit.  *)

PumpClientRead ==
  /\ cpc = "read"
  /\ \/ clientIn # <<>> /\ clientIn' = Tail(clientIn)
        /\ cpc' = IF Head(clientIn) > MaxFrame THEN "close" ELSE "write"
     \/ clientIn = <<>> /\ clientEOF /\ cpc' = "close" /\ UNCHANGED clientIn
  /\ UNCHANGED <<sent, clientEOF, clientReads, answers, delivered, childState,
                 spc, forwarded, got, run, cancelled, watch>>

(* The write blocks while the pipe is full and fails without a reader.     *)
PumpClientWrite ==
  /\ cpc = "write"
  /\ \/ child = "running" /\ Len(stdin) < PipeSize
        /\ stdin' = Append(stdin, 1) /\ forwarded' = forwarded + 1
        /\ cpc' = "read"
     \/ child # "running" /\ cpc' = "close" /\ UNCHANGED <<stdin, forwarded>>
  /\ UNCHANGED <<clientState, child, stdinOpen, owed, stdout, wrote,
                 spc, got, run, cancelled, watch>>

\* Mutant of PumpClientClose: the child is killed where it should be asked.
PumpClientKill ==
  /\ cpc = "close"
  /\ child' = "exited" /\ stdin' = <<>> /\ owed' = <<>>
  /\ stdinOpen' = FALSE
  /\ cpc' = "done"
  /\ UNCHANGED <<clientState, stdout, wrote, spc, forwarded,
                 got, run, cancelled, watch>>

\* Mutant of PumpClientClose: the child's stdin stays open.
PumpClientLeave ==
  /\ cpc = "close"
  /\ cpc' = "done"
  /\ UNCHANGED <<clientState, childState, spc, forwarded, got, run, cancelled, watch>>

(* However pumpClient ended: closing its stdin asks the child to stop.     *)
PumpClientClose ==
  /\ cpc = "close"
  /\ stdinOpen' = FALSE
  /\ cpc' = "done"
  /\ UNCHANGED <<clientState, child, stdin, owed, stdout, wrote, spc,
                 forwarded, got, run, cancelled, watch>>

-----------------------------------------------------------------------------
(* pumpServer and its reader.                                              *)

\* Mutant of PumpServerChunk: no limit.
PumpServerChunkUnlimited ==
  /\ spc = "read" /\ stdout # <<>>
  /\ stdout' = Tail(stdout)
  /\ got' = got + 1
  /\ spc' = IF Head(stdout) THEN "write" ELSE "read"
  /\ UNCHANGED <<clientState, child, stdin, stdinOpen, owed, wrote, cpc,
                 forwarded, run, cancelled, watch>>

(* readLine: a chunk that makes the frame too long ends the pump, at once  *)
(* and with the rest of the frame unread.                                  *)
PumpServerChunk ==
  /\ spc = "read" /\ stdout # <<>>
  /\ stdout' = Tail(stdout)
  /\ got' = got + 1
  /\ spc' = IF got + 1 > MaxFrame THEN "done"
            ELSE IF Head(stdout) THEN "write" ELSE "read"
  /\ UNCHANGED <<clientState, child, stdin, stdinOpen, owed, wrote, cpc,
                 forwarded, run, cancelled, watch>>

\* Mutant of PumpServerEOF: a last frame without a newline is not delivered.
PumpServerEOFDrops ==
  /\ spc = "read" /\ stdout = <<>> /\ child # "running"
  /\ spc' = "done"
  /\ UNCHANGED <<clientState, childState, cpc, forwarded, got, run, cancelled, watch>>

(* The pipe is empty and has no writer.                                    *)
PumpServerEOF ==
  /\ spc = "read" /\ stdout = <<>> /\ child # "running"
  /\ spc' = IF got > 0 THEN "write" ELSE "done"
  /\ UNCHANGED <<clientState, childState, cpc, forwarded, got, run, cancelled, watch>>

PumpServerWrite ==
  /\ spc = "write"
  /\ \/ /\ clientReads
        /\ answers' = answers + 1 /\ delivered' = delivered + got
        /\ got' = 0 /\ spc' = "read"
     \/ ~clientReads /\ spc' = "done" /\ UNCHANGED <<answers, delivered, got>>
  /\ UNCHANGED <<clientIn, sent, clientEOF, clientReads, childState, cpc,
                 forwarded, run, cancelled, watch>>

-----------------------------------------------------------------------------
(* Run, after it has started the goroutines.                               *)

RunWait ==
  /\ run = "pumping" /\ spc = "done"
  /\ run' = "waiting"
  /\ UNCHANGED <<clientState, childState, cpc, spc, forwarded, got, cancelled, watch>>

(* cmd.Wait returns when the process is gone.                              *)
RunReturn ==
  /\ run = "waiting" /\ child # "running"
  /\ run' = "returned"
  /\ UNCHANGED <<clientState, childState, cpc, spc, forwarded, got, cancelled, watch>>

Cancel ==
  /\ ~cancelled
  /\ cancelled' = TRUE
  /\ UNCHANGED <<clientState, childState, cpc, spc, forwarded, got, run, watch>>

\* Mutant of WatcherKills: only the child's stdin is closed.
WatcherCloses ==
  /\ watch = "watching" /\ cancelled
  /\ stdinOpen' = FALSE /\ watch' = "done"
  /\ UNCHANGED <<clientState, child, stdin, owed, stdout, wrote, cpc, spc, forwarded,
                 got, run, cancelled>>

WatcherKills ==
  /\ watch = "watching" /\ cancelled
  /\ ChildDies("killed")
  /\ watch' = "done"
  /\ UNCHANGED <<clientState, cpc, spc, forwarded, got, run, cancelled>>

(* stopWatch is closed once Wait has returned.                             *)
WatcherStops ==
  /\ watch = "watching" /\ run = "returned"
  /\ watch' = "done"
  /\ UNCHANGED <<clientState, childState, cpc, spc, forwarded, got, run, cancelled>>

-----------------------------------------------------------------------------
Child == ChildReads \/ ChildWrites \/ ChildExits
PumpClient == PumpClientRead \/ PumpClientWrite \/ PumpClientClose
PumpServer == PumpServerChunk \/ PumpServerEOF \/ PumpServerWrite
Main == RunWait \/ RunReturn
Watcher == WatcherKills \/ WatcherStops

Next ==
  \/ ClientSends \/ ClientCloses \/ ClientHangsUp
  \/ Child \/ ChildCrashes
  \/ PumpClient \/ PumpServer \/ Main
  \/ Cancel \/ Watcher

Spec == Init /\ [][Next]_vars

(* The goroutines are scheduled, and the child is a well-behaved server:   *)
(* it answers, and exits when it is asked to.  Nothing makes the client    *)
(* send, close or hang up, the child crash or the context end.             *)
FairSpec ==
  /\ Spec
  /\ WF_vars(Child)
  /\ WF_vars(PumpClient) /\ WF_vars(PumpServer) /\ WF_vars(Main)
  /\ WF_vars(Watcher)

-----------------------------------------------------------------------------
FlagsOK ==
  /\ clientEOF \in BOOLEAN /\ clientReads \in BOOLEAN
  /\ stdinOpen \in BOOLEAN /\ cancelled \in BOOLEAN

(* The type of the state.  No more of a frame is kept in memory than the   *)
(* limit and one chunk.                                                    *)
LifecycleTypeOK ==
  /\ clientIn \in Seq(FrameSizes) /\ stdin \in Seq({1})
  /\ owed \in Seq(BOOLEAN) /\ stdout \in Seq(BOOLEAN)
  /\ Len(stdout) <= PipeSize /\ Len(stdin) <= PipeSize
  /\ sent \in Nat /\ answers \in Nat /\ delivered \in Nat
  /\ wrote \in Nat /\ forwarded \in Nat
  /\ child \in {"running", "exited", "crashed", "killed"}
  /\ cpc \in {"read", "write", "close", "done"}
  /\ spc \in {"read", "write", "done"}
  /\ got \in 0 .. MaxFrame + 1
  /\ run \in {"pumping", "waiting", "returned"}
  /\ watch \in {"watching", "done"}
  /\ FlagsOK

(* pumpServer gave up before the child's output ended.                     *)
StoppedEarly == got > MaxFrame \/ ~clientReads

(* Nothing the child wrote is lost at the end, however it ended: Run       *)
(* returns after the pipe was read to its end and its last frame written,  *)
(* with or without a newline.                                              *)
NothingLost ==
  run = "returned" /\ ~StoppedEarly => delivered = wrote

(* Shutdown is graceful: a child that was asked to exit has answered every *)
(* request that was forwarded to it, and the client has the answers.       *)
GracefulShutdown ==
  run = "returned" /\ child = "exited" /\ ~StoppedEarly => answers = forwarded

(* Cancelling the context ends Run, whatever the two pumps are waiting for.*)
CancelEndsRun == cancelled ~> run = "returned"

(* Run "pumps frames until either side closes" (proxy.go): once the client *)
(* closed its sending end or the child is gone, Run returns.               *)
EitherSideEndsRun ==
  (clientEOF \/ child # "running") ~> run = "returned"

(* The same as long as pumpServer does not give up early.                  *)
EitherSideEndsRunUnlessEarly ==
  (clientEOF \/ child # "running") ~> (run = "returned" \/ StoppedEarly)
=============================================================================
