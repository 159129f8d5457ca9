------------------------------ MODULE MCInputs ------------------------------
(***************************************************************************)
(* Every input of the pure algorithms up to a bound, built piece by piece: *)
(* command lines, texts, tool lists and settings.  A behavior builds one   *)
(* of them.                                                                *)
(***************************************************************************)
EXTENDS ShellSplit, Text, Pass, Config

CONSTANTS
  MaxPieces,  \* bound: pieces and gaps of a command line
  MaxQuoted,  \* bound: runes in them
  MaxText,    \* bound: runes of a text
  MaxList,    \* bound: tools of a list
  MaxGiven    \* bound: settings given, in the file or as flags

VARIABLES line, text, list, file, flags

vars == <<line, text, list, file, flags>>

Init == line = <<>> /\ text = <<>> /\ list = <<>> /\ file = <<>> /\ flags = <<>>

Configured == DOMAIN file \cup DOMAIN flags # {}

-----------------------------------------------------------------------------
LineRunes == {"a", " ", "\\", "\"", "'", "\n"}

Pieces ==
  {p \in [style : {"bare", "single", "double", "escaped"},
          runes : UNION {[1 .. n -> LineRunes] : n \in 0 .. 2}] : Writable(p)}

RunesOf(pieces) == FoldLeft(LAMBDA sum, p : sum + Len(p.runes), 0, pieces)

AddPiece ==
  /\ text = <<>> /\ list = <<>> /\ ~Configured /\ Len(line) < MaxPieces
  /\ \E p \in Pieces \cup {Gap} : line' = Append(line, p)
  /\ RunesOf(line') <= MaxQuoted
  /\ UNCHANGED <<text, list, file, flags>>

CommonWords == {<<"a", "a", "a">>}

TextRunes ==
  {"a", "A", "e2", "E2", "_", " ", "\n", "\r", "\t", "\"", "\\", "ctl", "bad"}

AddRune ==
  /\ line = <<>> /\ list = <<>> /\ ~Configured /\ Len(text) < MaxText
  /\ \E c \in TextRunes : text' = Append(text, c)
  /\ UNCHANGED <<line, list, file, flags>>

(* Names may repeat, and a compressed form may be as long as the original. *)
ToolEntries ==
  [name : {<<>>, <<"x">>, <<"x", "y">>}, raw : {2, 3}, small : {2}, score : {0, 1}]

AddTool ==
  /\ line = <<>> /\ text = <<>> /\ ~Configured /\ Len(list) < MaxList
  /\ \E t \in ToolEntries : list' = Append(list, t)
  /\ UNCHANGED <<line, text, file, flags>>

SomeSettings == Cardinality(DOMAIN file) + Cardinality(DOMAIN flags)
Values == {-1, 0, 1, 2, 99, 100}
Giving(given, s, v) ==
  [k \in DOMAIN given \cup {s} |-> IF k = s THEN v ELSE given[k]]

AddToFile ==
  /\ line = <<>> /\ text = <<>> /\ list = <<>> /\ SomeSettings < MaxGiven
  /\ \E s \in Settings, v \in Values : file' = Giving(file, s, v)
  /\ UNCHANGED <<line, text, list, flags>>

AddFlag ==
  /\ line = <<>> /\ text = <<>> /\ list = <<>> /\ SomeSettings < MaxGiven
  /\ \E s \in RunFlags, v \in Values : flags' = Giving(flags, s, v)
  /\ UNCHANGED <<line, text, list, file>>

Next == AddPiece \/ AddRune \/ AddTool \/ AddToFile \/ AddFlag

Spec == Init /\ [][Next]_vars

-----------------------------------------------------------------------------
Listing == line = <<>> /\ text = <<>> /\ ~Configured

Policies ==
  [enabled : BOOLEAN, minTools : {0, 2}, topN : 0 .. 2, dropBelow : {0, 1},
   preserveOrder : BOOLEAN, pinned : {{}, {<<>>, <<"x">>}, {<<"x", "*">>}}]

(* What was quoted is what arrives, for every line.  No piece is a newline *)
(* behind a backslash, which a POSIX shell removes (shellsplit.go).        *)
SplitReadsBack == ReadsBack(line)

(* The terms of every text (terms.go) and its token estimate (tokens.go)   *)
(* are those of its segments and runs.                                     *)
TermsFound == TermsAreSegments(text)
TokensCounted == EstimateCountsRuns(text)

(* Every text is shortened as truncate promises.  The budget of one rune   *)
(* is left out, where the code does not keep the promise (prune.go).       *)
TruncateBounded == \A max \in (-1 .. MaxText) \ {1} : TruncateWithin(text, max)

(* No text of a server can break the JSON of its compressed tool, or the   *)
(* line it is sent on (prune.go, appendJSONString).                        *)
CompressedReadsBack == \A max \in 0 .. MaxText : DescriptionReadsBack(text, max)

(* The pass emits each tool once, in place or by rank, in the form         *)
(* PruneTiers decides for it, and only drops what PruneTiers drops         *)
(* (prune.go, Prune).                                                      *)
PassFollowsTiers ==
  Listing => \A policy \in Policies :
    LET score == [i \in DOMAIN list |-> ScoreOf(list[i])]
        tier == Tiers(list, policy)!Tier(score)
        rank == Tiers(list, policy)!RankOrder(score)
        out == Prune(list, policy).tools
    IN /\ {e.idx : e \in ToSet(out)} = {i \in DOMAIN list : tier[i] # "dropped"}
       /\ \A n \in DOMAIN out : out[n].form = tier[out[n].idx]
       /\ \A m, n \in DOMAIN out :
            m < n => IF PassedThrough(list, policy) \/ policy.preserveOrder
                     THEN out[m].idx < out[n].idx
                     ELSE <<out[m].idx, out[n].idx>> \in rank

(* The statistics of a pass agree with its result: every tool is counted   *)
(* once, what each one saved adds up to what the list lost, and a list is  *)
(* never longer than before (prune.go, Stats).                             *)
StatsAddUp ==
  Listing => \A policy \in Policies :
    LET res == Prune(list, policy)
    IN /\ res.full + res.compressed = Len(res.tools)
       /\ Len(res.tools) + res.dropped = Len(list)
       /\ res.bytesAfter + SumFunction(res.saved) = BytesBefore(list)
       /\ \A n \in DOMAIN res.saved : res.saved[n] >= 0

(* Whatever a file and the flags say, the pruner starts with settings in   *)
(* range, the last in-range value given for a setting is in force, a graph *)
(* limit that means nothing leaves the graph its default, and analyze,     *)
(* which has no min-tools flag, previews with the same settings (config.go;*)
(* graph.go, New; main.go, run; analyze.go, runAnalyze).                   *)
ConfigSafe ==
  /\ SafeConfig(StartConfig(file, flags))
  /\ Honoured(file, flags, StartConfig(file, flags))
  /\ LimitsHonoured(file, NewLimits(StartConfig(file, flags)))
  /\ "MinTools" \notin DOMAIN flags =>
       AnalyzeConfig(file, flags) = StartConfig(file, flags)
=============================================================================
