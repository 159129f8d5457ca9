-------------------------------- MODULE Text --------------------------------
(***************************************************************************)
(* What the pruner does with text: the terms it finds in it (terms.go),    *)
(* the tokens it estimates (tokens.go), and the shortened description of a *)
(* compressed tool, written as a JSON string (prune.go).                   *)
(*                                                                         *)
(* Of a rune only its class counts: "a" a lower case letter, "A" an upper  *)
(* case one, "e2" and "E2" such letters of two bytes, "_", the blanks, the *)
(* quote and the backslash, "ctl" another control character, "bad" a byte  *)
(* that is not UTF-8.                                                      *)
(***************************************************************************)
EXTENDS Integers, Sequences, SequencesExt

CONSTANTS
  Stopwords,  \* lower case words that are no terms
  MaxScan     \* bytes of a text that are scanned for terms

ASSUME MaxScanIsNat == MaxScan \in Nat

Letters == {"a", "A", "e2", "E2"}
Blank == " "
Newline == "\n"
Return == "\r"
Tab == "\t"
Quote == "\""
Slash == "\\"
Spaces == {Blank, Newline, Return, Tab}

-----------------------------------------------------------------------------
(* Terms.                                                                  *)

IsTermRune(c) == c \in Letters
IsUpper(c) == c \in {"A", "E2"}

Lower(seg) ==
  [i \in DOMAIN seg |-> CASE seg[i] = "A" -> "a"
                         [] seg[i] = "E2" -> "e2"
                         [] OTHER -> seg[i]]

Bytes(seg) == Len(seg) + Cardinality({i \in DOMAIN seg : seg[i] \in {"e2", "E2"}})

(* emitTerm: short segments and stopwords are no terms.                    *)
EmitTerm(dst, seg) ==
  IF Bytes(seg) < 3 \/ Lower(seg) \in Stopwords THEN dst
  ELSE Append(dst, Lower(seg))

EndSegment(st) == [st EXCEPT !.dst = EmitTerm(@, st.seg), !.seg = <<>>]
StartSegment(st, c) == [st EXCEPT !.seg = <<c>>, !.prevUpper = IsUpper(c)]
GrowSegment(st, c) == [st EXCEPT !.seg = Append(@, c), !.prevUpper = IsUpper(c)]

\* Mutant of TermStep: the case of the rune before is not kept up to date.
TermStepFirstCase(st, c) ==
  CASE ~IsTermRune(c) -> EndSegment(st)
    [] IsTermRune(c) /\ st.seg = <<>> -> StartSegment(st, c)
    [] OTHER -> IF IsUpper(c) /\ ~st.prevUpper
                THEN [StartSegment(EndSegment(st), c) EXCEPT !.prevUpper = st.prevUpper]
                ELSE [GrowSegment(st, c) EXCEPT !.prevUpper = st.prevUpper]

(* A segment starts at a term rune, is cut where lower case turns upper,   *)
(* and ends at any other rune.                                             *)
TermStep(st, c) ==
  CASE ~IsTermRune(c) -> EndSegment(st)
    [] IsTermRune(c) /\ st.seg = <<>> -> StartSegment(st, c)
    [] OTHER -> IF IsUpper(c) /\ ~st.prevUpper
                THEN StartSegment(EndSegment(st), c)
                ELSE GrowSegment(st, c)

NoTerms == [dst |-> <<>>, seg |-> <<>>, prevUpper |-> FALSE]

TermsTo(s) ==
  LET after[n \in 0 .. Len(s)] ==
        IF n = 0 THEN NoTerms ELSE TermStep(after[n - 1], s[n])
  IN after

TermsIn(s) == EndSegment(TermsTo(s)[Len(s)]).dst

(* A longer text is cut; of a rune cut in two there remains a byte that is *)
(* no letter.                                                              *)
ScanPart(s) ==
  LET whole == Max({n \in 0 .. Len(s) : Bytes(SubSeq(s, 1, n)) <= MaxScan})
      cut == SubSeq(s, 1, whole)
  IN IF whole = Len(s) \/ Bytes(cut) = MaxScan THEN cut ELSE Append(cut, "bad")

Tokenize(s) == TermsIn(ScanPart(s))

(* The terms of a text, by position: maximal runs of letters, cut before   *)
(* each upper case letter that follows one that is not.                    *)
SegStarts(s, i) ==
  /\ IsTermRune(s[i])
  /\ \/ i = 1 \/ ~IsTermRune(s[i - 1])
     \/ IsUpper(s[i]) /\ ~IsUpper(s[i - 1])

SegEnds(s, j) == j = Len(s) \/ ~IsTermRune(s[j + 1]) \/ SegStarts(s, j + 1)

Segments(s) ==
  {seg \in (DOMAIN s) \X (DOMAIN s) :
     /\ seg[1] <= seg[2] /\ SegStarts(s, seg[1]) /\ SegEnds(s, seg[2])
     /\ \A k \in seg[1] .. seg[2] - 1 : ~SegEnds(s, k) /\ IsTermRune(s[k])}

Term(s, seg) == Lower(SubSeq(s, seg[1], seg[2]))

-----------------------------------------------------------------------------
(* The token estimate.                                                     *)

WordCharsPerToken == 4
PunctCharsPerToken == 2

CeilDiv(n, d) == (n + d - 1) \div d

IsWordRune(c) == c \in Letters \cup {"_"}

EndWordRun(st) ==
  [st EXCEPT !.tokens = @ + CeilDiv(st.word, WordCharsPerToken), !.word = 0]
EndPunctRun(st) ==
  [st EXCEPT !.tokens = @ + CeilDiv(st.punct, PunctCharsPerToken), !.punct = 0]
CountWord(st) == [st EXCEPT !.word = @ + 1]
CountPunct(st) == [st EXCEPT !.punct = @ + 1]

\* Mutant of TokenStep: whitespace ends a run of punctuation.
TokenStepSpaceEnds(st, c) ==
  CASE IsWordRune(c) -> CountWord(EndPunctRun(st))
    [] c \in Spaces -> EndPunctRun(EndWordRun(st))
    [] OTHER -> CountPunct(EndWordRun(st))

TokenStep(st, c) ==
  CASE IsWordRune(c) -> CountWord(EndPunctRun(st))
    [] c \in Spaces -> EndWordRun(st)
    [] OTHER -> CountPunct(EndWordRun(st))

NoTokens == [tokens |-> 0, word |-> 0, punct |-> 0]

TokensTo(s) ==
  LET after[n \in 0 .. Len(s)] ==
        IF n = 0 THEN NoTokens ELSE TokenStep(after[n - 1], s[n])
  IN after

EstimateTokens(s) == EndPunctRun(EndWordRun(TokensTo(s)[Len(s)])).tokens

(* Two runes of a kind are in one run when nothing but runes of that kind, *)
(* or of skip, stands between them.  A run is known by its first rune.     *)
Together(s, i, j, kind, skip) ==
  i <= j /\ s[i] \in kind /\ s[j] \in kind /\ \A k \in i .. j : s[k] \in kind \cup skip

RunStarts(s, kind, skip) ==
  {i \in DOMAIN s : s[i] \in kind /\ \A h \in 1 .. i - 1 : ~Together(s, h, i, kind, skip)}

RunLength(s, i, kind, skip) == Cardinality({j \in DOMAIN s : Together(s, i, j, kind, skip)})

CostOfRuns(s, kind, skip, perToken) ==
  LET starts == RunStarts(s, kind, skip)
  IN SumFunctionOnSet([i \in starts |-> CeilDiv(RunLength(s, i, kind, skip), perToken)],
                      starts)

-----------------------------------------------------------------------------
(* The compressed form.                                                    *)

Ellipsis == "..."

\* Mutant of CutAt: the ellipsis is not counted.
CutAtBudget(s, max) ==
  LET spaces == {k \in (max * 2) \div 3 + 1 .. max - 1 : s[k + 1] = Blank}
  IN IF spaces # {} THEN Max(spaces) ELSE max

(* How many runes of a text longer than max are kept: up to the last space *)
(* of the final third, or one less than max for the ellipsis; nothing is   *)
(* less than one rune.                                                     *)
CutAt(s, max) ==
  LET spaces == {k \in (max * 2) \div 3 + 1 .. max - 1 : s[k + 1] = Blank}
  IN IF spaces # {} THEN Max(spaces) ELSE IF max = 1 THEN 1 ELSE max - 1

Truncate(s, max) ==
  IF max <= 0 THEN <<>>
  ELSE IF Len(s) <= max THEN s
  ELSE Append(SubSeq(s, 1, CutAt(s, max)), Ellipsis)

(* The description of a compressed tool: its own, or its title, shortened. *)
CompressedDescription(description, title, max) ==
  Truncate(IF description = <<>> THEN title ELSE description, max)

\* Mutant of Escaped: control characters go through.
EscapedQuotesOnly(c) ==
  CASE c \in {Quote, Slash} -> <<Slash, c>>
    [] c = "bad" -> <<"fffd">>
    [] OTHER -> <<c>>

Escaped(c) ==
  CASE c \in {Quote, Slash} -> <<Slash, c>>
    [] c = Newline -> <<Slash, "n">>
    [] c = Return -> <<Slash, "r">>
    [] c = Tab -> <<Slash, "t">>
    [] c = "ctl" -> <<Slash, "u", "0", "0", "0", "1">>
    [] c = "bad" -> <<"fffd">>
    [] OTHER -> <<c>>

(* appendJSONString.                                                       *)
JSONString(s) ==
  <<Quote>> \o FlattenSeq([i \in DOMAIN s |-> Escaped(s[i])]) \o <<Quote>>

(* How a client reads a JSON string, rune by rune.  A raw control          *)
(* character, a byte that is not UTF-8, an escape it does not know and     *)
(* anything after the closing quote break it.                              *)
Hex == <<"u", "0", "0", "0", "1">>  \* a control character, after its backslash

ReadStart == [read |-> <<>>, mode |-> "before", digits |-> 0]

Turn(st, mode) == [st EXCEPT !.mode = mode]
Got(st, c) == [st EXCEPT !.read = Append(@, c), !.mode = "text"]
Digit(st) == [st EXCEPT !.mode = "hex", !.digits = @ + 1]
Control(st) == [st EXCEPT !.read = Append(@, "ctl"), !.mode = "text", !.digits = 0]

ReadText(st, c) ==
  CASE c = Quote -> Turn(st, "end")
    [] c = Slash -> Turn(st, "escape")
    [] c \in {Newline, Return, Tab, "ctl", "bad"} -> Turn(st, "broken")
    [] OTHER -> Got(st, c)

ReadEscape(st, c) ==
  CASE c \in {Quote, Slash} -> Got(st, c)
    [] c = "n" -> Got(st, Newline)
    [] c = "r" -> Got(st, Return)
    [] c = "t" -> Got(st, Tab)
    [] c = Hex[1] -> Digit(st)
    [] OTHER -> Turn(st, "broken")

ReadDigit(st, c) ==
  CASE c # Hex[st.digits + 1] -> Turn(st, "broken")
    [] c = Hex[st.digits + 1] /\ st.digits + 1 < Len(Hex) -> Digit(st)
    [] OTHER -> Control(st)

ReadRune(st, c) ==
  CASE st.mode = "before" -> Turn(st, IF c = Quote THEN "text" ELSE "broken")
    [] st.mode = "text" -> ReadText(st, c)
    [] st.mode = "escape" -> ReadEscape(st, c)
    [] st.mode = "hex" -> ReadDigit(st, c)
    [] OTHER -> Turn(st, "broken")

ReadTo(t) ==
  LET after[i \in 0 .. Len(t)] ==
        IF i = 0 THEN ReadStart ELSE ReadRune(after[i - 1], t[i])
  IN after

(* What it may read from t: one text, or none when t is no string.         *)
Readings(t) ==
  LET end == ReadTo(t)[Len(t)]
  IN IF end.mode = "end" THEN {end.read} ELSE {}

-----------------------------------------------------------------------------
(* The terms of a text are the segments of what is scanned of it, left to  *)
(* right, without the short ones and the stopwords, whatever state the     *)
(* loop is in when a segment begins (terms.go: "splits camelCase and       *)
(* snake_case identifiers").                                               *)
TermsAreSegments(s) ==
  LET t == ScanPart(s)
      kept == {seg \in Segments(t) : Bytes(Term(t, seg)) >= 3 /\ Term(t, seg) \notin Stopwords}
      place(seg) == Cardinality({other \in kept : other[1] <= seg[1]})
  IN /\ Len(Tokenize(s)) = Cardinality(kept)
     /\ \A seg \in kept : Tokenize(s)[place(seg)] = Term(t, seg)

(* One token for every four runes of a word and every two of a cluster of  *)
(* punctuation, rounded up; whitespace ends a word but not a cluster       *)
(* (tokens.go).                                                            *)
EstimateCountsRuns(s) ==
  LET word == Letters \cup {"_"}
      punct == ToSet(s) \ (word \cup Spaces)
  IN EstimateTokens(s) = CostOfRuns(s, word, {}, WordCharsPerToken)
                         + CostOfRuns(s, punct, Spaces, PunctCharsPerToken)

(* What truncate makes of a text has at most max runes, its ellipsis       *)
(* included (prune.go: "cuts s to at most max runes").                     *)
AtMost(s, max) == Len(Truncate(s, max)) <= max

(* A text within the budget is left alone; a longer one keeps a prefix, at *)
(* least two thirds of the budget less one rune, up to a space when the    *)
(* final third has one; shortening it again changes nothing; and it is at  *)
(* most as long as the budget.                                             *)
TruncateWithin(s, max) ==
  LET t == Truncate(s, max)
      n == Len(t) - 1
  IN IF max <= 0 THEN t = <<>>
     ELSE IF Len(s) <= max THEN t = s
     ELSE /\ AtMost(s, max)
          /\ SubSeq(t, 1, n) = SubSeq(s, 1, n) /\ Last(t) = Ellipsis
          /\ 3 * (n + 1) >= 2 * max
          /\ (\E k \in (2 * max) \div 3 + 2 .. max : s[k] = Blank) => s[n + 1] = Blank
          /\ Truncate(t, max) = t

(* The description of a compressed tool arrives as one JSON string, and    *)
(* reads as the shortened text: no quote, newline or broken rune of the    *)
(* server's text can end the string, or the line (prune.go: "the output is *)
(* always valid JSON even if the upstream server is not").                 *)
DescriptionReadsBack(s, max) ==
  LET d == CompressedDescription(s, s, max)
  IN Readings(JSONString(d)) =
       {[i \in DOMAIN d |-> IF d[i] = "bad" THEN "fffd" ELSE d[i]]}
=============================================================================
