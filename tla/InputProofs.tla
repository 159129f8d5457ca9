----------------------------- MODULE InputProofs -----------------------------
(***************************************************************************)
(* What the pure algorithms guarantee for inputs of every length: settings *)
(* are safe and analyze previews with those of the proxy, descriptions are *)
(* shortened within their budget, a pass emits what PruneTiers decides and *)
(* accounts for all of it, a quoted command line is split back into its    *)
(* words, a description reads back from its JSON string, and the tokens    *)
(* and terms of a text are those of its runs and segments.                 *)
(***************************************************************************)
EXTENDS MCInputs, RankingProofs, SequenceTheorems

(* A file, or the flags: integers for some of the settings.                *)
IsPartial(f) ==
  /\ f = [s \in DOMAIN f |-> f[s]]
  /\ DOMAIN f \subseteq Settings
  /\ \A s \in DOMAIN f : f[s] \in Int

IsConfig(cfg) == \A s \in Settings : cfg[s] \in Int

LEMMA DefaultsSafe == SafeConfig(Defaults) /\ IsConfig(Defaults)
  BY DEF SafeConfig, IsConfig, Defaults, Settings, Safe, NonNegative, Positive

LEMMA NamesApart ==
  /\ NonNegative \cap Positive = {}
  /\ "TermDecay" \notin NonNegative \cup Positive
  BY DEF NonNegative, Positive

(* One setting of Normalize: in range, and unchanged if it already was.    *)
LEMMA NormalizeOne ==
  ASSUME NEW s \in Settings, NEW v \in Int
  PROVE  LET w == Restored(s, Clamped(s, v))
         IN w \in Int /\ Safe(s, w) /\ (Safe(s, v) => w = v)
<1>1. Defaults[s] \in Int /\ Safe(s, Defaults[s])
  BY DefaultsSafe DEF SafeConfig
<1>2. CASE s \in NonNegative
  BY <1>2, NamesApart DEF Restored, Clamped, Safe
<1>3. CASE s \in Positive
  BY <1>1, <1>3, NamesApart DEF Restored, Clamped, Safe
<1>4. CASE s = "TermDecay"
  BY <1>1, <1>4, NamesApart DEF Restored, Clamped, Safe
<1>5. CASE s \notin NonNegative \cup Positive \cup {"TermDecay"}
  BY <1>5 DEF Restored, Clamped, Safe
<1> QED BY <1>2, <1>3, <1>4, <1>5

LEMMA NormalizeSafe ==
  ASSUME NEW cfg, IsConfig(cfg)
  PROVE  /\ IsConfig(Normalize(cfg)) /\ SafeConfig(Normalize(cfg))
         /\ \A s \in Settings : Safe(s, cfg[s]) => Normalize(cfg)[s] = cfg[s]
  BY NormalizeOne DEF IsConfig, SafeConfig, Normalize

(* A hand-written file can never put the pruner into an unsafe state, and  *)
(* what it says in range is kept (config.go, Normalize and LoadConfig).    *)
LEMMA LoadSafe ==
  ASSUME NEW given, IsPartial(given)
  PROVE  /\ IsConfig(LoadConfig(given)) /\ SafeConfig(LoadConfig(given))
         /\ \A s \in Settings :
              LET v == IF s \in DOMAIN given THEN given[s] ELSE Defaults[s]
              IN Safe(s, v) => LoadConfig(given)[s] = v
<1> DEFINE merged == [s \in Settings |->
                        IF s \in DOMAIN given THEN given[s] ELSE Defaults[s]]
<1>1. \A s \in Settings :
        merged[s] = IF s \in DOMAIN given THEN given[s] ELSE Defaults[s]
  OBVIOUS
<1>2. IsConfig(merged)
  BY <1>1, DefaultsSafe DEF IsConfig, IsPartial
<1> QED BY <1>1, <1>2, NormalizeSafe DEF LoadConfig

LEMMA OverriddenIs ==
  ASSUME NEW cfg, IsConfig(cfg), SafeConfig(cfg),
         NEW chosen, IsPartial(chosen), DOMAIN chosen \subseteq NonNegative
  PROVE  /\ IsConfig(Overridden(cfg, chosen))
         /\ SafeConfig(Overridden(cfg, chosen))
<1> SUFFICES ASSUME NEW s \in Settings
             PROVE  /\ Overridden(cfg, chosen)[s] \in Int
                    /\ Safe(s, Overridden(cfg, chosen)[s])
  BY DEF IsConfig, SafeConfig
<1>1. CASE s \in DOMAIN chosen /\ chosen[s] >= 0
  BY <1>1, NamesApart DEF Overridden, IsPartial, Safe
<1>2. CASE ~(s \in DOMAIN chosen /\ chosen[s] >= 0)
  BY <1>2 DEF Overridden, IsConfig, SafeConfig
<1> QED BY <1>1, <1>2

(* Whatever integers the file and the flags give, the pruner starts with   *)
(* settings in range, every setting is the last in-range value given for   *)
(* it (main.go, run), and the limits of the graph are those of the file or *)
(* the defaults (graph.go, New).                                           *)
THEOREM StartSafe ==
  ASSUME NEW given, IsPartial(given), NEW chosen, IsPartial(chosen),
         DOMAIN chosen \subseteq RunFlags
  PROVE  /\ SafeConfig(StartConfig(given, chosen))
         /\ Honoured(given, chosen, StartConfig(given, chosen))
         /\ LimitsHonoured(given, NewLimits(StartConfig(given, chosen)))
<1> DEFINE known == Given(chosen, RunFlags)
           loaded == LoadConfig(given)
           result == Overridden(loaded, known)
<1>1. /\ DOMAIN known = DOMAIN chosen
      /\ \A s \in DOMAIN chosen : known[s] = chosen[s]
  BY DEF Given
<1>2. IsPartial(known) /\ DOMAIN known \subseteq NonNegative
  <2>1. DOMAIN chosen \subseteq NonNegative
    BY DEF RunFlags, NonNegative
  <2>2. known = [s \in DOMAIN known |-> known[s]]
    BY DEF Given
  <2> QED BY <1>1, <2>1, <2>2 DEF IsPartial
<1>3. IsConfig(loaded) /\ SafeConfig(loaded)
  BY LoadSafe
<1>4. IsConfig(result) /\ SafeConfig(result)
  <2> HIDE DEF known, loaded
  <2> QED BY <1>2, <1>3, OverriddenIs
<1>5. StartConfig(given, chosen) = Normalize(result)
  BY DEF StartConfig
<1>6. \A s \in Settings : Normalize(result)[s] = result[s]
  <2> HIDE DEF result
  <2> QED BY <1>4, NormalizeSafe DEF SafeConfig
<1>7. SafeConfig(StartConfig(given, chosen))
  <2> HIDE DEF result
  <2> QED BY <1>4, <1>5, NormalizeSafe
<1>8. Honoured(given, chosen, StartConfig(given, chosen))
  <2> SUFFICES ASSUME NEW s \in Settings
               PROVE  LET flag == s \in DOMAIN chosen /\ chosen[s] >= 0
                      IN /\ flag => result[s] = chosen[s]
                         /\ ~flag /\ s \in DOMAIN given /\ Safe(s, given[s])
                              => result[s] = given[s]
                         /\ ~flag /\ s \notin DOMAIN given
                              => result[s] = Defaults[s]
    BY <1>5, <1>6 DEF Honoured
  <2>1. result[s] = IF s \in DOMAIN chosen /\ chosen[s] >= 0
                    THEN chosen[s] ELSE loaded[s]
    BY <1>1 DEF Overridden
  <2>2. s \in DOMAIN given /\ Safe(s, given[s]) => loaded[s] = given[s]
    BY LoadSafe
  <2>3. s \notin DOMAIN given => loaded[s] = Defaults[s]
    BY LoadSafe, DefaultsSafe DEF SafeConfig
  <2> HIDE DEF result, loaded
  <2> QED BY <2>1, <2>2, <2>3
<1>9. LimitsHonoured(given, NewLimits(StartConfig(given, chosen)))
  <2> SUFFICES ASSUME NEW s \in DOMAIN GraphDefaults
               PROVE  NewLimits(StartConfig(given, chosen))[s] =
                        IF s \in DOMAIN given /\ given[s] > 0
                        THEN given[s] ELSE Defaults[s]
    BY DEF LimitsHonoured
  <2> DEFINE settled == StartConfig(given, chosen)[s]
  <2>1. /\ s \in Settings /\ s \notin RunFlags
        /\ s \notin NonNegative \cup Positive \cup {"TermDecay"}
        /\ GraphDefaults[s] = Defaults[s] /\ Defaults[s] > 0
    BY DEF GraphDefaults, Settings, Defaults, RunFlags, NonNegative, Positive
  <2>2. s \notin DOMAIN chosen
    BY <2>1
  <2>3. s \in DOMAIN given => settled = given[s] /\ given[s] \in Int
    BY <1>8, <2>1, <2>2 DEF Honoured, Safe, IsPartial
  <2>4. s \notin DOMAIN given => settled = Defaults[s]
    BY <1>8, <2>1, <2>2 DEF Honoured
  <2>5. NewLimits(StartConfig(given, chosen))[s] =
          IF settled <= 0 THEN Defaults[s] ELSE settled
    BY <2>1 DEF NewLimits
  <2>6. Defaults[s] \in Int
    BY <2>1, DefaultsSafe DEF SafeConfig
  <2> HIDE DEF settled
  <2> QED BY <2>1, <2>3, <2>4, <2>5, <2>6
<1> QED BY <1>7, <1>8, <1>9

(* Without min-tools, the one flag analyze does not have, a preview is     *)
(* made with the settings of the proxy (analyze.go, runAnalyze).           *)
THEOREM PreviewFaithful ==
  ASSUME NEW given, NEW chosen, "MinTools" \notin DOMAIN chosen
  PROVE  AnalyzeConfig(given, chosen) = StartConfig(given, chosen)
<1>1. (DOMAIN chosen) \cap AnalyzeFlags = (DOMAIN chosen) \cap RunFlags
  BY DEF AnalyzeFlags
<1>2. Given(chosen, AnalyzeFlags) = Given(chosen, RunFlags)
  BY <1>1 DEF Given
<1> QED BY <1>2 DEF AnalyzeConfig, StartConfig

(* What the inputs of a run are: some settings of a file, some flags.      *)
GivenOK == IsPartial(file) /\ IsPartial(flags) /\ DOMAIN flags \subseteq RunFlags

LEMMA GivingIsPartial ==
  ASSUME NEW given, IsPartial(given), NEW s \in Settings, NEW v \in Values
  PROVE  /\ IsPartial(Giving(given, s, v))
         /\ DOMAIN Giving(given, s, v) = DOMAIN given \cup {s}
<1> DEFINE dom == DOMAIN given \cup {s}
           more == [k \in dom |-> IF k = s THEN v ELSE given[k]]
<1>1. v \in Int
  BY DEF Values
<1>2. DOMAIN more = dom /\ \A k \in dom : more[k] \in Int
  BY <1>1 DEF IsPartial
<1>3. more = [k \in DOMAIN more |-> more[k]]
  OBVIOUS
<1>4. Giving(given, s, v) = more
  BY DEF Giving
<1>5. dom \subseteq Settings
  BY DEF IsPartial
<1> HIDE DEF more
<1>6. IsPartial(more)
  BY <1>2, <1>3, <1>5 DEF IsPartial
<1> QED BY <1>2, <1>4, <1>6

(* However many settings are given, in a file and as flags, the pruner     *)
(* starts in range, honours the last value in range, gives its graph the   *)
(* limits of the file or the defaults, and analyze previews with the same  *)
(* settings (config.go; graph.go, New; main.go, run; analyze.go).          *)
THEOREM ConfigAlwaysSafe == Spec => []ConfigSafe
<1>1. Init => GivenOK
  <2> SUFFICES ASSUME Init PROVE GivenOK
    OBVIOUS
  <2>1. DOMAIN <<>> = {}
    OBVIOUS
  <2>2. <<>> = [s \in DOMAIN <<>> |-> <<>>[s]]
    BY <2>1
  <2> QED BY <2>1, <2>2 DEF Init, GivenOK, IsPartial
<1>2. GivenOK /\ [Next]_vars => GivenOK'
  <2> SUFFICES ASSUME GivenOK, [Next]_vars PROVE GivenOK'
    OBVIOUS
  <2>1. CASE UNCHANGED <<file, flags>>
    BY <2>1 DEF GivenOK, IsPartial
  <2>2. CASE AddToFile
    <3>1. PICK s \in Settings, v \in Values : file' = Giving(file, s, v)
      BY <2>2 DEF AddToFile
    <3>2. IsPartial(file')
      BY <3>1, GivingIsPartial DEF GivenOK
    <3> QED BY <2>2, <3>2 DEF AddToFile, GivenOK
  <2>3. CASE AddFlag
    <3>1. RunFlags \subseteq Settings
      BY DEF RunFlags, Settings, Defaults
    <3>2. PICK s \in RunFlags, v \in Values : flags' = Giving(flags, s, v)
      BY <2>3 DEF AddFlag
    <3>3. s \in Settings /\ v \in Values /\ s \in RunFlags
      BY <3>1, <3>2
    <3>4. /\ IsPartial(Giving(flags, s, v))
          /\ DOMAIN Giving(flags, s, v) = DOMAIN flags \cup {s}
      BY <3>3, GivingIsPartial DEF GivenOK
    <3>5. IsPartial(flags') /\ DOMAIN flags' \subseteq RunFlags
      BY <3>2, <3>3, <3>4 DEF GivenOK
    <3> QED BY <2>3, <3>5 DEF AddFlag, GivenOK
  <2> QED BY <2>1, <2>2, <2>3 DEF Next, AddPiece, AddRune, AddTool, vars
<1>3. GivenOK => ConfigSafe
  BY StartSafe, PreviewFaithful DEF GivenOK, ConfigSafe
<1> QED BY <1>1, <1>2, <1>3, PTL DEF Spec

-----------------------------------------------------------------------------
(* Shortening a description.                                               *)

LEMMA MaxOfBounded ==
  ASSUME NEW lo \in Int, NEW hi \in Int, NEW S \in SUBSET (lo .. hi), S # {}
  PROVE  Max(S) \in S
<1> DEFINE gaps == {hi - x : x \in S}
<1>1. gaps \in SUBSET Nat /\ gaps # {}
  <2>1. \A x \in S : hi - x \in Nat
    OBVIOUS
  <2> QED BY <2>1
<1>2. PICK g \in gaps : \A d \in gaps : <<d, g>> \notin OpToRel(<, Nat)
  BY <1>1, NatLessThanWellFounded, WFMin
<1>3. PICK x \in S : g = hi - x
  BY <1>2
<1>4. \A y \in S : x >= y
  <2> SUFFICES ASSUME NEW y \in S, x < y PROVE FALSE
    OBVIOUS
  <2>1. hi - y \in gaps /\ hi - y \in Nat /\ g \in Nat /\ hi - y < g
    BY <1>1, <1>3
  <2> QED BY <1>2, <2>1 DEF OpToRel
<1> QED BY <1>3, <1>4 DEF Max

(* Where a longer text is cut: in the last third of the budget, at its     *)
(* last space if there is one, and always with room for the ellipsis,      *)
(* unless the budget is a single rune.                                     *)
LEMMA CutInRange ==
  ASSUME NEW max \in Nat, max > 0, NEW s
  PROVE  /\ CutAt(s, max) \in 1 .. max
         /\ 3 * (CutAt(s, max) + 1) >= 2 * max
         /\ max > 1 => CutAt(s, max) + 1 <= max
         /\ (\E k \in (2 * max) \div 3 + 2 .. max : s[k] = Blank)
              => s[CutAt(s, max) + 1] = Blank
<1> DEFINE third == (2 * max) \div 3
           spaces == {k \in third + 1 .. max - 1 : s[k + 1] = Blank}
<1>1. third \in Nat /\ 3 * third <= 2 * max /\ 2 * max < 3 * third + 3
  OBVIOUS
<1>2. CutAt(s, max) = IF spaces # {} THEN Max(spaces)
                      ELSE IF max = 1 THEN 1 ELSE max - 1
  <2>1. max * 2 = 2 * max
    OBVIOUS
  <2> QED BY <2>1 DEF CutAt
<1> HIDE DEF third
<1>3. CASE spaces # {}
  <2>1. Max(spaces) \in spaces
    <3>1. third + 1 \in Int /\ max - 1 \in Int
      BY <1>1
    <3>2. spaces \in SUBSET (third + 1 .. max - 1)
      OBVIOUS
    <3> HIDE DEF spaces
    <3> QED BY <1>3, <3>1, <3>2, MaxOfBounded
  <2> DEFINE n == Max(spaces)
  <2>2. n \in third + 1 .. max - 1 /\ s[n + 1] = Blank /\ CutAt(s, max) = n
    BY <1>2, <1>3, <2>1
  <2> HIDE DEF n
  <2> QED BY <1>1, <2>2
<1>4. CASE spaces = {}
  <2>1. ~ \E k \in third + 2 .. max : s[k] = Blank
    <3> SUFFICES ASSUME NEW k \in third + 2 .. max, s[k] = Blank PROVE FALSE
      OBVIOUS
    <3>1. k - 1 \in third + 1 .. max - 1 /\ (k - 1) + 1 = k
      BY <1>1
    <3>2. k - 1 \in spaces
      BY <3>1
    <3> QED BY <1>4, <3>2
  <2>2. CutAt(s, max) = IF max = 1 THEN 1 ELSE max - 1
    BY <1>2, <1>4
  <2> HIDE DEF spaces
  <2> QED BY <2>1, <2>2 DEF third
<1> QED BY <1>3, <1>4

(* Whatever its runes, a text is cut where truncate promises to cut it,    *)
(* and within its budget, but for that of one rune (prune.go).             *)
THEOREM TruncateKeepsWithin ==
  ASSUME NEW R, NEW s \in Seq(R), NEW max \in Int, max # 1
  PROVE  TruncateWithin(s, max)
<1>1. CASE max <= 0
  BY <1>1 DEF TruncateWithin, Truncate
<1>2. CASE max > 0 /\ Len(s) <= max
  BY <1>2 DEF TruncateWithin, Truncate
<1>3. CASE max > 0 /\ Len(s) > max
  <2> DEFINE n == CutAt(s, max)
             kept == SubSeq(s, 1, n)
             t == Truncate(s, max)
  <2>1. max \in Nat
    BY <1>3
  <2>2. /\ n \in 1 .. max /\ 3 * (n + 1) >= 2 * max
        /\ n + 1 <= max
        /\ (\E k \in (2 * max) \div 3 + 2 .. max : s[k] = Blank) => s[n + 1] = Blank
    BY <1>3, <2>1, CutInRange
  <2>3. t = Append(kept, Ellipsis)
    <3>1. ~(max <= 0) /\ ~(Len(s) <= max)
      BY <1>3
    <3> QED BY <3>1, Zenon DEF Truncate
  <2> HIDE DEF n, t
  <2>4. kept \in Seq(R) /\ Len(kept) = n /\ \A k \in 1 .. n : kept[k] = s[k]
    BY <1>3, <2>2
  <2> DEFINE S == R \cup {Ellipsis}
  <2>5. kept \in Seq(S) /\ Ellipsis \in S
    BY <2>4
  <2> HIDE DEF kept, S
  <2>6. /\ t \in Seq(S) /\ Len(t) = n + 1 /\ t[n + 1] = Ellipsis
        /\ \A k \in 1 .. n : t[k] = kept[k]
    BY <2>2, <2>3, <2>4, <2>5
  <2>7. SubSeq(t, 1, n) = kept
    <3>1. SubSeq(t, 1, n) \in Seq(S) /\ Len(SubSeq(t, 1, n)) = n
      BY <2>2, <2>6
    <3>2. \A k \in 1 .. n : SubSeq(t, 1, n)[k] = kept[k]
      BY <2>2, <2>6
    <3> QED BY <2>4, <2>5, <3>1, <3>2
  <2>8. Truncate(t, max) = t
    BY <1>3, <2>1, <2>2, <2>6 DEF Truncate
  <2>9. Last(t) = Ellipsis
    BY <2>6 DEF Last
  <2> DEFINE within(u) ==
        /\ AtMost(s, max)
        /\ SubSeq(u, 1, Len(u) - 1) = SubSeq(s, 1, Len(u) - 1)
        /\ Last(u) = Ellipsis
        /\ 3 * (Len(u) - 1 + 1) >= 2 * max
        /\ (\E k \in (2 * max) \div 3 + 2 .. max : s[k] = Blank)
             => s[Len(u) - 1 + 1] = Blank
        /\ Truncate(u, max) = u
  <2>10. Len(t) - 1 = n /\ Len(t) - 1 + 1 = n + 1
    BY <2>2, <2>6
  <2>11. AtMost(s, max)
    BY <1>3, <2>1, <2>2, <2>6 DEF AtMost, t
  <2>12. within(t)
    BY <1>3, <2>2, <2>6, <2>7, <2>8, <2>9, <2>10, <2>11 DEF kept
  <2> QED BY <1>3, <2>12 DEF TruncateWithin, t
<1> QED BY <1>1, <1>2, <1>3

(* With a budget of one rune no text that is cut is kept to it: it gets a  *)
(* rune and the ellipsis, although truncate is to cut "to at most max      *)
(* runes" (prune.go).                                                      *)
THEOREM BudgetOfOneExceeded ==
  ASSUME NEW R, NEW s \in Seq(R), Len(s) > 1
  PROVE  ~AtMost(s, 1)
<1> DEFINE kept == SubSeq(s, 1, CutAt(s, 1))
<1>1. CutAt(s, 1) = 1
  <2>1. CutAt(s, 1) \in 1 .. 1
    BY CutInRange
  <2> QED BY <2>1
<1>2. kept \in Seq(R) /\ Len(kept) = 1
  BY <1>1
<1> HIDE DEF kept
<1>3. Len(Append(kept, Ellipsis)) = 2
  <2> DEFINE S == R \cup {Ellipsis}
  <2>1. kept \in Seq(S) /\ Ellipsis \in S
    BY <1>2
  <2> HIDE DEF S
  <2>2. Len(Append(kept, Ellipsis)) = Len(kept) + 1
    BY <2>1
  <2> QED BY <1>2, <2>2
<1>4. Truncate(s, 1) = Append(kept, Ellipsis)
  <2>1. ~(1 <= 0) /\ ~(Len(s) <= 1)
    OBVIOUS
  <2> QED BY <2>1, Zenon DEF Truncate, kept
<1> QED BY <1>3, <1>4 DEF AtMost

(* However long the text of a server, its description is cut where         *)
(* truncate promises, within every budget but that of one rune (prune.go). *)
THEOREM DescriptionsFit ==
  ASSUME MaxText \in Nat
  PROVE  Spec => []TruncateBounded
<1>1. Init => text \in Seq(TextRunes)
  BY DEF Init
<1>2. text \in Seq(TextRunes) /\ [Next]_vars => (text \in Seq(TextRunes))'
  BY DEF Next, AddPiece, AddRune, AddTool, AddToFile, AddFlag, vars
<1>3. text \in Seq(TextRunes) => TruncateBounded
  BY TruncateKeepsWithin DEF TruncateBounded
<1> QED BY <1>1, <1>2, <1>3, PTL DEF Spec

-----------------------------------------------------------------------------
(* A list the proxy hands to Prune: sizes are natural numbers, scores any  *)
(* integers.                                                               *)
IsTool(tool) == tool.raw \in Nat /\ tool.small \in Nat /\ tool.score \in Int

IsList(tools) ==
  /\ Len(tools) \in Nat /\ DOMAIN tools = 1 .. Len(tools)
  /\ \A i \in DOMAIN tools : IsTool(tools[i])

(* The comparator of the sort as a relation between positions.             *)
SortsBefore(tools, policy) ==
  {p \in (DOMAIN tools) \X (DOMAIN tools) : RanksBefore(tools, policy, p[1], p[2])}

LEMMA RanksBeforeIs ==
  ASSUME NEW tools, NEW policy, NEW i, NEW j
  PROVE  RanksBefore(tools, policy, i, j) <=>
           \/ IsPinned(policy, tools[i]) /\ ~ IsPinned(policy, tools[j])
           \/ /\ IsPinned(policy, tools[i]) <=> IsPinned(policy, tools[j])
              /\ \/ ScoreOf(tools[i]) # ScoreOf(tools[j])
                    /\ ScoreOf(tools[i]) > ScoreOf(tools[j])
                 \/ ScoreOf(tools[i]) = ScoreOf(tools[j]) /\ i < j
<1>1. IsPinned(policy, tools[i]) \in BOOLEAN /\ IsPinned(policy, tools[j]) \in BOOLEAN
  BY DEF IsPinned
<1> QED BY <1>1 DEF RanksBefore

LEMMA SortsBeforeStrict ==
  ASSUME NEW tools, IsList(tools), NEW policy
  PROVE  StrictOrderOn(DOMAIN tools, SortsBefore(tools, policy))
<1> DEFINE S == DOMAIN tools
           pinned(i) == IsPinned(policy, tools[i])
           score(i) == ScoreOf(tools[i])
           before(i, j) ==
             \/ pinned(i) /\ ~ pinned(j)
             \/ /\ pinned(i) <=> pinned(j)
                /\ score(i) > score(j) \/ (score(i) = score(j) /\ i < j)
<1>1. \A i \in S : score(i) \in Int /\ i \in Int
  BY DEF IsList, IsTool, ScoreOf
<1>2. \A i, j \in S : <<i, j>> \in SortsBefore(tools, policy) <=> before(i, j)
  <2> SUFFICES ASSUME NEW i \in S, NEW j \in S
               PROVE  RanksBefore(tools, policy, i, j) <=> before(i, j)
    BY DEF SortsBefore
  <2>1. score(i) > score(j) => score(i) # score(j)
    BY <1>1
  <2> QED BY <2>1, RanksBeforeIs
<1> HIDE DEF pinned, score, S
<1>3. \A i \in S : ~ before(i, i)
  BY <1>1
<1>4. \A i, j \in S : i # j => before(i, j) \/ before(j, i)
  BY <1>1
<1>5. \A i, j, k \in S : before(i, j) /\ before(j, k) => before(i, k)
  BY <1>1
<1> HIDE DEF before
<1> QED BY <1>2, <1>3, <1>4, <1>5 DEF StrictOrderOn, S

(* The sort of Prune gives the positions in that order.                    *)
LEMMA OrderSorts ==
  ASSUME NEW tools, IsList(tools), NEW policy
  PROVE  Sorted(Order(tools, policy), Len(tools), SortsBefore(tools, policy))
<1> DEFINE L == Len(tools)
           sorted(order) == \A m, n \in DOMAIN tools :
                              m < n => RanksBefore(tools, policy, order[m], order[n])
<1>1. L \in Nat /\ DOMAIN tools = 1 .. L
  BY DEF IsList
<1>2. ASSUME NEW p \in Bijection(1 .. L, 1 .. L)
      PROVE  sorted(p) <=> Sorted(p, L, SortsBefore(tools, policy))
  <2>1. p \in [1 .. L -> 1 .. L]
    BY Fun_BijectionProperties
  <2> QED BY <1>1, <2>1 DEF Sorted, SortsBefore
<1>3. \E p \in Bijection(1 .. L, 1 .. L) : sorted(p)
  <2>1. PICK p : Sorted(p, L, SortsBefore(tools, policy))
    BY <1>1, SortsBeforeStrict, SortedExists
  <2>2. p \in Bijection(1 .. L, 1 .. L)
    BY <2>1 DEF Sorted
  <2> HIDE DEF sorted, L
  <2> QED BY <1>2, <2>1, <2>2
<1>4. Order(tools, policy) = CHOOSE p \in Bijection(1 .. L, 1 .. L) : sorted(p)
  BY <1>1 DEF Order
<1>5. Order(tools, policy) \in Bijection(1 .. L, 1 .. L) /\ sorted(Order(tools, policy))
  <2> HIDE DEF sorted
  <2> QED BY <1>3, <1>4
<1> HIDE DEF sorted
<1> QED BY <1>2, <1>5

-----------------------------------------------------------------------------
(* The emission loop.                                                      *)
Outcome == [idx : Nat, form : {"full", "compressed"}]

Results ==
  [tools : Seq(Outcome), full : Nat, compressed : Nat, dropped : Nat,
   bytesAfter : Nat, saved : Seq(Nat)]

(* What one iteration does, by the form the tool ends in.                  *)
FormOf(tool, tier) ==
  IF tier = "dropped" THEN "dropped"
  ELSE IF tier = "compressed" /\ Compressible(tool) THEN "compressed" ELSE "full"

(* The bytes of a tool that are left in that form.                         *)
LeftOf(tool, form) ==
  IF form = "dropped" THEN 0 ELSE IF form = "compressed" THEN tool.small ELSE tool.raw

LEMMA EmitForm ==
  ASSUME NEW res, NEW idx, NEW tool, NEW tier
  PROVE  Emit(res, idx, tool, tier) =
           IF FormOf(tool, tier) = "dropped" THEN EmitDropped(res, tool)
           ELSE IF FormOf(tool, tier) = "compressed" THEN EmitCompressed(res, idx, tool)
           ELSE EmitFull(res, idx, tool)
<1>1. CASE tier = "dropped"
  BY <1>1 DEF Emit, FormOf
<1>2. CASE tier = "compressed" /\ Compressible(tool)
  BY <1>2 DEF Emit, FormOf
<1>3. CASE tier # "dropped" /\ ~ (tier = "compressed" /\ Compressible(tool))
  BY <1>3 DEF Emit, FormOf
<1> QED BY <1>1, <1>2, <1>3

LEMMA FormCompressible ==
  ASSUME NEW tool, NEW tier
  PROVE  /\ FormOf(tool, tier) \in {"full", "compressed", "dropped"}
         /\ FormOf(tool, tier) = "compressed" => tool.small < tool.raw
BY DEF FormOf, Compressible

Emits(res, new, idx, tool, form) ==
  /\ new \in Results
  /\ new.tools = IF form = "dropped" THEN res.tools
                 ELSE Append(res.tools, [idx |-> idx, form |-> form])
  /\ new.full = IF form = "full" THEN res.full + 1 ELSE res.full
  /\ new.compressed = IF form = "compressed" THEN res.compressed + 1
                      ELSE res.compressed
  /\ new.dropped = IF form = "dropped" THEN res.dropped + 1 ELSE res.dropped
  /\ LeftOf(tool, form) \in Nat /\ tool.raw - LeftOf(tool, form) \in Nat
  /\ new.bytesAfter = res.bytesAfter + LeftOf(tool, form)
  /\ new.saved = Append(res.saved, tool.raw - LeftOf(tool, form))

LEMMA EmitEffect ==
  ASSUME NEW res \in Results, NEW idx \in Nat, NEW tool, IsTool(tool), NEW tier
  PROVE  Emits(res, Emit(res, idx, tool, tier), idx, tool, FormOf(tool, tier))
<1> DEFINE new == Emit(res, idx, tool, tier)
           form == FormOf(tool, tier)
<1>0. /\ res = [tools |-> res.tools, full |-> res.full, compressed |-> res.compressed,
                dropped |-> res.dropped, bytesAfter |-> res.bytesAfter,
                saved |-> res.saved]
      /\ res.tools \in Seq(Outcome) /\ res.full \in Nat /\ res.compressed \in Nat
      /\ res.dropped \in Nat /\ res.bytesAfter \in Nat /\ res.saved \in Seq(Nat)
  BY DEF Results
<1>1. CASE form = "dropped"
  <2>0. LeftOf(tool, form) = 0
    BY <1>1 DEF LeftOf
  <2>1. new = [res EXCEPT !.dropped = @ + 1, !.saved = Append(@, tool.raw)]
    BY <1>1, EmitForm DEF EmitDropped
  <2>2. 0 \in Nat /\ tool.raw \in Nat /\ tool.raw - 0 = tool.raw
    BY DEF IsTool
  <2> HIDE DEF new, form
  <2>3. new = [tools |-> res.tools, full |-> res.full, compressed |-> res.compressed,
               dropped |-> res.dropped + 1, bytesAfter |-> res.bytesAfter,
               saved |-> Append(res.saved, tool.raw)]
    BY <1>0, <2>1
  <2>4. Append(res.saved, tool.raw) \in Seq(Nat) /\ res.dropped + 1 \in Nat
        /\ res.bytesAfter = res.bytesAfter + 0
    BY <1>0, <2>2
  <2>5. /\ new \in Results /\ new.tools = res.tools /\ new.full = res.full
        /\ new.compressed = res.compressed /\ new.dropped = res.dropped + 1
        /\ new.bytesAfter = res.bytesAfter + 0
        /\ new.saved = Append(res.saved, tool.raw)
    BY <1>0, <2>3, <2>4 DEF Results
  <2> QED BY <1>1, <2>0, <2>2, <2>5 DEF Emits, new, form
<1>2. CASE form = "compressed"
  <2>0. LeftOf(tool, form) = tool.small
    BY <1>2 DEF LeftOf
  <2>1. new = [res EXCEPT !.tools = Append(@, [idx |-> idx, form |-> "compressed"]),
                          !.compressed = @ + 1, !.bytesAfter = @ + tool.small,
                          !.saved = Append(@, tool.raw - tool.small)]
    BY <1>2, EmitForm DEF EmitCompressed
  <2>2. tool.small \in Nat /\ tool.raw - tool.small \in Nat
    BY <1>2, FormCompressible DEF IsTool
  <2>3. [idx |-> idx, form |-> "compressed"] \in Outcome
    BY DEF Outcome
  <2> HIDE DEF new, form
  <2>4. new = [tools |-> Append(res.tools, [idx |-> idx, form |-> "compressed"]),
               full |-> res.full, compressed |-> res.compressed + 1,
               dropped |-> res.dropped, bytesAfter |-> res.bytesAfter + tool.small,
               saved |-> Append(res.saved, tool.raw - tool.small)]
    BY <1>0, <2>1
  <2>5. /\ Append(res.tools, [idx |-> idx, form |-> "compressed"]) \in Seq(Outcome)
        /\ Append(res.saved, tool.raw - tool.small) \in Seq(Nat)
        /\ res.compressed + 1 \in Nat /\ res.bytesAfter + tool.small \in Nat
    BY <1>0, <2>2, <2>3
  <2>6. /\ new \in Results
        /\ new.tools = Append(res.tools, [idx |-> idx, form |-> "compressed"])
        /\ new.full = res.full
        /\ new.compressed = res.compressed + 1 /\ new.dropped = res.dropped
        /\ new.bytesAfter = res.bytesAfter + tool.small
        /\ new.saved = Append(res.saved, tool.raw - tool.small)
    BY <1>0, <2>4, <2>5 DEF Results
  <2> QED BY <1>2, <2>0, <2>2, <2>6 DEF Emits, new, form
<1>3. CASE form = "full"
  <2>0. LeftOf(tool, form) = tool.raw
    BY <1>3 DEF LeftOf
  <2>1. new = [res EXCEPT !.tools = Append(@, [idx |-> idx, form |-> "full"]),
                          !.full = @ + 1, !.bytesAfter = @ + tool.raw,
                          !.saved = Append(@, 0)]
    BY <1>3, EmitForm DEF EmitFull
  <2>2. tool.raw \in Nat /\ 0 \in Nat /\ tool.raw - tool.raw = 0
    BY DEF IsTool
  <2>3. [idx |-> idx, form |-> "full"] \in Outcome
    BY DEF Outcome
  <2> HIDE DEF new, form
  <2>4. new = [tools |-> Append(res.tools, [idx |-> idx, form |-> "full"]),
               full |-> res.full + 1, compressed |-> res.compressed,
               dropped |-> res.dropped, bytesAfter |-> res.bytesAfter + tool.raw,
               saved |-> Append(res.saved, 0)]
    BY <1>0, <2>1
  <2>5. /\ Append(res.tools, [idx |-> idx, form |-> "full"]) \in Seq(Outcome)
        /\ Append(res.saved, 0) \in Seq(Nat)
        /\ res.full + 1 \in Nat /\ res.bytesAfter + tool.raw \in Nat
    BY <1>0, <2>2, <2>3
  <2>6. /\ new \in Results
        /\ new.tools = Append(res.tools, [idx |-> idx, form |-> "full"])
        /\ new.full = res.full + 1
        /\ new.compressed = res.compressed /\ new.dropped = res.dropped
        /\ new.bytesAfter = res.bytesAfter + tool.raw
        /\ new.saved = Append(res.saved, 0)
    BY <1>0, <2>4, <2>5 DEF Results
  <2> QED BY <1>3, <2>0, <2>2, <2>6 DEF Emits, new, form
<1>4. form \in {"full", "compressed", "dropped"}
  BY FormCompressible
<1> QED BY <1>1, <1>2, <1>3, <1>4

(* Whichever order it emits in, the loop visits every position once.       *)
LEMMA EmitOrderVisits ==
  ASSUME NEW tools, IsList(tools), NEW policy
  PROVE  EmitOrder(tools, policy, Order(tools, policy))
           \in Bijection(1 .. Len(tools), 1 .. Len(tools))
<1> DEFINE S == 1 .. Len(tools)
           same == [i \in S |-> i]
<1>1. Order(tools, policy) \in Bijection(S, S)
  BY OrderSorts DEF Sorted
<1>2. same \in Bijection(S, S)
  <2>1. /\ same \in [S -> S] /\ \A a, b \in S : same[a] = same[b] => a = b
        /\ \A t \in S : \E x \in S : same[x] = t
    OBVIOUS
  <2> HIDE DEF same
  <2> QED BY <2>1, Fun_IsBij
<1>3. EmitOrder(tools, policy, Order(tools, policy)) \in {same, Order(tools, policy)}
  <2>1. DOMAIN tools = S
    BY DEF IsList
  <2> QED BY <2>1 DEF EmitOrder
<1> HIDE DEF S, same
<1>4. EmitOrder(tools, policy, Order(tools, policy)) \in Bijection(S, S)
  BY <1>1, <1>2, <1>3
<1> QED BY <1>4 DEF S

(* The recursive function of Emitted is the loop: it starts with nothing   *)
(* and emits one more tool in each iteration.                              *)
LEMMA EmittedIsLoop ==
  ASSUME NEW tools, IsList(tools), NEW policy
  PROVE  LET after == Emitted(tools, policy)
             order == Order(tools, policy)
             emit == EmitOrder(tools, policy, order)
         IN /\ \A n \in 0 .. Len(tools) : after[n] \in Results
            /\ after[0] = EmitNothing
            /\ \A n \in 1 .. Len(tools) :
                 after[n] = Emit(after[n - 1], emit[n], tools[emit[n]],
                                 TierOf(tools, policy, order, emit[n]))
<1> DEFINE L == Len(tools)
           order == Order(tools, policy)
           emit == EmitOrder(tools, policy, order)
           body(res, n) == Emit(res, emit[n], tools[emit[n]],
                                TierOf(tools, policy, order, emit[n]))
           step == [p \in Results \X (1 .. L) |-> body(p[1], p[2])]
           solves(g) == g = [n \in 0 .. L |->
                               IF n = 0 THEN EmitNothing ELSE body(g[n - 1], n)]
           after == Emitted(tools, policy)
<1>1. L \in Nat /\ \A i \in 1 .. L : IsTool(tools[i])
  BY DEF IsList
<1>2. emit \in [1 .. L -> 1 .. L]
  BY EmitOrderVisits, Fun_BijectionProperties
<1>3. EmitNothing \in Results
  BY DEF EmitNothing, Results
<1>4. ASSUME NEW res \in Results, NEW n \in 1 .. L
      PROVE  body(res, n) \in Results
  <2> HIDE DEF emit, order
  <2>1. emit[n] \in Nat /\ IsTool(tools[emit[n]])
    BY <1>1, <1>2
  <2> QED BY <2>1, EmitEffect DEF Emits
<1>5. after = CHOOSE g : solves(g)
  BY DEF Emitted
<1> HIDE DEF body, emit, order, L
<1>6. \A res \in Results, n \in 1 .. L : step[<<res, n>>] = body(res, n)
  OBVIOUS
<1>7. \A res \in Results, n \in 1 .. L : step[<<res, n>>] \in Results
  BY <1>4, <1>6
<1> HIDE DEF step
<1>8. PICK g : LoopRun(g, L, Results, EmitNothing, step)
  BY <1>1, <1>3, <1>7, LoopDefined
<1>9. ASSUME NEW n \in 0 .. L
      PROVE  g[n] = IF n = 0 THEN EmitNothing ELSE body(g[n - 1], n)
  <2>1. CASE n = 0
    BY <2>1, <1>8 DEF LoopRun
  <2>2. CASE n # 0
    <3>1. n \in 1 .. L /\ n - 1 \in 0 .. L
      BY <1>1, <2>2
    <3> QED BY <1>6, <1>8, <2>2, <3>1 DEF LoopRun
  <2> QED BY <2>1, <2>2
<1>10. solves(g)
  BY <1>8, <1>9 DEF LoopRun
<1>11. solves(after)
  <2> HIDE DEF solves, after
  <2> QED BY <1>5, <1>10
<1> HIDE DEF after
<1> DEFINE T == {n \in 0 .. L : after[n] \in Results}
<1>12. after[0] = EmitNothing /\ 0 \in T
  BY <1>1, <1>3, <1>11
<1>13. \A n \in 1 .. L : after[n] = body(after[n - 1], n)
  BY <1>1, <1>11
<1>14. \A n \in 1 .. L : n - 1 \in T => n \in T
  BY <1>4, <1>13
<1>15. \A n \in 0 .. L : after[n] \in Results
  <2>1. 0 .. L \subseteq T
    <3> HIDE DEF T
    <3> QED BY <1>1, <1>12, <1>14, IntervalInduction
  <2> QED BY <2>1
<1> QED BY <1>12, <1>13, <1>15 DEF body, emit, order, L, after

(* After n iterations the counters agree with the output, and what is left *)
(* and what was saved of the n tools add up to what they were.             *)
Tallied(res, n, before) ==
  /\ res.full + res.compressed = Len(res.tools)
  /\ Len(res.tools) + res.dropped = n
  /\ res.bytesAfter + SumFunction(res.saved) = before

LEMMA EmitTallies ==
  ASSUME NEW res \in Results, NEW new, NEW idx \in Nat, NEW tool, IsTool(tool),
         NEW form \in {"full", "compressed", "dropped"},
         Emits(res, new, idx, tool, form),
         NEW n \in Nat, NEW before \in Nat, Tallied(res, n, before)
  PROVE  Tallied(new, n + 1, before + tool.raw)
<1> DEFINE out == [idx |-> idx, form |-> form]
           left == LeftOf(tool, form)
           less == tool.raw - left
           full == res.full
           compressed == res.compressed
           dropped == res.dropped
           length == Len(res.tools)
           bytes == res.bytesAfter
           total == SumFunction(res.saved)
           cost == tool.raw
<1>1. res.tools \in Seq(Outcome) /\ res.saved \in Seq(Nat)
  BY DEF Results
<1>2. /\ full \in Nat /\ compressed \in Nat /\ dropped \in Nat /\ length \in Nat
      /\ bytes \in Nat /\ cost \in Nat
  BY DEF Results, IsTool
<1>3. /\ left \in Nat /\ less \in Nat /\ new.bytesAfter = bytes + left
      /\ new.saved = Append(res.saved, less)
  BY DEF Emits
<1>4. less = cost - left
  OBVIOUS
<1>5. full + compressed = length /\ length + dropped = n /\ bytes + total = before
  BY DEF Tallied
<1>6. new.dropped = IF form = "dropped" THEN dropped + 1 ELSE dropped
  BY DEF Emits
<1>7. new.full = IF form = "full" THEN full + 1 ELSE full
  BY DEF Emits
<1>8. new.compressed = IF form = "compressed" THEN compressed + 1 ELSE compressed
  BY DEF Emits
<1>9. Len(new.tools) = IF form = "dropped" THEN length ELSE length + 1
  <2>1. form # "dropped" => out \in Outcome
    BY DEF Outcome
  <2>2. new.tools = IF form = "dropped" THEN res.tools ELSE Append(res.tools, out)
    BY DEF Emits
  <2> HIDE DEF out
  <2> QED BY <1>1, <2>1, <2>2
<1> HIDE DEF left, less
<1>10. total \in Nat /\ SumFunction(new.saved) = total + less
  BY <1>1, <1>3, SumAppend
<1> HIDE DEF full, compressed, dropped, length, bytes, total, cost
<1>11. new.full + new.compressed = Len(new.tools)
  BY <1>2, <1>5, <1>7, <1>8, <1>9
<1>12. Len(new.tools) + new.dropped = n + 1
  BY <1>2, <1>5, <1>6, <1>9
<1>13. new.bytesAfter + SumFunction(new.saved) = before + cost
  <2>1. bytes + left + (total + less) = before + cost
    BY <1>2, <1>3, <1>4, <1>5, <1>10
  <2> QED BY <1>3, <1>10, <2>1
<1> QED BY <1>11, <1>12, <1>13 DEF Tallied, cost

(* The loop of Prune, for every list of tools and every policy: after n    *)
(* iterations its statistics account for the first n tools it visited.     *)
LEMMA EmittedTallies ==
  ASSUME NEW tools, IsList(tools), NEW policy, NEW n \in 0 .. Len(tools)
  PROVE  LET emit == EmitOrder(tools, policy, Order(tools, policy))
             raw == [k \in 1 .. Len(tools) |-> tools[emit[k]].raw]
         IN Tallied(Emitted(tools, policy)[n], n, SumFunctionOnSet(raw, 1 .. n))
<1> DEFINE L == Len(tools)
           after == Emitted(tools, policy)
           order == Order(tools, policy)
           emit == EmitOrder(tools, policy, order)
           raw == [k \in 1 .. L |-> tools[emit[k]].raw]
           T == {m \in 0 .. L : Tallied(after[m], m, SumFunctionOnSet(raw, 1 .. m))}
<1>1. L \in Nat /\ \A i \in 1 .. L : IsTool(tools[i])
  BY DEF IsList
<1>2. emit \in [1 .. L -> 1 .. L]
  BY EmitOrderVisits, Fun_BijectionProperties
<1>3. /\ \A m \in 0 .. L : after[m] \in Results
      /\ after[0] = EmitNothing
      /\ \A m \in 1 .. L : after[m] = Emit(after[m - 1], emit[m], tools[emit[m]],
                                         TierOf(tools, policy, order, emit[m]))
  BY EmittedIsLoop
<1> HIDE DEF after, order, emit, L
<1>4. \A m \in 1 .. L : raw[m] = tools[emit[m]].raw /\ raw[m] \in Nat
  BY <1>1, <1>2 DEF IsTool
<1> HIDE DEF raw
<1>5. 0 \in T
  <2>1. SumFunctionOnSet(raw, 1 .. 0) = 0
    <3>1. 1 .. 0 = {} /\ \A x \in 1 .. 0 : raw[x] = 0
      OBVIOUS
    <3>2. IsFiniteSet(1 .. 0)
      BY <3>1, FS_EmptySet
    <3> QED BY <3>1, <3>2, SumZero
  <2>2. SumFunction(<<>>) = 0
    <3>1. DOMAIN <<>> = {}
      OBVIOUS
    <3>2. IsFiniteSet({}) /\ \A x \in {} : <<>>[x] = 0
      BY FS_EmptySet
    <3>3. SumFunctionOnSet(<<>>, {}) = 0
      BY <3>2, SumZero
    <3> QED BY <3>1, <3>3 DEF SumFunction
  <2>3. Tallied(after[0], 0, 0)
    BY <1>3, <2>2 DEF Tallied, EmitNothing
  <2> QED BY <1>1, <2>1, <2>3
<1>6. ASSUME NEW m \in 1 .. L, m - 1 \in T
      PROVE  m \in T
  <2> DEFINE tool == tools[emit[m]]
             form == FormOf(tool, TierOf(tools, policy, order, emit[m]))
             before == SumFunctionOnSet(raw, 1 .. m - 1)
  <2>1. m \in Nat /\ m > 0 /\ m - 1 \in 0 .. L /\ \A k \in 1 .. m : raw[k] \in Nat
    BY <1>1, <1>4
  <2>2. before \in Nat /\ SumFunctionOnSet(raw, 1 .. m) = before + raw[m]
    BY <2>1, SumNext
  <2>3. emit[m] \in Nat /\ IsTool(tool)
    BY <1>1, <1>2
  <2>4. after[m - 1] \in Results
    BY <1>3, <2>1
  <2>5. Emits(after[m - 1], after[m], emit[m], tool, form)
    BY <1>3, <2>3, <2>4, EmitEffect
  <2>6. form \in {"full", "compressed", "dropped"}
    BY FormCompressible
  <2>7. Tallied(after[m - 1], m - 1, before)
    BY <1>6
  <2>8. raw[m] = tool.raw
    BY <1>4
  <2> HIDE DEF before, form, tool
  <2>9. m - 1 \in Nat /\ m - 1 + 1 = m
    BY <2>1
  <2>10. Tallied(after[m], m - 1 + 1, before + tool.raw)
    BY <2>2, <2>3, <2>4, <2>5, <2>6, <2>7, <2>9, EmitTallies
  <2>11. Tallied(after[m], m, SumFunctionOnSet(raw, 1 .. m))
    BY <2>2, <2>8, <2>9, <2>10
  <2> QED BY <1>1, <2>11
<1>7. 0 .. L \subseteq T
  <2> HIDE DEF T
  <2> QED BY <1>1, <1>5, <1>6, IntervalInduction
<1> QED BY <1>7 DEF after, order, emit, L, raw

(* For every list of tools and every policy: each tool is counted once,    *)
(* and what is left of the list and what each tool saved add up to what    *)
(* the list was (prune.go, Prune and Stats).                               *)
THEOREM PruneTallies ==
  ASSUME NEW tools, IsList(tools), NEW policy
  PROVE  /\ Prune(tools, policy) \in Results
         /\ Tallied(Prune(tools, policy), Len(tools), BytesBefore(tools))
<1> DEFINE L == Len(tools)
           S == 1 .. L
           emit == EmitOrder(tools, policy, Order(tools, policy))
           raw == [k \in S |-> tools[emit[k]].raw]
           size == [i \in S |-> tools[i].raw]
           moved == [k \in S |-> size[emit[k]]]
<1>1. L \in Nat /\ DOMAIN tools = S /\ \A i \in S : size[i] \in Nat
  BY DEF IsList, IsTool
<1>2. L \in 0 .. L
  BY <1>1
<1>3. Prune(tools, policy) = Emitted(tools, policy)[L]
  BY DEF Prune
<1>4. Emitted(tools, policy)[L] \in Results
  BY <1>2, EmittedIsLoop
<1>5. Tallied(Emitted(tools, policy)[L], L, SumFunctionOnSet(raw, S))
  BY <1>2, EmittedTallies
<1>6. emit \in Bijection(S, S)
  BY EmitOrderVisits
<1>7. raw = moved
  <2>1. emit \in [S -> S]
    BY <1>6, Fun_BijectionProperties
  <2> HIDE DEF emit, S
  <2> QED BY <2>1
<1>8. IsFiniteSet(S)
  <2>1. 1 \in Int /\ L \in Int
    BY <1>1
  <2> QED BY <2>1, FS_Interval
<1>9. BytesBefore(tools) = SumFunctionOnSet(size, S)
  <2>1. BytesBefore(tools) = SumFunction(size)
    BY <1>1 DEF BytesBefore
  <2> QED BY <2>1 DEF SumFunction
<1> HIDE DEF size, emit, raw, S
<1>10. SumFunctionOnSet(moved, S) = SumFunctionOnSet(size, S)
  BY <1>1, <1>6, <1>8, SumPermuted
<1> HIDE DEF moved
<1>11. SumFunctionOnSet(raw, S) = BytesBefore(tools)
  BY <1>7, <1>9, <1>10
<1> QED BY <1>3, <1>4, <1>5, <1>11

(* What a behavior lists.                                                  *)
LEMMA ListedAre ==
  ASSUME list \in Seq(ToolEntries)
  PROVE  IsList(list)
<1>1. \A t \in ToolEntries : IsTool(t)
  BY DEF ToolEntries, IsTool
<1> HIDE DEF ToolEntries
<1>2. Len(list) \in Nat /\ DOMAIN list = 1 .. Len(list)
      /\ \A i \in 1 .. Len(list) : list[i] \in ToolEntries
  OBVIOUS
<1> QED BY <1>1, <1>2 DEF IsList

LEMMA ListGrows ==
  /\ Init => list \in Seq(ToolEntries)
  /\ list \in Seq(ToolEntries) /\ [Next]_vars => (list \in Seq(ToolEntries))'
<1>1. Init => list \in Seq(ToolEntries)
  BY DEF Init
<1>2. ASSUME list \in Seq(ToolEntries), [Next]_vars
      PROVE  list' \in Seq(ToolEntries)
  <2>1. list' = list \/ \E t \in ToolEntries : list' = Append(list, t)
    BY <1>2 DEF Next, AddPiece, AddRune, AddTool, AddToFile, AddFlag, vars
  <2> HIDE DEF ToolEntries
  <2> QED BY <1>2, <2>1
<1> QED BY <1>1, <1>2

(* The statistics of every pass agree with its result (prune.go, Stats).   *)
THEOREM StatisticsAddUp == Spec => []StatsAddUp
<1>1. list \in Seq(ToolEntries) => StatsAddUp
  <2> SUFFICES ASSUME list \in Seq(ToolEntries), NEW policy \in Policies
               PROVE  LET res == Prune(list, policy)
                      IN /\ res.full + res.compressed = Len(res.tools)
                         /\ Len(res.tools) + res.dropped = Len(list)
                         /\ res.bytesAfter + SumFunction(res.saved) = BytesBefore(list)
                         /\ \A n \in DOMAIN res.saved : res.saved[n] >= 0
    BY DEF StatsAddUp
  <2> DEFINE res == Prune(list, policy)
  <2>1. res \in Results /\ Tallied(res, Len(list), BytesBefore(list))
    BY ListedAre, PruneTallies
  <2> HIDE DEF res
  <2>2. res.saved \in Seq(Nat)
    BY <2>1 DEF Results
  <2>3. \A n \in DOMAIN res.saved : res.saved[n] >= 0
    BY <2>2
  <2> QED BY <2>1, <2>3 DEF Tallied, res
<1> QED BY <1>1, ListGrows, PTL DEF Spec

-----------------------------------------------------------------------------
(* The tiers of the pass are those of PruneTiers.                          *)
ScoresOf(tools) == [i \in DOMAIN tools |-> ScoreOf(tools[i])]

LEMMA SameCardinality ==
  ASSUME NEW tools, NEW policy, NEW S
  PROVE  Tiers(tools, policy)!Cardinality(S) = Cardinality(S)
BY DEF Tiers!Cardinality, Cardinality

LEMMA SameOrder ==
  ASSUME NEW tools, NEW policy, IsList(tools)
  PROVE  Tiers(tools, policy)!RankOrder(ScoresOf(tools)) = SortsBefore(tools, policy)
<1> DEFINE score == ScoresOf(tools)
           rank == Tiers(tools, policy)!RankOrder(score)
           S == DOMAIN tools
<1>1. DOMAIN score = S /\ \A i \in S : score[i] = ScoreOf(tools[i]) /\ score[i] \in Int
  BY DEF ScoresOf, ScoreOf, IsList, IsTool
<1>2. /\ rank \subseteq S \X S
      /\ \A i, j \in S : <<i, j>> \in rank <=>
            \/ IsPinned(policy, tools[i]) /\ ~ IsPinned(policy, tools[j])
            \/ /\ IsPinned(policy, tools[i]) <=> IsPinned(policy, tools[j])
               /\ score[i] > score[j] \/ (score[i] = score[j] /\ i < j)
  BY <1>1 DEF Tiers!RankOrder
<1>3. /\ SortsBefore(tools, policy) \subseteq S \X S
      /\ \A i, j \in S : <<i, j>> \in SortsBefore(tools, policy) <=>
                          RanksBefore(tools, policy, i, j)
  BY DEF SortsBefore
<1>4. ASSUME NEW i \in S, NEW j \in S
      PROVE  <<i, j>> \in rank <=> <<i, j>> \in SortsBefore(tools, policy)
  <2>1. score[i] > score[j] => score[i] # score[j]
    BY <1>1
  <2> HIDE DEF rank, score
  <2> QED BY <1>1, <1>2, <1>3, <2>1, RanksBeforeIs
<1> HIDE DEF rank, S
<1>5. ASSUME NEW p \in S \X S
      PROVE  p \in rank <=> p \in SortsBefore(tools, policy)
  <2>1. p = <<p[1], p[2]>> /\ p[1] \in S /\ p[2] \in S
    OBVIOUS
  <2> QED BY <1>4, <2>1
<1> QED BY <1>2, <1>3, <1>5 DEF rank

LEMMA SameBudget ==
  ASSUME NEW tools, NEW policy, IsList(tools)
  PROVE  Tiers(tools, policy)!WithinBudget(ScoresOf(tools)) =
           FirstN(DOMAIN tools, SortsBefore(tools, policy), policy.topN)
<1>1. DOMAIN ScoresOf(tools) = DOMAIN tools
  BY DEF ScoresOf
<1> QED
  BY <1>1, SameOrder, SameCardinality
  DEF Tiers!WithinBudget, Tiers!FirstN, Tiers!Ahead, FirstN, Ahead

(* The form every tool ends in: its tier, and the full schema if the       *)
(* compressed one would not be shorter.                                    *)
FormsOf(tools, policy) ==
  [i \in DOMAIN tools |->
     FormOf(tools[i], TierOf(tools, policy, Order(tools, policy), i))]

LEMMA FormIsTier ==
  ASSUME NEW tools, IsList(tools), NEW policy, NEW i \in DOMAIN tools
  PROVE  FormsOf(tools, policy)[i] = Tiers(tools, policy)!Tier(ScoresOf(tools))[i]
<1> DEFINE L == Len(tools)
           order == Order(tools, policy)
           before == SortsBefore(tools, policy)
           score == ScoresOf(tools)
           tier == Tiers(tools, policy)!Tier(score)
           position == CHOOSE r \in DOMAIN tools : order[r] = i
           pinned == IsPinned(policy, tools[i])
           budget == Cardinality(Ahead(1 .. L, before, i)) < policy.topN
           passed == PassedThrough(tools, policy)
           low == policy.dropBelow > 0 /\ ScoreOf(tools[i]) < policy.dropBelow
           shrinks == Compressible(tools[i])
<1>1. L \in Nat /\ DOMAIN tools = 1 .. L /\ i \in 1 .. L
  BY DEF IsList
<1>2. Sorted(order, L, before)
  BY OrderSorts
<1>3. position \in 1 .. L /\ order[position] = i
  <2>1. order \in Bijection(1 .. L, 1 .. L)
    BY <1>2 DEF Sorted
  <2>2. \E r \in 1 .. L : order[r] = i
    <3> DEFINE S == 1 .. L
    <3>1. order \in Bijection(S, S) /\ i \in S
      BY <1>1, <2>1
    <3> HIDE DEF order, S
    <3>2. \E r \in S : order[r] = i
      BY <3>1, Fun_BijectionProperties
    <3> QED BY <3>2 DEF S
  <2> HIDE DEF order
  <2> QED BY <1>1, <2>2
<1>4. StrictOrderOn(1 .. L, before)
  BY <1>1, SortsBeforeStrict
<1>5. Cardinality(Ahead(1 .. L, before, i)) = position - 1
  <2> HIDE DEF order, before, L, position
  <2> QED BY <1>1, <1>2, <1>3, <1>4, SortedRank
<1>6. position - 1 < policy.topN <=> budget
  BY <1>5
<1>7. /\ passed \in BOOLEAN /\ pinned \in BOOLEAN /\ budget \in BOOLEAN
      /\ low \in BOOLEAN /\ shrinks \in BOOLEAN
  BY DEF PassedThrough, IsPinned, Compressible
<1>8. TierOf(tools, policy, order, i) =
        IF passed \/ pinned \/ budget THEN "full"
        ELSE IF low THEN "dropped" ELSE "compressed"
  <2>1. TierOf(tools, policy, order, i) =
          IF passed THEN "full" ELSE TierAtRank(policy, tools[i], position)
    BY DEF TierOf
  <2>2. TierAtRank(policy, tools[i], position) =
          IF pinned \/ budget THEN "full" ELSE IF low THEN "dropped" ELSE "compressed"
    <3> HIDE DEF position, budget
    <3> QED BY <1>6 DEF TierAtRank
  <2> HIDE DEF passed, pinned, budget, low, order, position
  <2> QED BY <2>1, <2>2
<1>9. tier[i] = IF passed \/ pinned \/ budget THEN "full"
                ELSE IF low THEN "dropped"
                ELSE IF shrinks THEN "compressed" ELSE "full"
  <2>1. DOMAIN score = 1 .. L /\ score[i] = ScoreOf(tools[i])
    BY <1>1 DEF ScoresOf
  <2>2. Tiers(tools, policy)!PassThrough(DOMAIN score) <=> passed
    <3>1. Cardinality(1 .. L) = L
      <4>1. 1 \in Int /\ L \in Int
        BY <1>1
      <4>2. Cardinality(1 .. L) = IF 1 > L THEN 0 ELSE L - 1 + 1
        BY <4>1, FS_Interval
      <4> QED BY <1>1, <4>2
    <3> QED BY <2>1, <3>1, SameCardinality DEF Tiers!PassThrough, PassedThrough
  <2>3. i \in Tiers(tools, policy)!WithinBudget(score) <=> budget
    BY <1>1, SameBudget DEF FirstN
  <2>4. tier[i] =
          IF \/ Tiers(tools, policy)!PassThrough(DOMAIN score)
             \/ pinned \/ i \in Tiers(tools, policy)!WithinBudget(score)
          THEN "full"
          ELSE IF policy.dropBelow > 0 /\ score[i] < policy.dropBelow THEN "dropped"
          ELSE IF shrinks THEN "compressed" ELSE "full"
    <3> HIDE DEF score
    <3> QED BY <1>1, <2>1 DEF Tiers!Tier
  <2> HIDE DEF passed, pinned, budget, shrinks, tier, score
  <2> QED BY <2>1, <2>2, <2>3, <2>4
<1>10. FormsOf(tools, policy)[i] = FormOf(tools[i], TierOf(tools, policy, order, i))
  BY DEF FormsOf
<1>11. FormOf(tools[i], TierOf(tools, policy, order, i)) =
         IF passed \/ pinned \/ budget THEN "full"
         ELSE IF low THEN "dropped"
         ELSE IF shrinks THEN "compressed" ELSE "full"
  <2> HIDE DEF passed, pinned, budget, low, order
  <2> QED BY <1>8 DEF FormOf
<1> QED BY <1>9, <1>10, <1>11

(* After n iterations the output has the tools among the first n that are  *)
(* not dropped, in the order they were visited, each in its form.          *)
Visited(out, n, emit, forms) ==
  /\ \A a \in DOMAIN out : \E k \in 1 .. n :
       emit[k] = out[a].idx /\ forms[emit[k]] = out[a].form
       /\ forms[emit[k]] # "dropped"
  /\ \A k \in 1 .. n : forms[emit[k]] # "dropped" =>
       \E a \in DOMAIN out : out[a].idx = emit[k]
  /\ \A a, b \in DOMAIN out : a < b =>
       \E j, k \in 1 .. n : j < k /\ emit[j] = out[a].idx /\ emit[k] = out[b].idx

LEMMA VisitNext ==
  ASSUME NEW n \in Nat, n > 0, NEW emit, NEW forms, NEW out \in Seq(Outcome),
         Visited(out, n - 1, emit, forms), NEW new,
         emit[n] \in Nat, forms[emit[n]] \in {"full", "compressed", "dropped"},
         new = IF forms[emit[n]] = "dropped" THEN out
               ELSE Append(out, [idx |-> emit[n], form |-> forms[emit[n]]])
  PROVE  Visited(new, n, emit, forms)
<1> DEFINE last == [idx |-> emit[n], form |-> forms[emit[n]]]
<1>1. n \in 1 .. n /\ \A k \in 1 .. n - 1 : k \in 1 .. n /\ k < n
  OBVIOUS
<1>2. \A k \in 1 .. n : k \in 1 .. n - 1 \/ k = n
  OBVIOUS
<1>3. CASE forms[emit[n]] = "dropped"
  <2>1. new = out
    BY <1>3
  <2> QED BY <1>1, <1>2, <1>3, <2>1 DEF Visited
<1>4. CASE forms[emit[n]] # "dropped"
  <2> DEFINE L == Len(out)
  <2>1. last \in Outcome /\ last.idx = emit[n] /\ last.form = forms[emit[n]]
    BY <1>4 DEF Outcome
  <2>2. new = Append(out, last)
    BY <1>4
  <2> HIDE DEF last
  <2>3. /\ DOMAIN out = 1 .. L /\ DOMAIN new = 1 .. L + 1 /\ L \in Nat
        /\ new[L + 1] = last /\ \A a \in 1 .. L : new[a] = out[a]
    BY <2>1, <2>2
  <2>4. L + 1 \in DOMAIN new /\ \A a \in DOMAIN out : a \in DOMAIN new /\ a < L + 1
    BY <2>3
  <2>5. \A a \in DOMAIN new : a \in DOMAIN out \/ a = L + 1
    BY <2>3
  <2>6. \A a, b \in DOMAIN new : a < b => a \in DOMAIN out
    BY <2>3
  <2>7. \A a \in DOMAIN out : new[a] = out[a]
    BY <2>3
  <2> HIDE DEF L
  <2>8. ASSUME NEW a \in DOMAIN new
        PROVE  \E k \in 1 .. n : /\ emit[k] = new[a].idx /\ forms[emit[k]] = new[a].form
                                 /\ forms[emit[k]] # "dropped"
    BY <1>1, <1>4, <2>1, <2>3, <2>5, <2>7, SMTT(20) DEF Visited
  <2>9. ASSUME NEW k \in 1 .. n, forms[emit[k]] # "dropped"
        PROVE  \E a \in DOMAIN new : new[a].idx = emit[k]
    BY <1>2, <2>1, <2>3, <2>4, <2>7, <2>9 DEF Visited
  <2>10. ASSUME NEW a \in DOMAIN new, NEW b \in DOMAIN new, a < b
         PROVE  \E j, k \in 1 .. n : j < k /\ emit[j] = new[a].idx
                                              /\ emit[k] = new[b].idx
    <3>1. a \in DOMAIN out /\ new[a] = out[a]
      BY <2>6, <2>7, <2>10
    <3>2. CASE b \in DOMAIN out
      <4>1. PICK j, k \in 1 .. n - 1 : /\ j < k /\ emit[j] = out[a].idx
                                       /\ emit[k] = out[b].idx
        BY <2>10, <3>1, <3>2 DEF Visited
      <4> QED BY <1>1, <2>7, <3>1, <3>2, <4>1
    <3>3. CASE b = L + 1
      <4>1. PICK j \in 1 .. n - 1 : emit[j] = out[a].idx
        BY <3>1 DEF Visited
      <4>2. emit[n] = new[b].idx
        BY <2>1, <2>3, <3>3
      <4> QED BY <1>1, <3>1, <4>1, <4>2
    <3> QED BY <2>5, <3>2, <3>3
  <2> QED BY <2>8, <2>9, <2>10 DEF Visited
<1> QED BY <1>3, <1>4

LEMMA PruneVisits ==
  ASSUME NEW tools, IsList(tools), NEW policy
  PROVE  Visited(Prune(tools, policy).tools, Len(tools),
                 EmitOrder(tools, policy, Order(tools, policy)),
                 FormsOf(tools, policy))
<1> DEFINE L == Len(tools)
           after == Emitted(tools, policy)
           order == Order(tools, policy)
           emit == EmitOrder(tools, policy, order)
           forms == FormsOf(tools, policy)
           T == {m \in 0 .. L : Visited(after[m].tools, m, emit, forms)}
<1>1. L \in Nat /\ DOMAIN tools = 1 .. L /\ \A i \in 1 .. L : IsTool(tools[i])
  BY DEF IsList
<1>2. emit \in [1 .. L -> 1 .. L]
  BY EmitOrderVisits, Fun_BijectionProperties
<1>3. /\ \A m \in 0 .. L : after[m] \in Results
      /\ after[0] = EmitNothing
      /\ \A m \in 1 .. L : after[m] = Emit(after[m - 1], emit[m], tools[emit[m]],
                                         TierOf(tools, policy, order, emit[m]))
  BY EmittedIsLoop
<1>4. \A i \in 1 .. L :
        forms[i] = FormOf(tools[i], TierOf(tools, policy, order, i))
  BY <1>1 DEF FormsOf
<1>5. after[L] = Prune(tools, policy)
  BY DEF Prune
<1> HIDE DEF after, order, emit, forms, L
<1>6. 0 \in T
  <2>1. after[0].tools = <<>> /\ DOMAIN <<>> = {}
    BY <1>3 DEF EmitNothing
  <2>2. 1 .. 0 = {}
    OBVIOUS
  <2>3. Visited(after[0].tools, 0, emit, forms)
    BY <2>1, <2>2 DEF Visited
  <2> QED BY <1>1, <2>3
<1>7. ASSUME NEW m \in 1 .. L, m - 1 \in T
      PROVE  m \in T
  <2> DEFINE i == emit[m]
             form == FormOf(tools[i], TierOf(tools, policy, order, i))
             out == after[m - 1].tools
             new == after[m].tools
  <2>1. m \in Nat /\ m > 0 /\ m - 1 \in 0 .. L /\ i \in 1 .. L /\ i \in Nat
    BY <1>1, <1>2
  <2>2. after[m - 1] \in Results /\ IsTool(tools[i])
    BY <1>1, <1>3, <2>1
  <2>3. Emits(after[m - 1], after[m], i, tools[i], form)
    BY <1>3, <2>1, <2>2, EmitEffect
  <2>4. form \in {"full", "compressed", "dropped"} /\ forms[i] = form
    BY <1>4, <2>1, FormCompressible
  <2> HIDE DEF form
  <2>5. new = IF form = "dropped" THEN out ELSE Append(out, [idx |-> i, form |-> form])
    BY <2>3 DEF Emits
  <2>6. out \in Seq(Outcome)
    BY <2>2 DEF Results
  <2>7. Visited(out, m - 1, emit, forms)
    BY <1>7
  <2> HIDE DEF out, new
  <2>8. Visited(new, m, emit, forms)
    BY <2>1, <2>4, <2>5, <2>6, <2>7, VisitNext
  <2> QED BY <1>1, <2>8 DEF new
<1>8. 0 .. L \subseteq T
  <2> HIDE DEF T
  <2> QED BY <1>1, <1>6, <1>7, IntervalInduction
<1>9. Visited(after[L].tools, L, emit, forms)
  BY <1>1, <1>8
<1> QED BY <1>5, <1>9 DEF emit, order, forms, L

(* For every list of tools and every policy: the pass emits the tools that *)
(* PruneTiers does not drop, each once, in place or by rank, and each in   *)
(* the form PruneTiers decides (prune.go, Prune).                          *)
THEOREM PruneFollows ==
  ASSUME NEW tools, IsList(tools), NEW policy
  PROVE  LET tier == Tiers(tools, policy)!Tier(ScoresOf(tools))
             rank == Tiers(tools, policy)!RankOrder(ScoresOf(tools))
             out == Prune(tools, policy).tools
         IN /\ {e.idx : e \in ToSet(out)} = {i \in DOMAIN tools : tier[i] # "dropped"}
            /\ \A n \in DOMAIN out : out[n].form = tier[out[n].idx]
            /\ \A m, n \in DOMAIN out :
                 m < n => IF PassedThrough(tools, policy) \/ policy.preserveOrder
                          THEN out[m].idx < out[n].idx
                          ELSE <<out[m].idx, out[n].idx>> \in rank
<1> DEFINE L == Len(tools)
           S == 1 .. L
           order == Order(tools, policy)
           emit == EmitOrder(tools, policy, order)
           forms == FormsOf(tools, policy)
           tier == Tiers(tools, policy)!Tier(ScoresOf(tools))
           rank == Tiers(tools, policy)!RankOrder(ScoresOf(tools))
           out == Prune(tools, policy).tools
           inPlace == PassedThrough(tools, policy) \/ policy.preserveOrder
<1>1. DOMAIN tools = S /\ S \subseteq Int
  BY DEF IsList
<1>2. Visited(out, L, emit, forms)
  BY PruneVisits
<1>3. emit \in [S -> S] /\ \A i \in S : \E k \in S : emit[k] = i
  <2>1. emit \in Bijection(S, S)
    BY EmitOrderVisits
  <2> HIDE DEF emit, S
  <2> QED BY <2>1, Fun_BijectionProperties
<1>4. \A i \in S : forms[i] = tier[i]
  BY <1>1, FormIsTier
<1>5. rank = SortsBefore(tools, policy)
  BY SameOrder
<1>6. ASSUME NEW j \in S, NEW k \in S, j < k
      PROVE  IF inPlace THEN emit[j] < emit[k] ELSE <<emit[j], emit[k]>> \in rank
  <2>1. CASE inPlace
    <3>1. emit = [i \in DOMAIN tools |-> i]
      BY <2>1 DEF EmitOrder
    <3> HIDE DEF inPlace, emit
    <3> QED BY <1>1, <1>6, <2>1, <3>1
  <2>2. CASE ~ inPlace
    <3>1. emit = order
      BY <2>2 DEF EmitOrder
    <3>2. <<order[j], order[k]>> \in SortsBefore(tools, policy)
      BY <1>6, OrderSorts DEF Sorted
    <3> HIDE DEF inPlace, emit, order
    <3> QED BY <1>5, <2>2, <3>1, <3>2
  <2> QED BY <2>1, <2>2
<1> HIDE DEF emit, forms, tier, rank, out, inPlace, order
<1>7. ASSUME NEW a \in DOMAIN out
      PROVE  /\ out[a].idx \in S /\ out[a].form = tier[out[a].idx]
             /\ tier[out[a].idx] # "dropped"
  <2>1. PICK k \in 1 .. L : /\ emit[k] = out[a].idx /\ forms[emit[k]] = out[a].form
                            /\ forms[emit[k]] # "dropped"
    BY <1>2 DEF Visited
  <2> QED BY <1>3, <1>4, <2>1
<1>8. ASSUME NEW i \in S, tier[i] # "dropped"
      PROVE  \E a \in DOMAIN out : out[a].idx = i
  <2>1. PICK k \in S : emit[k] = i
    BY <1>3
  <2>2. forms[emit[k]] # "dropped"
    BY <1>4, <1>8, <2>1
  <2> QED BY <1>2, <2>1, <2>2 DEF Visited
<1>9. {e.idx : e \in ToSet(out)} = {i \in S : tier[i] # "dropped"}
  BY <1>7, <1>8 DEF ToSet
<1>10. ASSUME NEW m \in DOMAIN out, NEW n \in DOMAIN out, m < n
       PROVE  IF inPlace THEN out[m].idx < out[n].idx
              ELSE <<out[m].idx, out[n].idx>> \in rank
  <2>1. PICK j \in S, k \in S : j < k /\ emit[j] = out[m].idx /\ emit[k] = out[n].idx
    BY <1>2, <1>10 DEF Visited
  <2>2. IF inPlace THEN emit[j] < emit[k] ELSE <<emit[j], emit[k]>> \in rank
    BY <1>6, <2>1
  <2> QED BY <2>1, <2>2
<1>11. \A n \in DOMAIN out : out[n].form = tier[out[n].idx]
  BY <1>7
<1> QED BY <1>1, <1>9, <1>10, <1>11 DEF tier, rank, out, inPlace

(* Every pass follows the tiers (prune.go, Prune).                         *)
THEOREM PruneKeepsTiers == Spec => []PassFollowsTiers
<1>1. list \in Seq(ToolEntries) => PassFollowsTiers
  <2>1. ASSUME list \in Seq(ToolEntries) PROVE IsList(list)
    BY <2>1, ListedAre
  <2>2. ScoresOf(list) = [i \in DOMAIN list |-> ScoreOf(list[i])]
    BY DEF ScoresOf
  <2> QED BY <2>1, <2>2, PruneFollows DEF PassFollowsTiers
<1> QED BY <1>1, ListGrows, PTL DEF Spec

-----------------------------------------------------------------------------
(* Command lines: sequences that are joined, and where they stand.         *)

(* The first n sequences of parts, joined.                                 *)
Joined(parts, n) == FlattenSeq([k \in 1 .. n |-> parts[k]])

(* FlattenSeq is a loop too.                                               *)
LEMMA FlattenIsLoop ==
  ASSUME NEW L \in Nat, NEW S, NEW parts, \A k \in 1 .. L : parts[k] \in Seq(S)
  PROVE  /\ Joined(parts, 0) = <<>>
         /\ \A n \in 0 .. L : Joined(parts, n) \in Seq(S)
         /\ \A n \in 1 .. L : Joined(parts, n) = Joined(parts, n - 1) \o parts[n]
<1> DEFINE step == [p \in Seq(S) \X (1 .. L) |-> p[1] \o parts[p[2]]]
<1>1. <<>> \in Seq(S)
  OBVIOUS
<1>2. \A s \in Seq(S), n \in 1 .. L : step[<<s, n>>] = s \o parts[n]
  OBVIOUS
<1>3. \A s \in Seq(S), n \in 1 .. L : s \o parts[n] \in Seq(S)
  BY ConcatProperties
<1>4. \A s \in Seq(S), n \in 1 .. L : step[<<s, n>>] \in Seq(S)
  BY <1>2, <1>3
<1> HIDE DEF step
<1>5. PICK g : LoopRun(g, L, Seq(S), <<>>, step)
  BY <1>1, <1>4, LoopDefined
<1>6. /\ g \in [0 .. L -> Seq(S)] /\ g[0] = <<>>
      /\ \A n \in 1 .. L : g[n] = g[n - 1] \o parts[n]
  <2>1. g \in [0 .. L -> Seq(S)] /\ g[0] = <<>>
    BY <1>5 DEF LoopRun
  <2>2. ASSUME NEW n \in 1 .. L PROVE g[n] = g[n - 1] \o parts[n]
    <3>1. n - 1 \in 0 .. L
      OBVIOUS
    <3>2. g[n] = step[<<g[n - 1], n>>] /\ g[n - 1] \in Seq(S)
      BY <1>5, <2>1, <3>1 DEF LoopRun
    <3> QED BY <1>2, <3>2
  <2> QED BY <2>1, <2>2
<1>7. ASSUME NEW n \in 0 .. L PROVE Joined(parts, n) = g[n]
  <2> DEFINE seqs == [k \in 1 .. n |-> parts[k]]
  <2>1. seqs \in Seq(Seq(S)) /\ Len(seqs) = n /\ n \in Nat
    OBVIOUS
  <2>2. CASE n = 0
    <3>1. seqs = <<>>
      BY <2>2
    <3> HIDE DEF seqs
    <3>2. FlattenSeq(seqs) = seqs
      BY <2>1, <2>2 DEF FlattenSeq
    <3> QED BY <1>6, <2>2, <3>1, <3>2 DEF Joined, seqs
  <2>3. CASE n # 0
    <3> DEFINE solves(f) == f = [i \in 1 .. n |-> IF i = 1 THEN seqs[i]
                                                 ELSE f[i - 1] \o seqs[i]]
               flat == CHOOSE f : solves(f)
               h == [i \in 1 .. n |-> g[i]]
    <3>1. FlattenSeq(seqs) = flat[n]
      <4> HIDE DEF seqs
      <4> QED BY <2>1, <2>3 DEF FlattenSeq
    <3>2. \A i \in 1 .. n : seqs[i] = parts[i] /\ parts[i] \in Seq(S)
      OBVIOUS
    <3>10. ASSUME NEW i \in 1 .. n PROVE g[i] = g[i - 1] \o parts[i]
      <4>1. i \in 1 .. L
        OBVIOUS
      <4> HIDE DEF h, solves
      <4> QED BY <1>6, <4>1
    <3> HIDE DEF seqs
    <3>3. ASSUME NEW i \in 1 .. n
          PROVE  h[i] = IF i = 1 THEN seqs[i] ELSE h[i - 1] \o seqs[i]
      <4>1. CASE i = 1
        <5>1. g[1] = <<>> \o parts[1]
          <6>1. g[i] = g[i - 1] \o parts[i]
            BY <3>10
          <6>2. i - 1 = 0
            BY <4>1
          <6>3. g[i] = g[0] \o parts[i]
            BY <6>1, <6>2
          <6> HIDE DEF h, solves
          <6> QED BY <1>6, <4>1, <6>3
        <5>2. <<>> \o parts[1] = parts[1]
          BY <3>2, <4>1, ConcatEmptySeq
        <5> QED BY <3>2, <4>1, <5>1, <5>2
      <4>2. CASE i # 1
        <5>1. i - 1 \in 1 .. n
          BY <4>2
        <5>2. g[i] = g[i - 1] \o parts[i] /\ seqs[i] = parts[i]
          BY <3>2, <3>10
        <5>3. h[i] = g[i] /\ h[i - 1] = g[i - 1]
          BY <5>1
        <5> HIDE DEF h
        <5> QED BY <4>2, <5>2, <5>3
      <4> QED BY <4>1, <4>2
    <3>4. solves(h)
      BY <3>3
    <3>5. solves(flat)
      <4> HIDE DEF solves, h
      <4> QED BY <3>4
    <3> HIDE DEF flat
    <3> DEFINE T == {i \in 0 .. n : i > 0 => flat[i] = g[i]}
    <3>6. 0 \in T
      BY <2>1
    <3>7. ASSUME NEW i \in 1 .. n, i - 1 \in T PROVE i \in T
      <4>1. CASE i = 1
        <5>1. flat[1] = seqs[1]
          BY <3>5, <4>1
        <5>2. h[1] = seqs[1]
          BY <3>3, <4>1
        <5>3. h[1] = g[1]
          BY <4>1
        <5> QED BY <4>1, <5>1, <5>2, <5>3
      <4>2. CASE i # 1
        <5>1. i - 1 \in 1 .. n /\ i - 1 > 0
          BY <4>2
        <5>2. flat[i - 1] = g[i - 1]
          BY <3>7, <5>1
        <5>3. flat[i] = flat[i - 1] \o seqs[i]
          BY <3>5, <4>2
        <5>4. g[i] = g[i - 1] \o parts[i]
          BY <3>10
        <5>5. i \in 0 .. n /\ seqs[i] = parts[i]
          BY <3>2
        <5>6. flat[i] = g[i]
          BY <5>2, <5>3, <5>4, <5>5
        <5> QED BY <5>5, <5>6
      <4> QED BY <4>1, <4>2
    <3>8. 0 .. n \subseteq T
      <4> HIDE DEF T
      <4> QED BY <2>1, <3>6, <3>7, IntervalInduction
    <3>9. flat[n] = g[n]
      BY <2>3, <3>8
    <3> QED BY <3>1, <3>9 DEF Joined, seqs
  <2> QED BY <2>2, <2>3
<1>8. 0 \in 0 .. L /\ \A n \in 1 .. L : n - 1 \in 0 .. L /\ n \in 0 .. L
  OBVIOUS
<1> QED BY <1>6, <1>7, <1>8

(* A sequence of sequences, joined, is all of them.                        *)
LEMMA JoinedAll ==
  ASSUME NEW seqs, seqs = [k \in 1 .. Len(seqs) |-> seqs[k]]
  PROVE  FlattenSeq(seqs) = Joined(seqs, Len(seqs))
BY DEF Joined

-----------------------------------------------------------------------------
(* w stands in s after the first i elements.                               *)
StandsAt(s, i, w) ==
  /\ i \in Nat /\ i + Len(w) <= Len(s)
  /\ \A k \in 1 .. Len(w) : s[i + k] = w[k]

LEMMA StandsSplit ==
  ASSUME NEW S, NEW s \in Seq(S), NEW u \in Seq(S), NEW v \in Seq(S), NEW i,
         StandsAt(s, i, u \o v)
  PROVE  StandsAt(s, i, u) /\ StandsAt(s, i + Len(u), v)
<1>1. /\ u \o v \in Seq(S) /\ Len(u \o v) = Len(u) + Len(v)
      /\ \A k \in 1 .. Len(u) + Len(v) :
           (u \o v)[k] = IF k <= Len(u) THEN u[k] ELSE v[k - Len(u)]
  BY ConcatProperties
<1>2. /\ Len(u) \in Nat /\ Len(v) \in Nat /\ i \in Nat /\ Len(s) \in Nat
      /\ i + (Len(u) + Len(v)) <= Len(s)
      /\ \A k \in 1 .. Len(u) + Len(v) : s[i + k] = (u \o v)[k]
  BY <1>1 DEF StandsAt
<1>3. StandsAt(s, i, u)
  <2>1. \A k \in 1 .. Len(u) : s[i + k] = u[k]
    BY <1>1, <1>2
  <2> QED BY <1>2, <2>1 DEF StandsAt
<1>4. StandsAt(s, i + Len(u), v)
  <2>1. ASSUME NEW k \in 1 .. Len(v) PROVE s[i + Len(u) + k] = v[k]
    <3> DEFINE a == Len(u)
               b == Len(v)
               j == a + k
               w == u \o v
    <3>1. /\ j \in 1 .. a + b /\ ~(j <= a) /\ j - a = k /\ i + j = i + a + k
      BY <1>2
    <3>2. w[j] = v[j - a]
      <4>1. \A m \in 1 .. a + b : w[m] = IF m <= a THEN u[m] ELSE v[m - a]
        BY <1>1
      <4> HIDE DEF w, a, b, j
      <4> QED BY <3>1, <4>1
    <3>3. s[i + j] = w[j]
      <4>1. \A m \in 1 .. a + b : s[i + m] = w[m]
        BY <1>2
      <4> HIDE DEF w, a, b, j
      <4> QED BY <3>1, <4>1
    <3> HIDE DEF w, j
    <3>4. s[i + a + k] = v[k]
      BY <3>1, <3>2, <3>3
    <3> QED BY <3>4
  <2> QED BY <1>2, <2>1 DEF StandsAt
<1> QED BY <1>3, <1>4

(* Where parts stand joined, each stands where those before it end.        *)
LEMMA StandsJoined ==
  ASSUME NEW S, NEW s \in Seq(S), NEW L \in Nat, NEW parts,
         \A k \in 1 .. L : parts[k] \in Seq(S), NEW i, StandsAt(s, i, Joined(parts, L))
  PROVE  \A k \in 1 .. L : StandsAt(s, i + Len(Joined(parts, k - 1)), parts[k])
<1> DEFINE T == {n \in 0 .. L : StandsAt(s, i, Joined(parts, L - n))}
<1>1. /\ \A n \in 0 .. L : Joined(parts, n) \in Seq(S)
      /\ \A n \in 1 .. L : Joined(parts, n) = Joined(parts, n - 1) \o parts[n]
  BY FlattenIsLoop
<1>2. 0 \in T
  BY Z3
<1>3. ASSUME NEW n \in 1 .. L, n - 1 \in T PROVE n \in T
  <2> DEFINE m == L - (n - 1)
  <2>1. m \in 1 .. L /\ m - 1 = L - n /\ m - 1 \in 0 .. L /\ n \in 0 .. L
    OBVIOUS
  <2>2. StandsAt(s, i, Joined(parts, m))
    BY <1>3
  <2> HIDE DEF m
  <2>3. StandsAt(s, i, Joined(parts, m - 1) \o parts[m])
    BY <1>1, <2>1, <2>2
  <2>4. Joined(parts, m - 1) \in Seq(S) /\ parts[m] \in Seq(S)
    BY <1>1, <2>1
  <2>5. StandsAt(s, i, Joined(parts, m - 1))
    BY <2>3, <2>4, StandsSplit
  <2>6. StandsAt(s, i, Joined(parts, L - n))
    BY <2>1, <2>5
  <2> QED BY <2>1, <2>6
<1>4. 0 .. L \subseteq T
  <2> HIDE DEF T
  <2> QED BY <1>2, <1>3, IntervalInduction
<1>5. ASSUME NEW k \in 1 .. L
      PROVE  StandsAt(s, i + Len(Joined(parts, k - 1)), parts[k])
  <2>1. L - k \in 0 .. L /\ L - (L - k) = k /\ k - 1 \in 0 .. L
    OBVIOUS
  <2>2. StandsAt(s, i, Joined(parts, k))
    BY <1>4, <2>1
  <2>3. StandsAt(s, i, Joined(parts, k - 1) \o parts[k])
    BY <1>1, <2>2
  <2>4. Joined(parts, k - 1) \in Seq(S) /\ parts[k] \in Seq(S)
    BY <1>1, <2>1
  <2> QED BY <2>3, <2>4, StandsSplit
<1> QED BY <1>5

(* The runes that mean something to the scan are different ones.           *)
Marks == {Space, Backslash, SingleQuote, DoubleQuote}

LEMMA MarksApart ==
  /\ Space \in Blanks /\ Blanks \cap {Backslash, SingleQuote, DoubleQuote} = {}
  /\ Backslash # SingleQuote /\ Backslash # DoubleQuote /\ SingleQuote # DoubleQuote
  /\ {DoubleQuote, Backslash} \subseteq Escapable
  BY Zenon DEF Space, Backslash, SingleQuote, DoubleQuote, Blanks, Escapable, LineEnd

ScanStates(R) ==
  [args : Seq(Seq(R)), cur : Seq(R), started : BOOLEAN,
   mode : {"plain", "single", "double"}, taken : BOOLEAN]

(* What each step makes of a state.                                        *)
LEMMA ScanSteps ==
  ASSUME NEW R, NEW st \in ScanStates(R), NEW c \in R
  PROVE  /\ WriteRune(st, c) = [args |-> st.args, cur |-> Append(st.cur, c),
              started |-> TRUE, mode |-> st.mode, taken |-> st.taken]
         /\ TakeNext(st, c) =
              [args |-> st.args, cur |-> Append(st.cur, c),
               started |-> TRUE, mode |-> st.mode, taken |-> TRUE]
         /\ EndWord(st) = IF st.started
              THEN [args |-> Append(st.args, st.cur), cur |-> <<>>,
                    started |-> FALSE, mode |-> st.mode, taken |-> st.taken]
              ELSE st
         /\ \A m : Open(st, m) = [args |-> st.args, cur |-> st.cur,
              started |-> TRUE, mode |-> m, taken |-> st.taken]
         /\ Close(st) = [args |-> st.args, cur |-> st.cur,
              started |-> st.started, mode |-> "plain", taken |-> st.taken]
         /\ Skip(st) = [args |-> st.args, cur |-> st.cur,
              started |-> st.started, mode |-> st.mode, taken |-> FALSE]
<1>1. /\ st = [args |-> st.args, cur |-> st.cur, started |-> st.started,
               mode |-> st.mode, taken |-> st.taken]
      /\ st.args \in Seq(Seq(R)) /\ st.cur \in Seq(R) /\ st.started \in BOOLEAN
      /\ st.taken \in BOOLEAN
  BY DEF ScanStates
<1>2. WriteRune(st, c) = [args |-> st.args, cur |-> Append(st.cur, c),
              started |-> TRUE, mode |-> st.mode, taken |-> st.taken]
  <2>1. WriteRune(st, c) = [st EXCEPT !.cur = Append(@, c), !.started = TRUE]
    BY DEF WriteRune
  <2> QED BY <1>1, <2>1
<1>3. TakeNext(st, c) = [args |-> st.args, cur |-> Append(st.cur, c),
               started |-> TRUE, mode |-> st.mode, taken |-> TRUE]
  <2>1. TakeNext(st, c) = [st EXCEPT !.cur = Append(@, c), !.started = TRUE, !.taken = TRUE]
    BY DEF TakeNext
  <2> QED BY <1>1, <2>1
<1>4. EndWord(st) = IF st.started
              THEN [args |-> Append(st.args, st.cur), cur |-> <<>>,
                    started |-> FALSE, mode |-> st.mode, taken |-> st.taken]
              ELSE st
  <2>1. CASE st.started
    <3>1. EndWord(st) = [st EXCEPT !.args = Append(@, st.cur), !.cur = <<>>,
                                   !.started = FALSE]
      BY <2>1 DEF EndWord
    <3> QED BY <1>1, <2>1, <3>1
  <2>2. CASE ~st.started
    BY <2>2 DEF EndWord
  <2> QED BY <2>1, <2>2
<1>5. ASSUME NEW m
      PROVE  Open(st, m) = [args |-> st.args, cur |-> st.cur,
              started |-> TRUE, mode |-> m, taken |-> st.taken]
  <2>1. Open(st, m) = [st EXCEPT !.mode = m, !.started = TRUE]
    BY DEF Open
  <2> QED BY <1>1, <2>1
<1>6. Close(st) = [args |-> st.args, cur |-> st.cur,
              started |-> st.started, mode |-> "plain", taken |-> st.taken]
  <2>1. Close(st) = [st EXCEPT !.mode = "plain"]
    BY DEF Close
  <2> QED BY <1>1, <2>1
<1>7. Skip(st) = [args |-> st.args, cur |-> st.cur,
                  started |-> st.started, mode |-> st.mode, taken |-> FALSE]
  <2>1. Skip(st) = [st EXCEPT !.taken = FALSE]
    BY DEF Skip
  <2> QED BY <1>1, <2>1
<1> QED BY <1>2, <1>3, <1>4, <1>5, <1>6, <1>7

LEMMA ScanStepTypes ==
  ASSUME NEW R, NEW st \in ScanStates(R), NEW c \in R
  PROVE  /\ WriteRune(st, c) \in ScanStates(R)
         /\ TakeNext(st, c) \in ScanStates(R)
         /\ EndWord(st) \in ScanStates(R)
         /\ Open(st, "single") \in ScanStates(R) /\ Open(st, "double") \in ScanStates(R)
         /\ Close(st) \in ScanStates(R)
         /\ Skip(st) \in ScanStates(R)
<1>1. /\ st.args \in Seq(Seq(R)) /\ st.cur \in Seq(R) /\ st.started \in BOOLEAN
      /\ st.mode \in {"plain", "single", "double"} /\ st.taken \in BOOLEAN
  BY DEF ScanStates
<1>2. Append(st.cur, c) \in Seq(R) /\ Append(st.args, st.cur) \in Seq(Seq(R)) /\ <<>> \in Seq(R)
  BY <1>1
<1>3. EndWord(st) \in ScanStates(R)
  <2>1. CASE st.started
    <3>1. EndWord(st) = [args |-> Append(st.args, st.cur), cur |-> <<>>,
                         started |-> FALSE, mode |-> st.mode, taken |-> st.taken]
      BY <2>1, ScanSteps
    <3> QED BY <1>1, <1>2, <3>1 DEF ScanStates
  <2>2. CASE ~st.started
    <3>1. EndWord(st) = st
      BY <2>2, ScanSteps
    <3> QED BY <3>1
  <2> QED BY <2>1, <2>2
<1>4. WriteRune(st, c) \in ScanStates(R) /\ TakeNext(st, c) \in ScanStates(R)
  <2>1. /\ WriteRune(st, c) = [args |-> st.args, cur |-> Append(st.cur, c),
              started |-> TRUE, mode |-> st.mode, taken |-> st.taken]
        /\ TakeNext(st, c) = [args |-> st.args, cur |-> Append(st.cur, c),
              started |-> TRUE, mode |-> st.mode, taken |-> TRUE]
    BY ScanSteps
  <2> QED BY <1>1, <1>2, <2>1 DEF ScanStates
<1>5. Close(st) \in ScanStates(R) /\ Skip(st) \in ScanStates(R)
  <2>1. /\ Close(st) = [args |-> st.args, cur |-> st.cur,
              started |-> st.started, mode |-> "plain", taken |-> st.taken]
        /\ Skip(st) = [args |-> st.args, cur |-> st.cur,
              started |-> st.started, mode |-> st.mode, taken |-> FALSE]
    BY ScanSteps
  <2> QED BY <1>1, <2>1 DEF ScanStates
<1>6. ASSUME NEW m \in {"single", "double"} PROVE Open(st, m) \in ScanStates(R)
  <2>1. Open(st, m) = [args |-> st.args, cur |-> st.cur,
              started |-> TRUE, mode |-> m, taken |-> st.taken]
    BY ScanSteps
  <2> QED BY <1>1, <2>1 DEF ScanStates
<1> QED BY <1>3, <1>4, <1>5, <1>6

LEMMA RuneType ==
  ASSUME NEW R, NEW s \in Seq(R), NEW st \in ScanStates(R), NEW i \in 1 .. Len(s)
  PROVE  Rune(st, s, i) \in ScanStates(R)
<1>1. s[i] \in R
  OBVIOUS
<1>2. Escapes(st, s, i) => s[i + 1] \in R
  BY DEF Escapes
<1>3. PlainRune(st, s[i]) \in ScanStates(R)
  BY <1>1, ScanStepTypes DEF PlainRune
<1>4. QuotedRune(st, s[i]) \in ScanStates(R)
  BY <1>1, ScanStepTypes DEF QuotedRune
<1>5. Escapes(st, s, i) => TakeNext(st, s[i + 1]) \in ScanStates(R)
  BY <1>2, ScanStepTypes
<1>6. Skip(st) \in ScanStates(R)
  BY <1>1, ScanStepTypes
<1> QED BY <1>3, <1>4, <1>5, <1>6 DEF Rune

LEMMA ScanIsLoop ==
  ASSUME NEW R, NEW s \in Seq(R)
  PROVE  /\ \A n \in 0 .. Len(s) : Scanned(s)[n] \in ScanStates(R)
         /\ Scanned(s)[0] = ScanStart
         /\ \A n \in 1 .. Len(s) : Scanned(s)[n] = Rune(Scanned(s)[n - 1], s, n)
<1> DEFINE L == Len(s)
           Q == ScanStates(R)
           step == [p \in Q \X (1 .. L) |-> Rune(p[1], s, p[2])]
           solves(g) == g = [n \in 0 .. L |->
                               IF n = 0 THEN ScanStart ELSE Rune(g[n - 1], s, n)]
           after == Scanned(s)
<1>1. L \in Nat
  OBVIOUS
<1>2. ScanStart \in Q
  BY DEF ScanStart, ScanStates
<1>3. \A st \in Q, n \in 1 .. L : Rune(st, s, n) \in Q
  BY RuneType
<1>4. after = CHOOSE g : solves(g)
  BY DEF Scanned
<1> HIDE DEF L, Q
<1>5. \A st \in Q, n \in 1 .. L : step[<<st, n>>] = Rune(st, s, n)
  OBVIOUS
<1>6. \A st \in Q, n \in 1 .. L : step[<<st, n>>] \in Q
  BY <1>3, <1>5
<1> HIDE DEF step
<1>7. PICK g : LoopRun(g, L, Q, ScanStart, step)
  BY <1>1, <1>2, <1>6, LoopDefined
<1>8. ASSUME NEW n \in 0 .. L
      PROVE  g[n] = IF n = 0 THEN ScanStart ELSE Rune(g[n - 1], s, n)
  <2>1. CASE n = 0
    BY <2>1, <1>7 DEF LoopRun
  <2>2. CASE n # 0
    <3>1. n \in 1 .. L /\ n - 1 \in 0 .. L
      BY <1>1, <2>2
    <3> QED BY <1>5, <1>7, <2>2, <3>1 DEF LoopRun
  <2> QED BY <2>1, <2>2
<1>9. solves(g)
  BY <1>7, <1>8 DEF LoopRun
<1>10. solves(after)
  <2> HIDE DEF solves, after
  <2> QED BY <1>4, <1>9
<1> HIDE DEF after
<1> DEFINE T == {n \in 0 .. L : after[n] \in Q}
<1>11. after[0] = ScanStart /\ 0 \in T
  BY <1>1, <1>2, <1>10
<1>12. \A n \in 1 .. L : after[n] = Rune(after[n - 1], s, n)
  BY <1>1, <1>10
<1>13. \A n \in 1 .. L : n - 1 \in T => n \in T
  BY <1>3, <1>12
<1>14. \A n \in 0 .. L : after[n] \in Q
  <2>1. 0 .. L \subseteq T
    <3> HIDE DEF T
    <3> QED BY <1>1, <1>11, <1>13, IntervalInduction
  <2> QED BY <2>1
<1> QED BY <1>11, <1>12, <1>14 DEF L, Q, after

-----------------------------------------------------------------------------
(* After i runes of s the scan has the words args and of the next one cur, *)
(* and no rune is taken.                                                   *)
Reads(s, i, args, cur, started, mode) ==
  /\ i \in 0 .. Len(s)
  /\ LET st == Scanned(s)[i]
     IN /\ st.args = args /\ st.cur = cur /\ (st.started <=> started)
        /\ st.mode = mode /\ ~st.taken

(* A rune that stands for itself.                                          *)
LEMMA ReadsOne ==
  ASSUME NEW R, NEW s \in Seq(R), NEW i \in Nat, i < Len(s),
         NEW args, NEW cur, NEW started, NEW mode,
         Reads(s, i, args, cur, started, mode),
         NEW c, s[i + 1] = c,
         \/ mode = "plain" /\ c \notin Blanks \cup {SingleQuote, DoubleQuote}
              /\ (c # Backslash \/ i + 1 = Len(s))
         \/ mode = "single" /\ c # SingleQuote
         \/ mode = "double" /\ c # DoubleQuote /\ c # Backslash
  PROVE  Reads(s, i + 1, args, Append(cur, c), TRUE, mode)
<1> DEFINE st == Scanned(s)[i]
<1>1. /\ st \in ScanStates(R) /\ i + 1 \in 1 .. Len(s)
      /\ Scanned(s)[i + 1] = Rune(st, s, i + 1)
  <2>1. i \in 0 .. Len(s) /\ i + 1 \in 1 .. Len(s) /\ i + 1 - 1 = i
    OBVIOUS
  <2>2. Scanned(s)[i + 1] = Rune(Scanned(s)[i + 1 - 1], s, i + 1)
    BY <2>1, ScanIsLoop
  <2> QED BY <2>1, <2>2, ScanIsLoop
<1>2. st.args = args /\ st.cur = cur /\ st.mode = mode /\ ~st.taken
  BY DEF Reads
<1> HIDE DEF st
<1>3. ~Escapes(st, s, i + 1)
  BY <1>1, <1>2 DEF Escapes
<1>4. Rune(st, s, i + 1) = WriteRune(st, c)
  BY <1>2, <1>3 DEF Rune, PlainRune, QuotedRune
<1>5. c \in R
  BY <1>1
<1>6. WriteRune(st, c) = [args |-> args, cur |-> Append(cur, c),
              started |-> TRUE, mode |-> mode, taken |-> FALSE]
  <2>1. WriteRune(st, c) = [args |-> st.args, cur |-> Append(st.cur, c),
              started |-> TRUE, mode |-> st.mode, taken |-> st.taken]
    BY <1>1, <1>5, ScanSteps
  <2>2. st.taken = FALSE
    BY <1>1, <1>2 DEF ScanStates
  <2> QED BY <1>2, <2>1, <2>2
<1> QED BY <1>1, <1>4, <1>6 DEF Reads

(* An escaped rune.                                                        *)
LEMMA ReadsEscaped ==
  ASSUME NEW R, NEW s \in Seq(R), NEW i \in Nat, i + 1 < Len(s),
         NEW args, NEW cur, NEW started, NEW mode,
         Reads(s, i, args, cur, started, mode),
         NEW c, s[i + 1] = Backslash, s[i + 2] = c,
         mode = "plain" \/ (mode = "double" /\ c \in Escapable)
  PROVE  Reads(s, i + 2, args, Append(cur, c), TRUE, mode)
<1> DEFINE st == Scanned(s)[i]
           st2 == Scanned(s)[i + 1]
<1>1. /\ st \in ScanStates(R) /\ i + 1 \in 1 .. Len(s) /\ i + 2 \in 1 .. Len(s)
      /\ st2 = Rune(st, s, i + 1)
      /\ Scanned(s)[i + 2] = Rune(st2, s, i + 2)
  <2>1. /\ i \in 0 .. Len(s) /\ i + 1 \in 1 .. Len(s) /\ i + 1 - 1 = i
        /\ i + 2 \in 1 .. Len(s) /\ i + 2 - 1 = i + 1
    OBVIOUS
  <2>2. Scanned(s)[i + 1] = Rune(Scanned(s)[i + 1 - 1], s, i + 1)
    BY <2>1, ScanIsLoop
  <2>3. Scanned(s)[i + 2] = Rune(Scanned(s)[i + 2 - 1], s, i + 2)
    BY <2>1, ScanIsLoop
  <2> QED BY <2>1, <2>2, <2>3, ScanIsLoop
<1>2. st.args = args /\ st.cur = cur /\ st.mode = mode /\ ~st.taken
  BY DEF Reads
<1> HIDE DEF st, st2
<1>3. Escapes(st, s, i + 1)
  BY <1>1, <1>2 DEF Escapes
<1>4. c \in R
  BY <1>1
<1>5. st2 = [args |-> args, cur |-> Append(cur, c),
             started |-> TRUE, mode |-> mode, taken |-> TRUE]
  <2>1. st2 = TakeNext(st, c)
    BY <1>1, <1>2, <1>3 DEF Rune
  <2> QED BY <1>1, <1>2, <1>4, <2>1, ScanSteps
<1>6. Rune(st2, s, i + 2) = [args |-> args, cur |-> Append(cur, c),
             started |-> TRUE, mode |-> mode, taken |-> FALSE]
  <2>1. Rune(st2, s, i + 2) = Skip(st2) /\ st2 \in ScanStates(R)
    BY <1>1, <1>4, <1>5, ScanStepTypes, ScanIsLoop DEF Rune, st2
  <2> QED BY <1>4, <1>5, <2>1, ScanSteps
<1> QED BY <1>1, <1>6 DEF Reads

(* A quote that opens or closes, and a blank that ends a word.             *)
LEMMA ReadsMark ==
  ASSUME NEW R, NEW s \in Seq(R), NEW i \in Nat, i < Len(s),
         NEW args, NEW cur, NEW started, NEW mode,
         Reads(s, i, args, cur, started, mode)
  PROVE  /\ mode = "plain" /\ s[i + 1] = SingleQuote =>
              Reads(s, i + 1, args, cur, TRUE, "single")
         /\ mode = "plain" /\ s[i + 1] = DoubleQuote =>
              Reads(s, i + 1, args, cur, TRUE, "double")
         /\ mode = "single" /\ s[i + 1] = SingleQuote =>
              Reads(s, i + 1, args, cur, started, "plain")
         /\ mode = "double" /\ s[i + 1] = DoubleQuote =>
              Reads(s, i + 1, args, cur, started, "plain")
         /\ mode = "plain" /\ s[i + 1] \in Blanks =>
              /\ started => Reads(s, i + 1, Append(args, cur), <<>>, FALSE, "plain")
              /\ ~started => Reads(s, i + 1, args, cur, FALSE, "plain")
<1> DEFINE st == Scanned(s)[i]
           c == s[i + 1]
<1>1. /\ st \in ScanStates(R) /\ i + 1 \in 1 .. Len(s) /\ c \in R
      /\ Scanned(s)[i + 1] = Rune(st, s, i + 1)
  <2>1. i \in 0 .. Len(s) /\ i + 1 \in 1 .. Len(s) /\ i + 1 - 1 = i
    OBVIOUS
  <2>2. Scanned(s)[i + 1] = Rune(Scanned(s)[i + 1 - 1], s, i + 1)
    BY <2>1, ScanIsLoop
  <2> QED BY <2>1, <2>2, ScanIsLoop
<1>2. /\ st.args = args /\ st.cur = cur /\ st.mode = mode /\ ~st.taken
      /\ (st.started <=> started)
  BY DEF Reads
<1>3. st.taken = FALSE /\ st.started \in BOOLEAN
  BY <1>1, <1>2 DEF ScanStates
<1> HIDE DEF st
<1>4. c \in Blanks \cup {SingleQuote, DoubleQuote} => ~Escapes(st, s, i + 1)
  BY MarksApart DEF Escapes
<1>5. Rune(st, s, i + 1) =
        IF Escapes(st, s, i + 1) THEN TakeNext(st, s[i + 2])
        ELSE IF mode = "plain" THEN PlainRune(st, c) ELSE QuotedRune(st, c)
  <2>1. i + 1 + 1 = i + 2
    OBVIOUS
  <2> QED BY <1>2, <2>1 DEF Rune
<1> HIDE DEF c
<1>6. /\ \A m : Open(st, m) = [args |-> args, cur |-> cur,
              started |-> TRUE, mode |-> m, taken |-> FALSE]
      /\ Close(st) = [args |-> args, cur |-> cur,
              started |-> st.started, mode |-> "plain", taken |-> FALSE]
      /\ EndWord(st) = IF st.started
              THEN [args |-> Append(args, cur), cur |-> <<>>,
                    started |-> FALSE, mode |-> mode, taken |-> FALSE]
              ELSE st
  BY <1>1, <1>2, <1>3, ScanSteps
<1>7. ASSUME mode = "plain", c = SingleQuote
      PROVE  Reads(s, i + 1, args, cur, TRUE, "single")
  <2>1. Rune(st, s, i + 1) = Open(st, "single")
    BY <1>4, <1>5, <1>7, MarksApart DEF PlainRune
  <2> QED BY <1>1, <1>6, <2>1 DEF Reads
<1>8. ASSUME mode = "plain", c = DoubleQuote
      PROVE  Reads(s, i + 1, args, cur, TRUE, "double")
  <2>1. Rune(st, s, i + 1) = Open(st, "double")
    BY <1>4, <1>5, <1>8, MarksApart DEF PlainRune
  <2> QED BY <1>1, <1>6, <2>1 DEF Reads
<1>9. ASSUME \/ mode = "single" /\ c = SingleQuote
             \/ mode = "double" /\ c = DoubleQuote
      PROVE  Reads(s, i + 1, args, cur, started, "plain")
  <2>1. Rune(st, s, i + 1) = Close(st)
    BY <1>2, <1>4, <1>5, <1>9, MarksApart DEF QuotedRune
  <2> QED BY <1>1, <1>2, <1>6, <2>1 DEF Reads
<1>10. ASSUME mode = "plain", c \in Blanks
       PROVE  /\ started => Reads(s, i + 1, Append(args, cur), <<>>, FALSE, "plain")
              /\ ~started => Reads(s, i + 1, args, cur, FALSE, "plain")
  <2>1. Rune(st, s, i + 1) = EndWord(st)
    BY <1>4, <1>5, <1>10, MarksApart DEF PlainRune
  <2>2. CASE started
    BY <1>1, <1>2, <1>6, <1>10, <2>1, <2>2 DEF Reads
  <2>3. CASE ~started
    <3>1. Scanned(s)[i + 1] = st
      BY <1>1, <1>2, <1>6, <2>1, <2>3
    <3> QED BY <1>1, <1>2, <1>10, <2>3, <3>1 DEF Reads
  <2> QED BY <2>2, <2>3
<1> QED BY <1>7, <1>8, <1>9, <1>10 DEF c

Styles == {"bare", "single", "double", "escaped"}

(* The mode the scan is in while it reads the runes of a piece.            *)
ModeOf(style) == IF style \in {"single", "double"} THEN style ELSE "plain"

WritableRune(style, c) ==
  /\ style = "single" => c # SingleQuote
  /\ style = "bare" => c \notin Blanks \cup {SingleQuote, DoubleQuote, Backslash}

LEMMA UnitType ==
  ASSUME NEW R, Marks \subseteq R, NEW style \in Styles, NEW c \in R
  PROVE  WrittenRune(style, c) \in Seq(R) /\ QuoteOf(style) \in Seq(R)
  BY DEF WrittenRune, QuoteOf, Marks, Styles

(* Each rune of a piece is read back.                                      *)
LEMMA UnitReads ==
  ASSUME NEW R, NEW s \in Seq(R), NEW i,
         NEW args, NEW cur, NEW started, NEW style \in Styles, NEW c \in R,
         WritableRune(style, c), StandsAt(s, i, WrittenRune(style, c)),
         Reads(s, i, args, cur, started, ModeOf(style))
  PROVE  Reads(s, i + Len(WrittenRune(style, c)), args, Append(cur, c), TRUE, ModeOf(style))
<1> DEFINE w == WrittenRune(style, c)
<1>1. i \in Nat /\ i + Len(w) <= Len(s) /\ \A k \in 1 .. Len(w) : s[i + k] = w[k]
  BY DEF StandsAt
<1>2. Len(s) \in Nat
  OBVIOUS
<1>3. CASE w = <<c>>
  <2>1. Len(w) = 1 /\ w[1] = c /\ 1 \in 1 .. Len(w)
    BY <1>3
  <2> HIDE DEF w
  <2>2. s[i + 1] = c /\ i < Len(s)
    BY <1>1, <1>2, <2>1
  <2>3. style = "double" => c # DoubleQuote /\ c # Backslash
    <3> SUFFICES ASSUME style = "double", c \in {DoubleQuote, Backslash} PROVE FALSE
      OBVIOUS
    <3>1. w = <<Backslash, c>>
      BY DEF w, WrittenRune
    <3>2. Len(<<Backslash, c>>) = 2
      OBVIOUS
    <3> QED BY <2>1, <3>1, <3>2
  <2>4. style # "escaped"
    <3> SUFFICES ASSUME style = "escaped" PROVE FALSE
      OBVIOUS
    <3>1. w = <<Backslash, c>>
      BY DEF w, WrittenRune
    <3>2. Len(<<Backslash, c>>) = 2
      OBVIOUS
    <3> QED BY <2>1, <3>1, <3>2
  <2>5. Reads(s, i + 1, args, Append(cur, c), TRUE, ModeOf(style))
    <3>1. CASE style = "single"
      <4>1. ModeOf(style) = "single" /\ c # SingleQuote
        BY <3>1 DEF ModeOf, WritableRune
      <4> QED BY <1>1, <2>2, <4>1, ReadsOne
    <3>2. CASE style = "double"
      <4>1. ModeOf(style) = "double"
        BY <3>2 DEF ModeOf
      <4> QED BY <1>1, <2>2, <2>3, <3>2, <4>1, ReadsOne
    <3>3. CASE style = "bare"
      <4>1. /\ ModeOf(style) = "plain"
            /\ c \notin Blanks \cup {SingleQuote, DoubleQuote, Backslash}
        BY <3>3 DEF ModeOf, WritableRune
      <4> QED BY <1>1, <2>2, <4>1, ReadsOne
    <3> QED BY <2>4, <3>1, <3>2, <3>3 DEF Styles
  <2> QED BY <2>1, <2>5 DEF w
<1>4. CASE w = <<Backslash, c>>
  <2>1. /\ Len(w) = 2 /\ w[1] = Backslash /\ w[2] = c
        /\ 1 \in 1 .. Len(w) /\ 2 \in 1 .. Len(w)
    BY <1>4
  <2> HIDE DEF w
  <2>2. s[i + 1] = Backslash /\ s[i + 2] = c /\ i + 1 < Len(s)
    BY <1>1, <1>2, <2>1
  <2>3. CASE style = "escaped"
    <3>1. ModeOf(style) = "plain"
      BY <2>3 DEF ModeOf
    <3>2. Reads(s, i + 2, args, Append(cur, c), TRUE, ModeOf(style))
      BY <1>1, <2>2, <3>1, ReadsEscaped
    <3> QED BY <2>1, <3>2 DEF w
  <2>4. CASE style # "escaped"
    <3>1. style = "double" /\ c \in {DoubleQuote, Backslash}
      <4> SUFFICES ASSUME ~(style = "double" /\ c \in {DoubleQuote, Backslash})
                   PROVE  FALSE
        OBVIOUS
      <4>1. w = <<c>>
        BY <2>4 DEF w, WrittenRune
      <4> QED BY <2>1, <4>1
    <3>2. ModeOf(style) = "double" /\ c \in Escapable
      BY <3>1, MarksApart DEF ModeOf
    <3>3. Reads(s, i + 2, args, Append(cur, c), TRUE, ModeOf(style))
      BY <1>1, <2>2, <3>2, ReadsEscaped
    <3> QED BY <2>1, <3>3 DEF w
  <2> QED BY <2>3, <2>4
<1>5. w = <<c>> \/ w = <<Backslash, c>>
  BY DEF WrittenRune
<1> QED BY <1>3, <1>4, <1>5

(* What stands between the quotes of a piece.                              *)
UnitsOf(style, runes) == [k \in DOMAIN runes |-> WrittenRune(style, runes[k])]

LEMMA BodyReads ==
  ASSUME NEW R, Marks \subseteq R, NEW s \in Seq(R), NEW i,
         NEW args, NEW cur \in Seq(R), NEW started, NEW style \in Styles, NEW runes \in Seq(R),
         \A k \in 1 .. Len(runes) : WritableRune(style, runes[k]),
         StandsAt(s, i, FlattenSeq(UnitsOf(style, runes))),
         Reads(s, i, args, cur, started, ModeOf(style))
  PROVE  /\ FlattenSeq(UnitsOf(style, runes)) \in Seq(R)
         /\ Reads(s, i + Len(FlattenSeq(UnitsOf(style, runes))), args, cur \o runes,
                  started \/ runes # <<>>, ModeOf(style))
<1> DEFINE L == Len(runes)
           units == UnitsOf(style, runes)
           end(n) == i + Len(Joined(units, n))
           read(n) == cur \o SubSeq(runes, 1, n)
           T == {n \in 0 .. L :
                   Reads(s, end(n), args, read(n), started \/ n > 0, ModeOf(style))}
<1>1. /\ L \in Nat /\ i \in Nat /\ DOMAIN runes = 1 .. L
      /\ \A k \in 1 .. L : runes[k] \in R
  BY DEF StandsAt
<1>2. /\ \A k \in 1 .. L : units[k] = WrittenRune(style, runes[k])
      /\ units = [k \in 1 .. Len(units) |-> units[k]] /\ Len(units) = L
  BY <1>1 DEF UnitsOf
<1> HIDE DEF L, units
<1>3. \A k \in 1 .. L : units[k] \in Seq(R)
  BY <1>1, <1>2, UnitType
<1>4. /\ Joined(units, 0) = <<>>
      /\ \A n \in 0 .. L : Joined(units, n) \in Seq(R)
      /\ \A n \in 1 .. L : Joined(units, n) = Joined(units, n - 1) \o units[n]
  BY <1>1, <1>3, FlattenIsLoop, ZenonT(30)
<1>5. FlattenSeq(units) = Joined(units, L)
  BY <1>2, JoinedAll
<1>6. 0 \in T
  <2>1. Len(<<>>) = 0 /\ i + 0 = i /\ 0 \in 0 .. L
    BY <1>1
  <2>2. SubSeq(runes, 1, 0) = <<>>
    BY SubSeqEmpty DEF L
  <2>3. cur \o <<>> = cur
    BY ConcatEmptySeq
  <2>4. end(0) = i /\ read(0) = cur
    BY <1>4, <2>1, <2>2, <2>3
  <2>5. (started \/ 0 > 0) <=> started
    OBVIOUS
  <2> HIDE DEF end, read
  <2> QED BY <2>1, <2>4, <2>5 DEF Reads
<1>7. \A n \in 1 .. L : StandsAt(s, i + Len(Joined(units, n - 1)), units[n])
  <2>1. StandsAt(s, i, Joined(units, L))
    BY <1>5 DEF units
  <2> QED BY <1>1, <1>3, <2>1, StandsJoined
<1>8. ASSUME NEW n \in 1 .. L, n - 1 \in T PROVE n \in T
  <2> DEFINE c == runes[n]
  <2>1. n - 1 \in 0 .. L /\ n \in 0 .. L /\ n > 0
    BY <1>1
  <2>2. end(n) = end(n - 1) + Len(WrittenRune(style, c))
    <3>1. Joined(units, n) = Joined(units, n - 1) \o units[n]
      BY <1>4
    <3>2. Joined(units, n - 1) \in Seq(R) /\ units[n] \in Seq(R)
      BY <1>3, <1>4, <2>1
    <3>3. Len(Joined(units, n)) = Len(Joined(units, n - 1)) + Len(units[n])
      BY <3>1, <3>2, ConcatProperties
    <3>4. Len(Joined(units, n - 1)) \in Nat /\ Len(units[n]) \in Nat
      BY <3>2
    <3>5. units[n] = WrittenRune(style, c)
      BY <1>2
    <3> HIDE DEF c
    <3> QED BY <1>1, <3>3, <3>4, <3>5
  <2>3. read(n) = Append(read(n - 1), c)
    <3>1. SubSeq(runes, 1, n) = Append(SubSeq(runes, 1, n - 1), c)
      BY <1>1, <2>1 DEF L
    <3>2. SubSeq(runes, 1, n - 1) \in Seq(R) /\ c \in R
      BY <1>1, <2>1 DEF L
    <3>3. cur \o Append(SubSeq(runes, 1, n - 1), c) = Append(cur \o SubSeq(runes, 1, n - 1), c)
      BY <3>2
    <3> QED BY <3>1, <3>3
  <2>4. Reads(s, end(n - 1), args, read(n - 1), started \/ n - 1 > 0, ModeOf(style))
    BY <1>8
  <2>5. StandsAt(s, end(n - 1), WrittenRune(style, c))
    BY <1>2, <1>7
  <2>6. c \in R /\ WritableRune(style, c)
    BY <1>1 DEF L
  <2> HIDE DEF end, read, c
  <2>7. Reads(s, end(n - 1) + Len(WrittenRune(style, c)), args, Append(read(n - 1), c), TRUE,
              ModeOf(style))
    BY <2>4, <2>5, <2>6, UnitReads
  <2>8. Reads(s, end(n), args, read(n), started \/ n > 0, ModeOf(style))
    BY <2>1, <2>2, <2>3, <2>7 DEF Reads
  <2> QED BY <2>1, <2>8
<1>9. L \in T
  <2>1. 0 .. L \subseteq T
    <3> HIDE DEF T
    <3> QED BY <1>1, <1>6, <1>8, IntervalInduction
  <2> QED BY <1>1, <2>1
<1>10. SubSeq(runes, 1, L) = runes /\ (L > 0 <=> runes # <<>>)
  BY DEF L
<1>11. Reads(s, end(L), args, read(L), started \/ L > 0, ModeOf(style))
  BY <1>9
<1>12. FlattenSeq(units) \in Seq(R)
  BY <1>1, <1>4, <1>5
<1> QED BY <1>5, <1>10, <1>11, <1>12 DEF units, Reads

(* A piece, whatever its style, is read back into the word.                *)
LEMMA PieceReads ==
  ASSUME NEW R, Marks \subseteq R, NEW s \in Seq(R), NEW i,
         NEW args, NEW cur \in Seq(R), NEW started, NEW piece,
         piece.style \in Styles, piece.runes \in Seq(R), Writable(piece),
         StandsAt(s, i, Written(piece)),
         Reads(s, i, args, cur, started, "plain")
  PROVE  Reads(s, i + Len(Written(piece)), args, cur \o piece.runes, TRUE, "plain")
<1> DEFINE style == piece.style
           runes == piece.runes
           q == QuoteOf(style)
           body == FlattenSeq(UnitsOf(style, runes))
<1>1. Written(piece) = (q \o body) \o q
  BY DEF Written, UnitsOf
<1>2. ASSUME NEW k \in 1 .. Len(runes) PROVE WritableRune(style, runes[k])
  <2>1. k \in DOMAIN runes
    OBVIOUS
  <2> QED BY <2>1 DEF Writable, WritableRune, Styles
<1>3. \A k \in 1 .. Len(runes) : WrittenRune(style, runes[k]) \in Seq(R)
  BY UnitType
<1>4. q \in Seq(R) /\ body \in Seq(R)
  <2>1. q \in Seq(R)
    BY DEF QuoteOf, Marks
  <2> DEFINE units == UnitsOf(style, runes)
             L == Len(runes)
  <2>2. /\ units = [k \in 1 .. Len(units) |-> units[k]] /\ Len(units) = L /\ L \in Nat
        /\ \A k \in 1 .. L : units[k] \in Seq(R)
    BY <1>3 DEF UnitsOf
  <2> HIDE DEF units, L
  <2>3. FlattenSeq(units) = Joined(units, L)
    BY <2>2, JoinedAll
  <2>4. L \in 0 .. L
    BY <2>2
  <2>5. Joined(units, L) \in Seq(R)
    BY <2>2, <2>4, FlattenIsLoop
  <2> QED BY <2>1, <2>3, <2>5 DEF units
<1> HIDE DEF q, body
<1>5. /\ q \o body \in Seq(R) /\ Len(q \o body) = Len(q) + Len(body)
      /\ Len((q \o body) \o q) = Len(q) + Len(body) + Len(q)
      /\ Len(q) \in Nat /\ Len(body) \in Nat /\ i \in Nat
  BY <1>4, ConcatProperties DEF Reads
<1>6. StandsAt(s, i, q \o body) /\ StandsAt(s, i + Len(q \o body), q)
  BY <1>1, <1>4, <1>5, StandsSplit
<1>7. /\ StandsAt(s, i, q) /\ StandsAt(s, i + Len(q), body)
      /\ StandsAt(s, i + Len(q) + Len(body), q)
  <2>1. StandsAt(s, i, q) /\ StandsAt(s, i + Len(q), body)
    BY <1>4, <1>6, StandsSplit
  <2>2. i + Len(q \o body) = i + Len(q) + Len(body)
    BY <1>5
  <2> QED BY <1>6, <2>1, <2>2
<1>8. Len(s) \in Nat
  OBVIOUS
<1>9. CASE style \in {"single", "double"}
  <2> DEFINE mark == q[1]
  <2>1. /\ Len(q) = 1 /\ ModeOf(style) = style
        /\ \/ style = "single" /\ mark = SingleQuote
           \/ style = "double" /\ mark = DoubleQuote
    BY <1>9 DEF q, QuoteOf, ModeOf
  <2> HIDE DEF mark
  <2>2. s[i + 1] = mark /\ i < Len(s)
    BY <1>5, <1>7, <1>8, <2>1 DEF StandsAt, mark
  <2>3. Reads(s, i + 1, args, cur, TRUE, ModeOf(style))
    BY <1>5, <2>1, <2>2, ReadsMark
  <2> DEFINE j == i + 1 + Len(body)
  <2>4. Reads(s, j, args, cur \o runes, TRUE, ModeOf(style))
    <3>1. StandsAt(s, i + 1, body)
      BY <1>7, <2>1
    <3>2. Reads(s, i + 1 + Len(body), args, cur \o runes, TRUE \/ runes # <<>>, ModeOf(style))
      BY <1>2, <2>3, <3>1, BodyReads DEF body
    <3> QED BY <3>2 DEF Reads
  <2>5. j \in Nat /\ j < Len(s) /\ s[j + 1] = mark
    BY <1>5, <1>7, <1>8, <2>1 DEF StandsAt, mark
  <2>6. j + 1 = i + Len(Written(piece))
    BY <1>1, <1>5, <2>1
  <2> HIDE DEF j
  <2>7. Reads(s, j + 1, args, cur \o runes, TRUE, "plain")
    BY <2>1, <2>4, <2>5, ReadsMark
  <2> QED BY <2>6, <2>7
<1>10. CASE style \in {"bare", "escaped"}
  <2>1. q = <<>> /\ Len(q) = 0 /\ ModeOf(style) = "plain"
    BY <1>10 DEF q, QuoteOf, ModeOf
  <2>2. runes # <<>>
    BY <1>10 DEF Writable
  <2>3. StandsAt(s, i, body) /\ i + Len(body) = i + Len(Written(piece))
    BY <1>1, <1>5, <1>7, <2>1
  <2>4. Reads(s, i + Len(body), args, cur \o runes, started \/ runes # <<>>, ModeOf(style))
    BY <1>2, <2>1, <2>3, BodyReads DEF body
  <2> QED BY <2>1, <2>2, <2>3, <2>4 DEF Reads
<1> QED BY <1>9, <1>10 DEF Styles

(* A line of pieces and gaps over the runes R.                             *)
LinePieces(R) ==
  {Gap} \cup {p \in [style : Styles, runes : Seq(R)] : Writable(p)}

LEMMA PieceIs ==
  ASSUME NEW R, NEW p \in LinePieces(R), p # Gap
  PROVE  p.style \in Styles /\ p.runes \in Seq(R) /\ Writable(p)
  BY DEF LinePieces

LEMMA GapIs ==
  /\ Written(Gap) = <<Space>>
  /\ \A R : \A p \in LinePieces(R) : p.style \in Styles => p # Gap
<1>1. Gap.style = "gap" /\ Gap.runes = <<Space>>
  BY DEF Gap
<1>2. QuoteOf("gap") = <<>>
  BY DEF QuoteOf
<1>3. WrittenRune("gap", Space) = <<Space>>
  BY DEF WrittenRune
<1> DEFINE units == [i \in DOMAIN <<Space>> |-> WrittenRune("gap", <<Space>>[i])]
           S == {Space}
<1>4. /\ units = [k \in 1 .. Len(units) |-> units[k]] /\ Len(units) = 1
      /\ \A k \in 1 .. 1 : units[k] = <<Space>>
  BY <1>3
<1>5. Written(Gap) = <<>> \o FlattenSeq(units) \o <<>>
  BY <1>1, <1>2 DEF Written
<1> HIDE DEF units
<1>6. FlattenSeq(units) = Joined(units, 1)
  BY <1>4, JoinedAll
<1>7. \A k \in 1 .. 1 : units[k] \in Seq(S)
  <2>1. <<Space>> \in Seq(S)
    BY DEF S
  <2> HIDE DEF S
  <2> QED BY <1>4, <2>1
<1>8. 1 \in 1 .. 1 /\ 1 - 1 = 0 /\ 1 \in Nat
  OBVIOUS
<1> HIDE DEF S
<1>9. Joined(units, 0) = <<>> /\ Joined(units, 1) = Joined(units, 1 - 1) \o units[1]
  BY <1>7, <1>8, FlattenIsLoop
<1>10. Joined(units, 1) = <<Space>>
  BY <1>4, <1>8, <1>9
<1>11. Written(Gap) = <<Space>>
  BY <1>5, <1>6, <1>10
<1>12. ASSUME NEW R, NEW p \in LinePieces(R), p.style \in Styles PROVE p # Gap
  BY <1>1, <1>12 DEF Styles
<1> QED BY <1>11, <1>12

LEMMA WrittenType ==
  ASSUME NEW R, Marks \subseteq R, NEW p \in LinePieces(R)
  PROVE  Written(p) \in Seq(R)
<1>1. CASE p = Gap
  BY <1>1, GapIs DEF Marks
<1>2. CASE p # Gap
  <2> DEFINE style == p.style
             runes == p.runes
             units == UnitsOf(style, runes)
             L == Len(runes)
  <2>1. style \in Styles /\ runes \in Seq(R)
    BY <1>2, PieceIs
  <2>2. /\ units = [k \in 1 .. Len(units) |-> units[k]] /\ Len(units) = L /\ L \in Nat
        /\ \A k \in 1 .. L : units[k] \in Seq(R)
    BY <2>1, UnitType DEF UnitsOf
  <2>3. QuoteOf(style) \in Seq(R)
    BY <2>1 DEF QuoteOf, Marks
  <2>4. Written(p) = QuoteOf(style) \o FlattenSeq(units) \o QuoteOf(style)
    BY DEF Written, UnitsOf
  <2> HIDE DEF units, L
  <2>5. FlattenSeq(units) = Joined(units, L)
    BY <2>2, JoinedAll
  <2>6. L \in 0 .. L
    BY <2>2
  <2>7. Joined(units, L) \in Seq(R)
    BY <2>2, <2>6, FlattenIsLoop
  <2> QED BY <2>3, <2>4, <2>5, <2>7
<1> QED BY <1>1, <1>2

-----------------------------------------------------------------------------
(* The first k pieces of a line: what is written for them, what the n-th   *)
(* word has of them, and whether a word is open after them.                *)
WrittenTo(ln, k) == Joined([i \in DOMAIN ln |-> Written(ln[i])], k)
WordTo(ln, n, k) == Joined([i \in DOMAIN ln |-> Part(ln, n, i)], k)
IsOpen(ln, k) == k > 0 /\ ln[k] # Gap

LEMMA WrittenGrows ==
  ASSUME NEW R, Marks \subseteq R, NEW ln \in Seq(LinePieces(R))
  PROVE  /\ WrittenTo(ln, 0) = <<>>
         /\ \A k \in 0 .. Len(ln) : WrittenTo(ln, k) \in Seq(R)
         /\ \A k \in 1 .. Len(ln) : WrittenTo(ln, k) = WrittenTo(ln, k - 1) \o Written(ln[k])
         /\ WrittenLine(ln) = WrittenTo(ln, Len(ln))
         /\ \A s \in Seq(R) : StandsAt(s, 0, WrittenLine(ln)) =>
              \A k \in 1 .. Len(ln) : StandsAt(s, Len(WrittenTo(ln, k - 1)), Written(ln[k]))
<1> DEFINE L == Len(ln)
           parts == [i \in DOMAIN ln |-> Written(ln[i])]
<1>1. /\ L \in Nat /\ Len(parts) = L /\ parts = [k \in 1 .. Len(parts) |-> parts[k]]
      /\ \A k \in 1 .. L : parts[k] = Written(ln[k]) /\ ln[k] \in LinePieces(R)
  OBVIOUS
<1>2. WrittenLine(ln) = FlattenSeq(parts) /\ \A k : WrittenTo(ln, k) = Joined(parts, k)
  BY DEF WrittenLine, WrittenTo
<1> HIDE DEF L, parts
<1>3. \A k \in 1 .. L : parts[k] \in Seq(R)
  BY <1>1, WrittenType
<1>4. FlattenSeq(parts) = Joined(parts, L)
  BY <1>1, JoinedAll
<1>5. /\ Joined(parts, 0) = <<>>
      /\ \A n \in 0 .. L : Joined(parts, n) \in Seq(R)
      /\ \A n \in 1 .. L : Joined(parts, n) = Joined(parts, n - 1) \o parts[n]
  BY <1>1, <1>3, FlattenIsLoop, ZenonT(30)
<1>6. ASSUME NEW s \in Seq(R), StandsAt(s, 0, Joined(parts, L)), NEW k \in 1 .. L
      PROVE  StandsAt(s, Len(WrittenTo(ln, k - 1)), Written(ln[k]))
  <2>1. StandsAt(s, 0 + Len(Joined(parts, k - 1)), parts[k])
    BY <1>1, <1>3, <1>6, StandsJoined
  <2>2. k - 1 \in 0 .. L
    BY <1>1
  <2>3. Len(Joined(parts, k - 1)) \in Nat
    BY <1>5, <2>2
  <2>4. 0 + Len(Joined(parts, k - 1)) = Len(Joined(parts, k - 1))
    BY <2>3
  <2> QED BY <1>1, <1>2, <2>1, <2>4
<1> QED BY <1>1, <1>2, <1>4, <1>5, <1>6 DEF L

LEMMA WordGrows ==
  ASSUME NEW R, NEW ln \in Seq(LinePieces(R)), NEW n
  PROVE  /\ WordTo(ln, n, 0) = <<>>
         /\ \A k \in 0 .. Len(ln) : WordTo(ln, n, k) \in Seq(R)
         /\ \A k \in 1 .. Len(ln) : WordTo(ln, n, k) = WordTo(ln, n, k - 1) \o Part(ln, n, k)
         /\ FlattenSeq([i \in DOMAIN ln |-> Part(ln, n, i)]) = WordTo(ln, n, Len(ln))
<1> DEFINE L == Len(ln)
           parts == [i \in DOMAIN ln |-> Part(ln, n, i)]
<1>1. /\ L \in Nat /\ Len(parts) = L /\ parts = [k \in 1 .. Len(parts) |-> parts[k]]
      /\ \A k \in 1 .. L : parts[k] = Part(ln, n, k) /\ ln[k] \in LinePieces(R)
  OBVIOUS
<1>2. \A k : WordTo(ln, n, k) = Joined(parts, k)
  BY DEF WordTo
<1>3. ASSUME NEW k \in 1 .. L PROVE parts[k] \in Seq(R)
  <2>1. CASE ln[k] = Gap
    BY <1>1, <2>1 DEF Part
  <2>2. CASE ln[k] # Gap
    <3>1. ln[k].runes \in Seq(R)
      BY <1>1, <2>2, PieceIs
    <3> QED BY <1>1, <3>1 DEF Part
  <2> QED BY <2>1, <2>2
<1>4. FlattenSeq(parts) = Joined(parts, L)
  <2> HIDE DEF parts
  <2> QED BY <1>1, JoinedAll
<1>5. /\ Joined(parts, 0) = <<>>
      /\ \A k \in 0 .. L : Joined(parts, k) \in Seq(R)
      /\ \A k \in 1 .. L : Joined(parts, k) = Joined(parts, k - 1) \o parts[k]
  <2> HIDE DEF parts, L
  <2> QED BY <1>1, <1>3, FlattenIsLoop, ZenonT(30)
<1> QED BY <1>1, <1>2, <1>4, <1>5

(* Each piece that starts a word is one more word.                         *)
LEMMA WordsCounted ==
  ASSUME NEW P, NEW ln \in Seq(P)
  PROVE  /\ WordOf(ln, 0) = 0
         /\ \A k \in 0 .. Len(ln) : WordOf(ln, k) \in Nat
         /\ \A k \in 1 .. Len(ln) :
              WordOf(ln, k) = IF k \in WordStarts(ln) THEN WordOf(ln, k - 1) + 1
                              ELSE WordOf(ln, k - 1)
<1> DEFINE S == WordStarts(ln)
           upto(k) == S \cap (1 .. k)
<1>1. S \subseteq 1 .. Len(ln)
  BY DEF WordStarts
<1> HIDE DEF S
<1>2. ASSUME NEW k \in Int PROVE IsFiniteSet(upto(k)) /\ Cardinality(upto(k)) \in Nat
  <2>1. IsFiniteSet(1 .. k)
    <3>1. 1 \in Int /\ k \in Int
      OBVIOUS
    <3> QED BY <3>1, FS_Interval
  <2>2. upto(k) \subseteq 1 .. k
    OBVIOUS
  <2> QED BY <2>1, <2>2, FS_Subset, FS_CardinalityType
<1>3. WordOf(ln, 0) = 0
  <2>1. upto(0) = {}
    OBVIOUS
  <2> QED BY <2>1, FS_EmptySet DEF WordOf, S
<1>4. \A k \in 0 .. Len(ln) : WordOf(ln, k) \in Nat
  <2>1. \A k \in 0 .. Len(ln) : k \in Int
    OBVIOUS
  <2>2. \A k : WordOf(ln, k) = Cardinality(upto(k))
    BY DEF WordOf, S
  <2> HIDE DEF upto
  <2> QED BY <1>2, <2>1, <2>2
<1>5. ASSUME NEW k \in 1 .. Len(ln)
      PROVE  WordOf(ln, k) = IF k \in S THEN WordOf(ln, k - 1) + 1 ELSE WordOf(ln, k - 1)
  <2>1. k \in Int /\ k - 1 \in Int /\ k \notin upto(k - 1)
    OBVIOUS
  <2>2. CASE k \in S
    <3>1. upto(k) = upto(k - 1) \cup {k}
      BY <2>2
    <3> HIDE DEF upto
    <3>2. Cardinality(upto(k)) = Cardinality(upto(k - 1)) + 1
      BY <1>2, <2>1, <3>1, FS_AddElement
    <3> QED BY <2>2, <3>2 DEF WordOf, upto, S
  <2>3. CASE k \notin S
    <3>1. upto(k) = upto(k - 1)
      BY <2>3
    <3> QED BY <2>3, <3>1 DEF WordOf, S
  <2> QED BY <2>2, <2>3
<1> QED BY <1>3, <1>4, <1>5 DEF S

(* After the first k pieces of a line the scan has the words they stand    *)
(* for, the last one still open if a piece was the last to be read.        *)
WordsTo(ln, k) ==
  [n \in 1 .. (IF IsOpen(ln, k) THEN WordOf(ln, k) - 1 ELSE WordOf(ln, k)) |->
     WordTo(ln, n, k)]

LineRead(s, ln, k) ==
  /\ Reads(s, Len(WrittenTo(ln, k)), WordsTo(ln, k),
           IF IsOpen(ln, k) THEN WordTo(ln, WordOf(ln, k), k) ELSE <<>>,
           IsOpen(ln, k), "plain")
  /\ \A n \in Nat : n > WordOf(ln, k) => WordTo(ln, n, k) = <<>>
  /\ IsOpen(ln, k) => WordOf(ln, k) > 0
  /\ WordOf(ln, k) = 0 <=> \A i \in 1 .. k : ln[i] = Gap

(* A gap ends the open word.                                               *)
LEMMA GapReads ==
  ASSUME NEW R, Marks \subseteq R, NEW ln \in Seq(LinePieces(R)), NEW s \in Seq(R),
         StandsAt(s, 0, WrittenLine(ln)),
         NEW k \in 1 .. Len(ln), ln[k] = Gap, LineRead(s, ln, k - 1)
  PROVE  LineRead(s, ln, k)
<1> DEFINE N == WordOf(ln, k)
           w(n) == WordTo(ln, n, k)
           i == Len(WrittenTo(ln, k - 1))
<1>1. k - 1 \in 0 .. Len(ln) /\ k \in 0 .. Len(ln) /\ Len(ln) \in Nat
  OBVIOUS
<1>2. k \notin WordStarts(ln)
  BY DEF WordStarts
<1>3. N = WordOf(ln, k - 1) /\ N \in Nat
  BY <1>1, <1>2, WordsCounted
<1>4. ASSUME NEW n PROVE w(n) = WordTo(ln, n, k - 1) /\ w(n) \in Seq(R)
  <2>1. Part(ln, n, k) = <<>>
    BY DEF Part
  <2>2. /\ w(n) = WordTo(ln, n, k - 1) \o Part(ln, n, k)
        /\ WordTo(ln, n, k - 1) \in Seq(R) /\ w(n) \in Seq(R)
    BY <1>1, WordGrows
  <2> QED BY <2>1, <2>2, ConcatEmptySeq
<1>5. ~IsOpen(ln, k)
  BY DEF IsOpen
<1>6. WordsTo(ln, k) = [n \in 1 .. N |-> w(n)]
  BY <1>5 DEF WordsTo
<1>7. Len(WrittenTo(ln, k)) = i + 1 /\ i \in Nat
  <2>1. /\ WrittenTo(ln, k) = WrittenTo(ln, k - 1) \o <<Space>>
        /\ WrittenTo(ln, k - 1) \in Seq(R) /\ <<Space>> \in Seq(R)
    <3>1. WrittenTo(ln, k) = WrittenTo(ln, k - 1) \o Written(ln[k])
      BY WrittenGrows
    <3>2. WrittenTo(ln, k - 1) \in Seq(R)
      BY <1>1, WrittenGrows
    <3> QED BY <3>1, <3>2, GapIs DEF Marks
  <2> HIDE DEF i
  <2>2. Len(WrittenTo(ln, k)) = Len(WrittenTo(ln, k - 1)) + 1 /\ Len(WrittenTo(ln, k - 1)) \in Nat
    BY <2>1
  <2> QED BY <2>2 DEF i
<1>8. s[i + 1] = Space /\ i < Len(s)
  <2>1. StandsAt(s, i, <<Space>>)
    BY WrittenGrows, GapIs
  <2>2. Len(<<Space>>) = 1 /\ <<Space>>[1] = Space /\ 1 \in 1 .. 1 /\ Len(s) \in Nat
    OBVIOUS
  <2> HIDE DEF i
  <2> QED BY <1>7, <2>1, <2>2 DEF StandsAt
<1>9. Space \in Blanks
  BY MarksApart
<1> DEFINE args == WordsTo(ln, k - 1)
           cur == IF IsOpen(ln, k - 1) THEN WordTo(ln, WordOf(ln, k - 1), k - 1) ELSE <<>>
<1>10. Reads(s, i, args, cur, IsOpen(ln, k - 1), "plain")
  BY DEF LineRead
<1>11. Reads(s, i + 1, [n \in 1 .. N |-> w(n)], <<>>, FALSE, "plain")
  <2>1. CASE IsOpen(ln, k - 1)
    <3>1. args = [n \in 1 .. N - 1 |-> w(n)]
      BY <1>3, <1>4, <2>1 DEF WordsTo
    <3>2. cur = w(N)
      BY <1>3, <1>4, <2>1
    <3>3. N > 0
      BY <1>3, <2>1 DEF LineRead
    <3> HIDE DEF args, cur, i, w
    <3>4. Append(args, cur) = [n \in 1 .. N |-> w(n)]
      BY <1>3, <1>4, <3>1, <3>2, <3>3
    <3>5. Reads(s, i + 1, Append(args, cur), <<>>, FALSE, "plain")
      BY <1>7, <1>8, <1>9, <1>10, <2>1, ReadsMark
    <3> QED BY <3>4, <3>5
  <2>2. CASE ~IsOpen(ln, k - 1)
    <3>1. args = [n \in 1 .. N |-> w(n)]
      BY <1>3, <1>4, <2>2 DEF WordsTo
    <3>2. cur = <<>>
      BY <2>2
    <3> HIDE DEF args, cur, i, w
    <3>3. Reads(s, i, args, cur, FALSE, "plain")
      BY <1>10, <2>2 DEF Reads
    <3>4. Reads(s, i + 1, args, cur, FALSE, "plain")
      BY <1>7, <1>8, <1>9, <3>3, ReadsMark
    <3> QED BY <3>1, <3>2, <3>4
  <2> QED BY <2>1, <2>2
<1>12. \A n \in Nat : n > N => w(n) = <<>>
  BY <1>3, <1>4 DEF LineRead
<1>13. N = 0 <=> \A j \in 1 .. k : ln[j] = Gap
  <2>1. N = 0 <=> \A j \in 1 .. k - 1 : ln[j] = Gap
    BY <1>3 DEF LineRead
  <2>2. 1 .. k = (1 .. k - 1) \cup {k}
    OBVIOUS
  <2> HIDE DEF N
  <2> QED BY <2>1, <2>2
<1>14. Reads(s, Len(WrittenTo(ln, k)), WordsTo(ln, k),
             IF IsOpen(ln, k) THEN WordTo(ln, WordOf(ln, k), k) ELSE <<>>,
             IsOpen(ln, k), "plain")
  <2> HIDE DEF N, w, i
  <2> QED BY <1>5, <1>6, <1>7, <1>11 DEF Reads
<1> QED BY <1>5, <1>12, <1>13, <1>14 DEF LineRead

(* A piece goes on with the open word, or starts one.                      *)
LEMMA WordReads ==
  ASSUME NEW R, Marks \subseteq R, NEW ln \in Seq(LinePieces(R)), NEW s \in Seq(R),
         StandsAt(s, 0, WrittenLine(ln)),
         NEW k \in 1 .. Len(ln), ln[k] # Gap, LineRead(s, ln, k - 1)
  PROVE  LineRead(s, ln, k)
<1> DEFINE N == WordOf(ln, k)
           M == IF IsOpen(ln, k - 1) THEN WordOf(ln, k - 1) - 1 ELSE WordOf(ln, k - 1)
           w(n) == WordTo(ln, n, k)
           v(n) == WordTo(ln, n, k - 1)
           i == Len(WrittenTo(ln, k - 1))
           piece == ln[k]
<1>1. k - 1 \in 0 .. Len(ln) /\ k \in 0 .. Len(ln) /\ Len(ln) \in Nat /\ k \in DOMAIN ln
  OBVIOUS
<1>2. k \in WordStarts(ln) <=> ~IsOpen(ln, k - 1)
  <2>1. k = 1 <=> ~(k - 1 > 0)
    OBVIOUS
  <2> QED BY <1>1, <2>1 DEF WordStarts, IsOpen
<1>3. N = M + 1 /\ M \in Nat /\ WordOf(ln, k - 1) \in Nat
  <2>1. WordOf(ln, k - 1) \in Nat
    BY <1>1, WordsCounted
  <2>2. N = IF IsOpen(ln, k - 1) THEN WordOf(ln, k - 1) ELSE WordOf(ln, k - 1) + 1
    BY <1>2, WordsCounted
  <2>3. IsOpen(ln, k - 1) => WordOf(ln, k - 1) > 0
    BY DEF LineRead
  <2> HIDE DEF N
  <2> QED BY <2>1, <2>2, <2>3
<1>4. ASSUME NEW n
      PROVE  /\ w(n) = v(n) \o Part(ln, n, k) /\ v(n) \in Seq(R) /\ w(n) \in Seq(R)
             /\ n # N => w(n) = v(n)
             /\ n = N => w(n) = v(n) \o piece.runes
  <2>1. w(n) = v(n) \o Part(ln, n, k) /\ v(n) \in Seq(R) /\ w(n) \in Seq(R)
    BY <1>1, WordGrows
  <2>2. Part(ln, n, k) = IF n = N THEN piece.runes ELSE <<>>
    BY DEF Part
  <2> HIDE DEF N, w, v
  <2> QED BY <2>1, <2>2, ConcatEmptySeq
<1>5. IsOpen(ln, k)
  BY DEF IsOpen
<1>6. WordsTo(ln, k) = [n \in 1 .. M |-> w(n)]
  <2>1. N - 1 = M
    BY <1>3
  <2> QED BY <1>5, <2>1 DEF WordsTo
<1>7. [n \in 1 .. M |-> w(n)] = [n \in 1 .. M |-> v(n)]
  <2>1. \A n \in 1 .. M : n # N
    BY <1>3
  <2> HIDE DEF M, N, w, v
  <2> QED BY <1>4, <2>1
<1> DEFINE cur == IF IsOpen(ln, k - 1) THEN WordTo(ln, WordOf(ln, k - 1), k - 1) ELSE <<>>
<1>8. Reads(s, i, [n \in 1 .. M |-> v(n)], cur, IsOpen(ln, k - 1), "plain")
  <2>1. WordsTo(ln, k - 1) = [n \in 1 .. M |-> v(n)]
    BY DEF WordsTo
  <2> QED BY <2>1 DEF LineRead
<1>9. cur = v(N)
  <2>1. CASE IsOpen(ln, k - 1)
    <3>1. N = WordOf(ln, k - 1)
      BY <1>3, <2>1
    <3> QED BY <2>1, <3>1
  <2>2. CASE ~IsOpen(ln, k - 1)
    <3>1. N > WordOf(ln, k - 1) /\ N \in Nat
      BY <1>3, <2>2
    <3>2. v(N) = <<>>
      BY <3>1 DEF LineRead
    <3> QED BY <2>2, <3>2
  <2> QED BY <2>1, <2>2
<1>10. piece.style \in Styles /\ piece.runes \in Seq(R) /\ Writable(piece)
  <2>1. piece \in LinePieces(R)
    OBVIOUS
  <2> QED BY <2>1, PieceIs
<1>11. StandsAt(s, i, Written(piece))
  BY WrittenGrows
<1>12. Len(WrittenTo(ln, k)) = i + Len(Written(piece))
  <2>1. WrittenTo(ln, k) = WrittenTo(ln, k - 1) \o Written(piece)
    BY WrittenGrows
  <2>2. WrittenTo(ln, k - 1) \in Seq(R)
    BY <1>1, WrittenGrows
  <2>3. Written(piece) \in Seq(R)
    BY WrittenType
  <2> QED BY <2>1, <2>2, <2>3, ConcatProperties
<1>13. cur \in Seq(R)
  BY <1>4, <1>9
<1>14. Reads(s, i + Len(Written(piece)), [n \in 1 .. M |-> v(n)], cur \o piece.runes,
             TRUE, "plain")
  <2> DEFINE words == [n \in 1 .. M |-> v(n)]
  <2> HIDE DEF words, cur, i, piece
  <2> QED BY <1>8, <1>10, <1>11, <1>13, PieceReads DEF words
<1>15. cur \o piece.runes = w(N)
  BY <1>4, <1>9
<1>16. Reads(s, Len(WrittenTo(ln, k)), WordsTo(ln, k), w(N), TRUE, "plain")
  <2> HIDE DEF M, N, w, v, cur, i
  <2> QED BY <1>6, <1>7, <1>12, <1>14, <1>15
<1>17. ASSUME NEW n \in Nat, n > N PROVE w(n) = <<>>
  <2>1. n # N /\ n > WordOf(ln, k - 1)
    BY <1>3, <1>17
  <2>2. v(n) = <<>>
    BY <2>1 DEF LineRead
  <2> QED BY <1>4, <2>1, <2>2
<1>18. N > 0 /\ ~ \A j \in 1 .. k : ln[j] = Gap
  <2>1. k \in 1 .. k
    OBVIOUS
  <2>2. N > 0
    <3> HIDE DEF N, M
    <3> QED BY <1>3
  <2> QED BY <2>1, <2>2
<1> QED BY <1>5, <1>16, <1>17, <1>18 DEF LineRead, Reads

LEMMA LineReads ==
  ASSUME NEW R, Marks \subseteq R, NEW ln \in Seq(LinePieces(R)), NEW s \in Seq(R),
         StandsAt(s, 0, WrittenLine(ln))
  PROVE  LineRead(s, ln, Len(ln))
<1> DEFINE L == Len(ln)
           T == {k \in 0 .. L : LineRead(s, ln, k)}
<1>1. L \in Nat
  OBVIOUS
<1>2. LineRead(s, ln, 0)
  <2>1. ~IsOpen(ln, 0) /\ WordOf(ln, 0) = 0 /\ WrittenTo(ln, 0) = <<>>
    BY WordsCounted, WrittenGrows DEF IsOpen
  <2>2. \A n : WordTo(ln, n, 0) = <<>>
    BY WordGrows
  <2>3. WordsTo(ln, 0) = <<>>
    BY <2>1 DEF WordsTo
  <2>4. Len(<<>>) = 0 /\ 0 \in 0 .. Len(s) /\ 1 .. 0 = {}
    OBVIOUS
  <2>5. Scanned(s)[0] = ScanStart
    BY ScanIsLoop
  <2>6. Reads(s, 0, <<>>, <<>>, FALSE, "plain")
    BY <2>4, <2>5 DEF Reads, ScanStart
  <2>7. /\ \A n \in Nat : n > WordOf(ln, 0) => WordTo(ln, n, 0) = <<>>
        /\ WordOf(ln, 0) = 0 <=> \A i \in 1 .. 0 : ln[i] = Gap
    BY <2>1, <2>2, <2>4
  <2>8. Reads(s, Len(WrittenTo(ln, 0)), WordsTo(ln, 0),
              IF IsOpen(ln, 0) THEN WordTo(ln, WordOf(ln, 0), 0) ELSE <<>>,
              IsOpen(ln, 0), "plain")
    BY <2>1, <2>3, <2>4, <2>6 DEF Reads
  <2> QED BY <2>1, <2>7, <2>8 DEF LineRead
<1> HIDE DEF L
<1>3. 0 \in T
  BY <1>1, <1>2
<1>4. ASSUME NEW k \in 1 .. L, k - 1 \in T PROVE k \in T
  <2>1. LineRead(s, ln, k)
    BY <1>4, GapReads, WordReads DEF L
  <2> QED BY <1>1, <2>1
<1>5. 0 .. L \subseteq T
  <2> HIDE DEF T
  <2> QED BY <1>1, <1>3, <1>4, IntervalInduction
<1> QED BY <1>1, <1>5 DEF L

(* What ShellSplit makes of a scan that has come to its end.               *)
(* The words of s, by the mode its scan ends in and the words it has.      *)
SplitsInto(s, mode, all) ==
  ShellSplit(s) = IF mode # "plain" \/ all = <<>> THEN Refused
                  ELSE [ok |-> TRUE, args |-> all]

LEMMA SplitIs ==
  ASSUME NEW R, NEW s \in Seq(R), NEW args, NEW cur, NEW started, NEW mode,
         Reads(s, Len(s), args, cur, started, mode)
  PROVE  SplitsInto(s, mode, IF started THEN Append(args, cur) ELSE args)
<1> DEFINE st == Scan(s)
           all == IF started THEN Append(args, cur) ELSE args
<1>1. st = Scanned(s)[Len(s)]
  BY DEF Scan
<1>2. st \in ScanStates(R)
  <2>1. Len(s) \in 0 .. Len(s)
    OBVIOUS
  <2> QED BY <1>1, <2>1, ScanIsLoop
<1>3. st.args = args /\ st.cur = cur /\ (st.started <=> started) /\ st.mode = mode
  BY <1>1 DEF Reads
<1> HIDE DEF st
<1>4. EndWord(st).args = all
  <2>1. CASE st.started
    <3>1. EndWord(st) = [st EXCEPT !.args = Append(@, st.cur), !.cur = <<>>,
                                   !.started = FALSE]
      BY <2>1 DEF EndWord
    <3> QED BY <1>2, <1>3, <2>1, <3>1 DEF ScanStates
  <2>2. CASE ~st.started
    BY <1>3, <2>2 DEF EndWord
  <2> QED BY <2>1, <2>2
<1> HIDE DEF all
<1>5. ShellSplit(s) = IF mode # "plain" \/ all = <<>> THEN Refused
                      ELSE [ok |-> TRUE, args |-> all]
  BY <1>3, <1>4 DEF ShellSplit, st
<1> QED BY <1>5 DEF all, SplitsInto

LEMMA OpenQuoteRefused ==
  ASSUME NEW R, NEW s \in Seq(R), NEW args, NEW cur, NEW started, NEW mode,
         Reads(s, Len(s), args, cur, started, mode), mode # "plain"
  PROVE  ShellSplit(s) = Refused
<1> DEFINE all == IF started THEN Append(args, cur) ELSE args
<1>1. SplitsInto(s, mode, all)
  BY SplitIs
<1> HIDE DEF all
<1> QED BY <1>1 DEF SplitsInto

(* The words that were read and the open one are those of the line.        *)
LEMMA WordsRead ==
  ASSUME NEW R, NEW ln \in Seq(LinePieces(R)), NEW s, LineRead(s, ln, Len(ln))
  PROVE  \E args, cur :
           /\ Reads(s, Len(WrittenTo(ln, Len(ln))), args, cur, IsOpen(ln, Len(ln)), "plain")
           /\ Words(ln) = IF IsOpen(ln, Len(ln)) THEN Append(args, cur) ELSE args
           /\ ~IsOpen(ln, Len(ln)) => cur = <<>>
           /\ Words(ln) \in Seq(Seq(R))
           /\ Words(ln) = <<>> <=> WordOf(ln, Len(ln)) = 0
<1> DEFINE L == Len(ln)
           N == WordOf(ln, L)
           args == WordsTo(ln, L)
           cur == IF IsOpen(ln, L) THEN WordTo(ln, N, L) ELSE <<>>
           w(n) == WordTo(ln, n, L)
<1>1. L \in Nat /\ N \in Nat /\ L \in 0 .. L
  <2>1. L \in Nat /\ L \in 0 .. L
    OBVIOUS
  <2> QED BY <2>1, WordsCounted
<1>2. Words(ln) = [n \in 1 .. N |-> w(n)]
  BY WordGrows DEF Words
<1>3. \A n : w(n) \in Seq(R)
  BY <1>1, WordGrows
<1>4. Words(ln) = IF IsOpen(ln, L) THEN Append(args, cur) ELSE args
  <2>1. CASE IsOpen(ln, L)
    <3>1. args = [n \in 1 .. N - 1 |-> w(n)] /\ cur = w(N)
      BY <2>1 DEF WordsTo
    <3>2. N > 0
      BY <2>1 DEF LineRead
    <3> HIDE DEF args, cur, w, N
    <3>3. Append(args, cur) = [n \in 1 .. N |-> w(n)]
      BY <1>1, <1>3, <3>1, <3>2
    <3> QED BY <1>2, <2>1, <3>3
  <2>2. CASE ~IsOpen(ln, L)
    <3>1. args = [n \in 1 .. N |-> w(n)]
      BY <2>2 DEF WordsTo
    <3> QED BY <1>2, <2>2, <3>1
  <2> QED BY <2>1, <2>2
<1>5. Reads(s, Len(WrittenTo(ln, L)), args, cur, IsOpen(ln, L), "plain")
  BY DEF LineRead
<1>6. ~IsOpen(ln, L) => cur = <<>>
  OBVIOUS
<1>7. Words(ln) \in Seq(Seq(R)) /\ (Words(ln) = <<>> <=> N = 0)
  <2> HIDE DEF N, w
  <2>1. Words(ln) \in Seq(Seq(R)) /\ Len(Words(ln)) = N
    BY <1>1, <1>2, <1>3
  <2> QED BY <1>1, <2>1
<1> HIDE DEF args, cur, L
<1> QED BY <1>4, <1>5, <1>6, <1>7 DEF L

(* A line of blanks is no word.                                            *)
LEMMA BlanksRead ==
  ASSUME NEW R, NEW s \in Seq(R), \A i \in 1 .. Len(s) : s[i] \in Blanks
  PROVE  Reads(s, Len(s), <<>>, <<>>, FALSE, "plain")
<1> DEFINE L == Len(s)
           T == {i \in 0 .. L : Reads(s, i, <<>>, <<>>, FALSE, "plain")}
<1>1. L \in Nat /\ 0 \in 0 .. L
  OBVIOUS
<1>2. 0 \in T
  BY <1>1, ScanIsLoop DEF Reads, ScanStart
<1>3. ASSUME NEW i \in 1 .. L, i - 1 \in T PROVE i \in T
  <2> DEFINE j == i - 1
  <2>1. j \in Nat /\ j < Len(s) /\ j + 1 = i /\ i \in 0 .. L
    BY <1>1
  <2>2. Reads(s, j, <<>>, <<>>, FALSE, "plain") /\ s[j + 1] \in Blanks
    BY <1>3, <2>1
  <2> HIDE DEF j
  <2>3. Reads(s, j + 1, <<>>, <<>>, FALSE, "plain")
    BY <2>1, <2>2, ReadsMark
  <2> QED BY <2>1, <2>3
<1>4. 0 .. L \subseteq T
  <2> HIDE DEF T
  <2> QED BY <1>1, <1>2, <1>3, IntervalInduction
<1>5. L \in T
  <2>1. L \in 0 .. L
    BY <1>1
  <2> HIDE DEF T, L
  <2> QED BY <1>4, <2>1
<1> QED BY <1>5

(* A line without a word is blank, and the other way round.                *)
LEMMA BlankIffNoWord ==
  ASSUME NEW R, Marks \subseteq R, NEW ln \in Seq(LinePieces(R))
  PROVE  (\A i \in DOMAIN WrittenLine(ln) : WrittenLine(ln)[i] \in Blanks) <=> Words(ln) = <<>>
<1> DEFINE L == Len(ln)
           txt == WrittenLine(ln)
<1>1. /\ L \in Nat /\ L \in 0 .. L /\ txt = WrittenTo(ln, L) /\ txt \in Seq(R)
      /\ DOMAIN txt = 1 .. Len(txt)
  <2>1. L \in Nat /\ L \in 0 .. L
    OBVIOUS
  <2>2. txt = WrittenTo(ln, L) /\ txt \in Seq(R)
    BY <2>1, WrittenGrows
  <2> QED BY <2>1, <2>2
<1>2. StandsAt(txt, 0, txt)
  <2> HIDE DEF txt
  <2> QED BY <1>1 DEF StandsAt
<1>3. LineRead(txt, ln, L)
  BY <1>1, <1>2, LineReads
<1>4. PICK args, cur :
        /\ Reads(txt, Len(txt), args, cur, IsOpen(ln, L), "plain")
        /\ Words(ln) = IF IsOpen(ln, L) THEN Append(args, cur) ELSE args
        /\ Words(ln) = <<>> <=> WordOf(ln, L) = 0
  BY <1>1, <1>3, WordsRead
<1>5. ASSUME \A i \in DOMAIN txt : txt[i] \in Blanks PROVE Words(ln) = <<>>
  <2>1. Reads(txt, Len(txt), <<>>, <<>>, FALSE, "plain")
    BY <1>1, <1>5, BlanksRead
  <2>2. ~IsOpen(ln, L) /\ args = <<>>
    BY <1>4, <2>1 DEF Reads
  <2> QED BY <1>4, <2>2
<1>6. ASSUME Words(ln) = <<>>, NEW i \in DOMAIN txt PROVE txt[i] \in Blanks
  <2>1. \A k \in 1 .. L : ln[k] = Gap
    BY <1>3, <1>4, <1>6 DEF LineRead
  <2> DEFINE blank(s) == \A j \in 1 .. Len(s) : s[j] \in Blanks
             T == {k \in 0 .. L : blank(WrittenTo(ln, k))}
  <2>2. 0 \in T
    BY <1>1, WrittenGrows
  <2>3. ASSUME NEW k \in 1 .. L, k - 1 \in T PROVE k \in T
    <3>1. /\ WrittenTo(ln, k) = WrittenTo(ln, k - 1) \o <<Space>>
          /\ WrittenTo(ln, k - 1) \in Seq(R) /\ k \in 0 .. L
      <4>1. WrittenTo(ln, k) = WrittenTo(ln, k - 1) \o Written(ln[k])
        BY WrittenGrows
      <4>2. k - 1 \in 0 .. L /\ k \in 0 .. L
        BY <1>1
      <4> QED BY <2>1, <4>1, <4>2, WrittenGrows, GapIs
    <3>2. blank(WrittenTo(ln, k - 1))
      BY <2>3
    <3>3. Space \in Blanks
      BY MarksApart
    <3> DEFINE s == WrittenTo(ln, k - 1)
    <3> HIDE DEF s
    <3>4. blank(s \o <<Space>>)
      BY <3>1, <3>2, <3>3 DEF s
    <3> QED BY <3>1, <3>4 DEF s
  <2>4. 0 .. L \subseteq T
    <3> HIDE DEF T
    <3> QED BY <1>1, <2>2, <2>3, IntervalInduction
  <2>5. blank(txt)
    BY <1>1, <2>4
  <2> QED BY <1>1, <2>5
<1> QED BY <1>5, <1>6

(* Whatever runes its pieces are made of and however many there are, a     *)
(* line that was quoted is split into the words that were meant; one more  *)
(* quote is refused, a last backslash stands for itself, and a trailing    *)
(* command counts only without a word (shellSplit, resolveServerArgv).     *)
THEOREM EveryLineReadsBack ==
  ASSUME NEW R, Marks \subseteq R, NEW ln \in Seq(LinePieces(R))
  PROVE  ReadsBack(ln)
<1> DEFINE L == Len(ln)
           txt == WrittenLine(ln)
           words == Words(ln)
           rest == <<"server">>
           open == IsOpen(ln, L)
           n == Len(txt)
<1>1. /\ L \in Nat /\ L \in 0 .. L /\ txt = WrittenTo(ln, L) /\ txt \in Seq(R)
      /\ n \in Nat
  <2>1. L \in Nat /\ L \in 0 .. L
    OBVIOUS
  <2>2. txt = WrittenTo(ln, L) /\ txt \in Seq(R)
    BY <2>1, WrittenGrows
  <2> QED BY <2>1, <2>2
<1>2. ASSUME NEW s \in Seq(R), StandsAt(s, 0, txt)
      PROVE  \E args, cur :
               /\ Reads(s, n, args, cur, open, "plain")
               /\ words = IF open THEN Append(args, cur) ELSE args
               /\ ~open => cur = <<>>
               /\ words \in Seq(Seq(R))
  <2>1. LineRead(s, ln, L)
    BY <1>2, LineReads
  <2> QED BY <1>1, <2>1, WordsRead
<1>3. (\E i \in DOMAIN txt : txt[i] \notin Blanks) <=> words # <<>>
  BY BlankIffNoWord
<1> HIDE DEF txt, words, open, L
<1>4. ShellSplit(txt) = IF words = <<>> THEN Refused ELSE [ok |-> TRUE, args |-> words]
  <2>1. StandsAt(txt, 0, txt)
    BY <1>1 DEF StandsAt
  <2>2. PICK args, cur : /\ Reads(txt, n, args, cur, open, "plain")
                         /\ words = IF open THEN Append(args, cur) ELSE args
    BY <1>1, <1>2, <2>1
  <2>3. SplitsInto(txt, "plain", IF open THEN Append(args, cur) ELSE args)
    BY <1>1, <2>2, SplitIs
  <2> QED BY <2>2, <2>3 DEF SplitsInto
<1>5. ResolveServerArgv(txt, <<>>) =
        IF words = <<>> THEN Refused ELSE [ok |-> TRUE, args |-> words]
  BY <1>3, <1>4 DEF ResolveServerArgv
<1>6. ResolveServerArgv(txt, rest) =
        IF words = <<>> THEN [ok |-> TRUE, args |-> rest] ELSE Refused
  <2>1. rest # <<>>
    OBVIOUS
  <2> HIDE DEF rest
  <2> QED BY <1>3, <1>4, <2>1 DEF ResolveServerArgv
<1>7. ASSUME NEW q \in {SingleQuote, DoubleQuote} PROVE ~ShellSplit(Append(txt, q)).ok
  <2> DEFINE s == Append(txt, q)
  <2>1. q \in R
    BY DEF Marks
  <2>2. /\ s \in Seq(R) /\ Len(s) = n + 1 /\ s[n + 1] = q /\ n < Len(s)
        /\ \A i \in 1 .. n : s[i] = txt[i]
    BY <1>1, <2>1
  <2> HIDE DEF s
  <2>3. StandsAt(s, 0, txt)
    BY <1>1, <2>2 DEF StandsAt
  <2>4. PICK args, cur : Reads(s, n, args, cur, open, "plain")
    BY <1>2, <2>2, <2>3
  <2>5. Reads(s, n + 1, args, cur, TRUE, "single") \/ Reads(s, n + 1, args, cur, TRUE, "double")
    BY <1>1, <2>2, <2>4, ReadsMark
  <2>6. ShellSplit(s) = Refused
    <3>1. CASE Reads(s, n + 1, args, cur, TRUE, "single")
      <4>1. Reads(s, Len(s), args, cur, TRUE, "single")
        BY <2>2, <3>1
      <4> QED BY <2>2, <4>1, OpenQuoteRefused
    <3>2. CASE Reads(s, n + 1, args, cur, TRUE, "double")
      <4>1. Reads(s, Len(s), args, cur, TRUE, "double")
        BY <2>2, <3>2
      <4> QED BY <2>2, <4>1, OpenQuoteRefused
    <3> QED BY <2>5, <3>1, <3>2
  <2> QED BY <2>6 DEF Refused, s
<1>8. ShellSplit(txt \o <<Space, Backslash>>).args = Append(words, <<Backslash>>)
  <2> DEFINE s == txt \o <<Space, Backslash>>
  <2>1. Space \in R /\ Backslash \in R
    BY DEF Marks
  <2>2. /\ s \in Seq(R) /\ Len(s) = n + 2 /\ s[n + 1] = Space /\ s[n + 2] = Backslash
        /\ \A i \in 1 .. n : s[i] = txt[i]
    BY <1>1, <2>1
  <2> HIDE DEF s
  <2>3. StandsAt(s, 0, txt)
    BY <1>1, <2>2 DEF StandsAt
  <2>4. PICK args, cur : /\ Reads(s, n, args, cur, open, "plain")
                         /\ words = IF open THEN Append(args, cur) ELSE args
                         /\ ~open => cur = <<>>
                         /\ words \in Seq(Seq(R))
    BY <1>2, <2>2, <2>3
  <2>5. Reads(s, n + 1, words, <<>>, FALSE, "plain")
    <3>1. Space \in Blanks /\ n < Len(s)
      BY <1>1, <2>2, MarksApart
    <3>2. CASE open
      <4>1. Reads(s, n, args, cur, TRUE, "plain")
        BY <2>4, <3>2 DEF Reads
      <4> QED BY <1>1, <2>2, <2>4, <3>1, <3>2, <4>1, ReadsMark
    <3>3. CASE ~open
      <4>1. Reads(s, n, words, <<>>, FALSE, "plain")
        BY <2>4, <3>3 DEF Reads
      <4> QED BY <1>1, <2>2, <3>1, <4>1, ReadsMark
    <3> QED BY <3>2, <3>3
  <2>6. Reads(s, n + 2, words, <<Backslash>>, TRUE, "plain")
    <3> DEFINE i == n + 1
    <3>1. /\ i \in Nat /\ i < Len(s) /\ i + 1 = n + 2 /\ i + 1 = Len(s)
          /\ s[i + 1] = Backslash
      BY <1>1, <2>2
    <3>2. Backslash \notin Blanks \cup {SingleQuote, DoubleQuote}
      BY MarksApart
    <3> HIDE DEF i
    <3>3. Reads(s, i, words, <<>>, FALSE, "plain")
      BY <2>5 DEF i
    <3>4. Reads(s, i + 1, words, Append(<<>>, Backslash), TRUE, "plain")
      BY <2>2, <3>1, <3>2, <3>3, ReadsOne
    <3>5. Append(<<>>, Backslash) = <<Backslash>>
      OBVIOUS
    <3> QED BY <3>1, <3>4, <3>5
  <2>7. Append(words, <<Backslash>>) # <<>>
    BY <2>1, <2>4
  <2>8. ShellSplit(s) = [ok |-> TRUE, args |-> Append(words, <<Backslash>>)]
    <3>1. Reads(s, Len(s), words, <<Backslash>>, TRUE, "plain")
      BY <2>2, <2>6
    <3> DEFINE last == <<Backslash>>
               all == IF TRUE THEN Append(words, last) ELSE words
    <3>2. all # <<>> /\ all = Append(words, <<Backslash>>)
      BY <2>7
    <3>3. SplitsInto(s, "plain", all)
      <4>1. Reads(s, Len(s), words, last, TRUE, "plain")
        BY <3>1
      <4> HIDE DEF last
      <4> QED BY <2>2, <4>1, SplitIs
    <3> HIDE DEF all
    <3> QED BY <3>2, <3>3 DEF SplitsInto
  <2> DEFINE w == Append(words, <<Backslash>>)
             res == ShellSplit(s)
  <2>9. res = [ok |-> TRUE, args |-> w]
    BY <2>8
  <2> HIDE DEF w, res
  <2>10. res.args = w
    BY <2>9
  <2> QED BY <2>10 DEF w, res, s
<1> QED BY <1>5, <1>6, <1>7, <1>8 DEF ReadsBack, txt, words

-----------------------------------------------------------------------------
LEMMA PiecesAre ==
  /\ Marks \subseteq LineRunes
  /\ Pieces \cup {Gap} \subseteq LinePieces(LineRunes)
<1>1. Marks \subseteq LineRunes
  BY Zenon DEF Marks, LineRunes, Space, Backslash, SingleQuote, DoubleQuote
<1>2. ASSUME NEW p \in Pieces PROVE p \in LinePieces(LineRunes)
  <2>1. /\ p \in [style : {"bare", "single", "double", "escaped"},
                  runes : UNION {[1 .. n -> LineRunes] : n \in 0 .. 2}]
        /\ Writable(p)
    BY DEF Pieces
  <2>2. p.runes \in Seq(LineRunes)
    <3>1. PICK n \in 0 .. 2 : p.runes \in [1 .. n -> LineRunes]
      BY <2>1
    <3> QED BY <3>1
  <2>3. p \in [style : Styles, runes : Seq(LineRunes)]
    BY <2>1, <2>2 DEF Styles
  <2> QED BY <2>1, <2>3 DEF LinePieces
<1> QED BY <1>1, <1>2 DEF LinePieces

(* However long the command line of MCInputs grows, what was quoted is     *)
(* what arrives.                                                           *)
THEOREM SplitInvertsQuoting == Spec => []SplitReadsBack
<1> DEFINE IsLine == line \in Seq(LinePieces(LineRunes))
<1>1. Init => IsLine
  BY DEF Init
<1>2. IsLine /\ [Next]_vars => IsLine'
  <2> SUFFICES ASSUME IsLine, [Next]_vars PROVE IsLine'
    OBVIOUS
  <2>1. CASE AddPiece
    <3>1. PICK p \in Pieces \cup {Gap} : line' = Append(line, p)
      BY <2>1 DEF AddPiece
    <3>2. p \in LinePieces(LineRunes)
      BY PiecesAre
    <3> QED BY <3>1, <3>2
  <2>2. CASE UNCHANGED line
    BY <2>2
  <2> QED
    BY <2>1, <2>2 DEF Next, AddRune, AddTool, AddToFile, AddFlag, vars
<1>3. IsLine => SplitReadsBack
  BY PiecesAre, EveryLineReadsBack DEF SplitReadsBack
<1> QED BY <1>1, <1>2, <1>3, PTL DEF Spec

-----------------------------------------------------------------------------
(* The compressed description.                                             *)

(* The runes that mean something in a JSON string are different ones.      *)
ShortRunes == {Newline, Return, Tab}
ShortLetter(c) == CASE c = Newline -> "n" [] c = Return -> "r" [] OTHER -> "t"
RawRunes == {Quote, Slash, "ctl", "bad"} \cup ShortRunes
JSONRunes == RawRunes \cup {"fffd", "n", "r", "t", "u", "0", "1"}

LEMMA JSONRunesApart ==
  /\ Quote # Slash /\ Newline \notin {Quote, Slash} /\ Return \notin {Quote, Slash, Newline}
  /\ Tab \notin {Quote, Slash, Newline, Return}
  /\ "ctl" \notin {Quote, Slash, Newline, Return, Tab}
  /\ "bad" \notin {Quote, Slash, Newline, Return, Tab, "ctl"}
  /\ "fffd" \notin {Quote, Slash, Newline, Return, Tab, "ctl", "bad"}
  /\ "n" \notin {Quote, Slash}
  /\ "r" \notin {Quote, Slash, "n"}
  /\ "t" \notin {Quote, Slash, "n", "r"}
  /\ "u" \notin {Quote, Slash, "n", "r", "t"}
  BY Zenon DEF Quote, Slash, Newline, Return, Tab

LEMMA HexIs ==
  /\ Len(Hex) = 5 /\ Hex[1] = "u" /\ Hex[2] = "0" /\ Hex[3] = "0" /\ Hex[4] = "0"
  /\ Hex[5] = "1"
  BY DEF Hex

ReadStates(R) ==
  [read : Seq(R), mode : {"before", "text", "escape", "hex", "end", "broken"}, digits : Nat]

(* What each step of the reader makes of a state.                          *)
LEMMA ReaderSteps ==
  ASSUME NEW R, NEW st \in ReadStates(R), NEW c, NEW mode
  PROVE  /\ Turn(st, mode) = [read |-> st.read, mode |-> mode, digits |-> st.digits]
         /\ Got(st, c) = [read |-> Append(st.read, c), mode |-> "text", digits |-> st.digits]
         /\ Digit(st) = [read |-> st.read, mode |-> "hex", digits |-> st.digits + 1]
         /\ Control(st) = [read |-> Append(st.read, "ctl"), mode |-> "text", digits |-> 0]
<1>1. /\ st = [read |-> st.read, mode |-> st.mode, digits |-> st.digits]
      /\ st.read \in Seq(R) /\ st.digits \in Nat
  BY DEF ReadStates
<1>2. Turn(st, mode) = [read |-> st.read, mode |-> mode, digits |-> st.digits]
  <2>1. Turn(st, mode) = [st EXCEPT !.mode = mode]
    BY DEF Turn
  <2> QED BY <1>1, <2>1
<1>3. Got(st, c) = [read |-> Append(st.read, c), mode |-> "text", digits |-> st.digits]
  <2>1. Got(st, c) = [st EXCEPT !.read = Append(@, c), !.mode = "text"]
    BY DEF Got
  <2> QED BY <1>1, <2>1
<1>4. Digit(st) = [read |-> st.read, mode |-> "hex", digits |-> st.digits + 1]
  <2>1. Digit(st) = [st EXCEPT !.mode = "hex", !.digits = @ + 1]
    BY DEF Digit
  <2> QED BY <1>1, <2>1
<1>5. Control(st) = [read |-> Append(st.read, "ctl"), mode |-> "text", digits |-> 0]
  <2>1. Control(st) = [st EXCEPT !.read = Append(@, "ctl"), !.mode = "text", !.digits = 0]
    BY DEF Control
  <2> QED BY <1>1, <2>1
<1> QED BY <1>2, <1>3, <1>4, <1>5

LEMMA ReadRuneType ==
  ASSUME NEW R, JSONRunes \subseteq R, NEW st \in ReadStates(R), NEW c \in R
  PROVE  ReadRune(st, c) \in ReadStates(R)
<1>1. /\ st.read \in Seq(R) /\ st.digits \in Nat /\ st.digits + 1 \in Nat
      /\ \A x \in R : Append(st.read, x) \in Seq(R)
  BY DEF ReadStates
<1>2. "ctl" \in R /\ Newline \in R /\ Return \in R /\ Tab \in R
  BY DEF JSONRunes, RawRunes, ShortRunes
<1>3. ASSUME NEW m \in {"text", "escape", "hex", "end", "broken"}
      PROVE  Turn(st, m) \in ReadStates(R)
  <2>1. Turn(st, m) = [read |-> st.read, mode |-> m, digits |-> st.digits]
    BY ReaderSteps
  <2> QED BY <1>1, <2>1 DEF ReadStates
<1>4. ASSUME NEW x \in R PROVE Got(st, x) \in ReadStates(R)
  <2>1. Got(st, x) = [read |-> Append(st.read, x), mode |-> "text", digits |-> st.digits]
    BY ReaderSteps
  <2> QED BY <1>1, <2>1 DEF ReadStates
<1>5. Digit(st) \in ReadStates(R)
  <2>1. Digit(st) = [read |-> st.read, mode |-> "hex", digits |-> st.digits + 1]
    BY ReaderSteps
  <2> QED BY <1>1, <2>1 DEF ReadStates
<1>6. Control(st) \in ReadStates(R)
  <2>1. Control(st) = [read |-> Append(st.read, "ctl"), mode |-> "text", digits |-> 0]
    BY ReaderSteps
  <2> QED BY <1>1, <1>2, <2>1 DEF ReadStates
<1>7. ReadText(st, c) \in ReadStates(R)
  BY <1>3, <1>4 DEF ReadText
<1>8. ReadEscape(st, c) \in ReadStates(R)
  BY <1>2, <1>3, <1>4, <1>5 DEF ReadEscape
<1>9. ReadDigit(st, c) \in ReadStates(R)
  BY <1>3, <1>5, <1>6 DEF ReadDigit
<1> QED BY <1>3, <1>7, <1>8, <1>9 DEF ReadRune

LEMMA ReaderIsLoop ==
  ASSUME NEW R, JSONRunes \subseteq R, NEW t \in Seq(R)
  PROVE  /\ \A n \in 0 .. Len(t) : ReadTo(t)[n] \in ReadStates(R)
         /\ ReadTo(t)[0] = ReadStart
         /\ \A n \in 1 .. Len(t) : ReadTo(t)[n] = ReadRune(ReadTo(t)[n - 1], t[n])
<1> DEFINE L == Len(t)
           Q == ReadStates(R)
           step == [p \in Q \X (1 .. L) |-> ReadRune(p[1], t[p[2]])]
           solves(g) == g = [n \in 0 .. L |->
                               IF n = 0 THEN ReadStart ELSE ReadRune(g[n - 1], t[n])]
           after == ReadTo(t)
<1>1. L \in Nat
  OBVIOUS
<1>2. ReadStart \in Q
  BY DEF ReadStart, ReadStates
<1>3. \A st \in Q, n \in 1 .. L : ReadRune(st, t[n]) \in Q
  BY ReadRuneType
<1>4. after = CHOOSE g : solves(g)
  BY DEF ReadTo
<1> HIDE DEF L, Q
<1>5. \A st \in Q, n \in 1 .. L : step[<<st, n>>] = ReadRune(st, t[n])
  OBVIOUS
<1>6. \A st \in Q, n \in 1 .. L : step[<<st, n>>] \in Q
  BY <1>3, <1>5
<1> HIDE DEF step
<1>7. PICK g : LoopRun(g, L, Q, ReadStart, step)
  BY <1>1, <1>2, <1>6, LoopDefined
<1>8. ASSUME NEW n \in 0 .. L
      PROVE  g[n] = IF n = 0 THEN ReadStart ELSE ReadRune(g[n - 1], t[n])
  <2>1. CASE n = 0
    BY <2>1, <1>7 DEF LoopRun
  <2>2. CASE n # 0
    <3>1. n \in 1 .. L /\ n - 1 \in 0 .. L
      BY <1>1, <2>2
    <3> QED BY <1>5, <1>7, <2>2, <3>1 DEF LoopRun
  <2> QED BY <2>1, <2>2
<1>9. solves(g)
  BY <1>7, <1>8 DEF LoopRun
<1>10. solves(after)
  <2> HIDE DEF solves, after
  <2> QED BY <1>4, <1>9
<1> HIDE DEF after
<1> DEFINE T == {n \in 0 .. L : after[n] \in Q}
<1>11. after[0] = ReadStart /\ 0 \in T
  BY <1>1, <1>2, <1>10
<1>12. \A n \in 1 .. L : after[n] = ReadRune(after[n - 1], t[n])
  BY <1>1, <1>10
<1>13. \A n \in 1 .. L : n - 1 \in T => n \in T
  BY <1>3, <1>12
<1>14. \A n \in 0 .. L : after[n] \in Q
  <2>1. 0 .. L \subseteq T
    <3> HIDE DEF T
    <3> QED BY <1>1, <1>11, <1>13, IntervalInduction
  <2> QED BY <2>1
<1> QED BY <1>11, <1>12, <1>14 DEF L, Q, after

(* After i runes of t the reader has read so much.                         *)
HasRead(t, i, read, mode, digits) ==
  /\ i \in 0 .. Len(t)
  /\ ReadTo(t)[i] = [read |-> read, mode |-> mode, digits |-> digits]

LEMMA ReaderReads ==
  ASSUME NEW R, JSONRunes \subseteq R, NEW t \in Seq(R), NEW i \in Nat, i < Len(t),
         NEW read, NEW mode, NEW digits, HasRead(t, i, read, mode, digits), NEW c, c = t[i + 1]
  PROVE  /\ mode = "before" /\ c = Quote => HasRead(t, i + 1, read, "text", digits)
         /\ mode = "text" /\ c = Quote => HasRead(t, i + 1, read, "end", digits)
         /\ mode = "text" /\ c = Slash => HasRead(t, i + 1, read, "escape", digits)
         /\ mode = "text" /\ c \notin RawRunes
              => HasRead(t, i + 1, Append(read, c), "text", digits)
         /\ mode = "escape" /\ c \in {Quote, Slash}
              => HasRead(t, i + 1, Append(read, c), "text", digits)
         /\ mode = "escape" => \A x \in ShortRunes : c = ShortLetter(x)
              => HasRead(t, i + 1, Append(read, x), "text", digits)
         /\ mode = "escape" /\ c = "u" => HasRead(t, i + 1, read, "hex", digits + 1)
         /\ mode = "hex" /\ c = Hex[digits + 1] =>
              /\ digits + 1 < 5 => HasRead(t, i + 1, read, "hex", digits + 1)
              /\ digits + 1 = 5 => HasRead(t, i + 1, Append(read, "ctl"), "text", 0)
<1> DEFINE st == ReadTo(t)[i]
           new == ReadTo(t)[i + 1]
<1>1. /\ st \in ReadStates(R) /\ i + 1 \in 0 .. Len(t) /\ new = ReadRune(st, c)
  <2>1. i \in 0 .. Len(t) /\ i + 1 \in 1 .. Len(t) /\ i + 1 - 1 = i /\ i + 1 \in 0 .. Len(t)
    OBVIOUS
  <2>2. ReadTo(t)[i + 1] = ReadRune(ReadTo(t)[i + 1 - 1], t[i + 1])
    BY <2>1, ReaderIsLoop
  <2> QED BY <2>1, <2>2, ReaderIsLoop
<1>2. st = [read |-> read, mode |-> mode, digits |-> digits]
  BY DEF HasRead
<1> HIDE DEF st, new
<1>3. /\ st.read = read /\ st.mode = mode /\ st.digits = digits
      /\ digits \in Nat
  BY <1>1, <1>2 DEF ReadStates
<1>4. \A m : Turn(st, m) = [read |-> read, mode |-> m, digits |-> digits]
  BY <1>1, <1>3, ReaderSteps
<1>5. \A x : Got(st, x) = [read |-> Append(read, x), mode |-> "text", digits |-> digits]
  BY <1>1, <1>3, ReaderSteps
<1>6. /\ Digit(st) = [read |-> read, mode |-> "hex", digits |-> digits + 1]
      /\ Control(st) = [read |-> Append(read, "ctl"), mode |-> "text", digits |-> 0]
  BY <1>1, <1>3, ReaderSteps
<1>7. \A r, m, d : new = [read |-> r, mode |-> m, digits |-> d] =>
        HasRead(t, i + 1, r, m, d)
  BY <1>1 DEF HasRead, new
<1>8. ASSUME mode = "before", c = Quote PROVE HasRead(t, i + 1, read, "text", digits)
  <2>1. new = Turn(st, "text")
    BY <1>1, <1>3, <1>8 DEF ReadRune
  <2> QED BY <1>4, <1>7, <2>1
<1>9. mode = "text" => new = ReadText(st, c)
  BY <1>1, <1>3 DEF ReadRune
<1>10. mode = "escape" => new = ReadEscape(st, c)
  BY <1>1, <1>3 DEF ReadRune
<1>11. mode = "hex" => new = ReadDigit(st, c)
  BY <1>1, <1>3 DEF ReadRune
<1>12. ASSUME mode = "text", c = Quote PROVE HasRead(t, i + 1, read, "end", digits)
  <2>1. new = Turn(st, "end")
    BY <1>9, <1>12, JSONRunesApart DEF ReadText
  <2> QED BY <1>4, <1>7, <2>1
<1>13. ASSUME mode = "text", c = Slash PROVE HasRead(t, i + 1, read, "escape", digits)
  <2>1. new = Turn(st, "escape")
    BY <1>9, <1>13, JSONRunesApart DEF ReadText
  <2> QED BY <1>4, <1>7, <2>1
<1>14. ASSUME mode = "text", c \notin RawRunes
       PROVE  HasRead(t, i + 1, Append(read, c), "text", digits)
  <2>1. new = Got(st, c)
    BY <1>9, <1>14 DEF ReadText, RawRunes, ShortRunes
  <2> QED BY <1>5, <1>7, <2>1
<1>15. ASSUME mode = "escape", c \in {Quote, Slash}
       PROVE  HasRead(t, i + 1, Append(read, c), "text", digits)
  <2>1. new = Got(st, c)
    BY <1>10, <1>15, HexIs, JSONRunesApart DEF ReadEscape
  <2> QED BY <1>5, <1>7, <2>1
<1>16. ASSUME mode = "escape", NEW x \in ShortRunes, c = ShortLetter(x)
       PROVE  HasRead(t, i + 1, Append(read, x), "text", digits)
  <2>1. new = ReadEscape(st, c)
    BY <1>10, <1>16
  <2>2. new = Got(st, x)
    <3>1. CASE x = Newline
      BY <1>16, <2>1, <3>1, HexIs, JSONRunesApart DEF ReadEscape, ShortLetter
    <3>2. CASE x = Return
      BY <1>16, <2>1, <3>2, HexIs, JSONRunesApart DEF ReadEscape, ShortLetter
    <3>3. CASE x = Tab
      BY <1>16, <2>1, <3>3, HexIs, JSONRunesApart DEF ReadEscape, ShortLetter
    <3> QED BY <1>16, <3>1, <3>2, <3>3 DEF ShortRunes
  <2> QED BY <1>5, <1>7, <2>2
<1>17. ASSUME mode = "escape", c = "u" PROVE HasRead(t, i + 1, read, "hex", digits + 1)
  <2>1. new = Digit(st)
    BY <1>10, <1>17, HexIs, JSONRunesApart DEF ReadEscape
  <2> QED BY <1>6, <1>7, <2>1
<1>18. ASSUME mode = "hex", c = Hex[digits + 1]
       PROVE  /\ digits + 1 < 5 => HasRead(t, i + 1, read, "hex", digits + 1)
              /\ digits + 1 = 5 => HasRead(t, i + 1, Append(read, "ctl"), "text", 0)
  <2>1. new = ReadDigit(st, c) /\ c = Hex[st.digits + 1]
    BY <1>3, <1>11, <1>18
  <2>2. CASE digits + 1 < 5
    <3>1. new = Digit(st)
      BY <1>3, <2>1, <2>2, HexIs DEF ReadDigit
    <3> QED BY <1>6, <1>7, <2>2, <3>1
  <2>3. CASE digits + 1 = 5
    <3>1. new = Control(st)
      BY <1>3, <2>1, <2>3, HexIs DEF ReadDigit
    <3>2. HasRead(t, i + 1, Append(read, "ctl"), "text", 0)
      BY <1>6, <1>7, <3>1
    <3>3. ~(digits + 1 < 5)
      BY <2>3
    <3> QED BY <3>2, <3>3
  <2> QED BY <2>2, <2>3
<1> QED BY <1>8, <1>12, <1>13, <1>14, <1>15, <1>16, <1>17, <1>18

(* What the client should read of a rune.                                  *)
Meant(c) == IF c = "bad" THEN "fffd" ELSE c

LEMMA EscapedIs ==
  ASSUME NEW R, JSONRunes \subseteq R, NEW c \in R
  PROVE  /\ Escaped(c) \in Seq(R)
         /\ c \in {Quote, Slash} => Escaped(c) = <<Slash, c>>
         /\ c \in ShortRunes => Escaped(c) = <<Slash, ShortLetter(c)>>
         /\ c = "ctl" => Escaped(c) = <<Slash, "u", "0", "0", "0", "1">>
         /\ c \notin {Quote, Slash, "ctl"} \cup ShortRunes =>
              Escaped(c) = <<Meant(c)>> /\ Meant(c) \notin RawRunes /\ Meant(c) \in R
<1>0. /\ Slash \in R /\ "n" \in R /\ "r" \in R /\ "t" \in R
      /\ "u" \in R /\ "0" \in R /\ "1" \in R /\ "fffd" \in R
  BY DEF JSONRunes, RawRunes
<1>1. CASE c \in {Quote, Slash}
  <2>1. Escaped(c) = <<Slash, c>>
    BY <1>1, JSONRunesApart DEF Escaped
  <2>2. c \notin ShortRunes /\ c # "ctl"
    BY <1>1, JSONRunesApart DEF ShortRunes
  <2> QED BY <1>0, <1>1, <2>1, <2>2
<1>2. CASE c \in ShortRunes
  <2>1. Escaped(c) = <<Slash, ShortLetter(c)>>
    BY <1>2, JSONRunesApart DEF Escaped, ShortLetter, ShortRunes
  <2>2. c \notin {Quote, Slash, "ctl"}
    BY <1>2, JSONRunesApart DEF ShortRunes
  <2>3. ShortLetter(c) \in R
    BY <1>0 DEF ShortLetter
  <2> QED BY <1>0, <1>2, <2>1, <2>2, <2>3
<1>3. CASE c = "ctl"
  <2>1. Escaped(c) = <<Slash, "u", "0", "0", "0", "1">>
    BY <1>3, JSONRunesApart DEF Escaped
  <2>3. <<Slash, "u", "0", "0", "0", "1">> \in Seq(R)
    BY <1>0
  <2>4. c \notin {Quote, Slash} \cup ShortRunes
    BY <1>3, JSONRunesApart DEF ShortRunes
  <2> QED BY <1>3, <2>1, <2>3, <2>4
<1>4. CASE c \notin {Quote, Slash, "ctl"} \cup ShortRunes
  <2>1. Escaped(c) = <<Meant(c)>>
    BY <1>4 DEF Escaped, Meant, ShortRunes
  <2>2. Meant(c) \notin RawRunes /\ Meant(c) \in R
    BY <1>0, <1>4, JSONRunesApart DEF Meant, RawRunes, ShortRunes
  <2> QED BY <1>4, <2>1, <2>2
<1> QED BY <1>1, <1>2, <1>3, <1>4

(* An escaped rune is read as it was meant.                                *)
LEMMA EscapedReads ==
  ASSUME NEW R, JSONRunes \subseteq R, NEW t \in Seq(R), NEW i, NEW read, NEW c \in R,
         StandsAt(t, i, Escaped(c)), HasRead(t, i, read, "text", 0)
  PROVE  HasRead(t, i + Len(Escaped(c)), Append(read, Meant(c)), "text", 0)
<1> DEFINE w == Escaped(c)
<1>1. i \in Nat /\ i + Len(w) <= Len(t) /\ \A k \in 1 .. Len(w) : t[i + k] = w[k]
  BY DEF StandsAt
<1>2. Len(t) \in Nat
  OBVIOUS
<1>3. CASE c \in {Quote, Slash}
  <2>1. w = <<Slash, c>> /\ Meant(c) = c
    BY <1>3, EscapedIs, JSONRunesApart DEF Meant
  <2>2. Len(w) = 2 /\ w[1] = Slash /\ w[2] = c /\ 1 \in 1 .. Len(w) /\ 2 \in 1 .. Len(w)
    BY <2>1
  <2> HIDE DEF w
  <2> DEFINE j == i + 1
  <2>3. /\ t[i + 1] = Slash /\ t[j + 1] = c /\ i < Len(t) /\ j < Len(t) /\ j \in Nat
        /\ j + 1 = i + Len(w)
    <3>1. i + 2 = j + 1
      BY <1>1
    <3> QED BY <1>1, <1>2, <2>2, <3>1
  <2> HIDE DEF j
  <2>4. HasRead(t, j, read, "escape", 0)
    BY <1>1, <2>3, ReaderReads DEF j
  <2>5. HasRead(t, j + 1, Append(read, c), "text", 0)
    BY <1>3, <2>3, <2>4, ReaderReads
  <2> QED BY <2>1, <2>3, <2>5 DEF w
<1>4. CASE c \in ShortRunes
  <2>1. w = <<Slash, ShortLetter(c)>> /\ Meant(c) = c
    BY <1>4, EscapedIs, JSONRunesApart DEF Meant, ShortRunes
  <2>2. Len(w) = 2 /\ w[1] = Slash /\ w[2] = ShortLetter(c) /\ 1 \in 1 .. Len(w) /\ 2 \in 1 .. Len(w)
    BY <2>1
  <2> HIDE DEF w
  <2> DEFINE j == i + 1
  <2>3. /\ t[i + 1] = Slash /\ t[j + 1] = ShortLetter(c) /\ i < Len(t) /\ j < Len(t) /\ j \in Nat
        /\ j + 1 = i + Len(w)
    <3>1. i + 2 = j + 1
      BY <1>1
    <3> QED BY <1>1, <1>2, <2>2, <3>1
  <2> HIDE DEF j
  <2>4. HasRead(t, j, read, "escape", 0)
    BY <1>1, <2>3, ReaderReads DEF j
  <2>5. HasRead(t, j + 1, Append(read, c), "text", 0)
    BY <1>4, <2>3, <2>4, ReaderReads
  <2> QED BY <2>1, <2>3, <2>5 DEF w
<1>5. CASE c = "ctl"
  <2>1. w = <<Slash, "u", "0", "0", "0", "1">> /\ Meant(c) = "ctl"
    BY <1>5, EscapedIs DEF Meant
  <2>2. /\ Len(w) = 6 /\ w[1] = Slash /\ w[2] = "u" /\ w[3] = "0" /\ w[4] = "0"
        /\ w[5] = "0" /\ w[6] = "1"
    BY <2>1
  <2> HIDE DEF w
  <2>3. \A k \in 0 .. 5 : t[i + k + 1] = w[k + 1] /\ i + k \in Nat /\ i + k < Len(t)
    <3>1. ASSUME NEW k \in 0 .. 5
          PROVE  t[i + k + 1] = w[k + 1] /\ i + k \in Nat /\ i + k < Len(t)
      <4>1. k + 1 \in 1 .. Len(w) /\ i + (k + 1) = i + k + 1
        BY <1>1, <2>2
      <4>2. t[i + (k + 1)] = w[k + 1]
        BY <1>1, <4>1
      <4>3. i + 6 <= Len(t) /\ i \in Nat /\ k \in Nat /\ k <= 5
        BY <1>1, <2>2
      <4> QED BY <1>2, <4>1, <4>2, <4>3
    <3> QED BY <3>1
  <2>4. HasRead(t, i + 1, read, "escape", 0)
    <3>1. t[i + 1] = Slash /\ i < Len(t)
      <4>1. i + 0 + 1 = i + 1 /\ i + 0 = i /\ 0 + 1 = 1
        BY <1>1
      <4> QED BY <2>2, <2>3, <4>1
    <3> QED BY <1>1, <3>1, ReaderReads
  <2> DEFINE at(k) == i + k
  <2>5. at(1) \in Nat /\ at(1) < Len(t) /\ t[at(1) + 1] = "u" /\ at(1) + 1 = at(2)
    BY <1>1, <2>2, <2>3
  <2>6. at(2) \in Nat /\ at(2) < Len(t) /\ t[at(2) + 1] = Hex[2] /\ at(2) + 1 = at(3)
    BY <1>1, <2>2, <2>3, HexIs
  <2>7. at(3) \in Nat /\ at(3) < Len(t) /\ t[at(3) + 1] = Hex[3] /\ at(3) + 1 = at(4)
    BY <1>1, <2>2, <2>3, HexIs
  <2>8. at(4) \in Nat /\ at(4) < Len(t) /\ t[at(4) + 1] = Hex[4] /\ at(4) + 1 = at(5)
    BY <1>1, <2>2, <2>3, HexIs
  <2>9. at(5) \in Nat /\ at(5) < Len(t) /\ t[at(5) + 1] = Hex[5] /\ at(5) + 1 = at(6)
    BY <1>1, <2>2, <2>3, HexIs
  <2>10. at(6) = i + Len(w)
    BY <2>2
  <2>11. HasRead(t, at(1), read, "escape", 0)
    BY <2>4
  <2> HIDE DEF at
  <2>12. 0 + 1 = 1 /\ 1 + 1 = 2 /\ 2 + 1 = 3 /\ 3 + 1 = 4 /\ 4 + 1 = 5
    OBVIOUS
  <2>13. HasRead(t, at(2), read, "hex", 1)
    BY <2>5, <2>11, <2>12, ReaderReads
  <2>14. HasRead(t, at(3), read, "hex", 2)
    BY <2>6, <2>12, <2>13, ReaderReads
  <2>15. HasRead(t, at(4), read, "hex", 3)
    BY <2>7, <2>12, <2>14, ReaderReads
  <2>16. HasRead(t, at(5), read, "hex", 4)
    BY <2>8, <2>12, <2>15, ReaderReads
  <2>17. HasRead(t, at(6), Append(read, "ctl"), "text", 0)
    BY <2>9, <2>12, <2>16, ReaderReads
  <2> QED BY <2>1, <2>10, <2>17 DEF w
<1>6. CASE c \notin {Quote, Slash, "ctl"} \cup ShortRunes
  <2>1. w = <<Meant(c)>> /\ Meant(c) \notin RawRunes
    BY <1>6, EscapedIs
  <2>2. Len(w) = 1 /\ w[1] = Meant(c) /\ 1 \in 1 .. Len(w)
    BY <2>1
  <2> HIDE DEF w
  <2>3. t[i + 1] = Meant(c) /\ i < Len(t) /\ i + 1 = i + Len(w)
    BY <1>1, <1>2, <2>2
  <2>4. HasRead(t, i + 1, Append(read, Meant(c)), "text", 0)
    BY <1>1, <2>1, <2>3, ReaderReads
  <2> QED BY <2>3, <2>4 DEF w
<1> QED BY <1>3, <1>4, <1>5, <1>6

EscapedUnits(d) == [k \in DOMAIN d |-> Escaped(d[k])]

LEMMA EscapedTextReads ==
  ASSUME NEW R, JSONRunes \subseteq R, NEW t \in Seq(R), NEW i, NEW d \in Seq(R),
         StandsAt(t, i, FlattenSeq(EscapedUnits(d))), HasRead(t, i, <<>>, "text", 0)
  PROVE  HasRead(t, i + Len(FlattenSeq(EscapedUnits(d))), [k \in DOMAIN d |-> Meant(d[k])],
                 "text", 0)
<1> DEFINE L == Len(d)
           units == EscapedUnits(d)
           meant == [k \in DOMAIN d |-> Meant(d[k])]
           end(n) == i + Len(Joined(units, n))
           read(n) == SubSeq(meant, 1, n)
           T == {n \in 0 .. L : HasRead(t, end(n), read(n), "text", 0)}
<1>1. /\ L \in Nat /\ i \in Nat /\ DOMAIN d = 1 .. L
      /\ \A k \in 1 .. L : d[k] \in R
  BY DEF StandsAt
<1>2. /\ \A k \in 1 .. L : units[k] = Escaped(d[k])
      /\ units = [k \in 1 .. Len(units) |-> units[k]] /\ Len(units) = L
  BY <1>1 DEF EscapedUnits
<1>3. meant \in Seq(R) /\ Len(meant) = L /\ \A k \in 1 .. L : meant[k] = Meant(d[k])
  <2>1. \A c \in R : Meant(c) \in R
    BY DEF Meant, JSONRunes
  <2> QED BY <1>1, <2>1
<1> HIDE DEF L, units, meant
<1>4. \A k \in 1 .. L : units[k] \in Seq(R)
  BY <1>1, <1>2, EscapedIs
<1>5. /\ Joined(units, 0) = <<>>
      /\ \A n \in 0 .. L : Joined(units, n) \in Seq(R)
      /\ \A n \in 1 .. L : Joined(units, n) = Joined(units, n - 1) \o units[n]
  BY <1>1, <1>4, FlattenIsLoop, ZenonT(30)
<1>6. FlattenSeq(units) = Joined(units, L)
  BY <1>2, JoinedAll
<1>7. 0 \in T
  <2>1. Len(<<>>) = 0 /\ i + 0 = i /\ 0 \in 0 .. L
    BY <1>1
  <2>2. read(0) = <<>> /\ end(0) = i
    BY <1>3, <1>5, <2>1, SubSeqEmpty
  <2> HIDE DEF end, read
  <2> QED BY <2>1, <2>2
<1>8. \A n \in 1 .. L : StandsAt(t, i + Len(Joined(units, n - 1)), units[n])
  <2>1. StandsAt(t, i, Joined(units, L))
    BY <1>6 DEF units
  <2> QED BY <1>1, <1>4, <2>1, StandsJoined
<1>9. ASSUME NEW n \in 1 .. L, n - 1 \in T PROVE n \in T
  <2> DEFINE c == d[n]
  <2>1. n - 1 \in 0 .. L /\ n \in 0 .. L /\ n > 0
    BY <1>1
  <2>2. end(n) = end(n - 1) + Len(Escaped(c))
    <3>1. Joined(units, n) = Joined(units, n - 1) \o units[n]
      BY <1>5
    <3>2. Joined(units, n - 1) \in Seq(R) /\ units[n] \in Seq(R)
      BY <1>4, <1>5, <2>1
    <3>3. Len(Joined(units, n)) = Len(Joined(units, n - 1)) + Len(units[n])
      BY <3>1, <3>2, ConcatProperties
    <3>4. Len(Joined(units, n - 1)) \in Nat /\ Len(units[n]) \in Nat
      BY <3>2
    <3>5. units[n] = Escaped(c)
      BY <1>2
    <3> HIDE DEF c
    <3> QED BY <1>1, <3>3, <3>4, <3>5
  <2>3. read(n) = Append(read(n - 1), Meant(c))
    BY <1>1, <1>3, <2>1
  <2>4. HasRead(t, end(n - 1), read(n - 1), "text", 0)
    BY <1>9
  <2>5. StandsAt(t, end(n - 1), Escaped(c))
    BY <1>2, <1>8
  <2>6. c \in R
    BY <1>1
  <2> HIDE DEF end, read, c
  <2>7. HasRead(t, end(n - 1) + Len(Escaped(c)), Append(read(n - 1), Meant(c)), "text", 0)
    BY <2>4, <2>5, <2>6, EscapedReads
  <2> QED BY <2>1, <2>2, <2>3, <2>7
<1>10. L \in T
  <2>1. 0 .. L \subseteq T
    <3> HIDE DEF T
    <3> QED BY <1>1, <1>7, <1>9, IntervalInduction
  <2> QED BY <1>1, <2>1
<1>11. read(L) = meant
  BY <1>3
<1>12. HasRead(t, end(L), read(L), "text", 0)
  BY <1>10
<1> QED BY <1>6, <1>11, <1>12 DEF units, meant

(* Whatever runes a text has, its JSON string reads as the text, with the  *)
(* replacement character where the text was broken (appendJSONString).     *)
THEOREM JSONStringReadsBack ==
  ASSUME NEW R, JSONRunes \subseteq R, NEW d \in Seq(R)
  PROVE  Readings(JSONString(d)) = {[k \in DOMAIN d |-> IF d[k] = "bad" THEN "fffd" ELSE d[k]]}
<1> DEFINE units == EscapedUnits(d)
           body == FlattenSeq(units)
           t == JSONString(d)
           meant == [k \in DOMAIN d |-> Meant(d[k])]
           L == Len(d)
           q == <<Quote>>
<1>1. /\ units = [k \in 1 .. Len(units) |-> units[k]] /\ Len(units) = L /\ L \in Nat
      /\ \A k \in 1 .. L : units[k] \in Seq(R)
  BY EscapedIs DEF EscapedUnits
<1>2. body \in Seq(R)
  <2> HIDE DEF units, L
  <2>1. FlattenSeq(units) = Joined(units, L)
    BY <1>1, JoinedAll
  <2>2. L \in 0 .. L
    BY <1>1
  <2> HIDE DEF body
  <2>3. \A n \in 0 .. L : Joined(units, n) \in Seq(R)
    BY <1>1, FlattenIsLoop
  <2> QED BY <2>1, <2>2, <2>3 DEF body
<1>3. t = (q \o body) \o q /\ q \in Seq(R) /\ Len(q) = 1 /\ q[1] = Quote
  <2>1. Quote \in R
    BY DEF JSONRunes, RawRunes
  <2> QED BY <2>1 DEF JSONString, EscapedUnits
<1> HIDE DEF t, body, q
<1>4. /\ q \o body \in Seq(R) /\ Len(q \o body) = 1 + Len(body)
      /\ t \in Seq(R) /\ Len(t) = 1 + Len(body) + 1
      /\ Len(body) \in Nat
  <2>1. q \o body \in Seq(R) /\ Len(q \o body) = Len(q) + Len(body)
    BY <1>2, <1>3, ConcatProperties
  <2>2. t \in Seq(R) /\ Len(t) = Len(q \o body) + Len(q)
    BY <1>3, <2>1, ConcatProperties
  <2>3. Len(body) \in Nat
    BY <1>2
  <2> QED BY <1>3, <2>1, <2>2, <2>3
<1>5. StandsAt(t, 0, (q \o body) \o q)
  BY <1>3, <1>4 DEF StandsAt
<1>6. StandsAt(t, 0, q \o body) /\ StandsAt(t, 0 + Len(q \o body), q)
  BY <1>3, <1>4, <1>5, StandsSplit
<1>7. StandsAt(t, 0, q) /\ StandsAt(t, 0 + Len(q), body)
  BY <1>2, <1>3, <1>4, <1>6, StandsSplit
<1> DEFINE n == 1 + Len(body)
<1>8. /\ t[0 + 1] = Quote /\ t[n + 1] = Quote /\ StandsAt(t, 1, body) /\ 0 \in Nat
      /\ 0 < Len(t) /\ n \in Nat /\ n < Len(t) /\ n + 1 = Len(t) /\ 0 + 1 = 1
  <2>1. 0 + Len(q \o body) = n /\ 0 + Len(q) = 1 /\ 1 \in 1 .. 1
    BY <1>3, <1>4
  <2>2. StandsAt(t, n, q) /\ StandsAt(t, 1, body)
    BY <1>6, <1>7, <2>1
  <2> QED BY <1>3, <1>4, <1>7, <2>1, <2>2 DEF StandsAt
<1>9. HasRead(t, 0, <<>>, "before", 0)
  <2>1. 0 \in 0 .. Len(t)
    BY <1>4
  <2>2. ReadTo(t)[0] = ReadStart
    BY <1>4, ReaderIsLoop
  <2> QED BY <2>1, <2>2 DEF HasRead, ReadStart
<1>10. HasRead(t, 0 + 1, <<>>, "text", 0)
  BY <1>4, <1>8, <1>9, ReaderReads
<1>11. HasRead(t, n, meant, "text", 0)
  <2>1. HasRead(t, 1, <<>>, "text", 0)
    BY <1>8, <1>10
  <2> QED BY <1>4, <1>8, <2>1, EscapedTextReads DEF body
<1> HIDE DEF n, meant
<1>12. HasRead(t, n + 1, meant, "end", 0)
  BY <1>4, <1>8, <1>11, ReaderReads
<1>13. Readings(t) = {meant}
  <2>1. ReadTo(t)[Len(t)] = [read |-> meant, mode |-> "end", digits |-> 0]
    BY <1>8, <1>12 DEF HasRead
  <2> QED BY <2>1 DEF Readings
<1> QED BY <1>13 DEF t, meant, Meant

LEMMA TruncateType ==
  ASSUME NEW R, Ellipsis \in R, NEW s \in Seq(R), NEW max \in Int
  PROVE  Truncate(s, max) \in Seq(R)
<1>1. CASE max <= 0
  BY <1>1 DEF Truncate
<1>2. CASE max > 0 /\ Len(s) <= max
  BY <1>2 DEF Truncate
<1>3. CASE max > 0 /\ Len(s) > max
  <2> DEFINE n == CutAt(s, max)
             kept == SubSeq(s, 1, n)
  <2>1. n \in 1 .. max /\ max \in Nat
    BY <1>3, CutInRange
  <2>2. Truncate(s, max) = Append(kept, Ellipsis)
    <3>1. ~(max <= 0) /\ ~(Len(s) <= max)
      BY <1>3
    <3> QED BY <3>1, Zenon DEF Truncate
  <2> HIDE DEF n
  <2>3. kept \in Seq(R)
    BY <1>3, <2>1
  <2> QED BY <2>2, <2>3
<1> QED BY <1>1, <1>2, <1>3

(* However long the text of a server, and whatever the budget, its         *)
(* compressed description is one JSON string that reads as the shortened   *)
(* text (prune.go, compress, appendJSONString).                            *)
THEOREM DescriptionsReadBack ==
  ASSUME MaxText \in Nat
  PROVE  Spec => []CompressedReadsBack
<1> DEFINE R == TextRunes \cup JSONRunes \cup {Ellipsis}
<1>1. Init => text \in Seq(TextRunes)
  BY DEF Init
<1>2. text \in Seq(TextRunes) /\ [Next]_vars => (text \in Seq(TextRunes))'
  BY DEF Next, AddPiece, AddRune, AddTool, AddToFile, AddFlag, vars
<1>3. text \in Seq(TextRunes) => CompressedReadsBack
  <2> SUFFICES ASSUME text \in Seq(TextRunes), NEW max \in 0 .. MaxText
               PROVE  DescriptionReadsBack(text, max)
    BY DEF CompressedReadsBack
  <2>1. text \in Seq(R) /\ JSONRunes \subseteq R /\ Ellipsis \in R /\ max \in Int
    OBVIOUS
  <2> HIDE DEF R
  <2>2. CompressedDescription(text, text, max) = Truncate(text, max)
    BY DEF CompressedDescription
  <2>3. Truncate(text, max) \in Seq(R)
    BY <2>1, TruncateType
  <2> QED BY <2>1, <2>2, <2>3, JSONStringReadsBack DEF DescriptionReadsBack
<1> QED BY <1>1, <1>2, <1>3, PTL DEF Spec

-----------------------------------------------------------------------------
(* The token estimate.                                                     *)

(* What of the runs the first n runes of s show: their starts, how long    *)
(* each is by then, what they cost, and the runes of the one that may      *)
(* still go on.                                                            *)
StartsTo(s, n, kind, skip) ==
  {i \in 1 .. n : s[i] \in kind /\ \A h \in 1 .. i - 1 : ~Together(s, h, i, kind, skip)}

LengthTo(s, n, i, kind, skip) == Cardinality({j \in 1 .. n : Together(s, i, j, kind, skip)})

CostTo(s, n, kind, skip, cost) ==
  SumFunctionOnSet([i \in StartsTo(s, n, kind, skip) |-> cost[LengthTo(s, n, i, kind, skip)]],
                   StartsTo(s, n, kind, skip))

Live(s, n, kind, skip) ==
  {k \in 1 .. n : s[k] \in kind /\ \A m \in k .. n : s[m] \in kind \cup skip}

LEMMA UpToFinite ==
  ASSUME NEW n \in Int, NEW S, S \subseteq 1 .. n
  PROVE  IsFiniteSet(S) /\ Cardinality(S) \in Nat
<1>1. IsFiniteSet(1 .. n)
  <2>1. 1 \in Int /\ n \in Int
    OBVIOUS
  <2> QED BY <2>1, FS_Interval
<1> QED BY <1>1, FS_Subset, FS_CardinalityType

(* A run that may go on has a start among the runes before.                *)
LEMMA LiveHasStart ==
  ASSUME NEW L \in Nat, NEW s, NEW kind, NEW skip
  PROVE  \A n \in 0 .. L : Live(s, n, kind, skip) # {}
           => Live(s, n, kind, skip) \cap StartsTo(s, n, kind, skip) # {}
<1> DEFINE live(n) == Live(s, n, kind, skip)
           starts(n) == StartsTo(s, n, kind, skip)
           T == {n \in 0 .. L : live(n) # {} => live(n) \cap starts(n) # {}}
<1>1. 0 \in T
  BY DEF Live
<1>2. ASSUME NEW n \in 1 .. L, n - 1 \in T PROVE n \in T
  <2> SUFFICES ASSUME live(n) # {} PROVE live(n) \cap starts(n) # {}
    OBVIOUS
  <2>1. PICK k \in 1 .. n : s[k] \in kind /\ \A m \in k .. n : s[m] \in kind \cup skip
    BY DEF Live
  <2>2. CASE live(n - 1) = {}
    <3>1. k = n
      <4> SUFFICES ASSUME k # n PROVE FALSE
        OBVIOUS
      <4>1. k \in 1 .. n - 1 /\ \A m \in k .. n - 1 : m \in k .. n
        OBVIOUS
      <4> QED BY <2>1, <2>2, <4>1 DEF Live
    <3>2. ASSUME NEW h \in 1 .. n - 1, Together(s, h, n, kind, skip) PROVE FALSE
      <4>1. \A m \in h .. n - 1 : m \in h .. n
        OBVIOUS
      <4>2. h \in live(n - 1)
        BY <3>2, <4>1 DEF Together, Live
      <4> QED BY <2>2, <4>2
    <3>3. n \in live(n) /\ n \in starts(n)
      <4>1. n \in 1 .. n
        OBVIOUS
      <4> QED BY <2>1, <3>1, <3>2, <4>1 DEF Live, StartsTo
    <3> QED BY <3>3
  <2>3. CASE live(n - 1) # {}
    <3>1. PICK a \in live(n - 1) : a \in starts(n - 1)
      BY <1>2, <2>3
    <3>2. a \in 1 .. n - 1 /\ a \in 1 .. n /\ s[a] \in kind
          /\ \A m \in a .. n - 1 : s[m] \in kind \cup skip
      BY DEF Live
    <3>3. s[n] \in kind \cup skip
      <4>1. n \in k .. n
        OBVIOUS
      <4> QED BY <2>1, <4>1
    <3>4. \A m \in a .. n : m \in a .. n - 1 \/ m = n
      BY <3>2
    <3>5. a \in live(n)
      BY <3>2, <3>3, <3>4 DEF Live
    <3>6. a \in starts(n)
      BY <3>1, <3>2 DEF StartsTo
    <3> QED BY <3>5, <3>6
  <2> QED BY <2>2, <2>3
<1>3. 0 .. L \subseteq T
  <2> HIDE DEF T
  <2> QED BY <1>1, <1>2, IntervalInduction
<1> QED BY <1>3

(* What the n-th rune does to the runs of a kind: nothing but to let one go *)
(* on or not, or to start one or make the one that goes on longer.         *)
RunsStay(s, n, kind, skip, cost) ==
  /\ CostTo(s, n, kind, skip, cost) = CostTo(s, n - 1, kind, skip, cost)
  /\ s[n] \notin skip => Live(s, n, kind, skip) = {}
  /\ s[n] \in skip => Live(s, n, kind, skip) = Live(s, n - 1, kind, skip)

OneGrows(s, n, kind, skip, cost) ==
  LET live(m) == Cardinality(Live(s, m, kind, skip))
      total(m) == CostTo(s, m, kind, skip, cost)
  IN /\ live(n) = live(n - 1) + 1
     /\ total(n) + cost[live(n - 1)] = total(n - 1) + cost[live(n)]

(* A rune that belongs to no run of the kind: none grows, and only a rune  *)
(* of skip lets one go on.                                                 *)
LEMMA OtherRune ==
  ASSUME NEW s, NEW kind, NEW skip, NEW cost, NEW n \in Nat, n # 0, s[n] \notin kind
  PROVE  RunsStay(s, n, kind, skip, cost)
<1>0. 1 .. n = (1 .. n - 1) \cup {n}
  OBVIOUS
<1>1. StartsTo(s, n, kind, skip) = StartsTo(s, n - 1, kind, skip)
  BY <1>0 DEF StartsTo
<1>2. \A i : LengthTo(s, n, i, kind, skip) = LengthTo(s, n - 1, i, kind, skip)
  <2>1. \A i : {j \in 1 .. n : Together(s, i, j, kind, skip)}
                = {j \in 1 .. n - 1 : Together(s, i, j, kind, skip)}
    BY <1>0 DEF Together
  <2> QED BY <2>1 DEF LengthTo
<1>3. CostTo(s, n, kind, skip, cost) = CostTo(s, n - 1, kind, skip, cost)
  BY <1>1, <1>2 DEF CostTo
<1>4. ASSUME s[n] \notin skip PROVE Live(s, n, kind, skip) = {}
  <2>1. \A k \in 1 .. n : n \in k .. n
    OBVIOUS
  <2> QED BY <1>4, <2>1 DEF Live
<1>5. ASSUME s[n] \in skip PROVE Live(s, n, kind, skip) = Live(s, n - 1, kind, skip)
  <2>1. \A k \in 1 .. n - 1 : k .. n = (k .. n - 1) \cup {n}
    OBVIOUS
  <2> QED BY <1>0, <1>5, <2>1 DEF Live
<1> QED BY <1>3, <1>4, <1>5 DEF RunsStay

(* A rune of the kind starts a run or makes the one that goes on longer.   *)
LEMMA OneMoreRune ==
  ASSUME NEW s, NEW kind, NEW skip, NEW cost \in [Nat -> Nat],
         NEW n \in Nat, n # 0, s[n] \in kind, cost[0] = 0
  PROVE  OneGrows(s, n, kind, skip, cost)
<1> DEFINE live(m) == Live(s, m, kind, skip)
           starts(m) == StartsTo(s, m, kind, skip)
           len(m) == [i \in 1 .. n |-> LengthTo(s, m, i, kind, skip)]
           run(m, i) == {j \in 1 .. m : Together(s, i, j, kind, skip)}
           f(m) == [i \in starts(m) |-> cost[LengthTo(s, m, i, kind, skip)]]
<1>0. n \in Int /\ n - 1 \in Int /\ 1 .. n = (1 .. n - 1) \cup {n} /\ n \notin 1 .. n - 1
  OBVIOUS
<1>1. /\ live(n - 1) \subseteq 1 .. n - 1 /\ live(n) \subseteq 1 .. n
      /\ starts(n - 1) \subseteq 1 .. n - 1 /\ starts(n) \subseteq 1 .. n
      /\ \A i : run(n - 1, i) \subseteq 1 .. n - 1 /\ run(n, i) \subseteq 1 .. n
  BY DEF Live, StartsTo
<1>2. live(n) = live(n - 1) \cup {n} /\ n \notin live(n - 1)
  <2>1. \A k \in 1 .. n - 1 : k .. n = (k .. n - 1) \cup {n}
    OBVIOUS
  <2>2. n .. n = {n}
    OBVIOUS
  <2> QED BY <1>0, <2>1, <2>2 DEF Live
<1>3. /\ Cardinality(live(n)) = Cardinality(live(n - 1)) + 1
      /\ Cardinality(live(n - 1)) \in Nat /\ Cardinality(live(n)) \in Nat
  <2> HIDE DEF live
  <2>1. /\ IsFiniteSet(live(n - 1)) /\ Cardinality(live(n - 1)) \in Nat
        /\ Cardinality(live(n)) \in Nat
    BY <1>0, <1>1, UpToFinite
  <2> QED BY <1>2, <2>1, FS_AddElement
<1>4. \A i \in 1 .. n - 1 : Together(s, i, n, kind, skip) <=> i \in live(n - 1)
  <2>1. \A i \in 1 .. n - 1 : i .. n = (i .. n - 1) \cup {n} /\ i <= n
    OBVIOUS
  <2> QED BY <2>1 DEF Together, Live
<1>5. starts(n) = IF live(n - 1) = {} THEN starts(n - 1) \cup {n} ELSE starts(n - 1)
  <2>1. \A i \in 1 .. n - 1 : i \in starts(n) <=> i \in starts(n - 1)
    BY <1>0 DEF StartsTo
  <2>2. n \in starts(n) <=> live(n - 1) = {}
    BY <1>0, <1>1, <1>4 DEF StartsTo
  <2> DEFINE S == starts(n)
             P == starts(n - 1)
             E == live(n - 1) = {}
             I == 1 .. n - 1
  <2>3. /\ S \subseteq I \cup {n} /\ P \subseteq I /\ \A i \in I : i \in S <=> i \in P
        /\ n \in S <=> E
    BY <1>0, <1>1, <2>1, <2>2
  <2> HIDE DEF S, P, E, I
  <2>4. CASE E
    <3>1. S = P \cup {n}
      BY <2>3, <2>4
    <3> QED BY <3>1, <2>4 DEF S, P, E
  <2>5. CASE ~E
    <3>1. S = P
      BY <2>3, <2>5
    <3> QED BY <3>1, <2>5 DEF S, P, E
  <2> QED BY <2>4, <2>5
<1>6. /\ IsFiniteSet(starts(n)) /\ IsFiniteSet(starts(n - 1))
      /\ \A m \in {n - 1, n} : \A i : LengthTo(s, m, i, kind, skip) \in Nat
  <2>1. \A m \in {n - 1, n} : \A i : LengthTo(s, m, i, kind, skip) = Cardinality(run(m, i))
    BY DEF LengthTo
  <2> HIDE DEF starts, run
  <2> QED BY <1>0, <1>1, <2>1, UpToFinite
<1>7. /\ \A i \in starts(n) : f(n)[i] \in Nat
      /\ \A i \in starts(n - 1) : f(n - 1)[i] \in Nat
  BY <1>6
<1>8. ASSUME NEW i \in 1 .. n - 1, i \notin live(n - 1)
      PROVE  LengthTo(s, n, i, kind, skip) = LengthTo(s, n - 1, i, kind, skip)
  <2>1. run(n, i) = run(n - 1, i)
    BY <1>0, <1>4, <1>8
  <2> QED BY <2>1 DEF LengthTo
<1> DEFINE total(m) == CostTo(s, m, kind, skip, cost)
<1>9. total(n) = SumFunctionOnSet(f(n), starts(n))
      /\ total(n - 1) = SumFunctionOnSet(f(n - 1), starts(n - 1))
  BY DEF CostTo
<1>10. CASE live(n - 1) = {}
  <2>1. Cardinality(live(n - 1)) = 0 /\ Cardinality(live(n)) = 1
    <3> HIDE DEF live
    <3>1. Cardinality(live(n - 1)) = 0
      BY <1>10, FS_EmptySet
    <3> QED BY <1>3, <3>1
  <2>2. starts(n) = starts(n - 1) \cup {n} /\ n \notin starts(n - 1)
    BY <1>0, <1>1, <1>5, <1>10
  <2>3. LengthTo(s, n, n, kind, skip) = 1
    <3>1. run(n, n) = {n}
      <4>1. n .. n = {n} /\ \A j \in 1 .. n : n <= j => j = n
        OBVIOUS
      <4> QED BY <1>0, <4>1 DEF Together
    <3> QED BY <3>1, FS_Singleton DEF LengthTo
  <2>4. f(n)[n] = cost[1]
    BY <2>2, <2>3
  <2>5. \A i \in starts(n - 1) : f(n)[i] = f(n - 1)[i]
    BY <1>1, <1>8, <1>10, <2>2
  <2> DEFINE g == f(n)
             h == f(n - 1)
             S == starts(n)
             P == starts(n - 1)
  <2>6. n \in S /\ S \ {n} = P /\ {n} \in SUBSET S /\ IsFiniteSet(S) /\ IsFiniteSet(P)
        /\ (\A i \in S : g[i] \in Nat) /\ (\A i \in P : h[i] \in Nat /\ g[i] = h[i] /\ g[i] \in Nat)
        /\ g[n] = cost[1] /\ g[n] \in Nat
    BY <1>6, <1>7, <2>2, <2>4, <2>5
  <2> HIDE DEF g, h, S, P
  <2>7. SumFunctionOnSet(g, S) = SumFunctionOnSet(g, {n}) + SumFunctionOnSet(g, S \ {n})
    BY <2>6, SumSplit
  <2>8. SumFunctionOnSet(g, {n}) = g[n]
    BY <2>6, SumOne
  <2>9. SumFunctionOnSet(g, P) = SumFunctionOnSet(h, P) /\ SumFunctionOnSet(h, P) \in Nat
    BY <2>6, SumSame, SumType
  <2>10. SumFunctionOnSet(g, S) = cost[1] + SumFunctionOnSet(h, P)
    BY <2>6, <2>7, <2>8, <2>9
  <2>11. total(n) = SumFunctionOnSet(g, S) /\ total(n - 1) = SumFunctionOnSet(h, P)
    BY <1>9 DEF g, h, S, P
  <2> HIDE DEF total
  <2>12. total(n) + 0 = total(n - 1) + cost[1]
    BY <2>6, <2>9, <2>10, <2>11
  <2> QED BY <1>3, <2>1, <2>12 DEF total, OneGrows
<1>11. CASE live(n - 1) # {}
  <2>1. starts(n) = starts(n - 1)
    BY <1>5, <1>11
  <2>2. PICK a : a \in live(n - 1) /\ a \in starts(n - 1)
    <3>1. n - 1 \in 0 .. n
      OBVIOUS
    <3> QED BY <1>11, <3>1, LiveHasStart
  <2>3. ASSUME NEW b \in starts(n - 1), b # a PROVE b \notin live(n - 1)
    <3> SUFFICES ASSUME b \in live(n - 1) PROVE FALSE
      OBVIOUS
    <3>1. /\ a \in 1 .. n - 1 /\ b \in 1 .. n - 1 /\ s[a] \in kind /\ s[b] \in kind
          /\ \A m \in a .. n - 1 : s[m] \in kind \cup skip
          /\ \A m \in b .. n - 1 : s[m] \in kind \cup skip
      BY <2>2 DEF Live
    <3>2. CASE a < b
      <4>1. a \in 1 .. b - 1 /\ a <= b /\ \A m \in a .. b : m \in a .. n - 1
        BY <3>1, <3>2
      <4>2. Together(s, a, b, kind, skip)
        BY <3>1, <4>1 DEF Together
      <4> QED BY <4>1, <4>2 DEF StartsTo
    <3>3. CASE b < a
      <4>1. b \in 1 .. a - 1 /\ b <= a /\ \A m \in b .. a : m \in b .. n - 1
        BY <3>1, <3>3
      <4>2. Together(s, b, a, kind, skip)
        BY <3>1, <4>1 DEF Together
      <4> QED BY <2>2, <4>1, <4>2 DEF StartsTo
    <3> QED BY <2>3, <3>1, <3>2, <3>3
  <2>4. run(n - 1, a) = live(n - 1)
    <3>1. /\ a \in 1 .. n - 1 /\ s[a] \in kind
          /\ \A m \in a .. n - 1 : s[m] \in kind \cup skip
      BY <2>2 DEF Live
    <3>2. ASSUME NEW j \in 1 .. n - 1, Together(s, a, j, kind, skip) PROVE j \in live(n - 1)
      <4>1. a <= j /\ s[j] \in kind
        BY <3>2 DEF Together
      <4>2. \A m \in j .. n - 1 : m \in a .. n - 1
        BY <3>1, <4>1
      <4> QED BY <3>1, <4>1, <4>2 DEF Live
    <3>3. ASSUME NEW j \in live(n - 1) PROVE j \in 1 .. n - 1 /\ Together(s, a, j, kind, skip)
      <4>1. /\ j \in 1 .. n - 1 /\ s[j] \in kind
            /\ \A m \in j .. n - 1 : s[m] \in kind \cup skip
        BY DEF Live
      <4>2. a <= j
        <5> SUFFICES ASSUME j < a PROVE FALSE
          BY <3>1, <4>1
        <5>1. j \in 1 .. a - 1 /\ j <= a /\ \A m \in j .. a : m \in j .. n - 1
          BY <3>1, <4>1
        <5>2. Together(s, j, a, kind, skip)
          BY <3>1, <4>1, <5>1 DEF Together
        <5> QED BY <2>2, <5>1, <5>2 DEF StartsTo
      <4>3. \A m \in a .. j : m \in a .. n - 1
        BY <3>1, <4>1
      <4> QED BY <3>1, <4>1, <4>2, <4>3 DEF Together
    <3> QED BY <3>2, <3>3
  <2>5. run(n, a) = live(n)
    <3>1. a \in 1 .. n - 1
      BY <1>1, <2>2
    <3>2. Together(s, a, n, kind, skip)
      BY <1>4, <2>2, <3>1
    <3>3. run(n, a) = run(n - 1, a) \cup {n}
      BY <1>0, <3>2
    <3> QED BY <1>2, <2>4, <3>3
  <2> DEFINE g == f(n)
             h == f(n - 1)
             S == starts(n)
             w == Cardinality(live(n - 1))
             w2 == Cardinality(live(n))
  <2>6. g[a] = cost[w2] /\ h[a] = cost[w]
    <3>1. LengthTo(s, n, a, kind, skip) = w2 /\ LengthTo(s, n - 1, a, kind, skip) = w
      BY <2>4, <2>5 DEF LengthTo
    <3> QED BY <2>1, <2>2, <3>1
  <2>7. \A i \in S \ {a} : g[i] = h[i]
    <3>1. \A i \in S \ {a} : LengthTo(s, n, i, kind, skip) = LengthTo(s, n - 1, i, kind, skip)
      BY <1>1, <1>8, <2>1, <2>3
    <3> QED BY <2>1, <3>1
  <2>8. /\ a \in S /\ {a} \in SUBSET S /\ IsFiniteSet(S) /\ IsFiniteSet(S \ {a})
        /\ (\A i \in S : g[i] \in Nat /\ h[i] \in Nat)
        /\ (\A i \in S \ {a} : g[i] \in Nat /\ h[i] \in Nat)
        /\ w \in Nat /\ w2 \in Nat
    <3>1. IsFiniteSet(S) /\ a \in S
      BY <1>6, <2>1, <2>2
    <3>2. IsFiniteSet(S \ {a})
      BY <3>1, FS_Subset
    <3> QED BY <1>3, <1>7, <2>1, <3>1, <3>2
  <2> HIDE DEF g, h, S
  <2>9. /\ SumFunctionOnSet(g, S) = SumFunctionOnSet(g, {a}) + SumFunctionOnSet(g, S \ {a})
        /\ SumFunctionOnSet(h, S) = SumFunctionOnSet(h, {a}) + SumFunctionOnSet(h, S \ {a})
    BY <2>8, SumSplit
  <2>10. SumFunctionOnSet(g, {a}) = g[a] /\ SumFunctionOnSet(h, {a}) = h[a]
    BY <2>8, SumOne
  <2>11. /\ SumFunctionOnSet(g, S \ {a}) = SumFunctionOnSet(h, S \ {a})
         /\ SumFunctionOnSet(h, S \ {a}) \in Nat
    BY <2>7, <2>8, SumSame, SumType
  <2>12. total(n) = SumFunctionOnSet(g, S) /\ total(n - 1) = SumFunctionOnSet(h, S)
    BY <1>9, <2>1 DEF g, h, S
  <2>13. cost[w] \in Nat /\ cost[w2] \in Nat
    BY <2>8
  <2> HIDE DEF total, w, w2
  <2>14. total(n) + cost[w] = total(n - 1) + cost[w2]
    BY <2>6, <2>9, <2>10, <2>11, <2>12, <2>13
  <2> QED BY <1>3, <2>14 DEF total, w, w2, OneGrows
<1> QED BY <1>10, <1>11

(* What the loop of EstimateTokens keeps.                                  *)
Counts == [tokens : Nat, word : Nat, punct : Nat]

WordCost == [x \in Nat |-> CeilDiv(x, WordCharsPerToken)]
PunctCost == [x \in Nat |-> CeilDiv(x, PunctCharsPerToken)]

LEMMA CostTypes ==
  /\ WordCost \in [Nat -> Nat] /\ WordCost[0] = 0
  /\ PunctCost \in [Nat -> Nat] /\ PunctCost[0] = 0
<1>1. \A x \in Nat : CeilDiv(x, 4) \in Nat /\ CeilDiv(x, 2) \in Nat
  BY DEF CeilDiv
<1>2. CeilDiv(0, 4) = 0 /\ CeilDiv(0, 2) = 0
  BY DEF CeilDiv
<1> QED BY <1>1, <1>2 DEF WordCost, PunctCost, WordCharsPerToken, PunctCharsPerToken

(* The parts of a step of the loop.                                        *)
LEMMA TokenParts ==
  ASSUME NEW st \in Counts
  PROVE  /\ EndWordRun(st) = [tokens |-> st.tokens + WordCost[st.word], word |-> 0,
                              punct |-> st.punct]
         /\ EndPunctRun(st) = [tokens |-> st.tokens + PunctCost[st.punct], word |-> st.word,
                               punct |-> 0]
         /\ CountWord(st) = [tokens |-> st.tokens, word |-> st.word + 1, punct |-> st.punct]
         /\ CountPunct(st) = [tokens |-> st.tokens, word |-> st.word, punct |-> st.punct + 1]
         /\ WordCost[st.word] \in Nat /\ PunctCost[st.punct] \in Nat
         /\ st.tokens \in Nat /\ st.word \in Nat /\ st.punct \in Nat
<1>1. /\ st = [tokens |-> st.tokens, word |-> st.word, punct |-> st.punct]
      /\ st.tokens \in Nat /\ st.word \in Nat /\ st.punct \in Nat
  BY DEF Counts
<1>2. /\ CeilDiv(st.word, WordCharsPerToken) = WordCost[st.word]
      /\ CeilDiv(st.punct, PunctCharsPerToken) = PunctCost[st.punct]
  BY <1>1 DEF WordCost, PunctCost
<1>3. WordCost[st.word] \in Nat /\ PunctCost[st.punct] \in Nat
  BY <1>1, CostTypes
<1>4. EndWordRun(st) = [st EXCEPT !.tokens = @ + WordCost[st.word], !.word = 0]
  BY <1>2 DEF EndWordRun
<1>5. EndPunctRun(st) = [st EXCEPT !.tokens = @ + PunctCost[st.punct], !.punct = 0]
  BY <1>2 DEF EndPunctRun
<1>6. EndWordRun(st) = [tokens |-> st.tokens + WordCost[st.word], word |-> 0,
                        punct |-> st.punct]
  BY <1>1, <1>3, <1>4
<1>7. EndPunctRun(st) = [tokens |-> st.tokens + PunctCost[st.punct], word |-> st.word,
                         punct |-> 0]
  BY <1>1, <1>3, <1>5
<1>8. CountWord(st) = [tokens |-> st.tokens, word |-> st.word + 1, punct |-> st.punct]
  BY <1>1 DEF CountWord
<1>9. CountPunct(st) = [tokens |-> st.tokens, word |-> st.word, punct |-> st.punct + 1]
  BY <1>1 DEF CountPunct
<1> QED BY <1>1, <1>3, <1>6, <1>7, <1>8, <1>9

LEMMA SpacesNoWord == \A c : IsWordRune(c) => c \notin Spaces
<1>1. " " \notin Letters \cup {"_"}
  BY Zenon DEF Letters
<1>2. "\n" \notin Letters \cup {"_"}
  BY Zenon DEF Letters
<1>3. "\r" \notin Letters \cup {"_"}
  BY Zenon DEF Letters
<1>4. "\t" \notin Letters \cup {"_"}
  BY Zenon DEF Letters
<1> QED BY <1>1, <1>2, <1>3, <1>4, Zenon
       DEF IsWordRune, Spaces, Blank, Newline, Return, Tab

(* The loop after one rune more.                                           *)
LEMMA TokenStepIs ==
  ASSUME NEW st \in Counts, NEW c
  PROVE  TokenStep(st, c) =
           IF IsWordRune(c)
           THEN [tokens |-> st.tokens + PunctCost[st.punct], word |-> st.word + 1, punct |-> 0]
           ELSE IF c \in Spaces
           THEN [tokens |-> st.tokens + WordCost[st.word], word |-> 0, punct |-> st.punct]
           ELSE [tokens |-> st.tokens + WordCost[st.word], word |-> 0, punct |-> st.punct + 1]
<1>1. EndPunctRun(st) \in Counts /\ EndWordRun(st) \in Counts
  BY TokenParts DEF Counts
<1>2. CASE IsWordRune(c)
  <2>1. TokenStep(st, c) = CountWord(EndPunctRun(st))
    BY <1>2, SpacesNoWord DEF TokenStep
  <2> QED BY <1>1, <1>2, <2>1, TokenParts
<1>3. CASE ~IsWordRune(c) /\ c \in Spaces
  <2>1. TokenStep(st, c) = EndWordRun(st)
    BY <1>3 DEF TokenStep
  <2> QED BY <1>3, <2>1, TokenParts
<1>4. CASE ~IsWordRune(c) /\ c \notin Spaces
  <2>1. TokenStep(st, c) = CountPunct(EndWordRun(st))
    BY <1>4 DEF TokenStep
  <2> QED BY <1>1, <1>4, <2>1, TokenParts
<1> QED BY <1>2, <1>3, <1>4

LEMMA TokenStepType ==
  ASSUME NEW st \in Counts, NEW c
  PROVE  TokenStep(st, c) \in Counts
BY TokenParts, TokenStepIs DEF Counts

LEMMA TokensIsLoop ==
  ASSUME NEW R, NEW s \in Seq(R)
  PROVE  /\ \A n \in 0 .. Len(s) : TokensTo(s)[n] \in Counts
         /\ TokensTo(s)[0] = NoTokens
         /\ \A n \in 1 .. Len(s) : TokensTo(s)[n] = TokenStep(TokensTo(s)[n - 1], s[n])
<1> DEFINE L == Len(s)
           Q == Counts
           step == [p \in Q \X (1 .. L) |-> TokenStep(p[1], s[p[2]])]
           solves(g) == g = [n \in 0 .. L |->
                               IF n = 0 THEN NoTokens ELSE TokenStep(g[n - 1], s[n])]
           after == TokensTo(s)
<1>1. L \in Nat
  OBVIOUS
<1>2. NoTokens \in Q
  BY DEF NoTokens, Counts
<1>3. \A st \in Q, n \in 1 .. L : TokenStep(st, s[n]) \in Q
  BY TokenStepType
<1>4. after = CHOOSE g : solves(g)
  BY DEF TokensTo
<1> HIDE DEF L, Q
<1>5. \A st \in Q, n \in 1 .. L : step[<<st, n>>] = TokenStep(st, s[n])
  OBVIOUS
<1>6. \A st \in Q, n \in 1 .. L : step[<<st, n>>] \in Q
  BY <1>3, <1>5
<1> HIDE DEF step
<1>7. PICK g : LoopRun(g, L, Q, NoTokens, step)
  BY <1>1, <1>2, <1>6, LoopDefined
<1>8. ASSUME NEW n \in 0 .. L
      PROVE  g[n] = IF n = 0 THEN NoTokens ELSE TokenStep(g[n - 1], s[n])
  <2>1. CASE n = 0
    BY <2>1, <1>7 DEF LoopRun
  <2>2. CASE n # 0
    <3>1. n \in 1 .. L /\ n - 1 \in 0 .. L
      BY <1>1, <2>2
    <3> QED BY <1>5, <1>7, <2>2, <3>1 DEF LoopRun
  <2> QED BY <2>1, <2>2
<1>9. solves(g)
  BY <1>7, <1>8 DEF LoopRun
<1>10. solves(after)
  <2> HIDE DEF solves, after
  <2> QED BY <1>4, <1>9
<1> HIDE DEF after
<1> DEFINE T == {n \in 0 .. L : after[n] \in Q}
<1>11. after[0] = NoTokens /\ 0 \in T
  BY <1>1, <1>2, <1>10
<1>12. \A n \in 1 .. L : after[n] = TokenStep(after[n - 1], s[n])
  BY <1>1, <1>10
<1>13. \A n \in 1 .. L : n - 1 \in T => n \in T
  BY <1>3, <1>12
<1>14. \A n \in 0 .. L : after[n] \in Q
  <2>1. 0 .. L \subseteq T
    <3> HIDE DEF T
    <3> QED BY <1>1, <1>11, <1>13, IntervalInduction
  <2> QED BY <2>1
<1> QED BY <1>11, <1>12, <1>14 DEF L, Q, after

LEMMA CostToType ==
  ASSUME NEW n \in Int, NEW s, NEW kind, NEW skip, NEW cost \in [Nat -> Nat]
  PROVE  CostTo(s, n, kind, skip, cost) \in Nat
<1> DEFINE S == StartsTo(s, n, kind, skip)
           f == [i \in S |-> cost[LengthTo(s, n, i, kind, skip)]]
<1>1. IsFiniteSet(S)
  <2>1. S \subseteq 1 .. n
    BY DEF StartsTo
  <2> HIDE DEF S
  <2> QED BY <2>1, UpToFinite
<1>2. \A i : LengthTo(s, n, i, kind, skip) \in Nat
  <2> DEFINE run(i) == {j \in 1 .. n : Together(s, i, j, kind, skip)}
  <2>1. \A i : LengthTo(s, n, i, kind, skip) = Cardinality(run(i)) /\ run(i) \subseteq 1 .. n
    BY DEF LengthTo
  <2> HIDE DEF run
  <2> QED BY <2>1, UpToFinite
<1>3. \A i \in S : f[i] \in Nat
  BY <1>2
<1>4. CostTo(s, n, kind, skip, cost) = SumFunctionOnSet(f, S)
  BY DEF CostTo
<1> HIDE DEF f, S
<1> QED BY <1>1, <1>3, <1>4, SumType

LEMMA LiveType ==
  ASSUME NEW n \in Int, NEW s, NEW kind, NEW skip
  PROVE  Cardinality(Live(s, n, kind, skip)) \in Nat
<1>1. Live(s, n, kind, skip) \subseteq 1 .. n
  BY DEF Live
<1> QED BY <1>1, UpToFinite

WordRunes == Letters \cup {"_"}
PunctRunes(s) == ToSet(s) \ (WordRunes \cup Spaces)

(* The runs the loop has ended are paid for, and it counts those that go   *)
(* on.                                                                     *)
CountedTo(s, n) ==
  LET st == TokensTo(s)[n]
  IN /\ st \in Counts
     /\ st.word = Cardinality(Live(s, n, WordRunes, {}))
     /\ st.punct = Cardinality(Live(s, n, PunctRunes(s), Spaces))
     /\ st.tokens + WordCost[st.word] + PunctCost[st.punct]
          = CostTo(s, n, WordRunes, {}, WordCost)
            + CostTo(s, n, PunctRunes(s), Spaces, PunctCost)

LEMMA CountsNothing ==
  ASSUME NEW R, NEW s \in Seq(R)
  PROVE  CountedTo(s, 0)
<1>1. TokensTo(s)[0] = [tokens |-> 0, word |-> 0, punct |-> 0]
  BY TokensIsLoop DEF NoTokens
<1>2. \A kind, skip : Live(s, 0, kind, skip) = {} /\ StartsTo(s, 0, kind, skip) = {}
  BY DEF Live, StartsTo
<1>3. \A kind, skip : Cardinality(Live(s, 0, kind, skip)) = 0
  BY <1>2, FS_EmptySet
<1>4. ASSUME NEW kind, NEW skip, NEW cost PROVE CostTo(s, 0, kind, skip, cost) = 0
  <2> DEFINE f == [i \in StartsTo(s, 0, kind, skip) |-> cost[LengthTo(s, 0, i, kind, skip)]]
  <2>1. CostTo(s, 0, kind, skip, cost) = SumFunctionOnSet(f, {})
    BY <1>2, Zenon DEF CostTo
  <2> HIDE DEF f
  <2> QED BY <2>1, FS_EmptySet, SumZero
<1>5. TokensTo(s)[0] \in Counts
  BY <1>1 DEF Counts
<1>6. /\ Cardinality(Live(s, 0, WordRunes, {})) = 0
      /\ Cardinality(Live(s, 0, PunctRunes(s), Spaces)) = 0
      /\ CostTo(s, 0, WordRunes, {}, WordCost) = 0
      /\ CostTo(s, 0, PunctRunes(s), Spaces, PunctCost) = 0
  BY <1>3, <1>4
<1>7. /\ TokensTo(s)[0].tokens = 0 /\ TokensTo(s)[0].word = 0 /\ TokensTo(s)[0].punct = 0
  BY <1>1
<1>8. 0 + WordCost[0] + PunctCost[0] = 0
  BY CostTypes
<1> QED BY <1>5, <1>6, <1>7, <1>8 DEF CountedTo

LEMMA CountsOneMore ==
  ASSUME NEW R, NEW s \in Seq(R), NEW n \in 1 .. Len(s), CountedTo(s, n - 1)
  PROVE  CountedTo(s, n)
<1> DEFINE L == Len(s)
           c == s[n]
           P == PunctRunes(s)
           st == TokensTo(s)[n - 1]
           new == TokensTo(s)[n]
           w(m) == Cardinality(Live(s, m, WordRunes, {}))
           p(m) == Cardinality(Live(s, m, P, Spaces))
           cw(m) == CostTo(s, m, WordRunes, {}, WordCost)
           cp(m) == CostTo(s, m, P, Spaces, PunctCost)
<1>1. n \in Nat /\ n # 0 /\ n \in Int /\ n - 1 \in Int
  OBVIOUS
<1>2. /\ st \in Counts /\ new \in Counts /\ new = TokenStep(st, c)
  BY TokensIsLoop
<1>3. /\ st.word = w(n - 1) /\ st.punct = p(n - 1)
      /\ st.tokens + WordCost[st.word] + PunctCost[st.punct] = cw(n - 1) + cp(n - 1)
  BY DEF CountedTo
<1>4. /\ w(n - 1) \in Nat /\ w(n) \in Nat /\ p(n - 1) \in Nat /\ p(n) \in Nat
      /\ cw(n - 1) \in Nat /\ cw(n) \in Nat /\ cp(n - 1) \in Nat /\ cp(n) \in Nat
  BY <1>1, LiveType, CostToType, CostTypes
<1>5. /\ st.tokens \in Nat /\ st.word \in Nat /\ st.punct \in Nat
      /\ WordCost[st.word] \in Nat /\ PunctCost[st.punct] \in Nat
      /\ WordCost[0] = 0 /\ PunctCost[0] = 0
  BY <1>2, TokenParts, CostTypes
<1>6. /\ IsWordRune(c) <=> c \in WordRunes
      /\ c \in P <=> ~IsWordRune(c) /\ c \notin Spaces
      /\ IsWordRune(c) => c \notin Spaces
  <2>1. c \in ToSet(s)
    BY DEF ToSet
  <2>2. IsWordRune(c) <=> c \in WordRunes
    BY DEF IsWordRune, WordRunes
  <2> QED BY <2>1, <2>2, SpacesNoWord DEF PunctRunes
<1>7. ASSUME IsWordRune(c)
      PROVE  /\ w(n) = w(n - 1) + 1
             /\ cw(n) + WordCost[w(n - 1)] = cw(n - 1) + WordCost[w(n)]
  <2>1. OneGrows(s, n, WordRunes, {}, WordCost)
    BY <1>1, <1>6, <1>7, CostTypes, OneMoreRune
  <2> QED BY <2>1 DEF OneGrows
<1>8. ASSUME ~IsWordRune(c) PROVE w(n) = 0 /\ cw(n) = cw(n - 1)
  <2>1. RunsStay(s, n, WordRunes, {}, WordCost)
    BY <1>1, <1>6, <1>8, OtherRune
  <2>2. Live(s, n, WordRunes, {}) = {} /\ cw(n) = cw(n - 1)
    BY <2>1 DEF RunsStay
  <2> QED BY <2>2, FS_EmptySet
<1>9. ASSUME c \in P
      PROVE  /\ p(n) = p(n - 1) + 1
             /\ cp(n) + PunctCost[p(n - 1)] = cp(n - 1) + PunctCost[p(n)]
  <2>1. OneGrows(s, n, P, Spaces, PunctCost)
    BY <1>1, <1>9, CostTypes, OneMoreRune
  <2> QED BY <2>1 DEF OneGrows
<1>10. ASSUME c \notin P
       PROVE  /\ cp(n) = cp(n - 1)
              /\ p(n) = IF c \in Spaces THEN p(n - 1) ELSE 0
  <2>1. RunsStay(s, n, P, Spaces, PunctCost)
    BY <1>1, <1>10, OtherRune
  <2>2. /\ cp(n) = cp(n - 1)
        /\ c \notin Spaces => Live(s, n, P, Spaces) = {}
        /\ c \in Spaces => Live(s, n, P, Spaces) = Live(s, n - 1, P, Spaces)
    BY <2>1 DEF RunsStay
  <2> QED BY <2>2, FS_EmptySet
<1>11. WordCost[w(n)] \in Nat /\ PunctCost[p(n)] \in Nat
  BY <1>4, CostTypes
<1> HIDE DEF st, new, w, p, cw, cp, P, c, L
<1>12. /\ new.word = w(n) /\ new.punct = p(n)
       /\ new.tokens + WordCost[new.word] + PunctCost[new.punct] = cw(n) + cp(n)
  <2>1. CASE IsWordRune(c)
    <3>1. /\ new.tokens = st.tokens + PunctCost[st.punct]
          /\ new.word = st.word + 1 /\ new.punct = 0
      BY <1>2, <2>1, TokenStepIs
    <3>2. /\ w(n) = w(n - 1) + 1 /\ p(n) = 0 /\ cp(n) = cp(n - 1)
          /\ cw(n) + WordCost[w(n - 1)] = cw(n - 1) + WordCost[w(n)]
      BY <1>6, <1>7, <1>10, <2>1
    <3>3. new.word = w(n) /\ new.punct = p(n)
      BY <1>3, <3>1, <3>2
    <3>4. /\ new.tokens = st.tokens + PunctCost[p(n - 1)]
          /\ WordCost[w(n - 1)] \in Nat /\ PunctCost[p(n - 1)] \in Nat
          /\ st.tokens + WordCost[w(n - 1)] + PunctCost[p(n - 1)] = cw(n - 1) + cp(n - 1)
      BY <1>3, <1>5, <3>1
    <3>5. new.tokens + WordCost[w(n)] + 0 = cw(n) + cp(n)
      <4> DEFINE t == st.tokens
                 u == new.tokens
                 x == WordCost[w(n - 1)]
                 v == WordCost[w(n)]
                 y == PunctCost[p(n - 1)]
                 k == cw(n - 1)
                 e == cw(n)
                 d == cp(n - 1)
      <4>1. /\ t \in Nat /\ x \in Nat /\ v \in Nat /\ y \in Nat
            /\ k \in Nat /\ e \in Nat /\ d \in Nat
            /\ u = t + y /\ t + x + y = k + d /\ e + x = k + v
        BY <1>4, <1>5, <1>11, <3>2, <3>4
      <4> HIDE DEF t, u, x, v, y, k, e, d
      <4>2. u + v + 0 = e + d
        BY <4>1
      <4> QED BY <3>2, <4>2 DEF u, v, e, d
    <3> QED BY <1>5, <3>2, <3>3, <3>5
  <2>2. CASE ~IsWordRune(c) /\ c \in Spaces
    <3>1. /\ new.tokens = st.tokens + WordCost[st.word]
          /\ new.word = 0 /\ new.punct = st.punct
      BY <1>2, <2>2, TokenStepIs
    <3> QED BY <1>3, <1>4, <1>5, <1>6, <1>8, <1>10, <1>11, <2>2, <3>1
  <2>3. CASE ~IsWordRune(c) /\ c \notin Spaces
    <3>1. /\ new.tokens = st.tokens + WordCost[st.word]
          /\ new.word = 0 /\ new.punct = st.punct + 1
      BY <1>2, <2>3, TokenStepIs
    <3>2. /\ p(n) = p(n - 1) + 1 /\ w(n) = 0 /\ cw(n) = cw(n - 1)
          /\ cp(n) + PunctCost[p(n - 1)] = cp(n - 1) + PunctCost[p(n)]
      BY <1>6, <1>8, <1>9, <2>3
    <3>3. new.word = w(n) /\ new.punct = p(n)
      BY <1>3, <3>1, <3>2
    <3>4. /\ new.tokens = st.tokens + WordCost[w(n - 1)]
          /\ WordCost[w(n - 1)] \in Nat /\ PunctCost[p(n - 1)] \in Nat
          /\ st.tokens + WordCost[w(n - 1)] + PunctCost[p(n - 1)] = cw(n - 1) + cp(n - 1)
      BY <1>3, <1>5, <3>1
    <3>5. new.tokens + 0 + PunctCost[p(n)] = cw(n) + cp(n)
      <4> DEFINE t == st.tokens
                 u == new.tokens
                 x == PunctCost[p(n - 1)]
                 v == PunctCost[p(n)]
                 y == WordCost[w(n - 1)]
                 k == cp(n - 1)
                 e == cp(n)
                 d == cw(n - 1)
      <4>1. /\ t \in Nat /\ x \in Nat /\ v \in Nat /\ y \in Nat
            /\ k \in Nat /\ e \in Nat /\ d \in Nat
            /\ u = t + y /\ t + y + x = d + k /\ e + x = k + v
        BY <1>4, <1>5, <1>11, <3>2, <3>4
      <4> HIDE DEF t, u, x, v, y, k, e, d
      <4>2. u + 0 + v = d + e
        BY <4>1
      <4> QED BY <3>2, <4>2 DEF u, v, e, d
    <3> QED BY <1>5, <3>2, <3>3, <3>5
  <2> QED BY <2>1, <2>2, <2>3
<1> QED BY <1>2, <1>12 DEF CountedTo, new, w, p, cw, cp, P

LEMMA CostOfRunsIs ==
  ASSUME NEW R, NEW s \in Seq(R), NEW kind, NEW skip, NEW per, NEW cost,
         cost = [x \in Nat |-> CeilDiv(x, per)]
  PROVE  CostOfRuns(s, kind, skip, per) = CostTo(s, Len(s), kind, skip, cost)
<1> DEFINE starts == RunStarts(s, kind, skip)
<1>1. DOMAIN s = 1 .. Len(s) /\ Len(s) \in Int
  OBVIOUS
<1>2. StartsTo(s, Len(s), kind, skip) = starts
  BY <1>1 DEF StartsTo, RunStarts
<1>3. ASSUME NEW i
      PROVE  /\ RunLength(s, i, kind, skip) = LengthTo(s, Len(s), i, kind, skip)
             /\ RunLength(s, i, kind, skip) \in Nat
  <2> DEFINE run == {j \in 1 .. Len(s) : Together(s, i, j, kind, skip)}
  <2>1. RunLength(s, i, kind, skip) = Cardinality(run) /\ run \subseteq 1 .. Len(s)
    BY <1>1 DEF RunLength
  <2>2. LengthTo(s, Len(s), i, kind, skip) = Cardinality(run)
    BY DEF LengthTo
  <2> HIDE DEF run
  <2> QED BY <1>1, <2>1, <2>2, UpToFinite
<1>4. \A i : CeilDiv(RunLength(s, i, kind, skip), per)
             = cost[LengthTo(s, Len(s), i, kind, skip)]
  BY <1>3
<1>5. [i \in starts |-> CeilDiv(RunLength(s, i, kind, skip), per)]
      = [i \in StartsTo(s, Len(s), kind, skip) |-> cost[LengthTo(s, Len(s), i, kind, skip)]]
  <2> HIDE DEF starts
  <2> QED BY <1>2, <1>4
<1>6. CostOfRuns(s, kind, skip, per)
      = SumFunctionOnSet([i \in starts |-> CeilDiv(RunLength(s, i, kind, skip), per)], starts)
  BY DEF CostOfRuns
<1> QED BY <1>2, <1>5, <1>6, Zenon DEF CostTo

(* The estimate of every text, of any runes, is what its words and         *)
(* clusters cost (tokens.go, EstimateTokens).                              *)
THEOREM EveryRunIsCounted ==
  ASSUME NEW R, NEW s \in Seq(R)
  PROVE  EstimateCountsRuns(s)
<1> DEFINE L == Len(s)
           T == {n \in 0 .. L : CountedTo(s, n)}
           st == TokensTo(s)[L]
<1>1. L \in Nat /\ L \in 0 .. L
  OBVIOUS
<1>2. 0 \in T
  BY CountsNothing
<1>3. ASSUME NEW n \in 1 .. L, n - 1 \in T PROVE n \in T
  BY <1>3, CountsOneMore
<1>4. CountedTo(s, L)
  <2>1. 0 .. L \subseteq T
    <3> HIDE DEF T, L
    <3> QED BY <1>1, <1>2, <1>3, IntervalInduction
  <2> QED BY <1>1, <2>1
<1>5. st \in Counts
  BY <1>1, TokensIsLoop
<1>6. EstimateTokens(s) = st.tokens + WordCost[st.word] + PunctCost[st.punct]
  <2>1. EndWordRun(st) = [tokens |-> st.tokens + WordCost[st.word], word |-> 0,
                          punct |-> st.punct]
    BY <1>5, TokenParts
  <2>2. EndWordRun(st) \in Counts /\ EndWordRun(st).punct = st.punct
        /\ EndWordRun(st).tokens = st.tokens + WordCost[st.word]
    BY <1>5, <2>1, TokenParts DEF Counts
  <2>3. EndPunctRun(EndWordRun(st)).tokens
        = EndWordRun(st).tokens + PunctCost[EndWordRun(st).punct]
    BY <2>2, TokenParts
  <2> QED BY <2>2, <2>3 DEF EstimateTokens
<1>7. CostOfRuns(s, WordRunes, {}, WordCharsPerToken) = CostTo(s, L, WordRunes, {}, WordCost)
  BY CostOfRunsIs DEF WordCost
<1>8. CostOfRuns(s, PunctRunes(s), Spaces, PunctCharsPerToken)
      = CostTo(s, L, PunctRunes(s), Spaces, PunctCost)
  BY CostOfRunsIs DEF PunctCost
<1>9. EstimateTokens(s) = CostOfRuns(s, WordRunes, {}, WordCharsPerToken)
                          + CostOfRuns(s, PunctRunes(s), Spaces, PunctCharsPerToken)
  BY <1>4, <1>6, <1>7, <1>8 DEF CountedTo
<1> QED BY <1>9 DEF EstimateCountsRuns, WordRunes, PunctRunes

(* The estimate of every text a server can send, whatever the bound, is    *)
(* what its words and clusters cost (tokens.go, EstimateTokens).           *)
THEOREM TextsAreCounted == Spec => []TokensCounted
<1>1. Init => text \in Seq(TextRunes)
  BY DEF Init
<1>2. text \in Seq(TextRunes) /\ [Next]_vars => (text \in Seq(TextRunes))'
  BY DEF Next, vars, AddPiece, AddRune, AddTool, AddToFile, AddFlag
<1>3. text \in Seq(TextRunes) => TokensCounted
  BY EveryRunIsCounted DEF TokensCounted
<1> QED BY <1>1, <1>2, <1>3, PTL DEF Spec

-----------------------------------------------------------------------------
(* The terms of a text.                                                    *)

(* The letters of two bytes.                                               *)
Wide == {"e2", "E2"}

(* What the loop of Tokenize keeps.                                        *)
TermStates(R) == [dst : Seq(Seq(R \cup {"a", "e2"})), seg : Seq(R), prevUpper : BOOLEAN]

LEMMA LowerType ==
  ASSUME NEW R, NEW seg \in Seq(R)
  PROVE  /\ Lower(seg) \in Seq(R \cup {"a", "e2"}) /\ Len(Lower(seg)) = Len(seg)
         /\ \A i \in DOMAIN seg : Lower(seg)[i] \in Wide <=> seg[i] \in Wide
<1>1. DOMAIN seg = 1 .. Len(seg) /\ Len(seg) \in Nat
  OBVIOUS
<1>2. \A i \in 1 .. Len(seg) : Lower(seg)[i] \in R \cup {"a", "e2"}
  BY <1>1 DEF Lower
<1>3. Lower(seg) = [i \in 1 .. Len(seg) |-> Lower(seg)[i]]
  BY <1>1 DEF Lower
<1>4. \A i \in DOMAIN seg : Lower(seg)[i] \in Wide <=> seg[i] \in Wide
  BY DEF Lower, Wide
<1> QED BY <1>1, <1>2, <1>3, <1>4

(* A term is as many bytes as its segment.                                 *)
LEMMA LowerBytes ==
  ASSUME NEW R, NEW seg \in Seq(R)
  PROVE  Bytes(Lower(seg)) = Bytes(seg)
<1>1. DOMAIN Lower(seg) = DOMAIN seg
  BY DEF Lower
<1>2. {i \in DOMAIN Lower(seg) : Lower(seg)[i] \in Wide} = {i \in DOMAIN seg : seg[i] \in Wide}
  BY <1>1, LowerType
<1> QED BY <1>2, LowerType DEF Bytes, Wide

LEMMA EmitTermType ==
  ASSUME NEW R, NEW dst \in Seq(Seq(R \cup {"a", "e2"})), NEW seg \in Seq(R)
  PROVE  EmitTerm(dst, seg) \in Seq(Seq(R \cup {"a", "e2"}))
<1>1. Lower(seg) \in Seq(R \cup {"a", "e2"})
  BY LowerType
<1>2. Append(dst, Lower(seg)) \in Seq(Seq(R \cup {"a", "e2"}))
  BY <1>1
<1>3. EmitTerm(dst, seg) = dst \/ EmitTerm(dst, seg) = Append(dst, Lower(seg))
  BY DEF EmitTerm
<1> QED BY <1>2, <1>3

(* The parts of a step of the loop.                                        *)
TermPartsAre(st, c) ==
  /\ EndSegment(st) = [dst |-> EmitTerm(st.dst, st.seg), seg |-> <<>>,
                       prevUpper |-> st.prevUpper]
  /\ StartSegment(st, c) = [dst |-> st.dst, seg |-> <<c>>, prevUpper |-> IsUpper(c)]
  /\ GrowSegment(st, c) = [dst |-> st.dst, seg |-> Append(st.seg, c), prevUpper |-> IsUpper(c)]

LEMMA TermParts ==
  ASSUME NEW R, NEW st \in TermStates(R), NEW c \in R
  PROVE  /\ TermPartsAre(st, c)
         /\ EndSegment(st) \in TermStates(R) /\ StartSegment(st, c) \in TermStates(R)
         /\ GrowSegment(st, c) \in TermStates(R)
<1> DEFINE D == Seq(Seq(R \cup {"a", "e2"}))
           S == Seq(R)
           e == EmitTerm(st.dst, st.seg)
           u == IsUpper(c)
           g == Append(st.seg, c)
           one == <<c>>
<1>1. /\ st = [dst |-> st.dst, seg |-> st.seg, prevUpper |-> st.prevUpper]
      /\ st.dst \in D /\ st.seg \in S /\ st.prevUpper \in BOOLEAN
  BY DEF TermStates
<1>2. e \in D
  BY <1>1, EmitTermType
<1>3. u \in BOOLEAN
  BY DEF IsUpper
<1>4. g \in S /\ one \in S /\ <<>> \in S
  BY <1>1
<1>5. /\ EndSegment(st) = [st EXCEPT !.dst = e, !.seg = <<>>]
      /\ StartSegment(st, c) = [st EXCEPT !.seg = one, !.prevUpper = u]
      /\ GrowSegment(st, c) = [st EXCEPT !.seg = g, !.prevUpper = u]
  BY DEF EndSegment, StartSegment, GrowSegment
<1> HIDE DEF D, S, e, u, g, one
<1>6. EndSegment(st) = [dst |-> e, seg |-> <<>>, prevUpper |-> st.prevUpper]
  BY <1>1, <1>5
<1>7. StartSegment(st, c) = [dst |-> st.dst, seg |-> one, prevUpper |-> u]
  BY <1>1, <1>5
<1>8. GrowSegment(st, c) = [dst |-> st.dst, seg |-> g, prevUpper |-> u]
  BY <1>1, <1>5
<1>9. /\ [dst |-> e, seg |-> <<>>, prevUpper |-> st.prevUpper] \in
           [dst : D, seg : S, prevUpper : BOOLEAN]
      /\ [dst |-> st.dst, seg |-> one, prevUpper |-> u] \in
           [dst : D, seg : S, prevUpper : BOOLEAN]
      /\ [dst |-> st.dst, seg |-> g, prevUpper |-> u] \in
           [dst : D, seg : S, prevUpper : BOOLEAN]
  BY <1>1, <1>2, <1>3, <1>4
<1> QED BY <1>6, <1>7, <1>8, <1>9, Zenon DEF TermPartsAre, TermStates, D, S, e, u, g, one

LEMMA TermStepType ==
  ASSUME NEW R, NEW st \in TermStates(R), NEW c \in R
  PROVE  TermStep(st, c) \in TermStates(R)
<1>1. EndSegment(st) \in TermStates(R)
  BY TermParts
<1>2. /\ StartSegment(st, c) \in TermStates(R) /\ GrowSegment(st, c) \in TermStates(R)
      /\ StartSegment(EndSegment(st), c) \in TermStates(R)
  BY <1>1, TermParts
<1> QED BY <1>1, <1>2 DEF TermStep

LEMMA TermsIsLoop ==
  ASSUME NEW R, NEW s \in Seq(R)
  PROVE  /\ \A n \in 0 .. Len(s) : TermsTo(s)[n] \in TermStates(R)
         /\ TermsTo(s)[0] = NoTerms
         /\ \A n \in 1 .. Len(s) : TermsTo(s)[n] = TermStep(TermsTo(s)[n - 1], s[n])
<1> DEFINE L == Len(s)
           Q == TermStates(R)
           step == [p \in Q \X (1 .. L) |-> TermStep(p[1], s[p[2]])]
           solves(g) == g = [n \in 0 .. L |->
                               IF n = 0 THEN NoTerms ELSE TermStep(g[n - 1], s[n])]
           after == TermsTo(s)
<1>1. L \in Nat
  OBVIOUS
<1>2. NoTerms \in Q
  BY DEF NoTerms, TermStates
<1>3. \A st \in Q, n \in 1 .. L : TermStep(st, s[n]) \in Q
  BY TermStepType
<1>4. after = CHOOSE g : solves(g)
  BY DEF TermsTo
<1> HIDE DEF L, Q
<1>5. \A st \in Q, n \in 1 .. L : step[<<st, n>>] = TermStep(st, s[n])
  OBVIOUS
<1>6. \A st \in Q, n \in 1 .. L : step[<<st, n>>] \in Q
  BY <1>3, <1>5
<1> HIDE DEF step
<1>7. PICK g : LoopRun(g, L, Q, NoTerms, step)
  BY <1>1, <1>2, <1>6, LoopDefined
<1>8. ASSUME NEW n \in 0 .. L
      PROVE  g[n] = IF n = 0 THEN NoTerms ELSE TermStep(g[n - 1], s[n])
  <2>1. CASE n = 0
    BY <2>1, <1>7 DEF LoopRun
  <2>2. CASE n # 0
    <3>1. n \in 1 .. L /\ n - 1 \in 0 .. L
      BY <1>1, <2>2
    <3> QED BY <1>5, <1>7, <2>2, <3>1 DEF LoopRun
  <2> QED BY <2>1, <2>2
<1>9. solves(g)
  BY <1>7, <1>8 DEF LoopRun
<1>10. solves(after)
  <2> HIDE DEF solves, after
  <2> QED BY <1>4, <1>9
<1> HIDE DEF after
<1> DEFINE T == {n \in 0 .. L : after[n] \in Q}
<1>11. after[0] = NoTerms /\ 0 \in T
  BY <1>1, <1>2, <1>10
<1>12. \A n \in 1 .. L : after[n] = TermStep(after[n - 1], s[n])
  BY <1>1, <1>10
<1>13. \A n \in 1 .. L : n - 1 \in T => n \in T
  BY <1>3, <1>12
<1>14. \A n \in 0 .. L : after[n] \in Q
  <2>1. 0 .. L \subseteq T
    <3> HIDE DEF T
    <3> QED BY <1>1, <1>11, <1>13, IntervalInduction
  <2> QED BY <2>1
<1> QED BY <1>11, <1>12, <1>14 DEF L, Q, after

(* The segments that are terms, and those of them that end before b.       *)
Kept(s) == {seg \in Segments(s) : Bytes(Term(s, seg)) >= 3 /\ Term(s, seg) \notin Stopwords}

Before(s, b) == {seg \in Kept(s) : seg[2] < b}

Place(K, seg) == Cardinality({other \in K : other[1] <= seg[1]})

(* dst is the terms of the segments of K, left to right.                   *)
Listed(s, dst, K) ==
  /\ Len(dst) = Cardinality(K)
  /\ \A seg \in K : dst[Place(K, seg)] = Term(s, seg)

LEMMA SegmentIs ==
  ASSUME NEW R, NEW s \in Seq(R), NEW seg \in Segments(s)
  PROVE  /\ seg = <<seg[1], seg[2]>>
         /\ seg[1] \in 1 .. Len(s) /\ seg[2] \in 1 .. Len(s) /\ seg[1] <= seg[2]
         /\ SegStarts(s, seg[1]) /\ SegEnds(s, seg[2])
         /\ \A k \in seg[1] .. seg[2] - 1 : ~SegEnds(s, k)
         /\ IsTermRune(s[seg[2]])
<1>1. /\ seg = <<seg[1], seg[2]>>
      /\ seg[1] \in 1 .. Len(s) /\ seg[2] \in 1 .. Len(s) /\ seg[1] <= seg[2]
      /\ SegStarts(s, seg[1]) /\ SegEnds(s, seg[2])
      /\ \A k \in seg[1] .. seg[2] - 1 : ~SegEnds(s, k)
  BY DEF Segments
<1>2. IsTermRune(s[seg[2]])
  <2>1. CASE seg[1] = seg[2]
    BY <1>1, <2>1 DEF SegStarts
  <2>2. CASE seg[1] # seg[2]
    <3>1. seg[2] - 1 \in seg[1] .. seg[2] - 1 /\ seg[2] - 1 + 1 = seg[2]
      BY <1>1, <2>2
    <3>2. ~SegEnds(s, seg[2] - 1)
      BY <1>1, <3>1
    <3> QED BY <3>1, <3>2 DEF SegEnds
  <2> QED BY <2>1, <2>2
<1> QED BY <1>1, <1>2

LEMMA BeforeFinite ==
  ASSUME NEW R, NEW s \in Seq(R), NEW b
  PROVE  IsFiniteSet(Before(s, b))
<1> DEFINE I == 1 .. Len(s)
<1>1. IsFiniteSet(I)
  <2>1. 1 \in Int /\ Len(s) \in Int
    OBVIOUS
  <2> QED BY <2>1, FS_Interval
<1>2. Before(s, b) \subseteq I \X I
  <2> SUFFICES ASSUME NEW seg \in Before(s, b) PROVE seg \in I \X I
    OBVIOUS
  <2>1. seg \in Segments(s)
    BY DEF Before, Kept
  <2>2. seg = <<seg[1], seg[2]>> /\ seg[1] \in I /\ seg[2] \in I
    BY <2>1, SegmentIs
  <2> QED BY <2>2
<1> HIDE DEF I
<1>3. IsFiniteSet(I \X I)
  BY <1>1, FS_Product
<1> QED BY <1>2, <1>3, FS_Subset

(* A term found to the right of all others comes last.                     *)
LEMMA ListedAppend ==
  ASSUME NEW s, NEW D, NEW dst \in Seq(D), NEW K, IsFiniteSet(K), NEW x,
         x[1] \in Int, \A o \in K : o[1] \in Int /\ o[1] < x[1],
         Term(s, x) \in D, Listed(s, dst, K)
  PROVE  Listed(s, Append(dst, Term(s, x)), K \cup {x})
<1> DEFINE all == K \cup {x}
           new == Append(dst, Term(s, x))
           upto(M, seg) == {o \in M : o[1] <= seg[1]}
<1>1. x \notin K
  OBVIOUS
<1>2. Cardinality(all) = Cardinality(K) + 1 /\ Cardinality(K) \in Nat
  BY <1>1, FS_AddElement, FS_CardinalityType
<1>3. Len(new) = Cardinality(all)
  BY <1>2 DEF Listed
<1>4. \A i \in 1 .. Len(dst) : new[i] = dst[i]
  OBVIOUS
<1>5. new[Len(dst) + 1] = Term(s, x)
  OBVIOUS
<1>6. \A M, seg : Place(M, seg) = Cardinality(upto(M, seg))
  BY DEF Place
<1> HIDE DEF new
<1>7. ASSUME NEW seg \in all PROVE new[Place(all, seg)] = Term(s, seg)
  <2>1. CASE seg = x
    <3>1. upto(all, x) = all
      OBVIOUS
    <3>2. Place(all, x) = Len(dst) + 1
      BY <1>2, <1>6, <3>1 DEF Listed
    <3> QED BY <1>5, <2>1, <3>2
  <2>2. CASE seg # x
    <3>1. seg \in K
      BY <2>2
    <3>2. seg[1] \in Int /\ ~(x[1] <= seg[1])
      BY <3>1
    <3>3. upto(all, seg) = upto(K, seg)
      BY <3>2
    <3>4. Place(all, seg) = Place(K, seg)
      BY <1>6, <3>3
    <3>5. Place(K, seg) \in 1 .. Len(dst)
      <4> DEFINE U == upto(K, seg)
      <4>1. seg \in U /\ U \subseteq K
        BY <3>1, <3>2
      <4> HIDE DEF U
      <4>2. IsFiniteSet(U) /\ Cardinality(U) \in Nat /\ Cardinality(U) <= Cardinality(K)
        BY <4>1, FS_Subset, FS_CardinalityType
      <4>3. Cardinality(U) # 0
        BY <4>1, <4>2, FS_EmptySet
      <4>4. Place(K, seg) = Cardinality(U)
        BY <1>6 DEF U
      <4> QED BY <1>2, <4>2, <4>3, <4>4 DEF Listed
    <3>6. dst[Place(K, seg)] = Term(s, seg)
      BY <3>1 DEF Listed
    <3> QED BY <1>4, <3>4, <3>5, <3>6
  <2> QED BY <2>1, <2>2
<1> QED BY <1>3, <1>7 DEF Listed, new

(* A segment is being read from a on, n being its last rune so far.        *)
OpenFrom(s, a, n) ==
  /\ a \in 1 .. n /\ SegStarts(s, a) /\ IsTermRune(s[n])
  /\ \A k \in a .. n - 1 : ~SegEnds(s, k) /\ IsTermRune(s[k])

(* Where a segment starts another cannot go on.                            *)
LEMMA EndsBeforeStart ==
  ASSUME NEW s, NEW a \in Int, SegStarts(s, a)
  PROVE  SegEnds(s, a - 1)
<1>1. a - 1 + 1 = a
  OBVIOUS
<1> QED BY <1>1 DEF SegEnds

(* A segment that ends where the one being read does, or inside it, is it. *)
LEMMA OnlySegment ==
  ASSUME NEW R, NEW s \in Seq(R), NEW n \in 1 .. Len(s), NEW a, OpenFrom(s, a, n),
         NEW seg \in Segments(s), seg[2] \in a .. n
  PROVE  seg = <<a, n>>
<1>1. /\ seg = <<seg[1], seg[2]>>
      /\ seg[1] \in 1 .. Len(s) /\ seg[2] \in 1 .. Len(s) /\ seg[1] <= seg[2]
      /\ SegStarts(s, seg[1]) /\ SegEnds(s, seg[2])
      /\ \A k \in seg[1] .. seg[2] - 1 : ~SegEnds(s, k)
  BY SegmentIs
<1>2. a \in 1 .. n /\ SegStarts(s, a) /\ \A k \in a .. n - 1 : ~SegEnds(s, k)
  BY DEF OpenFrom
<1> DEFINE i == seg[1]
           j == seg[2]
<1>3. i \in Int /\ j \in Int /\ a \in Int /\ n \in Int
  BY <1>1, <1>2
<1>4. SegEnds(s, i - 1) /\ SegEnds(s, a - 1)
  BY <1>1, <1>2, <1>3, EndsBeforeStart
<1> HIDE DEF i, j
<1>5. j = n
  <2>1. j \in a .. n - 1 => FALSE
    BY <1>1, <1>2 DEF j
  <2> QED BY <1>3, <2>1 DEF j
<1>6. ~(i < a)
  <2> SUFFICES ASSUME i < a PROVE FALSE
    OBVIOUS
  <2>1. a - 1 \in i .. j - 1
    BY <1>2, <1>3, <1>5
  <2> QED BY <1>1, <1>4, <2>1 DEF i, j
<1>7. ~(a < i)
  <2> SUFFICES ASSUME a < i PROVE FALSE
    OBVIOUS
  <2>0. i <= n
    BY <1>1, <1>5 DEF i, j
  <2>1. i - 1 \in a .. n - 1
    BY <1>3, <2>0
  <2> QED BY <1>2, <1>4, <2>1
<1>8. i = a
  BY <1>3, <1>6, <1>7
<1> QED BY <1>1, <1>5, <1>8 DEF i, j

(* When the segment being read ends, its term is the next one listed.      *)
LEMMA SegmentCloses ==
  ASSUME NEW R, NEW s \in Seq(R), NEW n \in 1 .. Len(s), NEW a, OpenFrom(s, a, n),
         SegEnds(s, n), NEW dst \in Seq(Seq(R \cup {"a", "e2"})), Listed(s, dst, Before(s, a))
  PROVE  Listed(s, EmitTerm(dst, SubSeq(s, a, n)), Before(s, n + 1))
<1> DEFINE x == <<a, n>>
           K == Before(s, a)
           new == Before(s, n + 1)
           seg == SubSeq(s, a, n)
           D == Seq(R \cup {"a", "e2"})
<1>1. a \in 1 .. n /\ n \in 1 .. Len(s) /\ a \in 1 .. Len(s) /\ a \in Int /\ n \in Int /\ a <= n
  BY DEF OpenFrom
<1>2. x \in Segments(s)
  BY <1>1 DEF OpenFrom, Segments
<1>3. seg \in Seq(R)
  BY <1>1
<1>4. Term(s, x) = Lower(seg) /\ Term(s, x) \in D /\ Bytes(Term(s, x)) = Bytes(seg)
  BY <1>3, LowerType, LowerBytes DEF Term
<1>5. \A o \in new : o \in K \/ o = x
  <2> SUFFICES ASSUME NEW o \in new, o \notin K PROVE o = x
    OBVIOUS
  <2>1. o \in Segments(s) /\ o \in Kept(s) /\ o[2] < n + 1 /\ ~(o[2] < a)
    BY DEF Before, Kept
  <2>2. o[2] \in 1 .. Len(s)
    BY <2>1, SegmentIs
  <2>3. o[2] \in a .. n
    BY <1>1, <2>1, <2>2
  <2> QED BY <2>1, <2>3, OnlySegment
<1>6. K \subseteq new
  <2> SUFFICES ASSUME NEW o \in K PROVE o \in new
    OBVIOUS
  <2>1. o \in Segments(s) /\ o \in Kept(s) /\ o[2] < a
    BY DEF Before, Kept
  <2>2. o[2] \in 1 .. Len(s)
    BY <2>1, SegmentIs
  <2> QED BY <1>1, <2>1, <2>2 DEF Before
<1>7. x \in new <=> x \in Kept(s)
  <2>1. x[2] = n /\ n < n + 1
    BY <1>1
  <2> QED BY <2>1 DEF Before
<1>8. x \in Kept(s) <=> Bytes(seg) >= 3 /\ Lower(seg) \notin Stopwords
  BY <1>2, <1>4 DEF Kept
<1>9. Bytes(seg) \in Int
  <2> DEFINE wide == {i \in DOMAIN seg : seg[i] \in Wide}
             L == Len(seg)
  <2>1. wide \subseteq 1 .. L /\ L \in Int
    BY <1>3
  <2>2. Bytes(seg) = L + Cardinality(wide)
    BY DEF Bytes, Wide
  <2> HIDE DEF wide, L
  <2>3. Cardinality(wide) \in Nat
    BY <2>1, UpToFinite
  <2> QED BY <2>1, <2>2, <2>3
<1>10. x[1] = a /\ \A o \in K : o[1] \in Int /\ o[1] < a
  <2> SUFFICES ASSUME NEW o \in K PROVE o[1] \in Int /\ o[1] < a
    OBVIOUS
  <2>1. o \in Segments(s) /\ o[2] < a
    BY DEF Before, Kept
  <2>2. o[1] \in 1 .. Len(s) /\ o[2] \in 1 .. Len(s) /\ o[1] <= o[2]
    BY <2>1, SegmentIs
  <2> QED BY <1>1, <2>1, <2>2
<1>11. IsFiniteSet(K)
  BY BeforeFinite
<1> HIDE DEF x, K, new, seg, D
<1>12. CASE x \in Kept(s)
  <2>1. new = K \cup {x}
    BY <1>5, <1>6, <1>7, <1>12
  <2>2. EmitTerm(dst, seg) = Append(dst, Term(s, x))
    <3>1. ~(Bytes(seg) < 3) /\ Lower(seg) \notin Stopwords
      BY <1>8, <1>9, <1>12
    <3> QED BY <1>4, <3>1 DEF EmitTerm
  <2>3. dst \in Seq(D) /\ Listed(s, dst, K) /\ x[1] \in Int /\ \A o \in K : o[1] < x[1]
    BY <1>1, <1>10 DEF D, K
  <2>4. Listed(s, Append(dst, Term(s, x)), K \cup {x})
    BY <1>4, <1>10, <1>11, <2>3, ListedAppend
  <2> QED BY <2>1, <2>2, <2>4 DEF new, seg
<1>13. CASE x \notin Kept(s)
  <2>1. new = K
    BY <1>5, <1>6, <1>7, <1>13
  <2>2. EmitTerm(dst, seg) = dst
    <3>1. Bytes(seg) < 3 \/ Lower(seg) \in Stopwords
      BY <1>8, <1>9, <1>13
    <3> QED BY <3>1 DEF EmitTerm
  <2> QED BY <2>1, <2>2 DEF new, seg, K
<1> QED BY <1>12, <1>13

InSegment(s, n) == n # 0 /\ IsTermRune(s[n])

(* What the loop knows after n runes: the terms of the segments that have  *)
(* ended, and the segment being read, if any.                              *)
TermsKnown(s, n) ==
  LET st == TermsTo(s)[n]
  IN IF InSegment(s, n)
     THEN \E a \in 1 .. n :
            /\ OpenFrom(s, a, n) /\ st.seg = SubSeq(s, a, n)
            /\ st.prevUpper <=> IsUpper(s[n])
            /\ Listed(s, st.dst, Before(s, a))
     ELSE st.seg = <<>> /\ Listed(s, st.dst, Before(s, n + 1))

LEMMA NothingKnown ==
  ASSUME NEW R, NEW s \in Seq(R)
  PROVE  TermsKnown(s, 0)
<1>1. TermsTo(s)[0].seg = <<>> /\ TermsTo(s)[0].dst = <<>>
  BY TermsIsLoop DEF NoTerms
<1>2. Before(s, 0 + 1) = {}
  <2> SUFFICES ASSUME NEW seg \in Before(s, 0 + 1) PROVE FALSE
    OBVIOUS
  <2>1. seg \in Segments(s) /\ seg[2] < 1
    BY DEF Before, Kept
  <2> QED BY <2>1, SegmentIs
<1>3. Listed(s, <<>>, {})
  BY FS_EmptySet DEF Listed
<1> QED BY <1>1, <1>2, <1>3 DEF TermsKnown, InSegment

LEMMA NoBytes == Bytes(<<>>) = 0
<1> DEFINE e == <<>>
           wide == {i \in DOMAIN e : e[i] \in Wide}
<1>1. wide = {} /\ Len(e) = 0
  OBVIOUS
<1>2. Bytes(<<>>) = Len(e) + Cardinality(wide)
  BY DEF Bytes, Wide
<1> HIDE DEF wide, e
<1> QED BY <1>1, <1>2, FS_EmptySet

LEMMA EmptyEmits == \A dst : EmitTerm(dst, <<>>) = dst
BY NoBytes DEF EmitTerm

(* No segment ends at a rune that is no letter.                            *)
LEMMA NoneEndsHere ==
  ASSUME NEW R, NEW s \in Seq(R), NEW n \in 1 .. Len(s), ~IsTermRune(s[n])
  PROVE  Before(s, n + 1) = Before(s, n)
<1>1. ASSUME NEW seg \in Kept(s) PROVE seg[2] < n + 1 <=> seg[2] < n
  <2>1. seg \in Segments(s)
    BY DEF Kept
  <2>2. seg[2] \in 1 .. Len(s) /\ IsTermRune(s[seg[2]])
    BY <2>1, SegmentIs
  <2> QED BY <2>2
<1> QED BY <1>1 DEF Before

(* When a segment ends, if one was being read, what it was is listed.      *)
LEMMA EndingLists ==
  ASSUME NEW R, NEW s \in Seq(R), NEW n \in 0 .. Len(s), TermsKnown(s, n),
         InSegment(s, n) => SegEnds(s, n)
  PROVE  LET st == TermsTo(s)[n]
         IN Listed(s, EmitTerm(st.dst, st.seg), Before(s, n + 1))
<1> DEFINE st == TermsTo(s)[n]
<1>1. st.dst \in Seq(Seq(R \cup {"a", "e2"}))
  BY TermsIsLoop DEF TermStates
<1>2. CASE InSegment(s, n)
  <2>1. PICK a \in 1 .. n :
          /\ OpenFrom(s, a, n) /\ st.seg = SubSeq(s, a, n)
          /\ Listed(s, st.dst, Before(s, a))
    BY <1>2 DEF TermsKnown
  <2>2. n \in 1 .. Len(s) /\ SegEnds(s, n)
    BY <1>2 DEF InSegment
  <2>3. Listed(s, EmitTerm(st.dst, SubSeq(s, a, n)), Before(s, n + 1))
    BY <1>1, <2>1, <2>2, SegmentCloses
  <2> QED BY <2>1, <2>3
<1>3. CASE ~InSegment(s, n)
  <2>1. st.seg = <<>> /\ Listed(s, st.dst, Before(s, n + 1))
    BY <1>3 DEF TermsKnown
  <2> QED BY <2>1, EmptyEmits
<1> QED BY <1>2, <1>3

LEMMA KnowsOneMore ==
  ASSUME NEW R, NEW s \in Seq(R), NEW n \in 1 .. Len(s), TermsKnown(s, n - 1)
  PROVE  TermsKnown(s, n)
<1> DEFINE c == s[n]
           st == TermsTo(s)[n - 1]
           new == TermsTo(s)[n]
           end == EndSegment(st)
           emitted == EmitTerm(st.dst, st.seg)
<1>1. /\ n \in Nat /\ n # 0 /\ n - 1 \in 0 .. Len(s) /\ n - 1 + 1 = n /\ n \in 1 .. n
      /\ n \in Int /\ c \in R
  OBVIOUS
<1>2. st \in TermStates(R) /\ new = TermStep(st, c)
  BY <1>1, TermsIsLoop
<1>3. end \in TermStates(R) /\ end.dst = emitted /\ end.seg = <<>>
  <2>1. end \in TermStates(R) /\ TermPartsAre(st, c)
    BY <1>1, <1>2, TermParts
  <2>2. end = [dst |-> emitted, seg |-> <<>>, prevUpper |-> st.prevUpper]
    BY <2>1, Zenon DEF TermPartsAre
  <2> HIDE DEF end, emitted
  <2>3. end.dst = emitted /\ end.seg = <<>>
    BY <2>2
  <2> QED BY <2>1, <2>3 DEF end
<1>4. \A x \in TermStates(R) :
        /\ StartSegment(x, c).dst = x.dst /\ StartSegment(x, c).seg = <<c>>
        /\ StartSegment(x, c).prevUpper = IsUpper(c)
        /\ GrowSegment(x, c).dst = x.dst /\ GrowSegment(x, c).seg = Append(x.seg, c)
        /\ GrowSegment(x, c).prevUpper = IsUpper(c)
  <2> SUFFICES ASSUME NEW x \in TermStates(R)
               PROVE  /\ StartSegment(x, c).dst = x.dst /\ StartSegment(x, c).seg = <<c>>
                      /\ StartSegment(x, c).prevUpper = IsUpper(c)
                      /\ GrowSegment(x, c).dst = x.dst
                      /\ GrowSegment(x, c).seg = Append(x.seg, c)
                      /\ GrowSegment(x, c).prevUpper = IsUpper(c)
    OBVIOUS
  <2>1. /\ StartSegment(x, c) = [dst |-> x.dst, seg |-> <<c>>, prevUpper |-> IsUpper(c)]
        /\ GrowSegment(x, c) = [dst |-> x.dst, seg |-> Append(x.seg, c),
                                prevUpper |-> IsUpper(c)]
    <3>1. TermPartsAre(x, c)
      BY <1>1, TermParts
    <3> QED BY <3>1, Zenon DEF TermPartsAre
  <2> DEFINE u == IsUpper(c)
             one == <<c>>
             g == Append(x.seg, c)
             d == x.dst
             started == StartSegment(x, c)
             grown == GrowSegment(x, c)
  <2>2. /\ started = [dst |-> d, seg |-> one, prevUpper |-> u]
        /\ grown = [dst |-> d, seg |-> g, prevUpper |-> u]
    BY <2>1
  <2> HIDE DEF u, one, g, d, started, grown
  <2>3. /\ started.dst = d /\ started.seg = one /\ started.prevUpper = u
        /\ grown.dst = d /\ grown.seg = g /\ grown.prevUpper = u
    BY <2>2
  <2> QED BY <2>3 DEF u, one, g, d, started, grown
<1>5. (InSegment(s, n - 1) => SegEnds(s, n - 1)) => Listed(s, emitted, Before(s, n))
  BY <1>1, EndingLists
<1>6. ~InSegment(s, n - 1) => st.seg = <<>> /\ Listed(s, st.dst, Before(s, n))
  BY <1>1 DEF TermsKnown
<1>7. InSegment(s, n) <=> IsTermRune(c)
  BY <1>1 DEF InSegment
<1>8. InSegment(s, n - 1) <=> n # 1 /\ IsTermRune(s[n - 1])
  BY <1>1 DEF InSegment
<1>9. CASE ~IsTermRune(c)
  <2>1. new = end
    BY <1>2, <1>9 DEF TermStep
  <2>2. SegEnds(s, n - 1)
    BY <1>1, <1>9 DEF SegEnds
  <2>3. Listed(s, emitted, Before(s, n + 1))
    BY <1>5, <1>9, <2>2, NoneEndsHere
  <2> QED BY <1>3, <1>7, <1>9, <2>1, <2>3 DEF TermsKnown
<1>10. ASSUME IsTermRune(c), SegStarts(s, n), new.seg = <<c>>,
              new.prevUpper = IsUpper(c), Listed(s, new.dst, Before(s, n))
       PROVE  TermsKnown(s, n)
  <2>1. OpenFrom(s, n, n)
    <3>1. n .. n - 1 = {}
      BY <1>1
    <3> QED BY <1>1, <1>10, <3>1 DEF OpenFrom
  <2>2. SubSeq(s, n, n) = <<c>>
    <3>1. SubSeq(s, n, n) = SubSeq(s, n, n - 1) \o <<s[n]>>
      BY <1>1, SubSeqRecursiveSecond
    <3>2. SubSeq(s, n, n - 1) = <<>>
      BY <1>1, SubSeqEmpty
    <3>3. <<>> \o <<s[n]>> = <<s[n]>>
      OBVIOUS
    <3> QED BY <3>1, <3>2, <3>3
  <2> QED BY <1>1, <1>7, <1>10, <2>1, <2>2 DEF TermsKnown
<1>11. CASE IsTermRune(c) /\ ~InSegment(s, n - 1)
  <2>1. new = StartSegment(st, c)
    BY <1>2, <1>6, <1>11 DEF TermStep
  <2>2. SegStarts(s, n)
    BY <1>8, <1>11 DEF SegStarts
  <2>3. new.seg = <<c>> /\ new.prevUpper = IsUpper(c) /\ new.dst = st.dst
    BY <1>2, <1>4, <2>1
  <2> QED BY <1>6, <1>10, <1>11, <2>2, <2>3
<1>12. CASE IsTermRune(c) /\ InSegment(s, n - 1)
  <2>1. PICK a \in 1 .. n - 1 :
          /\ OpenFrom(s, a, n - 1) /\ st.seg = SubSeq(s, a, n - 1)
          /\ st.prevUpper <=> IsUpper(s[n - 1])
          /\ Listed(s, st.dst, Before(s, a))
    BY <1>12 DEF TermsKnown
  <2>2. n # 1 /\ IsTermRune(s[n - 1]) /\ a \in 1 .. Len(s) /\ a \in 1 .. n
    BY <1>8, <1>12, <2>1
  <2>3. st.seg # <<>>
    <3>1. Len(SubSeq(s, a, n - 1)) = n - 1 - a + 1
      BY <1>1, <2>1, <2>2
    <3>2. Len(st.seg) # 0
      BY <1>1, <2>1, <3>1
    <3> HIDE DEF st
    <3> QED BY <3>2
  <2>4. SegStarts(s, n) <=> IsUpper(c) /\ ~st.prevUpper
    BY <1>12, <2>1, <2>2 DEF SegStarts
  <2>5. CASE IsUpper(c) /\ ~st.prevUpper
    <3>1. new = StartSegment(end, c)
      BY <1>2, <1>12, <2>3, <2>5 DEF TermStep
    <3>2. new.seg = <<c>> /\ new.prevUpper = IsUpper(c) /\ new.dst = emitted
      BY <1>3, <1>4, <3>1
    <3>3. SegEnds(s, n - 1)
      BY <1>1, <2>4, <2>5, EndsBeforeStart
    <3> QED BY <1>5, <1>10, <1>12, <2>4, <2>5, <3>2, <3>3
  <2>6. CASE ~(IsUpper(c) /\ ~st.prevUpper)
    <3>1. new = GrowSegment(st, c)
      BY <1>2, <1>12, <2>3, <2>6 DEF TermStep
    <3>2. new.seg = Append(st.seg, c) /\ new.prevUpper = IsUpper(c) /\ new.dst = st.dst
      BY <1>2, <1>4, <3>1
    <3>3. new.seg = SubSeq(s, a, n)
      <4>1. SubSeq(s, a, n) = Append(SubSeq(s, a, n - 1), c)
        BY <1>1, <2>2
      <4> QED BY <2>1, <3>2, <4>1
    <3>4. ~SegEnds(s, n - 1)
      BY <1>1, <1>12, <2>4, <2>6 DEF SegEnds
    <3>5. OpenFrom(s, a, n)
      <4>1. \A k \in a .. n - 1 : k \in a .. n - 1 - 1 \/ k = n - 1
        BY <1>1, <2>1
      <4>2. \A k \in a .. n - 1 : ~SegEnds(s, k) /\ IsTermRune(s[k])
        BY <2>1, <2>2, <3>4, <4>1 DEF OpenFrom
      <4> QED BY <1>12, <2>1, <2>2, <4>2 DEF OpenFrom
    <3> QED BY <1>7, <1>12, <2>1, <2>2, <3>2, <3>3, <3>5 DEF TermsKnown
  <2> QED BY <2>5, <2>6
<1> QED BY <1>9, <1>11, <1>12

(* What the loop finds in any text.                                        *)
LEMMA LoopFindsSegments ==
  ASSUME NEW R, NEW s \in Seq(R)
  PROVE  Listed(s, TermsIn(s), Kept(s))
<1> DEFINE L == Len(s)
           T == {n \in 0 .. L : TermsKnown(s, n)}
           st == TermsTo(s)[L]
<1>1. L \in Nat /\ L \in 0 .. L
  OBVIOUS
<1>2. 0 \in T
  BY NothingKnown
<1>3. ASSUME NEW n \in 1 .. L, n - 1 \in T PROVE n \in T
  BY <1>3, KnowsOneMore
<1>4. TermsKnown(s, L)
  <2>1. 0 .. L \subseteq T
    <3> HIDE DEF T, L
    <3> QED BY <1>1, <1>2, <1>3, IntervalInduction
  <2> QED BY <1>1, <2>1
<1>5. SegEnds(s, L)
  BY DEF SegEnds
<1>6. Listed(s, EmitTerm(st.dst, st.seg), Before(s, L + 1))
  BY <1>1, <1>4, <1>5, EndingLists
<1>7. TermsIn(s) = EmitTerm(st.dst, st.seg)
  <2>1. st \in TermStates(R)
    BY <1>1, TermsIsLoop
  <2>2. EndSegment(st).dst = EmitTerm(st.dst, st.seg)
    BY <2>1 DEF EndSegment, TermStates
  <2> QED BY <2>2 DEF TermsIn
<1>8. Before(s, L + 1) = Kept(s)
  <2>1. ASSUME NEW seg \in Kept(s) PROVE seg[2] < L + 1
    <3>1. seg \in Segments(s)
      BY DEF Kept
    <3>2. seg[2] \in 1 .. Len(s)
      BY <3>1, SegmentIs
    <3> QED BY <3>2
  <2> QED BY <2>1 DEF Before
<1> QED BY <1>6, <1>7, <1>8

LEMMA ScanPartType ==
  ASSUME NEW R, NEW s \in Seq(R)
  PROVE  ScanPart(s) \in Seq(R \cup {"bad"})
<1> DEFINE fits == {n \in 0 .. Len(s) : Bytes(SubSeq(s, 1, n)) <= MaxScan}
           whole == Max(fits)
           cut == SubSeq(s, 1, whole)
           D == R \cup {"bad"}
<1>1. whole \in fits
  <2>1. Bytes(SubSeq(s, 1, 0)) = 0
    <3>1. SubSeq(s, 1, 0) = <<>>
      BY SubSeqEmpty
    <3> QED BY <3>1, NoBytes
  <2>2. 0 \in fits
    BY <2>1, MaxScanIsNat
  <2> DEFINE hi == Len(s)
  <2>3. fits \in SUBSET (0 .. hi) /\ hi \in Int /\ 0 \in Int
    OBVIOUS
  <2> HIDE DEF fits, hi
  <2>4. fits # {}
    BY <2>2
  <2> QED BY <2>3, <2>4, MaxOfBounded
<1>2. whole \in 0 .. Len(s)
  BY <1>1
<1> HIDE DEF fits, whole
<1>3. cut \in Seq(D)
  <2>1. \A i \in 1 .. whole : s[i] \in D
    BY <1>2
  <2> HIDE DEF D
  <2> QED BY <1>2, <2>1, SubSeqProperties
<1>4. Append(cut, "bad") \in Seq(D)
  BY <1>3
<1>5. ScanPart(s) = cut \/ ScanPart(s) = Append(cut, "bad")
  BY DEF ScanPart, whole, fits
<1> QED BY <1>3, <1>4, <1>5 DEF D

(* The terms of every text, of any runes, are the segments of what is      *)
(* scanned of it that are of three bytes or more and no stopwords, left to *)
(* right (terms.go, Tokenize).                                             *)
THEOREM EveryTermIsFound ==
  ASSUME NEW R, NEW s \in Seq(R)
  PROVE  TermsAreSegments(s)
<1> DEFINE t == ScanPart(s)
<1>1. t \in Seq(R \cup {"bad"})
  BY ScanPartType
<1>2. Tokenize(s) = TermsIn(t)
  BY DEF Tokenize
<1> HIDE DEF t
<1>3. Listed(t, Tokenize(s), Kept(t))
  BY <1>1, <1>2, LoopFindsSegments
<1> QED BY <1>3, Zenon DEF TermsAreSegments, Listed, Kept, Place, t

(* The terms of every text a server can send, whatever the bound and the   *)
(* stopwords, are its segments (terms.go, tokenize).                       *)
THEOREM TextsTermsAreFound == Spec => []TermsFound
<1>1. Init => text \in Seq(TextRunes)
  BY DEF Init
<1>2. text \in Seq(TextRunes) /\ [Next]_vars => (text \in Seq(TextRunes))'
  BY DEF Next, vars, AddPiece, AddRune, AddTool, AddToFile, AddFlag
<1>3. text \in Seq(TextRunes) => TermsFound
  BY EveryTermIsFound DEF TermsFound
<1> QED BY <1>1, <1>2, <1>3, PTL DEF Spec
=============================================================================
