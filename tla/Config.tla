------------------------------- MODULE Config -------------------------------
(***************************************************************************)
(* Where a setting comes from: the defaults, the JSON file read on top of  *)
(* them, the flags on top of that, and Normalize after each of the two     *)
(* (prune/config.go, main.go, analyze.go).                                 *)
(*                                                                         *)
(* A configuration is a function from the names of the settings to         *)
(* integers; TermDecay is in percent.  A file, and the flags that were     *)
(* given, are such functions over some of the names.  Enabled, Pinned and  *)
(* the weights are taken as they come and left out.                        *)
(***************************************************************************)
EXTENDS Integers

Defaults ==
  [TopN |-> 8, MaxDescriptionChars |-> 100, MinTools |-> 6, DropBelow |-> 0,
   RevealSteps |-> 12, RecencyHalfLife |-> 4, ContextTerms |-> 256,
   TermDecay |-> 72, MaxNodes |-> 512, MaxEdgesPerNode |-> 32]

Settings == DOMAIN Defaults

NonNegative ==
  {"TopN", "MaxDescriptionChars", "MinTools", "RevealSteps", "DropBelow"}
Positive == {"RecencyHalfLife", "ContextTerms"}

Clamped(s, v) == IF s \in NonNegative /\ v < 0 THEN 0 ELSE v

(* The settings for which zero has no meaning, and a decay outside (0, 1), *)
(* go back to their defaults.                                              *)
Restored(s, v) ==
  IF \/ s \in Positive /\ v <= 0
     \/ s = "TermDecay" /\ (v <= 0 \/ v >= 100)
  THEN Defaults[s] ELSE v

(* The two limits of the graph are not checked here, but by graph.New.     *)
Normalize(cfg) == [s \in Settings |-> Restored(s, Clamped(s, cfg[s]))]

(* A file only overrides what it mentions.                                 *)
LoadConfig(file) ==
  Normalize([s \in Settings |->
               IF s \in DOMAIN file THEN file[s] ELSE Defaults[s]])

(* A flag that was not given is -1, and so is one given as a negative      *)
(* number: both leave the setting alone.                                   *)
Overridden(cfg, flags) ==
  [s \in Settings |->
     IF s \in DOMAIN flags /\ flags[s] >= 0 THEN flags[s] ELSE cfg[s]]

RunFlags == {"TopN", "MaxDescriptionChars", "MinTools", "DropBelow"}
AnalyzeFlags == RunFlags \ {"MinTools"}

Given(flags, known) == [s \in (DOMAIN flags) \cap known |-> flags[s]]

(* With no --config, an empty file gives the same result.                  *)
StartConfig(file, flags) ==
  Normalize(Overridden(LoadConfig(file), Given(flags, RunFlags)))
AnalyzeConfig(file, flags) ==
  Normalize(Overridden(LoadConfig(file), Given(flags, AnalyzeFlags)))

(* graph.New, with the defaults of that package: a limit that is not       *)
(* positive says nothing.                                                  *)
GraphDefaults == [MaxNodes |-> 512, MaxEdgesPerNode |-> 32]

\* Mutant of NewLimits: a limit of zero is taken at its word.
NewLimitsUnlessNegative(cfg) ==
  [s \in DOMAIN GraphDefaults |->
     IF cfg[s] < 0 THEN GraphDefaults[s] ELSE cfg[s]]

NewLimits(cfg) ==
  [s \in DOMAIN GraphDefaults |->
     IF cfg[s] <= 0 THEN GraphDefaults[s] ELSE cfg[s]]

-----------------------------------------------------------------------------
(* What the pruner relies on (the assumptions of PruneTiers, Session and   *)
(* TermWindow).                                                            *)
Safe(s, v) ==
  /\ s \in NonNegative => v >= 0
  /\ s \in Positive => v >= 1
  /\ s = "TermDecay" => v \in 1 .. 99

SafeConfig(cfg) == \A s \in Settings : cfg[s] \in Int /\ Safe(s, cfg[s])

(* The last in-range value given for a setting is the one in force.        *)
Honoured(file, flags, cfg) ==
  \A s \in Settings :
    LET flag == s \in DOMAIN flags /\ flags[s] >= 0
    IN /\ flag => cfg[s] = flags[s]
       /\ ~flag /\ s \in DOMAIN file /\ Safe(s, file[s]) => cfg[s] = file[s]
       /\ ~flag /\ s \notin DOMAIN file => cfg[s] = Defaults[s]

(* The graph has the limits of the file, and where those are not positive  *)
(* the ones it would have without the file.                                *)
LimitsHonoured(file, limits) ==
  \A s \in DOMAIN GraphDefaults :
    limits[s] = IF s \in DOMAIN file /\ file[s] > 0 THEN file[s] ELSE Defaults[s]
=============================================================================
