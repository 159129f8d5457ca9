----------------------------- MODULE ShellSplit -----------------------------
(***************************************************************************)
(* How the command line of the upstream server is taken apart              *)
(* (cmd/mcp-diet/shellsplit.go): one pass over the runes, with a mode, the *)
(* word being built and a flag that tells an empty word from none.         *)
(***************************************************************************)
EXTENDS Integers, Sequences, SequencesExt

Space == " "
Backslash == "\\"
SingleQuote == "'"
DoubleQuote == "\""

LineEnd == "\n"
Blanks == {Space, "\t", LineEnd, "\r"}
Escapable == {DoubleQuote, Backslash, "$", "backquote", LineEnd}

ScanStart ==
  [args |-> <<>>, cur |-> <<>>, started |-> FALSE, mode |-> "plain",
   taken |-> FALSE]  \* the next rune was taken with the backslash before it

WriteRune(st, c) == [st EXCEPT !.cur = Append(@, c), !.started = TRUE]
TakeNext(st, c) == [st EXCEPT !.cur = Append(@, c), !.started = TRUE, !.taken = TRUE]
Skip(st) == [st EXCEPT !.taken = FALSE]

\* Mutant of EndWord: an empty quoted word is no word.
EndWordIfAny(st) ==
  IF st.cur # <<>>
  THEN [st EXCEPT !.args = Append(@, st.cur), !.cur = <<>>, !.started = FALSE]
  ELSE [st EXCEPT !.started = FALSE]

EndWord(st) ==
  IF st.started
  THEN [st EXCEPT !.args = Append(@, st.cur), !.cur = <<>>, !.started = FALSE]
  ELSE st

Open(st, mode) == [st EXCEPT !.mode = mode, !.started = TRUE]
Close(st) == [st EXCEPT !.mode = "plain"]

(* A backslash takes the rune after it, when there is one; in double       *)
(* quotes only a rune that needs escaping.                                 *)
Escapes(st, s, i) ==
  /\ s[i] = Backslash /\ i < Len(s)
  /\ \/ st.mode = "plain"
     \/ st.mode = "double" /\ s[i + 1] \in Escapable

PlainRune(st, c) ==
  CASE c = SingleQuote -> Open(st, "single")
    [] c = DoubleQuote -> Open(st, "double")
    [] c \in Blanks -> EndWord(st)
    [] OTHER -> WriteRune(st, c)

QuotedRune(st, c) ==
  IF c = (IF st.mode = "single" THEN SingleQuote ELSE DoubleQuote)
  THEN Close(st)
  ELSE WriteRune(st, c)

Rune(st, s, i) ==
  IF st.taken THEN Skip(st)
  ELSE IF Escapes(st, s, i) THEN TakeNext(st, s[i + 1])
       ELSE IF st.mode = "plain" THEN PlainRune(st, s[i])
            ELSE QuotedRune(st, s[i])

(* The loop: what it has after each rune.                                  *)
Scanned(s) ==
  LET after[i \in 0 .. Len(s)] ==
        IF i = 0 THEN ScanStart ELSE Rune(after[i - 1], s, i)
  IN after

Scan(s) == Scanned(s)[Len(s)]

Refused == [ok |-> FALSE, args |-> <<>>]

(* An open quote is refused, and a line without a word.                    *)
ShellSplit(s) ==
  LET st == Scan(s)
      args == EndWord(st).args
  IN IF st.mode # "plain" \/ args = <<>> THEN Refused
     ELSE [ok |-> TRUE, args |-> args]

(* --server or a trailing command, not both and not neither.               *)
ResolveServerArgv(server, rest) ==
  LET hasServer == \E i \in DOMAIN server : server[i] \notin Blanks
  IN CASE hasServer /\ rest # <<>> -> Refused
       [] hasServer /\ rest = <<>> -> ShellSplit(server)
       [] ~hasServer /\ rest # <<>> -> [ok |-> TRUE, args |-> rest]
       [] OTHER -> Refused

-----------------------------------------------------------------------------
(* The other direction: a line as a user writes it, a sequence of pieces,  *)
(* each quoted in some style, and gaps.  Pieces without a gap between them *)
(* make one word.                                                          *)

Gap == [style |-> "gap", runes |-> <<Space>>]

Writable(piece) ==
  CASE piece.style = "single" -> \A i \in DOMAIN piece.runes : piece.runes[i] # SingleQuote
    [] piece.style = "double" -> TRUE
    [] piece.style = "escaped" -> /\ piece.runes # <<>>
                                  /\ \A i \in DOMAIN piece.runes : piece.runes[i] # LineEnd
    [] OTHER -> /\ piece.runes # <<>>
                /\ \A i \in DOMAIN piece.runes :
                     piece.runes[i] \notin Blanks \cup {SingleQuote, DoubleQuote, Backslash}

QuoteOf(style) ==
  CASE style = "single" -> <<SingleQuote>>
    [] style = "double" -> <<DoubleQuote>>
    [] OTHER -> <<>>

WrittenRune(style, c) ==
  IF style = "escaped" \/ (style = "double" /\ c \in {DoubleQuote, Backslash})
  THEN <<Backslash, c>> ELSE <<c>>

Written(piece) ==
  QuoteOf(piece.style)
    \o FlattenSeq([i \in DOMAIN piece.runes |-> WrittenRune(piece.style, piece.runes[i])])
    \o QuoteOf(piece.style)

WrittenLine(line) == FlattenSeq([i \in DOMAIN line |-> Written(line[i])])

(* The words a line stands for: a piece right after another one goes on    *)
(* with the word of that one, any other piece starts a word.               *)
WordStarts(line) ==
  {i \in DOMAIN line : line[i] # Gap /\ (i = 1 \/ line[i - 1] = Gap)}

WordOf(line, i) == Cardinality(WordStarts(line) \cap (1 .. i))

Part(line, n, i) ==
  IF line[i] # Gap /\ WordOf(line, i) = n THEN line[i].runes ELSE <<>>

Words(line) ==
  [n \in 1 .. WordOf(line, Len(line)) |->
     FlattenSeq([i \in DOMAIN line |-> Part(line, n, i)])]

(* What was quoted is what arrives: in whatever style each piece of a word *)
(* is written, empty words included; one more quote is refused, a          *)
(* backslash at the end stands for itself, and a trailing command is used  *)
(* only when no word was given (shellsplit.go: "honours single quotes,     *)
(* double quotes and backslash escapes"; main.go, resolveServerArgv).      *)
ReadsBack(line) ==
  LET text == WrittenLine(line)
      words == Words(line)
      rest == <<"server">>
  IN /\ ResolveServerArgv(text, <<>>) =
          IF words = <<>> THEN Refused ELSE [ok |-> TRUE, args |-> words]
     /\ ResolveServerArgv(text, rest) =
          IF words = <<>> THEN [ok |-> TRUE, args |-> rest] ELSE Refused
     /\ \A q \in {SingleQuote, DoubleQuote} : ~ShellSplit(Append(text, q)).ok
     /\ ShellSplit(text \o <<Space, Backslash>>).args = Append(words, <<Backslash>>)
=============================================================================
