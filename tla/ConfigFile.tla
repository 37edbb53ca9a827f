----------------------------- MODULE ConfigFile -----------------------------
(***************************************************************************)
(* cluster.local.conf has two readers: hbird-config's parser (parser.rs),   *)
(* for every command, and the shell, for the nightly scripts that source    *)
(* it (hbird-rolling-apply.sh, hbird-staged-check.sh).  The file is read    *)
(* line by line by both.  A line is what matters of its text: key, value,   *)
(* form; a key stands for all keys that are read the way it is.  Values are *)
(* literal: neither $ nor a backslash is in them.                           *)
(***************************************************************************)
EXTENDS Integers, Sequences, FiniteSets

CONSTANTS
  MaxLines,   \* bound: lines of the file
  MaxWords    \* bound: elements of an array, one to a line

ASSUME ConfigBoundsAssumption == MaxLines \in Nat /\ MaxWords \in Nat

VARIABLES
  fileStep,   \* "line" while lines are read, "done" after the last
  lines,      \* lines so far
  raw,        \* tokenize's map: key -> Value
  open,       \* the array that is not closed yet: <<key>>, or <<>>
  body,       \* its elements so far
  cliErr,     \* the parser's error
  config,     \* the ClusterConfig
  shell,      \* the shell's variables: name -> elements (a scalar has one)
  shellErr,   \* the script ends here, for "set -e" or a syntax error
  strange     \* a line outside the subset both read alike

fileVars ==
  <<fileStep, lines, raw, open, body, cliErr, config, shell, shellErr, strange>>

\* Read by take_required_scalar, take_scalar_or_default, take_bool_strict_or_default,
\* take_optional_array, and by nobody.
Required == {"CP_NAME", "SSH_PUBKEY_FILE"}
Keys == Required \cup {"GHCR_TAG", "AUTO_UPDATE_CP", "WORKER_NAMES", "TYPO"}
Word == {"a", "b"}
Values == {"", "a", "true"}
Words == {<<>>} \cup {<<w>> : w \in Word}

Scalar(v) == [shape |-> "scalar", elems |-> <<v>>]
Array(s) == [shape |-> "array", elems |-> s]
NoConfig == [cp |-> "", tag |-> "", auto |-> FALSE, workers |-> <<>>, warnings |-> {}]

FileErrors ==
  {"none", "UnrecognizedLine", "TrailingContent", "UnterminatedQuote", "UnterminatedArray",
   "MissingRequired", "TypeMismatch", "InvalidBool"}

FileTypeOK ==
  /\ fileStep \in {"line", "done"} /\ lines \in 0 .. MaxLines
  /\ DOMAIN raw \subseteq Keys /\ Len(open) <= 1
  /\ cliErr \in FileErrors /\ DOMAIN config = DOMAIN NoConfig
  /\ DOMAIN shell \subseteq Keys /\ shellErr \in BOOLEAN /\ strange \in BOOLEAN

FileInit ==
  /\ fileStep = "line" /\ lines = 0 /\ raw = <<>> /\ open = <<>> /\ body = <<>>
  /\ cliErr = "none" /\ config = NoConfig /\ shell = <<>> /\ shellErr = FALSE
  /\ strange = FALSE

\* The next line; a file is read to the end unless the parser has given up.
NextLine ==
  /\ fileStep = "line" /\ lines < MaxLines /\ cliErr = "none" /\ ~strange
  /\ lines' = lines + 1 /\ UNCHANGED <<fileStep, config>>
InArray == open # <<>>

With(f, k, v) == [x \in DOMAIN f \cup {k} |-> IF x = k THEN v ELSE f[x]]

\* A later assignment overwrites an earlier one.
FirstWins(k, v) == IF k \in DOMAIN raw THEN raw ELSE With(raw, k, v)
Insert(k, v) == With(raw, k, v)

(* ---- scalars ------------------------------------------------------------*)

Forms ==
  {"bare", "quoted", "bareComment", "quotedComment", "bareFlush", "quotedFlush",
   "bareGarbage", "quotedGarbage", "space", "openQuote"}

\* What parse_scalar makes of KEY=a, KEY="a", either followed by a comment, by a flush
\* "#", by something else; of KEY= a; and of KEY="a.
check_trailing_after_quote(form) == form # "quotedGarbage"
strip_trailing_comment(form, v) ==
  CASE form = "bareFlush" -> "a#"
    [] form = "bareGarbage" -> "a b"
    [] OTHER -> v
ScalarError(form) ==
  IF form = "openQuote" THEN "UnterminatedQuote"
  ELSE IF ~check_trailing_after_quote(form) THEN "TrailingContent" ELSE "none"

\* What the shell makes of them: a quoted value joins a flush "#", and a line with a
\* second word, or with a space after "=", is a command, which is not found.
ShellRuns(form) == form \in {"bareGarbage", "quotedGarbage", "space", "openQuote"}
ShellValue(form, v) == IF form \in {"bareFlush", "quotedFlush"} THEN "a#" ELSE v
Divergent(form) == form \in {"quotedFlush", "bareGarbage", "space", "openQuote"}

\* Assigning a scalar to an array sets its first element.
ShellScalar(k, v) ==
  IF k \in DOMAIN shell /\ Len(shell[k]) > 1
  THEN <<v>> \o SubSeq(shell[k], 2, Len(shell[k])) ELSE <<v>>

ScalarLine ==
  \E k \in Keys, v \in Values, form \in Forms :
    /\ NextLine /\ ~InArray
    /\ form \notin {"bare", "quoted", "bareComment", "quotedComment"} => v = "a"
    /\ cliErr' = ScalarError(form)
    /\ raw' = IF ScalarError(form) = "none"
              THEN Insert(k, Scalar(strip_trailing_comment(form, v))) ELSE raw
    /\ IF ShellRuns(form)
       THEN shellErr' = TRUE /\ UNCHANGED shell
       ELSE /\ shell' = IF shellErr THEN shell
                        ELSE With(shell, k, ShellScalar(k, ShellValue(form, v)))
            /\ UNCHANGED shellErr
    /\ strange' = Divergent(form)
    /\ UNCHANGED <<open, body>>

\* Blank, or a comment, outside an array.
BlankLine ==
  /\ NextLine /\ ~InArray
  /\ UNCHANGED <<raw, open, body, cliErr, shell, shellErr, strange>>

\* No "=", or no shell identifier before it: a command to the shell.
JunkLine ==
  /\ NextLine /\ ~InArray
  /\ cliErr' = "UnrecognizedLine" /\ shellErr' = TRUE
  /\ UNCHANGED <<raw, open, body, shell, strange>>

(* ---- arrays -------------------------------------------------------------*)

\* What may follow the words of an array's line: nothing; a comment, without or with a ")"
\* in it; after the ")" that closes, some text; an element whose quote is not closed; an
\* element with a ")" inside its quotes.
Tails == {"no", "plain", "paren", "text", "openQuote", "quotedParen"}
Quotes == {"openQuote", "quotedParen"}

\* The parser appends the words of a line, and what a comment or a quote behind them says,
\* closes the array at the first ")" of the line, a comment's or a quoted one too, and
\* drops what follows it.  A quote still open there is an error.
ArrayText(words, closes, tail) ==
  IF tail \in {"no", "text"} \/ (closes /\ tail \notin Quotes) THEN words
  ELSE Append(words, "#")
ParserCloses(closes, tail) == closes \/ tail \in {"paren", "quotedParen"}

\* The shell takes text after the ")" for a command, and an open quote for a syntax error.
ArrayRuns(tail) == tail \in {"text", "openQuote"}
ShellText(words, tail) == IF tail = "quotedParen" THEN Append(words, "a)") ELSE words
ReadAlike(closes, tail) == tail = "no" \/ (closes /\ tail \in {"plain", "paren"})

Extended(k, words, closes, tail) ==
  LET elems == body \o ArrayText(words, closes, tail)
      here == body \o words
  IN  /\ Len(here) <= MaxWords
      /\ IF ~ParserCloses(closes, tail)
         THEN open' = <<k>> /\ body' = elems /\ UNCHANGED <<raw, cliErr>>
         ELSE /\ open' = <<>> /\ body' = <<>>
              /\ IF tail \in Quotes
                 THEN cliErr' = "UnterminatedQuote" /\ UNCHANGED raw
                 ELSE raw' = Insert(k, Array(elems)) /\ UNCHANGED cliErr
      /\ shell' = IF closes /\ ~shellErr /\ ~ArrayRuns(tail)
                  THEN With(shell, k, body \o ShellText(words, tail)) ELSE shell
      /\ shellErr' = (shellErr \/ ArrayRuns(tail))
      /\ strange' = ~ReadAlike(closes, tail)

OpenArray ==
  /\ NextLine /\ ~InArray
  /\ \E k \in {"CP_NAME", "WORKER_NAMES"}, w \in Words, closes \in BOOLEAN, t \in Tails :
       (t = "text" => closes) /\ Extended(k, w, closes, t)

BodyLine ==
  /\ NextLine /\ InArray
  /\ \E w \in Words, closes \in BOOLEAN, t \in Tails :
       w # <<>> /\ (t = "text" => closes) /\ Extended(open[1], w, closes, t)

\* A blank line or a comment of its own inside an array is skipped; one with a ")" in it
\* closes the array for the parser.
SkippedLine(c) ==
  /\ IF c = "paren"
     THEN raw' = Insert(open[1], Array(Append(body, "#"))) /\ open' = <<>> /\ body' = <<>>
     ELSE UNCHANGED <<raw, open, body>>
  /\ strange' = (c = "paren")
  /\ UNCHANGED <<cliErr, shell, shellErr>>

CloseLine == NextLine /\ InArray /\ Extended(open[1], <<>>, TRUE, "no")
BodyComment == NextLine /\ InArray /\ \E c \in {"plain", "paren"} : SkippedLine(c)

(* ---- build_config -------------------------------------------------------*)

Has(k, shape) == k \in DOMAIN raw /\ raw[k].shape = shape
Empty(k) == Has(k, "scalar") /\ raw[k].elems[1] = ""
take_scalar_or_default(k, default) ==
  IF Has(k, "scalar") /\ ~Empty(k) THEN raw[k].elems[1] ELSE default
take_bool_strict_or_default(k, default) ==
  IF Has(k, "scalar") /\ ~Empty(k) THEN raw[k].elems[1] = "true" ELSE default

\* The first take_* that fails; a key nobody reads is only warned about.  AUTO_UPDATE_CP
\* stands for every scalar that is validated, take_u32_or_default's as well.
Missing(k) == k \notin DOMAIN raw \/ Empty(k)
FirstError ==
  IF Missing("CP_NAME") \/ (Has("CP_NAME", "scalar") /\ Missing("SSH_PUBKEY_FILE"))
  THEN "MissingRequired"
  ELSE IF \E k \in Required \cup {"GHCR_TAG", "AUTO_UPDATE_CP"} : Has(k, "array")
       THEN "TypeMismatch"
  ELSE IF Has("AUTO_UPDATE_CP", "scalar") /\ ~Empty("AUTO_UPDATE_CP")
            /\ raw["AUTO_UPDATE_CP"].elems[1] # "true"
       THEN "InvalidBool"
  ELSE IF Has("WORKER_NAMES", "scalar") THEN "TypeMismatch" ELSE "none"

\* An unset WORKER_NAMES means two workers, an empty one none.
resolved_worker_names ==
  IF Has("WORKER_NAMES", "array") THEN raw["WORKER_NAMES"].elems ELSE <<"w1", "w2">>

build_config ==
  [cp |-> take_scalar_or_default("CP_NAME", ""),
   tag |-> take_scalar_or_default("GHCR_TAG", "latest"),
   auto |-> take_bool_strict_or_default("AUTO_UPDATE_CP", TRUE),
   workers |-> resolved_worker_names,
   warnings |-> DOMAIN raw \cap {"TYPO"}]

EndOfFile ==
  /\ fileStep = "line" /\ fileStep' = "done"
  /\ LET e == IF cliErr # "none" THEN cliErr
              ELSE IF InArray THEN "UnterminatedArray" ELSE FirstError
     IN  cliErr' = e /\ config' = IF e = "none" THEN build_config ELSE NoConfig
  /\ shellErr' = (shellErr \/ InArray)
  /\ UNCHANGED <<lines, raw, open, body, shell, strange>>

FileNext ==
  \/ ScalarLine \/ BlankLine \/ JunkLine \/ OpenArray \/ BodyLine \/ CloseLine
  \/ BodyComment \/ EndOfFile

(* ---- properties ---------------------------------------------------------*)

\* The scripts' own view: a scalar is the first element, WORKER_NAMES all of them, and none
\* when the file does not set it.
ShellScalarOf(k) == IF k \in DOMAIN shell /\ shell[k] # <<>> THEN shell[k][1] ELSE ""
ShellWorkers == IF "WORKER_NAMES" \in DOMAIN shell THEN shell["WORKER_NAMES"] ELSE <<>>

\* Of a file without a strange line, what hbird accepts the nightly scripts accept as well,
\* and they roll the same nodes, except where the file leaves WORKER_NAMES out (parser.rs
\* tokenize, parse_array, build_config; `source "$CONF"` in hbird-rolling-apply.sh); and
\* hbird refuses a file for a missing key or an open array only if the scripts find no
\* value for a required key either, or do not get through the file.  The strange lines are
\* those of Divergent and the ones ReadAlike leaves out.
SameNodes ==
  (fileStep = "done" /\ ~strange) =>
    /\ cliErr = "none" =>
         /\ ~shellErr /\ ShellScalarOf("CP_NAME") = config.cp
         /\ "WORKER_NAMES" \in DOMAIN shell => ShellWorkers = config.workers
    /\ cliErr = "MissingRequired" => shellErr \/ \E k \in Required : ShellScalarOf(k) = ""
    /\ cliErr = "UnterminatedArray" => shellErr
==============================================================================
