--------------------------- MODULE CiliumPreflight ---------------------------
(***************************************************************************)
(* hbird preflight cilium (preflight.rs): does the pinned Cilium cover the  *)
(* pinned Kubernetes minor?  A version as it is written is a text: a        *)
(* leading "v" or not, and the dotted numbers it starts with.  The pins     *)
(* come from the flags or from the committed files.                         *)
(***************************************************************************)
EXTENDS Integers, Sequences, FiniteSets

CONSTANTS
  CiliumMinors,    \* bound: the Cilium minors tried
  K8sMinors        \* bound: the Kubernetes minors tried

ASSUME PreflightAssumption == CiliumMinors \subseteq Nat /\ K8sMinors \subseteq Nat

VARIABLES
  given,      \* CiliumArgs, and what the two files hold
  preStep,    \* "resolve", "classify", "exit", "over"
  found,      \* Pins: the Cilium minor and the Kubernetes minor, as texts
  diagnosis,  \* the Verdict
  exitCode    \* of the process

preVars == <<given, preStep, found, diagnosis, exitCode>>

Text(v, nums) == [v |-> v, nums |-> nums]
NoText == Text(FALSE, <<>>)

\* "", "1", "1.m", "2.m", "1.m.5", each with and without a "v".
TextsOf(minors) ==
  {Text(v, n) : v \in BOOLEAN,
                n \in {<<>>, <<1>>} \cup {<<M, m>> : M \in {1, 2}, m \in minors}
                        \cup {<<1, m, 5>> : m \in minors}}

\* A flag, or the file: unreadable, without a line that matches, or with one.
SourcesOf(minors) ==
  [from : {"flag"}, text : TextsOf(minors) \ {NoText}]
    \cup [from : {"file"}, text : TextsOf(minors)]
    \cup {[from |-> "unreadable", text |-> NoText]}

NoPins == [cilium |-> NoText, k8s |-> NoText]
NoReport == [kind |-> "none", below |-> FALSE]

PreflightTypeOK ==
  /\ preStep \in {"resolve", "classify", "exit", "over"}
  /\ diagnosis.kind \in {"none", "Supported", "MatrixStale", "Mismatch"}
  /\ diagnosis.below \in BOOLEAN /\ exitCode \in 0 .. 2

PreflightInit ==
  /\ given \in [cilium : SourcesOf(CiliumMinors), k8s : SourcesOf(K8sMinors),
                strict : BOOLEAN, dry : BOOLEAN]
  /\ preStep = "resolve" /\ found = NoPins /\ diagnosis = NoReport /\ exitCode = 0

(* ---- pins ---------------------------------------------------------------*)

\* COMPAT_MATRIX: every row is of Cilium 1.x and Kubernetes 1.x.
Row == [c \in 14 .. 18 |->
  CASE c = 14 -> 19 .. 27
    [] c = 15 -> 26 .. 29
    [] c = 16 -> 27 .. 30
    [] c = 17 -> 29 .. 32
    [] c = 18 -> 30 .. 33]
Minor(m) == Text(FALSE, <<1, m>>)

\* The first k numbers of a text that starts with a number.
HasLeading(t, k) == ~t.v /\ Len(t.nums) >= k
Leading(t, k) == Text(FALSE, SubSeq(t.nums, 1, k))
StripV(t) == Text(FALSE, t.nums)

\* A file's pin has its "v" stripped and must be complete.
ExtractOk(src, k) == src.from = "file" /\ HasLeading(StripV(src.text), k)
extract_cilium_pin(src) == Leading(StripV(src.text), 3)
extract_k8s_pin(src) == Leading(StripV(src.text), 2)

\* A flag is passed through when it does not start with two numbers.
normalize_k8s_minor(t) == IF HasLeading(StripV(t), 2) THEN Leading(StripV(t), 2) ELSE t
cilium_minor_of(t) == IF HasLeading(t, 2) THEN Leading(t, 2) ELSE t

resolve_pins ==
  LET c == given.cilium
      k == given.k8s
      ok == (c.from = "flag" \/ ExtractOk(c, 3)) /\ (k.from = "flag" \/ ExtractOk(k, 2))
  IN  /\ preStep = "resolve"
      /\ IF ok
         THEN /\ preStep' = "classify" /\ UNCHANGED exitCode
              /\ found' =
                   [cilium |-> cilium_minor_of(IF c.from = "flag" THEN c.text
                                               ELSE extract_cilium_pin(c)),
                    k8s |-> IF k.from = "flag" THEN normalize_k8s_minor(k.text)
                            ELSE extract_k8s_pin(k)]
         ELSE preStep' = "over" /\ exitCode' = 2 /\ UNCHANGED found
      /\ UNCHANGED <<given, diagnosis>>

(* ---- verdict ------------------------------------------------------------*)

\* parse_minor_pair: the two numbers, when both are there.
HasPair(t) == Len(t.nums) >= 2
PairBelow(a, b) == a[1] < b[1] \/ (a[1] = b[1] /\ a[2] < b[2])

Rows(t) == {c \in DOMAIN Row : Minor(c) = t}

lowest_supported_minor(c) ==
  CHOOSE m \in Row[c] : \A n \in Row[c] : ~PairBelow(<<1, n>>, <<1, m>>)

\* The comparison of the script it replaces: 1.9 is more than 1.27.
DecimalBelow(t, low) ==
  HasPair(t) /\ PairBelow(<<t.nums[1], t.nums[2] * (IF t.nums[2] < 10 THEN 10 ELSE 1)>>,
                          <<1, low>>)
is_below_window(t, low) == HasPair(t) /\ PairBelow(<<t.nums[1], t.nums[2]>>, <<1, low>>)

classify ==
  /\ preStep = "classify" /\ preStep' = "exit"
  /\ \/ /\ Rows(found.cilium) = {}
        /\ diagnosis' = [kind |-> "MatrixStale", below |-> FALSE]
     \/ \E c \in Rows(found.cilium) :
          diagnosis' =
            IF \E m \in Row[c] : Minor(m) = found.k8s
            THEN [kind |-> "Supported", below |-> FALSE]
            ELSE [kind |-> "Mismatch",
                  below |-> is_below_window(found.k8s, lowest_supported_minor(c))]
  /\ UNCHANGED <<given, found, exitCode>>

verdict_exit_code == IF diagnosis.kind # "Supported" /\ given.strict THEN 1 ELSE 0

PreflightExit ==
  /\ preStep = "exit" /\ preStep' = "over"
  /\ exitCode' = IF given.dry THEN 0 ELSE verdict_exit_code
  /\ UNCHANGED <<given, found, diagnosis>>

PreflightNext == resolve_pins \/ classify \/ PreflightExit

(* ---- properties ---------------------------------------------------------*)

\* The minor an operator means by a text, with or without a "v" and a patch level.
Means(t, m) == Len(t.nums) >= 2 /\ t.nums[1] = 1 /\ t.nums[2] = m

\* The matrix lists the pair the operator means.
Listed ==
  \E c \in DOMAIN Row : \E k \in Row[c] : Means(given.cilium.text, c) /\ Means(given.k8s.text, k)

\* The one pin that is not taken for what it means: cilium_minor_of strips no "v".
FlagWithV == given.cilium.from = "flag" /\ given.cilium.text.v

\* A flag is there to be read; a file's line has to have k numbers.
PinReadable(src, k) == src.from = "flag" \/ (src.from = "file" /\ Len(src.text.nums) >= k)

\* The verdict on what was given: supported when the matrix lists the pair, stale when it
\* has no row for this Cilium, or when --cilium starts with a "v".  The hint of a mismatch
\* points the right way: the Cilium minors that do list this Kubernetes are all below the
\* pinned one when the hint says to downgrade Cilium, and all above it when it says to bump
\* it; and a Kubernetes older than the whole window is never answered with a bump.
VerdictIsRight ==
  /\ (diagnosis.kind = "Supported") <=> (Listed /\ ~FlagWithV)
  /\ (diagnosis.kind = "MatrixStale") <=>
       (FlagWithV \/ \A c \in DOMAIN Row : ~Means(given.cilium.text, c))
  /\ diagnosis.kind = "Mismatch" =>
       \A c \in DOMAIN Row :
         Means(given.cilium.text, c) =>
           /\ \A d \in DOMAIN Row :
                (\E k \in Row[d] : Means(given.k8s.text, k)) =>
                  (d < c /\ diagnosis.below) \/ (d > c /\ ~diagnosis.below)
           /\ \A k \in K8sMinors :
                (Means(given.k8s.text, k) /\ \A n \in Row[c] : k < n) => diagnosis.below

\* hbird preflight cilium ends with 2 exactly if a pin cannot be read, and with 1 exactly if
\* --strict was given (and not --dry-run) and the matrix does not list the pair, or the
\* Cilium flag starts with a "v"; otherwise it ends with 0 (run_cilium, resolve_pins,
\* classify, is_below_window).  Its verdict and its hint are right for what was given.
PreflightIsRight ==
  preStep = "over" =>
    LET readable == PinReadable(given.cilium, 3) /\ PinReadable(given.k8s, 2)
    IN  /\ (exitCode = 2) <=> ~readable
        /\ (exitCode = 1) <=>
             (readable /\ given.strict /\ ~given.dry /\ (~Listed \/ FlagWithV))
        /\ readable => VerdictIsRight
==============================================================================
