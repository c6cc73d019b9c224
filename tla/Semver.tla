------------------------------- MODULE Semver --------------------------------
(***************************************************************************)
(* internal/version, the schemes with three-part versions: npm, Cargo, Go  *)
(* and Terraform.  A requirement is a term as it was written: an operator, *)
(* ("bare" where none is written, "from" and "to" around a hyphen), the    *)
(* components before the first wildcard, whether a wildcard follows, and a *)
(* prerelease; it is turned into comparators, and those are tested.        *)
(* Cargo looks for a wildcard in the whole text: x says that the prerelease *)
(* or the build metadata has the letter, and how many identifiers are left *)
(* when the text is cut before a component that is nothing else.           *)
(***************************************************************************)
EXTENDS Integers, Sequences, FiniteSets, SequencesExt

Ops == {"bare", "=", "!=", ">=", ">", "<=", "<", "^", "~", "~>", "from", "to"}
Absent == -1
Term(op, nums, stars, pre) ==
  [op |-> op, nums |-> nums, stars |-> stars, pre |-> pre, x |-> Absent]

(* Prerelease identifiers: numbers, and words in alphabetical order.       *)
Identifiers == [word : BOOLEAN, rank : Nat]
Number(n) == [word |-> FALSE, rank |-> n]
Word(n) == [word |-> TRUE, rank |-> n]

(* What the four parsers accept: three components, those that are written. *)
SemVersions == [nums : [1 .. 3 -> Nat], pre : Seq(Identifiers)]
(* The first identifier is written in one with the last component.         *)
SemTerms == {t \in [op : Ops, nums : Seq(Nat), stars : BOOLEAN, pre : Seq(Identifiers),
                    x : Nat \cup {Absent}] :
               /\ Len(t.nums) <= 3 /\ t.x <= Len(t.pre)
               /\ t.pre # <<>> => t.x # 0}

Sign(a, b) == IF a < b THEN -1 ELSE IF a > b THEN 1 ELSE 0

(* The first part in which two things differ decides.                      *)
FirstNonZero(s) ==
  LET d == {i \in DOMAIN s : s[i] # 0} IN IF d = {} THEN 0 ELSE s[Min(d)]

CompareId(a, b) ==
  IF a.word = b.word THEN Sign(a.rank, b.rank) ELSE IF b.word THEN -1 ELSE 1

Shorter(a, b) == IF Len(a) < Len(b) THEN a ELSE b

(* comparePre, cmpGoPre: a release is above its prereleases.               *)
ComparePre(a, b) ==
  IF a = <<>> \/ b = <<>> THEN Sign(Len(b), Len(a))
  ELSE FirstNonZero([i \in DOMAIN Shorter(a, b) |-> CompareId(a[i], b[i])]
                    \o <<Sign(Len(a), Len(b))>>)

Compare(a, b) ==
  FirstNonZero(<<Sign(a.nums[1], b.nums[1]), Sign(a.nums[2], b.nums[2]),
                 Sign(a.nums[3], b.nums[3]), ComparePre(a.pre, b.pre)>>)

(* What is not written is zero.                                            *)
Pad(nums) == [i \in 1 .. 3 |-> IF i <= Len(nums) THEN nums[i] ELSE 0]
Mk(op, nums, pre) == [op |-> op, v |-> [nums |-> Pad(nums), pre |-> pre]]

Test(c, v) ==
  LET cmp == Compare(v, c.v) IN
  CASE c.op = ">" -> cmp > 0 [] c.op = ">=" -> cmp >= 0 [] c.op = "<" -> cmp < 0
    [] c.op = "<=" -> cmp <= 0 [] c.op = "!=" -> cmp # 0 [] OTHER -> cmp = 0

-----------------------------------------------------------------------------
(* Release: the bounds that Cargo, Poetry and Terraform share.             *)
Bump(nums, i) == [j \in 1 .. i |-> IF j = i THEN nums[j] + 1 ELSE nums[j]]

(* Mutant: the first component is the breaking one, below 1.0 as above.    *)
CaretUpper_Major(nums) == Bump(nums, 1)

(* The leftmost component that is not zero is the breaking one; where all  *)
(* are zero, the last one written.                                         *)
CaretUpper(nums) ==
  LET nonzero == {i \in DOMAIN nums : nums[i] > 0} IN
  Bump(nums, IF nonzero = {} THEN Len(nums) ELSE Min(nonzero))

TildeUpper(nums) == Bump(nums, IF Len(nums) = 1 THEN 1 ELSE 2)
PessimisticUpper(nums) == Bump(nums, IF Len(nums) <= 2 THEN 1 ELSE 2)

-----------------------------------------------------------------------------
(* npm.  No comparator at all matches anything, but for prereleases.       *)
ParsesNpm(t) == t.op # "!="
NoneComp == {Mk("<", <<0, 0, 0>>, <<Number(0)>>)}
From(t) == {Mk(">=", t.nums, IF Len(t.nums) = 3 THEN t.pre ELSE <<>>)}
Upto(nums) == {Mk("<", nums, <<Number(0)>>)}

(* caret, tilde: npm counts the component after the last one written.      *)
CaretNpm(t) ==
  LET n == t.nums IN
  CASE n = <<>> -> {}
    [] Len(n) = 1 -> From(t) \cup Upto(<<n[1] + 1>>)
    [] Len(n) = 2 -> From(t) \cup Upto(IF n[1] = 0 THEN <<0, n[2] + 1>> ELSE <<n[1] + 1>>)
    [] OTHER -> From(t) \cup
         Upto(CASE n[1] = 0 /\ n[2] = 0 -> <<0, 0, n[3] + 1>>
                [] n[1] = 0 /\ n[2] # 0 -> <<0, n[2] + 1>>
                [] OTHER -> <<n[1] + 1>>)

TildeNpm(t) == IF t.nums = <<>> THEN {} ELSE From(t) \cup Upto(TildeUpper(t.nums))

(* xrange: a partial version stands for all that begin with it.            *)
XRange(t) ==
  LET n == t.nums next == Bump(n, Len(n)) partial == Len(n) < 3 IN
  CASE n = <<>> -> IF t.op \in {">", "<"} THEN NoneComp ELSE {}
    [] n # <<>> /\ ~partial -> {Mk(IF t.op = "bare" THEN "=" ELSE t.op, n, t.pre)}
    [] n # <<>> /\ partial ->
         CASE t.op = ">"  -> {Mk(">=", next, <<>>)}
           [] t.op = ">=" -> {Mk(">=", n, <<>>)}
           [] t.op = "<"  -> Upto(n)
           [] t.op = "<=" -> Upto(next)
           [] OTHER       -> From(t) \cup Upto(next)

(* hyphenComparators: the two ends are terms of their own.                 *)
HyphenFrom(t) == IF t.nums = <<>> THEN {} ELSE From(t)
HyphenTo(t) ==
  CASE t.nums = <<>> -> {}
    [] Len(t.nums) \in 1 .. 2 -> Upto(Bump(t.nums, Len(t.nums)))
    [] OTHER -> {Mk("<=", t.nums, t.pre)}

Desugar(t) ==
  CASE t.op = "^" -> CaretNpm(t) [] t.op \in {"~", "~>"} -> TildeNpm(t)
    [] t.op = "from" -> HyphenFrom(t) [] t.op = "to" -> HyphenTo(t)
    [] OTHER -> XRange(t)

(* A constraint is a set of alternatives, each a set of terms.             *)
ComparatorSet(alt) == UNION {Desugar(t) : t \in alt}
ParseRange(constraint) == {ComparatorSet(alt) : alt \in constraint}

(* testSet: a prerelease needs a comparator that names one of its triple.  *)
TestSet(set, v) ==
  /\ \A c \in set : Test(c, v)
  /\ v.pre = <<>> \/ \E c \in set : c.v.pre # <<>> /\ c.v.nums = v.nums

SatisfiesNpm(v, constraint) == \E set \in ParseRange(constraint) : TestSet(set, v)

IsExactNpm(constraint) ==
  \E t \in UNION constraint :
    constraint = {{t}} /\ \E c \in Desugar(t) : Desugar(t) = {c} /\ c.op = "="

-----------------------------------------------------------------------------
(* Cargo: a bare version is a caret, and with a wildcard anywhere in it a  *)
(* tilde on what is to the left of the first; the other operators are read *)
(* against the zero-filled version.  So a bare 0.0.3-next is a tilde, and  *)
(* admits 0.0.9, for its x, though "a bare version is a caret" (:227).     *)
Bounded(t, upper) == {Mk(">=", t.nums, t.pre), Mk("<", upper, <<>>)}

ParsesCargo(t) ==
  /\ t.op \notin {"!=", "~>", "from", "to"}
  /\ t.stars \/ t.nums = <<>> => t.op = "bare" /\ t.pre = <<>> /\ t.x = Absent
Wild(t) == t.stars \/ t.x # Absent
LeftOf(t) == IF t.x = Absent THEN t ELSE [t EXCEPT !.pre = SubSeq(t.pre, 1, t.x)]
CargoBounds(t) ==
  CASE t.nums = <<>> -> {}
    [] t.nums # <<>> /\ t.op = "~" -> Bounded(t, TildeUpper(t.nums))
    [] t.nums # <<>> /\ t.op = "bare" /\ Wild(t) -> Bounded(LeftOf(t), TildeUpper(t.nums))
    [] t.nums # <<>> /\ (t.op = "^" \/ (t.op = "bare" /\ ~Wild(t))) ->
         Bounded(t, CaretUpper(t.nums))
    [] OTHER -> {Mk(t.op, t.nums, t.pre)}

SatisfiesCargo(v, terms) ==
  LET bounds == UNION {CargoBounds(t) : t \in terms} IN
  /\ v.pre # <<>> => \E b \in bounds : b.v.pre # <<>>
  /\ \A b \in bounds : Test(b, v)

(* The operator is the only thing looked at, and that the rest parses.     *)
IsExactCargo(terms) ==
  \E t \in terms : terms = {t} /\ t.op = "=" /\ t.nums # <<>>

-----------------------------------------------------------------------------
(* Go: a requirement is a lower bound.                                     *)
ParsesGo(t) == t.op \in {"bare", ">=", ">"} /\ Len(t.nums) = 3
Bound(t) == [nums |-> t.nums, pre |-> t.pre]
SatisfiesGo(v, t) == Compare(v, Bound(t)) >= 0
IsExactGo(t) == t.op = "bare"

-----------------------------------------------------------------------------
(* Terraform: a bare version is exact, "~>" lets the last component grow.  *)
ParsesTerraform(t) ==
  t.op \notin {"^", "~", "from", "to"} /\ ~t.stars /\ t.nums # <<>>
MatchesTerraform(t, v) ==
  IF t.op = "~>" THEN \A b \in Bounded(t, PessimisticUpper(t.nums)) : Test(b, v)
  ELSE Test(Mk(t.op, t.nums, t.pre), v)
SatisfiesTerraform(v, terms) == \A t \in terms : MatchesTerraform(t, v)
IsExactTerraform(terms) == \E t \in terms : terms = {t} /\ t.op \in {"bare", "="}
==============================================================================
