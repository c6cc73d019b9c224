------------------------------- MODULE Pep440 --------------------------------
(***************************************************************************)
(* internal/version, the Python scheme: PEP 440 versions and specifiers,   *)
(* and Poetry's constraints, which are translated into specifiers.         *)
(***************************************************************************)
EXTENDS Semver

Tags == <<"a", "b", "rc">>
Spellings == {"alpha", "beta", "c", "pre", "preview"} \cup Range(Tags)

(* A version as the manifest or the index wrote it: post and dev may be    *)
(* absent, the tag is one of its spellings, or "none".                     *)
Written(epoch, release, tag, num, post, dev) ==
  [epoch |-> epoch, release |-> release, tag |-> tag, num |-> num, post |-> post, dev |-> dev]
Plain(release) == Written(0, release, "none", 0, Absent, Absent)

NormalisePre(tag) ==
  CASE tag = "alpha" -> "a" [] tag = "beta" -> "b"
    [] tag \in {"c", "pre", "preview"} -> "rc" [] OTHER -> tag

ParsePEP440(w) == [w EXCEPT !.tag = NormalisePre(@)]

WrittenVersions ==
  [epoch : Nat, release : Seq(Nat) \ {<<>>}, tag : Spellings \cup {"none"}, num : Nat,
   post : Nat \cup {Absent}, dev : Nat \cup {Absent}]
PythonVersions == {v \in WrittenVersions : v.tag \in Range(Tags) \cup {"none"}}

At(release, i) == IF i <= Len(release) THEN release[i] ELSE 0

Band == 1048576  \* 1 << 20
Rung(v) == IF v.tag = "none" THEN 0 ELSE CHOOSE i \in DOMAIN Tags : Tags[i] = v.tag

(* rank: dev, pre, release, post on one line of integers.                  *)
Rank(v) ==
  LET dev == IF v.dev >= 0 THEN 1 ELSE 0 IN
  CASE v.tag # "none" -> (Rung(v) - 1) * (Band \div 4) + v.num - 2 * Band - dev
    [] v.tag = "none" /\ v.post >= 0 -> Band + v.post - dev
    [] v.tag = "none" /\ v.post < 0 /\ v.dev >= 0 -> v.dev - 3 * Band
    [] OTHER -> 0

CompareReleases(a, b) ==
  LET n == IF Len(a) < Len(b) THEN Len(b) ELSE Len(a) IN
  FirstNonZero([i \in 1 .. n |-> Sign(At(a, i), At(b, i))])

ComparePEP440(a, b) ==
  FirstNonZero(<<Sign(a.epoch, b.epoch), CompareReleases(a.release, b.release),
                 Sign(Rank(a), Rank(b))>>)

-----------------------------------------------------------------------------
(* A specifier: an operator, a version, and whether ".*" follows it; that  *)
(* of "===" is left as it was written.                                     *)
Spec440(op, v, wildcard) == [op |-> op, v |-> v, wildcard |-> wildcard]
Ops440 == {"===", "==", "!=", "<=", ">=", "~=", "<", ">"}
Specs440 == {s \in [op : Ops440, v : WrittenVersions, wildcard : BOOLEAN] :
               s.op = "===" \/ s.v \in PythonVersions}

IsPre(v) == v.tag # "none" \/ v.dev >= 0
SameBase(a, b) == a.epoch = b.epoch /\ CompareReleases(a.release, b.release) = 0
PrefixMatch(v, epoch, release) ==
  v.epoch = epoch /\ \A i \in DOMAIN release : At(v.release, i) = release[i]

(* test: "<" leaves out the prereleases of the bound's own release, ">"    *)
(* its post-releases; "~=" lets the last component written grow; "===" is  *)
(* a comparison of text, with what the manifest wrote.                     *)
Test440(s, v) ==
  LET cmp == ComparePEP440(v, s.v)
      most == IF Len(s.v.release) > 1 THEN Front(s.v.release) ELSE s.v.release
  IN
  CASE s.op = "===" -> v = s.v /\ ~s.wildcard
    [] s.op = "==" -> IF s.wildcard THEN PrefixMatch(v, s.v.epoch, s.v.release) ELSE cmp = 0
    [] s.op = "!=" -> IF s.wildcard THEN ~PrefixMatch(v, s.v.epoch, s.v.release) ELSE cmp # 0
    [] s.op = "<=" -> cmp <= 0
    [] s.op = ">=" -> cmp >= 0
    [] s.op = "<"  -> cmp < 0 /\ ~(~IsPre(s.v) /\ IsPre(v) /\ SameBase(v, s.v))
    [] s.op = ">"  -> cmp > 0 /\ ~(s.v.post < 0 /\ v.post >= 0 /\ SameBase(v, s.v))
    [] OTHER -> cmp >= 0 /\ PrefixMatch(v, s.v.epoch, most)

Satisfies440(v, specs) == \A s \in specs : Test440(s, v)

(* "===" leaves the version unparsed, and one unparsed has a dev of 0.      *)
MentionsPre(specs) == \E s \in specs : s.op = "===" \/ IsPre(s.v)

Exactly(specs) == \E s \in specs : specs = {s} /\ s.op = "==" /\ ~s.wildcard
IsExact440(specs) == Exactly(specs) \/ \E s \in specs : specs = {s} /\ s.op = "==="

-----------------------------------------------------------------------------
(* Poetry.  A term as it was written: nums the components before a star,   *)
(* and what stands between them and the tag.  There is no specifier for an *)
(* alternative, and none is made up.                                       *)
PoetryTerms == [op : Ops440 \cup {"bare", "=", "^", "~"}, nums : Seq(Nat), stars : BOOLEAN,
                tag : Spellings \cup {"none"}, sep : {"none", "dash", "dot"}]
Lower(t) == Written(0, t.nums, t.tag, 0, Absent, Absent)
Span(t, upper) ==
  {Spec440(">=", ParsePEP440(Lower(t)), FALSE), Spec440("<", Plain(Pad(upper)), FALSE)}
Truncated(nums) == SubSeq(nums, 1, IF Len(nums) < 3 THEN Len(nums) ELSE 3)

(* ParseRelease reads up to a dash, and of that three components at most:  *)
(* 1.2-alpha and 1.2.3.alpha are read, 1.2.3alpha is not.                  *)
ReadsRelease(t, stars) ==
  \/ t.tag = "none" /\ ~stars
  \/ t.tag # "none" /\ t.sep = "dash"
  \/ Len(t.nums) > 3
  \/ Len(t.nums) = 3 /\ (t.tag = "none" \/ t.sep = "dot")

(* A bounded term is an error where its release is not read: ^1.2.3alpha.  *)
(* A bare one is cut before its star, and "=1.*" with its operator.        *)
ParsesPoetry(t) ==
  t.nums # <<>> =>
    /\ t.op \in {"^", "~"} => ReadsRelease(t, t.stars)
    /\ t.op = "bare" /\ t.stars => ReadsRelease(t, FALSE)
    /\ t.op = "=" => ~t.stars

(* A bare version is exact; "=" is not an operator of theirs, and "==" is  *)
(* put before it as before a bare version.                                 *)
TranslateTerm(t) ==
  CASE t.nums = <<>> -> {}
    [] t.nums # <<>> /\ t.op = "^" -> Span(t, CaretUpper(Truncated(t.nums)))
    [] t.nums # <<>> /\ t.op = "~" -> Span(t, TildeUpper(t.nums))
    [] t.nums # <<>> /\ t.op = "bare" ->
         IF t.stars THEN Span(t, TildeUpper(t.nums))
         ELSE {Spec440("==", ParsePEP440(Lower(t)), FALSE)}
    [] t.nums # <<>> /\ t.op \in {"=", "==="} -> {Spec440("===", Lower(t), t.stars)}
    [] OTHER -> {Spec440(t.op, ParsePEP440(Lower(t)), t.stars)}

Translate(terms) == UNION {TranslateTerm(t) : t \in terms}
==============================================================================
