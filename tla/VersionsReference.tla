-------------------------- MODULE VersionsReference --------------------------
(***************************************************************************)
(* What constraints promise, said without bounds: by the components of the *)
(* requirement that a version must share, and by the order of the releases.*)
(***************************************************************************)
EXTENDS Versions

Shares(release, nums, k) == \A i \in 1 .. k : At(release, i) = nums[i]
Least(a, b) == IF a < b THEN a ELSE b
Breaking(nums) ==
  LET nonzero == {i \in 1 .. Least(3, Len(nums)) : nums[i] > 0} IN
  IF nonzero = {} THEN Least(3, Len(nums)) ELSE Min(nonzero)

(* How many components stay fixed, by the operator.                        *)
Fixed(scheme, t) ==
  CASE t.op = "=" \/ (t.op = "bare" /\ (t.stars \/ scheme = "npm")) -> Len(t.nums)
    [] t.op = "^" \/ (t.op = "bare" /\ ~t.stars /\ scheme # "npm") -> Breaking(t.nums)
    [] t.op = "~>" /\ scheme = "terraform" ->
         IF Len(t.nums) = 1 THEN 1 ELSE Len(t.nums) - 1
    [] OTHER -> Least(2, Len(t.nums))

(* npm does not read a prerelease after less than three components.        *)
Partial(scheme, t) == scheme = "npm" /\ Len(t.nums) < 3
Low(scheme, t) == [nums |-> Pad(t.nums), pre |-> IF Partial(scheme, t) THEN <<>> ELSE t.pre]
IsPin(scheme, t) ==
  CASE scheme = "npm" -> t.op \in {"bare", "="} /\ Len(t.nums) = 3
    [] scheme = "cargo" -> t.op = "=" [] OTHER -> t.op \in {"bare", "="}

(* The order of semver, component by component.                            *)
After(a, b) == Compare(a, b) > 0
(* For npm a partial version names the family of all that begin with it,   *)
(* and the prereleases of what follows the family are not after it.        *)
Family(scheme, t, v) == Partial(scheme, t) /\ Shares(v.nums, t.nums, Len(t.nums))
Follows(t, v) ==
  /\ Shares(v.nums, t.nums, Len(t.nums) - 1)
  /\ v.nums[Len(t.nums)] = t.nums[Len(t.nums)] + 1
  /\ \A i \in Len(t.nums) + 1 .. 3 : v.nums[i] = 0
Beyond(scheme, t, v) ==
  /\ After(v, Low(scheme, t)) /\ ~Family(scheme, t, v)
  /\ Partial(scheme, t) /\ v.pre # <<>> => ~Follows(t, v)

Means(scheme, t, v) ==
  CASE t.nums = <<>> -> ~(scheme = "npm" /\ t.op \in {">", "<"})
    [] t.nums # <<>> /\ IsPin(scheme, t) -> v = Low(scheme, t)
    [] t.nums # <<>> /\ t.op \in {">=", "from"} -> ~After(Low(scheme, t), v)
    [] t.nums # <<>> /\ t.op = "<" -> After(Low(scheme, t), v) /\ ~Family(scheme, t, v)
    [] t.nums # <<>> /\ t.op = ">" -> Beyond(scheme, t, v)
    [] t.nums # <<>> /\ t.op \in {"<=", "to"} -> ~After(v, Low(scheme, t)) \/ Family(scheme, t, v)
    [] t.nums # <<>> /\ t.op = "!=" -> v # Low(scheme, t)
    [] OTHER -> ~After(Low(scheme, t), v) /\ Shares(v.nums, t.nums, Fixed(scheme, t))

NamesPre(t) == Len(t.nums) = 3 /\ t.pre # <<>>

-----------------------------------------------------------------------------
(* PEP 440's own order, and the steps of it below and above a release.     *)
Phase(v) ==
  CASE v.tag # "none" -> Rung(v) [] v.tag = "none" /\ v.post >= 0 -> 5
    [] v.tag = "none" /\ v.post < 0 /\ v.dev >= 0 -> 0 [] OTHER -> 4
Suffix(v) == CASE v.tag # "none" -> v.num [] v.tag = "none" /\ v.post >= 0 -> v.post [] OTHER -> v.dev
Order440(a, b) ==
  FirstNonZero(<<Sign(a.epoch, b.epoch), CompareReleases(a.release, b.release),
                 Sign(Phase(a), Phase(b)), Sign(Suffix(a), Suffix(b))>>)

(* "~=": the last component written may grow, where it is not the only one.*)
Compatible(nums) == IF Len(nums) > 1 THEN Len(nums) - 1 ELSE 1
Means440(s, v) ==
  LET order == Order440(v, s.v)
      same == SameBase(v, s.v)
      Begins(k) == v.epoch = s.v.epoch /\ Shares(v.release, s.v.release, k)
  IN
  CASE s.op = "==" /\ ~s.wildcard -> order = 0
    [] s.op = "!=" /\ ~s.wildcard -> order # 0
    [] s.op = "==" /\ s.wildcard -> Begins(Len(s.v.release))
    [] s.op = "!=" /\ s.wildcard -> ~Begins(Len(s.v.release))
    [] s.op = ">=" -> order >= 0
    [] s.op = "<=" -> order <= 0
    [] s.op = "<" -> order < 0 /\ (same /\ Phase(v) < 4 => Phase(s.v) < 4)
    [] s.op = ">" -> order > 0 /\ (same /\ Phase(v) = 5 => Phase(s.v) = 5)
    [] s.op = "~=" -> order >= 0 /\ Begins(Compatible(s.v.release))
    [] OTHER -> v = s.v /\ ~s.wildcard

MeansPoetry(t, v) ==
  LET low == ParsePEP440(Lower(t)) IN
  CASE t.nums = <<>> -> TRUE
    [] t.nums # <<>> /\ t.op = "bare" /\ ~t.stars -> Order440(v, low) = 0
    [] t.nums # <<>> /\ (t.op \in {"^", "~"} \/ (t.op = "bare" /\ t.stars)) ->
         /\ v.epoch = 0 /\ Order440(v, low) >= 0
         /\ Shares(v.release, t.nums, Fixed("poetry", t))
    [] t.nums # <<>> /\ t.op \in {"=", "==="} -> v = Lower(t) /\ ~t.stars
    [] OTHER -> Means440(Spec440(t.op, low, t.stars), v)

-----------------------------------------------------------------------------
(* Whether a constraint must admit a version, and whether it may: Cargo    *)
(* and Terraform are held to their releases, and Cargo to prereleases only *)
(* where one is named.                                                     *)
AllMean(r, v) == \A t \in Terms(r) : Means(r.scheme, t, v)
Must(r, v) ==
  CASE r.scheme = "npm" ->
         \E alt \in r.constraint :
           /\ \A t \in alt : Means("npm", t, v)
           /\ v.pre = <<>> \/ \E t \in alt : NamesPre(t) /\ Low("npm", t).nums = v.nums
    [] r.scheme = "go" -> \E t \in Terms(r) : ~After(Low("go", t), v)
    [] r.scheme \in {"cargo", "terraform"} -> v.pre = <<>> /\ AllMean(r, v)
    [] r.scheme = "poetry" -> \A t \in Terms(r) : MeansPoetry(t, v)
    [] OTHER -> \A s \in Terms(r) : Means440(s, v)
May(r, v) ==
  CASE r.scheme = "cargo" /\ v.pre # <<>> -> \E t \in Terms(r) : t.pre # <<>>
    [] r.scheme = "terraform" /\ v.pre # <<>> -> TRUE
    [] OTHER -> Must(r, v)

Published == Range(SubSeq(available, 1, seen))
(* A Python prerelease is passed over unless it is named, or all there is. *)
Policy(r, vs) ==
  LET stable == {v \in vs : Phase(v) \in {4, 5}} IN
  IF ~Python(r) \/ stable = {} \/ MentionsPre(Specs(r)) THEN vs ELSE stable

Newer(r, a, b) == IF Python(r) THEN Order440(a, b) > 0 ELSE After(a, b)

(* Where this holds of the code.  It does not                              *)
(*   - where a Python version has two suffixes (a dev of a prerelease), or *)
(*     a number in one that does not fit its band (pep440.go:166-178);     *)
(*   - where a star follows three components, and is read as one that      *)
(*     follows two (cargo.go:215, poetry.go:99);                           *)
(*   - of a bare version of Cargo with an x in its prerelease or its build *)
(*     metadata, which is a tilde (cargo.go:215) and not the caret that    *)
(*     cargo.go:227 says a bare version is.                                *)
OneSuffix(v) ==
  \/ v.tag = "none" /\ v.post < 0 /\ v.dev < Band
  \/ v.tag = "none" /\ v.dev < 0
  \/ v.post < 0 /\ v.dev < 0 /\ v.num < Band \div 4
Regular(r) ==
  /\ Python(r) => \A v \in Releases(r.scheme) \cup {s.v : s \in Specs(r)} : OneSuffix(v)
  /\ r.scheme # "pep440" => \A t \in Terms(r) : t.op = "bare" /\ t.stars => Len(t.nums) < 3
  /\ r.scheme = "cargo" => \A t \in Terms(r) : t.op = "bare" => t.x = Absent

(* Of a constraint that can be read, and but for the three exceptions that *)
(* Regular names.  All: newest first, the admitted versions and no others, *)
(* up to the bound of the policy; latest: the newest of them, and for Go   *)
(* the requirement; a pin, and what is called exact, is one version.       *)
CandidatesAreRight ==
  LET r == request
      must == Policy(r, {v \in Published : Must(r, v)})
      may  == Policy(r, {v \in Published : May(r, v)})
      all  == answer["all"]
  IN Readable(r) /\ Regular(r) /\ seen > 0 =>
     /\ Range(all) \subseteq may /\ Len(all) <= MaxVersionsPerRange
     /\ \A v \in must \ Range(all) :
          Len(all) = MaxVersionsPerRange /\ \A w \in Range(all) : ~Newer(r, v, w)
     /\ \A i, j \in DOMAIN all : i < j => ~Newer(r, all[j], all[i])
     /\ IF r.scheme = "go" THEN answer["latest"] = <<Bound(CHOOSE t \in Terms(r) : TRUE)>>
        ELSE answer["latest"] = FirstN(1, all)
     /\ Len(answer["pinned"]) <= 1
     /\ r.scheme # "go" => Range(answer["pinned"]) \subseteq may
     /\ IsExact(r) /\ r.scheme # "go" =>
          \A i, j \in DOMAIN all : ~Newer(r, all[i], all[j])

(* What a rescan would install differs from what the last one did only by  *)
(* a version that was published in between.  (Go installs the requirement.)*)
WillMovesOnlyToNews ==
  [][seen' # seen /\ request.scheme # "go" =>
       Range(answer["latest"]') \subseteq
         Range(answer["latest"]) \cup Range(SubSeq(available, seen + 1, seen'))]_versionsVars

(* "dev < pre < release < post, with the numeric suffix breaking ties      *)
(* inside each band": no suffix carries a version out of its own.          *)
SuffixesKeepTheirBand ==
  Python(request) => \A v, w \in Range(available) :
    SameBase(v, w) /\ Phase(v) < Phase(w) => ComparePEP440(v, w) < 0
==============================================================================
