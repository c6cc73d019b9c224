------------------------------ MODULE Versions -------------------------------
(***************************************************************************)
(* What a constraint admits.  A registry publishes versions in any order;  *)
(* scans and rescans of one manifest enumerate what satisfies its          *)
(* constraint, to expand (all), to install (latest) or to pin.             *)
(***************************************************************************)
EXTENDS Pep440, Lists

CONSTANTS
  Requests,     \* [scheme, constraint]: a constraint is a set of alternatives,
                \* each a set of terms (of specifiers, for pep440)
  Releases(_),  \* the versions a scheme's registry may publish
  MaxReleases, MaxVersionsPerRange  \* bounds: of the model, of the policy

Schemes == {"npm", "cargo", "go", "terraform", "pep440", "poetry"}
Terms(r) == UNION r.constraint
Python(r) == r.scheme \in {"pep440", "poetry"}

(* Terms and versions are what the scheme's parsers make of text.          *)
TermsOf(scheme) ==
  CASE scheme = "pep440" -> Specs440 [] scheme = "poetry" -> PoetryTerms [] OTHER -> SemTerms
VersionsOf(scheme) ==
  IF scheme \in {"pep440", "poetry"} THEN PythonVersions ELSE SemVersions
ASSUME VersionsAssumption ==
  /\ MaxReleases \in Nat /\ MaxVersionsPerRange \in Nat \ {0}
  /\ \A r \in Requests : r.scheme \in Schemes /\ Terms(r) \subseteq TermsOf(r.scheme)
  /\ \A scheme \in Schemes : Releases(scheme) \subseteq VersionsOf(scheme)

VARIABLES
  request, available,
  answer,  \* the last scan's: per mode what it enumerated
  seen     \* how many versions were published then

versionsVars == <<request, available, answer, seen>>

Modes == {"pinned", "latest", "all"}
Unasked == [m \in Modes |-> <<>>]
VersionsInit == request \in Requests /\ available = <<>> /\ answer = Unasked /\ seen = 0

(* A constraint that has one alternative, of one term.                     *)
Only(r, t) == r.constraint = {{t}}

(* An alternative is npm's alone; a term none can read is an error.        *)
Readable(r) ==
  /\ r.scheme # "npm" => Cardinality(r.constraint) = 1
  /\ \A t \in Terms(r) :
       CASE r.scheme = "npm" -> ParsesNpm(t)
         [] r.scheme = "cargo" -> ParsesCargo(t)
         [] r.scheme = "go" -> Only(r, t) /\ ParsesGo(t)
         [] r.scheme = "terraform" -> ParsesTerraform(t)
         [] r.scheme = "poetry" -> ParsesPoetry(t)
         [] OTHER -> TRUE

(* Poetry's requirements reach the scheme translated.                      *)
Specs(r) == IF r.scheme = "poetry" THEN Translate(Terms(r)) ELSE Terms(r)

CompareVersions(r, a, b) == IF Python(r) THEN ComparePEP440(a, b) ELSE Compare(a, b)

Satisfies(r, v) ==
  CASE r.scheme = "npm" -> SatisfiesNpm(v, r.constraint)
    [] r.scheme = "cargo" -> SatisfiesCargo(v, Terms(r))
    [] r.scheme = "go" -> \E t \in Terms(r) : SatisfiesGo(v, t)
    [] r.scheme = "terraform" -> SatisfiesTerraform(v, Terms(r))
    [] OTHER -> Satisfies440(v, Specs(r))

IsExact(r) ==
  CASE r.scheme = "npm" -> IsExactNpm(r.constraint)
    [] r.scheme = "cargo" -> IsExactCargo(Terms(r))
    [] r.scheme = "go" -> \E t \in Terms(r) : IsExactGo(t)
    [] r.scheme = "terraform" -> IsExactTerraform(Terms(r))
    [] OTHER -> IsExact440(Specs(r))

-----------------------------------------------------------------------------
(* Enumerate(constraint, available, policy).  A filter of a list vs is the *)
(* set of the places it keeps.                                             *)

(* Mutant: one stable version is not enough to pass over prereleases.      *)
Stable_OffByOne(r, vs, ok) ==
  LET stable == {i \in ok : ~IsPre(vs[i])} IN
  IF MentionsPre(Specs(r)) \/ Cardinality(stable) < 2 THEN ok ELSE stable

(* What an installer of Python packages passes over: prereleases nobody    *)
(* asked for, unless there is nothing else.                                *)
Stable(r, vs, ok) ==
  LET stable == {i \in ok : ~IsPre(vs[i])} IN
  IF MentionsPre(Specs(r)) \/ stable = {} THEN ok ELSE stable

Selected(r, vs) ==
  LET ok == {i \in DOMAIN vs : Satisfies(r, vs[i])} IN
  IF Python(r) THEN Stable(r, vs, ok) ELSE ok

(* Newest first; versions that compare as equal stay in the order given.   *)
Before(r, a, b, i, j) ==
  CompareVersions(r, a, b) > 0 \/ (CompareVersions(r, a, b) = 0 /\ i < j)
NewestFirst(r, vs, ok) ==
  LET order == Sorted(ok, {e \in ok \X ok : Before(r, vs[e[1]], vs[e[2]], e[1], e[2])})
  IN [k \in DOMAIN order |-> vs[order[k]]]

Satisfying(r, vs) == NewestFirst(r, vs, Selected(r, vs))

FirstN(n, vs) == SubSeq(vs, 1, IF Len(vs) < n THEN Len(vs) ELSE n)
Equal(r, vs, want) ==
  LET at == {i \in DOMAIN vs : CompareVersions(r, vs[i], want) = 0} IN
  IF at = {} THEN <<>> ELSE <<vs[Min(at)]>>

(* Go selects the bound, listed or not; the others the newest.             *)
GoEnumerate(r, vs, mode) ==
  LET bound == Bound(CHOOSE t \in Terms(r) : TRUE)
      listed == Equal(r, Satisfying(r, vs), bound)
  IN CASE mode = "all" -> FirstN(MaxVersionsPerRange, Satisfying(r, vs))
       [] mode # "all" /\ listed # <<>> -> listed
       [] OTHER -> <<bound>>

(* A full version written bare is a pin for npm, "==" is one for Python.   *)
Pinnable(r) ==
  \/ r.scheme = "npm" /\ \E t \in Terms(r) : Only(r, t) /\ t.op = "bare" /\ Len(t.nums) = 3
  \/ Python(r) /\ Exactly(Specs(r))
Pin(r) == LET t == CHOOSE t \in IF Python(r) THEN Specs(r) ELSE Terms(r) : TRUE IN
          IF Python(r) THEN t.v ELSE Bound(t)

Enumerate(r, vs, mode) ==
  CASE r.scheme = "go" -> GoEnumerate(r, vs, mode)
    [] r.scheme # "go" /\ mode = "all" -> FirstN(MaxVersionsPerRange, Satisfying(r, vs))
    [] r.scheme # "go" /\ mode = "pinned" /\ Pinnable(r) -> Equal(r, Satisfying(r, vs), Pin(r))
    [] OTHER -> FirstN(1, Satisfying(r, vs))

-----------------------------------------------------------------------------
PublishVersion ==
  /\ Len(available) < MaxReleases
  /\ \E v \in Releases(request.scheme) \ Range(available) : available' = Append(available, v)
  /\ UNCHANGED <<request, answer, seen>>

(* A constraint that does not parse is reported, and nothing enumerated.   *)
Scan ==
  /\ answer' = IF Readable(request)
               THEN [m \in Modes |-> Enumerate(request, available, m)] ELSE Unasked
  /\ seen' = Len(available)
  /\ UNCHANGED <<request, available>>

VersionsNext == PublishVersion \/ Scan
VersionsSpec == VersionsInit /\ [][VersionsNext]_versionsVars
==============================================================================
