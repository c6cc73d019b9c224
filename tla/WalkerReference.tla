---------------------------- MODULE WalkerReference --------------------------
(***************************************************************************)
(* What the walk promises: the closure of a repository, defined level by   *)
(* level from the registry alone, with no goroutine, lock or memo.         *)
(***************************************************************************)
EXTENDS Walker

(* Where a requirement leads: the versions chosen for it, or the           *)
(* versionless node when none can be.                                      *)
Targets(r) ==
  LET p == r.to[1] IN
  CASE p \notin Resolvable ->
         {IF p \in Schemed /\ ExactOf[r.spec] # NoVersion
            THEN Link(r, ExactOf[r.spec]).to ELSE r.to}
    [] p \in Resolvable \ Schemed -> {r.to}
    [] OTHER -> IF PinMissing(p) \/ BadRange(r) THEN {r.to}
                ELSE {<<p, v>> : v \in Chosen(r)}

(* What a requirement's targets require in turn.                           *)
Needs(r) ==
  IF r.to[1] \in Resolvable \cap Schemed
    THEN UNION {Kids(t[1], t[2]) : t \in {t \in Targets(r) : t[2] # NoVersion}}
    ELSE {}

LevelReqs[d \in 1..(MaxDepth + 1)] ==
  IF d = 1 THEN {l \in SeedLinks : l.to[2] = NoVersion}
  ELSE {k \in UNION {Needs(r) : r \in LevelReqs[d - 1]} : ~SkipScope(k)}

Expanded == UNION {LevelReqs[d] : d \in 1..MaxDepth}

ClosureNodes ==
  UNION {{t \in Targets(r) : t[2] # NoVersion} :
           r \in {r \in Expanded : r.to[1] \in Resolvable \cap Schemed}}
ClosureEdges ==
  {l \in SeedLinks : l.to[2] # NoVersion}
    \cup (UNION {{[r EXCEPT !.to = t] : t \in Targets(r)} : r \in Expanded})
    \cup {k \in UNION {Needs(r) : r \in Expanded} : SkipScope(k)}
    \cup (LevelReqs[MaxDepth + 1] \ Expanded)

(* Nothing outside the program interfered and no version was left unread.  *)
Undisturbed == lost = {} /\ ~missed /\ ~expired

(* However the goroutines interleave, an undisturbed walk returns exactly  *)
(* the closure: it expands the versions within MaxDepth levels of the root *)
(* and no others, and its edges are theirs and the named frontier's.       *)
ClosureExact ==
  phase = "done" /\ Undisturbed =>
    /\ visited = ClosureNodes
    /\ {e \in edges : e.to[1] # Unparsed} = ClosureEdges
==============================================================================
