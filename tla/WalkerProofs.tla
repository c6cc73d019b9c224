----------------------------- MODULE WalkerProofs ----------------------------
(***************************************************************************)
(* What is proved of the walk, for every repository, registry, set of      *)
(* goroutines and bounds that meet the assumptions of module Walker.       *)
(***************************************************************************)
EXTENDS WalkerReference, FiniteSetTheorems, WellFoundedInduction, TLAPS

NodeMaps == [Ids -> Facts \cup {Absent}]

-----------------------------------------------------------------------------
(* Adding facts to the graph.                                              *)

(* Whatever a node is upgraded with, it is the old fact or the new one,    *)
(* and changes only when the new one ranks higher.                         *)
LEMMA UpgradeChoice ==
  ASSUME NEW old, NEW new
  PROVE  /\ Upgrade(old, new) = old \/ Upgrade(old, new) = new
         /\ Upgrade(old, new) # old => ~(Rank(new.comp) <= Rank(old.comp))
BY DEF Upgrade

(* Every completeness a node can have outranks a node that is not there.   *)
LEMMA RankOfAbsent == Absent.comp = "absent" /\ Rank(Absent.comp) = -1
<1>1. Absent.comp = "absent"
  BY DEF Absent, Fact
<1>2. Rank("absent") = -1
  BY DEF Rank
<1> QED BY <1>1, <1>2

LEMMA RankOfFact ==
  ASSUME NEW f \in Facts
  PROVE  Rank(f.comp) \in 0..3 /\ f.comp # "absent" /\ f # Absent
<1>1. f.comp \in {"resolved", "inferred", "declared", "opaque"}
  BY DEF Facts, Completeness
<1>2. /\ Rank("resolved") = 3 /\ Rank("inferred") = 2
      /\ Rank("declared") = 1 /\ Rank("opaque") = 0
  BY DEF Rank
<1> QED BY <1>1, <1>2, RankOfAbsent

LEMMA RankIsInt ==
  ASSUME NEW f \in Facts \cup {Absent}
  PROVE  Rank(f.comp) \in -1..3
<1>1. CASE f \in Facts
  BY <1>1, RankOfFact
<1>2. CASE f = Absent
  BY <1>2, RankOfAbsent
<1> QED BY <1>1, <1>2

(* AddAll keeps the map well typed, takes no node away, leaves every id it *)
(* was given present, and touches no other id.                             *)
LEMMA AddAllFacts ==
  ASSUME NEW g \in NodeMaps, NEW S, NEW fact \in Facts
  PROVE  /\ AddAll(g, S, fact) \in NodeMaps
         /\ Present(g) \subseteq Present(AddAll(g, S, fact))
         /\ S \cap Ids \subseteq Present(AddAll(g, S, fact))
         /\ Present(AddAll(g, S, fact)) \subseteq Present(g) \cup S
         /\ \A id \in Ids : \/ AddAll(g, S, fact)[id] = g[id]
                            \/ /\ id \in S /\ AddAll(g, S, fact)[id] = fact
                               /\ Rank(fact.comp) > Rank(g[id].comp)
<1> DEFINE h == AddAll(g, S, fact)
<1>1. DOMAIN g = Ids /\ h = [id \in Ids |-> IF id \in S THEN Upgrade(g[id], fact) ELSE g[id]]
  BY DEF NodeMaps, AddAll
<1>2. \A id \in Ids : g[id] \in Facts \cup {Absent}
  BY DEF NodeMaps
<1>3. ASSUME NEW id \in Ids
      PROVE  \/ h[id] = g[id] /\ (id \in S => Rank(fact.comp) <= Rank(g[id].comp))
             \/ /\ id \in S /\ h[id] = fact
                /\ Rank(fact.comp) > Rank(g[id].comp)
  <2>1. Rank(g[id].comp) \in -1..3 /\ Rank(fact.comp) \in -1..3
    BY <1>2, RankIsInt
  <2>2. h[id] = IF id \in S THEN Upgrade(g[id], fact) ELSE g[id]
    BY <1>1
  <2> HIDE DEF h
  <2>3. CASE Rank(fact.comp) <= Rank(g[id].comp)
    BY <2>2, <2>3 DEF Upgrade
  <2>4. CASE Rank(fact.comp) > Rank(g[id].comp)
    BY <2>1, <2>2, <2>4 DEF Upgrade
  <2> QED BY <2>1, <2>3, <2>4
<1>4. h \in NodeMaps
  BY <1>1, <1>2, <1>3 DEF NodeMaps
<1>5. DOMAIN h = Ids
  BY <1>1
<1>6. ASSUME NEW id \in Ids, id \in S
      PROVE  h[id].comp # "absent"
  <2> HIDE DEF h
  <2>1. CASE h[id] = fact
    BY <2>1, RankOfFact
  <2>2. CASE h[id] = g[id] /\ Rank(fact.comp) <= Rank(g[id].comp)
    <3>1. Rank(fact.comp) \in 0..3
      BY RankOfFact
    <3>2. g[id] # Absent
      BY <2>2, <3>1, RankOfAbsent
    <3>3. g[id] \in Facts
      BY <1>2, <3>2
    <3> QED BY <2>2, <3>3, RankOfFact
  <2> QED BY <1>3, <1>6, <2>1, <2>2
<1>7. fact.comp # "absent"
  BY RankOfFact
<1> HIDE DEF h
<1>8. \A id \in Ids : g[id].comp # "absent" => h[id].comp # "absent"
  BY <1>3, <1>7
<1>9. \A id \in Ids : h[id].comp # "absent" => g[id].comp # "absent" \/ id \in S
  BY <1>3
<1>10. /\ Present(g) = {id \in Ids : g[id].comp # "absent"}
       /\ Present(h) = {id \in Ids : h[id].comp # "absent"}
  BY <1>1, <1>5 DEF Present
<1> QED BY <1>3, <1>4, <1>6, <1>8, <1>9, <1>10 DEF h

-----------------------------------------------------------------------------
(* Requirements, edges and choices.                                        *)

(* What a version requires has the shape of a requirement, from itself.    *)
LEMMA KidsAreReqs ==
  ASSUME NEW p \in Package, NEW v \in Version
  PROVE  /\ Kids(p, v) \subseteq Reqs
         /\ \A k \in Kids(p, v) : k.from = <<p, v>>
<1>1. Requires[p][v] \subseteq Deps
  <2>1. Requires \in [Package -> [Version -> SUBSET Deps]]
    BY WorldAssumption
  <2>2. Requires[p] \in [Version -> SUBSET Deps]
    BY <2>1
  <2> QED BY <2>2
<1>2. <<p, v>> \in Ids
  BY DEF Ids
<1>3. ASSUME NEW d \in Deps
      PROVE  [from |-> <<p, v>>, to |-> <<d.name, NoVersion>>,
              spec |-> d.spec, scope |-> d.scope] \in Reqs
  BY <1>2 DEF Reqs, Deps
<1>4. ASSUME NEW k \in Kids(p, v)
      PROVE  k \in Reqs /\ k.from = <<p, v>>
  <2>1. PICK d \in Requires[p][v] :
          k = [from |-> <<p, v>>, to |-> <<d.name, NoVersion>>,
               spec |-> d.spec, scope |-> d.scope]
    BY DEF Kids
  <2> QED BY <1>1, <1>3, <2>1
<1> QED BY <1>4

(* A requirement can stand as an edge, and so can what it is linked to.    *)
LEMMA ReqsAreEdges == Reqs \subseteq Edges
BY DEF Reqs, Edges, Ids

LEMMA ReqParts ==
  ASSUME NEW r \in Reqs
  PROVE  /\ r.to[1] \in Package /\ r.to = <<r.to[1], NoVersion>>
         /\ r.to \in Ids /\ r.from \in Ids /\ r.spec \in Spec /\ r.scope \in Scope
BY DEF Reqs, Ids

LEMMA LinkParts ==
  ASSUME NEW r \in Reqs, NEW v \in Version
  PROVE  /\ Link(r, v) \in Edges
         /\ Link(r, v).to = <<r.to[1], v>> /\ Link(r, v).from = r.from
         /\ <<r.to[1], v>> \in Ids
         /\ [Link(r, v) EXCEPT !.to = <<Link(r, v).to[1], NoVersion>>] = r
<1>1. /\ r.to[1] \in Package
      /\ r = [from |-> r.from, to |-> <<r.to[1], NoVersion>>,
              spec |-> r.spec, scope |-> r.scope]
  BY DEF Reqs
<1>2. Link(r, v) = [from |-> r.from, to |-> <<r.to[1], v>>,
                    spec |-> r.spec, scope |-> r.scope]
  BY DEF Link, Reqs
<1>3. <<r.to[1], v>> \in Ids
  BY <1>1 DEF Ids
<1> QED BY <1>1, <1>2, <1>3, ReqParts DEF Edges

(* Only versions are chosen, and only ones listed and available.           *)
LEMMA ChosenAreVersions ==
  ASSUME NEW r \in Reqs, ~PinMissing(r.to[1])
  PROVE  Chosen(r) \subseteq Version /\ Chosen(r) \subseteq Available(r.to[1])
<1> DEFINE p == r.to[1]
<1>1. p \in Package
  BY ReqParts
<1>2. Available(p) \subseteq Version
  BY <1>1, WorldAssumption DEF Available
<1>3. CASE Pinned(p)
  BY <1>2, <1>3 DEF PinMissing, Chosen
<1>4. CASE ~Pinned(p)
  BY <1>2, <1>4 DEF Chosen, Enumerate, Newest
<1> QED BY <1>3, <1>4

-----------------------------------------------------------------------------
(* The type invariant, and what it needs to be inductive: a goroutine      *)
(* holds versions and requirements only while it reads requirements, and   *)
(* only versions that are marked visited.                                  *)
HandsClean ==
  \A w \in Worker :
    /\ InHand(w) \subseteq visited
    /\ job[w].pc # "requirements" =>
         job[w].unseen = {} /\ job[w].kids = {} /\ job[w].skipped = {}
TypeInv == TypeOK /\ HandsClean

(* Where the lemmas about steps start: an active goroutine's requirement.  *)
LEMMA ActiveReq ==
  ASSUME TypeInv, NEW w \in Worker, job[w].pc # "idle"
  PROVE  /\ job[w].req \in Reqs /\ job[w] \in Jobs
         /\ job[w].unseen \subseteq Version
         /\ job[w].kids \subseteq Reqs /\ job[w].skipped \subseteq Reqs
BY DEF TypeInv, TypeOK, Jobs

LEMMA TypeInit == Init => TypeInv
<1> SUFFICES ASSUME Init PROVE TypeInv
  OBVIOUS
<1>1. \A w \in Worker : job[w] = Idle
  BY DEF Init
<1>2. job \in [Worker -> Jobs]
  BY DEF Init, Idle, Jobs
<1>3. node \in [Ids -> Facts \cup {Absent}]
  BY DEF Init, Facts, Resolved, Fact, Completeness, Reasons
<1>4. 1 \in 1..(NumFiles + 1) /\ 1 \in 1..MaxDepth
  BY BoundsAssumption
<1>5. TypeOK
  BY <1>1, <1>2, <1>3, <1>4 DEF Init, TypeOK, Idle
<1>6. HandsClean
  BY <1>1 DEF HandsClean, InHand, Idle
<1> QED BY <1>5, <1>6 DEF TypeInv

(* One goroutine changes hands and the others do not.                      *)
LEMMA JobStep ==
  ASSUME NEW w \in Worker, NEW j \in Jobs, job \in [Worker -> Jobs],
         job' = [job EXCEPT ![w] = j]
  PROVE  /\ job' \in [Worker -> Jobs] /\ job'[w] = j
         /\ \A u \in Worker \ {w} : job'[u] = job[u]
OBVIOUS

(* What a change of one goroutine's hands must respect.                    *)
LEMMA HandStep ==
  ASSUME TypeInv, NEW w \in Worker, NEW j \in Jobs,
         job' = [job EXCEPT ![w] = j],
         visited \subseteq visited',
         j.pc # "idle" => j.req # NoReq,
         j.pc # "requirements" => j.unseen = {} /\ j.kids = {} /\ j.skipped = {},
         \A v \in j.unseen : <<j.req.to[1], v>> \in visited'
  PROVE  /\ job' \in [Worker -> Jobs]
         /\ \A u \in Worker : job'[u].pc # "idle" => job'[u].req # NoReq
         /\ HandsClean'
<1>1. /\ job' \in [Worker -> Jobs] /\ job'[w] = j
      /\ \A u \in Worker \ {w} : job'[u] = job[u]
  BY JobStep DEF TypeInv, TypeOK
<1>2. ASSUME NEW u \in Worker
      PROVE  /\ job'[u].pc # "idle" => job'[u].req # NoReq
             /\ {<<job'[u].req.to[1], v>> : v \in job'[u].unseen} \subseteq visited'
             /\ job'[u].pc # "requirements" =>
                  job'[u].unseen = {} /\ job'[u].kids = {} /\ job'[u].skipped = {}
  <2>1. CASE u = w
    BY <1>1, <2>1
  <2>2. CASE u # w
    BY <1>1, <2>2 DEF TypeInv, TypeOK, HandsClean, InHand
  <2> QED BY <2>1, <2>2
<1> QED BY <1>1, <1>2 DEF HandsClean, InHand

-----------------------------------------------------------------------------
(* Each action preserves the type invariant.                               *)

Declareds == {"bound:depth", "bound:nodes", "bound:timeout", "offline",
              "no-scheme", "unpinned-ref", "error:parse", "error:fetch",
              "error:pin-not-found", "error:badrange", "dev-not-installed"}

LEMMA FactTypes ==
  /\ Resolved \in Facts
  /\ \A why \in Declareds : Declared(why) \in Facts
BY DEF Resolved, Declared, Fact, Facts, Completeness, Reasons, Declareds

(* Marking a requirement declared adds its node and the edge to it.        *)
LEMMA MarkDeclaredStep ==
  ASSUME TypeOK, NEW r \in Reqs, NEW why \in Declareds, MarkDeclared(r, why)
  PROVE  /\ node' \in NodeMaps /\ edges' \subseteq Edges /\ visited' = visited
         /\ Present(node) \subseteq Present(node')
         /\ r.to \in Present(node')
         /\ Present(node') \subseteq Present(node) \cup {r.to}
         /\ edges' = edges \cup {r}
<1>1. node \in NodeMaps /\ Declared(why) \in Facts
  BY FactTypes DEF TypeOK, NodeMaps
<1>2. r.to \in Ids
  BY ReqParts
<1>3. node' = AddAll(node, {r.to}, Declared(why))
  BY DEF MarkDeclared
<1>4. /\ node' \in NodeMaps /\ Present(node) \subseteq Present(node')
      /\ {r.to} \cap Ids \subseteq Present(node')
      /\ Present(node') \subseteq Present(node) \cup {r.to}
  BY <1>1, <1>3, AddAllFacts
<1> QED BY <1>2, <1>4, ReqsAreEdges DEF MarkDeclared, TypeOK

(* A goroutine whose requirement is settled still holds it.                *)
LEMMA SettledStep ==
  ASSUME TypeInv, NEW w \in Worker, job[w].pc # "idle", visited \subseteq visited',
         NEW e \in BOOLEAN,
         job' = [job EXCEPT ![w] = [job[w] EXCEPT !.pc = "requirements", !.err = e]]
  PROVE  /\ job' \in [Worker -> Jobs]
         /\ \A u \in Worker : job'[u].pc # "idle" => job'[u].req # NoReq
         /\ HandsClean'
<1> DEFINE j == [job[w] EXCEPT !.pc = "requirements", !.err = e]
<1>1. job[w] \in Jobs /\ job[w].req # NoReq
  BY DEF TypeInv, TypeOK
<1>2. /\ j \in Jobs /\ j.req = job[w].req /\ j.pc = "requirements"
      /\ j.unseen = job[w].unseen
  BY <1>1 DEF Jobs
<1>3. \A v \in job[w].unseen : <<job[w].req.to[1], v>> \in visited
  BY DEF TypeInv, HandsClean, InHand
<1> HIDE DEF j
<1>4. job' = [job EXCEPT ![w] = j]
  BY DEF j
<1> QED BY <1>1, <1>2, <1>3, <1>4, HandStep

LEMMA SettledIsStep ==
  ASSUME TypeInv, NEW w \in Worker, Settled(w)
  PROVE  job' = [job EXCEPT ![w] =
                   [job[w] EXCEPT !.pc = "requirements", !.err = job[w].err]]
         /\ job[w].err \in BOOLEAN
<1>1. job[w] \in Jobs /\ job \in [Worker -> Jobs]
  BY DEF TypeInv, TypeOK
<1>2. [job[w] EXCEPT !.pc = "requirements", !.err = job[w].err]
        = [job[w] EXCEPT !.pc = "requirements"]
  BY <1>1 DEF Jobs
<1> QED BY <1>1, <1>2 DEF Settled, Jobs

(* A step that settles a requirement and changes the graph well.           *)
LEMMA SettledType ==
  ASSUME TypeInv, NEW w \in Worker, job[w].pc # "idle", Settled(w),
         node' \in NodeMaps, edges' \subseteq Edges, visited' = visited,
         UNCHANGED <<phase, nextFile, level, firstErr, expired, fetched, lost>>,
         missed' \in BOOLEAN
  PROVE  TypeInv'
<1>1. /\ job' \in [Worker -> Jobs]
      /\ \A u \in Worker : job'[u].pc # "idle" => job'[u].req # NoReq
      /\ HandsClean'
  BY SettledIsStep, SettledStep
<1> QED BY <1>1 DEF TypeInv, TypeOK, NodeMaps, level

LEMMA UnresolvableType ==
  ASSUME TypeInv, NEW w \in Worker, Unresolvable(w)
  PROVE  TypeInv'
<1> DEFINE r == job[w].req
           v == IF r.to[1] \in Schemed THEN ExactOf[r.spec] ELSE NoVersion
<1>1. job[w].pc # "idle" /\ r \in Reqs
  BY ActiveReq DEF Unresolvable
<1>2. node' \in NodeMaps /\ edges' \subseteq Edges /\ visited' = visited
  <2>1. CASE v # NoVersion
    <3>1. v \in Version
      <4>1. r.spec \in Spec /\ ExactOf \in [Spec -> Version \cup {NoVersion}]
        BY <1>1, ReqParts, WorldAssumption
      <4>2. ExactOf[r.spec] \in Version \cup {NoVersion}
        BY <4>1
      <4> QED BY <2>1, <4>2
    <3>2. /\ node' = AddAll(node, {Link(r, v).to}, Resolved)
          /\ edges' = edges \cup {Link(r, v)} /\ visited' = visited
      BY <2>1 DEF Unresolvable
    <3>3. node \in NodeMaps /\ edges \subseteq Edges
      BY DEF TypeInv, TypeOK, NodeMaps
    <3> HIDE DEF v, r
    <3>4. node' \in NodeMaps
      BY <3>2, <3>3, FactTypes, AddAllFacts
    <3> QED BY <1>1, <3>1, <3>2, <3>3, <3>4, LinkParts
  <2>2. CASE v = NoVersion
    <3>1. MarkDeclared(r, "offline")
      BY <2>2 DEF Unresolvable
    <3>2. "offline" \in Declareds
      BY DEF Declareds
    <3> QED BY <1>1, <3>1, <3>2, MarkDeclaredStep DEF TypeInv
  <2> QED BY <2>1, <2>2
<1>3. /\ Settled(w) /\ UNCHANGED <<phase, nextFile, level, firstErr, expired, fetched, lost>>
      /\ missed' \in BOOLEAN
  BY DEF Unresolvable, hist, TypeInv, TypeOK
<1> QED BY <1>1, <1>2, <1>3, SettledType

(* The steps that mark a requirement declared and settle it.               *)
LEMMA DeclaredType ==
  ASSUME TypeInv, NEW w \in Worker, job[w].pc # "idle", NEW why \in Declareds,
         MarkDeclared(job[w].req, why), Settled(w),
         UNCHANGED <<phase, nextFile, level, firstErr, expired, fetched, lost>>,
         missed' \in BOOLEAN
  PROVE  TypeInv'
<1>1. job[w].req \in Reqs /\ TypeOK
  BY ActiveReq DEF TypeInv
<1>2. node' \in NodeMaps /\ edges' \subseteq Edges /\ visited' = visited
  BY <1>1, MarkDeclaredStep
<1> QED BY <1>2, SettledType

LEMMA NoSchemeType ==
  ASSUME TypeInv, NEW w \in Worker, NoScheme(w)
  PROVE  TypeInv'
<1>1. "no-scheme" \in Declareds
  BY DEF Declareds
<1> QED BY <1>1, DeclaredType DEF NoScheme, hist, TypeInv, TypeOK

LEMMA VersionsFailType ==
  ASSUME TypeInv, NEW w \in Worker, VersionsFail(w)
  PROVE  TypeInv'
<1> DEFINE why == IF expired THEN "bound:timeout" ELSE "error:fetch"
<1>1. why \in Declareds
  BY DEF Declareds
<1>2. job[w].pc # "idle" /\ MarkDeclared(job[w].req, why) /\ Settled(w)
  BY DEF VersionsFail, Asks
<1> HIDE DEF why
<1> QED BY <1>1, <1>2, DeclaredType DEF VersionsFail

LEMMA UnchoosableType ==
  ASSUME TypeInv, NEW w \in Worker, Unchoosable(w)
  PROVE  TypeInv'
<1> DEFINE why == IF PinMissing(job[w].req.to[1]) THEN "error:pin-not-found"
                                                  ELSE "error:badrange"
<1>1. why \in Declareds
  BY DEF Declareds
<1>2. job[w].pc # "idle" /\ MarkDeclared(job[w].req, why) /\ Settled(w)
  BY DEF Unchoosable, Asks
<1> HIDE DEF why
<1> QED BY <1>1, <1>2, DeclaredType DEF Unchoosable, hist, TypeInv, TypeOK

LEMMA AsOfFailsType ==
  ASSUME TypeInv, NEW w \in Worker, AsOfFails(w)
  PROVE  TypeInv'
<1>1. job[w].pc # "idle"
  BY DEF AsOfFails, Asks
<1>2. job' = [job EXCEPT ![w] = [job[w] EXCEPT !.pc = "requirements", !.err = TRUE]]
  BY DEF AsOfFails, TypeInv, TypeOK
<1>3. visited' = visited
  BY DEF AsOfFails, graph
<1>4. /\ job' \in [Worker -> Jobs]
      /\ \A u \in Worker : job'[u].pc # "idle" => job'[u].req # NoReq
      /\ HandsClean'
  BY <1>1, <1>2, <1>3, SettledStep
<1> QED BY <1>4 DEF AsOfFails, TypeInv, TypeOK, level, graph, hist

LEMMA SpawnType ==
  ASSUME TypeInv, NEW w \in Worker, Spawn(w)
  PROVE  TypeInv'
<1>1. PICK r \in pending :
        /\ pending' = pending \ {r}
        /\ job' = [job EXCEPT ![w].pc = "versions", ![w].req = r]
  BY DEF Spawn
<1> DEFINE j == [job[w] EXCEPT !.pc = "versions", !.req = r]
<1>2. job[w] \in Jobs /\ job[w].pc = "idle" /\ r \in Reqs
  BY DEF Spawn, TypeInv, TypeOK
<1>3. job[w].unseen = {} /\ job[w].kids = {} /\ job[w].skipped = {}
  BY <1>2 DEF TypeInv, HandsClean
<1>4. /\ j \in Jobs /\ j.req = r /\ j.pc = "versions"
      /\ j.unseen = {} /\ j.kids = {} /\ j.skipped = {}
  BY <1>2, <1>3 DEF Jobs
<1>5. job' = [job EXCEPT ![w] = j]
  BY <1>1 DEF TypeInv, TypeOK
<1>6. r # NoReq /\ visited' = visited
  BY <1>2, WorldAssumption DEF Spawn, graph
<1> HIDE DEF j
<1>7. /\ job' \in [Worker -> Jobs]
      /\ \A u \in Worker : job'[u].pc # "idle" => job'[u].req # NoReq
      /\ HandsClean'
  BY <1>4, <1>5, <1>6, HandStep
<1> QED BY <1>1, <1>7 DEF Spawn, TypeInv, TypeOK, graph, hist

(* What RecordChosen does to the graph and to the goroutine's hands.       *)
LEMMA RecordChosenStep ==
  ASSUME TypeInv, NEW w \in Worker, RecordChosen(w)
  PROVE  LET r    == job[w].req
             kept == {<<r.to[1], v>> : v \in Chosen(r) \ Cut(r)}
             cut  == {<<r.to[1], v>> : v \in Cut(r)}
             j    == [job[w] EXCEPT !.pc = "requirements", !.unseen = Unseen(r)]
         IN  /\ r \in Reqs /\ job[w].pc = "versions"
             /\ Chosen(r) \subseteq Version
             /\ Chosen(r) \subseteq Available(r.to[1])
             /\ Cut(r) \subseteq Chosen(r) /\ Unseen(r) \subseteq Chosen(r) \ Cut(r)
             /\ kept \subseteq Ids /\ cut \subseteq Ids
             /\ job' = [job EXCEPT ![w] = j] /\ j \in Jobs
             /\ j.req = r /\ j.pc = "requirements" /\ j.unseen = Unseen(r)
             /\ j.kids = {} /\ j.skipped = {} /\ j.err = job[w].err
             /\ node' \in NodeMaps /\ edges' \subseteq Edges
             /\ Present(node) \subseteq Present(node')
             /\ kept \cup cut \subseteq Present(node')
             /\ Present(node') \subseteq Present(node) \cup kept \cup cut
             /\ visited' = visited \cup kept
             /\ edges' = edges \cup {Link(r, v) : v \in Chosen(r)}
<1> DEFINE r    == job[w].req
           kept == {<<r.to[1], v>> : v \in Chosen(r) \ Cut(r)}
           cut  == {<<r.to[1], v>> : v \in Cut(r)}
           j    == [job[w] EXCEPT !.pc = "requirements", !.unseen = Unseen(r)]
           mid  == AddAll(node, kept, Resolved)
<1>1. /\ job[w].pc = "versions" /\ ~PinMissing(r.to[1])
      /\ node' = AddAll(mid, cut, Declared("bound:nodes"))
      /\ edges' = edges \cup {Link(r, v) : v \in Chosen(r)}
      /\ visited' = visited \cup kept
      /\ job' = [job EXCEPT ![w].pc = "requirements", ![w].unseen = Unseen(r)]
  BY DEF RecordChosen, Asks
<1>2. r \in Reqs /\ job[w] \in Jobs
  BY <1>1, ActiveReq
<1>3. Chosen(r) \subseteq Version /\ Chosen(r) \subseteq Available(r.to[1])
  BY <1>1, <1>2, ChosenAreVersions
<1>4. Cut(r) \subseteq Chosen(r) /\ Unseen(r) \subseteq Chosen(r) \ Cut(r)
  BY DEF Cut, Unseen
<1>5. kept \subseteq Ids /\ cut \subseteq Ids
  BY <1>2, <1>3, <1>4, LinkParts
<1>6. job' = [job EXCEPT ![w] = j]
  BY <1>1 DEF TypeInv, TypeOK
<1>7. job[w].kids = {} /\ job[w].skipped = {}
  BY <1>1 DEF TypeInv, HandsClean
<1>8. /\ j \in Jobs /\ j.req = r /\ j.pc = "requirements" /\ j.unseen = Unseen(r)
      /\ j.kids = {} /\ j.skipped = {} /\ j.err = job[w].err
  BY <1>2, <1>3, <1>4, <1>7 DEF Jobs
<1>9. edges' \subseteq Edges
  <2>1. \A v \in Chosen(r) : Link(r, v) \in Edges
    BY <1>2, <1>3, LinkParts
  <2>2. edges \subseteq Edges
    BY DEF TypeInv, TypeOK
  <2> HIDE DEF r
  <2> QED BY <1>1, <2>1, <2>2
<1>10. /\ node' \in NodeMaps
       /\ Present(node) \subseteq Present(node')
       /\ kept \cup cut \subseteq Present(node')
       /\ Present(node') \subseteq Present(node) \cup kept \cup cut
  <2> HIDE DEF kept, cut
  <2>1. node \in NodeMaps /\ Resolved \in Facts
    BY FactTypes DEF TypeInv, TypeOK, NodeMaps
  <2>2. Declared("bound:nodes") \in Facts
    BY FactTypes DEF Declareds
  <2>3. /\ mid \in NodeMaps /\ Present(node) \subseteq Present(mid)
        /\ kept \cap Ids \subseteq Present(mid)
        /\ Present(mid) \subseteq Present(node) \cup kept
    BY <2>1, AddAllFacts
  <2> HIDE DEF mid
  <2>4. /\ node' \in NodeMaps /\ Present(mid) \subseteq Present(node')
        /\ cut \cap Ids \subseteq Present(node')
        /\ Present(node') \subseteq Present(mid) \cup cut
    BY <1>1, <2>2, <2>3, AddAllFacts
  <2> QED BY <1>5, <2>3, <2>4
<1> QED BY <1>1, <1>2, <1>3, <1>4, <1>5, <1>6, <1>8, <1>9, <1>10

LEMMA RecordChosenType ==
  ASSUME TypeInv, NEW w \in Worker, RecordChosen(w)
  PROVE  TypeInv'
<1> DEFINE r    == job[w].req
           kept == {<<r.to[1], v>> : v \in Chosen(r) \ Cut(r)}
           j    == [job[w] EXCEPT !.pc = "requirements", !.unseen = Unseen(r)]
<1>1. /\ r \in Reqs /\ job[w].pc = "versions" /\ Chosen(r) \subseteq Version
      /\ Unseen(r) \subseteq Chosen(r) \ Cut(r)
      /\ job' = [job EXCEPT ![w] = j] /\ j \in Jobs
      /\ j.req = r /\ j.pc = "requirements" /\ j.unseen = Unseen(r)
      /\ node' \in NodeMaps /\ edges' \subseteq Edges
      /\ visited' = visited \cup kept
  BY RecordChosenStep
<1>2. kept \subseteq Package \X Version
  BY <1>1, ReqParts
<1>3. \A v \in j.unseen : <<j.req.to[1], v>> \in visited'
  BY <1>1
<1>4. r # NoReq
  BY <1>1, WorldAssumption
<1> HIDE DEF j, kept
<1>5. /\ job' \in [Worker -> Jobs]
      /\ \A u \in Worker : job'[u].pc # "idle" => job'[u].req # NoReq
      /\ HandsClean'
  BY <1>1, <1>3, <1>4, HandStep
<1> QED BY <1>1, <1>2, <1>5
        DEF RecordChosen, TypeInv, TypeOK, NodeMaps, level, hist

(* A goroutine takes one more of its versions off its hands.               *)
LEMMA ReadRequirementsStep ==
  ASSUME TypeInv, NEW w \in Worker, job[w].pc = "requirements",
         NEW v \in job[w].unseen
  PROVE  LET p == job[w].req.to[1]
             j == [job[w] EXCEPT
                     !.unseen  = @ \ {v},
                     !.kids    = @ \cup {k \in Kids(p, v) : ~SkipScope(k)},
                     !.skipped = @ \cup {k \in Kids(p, v) : SkipScope(k)}]
         IN  /\ p \in Package /\ v \in Version /\ <<p, v>> \in visited
             /\ job[w].req \in Reqs
             /\ j \in Jobs /\ j.req = job[w].req /\ j.pc = "requirements"
             /\ j.unseen = job[w].unseen \ {v} /\ j.err = job[w].err
             /\ j.kids \cup j.skipped =
                  job[w].kids \cup job[w].skipped \cup Kids(p, v)
<1> DEFINE p == job[w].req.to[1]
           j == [job[w] EXCEPT
                   !.unseen  = @ \ {v},
                   !.kids    = @ \cup {k \in Kids(p, v) : ~SkipScope(k)},
                   !.skipped = @ \cup {k \in Kids(p, v) : SkipScope(k)}]
<1>1. job[w].req \in Reqs /\ job[w] \in Jobs /\ job[w].unseen \subseteq Version
  BY ActiveReq
<1>2. p \in Package /\ v \in Version
  BY <1>1, ReqParts
<1>3. <<p, v>> \in visited
  BY DEF TypeInv, HandsClean, InHand
<1>4. Kids(p, v) \subseteq Reqs
  BY <1>2, KidsAreReqs
<1>5. /\ j \in Jobs /\ j.req = job[w].req /\ j.pc = "requirements"
      /\ j.unseen = job[w].unseen \ {v} /\ j.err = job[w].err
      /\ j.kids \cup j.skipped = job[w].kids \cup job[w].skipped \cup Kids(p, v)
  BY <1>1, <1>4 DEF Jobs
<1> QED BY <1>1, <1>2, <1>3, <1>5

LEMMA ReadRequirementsType ==
  ASSUME TypeInv, NEW w \in Worker, ReadRequirements(w)
  PROVE  TypeInv'
<1> DEFINE p == job[w].req.to[1]
<1>1. PICK v \in job[w].unseen :
        /\ job' = [job EXCEPT
             ![w].unseen  = @ \ {v},
             ![w].kids    = @ \cup {k \in Kids(p, v) : ~SkipScope(k)},
             ![w].skipped = @ \cup {k \in Kids(p, v) : SkipScope(k)}]
        /\ fetched' = fetched \cup {<<p, v>>}
  BY DEF ReadRequirements
<1> DEFINE j == [job[w] EXCEPT
                   !.unseen  = @ \ {v},
                   !.kids    = @ \cup {k \in Kids(p, v) : ~SkipScope(k)},
                   !.skipped = @ \cup {k \in Kids(p, v) : SkipScope(k)}]
<1>2. job' = [job EXCEPT ![w] = j]
  BY <1>1 DEF TypeInv, TypeOK
<1>3. /\ j \in Jobs /\ j.req = job[w].req /\ j.pc = "requirements"
      /\ j.unseen = job[w].unseen \ {v} /\ <<p, v>> \in visited
  BY ReadRequirementsStep DEF ReadRequirements
<1>4. \A u \in job[w].unseen : <<p, u>> \in visited
  BY DEF TypeInv, HandsClean, InHand
<1>5. j.req # NoReq /\ visited' = visited
  BY <1>3 DEF ReadRequirements, TypeInv, TypeOK, graph
<1> HIDE DEF j
<1>6. /\ job' \in [Worker -> Jobs]
      /\ \A u \in Worker : job'[u].pc # "idle" => job'[u].req # NoReq
      /\ HandsClean'
  BY <1>2, <1>3, <1>4, <1>5, HandStep
<1> QED BY <1>1, <1>3, <1>6
        DEF ReadRequirements, TypeInv, TypeOK, level, graph

LEMMA RequirementsFailStep ==
  ASSUME TypeInv, NEW w \in Worker, job[w].pc = "requirements",
         NEW v \in job[w].unseen
  PROVE  LET j == [job[w] EXCEPT !.unseen = @ \ {v}]
         IN  /\ j \in Jobs /\ j.req = job[w].req /\ j.pc = "requirements"
             /\ j.unseen = job[w].unseen \ {v}
             /\ j.kids = job[w].kids /\ j.skipped = job[w].skipped
             /\ j.err = job[w].err
             /\ <<job[w].req.to[1], v>> \in visited
<1>1. job[w] \in Jobs
  BY DEF TypeInv, TypeOK
<1>2. <<job[w].req.to[1], v>> \in visited
  BY DEF TypeInv, HandsClean, InHand
<1> QED BY <1>1, <1>2 DEF Jobs

LEMMA RequirementsFailType ==
  ASSUME TypeInv, NEW w \in Worker, RequirementsFail(w)
  PROVE  TypeInv'
<1> DEFINE p == job[w].req.to[1]
<1>1. PICK v \in job[w].unseen :
        /\ job' = [job EXCEPT ![w].unseen = @ \ {v}]
        /\ lost' = lost \cup {<<p, v>>}
  BY DEF RequirementsFail
<1> DEFINE j == [job[w] EXCEPT !.unseen = @ \ {v}]
<1>2. job' = [job EXCEPT ![w] = j]
  BY <1>1 DEF TypeInv, TypeOK
<1>3. /\ j \in Jobs /\ j.req = job[w].req /\ j.pc = "requirements"
      /\ j.unseen = job[w].unseen \ {v} /\ <<p, v>> \in visited
  BY RequirementsFailStep DEF RequirementsFail
<1>4. \A u \in job[w].unseen : <<p, u>> \in visited
  BY DEF TypeInv, HandsClean, InHand
<1>5. j.req # NoReq /\ visited' = visited
  BY <1>3 DEF RequirementsFail, TypeInv, TypeOK, graph
<1> HIDE DEF j
<1>6. /\ job' \in [Worker -> Jobs]
      /\ \A u \in Worker : job'[u].pc # "idle" => job'[u].req # NoReq
      /\ HandsClean'
  BY <1>2, <1>3, <1>4, <1>5, HandStep
<1> QED BY <1>1, <1>3, <1>6
        DEF RequirementsFail, TypeInv, TypeOK, level, graph

(* Several requirements are marked declared at once.                       *)
LEMMA MarkManyStep ==
  ASSUME TypeOK, NEW S \in SUBSET Reqs, NEW why \in Declareds,
         node' = AddAll(node, {r.to : r \in S}, Declared(why)),
         edges' = edges \cup S
  PROVE  /\ node' \in NodeMaps /\ edges' \subseteq Edges
         /\ Present(node) \subseteq Present(node')
         /\ {r.to : r \in S} \subseteq Present(node')
         /\ Present(node') \subseteq Present(node) \cup {r.to : r \in S}
<1> DEFINE T == {r.to : r \in S}
<1>1. node \in NodeMaps /\ Declared(why) \in Facts
  BY FactTypes DEF TypeOK, NodeMaps
<1>2. T \subseteq Ids
  BY ReqParts
<1> HIDE DEF T
<1>3. /\ node' \in NodeMaps /\ Present(node) \subseteq Present(node')
      /\ T \cap Ids \subseteq Present(node')
      /\ Present(node') \subseteq Present(node) \cup T
  BY <1>1, AddAllFacts DEF T
<1>4. edges' \subseteq Edges
  BY ReqsAreEdges DEF TypeOK
<1> QED BY <1>2, <1>3, <1>4 DEF T

LEMMA MarkSkippedType ==
  ASSUME TypeInv, NEW w \in Worker, MarkSkipped(w)
  PROVE  TypeInv'
<1> DEFINE j == [job[w] EXCEPT !.skipped = {}]
<1>1. job[w] \in Jobs /\ job[w].pc = "requirements" /\ job[w].req # NoReq
  BY DEF MarkSkipped, TypeInv, TypeOK
<1>2. node' \in NodeMaps /\ edges' \subseteq Edges /\ visited' = visited
  <2>1. job[w].skipped \in SUBSET Reqs /\ "dev-not-installed" \in Declareds
    BY <1>1 DEF Jobs, Declareds
  <2> QED BY <2>1, MarkManyStep DEF MarkSkipped, TypeInv
<1>3. /\ j \in Jobs /\ j.req = job[w].req /\ j.pc = "requirements"
      /\ j.unseen = job[w].unseen
  BY <1>1 DEF Jobs
<1>4. job' = [job EXCEPT ![w] = j]
  BY DEF MarkSkipped, TypeInv, TypeOK
<1>5. \A u \in job[w].unseen : <<job[w].req.to[1], u>> \in visited
  BY DEF TypeInv, HandsClean, InHand
<1> HIDE DEF j
<1>6. /\ job' \in [Worker -> Jobs]
      /\ \A u \in Worker : job'[u].pc # "idle" => job'[u].req # NoReq
      /\ HandsClean'
  BY <1>1, <1>2, <1>3, <1>4, <1>5, HandStep
<1> QED BY <1>2, <1>6 DEF MarkSkipped, TypeInv, TypeOK, NodeMaps, level, hist

LEMMA ReturnType ==
  ASSUME TypeInv, NEW w \in Worker, Return(w)
  PROVE  TypeInv'
<1>1. Idle \in Jobs
  BY DEF Idle, Jobs
<1>2. /\ job' \in [Worker -> Jobs]
      /\ \A u \in Worker : job'[u].pc # "idle" => job'[u].req # NoReq
      /\ HandsClean'
  <2>1. Idle.pc = "idle" /\ Idle.unseen = {} /\ Idle.kids = {} /\ Idle.skipped = {}
    BY DEF Idle
  <2> QED BY <1>1, <2>1, HandStep DEF Return, graph
<1>3. next' \subseteq Reqs /\ firstErr' \in BOOLEAN
  BY DEF Return, TypeInv, TypeOK, Jobs
<1> QED BY <1>2, <1>3 DEF Return, TypeInv, TypeOK, graph, hist

(* Where nobody's hands change, HandsClean stays.                          *)
LEMMA HandsKept ==
  ASSUME HandsClean, job' = job, visited' = visited
  PROVE  HandsClean'
BY DEF HandsClean, InHand

LEMMA FinishType ==
  ASSUME TypeInv, Finish
  PROVE  TypeInv'
<1>1. FrontierReason \in Declareds /\ next \in SUBSET Reqs
  BY DEF FrontierReason, Declareds, TypeInv, TypeOK
<1>2. node' \in NodeMaps /\ edges' \subseteq Edges
  BY <1>1, MarkManyStep DEF Finish, MarkFrontier, TypeInv
<1>3. HandsClean'
  BY HandsKept DEF Finish, TypeInv
<1> QED BY <1>2, <1>3 DEF Finish, TypeInv, TypeOK, NodeMaps, hist

(* While there is a file to read, its number and the next are in range.    *)
LEMMA MoreFiles ==
  ASSUME TypeOK, nextFile <= NumFiles
  PROVE  nextFile \in 1..NumFiles /\ nextFile + 1 \in 1..(NumFiles + 1)
BY BoundsAssumption DEF TypeOK

LEMMA ReadBrokenFileType ==
  ASSUME TypeInv, ReadBrokenFile
  PROVE  TypeInv'
<1> DEFINE id == <<Unparsed, nextFile>>
           e  == [from |-> RootId, to |-> id, spec |-> "", scope |-> "prod"]
<1>1. nextFile \in 1..NumFiles /\ nextFile + 1 \in 1..(NumFiles + 1)
  BY MoreFiles DEF ReadBrokenFile, TypeInv
<1>2. id \in Ids /\ RootId \in Ids
  BY <1>1 DEF Ids, RootId
<1>3. e \in Edges
  BY <1>2, WorldAssumption DEF Edges
<1>4. node \in NodeMaps /\ Declared("error:parse") \in Facts
  BY FactTypes DEF TypeInv, TypeOK, NodeMaps, Declareds
<1>5. node' \in NodeMaps
  <2>1. node' = AddAll(node, {id}, Declared("error:parse"))
    BY DEF ReadBrokenFile
  <2> HIDE DEF id
  <2> QED BY <1>4, <2>1, AddAllFacts
<1>6. HandsClean'
  BY HandsKept DEF ReadBrokenFile, TypeInv
<1>7. edges' \subseteq Edges
  BY <1>3 DEF ReadBrokenFile, TypeInv, TypeOK
<1> QED BY <1>1, <1>5, <1>6, <1>7
        DEF ReadBrokenFile, TypeInv, TypeOK, NodeMaps, level, hist

(* AddEach is AddAll with a fact per id.                                   *)
LEMMA AddEachFacts ==
  ASSUME NEW g \in NodeMaps, NEW facts,
         \A id \in DOMAIN facts : facts[id] \in Facts
  PROVE  /\ AddEach(g, facts) \in NodeMaps
         /\ Present(g) \subseteq Present(AddEach(g, facts))
         /\ DOMAIN facts \cap Ids \subseteq Present(AddEach(g, facts))
         /\ Present(AddEach(g, facts)) \subseteq Present(g) \cup DOMAIN facts
         /\ \A id \in Ids : \/ AddEach(g, facts)[id] = g[id]
                            \/ Rank(AddEach(g, facts)[id].comp) > Rank(g[id].comp)
<1> DEFINE h == AddEach(g, facts)
<1>1. /\ h = [id \in Ids |-> IF id \in DOMAIN facts THEN Upgrade(g[id], facts[id])
                                                    ELSE g[id]]
      /\ DOMAIN g = Ids
  BY DEF NodeMaps, AddEach
<1>2. \A id \in Ids : g[id] \in Facts \cup {Absent}
  BY DEF NodeMaps
<1>3. DOMAIN h = Ids
  BY <1>1
<1>4. ASSUME NEW id \in Ids
      PROVE  /\ h[id] \in Facts \cup {Absent}
             /\ h[id] = g[id] \/ Rank(h[id].comp) > Rank(g[id].comp)
             /\ g[id].comp # "absent" => h[id].comp # "absent"
             /\ id \in DOMAIN facts => h[id].comp # "absent"
             /\ h[id].comp # "absent" => g[id].comp # "absent" \/ id \in DOMAIN facts
  <2>1. h[id] = IF id \in DOMAIN facts THEN Upgrade(g[id], facts[id]) ELSE g[id]
    BY <1>1
  <2> HIDE DEF h
  <2>2. CASE id \notin DOMAIN facts
    BY <1>2, <2>1, <2>2
  <2>3. CASE id \in DOMAIN facts
    <3>1. facts[id] \in Facts /\ Rank(facts[id].comp) \in 0..3
          /\ facts[id].comp # "absent" /\ Rank(g[id].comp) \in -1..3
      BY <1>2, <2>3, RankOfFact, RankIsInt
    <3>2. CASE Rank(facts[id].comp) <= Rank(g[id].comp)
      <4>1. h[id] = g[id]
        BY <2>1, <2>3, <3>2 DEF Upgrade
      <4>2. g[id] # Absent
        BY <3>1, <3>2, RankOfAbsent
      <4>3. g[id] \in Facts
        BY <1>2, <4>2
      <4>4. g[id].comp # "absent"
        BY <4>3, RankOfFact
      <4> QED BY <1>2, <2>3, <4>1, <4>4
    <3>3. CASE Rank(facts[id].comp) > Rank(g[id].comp)
      <4>1. h[id] = facts[id]
        BY <2>1, <2>3, <3>1, <3>3 DEF Upgrade
      <4> QED BY <2>3, <3>1, <3>3, <4>1
    <3> QED BY <3>1, <3>2, <3>3
  <2> QED BY <2>2, <2>3
<1> HIDE DEF h
<1>5. h = [id \in Ids |-> h[id]]
  BY <1>1
<1>6. h \in NodeMaps
  BY <1>4, <1>5 DEF NodeMaps
<1>7. /\ Present(g) = {id \in Ids : g[id].comp # "absent"}
      /\ Present(h) = {id \in Ids : h[id].comp # "absent"}
  BY <1>1, <1>3 DEF Present
<1> QED BY <1>4, <1>6, <1>7 DEF h

(* What reading a file does to the graph and to the level.                 *)
LEMMA ReadFileStep ==
  ASSUME TypeInv, ReadFile
  PROVE  LET file     == Manifest[nextFile]
             supplied == AddEach(node, file.nodes)
             concrete == {l \in file.links : l.to[2] # NoVersion}
             unknown  == {l.to : l \in concrete} \ Present(supplied)
         IN  /\ nextFile \in 1..NumFiles /\ nextFile + 1 \in 1..(NumFiles + 1)
             /\ ~file.broken /\ file.links \subseteq Edges
             /\ supplied \in NodeMaps /\ Present(node) \subseteq Present(supplied)
             /\ DOMAIN file.nodes \subseteq Present(supplied)
             /\ Present(supplied) \subseteq Present(node) \cup DOMAIN file.nodes
             /\ node' = AddAll(supplied, unknown, Declared("unpinned-ref"))
             /\ node' \in NodeMaps /\ Present(supplied) \subseteq Present(node')
             /\ unknown \subseteq Present(node')
             /\ Present(node') \subseteq Present(supplied) \cup unknown
             /\ edges' = edges \cup concrete
             /\ pending' = pending \cup (file.links \ concrete)
             /\ file.links \ concrete \subseteq Reqs
<1> DEFINE file     == Manifest[nextFile]
           supplied == AddEach(node, file.nodes)
           concrete == {l \in file.links : l.to[2] # NoVersion}
           unknown  == {l.to : l \in concrete} \ Present(supplied)
<1>1. nextFile \in 1..NumFiles /\ nextFile + 1 \in 1..(NumFiles + 1)
  BY MoreFiles DEF ReadFile, TypeInv
<1>2. /\ ~file.broken /\ file.links \subseteq Edges
      /\ DOMAIN file.nodes \subseteq Ids
      /\ \A id \in DOMAIN file.nodes : file.nodes[id] \in Facts
      /\ \A l \in file.links : l.to \in Package \X (Version \cup {NoVersion})
  BY <1>1, ManifestAssumption DEF ReadFile
<1>3. node \in NodeMaps /\ Declared("unpinned-ref") \in Facts
  BY FactTypes DEF TypeInv, TypeOK, NodeMaps, Declareds
<1>4. /\ supplied \in NodeMaps /\ Present(node) \subseteq Present(supplied)
      /\ DOMAIN file.nodes \cap Ids \subseteq Present(supplied)
      /\ Present(supplied) \subseteq Present(node) \cup DOMAIN file.nodes
  <2> HIDE DEF file
  <2> QED BY <1>2, <1>3, AddEachFacts
<1>5. /\ node' = AddAll(supplied, unknown, Declared("unpinned-ref"))
      /\ edges' = edges \cup concrete
      /\ pending' = pending \cup (file.links \ concrete)
  BY DEF ReadFile
<1>6. unknown \subseteq Ids
  <2>1. \A l \in Edges : l.to \in Ids
    BY DEF Edges
  <2> QED BY <1>2, <2>1
<1>7. ASSUME NEW l \in file.links \ concrete
      PROVE  l \in Reqs
  <2>1. /\ l \in Edges /\ l.to[2] = NoVersion
        /\ l.to \in Package \X (Version \cup {NoVersion})
    BY <1>2, <1>7
  <2>2. l.to \in Package \X {NoVersion}
    BY <2>1
  <2> QED BY <2>1, <2>2 DEF Edges, Reqs
<1> HIDE DEF supplied, concrete, unknown
<1>8. /\ node' \in NodeMaps /\ Present(supplied) \subseteq Present(node')
      /\ unknown \cap Ids \subseteq Present(node')
      /\ Present(node') \subseteq Present(supplied) \cup unknown
  BY <1>3, <1>4, <1>5, AddAllFacts
<1>9. DOMAIN file.nodes \subseteq Present(supplied)
  BY <1>2, <1>4
<1>10. unknown \subseteq Present(node')
  BY <1>6, <1>8
<1>11. file.links \ concrete \subseteq Reqs
  BY <1>7
<1> HIDE DEF file
<1> QED BY <1>1, <1>2, <1>4, <1>5, <1>8, <1>9, <1>10, <1>11
        DEF file, supplied, concrete, unknown

LEMMA ReadFileType ==
  ASSUME TypeInv, ReadFile
  PROVE  TypeInv'
<1>1. /\ node' \in NodeMaps /\ edges' \subseteq Edges
      /\ pending' \subseteq Reqs /\ nextFile + 1 \in 1..(NumFiles + 1)
  BY ReadFileStep DEF TypeInv, TypeOK
<1>2. HandsClean'
  BY HandsKept DEF ReadFile, TypeInv
<1> QED BY <1>1, <1>2 DEF ReadFile, TypeInv, TypeOK, NodeMaps, hist

(* The rest of a step leaves the graph and the goroutines alone.           *)
LEMMA QuietType ==
  ASSUME TypeInv, SeedDone \/ SeedFails \/ NextLevel \/ Abort \/ Expire \/ UNCHANGED vars
  PROVE  TypeInv'
<1>1. job' = job /\ UNCHANGED graph /\ UNCHANGED hist
  BY DEF SeedDone, SeedFails, NextLevel, Abort, Expire, vars
<1>2. HandsClean'
  BY <1>1, HandsKept DEF TypeInv, graph
<1>3. CASE SeedDone \/ SeedFails
  BY <1>2, <1>3 DEF SeedDone, SeedFails, TypeInv, TypeOK, level, graph, hist
<1>4. CASE NextLevel
  <2>1. depth + 1 \in 1..MaxDepth
    BY <1>4, BoundsAssumption DEF NextLevel, TypeInv, TypeOK
  <2> QED BY <1>2, <1>4, <2>1 DEF NextLevel, TypeInv, TypeOK, graph, hist
<1>5. CASE Abort
  BY <1>2, <1>5 DEF Abort, TypeInv, TypeOK, level, graph, hist
<1>6. CASE Expire
  BY <1>2, <1>6 DEF Expire, TypeInv, TypeOK, level, graph, hist
<1>7. CASE UNCHANGED vars
  BY <1>2, <1>7 DEF vars, TypeInv, TypeOK, level, graph, hist
<1> QED BY <1>3, <1>4, <1>5, <1>6, <1>7

LEMMA TypeStep == TypeInv /\ [Next]_vars => TypeInv'
<1> SUFFICES ASSUME TypeInv, [Next]_vars PROVE TypeInv'
  OBVIOUS
<1>1. CASE ReadBrokenFile
  BY <1>1, ReadBrokenFileType
<1>2. CASE ReadFile
  BY <1>2, ReadFileType
<1>3. ASSUME NEW w \in Worker, Expand(w)
      PROVE  TypeInv'
  BY <1>3, SpawnType, UnresolvableType, NoSchemeType, VersionsFailType,
     AsOfFailsType, UnchoosableType, RecordChosenType, ReadRequirementsType,
     RequirementsFailType, MarkSkippedType, ReturnType DEF Expand
<1>4. CASE Finish
  BY <1>4, FinishType
<1>5. CASE SeedDone \/ SeedFails \/ NextLevel \/ Abort \/ Expire \/ UNCHANGED vars
  BY <1>5, QuietType
<1> QED BY <1>1, <1>2, <1>3, <1>4, <1>5 DEF Next, Progress, Ended

(* Every variable keeps its type, and a goroutine only ever holds versions *)
(* marked visited.                                                         *)
THEOREM WalkTypeInv == WalkSpec => []TypeInv
<1> QED BY TypeInit, TypeStep, PTL DEF WalkSpec

(* Every variable of the walk keeps its type, for every repository and     *)
(* registry, every number of goroutines and every bound.                   *)
THEOREM WalkTypeOK == WalkSpec => []TypeOK
<1>1. TypeInv => TypeOK
  BY DEF TypeInv
<1> QED BY <1>1, WalkTypeInv, PTL

-----------------------------------------------------------------------------
(* Knowledge only grows.                                                   *)

Raises(g, h) == \A id \in Ids : h[id] = g[id] \/ Rank(h[id].comp) > Rank(g[id].comp)

LEMMA RaisesTwice ==
  ASSUME NEW f \in NodeMaps, NEW g \in NodeMaps, NEW h \in NodeMaps,
         Raises(f, g), Raises(g, h)
  PROVE  Raises(f, h)
<1> SUFFICES ASSUME NEW id \in Ids
             PROVE  h[id] = f[id] \/ Rank(h[id].comp) > Rank(f[id].comp)
  BY DEF Raises
<1>1. /\ f[id] \in Facts \cup {Absent} /\ g[id] \in Facts \cup {Absent}
      /\ h[id] \in Facts \cup {Absent}
  BY DEF NodeMaps
<1>2. /\ Rank(f[id].comp) \in -1..3 /\ Rank(g[id].comp) \in -1..3
      /\ Rank(h[id].comp) \in -1..3
  BY <1>1, RankIsInt
<1>3. /\ g[id] = f[id] \/ Rank(g[id].comp) > Rank(f[id].comp)
      /\ h[id] = g[id] \/ Rank(h[id].comp) > Rank(g[id].comp)
  BY DEF Raises
<1> QED BY <1>2, <1>3

LEMMA AddAllRaises ==
  ASSUME NEW g \in NodeMaps, NEW S, NEW fact \in Facts
  PROVE  Raises(g, AddAll(g, S, fact)) /\ AddAll(g, S, fact) \in NodeMaps
<1>1. /\ AddAll(g, S, fact) \in NodeMaps
      /\ \A id \in Ids : \/ AddAll(g, S, fact)[id] = g[id]
                         \/ /\ id \in S /\ AddAll(g, S, fact)[id] = fact
                            /\ Rank(fact.comp) > Rank(g[id].comp)
  BY AddAllFacts
<1> QED BY <1>1 DEF Raises

Grows == Raises(node, node') /\ edges \subseteq edges' /\ visited \subseteq visited'

LEMMA MarkDeclaredGrows ==
  ASSUME TypeOK, NEW r, NEW why \in Declareds, MarkDeclared(r, why)
  PROVE  Grows
BY AddAllRaises, FactTypes DEF MarkDeclared, Grows, TypeOK, NodeMaps

LEMMA ExpandGrows ==
  ASSUME TypeInv, NEW w \in Worker, Expand(w)
  PROVE  Grows \/ UNCHANGED graph
<1> DEFINE r == job[w].req
<1>1. TypeOK /\ node \in NodeMaps
  BY DEF TypeInv, TypeOK, NodeMaps
<1>2. CASE \/ Spawn(w) \/ AsOfFails(w) \/ ReadRequirements(w)
           \/ RequirementsFail(w) \/ Return(w)
  BY <1>2 DEF Spawn, AsOfFails, ReadRequirements, RequirementsFail, Return
<1>3. CASE Unresolvable(w)
  <2>1. "offline" \in Declareds /\ Resolved \in Facts
    BY FactTypes DEF Declareds
  <2>2. \/ MarkDeclared(r, "offline")
        \/ \E v : /\ node' = AddAll(node, {Link(r, v).to}, Resolved)
                  /\ edges' = edges \cup {Link(r, v)} /\ visited' = visited
    BY <1>3 DEF Unresolvable
  <2> QED BY <1>1, <2>1, <2>2, MarkDeclaredGrows, AddAllRaises DEF Grows
<1>4. CASE NoScheme(w) \/ VersionsFail(w) \/ Unchoosable(w)
  <2>1. \E why \in Declareds : MarkDeclared(r, why)
    BY <1>4 DEF NoScheme, VersionsFail, Unchoosable, Declareds
  <2> QED BY <1>1, <2>1, MarkDeclaredGrows
<1>5. CASE RecordChosen(w)
  <2> DEFINE kept == {<<r.to[1], v>> : v \in Chosen(r) \ Cut(r)}
             cut  == {<<r.to[1], v>> : v \in Cut(r)}
             mid  == AddAll(node, kept, Resolved)
  <2>1. /\ node' = AddAll(mid, cut, Declared("bound:nodes"))
        /\ edges \subseteq edges' /\ visited \subseteq visited'
    BY <1>5 DEF RecordChosen
  <2>2. Resolved \in Facts /\ Declared("bound:nodes") \in Facts
    BY FactTypes DEF Declareds
  <2> HIDE DEF kept, cut
  <2>3. Raises(node, mid) /\ mid \in NodeMaps
    BY <1>1, <2>2, AddAllRaises
  <2> HIDE DEF mid
  <2>4. Raises(mid, node') /\ node' \in NodeMaps
    BY <2>1, <2>2, <2>3, AddAllRaises
  <2> QED BY <1>1, <2>1, <2>3, <2>4, RaisesTwice DEF Grows
<1>6. CASE MarkSkipped(w)
  <2>1. Declared("dev-not-installed") \in Facts
    BY FactTypes DEF Declareds
  <2> QED BY <1>1, <1>6, <2>1, AddAllRaises DEF MarkSkipped, Grows
<1> QED BY <1>2, <1>3, <1>4, <1>5, <1>6, <1>2 DEF Expand

LEMMA StepGrows ==
  ASSUME TypeInv, [Next]_vars
  PROVE  Grows \/ UNCHANGED graph
<1>1. TypeOK /\ node \in NodeMaps
  BY DEF TypeInv, TypeOK, NodeMaps
<1>2. CASE ReadBrokenFile
  <2>1. Declared("error:parse") \in Facts
    BY FactTypes DEF Declareds
  <2>2. \E S : node' = AddAll(node, S, Declared("error:parse"))
    BY <1>2 DEF ReadBrokenFile
  <2>3. edges \subseteq edges' /\ visited' = visited
    BY <1>2 DEF ReadBrokenFile
  <2> QED BY <1>1, <2>1, <2>2, <2>3, AddAllRaises DEF Grows
<1>3. CASE ReadFile
  <2> DEFINE supplied == AddEach(node, Manifest[nextFile].nodes)
  <2>1. \A id \in DOMAIN Manifest[nextFile].nodes :
          Manifest[nextFile].nodes[id] \in Facts
    BY <1>3, ReadFileStep, ManifestAssumption
  <2>2. supplied \in NodeMaps /\ Raises(node, supplied)
    BY <1>1, <2>1, AddEachFacts DEF Raises
  <2>3. Declared("unpinned-ref") \in Facts
    BY FactTypes DEF Declareds
  <2>4. /\ \E S : node' = AddAll(supplied, S, Declared("unpinned-ref"))
        /\ edges \subseteq edges' /\ visited' = visited
    BY <1>3 DEF ReadFile
  <2> HIDE DEF supplied
  <2>5. Raises(supplied, node') /\ node' \in NodeMaps
    BY <2>2, <2>3, <2>4, AddAllRaises
  <2> QED BY <1>1, <2>2, <2>4, <2>5, RaisesTwice DEF Grows
<1>4. ASSUME NEW w \in Worker, Expand(w)
      PROVE  Grows \/ UNCHANGED graph
  BY <1>4, ExpandGrows
<1>5. CASE Finish
  <2>1. Declared(FrontierReason) \in Facts
    BY FactTypes DEF Declareds, FrontierReason
  <2> QED BY <1>1, <1>5, <2>1, AddAllRaises DEF Finish, MarkFrontier, Grows
<1>6. CASE SeedDone \/ SeedFails \/ NextLevel \/ Abort \/ Expire \/ UNCHANGED vars
  BY <1>6 DEF SeedDone, SeedFails, NextLevel, Abort, Expire, vars, graph
<1> QED BY <1>2, <1>3, <1>4, <1>5, <1>6 DEF Next, Progress, Ended

(* Completeness moves upward only, and no edge or visited version is taken *)
(* back, for every repository, registry and interleaving.                  *)
THEOREM WalkKnowledgeOnlyGrows == WalkSpec => KnowledgeOnlyGrows
<1>1. TypeInv /\ [Next]_vars =>
        [/\ \A id \in Ids :
              node'[id] = node[id] \/ Rank(node'[id].comp) > Rank(node[id].comp)
         /\ edges \subseteq edges' /\ visited \subseteq visited']_graph
  BY StepGrows DEF Grows, Raises
<1> QED BY <1>1, WalkTypeInv, PTL DEF WalkSpec, KnowledgeOnlyGrows

-----------------------------------------------------------------------------
(* Each version reached is read once.                                      *)

LEMMA HandsUnchanged ==
  ASSUME ReadOnce, visited' = visited, UNCHANGED <<fetched, lost>>,
         \A u \in Worker : InHand(u)' = InHand(u)
  PROVE  ReadOnce'
<1>1. fetched' = fetched /\ lost' = lost
  OBVIOUS
<1>2. {InHand(u)' : u \in Worker} = {InHand(u) : u \in Worker}
  OBVIOUS
<1>3. UNION {InHand(u)' : u \in Worker} = UNION {InHand(u) : u \in Worker}
  BY <1>2
<1>4. /\ visited' = fetched' \cup lost' \cup UNION {InHand(u)' : u \in Worker}
      /\ fetched' \cap lost' = {}
  BY <1>1, <1>3 DEF ReadOnce
<1>5. ASSUME NEW u \in Worker
      PROVE  /\ InHand(u)' \cap (fetched' \cup lost') = {}
             /\ \A t \in Worker \ {u} : InHand(u)' \cap InHand(t)' = {}
  BY <1>1 DEF ReadOnce
<1> QED BY <1>4, <1>5 DEF ReadOnce

(* The ids of some versions of a package.                                  *)
At(p, S) == {<<p, v>> : v \in S}

LEMMA AtWithout ==
  ASSUME NEW p, NEW S, NEW v
  PROVE  At(p, S \ {v}) = At(p, S) \ {<<p, v>>}
BY DEF At

LEMMA HandOf ==
  ASSUME TypeInv, NEW w \in Worker, NEW j, job' = [job EXCEPT ![w] = j]
  PROVE  /\ job'[w] = j /\ \A u \in Worker \ {w} : job'[u] = job[u]
         /\ InHand(w) = At(job[w].req.to[1], job[w].unseen)
         /\ InHand(w)' = At(j.req.to[1], j.unseen)
         /\ \A u \in Worker \ {w} : InHand(u)' = InHand(u)
<1>1. job'[w] = j /\ \A u \in Worker \ {w} : job'[u] = job[u]
  BY DEF TypeInv, TypeOK
<1>2. \A u : InHand(u) = At(job[u].req.to[1], job[u].unseen)
  BY DEF InHand, At
<1>3. \A u : InHand(u)' = At(job'[u].req.to[1], job'[u].unseen)
  BY DEF InHand, At
<1> QED BY <1>1, <1>2, <1>3

(* Its hands hold what they held, or they are empty before and after.      *)
LEMMA HandSame ==
  ASSUME TypeInv, NEW w \in Worker, NEW j, job' = [job EXCEPT ![w] = j],
         \/ j.unseen = job[w].unseen /\ j.req = job[w].req
         \/ j.unseen = {} /\ job[w].unseen = {}
  PROVE  \A u \in Worker : InHand(u)' = InHand(u)
<1>1. /\ InHand(w) = At(job[w].req.to[1], job[w].unseen)
      /\ InHand(w)' = At(j.req.to[1], j.unseen)
      /\ \A u \in Worker \ {w} : InHand(u)' = InHand(u)
  BY HandOf
<1>2. \A p : At(p, {}) = {}
  BY DEF At
<1>3. InHand(w)' = InHand(w)
  BY <1>1, <1>2
<1> QED BY <1>1, <1>3

(* Its hands hold one version less.                                        *)
LEMMA HandLess ==
  ASSUME TypeInv, NEW w \in Worker, NEW j, NEW v, job' = [job EXCEPT ![w] = j],
         j.unseen = job[w].unseen \ {v}, j.req = job[w].req
  PROVE  /\ InHand(w)' = InHand(w) \ {<<job[w].req.to[1], v>>}
         /\ \A u \in Worker \ {w} : InHand(u)' = InHand(u)
<1>1. /\ InHand(w) = At(job[w].req.to[1], job[w].unseen)
      /\ InHand(w)' = At(j.req.to[1], j.unseen)
      /\ \A u \in Worker \ {w} : InHand(u)' = InHand(u)
  BY HandOf
<1>2. At(job[w].req.to[1], job[w].unseen \ {v})
        = At(job[w].req.to[1], job[w].unseen) \ {<<job[w].req.to[1], v>>}
  BY AtWithout
<1> QED BY <1>1, <1>2

(* A goroutine settles one of the versions in its hands.                   *)
LEMMA OneSettled ==
  ASSUME TypeInv, ReadOnce, NEW w \in Worker, NEW v \in job[w].unseen,
         \A u \in Worker \ {w} : InHand(u)' = InHand(u),
         InHand(w)' = InHand(w) \ {<<job[w].req.to[1], v>>},
         visited' = visited,
         \/ /\ fetched' = fetched \cup {<<job[w].req.to[1], v>>}
            /\ lost' = lost
         \/ /\ lost' = lost \cup {<<job[w].req.to[1], v>>}
            /\ fetched' = fetched
  PROVE  ReadOnce'
<1> DEFINE x == <<job[w].req.to[1], v>>
<1>1. x \in InHand(w)
  BY DEF InHand
<1> HIDE DEF x
<1>2. x \notin fetched \cup lost /\ \A u \in Worker \ {w} : x \notin InHand(u)
  BY <1>1 DEF ReadOnce
<1>3. ASSUME NEW u \in Worker
      PROVE  InHand(u)' = InHand(u) \ {x}
  BY <1>2 DEF x
<1>4. UNION {InHand(u)' : u \in Worker}
        = (UNION {InHand(u) : u \in Worker}) \ {x}
  BY <1>3
<1>5. x \in UNION {InHand(u) : u \in Worker}
  BY <1>1
<1>6. fetched' \cup lost' = fetched \cup lost \cup {x} /\ fetched' \cap lost' = {}
  BY <1>2 DEF ReadOnce, x
<1>7. visited' = fetched' \cup lost' \cup UNION {InHand(u)' : u \in Worker}
  BY <1>4, <1>5, <1>6 DEF ReadOnce
<1>8. ASSUME NEW u \in Worker
      PROVE  /\ InHand(u)' \cap (fetched' \cup lost') = {}
             /\ \A t \in Worker \ {u} : InHand(u)' \cap InHand(t)' = {}
  BY <1>3, <1>6 DEF ReadOnce
<1> QED BY <1>6, <1>7, <1>8 DEF ReadOnce

LEMMA ExpandReadsOnce ==
  ASSUME TypeInv, ReadOnce, NEW w \in Worker, Expand(w)
  PROVE  ReadOnce'
<1> DEFINE r == job[w].req
<1>1. job[w] \in Jobs /\ job \in [Worker -> Jobs]
  BY DEF TypeInv, TypeOK
<1>2. CASE Spawn(w)
  <2>1. PICK q \in pending :
          job' = [job EXCEPT ![w].pc = "versions", ![w].req = q]
    BY <1>2 DEF Spawn
  <2> DEFINE j == [job[w] EXCEPT !.pc = "versions", !.req = q]
  <2>2. job' = [job EXCEPT ![w] = j] /\ j.unseen = job[w].unseen
    BY <1>1, <2>1 DEF Jobs
  <2>3. job[w].unseen = {}
    BY <1>2 DEF Spawn, TypeInv, HandsClean
  <2> HIDE DEF j
  <2>4. InHand(w)' = InHand(w) /\ \A u \in Worker \ {w} : InHand(u)' = InHand(u)
    BY <2>2, <2>3, HandSame
  <2>5. visited' = visited /\ UNCHANGED <<fetched, lost>>
    BY <1>2 DEF Spawn, graph, hist
  <2> QED BY <2>4, <2>5, HandsUnchanged
<1>3. CASE \/ Unresolvable(w) \/ NoScheme(w) \/ VersionsFail(w)
           \/ AsOfFails(w) \/ Unchoosable(w)
  <2>1. PICK e : job' = [job EXCEPT ![w] =
                          [job[w] EXCEPT !.pc = "requirements", !.err = e]]
    BY <1>3, SettledIsStep
       DEF Unresolvable, NoScheme, VersionsFail, AsOfFails, Unchoosable,
           TypeInv, TypeOK
  <2> DEFINE j == [job[w] EXCEPT !.pc = "requirements", !.err = e]
  <2>2. j.unseen = job[w].unseen /\ j.req = r
    BY <1>1 DEF Jobs
  <2> HIDE DEF j
  <2>3. job' = [job EXCEPT ![w] = j]
    BY <2>1 DEF j
  <2>4. InHand(w)' = InHand(w) /\ \A u \in Worker \ {w} : InHand(u)' = InHand(u)
    BY <2>2, <2>3, HandSame
  <2>5. visited' = visited /\ UNCHANGED <<fetched, lost>>
    BY <1>3 DEF Unresolvable, NoScheme, VersionsFail, AsOfFails, Unchoosable,
                MarkDeclared, graph, hist
  <2> QED BY <2>4, <2>5, HandsUnchanged
<1>4. CASE RecordChosen(w)
  <2> DEFINE kept == {<<r.to[1], v>> : v \in Chosen(r) \ Cut(r)}
             new  == At(r.to[1], Unseen(r))
             j    == [job[w] EXCEPT !.pc = "requirements", !.unseen = Unseen(r)]
  <2>1. /\ job[w].pc = "versions" /\ visited' = visited \cup kept
        /\ job' = [job EXCEPT ![w] = j] /\ j.req = r /\ j.unseen = Unseen(r)
    BY <1>4, RecordChosenStep
  <2>2. job[w].unseen = {}
    BY <2>1 DEF TypeInv, HandsClean
  <2>3. InHand(w) = {}
    BY <2>2 DEF InHand
  <2> HIDE DEF j
  <2>4. InHand(w)' = new /\ \A u \in Worker \ {w} : InHand(u)' = InHand(u)
    BY <2>1, HandOf
  <2>5. new = kept \ visited
    BY DEF Unseen, At
  <2> HIDE DEF new, kept
  <2>6. fetched' = fetched /\ lost' = lost
    BY <1>4 DEF RecordChosen, hist
  <2>7. UNION {InHand(u)' : u \in Worker} = new \cup UNION {InHand(u) : u \in Worker}
    BY <2>3, <2>4
  <2>8. \A u \in Worker : InHand(u) \subseteq visited
    BY DEF TypeInv, HandsClean
  <2>9. /\ visited' = fetched' \cup lost' \cup UNION {InHand(u)' : u \in Worker}
        /\ fetched' \cap lost' = {}
    BY <2>1, <2>5, <2>6, <2>7 DEF ReadOnce
  <2>10. fetched \cup lost \subseteq visited
    BY DEF TypeInv, TypeOK
  <2>11. ASSUME NEW u \in Worker
         PROVE  /\ InHand(u)' \cap (fetched' \cup lost') = {}
                /\ \A t \in Worker \ {u} : InHand(u)' \cap InHand(t)' = {}
    BY <2>4, <2>5, <2>6, <2>8, <2>10 DEF ReadOnce
  <2> QED BY <2>9, <2>11 DEF ReadOnce
<1>5. CASE ReadRequirements(w)
  <2>1. PICK v \in job[w].unseen :
          /\ job' = [job EXCEPT
               ![w].unseen  = @ \ {v},
               ![w].kids    = @ \cup {k \in Kids(r.to[1], v) : ~SkipScope(k)},
               ![w].skipped = @ \cup {k \in Kids(r.to[1], v) : SkipScope(k)}]
          /\ fetched' = fetched \cup {<<r.to[1], v>>}
    BY <1>5 DEF ReadRequirements
  <2> DEFINE j == [job[w] EXCEPT
                     !.unseen  = @ \ {v},
                     !.kids    = @ \cup {k \in Kids(r.to[1], v) : ~SkipScope(k)},
                     !.skipped = @ \cup {k \in Kids(r.to[1], v) : SkipScope(k)}]
  <2>2. job' = [job EXCEPT ![w] = j] /\ j.req = r /\ j.unseen = job[w].unseen \ {v}
    BY <1>1, <2>1 DEF Jobs
  <2> HIDE DEF j
  <2>3. /\ InHand(w)' = InHand(w) \ {<<r.to[1], v>>}
        /\ \A u \in Worker \ {w} : InHand(u)' = InHand(u)
    BY <2>2, HandLess
  <2>4. visited' = visited /\ lost' = lost
    BY <1>5 DEF ReadRequirements, graph
  <2> QED BY <2>1, <2>3, <2>4, OneSettled
<1>6. CASE RequirementsFail(w)
  <2>1. PICK v \in job[w].unseen :
          /\ job' = [job EXCEPT ![w].unseen = @ \ {v}]
          /\ lost' = lost \cup {<<r.to[1], v>>}
    BY <1>6 DEF RequirementsFail
  <2> DEFINE j == [job[w] EXCEPT !.unseen = @ \ {v}]
  <2>2. job' = [job EXCEPT ![w] = j] /\ j.req = r /\ j.unseen = job[w].unseen \ {v}
    BY <1>1, <2>1 DEF Jobs
  <2> HIDE DEF j
  <2>3. /\ InHand(w)' = InHand(w) \ {<<r.to[1], v>>}
        /\ \A u \in Worker \ {w} : InHand(u)' = InHand(u)
    BY <2>2, HandLess
  <2>4. visited' = visited /\ fetched' = fetched
    BY <1>6 DEF RequirementsFail, graph
  <2> QED BY <2>1, <2>3, <2>4, OneSettled
<1>7. CASE MarkSkipped(w)
  <2> DEFINE j == [job[w] EXCEPT !.skipped = {}]
  <2>1. job' = [job EXCEPT ![w] = j] /\ j.req = r /\ j.unseen = job[w].unseen
    BY <1>1, <1>7 DEF MarkSkipped, Jobs
  <2> HIDE DEF j
  <2>2. \A u \in Worker : InHand(u)' = InHand(u)
    BY <2>1, HandSame
  <2>3. visited' = visited /\ UNCHANGED <<fetched, lost>>
    BY <1>7 DEF MarkSkipped, hist
  <2> QED BY <2>2, <2>3, HandsUnchanged
<1>8. CASE Return(w)
  <2>1. job' = [job EXCEPT ![w] = Idle] /\ job[w].unseen = {} /\ Idle.unseen = {}
    BY <1>8 DEF Return, Idle
  <2>2. \A u \in Worker : InHand(u)' = InHand(u)
    BY <2>1, HandSame
  <2>3. visited' = visited /\ UNCHANGED <<fetched, lost>>
    BY <1>8 DEF Return, graph, hist
  <2> QED BY <2>2, <2>3, HandsUnchanged
<1> QED BY <1>2, <1>3, <1>4, <1>5, <1>6, <1>7, <1>8 DEF Expand

(* Each version reached is read once, by the goroutine that reached it     *)
(* first, whatever the number of goroutines and their interleaving: the    *)
(* lock around the visited set is enough.                                  *)
THEOREM WalkReadOnce == WalkSpec => []ReadOnce
<1>1. Init => ReadOnce
  <2> SUFFICES ASSUME Init PROVE ReadOnce
    OBVIOUS
  <2>1. \A w \in Worker : InHand(w) = {}
    BY DEF Init, Idle, InHand
  <2> QED BY <2>1 DEF Init, ReadOnce
<1>2. TypeInv /\ ReadOnce /\ [Next]_vars => ReadOnce'
  <2> SUFFICES ASSUME TypeInv, ReadOnce, [Next]_vars PROVE ReadOnce'
    OBVIOUS
  <2>1. ASSUME NEW w \in Worker, Expand(w)
        PROVE  ReadOnce'
    BY <2>1, ExpandReadsOnce
  <2>2. CASE \/ ReadBrokenFile \/ ReadFile \/ SeedDone \/ SeedFails \/ NextLevel \/ Finish
             \/ Abort \/ Expire \/ UNCHANGED vars
    <3>1. job' = job /\ visited' = visited /\ UNCHANGED <<fetched, lost>>
      BY <2>2 DEF ReadBrokenFile, ReadFile, SeedDone, SeedFails, NextLevel, Finish,
                  Abort, Expire, vars, graph, hist
    <3>2. \A u \in Worker : InHand(u)' = InHand(u)
      BY <3>1 DEF InHand
    <3> QED BY <3>1, <3>2, HandsUnchanged
  <2> QED BY <2>1, <2>2 DEF Next, Progress, Ended
<1> QED BY <1>1, <1>2, WalkTypeInv, PTL DEF WalkSpec

-----------------------------------------------------------------------------
(* Where queued requirements and edges come from.                          *)

(* The requirements some part of the walk still carries.                   *)
Held(j) == IF j.pc = "idle" THEN {} ELSE {j.req} \cup j.kids \cup j.skipped
Queued == pending \cup next \cup UNION {Held(job[w]) : w \in Worker}

(* A file that was parsed, and what is now known of its links' origins.    *)
FromFile(r) == r \in SeedLinks /\ r.from \in Present(node)
FromRead(r) == /\ r.from \in fetched /\ r.from \in visited
               /\ r \in Kids(r.from[1], r.from[2])

LEMMA QueuedAreReqs == TypeInv => Queued \subseteq Reqs
<1> SUFFICES ASSUME TypeInv, NEW r \in Queued PROVE r \in Reqs
  OBVIOUS
<1>1. CASE r \in pending \cup next
  BY <1>1 DEF TypeInv, TypeOK
<1>2. ASSUME NEW w \in Worker, r \in Held(job[w])
      PROVE  r \in Reqs
  <2>1. job[w].pc # "idle"
    BY <1>2 DEF Held
  <2> QED BY <1>2, <2>1, ActiveReq DEF Held
<1> QED BY <1>1, <1>2 DEF Queued

(* One goroutine's hands change: what is carried afterwards.               *)
LEMMA QueuedByOne ==
  ASSUME TypeInv, NEW w \in Worker, NEW j, job' = [job EXCEPT ![w] = j],
         NEW S, pending' \cup next' \cup Held(j) \subseteq Queued \cup S
  PROVE  Queued' \subseteq Queued \cup S
<1>1. job'[w] = j /\ \A u \in Worker \ {w} : job'[u] = job[u]
  BY HandOf
<1>2. ASSUME NEW u \in Worker
      PROVE  Held(job'[u]) \subseteq Queued \cup S
  BY <1>1 DEF Queued
<1>3. Queued' = pending' \cup next' \cup UNION {Held(job'[u]) : u \in Worker}
  BY DEF Queued, Held
<1> QED BY <1>2, <1>3

LEMMA HeldIsQueued ==
  ASSUME NEW w \in Worker
  PROVE  Held(job[w]) \subseteq Queued /\ pending \subseteq Queued /\ next \subseteq Queued
BY DEF Queued

LEMMA ExpandQueued ==
  ASSUME TypeInv, NEW w \in Worker, Expand(w)
  PROVE  \/ Queued' \subseteq Queued
         \/ \E p \in Package, v \in Version :
              /\ <<p, v>> \in fetched' /\ <<p, v>> \in visited'
              /\ Queued' \subseteq Queued \cup Kids(p, v)
<1> DEFINE r == job[w].req
<1>1. job[w] \in Jobs /\ job \in [Worker -> Jobs]
  BY DEF TypeInv, TypeOK
<1>2. CASE Spawn(w)
  <2>1. PICK q \in pending :
          /\ pending' = pending \ {q}
          /\ job' = [job EXCEPT ![w].pc = "versions", ![w].req = q]
    BY <1>2 DEF Spawn
  <2> DEFINE j == [job[w] EXCEPT !.pc = "versions", !.req = q]
  <2>2. job[w].kids = {} /\ job[w].skipped = {}
    BY <1>2 DEF Spawn, TypeInv, HandsClean
  <2>3. job' = [job EXCEPT ![w] = j] /\ Held(j) = {q}
    BY <1>1, <2>1, <2>2 DEF Jobs, Held
  <2> HIDE DEF j
  <2>4. pending' \cup next' \cup Held(j) \subseteq Queued \cup {}
    BY <1>2, <2>1, <2>3, HeldIsQueued DEF Spawn
  <2>5. Queued' \subseteq Queued \cup {}
    BY <2>3, <2>4, QueuedByOne
  <2> QED BY <2>5
<1>3. CASE \/ Unresolvable(w) \/ NoScheme(w) \/ VersionsFail(w)
           \/ AsOfFails(w) \/ Unchoosable(w)
  <2>1. PICK e : job' = [job EXCEPT ![w] =
                          [job[w] EXCEPT !.pc = "requirements", !.err = e]]
    BY <1>3, SettledIsStep
       DEF Unresolvable, NoScheme, VersionsFail, AsOfFails, Unchoosable,
           TypeInv, TypeOK
  <2> DEFINE j == [job[w] EXCEPT !.pc = "requirements", !.err = e]
  <2>2. job[w].pc # "idle"
    BY <1>3 DEF Unresolvable, NoScheme, VersionsFail, AsOfFails, Unchoosable, Asks
  <2>3. Held(j) = Held(job[w])
    BY <1>1, <2>2 DEF Jobs, Held
  <2>4. pending' = pending /\ next' = next
    BY <1>3 DEF Unresolvable, NoScheme, VersionsFail, AsOfFails, Unchoosable, level
  <2>5. job' = [job EXCEPT ![w] = j]
    BY <2>1
  <2> HIDE DEF j
  <2>6. pending' \cup next' \cup Held(j) \subseteq Queued \cup {}
    BY <2>3, <2>4, HeldIsQueued
  <2>7. Queued' \subseteq Queued \cup {}
    BY <2>5, <2>6, QueuedByOne
  <2> QED BY <2>7
<1>4. CASE RecordChosen(w)
  <2> DEFINE j == [job[w] EXCEPT !.pc = "requirements", !.unseen = Unseen(r)]
  <2>1. /\ job[w].pc = "versions" /\ job' = [job EXCEPT ![w] = j]
        /\ j.req = r /\ j.kids = {} /\ j.skipped = {}
    BY <1>4, RecordChosenStep
  <2> HIDE DEF j
  <2>2. Held(j) \subseteq Held(job[w])
    BY <2>1 DEF Held
  <2>3. pending' = pending /\ next' = next
    BY <1>4 DEF RecordChosen, level
  <2>4. pending' \cup next' \cup Held(j) \subseteq Queued \cup {}
    BY <2>2, <2>3, HeldIsQueued
  <2>5. Queued' \subseteq Queued \cup {}
    BY <2>1, <2>4, QueuedByOne
  <2> QED BY <2>5
<1>5. CASE ReadRequirements(w)
  <2>1. PICK v \in job[w].unseen :
          /\ job' = [job EXCEPT
               ![w].unseen  = @ \ {v},
               ![w].kids    = @ \cup {k \in Kids(r.to[1], v) : ~SkipScope(k)},
               ![w].skipped = @ \cup {k \in Kids(r.to[1], v) : SkipScope(k)}]
          /\ fetched' = fetched \cup {<<r.to[1], v>>}
    BY <1>5 DEF ReadRequirements
  <2> DEFINE p == r.to[1]
             j == [job[w] EXCEPT
                     !.unseen  = @ \ {v},
                     !.kids    = @ \cup {k \in Kids(p, v) : ~SkipScope(k)},
                     !.skipped = @ \cup {k \in Kids(p, v) : SkipScope(k)}]
  <2>2. job' = [job EXCEPT ![w] = j]
    BY <1>1, <2>1
  <2>3. /\ p \in Package /\ v \in Version /\ <<p, v>> \in visited
        /\ j.req = r /\ j.pc = "requirements"
        /\ j.kids \cup j.skipped = job[w].kids \cup job[w].skipped \cup Kids(p, v)
    BY <1>5, ReadRequirementsStep DEF ReadRequirements
  <2>4. pending' = pending /\ next' = next /\ visited' = visited
    BY <1>5 DEF ReadRequirements, level, graph
  <2>5. job[w].pc = "requirements"
    BY <1>5 DEF ReadRequirements
  <2> HIDE DEF j, p
  <2>6. Held(j) \subseteq Held(job[w]) \cup Kids(p, v)
    BY <2>3, <2>5 DEF Held
  <2>7. pending' \cup next' \cup Held(j) \subseteq Queued \cup Kids(p, v)
    BY <2>4, <2>6, HeldIsQueued
  <2>8. Queued' \subseteq Queued \cup Kids(p, v)
    BY <2>2, <2>7, QueuedByOne
  <2> QED BY <2>1, <2>3, <2>4, <2>8 DEF p
<1>6. CASE RequirementsFail(w)
  <2>1. PICK v \in job[w].unseen : job' = [job EXCEPT ![w].unseen = @ \ {v}]
    BY <1>6 DEF RequirementsFail
  <2> DEFINE j == [job[w] EXCEPT !.unseen = @ \ {v}]
  <2>2. job' = [job EXCEPT ![w] = j] /\ Held(j) = Held(job[w])
    BY <1>1, <2>1 DEF Jobs, Held
  <2>3. pending' = pending /\ next' = next
    BY <1>6 DEF RequirementsFail, level
  <2> HIDE DEF j
  <2>4. pending' \cup next' \cup Held(j) \subseteq Queued \cup {}
    BY <2>2, <2>3, HeldIsQueued
  <2>5. Queued' \subseteq Queued \cup {}
    BY <2>2, <2>4, QueuedByOne
  <2> QED BY <2>5
<1>7. CASE MarkSkipped(w)
  <2> DEFINE j == [job[w] EXCEPT !.skipped = {}]
  <2>1. job' = [job EXCEPT ![w] = j] /\ Held(j) \subseteq Held(job[w])
    BY <1>1, <1>7 DEF MarkSkipped, Jobs, Held
  <2>2. pending' = pending /\ next' = next
    BY <1>7 DEF MarkSkipped, level
  <2> HIDE DEF j
  <2>3. pending' \cup next' \cup Held(j) \subseteq Queued \cup {}
    BY <2>1, <2>2, HeldIsQueued
  <2>4. Queued' \subseteq Queued \cup {}
    BY <2>1, <2>3, QueuedByOne
  <2> QED BY <2>4
<1>8. CASE Return(w)
  <2>1. /\ job' = [job EXCEPT ![w] = Idle] /\ Held(Idle) = {}
        /\ pending' = pending /\ next' = next \cup job[w].kids
        /\ job[w].kids \subseteq Held(job[w])
    BY <1>8 DEF Return, Held, Idle
  <2>2. pending' \cup next' \cup Held(Idle) \subseteq Queued \cup {}
    BY <2>1, HeldIsQueued
  <2>3. Queued' \subseteq Queued \cup {}
    BY <2>1, <2>2, QueuedByOne
  <2> QED BY <2>3
<1> QED BY <1>2, <1>3, <1>4, <1>5, <1>6, <1>7, <1>8 DEF Expand

(* A requirement carried after a step was carried before it, or a file or  *)
(* a version that was read gave it.                                        *)
LEMMA QueuedStep ==
  ASSUME TypeInv, RootId \in Present(node), [Next]_vars, NEW r \in Queued'
  PROVE  r \in Queued \/ FromFile(r)' \/ FromRead(r)'
<1>1. CASE job' = job /\ pending' \cup next' \subseteq pending \cup next
  BY <1>1 DEF Queued, Held
<1>2. CASE ReadFile
  <2> DEFINE file == Manifest[nextFile]
  <2>1. /\ nextFile \in 1..NumFiles /\ ~file.broken
        /\ pending' \subseteq pending \cup file.links
        /\ DOMAIN file.nodes \subseteq Present(node')
        /\ Present(node) \subseteq Present(node')
    BY <1>2, ReadFileStep
  <2>2. job' = job /\ next' = next
    BY <1>2 DEF ReadFile
  <2>3. r \in Queued \/ r \in file.links
    BY <2>1, <2>2 DEF Queued, Held
  <2>4. ASSUME r \in file.links
        PROVE  r \in SeedLinks /\ r.from \in Present(node')
    BY <2>1, <2>4, ManifestAssumption DEF SeedLinks
  <2>5. FromFile(r)' <=> r \in SeedLinks /\ r.from \in Present(node')
    BY DEF FromFile, SeedLinks, Present
  <2> QED BY <2>3, <2>4, <2>5
<1>3. ASSUME NEW w \in Worker, Expand(w)
      PROVE  r \in Queued \/ FromRead(r)'
  <2>1. CASE r \in Queued
    BY <2>1
  <2>2. ASSUME NEW p \in Package, NEW v \in Version, r \in Kids(p, v),
               <<p, v>> \in fetched', <<p, v>> \in visited'
        PROVE  FromRead(r)'
    <3>1. r.from = <<p, v>>
      BY <2>2, KidsAreReqs
    <3> QED BY <2>2, <3>1 DEF FromRead, Kids
  <2> QED BY <1>3, <2>1, <2>2, ExpandQueued
<1>4. CASE \/ ReadBrokenFile \/ SeedDone \/ SeedFails \/ NextLevel \/ Finish \/ Abort
           \/ Expire \/ UNCHANGED vars
  <2>1. job' = job /\ pending' \cup next' \subseteq pending \cup next
    BY <1>4 DEF ReadBrokenFile, SeedDone, SeedFails, NextLevel, Finish, Abort, Expire,
                vars, level
  <2> QED BY <1>1, <2>1
<1> QED BY <1>2, <1>3, <1>4 DEF Next, Progress, Ended

-----------------------------------------------------------------------------
(* The edges and nodes of the graph.                                       *)

(* What may be new in the graph after a step.                              *)
NewEdge(e) ==
  /\ e.to \in Present(node')
  /\ \/ e.from = RootId /\ e.to[1] = Unparsed
     \/ e \in Queued
     \/ \E r \in Queued, v \in Version : e = Link(r, v)
     \/ FromFile(e)'
NewNode(id) == id \in SuppliedVersionless \/ \E e \in edges' : e.to = id
GraphStep ==
  /\ Present(node) \subseteq Present(node')
  /\ \A e \in edges' : e \in edges \/ NewEdge(e)
  /\ \A id \in Present(node') : id \in Present(node) \/ NewNode(id)
  /\ visited' \subseteq visited \cup Present(node')

LEMMA MarkGraphStep ==
  ASSUME TypeInv, NEW S \in SUBSET Queued, NEW why \in Declareds,
         node' = AddAll(node, {r.to : r \in S}, Declared(why)),
         edges' = edges \cup S, visited' = visited
  PROVE  GraphStep
<1>1. S \in SUBSET Reqs
  BY QueuedAreReqs
<1>2. /\ Present(node) \subseteq Present(node')
      /\ {r.to : r \in S} \subseteq Present(node')
      /\ Present(node') \subseteq Present(node) \cup {r.to : r \in S}
  BY <1>1, MarkManyStep DEF TypeInv
<1>3. \A e \in edges' : e \in edges \/ NewEdge(e)
  BY <1>2 DEF NewEdge
<1>4. \A id \in Present(node') : id \in Present(node) \/ NewNode(id)
  BY <1>2 DEF NewNode
<1> QED BY <1>2, <1>3, <1>4 DEF GraphStep

LEMMA MarkDeclaredGraphStep ==
  ASSUME TypeInv, NEW r \in Queued, NEW why \in Declareds, MarkDeclared(r, why)
  PROVE  GraphStep
<1> DEFINE S == {r}
<1>1. {q.to : q \in S} = {r.to}
  OBVIOUS
<1>2. /\ node' = AddAll(node, {q.to : q \in S}, Declared(why))
      /\ edges' = edges \cup S /\ visited' = visited
  BY <1>1 DEF MarkDeclared
<1> HIDE DEF S
<1>3. S \in SUBSET Queued
  BY DEF S
<1> QED BY <1>2, <1>3, MarkGraphStep

LEMMA QuietGraphStep ==
  ASSUME UNCHANGED graph
  PROVE  GraphStep
BY DEF GraphStep, graph

LEMMA ExpandGraphStep ==
  ASSUME TypeInv, NEW w \in Worker, Expand(w)
  PROVE  GraphStep
<1> DEFINE r == job[w].req
<1>1. CASE \/ Spawn(w) \/ AsOfFails(w) \/ ReadRequirements(w)
           \/ RequirementsFail(w) \/ Return(w)
  BY <1>1, QuietGraphStep
     DEF Spawn, AsOfFails, ReadRequirements, RequirementsFail, Return
<1>2. ASSUME job[w].pc # "idle"
      PROVE  r \in Queued /\ r \in Reqs /\ job[w].skipped \in SUBSET Queued
  BY <1>2, HeldIsQueued, QueuedAreReqs DEF Held
<1>3. CASE Unresolvable(w)
  <2> DEFINE v == IF r.to[1] \in Schemed THEN ExactOf[r.spec] ELSE NoVersion
  <2>1. r \in Queued /\ r \in Reqs
    BY <1>2, <1>3 DEF Unresolvable
  <2>2. CASE v # NoVersion
    <3>1. /\ node' = AddAll(node, {Link(r, v).to}, Resolved)
          /\ edges' = edges \cup {Link(r, v)} /\ visited' = visited
      BY <1>3, <2>2 DEF Unresolvable
    <3>2. v \in Version
      <4>1. r.spec \in Spec /\ ExactOf \in [Spec -> Version \cup {NoVersion}]
        BY <2>1, ReqParts, WorldAssumption
      <4>2. ExactOf[r.spec] \in Version \cup {NoVersion}
        BY <4>1
      <4> QED BY <2>2, <4>2
    <3> HIDE DEF v, r
    <3>3. Link(r, v).to \in Ids
      BY <2>1, <3>2, LinkParts
    <3>4. node \in NodeMaps /\ Resolved \in Facts
      BY FactTypes DEF TypeInv, TypeOK, NodeMaps
    <3>5. /\ Present(node) \subseteq Present(node')
          /\ {Link(r, v).to} \cap Ids \subseteq Present(node')
          /\ Present(node') \subseteq Present(node) \cup {Link(r, v).to}
      BY <3>1, <3>4, AddAllFacts
    <3>6. \A e \in edges' : e \in edges \/ NewEdge(e)
      BY <2>1, <3>1, <3>2, <3>3, <3>5 DEF NewEdge
    <3>7. \A id \in Present(node') : id \in Present(node) \/ NewNode(id)
      BY <3>1, <3>5 DEF NewNode
    <3> QED BY <3>1, <3>5, <3>6, <3>7 DEF GraphStep
  <2>3. CASE v = NoVersion
    <3>1. MarkDeclared(r, "offline") /\ "offline" \in Declareds
      BY <1>3, <2>3 DEF Unresolvable, Declareds
    <3> QED BY <2>1, <3>1, MarkDeclaredGraphStep
  <2> QED BY <2>2, <2>3
<1>4. CASE NoScheme(w) \/ VersionsFail(w) \/ Unchoosable(w)
  <2>1. \E why \in Declareds : MarkDeclared(r, why)
    BY <1>4 DEF NoScheme, VersionsFail, Unchoosable, Declareds
  <2>2. r \in Queued
    BY <1>2, <1>4 DEF NoScheme, VersionsFail, Unchoosable, Asks
  <2> QED BY <2>1, <2>2, MarkDeclaredGraphStep
<1>5. CASE RecordChosen(w)
  <2> DEFINE kept == {<<r.to[1], v>> : v \in Chosen(r) \ Cut(r)}
             cut  == {<<r.to[1], v>> : v \in Cut(r)}
  <2>1. /\ r \in Reqs /\ job[w].pc = "versions" /\ Chosen(r) \subseteq Version
        /\ Cut(r) \subseteq Chosen(r)
        /\ Present(node) \subseteq Present(node')
        /\ kept \cup cut \subseteq Present(node')
        /\ Present(node') \subseteq Present(node) \cup kept \cup cut
        /\ visited' = visited \cup kept
        /\ edges' = edges \cup {Link(r, v) : v \in Chosen(r)}
    BY <1>5, RecordChosenStep
  <2>2. r \in Queued
    BY <1>2, <2>1
  <2>3. \A v \in Chosen(r) : Link(r, v).to = <<r.to[1], v>>
    BY <2>1, LinkParts
  <2>4. \A v \in Chosen(r) : <<r.to[1], v>> \in kept \cup cut
    OBVIOUS
  <2>5. ASSUME NEW e \in edges', e \notin edges
        PROVE  NewEdge(e)
    <3>1. PICK v \in Chosen(r) : e = Link(r, v)
      BY <2>1, <2>5
    <3>2. e.to \in Present(node')
      BY <2>1, <2>3, <2>4, <3>1
    <3> QED BY <2>1, <2>2, <3>1, <3>2 DEF NewEdge
  <2>6. ASSUME NEW id \in Present(node'), id \notin Present(node)
        PROVE  NewNode(id)
    <3>1. PICK v \in Chosen(r) : id = <<r.to[1], v>>
      BY <2>1, <2>6
    <3>2. Link(r, v) \in edges' /\ Link(r, v).to = id
      BY <2>1, <2>3, <3>1
    <3> QED BY <3>2 DEF NewNode
  <2> HIDE DEF kept, cut
  <2>7. visited' \subseteq visited \cup Present(node')
    BY <2>1
  <2> QED BY <2>1, <2>5, <2>6, <2>7 DEF GraphStep
<1>6. CASE MarkSkipped(w)
  <2>1. job[w].skipped \in SUBSET Queued /\ "dev-not-installed" \in Declareds
    BY <1>2, <1>6 DEF MarkSkipped, Declareds
  <2> QED BY <1>6, <2>1, MarkGraphStep DEF MarkSkipped
<1> QED BY <1>1, <1>3, <1>4, <1>5, <1>6 DEF Expand

LEMMA ReadFileGraphStep ==
  ASSUME TypeInv, RootId \in Present(node), ReadFile
  PROVE  GraphStep
<1> DEFINE file     == Manifest[nextFile]
           supplied == AddEach(node, file.nodes)
           concrete == {l \in file.links : l.to[2] # NoVersion}
           unknown  == {l.to : l \in concrete} \ Present(supplied)
<1>1. /\ nextFile \in 1..NumFiles /\ ~file.broken
      /\ Present(node) \subseteq Present(supplied)
      /\ DOMAIN file.nodes \subseteq Present(supplied)
      /\ Present(supplied) \subseteq Present(node) \cup DOMAIN file.nodes
      /\ Present(supplied) \subseteq Present(node')
      /\ unknown \subseteq Present(node')
      /\ Present(node') \subseteq Present(supplied) \cup unknown
      /\ edges' = edges \cup concrete
  BY ReadFileStep
<1>2. /\ \A l \in file.links : l.from \in {RootId} \cup DOMAIN file.nodes
      /\ \A id \in DOMAIN file.nodes : \E l \in file.links : l.to = id
  BY <1>1, ManifestAssumption
<1>3. visited' = visited
  BY DEF ReadFile
<1> HIDE DEF supplied
<1>4. \A l \in concrete : l.to \in Present(node')
  BY <1>1
<1>5. ASSUME NEW id \in Present(node'), id \notin Present(node)
      PROVE  NewNode(id)
  <2>1. CASE id \in unknown
    BY <1>1, <2>1 DEF NewNode
  <2>2. CASE id \in DOMAIN file.nodes /\ id[2] = NoVersion
    <3>1. id \in SuppliedVersionless
      BY <1>1, <2>2 DEF SuppliedVersionless
    <3> QED BY <3>1 DEF NewNode
  <2>3. CASE id \in DOMAIN file.nodes /\ id[2] # NoVersion
    <3>1. PICK l \in file.links : l.to = id
      BY <1>2, <2>3
    <3>2. l \in concrete
      BY <2>3, <3>1
    <3> QED BY <1>1, <3>1, <3>2 DEF NewNode
  <2> QED BY <1>1, <1>5, <2>1, <2>2, <2>3
<1>6. ASSUME NEW e \in concrete
      PROVE  FromFile(e)'
  <2>1. e \in SeedLinks
    BY <1>1 DEF SeedLinks
  <2>2. e.from \in Present(node')
    BY <1>1, <1>2, <1>6
  <2> QED BY <2>1, <2>2 DEF FromFile, SeedLinks, Present
<1> QED BY <1>1, <1>3, <1>4, <1>5, <1>6 DEF GraphStep, NewEdge

LEMMA ReadBrokenFileGraphStep ==
  ASSUME TypeInv, ReadBrokenFile
  PROVE  GraphStep
<1> DEFINE id == <<Unparsed, nextFile>>
           e  == [from |-> RootId, to |-> id, spec |-> "", scope |-> "prod"]
<1>1. id \in Ids
  BY MoreFiles DEF ReadBrokenFile, TypeInv, Ids
<1>2. /\ node' = AddAll(node, {id}, Declared("error:parse"))
      /\ edges' = edges \cup {e} /\ visited' = visited
  BY DEF ReadBrokenFile
<1>3. node \in NodeMaps /\ Declared("error:parse") \in Facts
  BY FactTypes DEF TypeInv, TypeOK, NodeMaps, Declareds
<1>4. e.to = id /\ e.from = RootId /\ e.to[1] = Unparsed
  OBVIOUS
<1> HIDE DEF id, e
<1>5. /\ Present(node) \subseteq Present(node')
      /\ {id} \cap Ids \subseteq Present(node')
      /\ Present(node') \subseteq Present(node) \cup {id}
  BY <1>2, <1>3, AddAllFacts
<1>6. NewEdge(e)
  BY <1>1, <1>4, <1>5 DEF NewEdge
<1>7. \A x \in Present(node') : x \in Present(node) \/ NewNode(x)
  BY <1>2, <1>4, <1>5 DEF NewNode
<1> QED BY <1>2, <1>5, <1>6, <1>7 DEF GraphStep

LEMMA StepGraph ==
  ASSUME TypeInv, RootId \in Present(node), [Next]_vars
  PROVE  GraphStep
<1>1. CASE ReadBrokenFile
  BY <1>1, ReadBrokenFileGraphStep
<1>2. CASE ReadFile
  BY <1>2, ReadFileGraphStep
<1>3. ASSUME NEW w \in Worker, Expand(w)
      PROVE  GraphStep
  BY <1>3, ExpandGraphStep
<1>4. CASE Finish
  <2>1. next \in SUBSET Queued /\ FrontierReason \in Declareds
    BY DEF Queued, FrontierReason, Declareds
  <2> QED BY <1>4, <2>1, MarkGraphStep DEF Finish, MarkFrontier
<1>5. CASE SeedDone \/ SeedFails \/ NextLevel \/ Abort \/ Expire \/ UNCHANGED vars
  BY <1>5, QuietGraphStep DEF SeedDone, SeedFails, NextLevel, Abort, Expire, vars
<1> QED BY <1>1, <1>2, <1>3, <1>4, <1>5 DEF Next, Progress, Ended

-----------------------------------------------------------------------------
(* The invariant the theorems about the graph rest on: every requirement   *)
(* the walk carries was reported by a file or read from a version, and     *)
(* starts at a node of the graph; so does every edge.                      *)
Carried ==
  /\ RootId \in Present(node) /\ visited \subseteq Present(node)
  /\ \A r \in Queued : Reported(r) /\ r.from \in Present(node)
GraphInv == TypeInv /\ Carried /\ EdgesJustified /\ GraphConnected

LEMMA ReportedGrows ==
  ASSUME fetched \subseteq fetched', NEW r, Reported(r)
  PROVE  Reported(r)'
BY DEF Reported, SeedLinks, Kids

LEMMA FetchedGrows ==
  ASSUME TypeInv, [Next]_vars
  PROVE  fetched \subseteq fetched'
<1>1. ASSUME NEW w \in Worker, Expand(w)
      PROVE  fetched \subseteq fetched'
  BY <1>1 DEF Expand, Spawn, Unresolvable, NoScheme, VersionsFail, AsOfFails,
     Unchoosable, RecordChosen, ReadRequirements, RequirementsFail, MarkSkipped,
     Return, hist
<1>2. CASE \/ ReadBrokenFile \/ ReadFile \/ SeedDone \/ SeedFails \/ NextLevel \/ Finish
           \/ Abort \/ Expire \/ UNCHANGED vars
  BY <1>2 DEF ReadBrokenFile, ReadFile, SeedDone, SeedFails, NextLevel, Finish, Abort,
              Expire, vars, hist
<1> QED BY <1>1, <1>2 DEF Next, Progress, Ended

LEMMA GraphInit == Init => GraphInv
<1> SUFFICES ASSUME Init PROVE GraphInv
  OBVIOUS
<1>1. TypeInv
  BY TypeInit
<1>2. RootId \in Ids
  BY DEF Ids, RootId
<1>3. Present(node) = {RootId}
  BY <1>2 DEF Init, Present, Resolved, Absent, Fact
<1>4. \A w \in Worker : job[w] = Idle
  BY DEF Init
<1>5. \A w \in Worker : Held(job[w]) = {}
  BY <1>4 DEF Held, Idle
<1>6. Queued = {}
  BY <1>5 DEF Init, Queued
<1>7. Carried
  BY <1>3, <1>6 DEF Init, Carried
<1>8. EdgesJustified /\ GraphConnected
  BY <1>3 DEF Init, EdgesJustified, GraphConnected
<1> QED BY <1>1, <1>7, <1>8 DEF GraphInv

LEMMA CarriedStep ==
  ASSUME GraphInv, [Next]_vars
  PROVE  Carried'
<1>1. TypeInv /\ RootId \in Present(node)
  BY DEF GraphInv, Carried
<1>2. /\ Present(node) \subseteq Present(node')
      /\ visited' \subseteq visited \cup Present(node')
  BY <1>1, StepGraph DEF GraphStep
<1>3. RootId \in Present(node') /\ visited' \subseteq Present(node')
  BY <1>1, <1>2 DEF GraphInv, Carried
<1>4. fetched \subseteq fetched'
  BY <1>1, FetchedGrows
<1>5. ASSUME NEW r \in Queued'
      PROVE  Reported(r)' /\ r.from \in Present(node')
  <2>1. r \in Queued \/ FromFile(r)' \/ FromRead(r)'
    BY <1>1, QueuedStep
  <2>2. CASE r \in Queued
    BY <1>2, <1>4, <2>2, ReportedGrows DEF GraphInv, Carried
  <2>3. CASE FromFile(r)'
    BY <2>3 DEF FromFile, Reported, SeedLinks, Present
  <2>4. CASE FromRead(r)'
    BY <1>3, <2>4 DEF FromRead, Reported, Kids
  <2> QED BY <2>1, <2>2, <2>3, <2>4
<1>6. Carried' <=> /\ RootId \in Present(node') /\ visited' \subseteq Present(node')
                   /\ \A r \in Queued' : Reported(r)' /\ r.from \in Present(node')
  BY DEF Carried, RootId, Present
<1> QED BY <1>3, <1>5, <1>6

LEMMA EdgesStep ==
  ASSUME GraphInv, [Next]_vars
  PROVE  EdgesJustified' /\ GraphConnected'
<1>1. TypeInv /\ RootId \in Present(node)
  BY DEF GraphInv, Carried
<1>2. GraphStep
  BY <1>1, StepGraph
<1>3. fetched \subseteq fetched'
  BY <1>1, FetchedGrows
<1>4. ASSUME NEW e \in edges'
      PROVE  /\ \/ e.to[1] = Unparsed \/ Reported(e)'
                \/ Reported([e EXCEPT !.to = <<e.to[1], NoVersion>>])'
             /\ {e.from, e.to} \subseteq Present(node')
  <2>1. CASE e \in edges
    BY <1>2, <1>3, <2>1, ReportedGrows
       DEF GraphInv, GraphStep, EdgesJustified, GraphConnected
  <2>2. CASE e \notin edges
    <3>1. NewEdge(e)
      BY <1>2, <2>2 DEF GraphStep
    <3>2. CASE e.from = RootId /\ e.to[1] = Unparsed
      BY <1>1, <1>2, <3>1, <3>2 DEF NewEdge, GraphStep
    <3>3. CASE e \in Queued
      BY <1>2, <1>3, <3>1, <3>3, ReportedGrows DEF GraphInv, Carried, NewEdge, GraphStep
    <3>4. ASSUME NEW r \in Queued, NEW v \in Version, e = Link(r, v)
          PROVE  /\ Reported([e EXCEPT !.to = <<e.to[1], NoVersion>>])'
                 /\ e.from \in Present(node')
      <4>1. r \in Reqs
        BY <1>1, QueuedAreReqs
      <4>2. [e EXCEPT !.to = <<e.to[1], NoVersion>>] = r /\ e.from = r.from
        BY <3>4, <4>1, LinkParts
      <4>3. Reported(r)' /\ r.from \in Present(node')
        BY <1>2, <1>3, ReportedGrows DEF GraphInv, Carried, GraphStep
      <4> QED BY <4>2, <4>3
    <3>5. CASE FromFile(e)'
      BY <3>1, <3>5 DEF NewEdge, FromFile, Reported, SeedLinks, Present
    <3>6. e.to \in Present(node')
      BY <3>1 DEF NewEdge
    <3> QED BY <3>1, <3>2, <3>3, <3>4, <3>5, <3>6 DEF NewEdge
  <2> QED BY <2>1, <2>2
<1>5. edges \subseteq edges'
  BY <1>1, StepGrows DEF Grows, graph
<1>6. ASSUME NEW id \in Present(node')
      PROVE  id \in {RootId} \cup SuppliedVersionless \cup {e.to : e \in edges'}
  <2>1. CASE id \in Present(node)
    BY <1>5, <2>1 DEF GraphInv, GraphConnected
  <2>2. CASE id \notin Present(node)
    BY <1>2, <2>2 DEF GraphStep, NewNode
  <2> QED BY <2>1, <2>2
<1>7. EdgesJustified'
  BY <1>4 DEF EdgesJustified
<1>8. GraphConnected'
  BY <1>4, <1>6 DEF GraphConnected, Present, SuppliedVersionless, RootId
<1> QED BY <1>7, <1>8

LEMMA WalkGraphInv == WalkSpec => []GraphInv
<1>1. GraphInv /\ [Next]_vars => GraphInv'
  BY TypeStep, CarriedStep, EdgesStep DEF GraphInv
<1> QED BY <1>1, GraphInit, PTL DEF WalkSpec

(* No dependency is invented, whatever the registry answers and however    *)
(* the goroutines interleave: every edge discharges a requirement that was *)
(* reported by a file or read from the version the edge starts at.         *)
THEOREM WalkEdgesJustified == WalkSpec => []EdgesJustified
<1>1. GraphInv => EdgesJustified
  BY DEF GraphInv
<1> QED BY <1>1, WalkGraphInv, PTL

(* The graph holds together at every instant: both ends of every edge are  *)
(* nodes, and nothing but the root and what an extractor supplied without  *)
(* a version is left without an edge that leads to it.                     *)
THEOREM WalkGraphConnected == WalkSpec => []GraphConnected
<1>1. GraphInv => GraphConnected
  BY DEF GraphInv
<1> QED BY <1>1, WalkGraphInv, PTL

-----------------------------------------------------------------------------
(* --as-of.                                                                *)

(* A historical walk expands nothing published later, and no version of a  *)
(* package of which no publish time is known, whatever the interleaving.   *)
THEOREM WalkAsOfHonest == WalkSpec => []AsOfHonest
<1>1. Init => AsOfHonest
  BY DEF Init, AsOfHonest
<1>2. TypeInv /\ AsOfHonest /\ [Next]_vars => AsOfHonest'
  <2> SUFFICES ASSUME TypeInv, AsOfHonest, [Next]_vars PROVE AsOfHonest'
    OBVIOUS
  <2>1. CASE visited' = visited
    BY <2>1 DEF AsOfHonest, AsOfUnanswerable
  <2>2. ASSUME NEW w \in Worker, RecordChosen(w)
        PROVE  AsOfHonest'
    <3> DEFINE r == job[w].req
               kept == {<<r.to[1], v>> : v \in Chosen(r) \ Cut(r)}
    <3>1. visited' = visited \cup kept /\ Chosen(r) \subseteq Available(r.to[1])
      BY <2>2, RecordChosenStep
    <3>2. ~AsOfUnanswerable(r.to[1])
      BY <2>2 DEF RecordChosen
    <3>3. ASSUME AsOf # 0, NEW id \in kept
          PROVE  Published[id[1]][id[2]] <= AsOf /\ ~AsOfUnanswerable(id[1])
      <4>1. PICK v \in Chosen(r) : id = <<r.to[1], v>>
        BY <3>3
      <4>2. id[1] = r.to[1] /\ id[2] = v
        BY <4>1
      <4>3. Published[r.to[1]][v] <= AsOf
        BY <3>1, <3>3, <4>1 DEF Available
      <4> QED BY <3>2, <4>2, <4>3
    <3> HIDE DEF kept
    <3> QED BY <3>1, <3>3 DEF AsOfHonest, AsOfUnanswerable
  <2>3. visited' = visited \/ \E w \in Worker : RecordChosen(w)
    BY DEF Next, Progress, Ended, Expand, ReadBrokenFile, ReadFile, SeedDone, SeedFails,
       NextLevel, Finish, Abort, Expire, Spawn, Unresolvable, NoScheme,
       VersionsFail, AsOfFails, Unchoosable, MarkDeclared, ReadRequirements,
       RequirementsFail, MarkSkipped, Return, vars, graph
  <2> QED BY <2>1, <2>2, <2>3
<1> QED BY <1>1, <1>2, WalkTypeInv, PTL DEF WalkSpec

-----------------------------------------------------------------------------
(* Reasons.                                                                *)

(* What a step may newly say of a node: a bound is named where it was hit, *)
(* and what is resolved carries no reason of the walk's.                   *)
Said(id) ==
  /\ node'[id].comp = "resolved" => node'[id].reason \in {"", "extractor"}
  /\ node'[id].reason = "bound:timeout" => expired
  /\ node'[id].reason = "bound:depth" =>
       phase' = "done" /\ ~expired /\ ~expired' /\ depth' = MaxDepth
  /\ node'[id].reason = "bound:nodes" =>
       \E w \in Worker : /\ RecordChosen(w)
                         /\ \E v \in Cut(job[w].req) : id = <<job[w].req.to[1], v>>
SaysTrue == \A id \in Ids : node'[id] = node[id] \/ Said(id)

LEMMA ReasonOfFact ==
  /\ Resolved.comp = "resolved" /\ Resolved.reason = ""
  /\ \A why : Declared(why).comp = "declared" /\ Declared(why).reason = why
BY DEF Resolved, Declared, Fact

(* A node AddAll is given has the old fact or the new one afterwards.       *)
LEMMA AddAllChoice ==
  ASSUME NEW g \in NodeMaps, NEW S, NEW fact, NEW id \in Ids
  PROVE  /\ AddAll(g, S, fact)[id] = g[id] \/ (id \in S /\ AddAll(g, S, fact)[id] = fact)
         /\ id \in S => AddAll(g, S, fact)[id] = Upgrade(g[id], fact)
<1>1. DOMAIN g = Ids
  BY DEF NodeMaps
<1> QED BY <1>1 DEF AddAll, Upgrade

(* One fact is added for several nodes, and it is none of the bounds.      *)
LEMMA AddedIsSaid ==
  ASSUME NEW S, NEW fact \in Facts, node \in NodeMaps, node' = AddAll(node, S, fact),
         fact.comp = "resolved" => fact.reason = "",
         fact.reason # "bound:nodes",
         fact.reason = "bound:timeout" => expired,
         fact.reason = "bound:depth" =>
           phase' = "done" /\ ~expired /\ ~expired' /\ depth' = MaxDepth
  PROVE  SaysTrue
<1>1. DOMAIN node = Ids
  BY DEF NodeMaps
<1>2. \A id \in Ids : node'[id] = node[id] \/ node'[id] = fact
  BY <1>1 DEF AddAll, Upgrade
<1> QED BY <1>2 DEF SaysTrue, Said

LEMMA DeclaredIsSaid ==
  ASSUME NEW S, NEW why \in Declareds, TypeOK, node' = AddAll(node, S, Declared(why)),
         why # "bound:nodes",
         why = "bound:timeout" => expired,
         why = "bound:depth" =>
           phase' = "done" /\ ~expired /\ ~expired' /\ depth' = MaxDepth
  PROVE  SaysTrue
<1>1. /\ Declared(why) \in Facts /\ Declared(why).comp = "declared"
      /\ Declared(why).reason = why
  BY FactTypes, ReasonOfFact
<1>2. node \in NodeMaps
  BY DEF TypeOK, NodeMaps
<1> QED BY <1>1, <1>2, AddedIsSaid

LEMMA RecordChosenSays ==
  ASSUME TypeInv, NEW w \in Worker, RecordChosen(w)
  PROVE  SaysTrue
<1> DEFINE r    == job[w].req
           kept == {<<r.to[1], v>> : v \in Chosen(r) \ Cut(r)}
           cut  == {<<r.to[1], v>> : v \in Cut(r)}
           mid  == AddAll(node, kept, Resolved)
           full == Declared("bound:nodes")
<1>1. node' = AddAll(mid, cut, full)
  BY DEF RecordChosen
<1>2. /\ Resolved \in Facts /\ full \in Facts /\ full.comp = "declared"
      /\ full.reason = "bound:nodes" /\ node \in NodeMaps
      /\ Resolved.comp = "resolved" /\ Resolved.reason = ""
  BY FactTypes, ReasonOfFact DEF Declareds, TypeInv, TypeOK, NodeMaps
<1>3. \A id \in cut : \E v \in Cut(r) : id = <<r.to[1], v>>
  OBVIOUS
<1> HIDE DEF kept, cut, full
<1>4. mid \in NodeMaps /\ \A id \in Ids : mid[id] = node[id] \/ mid[id] = Resolved
  BY <1>2, AddAllFacts
<1> HIDE DEF mid
<1>5. \A id \in Ids : node'[id] = mid[id] \/ (id \in cut /\ node'[id] = full)
  <2>1. \A id \in Ids : \/ AddAll(mid, cut, full)[id] = mid[id]
                        \/ id \in cut /\ AddAll(mid, cut, full)[id] = full
    BY <1>4, AddAllChoice
  <2> QED BY <1>1, <2>1
<1>6. ASSUME NEW id \in Ids, node'[id] # node[id]
      PROVE  Said(id)
  <2>1. CASE node'[id] = Resolved
    BY <1>2, <2>1 DEF Said
  <2>2. CASE id \in cut /\ node'[id] = full
    <3>1. \E v \in Cut(job[w].req) : id = <<job[w].req.to[1], v>>
      BY <1>3, <2>2
    <3> QED BY <1>2, <2>2, <3>1 DEF Said
  <2> QED BY <1>4, <1>5, <1>6, <2>1, <2>2
<1> QED BY <1>6 DEF SaysTrue

LEMMA ExpandSays ==
  ASSUME TypeInv, NEW w \in Worker, Expand(w)
  PROVE  SaysTrue
<1> DEFINE r == job[w].req
<1>1. TypeOK /\ node \in NodeMaps
  BY DEF TypeInv, TypeOK, NodeMaps
<1>2. CASE \/ Spawn(w) \/ AsOfFails(w) \/ ReadRequirements(w)
           \/ RequirementsFail(w) \/ Return(w)
  BY <1>2 DEF Spawn, AsOfFails, ReadRequirements, RequirementsFail, Return, graph, SaysTrue
<1>3. CASE Unresolvable(w)
  <2>1. \/ node' = AddAll(node, {r.to}, Declared("offline"))
        \/ \E v : node' = AddAll(node, {Link(r, v).to}, Resolved)
    BY <1>3 DEF Unresolvable, MarkDeclared
  <2>2. "offline" \in Declareds /\ Resolved \in Facts /\ Resolved.reason = ""
    BY FactTypes, ReasonOfFact DEF Declareds
  <2> QED BY <1>1, <2>1, <2>2, DeclaredIsSaid, AddedIsSaid
<1>4. CASE NoScheme(w) \/ VersionsFail(w) \/ Unchoosable(w)
  <2>1. \E why \in Declareds :
          /\ node' = AddAll(node, {r.to}, Declared(why))
          /\ why \notin {"bound:nodes", "bound:depth"}
          /\ why = "bound:timeout" => expired
    BY <1>4 DEF NoScheme, VersionsFail, Unchoosable, Declareds, MarkDeclared
  <2> QED BY <1>1, <2>1, DeclaredIsSaid
<1>5. CASE RecordChosen(w)
  BY <1>5, RecordChosenSays
<1>6. CASE MarkSkipped(w)
  <2>1. "dev-not-installed" \in Declareds
    BY DEF Declareds
  <2> QED BY <1>1, <1>6, <2>1, DeclaredIsSaid DEF MarkSkipped
<1> QED BY <1>2, <1>3, <1>4, <1>5, <1>6 DEF Expand

LEMMA ReadFileSays ==
  ASSUME TypeInv, ReadFile
  PROVE  SaysTrue
<1> DEFINE facts    == Manifest[nextFile].nodes
           supplied == AddEach(node, facts)
<1>1. /\ nextFile \in 1..NumFiles /\ supplied \in NodeMaps
      /\ \E S : node' = AddAll(supplied, S, Declared("unpinned-ref"))
  BY ReadFileStep
<1>2. \A id \in DOMAIN facts :
        /\ facts[id].reason \notin {"bound:depth", "bound:nodes", "bound:timeout"}
        /\ facts[id].comp = "resolved" => facts[id].reason \in {"", "extractor"}
  BY <1>1, FactsAssumption
<1>3. DOMAIN node = Ids
  BY DEF TypeInv, TypeOK
<1> HIDE DEF facts
<1>4. \A id \in Ids : supplied[id] = node[id] \/ (id \in DOMAIN facts /\ supplied[id] = facts[id])
  BY <1>3 DEF AddEach, Upgrade
<1>5. /\ Declared("unpinned-ref") \in Facts /\ Declared("unpinned-ref").comp = "declared"
      /\ Declared("unpinned-ref").reason = "unpinned-ref"
  BY FactTypes, ReasonOfFact DEF Declareds
<1> HIDE DEF supplied
<1>6. \A id \in Ids : node'[id] = supplied[id] \/ node'[id] = Declared("unpinned-ref")
  BY <1>1, <1>5, AddAllFacts
<1> QED BY <1>2, <1>4, <1>5, <1>6 DEF SaysTrue, Said

LEMMA StepSays ==
  ASSUME TypeInv, [Next]_vars
  PROVE  SaysTrue
<1>1. TypeOK
  BY DEF TypeInv
<1>2. CASE ReadBrokenFile
  <2>1. "error:parse" \in Declareds
    BY DEF Declareds
  <2>2. \E S : node' = AddAll(node, S, Declared("error:parse"))
    BY <1>2 DEF ReadBrokenFile
  <2> QED BY <1>1, <2>1, <2>2, DeclaredIsSaid
<1>3. CASE ReadFile
  BY <1>3, ReadFileSays
<1>4. ASSUME NEW w \in Worker, Expand(w)
      PROVE  SaysTrue
  BY <1>4, ExpandSays
<1>5. CASE Finish
  <2>1. FrontierReason \in Declareds /\ FrontierReason # "bound:nodes"
        /\ (FrontierReason = "bound:timeout" => expired)
        /\ (FrontierReason = "bound:depth" => ~expired)
    BY DEF Declareds, FrontierReason
  <2>2. /\ node' = AddAll(node, {r.to : r \in next}, Declared(FrontierReason))
        /\ phase' = "done" /\ expired' = expired /\ depth' = depth
        /\ expired \/ next = {} \/ depth = MaxDepth
    BY <1>5 DEF Finish, MarkFrontier
  <2>3. CASE next = {}
    <3>1. \A id \in Ids : node'[id] = node[id]
      BY <1>1, <2>2, <2>3 DEF AddAll, TypeOK
    <3> QED BY <3>1 DEF SaysTrue
  <2>4. CASE next # {}
    BY <1>1, <2>1, <2>2, <2>4, DeclaredIsSaid
  <2> QED BY <2>3, <2>4
<1>6. CASE SeedDone \/ SeedFails \/ NextLevel \/ Abort \/ Expire \/ UNCHANGED vars
  BY <1>6 DEF SeedDone, SeedFails, NextLevel, Abort, Expire, vars, graph, SaysTrue
<1> QED BY <1>2, <1>3, <1>4, <1>5, <1>6 DEF Next, Progress, Ended

LEMMA RankOfResolved ==
  ASSUME NEW f \in Facts \cup {Absent}, NEW g \in Facts \cup {Absent}
  PROVE  /\ f.comp = "resolved" => ~(Rank(g.comp) > Rank(f.comp))
         /\ Rank(Resolved.comp) <= Rank(f.comp) => f.comp = "resolved"
<1>1. /\ Rank("resolved") = 3 /\ Rank("inferred") = 2 /\ Rank("declared") = 1
      /\ Rank("opaque") = 0 /\ Rank("absent") = -1
  BY DEF Rank
<1>2. f.comp \in Completeness \cup {"absent"} /\ g.comp \in Completeness \cup {"absent"}
  BY RankOfAbsent DEF Facts
<1>3. Resolved.comp = "resolved"
  BY ReasonOfFact
<1> QED BY <1>1, <1>2, <1>3 DEF Completeness

(* Nothing that was resolved is ever less than resolved.                   *)
LEMMA RaisedStaysResolved ==
  ASSUME NEW g \in NodeMaps, NEW h \in NodeMaps, Raises(g, h), NEW id \in Ids,
         g[id].comp = "resolved"
  PROVE  h[id].comp = "resolved"
<1>1. g[id] \in Facts \cup {Absent} /\ h[id] \in Facts \cup {Absent}
  BY DEF NodeMaps
<1>2. h[id] = g[id] \/ Rank(h[id].comp) > Rank(g[id].comp)
  BY DEF Raises
<1>3. ~(Rank(h[id].comp) > Rank(g[id].comp))
  BY <1>1, RankOfResolved
<1> QED BY <1>2, <1>3

LEMMA ChosenAreResolved ==
  ASSUME TypeInv, NEW w \in Worker, RecordChosen(w),
         NEW id \in Ids, id \in visited' \ visited
  PROVE  node'[id].comp = "resolved"
<1> DEFINE r    == job[w].req
           kept == {<<r.to[1], v>> : v \in Chosen(r) \ Cut(r)}
           cut  == {<<r.to[1], v>> : v \in Cut(r)}
           mid  == AddAll(node, kept, Resolved)
           full == Declared("bound:nodes")
<1>1. node' = AddAll(mid, cut, full) /\ visited' = visited \cup kept
  BY DEF RecordChosen
<1>2. Resolved \in Facts /\ full \in Facts /\ node \in NodeMaps /\ DOMAIN node = Ids
  BY FactTypes DEF Declareds, TypeInv, TypeOK, NodeMaps
<1> HIDE DEF kept, cut, full
<1>3. mid \in NodeMaps /\ mid[id] = Upgrade(node[id], Resolved)
  <2>1. id \in kept
    BY <1>1
  <2>2. mid \in NodeMaps
    BY <1>2, AddAllFacts
  <2> QED BY <1>2, <2>1, <2>2, AddAllChoice
<1>4. mid[id].comp = "resolved"
  <2>1. node[id] \in Facts \cup {Absent} /\ Resolved.comp = "resolved"
    BY <1>2, ReasonOfFact DEF NodeMaps
  <2>2. CASE Rank(Resolved.comp) <= Rank(node[id].comp)
    BY <1>3, <2>1, <2>2, RankOfResolved DEF Upgrade
  <2>3. CASE ~(Rank(Resolved.comp) <= Rank(node[id].comp))
    BY <1>3, <2>1, <2>3 DEF Upgrade
  <2> QED BY <2>2, <2>3
<1> HIDE DEF mid
<1>5. Raises(mid, node') /\ node' \in NodeMaps
  BY <1>1, <1>2, <1>3, AddAllRaises
<1> QED BY <1>3, <1>4, <1>5, RaisedStaysResolved

(* What is visited is only ever added to by RecordChosen.                  *)
LEMMA VisitedStep ==
  ASSUME [Next]_vars
  PROVE  visited' = visited \/ \E w \in Worker : RecordChosen(w)
BY DEF Next, Progress, Ended, Expand, ReadBrokenFile, ReadFile, SeedDone, SeedFails,
   NextLevel, Finish, Abort, Expire, Spawn, Unresolvable, NoScheme,
   VersionsFail, AsOfFails, Unchoosable, MarkDeclared, ReadRequirements,
   RequirementsFail, MarkSkipped, Return, vars, graph

(* The context stays expired, and nothing changes the outcome of a walk    *)
(* that is done.                                                           *)
LEMMA ClockStep ==
  ASSUME [Next]_vars, TypeOK
  PROVE  /\ expired => expired'
         /\ phase = "done" => phase' = "done" /\ expired' = expired /\ depth' = depth
BY DEF TypeOK, Next, Progress, Ended, Expand, ReadBrokenFile, ReadFile, SeedDone, SeedFails,
   NextLevel, LevelDone, Finish, Abort, Expire, Spawn, Unresolvable, NoScheme,
   VersionsFail, AsOfFails, Unchoosable, RecordChosen, ReadRequirements,
   RequirementsFail, MarkSkipped, Return, vars, level

LEMMA ReasonsStep ==
  ASSUME TypeInv, ReasonsTruthful, [Next]_vars
  PROVE  ReasonsTruthful'
<1>1. TypeInv' /\ TypeOK
  BY TypeStep DEF TypeInv
<1>2. SaysTrue
  BY StepSays
<1>3. node \in NodeMaps /\ node' \in NodeMaps
  BY <1>1 DEF TypeInv, TypeOK, NodeMaps
<1>4. /\ expired => expired'
      /\ phase = "done" => phase' = "done" /\ expired' = expired /\ depth' = depth
  BY <1>1, ClockStep
<1>5. ASSUME NEW id \in Ids
      PROVE  /\ node'[id].comp = "resolved" => node'[id].reason \in {"", "extractor"}
             /\ node'[id].reason = "bound:timeout" => expired'
             /\ node'[id].reason = "bound:depth" =>
                  phase' = "done" /\ ~expired' /\ depth' = MaxDepth
  BY <1>2, <1>4 DEF SaysTrue, Said, ReasonsTruthful
<1>6. ASSUME NEW id \in Ids, id \in visited'
      PROVE  node'[id].comp = "resolved"
  <2>1. CASE id \in visited
    <3>1. node[id].comp = "resolved"
      BY <2>1 DEF ReasonsTruthful
    <3>2. CASE Grows
      BY <1>3, <3>1, <3>2, RaisedStaysResolved DEF Grows
    <3>3. CASE UNCHANGED graph
      BY <3>1, <3>3 DEF graph
    <3> QED BY <3>2, <3>3, StepGrows
  <2>2. CASE id \notin visited
    BY <1>6, <2>2, VisitedStep, ChosenAreResolved
  <2> QED BY <2>1, <2>2
<1> QED BY <1>5, <1>6 DEF ReasonsTruthful, Ids

(* A bound is named only where it was hit, for every repository, registry, *)
(* deadline and interleaving, and what was resolved says no such thing.    *)
THEOREM WalkReasonsTruthful == WalkSpec => []ReasonsTruthful
<1>1. Init => ReasonsTruthful
  <2> SUFFICES ASSUME Init, NEW id \in Ids
               PROVE  /\ node[id].comp = "resolved" => node[id].reason = ""
                      /\ node[id].reason = "" /\ id \notin visited
    BY DEF ReasonsTruthful
  <2>1. node[id] = Resolved \/ node[id] = Absent
    BY DEF Init
  <2> QED BY <2>1 DEF Init, Resolved, Absent, Fact
<1>2. TypeInv /\ ReasonsTruthful /\ [Next]_vars => ReasonsTruthful'
  BY ReasonsStep
<1> QED BY <1>1, <1>2, WalkTypeInv, PTL DEF WalkSpec

-----------------------------------------------------------------------------
(* Nothing is forgotten.                                                   *)

(* The requirements that wait to be expanded or marked.                    *)
Bears(j) == j.kids \cup j.skipped \cup (IF j.pc = "versions" THEN {j.req} ELSE {})
Awaited == pending \cup next \cup UNION {Bears(job[w]) : w \in Worker}

LEMMA AwaitedIsWaiting == \A r : Waiting(r) <=> r \in Awaited
<1> SUFFICES ASSUME NEW r PROVE Waiting(r) <=> r \in Awaited
  OBVIOUS
<1>1. ASSUME NEW w \in Worker
      PROVE  r \in Bears(job[w]) <=> \/ r \in job[w].kids \cup job[w].skipped
                                     \/ job[w].pc = "versions" /\ r = job[w].req
  BY DEF Bears
<1> QED BY <1>1 DEF Waiting, Awaited

(* One goroutine's hands change: what no longer waits is in S.             *)
LEMMA AwaitedByOne ==
  ASSUME TypeInv, NEW w \in Worker, NEW j, job' = [job EXCEPT ![w] = j], NEW S,
         pending \cup next \cup Bears(job[w]) \subseteq pending' \cup next' \cup Bears(j) \cup S
  PROVE  Awaited \subseteq Awaited' \cup S
<1>1. job'[w] = j /\ \A u \in Worker \ {w} : job'[u] = job[u]
  BY HandOf
<1>2. Awaited' = pending' \cup next' \cup UNION {Bears(job'[u]) : u \in Worker}
  BY DEF Awaited, Bears
<1>3. ASSUME NEW r \in Awaited
      PROVE  r \in Awaited' \cup S
  <2>1. CASE r \in pending \cup next \cup Bears(job[w])
    BY <1>1, <1>2, <2>1
  <2>2. ASSUME NEW u \in Worker \ {w}, r \in Bears(job[u])
        PROVE  r \in Awaited'
    BY <1>1, <1>2, <2>2
  <2> QED BY <1>3, <2>1, <2>2 DEF Awaited
<1> QED BY <1>3

(* The steps that settle a requirement, and leave a trace of it or not.    *)
LEMMA SettledAwaits ==
  ASSUME TypeInv, NEW w \in Worker, job[w].pc = "versions", NEW e,
         job' = [job EXCEPT ![w] = [job[w] EXCEPT !.pc = "requirements", !.err = e]],
         pending' = pending, next' = next
  PROVE  Awaited \subseteq Awaited' \cup {job[w].req}
<1> DEFINE j == [job[w] EXCEPT !.pc = "requirements", !.err = e]
<1>1. job[w] \in Jobs
  BY DEF TypeInv, TypeOK
<1>2. Bears(job[w]) \subseteq Bears(j) \cup {job[w].req}
  BY <1>1 DEF Bears, Jobs
<1>3. job' = [job EXCEPT ![w] = j]
  OBVIOUS
<1> DEFINE S == {job[w].req}
<1> HIDE DEF j, S
<1>4. pending \cup next \cup Bears(job[w]) \subseteq pending' \cup next' \cup Bears(j) \cup S
  BY <1>2 DEF S
<1>5. Awaited \subseteq Awaited' \cup S
  BY <1>3, <1>4, AwaitedByOne
<1> QED BY <1>5 DEF S

(* What has been read stays accounted for: it waits, it has left an edge,  *)
(* its refusal fails the walk, or no version satisfies it.                 *)
Safe(r) == Kept(r) \/ Matchless(r)

LEMMA ExpandKeeps ==
  ASSUME TypeInv, NEW w \in Worker, Expand(w), NEW r \in Awaited
  PROVE  r \in Awaited' \/ Traced(r)' \/ Refused(r)' \/ Matchless(r)
<1> DEFINE q == job[w].req
<1>1. job[w] \in Jobs /\ job \in [Worker -> Jobs]
  BY DEF TypeInv, TypeOK
<1>2. CASE Spawn(w)
  <2>1. PICK x \in pending :
          /\ pending' = pending \ {x}
          /\ job' = [job EXCEPT ![w].pc = "versions", ![w].req = x]
    BY <1>2 DEF Spawn
  <2> DEFINE j == [job[w] EXCEPT !.pc = "versions", !.req = x]
  <2>2. job[w].kids = {} /\ job[w].skipped = {} /\ job[w].pc = "idle" /\ next' = next
    BY <1>2 DEF Spawn, TypeInv, HandsClean
  <2>3. job' = [job EXCEPT ![w] = j] /\ Bears(j) = {x} /\ Bears(job[w]) = {}
    BY <1>1, <2>1, <2>2 DEF Jobs, Bears
  <2> HIDE DEF j
  <2>4. pending \cup next \cup Bears(job[w]) \subseteq pending' \cup next' \cup Bears(j) \cup {}
    BY <2>1, <2>2, <2>3
  <2>5. Awaited \subseteq Awaited' \cup {}
    BY <2>3, <2>4, AwaitedByOne
  <2> QED BY <2>5
<1>3. ASSUME Unresolvable(w) \/ NoScheme(w) \/ VersionsFail(w) \/ Unchoosable(w)
      PROVE  r \in Awaited' \/ Traced(r)'
  <2>1. /\ job[w].pc = "versions" /\ Settled(w) /\ pending' = pending /\ next' = next
        /\ q \in edges' \/ \E v : v # NoVersion /\ Link(q, v) \in edges'
                                 /\ v = (IF q.to[1] \in Schemed THEN ExactOf[q.spec] ELSE NoVersion)
    BY <1>3 DEF Unresolvable, NoScheme, VersionsFail, Unchoosable, MarkDeclared, Asks, level
  <2>2. ASSUME NEW v, v # NoVersion,
               v = (IF q.to[1] \in Schemed THEN ExactOf[q.spec] ELSE NoVersion)
        PROVE  v \in Version
    <3>1. q.spec \in Spec
      BY <2>1, ActiveReq, ReqParts
    <3>2. ExactOf[q.spec] \in Version \cup {NoVersion}
      BY <3>1, WorldAssumption
    <3> QED BY <2>2, <3>2
  <2>3. q \in edges' \/ \E v \in Version : Link(q, v) \in edges'
    BY <2>1, <2>2
  <2>4. Awaited \subseteq Awaited' \cup {q}
    BY <2>1, SettledIsStep, SettledAwaits
  <2>5. Traced(r)' <=> r \in edges' \/ \E v \in Version : Link(r, v) \in edges'
    BY DEF Traced, Link
  <2> HIDE DEF q
  <2> QED BY <2>3, <2>4, <2>5
<1>4. CASE AsOfFails(w)
  <2>1. /\ job' = [job EXCEPT ![w] = [job[w] EXCEPT !.pc = "requirements", !.err = TRUE]]
        /\ job[w].pc = "versions" /\ pending' = pending /\ next' = next
        /\ AsOfUnanswerable(q.to[1])
    BY <1>1, <1>4 DEF AsOfFails, Asks, level
  <2>2. Awaited \subseteq Awaited' \cup {q}
    BY <2>1, SettledAwaits
  <2>3. job'[w].err
    BY <1>1, <2>1 DEF Jobs
  <2> HIDE DEF q
  <2>4. ASSUME r = q
        PROVE  Refused(r)'
    BY <2>1, <2>3, <2>4 DEF Refused, AsOfUnanswerable
  <2> QED BY <2>2, <2>4
<1>5. CASE RecordChosen(w)
  <2> DEFINE j == [job[w] EXCEPT !.pc = "requirements", !.unseen = Unseen(q)]
  <2>1. /\ job[w].pc = "versions" /\ job' = [job EXCEPT ![w] = j]
        /\ j.req = q /\ j.kids = {} /\ j.skipped = {}
        /\ Chosen(q) \subseteq Version
        /\ edges' = edges \cup {Link(q, v) : v \in Chosen(q)}
    BY <1>5, RecordChosenStep
  <2>2. /\ job[w].kids = {} /\ job[w].skipped = {}
        /\ q.to[1] \in Resolvable \cap Schemed /\ ~PinMissing(q.to[1]) /\ ~BadRange(q)
        /\ pending' = pending /\ next' = next
    BY <1>5 DEF RecordChosen, Asks, TypeInv, HandsClean, level
  <2>3. Bears(job[w]) \subseteq {q}
    BY <2>1, <2>2 DEF Bears
  <2> DEFINE S == {q}
  <2> HIDE DEF j, S
  <2>4. pending \cup next \cup Bears(job[w]) \subseteq pending' \cup next' \cup Bears(j) \cup S
    BY <2>2, <2>3 DEF S
  <2>5. Awaited \subseteq Awaited' \cup S
    BY <2>1, <2>4, AwaitedByOne
  <2> HIDE DEF q
  <2>6. CASE Chosen(q) = {}
    <3>1. Matchless(q)
      BY <2>2, <2>6 DEF Matchless
    <3> QED BY <2>5, <3>1 DEF S
  <2>7. ASSUME NEW v \in Chosen(q)
        PROVE  v \in Version /\ Link(q, v) \in edges'
    BY <2>1, <2>7
  <2>8. Traced(r)' <=> r \in edges' \/ \E v \in Version : Link(r, v) \in edges'
    BY DEF Traced, Link
  <2> QED BY <2>5, <2>6, <2>7, <2>8 DEF S
<1>6. CASE ReadRequirements(w)
  <2>1. PICK v \in job[w].unseen :
          job' = [job EXCEPT
               ![w].unseen  = @ \ {v},
               ![w].kids    = @ \cup {k \in Kids(q.to[1], v) : ~SkipScope(k)},
               ![w].skipped = @ \cup {k \in Kids(q.to[1], v) : SkipScope(k)}]
    BY <1>6 DEF ReadRequirements
  <2> DEFINE p == q.to[1]
             j == [job[w] EXCEPT
                     !.unseen  = @ \ {v},
                     !.kids    = @ \cup {k \in Kids(p, v) : ~SkipScope(k)},
                     !.skipped = @ \cup {k \in Kids(p, v) : SkipScope(k)}]
  <2>2. job' = [job EXCEPT ![w] = j]
    BY <1>1, <2>1
  <2>3. /\ job[w].pc = "requirements" /\ pending' = pending /\ next' = next
    BY <1>6 DEF ReadRequirements, level
  <2>4. Bears(job[w]) \subseteq Bears(j)
    BY <1>1, <2>3 DEF Bears, Jobs
  <2> HIDE DEF j, p
  <2>5. pending \cup next \cup Bears(job[w]) \subseteq pending' \cup next' \cup Bears(j) \cup {}
    BY <2>3, <2>4
  <2>6. Awaited \subseteq Awaited' \cup {}
    BY <2>2, <2>5, AwaitedByOne
  <2> QED BY <2>6
<1>7. CASE RequirementsFail(w)
  <2>1. PICK v \in job[w].unseen : job' = [job EXCEPT ![w].unseen = @ \ {v}]
    BY <1>7 DEF RequirementsFail
  <2> DEFINE j == [job[w] EXCEPT !.unseen = @ \ {v}]
  <2>2. job' = [job EXCEPT ![w] = j] /\ Bears(j) = Bears(job[w])
    BY <1>1, <2>1 DEF Jobs, Bears
  <2>3. pending' = pending /\ next' = next
    BY <1>7 DEF RequirementsFail, level
  <2> HIDE DEF j
  <2>4. pending \cup next \cup Bears(job[w]) \subseteq pending' \cup next' \cup Bears(j) \cup {}
    BY <2>2, <2>3
  <2>5. Awaited \subseteq Awaited' \cup {}
    BY <2>2, <2>4, AwaitedByOne
  <2> QED BY <2>5
<1>8. CASE MarkSkipped(w)
  <2> DEFINE j == [job[w] EXCEPT !.skipped = {}]
             S == job[w].skipped
  <2>1. /\ job' = [job EXCEPT ![w] = j] /\ Bears(job[w]) \subseteq Bears(j) \cup S
        /\ S \subseteq edges'
    BY <1>1, <1>8 DEF MarkSkipped, Jobs, Bears
  <2>2. pending' = pending /\ next' = next
    BY <1>8 DEF MarkSkipped, level
  <2> HIDE DEF j, S
  <2>3. pending \cup next \cup Bears(job[w]) \subseteq pending' \cup next' \cup Bears(j) \cup S
    BY <2>1, <2>2
  <2>4. Awaited \subseteq Awaited' \cup S
    BY <2>1, <2>3, AwaitedByOne
  <2>5. r \in edges' => Traced(r)'
    BY DEF Traced
  <2> QED BY <2>1, <2>4, <2>5
<1>9. CASE Return(w)
  <2>1. /\ job' = [job EXCEPT ![w] = Idle]
        /\ pending' = pending /\ next' = next \cup job[w].kids
        /\ Bears(job[w]) = job[w].kids
    BY <1>9 DEF Return, Bears
  <2>2. pending \cup next \cup Bears(job[w])
          \subseteq pending' \cup next' \cup Bears(Idle) \cup {}
    BY <2>1
  <2>3. Awaited \subseteq Awaited' \cup {}
    BY <2>1, <2>2, AwaitedByOne
  <2> QED BY <2>3
<1> QED BY <1>2, <1>3, <1>4, <1>5, <1>6, <1>7, <1>8, <1>9 DEF Expand

LEMMA AwaitedStep ==
  ASSUME TypeInv, [Next]_vars, NEW r \in Awaited
  PROVE  r \in Awaited' \/ Traced(r)' \/ Refused(r)' \/ Matchless(r)
<1>1. ASSUME NEW w \in Worker, Expand(w)
      PROVE  r \in Awaited' \/ Traced(r)' \/ Refused(r)' \/ Matchless(r)
  BY <1>1, ExpandKeeps
<1>2. CASE job' = job /\ pending \cup next \subseteq pending' \cup next'
  BY <1>2 DEF Awaited, Bears
<1>3. CASE Finish
  <2>1. /\ job' = job /\ pending' = pending /\ next \subseteq edges'
    BY <1>3 DEF Finish, MarkFrontier
  <2>2. r \in Awaited' \/ r \in next
    BY <2>1 DEF Awaited, Bears
  <2> QED BY <2>1, <2>2 DEF Traced
<1>4. CASE \/ ReadBrokenFile \/ ReadFile \/ SeedDone \/ SeedFails \/ NextLevel
           \/ Abort \/ Expire \/ UNCHANGED vars
  <2>1. job' = job /\ pending \cup next \subseteq pending' \cup next'
    BY <1>4 DEF ReadBrokenFile, ReadFile, SeedDone, SeedFails, NextLevel, LevelDone, Abort, Expire,
                vars, level
  <2> QED BY <1>2, <2>1
<1> QED BY <1>1, <1>3, <1>4 DEF Next, Progress, Ended

(* An error is kept by the goroutine until it returns, and then by the     *)
(* level.                                                                  *)
LEMMA ErrStep ==
  ASSUME TypeInv, [Next]_vars, firstErr \/ \E u \in Worker : job[u].err
  PROVE  firstErr' \/ \E u \in Worker : job'[u].err
<1>1. job \in [Worker -> Jobs]
  BY DEF TypeInv, TypeOK
<1>2. ASSUME NEW w \in Worker, Expand(w)
      PROVE  firstErr' \/ \E u \in Worker : job'[u].err
  <2>1. firstErr => firstErr'
    BY <1>2 DEF Expand, Spawn, Unresolvable, NoScheme, VersionsFail, AsOfFails,
       Unchoosable, RecordChosen, ReadRequirements, RequirementsFail, MarkSkipped, Return
  <2>2. \A u \in Worker \ {w} : job'[u] = job[u]
    BY <1>1, <1>2 DEF Expand, Spawn, Unresolvable, NoScheme, VersionsFail, AsOfFails,
       Unchoosable, RecordChosen, ReadRequirements, RequirementsFail, MarkSkipped,
       Return, Settled
  <2>3. CASE Return(w)
    BY <2>1, <2>2, <2>3 DEF Return
  <2>4. CASE AsOfFails(w)
    BY <1>1, <2>4 DEF AsOfFails, Jobs
  <2>5. CASE RecordChosen(w)
    BY <1>1, <2>1, <2>2, <2>5, RecordChosenStep
  <2>6. CASE Unresolvable(w) \/ NoScheme(w) \/ VersionsFail(w) \/ Unchoosable(w)
    <3>1. job'[w].err = job[w].err
      BY <1>1, <2>6 DEF Unresolvable, NoScheme, VersionsFail, Unchoosable, Settled, Jobs
    <3> QED BY <2>1, <2>2, <3>1
  <2>7. CASE ReadRequirements(w) \/ RequirementsFail(w)
    <3>1. job'[w].err = job[w].err
      BY <1>1, <2>7 DEF ReadRequirements, RequirementsFail, Jobs
    <3> QED BY <2>1, <2>2, <3>1
  <2>8. CASE Spawn(w) \/ MarkSkipped(w)
    <3>1. job'[w].err = job[w].err
      BY <1>1, <2>8 DEF Spawn, MarkSkipped, Jobs
    <3> QED BY <2>1, <2>2, <3>1
  <2> QED BY <1>2, <2>3, <2>4, <2>5, <2>6, <2>7, <2>8 DEF Expand
<1>3. CASE \/ ReadBrokenFile \/ ReadFile \/ SeedDone \/ SeedFails \/ NextLevel \/ Finish
           \/ Abort \/ Expire \/ UNCHANGED vars
  <2>1. job' = job /\ firstErr' = firstErr
    BY <1>3 DEF ReadBrokenFile, ReadFile, SeedDone, SeedFails, NextLevel, Finish, Abort, Expire, vars
  <2> QED BY <2>1
<1> QED BY <1>2, <1>3 DEF Next, Progress, Ended

LEMMA SafeStep ==
  ASSUME TypeInv, [Next]_vars, NEW r, Safe(r)
  PROVE  Safe(r)'
<1>1. Matchless(r)' <=> Matchless(r)
  BY DEF Matchless, PinMissing, BadRange, Chosen, Pinned, Available, Enumerate, Newest
<1>2. CASE Waiting(r)
  <2>1. r \in Awaited
    BY <1>2, AwaitedIsWaiting
  <2>2. r \in Awaited' => Waiting(r)'
    <3>1. r \in Awaited' => \/ r \in pending' \cup next'
                            \/ \E w \in Worker : r \in Bears(job'[w])
      BY DEF Awaited, Bears
    <3> QED BY <3>1 DEF Waiting, Bears
  <2> QED BY <1>1, <2>1, <2>2, AwaitedStep DEF Safe, Kept
<1>3. CASE Traced(r)
  <2>1. edges \subseteq edges'
    BY StepGrows DEF Grows, graph
  <2> QED BY <1>3, <2>1 DEF Safe, Kept, Traced, Link
<1>4. CASE Refused(r)
  <2>1. firstErr' \/ \E u \in Worker : job'[u].err
    BY <1>4, ErrStep DEF Refused
  <2> QED BY <1>4, <2>1 DEF Safe, Kept, Refused, AsOfUnanswerable
<1>5. CASE Matchless(r)
  BY <1>1, <1>5 DEF Safe
<1> QED BY <1>2, <1>3, <1>4, <1>5 DEF Safe, Kept

(* While files are read, the requirements of those read are all pending.   *)
Seeded ==
  phase = "seed" =>
    \A f \in 1..(nextFile - 1) : ~Manifest[f].broken =>
      \A l \in Manifest[f].links : l.to[2] = NoVersion => l \in pending

LEMMA SeededStep ==
  ASSUME TypeInv, Seeded, [Next]_vars
  PROVE  Seeded'
<1> SUFFICES ASSUME phase' = "seed", NEW f \in 1..(nextFile' - 1), ~Manifest[f].broken,
                    NEW l \in Manifest[f].links, l.to[2] = NoVersion
             PROVE  l \in pending'
  BY DEF Seeded
<1>1. nextFile \in Nat
  BY BoundsAssumption DEF TypeInv, TypeOK
<1>2. CASE ReadFile
  <2>1. /\ nextFile' = nextFile + 1 /\ phase = "seed"
        /\ pending' = pending \cup
             (Manifest[nextFile].links \ {x \in Manifest[nextFile].links : x.to[2] # NoVersion})
    BY <1>2 DEF ReadFile
  <2>2. CASE f = nextFile
    BY <2>1, <2>2
  <2>3. CASE f # nextFile
    <3>1. f \in 1..(nextFile - 1)
      BY <1>1, <2>1, <2>3
    <3> QED BY <2>1, <3>1 DEF Seeded
  <2> QED BY <2>2, <2>3
<1>3. CASE ReadBrokenFile
  <2>1. /\ nextFile' = nextFile + 1 /\ phase = "seed" /\ pending' = pending
        /\ Manifest[nextFile].broken
    BY <1>3 DEF ReadBrokenFile, level
  <2>2. f # nextFile
    BY <2>1
  <2>3. f \in 1..(nextFile - 1)
    BY <1>1, <2>1, <2>2
  <2> QED BY <2>1, <2>3 DEF Seeded
<1>4. CASE phase = "seed" /\ nextFile' = nextFile /\ pending' = pending
  BY <1>4 DEF Seeded
<1>5. ASSUME NEW w \in Worker, Expand(w)
      PROVE  phase = "seed" /\ nextFile' = nextFile /\ (pending' = pending \/ Spawn(w))
  BY <1>5 DEF Expand, Spawn, Unresolvable, NoScheme, VersionsFail, AsOfFails,
     Unchoosable, RecordChosen, ReadRequirements, RequirementsFail, MarkSkipped,
     Return, level
<1>6. ASSUME NEW w \in Worker, Expand(w)
      PROVE  pending' = pending
  BY <1>5, <1>6 DEF Spawn
<1>7. CASE SeedDone \/ SeedFails \/ NextLevel \/ Finish \/ Abort \/ Expire \/ UNCHANGED vars
  BY <1>4, <1>7 DEF SeedDone, SeedFails, NextLevel, Finish, LevelDone, Abort, Expire, vars, level
<1> QED BY <1>2, <1>3, <1>4, <1>5, <1>6, <1>7 DEF Next, Progress, Ended

(* What becomes known by a step waits to be expanded or marked.            *)
LEMMA KnownStep ==
  ASSUME TypeInv, [Next]_vars, NEW r, Known(r)'
  PROVE  Known(r) \/ r \in Awaited'
<1>1. CASE fetched' = fetched /\ nextFile' = nextFile
  BY <1>1 DEF Known, LinksRead, Kids
<1>2. CASE ReadFile \/ ReadBrokenFile
  <2>1. /\ fetched' = fetched /\ nextFile' = nextFile + 1 /\ nextFile \in Nat
        /\ \/ Manifest[nextFile].broken
           \/ \A l \in Manifest[nextFile].links : l.to[2] = NoVersion => l \in pending'
    <3>1. nextFile \in Nat
      BY BoundsAssumption DEF TypeInv, TypeOK
    <3>2. fetched' = fetched /\ nextFile' = nextFile + 1
      BY <1>2 DEF ReadFile, ReadBrokenFile, hist
    <3>3. CASE ReadBrokenFile
      BY <3>1, <3>2, <3>3 DEF ReadBrokenFile
    <3>4. CASE ReadFile
      <4>1. pending' = pending \cup
              (Manifest[nextFile].links \ {x \in Manifest[nextFile].links : x.to[2] # NoVersion})
        BY <3>4 DEF ReadFile
      <4> QED BY <3>1, <3>2, <4>1
    <3> QED BY <1>2, <3>3, <3>4
  <2>2. CASE r \in LinksRead' /\ r.to[2] = NoVersion
    <3>1. PICK f \in 1..nextFile : ~Manifest[f].broken /\ r \in Manifest[f].links
      BY <2>1, <2>2 DEF LinksRead
    <3>2. CASE f = nextFile
      BY <2>1, <2>2, <3>1, <3>2 DEF Awaited
    <3>3. CASE f # nextFile
      <4>1. f \in 1..(nextFile - 1)
        BY <2>1, <3>3
      <4> QED BY <2>2, <3>1, <4>1 DEF Known, LinksRead
    <3> QED BY <3>2, <3>3
  <2>3. CASE r.from \in fetched' /\ r \in Kids(r.from[1], r.from[2])
    BY <2>1, <2>3 DEF Known
  <2> QED BY <2>2, <2>3 DEF Known, Kids
<1>3. ASSUME NEW w \in Worker, ReadRequirements(w)
      PROVE  Known(r) \/ r \in Awaited'
  <2>1. job[w] \in Jobs /\ job \in [Worker -> Jobs]
    BY DEF TypeInv, TypeOK
  <2> DEFINE p == job[w].req.to[1]
  <2>2. PICK v \in job[w].unseen :
          /\ job' = [job EXCEPT
               ![w].unseen  = @ \ {v},
               ![w].kids    = @ \cup {k \in Kids(p, v) : ~SkipScope(k)},
               ![w].skipped = @ \cup {k \in Kids(p, v) : SkipScope(k)}]
          /\ fetched' = fetched \cup {<<p, v>>}
    BY <1>3 DEF ReadRequirements
  <2> DEFINE j == [job[w] EXCEPT
                     !.unseen  = @ \ {v},
                     !.kids    = @ \cup {k \in Kids(p, v) : ~SkipScope(k)},
                     !.skipped = @ \cup {k \in Kids(p, v) : SkipScope(k)}]
  <2>3. job'[w] = j
    BY <2>1, <2>2
  <2>4. /\ p \in Package /\ v \in Version
        /\ j.kids \cup j.skipped = job[w].kids \cup job[w].skipped \cup Kids(p, v)
    BY <1>3, ReadRequirementsStep DEF ReadRequirements
  <2>5. nextFile' = nextFile
    BY <1>3 DEF ReadRequirements
  <2> HIDE DEF j, p
  <2>6. CASE r.from = <<p, v>> /\ r \in Kids(r.from[1], r.from[2])
    <3>1. r \in Kids(p, v)
      BY <2>6
    <3>2. r \in Bears(job'[w])
      BY <2>3, <2>4, <3>1 DEF Bears
    <3>3. Bears(job'[w]) \subseteq Awaited'
      BY DEF Awaited, Bears
    <3> QED BY <3>2, <3>3
  <2>7. CASE ~(r.from = <<p, v>> /\ r \in Kids(r.from[1], r.from[2]))
    BY <2>2, <2>5, <2>7 DEF Known, LinksRead, Kids
  <2> QED BY <2>6, <2>7
<1>4. ASSUME NEW w \in Worker, Expand(w)
      PROVE  ReadRequirements(w) \/ (fetched' = fetched /\ nextFile' = nextFile)
  BY <1>4 DEF Expand, Spawn, Unresolvable, NoScheme, VersionsFail, AsOfFails,
     Unchoosable, RecordChosen, RequirementsFail, MarkSkipped, Return, hist
<1>5. CASE \/ SeedDone \/ SeedFails \/ NextLevel \/ Finish
           \/ Abort \/ Expire \/ UNCHANGED vars
  <2>1. fetched' = fetched /\ nextFile' = nextFile
    BY <1>5 DEF SeedDone, SeedFails, NextLevel, Finish, LevelDone, Abort,
                Expire, vars, hist
  <2> QED BY <1>1, <2>1
<1> QED BY <1>1, <1>2, <1>3, <1>4, <1>5 DEF Next, Progress, Ended

(* A requirement that was read is never forgotten, for every repository,   *)
(* registry, set of failures and interleaving of the goroutines.           *)
THEOREM WalkNothingForgotten == WalkSpec => []NothingForgotten
<1> DEFINE I == \A r \in AllReqs : Known(r) => Safe(r)
<1>1. Init => I
  <2> SUFFICES ASSUME Init PROVE I
    OBVIOUS
  <2>1. \A r \in AllReqs : ~Known(r)
    BY DEF Init, Known, LinksRead
  <2> QED BY <2>1
<1>2. TypeInv /\ I /\ [Next]_vars => I'
  <2> SUFFICES ASSUME TypeInv, I, [Next]_vars PROVE I'
    OBVIOUS
  <2>1. LinksRead \subseteq SeedLinks
    BY BoundsAssumption DEF LinksRead, SeedLinks, TypeInv, TypeOK
  <2>2. ASSUME NEW r \in AllReqs', Known(r)'
        PROVE  Safe(r)'
    <3>1. CASE Known(r)
      <4>1. r \in AllReqs
        BY <2>1, <3>1 DEF Known, AllReqs
      <4> QED BY <3>1, <4>1, SafeStep
    <3>2. CASE r \in Awaited'
      <4>1. Waiting(r)'
        BY <3>2 DEF Awaited, Bears, Waiting
      <4> QED BY <4>1 DEF Safe, Kept
    <3> QED BY <2>2, <3>1, <3>2, KnownStep
  <2> QED BY <2>2
<1>3. I => NothingForgotten
  BY DEF NothingForgotten, Safe
<1> HIDE DEF I
<1> QED BY <1>1, <1>2, <1>3, WalkTypeInv, PTL DEF WalkSpec

-----------------------------------------------------------------------------
(* The bound on nodes.                                                     *)

LEMMA FiniteGraphs ==
  ASSUME NEW S \in SUBSET Ids
  PROVE  IsFiniteSet(S) /\ Cardinality(S) \in Nat
<1> DEFINE A == {<<Root, NoVersion>>}
           W == Version \cup {NoVersion}
           B == Package \X W
           C == {Unparsed} \X (1..NumFiles)
<1>1. IsFiniteSet(W)
  BY FiniteAssumption, FS_AddElement
<1>2. IsFiniteSet(A) /\ IsFiniteSet({Unparsed})
  BY FS_Singleton
<1> HIDE DEF W
<1>3. IsFiniteSet(B)
  BY <1>1, FiniteAssumption, FS_Product
<1>4. IsFiniteSet(1..NumFiles)
  BY FS_Interval, BoundsAssumption
<1>5. IsFiniteSet(C)
  BY <1>2, <1>4, FS_Product
<1>6. Ids = A \cup B \cup C
  BY DEF Ids, W
<1> HIDE DEF A, B, C
<1>7. IsFiniteSet(A \cup B)
  BY <1>2, <1>3, FS_Union
<1>8. IsFiniteSet(Ids)
  BY <1>5, <1>6, <1>7, FS_Union
<1> QED BY <1>8, FS_Subset, FS_CardinalityType

(* Of several versions there is an oldest.                                 *)
LEMMA Oldest ==
  ASSUME NEW S, S \subseteq Nat, S # {}
  PROVE  \E n \in S : \A m \in S : n <= m
<1> DEFINE R == {e \in Nat \X Nat : e[1] < e[2]}
<1>1. R = OpToRel(<, Nat)
  BY DEF OpToRel
<1>2. IsWellFoundedOn(R, Nat)
  BY <1>1, NatLessThanWellFounded
<1>3. \A m, n \in Nat : <<m, n>> \notin R => n <= m
  OBVIOUS
<1> HIDE DEF R
<1>4. PICK n \in S : \A m \in S : <<m, n>> \notin R
  BY <1>2, WFMin
<1> QED BY <1>3, <1>4

(* The last version kept by a critical section was let in by a graph that, *)
(* with all the newer ones, was not yet full: with it the bound is met.    *)
LEMMA ChosenFit ==
  ASSUME TypeInv, visited \subseteq Present(node),
         NEW w \in Worker, RecordChosen(w), visited' # visited
  PROVE  Within(node)
<1> DEFINE r    == job[w].req
           p    == r.to[1]
           kept == {<<p, v>> : v \in Chosen(r) \ Cut(r)}
<1>1. /\ Chosen(r) \subseteq Version /\ visited' = visited \cup kept /\ r \in Reqs
      /\ kept \subseteq Ids
  BY RecordChosenStep
<1>2. Chosen(r) \ Cut(r) # {} /\ Chosen(r) \ Cut(r) \subseteq Nat
  BY <1>1, WorldAssumption
<1>3. PICK v \in Chosen(r) \ Cut(r) : \A u \in Chosen(r) \ Cut(r) : v <= u
  BY <1>2, Oldest
<1> DEFINE newer  == {<<p, u>> : u \in {u \in Chosen(r) : u > v}}
           before == Present(node) \cup newer
           after  == before \cup {<<p, v>>}
<1>4. before \in SUBSET Ids
  BY <1>1, LinkParts DEF Present, TypeInv, TypeOK
<1>5. ~(Cardinality(before) >= MaxNodes)
  BY <1>3 DEF Cut
<1>6. kept \subseteq newer \cup {<<p, v>>}
  BY <1>2, <1>3
<1>7. Present(node) \cup visited' \subseteq after
  BY <1>1, <1>6
<1> HIDE DEF newer, before, kept, p, r
<1>8. IsFiniteSet(before) /\ Cardinality(before) \in Nat
  BY <1>4, FiniteGraphs
<1>9. /\ IsFiniteSet(after)
      /\ Cardinality(after) = IF <<p, v>> \in before THEN Cardinality(before)
                                                     ELSE Cardinality(before) + 1
  BY <1>8, FS_AddElement
<1> HIDE DEF after
<1>10. /\ IsFiniteSet(Present(node) \cup visited')
       /\ Cardinality(Present(node) \cup visited') <= Cardinality(after)
  BY <1>7, <1>9, FS_Subset
<1>11. Cardinality(Present(node) \cup visited') \in Nat
  BY <1>10, FS_CardinalityType
<1> QED BY <1>5, <1>8, <1>9, <1>10, <1>11, BoundsAssumption DEF Within

(* A node is cut by a graph that, with the newer versions, has reached the *)
(* bound, and the graph afterwards holds all of that.                      *)
LEMMA CutIsFull ==
  ASSUME TypeInv, NEW w \in Worker, RecordChosen(w), Cut(job[w].req) # {}
  PROVE  Cardinality(Present(node')) >= MaxNodes
<1> DEFINE r    == job[w].req
           p    == r.to[1]
           kept == {<<p, v>> : v \in Chosen(r) \ Cut(r)}
           cut  == {<<p, v>> : v \in Cut(r)}
<1>1. /\ Chosen(r) \subseteq Version /\ r \in Reqs /\ Cut(r) \subseteq Chosen(r)
      /\ Present(node) \subseteq Present(node') /\ kept \cup cut \subseteq Present(node')
  BY RecordChosenStep
<1>2. PICK v \in Cut(r) : TRUE
  OBVIOUS
<1> DEFINE newer  == {<<p, u>> : u \in {u \in Chosen(r) : u > v}}
           before == Present(node) \cup newer
<1>3. Cardinality(before) >= MaxNodes
  BY <1>2 DEF Cut
<1>4. newer \subseteq kept \cup cut
  OBVIOUS
<1>5. before \in SUBSET Present(node')
  BY <1>1, <1>4
<1>6. Present(node') \in SUBSET Ids
  BY TypeStep, RecordChosenType DEF TypeInv, TypeOK, Present
<1> HIDE DEF before
<1>7. IsFiniteSet(Present(node')) /\ Cardinality(Present(node')) \in Nat
  BY <1>6, FiniteGraphs
<1>8. IsFiniteSet(before) /\ Cardinality(before) <= Cardinality(Present(node'))
  BY <1>5, <1>7, FS_Subset
<1>9. Cardinality(before) \in Nat
  BY <1>8, FS_CardinalityType
<1> QED BY <1>3, <1>7, <1>8, <1>9, BoundsAssumption

(* A version is expanded only while the graph fits the bound with all that *)
(* is expanded along with it, and a node is cut for the bound only by a    *)
(* full graph, however many goroutines share it.                           *)
THEOREM WalkNodeBound == WalkSpec => NodeBound
<1>1. TypeInv /\ ReasonsTruthful /\ [Next]_vars =>
        [/\ visited' # visited => Within(node)
         /\ CutFor(node') \ CutFor(node) # {} =>
              Cardinality(Present(node')) >= MaxNodes]_graph
  <2> SUFFICES ASSUME TypeInv, ReasonsTruthful, [Next]_vars
               PROVE  /\ visited' # visited => Within(node)
                      /\ CutFor(node') \ CutFor(node) # {} =>
                           Cardinality(Present(node')) >= MaxNodes
    OBVIOUS
  <2>1. visited \subseteq Present(node)
    <3>1. visited \subseteq Ids /\ DOMAIN node = Ids
      BY DEF TypeInv, TypeOK, Ids
    <3> QED BY <3>1 DEF ReasonsTruthful, Present
  <2>2. ASSUME visited' # visited
        PROVE  Within(node)
    BY <2>1, <2>2, VisitedStep, ChosenFit
  <2>3. ASSUME NEW id \in CutFor(node') \ CutFor(node)
        PROVE  Cardinality(Present(node')) >= MaxNodes
    <3>1. id \in Ids /\ node'[id].reason = "bound:nodes" /\ node'[id] # node[id]
      BY <2>3 DEF CutFor
    <3>2. Said(id)
      BY <3>1, StepSays DEF SaysTrue
    <3> QED BY <3>1, <3>2, CutIsFull DEF Said
  <2> QED BY <2>2, <2>3
<1> QED BY <1>1, WalkTypeInv, WalkReasonsTruthful, PTL DEF WalkSpec, NodeBound

-----------------------------------------------------------------------------
(* The closure, level by level.                                            *)

(* The versions that requirements lead to and the edges they become, what  *)
(* a version requires, and the levels before one.                          *)
NodesOf(R) ==
  UNION {{t \in Targets(r) : t[2] # NoVersion} :
           r \in {r \in R : r.to[1] \in Resolvable \cap Schemed}}
EdgesOf(R)  == UNION {{[r EXCEPT !.to = t] : t \in Targets(r)} : r \in R}
NextKids(x) == {k \in Kids(x[1], x[2]) : ~SkipScope(k)}
DevKids(x)  == {k \in Kids(x[1], x[2]) : SkipScope(k)}
SeedReqs    == {l \in SeedLinks : l.to[2] = NoVersion}
NextReqs(R) == {k \in UNION {Needs(r) : r \in R} : ~SkipScope(k)}
DevReqs(R)  == {k \in UNION {Needs(r) : r \in R} : SkipScope(k)}
Before(d)   == UNION {LevelReqs[i] : i \in 1..(d - 1)}

(* The repository and the registry stay what they are.                     *)
LEMMA Rigid ==
  /\ LevelReqs' = LevelReqs /\ SeedLinks' = SeedLinks
  /\ \A R : NodesOf(R)' = NodesOf(R) /\ EdgesOf(R)' = EdgesOf(R)
  /\ \A x : NextKids(x)' = NextKids(x) /\ DevKids(x)' = DevKids(x)
  /\ \A d : Before(d)' = Before(d)
  /\ ClosureNodes' = ClosureNodes /\ ClosureEdges' = ClosureEdges
<1>1. /\ SeedLinks' = SeedLinks /\ \A r : Targets(r)' = Targets(r)
      /\ LevelReqs' = LevelReqs
  BY DEF SeedLinks, Targets, PinMissing, BadRange, Chosen, Pinned, Available, Enumerate,
         Newest, Link, LevelReqs, Needs, Kids, SkipScope
<1>2. ClosureNodes' = ClosureNodes /\ ClosureEdges' = ClosureEdges
  BY <1>1 DEF ClosureNodes, ClosureEdges, Expanded, Needs, SkipScope, Kids
<1>3. /\ \A R : NodesOf(R)' = NodesOf(R) /\ EdgesOf(R)' = EdgesOf(R)
      /\ \A x : NextKids(x)' = NextKids(x) /\ DevKids(x)' = DevKids(x)
      /\ \A d : Before(d)' = Before(d)
  BY <1>1 DEF NodesOf, EdgesOf, NextKids, DevKids, Kids, SkipScope, Before
<1> QED BY <1>1, <1>2, <1>3

LEMMA LevelsAre ==
  /\ LevelReqs[1] = SeedReqs
  /\ \A d \in 1..MaxDepth : LevelReqs[d + 1] = NextReqs(LevelReqs[d])
<1> DEFINE N == MaxDepth + 1
           Is(g, n) == g = [d \in 1..n |-> IF d = 1 THEN SeedReqs ELSE NextReqs(g[d - 1])]
           P(n) == \E g : Is(g, n)
           Bad == {n \in Nat : n >= 1 /\ ~P(n)}
<1>1. MaxDepth \in Nat /\ N \in Nat /\ N >= 1
  BY BoundsAssumption
<1>2. P(N)
  <2> SUFFICES ASSUME NEW n \in Bad, \A m \in Bad : n <= m PROVE FALSE
    <3> HIDE DEF P
    <3>1. Bad \subseteq Nat /\ (~P(N) => N \in Bad)
      BY <1>1
    <3> QED BY <3>1, Oldest
  <2> HIDE DEF P
  <2>1. n \in Nat /\ n >= 1 /\ ~P(n) /\ (n # 1 => n - 1 \in Nat /\ n - 1 >= 1 /\ P(n - 1))
    OBVIOUS
  <2> HIDE DEF Bad
  <2> USE DEF P
  <2>2. CASE n = 1
    <3> DEFINE h == [d \in 1..1 |-> SeedReqs]
    <3>1. Is(h, 1)
      OBVIOUS
    <3> QED BY <2>1, <2>2, <3>1
  <2>3. CASE n # 1
    <3>1. PICK g : Is(g, n - 1)
      BY <2>1, <2>3
    <3> DEFINE h == [d \in 1..n |-> IF d = n THEN NextReqs(g[n - 1]) ELSE g[d]]
    <3>2. ASSUME NEW d \in 1..n
          PROVE  h[d] = IF d = 1 THEN SeedReqs ELSE NextReqs(h[d - 1])
      <4>1. CASE d = n
        <5>1. h[n] = NextReqs(g[n - 1]) /\ h[n - 1] = g[n - 1]
          BY <2>1, <2>3
        <5> QED BY <4>1, <5>1, <2>3
      <4>2. CASE d # n
        <5>1. d \in 1..(n - 1) /\ h[d] = g[d]
          BY <4>2, <2>1
        <5>2. g[d] = IF d = 1 THEN SeedReqs ELSE NextReqs(g[d - 1])
          BY <3>1, <5>1
        <5>3. d # 1 => h[d - 1] = g[d - 1]
          BY <4>2, <5>1, <2>1
        <5> QED BY <5>1, <5>2, <5>3
      <4> QED BY <4>1, <4>2
    <3>3. h = [d \in 1..n |-> h[d]]
      OBVIOUS
    <3> HIDE DEF h
    <3>4. Is(h, n)
      BY <3>2, <3>3
    <3> QED BY <2>1, <3>4
  <2> QED BY <2>2, <2>3
<1> DEFINE f == CHOOSE g : Is(g, N)
<1>3. LevelReqs = f
  BY DEF LevelReqs, SeedReqs, NextReqs
<1>4. Is(f, N)
  BY <1>2
<1> HIDE DEF f
<1>5. ASSUME NEW d \in 1..N
      PROVE  f[d] = IF d = 1 THEN SeedReqs ELSE NextReqs(f[d - 1])
  BY <1>4, Zenon
<1>6. ASSUME NEW d \in 1..MaxDepth
      PROVE  f[d + 1] = NextReqs(f[d])
  <2>1. d + 1 \in 1..N /\ d + 1 # 1 /\ (d + 1) - 1 = d
    BY <1>1
  <2> QED BY <1>5, <2>1
<1>7. f[1] = SeedReqs
  BY <1>1, <1>5
<1> QED BY <1>3, <1>6, <1>7

(* What holds the files' requirements and what its own lead to holds every *)
(* level.                                                                  *)
LEMMA Closed ==
  ASSUME NEW B, SeedReqs \subseteq B, NextReqs(B) \subseteq B
  PROVE  \A d \in 1..(MaxDepth + 1) : LevelReqs[d] \subseteq B
<1> DEFINE Bad == {d \in Nat : d \in 1..(MaxDepth + 1) /\ ~(LevelReqs[d] \subseteq B)}
<1>1. MaxDepth \in Nat
  BY BoundsAssumption
<1>2. SUFFICES ASSUME NEW d \in Bad, \A c \in Bad : d <= c PROVE FALSE
  <2>1. Bad \subseteq Nat /\ \A d \in 1..(MaxDepth + 1) : d \in Bad \/ LevelReqs[d] \subseteq B
    BY <1>1
  <2> HIDE DEF Bad
  <2> QED BY <2>1, Oldest
<1>3. d # 1
  BY LevelsAre
<1>4. d - 1 \in 1..MaxDepth /\ d - 1 \notin Bad
  BY <1>1, <1>2, <1>3
<1>5. LevelReqs[d - 1] \subseteq B
  BY <1>1, <1>4
<1>6. LevelReqs[(d - 1) + 1] = NextReqs(LevelReqs[d - 1])
  BY <1>4, LevelsAre
<1>7. (d - 1) + 1 = d
  OBVIOUS
<1>8. NextReqs(LevelReqs[d - 1]) \subseteq NextReqs(B)
  BY <1>5 DEF NextReqs
<1> QED BY <1>6, <1>7, <1>8

(* Where a requirement can lead: its own versionless node, or versions.    *)
LEMMA TargetsAre ==
  ASSUME NEW r \in Reqs
  PROVE  /\ \A t \in Targets(r) : \/ t = r.to
                                  \/ \E v \in Version : t = <<r.to[1], v>>
         /\ r.to[1] \in Resolvable \cap Schemed =>
              Targets(r) = IF PinMissing(r.to[1]) \/ BadRange(r) THEN {r.to}
                           ELSE {<<r.to[1], v>> : v \in Chosen(r)}
<1> DEFINE p == r.to[1]
<1>1. CASE p \notin Resolvable
  <2>1. Targets(r) = {IF p \in Schemed /\ ExactOf[r.spec] # NoVersion
                        THEN Link(r, ExactOf[r.spec]).to ELSE r.to}
    BY <1>1 DEF Targets
  <2>2. ExactOf[r.spec] \in Version \cup {NoVersion}
    BY ReqParts, WorldAssumption
  <2>3. \A v \in Version : Link(r, v).to = <<r.to[1], v>>
    BY LinkParts
  <2> QED BY <1>1, <2>1, <2>2, <2>3
<1>2. CASE p \in Resolvable \ Schemed
  BY <1>2 DEF Targets
<1>3. CASE p \in Resolvable \cap Schemed
  <2>1. Targets(r) = IF PinMissing(p) \/ BadRange(r) THEN {r.to}
                     ELSE {<<p, v>> : v \in Chosen(r)}
    BY <1>3 DEF Targets
  <2>2. ~PinMissing(p) => Chosen(r) \subseteq Version
    BY ChosenAreVersions
  <2> QED BY <2>1, <2>2
<1> QED BY <1>1, <1>2, <1>3

(* The versions that are read, and what they require.                      *)
LEMMA NodesAre ==
  ASSUME NEW R \in SUBSET Reqs
  PROVE  /\ \A x \in NodesOf(R) : /\ x \in Package \X Version
                                  /\ x[1] \in Resolvable \cap Schemed
                                  /\ \A k \in Kids(x[1], x[2]) : k \in Reqs /\ k.from = x
         /\ NextReqs(R) = UNION {NextKids(x) : x \in NodesOf(R)}
         /\ DevReqs(R) = UNION {DevKids(x) : x \in NodesOf(R)}
<1>1. ASSUME NEW x \in NodesOf(R)
      PROVE  /\ x \in Package \X Version /\ x[1] \in Resolvable \cap Schemed
             /\ \A k \in Kids(x[1], x[2]) : k \in Reqs /\ k.from = x
  <2>1. PICK r \in R : /\ r.to[1] \in Resolvable \cap Schemed
                       /\ x \in Targets(r) /\ x[2] # NoVersion
    BY DEF NodesOf
  <2>2. r.to[1] \in Package /\ r.to[2] = NoVersion
    BY ReqParts
  <2>3. PICK v \in Version : x = <<r.to[1], v>>
    BY <2>1, <2>2, TargetsAre
  <2> QED BY <2>1, <2>2, <2>3, KidsAreReqs
<1>2. UNION {Needs(r) : r \in R} = UNION {Kids(x[1], x[2]) : x \in NodesOf(R)}
  BY DEF Needs, NodesOf
<1> QED BY <1>1, <1>2 DEF NextReqs, DevReqs, NextKids, DevKids

LEMMA LevelsAreReqs ==
  /\ SeedReqs \subseteq Reqs
  /\ \A d \in 1..(MaxDepth + 1) : LevelReqs[d] \subseteq Reqs
<1>1. ASSUME NEW l \in SeedReqs
      PROVE  l \in Reqs
  <2>1. PICK f \in 1..NumFiles : ~Manifest[f].broken /\ l \in Manifest[f].links
    BY DEF SeedReqs, SeedLinks
  <2>2. l \in Edges /\ l.to \in Package \X (Version \cup {NoVersion})
    BY <2>1, ManifestAssumption
  <2>3. l.to \in Package \X {NoVersion}
    BY <2>2 DEF SeedReqs
  <2> QED BY <2>2, <2>3 DEF Edges, Reqs
<1>2. NextReqs(Reqs) \subseteq Reqs
  BY NodesAre DEF NextKids
<1> QED BY <1>1, <1>2, Closed

-----------------------------------------------------------------------------
(* What a level's goroutines carry, taken together.                        *)

(* A requirement is at work until its goroutine has settled it; one whose  *)
(* goroutine met an error never is.                                        *)
Works(j)  == IF j.pc = "versions" \/ (j.pc = "requirements" /\ j.err) THEN {j.req} ELSE {}
Serves(j) == IF j.pc = "idle" THEN {} ELSE {j.req}
AtWork    == UNION {Works(job[w]) : w \in Worker}
Active    == UNION {Serves(job[w]) : w \in Worker}
KidsHeld  == UNION {job[w].kids : w \in Worker}
SkipsHeld == UNION {job[w].skipped : w \in Worker}
Hands     == UNION {InHand(w) : w \in Worker}

(* One goroutine's hands change: the rest of each union stays.             *)
LEMMA OneHand ==
  ASSUME TypeInv, NEW w \in Worker, NEW j, job' = [job EXCEPT ![w] = j]
  PROVE  \E W, A, K, S, H :
           /\ AtWork = W \cup Works(job[w]) /\ AtWork' = W \cup Works(j)
           /\ Active = A \cup Serves(job[w]) /\ Active' = A \cup Serves(j)
           /\ KidsHeld = K \cup job[w].kids /\ KidsHeld' = K \cup j.kids
           /\ SkipsHeld = S \cup job[w].skipped /\ SkipsHeld' = S \cup j.skipped
           /\ Hands = H \cup InHand(w) /\ Hands' = H \cup InHand(w)'
           /\ InHand(w) = At(job[w].req.to[1], job[w].unseen)
           /\ InHand(w)' = At(j.req.to[1], j.unseen)
<1>1. /\ job'[w] = j /\ \A u \in Worker \ {w} : job'[u] = job[u]
      /\ InHand(w) = At(job[w].req.to[1], job[w].unseen)
      /\ InHand(w)' = At(j.req.to[1], j.unseen)
      /\ \A u \in Worker \ {w} : InHand(u)' = InHand(u)
  BY HandOf
<1> DEFINE W == UNION {Works(job[u]) : u \in Worker \ {w}}
           A == UNION {Serves(job[u]) : u \in Worker \ {w}}
           K == UNION {job[u].kids : u \in Worker \ {w}}
           S == UNION {job[u].skipped : u \in Worker \ {w}}
           H == UNION {InHand(u) : u \in Worker \ {w}}
<1>2. AtWork = W \cup Works(job[w]) /\ AtWork' = W \cup Works(j)
  <2>1. AtWork' = UNION {Works(job'[u]) : u \in Worker}
    BY DEF AtWork, Works
  <2>2. UNION {Works(job'[u]) : u \in Worker} = W \cup Works(j)
    BY <1>1
  <2> QED BY <2>1, <2>2 DEF AtWork
<1>3. Active = A \cup Serves(job[w]) /\ Active' = A \cup Serves(j)
  <2>1. Active' = UNION {Serves(job'[u]) : u \in Worker}
    BY DEF Active, Serves
  <2>2. UNION {Serves(job'[u]) : u \in Worker} = A \cup Serves(j)
    BY <1>1
  <2> QED BY <2>1, <2>2 DEF Active
<1>4. KidsHeld = K \cup job[w].kids /\ KidsHeld' = K \cup j.kids
  BY <1>1 DEF KidsHeld
<1>5. SkipsHeld = S \cup job[w].skipped /\ SkipsHeld' = S \cup j.skipped
  BY <1>1 DEF SkipsHeld
<1>6. Hands = H \cup InHand(w) /\ Hands' = H \cup InHand(w)'
  BY <1>1 DEF Hands
<1> HIDE DEF W, A, K, S, H
<1> QED BY <1>1, <1>2, <1>3, <1>4, <1>5, <1>6

(* Nothing has gone wrong so far, and it never had before.                 *)
Calm == lost = {} /\ ~missed /\ ~expired /\ ~firstErr

LEMMA CalmBefore ==
  ASSUME TypeInv, [Next]_vars, Calm'
  PROVE  Calm
<1>1. ASSUME NEW w \in Worker, Expand(w)
      PROVE  Calm
  <2>1. lost \subseteq lost' /\ expired' = expired
    BY <1>1 DEF Expand, Spawn, Unresolvable, NoScheme, VersionsFail, AsOfFails, Unchoosable,
       RecordChosen, ReadRequirements, RequirementsFail, MarkSkipped, Return, hist
  <2>2. missed => missed'
    BY <1>1 DEF Expand, Spawn, Unresolvable, NoScheme, VersionsFail, AsOfFails, Unchoosable,
       RecordChosen, ReadRequirements, RequirementsFail, MarkSkipped, Return, hist
  <2>3. firstErr => firstErr'
    BY <1>1 DEF Expand, Spawn, Unresolvable, NoScheme, VersionsFail, AsOfFails, Unchoosable,
       RecordChosen, ReadRequirements, RequirementsFail, MarkSkipped, Return
  <2> QED BY <2>1, <2>2, <2>3 DEF Calm
<1>2. CASE \/ ReadBrokenFile \/ ReadFile \/ SeedDone \/ SeedFails \/ NextLevel \/ Finish
           \/ Abort \/ UNCHANGED vars
  <2>1. UNCHANGED <<lost, missed, expired, firstErr>>
    BY <1>2 DEF ReadBrokenFile, ReadFile, SeedDone, SeedFails, NextLevel, Finish, Abort, vars, hist
  <2> QED BY <2>1 DEF Calm
<1>3. CASE Expire
  BY <1>3 DEF Expire, Calm
<1> QED BY <1>1, <1>2, <1>3 DEF Next, Progress, Ended

(* The edges a requirement becomes are in the graph, and the versions it   *)
(* leads to are visited.                                                   *)
Met(r) == EdgesOf({r}) \subseteq edges /\ NodesOf({r}) \subseteq visited

(* What an undisturbed goroutine's step does to what the level carries.    *)
Advance ==
  /\ \E R : /\ pending \cup AtWork \subseteq pending' \cup AtWork' \cup R
            /\ R \subseteq Active /\ \A r \in R : Met(r)'
  /\ pending' \cup Active' \subseteq pending \cup Active
  /\ edges \subseteq edges' /\ edges' \subseteq edges \cup EdgesOf(Active) \cup SkipsHeld
  /\ visited \subseteq visited' /\ visited' \subseteq visited \cup NodesOf(Active)
  /\ Hands' \subseteq Hands \cup (visited' \ visited)
  /\ fetched \subseteq fetched' /\ fetched' \subseteq fetched \cup Hands
  /\ \A x \in fetched' \ fetched :
       NextKids(x) \subseteq KidsHeld' /\ DevKids(x) \subseteq SkipsHeld'
  /\ next \cup KidsHeld \subseteq next' \cup KidsHeld'
  /\ next' \cup KidsHeld' \subseteq next \cup KidsHeld \cup UNION {NextKids(x) : x \in Hands}
  /\ SkipsHeld \subseteq SkipsHeld' \cup edges'
  /\ SkipsHeld' \subseteq SkipsHeld \cup UNION {DevKids(x) : x \in Hands}
  /\ depth' = depth /\ phase' = phase

(* Settling a requirement makes the edges it becomes, visits the versions  *)
(* it leads to, and takes in hand those nobody had reached.                *)
LEMMA SettlesAll ==
  ASSUME TypeInv, NEW w \in Worker, Calm',
         Unresolvable(w) \/ NoScheme(w) \/ Unchoosable(w) \/ RecordChosen(w)
  PROVE  LET r == job[w].req IN
         /\ job[w].pc = "versions" /\ r \in Reqs
         /\ edges' = edges \cup EdgesOf({r})
         /\ visited' = visited \cup NodesOf({r})
         /\ \E j \in Jobs :
              /\ job' = [job EXCEPT ![w] = j]
              /\ j.pc = "requirements" /\ j.req = r
              /\ j.kids = {} /\ j.skipped = {}
              /\ At(r.to[1], j.unseen) = NodesOf({r}) \ visited
         /\ UNCHANGED <<phase, depth, pending, next, fetched>>
<1> DEFINE r == job[w].req
<1>1. job[w].pc = "versions" /\ r \in Reqs /\ job[w] \in Jobs
  BY ActiveReq DEF Unresolvable, NoScheme, Unchoosable, RecordChosen, Asks
<1>2. UNCHANGED <<phase, depth, pending, next, fetched>>
  BY DEF Unresolvable, NoScheme, Unchoosable, RecordChosen, level, hist
<1>3. job[w].unseen = {} /\ job[w].kids = {} /\ job[w].skipped = {}
  BY <1>1 DEF TypeInv, HandsClean
<1>4. r.to = <<r.to[1], NoVersion>> /\ [r EXCEPT !.to = r.to] = r
  BY <1>1 DEF Reqs
<1>5. /\ EdgesOf({r}) = {[r EXCEPT !.to = t] : t \in Targets(r)}
      /\ NodesOf({r}) = {t \in Targets(r) : t[2] # NoVersion /\ r.to[1] \in Resolvable \cap Schemed}
  BY DEF EdgesOf, NodesOf
<1>6. \A S : At(r.to[1], S) = {<<r.to[1], v>> : v \in S}
  BY DEF At
<1>7. ASSUME Settled(w)
      PROVE  \E j \in Jobs :
              /\ job' = [job EXCEPT ![w] = j]
              /\ j.pc = "requirements" /\ j.req = r
              /\ j.kids = {} /\ j.skipped = {} /\ j.unseen = {}
  <2> DEFINE j == [job[w] EXCEPT !.pc = "requirements"]
  <2>1. job' = [job EXCEPT ![w] = j]
    BY <1>7 DEF Settled, TypeInv, TypeOK
  <2>2. /\ j \in Jobs /\ j.pc = "requirements" /\ j.req = r
        /\ j.kids = {} /\ j.skipped = {} /\ j.unseen = {}
    BY <1>1, <1>3 DEF Jobs
  <2> QED BY <2>1, <2>2
<1> HIDE DEF r
<1>8. ASSUME Settled(w), NodesOf({r}) = {}
      PROVE  \E j \in Jobs :
              /\ job' = [job EXCEPT ![w] = j]
              /\ j.pc = "requirements" /\ j.req = r
              /\ j.kids = {} /\ j.skipped = {}
              /\ At(r.to[1], j.unseen) = NodesOf({r}) \ visited
  <2>1. At(r.to[1], {}) = NodesOf({r}) \ visited
    BY <1>6, <1>8
  <2>2. PICK j \in Jobs : /\ job' = [job EXCEPT ![w] = j]
                          /\ j.pc = "requirements" /\ j.req = r
                          /\ j.kids = {} /\ j.skipped = {} /\ j.unseen = {}
    BY <1>7, <1>8
  <2> QED BY <2>1, <2>2
<1>9. CASE Unresolvable(w)
  <2>1. NodesOf({r}) = {} /\ Settled(w) /\ visited' = visited
    BY <1>5, <1>9 DEF Unresolvable, r, MarkDeclared
  <2>2. edges' = edges \cup EdgesOf({r})
    <3> DEFINE v == IF r.to[1] \in Schemed THEN ExactOf[r.spec] ELSE NoVersion
    <3>1. Targets(r) = {IF v # NoVersion THEN Link(r, v).to ELSE r.to}
      BY <1>9 DEF Unresolvable, Targets, r
    <3>2. edges' = edges \cup {IF v # NoVersion THEN Link(r, v) ELSE r}
      BY <1>9 DEF Unresolvable, MarkDeclared, r
    <3>3. v # NoVersion => v \in Version
      <4>1. ExactOf[r.spec] \in Version \cup {NoVersion}
        BY <1>1, ReqParts, WorldAssumption DEF r
      <4> QED BY <4>1
    <3>4. v # NoVersion => Link(r, v) = [r EXCEPT !.to = Link(r, v).to]
      BY <1>1, <3>3, LinkParts DEF Link, r
    <3> HIDE DEF v
    <3> QED BY <1>4, <1>5, <3>1, <3>2, <3>4
  <2> QED BY <1>1, <1>2, <1>8, <2>1, <2>2 DEF r
<1>10. CASE NoScheme(w) \/ Unchoosable(w)
  <2>1. Targets(r) = {r.to}
    <3>1. CASE NoScheme(w)
      BY <3>1 DEF NoScheme, Targets, r
    <3>2. CASE Unchoosable(w)
      BY <3>2, <1>1, TargetsAre DEF Unchoosable, Asks, r
    <3> QED BY <1>10, <3>1, <3>2
  <2>2. Settled(w) /\ visited' = visited /\ edges' = edges \cup {r}
    BY <1>10 DEF NoScheme, Unchoosable, MarkDeclared, r
  <2>3. NodesOf({r}) = {} /\ EdgesOf({r}) = {r}
    BY <1>4, <1>5, <2>1
  <2> QED BY <1>1, <1>2, <1>8, <2>2, <2>3 DEF r
<1>11. CASE RecordChosen(w)
  <2> DEFINE kept == {<<r.to[1], v>> : v \in Chosen(r) \ Cut(r)}
             cut  == {<<r.to[1], v>> : v \in Cut(r)}
             j    == [job[w] EXCEPT !.pc = "requirements", !.unseen = Unseen(r)]
  <2>1. /\ Chosen(r) \subseteq Version /\ Cut(r) \subseteq Chosen(r)
        /\ job' = [job EXCEPT ![w] = j] /\ j \in Jobs
        /\ j.req = r /\ j.pc = "requirements" /\ j.unseen = Unseen(r)
        /\ j.kids = {} /\ j.skipped = {}
        /\ visited' = visited \cup kept
        /\ edges' = edges \cup {Link(r, v) : v \in Chosen(r)}
    BY <1>11, RecordChosenStep DEF r
  <2>2. /\ r.to[1] \in Resolvable \cap Schemed /\ ~PinMissing(r.to[1]) /\ ~BadRange(r)
        /\ missed' = (missed \/ ~(cut \subseteq visited))
    BY <1>11 DEF RecordChosen, Asks, r
  <2>3. Targets(r) = {<<r.to[1], v>> : v \in Chosen(r)}
    BY <1>1, <2>2, TargetsAre DEF r
  <2>4. \A v \in Chosen(r) : v # NoVersion
    BY <2>1, WorldAssumption
  <2>5. NodesOf({r}) = kept \cup cut
    BY <1>5, <2>1, <2>2, <2>3, <2>4
  <2>6. cut \subseteq visited
    BY <2>2 DEF Calm
  <2>7. EdgesOf({r}) = {Link(r, v) : v \in Chosen(r)}
    BY <1>5, <2>3 DEF Link
  <2>8. At(r.to[1], Unseen(r)) = kept \ visited
    BY DEF At, Unseen
  <2> HIDE DEF j, kept, cut
  <2>9. visited' = visited \cup NodesOf({r}) /\ At(r.to[1], j.unseen) = NodesOf({r}) \ visited
    BY <2>1, <2>5, <2>6, <2>8
  <2> QED BY <1>1, <1>2, <2>1, <2>7, <2>9 DEF r
<1> QED BY <1>9, <1>10, <1>11

LEMMA MetAfter ==
  \A r : Met(r)' <=> EdgesOf({r}) \subseteq edges' /\ NodesOf({r}) \subseteq visited'
BY Rigid DEF Met

(* More requirements lead to more.                                         *)
LEMMA MoreOf ==
  ASSUME NEW R, NEW S, R \subseteq S
  PROVE  EdgesOf(R) \subseteq EdgesOf(S) /\ NodesOf(R) \subseteq NodesOf(S)
BY DEF EdgesOf, NodesOf

LEMMA SettleAdvances ==
  ASSUME TypeInv, NEW w \in Worker, Calm',
         Unresolvable(w) \/ NoScheme(w) \/ Unchoosable(w) \/ RecordChosen(w)
  PROVE  Advance
<1>0. PICK r : r = job[w].req
  OBVIOUS
<1> DEFINE E == EdgesOf({r})
           V == NodesOf({r})
<1>1. /\ job[w].pc = "versions"
      /\ edges' = edges \cup E /\ visited' = visited \cup V
      /\ UNCHANGED <<phase, depth, pending, next, fetched>>
  BY <1>0, SettlesAll
<1>2. PICK j \in Jobs : /\ job' = [job EXCEPT ![w] = j]
                        /\ j.pc = "requirements" /\ j.req = r
                        /\ j.kids = {} /\ j.skipped = {}
                        /\ At(j.req.to[1], j.unseen) = V \ visited
  BY <1>0, SettlesAll
<1>3. job[w].kids = {} /\ job[w].skipped = {} /\ job[w].unseen = {}
  BY <1>1 DEF TypeInv, HandsClean
<1>4. Works(job[w]) = {r} /\ Serves(job[w]) = {r} /\ Serves(j) = {r} /\ Works(j) \subseteq {r}
  BY <1>0, <1>1, <1>2 DEF Works, Serves
<1>5. PICK W, A, K, S, H :
           /\ AtWork = W \cup Works(job[w]) /\ AtWork' = W \cup Works(j)
           /\ Active = A \cup Serves(job[w]) /\ Active' = A \cup Serves(j)
           /\ KidsHeld = K \cup job[w].kids /\ KidsHeld' = K \cup j.kids
           /\ SkipsHeld = S \cup job[w].skipped /\ SkipsHeld' = S \cup j.skipped
           /\ Hands = H \cup InHand(w) /\ Hands' = H \cup InHand(w)'
           /\ InHand(w) = At(job[w].req.to[1], job[w].unseen)
           /\ InHand(w)' = At(j.req.to[1], j.unseen)
  BY <1>2, OneHand
<1>6. At(job[w].req.to[1], {}) = {}
  BY DEF At
<1>7. E \subseteq EdgesOf(Active) /\ V \subseteq NodesOf(Active)
  <2>1. {r} \subseteq Active
    BY <1>4, <1>5
  <2> QED BY <2>1, MoreOf
<1>8. Met(r)'
  BY <1>1, MetAfter
<1>9. pending \cup AtWork \subseteq pending' \cup AtWork' \cup {r}
  BY <1>1, <1>4, <1>5
<1> HIDE DEF E, V
<1>10. \E R : /\ pending \cup AtWork \subseteq pending' \cup AtWork' \cup R
              /\ R \subseteq Active /\ \A q \in R : Met(q)'
  <2> DEFINE R == {r}
  <2>1. /\ pending \cup AtWork \subseteq pending' \cup AtWork' \cup R
        /\ R \subseteq Active /\ \A q \in R : Met(q)'
    BY <1>4, <1>5, <1>8, <1>9
  <2> HIDE DEF R
  <2> QED BY <2>1
<1>11. /\ pending' \cup Active' \subseteq pending \cup Active
       /\ KidsHeld' = KidsHeld /\ SkipsHeld' = SkipsHeld
       /\ Hands' \subseteq Hands \cup (visited' \ visited)
  BY <1>1, <1>2, <1>3, <1>4, <1>5, <1>6
<1> QED BY <1>1, <1>7, <1>10, <1>11 DEF Advance

LEMMA ReadAdvances ==
  ASSUME TypeInv, NEW w \in Worker, ReadRequirements(w)
  PROVE  Advance
<1> DEFINE p == job[w].req.to[1]
<1>1. PICK v \in job[w].unseen :
        /\ job' = [job EXCEPT
             ![w].unseen  = @ \ {v},
             ![w].kids    = @ \cup {k \in Kids(p, v) : ~SkipScope(k)},
             ![w].skipped = @ \cup {k \in Kids(p, v) : SkipScope(k)}]
        /\ fetched' = fetched \cup {<<p, v>>}
  BY DEF ReadRequirements
<1> DEFINE x == <<p, v>>
           j == [job[w] EXCEPT
                   !.unseen  = @ \ {v},
                   !.kids    = @ \cup {k \in Kids(p, v) : ~SkipScope(k)},
                   !.skipped = @ \cup {k \in Kids(p, v) : SkipScope(k)}]
<1>2. job' = [job EXCEPT ![w] = j]
  BY <1>1 DEF TypeInv, TypeOK
<1>3. /\ job[w].pc = "requirements"
      /\ UNCHANGED <<phase, depth, pending, next, edges, visited>>
  BY DEF ReadRequirements, level, graph
<1>4. /\ j.req = job[w].req /\ j.pc = "requirements" /\ j.err = job[w].err
      /\ j.unseen = job[w].unseen \ {v}
      /\ j.kids = job[w].kids \cup NextKids(x) /\ j.skipped = job[w].skipped \cup DevKids(x)
  <2>1. job[w] \in Jobs
    BY DEF TypeInv, TypeOK
  <2> QED BY <1>3, <2>1 DEF Jobs, NextKids, DevKids
<1> HIDE DEF j
<1>5. PICK W, A, K, S, H :
           /\ AtWork = W \cup Works(job[w]) /\ AtWork' = W \cup Works(j)
           /\ Active = A \cup Serves(job[w]) /\ Active' = A \cup Serves(j)
           /\ KidsHeld = K \cup job[w].kids /\ KidsHeld' = K \cup j.kids
           /\ SkipsHeld = S \cup job[w].skipped /\ SkipsHeld' = S \cup j.skipped
           /\ Hands = H \cup InHand(w) /\ Hands' = H \cup InHand(w)'
           /\ InHand(w) = At(job[w].req.to[1], job[w].unseen)
           /\ InHand(w)' = At(j.req.to[1], j.unseen)
  BY <1>2, OneHand
<1>6. Works(j) = Works(job[w]) /\ Serves(j) = Serves(job[w])
  BY <1>3, <1>4 DEF Works, Serves
<1>7. InHand(w)' \subseteq InHand(w) /\ x \in InHand(w)
  BY <1>4, <1>5 DEF At
<1> HIDE DEF x
<1>8. AtWork' = AtWork /\ Active' = Active /\ Hands' \subseteq Hands /\ x \in Hands
  BY <1>5, <1>6, <1>7
<1>9. KidsHeld' = KidsHeld \cup NextKids(x) /\ SkipsHeld' = SkipsHeld \cup DevKids(x)
  BY <1>4, <1>5
<1>10. fetched' = fetched \cup {x}
  BY <1>1 DEF x
<1>11. \E R : /\ pending \cup AtWork \subseteq pending' \cup AtWork' \cup R
              /\ R \subseteq Active /\ \A q \in R : Met(q)'
  <2> DEFINE R == {}
  <2>1. /\ pending \cup AtWork \subseteq pending' \cup AtWork' \cup R
        /\ R \subseteq Active /\ \A q \in R : Met(q)'
    BY <1>3, <1>8
  <2> HIDE DEF R
  <2> QED BY <2>1
<1> QED BY <1>3, <1>8, <1>9, <1>10, <1>11 DEF Advance

(* The other steps pass on what the goroutine carries.                     *)
LEMMA PassAdvances ==
  ASSUME TypeInv, NEW w \in Worker, Calm',
         Spawn(w) \/ AsOfFails(w) \/ MarkSkipped(w) \/ Return(w)
  PROVE  Advance
<1>1. job[w] \in Jobs /\ job \in [Worker -> Jobs]
  BY DEF TypeInv, TypeOK
<1>2. PICK j :
        /\ job' = [job EXCEPT ![w] = j]
        /\ pending \cup Works(job[w]) \subseteq pending' \cup Works(j)
        /\ pending' \cup Serves(j) \subseteq pending \cup Serves(job[w])
        /\ edges \subseteq edges' /\ edges' \subseteq edges \cup job[w].skipped
        /\ job[w].skipped \subseteq j.skipped \cup edges' /\ j.skipped \subseteq job[w].skipped
        /\ next \cup job[w].kids \subseteq next' \cup j.kids
        /\ next' \cup j.kids \subseteq next \cup job[w].kids
        /\ At(j.req.to[1], j.unseen) \subseteq At(job[w].req.to[1], job[w].unseen)
  <2>1. CASE Spawn(w)
    <3>1. PICK r \in pending :
            /\ pending' = pending \ {r}
            /\ job' = [job EXCEPT ![w].pc = "versions", ![w].req = r]
      BY <2>1 DEF Spawn
    <3> DEFINE j == [job[w] EXCEPT !.pc = "versions", !.req = r]
    <3>2. /\ job[w].pc = "idle" /\ job[w].kids = {} /\ job[w].skipped = {} /\ job[w].unseen = {}
          /\ next' = next /\ edges' = edges
      BY <2>1 DEF Spawn, TypeInv, HandsClean, graph
    <3>3. /\ job' = [job EXCEPT ![w] = j] /\ j.pc = "versions" /\ j.req = r
          /\ j.kids = {} /\ j.skipped = {} /\ j.unseen = {}
      BY <1>1, <3>1, <3>2 DEF Jobs
    <3> HIDE DEF j
    <3>4. Works(job[w]) = {} /\ Works(j) = {r} /\ Serves(job[w]) = {} /\ Serves(j) = {r}
      BY <3>2, <3>3 DEF Works, Serves
    <3>5. At(j.req.to[1], j.unseen) = {}
      BY <3>3 DEF At
    <3> QED BY <3>1, <3>2, <3>3, <3>4, <3>5
  <2>2. CASE AsOfFails(w)
    <3> DEFINE j == [job[w] EXCEPT !.pc = "requirements", !.err = TRUE]
    <3>1. /\ job' = [job EXCEPT ![w] = j] /\ j.pc = "requirements" /\ j.req = job[w].req
          /\ j.kids = job[w].kids /\ j.skipped = job[w].skipped /\ j.unseen = job[w].unseen
          /\ j.err
      BY <1>1, <2>2 DEF AsOfFails, Jobs
    <3>2. job[w].pc = "versions" /\ UNCHANGED <<pending, next, edges>>
      BY <2>2 DEF AsOfFails, Asks, level, graph
    <3> HIDE DEF j
    <3>3. Works(j) = Works(job[w]) /\ Serves(j) = Serves(job[w])
      BY <3>1, <3>2 DEF Works, Serves
    <3> QED BY <3>1, <3>2, <3>3
  <2>3. CASE MarkSkipped(w)
    <3> DEFINE j == [job[w] EXCEPT !.skipped = {}]
    <3>1. /\ job' = [job EXCEPT ![w] = j] /\ j.pc = job[w].pc /\ j.req = job[w].req
          /\ j.kids = job[w].kids /\ j.skipped = {} /\ j.unseen = job[w].unseen
          /\ j.err = job[w].err
      BY <1>1, <2>3 DEF MarkSkipped, Jobs
    <3>2. edges' = edges \cup job[w].skipped /\ UNCHANGED <<pending, next>>
      BY <2>3 DEF MarkSkipped, level
    <3> HIDE DEF j
    <3>3. Works(j) = Works(job[w]) /\ Serves(j) = Serves(job[w])
      BY <3>1 DEF Works, Serves
    <3> QED BY <3>1, <3>2, <3>3
  <2>4. CASE Return(w)
    <3>1. /\ job' = [job EXCEPT ![w] = Idle] /\ job[w].pc = "requirements"
          /\ job[w].skipped = {} /\ job[w].unseen = {}
          /\ firstErr' = (firstErr \/ job[w].err)
          /\ next' = next \cup job[w].kids /\ pending' = pending /\ edges' = edges
      BY <2>4 DEF Return, graph
    <3>2. ~job[w].err
      BY <3>1 DEF Calm
    <3>3. Works(job[w]) = {} /\ Works(Idle) = {} /\ Serves(Idle) = {}
      BY <3>1, <3>2 DEF Works, Serves, Idle
    <3>4. /\ Idle.kids = {} /\ Idle.skipped = {}
          /\ At(Idle.req.to[1], Idle.unseen) = {}
      BY DEF Idle, At
    <3> QED BY <3>1, <3>3, <3>4
  <2> QED BY <2>1, <2>2, <2>3, <2>4
<1>3. UNCHANGED <<phase, depth, visited, fetched>>
  BY DEF Spawn, AsOfFails, MarkSkipped, Return, level, graph, hist
<1>4. PICK W, A, K, S, H :
           /\ AtWork = W \cup Works(job[w]) /\ AtWork' = W \cup Works(j)
           /\ Active = A \cup Serves(job[w]) /\ Active' = A \cup Serves(j)
           /\ KidsHeld = K \cup job[w].kids /\ KidsHeld' = K \cup j.kids
           /\ SkipsHeld = S \cup job[w].skipped /\ SkipsHeld' = S \cup j.skipped
           /\ Hands = H \cup InHand(w) /\ Hands' = H \cup InHand(w)'
           /\ InHand(w) = At(job[w].req.to[1], job[w].unseen)
           /\ InHand(w)' = At(j.req.to[1], j.unseen)
  BY <1>2, OneHand
<1>5. \E R : /\ pending \cup AtWork \subseteq pending' \cup AtWork' \cup R
              /\ R \subseteq Active /\ \A q \in R : Met(q)'
  <2> DEFINE R == {}
  <2>1. /\ pending \cup AtWork \subseteq pending' \cup AtWork' \cup R
        /\ R \subseteq Active /\ \A q \in R : Met(q)'
    BY <1>2, <1>4
  <2> HIDE DEF R
  <2> QED BY <2>1
<1>6. pending' \cup Active' \subseteq pending \cup Active
  BY <1>2, <1>4
<1>7. /\ edges \subseteq edges' /\ edges' \subseteq edges \cup SkipsHeld
      /\ SkipsHeld \subseteq SkipsHeld' \cup edges' /\ SkipsHeld' \subseteq SkipsHeld
  BY <1>2, <1>4
<1>8. /\ next \cup KidsHeld \subseteq next' \cup KidsHeld'
      /\ next' \cup KidsHeld' \subseteq next \cup KidsHeld
  BY <1>2, <1>4
<1>9. Hands' \subseteq Hands
  BY <1>2, <1>4
<1> QED BY <1>3, <1>5, <1>6, <1>7, <1>8, <1>9 DEF Advance

LEMMA ExpandAdvances ==
  ASSUME TypeInv, NEW w \in Worker, Expand(w), Calm'
  PROVE  Advance
<1>1. CASE VersionsFail(w)
  BY <1>1 DEF VersionsFail, Calm
<1>2. CASE RequirementsFail(w)
  BY <1>2 DEF RequirementsFail, Calm
<1> QED BY <1>1, <1>2, SettleAdvances, ReadAdvances, PassAdvances DEF Expand

-----------------------------------------------------------------------------
(* A level, while nothing has gone wrong.                                  *)

LEMMA LevelFacts ==
  ASSUME NEW d \in 1..MaxDepth
  PROVE  /\ LevelReqs[d] \subseteq Reqs /\ LevelReqs[d] \subseteq Expanded
         /\ Before(d) \subseteq Reqs /\ Before(d + 1) = Before(d) \cup LevelReqs[d]
         /\ Before(1) = {} /\ Before(MaxDepth + 1) = Expanded
         /\ LevelReqs[d + 1] = NextReqs(LevelReqs[d])
         /\ LevelReqs[d + 1] = UNION {NextKids(x) : x \in NodesOf(LevelReqs[d])}
         /\ Before(d + 1) \subseteq Expanded
<1>1. MaxDepth \in Nat
  BY BoundsAssumption
<1>2. LevelReqs[d] \subseteq Reqs /\ LevelReqs[d] \subseteq Expanded
  BY <1>1, LevelsAreReqs DEF Expanded
<1>3. Before(d) \subseteq Reqs
  <2>1. \A i \in 1..(d - 1) : i \in 1..(MaxDepth + 1)
    BY <1>1
  <2> QED BY <2>1, LevelsAreReqs DEF Before
<1>4. Before(d + 1) = Before(d) \cup LevelReqs[d]
  <2>1. 1..((d + 1) - 1) = (1..(d - 1)) \cup {d}
    BY <1>1
  <2> QED BY <2>1 DEF Before
<1>5. 1..(1 - 1) = {} /\ (MaxDepth + 1) - 1 = MaxDepth
  BY <1>1
<1>6. Before(1) = {} /\ Before(MaxDepth + 1) = Expanded
  BY <1>5 DEF Before, Expanded
<1>7. LevelReqs[d + 1] = NextReqs(LevelReqs[d])
  BY LevelsAre
<1>8. NextReqs(LevelReqs[d]) = UNION {NextKids(x) : x \in NodesOf(LevelReqs[d])}
  BY <1>2, NodesAre
<1>9. Before(d + 1) \subseteq Expanded
  <2>1. 1..((d + 1) - 1) \subseteq 1..MaxDepth
    BY <1>1
  <2> QED BY <2>1 DEF Before, Expanded
<1> QED BY <1>2, <1>3, <1>4, <1>6, <1>7, <1>8, <1>9

(* Where the versions first reached at this level are.                     *)
Fresh(d) == NodesOf(LevelReqs[d]) \ NodesOf(Before(d))

Sound ==
  /\ visited \subseteq ClosureNodes
  /\ \A e \in edges : e.to[1] = Unparsed \/ e \in ClosureEdges
SeedsLinked == \A l \in SeedLinks : l.to[2] # NoVersion => l \in edges

LevelInv ==
  /\ \A r \in Before(depth) : Met(r)
  /\ \A r \in LevelReqs[depth] : r \in pending \cup AtWork \/ Met(r)
  /\ pending \cup Active \subseteq LevelReqs[depth]
  /\ \A k \in next \cup KidsHeld : k \in LevelReqs[depth + 1] /\ k.from \in Fresh(depth)
  /\ \A x \in fetched : /\ DevKids(x) \subseteq edges \cup SkipsHeld
                        /\ NextKids(x) \subseteq Before(depth + 1) \cup next \cup KidsHeld
  /\ SkipsHeld \subseteq DevReqs(Expanded)
  /\ Hands \subseteq Fresh(depth)
  /\ Sound /\ SeedsLinked

(* What the closure is made of.                                            *)
LEMMA ClosureIs ==
  /\ ClosureNodes = NodesOf(Expanded)
  /\ ClosureEdges = {l \in SeedLinks : l.to[2] # NoVersion} \cup EdgesOf(Expanded)
                      \cup DevReqs(Expanded) \cup (LevelReqs[MaxDepth + 1] \ Expanded)
BY DEF ClosureNodes, ClosureEdges, NodesOf, EdgesOf, DevReqs

LEMMA LevelAdvances ==
  ASSUME TypeInv, LevelInv, Advance
  PROVE  LevelInv'
<1> DEFINE d == depth
           L == LevelReqs[d]
<1>1. d \in 1..MaxDepth /\ depth' = d
  BY DEF TypeInv, TypeOK, Advance
<1>2. /\ L \subseteq Reqs /\ L \subseteq Expanded /\ Before(d) \subseteq Reqs
      /\ Before(d + 1) = Before(d) \cup L /\ Before(d + 1) \subseteq Expanded
      /\ LevelReqs[d + 1] = UNION {NextKids(x) : x \in NodesOf(L)}
  BY <1>1, LevelFacts
<1>3. /\ EdgesOf(L) \subseteq EdgesOf(Expanded) /\ NodesOf(L) \subseteq NodesOf(Expanded)
      /\ EdgesOf(Active) \subseteq EdgesOf(L) /\ NodesOf(Active) \subseteq NodesOf(L)
  <2>1. Active \subseteq L
    BY DEF LevelInv
  <2> HIDE DEF L
  <2> QED BY <1>2, <2>1, MoreOf
<1>4. /\ \A x \in NodesOf(L) : \A k \in Kids(x[1], x[2]) : k.from = x
      /\ DevReqs(Expanded) = UNION {DevKids(x) : x \in NodesOf(Expanded)}
  <2>1. Expanded \subseteq Reqs
    BY BoundsAssumption, LevelsAreReqs DEF Expanded
  <2> HIDE DEF L
  <2> QED BY <1>2, <2>1, NodesAre
<1>5. \A r : Met(r) => Met(r)'
  BY MetAfter DEF Met, Advance
<1>6. \A r \in Before(d) : Met(r)'
  BY <1>5 DEF LevelInv
<1>7. \A r \in L : r \in pending' \cup AtWork' \/ Met(r)'
  BY <1>5 DEF LevelInv, Advance
<1>8. pending' \cup Active' \subseteq L
  BY DEF LevelInv, Advance
<1>9. Hands' \subseteq Fresh(d)
  <2>1. NodesOf(Before(d)) \subseteq visited
    BY DEF LevelInv, Met, NodesOf
  <2>2. visited' \ visited \subseteq NodesOf(L)
    BY <1>3 DEF Advance
  <2> HIDE DEF d, L
  <2> QED BY <2>1, <2>2 DEF LevelInv, Advance, Fresh, d, L
<1>10. ASSUME NEW k \in next' \cup KidsHeld'
       PROVE  k \in LevelReqs[d + 1] /\ k.from \in Fresh(d)
  <2>1. CASE k \in next \cup KidsHeld
    BY <2>1 DEF LevelInv
  <2>2. ASSUME NEW x \in Hands, k \in NextKids(x)
        PROVE  k \in LevelReqs[d + 1] /\ k.from \in Fresh(d)
    <3>1. x \in Fresh(d) /\ x \in NodesOf(L)
      BY DEF LevelInv, Fresh
    <3>2. k.from = x
      BY <1>4, <2>2, <3>1 DEF NextKids
    <3> QED BY <1>2, <2>2, <3>1, <3>2
  <2> QED BY <1>10, <2>1, <2>2 DEF Advance
<1>11. ASSUME NEW x \in fetched'
       PROVE  /\ DevKids(x) \subseteq edges' \cup SkipsHeld'
              /\ NextKids(x) \subseteq Before(d + 1) \cup next' \cup KidsHeld'
  <2>1. CASE x \in fetched
    <3>1. /\ DevKids(x) \subseteq edges \cup SkipsHeld
          /\ NextKids(x) \subseteq Before(d + 1) \cup next \cup KidsHeld
      BY <2>1 DEF LevelInv
    <3>2. /\ edges \cup SkipsHeld \subseteq edges' \cup SkipsHeld'
          /\ next \cup KidsHeld \subseteq next' \cup KidsHeld'
      BY DEF Advance
    <3> QED BY <3>1, <3>2
  <2>2. CASE x \notin fetched
    BY <1>11, <2>2 DEF Advance
  <2> QED BY <2>1, <2>2
<1>12. SkipsHeld' \subseteq DevReqs(Expanded)
  <2>1. Hands \subseteq NodesOf(Expanded)
    BY <1>3 DEF LevelInv, Fresh
  <2>2. UNION {DevKids(x) : x \in Hands} \subseteq DevReqs(Expanded)
    BY <1>4, <2>1
  <2> QED BY <2>2 DEF LevelInv, Advance
<1>13. visited' \subseteq ClosureNodes /\ \A e \in edges' : e.to[1] = Unparsed \/ e \in ClosureEdges
  <2>1. visited' \subseteq visited \cup NodesOf(Expanded)
    BY <1>3 DEF Advance
  <2>2. edges' \subseteq edges \cup EdgesOf(Expanded) \cup DevReqs(Expanded)
    BY <1>3 DEF LevelInv, Advance
  <2> QED BY <2>1, <2>2, ClosureIs DEF LevelInv, Sound
<1>14. \A l \in SeedLinks : l.to[2] # NoVersion => l \in edges'
  BY DEF LevelInv, SeedsLinked, Advance
<1> HIDE DEF d, L
<1>15. Sound' /\ SeedsLinked'
  BY <1>13, <1>14, Rigid DEF Sound, SeedsLinked
<1>16. LevelReqs' = LevelReqs /\ Fresh(depth)' = Fresh(d) /\ Before(depth)' = Before(d)
       /\ Before(depth + 1)' = Before(d + 1) /\ DevReqs(Expanded)' = DevReqs(Expanded)
  <2>1. DevReqs(Expanded)' = DevReqs(Expanded)
    BY DEF DevReqs, Expanded, LevelReqs, Needs, Targets, PinMissing, BadRange, Chosen, Pinned,
           Available, Enumerate, Newest, Link, Kids, SkipScope, SeedLinks
  <2>2. LevelReqs' = LevelReqs
    BY Rigid
  <2>3. Fresh(depth)' = Fresh(d) /\ Before(depth)' = Before(d) /\ Before(depth + 1)' = Before(d + 1)
    BY <1>1, Rigid DEF Fresh
  <2> QED BY <2>1, <2>2, <2>3
<1>17. \A x : DevKids(x)' = DevKids(x) /\ NextKids(x)' = NextKids(x)
  BY Rigid
<1> QED BY <1>1, <1>6, <1>7, <1>8, <1>9, <1>10, <1>11, <1>12, <1>15, <1>16, <1>17 DEF LevelInv, L

LEMMA IdleHoldsNothing ==
  ASSUME TypeInv, \A w \in Worker : job[w].pc = "idle"
  PROVE  /\ AtWork = {} /\ Active = {} /\ KidsHeld = {} /\ SkipsHeld = {} /\ Hands = {}
<1>1. ASSUME NEW w \in Worker
      PROVE  /\ Works(job[w]) = {} /\ Serves(job[w]) = {} /\ job[w].kids = {}
             /\ job[w].skipped = {} /\ InHand(w) = {}
  BY DEF TypeInv, HandsClean, Works, Serves, InHand
<1> QED BY <1>1 DEF AtWork, Active, KidsHeld, SkipsHeld, Hands

(* A level that is done has met every requirement so far, and what they    *)
(* require in turn has been met too or makes up the next level.            *)
LEMMA LevelOver ==
  ASSUME TypeInv, ReadOnce, LevelInv, Calm, LevelDone
  PROVE  LET B == Before(depth + 1) IN
         /\ \A r \in B : Met(r)
         /\ NodesOf(B) \subseteq visited /\ EdgesOf(B) \subseteq edges
         /\ NextReqs(B) \subseteq B \cup next /\ DevReqs(B) \subseteq edges
         /\ \A x \in fetched : DevKids(x) \subseteq edges /\ NextKids(x) \subseteq B \cup next
<1> DEFINE B == Before(depth + 1)
<1>1. AtWork = {} /\ KidsHeld = {} /\ SkipsHeld = {} /\ Hands = {} /\ pending = {}
  BY IdleHoldsNothing DEF LevelDone
<1>2. B = Before(depth) \cup LevelReqs[depth] /\ B \subseteq Reqs
  BY LevelFacts DEF TypeInv, TypeOK
<1>3. \A r \in B : Met(r)
  BY <1>1, <1>2 DEF LevelInv
<1>4. NodesOf(B) \subseteq visited /\ EdgesOf(B) \subseteq edges
  <2> HIDE DEF B
  <2> QED BY <1>3 DEF Met, NodesOf, EdgesOf
<1>5. visited = fetched
  BY <1>1 DEF ReadOnce, Calm, Hands
<1>6. \A x \in fetched : DevKids(x) \subseteq edges /\ NextKids(x) \subseteq B \cup next
  BY <1>1 DEF LevelInv
<1> HIDE DEF B
<1>7. /\ NextReqs(B) = UNION {NextKids(x) : x \in NodesOf(B)}
      /\ DevReqs(B) = UNION {DevKids(x) : x \in NodesOf(B)}
  BY <1>2, NodesAre
<1>8. NextReqs(B) \subseteq B \cup next /\ DevReqs(B) \subseteq edges
  BY <1>4, <1>5, <1>6, <1>7
<1> QED BY <1>3, <1>4, <1>6, <1>8 DEF B

LEMMA NextLevelStep ==
  ASSUME TypeInv, ReadOnce, LevelInv, Calm, NextLevel
  PROVE  LevelInv'
<1> DEFINE e == depth + 1
           B == Before(e)
<1>1. /\ depth \in 1..MaxDepth /\ e \in 1..MaxDepth /\ depth' = e
      /\ pending' = next /\ next' = {} /\ LevelDone
      /\ UNCHANGED <<job, edges, visited, fetched>>
  BY BoundsAssumption DEF NextLevel, TypeInv, TypeOK, graph, hist
<1>2. /\ AtWork' = {} /\ Active' = {} /\ KidsHeld' = {} /\ SkipsHeld' = {} /\ Hands' = {}
  <2>1. /\ AtWork = {} /\ Active = {} /\ KidsHeld = {} /\ SkipsHeld = {} /\ Hands = {}
    BY <1>1, IdleHoldsNothing DEF LevelDone
  <2>2. /\ AtWork' = AtWork /\ Active' = Active /\ KidsHeld' = KidsHeld
        /\ SkipsHeld' = SkipsHeld /\ Hands' = Hands
    BY <1>1 DEF AtWork, Active, KidsHeld, SkipsHeld, Hands, Works, Serves, InHand
  <2> QED BY <2>1, <2>2
<1>3. /\ \A r \in B : Met(r)
      /\ NextReqs(B) \subseteq B \cup next
      /\ \A x \in fetched : DevKids(x) \subseteq edges /\ NextKids(x) \subseteq B \cup next
  BY <1>1, LevelOver
<1>4. /\ B = Before(depth) \cup LevelReqs[depth] /\ Before(e + 1) = B \cup LevelReqs[e]
      /\ LevelReqs[e] = NextReqs(LevelReqs[depth])
  BY <1>1, LevelFacts
<1>5. next \subseteq LevelReqs[e]
  BY DEF LevelInv
<1> HIDE DEF e, B
<1>6. LevelReqs[e] \subseteq B \cup next
  <2>1. NextReqs(LevelReqs[depth]) \subseteq NextReqs(B)
    BY <1>4 DEF NextReqs
  <2> QED BY <1>3, <1>4, <2>1
<1>7. \A r : Met(r)' <=> Met(r)
  BY <1>1, MetAfter DEF Met
<1>8. \A x \in fetched' : /\ DevKids(x) \subseteq edges'
                         /\ NextKids(x) \subseteq Before(e + 1)
  BY <1>1, <1>3, <1>4, <1>5
<1>9. Sound' /\ SeedsLinked'
  BY <1>1, Rigid DEF LevelInv, Sound, SeedsLinked
<1>10. LevelReqs' = LevelReqs /\ Before(depth)' = B /\ Before(depth + 1)' = Before(e + 1)
       /\ \A x : DevKids(x)' = DevKids(x) /\ NextKids(x)' = NextKids(x)
  BY <1>1, Rigid DEF B
<1> QED BY <1>1, <1>2, <1>3, <1>5, <1>6, <1>7, <1>8, <1>9, <1>10 DEF LevelInv

(* The walk ends at the depth bound, or with nothing more to expand: it    *)
(* has the closure either way.                                             *)
LEMMA FinishExact ==
  ASSUME TypeInv, ReadOnce, LevelInv, Calm, Finish
  PROVE  visited' = ClosureNodes /\ {e \in edges' : e.to[1] # Unparsed} = ClosureEdges
<1> DEFINE B == Before(depth + 1)
           A == {l \in SeedLinks : l.to[2] # NoVersion}
           F == LevelReqs[MaxDepth + 1] \ Expanded
<1>1. /\ depth \in 1..MaxDepth /\ LevelDone /\ (next = {} \/ depth = MaxDepth)
      /\ edges' = edges \cup next /\ visited' = visited
  BY DEF Finish, MarkFrontier, TypeInv, TypeOK, Calm
<1>2. /\ NodesOf(B) \subseteq visited /\ EdgesOf(B) \subseteq edges
      /\ NextReqs(B) \subseteq B \cup next /\ DevReqs(B) \subseteq edges
  BY <1>1, LevelOver
<1>3. B \subseteq Expanded /\ Before(MaxDepth + 1) = Expanded
      /\ B = Before(depth) \cup LevelReqs[depth]
  BY <1>1, LevelFacts
<1>4. SeedReqs \subseteq B
  <2>1. 1 \in 1..((depth + 1) - 1)
    BY <1>1
  <2>2. LevelReqs[1] \subseteq B
    BY <2>1 DEF Before
  <2> QED BY <2>2, LevelsAre
<1>5. Expanded = B
  <2>1. CASE depth = MaxDepth
    BY <1>3, <2>1
  <2>2. CASE next = {}
    <3>1. NextReqs(B) \subseteq B
      BY <1>2, <2>2
    <3> HIDE DEF B
    <3>2. \A d \in 1..(MaxDepth + 1) : LevelReqs[d] \subseteq B
      BY <1>4, <3>1, Closed
    <3>3. Expanded \subseteq B
      BY <3>2, BoundsAssumption DEF Expanded
    <3> QED BY <1>3, <3>3
  <2> QED BY <1>1, <2>1, <2>2
<1>6. F \subseteq next
  <2>1. MaxDepth \in 1..MaxDepth
    BY BoundsAssumption
  <2>2. LevelReqs[MaxDepth + 1] = NextReqs(LevelReqs[MaxDepth])
    BY <2>1, LevelFacts
  <2>3. LevelReqs[MaxDepth] \subseteq Expanded
    BY <2>1, LevelFacts
  <2> HIDE DEF B
  <2>4. LevelReqs[MaxDepth + 1] \subseteq NextReqs(B)
    BY <1>5, <2>2, <2>3 DEF NextReqs
  <2> QED BY <1>2, <1>5, <2>4
<1>7. ASSUME NEW k \in next
      PROVE  k \in F /\ k.to[1] # Unparsed
  <2>1. depth = MaxDepth
    BY <1>1, <1>7
  <2>2. /\ k \in LevelReqs[MaxDepth + 1]
        /\ k.from \in NodesOf(LevelReqs[depth]) \ NodesOf(Before(depth))
    BY <2>1 DEF LevelInv, Fresh
  <2>3. k.from[1] \in Resolvable \cap Schemed /\ Before(depth) \subseteq Reqs
    <3>1. LevelReqs[depth] \subseteq Reqs /\ Before(depth) \subseteq Reqs
      BY <1>1, LevelFacts
    <3> QED BY <2>2, <3>1, NodesAre
  <2>4. ASSUME NEW d \in 1..MaxDepth, k \in LevelReqs[d]
        PROVE  FALSE
    <3>1. CASE d = 1
      <4>1. k \in SeedLinks
        BY <2>4, <3>1, LevelsAre DEF SeedReqs
      <4>2. PICK f \in 1..NumFiles : ~Manifest[f].broken /\ k \in Manifest[f].links
        BY <4>1 DEF SeedLinks
      <4> QED BY <2>3, <4>2, ManifestAssumption
    <3>2. CASE d # 1
      <4>1. d - 1 \in 1..MaxDepth /\ d - 1 \in 1..(depth - 1) /\ (d - 1) + 1 = d
        BY <2>1, <3>2, BoundsAssumption
      <4> DEFINE c == d - 1
      <4>2. /\ LevelReqs[c + 1] = UNION {NextKids(x) : x \in NodesOf(LevelReqs[c])}
            /\ LevelReqs[c] \subseteq Reqs
        BY <4>1, LevelFacts
      <4>3. PICK x \in NodesOf(LevelReqs[c]) : k \in NextKids(x)
        BY <2>4, <4>1, <4>2
      <4>4. k.from = x
        BY <4>2, <4>3, NodesAre DEF NextKids
      <4>5. LevelReqs[c] \subseteq Before(depth)
        BY <4>1 DEF Before
      <4> HIDE DEF c
      <4>6. x \in NodesOf(Before(depth))
        BY <4>3, <4>5, MoreOf
      <4> QED BY <2>2, <4>4, <4>6
    <3> QED BY <3>1, <3>2
  <2>5. k \notin Expanded
    BY <2>4 DEF Expanded
  <2>6. k.to[1] # Unparsed
    <3>1. k \in Reqs
      BY DEF TypeInv, TypeOK
    <3> QED BY <3>1, ReqParts, WorldAssumption
  <2> QED BY <2>2, <2>5, <2>6
<1>8. visited \subseteq ClosureNodes /\ \A e \in edges : e.to[1] = Unparsed \/ e \in ClosureEdges
  BY DEF LevelInv, Sound
<1>9. A \subseteq edges
  BY DEF LevelInv, SeedsLinked
<1>10. \A e \in ClosureEdges : e.to[1] # Unparsed
  <2>1. \A e \in A : e.to[1] # Unparsed
    <3> SUFFICES ASSUME NEW e \in A PROVE e.to[1] # Unparsed
      OBVIOUS
    <3>1. PICK f \in 1..NumFiles : ~Manifest[f].broken /\ e \in Manifest[f].links
      BY DEF SeedLinks
    <3>2. e.to \in Package \X (Version \cup {NoVersion})
      BY <3>1, ManifestAssumption
    <3> QED BY <3>2, WorldAssumption
  <2>2. Expanded \subseteq Reqs
    BY BoundsAssumption, LevelsAreReqs DEF Expanded
  <2>3. ASSUME NEW e \in EdgesOf(Expanded)
        PROVE  e.to[1] # Unparsed
    <3>1. PICK r \in Expanded : \E t \in Targets(r) : e = [r EXCEPT !.to = t]
      BY DEF EdgesOf
    <3>2. PICK t \in Targets(r) : e = [r EXCEPT !.to = t]
      BY <3>1
    <3>3. r \in Reqs
      BY <2>2, <3>1
    <3>4. t[1] = r.to[1] /\ r.to[1] \in Package
      BY <3>2, <3>3, TargetsAre, ReqParts
    <3>5. e.to = t
      BY <3>2, <3>3 DEF Reqs
    <3> QED BY <3>4, <3>5, WorldAssumption
  <2>4. \A e \in Reqs : e.to[1] # Unparsed
    BY ReqParts, WorldAssumption
  <2>5. DevReqs(Expanded) \subseteq Reqs
    <3>1. DevReqs(Expanded) = UNION {DevKids(x) : x \in NodesOf(Expanded)}
      BY <2>2, NodesAre
    <3> QED BY <2>2, <3>1, NodesAre DEF DevKids
  <2>6. LevelReqs[MaxDepth + 1] \subseteq Reqs
    BY BoundsAssumption, LevelsAreReqs
  <2> HIDE DEF A
  <2> QED BY <2>1, <2>3, <2>4, <2>5, <2>6, ClosureIs DEF A
<1>11. ClosureNodes = NodesOf(B)
  BY <1>5, ClosureIs
<1>12. ClosureEdges = A \cup EdgesOf(B) \cup DevReqs(B) \cup F
  BY <1>5, ClosureIs
<1> HIDE DEF A, B, F
<1>13. ClosureEdges \subseteq edges'
  BY <1>1, <1>2, <1>6, <1>9, <1>12
<1>14. \A e \in edges' : e.to[1] # Unparsed => e \in ClosureEdges
  BY <1>1, <1>7, <1>8, <1>12
<1> QED BY <1>1, <1>2, <1>8, <1>10, <1>11, <1>13, <1>14

-----------------------------------------------------------------------------
(* From the files to the result.                                           *)

(* While files are read only their links are in the graph, those of the    *)
(* files read all are, and nothing but their requirements is pending.      *)
SeedInv ==
  /\ depth = 1 /\ next = {} /\ visited = {} /\ fetched = {}
  /\ pending \subseteq SeedReqs
  /\ Sound
  /\ \A f \in 1..(nextFile - 1) : ~Manifest[f].broken =>
       \A l \in Manifest[f].links : l.to[2] # NoVersion => l \in edges

(* Goroutines run only while a level does, and what they, the files before *)
(* them and the frontier after them add up to is the closure.              *)
ClosureInv ==
  /\ phase # "walk" => \A w \in Worker : job[w].pc = "idle"
  /\ phase = "seed" => SeedInv
  /\ phase = "walk" /\ Calm => LevelInv
  /\ ClosureExact

LEMMA ClosureInit == Init => ClosureInv
<1> SUFFICES ASSUME Init PROVE ClosureInv
  OBVIOUS
<1>1. \A w \in Worker : job[w].pc = "idle"
  BY DEF Init, Idle
<1>2. SeedInv
  BY DEF Init, SeedInv, Sound
<1>3. phase = "seed"
  BY DEF Init
<1> QED BY <1>1, <1>2, <1>3 DEF ClosureInv, ClosureExact

(* Reading a file adds links of the closure.                               *)
LEMMA SeedFileStep ==
  ASSUME TypeInv, SeedInv, ReadFile \/ ReadBrokenFile
  PROVE  SeedInv'
<1>1. nextFile \in 1..NumFiles
  BY MoreFiles DEF ReadFile, ReadBrokenFile, TypeInv
<1> DEFINE file == Manifest[nextFile]
           concrete == {l \in file.links : l.to[2] # NoVersion}
<1>2. nextFile' = nextFile + 1 /\ UNCHANGED <<depth, next, visited, fetched>>
  BY DEF ReadFile, ReadBrokenFile, level, hist
<1>3. /\ edges \subseteq edges'
      /\ pending' \subseteq SeedReqs
      /\ \A e \in edges' : e.to[1] = Unparsed \/ e \in ClosureEdges
      /\ ~file.broken => concrete \subseteq edges'
  <2>1. CASE ReadBrokenFile
    <3> DEFINE link == [from |-> RootId, to |-> <<Unparsed, nextFile>>,
                        spec |-> "", scope |-> "prod"]
    <3>1. pending' = pending /\ file.broken /\ edges' = edges \cup {link}
      BY <2>1 DEF ReadBrokenFile, level
    <3>2. link.to[1] = Unparsed
      OBVIOUS
    <3> HIDE DEF concrete, file, link
    <3> QED BY <3>1, <3>2 DEF SeedInv, Sound
  <2>2. CASE ReadFile
    <3>1. /\ ~file.broken /\ edges' = edges \cup concrete
          /\ pending' = pending \cup (file.links \ concrete)
      BY <2>2 DEF ReadFile
    <3>2. file.links \subseteq SeedLinks
      BY <1>1, <3>1 DEF SeedLinks
    <3>3. concrete \subseteq ClosureEdges
      BY <3>2, ClosureIs
    <3>4. file.links \ concrete \subseteq SeedReqs
      BY <3>2 DEF SeedReqs
    <3> HIDE DEF concrete
    <3> QED BY <3>1, <3>3, <3>4 DEF SeedInv, Sound
  <2> QED BY <2>1, <2>2
<1>4. ASSUME NEW f \in 1..((nextFile + 1) - 1), ~Manifest[f].broken,
             NEW l \in Manifest[f].links, l.to[2] # NoVersion
      PROVE  l \in edges'
  <2>1. CASE f = nextFile
    BY <1>3, <1>4, <2>1
  <2>2. CASE f # nextFile
    <3>1. f \in 1..(nextFile - 1)
      BY <1>1, <2>2
    <3>2. l \in edges
      BY <1>4, <3>1 DEF SeedInv
    <3> QED BY <1>3, <3>2
  <2> QED BY <2>1, <2>2
<1> HIDE DEF file, concrete
<1>5. /\ Sound' <=> /\ visited' \subseteq ClosureNodes
                    /\ \A e \in edges' : e.to[1] = Unparsed \/ e \in ClosureEdges
      /\ SeedReqs' = SeedReqs
  BY Rigid DEF Sound, SeedReqs
<1> QED BY <1>2, <1>3, <1>4, <1>5 DEF SeedInv, Sound

(* The first level is what the files require.                              *)
LEMMA FirstLevel ==
  ASSUME TypeInv, Seeded, SeedInv, \A w \in Worker : job[w].pc = "idle", SeedDone
  PROVE  LevelInv'
<1>1. /\ phase = "seed" /\ nextFile > NumFiles /\ depth = 1 /\ next = {} /\ fetched = {}
      /\ UNCHANGED <<depth, pending, next, job, edges, visited, fetched>>
  BY DEF SeedDone, SeedInv, level, graph, hist
<1>2. /\ AtWork' = {} /\ Active' = {} /\ KidsHeld' = {} /\ SkipsHeld' = {} /\ Hands' = {}
  <2>1. /\ AtWork = {} /\ Active = {} /\ KidsHeld = {} /\ SkipsHeld = {} /\ Hands = {}
    BY IdleHoldsNothing
  <2>2. /\ AtWork' = AtWork /\ Active' = Active /\ KidsHeld' = KidsHeld
        /\ SkipsHeld' = SkipsHeld /\ Hands' = Hands
    BY <1>1 DEF AtWork, Active, KidsHeld, SkipsHeld, Hands, Works, Serves, InHand
  <2> QED BY <2>1, <2>2
<1>3. Before(1) = {} /\ LevelReqs[1] = SeedReqs
  <2>1. 1 \in 1..MaxDepth
    BY BoundsAssumption
  <2> QED BY <2>1, LevelFacts, LevelsAre
<1>4. \A f \in 1..NumFiles : f \in 1..(nextFile - 1)
  BY <1>1, BoundsAssumption DEF TypeInv, TypeOK
<1>5. SeedReqs \subseteq pending
  <2> SUFFICES ASSUME NEW l \in SeedReqs PROVE l \in pending
    OBVIOUS
  <2>1. PICK f \in 1..NumFiles : ~Manifest[f].broken /\ l \in Manifest[f].links
    BY DEF SeedReqs, SeedLinks
  <2>2. l.to[2] = NoVersion
    BY DEF SeedReqs
  <2> QED BY <1>1, <1>4, <2>1, <2>2 DEF Seeded
<1>6. \A l \in SeedLinks : l.to[2] # NoVersion => l \in edges
  <2> SUFFICES ASSUME NEW l \in SeedLinks, l.to[2] # NoVersion PROVE l \in edges
    OBVIOUS
  <2>1. PICK f \in 1..NumFiles : ~Manifest[f].broken /\ l \in Manifest[f].links
    BY DEF SeedLinks
  <2> QED BY <1>4, <2>1 DEF SeedInv
<1>7. Sound' /\ SeedsLinked'
  BY <1>1, <1>6, Rigid DEF SeedInv, Sound, SeedsLinked
<1>8. LevelReqs' = LevelReqs /\ Before(depth)' = Before(1)
  BY <1>1, Rigid
<1>9. pending \subseteq SeedReqs
  BY DEF SeedInv
<1> QED BY <1>1, <1>2, <1>3, <1>5, <1>7, <1>8, <1>9 DEF LevelInv

LEMMA ClosureStep ==
  ASSUME TypeInv, ReadOnce, Seeded, ClosureInv, [Next]_vars
  PROVE  ClosureInv'
<1>1. ASSUME NEW w \in Worker, Expand(w)
      PROVE  ClosureInv'
  <2>1. job[w].pc # "idle" \/ phase = "walk"
    BY <1>1 DEF Expand, Spawn, Unresolvable, NoScheme, VersionsFail, AsOfFails, Unchoosable,
       RecordChosen, ReadRequirements, RequirementsFail, MarkSkipped, Return, Asks
  <2>2. phase = "walk"
    BY <2>1 DEF ClosureInv
  <2>3. phase' = phase
    BY <1>1 DEF Expand, Spawn, Unresolvable, NoScheme, VersionsFail, AsOfFails, Unchoosable,
       RecordChosen, ReadRequirements, RequirementsFail, MarkSkipped, Return
  <2>4. ASSUME Calm'
        PROVE  LevelInv'
    <3>1. LevelInv
      BY <2>2, <2>4, CalmBefore DEF ClosureInv
    <3> QED BY <1>1, <2>4, <3>1, ExpandAdvances, LevelAdvances
  <2> QED BY <2>2, <2>3, <2>4 DEF ClosureInv, ClosureExact
<1>2. CASE ReadFile \/ ReadBrokenFile
  <2>1. phase = "seed" /\ phase' = "seed" /\ job' = job
    BY <1>2 DEF ReadFile, ReadBrokenFile
  <2> QED BY <1>2, <2>1, SeedFileStep DEF ClosureInv, ClosureExact
<1>3. CASE SeedDone
  <2>1. phase = "seed" /\ phase' = "walk"
    BY <1>3 DEF SeedDone
  <2> QED BY <1>3, <2>1, FirstLevel DEF ClosureInv, ClosureExact
<1>4. CASE NextLevel
  <2>1. phase = "walk" /\ phase' = "walk"
    BY <1>4 DEF NextLevel, LevelDone
  <2>2. ASSUME Calm'
        PROVE  LevelInv'
    <3>1. LevelInv /\ Calm
      BY <2>1, <2>2, CalmBefore DEF ClosureInv
    <3> QED BY <1>4, <3>1, NextLevelStep
  <2> QED BY <2>1, <2>2 DEF ClosureInv, ClosureExact
<1>5. CASE Finish
  <2>1. /\ phase = "walk" /\ phase' = "done" /\ ~firstErr
        /\ job' = job /\ \A w \in Worker : job[w].pc = "idle"
        /\ UNCHANGED <<lost, missed, expired>>
    BY <1>5 DEF Finish, LevelDone, hist
  <2>2. ASSUME Undisturbed'
        PROVE  visited' = ClosureNodes /\ {e \in edges' : e.to[1] # Unparsed} = ClosureEdges
    <3>1. Calm
      BY <2>1, <2>2 DEF Undisturbed, Calm
    <3>2. LevelInv
      BY <2>1, <3>1 DEF ClosureInv
    <3> QED BY <1>5, <3>1, <3>2, FinishExact
  <2>3. ClosureExact'
    BY <2>2, Rigid DEF ClosureExact
  <2> QED BY <2>1, <2>3 DEF ClosureInv
<1>6. CASE Abort \/ SeedFails
  <2>1. phase' = "failed" /\ job' = job /\ \A w \in Worker : job[w].pc = "idle"
    BY <1>6 DEF Abort, LevelDone, SeedFails, ClosureInv
  <2> QED BY <2>1 DEF ClosureInv, ClosureExact
<1>7. CASE Expire
  <2>1. phase' = phase /\ phase \in {"seed", "walk"} /\ job' = job /\ ~Calm'
        /\ UNCHANGED <<nextFile, level, graph, fetched>>
    BY <1>7 DEF Expire, Calm, hist
  <2>2. SeedInv => SeedInv'
    <3>1. UNCHANGED <<nextFile, depth, pending, next, edges, visited, fetched>>
      BY <2>1 DEF level, graph
    <3>2. SeedReqs' = SeedReqs /\ (Sound => Sound')
      BY <3>1, Rigid DEF SeedReqs, Sound
    <3> QED BY <3>1, <3>2 DEF SeedInv
  <2> QED BY <2>1, <2>2 DEF ClosureInv, ClosureExact
<1>8. CASE UNCHANGED vars
  <2>1. UNCHANGED <<phase, nextFile, depth, pending, next, job, firstErr, expired,
                    edges, visited, fetched, lost, missed>>
    BY <1>8 DEF vars, level, graph, hist
  <2>2. SeedReqs' = SeedReqs /\ Sound' = Sound /\ SeedsLinked' = SeedsLinked
    BY <2>1, Rigid DEF SeedReqs, Sound, SeedsLinked
  <2>3. SeedInv => SeedInv'
    BY <2>1, <2>2 DEF SeedInv
  <2>4. Calm' = Calm
    BY <2>1 DEF Calm
  <2>5. LevelInv => LevelInv'
    <3>1. /\ AtWork' = AtWork /\ Active' = Active /\ KidsHeld' = KidsHeld
          /\ SkipsHeld' = SkipsHeld /\ Hands' = Hands
      BY <2>1 DEF AtWork, Active, KidsHeld, SkipsHeld, Hands, Works, Serves, InHand
    <3>2. Advance
      <4>1. \E R : /\ pending \cup AtWork \subseteq pending' \cup AtWork' \cup R
                   /\ R \subseteq Active /\ \A r \in R : Met(r)'
        <5> DEFINE R == {}
        <5>1. /\ pending \cup AtWork \subseteq pending' \cup AtWork' \cup R
              /\ R \subseteq Active /\ \A r \in R : Met(r)'
          BY <2>1, <3>1
        <5> HIDE DEF R
        <5> QED BY <5>1
      <4> QED BY <2>1, <3>1, <4>1 DEF Advance
    <3> QED BY <3>2, LevelAdvances
  <2>6. ClosureExact'
    BY <2>1, Rigid DEF ClosureInv, ClosureExact, Undisturbed
  <2> QED BY <2>1, <2>3, <2>4, <2>5, <2>6 DEF ClosureInv
<1> QED BY <1>1, <1>2, <1>3, <1>4, <1>5, <1>6, <1>7, <1>8 DEF Next, Progress, Ended

(* However the goroutines interleave, a walk that nothing disturbed        *)
(* returns exactly the closure of the repository, for every repository and *)
(* registry, every number of goroutines and every bound.                   *)
THEOREM WalkClosureExact == WalkSpec => []ClosureExact
<1>1. Init => Seeded
  BY DEF Init, Seeded
<1>2. TypeInv /\ Seeded /\ [Next]_vars => Seeded'
  BY SeededStep
<1>3. TypeInv /\ ReadOnce /\ Seeded /\ ClosureInv /\ [Next]_vars => ClosureInv'
  BY ClosureStep
<1>4. ClosureInv => ClosureExact
  BY DEF ClosureInv
<1> QED BY <1>1, <1>2, <1>3, <1>4, ClosureInit, WalkTypeInv, WalkReadOnce, PTL DEF WalkSpec
==============================================================================
