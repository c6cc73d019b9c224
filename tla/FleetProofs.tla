----------------------------- MODULE FleetProofs -----------------------------
(***************************************************************************)
(* What holds of an organisation scan whatever the owner has, however the  *)
(* pages are cut, whoever pushes, deletes and writes runs meanwhile, and   *)
(* however often the process dies.                                         *)
(***************************************************************************)
EXTENDS Fleet, FiniteSetTheorems, WellFoundedInduction, TLAPS

-----------------------------------------------------------------------------
(* RemoveAt drops the one place and keeps the order.                       *)
LEMMA RemoveAtIs ==
  ASSUME NEW T, NEW s \in Seq(T), NEW i \in DOMAIN s
  PROVE /\ RemoveAt(s, i) \in Seq(T)
        /\ DOMAIN RemoveAt(s, i) = 1..(Len(s) - 1)
        /\ \A k \in 1..(Len(s) - 1) :
             RemoveAt(s, i)[k] = IF k < i THEN s[k] ELSE s[k + 1]
<1> DEFINE a == SubSeq(s, 1, i - 1)
           b == SubSeq(s, i + 1, Len(s))
<1>1. /\ i \in 1..Len(s) /\ Len(s) \in Nat /\ \A k \in 1..Len(s) : s[k] \in T
  OBVIOUS
<1>2. a \in Seq(T) /\ Len(a) = i - 1 /\ \A k \in 1..(i - 1) : a[k] = s[k]
  BY <1>1
<1>3. b \in Seq(T) /\ Len(b) = Len(s) - i
      /\ \A k \in 1..(Len(s) - i) : b[k] = s[k + i]
  BY <1>1
<1>4. RemoveAt(s, i) = a \o b
  BY DEF RemoveAt
<1> HIDE DEF a, b
<1>5. /\ a \o b \in Seq(T) /\ Len(a \o b) = Len(s) - 1
      /\ \A k \in 1..(Len(s) - 1) :
           (a \o b)[k] = IF k <= i - 1 THEN a[k] ELSE b[k - (i - 1)]
  BY <1>1, <1>2, <1>3
<1>6. ASSUME NEW k \in 1..(Len(s) - 1)
      PROVE (a \o b)[k] = IF k < i THEN s[k] ELSE s[k + 1]
  <2>1. CASE k < i
    BY <2>1, <1>1, <1>2, <1>5
  <2>2. CASE ~(k < i)
    <3>1. k - (i - 1) \in 1..(Len(s) - i) /\ ~(k <= i - 1)
      BY <2>2, <1>1
    <3>2. (k - (i - 1)) + i = k + 1
      BY <1>1
    <3> QED BY <2>2, <3>1, <3>2, <1>3, <1>5
  <2> QED BY <2>1, <2>2
<1>7. DOMAIN (a \o b) = 1..(Len(s) - 1)
  BY <1>1, <1>5
<1> QED BY <1>4, <1>5, <1>6, <1>7

-----------------------------------------------------------------------------
(* The inductive invariants.                                               *)

Wantable == {r \in Repo : Wanted(r)}

(* What the list still owes: wanted, not pushed to meanwhile, not listed.  *)
Missing == {r \in Wantable \ pushed : r \notin Range(listed)}

Short == Cardinality(Repo) > MaxPages * PerPage

(* The host has every repository at one place.                             *)
HostInv ==
  /\ hosted \in Seq(Repo) /\ Len(hosted) = Cardinality(Repo) /\ Range(hosted) = Repo
  /\ \A p, q \in DOMAIN hosted : hosted[p] = hosted[q] => p = q

(* The endpoint that has all of the owner's repositories.                  *)
Right == (asked.path = "orgs") = IsOrg

(* The pages that were read hold nothing that is owed, since a push moves  *)
(* the others only further down; and when the last one is read, nothing is *)
(* owed, or the list is cut.                                               *)
ListingInv ==
  /\ HostInv
  /\ listed \in Seq(Repo)
  /\ asked = Nothing \/ asked \in [path : {"orgs", "users"}, page : 1..MaxPages]
  /\ asked # Nothing /\ Right =>
       \A p \in DOMAIN hosted : hosted[p] \in Missing => p > (asked.page - 1) * PerPage
  /\ IsOrg /\ asked.path = "users" => Missing = {} \/ Short
  /\ ~IsOrg /\ asked.path = "orgs" => asked.page = 1 /\ listed = <<>>
  /\ asked = Nothing /\ listed # <<>> => Cut \/ Missing = {}

(* Run ids rise along the store, and are below the next one.               *)
StoreInv ==
  /\ lastId \in Nat
  /\ stored \in Seq([id : 1..lastId, target : Repo])
  /\ \A k, l \in DOMAIN stored : k < l => stored[k].id < stored[l].id

Reports == {ReportOf[r] : r \in Repo}
Outcomes == [repo : Repo, failed : BOOLEAN, report : Reports \cup {NoReport}]

(* The goroutines, one per place of the listing, and their outcomes.       *)
PoolInv ==
  /\ org \in [pc : {"listing", "look", "pool", "done", "failed", "dead"},
              done : SUBSET Repo, next : Nat \ {0}]
  /\ org.pc \in {"look", "pool", "done", "dead"} => asked = Nothing /\ listed # <<>>
  /\ org.pc \in {"listing", "look", "dead"} => work = <<>>
  /\ work \in Seq([pc : {"idle", "scan", "find", "report", "done"},
                   id : 0..lastId, mine : 0..lastId])
  /\ Len(work) <= Len(listed)
  /\ org.pc \in {"pool", "done"} =>
       /\ Len(work) = Len(listed) /\ Len(results) = Len(listed)
       /\ results \in Seq(Outcomes)
       /\ \A i \in DOMAIN results :
            /\ results[i].repo = listed[i]
            /\ work[i].pc = "done" => results[i].failed \/ results[i].report \in Reports
  /\ org.pc = "done" =>
       doc = BuildOrgReport(results) /\ \A i \in DOMAIN work : work[i].pc = "done"

(* A run a goroutine knows by its id is a run of its repository while it   *)
(* is stored.                                                              *)
OwnInv ==
  \A i \in DOMAIN work :
    /\ org.pc = "pool" /\ org.next <= i => work[i] = Absent
    /\ work[i].pc \notin {"report", "done"} => work[i].id = 0
    /\ \A k \in DOMAIN stored :
         /\ stored[k].id \in {work[i].id, work[i].mine} => stored[k].target = listed[i]
         /\ work[i].id # 0 /\ work[i].id < work[i].mine => stored[k].id # work[i].mine

(* A repository that was scanned has a run, is found done, or is past its  *)
(* scan in this process.                                                   *)
ResumeInv ==
  /\ scans \in [Repo -> Nat]
  /\ ~Refresh =>
       /\ org.pc \in {"look", "pool"} => Twice \subseteq excused
       /\ \A i \in DOMAIN work :
            org.pc = "pool" /\ listed[i] \in org.done => work[i].pc # "scan"
       /\ \A r \in Repo \ excused :
            /\ scans[r] <= 1
            /\ scans[r] # 0 => \E k \in DOMAIN stored : stored[k].target = r
            /\ org.pc = "pool" /\ r \notin org.done /\ scans[r] # 0 =>
                 \E i \in DOMAIN work : listed[i] = r /\ work[i].pc \notin {"idle", "scan"}

FleetInv == ListingInv /\ StoreInv /\ PoolInv /\ OwnInv /\ ResumeInv


-----------------------------------------------------------------------------
(* The listing.                                                            *)

LEMMA RepoFinite == IsFiniteSet(Repo) /\ Cardinality(Repo) \in Nat
  BY ForgeAssumption, FS_CardinalityType

(* The host begins with every repository at one place.                     *)
LEMMA HostStarts ==
  ASSUME hosted \in Orders
  PROVE HostInv
<1> DEFINE n == Cardinality(Repo)
<1>1. n \in Nat /\ IsFiniteSet(Repo)
  BY RepoFinite
<1>2. hosted \in [1..n -> Repo] /\ \A p, q \in 1..n : p # q => hosted[p] # hosted[q]
  BY FleetAssumption DEF SetToSeqs
<1>3. hosted \in Seq(Repo) /\ Len(hosted) = n /\ DOMAIN hosted = 1..n
  BY <1>1, <1>2
<1>4. IsFiniteSet(1..n) /\ Cardinality(1..n) = n
  BY <1>1, FS_Interval
<1>5. \A r \in Repo : \E p \in 1..n : hosted[p] = r
  <2>1. hosted \in [1..n -> Repo]
    BY <1>2
  <2>2. IsFiniteSet(1..n) /\ Cardinality(1..n) = n
    BY <1>4
  <2>3. \A p, q \in 1..n : hosted[p] = hosted[q] => p = q
    BY <1>2
  <2> HIDE DEF n
  <2> QED BY <2>1, <2>2, <2>3, RepoFinite, AtEveryPlace DEF n
<1>6. Range(hosted) = Repo
  BY <1>2, <1>5 DEF Range
<1> QED BY <1>2, <1>3, <1>6 DEF HostInv, n

(* A push keeps every repository at one place, and moves those that were   *)
(* not pushed to only further down.                                        *)
LEMMA PushMoves ==
  ASSUME HostInv, NEW r \in Repo, Push(r)
  PROVE /\ HostInv'
        /\ \A p \in DOMAIN hosted' : hosted'[p] # r =>
             \E q \in DOMAIN hosted : hosted[q] = hosted'[p] /\ q <= p
<1> DEFINE n == Cardinality(Repo)
<1>1. /\ hosted \in Seq(Repo) /\ Len(hosted) = n /\ DOMAIN hosted = 1..n /\ n \in Nat
      /\ \A p, q \in 1..n : hosted[p] = hosted[q] => p = q
      /\ \A s \in Repo : \E p \in 1..n : hosted[p] = s
  BY RepoFinite DEF HostInv, Range
<1>2. PICK k \in 1..n : hosted[k] = r /\ hosted' = <<r>> \o RemoveAt(hosted, k)
  BY <1>1 DEF Push
<1> HIDE DEF n
<1> DEFINE rest == RemoveAt(hosted, k)
<1>3. /\ rest \in Seq(Repo) /\ Len(rest) = n - 1
      /\ \A p \in 1..(n - 1) : rest[p] = IF p < k THEN hosted[p] ELSE hosted[p + 1]
  <2>1. /\ rest \in Seq(Repo) /\ DOMAIN rest = 1..(Len(hosted) - 1)
        /\ \A p \in 1..(Len(hosted) - 1) :
             rest[p] = IF p < k THEN hosted[p] ELSE hosted[p + 1]
    <3>1. hosted \in Seq(Repo) /\ k \in DOMAIN hosted
      BY <1>1
    <3> QED BY <3>1, RemoveAtIs, Zenon
  <2> HIDE DEF rest
  <2>2. n >= 1
    BY <1>1
  <2> QED BY <1>1, <2>1, <2>2
<1>4. hosted' = <<r>> \o rest
  BY <1>2
<1> HIDE DEF rest
<1>5. /\ hosted' \in Seq(Repo) /\ Len(hosted') = n /\ DOMAIN hosted' = 1..n
      /\ \A p \in 1..n : hosted'[p] = IF p = 1 THEN r ELSE rest[p - 1]
  <2>1. n \in Nat /\ n >= 1
    BY <1>1, <1>2
  <2>2. <<r>> \in Seq(Repo) /\ Len(<<r>>) = 1 /\ <<r>>[1] = r
    OBVIOUS
  <2>3. /\ <<r>> \o rest \in Seq(Repo) /\ Len(<<r>> \o rest) = n
        /\ \A p \in 1..n : (<<r>> \o rest)[p] = IF p <= 1 THEN <<r>>[p] ELSE rest[p - 1]
    BY <2>1, <2>2, <1>3
  <2>4. \A p \in 1..n : (<<r>> \o rest)[p] = IF p = 1 THEN r ELSE rest[p - 1]
    BY <2>1, <2>2, <2>3
  <2> QED BY <2>1, <2>3, <2>4, <1>4
<1> DEFINE From(p) == IF p = 1 THEN k ELSE IF p - 1 < k THEN p - 1 ELSE p
<1>6. ASSUME NEW p \in 1..n PROVE From(p) \in 1..n /\ hosted'[p] = hosted[From(p)]
  <2>1. CASE p = 1
    BY <2>1, <1>2, <1>5
  <2>2. CASE p # 1
    <3>1. p - 1 \in 1..(n - 1) /\ (p - 1) + 1 = p
      BY <2>2, <1>1
    <3>2. rest[p - 1] = IF p - 1 < k THEN hosted[p - 1] ELSE hosted[p]
      BY <3>1, <1>3
    <3> QED BY <2>2, <3>1, <3>2, <1>5, <1>1
  <2> QED BY <2>1, <2>2
<1>7. \A p, q \in 1..n : From(p) = From(q) => p = q
  BY <1>1, <1>2
<1>8. \A p \in 1..n : p # 1 => From(p) <= p
  BY <1>1
<1> HIDE DEF From
<1>9. \A p, q \in 1..n : hosted'[p] = hosted'[q] => p = q
  BY <1>1, <1>6, <1>7
<1>10. Range(hosted') = Repo
  <2>1. hosted' \in [1..n -> Repo]
    BY <1>5
  <2>2. IsFiniteSet(1..n) /\ Cardinality(1..n) = n
    BY <1>1, FS_Interval
  <2>3. \A s \in Repo : \E p \in 1..n : hosted'[p] = s
    BY <2>1, <2>2, <1>9, RepoFinite, AtEveryPlace DEF n
  <2> QED BY <2>1, <2>3 DEF Range
<1>11. \A p \in 1..n : hosted'[p] # r => From(p) <= p
  BY <1>5, <1>8
<1> QED BY <1>1, <1>5, <1>6, <1>9, <1>10, <1>11 DEF HostInv, n

(* Where the endpoint has every repository, a page that was read leaves    *)
(* the rest below it; and what remains after the last page is cut off.     *)
LEMMA PageCovers ==
  ASSUME HostInv, Right, NEW n \in 1..MaxPages,
         asked.path \in {"orgs", "users"}, NEW p \in DOMAIN hosted, p > (n - 1) * PerPage
  PROVE \/ hosted[p] \in Range(Page(asked.path, n))
        \/ p > n * PerPage /\ (LastPage(Page(asked.path, n), n) => Short)
<1> DEFINE b == (n - 1) * PerPage
           e == n * PerPage
<1>1. /\ PerPage \in Nat \ {0} /\ MaxPages \in Nat \ {0} /\ IsOrg \in BOOLEAN /\ n \in Nat
      /\ b \in Nat /\ e \in Nat /\ e = b + PerPage
  BY ForgeAssumption
<1>2. Served(asked.path) = hosted
  BY <1>1 DEF Right, Served
<1>3. /\ hosted \in Seq(Repo) /\ Len(hosted) = Cardinality(Repo) /\ p \in 1..Len(hosted)
      /\ Cardinality(Repo) \in Nat
  BY RepoFinite DEF HostInv
<1>4. n = MaxPages => e = MaxPages * PerPage
  OBVIOUS
<1> DEFINE last == IF e < Len(hosted) THEN e ELSE Len(hosted)
<1>5. Page(asked.path, n) = SubSeq(hosted, b + 1, last)
  BY <1>2 DEF Page
<1>6. p > b
  OBVIOUS
<1> HIDE DEF b, e
<1>7. CASE p <= e
  <2>1. p <= last /\ last \in Nat /\ last <= Len(hosted)
    BY <1>7, <1>1, <1>3
  <2> HIDE DEF last
  <2>2. p - b \in 1..(last - b) /\ (p - b) + b = p
    BY <2>1, <1>6, <1>1, <1>3
  <2> DEFINE page == SubSeq(hosted, b + 1, last)
  <2>3. DOMAIN page = 1..(last - b) /\ \A i \in 1..(last - b) : page[i] = hosted[i + b]
    BY <2>1, <2>2, <1>1, <1>3
  <2>4. page[p - b] = hosted[p]
    BY <2>2, <2>3
  <2> HIDE DEF page
  <2>5. hosted[p] \in Range(page)
    BY <2>2, <2>3, <2>4 DEF Range
  <2> QED BY <2>5, <1>5 DEF page
<1>8. CASE p > e
  <2>1. last = e /\ Len(SubSeq(hosted, b + 1, last)) = PerPage
    BY <1>8, <1>1, <1>3
  <2>2. LastPage(Page(asked.path, n), n) => Short
    BY <2>1, <1>1, <1>3, <1>4, <1>5, <1>8 DEF LastPage, Short
  <2> QED BY <2>2, <1>8 DEF e
<1> QED BY <1>7, <1>8, <1>1, <1>3


(* Listing begins with nothing read.                                       *)
LEMMA ListingStarts ==
  ASSUME HostInv, asked = [path |-> "orgs", page |-> 1], listed = <<>>
  PROVE ListingInv
<1>1. IsOrg \in BOOLEAN /\ MaxPages \in Nat \ {0} /\ PerPage \in Nat \ {0}
  BY ForgeAssumption
<1>2. asked.path = "orgs" /\ asked.page = 1 /\ (asked.page - 1) * PerPage = 0
  BY <1>1
<1>3. asked \in [path : {"orgs", "users"}, page : 1..MaxPages] /\ asked # Nothing
  BY <1>1, <1>2 DEF Nothing
<1>4. listed \in Seq(Repo)
  OBVIOUS
<1>5. \A p \in DOMAIN hosted : p > 0
  BY DEF HostInv
<1> QED BY <1>2, <1>3, <1>4, <1>5 DEF ListingInv

LEMMA PushKeepsListing ==
  ASSUME ListingInv, NEW r \in Repo, Push(r)
  PROVE ListingInv'
<1>1. HostInv
  BY DEF ListingInv
<1>2. asked # Nothing /\ pushed' = pushed \cup {r} /\ UNCHANGED <<asked, listed>>
  BY DEF Push
<1>3. Missing' = Missing \ {r}
  BY <1>2 DEF Missing, Wantable, Wanted, Range
<1>4. HostInv' /\ \A p \in DOMAIN hosted' : hosted'[p] # r =>
                     \E q \in DOMAIN hosted : hosted[q] = hosted'[p] /\ q <= p
  BY <1>1, PushMoves
<1>5. ASSUME Right, NEW p \in DOMAIN hosted', hosted'[p] \in Missing'
      PROVE p > (asked.page - 1) * PerPage
  <2>1. PICK q \in DOMAIN hosted : hosted[q] = hosted'[p] /\ q <= p
    BY <1>3, <1>4, <1>5
  <2>2. q > (asked.page - 1) * PerPage
    BY <1>2, <1>3, <1>5, <2>1 DEF ListingInv
  <2>3. asked.page \in Nat /\ PerPage \in Nat /\ p \in Nat /\ q \in Nat
    BY <1>1, <1>2, <1>4, ForgeAssumption DEF ListingInv, HostInv
  <2>4. (asked.page - 1) * PerPage \in Int
    BY <2>3
  <2> QED BY <2>1, <2>2, <2>3, <2>4
<1>6. /\ listed' \in Seq(Repo)
      /\ asked' \in [path : {"orgs", "users"}, page : 1..MaxPages]
      /\ IsOrg /\ asked'.path = "users" => Missing' = {} \/ Short
      /\ ~IsOrg /\ asked'.path = "orgs" => asked'.page = 1 /\ listed' = <<>>
  BY <1>2, <1>3 DEF ListingInv
<1>7. Right' <=> Right
  BY <1>2 DEF Right
<1>8. Short' <=> Short
  BY DEF Short
<1> QED BY <1>2, <1>4, <1>5, <1>6, <1>7, <1>8 DEF ListingInv

LEMMA RefusedKeepsListing ==
  ASSUME ListingInv, asked # Nothing, NEW r \in Responses, Possible(r),
         Refused(DecodePage(r))
  PROVE ListingInv'
<1>1. /\ listed' = <<>> /\ listed' \in Seq(Repo) /\ UNCHANGED <<hosted, pushed>>
      /\ HostInv /\ IsOrg \in BOOLEAN /\ MaxPages \in Nat \ {0} /\ PerPage \in Nat
  <2>1. IsOrg \in BOOLEAN /\ MaxPages \in Nat \ {0} /\ PerPage \in Nat
    BY ForgeAssumption
  <2>2. listed' = <<>> /\ UNCHANGED <<hosted, pushed>>
    BY DEF Refused
  <2>3. HostInv
    BY DEF ListingInv
  <2>4. <<>> \in Seq(Repo)
    OBVIOUS
  <2> QED BY <2>1, <2>2, <2>3, <2>4
<1>2. HostInv'
  BY <1>1 DEF HostInv
<1>3. CASE DecodePage(r) = "no such owner" /\ asked.path = "orgs"
  <2>1. asked' = [path |-> "users", page |-> 1]
    BY <1>3 DEF Refused
  <2>2. r.status = 404
    <3>1. r.status \in {200, 403, 404, 429, 500}
      BY DEF Responses
    <3>2. ASSUME r.status \in {403, 429}
          PROVE DecodePage(r) \in {"saml", "rate limit", "refused"}
      <4>1. r.status # 404 /\ r.status # 500
        BY <3>2
      <4>2. DecodePage(r) = IF r.saml THEN "saml"
                            ELSE IF r.exhausted THEN "rate limit" ELSE "refused"
        BY <3>2, <4>1 DEF DecodePage
      <4> QED BY <4>2, Zenon
    <3>3. r.status = 500 => DecodePage(r) = "status"
      BY DEF DecodePage
    <3>4. r.status = 200 => DecodePage(r) \in {"garbled", "page"}
      BY DEF DecodePage
    <3> QED BY <1>3, <3>1, <3>2, <3>3, <3>4
  <2>3. ~IsOrg
    BY <2>2, <1>3 DEF Possible
  <2>4. asked'.path = "users" /\ asked'.page = 1 /\ (asked'.page - 1) * PerPage = 0
    BY <2>1, <1>1
  <2>5. asked' \in [path : {"orgs", "users"}, page : 1..MaxPages] /\ asked' # Nothing
    BY <2>1, <1>1 DEF Nothing
  <2>6. \A p \in DOMAIN hosted' : p > 0
    BY <1>2 DEF HostInv
  <2> QED BY <1>1, <1>2, <2>3, <2>4, <2>5, <2>6 DEF ListingInv
<1>4. CASE ~(DecodePage(r) = "no such owner" /\ asked.path = "orgs")
  <2>1. asked' = Nothing
    BY <1>4 DEF Refused
  <2>2. asked'.path = "none"
    BY <2>1 DEF Nothing
  <2> QED BY <1>1, <1>2, <2>1, <2>2 DEF ListingInv
<1> QED BY <1>3, <1>4

(* What a page leaves of what is owed.                                     *)
LEMMA ReadPageOwes ==
  ASSUME ListingInv, asked # Nothing, ReadPage
  PROVE /\ listed' \in Seq(Repo) /\ UNCHANGED <<hosted, pushed>>
        /\ asked.page \in 1..MaxPages /\ asked.path \in {"orgs", "users"}
        /\ \/ Full(listed') /\ listed' # <<>> /\ asked' = Nothing
           \/ /\ Missing' = Missing \ Range(Page(asked.path, asked.page))
              /\ \/ /\ ~LastPage(Page(asked.path, asked.page), asked.page)
                    /\ asked' = [asked EXCEPT !.page = @ + 1]
                 \/ /\ LastPage(Page(asked.path, asked.page), asked.page)
                    /\ \/ asked' = Nothing
                       \/ /\ asked' = [path |-> "users", page |-> 1]
                          /\ listed' = <<>> /\ asked.path = "orgs"
<1> DEFINE batch == Page(asked.path, asked.page)
           some  == Kept(batch, Wantable)
           out   == listed \o some
<1>1. /\ listed \in Seq(Repo) /\ asked.page \in 1..MaxPages
      /\ asked.path \in {"orgs", "users"} /\ hosted \in Seq(Repo)
  BY DEF ListingInv, HostInv
<1>2. /\ IsOrg \in BOOLEAN /\ Public \subseteq Repo /\ Limit \in Nat
      /\ PerPage \in Nat \ {0} /\ MaxPages \in Nat
  BY ForgeAssumption
<1>3. Served(asked.path) \in Seq(Repo)
  <2>1. Kept(hosted, Public) \in Seq(Repo)
    BY <1>1, KeptIs, Zenon
  <2> QED BY <1>1, <2>1 DEF Served
<1>4. batch \in Seq(Repo)
  <2> DEFINE all == Served(asked.path)
             b == (asked.page - 1) * PerPage + 1
             e == IF asked.page * PerPage < Len(all) THEN asked.page * PerPage ELSE Len(all)
  <2>1. asked.page \in Nat /\ asked.page >= 1
    BY <1>1, <1>2
  <2>2. b \in Nat /\ b >= 1 /\ e \in Nat /\ e <= Len(all) /\ all \in Seq(Repo)
    BY <1>2, <1>3, <2>1
  <2>3. batch = SubSeq(all, b, e)
    BY DEF Page
  <2> HIDE DEF all, b, e, batch
  <2> QED BY <2>2, <2>3
<1> HIDE DEF batch
<1>5. some \in Seq(Repo) /\ Range(some) = Range(batch) \cap Wantable
  BY <1>4, KeptIs, Zenon
<1>6. some = Kept(batch, {r \in Repo : Wanted(r)})
  BY DEF Wantable
<1> HIDE DEF some
<1>7. out \in Seq(Repo) /\ Range(out) = Range(listed) \cup Range(some)
  <2>1. /\ out \in Seq(Repo) /\ Len(out) = Len(listed) + Len(some)
        /\ \A i \in 1..Len(listed) : out[i] = listed[i]
        /\ \A i \in 1..Len(some) : out[Len(listed) + i] = some[i]
        /\ \A i \in 1..Len(out) : i <= Len(listed) \/ i - Len(listed) \in 1..Len(some)
    BY <1>1, <1>5
  <2>2. \A i \in 1..Len(out) : i > Len(listed) => out[i] = some[i - Len(listed)]
    BY <1>1, <1>5
  <2>3. /\ DOMAIN out = 1..Len(out) /\ DOMAIN some = 1..Len(some)
        /\ DOMAIN listed = 1..Len(listed) /\ Len(listed) \in Nat /\ Len(some) \in Nat
    BY <1>1, <1>5, <2>1
  <2> HIDE DEF out
  <2>4. Range(out) \subseteq Range(listed) \cup Range(some)
    <3>1. ASSUME NEW i \in 1..Len(out)
          PROVE out[i] \in Range(listed) \cup Range(some)
      <4>1. CASE i <= Len(listed)
        BY <4>1, <2>1, <2>3 DEF Range
      <4>2. CASE ~(i <= Len(listed))
        BY <4>2, <2>1, <2>2, <2>3 DEF Range
      <4> QED BY <4>1, <4>2
    <3> QED BY <3>1, <2>3 DEF Range
  <2>5. Range(listed) \cup Range(some) \subseteq Range(out)
    <3>1. \A i \in 1..Len(some) : Len(listed) + i \in 1..Len(out)
      BY <2>1, <2>3
    <3>2. \A i \in 1..Len(listed) : i \in 1..Len(out)
      BY <2>1, <2>3
    <3> QED BY <2>1, <2>3, <3>1, <3>2 DEF Range
  <2> QED BY <2>1, <2>4, <2>5
<1> HIDE DEF out
<1> DEFINE ends == Full(out) \/ LastPage(batch, asked.page)
<1>8. /\ listed' = IF Full(out) THEN SubSeq(out, 1, Limit) ELSE out
      /\ asked' = CASE ~ends -> [asked EXCEPT !.page = @ + 1]
                    [] ends /\ listed' = <<>> /\ asked.path = "orgs" ->
                         [path |-> "users", page |-> 1]
                    [] OTHER -> Nothing
      /\ UNCHANGED <<hosted, pushed>>
  BY <1>6 DEF ReadPage, batch, out
<1>9. CASE Full(out)
  <2>1. Limit \in Nat /\ Limit > 0 /\ Len(out) >= Limit
    BY <1>9, <1>2 DEF Full
  <2>2. listed' = SubSeq(out, 1, Limit) /\ listed' \in Seq(Repo) /\ Len(listed') = Limit
    BY <1>7, <1>8, <1>9, <2>1
  <2>3. Full(listed') /\ listed' # <<>>
    BY <2>1, <2>2 DEF Full
  <2>4. asked' = Nothing
    BY <1>8, <1>9, <2>3
  <2> QED BY <1>1, <1>8, <2>2, <2>3, <2>4
<1>10. CASE ~Full(out)
  <2>1. listed' = out /\ listed' \in Seq(Repo)
    BY <1>7, <1>8, <1>10
  <2>2. Missing' = Missing \ Range(batch)
    <3>1. Range(listed') = Range(listed) \cup (Range(batch) \cap Wantable)
      BY <2>1, <1>5, <1>7
    <3>2. Missing' = {r \in Wantable \ pushed : r \notin Range(listed')}
      BY <1>8 DEF Missing, Wantable, Wanted, Range
    <3> QED BY <3>1, <3>2 DEF Missing
  <2>3. CASE LastPage(batch, asked.page)
    BY <1>1, <1>8, <1>10, <2>1, <2>2, <2>3 DEF batch
  <2>4. CASE ~LastPage(batch, asked.page)
    BY <1>1, <1>8, <1>10, <2>1, <2>2, <2>4 DEF batch
  <2> QED BY <2>3, <2>4
<1> QED BY <1>9, <1>10


LEMMA ReadPageKeepsListing ==
  ASSUME ListingInv, asked # Nothing, NEW r \in Responses, Possible(r),
         DecodePage(r) = "page", ReadPage
  PROVE ListingInv'
<1> DEFINE n == asked.page
           page == Page(asked.path, n)
<1>1. /\ listed' \in Seq(Repo) /\ UNCHANGED <<hosted, pushed>>
      /\ n \in 1..MaxPages /\ asked.path \in {"orgs", "users"}
      /\ \/ Full(listed') /\ listed' # <<>> /\ asked' = Nothing
         \/ /\ Missing' = Missing \ Range(page)
            /\ \/ ~LastPage(page, n) /\ asked' = [asked EXCEPT !.page = @ + 1]
               \/ /\ LastPage(page, n)
                  /\ \/ asked' = Nothing
                     \/ /\ asked' = [path |-> "users", page |-> 1]
                        /\ listed' = <<>> /\ asked.path = "orgs"
  BY ReadPageOwes
<1>2. IsOrg \in BOOLEAN /\ MaxPages \in Nat \ {0} /\ PerPage \in Nat \ {0}
  BY ForgeAssumption
<1>3. HostInv /\ HostInv'
  BY <1>1 DEF ListingInv, HostInv
(* An endpoint that has no such owner gives no page.                       *)
<1>4. asked.path = "users" \/ IsOrg
  <2>1. r.status # 404
    <3>1. r.status = 404 => DecodePage(r) = "no such owner"
      BY DEF DecodePage
    <3> QED BY <3>1
  <2> QED BY <2>1 DEF Possible
<1>5. asked \in [path : {"orgs", "users"}, page : 1..MaxPages]
  BY DEF ListingInv
<1>6. CASE Full(listed') /\ listed' # <<>> /\ asked' = Nothing
  <2>1. asked'.path = "none"
    BY <1>6 DEF Nothing
  <2>2. Cut'
    BY <1>6 DEF Cut
  <2> QED BY <1>1, <1>3, <1>6, <2>1, <2>2 DEF ListingInv
<1>7. CASE Missing' = Missing \ Range(page)
  <2>1. ASSUME Right, NEW p \in DOMAIN hosted', hosted'[p] \in Missing'
        PROVE p > n * PerPage /\ (LastPage(page, n) => Short)
    <3>1. p \in DOMAIN hosted /\ hosted[p] \in Missing /\ hosted[p] \notin Range(page)
      BY <1>1, <1>7, <2>1
    <3>2. p > (n - 1) * PerPage
      BY <2>1, <3>1 DEF ListingInv
    <3> QED BY <1>1, <1>3, <2>1, <3>1, <3>2, PageCovers
  <2>2. CASE ~LastPage(page, n) /\ asked' = [asked EXCEPT !.page = @ + 1]
    <3>1. n # MaxPages
      BY <2>2 DEF LastPage
    <3>2. asked'.path = asked.path /\ asked'.page = n + 1
      BY <1>5, <2>2
    <3>3. asked' \in [path : {"orgs", "users"}, page : 1..MaxPages] /\ asked' # Nothing
      <4>1. n + 1 \in 1..MaxPages
        BY <1>1, <1>2, <3>1
      <4> QED BY <1>5, <2>2, <4>1 DEF Nothing
    <3>4. Right' => \A p \in DOMAIN hosted' :
            hosted'[p] \in Missing' => p > (asked'.page - 1) * PerPage
      <4>1. asked'.page - 1 = n
        BY <1>1, <1>2, <3>2
      <4>2. Right' => Right
        BY <3>2 DEF Right
      <4> QED BY <2>1, <4>1, <4>2
    <3>5. IsOrg /\ asked'.path = "users" => Missing' = {} \/ Short'
      BY <1>7, <3>2 DEF ListingInv, Short
    <3>6. ~(~IsOrg /\ asked'.path = "orgs")
      BY <1>4, <3>2
    <3> QED BY <1>1, <1>3, <3>3, <3>4, <3>5, <3>6 DEF ListingInv
  <2>3. Right /\ LastPage(page, n) => Missing' = {} \/ Short
    <3>1. SUFFICES ASSUME Right, LastPage(page, n), NEW s \in Missing' PROVE Short
      OBVIOUS
    <3>2. s \in Repo
      BY <1>1, <3>1 DEF Missing, Wantable
    <3>3. \E p \in DOMAIN hosted' : hosted'[p] = s
      BY <1>3, <3>2 DEF HostInv, Range
    <3> QED BY <2>1, <3>1, <3>3
  <2>4. Right \/ (IsOrg /\ asked.path = "users")
    BY <1>1, <1>2, <1>4 DEF Right
  <2>5. ASSUME LastPage(page, n) PROVE Missing' = {} \/ Short
    <3>1. CASE Right
      BY <2>3, <2>5, <3>1
    <3>2. CASE IsOrg /\ asked.path = "users"
      BY <1>7, <3>2 DEF ListingInv
    <3> QED BY <2>4, <3>1, <3>2
  <2>6. CASE LastPage(page, n) /\ asked' = Nothing
    <3>1. asked'.path = "none"
      BY <2>6 DEF Nothing
    <3>2. Short => Cut'
      BY DEF Short, Cut
    <3> QED BY <1>1, <1>3, <2>5, <2>6, <3>1, <3>2 DEF ListingInv
  <2>7. CASE /\ LastPage(page, n) /\ listed' = <<>> /\ asked.path = "orgs"
             /\ asked' = [path |-> "users", page |-> 1]
    <3>1. asked'.path = "users" /\ asked'.page = 1 /\ IsOrg
      BY <1>4, <2>7
    <3>2. asked' \in [path : {"orgs", "users"}, page : 1..MaxPages] /\ asked' # Nothing
      BY <1>2, <2>7 DEF Nothing
    <3>3. ~Right'
      BY <3>1 DEF Right
    <3>4. Missing' = {} \/ Short'
      BY <2>5, <2>7 DEF Short
    <3> QED BY <1>1, <1>3, <3>1, <3>2, <3>3, <3>4 DEF ListingInv
  <2> QED BY <1>1, <2>2, <2>6, <2>7, <1>6
<1> QED BY <1>1, <1>6, <1>7

LEMMA RespondKeepsListing ==
  ASSUME ListingInv, Respond
  PROVE ListingInv'
<1>1. asked # Nothing
  BY DEF Respond
<1>2. PICK r \in Responses :
        /\ Possible(r)
        /\ IF DecodePage(r) = "page" THEN ReadPage ELSE Refused(DecodePage(r))
  BY DEF Respond
<1>3. CASE DecodePage(r) = "page"
  BY <1>1, <1>2, <1>3, ReadPageKeepsListing
<1>4. CASE DecodePage(r) # "page"
  BY <1>1, <1>2, <1>4, RefusedKeepsListing
<1> QED BY <1>3, <1>4

LEMMA ListingUnchanged ==
  ASSUME ListingInv, UNCHANGED forgeVars
  PROVE ListingInv'
BY DEF forgeVars, ListingInv, HostInv, Right, Missing, Wantable, Wanted, Short, Cut, Full, Range

(* Every step keeps the listing's invariant.                               *)
LEMMA ListingStep ==
  ASSUME ListingInv, Next
  PROVE ListingInv'
<1>1. CASE Respond
  BY <1>1, RespondKeepsListing
<1>2. CASE PushWhileListing
  BY <1>2, PushKeepsListing DEF PushWhileListing
<1>3. CASE Restart
  <2>1. HostInv /\ hosted' = hosted
    BY <1>3 DEF Restart, Listing, ListingInv
  <2>2. HostInv' /\ asked' = [path |-> "orgs", page |-> 1] /\ listed' = <<>>
    BY <1>3, <2>1 DEF Restart, Listing, HostInv
  <2>3. IsOrg \in BOOLEAN /\ MaxPages \in Nat \ {0} /\ PerPage \in Nat \ {0}
    BY ForgeAssumption
  <2>4. asked'.path = "orgs" /\ asked'.page = 1 /\ (asked'.page - 1) * PerPage = 0
    BY <2>2, <2>3
  <2>5. asked' \in [path : {"orgs", "users"}, page : 1..MaxPages] /\ asked' # Nothing
    BY <2>2, <2>3 DEF Nothing
  <2>6. listed' \in Seq(Repo)
    BY <2>2
  <2>7. \A p \in DOMAIN hosted' : p > 0
    BY <2>2 DEF HostInv
  <2> QED BY <2>2, <2>4, <2>5, <2>6, <2>7 DEF ListingInv
<1>4. CASE UNCHANGED forgeVars
  BY <1>4, ListingUnchanged
<1>5. Next => Respond \/ PushWhileListing \/ Restart \/ UNCHANGED forgeVars
  <2>1. Listed \/ LookUp \/ Spawn \/ Finish \/ Die => UNCHANGED forgeVars
    BY DEF Listed, LookUp, Spawn, Finish, Die
  <2>2. ASSUME NEW i, Fails(i) PROVE UNCHANGED forgeVars
    BY <2>2 DEF Fails
  <2>3. Goroutine => UNCHANGED forgeVars
    BY <2>2 DEF Goroutine, ScanStores, ScanFails, Find, FindFails, Report, ReportFails
  <2>4. ASSUME NEW r, OtherScan(r) PROVE UNCHANGED forgeVars
    BY <2>4 DEF OtherScan
  <2>5. ASSUME NEW i, Delete(i) PROVE UNCHANGED forgeVars
    BY <2>5 DEF Delete
  <2> QED BY <2>1, <2>3, <2>4, <2>5 DEF Next, OrgStep
<1> QED BY <1>1, <1>2, <1>3, <1>4, <1>5


-----------------------------------------------------------------------------
(* The store.                                                              *)

LEMMA SeqIs ==
  ASSUME NEW S, NEW s \in Seq(S)
  PROVE /\ Len(s) \in Nat /\ DOMAIN s = 1..Len(s)
        /\ \A k \in DOMAIN s : s[k] \in S
        /\ \A T : S \subseteq T => s \in Seq(T)
OBVIOUS

LEMMA WriteRunAdds ==
  ASSUME StoreInv, NEW r \in Repo, WriteRun(r)
  PROVE /\ StoreInv' /\ lastId' = lastId + 1
        /\ DOMAIN stored' = 1..(Len(stored) + 1) /\ DOMAIN stored = 1..Len(stored)
        /\ Len(stored) \in Nat
        /\ \A k \in DOMAIN stored : stored'[k] = stored[k]
        /\ stored'[Len(stored) + 1] = [id |-> lastId', target |-> r]
<1> DEFINE e == [id |-> lastId + 1, target |-> r]
           Run == [id : 1..lastId, target : Repo]
           n == Len(stored)
<1>1. /\ lastId \in Nat /\ lastId' = lastId + 1 /\ stored' = Append(stored, e)
      /\ stored \in Seq(Run)
      /\ \A k, l \in DOMAIN stored : k < l => stored[k].id < stored[l].id
  BY DEF WriteRun, StoreInv
<1>2. e \in [id : 1..lastId', target : Repo]
  BY <1>1
<1>3. Run \subseteq [id : 1..lastId', target : Repo]
  BY <1>1
<1>4. \A k \in DOMAIN stored : stored[k] \in Run
  <2> HIDE DEF Run
  <2> QED BY <1>1, SeqIs
<1>5. \A k \in DOMAIN stored : stored[k].id <= lastId
  BY <1>1, <1>4
<1>6. e.id = lastId + 1
  OBVIOUS
<1> HIDE DEF Run, e
<1>7. stored \in Seq([id : 1..lastId', target : Repo])
  BY <1>1, <1>3, SeqIs
<1>8. /\ stored' \in Seq([id : 1..lastId', target : Repo])
      /\ n \in Nat /\ DOMAIN stored = 1..n /\ DOMAIN stored' = 1..(n + 1)
      /\ \A k \in 1..n : stored'[k] = stored[k]
      /\ stored'[n + 1] = e
  BY <1>1, <1>2, <1>7
<1>9. ASSUME NEW k \in DOMAIN stored', NEW l \in DOMAIN stored', k < l
      PROVE stored'[k].id < stored'[l].id
  <2>1. CASE l = n + 1
    <3>1. k \in 1..n /\ stored'[k].id <= lastId /\ stored'[k] \in Run
      BY <1>4, <1>5, <1>8, <1>9, <2>1
    <3>2. stored'[k].id \in Int
      BY <3>1 DEF Run
    <3> QED BY <1>1, <1>6, <1>8, <2>1, <3>1, <3>2
  <2>2. CASE l # n + 1
    <3>1. k \in 1..n /\ l \in 1..n
      BY <1>8, <1>9, <2>2
    <3> QED BY <1>1, <1>8, <1>9, <3>1
  <2> QED BY <2>1, <2>2
<1>10. StoreInv'
  BY <1>1, <1>8, <1>9 DEF StoreInv
<1> QED BY <1>1, <1>8, <1>10 DEF e

LEMMA DeleteDrops ==
  ASSUME StoreInv, NEW i \in DOMAIN stored, stored' = RemoveAt(stored, i), lastId' = lastId
  PROVE /\ StoreInv'
        /\ \A k \in DOMAIN stored' : \E l \in DOMAIN stored : l # i /\ stored'[k] = stored[l]
        /\ \A l \in DOMAIN stored : l # i => \E k \in DOMAIN stored' : stored'[k] = stored[l]
<1> DEFINE Run == [id : 1..lastId, target : Repo]
           n == Len(stored)
           From(k) == IF k < i THEN k ELSE k + 1
<1>1. /\ lastId \in Nat /\ stored \in Seq(Run) /\ n \in Nat /\ DOMAIN stored = 1..n
      /\ \A k, l \in 1..n : k < l => stored[k].id < stored[l].id
  BY DEF StoreInv
<1> HIDE DEF Run
<1>2. /\ stored' \in Seq(Run) /\ DOMAIN stored' = 1..(n - 1)
      /\ \A k \in 1..(n - 1) : stored'[k] = IF k < i THEN stored[k] ELSE stored[k + 1]
  BY <1>1, RemoveAtIs, Zenon
<1>3. \A k \in 1..(n - 1) : From(k) \in 1..n /\ From(k) # i /\ stored'[k] = stored[From(k)]
  BY <1>1, <1>2
<1>4. \A k, l \in 1..(n - 1) : k < l => From(k) < From(l)
  BY <1>1
<1>5. \A l \in 1..n : l # i => \E k \in 1..(n - 1) : From(k) = l
  <2>1. SUFFICES ASSUME NEW l \in 1..n, l # i PROVE \E k \in 1..(n - 1) : From(k) = l
    OBVIOUS
  <2>2. CASE l < i
    <3>1. l \in 1..(n - 1) /\ From(l) = l
      BY <1>1, <2>1, <2>2
    <3> QED BY <3>1
  <2>3. CASE l > i
    <3>1. l - 1 \in 1..(n - 1) /\ From(l - 1) = l
      BY <1>1, <2>1, <2>3
    <3> QED BY <3>1
  <2> QED BY <1>1, <2>1, <2>2, <2>3
<1> HIDE DEF From
<1>6. \A k, l \in 1..(n - 1) : k < l => stored'[k].id < stored'[l].id
  BY <1>1, <1>3, <1>4
<1>7. StoreInv'
  BY <1>1, <1>2, <1>6 DEF StoreInv, Run
<1> QED BY <1>1, <1>2, <1>3, <1>5, <1>7

(* How a step may change the store.                                        *)
Writes == \E r \in Repo : WriteRun(r)
Drops == \E i \in DOMAIN stored : stored' = RemoveAt(stored, i) /\ lastId' = lastId
         /\ excused' = excused \cup {stored[i].target}
Leaves == UNCHANGED <<stored, lastId>>

LEMMA WorkIsListed ==
  ASSUME ListingInv, PoolInv
  PROVE /\ DOMAIN work \subseteq DOMAIN listed /\ DOMAIN work = 1..Len(work)
        /\ \A i \in DOMAIN listed : listed[i] \in Repo
        /\ DOMAIN listed = 1..Len(listed)
<1>1. listed \in Seq(Repo) /\ Len(work) <= Len(listed)
  BY DEF ListingInv, PoolInv
<1>2. DOMAIN work = 1..Len(work) /\ Len(work) \in Nat
  BY DEF PoolInv
<1> QED BY <1>1, <1>2

LEMMA StoreChanges ==
  ASSUME ListingInv, PoolInv, Next
  PROVE Writes \/ Drops \/ Leaves
<1>1. CASE Goroutine
  <2>1. PICK i \in DOMAIN work :
          ScanStores(i) \/ ScanFails(i) \/ Find(i) \/ FindFails(i) \/ Report(i) \/ ReportFails(i)
    BY <1>1 DEF Goroutine
  <2>2. CASE ScanStores(i)
    <3>1. listed[i] \in Repo
      BY WorkIsListed
    <3> QED BY <2>2, <3>1 DEF ScanStores, Writes
  <2>3. CASE ScanFails(i) \/ FindFails(i) \/ ReportFails(i)
    BY <2>3 DEF ScanFails, FindFails, ReportFails, Fails, Leaves
  <2>4. CASE Find(i)
    BY <2>4 DEF Find, Fails, Leaves
  <2>5. CASE Report(i)
    BY <2>5 DEF Report, Leaves
  <2> QED BY <2>1, <2>2, <2>3, <2>4, <2>5
<1>2. ASSUME NEW r \in Repo, OtherScan(r) PROVE Writes
  BY <1>2 DEF OtherScan, Writes
<1>3. ASSUME NEW i \in DOMAIN stored, Delete(i) PROVE Drops
  BY <1>3 DEF Delete, Drops
<1>4. Respond \/ Listed \/ LookUp \/ Spawn \/ Finish \/ PushWhileListing \/ Die \/ Restart => Leaves
  BY DEF Respond, Listed, LookUp, Spawn, Finish, PushWhileListing, Die, Restart, fleetVars, Leaves
<1> QED BY <1>1, <1>2, <1>3, <1>4 DEF Next, OrgStep

LEMMA StoreStep ==
  ASSUME ListingInv, PoolInv, StoreInv, Next
  PROVE StoreInv' /\ lastId' \in Nat /\ lastId <= lastId'
<1> lastId \in Nat
  BY DEF StoreInv
<1>1. CASE Writes
  <2>1. PICK r \in Repo : WriteRun(r)
    BY <1>1 DEF Writes
  <2>2. StoreInv' /\ lastId' = lastId + 1
    BY <2>1, WriteRunAdds
  <2> QED BY <2>2
<1>2. CASE Drops
  <2>1. PICK i \in DOMAIN stored : stored' = RemoveAt(stored, i) /\ lastId' = lastId
    BY <1>2 DEF Drops
  <2>2. StoreInv'
    BY <2>1, DeleteDrops
  <2> QED BY <2>1, <2>2
<1>3. CASE Leaves
  BY <1>3 DEF Leaves, StoreInv
<1> QED BY <1>1, <1>2, <1>3, StoreChanges


-----------------------------------------------------------------------------
(* The pool.                                                               *)

Pcs == {"idle", "scan", "find", "report", "done"}
Entry(last) == [pc : Pcs, id : 0..last, mine : 0..last]

(* One goroutine moved, to a place of its own program.                     *)
Moves(i, pc, id, mine) ==
  /\ work' \in Seq(Entry(lastId')) /\ Len(work') = Len(work) /\ DOMAIN work' = DOMAIN work
  /\ work'[i].pc = pc /\ work'[i].id = id /\ work'[i].mine = mine
  /\ \A j \in DOMAIN work : j # i => work'[j] = work[j]

LEMMA WorkIs ==
  ASSUME PoolInv
  PROVE work \in Seq(Entry(lastId))
BY DEF PoolInv, Entry, Pcs

LEMMA SetMoves ==
  ASSUME PoolInv, lastId \in Nat, lastId' \in Nat, lastId <= lastId', NEW i \in DOMAIN work,
         NEW w \in Entry(lastId'), work' = [work EXCEPT ![i] = w]
  PROVE Moves(i, w.pc, w.id, w.mine)
<1>1. work \in Seq(Entry(lastId))
  BY WorkIs
<1>2. Entry(lastId) \subseteq Entry(lastId')
  BY DEF Entry
<1>3. work \in Seq(Entry(lastId'))
  BY <1>1, <1>2, SeqIs
<1>4. /\ work' \in Seq(Entry(lastId')) /\ Len(work') = Len(work) /\ DOMAIN work' = DOMAIN work
      /\ work'[i] = w /\ \A j \in DOMAIN work : j # i => work'[j] = work[j]
  BY <1>3
<1> QED BY <1>4 DEF Moves

(* What each step of a goroutine does.                                     *)
LEMMA ScanStoresMoves ==
  ASSUME ListingInv, StoreInv, PoolInv, NEW i \in DOMAIN work, ScanStores(i)
  PROVE /\ listed[i] \in Repo /\ WriteRun(listed[i]) /\ lastId' = lastId + 1
        /\ work[i].pc = "scan" /\ Moves(i, "find", work[i].id, lastId')
<1>1. listed[i] \in Repo /\ WriteRun(listed[i]) /\ work[i].pc = "scan"
  BY WorkIsListed DEF ScanStores
<1>2. lastId \in Nat /\ lastId' = lastId + 1
  BY <1>1 DEF StoreInv, WriteRun
<1> DEFINE w == [pc |-> "find", id |-> work[i].id, mine |-> lastId']
<1>3. work' = [work EXCEPT ![i] = w]
  BY DEF ScanStores
<1>4. work[i] \in Entry(lastId)
  BY WorkIs, SeqIs
<1>5. w \in Entry(lastId') /\ w.pc = "find" /\ w.id = work[i].id /\ w.mine = lastId'
  <2>2. work[i].id \in 0..lastId' /\ lastId' \in 0..lastId' /\ "find" \in Pcs
    BY <1>2, <1>4 DEF Entry, Pcs
  <2> QED BY <2>2 DEF Entry
<1> HIDE DEF w
<1>6. Moves(i, w.pc, w.id, w.mine)
  <2>1. lastId' \in Nat /\ lastId <= lastId'
    BY <1>2
  <2> QED BY <1>2, <1>3, <1>5, <2>1, SetMoves
<1> QED BY <1>1, <1>2, <1>5, <1>6

LEMMA ReturnMoves ==
  ASSUME StoreInv, PoolInv, NEW i \in DOMAIN work, NEW result, Return(i, result),
         lastId' = lastId
  PROVE Moves(i, "done", work[i].id, work[i].mine)
<1> DEFINE w == [work[i] EXCEPT !.pc = "done"]
<1>1. work' = [work EXCEPT ![i] = w]
  BY DEF Return
<1>2. lastId \in Nat /\ work[i] \in Entry(lastId)
  BY WorkIs, SeqIs DEF StoreInv
<1>3. w \in Entry(lastId) /\ w.pc = "done" /\ w.id = work[i].id /\ w.mine = work[i].mine
  BY <1>2 DEF Entry, Pcs
<1> HIDE DEF w
<1>4. Moves(i, w.pc, w.id, w.mine)
  <2>1. lastId' \in Nat /\ lastId <= lastId' /\ w \in Entry(lastId')
    BY <1>2, <1>3
  <2> QED BY <1>1, <1>2, <2>1, SetMoves
<1> QED BY <1>3, <1>4

LEMMA FindMoves ==
  ASSUME StoreInv, PoolInv, NEW i \in DOMAIN work, Find(i), ~Fails(i)
  PROVE /\ work[i].pc = "find" /\ UNCHANGED <<stored, results, lastId>>
        /\ \E k \in LatestRunFor(listed[i]) :
             k \in DOMAIN stored /\ Moves(i, "report", stored[k].id, work[i].mine)
<1>1. PICK k \in LatestRunFor(listed[i]) :
        work' = [work EXCEPT ![i] =
                   [pc |-> "report", id |-> stored[k].id, mine |-> @.mine]]
  BY DEF Find
<1>2. work[i].pc = "find" /\ UNCHANGED <<stored, results, lastId>>
  BY DEF Find
<1>3. k \in DOMAIN stored
  BY DEF LatestRunFor, Newest
<1> DEFINE w == [pc |-> "report", id |-> stored[k].id, mine |-> work[i].mine]
<1>4. work' = [work EXCEPT ![i] = w]
  BY <1>1
<1>5. lastId \in Nat /\ work[i] \in Entry(lastId) /\ stored[k] \in [id : 1..lastId, target : Repo]
  BY <1>3, WorkIs, SeqIs DEF StoreInv
<1>6. w \in Entry(lastId) /\ w.pc = "report" /\ w.id = stored[k].id /\ w.mine = work[i].mine
  <2>2. stored[k].id \in 0..lastId /\ work[i].mine \in 0..lastId /\ "report" \in Pcs
    BY <1>5 DEF Entry, Pcs
  <2> QED BY <2>2 DEF Entry
<1> HIDE DEF w
<1>7. Moves(i, w.pc, w.id, w.mine)
  <2>1. lastId' \in Nat /\ lastId <= lastId' /\ w \in Entry(lastId')
    BY <1>2, <1>5, <1>6
  <2> QED BY <1>4, <1>5, <2>1, SetMoves
<1> QED BY <1>2, <1>3, <1>6, <1>7

LEMMA SpawnMoves ==
  ASSUME ListingInv, StoreInv, PoolInv, Spawn
  PROVE /\ org.next \in DOMAIN work
        /\ Moves(org.next, IF ~Refresh /\ listed[org.next] \in org.done THEN "find" ELSE "scan",
                 work[org.next].id, work[org.next].mine)
<1> DEFINE i == org.next
           pc == IF ~Refresh /\ listed[i] \in org.done THEN "find" ELSE "scan"
           w == [work[i] EXCEPT !.pc = pc]
<1>1. work' = [work EXCEPT ![i] = w] /\ lastId' = lastId /\ org.pc = "pool"
  BY DEF Spawn
<1>2. i \in 1..Len(listed) /\ Len(work) = Len(listed)
  BY <1>1 DEF Spawn, PoolInv
<1>3. i \in DOMAIN work
  BY <1>2, WorkIs, SeqIs
<1>4. lastId \in Nat /\ work[i] \in Entry(lastId)
  BY <1>3, WorkIs, SeqIs DEF StoreInv
<1>5. pc \in Pcs
  BY DEF Pcs
<1> HIDE DEF pc, i
<1>6. w \in Entry(lastId) /\ w.pc = pc /\ w.id = work[i].id /\ w.mine = work[i].mine
  BY <1>4, <1>5 DEF Entry
<1> HIDE DEF w
<1>7. Moves(i, w.pc, w.id, w.mine)
  <2>1. lastId' \in Nat /\ lastId <= lastId' /\ w \in Entry(lastId')
    BY <1>1, <1>4, <1>6
  <2>2. work' = [work EXCEPT ![i] = w]
    BY <1>1
  <2> QED BY <1>3, <1>4, <2>1, <2>2, SetMoves
<1> QED BY <1>3, <1>6, <1>7 DEF pc, i


Orgs == [pc : {"listing", "look", "pool", "done", "failed", "dead"},
         done : SUBSET Repo, next : Nat \ {0}]

(* The outcomes of a listing, while its goroutines run.                    *)
Outcome(res) ==
  /\ res \in Seq(Outcomes) /\ Len(res) = Len(listed)
  /\ \A i \in DOMAIN res : res[i].repo = listed[i]

LEMMA PoolHas ==
  ASSUME PoolInv
  PROVE /\ org \in Orgs
        /\ org.pc \in {"pool", "done"} =>
             /\ Outcome(results) /\ Len(work) = Len(listed) /\ DOMAIN results = DOMAIN work
             /\ asked = Nothing /\ listed # <<>>
             /\ \A i \in DOMAIN work :
                  work[i].pc = "done" => results[i].failed \/ results[i].report \in Reports
<1>1. org.pc \in {"pool", "done"} => DOMAIN results = DOMAIN work
  BY DEF PoolInv
<1> QED BY <1>1 DEF PoolInv, Orgs, Outcome

(* A goroutine that moves keeps the pool's invariant, if what it files is  *)
(* an outcome of its repository.                                           *)
LEMMA MoveKeepsPool ==
  ASSUME PoolInv, org.pc = "pool", NEW i \in DOMAIN work, NEW pc, NEW id, NEW mine,
         Moves(i, pc, id, mine), org' \in Orgs, org'.pc = "pool", UNCHANGED forgeVars,
         Outcome(results'), \A j \in DOMAIN work : j # i => results'[j] = results[j],
         pc = "done" => results'[i].failed \/ results'[i].report \in Reports
  PROVE PoolInv'
<1>1. UNCHANGED <<asked, listed>>
  BY DEF forgeVars
<1>2. /\ work' \in Seq(Entry(lastId')) /\ Len(work') = Len(listed) /\ DOMAIN work' = DOMAIN work
      /\ DOMAIN results' = DOMAIN work'
  <2>1. work' \in Seq(Entry(lastId')) /\ Len(work') = Len(listed) /\ DOMAIN work' = DOMAIN work
    BY PoolHas DEF Moves
  <2>2. DOMAIN results' = 1..Len(listed) /\ DOMAIN work' = 1..Len(listed)
    BY <2>1 DEF Outcome
  <2> QED BY <2>1, <2>2
<1>3. ASSUME NEW j \in DOMAIN results', work'[j].pc = "done"
      PROVE results'[j].failed \/ results'[j].report \in Reports
  <2>1. CASE j = i
    BY <1>3, <2>1 DEF Moves
  <2>2. CASE j # i
    <3>1. j \in DOMAIN work /\ work'[j] = work[j] /\ results'[j] = results[j]
      BY <1>2, <2>2 DEF Moves
    <3> QED BY <1>3, <3>1, PoolHas
  <2> QED BY <2>1, <2>2
<1>4. Len(work') <= Len(listed')
  BY <1>1, <1>2
<1>5. asked' = Nothing /\ listed' # <<>>
  BY <1>1, PoolHas
<1> QED BY <1>1, <1>2, <1>3, <1>4, <1>5 DEF PoolInv, Outcome, Orgs, Entry, Pcs

LEMMA FileOutcome ==
  ASSUME PoolInv, org.pc = "pool", NEW i \in DOMAIN work, NEW w \in Outcomes,
         w.repo = listed[i], results' = [results EXCEPT ![i] = w]
  PROVE /\ Outcome(results') /\ results'[i] = w
        /\ \A j \in DOMAIN work : j # i => results'[j] = results[j]
<1>1. results \in Seq(Outcomes) /\ DOMAIN results = DOMAIN work /\ Outcome(results)
  BY PoolHas DEF Outcome
<1>2. /\ results' \in Seq(Outcomes) /\ Len(results') = Len(results) /\ DOMAIN results' = DOMAIN work
      /\ results'[i] = w /\ \A j \in DOMAIN work : j # i => results'[j] = results[j]
  BY <1>1
<1> QED BY <1>1, <1>2 DEF Outcome

LEMMA FailsKeepsPool ==
  ASSUME StoreInv, PoolInv, org.pc = "pool", NEW i \in DOMAIN work, Fails(i)
  PROVE PoolInv'
<1> DEFINE w == [results[i] EXCEPT !.failed = TRUE]
<1>1. Return(i, w) /\ UNCHANGED forgeVars /\ org' = org /\ lastId' = lastId
  BY DEF Fails
<1>2. results[i] \in Outcomes /\ results[i].repo = listed[i]
  BY PoolHas, SeqIs DEF Outcome
<1>3. w \in Outcomes /\ w.repo = listed[i] /\ w.failed = TRUE
  BY <1>2 DEF Outcomes
<1>4. Moves(i, "done", work[i].id, work[i].mine)
  BY <1>1, ReturnMoves
<1>5. results' = [results EXCEPT ![i] = w]
  BY <1>1 DEF Return
<1> HIDE DEF w
<1>6. /\ Outcome(results') /\ results'[i] = w
      /\ \A j \in DOMAIN work : j # i => results'[j] = results[j]
  BY <1>3, <1>5, FileOutcome
<1>7. org' \in Orgs /\ org'.pc = "pool"
  BY <1>1, PoolHas
<1> QED BY <1>1, <1>3, <1>4, <1>6, <1>7, MoveKeepsPool

LEMMA ReportKeepsPool ==
  ASSUME StoreInv, PoolInv, org.pc = "pool", NEW i \in DOMAIN work, Report(i)
  PROVE PoolInv' /\ Moves(i, "done", work[i].id, work[i].mine)
<1>1. PICK k \in DOMAIN stored :
        Return(i, [results[i] EXCEPT !.report = ReportOf[stored[k].target]])
  BY DEF Report
<1> DEFINE w == [results[i] EXCEPT !.report = ReportOf[stored[k].target]]
<1>2. Return(i, w) /\ UNCHANGED forgeVars /\ org' = org /\ lastId' = lastId
  BY <1>1 DEF Report
<1>3. results[i] \in Outcomes /\ results[i].repo = listed[i]
  BY PoolHas, SeqIs DEF Outcome
<1>4. stored[k].target \in Repo
  <2>1. stored[k] \in [id : 1..lastId, target : Repo]
    BY SeqIs DEF StoreInv
  <2> QED BY <2>1
<1>5. ReportOf[stored[k].target] \in Reports
  BY <1>4 DEF Reports
<1>6. w \in Outcomes /\ w.repo = listed[i] /\ w.report \in Reports
  BY <1>3, <1>5 DEF Outcomes
<1>7. Moves(i, "done", work[i].id, work[i].mine)
  BY <1>2, ReturnMoves
<1>8. results' = [results EXCEPT ![i] = w]
  BY <1>2 DEF Return
<1> HIDE DEF w
<1>9. /\ Outcome(results') /\ results'[i] = w
      /\ \A j \in DOMAIN work : j # i => results'[j] = results[j]
  BY <1>6, <1>8, FileOutcome
<1>10. org' \in Orgs /\ org'.pc = "pool"
  BY <1>2, PoolHas
<1> QED BY <1>2, <1>6, <1>7, <1>9, <1>10, MoveKeepsPool

LEMMA GoroutineKeepsPool ==
  ASSUME ListingInv, StoreInv, PoolInv, Goroutine
  PROVE PoolInv'
<1>1. PICK i \in DOMAIN work :
        ScanStores(i) \/ ScanFails(i) \/ Find(i) \/ FindFails(i) \/ Report(i) \/ ReportFails(i)
  BY DEF Goroutine
<1>2. org.pc = "pool" /\ Outcome(results) /\ org \in Orgs
  BY PoolHas DEF Goroutine
<1>3. CASE ScanStores(i)
  <2>1. Moves(i, "find", work[i].id, lastId') /\ UNCHANGED <<org, results>> /\ UNCHANGED forgeVars
    BY <1>3, ScanStoresMoves DEF ScanStores
  <2>2. Outcome(results')
    BY <1>2, <2>1
  <2> QED BY <1>2, <2>1, <2>2, MoveKeepsPool
<1>4. CASE Fails(i)
  BY <1>2, <1>4, FailsKeepsPool
<1>5. CASE Find(i) /\ ~Fails(i)
  <2>1. UNCHANGED <<org, results>> /\ UNCHANGED forgeVars
    BY <1>5 DEF Find
  <2>2. PICK k \in DOMAIN stored : Moves(i, "report", stored[k].id, work[i].mine)
    BY <1>5, FindMoves
  <2>3. Outcome(results')
    BY <1>2, <2>1
  <2> QED BY <1>2, <2>1, <2>2, <2>3, MoveKeepsPool
<1>6. CASE Report(i)
  BY <1>2, <1>6, ReportKeepsPool
<1> QED BY <1>1, <1>3, <1>4, <1>5, <1>6 DEF ScanFails, FindFails, ReportFails


(* A step that leaves the pool alone keeps its invariant, whatever it does *)
(* to the store or, while there is no pool, to the listing.                *)
LEMMA StillKeepsPool ==
  ASSUME StoreInv, PoolInv, UNCHANGED <<org, work, results, doc, listed>>,
         lastId' \in Nat, lastId <= lastId', org.pc = "listing" \/ UNCHANGED asked
  PROVE PoolInv'
<1>1. work' \in Seq(Entry(lastId'))
  <2>1. Entry(lastId) \subseteq Entry(lastId')
    BY DEF StoreInv, Entry
  <2> QED BY <2>1, WorkIs, SeqIs
<1>2. org'.pc \in {"look", "pool", "done", "dead"} => asked' = Nothing /\ listed' # <<>>
  BY DEF PoolInv
<1>3. org' = org /\ work' = work /\ results' = results /\ doc' = doc /\ listed' = listed
  OBVIOUS
<1> QED BY <1>1, <1>2, <1>3 DEF PoolInv, Entry, Pcs

LEMMA ListingKeepsPool ==
  ASSUME ListingInv, StoreInv, PoolInv, Respond \/ PushWhileListing \/ Listed
  PROVE PoolInv'
<1>1. org.pc = "listing" /\ work = <<>> /\ UNCHANGED <<work, results, doc, lastId>>
  BY DEF Respond, PushWhileListing, Listed, PoolInv, fleetVars
<1>2. org' \in Orgs /\ (org' = org \/ Listed)
  <2>1. org \in Orgs
    BY PoolHas
  <2>2. CASE Respond \/ PushWhileListing
    BY <2>1, <2>2 DEF Respond, PushWhileListing, fleetVars
  <2>3. CASE Listed
    <3>1. org' = [org EXCEPT !.pc = IF listed = <<>> THEN "failed" ELSE "look"]
      BY <2>3 DEF Listed
    <3>2. CASE listed = <<>>
      <4>1. org' = [org EXCEPT !.pc = "failed"]
        BY <3>1, <3>2
      <4> QED BY <2>1, <2>3, <4>1 DEF Orgs
    <3>3. CASE listed # <<>>
      <4>1. org' = [org EXCEPT !.pc = "look"]
        BY <3>1, <3>3
      <4> QED BY <2>1, <2>3, <4>1 DEF Orgs
    <3> QED BY <3>2, <3>3
  <2> QED BY <2>2, <2>3
<1>3. /\ org'.pc \in {"listing", "look", "failed"}
      /\ org'.pc = "look" => asked' = Nothing /\ listed' # <<>>
  <2>1. CASE org' = org
    BY <1>1, <2>1
  <2>2. CASE Listed
    <3>1. org'.pc = IF listed = <<>> THEN "failed" ELSE "look"
      BY <2>2, PoolHas DEF Listed, Orgs
    <3>2. asked' = Nothing /\ listed' = listed
      BY <2>2 DEF Listed, forgeVars
    <3> QED BY <3>1, <3>2
  <2> QED BY <1>2, <2>1, <2>2
<1>4. Len(work') <= Len(listed')
  <2>1. listed' \in Seq(Repo)
    BY ListingStep DEF Next, OrgStep, ListingInv
  <2> QED BY <1>1, <2>1
<1>5. work' \in Seq(Entry(lastId'))
  BY <1>1
<1> QED BY <1>1, <1>2, <1>3, <1>4, <1>5 DEF PoolInv, Orgs, Entry, Pcs

LEMMA LookUpKeepsPool ==
  ASSUME ListingInv, StoreInv, PoolInv, LookUp
  PROVE PoolInv'
<1>1. /\ listed \in Seq(Repo) /\ DOMAIN listed = 1..Len(listed) /\ lastId \in Nat
      /\ listed # <<>> /\ asked = Nothing /\ UNCHANGED <<listed, asked, lastId>>
  BY DEF ListingInv, StoreInv, PoolInv, LookUp, forgeVars
<1>2. AlreadyScanned \subseteq Repo
  <2>1. \A k \in DOMAIN stored : stored[k] \in [id : 1..lastId, target : Repo]
    BY SeqIs DEF StoreInv
  <2> QED BY <2>1 DEF AlreadyScanned, Newest
<1>3. org' \in Orgs /\ org'.pc \in {"pool", "failed"}
  BY <1>2, PoolHas DEF LookUp, Orgs
<1>4. work' = [i \in 1..Len(listed) |-> Absent] /\ Absent \in Entry(lastId)
  BY <1>1 DEF LookUp, Absent, Entry, Pcs
<1>5. work' \in Seq(Entry(lastId')) /\ Len(work') = Len(listed) /\ DOMAIN work' = 1..Len(listed)
  BY <1>1, <1>4
<1>6. \A i \in 1..Len(listed) : work'[i].pc # "done"
  BY <1>4 DEF Absent
<1>7. results' = [i \in 1..Len(listed) |->
                    [repo |-> listed[i], failed |-> FALSE, report |-> NoReport]]
  BY <1>1 DEF LookUp
<1>8. \A i \in 1..Len(listed) :
        [repo |-> listed[i], failed |-> FALSE, report |-> NoReport] \in Outcomes
  BY <1>1 DEF Outcomes
<1>9. results' \in Seq(Outcomes) /\ Len(results') = Len(listed) /\ DOMAIN results' = 1..Len(listed)
  BY <1>1, <1>7, <1>8
<1>10. \A i \in 1..Len(listed) : results'[i].repo = listed[i]
  BY <1>7
<1>11. Len(work') <= Len(listed')
  BY <1>1, <1>5
<1> QED BY <1>1, <1>3, <1>5, <1>6, <1>9, <1>10, <1>11 DEF PoolInv, Orgs, Entry, Pcs

LEMMA SpawnKeepsPool ==
  ASSUME ListingInv, StoreInv, PoolInv, Spawn
  PROVE PoolInv'
<1> DEFINE pc == IF ~Refresh /\ listed[org.next] \in org.done THEN "find" ELSE "scan"
<1>1. org.next \in DOMAIN work /\ Moves(org.next, pc, work[org.next].id, work[org.next].mine)
  BY SpawnMoves
<1>2. /\ org.pc = "pool" /\ org' = [org EXCEPT !.next = @ + 1] /\ UNCHANGED results
      /\ UNCHANGED forgeVars
  BY DEF Spawn
<1>3. org \in Orgs /\ Outcome(results)
  BY <1>2, PoolHas
<1>4. org' \in Orgs /\ org'.pc = "pool"
  BY <1>2, <1>3 DEF Orgs
<1>5. Outcome(results') /\ pc # "done"
  BY <1>2, <1>3
<1> HIDE DEF pc
<1> QED BY <1>1, <1>2, <1>4, <1>5, MoveKeepsPool

LEMMA EndsKeepPool ==
  ASSUME ListingInv, StoreInv, PoolInv, Finish \/ Die \/ Restart
  PROVE PoolInv'
<1>1. org \in Orgs /\ lastId' = lastId
  BY PoolHas DEF Finish, Die, Restart
<1>2. CASE Finish
  <2>1. /\ org.pc = "pool" /\ org' = [org EXCEPT !.pc = "done"]
        /\ UNCHANGED <<listed, asked, work, results>> /\ doc' = BuildOrgReport(results)
        /\ \A i \in DOMAIN work : work[i].pc = "done"
    BY <1>2 DEF Finish, forgeVars
  <2>2. org' \in Orgs /\ org'.pc = "done"
    BY <1>1, <2>1 DEF Orgs
  <2>3. doc' = BuildOrgReport(results')
    BY <2>1
  <2> HIDE DEF BuildOrgReport
  <2>4. /\ Outcome(results) /\ Len(work) = Len(listed) /\ asked = Nothing /\ listed # <<>>
        /\ \A i \in DOMAIN work :
             work[i].pc = "done" => results[i].failed \/ results[i].report \in Reports
        /\ DOMAIN results = DOMAIN work
    BY <2>1, PoolHas
  <2>5. work' \in Seq(Entry(lastId')) /\ Len(work') <= Len(listed')
    BY <1>1, <2>1, WorkIs DEF PoolInv
  <2> QED BY <2>1, <2>2, <2>3, <2>4, <2>5 DEF PoolInv, Orgs, Entry, Pcs, Outcome
<1>3. CASE Die
  <2>1. /\ org.pc = "pool" /\ org' = [org EXCEPT !.pc = "dead"] /\ work' = <<>>
        /\ UNCHANGED <<listed, asked>>
    BY <1>3 DEF Die, forgeVars
  <2>2. org' \in Orgs /\ org'.pc = "dead"
    BY <1>1, <2>1 DEF Orgs
  <2>3. asked' = Nothing /\ listed' # <<>> /\ listed' \in Seq(Repo)
    BY <2>1, PoolHas DEF ListingInv
  <2>4. work' \in Seq(Entry(lastId')) /\ Len(work') <= Len(listed')
    BY <2>1, <2>3
  <2> QED BY <2>1, <2>2, <2>3, <2>4 DEF PoolInv, Orgs, Entry, Pcs
<1>4. CASE Restart
  <2>1. org.pc = "dead" /\ org' = Fresh /\ work' = work /\ listed' = <<>>
    BY <1>4 DEF Restart, Listing
  <2>2. org' \in Orgs /\ org'.pc = "listing" /\ work' = <<>>
    BY <2>1 DEF Orgs, Fresh, PoolInv
  <2>3. work' \in Seq(Entry(lastId')) /\ Len(work') <= Len(listed')
    BY <2>1, <2>2
  <2> QED BY <2>2, <2>3 DEF PoolInv, Orgs, Entry, Pcs
<1> QED BY <1>2, <1>3, <1>4

(* Every step keeps the pool's invariant.                                  *)
LEMMA PoolStep ==
  ASSUME ListingInv, StoreInv, PoolInv, Next
  PROVE PoolInv'
<1>1. lastId' \in Nat /\ lastId <= lastId'
  BY StoreStep
<1>2. ASSUME NEW r \in Repo, OtherScan(r) PROVE PoolInv'
  <2>1. UNCHANGED <<org, work, results, doc, listed>> /\ UNCHANGED asked
    BY <1>2 DEF OtherScan, forgeVars
  <2> QED BY <1>1, <2>1, StillKeepsPool
<1>3. ASSUME NEW i \in DOMAIN stored, Delete(i) PROVE PoolInv'
  <2>1. UNCHANGED <<org, work, results, doc, listed>> /\ UNCHANGED asked
    BY <1>3 DEF Delete, forgeVars
  <2> QED BY <1>1, <2>1, StillKeepsPool
<1> QED BY <1>2, <1>3, ListingKeepsPool, LookUpKeepsPool, SpawnKeepsPool, GoroutineKeepsPool,
           EndsKeepPool DEF Next, OrgStep


-----------------------------------------------------------------------------
(* The runs the goroutines know.                                           *)

OwnAt(i) ==
  /\ work[i].pc \notin {"report", "done"} => work[i].id = 0
  /\ \A k \in DOMAIN stored :
       /\ stored[k].id \in {work[i].id, work[i].mine} => stored[k].target = listed[i]
       /\ work[i].id # 0 /\ work[i].id < work[i].mine => stored[k].id # work[i].mine

LEMMA OwnIs ==
  ASSUME OwnInv, NEW i \in DOMAIN work
  PROVE OwnAt(i) /\ (org.pc = "pool" /\ org.next <= i => work[i] = Absent)
BY DEF OwnInv, OwnAt

(* latestRunFor gives the newest run of the target there is: a run that is *)
(* newer than one looked at is looked at too.                              *)
LEMMA LatestIsNewest ==
  ASSUME StoreInv, NEW t, NEW k \in LatestRunFor(t)
  PROVE /\ k \in DOMAIN stored /\ stored[k].target = t
        /\ \A j \in DOMAIN stored : stored[j].target = t => j <= k
<1>1. k \in DOMAIN stored /\ k > Len(stored) - Look /\ stored[k].target = t
      /\ \A j \in Newest : stored[j].target = t => j <= k
  BY DEF LatestRunFor, Newest
<1>2. DOMAIN stored = 1..Len(stored) /\ Len(stored) \in Nat /\ Look \in Nat
  BY FleetAssumption, SeqIs DEF StoreInv
<1>3. ASSUME NEW j \in DOMAIN stored, stored[j].target = t PROVE j <= k
  <2>1. CASE j <= k
    BY <2>1
  <2>2. CASE ~(j <= k)
    <3>1. j > Len(stored) - Look
      BY <1>1, <1>2, <2>2
    <3>2. j \in Newest
      BY <3>1 DEF Newest
    <3> QED BY <1>1, <1>3, <3>2
  <2> QED BY <2>1, <2>2
<1> QED BY <1>1, <1>3

LEMMA IdsAreNumbers ==
  ASSUME StoreInv, PoolInv
  PROVE /\ lastId \in Nat
        /\ \A k \in DOMAIN stored : stored[k].id \in 1..lastId /\ stored[k].target \in Repo
        /\ \A i \in DOMAIN work : work[i].id \in 0..lastId /\ work[i].mine \in 0..lastId
        /\ DOMAIN stored = 1..Len(stored) /\ Len(stored) \in Nat
<1>1. \A k \in DOMAIN stored : stored[k] \in [id : 1..lastId, target : Repo]
  BY SeqIs DEF StoreInv
<1>2. \A i \in DOMAIN work : work[i] \in Entry(lastId)
  BY WorkIs, SeqIs
<1> QED BY <1>1, <1>2, SeqIs DEF StoreInv, Entry

(* A run of the store after a step is one from before, or has a new id.    *)
LEMMA OldOrNew ==
  ASSUME StoreInv, Writes \/ Drops \/ Leaves
  PROVE \A k \in DOMAIN stored' :
          (\E l \in DOMAIN stored : stored'[k] = stored[l]) \/ stored'[k].id = lastId + 1
<1>1. CASE Writes
  <2>1. PICK r \in Repo : WriteRun(r)
    BY <1>1 DEF Writes
  <2>2. /\ lastId' = lastId + 1 /\ DOMAIN stored' = 1..(Len(stored) + 1)
        /\ DOMAIN stored = 1..Len(stored) /\ Len(stored) \in Nat
        /\ \A k \in DOMAIN stored : stored'[k] = stored[k]
        /\ stored'[Len(stored) + 1] = [id |-> lastId', target |-> r]
    BY <2>1, WriteRunAdds
  <2>3. stored'[Len(stored) + 1].id = lastId + 1
    BY <2>2
  <2>4. \A k \in 1..(Len(stored) + 1) : k \in 1..Len(stored) \/ k = Len(stored) + 1
    BY <2>2
  <2> QED BY <2>2, <2>3, <2>4
<1>2. CASE Drops
  BY <1>2, DeleteDrops DEF Drops
<1>3. CASE Leaves
  BY <1>3 DEF Leaves
<1> QED BY <1>1, <1>2, <1>3

(* A goroutine that keeps its ids keeps what it knows, whatever becomes of *)
(* the store.                                                              *)
LEMMA OwnStays ==
  ASSUME StoreInv, PoolInv, OwnInv, Writes \/ Drops \/ Leaves, listed' = listed,
         NEW i \in DOMAIN work, work'[i].id = work[i].id, work'[i].mine = work[i].mine,
         work'[i].pc \notin {"report", "done"} => work[i].id = 0
  PROVE OwnAt(i)'
<1>1. /\ work[i].id \in 0..lastId /\ work[i].mine \in 0..lastId /\ lastId \in Nat
  BY IdsAreNumbers
<1>2. OwnAt(i)
  BY OwnIs
<1>3. ASSUME NEW k \in DOMAIN stored'
      PROVE /\ stored'[k].id \in {work[i].id, work[i].mine} => stored'[k].target = listed[i]
            /\ work[i].id # 0 /\ work[i].id < work[i].mine => stored'[k].id # work[i].mine
  <2>1. CASE \E l \in DOMAIN stored : stored'[k] = stored[l]
    BY <1>2, <2>1 DEF OwnAt
  <2>2. CASE stored'[k].id = lastId + 1
    <3>1. lastId + 1 # work[i].id /\ lastId + 1 # work[i].mine
      BY <1>1
    <3> QED BY <2>2, <3>1
  <2> QED BY <2>1, <2>2, OldOrNew
<1> QED BY <1>3 DEF OwnAt

LEMMA GoroutineKeepsOwn ==
  ASSUME ListingInv, StoreInv, PoolInv, OwnInv, Goroutine
  PROVE OwnInv'
<1>1. PICK i \in DOMAIN work :
        ScanStores(i) \/ ScanFails(i) \/ Find(i) \/ FindFails(i) \/ Report(i) \/ ReportFails(i)
  BY DEF Goroutine
<1>2. /\ Writes \/ Drops \/ Leaves
      /\ org.pc = "pool"
  BY StoreChanges DEF Next, OrgStep, Goroutine
<1>3. org' = org /\ listed' = listed
  BY <1>1 DEF ScanStores, ScanFails, Find, FindFails, Report, ReportFails, Fails, forgeVars
(* The one that moved has started.                                         *)
<1>4. ~(org.next <= i)
  <2>1. work[i].pc # "idle"
    BY <1>1 DEF ScanStores, ScanFails, Find, FindFails, Report, ReportFails
  <2>2. Absent.pc = "idle"
    BY DEF Absent
  <2> QED BY <1>2, <2>1, <2>2, OwnIs
<1>5. ASSUME NEW pc, NEW id, NEW mine, Moves(i, pc, id, mine), OwnAt(i)' PROVE OwnInv'
  <2>1. ASSUME NEW j \in DOMAIN work'
        PROVE OwnAt(j)' /\ (org'.next <= j => work'[j] = Absent)
    <3>1. CASE j = i
      BY <1>3, <1>4, <1>5, <3>1
    <3>2. CASE j # i
      <4>1. j \in DOMAIN work /\ work'[j] = work[j]
        BY <1>5, <3>2 DEF Moves
      <4>2. OwnAt(j)'
        BY <1>2, <1>3, <4>1, OwnStays, OwnIs DEF OwnAt
      <4> QED BY <1>2, <1>3, <4>1, <4>2, OwnIs
    <3> QED BY <3>1, <3>2
  <2> QED BY <2>1 DEF OwnInv, OwnAt
<1>6. CASE ScanStores(i)
  <2>1. /\ listed[i] \in Repo /\ WriteRun(listed[i]) /\ lastId' = lastId + 1
        /\ work[i].pc = "scan" /\ Moves(i, "find", work[i].id, lastId')
    BY <1>6, ScanStoresMoves
  <2>2. /\ DOMAIN stored' = 1..(Len(stored) + 1) /\ Len(stored) \in Nat
        /\ DOMAIN stored = 1..Len(stored)
        /\ \A k \in DOMAIN stored : stored'[k] = stored[k]
        /\ stored'[Len(stored) + 1] = [id |-> lastId', target |-> listed[i]]
    BY <2>1, WriteRunAdds
  <2>3. work[i].id = 0 /\ lastId \in Nat
    BY <2>1, OwnIs, IdsAreNumbers DEF OwnAt
  <2>4. work'[i].id = 0 /\ work'[i].mine = lastId' /\ work'[i].pc = "find"
    BY <2>1, <2>3 DEF Moves
  <2>5. ASSUME NEW k \in DOMAIN stored', stored'[k].id \in {0, lastId'}
        PROVE stored'[k].target = listed[i]
    <3>1. CASE k \in DOMAIN stored
      <4>1. stored'[k].id \in 1..lastId
        BY <2>2, <3>1, IdsAreNumbers
      <4> QED BY <2>1, <2>3, <2>5, <4>1
    <3>2. CASE k \notin DOMAIN stored
      <4>1. k = Len(stored) + 1
        BY <2>2, <3>2
      <4> QED BY <2>2, <4>1
    <3> QED BY <3>1, <3>2
  <2>6. OwnAt(i)'
    BY <1>3, <2>4, <2>5 DEF OwnAt
  <2> QED BY <1>5, <2>1, <2>6
<1>7. CASE Fails(i)
  <2>1. Moves(i, "done", work[i].id, work[i].mine)
    BY <1>7, ReturnMoves DEF Fails
  <2>2. OwnAt(i)'
    <3>1. work'[i].id = work[i].id /\ work'[i].mine = work[i].mine /\ work'[i].pc = "done"
      BY <2>1 DEF Moves
    <3> QED BY <1>2, <1>3, <3>1, OwnStays
  <2> QED BY <1>5, <2>1, <2>2
<1>8. CASE Find(i) /\ ~Fails(i)
  <2>1. PICK k \in LatestRunFor(listed[i]) :
          k \in DOMAIN stored /\ Moves(i, "report", stored[k].id, work[i].mine)
    BY <1>8, FindMoves
  <2>2. stored' = stored
    BY <1>8, FindMoves
  <2>3. /\ stored[k].target = listed[i]
        /\ \A j \in DOMAIN stored : stored[j].target = listed[i] => j <= k
    BY <2>1, LatestIsNewest
  <2>4. work'[i].id = stored[k].id /\ work'[i].mine = work[i].mine /\ work'[i].pc = "report"
    BY <2>1 DEF Moves
  <2>5. ASSUME NEW l \in DOMAIN stored
        PROVE /\ stored[l].id = stored[k].id => l = k
              /\ l <= k => stored[l].id <= stored[k].id
    <3>1. l \in Nat /\ k \in Nat /\ stored[l].id \in Nat /\ stored[k].id \in Nat
      BY <2>1, IdsAreNumbers
    <3>2. /\ l < k => stored[l].id < stored[k].id
          /\ k < l => stored[k].id < stored[l].id
      BY <2>1 DEF StoreInv
    <3> QED BY <3>1, <3>2
  <2>6. ASSUME NEW l \in DOMAIN stored, stored[l].id = work[i].mine
        PROVE stored[l].target = listed[i] /\ ~(stored[k].id < work[i].mine)
    <3>1. stored[l].target = listed[i]
      BY <2>6, OwnIs DEF OwnAt
    <3>2. stored[l].id <= stored[k].id
      BY <2>3, <2>5, <3>1
    <3>3. stored[l].id \in Nat /\ stored[k].id \in Nat
      BY <2>1, IdsAreNumbers
    <3> QED BY <2>6, <3>1, <3>2, <3>3
  <2>7. OwnAt(i)'
    BY <1>3, <2>2, <2>3, <2>4, <2>5, <2>6 DEF OwnAt
  <2> QED BY <1>5, <2>1, <2>7
<1>9. CASE Report(i)
  <2>1. Moves(i, "done", work[i].id, work[i].mine)
    BY <1>2, <1>9, ReportKeepsPool
  <2>2. OwnAt(i)'
    <3>1. work'[i].id = work[i].id /\ work'[i].mine = work[i].mine /\ work'[i].pc = "done"
      BY <2>1 DEF Moves
    <3> QED BY <1>2, <1>3, <3>1, OwnStays
  <2> QED BY <1>5, <2>1, <2>2
<1> QED BY <1>1, <1>6, <1>7, <1>8, <1>9 DEF ScanFails, FindFails, ReportFails

(* Every step keeps what the goroutines know.                              *)
LEMMA OwnStep ==
  ASSUME ListingInv, StoreInv, PoolInv, OwnInv, Next
  PROVE OwnInv'
<1>1. Writes \/ Drops \/ Leaves
  BY StoreChanges
<1>2. CASE Spawn
  <2> DEFINE i == org.next
             pc == IF ~Refresh /\ listed[i] \in org.done THEN "find" ELSE "scan"
  <2>1. i \in DOMAIN work /\ Moves(i, pc, work[i].id, work[i].mine) /\ i \in Nat
    BY <1>2, SpawnMoves, PoolHas DEF Orgs
  <2>2. org.pc = "pool" /\ org'.pc = "pool" /\ org'.next = i + 1 /\ listed' = listed
    BY <1>2, PoolHas DEF Spawn, forgeVars, Orgs
  <2>3. work[i].id = 0
    <3>1. work[i] = Absent
      BY <2>1, <2>2, OwnIs
    <3> QED BY <3>1 DEF Absent
  <2> HIDE DEF pc, i
  <2>4. ASSUME NEW j \in DOMAIN work'
        PROVE OwnAt(j)' /\ (org'.next <= j => work'[j] = Absent)
    <3>1. j \in DOMAIN work /\ j \in Nat
      BY <2>1, WorkIs, SeqIs DEF Moves
    <3>2. /\ work'[j].id = work[j].id /\ work'[j].mine = work[j].mine
          /\ j # i => work'[j] = work[j]
      BY <2>1, <3>1 DEF Moves
    <3>3. work'[j].pc \notin {"report", "done"} => work[j].id = 0
      BY <2>3, <3>1, <3>2, OwnIs DEF OwnAt
    <3>4. OwnAt(j)'
      BY <1>1, <2>2, <3>1, <3>2, <3>3, OwnStays
    <3>5. org'.next <= j => i <= j /\ j # i
      BY <2>1, <2>2, <3>1
    <3> QED BY <2>2, <3>1, <3>2, <3>4, <3>5, OwnIs DEF i
  <2> QED BY <2>4 DEF OwnInv, OwnAt
<1>3. CASE LookUp
  <2>1. work' = [i \in DOMAIN listed |-> Absent]
    BY <1>3 DEF LookUp
  <2>2. stored' = stored
    BY <1>3 DEF LookUp
  <2>3. ASSUME NEW j \in DOMAIN work' PROVE work'[j] = Absent
    BY <2>1, <2>3
  <2>4. Absent.id = 0 /\ Absent.mine = 0
    BY DEF Absent
  <2>5. \A k \in DOMAIN stored : stored[k].id # 0
    BY IdsAreNumbers
  <2> QED BY <2>2, <2>3, <2>4, <2>5 DEF OwnInv
<1>4. CASE work' = <<>>
  BY <1>4 DEF OwnInv
<1>5. CASE UNCHANGED <<work, org, listed>> \/ (UNCHANGED <<work, listed>> /\ org'.pc # "pool")
  <2>1. work' = work /\ listed' = listed /\ (org'.pc = "pool" => org' = org)
    BY <1>5
  <2>2. ASSUME NEW j \in DOMAIN work'
        PROVE OwnAt(j)' /\ (org'.pc = "pool" /\ org'.next <= j => work'[j] = Absent)
    <3>1. j \in DOMAIN work /\ work'[j] = work[j]
      BY <2>1
    <3>2. OwnAt(j)'
      BY <1>1, <2>1, <3>1, OwnStays, OwnIs DEF OwnAt
    <3> QED BY <2>1, <3>1, <3>2, OwnIs
  <2> QED BY <2>2 DEF OwnInv, OwnAt
<1>6. Respond \/ PushWhileListing \/ Listed \/ Restart \/ Die => work' = <<>>
  BY DEF Respond, PushWhileListing, Listed, Restart, Die, fleetVars, PoolInv
<1>7. Finish => UNCHANGED <<work, listed>> /\ org'.pc # "pool"
  BY PoolHas DEF Finish, forgeVars, Orgs
<1>8. ASSUME NEW r, OtherScan(r) PROVE UNCHANGED <<work, org, listed>>
  BY <1>8 DEF OtherScan, forgeVars
<1>9. ASSUME NEW i, Delete(i) PROVE UNCHANGED <<work, org, listed>>
  BY <1>9 DEF Delete, forgeVars
<1> QED BY <1>2, <1>3, <1>4, <1>5, <1>6, <1>7, <1>8, <1>9, GoroutineKeepsOwn DEF Next, OrgStep


-----------------------------------------------------------------------------
(* Resuming.                                                               *)

ResumedAt(r) ==
  /\ scans[r] <= 1
  /\ scans[r] # 0 => \E k \in DOMAIN stored : stored[k].target = r
  /\ org.pc = "pool" /\ r \notin org.done /\ scans[r] # 0 =>
       \E i \in DOMAIN work : listed[i] = r /\ work[i].pc \notin {"idle", "scan"}

LEMMA ResumeIs ==
  ResumeInv <=>
    /\ scans \in [Repo -> Nat]
    /\ ~Refresh =>
         /\ org.pc \in {"look", "pool"} => Twice \subseteq excused
         /\ \A i \in DOMAIN work :
              org.pc = "pool" /\ listed[i] \in org.done => work[i].pc # "scan"
         /\ \A r \in Repo \ excused : ResumedAt(r)
BY DEF ResumeInv, ResumedAt

(* Two places of one repository: it is listed twice.                       *)
LEMMA TwoPlaces ==
  ASSUME ListingInv, NEW i \in DOMAIN listed, NEW j \in DOMAIN listed, i # j,
         listed[i] = listed[j]
  PROVE listed[i] \in Twice
<1> DEFINE P == {p \in DOMAIN listed : listed[p] = listed[i]}
<1>1. DOMAIN listed = 1..Len(listed) /\ Len(listed) \in Nat /\ listed[i] \in Repo
  BY SeqIs DEF ListingInv
<1>2. IsFiniteSet(DOMAIN listed)
  BY <1>1, FS_Interval
<1>3. IsFiniteSet(P) /\ Cardinality(P) \in Nat
  BY <1>2, FS_Subset, FS_CardinalityType
<1>4. IsFiniteSet({i}) /\ Cardinality({i}) = 1
  BY FS_Singleton
<1>5. Cardinality({i} \cup {j}) = 2
  BY <1>4, FS_AddElement
<1>6. {i} \cup {j} \in SUBSET P
  OBVIOUS
<1> HIDE DEF P
<1>7. Cardinality({i} \cup {j}) <= Cardinality(P)
  BY <1>3, <1>6, FS_Subset
<1>8. Cardinality(P) > 1
  BY <1>3, <1>5, <1>7
<1> QED BY <1>1, <1>8 DEF Twice, P

(* Only a scan of this process counts, and it stores a run.                *)
LEMMA ScanStoresResumes ==
  ASSUME ListingInv, StoreInv, PoolInv, OwnInv, ResumeInv, org.pc = "pool",
         NEW i \in DOMAIN work, ScanStores(i)
  PROVE ResumeInv'
<1> DEFINE q == listed[i]
<1>1. /\ q \in Repo /\ WriteRun(q) /\ work[i].pc = "scan"
      /\ Moves(i, "find", work[i].id, lastId')
  BY ScanStoresMoves
<1>2. /\ scans' = [scans EXCEPT ![q] = @ + 1] /\ UNCHANGED <<org, excused, listed>>
  BY DEF ScanStores, forgeVars
<1>3. scans \in [Repo -> Nat] /\ scans' \in [Repo -> Nat]
  BY <1>1, <1>2 DEF ResumeInv
<1>4. /\ DOMAIN stored' = 1..(Len(stored) + 1) /\ DOMAIN stored = 1..Len(stored)
      /\ Len(stored) \in Nat
      /\ \A k \in DOMAIN stored : stored'[k] = stored[k]
      /\ stored'[Len(stored) + 1] = [id |-> lastId', target |-> q]
  BY <1>1, WriteRunAdds
<1>5. ASSUME ~Refresh
      PROVE /\ org'.pc \in {"look", "pool"} => Twice' \subseteq excused'
            /\ \A j \in DOMAIN work' :
                 org'.pc = "pool" /\ listed'[j] \in org'.done => work'[j].pc # "scan"
            /\ \A r \in Repo \ excused' : ResumedAt(r)'
  <2>1. /\ Twice \subseteq excused /\ Twice' = Twice /\ q \notin org.done
    BY <1>1, <1>2, <1>5 DEF ResumeInv, Twice
  <2>2. ASSUME NEW j \in DOMAIN work', listed'[j] \in org'.done PROVE work'[j].pc # "scan"
    <3>1. j \in DOMAIN work /\ j # i
      BY <1>1, <1>2, <2>1, <2>2 DEF Moves
    <3>2. work'[j] = work[j]
      BY <1>1, <3>1 DEF Moves
    <3> QED BY <1>2, <1>5, <2>2, <3>1, <3>2 DEF ResumeInv
  <2>3. ASSUME NEW r \in Repo \ excused', r # q PROVE ResumedAt(r)'
    <3>1. ResumedAt(r) /\ scans'[r] = scans[r]
      BY <1>2, <1>3, <1>5, <2>3, ResumeIs
    <3>2. ASSUME NEW k \in DOMAIN stored, stored[k].target = r
          PROVE \E m \in DOMAIN stored' : stored'[m].target = r
      BY <1>4, <3>2
    <3>3. ASSUME NEW j \in DOMAIN work, listed[j] = r, work[j].pc \notin {"idle", "scan"}
          PROVE \E m \in DOMAIN work' : listed'[m] = r /\ work'[m].pc \notin {"idle", "scan"}
      <4>1. j # i
        BY <2>3, <3>3
      <4>2. j \in DOMAIN work' /\ work'[j] = work[j]
        BY <1>1, <3>3, <4>1 DEF Moves
      <4> QED BY <1>2, <3>3, <4>2
    <3> QED BY <1>2, <3>1, <3>2, <3>3 DEF ResumedAt
  <2>4. ASSUME q \notin excused PROVE ResumedAt(q)'
    <3>1. scans[q] = 0
      <4>1. SUFFICES ASSUME scans[q] # 0 PROVE FALSE
        OBVIOUS
      <4>2. PICK j \in DOMAIN work : listed[j] = q /\ work[j].pc \notin {"idle", "scan"}
        BY <1>1, <1>5, <2>1, <2>4, <4>1, ResumeIs DEF ResumedAt
      <4>3. j # i
        BY <1>1, <4>2
      <4>4. i \in DOMAIN listed /\ j \in DOMAIN listed
        BY WorkIsListed
      <4>5. q \in Twice
        BY <4>2, <4>3, <4>4, TwoPlaces
      <4> QED BY <2>1, <2>4, <4>5
    <3>2. scans'[q] = 1
      BY <1>1, <1>2, <1>3, <3>1
    <3>3. \E k \in DOMAIN stored' : stored'[k].target = q
      <4>1. Len(stored) + 1 \in DOMAIN stored'
        BY <1>4
      <4> QED BY <1>4, <4>1
    <3>4. \E j \in DOMAIN work' : listed'[j] = q /\ work'[j].pc \notin {"idle", "scan"}
      <4>1. i \in DOMAIN work' /\ work'[i].pc = "find"
        BY <1>1 DEF Moves
      <4> QED BY <1>2, <4>1
    <3> QED BY <1>2, <3>2, <3>3, <3>4 DEF ResumedAt
  <2> QED BY <1>2, <2>1, <2>2, <2>3, <2>4
<1> QED BY <1>3, <1>5 DEF ResumeInv, ResumedAt

(* A goroutine that moves without a scan leaves what was counted alone,    *)
(* and no place that is past its scan goes back.                           *)
LEMMA MoveResumes ==
  ASSUME ResumeInv, StoreInv, PoolInv, org.pc = "pool", NEW i \in DOMAIN work,
         NEW pc, NEW id, NEW mine, Moves(i, pc, id, mine),
         pc \in {"idle", "scan"} => work[i].pc = "idle",
         pc = "scan" => Refresh \/ listed[i] \notin org.done,
         UNCHANGED <<stored, scans, excused, listed>>,
         org'.pc = "pool", org'.done = org.done
  PROVE ResumeInv'
<1>1. scans' \in [Repo -> Nat]
  BY DEF ResumeInv
<1>2. ASSUME ~Refresh
      PROVE /\ Twice' \subseteq excused'
            /\ \A j \in DOMAIN work' : listed'[j] \in org'.done => work'[j].pc # "scan"
            /\ \A r \in Repo \ excused' : ResumedAt(r)'
  <2>1. Twice \subseteq excused /\ Twice' = Twice
    BY <1>2 DEF ResumeInv, Twice
  <2>2. ASSUME NEW j \in DOMAIN work', listed'[j] \in org'.done PROVE work'[j].pc # "scan"
    <3>1. CASE j = i
      BY <1>2, <2>2, <3>1 DEF Moves
    <3>2. CASE j # i
      <4>1. j \in DOMAIN work /\ work'[j] = work[j]
        BY <3>2 DEF Moves
      <4> QED BY <1>2, <2>2, <4>1 DEF ResumeInv
    <3> QED BY <3>1, <3>2
  <2>3. ASSUME NEW r \in Repo \ excused' PROVE ResumedAt(r)'
    <3>1. ResumedAt(r)
      BY <1>2, ResumeIs
    <3>2. ASSUME NEW j \in DOMAIN work, listed[j] = r, work[j].pc \notin {"idle", "scan"}
          PROVE j \in DOMAIN work' /\ listed'[j] = r /\ work'[j].pc \notin {"idle", "scan"}
      <4>1. CASE j = i
        BY <3>2, <4>1 DEF Moves
      <4>2. CASE j # i
        BY <3>2, <4>2 DEF Moves
      <4> QED BY <4>1, <4>2
    <3> QED BY <3>1, <3>2 DEF ResumedAt
  <2> QED BY <2>1, <2>2, <2>3
<1> QED BY <1>1, <1>2 DEF ResumeInv, ResumedAt


(* A step outside the pool's program: runs may be added, the excused may   *)
(* become more, and a run that is dropped excuses its repository.          *)
LEMMA StillResumes ==
  ASSUME ResumeInv, StoreInv, Writes \/ Drops \/ Leaves, UNCHANGED <<scans, listed>>,
         excused \subseteq excused',
         \/ UNCHANGED <<org, work>>
         \/ org'.pc \notin {"look", "pool"}
         \/ org'.pc = "look" /\ Twice \subseteq excused'
  PROVE ResumeInv'
<1>1. scans' \in [Repo -> Nat] /\ Twice' = Twice
  BY DEF ResumeInv, Twice
<1>2. ASSUME NEW r \in Repo \ excused', NEW k \in DOMAIN stored, stored[k].target = r
      PROVE \E m \in DOMAIN stored' : stored'[m].target = r
  <2>1. CASE Writes
    <3>1. PICK q \in Repo : WriteRun(q)
      BY <2>1 DEF Writes
    <3>2. /\ DOMAIN stored' = 1..(Len(stored) + 1) /\ DOMAIN stored = 1..Len(stored)
          /\ Len(stored) \in Nat /\ \A m \in DOMAIN stored : stored'[m] = stored[m]
      BY <3>1, WriteRunAdds
    <3>3. k \in DOMAIN stored'
      BY <3>2
    <3> QED BY <1>2, <3>2, <3>3
  <2>2. CASE Drops
    <3>1. PICK i \in DOMAIN stored :
            /\ stored' = RemoveAt(stored, i) /\ lastId' = lastId
            /\ excused' = excused \cup {stored[i].target}
      BY <2>2 DEF Drops
    <3>2. k # i
      BY <1>2, <3>1
    <3>3. \E m \in DOMAIN stored' : stored'[m] = stored[k]
      BY <3>1, <3>2, DeleteDrops
    <3> QED BY <1>2, <3>3
  <2>3. CASE Leaves
    BY <1>2, <2>3 DEF Leaves
  <2> QED BY <2>1, <2>2, <2>3
<1>3. ASSUME ~Refresh
      PROVE /\ org'.pc \in {"look", "pool"} => Twice' \subseteq excused'
            /\ \A j \in DOMAIN work' :
                 org'.pc = "pool" /\ listed'[j] \in org'.done => work'[j].pc # "scan"
            /\ \A r \in Repo \ excused' : ResumedAt(r)'
  <2>1. org'.pc \in {"look", "pool"} => Twice' \subseteq excused'
    BY <1>1, <1>3 DEF ResumeInv
  <2>2. \A j \in DOMAIN work' :
          org'.pc = "pool" /\ listed'[j] \in org'.done => work'[j].pc # "scan"
    BY <1>3 DEF ResumeInv
  <2>3. ASSUME NEW r \in Repo \ excused' PROVE ResumedAt(r)'
    <3>1. ResumedAt(r)
      BY <1>3, ResumeIs
    <3>2. org'.pc = "pool" => UNCHANGED <<org, work>>
      OBVIOUS
    <3>3. scans'[r] # 0 => \E m \in DOMAIN stored' : stored'[m].target = r
      BY <1>2, <3>1 DEF ResumedAt
    <3>4. org'.pc = "pool" /\ r \notin org'.done /\ scans'[r] # 0 =>
            \E i \in DOMAIN work' : listed'[i] = r /\ work'[i].pc \notin {"idle", "scan"}
      BY <3>1, <3>2 DEF ResumedAt
    <3> QED BY <3>1, <3>3, <3>4 DEF ResumedAt
  <2> QED BY <2>1, <2>2, <2>3
<1> QED BY <1>1, <1>3 DEF ResumeInv, ResumedAt

(* What the look finds done, or does not see and excuses, is all there is. *)
LEMMA LookUpResumes ==
  ASSUME ListingInv, StoreInv, PoolInv, ResumeInv, LookUp
  PROVE ResumeInv'
<1>1. /\ UNCHANGED <<stored, scans, listed>> /\ org.pc = "look"
      /\ excused' = excused \cup {stored[i].target : i \in DOMAIN stored \ Newest}
      /\ work' = [i \in DOMAIN listed |-> Absent]
  BY DEF LookUp, forgeVars
<1>2. org' \in Orgs /\ (org'.pc = "pool" => org'.done = AlreadyScanned)
  <2>1. org \in Orgs
    BY PoolHas
  <2>2. CASE org' = [org EXCEPT !.pc = "pool", !.done = AlreadyScanned]
    <3>1. AlreadyScanned \subseteq Repo
      BY IdsAreNumbers DEF AlreadyScanned, Newest
    <3> QED BY <2>1, <2>2, <3>1 DEF Orgs
  <2>3. CASE org' = [org EXCEPT !.pc = "failed"]
    BY <2>1, <2>3 DEF Orgs
  <2> QED BY <2>2, <2>3 DEF LookUp
<1>3. scans' \in [Repo -> Nat] /\ Twice' = Twice
  BY <1>1 DEF ResumeInv, Twice
<1>4. ASSUME ~Refresh
      PROVE /\ Twice' \subseteq excused'
            /\ \A j \in DOMAIN work' : work'[j].pc # "scan"
            /\ \A r \in Repo \ excused' : ResumedAt(r)'
  <2>1. Twice' \subseteq excused'
    BY <1>1, <1>3, <1>4 DEF ResumeInv
  <2>2. \A j \in DOMAIN work' : work'[j].pc # "scan"
    BY <1>1 DEF Absent
  <2>3. ASSUME NEW r \in Repo \ excused' PROVE ResumedAt(r)'
    <3>1. r \notin excused /\ ResumedAt(r)
      BY <1>1, <1>4, <2>3, ResumeIs
    <3>2. \A k \in DOMAIN stored : stored[k].target = r => r \in AlreadyScanned
      BY <1>1, <2>3 DEF AlreadyScanned
    <3>3. org'.pc = "pool" /\ scans'[r] # 0 => r \in org'.done
      BY <1>1, <1>2, <3>1, <3>2 DEF ResumedAt
    <3> QED BY <1>1, <3>1, <3>3 DEF ResumedAt
  <2> QED BY <2>1, <2>2, <2>3
<1> QED BY <1>3, <1>4 DEF ResumeInv, ResumedAt

LEMMA SpawnResumes ==
  ASSUME ListingInv, StoreInv, PoolInv, OwnInv, ResumeInv, Spawn
  PROVE ResumeInv'
<1> DEFINE i == org.next
           pc == IF ~Refresh /\ listed[i] \in org.done THEN "find" ELSE "scan"
<1>1. i \in DOMAIN work /\ Moves(i, pc, work[i].id, work[i].mine)
  BY SpawnMoves
<1>2. /\ org.pc = "pool" /\ UNCHANGED <<stored, scans, excused, listed>>
      /\ org' = [org EXCEPT !.next = @ + 1] /\ org \in Orgs
  BY PoolHas DEF Spawn, forgeVars
<1>3. org'.pc = "pool" /\ org'.done = org.done
  BY <1>2 DEF Orgs
<1>4. work[i].pc = "idle"
  <2>1. i <= i
    BY <1>2 DEF Orgs
  <2>2. work[i] = Absent
    BY <1>1, <1>2, <2>1, OwnIs
  <2> QED BY <2>2 DEF Absent
<1>5. Refresh \in BOOLEAN
  BY FleetAssumption
<1>6. pc = "scan" => Refresh \/ listed[i] \notin org.done
  BY <1>5
<1> HIDE DEF pc, i
<1> QED BY <1>1, <1>2, <1>3, <1>4, <1>6, MoveResumes

LEMMA GoroutineResumes ==
  ASSUME ListingInv, StoreInv, PoolInv, OwnInv, ResumeInv, Goroutine
  PROVE ResumeInv'
<1>1. PICK i \in DOMAIN work :
        ScanStores(i) \/ ScanFails(i) \/ Find(i) \/ FindFails(i) \/ Report(i) \/ ReportFails(i)
  BY DEF Goroutine
<1>2. org.pc = "pool"
  BY DEF Goroutine
<1>3. CASE ScanStores(i)
  BY <1>2, <1>3, ScanStoresResumes
<1>4. CASE Fails(i)
  <2>1. UNCHANGED <<stored, scans, excused, listed>> /\ org' = org
    BY <1>4 DEF Fails, forgeVars
  <2>2. Moves(i, "done", work[i].id, work[i].mine)
    BY <1>4, ReturnMoves DEF Fails
  <2> QED BY <1>2, <2>1, <2>2, MoveResumes
<1>5. CASE Find(i) /\ ~Fails(i)
  <2>1. UNCHANGED <<stored, scans, excused, listed>> /\ org' = org
    BY <1>5 DEF Find, forgeVars
  <2>2. PICK k \in DOMAIN stored : Moves(i, "report", stored[k].id, work[i].mine)
    BY <1>5, FindMoves
  <2> QED BY <1>2, <2>1, <2>2, MoveResumes
<1>6. CASE Report(i)
  <2>1. UNCHANGED <<stored, scans, excused, listed>> /\ org' = org
    BY <1>6 DEF Report, forgeVars
  <2>2. Moves(i, "done", work[i].id, work[i].mine)
    BY <1>2, <1>6, ReportKeepsPool
  <2> QED BY <1>2, <2>1, <2>2, MoveResumes
<1> QED BY <1>1, <1>3, <1>4, <1>5, <1>6 DEF ScanFails, FindFails, ReportFails

(* A step that is not in the pool, while there is none or after it.        *)
LEMMA AsideResumes ==
  ASSUME PoolInv, ResumeInv, UNCHANGED <<scans, excused, stored>>,
         org'.pc \notin {"look", "pool"}
  PROVE ResumeInv'
<1>1. ASSUME ~Refresh, NEW r \in Repo \ excused' PROVE ResumedAt(r)'
  BY <1>1, ResumeIs DEF ResumedAt
<1> QED BY <1>1 DEF ResumeInv, ResumedAt

(* Every step keeps what resuming rests on.                                *)
LEMMA ResumeStep ==
  ASSUME ListingInv, StoreInv, PoolInv, OwnInv, ResumeInv, Next
  PROVE ResumeInv'
<1>1. Writes \/ Drops \/ Leaves
  BY StoreChanges
<1>2. CASE Respond \/ PushWhileListing \/ Die \/ Restart \/ Finish
  <2>1. UNCHANGED <<scans, excused, stored>> /\ org \in Orgs
    BY <1>2, PoolHas DEF Respond, PushWhileListing, Die, Restart, Finish, fleetVars
  <2>2. org'.pc \notin {"look", "pool"}
    BY <1>2, <2>1 DEF Respond, PushWhileListing, Die, Restart, Finish, fleetVars, Fresh, Orgs
  <2> QED BY <2>1, <2>2, AsideResumes
<1>3. CASE Listed
  <2>1. /\ UNCHANGED <<scans, listed>> /\ excused \subseteq excused' /\ Twice \subseteq excused'
    BY <1>3 DEF Listed, forgeVars
  <2>2. org'.pc \notin {"look", "pool"} \/ org'.pc = "look"
    BY <1>3, PoolHas DEF Listed, Orgs
  <2> QED BY <1>1, <2>1, <2>2, StillResumes
<1>4. ASSUME NEW r \in Repo, OtherScan(r) PROVE ResumeInv'
  <2>1. UNCHANGED <<scans, listed>> /\ excused' = excused /\ UNCHANGED <<org, work>>
    BY <1>4 DEF OtherScan, forgeVars
  <2> QED BY <1>1, <2>1, StillResumes
<1>5. ASSUME NEW i \in DOMAIN stored, Delete(i) PROVE ResumeInv'
  <2>1. UNCHANGED <<scans, listed>> /\ excused \subseteq excused' /\ UNCHANGED <<org, work>>
    BY <1>5 DEF Delete, forgeVars
  <2> QED BY <1>1, <2>1, StillResumes
<1> QED BY <1>2, <1>3, <1>4, <1>5, LookUpResumes, SpawnResumes, GoroutineResumes
        DEF Next, OrgStep


-----------------------------------------------------------------------------
(* The document.                                                           *)

LEMMA InOrderIs ==
  ASSUME NEW S \in SUBSET Nat, IsFiniteSet(S)
  PROVE /\ \A k \in 1..Cardinality(S) : InOrder(S)[k] \in S
        /\ \A j \in S : \E k \in 1..Cardinality(S) : InOrder(S)[k] = j
<1> DEFINE R == {e \in S \X S : e[1] < e[2]}
<1>1. \A i, j \in S : <<i, j>> \in R <=> i < j
  OBVIOUS
<1>2. InOrder(S) = Sorted(S, R)
  BY DEF InOrder
<1> HIDE DEF R
<1>3. \A i, j, k \in S : /\ ~(i < i) /\ (i < j /\ j < k => i < k)
                         /\ (i # j => i < j \/ j < i)
  OBVIOUS
<1>4. \A i \in S : <<i, i>> \notin R
  BY <1>1, <1>3
<1>5. \A i, j, k \in S : <<i, j>> \in R /\ <<j, k>> \in R => <<i, k>> \in R
  BY <1>1, <1>3
<1>6. \A i, j \in S : i # j => <<i, j>> \in R \/ <<j, i>> \in R
  BY <1>1, <1>3
<1>7. /\ Cardinality(S) \in Nat /\ DOMAIN Sorted(S, R) = 1..Cardinality(S)
      /\ \A k \in 1..Cardinality(S) : Sorted(S, R)[k] \in S
      /\ \A j \in S : \E k \in 1..Cardinality(S) : Sorted(S, R)[k] = j
      /\ \A k, l \in 1..Cardinality(S) :
           k < l => <<Sorted(S, R)[k], Sorted(S, R)[l]>> \in R
  BY <1>4, <1>5, <1>6, SortedIs, Zenon
<1> QED BY <1>2, <1>7, Zenon

Countable(a) == a.malicious \in Nat /\ a.critical \in Nat /\ a.score \in Nat

LEMMA WorseIs ==
  ASSUME NEW a, NEW b, Countable(a), Countable(b), NEW i \in Nat, NEW j \in Nat
  PROVE Worse(a, b, i, j) <=>
          \/ a.malicious > b.malicious
          \/ a.malicious = b.malicious /\ a.critical > b.critical
          \/ a.malicious = b.malicious /\ a.critical = b.critical /\ a.score > b.score
          \/ /\ a.malicious = b.malicious /\ a.critical = b.critical /\ a.score = b.score
             /\ i < j
<1>1. CASE a.malicious # b.malicious
  BY <1>1 DEF Worse, Countable
<1>2. CASE a.malicious = b.malicious /\ a.critical # b.critical
  BY <1>2 DEF Worse, Countable
<1>3. CASE a.malicious = b.malicious /\ a.critical = b.critical /\ a.score # b.score
  BY <1>3 DEF Worse, Countable
<1>4. CASE a.malicious = b.malicious /\ a.critical = b.critical /\ a.score = b.score
  BY <1>4 DEF Worse, Countable
<1> QED BY <1>1, <1>2, <1>3, <1>4

LEMMA WorstFirstIs ==
  ASSUME NEW S \in SUBSET Nat, IsFiniteSet(S), NEW p, \A i \in S : Countable(p[i])
  PROVE /\ \A k \in 1..Cardinality(S) : WorstFirst(S, p)[k] \in S
        /\ \A j \in S : \E k \in 1..Cardinality(S) : WorstFirst(S, p)[k] = j
<1> DEFINE R == {e \in S \X S : Worse(p[e[1]], p[e[2]], e[1], e[2])}
<1>1. \A i, j \in S : <<i, j>> \in R <=> Worse(p[i], p[j], i, j)
  OBVIOUS
<1>2. WorstFirst(S, p) = Sorted(S, R)
  BY DEF WorstFirst
<1> HIDE DEF R
<1>3. \A i \in S : i \in Nat /\ Countable(p[i])
  OBVIOUS
<1>4. ASSUME NEW i \in S PROVE <<i, i>> \notin R
  <2>1. ~Worse(p[i], p[i], i, i)
    BY <1>3, WorseIs DEF Countable
  <2> QED BY <1>1, <2>1
<1>5. ASSUME NEW i \in S, NEW j \in S, NEW k \in S, <<i, j>> \in R, <<j, k>> \in R
      PROVE <<i, k>> \in R
  <2>1. Worse(p[i], p[j], i, j) /\ Worse(p[j], p[k], j, k)
    BY <1>1, <1>5
  <2> DEFINE a == p[i]
             b == p[j]
             c == p[k]
  <2>2. /\ Countable(a) /\ Countable(b) /\ Countable(c)
        /\ Worse(a, b, i, j) /\ Worse(b, c, j, k) /\ i \in Nat /\ j \in Nat /\ k \in Nat
    BY <1>3, <2>1
  <2> HIDE DEF a, b, c
  <2>3. Worse(a, c, i, k)
    BY <2>2, WorseIs DEF Countable
  <2> QED BY <1>1, <2>3 DEF a, c
<1>6. ASSUME NEW i \in S, NEW j \in S, i # j PROVE <<i, j>> \in R \/ <<j, i>> \in R
  <2> DEFINE a == p[i]
             b == p[j]
  <2>1. Countable(a) /\ Countable(b) /\ i \in Nat /\ j \in Nat
    BY <1>3
  <2> HIDE DEF a, b
  <2>2. Worse(a, b, i, j) \/ Worse(b, a, j, i)
    BY <1>6, <2>1, WorseIs DEF Countable
  <2> QED BY <1>1, <2>2 DEF a, b
<1>7. /\ Cardinality(S) \in Nat /\ DOMAIN Sorted(S, R) = 1..Cardinality(S)
      /\ \A k \in 1..Cardinality(S) : Sorted(S, R)[k] \in S
      /\ \A j \in S : \E k \in 1..Cardinality(S) : Sorted(S, R)[k] = j
      /\ \A k, l \in 1..Cardinality(S) :
           k < l => <<Sorted(S, R)[k], Sorted(S, R)[l]>> \in R
  BY <1>4, <1>5, <1>6, SortedIs, Zenon
<1> QED BY <1>2, <1>7, Zenon


(* The places of the listing that failed, and those that have a report.    *)
Bad(res) == {i \in DOMAIN res : Failed(res[i])}
Good(res) == DOMAIN res \ Bad(res)
ReportAt(res) == [i \in Good(res) |-> res[i].report]
Graded(res) == {i \in Good(res) : ~ReportAt(res)[i].suppressed}
Empty(res) == {i \in Good(res) : ReportAt(res)[i].suppressed /\ ReportAt(res)[i].surface = 0}

(* The part of the document that names and counts the repositories.        *)
LEMMA DocumentIs ==
  ASSUME NEW res
  PROVE LET d == BuildOrgReport(res) IN
        /\ d.total = Len(res) /\ d.failed = Cardinality(Bad(res))
        /\ d.scanned = Cardinality(Good(res)) /\ d.graded = Cardinality(Graded(res))
        /\ d.ungraded = Cardinality(Good(res) \ Graded(res))
        /\ d.empty = Cardinality(Empty(res))
        /\ d.repos = [k \in 1..Cardinality(Good(res)) |->
                        Row(res[WorstFirst(Good(res), ReportAt(res))[k]])]
        /\ d.failures = [k \in 1..Cardinality(Bad(res)) |-> res[InOrder(Bad(res))[k]].repo]
BY DEF BuildOrgReport, Bad, Good, ReportAt, Graded, Empty


(* A part taken out of a finite set leaves the difference of the counts.   *)
LEMMA WithoutCounts ==
  ASSUME NEW S, NEW T \in SUBSET S, IsFiniteSet(S)
  PROVE IsFiniteSet(S \ T) /\ Cardinality(S \ T) = Cardinality(S) - Cardinality(T)
<1>1. S \cap T = T
  OBVIOUS
<1>2. IsFiniteSet(S \ T) /\ Cardinality(S \ T) = Cardinality(S) - Cardinality(S \cap T)
  BY FS_Difference
<1> QED BY <1>1, <1>2

(* The outcomes are told apart and counted without loss.                   *)
LEMMA DocumentCounts ==
  ASSUME NEW res \in Seq(Outcomes)
  PROVE LET d == BuildOrgReport(res) IN
        /\ d.total = Len(res) /\ d.total = d.scanned + d.failed
        /\ d.scanned = d.graded + d.ungraded /\ d.empty <= d.ungraded
<1> DEFINE n == Len(res)
<1>1. n \in Nat /\ DOMAIN res = 1..n
  BY SeqIs
<1>2. IsFiniteSet(DOMAIN res) /\ Cardinality(DOMAIN res) = n
  BY <1>1, FS_Interval
<1> HIDE DEF n
<1>3. Bad(res) \in SUBSET (DOMAIN res) /\ Graded(res) \in SUBSET Good(res)
  BY DEF Bad, Graded
<1>4. IsFiniteSet(Bad(res)) /\ Cardinality(Bad(res)) \in Nat
  BY <1>2, <1>3, FS_Subset, FS_CardinalityType
<1>5. /\ IsFiniteSet(Good(res)) /\ Cardinality(Good(res)) \in Nat
      /\ Cardinality(Good(res)) = n - Cardinality(Bad(res))
  <2>1. (DOMAIN res) \cap Bad(res) = Bad(res)
    BY <1>3
  <2>2. IsFiniteSet(Good(res)) /\ Cardinality(Good(res)) = n - Cardinality(Bad(res))
    BY <1>2, <2>1, FS_Difference DEF Good
  <2> QED BY <2>2, FS_CardinalityType
<1>6. IsFiniteSet(Graded(res)) /\ Cardinality(Graded(res)) \in Nat
  BY <1>3, <1>5, FS_Subset, FS_CardinalityType
<1> DEFINE rest == Good(res) \ Graded(res)
<1>7. /\ IsFiniteSet(rest) /\ Cardinality(rest) \in Nat
      /\ Cardinality(rest) = Cardinality(Good(res)) - Cardinality(Graded(res))
  <2>2. IsFiniteSet(rest) /\ Cardinality(rest) = Cardinality(Good(res)) - Cardinality(Graded(res))
    BY <1>3, <1>5, WithoutCounts
  <2> HIDE DEF rest
  <2> QED BY <2>2, FS_CardinalityType
<1>8. Cardinality(Empty(res)) <= Cardinality(rest)
  <2>1. Empty(res) \in SUBSET rest
    BY DEF Empty, Graded
  <2> HIDE DEF rest
  <2> QED BY <1>7, <2>1, FS_Subset
<1>9. LET d == BuildOrgReport(res) IN
        /\ d.total = n /\ d.failed = Cardinality(Bad(res))
        /\ d.scanned = Cardinality(Good(res)) /\ d.graded = Cardinality(Graded(res))
        /\ d.ungraded = Cardinality(rest) /\ d.empty = Cardinality(Empty(res))
  BY DocumentIs DEF n
<1> HIDE DEF rest
<1>10. n = Cardinality(Good(res)) + Cardinality(Bad(res))
       /\ Cardinality(Good(res)) = Cardinality(Graded(res)) + Cardinality(rest)
  BY <1>1, <1>4, <1>5, <1>6, <1>7
<1> QED BY <1>8, <1>9, <1>10 DEF n

(* Every repository of the outcomes is named, in a row or as a failure,    *)
(* and no other.                                                           *)
LEMMA DocumentNames ==
  ASSUME NEW res \in Seq(Outcomes),
         \A i \in DOMAIN res : res[i].failed \/ res[i].report \in Reports
  PROVE LET d == BuildOrgReport(res) IN
        /\ d.scanned = Len(d.repos)
        /\ {d.repos[k].repo : k \in DOMAIN d.repos} \cup Range(d.failures)
             = {res[i].repo : i \in DOMAIN res}
<1> DEFINE bad == Bad(res)
           good == Good(res)
           worst == WorstFirst(good, ReportAt(res))
           order == InOrder(bad)
           repos == [k \in 1..Cardinality(good) |-> Row(res[worst[k]])]
           failures == [k \in 1..Cardinality(bad) |-> res[order[k]].repo]
<1>1. Len(res) \in Nat /\ DOMAIN res = 1..Len(res)
  BY SeqIs
<1>2. IsFiniteSet(DOMAIN res)
  BY <1>1, FS_Interval
<1>3. /\ bad \in SUBSET Nat /\ good \in SUBSET Nat /\ bad \cup good = DOMAIN res
      /\ bad \in SUBSET (DOMAIN res) /\ good \in SUBSET (DOMAIN res)
  BY <1>1 DEF Bad, Good
<1>4. IsFiniteSet(bad) /\ IsFiniteSet(good)
  BY <1>2, <1>3, FS_Subset
<1>5. \A i \in good : Countable(ReportAt(res)[i])
  <2>1. \A r \in Reports : Countable(r)
    BY FleetAssumption DEF Reports, Countable
  <2>2. \A i \in good : ReportAt(res)[i] = res[i].report
    BY DEF ReportAt
  <2>3. \A i \in good : res[i].report \in Reports
    BY DEF Good, Bad, Failed
  <2> QED BY <2>1, <2>2, <2>3
<1>6. \A i : Row(res[i]).repo = res[i].repo
  BY DEF Row
<1>7. BuildOrgReport(res).repos = repos /\ BuildOrgReport(res).failures = failures
      /\ BuildOrgReport(res).scanned = Cardinality(good)
  BY DocumentIs
<1>8. /\ \A k \in 1..Cardinality(good) : worst[k] \in good
      /\ \A j \in good : \E k \in 1..Cardinality(good) : worst[k] = j
  <2> HIDE DEF good
  <2> QED BY <1>3, <1>4, <1>5, WorstFirstIs
<1>9. /\ \A k \in 1..Cardinality(bad) : order[k] \in bad
      /\ \A j \in bad : \E k \in 1..Cardinality(bad) : order[k] = j
  <2> HIDE DEF bad
  <2> QED BY <1>3, <1>4, InOrderIs
<1>10. Cardinality(good) \in Nat
  BY <1>4, FS_CardinalityType
<1> HIDE DEF good, bad, worst, order
<1>11. Len(repos) = Cardinality(good)
  BY <1>10
<1>12. /\ DOMAIN repos = 1..Cardinality(good)
       /\ \A k \in 1..Cardinality(good) : repos[k].repo = res[worst[k]].repo
  BY <1>6
<1>13. {repos[k].repo : k \in DOMAIN repos} = {res[i].repo : i \in good}
  <2>1. {repos[k].repo : k \in DOMAIN repos} = {res[worst[k]].repo : k \in 1..Cardinality(good)}
    BY <1>12
  <2>2. {res[worst[k]].repo : k \in 1..Cardinality(good)} = {res[i].repo : i \in good}
    BY <1>8
  <2> QED BY <2>1, <2>2
<1>14. Range(failures) = {res[i].repo : i \in bad}
  <2>1. Range(failures) = {res[order[k]].repo : k \in 1..Cardinality(bad)}
    BY DEF Range
  <2>2. {res[order[k]].repo : k \in 1..Cardinality(bad)} = {res[i].repo : i \in bad}
    BY <1>9
  <2> QED BY <2>1, <2>2
<1> HIDE DEF repos, failures
<1>15. {repos[k].repo : k \in DOMAIN repos} \cup Range(failures) = {res[i].repo : i \in DOMAIN res}
  BY <1>3, <1>13, <1>14
<1> QED BY <1>7, <1>11, <1>15

-----------------------------------------------------------------------------
(* The theorems.                                                           *)

LEMMA InitFleetInv == Init => FleetInv
<1> SUFFICES ASSUME Init PROVE FleetInv
  OBVIOUS
<1>1. ListingInv
  BY HostStarts, ListingStarts DEF Init
<1>2. lastId = 0 /\ stored = <<>> /\ work = <<>> /\ org = Fresh /\ scans = [r \in Repo |-> 0]
      /\ listed = <<>>
  BY DEF Init
<1>3. StoreInv
  BY <1>2 DEF StoreInv
<1>4. org \in Orgs /\ org.pc = "listing"
  BY <1>2 DEF Orgs, Fresh
<1>5. work \in Seq(Entry(lastId)) /\ Len(work) <= Len(listed)
  BY <1>2
<1>6. PoolInv
  BY <1>2, <1>4, <1>5 DEF PoolInv, Orgs, Entry, Pcs
<1>7. OwnInv
  BY <1>2 DEF OwnInv
<1>8. ResumeInv
  BY <1>2, <1>4 DEF ResumeInv
<1> QED BY <1>1, <1>3, <1>6, <1>7, <1>8 DEF FleetInv

LEMMA NextFleetInv == FleetInv /\ [Next]_vars => FleetInv'
<1> SUFFICES ASSUME FleetInv, [Next]_vars PROVE FleetInv'
  OBVIOUS
<1>1. ListingInv /\ StoreInv /\ PoolInv /\ OwnInv /\ ResumeInv
  BY DEF FleetInv
<1>2. CASE Next
  BY <1>1, <1>2, ListingStep, StoreStep, PoolStep, OwnStep, ResumeStep DEF FleetInv
<1>3. CASE UNCHANGED vars
  <2>1. UNCHANGED forgeVars /\ UNCHANGED fleetVars
    BY <1>3 DEF vars
  <2>2. ListingInv'
    BY <1>1, <2>1, ListingUnchanged
  <2>3. StoreInv'
    BY <1>1, <2>1 DEF StoreInv, fleetVars
  <2>4. PoolInv'
    <3>1. UNCHANGED <<org, work, results, doc, listed, asked, lastId>>
      BY <2>1 DEF fleetVars, forgeVars
    <3>2. lastId' \in Nat /\ lastId <= lastId'
      BY <1>1, <3>1 DEF StoreInv
    <3> QED BY <1>1, <3>1, <3>2, StillKeepsPool
  <2>5. OwnInv'
    BY <1>1, <2>1 DEF OwnInv, fleetVars, forgeVars
  <2>6. ResumeInv'
    <3>1. UNCHANGED <<scans, listed>> /\ Leaves /\ UNCHANGED <<org, work>> /\ excused' = excused
      BY <2>1 DEF Leaves, fleetVars, forgeVars
    <3> QED BY <1>1, <3>1, StillResumes
  <2> QED BY <2>2, <2>3, <2>4, <2>5, <2>6 DEF FleetInv
<1> QED BY <1>2, <1>3

(* The inductive invariant of an organisation scan: the pages read hold    *)
(* nothing that is owed, ids rise, and a goroutine's ids are of its own    *)
(* repository.                                                             *)
THEOREM FleetInvariant == FleetSpec => []FleetInv
BY InitFleetInv, NextFleetInv, PTL DEF FleetSpec

(* A row of the fleet's document reports a run of its own repository, and  *)
(* after a scan that scan or a later one, unless it was deleted in         *)
(* between: however many goroutines and other processes write one store.   *)
THEOREM RowsReportTheirOwn == FleetSpec => []OwnReport
<1>1. FleetInv => OwnReport
  BY DEF FleetInv, OwnInv, OwnReport, Reported
<1> QED BY <1>1, FleetInvariant, PTL

(* "It is RESUMABLE": however often the process is killed and started      *)
(* again, a repository is scanned once, unless its run was deleted, the    *)
(* list named it twice, or its run was older than the look.                *)
THEOREM ResumeScansOnce == FleetSpec => []ResumeDoesNotRepeat
<1>1. FleetInv => ResumeDoesNotRepeat
  BY DEF FleetInv, ResumeInv, ResumeDoesNotRepeat
<1> QED BY <1>1, FleetInvariant, PTL

LEMMA CountedInv == FleetInv => EveryRepositoryIsCounted
<1> SUFFICES ASSUME FleetInv, org.pc = "done"
             PROVE  /\ \/ Cut
                       \/ \A r \in Repo \ pushed : Wanted(r) => r \in Names
                    /\ Names = Range(listed)
                    /\ doc.total = Len(listed) /\ doc.total = doc.scanned + doc.failed
                    /\ doc.scanned = doc.graded + doc.ungraded /\ doc.scanned = Len(doc.repos)
                    /\ doc.empty <= doc.ungraded
  BY DEF EveryRepositoryIsCounted
<1>1. ListingInv /\ PoolInv
  BY DEF FleetInv
<1>2. /\ Outcome(results) /\ DOMAIN results = DOMAIN work
      /\ asked = Nothing /\ listed # <<>>
      /\ \A i \in DOMAIN work :
           work[i].pc = "done" => results[i].failed \/ results[i].report \in Reports
  BY <1>1, PoolHas
<1>3. doc = BuildOrgReport(results) /\ \A i \in DOMAIN work : work[i].pc = "done"
  BY <1>1 DEF PoolInv
<1>4. /\ results \in Seq(Outcomes) /\ Len(results) = Len(listed)
      /\ \A i \in DOMAIN results : results[i].repo = listed[i]
      /\ \A i \in DOMAIN results : results[i].failed \/ results[i].report \in Reports
  BY <1>2, <1>3 DEF Outcome
<1>5. /\ doc.total = Len(listed) /\ doc.total = doc.scanned + doc.failed
      /\ doc.scanned = doc.graded + doc.ungraded /\ doc.empty <= doc.ungraded
  BY <1>3, <1>4, DocumentCounts
<1>6. doc.scanned = Len(doc.repos) /\ Names = {results[i].repo : i \in DOMAIN results}
  BY <1>3, <1>4, DocumentNames DEF Names
<1>7. {results[i].repo : i \in DOMAIN results} = Range(listed)
  <2>1. DOMAIN results = DOMAIN listed
    BY <1>1, <1>4 DEF ListingInv
  <2>2. {results[i].repo : i \in DOMAIN results} = {listed[i] : i \in DOMAIN listed}
    BY <1>4, <2>1
  <2> QED BY <2>2 DEF Range
<1>8. Cut \/ Missing = {}
  BY <1>1, <1>2 DEF ListingInv
<1>9. Missing = {} => \A r \in Repo \ pushed : Wanted(r) => r \in Range(listed)
  BY DEF Missing, Wantable
<1> QED BY <1>5, <1>6, <1>7, <1>8, <1>9

(* "A failure is REPORTED, never dropped": when the document is there,     *)
(* every repository that was asked for, and was not itself pushed to while *)
(* the pages were read, is named in it, and its counts add up, unless the  *)
(* limit or the last page that is asked for cut the list.                  *)
THEOREM NothingIsDropped == FleetSpec => []EveryRepositoryIsCounted
BY CountedInv, FleetInvariant, PTL
==============================================================================
