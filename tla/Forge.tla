-------------------------------- MODULE Forge --------------------------------
(***************************************************************************)
(* internal/forge: the repositories of an owner, listed page by page while *)
(* the code host goes on receiving pushes.  The list is sorted by latest   *)
(* push, so a push moves a repository to the front between two pages.      *)
(***************************************************************************)
EXTENDS Integers, Sequences, FiniteSets, SequencesExt, Lists

CONSTANTS
  Repo,                  \* the repositories the host holds for the owner
  Fork, Archived,        \* what is excluded unless asked for
  Public,                \* what the user endpoint shows of an organisation
  IsOrg,                 \* the owner is an organisation, and not a user
  WithForks, WithArchived, Limit,  \* Options; Limit = 0 is no limit
  PerPage, MaxPages      \* 100 and 20 in the code

ASSUME ForgeAssumption ==
  /\ IsFiniteSet(Repo) /\ Fork \cup Archived \cup Public \subseteq Repo
  /\ {IsOrg, WithForks, WithArchived} \subseteq BOOLEAN
  /\ Limit \in Nat /\ PerPage \in Nat \ {0} /\ MaxPages \in Nat \ {0}

VARIABLES
  hosted,  \* the repositories by latest push, newest first
  asked,   \* the request to send next: an endpoint and a page, or "none"
  listed,  \* what list has collected
  pushed   \* history: the repositories pushed to since the listing began

forgeVars == <<hosted, asked, listed, pushed>>

(* A response as decodePage tells them apart.                              *)
Responses == [status : {200, 403, 404, 429, 500},
              saml : BOOLEAN, exhausted : BOOLEAN, garbled : BOOLEAN]

(* decodePage: what a response means.  A 403 is three different problems.  *)
DecodePage(r) ==
  CASE r.status \in {403, 429} ->
         IF r.saml THEN "saml" ELSE IF r.exhausted THEN "rate limit" ELSE "refused"
    [] r.status = 404 -> "no such owner"
    [] r.status = 500 -> "status"
    [] OTHER -> IF r.garbled THEN "garbled" ELSE "page"

Wanted(r) == (r \in Fork => WithForks) /\ (r \in Archived => WithArchived)

(* What the host answers at an endpoint: the organisation's repositories,  *)
(* or those a user page shows.                                             *)
Served(path) ==
  IF path = "orgs" THEN (IF IsOrg THEN hosted ELSE <<>>)
  ELSE IF IsOrg THEN Kept(hosted, Public) ELSE hosted

Page(path, n) ==
  SubSeq(Served(path), (n - 1) * PerPage + 1,
         IF n * PerPage < Len(Served(path)) THEN n * PerPage ELSE Len(Served(path)))

(* A short page is the last page, and so is the twentieth.                 *)
LastPage(batch, n) == n = MaxPages \/ Len(batch) < PerPage

Full(out) == Limit > 0 /\ Len(out) >= Limit

Nothing == [path |-> "none", page |-> 0]

(* A listing that begins now, over whatever order the host has.            *)
Listing ==
  /\ asked' = [path |-> "orgs", page |-> 1] /\ listed' = <<>> /\ pushed' = {}
  /\ UNCHANGED hosted

(* list: one page that could be read.  TRUE when the list ends with it.    *)
ReadPage ==
  LET batch == Page(asked.path, asked.page)
      out   == listed \o Kept(batch, {r \in Repo : Wanted(r)})
      ends  == Full(out) \/ LastPage(batch, asked.page) IN
  /\ listed' = IF Full(out) THEN SubSeq(out, 1, Limit) ELSE out
  /\ asked' = CASE ~ends -> [asked EXCEPT !.page = @ + 1]
                [] ends /\ listed' = <<>> /\ asked.path = "orgs" ->
                     [path |-> "users", page |-> 1]
                [] OTHER -> Nothing
  /\ UNCHANGED <<hosted, pushed>>

(* Mutant: any failure of the first endpoint is answered by the second.    *)
Refused_FallBack(why) ==
  /\ listed' = <<>>
  /\ asked' = IF asked.path = "orgs" THEN [path |-> "users", page |-> 1] ELSE Nothing
  /\ UNCHANGED <<hosted, pushed>>

(* Org: an error discards the pages read so far, and only "no such owner"  *)
(* leads to the user endpoint.                                             *)
Refused(why) ==
  /\ listed' = <<>>
  /\ asked' = IF why = "no such owner" /\ asked.path = "orgs"
                THEN [path |-> "users", page |-> 1] ELSE Nothing
  /\ UNCHANGED <<hosted, pushed>>

(* The host: 404 for an owner of the other kind, otherwise a page or any   *)
(* refusal.                                                                *)
Possible(r) ==
  LET here == asked.path = "users" \/ IsOrg IN
  /\ (r.status = 404) = ~here
  /\ r.status \notin {403, 429} => ~r.saml /\ ~r.exhausted
  /\ r.status # 200 => ~r.garbled

(* Somebody pushes: the repository comes to the front.                     *)
Push(r) ==
  /\ asked # Nothing
  /\ \E k \in DOMAIN hosted : hosted[k] = r /\ hosted' = <<r>> \o RemoveAt(hosted, k)
  /\ pushed' = pushed \cup {r}
  /\ UNCHANGED <<asked, listed>>
==============================================================================
