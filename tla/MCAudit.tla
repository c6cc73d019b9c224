------------------------------- MODULE MCAudit -------------------------------
(* Four packages, of which deps.dev indexes two, and an action, for TLC.   *)
EXTENDS Audit, TLC

N(type, name, version) == [type |-> type, name |-> name, version |-> version]
crate    == N("cargo", <<"left">>, <<"1">>)
os       == N("deb", <<"libc">>, <<"1">>)
checkout == N("github", <<"owner", "action">>, <<"v", "4">>)
pkg      == N("npm", <<"pad">>, <<"1">>)
provider == N("terraform", <<"corp", "aws">>, <<"5">>)
workflow == N("buildfile", <<"workflow">>, <<>>)
step     == N("generic", <<"step">>, <<>>)
MCNodeOrder == <<crate, os, checkout, pkg, provider>>

MCIdOrder == <<"CVE-1", "GHSA-1", "GHSA-2", "GHSA-3", "GHSA-4", "MAL-1", "MAL-2">>
Adv(id, severity, published, withdrawn, aliases) ==
  [id |-> id, severity |-> severity, summary |-> TRUE, published |-> published,
   withdrawn |-> withdrawn, aliases |-> aliases]
MCRecord ==
  [id \in Range(MCIdOrder) |->
     CASE id = "CVE-1"  -> Adv(id, "", 1, 0, <<"GHSA-1", "MAL-1">>)
       [] id = "GHSA-1" -> Adv(id, "HIGH", 1, 0, <<"MAL-1", "CVE-1">>)
       [] id = "MAL-1"  -> Adv(id, "", 1, 0, <<"CVE-1", "GHSA-1">>)
       [] id = "GHSA-2" -> Adv(id, "MODERATE", 1, 2, <<>>)
       [] id = "GHSA-3" -> Adv(id, "CRITICAL", 2, 0, <<>>)
       [] id = "GHSA-4" -> Adv(id, "HIGH", 0, 0, <<>>)
       [] id = "MAL-2"  -> Adv(id, "", 2, 0, <<>>)]

F(id, ecosystem, name, versions) ==
  [id |-> id, ecosystem |-> ecosystem, name |-> name, versions |-> versions]
MCFiled ==
  {F(id, "npm", <<"pad">>, {<<"1">>}) : id \in {"CVE-1", "GHSA-1", "MAL-1"}} \cup
  {F("GHSA-2", "cargo", <<"left">>, {<<"1">>}), F("GHSA-2", "deb", <<"libc">>, {<<"1">>}),
   F("GHSA-3", "golang", <<"github.com", "corp", "terraform-provider", "aws">>, {<<"v", "5">>}),
   F("GHSA-4", "GitHub Actions", <<"owner", "action">>, {}),
   F("MAL-2", "GitHub Actions", <<"owner", "action">>, {})}
MCAbout ==
  [n \in Range(MCNodeOrder) |->
     CASE n = pkg -> {"CVE-1", "GHSA-1", "MAL-1"} [] n \in {crate, os} -> {"GHSA-2"}
       [] n = provider -> {"GHSA-3"} [] n = checkout -> {"GHSA-4", "MAL-2"}]

Link(id, provenance, type) == [id |-> id, provenance |-> provenance, type |-> type]
MCListed ==
  [n \in {pkg} |->
     [deprecated |-> FALSE, licenses |-> {"MIT"}, advisoryKeys |-> {"GHSA-1"},
      attestations |-> {TRUE},
      related |-> <<Link("issues", "UNVERIFIED_METADATA", "ISSUE_TRACKER"),
                    Link("typed", "UNVERIFIED_METADATA", "SOURCE_REPO"),
                    Link("built", "SLSA_ATTESTATION", "SOURCE_REPO")>>]]
  @@ [n \in {crate} |->
     [deprecated |-> TRUE, licenses |-> {}, advisoryKeys |-> {}, attestations |-> {},
      related |-> <<Link("typed", "UNVERIFIED_METADATA", "SOURCE_REPO")>>]]
MCScorecards ==
  ("typed" :> [has |-> TRUE, checks |-> [c \in {"Maintained", "Code-Review", "Signed-Releases"} |->
                 IF c = "Signed-Releases" THEN -1 ELSE 0]])
  @@ ("built" :> [has |-> TRUE, checks |-> [c \in {"Maintained", "Dangerous-Workflow"} |->
                 IF c = "Maintained" THEN 9 ELSE 0]])

Tool(kind, name) == [kind |-> kind, tool |-> name]
MCActionTools  == <<"owner", "action">> :> Tool("static-analysis", "CodeQL")
MCCommandTools == "trivy" :> Tool("container-scanning", "Trivy")
MCSubcommands  == <<"npm", "audit">> :> Tool("dependency-scanning", "npm audit")
MCBots         == <<"dependabot">> :> Tool("dependency-updates", "Dependabot")

X(id, completeness, reason, note) ==
  [id |-> id, completeness |-> completeness, reason |-> reason, note |-> note]
V(state, pinning) == [state |-> state, pinning |-> pinning]
Full ==
  [nodes |-> {X(n, "resolved", "", <<>>) : n \in {crate, os, pkg, provider, workflow}} \cup
             {X(checkout, "declared", "unpinned-ref", <<>>),
              X(step, "opaque", "shell", <<<<"sudo", "trivy", "image">>, <<"npm", "audit">>>>)},
   versions |-> [n \in {crate, os, pkg, provider} |->
                   V(IF n = os THEN "unknown" ELSE "installed",
                     IF n = pkg THEN "floating" ELSE "locked")],
   surfaces |-> [n \in {pkg, os, checkout} |->
                   IF n = pkg THEN {"manifest", "dockerfile"}
                   ELSE IF n = os THEN {"dockerfile"} ELSE {"ci"}],
   owners |-> [n \in {pkg} |-> {".", "web"}]]
(* A Dockerfile's package among many that were never expanded, or none.    *)
Thin ==
  [Full EXCEPT !.nodes = {X(pkg, "resolved", "", <<>>)} \cup
                 {X(N("npm", <<"pad">>, <<i>>), "declared", "bound:depth", <<>>) : i \in {"2", "3"}},
               !.versions = [n \in {pkg} |-> V("unknown", "floating")]]
MCRuns == {Full, Thin}
==============================================================================
