------------------------------ MODULE Analysis -------------------------------
(***************************************************************************)
(* What happens to a walked closure: scan merges the lockfiles into it and *)
(* rolls it up, report attributes the findings of the audit.  The graph    *)
(* the walk leaves behind and the lockfiles of the checkout are inputs;    *)
(* so are the versions an advisory is found for.                           *)
(***************************************************************************)
EXTENDS Reach

CONSTANT Inputs     \* records [facts, edges, files]

(* The walk starts from the root and links known nodes only; a lockfile    *)
(* names package versions, each under a path of at least one name.         *)
ASSUME InputsAssumption ==
  \A i \in Inputs :
    /\ DOMAIN i.facts = Node /\ Root \in Present(i.facts)
    /\ \A e \in i.edges : e.from \in Present(i.facts) /\ e.to \in Present(i.facts)
    /\ \A k \in DOMAIN i.files : \A c \in i.files[k].copies :
         /\ c.node = NoNode \/ (c.node \in Node /\ Kind[c.node] = "version")
         /\ c.path \in Seq(STRING) \ {<<>>}

VARIABLES phase, files, versionRow, entry

vars == <<phase, files, versionRow, entry, facts, inst, graphVars, countVars,
          reachVars>>

NoRows == [n \in {} |-> 0]

Init ==
  /\ phase = "merge" /\ versionRow = NoRows /\ entry = NoRows /\ inst = {}
  /\ \E i \in Inputs : /\ facts = i.facts /\ edges = i.edges /\ files = i.files
                       /\ nodes = Present(i.facts)
  /\ CountInit /\ ReachInit

(* main: every effective resolver runs, and Merge folds the instances in.  *)
Merge ==
  LET got == Instances(files)
  IN /\ phase = "merge" /\ phase' = "search"
     /\ inst' = got
     /\ facts' = MergedFacts(facts, got)
     /\ edges' = MergedEdges(edges, got, Root)
     /\ nodes' = Present(facts')
     /\ UNCHANGED <<files, versionRow, entry, countVars, reachVars>>

Search ==
  /\ phase = "search" /\ SearchStep
  /\ UNCHANGED <<phase, files, versionRow, entry, facts, inst, graphVars, reachVars>>

Condense ==
  /\ phase = "search" /\ phase' = "count" /\ StartCount
  /\ UNCHANGED <<files, versionRow, entry, facts, inst, graphVars, reachVars>>

Count ==
  /\ phase = "count" /\ (Dequeue \/ \E c \in todo : Relax(c))
  /\ UNCHANGED <<phase, files, versionRow, entry, facts, inst, graphVars, reachVars>>

(* ComputeWith, once the paths are counted.                                *)
RollUp ==
  /\ phase = "count" /\ CountDone /\ phase' = "rolled"
  /\ versionRow' = VersionRows /\ entry' = PackageEntries
  /\ UNCHANGED <<files, facts, inst, graphVars, countVars, reachVars>>

(* report: the audit finds advisories for some of the version rows.        *)
Audit ==
  /\ phase = "rolled" /\ phase' = "attribute"
  /\ \E found \in SUBSET DOMAIN versionRow : Attribute(found)
  /\ UNCHANGED <<files, versionRow, entry, facts, inst, graphVars, countVars>>

Walk ==
  /\ phase = "attribute" /\ (BeginWalk \/ WalkOn \/ EndWalk)
  /\ UNCHANGED <<phase, files, versionRow, entry, facts, inst, graphVars, countVars>>

Plan ==
  /\ phase = "attribute" /\ phase' = "plan" /\ StartPlan
  /\ UNCHANGED <<files, versionRow, entry, facts, inst, graphVars, countVars>>

PlanBumps ==
  /\ phase = "plan" /\ (Pick \/ \E d \in scan : Consider(d))
  /\ UNCHANGED <<phase, files, versionRow, entry, facts, inst, graphVars, countVars>>

Report ==
  /\ phase = "plan" /\ PlanDone /\ phase' = "reported"
  /\ UNCHANGED <<files, versionRow, entry, facts, inst, graphVars, countVars, reachVars>>

Next == \/ Merge \/ Search \/ Condense \/ Count \/ RollUp \/ Audit
        \/ Walk \/ Plan \/ PlanBumps \/ Report

Spec == Init /\ [][Next]_vars /\ WF_vars(Next)
==============================================================================
