------------------------------ MODULE Lockfile -------------------------------
(***************************************************************************)
(* internal/effective: what the lockfiles of a checkout say is installed,  *)
(* and Merge, which folds that into the closure graph.                     *)
(*                                                                         *)
(* A lockfile is a record [npm, dir, copies]; npm tells package-lock.json  *)
(* from the flat formats (uv, poetry, pnpm, yarn, bun, Cargo, go.mod,      *)
(* Terraform), dir is its directory ("." at the top), and a copy is        *)
(* [path, node]: the chain of package names on disk, of length one in a    *)
(* flat file, and the version installed there, NoNode for an entry that is *)
(* a link or carries no version.  Files come in the order they are read.   *)
(***************************************************************************)
EXTENDS Integers, SequencesExt, Graph

CONSTANT NoNode

Copy(path, node) == [path |-> path, node |-> node]
Locator(npm, dir, path) == [npm |-> npm, dir |-> dir, path |-> path]
TopLevel == Locator(TRUE, "", <<>>)

(* parentLocator: the enclosing path as the lockfile writes it, which is   *)
(* relative to the lockfile; the locator itself is scoped by its directory.*)
ParentLocator(path) ==
  IF Len(path) = 1 THEN TopLevel ELSE Locator(TRUE, ".", Front(path))

(* The instances of one lockfile.                                          *)
Resolve(f) ==
  {[locator |-> Locator(f.npm, f.dir, c.path), node |-> c.node,
    parent |-> IF f.npm THEN ParentLocator(c.path) ELSE TopLevel] :
     c \in {c \in f.copies : c.node # NoNode}}

(* Every flat lockfile is read; of several package-lock.json files the     *)
(* last one visited is kept.                                               *)
Instances(files) ==
  LET npm  == {i \in DOMAIN files : files[i].npm}
      kept == {i \in DOMAIN files : i \notin npm \/ \A j \in npm : j <= i}
  IN UNION {Resolve(files[i]) : i \in kept}

(* Mutant: a copy whose host is not installed is linked from nowhere.      *)
Placement_NoFallback(inst, i, root) ==
  LET hosts == {p.node : p \in {p \in inst : p.locator = i.parent}}
  IN IF hosts = {} /\ i.parent = TopLevel THEN root
     ELSE IF hosts = {} THEN i.node ELSE CHOOSE h \in hosts : TRUE

(* Merge: each copy is a resolved node, linked from the copy that encloses *)
(* it when that one is known and from the root otherwise, with no spec.    *)
Placement(inst, i, root) ==
  LET hosts == {p.node : p \in {p \in inst : p.locator = i.parent}}
  IN IF hosts = {} THEN root ELSE CHOOSE h \in hosts : TRUE

MergedFacts(facts, inst) == AddAll(facts, {i.node : i \in inst}, Resolved)
MergedEdges(edges, inst, root) ==
  edges \cup {[from |-> Placement(inst, i, root), to |-> i.node, spec |-> ""] :
                i \in inst}
==============================================================================
