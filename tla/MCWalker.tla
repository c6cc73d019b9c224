------------------------------- MODULE MCWalker ------------------------------
(* A small registry, and a repository with one manifest, for TLC.          *)
(* a -> b, b -> c, c -> a is a cycle; a1 and a2 differ in what they need;   *)
(* b has a dev dependency; the same c is reached at two depths; no version  *)
(* of c satisfies what a1 asks for.                                         *)
EXTENDS WalkerReference

CONSTANTS a, b, c, any, only1, only2

Dep(p, s, k) == [name |-> p, spec |-> s, scope |-> k]
RootReq(p, s) == [from |-> RootId, to |-> <<p, NoVersion>>, spec |-> s, scope |-> "prod"]
EmptyNodes == [id \in {} |-> Absent]

MCManifest == [f \in 1..1 |->
  [broken |-> FALSE, nodes |-> EmptyNodes,
   links |-> {RootReq(a, any), RootReq(b, only1)}]]
MCListed    == [p \in Package |-> IF p = c THEN {1} ELSE {1, 2}]
MCPublished == [p \in Package |-> [v \in Version |-> v]]
MCAllowedBy == [s \in Spec |-> IF s = only1 THEN {1} ELSE IF s = only2 THEN {2} ELSE Version]
MCExactOf   == [s \in Spec |-> NoVersion]
MCPins      == [p \in Package |-> NoVersion]
MCRequires  == [p \in Package |-> [v \in Version |->
  CASE p = a /\ v = 1 -> {Dep(b, any, "prod"), Dep(c, only2, "prod")}
    [] p = a /\ v = 2 -> {Dep(b, only1, "prod"), Dep(c, any, "prod")}
    [] p = b /\ v = 1 -> {Dep(c, any, "prod"), Dep(a, any, "dev")}
    [] p = b /\ v = 2 -> {Dep(a, only1, "prod")}
    [] p = c          -> {Dep(a, any, "prod")}]]
==============================================================================
