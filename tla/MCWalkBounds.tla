----------------------------- MODULE MCWalkBounds ----------------------------
(* A will-mode --as-of walk of a repository in several ecosystems, under   *)
(* tight bounds:                                                           *)
(*   a  a package with a lockfile pin, requiring b, d and (dev) t          *)
(*   b  a pinned package whose pin is not available at the instant         *)
(*   d  a package none of whose publish times is known: --as-of is refused *)
(*   t  a package with no resolver, exactly or loosely constrained         *)
(*   g  a package with a resolver and no version scheme                    *)
(* The first file is unparsable; the second supplies nodes of its own.     *)
EXTENDS WalkerReference

CONSTANTS a, b, d, e, t, g, any, exact2, bad

Dep(p, s, k) == [name |-> p, spec |-> s, scope |-> k]
Rq(f, p, v, s) == [from |-> f, to |-> <<p, v>>, spec |-> s, scope |-> "prod"]

MCManifest == [f \in 1..2 |->
  IF f = 1
  THEN [broken |-> TRUE, nodes |-> [id \in {} |-> Absent], links |-> {}]
  ELSE [broken |-> FALSE,
        nodes |-> [id \in {<<g, 1>>, <<t, NoVersion>>} |->
                     IF id = <<g, 1>> THEN Fact("opaque", "extractor")
                                      ELSE Declared("unpinned-ref")],
        links |-> {Rq(RootId, g, 1, ""), Rq(<<g, 1>>, g, 2, ""),
                   Rq(RootId, t, NoVersion, exact2), Rq(RootId, g, NoVersion, any),
                   Rq(RootId, a, NoVersion, any), Rq(RootId, e, NoVersion, bad)}]]
MCListed    == [p \in Package |-> {1, 2}]
MCPublished == [p \in Package |-> [v \in Version |-> IF p = d THEN 0 ELSE v]]
MCAllowedBy == [s \in Spec |-> IF s = exact2 THEN {2} ELSE Version]
MCExactOf   == [s \in Spec |-> IF s = exact2 THEN 2 ELSE NoVersion]
MCPins      == [p \in Package |-> IF p = a THEN 1 ELSE IF p = b THEN 2 ELSE NoVersion]
MCRequires  == [p \in Package |-> [v \in Version |->
  IF p = a THEN {Dep(b, any, "prod"), Dep(d, any, "prod"), Dep(e, any, "prod"),
                 Dep(t, any, "dev")}
  ELSE IF p = e THEN {Dep(e, exact2, "prod"), Dep(t, any, "prod"), Dep(a, any, "prod")}
  ELSE {}]]
==============================================================================
