----------------------------- MODULE MCVersions ------------------------------
(* Every operator over small versions, in each scheme, for TLC.            *)
EXTENDS VersionsReference

Sem(a, b, c, pre) == [nums |-> <<a, b, c>>, pre |-> pre]
Alpha == <<Word(1)>>
SemReleases == {Sem(0, 0, 0, <<>>), Sem(0, 0, 1, <<>>), Sem(0, 0, 2, <<>>), Sem(0, 1, 0, <<>>),
                Sem(1, 0, 0, <<>>), Sem(1, 1, 1, <<>>), Sem(1, 1, 2, <<>>), Sem(1, 2, 0, <<>>),
                Sem(2, 0, 0, <<>>), Sem(1, 1, 1, Alpha), Sem(1, 1, 1, <<Word(1), Number(1)>>),
                Sem(1, 1, 1, <<Number(3)>>), Sem(2, 0, 0, Alpha)}
PyReleases == {Plain(<<0, 1>>), Plain(<<1>>), Plain(<<1, 1, 1>>), Plain(<<1, 1, 0>>), Plain(<<2, 0>>),
               Written(1, <<0, 1>>, "none", 0, Absent, Absent),
               Written(0, <<2>>, "a", 1, Absent, Absent), Written(0, <<1, 1>>, "rc", 0, Absent, Absent),
               Written(0, <<1, 1, 0>>, "none", 0, 1, Absent), Written(0, <<2, 0, 0>>, "none", 0, Absent, 3)}
MCReleases(scheme) == IF scheme \in {"pep440", "poetry"} THEN PyReleases ELSE SemReleases

Parts == {<<0>>, <<1>>, <<0, 0>>, <<0, 1>>, <<1, 1>>, <<0, 0, 0>>, <<0, 0, 1>>, <<0, 1, 0>>, <<1, 1, 1>>}
Single1(scheme, terms) == {[scheme |-> scheme, constraint |-> {{t}}] : t \in terms}
Terms1(ops, stars) == {Term(op, n, stars, <<>>) : op \in ops, n \in Parts}
Pre1(ops) == {Term(op, <<1, 1, 1>>, FALSE, p) : op \in ops, p \in {Alpha, <<Number(2)>>}}
Stars == {Term("bare", n, TRUE, <<>>) : n \in {<<>>, <<0>>, <<1>>, <<1, 1>>}}
Comparing == {">=", ">", "<=", "<"}

Npm == Single1("npm", Terms1(Comparing \cup {"bare", "=", "^", "~"}, FALSE) \cup Stars
                      \cup {Term(op, <<>>, TRUE, <<>>) : op \in {">", ">="}}
                      \cup Pre1(Comparing \cup {"bare", "^", "~"}))
  \cup {[scheme |-> "npm", constraint |-> {{Term("from", a, FALSE, <<>>), Term("to", b, FALSE, <<>>)}}] :
          a \in {<<0, 1>>, <<1>>, <<1, 1, 1>>}, b \in {<<1>>, <<1, 1>>, <<1, 1, 1>>, <<2, 0, 0>>}}
  \cup {[scheme |-> "npm", constraint |-> c] : c \in
          {{{Term("^", <<0, 1>>, FALSE, <<>>)}, {Term(">=", <<1, 1, 1>>, FALSE, Alpha), Term("<", <<2>>, FALSE, <<>>)}},
           {{Term("!=", <<1>>, FALSE, <<>>)}}}}
Cargo == Single1("cargo", Terms1(Comparing \cup {"bare", "=", "^", "~"}, FALSE) \cup Stars
                          \cup Pre1({"bare", "~", "="}) \cup {Term("~", <<1>>, TRUE, <<>>)}
                          \cup {[Term("bare", n, FALSE, p) EXCEPT !.x = Least(1, Len(p))] :
                                  n \in {<<0, 0, 1>>, <<1, 1, 1>>}, p \in {<<>>, <<Word(1), Word(2)>>}})
  \cup {[scheme |-> "cargo", constraint |-> {{Term(">=", <<0, 1>>, FALSE, <<>>), Term("<", <<1, 1, 2>>, FALSE, <<>>)}}]}
GoMod == Single1("go", {Term("bare", n, FALSE, p) : n \in {<<0, 0, 1>>, <<1, 1, 1>>, <<1, 0, 1>>}, p \in {<<>>, Alpha}}
                       \cup {Term(">=", <<1, 1, 1>>, FALSE, <<>>), Term("^", <<1, 1, 1>>, FALSE, <<>>)})
Terra == Single1("terraform", Terms1(Comparing \cup {"bare", "=", "!=", "~>"}, FALSE) \cup Pre1({"bare", "~>"}) \cup Stars)

PyVersions == {Plain(n) : n \in Parts} \cup {Written(0, <<1, 1>>, "none", 0, 0, Absent),
                 Written(0, <<2>>, "a", 1, Absent, Absent), Written(0, <<2>>, "none", 0, Absent, 1)}
Py == Single1("pep440", {Spec440(op, v, FALSE) : op \in Comparing \cup {"==", "!="}, v \in PyVersions}
        \cup {Spec440(op, Plain(n), TRUE) : op \in {"==", "!="}, n \in {<<1>>, <<1, 1>>}}
        \cup {Spec440("~=", Plain(n), FALSE) : n \in {<<0, 1>>, <<1, 1>>, <<1, 1, 0>>}}
        \cup {Spec440("===", Plain(<<1, 1, 0>>), FALSE)})
Poet == LET Py0(t, sep, tag) ==
              [op |-> t.op, nums |-> t.nums, stars |-> t.stars, sep |-> sep, tag |-> tag]
            Py1(t, tag) == Py0(t, "none", tag)
        IN
  Single1("poetry", {Py1(t, "none") : t \in Terms1({"bare", "^", "~", ">=", "<", "=="}, FALSE) \cup Stars}
                    \cup {Py0(Term("^", n, FALSE, <<>>), sep, "alpha") :
                            n \in {<<0, 1>>, <<1, 1, 1>>}, sep \in {"none", "dash", "dot"}}
                    \cup {Py0(Term("bare", <<1, 1>>, TRUE, <<>>), sep, "alpha") : sep \in {"none", "dash"}}
                    \cup {Py1(Term("^", <<1, 1, 1>>, TRUE, <<>>), "none"),
                          Py1(Term("=", <<1, 1, 1>>, FALSE, <<>>), "none"),
                          Py1(Term("==", <<1>>, TRUE, <<>>), "none")})
    \cup {[scheme |-> "poetry", constraint |-> {{Py1(Term("^", <<0, 1>>, FALSE, <<>>), "none")},
                                               {Py1(Term("^", <<1>>, FALSE, <<>>), "none")}}]}
MCRequests == Npm \cup Cargo \cup GoMod \cup Terra \cup Py \cup Poet

(* A nightly build, dated, before its release.                             *)
Nightlies == {Plain(<<2, 0>>), Written(0, <<2, 0>>, "none", 0, Absent, 20230101),
              Written(0, <<2, 0>>, "rc", 1, Absent, Absent), Plain(<<1, 1>>)}
Nightly(scheme) == IF scheme \in {"pep440", "poetry"} THEN Nightlies ELSE {}
NightlyRequests == Single1("pep440", {Spec440(op, v, FALSE) : op \in {">=", "<", "=="}, v \in PyVersions})
==============================================================================
