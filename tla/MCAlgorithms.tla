----------------------------- MODULE MCAlgorithms -----------------------------
(* Families of small inputs.                                               *)
EXTENDS Layering

CONSTANTS a, b, web, db, old, new

MCNames == {a, b, web, db, old, new, None, "p", "q", "r"}

(* Two namespaces and two names: lists of three with every combination of  *)
(* identities, and of four different items.                                *)
Item(id, deps) == [ns |-> id[1], name |-> id[2], deps |-> deps]
Deps   == {<<>>, <<<<None, web>>>>, <<<<None, db>>>>, <<<<b, web>>>>, <<<<None, web>>, <<None, db>>>>, <<<<None, web>>, <<None, web>>>>}
Idents == {<<a, web>>, <<a, db>>, <<b, web>>}
MCLists ==
  BoundedSeq({Item(id, d) : id \in Idents, d \in Deps}, 3)
    \cup {<<Item(<<a, web>>, d[1]), Item(<<a, db>>, d[2]), Item(<<b, web>>, d[3]), Item(<<b, db>>, d[4])>> : d \in [1..4 -> Deps]}

(* Texts of up to five lines; the greedy script takes over above eight.    *)
Texts == BoundedSeq({old, new}, 5)
MCComparisons == [a : Texts, b : Texts, ctxLines : 0..2]

(* Directories p, p/q, q and r, each absent, not native, or native with up *)
(* to two references; the root has a kustomization file or not.            *)
Paths == <<<<"p">>, <<"p", "q">>, <<"q">>, <<"r">>>>
Refs  == {S \in SUBSET ToSet(Paths) : Cardinality(S) <= 2}
Options == {<<>>, <<FALSE, {}>>} \cup ({TRUE} \X Refs)
DirAt(p, c) == IF c = <<>> THEN <<>> ELSE <<[path |-> p, native |-> c[1], refs |-> c[2]]>>
Root == [path |-> <<>>, native |-> TRUE, refs |-> {<<"p">>}]
MCWalks ==
  {r \o FlattenSeq([i \in 1..4 |-> DirAt(Paths[i], c[i])]) : r \in {<<>>, <<Root>>}, c \in [1..4 -> Options]}

(* Documents that meet in a nested map, and that replace one.              *)
Docs == {Map([p |-> Map([q |-> Leaf(old)])]), Map([p |-> Map([q |-> Leaf(new), r |-> Leaf(new)])]), Map([p |-> Leaf(new)])}
Objects(docs) == [kind : {"ConfigMap", "Secret"}, ns : {a, b, None}, name : {web}, doc : docs]
References == BoundedSeq([kind : {"ConfigMap", "Secret"}, ns : {a, b, None}, name : {web}], 2)
MCReleases ==
  [files : {<<>>, <<Map([p |-> Map([s |-> Leaf(old)])])>>}, objs : BoundedSeq(Objects(Docs), 2),
   refs : References, inline : {EmptyMap, Map([p |-> Map([q |-> Leaf(old)])])}]

Data == {Map([p |-> Leaf(old)]), Map([p |-> Leaf(new), q |-> Leaf(new)])}
MCPostBuilds == [objs : BoundedSeq(Objects(Data), 2), refs : References, inline : {EmptyMap, Map([p |-> Leaf(old)])}]

(* Hosts a and b, and a path with an '@' that either may follow.           *)
URL(f, u, h, p) == [form |-> f, user |-> u, host |-> h, port |-> p, at |-> None]
URLs == {URL("https", None, a, 0), URL("https", web, a, 1), URL("http", None, a, 0), URL("https", None, b, 0),
         URL("ssh", None, a, 0), URL("scp", web, a, 0), URL("ssh", db, b, 0), URL("path", None, None, 0),
         [URL("https", None, b, 0) EXCEPT !.at = a], [URL("ssh", None, b, 0) EXCEPT !.at = a],
         [URL("scp", web, a, 0) EXCEPT !.at = b]}
Stanza(h) == <<IF h = None THEN <<"default", None>> ELSE <<"machine", h>>,
               <<"login", IF h = None THEN web ELSE db>>, <<"password", old>>>>
Netrcs == {<<>>, Stanza(a), Stanza(None), Stanza(None) \o Stanza(a), SubSeq(Stanza(a), 1, 2) \o Stanza(None)}
Env == [allow |-> {a}, pair |-> TRUE, token |-> FALSE, netrc |-> <<>>, key |-> None, agent |-> FALSE,
        identities |-> <<None, "good">>, files |-> "good", accept |-> FALSE, knownHosts |-> {}]
Envs ==
  {[Env EXCEPT !.allow = al, !.pair = p, !.token = t, !.netrc = n] :
     al \in {{}, {a}}, p \in BOOLEAN, t \in BOOLEAN, n \in Netrcs}
  \cup {[Env EXCEPT !.key = k, !.agent = g, !.identities = i, !.files = f, !.accept = ac] :
     k \in {None, "good", "bad"}, g \in BOOLEAN, f \in {None, "good", "bad"}, ac \in BOOLEAN,
     i \in {<<None, None>>, <<None, "good">>, <<"bad", "good">>}}
MCFetches == [env : Envs, urls : BoundedSeq(URLs, 2)]
MCHandshakes ==
  [env : {[Env EXCEPT !.accept = ac, !.knownHosts = k] : ac \in BOOLEAN, k \in {{}, {<<a, old>>}, {<<a, old>>, <<a, new>>}}},
   shown : BoundedSeq({a, b} \X {old, new}, 3)]
=============================================================================
