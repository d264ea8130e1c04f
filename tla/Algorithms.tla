------------------------------ MODULE Algorithms ------------------------------
(***************************************************************************)
(* The pure algorithms of fluxview - dependency order, text diff, choice   *)
(* of kustomize directories, git credentials; see Layering for values and  *)
(* variables - applied to every input of a family, and compared with       *)
(* reference definitions that share nothing with them.                     *)
(***************************************************************************)
EXTENDS SequencesExt, FiniteSetsExt, Integers, TLC

CONSTANTS
  None, MaxMyersInputSize,
  Names,        (* strings; None is the empty one                          *)
  Lists,        (* of items with dependencies                              *)
  Comparisons,  (* [a, b, ctxLines]                                        *)
  Walks,        (* directories with kustomization files, in walk order     *)
  Fetches,      (* [env, urls]                                             *)
  Handshakes    (* [env, shown]                                            *)

INSTANCE DependencyOrder
INSTANCE TextDiff
INSTANCE KustomizeDirs
INSTANCE GitCredentials

Dir == [path : Seq(Names), native : BOOLEAN, refs : SUBSET Seq(Names)]

(* A walk visits a directory before those below it.  Of ~/.netrc only the  *)
(* words that count; and a URL that is not local names a host.             *)
ASSUME ConstantsAssumption ==
  /\ Lists \subseteq Seq([ns : Names, name : Names, deps : Seq(Names \X Names)])
  /\ Comparisons \subseteq [a : Seq(Names), b : Seq(Names), ctxLines : Nat]
  /\ MaxMyersInputSize \in Nat
  /\ Walks \subseteq Seq(Dir)
  /\ \A dirs \in Walks : \A i, j \in DOMAIN dirs :
       IsStrictPrefix(dirs[j].path, dirs[i].path) => j < i
  /\ \A fetch \in Fetches :
       /\ fetch.env.netrc \in Seq({"machine", "default", "login", "password"} \X Names)
       /\ fetch.urls \in Seq([form : Forms, user : Names, host : Names, port : Nat, at : Names])
       /\ \A url \in ToSet(fetch.urls) : url.form \notin {"file", "path"} => url.host # None
  /\ \A handshake \in Handshakes :
       handshake.shown \in Seq(Names \X Names) /\ handshake.env.accept \in BOOLEAN
  /\ None \notin {"git", "pair", "token", "netrc", "key", "agent", "identity"}

VARIABLES
  task,   (* the algorithm to run                                          *)
  input,
  output  (* its result, None before                                       *)

vars == <<task, input, output>>

Inputs == [sort |-> Lists, diff |-> Comparisons, select |-> Walks, credentials |-> Fetches,
           hostkeys |-> Handshakes]

Init == /\ task \in DOMAIN Inputs /\ input \in Inputs[task]
        /\ output = None

Run(t, result) ==
  /\ task = t /\ output = None
  /\ output' = result
  /\ UNCHANGED <<task, input>>

Sort   == Run("sort", [releases |-> ReleaseOrder(input), kustomizations |-> KustomizationOrder(input)])
Diff   == Run("diff", LET ops == EditScript(input.a, input.b)
                      IN  [ops |-> ops, hunks |-> Hunks(ops, input.ctxLines)])
Select == Run("select", BuildDirs(input))
Authenticate == Run("credentials", ResolveAuth(input.env, input.urls))
VerifyHosts  == Run("hostkeys", HostKeys(input.env, input.shown))

Next == Sort \/ Diff \/ Select \/ Authenticate \/ VerifyHosts
Spec == Init /\ [][Next]_vars

Done(t) == task = t /\ output # None

-----------------------------------------------------------------------------
(* Dependency order.                                                       *)
(* Without a cycle every item is processed exactly once and after all that *)
(* it depends on, duplicated identities, repeated entries and unknown      *)
(* names included; with one, HelmReleases keep the order of their files    *)
(* (hr_inflation.go).                                                      *)
DependenciesFirst ==
  Done("sort") => InDependencyOrder(input, output.releases, output.kustomizations)

(* After the warning "processing in original order" (build.go), the        *)
(* Kustomizations are processed in their original order.                   *)
CycleKeepsOrder ==
  Done("sort") /\ HasCycle(input) => output.kustomizations = [i \in DOMAIN input |-> i]

-----------------------------------------------------------------------------
(* The lines of a script's operations, if their op is one of kinds.        *)
LinesOf(ops, kinds) ==
  FoldLeft(LAMBDA lines, i : IF ops[i].op \in kinds THEN Append(lines, ops[i].line) ELSE lines,
           <<>>, [i \in DOMAIN ops |-> i])

(* The longest common subsequence of two prefixes, as a length.            *)
CommonLength(a, b) ==
  LET l[p \in (0..Len(a)) \X (0..Len(b))] ==
        IF p[1] = 0 \/ p[2] = 0 THEN 0
        ELSE IF a[p[1]] = b[p[2]] THEN l[<<p[1] - 1, p[2] - 1>>] + 1
        ELSE Max({l[<<p[1] - 1, p[2]>>], l[<<p[1], p[2] - 1>>]})
  IN  l[<<Len(a), Len(b)>>]

(* A script turns the old text into the new one, and below the threshold   *)
(* no shorter one does: what a diff shows as changed did change.           *)
ScriptIsMinimal ==
  Done("diff") =>
    /\ LinesOf(output.ops, {"e", "d"}) = input.a
    /\ LinesOf(output.ops, {"e", "i"}) = input.b
    /\ Len(input.a) + Len(input.b) <= MaxMyersInputSize =>
         Len(LinesOf(output.ops, {"e"})) = CommonLength(input.a, input.b)

(* Every hunk is a stretch of the script, and together they show the       *)
(* operations no further than ctxLines from a change, each once and in     *)
(* order, whatever the gaps between the changes.                           *)
HunksShowChanges ==
  Done("diff") =>
    LET hunks   == output.hunks
        near(i) == \E j \in DOMAIN output.ops :
                     output.ops[j].op # "e" /\ j - i \in (-input.ctxLines)..input.ctxLines
    IN  /\ \A h \in DOMAIN hunks : \A x, y \in DOMAIN hunks[h] :
             hunks[h][x] - hunks[h][y] = x - y
        /\ \A g, h \in DOMAIN hunks : g < h =>
             \A x \in ToSet(hunks[g]), y \in ToSet(hunks[h]) : x < y
        /\ UNION {ToSet(hunks[h]) : h \in DOMAIN hunks} = {i \in DOMAIN output.ops : near(i)}

-----------------------------------------------------------------------------
(* References among the directories that can be built, and what building   *)
(* some of them takes in.                                                  *)
Native     == {d \in ToSet(input) : d.native /\ d.path # <<>>}
Buildable  == {d.path : d \in Native}
Closed(S)  == \A d \in Native : d.path \in S => d.refs \cap Buildable \subseteq S
Reaches(S) == {p \in Buildable : \A C \in SUBSET Buildable : S \subseteq C /\ Closed(C) => p \in C}
Cyclic     == \E C \in SUBSET Buildable :
                C # {} /\ \A p \in C : \E d \in Native : d.path \in C /\ p \in d.refs

(* No directory is built twice: none that is built is part of, or below,   *)
(* another one that is.  And none is forgotten: without circular           *)
(* references every one is part of a build, or below a built directory, or *)
(* needed only by one that is.                                             *)
BuiltOnce ==
  Done("select") =>
    LET others(p) == output \ {p}
        nested    == {d.path : d \in {e \in Native : \E p \in output : IsStrictPrefix(p, e.path)}}
    IN  /\ \A p \in output : p \notin Reaches(others(p)) \cup nested
        /\ ~Cyclic => Buildable = Reaches(output \cup nested)

-----------------------------------------------------------------------------
(* A login is the one of the host's own stanza.                            *)
OwnLogin(netrc, host, login) ==
  \E w, l \in DOMAIN netrc : /\ w < l /\ netrc[w] = <<"machine", host>> /\ netrc[l] = <<"login", login>>
                             /\ \A m \in (w + 1)..l : netrc[m][1] \in {"login", "password"}

(* The credentials of the environment, and of a default stanza if hosts    *)
(* are listed, only go to listed hosts: the host the clone contacts.       *)
StaysHome(env, url, o) ==
  /\ o.source = "netrc" /\ url.host \notin env.allow =>
       env.allow = {} \/ OwnLogin(env.netrc, url.host, o.user)
  /\ o.source \in {"pair", "token"} => url.host \in env.allow
  /\ o.source \in {"pair", "token", "netrc"} => url.form \in {"http", "https"}

(* A URL gets what it would get in a process of its own, whatever other    *)
(* URLs of its host were resolved before, down to the SSH user: that may   *)
(* be the user of one of those.  Credentials stay home, if the path of the *)
(* URL has no '@' (see CredentialsAlwaysFit).  And a host has one key for  *)
(* as long as the process lives, unless known_hosts has more.              *)
CredentialsFit ==
  /\ Done("credentials") =>
       \A i \in DOMAIN input.urls :
         LET url == input.urls[i]
             o   == output[i]
             eps == {ParseGitEndpoint(u) : u \in ToSet(input.urls)}
         IN  /\ [o EXCEPT !.user = None] = [ResolveAuth(input.env, <<url>>)[1] EXCEPT !.user = None]
             /\ o.source \in {"key", "agent", "identity"} /\ ~o.err =>
                  o.user \in {"git"} \cup {e.user : e \in {f \in eps : f.host = ParseGitEndpoint(url).host}}
             /\ url.at = None => StaysHome(input.env, url, o)
  /\ Done("hostkeys") =>
       \A i, j \in DOMAIN input.shown :
         /\ output[i] /\ output[j] /\ input.shown[i][1] = input.shown[j][1] /\ input.shown[i] # input.shown[j]
              => {input.shown[i], input.shown[j]} \subseteq input.env.knownHosts
         /\ output[i] => input.env.accept \/ input.shown[i] \in input.env.knownHosts

(* What docs/caching.md:86 promises of every URL.  The code does not keep  *)
(* it: after the '@' of a path it reads another host than the clone does   *)
(* (parseURLGitEndpoint), and this is no property of a run.                *)
CredentialsAlwaysFit ==
  Done("credentials") =>
    \A i \in DOMAIN input.urls : StaysHome(input.env, input.urls[i], output[i])
=============================================================================
