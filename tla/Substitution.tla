----------------------------- MODULE Substitution -----------------------------
(***************************************************************************)
(* Where values come from: postBuild variables of a Kustomization and the  *)
(* values of a HelmRelease (internal/flux/substitute.go,                   *)
(* internal/yamlutil/merge.go, Render in internal/helm/inflater.go).  A    *)
(* YAML value is a leaf or a map of values; a ConfigMap or Secret is a     *)
(* record [kind, ns, name, doc] with ns None for a loose file, and doc the *)
(* map under the key that is asked for; a reference is [kind, ns, name]    *)
(* with ns None if it names none.                                          *)
(***************************************************************************)
EXTENDS SequencesExt, Integers, TLC

CONSTANTS None, Placeholder

Leaf(v)  == [map |-> FALSE, is |-> v]
Map(f)   == [map |-> TRUE, is |-> f]
EmptyMap == Map(<<>>)

(* yamlutil.MergeMaps: maps on both sides merge, all else is overwritten.  *)
MergeMaps_TopLevel(dst, src) ==
  Map([k \in DOMAIN dst.is \cup DOMAIN src.is |-> IF k \in DOMAIN src.is THEN src.is[k] ELSE dst.is[k]])
RECURSIVE MergeMaps(_, _)
MergeMaps(dst, src) ==
  Map([k \in DOMAIN dst.is \cup DOMAIN src.is |->
         CASE k \notin DOMAIN src.is -> dst.is[k]
           [] k \in DOMAIN src.is \cap DOMAIN dst.is /\ src.is[k].map /\ dst.is[k].map
                -> MergeMaps(dst.is[k], src.is[k])
           [] OTHER -> src.is[k]])

(* mergeSecretPlaceholder: the shape of a Secret, never its values.        *)
RECURSIVE RedactRecursive(_)
RedactRecursive(v) ==
  IF v.map THEN Map([k \in DOMAIN v.is |-> RedactRecursive(v.is[k])]) ELSE Leaf(Placeholder)

Shown(obj) == IF obj.kind = "Secret" THEN RedactRecursive(obj.doc) ELSE obj.doc

(* findCandidate: the first object in the namespace, else the first loose  *)
(* one if the reference names no namespace; 0 if there is none.            *)
FindCandidate(objs, ref, home) ==
  LET ns       == IF ref.ns = None THEN home ELSE ref.ns
      named(o) == o.kind = ref.kind /\ o.name = ref.name
      exact    == SelectInSeq(objs, LAMBDA o : named(o) /\ o.ns = ns)
      loose    == SelectInSeq(objs, LAMBDA o : named(o) /\ o.ns = None)
  IN  IF exact # 0 \/ ref.ns # None THEN exact ELSE loose

(* A reference without a candidate is a warning, and is passed over.       *)
Resolved(objs, refs, home) ==
  LET found == SelectSeq([r \in DOMAIN refs |-> FindCandidate(objs, refs[r], home)], LAMBDA i : i # 0)
  IN  [r \in DOMAIN found |-> Shown(objs[found[r]])]

(* ResolveValuesFrom.                                                      *)
ResolveValuesFrom(objs, refs, home) == FoldLeft(MergeMaps, EmptyMap, Resolved(objs, refs, home))

(* Render: the chart's own values files, then valuesFrom, then values.     *)
HelmValues(files, objs, refs, home, inline) ==
  MergeMaps(MergeMaps(FoldLeft(MergeMaps, EmptyMap, files), ResolveValuesFrom(objs, refs, home)), inline)

(* ResolveSubstituteVars: data has no nesting, so a later key overwrites.  *)
Overwritten(vars, doc) == Map(doc.is @@ vars.is)
ResolveSubstituteVars(objs, refs, home, inline) ==
  Overwritten(FoldLeft(Overwritten, EmptyMap, Resolved(objs, refs, home)), inline)
=============================================================================
