------------------------------- MODULE Layering -------------------------------
(***************************************************************************)
(* The layering of values and variables beside the other algorithms: a     *)
(* module of its own because it is defined by recursion on documents.      *)
(***************************************************************************)
EXTENDS Algorithms

CONSTANTS
  Placeholder,
  Releases,     (* [files, objs, refs, inline], for the values             *)
  PostBuilds,   (* [objs, refs, inline], for the variables                 *)
  Home          (* the namespace the references are made from              *)

INSTANCE Substitution

Documents == [values |-> Releases, variables |-> PostBuilds]

AllInit == Init \/ /\ task \in DOMAIN Documents /\ input \in Documents[task]
                   /\ output = None

Values    == Run("values", HelmValues(input.files, input.objs, input.refs, Home, input.inline))
Variables == Run("variables", ResolveSubstituteVars(input.objs, input.refs, Home, input.inline))

AllNext == Next \/ Values \/ Variables
AllSpec == AllInit /\ [][AllNext]_vars

-----------------------------------------------------------------------------
(* The leaves of a value, as pairs of a path and the leaf (maps at most    *)
(* two levels deep).                                                       *)
Leaves(v) ==
  UNION {IF ~v.is[k].map THEN {<<<<k>>, v.is[k].is>>}
         ELSE {<<<<k, l>>, v.is[k].is[l].is>> : l \in DOMAIN v.is[k].is} : k \in DOMAIN v.is}

(* A layer stands until a later one says something of the same path, of a  *)
(* map it is in, or of something inside it.                                *)
Layered(layers) ==
  UNION {{f \in layers[i] :
            \A j \in (i + 1)..Len(layers) : \A g \in layers[j] : ~IsPrefix(f[1], g[1]) /\ ~IsPrefix(g[1], f[1])}
         : i \in DOMAIN layers}

(* What the n-th reference stands for: an object of exactly its namespace, *)
(* the first one, before any loose one; a loose one only if the reference  *)
(* names no namespace.  Of a Secret, placeholders.                         *)
Source(n) ==
  LET ref   == input.refs[n]
      ns    == IF ref.ns = None THEN Home ELSE ref.ns
      fits  == {i \in DOMAIN input.objs : input.objs[i].name = ref.name /\ input.objs[i].kind = ref.kind}
      exact == {i \in fits : input.objs[i].ns = ns}
      loose == {i \in fits : input.objs[i].ns = None /\ ref.ns = None}
      used  == IF exact # {} THEN {Min(exact)} ELSE IF loose # {} THEN {Min(loose)} ELSE {}
  IN  UNION {IF input.objs[i].kind = "ConfigMap" THEN Leaves(input.objs[i].doc)
             ELSE {<<f[1], Placeholder>> : f \in Leaves(input.objs[i].doc)} : i \in used}

Sources == [n \in DOMAIN input.refs |-> Source(n)]

(* valuesFiles < valuesFrom, in order < values, and substituteFrom, in     *)
(* order < substitute: the last word on every path, siblings in nested     *)
(* maps kept, and of a Secret only the placeholder.  What valuesFrom says  *)
(* of a path is settled before it meets the values files.                  *)
ValuesAreLayered ==
  /\ Done("values") =>
       Leaves(output) = Layered(<<Layered([f \in DOMAIN input.files |-> Leaves(input.files[f])]),
                                  Layered(Sources), Leaves(input.inline)>>)
  /\ Done("variables") => Leaves(output) = Layered(Sources \o <<Leaves(input.inline)>>)
=============================================================================
