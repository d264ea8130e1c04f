----------------------------- MODULE CloneStore -----------------------------
(***************************************************************************)
(* What a cache of upstream clones owes its readers, whoever fills it and  *)
(* whatever fails or dies on the way: a key has no tree until, in one step *)
(* and for good, it has one that the upstream holds for it at that moment. *)
(***************************************************************************)
EXTENDS Naturals

CONSTANTS
  Keys,    (* <<"commit", c>> and <<"tag", t>>                             *)
  Tags,    (* release tags                                                 *)
  NoTree   (* nothing is filed under the key                               *)

VARIABLES
  tip,     (* the commit of the branch; a commit is its place in the order *)
  tags,    (* the commit of each tag, 0 while there is none                *)
  trees    (* the tree filed under each key                                *)

vars == <<tip, tags, trees>>

Init ==
  /\ tip = 1
  /\ tags = [t \in Tags |-> 0]
  /\ trees = [k \in Keys |-> NoTree]

Push ==
  /\ tip' = tip + 1
  /\ UNCHANGED <<tags, trees>>

TagRelease(t) ==
  /\ tags[t] = 0
  /\ tags' = [tags EXCEPT ![t] = tip]
  /\ UNCHANGED <<tip, trees>>

(* The release of a tag; for a commit, that commit or what was pushed over *)
(* it.                                                                     *)
Holding(k) == IF k[1] = "tag" THEN {tags[k[2]]} \ {0} ELSE k[2] .. tip

File(k) ==
  /\ trees[k] = NoTree
  /\ \E t \in Holding(k) : trees' = [trees EXCEPT ![k] = t]
  /\ UNCHANGED <<tip, tags>>

Next ==
  \/ Push
  \/ \E t \in Tags : TagRelease(t)
  \/ \E k \in Keys : File(k)

Spec == Init /\ [][Next]_vars
=============================================================================
