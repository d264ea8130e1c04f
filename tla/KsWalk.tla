------------------------------- MODULE KsWalk -------------------------------
(***************************************************************************)
(* What the Flux kustomize-controller promises and fluxview's Kustomization*)
(* walk imitates: starting from the listed declarations, process declared, *)
(* active Kustomizations, each key at most once, each one adding the       *)
(* declarations of its output; nothing undeclared is ever processed.       *)
(***************************************************************************)
CONSTANTS Decls, KeyOf, Suspended, Listed

VARIABLES
  declared,   (* declarations met so far *)
  processed,  (* declarations processed  *)
  over        (* no more is processed    *)

Init ==
  /\ declared = Listed
  /\ processed = {}
  /\ over = FALSE

Process(d) ==
  /\ ~over
  /\ d \in declared \ Suspended
  /\ \A e \in processed : KeyOf[e] # KeyOf[d]
  /\ processed' = processed \cup {d}
  /\ declared' \in SUBSET Decls
  /\ declared \subseteq declared'
  /\ over' = over

End ==
  /\ over' = TRUE
  /\ UNCHANGED <<declared, processed>>

Next == End \/ \E d \in Decls : Process(d)

Spec == Init /\ [][Next]_<<declared, processed, over>>
=============================================================================
