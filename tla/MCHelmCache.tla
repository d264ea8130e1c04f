----------------------------- MODULE MCHelmCache -----------------------------
(* Two processes.  HTTP and OCI charts are resolved through different      *)
(* files; the fleets have them apart, so as not to explore their product.  *)
EXTENDS HelmCache

CONSTANTS p1, p2, r1, r2

MCFleets == {
  [p \in {p1, p2} |-> IF p = p1 THEN {<<"http", r1>>} ELSE {<<"http", r1>>, <<"http", r2>>}],
  [p \in {p1, p2} |-> IF p = p1 THEN {<<"tag", 1>>, <<"any", 0>>} ELSE {<<"any", 0>>}]}
MCTTLOf == [p \in {p1, p2} |-> IF p = p1 THEN 1 ELSE 0]
=============================================================================
