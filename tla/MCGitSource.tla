----------------------------- MODULE MCGitSource -----------------------------
(* Two processes, the first with two concurrent calls.                     *)
EXTENDS GitSource

CONSTANTS p1, p2, a1, a2, b1

MCProcOf == [c \in {a1, a2, b1} |-> IF c = b1 THEN p2 ELSE p1]
MCWants == [c \in {a1, a2, b1} |->
  CASE c = a1 -> {Branch} [] c = a2 -> {Branch, <<"commit", 1>>}
    [] OTHER -> {Head, Semver}]
MCWantsPinned == [c \in {a1, a2, b1} |-> {Branch, <<"commit", 1>>}]
MCTTLOf == [p \in {p1, p2} |-> IF p = p1 THEN 1 ELSE 0]
MCDamaged == {<<"commit", 2>>}
=============================================================================
