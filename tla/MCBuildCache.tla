---------------------------- MODULE MCBuildCache ----------------------------
(* A build with one kustomization file, one directory listing and one      *)
(* remote resource; the processes are interchangeable.                     *)
EXTENDS BuildCache, TLC

ProcSymmetry == Permutations(Procs)
=============================================================================
