----------------------------- MODULE KustomizeDirs -----------------------------
(***************************************************************************)
(* Which directories with a kustomization file are built on their own when *)
(* a tree is scanned for ConfigMaps, Secrets and sources                   *)
(* (DiscoverKustomizeDirsAndFiles, internal/flux/kustomize_discovery.go).  *)
(* A path is the sequence of its names below the root; a directory is a    *)
(* record [path, native, refs]: whether its file is a native Kustomization *)
(* (no Flux object, no Component), and the paths its resources: resolve to.*)
(* dirs is in the order of the walk: a directory before those below it.    *)
(***************************************************************************)
EXTENDS SequencesExt, Integers

(* visit, for one directory after the other: the root is passed over, and  *)
(* only native files can be built.                                         *)
Entries(dirs) ==
  FoldLeft(LAMBDA entries, d : IF d.native /\ d.path # <<>> THEN Append(entries, d) ELSE entries,
           <<>>, dirs)

(* Every entry's references count, also those of entries never built.      *)
Referenced_SoFar(entries, i) == \E j \in 1..i : entries[i].path \in entries[j].refs
Referenced(entries, i) == \E j \in DOMAIN entries : entries[i].path \in entries[j].refs

UnderAnyDir(path, built) == \E p \in built : IsStrictPrefix(p, path)

(* selectBuildDirs, and what is built of a tree.                           *)
SelectBuildDirs(entries) ==
  FoldLeft(LAMBDA built, i :
             IF Referenced(entries, i) \/ UnderAnyDir(entries[i].path, built)
             THEN built ELSE built \cup {entries[i].path},
           {}, [i \in DOMAIN entries |-> i])

BuildDirs(dirs) == SelectBuildDirs(Entries(dirs))
=============================================================================
