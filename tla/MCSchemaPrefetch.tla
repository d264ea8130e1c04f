-------------------------- MODULE MCSchemaPrefetch --------------------------
(* Three kinds to fetch, two workers to fetch them, two runs on one cache, *)
(* and one kind with a local schema.                                       *)
EXTENDS SchemaPrefetch
=============================================================================
