---------------------------- MODULE MCFileServer ----------------------------
(* Module FileServer with documents and uploads that are interchangeable. *)
EXTENDS FileServer, TLC

Symmetry == Permutations(Docs) \union Permutations(Uploads)
=============================================================================
