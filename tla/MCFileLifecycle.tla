-------------------------- MODULE MCFileLifecycle --------------------------
(* Small instances of FileLifecycle. *)
EXTENDS FileLifecycle, NameSearchChecks, TLC

\* Requests are interchangeable, and so are articles.  Only for safety properties.
Symmetry == Permutations(Worker) \cup Permutations(Article)
=============================================================================
