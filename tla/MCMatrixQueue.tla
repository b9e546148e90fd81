--------------------------- MODULE MCMatrixQueue ---------------------------
(* Small instances of MatrixQueue. *)
EXTENDS MatrixQueue, MatrixImportChecks, AgentDraftChecks, TLC

\* Workers, clients and digests are interchangeable.  Only for runs of safety properties.
Symmetry == Permutations(Worker) \cup Permutations(Client) \cup Permutations(Digest)
=============================================================================
