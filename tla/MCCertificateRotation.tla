----------------------- MODULE MCCertificateRotation -----------------------
(* Small instances of CertificateRotation. *)
EXTENDS CertificateRotation, AgentAuditChecks, TLC

\* Runs of the bridge are interchangeable.  Only for runs of safety properties.
Symmetry == Permutations(Bridge)
=============================================================================
