---------------------------- MODULE MCSshClient -----------------------------
(* Small instances of SshClient for TLC.  Host keys are interchangeable.   *)
EXTENDS SshClient, TLC

KeySymmetry == Permutations(Fingerprints)

=============================================================================
