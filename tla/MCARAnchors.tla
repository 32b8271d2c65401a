---------------------------- MODULE MCARAnchors ----------------------------
(* Small instances of ARAnchors for TLC. *)
EXTENDS ARAnchors, TLC

\* Own names, foreign names and cloud anchor ids are interchangeable.
Symmetry ==
  Permutations(OwnNames) \cup Permutations(ForeignNames) \cup Permutations(CloudIds)
=============================================================================
