--------------------------- MODULE MCSnapshotStore ---------------------------
(* SnapshotStore with two syncs and a diff that overlap in every way.        *)
EXTENDS SnapshotStore, TLC

CONSTANTS a, b, v1, v2, s1, s2, f1

MCSlugs == {a, b}
MCVersions == {v1, v2}
MCSyncers == {s1, s2}
MCDiffers == {f1}

Interchangeable ==
  Permutations(MCSlugs) \cup Permutations(MCVersions) \cup Permutations(MCSyncers)

=============================================================================
