-------------------------- MODULE MCArtifactStore --------------------------
(* A session with two saves, which fill the store, another that only       *)
(* cleans up, and one artifact of long ago.                                *)
EXTENDS ArtifactStore

CONSTANTS s1, s2, a1, a2, old

MCArtifacts == {a1, a2, old}
MCSessions  == {s1, s2}
MCSessionOf == [a \in MCArtifacts |-> s1]
MCOld       == {old}
=============================================================================
