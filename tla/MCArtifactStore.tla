--------------------------- MODULE MCArtifactStore ---------------------------
(* Two artifacts that share a chunk. *)
EXTENDS ArtifactStore, TLC

CONSTANTS a1, a2, c1, c2

MCChunksOf == a1 :> {c1, c2} @@ a2 :> {c2}

UploadSymmetry == Permutations(Uploaders)
==============================================================================
