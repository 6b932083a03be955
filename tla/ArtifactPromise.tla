--------------------------- MODULE ArtifactPromise ---------------------------
(***************************************************************************)
(* What publishing promises to the readers of an output directory          *)
(* (docs/architecture.md, "Persistence"): it holds nothing, or one         *)
(* complete artifact that never changes again.                             *)
(***************************************************************************)
CONSTANT Nothing

VARIABLE artifact

Init == artifact = Nothing

Publish ==
  /\ artifact = Nothing
  /\ artifact' # Nothing
  /\ artifact'.marker = artifact'.manifest

Next == Publish

Spec == Init /\ [][Next]_artifact
=============================================================================
