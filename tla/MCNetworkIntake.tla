-------------------------- MODULE MCNetworkIntake --------------------------
(***************************************************************************)
(* Instances of NetworkIntake for TLC: one, two or three references, each  *)
(* of a different kind, and the symmetry of pods and local ids.            *)
(***************************************************************************)
EXTENDS NetworkIntake, TLC

CONSTANTS r1, r2, r3

OneDemand == r1 :> "translatable"
TwoDemands == r1 :> "translatable" @@ r2 :> "unknown"
AllDemand == r1 :> "translatable" @@ r2 :> "unknown" @@ r3 :> "malformed"

AllCalls == {"save", "raise", "cancel", "commit", "release"}

ReplicaSymmetry == Permutations(Pods) \cup Permutations(LocalIds)
=============================================================================
