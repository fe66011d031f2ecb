----------------------------- MODULE MCScanStore ------------------------------
(***************************************************************************)
(* Two repositories, and two reports they may share with each other and    *)
(* with an upload.                                                         *)
(***************************************************************************)
EXTENDS ScanStore, TLC

MCTargets == {[repo |-> "a", ref |-> "main"], [repo |-> "b", ref |-> "main"]}

MCUploaded == [repo |-> "upload", ref |-> "none"]

MCSymmetry == Permutations(Reports) \cup Permutations(Slots)
==============================================================================
