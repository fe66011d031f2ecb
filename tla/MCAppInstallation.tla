-------------------------- MODULE MCAppInstallation ---------------------------
(***************************************************************************)
(* Two tabs, an installation of the user and one of somebody else.         *)
(***************************************************************************)
EXTENDS AppInstallation, TLC

MCSymmetry == Permutations(Tabs) \cup Permutations(Workers)
==============================================================================
