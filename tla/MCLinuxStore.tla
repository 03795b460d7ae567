---------------------------- MODULE MCLinuxStore ----------------------------
(***************************************************************************)
(* Instances of LinuxStore for TLC.  Processes, names and keys are         *)
(* interchangeable, which the safety runs use.                             *)
(***************************************************************************)
EXTENDS LinuxStore, TLC

Symmetry == Permutations(Procs) \union Permutations(Names) \union Permutations(Keys)

=============================================================================
