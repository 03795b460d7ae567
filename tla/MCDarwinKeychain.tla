-------------------------- MODULE MCDarwinKeychain --------------------------
(***************************************************************************)
(* Instances of DarwinKeychain for TLC.  Processes, names and keys are     *)
(* interchangeable.                                                        *)
(***************************************************************************)
EXTENDS DarwinKeychain, TLC

Symmetry == Permutations(Procs) \union Permutations(Names) \union Permutations(Keys)

=============================================================================
