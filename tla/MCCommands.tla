----------------------------- MODULE MCCommands -----------------------------
(***************************************************************************)
(* Instances of Commands for TLC.  Processes, keys, uuids and chosen names *)
(* are interchangeable among themselves.                                   *)
(***************************************************************************)
EXTENDS Commands, TLC

Symmetry ==
  Permutations(Procs) \union Permutations(Keys)
    \union Permutations(Uuids) \union Permutations(Names \ Uuids)

=============================================================================
