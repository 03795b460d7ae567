--------------------------- MODULE MCWindowsStore ---------------------------
(***************************************************************************)
(* Instances of WindowsStore for TLC.  Callers, names, keys and handles    *)
(* are interchangeable.                                                    *)
(***************************************************************************)
EXTENDS WindowsStore, TLC

Symmetry ==
  Permutations(Callers) \union Permutations(Names) \union
  Permutations(Keys) \union Permutations(Handles)

=============================================================================
