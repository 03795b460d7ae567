---------------------------- MODULE MCTpmSession ----------------------------
(***************************************************************************)
(* Instances of TpmSession for TLC.  Handles are interchangeable, and so   *)
(* are the sessions on a raw device and those on the resource manager.     *)
(***************************************************************************)
EXTENDS TpmSession, TLC

Symmetry == Permutations(Raw) \union Permutations(Sessions \ Raw) \union Permutations(Handles)

=============================================================================
