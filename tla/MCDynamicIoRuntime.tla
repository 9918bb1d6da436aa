------------------------ MODULE MCDynamicIoRuntime ------------------------
(***************************************************************************)
(* DynamicIoRuntime for TLC.  No action tells one shape from another, so   *)
(* the shapes are symmetric.                                               *)
(***************************************************************************)
EXTENDS DynamicIoRuntime, TLC

ShapeSymmetry == Permutations(Keys)
=============================================================================
