--------------------------- MODULE MCTransportTap ---------------------------
(***************************************************************************)
(* Instances of TransportTap for TLC.                                      *)
(***************************************************************************)
EXTENDS TransportTap, TLC

CONSTANTS s1, s3

\* Streams are told apart by nothing but their names.
StreamSymmetry == Permutations(Ids)
=============================================================================
