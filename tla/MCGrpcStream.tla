---------------------------- MODULE MCGrpcStream ----------------------------
(***************************************************************************)
(* Instances of GrpcStream for TLC.                                        *)
(***************************************************************************)
EXTENDS GrpcStream

CONSTANTS a, b, c

\* A hook that is neither idempotent nor injective: scrubbing twice is not
\* scrubbing once, and a and c differ only in what is scrubbed away.
MixHook == [m \in Messages |-> IF m = b THEN a ELSE b]
=============================================================================
