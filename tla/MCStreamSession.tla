-------------------------- MODULE MCStreamSession --------------------------
(***************************************************************************)
(* Instances of StreamSession and its refinement for TLC.  The .cfg files  *)
(* assign model values to handles, ids and messages; this module builds    *)
(* the functions on them.                                                  *)
(***************************************************************************)
EXTENDS StreamRefinement, TLC

CONSTANTS
    Recorder, Replayer,     \* sessions
    clientId, serverId,     \* ids that are not those of bidi streams
    a, b                    \* messages

\* One recording and one replaying session.
OneRecorder ==
    [h \in Handles |-> IF h \in RecHandles THEN Recorder ELSE Replayer]

StreamTypeOf ==
    [id \in Ids |-> CASE id = serverId -> "server"
                      [] id = clientId -> "client"
                      [] OTHER -> "bidi"]

\* A hook that is not idempotent: scrubbing twice is not scrubbing once.
SwapHook == [m \in Messages |-> IF m = a THEN b ELSE a]

NoHook == [m \in Messages |-> m]

SameHook == [s \in Sessions |-> SwapHook]

NoHooks == [s \in Sessions |-> NoHook]

HandleSymmetry == Permutations(RecHandles) \cup Permutations(RepHandles)
=============================================================================
