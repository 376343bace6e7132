---------------------------- MODULE StreamHandle ----------------------------
(***************************************************************************)
(* The two stream handles of go/stream_session.go as records with their    *)
(* operations: StreamRecording, which logs a live stream, and              *)
(* StreamReplay, which serves a recorded one.  Every operation runs under  *)
(* the handle's mutex, so each is one step of the modules that use it.     *)
(*                                                                         *)
(* scrub is the session's frame hook, a function on messages (the identity *)
(* when no hook is installed).                                             *)
(***************************************************************************)
EXTENDS StreamFormat

(***************************************************************************)
(* StreamRecording.  end and err are what Finish puts in the pair; they    *)
(* mean nothing before finished.                                           *)
(***************************************************************************)
NewRecording(typ) ==
    [typ |-> typ, seq |-> 0, sends |-> << >>, recvs |-> << >>,
     halfClose |-> {}, finished |-> FALSE, end |-> 0, err |-> FALSE]

\* Mutant: a send that comes after Finish is kept.
RecordSendAfterFinish(r, scrub, message) ==
    [r EXCEPT !.sends = Append(r.sends, StreamFrame(r.seq, scrub[message])),
              !.seq = r.seq + 1]

RecordSend(r, scrub, message) ==
    IF r.finished THEN r
    ELSE [r EXCEPT !.sends = Append(r.sends, StreamFrame(r.seq, scrub[message])),
                   !.seq = r.seq + 1]

RecordRecv(r, scrub, message) ==
    IF r.finished THEN r
    ELSE [r EXCEPT !.recvs = Append(r.recvs, StreamFrame(r.seq, scrub[message])),
                   !.seq = r.seq + 1]

\* Mutant: the half-close takes a number and leaves it for the next event.
RecordHalfCloseUncounted(r) ==
    IF r.finished \/ r.halfClose # {} THEN r
    ELSE [r EXCEPT !.halfClose = {r.seq}]

RecordHalfClose(r) ==
    IF r.finished \/ r.halfClose # {} THEN r
    ELSE [r EXCEPT !.halfClose = {r.seq}, !.seq = r.seq + 1]

\* Mutant: the terminal takes the number of the last event.
FinishRecordingOffByOne(r, err) ==
    [r EXCEPT !.finished = TRUE, !.end = r.seq - 1, !.err = err]

(***************************************************************************)
(* Finish up to the call of SaveStream: the terminal takes the next        *)
(* number, and the recording is finished whatever becomes of the save.     *)
(***************************************************************************)
FinishRecording(r, err) ==
    [r EXCEPT !.finished = TRUE, !.end = r.seq, !.seq = r.seq + 1, !.err = err]

RecordedPair(r) ==
    [typ |-> r.typ, sends |-> r.sends, halfClose |-> r.halfClose,
     recvs |-> r.recvs, end |-> r.end, err |-> r.err]

(***************************************************************************)
(* StreamReplay.                                                           *)
(***************************************************************************)
NewReplay(pair) ==
    [pair |-> pair, sendIdx |-> 0, recvIdx |-> 0, mismatch |-> "none"]

TerminalErr(rp) == IF rp.pair.err THEN "error" ELSE "eof"

\* Mutant: the live message is compared unscrubbed.
SendResultUnscrubbed(rp, scrub, message) ==
    IF rp.mismatch # "none" THEN "mismatch"
    ELSE IF rp.sendIdx >= Len(rp.pair.sends) THEN TerminalErr(rp)
    ELSE IF message # rp.pair.sends[rp.sendIdx + 1].message THEN "mismatch"
    ELSE "nil"

(***************************************************************************)
(* What Send returns: the sticky mismatch, the terminal past the last      *)
(* recorded send (the message is neither scrubbed nor compared), a new     *)
(* mismatch, or nil.                                                       *)
(***************************************************************************)
SendResult(rp, scrub, message) ==
    IF rp.mismatch # "none" THEN "mismatch"
    ELSE IF rp.sendIdx >= Len(rp.pair.sends) THEN TerminalErr(rp)
    ELSE IF scrub[message] # rp.pair.sends[rp.sendIdx + 1].message
    THEN "mismatch"
    ELSE "nil"

Send(rp, scrub, message) ==
    IF SendResult(rp, scrub, message) = "nil"
    THEN [rp EXCEPT !.sendIdx = @ + 1]
    ELSE IF SendResult(rp, scrub, message) = "mismatch" /\ rp.mismatch = "none"
    THEN [rp EXCEPT !.mismatch = "send"]
    ELSE rp

HalfClose(rp) ==
    IF rp.mismatch = "none" /\ rp.sendIdx < Len(rp.pair.sends)
    THEN [rp EXCEPT !.mismatch = "half_close"] ELSE rp

\* Mutant: reads go on after a mismatch.
RecvResultAfterMismatch(rp) ==
    IF rp.recvIdx >= Len(rp.pair.recvs) THEN TerminalErr(rp) ELSE "message"

(***************************************************************************)
(* What Recv returns: the sticky mismatch, the terminal once every frame   *)
(* was delivered (and again at every later call), or the next message,     *)
(* verbatim.                                                               *)
(***************************************************************************)
RecvResult(rp) ==
    IF rp.mismatch # "none" THEN "mismatch"
    ELSE IF rp.recvIdx >= Len(rp.pair.recvs) THEN TerminalErr(rp)
    ELSE "message"

\* Mutant: a message waits for the sends that were recorded before it.
RecvGatedOnSends(rp) ==
    IF /\ RecvResult(rp) = "message"
       /\ \A i \in rp.sendIdx + 1 .. Len(rp.pair.sends) :
              rp.pair.sends[i].seq > rp.pair.recvs[rp.recvIdx + 1].seq
    THEN [rp EXCEPT !.recvIdx = @ + 1] ELSE rp

Recv(rp) ==
    IF RecvResult(rp) = "message" THEN [rp EXCEPT !.recvIdx = @ + 1] ELSE rp
=============================================================================
