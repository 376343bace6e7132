----------------------------- MODULE GrpcStream -----------------------------
(***************************************************************************)
(* The gRPC stream interceptor, go/adapters/grpc/stream.go: one streamed   *)
(* RPC recorded through recordStream, then replayed, in a later run of the *)
(* same client, through replayStream.                                      *)
(*                                                                         *)
(* Client code drives a stream with two goroutines, which is what grpc-go  *)
(* allows: one calls SendMsg and CloseSend, the other RecvMsg.  Each call  *)
(* of the wrapper is a live call followed by a note in the recording, and  *)
(* the other goroutine can run in between; every access to the recording   *)
(* itself is one step under its mutex.  The live stream and the server are *)
(* external and are modelled by what grpc-go promises their user.          *)
(***************************************************************************)
EXTENDS StreamHandle

CONSTANTS
    Messages,       \* wire bytes of a message (marshalling is deterministic)
    Scrub,          \* the session's frame scrub hook
    Codes,          \* status codes an error terminal may carry
    MaxSends,       \* bound: SendMsg calls of one run
    MaxRecvs        \* bound: messages the server sends

ASSUME GrpcAssumption ==
    /\ Scrub \in [Messages -> Messages]
    /\ Codes \subseteq STRING
    /\ MaxSends \in Nat /\ MaxRecvs \in Nat

VARIABLES
    typ,            \* streamTypeOf(desc)
    stage,          \* which run this is, and whether its stream is open
    rec, key,       \* recordStream.rec and the fingerprint it opened under
    finished,       \* recordStream.finished
    sender,         \* the goroutine of SendMsg and CloseSend, in a call
    receiver,       \* the goroutine of RecvMsg, in a call
    live,           \* the live stream and its server
    cassette,       \* fingerprint -> the saved pair
    rp, openErr,    \* replayStream.rp and replayStream.openErr
    calls           \* history: what each run called and was told

vars == <<typ, stage, rec, key, finished, sender, receiver, live, cassette,
          rp, openErr, calls>>

recordVars == <<rec, key, finished, sender, receiver, live, cassette>>

replayVars == <<rp, openErr>>

NoRecording == [finished |-> FALSE]

NoReplay == [mismatch |-> "none"]

Idle == [at |-> "idle"]

Runs == {"record", "replay"}

Init ==
    /\ typ \in StreamTypes
    /\ stage = "start"
    /\ rec = NoRecording /\ key = << >>
    /\ finished = FALSE
    /\ sender = Idle /\ receiver = Idle
    /\ live = [wire |-> << >>, closed |-> FALSE, done |-> FALSE,
               outbox |-> << >>, sent |-> 0, end |-> "open"]
    /\ cassette = [k \in {} |-> NoRecording]
    /\ rp = NoReplay /\ openErr = FALSE
    /\ calls = [run \in Runs |->
                   [sends |-> << >>, closes |-> 0, got |-> << >>]]

(***************************************************************************)
(* Histories.                                                              *)
(***************************************************************************)
Called(run, m) == [calls EXCEPT ![run].sends = Append(@, m)]

Closed(run) == [calls EXCEPT ![run].closes = @ + 1]

Got(run, result) == [calls EXCEPT ![run].got = Append(@, result)]

Message(m) == <<"message", m>>

\* A read that ends a stream: EOF, or an error with a status code.
Terminal(code) == <<"terminal", code>>

Ended(run) ==
    \E i \in DOMAIN calls[run].got : calls[run].got[i][1] = "terminal"

-----------------------------------------------------------------------------
(***************************************************************************)
(* The live stream.                                                        *)
(***************************************************************************)

\* A message of a streaming response; the handler of a server stream runs
\* once it has its request.
ServerSends(m) ==
    /\ stage = "record"
    /\ typ # "client" /\ live.end = "open"
    /\ typ = "server" => live.wire # << >>
    /\ live.sent < MaxRecvs
    /\ live' = [live EXCEPT !.outbox = Append(@, m), !.sent = @ + 1]
    /\ UNCHANGED <<typ, stage, rec, key, finished, sender, receiver, cassette,
                   replayVars, calls>>

\* The terminal.  A client stream that succeeds carries its one response;
\* any stream may fail at any time.
ServerEnds(code, m) ==
    /\ stage = "record"
    /\ live.end = "open"
    /\ code = "EOF" /\ typ = "server" => live.wire # << >>
    /\ live' = [live EXCEPT !.end = code,
                            !.outbox = IF typ # "client" THEN @
                                       ELSE IF code = "EOF" THEN <<m>>
                                       ELSE << >>]
    /\ UNCHANGED <<typ, stage, rec, key, finished, sender, receiver, cassette,
                   replayVars, calls>>

-----------------------------------------------------------------------------
(***************************************************************************)
(* Recording.                                                              *)
(***************************************************************************)

\* Mutant: the request is hashed before it is scrubbed.
StreamOpenKeyUnscrubbed(m) ==
    IF typ = "server" THEN <<"msg_hash", m>> ELSE <<"n", 0>>

\* streamOpen: a server stream is addressed by its scrubbed request, the
\* others by the occurrence counter, here at its first value.
StreamOpenKey(m) == IF typ = "server" THEN <<"msg_hash", Scrub[m]>>
                    ELSE <<"n", 0>>

NewRecordStream(opened) ==
    /\ stage = "start"
    /\ IF typ = "server" THEN UNCHANGED <<rec, key>>
       ELSE rec' = NewRecording(typ) /\ key' = <<"n", 0>>
    /\ stage' = IF opened THEN "record" ELSE "failed"
    /\ UNCHANGED <<typ, finished, sender, receiver, live, cassette, replayVars,
                   calls>>

\* SendMsg up to the live call: ensureOpen.  A generated client sends one
\* request on a server stream and nothing after CloseSend.
SendMsg(m) ==
    /\ stage = "record"
    /\ sender = Idle
    /\ calls["record"].closes = 0
    /\ Len(calls["record"].sends) < IF typ = "server" THEN 1 ELSE MaxSends
    /\ IF rec # NoRecording THEN UNCHANGED <<rec, key>>
       ELSE rec' = NewRecording(typ) /\ key' = StreamOpenKey(m)
    /\ sender' = [at |-> "send", message |-> m]
    /\ calls' = Called("record", m)
    /\ UNCHANGED <<typ, stage, finished, receiver, live, cassette, replayVars>>

\* The live SendMsg.  It can fail once the stream has ended, and does once
\* RecvMsg returned the terminal or an earlier send failed.
LiveSendMsg(ok) ==
    /\ sender.at = "send"
    /\ ok => ~live.done
    /\ ~ok => live.end # "open"
    /\ live' = IF ok THEN [live EXCEPT !.wire = Append(@, sender.message)]
               ELSE [live EXCEPT !.done = TRUE]
    /\ sender' = IF ok THEN [sender EXCEPT !.at = "sent"] ELSE Idle
    /\ UNCHANGED <<typ, stage, rec, key, finished, receiver, cassette,
                   replayVars, calls>>

NoteSend ==
    /\ sender.at = "sent"
    /\ rec' = RecordSend(rec, Scrub, sender.message)
    /\ sender' = Idle
    /\ UNCHANGED <<typ, stage, key, finished, receiver, live, cassette,
                   replayVars, calls>>

\* CloseSend up to the return of the live call.
CloseSend(ok) ==
    /\ stage = "record"
    /\ sender = Idle
    /\ calls["record"].closes = 0
    /\ live' = [live EXCEPT !.closed = ok /\ live.end = "open"]
    /\ sender' = IF ok THEN [at |-> "closed"] ELSE Idle
    /\ calls' = Closed("record")
    /\ UNCHANGED <<typ, stage, rec, key, finished, receiver, cassette,
                   replayVars>>

NoteHalfClose ==
    /\ sender.at = "closed"
    /\ rec' = IF rec = NoRecording THEN rec ELSE RecordHalfClose(rec)
    /\ sender' = Idle
    /\ UNCHANGED <<typ, stage, key, finished, receiver, live, cassette,
                   replayVars, calls>>

\* Mutant: one lock for both goroutines.
RecvMsgWaitsForSender ==
    /\ stage = "record"
    /\ receiver = Idle /\ sender = Idle
    /\ live.outbox = << >>
    /\ live.end # "open"
    /\ receiver' = [at |-> "end", result |-> Terminal(live.end)]
    /\ live' = [live EXCEPT !.done = TRUE]
    /\ UNCHANGED <<typ, stage, rec, key, finished, sender, cassette, replayVars,
                   calls>>

\* RecvMsg up to the return of the live call: a message, or the terminal.
\* The message of a client stream is its terminal too.  A message that came
\* off the wire can be marshalled again.
RecvMsg ==
    /\ stage = "record"
    /\ receiver = Idle
    /\ \/ /\ live.outbox # << >>
          /\ receiver' = [at |-> "got", message |-> Head(live.outbox)]
          /\ live' = [live EXCEPT !.outbox = Tail(@), !.done = @ \/ typ = "client"]
       \/ /\ live.outbox = << >>
          /\ live.end # "open"
          /\ receiver' = [at |-> "end", result |-> Terminal(live.end)]
          /\ live' = [live EXCEPT !.done = TRUE]
    /\ UNCHANGED <<typ, stage, rec, key, finished, sender, cassette, replayVars,
                   calls>>

\* Mutant: the response of a client stream is noted after finish, which drops it.
NoteRecvAfterFinish ==
    /\ receiver.at = "got"
    /\ rec' = IF rec = NoRecording \/ typ = "client" THEN rec
              ELSE RecordRecv(rec, Scrub, receiver.message)
    /\ receiver' = IF rec # NoRecording /\ typ = "client"
                   THEN [at |-> "end", result |-> Message(receiver.message)]
                   ELSE Idle
    /\ calls' = IF receiver'.at = "idle"
                THEN Got("record", Message(receiver.message)) ELSE calls
    /\ UNCHANGED <<typ, stage, key, finished, sender, live, cassette,
                   replayVars>>

NoteRecv ==
    /\ receiver.at = "got"
    /\ IF rec = NoRecording
       THEN receiver' = Idle /\ UNCHANGED rec
       ELSE /\ rec' = RecordRecv(rec, Scrub, receiver.message)
            /\ receiver' = IF typ = "client"
                           THEN [at |-> "end",
                                 result |-> Message(receiver.message)]
                           ELSE Idle
    /\ calls' = IF receiver'.at = "idle"
                THEN Got("record", Message(receiver.message)) ELSE calls
    /\ UNCHANGED <<typ, stage, key, finished, sender, live, cassette,
                   replayVars>>

\* finish: once, and only with an open recording, the terminal is recorded
\* and the pair saved; a failed save is the result of the read.
TerminalCode(result) ==
    IF result[1] = "message" \/ result[2] = "EOF" THEN "OK"
    ELSE IF result[2] = "OK" THEN "Unknown" ELSE result[2]

FinishStream(saved) ==
    LET code == TerminalCode(receiver.result)
        failed == receiver.result[1] = "terminal" /\ receiver.result[2] # "EOF"
        r == FinishRecording(rec, failed)
    IN
    /\ receiver.at = "end"
    /\ IF finished \/ rec = NoRecording
       THEN UNCHANGED <<rec, finished, cassette>>
       ELSE /\ rec' = r /\ finished' = TRUE
            /\ cassette' = IF saved /\ ValidateStreamPair(RecordedPair(r))
                           THEN WriteFile(cassette, key,
                                    [pair |-> RecordedPair(r), code |-> code])
                           ELSE cassette
    /\ calls' = IF Ended("record") THEN calls
                ELSE Got("record", receiver.result)
    /\ receiver' = Idle
    /\ UNCHANGED <<typ, stage, key, sender, live, replayVars>>

-----------------------------------------------------------------------------
(***************************************************************************)
(* Replaying.                                                              *)
(***************************************************************************)

\* The recording run is over and the client is run again: a client or bidi
\* stream is opened by the interceptor call, which reports a miss itself.
NewReplayStream ==
    /\ stage \in {"record", "failed"}
    /\ sender = Idle /\ receiver = Idle
    /\ IF typ = "server" THEN stage' = "replay" /\ UNCHANGED rp
       ELSE IF <<"n", 0>> \in DOMAIN cassette
       THEN stage' = "replay" /\ rp' = NewReplay(cassette[<<"n", 0>>].pair)
       ELSE stage' = "missed" /\ UNCHANGED rp
    /\ UNCHANGED <<typ, recordVars, openErr, calls>>

\* Mutant: the recorded status code is of a type the reader does not know.
RecordedStatusUnknown == "Unknown"

\* recordedStatusErr: what an error terminal is turned back into.
RecordedStatus ==
    IF cassette[key].code = "OK" THEN "Unknown" ELSE cassette[key].code

\* mapErr on the result of a replay operation.
MapErr(result) ==
    IF result = "error" THEN Terminal(RecordedStatus)
    ELSE IF result = "eof" THEN Terminal("EOF")
    ELSE <<result, "none">>

\* SendMsg: the deferred open of a server stream is sticky when it fails.
ReplaySendMsg(m) ==
    LET k == StreamOpenKey(m)
        found == rp # NoReplay \/ k \in DOMAIN cassette
        opened == IF rp # NoReplay THEN rp ELSE NewReplay(cassette[k].pair)
    IN
    /\ stage = "replay"
    /\ calls["replay"].closes = 0
    /\ Len(calls["replay"].sends) < IF typ = "server" THEN 1 ELSE MaxSends
    /\ calls' = Called("replay", m)
    /\ IF openErr \/ ~found
       THEN openErr' = TRUE /\ UNCHANGED rp
       ELSE rp' = Send(opened, Scrub, m) /\ UNCHANGED openErr
    /\ UNCHANGED <<typ, stage, recordVars>>

\* CloseSend, RecvMsg: replay() fails before a deferred open, or after one
\* that failed.
ReplayCloseSend ==
    /\ stage = "replay"
    /\ calls["replay"].closes = 0
    /\ calls' = Closed("replay")
    /\ rp' = IF openErr \/ rp = NoReplay THEN rp ELSE HalfClose(rp)
    /\ UNCHANGED <<typ, stage, recordVars, openErr>>

ReplayRecvMsg ==
    /\ stage = "replay"
    /\ ~openErr /\ rp # NoReplay
    /\ Len(calls["replay"].got) <= MaxRecvs + 1
    /\ rp' = Recv(rp)
    /\ calls' = Got("replay",
                    IF RecvResult(rp) = "message"
                    THEN Message(rp.pair.recvs[rp.recvIdx + 1].message)
                    ELSE MapErr(RecvResult(rp)))
    /\ UNCHANGED <<typ, stage, recordVars, openErr>>

-----------------------------------------------------------------------------
SenderStep ==
    \/ \E m \in Messages : SendMsg(m)
    \/ \E ok \in BOOLEAN : LiveSendMsg(ok) \/ CloseSend(ok)
    \/ NoteSend
    \/ NoteHalfClose

ReceiverStep ==
    \/ RecvMsg
    \/ NoteRecv
    \/ \E saved \in BOOLEAN : FinishStream(saved)

ServerStep ==
    \/ \E m \in Messages : ServerSends(m)
    \/ \E m \in Messages, code \in Codes \cup {"EOF"} : ServerEnds(code, m)

ReplayStep ==
    \/ NewReplayStream
    \/ \E m \in Messages : ReplaySendMsg(m)
    \/ ReplayCloseSend
    \/ ReplayRecvMsg

Next ==
    \/ \E opened \in BOOLEAN : NewRecordStream(opened)
    \/ SenderStep
    \/ ReceiverStep
    \/ ServerStep
    \/ ReplayStep

Spec == Init /\ [][Next]_vars

\* The reading goroutine keeps reading.  Nothing is assumed of the sending
\* one, which flow control may block for good, nor of the server.
FairSpec == Spec /\ WF_vars(ReceiverStep)

-----------------------------------------------------------------------------
(***************************************************************************)
(* Properties.                                                             *)
(***************************************************************************)
Frames == [seq : Nat, message : Messages]

Recordings == [typ : StreamTypes, seq : Nat, sends : Seq(Frames),
               recvs : Seq(Frames), halfClose : SUBSET Nat,
               finished : BOOLEAN, end : Nat, err : BOOLEAN]

MessagesOf(frames) == [i \in DOMAIN frames |-> frames[i].message]

\* The messages among the reads of a run, scrubbed, in order.
MessagesRead(run) ==
    LET got == calls[run].got
        upTo[i \in 0 .. Len(got)] ==
            IF i = 0 THEN << >>
            ELSE IF got[i][1] = "message"
            THEN Append(upTo[i - 1], Scrub[got[i][2]])
            ELSE upTo[i - 1]
    IN  upTo[Len(got)]

\* However the two goroutines interleave, the saved pair has every message
\* RecvMsg handed to the client, in order, and the messages that went out on
\* the wire, in order, but for at most the last one, whose RecordSend came
\* after the terminal.
SavedPairIsWhatHappened ==
    \A k \in DOMAIN cassette :
        LET p == cassette[k].pair IN
        /\ MessagesOf(p.recvs) = MessagesRead("record")
        /\ Len(p.sends) \in {Len(live.wire) - 1, Len(live.wire)}
        /\ \A i \in DOMAIN p.sends :
                p.sends[i].message = Scrub[live.wire[i]]

\* The replaying client does what the recording client did: the same
\* messages up to scrubbing, and CloseSend at the same point.
SameCalls ==
    LET was == calls["record"]
        now == calls["replay"]
    IN
    /\ \A i \in DOMAIN now.sends :
            i \in DOMAIN was.sends /\ Scrub[now.sends[i]] = Scrub[was.sends[i]]
    /\ now.closes > 0 => was.closes > 0 /\ Len(now.sends) = Len(was.sends)

\* A client that repeats what it did while recording is never told of a miss
\* or a mismatch, whatever the recording lost to the race with the terminal:
\* a send past the last recorded one is the end of the stream, and an
\* unrecorded half-close is accepted.
FaithfulClientIsServed ==
    stage \in {"replay", "missed"} /\ DOMAIN cassette # {} /\ SameCalls =>
        stage = "replay" /\ ~openErr /\ rp.mismatch = "none"

\* What a read of the recording run looks like when replayed.
Replayed(result) ==
    IF result[1] = "message" THEN Message(Scrub[result[2]])
    ELSE IF result[2] = "OK" THEN Terminal("Unknown") ELSE result

\* As long as nothing mismatches, the reads of the replay are the reads of
\* the recording run: the messages, scrubbed once, then the same terminal
\* with the same status code, then that terminal again and again.
ReadsAreReplayed ==
    LET was == calls["record"].got
        now == calls["replay"].got
    IN
    rp.mismatch = "none" =>
        \A i \in DOMAIN now :
            IF i \in DOMAIN was THEN now[i] = Replayed(was[i])
            ELSE now[i][1] = "terminal"

\* A stream that ended is recorded as soon as the client reads on, even when
\* its sending goroutine never returns from the live stream.
TerminalIsRecorded ==
    (stage = "record" /\ rec # NoRecording /\ live.end # "open") ~>
        (finished \/ stage # "record")

\* The format's account of half-close: the recorder "observes the client's
\* own half-close synchronously at the call site, so a half-close that
\* precedes the terminal is always sequenced before it".
HalfCloseBeforeTerminal ==
    \A k \in DOMAIN cassette : live.closed => cassette[k].pair.halfClose # {}
=============================================================================
