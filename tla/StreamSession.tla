--------------------------- MODULE StreamSession ---------------------------
(***************************************************************************)
(* Streamed record and replay over one cassette directory, after           *)
(* go/session.go, go/stream_session.go and go/stream_cassette.go.          *)
(*                                                                         *)
(* A session is one FileSession of one process; each owns its occurrence   *)
(* counters.  Recording sessions log live streams and save each one at its *)
(* terminal, by four file operations that nothing makes atomic; replaying  *)
(* sessions open the saved pairs, by two reads.  All of them share the     *)
(* directory.  A recording process may crash at any moment, and any file   *)
(* operation may fail.                                                     *)
(*                                                                         *)
(* A stream is identified by what the adapter fingerprints at open: id     *)
(* stands for adapter, identity and stream type, and an id in CounterIds   *)
(* is counter-addressed (StreamOpen.Counter).  The fingerprint is <<id,    *)
(* n>>; the hash that abbreviates it to 32 bits is taken to be injective.  *)
(***************************************************************************)
EXTENDS StreamHandle, FiniteSets

CONSTANTS
    RecHandles,     \* the StreamRecording objects there may be
    RepHandles,     \* the StreamReplay objects there may be
    Sessions,       \* the FileSession objects
    SessionOf,      \* the session that opens a handle
    Ids,            \* what streams are identified by at open
    CounterIds,     \* the ids disambiguated by the occurrence counter
    TypeOf,         \* the stream type, which is part of the id
    Messages,       \* raw message bytes
    Scrub,          \* the frame scrub hook of each session
    MaxFrames       \* bound: messages of one recording or one replay

ASSUME SessionAssumption ==
    /\ RecHandles \cap RepHandles = {}
    /\ SessionOf \in [RecHandles \cup RepHandles -> Sessions]
    /\ CounterIds \subseteq Ids
    /\ TypeOf \in [Ids -> StreamTypes]
    /\ Scrub \in [Sessions -> [Messages -> Messages]]
    /\ MaxFrames \in Nat

VARIABLES
    streamN,        \* occurrence counters of every session
    reqFiles,       \* the directory: fingerprint -> content of its req file
    respFiles,      \*            and fingerprint -> content of its resp file
    phase,          \* where every handle is in its life
    fp,             \* the fingerprint a handle was opened under
    rec,            \* the StreamRecording records
    rep,            \* the StreamReplay records
    seenReq,        \* req file read by an open that has yet to read resp
    opens,          \* history: the handles every session opened, in order
    raw             \* history: the unscrubbed messages a client sent

vars == <<streamN, reqFiles, respFiles, phase, fp, rec, rep, seenReq, opens,
          raw>>

Handles == RecHandles \cup RepHandles

NoFingerprint == << >>

(***************************************************************************)
(* The steps of SaveStream: two os.WriteFile calls, each of which opens    *)
(* (and truncates) the file and then writes it.                            *)
(***************************************************************************)
SavePhases == {"openReq", "writeReq", "openResp", "writeResp"}

RecPhases == {"idle", "recording"} \cup SavePhases
                \cup {"saved", "failed", "refused", "crashed"}

RepPhases == {"idle", "readReq", "readResp", "replaying", "miss", "malformed",
              "shape"}

(***************************************************************************)
(* What a recording or replay slot holds before it is opened.              *)
(***************************************************************************)
EmptyRecording == NewRecording("server")

EmptyReplay == NewReplay(RecordedPair(EmptyRecording))

Init ==
    /\ streamN = [s \in Sessions |-> [id \in Ids |-> 0]]
    /\ reqFiles = [f \in {} |-> Absent]
    /\ respFiles = [f \in {} |-> Absent]
    /\ phase = [h \in Handles |-> "idle"]
    /\ fp = [h \in Handles |-> NoFingerprint]
    /\ rec = [h \in RecHandles |-> EmptyRecording]
    /\ rep = [h \in RepHandles |-> EmptyReplay]
    /\ seenReq = [h \in RepHandles |-> Absent]
    /\ opens = [s \in Sessions |-> << >>]
    /\ raw = [h \in Handles |-> << >>]

-----------------------------------------------------------------------------
(***************************************************************************)
(* Opening.                                                                *)
(***************************************************************************)

(***************************************************************************)
(* nextStreamN and streamOpenFingerprint: a counter-addressed open takes   *)
(* the session's count for the id and advances it; a content-addressed     *)
(* one has n = -1 and leaves the counters alone.                           *)
(***************************************************************************)
StreamOpenFingerprint(s, id) ==
    <<id, IF id \in CounterIds THEN streamN[s][id] ELSE -1>>

\* Mutant: the counter is read and not advanced.
NextStreamNForgotten(s, id) == streamN

NextStreamN(s, id) ==
    IF id \in CounterIds THEN [streamN EXCEPT ![s][id] = @ + 1] ELSE streamN

SessionAlive(s) ==
    \A h \in RecHandles : SessionOf[h] = s => phase[h] # "crashed"

OpenStreamRecord(h, id) ==
    LET s == SessionOf[h] IN
    /\ phase[h] = "idle"
    /\ SessionAlive(s)
    /\ fp' = [fp EXCEPT ![h] = StreamOpenFingerprint(s, id)]
    /\ streamN' = NextStreamN(s, id)
    /\ rec' = [rec EXCEPT ![h] = NewRecording(TypeOf[id])]
    /\ phase' = [phase EXCEPT ![h] = "recording"]
    /\ opens' = [opens EXCEPT ![s] = Append(@, h)]
    /\ UNCHANGED <<reqFiles, respFiles, rep, seenReq, raw>>

\* Mutant: only an open that finds its files consumes the counter.
OpenStreamReplayCountsHits(h, id) ==
    LET s == SessionOf[h]
        f == StreamOpenFingerprint(s, id)
    IN
    /\ phase[h] = "idle"
    /\ fp' = [fp EXCEPT ![h] = f]
    /\ streamN' = IF f \in DOMAIN reqFiles THEN NextStreamN(s, id) ELSE streamN
    /\ phase' = [phase EXCEPT ![h] = "readReq"]
    /\ opens' = [opens EXCEPT ![s] = Append(@, h)]
    /\ UNCHANGED <<reqFiles, respFiles, rec, rep, seenReq, raw>>

(***************************************************************************)
(* OpenStreamReplay up to LoadStream: the counter is consumed before       *)
(* anything is known about the files.                                      *)
(***************************************************************************)
OpenStreamReplay(h, id) ==
    LET s == SessionOf[h] IN
    /\ phase[h] = "idle"
    /\ fp' = [fp EXCEPT ![h] = StreamOpenFingerprint(s, id)]
    /\ streamN' = NextStreamN(s, id)
    /\ phase' = [phase EXCEPT ![h] = "readReq"]
    /\ opens' = [opens EXCEPT ![s] = Append(@, h)]
    /\ UNCHANGED <<reqFiles, respFiles, rec, rep, seenReq, raw>>

(***************************************************************************)
(* LoadStream reads the req file; without a readable one it returns.       *)
(***************************************************************************)
ReadReq(h) ==
    LET file == ReadStreamFile(reqFiles, fp[h]) IN
    /\ phase[h] = "readReq"
    /\ phase' = [phase EXCEPT ![h] = IF file \in {Absent, Truncated}
                                     THEN LoadStream(file, Absent)
                                     ELSE "readResp"]
    /\ seenReq' = [seenReq EXCEPT ![h] = file]
    /\ UNCHANGED <<streamN, reqFiles, respFiles, fp, rec, rep, opens, raw>>

(***************************************************************************)
(* It then reads the resp file and decides; OpenStreamReplay refuses a     *)
(* pair recorded with another stream type.                                 *)
(***************************************************************************)
ReadResp(h) ==
    LET file == ReadStreamFile(respFiles, fp[h])
        loaded == LoadStream(seenReq[h], file)
        pair == PairOf(seenReq[h], file)
    IN
    /\ phase[h] = "readResp"
    /\ \/ /\ loaded # "ok"
          /\ phase' = [phase EXCEPT ![h] = loaded]
          /\ UNCHANGED rep
       \/ /\ loaded = "ok"
          /\ pair.typ # TypeOf[fp[h][1]]
          /\ phase' = [phase EXCEPT ![h] = "shape"]
          /\ UNCHANGED rep
       \/ /\ loaded = "ok"
          /\ pair.typ = TypeOf[fp[h][1]]
          /\ phase' = [phase EXCEPT ![h] = "replaying"]
          /\ rep' = [rep EXCEPT ![h] = NewReplay(pair)]
    /\ UNCHANGED <<streamN, reqFiles, respFiles, fp, rec, seenReq, opens, raw>>

-----------------------------------------------------------------------------
(***************************************************************************)
(* Recording a live stream.                                                *)
(***************************************************************************)

(***************************************************************************)
(* The recording's mutex is free: Finish holds it while it saves.  A call  *)
(* that comes after Finish finds the recording finished and is dropped.    *)
(***************************************************************************)
Unlocked(h) == phase[h] \in {"recording", "saved", "failed", "refused"}

FramesOf(r) == Len(r.sends) + Len(r.recvs)

ObserveSend(h, message) ==
    /\ Unlocked(h)
    /\ FramesOf(rec[h]) < MaxFrames
    /\ rec' = [rec EXCEPT ![h] = RecordSend(@, Scrub[SessionOf[h]], message)]
    /\ raw' = IF rec[h].finished THEN raw
              ELSE [raw EXCEPT ![h] = Append(@, message)]
    /\ UNCHANGED <<streamN, reqFiles, respFiles, phase, fp, rep, seenReq,
                   opens>>

ObserveRecv(h, message) ==
    /\ Unlocked(h)
    /\ FramesOf(rec[h]) < MaxFrames
    /\ rec' = [rec EXCEPT ![h] = RecordRecv(@, Scrub[SessionOf[h]], message)]
    /\ UNCHANGED <<streamN, reqFiles, respFiles, phase, fp, rep, seenReq,
                   opens, raw>>

ObserveHalfClose(h) ==
    /\ Unlocked(h)
    /\ rec' = [rec EXCEPT ![h] = RecordHalfClose(@)]
    /\ UNCHANGED <<streamN, reqFiles, respFiles, phase, fp, rep, seenReq,
                   opens, raw>>

(***************************************************************************)
(* Finish: the terminal is sequenced, the pair assembled and validated.    *)
(* SaveStream refuses a pair that ValidateStreamPair rejects.  A second    *)
(* call is an error and does nothing.                                      *)
(***************************************************************************)
Finish(h, err) ==
    LET r == FinishRecording(rec[h], err) IN
    /\ Unlocked(h)
    /\ ~rec[h].finished
    /\ rec' = [rec EXCEPT ![h] = r]
    /\ phase' = [phase EXCEPT ![h] =
                    IF ValidateStreamPair(RecordedPair(r)) THEN "openReq"
                    ELSE "refused"]
    /\ UNCHANGED <<streamN, reqFiles, respFiles, fp, rep, seenReq, opens, raw>>

(***************************************************************************)
(* SaveStream, one file operation at a time.                               *)
(***************************************************************************)
OpenReqFile(h) ==
    /\ phase[h] = "openReq"
    /\ reqFiles' = WriteFile(reqFiles, fp[h], Truncated)
    /\ phase' = [phase EXCEPT ![h] = "writeReq"]
    /\ UNCHANGED <<streamN, respFiles, fp, rec, rep, seenReq, opens, raw>>

WriteReqFile(h) ==
    /\ phase[h] = "writeReq"
    /\ reqFiles' = WriteFile(reqFiles, fp[h], ReqFile(RecordedPair(rec[h])))
    /\ phase' = [phase EXCEPT ![h] = "openResp"]
    /\ UNCHANGED <<streamN, respFiles, fp, rec, rep, seenReq, opens, raw>>

OpenRespFile(h) ==
    /\ phase[h] = "openResp"
    /\ respFiles' = WriteFile(respFiles, fp[h], Truncated)
    /\ phase' = [phase EXCEPT ![h] = "writeResp"]
    /\ UNCHANGED <<streamN, reqFiles, fp, rec, rep, seenReq, opens, raw>>

WriteRespFile(h) ==
    /\ phase[h] = "writeResp"
    /\ respFiles' = WriteFile(respFiles, fp[h], RespFile(RecordedPair(rec[h])))
    /\ phase' = [phase EXCEPT ![h] = "saved"]
    /\ UNCHANGED <<streamN, reqFiles, fp, rec, rep, seenReq, opens, raw>>

(***************************************************************************)
(* A file operation fails (no such directory, disk full): SaveStream       *)
(* returns the error and does not clean up after itself.                   *)
(***************************************************************************)
FileOperationFails(h) ==
    /\ phase[h] \in SavePhases
    /\ phase' = [phase EXCEPT ![h] = "failed"]
    /\ UNCHANGED <<streamN, reqFiles, respFiles, fp, rec, rep, seenReq, opens,
                   raw>>

(***************************************************************************)
(* The recording process dies: every recording of the session that has not *)
(* been saved is lost, and the session opens no more.                      *)
(***************************************************************************)
Crash(s) ==
    /\ \E h \in RecHandles : /\ SessionOf[h] = s
                             /\ phase[h] \in {"recording"} \cup SavePhases
    /\ phase' = [h \in Handles |->
                    IF /\ h \in RecHandles
                       /\ SessionOf[h] = s
                       /\ phase[h] \in {"recording"} \cup SavePhases
                    THEN "crashed" ELSE phase[h]]
    /\ UNCHANGED <<streamN, reqFiles, respFiles, fp, rec, rep, seenReq, opens,
                   raw>>

-----------------------------------------------------------------------------
(***************************************************************************)
(* Replaying.                                                              *)
(***************************************************************************)

ReplaySend(h, message) ==
    /\ phase[h] = "replaying"
    /\ Len(raw[h]) < MaxFrames
    /\ rep' = [rep EXCEPT ![h] = Send(@, Scrub[SessionOf[h]], message)]
    /\ raw' = [raw EXCEPT ![h] = Append(@, message)]
    /\ UNCHANGED <<streamN, reqFiles, respFiles, phase, fp, rec, seenReq,
                   opens>>

ReplayHalfClose(h) ==
    /\ phase[h] = "replaying"
    /\ rep' = [rep EXCEPT ![h] = HalfClose(@)]
    /\ UNCHANGED <<streamN, reqFiles, respFiles, phase, fp, rec, seenReq,
                   opens, raw>>

ReplayRecv(h) ==
    /\ phase[h] = "replaying"
    /\ rep' = [rep EXCEPT ![h] = Recv(@)]
    /\ UNCHANGED <<streamN, reqFiles, respFiles, phase, fp, rec, seenReq,
                   opens, raw>>

-----------------------------------------------------------------------------
RecordStep(h) ==
    \/ \E id \in Ids : OpenStreamRecord(h, id)
    \/ \E m \in Messages : ObserveSend(h, m) \/ ObserveRecv(h, m)
    \/ ObserveHalfClose(h)
    \/ \E err \in BOOLEAN : Finish(h, err)
    \/ FileOperationFails(h)

SaveStep(h) ==
    \/ OpenReqFile(h)
    \/ WriteReqFile(h)
    \/ OpenRespFile(h)
    \/ WriteRespFile(h)

ReplayStep(h) ==
    \/ \E id \in Ids : OpenStreamReplay(h, id)
    \/ ReadReq(h)
    \/ ReadResp(h)
    \/ \E m \in Messages : ReplaySend(h, m)
    \/ ReplayHalfClose(h)
    \/ ReplayRecv(h)

Next ==
    \/ \E h \in RecHandles : RecordStep(h) \/ SaveStep(h)
    \/ \E h \in RepHandles : ReplayStep(h)
    \/ \E s \in Sessions : Crash(s)

Spec == Init /\ [][Next]_vars

(***************************************************************************)
(* A client that keeps reading: the fairness is that of its read loop.     *)
(* Nothing is assumed of its sends.                                        *)
(***************************************************************************)
ReadingClients == \A h \in RepHandles : WF_vars(ReplayRecv(h))

FairSpec == Spec /\ ReadingClients

-----------------------------------------------------------------------------
(***************************************************************************)
(* Types.                                                                  *)
(***************************************************************************)
Fingerprints == Ids \X (Nat \cup {-1})

Frames == [seq : Nat, message : Messages]

Pairs == [typ : StreamTypes, sends : Seq(Frames), halfClose : SUBSET Nat,
          recvs : Seq(Frames), end : Nat, err : BOOLEAN]

Recordings == [typ : StreamTypes, seq : Nat, sends : Seq(Frames),
               recvs : Seq(Frames), halfClose : SUBSET Nat,
               finished : BOOLEAN, end : Nat, err : BOOLEAN]

Replays == [pair : Pairs, sendIdx : Nat, recvIdx : Nat,
            mismatch : {"none", "send", "half_close"}]

ReqContents == {Truncated} \cup
    [shape : {"stream"}, typ : StreamTypes, frames : Seq(Frames),
     halfClose : SUBSET Nat]

RespContents == {Truncated} \cup
    [shape : {"stream"}, frames : Seq(Frames), end : Nat, err : BOOLEAN]

\* The type invariant of the session state of stream_session.go: counters,
\* files, handles and histories have the shapes the code gives them.
TypeOK ==
    /\ streamN \in [Sessions -> [Ids -> Nat]]
    /\ DOMAIN reqFiles \subseteq Fingerprints
    /\ \A f \in DOMAIN reqFiles : reqFiles[f] \in ReqContents
    /\ DOMAIN respFiles \subseteq Fingerprints
    /\ \A f \in DOMAIN respFiles : respFiles[f] \in RespContents
    /\ phase \in [Handles -> RecPhases \cup RepPhases]
    /\ \A h \in RecHandles : phase[h] \in RecPhases
    /\ \A h \in RepHandles : phase[h] \in RepPhases
    /\ fp \in [Handles -> Fingerprints \cup {NoFingerprint}]
    /\ \A h \in Handles : phase[h] # "idle" => fp[h] \in Fingerprints
    /\ rec \in [RecHandles -> Recordings]
    /\ rep \in [RepHandles -> Replays]
    /\ seenReq \in [RepHandles -> ReqContents \cup {Absent}]
    /\ opens \in [Sessions -> Seq(Handles)]
    /\ raw \in [Handles -> Seq(Messages)]

-----------------------------------------------------------------------------
(***************************************************************************)
(* Recording.                                                              *)
(***************************************************************************)
NumbersUsed(r) == SeqsBeforeEnd(r) \cup (IF r.finished THEN {r.end} ELSE {})

DenselyNumbered(r) ==
    /\ NumbersUsed(r) = 0 .. (r.seq - 1)
    /\ StrictlyAscending(r.sends)
    /\ StrictlyAscending(r.recvs)
    /\ SeqsOf(r.sends) \cap SeqsOf(r.recvs) = {}
    /\ r.halfClose \cap (SeqsOf(r.sends) \cup SeqsOf(r.recvs)) = {}
    /\ \A p, q \in r.halfClose : p = q
    /\ r.finished => r.end = r.seq - 1 /\ r.end \notin SeqsBeforeEnd(r)

\* StreamRecording numbers its events densely: the send frames, the recv
\* frames, the half-close and the terminal share out 0 .. seq-1 without a gap
\* and without a duplicate, however the two directions interleave, and
\* nothing is numbered after the terminal (spec, Ordering).
DenseNumbering == \A h \in RecHandles : DenselyNumbered(rec[h])

\* SaveStream never refuses the pair its own recorder assembled: the
\* validation in SaveStream is a check that Finish cannot fail.
SaveNeverRefused == \A h \in RecHandles : phase[h] # "refused"

\* The recordings of one session with the same id: no two opens of a
\* counter-addressed id get one fingerprint, so no stream of a session
\* overwrites another.
CounterSeparates ==
    \A g, h \in RecHandles :
        /\ g # h
        /\ SessionOf[g] = SessionOf[h]
        /\ phase[g] # "idle" /\ phase[h] # "idle"
        /\ fp[g][1] \in CounterIds
        => fp[g] # fp[h]

(***************************************************************************)
(* The directory.                                                          *)
(***************************************************************************)
\* One session does all the recording, and every id is counter-addressed: no
\* two recordings have the same fingerprint.  The properties that follow hold
\* of such instances.
SingleWriter ==
    /\ CounterIds = Ids
    /\ \A g, h \in RecHandles : SessionOf[g] = SessionOf[h]

Load(f) == LoadStream(ReadStreamFile(reqFiles, f),
                      ReadStreamFile(respFiles, f))

LoadedPair(f) == PairOf(reqFiles[f], respFiles[f])

\* Whatever was interrupted (a crash between the two files, a failed write,
\* a save still under way), a pair that LoadStream accepts is the whole of
\* one recording: half of a conversation is never taken for a conversation.
LoadableIsOneRecording ==
    \A f \in DOMAIN reqFiles \cup DOMAIN respFiles :
        Load(f) = "ok" =>
            \E h \in RecHandles :
                /\ fp[h] = f
                /\ rec[h].finished
                /\ LoadedPair(f) = RecordedPair(rec[h])

\* What Finish reported as saved stays loadable and stays what it was,
\* whatever is recorded, fails to be written or dies after it.
SavedStaysLoadable ==
    \A h \in RecHandles :
        phase[h] = "saved" =>
            /\ Load(fp[h]) = "ok"
            /\ LoadedPair(fp[h]) = RecordedPair(rec[h])

(***************************************************************************)
(* Replaying.                                                              *)
(***************************************************************************)

\* How many of the first i opens of session s were of this id.
OpensOf(s, i, id) == Cardinality({j \in 1 .. i : fp[opens[s][j]][1] = id})

\* The i-th open of session s among its opens of the same id.
Ordinal(s, i) == OpensOf(s, i, fp[opens[s][i]][1])

\* g is the recording that replay handle h stands for: opened for the same
\* counter-addressed id, at the same ordinal of its own session.
Counterpart(g, h) ==
    \E s, t \in Sessions : \E i \in DOMAIN opens[s], j \in DOMAIN opens[t] :
        /\ g = opens[s][i] /\ g \in RecHandles
        /\ h = opens[t][j] /\ h \in RepHandles
        /\ fp[g][1] = fp[h][1] /\ fp[g][1] \in CounterIds
        /\ Ordinal(s, i) = Ordinal(t, j)

\* The k-th open of an id in the replaying session is served the k-th
\* recording of that id, whatever became of the other opens: a recording
\* that was never saved, or an open that missed, shifts nothing (the counter
\* is "consumed identically in record and replay modes", hit or miss).
KthOpenServesKthRecording ==
    \A h \in RepHandles :
        phase[h] = "replaying" /\ fp[h][1] \in CounterIds =>
            \E g \in RecHandles :
                Counterpart(g, h) /\ rep[h].pair = RecordedPair(rec[g])

\* An open is refused only when its recording is not on disk: a replay never
\* misses (or finds malformed) a stream whose save had completed when the
\* open read the file it refused.
RefusedOnlyIfUnsaved ==
    [][\A h \in RepHandles :
         /\ phase[h] \in {"readReq", "readResp"}
         /\ phase'[h] \in {"miss", "malformed", "shape"}
         => ~\E g \in RecHandles : Counterpart(g, h) /\ phase[g] = "saved"]_vars

\* Send validation neither cries wolf nor looks away: the sends a replay
\* accepted are, message by message, the recorded ones up to the two
\* sessions' scrub hooks; a send mismatch means the offending message differs
\* from the recorded one after scrubbing, a half-close mismatch that recorded
\* sends were still due.
MismatchIffDivergent ==
    \A g \in RecHandles, h \in RepHandles :
        Counterpart(g, h) /\ phase[h] = "replaying" =>
            LET Rec(i) == Scrub[SessionOf[g]][raw[g][i]]
                Live(i) == Scrub[SessionOf[h]][raw[h][i]]
                due == rep[h].sendIdx + 1
            IN
            /\ \A i \in 1 .. rep[h].sendIdx : Live(i) = Rec(i)
            /\ rep[h].mismatch = "send" =>
                    due <= Len(raw[g]) /\ Live(due) # Rec(due)
            /\ rep[h].mismatch = "half_close" => due <= Len(raw[g])

\* A mismatch is terminal: nothing is delivered and nothing accepted on a
\* stream after it, and the error stays the first one.
MismatchIsTerminal ==
    [][\A h \in RepHandles :
         rep[h].mismatch # "none" => rep'[h] = rep[h]]_vars

\* Reads are never gated on sends: a client that keeps reading gets every
\* recorded message and the terminal even if it sends nothing at all, unless
\* the stream failed on a mismatch.
ReadsReachTerminal ==
    \A h \in RepHandles :
        (phase[h] = "replaying") ~>
            \/ rep[h].mismatch # "none"
            \/ RecvResult(rep[h]) \in {"eof", "error"}
=============================================================================
