------------------------ MODULE StreamSession_proofs ------------------------
(***************************************************************************)
(* Proofs about StreamSession for any number of sessions, handles, ids,    *)
(* messages and frames.                                                    *)
(*                                                                         *)
(* Recording comes first: types, the numbering of events, the counters and *)
(* the directory.  Then what a replaying session is served: the k-th open  *)
(* of an id gets the k-th recording of that id, only an unsaved recording  *)
(* is refused, and send validation is exact.  Four facts are kept by every *)
(* step there: fingerprints count the opens of an id (OrdinalInv), a       *)
(* replay holds what its fingerprint's recording saved (ServedInv),        *)
(* recorded messages are the scrubbed live ones (RecordedInv) and a replay *)
(* has compared what it was sent (ComparedInv).  Last comes the refinement *)
(* of Conversation.                                                        *)
(***************************************************************************)
EXTENDS StreamRefinement, SequenceTheorems, FiniteSetTheorems, TLAPS

(***************************************************************************)
(* The operations of StreamHandle keep the shapes of the records.          *)
(***************************************************************************)

\* A frame built by RecordSend or RecordRecv is a frame.
LEMMA FrameType ==
    ASSUME NEW q \in Nat, NEW m \in Messages
    PROVE  StreamFrame(q, m) \in Frames
BY DEF StreamFrame, Frames

\* The record OpenStreamRecord creates is a recording.
LEMMA NewRecordingType ==
    ASSUME NEW typ \in StreamTypes
    PROVE  NewRecording(typ) \in Recordings
<1>1. << >> \in Seq(Frames)
  OBVIOUS
<1> QED
  BY <1>1 DEF NewRecording, Recordings

\* RecordSend returns a recording.
LEMMA RecordSendType ==
    ASSUME NEW r \in Recordings, NEW f \in [Messages -> Messages],
           NEW m \in Messages
    PROVE  RecordSend(r, f, m) \in Recordings
<1>1. StreamFrame(r.seq, f[m]) \in Frames
  BY FrameType DEF Recordings
<1>2. Append(r.sends, StreamFrame(r.seq, f[m])) \in Seq(Frames)
  BY <1>1, AppendProperties DEF Recordings
<1>3. r.seq + 1 \in Nat
  BY DEF Recordings
<1> QED
  BY <1>2, <1>3 DEF RecordSend, Recordings

\* RecordRecv returns a recording.
LEMMA RecordRecvType ==
    ASSUME NEW r \in Recordings, NEW f \in [Messages -> Messages],
           NEW m \in Messages
    PROVE  RecordRecv(r, f, m) \in Recordings
<1>1. StreamFrame(r.seq, f[m]) \in Frames
  BY FrameType DEF Recordings
<1>2. Append(r.recvs, StreamFrame(r.seq, f[m])) \in Seq(Frames)
  BY <1>1, AppendProperties DEF Recordings
<1>3. r.seq + 1 \in Nat
  BY DEF Recordings
<1> QED
  BY <1>2, <1>3 DEF RecordRecv, Recordings

\* RecordHalfClose returns a recording.
LEMMA RecordHalfCloseType ==
    ASSUME NEW r \in Recordings
    PROVE  RecordHalfClose(r) \in Recordings
<1>1. r.seq + 1 \in Nat /\ {r.seq} \in SUBSET Nat
  BY DEF Recordings
<1> QED
  BY <1>1 DEF RecordHalfClose, Recordings

\* Finish leaves a recording.
LEMMA FinishType ==
    ASSUME NEW r \in Recordings, NEW err \in BOOLEAN
    PROVE  FinishRecording(r, err) \in Recordings
<1>1. r.seq + 1 \in Nat
  BY DEF Recordings
<1> QED
  BY <1>1 DEF FinishRecording, Recordings

\* What a recording saves is a pair.
LEMMA RecordedPairType ==
    ASSUME NEW r \in Recordings
    PROVE  RecordedPair(r) \in Pairs
BY DEF RecordedPair, Recordings, Pairs

\* The handle OpenStreamReplay returns is a replay.
LEMMA NewReplayType ==
    ASSUME NEW p \in Pairs
    PROVE  NewReplay(p) \in Replays
BY DEF NewReplay, Replays

\* Send, HalfClose and Recv leave a replay.
LEMMA ReplayOpTypes ==
    ASSUME NEW rp \in Replays
    PROVE  /\ \A f, m : Send(rp, f, m) \in Replays
           /\ HalfClose(rp) \in Replays
           /\ Recv(rp) \in Replays
BY DEF Send, HalfClose, Recv, Replays

\* The req file of a pair is a possible content of a req file, and likewise
\* its resp file.
LEMMA FileTypes ==
    ASSUME NEW p \in Pairs
    PROVE  ReqFile(p) \in ReqContents /\ RespFile(p) \in RespContents
BY DEF ReqFile, RespFile, ReqContents, RespContents, Pairs

\* Two files that LoadStream accepts make a pair.
LEMMA LoadedPairType ==
    ASSUME NEW rq \in ReqContents \cup {Absent},
           NEW rs \in RespContents \cup {Absent},
           LoadStream(rq, rs) = "ok"
    PROVE  PairOf(rq, rs) \in Pairs
<1>1. rq \notin {Absent, Truncated} /\ rs \notin {Absent, Truncated}
  BY DEF LoadStream
<1>2. /\ rq \in [shape : {"stream"}, typ : StreamTypes, frames : Seq(Frames),
                 halfClose : SUBSET Nat]
      /\ rs \in [shape : {"stream"}, frames : Seq(Frames), end : Nat,
                 err : BOOLEAN]
  BY <1>1 DEF ReqContents, RespContents
<1> QED
  BY <1>2 DEF PairOf, Pairs

\* The outcomes of LoadStream.
LEMMA LoadStreamType ==
    \A rq, rs : LoadStream(rq, rs) \in {"miss", "malformed", "shape", "ok"}
BY DEF LoadStream

\* Without a readable req file LoadStream reports a miss or a malformed pair.
LEMMA UnreadableReq ==
    \A rq \in {Absent, Truncated} : LoadStream(rq, Absent) \in {"miss", "malformed"}
BY DEF LoadStream, Absent, Truncated

(***************************************************************************)
(* Type correctness.                                                       *)
(***************************************************************************)

\* The initial state is well typed.
LEMMA InitTypeOK == Init => TypeOK
<1> SUFFICES ASSUME Init PROVE TypeOK
  OBVIOUS
<1>1. EmptyRecording \in Recordings
  BY NewRecordingType DEF EmptyRecording, StreamTypes
<1>2. EmptyReplay \in Replays
  BY <1>1, RecordedPairType, NewReplayType DEF EmptyReplay
<1>3. opens \in [Sessions -> Seq(Handles)] /\ raw \in [Handles -> Seq(Messages)]
  BY DEF Init
<1> QED
  BY <1>1, <1>2, <1>3 DEF Init, TypeOK, Handles, RecPhases, RepPhases

\* Opening a handle takes a fingerprint and leaves natural-number counters.
LEMMA OpenTypes ==
    ASSUME TypeOK, NEW s \in Sessions, NEW id \in Ids
    PROVE  /\ StreamOpenFingerprint(s, id) \in Fingerprints
           /\ NextStreamN(s, id) \in [Sessions -> [Ids -> Nat]]
<1>1. streamN[s][id] \in Nat
  BY DEF TypeOK
<1> QED
  BY <1>1 DEF StreamOpenFingerprint, NextStreamN, Fingerprints, TypeOK

\* Every step keeps the types.
LEMMA NextTypeOK == TypeOK /\ [Next]_vars => TypeOK'
<1> SUFFICES ASSUME TypeOK, [Next]_vars PROVE TypeOK'
  OBVIOUS
<1> USE SessionAssumption DEF Handles
<1>1. ASSUME NEW h \in RecHandles, NEW id \in Ids, OpenStreamRecord(h, id)
      PROVE  TypeOK'
  <2>1. SessionOf[h] \in Sessions
    OBVIOUS
  <2>2. /\ StreamOpenFingerprint(SessionOf[h], id) \in Fingerprints
        /\ NextStreamN(SessionOf[h], id) \in [Sessions -> [Ids -> Nat]]
    BY <2>1, OpenTypes
  <2>3. NewRecording(TypeOf[id]) \in Recordings
    BY NewRecordingType
  <2>4. Append(opens[SessionOf[h]], h) \in Seq(Handles)
    BY <2>1, AppendProperties DEF TypeOK
  <2> QED
    BY <1>1, <2>1, <2>2, <2>3, <2>4 DEF OpenStreamRecord, TypeOK, RecPhases
<1>2. ASSUME NEW h \in RecHandles, NEW m \in Messages, ObserveSend(h, m)
      PROVE  TypeOK'
  <2>1. RecordSend(rec[h], Scrub[SessionOf[h]], m) \in Recordings
    BY RecordSendType DEF TypeOK
  <2>2. Append(raw[h], m) \in Seq(Messages)
    BY AppendProperties DEF TypeOK
  <2> QED
    BY <1>2, <2>1, <2>2 DEF ObserveSend, TypeOK
<1>3. ASSUME NEW h \in RecHandles, NEW m \in Messages, ObserveRecv(h, m)
      PROVE  TypeOK'
  <2>1. RecordRecv(rec[h], Scrub[SessionOf[h]], m) \in Recordings
    BY RecordRecvType DEF TypeOK
  <2> QED
    BY <1>3, <2>1 DEF ObserveRecv, TypeOK
<1>4. ASSUME NEW h \in RecHandles, ObserveHalfClose(h)
      PROVE  TypeOK'
  <2>1. RecordHalfClose(rec[h]) \in Recordings
    BY RecordHalfCloseType DEF TypeOK
  <2> QED
    BY <1>4, <2>1 DEF ObserveHalfClose, TypeOK
<1>5. ASSUME NEW h \in RecHandles, NEW err \in BOOLEAN, Finish(h, err)
      PROVE  TypeOK'
  <2>1. FinishRecording(rec[h], err) \in Recordings
    BY FinishType DEF TypeOK
  <2>2. phase[h] # "idle"
    BY <1>5 DEF Finish, Unlocked
  <2> QED
    BY <1>5, <2>1, <2>2 DEF Finish, TypeOK, RecPhases, SavePhases
<1>6. ASSUME NEW h \in RecHandles, SaveStep(h)
      PROVE  TypeOK'
  <2>1. phase[h] \in SavePhases /\ fp[h] \in Fingerprints
    BY <1>6 DEF SaveStep, OpenReqFile, WriteReqFile, OpenRespFile,
                WriteRespFile, SavePhases, TypeOK
  <2>2. /\ ReqFile(RecordedPair(rec[h])) \in ReqContents
        /\ RespFile(RecordedPair(rec[h])) \in RespContents
    BY RecordedPairType, FileTypes DEF TypeOK
  <2>3. Truncated \in ReqContents /\ Truncated \in RespContents
    BY DEF ReqContents, RespContents
  <2>4. CASE OpenReqFile(h)
    BY <2>1, <2>3, <2>4 DEF OpenReqFile, WriteFile, TypeOK, RecPhases, SavePhases
  <2>5. CASE WriteReqFile(h)
    BY <2>1, <2>2, <2>5 DEF WriteReqFile, WriteFile, TypeOK, RecPhases, SavePhases
  <2>6. CASE OpenRespFile(h)
    BY <2>1, <2>3, <2>6 DEF OpenRespFile, WriteFile, TypeOK, RecPhases, SavePhases
  <2>7. CASE WriteRespFile(h)
    BY <2>1, <2>2, <2>7 DEF WriteRespFile, WriteFile, TypeOK, RecPhases, SavePhases
  <2> QED
    BY <1>6, <2>4, <2>5, <2>6, <2>7 DEF SaveStep
<1>7. ASSUME NEW h \in RecHandles, FileOperationFails(h)
      PROVE  TypeOK'
  BY <1>7 DEF FileOperationFails, TypeOK, RecPhases, SavePhases
<1>8. ASSUME NEW h \in RepHandles, NEW id \in Ids, OpenStreamReplay(h, id)
      PROVE  TypeOK'
  <2>1. SessionOf[h] \in Sessions
    OBVIOUS
  <2>2. /\ StreamOpenFingerprint(SessionOf[h], id) \in Fingerprints
        /\ NextStreamN(SessionOf[h], id) \in [Sessions -> [Ids -> Nat]]
    BY <2>1, OpenTypes
  <2>3. Append(opens[SessionOf[h]], h) \in Seq(Handles)
    BY <2>1, AppendProperties DEF TypeOK
  <2> QED
    BY <1>8, <2>1, <2>2, <2>3 DEF OpenStreamReplay, TypeOK, RepPhases
<1>9. ASSUME NEW h \in RepHandles, ReadReq(h)
      PROVE  TypeOK'
  <2> DEFINE file == ReadStreamFile(reqFiles, fp[h])
  <2>1. file \in ReqContents \cup {Absent}
    BY DEF ReadStreamFile, TypeOK
  <2>2. (IF file \in {Absent, Truncated} THEN LoadStream(file, Absent)
         ELSE "readResp") \in RepPhases
    BY UnreadableReq DEF RepPhases
  <2>3. phase[h] # "idle"
    BY <1>9 DEF ReadReq
  <2> QED
    BY <1>9, <2>1, <2>2, <2>3 DEF ReadReq, TypeOK
<1>10. ASSUME NEW h \in RepHandles, ReadResp(h)
       PROVE  TypeOK'
  <2> DEFINE file == ReadStreamFile(respFiles, fp[h])
             loaded == LoadStream(seenReq[h], file)
             pair == PairOf(seenReq[h], file)
  <2>1. file \in RespContents \cup {Absent}
    BY DEF ReadStreamFile, TypeOK
  <2>2. loaded = "ok" => NewReplay(pair) \in Replays
    BY <2>1, LoadedPairType, NewReplayType DEF TypeOK
  <2>3. loaded \in {"miss", "malformed", "shape", "ok"}
    BY LoadStreamType
  <2>4. phase[h] # "idle"
    BY <1>10 DEF ReadResp
  <2> HIDE DEF file, loaded, pair
  <2>5. \/ phase' = [phase EXCEPT ![h] = loaded] /\ loaded # "ok" /\ rep' = rep
        \/ phase' = [phase EXCEPT ![h] = "shape"] /\ rep' = rep
        \/ /\ phase' = [phase EXCEPT ![h] = "replaying"] /\ loaded = "ok"
           /\ rep' = [rep EXCEPT ![h] = NewReplay(pair)]
    BY <1>10 DEF ReadResp, file, loaded, pair
  <2>6. UNCHANGED <<streamN, reqFiles, respFiles, fp, rec, seenReq, opens, raw>>
    BY <1>10 DEF ReadResp
  <2>7. rep' \in [RepHandles -> Replays]
    BY <2>2, <2>5 DEF TypeOK
  <2>8. PICK p \in RepPhases : p # "idle" /\ phase' = [phase EXCEPT ![h] = p]
    BY <2>3, <2>5 DEF RepPhases
  <2>9. /\ phase' \in [Handles -> RecPhases \cup RepPhases]
        /\ \A g \in Handles : g # h => phase'[g] = phase[g]
        /\ phase'[h] = p
    BY <2>8 DEF TypeOK
  <2>10. /\ \A g \in RecHandles : phase'[g] \in RecPhases
         /\ \A g \in RepHandles : phase'[g] \in RepPhases
         /\ \A g \in Handles : phase'[g] # "idle" => fp[g] \in Fingerprints
    BY <2>4, <2>8, <2>9 DEF TypeOK
  <2> QED
    BY <2>6, <2>7, <2>9, <2>10 DEF TypeOK
<1>11. ASSUME NEW h \in RepHandles, NEW m \in Messages, ReplaySend(h, m)
       PROVE  TypeOK'
  <2>1. Send(rep[h], Scrub[SessionOf[h]], m) \in Replays
    BY ReplayOpTypes DEF TypeOK
  <2>2. Append(raw[h], m) \in Seq(Messages)
    BY AppendProperties DEF TypeOK
  <2> QED
    BY <1>11, <2>1, <2>2 DEF ReplaySend, TypeOK
<1>12. ASSUME NEW h \in RepHandles, ReplayHalfClose(h)
       PROVE  TypeOK'
  <2>1. HalfClose(rep[h]) \in Replays
    BY ReplayOpTypes DEF TypeOK
  <2> QED
    BY <1>12, <2>1 DEF ReplayHalfClose, TypeOK
<1>13. ASSUME NEW h \in RepHandles, ReplayRecv(h)
       PROVE  TypeOK'
  <2>1. Recv(rep[h]) \in Replays
    BY ReplayOpTypes DEF TypeOK
  <2> QED
    BY <1>13, <2>1 DEF ReplayRecv, TypeOK
<1>14. ASSUME NEW s \in Sessions, Crash(s)
       PROVE  TypeOK'
  <2>1. \A h \in Handles : phase'[h] = phase[h]
                            \/ (h \in RecHandles /\ phase[h] # "idle"
                                /\ phase'[h] = "crashed")
    BY <1>14 DEF Crash, SavePhases
  <2>2. \A h \in Handles : phase'[h] \in RecPhases \cup RepPhases
    BY <2>1 DEF TypeOK, RecPhases
  <2>3. phase' \in [Handles -> RecPhases \cup RepPhases]
    BY <1>14, <2>2 DEF Crash
  <2>4. /\ \A h \in RecHandles : phase'[h] \in RecPhases
        /\ \A h \in RepHandles : phase'[h] \in RepPhases
    BY <2>1 DEF TypeOK, RecPhases
  <2>5. \A h \in Handles : phase'[h] # "idle" => fp[h] \in Fingerprints
    BY <2>1 DEF TypeOK
  <2>6. UNCHANGED <<streamN, reqFiles, respFiles, fp, rec, rep, seenReq, opens,
                    raw>>
    BY <1>14 DEF Crash
  <2> QED
    BY <2>3, <2>4, <2>5, <2>6 DEF TypeOK
<1>15. CASE UNCHANGED vars
  BY <1>15 DEF vars, TypeOK
<1>16. ASSUME NEW h \in RecHandles, RecordStep(h)
       PROVE  TypeOK'
  BY <1>1, <1>2, <1>3, <1>4, <1>5, <1>7, <1>16 DEF RecordStep
<1>17. ASSUME NEW h \in RepHandles, ReplayStep(h)
       PROVE  TypeOK'
  BY <1>8, <1>9, <1>10, <1>11, <1>12, <1>13, <1>17 DEF ReplayStep
<1> QED
  BY <1>6, <1>14, <1>15, <1>16, <1>17 DEF Next

\* Type correctness of the session state, for every instance.
THEOREM TypeCorrect == Spec => []TypeOK
<1> QED
  BY InitTypeOK, NextTypeOK, PTL DEF Spec

(***************************************************************************)
(* Dense numbering.                                                        *)
(***************************************************************************)

\* Appending a frame adds its number to the numbers of a direction.
LEMMA SeqsOfAppend ==
    ASSUME NEW s \in Seq(Frames), NEW f \in Frames
    PROVE  SeqsOf(Append(s, f)) = SeqsOf(s) \cup {f.seq}
<1> DEFINE t == Append(s, f)
<1>1. /\ DOMAIN s = 1 .. Len(s) /\ Len(s) \in Nat
      /\ DOMAIN t = 1 .. Len(s) + 1
      /\ \A i \in 1 .. Len(s) : t[i] = s[i]
      /\ t[Len(s) + 1] = f
  BY AppendProperties, LenProperties
<1> HIDE DEF t
<1>2. SeqsOf(t) \subseteq SeqsOf(s) \cup {f.seq}
  BY <1>1 DEF SeqsOf
<1>3. SeqsOf(s) \subseteq SeqsOf(t)
  BY <1>1 DEF SeqsOf
<1>4. f.seq \in SeqsOf(t)
  <2>1. Len(s) + 1 \in DOMAIN t
    BY <1>1
  <2> QED
    BY <1>1, <2>1 DEF SeqsOf
<1> QED
  BY <1>2, <1>3, <1>4 DEF t

\* A direction stays in ascending order when a frame with a larger number
\* than all of its own is appended.
LEMMA AscendingAppend ==
    ASSUME NEW s \in Seq(Frames), NEW f \in Frames,
           StrictlyAscending(s), \A q \in SeqsOf(s) : q < f.seq
    PROVE  StrictlyAscending(Append(s, f))
<1> DEFINE t == Append(s, f)
<1>1. /\ DOMAIN s = 1 .. Len(s) /\ Len(s) \in Nat
      /\ DOMAIN t = 1 .. Len(s) + 1
      /\ \A i \in 1 .. Len(s) : t[i] = s[i]
      /\ t[Len(s) + 1] = f
  BY AppendProperties, LenProperties
<1> HIDE DEF t
<1> SUFFICES ASSUME NEW i \in DOMAIN t, NEW j \in DOMAIN t, i < j
             PROVE  t[i].seq < t[j].seq
  BY DEF StrictlyAscending, t
<1>2. CASE j = Len(s) + 1
  <2>1. i \in DOMAIN s /\ t[i] = s[i] /\ s[i].seq \in SeqsOf(s)
    BY <1>1, <1>2 DEF SeqsOf
  <2> QED
    BY <1>1, <1>2, <2>1
<1>3. CASE j # Len(s) + 1
  <2>1. i \in DOMAIN s /\ j \in DOMAIN s /\ t[i] = s[i] /\ t[j] = s[j]
    BY <1>1, <1>3
  <2> QED
    BY <2>1 DEF StrictlyAscending
<1> QED
  BY <1>2, <1>3

\* A recording that has just been opened is densely numbered.
LEMMA NewRecordingDense ==
    ASSUME NEW typ
    PROVE  DenselyNumbered(NewRecording(typ))
<1> DEFINE r == NewRecording(typ)
<1>1. SeqsOf(<< >>) = {} /\ StrictlyAscending(<< >>)
  BY DEF SeqsOf, StrictlyAscending
<1>2. r.sends = << >> /\ r.recvs = << >> /\ r.halfClose = {}
      /\ ~r.finished /\ r.seq = 0
  BY DEF NewRecording
<1>3. 0 .. (0 - 1) = {}
  OBVIOUS
<1> QED
  BY <1>1, <1>2, <1>3 DEF DenselyNumbered, NumbersUsed, SeqsBeforeEnd

\* RecordSend gives the next number to the frame it appends.
LEMMA RecordSendDense ==
    ASSUME NEW r \in Recordings, NEW f \in [Messages -> Messages],
           NEW m \in Messages, DenselyNumbered(r)
    PROVE  DenselyNumbered(RecordSend(r, f, m))
<1>1. CASE r.finished
  BY <1>1 DEF RecordSend
<1>2. CASE ~r.finished
  <2> DEFINE frame == StreamFrame(r.seq, f[m])
             w == RecordSend(r, f, m)
  <2>1. frame \in Frames /\ frame.seq = r.seq
    BY FrameType DEF Recordings, StreamFrame
  <2>2. /\ r.seq \in Nat /\ r.sends \in Seq(Frames) /\ r.recvs \in Seq(Frames)
        /\ r.halfClose \subseteq Nat
    BY DEF Recordings
  <2>3. /\ w.sends = Append(r.sends, frame) /\ w.recvs = r.recvs
        /\ w.halfClose = r.halfClose /\ w.seq = r.seq + 1 /\ ~w.finished
    BY <1>2 DEF RecordSend, Recordings
  <2>4. SeqsBeforeEnd(r) = 0 .. (r.seq - 1)
    BY <1>2 DEF DenselyNumbered, NumbersUsed
  <2>5. SeqsOf(w.sends) = SeqsOf(r.sends) \cup {r.seq}
    BY <2>1, <2>2, <2>3, SeqsOfAppend
  <2>6. \A q \in SeqsBeforeEnd(r) : q < r.seq
    BY <2>2, <2>4
  <2>7. StrictlyAscending(w.sends)
    BY <2>1, <2>2, <2>3, <2>6, AscendingAppend DEF DenselyNumbered, SeqsBeforeEnd
  <2>8. NumbersUsed(w) = (0 .. (r.seq - 1)) \cup {r.seq}
    BY <2>3, <2>4, <2>5 DEF NumbersUsed, SeqsBeforeEnd
  <2>9. (0 .. (r.seq - 1)) \cup {r.seq} = 0 .. (w.seq - 1)
    BY <2>2, <2>3
  <2>10. r.seq \notin SeqsBeforeEnd(r)
    BY <2>2, <2>6
  <2> HIDE DEF frame, w
  <2>11. /\ SeqsOf(w.sends) \cap SeqsOf(w.recvs) = {}
         /\ w.halfClose \cap (SeqsOf(w.sends) \cup SeqsOf(w.recvs)) = {}
    BY <2>3, <2>5, <2>10 DEF DenselyNumbered, SeqsBeforeEnd
  <2>12. DenselyNumbered(w)
    BY <2>3, <2>7, <2>8, <2>9, <2>11 DEF DenselyNumbered
  <2> QED
    BY <2>12 DEF w
<1> QED
  BY <1>1, <1>2

\* RecordRecv gives the next number to the frame it appends.
LEMMA RecordRecvDense ==
    ASSUME NEW r \in Recordings, NEW f \in [Messages -> Messages],
           NEW m \in Messages, DenselyNumbered(r)
    PROVE  DenselyNumbered(RecordRecv(r, f, m))
<1>1. CASE r.finished
  BY <1>1 DEF RecordRecv
<1>2. CASE ~r.finished
  <2> DEFINE frame == StreamFrame(r.seq, f[m])
             w == RecordRecv(r, f, m)
  <2>1. frame \in Frames /\ frame.seq = r.seq
    BY FrameType DEF Recordings, StreamFrame
  <2>2. /\ r.seq \in Nat /\ r.sends \in Seq(Frames) /\ r.recvs \in Seq(Frames)
        /\ r.halfClose \subseteq Nat
    BY DEF Recordings
  <2>3. /\ w.recvs = Append(r.recvs, frame) /\ w.sends = r.sends
        /\ w.halfClose = r.halfClose /\ w.seq = r.seq + 1 /\ ~w.finished
    BY <1>2 DEF RecordRecv, Recordings
  <2>4. SeqsBeforeEnd(r) = 0 .. (r.seq - 1)
    BY <1>2 DEF DenselyNumbered, NumbersUsed
  <2>5. SeqsOf(w.recvs) = SeqsOf(r.recvs) \cup {r.seq}
    BY <2>1, <2>2, <2>3, SeqsOfAppend
  <2>6. \A q \in SeqsBeforeEnd(r) : q < r.seq
    BY <2>2, <2>4
  <2>7. StrictlyAscending(w.recvs)
    BY <2>1, <2>2, <2>3, <2>6, AscendingAppend DEF DenselyNumbered, SeqsBeforeEnd
  <2>8. NumbersUsed(w) = (0 .. (r.seq - 1)) \cup {r.seq}
    BY <2>3, <2>4, <2>5 DEF NumbersUsed, SeqsBeforeEnd
  <2>9. (0 .. (r.seq - 1)) \cup {r.seq} = 0 .. (w.seq - 1)
    BY <2>2, <2>3
  <2>10. r.seq \notin SeqsBeforeEnd(r)
    BY <2>2, <2>6
  <2> HIDE DEF frame, w
  <2>11. /\ SeqsOf(w.sends) \cap SeqsOf(w.recvs) = {}
         /\ w.halfClose \cap (SeqsOf(w.sends) \cup SeqsOf(w.recvs)) = {}
    BY <2>3, <2>5, <2>10 DEF DenselyNumbered, SeqsBeforeEnd
  <2>12. DenselyNumbered(w)
    BY <2>3, <2>7, <2>8, <2>9, <2>11 DEF DenselyNumbered
  <2> QED
    BY <2>12 DEF w
<1> QED
  BY <1>1, <1>2

\* RecordHalfClose takes the next number, at most once.
LEMMA RecordHalfCloseDense ==
    ASSUME NEW r \in Recordings, DenselyNumbered(r)
    PROVE  DenselyNumbered(RecordHalfClose(r))
<1>1. CASE r.finished \/ r.halfClose # {}
  BY <1>1 DEF RecordHalfClose
<1>2. CASE ~r.finished /\ r.halfClose = {}
  <2> DEFINE w == RecordHalfClose(r)
  <2>1. r.seq \in Nat
    BY DEF Recordings
  <2>2. /\ w.sends = r.sends /\ w.recvs = r.recvs /\ w.halfClose = {r.seq}
        /\ w.seq = r.seq + 1 /\ ~w.finished
    BY <1>2 DEF RecordHalfClose, Recordings
  <2>3. SeqsBeforeEnd(r) = 0 .. (r.seq - 1)
    BY <1>2 DEF DenselyNumbered, NumbersUsed
  <2>4. r.seq \notin SeqsBeforeEnd(r)
    BY <2>1, <2>3
  <2> HIDE DEF w
  <2>5. NumbersUsed(w) = (0 .. (r.seq - 1)) \cup {r.seq}
    BY <1>2, <2>2, <2>3 DEF NumbersUsed, SeqsBeforeEnd
  <2>6. (0 .. (r.seq - 1)) \cup {r.seq} = 0 .. (w.seq - 1)
    BY <2>1, <2>2
  <2>7. DenselyNumbered(w)
    BY <2>2, <2>4, <2>5, <2>6 DEF DenselyNumbered, SeqsBeforeEnd
  <2> QED
    BY <2>7 DEF w
<1> QED
  BY <1>1, <1>2

\* Finish gives the terminal the next number, the largest of all.
LEMMA FinishDense ==
    ASSUME NEW r \in Recordings, NEW err \in BOOLEAN, DenselyNumbered(r),
           ~r.finished
    PROVE  /\ DenselyNumbered(FinishRecording(r, err))
           /\ ValidateStreamPair(RecordedPair(FinishRecording(r, err)))
<1> DEFINE w == FinishRecording(r, err)
           p == RecordedPair(w)
<1>1. /\ r.seq \in Nat /\ r.typ \in StreamTypes
      /\ \A q \in SeqsBeforeEnd(r) : q \in Nat /\ q < r.seq
  BY DEF Recordings, DenselyNumbered, NumbersUsed
<1>2. /\ w.sends = r.sends /\ w.recvs = r.recvs /\ w.halfClose = r.halfClose
      /\ w.seq = r.seq + 1 /\ w.finished /\ w.end = r.seq /\ w.typ = r.typ
  BY DEF FinishRecording, Recordings
<1>3. /\ p.sends = r.sends /\ p.recvs = r.recvs /\ p.halfClose = r.halfClose
      /\ p.end = r.seq /\ p.typ = r.typ
  BY <1>2 DEF RecordedPair
<1> HIDE DEF w, p
<1>4. SeqsBeforeEnd(w) = SeqsBeforeEnd(r) /\ SeqsBeforeEnd(p) = SeqsBeforeEnd(r)
  BY <1>2, <1>3 DEF SeqsBeforeEnd
<1>5. SeqsBeforeEnd(r) = 0 .. (r.seq - 1)
  BY DEF DenselyNumbered, NumbersUsed
<1>6. NumbersUsed(w) = (0 .. (r.seq - 1)) \cup {r.seq}
  BY <1>2, <1>4, <1>5 DEF NumbersUsed
<1>7. (0 .. (r.seq - 1)) \cup {r.seq} = 0 .. (w.seq - 1)
  BY <1>1, <1>2
<1>8. w.end = w.seq - 1 /\ w.end \notin SeqsBeforeEnd(w)
  BY <1>1, <1>2, <1>4
<1>9. DenselyNumbered(w)
  BY <1>2, <1>6, <1>7, <1>8 DEF DenselyNumbered
<1>10. ValidateStreamPair(p)
  BY <1>1, <1>3, <1>4 DEF ValidateStreamPair, DenselyNumbered
<1> QED
  BY <1>9, <1>10 DEF w, p

\* Dense numbering and the success of SaveStream's validation go together:
\* Finish is the only step that can refuse, and it meets a dense recording.
NumberingInv == DenseNumbering /\ SaveNeverRefused

\* No recording exists yet, so none is misnumbered or refused.
LEMMA InitNumbering == Init => NumberingInv
BY NewRecordingDense
   DEF Init, NumberingInv, DenseNumbering, SaveNeverRefused, EmptyRecording,
       Handles

\* Every step keeps the recordings densely numbered and refuses none.
LEMMA NextNumbering == TypeOK /\ NumberingInv /\ [Next]_vars => NumberingInv'
<1> SUFFICES ASSUME TypeOK, NumberingInv, [Next]_vars PROVE NumberingInv'
  OBVIOUS
<1> USE SessionAssumption DEF Handles
<1>0. /\ rec \in [RecHandles -> Recordings]
      /\ \A h \in RecHandles : rec[h] \in Recordings /\ DenselyNumbered(rec[h])
      /\ \A h \in RecHandles : Scrub[SessionOf[h]] \in [Messages -> Messages]
      /\ phase \in [Handles -> RecPhases \cup RepPhases]
  BY DEF TypeOK, NumberingInv, DenseNumbering
<1>1. ASSUME NEW h \in RecHandles, NEW id \in Ids, OpenStreamRecord(h, id)
      PROVE  NumberingInv'
  BY <1>0, <1>1, NewRecordingDense
     DEF OpenStreamRecord, NumberingInv, DenseNumbering, SaveNeverRefused
<1>2. ASSUME NEW h \in RecHandles, NEW m \in Messages, ObserveSend(h, m)
      PROVE  NumberingInv'
  BY <1>0, <1>2, RecordSendDense
     DEF ObserveSend, NumberingInv, DenseNumbering, SaveNeverRefused
<1>3. ASSUME NEW h \in RecHandles, NEW m \in Messages, ObserveRecv(h, m)
      PROVE  NumberingInv'
  BY <1>0, <1>3, RecordRecvDense
     DEF ObserveRecv, NumberingInv, DenseNumbering, SaveNeverRefused
<1>4. ASSUME NEW h \in RecHandles, ObserveHalfClose(h)
      PROVE  NumberingInv'
  BY <1>0, <1>4, RecordHalfCloseDense
     DEF ObserveHalfClose, NumberingInv, DenseNumbering, SaveNeverRefused
<1>5. ASSUME NEW h \in RecHandles, NEW err \in BOOLEAN, Finish(h, err)
      PROVE  NumberingInv'
  <2> DEFINE w == FinishRecording(rec[h], err)
  <2>1. DenselyNumbered(w) /\ ValidateStreamPair(RecordedPair(w))
    BY <1>0, <1>5, FinishDense DEF Finish
  <2> HIDE DEF w
  <2>2. rec' = [rec EXCEPT ![h] = w] /\ phase' = [phase EXCEPT ![h] = "openReq"]
    BY <1>5, <2>1 DEF Finish, w
  <2> QED
    BY <1>0, <2>1, <2>2 DEF NumberingInv, DenseNumbering, SaveNeverRefused
<1>6. ASSUME NEW h \in RecHandles, SaveStep(h) \/ FileOperationFails(h)
      PROVE  NumberingInv'
  <2>1. rec' = rec /\ \E x \in {"writeReq", "openResp", "writeResp", "saved",
                                "failed"} : phase' = [phase EXCEPT ![h] = x]
    BY <1>6 DEF SaveStep, OpenReqFile, WriteReqFile, OpenRespFile,
                WriteRespFile, FileOperationFails
  <2> QED
    BY <1>0, <2>1 DEF NumberingInv, DenseNumbering, SaveNeverRefused
<1>7. ASSUME NEW h \in RepHandles, ReplayStep(h)
      PROVE  NumberingInv'
  <2>1. rec' = rec /\ \A g \in RecHandles : phase'[g] = phase[g]
    BY <1>0, <1>7 DEF ReplayStep, OpenStreamReplay, ReadReq, ReadResp,
                      ReplaySend, ReplayHalfClose, ReplayRecv
  <2> QED
    BY <1>0, <2>1 DEF NumberingInv, DenseNumbering, SaveNeverRefused
<1>8. ASSUME NEW s \in Sessions, Crash(s)
      PROVE  NumberingInv'
  BY <1>0, <1>8 DEF Crash, NumberingInv, DenseNumbering, SaveNeverRefused
<1>9. CASE UNCHANGED vars
  BY <1>9 DEF vars, NumberingInv, DenseNumbering, SaveNeverRefused
<1>10. ASSUME NEW h \in RecHandles, RecordStep(h)
       PROVE  NumberingInv'
  BY <1>1, <1>2, <1>3, <1>4, <1>5, <1>6, <1>10 DEF RecordStep
<1> QED
  BY <1>6, <1>7, <1>8, <1>9, <1>10 DEF Next

\* Both invariants together, for the two theorems below.
LEMMA NumberingInvariant == Spec => []NumberingInv
<1> QED
  BY TypeCorrect, InitNumbering, NextNumbering, PTL DEF Spec

\* However the two directions of a stream interleave, its recording shares
\* out 0 .. seq-1 without gap or duplicate and ends with the terminal.
THEOREM Numbering == Spec => []DenseNumbering
<1>1. NumberingInv => DenseNumbering
  BY DEF NumberingInv
<1> QED
  BY <1>1, NumberingInvariant, PTL

\* SaveStream's validation never refuses a pair Finish assembled.
THEOREM Accepted == Spec => []SaveNeverRefused
<1>1. NumberingInv => SaveNeverRefused
  BY DEF NumberingInv
<1> QED
  BY <1>1, NumberingInvariant, PTL

-----------------------------------------------------------------------------
(***************************************************************************)
(* What the cassette directory holds while one session records: whatever   *)
(* crashes or fails, a pair that loads is one whole recording, and a saved *)
(* recording stays loadable.                                               *)
(***************************************************************************)
Opened(h) == phase[h] # "idle"

\* A counter-addressed recording has a number its session's counter has
\* already passed, so the next open cannot get it again.
CounterPassed ==
    \A h \in RecHandles :
        Opened(h) /\ fp[h][1] \in CounterIds =>
            fp[h][2] \in Nat /\ fp[h][2] < streamN[SessionOf[h]][fp[h][1]]

CounterInv == CounterPassed /\ CounterSeparates

\* Opening is the only step of a recording handle that changes whether it is
\* opened or its fingerprint; no step takes a counter back.
LEMMA NonOpeningSteps ==
    ASSUME TypeOK, [Next]_vars,
           ~\E h \in RecHandles, id \in Ids : OpenStreamRecord(h, id)
    PROVE  /\ \A h \in RecHandles : fp'[h] = fp[h] /\ (Opened(h)' <=> Opened(h))
           /\ \A s \in Sessions, id \in Ids : streamN'[s][id] >= streamN[s][id]
<1> USE SessionAssumption DEF Handles
<1>0. /\ streamN \in [Sessions -> [Ids -> Nat]]
      /\ phase \in [Handles -> RecPhases \cup RepPhases]
      /\ fp \in [Handles -> Fingerprints \cup {NoFingerprint}]
  BY DEF TypeOK
<1> DEFINE Goal ==
        /\ \A h \in RecHandles : fp'[h] = fp[h] /\ (Opened(h)' <=> Opened(h))
        /\ \A s \in Sessions, id \in Ids : streamN'[s][id] >= streamN[s][id]
<1>1. ASSUME NEW h \in RecHandles, RecordStep(h) \/ SaveStep(h)
      PROVE  Goal
  <2>1. fp' = fp /\ streamN' = streamN
    BY <1>1 DEF RecordStep, SaveStep, ObserveSend, ObserveRecv,
                ObserveHalfClose, Finish, OpenReqFile, WriteReqFile,
                OpenRespFile, WriteRespFile, FileOperationFails
  <2>2. \/ phase' = phase
        \/ /\ phase[h] # "idle"
           /\ \E x \in {"openReq", "refused", "writeReq", "openResp",
                        "writeResp", "saved", "failed"} :
                 phase' = [phase EXCEPT ![h] = x]
    BY <1>1 DEF RecordStep, SaveStep, ObserveSend, ObserveRecv,
                ObserveHalfClose, Finish, Unlocked, SavePhases, OpenReqFile,
                WriteReqFile, OpenRespFile, WriteRespFile, FileOperationFails
  <2> QED
    BY <1>0, <2>1, <2>2 DEF Opened
<1>2. ASSUME NEW h \in RepHandles, NEW id \in Ids, OpenStreamReplay(h, id)
      PROVE  Goal
  <2>1. /\ streamN' = NextStreamN(SessionOf[h], id)
        /\ \A g \in RecHandles : fp'[g] = fp[g] /\ phase'[g] = phase[g]
    BY <1>0, <1>2 DEF OpenStreamReplay
  <2>2. SessionOf[h] \in Sessions
    OBVIOUS
  <2>3. \A s \in Sessions, i \in Ids : streamN'[s][i] >= streamN[s][i]
    BY <1>0, <2>1, <2>2 DEF NextStreamN
  <2> QED
    BY <2>1, <2>3 DEF Opened
<1>3. ASSUME NEW h \in RepHandles, ReplayStep(h),
             ~\E id \in Ids : OpenStreamReplay(h, id)
      PROVE  Goal
  <2>1. /\ fp' = fp /\ streamN' = streamN
        /\ \A g \in RecHandles : phase'[g] = phase[g]
    BY <1>0, <1>3 DEF ReplayStep, ReadReq, ReadResp, ReplaySend,
                      ReplayHalfClose, ReplayRecv
  <2> QED
    BY <1>0, <2>1 DEF Opened
<1>4. ASSUME NEW s \in Sessions, Crash(s)
      PROVE  Goal
  <2>1. /\ fp' = fp /\ streamN' = streamN
        /\ \A g \in RecHandles : (phase'[g] = phase[g]
                                  \/ (phase[g] # "idle" /\ phase'[g] # "idle"))
    BY <1>0, <1>4 DEF Crash, SavePhases
  <2> QED
    BY <1>0, <2>1 DEF Opened
<1>5. CASE UNCHANGED vars
  BY <1>0, <1>5 DEF vars, Opened
<1> QED
  BY <1>1, <1>2, <1>3, <1>4, <1>5 DEF Next

\* Every step keeps the counters ahead of the recordings they numbered.
LEMMA NextCounter == TypeOK /\ CounterInv /\ [Next]_vars => CounterInv'
<1> SUFFICES ASSUME TypeOK, CounterInv, [Next]_vars PROVE CounterInv'
  OBVIOUS
<1> USE SessionAssumption DEF Handles
<1>0. /\ streamN \in [Sessions -> [Ids -> Nat]]
      /\ phase \in [Handles -> RecPhases \cup RepPhases]
      /\ fp \in [Handles -> Fingerprints \cup {NoFingerprint}]
      /\ \A h \in RecHandles : Opened(h) => fp[h] \in Fingerprints
  BY DEF TypeOK, Opened
<1>t. streamN' \in [Sessions -> [Ids -> Nat]]
  BY NextTypeOK DEF TypeOK
<1>1. ASSUME NEW h \in RecHandles, NEW id \in Ids, OpenStreamRecord(h, id)
      PROVE  CounterInv'
  <2> DEFINE s == SessionOf[h]
             n == IF id \in CounterIds THEN streamN[s][id] ELSE -1
  <2>1. s \in Sessions
    OBVIOUS
  <2>2. fp' = [fp EXCEPT ![h] = <<id, n>>] /\ streamN' = NextStreamN(s, id)
    BY <1>1 DEF OpenStreamRecord, StreamOpenFingerprint
  <2>3. \A g \in RecHandles : g # h => /\ fp'[g] = fp[g]
                                       /\ Opened(g)' <=> Opened(g)
    BY <1>0, <1>1 DEF OpenStreamRecord, Opened
  <2>4. fp'[h] = <<id, n>>
    BY <1>0, <2>2
  <2>5. /\ \A t \in Sessions, i \in Ids : streamN'[t][i] >= streamN[t][i]
        /\ id \in CounterIds => n \in Nat /\ streamN'[s][id] = n + 1
    BY <1>0, <2>1, <2>2 DEF NextStreamN
  <2> HIDE DEF s, n
  <2>6. CounterPassed'
    <3> SUFFICES ASSUME NEW g \in RecHandles, Opened(g)', fp'[g][1] \in CounterIds
                 PROVE  /\ fp'[g][2] \in Nat
                        /\ fp'[g][2] < streamN'[SessionOf[g]][fp'[g][1]]
      BY DEF CounterPassed
    <3>1. CASE g = h
      BY <2>4, <2>5, <3>1 DEF s
    <3>2. CASE g # h
      <4>1. /\ fp[g][1] \in CounterIds /\ fp[g][2] \in Nat
            /\ fp[g][2] < streamN[SessionOf[g]][fp[g][1]]
        BY <2>3, <3>2 DEF CounterInv, CounterPassed
      <4>2. /\ streamN'[SessionOf[g]][fp[g][1]] >= streamN[SessionOf[g]][fp[g][1]]
            /\ streamN[SessionOf[g]][fp[g][1]] \in Nat
            /\ streamN'[SessionOf[g]][fp[g][1]] \in Nat
        BY <1>0, <1>t, <2>5, <4>1
      <4> QED
        BY <2>3, <3>2, <4>1, <4>2
    <3> QED
      BY <3>1, <3>2
  <2>7. ASSUME NEW g \in RecHandles, g # h, SessionOf[g] = SessionOf[h],
               Opened(g)', id \in CounterIds
        PROVE  fp'[g] # fp'[h]
    <3>1. CASE fp[g][1] = id
      <4>1. fp[g][2] \in Nat /\ fp[g][2] < streamN[s][id]
        BY <2>3, <2>7, <3>1 DEF CounterInv, CounterPassed, s
      <4>2. fp[g][2] # n
        BY <1>0, <2>1, <2>7, <4>1 DEF n
      <4> QED
        BY <2>3, <2>4, <2>7, <4>2
    <3>2. CASE fp[g][1] # id
      BY <2>3, <2>4, <2>7, <3>2
    <3> QED
      BY <3>1, <3>2
  <2>8. CounterSeparates'
    <3> SUFFICES ASSUME NEW g \in RecHandles, NEW k \in RecHandles, g # k,
                        SessionOf[g] = SessionOf[k], Opened(g)', Opened(k)',
                        fp'[g][1] \in CounterIds
                 PROVE  fp'[g] # fp'[k]
      BY DEF CounterSeparates, Opened
    <3>1. CASE k = h
      <4>1. CASE id \in CounterIds
        BY <2>7, <3>1, <4>1
      <4>2. CASE id \notin CounterIds
        BY <2>4, <3>1, <4>2
      <4> QED
        BY <4>1, <4>2
    <3>2. CASE g = h
      BY <2>4, <2>7, <3>2
    <3>3. CASE g # h /\ k # h
      BY <2>3, <3>3 DEF CounterInv, CounterSeparates, Opened
    <3> QED
      BY <3>1, <3>2, <3>3
  <2> QED
    BY <2>6, <2>8 DEF CounterInv
<1>2. CASE ~\E h \in RecHandles, id \in Ids : OpenStreamRecord(h, id)
  <2>1. /\ \A h \in RecHandles : fp'[h] = fp[h] /\ (Opened(h)' <=> Opened(h))
        /\ \A s \in Sessions, id \in Ids : streamN'[s][id] >= streamN[s][id]
    BY <1>2, NonOpeningSteps
  <2>3. CounterPassed'
    <3> SUFFICES ASSUME NEW g \in RecHandles, Opened(g)', fp'[g][1] \in CounterIds
                 PROVE  /\ fp'[g][2] \in Nat
                        /\ fp'[g][2] < streamN'[SessionOf[g]][fp'[g][1]]
      BY DEF CounterPassed
    <3>1. /\ fp'[g] = fp[g] /\ fp[g][1] \in CounterIds /\ fp[g][2] \in Nat
          /\ fp[g][2] < streamN[SessionOf[g]][fp[g][1]]
      BY <2>1 DEF CounterInv, CounterPassed
    <3>2. /\ streamN'[SessionOf[g]][fp[g][1]] >= streamN[SessionOf[g]][fp[g][1]]
          /\ streamN[SessionOf[g]][fp[g][1]] \in Nat
          /\ streamN'[SessionOf[g]][fp[g][1]] \in Nat
      BY <1>0, <1>t, <2>1, <3>1
    <3> QED
      BY <3>1, <3>2
  <2>4. CounterSeparates'
    BY <2>1 DEF CounterInv, CounterSeparates, Opened
  <2> QED
    BY <2>3, <2>4 DEF CounterInv
<1> QED
  BY <1>1, <1>2

\* The occurrence counter keeps the counter-addressed streams of a session
\* apart, whatever sessions, ids and handles there are.
THEOREM Separation == Spec => []CounterSeparates
<1>1. Init => CounterInv
  BY DEF Init, CounterInv, CounterPassed, CounterSeparates, Opened, Handles
<1>2. CounterInv => CounterSeparates
  BY DEF CounterInv
<1> QED
  BY <1>1, <1>2, TypeCorrect, NextCounter, PTL DEF Spec

-----------------------------------------------------------------------------
(***************************************************************************)
(* The directory of a single writer.                                       *)
(***************************************************************************)
ReqOf(h) == ReadStreamFile(reqFiles, fp[h])

RespOf(h) == ReadStreamFile(respFiles, fp[h])

\* How far SaveStream has got is what the two files of a recording show.  An
\* interrupted save never leaves a resp file with anything in it.
FilesShowPhase(h) ==
    LET p == RecordedPair(rec[h]) IN
    /\ phase[h] \in {"recording", "openReq", "refused"} =>
            ReqOf(h) = Absent /\ RespOf(h) = Absent
    /\ phase[h] = "writeReq" => ReqOf(h) = Truncated /\ RespOf(h) = Absent
    /\ phase[h] = "openResp" => ReqOf(h) = ReqFile(p) /\ RespOf(h) = Absent
    /\ phase[h] = "writeResp" => ReqOf(h) = ReqFile(p) /\ RespOf(h) = Truncated
    /\ phase[h] = "saved" => ReqOf(h) = ReqFile(p) /\ RespOf(h) = RespFile(p)
    /\ phase[h] \in {"failed", "crashed"} => RespOf(h) \in {Absent, Truncated}

\* A recording that is being saved, or was, is finished and validated.
SavingIsValid(h) ==
    /\ phase[h] \in SavePhases \cup {"saved", "failed", "refused"} =>
            rec[h].finished
    /\ phase[h] \in SavePhases \cup {"saved"} =>
            ValidateStreamPair(RecordedPair(rec[h]))
    /\ phase[h] = "recording" => ~rec[h].finished

\* No two recordings share a fingerprint.
Apart ==
    \A g, h \in RecHandles : g # h /\ Opened(g) /\ Opened(h) => fp[g] # fp[h]

\* Every file belongs to a recording.
FilesOwned ==
    \A f \in DOMAIN reqFiles \cup DOMAIN respFiles :
        \E h \in RecHandles : Opened(h) /\ fp[h] = f

DirectoryInv ==
    /\ \A h \in RecHandles : SavingIsValid(h)
    /\ \A h \in RecHandles : Opened(h) => FilesShowPhase(h)
    /\ FilesOwned

\* Under a single writer the counter keeps all recordings apart.
LEMMA SingleWriterApart ==
    ASSUME SingleWriter, TypeOK, CounterInv
    PROVE  Apart
<1> SUFFICES ASSUME NEW g \in RecHandles, NEW h \in RecHandles, g # h,
                    Opened(g), Opened(h)
             PROVE  fp[g] # fp[h]
  BY DEF Apart
<1>1. fp[g] \in Fingerprints
  BY DEF TypeOK, Opened, Handles
<1>2. fp[g][1] \in CounterIds
  BY <1>1 DEF Fingerprints, SingleWriter
<1> QED
  BY <1>2 DEF SingleWriter, CounterInv, CounterSeparates, Opened

\* Reading back after WriteFile.
LEMMA ReadAfterWrite ==
    ASSUME NEW dir, NEW f, NEW c
    PROVE  /\ ReadStreamFile(WriteFile(dir, f, c), f) = c
           /\ \A g : g # f =>
                ReadStreamFile(WriteFile(dir, f, c), g) = ReadStreamFile(dir, g)
           /\ DOMAIN WriteFile(dir, f, c) = DOMAIN dir \cup {f}
BY DEF ReadStreamFile, WriteFile

\* A finished recording is not changed by late events.
LEMMA LateEventsDropped ==
    ASSUME NEW r, r.finished
    PROVE  /\ \A f, m : RecordSend(r, f, m) = r /\ RecordRecv(r, f, m) = r
           /\ RecordHalfClose(r) = r
BY DEF RecordSend, RecordRecv, RecordHalfClose

\* An event of the live stream does not change what the phase says.
LEMMA ObserveKeepsDirectory ==
    ASSUME TypeOK, DirectoryInv, NEW h \in RecHandles, NEW r,
           Unlocked(h), r.finished = rec[h].finished,
           rec[h].finished => r = rec[h],
           rec' = [rec EXCEPT ![h] = r],
           UNCHANGED <<phase, fp, reqFiles, respFiles>>
    PROVE  DirectoryInv'
<1>1. \A g \in RecHandles : g # h => rec'[g] = rec[g]
  BY DEF TypeOK
<1>2. rec'[h] = r
  BY DEF TypeOK
<1>3. SavingIsValid(h) /\ (phase[h] # "recording" => rec'[h] = rec[h])
  BY <1>2 DEF DirectoryInv, SavingIsValid, Unlocked
<1>4. \A g \in RecHandles : SavingIsValid(g)'
  <2> TAKE g \in RecHandles
  <2>1. CASE rec'[g] = rec[g]
    BY <2>1 DEF DirectoryInv, SavingIsValid
  <2>2. CASE g = h /\ phase[h] = "recording"
    BY <1>2, <1>3, <2>2 DEF SavingIsValid, SavePhases
  <2> QED
    BY <1>1, <1>3, <2>1, <2>2
<1>5. \A g \in RecHandles : Opened(g)' => FilesShowPhase(g)'
  <2> SUFFICES ASSUME NEW g \in RecHandles, Opened(g) PROVE FilesShowPhase(g)'
    BY DEF Opened
  <2>1. FilesShowPhase(g) /\ ReqOf(g)' = ReqOf(g) /\ RespOf(g)' = RespOf(g)
    BY DEF DirectoryInv, ReqOf, RespOf
  <2>2. CASE rec'[g] = rec[g]
    BY <2>1, <2>2 DEF FilesShowPhase
  <2>3. CASE g = h /\ phase[h] = "recording"
    BY <2>1, <2>3 DEF FilesShowPhase
  <2> QED
    BY <1>1, <1>3, <2>2, <2>3
<1>6. FilesOwned'
  BY DEF DirectoryInv, FilesOwned, Opened
<1> QED
  BY <1>4, <1>5, <1>6 DEF DirectoryInv

\* A file operation of h, seen from the other recordings: nothing happened.
LEMMA OthersUndisturbed ==
    ASSUME TypeOK, DirectoryInv, Apart, NEW h \in RecHandles, Opened(h),
           NEW x, phase' = [phase EXCEPT ![h] = x], x # "idle",
           rec' = rec, fp' = fp,
           reqFiles' = reqFiles \/ \E c : reqFiles' = WriteFile(reqFiles, fp[h], c),
           respFiles' = respFiles \/ \E c : respFiles' = WriteFile(respFiles, fp[h], c)
    PROVE  /\ \A g \in RecHandles : g # h =>
                 SavingIsValid(g)' /\ (Opened(g)' => FilesShowPhase(g)')
           /\ FilesOwned'
           /\ phase'[h] = x
<1>0. phase \in [Handles -> RecPhases \cup RepPhases] /\ h \in Handles
  BY DEF TypeOK, Handles
<1>1. \A g \in RecHandles : g # h => phase'[g] = phase[g]
  BY <1>0 DEF Handles
<1>2. ASSUME NEW g \in RecHandles, g # h
      PROVE  SavingIsValid(g)' /\ (Opened(g)' => FilesShowPhase(g)')
  <2>1. SavingIsValid(g)'
    BY <1>1, <1>2 DEF DirectoryInv, SavingIsValid
  <2>2. ASSUME Opened(g) PROVE FilesShowPhase(g)'
    <3>1. fp[g] # fp[h]
      BY <1>2, <2>2 DEF Apart
    <3>2. ReqOf(g)' = ReqOf(g) /\ RespOf(g)' = RespOf(g)
      <4>1. ReadStreamFile(reqFiles', fp[g]) = ReadStreamFile(reqFiles, fp[g])
        <5>1. CASE reqFiles' = reqFiles
          BY <5>1
        <5>2. ASSUME NEW c, reqFiles' = WriteFile(reqFiles, fp[h], c)
              PROVE  ReadStreamFile(reqFiles', fp[g])
                        = ReadStreamFile(reqFiles, fp[g])
          BY <3>1, <5>2 DEF ReadStreamFile, WriteFile
        <5> QED
          BY <5>1, <5>2
      <4>2. ReadStreamFile(respFiles', fp[g]) = ReadStreamFile(respFiles, fp[g])
        <5>1. CASE respFiles' = respFiles
          BY <5>1
        <5>2. ASSUME NEW c, respFiles' = WriteFile(respFiles, fp[h], c)
              PROVE  ReadStreamFile(respFiles', fp[g])
                        = ReadStreamFile(respFiles, fp[g])
          BY <3>1, <5>2 DEF ReadStreamFile, WriteFile
        <5> QED
          BY <5>1, <5>2
      <4> QED
        BY <4>1, <4>2 DEF ReqOf, RespOf
    <3>3. FilesShowPhase(g)
      BY <2>2 DEF DirectoryInv
    <3> QED
      BY <1>1, <1>2, <3>2, <3>3 DEF FilesShowPhase
  <2> QED
    BY <1>1, <1>2, <2>1, <2>2 DEF Opened
<1>3. FilesOwned'
  <2>1. \A f \in DOMAIN reqFiles' \cup DOMAIN respFiles' :
            f = fp[h] \/ f \in DOMAIN reqFiles \cup DOMAIN respFiles
    <3>1. DOMAIN reqFiles' \subseteq DOMAIN reqFiles \cup {fp[h]}
      <4>1. ASSUME NEW c, reqFiles' = WriteFile(reqFiles, fp[h], c)
            PROVE  DOMAIN reqFiles' \subseteq DOMAIN reqFiles \cup {fp[h]}
        BY <4>1, ReadAfterWrite
      <4> QED
        BY <4>1
    <3>2. DOMAIN respFiles' \subseteq DOMAIN respFiles \cup {fp[h]}
      <4>1. ASSUME NEW c, respFiles' = WriteFile(respFiles, fp[h], c)
            PROVE  DOMAIN respFiles' \subseteq DOMAIN respFiles \cup {fp[h]}
        BY <4>1, ReadAfterWrite
      <4> QED
        BY <4>1
    <3> QED
      BY <3>1, <3>2
  <2>2. \A g \in RecHandles : Opened(g) => Opened(g)'
    BY <1>0, <1>1 DEF Opened
  <2> QED
    BY <2>1, <2>2 DEF DirectoryInv, FilesOwned
<1> QED
  BY <1>0, <1>2, <1>3

\* The initial directory is empty.
LEMMA InitDirectory == Init => DirectoryInv
BY DEF Init, DirectoryInv, SavingIsValid, SavePhases, Opened, FilesOwned, Handles

\* Every step keeps the files in accord with the phases.
LEMMA NextDirectory ==
    ASSUME SingleWriter, TypeOK, TypeOK', CounterInv, CounterInv',
           DirectoryInv, [Next]_vars
    PROVE  DirectoryInv'
<1> USE SessionAssumption DEF Handles
<1>0. /\ phase \in [Handles -> RecPhases \cup RepPhases]
      /\ fp \in [Handles -> Fingerprints \cup {NoFingerprint}]
      /\ rec \in [RecHandles -> Recordings]
  BY DEF TypeOK
<1>a. Apart /\ Apart'
  <2>1. Apart
    BY SingleWriterApart
  <2>2. Apart'
    <3> SUFFICES ASSUME NEW g \in RecHandles, NEW h \in RecHandles, g # h,
                        Opened(g)', Opened(h)'
                 PROVE  fp'[g] # fp'[h]
      BY DEF Apart
    <3>1. fp'[g] \in Fingerprints
      BY DEF TypeOK, Opened
    <3> QED
      BY <3>1 DEF Fingerprints, SingleWriter, CounterInv, CounterSeparates,
                  Opened
  <2> QED
    BY <2>1, <2>2
<1>1. ASSUME NEW h \in RecHandles, NEW id \in Ids, OpenStreamRecord(h, id)
      PROVE  DirectoryInv'
  <2>1. /\ phase[h] = "idle" /\ phase'[h] = "recording"
        /\ rec'[h] = NewRecording(TypeOf[id])
        /\ UNCHANGED <<reqFiles, respFiles>>
        /\ \A g \in RecHandles : g # h =>
              phase'[g] = phase[g] /\ rec'[g] = rec[g] /\ fp'[g] = fp[g]
    BY <1>0, <1>1 DEF OpenStreamRecord
  <2>2. fp'[h] \notin DOMAIN reqFiles \cup DOMAIN respFiles
    <3> SUFFICES ASSUME NEW g \in RecHandles, Opened(g), fp[g] = fp'[h]
                 PROVE  FALSE
      BY DEF DirectoryInv, FilesOwned
    <3>1. g # h /\ Opened(g)' /\ Opened(h)' /\ fp'[g] = fp'[h]
      BY <2>1 DEF Opened
    <3> QED
      BY <1>a, <3>1 DEF Apart
  <2>3. SavingIsValid(h)'
    BY <2>1 DEF SavingIsValid, SavePhases, NewRecording
  <2>4. FilesShowPhase(h)'
    BY <2>1, <2>2 DEF FilesShowPhase, ReqOf, RespOf, ReadStreamFile
  <2>5. ASSUME NEW g \in RecHandles, g # h
        PROVE  SavingIsValid(g)' /\ (Opened(g)' => FilesShowPhase(g)')
    <3>1. SavingIsValid(g)'
      BY <2>1, <2>5 DEF DirectoryInv, SavingIsValid
    <3>2. Opened(g)' => FilesShowPhase(g)'
      BY <2>1, <2>5 DEF DirectoryInv, FilesShowPhase, ReqOf, RespOf, Opened
    <3> QED
      BY <3>1, <3>2
  <2>6. FilesOwned'
    BY <2>1 DEF DirectoryInv, FilesOwned, Opened
  <2> QED
    BY <2>3, <2>4, <2>5, <2>6 DEF DirectoryInv
<1>2. ASSUME NEW h \in RecHandles, NEW m \in Messages, ObserveSend(h, m)
      PROVE  DirectoryInv'
  <2> DEFINE r == RecordSend(rec[h], Scrub[SessionOf[h]], m)
  <2>1. r.finished = rec[h].finished /\ (rec[h].finished => r = rec[h])
    BY <1>0 DEF RecordSend, Recordings
  <2> QED
    BY <1>2, <2>1, ObserveKeepsDirectory DEF ObserveSend
<1>3. ASSUME NEW h \in RecHandles, NEW m \in Messages, ObserveRecv(h, m)
      PROVE  DirectoryInv'
  <2> DEFINE r == RecordRecv(rec[h], Scrub[SessionOf[h]], m)
  <2>1. r.finished = rec[h].finished /\ (rec[h].finished => r = rec[h])
    BY <1>0 DEF RecordRecv, Recordings
  <2> QED
    BY <1>3, <2>1, ObserveKeepsDirectory DEF ObserveRecv
<1>4. ASSUME NEW h \in RecHandles, ObserveHalfClose(h)
      PROVE  DirectoryInv'
  <2> DEFINE r == RecordHalfClose(rec[h])
  <2>1. r.finished = rec[h].finished /\ (rec[h].finished => r = rec[h])
    BY <1>0 DEF RecordHalfClose, Recordings
  <2> QED
    BY <1>4, <2>1, ObserveKeepsDirectory DEF ObserveHalfClose
<1>5. ASSUME NEW h \in RecHandles, NEW err \in BOOLEAN, Finish(h, err)
      PROVE  DirectoryInv'
  <2> DEFINE w == FinishRecording(rec[h], err)
             x == IF ValidateStreamPair(RecordedPair(w)) THEN "openReq"
                  ELSE "refused"
  <2>1. /\ phase' = [phase EXCEPT ![h] = x] /\ rec' = [rec EXCEPT ![h] = w]
        /\ UNCHANGED <<reqFiles, respFiles, fp>> /\ phase[h] = "recording"
    BY <1>5 DEF Finish, Unlocked, DirectoryInv, SavingIsValid
  <2>2. w.finished /\ (x = "openReq" => ValidateStreamPair(RecordedPair(w)))
        /\ x \in {"openReq", "refused"}
    BY <1>0 DEF FinishRecording, Recordings
  <2> HIDE DEF w, x
  <2>3. phase'[h] = x /\ rec'[h] = w
        /\ \A g \in RecHandles : g # h =>
              phase'[g] = phase[g] /\ rec'[g] = rec[g]
    BY <1>0, <2>1
  <2>4. SavingIsValid(h)'
    BY <2>2, <2>3 DEF SavingIsValid, SavePhases
  <2>5. FilesShowPhase(h)'
    <3>1. ReqOf(h) = Absent /\ RespOf(h) = Absent
      BY <2>1 DEF DirectoryInv, FilesShowPhase, Opened
    <3> QED
      BY <2>1, <2>2, <2>3, <3>1 DEF FilesShowPhase, ReqOf, RespOf
  <2>6. ASSUME NEW g \in RecHandles, g # h
        PROVE  SavingIsValid(g)' /\ (Opened(g)' => FilesShowPhase(g)')
    <3>1. SavingIsValid(g)'
      BY <2>3, <2>6 DEF DirectoryInv, SavingIsValid
    <3>2. Opened(g)' => FilesShowPhase(g)'
      BY <2>1, <2>3, <2>6 DEF DirectoryInv, FilesShowPhase, ReqOf, RespOf, Opened
    <3> QED
      BY <3>1, <3>2
  <2>7. FilesOwned'
    BY <2>1, <2>2, <2>3 DEF DirectoryInv, FilesOwned, Opened
  <2> QED
    BY <2>4, <2>5, <2>6, <2>7 DEF DirectoryInv
<1>6. ASSUME NEW h \in RecHandles, SaveStep(h) \/ FileOperationFails(h)
      PROVE  DirectoryInv'
  <2>1. phase[h] \in SavePhases /\ rec' = rec /\ fp' = fp
    BY <1>6 DEF SaveStep, OpenReqFile, WriteReqFile, OpenRespFile,
                WriteRespFile, FileOperationFails, SavePhases
  <2>2. /\ Opened(h) /\ FilesShowPhase(h) /\ rec[h].finished
        /\ ValidateStreamPair(RecordedPair(rec[h]))
    BY <2>1 DEF DirectoryInv, SavingIsValid, SavePhases, Opened
  <2>3. ASSUME NEW x \in {"writeReq", "openResp", "writeResp", "saved", "failed"},
               phase'[h] = x
        PROVE  SavingIsValid(h)'
    BY <2>1, <2>2, <2>3 DEF SavingIsValid, SavePhases
  <2>4. CASE OpenReqFile(h)
    <3>1. /\ phase' = [phase EXCEPT ![h] = "writeReq"] /\ phase[h] = "openReq"
          /\ reqFiles' = WriteFile(reqFiles, fp[h], Truncated)
          /\ respFiles' = respFiles
      BY <2>4 DEF OpenReqFile
    <3>2. FilesShowPhase(h)'
      <4>1. ReqOf(h)' = Truncated /\ RespOf(h)' = RespOf(h)
        BY <2>1, <3>1 DEF ReqOf, RespOf, ReadStreamFile, WriteFile
      <4> QED
        BY <1>0, <2>1, <2>2, <3>1, <4>1 DEF FilesShowPhase
    <3>3. \E c : reqFiles' = WriteFile(reqFiles, fp[h], c)
      BY <3>1
    <3>4. /\ \A g \in RecHandles : g # h =>
                SavingIsValid(g)' /\ (Opened(g)' => FilesShowPhase(g)')
          /\ FilesOwned'
          /\ phase'[h] = "writeReq"
      BY <1>a, <2>1, <2>2, <3>1, <3>3, OthersUndisturbed
    <3>5. SavingIsValid(h)'
      BY <2>3, <3>4
    <3> QED
      BY <3>2, <3>4, <3>5 DEF DirectoryInv
  <2>5. CASE WriteReqFile(h)
    <3>1. /\ phase' = [phase EXCEPT ![h] = "openResp"] /\ phase[h] = "writeReq"
          /\ reqFiles' = WriteFile(reqFiles, fp[h], ReqFile(RecordedPair(rec[h])))
          /\ respFiles' = respFiles
      BY <2>5 DEF WriteReqFile
    <3>2. FilesShowPhase(h)'
      <4>1. ReqOf(h)' = ReqFile(RecordedPair(rec[h])) /\ RespOf(h)' = RespOf(h)
        BY <2>1, <3>1 DEF ReqOf, RespOf, ReadStreamFile, WriteFile
      <4> QED
        BY <1>0, <2>1, <2>2, <3>1, <4>1 DEF FilesShowPhase
    <3>3. \E c : reqFiles' = WriteFile(reqFiles, fp[h], c)
      BY <3>1
    <3>4. /\ \A g \in RecHandles : g # h =>
                SavingIsValid(g)' /\ (Opened(g)' => FilesShowPhase(g)')
          /\ FilesOwned'
          /\ phase'[h] = "openResp"
      BY <1>a, <2>1, <2>2, <3>1, <3>3, OthersUndisturbed
    <3>5. SavingIsValid(h)'
      BY <2>3, <3>4
    <3> QED
      BY <3>2, <3>4, <3>5 DEF DirectoryInv
  <2>6. CASE OpenRespFile(h)
    <3>1. /\ phase' = [phase EXCEPT ![h] = "writeResp"] /\ phase[h] = "openResp"
          /\ respFiles' = WriteFile(respFiles, fp[h], Truncated)
          /\ reqFiles' = reqFiles
      BY <2>6 DEF OpenRespFile
    <3>2. FilesShowPhase(h)'
      <4>1. RespOf(h)' = Truncated /\ ReqOf(h)' = ReqOf(h)
        BY <2>1, <3>1 DEF ReqOf, RespOf, ReadStreamFile, WriteFile
      <4> QED
        BY <1>0, <2>1, <2>2, <3>1, <4>1 DEF FilesShowPhase
    <3>3. \E c : respFiles' = WriteFile(respFiles, fp[h], c)
      BY <3>1
    <3>4. /\ \A g \in RecHandles : g # h =>
                SavingIsValid(g)' /\ (Opened(g)' => FilesShowPhase(g)')
          /\ FilesOwned'
          /\ phase'[h] = "writeResp"
      BY <1>a, <2>1, <2>2, <3>1, <3>3, OthersUndisturbed
    <3>5. SavingIsValid(h)'
      BY <2>3, <3>4
    <3> QED
      BY <3>2, <3>4, <3>5 DEF DirectoryInv
  <2>7. CASE WriteRespFile(h)
    <3>1. /\ phase' = [phase EXCEPT ![h] = "saved"] /\ phase[h] = "writeResp"
          /\ respFiles' = WriteFile(respFiles, fp[h], RespFile(RecordedPair(rec[h])))
          /\ reqFiles' = reqFiles
      BY <2>7 DEF WriteRespFile
    <3>2. FilesShowPhase(h)'
      <4>1. RespOf(h)' = RespFile(RecordedPair(rec[h])) /\ ReqOf(h)' = ReqOf(h)
        BY <2>1, <3>1 DEF ReqOf, RespOf, ReadStreamFile, WriteFile
      <4> QED
        BY <1>0, <2>1, <2>2, <3>1, <4>1 DEF FilesShowPhase
    <3>3. \E c : respFiles' = WriteFile(respFiles, fp[h], c)
      BY <3>1
    <3>4. /\ \A g \in RecHandles : g # h =>
                SavingIsValid(g)' /\ (Opened(g)' => FilesShowPhase(g)')
          /\ FilesOwned'
          /\ phase'[h] = "saved"
      BY <1>a, <2>1, <2>2, <3>1, <3>3, OthersUndisturbed
    <3>5. SavingIsValid(h)'
      BY <2>3, <3>4
    <3> QED
      BY <3>2, <3>4, <3>5 DEF DirectoryInv
  <2>8. CASE FileOperationFails(h)
    <3>1. /\ phase' = [phase EXCEPT ![h] = "failed"]
          /\ UNCHANGED <<reqFiles, respFiles>>
      BY <2>8 DEF FileOperationFails
    <3>2. FilesShowPhase(h)'
      BY <1>0, <2>1, <2>2, <3>1 DEF FilesShowPhase, ReqOf, RespOf, SavePhases
    <3> QED
      BY <1>0, <1>a, <2>1, <2>2, <2>3, <3>1, <3>2, OthersUndisturbed
         DEF DirectoryInv
  <2> QED
    BY <1>6, <2>4, <2>5, <2>6, <2>7, <2>8 DEF SaveStep
<1>7. CASE /\ UNCHANGED <<rec, reqFiles, respFiles>>
           /\ \A g \in RecHandles : phase'[g] = phase[g] /\ fp'[g] = fp[g]
  <2>1. \A g \in RecHandles : SavingIsValid(g)'
    BY <1>7 DEF DirectoryInv, SavingIsValid
  <2>2. \A g \in RecHandles : Opened(g)' => FilesShowPhase(g)'
    BY <1>7 DEF DirectoryInv, FilesShowPhase, ReqOf, RespOf, Opened
  <2>3. FilesOwned'
    BY <1>7 DEF DirectoryInv, FilesOwned, Opened
  <2> QED
    BY <2>1, <2>2, <2>3 DEF DirectoryInv
<1>8. ASSUME NEW h \in RepHandles, ReplayStep(h)
      PROVE  DirectoryInv'
  <2>1. UNCHANGED <<rec, reqFiles, respFiles>>
    BY <1>8 DEF ReplayStep, OpenStreamReplay, ReadReq, ReadResp, ReplaySend,
                ReplayHalfClose, ReplayRecv
  <2>2. \A g \in RecHandles : phase'[g] = phase[g] /\ fp'[g] = fp[g]
    BY <1>0, <1>8 DEF ReplayStep, OpenStreamReplay, ReadReq, ReadResp,
                      ReplaySend, ReplayHalfClose, ReplayRecv
  <2> QED
    BY <1>7, <2>1, <2>2
<1>9. ASSUME NEW s \in Sessions, Crash(s)
      PROVE  DirectoryInv'
  <2>1. UNCHANGED <<rec, reqFiles, respFiles, fp>>
    BY <1>9 DEF Crash
  <2>2. \A g \in RecHandles :
            \/ phase'[g] = phase[g]
            \/ phase[g] \in {"recording"} \cup SavePhases /\ phase'[g] = "crashed"
    BY <1>9 DEF Crash
  <2>3. ASSUME NEW g \in RecHandles
        PROVE  SavingIsValid(g)' /\ (Opened(g)' => FilesShowPhase(g)')
    <3>1. CASE phase'[g] = phase[g]
      BY <2>1, <3>1
         DEF DirectoryInv, SavingIsValid, FilesShowPhase, ReqOf, RespOf, Opened
    <3>2. CASE /\ phase[g] \in {"recording"} \cup SavePhases
               /\ phase'[g] = "crashed"
      <4>1. RespOf(g) \in {Absent, Truncated}
        BY <3>2 DEF DirectoryInv, FilesShowPhase, Opened, SavePhases
      <4> QED
        BY <2>1, <3>2, <4>1
           DEF SavingIsValid, FilesShowPhase, RespOf, SavePhases
    <3> QED
      BY <2>2, <3>1, <3>2
  <2>4. FilesOwned'
    BY <2>1, <2>2 DEF DirectoryInv, FilesOwned, Opened
  <2> QED
    BY <2>3, <2>4 DEF DirectoryInv
<1>10. CASE UNCHANGED vars
  BY <1>7, <1>10 DEF vars
<1>11. ASSUME NEW h \in RecHandles, RecordStep(h)
       PROVE  DirectoryInv'
  BY <1>1, <1>2, <1>3, <1>4, <1>5, <1>6, <1>11 DEF RecordStep
<1> QED
  BY <1>6, <1>8, <1>9, <1>10, <1>11 DEF Next

\* What the files of a saved recording load as.
LEMMA RoundTrip ==
    ASSUME NEW p \in Pairs, ValidateStreamPair(p)
    PROVE  /\ LoadStream(ReqFile(p), RespFile(p)) = "ok"
           /\ PairOf(ReqFile(p), RespFile(p)) = p
<1>1. PairOf(ReqFile(p), RespFile(p)) = p
  BY DEF PairOf, ReqFile, RespFile, Pairs
<1>2. /\ ReqFile(p) \notin {Absent, Truncated, UnaryFile}
      /\ RespFile(p) \notin {Absent, Truncated, UnaryFile}
  <2>1. ReqFile(p).shape = "stream" /\ RespFile(p).shape = "stream"
    BY DEF ReqFile, RespFile
  <2> QED
    BY <2>1 DEF Absent, Truncated, UnaryFile
<1> QED
  BY <1>1, <1>2 DEF LoadStream

\* The invariant gives the two properties of the directory.
LEMMA DirectoryImplies ==
    ASSUME TypeOK, DirectoryInv
    PROVE  SavedStaysLoadable /\ LoadableIsOneRecording
<1>1. ASSUME NEW h \in RecHandles, phase[h] = "saved"
      PROVE  /\ Load(fp[h]) = "ok" /\ rec[h].finished
             /\ LoadedPair(fp[h]) = RecordedPair(rec[h])
  <2> DEFINE p == RecordedPair(rec[h])
  <2>1. /\ ReqOf(h) = ReqFile(p) /\ RespOf(h) = RespFile(p)
        /\ ValidateStreamPair(p) /\ rec[h].finished
    BY <1>1 DEF DirectoryInv, FilesShowPhase, SavingIsValid, Opened
  <2>2. p \in Pairs
    BY RecordedPairType DEF TypeOK
  <2> HIDE DEF p
  <2>3. Load(fp[h]) = "ok" /\ PairOf(ReqFile(p), RespFile(p)) = p
    BY <2>1, <2>2, RoundTrip DEF Load, ReqOf, RespOf
  <2>4. fp[h] \in DOMAIN reqFiles /\ fp[h] \in DOMAIN respFiles
    BY <2>3 DEF Load, LoadStream, ReadStreamFile
  <2>5. LoadedPair(fp[h]) = p
    BY <2>1, <2>3, <2>4 DEF LoadedPair, ReqOf, RespOf, ReadStreamFile
  <2> QED
    BY <2>1, <2>3, <2>5 DEF p
<1>2. ASSUME NEW f \in DOMAIN reqFiles \cup DOMAIN respFiles, Load(f) = "ok"
      PROVE  \E h \in RecHandles : fp[h] = f /\ phase[h] = "saved"
  <2>1. PICK h \in RecHandles : Opened(h) /\ fp[h] = f
    BY DEF DirectoryInv, FilesOwned
  <2>2. RespOf(h) \notin {Absent, Truncated}
    BY <1>2, <2>1 DEF Load, LoadStream, RespOf
  <2>3. phase[h] \in RecPhases /\ FilesShowPhase(h)
    BY <2>1 DEF TypeOK, DirectoryInv
  <2>4. phase[h] = "saved"
    BY <2>1, <2>2, <2>3 DEF FilesShowPhase, RecPhases, SavePhases, Opened
  <2> QED
    BY <2>1, <2>4
<1> QED
  BY <1>1, <1>2 DEF SavedStaysLoadable, LoadableIsOneRecording

\* All of it as one invariant of the behaviours of a single writer.
LEMMA DirectoryInvariant ==
    ASSUME SingleWriter
    PROVE  Spec => [](TypeOK /\ DirectoryInv)
<1>1. Init => CounterInv
  BY DEF Init, CounterInv, CounterPassed, CounterSeparates, Opened, Handles
<1>2. TypeOK /\ TypeOK' /\ CounterInv /\ CounterInv' /\ DirectoryInv /\ [Next]_vars
        => DirectoryInv'
  BY NextDirectory
<1> QED
  BY <1>1, <1>2, TypeCorrect, NextCounter, InitDirectory, PTL DEF Spec

\* While one session records counter-addressed streams, a crash, a failed
\* write or a save under way never makes LoadStream accept anything but the
\* whole of one recording.
THEOREM WholeRecordings ==
    ASSUME SingleWriter
    PROVE  Spec => []LoadableIsOneRecording
<1>1. TypeOK /\ DirectoryInv => LoadableIsOneRecording
  BY DirectoryImplies
<1> QED
  BY <1>1, DirectoryInvariant, PTL

\* While one session records counter-addressed streams, a recording that
\* Finish reported as saved stays loadable, unchanged, for ever.
THEOREM Durability ==
    ASSUME SingleWriter
    PROVE  Spec => []SavedStaysLoadable
<1>1. TypeOK /\ DirectoryInv => SavedStaysLoadable
  BY DirectoryImplies
<1> QED
  BY <1>1, DirectoryInvariant, PTL

-----------------------------------------------------------------------------
(***************************************************************************)
(* What a replaying session is served.                                     *)
(***************************************************************************)

\* The handles of a session's history were opened by that session, and every
\* opened handle is in the history of its session.
HistoryKept ==
    /\ \A s \in Sessions : \A i \in DOMAIN opens[s] :
            Opened(opens[s][i]) /\ SessionOf[opens[s][i]] = s
    /\ \A h \in Handles : Opened(h) =>
            \E i \in DOMAIN opens[SessionOf[h]] : opens[SessionOf[h]][i] = h

\* The number in a counter-addressed fingerprint is the number of earlier
\* opens of its id, and the counter of an id is the number of its opens.
NumbersCountOpens ==
    /\ \A s \in Sessions : \A i \in DOMAIN opens[s] :
            fp[opens[s][i]][1] \in CounterIds =>
                fp[opens[s][i]][2] = Ordinal(s, i) - 1
    /\ \A s \in Sessions, id \in CounterIds :
            streamN[s][id] = OpensOf(s, Len(opens[s]), id)

OrdinalInv == HistoryKept /\ NumbersCountOpens

\* Between its two reads an open holds a req file that is still on disk
\* unchanged; a replay holds the pair its fingerprint's recording saved; a
\* recording has the stream type of its id.
ServedInv ==
    /\ \A h \in RepHandles : phase[h] = "readResp" =>
            /\ seenReq[h] \notin {Absent, Truncated}
            /\ seenReq[h] = ReadStreamFile(reqFiles, fp[h])
    /\ \A h \in RepHandles : phase[h] = "replaying" =>
            \E g \in RecHandles :
                /\ phase[g] = "saved" /\ fp[g] = fp[h]
                /\ rep[h].pair = RecordedPair(rec[g])
    /\ \A g \in RecHandles : Opened(g) => rec[g].typ = TypeOf[fp[g][1]]

\* The send frames of a recording are the scrubbed messages of its client.
RecordedInv ==
    \A g \in RecHandles :
        /\ ~Opened(g) => raw[g] = << >>
        /\ Opened(g) =>
            /\ Len(rec[g].sends) = Len(raw[g])
            /\ \A i \in 1 .. Len(raw[g]) :
                 rec[g].sends[i].message = Scrub[SessionOf[g]][raw[g][i]]

\* What replay rp has made of the messages sent to it, under the hook scrub.
Compared(rp, scrub, sent) ==
    LET due == rp.sendIdx + 1
        sends == rp.pair.sends
    IN
    /\ rp.sendIdx <= Len(sends) /\ rp.sendIdx <= Len(sent)
    /\ \A i \in 1 .. rp.sendIdx : scrub[sent[i]] = sends[i].message
    /\ rp.mismatch = "none" /\ rp.sendIdx < Len(sends) => Len(sent) = rp.sendIdx
    /\ rp.mismatch = "send" =>
            /\ due <= Len(sends) /\ due <= Len(sent)
            /\ scrub[sent[due]] # sends[due].message
    /\ rp.mismatch = "half_close" => due <= Len(sends)

ComparedInv ==
    \A h \in RepHandles :
        /\ phase[h] # "replaying" => rep[h].mismatch = "none" /\ raw[h] = << >>
        /\ phase[h] = "replaying" =>
                Compared(rep[h], Scrub[SessionOf[h]], raw[h])

-----------------------------------------------------------------------------
(***************************************************************************)
(* Fingerprints count the opens of an id.                                  *)
(***************************************************************************)
Opening(h, id) ==
    \/ h \in RecHandles /\ OpenStreamRecord(h, id)
    \/ h \in RepHandles /\ OpenStreamReplay(h, id)

\* What an open does to the counters, the fingerprints and the history, in
\* either mode.
LEMMA OpeningSteps ==
    ASSUME TypeOK, NEW h \in Handles, NEW id \in Ids, Opening(h, id)
    PROVE  /\ ~Opened(h) /\ Opened(h)'
           /\ fp' = [fp EXCEPT ![h] = StreamOpenFingerprint(SessionOf[h], id)]
           /\ streamN' = NextStreamN(SessionOf[h], id)
           /\ opens' = [opens EXCEPT ![SessionOf[h]] = Append(@, h)]
           /\ \A g \in Handles : g # h => phase'[g] = phase[g]
<1>1. phase \in [Handles -> RecPhases \cup RepPhases]
  BY DEF TypeOK
<1> QED
  BY <1>1 DEF Opening, OpenStreamRecord, OpenStreamReplay, Opened

\* Every other step leaves all of that alone.
LEMMA QuietSteps ==
    ASSUME TypeOK, [Next]_vars, ~\E h \in Handles, id \in Ids : Opening(h, id)
    PROVE  /\ UNCHANGED <<fp, streamN, opens>>
           /\ \A h \in Handles : Opened(h)' <=> Opened(h)
<1> USE DEF Handles
<1>0. phase \in [Handles -> RecPhases \cup RepPhases]
  BY DEF TypeOK
<1>1. ASSUME NEW h \in RecHandles, RecordStep(h) \/ SaveStep(h)
      PROVE  /\ UNCHANGED <<fp, streamN, opens>>
             /\ \A g \in Handles : Opened(g)' <=> Opened(g)
  <2>1. UNCHANGED <<fp, streamN, opens>>
    BY <1>1 DEF RecordStep, SaveStep, ObserveSend, ObserveRecv,
                ObserveHalfClose, Finish, OpenReqFile, WriteReqFile,
                OpenRespFile, WriteRespFile, FileOperationFails, Opening
  <2>2. \/ phase' = phase
        \/ /\ phase[h] # "idle"
           /\ \E x \in {"openReq", "refused", "writeReq", "openResp",
                        "writeResp", "saved", "failed"} :
                 phase' = [phase EXCEPT ![h] = x]
    BY <1>1 DEF RecordStep, SaveStep, ObserveSend, ObserveRecv,
                ObserveHalfClose, Finish, Unlocked, SavePhases, OpenReqFile,
                WriteReqFile, OpenRespFile, WriteRespFile, FileOperationFails,
                Opening
  <2> QED
    BY <1>0, <2>1, <2>2 DEF Opened
<1>2. ASSUME NEW h \in RepHandles, ReplayStep(h)
      PROVE  /\ UNCHANGED <<fp, streamN, opens>>
             /\ \A g \in Handles : Opened(g)' <=> Opened(g)
  <2>1. UNCHANGED <<fp, streamN, opens>>
    BY <1>2 DEF ReplayStep, ReadReq, ReadResp, ReplaySend, ReplayHalfClose,
                ReplayRecv, Opening
  <2>2. \/ phase' = phase
        \/ /\ phase[h] # "idle"
           /\ \E x \in {"miss", "malformed", "shape", "readResp", "replaying"} :
                 phase' = [phase EXCEPT ![h] = x]
    <3>1. CASE ReadReq(h)
      BY <3>1, UnreadableReq DEF ReadReq
    <3>2. CASE ReadResp(h)
      BY <3>2, LoadStreamType DEF ReadResp
    <3> QED
      BY <1>2, <3>1, <3>2 DEF ReplayStep, ReplaySend, ReplayHalfClose,
                              ReplayRecv, Opening
  <2> QED
    BY <1>0, <2>1, <2>2 DEF Opened
<1>3. ASSUME NEW s \in Sessions, Crash(s)
      PROVE  /\ UNCHANGED <<fp, streamN, opens>>
             /\ \A g \in Handles : Opened(g)' <=> Opened(g)
  BY <1>0, <1>3 DEF Crash, SavePhases, Opened
<1>4. CASE UNCHANGED vars
  BY <1>4 DEF vars, Opened
<1> QED
  BY <1>1, <1>2, <1>3, <1>4 DEF Next

\* An open of id adds one to the count of the opens of id, and to no other.
LEMMA CountAppend ==
    ASSUME NEW n \in Nat, NEW S \in SUBSET (1 .. n)
    PROVE  /\ Cardinality(S) \in Nat
           /\ Cardinality(S \cup {n + 1}) = Cardinality(S) + 1
<1>1. IsFiniteSet(1 .. n)
  BY FS_Interval
<1>2. IsFiniteSet(S)
  BY <1>1, FS_Subset
<1>3. n + 1 \notin S
  OBVIOUS
<1> QED
  BY <1>2, <1>3, FS_CardinalityType, FS_AddElement

\* An open keeps the history of every session.
LEMMA OpeningKeepsHistory ==
    ASSUME TypeOK, HistoryKept, NEW h \in Handles, NEW id \in Ids,
           Opening(h, id)
    PROVE  /\ HistoryKept'
           /\ \A s \in Sessions : \A i \in DOMAIN opens[s] :
                /\ i \in DOMAIN opens'[s]
                /\ opens'[s][i] = opens[s][i]
                /\ fp'[opens[s][i]] = fp[opens[s][i]]
           /\ \A s \in Sessions : s # SessionOf[h] => opens'[s] = opens[s]
           /\ opens'[SessionOf[h]] = Append(opens[SessionOf[h]], h)
<1> USE SessionAssumption DEF Handles
<1> DEFINE t == SessionOf[h]
<1>1. /\ t \in Sessions
      /\ opens \in [Sessions -> Seq(Handles)]
      /\ fp \in [Handles -> Fingerprints \cup {NoFingerprint}]
  BY DEF TypeOK
<1>2. /\ ~Opened(h) /\ Opened(h)'
      /\ fp' = [fp EXCEPT ![h] = StreamOpenFingerprint(t, id)]
      /\ opens' = [opens EXCEPT ![t] = Append(@, h)]
      /\ \A g \in Handles : g # h => phase'[g] = phase[g]
  BY OpeningSteps
<1>3. /\ opens'[t] = Append(opens[t], h)
      /\ \A s \in Sessions : s # t => opens'[s] = opens[s]
  BY <1>1, <1>2
<1>4. /\ DOMAIN opens[t] = 1 .. Len(opens[t]) /\ Len(opens[t]) \in Nat
      /\ DOMAIN opens'[t] = 1 .. Len(opens[t]) + 1
      /\ \A i \in 1 .. Len(opens[t]) : opens'[t][i] = opens[t][i]
      /\ opens'[t][Len(opens[t]) + 1] = h
  BY <1>1, <1>3, AppendProperties, LenProperties
<1>5. ASSUME NEW s \in Sessions, NEW i \in DOMAIN opens[s]
      PROVE  /\ i \in DOMAIN opens'[s] /\ opens'[s][i] = opens[s][i]
             /\ opens[s][i] \in Handles /\ opens[s][i] # h
             /\ fp'[opens[s][i]] = fp[opens[s][i]]
             /\ phase'[opens[s][i]] # "idle"
  <2>1. i \in DOMAIN opens'[s] /\ opens'[s][i] = opens[s][i]
    <3>1. CASE s = t
      <4>1. i \in 1 .. Len(opens[t])
        BY <1>4, <3>1
      <4> QED
        BY <1>4, <3>1, <4>1
    <3>2. CASE s # t
      BY <1>3, <3>2
    <3> QED
      BY <3>1, <3>2
  <2>2. opens[s][i] \in Handles
    BY <1>1, ElementOfSeq, LenProperties
  <2>3. opens[s][i] # h
    BY <1>2 DEF HistoryKept
  <2>4. phase'[opens[s][i]] # "idle"
    BY <1>2, <2>2, <2>3 DEF HistoryKept, Opened
  <2> QED
    BY <1>1, <1>2, <2>1, <2>2, <2>3, <2>4
<1> HIDE DEF t
<1>6. ASSUME NEW s \in Sessions, NEW i \in DOMAIN opens'[s]
      PROVE  phase'[opens'[s][i]] # "idle" /\ SessionOf[opens'[s][i]] = s
  <2>1. CASE i \in DOMAIN opens[s]
    BY <1>5, <2>1 DEF HistoryKept
  <2>2. CASE i \notin DOMAIN opens[s]
    <3>1. s = t /\ i = Len(opens[t]) + 1
      BY <1>3, <1>4, <2>2
    <3> QED
      BY <1>2, <1>4, <3>1 DEF t, Opened
  <2> QED
    BY <2>1, <2>2
<1>7. ASSUME NEW g \in Handles, Opened(g)'
      PROVE  \E i \in DOMAIN opens'[SessionOf[g]] : opens'[SessionOf[g]][i] = g
  <2>1. CASE g = h
    <3>1. Len(opens[t]) + 1 \in DOMAIN opens'[t]
      BY <1>4
    <3> QED
      BY <1>4, <2>1, <3>1 DEF t
  <2>2. CASE g # h
    <3>1. Opened(g)
      BY <1>2, <1>7, <2>2 DEF Opened
    <3>2. PICK i \in DOMAIN opens[SessionOf[g]] : opens[SessionOf[g]][i] = g
      BY <3>1 DEF HistoryKept
    <3>3. SessionOf[g] \in Sessions
      OBVIOUS
    <3> QED
      BY <1>5, <3>2, <3>3
  <2> QED
    BY <2>1, <2>2
<1>8. HistoryKept'
  BY <1>6, <1>7 DEF HistoryKept, Opened
<1> QED
  BY <1>3, <1>5, <1>8 DEF t

\* An open gives its fingerprint the number of earlier opens of the id and
\* adds one to the counter.
LEMMA OpeningCounts ==
    ASSUME TypeOK, OrdinalInv, NEW h \in Handles, NEW id \in Ids,
           Opening(h, id)
    PROVE  NumbersCountOpens'
<1> USE SessionAssumption DEF Handles
<1> DEFINE t == SessionOf[h]
           n == Len(opens[t])
           Of(s, i, x) == {j \in 1 .. i : fp[opens[s][j]][1] = x}
           OfNext(s, i, x) == {j \in 1 .. i : fp'[opens'[s][j]][1] = x}
<1>1. /\ t \in Sessions /\ n \in Nat
      /\ \A s \in Sessions : DOMAIN opens[s] = 1 .. Len(opens[s])
                             /\ Len(opens[s]) \in Nat
      /\ streamN \in [Sessions -> [Ids -> Nat]]
      /\ fp \in [Handles -> Fingerprints \cup {NoFingerprint}]
  BY LenProperties DEF TypeOK
<1>2. /\ fp'[h] = StreamOpenFingerprint(t, id)
      /\ streamN' = NextStreamN(t, id)
  BY <1>1, OpeningSteps
<1>3. /\ \A s \in Sessions : \A i \in DOMAIN opens[s] :
            /\ opens'[s][i] = opens[s][i]
            /\ fp'[opens[s][i]] = fp[opens[s][i]]
      /\ \A s \in Sessions : s # t => opens'[s] = opens[s]
      /\ opens'[t] = Append(opens[t], h)
  BY OpeningKeepsHistory DEF OrdinalInv
<1>4. /\ Len(opens'[t]) = n + 1 /\ opens'[t][n + 1] = h
      /\ DOMAIN opens'[t] = 1 .. n + 1
  <2>1. opens[t] \in Seq(Handles)
    BY <1>1 DEF TypeOK
  <2> QED
    BY <1>3, <2>1, AppendProperties
<1>5. fp'[h][1] = id /\ (id \in CounterIds => fp'[h][2] = streamN[t][id])
  BY <1>2 DEF StreamOpenFingerprint
<1> HIDE DEF t, n
<1>6. ASSUME NEW s \in Sessions, NEW i \in 0 .. Len(opens[s]), NEW x
      PROVE  OfNext(s, i, x) = Of(s, i, x)
  <2>1. \A j \in 1 .. i : j \in DOMAIN opens[s]
    BY <1>1
  <2> QED
    BY <1>3, <2>1
<1>7. ASSUME NEW x
      PROVE  OfNext(t, n + 1, x) = IF x = id THEN Of(t, n, x) \cup {n + 1}
                                   ELSE Of(t, n, x)
  <2>1. n \in 0 .. Len(opens[t])
    BY <1>1 DEF n
  <2> HIDE DEF Of, OfNext
  <2>2. OfNext(t, n, x) = Of(t, n, x)
    BY <1>1, <1>6, <2>1
  <2>3. fp'[opens'[t][n + 1]][1] = id
    BY <1>4, <1>5
  <2>4. \A j \in 1 .. n + 1 : j \in 1 .. n \/ j = n + 1
    BY <1>1
  <2>5. n + 1 \in 1 .. n + 1 /\ \A j \in 1 .. n : j \in 1 .. n + 1
    BY <1>1
  <2> QED
    BY <2>2, <2>3, <2>4, <2>5 DEF Of, OfNext
<1>8. /\ \A s \in Sessions : \A i, x : OpensOf(s, i, x) = Cardinality(Of(s, i, x))
      /\ \A s \in Sessions : \A i, x : OpensOf(s, i, x)' = Cardinality(OfNext(s, i, x))
  BY DEF OpensOf
<1>9. /\ Cardinality(Of(t, n, id)) \in Nat
      /\ Cardinality(Of(t, n, id) \cup {n + 1}) = Cardinality(Of(t, n, id)) + 1
  <2>1. Of(t, n, id) \in SUBSET (1 .. n)
    OBVIOUS
  <2> HIDE DEF Of
  <2> QED
    BY <1>1, <2>1, CountAppend
<1>10. /\ \A s \in Sessions : \A i \in DOMAIN opens[s] :
            fp[opens[s][i]][1] \in CounterIds =>
                fp[opens[s][i]][2]
                    = Cardinality(Of(s, i, fp[opens[s][i]][1])) - 1
       /\ \A s \in Sessions, x \in CounterIds :
            streamN[s][x] = Cardinality(Of(s, Len(opens[s]), x))
  BY <1>8 DEF OrdinalInv, NumbersCountOpens, Ordinal
<1> HIDE DEF Of, OfNext
<1>11. ASSUME NEW s \in Sessions, NEW x \in CounterIds
       PROVE  streamN'[s][x] = Cardinality(OfNext(s, Len(opens'[s]), x))
  <2>0. x \in Ids /\ streamN[s][x] \in Nat
    BY <1>1
  <2>1. CASE s # t
    <3>1. streamN'[s][x] = streamN[s][x]
      BY <1>1, <1>2, <2>0, <2>1 DEF NextStreamN
    <3>2. Len(opens[s]) \in 0 .. Len(opens[s]) /\ opens'[s] = opens[s]
      BY <1>1, <1>3, <2>1
    <3>3. OfNext(s, Len(opens[s]), x) = Of(s, Len(opens[s]), x)
      BY <1>6, <3>2
    <3> QED
      BY <1>10, <3>1, <3>2, <3>3
  <2>2. CASE s = t /\ x # id
    <3>1. streamN'[t][x] = streamN[t][x]
      BY <1>1, <1>2, <2>0, <2>2 DEF NextStreamN
    <3>2. OfNext(t, n + 1, x) = Of(t, n, x)
      BY <1>7, <2>2
    <3> QED
      BY <1>4, <1>10, <2>2, <3>1, <3>2 DEF n
  <2>3. CASE s = t /\ x = id
    <3>1. streamN'[t][id] = streamN[t][id] + 1
      BY <1>1, <1>2, <2>0, <2>3 DEF NextStreamN
    <3>2. OfNext(t, n + 1, id) = Of(t, n, id) \cup {n + 1}
      BY <1>7
    <3>3. streamN[t][id] = Cardinality(Of(t, n, id))
      BY <1>10, <2>3 DEF n
    <3> QED
      BY <1>4, <1>9, <2>3, <3>1, <3>2, <3>3
  <2> QED
    BY <2>1, <2>2, <2>3
<1>12. ASSUME NEW s \in Sessions, NEW i \in DOMAIN opens'[s],
              fp'[opens'[s][i]][1] \in CounterIds
       PROVE  fp'[opens'[s][i]][2]
                = Cardinality(OfNext(s, i, fp'[opens'[s][i]][1])) - 1
  <2>1. CASE i \in DOMAIN opens[s]
    <3>1. fp'[opens'[s][i]] = fp[opens[s][i]] /\ i \in 0 .. Len(opens[s])
      BY <1>1, <1>3, <2>1
    <3>2. OfNext(s, i, fp[opens[s][i]][1]) = Of(s, i, fp[opens[s][i]][1])
      BY <1>6, <3>1
    <3> QED
      BY <1>10, <1>12, <2>1, <3>1, <3>2
  <2>2. CASE i \notin DOMAIN opens[s]
    <3>1. s = t
      BY <1>3, <2>2
    <3>2. i = n + 1
      <4>1. i \in 1 .. n + 1 /\ i \notin 1 .. n
        BY <1>1, <1>4, <2>2, <3>1 DEF n
      <4> QED
        BY <1>1, <4>1
    <3>3. opens'[s][i] = h
      BY <1>4, <3>1, <3>2
    <3>4. id \in CounterIds /\ fp'[h][2] = streamN[t][id]
      BY <1>5, <1>12, <3>3
    <3>5. streamN[t][id] = Cardinality(Of(t, n, id))
      BY <1>1, <1>10, <3>4 DEF n
    <3>6. OfNext(t, n + 1, id) = Of(t, n, id) \cup {n + 1}
      BY <1>7
    <3>7. fp'[h][2] = Cardinality(OfNext(t, n + 1, id)) - 1
      <4>1. Cardinality(OfNext(t, n + 1, id)) = Cardinality(Of(t, n, id)) + 1
        BY <1>9, <3>6, Zenon
      <4> QED
        BY <1>9, <3>4, <3>5, <4>1
    <3> QED
      BY <1>5, <3>1, <3>2, <3>3, <3>7
  <2> QED
    BY <2>1, <2>2
<1> QED
  BY <1>8, <1>11, <1>12 DEF NumbersCountOpens, Ordinal

\* Every step keeps the correspondence of numbers and opens.
LEMMA NextOrdinal == TypeOK /\ OrdinalInv /\ [Next]_vars => OrdinalInv'
<1> SUFFICES ASSUME TypeOK, OrdinalInv, [Next]_vars PROVE OrdinalInv'
  OBVIOUS
<1>1. CASE \E h \in Handles, id \in Ids : Opening(h, id)
  <2>1. PICK h \in Handles, id \in Ids : Opening(h, id)
    BY <1>1
  <2>2. HistoryKept' /\ NumbersCountOpens'
    BY <2>1, OpeningKeepsHistory, OpeningCounts DEF OrdinalInv
  <2> QED
    BY <2>2 DEF OrdinalInv
<1>2. CASE ~\E h \in Handles, id \in Ids : Opening(h, id)
  <2>1. /\ UNCHANGED <<fp, streamN, opens>>
        /\ \A h \in Handles : Opened(h)' <=> Opened(h)
    BY <1>2, QuietSteps
  <2>2. \A s \in Sessions : \A i \in DOMAIN opens[s] : opens[s][i] \in Handles
    BY ElementOfSeq, LenProperties DEF TypeOK
  <2>3. HistoryKept'
    <3>1. \A s \in Sessions : \A i \in DOMAIN opens[s] :
            Opened(opens[s][i])' /\ SessionOf[opens[s][i]] = s
      BY <2>1, <2>2 DEF OrdinalInv, HistoryKept, Opened
    <3>2. \A h \in Handles : Opened(h)' =>
            \E i \in DOMAIN opens[SessionOf[h]] : opens[SessionOf[h]][i] = h
      BY <2>1 DEF OrdinalInv, HistoryKept
    <3> QED
      BY <2>1, <3>1, <3>2 DEF HistoryKept
  <2>4. NumbersCountOpens'
    <3>1. /\ \A s, i, x : OpensOf(s, i, x)' = OpensOf(s, i, x)
          /\ \A s, i : Ordinal(s, i)' = Ordinal(s, i)
      BY <2>1 DEF Ordinal, OpensOf
    <3> QED
      BY <2>1, <3>1 DEF OrdinalInv, NumbersCountOpens
  <2> QED
    BY <2>3, <2>4 DEF OrdinalInv
<1> QED
  BY <1>1, <1>2

\* Nothing has been opened and every counter is zero.
LEMMA InitOrdinal == Init => OrdinalInv
<1> SUFFICES ASSUME Init PROVE OrdinalInv
  OBVIOUS
<1>1. HistoryKept
  BY DEF Init, HistoryKept, Opened
<1>2. \A s \in Sessions : opens[s] = << >> /\ \A id \in Ids : streamN[s][id] = 0
  BY DEF Init
<1>3. ASSUME NEW s \in Sessions, NEW id \in CounterIds
      PROVE  streamN[s][id] = OpensOf(s, Len(opens[s]), id)
  <2>1. {j \in 1 .. 0 : fp[opens[s][j]][1] = id} = {}
    OBVIOUS
  <2>2. Len(opens[s]) = 0 /\ streamN[s][id] = 0
    BY <1>2, SessionAssumption
  <2> QED
    BY <2>1, <2>2, FS_EmptySet DEF OpensOf
<1>4. \A s \in Sessions : DOMAIN opens[s] = {}
  BY <1>2
<1> QED
  BY <1>1, <1>3, <1>4 DEF OrdinalInv, NumbersCountOpens

\* Being each other's counterpart is having one fingerprint: the ordinal a
\* handle has in its session's history is the number it was addressed by.
LEMMA CounterpartShares ==
    ASSUME TypeOK, OrdinalInv, NEW g \in RecHandles, NEW h \in RepHandles
    PROVE  Counterpart(g, h) <=>
                /\ Opened(g) /\ Opened(h)
                /\ fp[g] = fp[h] /\ fp[g][1] \in CounterIds
<1> USE SessionAssumption DEF Handles
<1>1. ASSUME NEW k \in Handles, Opened(k), fp[k][1] \in CounterIds,
             NEW s \in Sessions, NEW i \in DOMAIN opens[s], opens[s][i] = k
      PROVE  fp[k] = <<fp[k][1], fp[k][2]>> /\ fp[k][2] = Ordinal(s, i) - 1
             /\ Ordinal(s, i) \in Nat
  <2>1. fp[k] = <<fp[k][1], fp[k][2]>>
    <3>1. fp[k] \in Fingerprints
      BY <1>1 DEF TypeOK, Opened
    <3> QED
      BY <3>1 DEF Fingerprints
  <2>2. fp[k][2] = Ordinal(s, i) - 1
    BY <1>1 DEF OrdinalInv, NumbersCountOpens
  <2>3. i \in Nat
    BY <1>1, LenProperties DEF TypeOK
  <2>4. Ordinal(s, i) \in Nat
    <3> DEFINE S == {j \in 1 .. i : fp[opens[s][j]][1] = fp[k][1]}
    <3>1. S \in SUBSET (1 .. i)
      OBVIOUS
    <3>2. Cardinality(S) \in Nat
      BY <2>3, <3>1, CountAppend
    <3> QED
      BY <1>1, <3>2 DEF Ordinal, OpensOf
  <2> QED
    BY <2>1, <2>2, <2>4
<1>2. ASSUME Counterpart(g, h)
      PROVE  /\ Opened(g) /\ Opened(h)
             /\ fp[g] = fp[h] /\ fp[g][1] \in CounterIds
  <2>1. PICK s \in Sessions, t \in Sessions :
            \E i \in DOMAIN opens[s], j \in DOMAIN opens[t] :
                /\ g = opens[s][i] /\ h = opens[t][j]
                /\ fp[g][1] = fp[h][1] /\ fp[g][1] \in CounterIds
                /\ Ordinal(s, i) = Ordinal(t, j)
    BY <1>2 DEF Counterpart
  <2>2. PICK i \in DOMAIN opens[s], j \in DOMAIN opens[t] :
                /\ g = opens[s][i] /\ h = opens[t][j]
                /\ fp[g][1] = fp[h][1] /\ fp[g][1] \in CounterIds
                /\ Ordinal(s, i) = Ordinal(t, j)
    BY <2>1
  <2>3. Opened(g) /\ Opened(h)
    BY <2>2 DEF OrdinalInv, HistoryKept
  <2>4. fp[g] = <<fp[g][1], Ordinal(s, i) - 1>>
    BY <1>1, <2>2, <2>3
  <2>5. fp[h] = <<fp[h][1], Ordinal(t, j) - 1>>
    BY <1>1, <2>2, <2>3
  <2> QED
    BY <2>2, <2>3, <2>4, <2>5
<1>3. ASSUME Opened(g), Opened(h), fp[g] = fp[h], fp[g][1] \in CounterIds
      PROVE  Counterpart(g, h)
  <2>1. PICK i \in DOMAIN opens[SessionOf[g]] : opens[SessionOf[g]][i] = g
    BY <1>3 DEF OrdinalInv, HistoryKept
  <2>2. PICK j \in DOMAIN opens[SessionOf[h]] : opens[SessionOf[h]][j] = h
    BY <1>3 DEF OrdinalInv, HistoryKept
  <2>3. SessionOf[g] \in Sessions /\ SessionOf[h] \in Sessions
    OBVIOUS
  <2>4. /\ fp[g][2] = Ordinal(SessionOf[g], i) - 1
        /\ Ordinal(SessionOf[g], i) \in Nat
    BY <1>1, <1>3, <2>1, <2>3
  <2>5. /\ fp[h][2] = Ordinal(SessionOf[h], j) - 1
        /\ Ordinal(SessionOf[h], j) \in Nat
    BY <1>1, <1>3, <2>2, <2>3
  <2>6. Ordinal(SessionOf[g], i) = Ordinal(SessionOf[h], j)
    BY <1>3, <2>4, <2>5
  <2> QED
    BY <1>3, <2>1, <2>2, <2>3, <2>6 DEF Counterpart
<1> QED
  BY <1>2, <1>3

-----------------------------------------------------------------------------
(***************************************************************************)
(* What steps leave alone.                                                 *)
(***************************************************************************)

\* Only the steps of a replay handle change what it holds.
LEMMA ReplayFrame ==
    ASSUME TypeOK, [Next]_vars, NEW h \in RepHandles, ~ReplayStep(h)
    PROVE  /\ phase'[h] = phase[h] /\ fp'[h] = fp[h]
           /\ seenReq'[h] = seenReq[h] /\ rep'[h] = rep[h] /\ raw'[h] = raw[h]
<1> USE SessionAssumption DEF Handles
<1>0. /\ phase \in [Handles -> RecPhases \cup RepPhases]
      /\ fp \in [Handles -> Fingerprints \cup {NoFingerprint}]
      /\ rep \in [RepHandles -> Replays]
      /\ seenReq \in [RepHandles -> ReqContents \cup {Absent}]
      /\ raw \in [Handles -> Seq(Messages)]
  BY DEF TypeOK
<1>1. ASSUME NEW g \in RecHandles, RecordStep(g) \/ SaveStep(g)
      PROVE  /\ phase'[h] = phase[h] /\ fp'[h] = fp[h]
             /\ seenReq'[h] = seenReq[h] /\ rep'[h] = rep[h] /\ raw'[h] = raw[h]
  <2>1. g # h
    OBVIOUS
  <2> QED
    BY <1>0, <1>1, <2>1
       DEF RecordStep, SaveStep, OpenStreamRecord, ObserveSend, ObserveRecv,
           ObserveHalfClose, Finish, OpenReqFile, WriteReqFile, OpenRespFile,
           WriteRespFile, FileOperationFails
<1>2. ASSUME NEW g \in RepHandles, g # h, ReplayStep(g)
      PROVE  /\ phase'[h] = phase[h] /\ fp'[h] = fp[h]
             /\ seenReq'[h] = seenReq[h] /\ rep'[h] = rep[h] /\ raw'[h] = raw[h]
  BY <1>0, <1>2 DEF ReplayStep, OpenStreamReplay, ReadReq, ReadResp,
                    ReplaySend, ReplayHalfClose, ReplayRecv
<1>3. ASSUME NEW s \in Sessions, Crash(s)
      PROVE  /\ phase'[h] = phase[h] /\ fp'[h] = fp[h]
             /\ seenReq'[h] = seenReq[h] /\ rep'[h] = rep[h] /\ raw'[h] = raw[h]
  BY <1>0, <1>3 DEF Crash
<1>4. CASE UNCHANGED vars
  BY <1>4 DEF vars
<1> QED
  BY <1>1, <1>2, <1>3, <1>4 DEF Next

\* Only the steps of a recording handle change its record, its fingerprint
\* and the history of its client.
LEMMA RecordFrame ==
    ASSUME TypeOK, [Next]_vars, NEW g \in RecHandles, ~RecordStep(g)
    PROVE  /\ rec'[g] = rec[g] /\ fp'[g] = fp[g] /\ raw'[g] = raw[g]
           /\ Opened(g)' <=> Opened(g)
<1> USE SessionAssumption DEF Handles
<1>0. /\ phase \in [Handles -> RecPhases \cup RepPhases]
      /\ fp \in [Handles -> Fingerprints \cup {NoFingerprint}]
      /\ rec \in [RecHandles -> Recordings]
      /\ raw \in [Handles -> Seq(Messages)]
  BY DEF TypeOK
<1>1. ASSUME NEW k \in RecHandles, k # g, RecordStep(k)
      PROVE  /\ rec'[g] = rec[g] /\ fp'[g] = fp[g] /\ raw'[g] = raw[g]
             /\ phase'[g] = phase[g]
  BY <1>0, <1>1
     DEF RecordStep, OpenStreamRecord, ObserveSend, ObserveRecv,
         ObserveHalfClose, Finish, FileOperationFails
<1>2. ASSUME NEW k \in RecHandles, SaveStep(k)
      PROVE  /\ rec'[g] = rec[g] /\ fp'[g] = fp[g] /\ raw'[g] = raw[g]
             /\ Opened(g)' <=> Opened(g)
  BY <1>0, <1>2
     DEF SaveStep, OpenReqFile, WriteReqFile, OpenRespFile, WriteRespFile, Opened
<1>3. ASSUME NEW h \in RepHandles, ReplayStep(h)
      PROVE  /\ rec'[g] = rec[g] /\ fp'[g] = fp[g] /\ raw'[g] = raw[g]
             /\ phase'[g] = phase[g]
  <2>1. g # h
    OBVIOUS
  <2> QED
    BY <1>0, <1>3, <2>1 DEF ReplayStep, OpenStreamReplay, ReadReq, ReadResp,
                            ReplaySend, ReplayHalfClose, ReplayRecv
<1>4. ASSUME NEW s \in Sessions, Crash(s)
      PROVE  /\ rec'[g] = rec[g] /\ fp'[g] = fp[g] /\ raw'[g] = raw[g]
             /\ Opened(g)' <=> Opened(g)
  BY <1>0, <1>4 DEF Crash, SavePhases, Opened
<1>5. CASE UNCHANGED vars
  BY <1>5 DEF vars, Opened
<1> QED
  BY <1>1, <1>2, <1>3, <1>4, <1>5 DEF Next, Opened

\* A saved recording stays saved, with its record and its fingerprint.
LEMMA SavedIsFinal ==
    ASSUME TypeOK, DirectoryInv, [Next]_vars, NEW g \in RecHandles,
           phase[g] = "saved"
    PROVE  phase'[g] = "saved" /\ rec'[g] = rec[g] /\ fp'[g] = fp[g]
<1> USE SessionAssumption DEF Handles
<1>0. /\ phase \in [Handles -> RecPhases \cup RepPhases]
      /\ fp \in [Handles -> Fingerprints \cup {NoFingerprint}]
      /\ rec \in [RecHandles -> Recordings]
  BY DEF TypeOK
<1>f. rec[g].finished
  BY DEF DirectoryInv, SavingIsValid
<1>1. ASSUME NEW h \in RecHandles, RecordStep(h)
      PROVE  phase'[g] = "saved" /\ rec'[g] = rec[g] /\ fp'[g] = fp[g]
  <2>1. CASE h # g
    BY <1>0, <1>1, <2>1
       DEF RecordStep, OpenStreamRecord, ObserveSend, ObserveRecv,
           ObserveHalfClose, Finish, FileOperationFails
  <2>2. CASE h = g
    <3>1. /\ \A f, m : RecordSend(rec[g], f, m) = rec[g]
                       /\ RecordRecv(rec[g], f, m) = rec[g]
          /\ RecordHalfClose(rec[g]) = rec[g]
      BY <1>f, LateEventsDropped
    <3> QED
      BY <1>0, <1>f, <1>1, <2>2, <3>1
         DEF RecordStep, OpenStreamRecord, ObserveSend, ObserveRecv,
             ObserveHalfClose, Finish, FileOperationFails, SavePhases
  <2> QED
    BY <2>1, <2>2
<1>2. ASSUME NEW h \in RecHandles, SaveStep(h)
      PROVE  phase'[g] = "saved" /\ rec'[g] = rec[g] /\ fp'[g] = fp[g]
  BY <1>0, <1>2
     DEF SaveStep, OpenReqFile, WriteReqFile, OpenRespFile, WriteRespFile
<1>3. ASSUME NEW h \in RepHandles, ReplayStep(h)
      PROVE  phase'[g] = "saved" /\ rec'[g] = rec[g] /\ fp'[g] = fp[g]
  <2>1. g # h
    OBVIOUS
  <2> QED
    BY <1>0, <1>3, <2>1 DEF ReplayStep, OpenStreamReplay, ReadReq, ReadResp,
                            ReplaySend, ReplayHalfClose, ReplayRecv
<1>4. ASSUME NEW s \in Sessions, Crash(s)
      PROVE  phase'[g] = "saved" /\ rec'[g] = rec[g] /\ fp'[g] = fp[g]
  BY <1>0, <1>4 DEF Crash, SavePhases
<1>5. CASE UNCHANGED vars
  BY <1>5 DEF vars
<1> QED
  BY <1>1, <1>2, <1>3, <1>4, <1>5 DEF Next

\* A req file with a payload is never written again.
LEMMA ReqFileIsFinal ==
    ASSUME TypeOK, DirectoryInv, [Next]_vars, NEW f,
           ReadStreamFile(reqFiles, f) \notin {Absent, Truncated}
    PROVE  ReadStreamFile(reqFiles', f) = ReadStreamFile(reqFiles, f)
<1>1. ASSUME NEW g \in RecHandles, OpenReqFile(g) \/ WriteReqFile(g)
      PROVE  ReadStreamFile(reqFiles', f) = ReadStreamFile(reqFiles, f)
  <2>1. PICK c : reqFiles' = WriteFile(reqFiles, fp[g], c)
    BY <1>1 DEF OpenReqFile, WriteReqFile
  <2>2. ReqOf(g) \in {Absent, Truncated}
    BY <1>1 DEF OpenReqFile, WriteReqFile, DirectoryInv, FilesShowPhase, Opened
  <2>3. fp[g] # f
    BY <2>2 DEF ReqOf
  <2> QED
    BY <2>1, <2>3 DEF ReadStreamFile, WriteFile
<1>2. ASSUME ~\E g \in RecHandles : OpenReqFile(g) \/ WriteReqFile(g)
      PROVE  reqFiles' = reqFiles
  BY <1>2 DEF Next, RecordStep, SaveStep, ReplayStep, Crash, vars,
         OpenStreamRecord, ObserveSend, ObserveRecv, ObserveHalfClose, Finish,
         FileOperationFails, OpenRespFile, WriteRespFile, OpenStreamReplay,
         ReadReq, ReadResp, ReplaySend, ReplayHalfClose, ReplayRecv
<1> QED
  BY <1>1, <1>2

-----------------------------------------------------------------------------
(***************************************************************************)
(* A replay holds what its fingerprint's recording saved.                  *)
(***************************************************************************)

\* Nothing is open yet.
LEMMA InitServed == Init => ServedInv
<1> SUFFICES ASSUME Init PROVE ServedInv
  OBVIOUS
<1>1. \A h \in Handles : phase[h] = "idle"
  BY DEF Init
<1> QED
  BY <1>1 DEF ServedInv, Opened, Handles

\* An open that has read two files which LoadStream accepts has read the two
\* files of one saved recording.
LEMMA LoadedIsSaved ==
    ASSUME TypeOK, DirectoryInv, ServedInv, NEW h \in RepHandles,
           phase[h] = "readResp",
           LoadStream(seenReq[h], ReadStreamFile(respFiles, fp[h])) = "ok"
    PROVE  \E g \in RecHandles :
                /\ phase[g] = "saved" /\ fp[g] = fp[h]
                /\ PairOf(seenReq[h], ReadStreamFile(respFiles, fp[h]))
                        = RecordedPair(rec[g])
<1>1. seenReq[h] = ReadStreamFile(reqFiles, fp[h])
  BY DEF ServedInv
<1>2. Load(fp[h]) = "ok"
  BY <1>1 DEF Load
<1>3. ReadStreamFile(respFiles, fp[h]) \notin {Absent, Truncated}
  BY DEF LoadStream
<1>4. fp[h] \in DOMAIN respFiles
  BY <1>3 DEF ReadStreamFile
<1>5. PICK g \in RecHandles : Opened(g) /\ fp[g] = fp[h]
  BY <1>4 DEF DirectoryInv, FilesOwned
<1>6. FilesShowPhase(g) /\ phase[g] \in RecPhases /\ RespOf(g) \notin {Absent, Truncated}
  BY <1>3, <1>5 DEF DirectoryInv, RespOf, TypeOK
<1>7. phase[g] = "saved"
  BY <1>5, <1>6 DEF FilesShowPhase, RecPhases, SavePhases, Opened
<1> DEFINE p == RecordedPair(rec[g])
<1>8. ReqOf(g) = ReqFile(p) /\ RespOf(g) = RespFile(p)
  BY <1>6, <1>7 DEF FilesShowPhase
<1>9. p \in Pairs /\ ValidateStreamPair(p)
  BY <1>7, RecordedPairType DEF TypeOK, DirectoryInv, SavingIsValid
<1> HIDE DEF p
<1>10. PairOf(ReqFile(p), RespFile(p)) = p
  BY <1>9, RoundTrip
<1>11. seenReq[h] = ReqFile(p) /\ ReadStreamFile(respFiles, fp[h]) = RespFile(p)
  BY <1>1, <1>5, <1>8 DEF ReqOf, RespOf
<1> QED
  BY <1>5, <1>7, <1>10, <1>11 DEF p

\* Every step keeps what an open has read and what a replay holds.
LEMMA NextServed ==
    TypeOK /\ DirectoryInv /\ ServedInv /\ [Next]_vars => ServedInv'
<1> SUFFICES ASSUME TypeOK, DirectoryInv, ServedInv, [Next]_vars
             PROVE  ServedInv'
  OBVIOUS
<1> USE SessionAssumption DEF Handles
<1>0. /\ phase \in [Handles -> RecPhases \cup RepPhases]
      /\ fp \in [Handles -> Fingerprints \cup {NoFingerprint}]
      /\ rec \in [RecHandles -> Recordings]
      /\ rep \in [RepHandles -> Replays]
      /\ seenReq \in [RepHandles -> ReqContents \cup {Absent}]
  BY DEF TypeOK
<1>1. ASSUME NEW h \in RepHandles, phase'[h] = "readResp"
      PROVE  /\ seenReq'[h] \notin {Absent, Truncated}
             /\ seenReq'[h] = ReadStreamFile(reqFiles', fp'[h])
  <2>1. CASE ReadReq(h)
    <3> DEFINE file == ReadStreamFile(reqFiles, fp[h])
    <3>1. seenReq'[h] = file /\ reqFiles' = reqFiles /\ fp' = fp
      BY <1>0, <2>1 DEF ReadReq
    <3>2. file \in {Absent, Truncated} => LoadStream(file, Absent) # "readResp"
      BY UnreadableReq
    <3>3. file \notin {Absent, Truncated}
      BY <1>0, <1>1, <2>1, <3>2 DEF ReadReq
    <3> QED
      BY <3>1, <3>3
  <2>2. CASE ~ReadReq(h)
    <3>1. phase[h] = "readResp" /\ seenReq'[h] = seenReq[h] /\ fp'[h] = fp[h]
      <4>1. CASE ReplayStep(h)
        BY <1>0, <1>1, <2>2, <4>1, LoadStreamType
           DEF ReplayStep, OpenStreamReplay, ReadResp, ReplaySend,
               ReplayHalfClose, ReplayRecv
      <4>2. CASE ~ReplayStep(h)
        BY <1>1, <4>2, ReplayFrame
      <4> QED
        BY <4>1, <4>2
    <3>2. /\ seenReq[h] \notin {Absent, Truncated}
          /\ seenReq[h] = ReadStreamFile(reqFiles, fp[h])
      BY <3>1 DEF ServedInv
    <3>3. ReadStreamFile(reqFiles', fp[h]) = ReadStreamFile(reqFiles, fp[h])
      BY <3>2, ReqFileIsFinal
    <3> QED
      BY <3>1, <3>2, <3>3
  <2> QED
    BY <2>1, <2>2
<1>2. ASSUME NEW h \in RepHandles, phase'[h] = "replaying"
      PROVE  \E g \in RecHandles :
                /\ phase'[g] = "saved" /\ fp'[g] = fp'[h]
                /\ rep'[h].pair = RecordedPair(rec'[g])
  <2> SUFFICES \E g \in RecHandles :
                /\ phase[g] = "saved" /\ fp[g] = fp'[h]
                /\ rep'[h].pair = RecordedPair(rec[g])
    BY SavedIsFinal
  <2>1. CASE ReadResp(h)
    <3> DEFINE file == ReadStreamFile(respFiles, fp[h])
               pair == PairOf(seenReq[h], file)
    <3>1. /\ phase[h] = "readResp" /\ LoadStream(seenReq[h], file) = "ok"
          /\ rep' = [rep EXCEPT ![h] = NewReplay(pair)] /\ fp' = fp
      BY <1>0, <1>2, <2>1, LoadStreamType DEF ReadResp
    <3>2. rep'[h].pair = pair
      BY <1>0, <3>1 DEF NewReplay
    <3>3. PICK g \in RecHandles : /\ phase[g] = "saved" /\ fp[g] = fp[h]
                                  /\ pair = RecordedPair(rec[g])
      BY <3>1, LoadedIsSaved
    <3> QED
      BY <3>1, <3>2, <3>3
  <2>2. CASE ~ReadResp(h)
    <3>1. phase[h] = "replaying" /\ rep'[h].pair = rep[h].pair /\ fp'[h] = fp[h]
      <4>1. CASE ReplayStep(h)
        <5>1. /\ \A f, m : Send(rep[h], f, m).pair = rep[h].pair
              /\ HalfClose(rep[h]).pair = rep[h].pair
              /\ Recv(rep[h]).pair = rep[h].pair
          BY <1>0 DEF Send, HalfClose, Recv, Replays
        <5>2. ~ReadReq(h)
          BY <1>0, <1>2, UnreadableReq DEF ReadReq
        <5> QED
          BY <1>0, <1>2, <2>2, <4>1, <5>1, <5>2
             DEF ReplayStep, OpenStreamReplay, ReplaySend, ReplayHalfClose,
                 ReplayRecv
      <4>2. CASE ~ReplayStep(h)
        BY <1>2, <4>2, ReplayFrame
      <4> QED
        BY <4>1, <4>2
    <3> QED
      BY <3>1 DEF ServedInv
  <2> QED
    BY <2>1, <2>2
<1>3. ASSUME NEW g \in RecHandles, Opened(g)'
      PROVE  rec'[g].typ = TypeOf[fp'[g][1]]
  <2>1. ASSUME NEW id \in Ids, OpenStreamRecord(g, id)
        PROVE  rec'[g].typ = TypeOf[fp'[g][1]]
    <3>1. rec'[g] = NewRecording(TypeOf[id])
          /\ fp'[g] = StreamOpenFingerprint(SessionOf[g], id)
      BY <1>0, <2>1 DEF OpenStreamRecord
    <3> QED
      BY <3>1 DEF NewRecording, StreamOpenFingerprint
  <2>2. ASSUME RecordStep(g), ~\E id \in Ids : OpenStreamRecord(g, id)
        PROVE  /\ Opened(g) /\ rec'[g].typ = rec[g].typ /\ fp'[g] = fp[g]
    <3>1. /\ \A f, m : /\ RecordSend(rec[g], f, m).typ = rec[g].typ
                       /\ RecordRecv(rec[g], f, m).typ = rec[g].typ
          /\ RecordHalfClose(rec[g]).typ = rec[g].typ
          /\ \A e : FinishRecording(rec[g], e).typ = rec[g].typ
      BY <1>0 DEF RecordSend, RecordRecv, RecordHalfClose, FinishRecording,
                  Recordings
    <3> QED
      BY <1>0, <2>2, <3>1
         DEF RecordStep, ObserveSend, ObserveRecv, ObserveHalfClose, Finish,
             FileOperationFails, Unlocked, SavePhases, Opened
  <2>3. CASE ~RecordStep(g)
    BY <1>3, <2>3, RecordFrame DEF ServedInv
  <2> QED
    BY <2>1, <2>2, <2>3 DEF ServedInv
<1> QED
  BY <1>1, <1>2, <1>3 DEF ServedInv, Opened

-----------------------------------------------------------------------------
(***************************************************************************)
(* Recorded messages are the scrubbed live ones.                           *)
(***************************************************************************)

\* Nothing has been recorded.
LEMMA InitRecorded == Init => RecordedInv
BY DEF Init, RecordedInv, Opened, Handles

\* A send appends the scrubbed message to the recording and the raw one to
\* the history; no other step touches either.
LEMMA NextRecorded == TypeOK /\ RecordedInv /\ [Next]_vars => RecordedInv'
<1> SUFFICES ASSUME TypeOK, RecordedInv, [Next]_vars, NEW g \in RecHandles
             PROVE  /\ ~Opened(g)' => raw'[g] = << >>
                    /\ Opened(g)' =>
                        /\ Len(rec'[g].sends) = Len(raw'[g])
                        /\ \A i \in 1 .. Len(raw'[g]) :
                             rec'[g].sends[i].message
                                = Scrub[SessionOf[g]][raw'[g][i]]
  BY DEF RecordedInv, Opened
<1> USE SessionAssumption DEF Handles
<1>0. /\ phase \in [Handles -> RecPhases \cup RepPhases]
      /\ rec \in [RecHandles -> Recordings]
      /\ raw \in [Handles -> Seq(Messages)]
      /\ rec[g] \in Recordings /\ raw[g] \in Seq(Messages)
  BY DEF TypeOK
<1>1. ASSUME NEW id \in Ids, OpenStreamRecord(g, id)
      PROVE  Opened(g)' /\ rec'[g].sends = << >> /\ raw'[g] = << >>
  BY <1>0, <1>1 DEF OpenStreamRecord, NewRecording, RecordedInv, Opened
<1>2. ASSUME NEW m \in Messages, ObserveSend(g, m), ~rec[g].finished
      PROVE  /\ Opened(g)' /\ Len(rec'[g].sends) = Len(raw'[g])
             /\ \A i \in 1 .. Len(raw'[g]) :
                    rec'[g].sends[i].message = Scrub[SessionOf[g]][raw'[g][i]]
  <2> DEFINE scrub == Scrub[SessionOf[g]]
             frame == StreamFrame(rec[g].seq, scrub[m])
             n == Len(raw[g])
             old == rec[g].sends
  <2>1. /\ rec'[g].sends = Append(old, frame)
        /\ raw'[g] = Append(raw[g], m) /\ Opened(g) /\ phase' = phase
    BY <1>0, <1>2 DEF ObserveSend, RecordSend, Recordings, Unlocked, Opened
  <2>2. /\ old \in Seq(Frames) /\ frame \in Frames
        /\ frame.message = scrub[m]
    BY <1>0, FrameType DEF Recordings, StreamFrame
  <2>3. /\ Len(old) = n /\ n \in Nat
        /\ \A i \in 1 .. n : old[i].message = scrub[raw[g][i]]
    BY <1>0, <2>1, LenProperties DEF RecordedInv
  <2> HIDE DEF scrub, frame, n, old
  <2>4. /\ Len(rec'[g].sends) = n + 1 /\ rec'[g].sends[n + 1] = frame
        /\ \A i \in 1 .. n : rec'[g].sends[i] = old[i]
    <3>1. /\ Len(Append(old, frame)) = n + 1 /\ Append(old, frame)[n + 1] = frame
          /\ \A i \in 1 .. n : Append(old, frame)[i] = old[i]
      BY <2>2, <2>3, AppendProperties
    <3> QED
      BY <2>1, <3>1
  <2>5. /\ Len(raw'[g]) = n + 1 /\ raw'[g][n + 1] = m
        /\ \A i \in 1 .. n : raw'[g][i] = raw[g][i]
    BY <1>0, <2>1, AppendProperties DEF n
  <2>6. \A i \in 1 .. n + 1 : i \in 1 .. n \/ i = n + 1
    BY <2>3
  <2>7. \A i \in 1 .. n + 1 : rec'[g].sends[i].message = scrub[raw'[g][i]]
    BY <2>2, <2>3, <2>4, <2>5, <2>6
  <2> QED
    BY <2>1, <2>4, <2>5, <2>7 DEF scrub, Opened
<1>3. ASSUME RecordStep(g), ~\E id \in Ids : OpenStreamRecord(g, id),
             ~\E m \in Messages : ObserveSend(g, m) /\ ~rec[g].finished
      PROVE  /\ Opened(g) /\ Opened(g)'
             /\ rec'[g].sends = rec[g].sends /\ raw'[g] = raw[g]
  <2>1. /\ rec[g].finished => \A f, m : RecordSend(rec[g], f, m) = rec[g]
        /\ \A f, m : RecordRecv(rec[g], f, m).sends = rec[g].sends
        /\ RecordHalfClose(rec[g]).sends = rec[g].sends
        /\ \A e : FinishRecording(rec[g], e).sends = rec[g].sends
    BY <1>0 DEF RecordSend, RecordRecv, RecordHalfClose, FinishRecording,
                Recordings
  <2>2. ASSUME NEW m \in Messages, ObserveSend(g, m)
        PROVE  rec'[g] = rec[g] /\ raw' = raw /\ phase' = phase
    BY <1>0, <1>3, <2>1, <2>2 DEF ObserveSend
  <2>3. ASSUME \/ \E m \in Messages : ObserveRecv(g, m)
               \/ ObserveHalfClose(g)
               \/ \E e \in BOOLEAN : Finish(g, e)
               \/ FileOperationFails(g)
        PROVE  /\ rec'[g].sends = rec[g].sends /\ raw' = raw
               /\ phase'[g] = phase[g] \/ phase'[g] # "idle"
    BY <1>0, <2>1, <2>3 DEF ObserveRecv, ObserveHalfClose, Finish,
                            FileOperationFails
  <2>4. Opened(g)
    BY <1>3 DEF RecordStep, ObserveSend, ObserveRecv, ObserveHalfClose, Finish,
                FileOperationFails, Unlocked, SavePhases, Opened
  <2> QED
    BY <1>3, <2>2, <2>3, <2>4 DEF RecordStep, Opened
<1>4. CASE ~RecordStep(g)
  BY <1>4, RecordFrame DEF RecordedInv
<1> QED
  BY <1>0, <1>1, <1>2, <1>3, <1>4 DEF RecordedInv

-----------------------------------------------------------------------------
(***************************************************************************)
(* Send validation.                                                        *)
(***************************************************************************)

\* A replay that was sent nothing has compared everything it was sent.
LEMMA NewReplayCompared ==
    ASSUME NEW p \in Pairs, NEW scrub
    PROVE  Compared(NewReplay(p), scrub, << >>)
<1>1. Len(p.sends) \in Nat
  BY LenProperties DEF Pairs
<1> QED
  BY <1>1 DEF Compared, NewReplay

\* Send compares the one message that is due, and nothing once the recorded
\* sends are over or the stream has failed.
LEMMA SendCompares ==
    ASSUME NEW rp \in Replays, NEW scrub, NEW sent \in Seq(Messages),
           NEW m \in Messages, Compared(rp, scrub, sent)
    PROVE  Compared(Send(rp, scrub, m), scrub, Append(sent, m))
<1> DEFINE longer == Append(sent, m)
           w == Send(rp, scrub, m)
           n == Len(rp.pair.sends)
<1>1. rp.sendIdx \in Nat /\ n \in Nat /\ Len(sent) \in Nat
  BY LenProperties DEF Replays, Pairs
<1>2. /\ Len(longer) = Len(sent) + 1 /\ longer[Len(sent) + 1] = m
      /\ \A i \in 1 .. Len(sent) : longer[i] = sent[i]
  BY AppendProperties
<1>3. /\ rp.sendIdx <= n /\ rp.sendIdx <= Len(sent)
      /\ \A i \in 1 .. rp.sendIdx : scrub[sent[i]] = rp.pair.sends[i].message
  BY DEF Compared
<1>4. \A i \in 1 .. rp.sendIdx : i \in 1 .. Len(sent) /\ longer[i] = sent[i]
  BY <1>1, <1>2, <1>3
<1>5. CASE rp.mismatch # "none"
  <2>1. w = rp
    BY <1>5 DEF Send, SendResult
  <2>2. ASSUME rp.mismatch = "send"
        PROVE  /\ rp.sendIdx + 1 <= n /\ rp.sendIdx + 1 <= Len(longer)
               /\ scrub[longer[rp.sendIdx + 1]]
                    # rp.pair.sends[rp.sendIdx + 1].message
    <3>1. /\ rp.sendIdx + 1 <= n /\ rp.sendIdx + 1 <= Len(sent)
          /\ scrub[sent[rp.sendIdx + 1]] # rp.pair.sends[rp.sendIdx + 1].message
      BY <2>2 DEF Compared
    <3>2. rp.sendIdx + 1 \in 1 .. Len(sent)
      BY <1>1, <3>1
    <3> QED
      BY <1>1, <1>2, <3>1, <3>2
  <2> QED
    BY <1>1, <1>2, <1>3, <1>4, <1>5, <2>1, <2>2 DEF Compared
<1>6. CASE rp.mismatch = "none" /\ rp.sendIdx >= n
  <2>1. SendResult(rp, scrub, m) = TerminalErr(rp)
    BY <1>6 DEF SendResult
  <2>2. w = rp
    BY <2>1 DEF Send, TerminalErr
  <2> QED
    BY <1>1, <1>2, <1>3, <1>4, <1>6, <2>2 DEF Compared
<1>7. CASE rp.mismatch = "none" /\ rp.sendIdx < n
  <2>1. Len(sent) = rp.sendIdx
    BY <1>7 DEF Compared
  <2>2. CASE scrub[m] = rp.pair.sends[rp.sendIdx + 1].message
    <3>1. w = [rp EXCEPT !.sendIdx = @ + 1]
      BY <1>1, <1>7, <2>2 DEF Send, SendResult
    <3>2. w.sendIdx = rp.sendIdx + 1 /\ w.pair = rp.pair /\ w.mismatch = "none"
      BY <1>7, <3>1 DEF Replays
    <3>3. \A i \in 1 .. rp.sendIdx + 1 : scrub[longer[i]] = rp.pair.sends[i].message
      <4>1. \A i \in 1 .. rp.sendIdx + 1 : i \in 1 .. rp.sendIdx \/ i = rp.sendIdx + 1
        BY <1>1
      <4> QED
        BY <1>2, <1>3, <1>4, <2>1, <2>2, <4>1
    <3> HIDE DEF w, longer
    <3>4. Compared(w, scrub, longer)
      BY <1>1, <1>2, <1>7, <2>1, <3>2, <3>3 DEF Compared
    <3> QED
      BY <3>4 DEF w, longer
  <2>3. CASE scrub[m] # rp.pair.sends[rp.sendIdx + 1].message
    <3>1. w = [rp EXCEPT !.mismatch = "send"]
      BY <1>1, <1>7, <2>3 DEF Send, SendResult
    <3>2. w.sendIdx = rp.sendIdx /\ w.pair = rp.pair /\ w.mismatch = "send"
      BY <3>1 DEF Replays
    <3> HIDE DEF w, longer
    <3>3. /\ \A i \in 1 .. rp.sendIdx : scrub[longer[i]] = rp.pair.sends[i].message
          /\ longer[rp.sendIdx + 1] = m /\ Len(longer) = rp.sendIdx + 1
      BY <1>2, <1>3, <1>4, <2>1
    <3>4. Compared(w, scrub, longer)
      BY <1>1, <1>7, <2>3, <3>2, <3>3 DEF Compared
    <3> QED
      BY <3>4 DEF w, longer
  <2> QED
    BY <2>2, <2>3
<1> QED
  BY <1>1, <1>5, <1>6, <1>7 DEF Replays

\* HalfClose fails a stream with sends due, and Recv compares nothing.
LEMMA OthersCompare ==
    ASSUME NEW rp \in Replays, NEW scrub, NEW sent, Compared(rp, scrub, sent)
    PROVE  /\ Compared(HalfClose(rp), scrub, sent)
           /\ Compared(Recv(rp), scrub, sent)
<1>1. rp.sendIdx \in Nat /\ Len(rp.pair.sends) \in Nat
  BY LenProperties DEF Replays, Pairs
<1>2. Compared(Recv(rp), scrub, sent)
  <2>1. /\ Recv(rp).sendIdx = rp.sendIdx /\ Recv(rp).pair = rp.pair
        /\ Recv(rp).mismatch = rp.mismatch
    BY DEF Recv, Replays
  <2> QED
    BY <2>1 DEF Compared
<1>3. Compared(HalfClose(rp), scrub, sent)
  <2>1. CASE rp.mismatch = "none" /\ rp.sendIdx < Len(rp.pair.sends)
    <3>1. /\ HalfClose(rp).sendIdx = rp.sendIdx /\ HalfClose(rp).pair = rp.pair
          /\ HalfClose(rp).mismatch = "half_close"
      BY <2>1 DEF HalfClose, Replays
    <3> QED
      BY <1>1, <2>1, <3>1 DEF Compared
  <2>2. CASE ~(rp.mismatch = "none" /\ rp.sendIdx < Len(rp.pair.sends))
    BY <2>2 DEF HalfClose
  <2> QED
    BY <2>1, <2>2
<1> QED
  BY <1>2, <1>3

\* Nothing has been opened or sent.
LEMMA InitCompared == Init => ComparedInv
BY DEF Init, ComparedInv, Handles, EmptyReplay, NewReplay

\* Every operation of a replay keeps the account of what was compared.
LEMMA NextCompared == TypeOK /\ ComparedInv /\ [Next]_vars => ComparedInv'
<1> SUFFICES ASSUME TypeOK, ComparedInv, [Next]_vars, NEW h \in RepHandles
             PROVE  /\ phase'[h] # "replaying" =>
                            rep'[h].mismatch = "none" /\ raw'[h] = << >>
                    /\ phase'[h] = "replaying" =>
                            Compared(rep'[h], Scrub[SessionOf[h]], raw'[h])
  BY DEF ComparedInv
<1> USE SessionAssumption DEF Handles
<1> DEFINE scrub == Scrub[SessionOf[h]]
<1>0. /\ phase \in [Handles -> RecPhases \cup RepPhases]
      /\ rep \in [RepHandles -> Replays] /\ rep[h] \in Replays
      /\ raw \in [Handles -> Seq(Messages)] /\ raw[h] \in Seq(Messages)
      /\ TypeOK'
  BY NextTypeOK DEF TypeOK
<1>1. ASSUME NEW id \in Ids, OpenStreamReplay(h, id)
      PROVE  /\ phase[h] # "replaying" /\ phase'[h] # "replaying"
             /\ rep' = rep /\ raw' = raw
  BY <1>0, <1>1 DEF OpenStreamReplay
<1>2. ASSUME ReadReq(h)
      PROVE  /\ phase[h] # "replaying" /\ phase'[h] # "replaying"
             /\ rep' = rep /\ raw' = raw
  BY <1>0, <1>2, UnreadableReq DEF ReadReq
<1>3. ASSUME ReadResp(h)
      PROVE  /\ phase[h] # "replaying" /\ raw' = raw
             /\ phase'[h] # "replaying" => rep' = rep
             /\ phase'[h] = "replaying" =>
                    \E p \in Pairs : rep'[h] = NewReplay(p)
  <2> DEFINE pair == PairOf(seenReq[h], ReadStreamFile(respFiles, fp[h]))
  <2>1. /\ phase[h] # "replaying" /\ raw' = raw
        /\ phase'[h] # "replaying" => rep' = rep
        /\ phase'[h] = "replaying" => rep'[h] = NewReplay(pair)
    BY <1>0, <1>3, LoadStreamType DEF ReadResp
  <2>2. rep'[h] \in Replays
    BY <1>0 DEF TypeOK
  <2>3. rep'[h] = NewReplay(pair) => pair \in Pairs
    BY <2>2 DEF NewReplay, Replays
  <2> QED
    BY <2>1, <2>3
<1>4. ASSUME NEW m \in Messages, ReplaySend(h, m)
      PROVE  phase'[h] = "replaying" /\ Compared(rep'[h], scrub, raw'[h])
  <2>1. /\ rep'[h] = Send(rep[h], scrub, m) /\ raw'[h] = Append(raw[h], m)
        /\ phase' = phase /\ phase[h] = "replaying"
    BY <1>0, <1>4 DEF ReplaySend
  <2>2. Compared(rep[h], scrub, raw[h])
    BY <2>1 DEF ComparedInv
  <2> HIDE DEF scrub
  <2>3. Compared(Send(rep[h], scrub, m), scrub, Append(raw[h], m))
    BY <1>0, <2>2, SendCompares
  <2> QED
    BY <2>1, <2>3
<1>5. ASSUME ReplayHalfClose(h) \/ ReplayRecv(h)
      PROVE  phase'[h] = "replaying" /\ Compared(rep'[h], scrub, raw'[h])
  <2>1. /\ rep'[h] = HalfClose(rep[h]) \/ rep'[h] = Recv(rep[h])
        /\ raw' = raw /\ phase' = phase /\ phase[h] = "replaying"
    BY <1>0, <1>5 DEF ReplayHalfClose, ReplayRecv
  <2>2. Compared(rep[h], scrub, raw[h])
    BY <2>1 DEF ComparedInv
  <2> HIDE DEF scrub
  <2>3. /\ Compared(HalfClose(rep[h]), scrub, raw[h])
        /\ Compared(Recv(rep[h]), scrub, raw[h])
    BY <1>0, <2>2, OthersCompare
  <2> QED
    BY <2>1, <2>3
<1>6. ASSUME NEW p \in Pairs
      PROVE  Compared(NewReplay(p), scrub, << >>)
  BY NewReplayCompared
<1>7. CASE ReplayStep(h)
  BY <1>1, <1>2, <1>3, <1>4, <1>5, <1>6, <1>7 DEF ReplayStep, ComparedInv
<1>8. CASE ~ReplayStep(h)
  BY <1>8, ReplayFrame DEF ComparedInv
<1> QED
  BY <1>7, <1>8

\* The account of what was compared, on every behaviour.
LEMMA ComparedInvariant == Spec => [](TypeOK /\ ComparedInv)
<1> QED
  BY TypeCorrect, InitCompared, NextCompared, PTL DEF Spec

-----------------------------------------------------------------------------
(***************************************************************************)
(* The theorems.                                                           *)
(***************************************************************************)
ReplayInv == OrdinalInv /\ ServedInv /\ RecordedInv /\ ComparedInv

\* The whole invariant, while one session does all the recording.
LEMMA ReplayInvariant ==
    ASSUME SingleWriter
    PROVE  Spec => [](TypeOK /\ CounterInv /\ DirectoryInv /\ ReplayInv)
<1>1. Init => CounterInv
  BY DEF Init, CounterInv, CounterPassed, CounterSeparates, Opened, Handles
<1>2. Init => ReplayInv
  BY InitOrdinal, InitServed, InitRecorded, InitCompared DEF ReplayInv
<1>3. TypeOK /\ DirectoryInv /\ ReplayInv /\ [Next]_vars => ReplayInv'
  BY NextOrdinal, NextServed, NextRecorded, NextCompared DEF ReplayInv
<1> QED
  BY <1>1, <1>2, <1>3, TypeCorrect, NextCounter, DirectoryInvariant, PTL DEF Spec

\* Whatever was never saved and whatever opens missed, the k-th open of an
\* id is served the k-th recording of that id: OpenStreamReplay and
\* OpenStreamRecord consume the counter alike.
THEOREM KthForKth ==
    ASSUME SingleWriter
    PROVE  Spec => []KthOpenServesKthRecording
<1>1. TypeOK /\ ReplayInv => KthOpenServesKthRecording
  <2> SUFFICES ASSUME TypeOK, ReplayInv, NEW h \in RepHandles,
                      phase[h] = "replaying", fp[h][1] \in CounterIds
               PROVE  \E g \in RecHandles :
                        Counterpart(g, h) /\ rep[h].pair = RecordedPair(rec[g])
    BY DEF KthOpenServesKthRecording
  <2>1. PICK g \in RecHandles : /\ phase[g] = "saved" /\ fp[g] = fp[h]
                                /\ rep[h].pair = RecordedPair(rec[g])
    BY DEF ReplayInv, ServedInv
  <2>2. Counterpart(g, h)
    BY <2>1, CounterpartShares DEF ReplayInv, Opened
  <2> QED
    BY <2>1, <2>2
<1> QED
  BY <1>1, ReplayInvariant, PTL

\* An open whose recording had been saved when it looked is never refused,
\* as a miss, as malformed or for its shape.
THEOREM SavedIsServed ==
    ASSUME SingleWriter
    PROVE  Spec => RefusedOnlyIfUnsaved
<1> DEFINE Refused(h) == /\ phase[h] \in {"readReq", "readResp"}
                         /\ phase'[h] \in {"miss", "malformed", "shape"}
<1>1. ASSUME TypeOK, DirectoryInv, ReplayInv, [Next]_vars,
             NEW h \in RepHandles, Refused(h),
             NEW g \in RecHandles, Counterpart(g, h), phase[g] = "saved"
      PROVE  FALSE
  <2> DEFINE p == RecordedPair(rec[g])
  <2>1. fp[g] = fp[h]
    BY <1>1, CounterpartShares DEF ReplayInv
  <2>2. /\ ReadStreamFile(reqFiles, fp[h]) = ReqFile(p)
        /\ ReadStreamFile(respFiles, fp[h]) = RespFile(p)
        /\ ValidateStreamPair(p)
    BY <1>1, <2>1 DEF DirectoryInv, FilesShowPhase, SavingIsValid, ReqOf,
                      RespOf, Opened
  <2>3. p \in Pairs /\ p.typ = TypeOf[fp[h][1]]
    BY <1>1, <2>1, RecordedPairType
       DEF TypeOK, ReplayInv, ServedInv, Opened, RecordedPair
  <2> HIDE DEF p
  <2>4. /\ LoadStream(ReqFile(p), RespFile(p)) = "ok"
        /\ PairOf(ReqFile(p), RespFile(p)) = p
    BY <2>2, <2>3, RoundTrip
  <2>5. ReqFile(p) \notin {Absent, Truncated}
    BY <2>4 DEF LoadStream
  <2>6. phase \in [Handles -> RecPhases \cup RepPhases] /\ h \in Handles
    BY <1>1 DEF TypeOK, Handles
  <2>7. CASE ReadReq(h)
    BY <1>1, <2>2, <2>5, <2>6, <2>7 DEF ReadReq
  <2>8. CASE ReadResp(h)
    <3>1. seenReq[h] = ReqFile(p)
      BY <1>1, <2>2, <2>8 DEF ReadResp, ReplayInv, ServedInv
    <3> QED
      BY <1>1, <2>2, <2>3, <2>4, <2>6, <2>8, <3>1 DEF ReadResp
  <2>9. CASE ReplayStep(h) /\ ~ReadReq(h) /\ ~ReadResp(h)
    BY <1>1, <2>6, <2>9 DEF ReplayStep, OpenStreamReplay, ReplaySend,
                            ReplayHalfClose, ReplayRecv
  <2>10. CASE ~ReplayStep(h)
    BY <1>1, <2>10, ReplayFrame
  <2> QED
    BY <2>7, <2>8, <2>9, <2>10
<1>2. TypeOK /\ DirectoryInv /\ ReplayInv /\ [Next]_vars =>
        [\A h \in RepHandles : Refused(h) =>
            ~\E g \in RecHandles : Counterpart(g, h) /\ phase[g] = "saved"]_vars
  BY <1>1
<1> QED
  BY <1>2, ReplayInvariant, PTL DEF Spec, RefusedOnlyIfUnsaved

\* Send validation is exact: what a replay accepted is what was recorded,
\* and what it refused was not.
THEOREM ExactMismatch ==
    ASSUME SingleWriter
    PROVE  Spec => []MismatchIffDivergent
<1>1. TypeOK /\ CounterInv /\ ReplayInv => MismatchIffDivergent
  <2> SUFFICES ASSUME TypeOK, CounterInv, ReplayInv, NEW g \in RecHandles,
                      NEW h \in RepHandles, Counterpart(g, h),
                      phase[h] = "replaying"
               PROVE  LET Rec(i) == Scrub[SessionOf[g]][raw[g][i]]
                          Live(i) == Scrub[SessionOf[h]][raw[h][i]]
                          due == rep[h].sendIdx + 1
                      IN
                      /\ \A i \in 1 .. rep[h].sendIdx : Live(i) = Rec(i)
                      /\ rep[h].mismatch = "send" =>
                              due <= Len(raw[g]) /\ Live(due) # Rec(due)
                      /\ rep[h].mismatch = "half_close" => due <= Len(raw[g])
    BY DEF MismatchIffDivergent
  <2>1. Opened(g) /\ fp[g] = fp[h]
    BY CounterpartShares DEF ReplayInv
  <2>2. PICK k \in RecHandles : /\ phase[k] = "saved" /\ fp[k] = fp[h]
                                /\ rep[h].pair = RecordedPair(rec[k])
    BY DEF ReplayInv, ServedInv
  <2>3. k = g
    <3>1. Apart
      BY SingleWriterApart
    <3> QED
      BY <2>1, <2>2, <3>1 DEF Apart, Opened
  <2>4. rep[h].pair.sends = rec[g].sends
    BY <2>2, <2>3 DEF RecordedPair
  <2>5. /\ Len(rec[g].sends) = Len(raw[g]) /\ Len(raw[g]) \in Nat
        /\ \A i \in 1 .. Len(raw[g]) :
             rec[g].sends[i].message = Scrub[SessionOf[g]][raw[g][i]]
    BY <2>1, LenProperties DEF ReplayInv, RecordedInv, TypeOK, Handles
  <2>6. Compared(rep[h], Scrub[SessionOf[h]], raw[h]) /\ rep[h].sendIdx \in Nat
    BY DEF ReplayInv, ComparedInv, TypeOK, Replays
  <2>7. ASSUME NEW i \in 1 .. rep[h].sendIdx
        PROVE  Scrub[SessionOf[h]][raw[h][i]] = Scrub[SessionOf[g]][raw[g][i]]
    <3>1. i \in 1 .. Len(raw[g])
      BY <2>4, <2>5, <2>6 DEF Compared
    <3> QED
      BY <2>4, <2>5, <2>6, <3>1 DEF Compared
  <2>8. ASSUME rep[h].mismatch = "send"
        PROVE  /\ rep[h].sendIdx + 1 <= Len(raw[g])
               /\ Scrub[SessionOf[h]][raw[h][rep[h].sendIdx + 1]]
                    # Scrub[SessionOf[g]][raw[g][rep[h].sendIdx + 1]]
    <3>1. /\ rep[h].sendIdx + 1 <= Len(raw[g])
          /\ Scrub[SessionOf[h]][raw[h][rep[h].sendIdx + 1]]
                # rec[g].sends[rep[h].sendIdx + 1].message
      BY <2>4, <2>5, <2>6, <2>8 DEF Compared
    <3>2. rep[h].sendIdx + 1 \in 1 .. Len(raw[g])
      BY <2>5, <2>6, <3>1
    <3> QED
      BY <2>5, <3>1, <3>2
  <2>9. rep[h].mismatch = "half_close" => rep[h].sendIdx + 1 <= Len(raw[g])
    BY <2>4, <2>5, <2>6 DEF Compared
  <2> QED
    BY <2>7, <2>8, <2>9
<1> QED
  BY <1>1, ReplayInvariant, PTL

\* No operation changes a replay that has failed on a mismatch, whoever
\* records and however streams are addressed.
THEOREM MismatchSticks == Spec => MismatchIsTerminal
<1>1. ASSUME TypeOK, ComparedInv, [Next]_vars, NEW h \in RepHandles,
             rep[h].mismatch # "none"
      PROVE  rep'[h] = rep[h]
  <2>1. phase[h] = "replaying"
    BY <1>1 DEF ComparedInv
  <2>2. rep \in [RepHandles -> Replays]
    BY <1>1 DEF TypeOK
  <2>3. /\ \A f, m : Send(rep[h], f, m) = rep[h]
        /\ HalfClose(rep[h]) = rep[h] /\ Recv(rep[h]) = rep[h]
    BY <1>1 DEF Send, SendResult, HalfClose, Recv, RecvResult
  <2>4. CASE ReplayStep(h)
    BY <2>1, <2>2, <2>3, <2>4
       DEF ReplayStep, OpenStreamReplay, ReadReq, ReadResp, ReplaySend,
           ReplayHalfClose, ReplayRecv
  <2>5. CASE ~ReplayStep(h)
    BY <1>1, <2>5, ReplayFrame
  <2> QED
    BY <2>4, <2>5
<1>2. TypeOK /\ ComparedInv /\ [Next]_vars =>
        [\A h \in RepHandles :
            rep[h].mismatch # "none" => rep'[h] = rep[h]]_vars
  BY <1>1
<1> QED
  BY <1>2, ComparedInvariant, PTL DEF Spec, MismatchIsTerminal

-----------------------------------------------------------------------------
(***************************************************************************)
(* Streamed recording implements Conversation, while one session records.  *)
(* The log of a recording is a function of its record alone; the lemmas    *)
(* say what each operation of StreamHandle does to it.  A saved recording  *)
(* loads as what it was (DirectoryInv), so what is published is the log.   *)
(***************************************************************************)
Log(r) == LogOf(RecordedPair(r), r.seq)

Events == Abstract!Events

\* In a direction whose numbers ascend a number stands at one place.
LEMMA NumberedAt ==
    ASSUME NEW s \in Seq(Frames), StrictlyAscending(s), NEW i \in DOMAIN s
    PROVE  Numbered(s, s[i].seq) = i
<1>1. DOMAIN s \subseteq Nat /\ \A j \in DOMAIN s : s[j].seq \in Nat
  <2>1. DOMAIN s = 1 .. Len(s) /\ Len(s) \in Nat
    BY LenProperties
  <2>2. \A j \in DOMAIN s : s[j] \in Frames
    BY <2>1, ElementOfSeq
  <2> QED
    BY <2>1, <2>2 DEF Frames
<1>2. ASSUME NEW j \in DOMAIN s, s[j].seq = s[i].seq
      PROVE  j = i
  <2>1. ~(j < i) /\ ~(i < j)
    BY <1>1, <1>2 DEF StrictlyAscending
  <2> QED
    BY <1>1, <2>1
<1>3. \E j \in DOMAIN s : s[j].seq = s[i].seq
  OBVIOUS
<1> QED
  BY <1>2, <1>3 DEF Numbered

\* The events of a densely numbered recording, one kind at a time.
LEMMA EventKinds ==
    ASSUME NEW r \in Recordings, DenselyNumbered(r), NEW q \in Nat
    PROVE  LET p == RecordedPair(r) IN
           /\ \A i \in DOMAIN r.sends : r.sends[i].seq = q =>
                EventAt(p, q) = [kind |-> "send", value |-> r.sends[i].message]
           /\ \A i \in DOMAIN r.recvs : r.recvs[i].seq = q =>
                EventAt(p, q) = [kind |-> "recv", value |-> r.recvs[i].message]
           /\ q \in r.halfClose =>
                EventAt(p, q) = [kind |-> "half_close", value |-> TRUE]
           /\ q \notin SeqsBeforeEnd(r) =>
                EventAt(p, q) = [kind |-> "end", value |-> r.err]
<1> DEFINE p == RecordedPair(r)
<1>1. /\ p.sends = r.sends /\ p.recvs = r.recvs /\ p.halfClose = r.halfClose
      /\ p.err = r.err
  BY DEF RecordedPair
<1>2. r.sends \in Seq(Frames) /\ r.recvs \in Seq(Frames)
  BY DEF Recordings
<1> HIDE DEF p
<1>3. ASSUME NEW i \in DOMAIN r.sends, r.sends[i].seq = q
      PROVE  EventAt(p, q) = [kind |-> "send", value |-> r.sends[i].message]
  <2>1. q \in SeqsOf(r.sends)
    BY <1>3 DEF SeqsOf
  <2>2. Numbered(r.sends, q) = i
    BY <1>2, <1>3, NumberedAt DEF DenselyNumbered
  <2>3. q \notin SeqsOf(r.recvs) /\ q \notin r.halfClose
    BY <2>1 DEF DenselyNumbered
  <2> QED
    BY <1>1, <2>1, <2>2, <2>3 DEF EventAt
<1>4. ASSUME NEW i \in DOMAIN r.recvs, r.recvs[i].seq = q
      PROVE  EventAt(p, q) = [kind |-> "recv", value |-> r.recvs[i].message]
  <2>1. q \in SeqsOf(r.recvs)
    BY <1>4 DEF SeqsOf
  <2>2. Numbered(r.recvs, q) = i
    BY <1>2, <1>4, NumberedAt DEF DenselyNumbered
  <2>3. q \notin SeqsOf(r.sends) /\ q \notin r.halfClose
    BY <2>1 DEF DenselyNumbered
  <2> QED
    BY <1>1, <2>1, <2>2, <2>3 DEF EventAt
<1>5. ASSUME q \in r.halfClose
      PROVE  EventAt(p, q) = [kind |-> "half_close", value |-> TRUE]
  <2>1. q \notin SeqsOf(r.sends) /\ q \notin SeqsOf(r.recvs)
    BY <1>5 DEF DenselyNumbered
  <2> QED
    BY <1>1, <1>5, <2>1 DEF EventAt
<1>6. ASSUME q \notin SeqsBeforeEnd(r)
      PROVE  EventAt(p, q) = [kind |-> "end", value |-> r.err]
  BY <1>1, <1>6 DEF EventAt, SeqsBeforeEnd
<1> QED
  BY <1>3, <1>4, <1>5, <1>6 DEF p

\* What stands at every place of the log of a densely numbered recording.
LEMMA LogEvents ==
    ASSUME NEW r \in Recordings, DenselyNumbered(r)
    PROVE  /\ Log(r) \in Seq(Events) /\ Len(Log(r)) = r.seq
           /\ DOMAIN Log(r) = 1 .. r.seq
           /\ \A i \in 1 .. r.seq : Log(r)[i] = EventAt(RecordedPair(r), i - 1)
           /\ ~r.finished => \A i \in 1 .. r.seq : Log(r)[i].kind # "end"
           /\ r.halfClose = {} =>
                \A i \in 1 .. r.seq : Log(r)[i].kind # "half_close"
           /\ r.finished => r.seq \in 1 .. r.seq /\ Log(r)[r.seq].kind = "end"
<1> DEFINE p == RecordedPair(r)
<1>1. r.seq \in Nat /\ r.err \in BOOLEAN
  BY DEF Recordings
<1>e. /\ \A m \in Messages : /\ [kind |-> "send", value |-> m] \in Events
                              /\ [kind |-> "recv", value |-> m] \in Events
      /\ [kind |-> "half_close", value |-> TRUE] \in Events
      /\ [kind |-> "end", value |-> r.err] \in Events
  BY <1>1 DEF Events, Abstract!Events
<1>k. ASSUME NEW q \in 0 .. (r.seq - 1)
      PROVE  /\ EventAt(p, q) \in Events
             /\ ~r.finished => EventAt(p, q).kind # "end"
             /\ r.halfClose = {} => EventAt(p, q).kind # "half_close"
  <2>1. q \in Nat /\ q \in 0 .. (r.seq - 1)
    BY <1>1
  <2>2. q \in SeqsBeforeEnd(r) \/ (r.finished /\ q \notin SeqsBeforeEnd(r))
    BY <2>1 DEF DenselyNumbered, NumbersUsed
  <2>3. /\ \A j \in DOMAIN r.sends : r.sends[j].message \in Messages
        /\ \A j \in DOMAIN r.recvs : r.recvs[j].message \in Messages
    <3>1. r.sends \in Seq(Frames) /\ r.recvs \in Seq(Frames)
      BY DEF Recordings
    <3>2. /\ \A j \in DOMAIN r.sends : r.sends[j] \in Frames
          /\ \A j \in DOMAIN r.recvs : r.recvs[j] \in Frames
      BY <3>1, LenProperties, ElementOfSeq
    <3> QED
      BY <3>2 DEF Frames
  <2>e. /\ \A j \in DOMAIN r.sends : r.sends[j].seq = q =>
             EventAt(p, q) = [kind |-> "send", value |-> r.sends[j].message]
        /\ \A j \in DOMAIN r.recvs : r.recvs[j].seq = q =>
             EventAt(p, q) = [kind |-> "recv", value |-> r.recvs[j].message]
        /\ q \in r.halfClose =>
             EventAt(p, q) = [kind |-> "half_close", value |-> TRUE]
        /\ q \notin SeqsBeforeEnd(r) =>
             EventAt(p, q) = [kind |-> "end", value |-> r.err]
    BY <2>1, EventKinds
  <2> HIDE DEF p
  <2>4. CASE q \in SeqsOf(r.sends)
    <3>1. PICK j \in DOMAIN r.sends : r.sends[j].seq = q
      BY <2>4 DEF SeqsOf
    <3>2. EventAt(p, q) = [kind |-> "send", value |-> r.sends[j].message]
      BY <2>e, <3>1
    <3>3. [kind |-> "send", value |-> r.sends[j].message] \in Events
      BY <1>e, <2>3, Zenon
    <3>4. EventAt(p, q).kind = "send"
      BY <3>2
    <3> QED
      BY <3>2, <3>3, <3>4
  <2>5. CASE q \in SeqsOf(r.recvs)
    <3>1. PICK j \in DOMAIN r.recvs : r.recvs[j].seq = q
      BY <2>5 DEF SeqsOf
    <3>2. EventAt(p, q) = [kind |-> "recv", value |-> r.recvs[j].message]
      BY <2>e, <3>1
    <3>3. [kind |-> "recv", value |-> r.recvs[j].message] \in Events
      BY <1>e, <2>3, Zenon
    <3>4. EventAt(p, q).kind = "recv"
      BY <3>2
    <3> QED
      BY <3>2, <3>3, <3>4
  <2>6. CASE q \in r.halfClose
    <3>1. EventAt(p, q) = [kind |-> "half_close", value |-> TRUE]
      BY <2>e, <2>6
    <3> QED
      BY <1>e, <2>6, <3>1
  <2>7. CASE r.finished /\ q \notin SeqsBeforeEnd(r)
    <3>1. EventAt(p, q) = [kind |-> "end", value |-> r.err]
      BY <2>e, <2>7
    <3> QED
      BY <1>e, <2>7, <3>1
  <2> QED
    BY <2>2, <2>4, <2>5, <2>6, <2>7 DEF SeqsBeforeEnd
<1>2. ASSUME NEW i \in 1 .. r.seq
      PROVE  /\ EventAt(p, i - 1) \in Events
             /\ ~r.finished => EventAt(p, i - 1).kind # "end"
             /\ r.halfClose = {} => EventAt(p, i - 1).kind # "half_close"
  <2>1. i - 1 \in 0 .. (r.seq - 1)
    BY <1>1
  <2> QED
    BY <1>k, <2>1
<1>3. Log(r) = [i \in 1 .. r.seq |-> EventAt(p, i - 1)]
  BY DEF Log, LogOf
<1>4. Log(r) \in [1 .. r.seq -> Events]
  BY <1>2, <1>3
<1>5. Log(r) \in Seq(Events)
  BY <1>1, <1>4, SeqDef
<1>6. ASSUME r.finished
      PROVE  r.seq \in 1 .. r.seq /\ EventAt(p, r.seq - 1).kind = "end"
  <2>1. r.end = r.seq - 1 /\ r.end \in Nat /\ r.end \notin SeqsBeforeEnd(r)
    BY <1>6 DEF DenselyNumbered, Recordings
  <2>2. EventAt(p, r.end) = [kind |-> "end", value |-> r.err]
    BY <2>1, EventKinds
  <2> QED
    BY <1>1, <2>1, <2>2
<1>7. /\ DOMAIN Log(r) = 1 .. r.seq
      /\ \A i \in 1 .. r.seq : Log(r)[i] = EventAt(p, i - 1)
  BY <1>3
<1>8. Len(Log(r)) = r.seq
  BY <1>1, <1>5, <1>7, LenProperties
<1> HIDE DEF p
<1> QED
  BY <1>2, <1>5, <1>6, <1>7, <1>8 DEF p

\* A recording that keeps its events and gives the next number to one more
\* has one more event in its log.
LEMMA LogExtends ==
    ASSUME NEW r \in Recordings, NEW w \in Recordings, NEW e,
           DenselyNumbered(r), DenselyNumbered(w), ~r.finished,
           w.seq = r.seq + 1,
           \A i \in DOMAIN r.sends : i \in DOMAIN w.sends /\ w.sends[i] = r.sends[i],
           \A i \in DOMAIN r.recvs : i \in DOMAIN w.recvs /\ w.recvs[i] = r.recvs[i],
           r.halfClose \subseteq w.halfClose,
           EventAt(RecordedPair(w), r.seq) = e
    PROVE  Log(w) = Append(Log(r), e)
<1>1. r.seq \in Nat
  BY DEF Recordings
<1>2. ASSUME NEW q \in 0 .. (r.seq - 1)
      PROVE  EventAt(RecordedPair(w), q) = EventAt(RecordedPair(r), q)
  <2>1. q \in Nat /\ q \in SeqsBeforeEnd(r)
    BY <1>1 DEF DenselyNumbered, NumbersUsed
  <2>2. /\ \A i \in DOMAIN r.sends : r.sends[i].seq = q =>
             EventAt(RecordedPair(r), q)
                = [kind |-> "send", value |-> r.sends[i].message]
        /\ \A i \in DOMAIN r.recvs : r.recvs[i].seq = q =>
             EventAt(RecordedPair(r), q)
                = [kind |-> "recv", value |-> r.recvs[i].message]
        /\ q \in r.halfClose => EventAt(RecordedPair(r), q)
                = [kind |-> "half_close", value |-> TRUE]
    BY <2>1, EventKinds
  <2>3. /\ \A i \in DOMAIN w.sends : w.sends[i].seq = q =>
             EventAt(RecordedPair(w), q)
                = [kind |-> "send", value |-> w.sends[i].message]
        /\ \A i \in DOMAIN w.recvs : w.recvs[i].seq = q =>
             EventAt(RecordedPair(w), q)
                = [kind |-> "recv", value |-> w.recvs[i].message]
        /\ q \in w.halfClose => EventAt(RecordedPair(w), q)
                = [kind |-> "half_close", value |-> TRUE]
    BY <2>1, EventKinds
  <2>4. CASE q \in SeqsOf(r.sends)
    <3>1. PICK i \in DOMAIN r.sends : r.sends[i].seq = q
      BY <2>4 DEF SeqsOf
    <3>2. i \in DOMAIN w.sends /\ w.sends[i] = r.sends[i]
      OBVIOUS
    <3>3. /\ EventAt(RecordedPair(r), q)
                = [kind |-> "send", value |-> r.sends[i].message]
          /\ EventAt(RecordedPair(w), q)
                = [kind |-> "send", value |-> w.sends[i].message]
      BY <2>2, <2>3, <3>1, <3>2
    <3> QED
      BY <3>2, <3>3
  <2>5. CASE q \in SeqsOf(r.recvs)
    <3>1. PICK i \in DOMAIN r.recvs : r.recvs[i].seq = q
      BY <2>5 DEF SeqsOf
    <3>2. i \in DOMAIN w.recvs /\ w.recvs[i] = r.recvs[i]
      OBVIOUS
    <3>3. /\ EventAt(RecordedPair(r), q)
                = [kind |-> "recv", value |-> r.recvs[i].message]
          /\ EventAt(RecordedPair(w), q)
                = [kind |-> "recv", value |-> w.recvs[i].message]
      BY <2>2, <2>3, <3>1, <3>2
    <3> QED
      BY <3>2, <3>3
  <2>6. CASE q \in r.halfClose
    BY <2>2, <2>3, <2>6
  <2> QED
    BY <2>1, <2>4, <2>5, <2>6 DEF SeqsBeforeEnd
<1>3. /\ Log(r) \in Seq(Events) /\ Len(Log(r)) = r.seq
      /\ \A i \in 1 .. r.seq : Log(r)[i] = EventAt(RecordedPair(r), i - 1)
  BY LogEvents
<1>4. /\ Log(w) \in Seq(Events) /\ Len(Log(w)) = r.seq + 1
      /\ \A i \in 1 .. r.seq + 1 : Log(w)[i] = EventAt(RecordedPair(w), i - 1)
  BY LogEvents
<1>5. e \in Events
  <2>1. r.seq + 1 \in 1 .. r.seq + 1 /\ (r.seq + 1) - 1 = r.seq
    BY <1>1
  <2>2. Log(w)[r.seq + 1] = e
    BY <1>4, <2>1
  <2> QED
    BY <1>4, <2>1, <2>2, ElementOfSeq
<1>6. /\ Append(Log(r), e) \in Seq(Events)
      /\ Len(Append(Log(r), e)) = r.seq + 1
      /\ \A i \in 1 .. r.seq : Append(Log(r), e)[i] = Log(r)[i]
      /\ Append(Log(r), e)[r.seq + 1] = e
  BY <1>3, <1>5, AppendProperties
<1>7. ASSUME NEW i \in 1 .. r.seq + 1
      PROVE  Log(w)[i] = Append(Log(r), e)[i]
  <2>1. CASE i \in 1 .. r.seq
    <3>1. i - 1 \in 0 .. (r.seq - 1)
      BY <1>1, <2>1
    <3>2. EventAt(RecordedPair(w), i - 1) = EventAt(RecordedPair(r), i - 1)
      BY <1>2, <3>1
    <3> QED
      BY <1>3, <1>4, <1>6, <2>1, <3>2
  <2>2. CASE i = r.seq + 1
    <3>1. i - 1 = r.seq
      BY <1>1, <2>2
    <3> QED
      BY <1>4, <1>6, <2>2, <3>1
  <2>3. i \in 1 .. r.seq \/ i = r.seq + 1
    BY <1>1
  <2> QED
    BY <2>1, <2>2, <2>3
<1> QED
  BY <1>4, <1>6, <1>7, SeqEqual

\* An append keeps the places of a sequence.
LEMMA AppendKeeps ==
    ASSUME NEW s \in Seq(Frames), NEW f \in Frames
    PROVE  /\ \A i \in DOMAIN s :
                i \in DOMAIN Append(s, f) /\ Append(s, f)[i] = s[i]
           /\ Len(s) + 1 \in DOMAIN Append(s, f)
           /\ Append(s, f)[Len(s) + 1] = f
<1>1. DOMAIN s = 1 .. Len(s) /\ Len(s) \in Nat
  BY LenProperties
<1>2. /\ DOMAIN Append(s, f) = 1 .. Len(s) + 1
      /\ \A i \in 1 .. Len(s) : Append(s, f)[i] = s[i]
      /\ Append(s, f)[Len(s) + 1] = f
  BY AppendProperties
<1> QED
  BY <1>1, <1>2

\* What the four operations of a live recording append to its log.
LEMMA LogAppends ==
    ASSUME NEW r \in Recordings, DenselyNumbered(r), ~r.finished
    PROVE  /\ \A scrub \in [Messages -> Messages], m \in Messages :
                /\ Log(RecordSend(r, scrub, m))
                     = Append(Log(r), [kind |-> "send", value |-> scrub[m]])
                /\ Log(RecordRecv(r, scrub, m))
                     = Append(Log(r), [kind |-> "recv", value |-> scrub[m]])
           /\ r.halfClose = {} => Log(RecordHalfClose(r))
                     = Append(Log(r), [kind |-> "half_close", value |-> TRUE])
           /\ \A err \in BOOLEAN : Log(FinishRecording(r, err))
                     = Append(Log(r), [kind |-> "end", value |-> err])
<1>0. /\ r.seq \in Nat /\ r.sends \in Seq(Frames) /\ r.recvs \in Seq(Frames)
  BY DEF Recordings
<1>1. ASSUME NEW scrub \in [Messages -> Messages], NEW m \in Messages
      PROVE  Log(RecordSend(r, scrub, m))
                = Append(Log(r), [kind |-> "send", value |-> scrub[m]])
  <2> DEFINE w == RecordSend(r, scrub, m)
             f == StreamFrame(r.seq, scrub[m])
  <2>1. w \in Recordings /\ DenselyNumbered(w)
    BY RecordSendType, RecordSendDense
  <2>2. /\ w.seq = r.seq + 1 /\ w.sends = Append(r.sends, f)
        /\ w.recvs = r.recvs /\ w.halfClose = r.halfClose
    BY DEF RecordSend, Recordings
  <2>3. f \in Frames /\ f.seq = r.seq /\ f.message = scrub[m]
    BY <1>0, FrameType DEF StreamFrame
  <2> HIDE DEF w, f
  <2>4. /\ \A i \in DOMAIN r.sends : i \in DOMAIN w.sends /\ w.sends[i] = r.sends[i]
        /\ Len(r.sends) + 1 \in DOMAIN w.sends /\ w.sends[Len(r.sends) + 1] = f
    BY <1>0, <2>2, <2>3, AppendKeeps
  <2>5. EventAt(RecordedPair(w), r.seq) = [kind |-> "send", value |-> scrub[m]]
    <3>1. \A i \in DOMAIN w.sends : w.sends[i].seq = r.seq =>
             EventAt(RecordedPair(w), r.seq)
                = [kind |-> "send", value |-> w.sends[i].message]
      BY <1>0, <2>1, EventKinds
    <3> QED
      BY <2>3, <2>4, <3>1
  <2>6. Log(w) = Append(Log(r), [kind |-> "send", value |-> scrub[m]])
    BY <2>1, <2>2, <2>4, <2>5, LogExtends
  <2> QED
    BY <2>6 DEF w
<1>2. ASSUME NEW scrub \in [Messages -> Messages], NEW m \in Messages
      PROVE  Log(RecordRecv(r, scrub, m))
                = Append(Log(r), [kind |-> "recv", value |-> scrub[m]])
  <2> DEFINE w == RecordRecv(r, scrub, m)
             f == StreamFrame(r.seq, scrub[m])
  <2>1. w \in Recordings /\ DenselyNumbered(w)
    BY RecordRecvType, RecordRecvDense
  <2>2. /\ w.seq = r.seq + 1 /\ w.recvs = Append(r.recvs, f)
        /\ w.sends = r.sends /\ w.halfClose = r.halfClose
    BY DEF RecordRecv, Recordings
  <2>3. f \in Frames /\ f.seq = r.seq /\ f.message = scrub[m]
    BY <1>0, FrameType DEF StreamFrame
  <2> HIDE DEF w, f
  <2>4. /\ \A i \in DOMAIN r.recvs : i \in DOMAIN w.recvs /\ w.recvs[i] = r.recvs[i]
        /\ Len(r.recvs) + 1 \in DOMAIN w.recvs /\ w.recvs[Len(r.recvs) + 1] = f
    BY <1>0, <2>2, <2>3, AppendKeeps
  <2>5. EventAt(RecordedPair(w), r.seq) = [kind |-> "recv", value |-> scrub[m]]
    <3>1. \A i \in DOMAIN w.recvs : w.recvs[i].seq = r.seq =>
             EventAt(RecordedPair(w), r.seq)
                = [kind |-> "recv", value |-> w.recvs[i].message]
      BY <1>0, <2>1, EventKinds
    <3> QED
      BY <2>3, <2>4, <3>1
  <2>6. Log(w) = Append(Log(r), [kind |-> "recv", value |-> scrub[m]])
    BY <2>1, <2>2, <2>4, <2>5, LogExtends
  <2> QED
    BY <2>6 DEF w
<1>3. ASSUME r.halfClose = {}
      PROVE  Log(RecordHalfClose(r))
                = Append(Log(r), [kind |-> "half_close", value |-> TRUE])
  <2> DEFINE w == RecordHalfClose(r)
  <2>1. w \in Recordings /\ DenselyNumbered(w)
    BY RecordHalfCloseType, RecordHalfCloseDense
  <2>2. /\ w.seq = r.seq + 1 /\ w.recvs = r.recvs /\ w.sends = r.sends
        /\ w.halfClose = {r.seq}
    BY <1>3 DEF RecordHalfClose, Recordings
  <2> HIDE DEF w
  <2>3. EventAt(RecordedPair(w), r.seq) = [kind |-> "half_close", value |-> TRUE]
    BY <1>0, <2>1, <2>2, EventKinds
  <2>4. Log(w) = Append(Log(r), [kind |-> "half_close", value |-> TRUE])
    BY <1>3, <2>1, <2>2, <2>3, LogExtends
  <2> QED
    BY <2>4 DEF w
<1>4. ASSUME NEW err \in BOOLEAN
      PROVE  Log(FinishRecording(r, err))
                = Append(Log(r), [kind |-> "end", value |-> err])
  <2> DEFINE w == FinishRecording(r, err)
  <2>1. w \in Recordings /\ DenselyNumbered(w)
    BY FinishType, FinishDense
  <2>2. /\ w.seq = r.seq + 1 /\ w.recvs = r.recvs /\ w.sends = r.sends
        /\ w.halfClose = r.halfClose /\ w.err = err /\ w.finished /\ w.end = r.seq
    BY DEF FinishRecording, Recordings
  <2> HIDE DEF w
  <2>3. r.seq \notin SeqsBeforeEnd(w)
    BY <2>1, <2>2 DEF DenselyNumbered
  <2>4. EventAt(RecordedPair(w), r.seq) = [kind |-> "end", value |-> err]
    BY <1>0, <2>1, <2>2, <2>3, EventKinds
  <2>5. Log(w) = Append(Log(r), [kind |-> "end", value |-> err])
    BY <2>1, <2>2, <2>4, LogExtends
  <2> QED
    BY <2>5 DEF w
<1> QED
  BY <1>1, <1>2, <1>3, <1>4

-----------------------------------------------------------------------------
(***************************************************************************)
(* The refinement mapping.                                                 *)
(***************************************************************************)

\* A recording slot that was never opened has an empty log.
IdleIsEmpty == \A g \in RecHandles : ~Opened(g) => rec[g].seq = 0

RefinementInv ==
    TypeOK /\ DirectoryInv /\ DenseNumbering /\ IdleIsEmpty

\* No step records into a slot that is not open.
LEMMA NextIdleIsEmpty == TypeOK /\ IdleIsEmpty /\ [Next]_vars => IdleIsEmpty'
<1> SUFFICES ASSUME TypeOK, IdleIsEmpty, [Next]_vars, NEW g \in RecHandles,
                    ~Opened(g)'
             PROVE  rec'[g].seq = 0
  BY DEF IdleIsEmpty
<1> USE DEF Handles
<1>0. phase \in [Handles -> RecPhases \cup RepPhases]
  BY DEF TypeOK
<1>1. CASE RecordStep(g)
  <2>1. Opened(g)'
    BY <1>0, <1>1 DEF RecordStep, OpenStreamRecord, ObserveSend, ObserveRecv,
                      ObserveHalfClose, Finish, FileOperationFails, Unlocked,
                      SavePhases, Opened
  <2> QED
    BY <2>1
<1>2. CASE ~RecordStep(g)
  BY <1>2, RecordFrame DEF IdleIsEmpty
<1> QED
  BY <1>1, <1>2

\* The invariant of the refinement, while one session records.
LEMMA RefinementInvariant ==
    ASSUME SingleWriter
    PROVE  Spec => []RefinementInv
<1>1. Init => IdleIsEmpty
  BY DEF Init, IdleIsEmpty, EmptyRecording, NewRecording
<1>2. TypeOK /\ DirectoryInv /\ DenseNumbering /\ IdleIsEmpty => RefinementInv
  BY DEF RefinementInv
<1> QED
  BY <1>1, <1>2, DirectoryInvariant, Numbering, NextIdleIsEmpty, PTL DEF Spec

\* What is published of a stream is its log, once it is saved.
MappedToLogs ==
    /\ ObservedLog = [h \in RecHandles |-> Log(rec[h])]
    /\ PublishedLog = [h \in RecHandles |->
            IF phase[h] = "saved" THEN Log(rec[h]) ELSE << >>]

\* A saved recording loads as what it was, so its two files give its log.
LEMMA PublishedIsLog == RefinementInv => MappedToLogs
<1> SUFFICES ASSUME RefinementInv PROVE MappedToLogs
  OBVIOUS
<1>1. ObservedLog = [h \in RecHandles |-> Log(rec[h])]
  BY DEF ObservedLog, Log
<1>2. SavedStaysLoadable
  BY DirectoryImplies DEF RefinementInv
<1>3. ASSUME NEW h \in RecHandles, phase[h] = "saved"
      PROVE  LogOf(LoadedPair(fp[h]), LoadedPair(fp[h]).end + 1) = Log(rec[h])
  <2>1. LoadedPair(fp[h]) = RecordedPair(rec[h])
    BY <1>2, <1>3 DEF SavedStaysLoadable
  <2>2. rec[h].finished /\ DenselyNumbered(rec[h]) /\ rec[h] \in Recordings
    BY <1>3 DEF RefinementInv, DirectoryInv, SavingIsValid, DenseNumbering,
                TypeOK
  <2>3. RecordedPair(rec[h]).end + 1 = rec[h].seq
    BY <2>2 DEF RecordedPair, DenselyNumbered, Recordings
  <2> QED
    BY <2>1, <2>3 DEF Log
<1> QED
  BY <1>1, <1>3 DEF MappedToLogs, PublishedLog

\* The same of the next state.
LEMMA PublishedIsLogNext == RefinementInv' => MappedToLogs'
BY PublishedIsLog, PTL

\* An event of a live recording is an event of the conversation.
LEMMA ObserveStep ==
    ASSUME RefinementInv, RefinementInv', NEW h \in RecHandles,
           NEW e \in Events, NEW w,
           rec' = [rec EXCEPT ![h] = w], ~rec[h].finished,
           Log(w) = Append(Log(rec[h]), e),
           e.kind = "half_close" => rec[h].halfClose = {},
           \A g \in RecHandles : phase'[g] = "saved" <=> phase[g] = "saved"
    PROVE  Abstract!Observe(h, e)
<1>1. /\ ObservedLog = [g \in RecHandles |-> Log(rec[g])]
      /\ PublishedLog = [g \in RecHandles |->
            IF phase[g] = "saved" THEN Log(rec[g]) ELSE << >>]
  BY PublishedIsLog DEF MappedToLogs
<1>2. /\ ObservedLog' = [g \in RecHandles |-> Log(rec'[g])]
      /\ PublishedLog' = [g \in RecHandles |->
            IF phase'[g] = "saved" THEN Log(rec'[g]) ELSE << >>]
  BY PublishedIsLogNext DEF MappedToLogs
<1>3. /\ rec \in [RecHandles -> Recordings] /\ rec[h] \in Recordings
      /\ DenselyNumbered(rec[h]) /\ phase[h] # "saved"
  BY DEF RefinementInv, TypeOK, DenseNumbering, DirectoryInv, SavingIsValid
<1>4. /\ "end" \notin Abstract!Kinds(ObservedLog[h])
      /\ e.kind = "half_close" => "half_close" \notin Abstract!Kinds(ObservedLog[h])
  <2>1. /\ DOMAIN Log(rec[h]) = 1 .. rec[h].seq
        /\ \A i \in 1 .. rec[h].seq : Log(rec[h])[i].kind # "end"
        /\ rec[h].halfClose = {} =>
             \A i \in 1 .. rec[h].seq : Log(rec[h])[i].kind # "half_close"
    BY <1>3, LogEvents
  <2>2. ObservedLog[h] = Log(rec[h])
    BY <1>1
  <2> QED
    BY <2>1, <2>2 DEF Abstract!Kinds
<1>5. rec'[h] = w /\ \A g \in RecHandles : g # h => rec'[g] = rec[g]
  BY <1>3
<1>6. ObservedLog' = [ObservedLog EXCEPT ![h] = Append(@, e)]
  <2>0. \A g \in RecHandles : ObservedLog[g] = Log(rec[g])
    BY <1>1
  <2>1. ASSUME NEW g \in RecHandles
        PROVE  Log(rec'[g]) = IF g = h THEN Append(ObservedLog[h], e)
                              ELSE ObservedLog[g]
    <3>1. CASE g = h
      BY <1>5, <2>0, <3>1, Zenon
    <3>2. CASE g # h
      BY <1>5, <2>0, <3>2, Zenon
    <3> QED
      BY <3>1, <3>2
  <2>2. ObservedLog' = [g \in RecHandles |->
            IF g = h THEN Append(ObservedLog[h], e) ELSE ObservedLog[g]]
    BY <1>2, <2>1
  <2>3. ObservedLog = [g \in RecHandles |-> ObservedLog[g]]
    BY <1>1
  <2> QED
    BY <2>2, <2>3, Zenon
<1>7. PublishedLog' = PublishedLog
  BY <1>1, <1>2, <1>3, <1>5
<1> QED
  BY <1>4, <1>6, <1>7 DEF Abstract!Observe

\* A step that changes no log and saves nothing is a step of nothing.
LEMMA SilentStep ==
    ASSUME RefinementInv, RefinementInv',
           \A g \in RecHandles : Log(rec'[g]) = Log(rec[g]),
           \A g \in RecHandles : phase'[g] = "saved" <=> phase[g] = "saved"
    PROVE  UNCHANGED <<ObservedLog, PublishedLog>>
<1>1. /\ ObservedLog = [g \in RecHandles |-> Log(rec[g])]
      /\ PublishedLog = [g \in RecHandles |->
            IF phase[g] = "saved" THEN Log(rec[g]) ELSE << >>]
  BY PublishedIsLog DEF MappedToLogs
<1>2. /\ ObservedLog' = [g \in RecHandles |-> Log(rec'[g])]
      /\ PublishedLog' = [g \in RecHandles |->
            IF phase'[g] = "saved" THEN Log(rec'[g]) ELSE << >>]
  BY PublishedIsLogNext DEF MappedToLogs
<1> QED
  BY <1>1, <1>2

\* WriteRespFile, the last file operation of a save, publishes the log.
LEMMA PublishStep ==
    ASSUME RefinementInv, RefinementInv', NEW h \in RecHandles,
           WriteRespFile(h)
    PROVE  Abstract!Publish(h)
<1> USE DEF Handles
<1>1. /\ ObservedLog = [g \in RecHandles |-> Log(rec[g])]
      /\ PublishedLog = [g \in RecHandles |->
            IF phase[g] = "saved" THEN Log(rec[g]) ELSE << >>]
  BY PublishedIsLog DEF MappedToLogs
<1>2. /\ ObservedLog' = [g \in RecHandles |-> Log(rec'[g])]
      /\ PublishedLog' = [g \in RecHandles |->
            IF phase'[g] = "saved" THEN Log(rec'[g]) ELSE << >>]
  BY PublishedIsLogNext DEF MappedToLogs
<1>3. /\ phase[h] = "writeResp" /\ rec' = rec
      /\ phase' = [phase EXCEPT ![h] = "saved"]
      /\ phase \in [Handles -> RecPhases \cup RepPhases]
  BY DEF WriteRespFile, RefinementInv, TypeOK
<1>4. /\ rec[h].finished /\ rec[h] \in Recordings /\ DenselyNumbered(rec[h])
  BY <1>3 DEF RefinementInv, TypeOK, DenseNumbering, DirectoryInv,
              SavingIsValid, SavePhases
<1>5. "end" \in Abstract!Kinds(ObservedLog[h])
  <2>1. /\ DOMAIN Log(rec[h]) = 1 .. rec[h].seq
        /\ rec[h].seq \in 1 .. rec[h].seq /\ Log(rec[h])[rec[h].seq].kind = "end"
    BY <1>4, LogEvents
  <2>2. ObservedLog[h] = Log(rec[h])
    BY <1>1
  <2> QED
    BY <2>1, <2>2 DEF Abstract!Kinds
<1>6. PublishedLog[h] = << >>
  BY <1>1, <1>3
<1>7. ObservedLog' = ObservedLog
  BY <1>1, <1>2, <1>3
<1>8. PublishedLog' = [PublishedLog EXCEPT ![h] = ObservedLog[h]]
  <2>0. \A g \in RecHandles :
            /\ ObservedLog[g] = Log(rec[g])
            /\ PublishedLog[g] = IF phase[g] = "saved" THEN Log(rec[g]) ELSE << >>
    BY <1>1
  <2>1. ASSUME NEW g \in RecHandles
        PROVE  (IF phase'[g] = "saved" THEN Log(rec'[g]) ELSE << >>)
                = IF g = h THEN ObservedLog[h] ELSE PublishedLog[g]
    <3>1. CASE g = h
      BY <1>3, <2>0, <3>1
    <3>2. CASE g # h
      <4>1. phase'[g] = phase[g]
        BY <1>3, <3>2
      <4> QED
        BY <1>3, <2>0, <3>2, <4>1
    <3> QED
      BY <3>1, <3>2
  <2>2. PublishedLog' = [g \in RecHandles |->
            IF g = h THEN ObservedLog[h] ELSE PublishedLog[g]]
    BY <1>2, <2>1
  <2>3. PublishedLog = [g \in RecHandles |-> PublishedLog[g]]
    BY <1>1
  <2> QED
    BY <2>2, <2>3, Zenon
<1> QED
  BY <1>5, <1>6, <1>7, <1>8 DEF Abstract!Publish

\* Every step of the sessions is a step of the conversation or none.
LEMMA NextRefines ==
    RefinementInv /\ RefinementInv' /\ [Next]_vars =>
        [Abstract!Next]_<<ObservedLog, PublishedLog>>
<1> SUFFICES ASSUME RefinementInv, RefinementInv', [Next]_vars
             PROVE  [Abstract!Next]_<<ObservedLog, PublishedLog>>
  OBVIOUS
<1> USE SessionAssumption DEF Handles
<1>0. /\ rec \in [RecHandles -> Recordings]
      /\ phase \in [Handles -> RecPhases \cup RepPhases]
      /\ \A h \in RecHandles : /\ DenselyNumbered(rec[h])
                               /\ SavingIsValid(h)
                               /\ Scrub[SessionOf[h]] \in [Messages -> Messages]
  BY DEF RefinementInv, TypeOK, DenseNumbering, DirectoryInv
<1>e. /\ \A m \in Messages : /\ [kind |-> "send", value |-> m] \in Events
                             /\ [kind |-> "recv", value |-> m] \in Events
      /\ [kind |-> "half_close", value |-> TRUE] \in Events
      /\ \A err \in BOOLEAN : [kind |-> "end", value |-> err] \in Events
  BY DEF Events, Abstract!Events
<1>o. ASSUME NEW h \in RecHandles, NEW e \in Events, Abstract!Observe(h, e)
      PROVE  Abstract!Next
  BY <1>o DEF Abstract!Next, Events
<1>s. ASSUME rec' = rec,
             \A g \in RecHandles : phase'[g] = "saved" <=> phase[g] = "saved"
      PROVE  UNCHANGED <<ObservedLog, PublishedLog>>
  BY <1>s, SilentStep
<1>1. ASSUME NEW h \in RecHandles, NEW id \in Ids, OpenStreamRecord(h, id)
      PROVE  UNCHANGED <<ObservedLog, PublishedLog>>
  <2>1. /\ rec'[h].seq = 0 /\ rec[h].seq = 0
        /\ \A g \in RecHandles : g # h => rec'[g] = rec[g]
    BY <1>0, <1>1 DEF OpenStreamRecord, NewRecording, RefinementInv,
                      IdleIsEmpty, Opened
  <2>2. \A p : LogOf(p, 0) = << >>
    BY DEF LogOf
  <2>3. Log(rec'[h]) = << >> /\ Log(rec[h]) = << >>
    BY <2>1, <2>2 DEF Log
  <2>4. \A g \in RecHandles : Log(rec'[g]) = Log(rec[g])
    BY <2>1, <2>3
  <2>5. \A g \in RecHandles : phase'[g] = "saved" <=> phase[g] = "saved"
    BY <1>0, <1>1 DEF OpenStreamRecord
  <2> QED
    BY <2>4, <2>5, SilentStep
<1>2. ASSUME NEW h \in RecHandles, NEW m \in Messages, ObserveSend(h, m)
      PROVE  Abstract!Next \/ UNCHANGED <<ObservedLog, PublishedLog>>
  <2> DEFINE scrub == Scrub[SessionOf[h]]
             w == RecordSend(rec[h], scrub, m)
             e == [kind |-> "send", value |-> scrub[m]]
  <2>1. rec' = [rec EXCEPT ![h] = w] /\ phase' = phase
    BY <1>2 DEF ObserveSend
  <2>2. CASE rec[h].finished
    <3>1. rec' = rec
      BY <1>0, <2>1, <2>2 DEF RecordSend
    <3> QED
      BY <1>s, <2>1, <3>1
  <2>3. CASE ~rec[h].finished
    <3>0. /\ scrub[m] \in Messages /\ scrub \in [Messages -> Messages]
          /\ rec[h] \in Recordings /\ DenselyNumbered(rec[h])
      BY <1>0
    <3> HIDE DEF scrub
    <3>1. e \in Events
      BY <1>e, <3>0, Zenon
    <3>k. e.kind # "half_close"
      OBVIOUS
    <3>2. Log(w) = Append(Log(rec[h]), e)
      BY <2>3, <3>0, LogAppends
    <3> HIDE DEF w, e
    <3>3. Abstract!Observe(h, e)
      BY <2>1, <2>3, <3>1, <3>k, <3>2, ObserveStep
    <3> QED
      BY <1>o, <3>1, <3>3
  <2> QED
    BY <2>2, <2>3
<1>3. ASSUME NEW h \in RecHandles, NEW m \in Messages, ObserveRecv(h, m)
      PROVE  Abstract!Next \/ UNCHANGED <<ObservedLog, PublishedLog>>
  <2> DEFINE scrub == Scrub[SessionOf[h]]
             w == RecordRecv(rec[h], scrub, m)
             e == [kind |-> "recv", value |-> scrub[m]]
  <2>1. rec' = [rec EXCEPT ![h] = w] /\ phase' = phase
    BY <1>3 DEF ObserveRecv
  <2>2. CASE rec[h].finished
    <3>1. rec' = rec
      BY <1>0, <2>1, <2>2 DEF RecordRecv
    <3> QED
      BY <1>s, <2>1, <3>1
  <2>3. CASE ~rec[h].finished
    <3>0. /\ scrub[m] \in Messages /\ scrub \in [Messages -> Messages]
          /\ rec[h] \in Recordings /\ DenselyNumbered(rec[h])
      BY <1>0
    <3> HIDE DEF scrub
    <3>1. e \in Events
      BY <1>e, <3>0, Zenon
    <3>k. e.kind # "half_close"
      OBVIOUS
    <3>2. Log(w) = Append(Log(rec[h]), e)
      BY <2>3, <3>0, LogAppends
    <3> HIDE DEF w, e
    <3>3. Abstract!Observe(h, e)
      BY <2>1, <2>3, <3>1, <3>k, <3>2, ObserveStep
    <3> QED
      BY <1>o, <3>1, <3>3
  <2> QED
    BY <2>2, <2>3
<1>4. ASSUME NEW h \in RecHandles, ObserveHalfClose(h)
      PROVE  Abstract!Next \/ UNCHANGED <<ObservedLog, PublishedLog>>
  <2> DEFINE w == RecordHalfClose(rec[h])
             e == [kind |-> "half_close", value |-> TRUE]
  <2>1. rec' = [rec EXCEPT ![h] = w] /\ phase' = phase
    BY <1>4 DEF ObserveHalfClose
  <2>2. CASE rec[h].finished \/ rec[h].halfClose # {}
    <3>1. rec' = rec
      BY <1>0, <2>1, <2>2 DEF RecordHalfClose
    <3> QED
      BY <1>s, <2>1, <3>1
  <2>3. CASE ~rec[h].finished /\ rec[h].halfClose = {}
    <3>1. e \in Events
      BY <1>e
    <3>2. Log(w) = Append(Log(rec[h]), e)
      BY <1>0, <2>3, LogAppends
    <3> HIDE DEF w, e
    <3>3. Abstract!Observe(h, e)
      BY <2>1, <2>3, <3>1, <3>2, ObserveStep
    <3> QED
      BY <1>o, <3>1, <3>3
  <2> QED
    BY <2>2, <2>3
<1>5. ASSUME NEW h \in RecHandles, NEW err \in BOOLEAN, Finish(h, err)
      PROVE  Abstract!Next
  <2> DEFINE w == FinishRecording(rec[h], err)
             e == [kind |-> "end", value |-> err]
  <2>1. rec' = [rec EXCEPT ![h] = w] /\ ~rec[h].finished
    BY <1>5 DEF Finish
  <2>2. \A g \in RecHandles : phase'[g] = "saved" <=> phase[g] = "saved"
    BY <1>0, <1>5, <2>1 DEF Finish, SavingIsValid
  <2>3. e \in Events /\ e.kind # "half_close"
    BY <1>e
  <2>4. Log(w) = Append(Log(rec[h]), e)
    BY <1>0, <2>1, LogAppends
  <2> HIDE DEF w, e
  <2>5. Abstract!Observe(h, e)
    BY <2>1, <2>2, <2>3, <2>4, ObserveStep
  <2> QED
    BY <1>o, <2>3, <2>5
<1>6. ASSUME NEW h \in RecHandles, WriteRespFile(h)
      PROVE  Abstract!Next
  BY <1>6, PublishStep DEF Abstract!Next
<1>7. ASSUME NEW h \in RecHandles,
             OpenReqFile(h) \/ WriteReqFile(h) \/ OpenRespFile(h)
                \/ FileOperationFails(h)
      PROVE  UNCHANGED <<ObservedLog, PublishedLog>>
  <2>1. /\ rec' = rec
        /\ \A g \in RecHandles : phase'[g] = "saved" <=> phase[g] = "saved"
    BY <1>0, <1>7 DEF OpenReqFile, WriteReqFile, OpenRespFile,
                      FileOperationFails, SavePhases
  <2> QED
    BY <1>s, <2>1
<1>8. ASSUME NEW h \in RepHandles, ReplayStep(h)
      PROVE  UNCHANGED <<ObservedLog, PublishedLog>>
  <2>1. \A g \in RecHandles : g # h
    OBVIOUS
  <2>2. rec' = rec /\ \A g \in RecHandles : phase'[g] = phase[g]
    BY <1>0, <1>8, <2>1 DEF ReplayStep, OpenStreamReplay, ReadReq, ReadResp,
                            ReplaySend, ReplayHalfClose, ReplayRecv
  <2> QED
    BY <1>s, <2>2
<1>9. ASSUME NEW s \in Sessions, Crash(s)
      PROVE  UNCHANGED <<ObservedLog, PublishedLog>>
  <2>1. /\ rec' = rec
        /\ \A g \in RecHandles : phase'[g] = "saved" <=> phase[g] = "saved"
    BY <1>0, <1>9 DEF Crash, SavePhases
  <2> QED
    BY <1>s, <2>1
<1>10. CASE UNCHANGED vars
  BY <1>10, <1>s DEF vars
<1> QED
  BY <1>1, <1>2, <1>3, <1>4, <1>5, <1>6, <1>7, <1>8, <1>9, <1>10
     DEF Next, RecordStep, SaveStep

\* Recording implements the abstract conversation: whatever the sessions,
\* handles, messages and hooks, and whatever crashes or fails, the numbers
\* StreamRecording gave out and SaveStream split over two files determine
\* the order in which the stream was observed, and only a whole log is ever
\* published.
THEOREM Refinement ==
    ASSUME SingleWriter
    PROVE  Spec => ImplementsConversation
<1>1. Init => Abstract!Init
  <2> SUFFICES ASSUME Init PROVE Abstract!Init
    OBVIOUS
  <2>1. \A p : LogOf(p, 0) = << >>
    BY DEF LogOf
  <2>2. \A h \in RecHandles : rec[h].seq = 0 /\ phase[h] = "idle"
    BY DEF Init, EmptyRecording, NewRecording, Handles
  <2> QED
    BY <2>1, <2>2 DEF Abstract!Init, ObservedLog, PublishedLog
<1> QED
  BY <1>1, NextRefines, RefinementInvariant, PTL
     DEF Spec, ImplementsConversation, Abstract!Spec
=============================================================================
