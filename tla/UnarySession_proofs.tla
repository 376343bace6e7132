------------------------ MODULE UnarySession_proofs ------------------------
(***************************************************************************)
(* Proofs about UnarySession for any number of concurrent calls, any       *)
(* fingerprint function and any redactor.                                  *)
(*                                                                         *)
(* Two facts are kept by every step: while nobody else saves under its     *)
(* fingerprint, a save has the two files in step with its phase, and the   *)
(* last one to return has left the files of its outcome (SavesInv); and a  *)
(* readable resp file, like the result of a replay, holds the outcome of   *)
(* one recording, or the beginning of one that was stopped (OutcomeInv).   *)
(***************************************************************************)
EXTENDS UnarySession, TLAPS

Phases == SavePhases \cup {"readReq", "readResp", "returned", "crashed"}

\* What Record may return besides the outcome of do().
Replayed == [payload : Payloads \cup {Beginning(p) : p \in Payloads},
             failed : BOOLEAN, text : Texts \cup {""}]

Failures == {Failure(why) : why \in {"fingerprint", "save", "miss", "shape", "malformed"}}

Results == Outcomes \cup Replayed \cup Failures \cup {None, Garbled}

\* A call that has begun.
Begun == [at : Phases, mode : {"record", "replay", "passthrough"},
          req : DOMAIN FingerprintOf, fp : Fingerprints \cup {NoFingerprint},
          do : Outcomes \cup {None}, result : Results]

RespFiles == {Streamed, Truncated, Garbled} \cup
    [shape : {"unary", "cut"}, error : Texts \cup {""}, payload : Payloads]

TypeOK ==
    /\ call \in [Made -> {Idle(q) : q \in DOMAIN FingerprintOf} \cup Begun]
    /\ latest = [f \in Fingerprints |-> latest[f]]
    /\ overlapped \subseteq Fingerprints
    /\ DOMAIN respFiles \subseteq Fingerprints
    /\ \A f \in DOMAIN respFiles : respFiles[f] \in RespFiles

Recording(c) == call[c].at # "idle" /\ call[c].mode = "record"

\* A call that touches the directory does so under a fingerprint, and a
\* recording has an outcome, which is what it returns if not an error.
CallsFiled ==
    \A c \in Made :
        /\ call[c].at \in SavePhases =>
              /\ call[c].mode = "record" /\ call[c].fp \in Fingerprints
              /\ call[c].result = None
        /\ call[c].at \in {"readReq", "readResp"} =>
              call[c].mode = "replay" /\ call[c].fp \in Fingerprints
        /\ Recording(c) => call[c].do \in Outcomes
        /\ Recording(c) /\ "failed" \in DOMAIN call[c].result =>
              call[c].fp \in Fingerprints /\ call[c].result = call[c].do

\* The files under f are in step with the phase of c, which saves them.
InStep(c, f) ==
    /\ call[c].at = "writeReq" => ReadStreamFile(reqFiles, f) = Truncated
    /\ call[c].at \in {"openResp", "writeResp"} =>
          ReadStreamFile(reqFiles, f) = ReqEnvelope
    /\ call[c].at = "writeResp" => ReadStreamFile(respFiles, f) = Truncated

\* The two files of an outcome.
Files(f, o) ==
    /\ ReadStreamFile(reqFiles, f) = ReqEnvelope
    /\ ReadStreamFile(respFiles, f) = RespEnvelope(o)

\* Call c, the last one to begin a save under f, has returned its outcome.
Done(c, f) ==
    /\ call[c].at = "returned" /\ call[c].mode = "record" /\ call[c].fp = f
    /\ "failed" \in DOMAIN call[c].result
    /\ latest[f] = {c}

\* A fingerprint no two saves have met on has at most one saver, the latest,
\* with which the files are in step, or the files of the latest outcome.
Orderly(f) ==
    f \notin overlapped =>
        /\ \A c \in Saving(f) : /\ Saving(f) = {c} /\ latest[f] = {c}
                                /\ InStep(c, f)
        /\ \A c \in Made : Done(c, f) => Files(f, call[c].do)

SavesInv == \A f \in Fingerprints : Orderly(f)

\* Call w is a recording under fingerprint f, and the file is its envelope,
\* or a beginning of it if it was stopped.
Wrote(w, f, file) ==
    /\ Recording(w) /\ call[w].fp = f
    /\ \/ file = RespEnvelope(call[w].do)
       \/ Stopped(w) /\ file = CutShort(RespEnvelope(call[w].do))

\* A resp file holds what a recording under its fingerprint returned, unless
\* it is of no use to a replay.
FileWritten(f) ==
    \/ respFiles[f] \in {Streamed, Truncated}
    \/ respFiles[f] = Garbled /\ f \in overlapped
    \/ \E w \in Made : Wrote(w, f, respFiles[f])

\* What a replay has returned is the outcome of such a recording.
ResultWritten(c) ==
    /\ ReplayedResponse(c) =>
          \E w \in Made : \E file :
              /\ Wrote(w, call[c].fp, file)
              /\ call[c].result = ReplayedOutcome(file)
    /\ call[c].at = "returned" /\ call[c].result = Garbled =>
          call[c].fp \in overlapped

OutcomeInv ==
    /\ \A f \in DOMAIN respFiles : FileWritten(f)
    /\ \A c \in Made : ResultWritten(c)

-----------------------------------------------------------------------------
(***************************************************************************)
(* The files, and what is read from them.                                  *)
(***************************************************************************)

\* An outcome is no missing value, and its envelope is a readable resp file.
LEMMA OutcomeFacts ==
    ASSUME NEW o \in Outcomes
    PROVE  /\ o # None
           /\ o.text \in Texts \cup {""}
           /\ "failed" \in DOMAIN o /\ "payload" \notin DOMAIN o
           /\ RespEnvelope(o) \in RespFiles
           /\ CutShort(RespEnvelope(o)) \in RespFiles
           /\ RespEnvelope(o) \notin {Absent, Streamed, Truncated, Garbled}
<1>1. o # None /\ "failed" \in DOMAIN o /\ "payload" \notin DOMAIN o
  <2>1. DOMAIN o = {"resp", "failed", "text"}
    <3>1. CASE o \in [resp : Responses \cup {Nil}, failed : {FALSE}, text : {""}]
      BY <3>1
    <3>2. CASE o \in [resp : Responses \cup {Nil}, failed : {TRUE}, text : Texts]
      BY <3>2
    <3> QED
      BY <3>1, <3>2 DEF Outcomes
  <2>2. DOMAIN None = {"kind"}
    BY DEF None
  <2> QED
    BY <2>1, <2>2
<1>2. o.text \in Texts \cup {""} /\ o.resp \in Responses \cup {Nil}
  BY DEF Outcomes
<1>3. NormalizePayload(o.resp) \in Payloads
  BY <1>2, UnaryAssumption DEF NormalizePayload
<1>4. Redact[NormalizePayload(o.resp)] \in Payloads
  BY <1>3, UnaryAssumption
<1>5. RespEnvelope(o) \in RespFiles /\ CutShort(RespEnvelope(o)) \in RespFiles
  BY <1>2, <1>4 DEF RespEnvelope, RespFiles, CutShort
<1>6. RespEnvelope(o) \notin {Absent, Streamed, Truncated, Garbled}
  BY DEF RespEnvelope, Absent, Streamed, Truncated, Garbled
<1> QED
  BY <1>1, <1>2, <1>5, <1>6

\* Writing the file of one fingerprint leaves the others.
LEMMA OtherFile ==
    ASSUME NEW dir, NEW f, NEW content, NEW g, g # f
    PROVE  ReadStreamFile(WriteFile(dir, f, content), g) = ReadStreamFile(dir, g)
BY DEF WriteFile, ReadStreamFile

\* The file that was written is read.
LEMMA SameFile ==
    ASSUME NEW dir, NEW f, NEW content
    PROVE  ReadStreamFile(WriteFile(dir, f, content), f) = content
BY DEF WriteFile, ReadStreamFile

\* A response is a result.
LEMMA ReplayedType ==
    ASSUME NEW payload \in Payloads \cup {Beginning(p) : p \in Payloads},
           NEW b \in BOOLEAN, NEW x \in Texts \cup {""}
    PROVE  [payload |-> payload, failed |-> b, text |-> x] \in Replayed
<1>1. PICK all : all = Payloads \cup {Beginning(p) : p \in Payloads}
  OBVIOUS
<1>2. [payload |-> payload, failed |-> b, text |-> x]
          \in [payload : all, failed : BOOLEAN, text : Texts \cup {""}]
  BY <1>1
<1> QED
  BY <1>1, <1>2, Zenon DEF Replayed

\* A replayed resp file gives a result, and its payload only if it is whole.
LEMMA ReplayedFacts ==
    ASSUME NEW file \in RespFiles \cup {Absent}, NEW v \in ReadVerdicts(file)
    PROVE  /\ v \in {"miss", "shape", "malformed", "ok"}
           /\ v = "ok" => /\ file \notin {Absent, Streamed, Truncated}
                          /\ ReplayedOutcome(file) \in Replayed \cup {Garbled}
           /\ v # "ok" => Failure(v) \in Failures
<1>1. v \in {"miss", "shape", "malformed", "ok"}
  BY DEF ReadVerdicts
<1>2. ASSUME v = "ok" PROVE file \notin {Absent, Streamed, Truncated}
  BY <1>2 DEF ReadVerdicts, Absent, Streamed, Truncated
<1>3. ASSUME v = "ok" PROVE ReplayedOutcome(file) \in Replayed \cup {Garbled}
  <2>1. CASE file = Garbled
    BY <2>1 DEF ReplayedOutcome
  <2>2. CASE file # Garbled
    <3>1. file.payload \in Payloads /\ file.error \in Texts \cup {""}
      BY <1>2, <1>3, <2>2 DEF RespFiles
    <3>2. PICK payload \in Payloads \cup {Beginning(p) : p \in Payloads} :
              payload = IF file.shape = "cut" THEN Beginning(file.payload)
                        ELSE file.payload
      BY <3>1
    <3>3. PICK b \in BOOLEAN : b = (file.error # "")
      OBVIOUS
    <3>4. ReplayedOutcome(file) = [payload |-> payload, failed |-> b, text |-> file.error]
      BY <2>2, <3>2, <3>3, Zenon DEF ReplayedOutcome
    <3> QED
      BY <3>1, <3>4, ReplayedType
  <2> QED
    BY <2>1, <2>2
<1>4. ASSUME v # "ok" PROVE Failure(v) \in Failures
  BY <1>1, <1>4 DEF Failures
<1> QED
  BY <1>1, <1>2, <1>3, <1>4
-----------------------------------------------------------------------------
(***************************************************************************)
(* Types.                                                                  *)
(***************************************************************************)
TypeInv == TypeOK /\ CallsFiled

\* The types hold at the start.
LEMMA TypeInit == Init => TypeInv
<1> SUFFICES ASSUME Init PROVE TypeInv
  OBVIOUS
<1>1. PICK plan \in Scenarios :
          /\ call = [c \in DOMAIN plan |-> Idle(plan[c])]
          /\ \E old \in SUBSET ({FingerprintOf[q] : q \in Range(plan)} \ {NoFingerprint}) :
                reqFiles = [f \in old |-> Streamed] /\ respFiles = reqFiles
  BY DEF Init
<1>2. PICK old \in SUBSET ({FingerprintOf[q] : q \in Range(plan)} \ {NoFingerprint}) :
          respFiles = [f \in old |-> Streamed]
  BY <1>1
<1>3. Range(plan) \subseteq DOMAIN FingerprintOf
  BY UnaryAssumption
<1>4. \A c \in DOMAIN plan : plan[c] \in DOMAIN FingerprintOf
  BY <1>3 DEF Range
<1>5. old \subseteq Fingerprints
  BY <1>3 DEF Fingerprints
<1>6. call \in [Made -> {Idle(q) : q \in DOMAIN FingerprintOf} \cup Begun]
  BY <1>1, <1>4 DEF Made
<1>7. TypeOK
  BY <1>2, <1>5, <1>6 DEF TypeOK, Init, RespFiles
<1>8. \A c \in Made : call[c].at = "idle"
  BY <1>1 DEF Made, Idle
<1> QED
  BY <1>7, <1>8 DEF TypeInv, CallsFiled, SavePhases, Recording

\* A call enters Record in one of the modes.
LEMMA EnterType ==
    ASSUME TypeInv, NEW c \in Made, NEW entry \in Begun,
           call[c].at = "idle", call' = [call EXCEPT ![c] = entry],
           entry.at \notin SavePhases
              \/ (entry.mode = "record" /\ entry.fp \in Fingerprints /\ entry.result = None),
           entry.at \notin {"readReq", "readResp"} \/ (entry.mode = "replay" /\ entry.fp \in Fingerprints),
           entry.mode = "record" => entry.do \in Outcomes,
           entry.mode # "record" \/ "failed" \notin DOMAIN entry.result
    PROVE  /\ call' \in [Made' -> {Idle(q) : q \in DOMAIN FingerprintOf} \cup Begun]
           /\ CallsFiled'
<1>1. Made' = Made /\ \A d \in Made : call'[d] = IF d = c THEN entry ELSE call[d]
  BY DEF Made, TypeInv, TypeOK
<1>2. call' \in [Made' -> {Idle(q) : q \in DOMAIN FingerprintOf} \cup Begun]
  BY <1>1 DEF TypeInv, TypeOK
<1>3. CallsFiled'
  BY <1>1 DEF TypeInv, CallsFiled, Recording
<1> QED
  BY <1>2, <1>3

\* Call c goes on: it has a new phase and maybe a result.
GoesOn(c, next, result) ==
    /\ Made' = Made /\ call' = [d \in Made |-> call'[d]]
    /\ \A d \in Made : d # c => call'[d] = call[d]
    /\ call'[c] \in Begun
    /\ call'[c].at = next /\ call'[c].result = result
    /\ call'[c].mode = call[c].mode /\ call'[c].fp = call[c].fp
    /\ call'[c].req = call[c].req /\ call'[c].do = call[c].do

\* A call that is past idle is typed as one that has begun.
LEMMA PastIdle ==
    ASSUME TypeInv, NEW c \in Made, call[c].at # "idle"
    PROVE  call[c] \in Begun
BY DEF TypeInv, TypeOK, Idle

\* A call goes on to a new phase.
LEMMA GotoGoesOn ==
    ASSUME TypeInv, NEW c \in Made, call[c].at # "idle",
           NEW next \in Phases, Goto(c, next)
    PROVE  GoesOn(c, next, call[c].result)
<1>1. call[c] \in Begun
  BY PastIdle
<1>2. /\ Made' = Made /\ call' = [d \in Made |-> call'[d]]
      /\ \A d \in Made : d # c => call'[d] = call[d]
  BY DEF Goto, Made, TypeInv, TypeOK
<1>3. call'[c] = [call[c] EXCEPT !.at = next]
  BY DEF Goto, Made, TypeInv, TypeOK
<1>4. /\ call'[c] \in Begun
      /\ call'[c].at = next /\ call'[c].result = call[c].result
      /\ call'[c].mode = call[c].mode /\ call'[c].fp = call[c].fp
      /\ call'[c].req = call[c].req /\ call'[c].do = call[c].do
  BY <1>1, <1>3 DEF Begun
<1> QED
  BY <1>2, <1>4 DEF GoesOn

Returns(c, result) ==
    call' = [call EXCEPT ![c].at = "returned", ![c].result = result]

\* A call returns a result.
LEMMA ReturnGoesOn ==
    ASSUME TypeInv, NEW c \in Made, call[c].at # "idle",
           NEW result \in Results, Returns(c, result)
    PROVE  GoesOn(c, "returned", result)
<1>1. call[c] \in Begun
  BY PastIdle
<1>2. /\ Made' = Made /\ call' = [d \in Made |-> call'[d]]
      /\ \A d \in Made : d # c => call'[d] = call[d]
  BY DEF Returns, Made, TypeInv, TypeOK
<1>3. call'[c] = [call[c] EXCEPT !.at = "returned", !.result = result]
  BY DEF Returns, Made, TypeInv, TypeOK
<1>4. /\ call'[c] \in Begun
      /\ call'[c].at = "returned" /\ call'[c].result = result
      /\ call'[c].mode = call[c].mode /\ call'[c].fp = call[c].fp
      /\ call'[c].req = call[c].req /\ call'[c].do = call[c].do
  BY <1>1, <1>3 DEF Begun, Phases
<1> QED
  BY <1>2, <1>4 DEF GoesOn

\* A call that goes on keeps the types.
LEMMA ProceedType ==
    ASSUME TypeInv, NEW c \in Made, call[c].at # "idle",
           NEW next \in Phases, NEW result, GoesOn(c, next, result),
           next \in SavePhases => call[c].at \in SavePhases /\ result = call[c].result,
           next \in {"readReq", "readResp"} => call[c].at = "readReq",
           \/ call[c].mode # "record" \/ "failed" \notin DOMAIN result
           \/ result = call[c].do /\ call[c].fp \in Fingerprints
    PROVE  /\ call' \in [Made' -> {Idle(q) : q \in DOMAIN FingerprintOf} \cup Begun]
           /\ CallsFiled'
<1>1. call' \in [Made' -> {Idle(q) : q \in DOMAIN FingerprintOf} \cup Begun]
  <2>1. \A d \in Made : call'[d] \in {Idle(q) : q \in DOMAIN FingerprintOf} \cup Begun
    BY DEF GoesOn, TypeInv, TypeOK
  <2> QED
    BY <2>1 DEF GoesOn
<1>2. ASSUME NEW d \in Made, d # c
      PROVE  CallsFiled!(d)'
  BY <1>2 DEF GoesOn, TypeInv, CallsFiled, Recording
<1>3. CallsFiled!(c)'
  <2>1. CallsFiled!(c)
    BY DEF TypeInv, CallsFiled
  <2> QED
    BY <2>1 DEF GoesOn, Recording
<1>4. CallsFiled'
  BY <1>2, <1>3 DEF GoesOn, CallsFiled
<1> QED
  BY <1>1, <1>4

\* The type of the directory and of the history under a step that changes
\* no resp file.
Rest == /\ latest = [f \in Fingerprints |-> latest[f]]
        /\ overlapped \subseteq Fingerprints
        /\ DOMAIN respFiles \subseteq Fingerprints
        /\ \A f \in DOMAIN respFiles : respFiles[f] \in RespFiles

Typed == call \in [Made -> {Idle(q) : q \in DOMAIN FingerprintOf} \cup Begun]

\* The type invariant in the parts that the proofs below work on.
LEMMA TypeParts == TypeInv <=> Typed /\ Rest /\ CallsFiled
BY DEF TypeInv, TypeOK, Typed, Rest

\* The same of the next state.
LEMMA TypePartsNext == (Typed /\ Rest /\ CallsFiled)' => TypeInv'
BY TypeParts, PTL

\* The request of a call that has not begun.
LEMMA IdleRequest ==
    ASSUME TypeInv, NEW c \in Made, call[c].at = "idle"
    PROVE  /\ call[c].req \in DOMAIN FingerprintOf
           /\ FingerprintOf[call[c].req] \in Fingerprints \cup {NoFingerprint}
<1>1. call[c].req \in DOMAIN FingerprintOf
  BY DEF TypeInv, TypeOK, Idle, Begun, Phases, SavePhases
<1> QED
  BY <1>1 DEF Fingerprints

\* Record keeps the types.
LEMMA RecordType ==
    ASSUME TypeInv, NEW c \in Made, NEW o \in Outcomes, Record(c, o)
    PROVE  TypeInv'
<1> DEFINE q == call[c].req
           f == FingerprintOf[q]
           lost == [at |-> "returned", mode |-> "record", req |-> q, fp |-> f,
                    do |-> o, result |-> Failure("fingerprint")]
           saving == [at |-> "openReq", mode |-> "record", req |-> q, fp |-> f,
                      do |-> o, result |-> None]
<1>1. q \in DOMAIN FingerprintOf /\ f \in Fingerprints \cup {NoFingerprint}
      /\ call[c].at = "idle"
  BY IdleRequest DEF Record
<1>2. lost \in Begun /\ saving \in Begun
  BY <1>1 DEF Begun, Phases, SavePhases, Results, Failures
<1>3. CASE f = NoFingerprint
  <2>1. call' = [call EXCEPT ![c] = lost] /\ UNCHANGED <<respFiles, latest, overlapped>>
    BY <1>3 DEF Record
  <2>2. Typed' /\ CallsFiled'
    <3> HIDE DEF lost
    <3>1. lost.at = "returned" /\ lost.mode = "record" /\ lost.do = o
          /\ "failed" \notin DOMAIN lost.result
      BY DEF lost, Failure
    <3> QED
      BY <1>1, <1>2, <2>1, <3>1, EnterType DEF SavePhases, Typed
  <2> QED
    BY <2>1, <2>2, TypeParts, TypePartsNext DEF Rest
<1>4. CASE f # NoFingerprint
  <2>1. /\ call' = [call EXCEPT ![c] = saving] /\ respFiles' = respFiles
        /\ latest' = [latest EXCEPT ![f] = {c}]
        /\ overlapped' \in {overlapped, overlapped \cup {f}}
    BY <1>4 DEF Record
  <2>2. Typed' /\ CallsFiled'
    <3> HIDE DEF saving
    <3>1. saving.at = "openReq" /\ saving.mode = "record" /\ saving.do = o
          /\ saving.fp \in Fingerprints /\ saving.result = None
          /\ "failed" \notin DOMAIN saving.result
      BY <1>1, <1>4 DEF saving, None
    <3> QED
      BY <1>1, <1>2, <2>1, <3>1, EnterType DEF SavePhases, Typed
  <2>3. Rest'
    BY <1>1, <1>4, <2>1, TypeParts DEF Rest
  <2> QED
    BY <2>2, <2>3, TypePartsNext
<1> QED
  BY <1>3, <1>4

\* Passthrough keeps the types.
LEMMA PassthroughType ==
    ASSUME TypeInv, NEW c \in Made, NEW o \in Outcomes, Passthrough(c, o)
    PROVE  TypeInv'
<1> DEFINE entry == [at |-> "returned", mode |-> "passthrough", req |-> call[c].req,
                     fp |-> NoFingerprint, do |-> o, result |-> o]
<1>1. call[c].req \in DOMAIN FingerprintOf /\ call[c].at = "idle"
  BY IdleRequest DEF Passthrough
<1>2. entry \in Begun
  BY <1>1 DEF Begun, Phases, Results
<1>3. call' = [call EXCEPT ![c] = entry] /\ UNCHANGED <<respFiles, latest, overlapped>>
  BY DEF Passthrough
<1>4. Typed' /\ CallsFiled'
  <2> HIDE DEF entry
  <2>1. entry.at = "returned" /\ entry.mode = "passthrough"
    BY DEF entry
  <2> QED
    BY <1>1, <1>2, <1>3, <2>1, EnterType DEF SavePhases, Typed
<1> QED
  BY <1>3, <1>4, TypeParts, TypePartsNext DEF Rest

\* Replay keeps the types.
LEMMA ReplayType ==
    ASSUME TypeInv, NEW c \in Made, Replay(c)
    PROVE  TypeInv'
<1> DEFINE f == FingerprintOf[call[c].req]
           entry == [at |-> IF f = NoFingerprint THEN "returned" ELSE "readReq",
                     mode |-> "replay", req |-> call[c].req, fp |-> f, do |-> None,
                     result |-> IF f = NoFingerprint THEN Failure("fingerprint")
                                ELSE None]
<1>1. /\ call[c].req \in DOMAIN FingerprintOf /\ call[c].at = "idle"
      /\ f \in Fingerprints \cup {NoFingerprint}
  BY IdleRequest DEF Replay
<1>2. entry \in Begun
  BY <1>1 DEF Begun, Phases, Results, Failures
<1>3. call' = [call EXCEPT ![c] = entry] /\ UNCHANGED <<respFiles, latest, overlapped>>
  BY DEF Replay
<1>4. Typed' /\ CallsFiled'
  <2> HIDE DEF entry
  <2>1. /\ entry.at \in {"returned", "readReq"} /\ entry.mode = "replay"
        /\ entry.at = "readReq" => entry.fp \in Fingerprints
    BY <1>1 DEF entry
  <2> QED
    BY <1>1, <1>2, <1>3, <2>1, EnterType DEF SavePhases, Typed
<1> QED
  BY <1>3, <1>4, TypeParts, TypePartsNext DEF Rest
\* A call that is saving has an outcome.
LEMMA SaverFacts ==
    ASSUME TypeInv, NEW c \in Made, call[c].at \in SavePhases
    PROVE  /\ call[c].at # "idle" /\ Recording(c) /\ call[c].result = None
           /\ call[c].fp \in Fingerprints /\ call[c].do \in Outcomes
BY DEF TypeInv, CallsFiled, SavePhases, Recording

\* Where the steps of Save take a call.
LEMMA SaveGoesOn ==
    ASSUME TypeInv, NEW c \in Made
    PROVE  /\ OpenReqFile(c) => GoesOn(c, "writeReq", call[c].result)
           /\ WriteReqFile(c) => GoesOn(c, "openResp", call[c].result)
           /\ OpenRespFile(c) => GoesOn(c, "writeResp", call[c].result)
           /\ WriteRespFile(c) => GoesOn(c, "returned", call[c].do)
           /\ SaveFails(c) => GoesOn(c, "returned", Failure("save"))
           /\ Crash(c) => GoesOn(c, "crashed", call[c].result)
<1>1. OpenReqFile(c) => GoesOn(c, "writeReq", call[c].result)
  BY GotoGoesOn DEF OpenReqFile, Phases, SavePhases
<1>2. WriteReqFile(c) => GoesOn(c, "openResp", call[c].result)
  BY GotoGoesOn DEF WriteReqFile, Phases, SavePhases
<1>3. OpenRespFile(c) => GoesOn(c, "writeResp", call[c].result)
  BY GotoGoesOn DEF OpenRespFile, Phases, SavePhases
<1>4. ASSUME WriteRespFile(c) PROVE GoesOn(c, "returned", call[c].do)
  <2>1. call[c].at = "writeResp" /\ Returns(c, call[c].do)
    BY <1>4 DEF WriteRespFile, Returns
  <2>2. call[c].do \in Results
    BY <2>1, SaverFacts DEF SavePhases, Results
  <2> QED
    BY <2>1, <2>2, ReturnGoesOn
<1>5. ASSUME SaveFails(c) PROVE GoesOn(c, "returned", Failure("save"))
  <2>1. call[c].at # "idle" /\ Returns(c, Failure("save"))
    BY <1>5 DEF SaveFails, StopsIn, Returns, SavePhases
  <2>2. Failure("save") \in Results
    BY DEF Results, Failures
  <2> QED
    BY <2>1, <2>2, ReturnGoesOn
<1>6. Crash(c) => GoesOn(c, "crashed", call[c].result)
  BY GotoGoesOn DEF Crash, StopsIn, Phases, SavePhases
<1> QED
  BY <1>1, <1>2, <1>3, <1>4, <1>5, <1>6

\* What ReadStreamFile finds among the resp files.
LEMMA RespFileType ==
    ASSUME TypeInv, NEW f
    PROVE  ReadStreamFile(respFiles, f) \in RespFiles \cup {Absent}
BY DEF TypeInv, TypeOK, ReadStreamFile

\* Where the reads of a replay take a call.
LEMMA ReadGoesOn ==
    ASSUME TypeInv, NEW c \in Made
    PROVE  /\ ReadReq(c) =>
                \/ GoesOn(c, "readResp", call[c].result)
                \/ \E failure \in Failures : GoesOn(c, "returned", failure)
           /\ ReadResp(c) =>
                LET file == ReadStreamFile(respFiles, call[c].fp) IN
                \/ \E failure \in Failures : GoesOn(c, "returned", failure)
                \/ /\ file \notin {Absent, Streamed, Truncated}
                   /\ ReplayedOutcome(file) \in Results
                   /\ GoesOn(c, "returned", ReplayedOutcome(file))
<1>1. ASSUME ReadReq(c)
      PROVE  \/ GoesOn(c, "readResp", call[c].result)
             \/ \E failure \in Failures : GoesOn(c, "returned", failure)
  <2>1. PICK v \in ReadVerdicts(ReadStreamFile(reqFiles, call[c].fp)) :
            call' = IF v = "ok" THEN [call EXCEPT ![c].at = "readResp"]
                    ELSE [call EXCEPT ![c].at = "returned",
                                      ![c].result = Failure(v)]
    BY <1>1 DEF ReadReq
  <2>2. call[c].at # "idle"
    BY <1>1 DEF ReadReq
  <2>3. CASE v = "ok"
    <3>1. Goto(c, "readResp")
      BY <2>1, <2>3 DEF Goto
    <3> QED
      BY <2>2, <3>1, GotoGoesOn DEF Phases
  <2>4. CASE v # "ok"
    <3>1. v \in {"miss", "shape", "malformed"}
      BY <2>4 DEF ReadVerdicts
    <3>2. Failure(v) \in Failures
      BY <3>1 DEF Failures
    <3>3. Returns(c, Failure(v))
      BY <2>1, <2>4 DEF Returns
    <3> QED
      BY <2>2, <3>2, <3>3, ReturnGoesOn DEF Results
  <2> QED
    BY <2>3, <2>4
<1>2. ASSUME ReadResp(c)
      PROVE  LET file == ReadStreamFile(respFiles, call[c].fp) IN
             \/ \E failure \in Failures : GoesOn(c, "returned", failure)
             \/ /\ file \notin {Absent, Streamed, Truncated}
                /\ ReplayedOutcome(file) \in Results
                /\ GoesOn(c, "returned", ReplayedOutcome(file))
  <2> DEFINE file == ReadStreamFile(respFiles, call[c].fp)
  <2>1. PICK v \in ReadVerdicts(file) :
            Returns(c, IF v = "ok" THEN ReplayedOutcome(file) ELSE Failure(v))
    BY <1>2 DEF ReadResp, Returns
  <2>2. call[c].at # "idle"
    BY <1>2 DEF ReadResp
  <2>3. file \in RespFiles \cup {Absent}
    BY RespFileType
  <2> HIDE DEF file
  <2>4. CASE v = "ok"
    <3>1. /\ file \notin {Absent, Streamed, Truncated}
          /\ ReplayedOutcome(file) \in Results
      BY <2>3, <2>4, ReplayedFacts DEF Results
    <3> QED
      BY <2>1, <2>2, <2>4, <3>1, ReturnGoesOn DEF file
  <2>5. CASE v # "ok"
    <3>1. Failure(v) \in Failures
      BY <2>3, <2>5, ReplayedFacts
    <3> QED
      BY <2>1, <2>2, <2>5, <3>1, ReturnGoesOn DEF Results
  <2> QED
    BY <2>4, <2>5
<1> QED
  BY <1>1, <1>2

\* What a write of the resp file of c may have left in it.
Leftovers(c) == {RespEnvelope(call[c].do), CutShort(RespEnvelope(call[c].do)), Garbled}

\* Call c has written its resp file; two texts have mixed only if somebody
\* else had written to it.
RespWritten(c) ==
    /\ call[c].at = "writeResp" /\ UNCHANGED <<latest, overlapped>>
    /\ \E content \in Leftovers(c) :
          /\ respFiles' = WriteFile(respFiles, call[c].fp, content)
          /\ content = Garbled =>
                ReadStreamFile(respFiles, call[c].fp) # Truncated

\* What a write leaves.
LEMMA AfterWriteFacts ==
    ASSUME NEW dir, NEW f, NEW content, NEW after \in AfterWrite(dir, f, content)
    PROVE  \/ after = WriteFile(dir, f, content)
           \/ after = WriteFile(dir, f, Garbled) /\ ReadStreamFile(dir, f) # Truncated
BY DEF AfterWrite

\* A whole envelope, and a beginning of one, is not what two saves left.
LEMMA NotGarbled ==
    ASSUME NEW o
    PROVE  RespEnvelope(o) # Garbled /\ CutShort(RespEnvelope(o)) # Garbled
BY DEF RespEnvelope, CutShort, Garbled

\* The last write of a save that goes well.
LEMMA LastWrite ==
    ASSUME NEW c \in Made, WriteRespFile(c)
    PROVE  RespWritten(c)
<1>1. /\ call[c].at = "writeResp" /\ UNCHANGED <<latest, overlapped>>
      /\ respFiles' \in AfterWrite(respFiles, call[c].fp, RespEnvelope(call[c].do))
  BY DEF WriteRespFile
<1> QED
  BY <1>1, AfterWriteFacts, NotGarbled DEF RespWritten, Leftovers

\* A save that stops.
LEMMA StopFiles ==
    ASSUME NEW c \in Made, SaveFails(c) \/ Crash(c)
    PROVE  /\ call[c].at \in SavePhases
           /\ \/ UNCHANGED <<respFiles, latest, overlapped>>
              \/ RespWritten(c)
           /\ \A f : f # call[c].fp =>
                 /\ ReadStreamFile(reqFiles', f) = ReadStreamFile(reqFiles, f)
                 /\ ReadStreamFile(respFiles', f) = ReadStreamFile(respFiles, f)
<1>1. StopsIn(c)
  BY DEF SaveFails, Crash
<1>2. call[c].at \in SavePhases /\ UNCHANGED <<latest, overlapped>>
  BY <1>1 DEF StopsIn
<1>3. reqFiles' = reqFiles \/ \E content : reqFiles' = WriteFile(reqFiles, call[c].fp, content)
  <2>1. \/ reqFiles' = reqFiles
        \/ \E part : reqFiles' \in AfterWrite(reqFiles, call[c].fp, part)
    BY <1>1 DEF StopsIn
  <2> QED
    BY <2>1, AfterWriteFacts
<1>4. respFiles' = respFiles \/ RespWritten(c)
  <2>1. PICK envelope : envelope = RespEnvelope(call[c].do)
    OBVIOUS
  <2>2. \/ respFiles' = respFiles
        \/ /\ call[c].at = "writeResp"
           /\ \E part \in {envelope, CutShort(envelope)} :
                 respFiles' \in AfterWrite(respFiles, call[c].fp, part)
    BY <1>1, <2>1 DEF StopsIn
  <2> QED
    BY <1>2, <2>1, <2>2, AfterWriteFacts, NotGarbled DEF RespWritten, Leftovers
<1>5. respFiles' = respFiles \/ \E content : respFiles' = WriteFile(respFiles, call[c].fp, content)
  BY <1>4 DEF RespWritten
<1>6. ASSUME NEW f, f # call[c].fp
      PROVE  /\ ReadStreamFile(reqFiles', f) = ReadStreamFile(reqFiles, f)
             /\ ReadStreamFile(respFiles', f) = ReadStreamFile(respFiles, f)
  BY <1>3, <1>5, <1>6, OtherFile
<1> QED
  BY <1>2, <1>4, <1>6

\* A step of Save leaves a resp file of the types.
LEMMA SaveRest ==
    ASSUME TypeInv, NEW c \in Made, SaveStep(c)
    PROVE  Rest'
<1> USE TypeParts
<1>1. CASE OpenRespFile(c)
  <2>1. call[c].fp \in Fingerprints
    BY <1>1, SaverFacts DEF OpenRespFile, SavePhases
  <2>2. respFiles' = WriteFile(respFiles, call[c].fp, Truncated)
        /\ UNCHANGED <<latest, overlapped>>
    BY <1>1 DEF OpenRespFile
  <2> QED
    BY <2>1, <2>2 DEF Rest, WriteFile, RespFiles
<1>2. CASE call[c].at \in SavePhases /\ RespWritten(c)
  <2>1. call[c].fp \in Fingerprints /\ call[c].do \in Outcomes
    BY <1>2, SaverFacts
  <2>2. PICK content \in Leftovers(c) :
            respFiles' = WriteFile(respFiles, call[c].fp, content)
    BY <1>2 DEF RespWritten
  <2>3. content \in RespFiles
    <3>1. Garbled \in RespFiles
      BY DEF RespFiles
    <3> QED
      BY <2>1, <2>2, <3>1, OutcomeFacts DEF Leftovers
  <2>4. /\ DOMAIN respFiles' = DOMAIN respFiles \cup {call[c].fp}
        /\ respFiles'[call[c].fp] = content
        /\ \A g \in DOMAIN respFiles : g # call[c].fp => respFiles'[g] = respFiles[g]
    BY <2>2 DEF WriteFile
  <2> QED
    BY <1>2, <2>1, <2>3, <2>4 DEF Rest, RespWritten
<1>3. CASE UNCHANGED <<respFiles, latest, overlapped>>
  BY <1>3 DEF Rest
<1>4. CASE WriteRespFile(c)
  BY <1>2, <1>4, LastWrite DEF WriteRespFile, SavePhases
<1>5. CASE SaveFails(c) \/ Crash(c)
  BY <1>2, <1>3, <1>5, StopFiles
<1>6. CASE OpenReqFile(c) \/ WriteReqFile(c)
  BY <1>3, <1>6 DEF OpenReqFile, WriteReqFile
<1> QED
  BY <1>1, <1>4, <1>5, <1>6 DEF SaveStep

\* A step of Save keeps the types.
LEMMA SaveType ==
    ASSUME TypeInv, NEW c \in Made, SaveStep(c)
    PROVE  TypeInv'
<1>1. call[c].at \in SavePhases /\ call[c].at # "idle"
  BY DEF SaveStep, OpenReqFile, WriteReqFile, OpenRespFile, WriteRespFile,
         SaveFails, Crash, StopsIn, SavePhases
<1>2. /\ "failed" \notin DOMAIN Failure("save") /\ "failed" \notin DOMAIN None
      /\ call[c].result = None /\ call[c].fp \in Fingerprints
  BY <1>1, SaverFacts DEF Failure, None
<1>3. PICK next, result :
          /\ next \in Phases /\ GoesOn(c, next, result) /\ next \notin {"readReq", "readResp"}
          /\ next \in SavePhases => result = call[c].result
          /\ result \in {call[c].do, None, Failure("save")}
  BY <1>2, SaveGoesOn DEF SaveStep, Phases, SavePhases
<1>4. Typed' /\ CallsFiled'
  BY <1>1, <1>2, <1>3, ProceedType DEF Typed
<1> QED
  BY <1>4, SaveRest, TypePartsNext

\* A read keeps the types.
LEMMA ReadType ==
    ASSUME TypeInv, NEW c \in Made, ReadReq(c) \/ ReadResp(c)
    PROVE  TypeInv'
<1>1. /\ call[c].at \in {"readReq", "readResp"}
      /\ ReadResp(c) => call[c].at = "readResp"
      /\ ReadReq(c) => call[c].at = "readReq"
      /\ UNCHANGED <<respFiles, latest, overlapped>>
  BY DEF ReadReq, ReadResp
<1>2. \E next \in {"readResp", "returned"} : \E result :
          /\ GoesOn(c, next, result)
          /\ next = "readResp" => call[c].at = "readReq"
  BY <1>1, ReadGoesOn
<1>3. PICK next, result :
          /\ next \in {"readResp", "returned"}
          /\ GoesOn(c, next, result)
          /\ next = "readResp" => call[c].at = "readReq"
  BY <1>2
<1>4. call[c].mode # "record"
  BY <1>1 DEF TypeInv, CallsFiled
<1>5. Typed' /\ CallsFiled'
  BY <1>1, <1>3, <1>4, ProceedType DEF Typed, Phases, SavePhases
<1> QED
  BY <1>1, <1>5, TypeParts, TypePartsNext DEF Rest

\* Every step keeps the types.
LEMMA TypeStep == TypeInv /\ [Next]_vars => TypeInv'
<1> SUFFICES ASSUME TypeInv, [Next]_vars PROVE TypeInv'
  OBVIOUS
<1>1. CASE Next
  BY <1>1, RecordType, PassthroughType, ReplayType, SaveType, ReadType DEF Next
<1>2. CASE UNCHANGED vars
  BY <1>2 DEF vars, TypeInv, TypeOK, CallsFiled, Made, Recording
<1> QED
  BY <1>1, <1>2
-----------------------------------------------------------------------------
(***************************************************************************)
(* ReturnedIsReplayable.                                                   *)
(***************************************************************************)

\* A file with a unary envelope is accepted.
LEMMA UnaryVerdict ==
    ASSUME NEW file, file.shape = "unary"
    PROVE  ReadVerdicts(file) = {"ok"} /\ file \notin {Absent, Truncated, Garbled}
<1>1. file # Absent /\ file # Truncated /\ file # Garbled
  BY DEF Absent, Truncated, Garbled
<1>2. file.shape # "stream" /\ file.shape \notin {"garbled", "cut"}
  OBVIOUS
<1> QED
  BY <1>1, <1>2, Zenon DEF ReadVerdicts

\* The files of an outcome are accepted and hold its envelope.
LEMMA FilesAccepted ==
    ASSUME NEW f, NEW o, Files(f, o)
    PROVE  /\ ReadVerdicts(ReadStreamFile(reqFiles, f)) = {"ok"}
           /\ ReadVerdicts(ReadStreamFile(respFiles, f)) = {"ok"}
           /\ respFiles[f] = RespEnvelope(o) /\ RespEnvelope(o) # Garbled
<1>1. ReadStreamFile(reqFiles, f).shape = "unary"
  BY DEF Files, ReqEnvelope
<1>2. ReadStreamFile(respFiles, f).shape = "unary" /\ RespEnvelope(o).shape = "unary"
  BY DEF Files, RespEnvelope
<1>3. respFiles[f] = RespEnvelope(o)
  BY <1>2, UnaryVerdict DEF Files, ReadStreamFile
<1> QED
  BY <1>1, <1>2, <1>3, UnaryVerdict

\* A replay of the envelope of an outcome re-emits its error if it has a text.
LEMMA EnvelopeReplay ==
    ASSUME NEW o \in Outcomes, RespEnvelope(o) # Garbled
    PROVE  ReplayedOutcome(RespEnvelope(o)) =
              [payload |-> Redact[NormalizePayload(o.resp)],
               failed |-> o.text # "", text |-> o.text]
<1>1. /\ RespEnvelope(o).error = o.text /\ RespEnvelope(o).shape # "cut"
      /\ RespEnvelope(o).payload = Redact[NormalizePayload(o.resp)]
  BY DEF RespEnvelope
<1> QED
  BY <1>1, Zenon DEF ReplayedOutcome

\* An error has a text, unless it is one without a text.
LEMMA TextOfError ==
    ASSUME NEW o \in Outcomes, o.failed => o.text # ""
    PROVE  o.failed = (o.text # "")
<1>1. CASE o \in [resp : Responses \cup {Nil}, failed : {FALSE}, text : {""}]
  <2>1. o.failed = FALSE /\ o.text = ""
    BY <1>1
  <2> QED
    BY <2>1
<1>2. CASE o \in [resp : Responses \cup {Nil}, failed : {TRUE}, text : Texts]
  <2>1. o.failed = TRUE
    BY <1>2
  <2> QED
    BY <2>1
<1> QED
  BY <1>1, <1>2 DEF Outcomes

\* The files of an outcome replay to it.
LEMMA FilesReplay ==
    ASSUME NEW f, NEW o \in Outcomes, Files(f, o), o.failed = (o.text # "")
    PROVE  ReplayedOutcome(respFiles[f]) = Expected(o)
<1>1. respFiles[f] = RespEnvelope(o) /\ RespEnvelope(o) # Garbled
  BY FilesAccepted
<1>2. ReplayedOutcome(respFiles[f]) =
          [payload |-> Redact[NormalizePayload(o.resp)],
           failed |-> o.text # "", text |-> o.text]
  BY <1>1, EnvelopeReplay, Zenon
<1> QED
  BY <1>2, Zenon DEF Expected

\* The invariant implies the property.
LEMMA SavesReplay == TypeInv /\ SavesInv => ReturnedIsReplayable
<1> SUFFICES ASSUME TypeInv, SavesInv, NEW c \in Made, NEW f, f = call[c].fp,
                    call[c].at = "returned", call[c].mode = "record",
                    "failed" \in DOMAIN call[c].result,
                    call[c].result.failed => call[c].result.text # "",
                    latest[f] = {c}, f \notin overlapped
             PROVE  /\ ReadVerdicts(ReadStreamFile(reqFiles, f)) = {"ok"}
                    /\ ReadVerdicts(ReadStreamFile(respFiles, f)) = {"ok"}
                    /\ ReplayedOutcome(respFiles[f]) = Expected(call[c].result)
  BY DEF ReturnedIsReplayable
<1>1. /\ call[c].do \in Outcomes /\ f \in Fingerprints
      /\ call[c].result = call[c].do
  BY DEF TypeInv, CallsFiled, Recording
<1>2. Files(f, call[c].do)
  BY <1>1 DEF SavesInv, Orderly, Done
<1>3. PICK o \in Outcomes : o = call[c].do
  BY <1>1
<1>4. o.failed = (o.text # "")
  BY <1>1, <1>3, TextOfError
<1>5. ReplayedOutcome(respFiles[f]) = Expected(o)
  BY <1>2, <1>3, <1>4, FilesReplay
<1> QED
  BY <1>1, <1>2, <1>3, <1>5, FilesAccepted

\* The savers at the start: none.
LEMMA SavesInit == Init => SavesInv
<1> SUFFICES ASSUME Init, NEW f \in Fingerprints PROVE Orderly(f)
  BY DEF SavesInv
<1>1. PICK plan : call = [c \in DOMAIN plan |-> Idle(plan[c])]
  BY DEF Init
<1>2. \A c \in Made : call[c].at = "idle"
  BY <1>1 DEF Made, Idle
<1> QED
  BY <1>2 DEF Orderly, Saving, SavePhases, Done

\* The savers after a call went on.
LEMMA SavingGoesOn ==
    ASSUME NEW c \in Made, NEW next, NEW result, GoesOn(c, next, result),
           call[c].at \in SavePhases \/ next \notin SavePhases, NEW f
    PROVE  /\ next \in SavePhases => Saving(f)' = Saving(f)
           /\ next \notin SavePhases => Saving(f)' = Saving(f) \ {c}
BY DEF Saving, GoesOn

\* A step of another fingerprint's files.
LEMMA OrderlyElsewhere ==
    ASSUME NEW f, Orderly(f), Saving(f)' = Saving(f), Made' = Made,
           \A c \in Saving(f) : call'[c] = call[c],
           \A c \in Made : Done(c, f)' => call'[c] = call[c],
           ReadStreamFile(reqFiles', f) = ReadStreamFile(reqFiles, f),
           ReadStreamFile(respFiles', f) = ReadStreamFile(respFiles, f),
           latest'[f] = latest[f], f \in overlapped' <=> f \in overlapped
    PROVE  Orderly(f)'
<1>1. (ReadStreamFile(reqFiles, f))' = ReadStreamFile(reqFiles, f)
      /\ (ReadStreamFile(respFiles, f))' = ReadStreamFile(respFiles, f)
  BY DEF ReadStreamFile
<1>2. \A c \in Saving(f) : InStep(c, f) => InStep(c, f)'
  BY <1>1 DEF InStep
<1>3. \A c \in Made : Done(c, f)' => Done(c, f)
  BY DEF Done
<1>4. \A o : Files(f, o) => Files(f, o)'
  BY <1>1 DEF Files, RespEnvelope
<1>5. \A c \in Made : Done(c, f)' /\ Files(f, call[c].do) => Files(f, call[c].do)'
  BY <1>4 DEF Files
<1> QED
  BY <1>2, <1>3, <1>5 DEF Orderly

\* Entering Record, Replay or passthrough keeps the savers in order.
LEMMA SavesEnter ==
    ASSUME TypeInv, SavesInv, NEW c \in Made, NEW o \in Outcomes,
           Record(c, o) \/ Passthrough(c, o) \/ Replay(c)
    PROVE  SavesInv'
<1>1. /\ call[c].at = "idle" /\ Made' = Made
      /\ \A d \in Made : d # c => call'[d] = call[d]
      /\ UNCHANGED <<reqFiles, respFiles>>
  BY DEF Record, Passthrough, Replay, Made, TypeInv, TypeOK
<1>2. \A f : c \notin Saving(f)
  BY <1>1 DEF Saving, SavePhases
<1>3. ASSUME NEW f, call'[c].at \notin SavePhases \/ call'[c].fp # f
      PROVE  Saving(f)' = Saving(f)
  BY <1>1, <1>2, <1>3 DEF Saving
<1>4. \A f : \A d \in Saving(f) : call'[d] = call[d]
  BY <1>1, <1>2 DEF Saving
<1>5. \A f : ~Done(c, f)'
  <2>1. call'[c].mode # "record" \/ call'[c].result \in {None, Failure("fingerprint")}
    BY DEF Record, Passthrough, Replay, Made, TypeInv, TypeOK
  <2> QED
    BY <2>1 DEF Done, None, Failure
<1>6. CASE /\ call'[c].at \notin SavePhases
           /\ UNCHANGED <<latest, overlapped>>
  <2>1. ASSUME NEW f \in Fingerprints PROVE Orderly(f)'
    BY <1>1, <1>3, <1>4, <1>5, <1>6, OrderlyElsewhere DEF SavesInv
  <2> QED
    BY <2>1 DEF SavesInv
<1>7. CASE Record(c, o) /\ FingerprintOf[call[c].req] # NoFingerprint
  <2>0. PICK g : g = FingerprintOf[call[c].req]
    OBVIOUS
  <2>1. /\ call'[c].at = "openReq" /\ call'[c].fp = g
        /\ latest' = [latest EXCEPT ![g] = {c}]
        /\ overlapped' = IF Saving(g) = {} THEN overlapped ELSE overlapped \cup {g}
    BY <1>7, <2>0 DEF Record, TypeInv, TypeOK, Made
  <2>2. g \in Fingerprints
    BY <1>1, <1>7, <2>0, IdleRequest
  <2>3. ASSUME NEW f \in Fingerprints, f # g PROVE Orderly(f)'
    <3>1. latest'[f] = latest[f] /\ (f \in overlapped' <=> f \in overlapped)
      BY <2>1, <2>3 DEF TypeInv, TypeOK
    <3>2. Saving(f)' = Saving(f)
      BY <1>3, <2>1, <2>3
    <3> QED
      BY <1>1, <1>4, <1>5, <3>1, <3>2, OrderlyElsewhere DEF SavesInv
  <2>4. Orderly(g)'
    <3>1. latest'[g] = {c}
      BY <2>1, <2>2 DEF TypeInv, TypeOK
    <3>2. \A d \in Made' : ~Done(d, g)'
      BY <1>5, <3>1 DEF Done
    <3>3. CASE Saving(g) = {}
      <4>1. Saving(g)' = {c}
        BY <1>1, <2>1, <3>3 DEF Saving, SavePhases
      <4>2. InStep(c, g)'
        BY <2>1 DEF InStep
      <4> QED
        BY <3>1, <3>2, <4>1, <4>2 DEF Orderly
    <3>4. CASE Saving(g) # {}
      BY <2>1, <3>4 DEF Orderly
    <3> QED
      BY <3>3, <3>4
  <2> QED
    BY <2>3, <2>4 DEF SavesInv
<1>8. <1>6!1 \/ <1>7!1
  <2>1. CASE Passthrough(c, o)
    BY <2>1 DEF Passthrough, TypeInv, TypeOK, Made, SavePhases
  <2>2. CASE Replay(c)
    BY <2>2 DEF Replay, TypeInv, TypeOK, Made, SavePhases
  <2>3. CASE Record(c, o) /\ FingerprintOf[call[c].req] = NoFingerprint
    BY <2>3 DEF Record, TypeInv, TypeOK, Made, SavePhases
  <2> QED
    BY <2>1, <2>2, <2>3
<1> QED
  BY <1>6, <1>7, <1>8

\* A call that reads, fails or dies keeps the savers in order, whatever a
\* save that stops leaves in its own files.
LEMMA SavesLeave ==
    ASSUME TypeInv, SavesInv, NEW c \in Made, NEW next, NEW result,
           GoesOn(c, next, result), next \notin SavePhases,
           \/ call[c].mode # "record" \/ next # "returned"
           \/ "failed" \notin DOMAIN result,
           UNCHANGED <<latest, overlapped>>,
           \A f : f # call[c].fp \/ call[c].at \notin SavePhases =>
              /\ ReadStreamFile(reqFiles', f) = ReadStreamFile(reqFiles, f)
              /\ ReadStreamFile(respFiles', f) = ReadStreamFile(respFiles, f)
    PROVE  SavesInv'
<1> SUFFICES ASSUME NEW f \in Fingerprints PROVE Orderly(f)'
  BY DEF SavesInv
<1>1. Saving(f)' = Saving(f) \ {c} /\ Made' = Made
  BY SavingGoesOn DEF GoesOn
<1>2. ~Done(c, f)' /\ \A d \in Made : Done(d, f)' => call'[d] = call[d]
  BY DEF GoesOn, Done
<1>3. CASE c \notin Saving(f)
  <2>1. Saving(f)' = Saving(f) /\ \A d \in Saving(f) : call'[d] = call[d]
    BY <1>1, <1>3 DEF GoesOn, Saving
  <2>2. f # call[c].fp \/ call[c].at \notin SavePhases
    BY <1>3 DEF Saving
  <2> QED
    BY <1>1, <1>2, <2>1, <2>2, OrderlyElsewhere DEF SavesInv
<1>4. CASE c \in Saving(f)
  <2>1. f \notin overlapped => Saving(f)' = {} /\ latest'[f] = {c}
    BY <1>1, <1>4 DEF SavesInv, Orderly
  <2>2. f \notin overlapped => \A d \in Made' : ~Done(d, f)'
    BY <1>2, <2>1 DEF Done
  <2> QED
    BY <2>1, <2>2 DEF Orderly
<1> QED
  BY <1>3, <1>4

\* A file operation of the only saver keeps it in step with its files.
LEMMA SavesWrite ==
    ASSUME TypeInv, SavesInv, NEW c \in Made, NEW next \in SavePhases,
           NEW result, GoesOn(c, next, result), call[c].at \in SavePhases,
           UNCHANGED <<latest, overlapped>>, NEW g, g = call[c].fp,
           \A f : f # g =>
              /\ ReadStreamFile(reqFiles', f) = ReadStreamFile(reqFiles, f)
              /\ ReadStreamFile(respFiles', f) = ReadStreamFile(respFiles, f),
           InStep(c, g) => InStep(c, g)'
    PROVE  SavesInv'
<1> SUFFICES ASSUME NEW f \in Fingerprints PROVE Orderly(f)'
  BY DEF SavesInv
<1>1. Saving(f)' = Saving(f) /\ Made' = Made
  BY SavingGoesOn DEF GoesOn
<1>2. ~Done(c, f)' /\ \A d \in Made : Done(d, f)' => call'[d] = call[d]
  BY DEF GoesOn, Done, SavePhases
<1>3. CASE f # g
  <2>1. \A d \in Saving(f) : call'[d] = call[d]
    BY <1>3 DEF GoesOn, Saving
  <2> QED
    BY <1>1, <1>2, <1>3, <2>1, OrderlyElsewhere DEF SavesInv
<1>4. CASE f = g
  <2>1. c \in Saving(f)
    BY <1>4 DEF Saving
  <2>2. f \notin overlapped => Saving(f) = {c} /\ latest[f] = {c} /\ InStep(c, f)
    BY <2>1 DEF SavesInv, Orderly
  <2>3. InStep(c, f) => InStep(c, f)'
    BY <1>4
  <2>4. f \notin overlapped => \A d \in Made' : ~Done(d, f)'
    BY <1>2, <2>2 DEF Done
  <2> QED
    BY <1>1, <2>2, <2>3, <2>4 DEF Orderly
<1> QED
  BY <1>3, <1>4

\* The file operations of Save but the last keep the savers in order.
LEMMA SavesFileStep ==
    ASSUME TypeInv, SavesInv, NEW c \in Made,
           OpenReqFile(c) \/ WriteReqFile(c) \/ OpenRespFile(c)
    PROVE  SavesInv'
<1>1. call[c].at \in SavePhases /\ UNCHANGED <<latest, overlapped>>
  BY DEF OpenReqFile, WriteReqFile, OpenRespFile, SavePhases
<1>2. PICK g : g = call[c].fp
  OBVIOUS
<1>3. CASE OpenReqFile(c)
  <2>1. GoesOn(c, "writeReq", call[c].result)
    BY <1>3, SaveGoesOn
  <2>2. reqFiles' = WriteFile(reqFiles, g, Truncated) /\ respFiles' = respFiles
    BY <1>2, <1>3 DEF OpenReqFile
  <2>3. \A f : f # g =>
              /\ ReadStreamFile(reqFiles', f) = ReadStreamFile(reqFiles, f)
              /\ ReadStreamFile(respFiles', f) = ReadStreamFile(respFiles, f)
    BY <2>2, OtherFile
  <2>4. InStep(c, g)'
    <3>1. ReadStreamFile(reqFiles', g) = Truncated
      BY <2>2, SameFile
    <3> QED
      BY <2>1, <3>1 DEF InStep, GoesOn
  <2> QED
    BY <1>1, <1>2, <2>1, <2>3, <2>4, SavesWrite DEF SavePhases
<1>4. CASE WriteReqFile(c)
  <2>1. GoesOn(c, "openResp", call[c].result) /\ call[c].at = "writeReq"
    BY <1>4, SaveGoesOn DEF WriteReqFile
  <2>2. reqFiles' \in AfterWrite(reqFiles, g, ReqEnvelope) /\ respFiles' = respFiles
    BY <1>2, <1>4 DEF WriteReqFile
  <2>3. PICK left \in {ReqEnvelope, Garbled} :
              /\ reqFiles' = WriteFile(reqFiles, g, left)
              /\ ReadStreamFile(reqFiles, g) = Truncated => left = ReqEnvelope
    BY <2>2 DEF AfterWrite
  <2>4. \A f : f # g =>
              /\ ReadStreamFile(reqFiles', f) = ReadStreamFile(reqFiles, f)
              /\ ReadStreamFile(respFiles', f) = ReadStreamFile(respFiles, f)
    BY <2>2, <2>3, OtherFile
  <2>5. InStep(c, g) => InStep(c, g)'
    <3>1. ReadStreamFile(reqFiles, g) = Truncated =>
              ReadStreamFile(reqFiles', g) = ReqEnvelope
      BY <2>3, SameFile
    <3> QED
      BY <2>1, <3>1 DEF InStep, GoesOn
  <2> QED
    BY <1>1, <1>2, <2>1, <2>4, <2>5, SavesWrite DEF SavePhases
<1>5. CASE OpenRespFile(c)
  <2>1. GoesOn(c, "writeResp", call[c].result) /\ call[c].at = "openResp"
    BY <1>5, SaveGoesOn DEF OpenRespFile
  <2>2. respFiles' = WriteFile(respFiles, g, Truncated) /\ reqFiles' = reqFiles
    BY <1>2, <1>5 DEF OpenRespFile
  <2>3. \A f : f # g =>
              /\ ReadStreamFile(reqFiles', f) = ReadStreamFile(reqFiles, f)
              /\ ReadStreamFile(respFiles', f) = ReadStreamFile(respFiles, f)
    BY <2>2, OtherFile
  <2>4. InStep(c, g) => InStep(c, g)'
    <3>1. ReadStreamFile(respFiles', g) = Truncated
      BY <2>2, SameFile
    <3>2. ReadStreamFile(reqFiles', g) = ReadStreamFile(reqFiles, g)
      BY <2>2
    <3> QED
      BY <2>1, <3>1, <3>2 DEF InStep, GoesOn
  <2> QED
    BY <1>1, <1>2, <2>1, <2>3, <2>4, SavesWrite DEF SavePhases
<1> QED
  BY <1>3, <1>4, <1>5

\* The last write leaves the files of the outcome that is returned, if no
\* other save has met this one.
LEMMA SavesReturn ==
    ASSUME TypeInv, SavesInv, NEW c \in Made, WriteRespFile(c)
    PROVE  SavesInv'
<1>1. GoesOn(c, "returned", call[c].do) /\ call[c].at = "writeResp"
  BY SaveGoesOn DEF WriteRespFile
<1>2. PICK g, o : g = call[c].fp /\ o = call[c].do
  OBVIOUS
<1>3. /\ respFiles' \in AfterWrite(respFiles, g, RespEnvelope(o))
      /\ UNCHANGED <<reqFiles, latest, overlapped>>
  BY <1>2 DEF WriteRespFile
<1>4. PICK left \in {RespEnvelope(o), Garbled} :
          /\ respFiles' = WriteFile(respFiles, g, left)
          /\ ReadStreamFile(respFiles, g) = Truncated => left = RespEnvelope(o)
  BY <1>3 DEF AfterWrite
<1>5. g \in Fingerprints /\ c \in Saving(g)
  BY <1>1, <1>2, SaverFacts DEF SavePhases, Saving
<1>6. Made' = Made /\ \A f : Saving(f)' = Saving(f) \ {c}
  BY <1>1, SavingGoesOn DEF SavePhases, GoesOn
<1>7. ASSUME NEW f \in Fingerprints, f # g PROVE Orderly(f)'
  <2>1. c \notin Saving(f)
    BY <1>2, <1>7 DEF Saving
  <2>2. Saving(f)' = Saving(f) /\ \A d \in Saving(f) : call'[d] = call[d]
    BY <1>1, <1>6, <2>1 DEF GoesOn, Saving
  <2>3. \A d \in Made : Done(d, f)' => call'[d] = call[d]
    BY <1>1, <1>2, <1>7 DEF GoesOn, Done
  <2>4. /\ ReadStreamFile(reqFiles', f) = ReadStreamFile(reqFiles, f)
        /\ ReadStreamFile(respFiles', f) = ReadStreamFile(respFiles, f)
    BY <1>3, <1>4, <1>7, OtherFile
  <2> QED
    BY <1>3, <1>6, <2>2, <2>3, <2>4, OrderlyElsewhere DEF SavesInv
<1>8. ASSUME g \notin overlapped PROVE Orderly(g)'
  <2>1. Saving(g) = {c} /\ latest'[g] = {c} /\ InStep(c, g)
    BY <1>3, <1>5, <1>8 DEF SavesInv, Orderly
  <2>2. Saving(g)' = {}
    BY <1>6, <2>1
  <2>3. ReadStreamFile(reqFiles', g) = ReqEnvelope
    BY <1>1, <1>3, <2>1 DEF InStep
  <2>4. ReadStreamFile(respFiles', g) = RespEnvelope(o)
    <3>1. left = RespEnvelope(o)
      BY <1>1, <1>4, <2>1 DEF InStep
    <3> QED
      BY <1>4, <3>1, SameFile
  <2>5. call'[c].do = o
    BY <1>1, <1>2 DEF GoesOn
  <2>6. Files(g, call[c].do)'
    BY <2>3, <2>4, <2>5 DEF Files, RespEnvelope
  <2>7. \A d \in Made' : Done(d, g)' => d = c
    BY <2>1 DEF Done
  <2> QED
    BY <2>2, <2>6, <2>7 DEF Orderly
<1>9. g \in overlapped => Orderly(g)'
  BY <1>3 DEF Orderly
<1> QED
  BY <1>7, <1>8, <1>9 DEF SavesInv

\* Every step keeps the savers in order.
LEMMA SavesStep == TypeInv /\ SavesInv /\ [Next]_vars => SavesInv'
<1> SUFFICES ASSUME TypeInv, SavesInv, [Next]_vars PROVE SavesInv'
  OBVIOUS
<1>1. ASSUME NEW c \in Made, SaveFails(c) \/ Crash(c) PROVE SavesInv'
  <2>1. /\ call[c].at \in SavePhases /\ UNCHANGED <<latest, overlapped>>
        /\ \A f : f # call[c].fp =>
              /\ ReadStreamFile(reqFiles', f) = ReadStreamFile(reqFiles, f)
              /\ ReadStreamFile(respFiles', f) = ReadStreamFile(respFiles, f)
    BY <1>1, StopFiles DEF RespWritten
  <2>2. PICK next, result : /\ GoesOn(c, next, result) /\ next \notin SavePhases
                            /\ next # "returned" \/ result = Failure("save")
    BY <1>1, SaveGoesOn DEF SavePhases
  <2>3. "failed" \notin DOMAIN Failure("save")
    BY DEF Failure
  <2> QED
    BY <2>1, <2>2, <2>3, SavesLeave
<1>2. ASSUME NEW c \in Made, ReadReq(c) \/ ReadResp(c) PROVE SavesInv'
  <2>1. UNCHANGED <<reqFiles, respFiles, latest, overlapped>>
        /\ call[c].at \in {"readReq", "readResp"}
    BY <1>2 DEF ReadReq, ReadResp
  <2>2. PICK next, result : next \in {"readResp", "returned"} /\ GoesOn(c, next, result)
    BY <1>2, ReadGoesOn
  <2>3. call[c].mode # "record"
    BY <2>1 DEF TypeInv, CallsFiled
  <2> QED
    BY <2>1, <2>2, <2>3, SavesLeave DEF SavePhases
<1>3. ASSUME NEW c \in Made, SaveStep(c) PROVE SavesInv'
  BY <1>1, <1>3, SavesFileStep, SavesReturn DEF SaveStep
<1>4. ASSUME NEW c \in Made, Replay(c) PROVE SavesInv'
  <2>1. PICK o : o = [resp |-> Nil, failed |-> FALSE, text |-> ""]
    OBVIOUS
  <2>2. o \in Outcomes
    BY <2>1 DEF Outcomes
  <2> QED
    BY <1>4, <2>2, SavesEnter
<1>5. CASE Next
  BY <1>2, <1>3, <1>4, <1>5, SavesEnter DEF Next
<1>6. CASE UNCHANGED vars
  BY <1>6 DEF vars, SavesInv, Orderly, Saving, Made, InStep, Files, Done, ReadStreamFile
<1> QED
  BY <1>5, <1>6

\* A call of Record that returned the outcome of do(), rather than the error
\* of Save, has left a pair that replays to what it returned, whatever other
\* calls, crashes and failed or half-done writes there are, until the next
\* recording under its fingerprint and unless two saves met on it.
THEOREM ReturnedReplays == Spec => []ReturnedIsReplayable
<1>1. Init => TypeInv /\ SavesInv
  BY TypeInit, SavesInit
<1>2. TypeInv /\ SavesInv /\ [Next]_vars => (TypeInv /\ SavesInv)'
  BY TypeStep, SavesStep
<1> QED
  BY <1>1, <1>2, SavesReplay, PTL DEF Spec
-----------------------------------------------------------------------------
(***************************************************************************)
(* ReplayIsOneOutcome.                                                     *)
(***************************************************************************)

\* A replay of the beginning of an envelope has the whole error.
LEMMA BeginningReplay ==
    ASSUME NEW o \in Outcomes
    PROVE  ReplayedOutcome(CutShort(RespEnvelope(o))) =
              [payload |-> Beginning(Redact[NormalizePayload(o.resp)]),
               failed |-> o.text # "", text |-> o.text]
<1>1. PICK file : file = CutShort(RespEnvelope(o))
  OBVIOUS
<1>2. /\ file.error = o.text /\ file.shape = "cut"
      /\ file.payload = Redact[NormalizePayload(o.resp)]
  BY <1>1 DEF CutShort, RespEnvelope
<1>3. file # Garbled
  BY <1>2 DEF Garbled
<1> QED
  BY <1>1, <1>2, <1>3, Zenon DEF ReplayedOutcome

Fails(text) == text # ""

\* What a replay makes of what a recording wrote.
LEMMA WroteFacts ==
    ASSUME TypeInv, NEW w \in Made, NEW f, NEW file, Wrote(w, f, file)
    PROVE  /\ call[w].at # "idle" /\ call[w].mode = "record" /\ call[w].fp = f
           /\ \E o \in Outcomes : \E p, b :
                 /\ o = call[w].do /\ b = Fails(o.text)
                 /\ p = Redact[NormalizePayload(o.resp)]
                 /\ \/ ReplayedOutcome(file) = [payload |-> p, failed |-> b, text |-> o.text]
                    \/ /\ Stopped(w)
                       /\ ReplayedOutcome(file) =
                             [payload |-> Beginning(p), failed |-> b, text |-> o.text]
<1>1. call[w].at # "idle" /\ call[w].mode = "record" /\ call[w].fp = f
  BY DEF Wrote, Recording
<1>2. PICK o \in Outcomes : o = call[w].do
  BY <1>1 DEF TypeInv, CallsFiled, Recording
<1>3. PICK p, b : p = Redact[NormalizePayload(o.resp)] /\ b = Fails(o.text)
  OBVIOUS
<1>4. file = RespEnvelope(o) \/ (Stopped(w) /\ file = CutShort(RespEnvelope(o)))
  BY <1>2 DEF Wrote
<1>5. CASE file = RespEnvelope(o)
  <2>1. ReplayedOutcome(file) = [payload |-> p, failed |-> b, text |-> o.text]
    BY <1>3, <1>5, NotGarbled, EnvelopeReplay, Zenon DEF Fails
  <2> QED
    BY <1>1, <1>2, <1>3, <2>1
<1>6. CASE Stopped(w) /\ file = CutShort(RespEnvelope(o))
  <2>1. ReplayedOutcome(file) = [payload |-> Beginning(p), failed |-> b, text |-> o.text]
    BY <1>3, <1>6, BeginningReplay, Zenon DEF Fails
  <2> QED
    BY <1>1, <1>2, <1>3, <1>6, <2>1
<1> QED
  BY <1>4, <1>5, <1>6

\* What a replay returns of the envelope of a recording is as the property
\* has it.
LEMMA OutcomeReplay == TypeInv /\ OutcomeInv => ReplayIsOneOutcome
<1> SUFFICES ASSUME TypeInv, OutcomeInv, NEW c \in Made, ReplayedResponse(c)
             PROVE  \E w \in Made : ReplayedFrom(c, w) /\ call[w].fp = call[c].fp
  BY DEF ReplayIsOneOutcome, OutcomeInv, ResultWritten
<1>1. PICK w, file : /\ w \in Made /\ Wrote(w, call[c].fp, file)
                     /\ call[c].result = ReplayedOutcome(file)
  BY DEF OutcomeInv, ResultWritten
<1>2. PICK o, p, b :
          /\ o = call[w].do /\ b = Fails(o.text) /\ p = Redact[NormalizePayload(o.resp)]
          /\ \/ call[c].result = [payload |-> p, failed |-> b, text |-> o.text]
             \/ /\ Stopped(w)
                /\ call[c].result = [payload |-> Beginning(p), failed |-> b, text |-> o.text]
  BY <1>1, WroteFacts
<1>3. /\ call[c].result.failed = b /\ call[c].result.text = o.text
      /\ \/ call[c].result.payload = p
         \/ Stopped(w) /\ call[c].result.payload = Beginning(p)
  BY <1>2
<1>4. call[w].at # "idle" /\ call[w].mode = "record" /\ call[w].fp = call[c].fp
  BY <1>1, WroteFacts
<1>5. ReplayedFrom(c, w)
  BY <1>2, <1>3, <1>4, Zenon DEF ReplayedFrom, Fails
<1> QED
  BY <1>1, <1>4, <1>5

\* Nothing is recorded or replayed at the start.
LEMMA OutcomeInit == Init => OutcomeInv
<1> SUFFICES ASSUME Init PROVE OutcomeInv
  OBVIOUS
<1>1. PICK plan : /\ call = [c \in DOMAIN plan |-> Idle(plan[c])]
                  /\ \E old : reqFiles = [f \in old |-> Streamed]
                              /\ respFiles = reqFiles
  BY DEF Init
<1>2. \A c \in Made : call[c].at = "idle"
  BY <1>1 DEF Made, Idle
<1>3. \A f \in DOMAIN respFiles : respFiles[f] = Streamed
  BY <1>1
<1> QED
  BY <1>2, <1>3 DEF OutcomeInv, FileWritten, ResultWritten, ReplayedResponse

\* What a recording wrote, it has written: one that was stopped stays so.
LEMMA WroteStays ==
    ASSUME TypeInv, [Next]_vars, NEW w \in Made, NEW f, NEW file, Wrote(w, f, file)
    PROVE  w \in Made' /\ Wrote(w, f, file)'
<1>1. call[w].at # "idle" /\ call[w].mode = "record"
  BY DEF Wrote, Recording
<1>2. CASE Made' = Made /\ call'[w] = call[w]
  BY <1>2 DEF Wrote, Recording, RespEnvelope, Stopped
<1>3. ASSUME NEW c \in Made, NEW o, Record(c, o) \/ Passthrough(c, o) \/ Replay(c)
      PROVE  Made' = Made /\ call'[w] = call[w]
  BY <1>1, <1>3 DEF Record, Passthrough, Replay, Made, TypeInv, TypeOK
<1>4. ASSUME SaveStep(w) PROVE w \in Made' /\ Wrote(w, f, file)'
  <2>1. call[w].at \in SavePhases
    BY <1>4 DEF SaveStep, OpenReqFile, WriteReqFile, OpenRespFile,
                WriteRespFile, SaveFails, Crash, StopsIn, SavePhases
  <2>2. ~Stopped(w)
    BY <2>1, SaverFacts DEF Stopped, SavePhases, None, Failure
  <2>3. PICK next, result : next \in Phases /\ GoesOn(w, next, result)
    BY <1>4, SaveGoesOn DEF SaveStep, Phases, SavePhases
  <2>4. next # "idle"
    BY <2>3 DEF Phases, SavePhases
  <2> QED
    BY <2>2, <2>3, <2>4 DEF Wrote, Recording, RespEnvelope, GoesOn
<1>5. ASSUME NEW c \in Made, c # w, SaveStep(c) \/ ReadReq(c) \/ ReadResp(c)
      PROVE  Made' = Made /\ call'[w] = call[w]
  <2>1. \E next, result : GoesOn(c, next, result)
    BY <1>5, SaveGoesOn, ReadGoesOn DEF SaveStep
  <2> QED
    BY <1>5, <2>1 DEF GoesOn
<1>6. ~ReadReq(w) /\ ~ReadResp(w)
  BY <1>1 DEF ReadReq, ReadResp, TypeInv, CallsFiled
<1>7. CASE UNCHANGED vars
  BY <1>2, <1>7 DEF vars, Made
<1> QED
  BY <1>2, <1>3, <1>4, <1>5, <1>6, <1>7 DEF Next

\* Fingerprints two saves have met on remain so.
LEMMA OverlappedStays == [Next]_vars => overlapped \subseteq overlapped'
BY DEF Next, vars, Record, Passthrough, Replay, SaveStep, OpenReqFile, WriteReqFile,
       OpenRespFile, WriteRespFile, SaveFails, Crash, StopsIn, ReadReq, ReadResp

\* A file that is not written stays what it was.
LEMMA FileStays ==
    ASSUME TypeInv, [Next]_vars, NEW f, FileWritten(f), respFiles'[f] = respFiles[f]
    PROVE  FileWritten(f)'
<1>1. CASE respFiles[f] \in {Streamed, Truncated}
  BY <1>1 DEF FileWritten
<1>2. CASE respFiles[f] = Garbled /\ f \in overlapped
  BY <1>2, OverlappedStays DEF FileWritten
<1>3. CASE \E w \in Made : Wrote(w, f, respFiles[f])
  <2>1. PICK w, file : w \in Made /\ Wrote(w, f, file) /\ file = respFiles[f]
    BY <1>3
  <2>2. w \in Made' /\ Wrote(w, f, file)'
    BY <2>1, WroteStays
  <2>3. Wrote(w, f, respFiles[f])'
    BY <2>1, <2>2 DEF Wrote
  <2> QED
    BY <2>2, <2>3 DEF FileWritten
<1> QED
  BY <1>1, <1>2, <1>3 DEF FileWritten

\* The write of a resp file leaves what its call recorded, or the beginning
\* of it if the call is stopped in it; two texts mix only if two saves meet.
LEMMA WriteLeaves ==
    ASSUME TypeInv, SavesInv, [Next]_vars, NEW c \in Made, NEW content,
           call[c].at = "writeResp",
           NEW next \in Phases, NEW result, GoesOn(c, next, result),
           NEW g, g = call[c].fp, respFiles' = WriteFile(respFiles, g, content),
           \/ content = RespEnvelope(call[c].do)
           \/ content = CutShort(RespEnvelope(call[c].do)) /\ Stopped(c)'
           \/ content = Garbled /\ ReadStreamFile(respFiles, g) # Truncated
    PROVE  FileWritten(g)'
<1>1. PICK o : o = call[c].do
  OBVIOUS
<1>2. respFiles'[g] = content
  BY <1>1 DEF WriteFile
<1>3. call[c].at \in SavePhases /\ g \in Fingerprints /\ Recording(c)
  BY <1>1, SaverFacts DEF SavePhases
<1>4. c \in Made' /\ Recording(c)' /\ call'[c].fp = g /\ call'[c].do = o
  BY <1>1, <1>3 DEF GoesOn, Recording, Phases, SavePhases
<1>5. CASE content = Garbled /\ ReadStreamFile(respFiles, g) # Truncated
  <2>1. c \in Saving(g) /\ ~InStep(c, g)
    BY <1>1, <1>3, <1>5 DEF Saving, InStep
  <2>2. g \in overlapped
    BY <1>3, <2>1 DEF SavesInv, Orderly
  <2> QED
    BY <1>2, <1>5, <2>2, OverlappedStays DEF FileWritten
<1>6. CASE content = RespEnvelope(o) \/ (content = CutShort(RespEnvelope(o)) /\ Stopped(c)')
  <2>1. RespEnvelope(call'[c].do) = RespEnvelope(o)
    BY <1>4
  <2>2. Wrote(c, g, respFiles[g])'
    BY <1>2, <1>4, <1>6, <2>1 DEF Wrote, RespEnvelope
  <2> QED
    BY <1>1, <1>4, <2>2 DEF FileWritten
<1> QED
  BY <1>1, <1>5, <1>6

\* What the files under the other fingerprints are stays.
LEMMA OthersStay ==
    ASSUME TypeInv, [Next]_vars, \A f \in DOMAIN respFiles : FileWritten(f),
           NEW g, NEW content, respFiles' = WriteFile(respFiles, g, content),
           FileWritten(g)'
    PROVE  \A f \in DOMAIN respFiles' : FileWritten(f)'
<1> SUFFICES ASSUME NEW f \in DOMAIN respFiles', f # g PROVE FileWritten(f)'
  OBVIOUS
<1>1. f \in DOMAIN respFiles /\ respFiles'[f] = respFiles[f]
  BY DEF WriteFile
<1> QED
  BY <1>1, FileStays

\* Every step keeps the first part.
LEMMA FilesStep ==
    ASSUME TypeInv, SavesInv, [Next]_vars, \A f \in DOMAIN respFiles : FileWritten(f)
    PROVE  \A f \in DOMAIN respFiles' : FileWritten(f)'
<1>1. CASE respFiles' = respFiles
  BY <1>1, FileStays
<1>2. ASSUME NEW c \in Made, OpenRespFile(c)
      PROVE  \A f \in DOMAIN respFiles' : FileWritten(f)'
  <2>1. PICK g : g = call[c].fp
    OBVIOUS
  <2>2. respFiles' = WriteFile(respFiles, g, Truncated)
    BY <1>2, <2>1 DEF OpenRespFile
  <2>3. FileWritten(g)'
    BY <2>2 DEF WriteFile, FileWritten
  <2> QED
    BY <2>2, <2>3, OthersStay
<1>3. ASSUME NEW c \in Made, WriteRespFile(c)
      PROVE  \A f \in DOMAIN respFiles' : FileWritten(f)'
  <2>1. call[c].at = "writeResp" /\ GoesOn(c, "returned", call[c].do)
    BY <1>3, SaveGoesOn DEF WriteRespFile
  <2>2. PICK g : g = call[c].fp
    OBVIOUS
  <2>3. respFiles' \in AfterWrite(respFiles, g, RespEnvelope(call[c].do))
    BY <1>3, <2>2 DEF WriteRespFile
  <2>4. PICK content :
            /\ respFiles' = WriteFile(respFiles, g, content)
            /\ \/ content = RespEnvelope(call[c].do)
               \/ content = Garbled /\ ReadStreamFile(respFiles, g) # Truncated
    BY <2>3, AfterWriteFacts
  <2>5. FileWritten(g)'
    BY <2>1, <2>2, <2>4, WriteLeaves DEF Phases
  <2> QED
    BY <2>4, <2>5, OthersStay
<1>4. ASSUME NEW c \in Made, SaveFails(c) \/ Crash(c), respFiles' # respFiles
      PROVE  \A f \in DOMAIN respFiles' : FileWritten(f)'
  <2>1. PICK next, result : /\ next \in Phases /\ GoesOn(c, next, result)
                            /\ next = "crashed" \/ result = Failure("save")
    BY <1>4, SaveGoesOn DEF Phases
  <2>2. Stopped(c)'
    BY <2>1 DEF GoesOn, Stopped, Failure
  <2>3. RespWritten(c)
    BY <1>4, StopFiles
  <2>4. PICK g : g = call[c].fp
    OBVIOUS
  <2>5. PICK content \in Leftovers(c) :
            /\ respFiles' = WriteFile(respFiles, g, content)
            /\ content = Garbled => ReadStreamFile(respFiles, g) # Truncated
    BY <2>3, <2>4 DEF RespWritten
  <2>6. FileWritten(g)'
    BY <2>1, <2>2, <2>3, <2>4, <2>5, WriteLeaves DEF Leftovers, RespWritten
  <2> QED
    BY <2>5, <2>6, OthersStay
<1>5. \/ respFiles' = respFiles
      \/ \E c \in Made : OpenRespFile(c) \/ WriteRespFile(c) \/ SaveFails(c) \/ Crash(c)
  BY DEF Next, vars, Record, Passthrough, Replay, SaveStep, OpenReqFile,
         WriteReqFile, ReadReq, ReadResp
<1> QED
  BY <1>1, <1>2, <1>3, <1>4, <1>5

\* A call that stays as it is keeps its result.
LEMMA ResultStays ==
    ASSUME TypeInv, [Next]_vars, NEW c \in Made, ResultWritten(c), call'[c] = call[c]
    PROVE  ResultWritten(c)'
<1>1. CASE ReplayedResponse(c)
  <2>1. PICK w, file, f :
            /\ w \in Made
            /\ Wrote(w, f, file) /\ f = call[c].fp
            /\ call[c].result = ReplayedOutcome(file)
    BY <1>1 DEF ResultWritten
  <2>2. w \in Made' /\ Wrote(w, f, file)'
    BY <2>1, WroteStays
  <2>3. call'[c].fp = f /\ call'[c].result = ReplayedOutcome(file)
    BY <2>1
  <2> QED
    BY <2>2, <2>3, OverlappedStays DEF ResultWritten
<1>2. CASE ~ReplayedResponse(c)
  BY <1>2, OverlappedStays DEF ReplayedResponse, ResultWritten
<1> QED
  BY <1>1, <1>2

\* Nothing of a result that is neither a response nor a mixture is asked.
LEMMA ResultPlain ==
    ASSUME TypeInv, [Next]_vars, OutcomeInv, NEW c \in Made, Made' = Made,
           \A d \in Made : d # c => call'[d] = call[d],
           \/ call'[c].at # "returned"
           \/ /\ call'[c].mode # "replay" \/ "payload" \notin DOMAIN call'[c].result
              /\ call'[c].result # Garbled
    PROVE  \A d \in Made' : ResultWritten(d)'
<1>1. ResultWritten(c)'
  BY DEF ResultWritten, ReplayedResponse
<1>2. \A d \in Made : d # c => ResultWritten(d)'
  BY ResultStays DEF OutcomeInv
<1> QED
  BY <1>1, <1>2

\* Every step keeps the second part.
LEMMA ResultsStep ==
    ASSUME TypeInv, [Next]_vars, OutcomeInv
    PROVE  \A d \in Made' : ResultWritten(d)'
<1>1. \A failure \in Failures \cup {None} :
          "payload" \notin DOMAIN failure /\ failure # Garbled
  BY DEF Failures, Failure, None, Garbled
<1>2. \A o \in Outcomes : o # Garbled
  BY DEF Outcomes, Garbled
<1>3. ASSUME NEW c \in Made, NEW o \in Outcomes,
             Record(c, o) \/ Passthrough(c, o) \/ Replay(c)
      PROVE  \A d \in Made' : ResultWritten(d)'
  <2>1. Made' = Made /\ \A d \in Made : d # c => call'[d] = call[d]
    BY <1>3 DEF Record, Passthrough, Replay, Made, TypeInv, TypeOK
  <2>2. \/ call'[c].mode # "replay" /\ call'[c].result = o
        \/ call'[c].result \in Failures \cup {None}
    BY <1>3 DEF Record, Passthrough, Replay, Made, TypeInv, TypeOK, Failures
  <2> QED
    BY <1>1, <1>2, <2>1, <2>2, ResultPlain
<1>4. ASSUME NEW c \in Made, SaveStep(c) PROVE \A d \in Made' : ResultWritten(d)'
  <2>1. call[c].at \in SavePhases
    BY <1>4 DEF SaveStep, OpenReqFile, WriteReqFile, OpenRespFile,
                WriteRespFile, SaveFails, Crash, StopsIn, SavePhases
  <2>2. call[c].mode = "record" /\ call[c].do \in Outcomes
    BY <2>1, SaverFacts DEF Recording
  <2>3. PICK next, result : /\ GoesOn(c, next, result)
                            /\ next # "returned" \/ result \in Outcomes \cup Failures
    BY <1>4, <2>2, SaveGoesOn DEF SaveStep, Failures
  <2>4. /\ Made' = Made /\ \A d \in Made : d # c => call'[d] = call[d]
        /\ call'[c].at # "returned"
              \/ (call'[c].mode # "replay" /\ call'[c].result # Garbled)
    BY <1>1, <1>2, <2>2, <2>3 DEF GoesOn
  <2> QED
    BY <2>4, ResultPlain
<1>5. ASSUME NEW c \in Made, NEW failure \in Failures, GoesOn(c, "returned", failure)
      PROVE  \A d \in Made' : ResultWritten(d)'
  BY <1>1, <1>5, ResultPlain DEF GoesOn
<1>6. ASSUME NEW c \in Made, ReadReq(c) PROVE \A d \in Made' : ResultWritten(d)'
  <2>1. CASE GoesOn(c, "readResp", call[c].result)
    BY <2>1, ResultPlain DEF GoesOn
  <2> QED
    BY <1>5, <1>6, <2>1, ReadGoesOn
<1>7. ASSUME NEW c \in Made, ReadResp(c) PROVE \A d \in Made' : ResultWritten(d)'
  <2>1. PICK f, file : f = call[c].fp /\ file = ReadStreamFile(respFiles, f)
    OBVIOUS
  <2>2. \/ \E failure \in Failures : GoesOn(c, "returned", failure)
        \/ /\ file \notin {Absent, Streamed, Truncated}
           /\ GoesOn(c, "returned", ReplayedOutcome(file))
    BY <1>7, <2>1, ReadGoesOn
  <2>3. CASE /\ file \notin {Absent, Streamed, Truncated}
             /\ GoesOn(c, "returned", ReplayedOutcome(file))
    <3>1. f \in DOMAIN respFiles /\ file = respFiles[f] /\ FileWritten(f)
      BY <2>1, <2>3 DEF ReadStreamFile, OutcomeInv
    <3>2. call'[c].fp = f /\ call'[c].result = ReplayedOutcome(file)
      BY <2>1, <2>3 DEF GoesOn
    <3>3. ResultWritten(c)'
      <4>1. CASE file = Garbled /\ f \in overlapped
        <5>1. call'[c].result = Garbled
          BY <3>2, <4>1 DEF ReplayedOutcome
        <5>2. "payload" \notin DOMAIN call'[c].result
          BY <5>1 DEF Garbled
        <5> QED
          BY <3>2, <4>1, <5>2, OverlappedStays DEF ResultWritten, ReplayedResponse
      <4>2. CASE \E w \in Made : Wrote(w, f, file)
        <5>1. PICK w \in Made : Wrote(w, f, file)
          BY <4>2
        <5>2. w \in Made' /\ Wrote(w, f, file)'
          BY <5>1, WroteStays
        <5>3. ReplayedOutcome(file) # Garbled
          <6>1. PICK p, b, x : ReplayedOutcome(file) = [payload |-> p, failed |-> b, text |-> x]
            BY <5>1, WroteFacts
          <6> QED
            BY <6>1 DEF Garbled
        <5> QED
          BY <3>2, <5>2, <5>3 DEF ResultWritten
      <4> QED
        BY <2>3, <3>1, <4>1, <4>2 DEF FileWritten
    <3>4. Made' = Made /\ \A d \in Made : d # c => call'[d] = call[d]
      BY <2>3 DEF GoesOn
    <3> QED
      BY <3>3, <3>4, ResultStays DEF OutcomeInv
  <2> QED
    BY <1>5, <2>2, <2>3
<1>8. CASE UNCHANGED vars
  BY <1>8, ResultStays DEF vars, Made, OutcomeInv
<1>9. PICK o : o = [resp |-> Nil, failed |-> FALSE, text |-> ""]
  OBVIOUS
<1>10. o \in Outcomes
  BY <1>9 DEF Outcomes
<1> QED
  BY <1>3, <1>4, <1>6, <1>7, <1>8, <1>10 DEF Next

\* Every step keeps the invariant.
LEMMA OutcomeStep == TypeInv /\ SavesInv /\ OutcomeInv /\ [Next]_vars => OutcomeInv'
BY FilesStep, ResultsStep DEF OutcomeInv

\* A replay that returns a response returns what one recorded run filed under
\* its fingerprint returned, payload and error of the same run, at any
\* interleaving with recordings, crashes and failed writes: half a payload
\* only of a recording that was stopped, with the whole error, and a mixture
\* only where two saves have met.
THEOREM ReplayReturnsOneOutcome == Spec => []ReplayIsOneOutcome
<1>1. Init => TypeInv /\ SavesInv /\ OutcomeInv
  BY TypeInit, SavesInit, OutcomeInit
<1>2. TypeInv /\ SavesInv /\ OutcomeInv /\ [Next]_vars
          => (TypeInv /\ SavesInv /\ OutcomeInv)'
  BY TypeStep, SavesStep, OutcomeStep
<1> QED
  BY <1>1, <1>2, OutcomeReplay, PTL DEF Spec
=============================================================================
