---------------------------- MODULE UnarySession ----------------------------
(***************************************************************************)
(* Unary record and replay: FileSession.Record of go/session.go over the   *)
(* FileCassette of go/cassette.go.                                         *)
(*                                                                         *)
(* A call is one invocation of Record, by any goroutine of any process:    *)
(* nothing serialises them, and they all share the cassette directory.  A  *)
(* recording call runs do() and saves its outcome by four file operations; *)
(* a replaying call reads two files.  A process may die between any two    *)
(* operations.                                                             *)
(***************************************************************************)
EXTENDS UnaryFormat, Functions

CONSTANTS
    Calls,          \* the invocations of Record there may be
    Scenarios,      \* the calls that may be made: functions to their requests
    NoFingerprint,  \* of a request that cannot be fingerprinted
    FingerprintOf,  \* what the adapter files each request under
    Alike,          \* pairs of requests that are one interaction
    Responses,      \* payloads do() may return
    Payloads,       \* payloads, redacted ones included
    EmptyPayload,   \* the empty map a nil response is normalised to
    Redact,         \* redactNode, as a function on payloads
    Texts           \* error texts

ASSUME UnaryAssumption ==
    /\ EmptyPayload \in Payloads /\ Responses \subseteq Payloads
    /\ \A plan \in Scenarios :
          DOMAIN plan \subseteq Calls /\ Range(plan) \subseteq DOMAIN FingerprintOf
    /\ Redact \in [Payloads -> Payloads]
    /\ Texts \subseteq STRING

VARIABLES
    reqFiles, respFiles,    \* the directory, as in module StreamSession
    call,                   \* every call: what it is and where it is
    latest,                 \* history: the call that last began to save, or none
    overlapped              \* history: fingerprints two saves met on

vars == <<reqFiles, respFiles, call, latest, overlapped>>

None == [kind |-> "none"]

Fingerprints ==
    {FingerprintOf[q] : q \in DOMAIN FingerprintOf} \ {NoFingerprint}

Nil == [kind |-> "nil"]

\* What do() returns: a response, which may be nil, and an error, which may
\* have any text, the empty one included.
Outcomes == [resp : Responses \cup {Nil}, failed : {FALSE}, text : {""}]
    \cup [resp : Responses \cup {Nil}, failed : {TRUE}, text : Texts]

\* normalizePayload.
NormalizePayload(resp) == IF resp = Nil THEN EmptyPayload ELSE resp

Failure(why) == [kind |-> why]

Idle(q) == [at |-> "idle", req |-> q]

SavePhases == {"openReq", "writeReq", "openResp", "writeResp"}

\* The contents of files; Save never reads the payload of a req file back.
ReqEnvelope == [shape |-> "unary"]

\* Mutant: the error of do() is not written.
RespEnvelopeWithoutError(o) ==
    [shape |-> "unary", error |-> "",
     payload |-> Redact[NormalizePayload(o.resp)]]

RespEnvelope(o) == [shape |-> "unary", error |-> o.text,
                    payload |-> Redact[NormalizePayload(o.resp)]]

Streamed == [shape |-> "stream"]

\* A directory may hold streamed pairs already.
Init ==
    /\ \E plan \in Scenarios :
          /\ call = [c \in DOMAIN plan |-> Idle(plan[c])]
          /\ \E old \in SUBSET ({FingerprintOf[q] : q \in Range(plan)} \ {NoFingerprint}) :
                reqFiles = [f \in old |-> Streamed] /\ respFiles = reqFiles
    /\ latest = [f \in Fingerprints |-> {}]
    /\ overlapped = {}

-----------------------------------------------------------------------------
(***************************************************************************)
(* Recording.                                                              *)
(***************************************************************************)
\* The calls of this behaviour.
Made == DOMAIN call

Saving(f) == {c \in Made : call[c].at \in SavePhases /\ call[c].fp = f}

\* record up to Save: do() is run first, so that its outcome is lost when
\* the adapter cannot fingerprint the request.
Record(c, o) ==
    LET q == call[c].req
        f == FingerprintOf[q]
    IN
    /\ call[c].at = "idle"
    /\ IF f = NoFingerprint
       THEN /\ call' = [call EXCEPT ![c] = [at |-> "returned", mode |-> "record",
                            req |-> q, fp |-> f, do |-> o, result |-> Failure("fingerprint")]]
            /\ UNCHANGED <<latest, overlapped>>
       ELSE /\ call' = [call EXCEPT ![c] = [at |-> "openReq", mode |-> "record",
                            req |-> q, fp |-> f, do |-> o, result |-> None]]
            /\ latest' = [latest EXCEPT ![f] = {c}]
            /\ overlapped' = IF Saving(f) = {} THEN overlapped
                             ELSE overlapped \cup {f}
    /\ UNCHANGED <<reqFiles, respFiles>>

\* os.WriteFile of a call opens and truncates, then writes from the start of
\* the file.  If somebody wrote in between, a shorter text leaves the tail
\* of the longer one behind.
AfterWrite(dir, f, content) ==
    {WriteFile(dir, f, content)} \cup
        IF ReadStreamFile(dir, f) = Truncated THEN {}
        ELSE {WriteFile(dir, f, Garbled)}

Goto(c, next) == call' = [call EXCEPT ![c].at = next]

OpenReqFile(c) ==
    /\ call[c].at = "openReq"
    /\ reqFiles' = WriteFile(reqFiles, call[c].fp, Truncated)
    /\ Goto(c, "writeReq")
    /\ UNCHANGED <<respFiles, latest, overlapped>>

WriteReqFile(c) ==
    /\ call[c].at = "writeReq"
    /\ reqFiles' \in AfterWrite(reqFiles, call[c].fp, ReqEnvelope)
    /\ Goto(c, "openResp")
    /\ UNCHANGED <<respFiles, latest, overlapped>>

OpenRespFile(c) ==
    /\ call[c].at = "openResp"
    /\ respFiles' = WriteFile(respFiles, call[c].fp, Truncated)
    /\ Goto(c, "writeResp")
    /\ UNCHANGED <<reqFiles, latest, overlapped>>

\* The last write; Save returns, and record returns the outcome verbatim.
WriteRespFile(c) ==
    /\ call[c].at = "writeResp"
    /\ respFiles' \in AfterWrite(respFiles, call[c].fp, RespEnvelope(call[c].do))
    /\ call' = [call EXCEPT ![c].at = "returned", ![c].result = call[c].do]
    /\ UNCHANGED <<reqFiles, latest, overlapped>>

\* The file operation under way stops: an open has done nothing, a write has
\* done nothing or got some way.
StopsIn(c) ==
    LET f == call[c].fp
        left(dir, content) ==
            {dir} \cup AfterWrite(dir, f, content) \cup AfterWrite(dir, f, CutShort(content))
    IN
    /\ call[c].at \in SavePhases
    /\ reqFiles' \in IF call[c].at = "writeReq" THEN left(reqFiles, ReqEnvelope)
                     ELSE {reqFiles}
    /\ respFiles' \in IF call[c].at = "writeResp"
                      THEN left(respFiles, RespEnvelope(call[c].do)) ELSE {respFiles}
    /\ UNCHANGED <<latest, overlapped>>

\* Mutant: the error of Save is dropped.
SaveFailsUnnoticed(c) ==
    /\ StopsIn(c)
    /\ call' = [call EXCEPT ![c].at = "returned", ![c].result = call[c].do]

\* A file operation fails: the error of Save comes before that of do().
SaveFails(c) ==
    /\ StopsIn(c)
    /\ call' = [call EXCEPT ![c].at = "returned", ![c].result = Failure("save")]

\* The process dies in Save.
Crash(c) == StopsIn(c) /\ Goto(c, "crashed")

(***************************************************************************)
(* Passthrough runs do() and nothing else.                                 *)
(***************************************************************************)
Passthrough(c, o) ==
    /\ call[c].at = "idle"
    /\ call' = [call EXCEPT ![c] = [at |-> "returned", mode |-> "passthrough",
                                    req |-> call[c].req, fp |-> NoFingerprint, do |-> o, result |-> o]]
    /\ UNCHANGED <<reqFiles, respFiles, latest, overlapped>>

-----------------------------------------------------------------------------
(***************************************************************************)
(* Replaying.                                                              *)
(***************************************************************************)

\* The payload of a file that ends too early.
Beginning(payload) == [beginning |-> payload]

\* replay on a resp file that was read: the error is re-emitted when the
\* envelope has a text for it.
ReplayedOutcome(file) ==
    IF file = Garbled THEN Garbled
    ELSE [payload |-> IF file.shape = "cut" THEN Beginning(file.payload)
                      ELSE file.payload,
          failed |-> file.error # "", text |-> file.error]

Replay(c) ==
    LET q == call[c].req
        f == FingerprintOf[q]
    IN
    /\ call[c].at = "idle"
    /\ call' = [call EXCEPT ![c] =
                  [at |-> IF f = NoFingerprint THEN "returned" ELSE "readReq",
                   mode |-> "replay", req |-> q, fp |-> f, do |-> None,
                   result |-> IF f = NoFingerprint THEN Failure("fingerprint")
                              ELSE None]]
    /\ UNCHANGED <<reqFiles, respFiles, latest, overlapped>>

ReadReq(c) ==
    /\ call[c].at = "readReq"
    /\ \E v \in ReadVerdicts(ReadStreamFile(reqFiles, call[c].fp)) :
          call' = IF v = "ok" THEN [call EXCEPT ![c].at = "readResp"]
                  ELSE [call EXCEPT ![c].at = "returned",
                                    ![c].result = Failure(v)]
    /\ UNCHANGED <<reqFiles, respFiles, latest, overlapped>>

ReadResp(c) ==
    LET file == ReadStreamFile(respFiles, call[c].fp) IN
    /\ call[c].at = "readResp"
    /\ \E v \in ReadVerdicts(file) :
          call' = [call EXCEPT ![c].at = "returned",
                               ![c].result = IF v = "ok"
                                             THEN ReplayedOutcome(file)
                                             ELSE Failure(v)]
    /\ UNCHANGED <<reqFiles, respFiles, latest, overlapped>>

-----------------------------------------------------------------------------
SaveStep(c) ==
    \/ OpenReqFile(c)
    \/ WriteReqFile(c)
    \/ OpenRespFile(c)
    \/ WriteRespFile(c)
    \/ SaveFails(c)
    \/ Crash(c)

Next == \E c \in Made :
    \/ \E o \in Outcomes : Record(c, o) \/ Passthrough(c, o)
    \/ Replay(c)
    \/ SaveStep(c)
    \/ ReadReq(c)
    \/ ReadResp(c)

Spec == Init /\ [][Next]_vars

-----------------------------------------------------------------------------
(***************************************************************************)
(* Properties.                                                             *)
(***************************************************************************)
\* What replaying the outcome of do() should give: the redacted payload and
\* the same error.
Expected(o) == [payload |-> Redact[NormalizePayload(o.resp)],
                failed |-> o.failed, text |-> o.text]

\* When Record has returned the outcome of do() to its caller, and not an
\* error of Save, there is a pair that replays to what the caller was given,
\* until the next recording of the same request begins.  Errors without a
\* text aside, and fingerprints that two saves have met on.
ReturnedIsReplayable ==
    \A c \in Made :
        LET f == call[c].fp
            given == call[c].result
        IN
        /\ call[c].at = "returned" /\ call[c].mode = "record"
        /\ "failed" \in DOMAIN given /\ (given.failed => given.text # "")
        /\ latest[f] = {c} /\ f \notin overlapped
        => /\ ReadVerdicts(ReadStreamFile(reqFiles, f)) = {"ok"}
           /\ ReadVerdicts(ReadStreamFile(respFiles, f)) = {"ok"}
           /\ ReplayedOutcome(respFiles[f]) = Expected(given)

\* A recording whose save failed or was cut off: its caller knows, or died.
Stopped(w) == call[w].at = "crashed" \/ call[w].result = Failure("save")

\* The response c has been given is what do() returned to w, payload and
\* error of the same run; of one that was stopped, maybe the beginning of the
\* payload.  An error without a text comes back as no error.
ReplayedFrom(c, w) ==
    LET o == call[w].do
        payload == Redact[NormalizePayload(o.resp)]
    IN
    /\ call[w].at # "idle" /\ call[w].mode = "record"
    /\ call[c].result.failed = (o.text # "") /\ call[c].result.text = o.text
    /\ \/ call[c].result.payload = payload
       \/ Stopped(w) /\ call[c].result.payload = Beginning(payload)

ReplayedResponse(c) ==
    /\ call[c].at = "returned" /\ call[c].mode = "replay"
    /\ "payload" \in DOMAIN call[c].result

\* A replay that returns a response returns what one do() filed under its
\* fingerprint has returned: a recording under way, of which it may read one
\* file before and one after, gives it an error or an older outcome, never a
\* mixture, and half a payload it is given only of a save that was stopped,
\* with the whole error.  Only two saves that overlap make it return what
\* nobody recorded.
ReplayIsOneOutcome ==
    \A c \in Made :
        /\ ReplayedResponse(c) =>
              \E w \in Made : ReplayedFrom(c, w) /\ call[w].fp = call[c].fp
        /\ call[c].at = "returned" /\ call[c].result = Garbled =>
              call[c].fp \in overlapped

\* A response is that of a recording of the same interaction: what the
\* adapters leave out of their fingerprints is not what tells two apart.
\* (Redis arguments with blanks in them are told apart by nothing.)
ReplayIsOfTheSameInteraction ==
    \A c \in Made :
        ReplayedResponse(c) =>
            \E w \in Made : /\ ReplayedFrom(c, w)
                            /\ <<call[w].req, call[c].req>> \in Alike
=============================================================================
