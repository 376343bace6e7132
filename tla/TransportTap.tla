---------------------------- MODULE TransportTap ----------------------------
(***************************************************************************)
(* The transport-level gRPC recorder, go/adapters/grpctransport/record.go  *)
(* with the event layer of demux.go: one HTTP/2 connection wrapped by      *)
(* recordConn.  Read and Write use the socket first and then mirror what   *)
(* they moved into an io.Pipe, which is synchronous: the call returns when *)
(* the decoder goroutine of that direction has taken it.  The decoders     *)
(* feed one streamTracker, event by event, under its mutex, and Close ends *)
(* both.                                                                   *)
(*                                                                         *)
(* A Read or a Write moves one frame, and a frame carries whole gRPC       *)
(* messages (module Demux has the bytes).  A larger Read or Write behaves  *)
(* as several in a row.  Frames that carry nothing for the application     *)
(* (SETTINGS, PING, GOAWAY...) leave the tracker alone and are left out.   *)
(* No scrub hook is installed: messages are recorded as they are.          *)
(***************************************************************************)
EXTENDS RecStream

CONSTANTS
    Ids,            \* HTTP/2 stream ids; all calls are of one gRPC method
    Encodings,      \* grpc-encoding of a header block
    Paths,          \* :path of a request: "grpc" for a method's, or "other"
    Resetters,      \* who may reset a stream: of "client" and "server"
    SaveResults,    \* can SaveStream fail: {TRUE} or {TRUE, FALSE}
    MaxSends,       \* bound: messages the client sends on one stream
    MaxRecvs        \* bound: messages the server sends on one stream

ASSUME TapAssumption ==
    /\ Encodings \subseteq {"identity", "gzip"}
    /\ Paths \subseteq {"grpc", "other"}
    /\ Resetters \subseteq {"client", "server"}
    /\ SaveResults \subseteq BOOLEAN /\ TRUE \in SaveResults
    /\ MaxSends \in Nat /\ MaxRecvs \in Nat

VARIABLES
    sent,           \* per stream: frames Write put on the socket
    replied,        \* per stream: frames Read took from the socket
    mirror,         \* per direction: what the Read or Write under way mirrors
    pipe,           \* per direction: "open", or the error it was closed with
    dec,            \* per direction: the decoder goroutine
    streams,        \* streamTracker.streams
    streamN,        \* the session's occurrence counters, per stream type
    saved,          \* the pairs saved, in order
    firstErr,       \* recordConn.firstErr
    closer,         \* how far Close has come
    returned,       \* history: per stream, frames that Read returned before
                    \* Close was called
    routing,        \* history: per stream, whether its request headers were
                    \* handled first or a server event overtook them
    unsaved         \* history: streams whose Finish failed

vars == <<sent, replied, mirror, pipe, dec, streams, streamN, saved,
          firstErr, closer, returned, routing, unsaved>>

liveVars == <<sent, replied>>

trackerVars == <<streams, streamN, saved, routing, unsaved>>

Directions == {"up", "down"}

(***************************************************************************)
(* Frames and the events next makes of them.  A message may be absent:     *)
(* an event carries a sequence of at most one.                             *)
(***************************************************************************)
Headers(id, path, encoding, status, end) ==
    [id |-> id, kind |-> "headers", path |-> path, encoding |-> encoding,
     status |-> status, end |-> end]

Data(id, msgs, end) == [id |-> id, kind |-> "data", msgs |-> msgs, end |-> end]

Reset(id) == [id |-> id, kind |-> "reset", end |-> TRUE]

Preface == [kind |-> "preface"]

\* Mutant: END_STREAM goes to the first message of the frame.
WireEventsEndFirst(f) ==
    IF f.kind # "data" THEN <<f>>
    ELSE [i \in 1 .. IF f.msgs = << >> THEN 1 ELSE Len(f.msgs) |->
             [id |-> f.id, kind |-> "message",
              message |-> IF f.msgs = << >> THEN << >> ELSE <<f.msgs[i]>>,
              end |-> f.end /\ i = 1]]

\* One event for every message; END_STREAM belongs to the last of them, and
\* has an event of its own when the frame completes no message.
WireEvents(f) ==
    IF f.kind # "data" THEN <<f>>
    ELSE IF f.msgs = << >>
    THEN IF f.end THEN <<[id |-> f.id, kind |-> "message", message |-> << >>,
                          end |-> TRUE]>>
         ELSE << >>
    ELSE [i \in DOMAIN f.msgs |->
             [id |-> f.id, kind |-> "message", message |-> <<f.msgs[i]>>,
              end |-> f.end /\ i = Len(f.msgs)]]

Init ==
    /\ sent = [id \in Ids |-> << >>]
    /\ replied = [id \in Ids |-> << >>]
    /\ mirror = [d \in Directions |-> << >>]
    /\ pipe = [d \in Directions |-> "open"]
    /\ dec = [d \in Directions |->
                 [at |-> IF d = "up" THEN "preface" ELSE "read",
                  queued |-> << >>]]
    /\ streams = [id \in Ids |-> NewRecStream]
    /\ streamN = [t \in StreamTypes |-> 0]
    /\ saved = << >>
    /\ firstErr = "nil"
    /\ closer = "open"
    /\ returned = [id \in Ids |-> 0]
    /\ routing = [id \in Ids |-> "none"]
    /\ unsaved = {}

-----------------------------------------------------------------------------
(***************************************************************************)
(* What the two ends of the connection send.                               *)
(***************************************************************************)
IsData(f) == f.kind = "data"

\* All messages of a sequence of frames, in order.
MessagesIn(frames) ==
    LET after[i \in 0 .. Len(frames)] ==
            IF i = 0 THEN << >>
            ELSE IF IsData(frames[i]) THEN after[i - 1] \o frames[i].msgs
            ELSE after[i - 1]
    IN  after[Len(frames)]

Ended(frames) == \E i \in DOMAIN frames : frames[i].end

WasReset(frames) == \E i \in DOMAIN frames : frames[i].kind = "reset"

\* The next 1 or 2 messages of a direction of a stream, within a bound.
NextMessages(d, id, frames, max) ==
    LET n == Len(MessagesIn(frames)) IN
    {[i \in 1 .. k |-> <<d, id, n + i>>] : k \in {k \in 1 .. 2 : n + k <= max}}

Resets(who, id) == IF who \in Resetters THEN {Reset(id)} ELSE {}

\* A client opens a stream with its headers, which have a path that is not
\* a gRPC method on some other use of the connection, sends messages, closes
\* its side with the last of them or after it, and may reset the stream.
ClientFrames(id) ==
    IF sent[id] = << >>
    THEN {Headers(id, "grpc", "identity", "none", end) : end \in BOOLEAN}
         \cup {Headers(id, "grpc", encoding, "none", FALSE) :
                  encoding \in Encodings}
         \cup {Headers(id, path, "identity", "none", FALSE) :
                  path \in Paths}
    ELSE (IF Ended(sent[id]) THEN {}
          ELSE {Data(id, msgs, FALSE) :
                   msgs \in NextMessages("up", id, sent[id], MaxSends)}
               \cup {Data(id, msgs, TRUE) : msgs \in {<< >>} \cup
                        NextMessages("up", id, sent[id], MaxSends)})
         \cup (IF WasReset(sent[id]) THEN {} ELSE Resets("client", id))

\* A server answers a stream it has the headers of: headers, messages and
\* trailers, or trailers alone; it may reset a stream it has ended.
ServerFrames(id) ==
    IF sent[id] = << >> \/ WasReset(replied[id]) THEN {}
    ELSE IF replied[id] = << >>
    THEN {Headers(id, "none", encoding, "none", FALSE) :
             encoding \in Encodings \cup {"identity"}}
         \cup {Headers(id, "none", "identity", "error", TRUE)}
         \cup Resets("server", id)
    ELSE Resets("server", id) \cup
         IF Ended(replied[id]) THEN {}
         ELSE {Headers(id, "none", "identity", "OK", TRUE)} \cup
              {Data(id, msgs, FALSE) :
                  msgs \in NextMessages("down", id, replied[id], MaxRecvs)}

-----------------------------------------------------------------------------
(***************************************************************************)
(* recordConn.Read and recordConn.Write: the socket, then the pipe.        *)
(***************************************************************************)
WritePreface ==
    /\ closer = "open"
    /\ dec["up"].at = "preface" /\ mirror["up"] = << >>
    /\ mirror' = [mirror EXCEPT !["up"] = <<Preface>>]
    /\ UNCHANGED <<liveVars, pipe, dec, trackerVars, firstErr, closer,
                   returned>>

Write(f) ==
    /\ closer = "open"
    /\ dec["up"].at # "preface" /\ mirror["up"] = << >>
    /\ f \in ClientFrames(f.id)
    /\ sent' = [sent EXCEPT ![f.id] = Append(@, f)]
    /\ mirror' = [mirror EXCEPT !["up"] = <<f>>]
    /\ UNCHANGED <<replied, pipe, dec, trackerVars, firstErr, closer,
                   returned>>

Read(f) ==
    /\ closer = "open" /\ pipe["down"] = "open"
    /\ mirror["down"] = << >>
    /\ f \in ServerFrames(f.id)
    /\ replied' = [replied EXCEPT ![f.id] = Append(@, f)]
    /\ mirror' = [mirror EXCEPT !["down"] = <<f>>]
    /\ UNCHANGED <<sent, pipe, dec, trackerVars, firstErr, closer,
                   returned>>

\* A Read that fails passes its error to the decoder: EOF when the server
\* has hung up, or another one ("failed"), of the network or, after Close,
\* "use of closed network connection".  A pipe keeps the first error it is
\* closed with.
ReadFails ==
    /\ mirror["down"] = << >>
    /\ pipe["down"] = "open"
    /\ \E err \in IF closer = "open" THEN {"EOF", "failed"} ELSE {"failed"} :
          pipe' = [pipe EXCEPT !["down"] = err]
    /\ UNCHANGED <<liveVars, mirror, dec, trackerVars, firstErr, closer,
                   returned>>

\* A mirror write into a closed pipe fails, and the caller does not care.
MirrorFails(d) ==
    /\ mirror[d] # << >>
    /\ pipe[d] # "open"
    /\ mirror' = [mirror EXCEPT ![d] = << >>]
    /\ UNCHANGED <<liveVars, pipe, dec, trackerVars, firstErr, closer,
                   returned>>

-----------------------------------------------------------------------------
(***************************************************************************)
(* The tracker.                                                            *)
(***************************************************************************)

\* Mutant: a finished stream stays in the map.
FinishKeepsStream(id, s, failed) ==
    LET typ == InferStreamType(s) IN
    /\ s.service /\ ~s.compressed
    /\ saved' = Append(saved, [id |-> id, typ |-> typ, n |-> streamN[typ],
                               pair |-> PairOfEvents(s, failed)])
    /\ UNCHANGED <<streams, streamN, unsaved>>

\* finish.  The occurrence counter is consumed here, by OpenStreamRecord, and
\* the error of Finish is dropped.
Finish(id, s, failed) ==
    LET typ == InferStreamType(s)
        n == IF typ = "server" THEN -1 ELSE streamN[typ]
        pair == PairOfEvents(s, failed)
    IN
    /\ streams' = [streams EXCEPT ![id] = NewRecStream]
    /\ IF ~s.service \/ s.compressed
       THEN UNCHANGED <<streamN, saved, unsaved>>
       ELSE /\ streamN' = IF typ = "server" THEN streamN
                          ELSE [streamN EXCEPT ![typ] = n + 1]
            /\ \E ok \in SaveResults :
                  IF ok /\ ValidateStreamPair(pair)
                  THEN /\ saved' = Append(saved, [id |-> id, typ |-> typ,
                                                 n |-> n, pair |-> pair])
                       /\ UNCHANGED unsaved
                  ELSE /\ unsaved' = unsaved \cup {id}
                       /\ UNCHANGED saved

Noted(id, s) ==
    /\ streams' = [streams EXCEPT ![id] = s]
    /\ UNCHANGED <<streamN, saved, unsaved>>

Compressed(ev) == ev.encoding # "identity"

\* handle for one event of a direction.
RequestHeaders(ev, s) ==
    IF ev.path = "other" THEN Noted(ev.id, s)
    ELSE IF Compressed(ev)
    THEN Noted(ev.id, [s EXCEPT !.service = TRUE, !.compressed = TRUE])
    ELSE LET routed == [s EXCEPT !.service = TRUE] IN
         Noted(ev.id, IF ev.end THEN NoteHalfClose(routed) ELSE routed)

ClientMessage(ev, s) ==
    LET with == IF ev.message = << >> THEN s
                ELSE [s EXCEPT !.sends = @ \o ev.message,
                               !.events = Append(@, <<"send", ev.message[1]>>)]
    IN  Noted(ev.id, IF ~s.service THEN s
                     ELSE IF ev.end THEN NoteHalfClose(with) ELSE with)

ResponseHeaders(ev, s) ==
    IF ~s.service \/ Compressed(ev) \/ ev.status = "none" THEN Noted(ev.id, s)
    ELSE Finish(ev.id, s, ev.status # "OK")

\* Mutant: one recording for the connection instead of one for the stream.
ServerMessageShared(ev, s) ==
    /\ streams' = [id \in Ids |->
                      IF ~streams[id].service THEN streams[id]
                      ELSE [streams[id] EXCEPT
                               !.recvCount = @ + 1,
                               !.events = Append(@, <<"recv", ev.message[1]>>)]]
    /\ UNCHANGED <<streamN, saved, unsaved>>

ServerMessage(ev, s) ==
    Noted(ev.id, IF ~s.service \/ ev.message = << >> THEN s
                 ELSE [s EXCEPT !.recvCount = @ + 1,
                                !.events = Append(@, <<"recv", ev.message[1]>>)])

\* The errors of handle: a compressed request or, on a stream the tracker
\* follows, a compressed response.
Refused(d, ev, s) ==
    /\ ev.kind = "headers" /\ Compressed(ev)
    /\ IF d = "up" THEN ev.path = "grpc" ELSE s.service

(***************************************************************************)
(* The decoder goroutine of a direction.                                   *)
(***************************************************************************)
NoteErr(err) == firstErr' = IF firstErr = "nil" THEN err ELSE firstErr

\* A frame goes through the pipe, and the Read or Write returns.
TakeFrame(d) ==
    /\ pipe[d] = "open" /\ mirror[d] # << >>
    /\ dec[d].at # "gone" /\ dec[d].queued = << >>
    /\ mirror' = [mirror EXCEPT ![d] = << >>]
    /\ dec' = [dec EXCEPT ![d] =
                  [at |-> "read",
                   queued |-> IF dec[d].at = "preface" THEN << >>
                              ELSE WireEvents(mirror[d][1])]]
    /\ returned' = IF d = "down" /\ closer = "open"
                   THEN [returned EXCEPT ![mirror[d][1].id] = @ + 1]
                   ELSE returned
    /\ UNCHANGED <<liveVars, pipe, trackerVars, firstErr, closer>>

\* Mutant: server events wait for the request headers.
HandleInOrder(d) ==
    LET ev == Head(dec[d].queued)
        s == streams[ev.id]
    IN
    /\ dec[d].queued # << >>
    /\ d = "down" => s.service
    /\ IF d = "up" /\ ev.kind = "headers" THEN RequestHeaders(ev, s)
       ELSE Noted(ev.id, s)
    /\ dec' = [dec EXCEPT ![d].queued = Tail(@)]
    /\ UNCHANGED <<liveVars, mirror, pipe, routing, firstErr, closer, returned>>

\* Mutant: the error of handle ends the decoder and is not noted.
HandleUnnoted(d) ==
    LET ev == Head(dec[d].queued)
        s == streams[ev.id]
    IN
    /\ dec[d].queued # << >>
    /\ IF ev.kind = "reset" THEN Finish(ev.id, s, TRUE)
       ELSE IF ev.kind = "headers"
       THEN IF d = "up" THEN RequestHeaders(ev, s) ELSE ResponseHeaders(ev, s)
       ELSE IF d = "up" THEN ClientMessage(ev, s) ELSE ServerMessage(ev, s)
    /\ routing' = IF routing[ev.id] # "none" THEN routing
                  ELSE [routing EXCEPT ![ev.id] =
                           IF d = "up" THEN "first" ELSE "overtaken"]
    /\ dec' = [dec EXCEPT ![d] = IF Refused(d, ev, s)
                                 THEN [at |-> "gone", queued |-> << >>]
                                 ELSE [@ EXCEPT !.queued = Tail(@)]]
    /\ UNCHANGED <<liveVars, mirror, pipe, firstErr, closer, returned>>

Handle(d) ==
    LET ev == Head(dec[d].queued)
        s == streams[ev.id]
    IN
    /\ dec[d].queued # << >>
    /\ IF ev.kind = "reset" THEN Finish(ev.id, s, TRUE)
       ELSE IF ev.kind = "headers"
       THEN IF d = "up" THEN RequestHeaders(ev, s) ELSE ResponseHeaders(ev, s)
       ELSE IF d = "up" THEN ClientMessage(ev, s) ELSE ServerMessage(ev, s)
    /\ routing' = IF routing[ev.id] # "none" THEN routing
                  ELSE [routing EXCEPT ![ev.id] =
                           IF d = "up" THEN "first" ELSE "overtaken"]
    /\ IF Refused(d, ev, s)
       THEN /\ dec' = [dec EXCEPT ![d] = [at |-> "gone", queued |-> << >>]]
            /\ NoteErr("refused")
       ELSE /\ dec' = [dec EXCEPT ![d].queued = Tail(@)]
            /\ UNCHANGED firstErr
    /\ UNCHANGED <<liveVars, mirror, pipe, closer, returned>>

\* The pipe is at its end.  An error other than EOF is noted, unless it
\* comes before the preface.
DecoderEnds(d) ==
    /\ pipe[d] # "open"
    /\ dec[d].at # "gone" /\ dec[d].queued = << >>
    /\ dec' = [dec EXCEPT ![d].at = "gone"]
    /\ IF pipe[d] = "EOF" \/ dec[d].at = "preface" THEN UNCHANGED firstErr
       ELSE NoteErr(pipe[d])
    /\ UNCHANGED <<liveVars, mirror, pipe, trackerVars, closer, returned>>

(***************************************************************************)
(* recordConn.Close: the socket, then the pipes, then the decoders.  A     *)
(* second call returns at once and is left out.                            *)
(***************************************************************************)
Close ==
    /\ closer = "open"
    /\ closer' = "conn"
    /\ UNCHANGED <<liveVars, mirror, pipe, dec, trackerVars, firstErr,
                   returned>>

\* Mutant: only one of the pipes is closed.
ClosePipesOne ==
    /\ closer = "conn"
    /\ closer' = "pipes"
    /\ pipe' = [pipe EXCEPT !["down"] = IF @ = "open" THEN "EOF" ELSE @]
    /\ UNCHANGED <<liveVars, mirror, dec, trackerVars, firstErr, returned>>

ClosePipes ==
    /\ closer = "conn"
    /\ closer' = "pipes"
    /\ pipe' = [d \in Directions |-> IF pipe[d] = "open" THEN "EOF"
                                     ELSE pipe[d]]
    /\ UNCHANGED <<liveVars, mirror, dec, trackerVars, firstErr, returned>>

\* Mutant: Close does not wait for the decoders.
CloseReturnsEarly ==
    /\ closer = "pipes"
    /\ closer' = "done"
    /\ UNCHANGED <<liveVars, mirror, pipe, dec, trackerVars, firstErr,
                   returned>>

\* wg.Wait, abandonAll; Close returns firstErr.
CloseReturns ==
    /\ closer = "pipes"
    /\ \A d \in Directions : dec[d].at = "gone"
    /\ closer' = "done"
    /\ streams' = [id \in Ids |-> NewRecStream]
    /\ UNCHANGED <<liveVars, mirror, pipe, dec, streamN, saved, routing,
                   unsaved, firstErr, returned>>

-----------------------------------------------------------------------------
DecoderStep(d) == TakeFrame(d) \/ Handle(d) \/ DecoderEnds(d)

Next ==
    \/ WritePreface
    \/ \E id \in Ids : \E f \in ClientFrames(id) : Write(f)
    \/ \E id \in Ids : \E f \in ServerFrames(id) : Read(f)
    \/ ReadFails
    \/ \E d \in Directions : MirrorFails(d) \/ DecoderStep(d)
    \/ Close
    \/ ClosePipes
    \/ CloseReturns

Spec == Init /\ [][Next]_vars

\* Goroutines of the tap that can run do.  Nothing is assumed of the client,
\* of the server, or of Close ever being called.
FairSpec ==
    /\ Spec
    /\ \A d \in Directions : WF_vars(DecoderStep(d)) /\ WF_vars(MirrorFails(d))
    /\ WF_vars(ClosePipes \/ CloseReturns)

-----------------------------------------------------------------------------
(***************************************************************************)
(* Properties.                                                             *)
(***************************************************************************)

MessagesOf(frames) == [i \in DOMAIN frames |-> frames[i].message]

IsSegmentOf(part, whole) ==
    \E k \in 0 .. Len(whole) - Len(part) :
        part = SubSeq(whole, k + 1, k + Len(part))

\* Whatever the two decoders, the multiplexing of streams and Close do to
\* each other, a saved pair is of one gRPC call: its sends are the first ones
\* the client sent on that stream, all of them and all before the half-close
\* when there is one, and its recvs are consecutive messages of the server.
SavedPairIsOneCall ==
    \A i \in DOMAIN saved :
        LET s == saved[i]
            out == MessagesIn(sent[s.id])
            sends == MessagesOf(s.pair.sends)
        IN
        /\ sent[s.id][1].path = "grpc" /\ sent[s.id][1].encoding = "identity"
        /\ sends = SubSeq(out, 1, Len(sends))
        /\ IsSegmentOf(MessagesOf(s.pair.recvs), MessagesIn(replied[s.id]))
        /\ s.pair.halfClose # {} =>
               /\ \E k \in DOMAIN sent[s.id] :
                      sent[s.id][k].end /\ sent[s.id][k].kind # "reset"
               /\ sends = out
               /\ \A q \in s.pair.halfClose, j \in DOMAIN s.pair.sends :
                      s.pair.sends[j].seq < q

\* A stream leaves at most one pair behind, although trailers, a reset by
\* the client and a reset by the server can all end it, in any order.
OnePairPerStream ==
    \A i, j \in DOMAIN saved : saved[i].id = saved[j].id => i = j

\* The client has read the trailers of a gRPC call before it closed the
\* connection.
ReadTrailers(id) ==
    /\ sent[id] # << >> /\ sent[id][1].path = "grpc"
    /\ \E i \in 1 .. returned[id] :
           replied[id][i].kind = "headers" /\ replied[id][i].status # "none"

Saved(id) == {saved[i].pair : i \in {i \in DOMAIN saved : saved[i].id = id}}

\* When Close returns no error, a call that the client neither reset nor
\* found unsaved, and whose headers the tracker saw first, is recorded with
\* every message the server sent: no frame is lost between the socket, the
\* pipe and the tracker, even when Close comes while they are in use.
CleanCloseIsComplete ==
    closer = "done" /\ firstErr = "nil" =>
        \A id \in Ids \ unsaved :
            ReadTrailers(id) /\ routing[id] = "first" /\ ~WasReset(sent[id]) =>
                \E p \in Saved(id) :
                    MessagesOf(p.recvs) = MessagesIn(replied[id])

\* Once Close has returned nothing more is written to the cassettes.
QuietAfterClose == [][closer = "done" => saved' = saved]_saved

\* Close returns, and takes every Read and Write out of its mirror write.
CloseReleases ==
    closer # "open" ~>
        (closer = "done" /\ \A d \in Directions : mirror[d] = << >>)

\* The live path gets ahead as long as its decoder lives: neither direction
\* ever waits for the other, or for the client to close.
MirrorIsTaken ==
    \A d \in Directions :
        mirror[d] # << >> ~> (mirror[d] = << >> \/ dec[d].at = "gone")

\* "The tap is passive. It never alters, delays, reorders, or withholds a
\* byte": a Read or Write that is done with the socket returns.
TapIsPassive ==
    \A d \in Directions : mirror[d] # << >> ~> mirror[d] = << >>
=============================================================================
