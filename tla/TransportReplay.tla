--------------------------- MODULE TransportReplay ---------------------------
(***************************************************************************)
(* The transport-level replay of go/adapters/grpctransport/replay.go: the  *)
(* dialer hands the gRPC client an in-memory connection whose far side is  *)
(* a replayConn, one goroutine per connection that reads HTTP/2 frames and *)
(* answers calls from the cassettes that the tap saved.  All connections   *)
(* share one replay session, hence its occurrence counters, while each has *)
(* counters of its own, probeN, to ask which cassette the next open would  *)
(* find.                                                                   *)
(*                                                                         *)
(* The client is external: an application on an unmodified gRPC stack that *)
(* repeats the calls of the recording, or strays from them.  A frame       *)
(* carries whole messages (module Demux has the bytes).  SETTINGS, PING    *)
(* and window updates concern no call and are left out, and writes never   *)
(* block: the client stack always reads.                                   *)
(***************************************************************************)
EXTENDS RecStream, StreamHandle, FiniteSets

CONSTANTS
    Conns,          \* connections the client may dial
    Routes,         \* the connections each call may be made on
    NumCalls,       \* how many calls were recorded, all of one gRPC method
    Recordings,     \* what they may have been, call by call
    Messages,       \* messages
    TooBig,         \* messages over the decoder's cap
    NoMsg, NoConn,  \* nil
    Damages,        \* what may have happened to one cassette since
    Wayward,        \* calls that may have a bad :path or send other messages
    Stray,          \* the other messages
    Impatient,      \* calls that may be cancelled
    Flaky           \* connections that may be closed

ASSUME ReplayAssumption ==
    /\ NumCalls \in Nat \ {0}
    /\ \A rec \in Recordings :
          /\ DOMAIN rec = 1 .. NumCalls
          /\ \A c \in 1 .. NumCalls : \A i \in DOMAIN rec[c].events :
                rec[c].events[i][1] = "send" => rec[c].events[i][2] \in Messages
    /\ Stray \subseteq Messages /\ TooBig \subseteq Messages
    /\ NoMsg \notin Messages /\ NoConn \notin Conns
    /\ Damages \subseteq {"none", "lost", "truncated", "unary"}
    /\ Wayward \cup Impatient \subseteq 1 .. NumCalls
    /\ Routes \in [1 .. NumCalls -> SUBSET Conns] /\ Flaky \subseteq Conns
    /\ IsFiniteSet(Conns)

Calls == 1 .. NumCalls

CounterTypes == {"client", "bidi"}

\* No frame hook is installed.
NoScrub == [m \in Messages |-> m]

VARIABLES
    recording,  \* the calls that were recorded, in the order they ended
    cassettes,  \* the directory: key -> the two files and the status code
    damage,     \* history: what has happened to which of them
    up,         \* per connection: frames sent and not yet read by serve
    alive,      \* per connection: is it open
    rstreams,   \* replayConn.streams, of all connections
    probeN,     \* per connection: replayConn.probeN
    busy,       \* per connection: the stream advance is opening
    streamN,    \* the session's occurrence counters
    calls,      \* the calls of the client
    reply,      \* what the client received of each
    served,     \* history: the key each call was served from
    overlapped  \* history: was a call begun while another was under way

vars == <<recording, cassettes, damage, up, alive, rstreams, probeN, busy,
          streamN, calls, reply, served, overlapped>>

recorded == <<recording, cassettes, damage>>

serverVars == <<rstreams, probeN, busy, streamN, reply, served>>

-----------------------------------------------------------------------------
(***************************************************************************)
(* The cassettes of a recording.                                           *)
(***************************************************************************)
OfKind(events, kind) ==
    LET Is(e) == e[1] = kind
        chosen == SelectSeq(events, Is)
    IN  [i \in DOMAIN chosen |-> chosen[i][2]]

\* What the tracker has noted of a call when its terminal arrives.
RecStreamOf(events) ==
    LET closed == OfKind(events, "half_close") # << >> IN
    [service |-> TRUE, compressed |-> FALSE, events |-> events,
     sends |-> OfKind(events, "send"),
     recvCount |-> Len(OfKind(events, "recv")), sawHalfClose |-> closed,
     halfCloseAfterFirstSend |-> closed /\ Len(OfKind(events, "send")) = 1]

TypeOf(conversation) == InferStreamType(RecStreamOf(conversation.events))

\* streamOpenFor and the fingerprint of what it returns: server streams are
\* addressed by their first message, the others by their occurrence number.
StreamOpenFor(typ, n, openMsg) ==
    IF typ = "server" THEN [typ |-> typ, n |-> -1, msg |-> openMsg]
    ELSE [typ |-> typ, n |-> n, msg |-> NoMsg]

FirstOrNil(msgs) == IF msgs = << >> THEN NoMsg ELSE msgs[1]

KeyOf(rec, c) ==
    LET typ == TypeOf(rec[c]) IN
    StreamOpenFor(typ, Cardinality({d \in 1 .. c - 1 : TypeOf(rec[d]) = typ}),
                  FirstOrNil(OfKind(rec[c].events, "send")))

\* A server stream recorded again under the same message replaces the first.
Saved(rec) ==
    [key \in {KeyOf(rec, c) : c \in Calls} |->
        LET last == CHOOSE c \in Calls :
                        /\ KeyOf(rec, c) = key
                        /\ \A d \in c + 1 .. NumCalls : KeyOf(rec, d) # key
            pair == PairOfEvents(RecStreamOf(rec[last].events),
                                 rec[last].status # "OK")
        IN  [req |-> ReqFile(pair), resp |-> RespFile(pair),
             code |-> rec[last].status]]

\* Since then the second file of a pair may have been lost or cut short, or
\* a unary pair may have taken its place.
Damaged(pairs, key, how) ==
    IF how = "none" THEN pairs
    ELSE [pairs EXCEPT ![key] =
             [req |-> IF how = "unary" THEN UnaryFile ELSE pairs[key].req,
              resp |-> IF how = "lost" THEN Absent
                       ELSE IF how = "truncated" THEN Truncated ELSE UnaryFile,
              code |-> pairs[key].code]]

-----------------------------------------------------------------------------
Unknown == [known |-> FALSE, buffered |-> << >>, opened |-> FALSE]

Fresh == [known |-> TRUE, buffered |-> << >>, opened |-> FALSE]

NoCall == [at |-> "idle", conn |-> NoConn, pos |-> 1,
           faithful |-> TRUE, halfClosed |-> FALSE]

NoReply == [status |-> "none", msgs |-> << >>]

Reading == [call |-> 0, typ |-> "none", msgs |-> << >>, halfClosed |-> FALSE]

NotServed == [typ |-> "none", n |-> -1, msg |-> NoMsg]

Init ==
    /\ recording \in Recordings
    /\ \E c \in Calls, how \in Damages :
          /\ how = "none" => c = 1
          /\ damage = [key |-> KeyOf(recording, c), how |-> how]
          /\ cassettes = Damaged(Saved(recording), damage.key, how)
    /\ up = [k \in Conns |-> << >>]
    /\ alive = [k \in Conns |-> TRUE]
    /\ rstreams = [c \in Calls |-> Unknown]
    /\ probeN = [k \in Conns |-> [t \in CounterTypes |-> 0]]
    /\ busy = [k \in Conns |-> Reading]
    /\ streamN = [t \in CounterTypes |-> 0]
    /\ calls = [c \in Calls |-> NoCall]
    /\ reply = [c \in Calls |-> NoReply]
    /\ served = [c \in Calls |-> NotServed]
    /\ overlapped = FALSE

-----------------------------------------------------------------------------
(***************************************************************************)
(* The client.  It begins its calls in the recorded order, on any          *)
(* connection, and takes the events of each in the recorded order: a       *)
(* receive waits for the reply, a half-close may travel with the message   *)
(* before it.  A send after the server has ended the stream may be told    *)
(* so, and the client then reads what there is.                            *)
(***************************************************************************)
Frame(c, kind, msgs, end) ==
    [call |-> c, kind |-> kind, msgs |-> msgs, end |-> end, path |-> TRUE]

SendFrame(k, frame) == up' = [up EXCEPT ![k] = Append(@, frame)]

EventsOf(c) == recording[c].events

IsEvent(c, i, kind) == i \in DOMAIN EventsOf(c) /\ EventsOf(c)[i][1] = kind

Open(c) == calls[c].at = "open"

\* The request headers; they carry END_STREAM when there is nothing to send.
Begin(c, k) ==
    \E end \in {FALSE, IsEvent(c, 1, "half_close")}, path \in {TRUE, c \notin Wayward} :
        /\ calls[c].at = "idle" /\ alive[k]
        /\ \A d \in 1 .. c - 1 : calls[d].at # "idle"
        /\ calls' = [calls EXCEPT ![c] =
                        [at |-> "open", conn |-> k, pos |-> IF end THEN 2 ELSE 1,
                         faithful |-> path, halfClosed |-> end]]
        /\ overlapped' = (overlapped \/ \E d \in Calls : Open(d))
        /\ SendFrame(k, [Frame(c, "headers", << >>, end) EXCEPT !.path = path])
        /\ UNCHANGED <<recorded, alive, serverVars>>

ClientSend(c) ==
    LET i == calls[c].pos IN
    /\ Open(c) /\ IsEvent(c, i, "send")
    /\ \E message \in {EventsOf(c)[i][2]} \cup
                        (IF c \in Wayward THEN Stray ELSE {}),
          end \in {FALSE, IsEvent(c, i + 1, "half_close")} :
          /\ calls' = [calls EXCEPT
                          ![c].pos = IF end THEN i + 2 ELSE i + 1,
                          ![c].faithful = @ /\ message = EventsOf(c)[i][2],
                          ![c].halfClosed = end]
          /\ SendFrame(calls[c].conn, Frame(c, "data", <<message>>, end))
    /\ UNCHANGED <<recorded, alive, serverVars, overlapped>>

ClientClose(c) ==
    /\ Open(c) /\ IsEvent(c, calls[c].pos, "half_close")
    /\ calls' = [calls EXCEPT ![c].pos = @ + 1, ![c].halfClosed = TRUE]
    /\ SendFrame(calls[c].conn, Frame(c, "data", << >>, TRUE))
    /\ UNCHANGED <<recorded, alive, serverVars, overlapped>>

ClientRecv(c) ==
    /\ Open(c) /\ IsEvent(c, calls[c].pos, "recv")
    /\ reply[c] # NoReply
    /\ calls' = [calls EXCEPT ![c].pos = @ + 1]
    /\ UNCHANGED <<recorded, up, alive, serverVars, overlapped>>

\* Everything was sent and read, or a send has returned io.EOF.
ClientEnds(c) ==
    /\ Open(c) /\ reply[c] # NoReply
    /\ \/ calls[c].pos > Len(EventsOf(c))
       \/ IsEvent(c, calls[c].pos, "send")
    /\ calls' = [calls EXCEPT ![c].at = "done"]
    /\ UNCHANGED <<recorded, up, alive, serverVars, overlapped>>

Cancel(c) ==
    /\ c \in Impatient /\ Open(c)
    /\ calls' = [calls EXCEPT ![c].at = "cancelled"]
    /\ SendFrame(calls[c].conn, Frame(c, "reset", << >>, TRUE))
    /\ UNCHANGED <<recorded, alive, serverVars, overlapped>>

\* GOAWAY, or the connection closed: serve returns at its next read.
HangUp(k) ==
    /\ k \in Flaky /\ alive[k]
    /\ alive' = [alive EXCEPT ![k] = FALSE]
    /\ up' = [up EXCEPT ![k] = << >>]
    /\ calls' = [c \in Calls |-> IF Open(c) /\ calls[c].conn = k
                                 THEN [calls[c] EXCEPT !.at = "cancelled"]
                                 ELSE calls[c]]
    /\ UNCHANGED <<recorded, serverVars, overlapped>>

-----------------------------------------------------------------------------
(***************************************************************************)
(* replayConn.                                                             *)
(***************************************************************************)
FilesOf(key) == IF key \in DOMAIN cassettes THEN cassettes[key]
                ELSE [req |-> Absent, resp |-> Absent, code |-> "OK"]

\* Are both files there for what the next open on this connection asks for?
CassetteExists(k, typ, openMsg) ==
    LET n == IF typ \in CounterTypes THEN probeN[k][typ] ELSE -1
        files == FilesOf(StreamOpenFor(typ, n, openMsg))
    IN  files.req # Absent /\ files.resp # Absent

\* Mutant: nothing is served before the half-close.
InferReplayTypeAtHalfClose(k, buffered, halfClosed) ==
    IF ~halfClosed THEN "wait"
    ELSE IF Len(buffered) = 1 /\ CassetteExists(k, "server", FirstOrNil(buffered))
    THEN "server"
    ELSE IF CassetteExists(k, "client", NoMsg) THEN "client" ELSE "bidi"

\* The stream type the evidence so far points to, or "wait".
InferReplayType(k, buffered, halfClosed) ==
    LET n == Len(buffered)
        openMsg == FirstOrNil(buffered)
    IN
    IF halfClosed
    THEN IF n = 1 /\ CassetteExists(k, "server", openMsg) THEN "server"
         ELSE IF CassetteExists(k, "client", NoMsg) THEN "client"
         ELSE "bidi"
    ELSE IF n = 0 THEN "wait"
    ELSE IF CassetteExists(k, "bidi", NoMsg) THEN "bidi"
    ELSE IF CassetteExists(k, "server", openMsg) THEN "server"
    ELSE "wait"

\* Mutant: the probe counters follow every open, addressed by count or not.
CountProbeAlways(k, typ) == [probeN EXCEPT ![k] = [t \in CounterTypes |-> @[t] + 1]]

\* probeN after an open of this type.
CountProbe(k, typ) ==
    IF typ \in CounterTypes THEN [probeN EXCEPT ![k][typ] = @ + 1] ELSE probeN

\* The second result of inferReplayType.
Resolved(typ) == typ # "wait"

\* advance on a stream with these messages buffered, up to the open.  The
\* branches for a stream that is opened or done already are never taken: Serve
\* forgets the stream before the next frame is read, by the same goroutine.
Advance(k, c, buffered, halfClosed) ==
    LET typ == InferReplayType(k, buffered, halfClosed) IN
    /\ IF Resolved(typ)
       THEN /\ rstreams' = [rstreams EXCEPT ![c] = [Fresh EXCEPT !.opened = TRUE]]
            /\ busy' = [busy EXCEPT ![k] = [call |-> c, typ |-> typ,
                               msgs |-> buffered, halfClosed |-> halfClosed]]
            /\ probeN' = CountProbe(k, typ)
       ELSE /\ rstreams' = [rstreams EXCEPT ![c] = [Fresh EXCEPT !.buffered = buffered]]
            /\ UNCHANGED <<probeN, busy>>
    /\ UNCHANGED <<streamN, reply, served>>

Answer(k, c, status, msgs) ==
    reply' = IF alive[k] THEN [reply EXCEPT ![c] = [status |-> status,
                                                    msgs |-> msgs]]
             ELSE reply

\* writeTrailersOnly, from the frame loop.
WriteTrailersOnly(k, c, code) ==
    /\ Answer(k, c, code, << >>)
    /\ rstreams' = [rstreams EXCEPT ![c] = Unknown]
    /\ UNCHANGED <<probeN, busy, streamN, served>>

OnHeaders(k, f) ==
    /\ f.kind = "headers"
    /\ IF ~f.path THEN WriteTrailersOnly(k, f.call, "Unimplemented")
       ELSE IF f.end THEN Advance(k, f.call, << >>, TRUE)
       ELSE /\ rstreams' = [rstreams EXCEPT ![f.call] = Fresh]
            /\ UNCHANGED <<probeN, busy, streamN, reply, served>>

\* Mutant: data of a stream that is not in the map begins a new one.
OnDataOfAnyStream(k, f) ==
    /\ f.kind = "data"
    /\ IF \E i \in DOMAIN f.msgs : f.msgs[i] \in TooBig
       THEN WriteTrailersOnly(k, f.call, "Internal")
       ELSE Advance(k, f.call, rstreams[f.call].buffered \o f.msgs, f.end)

OnData(k, f) ==
    /\ f.kind = "data"
    /\ IF ~rstreams[f.call].known THEN UNCHANGED serverVars
       ELSE IF \E i \in DOMAIN f.msgs : f.msgs[i] \in TooBig
       THEN WriteTrailersOnly(k, f.call, "Internal")
       ELSE Advance(k, f.call, rstreams[f.call].buffered \o f.msgs, f.end)

OnReset(f) ==
    /\ f.kind = "reset"
    /\ rstreams' = [rstreams EXCEPT ![f.call] = Unknown]
    /\ UNCHANGED <<probeN, busy, streamN, reply, served>>

\* One turn of the loop of serve: a frame is read and handled.
HandleFrame(k) ==
    /\ busy[k] = Reading /\ up[k] # << >>
    /\ up' = [up EXCEPT ![k] = Tail(@)]
    /\ LET f == Head(up[k]) IN OnHeaders(k, f) \/ OnData(k, f) \/ OnReset(f)
    /\ UNCHANGED <<recorded, alive, calls, overlapped>>

\* The replay handle after the buffered sends and, maybe, the half-close.
\* The loop of advance stops at the first send that is refused; what the
\* later ones would return is the same refusal.
Validated(pair, msgs, halfClosed) ==
    LET after[i \in 0 .. Len(msgs)] ==
            IF i = 0 THEN NewReplay(pair)
            ELSE Send(after[i - 1], NoScrub, msgs[i])
    IN  IF halfClosed THEN HalfClose(after[Len(msgs)]) ELSE after[Len(msgs)]

\* Mutant: the recorded code of a failed call is not read back.
TerminalOfUnknown(rp, code) ==
    IF TerminalErr(rp) = "eof" THEN "OK" ELSE "Unknown"

\* terminalOf.
TerminalOf(rp, code) ==
    IF TerminalErr(rp) = "eof" THEN "OK"
    ELSE IF code = "OK" THEN "Unknown" ELSE code

\* finishStream and writeTrailersOnly delete the stream.
Forget(c) == rstreams' = [rstreams EXCEPT ![c] = Unknown]

\* Mutant: the open asks for the number the probe found.
OpenNumberOfProbe(k, typ) == probeN[k][typ] - 1

\* nextStreamN of the session: the number this open takes.
OpenNumber(k, typ) == streamN[typ]

\* OpenStreamReplay, which counts, hit or miss, and what becomes of it: an
\* error, a mismatch, or deliver with everything that was recorded.
Serve(k) ==
    LET now == busy[k]
        n == IF now.typ \in CounterTypes THEN OpenNumber(k, now.typ) ELSE -1
        key == StreamOpenFor(now.typ, n, FirstOrNil(now.msgs))
        files == FilesOf(key)
        verdict == LoadStream(files.req, files.resp)
    IN
    /\ now # Reading
    /\ streamN' = IF now.typ \in CounterTypes
                  THEN [streamN EXCEPT ![now.typ] = @ + 1] ELSE streamN
    /\ IF verdict # "ok"
       THEN /\ Answer(k, now.call, IF verdict = "shape" THEN "FailedPrecondition"
                                 ELSE "NotFound", << >>)
            /\ UNCHANGED served
       ELSE LET pair == PairOf(files.req, files.resp)
                rp == Validated(pair, now.msgs, now.halfClosed)
            IN  /\ IF rp.mismatch # "none"
                   THEN Answer(k, now.call, "FailedPrecondition", << >>)
                   ELSE Answer(k, now.call, TerminalOf(rp, files.code),
                               [i \in DOMAIN pair.recvs |-> pair.recvs[i].message])
                /\ served' = [served EXCEPT ![now.call] = key]
    /\ Forget(now.call)
    /\ busy' = [busy EXCEPT ![k] = Reading]
    /\ UNCHANGED <<recorded, up, alive, probeN, calls, overlapped>>

-----------------------------------------------------------------------------
ClientStep(c) == ClientSend(c) \/ ClientClose(c) \/ ClientRecv(c) \/ ClientEnds(c)

ServerStep(k) == HandleFrame(k) \/ Serve(k)

Next ==
    \/ \E c \in Calls : \/ \E k \in Routes[c] : Begin(c, k)
                        \/ ClientStep(c)
                        \/ Cancel(c)
    \/ \E k \in Conns : ServerStep(k) \/ HangUp(k)

Spec == Init /\ [][Next]_vars

\* serve is a goroutine that runs while there are frames, and a client goes
\* on with its calls unless it waits for a reply.
Fairness ==
    /\ \A k \in Conns : WF_vars(ServerStep(k))
    /\ \A c \in Calls : WF_vars(ClientStep(c))

FairSpec == Spec /\ Fairness

-----------------------------------------------------------------------------
(***************************************************************************)
(* Properties.                                                             *)
(***************************************************************************)
\* All cassettes of the method are of one type, so that the order in which
\* inferReplayType tries the types cannot matter.
OneType == \A c, d \in Calls : TypeOf(recording[c]) = TypeOf(recording[d])

\* The client has repeated the recording up to call c: one call after the
\* other, on one connection, each to its end.
InStep(c) ==
    /\ ~overlapped
    /\ \A d \in 1 .. c : calls[d].faithful /\ calls[d].conn = calls[c].conn
    /\ \A d \in 1 .. c - 1 : calls[d].at = "done"

\* The cassette of call c is as it was saved, and none before it is gone: a
\* cassette that is missing is taken for one of another type, and it is the
\* counter of that type that the open then consumes.
Intact(c) ==
    /\ damage.how # "none" => damage.key # KeyOf(recording, c)
    /\ damage.how = "lost" =>
          \A d \in 1 .. c - 1 : damage.key # KeyOf(recording, d)

\* The last call that was recorded under the key of call c.
Recorded(c) == CHOOSE d \in Calls :
    /\ KeyOf(recording, d) = KeyOf(recording, c)
    /\ \A e \in d + 1 .. NumCalls : KeyOf(recording, e) # KeyOf(recording, c)

\* A client that repeats the recording call after call on one connection
\* gets the recorded replies and status of each, although the server has to
\* choose a cassette before it has seen the whole call.
FaithfulClientIsServed ==
    \A c \in Calls :
        /\ calls[c].at = "done" /\ InStep(c) /\ Intact(c) /\ OneType
        => reply[c] = [status |-> recording[Recorded(c)].status,
                       msgs |-> OfKind(EventsOf(Recorded(c)), "recv")]

\* Whatever the connections and the interleaving, a recording addressed by
\* its occurrence number is served to one call.
NoRecordingServedTwice ==
    \A c, d \in Calls :
        /\ c # d /\ served[c] # NotServed /\ served[c].typ \in CounterTypes
        => served[c] # served[d]

\* The opens of type t that a connection has probed for and been served.
Lead(t) == [k \in Conns |-> probeN[k][t] - (IF busy[k].typ = t THEN 1 ELSE 0)]

SumOver(f) ==
    LET total[S \in SUBSET Conns] ==
            IF S = {} THEN 0
            ELSE LET k == CHOOSE k \in S : TRUE IN f[k] + total[S \ {k}]
    IN  total[Conns]

\* The probe counters are the session's counters split by connection: on one
\* connection the two are in lockstep, as the comment on probeN has it, and
\* with several each runs behind by what the others have opened.
ProbesPartitionOpens ==
    \A t \in CounterTypes : SumOver(Lead(t)) = streamN[t]

\* A call is answered once: what the client has received of it never changes.
AnsweredOnce ==
    [][\A c \in Calls : reply[c] # NoReply => reply'[c] = reply[c]]_vars

\* The recorded client asked for its first reply with its send side open,
\* and the tap took the call for a client stream: the replay server, which
\* serves client streams at the half-close, waits for the client as the
\* client waits for it.
Stuck(c) ==
    /\ TypeOf(recording[c]) = "client"
    /\ \E i, j \in DOMAIN EventsOf(c) :
          i < j /\ IsEvent(c, i, "recv") /\ IsEvent(c, j, "half_close")

\* A reply is owed to a call that has closed its send side, recorded or not,
\* and to a client that repeats the recording and may not go on without it.
Owed(c) ==
    /\ Open(c) /\ reply[c] = NoReply
    /\ calls[c].halfClosed \/ (InStep(c) /\ Intact(c) /\ OneType /\ ~Stuck(c))

\* A reply that is owed is given, or the client gives the call up: but for
\* the shape above, the server does not wait for a half-close that waits for
\* the server.
NoReplyIsOwedForever == \A c \in Calls : Owed(c) ~> ~Owed(c)
=============================================================================
