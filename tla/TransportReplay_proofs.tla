----------------------- MODULE TransportReplay_proofs -----------------------
(***************************************************************************)
(* Proofs about TransportReplay for any number of connections, calls and   *)
(* recordings: a recording addressed by its number is served once, a call  *)
(* is answered once, and the probe counters of the connections add up to   *)
(* the counter of the session.                                             *)
(*                                                                         *)
(* The first needs that every number served was taken from the session's   *)
(* counter (ServedInv).  The second needs the life of a call on the server *)
(* (LifeInv): its headers wait on its connection, or it is in the map of   *)
(* streams, or advance is opening it, and only then may it be answered.    *)
(* The third needs what a sum over a finite set becomes when one of its    *)
(* terms changes.                                                          *)
(***************************************************************************)
EXTENDS TransportReplay, SequenceTheorems, SequenceLemmas, FiniteSetTheorems, TLAPS

ReplayTypes == {"none", "server", "client", "bidi"}

Frames == [call : Calls, kind : {"headers", "data", "reset"},
           msgs : Seq(Messages), end : BOOLEAN, path : BOOLEAN]

Streams == [known : BOOLEAN, buffered : Seq(Messages), opened : BOOLEAN]

Work == [call : Calls, typ : ReplayTypes, msgs : Seq(Messages), halfClosed : BOOLEAN]

ClientCalls == [at : {"idle", "open", "done", "cancelled"},
                conn : Conns \cup {NoConn}, pos : Int,
                faithful : BOOLEAN, halfClosed : BOOLEAN]

TypeOK ==
    /\ recording \in Recordings
    /\ up \in [Conns -> Seq(Frames)]
    /\ rstreams \in [Calls -> Streams]
    /\ busy \in [Conns -> Work \cup {Reading}]
    /\ streamN \in [CounterTypes -> Nat]
    /\ calls \in [Calls -> ClientCalls]
    /\ \A c \in Calls : calls[c].at # "idle" => calls[c].conn \in Conns
    /\ DOMAIN reply = Calls
    /\ DOMAIN served = Calls

\* The number a call was served under is one the session has counted.
ServedInv ==
    /\ NoRecordingServedTwice
    /\ \A c \in Calls : served[c].typ \in CounterTypes =>
          served[c].n \in Nat /\ served[c].n < streamN[served[c].typ]

\* Frame i of connection k is the headers of call c.
HeadersAt(k, i, c) == up[k][i].call = c /\ up[k][i].kind = "headers"

Idle(c) == calls[c].at = "idle"

\* The server knows nothing of c, and has not answered it.
Unseen(c) ==
    /\ ~rstreams[c].known
    /\ \A k \in Conns : busy[k].call # c
    /\ reply[c] = NoReply

\* The frames of a call are on its connection.
FramesHome ==
    \A k \in Conns : \A i \in DOMAIN up[k] :
        ~Idle(up[k][i].call) /\ calls[up[k][i].call].conn = k

\* So is the goroutine that opens it, which has not answered it.
BusyHome ==
    \A k \in Conns : busy[k] # Reading =>
        calls[busy[k].call].conn = k /\ reply[busy[k].call] = NoReply

\* A call has one headers frame, and nothing happens to it before.
HeadersFirst ==
    \A k \in Conns : \A i \in DOMAIN up[k] : up[k][i].kind = "headers" =>
        /\ Unseen(up[k][i].call)
        /\ \A j \in DOMAIN up[k] : HeadersAt(k, j, up[k][i].call) => j = i

IdleUnseen == \A c \in Calls : Idle(c) => Unseen(c)

\* A stream in the map is not answered.
KnownUnanswered == \A c \in Calls : rstreams[c].known => reply[c] = NoReply

LifeInv ==
    FramesHome /\ BusyHome /\ HeadersFirst /\ IdleUnseen /\ KnownUnanswered

-----------------------------------------------------------------------------
(***************************************************************************)
(* Queues.                                                                 *)
(***************************************************************************)

\* Appending a frame keeps the others in place.
LEMMA AppendFrame ==
    ASSUME NEW q \in Seq(Frames), NEW f \in Frames
    PROVE  /\ Append(q, f) \in Seq(Frames)
           /\ \A i \in DOMAIN Append(q, f) :
                 \/ i \in DOMAIN q /\ Append(q, f)[i] = q[i]
                 \/ i = Len(q) + 1 /\ Append(q, f)[i] = f
<1>1. Append(q, f) \in Seq(Frames) /\ Len(Append(q, f)) = Len(q) + 1
      /\ \A i \in 1 .. Len(q) : Append(q, f)[i] = q[i]
      /\ Append(q, f)[Len(q) + 1] = f
  BY AppendProperties
<1>2. DOMAIN Append(q, f) = 1 .. Len(q) + 1 /\ DOMAIN q = 1 .. Len(q) /\ Len(q) \in Nat
  BY <1>1, LenProperties
<1>3. \A i \in 1 .. Len(q) + 1 : i \in 1 .. Len(q) \/ i = Len(q) + 1
  BY <1>2
<1> QED
  BY <1>1, <1>2, <1>3

\* Reading the first frame moves the others up.
LEMMA TailFrame ==
    ASSUME NEW q \in Seq(Frames), q # << >>
    PROVE  /\ Tail(q) \in Seq(Frames)
           /\ Head(q) \in Frames /\ 1 \in DOMAIN q /\ Head(q) = q[1]
           /\ \A i \in DOMAIN Tail(q) :
                 i + 1 \in DOMAIN q /\ i + 1 # 1 /\ i \in Int /\ Tail(q)[i] = q[i + 1]
<1>1. /\ Tail(q) \in Seq(Frames) /\ Head(q) \in Frames
      /\ Len(Tail(q)) = Len(q) - 1
      /\ \A i \in 1 .. Len(Tail(q)) : Tail(q)[i] = q[i + 1]
  BY HeadTailProperties
<1>2. DOMAIN Tail(q) = 1 .. Len(q) - 1 /\ DOMAIN q = 1 .. Len(q) /\ Len(q) \in Nat
  BY <1>1, LenProperties
<1>3. Len(q) # 0
  BY <1>2, EmptySeq
<1>4. Head(q) = q[1]
  OBVIOUS
<1> QED
  BY <1>1, <1>2, <1>3, <1>4

-----------------------------------------------------------------------------
(***************************************************************************)
(* What the steps do.                                                      *)
(***************************************************************************)

\* The first frame of k is read; the server's state follows.
Accepts(k, c) == Head(up[k]).kind = "headers" \/ rstreams[c].known

Turn(k, c) ==
    /\ up' = [up EXCEPT ![k] = Tail(@)]
    /\ UNCHANGED <<recording, calls, streamN, served>>
    /\ \/ UNCHANGED <<rstreams, busy, reply>>
       \/ \E s \in Streams : /\ rstreams' = [rstreams EXCEPT ![c] = s]
                             /\ s.known => Accepts(k, c)
                             /\ UNCHANGED <<busy, reply>>
       \/ \E s \in Streams, w \in Work :
             /\ Accepts(k, c) /\ w.call = c
             /\ rstreams' = [rstreams EXCEPT ![c] = s]
             /\ busy' = [busy EXCEPT ![k] = w]
             /\ reply' = reply
       \/ \E answer : /\ Accepts(k, c)
                      /\ rstreams' = [rstreams EXCEPT ![c] = Unknown]
                      /\ busy' = busy
                      /\ \/ reply' = reply
                         \/ reply' = [reply EXCEPT ![c] = answer]

\* The constants of the stream map are streams.
LEMMA StreamConstants ==
    /\ Unknown \in Streams /\ Fresh \in Streams
    /\ ~Unknown.known
    /\ [Fresh EXCEPT !.opened = TRUE] \in Streams
    /\ \A b \in Seq(Messages) : [Fresh EXCEPT !.buffered = b] \in Streams
<1>1. << >> \in Seq(Messages)
  OBVIOUS
<1> QED
  BY <1>1 DEF Unknown, Fresh, Streams

\* advance opens the stream, or keeps it waiting.
LEMMA AdvanceTurn ==
    ASSUME TypeOK, NEW k \in Conns, NEW c \in Calls, NEW buffered \in Seq(Messages),
           NEW halfClosed \in BOOLEAN, Advance(k, c, buffered, halfClosed)
    PROVE  /\ UNCHANGED <<streamN, reply, served>>
           /\ \/ \E s \in Streams, w \in Work :
                    /\ w.call = c
                    /\ rstreams' = [rstreams EXCEPT ![c] = s]
                    /\ busy' = [busy EXCEPT ![k] = w]
              \/ \E s \in Streams : /\ rstreams' = [rstreams EXCEPT ![c] = s]
                                    /\ busy' = busy
<1>1. PICK typ : typ = InferReplayType(k, buffered, halfClosed)
  OBVIOUS
<1>2. typ \in {"server", "client", "bidi", "wait"}
  BY <1>1 DEF InferReplayType
<1>3. CASE Resolved(typ)
  <2> DEFINE w == [call |-> c, typ |-> typ, msgs |-> buffered,
                   halfClosed |-> halfClosed]
  <2>1. w \in Work /\ w.call = c
    BY <1>2, <1>3 DEF Work, ReplayTypes, Resolved
  <2>2. /\ rstreams' = [rstreams EXCEPT ![c] = [Fresh EXCEPT !.opened = TRUE]]
        /\ busy' = [busy EXCEPT ![k] = w]
        /\ UNCHANGED <<streamN, reply, served>>
    BY <1>1, <1>3 DEF Advance
  <2> QED
    BY <2>1, <2>2, StreamConstants
<1>4. CASE ~Resolved(typ)
  <2>1. /\ rstreams' = [rstreams EXCEPT ![c] = [Fresh EXCEPT !.buffered = buffered]]
        /\ UNCHANGED <<busy, streamN, reply, served>>
    BY <1>1, <1>4 DEF Advance
  <2> QED
    BY <2>1, StreamConstants
<1> QED
  BY <1>3, <1>4

\* writeTrailersOnly answers the call and forgets the stream.
LEMMA TrailersTurn ==
    ASSUME NEW k, NEW c, NEW code, WriteTrailersOnly(k, c, code)
    PROVE  /\ UNCHANGED <<busy, streamN, served>>
           /\ rstreams' = [rstreams EXCEPT ![c] = Unknown]
           /\ \E answer : \/ reply' = reply
                          \/ reply' = [reply EXCEPT ![c] = answer]
BY DEF WriteTrailersOnly, Answer

\* A turn of serve does one of the things above.
LEMMA FrameTurn ==
    ASSUME TypeOK, NEW k \in Conns, HandleFrame(k)
    PROVE  /\ up[k] # << >> /\ busy[k] = Reading
           /\ Head(up[k]).call \in Calls
           /\ \E c \in Calls : c = Head(up[k]).call /\ Turn(k, c)
<1>1. /\ up[k] # << >> /\ busy[k] = Reading
      /\ up' = [up EXCEPT ![k] = Tail(@)]
      /\ UNCHANGED <<recording, calls>>
  BY DEF HandleFrame, recorded
<1>2. PICK f : f = Head(up[k])
  OBVIOUS
<1>3. f \in Frames
  BY <1>1, <1>2, TailFrame DEF TypeOK
<1>4. f.call \in Calls /\ f.msgs \in Seq(Messages) /\ f.end \in BOOLEAN
  BY <1>3 DEF Frames
<1>5. PICK c \in Calls : c = f.call
  BY <1>4
<1> SUFFICES Turn(k, c)
  BY <1>1, <1>2, <1>5
<1>6. CASE OnHeaders(k, f)
  <2>1. Accepts(k, c)
    BY <1>2, <1>6 DEF OnHeaders, Accepts
  <2>2. CASE WriteTrailersOnly(k, f.call, "Unimplemented")
    BY <1>1, <1>5, <2>1, <2>2, TrailersTurn DEF Turn
  <2>3. CASE Advance(k, f.call, << >>, TRUE)
    <3>1. PICK buffered \in Seq(Messages), end \in BOOLEAN :
              Advance(k, c, buffered, end)
      <4>1. << >> \in Seq(Messages) /\ TRUE \in BOOLEAN
        OBVIOUS
      <4> QED
        BY <1>5, <2>3, <4>1, Zenon
    <3> QED
      BY <1>1, <2>1, <3>1, AdvanceTurn DEF Turn
  <2>4. CASE /\ rstreams' = [rstreams EXCEPT ![f.call] = Fresh]
             /\ UNCHANGED <<probeN, busy, streamN, reply, served>>
    BY <1>1, <1>5, <2>1, <2>4, StreamConstants DEF Turn
  <2> QED
    BY <1>2, <1>5, <1>6, <2>2, <2>3, <2>4 DEF OnHeaders
<1>7. CASE OnData(k, f)
  <2>1. CASE UNCHANGED serverVars
    BY <1>1, <1>5, <2>1 DEF Turn, serverVars
  <2>2. CASE rstreams[c].known /\ WriteTrailersOnly(k, f.call, "Internal")
    BY <1>1, <1>5, <2>2, TrailersTurn DEF Turn, Accepts
  <2>3. CASE /\ rstreams[c].known
             /\ Advance(k, f.call, rstreams[f.call].buffered \o f.msgs, f.end)
    <3>1. rstreams[c].buffered \o f.msgs \in Seq(Messages)
      BY <1>4, <1>5, ConcatProperties DEF TypeOK, Streams
    <3>2. PICK buffered \in Seq(Messages), end \in BOOLEAN :
              Advance(k, c, buffered, end)
      BY <1>4, <1>5, <2>3, <3>1
    <3> QED
      BY <1>1, <1>5, <2>3, <3>2, AdvanceTurn DEF Turn, Accepts
  <2> QED
    BY <1>2, <1>5, <1>7, <2>1, <2>2, <2>3 DEF OnData
<1>8. CASE OnReset(f)
  BY <1>1, <1>5, <1>8, StreamConstants DEF OnReset, Turn
<1> QED
  BY <1>1, <1>2, <1>5, <1>6, <1>7, <1>8 DEF HandleFrame
\* The key of the open that is served takes a number if its type has numbers.
KeyNow(k) ==
    StreamOpenFor(busy[k].typ,
                  IF busy[k].typ \in CounterTypes THEN streamN[busy[k].typ] ELSE -1,
                  FirstOrNil(busy[k].msgs))

Serving(k, c) ==
    /\ busy' = [busy EXCEPT ![k] = Reading]
    /\ rstreams' = [rstreams EXCEPT ![c] = Unknown]
    /\ UNCHANGED <<recording, up, calls>>
    /\ streamN' = IF busy[k].typ \in CounterTypes
                  THEN [streamN EXCEPT ![busy[k].typ] = @ + 1] ELSE streamN
    /\ served' \in {served, [served EXCEPT ![c] = KeyNow(k)]}
    /\ \E answer : \/ reply' = reply
                   \/ reply' = [reply EXCEPT ![c] = answer]

\* What Serve does to the state, whatever it finds in the cassette.
LEMMA ServeTurn ==
    ASSUME TypeOK, NEW k \in Conns, Serve(k)
    PROVE  /\ busy[k] \in Work
           /\ \E c \in Calls : c = busy[k].call /\ Serving(k, c)
<1>1. busy[k] \in Work /\ busy[k] # Reading
  BY DEF Serve, TypeOK
<1>2. PICK c \in Calls : c = busy[k].call
  BY <1>1 DEF Work
<1>3. /\ streamN' = IF busy[k].typ \in CounterTypes
                    THEN [streamN EXCEPT ![busy[k].typ] = @ + 1] ELSE streamN
      /\ rstreams' = [rstreams EXCEPT ![c] = Unknown]
      /\ busy' = [busy EXCEPT ![k] = Reading]
      /\ UNCHANGED <<recording, up, calls>>
  BY <1>2 DEF Serve, Forget, recorded
<1>4. served' \in {served, [served EXCEPT ![c] = KeyNow(k)]}
  BY <1>2 DEF Serve, KeyNow, OpenNumber
<1>5. \E status, msgs : Answer(k, c, status, msgs)
  BY <1>2 DEF Serve
<1>6. \E answer : reply' = reply \/ reply' = [reply EXCEPT ![c] = answer]
  BY <1>5 DEF Answer
<1> QED
  BY <1>1, <1>2, <1>3, <1>4, <1>6 DEF Serving

\* The server's part of the state.
SameServer == UNCHANGED <<recording, rstreams, busy, streamN, reply, served>>

\* A step of the client on call c.
ClientTurn(c) ==
    /\ SameServer
    /\ ~Idle(c) /\ calls[c].conn \in Conns
    /\ calls' = [calls EXCEPT ![c] = calls'[c]]
    /\ calls'[c] \in ClientCalls /\ calls'[c].at # "idle"
    /\ calls'[c].conn = calls[c].conn
    /\ \/ up' = up
       \/ \E f \in Frames : /\ f.call = c /\ f.kind # "headers"
                            /\ up' = [up EXCEPT ![calls[c].conn] = Append(@, f)]
\* Frames of the client.
LEMMA FrameType ==
    ASSUME NEW c \in Calls, NEW kind \in {"headers", "data", "reset"},
           NEW msgs \in Seq(Messages), NEW end \in BOOLEAN, NEW path \in BOOLEAN
    PROVE  /\ Frame(c, kind, msgs, end) \in Frames
           /\ Frame(c, kind, msgs, end).call = c
           /\ Frame(c, kind, msgs, end).kind = kind
           /\ [Frame(c, kind, msgs, end) EXCEPT !.path = path] \in Frames
           /\ [Frame(c, kind, msgs, end) EXCEPT !.path = path].call = c
           /\ [Frame(c, kind, msgs, end) EXCEPT !.path = path].kind = kind
BY DEF Frame, Frames

\* ClientSend is a step of the client.
LEMMA SendTurn ==
    ASSUME TypeOK, NEW c \in Calls, ClientSend(c)
    PROVE  ClientTurn(c)
<1>1. PICK i, message, end :
          /\ i = calls[c].pos /\ Open(c) /\ IsEvent(c, i, "send")
          /\ message \in {EventsOf(c)[i][2]} \cup (IF c \in Wayward THEN Stray ELSE {})
          /\ end \in {FALSE, IsEvent(c, i + 1, "half_close")}
          /\ calls' = [calls EXCEPT
                          ![c].pos = IF end THEN i + 2 ELSE i + 1,
                          ![c].faithful = @ /\ message = EventsOf(c)[i][2],
                          ![c].halfClosed = end]
          /\ SendFrame(calls[c].conn, Frame(c, "data", <<message>>, end))
  BY DEF ClientSend
<1>2. message \in Messages
  <2>1. EventsOf(c)[i][2] \in Messages
    BY <1>1, ReplayAssumption DEF TypeOK, EventsOf, IsEvent, Calls
  <2> QED
    BY <1>1, <2>1, ReplayAssumption
<1>3. end \in BOOLEAN
  BY <1>1 DEF IsEvent
<1>4. calls[c] \in ClientCalls /\ calls[c].at = "open" /\ calls[c].conn \in Conns
  BY <1>1 DEF TypeOK, Open
<1>5. calls'[c] = [calls[c] EXCEPT
                      !.pos = IF end THEN i + 2 ELSE i + 1,
                      !.faithful = @ /\ message = EventsOf(c)[i][2],
                      !.halfClosed = end]
      /\ calls' = [calls EXCEPT ![c] = calls'[c]]
  BY <1>1 DEF TypeOK
<1>6. /\ calls'[c] \in ClientCalls /\ calls'[c].at = "open"
      /\ calls'[c].conn = calls[c].conn
  <2>1. PICK p, b : p = (IF end THEN i + 2 ELSE i + 1)
                    /\ b = (calls[c].faithful /\ message = EventsOf(c)[i][2])
    OBVIOUS
  <2>2. p \in Int /\ b \in BOOLEAN
    BY <1>1, <1>4, <2>1 DEF ClientCalls
  <2>3. calls'[c] = [calls[c] EXCEPT !.pos = p, !.faithful = b, !.halfClosed = end]
    BY <1>5, <2>1, Zenon
  <2> QED
    BY <1>3, <1>4, <2>2, <2>3 DEF ClientCalls
<1>7. <<message>> \in Seq(Messages)
  BY <1>2
<1>8. PICK f \in Frames : /\ f.call = c /\ f.kind # "headers"
                          /\ up' = [up EXCEPT ![calls[c].conn] = Append(@, f)]
  <2>1. PICK f : f = Frame(c, "data", <<message>>, end)
    OBVIOUS
  <2>2. f \in Frames /\ f.call = c /\ f.kind = "data"
    BY <1>3, <1>7, <2>1 DEF Frame, Frames
  <2>3. SendFrame(calls[c].conn, f)
    BY <1>1, <2>1
  <2> QED
    BY <2>2, <2>3 DEF SendFrame
<1>9. SameServer
  BY DEF ClientSend, SameServer, recorded, serverVars
<1> QED
  BY <1>4, <1>5, <1>6, <1>8, <1>9 DEF ClientTurn, Idle

\* The other steps of an open call are steps of the client too.
LEMMA OtherTurns ==
    ASSUME TypeOK, NEW c \in Calls,
           ClientClose(c) \/ ClientRecv(c) \/ ClientEnds(c) \/ Cancel(c)
    PROVE  ClientTurn(c)
<1>1. calls[c] \in ClientCalls /\ calls[c].at = "open" /\ calls[c].conn \in Conns
      /\ calls[c].pos \in Int
  BY DEF TypeOK, ClientCalls, Open, ClientClose, ClientRecv, ClientEnds, Cancel
<1>2. SameServer
  BY DEF ClientClose, ClientRecv, ClientEnds, Cancel, SameServer, recorded, serverVars
<1>3. << >> \in Seq(Messages)
  OBVIOUS
<1>4. CASE ClientClose(c)
  <2>1. calls' = [calls EXCEPT ![c].pos = @ + 1, ![c].halfClosed = TRUE]
    BY <1>4 DEF ClientClose
  <2>2. /\ calls'[c] = [calls[c] EXCEPT !.pos = @ + 1, !.halfClosed = TRUE]
        /\ calls' = [calls EXCEPT ![c] = calls'[c]]
    BY <2>1 DEF TypeOK
  <2>3. /\ calls'[c] \in ClientCalls /\ calls'[c].at = "open"
        /\ calls'[c].conn = calls[c].conn
    <3>1. PICK p : p = calls[c].pos + 1
      OBVIOUS
    <3>2. calls'[c] = [calls[c] EXCEPT !.pos = p, !.halfClosed = TRUE] /\ p \in Int
      BY <1>1, <2>2, <3>1
    <3> QED
      BY <1>1, <3>2 DEF ClientCalls
  <2>4. PICK f \in Frames : /\ f.call = c /\ f.kind # "headers"
                            /\ up' = [up EXCEPT ![calls[c].conn] = Append(@, f)]
    <3>1. PICK f : f = Frame(c, "data", << >>, TRUE)
      OBVIOUS
    <3>2. f \in Frames /\ f.call = c /\ f.kind = "data"
      BY <1>3, <3>1 DEF Frame, Frames
    <3>3. SendFrame(calls[c].conn, f)
      BY <1>4, <3>1 DEF ClientClose
    <3> QED
      BY <3>2, <3>3 DEF SendFrame
  <2> QED
    BY <1>1, <1>2, <2>2, <2>3, <2>4 DEF ClientTurn, Idle
<1>5. CASE ClientRecv(c)
  <2>1. calls' = [calls EXCEPT ![c].pos = @ + 1] /\ up' = up
    BY <1>5 DEF ClientRecv
  <2>2. /\ calls'[c] = [calls[c] EXCEPT !.pos = @ + 1]
        /\ calls' = [calls EXCEPT ![c] = calls'[c]]
    BY <2>1 DEF TypeOK
  <2>3. /\ calls'[c] \in ClientCalls /\ calls'[c].at = "open"
        /\ calls'[c].conn = calls[c].conn
    BY <1>1, <2>2 DEF ClientCalls
  <2> QED
    BY <1>1, <1>2, <2>1, <2>2, <2>3 DEF ClientTurn, Idle
<1>6. CASE ClientEnds(c)
  <2>1. calls' = [calls EXCEPT ![c].at = "done"] /\ up' = up
    BY <1>6 DEF ClientEnds
  <2>2. /\ calls'[c] = [calls[c] EXCEPT !.at = "done"]
        /\ calls' = [calls EXCEPT ![c] = calls'[c]]
    BY <2>1 DEF TypeOK
  <2>3. /\ calls'[c] \in ClientCalls /\ calls'[c].at = "done"
        /\ calls'[c].conn = calls[c].conn
    BY <1>1, <2>2 DEF ClientCalls
  <2> QED
    BY <1>1, <1>2, <2>1, <2>2, <2>3 DEF ClientTurn, Idle
<1>7. CASE Cancel(c)
  <2>1. calls' = [calls EXCEPT ![c].at = "cancelled"]
    BY <1>7 DEF Cancel
  <2>2. /\ calls'[c] = [calls[c] EXCEPT !.at = "cancelled"]
        /\ calls' = [calls EXCEPT ![c] = calls'[c]]
    BY <2>1 DEF TypeOK
  <2>3. /\ calls'[c] \in ClientCalls /\ calls'[c].at = "cancelled"
        /\ calls'[c].conn = calls[c].conn
    BY <1>1, <2>2 DEF ClientCalls
  <2>4. PICK f \in Frames : /\ f.call = c /\ f.kind # "headers"
                            /\ up' = [up EXCEPT ![calls[c].conn] = Append(@, f)]
    <3>1. PICK f : f = Frame(c, "reset", << >>, TRUE)
      OBVIOUS
    <3>2. f \in Frames /\ f.call = c /\ f.kind # "headers"
      BY <1>3, <3>1 DEF Frame, Frames
    <3>3. SendFrame(calls[c].conn, f)
      BY <1>7, <3>1 DEF Cancel
    <3> QED
      BY <3>2, <3>3 DEF SendFrame
  <2> QED
    BY <1>1, <1>2, <2>2, <2>3, <2>4 DEF ClientTurn, Idle
<1> QED
  BY <1>4, <1>5, <1>6, <1>7
\* Begin puts the headers of a new call on its connection.
BeginTurn(c, k) ==
    /\ SameServer
    /\ Idle(c)
    /\ calls' = [calls EXCEPT ![c] = calls'[c]]
    /\ calls'[c] \in ClientCalls /\ calls'[c].at # "idle" /\ calls'[c].conn = k
    /\ \E f \in Frames : /\ f.call = c /\ f.kind = "headers"
                         /\ up' = [up EXCEPT ![k] = Append(@, f)]

\* Begin does so.
LEMMA BeginIsTurn ==
    ASSUME TypeOK, NEW c \in Calls, NEW k \in Conns, Begin(c, k)
    PROVE  BeginTurn(c, k)
<1>1. PICK end, path :
          /\ end \in {FALSE, IsEvent(c, 1, "half_close")} /\ path \in {TRUE, c \notin Wayward}
          /\ calls[c].at = "idle"
          /\ calls' = [calls EXCEPT ![c] =
                        [at |-> "open", conn |-> k, pos |-> IF end THEN 2 ELSE 1,
                         faithful |-> path, halfClosed |-> end]]
          /\ SendFrame(k, [Frame(c, "headers", << >>, end) EXCEPT !.path = path])
  BY DEF Begin
<1>2. end \in BOOLEAN /\ path \in BOOLEAN /\ << >> \in Seq(Messages)
  <2>1. end \in {FALSE, IsEvent(c, 1, "half_close")} /\ path \in {TRUE, c \notin Wayward}
    BY <1>1
  <2>2. end \in BOOLEAN
    BY <2>1 DEF IsEvent
  <2>3. path \in BOOLEAN
    BY <2>1
  <2>4. << >> \in Seq(Messages)
    OBVIOUS
  <2> QED
    BY <2>2, <2>3, <2>4
<1>3. PICK p : p = IF end THEN 2 ELSE 1
  OBVIOUS
<1>4. p \in Int
  BY <1>2, <1>3
<1>5. calls'[c] = [at |-> "open", conn |-> k, pos |-> p, faithful |-> path,
                   halfClosed |-> end]
      /\ calls' = [calls EXCEPT ![c] = calls'[c]]
  BY <1>1, <1>3 DEF TypeOK
<1>6. calls'[c] \in ClientCalls /\ calls'[c].at = "open" /\ calls'[c].conn = k
  BY <1>2, <1>4, <1>5 DEF ClientCalls
<1>7. PICK f : f = [Frame(c, "headers", << >>, end) EXCEPT !.path = path]
  OBVIOUS
<1>8. f \in Frames /\ f.call = c /\ f.kind = "headers"
  BY <1>2, <1>7 DEF Frame, Frames
<1>9. up' = [up EXCEPT ![k] = Append(@, f)]
  BY <1>1, <1>7 DEF SendFrame
<1>10. SameServer
  BY DEF Begin, SameServer, recorded, serverVars
<1> QED
  BY <1>1, <1>5, <1>6, <1>8, <1>9, <1>10 DEF BeginTurn, Idle

\* HangUp empties a queue; calls keep their connection.
HangUpTurn(k) ==
    /\ SameServer
    /\ up' = [up EXCEPT ![k] = << >>]
    /\ calls' \in [Calls -> ClientCalls]
    /\ \A c \in Calls : /\ Idle(c)' <=> Idle(c)
                        /\ calls'[c].conn = calls[c].conn

\* HangUp does so.
LEMMA HangUpIsTurn ==
    ASSUME TypeOK, NEW k \in Conns, HangUp(k)
    PROVE  HangUpTurn(k)
<1>1. /\ up' = [up EXCEPT ![k] = << >>]
      /\ calls' = [c \in Calls |-> IF Open(c) /\ calls[c].conn = k
                                   THEN [calls[c] EXCEPT !.at = "cancelled"]
                                   ELSE calls[c]]
  BY DEF HangUp
<1>2. ASSUME NEW c \in Calls
      PROVE  /\ calls'[c] \in ClientCalls
             /\ calls'[c].conn = calls[c].conn
             /\ Idle(c)' <=> Idle(c)
  <2>1. calls[c] \in ClientCalls
    BY DEF TypeOK
  <2>2. CASE Open(c) /\ calls[c].conn = k
    <3>1. calls'[c] = [calls[c] EXCEPT !.at = "cancelled"]
      BY <1>1, <2>2
    <3>2. calls'[c] \in ClientCalls /\ calls'[c].at = "cancelled"
          /\ calls'[c].conn = calls[c].conn
      BY <2>1, <3>1 DEF ClientCalls
    <3> QED
      BY <2>2, <3>2 DEF Idle, Open
  <2>3. CASE ~(Open(c) /\ calls[c].conn = k)
    <3>1. calls'[c] = calls[c]
      BY <1>1, <2>3
    <3> QED
      BY <2>1, <3>1 DEF Idle
  <2> QED
    BY <2>2, <2>3
<1>3. calls' \in [Calls -> ClientCalls]
  BY <1>1, <1>2
<1>4. SameServer
  BY DEF HangUp, SameServer, recorded, serverVars
<1> QED
  BY <1>1, <1>2, <1>3, <1>4 DEF HangUpTurn

\* Every step is one of these.
LEMMA Turns ==
    ASSUME TypeOK, [Next]_vars
    PROVE  \/ \E c \in Calls, k \in Conns : BeginTurn(c, k)
           \/ \E c \in Calls : ClientTurn(c)
           \/ \E k \in Conns : HangUpTurn(k)
           \/ \E k \in Conns, c \in Calls :
                 /\ up[k] # << >> /\ busy[k] = Reading
                 /\ c = Head(up[k]).call /\ Turn(k, c)
           \/ \E k \in Conns, c \in Calls :
                 busy[k] \in Work /\ c = busy[k].call /\ Serving(k, c)
           \/ SameServer /\ UNCHANGED <<up, calls>>
<1>1. ASSUME NEW c \in Calls, NEW k \in Routes[c], Begin(c, k)
      PROVE  \E d \in Calls, l \in Conns : BeginTurn(d, l)
  <2>1. k \in Conns
    BY ReplayAssumption DEF Calls
  <2> QED
    BY <1>1, <2>1, BeginIsTurn
<1>2. ASSUME NEW c \in Calls, ClientStep(c) \/ Cancel(c)
      PROVE  ClientTurn(c)
  BY <1>2, SendTurn, OtherTurns DEF ClientStep
<1>3. CASE UNCHANGED vars
  BY <1>3 DEF vars, SameServer
<1> QED
  BY <1>1, <1>2, <1>3, HangUpIsTurn, FrameTurn, ServeTurn DEF Next, ServerStep
-----------------------------------------------------------------------------
(***************************************************************************)
(* Types.                                                                  *)
(***************************************************************************)

\* The types hold at the start.
LEMMA TypeInit == Init => TypeOK
<1> SUFFICES ASSUME Init PROVE TypeOK
  OBVIOUS
<1>1. up \in [Conns -> Seq(Frames)]
  BY DEF Init
<1>2. rstreams \in [Calls -> Streams]
  BY StreamConstants DEF Init
<1>3. NoCall \in ClientCalls
  BY DEF NoCall, ClientCalls
<1>4. calls \in [Calls -> ClientCalls] /\ \A c \in Calls : calls[c].at = "idle"
  BY <1>3 DEF Init, NoCall
<1> QED
  BY <1>1, <1>2, <1>4 DEF Init, TypeOK

\* Every step keeps the types.
LEMMA TypeStep == TypeOK /\ [Next]_vars => TypeOK'
<1> SUFFICES ASSUME TypeOK, [Next]_vars PROVE TypeOK'
  OBVIOUS
<1>1. ASSUME NEW c \in Calls, NEW k \in Conns, BeginTurn(c, k) PROVE TypeOK'
  <2>1. PICK f \in Frames : up' = [up EXCEPT ![k] = Append(@, f)]
    BY <1>1 DEF BeginTurn
  <2>2. up' \in [Conns -> Seq(Frames)]
    BY <2>1, AppendFrame DEF TypeOK
  <2>3. calls' \in [Calls -> ClientCalls]
        /\ \A d \in Calls : calls'[d].at # "idle" => calls'[d].conn \in Conns
    BY <1>1 DEF BeginTurn, TypeOK
  <2> QED
    BY <1>1, <2>2, <2>3 DEF BeginTurn, SameServer, TypeOK
<1>2. ASSUME NEW c \in Calls, ClientTurn(c) PROVE TypeOK'
  <2>1. up' \in [Conns -> Seq(Frames)]
    <3>1. CASE up' = up
      BY <3>1 DEF TypeOK
    <3>2. CASE \E f \in Frames : up' = [up EXCEPT ![calls[c].conn] = Append(@, f)]
      <4>1. PICK f \in Frames, k \in Conns : up' = [up EXCEPT ![k] = Append(@, f)]
        BY <1>2, <3>2 DEF ClientTurn
      <4> QED
        BY <4>1, AppendFrame DEF TypeOK
    <3> QED
      BY <1>2, <3>1, <3>2 DEF ClientTurn
  <2>2. calls' \in [Calls -> ClientCalls]
        /\ \A d \in Calls : calls'[d].at # "idle" => calls'[d].conn \in Conns
    BY <1>2 DEF ClientTurn, TypeOK
  <2> QED
    BY <1>2, <2>1, <2>2 DEF ClientTurn, SameServer, TypeOK
<1>3. ASSUME NEW k \in Conns, HangUpTurn(k) PROVE TypeOK'
  <2>1. up' \in [Conns -> Seq(Frames)]
    BY <1>3 DEF TypeOK, HangUpTurn
  <2> QED
    BY <1>3, <2>1 DEF HangUpTurn, SameServer, TypeOK, Idle
<1>4. ASSUME NEW k \in Conns, NEW c \in Calls, up[k] # << >>, Turn(k, c)
      PROVE  TypeOK'
  <2>1. up' \in [Conns -> Seq(Frames)]
    BY <1>4, TailFrame DEF TypeOK, Turn
  <2>2. rstreams' \in [Calls -> Streams]
    BY <1>4, StreamConstants DEF TypeOK, Turn
  <2>3. busy' \in [Conns -> Work \cup {Reading}]
    BY <1>4 DEF TypeOK, Turn
  <2>4. DOMAIN reply' = Calls
    BY <1>4 DEF TypeOK, Turn
  <2> QED
    BY <1>4, <2>1, <2>2, <2>3, <2>4 DEF Turn, TypeOK
<1>5. ASSUME NEW k \in Conns, NEW c \in Calls, Serving(k, c) PROVE TypeOK'
  <2>1. rstreams' \in [Calls -> Streams] /\ busy' \in [Conns -> Work \cup {Reading}]
    BY <1>5, StreamConstants DEF TypeOK, Serving
  <2>2. streamN' \in [CounterTypes -> Nat]
    BY <1>5 DEF TypeOK, Serving
  <2>3. DOMAIN reply' = Calls /\ DOMAIN served' = Calls
    BY <1>5 DEF TypeOK, Serving
  <2> QED
    BY <1>5, <2>1, <2>2, <2>3 DEF Serving, TypeOK
<1>6. CASE SameServer /\ UNCHANGED <<up, calls>>
  BY <1>6 DEF SameServer, TypeOK
<1> QED
  BY <1>1, <1>2, <1>3, <1>4, <1>5, <1>6, Turns

-----------------------------------------------------------------------------
(***************************************************************************)
(* NoRecordingServedTwice.                                                 *)
(***************************************************************************)

\* Nothing is served at the start.
LEMMA ServedInit == Init => ServedInv
BY DEF Init, ServedInv, NoRecordingServedTwice, NotServed, CounterTypes

\* A new number is beyond every number served before.
LEMMA ServedStep == TypeOK /\ ServedInv /\ [Next]_vars => ServedInv'
<1> SUFFICES ASSUME TypeOK, ServedInv, [Next]_vars PROVE ServedInv'
  OBVIOUS
<1>1. CASE UNCHANGED <<served, streamN>>
  BY <1>1 DEF ServedInv, NoRecordingServedTwice
<1>2. ASSUME NEW k \in Conns, NEW c \in Calls, busy[k] \in Work, Serving(k, c)
      PROVE  ServedInv'
  <2>1. PICK typ \in ReplayTypes : typ = busy[k].typ
    BY <1>2 DEF Work
  <2>2. /\ streamN' = IF typ \in CounterTypes
                      THEN [streamN EXCEPT ![typ] = @ + 1] ELSE streamN
        /\ served' \in {served, [served EXCEPT ![c] = KeyNow(k)]}
    BY <1>2, <2>1 DEF Serving
  <2>3. \A t \in CounterTypes : streamN[t] \in Nat /\ streamN'[t] \in Nat
                                /\ streamN[t] <= streamN'[t]
    BY <2>2 DEF TypeOK
  <2>4. \A d \in Calls : served[d].typ \in CounterTypes =>
            served[d].n \in Nat /\ served[d].n < streamN'[served[d].typ]
    BY <2>3 DEF ServedInv
  <2>5. CASE served' = served
    BY <2>4, <2>5 DEF ServedInv, NoRecordingServedTwice
  <2>6. CASE served' = [served EXCEPT ![c] = KeyNow(k)]
    <3>1. PICK key : key = KeyNow(k)
      OBVIOUS
    <3>2. served'[c] = key /\ \A d \in Calls : d # c => served'[d] = served[d]
      BY <2>6, <3>1 DEF TypeOK
    <3>3. key.typ \in CounterTypes => key.typ = typ /\ key.n = streamN[typ]
      BY <2>1, <3>1 DEF KeyNow, StreamOpenFor, CounterTypes, ReplayTypes
    <3>4. key.typ \in CounterTypes =>
              key.n \in Nat /\ key.n < streamN'[key.typ]
      BY <2>2, <3>3 DEF TypeOK
    <3>5. ASSUME NEW d \in Calls, key.typ \in CounterTypes PROVE served[d] # key
      <4>1. CASE served[d].typ # key.typ
        BY <4>1
      <4>2. CASE served[d].typ = key.typ
        <5>1. served[d].n \in Nat /\ served[d].n < streamN[key.typ]
          BY <3>5, <4>2 DEF ServedInv
        <5>2. served[d].n # key.n
          BY <3>3, <3>4, <3>5, <5>1
        <5> QED
          BY <5>2
      <4> QED
        BY <4>1, <4>2
    <3>6. NoRecordingServedTwice'
      <4> SUFFICES ASSUME NEW a \in Calls, NEW b \in Calls, a # b,
                          served'[a].typ \in CounterTypes
                   PROVE  served'[a] # served'[b]
        BY DEF NoRecordingServedTwice
      <4>1. CASE a = c
        BY <3>2, <3>5, <4>1
      <4>2. CASE b = c
        <5>1. served'[a] = served[a] /\ served'[b] = key
          BY <3>2, <4>2
        <5>2. served[a] = key => key.typ \in CounterTypes
          BY <5>1
        <5> QED
          BY <3>5, <5>1, <5>2
      <4>3. CASE a # c /\ b # c
        <5>1. served'[a] = served[a] /\ served'[b] = served[b]
          BY <3>2, <4>3
        <5>2. served[a] # NotServed
          BY <5>1 DEF NotServed, CounterTypes
        <5> QED
          BY <5>1, <5>2 DEF ServedInv, NoRecordingServedTwice
      <4> QED
        BY <4>1, <4>2, <4>3
    <3>7. ASSUME NEW d \in Calls, served'[d].typ \in CounterTypes
          PROVE  served'[d].n \in Nat /\ served'[d].n < streamN'[served'[d].typ]
      BY <2>4, <3>2, <3>4, <3>7
    <3> QED
      BY <3>6, <3>7 DEF ServedInv
  <2> QED
    BY <2>2, <2>5, <2>6
<1> QED
  BY <1>1, <1>2, Turns DEF BeginTurn, ClientTurn, HangUpTurn, SameServer, Turn

\* Whatever the connections and the interleaving, a recording addressed by
\* its occurrence number is served to one call.
THEOREM ServedOnce == Spec => []NoRecordingServedTwice
<1>1. Init => TypeOK /\ ServedInv
  BY TypeInit, ServedInit
<1>2. TypeOK /\ ServedInv /\ [Next]_vars => (TypeOK /\ ServedInv)'
  BY TypeStep, ServedStep
<1>3. ServedInv => NoRecordingServedTwice
  BY DEF ServedInv
<1> QED
  BY <1>1, <1>2, <1>3, PTL DEF Spec
-----------------------------------------------------------------------------
(***************************************************************************)
(* AnsweredOnce.                                                           *)
(***************************************************************************)

\* Reading is nobody's work.
LEMMA WorkFacts ==
    ASSUME TypeOK, NEW k \in Conns
    PROVE  /\ Reading.call \notin Calls
           /\ busy[k] # Reading => busy[k] \in Work /\ busy[k].call \in Calls
           /\ busy[k].call \in Calls => busy[k] # Reading
<1>1. 0 \notin Calls
  BY DEF Calls
<1> QED
  BY <1>1 DEF TypeOK, Work, Reading

\* The calls of the frames.
LEMMA UpFacts ==
    ASSUME TypeOK, NEW k \in Conns, NEW i \in DOMAIN up[k]
    PROVE  up[k][i] \in Frames /\ up[k][i].call \in Calls
<1>1. up[k] \in Seq(Frames)
  BY DEF TypeOK
<1>2. up[k][i] \in Frames
  BY <1>1
<1> QED
  BY <1>2 DEF Frames

\* At the start no call is under way.
LEMMA LifeInit == Init => LifeInv
<1> SUFFICES ASSUME Init PROVE LifeInv
  OBVIOUS
<1>1. \A k \in Conns : DOMAIN up[k] = {}
  BY DEF Init
<1>2. \A k \in Conns : busy[k] = Reading
  BY DEF Init
<1>3. \A c \in Calls : ~rstreams[c].known /\ reply[c] = NoReply
  BY StreamConstants DEF Init
<1>4. \A c \in Calls : Unseen(c)
  <2>1. \A c \in Calls : Reading.call # c
    BY DEF Reading, Calls
  <2> QED
    BY <1>2, <1>3, <2>1 DEF Unseen
<1> QED
  BY <1>1, <1>2, <1>3, <1>4
  DEF LifeInv, FramesHome, BusyHome, HeadersFirst, IdleUnseen, KnownUnanswered
\* A step of the client that sends no headers.
LEMMA LifeClient ==
    ASSUME TypeOK, LifeInv, SameServer,
           \A c \in Calls : /\ Idle(c)' => Idle(c)
                            /\ ~Idle(c) => calls'[c].conn = calls[c].conn,
           \A k \in Conns : \A i \in DOMAIN up'[k] :
              \/ i \in DOMAIN up[k] /\ up'[k][i] = up[k][i]
              \/ /\ up'[k][i].kind # "headers" /\ up'[k][i].call \in Calls
                 /\ ~Idle(up'[k][i].call) /\ calls[up'[k][i].call].conn = k
    PROVE  LifeInv'
<1>1. \A c \in Calls : Unseen(c)' <=> Unseen(c)
  BY DEF Unseen, SameServer
<1>2. FramesHome'
  <2> SUFFICES ASSUME NEW k \in Conns, NEW i \in DOMAIN up'[k]
               PROVE  calls'[up'[k][i].call].at # "idle"
                      /\ calls'[up'[k][i].call].conn = k
    BY DEF FramesHome, Idle
  <2>1. PICK c \in Calls : c = up'[k][i].call /\ ~Idle(c) /\ calls[c].conn = k
    BY UpFacts DEF LifeInv, FramesHome
  <2> QED
    BY <2>1 DEF Idle
<1>3. BusyHome'
  <2> SUFFICES ASSUME NEW k \in Conns, busy[k] # Reading
               PROVE  calls'[busy[k].call].conn = k /\ reply[busy[k].call] = NoReply
    BY DEF BusyHome, SameServer
  <2>1. PICK c \in Calls : c = busy[k].call
    BY WorkFacts
  <2>2. ~Idle(c)
    BY <2>1 DEF LifeInv, IdleUnseen, Unseen
  <2> QED
    BY <2>1, <2>2 DEF LifeInv, BusyHome
<1>4. HeadersFirst'
  <2> SUFFICES ASSUME NEW k \in Conns, NEW i \in DOMAIN up'[k],
                      up'[k][i].kind = "headers"
               PROVE  /\ Unseen(up[k][i].call)'
                      /\ \A j \in DOMAIN up'[k] :
                            up'[k][j].call = up'[k][i].call /\ up'[k][j].kind = "headers"
                            => j = i
    BY DEF HeadersFirst, HeadersAt
  <2>1. i \in DOMAIN up[k] /\ up'[k][i] = up[k][i]
    OBVIOUS
  <2>2. PICK c \in Calls : c = up[k][i].call /\ c = up'[k][i].call
    BY <2>1, UpFacts
  <2>3. Unseen(c)'
    BY <1>1, <2>1, <2>2 DEF LifeInv, HeadersFirst
  <2>4. Unseen(up[k][i].call)'
    BY <2>2, <2>3 DEF Unseen
  <2>5. ASSUME NEW j \in DOMAIN up'[k], up'[k][j].call = c, up'[k][j].kind = "headers"
        PROVE  j = i
    BY <2>1, <2>2, <2>5 DEF LifeInv, HeadersFirst, HeadersAt
  <2> QED
    BY <2>2, <2>4, <2>5
<1>5. IdleUnseen' /\ KnownUnanswered'
  BY <1>1 DEF LifeInv, IdleUnseen, KnownUnanswered, SameServer
<1> QED
  BY <1>2, <1>3, <1>4, <1>5 DEF LifeInv

\* The headers of a call that begins.
LEMMA LifeBegin ==
    ASSUME TypeOK, LifeInv, NEW c \in Calls, NEW k \in Conns, BeginTurn(c, k)
    PROVE  LifeInv'
<1>1. PICK f \in Frames : /\ f.call = c /\ f.kind = "headers"
                          /\ up' = [up EXCEPT ![k] = Append(@, f)]
  BY DEF BeginTurn
<1>2. \A d \in Calls : d # c => calls'[d] = calls[d]
  BY DEF BeginTurn, TypeOK
<1>3. \A d \in Calls : Unseen(d)' <=> Unseen(d)
  BY DEF Unseen, SameServer, BeginTurn
<1>4. Unseen(c)
  BY DEF BeginTurn, LifeInv, IdleUnseen
<1>5. ASSUME NEW l \in Conns, NEW i \in DOMAIN up'[l]
      PROVE  \/ /\ i \in DOMAIN up[l] /\ up'[l][i] = up[l][i]
                /\ up[l][i].call \in Calls /\ up[l][i].call # c
             \/ l = k /\ i = Len(up[k]) + 1 /\ up'[l][i] = f
  <2>1. \/ i \in DOMAIN up[l] /\ up'[l][i] = up[l][i]
        \/ l = k /\ i = Len(up[k]) + 1 /\ up'[l][i] = f
    BY <1>1, AppendFrame DEF TypeOK
  <2>2. i \in DOMAIN up[l] => up[l][i].call \in Calls /\ up[l][i].call # c
    BY UpFacts DEF LifeInv, FramesHome, BeginTurn
  <2> QED
    BY <2>1, <2>2
<1>6. FramesHome'
  <2> SUFFICES ASSUME NEW l \in Conns, NEW i \in DOMAIN up'[l]
               PROVE  calls'[up'[l][i].call].at # "idle"
                      /\ calls'[up'[l][i].call].conn = l
    BY DEF FramesHome, Idle
  <2>1. CASE l = k /\ up'[l][i] = f
    BY <1>1, <2>1 DEF BeginTurn
  <2>2. CASE /\ i \in DOMAIN up[l] /\ up'[l][i] = up[l][i]
             /\ up[l][i].call \in Calls /\ up[l][i].call # c
    BY <1>2, <2>2 DEF LifeInv, FramesHome, Idle
  <2> QED
    BY <1>5, <2>1, <2>2
<1>7. BusyHome'
  <2> SUFFICES ASSUME NEW l \in Conns, busy[l] # Reading
               PROVE  calls'[busy[l].call].conn = l /\ reply[busy[l].call] = NoReply
    BY DEF BusyHome, SameServer, BeginTurn
  <2>1. PICK d \in Calls : d = busy[l].call
    BY WorkFacts
  <2>2. d # c
    BY <1>4, <2>1 DEF Unseen
  <2> QED
    BY <1>2, <2>1, <2>2 DEF LifeInv, BusyHome
<1>8. HeadersFirst'
  <2> SUFFICES ASSUME NEW l \in Conns, NEW i \in DOMAIN up'[l],
                      up'[l][i].kind = "headers"
               PROVE  /\ Unseen(up[l][i].call)'
                      /\ \A j \in DOMAIN up'[l] :
                            up'[l][j].call = up'[l][i].call /\ up'[l][j].kind = "headers"
                            => j = i
    BY DEF HeadersFirst, HeadersAt
  <2>1. CASE l = k /\ i = Len(up[k]) + 1 /\ up'[l][i] = f
    <3>1. Unseen(up[l][i].call)'
      BY <1>1, <1>3, <1>4, <2>1 DEF Unseen
    <3>2. ASSUME NEW j \in DOMAIN up'[l], up'[l][j].call = c PROVE j = i
      BY <1>5, <2>1, <3>2
    <3> QED
      BY <1>1, <2>1, <3>1, <3>2
  <2>2. CASE /\ i \in DOMAIN up[l] /\ up'[l][i] = up[l][i]
             /\ up[l][i].call \in Calls /\ up[l][i].call # c
    <3>1. PICK d \in Calls : d = up[l][i].call /\ d # c /\ d = up'[l][i].call
      BY <2>2
    <3>2. Unseen(d)'
      BY <1>3, <2>2, <3>1 DEF LifeInv, HeadersFirst
    <3>3. Unseen(up[l][i].call)'
      BY <3>1, <3>2 DEF Unseen
    <3>4. ASSUME NEW j \in DOMAIN up'[l], up'[l][j].call = d, up'[l][j].kind = "headers"
          PROVE  j = i
      <4>1. j \in DOMAIN up[l] /\ up'[l][j] = up[l][j]
        BY <1>1, <1>5, <3>1, <3>4
      <4> QED
        BY <2>2, <3>1, <3>4, <4>1 DEF LifeInv, HeadersFirst, HeadersAt
    <3> QED
      BY <3>1, <3>3, <3>4
  <2> QED
    BY <1>5, <2>1, <2>2
<1>9. IdleUnseen' /\ KnownUnanswered'
  <2>1. \A d \in Calls : Idle(d)' => Idle(d)
    BY <1>2 DEF Idle, BeginTurn
  <2> QED
    BY <1>3, <2>1 DEF LifeInv, IdleUnseen, KnownUnanswered, SameServer, BeginTurn
<1> QED
  BY <1>6, <1>7, <1>8, <1>9 DEF LifeInv
\* A step of the server on call c, whose connection is k.
LEMMA LifeServer ==
    ASSUME TypeOK, LifeInv, NEW k \in Conns, NEW c \in Calls,
           calls' = calls, ~Idle(c), calls[c].conn = k,
           \A l \in Conns : \E m \in Int : \A i \in DOMAIN up'[l] :
              i \in Int /\ i + m \in DOMAIN up[l] /\ up'[l][i] = up[l][i + m],
           \A d \in Calls : d # c =>
              rstreams'[d].known = rstreams[d].known /\ reply'[d] = reply[d],
           \A l \in Conns :
              \/ busy'[l] \in {busy[l], Reading}
              \/ l = k /\ busy'[l] \in Work /\ busy'[l].call = c,
           \/ Unseen(c)'
           \/ \A l \in Conns : \A i \in DOMAIN up'[l] :
                 ~(up'[l][i].call = c /\ up'[l][i].kind = "headers"),
           rstreams'[c].known => reply'[c] = NoReply,
           \A l \in Conns : busy'[l].call = c => l = k /\ reply'[c] = NoReply
    PROVE  LifeInv'
<1>1. ASSUME NEW d \in Calls, d # c, Unseen(d) PROVE Unseen(d)'
  <2>1. ASSUME NEW l \in Conns PROVE busy'[l].call # d
    BY <1>1, WorkFacts DEF Unseen
  <2> QED
    BY <1>1, <2>1 DEF Unseen
<1>2. FramesHome'
  <2> SUFFICES ASSUME NEW l \in Conns, NEW i \in DOMAIN up'[l]
               PROVE  calls[up'[l][i].call].at # "idle"
                      /\ calls[up'[l][i].call].conn = l
    BY DEF FramesHome, Idle
  <2>1. PICK j \in DOMAIN up[l] : up'[l][i] = up[l][j]
    OBVIOUS
  <2> QED
    BY <2>1 DEF LifeInv, FramesHome, Idle
<1>3. BusyHome'
  <2> SUFFICES ASSUME NEW l \in Conns, busy'[l] # Reading
               PROVE  calls[busy'[l].call].conn = l /\ reply'[busy'[l].call] = NoReply
    BY DEF BusyHome
  <2>1. CASE busy'[l].call = c
    BY <2>1
  <2>2. CASE busy'[l].call # c
    <3>1. busy'[l] = busy[l] /\ busy[l].call \in Calls
      BY <2>2, WorkFacts
    <3> QED
      BY <2>2, <3>1 DEF LifeInv, BusyHome
  <2> QED
    BY <2>1, <2>2
<1>4. HeadersFirst'
  <2> SUFFICES ASSUME NEW l \in Conns, NEW i \in DOMAIN up'[l],
                      up'[l][i].kind = "headers"
               PROVE  /\ Unseen(up[l][i].call)'
                      /\ \A j \in DOMAIN up'[l] :
                            up'[l][j].call = up'[l][i].call /\ up'[l][j].kind = "headers"
                            => j = i
    BY DEF HeadersFirst, HeadersAt
  <2>1. PICK m \in Int : \A j \in DOMAIN up'[l] :
              j \in Int /\ j + m \in DOMAIN up[l] /\ up'[l][j] = up[l][j + m]
    OBVIOUS
  <2>2. PICK d \in Calls : d = up'[l][i].call /\ d = up[l][i + m].call
    BY <2>1, UpFacts
  <2>3. Unseen(d)
    BY <2>1, <2>2 DEF LifeInv, HeadersFirst
  <2>4. Unseen(d)'
    BY <1>1, <2>2, <2>3
  <2>5. Unseen(up[l][i].call)'
    BY <2>2, <2>4 DEF Unseen
  <2>6. ASSUME NEW j \in DOMAIN up'[l], up'[l][j].call = d, up'[l][j].kind = "headers"
        PROVE  j = i
    <3>1. HeadersAt(l, j + m, d) /\ j + m \in DOMAIN up[l] /\ i + m \in DOMAIN up[l]
          /\ up[l][i + m].kind = "headers"
      BY <2>1, <2>6 DEF HeadersAt
    <3>2. j + m = i + m
      BY <2>2, <3>1 DEF LifeInv, HeadersFirst
    <3> QED
      BY <2>1, <3>2
  <2> QED
    BY <2>2, <2>5, <2>6
<1>5. IdleUnseen'
  BY <1>1 DEF LifeInv, IdleUnseen, Idle
<1>6. KnownUnanswered'
  BY DEF LifeInv, KnownUnanswered
<1> QED
  BY <1>2, <1>3, <1>4, <1>5, <1>6 DEF LifeInv

\* Serve answers a call that nobody else works on.
LEMMA LifeServing ==
    ASSUME TypeOK, LifeInv, NEW k \in Conns, NEW c \in Calls,
           busy[k] \in Work, c = busy[k].call, Serving(k, c)
    PROVE  LifeInv' /\ \A d \in Calls : reply[d] # NoReply => reply'[d] = reply[d]
<1>1. busy[k] # Reading /\ ~Unseen(c)
  BY WorkFacts DEF Unseen
<1>2. ~Idle(c) /\ calls[c].conn = k /\ reply[c] = NoReply
  BY <1>1 DEF LifeInv, IdleUnseen, BusyHome
<1>3. /\ \A l \in Conns : busy'[l] = IF l = k THEN Reading ELSE busy[l]
      /\ \A d \in Calls : rstreams'[d] = IF d = c THEN Unknown ELSE rstreams[d]
      /\ \A d \in Calls : d # c => reply'[d] = reply[d]
      /\ UNCHANGED <<up, calls>>
  BY DEF Serving, TypeOK
<1>4. ASSUME NEW l \in Conns PROVE busy'[l].call # c
  BY <1>2, <1>3, WorkFacts DEF LifeInv, BusyHome
<1>5. ASSUME NEW l \in Conns, NEW i \in DOMAIN up'[l]
      PROVE  ~(up'[l][i].call = c /\ up'[l][i].kind = "headers")
  BY <1>1, <1>3, <1>5 DEF LifeInv, HeadersFirst
<1>6. ASSUME NEW l \in Conns
      PROVE  \E m \in Int : \A i \in DOMAIN up'[l] :
                i \in Int /\ i + m \in DOMAIN up[l] /\ up'[l][i] = up[l][i + m]
  <2>1. up'[l] = up[l] /\ DOMAIN up[l] \subseteq Int
    BY <1>3 DEF TypeOK
  <2>2. \A i \in DOMAIN up'[l] : i \in Int /\ i + 0 = i
    BY <2>1
  <2> QED
    BY <2>1, <2>2
<1>7. ~rstreams'[c].known
  BY <1>3, StreamConstants
<1>8. LifeInv'
  BY <1>2, <1>3, <1>4, <1>5, <1>6, <1>7, LifeServer
<1> QED
  BY <1>2, <1>3, <1>8
\* A turn of serve answers at most the call of the frame it has read.
LEMMA LifeTurn ==
    ASSUME TypeOK, LifeInv, NEW k \in Conns, NEW c \in Calls,
           up[k] # << >>, busy[k] = Reading, c = Head(up[k]).call, Turn(k, c)
    PROVE  LifeInv' /\ \A d \in Calls : reply[d] # NoReply => reply'[d] = reply[d]
<1>1. /\ up[k] \in Seq(Frames) /\ 1 \in DOMAIN up[k] /\ Head(up[k]) = up[k][1]
      /\ \A i \in DOMAIN Tail(up[k]) :
            /\ i \in Int /\ i + 1 \in DOMAIN up[k] /\ i + 1 # 1
            /\ Tail(up[k])[i] = up[k][i + 1]
  BY TailFrame DEF TypeOK
<1>2. /\ \A l \in Conns : up'[l] = IF l = k THEN Tail(up[k]) ELSE up[l]
      /\ calls' = calls
  BY DEF Turn, TypeOK
<1>3. ~Idle(c) /\ calls[c].conn = k
  BY <1>1 DEF LifeInv, FramesHome
<1>4. \A l \in Conns : busy[l].call # c
  BY <1>3, WorkFacts DEF LifeInv, BusyHome
<1>5. ASSUME NEW l \in Conns
      PROVE  \E m \in Int : \A i \in DOMAIN up'[l] :
                i \in Int /\ i + m \in DOMAIN up[l] /\ up'[l][i] = up[l][i + m]
  <2>1. CASE l = k
    <3>1. \A i \in DOMAIN up'[l] :
              i \in Int /\ i + 1 \in DOMAIN up[l] /\ up'[l][i] = up[l][i + 1]
      BY <1>1, <1>2, <2>1
    <3> QED
      BY <3>1
  <2>2. CASE l # k
    <3>1. up'[l] = up[l] /\ DOMAIN up[l] \subseteq Int
      BY <1>2, <2>2 DEF TypeOK
    <3>2. \A i \in DOMAIN up'[l] : i \in Int /\ i + 0 = i
      BY <3>1
    <3>3. \A i \in DOMAIN up'[l] :
              i \in Int /\ i + 0 \in DOMAIN up[l] /\ up'[l][i] = up[l][i + 0]
      BY <3>1, <3>2, Zenon
    <3>4. 0 \in Int
      OBVIOUS
    <3> QED
      BY <3>3, <3>4, Zenon
  <2> QED
    BY <2>1, <2>2
<1>6. ASSUME Accepts(k, c) PROVE reply[c] = NoReply
  BY <1>1, <1>6 DEF Accepts, LifeInv, HeadersFirst, KnownUnanswered, Unseen
<1>7. ASSUME Accepts(k, c), NEW l \in Conns, NEW i \in DOMAIN up'[l],
             up'[l][i].call = c, up'[l][i].kind = "headers"
      PROVE  FALSE
  <2>1. CASE l = k
    <3>1. i + 1 \in DOMAIN up[k] /\ i + 1 # 1 /\ HeadersAt(k, i + 1, c)
          /\ up[k][i + 1].kind = "headers" /\ up[k][i + 1].call = c
      BY <1>1, <1>2, <1>7, <2>1 DEF HeadersAt
    <3>2. Unseen(c) /\ ~HeadersAt(k, 1, c)
      BY <1>1, <3>1 DEF LifeInv, HeadersFirst
    <3> QED
      BY <1>1, <1>7, <3>2 DEF Accepts, HeadersAt, Unseen
  <2>2. CASE l # k
    BY <1>2, <1>3, <1>7, <2>2 DEF LifeInv, FramesHome
  <2> QED
    BY <2>1, <2>2
<1>8. CASE UNCHANGED <<rstreams, busy, reply>>
  <2>1. CASE Accepts(k, c)
    BY <1>2, <1>3, <1>4, <1>5, <1>6, <1>7, <1>8, <2>1, LifeServer
  <2>2. CASE ~Accepts(k, c)
    <3>1. reply[c] = NoReply =>
             Unseen(c)' /\ ~rstreams'[c].known
      BY <1>4, <1>8, <2>2 DEF Accepts, Unseen
    <3>2. CASE reply[c] = NoReply
      BY <1>2, <1>3, <1>4, <1>5, <1>8, <2>2, <3>1, <3>2, LifeServer DEF Accepts
    <3>3. CASE reply[c] # NoReply
      <4>1. ASSUME NEW l \in Conns, NEW i \in DOMAIN up'[l],
                   up'[l][i].call = c, up'[l][i].kind = "headers"
            PROVE  FALSE
        <5>1. PICK j \in DOMAIN up[l] : up'[l][i] = up[l][j]
          BY <1>5
        <5> QED
          BY <3>3, <4>1, <5>1 DEF LifeInv, HeadersFirst, Unseen
      <4> QED
        BY <1>2, <1>3, <1>4, <1>5, <1>8, <2>2, <4>1, LifeServer DEF Accepts
    <3> QED
      BY <3>2, <3>3
  <2> QED
    BY <2>1, <2>2
<1>9. ASSUME NEW s \in Streams, rstreams' = [rstreams EXCEPT ![c] = s],
             s.known => Accepts(k, c), UNCHANGED <<busy, reply>>
      PROVE  LifeInv'
  <2>1. \A d \in Calls : rstreams'[d] = IF d = c THEN s ELSE rstreams[d]
    BY <1>9 DEF TypeOK
  <2>2. CASE Accepts(k, c)
    BY <1>2, <1>3, <1>4, <1>5, <1>6, <1>7, <1>9, <2>1, <2>2, LifeServer
  <2>3. CASE ~Accepts(k, c)
    <3>1. CASE reply[c] = NoReply
      <4>1. Unseen(c)'
        BY <1>4, <1>9, <2>1, <2>3, <3>1 DEF Unseen
      <4> QED
        BY <1>2, <1>3, <1>4, <1>5, <1>9, <2>1, <2>3, <3>1, <4>1, LifeServer
    <3>2. CASE reply[c] # NoReply
      <4>1. ASSUME NEW l \in Conns, NEW i \in DOMAIN up'[l],
                   up'[l][i].call = c, up'[l][i].kind = "headers"
            PROVE  FALSE
        <5>1. PICK j \in DOMAIN up[l] : up'[l][i] = up[l][j]
          BY <1>5
        <5> QED
          BY <3>2, <4>1, <5>1 DEF LifeInv, HeadersFirst, Unseen
      <4> QED
        BY <1>2, <1>3, <1>4, <1>5, <1>9, <2>1, <2>3, <4>1, LifeServer
    <3> QED
      BY <3>1, <3>2
  <2> QED
    BY <2>2, <2>3
<1>10. ASSUME NEW s \in Streams, NEW w \in Work, Accepts(k, c), w.call = c,
              rstreams' = [rstreams EXCEPT ![c] = s],
              busy' = [busy EXCEPT ![k] = w], reply' = reply
       PROVE  LifeInv'
  <2>1. /\ \A d \in Calls : rstreams'[d] = IF d = c THEN s ELSE rstreams[d]
        /\ \A l \in Conns : busy'[l] = IF l = k THEN w ELSE busy[l]
    BY <1>10 DEF TypeOK
  <2>2. \A l \in Conns : busy'[l].call = c => l = k /\ reply'[c] = NoReply
    BY <1>4, <1>6, <1>10, <2>1
  <2> QED
    BY <1>2, <1>3, <1>5, <1>6, <1>7, <1>10, <2>1, <2>2, LifeServer
<1>11. ASSUME NEW answer, Accepts(k, c),
              rstreams' = [rstreams EXCEPT ![c] = Unknown], busy' = busy,
              reply' = reply \/ reply' = [reply EXCEPT ![c] = answer]
       PROVE  LifeInv'
  <2>1. /\ \A d \in Calls : rstreams'[d] = IF d = c THEN Unknown ELSE rstreams[d]
        /\ \A d \in Calls : d # c => reply'[d] = reply[d]
    BY <1>11 DEF TypeOK
  <2>2. ~rstreams'[c].known
    BY <2>1, StreamConstants
  <2> QED
    <3>1. \A l \in Conns : busy'[l] \in {busy[l], Reading} /\ busy'[l].call # c
      BY <1>4, <1>11
    <3>2. \A l \in Conns : \A i \in DOMAIN up'[l] :
              ~(up'[l][i].call = c /\ up'[l][i].kind = "headers")
      BY <1>7, <1>11
    <3> QED
      BY <1>2, <1>3, <1>5, <2>1, <2>2, <3>1, <3>2, LifeServer
<1>12. LifeInv'
  BY <1>8, <1>9, <1>10, <1>11 DEF Turn
<1>13. \A d \in Calls : reply[d] # NoReply => reply'[d] = reply[d]
  BY <1>6 DEF Turn, TypeOK
<1> QED
  BY <1>12, <1>13

\* Every step keeps the life of the calls, and what was answered.
LEMMA LifeStep ==
    TypeOK /\ LifeInv /\ [Next]_vars =>
        LifeInv' /\ \A d \in Calls : reply[d] # NoReply => reply'[d] = reply[d]
<1> SUFFICES ASSUME TypeOK, LifeInv, [Next]_vars
             PROVE  LifeInv' /\ \A d \in Calls : reply[d] # NoReply => reply'[d] = reply[d]
  OBVIOUS
<1>1. ASSUME NEW c \in Calls, ClientTurn(c) PROVE LifeInv' /\ SameServer
  <2>1. \A d \in Calls : /\ Idle(d)' => Idle(d)
                         /\ ~Idle(d) => calls'[d].conn = calls[d].conn
    BY <1>1 DEF ClientTurn, TypeOK, Idle
  <2>2. ASSUME NEW k \in Conns, NEW i \in DOMAIN up'[k]
        PROVE  \/ i \in DOMAIN up[k] /\ up'[k][i] = up[k][i]
               \/ /\ up'[k][i].kind # "headers" /\ up'[k][i].call \in Calls
                  /\ ~Idle(up'[k][i].call) /\ calls[up'[k][i].call].conn = k
    <3>1. CASE up' = up
      BY <3>1
    <3>2. ASSUME NEW f \in Frames, f.call = c, f.kind # "headers",
                 up' = [up EXCEPT ![calls[c].conn] = Append(@, f)]
          PROVE  \/ i \in DOMAIN up[k] /\ up'[k][i] = up[k][i]
                 \/ k = calls[c].conn /\ up'[k][i] = f
      <4>1. CASE k = calls[c].conn
        <5>1. up'[k] = Append(up[k], f) /\ up[k] \in Seq(Frames)
          BY <3>2, <4>1 DEF TypeOK
        <5> QED
          BY <4>1, <5>1, AppendFrame
      <4>2. CASE k # calls[c].conn
        BY <3>2, <4>2 DEF TypeOK
      <4> QED
        BY <4>1, <4>2
    <3> QED
      BY <1>1, <3>1, <3>2 DEF ClientTurn
  <2> QED
    BY <1>1, <2>1, <2>2, LifeClient DEF ClientTurn
<1>2. ASSUME NEW k \in Conns, HangUpTurn(k) PROVE LifeInv' /\ SameServer
  <2>1. \A l \in Conns : \A i \in DOMAIN up'[l] :
            i \in DOMAIN up[l] /\ up'[l][i] = up[l][i]
    BY <1>2 DEF HangUpTurn, TypeOK
  <2> QED
    BY <1>2, <2>1, LifeClient DEF HangUpTurn
<1>3. ASSUME SameServer, UNCHANGED <<up, calls>> PROVE LifeInv'
  BY <1>3, LifeClient DEF Idle
<1> QED
  BY <1>1, <1>2, <1>3, LifeBegin, LifeTurn, LifeServing, Turns
  DEF SameServer, BeginTurn

\* A call is answered once: what the client has received of it never changes.
THEOREM OneAnswer == Spec => AnsweredOnce
<1>1. Init => TypeOK /\ LifeInv
  BY TypeInit, LifeInit
<1>2. TypeOK /\ LifeInv /\ [Next]_vars => (TypeOK /\ LifeInv)'
  BY TypeStep, LifeStep
<1>3. TypeOK /\ LifeInv /\ [Next]_vars =>
          [\A c \in Calls : reply[c] # NoReply => reply'[c] = reply[c]]_vars
  BY LifeStep
<1> QED
  BY <1>1, <1>2, <1>3, PTL DEF Spec, AnsweredOnce

-----------------------------------------------------------------------------
(***************************************************************************)
(* Sums over the connections.                                              *)
(***************************************************************************)
PickIn(S) == CHOOSE k \in S : TRUE

\* One level of the recursion of SumOver.
SumStep(f, g, S) == IF S = {} THEN 0 ELSE f[PickIn(S)] + g[S \ {PickIn(S)}]

IsSum(f, g) == g = [S \in SUBSET Conns |-> SumStep(f, g, S)]

\* A set that is not empty loses an element.
LEMMA PickRemoved ==
    ASSUME NEW S \in SUBSET Conns, S # {}
    PROVE  /\ PickIn(S) \in S
           /\ S \ {PickIn(S)} \in SUBSET Conns
           /\ Cardinality(S) \in Nat /\ Cardinality(S \ {PickIn(S)}) = Cardinality(S) - 1
<1>1. PickIn(S) \in S
  BY DEF PickIn
<1>2. IsFiniteSet(S)
  BY ReplayAssumption, FS_Subset
<1> QED
  BY <1>1, <1>2, FS_RemoveElement, FS_CardinalityType

\* Sets of connections, one element after the other.
LEMMA ConnsInduction ==
    ASSUME NEW P \in SUBSET (SUBSET Conns), {} \in P,
           \A S \in SUBSET Conns : S # {} /\ S \ {PickIn(S)} \in P => S \in P
    PROVE  P = SUBSET Conns
<1> DEFINE N == {n \in Nat : \A S \in SUBSET Conns : Cardinality(S) = n => S \in P}
<1>1. \A S \in SUBSET Conns : Cardinality(S) \in Nat /\ (Cardinality(S) = 0 => S = {})
  BY ReplayAssumption, FS_Subset, FS_CardinalityType, FS_EmptySet
<1>2. 0 \in N
  BY <1>1
<1>3. ASSUME NEW n \in N PROVE n + 1 \in N
  <2> SUFFICES ASSUME NEW S \in SUBSET Conns, Cardinality(S) = n + 1
               PROVE  S \in P
    OBVIOUS
  <2>1. S # {}
    BY FS_EmptySet
  <2>2. S \ {PickIn(S)} \in P
    BY <2>1, PickRemoved
  <2> QED
    BY <2>1, <2>2
<1> HIDE DEF N
<1>4. N = Nat
  BY <1>2, <1>3, NumberInduction DEF N
<1> QED
  BY <1>1, <1>4 DEF N

\* The recursion has a solution: what n levels of it give is right for the
\* sets of fewer than n connections.
LEMMA SumExists ==
    ASSUME NEW f
    PROVE  \E g : IsSum(f, g)
<1> DEFINE Right(g, n) == \A S \in SUBSET Conns : Cardinality(S) < n => g[S] = SumStep(f, g, S)
           N == {n \in Nat : \E g : g = [S \in SUBSET Conns |-> g[S]] /\ Right(g, n)}
<1>1. 0 \in N
  <2>1. \A S \in SUBSET Conns : ~(Cardinality(S) < 0)
    BY ReplayAssumption, FS_Subset, FS_CardinalityType
  <2>2. Right([S \in SUBSET Conns |-> 0], 0)
    BY <2>1
  <2> QED
    BY <2>2
<1>2. ASSUME NEW n \in N PROVE n + 1 \in N
  <2>1. PICK g : Right(g, n)
    OBVIOUS
  <2>2. PICK h : h = [S \in SUBSET Conns |-> SumStep(f, g, S)]
    OBVIOUS
  <2>3. ASSUME NEW S \in SUBSET Conns, Cardinality(S) < n + 1
        PROVE  h[S] = SumStep(f, h, S)
    <3>1. CASE S = {}
      BY <2>2, <3>1 DEF SumStep
    <3>2. CASE S # {}
      <4>1. PICK T : T = S \ {PickIn(S)}
        OBVIOUS
      <4>2. T \in SUBSET Conns /\ Cardinality(T) < n
        BY <2>3, <3>2, <4>1, PickRemoved
      <4>3. g[T] = SumStep(f, g, T)
        BY <2>1, <4>2
      <4>4. h[T] = g[T]
        BY <2>2, <4>2, <4>3
      <4>5. h[S] = SumStep(f, g, S)
        BY <2>2
      <4> QED
        BY <3>2, <4>1, <4>4, <4>5 DEF SumStep
    <3> QED
      BY <3>1, <3>2
  <2>4. h = [S \in SUBSET Conns |-> h[S]]
    BY <2>2
  <2>5. n + 1 \in Nat
    OBVIOUS
  <2>6. Right(h, n + 1)
    BY <2>3
  <2> HIDE DEF Right
  <2> QED
    BY <2>4, <2>5, <2>6
<1> HIDE DEF N
<1>3. N = Nat
  BY <1>1, <1>2, NumberInduction DEF N
<1>4. Cardinality(Conns) + 1 \in N /\ Cardinality(Conns) \in Nat
  BY <1>3, ReplayAssumption, FS_CardinalityType
<1>5. PICK g : g = [S \in SUBSET Conns |-> g[S]] /\ Right(g, Cardinality(Conns) + 1)
  BY <1>4 DEF N
<1>6. \A S \in SUBSET Conns : Cardinality(S) < Cardinality(Conns) + 1
  BY <1>4, ReplayAssumption, FS_Subset, FS_CardinalityType
<1>7. \A S \in SUBSET Conns : g[S] = SumStep(f, g, S)
  BY <1>5, <1>6
<1>8. IsSum(f, g)
  <2> DEFINE h == [S \in SUBSET Conns |-> SumStep(f, g, S)]
  <2>1. h = [S \in SUBSET Conns |-> g[S]]
    BY <1>7
  <2> QED
    BY <1>5, <2>1 DEF IsSum
<1> QED
  BY <1>8

\* SumOver is the value of one.
LEMMA SumOverIsSum ==
    ASSUME NEW f
    PROVE  \E g : IsSum(f, g) /\ SumOver(f) = g[Conns]
<1> DEFINE G == CHOOSE g : IsSum(f, g)
<1>1. IsSum(f, G)
  BY SumExists
<1>2. SumOver(f) = G[Conns]
  BY DEF SumOver, IsSum, SumStep, PickIn
<1> QED
  BY <1>1, <1>2

\* Nothing adds up to nothing.
LEMMA SumOfZeros ==
    ASSUME NEW f, f = [k \in Conns |-> 0]
    PROVE  SumOver(f) = 0
<1>1. PICK g : IsSum(f, g) /\ SumOver(f) = g[Conns]
  BY SumOverIsSum
<1> DEFINE P == {S \in SUBSET Conns : g[S] = 0}
<1>2. \A S \in SUBSET Conns : g[S] = SumStep(f, g, S)
  BY <1>1 DEF IsSum
<1>3. {} \in P
  BY <1>2 DEF SumStep
<1>4. ASSUME NEW S \in SUBSET Conns, S # {}, S \ {PickIn(S)} \in P PROVE S \in P
  BY <1>2, <1>4, PickRemoved DEF SumStep
<1> HIDE DEF P
<1>5. P = SUBSET Conns
  <2>1. P \in SUBSET (SUBSET Conns)
    BY DEF P
  <2> QED
    BY <1>3, <1>4, <2>1, ConnsInduction
<1> QED
  BY <1>1, <1>5 DEF P

\* One more at one connection is one more in all.
LEMMA SumOfOneMore ==
    ASSUME NEW f \in [Conns -> Int], NEW k \in Conns
    PROVE  /\ SumOver(f) \in Int
           /\ SumOver([f EXCEPT ![k] = @ + 1]) = SumOver(f) + 1
<1>1. PICK f1 : f1 = [f EXCEPT ![k] = @ + 1]
  OBVIOUS
<1>2. f1[k] = f[k] + 1 /\ \A l \in Conns : l # k => f1[l] = f[l]
  BY <1>1
<1>3. PICK g : IsSum(f, g) /\ SumOver(f) = g[Conns]
  BY SumOverIsSum
<1>4. PICK g1 : IsSum(f1, g1) /\ SumOver(f1) = g1[Conns]
  BY SumOverIsSum
<1> DEFINE More(S) == IF k \in S THEN 1 ELSE 0
           P == {S \in SUBSET Conns : g[S] \in Int /\ g1[S] = g[S] + More(S)}
<1>5. \A S \in SUBSET Conns : g[S] = SumStep(f, g, S) /\ g1[S] = SumStep(f1, g1, S)
  BY <1>3, <1>4 DEF IsSum
<1>6. {} \in P
  <2>1. {} \in SUBSET Conns /\ More({}) = 0
    OBVIOUS
  <2>2. g[{}] = 0 /\ g1[{}] = 0
    BY <1>5, <2>1 DEF SumStep
  <2> HIDE DEF More
  <2> QED
    BY <2>1, <2>2
<1>7. ASSUME NEW S \in SUBSET Conns, S # {}, S \ {PickIn(S)} \in P PROVE S \in P
  <2>1. PICK l, T : l = PickIn(S) /\ T = S \ {l}
    OBVIOUS
  <2>2. l \in S /\ l \in Conns /\ l \notin T /\ T \in P
    BY <1>7, <2>1, PickRemoved
  <2>3. g[S] = f[l] + g[T] /\ g1[S] = f1[l] + g1[T]
    BY <1>5, <1>7, <2>1 DEF SumStep
  <2>4. g[T] \in Int /\ g1[T] = g[T] + More(T)
    BY <2>2
  <2>5. CASE l = k
    BY <1>2, <2>2, <2>3, <2>4, <2>5
  <2>6. CASE l # k
    <3>1. k \in S <=> k \in T
      BY <2>1, <2>6
    <3> QED
      BY <1>2, <2>2, <2>3, <2>4, <2>6, <3>1
  <2> QED
    BY <2>5, <2>6
<1> HIDE DEF P
<1>8. P = SUBSET Conns
  <2>1. P \in SUBSET (SUBSET Conns)
    BY DEF P
  <2> QED
    BY <1>6, <1>7, <2>1, ConnsInduction
<1>9. g[Conns] \in Int /\ g1[Conns] = g[Conns] + More(Conns)
  BY <1>8 DEF P
<1> QED
  BY <1>1, <1>3, <1>4, <1>9

-----------------------------------------------------------------------------
(***************************************************************************)
(* ProbesPartitionOpens.                                                   *)
(***************************************************************************)
ProbeType == probeN \in [Conns -> [CounterTypes -> Nat]]

\* advance notes the open it is about to make, and counts it for the
\* connection; Serve makes it, and the session counts it.
ProbeTurn(k) ==
    \/ /\ busy[k] = Reading
       /\ \E w \in Work : busy' = [busy EXCEPT ![k] = w] /\ probeN' = CountProbe(k, w.typ)
       /\ streamN' = streamN
    \/ /\ busy[k] \in Work
       /\ busy' = [busy EXCEPT ![k] = Reading]
       /\ streamN' = IF busy[k].typ \in CounterTypes
                     THEN [streamN EXCEPT ![busy[k].typ] = @ + 1] ELSE streamN
       /\ probeN' = probeN

\* advance does so, or leaves the counters alone.
LEMMA AdvanceProbes ==
    ASSUME NEW k \in Conns, NEW c \in Calls, NEW buffered \in Seq(Messages),
           NEW halfClosed \in BOOLEAN, Advance(k, c, buffered, halfClosed),
           busy[k] = Reading
    PROVE  UNCHANGED <<probeN, busy, streamN>> \/ ProbeTurn(k)
<1>1. PICK typ : typ = InferReplayType(k, buffered, halfClosed)
  OBVIOUS
<1>2. typ \in {"server", "client", "bidi", "wait"}
  BY <1>1 DEF InferReplayType
<1>3. CASE Resolved(typ)
  <2>1. PICK w : w = [call |-> c, typ |-> typ, msgs |-> buffered,
                      halfClosed |-> halfClosed]
    OBVIOUS
  <2>2. w \in Work /\ w.typ = typ
    BY <1>2, <1>3, <2>1 DEF Work, ReplayTypes, Resolved
  <2>3. /\ busy' = [busy EXCEPT ![k] = w]
        /\ probeN' = CountProbe(k, typ) /\ streamN' = streamN
    BY <1>1, <1>3, <2>1 DEF Advance
  <2> QED
    BY <2>2, <2>3 DEF ProbeTurn
<1>4. CASE ~Resolved(typ)
  BY <1>1, <1>4 DEF Advance
<1> QED
  BY <1>3, <1>4

\* A frame does no more than advance does.
LEMMA FrameProbes ==
    ASSUME TypeOK, NEW k \in Conns, HandleFrame(k)
    PROVE  UNCHANGED <<probeN, busy, streamN>> \/ ProbeTurn(k)
<1>1. up[k] # << >> /\ busy[k] = Reading
  BY DEF HandleFrame
<1>2. PICK f : f = Head(up[k])
  OBVIOUS
<1>3. f \in Frames
  BY <1>1, <1>2, TailFrame DEF TypeOK
<1>4. f.call \in Calls /\ f.msgs \in Seq(Messages) /\ f.end \in BOOLEAN
  BY <1>3 DEF Frames
<1>5. CASE OnHeaders(k, f)
  <2>1. CASE Advance(k, f.call, << >>, TRUE)
    <3>1. << >> \in Seq(Messages) /\ TRUE \in BOOLEAN
      OBVIOUS
    <3> QED
      BY <1>1, <1>4, <2>1, <3>1, AdvanceProbes
  <2>2. CASE ~Advance(k, f.call, << >>, TRUE)
    BY <1>5, <2>2 DEF OnHeaders, WriteTrailersOnly
  <2> QED
    BY <2>1, <2>2
<1>6. CASE OnData(k, f)
  <2>1. CASE Advance(k, f.call, rstreams[f.call].buffered \o f.msgs, f.end)
    <3>1. rstreams[f.call].buffered \o f.msgs \in Seq(Messages)
      BY <1>4, ConcatProperties DEF TypeOK, Streams
    <3> QED
      BY <1>1, <1>4, <2>1, <3>1, AdvanceProbes
  <2>2. CASE ~Advance(k, f.call, rstreams[f.call].buffered \o f.msgs, f.end)
    BY <1>6, <2>2 DEF OnData, WriteTrailersOnly, serverVars
  <2> QED
    BY <2>1, <2>2
<1>7. CASE OnReset(f)
  BY <1>7 DEF OnReset
<1> QED
  BY <1>2, <1>5, <1>6, <1>7 DEF HandleFrame

\* Nothing else touches the counters.
LEMMA Probes ==
    ASSUME TypeOK, [Next]_vars
    PROVE  UNCHANGED <<probeN, busy, streamN>> \/ \E k \in Conns : ProbeTurn(k)
<1>1. ASSUME NEW c \in Calls, NEW k, Begin(c, k)
      PROVE  UNCHANGED <<probeN, busy, streamN>>
  BY <1>1 DEF Begin, serverVars
<1>2. ASSUME NEW c \in Calls, ClientStep(c) \/ Cancel(c)
      PROVE  UNCHANGED <<probeN, busy, streamN>>
  BY <1>2 DEF ClientStep, ClientSend, ClientClose, ClientRecv, ClientEnds, Cancel,
              serverVars
<1>3. ASSUME NEW k \in Conns, HangUp(k) PROVE UNCHANGED <<probeN, busy, streamN>>
  BY <1>3 DEF HangUp, serverVars
<1>4. ASSUME NEW k \in Conns, Serve(k) PROVE ProbeTurn(k)
  <2>1. busy[k] \in Work
    BY <1>4 DEF Serve, TypeOK
  <2> QED
    BY <1>4, <2>1 DEF Serve, ProbeTurn
<1>5. CASE UNCHANGED vars
  BY <1>5 DEF vars
<1> QED
  BY <1>1, <1>2, <1>3, <1>4, <1>5, FrameProbes DEF Next, ServerStep

\* A connection that has begun an open, or has none, has had as many served as
\* before; one that is served has had one more.
LEMMA LeadTurn ==
    ASSUME TypeOK, ProbeType, NEW k \in Conns, ProbeTurn(k), NEW t \in CounterTypes
    PROVE  /\ ProbeType'
           /\ Lead(t) \in [Conns -> Int]
           /\ \/ Lead(t)' = Lead(t) /\ streamN'[t] = streamN[t]
              \/ /\ Lead(t)' = [Lead(t) EXCEPT ![k] = @ + 1]
                 /\ streamN'[t] = streamN[t] + 1
<1>1. /\ probeN \in [Conns -> [CounterTypes -> Nat]]
      /\ busy \in [Conns -> Work \cup {Reading}] /\ streamN \in [CounterTypes -> Nat]
  BY DEF TypeOK, ProbeType
<1>2. Lead(t) \in [Conns -> Int]
  BY <1>1 DEF Lead
<1>3. Reading.typ = "none" /\ t # "none" /\ \A w \in Work : w.typ \in ReplayTypes
  BY DEF Reading, CounterTypes, Work
<1>4. ASSUME NEW w \in Work, busy[k] = Reading, busy' = [busy EXCEPT ![k] = w],
             probeN' = CountProbe(k, w.typ), streamN' = streamN
      PROVE  ProbeType' /\ Lead(t)' = Lead(t) /\ streamN'[t] = streamN[t]
  <2>1. probeN' \in [Conns -> [CounterTypes -> Nat]]
    BY <1>1, <1>4 DEF CountProbe
  <2>2. /\ probeN'[k][t] = IF w.typ = t THEN probeN[k][t] + 1 ELSE probeN[k][t]
        /\ \A l \in Conns : l # k => probeN'[l] = probeN[l]
    BY <1>1, <1>4 DEF CountProbe
  <2>3. busy'[k] = w /\ \A l \in Conns : l # k => busy'[l] = busy[l]
    BY <1>1, <1>4
  <2>4. ASSUME NEW l \in Conns
        PROVE  probeN'[l][t] - (IF busy'[l].typ = t THEN 1 ELSE 0)
               = probeN[l][t] - (IF busy[l].typ = t THEN 1 ELSE 0)
    <3>1. CASE l = k
      BY <1>1, <1>3, <1>4, <2>2, <2>3, <3>1
    <3>2. CASE l # k
      BY <2>2, <2>3, <3>2
    <3> QED
      BY <3>1, <3>2
  <2>5. Lead(t)' = Lead(t)
    BY <2>4 DEF Lead
  <2> QED
    BY <1>4, <2>1, <2>5 DEF ProbeType
<1>5. ASSUME busy[k] \in Work, busy' = [busy EXCEPT ![k] = Reading], probeN' = probeN,
             streamN' = IF busy[k].typ \in CounterTypes
                        THEN [streamN EXCEPT ![busy[k].typ] = @ + 1] ELSE streamN
      PROVE  /\ ProbeType'
             /\ \/ Lead(t)' = Lead(t) /\ streamN'[t] = streamN[t]
                \/ /\ Lead(t)' = [Lead(t) EXCEPT ![k] = @ + 1]
                   /\ streamN'[t] = streamN[t] + 1
  <2>1. busy'[k].typ = "none" /\ \A l \in Conns : l # k => busy'[l] = busy[l]
    BY <1>1, <1>3, <1>5
  <2>2. CASE busy[k].typ = t
    <3>1. streamN'[t] = streamN[t] + 1
      BY <1>1, <1>5, <2>2
    <3>2. Lead(t)' = [Lead(t) EXCEPT ![k] = @ + 1]
      <4>1. PICK f : f = Lead(t)
        OBVIOUS
      <4>2. f \in [Conns -> Int] /\ f[k] = probeN[k][t] - 1 /\ probeN[k][t] \in Nat
        BY <1>1, <1>2, <2>2, <4>1 DEF Lead
      <4>3. ASSUME NEW l \in Conns
            PROVE  probeN'[l][t] - (IF busy'[l].typ = t THEN 1 ELSE 0)
                   = [f EXCEPT ![k] = @ + 1][l]
        <5>1. CASE l = k
          BY <1>3, <1>5, <2>1, <4>2, <5>1
        <5>2. CASE l # k
          BY <1>5, <2>1, <4>1, <5>2 DEF Lead
        <5> QED
          BY <5>1, <5>2
      <4>4. Lead(t)' = [f EXCEPT ![k] = @ + 1]
        BY <4>2, <4>3 DEF Lead
      <4> QED
        BY <4>1, <4>4
    <3> QED
      BY <1>5, <3>1, <3>2 DEF ProbeType
  <2>3. CASE busy[k].typ # t
    <3>1. streamN'[t] = streamN[t]
      BY <1>1, <1>5, <2>3
    <3>2. Lead(t)' = Lead(t)
      BY <1>1, <1>3, <1>5, <2>1, <2>3 DEF Lead
    <3> QED
      BY <1>5, <3>1, <3>2 DEF ProbeType
  <2> QED
    BY <2>2, <2>3
<1> QED
  BY <1>2, <1>4, <1>5 DEF ProbeTurn

\* No connection has probed at the start.
LEMMA ProbesInit == Init => ProbeType /\ ProbesPartitionOpens
<1> SUFFICES ASSUME Init PROVE ProbeType /\ ProbesPartitionOpens
  OBVIOUS
<1>1. ASSUME NEW t \in CounterTypes PROVE SumOver(Lead(t)) = streamN[t]
  <2>1. Reading.typ = "none" /\ t # "none"
    BY DEF Reading, CounterTypes
  <2>2. Lead(t) = [k \in Conns |-> 0] /\ streamN[t] = 0
    BY <2>1 DEF Init, Lead
  <2> QED
    BY <2>2, SumOfZeros
<1> QED
  BY <1>1 DEF Init, ProbeType, ProbesPartitionOpens

\* Every step keeps the two in balance.
LEMMA ProbesStep ==
    TypeOK /\ ProbeType /\ ProbesPartitionOpens /\ [Next]_vars
        => ProbeType' /\ ProbesPartitionOpens'
<1> SUFFICES ASSUME TypeOK, ProbeType, ProbesPartitionOpens, [Next]_vars
             PROVE  ProbeType' /\ ProbesPartitionOpens'
  OBVIOUS
<1>1. CASE UNCHANGED <<probeN, busy, streamN>>
  BY <1>1 DEF ProbeType, ProbesPartitionOpens, Lead
<1>2. ASSUME NEW k \in Conns, ProbeTurn(k)
      PROVE  ProbeType' /\ ProbesPartitionOpens'
  <2>1. ASSUME NEW t \in CounterTypes
        PROVE  ProbeType' /\ SumOver(Lead(t)') = streamN'[t]
    <3>1. SumOver(Lead(t)) = streamN[t]
      BY DEF ProbesPartitionOpens
    <3>2. PICK f, f1 : f = Lead(t) /\ f1 = Lead(t)'
      OBVIOUS
    <3>3. /\ ProbeType' /\ f \in [Conns -> Int]
          /\ \/ f1 = f /\ streamN'[t] = streamN[t]
             \/ f1 = [f EXCEPT ![k] = @ + 1] /\ streamN'[t] = streamN[t] + 1
      BY <1>2, <3>2, LeadTurn
    <3>4. SumOver([f EXCEPT ![k] = @ + 1]) = SumOver(f) + 1
      BY <3>3, SumOfOneMore
    <3>5. SumOver(f1) = streamN'[t]
      BY <3>1, <3>2, <3>3, <3>4
    <3> QED
      BY <3>2, <3>3, <3>5
  <2>2. "bidi" \in CounterTypes
    BY DEF CounterTypes
  <2>3. \A t \in CounterTypes : SumOver(Lead(t))' = SumOver(Lead(t)')
    BY DEF SumOver
  <2> QED
    BY <2>1, <2>2, <2>3 DEF ProbesPartitionOpens
<1> QED
  BY <1>1, <1>2, Probes

\* On any number of connections, and however their goroutines interleave, the
\* opens that the connections have probed for and been served are those that
\* the session has counted, type by type: replayConn.probeN loses none and
\* counts none twice.
THEOREM ProbesAddUp == Spec => []ProbesPartitionOpens
<1>1. Init => TypeOK /\ ProbeType /\ ProbesPartitionOpens
  BY TypeInit, ProbesInit
<1>2. TypeOK /\ ProbeType /\ ProbesPartitionOpens /\ [Next]_vars
      => TypeOK' /\ ProbeType' /\ ProbesPartitionOpens'
  BY TypeStep, ProbesStep
<1> QED
  BY <1>1, <1>2, PTL DEF Spec
=============================================================================
